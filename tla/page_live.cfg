SPECIFICATION FairSpec
CONSTANTS
    a1 = a1  a2 = a2  a3 = a3
    Attempts = {a1, a2, a3}
    Modes = {"off", "smart"}
    Addresses = {"home"}
    NoTunnel = NoTunnel
    NoAddress = "unknown"
    MaxReconnect = 1
    MaxDialogs <- FewDialogs
CHECK_DEADLOCK FALSE
INVARIANTS
    ReadyIsUp
    NotStranded
PROPERTIES
    LossIsAnswered
    NoneScheduledAfterDeny
