SPECIFICATION FairSpec
CONSTANTS
    r1 = r1  r2 = r2  r3 = r3
    Requests = {r1, r2, r3}
    MaxStreamId = 2
    Oversize = {r3}
    NoRequest = NoRequest
CHECK_DEADLOCK FALSE
INVARIANTS
    OwnResponse
    StreamsHaveOwner
    AnswersUnderway
PROPERTIES
    DaemonStreamsDrain
    ImplementsTunnel
