SPECIFICATION FairSpec
CONSTANTS
    alice = alice  bob = bob  a1 = a1  a2 = a2  b1 = b1
    Clients = {alice}
    Sessions = {a1, a2}
    Owner <- OwnerPair
    Versions = {v1}
    Admissions = {NoTerms, v1}
    MaxSessions = 0
    Faulty = {a1}
    NoTerms = NoTerms
    NoSession = NoSession
CHECK_DEADLOCK FALSE
PROPERTIES
    ConnectingEnds
    ReplacedEnds
    GatherServed
