SPECIFICATION Spec
CONSTANTS
    alice = alice  bob = bob  a1 = a1  a2 = a2  b1 = b1
    Clients = {alice, bob}
    Sessions = {a1, a2, b1}
    Owner <- OwnerTwo
    Versions = {v1}
    Admissions = {NoTerms}
    MaxSessions = 2
    Faulty = {a1, a2}
    NoTerms = NoTerms
    NoSession = NoSession
SYMMETRY SwapPair
CHECK_DEADLOCK FALSE
INVARIANTS
    OneActivePerClient
    GathersOwnAddresses
    LiveWithinCap
