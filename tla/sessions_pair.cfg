SPECIFICATION Spec
CONSTANTS
    alice = alice  bob = bob  a1 = a1  a2 = a2  b1 = b1
    Clients = {alice}
    Sessions = {a1, a2}
    Owner <- OwnerPair
    Versions = {v1, v2}
    Admissions = {NoTerms, v1, v2}
    MaxSessions = 0
    Faulty = {a1, a2}
    NoTerms = NoTerms
    NoSession = NoSession
SYMMETRY SwapPair
CHECK_DEADLOCK FALSE
INVARIANTS
    OrphansAreBeingClosed
    EverySessionHasAnEnd
    TermsBeforeOffer
PROPERTIES
    ImplementsSlots
