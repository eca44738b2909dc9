SPECIFICATION FairSpec
CONSTANTS
    p1 = p1  p2 = p2  q1 = q1  q2 = q2  q3 = q3
    r1 = r1  r2 = r2
    Pages = {p1, p2}
    Ports = {q1, q2, q3}
    PageOf <- PortOwners
    Requests = {r1, r2}
    WithBody = {r2}
    NoPort = NoPort
CHECK_DEADLOCK FALSE
INVARIANTS
    Inv
PROPERTIES
    PortTakenBackByOwner
    SettledUnlessAnswered
