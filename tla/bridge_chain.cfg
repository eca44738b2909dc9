CONSTANTS
    alice = alice
    bob = bob
    carol = carol
    a1 = a1
    a2 = a2
    b1 = b1
    c1 = c1
    None = None
    Clients = {alice, bob, carol}
    Sessions = {a1, b1, c1}
    Owner <- MCOwner
    Requests <- Chain
SPECIFICATION Spec
CHECK_DEADLOCK FALSE
INVARIANT OtherIsEnding
