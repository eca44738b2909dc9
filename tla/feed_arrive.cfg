CONSTANTS
    Relays = {r1, r2}
    Events = {e1, e2, e3}
    MaxSeen = 2
    KeepSeen = 1
    MaxTroubles = 1
SPECIFICATION FairSpec
CHECK_DEADLOCK FALSE
PROPERTIES
    MemoryHolds
    EventsArrive
