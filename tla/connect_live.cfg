SPECIFICATION FairSpec
CONSTANTS
    r1 = r1  r2 = r2  a1 = a1  a2 = a2  a3 = a3  o1 = o1  o2 = o2
    Relays = {r1, r2}
    DeadRelays = {}
    Arrivals = {a1, a2, a3}
    OfferOf <- TwoSessions
    Families <- OfferFamilies
    Preference = "both"
    NeedsIp = TRUE
    StunResults = {"ip", "nothing"}
    NoOffer = NoOffer
CHECK_DEADLOCK FALSE
INVARIANTS
    PendingIsWatched
    LossIsTold
PROPERTIES
    ConnectSettles
    OfferIsAnswered
