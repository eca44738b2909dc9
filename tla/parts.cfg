SPECIFICATION Spec
CHECK_DEADLOCK FALSE
INVARIANTS
    HttpArrives
    CookiesKeepMeaning
    MessagesAreRead
    KeysAreRead
    PacketsAreChecked
    GateHolds
PROPERTIES
    PortsHold
    PathIsTrue
    CountriesHold
