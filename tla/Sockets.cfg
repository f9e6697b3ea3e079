SPECIFICATION Spec
CONSTANTS
    NFds = 2
    MaxArrivals = 2
INVARIANTS
    TypeOK
    NoStrayCall
    SlotsOK
    NoLostReadiness
    NothingLeaks
PROPERTIES
    EveryoneServed
CHECK_DEADLOCK FALSE
