SPECIFICATION FairSpec
CONSTANTS
    ta = ta
    tb = tb
    ka = ka
    Timer = {ta, tb}
    Tasklet = {ka}
    Window <- Near
    Backend = "poll"
    Millisecond = 2
    IntMax = 2
    MaxTime = 3
    MaxWakes = 2
    NoTimer = NoTimer
INVARIANTS
    TypeOK
    NoOversleep
    OneCircle
    WaitersAwake
PROPERTIES
    ImplementsService
    DispatchesAllDue
    OverdueFires
    StopEnds
CHECK_DEADLOCK FALSE
