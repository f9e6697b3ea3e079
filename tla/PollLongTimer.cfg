SPECIFICATION Spec
CONSTANTS
    ta = ta
    tb = tb
    ka = ka
    Timer = {ta}
    Tasklet = {}
    Window <- Far
    Backend = "poll"
    Millisecond = 1
    IntMax = 3
    MaxTime = 2
    MaxWakes = 2
    NoTimer = NoTimer
INVARIANTS
    NoOversleep
CHECK_DEADLOCK FALSE
