SPECIFICATION Spec
CONSTANTS
    sema = sema
    bcast = bcast
    ta = ta
    tb = tb
    Tasklet = {ta, tb}
    WaitList = {sema, bcast}
    Sema = {sema}
    MaxUp = 2
    NoList = NoList
SYMMETRY Tasklets
INVARIANTS
    TypeOK
    UnwaitingCounts
    FiniIsFinal
    NoDanglingTasklet
    NoLostWakeup
