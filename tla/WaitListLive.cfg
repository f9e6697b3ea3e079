SPECIFICATION FairSpec
CONSTANTS
    sema = sema
    bcast = bcast
    ta = ta
    tb = tb
    Tasklet = {ta, tb}
    WaitList = {sema, bcast}
    Sema = {sema}
    MaxUp = 0
    NoList = NoList
PROPERTIES
    WaitCallsReturn
