SPECIFICATION Spec
CONSTANTS
    worker = worker
    poller = poller
    client = client
    ta = ta
    tb = tb
    td = td
    mu = mu
    nu = nu
    Tasklet = {ta, tb}
    Mutex = {mu}
    RunQ = {worker, poller}
    Client = {client}
    MutexOf <- MCMutexOf
    Target <- MCTarget
    WaitingRunQ = {worker}
    ForeignStop = FALSE
    NoTasklet = NoTasklet
    NoRunQ = NoRunQ
    NoThread = NoThread
INVARIANTS
    TypeOK
    ListWellFormed
    
    FiniIsFinal
    NoMissedSignal
    StopFindsTasklet
PROPERTIES
    
    RunTakesEffect
