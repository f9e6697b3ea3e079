SPECIFICATION Spec
CONSTANTS
    worker = worker
    poller = poller
    client = client
    ta = ta
    tb = tb
    td = td
    mu = mu
    nu = nu
    Tasklet = {ta}
    Mutex = {mu}
    RunQ = {worker}
    Client = {client}
    MutexOf <- MCMutexOf
    Target <- MCTarget
    WaitingRunQ = {worker}
    ForeignStop = TRUE
    NoTasklet = NoTasklet
    NoRunQ = NoRunQ
    NoThread = NoThread
PROPERTIES
    RunTakesEffect
