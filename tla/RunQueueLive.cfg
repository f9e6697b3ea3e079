SPECIFICATION FairSpec
CONSTANTS
    worker = worker
    poller = poller
    client = client
    ta = ta
    tb = tb
    td = td
    mu = mu
    nu = nu
    Tasklet = {ta, td}
    Mutex = {mu, nu}
    RunQ = {worker}
    Client = {client}
    MutexOf <- MCMutexOf
    Target <- MCTarget
    WaitingRunQ = {worker}
    ForeignStop = FALSE
    NoTasklet = NoTasklet
    NoRunQ = NoRunQ
    NoThread = NoThread
PROPERTIES
    PendingRuns
    StopReturns
