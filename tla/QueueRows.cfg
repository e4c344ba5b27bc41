\* One environment, two workers, two handlers: races for its jobs.
SPECIFICATION Spec
CONSTANTS
    Envs = {e1}
    Hosts = {h1}
    h1 = h1
    h2 = h2
    Workers = {w1, w2}
    Requests = {r1, r2}
    NoEnv = NoEnv
    NoHost = NoHost
    NoWorker = NoWorker
    HomeOf <- MCHomeOf
    Offered <- Moves
    HostRows <- TwoAtATime
    Slots = 1
    MaxJobs = 2
    MaxCrashes = 1
    MaxPauses = 0
SYMMETRY Interchangeable
CHECK_DEADLOCK FALSE
INVARIANTS
    TypeOK
    SharedOnlyAfterLoss
PROPERTIES
    TakesTurns
