\* One environment and the host's own jobs on a host whose limit and enabled change,
\* and a worker that may be killed.
SPECIFICATION FairSpec
CONSTANTS
    Envs = {e1}
    Hosts = {h1}
    h1 = h1
    h2 = h2
    Workers = {w1}
    Requests = {r1}
    NoEnv = NoEnv
    NoHost = NoHost
    NoWorker = NoWorker
    HomeOf <- MCHomeOf
    Offered <- DeployAndReboot
    HostRows <- Changing
    Slots = 2
    MaxJobs = 2
    MaxCrashes = 1
    MaxPauses = 1
CHECK_DEADLOCK FALSE
INVARIANTS
    RebootAlone
PROPERTIES
    LimitKept
    RunningEnds
    QueuedStarts
