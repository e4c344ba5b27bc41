\* Two workers' rounds against the requests for one environment.
SPECIFICATION FairSpec
CONSTANTS
    Workers = {w1, w2}
    Requests = {r1}
    Never = Never
    RemindDays = {1}
    GraceDays = 1
    DefaultDays = 1
    LongestDays = 2
    Extensions = {1, 2}
    LastDay = 3
    MaxAsks = 1
    MaxJobs = 4
CHECK_DEADLOCK FALSE
INVARIANTS
    TypeOK
    DestroyAfterShutdown
PROPERTIES
    InTime
    LeaseEnds
