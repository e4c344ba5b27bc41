\* The rotation schedule, a run of the overdue secrets and the agent's other work.
SPECIFICATION FairSpec
CONSTANTS
    WorkerOrder <- MCWorkerOrder
    AgentOrder <- MCAgentOrder
    MaxRows = 2
    Nothing = Nothing
    MaxPassed = 1
    MaxEvents = 2
CHECK_DEADLOCK FALSE
INVARIANTS
    TypeOK
    WorksAlone
PROPERTIES
    OutcomeLost
    RotationEnds
    RunEnds
