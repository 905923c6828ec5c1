SPECIFICATION JobsSpec
CONSTANTS
    r1 = r1
    r2 = r2
    Runners = {r1, r2}
    Kinds <- MCKinds
    Jobs = {1, 2}
    RunOf <- MCRunOf
    Workflows <- MCWorkflows
    Timeout <- MCTimeout
    GCAge = 1
    Replicas = 1
    MaxFaults = 1
    MaxChunks = 3
INVARIANTS
    SuccessIsEarned EnvironmentsFollowJobs DeploysHaveStarted FollowersMissNothing
CHECK_DEADLOCK FALSE
