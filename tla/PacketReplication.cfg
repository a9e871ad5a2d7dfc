CONSTANTS
    Thread = {t1, t2}
    ClientGroup = {1, 11}
    SessionId = {0, 1, 2}
    FirstReserved = 10
    kMinCloneSessionId = 1
    kMaxCloneSessionId = 2
    Replicas <- ReplicaLists
    Cos = {0, 1}
    Failing = {"grp_create", "grp_delete", "node_create", "node_modify", "node_delete", "attach", "detach", "clone_set", "clone_reset"}
    MaxFailures = 1
    MaxWrites = 3
SPECIFICATION FairSpec
CHECK_DEADLOCK FALSE
INVARIANTS TargetMatchesGroups SessionsOwnGroups
PROPERTIES WritesEnd
