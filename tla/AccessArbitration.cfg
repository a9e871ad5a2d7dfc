SPECIFICATION FairSpec
CONSTANTS
    t1 = t1
    t2 = t2
    t3 = t3
    Thread = {t1, t2, t3}
    Table = {1}
    ActProf = {3, 4}
    OtherId = {}
    P4Infos <- MCP4Infos
INVARIANTS UpdateExcludesAllButRequests NoLostWakeup
PROPERTIES ImplementsPolicy WaitersDrain
