SPECIFICATION FairSpec
CONSTANTS
    Sample = {a, b}
    MaxWriters = 2
    Addr = {1, 2, 3}
    Config <- MCConfig
    MaxQueue = 2
    MaxMsgs = 2
    MaxInputs = 4
CHECK_DEADLOCK FALSE
INVARIANTS CacheIsSound ConfigTakesEffect
PROPERTIES TimeoutsAct
