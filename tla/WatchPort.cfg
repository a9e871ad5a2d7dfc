SPECIFICATION FairSpec
CONSTANTS
    enforcer = enforcer
    w1 = w1
    w2 = w2
    u1 = u1
    m1 = m1
    m2 = m2
    p1 = p1
    p2 = p2
    Enforcer = enforcer
    Writer = {w1}
    Updater = {u1}
    ActProf = {1, 2}
    Member = {m1}
    Port = {p1}
    NewPort = {}
    MaxEvents = 2
    MaxWrites = 3
    MaxUpdates = 1
CHECK_DEADLOCK FALSE
INVARIANTS MembersFollowPorts CacheCurrentAtRest
PROPERTIES NobodyWaitsForEver
