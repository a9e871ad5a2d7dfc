SPECIFICATION FairSpec
CONSTANTS
    t1 = t1
    d1 = d1
    p1 = p1
    OneShot = {t1}
    Droppable = {d1}
    Periodic = {p1}
    Delay = {0, 2}
    MaxDelay = 2
    interval = 1
    max_size = 1
    MaxTime = 2
CHECK_DEADLOCK FALSE
INVARIANTS TasksAreSafe
PROPERTIES ExecuteProgresses
