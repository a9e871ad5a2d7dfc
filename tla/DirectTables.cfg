CONSTANTS
    Configs <- Configurations
    Mf = {"m1", "m2"}
    Bodies <- Written
    InitialAct = "a1"
    Priorities = {5, 10}
    DEFAULT_PRIORITY = 10
    Capacity = 2
    QueueMax = 2
    MaxFailures = 1
    MaxNotes = 2
SPECIFICATION FairSpec
CHECK_DEADLOCK FALSE
INVARIANTS WrittenIsRead IdleStoreFollows
PROPERTIES NotesAreSent
