CONSTANTS
    Devices = {"d1", "d2"}
    Configs = {"c1", "c2"}
    WithPacketIn = {"c1"}
    Fits <- FitsOf
    Setups <- SetupSet
    MaxFailures = 1
SPECIFICATION Spec
CHECK_DEADLOCK FALSE
INVARIANTS LayersAndRegistryAgree NothingStale StoreBacked AbortsExplained
