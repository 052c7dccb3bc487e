SPECIFICATION RaceSpec
CONSTANTS
    Nodes = {1, 2}
    Names = {"x"}
    WallTimes = {1}
    SmallCluster = TRUE
    FullSyncInterval = 1
    MaxHistory = 1
    Capacity = 1
    Calls = {1, 2}
    Scenarios <- RaceScenarios
    None = None
PROPERTIES LiveActorsVisible
