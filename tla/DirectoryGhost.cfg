SPECIFICATION GhostSpec
CONSTANTS
    Nodes = {1, 2, 3}
    Names = {"x", "y", "z"}
    WallTimes = {1}
    SmallCluster = TRUE
    FullSyncInterval = 50
    MaxHistory = 100
    Capacity = 1
    Calls = {1, 2}
    Scenarios <- GhostScenarios
    None = None
PROPERTIES GhostsVanish
