SPECIFICATION ClaimsFairSpec
CHECK_DEADLOCK FALSE
CONSTANTS
    None = None
    Peers = {"p", "q"}
    Addrs = {"x", "y"}
    Instances = {1, 2, 3, 4}
    Sweeps = {1, 2}
    Requests = {1, 2}
    Refreshes = {1}
    SessionOf <- MCSessionOf
    RequestOf <- MCRequestOf
    RefreshOf <- MCRefreshOf
    MarkCapacity = 1
    MarkTarget = 1
    MaxPeers = 1
    MaxFailures = 1
    ClaimScenarios <- PassScenarios
INVARIANTS OwnerCoherent ReapFenced ProjectionConverges
PROPERTIES ReceiptsKept RequestsEnd
