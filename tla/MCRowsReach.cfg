SPECIFICATION MissionSpec
CONSTANTS
    Rows = 5
    Cols = 13
    Walls = TRUE
    FreeMax = 0
    Connectivity = 8
    ClearanceRadius = 2
    ToolRadius = 3
    MinRegion = 2
    Spacing = 4
    EndpointInset = 1
    MinLength = 4
    MinLengthInCell = 3
    ClampInset = 5
    FrontierConnectivity = 4
    ClusterConnectivity = 8
    MinClusterSize = 2
    FreeThreshold = 0
    Paths <- MCPaths
    Checkpoints <- MCCheckpoints
    NoFile = NoFile
    Torn = Torn
    FlushMayFail = TRUE
    Surveys <- MCSurveys
    NextSurveys <- MCNextSurveys
    Starts <- MCStarts
    MinCoverage = 80
    MaxTasks = 2
    MaxDeaths = 1
CONSTRAINT Explored
INVARIANT RowsAreReachable
CHECK_DEADLOCK FALSE
