SPECIFICATION Spec
CONSTANTS
    Columns = 4
    wide = wide
    ends = ends
    done = done
    Maps = {wide, ends, done}
    NoMap = NoMap
    Points <- MCPoints
    NoGoal = NoGoal
    Detected <- MCDetected
    Free <- MCFree
    Robots <- MCRobots
    Headings <- MCHeadings
    BinOf <- MCBinOf
    Strategy = "nearest"
    Slots = {1, 2}
    NoHandle = 0
    MaxLag = 1
    Cooldown = 1
    GoalTimeout = 1
    BlacklistTimeout = 1
    SuccessCooldown = 2
    ProbeCooldown = 2
    HysteresisCooldown = 1
    MaxEmptyCycles = 2
    MaxSuppressedCycles = 3
    LoopWindow = 2
    LoopBins = 1
    LoopSuccesses = 1
    MaxAttempts = 2
    MinGoalDistance2 = 4
    BlacklistRadius2 = 1
    SuccessRadius2 = 4
    HysteresisRadius2 = 2
INVARIANTS
    TypeOK
    NavigatingHasGoal
    HandleIsLive
PROPERTIES
    GoalNotBlacklisted
    NoFalseCompletion
    NavigationEnds
    IdleEnds
    EmptyMapCompletes
