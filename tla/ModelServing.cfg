SPECIFICATION ServingSpec
CONSTANTS
    TrainSize = 3
    CalSize = 7
    TestSize = 2
    Embargo = 6
    Gaps = {0, 12, 30}
    Durations = {6, 18}
    MaxEvents = 14
    Levels = 4
    ProbeLevel = 1
    MinTrades = 2
    MinThreshold = 1
    MinProbability = 2
    MinEV = 10
    LeastUtility = 100
    Target = 1000
    Stop = 1200
    Day = 24
    SliceFrom = 6
    SliceLeast = 1
    DirectionFrom = 6
    BucketLeast = 3
    UsualGap = 12
    UsualDuration = 18
    Irregular = 2
    ScoredIrregular = 0
    Settings <- MCSettings
    Kinds <- MCKinds
    Predictions <- MCPredictions
    Live <- MCLive
    Overrides <- MCOverrides
INVARIANTS
    NoLeak
    PolicyEarned
    TradedGroupsEarned
    LiveFollowsFolds
PROPERTIES
    PurgedForCause
CHECK_DEADLOCK FALSE
