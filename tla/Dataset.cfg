SPECIFICATION DataSpec
CONSTANTS
    W <- MCW
    CandidateModes = {"aggressive_rules", "active_research", "dense_research"}
    SideMode = "long_short"
    Lookback = 3
    MinHistory = 5
    Rolling = 6
    Stride = 1
    Adaptive = TRUE
    MinHolding = 10
    MaxHolding = 0
    MaxHours = 72
    Hour = 10
    HorizonCap = 25
    Granularity = 0
    TargetMove = 50
    Interval = 10
    FeatureAsof <- MCAsof
    ExternalLatency = 5
    FeatureWindow = 7
    MinBars = 7
    HistoryMax = 7
    MaxSamples = 2
    IndexBudget = 16
    QuoteLookbacks = {10}
    ContextLookbacks = {10, 20}
    ContextPeriods = {1, 2}
    MarketAge = 10
    MarketLength = 20
    NetTarget = 40
    NetStop = 50
    LeastProfit = 30
    LeastStop = 20
    RoundTripCost = 20
    ProfitMultiplier = 1
    StopMultiplier = 1
    VolatilityLookback = 4
    ConservativeBar = TRUE
    EarlySeconds = 10
    EarlyLoss = 5
    Shapes <- MCShapes
    Gaps <- MCGaps
    ObservedModes = {"dense_research"}
    MaxBars = 8
    MaxObservations = 2
    ObservedFrom = 5
INVARIANTS
    NoLookahead
    ServedAsTrained
PROPERTIES
    WindowSuffices
    PointInTime
    NewestServed
CHECK_DEADLOCK FALSE
