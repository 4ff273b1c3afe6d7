SPECIFICATION LiveSpec
CONSTANTS
    Keys = {"trades", "midpoint", "bidask"}
    BidAskKeys = {"bidask"}
    DuplicateWindow = 2
    BurstWindow = 1
    TotalWindow = 4
    MaxBurst = 3
    MaxTotal = 5
    MaxTime = 7
    Interval = 2
    Prices = {1, 3}
    Midpoints = {2}
    RequiredBars = 2
    WarmupTimeout = 6
    MaxBars = 2
    MaxDelay = 5
    MaxRows = 2
CHECK_DEADLOCK FALSE
INVARIANTS
    WithinBudget
    SameKeyApart
    BarsAsSeen
PROPERTIES
    RefusedForCause
    OnlyLateTicksReplace
