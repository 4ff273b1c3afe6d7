SPECIFICATION BacktestSpec
CONSTANTS
    Target = 1
    Stop = 2
    Cost = 1
    MinHold = 1
    Horizon = 6
    Conservative = TRUE
    EntryTimeout = 4
    Latency = 0
    TradeThrough = 0
    LimitOffset = 1
    Prices = {9, 10, 12}
    BarLength = 2
    Holes = {0, 2, 6}
    TicksPerBar = 2
    LastStart = 14
    StartEquity = 20000
    RiskPct = 5
    Requested = 100
    PaperMax = 100
    MinNotional = 50
    Day = 6
    DaysPerWeek = 2
    DailyStop = 200
    WeeklyStop = 350
    DrawdownPct = 2
    LossLimit = 1
    Cooldown = 4
INVARIANTS
    StopsRespected
    PositiveLabelEarned
    ReplayMatchesLabel
    LimitExitAfterFill
