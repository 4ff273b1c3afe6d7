SPECIFICATION Spec
CONSTANTS
    StartEquity = 100000
    RiskPct = 1
    StopPct = 1
    Requested = 600
    PaperMax = 600
    MinNotional = 100
    SizingMode = "bucket"
    Scales = {50}
    BaseNotional = 200
    MidNotional = 600
    HighNotional = 600
    Instrument = "spot_crypto"
    Lot = 1
    Sides = {"BUY", "SELL"}
    ShortsAllowed = TRUE
    FillPcts = {100}
    Returns <- WinOrLoseTen
    WorstPct = 10
    MaxOpen = 2
    DailyStop = 1000
    WeeklyStop = 2500
    DrawdownPct = 5
    MaxLoss = 2500
    LossLimit = 2
    Cooldown = 2
    Day = 1
    DaysPerWeek = 2
    Horizon = 3
    Hold = 2
    MaxPredictions = 4
INVARIANTS
    BookOfTheMoment
    CooldownKept
    LossesBounded
PROPERTIES
    SpotPaidFor
