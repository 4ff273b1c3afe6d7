CONSTANTS
    Modes = {"online", "quota"}
    DayLength = 2
    Parts = 2
    Rates = {1, 3}
    RespectOpen = TRUE
    MaxOpen = 2
    CashCap = 4
    MinNotional = 2
    MaxPerTime = 0
    MaxPerGroup = 0
    Spacing = 1
    Gaps = {0, 1}
    Delays = {0, 1}
    Kinds <- SomeKinds
    MaxSamples = 4
SPECIFICATION Spec
INVARIANTS
    SlotsReserved
    CashReserved
PROPERTIES
    LeftOutForCause
