CONSTANTS
    e1 = e1
    e2 = e2
    Events = {e1, e2}
    NoEvent = NoEvent
    MaxOpen = 1
    Capital = 2
    OrderCap = 2
    ConfigCap = 4
    MinNotional = 1
    Buckets = {2}
    Prices = {1, 2}
    StopDistance = 1
    ProfitDistance = 1
    FlattenOnExit = TRUE
    Foreign = 0
    MaxLate = 0
SPECIFICATION Spec
INVARIANT FlattensOnExit
