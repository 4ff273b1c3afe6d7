CONSTANTS
    Notional = 6
    Prices = {1, 2, 3}
    StopDistance = 1
    MaxLoss = 2
    ConfigCap = 7
    Foreign = 1
SPECIFICATION FairSpec
INVARIANTS
    SoldAsBought
    CleanFailure
PROPERTIES
    SellsCovered
    Ends
