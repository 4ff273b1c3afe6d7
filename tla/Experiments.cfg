SPECIFICATION Spec
CONSTANTS
    Suite <- MCSuite
    Strict = {"strict"}
    Replays <- MCReplays
    MinDays = 7
    MinFolds = 2
    Left = {"plain"}
    MaxRuns = 3
INVARIANTS
    PromotionEarned
    FreshUnlessTold
PROPERTIES
    TrialsKept
