SPECIFICATION Spec
CONSTANTS
    Files = {"train", "test", "ref"}
    Reference = "ref"
    Nothing = Nothing
    BreaksContract <- MCBreaks
    OverBudget <- MCOverBudget
    MaxUploads = 2
    MaxRuns = 3
    MaxLost = 1
INVARIANTS
    RunAllCoherent
PROPERTIES
    GoldFromAudited
CHECK_DEADLOCK FALSE
