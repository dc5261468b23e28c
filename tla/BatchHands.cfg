SPECIFICATION Spec
CONSTANTS
    Loads = {"full", "half", "dirty", "messy"}
    NoLoad = NoLoad
    None = None
    Days <- MCDays
    DaysOf <- MCDaysOf
    RowsPerDay <- MCRowsPerDay
    RejectsPerDay <- MCRejectsPerDay
    Conforms <- MCConforms
    RowCount <- MCRowCount
    GoldTables <- FewGoldTables
    GoldChecked <- MCGoldChecked
    Exports <- FewExports
    Optional = {}
    SourceOf <- FewSourceOf
    OnViolation = "fail"
    Hands = {"operator"}
    Retries = 0
    MaxNights = 2
    MaxHand = 1
    MaxFaults = 1
INVARIANTS
    SilverAudited
    LoadedSoFarReconciles
CHECK_DEADLOCK FALSE
