SPECIFICATION Spec
CONSTANTS
    Loads = {"full", "badref"}
    NoLoad = NoLoad
    None = None
    Days <- MCDays
    DaysOf <- MCDaysOf
    RowsPerDay <- MCRowsPerDay
    RejectsPerDay <- MCRejectsPerDay
    Conforms <- MCConforms
    RowCount <- MCRowCount
    GoldTables <- FewGoldTables
    GoldChecked <- MCGoldChecked
    Exports <- FewExports
    Optional = {}
    SourceOf <- FewSourceOf
    OnViolation = "fail"
    Hands = {"operator"}
    Retries = 0
    MaxNights = 2
    MaxHand = 1
    MaxFaults = 0
INVARIANTS
    FailedSilverPublishesNothing
CHECK_DEADLOCK FALSE
