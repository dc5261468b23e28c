SPECIFICATION Spec
CONSTANTS
    Loads = {"full", "half", "dirty", "badref", "skewed", "messy", "wrong"}
    NoLoad = NoLoad
    None = None
    Days <- MCDays
    DaysOf <- MCDaysOf
    RowsPerDay <- MCRowsPerDay
    RejectsPerDay <- MCRejectsPerDay
    Conforms <- MCConforms
    RowCount <- MCRowCount
    GoldTables <- MCGoldTables
    GoldChecked <- MCGoldChecked
    Exports <- MCExports
    Optional <- MCOptional
    SourceOf <- MCSourceOf
    OnViolation = "fail"
    Hands = {}
    Retries = 1
    MaxNights = 3
    MaxHand = 0
    MaxFaults = 1
INVARIANTS
    TypeOK
    SilverAudited
    SilverWithinBudget
    QuarantineExplainsFailure
    StoppedSilverPublishesNothing
    ServedAudited
    BreachKeepsYesterday
    ExportReconciles
    SuccessIsCoherent
PROPERTIES
    CleanNightIsServed
CHECK_DEADLOCK FALSE
