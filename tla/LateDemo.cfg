SPECIFICATION DemoSpec
CONSTANTS
    a = a
    b = b
    c = c
    n = n
    shop = shop
    Txns = {a, b, c, n}
    CategoryOf <- MCCategoryOf
    NoCategory = NoCategory
    HasAmount = {a, b, c, n}
    FraudOf <- MCFraudOf
    None = None
    Times = {2, 6}
    Delay = 4
    Width = 2
    MaxOffsetsPerTrigger = 2
    OnViolation = "fail"
    MaxLog = 4
    MaxCrashes = 1
    CuratedChoices <- MCCurated
    SplitAt = 1
    OnTime = 6
    TenMinutesAgo = 2
    RingSize = 3
    MaxRounds = 2
INVARIANTS
    DemoHonest
    DemoRepeatable
    ReportWithinRun
CHECK_DEADLOCK FALSE
