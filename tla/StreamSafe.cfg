SPECIFICATION Spec
CONSTANTS
    a = a
    b = b
    n = n
    u = u
    f = f
    shop = shop
    Txns = {a, b}
    CategoryOf <- MCCategoryOf
    NoCategory = NoCategory
    HasAmount = {a, b}
    FraudOf <- MCFraudOf
    None = None
    Times <- MCTimes
    Delay = 4
    Width = 2
    MaxOffsetsPerTrigger = 2
    OnViolation = "fail"
    MaxLog = 4
    MaxCrashes = 1
SYMMETRY Redelivered
INVARIANTS
    CountedOncePerDelay
    DropsExplained
    SinkExact
PROPERTIES
    KeepsPromise
CHECK_DEADLOCK FALSE
