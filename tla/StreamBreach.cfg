SPECIFICATION Spec
CONSTANTS
    a = a
    b = b
    n = n
    u = u
    f = f
    shop = shop
    Txns = {a, n, u, f}
    CategoryOf <- MCCategoryOf
    NoCategory = NoCategory
    HasAmount = {a, n, f}
    FraudOf <- MCFraudOf
    None = None
    Times <- MCTimes
    Delay = 4
    Width = 2
    MaxOffsetsPerTrigger = 2
    OnViolation = "fail"
    MaxLog = 3
    MaxCrashes = 2
INVARIANTS
    BreachHoldsOffsets
PROPERTIES
    AllConsumed
CHECK_DEADLOCK FALSE
