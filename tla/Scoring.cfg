SPECIFICATION Spec
CONSTANTS
    a = a
    b = b
    Txns = {a, b}
    None = None
    NaN = NaN
    Times <- MCTimes
    Exports <- MCExports
    Limit = 1
    MaxRuns = 2
    MaxEvents = 3
    Incomplete = {}
    Delay = 2
    MaxOffsetsPerTrigger = 2
    Risk <- MCRisk
    Review <- MCReview
    Decline <- MCDecline
    MaxModels = 2
    MaxCrashes = 1
INVARIANTS
    OneDecision
    ConsumedIsDecided
    StatsAccount
PROPERTIES
    DecisionNeverOlder
    ScoredInTheEnd
CHECK_DEADLOCK FALSE
