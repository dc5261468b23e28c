SPECIFICATION Spec
CONSTANTS
    a = a
    b = b
    Txns = {a, b}
    None = None
    NaN = NaN
    Times = {1}
    Exports <- MCExports
    Limit = 2
    MaxRuns = 1
    MaxEvents = 2
    Incomplete = {b}
    Delay = 2
    MaxOffsetsPerTrigger = 2
    Risk <- MCRisk
    Review <- MCReview
    Decline <- MCDecline
    MaxModels = 1
    MaxCrashes = 0
PROPERTIES
    MissingFieldsAreScored
CHECK_DEADLOCK FALSE
