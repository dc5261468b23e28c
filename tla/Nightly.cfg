SPECIFICATION Spec
CONSTANTS
    None = None
    ContractsOf <- MCContractsOf
    StreamContract = "stream_txn_metrics_1m"
    Verdicts <- MCVerdicts
    StreamSays = {"FAILED"}
    MaxNights = 2
    MaxFaults = 2
INVARIANTS
    BreachReported
    CleanNightReported
    BreachFreezesPage
PROPERTIES
    RunEnds
CHECK_DEADLOCK FALSE
