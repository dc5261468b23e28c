SPECIFICATION Spec
CONSTANTS
    None = None
    ContractsOf <- MCContractsOf
    StreamContract = "stream_txn_metrics_1m"
    Verdicts <- MCVerdicts
    StreamSays = {"PASSED", "FAILED"}
    MaxNights = 2
    MaxFaults = 1
INVARIANTS
    BreachFailsRun
CHECK_DEADLOCK FALSE
