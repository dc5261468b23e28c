---------------------------- MODULE MCNightlyDag ----------------------------
(* Values for NightlyDag: the contract bronze and silver each enforce on the transactions   *)
(* and the two of gold.  Only silver's has checks of severity "warn" here.  A night breaks  *)
(* one contract at most: those after it are not enforced.                                   *)
EXTENDS NightlyDag

MCContractsOf ==
    [t \in Tasks |-> CASE t = "bronze" -> <<"bronze_transactions">>
                       [] t = "silver" -> <<"silver_transactions">>
                       [] t = "gold" -> <<"gold_category_hourly_fraud", "gold_state_hourly_volume">>
                       [] OTHER -> <<>>]

MCVerdicts ==
    {v \in [BatchContracts -> Statuses] :
        /\ \A c \in BatchContracts \ {"silver_transactions"} : v[c] # "PASSED_WITH_WARNINGS"
        /\ \A c, d \in BatchContracts : v[c] = "FAILED" => v[d] = "PASSED" \/ c = d}
=============================================================================
