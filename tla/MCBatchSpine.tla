--------------------------- MODULE MCBatchSpine ---------------------------
(* Values for BatchSpine: one load per way a night can go wrong. *)
EXTENDS BatchSpine

\* full: clean and covering both days; half: clean, a day short; wrong: breaks the landing
\* contract; badref: its category reference breaks bronze's contract, and silver's, which
\* checks less of the same columns; dirty: breaks the silver contract of the
\* transactions; skewed: breaks a gold one; messy: over the reject budget.
MCDays == {1, 2}
MCDaysOf == [l \in Loads |-> IF l \in {"half", "wrong"} THEN {1} ELSE {1, 2}]
MCRowsPerDay == [l \in Loads |-> 10]
MCRejectsPerDay == [l \in Loads |-> IF l = "messy" THEN 2 ELSE IF l = "half" THEN 1 ELSE 0]
MCGoldTables == <<"category_hourly_fraud", "merchant_risk_leaderboard">>
MCGoldChecked == <<"category_hourly_fraud">>
MCExports == <<"transactions", "category_hourly_fraud", "quarantine_reasons">>
MCOptional == {"quarantine_reasons"}
MCSourceOf == [transactions |-> "transactions",
               category_hourly_fraud |-> "category_hourly_fraud",
               quarantine_reasons |-> "transactions_quarantine"]

\* Fewer tables, for the runs with two runners.
FewGoldTables == <<"category_hourly_fraud">>
FewExports == <<"transactions", "category_hourly_fraud">>
FewSourceOf == [n \in {"transactions", "category_hourly_fraud"} |-> n]

BreaksTxn == [wrong |-> {"bronze_transactions"}, dirty |-> {"silver_transactions"},
              skewed |-> {"category_hourly_fraud"}]
BreaksRef == [badref |-> {"bronze_category_ref", "silver_dim_category"}]

MCConforms(c, v) ==
    /\ \A d \in MCDays : v.txn[d] \in DOMAIN BreaksTxn => c \notin BreaksTxn[v.txn[d]]
    /\ v.ref \in DOMAIN BreaksRef => c \notin BreaksRef[v.ref]

\* Silver keeps what was not rejected; one hourly row per day and category; the number
\* of distinct reasons in quarantine.
MCRowCount(n, v) ==
    CASE n = "transactions" -> Total(v) - Rejected(v)
      [] n = "category_hourly_fraud" -> Cardinality({d \in MCDays : v.txn[d] # NoLoad})
      [] OTHER -> IF Rejected(v) > 0 THEN 1 ELSE 0
=============================================================================
