------------------------------- MODULE Notebook -------------------------------
(***************************************************************************)
(* The batch spine as a Databricks notebook: cells run one after the other *)
(* by Run all, or one by one by hand, over files somebody uploads, in a    *)
(* session that can be lost, onto tables that survive it.  Unlike the      *)
(* local silver stage it writes its tables first and audits them after.    *)
(*                                                                         *)
(* What a table holds is the version of each file it was computed from.    *)
(***************************************************************************)
EXTENDS Naturals, Sequences, FiniteSets

CONSTANTS
    Files,           \* the uploaded files: the two splits and the category reference
    Reference,       \* the last of them
    Nothing,         \* a table or a variable that does not exist
    BreaksContract(_, _),  \* whether what a table holds breaks its contract
    OverBudget(_),   \* whether silver of these files has too many rows in quarantine
    MaxUploads, MaxRuns, MaxLost  \* bounds

ASSUME NotebookAssumption ==
    /\ Reference \in Files
    /\ MaxUploads \in Nat /\ MaxRuns \in Nat /\ MaxLost \in Nat
    /\ Nothing \notin {"done", "raised"}

VARIABLES
    uploaded,   \* the version of each file in DBFS
    table,      \* what each table holds
    counts,     \* bronze_counts, silver_counts, gold_counts: what was counted
    defined,    \* what the session has defined: the first cells, and silver's import
    cell, at,   \* the cell that runs, and its next step
    runAll,     \* the cells after it run too
    printed,    \* the counts of the last summary
    outcome,    \* how the last Run all ended
    runs, uploads, losses,
    disturbed   \* history: a file was uploaded since this run began

vars == <<uploaded, table, counts, defined, cell, at, runAll, printed, outcome,
          runs, uploads, losses, disturbed>>

-----------------------------------------------------------------------------
(* The cells. *)

Write(t) == [op |-> "write", table |-> t]
Audit(t) == [op |-> "enforce", table |-> t]
Gate == [op |-> "gate", table |-> "silver.transactions_quarantine"]
Count(t) == [op |-> "count", table |-> t]

BronzeCell ==
    <<Write("bronze.transactions_raw"), Write("bronze.category_ref_raw"),
      Audit("bronze.transactions_raw"), Audit("bronze.category_ref_raw"),
      Count("bronze.transactions_raw")>>

SilverCell ==
    <<Write("silver.transactions"), Write("silver.transactions_quarantine"),
      Write("silver.dim_category"),
      Audit("silver.transactions"), Audit("silver.dim_category"), Gate,
      Count("silver.transactions")>>

GoldCell ==
    <<Write("gold.category_hourly_fraud"), Write("gold.state_hourly_volume"),
      Write("gold.card_velocity"), Write("gold.merchant_risk_leaderboard"),
      Write("gold.geo_distance_anomaly"),
      Audit("gold.category_hourly_fraud"), Audit("gold.state_hourly_volume"),
      Count("gold.category_hourly_fraud")>>

Cells == <<BronzeCell, SilverCell, GoldCell>>
LastCell == Len(Cells)

TablesOf(c) == {Cells[c][i].table : i \in DOMAIN Cells[c]}
Tables == UNION {TablesOf(c) : c \in DOMAIN Cells}

Empty == [f \in Files |-> Nothing]

\* What writing a table puts in it: the splits are read from the files, silver joins bronze
\* with the reference, gold aggregates silver.
ContentOf(t) ==
    CASE t = "bronze.transactions_raw"  -> [uploaded EXCEPT ![Reference] = Nothing]
      [] t = "bronze.category_ref_raw"  -> [Empty EXCEPT ![Reference] = uploaded[Reference]]
      [] t = "silver.transactions"      ->
            [table["bronze.transactions_raw"] EXCEPT
                ![Reference] = table["bronze.category_ref_raw"][Reference]]
      [] t = "silver.transactions_quarantine" -> table["bronze.transactions_raw"]
      [] t = "silver.dim_category"      -> table["bronze.category_ref_raw"]
      [] OTHER                          -> table["silver.transactions"]

\* A statement raises when a table it reads was never written; and gold's window function needs
\* an import that only the silver cell makes.
Computable(t) ==
    /\ t = "gold.card_velocity" => "Window" \in defined
    /\ \A s \in CASE t \in TablesOf(1) -> {}
                  [] t \in TablesOf(2) -> {"bronze.transactions_raw", "bronze.category_ref_raw"}
                  [] OTHER             -> {"silver.transactions"} :
            table[s] # Empty

-----------------------------------------------------------------------------
Init ==
    /\ uploaded = [f \in Files |-> 1]
    /\ table = [t \in Tables |-> Empty]
    /\ counts = [c \in DOMAIN Cells |-> Nothing]
    /\ defined = {}
    /\ cell = 0 /\ at = 0 /\ runAll = FALSE
    /\ printed = Nothing /\ outcome = Nothing
    /\ runs = 0 /\ uploads = 0 /\ losses = 0 /\ disturbed = FALSE

\* A new version of one file.
Upload ==
    /\ uploads < MaxUploads
    /\ \E f \in Files : uploaded' = [uploaded EXCEPT ![f] = @ + 1]
    /\ uploads' = uploads + 1 /\ disturbed' = TRUE
    /\ UNCHANGED <<table, counts, defined, cell, at, runAll, printed, outcome, runs, losses>>

\* Run all: the definitions, then every cell.
RunAll ==
    /\ cell = 0 /\ runs < MaxRuns
    /\ defined' = defined \cup {"definitions"}
    /\ cell' = 1 /\ at' = 1 /\ runAll' = TRUE
    /\ runs' = runs + 1 /\ disturbed' = FALSE /\ outcome' = Nothing
    /\ UNCHANGED <<uploaded, table, counts, printed, uploads, losses>>

\* One cell by hand.  Without the definitions it would be a NameError.
RunCell ==
    /\ cell = 0 /\ runs < MaxRuns /\ "definitions" \in defined
    /\ cell' \in 1 .. LastCell /\ at' = 1 /\ runAll' = FALSE
    /\ runs' = runs + 1 /\ disturbed' = FALSE /\ outcome' = Nothing
    /\ UNCHANGED <<uploaded, table, counts, defined, printed, uploads, losses>>

\* An exception stops the cell and those that would have followed.
Raise ==
    /\ cell' = 0 /\ at' = 0 /\ runAll' = FALSE
    /\ outcome' = "raised"
    /\ UNCHANGED <<table, counts>>

Step == Cells[cell][at]

Onward == at' = at + 1 /\ UNCHANGED <<cell, runAll, outcome>>

\* Mutant: mode("ignore").
WriteOnce ==
    /\ Step.op = "write"
    /\ IF Computable(Step.table)
       THEN /\ table' = [table EXCEPT ![Step.table] = IF @ = Empty THEN ContentOf(Step.table) ELSE @]
            /\ Onward /\ UNCHANGED counts
       ELSE Raise

\* saveAsTable with mode("overwrite"), and overwriteSchema or a schema that does not change.
WriteTable ==
    /\ Step.op = "write"
    /\ IF Computable(Step.table)
       THEN /\ table' = [table EXCEPT ![Step.table] = ContentOf(Step.table)]
            /\ Onward /\ UNCHANGED counts
       ELSE Raise

\* Mutant: mode="warn".
EnforceWarns ==
    /\ Step.op = "enforce"
    /\ Onward /\ UNCHANGED <<table, counts>>

\* enforce(): the contract on what the table holds now.
Enforce ==
    /\ Step.op = "enforce"
    /\ IF BreaksContract(Step.table, table[Step.table])
       THEN Raise
       ELSE Onward /\ UNCHANGED <<table, counts>>

\* The reject-rate budget.
RejectGate ==
    /\ Step.op = "gate"
    /\ IF OverBudget(table["silver.transactions_quarantine"])
       THEN Raise
       ELSE Onward /\ UNCHANGED <<table, counts>>

\* The counts of the cell's tables; bronze also counts the files, and reads them again.
TakeCounts ==
    /\ Step.op = "count"
    /\ counts' = [counts EXCEPT ![cell] =
                    [table |-> table[Step.table],
                     files |-> IF cell = 1 THEN [uploaded EXCEPT ![Reference] = Nothing]
                               ELSE table[Step.table]]]
    /\ Onward /\ UNCHANGED table

InCell ==
    /\ cell # 0 /\ at <= Len(Cells[cell])
    /\ WriteTable \/ Enforce \/ RejectGate \/ TakeCounts
    /\ defined' = IF cell = 2 THEN defined \cup {"Window"} ELSE defined
    /\ UNCHANGED <<uploaded, printed, runs, uploads, losses, disturbed>>

\* A cell ends.  The summary prints the counts the session has.
EndCell ==
    /\ cell # 0 /\ at > Len(Cells[cell])
    /\ IF runAll /\ cell < LastCell
       THEN cell' = cell + 1 /\ at' = 1 /\ UNCHANGED <<runAll, printed, outcome>>
       ELSE /\ cell' = 0 /\ at' = 0 /\ runAll' = FALSE
            /\ IF runAll THEN printed' = counts /\ outcome' = "done"
                         ELSE UNCHANGED <<printed, outcome>>
    /\ UNCHANGED <<uploaded, table, counts, defined, runs, uploads, losses, disturbed>>

\* The summary cell by hand: what the session has, of whatever runs it is.
PrintSummary ==
    /\ cell = 0 /\ \A c \in DOMAIN Cells : counts[c] # Nothing
    /\ printed' = counts /\ outcome' = Nothing
    /\ UNCHANGED <<uploaded, table, counts, defined, cell, at, runAll, runs, uploads, losses,
                   disturbed>>

\* The cluster is terminated: the session goes, the tables stay.
LoseSession ==
    /\ defined # {} /\ losses < MaxLost
    /\ defined' = {} /\ counts' = [c \in DOMAIN Cells |-> Nothing]
    /\ cell' = 0 /\ at' = 0 /\ runAll' = FALSE
    /\ outcome' = IF cell # 0 THEN "raised" ELSE outcome
    /\ losses' = losses + 1
    /\ UNCHANGED <<uploaded, table, printed, runs, uploads, disturbed>>

Next == Upload \/ RunAll \/ RunCell \/ InCell \/ EndCell \/ PrintSummary \/ LoseSession

Spec == Init /\ [][Next]_vars

-----------------------------------------------------------------------------
Content == [Files -> 1 .. MaxUploads + 1 \cup {Nothing}]

Counted == [table : Content, files : Content] \cup {Nothing}

TypeOK ==
    /\ uploaded \in [Files -> 1 .. MaxUploads + 1]
    /\ table \in [Tables -> Content]
    /\ counts \in [DOMAIN Cells -> Counted]
    /\ defined \subseteq {"definitions", "Window"}
    /\ cell \in 0 .. LastCell /\ at \in Nat
    /\ printed \in [DOMAIN Cells -> Counted] \cup {Nothing}
    /\ outcome \in {Nothing, "done", "raised"}

Passes(t) == ~BreaksContract(t, table[t])

\* The tables with a contract.
UnderContract ==
    {"bronze.transactions_raw", "bronze.category_ref_raw", "silver.transactions",
     "silver.dim_category", "gold.category_hourly_fraud", "gold.state_hourly_volume"}

\* When Run all has come to its end, and until the next run, every table is of the files as
\* they were, silver and gold passed what is asked of them, and the summary's numbers are those
\* of the tables, whatever cells were run by hand, lost or stopped half way before: plain
\* overwrites make a rerun replace all of it.
RunAllCoherent ==
    outcome = "done" /\ ~disturbed =>
        /\ \A t \in TablesOf(3) \cup {"silver.transactions"} : table[t] = uploaded
        /\ \A c \in DOMAIN Cells : printed[c].table = printed[c].files
        /\ printed[2].table = uploaded /\ printed[3].table = uploaded
        /\ \A t \in UnderContract : Passes(t)
        /\ ~OverBudget(table["silver.transactions_quarantine"])

\* During Run all no gold table is computed from a silver that was not audited: a failed check
\* stops the cells that follow.
GoldFromAudited ==
    [][\A t \in TablesOf(3) :
        runAll /\ table'[t] # table[t] =>
            /\ Passes("silver.transactions") /\ Passes("silver.dim_category")
            /\ ~OverBudget(table["silver.transactions_quarantine"])]_vars
===============================================================================
