----------------------------- MODULE BatchSpine -----------------------------
(***************************************************************************)
(* The batch spine of StreamLake: bronze, silver, gold, export and the     *)
(* warehouse load, run in order by the nightly Airflow DAG and, one stage  *)
(* at a time, by an operator at the `streamlake` CLI.                      *)
(*                                                                         *)
(* Every table is abstracted to the version of the bronze layer its rows   *)
(* were derived from: which load each day partition came from, and which   *)
(* load the category reference came from.  What a contract says of a table *)
(* depends on that version alone.                                          *)
(***************************************************************************)
EXTENDS Naturals, Sequences, FiniteSetsExt

CONSTANTS
    Loads,          \* source files that `ingest` can leave in data/raw
    NoLoad,         \* a day partition, or a reference, never loaded
    None,           \* a table, file or manifest entry that does not exist
    Days,           \* day partitions of bronze.transactions_raw
    DaysOf,         \* the days a load has rows for; ingest refuses an empty file
    RowsPerDay,     \* rows of a load on each of its days
    RejectsPerDay,  \* of those, the rows reject_reason() tags
    Conforms(_, _), \* Conforms(c, v): contract c holds of its table at version v
    RowCount(_, _), \* RowCount(n, v): rows of curated table n at version v
    GoldTables,     \* gold tables, in the order gold.py writes them
    GoldChecked,    \* those with a contract, in the order gold.py enforces them
    Exports,        \* curated tables, in the order export.py writes them
    Optional,       \* those skipped when their lake table does not exist
    SourceOf,       \* the lake table each curated table is a copy of
    OnViolation,    \* contracts.on_violation: "fail" or "warn"
    Hands,          \* operators who run stages by hand
    Retries,        \* Airflow retries of a failed task
    MaxNights, MaxHand, MaxFaults  \* bounds on the environment

DAG == "dag"
Runners == {DAG} \cup Hands

SilverTables == <<"transactions", "dim_category">>
SilverContract == [transactions |-> "silver_transactions",
                   dim_category |-> "silver_dim_category"]
BronzeContracts == <<"bronze_transactions", "bronze_category_ref">>

Staging == [transactions |-> "transactions_staging",
            dim_category |-> "dim_category_staging"]
Quarantine == "transactions_quarantine"

ElementsOf(s) == {s[i] : i \in 1 .. Len(s)}
LakeSilver == {"transactions", "dim_category", Quarantine,
               "transactions_staging", "dim_category_staging"}
Tables == LakeSilver \cup ElementsOf(GoldTables)

Version == [txn : [Days -> Loads \cup {NoLoad}], ref : Loads \cup {NoLoad}]
Contracts == ElementsOf(BronzeContracts)
               \cup {"silver_transactions", "silver_dim_category"}
               \cup ElementsOf(GoldChecked)

\* How a stage ends when no contract raises.
Outcomes == {"none", "ok", "gate", "missing", "mismatch", "locked", "crash"}

ASSUME SpineAssumption ==
    /\ OnViolation \in {"fail", "warn"}
    /\ Retries \in Nat /\ MaxNights \in Nat /\ MaxHand \in Nat /\ MaxFaults \in Nat
    /\ NoLoad \notin Loads /\ None \notin Nat \cup Version
    /\ DAG \notin Hands
    /\ DaysOf \in [Loads -> (SUBSET Days) \ {{}}]
    /\ RowsPerDay \in [Loads -> Nat]
    /\ RejectsPerDay \in [Loads -> Nat]
    /\ Len(GoldTables) \in Nat \ {0} /\ Len(GoldChecked) \in Nat \ {0}
    /\ Len(Exports) \in Nat \ {0}
    /\ ElementsOf(GoldTables) \cap LakeSilver = {}
    /\ ElementsOf(GoldChecked) \subseteq ElementsOf(GoldTables)
    /\ ElementsOf(GoldChecked) \cap Outcomes = {}
    /\ SourceOf \in [ElementsOf(Exports) -> Tables]
    /\ \A n \in ElementsOf(Exports), v \in Version : RowCount(n, v) \in Nat
    /\ \A c \in Contracts, v \in Version : Conforms(c, v) \in BOOLEAN

\* EXPORTS is a dict: each curated name is exported once.
ASSUME ExportsOnce ==
    \A i, j \in 1 .. Len(Exports) : Exports[i] = Exports[j] => i = j

\* The steps of each stage, in code order.
StepsOf == [bronze |-> <<"bronze_write", "bronze_check">>,
            silver |-> <<"silver_read", "silver_quarantine", "silver_gate",
                         "stage", "audit", "publish">>,
            gold   |-> <<"gold_read", "gold_write", "gold_check">>,
            export |-> <<"export_clear", "export_write", "export_manifest">>,
            load   |-> <<"load_open", "load_replace", "load_reconcile">>]
Stages == {"bronze", "silver", "gold", "export", "load"}
Steps == {"idle"} \cup UNION {ElementsOf(StepsOf[s]) : s \in Stages}
FirstStep(s) == StepsOf[s][1]
StageOf(step) == CHOOSE s \in Stages : step \in ElementsOf(StepsOf[s])

\* Or with the name of the contract that raised.
Endings == Outcomes \cup Contracts
Stoppers == Contracts \cup {"gate"}

VARIABLES
    source,     \* the load now in data/raw
    bronzeTxn,  \* bronze.transactions_raw: the load each day partition holds
    bronzeRef,  \* bronze.category_ref_raw: the load it holds
    table,      \* silver and gold tables: version each one holds
    curated,    \* data/curated/<name>: version of the parquet files
    manifest,   \* _export_manifest.json: row count per curated table
    served,     \* the warehouse's raw schema: version of each table
    pc,         \* the next step of each runner
    at,         \* position of each runner in the list its step walks
    read,       \* bronze or silver snapshot a runner's stage reads from
    staged,     \* staging snapshot a runner audits, then publishes
    entries,    \* export's manifest, or load's copy of it, in memory
    tries,      \* retries used by the DAG's current task
    ended,      \* how each runner's last stage ended
    raised,     \* contracts (and the gate) that stopped a task of this night
    night, handRuns, faults,   \* counters of the environment
    before,     \* what both silver tables held when a silver stage began
    yesterday   \* what the warehouse served when the night began

lakeVars == <<source, bronzeTxn, bronzeRef, table, curated, manifest, served>>
runVars == <<pc, at, read, staged, entries, tries, ended, raised>>
envVars == <<night, handRuns, faults, before, yesterday>>
vars == <<lakeVars, runVars, envVars>>

Current == [txn |-> bronzeTxn, ref |-> bronzeRef]

Sum(f(_)) == MapThenSumSet(f, Days)
Total(v) == Sum(LAMBDA d : IF v.txn[d] = NoLoad THEN 0 ELSE RowsPerDay[v.txn[d]])
Rejected(v) == Sum(LAMBDA d : IF v.txn[d] = NoLoad THEN 0 ELSE RejectsPerDay[v.txn[d]])
OverBudget(v) == 10 * Rejected(v) > Total(v)
RaisedBy(c, v) == OnViolation = "fail" /\ ~Conforms(c, v)

Init ==
    /\ source = NoLoad
    /\ bronzeTxn = [d \in Days |-> NoLoad] /\ bronzeRef = NoLoad
    /\ table = [t \in Tables |-> None]
    /\ curated = [n \in ElementsOf(Exports) |-> None]
    /\ manifest = [n \in ElementsOf(Exports) |-> None]
    /\ served = [n \in ElementsOf(Exports) |-> None]
    /\ pc = [p \in Runners |-> "idle"] /\ at = [p \in Runners |-> 1]
    /\ read = [p \in Runners |-> None] /\ staged = [p \in Runners |-> None]
    /\ entries = [p \in Runners |-> [n \in ElementsOf(Exports) |-> None]]
    /\ tries = 0
    /\ ended = [p \in Runners |-> [stage |-> "none", how |-> "none"]]
    /\ raised = {}
    /\ night = 0 /\ handRuns = 0 /\ faults = 0
    /\ before = [p \in Runners |-> <<None, None>>]
    /\ yesterday = served

-----------------------------------------------------------------------------
(* Control: where a runner goes next. *)

Advance(p, step, i) ==
    /\ pc' = [pc EXCEPT ![p] = step]
    /\ at' = [at EXCEPT ![p] = i]
    /\ UNCHANGED <<tries, ended, raised>>

\* The task after stage s; the chain of streamlake_batch, one stage by hand.
NextTask(p, s) ==
    IF p # DAG \/ s = "load" THEN "idle"
    ELSE FirstStep([bronze |-> "silver", silver |-> "gold",
                    gold |-> "export", export |-> "load"][s])

\* Mutant: a task that is retried for ever.
RetriedAlways(p) == p = DAG

Retried(p) == p = DAG /\ tries < Retries

\* Mutant: trigger_rule="all_done" on every task.
FinishAllDone(p, s, how) ==
    /\ ended' = [ended EXCEPT ![p] = [stage |-> s, how |-> how]]
    /\ raised' = IF p = DAG /\ how \in Stoppers THEN raised \cup {how} ELSE raised
    /\ at' = [at EXCEPT ![p] = 1]
    /\ pc' = [pc EXCEPT ![p] = NextTask(p, s)]
    /\ UNCHANGED tries

\* The CLI process of stage s exits; Airflow starts the next task, retries this
\* one, or fails the run.
Finish(p, s, how) ==
    /\ ended' = [ended EXCEPT ![p] = [stage |-> s, how |-> how]]
    /\ raised' = IF p = DAG /\ how \in Stoppers THEN raised \cup {how} ELSE raised
    /\ at' = [at EXCEPT ![p] = 1]
    /\ pc' = [pc EXCEPT ![p] = IF how = "ok" THEN NextTask(p, s)
                               ELSE IF Retried(p) THEN FirstStep(s) ELSE "idle"]
    /\ tries' = IF p # DAG THEN tries
                ELSE IF how # "ok" /\ Retried(p) THEN tries + 1 ELSE 0

-----------------------------------------------------------------------------
(* bronze.py *)

\* Mutant: a re-run only fills in the days that are missing.
BronzeWriteMissingDays(p) ==
    /\ pc[p] = "bronze_write"
    /\ bronzeTxn' = [d \in Days |-> IF d \in DaysOf[source] /\ bronzeTxn[d] = NoLoad
                                    THEN source ELSE bronzeTxn[d]]
    /\ bronzeRef' = source
    /\ Advance(p, "bronze_check", 1)
    /\ UNCHANGED <<source, table, curated, manifest, served, read, staged,
                   entries, envVars>>

\* Item 1: dynamic partition overwrite, which replaces the days the load has rows
\* for and leaves the others alone.  Item 2: createOrReplace of the reference.
BronzeWrite(p) ==
    /\ pc[p] = "bronze_write"
    /\ IF at[p] = 1
       THEN /\ bronzeTxn' = [d \in Days |->
                               IF d \in DaysOf[source] THEN source ELSE bronzeTxn[d]]
            /\ Advance(p, "bronze_write", 2)
            /\ UNCHANGED bronzeRef
       ELSE /\ bronzeRef' = source
            /\ Advance(p, "bronze_check", 1)
            /\ UNCHANGED bronzeTxn
    /\ UNCHANGED <<source, table, curated, manifest, served, read, staged,
                   entries, envVars>>

\* Both contracts read the published tables.
BronzeCheck(p) ==
    /\ pc[p] = "bronze_check"
    /\ LET c == BronzeContracts[at[p]] IN
       \/ RaisedBy(c, Current) /\ Finish(p, "bronze", c)
       \/ ~RaisedBy(c, Current) /\ at[p] = 1 /\ Advance(p, "bronze_check", 2)
       \/ ~RaisedBy(c, Current) /\ at[p] # 1 /\ Finish(p, "bronze", "ok")
    /\ UNCHANGED <<lakeVars, read, staged, entries, envVars>>

-----------------------------------------------------------------------------
(* silver.py *)

\* spark.table() of each bronze table in turn pins the snapshot the stage is computed
\* from, and raises for one that does not exist yet.
SilverRead(p) ==
    /\ pc[p] = "silver_read"
    /\ \/ /\ IF at[p] = 1 THEN \A d \in Days : bronzeTxn[d] = NoLoad ELSE bronzeRef = NoLoad
          /\ Finish(p, "silver", "missing")
          /\ UNCHANGED <<read, before>>
       \/ /\ at[p] = 1 /\ \E d \in Days : bronzeTxn[d] # NoLoad
          /\ read' = [read EXCEPT ![p] = [txn |-> bronzeTxn, ref |-> NoLoad]]
          /\ before' = [before EXCEPT ![p] = <<table["transactions"],
                                               table["dim_category"]>>]
          /\ Advance(p, "silver_read", 2)
       \/ /\ at[p] # 1 /\ bronzeRef # NoLoad
          /\ read' = [read EXCEPT ![p] = [txn |-> read[p].txn, ref |-> bronzeRef]]
          /\ Advance(p, "silver_quarantine", 1)
          /\ UNCHANGED before
    /\ UNCHANGED <<lakeVars, staged, entries, night, handRuns, faults, yesterday>>

\* Mutant: the quarantine is written only once the gate has let the run through.
SilverQuarantineIfPromoted(p) ==
    /\ pc[p] = "silver_quarantine"
    /\ table' = [table EXCEPT ![Quarantine] = IF OverBudget(read[p]) THEN @ ELSE read[p]]
    /\ Advance(p, "silver_gate", 1)
    /\ UNCHANGED <<source, bronzeTxn, bronzeRef, curated, manifest, served, read,
                   staged, entries, envVars>>

SilverQuarantine(p) ==
    /\ pc[p] = "silver_quarantine"
    /\ table' = [table EXCEPT ![Quarantine] = read[p]]
    /\ Advance(p, "silver_gate", 1)
    /\ UNCHANGED <<source, bronzeTxn, bronzeRef, curated, manifest, served, read,
                   staged, entries, envVars>>

\* Mutant: the gate only logs.
SilverGateLogs(p) ==
    /\ pc[p] = "silver_gate"
    /\ Advance(p, "stage", 1)
    /\ UNCHANGED <<lakeVars, read, staged, entries, envVars>>

SilverGate(p) ==
    /\ pc[p] = "silver_gate"
    /\ IF OverBudget(read[p]) THEN Finish(p, "silver", "gate")
                              ELSE Advance(p, "stage", 1)
    /\ UNCHANGED <<lakeVars, read, staged, entries, envVars>>

\* Mutant: createOrReplace straight onto the table, then check.
StageInPlace(p) ==
    /\ pc[p] = "stage"
    /\ table' = [table EXCEPT ![Staging[SilverTables[at[p]]]] = read[p],
                              ![SilverTables[at[p]]] = read[p]]
    /\ Advance(p, "audit", at[p])
    /\ UNCHANGED <<source, bronzeTxn, bronzeRef, curated, manifest, served, read,
                   staged, entries, envVars>>

\* _write_audited, first write: the staging table, then spark.table() of it.
Stage(p) ==
    /\ pc[p] = "stage"
    /\ table' = [table EXCEPT ![Staging[SilverTables[at[p]]]] = read[p]]
    /\ Advance(p, "audit", at[p])
    /\ UNCHANGED <<source, bronzeTxn, bronzeRef, curated, manifest, served, read,
                   staged, entries, envVars>>

\* Mutant: the contract runs on the rows in memory, the publish re-reads staging.
AuditInMemory(p) ==
    /\ pc[p] = "audit"
    /\ LET t == SilverTables[at[p]] IN
       /\ staged' = [staged EXCEPT ![p] = table[Staging[t]]]
       /\ IF RaisedBy(SilverContract[t], read[p])
          THEN Finish(p, "silver", SilverContract[t])
          ELSE Advance(p, "publish", at[p])
    /\ UNCHANGED <<lakeVars, read, entries, envVars>>

\* spark.table(staging_table) pins whatever snapshot the name has now; the contract
\* runs on it.
Audit(p) ==
    /\ pc[p] = "audit"
    /\ LET t == SilverTables[at[p]]
           v == table[Staging[t]]
       IN /\ staged' = [staged EXCEPT ![p] = v]
          /\ IF RaisedBy(SilverContract[t], v)
             THEN Finish(p, "silver", SilverContract[t])
             ELSE Advance(p, "publish", at[p])
    /\ UNCHANGED <<lakeVars, read, entries, envVars>>

\* Copies the pinned staging snapshot into the table; dim_category follows
\* transactions.
Publish(p) ==
    /\ pc[p] = "publish"
    /\ table' = [table EXCEPT ![SilverTables[at[p]]] = staged[p]]
    /\ IF at[p] = 1 THEN Advance(p, "stage", 2) ELSE Finish(p, "silver", "ok")
    /\ UNCHANGED <<source, bronzeTxn, bronzeRef, curated, manifest, served, read,
                   staged, entries, envVars>>

-----------------------------------------------------------------------------
(* gold.py *)

GoldRead(p) ==
    /\ pc[p] = "gold_read"
    /\ IF table["transactions"] = None
       THEN Finish(p, "gold", "missing") /\ UNCHANGED read
       ELSE /\ read' = [read EXCEPT ![p] = table["transactions"]]
            /\ Advance(p, "gold_write", 1)
    /\ UNCHANGED <<lakeVars, staged, entries, envVars>>

\* Mutant: CREATE TABLE IF NOT EXISTS instead of createOrReplace.
GoldWriteOnce(p) ==
    /\ pc[p] = "gold_write"
    /\ table' = [table EXCEPT ![GoldTables[at[p]]] = IF @ = None THEN read[p] ELSE @]
    /\ IF at[p] < Len(GoldTables) THEN Advance(p, "gold_write", at[p] + 1)
                                  ELSE Advance(p, "gold_check", 1)
    /\ UNCHANGED <<source, bronzeTxn, bronzeRef, curated, manifest, served, read,
                   staged, entries, envVars>>

GoldWrite(p) ==
    /\ pc[p] = "gold_write"
    /\ table' = [table EXCEPT ![GoldTables[at[p]]] = read[p]]
    /\ IF at[p] < Len(GoldTables) THEN Advance(p, "gold_write", at[p] + 1)
                                  ELSE Advance(p, "gold_check", 1)
    /\ UNCHANGED <<source, bronzeTxn, bronzeRef, curated, manifest, served, read,
                   staged, entries, envVars>>

\* Write, then check: the tables the contracts read are already published.
GoldCheck(p) ==
    /\ pc[p] = "gold_check"
    /\ LET c == GoldChecked[at[p]] IN
       \/ RaisedBy(c, table[c]) /\ Finish(p, "gold", c)
       \/ /\ ~RaisedBy(c, table[c])
          /\ IF at[p] < Len(GoldChecked) THEN Advance(p, "gold_check", at[p] + 1)
                                         ELSE Finish(p, "gold", "ok")
    /\ UNCHANGED <<lakeVars, read, staged, entries, envVars>>

-----------------------------------------------------------------------------
(* export.py *)

NextExport(p) ==
    IF at[p] < Len(Exports) THEN Advance(p, "export_clear", at[p] + 1)
                            ELSE Advance(p, "export_manifest", 1)

\* Per table: skip or raise when it does not exist; mode("overwrite") deletes the
\* old files first.
ExportClear(p) ==
    /\ pc[p] = "export_clear"
    /\ LET n == Exports[at[p]]
           v == table[SourceOf[n]]
           base == IF at[p] = 1 THEN [m \in ElementsOf(Exports) |-> None]
                                ELSE entries[p]
       IN \/ /\ v # None
             /\ read' = [read EXCEPT ![p] = v]
             /\ curated' = [curated EXCEPT ![n] = None]
             /\ entries' = [entries EXCEPT ![p] = base]
             /\ Advance(p, "export_write", at[p])
          \/ /\ v = None /\ n \in Optional
             /\ entries' = [entries EXCEPT ![p] = base]
             /\ NextExport(p)
             /\ UNCHANGED <<read, curated>>
          \/ /\ v = None /\ n \notin Optional
             /\ Finish(p, "export", "missing")
             /\ UNCHANGED <<read, curated, entries>>
    /\ UNCHANGED <<source, bronzeTxn, bronzeRef, table, manifest, served, staged,
                   envVars>>

\* The files land, and count() of the same pinned snapshot becomes the entry.
ExportWrite(p) ==
    /\ pc[p] = "export_write"
    /\ LET n == Exports[at[p]] IN
       /\ curated' = [curated EXCEPT ![n] = read[p]]
       /\ entries' = [entries EXCEPT ![p][n] = RowCount(n, read[p])]
    /\ NextExport(p)
    /\ UNCHANGED <<source, bronzeTxn, bronzeRef, table, manifest, served, read,
                   staged, envVars>>

\* Mutant: new entries are merged under the old manifest's.
ExportManifestMerged(p) ==
    /\ pc[p] = "export_manifest"
    /\ manifest' = [n \in ElementsOf(Exports) |->
                      IF manifest[n] # None THEN manifest[n] ELSE entries[p][n]]
    /\ Finish(p, "export", "ok")
    /\ UNCHANGED <<source, bronzeTxn, bronzeRef, table, curated, served, read,
                   staged, entries, envVars>>

ExportManifest(p) ==
    /\ pc[p] = "export_manifest"
    /\ manifest' = entries[p]
    /\ Finish(p, "export", "ok")
    /\ UNCHANGED <<source, bronzeTxn, bronzeRef, table, curated, served, read,
                   staged, entries, envVars>>

-----------------------------------------------------------------------------
(* warehouse/load.py, the DuckDB target *)

Exported == \E n \in ElementsOf(Exports) : manifest[n] # None
Connected(p) == pc[p] \in {"load_replace", "load_reconcile"}

\* Mutant: a database that admits two loads at once.
LoadOpenShared(p) ==
    /\ pc[p] = "load_open"
    /\ Exported
    /\ entries' = [entries EXCEPT ![p] = manifest]
    /\ Advance(p, "load_replace", 1)
    /\ UNCHANGED <<lakeVars, read, staged, envVars>>

\* Item 1: reads the manifest.  Item 2: connects; DuckDB admits one writing process at
\* a time.
LoadOpen(p) ==
    /\ pc[p] = "load_open"
    /\ \/ /\ at[p] = 1 /\ ~Exported
          /\ Finish(p, "load", "missing")
          /\ UNCHANGED entries
       \/ /\ at[p] = 1 /\ Exported
          /\ entries' = [entries EXCEPT ![p] = manifest]
          /\ Advance(p, "load_open", 2)
       \/ /\ at[p] # 1 /\ \E q \in Runners : Connected(q)
          /\ Finish(p, "load", "locked")
          /\ UNCHANGED entries
       \/ /\ at[p] # 1 /\ ~\E q \in Runners : Connected(q)
          /\ Advance(p, "load_replace", 1)
          /\ UNCHANGED entries
    /\ UNCHANGED <<lakeVars, read, staged, envVars>>

NextLoad(p) ==
    IF at[p] < Len(Exports) THEN Advance(p, "load_replace", at[p] + 1)
                            ELSE Finish(p, "load", "ok")

\* CREATE OR REPLACE TABLE ... AS SELECT * FROM read_parquet, for each manifest entry.
LoadReplace(p) ==
    /\ pc[p] = "load_replace"
    /\ LET n == Exports[at[p]] IN
       \/ /\ entries[p][n] = None
          /\ NextLoad(p)
          /\ UNCHANGED served
       \/ /\ entries[p][n] # None /\ curated[n] = None
          /\ Finish(p, "load", "missing")
          /\ UNCHANGED served
       \/ /\ entries[p][n] # None /\ curated[n] # None
          /\ served' = [served EXCEPT ![n] = curated[n]]
          /\ Advance(p, "load_reconcile", at[p])
    /\ UNCHANGED <<source, bronzeTxn, bronzeRef, table, curated, manifest, read,
                   staged, entries, envVars>>

\* _reconcile: raises after the table has been replaced.
LoadReconcile(p) ==
    /\ pc[p] = "load_reconcile"
    /\ LET n == Exports[at[p]] IN
       IF RowCount(n, served[n]) # entries[p][n] THEN Finish(p, "load", "mismatch")
                                                ELSE NextLoad(p)
    /\ UNCHANGED <<lakeVars, read, staged, entries, envVars>>

-----------------------------------------------------------------------------
(* The environment *)

\* 03:00: the DAG starts (max_active_runs=1) and ingest leaves some load in data/raw.
StartNight ==
    /\ pc[DAG] = "idle" /\ night < MaxNights
    /\ night' = night + 1
    /\ source' \in Loads
    /\ pc' = [pc EXCEPT ![DAG] = FirstStep("bronze")]
    /\ tries' = 0 /\ raised' = {} /\ yesterday' = served
    /\ ended' = [ended EXCEPT ![DAG] = [stage |-> "none", how |-> "none"]]
    /\ UNCHANGED <<bronzeTxn, bronzeRef, table, curated, manifest, served, at, read,
                   staged, entries, handRuns, faults, before>>

\* An operator runs one CLI command.
StartHand(p) ==
    /\ pc[p] = "idle" /\ handRuns < MaxHand /\ source # NoLoad
    /\ handRuns' = handRuns + 1
    /\ \E s \in Stages : Advance(p, FirstStep(s), 1)
    /\ UNCHANGED <<lakeVars, read, staged, entries, night, faults, before, yesterday>>

\* The process dies, or an object-store call fails, between two steps.
Crash(p) ==
    /\ pc[p] # "idle" /\ faults < MaxFaults
    /\ faults' = faults + 1
    /\ Finish(p, StageOf(pc[p]), "crash")
    /\ UNCHANGED <<lakeVars, read, staged, entries, night, handRuns, before, yesterday>>

Step(p) ==
    \/ BronzeWrite(p) \/ BronzeCheck(p)
    \/ SilverRead(p) \/ SilverQuarantine(p) \/ SilverGate(p)
    \/ Stage(p) \/ Audit(p) \/ Publish(p)
    \/ GoldRead(p) \/ GoldWrite(p) \/ GoldCheck(p)
    \/ ExportClear(p) \/ ExportWrite(p) \/ ExportManifest(p)
    \/ LoadOpen(p) \/ LoadReplace(p) \/ LoadReconcile(p)

Next ==
    \/ StartNight
    \/ \E p \in Hands : StartHand(p)
    \/ \E p \in Runners : Step(p) \/ Crash(p)

\* A started process keeps running; nothing makes a night start, an operator act
\* or a fault happen.
Spec == Init /\ [][Next]_vars /\ \A p \in Runners : WF_vars(Step(p))

-----------------------------------------------------------------------------
TypeOK ==
    /\ source \in Loads \cup {NoLoad}
    /\ bronzeTxn \in [Days -> Loads \cup {NoLoad}]
    /\ bronzeRef \in Loads \cup {NoLoad}
    /\ table \in [Tables -> Version \cup {None}]
    /\ curated \in [ElementsOf(Exports) -> Version \cup {None}]
    /\ manifest \in [ElementsOf(Exports) -> Nat \cup {None}]
    /\ served \in [ElementsOf(Exports) -> Version \cup {None}]
    /\ yesterday \in [ElementsOf(Exports) -> Version \cup {None}]
    /\ pc \in [Runners -> Steps]
    /\ at \in [Runners -> Nat \ {0}]
    /\ read \in [Runners -> Version \cup {None}]
    /\ staged \in [Runners -> Version \cup {None}]
    /\ entries \in [Runners -> [ElementsOf(Exports) -> Nat \cup {None}]]
    /\ tries \in 0 .. Retries
    /\ ended \in [Runners -> [stage : Stages \cup {"none"}, how : Endings]]
    /\ raised \subseteq Stoppers
    /\ night \in 0 .. MaxNights /\ handRuns \in 0 .. MaxHand /\ faults \in 0 .. MaxFaults
    /\ before \in [Runners -> (Version \cup {None}) \X (Version \cup {None})]

\* Write-audit-publish: under contracts.on_violation=fail neither silver table ever
\* holds data its own contract rejects, whoever runs silver, however the runs
\* interleave and wherever they die (silver.py _write_audited).
SilverAudited ==
    OnViolation = "fail" =>
        \A t \in ElementsOf(SilverTables) :
            table[t] # None => Conforms(SilverContract[t], table[t])

\* No data whose reject rate broke the 10% budget is ever published, nor staged
\* (silver.py, the reject-rate gate before either protected write).
SilverWithinBudget ==
    \A t \in ElementsOf(SilverTables) :
        /\ table[t] # None => ~OverBudget(table[t])
        /\ table[Staging[t]] # None => ~OverBudget(table[Staging[t]])

\* After a silver run that failed its gate or a contract, the quarantine table shows
\* what that run rejected, not what an earlier one did (silver.py, the comment above
\* the quarantine write).
QuarantineExplainsFailure ==
    /\ ended[DAG].stage = "silver"
    /\ ended[DAG].how \in {"gate", "silver_transactions", "silver_dim_category"}
    /\ pc[DAG] \in {"idle", "silver_read"} /\ at[DAG] = 1
    => table[Quarantine] = read[DAG]

\* A silver run stopped by the gate or by the transactions contract leaves both
\* protected tables as it found them (silver.py run, _write_audited).
StoppedSilverPublishesNothing ==
    ended[DAG].stage = "silver" /\ ended[DAG].how \in {"gate", "silver_transactions"}
        => <<table["transactions"], table["dim_category"]>> = before[DAG]

\* Everything the warehouse serves passed every contract of the spine and the reject
\* budget, although bronze and gold write before they check, and although a load may
\* die half way: the DAG's order is what protects the warehouse.
ServedAudited ==
    OnViolation = "fail" =>
        \A n \in ElementsOf(Exports) :
            served[n] # None => /\ \A c \in Contracts : Conforms(c, served[n])
                                /\ ~OverBudget(served[n])

\* A night in which a contract or the gate raised leaves the warehouse serving exactly
\* what it served when the night began (streamlake_batch.py, failure semantics).
BreachKeepsYesterday ==
    raised # {} => served = yesterday

\* In a nightly run the loader is never refused by its own export: a manifest a load
\* reads describes the files beside it, whatever earlier export died half way.
ExportReconciles ==
    ended[DAG].stage = "load" => ended[DAG].how \in {"ok", "crash"}

\* When a night's load succeeds, every served table was derived from the one bronze
\* snapshot of that night: no table lags behind in yesterday's version.
SuccessIsCoherent ==
    ended[DAG] = [stage |-> "load", how |-> "ok"] =>
        \A n \in ElementsOf(Exports) : served[n] = Current

\* While a load is under way, every table it has finished still has the row count the
\* manifest it read recorded, although others export and load meanwhile (load.py
\* _reconcile; DuckDB's single writer).
LoadedSoFarReconciles ==
    \A p \in Runners : Connected(p) =>
        \A i \in 1 .. at[p] - 1 :
            LET n == Exports[i] IN
            entries[p][n] # None =>
                served[n] # None /\ RowCount(n, served[n]) = entries[p][n]

Whole(l) == [txn |-> [d \in Days |-> l], ref |-> l]

\* A fault-free last night with a load that covers every day and that every contract
\* accepts ends with the warehouse serving that load, whatever state earlier nights,
\* breaches and crashes left bronze, gold, the curated files and the warehouse in.
CleanNightIsServed ==
    /\ night = MaxNights /\ faults = MaxFaults
    /\ pc[DAG] = "bronze_write" /\ at[DAG] = 1 /\ tries = 0
    /\ DaysOf[source] = Days
    /\ ~OverBudget(Whole(source))
    /\ \A c \in Contracts : Conforms(c, Whole(source))
    ~> \A n \in ElementsOf(Exports) : served[n] = Whole(source)

-----------------------------------------------------------------------------
(* What the documentation says and the code does not do. *)

\* silver.py:22: "A failing contract (or an over-budget quarantine rate) raises before
\* either publish happens, so the previous good table is never touched."  Whoever ran
\* silver: when a contract rejected that run's own rows and nobody runs any more, both
\* tables are the good ones the run found.
FailedSilverPublishesNothing ==
    \A p \in Runners :
        LET how == ended[p].how IN
        /\ ended[p].stage = "silver" /\ how \in Contracts /\ ~Conforms(how, read[p])
        /\ before[p][1] # None
        /\ \A q \in Runners : pc[q] = "idle"
        => <<table["transactions"], table["dim_category"]>> = before[p]
=============================================================================
