# StreamLake in TLA+

A verification project for StreamLake: TLA+ modules translated from the Python
source, TLC configurations that check them on small instances, and theorems
that TLAPS proves for every value of the constants.

    tlc -workers 2 -config BatchDag.cfg MCBatchSpine     # one run
    tlapm StreamConsumerProofs.tla                       # one proof module

`PROJECT.json` lists every run, every definition with the source lines it
translates, the hazards the properties are for, and, for each checked
property, a mutant of the code that breaks it.

## 1. The system

| Component | Source | State it keeps | Operations | Made correct by |
|---|---|---|---|---|
| ingest | `batch/ingest.py` | files in `data/raw`, manifest | download, rename, size gate | a truncated file is never mistaken for a good one |
| bronze | `batch/bronze.py` | two Iceberg tables | dynamic partition overwrite, replace, then contracts | a rejected load goes no further |
| silver | `batch/silver.py` | transactions, dim_category, quarantine, two staging tables | quarantine, reject gate, write-audit-publish | a protected table only ever holds audited data |
| row transforms | `transforms.py` | none | rename, mask, age, distance, reject reason, category join | no row vanishes: it is in silver, or in quarantine with a reason |
| gold | `batch/gold.py` | five tables | write all, then two contracts | what is served comes from one silver snapshot |
| export | `batch/export.py` | parquet files, manifest | delete, write, count, manifest last | the manifest describes the files beside it |
| warehouse load | `warehouse/load.py` | raw schema | replace, then reconcile, per table | row counts are the exported ones |
| contract engine | `contracts/*.py`, `conf/contracts` | reports | evaluate nine types of check, report, raise | a breach is recorded and stops the stage |
| summary | `contracts/summary.py` | contract_summary.json | roll up the latest reports | the failed run is the one it shows |
| dashboard | `dashboard/build.py` | one HTML page | query marts, read the summary | numbers and contract results belong together |
| nightly DAG | `airflow/dags/streamlake_batch.py` | task instances, the run | chain, retries, trigger rules | a breach stops the chain and is seen |
| CLI | `cli.py` | none | any stage, by hand | safe next to the DAG |
| producer | `stream/producer.py` | Kafka topic, statistics | replay, duplicate, stamp late, flush | what it reports as sent was delivered |
| consumer | `stream/consumer.py` | checkpoint, `stream.txn_metrics_1m`, report | watermark, dedup, window, contract, MERGE | the table is the exact count of distinct rows |
| scorer, training | `stream/scorer.py`, `scoring.py`, `scripts/train_scorer.py` | checkpoint, `stream.txn_decisions`, the model file | train, load, dedup, score, MERGE | one decision per transaction, none lost, none older than the last |
| late-arrival demo | `scripts/demo_late_arrivals.py` | topic, sink and reports of a round | reset, start, two phases, verdict | it never calls a mismatch a success |
| notebook | `databricks/streamlake_batch_databricks.py` | Delta tables, the session's variables | cells, Run all | gold comes from audited silver, counts from the tables |
| deployment | `infra/k8s`, `airflow/dags/streamlake_stream.py` | none | restart, one consumer at a time | the stream goes on |

The batch stages share nothing but tables and files: each is a process that
reads what the one before left, and the DAG starts it only if that one
succeeded. An operator may start the same processes by hand at any time. The
streaming arm shares only its table with the batch arm (export copies it) and
the curated transactions (the producer replays them).

What is hard: stages publish several things one after the other and may die,
be retried or be overtaken in between; some check before they publish (silver),
some after (bronze, gold, load), one not at all (export); names of tables are
read twice; the stream sees rows twice, late and out of order, and replays
batches it had already merged; skipped tasks must still let a report through;
clients buffer what they call sent; reports are read from a query that is still
running; scripts and notebooks stop half way and are run again over what they left.
Section 6 lists what each property is aimed at, `PROJECT.json` each hazard at
its line.

## 2. Modules

| Module | Models | State and actions |
|---|---|---|
| `BatchSpine` | bronze, silver, gold, export, DuckDB load, as run by the DAG and by hand | a table is the *version* of bronze its rows derive from: the load of each day partition, and of the category reference. One action per write, check or read a stage makes; `pc` and `at` say which one a runner does next |
| `NightlyDag` | the nine tasks of the DAG, retries, trigger rules, the state of the run, contract reports, summary, dashboard | tables and reports are the night they are of, a report with its status. `Begin`, `Skip`, `EndRun` are Airflow's, `Enforce`, `Succeed`, `Fault` the tasks', `StreamReports` is a stream consumer's, which writes its report into the same directory |
| `StreamConsumer` | the Structured Streaming query of the consumer | the topic, the checkpoint (offsets, write-ahead log, watermarks, dedup and aggregation state), the sink, and the volatile state of the batch under way |
| `Landing` | ingest, bronze, silver and two gold tables, one night after the other, with the rows | files, manifest, and tables as sets of rows. One action per download, gate, write or check |
| `ContractChecks` | the contract engine: every type of check, the checks a schema block implies, status, raising | operators on a table `[cols, rows]`, used by `Landing` |
| `Producer` | a producer run: source rows, stamps, redeliveries, the client's queue, delivery reports, `flush`, statistics | the topic, with the run each event is of; `Send`, `FlushReturns`, `Finish`, `KillProducer` are the run's, `Deliver`, `DeliveryFails`, `Arrive` the client's and the broker's |
| `Scoring` | training, and the scorer's query over `Producer`'s topic | model file, checkpoint, decisions; `Start` (by hand), the `Running` query's `Plan`, `Score`, `Merge`, `Commit`, and `Crash` |
| `LateDemo` | the demo script around `StreamConsumer`, and the bounded run and report of `consumer.run()` | `ResetTopic` to `Check` are the script's, `RunQuery` to `StopAndReport` the consumer process's |
| `Notebook` | the Databricks notebook | a table is the version of each file it was computed from; a cell is the list of its statements |
| `WindowCounts` | what the stream's table promises, without batches, state or crashes | `Produce`, `Accept` |
| `MCBatchSpine`, `MCNightlyDag`, `MCStreamConsumer`, `MCLanding`, `MCScoring`, `MCLateDemo`, `MCNotebook` | values of the constants | |
| `Sums` | sums of naturals (Spark's `F.sum`, Python's `sum`), used by `Landing` and `LateDemo` | operators; a sum is the size of a set, so that proofs can reason about it |
| `BatchSpineProofs`, `StreamConsumerProofs`, `ScoringProofs`, `NightlyDagProofs`, `NotebookProofs`, `LandingProofs`, `LateDemoProofs`, `SumsProofs` | theorems (section 4) | |

`BatchSpine` and `NightlyDag` look at the same DAG from two sides: the first
has the stages' effects in detail and reduces Airflow to "next task, retry or
stop" (`Finish`), the second has Airflow in detail and reduces the stages to
"held its contracts or not".

`BatchSpine` and `Landing` look at the same stages from two sides too: the first
has every interleaving of the DAG with hands and crashes and reduces a table to
the version it was computed from; the second runs one stage at a time and has
the rows, so that it can say what the versions contain.

Compositions: `Scoring` extends `Producer` (the topic, the export the producer
replays and the scorer is trained on); `LateDemo` extends `StreamConsumer`, whose
actions are those of its consumer process; `Landing` instantiates
`ContractChecks` with the expressions of the gold contract.

### Abstractions worth knowing

* **Versions instead of rows.** A contract or a row count depends on a table's
  version alone (`Conforms`, `RowCount` are constant operators). Silver and
  gold are functions of what they read, so equal versions are equal tables.
* **Snapshots.** A DataFrame made by `spark.table()` stays on the Iceberg
  snapshot it was planned on (`read`, `staged`): the catalog caches tables
  within a session. Reading the name again is a new snapshot, and the model does
  so where the code does (`Audit`, `GoldCheck`).
* **The topic is one log.** The rows of the Kafka partitions are put in the
  order the batches take them; a replayed batch takes the same offsets in the
  same order.
* **Spark's contract**, modelled from how the consumer uses it: a batch's end
  offset is logged before it runs and kept until it commits; a row is late when
  its event time is not above the watermark the *previous* batch evicted by; a
  batch evicts by the watermark it was planned with; state, offsets and
  watermark commit together; a batch without rows runs when only the watermark
  has moved.
* **NULL.** `NoCategory` stands for the NULL category that the contract forbids and
  that SQL equality never matches. A transaction outside `HasAmount` has a NULL amount; a
  window of no other has a NULL sum, which the contract forbids too. `FraudOf` is the
  producer's fraud label, which the contract bounds by the number of rows.
* **Rows in `Landing`** are distinct records: `source_split`, `batch_id` and
  `ingested_at` make them so (two identical lines in one file would be one).
  Columns that no check or rule tells apart are left out (last four digits, merchant
  longitude beside latitude, and so on), a time is a day, the hash is injective.
  Which of two rows of one transaction in one load survives the dedup is a
  choice: they tie on both columns of its ordering.
* **Gold in `Landing`** is `category_hourly_fraud`, with its contract, and
  `card_velocity`. The contract's `row_count`, a matter of volume, is left out.
* **The model** is an operator `Risk`; a retrained model may decide otherwise. A row
  without a distance cannot be scored, as in the code (section 5).
* **Batches in `Scoring`.** Within a batch the watermark and the committed dedup
  state do not change, so the rows that pass are a set, computed at once.
* **Delivery.** Events are in the client's `queue` until the broker acknowledges them or the
  client gives them up. `flush(30)` returns with what is left there counted. Deliveries go on
  while the statistics are written; a delivery report that comes then is not heard. What was
  given up, or was queued when the process ended or was killed, is on the `wire`: each such
  event reaches the topic later, or never.
* **Whole files in `Landing`.** What ingest calls whole is big enough: its gates are 100 and
  40 MB. A short response is one below its gate; one that broke off above it would be taken
  for whole by the code and is not modelled.
* **Waits of the demo** are of any length. A round begins when the previous one's
  consumer has ended: an aborted round leaves one running, and nothing in the script
  stops it.
* **Cells of the notebook** are lists of writes, audits, a gate and counts. A table of
  a cell that reads what was never written, or gold without the silver cell's import
  of `Window`, raises. Bronze counts read the uploaded files again.
* **History variables.** `before`, `yesterday`, `raised`, `ended` in `BatchSpine`,
  `raised`, `pageBefore` in `NightlyDag`, `counted`, `shown`, `crashes` in
  `StreamConsumer`, `loads`, `served`, `shortServed` in `Landing`, `left` in `Producer`,
  `lost` in `LateDemo` and `disturbed` in `Notebook` only serve properties and bounds.

## 3. Runs

| Run | Asks | Bounds | Result |
|---|---|---|---|
| `BatchDag` | does the DAG's order protect the warehouse whatever a night brings? | 7 loads (clean, a day short, and one per kind of breach), 2 days, 3 nights, 1 retry, 1 crash | holds |
| `BatchHands` | what survives an operator running any stage next to the DAG? | 4 loads, 2 nights, 1 hand-run stage, 1 crash | holds |
| `Nightly` | is a breach reported, the page frozen, the run ended? | 4 batch contracts that pass, break or (silver) warn, a stream report that says FAILED or is cut off, 2 nights, 2 faults | holds |
| `StreamSafe` | does the table hold the exact counts, and does the consumer implement `WindowCounts`? | 2 transactions, 4 rows, 4 event times, batches of 2, 1 crash | holds |
| `StreamBreach` | does a breach hold sink and offsets, and do empty batches let the stream go on? | 1 good transaction, 1 without category, 1 without amount, 1 with too many frauds, 3 rows, 2 crashes | holds |
| `Landing` | what do the rows of silver and gold stand for, and does ingest recover? | 5 file pairs, 9 rows, 4 transactions, 2 loads, 1 crash | holds |
| `Scoring` | one decision for each transaction, whatever is resent, replayed or retrained; does a running scorer catch up; what do a run's statistics say of the topic? | 2 transactions, 2 producer runs, 3 events, 2 event times, batches of 2, 2 models, 1 crash | holds |
| `LateDemo` | may the demo call something a success that is not one? | 2 rounds, 4 rows of the export, 4 events on the topic, batches of 2, a ring of 3, 1 crash | holds |
| `Notebook` | what do a finished Run all, and its gold, come from? | 3 runs, 2 uploads, 1 lost session | holds |
| `BatchSilverDoc` | "raises before either publish happens" (`silver.py:22`) | 2 loads (clean; a reference that breaks its contracts), 2 nights, 1 hand-run stage, no fault | violated |
| `NightlyRunDoc` | a breach "fails the Airflow DAG" (`engine.py:5`) | 2 nights, 1 fault | violated |
| `ScorerPoison` | "Tolerant of missing/None fields" (`scoring.py:88`) | as `Scoring`, one transaction without a distance | violated |

Why the bounds are enough. Three nights are one to fill the lake, one to go
wrong in any way, and one to recover; two days let a load leave a stale
partition behind; the loads differ in exactly the checks that can tell them
apart. One hand-run stage can interleave with every step of two nights. Four
rows of two transactions fill two batches, so that a duplicate, a late row, an
evicted window and a replay can meet; the four event times (half minutes, with
the configured window of one minute and delay of two) are two rows of one
window, one that makes the older of them late, and one that closes their
window. Two nights are what a stale report or page needs. Two loads of `Landing` are
what a reload, a later copy and a replaced day need; its file pairs hold one row
for each way through the rules and the contract. Three events of two
transactions, sent by two runs, give `Scoring` a redelivery, a resent
transaction that is newer, and one that is late; the second model decides
differently. A run replays one row here (`Limit`), once or twice: enough for flush to
leave both copies, one or none, and for either to arrive during the next run; the theorem has
any export. A ring of three progress records is shorter than the batches of a
round. Three runs of the notebook, with two uploads between, are a complete
one, one by hand or stopped half way, and one more. All runs have
`CHECK_DEADLOCK FALSE`: when no night begins and no row arrives the system is
idle.

Loads and fault, hand-run, crash, night and log counters are the only bounds:
`MaxNights`, `MaxHand`, `MaxFaults`, `MaxLog`, `MaxCrashes`, `MaxLoads`, `MaxRuns`,
`MaxEvents`, `MaxModels`, `MaxRounds`, `MaxUploads`, `MaxLost`.

### Fairness

A process that was started keeps running: weak fairness of each runner's `Step`,
of Airflow's `Scheduler`, and of the consumer's `Query`, which the Deployment (one replica,
always restarted) or the streaming DAG starts again after it ended. Nothing is
fair about the environment: no night has to begin, no row to arrive, no
operator to act, and no crash to happen or stop happening before its bound.
In `Landing` a stage that began runs on, and a download that is tried again
and again succeeds some day (strong fairness), on the assumption, stated in
`HalfDownloadsHeal`, that the publisher never answers with a short body. Nothing in
the repository starts the scorer again: in `Scoring` only a `Running` query is fair, `Start` is
not, and `ScoredInTheEnd` is about the runs of the scorer after its last stop (`MaxCrashes`). The property of
`ScorerPoison` assumes, as its premise, that the scorer is started as often as it takes, and
is violated all the same.
`LateDemo` and `Notebook` state no fairness and claim safety only. Liveness
(`CleanNightIsServed`, `RunEnds`, `AllConsumed`, `HalfDownloadsHeal`,
`ScoredInTheEnd`) is checked by TLC only.

## 4. Proofs

Every theorem is stated for all values of the constants and any number of
nights, retries, crashes or messages; the bounds in the guards (`MaxNights`,
`MaxCrashes` and so on) are arbitrary numbers there.

**`BatchSpineProofs`**, with any operators next to the DAG:

* `TypeCorrect`: the type invariant and that a runner's position lies in the
  list its step walks (`PositionOK`, which the types of every table access need);
* `SilverAuditedAlways`, `SilverWithinBudgetAlways`: by the inductive invariant
  `SilverInv`. Neither property is inductive alone: a publish copies the
  snapshot a runner holds, so the invariant adds what every runner in flight
  carries (`InFlightOK`): past the gate its `read` is within budget, and at the
  publish its `staged` snapshot has passed its contract, whoever wrote it;
* `LoadedSoFarReconcilesAlways`: by `LoadInv`. The warehouse has one writer, so what
  the runner at its `load` steps has replaced is what it read, with the counts of the
  manifest it holds, whatever is exported meanwhile. A table that were exported twice
  would break it, hence the assumption `ExportsOnce`.

**`BatchSpineProofs`, the nights**, under the hypothesis `Hands = {}`: nobody runs a stage by hand
during the nights, as in `BatchDag`. The order of the DAG is then what protects the
warehouse, and a hand-run export is enough to get around it (section 5, 5).

* `NightEstablished`: each step finds established what the steps before it were for
  (`Established`: bronze holds the load and its reference, silver is within budget and
  audited, gold rebuilt and checked, the export complete, all of `Current`), and
  `History` says the same of what the history variables remember. A retry starts its
  stage anew, so `Established` is stated for each step of each stage, not for the
  stages;
* `ServedAuditedAlways`, `BreachKeepsYesterdayAlways`, `ExportReconcilesAlways`,
  `SuccessIsCoherentAlways`, `QuarantineExplainsFailureAlways`,
  `StoppedSilverPublishesNothingAlways`: each is a part of that invariant.

**`StreamConsumerProofs`**, for any topic, event times, delay, window, trigger
bound and crashes:

* `TypeCorrect`, with the bounds of a batch under way (`BatchOK`);
* `CountedOncePerDelayAlways`: by `DedupInv`. The dedup state remembers every
  counted row until its expiry is behind the watermark under which rows are
  late (`Remembered`), for the committed state and for that of the batch under
  way; an on-time row unknown to it is then more than the delay newer
  (`CountOne`);
* `BreachHoldsOffsetsAlways`: by `NothingBroken`, which ties the rows a batch
  counts to the windows it emits, with their counts, frauds and amounts, and those to the
  check they passed;
* `DropsExplainedAlways`: by `DropsInv`. The watermark never exceeds an earlier
  row's event time minus the delay (`Newer`), and the dedup state knows only
  counted transactions (`Known`);
* `SinkExactAlways`: by `BatchInv` (the aggregation state holds the exact counts of the
  windows it has not evicted, and what a batch takes is a function of the topic and the
  committed state, so a replay takes it again) and `SinkInv` (the sink is the count of
  the rows shown). They rest on lemmas on counting by cardinality (`CountType` and
  those after it);
* `KeepsPromiseAlways`, under `OnViolation = "fail"`: the refinement of `WindowCounts`.
  The initial states map to its initial state; `Merge` is `Accept` (`MergeAccepts`), of
  no rows when it is a replay; the arrival of a message is `Produce`; every other step
  stutters. Under `"warn"` a row of the NULL category is inserted again by a replay,
  and the promise is not kept.

**`ScoringProofs`**, for any transactions, models, thresholds and exports:

* `ScorerInvariant`: `ScorerInv` says what the watermarks lag behind (`WatermarkInv`), that
  a scored batch is a function of the topic and the checkpoint (`SourceInv`), that a
  decision is of a consumed message the dedup state remembers as long as a copy could be
  on time, or of the batch to be replayed (`TableInv`, `Settled`), and that a batch about
  to commit has decided all its rows (`CommitInv`);
* `OneDecisionAlways`, `ConsumedIsDecidedAlways`, and the action property
  `DecisionNeverOlderAlways`: a replayed batch meets the decisions of its first attempt,
  so `Settled` has to say that these are on the very messages the batch holds.

**`ScoringProofs`, the producer**, `StatsAccountAlways`: the events a run has sent, and the
distinct pairs of transaction and event time among them (a redelivery keeps both), exceed what
the topic and the queue have of them by nothing while the run hears of every event given up,
and afterwards by at most what `flush` left (`Account`); an event that moves between queue,
wire and topic, or is lost, keeps that (`AccountMoves`). `CountersInv` says so of the run under
way, `RunInv` keeps the runs apart. Nothing is assumed of what flush left: it may be on the
topic when flush returns, arrive while the statistics are written or later, or never. It needs that an export has one row per
transaction (`ProducerAssumption`), which is what `SilverIsNewest` shows of silver.

**`NightlyDagProofs`**, for any contracts, nights and faults: `NightInvariant`
(`NightInv`: a task has a state only when those before it in the chain have ended, an
enforced contract has a report of this night, and the page and the summary follow), and
from it `BreachReportedAlways`, `CleanNightReportedAlways` and `BreachFreezesPageAlways`,
whatever the stream consumer reports meanwhile.

**`NotebookProofs`**, for any files, contracts, uploads, cells run by hand and
lost sessions:

* `TypeCorrect`: tables hold versions of files that were uploaded, and a cell that
  runs is at one of its statements or at its end;
* `GoldFromAuditedAlways`: by `AuditedSoFar`, which says what the silver cell has
  behind it at each of its statements, and Run all in the gold cell. It is kept
  because silver is written only by the silver cell's first three statements
  (`SilverStays`, `SilverWritesFirst`);
* `RunAllCoherentAlways`: by `CoherentInv`. While Run all is undisturbed, the statements
  behind it have written, audited and counted the tables they are for (`Progress`), and no
  later statement writes those again; a run that is over stays what it was.

**`LandingProofs`**, for any rows, files, contract bounds, loads and crashes:

* `TypeCorrect`: the types, and `FilesInv`, what ingest has behind it at each step;
* `LoadedAsDescribedAlways`: by `FilesInv`. A file that breaks off is not on disk under
  its name, and the manifest is written after both files passed their size;
* `SilverIsNewestAlways`, `NothingDroppedAlways`: by `BronzeInv`, which says what bronze
  is after any number of loads, `Lake(n)`: the rows of each load whose day no later one
  has; and `SilverInv`, which says the cache, staging and silver hold what the
  expressions of the stage make of one such lake. The dedup's choice among ties is any
  (`DedupIsNewest`);
* `SilverIsCleanAlways`: silver passed its contract, and what a passed contract says of
  the rows is `PassedAudit`, a lemma about `ContractChecks` (status, severities, the
  checks a schema block implies, NULLs);
* `BreachIsAHoleAlways`: a row no rule rejects (`KeptRow`) passes every check on single
  rows but for the NULLs of three columns (`RowsPass`);
* `ReloadIsIdempotentAlways`: two rows of a lake that differ in their lineage alone would
  be of one day and different loads, and the later replaced the earlier (`BareDiffer`);
  so bronze is as large as its rows without lineage are many;
* `GoldFollowsSilverAlways`: by `GoldInv` (what the check of gold looks at was computed from
  the silver of now) and by what `SilverInv` says of silver (`ServedIsReadable`). The
  groups of `category_hourly_fraud` part the rows of silver, and the days of a card's window
  part its rows of the last seven days; a sum of the sizes of parts is the size of the whole
  (`SumOfSizes`), whatever gaps the days have.

**`LateDemoProofs`**, for any curated exports, split, ring size, delay, rounds and crashes,
wherever the script's sleeps and aborts fall. One inductive invariant, `DemoInv`:

* `Turns`: who runs when. A round starts with an empty topic, an ended consumer and no
  report, and a report is there only after the consumer has ended;
* `SendInv`: what the producer has sent is a stretch of the curated rows, so a row of phase B
  is alone of its transaction (`TopicOK`), and what is not on the topic was lost;
* `ConsumerInv`, the invariants of `StreamConsumerProofs`, from the start of a round until
  its consumer has ended: after a reset of the topic alone they do not hold, for the old
  checkpoint speaks of another topic;
* `Reported`: each record of the ring tallies a stretch of the topic, and the newest records
  cover the newest stretch (`Tally`). A record that leaves the ring takes its rows out of
  the sum, hence "at most" in `ReportWithinRun` and "all" only when the sum is the topic's
  length;
* from it `ReportWithinRunAlways`, `DemoHonestAlways` (a report that covers the topic splits
  it into counted, late and repeated rows, and late ones can only be phase B's:
  `LateRows`, `ThreeParts`), and, under `OnViolation = "fail"`, `DemoRepeatableAlways`.
  Under `"warn"` it is false: TLC finds two rows of a NULL category in one window but in two
  batches, for which the sink holds both counts and the verdict is a mismatch.

`SumsProofs` has what those proofs need of sums: `SumOfSizes`, `SumOfBits`, `SumIsNatural`.
`SumOf(f)` is the cardinality of a set with `f[x]` members for each `x`, so a sum is
reasoned about by bijections, without induction over data.

`Min`, `Max` and positions in sequences rest on the least-number principle
(`LeastNatural`), from the library's well-foundedness of `<` on `Nat`.

### Assumptions

Those of the modules, which TLC evaluates in their runs. They say that bounds are
numbers, that the names that stand for nothing (`None`, `Null`, `Absent`, `NoLoad`)
are not values, and that constant functions have the right domains. Beyond that:
`ExportsOnce` (no table twice in `export.py`'s list); every load has rows of some day
(`SpineAssumption`; ingest refuses an empty file); the export of `ProducerAssumption`;
`LandingAssumption` has finitely many possible rows, each with the columns Sparkov
publishes, times, amounts and latitudes being numbers or NULL (the reader's schema);
`NullIsNoReason` (a reject rule has a name); `DemoAssumption`, that a curated export has one
row per transaction (silver's, as above), and that ten minutes ago was before now. The
theorems about nights, and `KeepsPromiseAlways` and `DemoRepeatableAlways`, have a hypothesis
of their own, named above: `Hands = {}` (as in `BatchDag`) and `OnViolation = "fail"`, the
deployed setting (as in `StreamSafe` and `LateDemo`).

### Only model-checked

Liveness, which is beyond the provers here: `CleanNightIsServed`, `RunEnds`, `AllConsumed`,
`HalfDownloadsHeal`, `ScoredInTheEnd`. Every invariant and every action property that a
passing run checks is also a theorem. The three properties of the `violation` runs are
false, and stay with TLC's counterexamples.

`SilverWithinBudget` and the type invariants of `StreamConsumer` and `Landing` are proved,
and not repeated in every run they hold in.

## 5. Where code and documentation differ

Shown by a run:

1. `silver.py` publishes transactions before it audits dim_category
   (`BatchSilverDoc`). What silver checks of the reference bronze has checked before, so in
   the DAG bronze raises first and silver never starts. But bronze has written the reference
   by then: silver run by hand on it publishes one table and then fails on the other.
2. `contract_summary` is the DAG's only leaf and always runs, so Airflow marks a
   run whose contract failed as successful (`NightlyRunDoc`).
3. `event_to_features` is "tolerant of missing/None fields", but the scorer hands it rows
   in which pandas has turned NULL into NaN, and the regression refuses NaN: one event
   without a distance ends the query, and again each time it is started (`ScorerPoison`).
   Training stops on such a row too.

Read off the code while modelling it:

4. `contract_summary.json` is not only "from a run" (`summary.py:1`): it rolls up the latest
   report of every contract there is. After a breach it shows the contracts of the skipped
   tasks as an earlier night left them, and a failed report the stream consumer left, of
   whatever day, makes the summary of a clean night FAILED (`CleanNightReported` allows that,
   and nothing else).
5. `export.py` runs no contract, and gold publishes before it checks, so a
   hand-run export can hand out rows their contract rejects (`engine.py:3` speaks of
   every hop).
6. The dashboard runs before `contract_summary` and shows the file the previous
   night left (`dashboard/build.py:4`: "the contract results for the run that produced
   these numbers").
7. Under `on_violation: warn` the MERGE inserts a window of a NULL category again
   in every batch that touches it.
8. The producer is "not done until the broker has the record" (`producer.py:156`), but
   the result of `flush(30)` is not looked at: events still queued then are counted as
   sent, and the broker may have them, get them later or never (`StatsAccount`).
9. `reject_reason` has no answer to a NULL category or card number: one such row
   stops the night at the silver contract instead of going to quarantine.
10. A short response is renamed into place before the size gate refuses it, and no retry
   downloads it again without `--force`.

## 6. What each property is aimed at

* `SilverAudited`, `SilverWithinBudget`: two silver runs share the name of the
  staging table; what is published must be what was audited.
* `ServedAudited`, `BreachKeepsYesterday`, `SuccessIsCoherent`: bronze, gold and
  load publish before they check, and may die half way.
* `QuarantineExplainsFailure`, `StoppedSilverPublishesNothing`: what an operator
  finds after a failed silver run.
* `ExportReconciles`, `LoadedSoFarReconciles`: files, manifest and warehouse are
  rewritten one after the other, by several processes.
* `CleanNightIsServed`: no state an earlier night left needs repair by hand.
* `BreachReported`, `CleanNightReported`, `BreachFreezesPage`, `RunEnds`: reports of
  several nights lie side by side, and skipped tasks must not hide a breach.
* `CountedOncePerDelay`, `DropsExplained`, `SinkExact`, `KeepsPromise`: duplicates,
  late rows, eviction and replays, in any order over any batches.
* `LoadedAsDescribed`, `HalfDownloadsHeal`, `ReloadIsIdempotent`: downloads that break off,
  files that are there already, days that are loaded again.
* `SilverIsNewest`, `NothingDropped`: copies of a transaction in both files, in two loads,
  valid in one and rejected in the other, and ties.
* `SilverIsClean`, `BreachIsAHole`: the reject rules and the contract are two accounts of
  what a valid row is; where they differ the night stops.
* `GoldFollowsSilver`: groups and a trailing window with gaps.
* `StatsAccount`: what is buffered, redelivered, refused or lost when a run counts.
* `OneDecision`, `DecisionNeverOlder`, `ConsumedIsDecided`, `ScoredInTheEnd`: replays with
  another model, resent and late events, batches without anything new.
* `DemoHonest`, `DemoRepeatable`, `ReportWithinRun`: a report read from a running query and
  cut to its newest entries, held against what was sent and what was stored.
* `RunAllCoherent`, `GoldFromAudited`: write first, audit later, in cells that may be run in
  any order over files that change.
* `BreachHoldsOffsets`, `AllConsumed`: a poison batch moves nothing, an empty one
  blocks nothing.

## 7. Not modelled

Snowflake's loader, dbt's SQL and its tests, page rendering, the fraud model's
arithmetic, Terraform, forecasting and the Tableau extracts, the real-time
scoring demo, settings, the Spark session and monitoring: either another
service's behaviour, or sequential transformations without shared state.
Components that are modelled in part say what is missing in `PROJECT.json`.

## 8. What is left

The planned modules are written, and every safety property of a passing run is proved. What
a later version could add:

1. The streaming DAG's `produce` and `stream-check` tasks.
2. The rows of the other gold tables, and of the dbt marts computed from them.
3. `BatchSpine` and `Landing` look at the same stages, and nothing relates the two formally:
   a refinement from the rows of `Landing` to the versions of `BatchSpine`, for a DAG without
   hands, would.
