------------------------------- MODULE Scoring -------------------------------
(***************************************************************************)
(* Real-time scoring: the producer's topic, deduplicated within the        *)
(* watermark, scored by the model the process loaded when it started, and  *)
(* merged into stream.txn_decisions, one micro-batch at a time.            *)
(*                                                                         *)
(* Within a batch the watermark and the committed dedup state are fixed,   *)
(* so the rows it lets through are a set.                                  *)
(***************************************************************************)
EXTENDS Producer, SequencesExt

CONSTANTS
    Incomplete,            \* transactions without an amount or a distance
    NaN,
    Delay,                 \* stream.watermark_delay
    MaxOffsetsPerTrigger,
    Risk(_, _),            \* the probability a model gives a transaction's features
    Review, Decline,       \* the thresholds of each model
    MaxModels, MaxCrashes  \* bounds

ASSUME ScoringAssumption ==
    /\ Delay \in Nat \ {0} /\ MaxOffsetsPerTrigger \in Nat \ {0}
    /\ MaxModels \in Nat /\ MaxCrashes \in Nat
    /\ \A m \in 1 .. MaxModels : Review[m] <= Decline[m]
    /\ None \notin Nat

VARIABLES
    model,      \* models/fraud_scorer.joblib: 0 when there is none
    offset, planned, lateWm, nextWm, seen,  \* the checkpoint
    decisions,  \* stream.txn_decisions: the rows of each transaction
    phase,      \* where the query is in its batch
    loaded,     \* the model in the process
    source,     \* the decisions the batch is about to merge
    crashes

checkpoint == <<offset, planned, lateWm, nextWm, seen>>
scorer == <<model, checkpoint, decisions, phase, loaded, source, crashes>>
vars == <<curated, log, producer, scorer>>

Init ==
    /\ ProducerInit
    /\ model = 0
    /\ offset = 0 /\ planned = None /\ lateWm = 0 /\ nextWm = 0
    /\ seen = [t \in Txns |-> None]
    /\ decisions = [t \in Txns |-> <<>>]
    /\ phase = "off" /\ loaded = 0 /\ source = {} /\ crashes = 0

-----------------------------------------------------------------------------
(* scoring.py *)

\* event_to_features on a row of a collected batch: toPandas has turned its NULL into NaN,
\* which is not None.
Features(t) == IF t \in Incomplete THEN NaN ELSE t

\* LogisticRegression refuses NaN, to fit and to predict.
Scorable(T) == \A t \in T : Features(t) # NaN

DecisionFor(m, p) ==
    IF p >= Decline[m] THEN "DECLINE" ELSE IF p >= Review[m] THEN "REVIEW" ELSE "APPROVE"

\* train_scorer: fit on the curated train rows, score the others, save.
Train ==
    /\ model < MaxModels
    /\ Scorable(ToSet(curated))
    /\ model' = model + 1
    /\ UNCHANGED <<curated, log, producer, checkpoint, decisions, phase, loaded, source, crashes>>

-----------------------------------------------------------------------------
(* scorer.py *)

\* run(): the model is loaded once; without one there is no run.
Start ==
    /\ phase = "off" /\ model # 0
    /\ phase' = "idle" /\ loaded' = model
    /\ UNCHANGED <<curated, log, producer, model, checkpoint, decisions, source, crashes>>

\* The process ends, and the query with it.
Stop == phase' = "off" /\ loaded' = 0 /\ source' = {}

\* The end of the next batch: all the topic has, up to maxOffsetsPerTrigger.
EndOffset ==
    IF Len(log) - offset <= MaxOffsetsPerTrigger THEN Len(log) ELSE offset + MaxOffsetsPerTrigger

Plan ==
    /\ phase = "idle" /\ planned = None
    /\ offset < Len(log) \/ lateWm < nextWm
    /\ planned' = EndOffset
    /\ UNCHANGED <<curated, log, producer, model, offset, lateWm, nextWm, seen, decisions,
                   phase, loaded, source, crashes>>

\* Mutant: no watermark on the events.
NeverLate(i) == FALSE

Late(i) == log[i].ts <= lateWm

\* The rows of the batch that withWatermark and dropDuplicatesWithinWatermark let through.
Passed ==
    {i \in offset + 1 .. planned :
        /\ ~Late(i) /\ seen[log[i].txn] = None
        /\ \A j \in offset + 1 .. i - 1 : log[j].txn = log[i].txn => Late(j)}

DecisionRow(i) ==
    [txn |-> log[i].txn, ts |-> log[i].ts, at |-> i,
     decision |-> DecisionFor(loaded, Risk(loaded, Features(log[i].txn)))]

\* Mutant: no early return for an empty batch, and a frame without columns cannot be scored.
ScoreEmptyToo ==
    /\ phase = "idle" /\ planned # None
    /\ IF Passed = {} \/ ~Scorable({log[i].txn : i \in Passed})
       THEN Stop
       ELSE phase' = "merge" /\ source' = {DecisionRow(i) : i \in Passed} /\ UNCHANGED loaded
    /\ UNCHANGED <<curated, log, producer, model, checkpoint, decisions, crashes>>

\* write_batch up to the MERGE: an empty batch returns, a row that cannot be scored ends the
\* query and leaves the batch to be replayed.
Score ==
    /\ phase = "idle" /\ planned # None
    /\ IF Scorable({log[i].txn : i \in Passed})
       THEN /\ source' = {DecisionRow(i) : i \in Passed}
            /\ phase' = IF Passed = {} THEN "commit" ELSE "merge"
            /\ UNCHANGED loaded
       ELSE Stop
    /\ UNCHANGED <<curated, log, producer, model, checkpoint, decisions, crashes>>

SourceOf(t) == {r \in source : r.txn = t}

\* Mutant: INSERT INTO.
Inserted(t) == decisions[t] \o SetToSeq(SourceOf(t))

\* MERGE ON trans_num: update the rows that match, insert when none does.
Merged(t) ==
    IF SourceOf(t) # {} /\ decisions[t] # <<>>
    THEN [n \in DOMAIN decisions[t] |-> CHOOSE r \in SourceOf(t) : TRUE]
    ELSE decisions[t] \o SetToSeq(SourceOf(t))

\* Two source rows for one target row are an error.
Ambiguous ==
    \E t \in Txns : decisions[t] # <<>> /\ Cardinality(SourceOf(t)) > 1

Merge ==
    /\ phase = "merge"
    /\ IF Ambiguous
       THEN Stop /\ UNCHANGED decisions
       ELSE /\ phase' = "commit" /\ decisions' = [t \in Txns |-> Merged(t)] /\ source' = {}
            /\ UNCHANGED loaded
    /\ UNCHANGED <<curated, log, producer, model, checkpoint, crashes>>

MaxTime(S) == CHOOSE t \in S : \A u \in S : u <= t

\* The watermark after the batch: the newest event time of all its rows, less the delay.
WatermarkAfter ==
    LET newest == MaxTime({log[i].ts : i \in offset + 1 .. planned} \cup {0}) IN
    IF newest > nextWm + Delay THEN newest - Delay ELSE nextWm

\* The dedup entry of a transaction after the batch, unless the watermark has passed it.
SeenAfter(t) ==
    LET mine == {i \in Passed : log[i].txn = t}
        entry == IF mine = {} THEN seen[t] ELSE MaxTime({log[i].ts : i \in mine}) + Delay
    IN IF entry # None /\ entry <= nextWm THEN None ELSE entry

\* Mutant: the offsets are committed before write_batch has run.
CommitFirst ==
    /\ phase \in {"commit", "merge"}
    /\ offset' = planned /\ planned' = None
    /\ lateWm' = nextWm /\ nextWm' = WatermarkAfter
    /\ seen' = [t \in Txns |-> SeenAfter(t)]
    /\ phase' = "idle" /\ source' = {}
    /\ UNCHANGED <<curated, log, producer, model, decisions, loaded, crashes>>

Commit ==
    /\ phase = "commit"
    /\ offset' = planned /\ planned' = None
    /\ lateWm' = nextWm /\ nextWm' = WatermarkAfter
    /\ seen' = [t \in Txns |-> SeenAfter(t)]
    /\ phase' = "idle"
    /\ UNCHANGED <<curated, log, producer, model, decisions, loaded, source, crashes>>

\* run_seconds are over, or the process dies.
Crash ==
    /\ phase # "off" /\ crashes < MaxCrashes
    /\ Stop /\ crashes' = crashes + 1
    /\ UNCHANGED <<curated, log, producer, model, checkpoint, decisions>>

\* The steps of a query that is running.
Running == Plan \/ Score \/ Merge \/ Commit

Next ==
    \/ (Export \/ ProducerNext) /\ UNCHANGED scorer
    \/ Train \/ Start \/ Running \/ Crash

\* A query that runs goes on; nothing starts the scorer, or starts it again, but its operator.
Spec == Init /\ [][Next]_vars /\ WF_vars(Running)

-----------------------------------------------------------------------------
Phases == {"off", "idle", "merge", "commit"}

TypeOK ==
    /\ ProducerTypeOK
    /\ model \in 0 .. MaxModels /\ loaded \in 0 .. model
    /\ offset \in 0 .. Len(log)
    /\ planned \in (offset .. Len(log)) \cup {None}
    /\ lateWm \in Nat /\ nextWm \in Nat
    /\ seen \in [Txns -> Nat \cup {None}]
    /\ \A t \in Txns : \A n \in DOMAIN decisions[t] : decisions[t][n].txn = t
    /\ phase \in Phases /\ crashes \in 0 .. MaxCrashes

\* A transaction has at most one decision, however often it is sent and its batch replayed,
\* and the MERGE never meets two rows of one transaction (scorer.py, "does not produce two
\* decision rows for one transaction").
OneDecision ==
    /\ \A t \in Txns : Len(decisions[t]) <= 1
    /\ \A t \in Txns : Cardinality(SourceOf(t)) <= 1

\* A decision is only ever replaced by one on a newer event, or, when its batch is replayed,
\* by another on the very message it was made from: no late copy of a transaction and no
\* redelivery decides it again.
DecisionNeverOlder ==
    [][\A t \in Txns :
        decisions[t] # <<>> /\ decisions'[t] # decisions[t] =>
            \/ decisions'[t][1].ts > decisions[t][1].ts
            \/ decisions'[t][1].at = decisions[t][1].at]_vars

\* A transaction whose event was consumed has a decision, unless the event came later than
\* the delay allows: no crash between scoring, MERGE and commit loses one.
ConsumedIsDecided ==
    \A i \in 1 .. offset :
        \/ decisions[log[i].txn] # <<>>
        \/ \E j \in 1 .. i - 1 : log[j].ts >= log[i].ts + Delay

Sent == {log[i].txn : i \in 1 .. Len(log)}

\* While every event on the topic can be scored, a run of the scorer that is not stopped (those
\* after the last stop) catches up with the topic once it no longer grows: no batch ends the
\* run, though batches without a new transaction reach write_batch, and none is waited for in
\* vain.
ScoredInTheEnd ==
    [](Sent \cap Incomplete = {}) =>
        (phase # "off" /\ crashes = MaxCrashes ~> offset = Len(log))

-----------------------------------------------------------------------------
(* What the documentation says and the code does not do. *)

\* scoring.py, event_to_features: "Tolerant of missing/None fields", so that an event without
\* a distance is scored like any other, by a scorer that is started as often as it takes.
MissingFieldsAreScored ==
    []<>(phase # "off") => (model > 0 ~> offset = Len(log))
=============================================================================
