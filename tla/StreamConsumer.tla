--------------------------- MODULE StreamConsumer ---------------------------
(***************************************************************************)
(* The streaming consumer: Kafka -> watermark -> dedup -> windowed count   *)
(* -> contract -> MERGE, one micro-batch at a time, over a checkpoint that *)
(* survives the process.                                                   *)
(*                                                                         *)
(* A row is its transaction and its event time; a transaction's category,  *)
(* its is_fraud and whether it has an amount are fixed.  The partitions of *)
(* the topic are merged into one log, in the order the batches take their  *)
(* rows.                                                                   *)
(***************************************************************************)
EXTENDS Naturals, Sequences, FiniteSets, Sums

CONSTANTS
    Txns,         \* trans_num values on the topic
    CategoryOf,   \* the category of each transaction
    NoCategory,   \* a NULL category
    HasAmount,    \* transactions whose amt is not NULL
    FraudOf,      \* the is_fraud of each transaction, 0 for NULL
    None,         \* no batch planned, no dedup entry
    Times,        \* event times, in some unit
    Delay,        \* stream.watermark_delay
    Width,        \* stream.window_duration
    MaxOffsetsPerTrigger,
    OnViolation,  \* contracts.on_violation: "fail" or "warn"
    MaxLog, MaxCrashes   \* bounds on the environment

ASSUME ConsumerAssumption ==
    /\ OnViolation \in {"fail", "warn"}
    /\ HasAmount \subseteq Txns /\ FraudOf \in [Txns -> Nat]
    /\ MaxLog \in Nat /\ MaxCrashes \in Nat
    /\ Times \subseteq Nat \ {0}
    /\ Delay \in Nat \ {0} /\ Width \in Nat \ {0}
    /\ MaxOffsetsPerTrigger \in Nat \ {0}
    /\ None \notin Nat

Row == [txn : Txns, ts : Times]

\* A window and a category: what the stream groups by and MERGE matches on.
WindowOf(ts) == ts \div Width
Windows == {WindowOf(ts) : ts \in Times}
Keys == Windows \X {CategoryOf[t] : t \in Txns}
KeyOf(r) == <<WindowOf(r.ts), CategoryOf[r.txn]>>
WindowEnd(k) == (k[1] + 1) * Width

VARIABLES
    log,      \* the Kafka topic
    \* the checkpoint
    offset,   \* rows consumed by committed batches
    planned,  \* end offset of the batch in the write-ahead log, until it commits
    lateWm,   \* watermark below which the next batch's rows are late
    nextWm,   \* watermark its state is evicted by
    seen,     \* dedup state: when the entry of a transaction expires
    counts,   \* aggregation state: rows counted in each live window,
    frauds,   \* the sum of their is_fraud,
    priced,   \* and the windows whose sum(amt) is not NULL
    \* the table stream.txn_metrics_1m
    sink,     \* the txns column of the rows of each window and category
    \* the process
    phase,    \* where the query is in its batch
    pos,      \* rows of the log the batch has been through
    wSeen, wCounts, wFrauds, wPriced,  \* the state it has computed
    wMax,     \* the newest event time it has seen
    changed,  \* the windows it emits
    taken,    \* the rows it counts
    \* history
    counted,  \* the rows counted by committed batches
    shown,    \* the rows the sink counts
    crashes

checkpoint == <<offset, planned, lateWm, nextWm, seen, counts, frauds, priced>>
working == <<pos, wSeen, wCounts, wFrauds, wPriced, wMax, changed, taken>>
vars == <<log, checkpoint, sink, phase, working, counted, shown, crashes>>

Init ==
    /\ log = <<>>
    /\ offset = 0 /\ planned = None
    /\ lateWm = 0 /\ nextWm = 0
    /\ seen = [t \in Txns |-> None]
    /\ counts = [k \in Keys |-> 0] /\ frauds = [k \in Keys |-> 0] /\ priced = {}
    /\ sink = [k \in Keys |-> <<>>]
    /\ phase = "off"
    /\ pos = 0 /\ wMax = 0
    /\ wSeen = seen /\ wCounts = counts /\ wFrauds = frauds /\ wPriced = priced
    /\ changed = {} /\ taken = {}
    /\ counted = {} /\ shown = {} /\ crashes = 0

-----------------------------------------------------------------------------
(* The producer, and whoever else writes to the topic. *)

\* Any transaction, redelivered or re-sent, with any event time.
Produce ==
    /\ Len(log) < MaxLog
    /\ \E r \in Row : log' = Append(log, r)
    /\ UNCHANGED <<checkpoint, sink, phase, working, counted, shown, crashes>>

-----------------------------------------------------------------------------
(* The query: Structured Streaming's micro-batch loop. *)

\* run(): the query starts on whatever the checkpoint holds.
Start ==
    /\ phase = "off"
    /\ phase' = "idle"
    /\ UNCHANGED <<log, checkpoint, sink, working, counted, shown, crashes>>

\* The next batch is logged before it runs: up to maxOffsetsPerTrigger new rows, or none
\* when only the watermark has moved.
Plan ==
    /\ phase = "idle" /\ planned = None
    /\ offset < Len(log) \/ lateWm < nextWm
    /\ planned' = IF Len(log) - offset <= MaxOffsetsPerTrigger
                  THEN Len(log) ELSE offset + MaxOffsetsPerTrigger
    /\ UNCHANGED <<log, offset, lateWm, nextWm, seen, counts, frauds, priced, sink, phase,
                   working, counted, shown, crashes>>

\* The logged batch begins, for the first time or again after a restart.
Begin ==
    /\ phase = "idle" /\ planned # None
    /\ phase' = "rows"
    /\ pos' = offset /\ wMax' = 0
    /\ wSeen' = seen /\ wCounts' = counts /\ wFrauds' = frauds /\ wPriced' = priced
    /\ changed' = {} /\ taken' = {}
    /\ UNCHANGED <<log, checkpoint, sink, counted, shown, crashes>>

Late(r) == r.ts <= lateWm

\* Mutant: dropDuplicatesWithinWatermark(["trans_num", "event_ts"]).
DuplicateByStamp(r) == wSeen[r.txn] = r.ts + Delay

Duplicate(r) == wSeen[r.txn] # None

\* One row of the batch: withWatermark, dropDuplicatesWithinWatermark, groupBy.
ReadRow ==
    /\ phase = "rows" /\ pos < planned
    /\ LET r == log[pos + 1] IN
       /\ pos' = pos + 1
       /\ wMax' = IF r.ts > wMax THEN r.ts ELSE wMax
       /\ IF Late(r) \/ Duplicate(r)
          THEN UNCHANGED <<wSeen, wCounts, wFrauds, wPriced, changed, taken>>
          ELSE /\ wSeen' = [wSeen EXCEPT ![r.txn] = r.ts + Delay]
               /\ wCounts' = [wCounts EXCEPT ![KeyOf(r)] = @ + 1]
               /\ wFrauds' = [wFrauds EXCEPT ![KeyOf(r)] = @ + FraudOf[r.txn]]
               /\ wPriced' = IF r.txn \in HasAmount THEN wPriced \cup {KeyOf(r)} ELSE wPriced
               /\ changed' = changed \cup {KeyOf(r)}
               /\ taken' = taken \cup {pos + 1}
    /\ UNCHANGED <<log, checkpoint, sink, phase, counted, shown, crashes>>

\* The contract's checks that a batch of windows can break: neither category nor total_amt is
\* nullable, and fraud_txns <= txns.
Breach ==
    \E k \in changed : k[2] = NoCategory \/ k \notin wPriced \/ wFrauds[k] > wCounts[k]

\* Mutant: an append sink.
MergeAppends(k) == Append(sink[k], wCounts[k])

\* Mutant: WHEN MATCHED adds the batch's count to the row's.
MergeAdds(k) ==
    IF k[2] # NoCategory /\ sink[k] # <<>>
    THEN [i \in 1 .. Len(sink[k]) |-> sink[k][i] + wCounts[k]]
    ELSE Append(sink[k], wCounts[k])

\* MERGE: update the matching rows, insert when none matches; NULL matches nothing.
Merged(k) ==
    IF k[2] # NoCategory /\ sink[k] # <<>>
    THEN [i \in 1 .. Len(sink[k]) |-> wCounts[k]]
    ELSE Append(sink[k], wCounts[k])

\* Mutant: MERGE, then validate.
EnforceAfterMerge ==
    /\ phase = "rows" /\ pos = planned
    /\ sink' = [k \in Keys |-> IF k \in changed THEN Merged(k) ELSE sink[k]]
    /\ shown' = counted \cup taken
    /\ phase' = IF Breach /\ OnViolation = "fail" THEN "off" ELSE "commit"
    /\ UNCHANGED <<log, checkpoint, working, counted, crashes>>

\* Mutant: no early return, so an empty batch breaks the contract's row_count min 1.
EnforceEmptyToo ==
    /\ phase = "rows" /\ pos = planned
    /\ phase' = IF (Breach \/ changed = {}) /\ OnViolation = "fail" THEN "off" ELSE "merge"
    /\ UNCHANGED <<log, checkpoint, sink, working, counted, shown, crashes>>

\* write_batch up to enforce: an empty batch returns, a breach ends the query.
Enforce ==
    /\ phase = "rows" /\ pos = planned
    /\ phase' = IF changed = {} THEN "commit"
                ELSE IF Breach /\ OnViolation = "fail" THEN "off" ELSE "merge"
    /\ UNCHANGED <<log, checkpoint, sink, working, counted, shown, crashes>>

Merge ==
    /\ phase = "merge"
    /\ sink' = [k \in Keys |-> IF k \in changed THEN Merged(k) ELSE sink[k]]
    /\ shown' = counted \cup taken
    /\ phase' = "commit"
    /\ UNCHANGED <<log, checkpoint, working, counted, crashes>>

\* Mutant: the watermark is the newest event time itself.
WatermarkAtMax == IF wMax > nextWm THEN wMax ELSE nextWm

WatermarkAfter == IF wMax > nextWm + Delay THEN wMax - Delay ELSE nextWm

\* The batch commits: its state, evicted by the watermark it ran under, its offsets and
\* the watermark of the next one.
Commit ==
    /\ phase = "commit"
    /\ offset' = planned /\ planned' = None
    /\ lateWm' = nextWm /\ nextWm' = WatermarkAfter
    /\ seen' = [t \in Txns |-> IF wSeen[t] # None /\ wSeen[t] <= nextWm
                               THEN None ELSE wSeen[t]]
    /\ counts' = [k \in Keys |-> IF WindowEnd(k) <= nextWm THEN 0 ELSE wCounts[k]]
    /\ frauds' = [k \in Keys |-> IF WindowEnd(k) <= nextWm THEN 0 ELSE wFrauds[k]]
    /\ priced' = {k \in wPriced : WindowEnd(k) > nextWm}
    /\ counted' = counted \cup taken
    /\ phase' = "idle"
    /\ UNCHANGED <<log, sink, working, shown, crashes>>

\* The process dies, is evicted, or is stopped by its timer; the checkpoint survives.
Crash ==
    /\ phase # "off" /\ crashes < MaxCrashes
    /\ phase' = "off"
    /\ crashes' = crashes + 1
    /\ UNCHANGED <<log, checkpoint, sink, working, counted, shown>>

Query == Start \/ Plan \/ Begin \/ ReadRow \/ Enforce \/ Merge \/ Commit

Next == Produce \/ Query \/ Crash

\* The Deployment restarts the process and the query keeps triggering; nothing makes the
\* producer send.
Spec == Init /\ [][Next]_vars /\ WF_vars(Query)

-----------------------------------------------------------------------------
Phases == {"off", "idle", "rows", "merge", "commit"}

TypeOK ==
    /\ log \in Seq(Row)
    /\ offset \in 0 .. Len(log)
    /\ planned \in (offset .. Len(log)) \cup {None}
    /\ lateWm \in Nat /\ nextWm \in Nat
    /\ seen \in [Txns -> Nat \cup {None}] /\ wSeen \in [Txns -> Nat \cup {None}]
    /\ counts \in [Keys -> Nat] /\ wCounts \in [Keys -> Nat]
    /\ frauds \in [Keys -> Nat] /\ wFrauds \in [Keys -> Nat]
    /\ priced \subseteq Keys /\ wPriced \subseteq Keys
    /\ sink \in [Keys -> Seq(Nat)]
    /\ phase \in Phases
    /\ pos \in 0 .. Len(log) /\ wMax \in Nat
    /\ changed \subseteq Keys
    /\ taken \subseteq 1 .. Len(log) /\ counted \subseteq 1 .. offset
    /\ shown \subseteq 1 .. Len(log)
    /\ crashes \in 0 .. MaxCrashes

\* Two rows of one transaction are both counted only when their event times are more than
\* the watermark delay apart: a redelivery, which keeps its stamp, never is, however late
\* it comes and however often its batch is replayed (README, "Layer 2").
CountedOncePerDelay ==
    \A i, j \in counted :
        i # j /\ log[i].txn = log[j].txn /\ log[i].ts <= log[j].ts
            => log[j].ts > log[i].ts + Delay

\* A consumed row that was not counted has a reason: an earlier row of its transaction was
\* counted, or an earlier row was at least the delay newer (the reconciliation identity,
\* produced = counted + duplicates + late).
DropsExplained ==
    \A i \in 1 .. offset : i \notin counted =>
        \E j \in 1 .. i - 1 :
            \/ j \in counted /\ log[j].txn = log[i].txn
            \/ log[j].ts >= log[i].ts + Delay

CountedIn(k) == Cardinality({i \in counted : KeyOf(log[i]) = k})

\* Between batches the sink has one row for every window and category with counted rows,
\* and it holds their number: no replayed MERGE, evicted window or restart makes it wrong.
SinkExact ==
    planned = None =>
        \A k \in Keys : k[2] # NoCategory =>
            sink[k] = IF CountedIn(k) = 0 THEN <<>> ELSE <<CountedIn(k)>>

\* The consumer implements the promise of WindowCounts: every MERGE, the first of its batch
\* or a replay, leaves the table the exact count of a growing set of rows, and everything
\* else the consumer does is invisible in the table.
Promise == INSTANCE WindowCounts WITH accepted <- shown, table <- sink
KeepsPromise == Promise!Spec

FraudsIn(k, A) ==
    SumOf([i \in {j \in A : KeyOf(log[j]) = k} |-> FraudOf[log[i].txn]])

\* A batch that breaks its contract changes neither the sink nor the offsets: no row of a
\* NULL category is ever merged or counted, and no window is counted that would have no
\* amount at all or more frauds than rows (consumer.py write_batch, "validate, then MERGE. In
\* that order, always").
BreachHoldsOffsets ==
    OnViolation = "fail" =>
        /\ \A k \in Keys : k[2] = NoCategory => sink[k] = <<>>
        /\ \A i \in counted :
             /\ CategoryOf[log[i].txn] # NoCategory
             /\ \E j \in counted : KeyOf(log[j]) = KeyOf(log[i]) /\ log[j].txn \in HasAmount
        /\ \A k \in Keys : FraudsIn(k, counted) <= CountedIn(k)

\* The producer's rows: each with a category, an amount and an is_fraud of 0 or 1.
NoBreachPossible ==
    \A i \in 1 .. Len(log) :
        /\ CategoryOf[log[i].txn] # NoCategory
        /\ log[i].txn \in HasAmount /\ FraudOf[log[i].txn] <= 1

\* While no row lacks a category or an amount or is fraud more than once, every row that
\* reaches the topic is eventually consumed, although batches that count nothing reach
\* write_batch and the process keeps dying: the early return keeps an empty batch away from
\* the contract's row_count min 1.
AllConsumed ==
    []NoBreachPossible => \A i \in 1 .. MaxLog : Len(log) >= i ~> offset >= i
=============================================================================
