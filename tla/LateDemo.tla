------------------------------- MODULE LateDemo -------------------------------
(***************************************************************************)
(* scripts/demo_late_arrivals.py, run over and over against the streaming  *)
(* consumer: reset the topic and the sink, start a consumer for a bounded  *)
(* time, send a batch on time and one that is late, and hold what the      *)
(* consumer reports of itself against what was sent and what the table     *)
(* holds.  The consumer is StreamConsumer's, with the report it leaves.    *)
(*                                                                         *)
(* The script's waits are sleeps: any of them may be too short.            *)
(***************************************************************************)
EXTENDS StreamConsumer

CONSTANTS
    CuratedChoices,   \* what the curated export may hold: sequences of transactions
    SplitAt,          \* phase A sends the rows up to here, phase B the others
    OnTime, TenMinutesAgo,  \* their event times
    RingSize,         \* batches recentProgress keeps
    MaxRounds         \* bound on runs of the script

ASSUME DemoAssumption ==
    /\ \A c \in CuratedChoices : /\ c \in Seq(Txns)
                                 /\ \A i, j \in 1 .. Len(c) : c[i] = c[j] => i = j
    /\ {OnTime, TenMinutesAgo} \subseteq Times /\ TenMinutesAgo < OnTime
    /\ SplitAt \in Nat /\ RingSize \in Nat \ {0} /\ MaxRounds \in Nat
    /\ None \notin {"ok", "failed", "raised"}

VARIABLES
    curated,
    step,      \* where the script is
    toSend,    \* rows its producer has still to send
    sent,      \* events it has sent
    sentA, sentB,  \* phaseA_ontime_latest.json, phaseB_late_latest.json: what was sent
    proc,      \* the consumer process
    progress,  \* query.recentProgress: a record for each committed batch
    snapshot,  \* what run() read of it
    report,    \* consumer_reconciliation.json
    outcome,   \* what the script said last
    round,
    lost       \* history: an event of this round did not reach the topic

script == <<curated, step, toSend, sent, sentA, sentB, outcome, round, lost>>
reporting == <<proc, progress, snapshot, report>>
demo == <<script, reporting>>
allVars == <<vars, demo>>

DemoInit ==
    /\ Init
    /\ curated \in CuratedChoices
    /\ step = "idle" /\ toSend = <<>> /\ sent = 0 /\ sentA = None /\ sentB = None
    /\ proc = "exited" /\ progress = <<>> /\ snapshot = <<>> /\ report = None
    /\ outcome = None /\ round = 0 /\ lost = FALSE

-----------------------------------------------------------------------------
(* The consumer process: consumer.run(). *)

\* The progress of the batch that commits: the operators count the rows that came behind the
\* watermark and the rows the dedup state already had.
BatchProgress ==
    LET rows == offset + 1 .. planned
        late == {i \in rows : Late(log[i])}
    IN [input |-> Cardinality(rows), late |-> Cardinality(late),
        dups |-> Cardinality(rows \ (late \cup taken))]

\* A list that keeps its newest entries.
Ring(s) == IF Len(s) <= RingSize THEN s ELSE Tail(s)

\* The micro-batch loop, under way until stop() or a failure.
RunQuery ==
    /\ proc \in {"running", "stopping"}
    /\ \/ Commit /\ progress' = Ring(Append(progress, BatchProgress))
       \/ (Plan \/ Begin \/ ReadRow \/ Enforce \/ Merge) /\ UNCHANGED progress
    /\ UNCHANGED <<script, proc, snapshot, report>>

\* awaitTermination(seconds) raises when the query has failed: run() ends without a report.
QueryFailed ==
    /\ proc = "running" /\ phase = "off"
    /\ proc' = "exited"
    /\ UNCHANGED <<vars, script, progress, snapshot, report>>

\* awaitTermination(seconds) returns, and recentProgress is read while the query goes on.
TimeIsUp ==
    /\ proc = "running" /\ phase # "off"
    /\ proc' = "stopping" /\ snapshot' = progress
    /\ UNCHANGED <<vars, script, progress, report>>

\* Mutant: the two counters are taken for each other.
Mislabelled(s) ==
    [input |-> SumOf([i \in DOMAIN s |-> s[i].input]),
     late  |-> SumOf([i \in DOMAIN s |-> s[i].dups]),
     dups  |-> SumOf([i \in DOMAIN s |-> s[i].late])]

\* summarize_state_ops.
Summary(s) ==
    [input |-> SumOf([i \in DOMAIN s |-> s[i].input]),
     late  |-> SumOf([i \in DOMAIN s |-> s[i].late]),
     dups  |-> SumOf([i \in DOMAIN s |-> s[i].dups])]

\* query.stop(), wherever the query is in its batch, and _write_reconciliation.
StopAndReport ==
    /\ proc = "stopping"
    /\ phase' = "off" /\ proc' = "exited"
    /\ report' = Summary(snapshot)
    /\ UNCHANGED <<log, checkpoint, sink, working, counted, shown, crashes,
                   script, progress, snapshot>>

ConsumerDies ==
    /\ proc # "exited" /\ Crash
    /\ proc' = "exited"
    /\ UNCHANGED <<script, progress, snapshot, report>>

Consumer == RunQuery \/ QueryFailed \/ TimeIsUp \/ StopAndReport \/ ConsumerDies

-----------------------------------------------------------------------------
(* The script. *)

EmptyTable == [k \in Keys |-> <<>>]

\* The query's state, with no checkpoint and nothing done.
FreshQuery ==
    /\ offset' = 0 /\ planned' = None /\ lateWm' = 0 /\ nextWm' = 0
    /\ seen' = [t \in Txns |-> None]
    /\ counts' = [k \in Keys |-> 0] /\ frauds' = [k \in Keys |-> 0] /\ priced' = {}
    /\ pos' = 0 /\ wMax' = 0
    /\ wSeen' = seen' /\ wCounts' = counts' /\ wFrauds' = frauds' /\ wPriced' = priced'
    /\ changed' = {} /\ taken' = {} /\ counted' = {} /\ shown' = {}

\* Mutant: only the sink and the checkpoint are reset, as before the fix.
KeepTopic ==
    /\ step = "idle" /\ round < MaxRounds /\ proc = "exited"
    /\ step' = "resetSink" /\ round' = round + 1 /\ lost' = FALSE
    /\ UNCHANGED <<vars, curated, toSend, sent, sentA, sentB, outcome, reporting>>

\* _reset_topic.  A round begins when the consumer of the round before has ended.
ResetTopic ==
    /\ step = "idle" /\ round < MaxRounds /\ proc = "exited"
    /\ log' = <<>>
    /\ step' = "resetSink" /\ round' = round + 1 /\ lost' = FALSE
    /\ UNCHANGED <<checkpoint, sink, phase, working, counted, shown, crashes,
                   curated, toSend, sent, sentA, sentB, outcome, reporting>>

\* Mutant: the reports of the round before stay.
KeepReports ==
    /\ step = "resetSink"
    /\ FreshQuery
    /\ sink' = EmptyTable
    /\ progress' = <<>> /\ snapshot' = <<>>
    /\ step' = "start"
    /\ UNCHANGED <<log, phase, crashes, curated, toSend, sent, outcome, round, lost, proc,
                   sentA, sentB, report>>

\* _reset_sink: checkpoint, stale reports, table.
ResetSink ==
    /\ step = "resetSink"
    /\ FreshQuery
    /\ sink' = EmptyTable
    /\ progress' = <<>> /\ snapshot' = <<>>
    /\ sentA' = None /\ sentB' = None /\ report' = None
    /\ step' = "start"
    /\ UNCHANGED <<log, phase, crashes, curated, toSend, sent, outcome, round, lost, proc>>

\* The events phase A sends, when the curated file has as many.
PhaseALength == IF SplitAt <= Len(curated) THEN SplitAt ELSE Len(curated)

\* _start_consumer, and the first _produce.
StartConsumer ==
    /\ step = "start"
    /\ Start /\ proc' = "running"
    /\ step' = "phaseA"
    /\ toSend' = SubSeq(curated, 1, PhaseALength) /\ sent' = 0
    /\ UNCHANGED <<curated, sentA, sentB, outcome, round, lost, progress, snapshot, report>>

Stamp == IF step = "phaseA" THEN OnTime ELSE TenMinutesAgo

\* The events of the next row: phase A redelivers some of its own.
EventsOf(t) ==
    LET e == [txn |-> t, ts |-> Stamp] IN
    IF step = "phaseA" THEN {<<e>>, <<e, e>>} ELSE {<<e>>}

\* producer.run() sends a row; what flush() leaves behind counts as sent all the same.
SendRow ==
    /\ step \in {"phaseA", "phaseB"} /\ toSend # <<>>
    /\ toSend' = Tail(toSend)
    /\ \E batch \in EventsOf(Head(toSend)) :
        /\ sent' = sent + Len(batch)
        /\ \/ log' = log \o batch /\ UNCHANGED lost
           \/ UNCHANGED log /\ lost' = TRUE
    /\ UNCHANGED <<checkpoint, sink, phase, working, counted, shown, crashes,
                   curated, step, sentA, sentB, outcome, round, reporting>>

\* Phase A's statistics are written, the sleep after it is over, and phase B
\* begins.
BeginPhaseB ==
    /\ step = "phaseA" /\ toSend = <<>>
    /\ step' = "phaseB"
    /\ toSend' = SubSeq(curated, PhaseALength + 1, Len(curated))
    /\ sentA' = sent /\ sent' = 0
    /\ UNCHANGED <<vars, curated, sentB, outcome, round, lost, reporting>>

\* Phase B's are written, the sleep after it is over, and the script waits for the consumer.
EndPhaseB ==
    /\ step = "phaseB" /\ toSend = <<>>
    /\ step' = "wait"
    /\ sentB' = sent
    /\ UNCHANGED <<vars, curated, toSend, sent, sentA, outcome, round, lost, reporting>>

SinkTotal == SumOf([k \in Keys |-> SumOf(sink[k])])

\* The identity, the independent query of the sink, and something dropped as late.
Verdict ==
    IF report = None \/ sentA = None \/ sentB = None THEN "raised"
    ELSE LET total == report.input - report.dups - report.late IN
         IF /\ sentA + sentB = total + report.dups + report.late
            /\ SinkTotal = total
            /\ report.late > 0
         THEN "ok" ELSE "failed"

\* The consumer has ended, or wait(timeout) raises while it still runs.
Check ==
    /\ step = "wait"
    /\ \/ proc = "exited" /\ outcome' = Verdict
       \/ proc # "exited" /\ outcome' = "raised"
    /\ step' = "idle"
    /\ UNCHANGED <<vars, curated, toSend, sent, sentA, sentB, round, lost, reporting>>

\* The broker still lists the topic, or a producer fails: the script raises, and a consumer
\* it started runs on.
Abort ==
    /\ step \in {"resetSink", "phaseA", "phaseB"}
    /\ step' = "idle" /\ outcome' = "raised" /\ toSend' = <<>>
    /\ UNCHANGED <<vars, curated, sent, sentA, sentB, round, lost, reporting>>

Advance ==
    ResetSink \/ StartConsumer \/ SendRow \/ BeginPhaseB \/ EndPhaseB \/ Check

DemoNext == ResetTopic \/ Advance \/ Abort \/ Consumer

DemoSpec == DemoInit /\ [][DemoNext]_allVars

-----------------------------------------------------------------------------
Steps == {"idle", "resetSink", "start", "phaseA", "phaseB", "wait"}

BatchRecord == [input : Nat, late : Nat, dups : Nat]

\* Between _reset_topic and _reset_sink the checkpoint is of a topic that is gone.
DemoTypeOK ==
    /\ step \in Steps \ {"idle", "resetSink"} => TypeOK
    /\ curated \in CuratedChoices
    /\ step \in Steps /\ toSend \in Seq(Txns) /\ sent \in Nat
    /\ sentA \in Nat \cup {None} /\ sentB \in Nat \cup {None}
    /\ proc \in {"running", "stopping", "exited"}
    /\ progress \in Seq(BatchRecord) /\ Len(progress) <= RingSize
    /\ snapshot \in Seq(BatchRecord) /\ report \in BatchRecord \cup {None}
    /\ outcome \in {None, "ok", "failed", "raised"}
    /\ round \in 0 .. MaxRounds /\ lost \in BOOLEAN

PhaseB == {i \in 1 .. Len(log) : log[i].ts = TenMinutesAgo}

\* After a round the script called a success, until the next: all that was sent is on the
\* topic, all of it was consumed and committed, the table counts exactly the rows counted,
\* and the late and the duplicate rows of the report are the rows of phase B and of phase A
\* that it does not count ("a demo script that can silently pass with mismatched numbers is
\* worse than no demo at all").
DemoHonest ==
    outcome = "ok" /\ step = "idle" =>
        /\ ~lost /\ sentA + sentB = Len(log) /\ offset = Len(log)
        /\ SinkTotal = Cardinality(counted)
        /\ report.late = Cardinality(PhaseB \ counted)
        /\ report.dups = Cardinality((1 .. Len(log)) \ (PhaseB \cup counted))

\* A round whose events all arrived, whose consumer reported on the whole topic and found
\* something late reconciles, whatever the rounds before it left behind ("running it twice
\* in a row is expected to reconcile both times").
DemoRepeatable ==
    /\ step = "wait" /\ proc = "exited" /\ report # None /\ ~lost
    /\ report.input = Len(log) /\ report.late > 0
    => Verdict = "ok"

\* The report never claims more than the committed batches hold, although it is written from
\* a list read before the query stopped and cut to its newest entries.
ReportWithinRun ==
    report # None =>
        /\ report.input <= offset
        /\ report.input - report.dups - report.late <= Cardinality(counted)

===============================================================================
