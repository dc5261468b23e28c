------------------------------ MODULE Producer ------------------------------
(***************************************************************************)
(* The producer: curated transactions replayed onto the Kafka topic, some  *)
(* twice and some stamped late, through a client that buffers them, with   *)
(* the statistics a run leaves behind.                                     *)
(***************************************************************************)
EXTENDS Naturals, Sequences, FiniteSets

CONSTANTS
    Txns,     \* transactions
    None,     \* no statistics; flush() has not returned
    Times,    \* event times a run may stamp
    Exports,  \* what the curated export may hold: sequences of transactions
    Limit,    \* max_events
    MaxRuns,  \* bounds: producer runs, events
    MaxEvents

ASSUME ProducerAssumption ==
    /\ Times \subseteq Nat \ {0}
    /\ \A x \in Exports :  \* one row per transaction, as silver leaves them
          x \in Seq(Txns) /\ \A i, j \in 1 .. Len(x) : x[i] = x[j] => i = j
    /\ Limit \in Nat /\ MaxRuns \in Nat /\ MaxEvents \in Nat

VARIABLES
    curated,    \* the rows of data/curated/transactions, in the order head() reads them
    log,        \* the topic; an event also names the run that sent it
    toSend,     \* rows the run has still to send
    queue,      \* events handed to the client, not yet acknowledged
    wire,       \* events given up or left by an ended process: the broker may have them yet
    failed,     \* a delivery report had an error
    sent, duplicates,
    stats,      \* <label>_latest.json, and the run it is of
    producing,  \* a run is under way
    remaining,  \* what flush() returned: the events it left in the queue
    runs,       \* runs so far
    left        \* history: `remaining` of the run stats is of

producer ==
    <<toSend, queue, wire, failed, sent, duplicates, stats, producing, remaining, runs, left>>

ProducerInit ==
    /\ curated \in Exports
    /\ log = <<>>
    /\ toSend = <<>> /\ queue = <<>> /\ wire = <<>>
    /\ failed = FALSE /\ sent = 0 /\ duplicates = 0
    /\ stats = None
    /\ producing = FALSE /\ remaining = None /\ runs = 0
    /\ left = 0

\* The nightly export replaces the curated rows, up to the last run that replays them.
Export ==
    /\ ~producing /\ runs < MaxRuns
    /\ curated' \in Exports \ {curated}
    /\ UNCHANGED <<log, producer>>

\* _source_rows: skip some rows, take at most so many.
Source(skip) ==
    SubSeq(curated, skip + 1, IF skip + Limit < Len(curated) THEN skip + Limit ELSE Len(curated))

StartProducer ==
    /\ ~producing /\ runs < MaxRuns
    /\ \E skip \in 0 .. 1 : toSend' = Source(skip)
    /\ producing' = TRUE /\ runs' = runs + 1
    /\ UNCHANGED <<curated, log, queue, wire, failed, sent, duplicates, stats, remaining, left>>

\* The same event again: same key, same event time.
Redelivery(e) == {<<e, e>>}

\* _events and produce(): the next row, stamped now or late, once or twice.
Send ==
    /\ producing /\ toSend # <<>>
    /\ \E ts \in Times :
        LET e == [txn |-> Head(toSend), ts |-> ts, run |-> runs] IN
        \E batch \in {<<e>>} \cup Redelivery(e) :
            /\ Len(log) + Len(queue) + Len(wire) + Len(batch) <= MaxEvents
            /\ queue' = queue \o batch
            /\ sent' = sent + Len(batch)
            /\ duplicates' = duplicates + Len(batch) - 1
    /\ toSend' = Tail(toSend)
    /\ UNCHANGED <<curated, log, wire, failed, stats, producing, remaining, runs, left>>

\* The broker has the event and says so; the client's thread goes on after flush() has
\* returned.
Deliver ==
    /\ queue # <<>>
    /\ log' = Append(log, Head(queue)) /\ queue' = Tail(queue)
    /\ UNCHANGED <<curated, toSend, wire, failed, sent, duplicates, stats, producing,
                   remaining, runs, left>>

\* The client gives an event up, whether or not the broker has it or will have it.
\* on_delivery hears of it while poll() or flush() is served, not after.
DeliveryFails ==
    /\ queue # <<>>
    /\ wire' = Append(wire, Head(queue)) /\ queue' = Tail(queue)
    /\ failed' = (failed \/ remaining = None)
    /\ UNCHANGED <<curated, log, toSend, sent, duplicates, stats, producing, remaining, runs, left>>

\* An event nobody waits for any longer reaches the topic, or never does.
Arrive ==
    /\ wire # <<>>
    /\ log' \in {log, Append(log, Head(wire))} /\ wire' = Tail(wire)
    /\ UNCHANGED <<curated, toSend, queue, failed, sent, duplicates, stats, producing,
                   remaining, runs, left>>

\* flush(30) returns, with the queue empty or not.
FlushReturns ==
    /\ producing /\ toSend = <<>> /\ remaining = None
    /\ remaining' = Len(queue)
    /\ UNCHANGED <<curated, log, toSend, queue, wire, failed, sent, duplicates, stats,
                   producing, runs, left>>

\* The process ends; what its client holds may be on its way to the broker.
Exit ==
    /\ producing' = FALSE /\ toSend' = <<>> /\ remaining' = None
    /\ queue' = <<>> /\ wire' = wire \o queue
    /\ failed' = FALSE /\ sent' = 0 /\ duplicates' = 0

Statistics ==
    [run |-> runs, sent |-> sent, duplicates |-> duplicates, unique |-> sent - duplicates]

\* Mutant: delivery reports are not looked at.
FinishAnyway ==
    /\ producing /\ remaining # None
    /\ stats' = Statistics /\ left' = remaining
    /\ Exit
    /\ UNCHANGED <<curated, log, runs>>

\* After flush(), which may have returned with events in the queue: a run with a failed
\* delivery raises and writes nothing, any other writes its statistics.
Finish ==
    /\ producing /\ remaining # None
    /\ IF failed THEN UNCHANGED <<stats, left>>
                 ELSE stats' = Statistics /\ left' = remaining
    /\ Exit
    /\ UNCHANGED <<curated, log, runs>>

\* The process is killed.
KillProducer ==
    /\ producing
    /\ Exit
    /\ UNCHANGED <<curated, log, stats, runs, left>>

ProducerNext ==
    \/ StartProducer \/ Send \/ FlushReturns \/ Finish \/ KillProducer
    \/ Deliver \/ DeliveryFails \/ Arrive

-----------------------------------------------------------------------------
Event == [txn : Txns, ts : Times, run : 1 .. MaxRuns]

ProducerTypeOK ==
    /\ curated \in Exports
    /\ log \in Seq(Event) /\ queue \in Seq(Event) /\ wire \in Seq(Event)
    /\ failed \in BOOLEAN /\ sent \in Nat /\ duplicates \in 0 .. sent
    /\ stats = None \/ stats.run \in 1 .. runs
    /\ left \in 0 .. MaxEvents /\ remaining \in {None} \cup 0 .. MaxEvents
    /\ producing \in BOOLEAN /\ runs \in 0 .. MaxRuns

\* The statistics a run leaves are those of the topic, for as long as they stay: of the
\* events counted as sent, and of the unique ones, the topic lacks at most as many as flush()
\* left unanswered, although the broker may have those, or get them while the statistics are
\* written or long after; and it has never one more.  With nothing left behind the numbers
\* agree.  A run with a failed delivery leaves the statistics of the run before.
StatsAccount ==
    stats # None =>
        LET mine == {i \in 1 .. Len(log) : log[i].run = stats.run}
            events == {<<log[i].txn, log[i].ts>> : i \in mine}
        IN
        /\ Cardinality(mine) \in stats.sent - left .. stats.sent
        /\ Cardinality(events) \in stats.unique - left .. stats.unique
=============================================================================
