----------------------------- MODULE ScoringProofs -----------------------------
(***************************************************************************)
(* Theorems about real-time scoring and its producer, for every set of     *)
(* transactions, models, thresholds and exports, and any number of runs,   *)
(* retrainings and crashes.                                                *)
(***************************************************************************)
EXTENDS Scoring, SequenceTheorems, SumsProofs

-----------------------------------------------------------------------------
(* Numbers and sets as sequences *)

\* A bounded set of numbers has a greatest.
LEMMA GreatestNatural ==
    ASSUME NEW T \in SUBSET Nat, T # {}, NEW b \in Nat, \A n \in T : n <= b
    PROVE  \E m \in T : \A n \in T : n <= m
<1> DEFINE Bounds == {u \in Nat : \A n \in T : n <= u}
<1>1. PICK u \in Bounds : \A v \in Bounds : u <= v
  BY LeastNatural
<1>2. u \in T
  <2> SUFFICES ASSUME u \notin T
               PROVE  FALSE
    OBVIOUS
  <2>1. u \in Nat /\ \A n \in T : n \in Nat /\ n < u
    BY <1>1
  <2>2. PICK x \in T : x \in Nat /\ x < u
    BY <2>1
  <2>3. u - 1 \in Nat
    BY <2>1, <2>2
  <2>4. \A n \in T : n <= u - 1
    BY <2>1
  <2> QED
    BY <1>1, <2>1, <2>3, <2>4
<1> QED
  BY <1>1, <1>2

\* The values of a function on an interval of numbers are bounded.
LEMMA IntervalBounded ==
    ASSUME NEW n \in Nat, NEW f, \A i \in 1 .. n : f[i] \in Nat
    PROVE  \E b \in Nat : \A i \in 1 .. n : f[i] <= b
<1> DEFINE Free == {m \in 0 .. n : ~\E b \in Nat : \A i \in 1 .. m : f[i] <= b}
<1>1. CASE Free = {}
  <2>1. n \in 0 .. n
    OBVIOUS
  <2>2. (n \in 0 .. n /\ n \notin Free) => \E b \in Nat : \A i \in 1 .. n : f[i] <= b
    OBVIOUS
  <2> HIDE DEF Free
  <2>3. n \notin Free
    BY <1>1
  <2> QED
    BY <2>1, <2>2, <2>3
<1>2. CASE Free # {}
  <2>1. PICK m \in Free : \A k \in Free : m <= k
    <3>1. Free \in SUBSET Nat
      OBVIOUS
    <3> HIDE DEF Free
    <3> QED
      BY <1>2, <3>1, LeastNatural
  <2>2. m \in 0 .. n /\ m # 0
    BY <2>1
  <2>3. m - 1 \in 0 .. n /\ m - 1 \notin Free
    <3>1. m - 1 \in 0 .. n /\ ~(m <= m - 1)
      BY <2>2
    <3> HIDE DEF Free
    <3> QED
      BY <2>1, <3>1
  <2>4. PICK b \in Nat : \A i \in 1 .. m - 1 : f[i] <= b
    BY <2>3
  <2>5. f[m] \in Nat /\ \A i \in 1 .. m : i = m \/ i \in 1 .. m - 1
    BY <2>1, <2>2
  <2> DEFINE c == b + f[m]
  <2>6. c \in Nat /\ b <= c /\ f[m] <= c
    BY <2>4, <2>5
  <2>7. \A i \in 1 .. m : f[i] <= c
    <3> SUFFICES ASSUME NEW i \in 1 .. m
                 PROVE  f[i] <= c
      OBVIOUS
    <3>1. f[i] \in Nat
      BY <2>2
    <3>2. CASE i = m
      BY <2>6, <3>2
    <3>3. CASE i \in 1 .. m - 1
      <4>1. f[i] <= b
        BY <2>4, <3>3
      <4> HIDE DEF c
      <4> QED
        BY <2>4, <2>6, <3>1, <4>1
    <3> QED
      BY <2>5, <3>2, <3>3
  <2> QED
    BY <2>1, <2>6, <2>7
<1> QED
  BY <1>1, <1>2

LEMMA EmptySeqOfSet == SetToSeq({}) = <<>>
<1>1. Cardinality({}) = 0
  BY FS_EmptySet
<1>2. 1 .. Cardinality({}) = {}
  BY <1>1
<1>3. <<>> \in [{} -> {}] /\ IsInjective(<<>>)
  BY DEF IsInjective
<1>4. \A f \in [{} -> {}] : f = <<>>
  OBVIOUS
<1> QED
  BY <1>2, <1>3, <1>4 DEF SetToSeq

LEMMA SingletonSeqOfSet == \A r : SetToSeq({r}) = <<r>>
<1> TAKE r
<1>1. Cardinality({r}) = 1
  BY FS_Singleton
<1>2. 1 .. Cardinality({r}) = {1}
  BY <1>1
<1>3. <<r>> \in [{1} -> {r}] /\ IsInjective(<<r>>)
  BY DEF IsInjective
<1>4. \A f \in [{1} -> {r}] : f = <<r>>
  OBVIOUS
<1> QED
  BY <1>2, <1>3, <1>4 DEF SetToSeq

-----------------------------------------------------------------------------
(* Type correctness *)

\* What a run has still to send and has handed over, between Typed and the bounds.
RunOK ==
    /\ toSend \in Seq(Txns)
    /\ Len(log) + Len(queue) + Len(wire) <= MaxEvents
    /\ producing => runs >= 1
    /\ ~producing => toSend = <<>> /\ queue = <<>> /\ remaining = None
    /\ remaining # None => toSend = <<>>

Typed == TypeOK /\ RunOK

LEMMA LogTyped ==
    ASSUME Typed
    PROVE  /\ Len(log) \in Nat /\ Len(queue) \in Nat /\ Len(wire) \in Nat
           /\ \A i \in 1 .. Len(log) : log[i].txn \in Txns /\ log[i].ts \in Nat \ {0}
                                       /\ log[i].ts \in Times
<1>1. log \in Seq(Event) /\ queue \in Seq(Event) /\ wire \in Seq(Event)
  BY DEF Typed, TypeOK, ProducerTypeOK
<1>2. Len(log) \in Nat /\ Len(queue) \in Nat /\ Len(wire) \in Nat /\ \A i \in 1 .. Len(log) : log[i] \in Event
  BY <1>1, ElementOfSeq, LenProperties
<1> QED
  BY <1>2, ProducerAssumption DEF Event

\* The source rows of a run.
LEMMA SourceTyped ==
    ASSUME curated \in Exports, NEW skip \in 0 .. 1
    PROVE  Source(skip) \in Seq(Txns)
<1>1. curated \in Seq(Txns) /\ Len(curated) \in Nat
  BY ProducerAssumption, LenProperties
<1>2. \A i \in skip + 1 .. (IF skip + Limit < Len(curated) THEN skip + Limit ELSE Len(curated)) :
          i \in 1 .. Len(curated)
  BY <1>1, ProducerAssumption
<1> QED
  BY <1>1, <1>2, ProducerAssumption, SubSeqProperties DEF Source

LEMMA ProducerTyped ==
    ASSUME Typed, Export \/ ProducerNext
    PROVE  /\ ProducerTypeOK' /\ RunOK'
           /\ Len(log') >= Len(log) /\ \A i \in 1 .. Len(log) : log'[i] = log[i]
<1> USE DEF ProducerTypeOK
<1>0. /\ ProducerTypeOK /\ RunOK /\ Len(log) \in Nat /\ Len(queue) \in Nat /\ Len(wire) \in Nat
      /\ log \in Seq(Event) /\ queue \in Seq(Event) /\ wire \in Seq(Event)
  BY LogTyped DEF Typed, TypeOK
<1>1. CASE Export
  BY <1>0, <1>1 DEF Export, RunOK, producer
<1>2. CASE StartProducer
  BY <1>0, <1>2, SourceTyped, ProducerAssumption DEF StartProducer, RunOK
<1>3. CASE Send
  <2>1. PICK ts \in Times :
          LET e == [txn |-> Head(toSend), ts |-> ts, run |-> runs] IN
          \E batch \in {<<e>>} \cup Redelivery(e) :
            /\ Len(log) + Len(queue) + Len(wire) + Len(batch) <= MaxEvents
            /\ queue' = queue \o batch
            /\ sent' = sent + Len(batch)
            /\ duplicates' = duplicates + Len(batch) - 1
    BY <1>3 DEF Send
  <2> DEFINE e == [txn |-> Head(toSend), ts |-> ts, run |-> runs]
  <2>2. Head(toSend) \in Txns /\ Tail(toSend) \in Seq(Txns)
    BY <1>0, <1>3, HeadTailProperties DEF Send, RunOK
  <2>3. e \in Event
    BY <1>0, <1>3, <2>2 DEF Event, Send, RunOK
  <2>4. PICK batch \in {<<e>>, <<e, e>>} :
            /\ Len(log) + Len(queue) + Len(wire) + Len(batch) <= MaxEvents
            /\ queue' = queue \o batch
            /\ sent' = sent + Len(batch)
            /\ duplicates' = duplicates + Len(batch) - 1
    BY <2>1 DEF Redelivery
  <2> HIDE DEF e
  <2>5. batch \in Seq(Event) /\ Len(batch) \in {1, 2}
    <3>1. <<e>> \in Seq(Event) /\ <<e, e>> \in Seq(Event)
      BY <2>3
    <3>2. Len(<<e>>) = 1 /\ Len(<<e, e>>) = 2
      OBVIOUS
    <3> QED
      BY <2>4, <3>1, <3>2
  <2>6. queue' \in Seq(Event) /\ Len(queue') = Len(queue) + Len(batch)
    BY <1>0, <2>4, <2>5, ConcatProperties
  <2>7. sent' \in Nat /\ duplicates' \in 0 .. sent'
    <3>1. sent \in Nat /\ duplicates \in Nat /\ duplicates <= sent
      BY <1>0
    <3>2. CASE Len(batch) = 1
      BY <2>4, <3>1, <3>2
    <3>3. CASE Len(batch) = 2
      BY <2>4, <3>1, <3>3
    <3> QED
      BY <2>5, <3>2, <3>3
  <2> QED
    BY <1>0, <1>3, <2>2, <2>4, <2>5, <2>6, <2>7 DEF Send, RunOK
<1>4. CASE Deliver \/ DeliveryFails
  <2>1. /\ Head(queue) \in Event /\ Tail(queue) \in Seq(Event)
        /\ Len(Tail(queue)) = Len(queue) - 1
    BY <1>0, <1>4, HeadTailProperties DEF Deliver, DeliveryFails
  <2>2. \/ log' = log /\ wire' = Append(wire, Head(queue))
        \/ log' = Append(log, Head(queue)) /\ wire' = wire
    BY <1>4 DEF Deliver, DeliveryFails
  <2>3. /\ log' \in Seq(Event) /\ wire' \in Seq(Event)
        /\ Len(log') >= Len(log) /\ Len(log') + Len(wire') = Len(log) + Len(wire) + 1
        /\ \A i \in 1 .. Len(log) : log'[i] = log[i]
    <3>1. CASE log' = log /\ wire' = Append(wire, Head(queue))
      BY <1>0, <2>1, <3>1, AppendProperties
    <3>2. CASE log' = Append(log, Head(queue)) /\ wire' = wire
      BY <1>0, <2>1, <3>2, AppendProperties
    <3> QED
      BY <2>2, <3>1, <3>2
  <2>4. queue' = Tail(queue) /\ failed' \in BOOLEAN /\ queue # <<>>
        /\ UNCHANGED <<curated, toSend, sent, duplicates, stats, producing, remaining, runs, left>>
    BY <1>0, <1>4 DEF Deliver, DeliveryFails
  <2>5. Len(log') + Len(queue') + Len(wire') <= MaxEvents
    <3>1. Len(log') \in Nat /\ Len(wire') \in Nat /\ Len(queue') = Len(queue) - 1
      BY <2>1, <2>3, <2>4, LenProperties
    <3> QED
      BY <1>0, <2>3, <3>1, ProducerAssumption DEF RunOK
  <2>6. RunOK'
    BY <1>0, <2>4, <2>5 DEF RunOK
  <2> QED
    BY <1>0, <2>1, <2>3, <2>4, <2>6
<1>5. CASE Arrive
  <2>1. /\ Head(wire) \in Event /\ Tail(wire) \in Seq(Event)
        /\ Len(Tail(wire)) = Len(wire) - 1
    BY <1>0, <1>5, HeadTailProperties DEF Arrive
  <2>2. /\ wire' = Tail(wire)
        /\ log' = log \/ log' = Append(log, Head(wire))
        /\ UNCHANGED <<curated, toSend, queue, failed, sent, duplicates, stats, producing,
                       remaining, runs, left>>
    BY <1>5 DEF Arrive
  <2>3. /\ log' \in Seq(Event) /\ Len(log') \in Len(log) .. Len(log) + 1
        /\ \A i \in 1 .. Len(log) : log'[i] = log[i]
    <3>1. CASE log' = log
      BY <1>0, <3>1
    <3>2. CASE log' = Append(log, Head(wire))
      BY <1>0, <2>1, <3>2, AppendProperties
    <3> QED
      BY <2>2, <3>1, <3>2
  <2>4. Len(log') + Len(queue') + Len(wire') <= MaxEvents
    <3>1. Len(log') \in Nat /\ Len(log') <= Len(log) + 1
      BY <1>0, <2>3
    <3>2. Len(wire') = Len(wire) - 1 /\ Len(queue') = Len(queue)
      BY <2>1, <2>2
    <3>3. /\ Len(log) + Len(queue) + Len(wire) <= MaxEvents
          /\ Len(log) \in Nat /\ Len(queue) \in Nat /\ Len(wire) \in Nat
      BY <1>0 DEF RunOK
    <3>4. MaxEvents \in Nat
      BY ProducerAssumption
    <3> HIDE DEF ProducerTypeOK
    <3> QED
      BY <3>1, <3>2, <3>3, <3>4
  <2>5. RunOK'
    BY <1>0, <2>2, <2>4 DEF RunOK
  <2> QED
    BY <1>0, <2>1, <2>2, <2>3, <2>5
<1>6. CASE FlushReturns
  <2>1. remaining' \in 0 .. MaxEvents
    BY <1>0, <1>6, ProducerAssumption DEF FlushReturns, RunOK
  <2> QED
    BY <1>0, <1>6, <2>1 DEF FlushReturns, RunOK
<1>7. CASE Finish \/ KillProducer
  <2>0. <<>> \in Seq(Event) /\ <<>> \in Seq(Txns) /\ Len(<<>>) = 0
    BY EmptySeq
  <2>1. /\ Exit /\ UNCHANGED <<curated, log, runs>> /\ producing
        /\ \/ UNCHANGED <<stats, left>>
           \/ stats' = Statistics /\ left' = remaining /\ remaining # None
    BY <1>7 DEF Finish, KillProducer
  <2>2. runs \in 1 .. runs /\ left' \in 0 .. MaxEvents
    BY <1>0, <2>1, ProducerAssumption DEF RunOK
  <2>3. stats' = None \/ stats'.run \in 1 .. runs'
    BY <1>0, <2>1, <2>2 DEF Statistics
  <2>4. wire' \in Seq(Event) /\ Len(wire') = Len(wire) + Len(queue)
    BY <1>0, <2>1, ConcatProperties DEF Exit
  <2>5. ProducerTypeOK'
    <3>1. curated' \in Exports /\ log' \in Seq(Event) /\ queue' \in Seq(Event)
          /\ wire' \in Seq(Event)
      BY <1>0, <2>0, <2>1, <2>4 DEF Exit
    <3>2. failed' \in BOOLEAN /\ producing' \in BOOLEAN /\ remaining' = None
      BY <2>1 DEF Exit
    <3>3. sent' \in Nat /\ duplicates' \in 0 .. sent' /\ runs' \in 0 .. MaxRuns
      BY <1>0, <2>1 DEF Exit
    <3> QED
      BY <2>2, <2>3, <3>1, <3>2, <3>3
  <2>6. RunOK'
    BY <1>0, <2>0, <2>1, <2>4, ProducerAssumption DEF Exit, RunOK
  <2> QED
    BY <1>0, <2>1, <2>5, <2>6
<1> QED
  BY <1>1, <1>2, <1>3, <1>4, <1>5, <1>6, <1>7 DEF ProducerNext

-----------------------------------------------------------------------------
(* The scorer's invariant *)

Decision == [txn : Txns, ts : Times, at : Nat, decision : {"APPROVE", "REVIEW", "DECLINE"}]

\* The watermarks, the later of them the delay behind some row consumed.
WatermarkInv ==
    /\ lateWm <= nextWm
    /\ nextWm > 0 => \E j \in 1 .. offset : log[j].ts >= nextWm + Delay

\* The scored batch is a function of the topic and the checkpoint, so that a replay decides
\* on the same messages.
SourceInv ==
    /\ phase \in {"merge", "commit"} => planned # None
    /\ source = IF phase = "merge" THEN {DecisionRow(i) : i \in Passed} ELSE {}

\* Decision d of transaction t is made from a message; the dedup state remembers a consumed
\* one as long as a copy could be on time, any other is of the batch to be replayed.
Settled(t, d) ==
    /\ d.at \in 1 .. Len(log) /\ log[d.at].txn = t /\ d.txn = t /\ d.ts = log[d.at].ts
    /\ \/ d.at <= offset /\ (d.ts + Delay <= lateWm \/ seen[t] = d.ts + Delay)
       \/ planned # None /\ d.at \in Passed

TableInv ==
    /\ DOMAIN decisions = Txns
    /\ \A t \in Txns :
          \/ decisions[t] = <<>> /\ seen[t] = None
          \/ \E d \in Decision : decisions[t] = <<d>> /\ Settled(t, d)

\* A batch that is about to commit has decided all its rows.
CommitInv ==
    phase = "commit" =>
        \A i \in Passed : \E d \in Decision : decisions[log[i].txn] = <<d>> /\ d.at = i

ScorerInv == WatermarkInv /\ SourceInv /\ TableInv /\ CommitInv /\ ConsumedIsDecided

-----------------------------------------------------------------------------
(* What a batch lets through *)

LEMMA BatchPlace ==
    ASSUME Typed, planned # None
    PROVE  /\ offset \in Nat /\ planned \in Nat /\ offset <= planned /\ planned <= Len(log)
           /\ Len(log) \in Nat /\ lateWm \in Nat /\ nextWm \in Nat
           /\ \A i \in offset + 1 .. planned : i \in 1 .. Len(log)
           /\ Passed \subseteq offset + 1 .. planned
<1>1. Len(log) \in Nat
  BY LogTyped
<1>2. offset \in 0 .. Len(log) /\ planned \in offset .. Len(log)
      /\ lateWm \in Nat /\ nextWm \in Nat
  BY DEF Typed, TypeOK
<1>3. Passed \subseteq offset + 1 .. planned
  BY DEF Passed
<1> QED
  BY <1>1, <1>2, <1>3

\* No two rows of a batch that are let through are of one transaction.
LEMMA PassedOnce ==
    ASSUME Typed, planned # None, NEW i \in Passed, NEW j \in Passed,
           log[i].txn = log[j].txn
    PROVE  i = j
<1>1. i \in Nat /\ j \in Nat /\ i >= offset + 1 /\ j >= offset + 1 /\ offset \in Nat
  BY BatchPlace
<1>2. /\ ~Late(i) /\ ~Late(j)
      /\ \A k \in offset + 1 .. i - 1 : log[k].txn = log[i].txn => Late(k)
      /\ \A k \in offset + 1 .. j - 1 : log[k].txn = log[j].txn => Late(k)
  BY DEF Passed
<1>3. ASSUME i < j
      PROVE  FALSE
  <2>1. i \in offset + 1 .. j - 1
    BY <1>1, <1>3
  <2>2. Late(i)
    BY <1>2, <2>1
  <2> QED
    BY <1>2, <2>2
<1>4. ASSUME j < i
      PROVE  FALSE
  <2>1. j \in offset + 1 .. i - 1
    BY <1>1, <1>4
  <2>2. Late(j)
    BY <1>2, <2>1
  <2> QED
    BY <1>2, <2>2
<1> QED
  BY <1>1, <1>3, <1>4

\* Of a transaction the dedup state does not know, the first on-time row is let through.
LEMMA FirstOnTime ==
    ASSUME Typed, planned # None, NEW i \in offset + 1 .. planned, ~Late(i),
           seen[log[i].txn] = None
    PROVE  \E j \in Passed : log[j].txn = log[i].txn
<1> DEFINE T == {j \in offset + 1 .. planned : ~Late(j) /\ log[j].txn = log[i].txn}
<1>1. PICK j \in T : \A k \in T : j <= k
  <2>1. i \in T /\ T \in SUBSET Nat
    BY BatchPlace
  <2> HIDE DEF T
  <2> QED
    BY <2>1, LeastNatural
<1>2. \A k \in offset + 1 .. j - 1 : k \in offset + 1 .. planned /\ ~(j <= k)
  BY <1>1, BatchPlace
<1>3. j \in Passed
  BY <1>1, <1>2 DEF Passed
<1> QED
  BY <1>1, <1>3

\* There is a newest event time in a batch.
LEMMA NewestTime ==
    ASSUME Typed, planned # None
    PROVE  LET T == {log[i].ts : i \in offset + 1 .. planned} \cup {0} IN
           MaxTime(T) \in T /\ MaxTime(T) \in Nat
<1> DEFINE T == {log[i].ts : i \in offset + 1 .. planned} \cup {0}
           f == [i \in 1 .. Len(log) |-> log[i].ts]
<1>1. PICK b \in Nat : \A i \in 1 .. Len(log) : f[i] <= b
  <2>1. \A i \in 1 .. Len(log) : f[i] \in Nat
    BY LogTyped
  <2> HIDE DEF f
  <2> QED
    BY <2>1, LogTyped, IntervalBounded
<1>2. T \in SUBSET Nat /\ \A n \in T : n <= b
  BY <1>1, BatchPlace, LogTyped
<1>3. \E m \in T : \A n \in T : n <= m
  <2>1. T # {}
    OBVIOUS
  <2> HIDE DEF T
  <2> QED
    BY <1>2, <2>1, GreatestNatural
<1> HIDE DEF T
<1>4. MaxTime(T) \in T
  BY <1>3 DEF MaxTime
<1> QED
  BY <1>2, <1>4 DEF T

\* The dedup entry of a transaction after the batch.
LEMMA EntryAfter ==
    ASSUME Typed, planned # None, NEW t \in Txns
    PROVE  /\ (\A i \in Passed : log[i].txn # t) =>
                  SeenAfter(t) = IF seen[t] # None /\ seen[t] <= nextWm THEN None ELSE seen[t]
           /\ \A i \in Passed : log[i].txn = t =>
                  SeenAfter(t) = IF log[i].ts + Delay <= nextWm THEN None ELSE log[i].ts + Delay
<1> DEFINE mine == {i \in Passed : log[i].txn = t}
<1>1. (\A i \in Passed : log[i].txn # t) => mine = {}
  OBVIOUS
<1>2. ASSUME NEW i \in Passed, log[i].txn = t
      PROVE  SeenAfter(t) = IF log[i].ts + Delay <= nextWm THEN None ELSE log[i].ts + Delay
  <2>1. mine = {i}
    BY <1>2, PassedOnce
  <2>2. log[i].ts \in Nat
    BY BatchPlace, LogTyped
  <2>3. {log[j].ts : j \in {i}} = {log[i].ts}
    OBVIOUS
  <2>4. MaxTime({log[i].ts}) = log[i].ts
    BY <2>2 DEF MaxTime
  <2>5. log[i].ts + Delay # None
    BY <2>2, ScoringAssumption
  <2>6. mine # {} /\ MaxTime({log[j].ts : j \in mine}) = log[i].ts
    BY <2>1, <2>3, <2>4
  <2> QED
    BY <2>5, <2>6 DEF SeenAfter
<1> QED
  BY <1>1, <1>2 DEF SeenAfter

LEMMA RowDecision ==
    ASSUME Typed, planned # None, NEW i \in Passed
    PROVE  /\ DecisionRow(i) \in Decision /\ log[i].txn \in Txns
           /\ DecisionRow(i).txn = log[i].txn /\ DecisionRow(i).at = i
           /\ DecisionRow(i).ts = log[i].ts
<1>1. i \in Nat /\ i \in 1 .. Len(log) /\ log[i].txn \in Txns /\ log[i].ts \in Times
  BY BatchPlace, LogTyped
<1> DEFINE p == Risk(loaded, Features(log[i].txn))
<1>2. DecisionFor(loaded, p) \in {"APPROVE", "REVIEW", "DECLINE"}
  BY DEF DecisionFor
<1> HIDE DEF p
<1> QED
  BY <1>1, <1>2 DEF DecisionRow, Decision, p

LEMMA OnlyChoice == \A x : (CHOOSE r \in {x} : TRUE) = x
  OBVIOUS

\* What the MERGE does to one transaction.
LEMMA MergedIs ==
    ASSUME Typed, SourceInv, TableInv, phase = "merge", NEW t \in Txns
    PROVE  /\ (\A i \in Passed : log[i].txn # t) => SourceOf(t) = {} /\ Merged(t) = decisions[t]
           /\ \A i \in Passed : log[i].txn = t =>
                  SourceOf(t) = {DecisionRow(i)} /\ Merged(t) = <<DecisionRow(i)>>
<1>1. planned # None /\ source = {DecisionRow(i) : i \in Passed}
  BY DEF SourceInv
<1>2. decisions[t] = <<>> \/ \E d \in Decision : decisions[t] = <<d>>
  BY DEF TableInv
<1>3. ASSUME \A i \in Passed : log[i].txn # t
      PROVE  SourceOf(t) = {} /\ Merged(t) = decisions[t]
  <2>1. SourceOf(t) = {}
    BY <1>1, <1>3, RowDecision DEF SourceOf
  <2>2. decisions[t] \in Seq(Decision)
    <3>1. \A d \in Decision : <<d>> \in Seq(Decision)
      OBVIOUS
    <3>2. <<>> \in Seq(Decision)
      BY EmptySeq
    <3> QED
      BY <1>2, <3>1, <3>2
  <2>3. Merged(t) = decisions[t] \o <<>>
    BY <2>1, EmptySeqOfSet DEF Merged
  <2> QED
    BY <2>1, <2>2, <2>3, ConcatEmptySeq
<1>4. ASSUME NEW i \in Passed, log[i].txn = t
      PROVE  SourceOf(t) = {DecisionRow(i)} /\ Merged(t) = <<DecisionRow(i)>>
  <2> DEFINE r == DecisionRow(i)
  <2>1. r.txn = t /\ r \in Decision
    BY <1>1, <1>4, RowDecision
  <2>2. \A j \in Passed : DecisionRow(j).txn = t => j = i
    BY <1>1, <1>4, PassedOnce, RowDecision
  <2>3. SourceOf(t) = {r}
    BY <1>1, <2>1, <2>2 DEF SourceOf
  <2> HIDE DEF r
  <2>4. CASE decisions[t] = <<>>
    <3>1. Merged(t) = <<>> \o <<r>>
      BY <2>3, <2>4, SingletonSeqOfSet DEF Merged
    <3> QED
      BY <2>1, <2>3, <3>1, ConcatEmptySeq DEF r
  <2>5. CASE decisions[t] # <<>>
    <3>1. PICK d \in Decision : decisions[t] = <<d>>
      BY <1>2, <2>5
    <3>2. Merged(t) = [n \in DOMAIN <<d>> |-> r]
      BY <2>3, <2>5, <3>1, OnlyChoice DEF Merged
    <3> QED
      BY <2>3, <3>2 DEF r
  <2> QED
    BY <2>4, <2>5
<1> QED
  BY <1>3, <1>4

\* The MERGE never meets two rows of one transaction.
LEMMA NeverAmbiguous ==
    ASSUME Typed, SourceInv, TableInv
    PROVE  \A t \in Txns : Cardinality(SourceOf(t)) <= 1
<1> TAKE t \in Txns
<1>1. SourceOf(t) = {} \/ \E r : SourceOf(t) = {r}
  <2>1. CASE phase = "merge"
    BY <2>1, MergedIs
  <2>2. CASE phase # "merge"
    BY <2>2 DEF SourceInv, SourceOf
  <2> QED
    BY <2>1, <2>2
<1>2. CASE SourceOf(t) = {}
  BY <1>2, FS_EmptySet
<1>3. ASSUME NEW r, SourceOf(t) = {r}
      PROVE  Cardinality(SourceOf(t)) <= 1
  <2>1. Cardinality({r}) = 1
    BY FS_Singleton
  <2> QED
    BY <1>3, <2>1
<1> QED
  BY <1>1, <1>2, <1>3

-----------------------------------------------------------------------------
(* The steps of the scorer *)

\* More messages on the topic change nothing a batch lets through.
LEMMA PassedKept ==
    ASSUME Typed, planned # None, UNCHANGED <<offset, planned, lateWm, seen>>,
           \A i \in 1 .. Len(log) : log'[i] = log[i]
    PROVE  Passed' = Passed
<1>1. \A i \in offset + 1 .. planned :
          /\ log'[i] = log[i]
          /\ \A j \in offset + 1 .. i - 1 : log'[j] = log[j]
  BY BatchPlace
<1> QED
  BY <1>1 DEF Passed, Late

LEMMA ScorerProduce ==
    ASSUME Typed, ScorerInv, (Export \/ ProducerNext) /\ UNCHANGED scorer
    PROVE  Typed' /\ ScorerInv'
<1>1. /\ ProducerTypeOK' /\ RunOK' /\ Len(log') >= Len(log)
      /\ \A i \in 1 .. Len(log) : log'[i] = log[i]
  BY ProducerTyped
<1>2. UNCHANGED <<model, offset, planned, lateWm, nextWm, seen, decisions, phase, loaded,
                  source, crashes>>
  BY DEF scorer, checkpoint
<1>3. Len(log) \in Nat /\ Len(log') \in Nat /\ offset \in 0 .. Len(log)
  <2>1. log' \in Seq(Event)
    BY <1>1 DEF ProducerTypeOK
  <2> QED
    BY <2>1, LogTyped, LenProperties DEF Typed, TypeOK
<1>4. Typed'
  BY <1>1, <1>2, <1>3 DEF Typed, TypeOK
<1>5. planned # None => Passed' = Passed
  BY <1>1, <1>2, PassedKept
<1>6. WatermarkInv' /\ ConsumedIsDecided'
  <2>1. \A i \in 1 .. offset : log'[i] = log[i] /\ \A j \in 1 .. i - 1 : log'[j] = log[j]
    BY <1>1, <1>3
  <2> QED
    BY <1>2, <2>1 DEF ScorerInv, WatermarkInv, ConsumedIsDecided
<1>7. SourceInv'
  <2>1. CASE phase = "merge"
    <3>1. planned # None /\ \A i \in Passed : log'[i] = log[i]
      BY <1>1, <2>1, BatchPlace DEF ScorerInv, SourceInv
    <3>2. \A i \in Passed : DecisionRow(i)' = DecisionRow(i)
      BY <1>2, <3>1 DEF DecisionRow
    <3> QED
      BY <1>2, <1>5, <2>1, <3>1, <3>2 DEF ScorerInv, SourceInv
  <2>2. CASE phase # "merge"
    BY <1>2, <2>2 DEF ScorerInv, SourceInv
  <2> QED
    BY <2>1, <2>2
<1>8. TableInv'
  <2>1. ASSUME NEW t \in Txns, NEW d, Settled(t, d)
        PROVE  Settled(t, d)'
    BY <1>1, <1>2, <1>3, <1>5, <2>1 DEF Settled
  <2> QED
    BY <1>2, <2>1 DEF ScorerInv, TableInv
<1>9. CommitInv'
  <2>1. CASE phase = "commit"
    <3>1. planned # None /\ \A i \in Passed : log'[i] = log[i]
      BY <1>1, <2>1, BatchPlace DEF ScorerInv, SourceInv
    <3> QED
      BY <1>2, <1>5, <2>1, <3>1 DEF ScorerInv, CommitInv
  <2> QED
    BY <1>2, <2>1 DEF CommitInv
<1> QED
  BY <1>4, <1>6, <1>7, <1>8, <1>9 DEF ScorerInv

\* A step that leaves the topic, the state and the table alone, and at most gives up a batch
\* or logs one.
LEMMA ScorerQuiet ==
    ASSUME Typed, ScorerInv, UNCHANGED <<log, offset, lateWm, nextWm, seen, decisions>>,
           planned' = planned \/ planned = None,
           \/ phase' \in {"off", "idle"} /\ source' = {}
           \/ UNCHANGED <<phase, planned, loaded, source>>
    PROVE  ScorerInv'
<1>1. planned' = planned => Passed' = Passed
  BY DEF Passed, Late
<1>2. WatermarkInv' /\ ConsumedIsDecided'
  BY DEF ScorerInv, WatermarkInv, ConsumedIsDecided
<1>3. SourceInv' /\ CommitInv'
  <2>1. CASE phase' \in {"off", "idle"} /\ source' = {}
    BY <2>1 DEF SourceInv, CommitInv
  <2>2. CASE UNCHANGED <<phase, planned, loaded, source>>
    <3>1. Passed' = Passed /\ \A i : DecisionRow(i)' = DecisionRow(i)
      BY <1>1, <2>2 DEF DecisionRow
    <3> QED
      BY <2>2, <3>1 DEF ScorerInv, SourceInv, CommitInv
  <2> QED
    BY <2>1, <2>2
<1>4. TableInv'
  <2>1. ASSUME NEW t \in Txns, NEW d, Settled(t, d)
        PROVE  Settled(t, d)'
    BY <1>1, <2>1 DEF Settled
  <2> QED
    BY <2>1 DEF ScorerInv, TableInv
<1> QED
  BY <1>2, <1>3, <1>4 DEF ScorerInv

LEMMA ScorerScore ==
    ASSUME Typed, ScorerInv, Score
    PROVE  ScorerInv'
<1>1. /\ UNCHANGED <<log, offset, planned, lateWm, nextWm, seen, decisions>>
      /\ planned # None /\ phase = "idle" /\ Passed' = Passed
  BY DEF Score, checkpoint, Passed, Late
<1>2. CASE Stop
  BY <1>1, <1>2, ScorerQuiet DEF Stop
<1>3. CASE /\ source' = {DecisionRow(i) : i \in Passed}
           /\ phase' = IF Passed = {} THEN "commit" ELSE "merge"
           /\ UNCHANGED loaded
  <2>1. SourceInv'
    <3>1. \A i : DecisionRow(i)' = DecisionRow(i)
      BY <1>1, <1>3 DEF DecisionRow
    <3> QED
      BY <1>1, <1>3, <3>1 DEF SourceInv
  <2>2. CommitInv'
    BY <1>1, <1>3 DEF CommitInv
  <2>3. WatermarkInv' /\ ConsumedIsDecided'
    BY <1>1 DEF ScorerInv, WatermarkInv, ConsumedIsDecided
  <2>4. TableInv'
    <3>1. ASSUME NEW t \in Txns, NEW d, Settled(t, d)
          PROVE  Settled(t, d)'
      BY <1>1, <3>1 DEF Settled
    <3> QED
      BY <1>1, <3>1 DEF ScorerInv, TableInv
  <2> QED
    BY <2>1, <2>2, <2>3, <2>4 DEF ScorerInv
<1> QED
  BY <1>2, <1>3 DEF Score

\* The decision of every row of the batch takes the place of its transaction's old one.
LEMMA ScorerMerge ==
    ASSUME Typed, ScorerInv, Merge
    PROVE  /\ ScorerInv'
           /\ \A t \in Txns : decisions'[t] = decisions[t]
                              \/ \E i \in Passed : log[i].txn = t /\ decisions'[t] = <<DecisionRow(i)>>
<1>1. /\ UNCHANGED <<log, offset, planned, lateWm, nextWm, seen>>
      /\ phase = "merge" /\ planned # None /\ Passed' = Passed
  BY DEF Merge, checkpoint, Passed, Late, ScorerInv, SourceInv
<1>2. CASE Ambiguous
  <2>1. Stop /\ UNCHANGED decisions
    BY <1>2 DEF Merge
  <2> QED
    BY <1>1, <2>1, ScorerQuiet DEF Stop
<1>3. CASE /\ phase' = "commit" /\ decisions' = [t \in Txns |-> Merged(t)] /\ source' = {}
  <2>1. ASSUME NEW t \in Txns
        PROVE  \/ /\ \A i \in Passed : log[i].txn # t
                  /\ decisions'[t] = decisions[t]
               \/ \E i \in Passed : log[i].txn = t /\ decisions'[t] = <<DecisionRow(i)>>
    BY <1>1, <1>3, MergedIs DEF ScorerInv
  <2>2. \A i \in Passed : /\ DecisionRow(i) \in Decision /\ log[i].txn \in Txns
                          /\ DecisionRow(i).txn = log[i].txn /\ DecisionRow(i).at = i
                          /\ DecisionRow(i).ts = log[i].ts
                          /\ i \in 1 .. Len(log) /\ seen[log[i].txn] = None
    <3>1. \A i \in Passed : seen[log[i].txn] = None
      BY DEF Passed
    <3> QED
      BY <1>1, <3>1, RowDecision, BatchPlace
  <2>3. CommitInv'
    <3>1. ASSUME NEW i \in Passed
          PROVE  decisions'[log[i].txn] = <<DecisionRow(i)>>
      BY <1>1, <1>3, <2>2, MergedIs DEF ScorerInv
    <3> QED
      BY <1>1, <2>2, <3>1 DEF CommitInv
  <2>4. TableInv'
    <3>1. ASSUME NEW t \in Txns, NEW d, Settled(t, d)
          PROVE  Settled(t, d)'
      BY <1>1, <3>1 DEF Settled
    <3>2. \A i \in Passed : Settled(log[i].txn, DecisionRow(i))
      BY <1>1, <2>2 DEF Settled
    <3>3. DOMAIN decisions' = Txns
      BY <1>3
    <3>4. ASSUME NEW t \in Txns
          PROVE  \/ decisions'[t] = <<>> /\ seen'[t] = None
                 \/ \E d \in Decision : decisions'[t] = <<d>> /\ Settled(t, d)'
      <4>1. CASE decisions'[t] = decisions[t]
        BY <1>1, <3>1, <4>1 DEF ScorerInv, TableInv
      <4>2. CASE \E i \in Passed : log[i].txn = t /\ decisions'[t] = <<DecisionRow(i)>>
        <5>1. PICK i \in Passed : log[i].txn = t /\ decisions'[t] = <<DecisionRow(i)>>
          BY <4>2
        <5> DEFINE d == DecisionRow(i)
        <5>2. d \in Decision /\ Settled(t, d) /\ decisions'[t] = <<d>>
          BY <2>2, <3>2, <5>1
        <5> HIDE DEF d
        <5> QED
          BY <3>1, <5>2
      <4> QED
        BY <2>1, <4>1, <4>2
    <3> QED
      BY <3>3, <3>4 DEF TableInv
  <2>5. SourceInv' /\ WatermarkInv'
    BY <1>1, <1>3 DEF ScorerInv, SourceInv, WatermarkInv
  <2>6. ConsumedIsDecided'
    <3>1. \A i \in 1 .. offset : log[i].txn \in Txns
      BY LogTyped DEF Typed, TypeOK
    <3>2. \A t \in Txns : decisions[t] # <<>> => decisions'[t] # <<>>
      BY <2>1
    <3> QED
      BY <1>1, <3>1, <3>2 DEF ScorerInv, ConsumedIsDecided
  <2> QED
    BY <2>1, <2>3, <2>4, <2>5, <2>6 DEF ScorerInv
<1> QED
  BY <1>2, <1>3 DEF Merge

\* A decision stays settled: the dedup entry of the message it was made from is kept until
\* a copy would be late.
LEMMA CommitSettled ==
    ASSUME Typed, ScorerInv, Commit, NEW t \in Txns, NEW d \in Decision,
           decisions[t] = <<d>>, Settled(t, d)
    PROVE  Settled(t, d)'
<1>1. /\ planned # None /\ phase = "commit" /\ log' = log /\ offset' = planned
      /\ lateWm' = nextWm /\ seen'[t] = SeenAfter(t) /\ lateWm <= nextWm
      /\ lateWm \in Nat /\ nextWm \in Nat /\ Delay \in Nat /\ None \notin Nat
      /\ offset \in Nat /\ planned \in Nat /\ offset <= planned /\ Len(log) \in Nat
  <2>1. planned # None /\ phase = "commit" /\ lateWm <= nextWm
    BY DEF Commit, ScorerInv, SourceInv, WatermarkInv
  <2> QED
    BY <2>1, BatchPlace, ScoringAssumption DEF Commit
<1>2. /\ d.at \in 1 .. Len(log) /\ log[d.at].txn = t /\ d.txn = t /\ d.ts = log[d.at].ts
      /\ d.ts \in Nat
  BY LogTyped DEF Settled
<1>3. d.at <= planned /\ (d.ts + Delay <= nextWm \/ seen'[t] = d.ts + Delay)
  <2>1. CASE \E i \in Passed : log[i].txn = t
    <3>1. PICK i \in Passed : log[i].txn = t
      BY <2>1
    <3>2. d.at = i
      BY <1>1, <3>1 DEF ScorerInv, CommitInv
    <3>3. SeenAfter(t) = IF d.ts + Delay <= nextWm THEN None ELSE d.ts + Delay
      BY <1>1, <1>2, <3>1, <3>2, EntryAfter
    <3>4. d.at <= planned
      BY <1>1, <3>2, BatchPlace
    <3> QED
      BY <1>1, <3>3, <3>4
  <2>2. CASE \A i \in Passed : log[i].txn # t
    <3>1. d.at \notin Passed
      BY <1>2, <2>2
    <3>2. d.at <= offset /\ (d.ts + Delay <= lateWm \/ seen[t] = d.ts + Delay)
      BY <3>1 DEF Settled
    <3>3. SeenAfter(t) = IF seen[t] # None /\ seen[t] <= nextWm THEN None ELSE seen[t]
      BY <1>1, <2>2, EntryAfter
    <3>4. CASE d.ts + Delay <= lateWm
      BY <1>1, <1>2, <3>2, <3>4
    <3>5. CASE seen[t] = d.ts + Delay
      BY <1>1, <1>2, <3>2, <3>3, <3>5
    <3> QED
      BY <3>2, <3>4, <3>5
  <2> QED
    BY <2>1, <2>2
<1> QED
  BY <1>1, <1>2, <1>3 DEF Settled

\* A transaction the dedup state knows after the batch has a decision.
LEMMA CommitTable ==
    ASSUME Typed, ScorerInv, Commit
    PROVE  TableInv'
<1>1. planned # None /\ phase = "commit" /\ decisions' = decisions
      /\ seen' = [t \in Txns |-> SeenAfter(t)]
  BY DEF Commit, ScorerInv, SourceInv
<1>2. ASSUME NEW t \in Txns
      PROVE  \/ decisions[t] = <<>> /\ seen'[t] = None
             \/ \E d \in Decision : decisions[t] = <<d>> /\ Settled(t, d)'
  <2>1. CASE decisions[t] = <<>> /\ seen[t] = None
    <3>1. \A i \in Passed : log[i].txn # t
      BY <1>1, <2>1 DEF ScorerInv, CommitInv
    <3> QED
      BY <1>1, <2>1, <3>1, EntryAfter
  <2>2. CASE \E d \in Decision : decisions[t] = <<d>> /\ Settled(t, d)
    BY <2>2, CommitSettled
  <2> QED
    BY <2>1, <2>2 DEF ScorerInv, TableInv
<1> QED
  BY <1>1, <1>2 DEF ScorerInv, TableInv

\* A row of the batch is decided, or was late behind a row consumed before.
LEMMA CommitDecided ==
    ASSUME Typed, ScorerInv, Commit
    PROVE  ConsumedIsDecided'
<1>1. /\ planned # None /\ phase = "commit" /\ UNCHANGED <<log, decisions>>
      /\ offset' = planned
  BY DEF Commit, ScorerInv, SourceInv
<1>2. /\ offset \in Nat /\ planned \in Nat /\ lateWm \in Nat /\ nextWm \in Nat /\ Delay \in Nat
      /\ \A i \in 1 .. Len(log) : log[i].txn \in Txns /\ log[i].ts \in Nat
      /\ \A i \in 1 .. planned : i \in 1 .. Len(log)
      /\ \A i \in 1 .. planned : i \in 1 .. offset \/ i \in offset + 1 .. planned
  BY <1>1, BatchPlace, LogTyped, ScoringAssumption
<1>3. ASSUME NEW i \in offset + 1 .. planned
      PROVE  \/ decisions[log[i].txn] # <<>>
             \/ \E j \in 1 .. i - 1 : log[j].ts >= log[i].ts + Delay
  <2>1. i \in Nat /\ offset < i /\ log[i].txn \in Txns /\ log[i].ts \in Nat
    BY <1>1, <1>2, BatchPlace
  <2>2. CASE Late(i)
    <3>1. log[i].ts <= nextWm /\ nextWm > 0
      <4>1. log[i].ts <= lateWm /\ log[i].ts > 0
        BY <1>1, <2>2, BatchPlace, LogTyped DEF Late
      <4> QED
        BY <1>2, <2>1, <4>1 DEF ScorerInv, WatermarkInv
    <3>2. PICK j \in 1 .. offset : log[j].ts >= nextWm + Delay
      BY <3>1 DEF ScorerInv, WatermarkInv
    <3>3. j \in 1 .. i - 1 /\ log[j].ts \in Nat
      BY <1>1, <1>2, <2>1, BatchPlace
    <3> QED
      BY <1>2, <2>1, <3>1, <3>2, <3>3
  <2>3. CASE seen[log[i].txn] # None
    <3>1. \E d \in Decision : decisions[log[i].txn] = <<d>>
      BY <2>1, <2>3 DEF ScorerInv, TableInv
    <3> QED
      BY <3>1
  <2>4. CASE ~Late(i) /\ seen[log[i].txn] = None
    <3>1. PICK j \in Passed : log[j].txn = log[i].txn
      BY <1>1, <2>4, FirstOnTime
    <3>2. \E d \in Decision : decisions[log[i].txn] = <<d>>
      BY <1>1, <3>1 DEF ScorerInv, CommitInv
    <3> QED
      BY <3>2
  <2> QED
    BY <2>2, <2>3, <2>4
<1> QED
  BY <1>1, <1>2, <1>3 DEF ScorerInv, ConsumedIsDecided

LEMMA CommitWatermark ==
    ASSUME Typed, ScorerInv, Commit
    PROVE  WatermarkInv' /\ lateWm' \in Nat /\ nextWm' \in Nat
<1> DEFINE T == {log[i].ts : i \in offset + 1 .. planned} \cup {0}
           newest == MaxTime(T)
<1>1. /\ planned # None /\ log' = log /\ offset' = planned /\ lateWm' = nextWm
      /\ nextWm' = IF newest > nextWm + Delay THEN newest - Delay ELSE nextWm
  BY DEF Commit, WatermarkAfter, ScorerInv, SourceInv
<1>2. newest \in T /\ newest \in Nat
  BY <1>1, NewestTime
<1> HIDE DEF newest
<1>3. /\ nextWm \in Nat /\ Delay \in Nat /\ offset \in Nat /\ planned \in Nat
      /\ offset <= planned /\ \A j \in 1 .. planned : log[j].ts \in Nat
  BY <1>1, BatchPlace, LogTyped, ScoringAssumption
<1>4. CASE newest > nextWm + Delay
  <2>1. PICK j \in offset + 1 .. planned : log[j].ts = newest
    BY <1>2, <1>3, <1>4
  <2>2. j \in 1 .. planned
    BY <1>3
  <2>3. nextWm' = newest - Delay /\ nextWm' \in Nat /\ nextWm <= nextWm'
    BY <1>1, <1>2, <1>3, <1>4
  <2>4. log[j].ts >= nextWm' + Delay
    BY <1>2, <1>3, <2>1, <2>3
  <2> QED
    BY <1>1, <1>3, <2>2, <2>3, <2>4 DEF WatermarkInv
<1>5. CASE ~(newest > nextWm + Delay)
  <2>1. nextWm' = nextWm
    BY <1>1, <1>5
  <2>2. \A j \in 1 .. offset : j \in 1 .. planned
    BY <1>3
  <2> QED
    BY <1>1, <1>3, <2>1, <2>2 DEF ScorerInv, WatermarkInv
<1> QED
  BY <1>4, <1>5

LEMMA ScorerCommit ==
    ASSUME Typed, ScorerInv, Commit
    PROVE  ScorerInv'
<1>1. SourceInv' /\ CommitInv'
  BY DEF Commit, ScorerInv, SourceInv, CommitInv
<1> QED
  BY <1>1, CommitTable, CommitDecided, CommitWatermark DEF ScorerInv

-----------------------------------------------------------------------------
(* The theorems *)

LEMMA ScorerStep ==
    ASSUME Typed, ScorerInv, [Next]_vars
    PROVE  Typed' /\ ScorerInv'
<1>1. CASE (Export \/ ProducerNext) /\ UNCHANGED scorer
  BY <1>1, ScorerProduce
<1>2. CASE UNCHANGED vars
  <2>1. UNCHANGED <<curated, log, toSend, queue, wire, failed, sent, duplicates, stats,
                    producing, remaining, runs, left, model, offset, planned, lateWm, nextWm, seen, decisions,
                    phase, loaded, source, crashes>>
    BY <1>2 DEF vars, producer, scorer, checkpoint
  <2>2. ScorerInv'
    BY <2>1, ScorerQuiet
  <2>3. Typed'
    BY <2>1 DEF Typed, TypeOK, ProducerTypeOK, RunOK
  <2> QED
    BY <2>2, <2>3
<1>3. ASSUME Train \/ Start \/ Running \/ Crash
      PROVE  Typed' /\ ScorerInv'
  <2>1. ScorerInv'
    <3>1. CASE Train \/ Start \/ Plan \/ Crash
      BY <3>1, ScorerQuiet DEF Train, Start, Plan, Crash, Stop, checkpoint, ScorerInv, SourceInv
    <3>2. CASE Score
      BY <3>2, ScorerScore
    <3>3. CASE Merge
      BY <3>3, ScorerMerge
    <3>4. CASE Commit
      BY <3>4, ScorerCommit
    <3> QED
      BY <1>3, <3>1, <3>2, <3>3, <3>4 DEF Running
  <2>2. UNCHANGED <<curated, log, toSend, queue, wire, failed, sent, duplicates, stats,
                    producing, remaining, runs, left>>
    BY <1>3 DEF Train, Running, Start, Plan, Score, Merge, Commit, Crash, producer
  <2>3. ProducerTypeOK' /\ RunOK'
    BY <2>2 DEF Typed, TypeOK, ProducerTypeOK, RunOK
  <2>4. model' \in 0 .. MaxModels /\ loaded' \in 0 .. model'
    BY <1>3, ScoringAssumption
       DEF Train, Running, Start, Plan, Score, Merge, Commit, Crash, Stop, Typed, TypeOK
  <2>5. phase' \in Phases /\ crashes' \in 0 .. MaxCrashes
    BY <1>3, ScoringAssumption
       DEF Train, Running, Start, Plan, Score, Merge, Commit, Crash, Stop, Typed, TypeOK, Phases
  <2>6. \A t \in Txns : \A n \in DOMAIN decisions'[t] : decisions'[t][n].txn = t
    <3>1. \A t \in Txns : \/ decisions'[t] = <<>>
                          \/ \E d \in Decision : decisions'[t] = <<d>> /\ d.txn = t
      BY <2>1 DEF ScorerInv, TableInv, Settled
    <3> TAKE t \in Txns
    <3>2. CASE decisions'[t] = <<>>
      BY <3>2
    <3>3. CASE \E d \in Decision : decisions'[t] = <<d>> /\ d.txn = t
      BY <3>3
    <3> QED
      BY <3>1, <3>2, <3>3
  <2>7. /\ offset' \in 0 .. Len(log') /\ planned' \in (offset' .. Len(log')) \cup {None}
        /\ lateWm' \in Nat /\ nextWm' \in Nat /\ seen' \in [Txns -> Nat \cup {None}]
    <3>0. Len(log) \in Nat /\ offset \in 0 .. Len(log)
      BY LogTyped DEF Typed, TypeOK
    <3>1. CASE Commit
      <4>1. planned # None
        BY <3>1 DEF Commit, ScorerInv, SourceInv
      <4>2. \A t \in Txns : SeenAfter(t) \in Nat \cup {None}
        <5> TAKE t \in Txns
        <5>1. CASE \A i \in Passed : log[i].txn # t
          BY <4>1, <5>1, EntryAfter DEF Typed, TypeOK
        <5>2. CASE \E i \in Passed : log[i].txn = t
          <6>1. PICK i \in Passed : log[i].txn = t
            BY <5>2
          <6>2. log[i].ts + Delay \in Nat
            BY <4>1, <6>1, BatchPlace, LogTyped, ScoringAssumption
          <6> QED
            BY <4>1, <6>1, <6>2, EntryAfter
        <5> QED
          BY <5>1, <5>2
      <4>3. offset' = planned /\ planned' = None /\ log' = log
            /\ seen' = [t \in Txns |-> SeenAfter(t)]
        BY <3>1 DEF Commit
      <4>4. planned \in 0 .. Len(log)
        BY <4>1, BatchPlace
      <4>5. seen' \in [Txns -> Nat \cup {None}]
        BY <4>2, <4>3
      <4> QED
        BY <3>1, <4>3, <4>4, <4>5, CommitWatermark
    <3>2. CASE Plan
      <4>1. EndOffset \in offset .. Len(log)
        BY <3>0, ScoringAssumption DEF EndOffset
      <4> QED
        BY <3>0, <3>2, <4>1 DEF Plan, Typed, TypeOK
    <3>3. CASE Train \/ Start \/ Score \/ Merge \/ Crash
      <4>1. UNCHANGED <<log, offset, planned, lateWm, nextWm, seen>>
        BY <3>3 DEF Train, Start, Score, Merge, Crash, checkpoint
      <4> QED
        BY <4>1 DEF Typed, TypeOK
    <3> QED
      BY <1>3, <3>1, <3>2, <3>3 DEF Running
  <2> QED
    BY <2>1, <2>3, <2>4, <2>5, <2>6, <2>7 DEF Typed, TypeOK
<1> QED
  BY <1>1, <1>2, <1>3 DEF Next

LEMMA InitScorer == Init => Typed /\ ScorerInv
<1> SUFFICES ASSUME Init
             PROVE  Typed /\ ScorerInv
  OBVIOUS
<1>1. /\ log \in Seq(Event) /\ queue \in Seq(Event) /\ wire \in Seq(Event)
      /\ toSend \in Seq(Txns)
      /\ Len(log) = 0 /\ Len(queue) = 0 /\ Len(wire) = 0
  BY EmptySeq DEF Init, ProducerInit
<1>2. ProducerTypeOK
  <2>1. failed \in BOOLEAN /\ producing \in BOOLEAN /\ stats = None /\ remaining = None
    BY DEF Init, ProducerInit
  <2>2. curated \in Exports /\ sent = 0 /\ duplicates = 0 /\ left = 0 /\ runs = 0
    BY DEF Init, ProducerInit
  <2> QED
    BY <1>1, <2>1, <2>2, ProducerAssumption DEF ProducerTypeOK
<1>3. RunOK
  BY <1>1, ProducerAssumption DEF Init, ProducerInit, RunOK
<1>4. TypeOK
  BY <1>1, <1>2, ScoringAssumption DEF Init, TypeOK, Phases
<1>5. ScorerInv
  BY <1>1 DEF Init, ScorerInv, WatermarkInv, SourceInv, TableInv, CommitInv, ConsumedIsDecided
<1> QED
  BY <1>3, <1>4, <1>5 DEF Typed

\* Every variable of the producer and the scorer keeps its type, and what the table, the
\* dedup state and the batch under way say of each other stays true.
THEOREM ScorerInvariant == Spec => [](Typed /\ ScorerInv)
<1>1. Typed /\ ScorerInv /\ [Next]_vars => (Typed /\ ScorerInv)'
  BY ScorerStep
<1> QED
  BY <1>1, InitScorer, PTL DEF Spec

\* A transaction has at most one decision, and the MERGE never meets two rows of one.
THEOREM OneDecisionAlways == Spec => []OneDecision
<1>1. Typed /\ ScorerInv => OneDecision
  <2> SUFFICES ASSUME Typed, ScorerInv
               PROVE  OneDecision
    OBVIOUS
  <2>1. \A t \in Txns : Len(decisions[t]) <= 1
    <3> TAKE t \in Txns
    <3>1. CASE decisions[t] = <<>>
      BY <3>1
    <3>2. CASE \E d \in Decision : decisions[t] = <<d>>
      BY <3>2
    <3> QED
      BY <3>1, <3>2 DEF ScorerInv, TableInv
  <2> QED
    BY <2>1, NeverAmbiguous DEF OneDecision, ScorerInv
<1> QED
  BY <1>1, ScorerInvariant, PTL

\* Every consumed event is decided, or came later than the delay allows.
THEOREM ConsumedIsDecidedAlways == Spec => []ConsumedIsDecided
<1>1. ScorerInv => ConsumedIsDecided
  BY DEF ScorerInv
<1> QED
  BY <1>1, ScorerInvariant, PTL

\* No redelivery, late copy or replay ever replaces a decision by one on an older event.
THEOREM DecisionNeverOlderAlways == Spec => DecisionNeverOlder
<1> DEFINE Newer ==
        \A t \in Txns :
            decisions[t] # <<>> /\ decisions'[t] # decisions[t] =>
                \/ decisions'[t][1].ts > decisions[t][1].ts
                \/ decisions'[t][1].at = decisions[t][1].at
<1>1. Typed /\ ScorerInv /\ [Next]_vars => Newer
  <2> SUFFICES ASSUME Typed, ScorerInv, [Next]_vars, NEW t \in Txns,
                      decisions[t] # <<>>, decisions'[t] # decisions[t]
               PROVE  \/ decisions'[t][1].ts > decisions[t][1].ts
                      \/ decisions'[t][1].at = decisions[t][1].at
    OBVIOUS
  <2>1. Merge
    BY DEF Next, Running, vars, scorer, Train, Start, Plan, Score, Commit, Crash
  <2>2. planned # None
    BY <2>1 DEF Merge, ScorerInv, SourceInv
  <2>3. PICK i \in Passed : log[i].txn = t /\ decisions'[t] = <<DecisionRow(i)>>
    BY <2>1, ScorerMerge
  <2>4. PICK d \in Decision : decisions[t] = <<d>> /\ Settled(t, d)
    BY DEF ScorerInv, TableInv
  <2>5. /\ DecisionRow(i).at = i /\ DecisionRow(i).ts = log[i].ts
        /\ log[i].ts \in Nat /\ lateWm \in Nat /\ Delay \in Nat /\ log[i].ts > lateWm
        /\ seen[t] = None
    <3>1. ~Late(i) /\ seen[t] = None
      BY <2>3 DEF Passed
    <3> QED
      BY <2>2, <3>1, RowDecision, BatchPlace, LogTyped, ScoringAssumption DEF Late
  <2>6. d.ts \in Nat
    BY <2>4, LogTyped DEF Settled
  <2>7. CASE d.at \in Passed
    BY <2>2, <2>3, <2>4, <2>5, <2>7, PassedOnce DEF Settled
  <2>8. CASE d.ts + Delay <= lateWm \/ seen[t] = d.ts + Delay
    <3>1. d.ts + Delay # None
      BY <2>5, <2>6, ScoringAssumption
    <3>2. log[i].ts > d.ts
      BY <2>5, <2>6, <2>8, <3>1
    <3> QED
      BY <2>3, <2>4, <2>5, <3>2
  <2> QED
    BY <2>4, <2>7, <2>8 DEF Settled
<1>2. [][Next]_vars /\ [](Typed /\ ScorerInv) => [][Newer]_vars
  BY <1>1, PTL
<1> QED
  BY <1>2, ScorerInvariant, PTL DEF Spec, DecisionNeverOlder

-----------------------------------------------------------------------------
(* The statistics a producer run leaves behind are those of the topic, for every export,  *)
(* limit and number of runs, whatever is delivered, lost or killed.                       *)

\* The messages of a run in a sequence of them, and their transactions and event times.
Of(s, r) == {i \in 1 .. Len(s) : s[i].run = r}

Pairs(s, r) == {<<s[i].txn, s[i].ts>> : i \in Of(s, r)}

\* They are finitely many.
LEMMA OfFinite ==
    ASSUME NEW s \in Seq(Event), NEW r
    PROVE  /\ IsFiniteSet(Of(s, r)) /\ Cardinality(Of(s, r)) \in Nat
           /\ IsFiniteSet(Pairs(s, r)) /\ Cardinality(Pairs(s, r)) \in Nat
           /\ Cardinality(Pairs(s, r)) <= Cardinality(Of(s, r))
<1>1. Len(s) \in Nat
  BY LenProperties
<1>2. IsFiniteSet(1 .. Len(s)) /\ Of(s, r) \in SUBSET (1 .. Len(s))
  BY <1>1, FS_Interval DEF Of
<1>3. IsFiniteSet(Of(s, r)) /\ Cardinality(Of(s, r)) \in Nat
  BY <1>2, FS_Subset, FS_CardinalityType
<1> DEFINE f == [i \in Of(s, r) |-> <<s[i].txn, s[i].ts>>]
<1>4. f \in Surjection(Of(s, r), Pairs(s, r))
  BY DEF Pairs, Surjection
<1> HIDE DEF f
<1>5. /\ IsFiniteSet(Pairs(s, r))
      /\ Cardinality(Pairs(s, r)) <= Cardinality(Of(s, r))
  BY <1>3, <1>4, FS_Surjection
<1> QED
  BY <1>3, <1>5, FS_CardinalityType

\* One more message.
LEMMA OfAppend ==
    ASSUME NEW s \in Seq(Event), NEW e \in Event, NEW r
    PROVE  LET t == Append(s, e) IN
           /\ t \in Seq(Event)
           /\ Cardinality(Of(t, r)) = Cardinality(Of(s, r)) + (IF e.run = r THEN 1 ELSE 0)
           /\ Pairs(t, r) = Pairs(s, r) \cup (IF e.run = r THEN {<<e.txn, e.ts>>} ELSE {})
<1> DEFINE t == Append(s, e)
           n == Len(s) + 1
<1>1. /\ Len(s) \in Nat /\ t \in Seq(Event) /\ Len(t) = n /\ t[n] = e
      /\ \A i \in 1 .. Len(s) : t[i] = s[i]
  BY LenProperties, AppendProperties
<1>2. /\ \A i \in 1 .. n : i \in 1 .. Len(s) \/ i = n
      /\ \A i \in 1 .. Len(s) : i \in 1 .. n
      /\ n \in 1 .. n /\ n \notin 1 .. Len(s)
  BY <1>1
<1> HIDE DEF t, n
<1>3. Of(t, r) = Of(s, r) \cup (IF e.run = r THEN {n} ELSE {}) /\ n \notin Of(s, r)
  BY <1>1, <1>2 DEF Of
<1>4. CASE e.run = r
  <2>1. Of(t, r) = Of(s, r) \cup {n}
    BY <1>3, <1>4
  <2>2. Cardinality(Of(t, r)) = Cardinality(Of(s, r)) + 1
    BY <1>3, <2>1, OfFinite, FS_AddElement
  <2>3. Pairs(t, r) = Pairs(s, r) \cup {<<e.txn, e.ts>>}
    <3>1. \A i \in Of(s, r) : t[i] = s[i]
      BY <1>1 DEF Of
    <3> QED
      BY <1>1, <2>1, <3>1 DEF Pairs
  <2> QED
    BY <1>1, <1>4, <2>2, <2>3 DEF t
<1>5. CASE e.run # r
  <2>1. Of(t, r) = Of(s, r) /\ \A i \in Of(s, r) : t[i] = s[i]
    BY <1>1, <1>3, <1>5 DEF Of
  <2>2. Pairs(t, r) = Pairs(s, r)
    BY <2>1 DEF Pairs
  <2> QED
    BY <1>1, <1>5, <2>1, <2>2, OfFinite DEF t
<1> QED
  BY <1>4, <1>5

\* The first message taken away.
LEMMA OfTail ==
    ASSUME NEW s \in Seq(Event), s # <<>>, NEW r
    PROVE  LET e == Head(s) IN
           /\ e \in Event /\ Tail(s) \in Seq(Event) /\ e = s[1] /\ 1 \in 1 .. Len(s)
           /\ Cardinality(Of(s, r)) = Cardinality(Of(Tail(s), r)) + (IF e.run = r THEN 1 ELSE 0)
           /\ Pairs(s, r) = Pairs(Tail(s), r) \cup (IF e.run = r THEN {<<e.txn, e.ts>>} ELSE {})
<1> DEFINE e == Head(s)
           t == Tail(s)
<1>1. /\ Len(s) \in Nat /\ Len(t) \in Nat /\ Len(s) = Len(t) + 1 /\ t \in Seq(Event)
      /\ e \in Event /\ e = s[1] /\ \A i \in 1 .. Len(t) : t[i] = s[i + 1]
  BY HeadTailProperties, LenProperties, EmptySeq
<1>2. /\ \A i \in 1 .. Len(s) : i = 1 \/ (i - 1 \in 1 .. Len(t) /\ (i - 1) + 1 = i)
      /\ \A i \in 1 .. Len(t) : i + 1 \in 1 .. Len(s) /\ i + 1 # 1
      /\ 1 \in 1 .. Len(s)
      /\ \A i, j \in 1 .. Len(t) : i + 1 = j + 1 => i = j
  BY <1>1
<1> HIDE DEF e, t
<1> DEFINE rest == Of(s, r) \ {1}
           f == [i \in Of(t, r) |-> i + 1]
<1>3. /\ \A i \in Of(t, r) : i + 1 \in rest /\ t[i] = s[i + 1]
      /\ \A k \in rest : k - 1 \in Of(t, r) /\ (k - 1) + 1 = k /\ t[k - 1] = s[k]
  <2>1. ASSUME NEW i \in Of(t, r)
        PROVE  i + 1 \in rest /\ t[i] = s[i + 1]
    BY <1>1, <1>2 DEF Of
  <2>2. ASSUME NEW k \in rest
        PROVE  k - 1 \in Of(t, r) /\ (k - 1) + 1 = k /\ t[k - 1] = s[k]
    <3>1. k \in 1 .. Len(s) /\ k # 1 /\ s[k].run = r
      BY DEF Of
    <3>2. k - 1 \in 1 .. Len(t) /\ (k - 1) + 1 = k
      BY <1>2, <3>1
    <3>3. t[k - 1] = s[(k - 1) + 1]
      BY <1>1, <3>2
    <3>4. t[k - 1] = s[k]
      BY <3>2, <3>3
    <3> QED
      BY <3>1, <3>2, <3>4 DEF Of
  <2> QED
    BY <2>1, <2>2
<1>4. Cardinality(rest) = Cardinality(Of(t, r)) /\ IsFiniteSet(rest)
  <2>1. f \in [Of(t, r) -> rest] /\ \A k \in rest : \E i \in Of(t, r) : f[i] = k
    BY <1>3
  <2>2. \A i, j \in Of(t, r) : f[i] = f[j] => i = j
    BY <1>2 DEF Of
  <2>3. IsFiniteSet(Of(t, r))
    BY <1>1, OfFinite
  <2> HIDE DEF f, rest
  <2> QED
    BY <2>1, <2>2, <2>3, FiniteImage
<1>5. {<<s[k].txn, s[k].ts>> : k \in rest} = Pairs(t, r)
  BY <1>3 DEF Pairs
<1>6. CASE e.run = r
  <2>1. Of(s, r) = rest \cup {1}
    BY <1>1, <1>2, <1>6 DEF Of
  <2>2. 1 \notin rest
    OBVIOUS
  <2> HIDE DEF rest
  <2>3. Cardinality(Of(s, r)) = Cardinality(Of(t, r)) + 1
    BY <1>4, <2>1, <2>2, FS_AddElement
  <2>4. Pairs(s, r) = Pairs(t, r) \cup {<<e.txn, e.ts>>}
    BY <1>1, <1>5, <2>1 DEF Pairs
  <2> QED
    BY <1>1, <1>2, <1>6, <2>3, <2>4 DEF e, t
<1>7. CASE e.run # r
  <2>1. Of(s, r) = rest
    BY <1>1, <1>7 DEF Of
  <2>2. Pairs(s, r) = Pairs(t, r) /\ Cardinality(Of(s, r)) = Cardinality(Of(t, r))
    BY <1>4, <1>5, <2>1 DEF Pairs
  <2> QED
    BY <1>1, <1>2, <1>7, <2>2, OfFinite DEF e, t
<1> QED
  BY <1>6, <1>7

\* Two sequences of messages, one after the other.
LEMMA OfConcat ==
    ASSUME NEW s \in Seq(Event), NEW t \in Seq(Event), NEW r
    PROVE  /\ s \o t \in Seq(Event)
           /\ Cardinality(Of(s \o t, r)) = Cardinality(Of(s, r)) + Cardinality(Of(t, r))
           /\ Pairs(s \o t, r) = Pairs(s, r) \cup Pairs(t, r)
<1> DEFINE u == s \o t
           n == Len(s)
<1>1. /\ n \in Nat /\ Len(t) \in Nat /\ u \in Seq(Event) /\ Len(u) = n + Len(t)
      /\ \A i \in 1 .. n + Len(t) : u[i] = IF i <= n THEN s[i] ELSE t[i - n]
  BY LenProperties, ConcatProperties
<1> HIDE DEF u
<1>2. \A i \in 1 .. n : i \in 1 .. Len(u) /\ u[i] = s[i]
  BY <1>1
<1>3. \A i \in 1 .. Len(t) : n + i \in 1 .. Len(u) /\ u[n + i] = t[i] /\ n + i \notin 1 .. n
  <2> TAKE i \in 1 .. Len(t)
  <2>1. n + i \in 1 .. n + Len(t) /\ ~(n + i <= n) /\ (n + i) - n = i
    BY <1>1
  <2>2. u[n + i] = t[(n + i) - n]
    BY <1>1, <2>1
  <2> QED
    BY <1>1, <2>1, <2>2
<1>4. \A i \in 1 .. Len(u) : i \in 1 .. n \/ (i - n \in 1 .. Len(t) /\ n + (i - n) = i)
  BY <1>1
<1> DEFINE late == Of(u, r) \ (1 .. n)
           f == [i \in Of(t, r) |-> n + i]
<1>5. /\ \A i \in Of(t, r) : n + i \in late /\ u[n + i] = t[i]
      /\ \A k \in late : k - n \in Of(t, r) /\ n + (k - n) = k /\ u[k] = t[k - n]
  <2>1. ASSUME NEW i \in Of(t, r)
        PROVE  n + i \in late /\ u[n + i] = t[i]
    BY <1>3 DEF Of
  <2>2. ASSUME NEW k \in late
        PROVE  k - n \in Of(t, r) /\ n + (k - n) = k /\ u[k] = t[k - n]
    <3>1. k \in 1 .. Len(u) /\ k \notin 1 .. n /\ u[k].run = r
      BY DEF Of
    <3>2. k - n \in 1 .. Len(t) /\ n + (k - n) = k
      BY <1>4, <3>1
    <3>3. u[n + (k - n)] = t[k - n]
      BY <1>3, <3>2
    <3>4. u[k] = t[k - n]
      BY <3>2, <3>3
    <3> QED
      BY <3>1, <3>2, <3>4 DEF Of
  <2> QED
    BY <2>1, <2>2
<1>6. Cardinality(late) = Cardinality(Of(t, r)) /\ IsFiniteSet(late)
  <2>1. f \in [Of(t, r) -> late] /\ \A k \in late : \E i \in Of(t, r) : f[i] = k
    BY <1>5
  <2>2. \A i, j \in Of(t, r) : f[i] = f[j] => i = j
    BY <1>1 DEF Of
  <2>3. IsFiniteSet(Of(t, r))
    BY OfFinite
  <2> HIDE DEF f, late
  <2> QED
    BY <2>1, <2>2, <2>3, FiniteImage
<1>7. Of(u, r) = Of(s, r) \cup late /\ Of(s, r) \cap late = {}
  BY <1>2 DEF Of
<1>8. {<<u[k].txn, u[k].ts>> : k \in late} = Pairs(t, r)
  BY <1>5 DEF Pairs
<1>9. {<<u[k].txn, u[k].ts>> : k \in Of(s, r)} = Pairs(s, r)
  BY <1>2 DEF Pairs, Of
<1> HIDE DEF late
<1>10. Pairs(u, r) = Pairs(s, r) \cup Pairs(t, r)
  BY <1>7, <1>8, <1>9 DEF Pairs
<1>11. Cardinality(Of(u, r)) = Cardinality(Of(s, r)) + Cardinality(Of(t, r))
  <2>1. Cardinality(Of(s, r) \cup late) =
            Cardinality(Of(s, r)) + Cardinality(late) - Cardinality(Of(s, r) \cap late)
    BY <1>6, OfFinite, FS_Union
  <2>2. Cardinality(Of(s, r) \cap late) = 0
    BY <1>7, FS_EmptySet
  <2> QED
    BY <1>6, <1>7, <2>1, <2>2, OfFinite
<1> QED
  BY <1>1, <1>10, <1>11 DEF u

LEMMA OfEmpty == \A r : Of(<<>>, r) = {} /\ Pairs(<<>>, r) = {}
<1>1. 1 .. Len(<<>>) = {}
  OBVIOUS
<1> QED
  BY <1>1 DEF Of, Pairs

-----------------------------------------------------------------------------
(* What a run's numbers say of the topic and of the messages that may reach it yet *)

\* Of the s messages and u transactions of run r, the topic T has all but l, and the topic,
\* the queue Q and the wire W together have no more.
Account(T, Q, W, r, s, u, l) ==
    /\ s \in Nat /\ u \in Nat /\ l \in Nat
    /\ s - l <= Cardinality(Of(T, r))
    /\ Cardinality(Of(T, r)) + Cardinality(Of(Q, r)) + Cardinality(Of(W, r)) <= s
    /\ u - l <= Cardinality(Pairs(T, r))
    /\ Cardinality(Pairs(T, r) \cup Pairs(Q, r) \cup Pairs(W, r)) <= u

\* Messages have only moved on, or are lost.
Moved(T, Q, W, T1, Q1, W1, r) ==
    /\ Cardinality(Of(T, r)) <= Cardinality(Of(T1, r))
    /\ Cardinality(Of(T1, r)) + Cardinality(Of(Q1, r)) + Cardinality(Of(W1, r))
           <= Cardinality(Of(T, r)) + Cardinality(Of(Q, r)) + Cardinality(Of(W, r))
    /\ Pairs(T, r) \subseteq Pairs(T1, r)
    /\ Pairs(T1, r) \cup Pairs(Q1, r) \cup Pairs(W1, r)
           \subseteq Pairs(T, r) \cup Pairs(Q, r) \cup Pairs(W, r)

LEMMA StillAbove ==
    ASSUME NEW a \in Nat, NEW b \in Nat, NEW c \in Nat, NEW d \in Nat, a - b <= c, c <= d
    PROVE  a - b <= d
  OBVIOUS

LEMMA StillBelow ==
    ASSUME NEW a \in Nat, NEW b \in Nat, NEW c \in Nat, a <= b, b <= c
    PROVE  a <= c
  OBVIOUS

LEMMA SumOfThree == \A a, b, c \in Nat : a + b + c \in Nat
  OBVIOUS

LEMMA AccountMoves ==
    ASSUME NEW T \in Seq(Event), NEW Q \in Seq(Event), NEW W \in Seq(Event),
           NEW T1 \in Seq(Event), NEW Q1 \in Seq(Event), NEW W1 \in Seq(Event),
           NEW r, NEW s, NEW u, NEW l, Account(T, Q, W, r, s, u, l),
           Moved(T, Q, W, T1, Q1, W1, r)
    PROVE  Account(T1, Q1, W1, r, s, u, l)
<1> DEFINE all == Pairs(T, r) \cup Pairs(Q, r) \cup Pairs(W, r)
           all1 == Pairs(T1, r) \cup Pairs(Q1, r) \cup Pairs(W1, r)
<1>1. IsFiniteSet(all) /\ Cardinality(all) \in Nat
  <2>1. IsFiniteSet(Pairs(T, r) \cup Pairs(Q, r))
    BY OfFinite, FS_Union
  <2>2. IsFiniteSet(all)
    BY <2>1, OfFinite, FS_Union
  <2> QED
    BY <2>2, FS_CardinalityType
<1>2. Cardinality(all1) <= Cardinality(all) /\ Cardinality(all1) \in Nat
  <2>1. all1 \in SUBSET all
    BY DEF Moved
  <2> HIDE DEF all, all1
  <2> QED
    BY <1>1, <2>1, FS_Subset, FS_CardinalityType
<1>3. Cardinality(Pairs(T, r)) <= Cardinality(Pairs(T1, r))
  <2>1. Pairs(T, r) \in SUBSET Pairs(T1, r)
    BY DEF Moved
  <2> QED
    BY <2>1, OfFinite, FS_Subset
<1>4. /\ Cardinality(Of(T, r)) \in Nat /\ Cardinality(Of(Q, r)) \in Nat
      /\ Cardinality(Of(W, r)) \in Nat /\ Cardinality(Of(T1, r)) \in Nat
      /\ Cardinality(Of(Q1, r)) \in Nat /\ Cardinality(Of(W1, r)) \in Nat
      /\ Cardinality(Pairs(T, r)) \in Nat /\ Cardinality(Pairs(T1, r)) \in Nat
  BY OfFinite
<1>5. /\ s \in Nat /\ u \in Nat /\ l \in Nat
      /\ s - l <= Cardinality(Of(T, r))
      /\ Cardinality(Of(T, r)) + Cardinality(Of(Q, r)) + Cardinality(Of(W, r)) <= s
      /\ u - l <= Cardinality(Pairs(T, r)) /\ Cardinality(all) <= u
  BY DEF Account
<1> DEFINE sum == Cardinality(Of(T, r)) + Cardinality(Of(Q, r)) + Cardinality(Of(W, r))
           sum1 == Cardinality(Of(T1, r)) + Cardinality(Of(Q1, r)) + Cardinality(Of(W1, r))
<1>6. sum \in Nat /\ sum1 \in Nat
  BY <1>4, SumOfThree
<1>7. sum1 <= sum /\ sum <= s /\ Cardinality(Of(T, r)) <= Cardinality(Of(T1, r))
  BY <1>5 DEF Moved
<1> HIDE DEF all, all1, sum, sum1
<1>8. Cardinality(all1) <= u /\ sum1 <= s
  BY <1>1, <1>2, <1>5, <1>6, <1>7, StillBelow
<1>9. u - l <= Cardinality(Pairs(T1, r)) /\ s - l <= Cardinality(Of(T1, r))
  BY <1>3, <1>4, <1>5, <1>7, StillAbove
<1> QED
  BY <1>5, <1>8, <1>9 DEF Account, all1, sum1

\* The first message of a queue is appended to the topic, or given up.
LEMMA AccountDeliver ==
    ASSUME NEW T \in Seq(Event), NEW Q \in Seq(Event), NEW W \in Seq(Event), Q # <<>>,
           NEW r, NEW s, NEW u, NEW l, Account(T, Q, W, r, s, u, l)
    PROVE  /\ Account(Append(T, Head(Q)), Tail(Q), W, r, s, u, l)
           /\ Account(T, Tail(Q), Append(W, Head(Q)), r, s, u, l)
<1> DEFINE e == Head(Q)
           d == IF e.run = r THEN 1 ELSE 0
           p == IF e.run = r THEN {<<e.txn, e.ts>>} ELSE {}
<1>1. /\ e \in Event /\ Tail(Q) \in Seq(Event)
      /\ Cardinality(Of(Q, r)) = Cardinality(Of(Tail(Q), r)) + d
      /\ Pairs(Q, r) = Pairs(Tail(Q), r) \cup p
  BY OfTail
<1>2. ASSUME NEW X \in Seq(Event)
      PROVE  /\ Append(X, e) \in Seq(Event)
             /\ Cardinality(Of(Append(X, e), r)) = Cardinality(Of(X, r)) + d
             /\ Pairs(Append(X, e), r) = Pairs(X, r) \cup p
  BY <1>1, OfAppend
<1>3. d \in {0, 1}
  OBVIOUS
<1> HIDE DEF d, p, e
<1>4. /\ Cardinality(Of(T, r)) \in Nat /\ Cardinality(Of(W, r)) \in Nat
      /\ Cardinality(Of(Tail(Q), r)) \in Nat
  BY <1>1, OfFinite
<1>5. Account(Append(T, e), Tail(Q), W, r, s, u, l)
  <2>1. /\ Cardinality(Of(T, r)) <= Cardinality(Of(Append(T, e), r))
        /\ Cardinality(Of(Append(T, e), r)) + Cardinality(Of(Tail(Q), r)) + Cardinality(Of(W, r))
               <= Cardinality(Of(T, r)) + Cardinality(Of(Q, r)) + Cardinality(Of(W, r))
    BY <1>1, <1>2, <1>3, <1>4
  <2>2. /\ Pairs(T, r) \subseteq Pairs(Append(T, e), r)
        /\ Pairs(Append(T, e), r) \cup Pairs(Tail(Q), r) \cup Pairs(W, r)
               \subseteq Pairs(T, r) \cup Pairs(Q, r) \cup Pairs(W, r)
    BY <1>1, <1>2
  <2>3. Moved(T, Q, W, Append(T, e), Tail(Q), W, r)
    BY <2>1, <2>2 DEF Moved
  <2> QED
    BY <1>1, <1>2, <2>3, AccountMoves
<1>6. Account(T, Tail(Q), Append(W, e), r, s, u, l)
  <2>1. /\ Cardinality(Of(T, r)) <= Cardinality(Of(T, r))
        /\ Cardinality(Of(T, r)) + Cardinality(Of(Tail(Q), r)) + Cardinality(Of(Append(W, e), r))
               <= Cardinality(Of(T, r)) + Cardinality(Of(Q, r)) + Cardinality(Of(W, r))
    BY <1>1, <1>2, <1>3, <1>4
  <2>2. Pairs(T, r) \cup Pairs(Tail(Q), r) \cup Pairs(Append(W, e), r)
            \subseteq Pairs(T, r) \cup Pairs(Q, r) \cup Pairs(W, r)
    BY <1>1, <1>2
  <2>3. Moved(T, Q, W, T, Tail(Q), Append(W, e), r)
    BY <2>1, <2>2 DEF Moved
  <2> QED
    BY <1>1, <1>2, <2>3, AccountMoves
<1> QED
  BY <1>5, <1>6 DEF e

\* The first message on the wire reaches the topic, or never does.
LEMMA AccountArrive ==
    ASSUME NEW T \in Seq(Event), NEW Q \in Seq(Event), NEW W \in Seq(Event), W # <<>>,
           NEW r, NEW s, NEW u, NEW l, Account(T, Q, W, r, s, u, l)
    PROVE  /\ Account(Append(T, Head(W)), Q, Tail(W), r, s, u, l)
           /\ Account(T, Q, Tail(W), r, s, u, l)
<1> DEFINE e == Head(W)
           d == IF e.run = r THEN 1 ELSE 0
           p == IF e.run = r THEN {<<e.txn, e.ts>>} ELSE {}
<1>1. /\ e \in Event /\ Tail(W) \in Seq(Event)
      /\ Cardinality(Of(W, r)) = Cardinality(Of(Tail(W), r)) + d
      /\ Pairs(W, r) = Pairs(Tail(W), r) \cup p
  BY OfTail
<1>2. /\ Append(T, e) \in Seq(Event)
      /\ Cardinality(Of(Append(T, e), r)) = Cardinality(Of(T, r)) + d
      /\ Pairs(Append(T, e), r) = Pairs(T, r) \cup p
  BY <1>1, OfAppend
<1>3. d \in {0, 1}
  OBVIOUS
<1> HIDE DEF d, p, e
<1>4. /\ Cardinality(Of(T, r)) \in Nat /\ Cardinality(Of(Q, r)) \in Nat
      /\ Cardinality(Of(Tail(W), r)) \in Nat
  BY <1>1, OfFinite
<1>5. Account(Append(T, e), Q, Tail(W), r, s, u, l)
  <2>1. /\ Cardinality(Of(T, r)) <= Cardinality(Of(Append(T, e), r))
        /\ Cardinality(Of(Append(T, e), r)) + Cardinality(Of(Q, r)) + Cardinality(Of(Tail(W), r))
               <= Cardinality(Of(T, r)) + Cardinality(Of(Q, r)) + Cardinality(Of(W, r))
    BY <1>1, <1>2, <1>3, <1>4
  <2>2. /\ Pairs(T, r) \subseteq Pairs(Append(T, e), r)
        /\ Pairs(Append(T, e), r) \cup Pairs(Q, r) \cup Pairs(Tail(W), r)
               \subseteq Pairs(T, r) \cup Pairs(Q, r) \cup Pairs(W, r)
    BY <1>1, <1>2
  <2>3. Moved(T, Q, W, Append(T, e), Q, Tail(W), r)
    BY <2>1, <2>2 DEF Moved
  <2> QED
    BY <1>1, <1>2, <2>3, AccountMoves
<1>6. Account(T, Q, Tail(W), r, s, u, l)
  <2>1. /\ Cardinality(Of(T, r)) <= Cardinality(Of(T, r))
        /\ Cardinality(Of(T, r)) + Cardinality(Of(Q, r)) + Cardinality(Of(Tail(W), r))
               <= Cardinality(Of(T, r)) + Cardinality(Of(Q, r)) + Cardinality(Of(W, r))
    BY <1>1, <1>3, <1>4
  <2>2. Pairs(T, r) \cup Pairs(Q, r) \cup Pairs(Tail(W), r)
            \subseteq Pairs(T, r) \cup Pairs(Q, r) \cup Pairs(W, r)
    BY <1>1
  <2>3. Moved(T, Q, W, T, Q, Tail(W), r)
    BY <2>1, <2>2 DEF Moved
  <2> QED
    BY <1>1, <1>2, <2>3, AccountMoves
<1> QED
  BY <1>5, <1>6 DEF e

\* A process ends, and what its client holds goes onto the wire.
LEMMA AccountExit ==
    ASSUME NEW T \in Seq(Event), NEW Q \in Seq(Event), NEW W \in Seq(Event),
           NEW r, NEW s, NEW u, NEW l, Account(T, Q, W, r, s, u, l)
    PROVE  Account(T, <<>>, W \o Q, r, s, u, l)
<1>1. /\ W \o Q \in Seq(Event) /\ <<>> \in Seq(Event)
      /\ Cardinality(Of(W \o Q, r)) = Cardinality(Of(W, r)) + Cardinality(Of(Q, r))
      /\ Pairs(W \o Q, r) = Pairs(W, r) \cup Pairs(Q, r)
  BY OfConcat, EmptySeq
<1>2. Cardinality(Of(<<>>, r)) = 0 /\ Pairs(<<>>, r) = {}
  BY OfEmpty, FS_EmptySet
<1>3. /\ Cardinality(Of(T, r)) \in Nat /\ Cardinality(Of(Q, r)) \in Nat
      /\ Cardinality(Of(W, r)) \in Nat
  BY OfFinite
<1>4. /\ Cardinality(Of(T, r)) <= Cardinality(Of(T, r))
      /\ Cardinality(Of(T, r)) + Cardinality(Of(<<>>, r)) + Cardinality(Of(W \o Q, r))
             <= Cardinality(Of(T, r)) + Cardinality(Of(Q, r)) + Cardinality(Of(W, r))
  BY <1>1, <1>2, <1>3
<1>5. Pairs(T, r) \cup Pairs(<<>>, r) \cup Pairs(W \o Q, r)
          \subseteq Pairs(T, r) \cup Pairs(Q, r) \cup Pairs(W, r)
  BY <1>1, <1>2
<1>6. Moved(T, Q, W, T, <<>>, W \o Q, r)
  BY <1>4, <1>5 DEF Moved
<1> QED
  BY <1>1, <1>6, AccountMoves

-----------------------------------------------------------------------------
(* The invariant of a run *)

\* What the topic and the client hold of the run under way.
RunPairs == Pairs(log, runs) \cup Pairs(queue, runs)

\* Until flush() returns, the counters of a run whose deliveries have not failed are those of
\* the topic and the client together, and the rows it has still to send are of other
\* transactions.
CountersInv ==
    /\ Cardinality(Of(wire, runs)) = 0
    /\ Cardinality(Of(log, runs)) + Cardinality(Of(queue, runs)) = sent
    /\ Cardinality(RunPairs) = sent - duplicates
    /\ \A p \in RunPairs : \A i \in 1 .. Len(toSend) : toSend[i] # p[1]

\* From then on they account for the topic, as the statistics written do.
RunInv ==
    /\ \A i \in 1 .. Len(log) : log[i].run <= runs
    /\ \A i \in 1 .. Len(wire) : wire[i].run <= runs
    /\ \A i \in 1 .. Len(queue) : queue[i].run = runs
    /\ producing =>
        /\ stats # None => stats.run < runs
        /\ \A i, j \in 1 .. Len(toSend) : toSend[i] = toSend[j] => i = j
        /\ ~failed /\ remaining = None => CountersInv
        /\ ~failed /\ remaining # None =>
              Account(log, queue, wire, runs, sent, sent - duplicates, remaining)
    /\ ~producing => ~failed /\ sent = 0 /\ duplicates = 0
    /\ stats # None => Account(log, queue, wire, stats.run, stats.sent, stats.unique, left)

LEMMA RunTyped ==
    ASSUME Typed
    PROVE  /\ Len(log) \in Nat /\ Len(queue) \in Nat /\ Len(wire) \in Nat
           /\ Len(toSend) \in Nat /\ runs \in Nat
           /\ log \in Seq(Event) /\ queue \in Seq(Event) /\ wire \in Seq(Event)
           /\ toSend \in Seq(Txns)
           /\ sent \in Nat /\ duplicates \in Nat /\ duplicates <= sent
           /\ \A i \in 1 .. Len(log) : log[i] \in Event
           /\ \A i \in 1 .. Len(queue) : queue[i] \in Event
           /\ \A i \in 1 .. Len(wire) : wire[i] \in Event
           /\ \A e \in Event : e.run \in Nat
           /\ stats # None => stats.run \in Nat /\ stats.run <= runs
<1>1. /\ log \in Seq(Event) /\ queue \in Seq(Event) /\ wire \in Seq(Event)
      /\ toSend \in Seq(Txns)
      /\ runs \in Nat /\ sent \in Nat /\ duplicates \in Nat /\ duplicates <= sent
      /\ stats # None => stats.run \in Nat /\ stats.run <= runs
  BY DEF Typed, TypeOK, ProducerTypeOK, RunOK
<1>2. \A e \in Event : e.run \in Nat
  BY ProducerAssumption DEF Event
<1>3. /\ Len(log) \in Nat /\ Len(queue) \in Nat /\ Len(wire) \in Nat /\ Len(toSend) \in Nat
      /\ \A i \in 1 .. Len(log) : log[i] \in Event
      /\ \A i \in 1 .. Len(queue) : queue[i] \in Event
      /\ \A i \in 1 .. Len(wire) : wire[i] \in Event
  BY <1>1, LenProperties, ElementOfSeq
<1> QED
  BY <1>1, <1>2, <1>3

\* A sequence of messages of other runs has none of this one.
LEMMA OfOthers ==
    ASSUME NEW s, NEW r, \A i \in 1 .. Len(s) : s[i].run # r
    PROVE  Of(s, r) = {} /\ Pairs(s, r) = {} /\ Cardinality(Of(s, r)) = 0
<1>1. Of(s, r) = {}
  BY DEF Of
<1>2. Pairs(s, r) = {}
  BY <1>1 DEF Pairs
<1> QED
  BY <1>1, <1>2, FS_EmptySet

-----------------------------------------------------------------------------
(* The steps of a run *)

\* A new run: nothing of it is anywhere yet, and no transaction is twice in its source.
LEMMA CountersStart ==
    ASSUME Typed, RunInv, StartProducer
    PROVE  RunInv'
<1>1. /\ ~producing /\ runs' = runs + 1 /\ producing'
      /\ UNCHANGED <<curated, log, queue, wire, failed, sent, duplicates, stats, remaining, left>>
      /\ queue = <<>> /\ failed = FALSE /\ sent = 0 /\ duplicates = 0 /\ remaining = None
  BY DEF StartProducer, RunInv, Typed, RunOK, TypeOK, ProducerTypeOK
<1>2. /\ \A i \in 1 .. Len(log) : log[i].run # runs' /\ log[i].run <= runs'
      /\ \A i \in 1 .. Len(wire) : wire[i].run # runs' /\ wire[i].run <= runs'
      /\ \A i \in 1 .. Len(queue) : FALSE
  <2>1. \A i \in 1 .. Len(log) : log[i].run \in Nat /\ log[i].run <= runs
    BY RunTyped DEF RunInv
  <2>2. \A i \in 1 .. Len(wire) : wire[i].run \in Nat /\ wire[i].run <= runs
    BY RunTyped DEF RunInv
  <2>3. 1 .. Len(queue) = {}
    BY <1>1
  <2> QED
    BY <1>1, <2>1, <2>2, <2>3, RunTyped
<1>3. /\ Cardinality(Of(log, runs')) = 0 /\ Pairs(log, runs') = {}
      /\ Cardinality(Of(wire, runs')) = 0
      /\ Cardinality(Of(queue, runs')) = 0 /\ Pairs(queue, runs') = {}
  BY <1>2, OfOthers
<1>4. CountersInv'
  <2>1. RunPairs' = {}
    BY <1>1, <1>3 DEF RunPairs
  <2> QED
    BY <1>1, <1>3, <2>1, FS_EmptySet DEF CountersInv
<1>5. \A i, j \in 1 .. Len(toSend') : toSend'[i] = toSend'[j] => i = j
  <2>1. PICK skip \in 0 .. 1 : toSend' = Source(skip)
    BY DEF StartProducer
  <2>2. /\ curated \in Seq(Txns) /\ Len(curated) \in Nat /\ Limit \in Nat
        /\ \A i, j \in 1 .. Len(curated) : curated[i] = curated[j] => i = j
    BY ProducerAssumption, LenProperties DEF Typed, TypeOK, ProducerTypeOK
  <2> DEFINE n == IF skip + Limit < Len(curated) THEN skip + Limit ELSE Len(curated)
  <2>3. \A i \in skip + 1 .. n : i \in 1 .. Len(curated)
    BY <2>2
  <2>4. n \in Nat /\ n <= Len(curated)
    BY <2>2
  <2>5. toSend' = SubSeq(curated, skip + 1, n)
    BY <2>1 DEF Source
  <2> HIDE DEF n
  <2>6. /\ Len(toSend') = IF skip + 1 <= n THEN n - skip ELSE 0
        /\ \A i \in 1 .. n - skip : toSend'[i] = curated[skip + i]
    BY <2>2, <2>3, <2>4, <2>5, SubSeqProperties
  <2>7. ASSUME NEW i \in 1 .. Len(toSend'), NEW j \in 1 .. Len(toSend'), toSend'[i] = toSend'[j]
        PROVE  i = j
    <3>1. /\ i \in 1 .. n - skip /\ j \in 1 .. n - skip
          /\ skip + i \in 1 .. Len(curated) /\ skip + j \in 1 .. Len(curated)
      BY <2>2, <2>4, <2>6
    <3>2. skip + i = skip + j
      BY <2>2, <2>6, <2>7, <3>1
    <3> QED
      BY <3>1, <3>2
  <2> QED
    BY <2>7
<1>6. stats' # None => stats'.run < runs'
  BY <1>1, RunTyped
<1>7. stats # None => Account(log, queue, wire, stats.run, stats.sent, stats.unique, left)
  BY DEF RunInv
<1> QED
  BY <1>1, <1>2, <1>4, <1>5, <1>6, <1>7 DEF RunInv

\* A row sent once or twice is one transaction more, with one event time.
LEMMA CountersSend ==
    ASSUME Typed, RunInv, Send
    PROVE  RunInv'
<1>1. /\ producing /\ toSend # <<>> /\ toSend' = Tail(toSend) /\ remaining = None
      /\ UNCHANGED <<log, wire, failed, stats, producing, remaining, runs, left>>
  BY DEF Send, Typed, RunOK
<1>2. PICK ts \in Times :
        LET e == [txn |-> Head(toSend), ts |-> ts, run |-> runs] IN
        \E batch \in {<<e>>} \cup Redelivery(e) :
          /\ queue' = queue \o batch
          /\ sent' = sent + Len(batch)
          /\ duplicates' = duplicates + Len(batch) - 1
  BY DEF Send
<1> DEFINE e == [txn |-> Head(toSend), ts |-> ts, run |-> runs]
<1>3. PICK batch \in {<<e>>, <<e, e>>} :
          /\ queue' = queue \o batch
          /\ sent' = sent + Len(batch)
          /\ duplicates' = duplicates + Len(batch) - 1
  BY <1>2 DEF Redelivery
<1>4. /\ Head(toSend) = toSend[1] /\ Len(toSend) > 0 /\ Head(toSend) \in Txns
      /\ Len(toSend') = Len(toSend) - 1
      /\ \A i \in 1 .. Len(toSend') : toSend'[i] = toSend[i + 1]
  BY <1>1, RunTyped, HeadTailProperties
<1>5. e \in Event /\ e.txn = toSend[1] /\ e.ts = ts /\ e.run = runs
  <2>1. runs \in 1 .. MaxRuns
    BY <1>1 DEF Typed, TypeOK, ProducerTypeOK, RunOK
  <2> QED
    BY <1>4, <2>1 DEF Event
<1> HIDE DEF e
<1>6. /\ batch \in Seq(Event) /\ Len(batch) \in {1, 2} /\ 1 \in 1 .. Len(batch)
      /\ \A i \in 1 .. Len(batch) : batch[i] = e
  <2>1. CASE batch = <<e>>
    BY <1>5, <2>1
  <2>2. CASE batch = <<e, e>>
    BY <1>5, <2>2
  <2> QED
    BY <1>3, <2>1, <2>2
<1>7. Cardinality(Of(batch, runs)) = Len(batch) /\ Pairs(batch, runs) = {<<toSend[1], ts>>}
  <2>1. Of(batch, runs) = 1 .. Len(batch)
    BY <1>5, <1>6 DEF Of
  <2>2. Cardinality(1 .. Len(batch)) = Len(batch)
    BY <1>6, FS_Interval
  <2>3. Pairs(batch, runs) = {<<toSend[1], ts>>}
    BY <1>5, <1>6, <2>1 DEF Pairs
  <2> QED
    BY <2>1, <2>2, <2>3
<1>8. /\ queue' \in Seq(Event)
      /\ \A r : /\ Cardinality(Of(queue', r)) = Cardinality(Of(queue, r)) + Cardinality(Of(batch, r))
                /\ Pairs(queue', r) = Pairs(queue, r) \cup Pairs(batch, r)
  BY <1>3, <1>6, RunTyped, OfConcat
<1>9. \A i \in 1 .. Len(queue') : queue'[i].run = runs
  <2>1. /\ Len(queue') = Len(queue) + Len(batch)
        /\ \A i \in 1 .. Len(queue) + Len(batch) :
             queue'[i] = IF i <= Len(queue) THEN queue[i] ELSE batch[i - Len(queue)]
    BY <1>3, <1>6, RunTyped, ConcatProperties
  <2>2. \A i \in 1 .. Len(queue) + Len(batch) :
            i \in 1 .. Len(queue) \/ (~(i <= Len(queue)) /\ i - Len(queue) \in 1 .. Len(batch))
    BY <1>6, RunTyped
  <2>3. \A i \in 1 .. Len(queue) : i <= Len(queue)
    BY RunTyped
  <2> QED
    BY <1>5, <1>6, <2>1, <2>2, <2>3 DEF RunInv
<1>10. /\ \A i \in 1 .. Len(toSend') : i + 1 \in 1 .. Len(toSend) /\ i + 1 # 1
       /\ 1 \in 1 .. Len(toSend)
  BY <1>4, RunTyped
<1>11. \A i, j \in 1 .. Len(toSend') : toSend'[i] = toSend'[j] => i = j
  <2> SUFFICES ASSUME NEW i \in 1 .. Len(toSend'), NEW j \in 1 .. Len(toSend'),
                      toSend'[i] = toSend'[j]
               PROVE  i = j
    OBVIOUS
  <2>1. i + 1 = j + 1
    BY <1>1, <1>4, <1>10 DEF RunInv
  <2> QED
    BY <2>1
<1>12. ASSUME ~failed
       PROVE  CountersInv'
  <2>1. CountersInv
    BY <1>1, <1>12 DEF RunInv
  <2>2. RunPairs' = RunPairs \cup {<<toSend[1], ts>>}
    BY <1>1, <1>7, <1>8 DEF RunPairs
  <2>3. <<toSend[1], ts>> \notin RunPairs
    BY <1>10, <2>1 DEF CountersInv
  <2>4. Cardinality(RunPairs') = Cardinality(RunPairs) + 1
    <3>1. IsFiniteSet(RunPairs)
      BY RunTyped, OfFinite, FS_Union DEF RunPairs
    <3> QED
      BY <2>2, <2>3, <3>1, FS_AddElement
  <2>5. Cardinality(RunPairs') = sent' - duplicates'
    BY <1>3, <1>6, <2>1, <2>4, RunTyped DEF CountersInv
  <2>6. Cardinality(Of(log, runs))' + Cardinality(Of(queue, runs))' = sent'
    <3>1. Cardinality(Of(log, runs)) \in Nat /\ Cardinality(Of(queue, runs)) \in Nat
      BY RunTyped, OfFinite
    <3>2. Cardinality(Of(queue', runs)) = Cardinality(Of(queue, runs)) + Len(batch)
      BY <1>7, <1>8
    <3> QED
      BY <1>1, <1>3, <1>6, <2>1, <3>1, <3>2, RunTyped DEF CountersInv
  <2>7. \A p \in RunPairs' : \A i \in 1 .. Len(toSend') : toSend'[i] # p[1]
    <3> SUFFICES ASSUME NEW p \in RunPairs', NEW i \in 1 .. Len(toSend')
                 PROVE  toSend'[i] # p[1]
      OBVIOUS
    <3>1. toSend'[i] = toSend[i + 1] /\ i + 1 \in 1 .. Len(toSend) /\ i + 1 # 1
      BY <1>4, <1>10
    <3>2. CASE p \in RunPairs
      BY <2>1, <3>1, <3>2 DEF CountersInv
    <3>3. CASE p = <<toSend[1], ts>>
      BY <1>1, <1>10, <3>1, <3>3 DEF RunInv
    <3> QED
      BY <2>2, <3>2, <3>3
  <2>8. Cardinality(Of(wire, runs))' = 0
    BY <1>1, <2>1 DEF CountersInv
  <2> QED
    BY <2>5, <2>6, <2>7, <2>8 DEF CountersInv
<1>13. ASSUME stats # None
       PROVE  Account(log, queue', wire, stats.run, stats.sent, stats.unique, left)
  <2> DEFINE r == stats.run
  <2>1. r # runs /\ Account(log, queue, wire, r, stats.sent, stats.unique, left)
    <3>1. stats.run < runs /\ stats.run \in Nat /\ runs \in Nat
      BY <1>1, <1>13, RunTyped DEF RunInv
    <3> QED
      BY <1>13, <3>1 DEF RunInv
  <2> HIDE DEF r
  <2>2. Cardinality(Of(batch, r)) = 0 /\ Pairs(batch, r) = {}
    <3>1. \A i \in 1 .. Len(batch) : batch[i].run # r
      BY <1>5, <1>6, <2>1
    <3> QED
      BY <3>1, OfOthers
  <2>3. Cardinality(Of(queue', r)) = Cardinality(Of(queue, r)) /\ Pairs(queue', r) = Pairs(queue, r)
    <3>1. Cardinality(Of(queue, r)) \in Nat
      BY RunTyped, OfFinite
    <3>2. /\ Cardinality(Of(queue', r)) = Cardinality(Of(queue, r)) + Cardinality(Of(batch, r))
          /\ Pairs(queue', r) = Pairs(queue, r) \cup Pairs(batch, r)
      BY <1>8
    <3>3. Cardinality(Of(queue', r)) = Cardinality(Of(queue, r))
      BY <2>2, <3>1, <3>2
    <3>4. Pairs(queue', r) = Pairs(queue, r)
      BY <2>2, <3>2
    <3> QED
      BY <3>3, <3>4
  <2>4. Moved(log, queue, wire, log, queue', wire, r)
    <3>1. /\ Cardinality(Of(log, r)) \in Nat /\ Cardinality(Of(queue, r)) \in Nat
          /\ Cardinality(Of(wire, r)) \in Nat
      BY RunTyped, OfFinite
    <3> QED
      BY <2>3, <3>1 DEF Moved
  <2> QED
    BY <1>8, <2>1, <2>4, RunTyped, AccountMoves DEF r
<1> QED
  BY <1>1, <1>9, <1>11, <1>12, <1>13 DEF RunInv

\* The messages and pairs of the run under way when the client's first one moves on.
LEMMA RunMoves ==
    ASSUME Typed, RunInv, queue # <<>>
    PROVE  /\ Head(queue) \in Event /\ Head(queue).run = runs /\ producing
           /\ Tail(queue) \in Seq(Event)
           /\ \A i \in 1 .. Len(Tail(queue)) : Tail(queue)[i].run = runs
           /\ \A s \in Seq(Event) : (\A i \in 1 .. Len(s) : s[i].run <= runs) =>
                 /\ Append(s, Head(queue)) \in Seq(Event)
                 /\ \A i \in 1 .. Len(Append(s, Head(queue))) :
                        Append(s, Head(queue))[i].run <= runs
<1> DEFINE e == Head(queue)
<1>1. /\ e \in Event /\ Tail(queue) \in Seq(Event) /\ e = queue[1] /\ 1 \in 1 .. Len(queue)
  BY RunTyped, OfTail
<1>2. e.run = runs /\ producing
  BY <1>1 DEF RunInv, Typed, RunOK
<1>3. \A i \in 1 .. Len(Tail(queue)) : Tail(queue)[i].run = runs
  <2>1. /\ Len(queue) \in Nat /\ Len(Tail(queue)) = Len(queue) - 1
        /\ \A i \in 1 .. Len(Tail(queue)) : Tail(queue)[i] = queue[i + 1]
    BY RunTyped, HeadTailProperties
  <2>2. \A i \in 1 .. Len(Tail(queue)) : i + 1 \in 1 .. Len(queue)
    BY <2>1
  <2> QED
    BY <2>1, <2>2 DEF RunInv
<1> HIDE DEF e
<1>4. ASSUME NEW s \in Seq(Event), \A i \in 1 .. Len(s) : s[i].run <= runs
      PROVE  /\ Append(s, e) \in Seq(Event)
             /\ \A i \in 1 .. Len(Append(s, e)) : Append(s, e)[i].run <= runs
  <2>1. /\ Len(s) \in Nat /\ Append(s, e) \in Seq(Event)
        /\ Len(Append(s, e)) = Len(s) + 1 /\ Append(s, e)[Len(s) + 1] = e
        /\ \A i \in 1 .. Len(s) : Append(s, e)[i] = s[i]
    BY <1>1, LenProperties, AppendProperties
  <2>2. \A i \in 1 .. Len(s) + 1 : i \in 1 .. Len(s) \/ i = Len(s) + 1
    BY <2>1
  <2>3. runs <= runs
    BY RunTyped
  <2> QED
    BY <1>2, <1>4, <2>1, <2>2, <2>3
<1> QED
  BY <1>1, <1>2, <1>3, <1>4 DEF e

\* A message that reaches the topic leaves the client: of the run, none is gained or lost.
LEMMA CountersDeliver ==
    ASSUME Typed, RunInv, Deliver
    PROVE  RunInv'
<1> DEFINE e == Head(queue)
<1>1. /\ queue # <<>> /\ log' = Append(log, e) /\ queue' = Tail(queue)
      /\ UNCHANGED <<toSend, wire, failed, sent, duplicates, stats, producing, remaining, runs,
                     left>>
  BY DEF Deliver
<1>2. /\ e \in Event /\ e.run = runs /\ producing /\ Tail(queue) \in Seq(Event)
      /\ \A i \in 1 .. Len(queue') : queue'[i].run = runs
      /\ \A i \in 1 .. Len(log') : log'[i].run <= runs
  BY <1>1, RunMoves, RunTyped DEF RunInv
<1>3. /\ Cardinality(Of(queue, runs)) = Cardinality(Of(Tail(queue), runs)) + 1
      /\ Pairs(queue, runs) = Pairs(Tail(queue), runs) \cup {<<e.txn, e.ts>>}
      /\ Cardinality(Of(Append(log, e), runs)) = Cardinality(Of(log, runs)) + 1
      /\ Pairs(Append(log, e), runs) = Pairs(log, runs) \cup {<<e.txn, e.ts>>}
  BY <1>1, <1>2, RunTyped, OfTail, OfAppend
<1>4. \A r, s, u, l : Account(log, queue, wire, r, s, u, l)
                          => Account(log', queue', wire', r, s, u, l)
  BY <1>1, RunTyped, AccountDeliver
<1> HIDE DEF e
<1>5. CountersInv => CountersInv'
  <2> SUFFICES ASSUME CountersInv
               PROVE  CountersInv'
    OBVIOUS
  <2>1. RunPairs' = RunPairs
    BY <1>1, <1>3 DEF RunPairs
  <2>2. Cardinality(Of(log, runs))' + Cardinality(Of(queue, runs))' = sent'
    <3>1. Cardinality(Of(log, runs)) \in Nat /\ Cardinality(Of(Tail(queue), runs)) \in Nat
      BY <1>2, RunTyped, OfFinite
    <3> QED
      BY <1>1, <1>3, <3>1 DEF CountersInv
  <2> QED
    BY <1>1, <2>1, <2>2 DEF CountersInv
<1> QED
  BY <1>1, <1>2, <1>4, <1>5 DEF RunInv

\* A failed delivery stops the counters from being trusted, while anybody asks; what flush()
\* left stays accounted for.
LEMMA CountersFail ==
    ASSUME Typed, RunInv, DeliveryFails
    PROVE  RunInv'
<1> DEFINE e == Head(queue)
<1>1. /\ queue # <<>> /\ wire' = Append(wire, e) /\ queue' = Tail(queue)
      /\ failed' = (failed \/ remaining = None)
      /\ UNCHANGED <<log, toSend, sent, duplicates, stats, producing, remaining, runs, left>>
  BY DEF DeliveryFails
<1>2. /\ producing
      /\ \A i \in 1 .. Len(queue') : queue'[i].run = runs
      /\ \A i \in 1 .. Len(wire') : wire'[i].run <= runs
  BY <1>1, RunMoves, RunTyped DEF RunInv
<1>3. \A r, s, u, l : Account(log, queue, wire, r, s, u, l)
                          => Account(log', queue', wire', r, s, u, l)
  BY <1>1, RunTyped, AccountDeliver
<1> QED
  BY <1>1, <1>2, <1>3 DEF RunInv

\* A message nobody waits for is none that the counters of a running, trusted run still count.
LEMMA CountersArrive ==
    ASSUME Typed, RunInv, Arrive
    PROVE  RunInv'
<1> DEFINE e == Head(wire)
           d == IF e.run = runs THEN 1 ELSE 0
           p == IF e.run = runs THEN {<<e.txn, e.ts>>} ELSE {}
<1>1. /\ wire # <<>>
      /\ log' = log \/ log' = Append(log, e)
      /\ UNCHANGED <<toSend, queue, failed, sent, duplicates, stats, producing, remaining, runs,
                     left>>
  BY DEF Arrive
<1>2. wire' = Tail(wire)
  BY DEF Arrive
<1>3. /\ e \in Event /\ Tail(wire) \in Seq(Event) /\ e = wire[1] /\ 1 \in 1 .. Len(wire)
      /\ Cardinality(Of(wire, runs)) = Cardinality(Of(Tail(wire), runs)) + d
      /\ Cardinality(Of(Append(log, e), runs)) = Cardinality(Of(log, runs)) + d
      /\ Pairs(Append(log, e), runs) = Pairs(log, runs) \cup p
  BY <1>1, RunTyped, OfTail, OfAppend
<1>4. \A r, s, u, l : Account(log, queue, wire, r, s, u, l)
                          => Account(log', queue', wire', r, s, u, l)
  BY <1>1, <1>2, RunTyped, AccountArrive
<1>5. e.run <= runs
  BY <1>3 DEF RunInv
<1>6. d \in {0, 1} /\ (d = 0 => p = {})
  OBVIOUS
<1> HIDE DEF e, d, p
<1>7. \A i \in 1 .. Len(wire') : wire'[i].run <= runs
  <2>1. /\ Len(wire) \in Nat /\ Len(Tail(wire)) = Len(wire) - 1
        /\ \A i \in 1 .. Len(Tail(wire)) : Tail(wire)[i] = wire[i + 1]
    BY <1>1, RunTyped, HeadTailProperties
  <2>2. \A i \in 1 .. Len(Tail(wire)) : i + 1 \in 1 .. Len(wire)
    BY <2>1
  <2> QED
    BY <1>2, <2>1, <2>2 DEF RunInv
<1>8. \A i \in 1 .. Len(log') : log'[i].run <= runs
  <2>1. CASE log' = log
    BY <2>1 DEF RunInv
  <2>2. CASE log' = Append(log, e)
    <3>1. /\ Len(log) \in Nat /\ Len(log') = Len(log) + 1 /\ log'[Len(log) + 1] = e
          /\ \A i \in 1 .. Len(log) : log'[i] = log[i]
      BY <1>3, <2>2, RunTyped, AppendProperties
    <3>2. \A i \in 1 .. Len(log') : i \in 1 .. Len(log) \/ i = Len(log) + 1
      BY <3>1
    <3> QED
      BY <1>5, <3>1, <3>2 DEF RunInv
  <2> QED
    BY <1>1, <2>1, <2>2
<1>9. CountersInv => CountersInv'
  <2> SUFFICES ASSUME CountersInv
               PROVE  CountersInv'
    OBVIOUS
  <2>1. Cardinality(Of(Tail(wire), runs)) \in Nat /\ Cardinality(Of(log, runs)) \in Nat
    BY <1>3, RunTyped, OfFinite
  <2>2. d = 0 /\ p = {} /\ Cardinality(Of(Tail(wire), runs)) = 0
    BY <1>3, <1>6, <2>1 DEF CountersInv
  <2>3. Cardinality(Of(log', runs)) = Cardinality(Of(log, runs)) /\ Pairs(log', runs) = Pairs(log, runs)
    <3>1. CASE log' = log
      BY <3>1
    <3>2. CASE log' = Append(log, e)
      <4>1. Cardinality(Of(log', runs)) = Cardinality(Of(log, runs)) + 0
        BY <1>3, <2>2, <3>2
      <4>2. Pairs(log', runs) = Pairs(log, runs) \cup {}
        BY <1>3, <2>2, <3>2
      <4>3. Cardinality(Of(log, runs)) + 0 = Cardinality(Of(log, runs))
        BY <2>1
      <4> QED
        BY <4>1, <4>2, <4>3
    <3> QED
      BY <1>1, <3>1, <3>2
  <2>4. RunPairs' = RunPairs
    BY <1>1, <2>3 DEF RunPairs
  <2> QED
    BY <1>1, <1>2, <2>2, <2>3, <2>4 DEF CountersInv
<1> QED
  BY <1>1, <1>4, <1>7, <1>8, <1>9 DEF RunInv

\* When flush() returns the counters account for the topic, but for what is in the queue.
LEMMA CountersFlush ==
    ASSUME Typed, RunInv, FlushReturns
    PROVE  RunInv'
<1>1. /\ producing /\ remaining = None /\ remaining' = Len(queue) /\ remaining' # None
      /\ UNCHANGED <<log, toSend, queue, wire, failed, sent, duplicates, stats, producing, runs,
                     left>>
  BY RunTyped, ScoringAssumption DEF FlushReturns
<1>2. ASSUME CountersInv
      PROVE  Account(log, queue, wire, runs, sent, sent - duplicates, Len(queue))
  <2>1. Cardinality(Of(queue, runs)) = Len(queue)
    <3>1. Of(queue, runs) = 1 .. Len(queue)
      BY DEF Of, RunInv
    <3>2. Cardinality(1 .. Len(queue)) = Len(queue)
      <4>1. Len(queue) \in Nat
        BY RunTyped
      <4>2. Cardinality(1 .. Len(queue)) = IF 1 > Len(queue) THEN 0 ELSE Len(queue) - 1 + 1
        BY <4>1, FS_Interval
      <4> QED
        BY <4>1, <4>2
    <3> QED
      BY <3>1, <3>2
  <2>2. /\ Cardinality(Of(log, runs)) \in Nat
        /\ IsFiniteSet(Pairs(log, runs)) /\ Cardinality(Pairs(log, runs)) \in Nat
        /\ IsFiniteSet(Pairs(queue, runs)) /\ Cardinality(Pairs(queue, runs)) \in Nat
        /\ Cardinality(Pairs(queue, runs)) <= Len(queue)
        /\ Cardinality(Pairs(wire, runs)) \in Nat /\ IsFiniteSet(Pairs(wire, runs))
        /\ Cardinality(Pairs(wire, runs)) <= 0
    BY <1>2, <2>1, RunTyped, OfFinite DEF CountersInv
  <2>3. Pairs(log, runs) \cup Pairs(queue, runs) \cup Pairs(wire, runs) = RunPairs
    <3>1. Pairs(wire, runs) = {}
      BY <2>2, FS_EmptySet
    <3> QED
      BY <3>1 DEF RunPairs
  <2>4. Cardinality(RunPairs) <= Cardinality(Pairs(log, runs)) + Len(queue)
    <3>1. Cardinality(RunPairs) = Cardinality(Pairs(log, runs)) + Cardinality(Pairs(queue, runs))
                                    - Cardinality(Pairs(log, runs) \cap Pairs(queue, runs))
      BY <2>2, FS_Union DEF RunPairs
    <3>2. Cardinality(Pairs(log, runs) \cap Pairs(queue, runs)) \in Nat
      <4>1. Pairs(log, runs) \cap Pairs(queue, runs) \in SUBSET Pairs(log, runs)
        OBVIOUS
      <4> QED
        BY <2>2, <4>1, FS_Subset, FS_CardinalityType
    <3> QED
      BY <2>2, <3>1, <3>2, RunTyped
  <2>5. sent \in Nat /\ sent - duplicates \in Nat /\ Len(queue) \in Nat
    BY RunTyped
  <2>6. Cardinality(Of(log, runs)) + Len(queue) = sent /\ Cardinality(Of(wire, runs)) = 0
        /\ Cardinality(RunPairs) = sent - duplicates
    BY <1>2, <2>1 DEF CountersInv
  <2>7. sent - Len(queue) <= Cardinality(Of(log, runs))
    BY <2>2, <2>5, <2>6
  <2>8. Cardinality(Of(log, runs)) + Cardinality(Of(queue, runs)) + Cardinality(Of(wire, runs)) <= sent
    BY <2>1, <2>2, <2>5, <2>6
  <2>9. (sent - duplicates) - Len(queue) <= Cardinality(Pairs(log, runs))
    BY <2>2, <2>4, <2>5, <2>6
  <2>10. Cardinality(Pairs(log, runs) \cup Pairs(queue, runs) \cup Pairs(wire, runs)) <= sent - duplicates
    <3>1. Cardinality(Pairs(log, runs) \cup Pairs(queue, runs) \cup Pairs(wire, runs))
              = sent - duplicates
      BY <2>3, <2>6
    <3> QED
      BY <2>5, <3>1
  <2> QED
    BY <2>5, <2>7, <2>8, <2>9, <2>10 DEF Account
<1> QED
  BY <1>1, <1>2 DEF RunInv

\* The end of a run clears its counters; the statistics it writes account for the topic.
LEMMA CountersEnd ==
    ASSUME Typed, RunInv, Finish \/ KillProducer
    PROVE  RunInv'
<1>1. /\ producing /\ UNCHANGED <<log, runs>> /\ Exit
      /\ \/ UNCHANGED <<stats, left>>
         \/ stats' = Statistics /\ left' = remaining /\ ~failed /\ remaining # None
  BY DEF Finish, KillProducer
<1>2. /\ producing' = FALSE /\ failed' = FALSE /\ sent' = 0 /\ duplicates' = 0
      /\ queue' = <<>> /\ wire' = wire \o queue /\ log' = log /\ runs' = runs
  BY <1>1 DEF Exit
<1>3. 1 .. Len(queue') = {}
  BY <1>2
<1>4. \A i \in 1 .. Len(wire') : wire'[i].run <= runs
  <2>1. /\ Len(wire') = Len(wire) + Len(queue)
        /\ \A i \in 1 .. Len(wire) + Len(queue) :
             wire'[i] = IF i <= Len(wire) THEN wire[i] ELSE queue[i - Len(wire)]
    BY <1>2, RunTyped, ConcatProperties
  <2>2. \A i \in 1 .. Len(wire) + Len(queue) :
            i \in 1 .. Len(wire) \/ (~(i <= Len(wire)) /\ i - Len(wire) \in 1 .. Len(queue))
    BY RunTyped
  <2>3. \A i \in 1 .. Len(wire) : i <= Len(wire)
    BY RunTyped
  <2>4. runs <= runs
    BY RunTyped
  <2> QED
    BY <2>1, <2>2, <2>3, <2>4 DEF RunInv
<1>5. \A r, s, u, l : Account(log, queue, wire, r, s, u, l)
                          => Account(log', queue', wire', r, s, u, l)
  BY <1>2, RunTyped, AccountExit
<1>6. stats' # None => Account(log', queue', wire', stats'.run, stats'.sent, stats'.unique, left')
  <2>1. CASE UNCHANGED <<stats, left>>
    BY <1>5, <2>1 DEF RunInv
  <2>2. CASE stats' = Statistics /\ left' = remaining /\ ~failed /\ remaining # None
    <3>1. Account(log, queue, wire, runs, sent, sent - duplicates, remaining)
      BY <1>1, <2>2 DEF RunInv
    <3>2. stats'.run = runs /\ stats'.sent = sent /\ stats'.unique = sent - duplicates
      BY <2>2 DEF Statistics
    <3> QED
      BY <1>5, <2>2, <3>1, <3>2
  <2> QED
    BY <1>1, <2>1, <2>2
<1>7. \A i \in 1 .. Len(log') : log'[i].run <= runs'
  BY <1>2 DEF RunInv
<1> QED
  BY <1>2, <1>3, <1>4, <1>6, <1>7 DEF RunInv

-----------------------------------------------------------------------------
(* The statistics *)

LEMMA RunInvInit == Init => RunInv
<1> SUFFICES ASSUME Init
             PROVE  RunInv
  OBVIOUS
<1>1. log = <<>> /\ queue = <<>> /\ wire = <<>> /\ producing = FALSE /\ failed = FALSE
      /\ sent = 0 /\ duplicates = 0 /\ stats = None
  BY DEF Init, ProducerInit
<1>2. 1 .. Len(log) = {} /\ 1 .. Len(queue) = {} /\ 1 .. Len(wire) = {}
  BY <1>1
<1> QED
  BY <1>1, <1>2 DEF RunInv

LEMMA RunInvStep ==
    ASSUME Typed, RunInv, [Next]_vars
    PROVE  RunInv'
<1>1. CASE UNCHANGED <<log, producer>>
  <2>1. UNCHANGED <<log, toSend, queue, wire, failed, sent, duplicates, stats, producing,
                    remaining, runs, left>>
    BY <1>1 DEF producer
  <2>2. CountersInv => CountersInv'
    BY <2>1 DEF CountersInv, RunPairs
  <2> QED
    BY <2>1, <2>2 DEF RunInv
<1>2. \/ UNCHANGED <<log, producer>>
      \/ StartProducer \/ Send \/ FlushReturns \/ Finish \/ KillProducer
      \/ Deliver \/ DeliveryFails \/ Arrive
  BY DEF Next, vars, Running, Train, Start, Plan, Score, Merge, Commit, Crash, Export, ProducerNext
<1> QED
  BY <1>1, <1>2, CountersStart, CountersSend, CountersFlush, CountersEnd, CountersDeliver,
     CountersFail, CountersArrive

\* Numbers that account for the topic bound what is on it.
LEMMA RunInvAccounts ==
    ASSUME Typed, RunInv
    PROVE  StatsAccount
<1> SUFFICES ASSUME stats # None
             PROVE  /\ Cardinality(Of(log, stats.run)) \in stats.sent - left .. stats.sent
                    /\ Cardinality(Pairs(log, stats.run)) \in stats.unique - left .. stats.unique
  BY DEF StatsAccount, Of, Pairs
<1> DEFINE r == stats.run
           all == Pairs(log, r) \cup Pairs(queue, r) \cup Pairs(wire, r)
<1>1. Account(log, queue, wire, r, stats.sent, stats.unique, left)
  BY DEF RunInv
<1>2. /\ Cardinality(Of(log, r)) \in Nat /\ Cardinality(Of(queue, r)) \in Nat
      /\ Cardinality(Of(wire, r)) \in Nat
      /\ Cardinality(Pairs(log, r)) \in Nat
  BY RunTyped, OfFinite
<1>3. Cardinality(Pairs(log, r)) <= Cardinality(all) /\ Cardinality(all) \in Nat
  <2>1. IsFiniteSet(Pairs(log, r) \cup Pairs(queue, r))
    BY RunTyped, OfFinite, FS_Union
  <2>2. IsFiniteSet(all)
    BY <2>1, RunTyped, OfFinite, FS_Union
  <2>3. Pairs(log, r) \in SUBSET all
    OBVIOUS
  <2> HIDE DEF all
  <2> QED
    BY <2>2, <2>3, FS_Subset, FS_CardinalityType
<1>4. /\ stats.sent \in Nat /\ stats.unique \in Nat /\ left \in Nat
      /\ stats.sent - left <= Cardinality(Of(log, r))
      /\ Cardinality(Of(log, r)) + Cardinality(Of(queue, r)) + Cardinality(Of(wire, r)) <= stats.sent
      /\ stats.unique - left <= Cardinality(Pairs(log, r))
      /\ Cardinality(all) <= stats.unique
  BY <1>1 DEF Account
<1> HIDE DEF all, r
<1>5. Cardinality(Of(log, r)) \in stats.sent - left .. stats.sent
  BY <1>2, <1>4
<1>6. Cardinality(Pairs(log, r)) \in stats.unique - left .. stats.unique
  BY <1>2, <1>3, <1>4
<1> QED
  BY <1>5, <1>6 DEF r

\* The statistics a run leaves are those of the topic for as long as they stay: what it counts
\* as sent, and as unique, is there, but for at most what flush() left unanswered, which may be
\* there, or come yet; and there is never more.
THEOREM StatsAccountAlways == Spec => []StatsAccount
<1>1. Typed /\ RunInv /\ [Next]_vars => RunInv'
  BY RunInvStep
<1>2. Typed /\ RunInv => StatsAccount
  BY RunInvAccounts
<1> QED
  BY <1>1, <1>2, RunInvInit, ScorerInvariant, PTL DEF Spec
===============================================================================
