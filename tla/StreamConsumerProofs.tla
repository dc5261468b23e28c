------------------------ MODULE StreamConsumerProofs ------------------------
(***************************************************************************)
(* Theorems about the streaming consumer, for every set of transactions    *)
(* and event times, every delay and window, every trigger bound and any    *)
(* number of crashes: types, each transaction counted once per delay,      *)
(* breaches, drops, the exact counts of the sink, and the refinement of    *)
(* WindowCounts.                                                           *)
(***************************************************************************)
EXTENDS StreamConsumer, SumsProofs, SequenceTheorems, FiniteSetTheorems, TLAPS

-----------------------------------------------------------------------------
(* Type correctness *)

Running == phase \in {"rows", "merge", "commit"}

\* A batch under way is the logged one, and has read what its phase says it has.
BatchOK ==
    Running => /\ planned # None
               /\ pos \in offset .. planned
               /\ phase # "rows" => pos = planned
               /\ taken \subseteq (offset + 1) .. pos

Typed == TypeOK /\ BatchOK

LEMMA LogTyped ==
    ASSUME TypeOK
    PROVE  /\ Len(log) \in Nat
           /\ \A i \in 1 .. Len(log) :
                log[i] \in Row /\ log[i].txn \in Txns /\ log[i].ts \in Nat \ {0}
                /\ KeyOf(log[i]) \in Keys
<1>1. Len(log) \in Nat /\ \A i \in 1 .. Len(log) : log[i] \in Row
  BY ElementOfSeq, LenProperties DEF TypeOK
<1>2. \A r \in Row : r.txn \in Txns /\ r.ts \in Nat \ {0} /\ KeyOf(r) \in Keys
  BY ConsumerAssumption DEF Row, KeyOf, Keys, Windows
<1> QED
  BY <1>1, <1>2

\* Rows reach the topic, which is append-only.
TopicGrows ==
    /\ log' \in Seq(Row) /\ Len(log') >= Len(log)
    /\ \A i \in 1 .. Len(log) : log'[i] = log[i]
    /\ UNCHANGED <<checkpoint, sink, phase, working, counted, shown, crashes>>

\* The query ends where it is: the process dies, or somebody stops it.
QueryEnds ==
    /\ phase' = "off" /\ crashes' \in 0 .. MaxCrashes
    /\ UNCHANGED <<log, checkpoint, sink, working, counted, shown>>

\* A step of the consumer or of its surroundings, whoever writes to the topic and whoever
\* stops the query: what the invariants below are preserved by.
Step == TopicGrows \/ Query \/ QueryEnds \/ UNCHANGED vars

LEMMA ProduceGrows ==
    ASSUME TypeOK, Produce
    PROVE  TopicGrows
<1>1. PICK r \in Row : log' = Append(log, r)
  BY DEF Produce
<1>2. /\ log' \in Seq(Row) /\ Len(log') = Len(log) + 1
      /\ \A i \in 1 .. Len(log) : log'[i] = log[i]
  BY <1>1, AppendProperties DEF TypeOK
<1>3. Len(log) \in Nat
  BY LogTyped
<1> QED
  BY <1>2, <1>3 DEF TopicGrows, Produce

LEMMA NextSteps ==
    ASSUME TypeOK, [Next]_vars
    PROVE  Step
<1>1. Crash => QueryEnds
  BY ConsumerAssumption DEF Crash, QueryEnds, TypeOK
<1> QED
  BY <1>1, ProduceGrows DEF Next, Step

\* The query where nothing has been done: no checkpoint, and an empty topic and table.
Blank ==
    /\ log = <<>>
    /\ offset = 0 /\ planned = None /\ lateWm = 0 /\ nextWm = 0
    /\ seen = [t \in Txns |-> None]
    /\ counts = [k \in Keys |-> 0] /\ frauds = [k \in Keys |-> 0] /\ priced = {}
    /\ sink = [k \in Keys |-> <<>>]
    /\ phase = "off"
    /\ pos = 0 /\ wMax = 0
    /\ wSeen = seen /\ wCounts = counts /\ wFrauds = frauds /\ wPriced = priced
    /\ changed = {} /\ taken = {} /\ counted = {} /\ shown = {}
    /\ crashes \in 0 .. MaxCrashes

LEMMA InitBlank == Init => Blank
  BY ConsumerAssumption DEF Init, Blank

LEMMA BlankTyped == Blank => Typed
<1> SUFFICES ASSUME Blank
             PROVE  Typed
  OBVIOUS
<1>1. log \in Seq(Row) /\ Len(log) = 0
  BY EmptySeq DEF Blank
<1>2. <<>> \in Seq(Nat)
  BY EmptySeq
<1> QED
  BY <1>1, <1>2, ConsumerAssumption DEF Blank, Typed, TypeOK, BatchOK, Running, Phases

LEMMA ReadRowTyped ==
    ASSUME Typed, ReadRow
    PROVE  Typed'
<1> DEFINE r == log[pos + 1]
<1> USE DEF Typed
<1>1. /\ planned \in Nat /\ pos \in Nat /\ offset \in Nat
      /\ offset <= pos /\ pos < planned /\ planned <= Len(log)
  BY LogTyped DEF ReadRow, TypeOK, BatchOK, Running
<1>2. r.txn \in Txns /\ r.ts \in Nat \ {0} /\ KeyOf(r) \in Keys
  BY <1>1, LogTyped
<1>c. \/ UNCHANGED <<wSeen, wCounts, wFrauds, wPriced, changed, taken>>
      \/ /\ wSeen' = [wSeen EXCEPT ![r.txn] = r.ts + Delay]
         /\ wCounts' = [wCounts EXCEPT ![KeyOf(r)] = @ + 1]
         /\ wFrauds' = [wFrauds EXCEPT ![KeyOf(r)] = @ + FraudOf[r.txn]]
         /\ wPriced' = IF r.txn \in HasAmount THEN wPriced \cup {KeyOf(r)} ELSE wPriced
         /\ changed' = changed \cup {KeyOf(r)}
         /\ taken' = taken \cup {pos + 1}
  BY DEF ReadRow
<1>3. wMax' \in Nat
  BY <1>2 DEF ReadRow, TypeOK
<1>d. r.ts + Delay \in Nat
  BY <1>2, ConsumerAssumption
<1> HIDE DEF r
<1>4. wSeen' \in [Txns -> Nat \cup {None}]
  <2>1. wSeen' = wSeen \/ wSeen' = [wSeen EXCEPT ![r.txn] = r.ts + Delay]
    BY <1>c
  <2> QED
    BY <1>d, <2>1 DEF TypeOK
<1>5. wCounts' \in [Keys -> Nat]
  <2> DEFINE key == KeyOf(r)
  <2>1. key \in Keys /\ wCounts \in [Keys -> Nat]
    BY <1>2 DEF TypeOK
  <2>2. wCounts' = wCounts \/ wCounts' = [wCounts EXCEPT ![key] = @ + 1]
    BY <1>c
  <2> HIDE DEF key
  <2> QED
    BY <2>1, <2>2
<1>9. wFrauds' \in [Keys -> Nat] /\ wPriced' \subseteq Keys
  <2> DEFINE key == KeyOf(r)
             n == FraudOf[r.txn]
  <2>1. /\ key \in Keys /\ wFrauds \in [Keys -> Nat] /\ wPriced \subseteq Keys
        /\ n \in Nat
    BY <1>2, ConsumerAssumption DEF TypeOK
  <2>2. /\ wFrauds' = wFrauds \/ wFrauds' = [wFrauds EXCEPT ![key] = @ + n]
        /\ wPriced' = wPriced \/ wPriced' = wPriced \cup {key}
    BY <1>c
  <2> HIDE DEF key, n
  <2> QED
    BY <2>1, <2>2
<1>6. changed' \subseteq Keys /\ taken' \subseteq taken \cup {pos + 1}
  BY <1>2, <1>c DEF TypeOK
<1>7. taken' \subseteq 1 .. Len(log) /\ pos' \in 0 .. Len(log)
  <2>1. Len(log) \in Nat /\ pos + 1 \in 1 .. Len(log) /\ pos' = pos + 1
    BY <1>1, LogTyped DEF ReadRow
  <2>2. taken \subseteq 1 .. Len(log)
    BY DEF TypeOK
  <2> QED
    BY <1>6, <2>1, <2>2
<1>8. BatchOK'
  BY <1>1, <1>6 DEF ReadRow, TypeOK, BatchOK, Running, checkpoint
<1> QED
  BY <1>3, <1>4, <1>5, <1>6, <1>7, <1>8, <1>9 DEF ReadRow, TypeOK, checkpoint

\* Every row of the sink after a MERGE holds a count.
LEMMA MergedTyped ==
    ASSUME TypeOK, NEW k \in Keys
    PROVE  Merged(k) \in Seq(Nat)
<1>1. sink[k] \in Seq(Nat) /\ wCounts[k] \in Nat
  BY DEF TypeOK
<1>2. Append(sink[k], wCounts[k]) \in Seq(Nat)
  BY <1>1, AppendProperties
<1>3. [i \in 1 .. Len(sink[k]) |-> wCounts[k]] \in Seq(Nat)
  <2>1. Len(sink[k]) \in Nat
    BY <1>1, LenProperties
  <2>2. [i \in 1 .. Len(sink[k]) |-> wCounts[k]] \in [1 .. Len(sink[k]) -> Nat]
    BY <1>1
  <2> QED
    BY <2>1, <2>2, SeqDef
<1> QED
  BY <1>2, <1>3 DEF Merged

LEMMA CommitTyped ==
    ASSUME Typed, Commit
    PROVE  Typed'
<1> USE DEF Typed
<1>1. /\ planned \in Nat /\ offset \in Nat /\ offset <= planned /\ planned <= Len(log)
      /\ taken \subseteq (offset + 1) .. planned
  BY LogTyped DEF Commit, TypeOK, BatchOK, Running
<1>2. nextWm' \in Nat
  BY ConsumerAssumption DEF Commit, WatermarkAfter, TypeOK
<1>3. seen' \in [Txns -> Nat \cup {None}]
  BY DEF Commit, TypeOK
<1>4. counts' \in [Keys -> Nat] /\ frauds' \in [Keys -> Nat] /\ priced' \subseteq Keys
  BY DEF Commit, TypeOK
<1>5. counted' \subseteq 1 .. planned
  BY <1>1 DEF Commit, TypeOK
<1>6. offset' \in 0 .. Len(log)
  BY <1>1, LogTyped DEF Commit
<1>7. BatchOK'
  BY DEF Commit, BatchOK, Running
<1>8. pos' \in 0 .. Len(log) /\ taken' \subseteq 1 .. Len(log)
  BY DEF Commit, TypeOK, working
<1> QED
  BY <1>2, <1>3, <1>4, <1>5, <1>6, <1>7, <1>8 DEF Commit, TypeOK, working, Phases

LEMMA TypedStep ==
    ASSUME Typed, Step
    PROVE  Typed'
<1> USE DEF Typed
<1>0. Len(log) \in Nat
  BY LogTyped
<1>1. CASE TopicGrows
  <2>1. Len(log') \in Nat /\ Len(log') >= Len(log)
    BY <1>1, LenProperties DEF TopicGrows
  <2> QED
    BY <1>0, <1>1, <2>1 DEF TopicGrows, TypeOK, BatchOK, Running, checkpoint, working
<1>2. CASE Start
  BY <1>2 DEF Start, TypeOK, BatchOK, Running, checkpoint, working, Phases
<1>3. CASE Plan
  <2>1. planned' \in offset .. Len(log)
    BY <1>0, <1>3, ConsumerAssumption DEF Plan, TypeOK
  <2> QED
    BY <1>3, <2>1 DEF Plan, TypeOK, BatchOK, Running, working
<1>4. CASE Begin
  BY <1>0, <1>4 DEF Begin, TypeOK, BatchOK, Running, checkpoint, Phases
<1>5. CASE ReadRow
  BY <1>5, ReadRowTyped
<1>6. CASE Enforce
  BY <1>6 DEF Enforce, TypeOK, BatchOK, Running, checkpoint, working, Phases
<1>7. CASE Merge
  <2>1. sink' \in [Keys -> Seq(Nat)]
    BY <1>7, MergedTyped DEF Merge, TypeOK
  <2> QED
    BY <1>7, <2>1 DEF Merge, TypeOK, BatchOK, Running, checkpoint, working, Phases
<1>8. CASE Commit
  BY <1>8, CommitTyped
<1>9. CASE QueryEnds
  BY <1>9 DEF QueryEnds, TypeOK, BatchOK, Running, checkpoint, working, Phases
<1>10. CASE UNCHANGED vars
  BY <1>10 DEF vars, TypeOK, BatchOK, Running, checkpoint, working
<1> QED
  BY <1>1, <1>2, <1>3, <1>4, <1>5, <1>6, <1>7, <1>8, <1>9, <1>10 DEF Step, Query

\* Every variable keeps its type, and a batch under way stays within the logged one.
THEOREM TypeCorrect == Spec => []Typed
<1>1. Typed /\ [Next]_vars => Typed'
  BY NextSteps, TypedStep DEF Typed
<1> QED
  BY <1>1, InitBlank, BlankTyped, PTL DEF Spec

-----------------------------------------------------------------------------
(* Deduplication *)

\* The dedup state S remembers the rows of C as long as a copy could still be on time.
Remembered(C, S) ==
    \A i \in C : \/ log[i].ts + Delay <= lateWm
                 \/ S[log[i].txn] = log[i].ts + Delay

Spread(C) ==
    \A i, j \in C :
        i # j /\ log[i].txn = log[j].txn /\ log[i].ts <= log[j].ts
            => log[j].ts > log[i].ts + Delay

DedupInv ==
    /\ lateWm <= nextWm
    /\ Remembered(counted, seen) /\ Spread(counted)
    /\ Running => Remembered(counted \cup taken, wSeen) /\ Spread(counted \cup taken)

\* Counting one more row, on time and unknown to the dedup state, keeps the rows spread.
LEMMA CountOne ==
    ASSUME Typed, NEW C \in SUBSET (1 .. Len(log)), NEW S \in [Txns -> Nat \cup {None}],
           NEW n \in 1 .. Len(log), Remembered(C, S), Spread(C),
           ~Late(log[n]), S[log[n].txn] = None
    PROVE  /\ Remembered(C \cup {n}, [S EXCEPT ![log[n].txn] = log[n].ts + Delay])
           /\ Spread(C \cup {n})
<1> DEFINE r == log[n]
           S2 == [S EXCEPT ![r.txn] = r.ts + Delay]
<1>1. /\ \A i \in C \cup {n} : log[i].txn \in Txns /\ log[i].ts \in Nat
      /\ lateWm \in Nat /\ Delay \in Nat
  BY LogTyped, ConsumerAssumption DEF Typed, TypeOK
<1>2. r.ts > lateWm
  BY <1>1 DEF Late
<1>3. \A i \in C : log[i].txn = r.txn => log[i].ts + Delay <= lateWm
  BY <1>1, ConsumerAssumption DEF Remembered
<1>4. Remembered(C \cup {n}, S2)
  <2> SUFFICES ASSUME NEW i \in C \cup {n}
               PROVE  \/ log[i].ts + Delay <= lateWm
                      \/ S2[log[i].txn] = log[i].ts + Delay
    BY DEF Remembered
  <2>1. CASE log[i].txn = r.txn
    BY <1>1, <1>3, <2>1
  <2>2. CASE log[i].txn # r.txn
    BY <1>1, <2>2 DEF Remembered
  <2> QED
    BY <2>1, <2>2
<1>5. Spread(C \cup {n})
  <2> SUFFICES ASSUME NEW i \in C \cup {n}, NEW j \in C \cup {n}, i # j,
                      log[i].txn = log[j].txn, log[i].ts <= log[j].ts
               PROVE  log[j].ts > log[i].ts + Delay
    BY DEF Spread
  <2>1. CASE i \in C /\ j \in C
    BY <2>1 DEF Spread
  <2>2. CASE i \in C /\ j = n
    BY <1>1, <1>2, <1>3, <2>2
  <2>3. CASE i = n /\ j \in C
    BY <1>1, <1>2, <1>3, <2>3
  <2> QED
    BY <2>1, <2>2, <2>3
<1> QED
  BY <1>4, <1>5

LEMMA DedupReadRow ==
    ASSUME Typed, DedupInv, ReadRow
    PROVE  DedupInv'
<1> DEFINE C == counted \cup taken
           n == pos + 1
<1>1. /\ n \in 1 .. Len(log) /\ C \subseteq 1 .. Len(log)
      /\ wSeen \in [Txns -> Nat \cup {None}]
  <2>1. Running /\ pos < planned
    BY DEF Running, ReadRow
  <2>2. planned # None /\ taken \subseteq offset + 1 .. pos /\ Len(log) \in Nat
    BY <2>1, LogTyped DEF Typed, BatchOK
  <2>3. /\ offset \in 0 .. Len(log) /\ planned \in offset .. Len(log) /\ pos \in 0 .. Len(log)
        /\ wSeen \in [Txns -> Nat \cup {None}] /\ counted \subseteq 1 .. offset
        /\ taken \subseteq 1 .. Len(log)
    BY <2>2 DEF Typed, TypeOK
  <2> QED
    BY <2>1, <2>2, <2>3
<1>2. Remembered(C, wSeen) /\ Spread(C)
  BY DEF DedupInv, Running, ReadRow
<1>3. UNCHANGED <<log, lateWm, nextWm, seen, counted>>
  BY DEF ReadRow, checkpoint
<1>4. CASE Late(log[n]) \/ Duplicate(log[n])
  <2>1. UNCHANGED <<wSeen, taken>>
    BY <1>4 DEF ReadRow
  <2> QED
    BY <1>2, <1>3, <2>1 DEF DedupInv, Remembered, Spread
<1>5. CASE ~Late(log[n]) /\ ~Duplicate(log[n])
  <2>1. /\ wSeen' = [wSeen EXCEPT ![log[n].txn] = log[n].ts + Delay]
        /\ counted' \cup taken' = C \cup {n}
    BY <1>3, <1>5 DEF ReadRow
  <2> HIDE DEF C, n
  <2>2. /\ Remembered(C \cup {n}, [wSeen EXCEPT ![log[n].txn] = log[n].ts + Delay])
        /\ Spread(C \cup {n})
    BY <1>1, <1>2, <1>5, CountOne DEF Duplicate
  <2>3. Remembered(counted \cup taken, wSeen)' /\ Spread(counted \cup taken)'
    BY <1>3, <2>1, <2>2 DEF Remembered, Spread
  <2> QED
    BY <1>3, <2>3 DEF DedupInv, Remembered, Spread
<1> QED
  BY <1>4, <1>5

LEMMA DedupCommit ==
    ASSUME Typed, DedupInv, Commit
    PROVE  DedupInv'
<1> DEFINE C == counted \cup taken
<1>0. C \subseteq 1 .. Len(log)
  BY LogTyped DEF Typed, TypeOK
<1>1. /\ Remembered(C, wSeen) /\ Spread(C) /\ lateWm <= nextWm
      /\ lateWm \in Nat /\ nextWm \in Nat
      /\ \A i \in C : log[i].txn \in Txns /\ log[i].ts \in Nat
  <2>1. Running
    BY DEF Commit, Running
  <2> QED
    BY <1>0, <2>1, LogTyped DEF Typed, TypeOK, DedupInv
<1>2. /\ log' = log /\ counted' = C /\ lateWm' = nextWm
      /\ seen' = [t \in Txns |-> IF wSeen[t] # None /\ wSeen[t] <= nextWm
                                 THEN None ELSE wSeen[t]]
      /\ phase' = "idle"
  BY DEF Commit
<1>3. nextWm' >= nextWm
  BY <1>1, ConsumerAssumption DEF Commit, WatermarkAfter, Typed, TypeOK
<1> HIDE DEF C
<1>4. Spread(counted)'
  BY <1>1, <1>2 DEF Spread
<1>5. Remembered(counted, seen)'
  <2> SUFFICES ASSUME NEW i \in C
               PROVE  \/ log[i].ts + Delay <= nextWm
                      \/ seen'[log[i].txn] = log[i].ts + Delay
    BY <1>2 DEF Remembered
  <2>1. CASE log[i].ts + Delay <= lateWm
    BY <1>1, <2>1, ConsumerAssumption
  <2>2. CASE wSeen[log[i].txn] = log[i].ts + Delay
    BY <1>1, <1>2, <2>2, ConsumerAssumption
  <2> QED
    BY <1>1, <2>1, <2>2 DEF Remembered
<1> QED
  BY <1>1, <1>2, <1>3, <1>4, <1>5 DEF DedupInv, Running

LEMMA BlankDedup == Blank => DedupInv
  BY DEF Blank, DedupInv, Remembered, Spread, Running

LEMMA DedupStep ==
    ASSUME Typed, DedupInv, Step
    PROVE  DedupInv'
<1>1. CASE TopicGrows
  <2>1. counted \cup taken \subseteq 1 .. Len(log)
    BY LogTyped DEF Typed, TypeOK
  <2>2. \A i \in counted \cup taken : log'[i] = log[i]
    BY <1>1, <2>1 DEF TopicGrows
  <2>3. UNCHANGED <<lateWm, nextWm, seen, wSeen, counted, taken, phase>>
    BY <1>1 DEF TopicGrows, checkpoint, working
  <2> QED
    BY <2>2, <2>3 DEF DedupInv, Remembered, Spread, Running
<1>2. CASE Start \/ Plan \/ Enforce \/ Merge \/ QueryEnds \/ UNCHANGED vars
  <2>1. /\ UNCHANGED <<log, lateWm, nextWm, seen, wSeen, counted, taken>>
        /\ Running' => Running
    BY <1>2 DEF Start, Plan, Enforce, Merge, QueryEnds, vars, checkpoint, working, Running
  <2> QED
    BY <2>1 DEF DedupInv, Remembered, Spread
<1>3. CASE Begin
  <2>1. /\ UNCHANGED <<log, lateWm, nextWm, seen, counted>>
        /\ wSeen' = seen /\ taken' = {}
    BY <1>3 DEF Begin, checkpoint
  <2> QED
    BY <2>1 DEF DedupInv, Remembered, Spread
<1>4. CASE ReadRow
  BY <1>4, DedupReadRow
<1>5. CASE Commit
  BY <1>5, DedupCommit
<1> QED
  BY <1>1, <1>2, <1>3, <1>4, <1>5 DEF Step, Query

LEMMA DedupInvariant == Spec => []DedupInv
<1>1. Typed /\ DedupInv /\ [Next]_vars => DedupInv'
  BY NextSteps, DedupStep DEF Typed
<1> QED
  BY <1>1, InitBlank, BlankDedup, TypeCorrect, PTL DEF Spec

\* Two rows of one transaction are both counted only more than the delay apart.
THEOREM CountedOncePerDelayAlways == Spec => []CountedOncePerDelay
<1>1. DedupInv => CountedOncePerDelay
  BY DEF DedupInv, Spread, CountedOncePerDelay
<1> QED
  BY <1>1, DedupInvariant, PTL

-----------------------------------------------------------------------------
(* Breaches *)

\* What keeps rows without a category out of the sink and the counts.
NothingBroken ==
    /\ \A k \in Keys : k[2] = NoCategory => sink[k] = <<>>
    /\ \A i \in counted : CategoryOf[log[i].txn] # NoCategory
    /\ Running => \A i \in taken : KeyOf(log[i]) \in changed
    /\ phase \in {"merge", "commit"} => \A k \in changed : k[2] # NoCategory

LEMMA BreachReadRow ==
    ASSUME Typed, NothingBroken, ReadRow
    PROVE  NothingBroken'
<1>1. Running /\ phase' = "rows" /\ UNCHANGED <<log, sink, counted>>
  BY DEF ReadRow, Running, checkpoint
<1>2. \A i \in taken' : KeyOf(log[i]) \in changed'
  BY <1>1 DEF ReadRow, NothingBroken
<1> QED
  BY <1>1, <1>2 DEF NothingBroken, KeyOf, WindowOf

\* A batch that merges or commits has only windows with a category.
LEMMA BreachEnforce ==
    ASSUME OnViolation = "fail", Typed, NothingBroken, Enforce
    PROVE  NothingBroken'
<1>1. UNCHANGED <<log, sink, counted, taken, changed>> /\ Running
  BY DEF Enforce, checkpoint, working, Running
<1>2. phase' \in {"merge", "commit"} => \A k \in changed : k[2] # NoCategory
  BY DEF Enforce, Breach
<1> QED
  BY <1>1, <1>2 DEF NothingBroken

LEMMA BreachMerge ==
    ASSUME Typed, NothingBroken, Merge
    PROVE  NothingBroken'
<1>1. UNCHANGED <<log, counted, taken, changed>> /\ Running
  BY DEF Merge, checkpoint, working, Running
<1>2. \A k \in Keys : k[2] = NoCategory => sink'[k] = <<>>
  BY DEF Merge, NothingBroken
<1> QED
  BY <1>1, <1>2 DEF NothingBroken, Merge

\* The rows of a batch that commits have a category, because its windows have.
LEMMA BreachCommit ==
    ASSUME Typed, NothingBroken, Commit
    PROVE  NothingBroken'
<1>1. \A i \in taken : CategoryOf[log[i].txn] # NoCategory
  BY DEF Commit, NothingBroken, Running, KeyOf
<1> QED
  BY <1>1 DEF Commit, NothingBroken, Running

LEMMA BlankUnbroken == Blank => NothingBroken
  BY DEF Blank, NothingBroken, Running

LEMMA NothingBrokenStep ==
    ASSUME OnViolation = "fail", Typed, NothingBroken, Step
    PROVE  NothingBroken'
<1>1. CASE TopicGrows
  <2>1. counted \cup taken \subseteq 1 .. Len(log)
    BY LogTyped DEF Typed, TypeOK
  <2>2. \A i \in counted \cup taken : log'[i] = log[i]
    BY <1>1, <2>1 DEF TopicGrows
  <2> QED
    BY <1>1, <2>2 DEF TopicGrows, NothingBroken, Running, checkpoint, working, KeyOf
<1>2. CASE Start \/ Plan \/ QueryEnds \/ UNCHANGED vars
  <2>1. /\ UNCHANGED <<log, sink, counted, taken, changed>>
        /\ phase' \notin {"idle", "off"} => phase' = phase
    BY <1>2 DEF Start, Plan, QueryEnds, vars, checkpoint, working
  <2> QED
    BY <2>1 DEF NothingBroken, Running
<1>3. CASE Begin
  BY <1>3 DEF Begin, NothingBroken, Running
<1>4. CASE ReadRow
  BY <1>4, BreachReadRow
<1>5. CASE Enforce
  BY <1>5, BreachEnforce
<1>6. CASE Merge
  BY <1>6, BreachMerge
<1>7. CASE Commit
  BY <1>7, BreachCommit
<1> QED
  BY <1>1, <1>2, <1>3, <1>4, <1>5, <1>6, <1>7 DEF Step, Query

LEMMA NothingBrokenInvariant == Spec => [](OnViolation = "fail" => NothingBroken)
<1>1. /\ Typed /\ (OnViolation = "fail" => NothingBroken) /\ [Next]_vars
      => (OnViolation = "fail" => NothingBroken)'
  <2> SUFFICES ASSUME OnViolation = "fail", Typed, NothingBroken, [Next]_vars
               PROVE  NothingBroken'
    OBVIOUS
  <2> QED
    BY NextSteps, NothingBrokenStep DEF Typed
<1> QED
  BY <1>1, InitBlank, BlankUnbroken, TypeCorrect, PTL DEF Spec

-----------------------------------------------------------------------------
(* Dropped rows *)

\* Some of the first n rows is at least the delay newer than w.
Newer(w, n) == \E j \in 1 .. n : log[j].ts >= w + Delay

\* What the dedup state S knows of, C counts.
Known(S, C) == \A t \in Txns : S[t] # None => \E j \in C : log[j].txn = t

\* A row of the first n that is not in C has its reason before it.
Explained(n, C) ==
    \A i \in 1 .. n : i \notin C =>
        \E j \in 1 .. i - 1 :
            \/ j \in C /\ log[j].txn = log[i].txn
            \/ log[j].ts >= log[i].ts + Delay

DropsInv ==
    /\ lateWm <= nextWm
    /\ nextWm > 0 => Newer(nextWm, offset)
    /\ Known(seen, counted) /\ Explained(offset, counted)
    /\ Running => /\ wMax > 0 => \E j \in 1 .. pos : log[j].ts = wMax
                  /\ Known(wSeen, counted \cup taken)
                  /\ Explained(pos, counted \cup taken)

LEMMA DropsReadRow ==
    ASSUME Typed, DropsInv, ReadRow
    PROVE  DropsInv'
<1> DEFINE C == counted \cup taken
           n == pos + 1
           r == log[n]
<1>1. /\ pos \in Nat /\ offset \in Nat /\ offset <= pos
      /\ n \in 1 .. Len(log) /\ Len(log) \in Nat /\ C \subseteq 1 .. pos
  <2>1. pos \in Nat /\ offset \in Nat /\ offset <= pos /\ planned <= Len(log)
        /\ planned \in Nat /\ pos < planned /\ Len(log) \in Nat
        /\ taken \subseteq (offset + 1) .. pos
    <3>1. Running /\ pos < planned
      BY DEF ReadRow, Running
    <3>2. planned # None /\ taken \subseteq (offset + 1) .. pos /\ pos \in offset .. planned
      BY <3>1 DEF Typed, BatchOK
    <3>3. Len(log) \in Nat
      BY LogTyped DEF Typed
    <3>4. /\ offset \in 0 .. Len(log) /\ pos \in 0 .. Len(log)
          /\ planned \in offset .. Len(log)
      BY <3>2 DEF Typed, TypeOK
    <3> QED
      BY <3>1, <3>2, <3>3, <3>4
  <2> QED
    BY <2>1 DEF Typed, TypeOK
<1>2. /\ r.txn \in Txns /\ r.ts \in Nat \ {0} /\ Delay \in Nat
      /\ lateWm \in Nat /\ nextWm \in Nat /\ wMax \in Nat
      /\ \A j \in 1 .. Len(log) : log[j].ts \in Nat
  BY <1>1, LogTyped, ConsumerAssumption DEF Typed, TypeOK
<1>3. UNCHANGED <<log, lateWm, nextWm, seen, counted, offset>> /\ Running /\ pos' = n
  BY DEF ReadRow, checkpoint, Running
<1>4. /\ wMax > 0 => \E j \in 1 .. pos : log[j].ts = wMax
      /\ Known(wSeen, C) /\ Explained(pos, C)
  BY <1>3 DEF DropsInv
<1>5. wMax' > 0 => \E j \in 1 .. n : log[j].ts = wMax'
  <2>1. wMax' = r.ts \/ wMax' = wMax
    BY DEF ReadRow
  <2>2. n \in 1 .. n /\ \A j \in 1 .. pos : j \in 1 .. n
    BY <1>1
  <2> QED
    BY <1>4, <2>1, <2>2
<1>6. CASE ~Late(r) /\ ~Duplicate(r)
  <2>1. /\ wSeen' = [wSeen EXCEPT ![r.txn] = r.ts + Delay]
        /\ counted' \cup taken' = C \cup {n}
    BY <1>3, <1>6 DEF ReadRow
  <2> HIDE DEF C
  <2>2. \A t \in Txns : wSeen'[t] # None => \E j \in C \cup {n} : log[j].txn = t
    BY <1>4, <2>1 DEF Known, Typed, TypeOK
  <2>3. \A i \in 1 .. n : i \notin C \cup {n} =>
          \E j \in 1 .. i - 1 :
            \/ j \in C \cup {n} /\ log[j].txn = log[i].txn
            \/ log[j].ts >= log[i].ts + Delay
    <3>1. \A i \in 1 .. n : i # n => i \in 1 .. pos
      BY <1>1
    <3> HIDE DEF n
    <3> QED
      BY <1>4, <3>1 DEF Explained
  <2>4. Known(wSeen, counted \cup taken)' /\ Explained(pos, counted \cup taken)'
    BY <1>3, <2>1, <2>2, <2>3 DEF Known, Explained
  <2> QED
    BY <1>3, <1>5, <2>4 DEF DropsInv, Newer, Known, Explained
<1>7. CASE Late(r) \/ Duplicate(r)
  <2>1. UNCHANGED <<wSeen, taken>>
    BY <1>7 DEF ReadRow
  <2>2. \E j \in 1 .. n - 1 : \/ j \in C /\ log[j].txn = r.txn
                              \/ log[j].ts >= r.ts + Delay
    <3>1. CASE Late(r)
      <4>1. nextWm > 0 /\ r.ts <= nextWm
        BY <1>2, <3>1 DEF Late, DropsInv
      <4>2. PICK j \in 1 .. offset : log[j].ts >= nextWm + Delay
        BY <4>1 DEF DropsInv, Newer
      <4>3. j \in 1 .. n - 1 /\ j \in 1 .. Len(log)
        BY <1>1
      <4>4. log[j].ts >= r.ts + Delay
        BY <1>2, <4>1, <4>2, <4>3
      <4> QED
        BY <4>3, <4>4
    <3>2. CASE Duplicate(r)
      <4>1. PICK j \in C : log[j].txn = r.txn
        BY <1>2, <1>4, <3>2 DEF Duplicate, Known
      <4>2. j \in 1 .. n - 1
        BY <1>1
      <4> QED
        BY <4>1, <4>2
    <3> QED
      BY <1>7, <3>1, <3>2
  <2>3. \A i \in 1 .. n : i # n => i \in 1 .. pos
    BY <1>1
  <2>4. Explained(n, C)
    <3> HIDE DEF n, C
    <3> QED
      BY <1>4, <2>2, <2>3 DEF Explained, r
  <2>5. Known(wSeen, counted \cup taken)' /\ Explained(pos, counted \cup taken)'
    BY <1>3, <1>4, <2>1, <2>4 DEF Known, Explained
  <2> QED
    BY <1>3, <1>5, <2>5 DEF DropsInv, Newer, Known, Explained
<1> QED
  BY <1>6, <1>7

LEMMA DropsCommit ==
    ASSUME Typed, DropsInv, Commit
    PROVE  DropsInv'
<1>1. /\ pos = planned /\ offset <= pos /\ offset \in Nat /\ pos \in 0 .. Len(log)
      /\ Len(log) \in Nat /\ Running
      /\ nextWm \in Nat /\ lateWm \in Nat /\ wMax \in Nat /\ Delay \in Nat
      /\ \A j \in 1 .. Len(log) : log[j].ts \in Nat
  <2>1. Running /\ phase = "commit"
    BY DEF Commit, Running
  <2>2. pos = planned /\ planned # None /\ pos \in offset .. planned
    BY <2>1 DEF Typed, BatchOK
  <2>3. Len(log) \in Nat /\ \A j \in 1 .. Len(log) : log[j].ts \in Nat
    BY LogTyped DEF Typed
  <2>4. /\ offset \in 0 .. Len(log) /\ pos \in 0 .. Len(log)
        /\ nextWm \in Nat /\ lateWm \in Nat /\ wMax \in Nat
    BY DEF Typed, TypeOK
  <2>5. offset \in Nat /\ offset <= pos
    BY <2>2, <2>3, <2>4
  <2>6. Delay \in Nat
    BY ConsumerAssumption
  <2> QED
    BY <2>1, <2>2, <2>3, <2>4, <2>5, <2>6
<1>2. /\ log' = log /\ offset' = pos /\ counted' = counted \cup taken
      /\ lateWm' = nextWm /\ nextWm' = WatermarkAfter /\ phase' = "idle"
  BY <1>1 DEF Commit
<1>3. nextWm' >= nextWm
  BY <1>1, <1>2 DEF WatermarkAfter
<1>4. nextWm' > 0 => \E j \in 1 .. pos : log[j].ts >= nextWm' + Delay
  <2>1. CASE nextWm' = nextWm
    BY <1>1, <2>1 DEF DropsInv, Newer
  <2>2. CASE wMax > nextWm + Delay /\ nextWm' = wMax - Delay
    <3>1. PICK j \in 1 .. pos : log[j].ts = wMax
      BY <1>1, <2>2 DEF DropsInv
    <3>2. log[j].ts >= nextWm' + Delay
      BY <1>1, <2>2, <3>1
    <3> QED
      BY <3>2
  <2> QED
    BY <1>2, <2>1, <2>2 DEF WatermarkAfter
<1>5. Known(seen, counted)'
  <2>1. \A t \in Txns : seen'[t] # None => wSeen[t] # None
    BY DEF Commit
  <2> QED
    BY <1>1, <1>2, <2>1 DEF DropsInv, Known
<1>6. Explained(offset, counted)'
  BY <1>1, <1>2 DEF DropsInv, Explained
<1> QED
  BY <1>2, <1>3, <1>4, <1>5, <1>6 DEF DropsInv, Newer, Running

LEMMA BlankDrops == Blank => DropsInv
  BY DEF Blank, DropsInv, Newer, Known, Explained, Running

LEMMA DropsGrows ==
    ASSUME Typed, DropsInv, TopicGrows
    PROVE  DropsInv'
<1>1. /\ \A i \in 1 .. Len(log) : log'[i] = log[i]
      /\ Len(log) \in Nat /\ offset \in 0 .. Len(log) /\ pos \in 0 .. Len(log)
      /\ counted \cup taken \subseteq 1 .. Len(log)
  <2>1. \A i \in 1 .. Len(log) : log'[i] = log[i]
    BY DEF TopicGrows
  <2>2. Len(log) \in Nat /\ offset \in 0 .. Len(log) /\ pos \in 0 .. Len(log)
    BY LogTyped DEF Typed, TypeOK
  <2>3. counted \cup taken \subseteq 1 .. Len(log)
    BY <2>2 DEF Typed, TypeOK
  <2> QED
    BY <2>1, <2>2, <2>3
<1>2. \A i \in 1 .. offset : log'[i] = log[i] /\ i \in 1 .. Len(log)
  BY <1>1
<1>3. \A i \in 1 .. pos : log'[i] = log[i] /\ i \in 1 .. Len(log)
  BY <1>1
<1>4. \A i \in 1 .. Len(log) : \A j \in 1 .. i - 1 : log'[j] = log[j]
  BY <1>1
<1>5. UNCHANGED <<lateWm, nextWm, seen, wSeen, wMax, counted, taken, phase, pos, offset>>
  BY DEF TopicGrows, checkpoint, working
<1>6. Known(seen, counted)' /\ (Running => Known(wSeen, counted \cup taken)')
  BY <1>1, <1>5 DEF DropsInv, Known
<1>7. Explained(offset, counted)'
  BY <1>2, <1>4, <1>5 DEF DropsInv, Explained
<1>8. Running => Explained(pos, counted \cup taken)'
  BY <1>3, <1>4, <1>5 DEF DropsInv, Explained
<1> QED
  BY <1>2, <1>3, <1>5, <1>6, <1>7, <1>8 DEF DropsInv, Newer, Running

LEMMA DropsStep ==
    ASSUME Typed, DropsInv, Step
    PROVE  DropsInv'
<1>1. CASE TopicGrows
  BY <1>1, DropsGrows
<1>2. CASE Start \/ Plan \/ Enforce \/ Merge \/ QueryEnds \/ UNCHANGED vars
  <2>1. /\ UNCHANGED <<log, offset, lateWm, nextWm, seen, wSeen, wMax, counted, taken, pos>>
        /\ Running' => Running
    BY <1>2 DEF Start, Plan, Enforce, Merge, QueryEnds, vars, checkpoint, working, Running
  <2> QED
    BY <2>1 DEF DropsInv, Newer, Known, Explained
<1>3. CASE Begin
  <2>1. /\ UNCHANGED <<log, offset, lateWm, nextWm, seen, counted>>
        /\ wSeen' = seen /\ taken' = {} /\ pos' = offset /\ wMax' = 0
    BY <1>3 DEF Begin, checkpoint
  <2> QED
    BY <2>1 DEF DropsInv, Newer, Known, Explained
<1>4. CASE ReadRow
  BY <1>4, DropsReadRow
<1>5. CASE Commit
  BY <1>5, DropsCommit
<1> QED
  BY <1>1, <1>2, <1>3, <1>4, <1>5 DEF Step, Query

\* Every consumed row that was not counted has an earlier row as its reason.
THEOREM DropsExplainedAlways == Spec => []DropsExplained
<1>1. Typed /\ DropsInv /\ [Next]_vars => DropsInv'
  BY NextSteps, DropsStep DEF Typed
<1>2. DropsInv => DropsExplained
  BY DEF DropsInv, Explained, DropsExplained
<1> QED
  BY <1>1, <1>2, InitBlank, BlankDrops, TypeCorrect, PTL DEF Spec

-----------------------------------------------------------------------------
(* Counting *)

\* The rows of A in window and category k, and their number.
RowsIn(k, A) == {i \in A : KeyOf(log[i]) = k}
CountIn(k, A) == Cardinality(RowsIn(k, A))

LEMMA CountType ==
    ASSUME TypeOK, NEW A \in SUBSET (1 .. Len(log)), NEW k
    PROVE  /\ IsFiniteSet(RowsIn(k, A)) /\ CountIn(k, A) \in Nat
           /\ CountIn(k, A) = 0 <=> \A i \in A : KeyOf(log[i]) # k
<1>1. IsFiniteSet(1 .. Len(log))
  BY LogTyped, FS_Interval
<1>2. IsFiniteSet(RowsIn(k, A))
  BY <1>1, FS_Subset DEF RowsIn
<1>3. CountIn(k, A) \in Nat
  BY <1>2, FS_CardinalityType DEF CountIn
<1>4. CountIn(k, A) = 0 <=> RowsIn(k, A) = {}
  BY <1>2, FS_EmptySet DEF CountIn
<1> QED
  BY <1>2, <1>3, <1>4 DEF RowsIn

LEMMA CountOneMore ==
    ASSUME TypeOK, NEW A \in SUBSET (1 .. Len(log)), NEW n \in 1 .. Len(log), n \notin A, NEW k
    PROVE  CountIn(k, A \cup {n}) = IF KeyOf(log[n]) = k THEN CountIn(k, A) + 1
                                                          ELSE CountIn(k, A)
<1>1. IsFiniteSet(RowsIn(k, A))
  BY CountType
<1>2. CASE KeyOf(log[n]) = k
  <2>1. RowsIn(k, A \cup {n}) = RowsIn(k, A) \cup {n} /\ n \notin RowsIn(k, A)
    BY <1>2 DEF RowsIn
  <2>2. Cardinality(RowsIn(k, A) \cup {n}) = Cardinality(RowsIn(k, A)) + 1
    BY <1>1, <2>1, FS_AddElement
  <2> QED
    BY <1>2, <2>1, <2>2 DEF CountIn
<1>3. CASE KeyOf(log[n]) # k
  <2>1. RowsIn(k, A \cup {n}) = RowsIn(k, A)
    BY <1>3 DEF RowsIn
  <2> QED
    BY <1>3, <2>1 DEF CountIn
<1> QED
  BY <1>2, <1>3

\* Rows outside a window and category do not change its count.
LEMMA CountElsewhere ==
    ASSUME NEW A, NEW B, NEW k, \A i \in B : KeyOf(log[i]) # k
    PROVE  CountIn(k, A \cup B) = CountIn(k, A)
<1>1. RowsIn(k, A \cup B) = RowsIn(k, A)
  BY DEF RowsIn
<1> QED
  BY <1>1 DEF CountIn

\* A window ends after the rows in it.
LEMMA WindowAhead ==
    ASSUME NEW r \in Row
    PROVE  WindowEnd(KeyOf(r)) > r.ts
<1>1. r.ts \in Nat /\ Width \in Nat \ {0}
  BY ConsumerAssumption DEF Row
<1>2. \A a \in Nat, b \in Nat \ {0} : (a \div b + 1) * b > a
  OBVIOUS
<1>3. KeyOf(r)[1] = r.ts \div Width
  BY DEF KeyOf, WindowOf
<1> QED
  BY <1>1, <1>2, <1>3 DEF WindowEnd

-----------------------------------------------------------------------------
(* What a batch computes *)

\* No row of t among those of the batch up to m could have been counted.
LateSoFar(t, m) == \A j \in offset + 1 .. m : log[j].txn = t => Late(log[j])

\* The rows a batch counts, from the log and the checkpoint alone: the first on-time row of
\* each transaction the dedup state does not know.
Passed(m) ==
    {i \in offset + 1 .. m :
        ~Late(log[i]) /\ seen[log[i].txn] = None /\ LateSoFar(log[i].txn, i - 1)}

\* A batch under way has computed a function of the log and the checkpoint, so that a replay
\* counts the same rows.
BatchInv ==
    Running =>
        /\ taken = Passed(pos)
        /\ \A t \in Txns : wSeen[t] = None <=> seen[t] = None /\ LateSoFar(t, pos)
        /\ changed = {KeyOf(log[i]) : i \in taken}
        /\ \A k \in Keys :
              WindowEnd(k) > lateWm => wCounts[k] = CountIn(k, counted \cup taken)

\* Between batches and in them: the sink is the exact count of the rows shown, live windows
\* hold the counts of the rows counted, and what is shown beyond these is a batch to be
\* committed or replayed.
SinkInv ==
    /\ \A k \in Keys : k[2] # NoCategory =>
          sink[k] = IF CountIn(k, shown) = 0 THEN <<>> ELSE <<CountIn(k, shown)>>
    /\ \A k \in Keys : WindowEnd(k) > lateWm => counts[k] = CountIn(k, counted)
    /\ shown = counted \/ (planned # None /\ shown = counted \cup Passed(planned))
    /\ phase = "commit" => shown = counted \cup taken

\* Where a batch stands.
LEMMA BatchPlace ==
    ASSUME Typed, Running
    PROVE  /\ offset \in Nat /\ pos \in Nat /\ planned \in Nat /\ Len(log) \in Nat
           /\ offset <= pos /\ pos <= planned /\ planned <= Len(log)
           /\ lateWm \in Nat /\ nextWm \in Nat
           /\ counted \subseteq 1 .. offset /\ taken \subseteq offset + 1 .. pos
           /\ counted \cup taken \subseteq 1 .. Len(log)
<1>1. Len(log) \in Nat
  BY LogTyped DEF Typed
<1>2. planned # None /\ pos \in offset .. planned /\ taken \subseteq offset + 1 .. pos
  BY DEF Typed, BatchOK
<1>3. offset \in 0 .. Len(log) /\ planned \in offset .. Len(log)
  BY <1>2 DEF Typed, TypeOK
<1>4. counted \subseteq 1 .. offset /\ lateWm \in Nat /\ nextWm \in Nat
  BY DEF Typed, TypeOK
<1> QED
  BY <1>1, <1>2, <1>3, <1>4

\* One row further, the batch counts that row or not.
LEMMA PassedOneMore ==
    ASSUME NEW m \in Nat, offset \in Nat, offset <= m
    PROVE  /\ \A t : LateSoFar(t, m + 1) <=>
                     LateSoFar(t, m) /\ (log[m + 1].txn = t => Late(log[m + 1]))
           /\ Passed(m + 1) =
                 IF /\ ~Late(log[m + 1]) /\ seen[log[m + 1].txn] = None
                    /\ LateSoFar(log[m + 1].txn, m)
                 THEN Passed(m) \cup {m + 1} ELSE Passed(m)
<1>1. offset + 1 .. m + 1 = (offset + 1 .. m) \cup {m + 1} /\ m + 1 - 1 = m
  OBVIOUS
<1>2. \A t : LateSoFar(t, m + 1) <=>
               LateSoFar(t, m) /\ (log[m + 1].txn = t => Late(log[m + 1]))
  BY <1>1 DEF LateSoFar
<1> DEFINE Lets(i) == /\ ~Late(log[i]) /\ seen[log[i].txn] = None
                      /\ LateSoFar(log[i].txn, i - 1)
<1>3. Passed(m + 1) = {i \in offset + 1 .. m + 1 : Lets(i)}
      /\ Passed(m) = {i \in offset + 1 .. m : Lets(i)}
  BY DEF Passed
<1>4. Lets(m + 1) <=> /\ ~Late(log[m + 1]) /\ seen[log[m + 1].txn] = None
                      /\ LateSoFar(log[m + 1].txn, m)
  BY <1>1
<1> HIDE DEF Lets
<1>5. Passed(m + 1) = IF Lets(m + 1) THEN Passed(m) \cup {m + 1} ELSE Passed(m)
  BY <1>1, <1>3
<1> QED
  BY <1>2, <1>4, <1>5

LEMMA BatchReadRow ==
    ASSUME Typed, BatchInv, ReadRow
    PROVE  BatchInv'
<1> DEFINE n == pos + 1
           r == log[n]
           C == counted \cup taken
<1>1. /\ Running /\ pos' = n /\ pos < planned
      /\ UNCHANGED <<log, offset, planned, lateWm, seen, counted>>
  BY DEF ReadRow, Running, checkpoint
<1>2. /\ offset \in Nat /\ pos \in Nat /\ offset <= pos /\ n \in 1 .. Len(log)
      /\ C \subseteq 1 .. Len(log) /\ n \notin C /\ lateWm \in Nat
  BY <1>1, BatchPlace
<1>3. r \in Row /\ r.txn \in Txns /\ r.ts \in Nat /\ KeyOf(r) \in Keys
  BY <1>2, LogTyped DEF Typed
<1>4. /\ taken = Passed(pos)
      /\ \A t \in Txns : wSeen[t] = None <=> seen[t] = None /\ LateSoFar(t, pos)
      /\ changed = {KeyOf(log[i]) : i \in taken}
      /\ \A k \in Keys : WindowEnd(k) > lateWm => wCounts[k] = CountIn(k, C)
  BY <1>1 DEF BatchInv
<1>5. /\ \A t : LateSoFar(t, n) <=> LateSoFar(t, pos) /\ (r.txn = t => Late(r))
      /\ Passed(n) = IF ~Late(r) /\ seen[r.txn] = None /\ LateSoFar(r.txn, pos)
                     THEN taken \cup {n} ELSE taken
  BY <1>2, <1>4, PassedOneMore
<1>6. /\ Passed(pos)' = Passed(n)
      /\ \A t : LateSoFar(t, pos)' <=> LateSoFar(t, n)
      /\ \A k, A : CountIn(k, A)' = CountIn(k, A')
  BY <1>1 DEF Passed, LateSoFar, Late, CountIn, RowsIn
<1>7. CASE Late(r) \/ Duplicate(r)
  <2>1. UNCHANGED <<wSeen, wCounts, changed, taken>>
    BY <1>7 DEF ReadRow
  <2>2. Passed(n) = taken
    BY <1>3, <1>4, <1>5, <1>7 DEF Duplicate
  <2>3. \A t \in Txns : wSeen[t] = None <=> seen[t] = None /\ LateSoFar(t, n)
    BY <1>3, <1>4, <1>5, <1>7 DEF Duplicate
  <2> HIDE DEF n, r
  <2>4. \A k \in Keys : WindowEnd(k) > lateWm => wCounts'[k] = CountIn(k, counted \cup taken)'
    BY <1>1, <1>4, <2>1 DEF CountIn, RowsIn
  <2> QED
    BY <1>1, <1>4, <1>6, <2>1, <2>2, <2>3, <2>4 DEF BatchInv
<1>8. CASE ~Late(r) /\ ~Duplicate(r)
  <2>1. /\ wSeen' = [wSeen EXCEPT ![r.txn] = r.ts + Delay]
        /\ wCounts' = [wCounts EXCEPT ![KeyOf(r)] = @ + 1]
        /\ changed' = changed \cup {KeyOf(r)}
        /\ taken' = taken \cup {n}
    BY <1>8 DEF ReadRow
  <2>2. Passed(n) = taken \cup {n}
    BY <1>3, <1>4, <1>5, <1>8 DEF Duplicate
  <2>3. \A t \in Txns : wSeen'[t] = None <=> seen[t] = None /\ LateSoFar(t, n)
    <3>1. wSeen \in [Txns -> Nat \cup {None}]
      BY DEF Typed, TypeOK
    <3>0. r.ts + Delay # None
      BY <1>3, ConsumerAssumption
    <3>2. \A t \in Txns : wSeen'[t] = None <=> wSeen[t] = None /\ t # r.txn
      BY <1>3, <2>1, <3>0, <3>1
    <3> QED
      BY <1>4, <1>5, <1>8, <3>2
  <2>4. changed' = {KeyOf(log'[i]) : i \in taken'}
    BY <1>1, <1>4, <2>1
  <2>5. ASSUME NEW k \in Keys, WindowEnd(k) > lateWm
        PROVE  wCounts'[k] = CountIn(k, counted \cup taken)'
    <3>1. CountIn(k, C \cup {n}) = IF KeyOf(r) = k THEN CountIn(k, C) + 1 ELSE CountIn(k, C)
      BY <1>2, CountOneMore DEF Typed
    <3>2. wCounts[k] = CountIn(k, C) /\ wCounts \in [Keys -> Nat]
      BY <1>4, <2>5 DEF Typed, TypeOK
    <3>3. counted' \cup taken' = C \cup {n}
      BY <1>1, <2>1
    <3>4. CountIn(k, counted \cup taken)' = CountIn(k, C \cup {n})
      BY <1>1, <3>3 DEF CountIn, RowsIn
    <3> HIDE DEF n, r, C
    <3> QED
      BY <1>3, <2>1, <3>1, <3>2, <3>4
  <2> QED
    BY <1>1, <1>6, <2>1, <2>2, <2>3, <2>4, <2>5 DEF BatchInv
<1> QED
  BY <1>7, <1>8

\* A longer topic changes nothing a batch computes or a window counts.
LEMMA GrowthChangesNothing ==
    ASSUME TypeOK, TopicGrows
    PROVE  /\ \A k : \A A \in SUBSET (1 .. Len(log)) : CountIn(k, A)' = CountIn(k, A)
           /\ \A m \in 0 .. Len(log) : /\ Passed(m)' = Passed(m)
                                      /\ \A t : LateSoFar(t, m)' <=> LateSoFar(t, m)
<1>1. \A i \in 1 .. Len(log) : log'[i] = log[i]
  BY DEF TopicGrows
<1>2. UNCHANGED <<offset, lateWm, seen>> /\ offset \in Nat /\ Len(log) \in Nat
  BY LogTyped DEF TopicGrows, checkpoint, TypeOK
<1>3. \A k : \A A \in SUBSET (1 .. Len(log)) : CountIn(k, A)' = CountIn(k, A)
  BY <1>1 DEF CountIn, RowsIn
<1>4. \A m \in 0 .. Len(log) : \A t : LateSoFar(t, m)' <=> LateSoFar(t, m)
  BY <1>1, <1>2 DEF LateSoFar, Late
<1>5. ASSUME NEW m \in 0 .. Len(log)
      PROVE  Passed(m)' = Passed(m)
  <2>1. \A i \in offset + 1 .. m : i \in 1 .. Len(log) /\ i - 1 \in 0 .. Len(log)
    BY <1>2
  <2> QED
    BY <1>1, <1>2, <1>4, <2>1 DEF Passed, Late
<1> QED
  BY <1>3, <1>4, <1>5

LEMMA WindowEndType == \A k \in Keys : WindowEnd(k) \in Nat
<1>1. \A w \in Windows : w \in Nat
  BY ConsumerAssumption DEF Windows, WindowOf
<1>2. \A k \in Keys : k[1] \in Nat
  BY <1>1 DEF Keys
<1> QED
  BY <1>2, ConsumerAssumption DEF WindowEnd

\* What the MERGE writes for a window and category with a category is its exact count.
LEMMA MergedIsCount ==
    ASSUME Typed, BatchInv, SinkInv, phase = "merge", NEW k \in Keys, k[2] # NoCategory
    PROVE  (IF k \in changed THEN Merged(k) ELSE sink[k]) =
              IF CountIn(k, counted \cup taken) = 0 THEN <<>>
              ELSE <<CountIn(k, counted \cup taken)>>
<1> DEFINE C == counted \cup taken
           w == CountIn(k, C)
<1>1. /\ C \subseteq 1 .. Len(log) /\ pos = planned /\ taken = Passed(planned)
      /\ changed = {KeyOf(log[i]) : i \in taken} /\ lateWm \in Nat
  <2>1. Running
    BY DEF Running
  <2> QED
    BY <2>1, BatchPlace DEF BatchInv, Typed, BatchOK
<1>2. sink[k] = IF CountIn(k, shown) = 0 THEN <<>> ELSE <<CountIn(k, shown)>>
  BY DEF SinkInv
<1>3. CASE k \in changed
  <2>1. PICK i \in taken : KeyOf(log[i]) = k
    BY <1>1, <1>3
  <2>2. log[i] \in Row /\ log[i].ts \in Nat /\ ~Late(log[i]) /\ i \in C
    BY <1>1, <2>1, LogTyped DEF Typed, Passed
  <2>3. WindowEnd(k) > lateWm
    BY <1>1, <2>1, <2>2, WindowAhead, WindowEndType DEF Late
  <2>4. wCounts[k] = w
    BY <2>3 DEF BatchInv, Running
  <2>5. w # 0
    BY <1>1, <2>1, <2>2, CountType DEF Typed
  <2>6. Merged(k) = <<wCounts[k]>>
    <3>1. CASE sink[k] = <<>>
      BY <3>1 DEF Merged
    <3>2. CASE sink[k] # <<>>
      <4>1. Len(sink[k]) = 1
        BY <1>2, <3>2
      <4> QED
        BY <3>2, <4>1 DEF Merged
    <3> QED
      BY <3>1, <3>2
  <2> QED
    BY <1>3, <2>4, <2>5, <2>6
<1>4. CASE k \notin changed
  <2>1. \A i \in taken : KeyOf(log[i]) # k
    BY <1>1, <1>4
  <2>2. CountIn(k, C) = CountIn(k, counted)
    BY <2>1, CountElsewhere
  <2>3. shown = counted \/ shown = C
    BY <1>1 DEF SinkInv
  <2> QED
    BY <1>2, <1>4, <2>2, <2>3
<1> QED
  BY <1>3, <1>4

LEMMA PromiseMerge ==
    ASSUME Typed, BatchInv, SinkInv, Merge
    PROVE  BatchInv' /\ SinkInv'
<1>1. /\ UNCHANGED <<log, checkpoint, working, counted>> /\ Running
      /\ phase = "merge" /\ phase' = "commit" /\ shown' = counted \cup taken
      /\ sink' = [k \in Keys |-> IF k \in changed THEN Merged(k) ELSE sink[k]]
  BY DEF Merge, Running
<1>2. pos = planned /\ planned # None /\ taken = Passed(planned)
  BY <1>1 DEF Typed, BatchOK, BatchInv
<1>3. BatchInv'
  BY <1>1 DEF BatchInv, checkpoint, working, Passed, LateSoFar, Late, CountIn, RowsIn
<1>4. \A k, A : CountIn(k, A)' = CountIn(k, A')
  BY <1>1 DEF CountIn, RowsIn
<1>5. Passed(planned)' = Passed(planned)
  BY <1>1 DEF checkpoint, Passed, LateSoFar, Late
<1>6. ASSUME NEW k \in Keys, k[2] # NoCategory
      PROVE  sink'[k] = IF CountIn(k, shown)' = 0 THEN <<>> ELSE <<CountIn(k, shown)'>>
  <2>1. CountIn(k, shown)' = CountIn(k, counted \cup taken)
    BY <1>1 DEF CountIn, RowsIn
  <2> QED
    BY <1>1, <1>6, <2>1, MergedIsCount
<1>7. \A k \in Keys : WindowEnd(k) > lateWm' => counts'[k] = CountIn(k, counted)'
  BY <1>1 DEF SinkInv, CountIn, RowsIn, checkpoint
<1> QED
  BY <1>1, <1>2, <1>3, <1>5, <1>6, <1>7 DEF SinkInv, checkpoint, working

LEMMA PromiseCommit ==
    ASSUME Typed, DedupInv, BatchInv, SinkInv, Commit
    PROVE  BatchInv' /\ SinkInv'
<1>1. /\ Running /\ UNCHANGED <<log, sink, shown>> /\ shown = counted \cup taken
      /\ counted' = counted \cup taken /\ planned' = None /\ phase' = "idle"
      /\ lateWm' = nextWm
  BY DEF Commit, Running, SinkInv
<1>2. ASSUME NEW k \in Keys, WindowEnd(k) > lateWm'
      PROVE  counts'[k] = CountIn(k, counted)'
  <2>1. WindowEnd(k) > lateWm /\ ~(WindowEnd(k) <= nextWm)
    BY <1>1, <1>2, BatchPlace, WindowEndType DEF DedupInv
  <2>2. counts'[k] = wCounts[k]
    BY <2>1 DEF Commit
  <2>3. wCounts[k] = CountIn(k, counted \cup taken)
    BY <1>1, <2>1 DEF BatchInv
  <2> QED
    BY <1>1, <2>2, <2>3 DEF CountIn, RowsIn
<1>3. \A k : CountIn(k, shown)' = CountIn(k, shown)
  BY <1>1 DEF CountIn, RowsIn
<1> QED
  BY <1>1, <1>2, <1>3 DEF SinkInv, BatchInv, Running

\* The batch begins with nothing counted, first time or replay.
LEMMA PromiseBegin ==
    ASSUME Typed, BatchInv, SinkInv, Begin
    PROVE  BatchInv' /\ SinkInv'
<1>1. /\ UNCHANGED <<log, checkpoint, sink, counted, shown>> /\ phase' = "rows"
      /\ pos' = offset /\ wSeen' = seen /\ wCounts' = counts /\ changed' = {} /\ taken' = {}
  BY DEF Begin
<1>2. offset \in Nat
  BY LogTyped DEF Typed, TypeOK
<1>3. offset + 1 .. offset = {}
  BY <1>2
<1>4. Passed(pos)' = {} /\ \A t : LateSoFar(t, pos)'
  BY <1>1, <1>3 DEF Passed, LateSoFar, checkpoint
<1>5. \A k : /\ CountIn(k, counted \cup taken)' = CountIn(k, counted)
             /\ CountIn(k, counted)' = CountIn(k, counted)
             /\ CountIn(k, shown)' = CountIn(k, shown)
  BY <1>1 DEF CountIn, RowsIn
<1>6. Passed(planned)' = Passed(planned)
  BY <1>1 DEF checkpoint, Passed, LateSoFar, Late
<1>7. BatchInv'
  BY <1>1, <1>4, <1>5 DEF BatchInv, SinkInv, checkpoint
<1> QED
  BY <1>1, <1>5, <1>6, <1>7 DEF SinkInv, checkpoint

LEMMA PromiseGrows ==
    ASSUME Typed, BatchInv, SinkInv, TopicGrows
    PROVE  BatchInv' /\ SinkInv'
<1>1. UNCHANGED <<checkpoint, sink, phase, working, counted, shown>>
  BY DEF TopicGrows
<1>2. /\ counted \subseteq 1 .. Len(log) /\ taken \subseteq 1 .. Len(log)
      /\ shown \subseteq 1 .. Len(log) /\ pos \in 0 .. Len(log)
      /\ planned # None => planned \in 0 .. Len(log)
  BY LogTyped DEF Typed, TypeOK
<1>3. \A i \in 1 .. Len(log) : log'[i] = log[i]
  BY DEF TopicGrows
<1>4. /\ \A k : /\ CountIn(k, counted)' = CountIn(k, counted)
                /\ CountIn(k, shown)' = CountIn(k, shown)
                /\ CountIn(k, counted \cup taken)' = CountIn(k, counted \cup taken)
      /\ Passed(pos)' = Passed(pos) /\ \A t : LateSoFar(t, pos)' <=> LateSoFar(t, pos)
      /\ planned # None => Passed(planned)' = Passed(planned)
  <2>1. \A k : /\ RowsIn(k, counted)' = RowsIn(k, counted)
               /\ RowsIn(k, shown)' = RowsIn(k, shown)
               /\ RowsIn(k, counted \cup taken)' = RowsIn(k, counted \cup taken)
    BY <1>1, <1>2, <1>3 DEF RowsIn, working
  <2>2. UNCHANGED <<offset, lateWm, seen, pos, planned>>
    BY <1>1 DEF checkpoint, working
  <2>3. \A m \in 0 .. Len(log) : /\ Passed(m)' = Passed(m)
                                 /\ \A t : LateSoFar(t, m)' <=> LateSoFar(t, m)
    BY GrowthChangesNothing DEF Typed
  <2>4. Passed(pos)' = Passed(pos) /\ \A t : LateSoFar(t, pos)' <=> LateSoFar(t, pos)
    BY <1>2, <2>2, <2>3 DEF Passed, LateSoFar
  <2>5. planned # None => Passed(planned)' = Passed(planned)
    BY <1>2, <2>2, <2>3 DEF Passed
  <2> QED
    BY <2>1, <2>4, <2>5 DEF CountIn
<1>5. BatchInv'
  <2>1. {KeyOf(log'[i]) : i \in taken} = {KeyOf(log[i]) : i \in taken}
    BY <1>2, <1>3
  <2> QED
    BY <1>1, <1>4, <2>1 DEF BatchInv, Running, checkpoint, working
<1> QED
  BY <1>1, <1>4, <1>5 DEF SinkInv, checkpoint, working

\* A step that leaves the checkpoint, the table and the batch's work alone.
LEMMA PromiseStutter ==
    ASSUME BatchInv, SinkInv, UNCHANGED <<log, checkpoint, sink, working, counted, shown>>,
           Running' => Running, phase' = "commit" => shown = counted \cup taken
    PROVE  BatchInv' /\ SinkInv'
<1>1. \A k, A : CountIn(k, A)' = CountIn(k, A')
  BY DEF CountIn, RowsIn
<1>2. \A m : Passed(m)' = Passed(m') /\ \A t : LateSoFar(t, m)' <=> LateSoFar(t, m')
  BY DEF Passed, LateSoFar, Late, checkpoint
<1>3. BatchInv'
  BY <1>1, <1>2 DEF BatchInv, checkpoint, working, Passed, LateSoFar, Late, CountIn, RowsIn
<1>4. SinkInv'
  BY <1>1, <1>2 DEF SinkInv, checkpoint, working, Passed, LateSoFar, Late, CountIn, RowsIn
<1> QED
  BY <1>3, <1>4

\* A batch that emits no window counts no row: there is nothing to merge.
LEMMA PromiseEnforce ==
    ASSUME Typed, BatchInv, SinkInv, Enforce
    PROVE  BatchInv' /\ SinkInv'
<1>1. Running /\ UNCHANGED <<log, checkpoint, sink, working, counted, shown>>
  BY DEF Enforce, Running
<1>2. phase' = "commit" => shown = counted \cup taken
  <2> SUFFICES ASSUME phase' = "commit"
               PROVE  shown = counted \cup taken
    OBVIOUS
  <2>1. changed = {} /\ phase = "rows" /\ pos = planned
    BY DEF Enforce
  <2>2. taken = {} /\ taken = Passed(planned)
    BY <1>1, <2>1 DEF BatchInv
  <2> QED
    BY <2>2 DEF SinkInv
<1> QED
  BY <1>1, <1>2, PromiseStutter

LEMMA PromisePlan ==
    ASSUME Typed, BatchInv, SinkInv, Plan
    PROVE  BatchInv' /\ SinkInv'
<1>1. /\ UNCHANGED <<log, offset, lateWm, seen, counts, sink, phase, counted, shown>>
      /\ phase = "idle" /\ planned = None
  BY DEF Plan
<1>2. shown = counted /\ ~Running'
  BY <1>1 DEF SinkInv, Running
<1>3. \A k : CountIn(k, shown)' = CountIn(k, shown) /\ CountIn(k, counted)' = CountIn(k, counted)
  BY <1>1 DEF CountIn, RowsIn
<1> QED
  BY <1>1, <1>2, <1>3 DEF SinkInv, BatchInv

LEMMA PromiseReadRow ==
    ASSUME Typed, BatchInv, SinkInv, ReadRow
    PROVE  BatchInv' /\ SinkInv'
<1>1. /\ UNCHANGED <<log, offset, planned, lateWm, seen, counts, sink, counted, shown>>
      /\ phase' = "rows"
  BY DEF ReadRow, checkpoint
<1>2. \A k : CountIn(k, shown)' = CountIn(k, shown) /\ CountIn(k, counted)' = CountIn(k, counted)
  BY <1>1 DEF CountIn, RowsIn
<1>3. Passed(planned)' = Passed(planned)
  BY <1>1 DEF Passed, LateSoFar, Late
<1> QED
  BY <1>1, <1>2, <1>3, BatchReadRow DEF SinkInv

LEMMA BlankPromise == Blank => BatchInv /\ SinkInv
<1> SUFFICES ASSUME Blank
             PROVE  BatchInv /\ SinkInv
  OBVIOUS
<1>1. \A k : RowsIn(k, {}) = {} /\ CountIn(k, {}) = 0
  BY FS_EmptySet DEF CountIn, RowsIn
<1> QED
  BY <1>1 DEF Blank, BatchInv, SinkInv, Running

LEMMA PromiseStep ==
    ASSUME Typed, DedupInv, BatchInv, SinkInv, Step
    PROVE  BatchInv' /\ SinkInv'
<1>1. CASE TopicGrows
  BY <1>1, PromiseGrows
<1>2. CASE Start \/ QueryEnds \/ UNCHANGED vars
  <2>1. /\ UNCHANGED <<log, checkpoint, sink, working, counted, shown>>
        /\ Running' => Running /\ phase' = phase
    BY <1>2 DEF Start, QueryEnds, vars, Running
  <2> QED
    BY <2>1, PromiseStutter DEF SinkInv, Running
<1>3. CASE Plan
  BY <1>3, PromisePlan
<1>4. CASE Begin
  BY <1>4, PromiseBegin
<1>5. CASE ReadRow
  BY <1>5, PromiseReadRow
<1>6. CASE Enforce
  BY <1>6, PromiseEnforce
<1>7. CASE Merge
  BY <1>7, PromiseMerge
<1>8. CASE Commit
  BY <1>8, PromiseCommit
<1> QED
  BY <1>1, <1>2, <1>3, <1>4, <1>5, <1>6, <1>7, <1>8 DEF Step, Query

LEMMA PromiseInvariant == Spec => [](BatchInv /\ SinkInv)
<1>1. Typed /\ DedupInv /\ BatchInv /\ SinkInv /\ [Next]_vars => (BatchInv /\ SinkInv)'
  <2> SUFFICES ASSUME Typed, DedupInv, BatchInv, SinkInv, [Next]_vars
               PROVE  BatchInv' /\ SinkInv'
    OBVIOUS
  <2> QED
    BY NextSteps, PromiseStep DEF Typed
<1> QED
  BY <1>1, InitBlank, BlankPromise, TypeCorrect, DedupInvariant, PTL DEF Spec

\* Between batches the sink holds, for every window with a category, one row with the exact
\* number of the rows counted, whatever was replayed, evicted or restarted before.
THEOREM SinkExactAlways == Spec => []SinkExact
<1>1. SinkInv => SinkExact
  <2> SUFFICES ASSUME SinkInv, planned = None, NEW k \in Keys, k[2] # NoCategory
               PROVE  sink[k] = IF CountedIn(k) = 0 THEN <<>> ELSE <<CountedIn(k)>>
    BY DEF SinkExact
  <2>1. shown = counted /\ CountedIn(k) = CountIn(k, counted)
    BY DEF SinkInv, CountedIn, CountIn, RowsIn
  <2> QED
    BY <2>1 DEF SinkInv
<1> QED
  BY <1>1, PromiseInvariant, PTL

-----------------------------------------------------------------------------
(* Amounts and frauds *)

LEMMA FraudsType ==
    ASSUME TypeOK, NEW A \in SUBSET (1 .. Len(log)), NEW k
    PROVE  /\ [i \in RowsIn(k, A) |-> FraudOf[log[i].txn]] \in [RowsIn(k, A) -> Nat]
           /\ FraudsIn(k, A) = SumOf([i \in RowsIn(k, A) |-> FraudOf[log[i].txn]])
           /\ FraudsIn(k, A) \in Nat
<1>1. [i \in RowsIn(k, A) |-> FraudOf[log[i].txn]] \in [RowsIn(k, A) -> Nat]
  BY LogTyped, ConsumerAssumption DEF RowsIn
<1>2. FraudsIn(k, A) = SumOf([i \in RowsIn(k, A) |-> FraudOf[log[i].txn]])
  BY DEF FraudsIn, RowsIn
<1>3. IsFiniteSet(RowsIn(k, A))
  BY CountType
<1> QED
  BY <1>1, <1>2, <1>3, SumIsNatural

LEMMA FraudsOneMore ==
    ASSUME TypeOK, NEW A \in SUBSET (1 .. Len(log)), NEW n \in 1 .. Len(log), n \notin A, NEW k
    PROVE  FraudsIn(k, A \cup {n}) = IF KeyOf(log[n]) = k
                                     THEN FraudsIn(k, A) + FraudOf[log[n].txn]
                                     ELSE FraudsIn(k, A)
<1> DEFINE F(S) == [i \in S |-> FraudOf[log[i].txn]]
<1>1. /\ IsFiniteSet(RowsIn(k, A)) /\ A \cup {n} \in SUBSET (1 .. Len(log))
      /\ FraudOf[log[n].txn] \in Nat
  BY CountType, LogTyped, ConsumerAssumption
<1>2. /\ F(RowsIn(k, A)) \in [RowsIn(k, A) -> Nat]
      /\ FraudsIn(k, A) = SumOf(F(RowsIn(k, A)))
  BY FraudsType
<1>3. /\ F(RowsIn(k, A \cup {n})) \in [RowsIn(k, A \cup {n}) -> Nat]
      /\ FraudsIn(k, A \cup {n}) = SumOf(F(RowsIn(k, A \cup {n})))
  BY <1>1, FraudsType
<1>4. CASE KeyOf(log[n]) = k
  <2>1. RowsIn(k, A \cup {n}) = RowsIn(k, A) \cup {n} /\ n \notin RowsIn(k, A)
    BY <1>4 DEF RowsIn
  <2> DEFINE D == RowsIn(k, A)
             f == F(D)
             g == F(D \cup {n})
             m == FraudOf[log[n].txn]
  <2>2. g[n] = m /\ \A i \in D : g[i] = f[i]
    OBVIOUS
  <2>3. f \in [D -> Nat] /\ g \in [D \cup {n} -> Nat] /\ IsFiniteSet(D) /\ n \notin D /\ m \in Nat
    BY <1>1, <1>2, <1>3, <2>1
  <2>4. FraudsIn(k, A) = SumOf(f) /\ FraudsIn(k, A \cup {n}) = SumOf(g)
    BY <1>2, <1>3, <2>1
  <2>5. SumOf(g) = SumOf(f) + m
    <3> HIDE DEF D, f, g, m, F
    <3> QED
      BY <2>2, <2>3, SumOneMore
  <2> QED
    BY <1>4, <2>4, <2>5
<1>5. CASE KeyOf(log[n]) # k
  <2>1. RowsIn(k, A \cup {n}) = RowsIn(k, A)
    BY <1>5 DEF RowsIn
  <2> QED
    BY <1>2, <1>3, <1>5, <2>1
<1> QED
  BY <1>4, <1>5

\* The rows of A in window and category k include one with an amount.
PricedIn(k, A) == \E i \in A : KeyOf(log[i]) = k /\ log[i].txn \in HasAmount

\* The aggregation state, of the checkpoint and of a batch under way: live windows hold the
\* frauds of the rows counted, and a window said to have an amount has one.
TallyInv ==
    /\ \A k \in Keys : WindowEnd(k) > lateWm => frauds[k] = FraudsIn(k, counted)
    /\ \A k \in priced : PricedIn(k, counted)
    /\ Running =>
        /\ \A k \in Keys :
              WindowEnd(k) > lateWm => wFrauds[k] = FraudsIn(k, counted \cup taken)
        /\ \A k \in wPriced : PricedIn(k, counted \cup taken)

\* What keeps a window out of the counts that lacks an amount or has more frauds than rows.
WindowsWhole ==
    /\ \A i \in counted : PricedIn(KeyOf(log[i]), counted)
    /\ \A k \in Keys : FraudsIn(k, counted) <= CountIn(k, counted)
    /\ phase \in {"merge", "commit"} =>
          \A k \in changed : k \in wPriced /\ wFrauds[k] <= wCounts[k]

LEMMA FraudsElsewhere ==
    ASSUME NEW A, NEW B, NEW k, \A i \in B : KeyOf(log[i]) # k
    PROVE  FraudsIn(k, A \cup B) = FraudsIn(k, A)
<1>1. {j \in A \cup B : KeyOf(log[j]) = k} = {j \in A : KeyOf(log[j]) = k}
  OBVIOUS
<1> QED
  BY <1>1 DEF FraudsIn

\* Rows that are still where they were are fraud to the same number.
LEMMA SameFrauds ==
    ASSUME NEW k, NEW A, \A i \in A : log'[i] = log[i]
    PROVE  SumOf([i \in {j \in A : KeyOf(log'[j]) = k} |-> FraudOf[log'[i].txn]])
              = FraudsIn(k, A)
<1>1. {j \in A : KeyOf(log'[j]) = k} = {j \in A : KeyOf(log[j]) = k}
  OBVIOUS
<1>2. [i \in {j \in A : KeyOf(log'[j]) = k} |-> FraudOf[log'[i].txn]]
        = [i \in {j \in A : KeyOf(log[j]) = k} |-> FraudOf[log[i].txn]]
  BY <1>1
<1> QED
  BY <1>2 DEF FraudsIn

LEMMA BlankTally == Blank => TallyInv /\ WindowsWhole
<1> SUFFICES ASSUME Blank
             PROVE  TallyInv /\ WindowsWhole
  OBVIOUS
<1>1. \A k : FraudsIn(k, {}) = 0 /\ CountIn(k, {}) = 0
  <2>1. \A k : {j \in {} : KeyOf(log[j]) = k} = {} /\ RowsIn(k, {}) = {}
    BY DEF RowsIn
  <2>2. [i \in {} |-> FraudOf[log[i].txn]] = <<>>
    OBVIOUS
  <2> QED
    BY <2>1, <2>2, SumOfFew, FS_EmptySet DEF FraudsIn, CountIn
<1> QED
  BY <1>1 DEF Blank, TallyInv, WindowsWhole, Running

LEMMA TallyReadRow ==
    ASSUME Typed, TallyInv, ReadRow
    PROVE  TallyInv'
<1> DEFINE n == pos + 1
           r == log[n]
           C == counted \cup taken
<1>1. /\ Running /\ Running' /\ UNCHANGED <<log, lateWm, frauds, priced, counted>>
  BY DEF ReadRow, Running, checkpoint
<1>2. n \in 1 .. Len(log) /\ C \in SUBSET (1 .. Len(log)) /\ n \notin C
  BY <1>1, BatchPlace DEF ReadRow
<1>3. KeyOf(r) \in Keys /\ FraudOf[r.txn] \in Nat /\ wFrauds \in [Keys -> Nat]
  BY <1>2, LogTyped, ConsumerAssumption DEF Typed, TypeOK
<1>4. /\ \A k \in Keys : WindowEnd(k) > lateWm => wFrauds[k] = FraudsIn(k, C)
      /\ \A k \in wPriced : PricedIn(k, C)
  BY <1>1 DEF TallyInv
<1>5. /\ \A k \in Keys : WindowEnd(k) > lateWm' => frauds'[k] = FraudsIn(k, counted)'
      /\ \A k \in priced' : PricedIn(k, counted)'
  BY <1>1 DEF TallyInv, FraudsIn, PricedIn
<1>6. CASE UNCHANGED <<wFrauds, wPriced, taken>>
  BY <1>1, <1>4, <1>5, <1>6 DEF TallyInv, FraudsIn, PricedIn
<1>7. CASE /\ wFrauds' = [wFrauds EXCEPT ![KeyOf(r)] = @ + FraudOf[r.txn]]
           /\ wPriced' = IF r.txn \in HasAmount THEN wPriced \cup {KeyOf(r)} ELSE wPriced
           /\ taken' = taken \cup {n}
  <2>1. (counted \cup taken)' = C \cup {n}
    BY <1>1, <1>7
  <2>2. ASSUME NEW k \in Keys, WindowEnd(k) > lateWm'
        PROVE  wFrauds'[k] = FraudsIn(k, counted \cup taken)'
    <3>1. FraudsIn(k, counted \cup taken)' = FraudsIn(k, C \cup {n})
      BY <1>1, <2>1 DEF FraudsIn
    <3>2. FraudsIn(k, C \cup {n}) = IF KeyOf(r) = k THEN FraudsIn(k, C) + FraudOf[r.txn]
                                                    ELSE FraudsIn(k, C)
      BY <1>2, FraudsOneMore DEF Typed
    <3>3. wFrauds[k] = FraudsIn(k, C)
      BY <1>1, <1>4, <2>2
    <3> HIDE DEF n, r, C
    <3> QED
      BY <1>3, <1>7, <3>1, <3>2, <3>3
  <2>3. ASSUME NEW k \in wPriced'
        PROVE  PricedIn(k, counted \cup taken)'
    <3>1. CASE k \in wPriced
      BY <1>1, <1>4, <2>1, <3>1 DEF PricedIn
    <3>2. CASE k \notin wPriced
      <4>1. k = KeyOf(r) /\ r.txn \in HasAmount
        BY <1>7, <2>3, <3>2
      <4> QED
        BY <1>1, <2>1, <4>1 DEF PricedIn
    <3> QED
      BY <3>1, <3>2
  <2> QED
    BY <1>5, <2>2, <2>3 DEF TallyInv
<1> QED
  BY <1>6, <1>7 DEF ReadRow

LEMMA TallyCommit ==
    ASSUME Typed, DedupInv, TallyInv, Commit
    PROVE  TallyInv'
<1>1. /\ Running /\ ~Running' /\ UNCHANGED log
      /\ counted' = counted \cup taken /\ lateWm' = nextWm
  BY DEF Commit, Running
<1>2. ASSUME NEW k \in Keys, WindowEnd(k) > lateWm'
      PROVE  frauds'[k] = FraudsIn(k, counted)'
  <2>1. WindowEnd(k) > lateWm /\ ~(WindowEnd(k) <= nextWm)
    BY <1>1, <1>2, BatchPlace, WindowEndType DEF DedupInv
  <2>2. frauds'[k] = wFrauds[k]
    BY <2>1 DEF Commit
  <2>3. wFrauds[k] = FraudsIn(k, counted \cup taken)
    BY <1>1, <2>1 DEF TallyInv
  <2> QED
    BY <1>1, <2>2, <2>3 DEF FraudsIn
<1>3. ASSUME NEW k \in priced'
      PROVE  PricedIn(k, counted)'
  <2>1. k \in wPriced
    BY DEF Commit
  <2> QED
    BY <1>1, <2>1 DEF TallyInv, PricedIn
<1> QED
  BY <1>1, <1>2, <1>3 DEF TallyInv

LEMMA TallyStep ==
    ASSUME Typed, DedupInv, TallyInv, Step
    PROVE  TallyInv'
<1>1. CASE TopicGrows
  <2>1. UNCHANGED <<lateWm, frauds, priced, counted, phase, wFrauds, wPriced, taken>>
    BY <1>1 DEF TopicGrows, checkpoint, working
  <2>2. \A i \in counted \cup taken : log'[i] = log[i]
    BY <1>1 DEF TopicGrows, Typed, TypeOK, BatchOK
  <2>3. \A k : /\ FraudsIn(k, counted)' = FraudsIn(k, counted)
               /\ FraudsIn(k, counted \cup taken)' = FraudsIn(k, counted \cup taken)
    <3> SUFFICES ASSUME NEW k
                 PROVE  /\ FraudsIn(k, counted)' = FraudsIn(k, counted)
                        /\ FraudsIn(k, counted \cup taken)' = FraudsIn(k, counted \cup taken)
      OBVIOUS
    <3>1. FraudsIn(k, counted)' = SumOf([i \in {j \in counted : KeyOf(log'[j]) = k}
                                           |-> FraudOf[log'[i].txn]])
      BY <2>1 DEF FraudsIn
    <3>2. FraudsIn(k, counted \cup taken)'
            = SumOf([i \in {j \in counted \cup taken : KeyOf(log'[j]) = k}
                       |-> FraudOf[log'[i].txn]])
      BY <2>1 DEF FraudsIn
    <3> QED
      BY <2>2, <3>1, <3>2, SameFrauds
  <2>4. \A k : /\ PricedIn(k, counted) => PricedIn(k, counted)'
               /\ PricedIn(k, counted \cup taken) => PricedIn(k, counted \cup taken)'
    BY <2>1, <2>2 DEF PricedIn
  <2> QED
    BY <2>1, <2>3, <2>4 DEF TallyInv, Running
<1>2. CASE Begin
  <2>1. /\ UNCHANGED <<log, lateWm, frauds, priced, counted>>
        /\ wFrauds' = frauds /\ wPriced' = priced /\ taken' = {}
    BY <1>2 DEF Begin, checkpoint
  <2>2. (counted \cup taken)' = counted
    BY <2>1
  <2> QED
    BY <2>1, <2>2 DEF TallyInv, FraudsIn, PricedIn
<1>3. CASE ReadRow
  BY <1>3, TallyReadRow
<1>4. CASE Commit
  BY <1>4, TallyCommit
<1>5. CASE Start \/ Plan \/ Enforce \/ Merge \/ QueryEnds \/ UNCHANGED vars
  <2>1. /\ UNCHANGED <<log, lateWm, frauds, priced, counted, wFrauds, wPriced, taken>>
        /\ Running' => Running
    BY <1>5 DEF Start, Plan, Enforce, Merge, QueryEnds, vars, checkpoint, working, Running
  <2> QED
    BY <2>1 DEF TallyInv, FraudsIn, PricedIn
<1> QED
  BY <1>1, <1>2, <1>3, <1>4, <1>5 DEF Step, Query

\* The windows of a batch that commits have an amount and no more frauds than rows, with the
\* rows counted before as with its own; of the other windows nothing changes.
LEMMA WholeCommit ==
    ASSUME Typed, BatchInv, TallyInv, WindowsWhole, Commit
    PROVE  WindowsWhole'
<1> DEFINE C == counted \cup taken
<1>1. /\ Running /\ UNCHANGED log /\ counted' = C /\ phase' = "idle"
      /\ \A k \in changed : k \in wPriced /\ wFrauds[k] <= wCounts[k]
  BY DEF Commit, Running, WindowsWhole
<1>2. /\ C \subseteq 1 .. Len(log) /\ lateWm \in Nat
      /\ taken = Passed(pos) /\ changed = {KeyOf(log[i]) : i \in taken}
      /\ \A k \in Keys : WindowEnd(k) > lateWm => wCounts[k] = CountIn(k, C)
  BY <1>1, BatchPlace DEF BatchInv
<1>3. \A k \in Keys : WindowEnd(k) > lateWm => wFrauds[k] = FraudsIn(k, C)
  BY <1>1 DEF TallyInv
<1>4. \A k \in wPriced : PricedIn(k, C)
  BY <1>1 DEF TallyInv
<1>5. \A i \in C : PricedIn(KeyOf(log[i]), C)
  <2>1. \A i \in taken : PricedIn(KeyOf(log[i]), C)
    BY <1>1, <1>2, <1>4
  <2>2. \A i \in counted : PricedIn(KeyOf(log[i]), C)
    BY DEF WindowsWhole, PricedIn
  <2> QED
    BY <2>1, <2>2
<1>6. ASSUME NEW k \in Keys
      PROVE  FraudsIn(k, C) <= CountIn(k, C)
  <2>1. CASE k \in changed
    <3>1. PICK i \in taken : KeyOf(log[i]) = k
      BY <1>2, <2>1
    <3>2. log[i] \in Row /\ log[i].ts \in Nat /\ ~Late(log[i])
      BY <1>2, <3>1, LogTyped DEF Typed, Passed
    <3>3. WindowEnd(k) > lateWm
      BY <1>2, <3>1, <3>2, WindowAhead, WindowEndType DEF Late
    <3> QED
      BY <1>1, <1>2, <1>3, <2>1, <3>3
  <2>2. CASE k \notin changed
    <3>1. \A i \in taken : KeyOf(log[i]) # k
      BY <1>2, <2>2
    <3>2. FraudsIn(k, C) = FraudsIn(k, counted) /\ CountIn(k, C) = CountIn(k, counted)
      BY <3>1, FraudsElsewhere, CountElsewhere
    <3> QED
      BY <3>2 DEF WindowsWhole
  <2> QED
    BY <2>1, <2>2
<1>7. /\ \A k, i : PricedIn(KeyOf(log[i]), counted)' <=> PricedIn(KeyOf(log[i]), C)
      /\ \A k : FraudsIn(k, counted)' = FraudsIn(k, C) /\ CountIn(k, counted)' = CountIn(k, C)
  BY <1>1 DEF PricedIn, FraudsIn, CountIn, RowsIn
<1> QED
  BY <1>1, <1>5, <1>6, <1>7 DEF WindowsWhole

LEMMA WholeStep ==
    ASSUME OnViolation = "fail", Typed, BatchInv, TallyInv, WindowsWhole, Step
    PROVE  WindowsWhole'
<1>1. CASE TopicGrows
  <2>1. UNCHANGED <<counted, phase, changed, wPriced, wFrauds, wCounts>>
    BY <1>1 DEF TopicGrows, working
  <2>2. \A i \in counted : log'[i] = log[i]
    BY <1>1 DEF TopicGrows, Typed, TypeOK
  <2>3. ASSUME NEW k
        PROVE  /\ FraudsIn(k, counted)' = FraudsIn(k, counted)
               /\ CountIn(k, counted)' = CountIn(k, counted)
    <3>1. FraudsIn(k, counted)' = SumOf([i \in {j \in counted : KeyOf(log'[j]) = k}
                                           |-> FraudOf[log'[i].txn]])
      BY <2>1 DEF FraudsIn
    <3>2. CountIn(k, counted)' = CountIn(k, counted)
      <4>1. RowsIn(k, counted)' = RowsIn(k, counted)
        BY <2>1, <2>2 DEF RowsIn
      <4> QED
        BY <4>1 DEF CountIn
    <3> QED
      BY <2>2, <3>1, <3>2, SameFrauds
  <2>4. \A i \in counted : PricedIn(KeyOf(log[i]), counted)'
    BY <2>1, <2>2 DEF WindowsWhole, PricedIn
  <2>5. \A i \in counted' : PricedIn(KeyOf(log[i]), counted)'
    BY <2>1, <2>2, <2>4 DEF PricedIn
  <2> QED
    BY <2>1, <2>3, <2>5 DEF WindowsWhole
<1>2. CASE Enforce
  <2>1. UNCHANGED <<log, counted, changed, wPriced, wFrauds, wCounts>>
    BY <1>2 DEF Enforce, checkpoint, working
  <2>2. wFrauds \in [Keys -> Nat] /\ wCounts \in [Keys -> Nat] /\ changed \subseteq Keys
    BY DEF Typed, TypeOK
  <2>3. phase' \in {"merge", "commit"} =>
          \A k \in changed : k \in wPriced /\ wFrauds[k] <= wCounts[k]
    BY <1>2, <2>2 DEF Enforce, Breach
  <2> QED
    BY <2>1, <2>3 DEF WindowsWhole, PricedIn, FraudsIn, CountIn, RowsIn
<1>3. CASE Commit
  BY <1>3, WholeCommit
<1>4. CASE Start \/ Plan \/ Begin \/ ReadRow \/ QueryEnds
  <2>1. UNCHANGED <<log, counted>> /\ phase' \notin {"merge", "commit"}
    BY <1>4 DEF Start, Plan, Begin, ReadRow, QueryEnds, checkpoint
  <2> QED
    BY <2>1 DEF WindowsWhole, PricedIn, FraudsIn, CountIn, RowsIn
<1>5. CASE Merge \/ UNCHANGED vars
  <2>1. /\ UNCHANGED <<log, counted, changed, wPriced, wFrauds, wCounts>>
        /\ phase' \in {"merge", "commit"} => phase \in {"merge", "commit"}
    BY <1>5 DEF Merge, vars, checkpoint, working
  <2> QED
    BY <2>1 DEF WindowsWhole, PricedIn, FraudsIn, CountIn, RowsIn
<1> QED
  BY <1>1, <1>2, <1>3, <1>4, <1>5 DEF Step, Query

LEMMA TallyInvariant == Spec => [](TallyInv /\ (OnViolation = "fail" => WindowsWhole))
<1>1. /\ Typed /\ DedupInv /\ BatchInv /\ TallyInv /\ (OnViolation = "fail" => WindowsWhole)
      /\ [Next]_vars
      => (TallyInv /\ (OnViolation = "fail" => WindowsWhole))'
  <2> SUFFICES ASSUME Typed, DedupInv, BatchInv, TallyInv, [Next]_vars,
                      OnViolation = "fail" => WindowsWhole
               PROVE  TallyInv' /\ (OnViolation = "fail" => WindowsWhole')
    OBVIOUS
  <2> QED
    BY NextSteps, TallyStep, WholeStep DEF Typed
<1> QED
  BY <1>1, InitBlank, BlankTally, TypeCorrect, DedupInvariant, PromiseInvariant, PTL DEF Spec

\* Under on_violation=fail no row of a NULL category is ever merged or counted, and no window
\* is counted without an amount or with more frauds than rows.
THEOREM BreachHoldsOffsetsAlways == Spec => []BreachHoldsOffsets
<1>1. (OnViolation = "fail" => NothingBroken /\ WindowsWhole) => BreachHoldsOffsets
  <2> SUFFICES ASSUME OnViolation = "fail", NothingBroken, WindowsWhole
               PROVE  BreachHoldsOffsets
    BY DEF BreachHoldsOffsets
  <2>1. \A k : CountedIn(k) = CountIn(k, counted)
    BY DEF CountedIn, CountIn, RowsIn
  <2> QED
    BY <2>1 DEF NothingBroken, WindowsWhole, PricedIn, BreachHoldsOffsets
<1> QED
  BY <1>1, NothingBrokenInvariant, TallyInvariant, PTL

-----------------------------------------------------------------------------
(* What the sink shows *)

\* It has a category.
ShownNamed == \A i \in shown : CategoryOf[log[i].txn] # NoCategory

LEMMA BlankNamed == Blank => ShownNamed
  BY DEF Blank, ShownNamed

LEMMA ShownNamedStep ==
    ASSUME Typed, NothingBroken, ShownNamed, Step
    PROVE  ShownNamed'
<1>1. CASE TopicGrows
  <2>1. \A i \in shown : log'[i] = log[i]
    BY <1>1 DEF TopicGrows, Typed, TypeOK
  <2> QED
    BY <1>1, <2>1 DEF TopicGrows, ShownNamed
<1>2. CASE Merge
  <2>1. \A i \in taken : KeyOf(log[i]) \in changed /\ KeyOf(log[i])[2] # NoCategory
    BY <1>2 DEF Merge, NothingBroken, Running
  <2>2. \A i \in counted \cup taken : CategoryOf[log[i].txn] # NoCategory
    BY <2>1 DEF NothingBroken, KeyOf
  <2> QED
    BY <1>2, <2>2 DEF Merge, ShownNamed
<1>3. CASE UNCHANGED <<log, shown>>
  BY <1>3 DEF ShownNamed
<1> QED
  BY <1>1, <1>2, <1>3
     DEF Step, Query, Start, Plan, Begin, ReadRow, Enforce, Commit, QueryEnds, vars

LEMMA ShownNamedInvariant == Spec => [](OnViolation = "fail" => ShownNamed)
<1>1. /\ Typed /\ (OnViolation = "fail" => NothingBroken)
      /\ (OnViolation = "fail" => ShownNamed) /\ [Next]_vars
      => (OnViolation = "fail" => ShownNamed)'
  <2> SUFFICES ASSUME OnViolation = "fail", Typed, NothingBroken, ShownNamed, [Next]_vars
               PROVE  ShownNamed'
    OBVIOUS
  <2> QED
    BY NextSteps, ShownNamedStep DEF Typed
<1> QED
  BY <1>1, InitBlank, BlankNamed, TypeCorrect, NothingBrokenInvariant, PTL DEF Spec

-----------------------------------------------------------------------------
(* All together *)

\* What holds of the consumer whatever surrounds it.
ConsumerInv ==
    /\ Typed /\ DedupInv /\ DropsInv /\ BatchInv /\ SinkInv /\ TallyInv
    /\ OnViolation = "fail" => NothingBroken /\ ShownNamed /\ WindowsWhole

LEMMA BlankConsumer == Blank => ConsumerInv
  BY BlankTyped, BlankDedup, BlankDrops, BlankPromise, BlankUnbroken, BlankNamed,
     BlankTally
     DEF ConsumerInv

LEMMA ConsumerStep ==
    ASSUME ConsumerInv, Step
    PROVE  ConsumerInv'
<1>1. Typed' /\ DedupInv' /\ DropsInv' /\ BatchInv' /\ SinkInv' /\ TallyInv'
  BY TypedStep, DedupStep, DropsStep, PromiseStep, TallyStep DEF ConsumerInv
<1>2. OnViolation = "fail" => NothingBroken' /\ ShownNamed' /\ WindowsWhole'
  BY NothingBrokenStep, ShownNamedStep, WholeStep DEF ConsumerInv
<1> QED
  BY <1>1, <1>2 DEF ConsumerInv

-----------------------------------------------------------------------------
(* The refinement *)

\* The promise counts as the consumer does.
LEMMA SameCardinality == \A S : Promise!Cardinality(S) = Cardinality(S)
  BY DEF Promise!Cardinality, Cardinality

\* Every window and category has the row of its count: without a category it has neither.
LEMMA SinkCounts ==
    ASSUME Typed, SinkInv, NothingBroken, ShownNamed, NEW k \in Keys
    PROVE  sink[k] = IF CountIn(k, shown) = 0 THEN <<>> ELSE <<CountIn(k, shown)>>
<1>1. CASE k[2] # NoCategory
  BY <1>1 DEF SinkInv
<1>2. CASE k[2] = NoCategory
  <2>1. \A i \in shown : KeyOf(log[i]) # k
    BY <1>2 DEF ShownNamed, KeyOf
  <2>2. CountIn(k, shown) = 0
    BY <2>1, CountType DEF Typed, TypeOK
  <2> QED
    BY <1>2, <2>2 DEF NothingBroken
<1> QED
  BY <1>1, <1>2

\* The sink is the table of the rows shown.
LEMMA SinkIsTable ==
    ASSUME Typed, SinkInv, NothingBroken, ShownNamed
    PROVE  sink = Promise!TableOf(shown)
<1>1. \A k : Promise!CountOf(k, shown) = CountIn(k, shown)
  BY SameCardinality DEF Promise!CountOf, CountIn, RowsIn
<1>2. \A k \in Keys :
         sink[k] = IF CountIn(k, shown) = 0 THEN <<>> ELSE <<CountIn(k, shown)>>
  BY SinkCounts
<1>3. sink \in [Keys -> Seq(Nat)]
  BY DEF Typed, TypeOK
<1> QED
  BY <1>1, <1>2, <1>3 DEF Promise!TableOf

\* A MERGE, the first of its batch or a replay, accepts the rows the batch counts.
LEMMA MergeAccepts ==
    ASSUME Typed, DedupInv, BatchInv, SinkInv, Merge, (sink = Promise!TableOf(shown))'
    PROVE  Promise!Accept
<1> DEFINE R == IF shown = counted THEN taken ELSE {}
<1>1. Running /\ log' = log /\ shown' = counted \cup taken /\ phase = "merge"
  BY DEF Merge, Running
<1>2. pos = planned /\ taken = Passed(planned)
  BY <1>1 DEF Typed, BatchOK, BatchInv
<1>3. shown' = shown \cup R
  BY <1>1, <1>2 DEF SinkInv
<1>4. R \in SUBSET (1 .. Len(log)) /\ \A i \in R, j \in shown : j < i
  BY <1>1, BatchPlace
<1>5. Promise!Spaced(shown \cup R)
  BY <1>1, <1>3 DEF DedupInv, Spread, Promise!Spaced
<1>6. sink' = Promise!TableOf(shown')
  BY <1>1 DEF Promise!TableOf, Promise!CountOf
<1> HIDE DEF R
<1> QED
  BY <1>1, <1>3, <1>4, <1>5, <1>6 DEF Promise!Accept

\* Under on_violation=fail the consumer implements WindowCounts: each MERGE is an Accept, the
\* arrival of a message is a Produce, and everything else, crashes and replays included,
\* changes neither the topic nor the table.  (Under "warn" it does not: MERGE matches no row
\* of a NULL category, so a replay inserts it again.)
THEOREM KeepsPromiseAlways ==
    ASSUME OnViolation = "fail"
    PROVE  Spec => KeepsPromise
<1> DEFINE Inv == Typed /\ DedupInv /\ BatchInv /\ SinkInv /\ NothingBroken /\ ShownNamed
<1>1. Init => Promise!Init
  <2> SUFFICES ASSUME Init
               PROVE  Promise!Init
    OBVIOUS
  <2>1. \A k : Promise!CountOf(k, {}) = 0
    BY FS_EmptySet, SameCardinality DEF Promise!CountOf
  <2> QED
    BY <2>1 DEF Init, Promise!Init, Promise!TableOf
<1>2. Inv => sink = Promise!TableOf(shown)
  BY SinkIsTable
<1>3. Inv' => (sink = Promise!TableOf(shown))'
  BY <1>2, PTL
<1>4. Inv /\ Inv' /\ [Next]_vars => [Promise!Next]_<<log, shown, sink>>
  <2> SUFFICES ASSUME Inv, Inv', [Next]_vars
               PROVE  [Promise!Next]_<<log, shown, sink>>
    OBVIOUS
  <2>1. CASE Produce
    BY <2>1 DEF Produce, Promise!Next, Promise!Produce
  <2>2. CASE Merge
    BY <1>3, <2>2, MergeAccepts DEF Promise!Next
  <2>3. CASE UNCHANGED <<log, shown, sink>>
    BY <2>3
  <2> QED
    BY <2>1, <2>2, <2>3
       DEF Next, Query, Start, Plan, Begin, ReadRow, Enforce, Commit, Crash, vars
<1>5. Spec => []Inv
  BY TypeCorrect, DedupInvariant, PromiseInvariant, NothingBrokenInvariant,
     ShownNamedInvariant, PTL
<1> QED
  BY <1>1, <1>4, <1>5, PTL DEF Spec, KeepsPromise, Promise!Spec
=============================================================================
