---------------------------- MODULE LateDemoProofs ----------------------------
(***************************************************************************)
(* The late-arrival demo reconciles for the right reason, for every curated *)
(* export, number of rounds and crashes, ring of progress records and      *)
(* delay, wherever its sleeps and its aborts fall: the consumer's          *)
(* invariants, taken through the script's rounds, and the arithmetic of    *)
(* the report.                                                             *)
(***************************************************************************)
EXTENDS LateDemo, StreamConsumerProofs, SumsProofs

-----------------------------------------------------------------------------
(* The inductive invariant *)

\* The consumer runs, or will, over a topic that is this round's.
Live == step \in {"start", "phaseA", "phaseB", "wait"} \/ proc # "exited"

ScriptTyped ==
    /\ crashes \in 0 .. MaxCrashes
    /\ curated \in CuratedChoices
    /\ step \in Steps /\ toSend \in Seq(Txns) /\ sent \in Nat
    /\ sentA \in Nat \cup {None} /\ sentB \in Nat \cup {None}
    /\ proc \in {"running", "stopping", "exited"}
    /\ progress \in Seq(BatchRecord) /\ Len(progress) <= RingSize
    /\ snapshot \in Seq(BatchRecord) /\ report \in BatchRecord \cup {None}
    /\ outcome \in {None, "ok", "failed", "raised"}
    /\ round \in 0 .. MaxRounds /\ lost \in BOOLEAN

\* Who runs when: a report is there only after the consumer has ended, and a round begins
\* with an empty topic, nothing lost and no report.
Turns ==
    /\ proc = "exited" => phase = "off"
    /\ report # None => proc = "exited"
    /\ step \in {"resetSink", "start"} => log = <<>> /\ ~lost /\ proc = "exited"
    /\ step = "start" => report = None
    /\ step = "idle" /\ outcome = "ok" => proc = "exited"

\* The rows of phase B are the only ones of their transactions.
TopicOK ==
    /\ \A i \in 1 .. Len(log) : log[i].ts \in {OnTime, TenMinutesAgo}
    /\ \A i \in PhaseB : \A j \in 1 .. Len(log) : log[j].txn = log[i].txn => j = i

\* The phase has sent the curated rows before the k-th: no other transaction is on the topic.
SentBefore(k) ==
    LET end == IF step = "phaseA" THEN PhaseALength ELSE Len(curated) IN
    /\ k + Len(toSend) = end + 1
    /\ \A i \in 1 .. Len(toSend) : toSend[i] = curated[k + i - 1]
    /\ \A j \in 1 .. Len(log) : \E m \in 1 .. k - 1 : log[j].txn = curated[m]

\* Of n events sent, those that are not on the topic are lost.
Arrived(n) == Len(log) <= n /\ (lost <=> Len(log) # n)

SendInv ==
    /\ step \in {"phaseA", "phaseB"} => \E k \in 1 .. Len(curated) + 1 : SentBefore(k)
    /\ step = "phaseA" => Arrived(sent)
    /\ step = "phaseB" => sentA \in Nat /\ Arrived(sentA + sent)
    /\ step = "wait" => sentA \in Nat /\ sentB \in Nat /\ Arrived(sentA + sentB)

\* The rows not counted: those of phase B, and those of phase A.
Dropped == PhaseB \ counted
Repeated == (1 .. Len(log)) \ (PhaseB \cup counted)

\* r is the record, of a batch or of a run, for the rows after the a-th up to the b-th, when
\* those in L are late and those in D duplicates.
Tallied(L, D, r, a, b) ==
    r = [input |-> Cardinality(a + 1 .. b),
         late |-> Cardinality((a + 1 .. b) \cap L),
         dups |-> Cardinality((a + 1 .. b) \cap D)]

\* The records of s are those of consecutive stretches of the first n rows, cut at e.
Cuts(s, n) == {e \in [0 .. Len(s) -> 0 .. n] :
                  \A i, j \in 0 .. Len(s) : i <= j => e[i] <= e[j]}
Tally(L, D, s, e) == \A i \in 1 .. Len(s) : Tallied(L, D, s[i], e[i - 1], e[i])

\* The progress covers the committed rows up to the last, what was read of it some stretch of
\* them, and the report another.
Reported ==
    /\ \E e \in Cuts(progress, offset) :
          Tally(Dropped, Repeated, progress, e) /\ e[Len(progress)] = offset
    /\ \E e \in Cuts(snapshot, offset) : Tally(Dropped, Repeated, snapshot, e)
    /\ report # None =>
          \E a, b \in 0 .. offset : a <= b /\ Tallied(Dropped, Repeated, report, a, b)

DemoInv ==
    /\ ScriptTyped /\ Turns /\ SendInv
    /\ Live => ConsumerInv /\ TopicOK /\ Reported
    /\ ReportWithinRun /\ DemoHonest

-----------------------------------------------------------------------------
(* Stretches of rows *)

LEMMA Stretches ==
    ASSUME NEW n \in Nat, NEW e \in [0 .. n -> Nat],
           \A i, j \in 0 .. n : i <= j => e[i] <= e[j]
    PROVE  /\ \A x \in e[0] + 1 .. e[n] : \E i \in 1 .. n : x \in e[i - 1] + 1 .. e[i]
           /\ \A i \in 1 .. n : \A x \in e[i - 1] + 1 .. e[i] : x \in e[0] + 1 .. e[n]
           /\ \A i, j \in 1 .. n : \A x \in e[i - 1] + 1 .. e[i] :
                 x \in e[j - 1] + 1 .. e[j] => i = j
<1>0. \A i \in 1 .. n : i \in 0 .. n /\ i - 1 \in 0 .. n /\ e[i] \in Nat /\ e[i - 1] \in Nat
  OBVIOUS
<1>1. 0 \in 0 .. n /\ n \in 0 .. n /\ e[0] \in Nat /\ e[n] \in Nat
  OBVIOUS
<1>2. ASSUME NEW x \in e[0] + 1 .. e[n]
      PROVE  \E i \in 1 .. n : x \in e[i - 1] + 1 .. e[i]
  <2> DEFINE T == {i \in 0 .. n : x <= e[i]}
  <2>1. T \in SUBSET Nat /\ n \in T /\ 0 \notin T
    BY <1>1
  <2>2. PICK i \in T : \A j \in T : i <= j
    BY <2>1, LeastNatural
  <2>3. i \in 1 .. n
    BY <2>1
  <2>4. i - 1 \notin T
    BY <2>2, <2>3
  <2>5. e[i - 1] < x /\ x <= e[i]
    BY <1>0, <1>1, <2>3, <2>4
  <2> QED
    BY <1>0, <1>1, <2>3, <2>5
<1>3. ASSUME NEW i \in 1 .. n, NEW x \in e[i - 1] + 1 .. e[i]
      PROVE  x \in e[0] + 1 .. e[n]
  <2>1. e[0] <= e[i - 1] /\ e[i] <= e[n]
    BY <1>0, <1>1
  <2> QED
    BY <1>0, <1>1, <2>1
<1>4. ASSUME NEW i \in 1 .. n, NEW j \in 1 .. n, NEW x \in e[i - 1] + 1 .. e[i],
             x \in e[j - 1] + 1 .. e[j]
      PROVE  i = j
  <2>1. ~(i <= j - 1) /\ ~(j <= i - 1)
    <3>1. i <= j - 1 => e[i] <= e[j - 1]
      BY <1>0
    <3>2. j <= i - 1 => e[j] <= e[i - 1]
      BY <1>0
    <3> QED
      BY <1>0, <1>4, <3>1, <3>2
  <2> QED
    BY <2>1
<1> QED
  BY <1>2, <1>3, <1>4

\* f[i] is what the i-th of n stretches, cut at e, holds of the set X.
HeldBy(f, n, e, X) ==
    /\ n \in Nat /\ e \in [0 .. n -> Nat] /\ \A i, j \in 0 .. n : i <= j => e[i] <= e[j]
    /\ f \in [1 .. n -> Nat]
    /\ \A i \in 1 .. n : f[i] = Cardinality((e[i - 1] + 1 .. e[i]) \cap X)

\* What the stretches hold of a set adds up to what they hold of it together.
LEMMA SumOfStretches ==
    ASSUME NEW f, NEW n, NEW e, NEW X, HeldBy(f, n, e, X)
    PROVE  SumOf(f) = Cardinality((e[0] + 1 .. e[n]) \cap X)
<1> USE DEF HeldBy
<1> DEFINE D == 1 .. n
           A == [i \in D |-> (e[i - 1] + 1 .. e[i]) \cap X]
           U == (e[0] + 1 .. e[n]) \cap X
<1>1. ASSUME NEW i \in D, NEW x \in A[i]
      PROVE  x \in U
  <2>1. x \in e[i - 1] + 1 .. e[i] /\ x \in X
    OBVIOUS
  <2> QED
    BY <2>1, Stretches
<1>2. ASSUME NEW x \in U
      PROVE  \E i \in D : x \in A[i]
  <2>1. PICK i \in D : x \in e[i - 1] + 1 .. e[i]
    BY Stretches
  <2> QED
    BY <2>1
<1>3. ASSUME NEW i \in D, NEW j \in D, NEW x \in A[i], x \in A[j]
      PROVE  i = j
  <2>1. x \in e[i - 1] + 1 .. e[i] /\ x \in e[j - 1] + 1 .. e[j]
    BY <1>3
  <2> QED
    BY <2>1, Stretches
<1>4. IsFiniteSet(U)
  <2>1. e[0] + 1 \in Int /\ e[n] \in Int
    OBVIOUS
  <2>2. IsFiniteSet(e[0] + 1 .. e[n])
    BY <2>1, FS_Interval
  <2> QED
    BY <2>2, FS_Intersection
<1>5. \A i \in D : Cardinality(A[i]) = f[i]
  OBVIOUS
<1>6. f \in [D -> Nat] /\ A = [i \in D |-> A[i]]
  OBVIOUS
<1> HIDE DEF A, D, U
<1>7. Parts(D, f, A, U)
  BY <1>1, <1>2, <1>3, <1>4, <1>5, <1>6 DEF Parts
<1>8. SumOf(f) = Cardinality(U)
  BY <1>7, SumOfSizes
<1> QED
  BY <1>8 DEF U

-----------------------------------------------------------------------------
(* Records of stretches *)

LEMMA TallyBounds ==
    ASSUME NEW s \in Seq(BatchRecord), NEW n \in Nat, NEW e \in Cuts(s, n)
    PROVE  /\ Len(s) \in Nat /\ e \in [0 .. Len(s) -> 0 .. n] /\ e \in [0 .. Len(s) -> Nat]
           /\ \A i, j \in 0 .. Len(s) : i <= j => e[i] <= e[j]
           /\ \A i \in 1 .. Len(s) : s[i] \in BatchRecord
<1>1. Len(s) \in Nat /\ \A i \in 1 .. Len(s) : s[i] \in BatchRecord
  BY LenProperties, ElementOfSeq
<1>2. e \in [0 .. Len(s) -> 0 .. n] /\ \A i, j \in 0 .. Len(s) : i <= j => e[i] <= e[j]
  BY DEF Cuts
<1>3. e \in [0 .. Len(s) -> Nat]
  BY <1>2
<1> QED
  BY <1>1, <1>2, <1>3

\* More rows, and what their number changes elsewhere, leave the records true.
LEMMA TallyStays ==
    ASSUME NEW s \in Seq(BatchRecord), NEW n \in Nat, NEW m \in Nat, n <= m,
           NEW e \in Cuts(s, n), NEW L, NEW D, NEW L2, NEW D2, Tally(L, D, s, e),
           \A i \in 1 .. n : (i \in L2 <=> i \in L) /\ (i \in D2 <=> i \in D)
    PROVE  e \in Cuts(s, m) /\ Tally(L2, D2, s, e)
<1>1. /\ Len(s) \in Nat /\ e \in [0 .. Len(s) -> 0 .. n]
      /\ \A i, j \in 0 .. Len(s) : i <= j => e[i] <= e[j]
  BY TallyBounds
<1>2. e \in Cuts(s, m)
  <2>1. e \in [0 .. Len(s) -> 0 .. m]
    BY <1>1
  <2> QED
    BY <1>1, <2>1 DEF Cuts
<1>3. ASSUME NEW i \in 1 .. Len(s)
      PROVE  Tallied(L2, D2, s[i], e[i - 1], e[i])
  <2> DEFINE R == e[i - 1] + 1 .. e[i]
  <2>1. e[i - 1] \in 0 .. n /\ e[i] \in 0 .. n
    BY <1>1
  <2>2. R \subseteq 1 .. n
    BY <2>1
  <2>3. R \cap L2 = R \cap L /\ R \cap D2 = R \cap D
    BY <2>2
  <2>4. Tallied(L, D, s[i], e[i - 1], e[i])
    BY DEF Tally
  <2> QED
    BY <2>3, <2>4 DEF Tallied
<1> QED
  BY <1>2, <1>3 DEF Tally

\* One more record, for the rows after the n-th up to the m-th.
LEMMA TallyAppend ==
    ASSUME NEW s \in Seq(BatchRecord), NEW n \in Nat, NEW m \in Nat, n <= m,
           NEW e \in Cuts(s, n), e[Len(s)] = n, NEW L, NEW D, Tally(L, D, s, e),
           NEW r \in BatchRecord, Tallied(L, D, r, n, m)
    PROVE  \E c \in Cuts(Append(s, r), m) :
              /\ Tally(L, D, Append(s, r), c)
              /\ c[Len(Append(s, r))] = m
<1> DEFINE t == Append(s, r)
           c == [i \in 0 .. Len(s) + 1 |-> IF i <= Len(s) THEN e[i] ELSE m]
<1>1. /\ Len(s) \in Nat /\ e \in [0 .. Len(s) -> 0 .. n]
      /\ \A i, j \in 0 .. Len(s) : i <= j => e[i] <= e[j]
  BY TallyBounds
<1>2. Len(t) = Len(s) + 1 /\ t[Len(s) + 1] = r /\ \A i \in 1 .. Len(s) : t[i] = s[i]
  BY AppendProperties
<1>3. /\ c \in [0 .. Len(s) + 1 -> 0 .. m] /\ c[Len(s) + 1] = m
      /\ \A i \in 0 .. Len(s) : c[i] = e[i]
  BY <1>1
<1>4. \A i, j \in 0 .. Len(s) + 1 : i <= j => c[i] <= c[j]
  BY <1>1
<1> HIDE DEF t, c
<1>5. c \in Cuts(t, m)
  BY <1>2, <1>3, <1>4 DEF Cuts
<1>6. ASSUME NEW i \in 1 .. Len(t)
      PROVE  Tallied(L, D, t[i], c[i - 1], c[i])
  <2>1. CASE i = Len(s) + 1
    <3>1. i - 1 = Len(s) /\ Len(s) \in 0 .. Len(s)
      BY <1>1, <2>1
    <3>2. t[i] = r /\ c[i - 1] = n /\ c[i] = m
      BY <1>2, <1>3, <2>1, <3>1
    <3> QED
      BY <3>2
  <2>2. CASE i # Len(s) + 1
    <3>1. i \in 1 .. Len(s) /\ i - 1 \in 0 .. Len(s) /\ i \in 0 .. Len(s)
      BY <1>1, <1>2, <2>2
    <3>2. t[i] = s[i] /\ c[i - 1] = e[i - 1] /\ c[i] = e[i]
      BY <1>2, <1>3, <3>1
    <3> QED
      BY <3>1, <3>2 DEF Tally
  <2> QED
    BY <2>1, <2>2
<1>7. Tally(L, D, t, c) /\ c[Len(t)] = m
  BY <1>2, <1>3, <1>6 DEF Tally
<1> QED
  BY <1>5, <1>7 DEF t

\* The oldest record is forgotten.
LEMMA TallyTail ==
    ASSUME NEW s \in Seq(BatchRecord), s # <<>>, NEW n \in Nat,
           NEW e \in Cuts(s, n), NEW L, NEW D, Tally(L, D, s, e)
    PROVE  \E c \in Cuts(Tail(s), n) :
              /\ Tally(L, D, Tail(s), c)
              /\ c[Len(Tail(s))] = e[Len(s)]
<1> DEFINE t == Tail(s)
           c == [i \in 0 .. Len(s) - 1 |-> e[i + 1]]
<1>1. /\ Len(s) \in Nat /\ e \in [0 .. Len(s) -> 0 .. n]
      /\ \A i, j \in 0 .. Len(s) : i <= j => e[i] <= e[j]
  BY TallyBounds
<1>2. Len(s) # 0 /\ Len(t) = Len(s) - 1 /\ \A i \in 1 .. Len(s) - 1 : t[i] = s[i + 1]
  BY EmptySeq, HeadTailProperties
<1>3. c \in [0 .. Len(t) -> 0 .. n] /\ \A i \in 0 .. Len(t) : c[i] = e[i + 1]
  BY <1>1, <1>2
<1>4. \A i, j \in 0 .. Len(t) : i <= j => c[i] <= c[j]
  <2> SUFFICES ASSUME NEW i \in 0 .. Len(t), NEW j \in 0 .. Len(t), i <= j
               PROVE  c[i] <= c[j]
    OBVIOUS
  <2>1. i + 1 \in 0 .. Len(s) /\ j + 1 \in 0 .. Len(s) /\ i + 1 <= j + 1
    BY <1>1, <1>2
  <2> HIDE DEF c
  <2> QED
    BY <1>1, <1>3, <2>1
<1> HIDE DEF t, c
<1>5. c \in Cuts(t, n)
  BY <1>3, <1>4 DEF Cuts
<1>6. ASSUME NEW i \in 1 .. Len(t)
      PROVE  Tallied(L, D, t[i], c[i - 1], c[i])
  <2>1. /\ i \in 1 .. Len(s) - 1 /\ i + 1 \in 1 .. Len(s) /\ i + 1 - 1 = i
        /\ i - 1 \in 0 .. Len(t) /\ i \in 0 .. Len(t) /\ i - 1 + 1 = i
    BY <1>1, <1>2
  <2>2. t[i] = s[i + 1] /\ c[i - 1] = e[i] /\ c[i] = e[i + 1]
    BY <1>2, <1>3, <2>1
  <2>3. Tallied(L, D, s[i + 1], e[i + 1 - 1], e[i + 1])
    BY <2>1 DEF Tally
  <2> QED
    BY <2>1, <2>2, <2>3
<1>7. c[Len(t)] = e[Len(s)]
  <2>1. Len(t) \in 0 .. Len(t) /\ Len(t) + 1 = Len(s)
    BY <1>1, <1>2
  <2> QED
    BY <1>3, <2>1
<1> QED
  BY <1>5, <1>6, <1>7 DEF t, Tally

\* The summary of records of stretches is the record of the whole.
LEMMA SummaryTallied ==
    ASSUME NEW s \in Seq(BatchRecord), NEW n \in Nat, NEW e \in Cuts(s, n),
           NEW L, NEW D, Tally(L, D, s, e)
    PROVE  Tallied(L, D, Summary(s), e[0], e[Len(s)])
<1> DEFINE k == Len(s)
<1>1. /\ k \in Nat /\ e \in [0 .. k -> Nat]
      /\ \A i, j \in 0 .. k : i <= j => e[i] <= e[j]
      /\ \A i \in 1 .. k : s[i] \in BatchRecord
      /\ DOMAIN s = 1 .. k
  BY TallyBounds, LenProperties
<1>2. \A i \in 1 .. k : /\ s[i].input \in Nat /\ s[i].late \in Nat /\ s[i].dups \in Nat
  BY <1>1 DEF BatchRecord
<1>3. ASSUME NEW i \in 1 .. k
      PROVE  /\ s[i].input = Cardinality(e[i - 1] + 1 .. e[i])
             /\ s[i].late = Cardinality((e[i - 1] + 1 .. e[i]) \cap L)
             /\ s[i].dups = Cardinality((e[i - 1] + 1 .. e[i]) \cap D)
  <2>1. Tallied(L, D, s[i], e[i - 1], e[i])
    BY DEF Tally
  <2> QED
    BY <2>1 DEF Tallied
<1> DEFINE fi == [i \in 1 .. k |-> s[i].input]
           fl == [i \in 1 .. k |-> s[i].late]
           fd == [i \in 1 .. k |-> s[i].dups]
<1>4. /\ fi \in [1 .. k -> Nat] /\ fl \in [1 .. k -> Nat] /\ fd \in [1 .. k -> Nat]
  BY <1>2
<1>5. /\ \A i \in 1 .. k : fl[i] = Cardinality((e[i - 1] + 1 .. e[i]) \cap L)
      /\ \A i \in 1 .. k : fd[i] = Cardinality((e[i - 1] + 1 .. e[i]) \cap D)
  BY <1>3
<1>6. \A i \in 1 .. k : fi[i] = Cardinality((e[i - 1] + 1 .. e[i]) \cap Int)
  <2>1. \A i \in 1 .. k : (e[i - 1] + 1 .. e[i]) \cap Int = e[i - 1] + 1 .. e[i]
    OBVIOUS
  <2> QED
    BY <1>3, <2>1
<1>7. Summary(s) = [input |-> SumOf(fi), late |-> SumOf(fl), dups |-> SumOf(fd)]
  BY <1>1 DEF Summary
<1> HIDE DEF fi, fl, fd
<1>8. SumOf(fi) = Cardinality((e[0] + 1 .. e[k]) \cap Int)
  <2>1. HeldBy(fi, k, e, Int)
    BY <1>1, <1>4, <1>6 DEF HeldBy
  <2> QED
    BY <2>1, SumOfStretches
<1>9. SumOf(fl) = Cardinality((e[0] + 1 .. e[k]) \cap L)
  <2>1. HeldBy(fl, k, e, L)
    BY <1>1, <1>4, <1>5 DEF HeldBy
  <2> QED
    BY <2>1, SumOfStretches
<1>10. SumOf(fd) = Cardinality((e[0] + 1 .. e[k]) \cap D)
  <2>1. HeldBy(fd, k, e, D)
    BY <1>1, <1>4, <1>5 DEF HeldBy
  <2> QED
    BY <2>1, SumOfStretches
<1>11. (e[0] + 1 .. e[k]) \cap Int = e[0] + 1 .. e[k]
  OBVIOUS
<1> QED
  BY <1>7, <1>8, <1>9, <1>10, <1>11 DEF Tallied

-----------------------------------------------------------------------------
(* Types *)

LEMMA CuratedType ==
    ASSUME ScriptTyped
    PROVE  /\ curated \in Seq(Txns) /\ Len(curated) \in Nat
           /\ PhaseALength \in 0 .. Len(curated)
           /\ \A i \in 1 .. Len(curated) : curated[i] \in Txns
           /\ \A i, j \in 1 .. Len(curated) : curated[i] = curated[j] => i = j
<1>1. curated \in Seq(Txns) /\ \A i, j \in 1 .. Len(curated) : curated[i] = curated[j] => i = j
  BY DemoAssumption DEF ScriptTyped
<1>2. Len(curated) \in Nat /\ \A i \in 1 .. Len(curated) : curated[i] \in Txns
  BY <1>1, LenProperties, ElementOfSeq
<1>3. PhaseALength \in 0 .. Len(curated)
  BY <1>2, DemoAssumption DEF PhaseALength
<1> QED
  BY <1>1, <1>2, <1>3

\* Any stretch of the curated rows is a sequence of transactions.
LEMMA CuratedPart ==
    ASSUME ScriptTyped, NEW a \in 1 .. Len(curated) + 1, NEW b \in 0 .. Len(curated), a <= b + 1
    PROVE  /\ SubSeq(curated, a, b) \in Seq(Txns) /\ Len(SubSeq(curated, a, b)) = b - a + 1
           /\ \A i \in 1 .. b - a + 1 : SubSeq(curated, a, b)[i] = curated[a + i - 1]
<1>1. a \in Int /\ b \in Int /\ Len(curated) \in Nat
  BY CuratedType
<1>2. \A i \in a .. b : curated[i] \in Txns
  BY <1>1, CuratedType
<1> QED
  BY <1>1, <1>2, SubSeqProperties

LEMMA DemoTimes ==
    /\ OnTime \in Nat \ {0} /\ TenMinutesAgo \in Nat \ {0}
    /\ TenMinutesAgo < OnTime /\ OnTime # TenMinutesAgo
<1>1. OnTime \in Times /\ TenMinutesAgo \in Times /\ TenMinutesAgo < OnTime
  BY DemoAssumption
<1>2. OnTime \in Nat \ {0} /\ TenMinutesAgo \in Nat \ {0}
  BY <1>1, ConsumerAssumption
<1> QED
  BY <1>1, <1>2

\* n events of the next row reach the topic.
Adds(n) ==
    /\ log' \in Seq(Row) /\ Len(log') = Len(log) + n
    /\ \A i \in 1 .. Len(log) : log'[i] = log[i]
    /\ \A i \in Len(log) + 1 .. Len(log) + n :
          log'[i] = [txn |-> Head(toSend), ts |-> Stamp]

LEMMA SendRowAdds ==
    ASSUME TypeOK, ScriptTyped, SendRow
    PROVE  /\ Head(toSend) \in Txns /\ Stamp \in Times
           /\ \E n \in {1, 2} :
                 /\ sent' = sent + n /\ (step = "phaseB" => n = 1)
                 /\ \/ log' = log /\ lost' = TRUE
                    \/ Adds(n) /\ lost' = lost
<1> DEFINE e == [txn |-> Head(toSend), ts |-> Stamp]
<1>1. Head(toSend) \in Txns /\ Stamp \in Times
  BY HeadTailProperties, DemoAssumption DEF SendRow, ScriptTyped, Stamp
<1>2. e \in Row
  BY <1>1 DEF Row
<1>3. PICK batch \in EventsOf(Head(toSend)) :
         /\ sent' = sent + Len(batch)
         /\ \/ log' = log \o batch /\ UNCHANGED lost
            \/ UNCHANGED log /\ lost' = TRUE
  BY DEF SendRow
<1>4. batch = <<e>> \/ (batch = <<e, e>> /\ step = "phaseA")
  BY DEF EventsOf
<1> HIDE DEF e
<1>5. PICK n \in {1, 2} : /\ Len(batch) = n /\ (step = "phaseB" => n = 1)
                          /\ \A i \in 1 .. n : batch[i] = e
  BY <1>4
<1>6. batch \in Seq(Row)
  BY <1>2, <1>4
<1>7. ASSUME log' = log \o batch
      PROVE  Adds(n)
  <2>1. log \in Seq(Row) /\ Len(log) \in Nat
    BY LogTyped DEF TypeOK
  <2>2. /\ log' \in Seq(Row) /\ Len(log') = Len(log) + n
        /\ \A i \in 1 .. Len(log) + n : log'[i] =
              IF i <= Len(log) THEN log[i] ELSE batch[i - Len(log)]
    BY <1>5, <1>6, <1>7, <2>1, ConcatProperties
  <2>3. \A i \in 1 .. Len(log) : i \in 1 .. Len(log) + n /\ i <= Len(log)
    BY <2>1
  <2>4. \A i \in Len(log) + 1 .. Len(log) + n :
           /\ i \in 1 .. Len(log) + n /\ ~(i <= Len(log)) /\ i - Len(log) \in 1 .. n
    BY <2>1
  <2>5. \A i \in Len(log) + 1 .. Len(log) + n : log'[i] = e
    BY <1>5, <2>2, <2>4
  <2> QED
    BY <2>2, <2>3, <2>5 DEF Adds, e
<1> QED
  BY <1>1, <1>3, <1>5, <1>7

LEMMA BatchProgressType ==
    ASSUME Typed, Commit
    PROVE  BatchProgress \in BatchRecord
<1> DEFINE rows == offset + 1 .. planned
           late == {i \in rows : Late(log[i])}
<1>1. offset \in Int /\ planned \in Int
  BY BatchPlace DEF Commit, Running
<1>2. IsFiniteSet(rows)
  BY <1>1, FS_Interval
<1>3. IsFiniteSet(late)
  BY <1>2, FS_Subset
<1>4. IsFiniteSet(rows \ (late \cup taken))
  BY <1>2, FS_Difference
<1>5. /\ Cardinality(rows) \in Nat /\ Cardinality(late) \in Nat
      /\ Cardinality(rows \ (late \cup taken)) \in Nat
  BY <1>2, <1>3, <1>4, FS_CardinalityType
<1> QED
  BY <1>5 DEF BatchProgress, BatchRecord

LEMMA SummaryType ==
    ASSUME NEW s \in Seq(BatchRecord)
    PROVE  Summary(s) \in BatchRecord
<1>1. Len(s) \in Nat /\ DOMAIN s = 1 .. Len(s) /\ \A i \in DOMAIN s : s[i] \in BatchRecord
  BY LenProperties, ElementOfSeq
<1>2. IsFiniteSet(DOMAIN s)
  BY <1>1, FS_Interval
<1>3. /\ [i \in DOMAIN s |-> s[i].input] \in [DOMAIN s -> Nat]
      /\ [i \in DOMAIN s |-> s[i].late] \in [DOMAIN s -> Nat]
      /\ [i \in DOMAIN s |-> s[i].dups] \in [DOMAIN s -> Nat]
  BY <1>1 DEF BatchRecord
<1>4. /\ SumOf([i \in DOMAIN s |-> s[i].input]) \in Nat
      /\ SumOf([i \in DOMAIN s |-> s[i].late]) \in Nat
      /\ SumOf([i \in DOMAIN s |-> s[i].dups]) \in Nat
  BY <1>2, <1>3, SumIsNatural
<1> QED
  BY <1>4 DEF Summary, BatchRecord

\* The ring keeps the newest records, no more than it has room for.
LEMMA RingType ==
    ASSUME NEW s \in Seq(BatchRecord), Len(s) <= RingSize + 1
    PROVE  Ring(s) \in Seq(BatchRecord) /\ Len(Ring(s)) <= RingSize
<1>1. Len(s) \in Nat /\ RingSize \in Nat \ {0}
  BY LenProperties, DemoAssumption
<1>2. CASE Len(s) <= RingSize
  BY <1>2 DEF Ring
<1>3. CASE ~(Len(s) <= RingSize)
  <2>1. s # <<>>
    BY <1>1, <1>3, EmptySeq
  <2>2. Tail(s) \in Seq(BatchRecord) /\ Len(Tail(s)) = Len(s) - 1
    BY <2>1, HeadTailProperties
  <2> QED
    BY <1>1, <1>3, <2>2 DEF Ring
<1> QED
  BY <1>2, <1>3

LEMMA ScriptTypedStep ==
    ASSUME ScriptTyped, Live => Typed, [DemoNext]_allVars
    PROVE  ScriptTyped'
<1>1. CASE ResetTopic
  <2>1. round' \in 0 .. MaxRounds
    BY <1>1, DemoAssumption DEF ResetTopic, ScriptTyped
  <2> QED
    BY <1>1, <2>1 DEF ResetTopic, ScriptTyped, reporting, Steps
<1>2. CASE ResetSink
  <2>1. <<>> \in Seq(BatchRecord) /\ Len(<<>>) = 0
    BY EmptySeq
  <2>2. 0 <= RingSize
    BY DemoAssumption
  <2> QED
    BY <1>2, <2>1, <2>2 DEF ResetSink, ScriptTyped, Steps
<1>3. CASE StartConsumer
  <2>1. toSend' \in Seq(Txns)
    BY <1>3, CuratedType, CuratedPart DEF StartConsumer
  <2> QED
    BY <1>3, <2>1 DEF StartConsumer, Start, ScriptTyped, Steps
<1>4. CASE SendRow
  <2>1. TypeOK
    BY <1>4 DEF SendRow, Live, Typed
  <2>2. PICK n \in {1, 2} : /\ sent' = sent + n
                            /\ \/ log' = log /\ lost' = TRUE
                               \/ Adds(n) /\ lost' = lost
    BY <1>4, <2>1, SendRowAdds
  <2>3. sent' \in Nat /\ lost' \in BOOLEAN
    <3>1. sent' \in Nat
      BY <2>2 DEF ScriptTyped
    <3>2. lost' \in BOOLEAN
      BY <2>2, Zenon DEF ScriptTyped
    <3> QED
      BY <3>1, <3>2
  <2>4. toSend' \in Seq(Txns)
    BY <1>4, HeadTailProperties DEF SendRow, ScriptTyped
  <2> QED
    BY <1>4, <2>3, <2>4 DEF SendRow, ScriptTyped, reporting
<1>5. CASE BeginPhaseB
  <2>1. /\ PhaseALength + 1 \in 1 .. Len(curated) + 1 /\ Len(curated) \in 0 .. Len(curated)
        /\ PhaseALength + 1 <= Len(curated) + 1
    BY CuratedType
  <2>2. toSend' \in Seq(Txns)
    BY <1>5, <2>1, CuratedPart DEF BeginPhaseB
  <2> QED
    BY <1>5, <2>2 DEF BeginPhaseB, ScriptTyped, reporting, vars, Steps
<1>6. CASE EndPhaseB
  BY <1>6 DEF EndPhaseB, ScriptTyped, reporting, vars, Steps
<1>7. CASE Check
  <2>1. outcome' \in {"ok", "failed", "raised"}
    BY <1>7 DEF Check, Verdict
  <2> QED
    BY <1>7, <2>1 DEF Check, ScriptTyped, reporting, vars, Steps
<1>8. CASE Abort
  <2>1. <<>> \in Seq(Txns)
    BY EmptySeq
  <2> QED
    BY <1>8, <2>1 DEF Abort, ScriptTyped, reporting, vars, Steps
<1>9. CASE RunQuery
  <2>1. CASE Commit /\ progress' = Ring(Append(progress, BatchProgress))
    <3>1. BatchProgress \in BatchRecord
      BY <1>9, <2>1, BatchProgressType DEF RunQuery, Live
    <3>2. /\ Append(progress, BatchProgress) \in Seq(BatchRecord)
          /\ Len(Append(progress, BatchProgress)) = Len(progress) + 1
          /\ Len(progress) \in Nat
      BY <3>1, AppendProperties, LenProperties DEF ScriptTyped
    <3>3. Len(progress) + 1 <= RingSize + 1
      BY <3>2, DemoAssumption DEF ScriptTyped
    <3>4. progress' \in Seq(BatchRecord) /\ Len(progress') <= RingSize
      BY <2>1, <3>2, <3>3, RingType
    <3> QED
      BY <1>9, <2>1, <3>4 DEF RunQuery, Commit, ScriptTyped, script
  <2>2. CASE (Plan \/ Begin \/ ReadRow \/ Enforce \/ Merge) /\ UNCHANGED progress
    <3>1. UNCHANGED crashes
      BY <2>2 DEF Plan, Begin, ReadRow, Enforce, Merge
    <3> QED
      BY <1>9, <2>2, <3>1 DEF RunQuery, ScriptTyped, script
  <2> QED
    BY <1>9, <2>1, <2>2 DEF RunQuery
<1>10. CASE QueryFailed
  BY <1>10 DEF QueryFailed, ScriptTyped, script, vars
<1>11. CASE TimeIsUp
  BY <1>11 DEF TimeIsUp, ScriptTyped, script, vars
<1>12. CASE StopAndReport
  <2>1. report' \in BatchRecord
    BY <1>12, SummaryType DEF StopAndReport, ScriptTyped
  <2> QED
    BY <1>12, <2>1 DEF StopAndReport, ScriptTyped, script
<1>13. CASE ConsumerDies
  <2>1. crashes' \in 0 .. MaxCrashes
    BY <1>13, ConsumerAssumption DEF ConsumerDies, Crash, ScriptTyped
  <2> QED
    BY <1>13, <2>1 DEF ConsumerDies, ScriptTyped, script
<1>14. CASE UNCHANGED allVars
  BY <1>14 DEF allVars, demo, vars, script, reporting, ScriptTyped
<1> QED
  BY <1>1, <1>2, <1>3, <1>4, <1>5, <1>6, <1>7, <1>8, <1>9, <1>10, <1>11, <1>12, <1>13, <1>14
     DEF DemoNext, Advance, Consumer

-----------------------------------------------------------------------------
(* Who runs when *)

LEMMA TurnsStep ==
    ASSUME ScriptTyped, Turns, [DemoNext]_allVars
    PROVE  Turns'
<1> USE DEF Turns
<1>1. CASE ResetTopic
  BY <1>1 DEF ResetTopic, reporting
<1>2. CASE ResetSink
  BY <1>2 DEF ResetSink
<1>3. CASE StartConsumer
  BY <1>3 DEF StartConsumer, Start
<1>4. CASE SendRow
  BY <1>4 DEF SendRow, reporting
<1>5. CASE BeginPhaseB
  BY <1>5 DEF BeginPhaseB, reporting, vars
<1>6. CASE EndPhaseB
  BY <1>6 DEF EndPhaseB, reporting, vars
<1>7. CASE Check
  BY <1>7 DEF Check, reporting, vars
<1>8. CASE Abort
  BY <1>8 DEF Abort, reporting, vars
<1>9. CASE RunQuery
  BY <1>9 DEF RunQuery, script
<1>10. CASE QueryFailed
  BY <1>10 DEF QueryFailed, script, vars
<1>11. CASE TimeIsUp
  BY <1>11 DEF TimeIsUp, script, vars
<1>12. CASE StopAndReport
  BY <1>12 DEF StopAndReport, script
<1>13. CASE ConsumerDies
  BY <1>13 DEF ConsumerDies, Crash, script
<1>14. CASE UNCHANGED allVars
  BY <1>14 DEF allVars, demo, vars, script, reporting
<1> QED
  BY <1>1, <1>2, <1>3, <1>4, <1>5, <1>6, <1>7, <1>8, <1>9, <1>10, <1>11, <1>12, <1>13, <1>14
     DEF DemoNext, Advance, Consumer

\* While a round is under way every step is one of the consumer or of its surroundings, and
\* a round gets under way with nothing left of the one before.
LEMMA LiveStep ==
    ASSUME ScriptTyped, Turns, Live => Typed, [DemoNext]_allVars, Live'
    PROVE  \/ Live /\ Step
           \/ ResetSink /\ Blank'
<1>1. CASE ResetTopic
  BY <1>1 DEF ResetTopic, Live, reporting
<1>2. CASE ResetSink
  <2>1. log' = <<>> /\ phase' = "off" /\ crashes' \in 0 .. MaxCrashes
    BY <1>2 DEF ResetSink, Turns, ScriptTyped
  <2> QED
    BY <1>2, <2>1 DEF ResetSink, FreshQuery, EmptyTable, Blank
<1>3. CASE StartConsumer
  BY <1>3 DEF StartConsumer, Live, Step, Query
<1>4. CASE SendRow
  <2>1. Live /\ TypeOK
    BY <1>4 DEF SendRow, Live, Typed
  <2>2. log' = log \/ \E n \in {1, 2} : Adds(n)
    BY <1>4, <2>1, SendRowAdds
  <2>3. UNCHANGED <<checkpoint, sink, phase, working, counted, shown, crashes>>
    BY <1>4 DEF SendRow
  <2>4. Len(log) \in Nat
    BY <2>1, LogTyped
  <2>5. CASE log' = log
    BY <2>1, <2>3, <2>5 DEF Step, vars
  <2>6. ASSUME NEW n \in {1, 2}, Adds(n)
        PROVE  TopicGrows
    <3>1. /\ log' \in Seq(Row) /\ Len(log') >= Len(log)
          /\ \A i \in 1 .. Len(log) : log'[i] = log[i]
      BY <2>4, <2>6 DEF Adds
    <3> QED
      BY <2>3, <3>1 DEF TopicGrows
  <2> QED
    BY <2>1, <2>2, <2>5, <2>6 DEF Step
<1>5. CASE BeginPhaseB \/ EndPhaseB \/ Check
  BY <1>5 DEF BeginPhaseB, EndPhaseB, Check, Live, Step
<1>6. CASE Abort
  BY <1>6 DEF Abort, Live, Turns, reporting, Step
<1>7. CASE RunQuery
  BY <1>7 DEF RunQuery, Live, Step, Query
<1>8. CASE QueryFailed \/ TimeIsUp
  BY <1>8 DEF QueryFailed, TimeIsUp, Live, Step
<1>9. CASE StopAndReport
  <2>1. QueryEnds
    BY <1>9 DEF StopAndReport, QueryEnds, ScriptTyped
  <2> QED
    BY <1>9, <2>1 DEF StopAndReport, Live, Step
<1>10. CASE ConsumerDies
  <2>1. QueryEnds
    BY <1>10, ConsumerAssumption DEF ConsumerDies, Crash, QueryEnds, ScriptTyped
  <2> QED
    BY <1>10, <2>1 DEF ConsumerDies, Live, Step
<1>11. CASE UNCHANGED allVars
  <2>1. UNCHANGED vars /\ step' = step /\ proc' = proc
    BY <1>11 DEF allVars, demo, script, reporting
  <2> QED
    BY <2>1 DEF Live, Step
<1> QED
  BY <1>1, <1>2, <1>3, <1>4, <1>5, <1>6, <1>7, <1>8, <1>9, <1>10, <1>11
     DEF DemoNext, Advance, Consumer

-----------------------------------------------------------------------------
(* What is sent *)

\* The consumer writes to no topic and takes no part in the script.
LEMMA ConsumerReads ==
    ASSUME Consumer
    PROVE  UNCHANGED <<log, script>>
  BY DEF Consumer, RunQuery, QueryFailed, TimeIsUp, StopAndReport, ConsumerDies, Crash,
         Plan, Begin, ReadRow, Enforce, Merge, Commit, vars

LEMMA SendRowSends ==
    ASSUME Typed, ScriptTyped, TopicOK, SendInv, SendRow
    PROVE  TopicOK' /\ SendInv'
<1> DEFINE end == IF step = "phaseA" THEN PhaseALength ELSE Len(curated)
           t == Head(toSend)
<1>1. PICK n \in {1, 2} : /\ sent' = sent + n /\ (step = "phaseB" => n = 1)
                          /\ \/ log' = log /\ lost' = TRUE
                             \/ Adds(n) /\ lost' = lost
  BY SendRowAdds DEF Typed
<1>2. /\ step \in {"phaseA", "phaseB"} /\ toSend # <<>> /\ toSend' = Tail(toSend)
      /\ UNCHANGED <<curated, step, sentA, sentB>>
  BY DEF SendRow
<1>3. PICK k \in 1 .. Len(curated) + 1 : SentBefore(k)
  BY <1>2 DEF SendInv
<1>4. /\ Len(log) \in Nat /\ Len(curated) \in Nat /\ end \in 0 .. Len(curated)
      /\ Len(toSend) \in Nat \ {0} /\ Tail(toSend) \in Seq(Txns)
      /\ Len(Tail(toSend)) = Len(toSend) - 1
      /\ \A i \in 1 .. Len(Tail(toSend)) : Tail(toSend)[i] = toSend[i + 1]
      /\ t = toSend[1]
  BY <1>2, LogTyped, CuratedType, HeadTailProperties, EmptySeq, LenProperties
     DEF ScriptTyped, Typed
<1>5. /\ k + Len(toSend) = end + 1
      /\ \A i \in 1 .. Len(toSend) : toSend[i] = curated[k + i - 1]
      /\ \A j \in 1 .. Len(log) : \E m \in 1 .. k - 1 : log[j].txn = curated[m]
  BY <1>3 DEF SentBefore
<1> HIDE DEF end, t
<1>6. k \in 1 .. Len(curated) /\ t = curated[k]
  <2>1. k \in Nat \ {0} /\ k <= end /\ end \in Nat /\ end <= Len(curated)
    BY <1>4, <1>5
  <2>2. 1 \in 1 .. Len(toSend)
    BY <1>4
  <2>3. t = curated[k + 1 - 1] /\ k + 1 - 1 = k
    BY <1>4, <1>5, <2>1, <2>2
  <2> QED
    BY <1>4, <2>1, <2>3
<1>7. \A j \in 1 .. Len(log) : log[j].txn # t
  <2> SUFFICES ASSUME NEW j \in 1 .. Len(log), log[j].txn = t
               PROVE  FALSE
    OBVIOUS
  <2>1. PICK m \in 1 .. k - 1 : log[j].txn = curated[m]
    BY <1>5
  <2>2. m \in 1 .. Len(curated) /\ m # k
    BY <1>6
  <2> QED
    BY <1>6, <2>1, <2>2, CuratedType
<1>8. Adds(n) => /\ Len(log') = Len(log) + n
                 /\ \A i \in 1 .. Len(log) : log'[i] = log[i]
                 /\ \A i \in Len(log) + 1 .. Len(log) + n : log'[i] = [txn |-> t, ts |-> Stamp]
  BY DEF Adds, t
<1>9. SendInv'
  <2>1. SentBefore(k + 1)'
    <3>1. k + 1 + Len(toSend') = end + 1
      <4>1. Len(toSend') = Len(toSend) - 1 /\ Len(toSend) \in Nat /\ k \in Nat
        BY <1>2, <1>4
      <4> QED
        BY <1>5, <4>1
    <3>2. ASSUME NEW i \in 1 .. Len(toSend')
          PROVE  toSend'[i] = curated[k + 1 + i - 1]
      <4>1. i + 1 \in 1 .. Len(toSend) /\ k + 1 + i - 1 = k + (i + 1) - 1
        BY <1>2, <1>4
      <4> QED
        BY <1>2, <1>4, <1>5, <4>1
    <3>3. ASSUME NEW j \in 1 .. Len(log')
          PROVE  \E m \in 1 .. k : log'[j].txn = curated[m]
      <4>1. CASE j \in 1 .. Len(log)
        <5>1. log'[j] = log[j]
          BY <1>1, <1>8, <4>1
        <5>2. PICK m \in 1 .. k - 1 : log[j].txn = curated[m]
          BY <1>5, <4>1
        <5> QED
          BY <5>1, <5>2
      <4>2. CASE j \notin 1 .. Len(log)
        <5>1. Adds(n)
          BY <1>1, <4>2
        <5>2. j \in Len(log) + 1 .. Len(log) + n
          BY <1>4, <1>8, <4>2, <5>1
        <5>3. log'[j].txn = curated[k]
          BY <1>6, <1>8, <5>1, <5>2
        <5> QED
          BY <5>3
      <4> QED
        BY <4>1, <4>2
    <3>4. \A j \in 1 .. Len(log') : \E m \in 1 .. k + 1 - 1 : log'[j].txn = curated[m]
      BY <3>3
    <3> QED
      BY <1>2, <3>1, <3>2, <3>4 DEF SentBefore, end, PhaseALength
  <2>2. ASSUME NEW m \in Nat, Arrived(m)
        PROVE  Arrived(m + n)'
    <3>1. Len(log) <= m /\ (lost <=> Len(log) # m)
      BY <2>2 DEF Arrived
    <3>2. CASE log' = log /\ lost' = TRUE
      <4>1. Len(log') <= m + n /\ Len(log') # m + n
        BY <1>4, <3>1, <3>2
      <4> QED
        BY <3>2, <4>1 DEF Arrived
    <3>3. CASE Adds(n) /\ lost' = lost
      <4>1. Len(log') <= m + n /\ (Len(log') # m + n <=> Len(log) # m)
        BY <1>4, <1>8, <3>1, <3>3
      <4> QED
        BY <3>1, <3>3, <4>1, Zenon DEF Arrived
    <3> QED
      BY <1>1, <3>2, <3>3
  <2>3. step = "phaseA" => Arrived(sent)'
    <3>1. PICK m \in Nat : m = sent
      BY DEF ScriptTyped
    <3>2. step = "phaseA" => Arrived(m + n)'
      BY <2>2, <3>1 DEF SendInv
    <3> QED
      BY <1>1, <3>1, <3>2 DEF Arrived
  <2>4. step = "phaseB" => sentA \in Nat /\ Arrived(sentA + sent)'
    <3> SUFFICES ASSUME step = "phaseB"
                 PROVE  sentA \in Nat /\ Arrived(sentA + sent)'
      OBVIOUS
    <3>1. sentA \in Nat /\ sent \in Nat /\ Arrived(sentA + sent)
      BY DEF SendInv, ScriptTyped
    <3>2. PICK m \in Nat : m = sentA + sent
      BY <3>1
    <3>3. Arrived(m + n)'
      BY <2>2, <3>1, <3>2
    <3>4. sentA' + sent' = m + n
      BY <1>1, <1>2, <3>1, <3>2
    <3> QED
      BY <3>1, <3>3, <3>4 DEF Arrived
  <2>5. k + 1 \in 1 .. Len(curated') + 1
    BY <1>2, <1>4, <1>6
  <2> QED
    BY <1>2, <2>1, <2>3, <2>4, <2>5 DEF SendInv
<1>10. TopicOK'
  <2>1. CASE log' = log
    BY <2>1 DEF TopicOK, PhaseB
  <2>2. CASE Adds(n)
    <3>1. \A i \in 1 .. Len(log') : \/ i \in 1 .. Len(log) /\ log'[i] = log[i]
                                   \/ /\ i \in Len(log) + 1 .. Len(log) + n
                                      /\ log'[i].txn = t /\ log'[i].ts = Stamp
      BY <1>4, <1>8, <2>2
    <3>2. Stamp \in {OnTime, TenMinutesAgo} /\ (Stamp = TenMinutesAgo => n = 1)
      <4>1. OnTime # TenMinutesAgo
        BY DemoTimes
      <4> QED
        BY <1>1, <1>2, <4>1 DEF Stamp
    <3>3. \A i \in 1 .. Len(log') : log'[i].ts \in {OnTime, TenMinutesAgo}
      BY <3>1, <3>2 DEF TopicOK
    <3>4. ASSUME NEW i \in PhaseB', NEW j \in 1 .. Len(log'), log'[j].txn = log'[i].txn
          PROVE  j = i
      <4>1. i \in 1 .. Len(log') /\ log'[i].ts = TenMinutesAgo
        BY DEF PhaseB
      <4>2. CASE i \in 1 .. Len(log) /\ log'[i] = log[i]
        <5>1. i \in PhaseB /\ log[i].txn # t
          BY <1>7, <4>1, <4>2 DEF PhaseB
        <5>2. j \in 1 .. Len(log) /\ log'[j] = log[j]
          BY <3>1, <3>4, <4>2, <5>1
        <5> QED
          BY <3>4, <4>2, <5>1, <5>2 DEF TopicOK
      <4>3. CASE i \in Len(log) + 1 .. Len(log) + n /\ log'[i].txn = t /\ log'[i].ts = Stamp
        <5>1. n = 1
          BY <3>2, <4>1, <4>3
        <5>2. j \notin 1 .. Len(log) \/ log'[j] # log[j]
          BY <1>7, <3>4, <4>3
        <5>3. j \in Len(log) + 1 .. Len(log) + n
          BY <3>1, <5>2
        <5> QED
          BY <1>4, <4>3, <5>1, <5>3
      <4> QED
        BY <3>1, <4>1, <4>2, <4>3
    <3> QED
      BY <3>3, <3>4 DEF TopicOK
  <2> QED
    BY <1>1, <2>1, <2>2
<1> QED
  BY <1>9, <1>10

\* A phase begins with the rows it is to send.
LEMMA PhaseBegins ==
    ASSUME ScriptTyped, Turns, SendInv, StartConsumer \/ BeginPhaseB
    PROVE  SendInv'
<1>1. /\ Len(curated) \in Nat /\ PhaseALength \in 0 .. Len(curated)
      /\ curated' = curated /\ PhaseALength' = PhaseALength
  BY CuratedType DEF StartConsumer, BeginPhaseB, PhaseALength
<1>2. CASE StartConsumer
  <2>1. /\ step' = "phaseA" /\ sent' = 0 /\ log' = log /\ lost' = lost /\ ~lost
        /\ log = <<>> /\ toSend' = SubSeq(curated, 1, PhaseALength)
    BY <1>2 DEF StartConsumer, Start, Turns
  <2>2. /\ Len(toSend') = PhaseALength - 1 + 1
        /\ \A i \in 1 .. PhaseALength - 1 + 1 : toSend'[i] = curated[1 + i - 1]
    BY <1>1, <2>1, CuratedPart
  <2>3. SentBefore(1)'
    <3>1. 1 + Len(toSend') = PhaseALength + 1
      BY <1>1, <2>2
    <3>2. \A i \in 1 .. Len(toSend') : toSend'[i] = curated[1 + i - 1]
      BY <2>2
    <3>3. \A j \in 1 .. Len(log') : FALSE
      BY <2>1, EmptySeq
    <3> QED
      BY <1>1, <2>1, <3>1, <3>2, <3>3 DEF SentBefore
  <2>4. Arrived(sent)'
    <3>1. Len(log') = 0
      BY <2>1
    <3> QED
      BY <2>1, <3>1 DEF Arrived
  <2>5. 1 \in 1 .. Len(curated') + 1
    BY <1>1
  <2> QED
    BY <2>1, <2>3, <2>4, <2>5 DEF SendInv
<1>3. CASE BeginPhaseB
  <2>1. /\ step = "phaseA" /\ toSend = <<>> /\ step' = "phaseB" /\ sentA' = sent /\ sent' = 0
        /\ toSend' = SubSeq(curated, PhaseALength + 1, Len(curated))
        /\ log' = log /\ lost' = lost
    BY <1>3 DEF BeginPhaseB, vars
  <2>2. PICK k \in 1 .. Len(curated) + 1 : SentBefore(k)
    BY <2>1 DEF SendInv
  <2>3. /\ k + Len(toSend) = PhaseALength + 1 /\ Len(toSend) = 0
        /\ \A j \in 1 .. Len(log) : \E m \in 1 .. k - 1 : log[j].txn = curated[m]
    BY <2>1, <2>2 DEF SentBefore
  <2>4. k = PhaseALength + 1
    BY <1>1, <2>3
  <2>5. /\ PhaseALength + 1 \in 1 .. Len(curated) + 1 /\ Len(curated) \in 0 .. Len(curated)
        /\ PhaseALength + 1 <= Len(curated) + 1
    BY <1>1
  <2>6. /\ Len(toSend') = Len(curated) - k + 1
        /\ \A i \in 1 .. Len(curated) - k + 1 : toSend'[i] = curated[k + i - 1]
    BY <2>1, <2>4, <2>5, CuratedPart
  <2>7. SentBefore(k)'
    <3>1. k + Len(toSend') = Len(curated) + 1
      BY <1>1, <2>6
    <3>2. \A i \in 1 .. Len(toSend') : toSend'[i] = curated[k + i - 1]
      BY <2>6
    <3> QED
      BY <1>1, <2>1, <2>3, <3>1, <3>2 DEF SentBefore
  <2>8. sentA' \in Nat /\ Arrived(sentA + sent)'
    <3>1. sent \in Nat /\ Arrived(sent)
      BY <2>1 DEF SendInv, ScriptTyped
    <3>2. sentA' + sent' = sent
      BY <2>1, <3>1
    <3> QED
      BY <2>1, <3>1, <3>2 DEF Arrived
  <2> QED
    BY <1>1, <2>1, <2>7, <2>8 DEF SendInv
<1> QED
  BY <1>2, <1>3

LEMMA SendInvStep ==
    ASSUME ScriptTyped, Turns, SendInv, Live => Typed /\ TopicOK, [DemoNext]_allVars
    PROVE  SendInv'
<1>1. CASE ResetTopic \/ ResetSink \/ Check \/ Abort
  <2>1. step' \in {"resetSink", "start", "idle"}
    BY <1>1 DEF ResetTopic, ResetSink, Check, Abort
  <2> QED
    BY <2>1 DEF SendInv
<1>2. CASE StartConsumer \/ BeginPhaseB
  BY <1>2, PhaseBegins
<1>3. CASE SendRow
  <2>1. Live
    BY <1>3 DEF SendRow, Live
  <2> QED
    BY <1>3, <2>1, SendRowSends
<1>4. CASE EndPhaseB
  <2>1. /\ step = "phaseB" /\ step' = "wait" /\ sentB' = sent /\ sentA' = sentA
        /\ log' = log /\ lost' = lost
    BY <1>4 DEF EndPhaseB, vars
  <2>2. sentA \in Nat /\ sent \in Nat /\ Arrived(sentA + sent)
    BY <2>1 DEF SendInv, ScriptTyped
  <2>3. Arrived(sentA + sentB)'
    BY <2>1, <2>2 DEF Arrived
  <2> QED
    BY <2>1, <2>2, <2>3 DEF SendInv
<1>5. CASE Consumer \/ UNCHANGED allVars
  <2>1. UNCHANGED <<log, script>>
    BY <1>5, ConsumerReads DEF allVars, demo, vars
  <2> QED
    BY <2>1 DEF SendInv, SentBefore, Arrived, PhaseALength, script
<1> QED
  BY <1>1, <1>2, <1>3, <1>4, <1>5 DEF DemoNext, Advance

LEMMA TopicStep ==
    ASSUME ScriptTyped, SendInv, Live, Typed, TopicOK, [DemoNext]_allVars, ~ResetSink, Live'
    PROVE  TopicOK'
<1>1. CASE SendRow
  BY <1>1, SendRowSends
<1>2. CASE UNCHANGED log
  BY <1>2 DEF TopicOK, PhaseB
<1>3. CASE ResetTopic
  BY <1>3 DEF ResetTopic, Live, reporting
<1>4. CASE StartConsumer \/ BeginPhaseB \/ EndPhaseB \/ Check \/ Abort
  BY <1>2, <1>4 DEF StartConsumer, Start, BeginPhaseB, EndPhaseB, Check, Abort, vars
<1>5. CASE Consumer \/ UNCHANGED allVars
  BY <1>2, <1>5, ConsumerReads DEF allVars, vars
<1> QED
  BY <1>1, <1>3, <1>4, <1>5 DEF DemoNext, Advance

-----------------------------------------------------------------------------
(* What is reported *)

\* Three sets that part a finite one.
LEMMA ThreeParts ==
    ASSUME NEW R, IsFiniteSet(R), NEW A, NEW B, NEW C, R = A \cup B \cup C,
           A \cap B = {}, A \cap C = {}, B \cap C = {}
    PROVE  /\ Cardinality(A) \in Nat /\ Cardinality(B) \in Nat /\ Cardinality(C) \in Nat
           /\ Cardinality(R) = Cardinality(A) + Cardinality(B) + Cardinality(C)
<1>1. IsFiniteSet(A) /\ IsFiniteSet(B) /\ IsFiniteSet(C)
  <2>1. A \in SUBSET R /\ B \in SUBSET R /\ C \in SUBSET R
    OBVIOUS
  <2> QED
    BY <2>1, FS_Subset
<1>2. IsFiniteSet(A \cup B) /\ (A \cup B) \cap C = {} /\ R = (A \cup B) \cup C
  BY <1>1, FS_Union
<1>3. /\ Cardinality(A) \in Nat /\ Cardinality(B) \in Nat /\ Cardinality(C) \in Nat
      /\ Cardinality({}) = 0
  BY <1>1, FS_CardinalityType, FS_EmptySet
<1>4. Cardinality(A \cup B) = Cardinality(A) + Cardinality(B) - Cardinality(A \cap B)
  BY <1>1, FS_Union
<1>5. Cardinality((A \cup B) \cup C)
        = Cardinality(A \cup B) + Cardinality(C) - Cardinality((A \cup B) \cap C)
  BY <1>1, <1>2, FS_Union
<1>6. /\ Cardinality(A \cap B) = 0 /\ Cardinality((A \cup B) \cap C) = 0
      /\ Cardinality(R) = Cardinality((A \cup B) \cup C)
  BY <1>2, <1>3
<1> QED
  BY <1>3, <1>4, <1>5, <1>6

\* A record accounts for every row of its stretch: late, duplicate or counted.
LEMMA TalliedParts ==
    ASSUME Typed, NEW a \in 0 .. offset, NEW b \in 0 .. offset, a <= b,
           NEW r, Tallied(Dropped, Repeated, r, a, b)
    PROVE  /\ r.input = b - a /\ r.late \in Nat /\ r.dups \in Nat
           /\ Cardinality((a + 1 .. b) \cap counted) \in Nat
           /\ r.input - r.dups - r.late = Cardinality((a + 1 .. b) \cap counted)
<1> DEFINE R == a + 1 .. b
<1>1. offset \in Nat /\ Len(log) \in Nat /\ offset <= Len(log) /\ counted \subseteq 1 .. offset
  BY LogTyped DEF Typed, TypeOK
<1>2. R \subseteq 1 .. Len(log)
  BY <1>1
<1>3. IsFiniteSet(R) /\ Cardinality(R) = b - a
  <2>1. a \in Nat /\ b \in Nat /\ a + 1 \in Int /\ b \in Int
    BY <1>1
  <2>2. IsFiniteSet(R) /\ Cardinality(R) = IF a + 1 > b THEN 0 ELSE b - (a + 1) + 1
    BY <2>1, FS_Interval
  <2> QED
    BY <2>1, <2>2
<1> HIDE DEF R
<1>4. /\ R = (R \cap Dropped) \cup (R \cap Repeated) \cup (R \cap counted)
      /\ (R \cap Dropped) \cap (R \cap Repeated) = {}
      /\ (R \cap Dropped) \cap (R \cap counted) = {}
      /\ (R \cap Repeated) \cap (R \cap counted) = {}
  BY <1>2 DEF Dropped, Repeated
<1>5. /\ Cardinality(R \cap Dropped) \in Nat /\ Cardinality(R \cap Repeated) \in Nat
      /\ Cardinality(R \cap counted) \in Nat
      /\ Cardinality(R) = Cardinality(R \cap Dropped) + Cardinality(R \cap Repeated)
                          + Cardinality(R \cap counted)
  BY <1>3, <1>4, ThreeParts
<1>6. /\ r.input = Cardinality(R) /\ r.late = Cardinality(R \cap Dropped)
      /\ r.dups = Cardinality(R \cap Repeated)
  BY DEF Tallied, R
<1>7. a \in Int /\ b \in Int
  BY <1>1
<1> QED
  BY <1>3, <1>5, <1>6, <1>7 DEF R

\* Only rows of phase B come behind the watermark: it never passes the stamp of the others.
LEMMA LateRows ==
    ASSUME Typed, DropsInv, TopicOK, NEW i \in 1 .. Len(log), Late(log[i])
    PROVE  i \in PhaseB
<1>1. /\ log[i].ts \in Nat \ {0} /\ lateWm \in Nat /\ nextWm \in Nat
      /\ lateWm <= nextWm /\ log[i].ts <= lateWm /\ offset \in 0 .. Len(log)
      /\ Len(log) \in Nat /\ Delay \in Nat \ {0}
  BY LogTyped, ConsumerAssumption DEF Typed, TypeOK, DropsInv, Late
<1>2. nextWm > 0
  BY <1>1
<1>3. PICK j \in 1 .. offset : log[j].ts >= nextWm + Delay
  BY <1>2 DEF DropsInv, Newer
<1>4. j \in 1 .. Len(log)
  BY <1>1
<1>5. log[j].ts \in {OnTime, TenMinutesAgo} /\ log[i].ts \in {OnTime, TenMinutesAgo}
  BY <1>4 DEF TopicOK
<1>6. log[i].ts = TenMinutesAgo
  BY <1>1, <1>3, <1>5, DemoTimes
<1> QED
  BY <1>6 DEF PhaseB

\* The operators' counters of a batch that commits are the rows that become late and
\* duplicate ones.
LEMMA CommitTallied ==
    ASSUME Typed, DropsInv, BatchInv, TopicOK, Commit
    PROVE  Tallied(Dropped', Repeated', BatchProgress, offset, planned)
<1> DEFINE rows == offset + 1 .. planned
           late == {i \in rows : Late(log[i])}
<1>1. /\ offset \in Nat /\ planned \in Nat /\ planned <= Len(log) /\ Len(log) \in Nat
      /\ counted \subseteq 1 .. offset /\ Running /\ pos = planned
  BY BatchPlace DEF Commit, Running, Typed, BatchOK
<1>2. taken = Passed(planned) /\ taken \subseteq rows
  BY <1>1 DEF BatchInv, Passed
<1>3. log' = log /\ counted' = counted \cup taken /\ PhaseB' = PhaseB
  BY DEF Commit, PhaseB
<1>4. \A i \in rows : /\ i \in 1 .. Len(log) /\ i \notin 1 .. offset
                      /\ (i \in counted' <=> i \in taken)
  BY <1>1, <1>3
<1>5. \A i \in rows : Late(log[i]) => i \in PhaseB /\ i \notin taken
  BY <1>2, <1>4, LateRows DEF Passed
<1>6. ASSUME NEW i \in rows, i \in PhaseB, ~Late(log[i])
      PROVE  i \in taken
  <2>1. i \in 1 .. Len(log) /\ log[i].txn \in Txns
    BY <1>4, LogTyped DEF Typed
  <2>2. \A j \in 1 .. Len(log) : log[j].txn = log[i].txn => j = i
    BY <1>6 DEF TopicOK
  <2>3. seen[log[i].txn] = None
    <3> SUFFICES ASSUME seen[log[i].txn] # None
                 PROVE  FALSE
      OBVIOUS
    <3>1. PICK j \in counted : log[j].txn = log[i].txn
      BY <2>1 DEF DropsInv, Known
    <3>2. j \in 1 .. offset /\ j \in 1 .. Len(log)
      BY <1>1
    <3> QED
      BY <1>4, <2>2, <3>1, <3>2
  <2>4. LateSoFar(log[i].txn, i - 1)
    <3> SUFFICES ASSUME NEW j \in offset + 1 .. i - 1, log[j].txn = log[i].txn
                 PROVE  FALSE
      BY DEF LateSoFar
    <3>1. j \in 1 .. Len(log) /\ j # i
      BY <1>1, <2>1
    <3> QED
      BY <2>2, <3>1
  <2> QED
    BY <1>2, <1>6, <2>3, <2>4 DEF Passed
<1> HIDE DEF rows
<1>7. late = rows \cap Dropped'
  BY <1>3, <1>4, <1>5, <1>6 DEF Dropped
<1>8. rows \ (late \cup taken) = rows \cap Repeated'
  BY <1>3, <1>4, <1>5, <1>6 DEF Repeated
<1> HIDE DEF late
<1>9. BatchProgress = [input |-> Cardinality(rows), late |-> Cardinality(late),
                       dups |-> Cardinality(rows \ (late \cup taken))]
  BY DEF BatchProgress, rows, late
<1> QED
  BY <1>7, <1>8, <1>9 DEF Tallied, rows

\* A committed row stays what it is.
LEMMA RowsStay ==
    ASSUME Typed, Len(log') \in Nat, Len(log') >= Len(log),
           \A i \in 1 .. Len(log) : log'[i] = log[i],
           \A i \in 1 .. offset : i \in counted' <=> i \in counted
    PROVE  \A i \in 1 .. offset : /\ i \in Dropped' <=> i \in Dropped
                                  /\ i \in Repeated' <=> i \in Repeated
<1>1. \A i \in 1 .. offset : i \in 1 .. Len(log) /\ i \in 1 .. Len(log')
  BY LogTyped DEF Typed, TypeOK
<1>2. \A i \in 1 .. offset : i \in PhaseB' <=> i \in PhaseB
  BY <1>1 DEF PhaseB
<1> QED
  BY <1>1, <1>2 DEF Dropped, Repeated

LEMMA StretchStays ==
    ASSUME NEW n \in Nat, NEW L, NEW D, NEW L2, NEW D2,
           \A i \in 1 .. n : (i \in L2 <=> i \in L) /\ (i \in D2 <=> i \in D),
           NEW a \in 0 .. n, NEW b \in 0 .. n, NEW r, Tallied(L, D, r, a, b)
    PROVE  Tallied(L2, D2, r, a, b)
<1>1. a + 1 .. b \subseteq 1 .. n
  OBVIOUS
<1>2. (a + 1 .. b) \cap L2 = (a + 1 .. b) \cap L /\ (a + 1 .. b) \cap D2 = (a + 1 .. b) \cap D
  BY <1>1
<1> QED
  BY <1>2 DEF Tallied

\* A summary of what the progress says is a report of some stretch of the committed rows.
LEMMA SummaryOfCuts ==
    ASSUME NEW s \in Seq(BatchRecord), NEW n \in Nat, NEW e \in Cuts(s, n),
           NEW L, NEW D, Tally(L, D, s, e)
    PROVE  \E a, b \in 0 .. n : a <= b /\ Tallied(L, D, Summary(s), a, b)
<1>1. /\ Len(s) \in Nat /\ e \in [0 .. Len(s) -> 0 .. n]
      /\ \A i, j \in 0 .. Len(s) : i <= j => e[i] <= e[j]
  BY TallyBounds
<1>2. 0 \in 0 .. Len(s) /\ Len(s) \in 0 .. Len(s) /\ 0 <= Len(s)
  BY <1>1
<1>3. e[0] \in 0 .. n /\ e[Len(s)] \in 0 .. n /\ e[0] <= e[Len(s)]
  BY <1>1, <1>2
<1>4. Tallied(L, D, Summary(s), e[0], e[Len(s)])
  BY SummaryTallied
<1> QED
  BY <1>3, <1>4

\* Steps of the query that commit nothing, of the script and of the topic.
LEMMA ReportedStays ==
    ASSUME ScriptTyped, Typed, Reported,
           Len(log') \in Nat, Len(log') >= Len(log),
           \A i \in 1 .. Len(log) : log'[i] = log[i],
           UNCHANGED <<offset, counted, progress>>,
           snapshot' \in {snapshot, progress}, report' \in {report, Summary(snapshot)}
    PROVE  Reported'
<1>1. offset \in Nat /\ progress \in Seq(BatchRecord) /\ snapshot \in Seq(BatchRecord)
  BY LogTyped DEF Typed, TypeOK, ScriptTyped
<1>2. \A i \in 1 .. offset : /\ i \in Dropped' <=> i \in Dropped
                             /\ i \in Repeated' <=> i \in Repeated
  BY RowsStay
<1>3. \E e \in Cuts(progress, offset) :
         Tally(Dropped', Repeated', progress, e) /\ e[Len(progress)] = offset
  <2>1. PICK e \in Cuts(progress, offset) :
           Tally(Dropped, Repeated, progress, e) /\ e[Len(progress)] = offset
    BY DEF Reported
  <2>2. Tally(Dropped', Repeated', progress, e)
    BY <1>1, <1>2, <2>1, TallyStays
  <2> QED
    BY <2>1, <2>2
<1>4. \E e \in Cuts(snapshot, offset) : Tally(Dropped', Repeated', snapshot, e)
  <2>1. PICK e \in Cuts(snapshot, offset) : Tally(Dropped, Repeated, snapshot, e)
    BY DEF Reported
  <2>2. Tally(Dropped', Repeated', snapshot, e)
    BY <1>1, <1>2, <2>1, TallyStays
  <2> QED
    BY <2>1, <2>2
<1>5. \E e \in Cuts(snapshot', offset) : Tally(Dropped', Repeated', snapshot', e)
  BY <1>3, <1>4
<1>6. report' # None =>
         \E a, b \in 0 .. offset : a <= b /\ Tallied(Dropped', Repeated', report', a, b)
  <2>1. CASE report' = report
    <3> SUFFICES ASSUME report # None
                 PROVE  \E a, b \in 0 .. offset :
                           a <= b /\ Tallied(Dropped', Repeated', report, a, b)
      BY <2>1
    <3>1. PICK a \in 0 .. offset, b \in 0 .. offset :
             a <= b /\ Tallied(Dropped, Repeated, report, a, b)
      BY DEF Reported
    <3>2. Tallied(Dropped', Repeated', report, a, b)
      BY <1>1, <1>2, <3>1, StretchStays
    <3> QED
      BY <3>1, <3>2
  <2>2. CASE report' = Summary(snapshot)
    BY <1>1, <1>4, <2>2, SummaryOfCuts
  <2> QED
    BY <2>1, <2>2
<1> QED
  BY <1>3, <1>5, <1>6 DEF Reported

\* A commit adds its record, and the ring may lose its oldest.
LEMMA ReportedCommit ==
    ASSUME ScriptTyped, Typed, DropsInv, BatchInv, TopicOK, Reported, Commit,
           progress' = Ring(Append(progress, BatchProgress)), UNCHANGED <<snapshot, report>>
    PROVE  Reported'
<1>1. /\ offset \in Nat /\ planned \in Nat /\ offset <= planned
      /\ counted \subseteq 1 .. offset /\ taken \subseteq offset + 1 .. planned
      /\ progress \in Seq(BatchRecord) /\ snapshot \in Seq(BatchRecord)
  BY BatchPlace DEF Commit, Running, Typed, BatchOK, ScriptTyped
<1>2. offset' = planned /\ log' = log /\ counted' = counted \cup taken
  BY DEF Commit
<1>3. \A i \in 1 .. offset : /\ i \in Dropped' <=> i \in Dropped
                             /\ i \in Repeated' <=> i \in Repeated
  <2>1. Len(log') \in Nat /\ Len(log') >= Len(log)
    BY <1>2, LogTyped DEF Typed
  <2>2. \A i \in 1 .. offset : i \in counted' <=> i \in counted
    BY <1>1, <1>2
  <2> QED
    BY <1>2, <2>1, <2>2, RowsStay
<1>4. BatchProgress \in BatchRecord
      /\ Tallied(Dropped', Repeated', BatchProgress, offset, planned)
  BY BatchProgressType, CommitTallied
<1>5. \E e \in Cuts(progress', planned) :
         Tally(Dropped', Repeated', progress', e) /\ e[Len(progress')] = planned
  <2>1. PICK e \in Cuts(progress, offset) :
           Tally(Dropped, Repeated, progress, e) /\ e[Len(progress)] = offset
    BY DEF Reported
  <2>2. Tally(Dropped', Repeated', progress, e)
    BY <1>1, <1>3, <2>1, TallyStays
  <2> DEFINE s == Append(progress, BatchProgress)
  <2>3. s \in Seq(BatchRecord) /\ s # <<>>
    BY <1>1, <1>4, AppendProperties
  <2>4. PICK c \in Cuts(s, planned) :
           Tally(Dropped', Repeated', s, c) /\ c[Len(s)] = planned
    BY <1>1, <1>4, <2>1, <2>2, TallyAppend
  <2> HIDE DEF s
  <2>5. \E d \in Cuts(Tail(s), planned) :
           /\ Tally(Dropped', Repeated', Tail(s), d)
           /\ d[Len(Tail(s))] = planned
    BY <1>1, <2>3, <2>4, TallyTail
  <2>6. progress' = s \/ progress' = Tail(s)
    BY DEF Ring, s
  <2> QED
    BY <2>4, <2>5, <2>6
<1>6. \E e \in Cuts(snapshot, planned) : Tally(Dropped', Repeated', snapshot, e)
  <2>1. PICK e \in Cuts(snapshot, offset) : Tally(Dropped, Repeated, snapshot, e)
    BY DEF Reported
  <2>2. e \in Cuts(snapshot, planned) /\ Tally(Dropped', Repeated', snapshot, e)
    BY <1>1, <1>3, <2>1, TallyStays
  <2> QED
    BY <2>2
<1>7. report # None =>
         \E a, b \in 0 .. planned : a <= b /\ Tallied(Dropped', Repeated', report, a, b)
  <2> SUFFICES ASSUME report # None
               PROVE  \E a, b \in 0 .. planned :
                         a <= b /\ Tallied(Dropped', Repeated', report, a, b)
    OBVIOUS
  <2>1. PICK a \in 0 .. offset, b \in 0 .. offset :
           a <= b /\ Tallied(Dropped, Repeated, report, a, b)
    BY DEF Reported
  <2>2. Tallied(Dropped', Repeated', report, a, b)
    BY <1>1, <1>3, <2>1, StretchStays
  <2>3. a \in 0 .. planned /\ b \in 0 .. planned
    BY <1>1
  <2> QED
    BY <2>1, <2>2, <2>3
<1> QED
  BY <1>2, <1>5, <1>6, <1>7 DEF Reported

\* Nothing is committed, read or reported when a round gets under way.
LEMMA ReportedBlank ==
    ASSUME ResetSink
    PROVE  Reported'
<1> DEFINE e == [i \in 0 .. 0 |-> 0]
<1>1. offset' = 0 /\ progress' = <<>> /\ snapshot' = <<>> /\ report' = None
  BY DEF ResetSink, FreshQuery
<1>2. Len(<<>>) = 0 /\ e \in [0 .. 0 -> 0 .. 0] /\ e[0] = 0
  OBVIOUS
<1>3. e \in Cuts(<<>>, 0)
  <2>1. \A i, j \in 0 .. 0 : i <= j => e[i] <= e[j]
    OBVIOUS
  <2> HIDE DEF e
  <2> QED
    BY <1>2, <2>1 DEF Cuts
<1>4. \A L, D : Tally(L, D, <<>>, e)
  BY <1>2 DEF Tally
<1> HIDE DEF e
<1> QED
  BY <1>1, <1>2, <1>3, <1>4 DEF Reported

LEMMA ReportedStep ==
    ASSUME ScriptTyped, Turns, ConsumerInv, TopicOK, Reported, [DemoNext]_allVars,
           Live, Live', ~ResetSink
    PROVE  Reported'
<1> USE DEF ConsumerInv
<1>1. Len(log) \in Nat
  BY LogTyped DEF Typed
<1>2. CASE UNCHANGED <<log, offset, counted, progress>> /\ snapshot' \in {snapshot, progress}
           /\ report' \in {report, Summary(snapshot)}
  BY <1>1, <1>2, ReportedStays
<1>3. CASE ResetTopic
  BY <1>3 DEF ResetTopic, Live, reporting
<1>4. CASE StartConsumer \/ BeginPhaseB \/ EndPhaseB \/ Check \/ Abort
  <2>1. UNCHANGED <<log, offset, counted, progress, snapshot, report>>
    BY <1>4 DEF StartConsumer, Start, BeginPhaseB, EndPhaseB, Check, Abort, vars, reporting,
                checkpoint
  <2> QED
    BY <1>2, <2>1
<1>5. CASE SendRow
  <2>1. UNCHANGED <<offset, counted, progress, snapshot, report>>
    BY <1>5 DEF SendRow, checkpoint, reporting
  <2>2. log' = log \/ \E n \in {1, 2} : Adds(n)
    BY <1>5, SendRowAdds DEF Typed
  <2>3. /\ Len(log') \in Nat /\ Len(log') >= Len(log)
        /\ \A i \in 1 .. Len(log) : log'[i] = log[i]
    BY <1>1, <2>2 DEF Adds
  <2> QED
    BY <2>1, <2>3, ReportedStays
<1>6. CASE RunQuery
  <2>1. UNCHANGED <<snapshot, report>>
    BY <1>6 DEF RunQuery
  <2>2. CASE Commit /\ progress' = Ring(Append(progress, BatchProgress))
    BY <2>1, <2>2, ReportedCommit
  <2>3. CASE (Plan \/ Begin \/ ReadRow \/ Enforce \/ Merge) /\ UNCHANGED progress
    <3>1. UNCHANGED <<log, offset, counted>>
      BY <2>3 DEF Plan, Begin, ReadRow, Enforce, Merge, checkpoint
    <3> QED
      BY <1>2, <2>1, <2>3, <3>1
  <2> QED
    BY <1>6, <2>2, <2>3 DEF RunQuery
<1>7. CASE QueryFailed \/ TimeIsUp \/ StopAndReport \/ ConsumerDies
  <2>1. /\ UNCHANGED <<log, offset, counted, progress>>
        /\ snapshot' \in {snapshot, progress} /\ report' \in {report, Summary(snapshot)}
    BY <1>7 DEF QueryFailed, TimeIsUp, StopAndReport, ConsumerDies, Crash, vars, checkpoint
  <2> QED
    BY <1>2, <2>1
<1>8. CASE UNCHANGED allVars
  <2>1. UNCHANGED <<log, offset, counted, progress, snapshot, report>>
    BY <1>8 DEF allVars, demo, reporting, vars, checkpoint
  <2> QED
    BY <1>2, <2>1
<1> QED
  BY <1>3, <1>4, <1>5, <1>6, <1>7, <1>8 DEF DemoNext, Advance, Consumer

LEMMA ReportWithinRunStep ==
    ASSUME ScriptTyped, Turns, Live => Typed /\ Reported, ReportWithinRun, [DemoNext]_allVars
    PROVE  ReportWithinRun'
<1>1. CASE UNCHANGED <<offset, counted, report>>
  BY <1>1 DEF ReportWithinRun
<1>2. CASE ResetSink
  BY <1>2 DEF ResetSink, ReportWithinRun
<1>3. CASE StopAndReport
  <2>1. /\ Live /\ UNCHANGED <<offset, counted>> /\ report' = Summary(snapshot)
    BY <1>3 DEF StopAndReport, Live, checkpoint
  <2>2. PICK e \in Cuts(snapshot, offset) : Tally(Dropped, Repeated, snapshot, e)
    BY <2>1 DEF Reported
  <2>3. offset \in Nat /\ snapshot \in Seq(BatchRecord) /\ counted \subseteq 1 .. offset
    BY <2>1, LogTyped DEF Typed, TypeOK, ScriptTyped
  <2>4. PICK a \in 0 .. offset, b \in 0 .. offset :
           a <= b /\ Tallied(Dropped, Repeated, Summary(snapshot), a, b)
    BY <2>2, <2>3, SummaryOfCuts
  <2> DEFINE r == Summary(snapshot)
  <2> HIDE DEF r
  <2>5. r.input = b - a /\ r.input - r.dups - r.late = Cardinality((a + 1 .. b) \cap counted)
    BY <2>1, <2>4, TalliedParts DEF r
  <2>6. r.input <= offset
    BY <2>3, <2>5
  <2>7. Cardinality((a + 1 .. b) \cap counted) <= Cardinality(counted)
    <3>1. IsFiniteSet(1 .. offset)
      BY <2>3, FS_Interval
    <3>2. IsFiniteSet(counted)
      BY <2>3, <3>1, FS_Subset
    <3> QED
      BY <3>2, FS_Intersection
  <2> QED
    BY <2>1, <2>5, <2>6, <2>7 DEF ReportWithinRun, r
<1>4. CASE RunQuery \/ QueryFailed \/ TimeIsUp \/ ConsumerDies
  <2>1. report' = report /\ proc # "exited"
    BY <1>4 DEF RunQuery, QueryFailed, TimeIsUp, ConsumerDies
  <2> QED
    BY <2>1 DEF ReportWithinRun, Turns
<1>5. CASE ResetTopic \/ StartConsumer \/ SendRow \/ BeginPhaseB \/ EndPhaseB \/ Check \/ Abort
           \/ UNCHANGED allVars
  <2>1. UNCHANGED <<offset, counted, report>>
    BY <1>5 DEF ResetTopic, StartConsumer, Start, SendRow, BeginPhaseB, EndPhaseB, Check, Abort,
                vars, reporting, checkpoint, allVars, demo
  <2> QED
    BY <1>1, <2>1
<1> QED
  BY <1>2, <1>3, <1>4, <1>5 DEF DemoNext, Advance, Consumer

-----------------------------------------------------------------------------
(* What the script finds *)

\* What DemoHonest says of a round the script called a success.
Reconciled ==
    /\ ~lost /\ sentA + sentB = Len(log) /\ offset = Len(log)
    /\ SinkTotal = Cardinality(counted)
    /\ report.late = Cardinality(PhaseB \ counted)
    /\ report.dups = Cardinality((1 .. Len(log)) \ (PhaseB \cup counted))

\* A report on the whole topic: its numbers are those of all late, duplicate and counted rows.
LEMMA WholeReport ==
    ASSUME Typed, Reported, report # None, report.input >= Len(log)
    PROVE  /\ offset = Len(log) /\ report.input = Len(log)
           /\ report.late \in Nat /\ report.dups \in Nat
           /\ report.late = Cardinality(PhaseB \ counted)
           /\ report.dups = Cardinality((1 .. Len(log)) \ (PhaseB \cup counted))
           /\ report.input - report.dups - report.late = Cardinality(counted)
<1>1. PICK a \in 0 .. offset, b \in 0 .. offset :
         a <= b /\ Tallied(Dropped, Repeated, report, a, b)
  BY DEF Reported
<1>2. /\ offset \in Nat /\ Len(log) \in Nat /\ offset <= Len(log)
      /\ counted \subseteq 1 .. offset /\ a \in Nat /\ b \in Nat
  BY LogTyped DEF Typed, TypeOK
<1>3. /\ report.input = b - a /\ report.late \in Nat /\ report.dups \in Nat
      /\ report.input - report.dups - report.late = Cardinality((a + 1 .. b) \cap counted)
  BY <1>1, TalliedParts
<1>4. a = 0 /\ b = offset /\ offset = Len(log) /\ report.input = Len(log)
  BY <1>2, <1>3
<1>5. a + 1 .. b = 1 .. Len(log)
  BY <1>4
<1>6. /\ (1 .. Len(log)) \cap Dropped = PhaseB \ counted
      /\ (1 .. Len(log)) \cap Repeated = (1 .. Len(log)) \ (PhaseB \cup counted)
      /\ (1 .. Len(log)) \cap counted = counted
  BY <1>2, <1>4 DEF Dropped, Repeated, PhaseB
<1>7. /\ report.late = Cardinality((a + 1 .. b) \cap Dropped)
      /\ report.dups = Cardinality((a + 1 .. b) \cap Repeated)
  BY <1>1 DEF Tallied
<1> QED
  BY <1>3, <1>4, <1>5, <1>6, <1>7

\* The identity and the query of the sink leave no other explanation of a success.
LEMMA VerdictReconciles ==
    ASSUME ScriptTyped, Typed, SendInv, Reported, step = "wait", Verdict = "ok"
    PROVE  Reconciled
<1>1. /\ report # None
      /\ sentA + sentB
           = (report.input - report.dups - report.late) + report.dups + report.late
      /\ SinkTotal = report.input - report.dups - report.late
  BY DEF Verdict
<1>2. report.input \in Nat /\ report.dups \in Nat /\ report.late \in Nat
  BY <1>1 DEF ScriptTyped, BatchRecord
<1>3. sentA \in Nat /\ sentB \in Nat /\ Arrived(sentA + sentB)
  BY DEF SendInv
<1>4. sentA + sentB = report.input
  BY <1>1, <1>2, <1>3
<1>5. Len(log) <= sentA + sentB /\ (lost <=> Len(log) # sentA + sentB)
  BY <1>3 DEF Arrived
<1>6. Len(log) \in Nat /\ report.input >= Len(log)
  BY <1>2, <1>4, <1>5, LogTyped DEF Typed
<1>7. /\ offset = Len(log) /\ report.input = Len(log)
      /\ report.late = Cardinality(PhaseB \ counted)
      /\ report.dups = Cardinality((1 .. Len(log)) \ (PhaseB \cup counted))
      /\ report.input - report.dups - report.late = Cardinality(counted)
  BY <1>1, <1>6, WholeReport
<1>8. sentA + sentB = Len(log)
  BY <1>4, <1>7
<1>9. ~lost
  BY <1>5, <1>8
<1> QED
  BY <1>1, <1>7, <1>8, <1>9 DEF Reconciled

LEMMA DemoHonestStep ==
    ASSUME ScriptTyped, Turns, SendInv, Live => Typed /\ Reported, DemoHonest,
           [DemoNext]_allVars
    PROVE  DemoHonest'
<1> SUFFICES ASSUME outcome' = "ok", step' = "idle"
             PROVE  Reconciled'
  BY DEF DemoHonest, Reconciled
<1>1. CASE Check
  <2>1. step = "wait" /\ Live /\ outcome' = Verdict
    BY <1>1 DEF Check, Live
  <2>2. Reconciled
    BY <2>1, VerdictReconciles
  <2>3. UNCHANGED <<log, offset, counted, sink, report, sentA, sentB, lost>>
    BY <1>1 DEF Check, vars, checkpoint, reporting
  <2> QED
    BY <2>2, <2>3 DEF Reconciled, SinkTotal, PhaseB
<1>2. CASE UNCHANGED allVars
  <2>1. UNCHANGED <<log, offset, counted, sink, report, sentA, sentB, lost, outcome, step>>
    BY <1>2 DEF allVars, demo, script, reporting, vars, checkpoint
  <2>2. Reconciled
    BY <2>1 DEF DemoHonest, Reconciled
  <2> QED
    BY <2>1, <2>2 DEF Reconciled, SinkTotal, PhaseB
<1>3. CASE Consumer
  <2>1. UNCHANGED <<step, outcome>> /\ proc # "exited"
    BY <1>3, ConsumerReads DEF Consumer, RunQuery, QueryFailed, TimeIsUp, StopAndReport,
                               ConsumerDies, script
  <2> QED
    BY <2>1 DEF Turns
<1> QED
  BY <1>1, <1>2, <1>3
     DEF DemoNext, Advance, ResetTopic, ResetSink, StartConsumer, SendRow, BeginPhaseB,
         EndPhaseB, Abort

\* The table counts the rows it shows.
LEMMA SinkTotalShown ==
    ASSUME Typed, SinkInv, NothingBroken, ShownNamed
    PROVE  SinkTotal = Cardinality(shown)
<1> DEFINE f == [k \in Keys |-> SumOf(sink[k])]
           A == [k \in Keys |-> RowsIn(k, shown)]
<1>1. shown \subseteq 1 .. Len(log) /\ Len(log) \in Nat
  BY LogTyped DEF Typed, TypeOK
<1>2. IsFiniteSet(shown)
  <2>1. IsFiniteSet(1 .. Len(log))
    BY <1>1, FS_Interval
  <2> QED
    BY <1>1, <2>1, FS_Subset
<1>3. ASSUME NEW k \in Keys
      PROVE  CountIn(k, shown) \in Nat /\ SumOf(sink[k]) = CountIn(k, shown)
  <2>1. CountIn(k, shown) \in Nat
    BY <1>1, CountType DEF Typed
  <2>2. sink[k] = IF CountIn(k, shown) = 0 THEN <<>> ELSE <<CountIn(k, shown)>>
    BY SinkCounts
  <2> QED
    BY <2>1, <2>2, SumOfFew
<1>4. f \in [Keys -> Nat] /\ A \in [Keys -> SUBSET shown]
  BY <1>3 DEF RowsIn
<1>5. \A k \in Keys : Cardinality(A[k]) = f[k]
  BY <1>3 DEF CountIn
<1>6. \A i \in shown : \E k \in Keys : i \in A[k]
  <2>1. \A i \in shown : KeyOf(log[i]) \in Keys
    BY <1>1, LogTyped DEF Typed
  <2> QED
    BY <2>1 DEF RowsIn
<1>7. \A k, l \in Keys : \A i \in A[k] : i \in A[l] => k = l
  BY DEF RowsIn
<1> HIDE DEF f, A
<1>8. Parts(Keys, f, A, shown)
  BY <1>2, <1>4, <1>5, <1>6, <1>7 DEF Parts
<1>9. SumOf(f) = Cardinality(shown)
  BY <1>8, SumOfSizes
<1> QED
  BY <1>9 DEF SinkTotal, f

\* When the whole topic is consumed, no batch has merged a row it has not committed.
LEMMA AllShownCounted ==
    ASSUME Typed, SinkInv, offset = Len(log)
    PROVE  shown = counted
<1>1. CASE planned = None
  BY <1>1 DEF SinkInv
<1>2. CASE planned # None
  <2>1. planned = offset /\ offset \in Nat
    BY <1>2, LogTyped DEF Typed, TypeOK
  <2>2. Passed(planned) = {}
    BY <2>1 DEF Passed
  <2> QED
    BY <2>2 DEF SinkInv
<1> QED
  BY <1>1, <1>2

LEMMA RepeatableState ==
    ASSUME OnViolation = "fail", DemoInv
    PROVE  DemoRepeatable
<1> SUFFICES ASSUME step = "wait", proc = "exited", report # None, ~lost,
                    report.input = Len(log), report.late > 0
             PROVE  Verdict = "ok"
  BY DEF DemoRepeatable
<1>1. /\ ScriptTyped /\ SendInv /\ Typed /\ SinkInv /\ NothingBroken /\ ShownNamed /\ Reported
  BY DEF DemoInv, Live, ConsumerInv
<1>2. Len(log) \in Nat /\ report.input >= Len(log)
  BY <1>1, LogTyped DEF Typed
<1>3. /\ offset = Len(log) /\ report.late \in Nat /\ report.dups \in Nat
      /\ report.input - report.dups - report.late = Cardinality(counted)
  BY <1>1, <1>2, WholeReport
<1>4. SinkTotal = report.input - report.dups - report.late
  BY <1>1, <1>3, SinkTotalShown, AllShownCounted
<1>5. sentA \in Nat /\ sentB \in Nat /\ (lost <=> Len(log) # sentA + sentB)
  BY <1>1 DEF SendInv, Arrived
<1>6. sentA + sentB = report.input
  BY <1>5
<1>7. sentA # None /\ sentB # None
  BY <1>5, ConsumerAssumption
<1>8. sentA + sentB = (report.input - report.dups - report.late) + report.dups + report.late
  BY <1>2, <1>3, <1>6
<1> QED
  BY <1>4, <1>7, <1>8 DEF Verdict

-----------------------------------------------------------------------------
(* The theorems *)

LEMMA DemoInvInit == DemoInit => DemoInv
<1> SUFFICES ASSUME DemoInit
             PROVE  DemoInv
  OBVIOUS
<1>1. ScriptTyped
  <2>1. /\ <<>> \in Seq(BatchRecord) /\ <<>> \in Seq(Txns) /\ Len(<<>>) = 0
    BY EmptySeq
  <2>2. 0 \in 0 .. MaxCrashes /\ 0 \in 0 .. MaxRounds /\ 0 <= RingSize
    BY ConsumerAssumption, DemoAssumption
  <2> QED
    BY <2>1, <2>2 DEF DemoInit, Init, ScriptTyped, Steps
<1>2. Turns /\ ~Live /\ SendInv /\ ReportWithinRun /\ DemoHonest
  <2>1. None # "ok"
    BY DemoAssumption
  <2> QED
    BY <2>1 DEF DemoInit, Init, Turns, Live, SendInv, ReportWithinRun, DemoHonest
<1> QED
  BY <1>1, <1>2 DEF DemoInv

LEMMA DemoInvStep ==
    ASSUME DemoInv, [DemoNext]_allVars
    PROVE  DemoInv'
<1>1. ScriptTyped /\ Turns /\ SendInv /\ ReportWithinRun /\ DemoHonest
      /\ (Live => Typed /\ TopicOK /\ Reported)
  BY DEF DemoInv, ConsumerInv
<1>2. ScriptTyped' /\ Turns' /\ SendInv' /\ ReportWithinRun' /\ DemoHonest'
  BY <1>1, ScriptTypedStep, TurnsStep, SendInvStep, ReportWithinRunStep, DemoHonestStep
<1>3. ASSUME Live'
      PROVE  ConsumerInv' /\ TopicOK' /\ Reported'
  <2>1. CASE ResetSink
    <3>1. Blank'
      BY <1>1, <1>3, <2>1, LiveStep DEF Live, Turns, ResetSink
    <3>2. ConsumerInv'
      BY <3>1, BlankConsumer, PTL
    <3>3. TopicOK'
      BY <3>1 DEF Blank, TopicOK, PhaseB
    <3> QED
      BY <2>1, <3>2, <3>3, ReportedBlank
  <2>2. CASE ~ResetSink
    <3>1. Live /\ Step
      BY <1>1, <1>3, <2>2, LiveStep
    <3>2. ConsumerInv /\ TopicOK /\ Reported
      BY <3>1 DEF DemoInv
    <3>3. ConsumerInv'
      BY <3>1, <3>2, ConsumerStep
    <3>4. TopicOK'
      BY <1>1, <1>3, <2>2, <3>1, TopicStep
    <3>5. Reported'
      BY <1>1, <1>3, <2>2, <3>1, <3>2, ReportedStep
    <3> QED
      BY <3>3, <3>4, <3>5
  <2> QED
    BY <2>1, <2>2
<1> QED
  BY <1>2, <1>3 DEF DemoInv

LEMMA DemoInvariant == DemoSpec => []DemoInv
  BY DemoInvInit, DemoInvStep, PTL DEF DemoSpec

\* Every variable of the script and of the report keeps its type, and so does the consumer's
\* state from the start of a round to its end.
THEOREM DemoTypeCorrect == DemoSpec => []DemoTypeOK
<1>1. DemoInv => DemoTypeOK
  <2> SUFFICES ASSUME DemoInv
               PROVE  DemoTypeOK
    OBVIOUS
  <2>1. ScriptTyped
    BY DEF DemoInv
  <2>2. step \in Steps \ {"idle", "resetSink"} => TypeOK
    BY DEF DemoInv, Live, Steps, ConsumerInv, Typed
  <2> QED
    BY <2>1, <2>2 DEF ScriptTyped, DemoTypeOK
<1> QED
  BY <1>1, DemoInvariant, PTL

\* The report never claims more rows than the committed batches hold, nor more counted ones,
\* although it is summed from a ring of records read before the query stopped.
THEOREM ReportWithinRunAlways == DemoSpec => []ReportWithinRun
<1>1. DemoInv => ReportWithinRun
  BY DEF DemoInv
<1> QED
  BY <1>1, DemoInvariant, PTL

\* A round that the script calls a success has nothing lost and nothing left to consume, a
\* table that counts exactly the rows counted, and a report whose late and duplicate rows are
\* those of phase B and of phase A that were not: no numbers that differ add up.
THEOREM DemoHonestAlways == DemoSpec => []DemoHonest
<1>1. DemoInv => DemoHonest
  BY DEF DemoInv
<1> QED
  BY <1>1, DemoInvariant, PTL

\* A round whose events all arrived, whose consumer reported on the whole topic and found
\* something late reconciles, whatever the rounds before it left behind.  (Under "warn" it
\* need not: MERGE matches no row of a NULL category, so the table holds every count that the
\* window had on the way.)
THEOREM DemoRepeatableAlways ==
    ASSUME OnViolation = "fail"
    PROVE  DemoSpec => []DemoRepeatable
<1>1. DemoInv => DemoRepeatable
  BY RepeatableState
<1> QED
  BY <1>1, DemoInvariant, PTL
=============================================================================
