--------------------------- MODULE NightlyDagProofs ---------------------------
(***************************************************************************)
(* Theorems about the nightly DAG, for every set of contracts bronze,      *)
(* silver and gold enforce and any number of nights and faults.            *)
(***************************************************************************)
EXTENDS NightlyDag, TLAPS

-----------------------------------------------------------------------------
(* The chain *)

Place == [t \in Tasks |-> CHOOSE i \in 1 .. 9 : Chain[i] = t]
Before(u, t) == Place[u] < Place[t]

LEMMA ChainLength == Len(Chain) = 9 /\ DOMAIN Chain = 1 .. 9
  BY DEF Chain

LEMMA TaskNames ==
    /\ Tasks = {"ingest", "bronze", "silver", "gold", "export", "warehouse_load",
                "dbt_build", "dashboard", "contract_summary"}
    /\ Leaf = "contract_summary"
<1>1. Tasks = {Chain[i] : i \in 1 .. 9}
  BY ChainLength DEF Tasks
<1>2. 1 .. 9 = {1, 2, 3, 4, 5, 6, 7, 8, 9}
  OBVIOUS
<1>3. Leaf = Chain[9]
  BY ChainLength DEF Leaf
<1> QED
  BY <1>1, <1>2, <1>3 DEF Chain

LEMMA Places ==
    /\ Place["ingest"] = 1 /\ Place["bronze"] = 2 /\ Place["silver"] = 3
    /\ Place["gold"] = 4 /\ Place["export"] = 5 /\ Place["warehouse_load"] = 6
    /\ Place["dbt_build"] = 7 /\ Place["dashboard"] = 8 /\ Place["contract_summary"] = 9
<1>1. ASSUME NEW t \in Tasks, NEW i \in 1 .. 9, Chain[i] = t,
             \A j \in 1 .. 9 : Chain[j] = t => j = i
      PROVE  Place[t] = i
  BY <1>1 DEF Place
<1>2. \A i, j \in 1 .. 9 : Chain[i] = Chain[j] => i = j
  BY DEF Chain
<1>3. \A i \in 1 .. 9 : Chain[i] \in Tasks => Place[Chain[i]] = i
  BY <1>1, <1>2
<1> QED
  BY <1>3, TaskNames DEF Chain

LEMMA PlaceType ==
    /\ \A t \in Tasks : Place[t] \in 1 .. 9
    /\ \A t, u \in Tasks : Place[t] = Place[u] => t = u
  BY TaskNames, Places

\* A task runs after its upstream task and whatever runs before that.
LEMMA UpstreamIs ==
    ASSUME NEW t \in Tasks
    PROVE  Upstream(t) = {u \in Tasks : Place[t] = Place[u] + 1}
<1>1. Upstream(t) = {Chain[i] : i \in {j \in 1 .. 8 : Chain[j + 1] = t}}
  BY ChainLength DEF Upstream
<1>2. \A j \in 1 .. 8 : Chain[j] \in Tasks /\ Place[Chain[j]] = j /\ Chain[j + 1] \in Tasks
                        /\ Place[Chain[j + 1]] = j + 1
  BY TaskNames, Places DEF Chain
<1>3. ASSUME NEW u \in Upstream(t)
      PROVE  u \in Tasks /\ Place[t] = Place[u] + 1
  BY <1>1, <1>2
<1>4. ASSUME NEW u \in Tasks, Place[t] = Place[u] + 1
      PROVE  u \in Upstream(t)
  <2>1. Place[u] \in 1 .. 8
    BY <1>4, PlaceType
  <2>2. Chain[Place[u]] = u /\ Chain[Place[u] + 1] = t
    BY <1>2, <1>4, <2>1, PlaceType
  <2> QED
    BY <1>1, <2>1, <2>2
<1> QED
  BY <1>3, <1>4

LEMMA BeforeUpstream ==
    ASSUME NEW t \in Tasks, NEW w \in Tasks, Before(w, t)
    PROVE  \E u \in Upstream(t) : w = u \/ Before(w, u)
<1>1. Place[t] \in 2 .. 9
  BY PlaceType DEF Before
<1>2. PICK u \in Tasks : Place[t] = Place[u] + 1
  BY <1>1, TaskNames, Places
<1>3. Place[w] <= Place[u]
  BY <1>2, PlaceType DEF Before
<1> QED
  BY <1>2, <1>3, UpstreamIs, PlaceType DEF Before

LEMMA BeforeOrAfter ==
    /\ \A t, u \in Tasks : t = u \/ Before(t, u) \/ Before(u, t)
    /\ \A t, u \in Tasks : ~(Before(t, u) /\ Before(u, t)) /\ ~Before(t, t)
    /\ \A t \in Tasks \ {Leaf} : Before(t, Leaf)
    /\ \A t \in {"bronze", "silver", "gold"} : Before(t, "dashboard")
<1>1. /\ \A t, u \in Tasks : t = u \/ Before(t, u) \/ Before(u, t)
      /\ \A t, u \in Tasks : ~(Before(t, u) /\ Before(u, t)) /\ ~Before(t, t)
  BY PlaceType DEF Before
<1>2. \A t \in Tasks \ {Leaf} : Before(t, Leaf)
  BY TaskNames, Places DEF Before
<1>3. \A t \in {"bronze", "silver", "gold"} : Before(t, "dashboard")
  BY Places DEF Before
<1> QED
  BY <1>1, <1>2, <1>3

LEMMA RetriesType == RetriesOf \in [Tasks -> Nat] /\ RetriesOf[Leaf] = 1
  BY TaskNames DEF RetriesOf

\* Only bronze, silver and gold have a contract to enforce.
LEMMA ContractTasks ==
    /\ \A t \in Tasks : Len(ContractsOf[t]) \in Nat
    /\ \A t \in Tasks : \A i \in 1 .. Len(ContractsOf[t]) :
         ContractsOf[t][i] \in BatchContracts /\ t \in {"bronze", "silver", "gold"}
    /\ \A c \in BatchContracts : \E t \in {"bronze", "silver", "gold"} :
         \E i \in 1 .. Len(ContractsOf[t]) : c = ContractsOf[t][i]
    /\ Len(ContractsOf[Leaf]) = 0 /\ Len(ContractsOf["dashboard"]) = 0
<1>1. \A t \in Tasks : Len(ContractsOf[t]) \in Nat
  BY NightlyAssumption
<1>2. \A t \in Tasks \ {"bronze", "silver", "gold"} : Len(ContractsOf[t]) = 0
  BY NightlyAssumption
<1>3. \A t \in Tasks : \A i \in 1 .. Len(ContractsOf[t]) : ContractsOf[t][i] \in BatchContracts
  BY DEF BatchContracts
<1>4. \A t \in Tasks : \A i \in 1 .. Len(ContractsOf[t]) : t \in {"bronze", "silver", "gold"}
  BY <1>2
<1>5. \A c \in BatchContracts : \E t \in Tasks : \E i \in 1 .. Len(ContractsOf[t]) :
        c = ContractsOf[t][i]
  BY DEF BatchContracts
<1> QED
  BY <1>1, <1>2, <1>3, <1>4, <1>5, TaskNames

-----------------------------------------------------------------------------
(* The inductive invariant *)

AttemptsInv == \A t \in Tasks : state[t] = "none" => attempt[t] <= RetriesOf[t]

\* A task that has started, or been skipped, has every task before it behind it; one of
\* the default trigger rule that runs or ran has only successes before it.
Ordered == \A t, u \in Tasks : Before(u, t) /\ state[t] # "none" => state[u] \in Ended
InTurn == \A t \in Tasks \ AllDone, u \in Tasks :
    Before(u, t) /\ state[t] \in {"running", "success"} => state[u] = "success"

\* The first n contracts of t held this night, and their latest reports say so.
HeldTo(t, n) == \A i \in 1 .. n :
    /\ ContractsOf[t][i] \notin Broken
    /\ report[ContractsOf[t][i]] = [night |-> night, status |-> verdict[ContractsOf[t][i]]]

\* What a running task has enforced so far, and all of what one that succeeded enforced, held.
ChecksInv == \A t \in Tasks :
    /\ state[t] = "running" => checked <= Len(ContractsOf[t]) /\ HeldTo(t, checked)
    /\ state[t] = "success" => HeldTo(t, Len(ContractsOf[t]))

\* The latest report of a contract that raised says so, also while its task is retried.
RaisedInv == \A c \in raised : report[c] = [night |-> night, status |-> "FAILED"]

PageInv == state["dashboard"] # "success" => page = pageBefore

\* A summary of this night that is true to the batch contracts' reports.  The stream's may have
\* been rewritten since.
OfThisNight ==
    /\ summary.night = night /\ summary # None
    /\ summary.status = Worst(summary.of)
    /\ \A c \in BatchContracts : summary.of[c] = report[c]

\* The summary task is never skipped, needs two faults to fail, and a summary it has written
\* stays true to the reports of the batch: nothing runs after it.
SummaryInv ==
    /\ state[Leaf] # "upstream_failed"
    /\ state[Leaf] = "none" => attempt[Leaf] <= faults
    /\ state[Leaf] = "running" => attempt[Leaf] <= faults + 1
    /\ state[Leaf] = "failed" => faults > RetriesOf[Leaf]
    /\ state[Leaf] = "success" => OfThisNight

EndInv == dagRun \in {"success", "failed"} => \A t \in Tasks : state[t] \in Ended

NightInv ==
    /\ TypeOK /\ AttemptsInv /\ Ordered /\ InTurn /\ ChecksInv /\ RaisedInv
    /\ PageInv /\ SummaryInv /\ EndInv

LEMMA EndedStates ==
    "none" \notin Ended /\ "running" \notin Ended /\ "success" \in Ended
  BY DEF Ended

\* One task runs at a time, and nothing after it has started.
LEMMA OneRuns ==
    ASSUME NightInv, NEW t \in Tasks, state[t] = "running"
    PROVE  /\ \A u \in Tasks : Before(u, t) => state[u] \in Ended
           /\ \A u \in Tasks : Before(t, u) => state[u] = "none"
           /\ \A u \in Tasks \ {t} : state[u] # "running"
           /\ dagRun \notin {"success", "failed"}
<1>1. \A u \in Tasks : Before(u, t) => state[u] \in Ended
  BY DEF NightInv, Ordered
<1>2. \A u \in Tasks : Before(t, u) => state[u] = "none"
  BY EndedStates DEF NightInv, Ordered
<1>3. dagRun \notin {"success", "failed"}
  BY EndedStates DEF NightInv, EndInv
<1> QED
  BY <1>1, <1>2, <1>3, EndedStates, BeforeOrAfter

LEMMA InitNight == Init => NightInv
<1> SUFFICES ASSUME Init PROVE NightInv
  OBVIOUS
<1>1. \A t \in Tasks : state[t] = "none" /\ attempt[t] = 0
  BY DEF Init
<1>2. TypeOK
  BY NightlyAssumption, RetriesType DEF Init, TypeOK, Broken
<1>3. AttemptsInv /\ Ordered /\ InTurn /\ ChecksInv
  BY <1>1, RetriesType, EndedStates DEF AttemptsInv, Ordered, InTurn, ChecksInv
<1>4. RaisedInv /\ PageInv /\ EndInv
  BY DEF Init, RaisedInv, PageInv, EndInv
<1>5. SummaryInv
  BY <1>1, TaskNames DEF Init, SummaryInv
<1> QED
  BY <1>2, <1>3, <1>4, <1>5 DEF NightInv

-----------------------------------------------------------------------------
(* The scheduler *)

LEMMA StartRunInv == NightInv /\ StartRun => NightInv'
<1> SUFFICES ASSUME NightInv, StartRun PROVE NightInv'
  OBVIOUS
<1>1. \A t \in Tasks : state'[t] = "none" /\ attempt'[t] = 0
  BY DEF StartRun
<1>2. TypeOK'
  BY NightlyAssumption, RetriesType DEF NightInv, StartRun, TypeOK, files
<1>3. (AttemptsInv /\ Ordered /\ InTurn /\ ChecksInv)'
  BY <1>1, RetriesType, EndedStates DEF AttemptsInv, Ordered, InTurn, ChecksInv
<1>4. (RaisedInv /\ PageInv /\ EndInv)'
  BY DEF StartRun, files, RaisedInv, PageInv, EndInv
<1>5. SummaryInv'
  BY <1>1, TaskNames DEF NightInv, TypeOK, StartRun, SummaryInv
<1> QED
  BY <1>2, <1>3, <1>4, <1>5 DEF NightInv

\* What starts, or is skipped, has every task before it behind it and none after it started.
LEMMA NoneStarted ==
    ASSUME NightInv, NEW t \in Tasks, state[t] = "none",
           \A u \in Upstream(t) : state[u] \in Ended
    PROVE  /\ \A w \in Tasks : Before(w, t) => state[w] \in Ended
           /\ \A w \in Tasks : Before(t, w) => state[w] = "none"
           /\ \A w \in Tasks : state[w] # "running"
<1>1. \A w \in Tasks : Before(w, t) => state[w] \in Ended
  <2> SUFFICES ASSUME NEW w \in Tasks, Before(w, t)
               PROVE  state[w] \in Ended
    OBVIOUS
  <2>1. PICK u \in Upstream(t) : w = u \/ Before(w, u)
    BY BeforeUpstream
  <2>2. u \in Tasks
    BY UpstreamIs
  <2> QED
    BY <2>1, <2>2, EndedStates DEF NightInv, Ordered
<1>2. \A w \in Tasks : Before(t, w) => state[w] = "none"
  BY EndedStates DEF NightInv, Ordered
<1> QED
  BY <1>1, <1>2, EndedStates, BeforeOrAfter

LEMMA BeginInv ==
    ASSUME NightInv, NEW t \in Tasks, Begin(t)
    PROVE  NightInv'
<1>1. \A u \in Upstream(t) : state[u] \in Ended
  BY EndedStates DEF Begin, Triggered
<1>2. /\ \A w \in Tasks : Before(w, t) => state[w] \in Ended
      /\ \A w \in Tasks : Before(t, w) => state[w] = "none"
      /\ \A w \in Tasks : state[w] # "running"
  BY <1>1, NoneStarted DEF Begin
<1>3. t \notin AllDone => \A w \in Tasks : Before(w, t) => state[w] = "success"
  <2> SUFFICES ASSUME t \notin AllDone, NEW w \in Tasks, Before(w, t)
               PROVE  state[w] = "success"
    OBVIOUS
  <2>1. PICK u \in Upstream(t) : w = u \/ Before(w, u)
    BY BeforeUpstream
  <2>2. u \in Tasks /\ Before(u, t)
    BY UpstreamIs, PlaceType DEF Before
  <2>3. u \notin AllDone
    BY <2>2, BeforeOrAfter, TaskNames DEF AllDone
  <2> QED
    BY <2>1, <2>2, <2>3 DEF Begin, Triggered, NightInv, InTurn
<1>4. /\ state' = [state EXCEPT ![t] = "running"]
      /\ attempt' = [attempt EXCEPT ![t] = @ + 1] /\ checked' = 0 /\ state[t] = "none"
      /\ UNCHANGED <<night, dagRun, verdict, report, summary, served, marts, page, raised,
                     pageBefore, faults>>
      /\ dagRun = "running"
  BY DEF Begin, files
<1>5. state \in [Tasks -> Ended \cup {"none", "running"}] /\ attempt \in [Tasks -> Nat]
  BY DEF NightInv, TypeOK
<1>6. /\ state'[t] = "running" /\ attempt'[t] = attempt[t] + 1
      /\ \A u \in Tasks \ {t} : state'[u] = state[u] /\ attempt'[u] = attempt[u]
  BY <1>4, <1>5
<1>7. TypeOK'
  <2>1. attempt'[t] <= 1 + RetriesOf[t]
    BY <1>4, <1>5, <1>6, RetriesType DEF NightInv, AttemptsInv
  <2>2. \A u \in Tasks : attempt'[u] <= 1 + RetriesOf[u]
    BY <1>6, <2>1 DEF NightInv, TypeOK
  <2>3. attempt' \in [Tasks -> Nat] /\ state' \in [Tasks -> Ended \cup {"none", "running"}]
    BY <1>4, <1>5
  <2> QED
    BY <1>4, <2>2, <2>3 DEF NightInv, TypeOK, Broken
<1>8. (AttemptsInv /\ Ordered /\ InTurn)'
  <2>1. AttemptsInv'
    BY <1>6 DEF NightInv, AttemptsInv
  <2>2. Ordered'
    BY <1>2, <1>6, BeforeOrAfter DEF NightInv, Ordered
  <2>3. InTurn'
    BY <1>2, <1>3, <1>6, BeforeOrAfter DEF NightInv, InTurn
  <2> QED
    BY <2>1, <2>2, <2>3
<1>9. ChecksInv'
  <2>1. 0 <= Len(ContractsOf[t])
    BY ContractTasks
  <2>2. HeldTo(t, checked)'
    BY <1>4 DEF HeldTo, Broken
  <2>3. \A u \in Tasks : state'[u] = "running" => u = t
    BY <1>2, <1>6
  <2>4. \A u \in Tasks : HeldTo(u, Len(ContractsOf[u])) => HeldTo(u, Len(ContractsOf[u]))'
    BY <1>4 DEF HeldTo, Broken
  <2>5. \A u \in Tasks : state'[u] = "success" => state[u] = "success"
    BY <1>6
  <2>6. checked' <= Len(ContractsOf[t])
    BY <1>4, <2>1
  <2> QED
    BY <2>2, <2>3, <2>4, <2>5, <2>6 DEF NightInv, ChecksInv
<1>10. (RaisedInv /\ PageInv /\ EndInv)'
  <2>1. RaisedInv' /\ EndInv'
    BY <1>4 DEF NightInv, RaisedInv, EndInv
  <2>2. PageInv'
    BY <1>4, <1>6, TaskNames DEF NightInv, PageInv
  <2> QED
    BY <2>1, <2>2
<1>11. SummaryInv'
  <2>1. CASE t = Leaf
    <3>1. attempt'[Leaf] <= faults' + 1
      BY <1>4, <1>5, <1>6, <2>1 DEF NightInv, TypeOK, SummaryInv
    <3> QED
      BY <1>6, <2>1, <3>1 DEF SummaryInv
  <2>2. CASE t # Leaf
    BY <1>4, <1>6, <2>2, TaskNames DEF NightInv, SummaryInv, OfThisNight
  <2> QED
    BY <2>1, <2>2
<1> QED
  BY <1>7, <1>8, <1>9, <1>10, <1>11 DEF NightInv

LEMMA SkipInv ==
    ASSUME NightInv, NEW t \in Tasks, Skip(t)
    PROVE  NightInv'
<1>1. PICK v \in Upstream(t) : state[v] \in {"failed", "upstream_failed"}
  BY DEF Skip
<1>2. \A u \in Upstream(t) : state[u] \in Ended
  <2>1. \A u \in Upstream(t) : u = v
    BY UpstreamIs, PlaceType
  <2> QED
    BY <1>1, <2>1 DEF Ended
<1>3. /\ \A w \in Tasks : Before(w, t) => state[w] \in Ended
      /\ \A w \in Tasks : Before(t, w) => state[w] = "none"
      /\ \A w \in Tasks : state[w] # "running"
  BY <1>2, NoneStarted DEF Skip
<1>4. /\ state' = [state EXCEPT ![t] = "upstream_failed"]
      /\ state[t] = "none" /\ dagRun = "running" /\ t # Leaf
      /\ UNCHANGED <<night, dagRun, attempt, checked, verdict, report, summary, served, marts,
                     page, raised, pageBefore, faults>>
  BY TaskNames DEF Skip, files, AllDone
<1>5. /\ state'[t] = "upstream_failed"
      /\ \A u \in Tasks \ {t} : state'[u] = state[u]
  BY <1>4 DEF NightInv, TypeOK
<1>6. TypeOK'
  BY <1>4 DEF NightInv, TypeOK, Broken, Ended
<1>7. AttemptsInv' /\ Ordered' /\ InTurn'
  <2>1. AttemptsInv'
    BY <1>4, <1>5 DEF NightInv, AttemptsInv
  <2>2. Ordered'
    BY <1>3, <1>5, BeforeOrAfter DEF NightInv, Ordered, Ended
  <2>3. InTurn'
    BY <1>3, <1>5, BeforeOrAfter DEF NightInv, InTurn
  <2> QED
    BY <2>1, <2>2, <2>3
<1>8. ChecksInv' /\ RaisedInv' /\ EndInv'
  BY <1>4, <1>5 DEF NightInv, ChecksInv, HeldTo, Broken, RaisedInv, EndInv
<1>9. PageInv'
  BY <1>4, <1>5, TaskNames DEF NightInv, PageInv
<1>10. SummaryInv'
  BY <1>4, <1>5, TaskNames DEF NightInv, SummaryInv, OfThisNight
<1> QED
  BY <1>6, <1>7, <1>8, <1>9, <1>10 DEF NightInv

LEMMA EndRunInv == NightInv /\ EndRun => NightInv'
<1> SUFFICES ASSUME NightInv, EndRun PROVE NightInv'
  OBVIOUS
<1>1. TypeOK'
  BY DEF NightInv, TypeOK, Broken, EndRun, files
<1>2. (AttemptsInv /\ Ordered /\ InTurn /\ ChecksInv /\ RaisedInv /\ PageInv)'
  BY DEF NightInv, EndRun, files, AttemptsInv, Ordered, InTurn, ChecksInv, HeldTo, Broken,
         RaisedInv, PageInv
<1>3. SummaryInv' /\ EndInv'
  BY DEF NightInv, EndRun, files, SummaryInv, OfThisNight, EndInv
<1> QED
  BY <1>1, <1>2, <1>3 DEF NightInv

-----------------------------------------------------------------------------
(* The tasks *)

\* A running task stops, for good or to be retried.
LEMMA TaskStops ==
    ASSUME NightInv, NEW t \in Tasks, state[t] = "running",
           NEW s \in {"none", "failed", "success"}, state' = [state EXCEPT ![t] = s]
    PROVE  /\ state' \in [Tasks -> Ended \cup {"none", "running"}]
           /\ state'[t] = s /\ \A u \in Tasks \ {t} : state'[u] = state[u]
           /\ \A u \in Tasks : state'[u] # "running"
           /\ Ordered' /\ InTurn'
<1>1. /\ \A u \in Tasks : Before(u, t) => state[u] \in Ended
      /\ \A u \in Tasks : Before(t, u) => state[u] = "none"
      /\ \A u \in Tasks \ {t} : state[u] # "running"
  BY OneRuns
<1>2. state' \in [Tasks -> Ended \cup {"none", "running"}]
  BY DEF NightInv, TypeOK, Ended
<1>3. state'[t] = s /\ \A u \in Tasks \ {t} : state'[u] = state[u]
  BY DEF NightInv, TypeOK
<1>4. Ordered'
  BY <1>1, <1>3, BeforeOrAfter DEF NightInv, Ordered
<1>5. InTurn'
  BY <1>1, <1>3, BeforeOrAfter DEF NightInv, InTurn
<1> QED
  BY <1>1, <1>2, <1>3, <1>4, <1>5

\* Nothing before t runs again, and no task that succeeded is touched.
LEMMA FaultInv ==
    ASSUME NightInv, NEW t \in Tasks, Fault(t)
    PROVE  NightInv'
<1> DEFINE s == IF Retried(t) THEN "none" ELSE "failed"
<1>1. /\ state[t] = "running" /\ state' = [state EXCEPT ![t] = s]
      /\ faults < MaxFaults /\ faults' = faults + 1
      /\ UNCHANGED <<night, dagRun, attempt, checked, verdict, report, summary, served, marts,
                     page, raised, pageBefore>>
  BY DEF Fault, Exit, files
<1>2. s \in {"none", "failed"} /\ (s = "none" <=> attempt[t] <= RetriesOf[t])
  BY DEF Retried
<1> HIDE DEF s
<1>3. /\ state' \in [Tasks -> Ended \cup {"none", "running"}]
      /\ state'[t] = s /\ \A u \in Tasks \ {t} : state'[u] = state[u]
      /\ \A u \in Tasks : state'[u] # "running"
      /\ Ordered' /\ InTurn'
  BY <1>1, <1>2, TaskStops
<1>4. TypeOK'
  <2>1. faults' \in 0 .. MaxFaults
    BY <1>1, NightlyAssumption DEF NightInv, TypeOK
  <2> QED
    BY <1>1, <1>3, <2>1 DEF NightInv, TypeOK, Broken
<1>5. AttemptsInv'
  BY <1>1, <1>2, <1>3 DEF NightInv, AttemptsInv
<1>6. ChecksInv' /\ RaisedInv'
  BY <1>1, <1>2, <1>3 DEF NightInv, ChecksInv, HeldTo, Broken, RaisedInv
<1>7. PageInv'
  BY <1>1, <1>2, <1>3, TaskNames DEF NightInv, PageInv
<1>8. EndInv'
  BY <1>1, OneRuns DEF EndInv
<1>9. SummaryInv'
  <2>1. CASE t = Leaf
    <3>1. attempt[Leaf] \in Nat /\ faults \in Nat /\ attempt[Leaf] <= faults + 1
      BY <1>1, <2>1, TaskNames DEF NightInv, TypeOK, SummaryInv
    <3>2. s = "none" => attempt'[Leaf] <= faults'
      BY <1>1, <3>1
    <3>3. s = "failed" => faults' > RetriesOf[Leaf]
      BY <1>1, <1>2, <2>1, <3>1, RetriesType
    <3> QED
      BY <1>2, <1>3, <2>1, <3>2, <3>3 DEF SummaryInv
  <2>2. CASE t # Leaf
    <3>1. state'[Leaf] = "none"
      BY <1>1, <1>3, <2>2, OneRuns, BeforeOrAfter, TaskNames
    <3>2. attempt'[Leaf] <= faults'
      BY <1>1, <1>3, <2>2, <3>1, TaskNames DEF NightInv, TypeOK, SummaryInv
    <3> QED
      BY <3>1, <3>2 DEF SummaryInv
  <2> QED
    BY <2>1, <2>2
<1> QED
  BY <1>3, <1>4, <1>5, <1>6, <1>7, <1>8, <1>9 DEF NightInv

\* The report the running task writes is of this night, so it keeps what other reports of
\* this night say.
LEMMA EnforceInv ==
    ASSUME NightInv, NEW t \in Tasks, Enforce(t)
    PROVE  NightInv'
<1> DEFINE c == ContractsOf[t][checked + 1]
           r == [night |-> night, status |-> verdict[c]]
<1>1. /\ state[t] = "running" /\ checked < Len(ContractsOf[t]) /\ checked' = checked + 1
      /\ report' = [report EXCEPT ![c] = r]
      /\ UNCHANGED <<night, dagRun, attempt, verdict, summary, served, marts, page, pageBefore,
                     faults>>
  BY DEF Enforce, WriteReport
<1>2. checked + 1 \in 1 .. Len(ContractsOf[t]) /\ checked \in Nat /\ night \in Nat
  BY <1>1, ContractTasks DEF NightInv, TypeOK
<1>3. /\ c \in BatchContracts /\ c \in Contracts
      /\ t \in {"bronze", "silver", "gold"} /\ t # Leaf /\ t # "dashboard"
  BY <1>2, ContractTasks, TaskNames DEF Contracts
<1>4. /\ r \in Report
      /\ c \in Broken => r = [night |-> night, status |-> "FAILED"]
  <2>1. verdict[c] \in Statuses
    BY <1>3, NightlyAssumption DEF NightInv, TypeOK
  <2>2. c \in Broken => verdict[c] = "FAILED"
    BY DEF Broken
  <2> QED
    BY <1>2, <2>1, <2>2 DEF Report
<1>5. report \in [Contracts -> Report \cup {None}]
  BY DEF NightInv, TypeOK
<1> HIDE DEF r
<1>6. /\ report' \in [Contracts -> Report \cup {None}] /\ report'[c] = r
      /\ \A d \in Contracts \ {c} : report'[d] = report[d]
  BY <1>1, <1>3, <1>4, <1>5
<1>7. \A u \in Tasks : \A n \in 0 .. Len(ContractsOf[u]) : HeldTo(u, n) => HeldTo(u, n)'
  <2> SUFFICES ASSUME NEW u \in Tasks, NEW n \in 0 .. Len(ContractsOf[u]), HeldTo(u, n),
                      NEW i \in 1 .. n
               PROVE  /\ ContractsOf[u][i] \notin Broken
                      /\ report'[ContractsOf[u][i]]
                           = [night |-> night, status |-> verdict[ContractsOf[u][i]]]
    BY <1>1 DEF HeldTo, Broken
  <2>1. i \in 1 .. Len(ContractsOf[u])
    BY ContractTasks
  <2>2. ContractsOf[u][i] \in Contracts
    BY <2>1, ContractTasks DEF Contracts
  <2>3. ContractsOf[u][i] \notin Broken
        /\ report[ContractsOf[u][i]]
                           = [night |-> night, status |-> verdict[ContractsOf[u][i]]]
    BY DEF HeldTo
  <2> HIDE DEF c
  <2>4. verdict' = verdict
    BY <1>1
  <2>5. CASE ContractsOf[u][i] = c
    BY <1>6, <2>3, <2>5 DEF r
  <2>6. CASE ContractsOf[u][i] # c
    BY <1>6, <2>2, <2>3, <2>6
  <2> QED
    BY <2>3, <2>4, <2>5, <2>6 DEF Broken
<1>8. state[Leaf] = "none"
  BY <1>1, <1>3, OneRuns, BeforeOrAfter, TaskNames
<1>9. \A u \in Tasks : Len(ContractsOf[u]) \in 0 .. Len(ContractsOf[u])
  BY ContractTasks
<1>10. CASE c \in Broken
  <2> DEFINE s == IF Retried(t) THEN "none" ELSE "failed"
  <2>1. state' = [state EXCEPT ![t] = s] /\ raised' = raised \cup {c}
    BY <1>10 DEF Enforce, Exit
  <2>2. s \in {"none", "failed"} /\ (s = "none" <=> attempt[t] <= RetriesOf[t])
    BY DEF Retried
  <2> HIDE DEF s, c
  <2>3. /\ state' \in [Tasks -> Ended \cup {"none", "running"}]
        /\ state'[t] = s /\ \A u \in Tasks \ {t} : state'[u] = state[u]
        /\ \A u \in Tasks : state'[u] # "running"
        /\ Ordered' /\ InTurn'
    BY <1>1, <2>1, <2>2, TaskStops
  <2>4. TypeOK'
    BY <1>1, <1>2, <1>6, <1>10, <2>1, <2>3 DEF NightInv, TypeOK, Broken
  <2>5. AttemptsInv'
    BY <1>1, <2>2, <2>3 DEF NightInv, AttemptsInv
  <2>6. ChecksInv'
    BY <1>7, <1>9, <2>2, <2>3 DEF NightInv, ChecksInv
  <2>7. RaisedInv'
    <3>1. \A d \in raised : d \in Contracts
      BY DEF NightInv, TypeOK, Broken, Contracts
    <3> QED
      BY <1>1, <1>4, <1>6, <1>10, <2>1, <3>1 DEF NightInv, RaisedInv
  <2>8. PageInv' /\ EndInv'
    BY <1>1, <1>3, <2>3, OneRuns, TaskNames DEF NightInv, PageInv, EndInv
  <2>9. SummaryInv'
    BY <1>1, <1>3, <1>8, <2>3, TaskNames DEF NightInv, SummaryInv
  <2> QED
    BY <2>3, <2>4, <2>5, <2>6, <2>7, <2>8, <2>9 DEF NightInv
<1>11. CASE c \notin Broken
  <2>1. UNCHANGED <<state, raised>>
    BY <1>11 DEF Enforce
  <2>2. TypeOK'
    BY <1>1, <1>2, <1>6, <2>1 DEF NightInv, TypeOK, Broken
  <2>3. AttemptsInv' /\ Ordered' /\ InTurn' /\ PageInv' /\ EndInv'
    BY <1>1, <2>1 DEF NightInv, AttemptsInv, Ordered, InTurn, PageInv, EndInv
  <2>4. ChecksInv'
    <3>1. HeldTo(t, checked)
      BY <1>1 DEF NightInv, ChecksInv
    <3>2. ASSUME NEW i \in 1 .. checked + 1
          PROVE  /\ ContractsOf[t][i] \notin Broken
                 /\ report'[ContractsOf[t][i]]
                        = [night |-> night, status |-> verdict[ContractsOf[t][i]]]
      <4>1. CASE ContractsOf[t][i] = c
        BY <1>6, <1>11, <4>1 DEF r
      <4>2. CASE ContractsOf[t][i] # c
        <5>1. i \in 1 .. checked /\ i \in 1 .. Len(ContractsOf[t])
          BY <1>2, <4>2
        <5>2. ContractsOf[t][i] \in Contracts
          BY <5>1, ContractTasks DEF Contracts
        <5> QED
          BY <1>6, <3>1, <4>2, <5>1, <5>2 DEF HeldTo
      <4> QED
        BY <4>1, <4>2
    <3>3. HeldTo(t, checked)'
      <4>1. checked' = checked + 1 /\ verdict' = verdict /\ night' = night
        BY <1>1
      <4> HIDE DEF c
      <4> QED
        BY <3>2, <4>1 DEF HeldTo, Broken
    <3>4. checked' <= Len(ContractsOf[t])
      BY <1>1, <1>2
    <3>5. \A u \in Tasks \ {t} : state[u] # "running"
      BY <1>1, OneRuns
    <3>6. \A u \in Tasks : state[u] = "success" => HeldTo(u, Len(ContractsOf[u]))'
      BY <1>7, <1>9 DEF NightInv, ChecksInv
    <3> QED
      BY <1>1, <2>1, <3>3, <3>4, <3>5, <3>6 DEF ChecksInv
  <2>5. RaisedInv'
    <3>1. \A d \in raised : d \in Contracts \ {c}
      BY <1>11 DEF NightInv, TypeOK, Broken, Contracts
    <3> HIDE DEF c
    <3> QED
      BY <1>1, <1>6, <2>1, <3>1 DEF NightInv, RaisedInv
  <2>6. SummaryInv'
    BY <1>1, <1>8, <2>1 DEF NightInv, SummaryInv
  <2> QED
    BY <2>2, <2>3, <2>4, <2>5, <2>6 DEF NightInv
<1> QED
  BY <1>10, <1>11

\* A night in which a contract can raise is not one whose chain succeeds up to the dashboard.
LEMMA SuccessIsClean ==
    ASSUME NightInv, \A t \in {"bronze", "silver", "gold"} : state[t] = "success"
    PROVE  \A c \in BatchContracts :
               c \notin Broken /\ report[c] = [night |-> night, status |-> verdict[c]]
<1> SUFFICES ASSUME NEW c \in BatchContracts
             PROVE  c \notin Broken /\ report[c] = [night |-> night, status |-> verdict[c]]
  OBVIOUS
<1>1. PICK t \in {"bronze", "silver", "gold"} :
             \E i \in 1 .. Len(ContractsOf[t]) : c = ContractsOf[t][i]
  BY ContractTasks
<1>2. HeldTo(t, Len(ContractsOf[t]))
  BY TaskNames DEF NightInv, ChecksInv
<1> QED
  BY <1>1, <1>2 DEF HeldTo

\* What the consumer writes is no report of the batch.
LEMMA StreamReportsInv == NightInv /\ StreamReports => NightInv'
<1> SUFFICES ASSUME NightInv, StreamReports PROVE NightInv'
  OBVIOUS
<1>1. PICK r \in {None} \cup [night : {night}, status : StreamSays] :
             report' = [report EXCEPT ![StreamContract] = r]
  BY DEF StreamReports
<1>2. UNCHANGED <<night, dagRun, state, attempt, checked, verdict, summary, served, marts,
                  page, raised, pageBefore, faults>>
  BY DEF StreamReports
<1>3. night \in Nat /\ report \in [Contracts -> Report \cup {None}]
  BY NightlyAssumption DEF NightInv, TypeOK
<1>4. r \in Report \cup {None}
  BY <1>3, NightlyAssumption DEF Report
<1>5. report' \in [Contracts -> Report \cup {None}]
  BY <1>1, <1>3, <1>4
<1>6. \A c \in BatchContracts : report'[c] = report[c]
  BY <1>1, <1>3, NightlyAssumption DEF Contracts
<1>7. \A c \in raised : c \in BatchContracts
  BY DEF NightInv, TypeOK, Broken
<1>8. TypeOK'
  BY <1>2, <1>5 DEF NightInv, TypeOK, Broken
<1>9. (AttemptsInv /\ Ordered /\ InTurn /\ PageInv /\ EndInv)'
  BY <1>2 DEF NightInv, AttemptsInv, Ordered, InTurn, PageInv, EndInv
<1>10. ChecksInv'
  <2>1. ASSUME NEW t \in Tasks, NEW n \in 0 .. Len(ContractsOf[t]), HeldTo(t, n)
        PROVE  HeldTo(t, n)'
    <3>1. \A i \in 1 .. n : ContractsOf[t][i] \in BatchContracts
      BY ContractTasks
    <3> QED
      BY <1>2, <1>6, <2>1, <3>1 DEF HeldTo, Broken
  <2>2. checked \in Nat /\ \A t \in Tasks : Len(ContractsOf[t]) \in Nat
    BY ContractTasks DEF NightInv, TypeOK
  <2>3. ASSUME NEW t \in Tasks, state[t] = "running"
        PROVE  (checked <= Len(ContractsOf[t]) /\ HeldTo(t, checked))'
    <3>1. checked \in 0 .. Len(ContractsOf[t]) /\ HeldTo(t, checked)
      BY <2>2, <2>3 DEF NightInv, ChecksInv
    <3> QED
      BY <1>2, <2>1, <3>1 DEF HeldTo
  <2>4. ASSUME NEW t \in Tasks, state[t] = "success"
        PROVE  HeldTo(t, Len(ContractsOf[t]))'
    BY <2>1, <2>2, <2>4 DEF NightInv, ChecksInv
  <2> QED
    BY <1>2, <2>3, <2>4 DEF ChecksInv
<1>11. RaisedInv'
  BY <1>2, <1>6, <1>7 DEF NightInv, RaisedInv
<1>12. SummaryInv'
  BY <1>2, <1>6 DEF NightInv, SummaryInv, OfThisNight
<1> QED
  BY <1>8, <1>9, <1>10, <1>11, <1>12 DEF NightInv

LEMMA SummarisedIs ==
    ASSUME TypeOK
    PROVE  Summarised # None
<1>1. night \in Nat /\ report \in [Contracts -> Report \cup {None}]
  BY NightlyAssumption DEF TypeOK
<1>2. Worst(report) \in Statuses
  BY DEF Worst, Statuses
<1>3. Summarised \in Summary
  BY <1>1, <1>2 DEF Summarised, Summary
<1> QED
  BY <1>3, NightlyAssumption

LEMMA SucceedInv ==
    ASSUME NightInv, NEW t \in Tasks, Succeed(t)
    PROVE  NightInv'
<1>1. /\ state[t] = "running" /\ checked = Len(ContractsOf[t])
      /\ state' = [state EXCEPT ![t] = "success"] /\ Leave(t)
      /\ UNCHANGED <<night, dagRun, attempt, checked, verdict, report, raised, pageBefore,
                     faults>>
  BY DEF Succeed
<1>2. /\ state' \in [Tasks -> Ended \cup {"none", "running"}]
      /\ state'[t] = "success" /\ \A u \in Tasks \ {t} : state'[u] = state[u]
      /\ \A u \in Tasks : state'[u] # "running"
      /\ Ordered' /\ InTurn'
  BY <1>1, TaskStops
<1>3. TypeOK'
  <2>1. served' \in Nat \cup {None} /\ marts' \in Nat \cup {None}
    BY <1>1 DEF NightInv, TypeOK, Leave
  <2> QED
    BY <1>1, <1>2, <2>1 DEF NightInv, TypeOK, Broken
<1>4. AttemptsInv' /\ RaisedInv'
  BY <1>1, <1>2 DEF NightInv, AttemptsInv, RaisedInv
<1>5. ChecksInv'
  <2>1. \A u \in Tasks : state'[u] = "success" => HeldTo(u, Len(ContractsOf[u]))
    BY <1>1, <1>2 DEF NightInv, ChecksInv
  <2> QED
    BY <1>1, <1>2, <2>1 DEF ChecksInv, HeldTo, Broken
<1>6. PageInv'
  <2>1. t # "dashboard" => page' = page
    BY <1>1 DEF Leave
  <2> QED
    BY <1>1, <1>2, <2>1, TaskNames DEF NightInv, PageInv
<1>7. EndInv'
  BY <1>1, OneRuns DEF EndInv
<1>8. SummaryInv'
  <2>1. CASE t = Leaf
    <3>1. summary' = Summarised
      BY <1>1, <2>1, TaskNames DEF Leave
    <3>2. Summarised # None
      BY SummarisedIs DEF NightInv, TypeOK
    <3>3. OfThisNight'
      BY <1>1, <3>1, <3>2 DEF OfThisNight, Summarised
    <3> QED
      BY <1>2, <2>1, <3>3 DEF SummaryInv
  <2>2. CASE t # Leaf
    <3>1. state[Leaf] = "none" /\ state'[Leaf] = "none"
      BY <1>1, <1>2, <2>2, OneRuns, BeforeOrAfter, TaskNames
    <3> QED
      BY <1>1, <3>1 DEF NightInv, SummaryInv
  <2> QED
    BY <2>1, <2>2
<1> QED
  BY <1>2, <1>3, <1>4, <1>5, <1>6, <1>7, <1>8 DEF NightInv

-----------------------------------------------------------------------------
(* The theorems *)

\* The invariant the properties below follow from: tasks run one at a time and in turn, the
\* reports and the summary say what the contracts said this night, the page changes last.
THEOREM NightInvariant == Spec => []NightInv
<1>1. NightInv /\ UNCHANGED vars => NightInv'
  <2> SUFFICES ASSUME NightInv, UNCHANGED vars PROVE NightInv'
    OBVIOUS
  <2>1. TypeOK' /\ AttemptsInv' /\ Ordered' /\ InTurn'
    BY DEF vars, files, NightInv, TypeOK, Broken, AttemptsInv, Ordered, InTurn
  <2>2. ChecksInv' /\ RaisedInv' /\ PageInv' /\ EndInv'
    BY DEF vars, files, NightInv, ChecksInv, HeldTo, Broken, RaisedInv, PageInv, EndInv
  <2>3. SummaryInv'
    BY DEF vars, files, NightInv, SummaryInv, OfThisNight
  <2> QED
    BY <2>1, <2>2, <2>3 DEF NightInv
<1>2. NightInv /\ Next => NightInv'
  BY StartRunInv, EndRunInv, BeginInv, SkipInv, EnforceInv, SucceedInv, FaultInv,
     StreamReportsInv
     DEF Next, Scheduler
<1> QED
  BY <1>1, <1>2, InitNight, PTL DEF Spec

\* Every night in which a contract raised ends with a summary of that night that says FAILED
\* and shows the breach: the summary task is not skipped with the others, its one retry
\* absorbs a fault, and no retry of the failed task leaves a report that passed.
THEOREM BreachReportedAlways == Spec => []BreachReported
<1>1. NightInv => BreachReported
  <2> SUFFICES ASSUME NightInv, dagRun \in {"success", "failed"}, raised # {},
                      faults <= RetriesOf["contract_summary"]
               PROVE  /\ summary # None /\ summary.night = night
                      /\ summary.status = "FAILED"
                      /\ \A c \in raised :
                           summary.of[c] = [night |-> night, status |-> "FAILED"]
    BY DEF BreachReported
  <2>1. state[Leaf] \in Ended /\ state[Leaf] # "upstream_failed"
    BY TaskNames DEF NightInv, EndInv, SummaryInv
  <2>2. state[Leaf] # "failed"
    <3>1. faults \in Nat /\ RetriesOf[Leaf] \in Nat /\ ~(faults > RetriesOf[Leaf])
      BY RetriesType, TaskNames DEF NightInv, TypeOK
    <3> QED
      BY <3>1 DEF NightInv, SummaryInv
  <2>3. OfThisNight
    BY <2>1, <2>2 DEF Ended, NightInv, SummaryInv
  <2>4. \A c \in raised :
          c \in BatchContracts /\ report[c] = [night |-> night, status |-> "FAILED"]
    BY DEF NightInv, TypeOK, Broken, RaisedInv
  <2>5. night \in Nat
    BY NightlyAssumption DEF NightInv, TypeOK
  <2>6. [night |-> night, status |-> "FAILED"] # None
    <3>1. [night |-> night, status |-> "FAILED"] \in Report
      BY <2>5 DEF Report, Statuses
    <3> QED
      BY <3>1, NightlyAssumption
  <2>7. \A c \in raised : summary.of[c] = [night |-> night, status |-> "FAILED"]
    BY <2>3, <2>4 DEF OfThisNight
  <2>8. Shows(summary.of, "FAILED")
    BY <2>4, <2>6, <2>7 DEF Shows, Contracts
  <2> QED
    BY <2>3, <2>7, <2>8 DEF OfThisNight, Worst
<1> QED
  BY <1>1, NightInvariant, PTL

\* When every task of a night succeeded, its summary shows what this night made of every batch
\* contract, and only the stream consumer's contract can make it FAILED: no batch report of an
\* earlier night or of a failed attempt lingers.
THEOREM CleanNightReportedAlways == Spec => []CleanNightReported
<1>1. NightInv => CleanNightReported
  <2> SUFFICES ASSUME NightInv, \A t \in Tasks : state[t] = "success"
               PROVE  /\ summary.night = night
                      /\ \A c \in BatchContracts :
                           /\ summary.of[c] = [night |-> night, status |-> verdict[c]]
                           /\ verdict[c] # "FAILED"
                           /\ verdict[c] = "PASSED_WITH_WARNINGS" => summary.status # "PASSED"
                      /\ summary.status = "FAILED" =>
                           /\ summary.of[StreamContract] # None
                           /\ summary.of[StreamContract].status = "FAILED"
    BY DEF CleanNightReported
  <2>1. \A c \in BatchContracts :
          c \notin Broken /\ report[c] = [night |-> night, status |-> verdict[c]]
    BY SuccessIsClean, TaskNames
  <2>2. OfThisNight
    BY TaskNames DEF NightInv, SummaryInv
  <2>3. \A c \in BatchContracts :
          summary.of[c] = [night |-> night, status |-> verdict[c]] /\ verdict[c] # "FAILED"
    BY <2>1, <2>2 DEF OfThisNight, Broken
  <2>4. \A c \in BatchContracts : [night |-> night, status |-> verdict[c]] # None
    <3>1. night \in Nat /\ \A c \in BatchContracts : verdict[c] \in Statuses
      BY NightlyAssumption DEF NightInv, TypeOK
    <3>2. \A c \in BatchContracts : [night |-> night, status |-> verdict[c]] \in Report
      BY <3>1 DEF Report
    <3> QED
      BY <3>2, NightlyAssumption
  <2>5. ASSUME NEW c \in BatchContracts, verdict[c] = "PASSED_WITH_WARNINGS"
        PROVE  summary.status # "PASSED"
    <3>1. Shows(summary.of, "PASSED_WITH_WARNINGS")
      <4>1. summary.of[c] = [night |-> night, status |-> verdict[c]]
            /\ [night |-> night, status |-> verdict[c]] # None
        BY <2>3, <2>4
      <4>2. summary.of[c].status = verdict[c]
        BY <4>1
      <4> QED
        BY <2>5, <4>1, <4>2 DEF Shows, Contracts
    <3> QED
      BY <2>2, <3>1 DEF OfThisNight, Worst
  <2>6. ASSUME summary.status = "FAILED"
        PROVE  /\ summary.of[StreamContract] # None
               /\ summary.of[StreamContract].status = "FAILED"
    <3>1. PICK c \in Contracts : summary.of[c] # None /\ summary.of[c].status = "FAILED"
      <4>1. Shows(summary.of, "FAILED")
        BY <2>2, <2>6 DEF OfThisNight, Worst
      <4> QED
        BY <4>1 DEF Shows
    <3>2. c \notin BatchContracts
      <4> SUFFICES ASSUME c \in BatchContracts PROVE FALSE
        OBVIOUS
      <4>1. summary.of[c] = [night |-> night, status |-> verdict[c]] /\ verdict[c] # "FAILED"
        BY <2>3
      <4>2. summary.of[c].status = verdict[c]
        BY <4>1
      <4> QED
        BY <3>1, <4>1, <4>2
    <3> QED
      BY <3>1, <3>2 DEF Contracts
  <2> QED
    BY <2>2, <2>3, <2>5, <2>6 DEF OfThisNight
<1> QED
  BY <1>1, NightInvariant, PTL

\* A breach leaves the dashboard page as the night found it, although a failed task is
\* retried and the summary task runs after it.
THEOREM BreachFreezesPageAlways == Spec => []BreachFreezesPage
<1>1. NightInv => BreachFreezesPage
  <2> SUFFICES ASSUME NightInv, page # pageBefore
               PROVE  raised = {}
    BY DEF BreachFreezesPage
  <2>1. state["dashboard"] = "success"
    BY DEF NightInv, PageInv
  <2>2. \A t \in {"bronze", "silver", "gold"} : state[t] = "success"
    BY <2>1, BeforeOrAfter, TaskNames DEF NightInv, InTurn, AllDone
  <2>3. \A c \in BatchContracts : c \notin Broken
    BY <2>2, SuccessIsClean
  <2> QED
    BY <2>3 DEF NightInv, TypeOK, Broken
<1> QED
  BY <1>1, NightInvariant, PTL
=============================================================================
