--------------------------- MODULE BatchSpineProofs ---------------------------
(***************************************************************************)
(* Theorems about the batch spine, for every number of loads, days, tables *)
(* and operators and every contract.                                       *)
(***************************************************************************)
EXTENDS BatchSpine, TLAPS

-----------------------------------------------------------------------------
(* Control *)

\* Where in the lists it walks a runner can be, and that an export has something to read.
PositionAt(p) ==
    /\ pc[p] = "idle" => at[p] = 1
    /\ pc[p] \in {"bronze_write", "bronze_check", "silver_read", "stage", "audit",
                  "publish", "load_open"}
         => at[p] \in {1, 2}
    /\ pc[p] = "silver_read" /\ at[p] = 2 => read[p] # None
    /\ pc[p] = "gold_write" => at[p] <= Len(GoldTables)
    /\ pc[p] = "gold_check" => at[p] <= Len(GoldChecked)
    /\ pc[p] \in {"export_clear", "export_write", "load_replace", "load_reconcile"}
         => at[p] <= Len(Exports)
    /\ pc[p] = "export_write" => read[p] # None

PositionOK == \A p \in Runners : PositionAt(p)

\* The part of TypeOK that Advance and Finish decide.
ControlOK ==
    /\ pc \in [Runners -> Steps]
    /\ at \in [Runners -> Nat \ {0}]
    /\ tries \in 0 .. Retries
    /\ ended \in [Runners -> [stage : Stages \cup {"none"}, how : Endings]]
    /\ raised \subseteq Stoppers

\* Every runner but p is where it was.
OthersStay(p) ==
    \A q \in Runners \ {p} : pc'[q] = pc[q] /\ at'[q] = at[q]

\* The steps of each stage are the ones its code takes.
LEMMA StepsEnumerated ==
    Steps = {"idle", "bronze_write", "bronze_check", "silver_read",
             "silver_quarantine", "silver_gate", "stage", "audit", "publish",
             "gold_read", "gold_write", "gold_check",
             "export_clear", "export_write", "export_manifest",
             "load_open", "load_replace", "load_reconcile"}
<1>1. ElementsOf(StepsOf["bronze"]) = {"bronze_write", "bronze_check"}
  BY DEF ElementsOf, StepsOf
<1>2. ElementsOf(StepsOf["silver"]) = {"silver_read", "silver_quarantine",
                                       "silver_gate", "stage", "audit", "publish"}
  BY DEF ElementsOf, StepsOf
<1>3. ElementsOf(StepsOf["gold"]) = {"gold_read", "gold_write", "gold_check"}
  BY DEF ElementsOf, StepsOf
<1>4. ElementsOf(StepsOf["export"]) = {"export_clear", "export_write", "export_manifest"}
  BY DEF ElementsOf, StepsOf
<1>5. ElementsOf(StepsOf["load"]) = {"load_open", "load_replace", "load_reconcile"}
  BY DEF ElementsOf, StepsOf
<1> QED
  BY <1>1, <1>2, <1>3, <1>4, <1>5 DEF Steps, Stages

LEMMA FirstSteps ==
    /\ FirstStep("bronze") = "bronze_write" /\ FirstStep("silver") = "silver_read"
    /\ FirstStep("gold") = "gold_read" /\ FirstStep("export") = "export_clear"
    /\ FirstStep("load") = "load_open"
  BY DEF FirstStep, StepsOf

\* A step that is not idle belongs to a stage.
LEMMA StageOfStep ==
    ASSUME NEW step \in Steps, step # "idle"
    PROVE  StageOf(step) \in Stages
<1>1. PICK s \in Stages : step \in ElementsOf(StepsOf[s])
  BY DEF Steps
<1> QED
  BY <1>1 DEF StageOf

LEMMA ContractsAreStoppers ==
    /\ Contracts \subseteq Endings /\ Contracts \subseteq Stoppers
    /\ Stoppers \subseteq Endings
    /\ {"ok", "gate", "missing", "mismatch", "locked", "crash"} \subseteq Endings
  BY DEF Endings, Outcomes, Stoppers

LEMMA ContractNames ==
    /\ BronzeContracts[1] \in Contracts /\ BronzeContracts[2] \in Contracts
    /\ \A i \in {1, 2} : /\ SilverTables[i] \in {"transactions", "dim_category"}
                         /\ SilverContract[SilverTables[i]] \in Contracts
    /\ \A i \in 1 .. Len(GoldChecked) : GoldChecked[i] \in Contracts
    /\ \A i \in 1 .. Len(GoldTables) : GoldTables[i] \in Tables \ LakeSilver
    /\ \A i \in 1 .. Len(Exports) : /\ Exports[i] \in ElementsOf(Exports)
                                    /\ SourceOf[Exports[i]] \in Tables
<1>1. BronzeContracts[1] \in Contracts /\ BronzeContracts[2] \in Contracts
  <2>1. ElementsOf(BronzeContracts) = {"bronze_transactions", "bronze_category_ref"}
    BY DEF ElementsOf, BronzeContracts
  <2> QED
    BY <2>1 DEF Contracts, BronzeContracts
<1>2. ASSUME NEW i \in {1, 2}
      PROVE  /\ SilverTables[i] \in {"transactions", "dim_category"}
             /\ SilverContract[SilverTables[i]] \in Contracts
  <2>1. SilverTables[i] \in {"transactions", "dim_category"}
    BY DEF SilverTables
  <2> QED
    BY <2>1 DEF SilverContract, Contracts
<1>3. \A i \in 1 .. Len(GoldChecked) : GoldChecked[i] \in Contracts
  BY DEF Contracts, ElementsOf
<1>4. \A i \in 1 .. Len(GoldTables) : GoldTables[i] \in Tables \ LakeSilver
  BY SpineAssumption DEF Tables, ElementsOf
<1>5. ASSUME NEW i \in 1 .. Len(Exports)
      PROVE  Exports[i] \in ElementsOf(Exports) /\ SourceOf[Exports[i]] \in Tables
  BY SpineAssumption DEF ElementsOf
<1> QED
  BY <1>1, <1>2, <1>3, <1>4, <1>5

\* What the control variables are when a stage goes on, and when it ends.
LEMMA AdvanceControl ==
    ASSUME TypeOK, NEW p \in Runners, NEW step \in Steps, NEW i \in Nat \ {0},
           Advance(p, step, i)
    PROVE  ControlOK' /\ pc'[p] = step /\ at'[p] = i /\ OthersStay(p)
  BY DEF Advance, TypeOK, ControlOK, OthersStay

LEMMA FinishControl ==
    ASSUME TypeOK, NEW p \in Runners, NEW s \in Stages, NEW how \in Endings,
           Finish(p, s, how)
    PROVE  /\ ControlOK' /\ PositionAt(p)' /\ OthersStay(p)
           /\ pc'[p] \in {"idle", "bronze_write", "silver_read", "gold_read",
                          "export_clear", "load_open"}
<1>1. FirstStep(s) \in {"bronze_write", "silver_read", "gold_read", "export_clear", "load_open"}
  BY FirstSteps DEF Stages
<1>2. NextTask(p, s) \in {"idle", "silver_read", "gold_read", "export_clear", "load_open"}
  <2>1. CASE p # DAG \/ s = "load"
    BY <2>1 DEF NextTask
  <2>2. CASE p = DAG /\ s # "load"
    <3>1. s \in {"bronze", "silver", "gold", "export"}
      BY <2>2 DEF Stages
    <3> QED
      BY <2>2, <3>1, FirstSteps DEF NextTask
  <2> QED
    BY <2>1, <2>2
<1>3. pc'[p] \in {"idle", "bronze_write", "silver_read", "gold_read",
                  "export_clear", "load_open"}
  BY <1>1, <1>2 DEF Finish, TypeOK
<1>4. pc' \in [Runners -> Steps]
  BY <1>1, <1>2, StepsEnumerated DEF Finish, TypeOK
<1>5. tries' \in 0 .. Retries
  BY SpineAssumption DEF Finish, Retried, TypeOK
<1>6. ended' \in [Runners -> [stage : Stages \cup {"none"}, how : Endings]]
  BY DEF Finish, TypeOK
<1>7. raised' \subseteq Stoppers
  BY DEF Finish, TypeOK
<1>8. at' \in [Runners -> Nat \ {0}] /\ at'[p] = 1 /\ OthersStay(p)
  BY DEF Finish, TypeOK, OthersStay
<1>9. PositionAt(p)'
  BY <1>3, <1>8, SpineAssumption DEF PositionAt
<1> QED
  BY <1>3, <1>4, <1>5, <1>6, <1>7, <1>8, <1>9 DEF ControlOK

-----------------------------------------------------------------------------
(* Type correctness *)

LEMMA InitTyped == Init => TypeOK /\ PositionOK
<1> SUFFICES ASSUME Init
             PROVE  TypeOK /\ PositionOK
  OBVIOUS
<1>1. "idle" \in Steps
  BY StepsEnumerated
<1>2. "none" \in Endings
  BY DEF Endings, Outcomes
<1> QED
  BY <1>1, <1>2, SpineAssumption DEF Init, TypeOK, PositionOK, PositionAt

LEMMA CurrentIsVersion == TypeOK => Current \in Version
  BY DEF TypeOK, Current, Version

\* An action of runner p keeps the positions of the others, which only read their own.
LEMMA PositionsKept ==
    ASSUME PositionOK, NEW p \in Runners, OthersStay(p), PositionAt(p)',
           \A q \in Runners \ {p} : read'[q] = read[q]
    PROVE  PositionOK'
  BY DEF PositionOK, PositionAt, OthersStay

LEMMA BronzeTyped ==
    ASSUME TypeOK, PositionOK, NEW p \in Runners, BronzeWrite(p) \/ BronzeCheck(p)
    PROVE  TypeOK' /\ PositionOK'
<1>1. CASE BronzeWrite(p)
  <2>1. ControlOK' /\ OthersStay(p) /\ PositionAt(p)'
    BY <1>1, AdvanceControl, StepsEnumerated DEF BronzeWrite, PositionAt
  <2>2. bronzeTxn' \in [Days -> Loads \cup {NoLoad}] /\ bronzeRef' \in Loads \cup {NoLoad}
    BY <1>1 DEF BronzeWrite, TypeOK
  <2>3. TypeOK'
    BY <1>1, <2>1, <2>2 DEF BronzeWrite, TypeOK, ControlOK, envVars
  <2> QED
    BY <1>1, <2>1, <2>3, PositionsKept DEF BronzeWrite
<1>2. CASE BronzeCheck(p)
  <2>1. at[p] \in {1, 2}
    BY <1>2 DEF BronzeCheck, PositionOK, PositionAt
  <2>2. BronzeContracts[at[p]] \in Endings /\ "ok" \in Endings /\ "bronze" \in Stages
    BY <2>1, ContractNames, ContractsAreStoppers DEF Stages
  <2>3. ControlOK' /\ OthersStay(p) /\ PositionAt(p)'
    BY <1>2, <2>2, AdvanceControl, FinishControl, StepsEnumerated DEF BronzeCheck, PositionAt
  <2>4. TypeOK'
    BY <1>2, <2>3 DEF BronzeCheck, TypeOK, ControlOK, envVars, lakeVars
  <2> QED
    BY <1>2, <2>3, <2>4, PositionsKept DEF BronzeCheck
<1> QED
  BY <1>1, <1>2

LEMMA SilverTyped ==
    ASSUME TypeOK, PositionOK, NEW p \in Runners,
           \/ SilverRead(p) \/ SilverQuarantine(p) \/ SilverGate(p)
           \/ Stage(p) \/ Audit(p) \/ Publish(p)
    PROVE  TypeOK' /\ PositionOK'
<1> "silver" \in Stages /\ {"ok", "gate", "missing"} \subseteq Endings
  BY ContractsAreStoppers DEF Stages
<1>1. CASE SilverRead(p)
  <2>0. /\ [txn |-> bronzeTxn, ref |-> NoLoad] \in Version
        /\ at[p] # 1 => [txn |-> read[p].txn, ref |-> bronzeRef] \in Version
    BY <1>1, SpineAssumption DEF SilverRead, PositionOK, PositionAt, TypeOK, Version
  <2>2. read' \in [Runners -> Version \cup {None}]
    BY <1>1, <2>0 DEF SilverRead, TypeOK
  <2>1. ControlOK' /\ OthersStay(p) /\ PositionAt(p)'
    <3>1. CASE Finish(p, "silver", "missing")
      BY <3>1, FinishControl
    <3>2. CASE /\ read' = [read EXCEPT ![p] = [txn |-> bronzeTxn, ref |-> NoLoad]]
               /\ Advance(p, "silver_read", 2)
      <4>1. read'[p] # None
        BY <2>0, <3>2, SpineAssumption DEF TypeOK
      <4> QED
        BY <3>2, <4>1, AdvanceControl, StepsEnumerated DEF PositionAt
    <3>3. CASE Advance(p, "silver_quarantine", 1)
      BY <3>3, AdvanceControl, StepsEnumerated DEF PositionAt
    <3> QED
      BY <1>1, <3>1, <3>2, <3>3 DEF SilverRead
  <2>3. table["transactions"] \in Version \cup {None} /\ table["dim_category"] \in Version \cup {None}
    BY DEF TypeOK, Tables, LakeSilver
  <2>4. before' \in [Runners -> (Version \cup {None}) \X (Version \cup {None})]
    <3> DEFINE b == <<table["transactions"], table["dim_category"]>>
    <3>1. b \in (Version \cup {None}) \X (Version \cup {None})
      BY <2>3
    <3>2. before' = before \/ before' = [before EXCEPT ![p] = b]
      BY <1>1 DEF SilverRead
    <3> HIDE DEF b
    <3> QED
      BY <3>1, <3>2 DEF TypeOK
  <2>5. TypeOK'
    BY <1>1, <2>1, <2>2, <2>4 DEF SilverRead, TypeOK, ControlOK, lakeVars
  <2>6. \A q \in Runners \ {p} : read'[q] = read[q]
    BY <1>1 DEF SilverRead, TypeOK
  <2> QED
    BY <2>1, <2>5, <2>6, PositionsKept
<1>2. CASE SilverQuarantine(p)
  <2>1. ControlOK' /\ OthersStay(p) /\ PositionAt(p)'
    BY <1>2, AdvanceControl, StepsEnumerated DEF SilverQuarantine, PositionAt
  <2>2. TypeOK'
    BY <1>2, <2>1 DEF SilverQuarantine, TypeOK, ControlOK, envVars
  <2> QED
    BY <1>2, <2>1, <2>2, PositionsKept DEF SilverQuarantine
<1>3. CASE SilverGate(p)
  <2>1. ControlOK' /\ OthersStay(p) /\ PositionAt(p)'
    BY <1>3, AdvanceControl, FinishControl, StepsEnumerated DEF SilverGate, PositionAt
  <2>2. TypeOK'
    BY <1>3, <2>1 DEF SilverGate, TypeOK, ControlOK, envVars, lakeVars
  <2> QED
    BY <1>3, <2>1, <2>2, PositionsKept DEF SilverGate
<1>4. CASE Stage(p)
  <2>1. at[p] \in {1, 2}
    BY <1>4 DEF Stage, PositionOK, PositionAt
  <2>2. ControlOK' /\ OthersStay(p) /\ PositionAt(p)'
    BY <1>4, <2>1, AdvanceControl, StepsEnumerated DEF Stage, PositionAt
  <2>3. TypeOK'
    BY <1>4, <2>2 DEF Stage, TypeOK, ControlOK, envVars
  <2> QED
    BY <1>4, <2>2, <2>3, PositionsKept DEF Stage
<1>5. CASE Audit(p)
  <2>1. at[p] \in {1, 2}
    BY <1>5 DEF Audit, PositionOK, PositionAt
  <2>2. /\ SilverContract[SilverTables[at[p]]] \in Endings
        /\ SilverTables[at[p]] \in {"transactions", "dim_category"}
    BY <2>1, ContractNames, ContractsAreStoppers
  <2>3. ControlOK' /\ OthersStay(p) /\ PositionAt(p)'
    BY <1>5, <2>1, <2>2, AdvanceControl, FinishControl, StepsEnumerated DEF Audit, PositionAt
  <2>4. table[Staging[SilverTables[at[p]]]] \in Version \cup {None}
    BY <2>2 DEF TypeOK, Staging, Tables, LakeSilver
  <2>5. TypeOK'
    BY <1>5, <2>3, <2>4 DEF Audit, TypeOK, ControlOK, envVars, lakeVars
  <2> QED
    BY <1>5, <2>3, <2>5, PositionsKept DEF Audit
<1>6. CASE Publish(p)
  <2>1. ControlOK' /\ OthersStay(p) /\ PositionAt(p)'
    BY <1>6, AdvanceControl, FinishControl, StepsEnumerated DEF Publish, PositionAt
  <2>2. TypeOK'
    BY <1>6, <2>1 DEF Publish, TypeOK, ControlOK, envVars
  <2> QED
    BY <1>6, <2>1, <2>2, PositionsKept DEF Publish
<1> QED
  BY <1>1, <1>2, <1>3, <1>4, <1>5, <1>6

LEMMA GoldTyped ==
    ASSUME TypeOK, PositionOK, NEW p \in Runners,
           GoldRead(p) \/ GoldWrite(p) \/ GoldCheck(p)
    PROVE  TypeOK' /\ PositionOK'
<1> "gold" \in Stages /\ {"ok", "missing"} \subseteq Endings
  BY ContractsAreStoppers DEF Stages
<1>1. CASE GoldRead(p)
  <2>1. ControlOK' /\ OthersStay(p) /\ PositionAt(p)'
    <3>1. CASE Finish(p, "gold", "missing")
      BY <3>1, FinishControl
    <3>2. CASE Advance(p, "gold_write", 1)
      <4>1. ControlOK' /\ OthersStay(p) /\ pc'[p] = "gold_write" /\ at'[p] = 1
        BY <3>2, AdvanceControl, StepsEnumerated
      <4> QED
        BY <4>1, SpineAssumption DEF PositionAt
    <3> QED
      BY <1>1, <3>1, <3>2 DEF GoldRead
  <2>2. table["transactions"] \in Version \cup {None}
    BY DEF TypeOK, Tables, LakeSilver
  <2>3. TypeOK'
    BY <1>1, <2>1, <2>2 DEF GoldRead, TypeOK, ControlOK, lakeVars, envVars
  <2> QED
    BY <1>1, <2>1, <2>3, PositionsKept DEF GoldRead, TypeOK
<1>2. CASE GoldWrite(p)
  <2>1. ControlOK' /\ OthersStay(p) /\ PositionAt(p)'
    <3>1. CASE at[p] < Len(GoldTables) /\ Advance(p, "gold_write", at[p] + 1)
      <4>1. at[p] \in Nat /\ at[p] + 1 \in Nat \ {0} /\ at[p] + 1 <= Len(GoldTables)
        BY <3>1, SpineAssumption DEF TypeOK
      <4>2. ControlOK' /\ OthersStay(p) /\ pc'[p] = "gold_write" /\ at'[p] = at[p] + 1
        BY <3>1, <4>1, AdvanceControl, StepsEnumerated
      <4> QED
        BY <4>1, <4>2 DEF PositionAt
    <3>2. CASE Advance(p, "gold_check", 1)
      <4>1. ControlOK' /\ OthersStay(p) /\ pc'[p] = "gold_check" /\ at'[p] = 1
        BY <3>2, AdvanceControl, StepsEnumerated
      <4> QED
        BY <4>1, SpineAssumption DEF PositionAt
    <3> QED
      BY <1>2, <3>1, <3>2 DEF GoldWrite
  <2>2. TypeOK'
    BY <1>2, <2>1 DEF GoldWrite, TypeOK, ControlOK, envVars
  <2> QED
    BY <1>2, <2>1, <2>2, PositionsKept DEF GoldWrite
<1>3. CASE GoldCheck(p)
  <2>1. at[p] \in 1 .. Len(GoldChecked)
    BY <1>3, SpineAssumption DEF GoldCheck, PositionOK, PositionAt, TypeOK
  <2>2. GoldChecked[at[p]] \in Endings
    BY <2>1, ContractNames, ContractsAreStoppers
  <2>3. ControlOK' /\ OthersStay(p) /\ PositionAt(p)'
    BY <1>3, <2>1, <2>2, AdvanceControl, FinishControl, StepsEnumerated, SpineAssumption
       DEF GoldCheck, PositionAt
  <2>4. TypeOK'
    BY <1>3, <2>3 DEF GoldCheck, TypeOK, ControlOK, envVars, lakeVars
  <2> QED
    BY <1>3, <2>3, <2>4, PositionsKept DEF GoldCheck
<1> QED
  BY <1>1, <1>2, <1>3

\* The loops over the curated tables.
LEMMA NextExportControl ==
    ASSUME TypeOK, PositionOK, NEW p \in Runners, pc[p] \in {"export_clear", "export_write"},
           NextExport(p)
    PROVE  ControlOK' /\ OthersStay(p) /\ PositionAt(p)'
  BY AdvanceControl, StepsEnumerated, SpineAssumption
     DEF NextExport, PositionOK, PositionAt, TypeOK

LEMMA NextLoadControl ==
    ASSUME TypeOK, PositionOK, NEW p \in Runners, pc[p] \in {"load_replace", "load_reconcile"},
           NextLoad(p)
    PROVE  ControlOK' /\ OthersStay(p) /\ PositionAt(p)'
<1> "load" \in Stages /\ "ok" \in Endings
  BY ContractsAreStoppers DEF Stages
<1> QED
  BY AdvanceControl, FinishControl, StepsEnumerated, SpineAssumption
     DEF NextLoad, PositionOK, PositionAt, TypeOK

LEMMA ExportTyped ==
    ASSUME TypeOK, PositionOK, NEW p \in Runners,
           ExportClear(p) \/ ExportWrite(p) \/ ExportManifest(p)
    PROVE  TypeOK' /\ PositionOK'
<1> "export" \in Stages /\ {"ok", "missing"} \subseteq Endings
  BY ContractsAreStoppers DEF Stages
<1> DEFINE n == Exports[at[p]]
<1>1. ASSUME pc[p] \in {"export_clear", "export_write"}
      PROVE  /\ at[p] \in 1 .. Len(Exports)
             /\ n \in ElementsOf(Exports) /\ table[SourceOf[n]] \in Version \cup {None}
  <2>1. at[p] \in 1 .. Len(Exports)
    BY <1>1, SpineAssumption DEF PositionOK, PositionAt, TypeOK
  <2> QED
    BY <2>1, ContractNames DEF TypeOK
<1>2. CASE ExportClear(p)
  <2> DEFINE v == table[SourceOf[n]]
             base == IF at[p] = 1 THEN [m \in ElementsOf(Exports) |-> None] ELSE entries[p]
  <2>1. pc[p] = "export_clear"
    BY <1>2 DEF ExportClear
  <2>2. n \in ElementsOf(Exports) /\ v \in Version \cup {None} /\ at[p] <= Len(Exports)
    BY <1>1, <2>1, SpineAssumption
  <2>3. base \in [ElementsOf(Exports) -> Nat \cup {None}]
    BY DEF TypeOK
  <2> HIDE DEF n, base
  <2>4. CASE /\ v # None
             /\ read' = [read EXCEPT ![p] = v]
             /\ curated' = [curated EXCEPT ![n] = None]
             /\ entries' = [entries EXCEPT ![p] = base]
             /\ Advance(p, "export_write", at[p])
    <3>1. read'[p] # None
      BY <2>4 DEF TypeOK
    <3>2. ControlOK' /\ OthersStay(p) /\ PositionAt(p)'
      BY <2>2, <2>4, <3>1, AdvanceControl, StepsEnumerated DEF PositionAt, TypeOK
    <3>3. /\ read' \in [Runners -> Version \cup {None}]
          /\ curated' \in [ElementsOf(Exports) -> Version \cup {None}]
          /\ entries' \in [Runners -> [ElementsOf(Exports) -> Nat \cup {None}]]
      BY <2>2, <2>3, <2>4 DEF TypeOK
    <3>4. TypeOK'
      BY <1>2, <3>2, <3>3 DEF ExportClear, TypeOK, ControlOK, envVars
    <3>5. \A q \in Runners \ {p} : read'[q] = read[q]
      BY <2>4 DEF TypeOK
    <3> QED
      BY <3>2, <3>4, <3>5, PositionsKept
  <2>5. CASE /\ entries' = [entries EXCEPT ![p] = base]
             /\ NextExport(p)
             /\ UNCHANGED <<read, curated>>
    <3>1. ControlOK' /\ OthersStay(p) /\ PositionAt(p)'
      BY <2>1, <2>5, NextExportControl
    <3>2. entries' \in [Runners -> [ElementsOf(Exports) -> Nat \cup {None}]]
      BY <2>3, <2>5 DEF TypeOK
    <3>3. TypeOK'
      BY <1>2, <2>5, <3>1, <3>2 DEF ExportClear, TypeOK, ControlOK, envVars
    <3> QED
      BY <2>5, <3>1, <3>3, PositionsKept
  <2>6. CASE Finish(p, "export", "missing") /\ UNCHANGED <<read, curated, entries>>
    <3>1. ControlOK' /\ OthersStay(p) /\ PositionAt(p)'
      BY <2>6, FinishControl
    <3>2. TypeOK'
      BY <1>2, <2>6, <3>1 DEF ExportClear, TypeOK, ControlOK, envVars
    <3> QED
      BY <2>6, <3>1, <3>2, PositionsKept
  <2> QED
    BY <1>2, <2>4, <2>5, <2>6 DEF ExportClear, n, base
<1>3. CASE ExportWrite(p)
  <2>1. pc[p] = "export_write"
    BY <1>3 DEF ExportWrite
  <2>2. ControlOK' /\ OthersStay(p) /\ PositionAt(p)'
    BY <1>3, <2>1, NextExportControl DEF ExportWrite
  <2>3. read[p] \in Version /\ RowCount(n, read[p]) \in Nat
    BY <1>1, <2>1, SpineAssumption DEF PositionOK, PositionAt, TypeOK
  <2>4. TypeOK'
    BY <1>1, <1>3, <2>1, <2>2, <2>3 DEF ExportWrite, TypeOK, ControlOK, envVars
  <2> QED
    BY <1>3, <2>2, <2>4, PositionsKept DEF ExportWrite
<1>4. CASE ExportManifest(p)
  <2>1. ControlOK' /\ OthersStay(p) /\ PositionAt(p)'
    BY <1>4, FinishControl DEF ExportManifest
  <2>2. TypeOK'
    BY <1>4, <2>1 DEF ExportManifest, TypeOK, ControlOK, envVars
  <2> QED
    BY <1>4, <2>1, <2>2, PositionsKept DEF ExportManifest
<1> QED
  BY <1>2, <1>3, <1>4

LEMMA LoadTyped ==
    ASSUME TypeOK, PositionOK, NEW p \in Runners,
           LoadOpen(p) \/ LoadReplace(p) \/ LoadReconcile(p)
    PROVE  TypeOK' /\ PositionOK'
<1> "load" \in Stages /\ {"ok", "missing", "mismatch", "locked"} \subseteq Endings
  BY ContractsAreStoppers DEF Stages
<1>1. CASE LoadOpen(p)
  <2>1. ControlOK' /\ OthersStay(p) /\ PositionAt(p)'
    BY <1>1, AdvanceControl, FinishControl, StepsEnumerated, SpineAssumption
       DEF LoadOpen, PositionAt
  <2>2. entries' \in [Runners -> [ElementsOf(Exports) -> Nat \cup {None}]]
    BY <1>1 DEF LoadOpen, TypeOK
  <2>3. UNCHANGED <<lakeVars, read, staged, envVars>>
    BY <1>1 DEF LoadOpen
  <2>4. TypeOK'
    BY <2>1, <2>2, <2>3 DEF TypeOK, ControlOK, lakeVars, envVars
  <2> QED
    BY <2>1, <2>3, <2>4, PositionsKept
<1>2. CASE LoadReplace(p)
  <2>1. pc[p] = "load_replace" /\ at[p] \in 1 .. Len(Exports)
    BY <1>2, SpineAssumption DEF LoadReplace, PositionOK, PositionAt, TypeOK
  <2>2. ControlOK' /\ OthersStay(p) /\ PositionAt(p)'
    BY <1>2, <2>1, AdvanceControl, FinishControl, NextLoadControl, StepsEnumerated
       DEF LoadReplace, PositionAt
  <2>3. Exports[at[p]] \in ElementsOf(Exports)
    BY <2>1, ContractNames
  <2>4. served' \in [ElementsOf(Exports) -> Version \cup {None}]
    BY <1>2, <2>3 DEF LoadReplace, TypeOK
  <2>5. TypeOK'
    BY <1>2, <2>2, <2>4 DEF LoadReplace, TypeOK, ControlOK, envVars
  <2> QED
    BY <1>2, <2>2, <2>5, PositionsKept DEF LoadReplace
<1>3. CASE LoadReconcile(p)
  <2>1. ControlOK' /\ OthersStay(p) /\ PositionAt(p)'
    BY <1>3, FinishControl, NextLoadControl DEF LoadReconcile
  <2>2. TypeOK'
    BY <1>3, <2>1 DEF LoadReconcile, TypeOK, ControlOK, lakeVars, envVars
  <2> QED
    BY <1>3, <2>1, <2>2, PositionsKept DEF LoadReconcile
<1> QED
  BY <1>1, <1>2, <1>3

LEMMA EnvironmentTyped ==
    ASSUME TypeOK, PositionOK,
           StartNight \/ (\E p \in Hands : StartHand(p)) \/ (\E p \in Runners : Crash(p))
    PROVE  TypeOK' /\ PositionOK'
<1>1. CASE StartNight
  <2>1. DAG \in Runners
    BY DEF Runners
  <2>2. PositionOK'
    BY <1>1, <2>1, FirstSteps DEF StartNight, PositionOK, PositionAt, TypeOK
  <2>3. "none" \in Endings
    BY DEF Endings, Outcomes
  <2>4. TypeOK'
    BY <1>1, <2>1, <2>3, FirstSteps, StepsEnumerated, SpineAssumption DEF StartNight, TypeOK
  <2> QED
    BY <2>2, <2>4
<1>2. ASSUME NEW p \in Hands, StartHand(p)
      PROVE  TypeOK' /\ PositionOK'
  <2>1. p \in Runners
    BY DEF Runners
  <2>2. PICK s \in Stages : Advance(p, FirstStep(s), 1)
    BY <1>2 DEF StartHand
  <2>3. FirstStep(s) \in {"bronze_write", "silver_read", "gold_read", "export_clear", "load_open"}
    BY FirstSteps DEF Stages
  <2>4. FirstStep(s) \in Steps
    BY <2>3, StepsEnumerated
  <2>5. ControlOK' /\ OthersStay(p) /\ pc'[p] = FirstStep(s) /\ at'[p] = 1
    BY <2>1, <2>2, <2>4, AdvanceControl
  <2>6. PositionAt(p)'
    BY <2>3, <2>5, SpineAssumption DEF PositionAt
  <2>7. handRuns' \in 0 .. MaxHand
    BY <1>2, SpineAssumption DEF StartHand, TypeOK
  <2>8. TypeOK'
    BY <1>2, <2>5, <2>7 DEF StartHand, TypeOK, ControlOK, lakeVars
  <2> QED
    BY <1>2, <2>1, <2>5, <2>6, <2>8, PositionsKept DEF StartHand
<1>3. ASSUME NEW p \in Runners, Crash(p)
      PROVE  TypeOK' /\ PositionOK'
  <2>1. StageOf(pc[p]) \in Stages
    BY <1>3, StageOfStep DEF Crash, TypeOK
  <2>2. ControlOK' /\ OthersStay(p) /\ PositionAt(p)'
    BY <1>3, <2>1, FinishControl, ContractsAreStoppers DEF Crash
  <2>3. faults' \in 0 .. MaxFaults
    BY <1>3, SpineAssumption DEF Crash, TypeOK
  <2>4. TypeOK'
    BY <1>3, <2>2, <2>3 DEF Crash, TypeOK, ControlOK, lakeVars
  <2> QED
    BY <1>3, <2>2, <2>4, PositionsKept DEF Crash
<1> QED
  BY <1>1, <1>2, <1>3

\* Every variable keeps its type, whoever runs what and wherever it dies.
THEOREM TypeCorrect == Spec => [](TypeOK /\ PositionOK)
<1>1. TypeOK /\ PositionOK /\ [Next]_vars => TypeOK' /\ PositionOK'
  <2> SUFFICES ASSUME TypeOK, PositionOK, [Next]_vars
               PROVE  TypeOK' /\ PositionOK'
    OBVIOUS
  <2>1. CASE UNCHANGED vars
    BY <2>1 DEF vars, lakeVars, runVars, envVars, TypeOK, PositionOK, PositionAt
  <2>2. ASSUME NEW p \in Runners, Step(p)
        PROVE  TypeOK' /\ PositionOK'
    BY <2>2, BronzeTyped, SilverTyped, GoldTyped, ExportTyped, LoadTyped DEF Step
  <2>3. CASE StartNight \/ (\E p \in Hands : StartHand(p)) \/ (\E p \in Runners : Crash(p))
    BY <2>3, EnvironmentTyped
  <2> QED
    BY <2>1, <2>2, <2>3 DEF Next
<1> QED
  BY <1>1, InitTyped, PTL DEF Spec

-----------------------------------------------------------------------------
(* Write-audit-publish *)

\* What a runner between the gate and a publish carries has passed what it has passed:
\* the rows it stages the gate, the staging snapshot it publishes the contract too.
InFlightOK == \A p \in Runners :
    /\ pc[p] \in {"stage", "audit", "publish"} /\ read[p] # None => ~OverBudget(read[p])
    /\ pc[p] = "publish" /\ staged[p] # None =>
         /\ ~OverBudget(staged[p])
         /\ OnViolation = "fail" => Conforms(SilverContract[SilverTables[at[p]]], staged[p])

Protected == {"transactions", "dim_category", "transactions_staging", "dim_category_staging"}

SilverInv == SilverAudited /\ SilverWithinBudget /\ InFlightOK

LEMMA SilverNames ==
    /\ ElementsOf(SilverTables) = {"transactions", "dim_category"}
    /\ \A i \in {1, 2} : SilverTables[i] \in ElementsOf(SilverTables)
    /\ Staging["transactions"] = "transactions_staging"
    /\ Staging["dim_category"] = "dim_category_staging"
    /\ Protected \subseteq Tables /\ Quarantine \notin Protected
  BY DEF ElementsOf, SilverTables, Staging, Protected, Tables, LakeSilver, Quarantine

\* A step of p outside the audited section, which leaves the protected tables alone.
LEMMA Elsewhere ==
    ASSUME TypeOK, SilverInv, NEW p \in Runners, OthersStay(p),
           pc'[p] \notin {"stage", "audit", "publish"},
           \A t \in Protected : table'[t] = table[t],
           \A q \in Runners \ {p} : read'[q] = read[q] /\ staged'[q] = staged[q]
    PROVE  SilverInv'
<1>1. SilverAudited'
  BY SilverNames DEF SilverInv, SilverAudited, Protected
<1>2. SilverWithinBudget'
  BY SilverNames DEF SilverInv, SilverWithinBudget, Protected
<1>3. InFlightOK'
  BY DEF SilverInv, InFlightOK, OthersStay
<1> QED
  BY <1>1, <1>2, <1>3 DEF SilverInv

\* A stage that has just ended is outside the audited section.
LEMMA FinishElsewhere ==
    ASSUME TypeOK, NEW p \in Runners, NEW s \in Stages, NEW how \in Endings,
           Finish(p, s, how)
    PROVE  OthersStay(p) /\ pc'[p] \notin {"stage", "audit", "publish"}
  BY FinishControl

LEMMA GateInv ==
    ASSUME TypeOK, PositionOK, SilverInv, NEW p \in Runners, SilverGate(p)
    PROVE  SilverInv'
<1>1. CASE OverBudget(read[p])
  <2>1. OthersStay(p) /\ pc'[p] \notin {"stage", "audit", "publish"}
    BY <1>1, FinishElsewhere, ContractsAreStoppers DEF SilverGate, Stages
  <2> QED
    BY <2>1, Elsewhere DEF SilverGate, lakeVars
<1>2. CASE ~OverBudget(read[p])
  <2>1. OthersStay(p) /\ pc'[p] = "stage"
    BY <1>2, AdvanceControl, StepsEnumerated DEF SilverGate
  <2>2. UNCHANGED <<table, read, staged>>
    BY DEF SilverGate, lakeVars
  <2>3. InFlightOK'
    BY <1>2, <2>1, <2>2 DEF SilverInv, InFlightOK, OthersStay
  <2> QED
    BY <2>2, <2>3 DEF SilverInv, SilverAudited, SilverWithinBudget
<1> QED
  BY <1>1, <1>2

LEMMA StageInv ==
    ASSUME TypeOK, PositionOK, SilverInv, NEW p \in Runners, Stage(p)
    PROVE  SilverInv'
<1> DEFINE t == SilverTables[at[p]]
<1>1. at[p] \in {1, 2} /\ t \in {"transactions", "dim_category"}
  BY ContractNames DEF Stage, PositionOK, PositionAt
<1>2. /\ OthersStay(p) /\ pc'[p] = "audit"
      /\ UNCHANGED <<read, staged>>
      /\ table' = [table EXCEPT ![Staging[t]] = read[p]]
  BY <1>1, AdvanceControl, StepsEnumerated DEF Stage
<1>3. read[p] # None => ~OverBudget(read[p])
  BY DEF SilverInv, InFlightOK, Stage
<1> HIDE DEF t
<1>4. /\ table'["transactions"] = table["transactions"]
      /\ table'["dim_category"] = table["dim_category"]
  BY <1>1, <1>2, SilverNames DEF TypeOK
<1>5. \A u \in {"transactions_staging", "dim_category_staging"} :
        table'[u] = table[u] \/ table'[u] = read[p]
  BY <1>2, SilverNames DEF TypeOK, Protected
<1>6. SilverAudited'
  BY <1>4, SilverNames DEF SilverInv, SilverAudited
<1>7. SilverWithinBudget'
  BY <1>3, <1>4, <1>5, SilverNames DEF SilverInv, SilverWithinBudget
<1>8. InFlightOK'
  BY <1>2, <1>3 DEF SilverInv, InFlightOK, OthersStay
<1> QED
  BY <1>6, <1>7, <1>8 DEF SilverInv

LEMMA AuditInv ==
    ASSUME TypeOK, PositionOK, SilverInv, NEW p \in Runners, Audit(p)
    PROVE  SilverInv'
<1> DEFINE t == SilverTables[at[p]]
           v == table[Staging[t]]
<1>1. at[p] \in {1, 2} /\ t \in {"transactions", "dim_category"}
  BY ContractNames DEF Audit, PositionOK, PositionAt
<1>2. UNCHANGED <<table, read>> /\ staged' = [staged EXCEPT ![p] = v]
  BY DEF Audit, lakeVars
<1>3. SilverContract[t] \in Endings /\ "silver" \in Stages
  BY <1>1, ContractNames, ContractsAreStoppers DEF Stages
<1>4. v # None => ~OverBudget(v)
  BY <1>1, SilverNames DEF SilverInv, SilverWithinBudget
<1>5. CASE RaisedBy(SilverContract[t], v)
  <2>1. OthersStay(p) /\ pc'[p] \notin {"stage", "audit", "publish"}
    BY <1>3, <1>5, FinishElsewhere DEF Audit
  <2> QED
    BY <1>2, <2>1, Elsewhere DEF TypeOK
<1>6. CASE ~RaisedBy(SilverContract[t], v)
  <2>1. OthersStay(p) /\ pc'[p] = "publish" /\ at'[p] = at[p]
    BY <1>1, <1>6, AdvanceControl, StepsEnumerated DEF Audit, TypeOK
  <2>2. staged'[p] = v /\ \A q \in Runners \ {p} : staged'[q] = staged[q]
    BY <1>2 DEF TypeOK
  <2>3. OnViolation = "fail" => Conforms(SilverContract[t], v)
    BY <1>6 DEF RaisedBy
  <2>4. read[p] # None => ~OverBudget(read[p])
    BY DEF SilverInv, InFlightOK, Audit
  <2> HIDE DEF v
  <2>5. InFlightOK'
    BY <1>2, <1>4, <2>1, <2>2, <2>3, <2>4 DEF SilverInv, InFlightOK, OthersStay
  <2> QED
    BY <1>2, <2>5 DEF SilverInv, SilverAudited, SilverWithinBudget
<1> QED
  BY <1>5, <1>6

LEMMA PublishInv ==
    ASSUME TypeOK, PositionOK, SilverInv, NEW p \in Runners, Publish(p)
    PROVE  SilverInv'
<1> DEFINE t == SilverTables[at[p]]
<1>1. at[p] \in {1, 2} /\ t \in {"transactions", "dim_category"}
  BY ContractNames DEF Publish, PositionOK, PositionAt
<1>2. UNCHANGED <<read, staged>> /\ table' = [table EXCEPT ![t] = staged[p]]
  BY DEF Publish
<1>3. staged[p] # None => /\ ~OverBudget(staged[p])
                          /\ OnViolation = "fail" => Conforms(SilverContract[t], staged[p])
  BY DEF SilverInv, InFlightOK, Publish
<1>4. read[p] # None => ~OverBudget(read[p])
  BY DEF SilverInv, InFlightOK, Publish
<1>5. OthersStay(p) /\ pc'[p] \notin {"audit", "publish"}
  BY <1>1, AdvanceControl, FinishControl, StepsEnumerated, ContractsAreStoppers
     DEF Publish, Stages
<1> HIDE DEF t
<1>6. /\ table'[t] = staged[p]
      /\ \A u \in Protected \ {t} : table'[u] = table[u]
  BY <1>1, <1>2, SilverNames DEF TypeOK, Protected
<1>7. SilverAudited'
  BY <1>1, <1>3, <1>6, SilverNames DEF SilverInv, SilverAudited, Protected
<1>8. SilverWithinBudget'
  BY <1>1, <1>3, <1>6, SilverNames DEF SilverInv, SilverWithinBudget, Protected
<1>9. InFlightOK'
  BY <1>2, <1>4, <1>5 DEF SilverInv, InFlightOK, OthersStay
<1> QED
  BY <1>7, <1>8, <1>9 DEF SilverInv

\* Every step outside gate, stage, audit and publish is one of Elsewhere.
LEMMA OtherStepsInv ==
    ASSUME TypeOK, PositionOK, SilverInv, NEW p \in Runners,
           \/ BronzeWrite(p) \/ BronzeCheck(p) \/ SilverRead(p) \/ SilverQuarantine(p)
           \/ GoldRead(p) \/ GoldWrite(p) \/ GoldCheck(p)
           \/ ExportClear(p) \/ ExportWrite(p) \/ ExportManifest(p)
           \/ LoadOpen(p) \/ LoadReplace(p) \/ LoadReconcile(p) \/ Crash(p)
    PROVE  SilverInv'
<1> Stages = {"bronze", "silver", "gold", "export", "load"}
  BY DEF Stages
<1>0. {"ok", "missing", "mismatch", "locked", "crash"} \subseteq Endings
  BY ContractsAreStoppers
<1> DEFINE Leaves == OthersStay(p) /\ pc'[p] \notin {"stage", "audit", "publish"}
           Keeps == /\ \A t \in Protected : table'[t] = table[t]
                    /\ \A q \in Runners \ {p} : read'[q] = read[q] /\ staged'[q] = staged[q]
<1>a. ASSUME NEW s \in Stages, NEW how \in Endings, Finish(p, s, how)
      PROVE  Leaves
  BY <1>a, FinishElsewhere
<1>b. ASSUME NEW step \in Steps \ {"stage", "audit", "publish"}, NEW i \in Nat \ {0},
             Advance(p, step, i)
      PROVE  Leaves
  BY <1>b, AdvanceControl
<1>c. ASSUME Leaves, Keeps
      PROVE  SilverInv'
  BY <1>c, Elsewhere
<1> HIDE DEF Leaves
<1>1. CASE BronzeWrite(p)
  BY <1>1, <1>b, <1>c, StepsEnumerated DEF BronzeWrite
<1>2. CASE BronzeCheck(p)
  <2>1. at[p] \in {1, 2}
    BY <1>2 DEF BronzeCheck, PositionOK, PositionAt
  <2>2. BronzeContracts[at[p]] \in Endings
    BY <2>1, ContractNames, ContractsAreStoppers
  <2>3. Leaves
    BY <1>0, <1>2, <1>a, <1>b, <2>2, StepsEnumerated DEF BronzeCheck
  <2> QED
    BY <1>2, <1>c, <2>3 DEF BronzeCheck, lakeVars
<1>3. CASE SilverRead(p)
  <2>1. Leaves
    BY <1>0, <1>3, <1>a, <1>b, StepsEnumerated DEF SilverRead
  <2> QED
    BY <1>3, <1>c, <2>1 DEF SilverRead, lakeVars, TypeOK
<1>4. CASE SilverQuarantine(p)
  <2>1. Leaves
    BY <1>4, <1>b, StepsEnumerated DEF SilverQuarantine
  <2> QED
    BY <1>4, <1>c, <2>1, SilverNames DEF SilverQuarantine, TypeOK
<1>5. CASE GoldRead(p)
  <2>1. Leaves
    BY <1>0, <1>5, <1>a, <1>b, StepsEnumerated DEF GoldRead
  <2> QED
    BY <1>5, <1>c, <2>1 DEF GoldRead, lakeVars, TypeOK
<1>6. CASE GoldWrite(p)
  <2>1. at[p] \in 1 .. Len(GoldTables)
    BY <1>6, SpineAssumption DEF GoldWrite, PositionOK, PositionAt, TypeOK
  <2>2. GoldTables[at[p]] \in Tables \ LakeSilver
    BY <2>1, ContractNames
  <2>3. Leaves
    BY <1>6, <1>b, <2>1, StepsEnumerated DEF GoldWrite
  <2>4. Protected \subseteq LakeSilver
    BY DEF Protected, LakeSilver
  <2> QED
    BY <1>6, <1>c, <2>2, <2>3, <2>4, SilverNames DEF GoldWrite, TypeOK
<1>7. CASE GoldCheck(p)
  <2>1. at[p] \in 1 .. Len(GoldChecked)
    BY <1>7, SpineAssumption DEF GoldCheck, PositionOK, PositionAt, TypeOK
  <2>2. GoldChecked[at[p]] \in Endings
    BY <2>1, ContractNames, ContractsAreStoppers
  <2>3. Leaves
    BY <1>0, <1>7, <1>a, <1>b, <2>1, <2>2, StepsEnumerated DEF GoldCheck
  <2> QED
    BY <1>7, <1>c, <2>3 DEF GoldCheck, lakeVars
<1>8. CASE ExportClear(p)
  <2>1. at[p] \in Nat \ {0} /\ at[p] + 1 \in Nat \ {0}
    BY DEF TypeOK
  <2>2. Leaves
    BY <1>0, <1>8, <1>a, <1>b, <2>1, StepsEnumerated DEF ExportClear, NextExport
  <2> QED
    BY <1>8, <1>c, <2>2 DEF ExportClear, TypeOK
<1>9. CASE ExportWrite(p)
  <2>1. at[p] + 1 \in Nat \ {0}
    BY DEF TypeOK
  <2>2. Leaves
    BY <1>9, <1>b, <2>1, StepsEnumerated DEF ExportWrite, NextExport
  <2> QED
    BY <1>9, <1>c, <2>2 DEF ExportWrite
<1>10. CASE ExportManifest(p)
  BY <1>0, <1>10, <1>a, <1>c DEF ExportManifest
<1>11. CASE LoadOpen(p)
  <2>1. Leaves
    BY <1>0, <1>11, <1>a, <1>b, StepsEnumerated DEF LoadOpen
  <2> QED
    BY <1>11, <1>c, <2>1 DEF LoadOpen, lakeVars
<1>12. CASE LoadReplace(p) \/ LoadReconcile(p)
  <2>1. at[p] \in Nat \ {0} /\ at[p] + 1 \in Nat \ {0}
    BY DEF TypeOK
  <2>2. Leaves
    BY <1>0, <1>12, <1>a, <1>b, <2>1, StepsEnumerated DEF LoadReplace, LoadReconcile, NextLoad
  <2> QED
    BY <1>12, <1>c, <2>2 DEF LoadReplace, LoadReconcile, lakeVars
<1>13. CASE Crash(p)
  <2>1. StageOf(pc[p]) \in Stages
    BY <1>13, StageOfStep DEF Crash, TypeOK
  <2> QED
    BY <1>0, <1>13, <1>a, <1>c, <2>1 DEF Crash, lakeVars
<1> QED
  BY <1>1, <1>2, <1>3, <1>4, <1>5, <1>6, <1>7, <1>8, <1>9, <1>10, <1>11, <1>12, <1>13

LEMMA StartsInv ==
    ASSUME TypeOK, PositionOK, SilverInv, StartNight \/ \E p \in Hands : StartHand(p)
    PROVE  SilverInv'
<1>1. CASE StartNight
  <2>1. DAG \in Runners
    BY DEF Runners
  <2>2. OthersStay(DAG) /\ pc'[DAG] \notin {"stage", "audit", "publish"}
    BY <1>1, <2>1, FirstSteps DEF StartNight, OthersStay, TypeOK
  <2> QED
    BY <1>1, <2>1, <2>2, Elsewhere DEF StartNight
<1>2. ASSUME NEW p \in Hands, StartHand(p)
      PROVE  SilverInv'
  <2>1. p \in Runners
    BY DEF Runners
  <2>2. PICK s \in Stages : Advance(p, FirstStep(s), 1)
    BY <1>2 DEF StartHand
  <2>3. FirstStep(s) \in Steps \ {"stage", "audit", "publish"}
    BY FirstSteps, StepsEnumerated DEF Stages
  <2>4. OthersStay(p) /\ pc'[p] \notin {"stage", "audit", "publish"}
    BY <2>1, <2>2, <2>3, AdvanceControl
  <2> QED
    BY <1>2, <2>1, <2>4, Elsewhere DEF StartHand, lakeVars
<1> QED
  BY <1>1, <1>2

LEMMA SilverStep ==
    TypeOK /\ PositionOK /\ SilverInv /\ [Next]_vars => SilverInv'
<1> SUFFICES ASSUME TypeOK, PositionOK, SilverInv, [Next]_vars
             PROVE  SilverInv'
  OBVIOUS
<1>1. CASE UNCHANGED vars
  BY <1>1 DEF vars, lakeVars, runVars, SilverInv, SilverAudited, SilverWithinBudget, InFlightOK
<1>2. ASSUME NEW p \in Runners, Step(p) \/ Crash(p)
      PROVE  SilverInv'
  BY <1>2, GateInv, StageInv, AuditInv, PublishInv, OtherStepsInv DEF Step
<1>3. CASE StartNight \/ \E p \in Hands : StartHand(p)
  BY <1>3, StartsInv
<1> QED
  BY <1>1, <1>2, <1>3 DEF Next

LEMMA SilverInvariant == Spec => []SilverInv
<1>1. Init => SilverInv
  <2> SUFFICES ASSUME Init
               PROVE  SilverInv
    OBVIOUS
  <2>1. \A t \in Protected : table[t] = None
    BY SilverNames DEF Init
  <2>2. \A p \in Runners : pc[p] = "idle"
    BY DEF Init
  <2> QED
    BY <2>1, <2>2, SilverNames
       DEF SilverInv, SilverAudited, SilverWithinBudget, InFlightOK, Protected
<1> QED
  BY <1>1, SilverStep, TypeCorrect, PTL DEF Spec

\* Whoever runs silver, however runs interleave and wherever they die, neither silver
\* table holds data its contract rejects.
THEOREM SilverAuditedAlways == Spec => []SilverAudited
<1>1. SilverInv => SilverAudited
  BY DEF SilverInv
<1> QED
  BY <1>1, SilverInvariant, PTL

\* Nor does any silver or staging table hold data over the reject budget.
THEOREM SilverWithinBudgetAlways == Spec => []SilverWithinBudget
<1>1. SilverInv => SilverWithinBudget
  BY DEF SilverInv
<1> QED
  BY <1>1, SilverInvariant, PTL

-----------------------------------------------------------------------------
(* One load at a time *)

LoadingSteps == {"load_replace", "load_reconcile"}

\* What a load has behind it agrees with the manifest it read.
Agrees(p, n) ==
    entries[p][n] # None => served[n] # None /\ RowCount(n, served[n]) = entries[p][n]

\* Only one runner is connected to the warehouse, and nobody else writes what it loads.
AloneLoading == \A p, q \in Runners : Connected(p) /\ Connected(q) => p = q
LoadedAgrees == \A p \in Runners : Connected(p) =>
    \A i \in 1 .. at[p] - 1 : Agrees(p, Exports[i])
JustReplaced == \A p \in Runners : pc[p] = "load_reconcile" => served[Exports[at[p]]] # None

LoadInv == AloneLoading /\ LoadedAgrees /\ JustReplaced

\* A step that leaves p outside the warehouse, which it does not write.
LEMMA NotLoading ==
    ASSUME TypeOK, LoadInv, NEW p \in Runners, OthersStay(p), pc'[p] \notin LoadingSteps,
           served' = served, \A q \in Runners \ {p} : entries'[q] = entries[q]
    PROVE  LoadInv'
<1>1. AloneLoading'
  BY DEF LoadInv, AloneLoading, Connected, OthersStay, LoadingSteps
<1>2. LoadedAgrees'
  BY DEF LoadInv, LoadedAgrees, Agrees, Connected, OthersStay, LoadingSteps
<1>3. JustReplaced'
  BY DEF LoadInv, JustReplaced, OthersStay, LoadingSteps
<1> QED
  BY <1>1, <1>2, <1>3 DEF LoadInv

LEMMA FinishNotLoading ==
    ASSUME TypeOK, NEW p \in Runners, NEW s \in Stages, NEW how \in Endings, Finish(p, s, how)
    PROVE  OthersStay(p) /\ pc'[p] \notin LoadingSteps
  BY FinishControl DEF LoadingSteps

LEMMA AdvanceNotLoading ==
    ASSUME TypeOK, NEW p \in Runners, NEW step \in Steps \ LoadingSteps, NEW i \in Nat \ {0},
           Advance(p, step, i)
    PROVE  OthersStay(p) /\ pc'[p] \notin LoadingSteps
  BY AdvanceControl

LEMMA LoadOpenInv ==
    ASSUME TypeOK, PositionOK, LoadInv, NEW p \in Runners, LoadOpen(p)
    PROVE  LoadInv'
<1>1. served' = served
  BY DEF LoadOpen, lakeVars
<1>2. "load" \in Stages /\ {"missing", "locked"} \subseteq Endings
  BY ContractsAreStoppers DEF Stages
<1>3. CASE entries' = entries /\ (Finish(p, "load", "missing") \/ Finish(p, "load", "locked"))
  <2>1. OthersStay(p) /\ pc'[p] \notin LoadingSteps
    BY <1>2, <1>3, FinishNotLoading
  <2> QED
    BY <1>1, <1>3, <2>1, NotLoading
<1>5. CASE entries' = [entries EXCEPT ![p] = manifest] /\ Advance(p, "load_open", 2)
  <2>1. "load_open" \in Steps \ LoadingSteps
    BY StepsEnumerated DEF LoadingSteps
  <2>2. OthersStay(p) /\ pc'[p] \notin LoadingSteps
    BY <1>5, <2>1, AdvanceNotLoading
  <2> QED
    BY <1>1, <1>5, <2>2, NotLoading DEF TypeOK
<1>4. CASE ~(\E q \in Runners : Connected(q)) /\ Advance(p, "load_replace", 1)
  <2>1. OthersStay(p) /\ pc'[p] = "load_replace" /\ at'[p] = 1
    BY <1>4, AdvanceControl, StepsEnumerated
  <2>2. \A q \in Runners : Connected(q)' => q = p
    BY <1>4, <2>1 DEF Connected, OthersStay
  <2>3. AloneLoading'
    BY <2>2 DEF AloneLoading
  <2>4. 1 .. 1 - 1 = {}
    OBVIOUS
  <2>5. LoadedAgrees'
    BY <2>1, <2>2, <2>4 DEF LoadedAgrees
  <2>6. JustReplaced'
    BY <2>1, <2>2 DEF JustReplaced, Connected
  <2> QED
    BY <2>3, <2>5, <2>6 DEF LoadInv
<1> QED
  BY <1>3, <1>4, <1>5 DEF LoadOpen

\* The load goes on to the next table, or is done.
LEMMA NextLoadInv ==
    ASSUME TypeOK, PositionOK, LoadInv, NEW p \in Runners, Connected(p), NextLoad(p),
           served' = served, entries' = entries, Agrees(p, Exports[at[p]])
    PROVE  LoadInv'
<1>1. at[p] \in Nat \ {0} /\ at[p] + 1 \in Nat \ {0}
  BY DEF TypeOK
<1>2. CASE Finish(p, "load", "ok")
  <2>1. OthersStay(p) /\ pc'[p] \notin LoadingSteps
    BY <1>2, FinishNotLoading, ContractsAreStoppers DEF Stages
  <2> QED
    BY <2>1, NotLoading
<1>3. CASE Advance(p, "load_replace", at[p] + 1)
  <2>1. OthersStay(p) /\ pc'[p] = "load_replace" /\ at'[p] = at[p] + 1
    BY <1>1, <1>3, AdvanceControl, StepsEnumerated
  <2>2. \A q \in Runners : Connected(q)' => q = p
    BY <2>1 DEF LoadInv, AloneLoading, Connected, OthersStay
  <2>3. AloneLoading'
    BY <2>2 DEF AloneLoading
  <2>4. ASSUME NEW i \in 1 .. at'[p] - 1 PROVE Agrees(p, Exports[i])'
    <3>1. i = at[p] \/ i \in 1 .. at[p] - 1
      BY <1>1, <2>1
    <3>2. Agrees(p, Exports[i])
      BY <3>1 DEF LoadInv, LoadedAgrees
    <3> QED
      BY <3>2 DEF Agrees
  <2>5. LoadedAgrees'
    BY <2>2, <2>4 DEF LoadedAgrees
  <2>6. JustReplaced'
    BY <2>1, <2>2 DEF JustReplaced, Connected
  <2> QED
    BY <2>3, <2>5, <2>6 DEF LoadInv
<1> QED
  BY <1>2, <1>3 DEF NextLoad

LEMMA LoadReplaceInv ==
    ASSUME TypeOK, PositionOK, LoadInv, NEW p \in Runners, LoadReplace(p)
    PROVE  LoadInv'
<1> DEFINE n == Exports[at[p]]
<1>1. pc[p] = "load_replace" /\ Connected(p) /\ entries' = entries
  BY DEF LoadReplace, Connected
<1>2. at[p] \in 1 .. Len(Exports) /\ at[p] \in Nat \ {0}
  BY <1>1, SpineAssumption DEF TypeOK, PositionOK, PositionAt
<1>3. n \in ElementsOf(Exports)
  BY <1>2, ContractNames
<1>4. CASE entries[p][n] = None /\ NextLoad(p) /\ served' = served
  BY <1>1, <1>4, NextLoadInv DEF Agrees
<1>5. CASE Finish(p, "load", "missing") /\ served' = served
  <2>1. OthersStay(p) /\ pc'[p] \notin LoadingSteps
    BY <1>5, FinishNotLoading, ContractsAreStoppers DEF Stages
  <2> QED
    BY <1>1, <1>5, <2>1, NotLoading
<1>6. CASE /\ curated[n] # None /\ served' = [served EXCEPT ![n] = curated[n]]
           /\ Advance(p, "load_reconcile", at[p])
  <2>1. OthersStay(p) /\ pc'[p] = "load_reconcile" /\ at'[p] = at[p]
    BY <1>2, <1>6, AdvanceControl, StepsEnumerated
  <2>2. \A q \in Runners : Connected(q)' => q = p
    BY <1>1, <2>1 DEF LoadInv, AloneLoading, Connected, OthersStay
  <2>3. AloneLoading'
    BY <2>2 DEF AloneLoading
  <2>4. ASSUME NEW i \in 1 .. at[p] - 1 PROVE Agrees(p, Exports[i])'
    <3>1. i \in 1 .. Len(Exports) /\ i # at[p]
      BY <1>2
    <3>2. Exports[i] \in ElementsOf(Exports) /\ Exports[i] # n
      BY <1>2, <3>1, ContractNames, ExportsOnce
    <3>3. served'[Exports[i]] = served[Exports[i]]
      BY <1>6, <3>2 DEF TypeOK
    <3>4. Agrees(p, Exports[i])
      BY <1>1 DEF LoadInv, LoadedAgrees
    <3> QED
      BY <1>1, <3>3, <3>4 DEF Agrees
  <2>5. LoadedAgrees'
    BY <2>1, <2>2, <2>4 DEF LoadedAgrees
  <2>6. served'[n] # None
    BY <1>3, <1>6 DEF TypeOK
  <2>7. JustReplaced'
    BY <2>1, <2>2, <2>6 DEF JustReplaced, Connected
  <2> QED
    BY <2>3, <2>5, <2>7 DEF LoadInv
<1> QED
  BY <1>4, <1>5, <1>6 DEF LoadReplace

LEMMA LoadReconcileInv ==
    ASSUME TypeOK, PositionOK, LoadInv, NEW p \in Runners, LoadReconcile(p)
    PROVE  LoadInv'
<1> DEFINE n == Exports[at[p]]
<1>1. /\ pc[p] = "load_reconcile" /\ Connected(p)
      /\ entries' = entries /\ served' = served
  BY DEF LoadReconcile, Connected, lakeVars
<1>2. CASE Finish(p, "load", "mismatch")
  <2>1. OthersStay(p) /\ pc'[p] \notin LoadingSteps
    BY <1>2, FinishNotLoading, ContractsAreStoppers DEF Stages
  <2> QED
    BY <1>1, <2>1, NotLoading
<1>3. CASE RowCount(n, served[n]) = entries[p][n] /\ NextLoad(p)
  <2>1. served[n] # None
    BY <1>1 DEF LoadInv, JustReplaced
  <2> QED
    BY <1>1, <1>3, <2>1, NextLoadInv DEF Agrees
<1> QED
  BY <1>2, <1>3 DEF LoadReconcile

\* Every other step of a runner keeps it out of the warehouse.
LEMMA OtherStepsLoad ==
    ASSUME TypeOK, PositionOK, LoadInv, NEW p \in Runners,
           \/ BronzeWrite(p) \/ BronzeCheck(p)
           \/ SilverRead(p) \/ SilverQuarantine(p) \/ SilverGate(p)
           \/ Stage(p) \/ Audit(p) \/ Publish(p)
           \/ GoldRead(p) \/ GoldWrite(p) \/ GoldCheck(p)
           \/ ExportClear(p) \/ ExportWrite(p) \/ ExportManifest(p) \/ Crash(p)
    PROVE  LoadInv'
<1> Stages = {"bronze", "silver", "gold", "export", "load"}
  BY DEF Stages
<1>0. {"ok", "gate", "missing", "crash"} \subseteq Endings
  BY ContractsAreStoppers
<1> DEFINE Away == OthersStay(p) /\ pc'[p] \notin LoadingSteps
<1>a. ASSUME NEW s \in Stages, NEW how \in Endings, Finish(p, s, how)
      PROVE  Away
  BY <1>a, FinishNotLoading
<1>b. ASSUME NEW step \in Steps \ LoadingSteps, NEW i \in Nat \ {0}, Advance(p, step, i)
      PROVE  Away
  BY <1>b, AdvanceNotLoading
<1>c. ASSUME Away, served' = served, \A q \in Runners \ {p} : entries'[q] = entries[q]
      PROVE  LoadInv'
  BY <1>c, NotLoading
<1> HIDE DEF Away
<1>d. {"bronze_write", "bronze_check", "silver_read", "silver_quarantine", "silver_gate",
       "stage", "audit", "publish", "gold_read", "gold_write", "gold_check",
       "export_clear", "export_write", "export_manifest"} \subseteq Steps \ LoadingSteps
  BY StepsEnumerated DEF LoadingSteps
<1>e. at[p] \in Nat \ {0} /\ at[p] + 1 \in Nat \ {0}
  BY DEF TypeOK
<1>1. CASE BronzeWrite(p)
  BY <1>1, <1>b, <1>c, <1>d DEF BronzeWrite
<1>2. CASE BronzeCheck(p)
  <2>1. at[p] \in {1, 2}
    BY <1>2 DEF BronzeCheck, PositionOK, PositionAt
  <2>2. BronzeContracts[at[p]] \in Endings
    BY <2>1, ContractNames, ContractsAreStoppers
  <2>3. Away
    BY <1>0, <1>2, <1>a, <1>b, <1>d, <2>2 DEF BronzeCheck
  <2> QED
    BY <1>2, <1>c, <2>3 DEF BronzeCheck, lakeVars
<1>3. CASE SilverRead(p)
  <2>1. Away
    BY <1>0, <1>3, <1>a, <1>b, <1>d DEF SilverRead
  <2> QED
    BY <1>3, <1>c, <2>1 DEF SilverRead, lakeVars
<1>4. CASE SilverQuarantine(p)
  BY <1>4, <1>b, <1>c, <1>d DEF SilverQuarantine
<1>5. CASE SilverGate(p)
  <2>1. Away
    BY <1>0, <1>5, <1>a, <1>b, <1>d DEF SilverGate
  <2> QED
    BY <1>5, <1>c, <2>1 DEF SilverGate, lakeVars
<1>6. CASE Stage(p)
  BY <1>6, <1>b, <1>c, <1>d, <1>e DEF Stage
<1>7. CASE Audit(p)
  <2>1. at[p] \in {1, 2}
    BY <1>7 DEF Audit, PositionOK, PositionAt
  <2>2. SilverContract[SilverTables[at[p]]] \in Endings
    BY <2>1, ContractNames, ContractsAreStoppers
  <2>3. Away
    BY <1>7, <1>a, <1>b, <1>d, <1>e, <2>2 DEF Audit
  <2> QED
    BY <1>7, <1>c, <2>3 DEF Audit, lakeVars
<1>8. CASE Publish(p)
  <2>1. Away
    BY <1>0, <1>8, <1>a, <1>b, <1>d DEF Publish
  <2> QED
    BY <1>8, <1>c, <2>1 DEF Publish
<1>9. CASE GoldRead(p)
  <2>1. Away
    BY <1>0, <1>9, <1>a, <1>b, <1>d DEF GoldRead
  <2> QED
    BY <1>9, <1>c, <2>1 DEF GoldRead, lakeVars
<1>10. CASE GoldWrite(p)
  <2>1. Away
    BY <1>10, <1>b, <1>d, <1>e DEF GoldWrite
  <2> QED
    BY <1>10, <1>c, <2>1 DEF GoldWrite
<1>11. CASE GoldCheck(p)
  <2>1. at[p] \in 1 .. Len(GoldChecked)
    BY <1>11, SpineAssumption DEF GoldCheck, PositionOK, PositionAt, TypeOK
  <2>2. GoldChecked[at[p]] \in Endings
    BY <2>1, ContractNames, ContractsAreStoppers
  <2>3. Away
    BY <1>0, <1>11, <1>a, <1>b, <1>d, <1>e, <2>2 DEF GoldCheck
  <2> QED
    BY <1>11, <1>c, <2>3 DEF GoldCheck, lakeVars
<1>12. CASE ExportClear(p)
  <2>1. Away
    BY <1>0, <1>12, <1>a, <1>b, <1>d, <1>e DEF ExportClear, NextExport
  <2> QED
    BY <1>12, <1>c, <2>1 DEF ExportClear, TypeOK
<1>13. CASE ExportWrite(p)
  <2>1. Away
    BY <1>13, <1>b, <1>d, <1>e DEF ExportWrite, NextExport
  <2> QED
    BY <1>13, <1>c, <2>1 DEF ExportWrite, TypeOK
<1>14. CASE ExportManifest(p)
  BY <1>0, <1>14, <1>a, <1>c DEF ExportManifest
<1>15. CASE Crash(p)
  <2>1. StageOf(pc[p]) \in Stages
    BY <1>15, StageOfStep DEF Crash, TypeOK
  <2> QED
    BY <1>0, <1>15, <1>a, <1>c, <2>1 DEF Crash, lakeVars
<1> QED
  BY <1>1, <1>2, <1>3, <1>4, <1>5, <1>6, <1>7, <1>8, <1>9, <1>10, <1>11, <1>12, <1>13, <1>14, <1>15

LEMMA StartsLoad ==
    ASSUME TypeOK, PositionOK, LoadInv, StartNight \/ \E p \in Hands : StartHand(p)
    PROVE  LoadInv'
<1>1. CASE StartNight
  <2>1. DAG \in Runners
    BY DEF Runners
  <2>2. OthersStay(DAG) /\ pc'[DAG] \notin LoadingSteps
    BY <1>1, <2>1, FirstSteps DEF StartNight, OthersStay, TypeOK, LoadingSteps
  <2> QED
    BY <1>1, <2>1, <2>2, NotLoading DEF StartNight
<1>2. ASSUME NEW p \in Hands, StartHand(p)
      PROVE  LoadInv'
  <2>1. p \in Runners
    BY DEF Runners
  <2>2. PICK s \in Stages : Advance(p, FirstStep(s), 1)
    BY <1>2 DEF StartHand
  <2>3. FirstStep(s) \in Steps \ LoadingSteps
    BY FirstSteps, StepsEnumerated DEF Stages, LoadingSteps
  <2>4. OthersStay(p) /\ pc'[p] \notin LoadingSteps
    BY <2>1, <2>2, <2>3, AdvanceNotLoading
  <2> QED
    BY <1>2, <2>1, <2>4, NotLoading DEF StartHand, lakeVars
<1> QED
  BY <1>1, <1>2

LEMMA LoadStep ==
    TypeOK /\ PositionOK /\ LoadInv /\ [Next]_vars => LoadInv'
<1> SUFFICES ASSUME TypeOK, PositionOK, LoadInv, [Next]_vars
             PROVE  LoadInv'
  OBVIOUS
<1>1. CASE UNCHANGED vars
  <2>1. UNCHANGED <<served, pc, at, entries>>
    BY <1>1 DEF vars, lakeVars, runVars
  <2> QED
    BY <2>1 DEF LoadInv, AloneLoading, LoadedAgrees, JustReplaced, Connected, Agrees
<1>2. ASSUME NEW p \in Runners, Step(p) \/ Crash(p)
      PROVE  LoadInv'
  BY <1>2, LoadOpenInv, LoadReplaceInv, LoadReconcileInv, OtherStepsLoad DEF Step
<1>3. CASE StartNight \/ \E p \in Hands : StartHand(p)
  BY <1>3, StartsLoad
<1> QED
  BY <1>1, <1>2, <1>3 DEF Next

\* Whoever exports and loads meanwhile, what a load under way has behind it has the row count
\* its manifest recorded: the warehouse admits one writing process (load.py _load_duckdb,
\* _reconcile).
THEOREM LoadedSoFarReconcilesAlways == Spec => []LoadedSoFarReconciles
<1>1. Init => LoadInv
  <2> SUFFICES ASSUME Init
               PROVE  LoadInv
    OBVIOUS
  <2>1. \A p \in Runners : pc[p] = "idle"
    BY DEF Init
  <2> QED
    BY <2>1 DEF LoadInv, AloneLoading, LoadedAgrees, JustReplaced, Connected
<1>2. LoadInv => LoadedSoFarReconciles
  BY DEF LoadInv, LoadedAgrees, Agrees, LoadedSoFarReconciles
<1> QED
  BY <1>1, <1>2, LoadStep, TypeCorrect, PTL DEF Spec

-----------------------------------------------------------------------------
(* The nights of the DAG while nobody runs a stage by hand: the order of the tasks is     *)
(* then what protects the warehouse, for every number of loads, days, tables, retries,    *)
(* nights and faults, and every contract.                                                 *)

-----------------------------------------------------------------------------
(* The inductive invariant *)

SilverSteps == {"silver_read", "silver_quarantine", "silver_gate", "stage", "audit", "publish"}
LoadSteps == {"load_open", "load_replace", "load_reconcile"}

Here == pc[DAG]
Place == at[DAG]

\* What each stage leaves established of the version the night is about.
Covered == source \in Loads /\ \A d \in DaysOf[source] : bronzeTxn[d] = source
Landed == Covered /\ bronzeRef = source
BronzeDone == Landed /\ \A i \in {1, 2} : ~RaisedBy(BronzeContracts[i], Current)
SilverDone ==
    /\ BronzeDone /\ ~OverBudget(Current)
    /\ \A t \in LakeSilver : table[t] = Current
    /\ \A i \in {1, 2} : ~RaisedBy(SilverContract[SilverTables[i]], Current)
GoldDone ==
    /\ SilverDone
    /\ \A t \in Tables : table[t] = Current
    /\ \A c \in Contracts : ~RaisedBy(c, Current)
ExportDone ==
    /\ GoldDone
    /\ \A n \in ElementsOf(Exports) : curated[n] = Current /\ manifest[n] = RowCount(n, Current)

\* What holds when the first i - 1 tables of a stage are behind it.
Audited(i) == \A j \in 1 .. i - 1 :
    LET t == SilverTables[j] IN
    /\ table[t] = Current /\ table[Staging[t]] = Current
    /\ ~RaisedBy(SilverContract[t], Current)
Rebuilt(i) == \A j \in 1 .. i - 1 : table[GoldTables[j]] = Current
Checked(i) == \A j \in 1 .. i - 1 : ~RaisedBy(GoldChecked[j], Current)
Copied(n) == curated[n] = Current /\ entries[DAG][n] = RowCount(n, Current)
LoadedTo(i) == \A j \in 1 .. i - 1 : served[Exports[j]] = Current

Unpublished == <<table["transactions"], table["dim_category"]>> = before[DAG]

\* What the DAG has established when it is about to take the step it is at.
BronzeAt ==
    /\ Here = "bronze_write" => source \in Loads /\ (Place = 2 => Covered)
    /\ Here = "bronze_check" => Landed /\ (Place = 2 => ~RaisedBy(BronzeContracts[1], Current))
SilverAt ==
    /\ Here \in SilverSteps => BronzeDone
    /\ Here = "silver_read" /\ Place = 2 =>
         read[DAG] = [txn |-> bronzeTxn, ref |-> NoLoad] /\ Unpublished
    /\ Here \in SilverSteps \ {"silver_read"} => read[DAG] = Current
    /\ Here \in {"silver_quarantine", "silver_gate"} => Unpublished
    /\ Here \in {"silver_gate", "stage", "audit", "publish"} => table[Quarantine] = Current
    /\ Here \in {"stage", "audit", "publish"} =>
         ~OverBudget(Current) /\ Audited(Place) /\ (Place = 1 => Unpublished)
    /\ Here \in {"audit", "publish"} => table[Staging[SilverTables[Place]]] = Current
    /\ Here = "publish" => /\ staged[DAG] = Current
                           /\ ~RaisedBy(SilverContract[SilverTables[Place]], Current)
GoldAt ==
    /\ Here \in {"gold_read", "gold_write", "gold_check"} => SilverDone
    /\ Here = "gold_write" => read[DAG] = Current /\ Rebuilt(Place)
    /\ Here = "gold_check" => (\A t \in Tables : table[t] = Current) /\ Checked(Place)
ExportAt ==
    /\ Here \in {"export_clear", "export_write", "export_manifest"} => GoldDone
    /\ Here = "export_clear" => \A j \in 1 .. Place - 1 : Copied(Exports[j])
    /\ Here = "export_write" =>
         /\ read[DAG] = Current
         /\ \A j \in 1 .. Place - 1 : Exports[j] # Exports[Place] => Copied(Exports[j])
    /\ Here = "export_manifest" => \A n \in ElementsOf(Exports) : Copied(n)
LoadAt ==
    /\ Here \in LoadSteps => ExportDone
    /\ Here = "load_open" /\ Place = 2 => entries[DAG] = manifest
    /\ Here \in {"load_replace", "load_reconcile"} => entries[DAG] = manifest /\ LoadedTo(Place)
    /\ Here = "load_reconcile" => served[Exports[Place]] = Current

Established == BronzeAt /\ SilverAt /\ GoldAt /\ ExportAt /\ LoadAt

\* What the night's history says.  A contract, or the gate, that raised would raise again.
Accepted(v) == ~OverBudget(v) /\ \A c \in Contracts : ~RaisedBy(c, v)
ServedInv == \A n \in ElementsOf(Exports) : served[n] # None => Accepted(served[n])
Untouched == Here \notin LoadSteps \cup {"idle"} => served = yesterday
RaisedInv ==
    /\ raised # {} => Landed /\ served = yesterday
    /\ \A c \in raised : IF c = "gate" THEN OverBudget(Current) ELSE RaisedBy(c, Current)
EndedInv ==
    /\ ended[DAG].how \in Stoppers => ended[DAG].how \in raised
    /\ ended[DAG].stage = "load" => ended[DAG].how \in {"ok", "crash"}
    /\ ended[DAG] = [stage |-> "load", how |-> "ok"] =>
         Here = "idle" /\ \A n \in ElementsOf(Exports) : served[n] = Current
SilverInvs == QuarantineExplainsFailure /\ StoppedSilverPublishesNothing

History == ServedInv /\ Untouched /\ RaisedInv /\ EndedInv /\ SilverInvs

-----------------------------------------------------------------------------
(* What stays *)

LEMMA DagAlone == Hands = {} => Runners = {DAG}
  BY DEF Runners

LEMMA DagRuns == DAG \in Runners
  BY DEF Runners

\* A step that touches neither the source nor bronze keeps the version the night is about.
LEMMA VersionStays ==
    ASSUME source' = source, bronzeTxn' = bronzeTxn, bronzeRef' = bronzeRef
    PROVE  /\ Current' = Current
           /\ (Covered => Covered') /\ (Landed => Landed') /\ (BronzeDone => BronzeDone')
<1>1. Current' = Current
  BY DEF Current
<1>2. (Covered => Covered') /\ (Landed => Landed')
  BY DEF Covered, Landed
<1>3. ASSUME BronzeDone PROVE BronzeDone'
  BY <1>1, <1>2, <1>3 DEF BronzeDone, RaisedBy
<1> QED
  BY <1>1, <1>2, <1>3

\* Nothing a stage has established is lost when a later one does not write what it is about.
LEMMA StagesStay ==
    ASSUME source' = source, bronzeTxn' = bronzeTxn, bronzeRef' = bronzeRef, table' = table
    PROVE  (SilverDone => SilverDone') /\ (GoldDone => GoldDone')
<1>1. Current' = Current /\ (BronzeDone => BronzeDone')
  BY VersionStays
<1>2. ASSUME SilverDone PROVE SilverDone'
  BY <1>1, <1>2 DEF SilverDone
<1>3. ASSUME GoldDone PROVE GoldDone'
  BY <1>1, <1>2, <1>3 DEF GoldDone
<1> QED
  BY <1>2, <1>3

-----------------------------------------------------------------------------
(* Where a stage begins and ends *)

\* What a stage needs to begin, also when it is retried.
Entry(s) ==
    /\ s = "bronze" => source \in Loads
    /\ s = "silver" => BronzeDone
    /\ s = "gold"   => SilverDone
    /\ s = "export" => GoldDone
    /\ s = "load"   => ExportDone

NextOf(s) == [bronze |-> "silver", silver |-> "gold", gold |-> "export", export |-> "load"][s]

LEMMA StageSteps ==
    /\ ElementsOf(StepsOf["bronze"]) = {"bronze_write", "bronze_check"}
    /\ ElementsOf(StepsOf["silver"]) = SilverSteps
    /\ ElementsOf(StepsOf["gold"]) = {"gold_read", "gold_write", "gold_check"}
    /\ ElementsOf(StepsOf["export"]) = {"export_clear", "export_write", "export_manifest"}
    /\ ElementsOf(StepsOf["load"]) = LoadSteps
<1>1. ElementsOf(StepsOf["bronze"]) = {"bronze_write", "bronze_check"}
  BY DEF ElementsOf, StepsOf
<1>2. ElementsOf(StepsOf["silver"]) = SilverSteps
  BY DEF ElementsOf, StepsOf, SilverSteps
<1>3. ElementsOf(StepsOf["gold"]) = {"gold_read", "gold_write", "gold_check"}
  BY DEF ElementsOf, StepsOf
<1>4. ElementsOf(StepsOf["export"]) = {"export_clear", "export_write", "export_manifest"}
  BY DEF ElementsOf, StepsOf
<1>5. ElementsOf(StepsOf["load"]) = LoadSteps
  BY DEF ElementsOf, StepsOf, LoadSteps
<1> QED
  BY <1>1, <1>2, <1>3, <1>4, <1>5

\* The stage of a step.
LEMMA StageOfIs ==
    ASSUME NEW step \in Steps, step # "idle"
    PROVE  /\ StageOf(step) \in Stages
           /\ step \in ElementsOf(StepsOf[StageOf(step)])
<1>1. PICK s \in Stages : step \in ElementsOf(StepsOf[s])
  BY DEF Steps
<1> QED
  BY <1>1 DEF StageOf

\* Whatever step of a stage the DAG is at, the stage could begin again.
LEMMA CanRetry ==
    ASSUME TypeOK, Established, Here # "idle"
    PROVE  /\ StageOf(Here) \in Stages /\ Entry(StageOf(Here))
           /\ StageOf(Here) # "load" => Here \notin LoadSteps
<1> DEFINE s == StageOf(Here)
<1>1. s \in Stages /\ Here \in ElementsOf(StepsOf[s])
  BY DagRuns, StageOfIs DEF Here, TypeOK
<1> HIDE DEF s
<1>2. CASE s = "bronze"
  <2>1. Here \in {"bronze_write", "bronze_check"}
    BY <1>1, <1>2, StageSteps
  <2>2. source \in Loads
    BY <2>1 DEF Established, BronzeAt, Landed, Covered
  <2> QED
    BY <1>1, <1>2, <2>1, <2>2 DEF Entry, LoadSteps, s
<1>3. CASE s = "silver"
  <2>1. Here \in SilverSteps
    BY <1>1, <1>3, StageSteps
  <2> QED
    BY <1>1, <1>3, <2>1 DEF Established, SilverAt, Entry, SilverSteps, LoadSteps, s
<1>4. CASE s = "gold"
  <2>1. Here \in {"gold_read", "gold_write", "gold_check"}
    BY <1>1, <1>4, StageSteps
  <2> QED
    BY <1>1, <1>4, <2>1 DEF Established, GoldAt, Entry, LoadSteps, s
<1>5. CASE s = "export"
  <2>1. Here \in {"export_clear", "export_write", "export_manifest"}
    BY <1>1, <1>5, StageSteps
  <2> QED
    BY <1>1, <1>5, <2>1 DEF Established, ExportAt, Entry, LoadSteps, s
<1>6. CASE s = "load"
  <2>1. Here \in LoadSteps
    BY <1>1, <1>6, StageSteps
  <2> QED
    BY <1>1, <1>6, <2>1 DEF Established, LoadAt, Entry, s
<1> QED
  BY <1>1, <1>2, <1>3, <1>4, <1>5, <1>6 DEF Stages

LEMMA FinishGoes ==
    ASSUME TypeOK, NEW s \in Stages, NEW how \in Endings, Finish(DAG, s, how)
    PROVE  /\ at'[DAG] = 1
           /\ how # "ok" => pc'[DAG] \in {"idle", FirstStep(s)}
           /\ how = "ok" => pc'[DAG] = IF s = "load" THEN "idle" ELSE FirstStep(NextOf(s))
           /\ ended'[DAG] = [stage |-> s, how |-> how]
           /\ raised' = IF how \in Stoppers THEN raised \cup {how} ELSE raised
  BY DagRuns DEF Finish, NextTask, NextOf, TypeOK

LEMMA BeginsEstablished ==
    ASSUME NEW s \in Stages, pc'[DAG] \in {"idle", FirstStep(s)}, at'[DAG] = 1,
           pc'[DAG] # "idle" => Entry(s)'
    PROVE  Established'
<1>1. Here' \in {"idle", FirstStep(s)} /\ Place' = 1
  BY DEF Here, Place
<1>2. CASE Here' = "idle"
  BY <1>2 DEF Established, BronzeAt, SilverAt, GoldAt, ExportAt, LoadAt, SilverSteps, LoadSteps
<1>3. CASE s = "bronze" /\ Here' = "bronze_write"
  BY <1>1, <1>3, FirstSteps DEF Entry, Here, Established, BronzeAt, SilverAt, GoldAt,
     ExportAt, LoadAt, SilverSteps, LoadSteps
<1>4. CASE s = "silver" /\ Here' = "silver_read"
  BY <1>1, <1>4, FirstSteps DEF Entry, Here, Established, BronzeAt, SilverAt, GoldAt,
     ExportAt, LoadAt, SilverSteps, LoadSteps
<1>5. CASE s = "gold" /\ Here' = "gold_read"
  BY <1>1, <1>5, FirstSteps DEF Entry, Here, Established, BronzeAt, SilverAt, GoldAt,
     ExportAt, LoadAt, SilverSteps, LoadSteps
<1>6. CASE s = "export" /\ Here' = "export_clear"
  BY <1>1, <1>6, FirstSteps DEF Entry, Here, Established, BronzeAt, SilverAt, GoldAt,
     ExportAt, LoadAt, SilverSteps, LoadSteps
<1>7. CASE s = "load" /\ Here' = "load_open"
  BY <1>1, <1>7, FirstSteps DEF Entry, Here, Established, BronzeAt, SilverAt, GoldAt,
     ExportAt, LoadAt, SilverSteps, LoadSteps
<1> QED
  BY <1>1, <1>2, <1>3, <1>4, <1>5, <1>6, <1>7, FirstSteps DEF Stages

\* A stage that ends leaves established what the task after it, or its retry, needs.
LEMMA FinishEstablished ==
    ASSUME TypeOK, NEW s \in Stages, NEW how \in Endings, Finish(DAG, s, how),
           how # "ok" => Entry(s)',
           how = "ok" /\ s # "load" => Entry(NextOf(s))'
    PROVE  Established'
<1>1. CASE how # "ok"
  BY <1>1, FinishGoes, BeginsEstablished
<1>2. CASE how = "ok" /\ s = "load"
  BY <1>2, FinishGoes, BeginsEstablished
<1>3. CASE how = "ok" /\ s # "load"
  <2>1. NextOf(s) \in Stages
    BY <1>3 DEF NextOf, Stages
  <2>2. pc'[DAG] = FirstStep(NextOf(s)) /\ at'[DAG] = 1
    BY <1>3, FinishGoes
  <2> QED
    BY <1>3, <2>1, <2>2, BeginsEstablished
<1> QED
  BY <1>1, <1>2, <1>3

\* No contract has the name of another way to end.
LEMMA NotOutcomes == Contracts \cap Outcomes = {}
<1>1. ElementsOf(BronzeContracts) = {"bronze_transactions", "bronze_category_ref"}
  BY DEF ElementsOf, BronzeContracts
<1> QED
  BY <1>1, SpineAssumption DEF Contracts, Outcomes

\* How the history grows when a stage ends.
LEMMA FinishHistory ==
    ASSUME TypeOK, History, NEW s \in Stages, NEW how \in Endings, Finish(DAG, s, how),
           source' = source, bronzeTxn' = bronzeTxn, bronzeRef' = bronzeRef,
           served' = served, yesterday' = yesterday,
           how \in Stoppers =>
             /\ Landed
             /\ IF how = "gate" THEN OverBudget(Current) ELSE RaisedBy(how, Current),
           s # "load" => served = yesterday /\ how \notin {"mismatch", "locked"},
           s = "load" => how \in {"ok", "crash"},
           s = "load" /\ how = "ok" =>
             \A n \in ElementsOf(Exports) : served[n] = Current,
           s = "silver" /\ how \in {"gate", "silver_transactions", "silver_dim_category"} =>
             table'[Quarantine] = read'[DAG],
           s = "silver" /\ how \in {"gate", "silver_transactions"} => Unpublished'
    PROVE  History'
<1>1. /\ at'[DAG] = 1
      /\ how # "ok" => pc'[DAG] \in {"idle", FirstStep(s)}
      /\ how = "ok" => pc'[DAG] = IF s = "load" THEN "idle" ELSE FirstStep(NextOf(s))
      /\ ended'[DAG] = [stage |-> s, how |-> how]
      /\ raised' = IF how \in Stoppers THEN raised \cup {how} ELSE raised
  BY FinishGoes
<1>2. Current' = Current /\ (Landed => Landed')
  BY VersionStays
<1>3. "ok" \notin Stoppers /\ "crash" \notin Stoppers
  BY NotOutcomes DEF Stoppers, Outcomes
<1>4. ServedInv'
  BY DEF History, ServedInv
<1>5. Untouched'
  <2>1. s = "load" => pc'[DAG] \in {"idle", "load_open"}
    BY <1>1, FirstSteps
  <2> QED
    BY <2>1 DEF Untouched, Here, LoadSteps
<1>6. RaisedInv'
  <2>1. ASSUME NEW c \in raised'
        PROVE  IF c = "gate" THEN OverBudget(Current)' ELSE RaisedBy(c, Current)'
    <3>1. CASE c \in raised
      BY <1>2, <3>1 DEF History, RaisedInv
    <3>2. CASE c = how /\ how \in Stoppers
      BY <1>2, <3>2
    <3> QED
      BY <1>1, <2>1, <3>1, <3>2
  <2>2. raised' # {} => Landed' /\ served' = yesterday'
    <3>1. CASE raised # {}
      BY <1>2, <3>1 DEF History, RaisedInv
    <3>2. CASE how \in Stoppers
      BY <1>2, <1>3, <3>2
    <3> QED
      BY <1>1, <3>1, <3>2
  <2> QED
    BY <2>1, <2>2 DEF RaisedInv
<1>7. EndedInv'
  <2>1. ended'[DAG].stage = s /\ ended'[DAG].how = how
    BY <1>1
  <2>2. ended'[DAG].how \in Stoppers => ended'[DAG].how \in raised'
    BY <1>1, <2>1
  <2>3. ended'[DAG] = [stage |-> "load", how |-> "ok"] =>
          Here' = "idle" /\ \A n \in ElementsOf(Exports) : served'[n] = Current'
    <3>1. ended'[DAG] = [stage |-> "load", how |-> "ok"] => s = "load" /\ how = "ok"
      BY <2>1
    <3> QED
      BY <1>1, <1>2, <3>1 DEF Here
  <2> QED
    BY <2>1, <2>2, <2>3 DEF EndedInv
<1>8. SilverInvs'
  BY <1>1 DEF SilverInvs, QuarantineExplainsFailure, StoppedSilverPublishesNothing, Unpublished
<1> QED
  BY <1>4, <1>5, <1>6, <1>7, <1>8 DEF History

\* And when a stage goes on.
LEMMA AdvanceHistory ==
    ASSUME TypeOK, History, Here # "idle", NEW step \in Steps, NEW i \in Nat \ {0},
           Advance(DAG, step, i), step # "idle", step = "silver_read" => i = 2,
           yesterday' = yesterday,
           raised # {} /\ Landed => Landed' /\ Current' = Current,
           step \in LoadSteps \/ Here \notin LoadSteps,
           served' = served \/ (raised = {} /\ ServedInv' /\ step \in LoadSteps),
           StoppedSilverPublishesNothing'
    PROVE  History'
<1>1. pc'[DAG] = step /\ at'[DAG] = i /\ UNCHANGED <<ended, raised>>
  BY DagRuns, AdvanceControl DEF Advance
<1>2. ServedInv'
  BY DEF History, ServedInv
<1>3. Untouched'
  BY <1>1 DEF History, Untouched, Here
<1>4. RaisedInv'
  <2>1. CASE raised = {}
    BY <1>1, <2>1 DEF RaisedInv
  <2>2. CASE raised # {}
    BY <1>1, <2>2 DEF History, RaisedInv
  <2> QED
    BY <2>1, <2>2
<1>5. EndedInv'
  BY <1>1 DEF History, EndedInv
<1>6. QuarantineExplainsFailure'
  BY <1>1 DEF QuarantineExplainsFailure
<1> QED
  BY <1>2, <1>3, <1>4, <1>5, <1>6 DEF History, SilverInvs

LEMMA AdvanceGoes ==
    ASSUME TypeOK, NEW step \in Steps, NEW i \in Nat \ {0}, Advance(DAG, step, i)
    PROVE  Here' = step /\ Place' = i /\ ended' = ended /\ raised' = raised
<1>1. Here' = step /\ Place' = i
  BY DagRuns, AdvanceControl DEF Here, Place
<1>2. ended' = ended /\ raised' = raised
  BY DEF Advance
<1> QED
  BY <1>1, <1>2

\* A step within a stage that leaves the lake's sources and the warehouse alone.
LEMMA GoesOn ==
    ASSUME TypeOK, History, Here # "idle", NEW step \in Steps, NEW i \in Nat \ {0},
           Advance(DAG, step, i), step # "idle", step = "silver_read" => i = 2,
           source' = source, bronzeTxn' = bronzeTxn, bronzeRef' = bronzeRef,
           served' = served, yesterday' = yesterday,
           step \in LoadSteps \/ Here \notin LoadSteps,
           StoppedSilverPublishesNothing'
    PROVE  History'
<1>1. Current' = Current /\ (Landed => Landed')
  BY VersionStays
<1> QED
  BY <1>1, AdvanceHistory

\* While the silver tables and the snapshot of them stay, so does what is said of a stop.
LEMMA StoppedStays ==
    ASSUME History, ended' = ended, before' = before,
           table'["transactions"] = table["transactions"],
           table'["dim_category"] = table["dim_category"]
    PROVE  StoppedSilverPublishesNothing'
  BY DEF History, SilverInvs, StoppedSilverPublishesNothing

-----------------------------------------------------------------------------
(* Bronze *)

LEMMA BronzeWriteNight ==
    ASSUME TypeOK, PositionOK, Established, History, BronzeWrite(DAG)
    PROVE  Established' /\ History'
<1>1. /\ Here = "bronze_write" /\ source \in Loads
      /\ Place = 2 => Covered
      /\ Place \in {1, 2}
  BY DagRuns DEF BronzeWrite, Established, BronzeAt, PositionOK, PositionAt, Here, Place
<1>2. UNCHANGED <<source, table, served, yesterday, before>> /\ UNCHANGED <<ended>>
  BY DEF BronzeWrite, Advance, envVars
<1>3. StoppedSilverPublishesNothing'
  BY <1>2, StoppedStays
<1>4. "bronze_write" \in Steps /\ "bronze_check" \in Steps
  BY StepsEnumerated
<1>5. CASE Place = 1
  <2>1. /\ Advance(DAG, "bronze_write", 2)
        /\ bronzeRef' = bronzeRef
        /\ bronzeTxn' = [d \in Days |-> IF d \in DaysOf[source] THEN source ELSE bronzeTxn[d]]
    BY <1>5 DEF BronzeWrite, Place
  <2>2. Here' = "bronze_write" /\ Place' = 2
    BY <1>4, <2>1, AdvanceGoes
  <2>3. DaysOf[source] \subseteq Days
    BY <1>1, SpineAssumption
  <2>4. Covered'
    BY <1>1, <1>2, <2>1, <2>3 DEF Covered
  <2>5. Established'
    BY <1>1, <1>2, <2>2, <2>4 DEF Established, BronzeAt, SilverAt, GoldAt, ExportAt, LoadAt,
       SilverSteps, LoadSteps
  <2>6. ASSUME Landed PROVE Landed' /\ Current' = Current
    <3>1. bronzeTxn' = bronzeTxn
      BY <2>1, <2>6 DEF Landed, Covered, TypeOK
    <3> QED
      BY <1>2, <2>1, <2>6, <3>1, VersionStays
  <2>7. History'
    BY <1>1, <1>2, <1>3, <1>4, <2>1, <2>6, AdvanceHistory DEF LoadSteps
  <2> QED
    BY <2>5, <2>7
<1>6. CASE Place = 2
  <2>1. /\ Advance(DAG, "bronze_check", 1)
        /\ bronzeRef' = source /\ bronzeTxn' = bronzeTxn
    BY <1>6 DEF BronzeWrite, Place
  <2>2. Here' = "bronze_check" /\ Place' = 1
    BY <1>4, <2>1, AdvanceGoes
  <2>3. Landed'
    BY <1>1, <1>2, <1>6, <2>1 DEF Landed, Covered
  <2>4. Established'
    BY <2>2, <2>3 DEF Established, BronzeAt, SilverAt, GoldAt, ExportAt, LoadAt,
       SilverSteps, LoadSteps
  <2>5. ASSUME Landed PROVE Current' = Current
    BY <2>1, <2>5 DEF Landed, Current
  <2>6. History'
    BY <1>1, <1>2, <1>3, <1>4, <2>1, <2>3, <2>5, AdvanceHistory DEF LoadSteps
  <2> QED
    BY <2>4, <2>6
<1> QED
  BY <1>1, <1>5, <1>6

LEMMA BronzeCheckNight ==
    ASSUME TypeOK, PositionOK, Established, History, BronzeCheck(DAG)
    PROVE  Established' /\ History'
<1> DEFINE c == BronzeContracts[Place]
<1>1. /\ Here = "bronze_check" /\ Landed
      /\ Place = 2 => ~RaisedBy(BronzeContracts[1], Current)
      /\ Place \in {1, 2}
  BY DagRuns DEF BronzeCheck, Established, BronzeAt, PositionOK, PositionAt, Here, Place
<1>2. /\ source' = source /\ bronzeTxn' = bronzeTxn /\ bronzeRef' = bronzeRef
      /\ table' = table /\ served' = served /\ yesterday' = yesterday /\ before' = before
  BY DEF BronzeCheck, lakeVars, envVars
<1>3. Current' = Current /\ Landed' /\ (BronzeDone => BronzeDone')
  BY <1>1, <1>2, VersionStays
<1>4. served = yesterday
  BY <1>1 DEF History, Untouched, LoadSteps
<1>5. "bronze" \in Stages /\ "ok" \in Endings /\ "ok" \notin Stoppers
  BY NotOutcomes DEF Stages, Endings, Outcomes, Stoppers
<1>6. c \in Contracts /\ c \in Endings /\ c \in Stoppers /\ c \notin Outcomes
  BY <1>1, ContractNames, ContractsAreStoppers, NotOutcomes
<1>7. CASE RaisedBy(c, Current) /\ Finish(DAG, "bronze", c)
  <2>1. Entry("bronze")'
    BY <1>3 DEF Entry, Landed, Covered
  <2>2. Established'
    BY <1>5, <1>6, <1>7, <2>1, FinishEstablished DEF Outcomes
  <2>3. History'
    BY <1>1, <1>2, <1>4, <1>5, <1>6, <1>7, FinishHistory DEF Outcomes
  <2> QED
    BY <2>2, <2>3
<1>8. CASE ~RaisedBy(c, Current) /\ Place = 1 /\ Advance(DAG, "bronze_check", 2)
  <2>1. "bronze_check" \in Steps
    BY StepsEnumerated
  <2>2. Here' = "bronze_check" /\ Place' = 2 /\ ended' = ended
    BY <1>8, <2>1, AdvanceGoes
  <2>3. ~RaisedBy(BronzeContracts[1], Current)'
    BY <1>3, <1>8 DEF RaisedBy
  <2>4. Established'
    BY <1>3, <2>2, <2>3 DEF Established, BronzeAt, SilverAt, GoldAt, ExportAt, LoadAt,
       SilverSteps, LoadSteps
  <2>5. StoppedSilverPublishesNothing'
    BY <1>2, <2>2, StoppedStays
  <2>6. History'
    BY <1>1, <1>2, <1>8, <2>1, <2>5, GoesOn DEF LoadSteps
  <2> QED
    BY <2>4, <2>6
<1>9. CASE ~RaisedBy(c, Current) /\ Place # 1 /\ Finish(DAG, "bronze", "ok")
  <2>1. BronzeDone
    BY <1>1, <1>9 DEF BronzeDone
  <2>2. NextOf("bronze") = "silver"
    BY DEF NextOf
  <2>3. Entry("silver")'
    BY <1>3, <2>1 DEF Entry
  <2>4. Established'
    BY <1>5, <1>9, <2>2, <2>3, FinishEstablished
  <2>5. History'
    BY <1>1, <1>2, <1>4, <1>5, <1>9, FinishHistory
  <2> QED
    BY <2>4, <2>5
<1> QED
  BY <1>7, <1>8, <1>9 DEF BronzeCheck, Place

-----------------------------------------------------------------------------
(* Silver *)

\* No step of silver touches bronze or the warehouse.
SilverKeeps ==
    /\ source' = source /\ bronzeTxn' = bronzeTxn /\ bronzeRef' = bronzeRef
    /\ served' = served /\ yesterday' = yesterday

LEMMA AtSilver ==
    ASSUME TypeOK, PositionOK, Established, History, Here \in SilverSteps
    PROVE  BronzeDone /\ Landed /\ served = yesterday /\ Here # "idle" /\ Here \notin LoadSteps
<1>1. BronzeDone
  BY DEF Established, SilverAt
<1>2. served = yesterday /\ Here # "idle" /\ Here \notin LoadSteps
  BY DEF History, Untouched, LoadSteps, SilverSteps
<1> QED
  BY <1>1, <1>2 DEF BronzeDone

\* A silver run that goes on needs what it has read and staged to be of the night's version.
LEMMA SilverGoesOn ==
    ASSUME TypeOK, PositionOK, Established, History, Here \in SilverSteps, SilverKeeps,
           NEW step \in SilverSteps \ {"silver_read"}, NEW i \in Nat \ {0},
           Advance(DAG, step, i), StoppedSilverPublishesNothing',
           read'[DAG] = Current,
           step \in {"silver_quarantine", "silver_gate"} => Unpublished',
           step \in {"silver_gate", "stage", "audit", "publish"} => table'[Quarantine] = Current,
           step \in {"stage", "audit", "publish"} =>
             ~OverBudget(Current) /\ Audited(i)' /\ (i = 1 => Unpublished'),
           step \in {"audit", "publish"} => table'[Staging[SilverTables[i]]] = Current,
           step = "publish" => /\ staged'[DAG] = Current
                               /\ ~RaisedBy(SilverContract[SilverTables[i]], Current)
    PROVE  Established' /\ History'
<1>1. BronzeDone /\ Landed /\ served = yesterday /\ Here # "idle" /\ Here \notin LoadSteps
  BY AtSilver
<1>2. Current' = Current /\ BronzeDone'
  BY <1>1, VersionStays DEF SilverKeeps
<1>3. step \in Steps /\ step \notin {"idle", "silver_read"}
  BY StepsEnumerated DEF SilverSteps
<1>4. Here' = step /\ Place' = i
  BY <1>3, AdvanceGoes
<1>5. SilverAt'
  BY <1>2, <1>4 DEF SilverAt, RaisedBy
<1>6. Established'
  BY <1>4, <1>5 DEF Established, BronzeAt, GoldAt, ExportAt, LoadAt, SilverSteps, LoadSteps
<1>7. History'
  BY <1>1, <1>3, GoesOn DEF SilverKeeps
<1> QED
  BY <1>6, <1>7

\* A silver run that fails, and may be retried.
LEMMA SilverFails ==
    ASSUME TypeOK, PositionOK, Established, History, Here \in SilverSteps, SilverKeeps,
           NEW how \in Stoppers, how \in Endings, Finish(DAG, "silver", how),
           IF how = "gate" THEN OverBudget(Current) ELSE RaisedBy(how, Current),
           how \in {"gate", "silver_transactions", "silver_dim_category"} =>
             table'[Quarantine] = read'[DAG],
           how \in {"gate", "silver_transactions"} => Unpublished'
    PROVE  Established' /\ History'
<1>1. BronzeDone /\ Landed /\ served = yesterday
  BY AtSilver
<1>2. how \notin {"ok", "mismatch", "locked"}
  BY NotOutcomes DEF Stoppers, Outcomes
<1>3. Entry("silver")'
  BY <1>1, VersionStays DEF SilverKeeps, Entry
<1>4. "silver" \in Stages
  BY DEF Stages
<1>5. Established'
  BY <1>2, <1>3, <1>4, FinishEstablished
<1>6. History'
  BY <1>1, <1>2, <1>4, FinishHistory DEF SilverKeeps
<1> QED
  BY <1>5, <1>6

LEMMA SilverReadNight ==
    ASSUME TypeOK, PositionOK, Established, History, SilverRead(DAG)
    PROVE  Established' /\ History'
<1>1. Here = "silver_read" /\ Here \in SilverSteps /\ Place \in {1, 2}
  BY DagRuns DEF SilverRead, Here, Place, SilverSteps, PositionOK, PositionAt
<1>2. BronzeDone /\ Landed /\ Here # "idle" /\ Here \notin LoadSteps
  BY <1>1, AtSilver
<1>3. bronzeRef # NoLoad /\ \E d \in Days : bronzeTxn[d] # NoLoad
  BY <1>2, SpineAssumption DEF Landed, Covered
<1>4. SilverKeeps /\ table' = table
  BY DEF SilverRead, lakeVars, SilverKeeps
<1>5. CASE Place = 1
  <2>1. /\ Advance(DAG, "silver_read", 2)
        /\ read' = [read EXCEPT ![DAG] = [txn |-> bronzeTxn, ref |-> NoLoad]]
        /\ before' = [before EXCEPT ![DAG] = <<table["transactions"], table["dim_category"]>>]
    BY <1>3, <1>5 DEF SilverRead, Place
  <2>2. read'[DAG] = [txn |-> bronzeTxn, ref |-> NoLoad] /\ Unpublished'
    BY <1>4, <2>1, DagRuns DEF TypeOK, Unpublished
  <2>3. StoppedSilverPublishesNothing'
    BY <2>2 DEF Unpublished, StoppedSilverPublishesNothing
  <2>4. "silver_read" \in Steps
    BY StepsEnumerated
  <2>5. Here' = "silver_read" /\ Place' = 2
    BY <2>1, <2>4, AdvanceGoes
  <2>6. BronzeDone'
    BY <1>2, <1>4, VersionStays DEF SilverKeeps
  <2>7. SilverAt'
    BY <1>4, <2>2, <2>5, <2>6 DEF SilverAt, SilverKeeps
  <2>8. Established'
    BY <2>5, <2>7 DEF Established, BronzeAt, GoldAt, ExportAt, LoadAt, LoadSteps
  <2>9. History'
    BY <1>2, <1>4, <2>1, <2>3, <2>4, GoesOn DEF SilverKeeps
  <2> QED
    BY <2>8, <2>9
<1>6. CASE Place = 2
  <2>1. /\ Advance(DAG, "silver_quarantine", 1)
        /\ read' = [read EXCEPT ![DAG] = [txn |-> read[DAG].txn, ref |-> bronzeRef]]
        /\ before' = before
    BY <1>3, <1>6 DEF SilverRead, Place
  <2>2. read[DAG] = [txn |-> bronzeTxn, ref |-> NoLoad] /\ Unpublished
    BY <1>1, <1>6 DEF Established, SilverAt
  <2>3. read'[DAG] = Current
    BY <2>1, <2>2, DagRuns DEF TypeOK, Current
  <2>4. ended' = ended
    BY <2>1 DEF Advance
  <2>5. Unpublished' /\ StoppedSilverPublishesNothing'
    BY <1>4, <2>1, <2>2, <2>4, StoppedStays DEF Unpublished
  <2>6. "silver_quarantine" \in SilverSteps \ {"silver_read"}
    BY DEF SilverSteps
  <2> QED
    BY <1>1, <1>4, <2>1, <2>3, <2>5, <2>6, SilverGoesOn
<1> QED
  BY <1>1, <1>5, <1>6

LEMMA SilverQuarantineNight ==
    ASSUME TypeOK, PositionOK, Established, History, SilverQuarantine(DAG)
    PROVE  Established' /\ History'
<1>1. Here = "silver_quarantine" /\ Here \in SilverSteps
  BY DEF SilverQuarantine, Here, SilverSteps
<1>2. read[DAG] = Current /\ Unpublished
  BY <1>1 DEF Established, SilverAt
<1>3. /\ SilverKeeps /\ read' = read /\ before' = before
      /\ Advance(DAG, "silver_gate", 1)
      /\ table' = [table EXCEPT ![Quarantine] = read[DAG]]
  BY DEF SilverQuarantine, envVars, SilverKeeps
<1>4. /\ table'[Quarantine] = Current
      /\ table'["transactions"] = table["transactions"]
      /\ table'["dim_category"] = table["dim_category"]
  BY <1>2, <1>3 DEF TypeOK, Tables, LakeSilver, Quarantine
<1>5. ended' = ended
  BY <1>3 DEF Advance
<1>6. Unpublished' /\ StoppedSilverPublishesNothing'
  BY <1>2, <1>3, <1>4, <1>5, StoppedStays DEF Unpublished
<1>7. "silver_gate" \in SilverSteps \ {"silver_read"}
  BY DEF SilverSteps
<1> QED
  BY <1>1, <1>2, <1>3, <1>4, <1>6, <1>7, SilverGoesOn

LEMMA SilverGateNight ==
    ASSUME TypeOK, PositionOK, Established, History, SilverGate(DAG)
    PROVE  Established' /\ History'
<1>1. Here = "silver_gate" /\ Here \in SilverSteps
  BY DEF SilverGate, Here, SilverSteps
<1>2. read[DAG] = Current /\ Unpublished /\ table[Quarantine] = Current
  BY <1>1 DEF Established, SilverAt, SilverSteps
<1>3. SilverKeeps /\ read' = read /\ before' = before /\ table' = table
  BY DEF SilverGate, lakeVars, envVars, SilverKeeps
<1>4. Unpublished'
  BY <1>2, <1>3 DEF Unpublished
<1>5. CASE OverBudget(Current)
  <2>1. Finish(DAG, "silver", "gate")
    BY <1>2, <1>5 DEF SilverGate
  <2>2. "gate" \in Stoppers /\ "gate" \in Endings
    BY ContractsAreStoppers DEF Stoppers
  <2> QED
    BY <1>1, <1>2, <1>3, <1>4, <1>5, <2>1, <2>2, SilverFails
<1>6. CASE ~OverBudget(Current)
  <2>1. Advance(DAG, "stage", 1)
    BY <1>2, <1>6 DEF SilverGate
  <2>2. "stage" \in SilverSteps \ {"silver_read"}
    BY DEF SilverSteps
  <2>3. ended' = ended
    BY <2>1 DEF Advance
  <2>4. StoppedSilverPublishesNothing'
    BY <1>3, <2>3, StoppedStays
  <2>5. Audited(1)'
    BY DEF Audited
  <2> QED
    BY <1>1, <1>2, <1>3, <1>4, <1>6, <2>1, <2>2, <2>4, <2>5, SilverGoesOn
<1> QED
  BY <1>5, <1>6

LEMMA SilverTableNames ==
    /\ SilverTables[1] = "transactions" /\ SilverTables[2] = "dim_category"
    /\ Staging["transactions"] = "transactions_staging"
    /\ Staging["dim_category"] = "dim_category_staging"
    /\ SilverContract["transactions"] = "silver_transactions"
    /\ SilverContract["dim_category"] = "silver_dim_category"
    /\ {"transactions", "dim_category", Quarantine, "transactions_staging",
        "dim_category_staging"} \subseteq Tables
    /\ Quarantine \notin {"transactions", "dim_category", "transactions_staging",
                          "dim_category_staging"}
    /\ LakeSilver = {"transactions", "dim_category", Quarantine, "transactions_staging",
                     "dim_category_staging"}
  BY DEF SilverTables, Staging, SilverContract, Quarantine, Tables, LakeSilver

\* Where the audited section stands.
LEMMA AtSection ==
    ASSUME TypeOK, PositionOK, Established, Here \in {"stage", "audit", "publish"}
    PROVE  /\ Here \in SilverSteps /\ Place \in {1, 2}
           /\ read[DAG] = Current /\ table[Quarantine] = Current
           /\ ~OverBudget(Current) /\ Audited(Place)
           /\ Place = 1 => Unpublished
<1>1. Here \in SilverSteps /\ Here # "silver_read"
  BY DEF SilverSteps
<1>2. Place \in {1, 2}
  BY DagRuns DEF Here, Place, PositionOK, PositionAt
<1> QED
  BY <1>1, <1>2 DEF Established, SilverAt

LEMMA AuditedOf ==
    /\ Audited(1)
    /\ Audited(2) <=> /\ table["transactions"] = Current
                      /\ table["transactions_staging"] = Current
                      /\ ~RaisedBy("silver_transactions", Current)
<1>1. 1 .. 1 - 1 = {} /\ 1 .. 2 - 1 = {1}
  OBVIOUS
<1>2. Audited(1)
  BY <1>1 DEF Audited
<1>3. Audited(2) <=> /\ table["transactions"] = Current
                      /\ table["transactions_staging"] = Current
                      /\ ~RaisedBy("silver_transactions", Current)
  BY <1>1, SilverTableNames DEF Audited
<1> QED
  BY <1>2, <1>3

LEMMA StageNight ==
    ASSUME TypeOK, PositionOK, Established, History, Stage(DAG)
    PROVE  Established' /\ History'
<1> DEFINE t == SilverTables[Place]
<1>0. Here = "stage"
  BY DEF Stage, Here
<1>1. /\ Here \in SilverSteps /\ Place \in {1, 2}
      /\ read[DAG] = Current /\ table[Quarantine] = Current
      /\ ~OverBudget(Current) /\ Audited(Place)
      /\ Place = 1 => Unpublished
  BY <1>0, AtSection
<1>2. /\ SilverKeeps /\ read' = read /\ before' = before
      /\ Advance(DAG, "audit", Place)
      /\ table' = [table EXCEPT ![Staging[t]] = Current]
  BY <1>1 DEF Stage, envVars, SilverKeeps, Place
<1>3. t \in {"transactions", "dim_category"}
  BY <1>1, SilverTableNames
<1>4. /\ Staging[t] \in {"transactions_staging", "dim_category_staging"}
      /\ Staging[t] \in Tables
  BY <1>3, SilverTableNames
<1>5. /\ table'[Staging[t]] = Current /\ table'[Quarantine] = Current
      /\ table'["transactions"] = table["transactions"]
      /\ table'["dim_category"] = table["dim_category"]
  BY <1>1, <1>2, <1>4, SilverTableNames DEF TypeOK
<1>6. ended' = ended
  BY <1>2 DEF Advance
<1>7. StoppedSilverPublishesNothing' /\ (Place = 1 => Unpublished')
  BY <1>1, <1>2, <1>5, <1>6, StoppedStays DEF Unpublished
<1>8. Current' = Current
  BY <1>2, VersionStays DEF SilverKeeps
<1>9. ASSUME NEW i \in {1, 2}, i = Place PROVE Audited(i)'
  <2>1. CASE i = 1
    <3>1. 1 .. 1 - 1 = {}
      OBVIOUS
    <3> QED
      BY <2>1, <3>1 DEF Audited
  <2>2. CASE i = 2
    <3>1. /\ table["transactions"] = Current
          /\ table["transactions_staging"] = Current
          /\ ~RaisedBy("silver_transactions", Current)
      BY <1>1, <1>9, <2>2, AuditedOf
    <3>2. table'["transactions_staging"] = Current
      BY <1>2, <1>9, <2>2, <3>1, SilverTableNames DEF TypeOK
    <3>3. ~RaisedBy("silver_transactions", Current)'
      BY <1>8, <3>1 DEF RaisedBy
    <3>4. Audited(2)'
      <4>1. 1 .. 2 - 1 = {1}
        OBVIOUS
      <4> QED
        BY <1>5, <1>8, <3>1, <3>2, <3>3, <4>1, SilverTableNames DEF Audited
    <3> QED
      BY <2>2, <3>4
  <2> QED
    BY <2>1, <2>2
<1>10. "audit" \in SilverSteps \ {"silver_read"}
  BY DEF SilverSteps
<1>11. PICK i \in {1, 2} : i = Place
  BY <1>1
<1>12. Audited(i)' /\ Advance(DAG, "audit", i)
  BY <1>2, <1>9, <1>11
<1>13. /\ i \in Nat \ {0} /\ (i = 1 => Unpublished')
       /\ table'[Staging[SilverTables[i]]] = Current
  BY <1>5, <1>7, <1>11
<1> QED
  BY <1>0, <1>1, <1>2, <1>5, <1>7, <1>10, <1>12, <1>13, SilverGoesOn

LEMMA AuditNight ==
    ASSUME TypeOK, PositionOK, Established, History, Audit(DAG)
    PROVE  Established' /\ History'
<1>0. Here = "audit"
  BY DEF Audit, Here
<1>1. /\ Here \in SilverSteps
      /\ read[DAG] = Current /\ table[Quarantine] = Current
      /\ ~OverBudget(Current) /\ Audited(Place)
      /\ Place = 1 => Unpublished
  BY <1>0, AtSection
<1>2. PICK i \in {1, 2} : i = Place
  BY <1>0, AtSection
<1> DEFINE t == SilverTables[i]
<1>3. table[Staging[t]] = Current
  BY <1>0, <1>2 DEF Established, SilverAt
<1>4. /\ SilverKeeps /\ read' = read /\ before' = before /\ table' = table
      /\ staged' = [staged EXCEPT ![DAG] = Current]
      /\ IF RaisedBy(SilverContract[t], Current)
         THEN Finish(DAG, "silver", SilverContract[t])
         ELSE Advance(DAG, "publish", i)
  BY <1>2, <1>3 DEF Audit, lakeVars, envVars, SilverKeeps, Place
<1>5. staged'[DAG] = Current
  BY <1>4, DagRuns DEF TypeOK
<1>6. Current' = Current
  BY <1>4, VersionStays DEF SilverKeeps
<1>7. CASE RaisedBy(SilverContract[t], Current)
  <2>1. /\ SilverContract[t] \in Stoppers /\ SilverContract[t] \in Endings
        /\ SilverContract[t] # "gate"
        /\ SilverContract[t] = "silver_transactions" => i = 1
    BY ContractNames, ContractsAreStoppers, SilverTableNames
  <2>2. SilverContract[t] = "silver_transactions" => Unpublished'
    BY <1>1, <1>2, <1>4, <2>1 DEF Unpublished
  <2> QED
    BY <1>1, <1>4, <1>7, <2>1, <2>2, SilverFails
<1>8. CASE ~RaisedBy(SilverContract[t], Current)
  <2>1. Advance(DAG, "publish", i)
    BY <1>4, <1>8
  <2>2. ended' = ended
    BY <2>1 DEF Advance
  <2>3. StoppedSilverPublishesNothing' /\ (i = 1 => Unpublished')
    BY <1>1, <1>2, <1>4, <2>2, StoppedStays DEF Unpublished
  <2>4. Audited(i)
    BY <1>1, <1>2
  <2>5. Audited(i)'
    BY <1>4, <1>6, <2>4 DEF Audited, RaisedBy
  <2>6. "publish" \in SilverSteps \ {"silver_read"} /\ i \in Nat \ {0}
    BY DEF SilverSteps
  <2> QED
    BY <1>1, <1>3, <1>4, <1>5, <1>8, <2>1, <2>3, <2>5, <2>6, SilverGoesOn
<1> QED
  BY <1>7, <1>8

\* A silver run that publishes was stopped by nothing this night.
LEMMA NotStopped ==
    ASSUME History, ~OverBudget(Current), ~RaisedBy("silver_transactions", Current),
           ended' = ended
    PROVE  StoppedSilverPublishesNothing'
<1>1. ended[DAG].how \notin {"gate", "silver_transactions"}
  <2>1. "gate" \in Stoppers /\ "silver_transactions" \in Stoppers
    BY DEF Stoppers, Contracts
  <2> QED
    BY <2>1 DEF History, EndedInv, RaisedInv
<1> QED
  BY <1>1 DEF StoppedSilverPublishesNothing

LEMMA PublishNight ==
    ASSUME TypeOK, PositionOK, Established, History, Publish(DAG)
    PROVE  Established' /\ History'
<1>0. Here = "publish"
  BY DEF Publish, Here
<1>1. /\ Here \in SilverSteps /\ Place \in {1, 2}
      /\ read[DAG] = Current /\ table[Quarantine] = Current
      /\ ~OverBudget(Current) /\ Audited(Place)
  BY <1>0, AtSection
<1>2. /\ staged[DAG] = Current
      /\ table[Staging[SilverTables[Place]]] = Current
      /\ ~RaisedBy(SilverContract[SilverTables[Place]], Current)
  BY <1>0 DEF Established, SilverAt
<1>3. /\ SilverKeeps /\ read' = read /\ before' = before
      /\ table' = [table EXCEPT ![SilverTables[Place]] = Current]
  BY <1>2 DEF Publish, envVars, SilverKeeps, Place
<1>4. Current' = Current
  BY <1>3, VersionStays DEF SilverKeeps
<1>5. BronzeDone /\ Landed /\ served = yesterday
  BY <1>1, AtSilver
<1>6. CASE Place = 1
  <2>1. /\ Advance(DAG, "stage", 2)
        /\ table' = [table EXCEPT !["transactions"] = Current]
        /\ table["transactions_staging"] = Current
        /\ ~RaisedBy("silver_transactions", Current)
    BY <1>2, <1>3, <1>6, SilverTableNames DEF Publish, Place
  <2>2. /\ table'["transactions"] = Current /\ table'["transactions_staging"] = Current
        /\ table'[Quarantine] = Current
    BY <1>1, <2>1, SilverTableNames DEF TypeOK
  <2>3. ~RaisedBy("silver_transactions", Current)'
    BY <1>4, <2>1 DEF RaisedBy
  <2>4. Audited(2)'
    <3>1. 1 .. 2 - 1 = {1}
      OBVIOUS
    <3> QED
      BY <1>4, <2>2, <2>3, <3>1, SilverTableNames DEF Audited
  <2>5. ended' = ended
    BY <2>1 DEF Advance
  <2>6. StoppedSilverPublishesNothing'
    BY <1>1, <2>1, <2>5, NotStopped
  <2>7. "stage" \in SilverSteps \ {"silver_read"}
    BY DEF SilverSteps
  <2> QED
    BY <1>1, <1>3, <2>1, <2>2, <2>4, <2>6, <2>7, SilverGoesOn
<1>7. CASE Place = 2
  <2>1. /\ Finish(DAG, "silver", "ok")
        /\ table' = [table EXCEPT !["dim_category"] = Current]
        /\ table["dim_category_staging"] = Current
        /\ ~RaisedBy("silver_dim_category", Current)
    BY <1>2, <1>3, <1>7, SilverTableNames DEF Publish, Place
  <2>2. /\ table["transactions"] = Current
        /\ table["transactions_staging"] = Current
        /\ ~RaisedBy("silver_transactions", Current)
    BY <1>1, <1>7, AuditedOf
  <2>3. \A t \in LakeSilver : table'[t] = Current
    BY <1>1, <2>1, <2>2, SilverTableNames DEF TypeOK
  <2>4. \A i \in {1, 2} : ~RaisedBy(SilverContract[SilverTables[i]], Current)
    BY <2>1, <2>2, SilverTableNames
  <2>5. BronzeDone'
    BY <1>3, <1>5, VersionStays DEF SilverKeeps
  <2>6. SilverDone'
    BY <1>1, <1>4, <2>3, <2>4, <2>5 DEF SilverDone, RaisedBy
  <2>7. "silver" \in Stages /\ "ok" \in Endings /\ "ok" \notin Stoppers
    BY NotOutcomes DEF Stages, Endings, Outcomes, Stoppers
  <2>8. NextOf("silver") = "gold"
    BY DEF NextOf
  <2>9. Entry("gold")'
    BY <2>6 DEF Entry
  <2>10. Established'
    BY <2>1, <2>7, <2>8, <2>9, FinishEstablished
  <2>11. History'
    BY <1>3, <1>5, <2>1, <2>7, FinishHistory DEF SilverKeeps
  <2> QED
    BY <2>10, <2>11
<1> QED
  BY <1>1, <1>6, <1>7

-----------------------------------------------------------------------------
(* Gold *)

GoldSteps == {"gold_read", "gold_write", "gold_check"}

\* No step of gold touches bronze, the silver tables or the warehouse.
GoldKeeps ==
    /\ source' = source /\ bronzeTxn' = bronzeTxn /\ bronzeRef' = bronzeRef
    /\ \A t \in LakeSilver : table'[t] = table[t]
    /\ served' = served /\ yesterday' = yesterday

\* The version the night is about is one, whatever its tables hold of it.
LEMMA CurrentExists == TypeOK => Current # None
  BY CurrentIsVersion, SpineAssumption

LEMMA AcceptedSoFar ==
    ASSUME SilverDone
    PROVE  ~OverBudget(Current) /\ ~RaisedBy("silver_transactions", Current)
  BY SilverTableNames DEF SilverDone

LEMMA AtGold ==
    ASSUME Established, History, Here \in GoldSteps
    PROVE  /\ SilverDone /\ Landed /\ served = yesterday
           /\ Here # "idle" /\ Here \notin LoadSteps
<1>1. SilverDone
  BY DEF Established, GoldAt, GoldSteps
<1>2. served = yesterday /\ Here # "idle" /\ Here \notin LoadSteps
  BY DEF History, Untouched, LoadSteps, GoldSteps
<1> QED
  BY <1>1, <1>2 DEF SilverDone, BronzeDone

LEMMA SilverDoneStays ==
    ASSUME SilverDone, GoldKeeps
    PROVE  Current' = Current /\ SilverDone'
<1>1. Current' = Current /\ BronzeDone'
  BY VersionStays DEF SilverDone, GoldKeeps
<1> QED
  BY <1>1 DEF SilverDone, GoldKeeps, RaisedBy

LEMMA GoldGoesOn ==
    ASSUME TypeOK, PositionOK, Established, History, Here \in GoldSteps, GoldKeeps,
           NEW step \in {"gold_write", "gold_check"}, NEW i \in Nat \ {0},
           Advance(DAG, step, i),
           step = "gold_write" => read'[DAG] = Current /\ Rebuilt(i)',
           step = "gold_check" => (\A t \in Tables : table'[t] = Current) /\ Checked(i)
    PROVE  Established' /\ History'
<1>1. /\ SilverDone /\ Landed /\ served = yesterday
      /\ Here # "idle" /\ Here \notin LoadSteps
  BY AtGold
<1>2. Current' = Current /\ SilverDone'
  BY <1>1, SilverDoneStays
<1>3. step \in Steps /\ step \notin {"idle", "silver_read"}
  BY StepsEnumerated
<1>4. Here' = step /\ Place' = i /\ ended' = ended
  BY <1>3, AdvanceGoes
<1>5. Checked(i) => Checked(i)'
  BY <1>2 DEF Checked, RaisedBy
<1>6. GoldAt'
  BY <1>2, <1>4, <1>5 DEF GoldAt
<1>7. Established'
  BY <1>4, <1>6 DEF Established, BronzeAt, SilverAt, ExportAt, LoadAt, SilverSteps, LoadSteps
<1>8. StoppedSilverPublishesNothing'
  BY <1>1, <1>4, AcceptedSoFar, NotStopped
<1>9. History'
  BY <1>1, <1>3, <1>8, GoesOn DEF GoldKeeps
<1> QED
  BY <1>7, <1>9

LEMMA GoldReadNight ==
    ASSUME TypeOK, PositionOK, Established, History, GoldRead(DAG)
    PROVE  Established' /\ History'
<1>1. Here \in GoldSteps
  BY DEF GoldRead, Here, GoldSteps
<1>2. table["transactions"] = Current /\ Current # None
  BY <1>1, AtGold, CurrentExists, SilverTableNames DEF SilverDone
<1>3. GoldKeeps /\ Advance(DAG, "gold_write", 1) /\ read' = [read EXCEPT ![DAG] = Current]
  BY <1>2 DEF GoldRead, lakeVars, envVars, GoldKeeps
<1>4. read'[DAG] = Current
  BY <1>3, DagRuns DEF TypeOK
<1>5. Rebuilt(1)'
  <2>1. 1 .. 1 - 1 = {}
    OBVIOUS
  <2> QED
    BY <2>1 DEF Rebuilt
<1> QED
  BY <1>1, <1>3, <1>4, <1>5, GoldGoesOn

LEMMA GoldWriteNight ==
    ASSUME TypeOK, PositionOK, Established, History, GoldWrite(DAG)
    PROVE  Established' /\ History'
<1>1. Here = "gold_write" /\ Here \in GoldSteps
  BY DEF GoldWrite, Here, GoldSteps
<1>2. read[DAG] = Current /\ Rebuilt(Place) /\ SilverDone
  BY <1>1, AtGold DEF Established, GoldAt
<1>3. PICK i \in 1 .. Len(GoldTables) : i = Place
  BY <1>1, DagRuns, SpineAssumption DEF TypeOK, PositionOK, PositionAt, Here, Place
<1>4. GoldTables[i] \in Tables \ LakeSilver
  BY <1>3, ContractNames
<1>5. /\ table' = [table EXCEPT ![GoldTables[i]] = Current]
      /\ read' = read
      /\ IF i < Len(GoldTables) THEN Advance(DAG, "gold_write", i + 1)
                                ELSE Advance(DAG, "gold_check", 1)
  BY <1>2, <1>3 DEF GoldWrite, Place
<1>6. /\ source' = source /\ bronzeTxn' = bronzeTxn /\ bronzeRef' = bronzeRef
      /\ served' = served /\ yesterday' = yesterday
  BY DEF GoldWrite, envVars
<1>7. LakeSilver \subseteq Tables
  BY DEF Tables
<1>8. GoldKeeps
  BY <1>4, <1>5, <1>6, <1>7 DEF GoldKeeps, TypeOK
<1>9. Current' = Current
  BY <1>2, <1>8, SilverDoneStays
<1>10. \A t \in Tables : table[t] = Current \/ t = GoldTables[i] => table'[t] = Current
  BY <1>4, <1>5 DEF TypeOK
<1>11. \A j \in 1 .. i : GoldTables[j] \in Tables /\ table'[GoldTables[j]] = Current
  <2> SUFFICES ASSUME NEW j \in 1 .. i
               PROVE  GoldTables[j] \in Tables /\ table'[GoldTables[j]] = Current
    OBVIOUS
  <2>1. j \in 1 .. Len(GoldTables) /\ (j = i \/ j \in 1 .. i - 1)
    BY <1>3, SpineAssumption
  <2>2. GoldTables[j] \in Tables
    BY <2>1, ContractNames
  <2>3. table[GoldTables[j]] = Current \/ j = i
    BY <1>2, <1>3, <2>1 DEF Rebuilt
  <2> QED
    BY <1>10, <2>2, <2>3
<1>12. CASE i < Len(GoldTables)
  <2>1. 1 .. (i + 1) - 1 = 1 .. i
    BY <1>3
  <2>2. Rebuilt(i + 1)'
    BY <1>9, <1>11, <2>1 DEF Rebuilt
  <2>3. Advance(DAG, "gold_write", i + 1) /\ i + 1 \in Nat \ {0}
    BY <1>3, <1>5, <1>12
  <2>4. read'[DAG] = Current
    BY <1>2, <1>5
  <2> QED
    BY <1>1, <1>8, <2>2, <2>3, <2>4, GoldGoesOn
<1>13. CASE ~(i < Len(GoldTables))
  <2>1. i = Len(GoldTables)
    BY <1>3, <1>13, SpineAssumption
  <2>2. ASSUME NEW t \in Tables PROVE table'[t] = Current
    <3>1. CASE t \in LakeSilver
      BY <1>2, <1>8, <3>1 DEF SilverDone, GoldKeeps
    <3>2. CASE t \in ElementsOf(GoldTables)
      BY <1>11, <2>1, <3>2 DEF ElementsOf
    <3> QED
      BY <3>1, <3>2 DEF Tables
  <2>3. Checked(1)
    <3>1. 1 .. 1 - 1 = {}
      OBVIOUS
    <3> QED
      BY <3>1 DEF Checked
  <2>4. Advance(DAG, "gold_check", 1)
    BY <1>5, <1>13
  <2> QED
    BY <1>1, <1>8, <2>2, <2>3, <2>4, GoldGoesOn
<1> QED
  BY <1>12, <1>13

LEMMA GoldCheckNight ==
    ASSUME TypeOK, PositionOK, Established, History, GoldCheck(DAG)
    PROVE  Established' /\ History'
<1>1. Here = "gold_check" /\ Here \in GoldSteps
  BY DEF GoldCheck, Here, GoldSteps
<1>2. (\A t \in Tables : table[t] = Current) /\ Checked(Place)
  BY <1>1 DEF Established, GoldAt
<1>3. PICK i \in 1 .. Len(GoldChecked) : i = Place
  BY <1>1, DagRuns, SpineAssumption DEF TypeOK, PositionOK, PositionAt, Here, Place
<1> DEFINE c == GoldChecked[i]
<1>4. c \in Contracts /\ c \in Stoppers /\ c \in Endings /\ c \notin Outcomes /\ c \in Tables
  <2>1. c \in ElementsOf(GoldChecked)
    BY DEF ElementsOf
  <2>2. c \in Tables
    BY <2>1, SpineAssumption DEF Tables
  <2> QED
    BY <2>1, <2>2, ContractsAreStoppers, NotOutcomes DEF Contracts
<1>5. table[c] = Current
  BY <1>2, <1>4
<1>6. /\ source' = source /\ bronzeTxn' = bronzeTxn /\ bronzeRef' = bronzeRef
      /\ served' = served /\ yesterday' = yesterday /\ table' = table
      /\ before' = before /\ read' = read
  BY DEF GoldCheck, lakeVars, envVars
<1>7. GoldKeeps
  BY <1>6 DEF GoldKeeps
<1>8. SilverDone /\ Landed /\ served = yesterday
  BY <1>1, AtGold
<1>9. Current' = Current /\ SilverDone'
  BY <1>7, <1>8, SilverDoneStays
<1>10. "gold" \in Stages /\ "ok" \in Endings /\ "ok" \notin Stoppers
  BY NotOutcomes DEF Stages, Endings, Outcomes, Stoppers
<1>11. CASE RaisedBy(c, Current) /\ Finish(DAG, "gold", c)
  <2>1. Entry("gold")'
    BY <1>9 DEF Entry
  <2>2. c \notin {"gate", "silver_transactions", "silver_dim_category"} \/ "gold" # "silver"
    OBVIOUS
  <2>3. Established'
    BY <1>4, <1>10, <1>11, <2>1, FinishEstablished DEF Outcomes
  <2>4. History'
    BY <1>4, <1>6, <1>8, <1>10, <1>11, FinishHistory DEF Outcomes
  <2> QED
    BY <2>3, <2>4
<1>12. ASSUME ~RaisedBy(c, Current), i < Len(GoldChecked), Advance(DAG, "gold_check", i + 1)
       PROVE  Established' /\ History'
  <2>1. 1 .. (i + 1) - 1 = 1 .. i
    BY <1>3
  <2>2. \A j \in 1 .. i : ~RaisedBy(GoldChecked[j], Current)
    BY <1>2, <1>3, <1>12 DEF Checked
  <2>3. Checked(i + 1)
    BY <2>1, <2>2 DEF Checked
  <2>4. (\A t \in Tables : table'[t] = Current) /\ i + 1 \in Nat \ {0}
    BY <1>2, <1>6
  <2> QED
    BY <1>1, <1>7, <1>12, <2>3, <2>4, GoldGoesOn
<1>13. ASSUME ~RaisedBy(c, Current), ~(i < Len(GoldChecked)), Finish(DAG, "gold", "ok")
       PROVE  Established' /\ History'
  <2>1. i = Len(GoldChecked)
    BY <1>3, <1>13, SpineAssumption
  <2>2. ASSUME NEW d \in Contracts PROVE ~RaisedBy(d, Current)
    <3>1. CASE d \in ElementsOf(BronzeContracts)
      <4>1. PICK k \in {1, 2} : d = BronzeContracts[k]
        BY <3>1 DEF ElementsOf, BronzeContracts
      <4> QED
        BY <1>8, <4>1 DEF SilverDone, BronzeDone
    <3>2. CASE d \in {"silver_transactions", "silver_dim_category"}
      BY <1>8, <3>2, SilverTableNames DEF SilverDone
    <3>3. CASE d \in ElementsOf(GoldChecked)
      <4>1. PICK j \in 1 .. Len(GoldChecked) : d = GoldChecked[j]
        BY <3>3 DEF ElementsOf
      <4>2. j = i \/ j \in 1 .. i - 1
        BY <2>1
      <4> QED
        BY <1>2, <1>3, <1>13, <4>1, <4>2 DEF Checked
    <3> QED
      BY <3>1, <3>2, <3>3 DEF Contracts
  <2>3. GoldDone'
    BY <1>2, <1>6, <1>9, <2>2 DEF GoldDone, RaisedBy
  <2>4. NextOf("gold") = "export"
    BY DEF NextOf
  <2>5. Entry("export")'
    BY <2>3 DEF Entry
  <2>6. Established'
    BY <1>10, <1>13, <2>4, <2>5, FinishEstablished
  <2>7. History'
    BY <1>6, <1>8, <1>10, <1>13, FinishHistory
  <2> QED
    BY <2>6, <2>7
<1>14. \/ RaisedBy(c, Current) /\ Finish(DAG, "gold", c)
       \/ ~RaisedBy(c, Current) /\ i < Len(GoldChecked) /\ Advance(DAG, "gold_check", i + 1)
       \/ ~RaisedBy(c, Current) /\ ~(i < Len(GoldChecked)) /\ Finish(DAG, "gold", "ok")
  BY <1>3, <1>5 DEF GoldCheck, Place
<1> QED
  BY <1>11, <1>12, <1>13, <1>14

-----------------------------------------------------------------------------
(* Export *)

ExportSteps == {"export_clear", "export_write", "export_manifest"}

\* No step of export touches the lake or the warehouse.
ExportKeeps ==
    /\ source' = source /\ bronzeTxn' = bronzeTxn /\ bronzeRef' = bronzeRef
    /\ table' = table /\ served' = served /\ yesterday' = yesterday /\ before' = before

LEMMA AtExport ==
    ASSUME Established, History, Here \in ExportSteps
    PROVE  /\ GoldDone /\ SilverDone /\ Landed /\ served = yesterday
           /\ Here # "idle" /\ Here \notin LoadSteps
<1>1. GoldDone
  BY DEF Established, ExportAt, ExportSteps
<1>2. served = yesterday /\ Here # "idle" /\ Here \notin LoadSteps
  BY DEF History, Untouched, LoadSteps, ExportSteps
<1> QED
  BY <1>1, <1>2 DEF GoldDone, SilverDone, BronzeDone

\* The place of an export or a load in the list of curated tables.
LEMMA AtCurated ==
    ASSUME TypeOK, PositionOK,
           Here \in {"export_clear", "export_write", "load_replace", "load_reconcile"}
    PROVE  Place \in 1 .. Len(Exports)
  BY DagRuns, SpineAssumption DEF TypeOK, PositionOK, PositionAt, Here, Place

LEMMA ExportGoesOn ==
    ASSUME TypeOK, PositionOK, Established, History, Here \in ExportSteps, ExportKeeps,
           NEW step \in ExportSteps, NEW i \in Nat \ {0}, Advance(DAG, step, i),
           step = "export_clear" => \A j \in 1 .. i - 1 : Copied(Exports[j])',
           step = "export_write" =>
             /\ read'[DAG] = Current
             /\ \A j \in 1 .. i - 1 : Exports[j] # Exports[i] => Copied(Exports[j])',
           step = "export_manifest" => \A n \in ElementsOf(Exports) : Copied(n)'
    PROVE  Established' /\ History'
<1>1. /\ GoldDone /\ SilverDone /\ Landed /\ served = yesterday
      /\ Here # "idle" /\ Here \notin LoadSteps
  BY AtExport
<1>2. Current' = Current /\ GoldDone'
  BY <1>1, VersionStays, StagesStay DEF ExportKeeps
<1>3. step \in Steps /\ step \notin {"idle", "silver_read"}
  BY StepsEnumerated DEF ExportSteps
<1>4. Here' = step /\ Place' = i /\ ended' = ended
  BY <1>3, AdvanceGoes
<1>5. ExportAt'
  BY <1>2, <1>4 DEF ExportAt
<1>6. Established'
  BY <1>4, <1>5 DEF Established, BronzeAt, SilverAt, GoldAt, LoadAt, SilverSteps, LoadSteps,
     ExportSteps
<1>7. StoppedSilverPublishesNothing'
  BY <1>1, <1>4, AcceptedSoFar, NotStopped
<1>8. History'
  BY <1>1, <1>3, <1>7, GoesOn DEF ExportKeeps
<1> QED
  BY <1>6, <1>8

LEMMA ExportClearNight ==
    ASSUME TypeOK, PositionOK, Established, History, ExportClear(DAG)
    PROVE  Established' /\ History'
<1>1. Here = "export_clear" /\ Here \in ExportSteps
  BY DEF ExportClear, Here, ExportSteps
<1>2. PICK i \in 1 .. Len(Exports) : i = Place
  BY <1>1, AtCurated
<1>3. GoldDone /\ \A j \in 1 .. i - 1 : Copied(Exports[j])
  BY <1>1, <1>2 DEF Established, ExportAt
<1> DEFINE n == Exports[i]
<1>4. SourceOf[n] \in Tables /\ n \in ElementsOf(Exports)
  BY <1>2, ContractNames
<1>5. table[SourceOf[n]] = Current /\ Current # None
  BY <1>3, <1>4, CurrentExists DEF GoldDone
<1>6. /\ read' = [read EXCEPT ![DAG] = Current]
      /\ curated' = [curated EXCEPT ![n] = None]
      /\ entries' = [entries EXCEPT ![DAG] =
                       IF i = 1 THEN [m \in ElementsOf(Exports) |-> None] ELSE entries[DAG]]
      /\ Advance(DAG, "export_write", i)
  BY <1>2, <1>5 DEF ExportClear, Place
<1>7. ExportKeeps
  BY DEF ExportClear, envVars, ExportKeeps
<1>8. Current' = Current
  BY <1>7, VersionStays DEF ExportKeeps
<1>9. ASSUME NEW j \in 1 .. i - 1, Exports[j] # n
      PROVE  Copied(Exports[j])'
  <2>1. j \in 1 .. Len(Exports) /\ i # 1
    BY <1>2
  <2>2. Exports[j] \in ElementsOf(Exports)
    BY <2>1, ContractNames
  <2>3. entries'[DAG] = entries[DAG]
    BY <1>6, <2>1, DagRuns DEF TypeOK
  <2>4. curated'[Exports[j]] = curated[Exports[j]]
    BY <1>6, <1>9, <2>2 DEF TypeOK
  <2>5. Copied(Exports[j])
    BY <1>3, <1>9
  <2> QED
    BY <1>8, <2>3, <2>4, <2>5 DEF Copied
<1>10. read'[DAG] = Current
  BY <1>6, DagRuns DEF TypeOK
<1>11. "export_write" \in ExportSteps /\ i \in Nat \ {0}
  BY DEF ExportSteps
<1> QED
  BY <1>1, <1>6, <1>7, <1>9, <1>10, <1>11, ExportGoesOn

LEMMA ExportWriteNight ==
    ASSUME TypeOK, PositionOK, Established, History, ExportWrite(DAG)
    PROVE  Established' /\ History'
<1>1. Here = "export_write" /\ Here \in ExportSteps
  BY DEF ExportWrite, Here, ExportSteps
<1>2. PICK i \in 1 .. Len(Exports) : i = Place
  BY <1>1, AtCurated
<1> DEFINE n == Exports[i]
<1>3. /\ read[DAG] = Current
      /\ \A j \in 1 .. i - 1 : Exports[j] # n => Copied(Exports[j])
  BY <1>1, <1>2 DEF Established, ExportAt
<1>4. n \in ElementsOf(Exports)
  BY <1>2, ContractNames
<1>5. /\ curated' = [curated EXCEPT ![n] = Current]
      /\ entries' = [entries EXCEPT ![DAG][n] = RowCount(n, Current)]
      /\ IF i < Len(Exports) THEN Advance(DAG, "export_clear", i + 1)
                             ELSE Advance(DAG, "export_manifest", 1)
  BY <1>2, <1>3 DEF ExportWrite, NextExport, Place
<1>6. ExportKeeps
  BY DEF ExportWrite, envVars, ExportKeeps
<1>7. Current' = Current
  BY <1>6, VersionStays DEF ExportKeeps
<1>8. Copied(n)'
  <2>1. curated'[n] = Current
    BY <1>4, <1>5 DEF TypeOK
  <2>2. entries'[DAG][n] = RowCount(n, Current)
    BY <1>4, <1>5, DagRuns DEF TypeOK
  <2> QED
    BY <1>7, <2>1, <2>2 DEF Copied
<1>9. ASSUME NEW j \in 1 .. i
      PROVE  Copied(Exports[j])'
  <2>1. CASE Exports[j] = n
    BY <1>8, <2>1
  <2>2. CASE Exports[j] # n
    <3>1. j \in 1 .. i - 1 /\ j \in 1 .. Len(Exports)
      BY <1>2, <2>2
    <3>2. Exports[j] \in ElementsOf(Exports)
      BY <3>1, ContractNames
    <3>3. Copied(Exports[j])
      BY <1>3, <2>2, <3>1
    <3>4. curated'[Exports[j]] = curated[Exports[j]]
      BY <1>5, <2>2, <3>2 DEF TypeOK
    <3>5. entries'[DAG][Exports[j]] = entries[DAG][Exports[j]]
      BY <1>5, <2>2, <3>2, DagRuns DEF TypeOK
    <3> QED
      BY <1>7, <3>3, <3>4, <3>5 DEF Copied
  <2> QED
    BY <2>1, <2>2
<1>10. CASE i < Len(Exports)
  <2>1. Advance(DAG, "export_clear", i + 1) /\ i + 1 \in Nat \ {0}
    BY <1>5, <1>10
  <2>2. \A j \in 1 .. (i + 1) - 1 : Copied(Exports[j])'
    <3>1. 1 .. (i + 1) - 1 = 1 .. i
      OBVIOUS
    <3> QED
      BY <1>9, <3>1
  <2>3. "export_clear" \in ExportSteps
    BY DEF ExportSteps
  <2> QED
    BY <1>1, <1>6, <2>1, <2>2, <2>3, ExportGoesOn
<1>11. CASE ~(i < Len(Exports))
  <2>1. i = Len(Exports)
    BY <1>2, <1>11, SpineAssumption
  <2>2. Advance(DAG, "export_manifest", 1)
    BY <1>5, <1>11
  <2>3. ASSUME NEW m \in ElementsOf(Exports) PROVE Copied(m)'
    <3>1. PICK j \in 1 .. Len(Exports) : m = Exports[j]
      BY DEF ElementsOf
    <3> QED
      BY <1>9, <2>1, <3>1
  <2>4. "export_manifest" \in ExportSteps
    BY DEF ExportSteps
  <2> QED
    BY <1>1, <1>6, <2>2, <2>3, <2>4, ExportGoesOn
<1> QED
  BY <1>10, <1>11

LEMMA ExportManifestNight ==
    ASSUME TypeOK, PositionOK, Established, History, ExportManifest(DAG)
    PROVE  Established' /\ History'
<1>1. Here = "export_manifest" /\ Here \in ExportSteps
  BY DEF ExportManifest, Here, ExportSteps
<1>2. /\ GoldDone /\ SilverDone /\ Landed /\ served = yesterday
      /\ \A n \in ElementsOf(Exports) : Copied(n)
  BY <1>1, AtExport DEF Established, ExportAt
<1>3. ExportKeeps /\ curated' = curated /\ manifest' = entries[DAG] /\ Finish(DAG, "export", "ok")
  BY DEF ExportManifest, envVars, ExportKeeps
<1>4. Current' = Current /\ GoldDone'
  BY <1>2, <1>3, VersionStays, StagesStay DEF ExportKeeps
<1>5. ExportDone'
  BY <1>2, <1>3, <1>4 DEF ExportDone, Copied
<1>6. "export" \in Stages /\ "ok" \in Endings /\ "ok" \notin Stoppers
  BY NotOutcomes DEF Stages, Endings, Outcomes, Stoppers
<1>7. NextOf("export") = "load"
  BY DEF NextOf
<1>8. Entry("load")'
  BY <1>5 DEF Entry
<1>9. Established'
  BY <1>3, <1>6, <1>7, <1>8, FinishEstablished
<1>10. History'
  BY <1>2, <1>3, <1>6, FinishHistory DEF ExportKeeps
<1> QED
  BY <1>9, <1>10

-----------------------------------------------------------------------------
(* Load *)

\* The load touches nothing but the warehouse.
LoadKeeps ==
    /\ source' = source /\ bronzeTxn' = bronzeTxn /\ bronzeRef' = bronzeRef
    /\ table' = table /\ curated' = curated /\ manifest' = manifest
    /\ yesterday' = yesterday /\ before' = before

LEMMA AtLoad ==
    ASSUME TypeOK, Established, History, Here \in LoadSteps
    PROVE  /\ ExportDone /\ GoldDone /\ SilverDone /\ Landed /\ Here # "idle"
           /\ Accepted(Current) /\ raised = {}
<1>1. ExportDone /\ Here # "idle"
  BY DEF Established, LoadAt, LoadSteps
<1>2. GoldDone /\ SilverDone /\ Landed
  BY <1>1 DEF ExportDone, GoldDone, SilverDone, BronzeDone
<1>3. ~OverBudget(Current) /\ \A c \in Contracts : ~RaisedBy(c, Current)
  BY <1>2 DEF GoldDone, SilverDone
<1>4. ASSUME NEW c \in raised PROVE FALSE
  <2>1. c = "gate" \/ c \in Contracts
    BY DEF TypeOK, Stoppers
  <2> QED
    BY <1>3, <1>4, <2>1 DEF History, RaisedInv
<1> QED
  BY <1>1, <1>2, <1>3, <1>4 DEF Accepted

LEMMA ExportDoneStays ==
    ASSUME ExportDone, LoadKeeps
    PROVE  Current' = Current /\ ExportDone'
<1>1. Current' = Current /\ GoldDone'
  BY VersionStays, StagesStay DEF ExportDone, LoadKeeps
<1> QED
  BY <1>1 DEF ExportDone, LoadKeeps

LEMMA LoadGoesOn ==
    ASSUME TypeOK, PositionOK, Established, History, Here \in LoadSteps, LoadKeeps,
           NEW step \in LoadSteps, NEW i \in Nat \ {0},
           Advance(DAG, step, i), entries'[DAG] = manifest,
           step # "load_open" => \A j \in 1 .. i - 1 : served'[Exports[j]] = Current,
           step = "load_reconcile" => served'[Exports[i]] = Current,
           served' = served \/ ServedInv'
    PROVE  Established' /\ History'
<1>1. /\ ExportDone /\ GoldDone /\ SilverDone /\ Landed /\ Here # "idle"
      /\ Accepted(Current) /\ raised = {}
  BY AtLoad
<1>2. Current' = Current /\ ExportDone'
  BY <1>1, ExportDoneStays
<1>3. step \in Steps /\ step \in LoadSteps /\ step \notin {"idle", "silver_read"}
  BY StepsEnumerated DEF LoadSteps
<1>4. Here' = step /\ Place' = i /\ ended' = ended
  BY <1>3, AdvanceGoes
<1>5. LoadAt'
  <2>1. ExportDone' /\ entries'[DAG] = manifest'
    BY <1>2 DEF LoadKeeps
  <2>2. step # "load_open" => LoadedTo(i)'
    BY <1>2 DEF LoadedTo
  <2>3. step = "load_reconcile" => served'[Exports[i]] = Current'
    BY <1>2
  <2> QED
    BY <1>4, <2>1, <2>2, <2>3 DEF LoadAt
<1>6. Established'
  BY <1>4, <1>5 DEF Established, BronzeAt, SilverAt, GoldAt, ExportAt, SilverSteps, LoadSteps
<1>7. StoppedSilverPublishesNothing'
  BY <1>1, <1>4, AcceptedSoFar, NotStopped
<1>8. History'
  BY <1>1, <1>3, <1>7, AdvanceHistory DEF LoadKeeps
<1> QED
  BY <1>6, <1>8

\* The last table is reconciled, or there is another one to load.
LEMMA NextLoadNight ==
    ASSUME TypeOK, PositionOK, Established, History, Here = "load_reconcile",
           LoadKeeps, served' = served, entries' = entries, NextLoad(DAG)
    PROVE  Established' /\ History'
<1>1. Here \in LoadSteps
  BY DEF LoadSteps
<1>2. PICK i \in 1 .. Len(Exports) : i = Place
  BY AtCurated
<1>3. entries[DAG] = manifest /\ LoadedTo(i) /\ served[Exports[i]] = Current
  BY <1>2 DEF Established, LoadAt
<1>4. \A j \in 1 .. i : served[Exports[j]] = Current
  <2> SUFFICES ASSUME NEW j \in 1 .. i PROVE served[Exports[j]] = Current
    OBVIOUS
  <2>1. j = i \/ j \in 1 .. i - 1
    BY <1>2
  <2> QED
    BY <1>3, <2>1 DEF LoadedTo
<1>5. /\ i < Len(Exports) => Advance(DAG, "load_replace", i + 1)
      /\ ~(i < Len(Exports)) => Finish(DAG, "load", "ok")
  BY <1>2 DEF NextLoad, Place
<1>6. CASE i < Len(Exports)
  <2>1. 1 .. (i + 1) - 1 = 1 .. i /\ i + 1 \in Nat \ {0}
    OBVIOUS
  <2> QED
    BY <1>1, <1>3, <1>4, <1>5, <1>6, <2>1, LoadGoesOn DEF LoadSteps
<1>7. CASE ~(i < Len(Exports))
  <2>1. i = Len(Exports)
    BY <1>2, <1>7, SpineAssumption
  <2>2. ASSUME NEW n \in ElementsOf(Exports) PROVE served[n] = Current
    <3>1. PICK j \in 1 .. Len(Exports) : n = Exports[j]
      BY DEF ElementsOf
    <3> QED
      BY <1>4, <2>1, <3>1
  <2>3. "load" \in Stages /\ "ok" \in Endings /\ "ok" \notin Stoppers
    BY NotOutcomes DEF Stages, Endings, Outcomes, Stoppers
  <2>4. Finish(DAG, "load", "ok")
    BY <1>5, <1>7
  <2>5. Established'
    BY <2>3, <2>4, FinishEstablished
  <2>6. History'
    BY <2>2, <2>3, <2>4, FinishHistory DEF LoadKeeps
  <2> QED
    BY <2>5, <2>6
<1> QED
  BY <1>6, <1>7

LEMMA LoadOpenNight ==
    ASSUME TypeOK, PositionOK, Established, History, LoadOpen(DAG), Hands = {}
    PROVE  Established' /\ History'
<1>1. Here = "load_open" /\ Here \in LoadSteps /\ Place \in {1, 2}
  BY DagRuns DEF LoadOpen, Here, Place, LoadSteps, PositionOK, PositionAt
<1>2. ExportDone
  BY <1>1, AtLoad
<1>3. Exported
  <2>1. Exports[1] \in ElementsOf(Exports)
    BY SpineAssumption DEF ElementsOf
  <2>2. manifest[Exports[1]] \in Nat
    BY <1>2, <2>1, CurrentIsVersion, SpineAssumption DEF ExportDone
  <2> QED
    BY <2>1, <2>2, SpineAssumption DEF Exported
<1>4. ~\E q \in Runners : Connected(q)
  BY <1>1, DagAlone DEF Connected, Here
<1>5. LoadKeeps /\ served' = served
  BY DEF LoadOpen, lakeVars, envVars, LoadKeeps
<1>6. "load_open" \in LoadSteps /\ "load_replace" \in LoadSteps
  BY DEF LoadSteps
<1>7. CASE Place = 1
  <2>1. entries' = [entries EXCEPT ![DAG] = manifest] /\ Advance(DAG, "load_open", 2)
    BY <1>3, <1>7 DEF LoadOpen, Place
  <2>2. entries'[DAG] = manifest
    BY <2>1, DagRuns DEF TypeOK
  <2> QED
    BY <1>1, <1>5, <1>6, <2>1, <2>2, LoadGoesOn
<1>8. CASE Place = 2
  <2>1. entries' = entries /\ Advance(DAG, "load_replace", 1)
    BY <1>4, <1>8 DEF LoadOpen, Place
  <2>2. entries'[DAG] = manifest
    BY <1>1, <1>8, <2>1 DEF Established, LoadAt
  <2>3. 1 .. 1 - 1 = {}
    OBVIOUS
  <2> QED
    BY <1>1, <1>5, <1>6, <2>1, <2>2, <2>3, LoadGoesOn
<1> QED
  BY <1>1, <1>7, <1>8

LEMMA LoadReplaceNight ==
    ASSUME TypeOK, PositionOK, Established, History, LoadReplace(DAG)
    PROVE  Established' /\ History'
<1>1. Here = "load_replace" /\ Here \in LoadSteps
  BY DEF LoadReplace, Here, LoadSteps
<1>2. PICK i \in 1 .. Len(Exports) : i = Place
  BY <1>1, AtCurated
<1> DEFINE n == Exports[i]
<1>3. n \in ElementsOf(Exports)
  BY <1>2, ContractNames
<1>4. ExportDone /\ Accepted(Current)
  BY <1>1, AtLoad
<1>5. entries[DAG] = manifest /\ LoadedTo(i)
  BY <1>1, <1>2 DEF Established, LoadAt
<1>6. curated[n] = Current /\ Current # None /\ manifest[n] \in Nat
  BY <1>3, <1>4, CurrentExists, CurrentIsVersion, SpineAssumption DEF ExportDone
<1>7. entries[DAG][n] # None
  BY <1>5, <1>6, SpineAssumption
<1>8. served' = [served EXCEPT ![n] = Current] /\ Advance(DAG, "load_reconcile", i)
  BY <1>2, <1>6, <1>7 DEF LoadReplace, Place
<1>9. LoadKeeps /\ entries' = entries
  BY DEF LoadReplace, envVars, LoadKeeps
<1>10. \A m \in ElementsOf(Exports) :
         served'[m] = IF m = n THEN Current ELSE served[m]
  BY <1>3, <1>8 DEF TypeOK
<1>11. ServedInv'
  BY <1>4, <1>10 DEF History, ServedInv, Accepted, RaisedBy
<1>12. ASSUME NEW j \in 1 .. i - 1 PROVE served'[Exports[j]] = Current
  <2>1. j \in 1 .. Len(Exports)
    BY <1>2
  <2>2. Exports[j] \in ElementsOf(Exports)
    BY <2>1, ContractNames
  <2> QED
    BY <1>5, <1>10, <1>12, <2>2 DEF LoadedTo
<1>13. served'[n] = Current /\ i \in Nat \ {0}
  BY <1>3, <1>10
<1> QED
  BY <1>1, <1>5, <1>8, <1>9, <1>11, <1>12, <1>13, LoadGoesOn DEF LoadSteps

LEMMA LoadReconcileNight ==
    ASSUME TypeOK, PositionOK, Established, History, LoadReconcile(DAG)
    PROVE  Established' /\ History'
<1>1. Here = "load_reconcile" /\ Here \in LoadSteps
  BY DEF LoadReconcile, Here, LoadSteps
<1>2. PICK i \in 1 .. Len(Exports) : i = Place
  BY <1>1, AtCurated
<1>3. Exports[i] \in ElementsOf(Exports)
  BY <1>2, ContractNames
<1>4. ExportDone /\ entries[DAG] = manifest /\ served[Exports[i]] = Current
  BY <1>1, <1>2, AtLoad DEF Established, LoadAt
<1>5. RowCount(Exports[i], served[Exports[i]]) = entries[DAG][Exports[i]]
  BY <1>3, <1>4 DEF ExportDone
<1>6. NextLoad(DAG)
  BY <1>2, <1>5 DEF LoadReconcile, Place
<1>7. LoadKeeps /\ served' = served /\ entries' = entries
  BY DEF LoadReconcile, lakeVars, envVars, LoadKeeps
<1> QED
  BY <1>1, <1>6, <1>7, NextLoadNight

-----------------------------------------------------------------------------
(* The environment *)

LEMMA CrashNight ==
    ASSUME TypeOK, PositionOK, Established, History, Crash(DAG)
    PROVE  Established' /\ History'
<1>1. /\ Here # "idle" /\ Finish(DAG, StageOf(Here), "crash")
      /\ source' = source /\ bronzeTxn' = bronzeTxn /\ bronzeRef' = bronzeRef
      /\ table' = table /\ curated' = curated /\ manifest' = manifest
      /\ served' = served /\ yesterday' = yesterday
  BY DEF Crash, Here, lakeVars
<1>2. PICK s \in Stages : s = StageOf(Here)
  BY <1>1, CanRetry
<1>3. Entry(s) /\ (s # "load" => Here \notin LoadSteps)
  BY <1>1, <1>2, CanRetry
<1>4. /\ Current' = Current
      /\ (BronzeDone => BronzeDone') /\ (SilverDone => SilverDone') /\ (GoldDone => GoldDone')
  BY <1>1, VersionStays, StagesStay
<1>5. ExportDone => ExportDone'
  BY <1>1, <1>4 DEF ExportDone
<1>6. Entry(s)'
  BY <1>1, <1>3, <1>4, <1>5 DEF Entry
<1>7. "crash" \in Endings /\ "crash" \notin Stoppers
  BY NotOutcomes DEF Endings, Outcomes, Stoppers
<1>8. s # "load" => served = yesterday
  BY <1>1, <1>3 DEF History, Untouched
<1>9. Finish(DAG, s, "crash")
  BY <1>1, <1>2
<1>10. Established'
  BY <1>6, <1>7, <1>9, FinishEstablished
<1>11. History'
  BY <1>1, <1>7, <1>8, <1>9, FinishHistory
<1> QED
  BY <1>10, <1>11

LEMMA StartNightNight ==
    ASSUME TypeOK, PositionOK, Established, History, StartNight
    PROVE  Established' /\ History'
<1>1. /\ pc' = [pc EXCEPT ![DAG] = "bronze_write"] /\ at' = at
      /\ source' \in Loads /\ raised' = {} /\ yesterday' = served /\ served' = served
      /\ ended' = [ended EXCEPT ![DAG] = [stage |-> "none", how |-> "none"]]
  BY FirstSteps DEF StartNight
<1>2. Here' = "bronze_write" /\ Place' = 1
  BY <1>1, DagRuns DEF StartNight, Here, Place, TypeOK, PositionOK, PositionAt
<1>3. ended'[DAG] = [stage |-> "none", how |-> "none"]
  BY <1>1, DagRuns DEF TypeOK
<1>4. Established'
  BY <1>1, <1>2 DEF Established, BronzeAt, SilverAt, GoldAt, ExportAt, LoadAt, SilverSteps,
     LoadSteps
<1>5. ServedInv' /\ Untouched' /\ RaisedInv'
  BY <1>1 DEF History, ServedInv, Untouched, RaisedInv
<1>6. "none" \notin Stoppers
  BY NotOutcomes DEF Outcomes, Stoppers
<1>7. ended'[DAG].stage = "none" /\ ended'[DAG].how = "none"
  BY <1>3
<1>8. EndedInv'
  BY <1>6, <1>7 DEF EndedInv
<1>9. SilverInvs'
  BY <1>7 DEF SilverInvs, QuarantineExplainsFailure, StoppedSilverPublishesNothing
<1> QED
  BY <1>4, <1>5, <1>8, <1>9 DEF History

LEMMA NightStutters ==
    ASSUME Established, History, UNCHANGED vars
    PROVE  Established' /\ History'
<1>1. UNCHANGED <<source, bronzeTxn, bronzeRef, table, curated, manifest, served, pc, at, read,
                  staged, entries, ended, raised, before, yesterday>>
  BY DEF vars, lakeVars, runVars, envVars
<1>2. /\ Current' = Current
      /\ (Covered => Covered') /\ (Landed => Landed') /\ (BronzeDone => BronzeDone')
  BY <1>1, VersionStays
<1>3. (SilverDone => SilverDone') /\ (GoldDone => GoldDone')
  BY <1>1, StagesStay
<1>4. (ExportDone => ExportDone') /\ (Unpublished => Unpublished')
  BY <1>1, <1>2, <1>3 DEF ExportDone, Unpublished
<1>5. Here' = Here /\ Place' = Place
  BY <1>1 DEF Here, Place
<1>6. BronzeAt'
  BY <1>1, <1>2, <1>5 DEF Established, BronzeAt, RaisedBy
<1>7. SilverAt'
  BY <1>1, <1>2, <1>4, <1>5 DEF Established, SilverAt, Audited, RaisedBy
<1>8. GoldAt'
  BY <1>1, <1>2, <1>3, <1>5 DEF Established, GoldAt, Rebuilt, Checked, RaisedBy
<1>9. ExportAt'
  BY <1>1, <1>2, <1>3, <1>5 DEF Established, ExportAt, Copied
<1>10. LoadAt'
  BY <1>1, <1>2, <1>4, <1>5 DEF Established, LoadAt, LoadedTo
<1>11. ServedInv' /\ Untouched' /\ RaisedInv'
  BY <1>1, <1>2, <1>5 DEF History, ServedInv, Untouched, RaisedInv
<1>12. EndedInv'
  BY <1>1, <1>2, <1>5 DEF History, EndedInv
<1>13. SilverInvs'
  BY <1>1 DEF History, SilverInvs, QuarantineExplainsFailure, StoppedSilverPublishesNothing
<1> QED
  BY <1>6, <1>7, <1>8, <1>9, <1>10, <1>11, <1>12, <1>13 DEF Established, History

LEMMA NightInit == Init => Established /\ History
<1> SUFFICES ASSUME Init PROVE Established /\ History
  OBVIOUS
<1>1. Here = "idle" /\ ended[DAG] = [stage |-> "none", how |-> "none"]
  BY DagRuns DEF Init, Here
<1>2. ended[DAG].stage = "none" /\ ended[DAG].how = "none"
  BY <1>1
<1>3. Established
  BY <1>1 DEF Established, BronzeAt, SilverAt, GoldAt, ExportAt, LoadAt, SilverSteps, LoadSteps
<1>4. ServedInv /\ Untouched /\ RaisedInv
  BY DEF Init, ServedInv, Untouched, RaisedInv
<1>5. "none" \notin Stoppers
  BY NotOutcomes DEF Outcomes, Stoppers
<1>6. EndedInv
  BY <1>2, <1>5 DEF EndedInv
<1>7. SilverInvs
  BY <1>2 DEF SilverInvs, QuarantineExplainsFailure, StoppedSilverPublishesNothing
<1> QED
  BY <1>3, <1>4, <1>6, <1>7 DEF History

-----------------------------------------------------------------------------
(* The theorems *)

LEMMA NightStep ==
    ASSUME Hands = {}, TypeOK, PositionOK, Established, History, [Next]_vars
    PROVE  Established' /\ History'
<1>1. CASE UNCHANGED vars
  BY <1>1, NightStutters
<1>2. CASE StartNight
  BY <1>2, StartNightNight
<1>3. CASE Step(DAG)
  BY <1>3, BronzeWriteNight, BronzeCheckNight, SilverReadNight, SilverQuarantineNight,
     SilverGateNight, StageNight, AuditNight, PublishNight, GoldReadNight, GoldWriteNight,
     GoldCheckNight, ExportClearNight, ExportWriteNight, ExportManifestNight, LoadOpenNight,
     LoadReplaceNight, LoadReconcileNight DEF Step
<1>4. CASE Crash(DAG)
  BY <1>4, CrashNight
<1> QED
  BY <1>1, <1>2, <1>3, <1>4, DagAlone DEF Next

\* While nobody runs a stage by hand, each step of the night finds established what the
\* steps before it were for, whatever crashes and retries came between (streamlake_batch.py,
\* the chain of the tasks; bronze.py, silver.py, gold.py, export.py, load.py).
THEOREM NightEstablished ==
    ASSUME Hands = {}
    PROVE  Spec => [](Established /\ History)
<1>1. TypeOK /\ PositionOK /\ Established /\ History /\ [Next]_vars => Established' /\ History'
  BY NightStep
<1> QED
  BY <1>1, NightInit, TypeCorrect, PTL DEF Spec

\* Nothing reaches the warehouse that a contract of the spine, or the reject budget, refuses,
\* although bronze and gold write before they check and a load may die half way (gold.py run,
\* load.py _load_duckdb).
THEOREM ServedAuditedAlways ==
    ASSUME Hands = {}
    PROVE  Spec => []ServedAudited
<1>1. ServedInv => ServedAudited
  BY DEF ServedInv, Accepted, RaisedBy, ServedAudited
<1> QED
  BY <1>1, NightEstablished, PTL DEF History

\* A night in which a contract or the gate raised, in any of its attempts, leaves the warehouse
\* as the night found it (streamlake_batch.py, failure semantics).
THEOREM BreachKeepsYesterdayAlways ==
    ASSUME Hands = {}
    PROVE  Spec => []BreachKeepsYesterday
<1>1. RaisedInv => BreachKeepsYesterday
  BY DEF RaisedInv, BreachKeepsYesterday
<1> QED
  BY <1>1, NightEstablished, PTL DEF History

\* The loader is never refused by the night's own export: no missing file, no mismatch, no lock
\* (export.py run, load.py _reconcile).
THEOREM ExportReconcilesAlways ==
    ASSUME Hands = {}
    PROVE  Spec => []ExportReconciles
<1>1. EndedInv => ExportReconciles
  BY DEF EndedInv, ExportReconciles
<1> QED
  BY <1>1, NightEstablished, PTL DEF History

\* A load that ends well leaves every served table derived from the one bronze snapshot of that
\* night (load.py run).
THEOREM SuccessIsCoherentAlways ==
    ASSUME Hands = {}
    PROVE  Spec => []SuccessIsCoherent
<1>1. EndedInv => SuccessIsCoherent
  BY DEF EndedInv, SuccessIsCoherent
<1> QED
  BY <1>1, NightEstablished, PTL DEF History

\* After a silver run that failed, the quarantine is that run's (silver.py, the quarantine is
\* written before the gate).
THEOREM QuarantineExplainsFailureAlways ==
    ASSUME Hands = {}
    PROVE  Spec => []QuarantineExplainsFailure
<1>1. SilverInvs => QuarantineExplainsFailure
  BY DEF SilverInvs
<1> QED
  BY <1>1, NightEstablished, PTL DEF History

\* A silver run stopped by the gate, or by the contract on transactions, published nothing
\* (silver.py run, _write_audited).
THEOREM StoppedSilverPublishesNothingAlways ==
    ASSUME Hands = {}
    PROVE  Spec => []StoppedSilverPublishesNothing
<1>1. SilverInvs => StoppedSilverPublishesNothing
  BY DEF SilverInvs
<1> QED
  BY <1>1, NightEstablished, PTL DEF History
=============================================================================
