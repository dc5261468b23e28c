---------------------------- MODULE NotebookProofs ----------------------------
(***************************************************************************)
(* Theorems about Notebook, for any files, contracts, reject budgets,      *)
(* uploads, runs and lost sessions.                                        *)
(***************************************************************************)
EXTENDS Notebook, TLAPS

-----------------------------------------------------------------------------
(* The cells, spelled out. *)

LEMMA CellList == /\ DOMAIN Cells = 1 .. 3 /\ LastCell = 3
                  /\ Cells[1] = BronzeCell /\ Cells[2] = SilverCell /\ Cells[3] = GoldCell
  BY DEF Cells, LastCell

LEMMA CellLengths == /\ Len(Cells[1]) = 5 /\ Len(Cells[2]) = 7 /\ Len(Cells[3]) = 8
                     /\ DOMAIN Cells[1] = 1 .. 5
                     /\ DOMAIN Cells[2] = 1 .. 7
                     /\ DOMAIN Cells[3] = 1 .. 8
<1>1. Len(BronzeCell) = 5 /\ DOMAIN BronzeCell = 1 .. 5
  BY DEF BronzeCell
<1>2. Len(SilverCell) = 7 /\ DOMAIN SilverCell = 1 .. 7
  BY DEF SilverCell
<1>3. Len(GoldCell) = 8 /\ DOMAIN GoldCell = 1 .. 8
  BY DEF GoldCell
<1> QED
  BY <1>1, <1>2, <1>3, CellList

LEMMA SilverSteps ==
    /\ Cells[2][1] = Write("silver.transactions")
    /\ Cells[2][2] = Write("silver.transactions_quarantine")
    /\ Cells[2][3] = Write("silver.dim_category")
    /\ Cells[2][4] = Audit("silver.transactions")
    /\ Cells[2][5] = Audit("silver.dim_category")
    /\ Cells[2][6] = Gate
    /\ Cells[2][7] = Count("silver.transactions")
  BY CellList DEF SilverCell

LEMMA BronzeSteps ==
    /\ Cells[1][1] = Write("bronze.transactions_raw")
    /\ Cells[1][2] = Write("bronze.category_ref_raw")
    /\ Cells[1][3] = Audit("bronze.transactions_raw")
    /\ Cells[1][4] = Audit("bronze.category_ref_raw")
    /\ Cells[1][5] = Count("bronze.transactions_raw")
  BY CellList DEF BronzeCell

LEMMA GoldSteps ==
    /\ Cells[3][1] = Write("gold.category_hourly_fraud")
    /\ Cells[3][2] = Write("gold.state_hourly_volume")
    /\ Cells[3][3] = Write("gold.card_velocity")
    /\ Cells[3][4] = Write("gold.merchant_risk_leaderboard")
    /\ Cells[3][5] = Write("gold.geo_distance_anomaly")
    /\ Cells[3][6] = Audit("gold.category_hourly_fraud")
    /\ Cells[3][7] = Audit("gold.state_hourly_volume")
    /\ Cells[3][8] = Count("gold.category_hourly_fraud")
  BY CellList DEF GoldCell

BronzeTables == {"bronze.transactions_raw", "bronze.category_ref_raw"}
SilverTables ==
    {"silver.transactions", "silver.transactions_quarantine", "silver.dim_category"}
GoldTables ==
    {"gold.category_hourly_fraud", "gold.state_hourly_volume", "gold.card_velocity",
     "gold.merchant_risk_leaderboard", "gold.geo_distance_anomaly"}

LEMMA CellTables == /\ TablesOf(1) = BronzeTables
                    /\ TablesOf(2) = SilverTables
                    /\ TablesOf(3) = GoldTables
<1>1. TablesOf(1) = BronzeTables
  <2>1. TablesOf(1) = {Cells[1][i].table : i \in 1 .. 5}
    BY CellLengths DEF TablesOf
  <2> QED
    BY <2>1, BronzeSteps DEF BronzeTables, Write, Audit, Count
<1>2. TablesOf(2) = SilverTables
  <2>1. TablesOf(2) = {Cells[2][i].table : i \in 1 .. 7}
    BY CellLengths DEF TablesOf
  <2> QED
    BY <2>1, SilverSteps DEF SilverTables, Write, Audit, Count, Gate
<1>3. TablesOf(3) = GoldTables
  <2>1. TablesOf(3) = {Cells[3][i].table : i \in 1 .. 8}
    BY CellLengths DEF TablesOf
  <2> QED
    BY <2>1, GoldSteps DEF GoldTables, Write, Audit, Count
<1> QED
  BY <1>1, <1>2, <1>3

LEMMA AllTables == Tables = BronzeTables \cup SilverTables \cup GoldTables
  BY CellList, CellTables DEF Tables

-----------------------------------------------------------------------------
(* Types. *)

Position ==
    /\ cell \in 0 .. 3 /\ at \in Nat
    /\ cell # 0 => at \in 1 .. Len(Cells[cell]) + 1

TypeInv ==
    /\ TypeOK
    /\ Position
    /\ uploads \in 0 .. MaxUploads
    /\ \A f \in Files : uploaded[f] <= uploads + 1

LEMMA LengthType == \A c \in 1 .. 3 : Len(Cells[c]) \in Nat \ {0}
<1> SUFFICES ASSUME NEW c \in 1 .. 3 PROVE Len(Cells[c]) \in Nat \ {0}
  OBVIOUS
<1>1. CASE c = 1
  BY <1>1, CellLengths
<1>2. CASE c = 2
  BY <1>2, CellLengths
<1>3. CASE c = 3
  BY <1>3, CellLengths
<1> QED
  BY <1>1, <1>2, <1>3

LEMMA StepTable ==
    ASSUME Position, cell # 0, at <= Len(Cells[cell])
    PROVE  /\ cell \in 1 .. 3 /\ at \in DOMAIN Cells[cell]
           /\ Step.table \in TablesOf(cell)
           /\ Step.table \in Tables
<1>1. cell \in 1 .. 3
  BY DEF Position
<1>2. at \in DOMAIN Cells[cell]
  BY <1>1, CellLengths DEF Position
<1>3. Step.table \in TablesOf(cell)
  BY <1>2 DEF TablesOf, Step
<1> QED
  BY <1>1, <1>2, <1>3, CellList DEF Tables

LEMMA ContentType ==
    ASSUME TypeOK, NEW t \in Tables
    PROVE  ContentOf(t) \in Content
<1>1. \A s \in Tables : table[s] \in Content
  BY DEF TypeOK
<1>2. /\ "bronze.transactions_raw" \in Tables /\ "bronze.category_ref_raw" \in Tables
      /\ "silver.transactions" \in Tables
  BY AllTables DEF BronzeTables, SilverTables
<1>3. \A c \in Content : c[Reference] \in 1 .. MaxUploads + 1 \cup {Nothing}
  BY NotebookAssumption DEF Content
<1>4. \A c \in Content, v \in 1 .. MaxUploads + 1 \cup {Nothing} :
        [c EXCEPT ![Reference] = v] \in Content
  BY NotebookAssumption DEF Content
<1>5. Empty \in Content /\ uploaded \in Content
  BY DEF Empty, Content, TypeOK
<1>6. [uploaded EXCEPT ![Reference] = Nothing] \in Content
  BY <1>4, <1>5
<1>7. [Empty EXCEPT ![Reference] = uploaded[Reference]] \in Content
  BY <1>3, <1>4, <1>5
<1>8. [table["bronze.transactions_raw"] EXCEPT
           ![Reference] = table["bronze.category_ref_raw"][Reference]] \in Content
  BY <1>1, <1>2, <1>3, <1>4
<1> QED
  BY <1>1, <1>2, <1>6, <1>7, <1>8 DEF ContentOf

LEMMA InitTypes == Init => TypeInv
<1> SUFFICES ASSUME Init PROVE TypeInv
  OBVIOUS
<1>1. Empty \in Content
  BY DEF Empty, Content
<1>2. TypeOK
  BY <1>1, CellList, NotebookAssumption DEF Init, TypeOK, Counted
<1>3. Position
  BY DEF Init, Position
<1> QED
  BY <1>2, <1>3, NotebookAssumption DEF Init, TypeInv

LEMMA NextTypes == TypeInv /\ [Next]_vars => TypeInv'
<1> SUFFICES ASSUME TypeInv, [Next]_vars PROVE TypeInv'
  OBVIOUS
<1> USE NotebookAssumption, CellList, LengthType
<1>1. CASE Upload
  <2>1. PICK f \in Files : uploaded' = [uploaded EXCEPT ![f] = @ + 1]
    BY <1>1 DEF Upload
  <2>2. uploads' \in 0 .. MaxUploads /\ uploads' = uploads + 1
    BY <1>1 DEF Upload, TypeInv
  <2>3. \A g \in Files : uploaded'[g] \in 1 .. MaxUploads + 1 /\ uploaded'[g] <= uploads' + 1
    BY <2>1, <2>2 DEF TypeInv, TypeOK
  <2>4. uploaded' \in [Files -> 1 .. MaxUploads + 1]
    BY <2>1, <2>3 DEF TypeInv, TypeOK
  <2> QED
    BY <1>1, <2>2, <2>3, <2>4 DEF Upload, TypeInv, TypeOK, Position, Content, Counted
<1>2. CASE RunAll
  BY <1>2 DEF RunAll, TypeInv, TypeOK, Position, Content, Counted
<1>3. CASE RunCell
  BY <1>3 DEF RunCell, TypeInv, TypeOK, Position, Content, Counted
<1>4. CASE InCell
  <2>1. /\ cell \in 1 .. 3 /\ Step.table \in Tables /\ at + 1 \in 1 .. Len(Cells[cell]) + 1
    BY <1>4, StepTable DEF InCell, TypeInv, Position
  <2>2. /\ defined' \subseteq {"definitions", "Window"}
        /\ UNCHANGED <<uploaded, printed, uploads>>
    BY <1>4 DEF InCell, TypeInv, TypeOK
  <2>3. table' \in [Tables -> Content] /\ counts' \in [DOMAIN Cells -> Counted]
    <3>1. CASE WriteTable
      BY <2>1, <3>1, ContentType DEF WriteTable, Raise, TypeInv, TypeOK
    <3>2. CASE Enforce \/ RejectGate
      BY <3>2 DEF Enforce, RejectGate, Raise, TypeInv, TypeOK
    <3>3. CASE TakeCounts
      <4>1. table[Step.table] \in Content
        BY <2>1 DEF TypeInv, TypeOK
      <4>2. [uploaded EXCEPT ![Reference] = Nothing] \in Content
        BY DEF TypeInv, TypeOK, Content
      <4> DEFINE taken == [table |-> table[Step.table],
                           files |-> IF cell = 1 THEN [uploaded EXCEPT ![Reference] = Nothing]
                                     ELSE table[Step.table]]
      <4>3. taken \in Counted
        BY <4>1, <4>2 DEF Counted
      <4>4. counts' = [counts EXCEPT ![cell] = taken] /\ table' = table
        BY <3>3 DEF TakeCounts
      <4> HIDE DEF taken
      <4> QED
        BY <4>3, <4>4 DEF TypeInv, TypeOK
    <3> QED
      BY <1>4, <3>1, <3>2, <3>3 DEF InCell
  <2>4. Position' /\ outcome' \in {Nothing, "done", "raised"}
    <3>1. CASE Raise
      BY <3>1 DEF Raise, Position
    <3>2. CASE Onward
      BY <2>1, <3>2 DEF Onward, TypeInv, TypeOK, Position
    <3> QED
      BY <1>4, <3>1, <3>2 DEF InCell, WriteTable, Enforce, RejectGate, TakeCounts
  <2> QED
    BY <2>2, <2>3, <2>4 DEF TypeInv, TypeOK, Position, Content, Counted
<1>5. CASE EndCell
  <2>1. UNCHANGED <<uploaded, table, counts, defined, uploads>>
    BY <1>5 DEF EndCell
  <2>2. /\ Position'
        /\ outcome' \in {Nothing, "done", "raised"}
        /\ printed' \in [DOMAIN Cells -> Counted] \cup {Nothing}
    <3>1. CASE runAll /\ cell < LastCell
      <4>1. cell + 1 \in 1 .. 3
        BY <1>5, <3>1 DEF EndCell, TypeInv, Position
      <4>2. 1 \in 1 .. Len(Cells[cell + 1]) + 1
        BY <4>1
      <4>3. cell' = cell + 1 /\ at' = 1 /\ UNCHANGED <<printed, outcome>>
        BY <1>5, <3>1 DEF EndCell
      <4>4. Position'
        BY <4>1, <4>2, <4>3 DEF Position
      <4> QED
        BY <4>3, <4>4 DEF TypeInv, TypeOK
    <3>2. CASE ~(runAll /\ cell < LastCell)
      BY <1>5, <3>2 DEF EndCell, TypeInv, TypeOK, Position
    <3> QED
      BY <3>1, <3>2
  <2> QED
    BY <2>1, <2>2 DEF TypeInv, TypeOK, Position, Content, Counted
<1>6. CASE PrintSummary
  BY <1>6 DEF PrintSummary, TypeInv, TypeOK, Position, Content, Counted
<1>7. CASE LoseSession
  BY <1>7 DEF LoseSession, TypeInv, TypeOK, Position, Content, Counted
<1>8. CASE UNCHANGED vars
  BY <1>8 DEF vars, TypeInv, TypeOK, Position, Content, Counted
<1> QED
  BY <1>1, <1>2, <1>3, <1>4, <1>5, <1>6, <1>7, <1>8 DEF Next

\* Every variable of the notebook keeps its type: tables hold versions of files that were
\* uploaded, and a cell that runs is at one of its statements or at its end.
THEOREM TypeCorrect == Spec => []TypeOK
<1>1. TypeInv => TypeOK
  BY DEF TypeInv
<1> QED
  BY InitTypes, NextTypes, <1>1, PTL DEF Spec

-----------------------------------------------------------------------------
(* Gold is computed from a silver that was audited. *)

BudgetKept == ~OverBudget(table["silver.transactions_quarantine"])

\* What the silver cell has audited so far, and Run all in the gold cell has behind it.  It is
\* what makes the property below inductive: the audits hold of the tables as they still are.
AuditedSoFar ==
    /\ cell = 2 /\ at > 4 => Passes("silver.transactions")
    /\ cell = 2 /\ at > 5 => Passes("silver.dim_category")
    /\ cell = 2 /\ at > 6 => BudgetKept
    /\ cell = 3 /\ runAll =>
          Passes("silver.transactions") /\ Passes("silver.dim_category") /\ BudgetKept

\* Only the statement that writes a table changes it.
LEMMA OnlyWritesChange ==
    ASSUME TypeInv, [Next]_vars, NEW t \in Tables, table'[t] # table[t]
    PROVE  /\ InCell /\ cell \in 1 .. 3 /\ t \in TablesOf(cell)
           /\ Step.op = "write" /\ Step.table = t
<1>1. InCell
  BY DEF Next, vars, Upload, RunAll, RunCell, EndCell, PrintSummary, LoseSession
<1>2. WriteTable
  BY <1>1 DEF InCell, Enforce, RejectGate, TakeCounts, Raise
<1>3. Step.op = "write" /\ Step.table = t
  BY <1>2 DEF WriteTable, Raise, TypeInv, TypeOK
<1>4. cell \in 1 .. 3 /\ Step.table \in TablesOf(cell)
  BY <1>1, StepTable DEF InCell, TypeInv
<1> QED
  BY <1>1, <1>3, <1>4

\* The gold cell leaves silver as it is.
LEMMA SilverStays ==
    ASSUME TypeInv, [Next]_vars, cell # 2, NEW t \in SilverTables
    PROVE  table'[t] = table[t]
<1>1. t \in Tables /\ t \notin BronzeTables /\ t \notin GoldTables
  BY AllTables DEF SilverTables, BronzeTables, GoldTables
<1>2. SUFFICES ASSUME table'[t] # table[t] PROVE FALSE
  OBVIOUS
<1>3. cell \in 1 .. 3 /\ t \in TablesOf(cell)
  BY <1>1, <1>2, OnlyWritesChange
<1>4. cell = 1 \/ cell = 3
  BY <1>3
<1> QED
  BY <1>1, <1>3, <1>4, CellTables

\* Past its third statement the silver cell writes nothing either.
LEMMA SilverWritesFirst ==
    ASSUME TypeInv, [Next]_vars, cell = 2, at > 3, NEW t \in SilverTables
    PROVE  table'[t] = table[t]
<1>1. SUFFICES ASSUME table'[t] # table[t] PROVE FALSE
  OBVIOUS
<1>2. t \in Tables
  BY AllTables
<1>3. InCell /\ Step.op = "write"
  BY <1>1, <1>2, OnlyWritesChange
<1>4. at = 4 \/ at = 5 \/ at = 6 \/ at = 7
  BY <1>3, CellLengths DEF InCell, TypeInv, Position
<1> QED
  BY <1>3, <1>4, SilverSteps DEF Step, Audit, Gate, Count

LEMMA NextAudited == TypeInv /\ AuditedSoFar /\ [Next]_vars => AuditedSoFar'
<1> SUFFICES ASSUME TypeInv, AuditedSoFar, [Next]_vars PROVE AuditedSoFar'
  OBVIOUS
<1> USE DEF AuditedSoFar, Passes, BudgetKept
<1>1. CASE Upload \/ PrintSummary \/ UNCHANGED vars
  BY <1>1 DEF Upload, PrintSummary, vars
<1>2. CASE RunAll \/ RunCell
  BY <1>2 DEF RunAll, RunCell
<1>3. CASE LoseSession
  BY <1>3 DEF LoseSession
<1>4. CASE InCell
  <2>1. CASE cell' = 0
    BY <2>1
  <2>2. CASE Onward /\ cell = 2
    <3>1. /\ at \in Nat /\ at' = at + 1 /\ cell' = 2
          /\ WriteTable \/ Enforce \/ RejectGate \/ TakeCounts
      BY <1>4, <2>2 DEF InCell, Onward, TypeInv, Position
    <3>2. at > 3 => /\ table'["silver.transactions"] = table["silver.transactions"]
                    /\ table'["silver.dim_category"] = table["silver.dim_category"]
                    /\ table'["silver.transactions_quarantine"]
                            = table["silver.transactions_quarantine"]
      BY <2>2, SilverWritesFirst DEF SilverTables
    <3>3. at = 4 => Passes("silver.transactions")
      BY <2>2, <3>1, SilverSteps
         DEF WriteTable, Enforce, RejectGate, TakeCounts, Raise, Step, Audit
    <3>4. at = 5 => Passes("silver.dim_category")
      BY <2>2, <3>1, SilverSteps
         DEF WriteTable, Enforce, RejectGate, TakeCounts, Raise, Step, Audit
    <3>5. at = 6 => BudgetKept
      BY <2>2, <3>1, SilverSteps
         DEF WriteTable, Enforce, RejectGate, TakeCounts, Raise, Step, Gate
    <3> QED
      BY <2>2, <3>1, <3>2, <3>3, <3>4, <3>5
  <2>3. CASE Onward /\ cell # 2
    <3>1. /\ table'["silver.transactions"] = table["silver.transactions"]
          /\ table'["silver.dim_category"] = table["silver.dim_category"]
          /\ table'["silver.transactions_quarantine"]
                  = table["silver.transactions_quarantine"]
      BY <2>3, SilverStays DEF SilverTables
    <3> QED
      BY <2>3, <3>1 DEF Onward
  <2> QED
    BY <1>4, <2>1, <2>2, <2>3
       DEF InCell, WriteTable, Enforce, RejectGate, TakeCounts, Raise
<1>5. CASE EndCell
  <2>1. table' = table
    BY <1>5 DEF EndCell
  <2>2. CASE cell' = 3
    <3>1. cell' = cell + 1 /\ cell \in Nat
      BY <1>5, <2>2 DEF EndCell, TypeInv, Position
    <3>2. cell = 2
      BY <2>2, <3>1
    <3>3. at \in Nat /\ at > 7
      BY <1>5, <3>2, CellLengths DEF EndCell, TypeInv, Position
    <3>4. at > 4 /\ at > 5 /\ at > 6
      BY <3>3
    <3> QED
      BY <2>1, <2>2, <3>2, <3>4
  <2>3. cell' = 2 => at' = 1
    BY <1>5 DEF EndCell
  <2> QED
    BY <2>2, <2>3
<1> QED
  BY <1>1, <1>2, <1>3, <1>4, <1>5 DEF Next

\* During Run all no gold table is computed from a silver that was not audited, whatever was
\* uploaded, rerun by hand or lost in between: the three checks of the silver cell stand
\* between its writes and the gold cell, and nothing writes silver after them.
THEOREM GoldFromAuditedAlways == Spec => GoldFromAudited
<1> DEFINE FromAudited ==
      \A t \in TablesOf(3) :
        runAll /\ table'[t] # table[t] =>
            /\ Passes("silver.transactions") /\ Passes("silver.dim_category")
            /\ ~OverBudget(table["silver.transactions_quarantine"])
<1>1. Init => AuditedSoFar
  BY DEF Init, AuditedSoFar
<1>2. TypeInv /\ AuditedSoFar /\ [Next]_vars => [FromAudited]_vars
  <2> SUFFICES ASSUME TypeInv, AuditedSoFar, [Next]_vars,
                      NEW t \in TablesOf(3), runAll, table'[t] # table[t]
               PROVE  /\ Passes("silver.transactions") /\ Passes("silver.dim_category")
                      /\ BudgetKept
    BY DEF BudgetKept
  <2>1. t \in Tables /\ t \in GoldTables
    BY CellTables, AllTables
  <2>2. cell \in 1 .. 3 /\ t \in TablesOf(cell)
    BY <2>1, OnlyWritesChange
  <2>3. cell = 3
    <3>1. cell = 1 \/ cell = 2 \/ cell = 3
      BY <2>2
    <3> QED
      BY <2>1, <2>2, <3>1, CellTables DEF BronzeTables, SilverTables, GoldTables
  <2> QED
    BY <2>3 DEF AuditedSoFar
<1> QED
  BY InitTypes, NextTypes, NextAudited, <1>1, <1>2, PTL DEF Spec, GoldFromAudited

-----------------------------------------------------------------------------
(* What Run all leaves behind. *)

\* What a table holds when it was computed from the files as they are.
Final(t) ==
    CASE t \in {"bronze.transactions_raw", "silver.transactions_quarantine"} ->
              [uploaded EXCEPT ![Reference] = Nothing]
      [] t \in {"bronze.category_ref_raw", "silver.dim_category"} ->
              [Empty EXCEPT ![Reference] = uploaded[Reference]]
      [] OTHER -> uploaded

\* What step i of cell c leaves behind.
Done(c, i) ==
    LET s == Cells[c][i] IN
    /\ s.op = "write"   => table[s.table] = Final(s.table)
    /\ s.op = "enforce" => ~BreaksContract(s.table, Final(s.table))
    /\ s.op = "gate"    => ~OverBudget(Final(s.table))
    /\ s.op = "count"   => counts[c] = [table |-> Final(s.table), files |-> Final(s.table)]

Behind(c, i) == c < cell \/ (c = cell /\ i < at)

\* Every step Run all has behind it has left that, as long as no file changed.
Progress ==
    runAll /\ ~disturbed =>
        \A c \in 1 .. 3 : \A i \in DOMAIN Cells[c] : Behind(c, i) => Done(c, i)

\* The strengthening of RunAllCoherent; a run that is over stays coherent because nothing
\* runs without ending its outcome.
CoherentInv ==
    /\ Progress
    /\ cell # 0 => outcome = Nothing
    /\ runAll => cell # 0
    /\ RunAllCoherent

LEMMA StepShapes ==
    ASSUME NEW c \in 1 .. 3, NEW i \in DOMAIN Cells[c]
    PROVE  LET s == Cells[c][i] IN
           /\ s.op \in {"write", "enforce", "gate", "count"}
           /\ s.table \in TablesOf(c) /\ s.table \in Tables
           /\ s.op = "gate" => s.table = "silver.transactions_quarantine"
           /\ s.op = "count" <=> i = Len(Cells[c])
           /\ s.op # "write" => \E j \in DOMAIN Cells[c] : j < i /\ Cells[c][j] = Write(s.table)
<1>1. Cells[c][i].table \in TablesOf(c) /\ Cells[c][i].table \in Tables
  BY CellList DEF TablesOf, Tables
<1>2. CASE c = 1
  <2>1. i \in {1, 2, 3, 4, 5}
    BY <1>2, CellLengths
  <2>2. /\ i \in {1, 2} => Cells[1][i].op = "write"
        /\ i \in {3, 4} => Cells[1][i].op = "enforce"
        /\ i = 5 => Cells[1][i].op = "count"
    BY BronzeSteps DEF Write, Audit, Count
  <2>3. /\ i = 3 => Cells[1][1] = Write(Cells[1][i].table)
        /\ i = 4 => Cells[1][2] = Write(Cells[1][i].table)
        /\ i = 5 => Cells[1][1] = Write(Cells[1][i].table)
    BY BronzeSteps DEF Write, Audit, Count
  <2>4. i \notin {1, 2} => \E j \in 1 .. 5 : j < i /\ Cells[1][j] = Write(Cells[1][i].table)
    BY <2>1, <2>3
  <2> QED
    BY <1>1, <1>2, <2>1, <2>2, <2>4, CellLengths
<1>3. CASE c = 2
  <2>1. i \in {1, 2, 3, 4, 5, 6, 7}
    BY <1>3, CellLengths
  <2>2. /\ i \in {1, 2, 3} => Cells[2][i].op = "write"
        /\ i \in {4, 5} => Cells[2][i].op = "enforce"
        /\ i = 6 => Cells[2][i].op = "gate"
                    /\ Cells[2][i].table = "silver.transactions_quarantine"
        /\ i = 7 => Cells[2][i].op = "count"
    BY SilverSteps DEF Write, Audit, Count, Gate
  <2>3. /\ i = 4 => Cells[2][1] = Write(Cells[2][i].table)
        /\ i = 5 => Cells[2][3] = Write(Cells[2][i].table)
        /\ i = 6 => Cells[2][2] = Write(Cells[2][i].table)
        /\ i = 7 => Cells[2][1] = Write(Cells[2][i].table)
    BY SilverSteps DEF Write, Audit, Count, Gate
  <2>4. i \notin {1, 2, 3} => \E j \in 1 .. 7 : j < i /\ Cells[2][j] = Write(Cells[2][i].table)
    BY <2>1, <2>3
  <2> QED
    BY <1>1, <1>3, <2>1, <2>2, <2>4, CellLengths
<1>4. CASE c = 3
  <2>1. i \in {1, 2, 3, 4, 5, 6, 7, 8}
    BY <1>4, CellLengths
  <2>2. /\ i \in {1, 2, 3, 4, 5} => Cells[3][i].op = "write"
        /\ i \in {6, 7} => Cells[3][i].op = "enforce"
        /\ i = 8 => Cells[3][i].op = "count"
    BY GoldSteps DEF Write, Audit, Count
  <2>3. /\ i = 6 => Cells[3][1] = Write(Cells[3][i].table)
        /\ i = 7 => Cells[3][2] = Write(Cells[3][i].table)
        /\ i = 8 => Cells[3][1] = Write(Cells[3][i].table)
    BY GoldSteps DEF Write, Audit, Count
  <2>4. i \notin {1, 2, 3, 4, 5} =>
          \E j \in 1 .. 8 : j < i /\ Cells[3][j] = Write(Cells[3][i].table)
    BY <2>1, <2>3
  <2> QED
    BY <1>1, <1>4, <2>1, <2>2, <2>4, CellLengths
<1> QED
  BY <1>2, <1>3, <1>4

\* A write computes what is final from tables that are.
LEMMA WritesFinal ==
    ASSUME TypeOK, NEW c \in 1 .. 3, NEW t \in TablesOf(c),
           c > 1 => \A s \in BronzeTables : table[s] = Final(s),
           c > 2 => table["silver.transactions"] = Final("silver.transactions")
    PROVE  ContentOf(t) = Final(t)
<1>1. uploaded \in [Files -> 1 .. MaxUploads + 1] /\ Reference \in Files
  BY NotebookAssumption DEF TypeOK
<1>2. CASE c = 1
  BY <1>2, CellTables DEF ContentOf, Final, BronzeTables
<1>3. CASE c = 2
  <2>1. /\ table["bronze.transactions_raw"] = [uploaded EXCEPT ![Reference] = Nothing]
        /\ table["bronze.category_ref_raw"]
             = [Empty EXCEPT ![Reference] = uploaded[Reference]]
    BY <1>3 DEF BronzeTables, Final
  <2>2. t \in SilverTables
    BY <1>3, CellTables
  <2>3. CASE t = "silver.transactions"
    <3>1. [Empty EXCEPT ![Reference] = uploaded[Reference]][Reference] = uploaded[Reference]
      BY <1>1 DEF Empty
    <3>2. [[uploaded EXCEPT ![Reference] = Nothing]
              EXCEPT ![Reference] = uploaded[Reference]] = uploaded
      BY <1>1
    <3> QED
      BY <2>1, <2>3, <3>1, <3>2 DEF ContentOf, Final
  <2>4. CASE t # "silver.transactions"
    BY <2>1, <2>2, <2>4 DEF ContentOf, Final, SilverTables
  <2> QED
    BY <2>3, <2>4
<1>4. CASE c = 3
  <2>1. t \in GoldTables /\ table["silver.transactions"] = uploaded
    BY <1>4, CellTables DEF Final
  <2> QED
    BY <2>1 DEF ContentOf, Final, GoldTables
<1> QED
  BY <1>2, <1>3, <1>4

\* While Run all is in a cell, what it reads of the cells before is final.
LEMMA ReadsFinal ==
    ASSUME TypeInv, Progress, runAll, ~disturbed, cell \in 1 .. 3
    PROVE  /\ cell > 1 => \A s \in BronzeTables : table[s] = Final(s)
           /\ cell > 2 => table["silver.transactions"] = Final("silver.transactions")
<1>1. ASSUME cell > 1
      PROVE  \A s \in BronzeTables : table[s] = Final(s)
  <2>1. Done(1, 1) /\ Done(1, 2)
    BY <1>1, CellLengths DEF Progress, Behind
  <2> QED
    BY <2>1, BronzeSteps DEF Done, Write, BronzeTables
<1>2. ASSUME cell > 2
      PROVE  table["silver.transactions"] = Final("silver.transactions")
  <2>1. Done(2, 1)
    BY <1>2, CellLengths DEF Progress, Behind
  <2> QED
    BY <2>1, SilverSteps DEF Done, Write
<1> QED
  BY <1>1, <1>2

\* A statement of Run all that does not raise leaves behind what it should, and undoes none of
\* what is behind it.
LEMMA StatementDone ==
    ASSUME TypeInv, Progress, runAll, ~disturbed, InCell, Onward
    PROVE  Progress'
<1>1. PICK c \in 1 .. 3 : c = cell
  BY StepTable DEF InCell, TypeInv
<1>2. PICK i \in DOMAIN Cells[c] : i = at
  BY <1>1, StepTable DEF InCell, TypeInv
<1> DEFINE t == Cells[c][i].table
           op == Cells[c][i].op
<1>3. /\ t \in TablesOf(c) /\ t \in Tables /\ op \in {"write", "enforce", "gate", "count"}
      /\ op = "gate" => t = "silver.transactions_quarantine"
      /\ op = "count" <=> i = Len(Cells[c])
      /\ op # "write" => \E j \in DOMAIN Cells[c] : j < i /\ Cells[c][j] = Write(t)
  BY StepShapes
<1>4. Step.table = t /\ Step.op = op
  BY <1>1, <1>2 DEF Step
<1>5. /\ cell' = cell /\ at' = at + 1 /\ at \in Nat /\ i \in Nat
      /\ UNCHANGED <<uploaded, runAll, disturbed>>
  BY <1>2 DEF InCell, Onward, TypeInv, Position
<1>6. WriteTable \/ Enforce \/ RejectGate \/ TakeCounts
  BY DEF InCell
<1>7. \A u : Final(u)' = Final(u)
  BY <1>5 DEF Final
<1>8. ContentOf(t) = Final(t)
  BY <1>1, <1>3, ReadsFinal, WritesFinal DEF TypeInv
<1>9. op # "write" => table[t] = Final(t)
  <2> SUFFICES ASSUME op # "write"
               PROVE  table[t] = Final(t)
    OBVIOUS
  <2>1. PICK j \in DOMAIN Cells[c] : j < i /\ Cells[c][j] = Write(t)
    BY <1>3
  <2>2. Done(c, j)
    BY <1>1, <1>2, <2>1 DEF Progress, Behind
  <2> QED
    BY <2>1, <2>2 DEF Done, Write
<1>10. op = "count" /\ c = 1 => [uploaded EXCEPT ![Reference] = Nothing] = Final(t)
  <2>1. op = "count" /\ c = 1 => t = "bronze.transactions_raw"
    BY <1>3, CellLengths, BronzeSteps DEF Count
  <2> QED
    BY <2>1 DEF Final
<1> HIDE DEF t, op
<1>11. /\ op = "write"   => table' = [table EXCEPT ![t] = Final(t)]
       /\ op # "write"   => table' = table
       /\ op = "enforce" => ~BreaksContract(t, Final(t))
       /\ op = "gate"    => ~OverBudget(Final(t))
       /\ op # "count"   => counts' = counts
       /\ op = "count"   => counts' = [counts EXCEPT ![c] =
                                         [table |-> Final(t), files |-> Final(t)]]
  <2>1. CASE WriteTable
    BY <1>4, <1>5, <1>8, <2>1 DEF WriteTable, Raise, Onward
  <2>2. CASE Enforce
    BY <1>4, <1>5, <1>9, <2>2 DEF Enforce, Raise, Onward
  <2>3. CASE RejectGate
    BY <1>3, <1>4, <1>5, <1>9, <2>3 DEF RejectGate, Raise, Onward
  <2>4. CASE TakeCounts
    BY <1>1, <1>4, <1>9, <1>10, <2>4 DEF TakeCounts
  <2> QED
    BY <1>6, <2>1, <2>2, <2>3, <2>4
<1>12. /\ op = "write" => table'[t] = Final(t)
       /\ op = "count" => counts'[c] = [table |-> Final(t), files |-> Final(t)]
  BY <1>3, <1>11, CellList DEF TypeInv, TypeOK
<1>13. Done(c, i)'
  BY <1>7, <1>11, <1>12 DEF Done, t, op
<1>14. ASSUME NEW d \in 1 .. 3, NEW j \in DOMAIN Cells[d], Done(d, j), Behind(d, j)
       PROVE  Done(d, j)'
  <2> DEFINE s == Cells[d][j]
  <2>1. s.table \in Tables /\ (s.op = "count" <=> j = Len(Cells[d]))
    BY StepShapes
  <2>2. table'[s.table] = table[s.table] \/ (s.table = t /\ table'[t] = Final(t))
    BY <1>3, <1>11, <2>1 DEF TypeInv, TypeOK
  <2>3. s.op = "write" => table'[s.table] = Final(s.table)
    BY <1>14, <2>2 DEF Done
  <2>4. s.op = "count" => counts'[d] = [table |-> Final(s.table), files |-> Final(s.table)]
    <3>1. CASE d = c /\ op = "count" /\ s.op = "count"
      <4>1. i = j
        BY <1>3, <2>1, <3>1 DEF op
      <4> QED
        BY <1>12, <3>1, <4>1 DEF t
    <3>2. CASE ~(d = c /\ op = "count")
      <4>1. counts'[d] = counts[d]
        BY <1>11, <3>2, CellList DEF TypeInv, TypeOK
      <4> QED
        BY <1>14, <4>1 DEF Done
    <3> QED
      BY <3>1, <3>2
  <2>5. /\ s.op = "enforce" => ~BreaksContract(s.table, Final(s.table))
        /\ s.op = "gate"    => ~OverBudget(Final(s.table))
    BY <1>14 DEF Done
  <2> QED
    BY <1>7, <2>3, <2>4, <2>5 DEF Done
<1>15. \A d \in 1 .. 3 : \A j \in DOMAIN Cells[d] :
         Behind(d, j)' => Behind(d, j) \/ (d = c /\ j = i)
  <2> SUFFICES ASSUME NEW d \in 1 .. 3, NEW j \in DOMAIN Cells[d], Behind(d, j)'
               PROVE  Behind(d, j) \/ (d = c /\ j = i)
    OBVIOUS
  <2>1. j \in Nat
    <3>1. d = 1 \/ d = 2 \/ d = 3
      OBVIOUS
    <3> QED
      BY <3>1, CellLengths
  <2> QED
    BY <1>1, <1>2, <1>5, <2>1 DEF Behind
<1>16. \A d \in 1 .. 3 : \A j \in DOMAIN Cells[d] : Behind(d, j) => Done(d, j)
  BY DEF Progress
<1> QED
  BY <1>13, <1>14, <1>15, <1>16 DEF Progress

\* When every step of every cell is behind it, Run all has left what it promises.
LEMMA AllDone ==
    ASSUME TypeInv, \A c \in 1 .. 3 : \A i \in DOMAIN Cells[c] : Done(c, i)
    PROVE  /\ \A t \in TablesOf(3) \cup {"silver.transactions"} : table[t] = uploaded
           /\ \A c \in DOMAIN Cells : counts[c].table = counts[c].files
           /\ counts[2].table = uploaded /\ counts[3].table = uploaded
           /\ \A t \in UnderContract : Passes(t)
           /\ BudgetKept
<1>1. ASSUME NEW c \in 1 .. 3, NEW i \in DOMAIN Cells[c]
      PROVE  /\ \A t : Cells[c][i] = Write(t) => table[t] = Final(t)
             /\ \A t : Cells[c][i] = Audit(t) => ~BreaksContract(t, Final(t))
             /\ \A t : Cells[c][i] = Count(t) =>
                         counts[c] = [table |-> Final(t), files |-> Final(t)]
             /\ Cells[c][i] = Gate => ~OverBudget(Final("silver.transactions_quarantine"))
  <2>1. Done(c, i)
    OBVIOUS
  <2> QED
    BY <2>1 DEF Done, Write, Audit, Count, Gate
<1>2. \A t \in Tables : table[t] = Final(t)
  <2>1. \A t \in BronzeTables : table[t] = Final(t)
    BY <1>1, CellLengths, BronzeSteps DEF BronzeTables
  <2>2. \A t \in SilverTables : table[t] = Final(t)
    BY <1>1, CellLengths, SilverSteps DEF SilverTables
  <2>3. \A t \in GoldTables : table[t] = Final(t)
    BY <1>1, CellLengths, GoldSteps DEF GoldTables
  <2> QED
    BY <2>1, <2>2, <2>3, AllTables
<1>3. \A t \in GoldTables \cup {"silver.transactions"} : table[t] = uploaded
  <2>1. \A t \in GoldTables \cup {"silver.transactions"} : Final(t) = uploaded
    BY DEF GoldTables, Final
  <2> QED
    BY <1>2, <2>1, AllTables DEF SilverTables
<1>4. \A t \in UnderContract : ~BreaksContract(t, Final(t))
  <2>1. /\ ~BreaksContract("bronze.transactions_raw", Final("bronze.transactions_raw"))
        /\ ~BreaksContract("bronze.category_ref_raw", Final("bronze.category_ref_raw"))
    BY <1>1, CellLengths, BronzeSteps
  <2>2. /\ ~BreaksContract("silver.transactions", Final("silver.transactions"))
        /\ ~BreaksContract("silver.dim_category", Final("silver.dim_category"))
    BY <1>1, CellLengths, SilverSteps
  <2>3. /\ ~BreaksContract("gold.category_hourly_fraud", Final("gold.category_hourly_fraud"))
        /\ ~BreaksContract("gold.state_hourly_volume", Final("gold.state_hourly_volume"))
    BY <1>1, CellLengths, GoldSteps
  <2> QED
    BY <2>1, <2>2, <2>3 DEF UnderContract
<1>5. UnderContract \subseteq Tables
  BY AllTables DEF UnderContract, BronzeTables, SilverTables, GoldTables
<1>6. BudgetKept
  <2>1. ~OverBudget(Final("silver.transactions_quarantine"))
    BY <1>1, CellLengths, SilverSteps
  <2> QED
    BY <1>2, <2>1, AllTables DEF BudgetKept, SilverTables
<1>7. /\ counts[1].table = counts[1].files
      /\ counts[2].table = counts[2].files /\ counts[2].table = Final("silver.transactions")
      /\ counts[3].table = counts[3].files
      /\ counts[3].table = Final("gold.category_hourly_fraud")
  <2>1. \A c \in 1 .. 3 : \A i \in DOMAIN Cells[c] : \A t :
          Cells[c][i] = Count(t) => counts[c].table = Final(t) /\ counts[c].files = Final(t)
    <3> SUFFICES ASSUME NEW c \in 1 .. 3, NEW i \in DOMAIN Cells[c], NEW t,
                        Cells[c][i] = Count(t)
                 PROVE  counts[c].table = Final(t) /\ counts[c].files = Final(t)
      OBVIOUS
    <3>1. counts[c] = [table |-> Final(t), files |-> Final(t)]
      BY <1>1
    <3> QED
      BY <3>1
  <2>2. /\ counts[1].table = Final("bronze.transactions_raw")
        /\ counts[1].files = Final("bronze.transactions_raw")
    <3>1. 1 \in 1 .. 3 /\ 5 \in DOMAIN Cells[1] /\ Cells[1][5] = Count("bronze.transactions_raw")
      BY CellLengths, BronzeSteps
    <3> QED
      BY <2>1, <3>1
  <2>3. /\ counts[2].table = Final("silver.transactions")
        /\ counts[2].files = Final("silver.transactions")
    <3>1. 2 \in 1 .. 3 /\ 7 \in DOMAIN Cells[2] /\ Cells[2][7] = Count("silver.transactions")
      BY CellLengths, SilverSteps
    <3> QED
      BY <2>1, <3>1
  <2>4. /\ counts[3].table = Final("gold.category_hourly_fraud")
        /\ counts[3].files = Final("gold.category_hourly_fraud")
    <3>1. 3 \in 1 .. 3 /\ 8 \in DOMAIN Cells[3] /\ Cells[3][8] = Count("gold.category_hourly_fraud")
      BY CellLengths, GoldSteps
    <3> QED
      BY <2>1, <3>1
  <2> QED
    BY <2>2, <2>3, <2>4
<1>8. counts[2].table = uploaded /\ counts[3].table = uploaded
  BY <1>7 DEF Final
<1>9. \A c \in DOMAIN Cells : counts[c].table = counts[c].files
  <2>1. DOMAIN Cells = {1, 2, 3}
    BY CellList
  <2> QED
    BY <1>7, <2>1
<1>10. \A t \in UnderContract : Passes(t)
  BY <1>2, <1>4, <1>5 DEF Passes
<1> QED
  BY <1>3, <1>6, <1>8, <1>9, <1>10, CellTables

LEMMA EndCellCoherent ==
    ASSUME TypeInv, CoherentInv, EndCell
    PROVE  CoherentInv'
<1>1. /\ cell \in 1 .. 3 /\ at \in Nat /\ at > Len(Cells[cell]) /\ outcome = Nothing
      /\ UNCHANGED <<uploaded, table, counts, disturbed>>
  BY DEF EndCell, TypeInv, Position, CoherentInv
<1>2. \A i \in DOMAIN Cells[cell] : i < at
  <2>1. cell = 1 \/ cell = 2 \/ cell = 3
    BY <1>1
  <2> QED
    BY <1>1, <2>1, CellLengths
<1>3. CASE runAll /\ cell < LastCell
  <2>1. cell' = cell + 1 /\ at' = 1 /\ UNCHANGED <<runAll, printed, outcome>>
    BY <1>3 DEF EndCell
  <2>2. \A c \in 1 .. 3 : \A i \in DOMAIN Cells[c] : Behind(c, i)' => Behind(c, i)
    <3> SUFFICES ASSUME NEW c \in 1 .. 3, NEW i \in DOMAIN Cells[c], Behind(c, i)'
                 PROVE  Behind(c, i)
      OBVIOUS
    <3>1. i \in Nat /\ i >= 1
      <4>1. c = 1 \/ c = 2 \/ c = 3
        OBVIOUS
      <4> QED
        BY <4>1, CellLengths
    <3>2. c < cell + 1
      BY <1>1, <2>1, <3>1 DEF Behind
    <3> QED
      BY <1>1, <1>2, <3>2 DEF Behind
  <2>3. \A c \in 1 .. 3 : \A i \in DOMAIN Cells[c] : Done(c, i) => Done(c, i)'
    BY <1>1 DEF Done, Final
  <2>4. Progress'
    BY <1>1, <2>1, <2>2, <2>3 DEF CoherentInv, Progress
  <2>5. cell' # 0 /\ outcome' = Nothing /\ outcome' # "done"
    BY <1>1, <2>1, NotebookAssumption
  <2> QED
    BY <2>4, <2>5 DEF CoherentInv, RunAllCoherent
<1>4. CASE ~(runAll /\ cell < LastCell)
  <2>1. cell' = 0 /\ at' = 0 /\ runAll' = FALSE
    BY <1>4 DEF EndCell
  <2>2. ASSUME outcome' = "done", ~disturbed'
        PROVE  RunAllCoherent'
    <3>1. runAll /\ printed' = counts
      BY <1>1, <1>4, <2>2, NotebookAssumption DEF EndCell
    <3>2. cell = 3
      BY <1>1, <1>4, <3>1, CellList
    <3>3. \A c \in 1 .. 3 : \A i \in DOMAIN Cells[c] : Behind(c, i)
      BY <1>2, <3>2 DEF Behind
    <3>4. \A c \in 1 .. 3 : \A i \in DOMAIN Cells[c] : Done(c, i)
      BY <1>1, <2>2, <3>1, <3>3 DEF CoherentInv, Progress
    <3>5. /\ \A t \in TablesOf(3) \cup {"silver.transactions"} : table[t] = uploaded
          /\ \A c \in DOMAIN Cells : counts[c].table = counts[c].files
          /\ counts[2].table = uploaded /\ counts[3].table = uploaded
          /\ \A t \in UnderContract : Passes(t)
          /\ BudgetKept
      BY <3>4, AllDone
    <3> QED
      BY <1>1, <3>1, <3>5 DEF RunAllCoherent, BudgetKept, Passes
  <2>3. RunAllCoherent'
    BY <2>2 DEF RunAllCoherent
  <2> QED
    BY <2>1, <2>3 DEF CoherentInv, Progress
<1> QED
  BY <1>3, <1>4

LEMMA NextCoherent == TypeInv /\ CoherentInv /\ [Next]_vars => CoherentInv'
<1> SUFFICES ASSUME TypeInv, CoherentInv, [Next]_vars PROVE CoherentInv'
  OBVIOUS
<1>0. Nothing # "done"
  BY NotebookAssumption
<1>1. CASE Upload
  BY <1>1 DEF Upload, CoherentInv, Progress, RunAllCoherent
<1>2. CASE RunAll
  <2>1. /\ cell' = 1 /\ at' = 1 /\ runAll' = TRUE /\ outcome' = Nothing
    BY <1>2 DEF RunAll
  <2>2. \A c \in 1 .. 3 : \A i \in DOMAIN Cells[c] : ~Behind(c, i)'
    <3> SUFFICES ASSUME NEW c \in 1 .. 3, NEW i \in DOMAIN Cells[c]
                 PROVE  ~Behind(c, i)'
      OBVIOUS
    <3>1. i \in Nat \ {0}
      <4>1. c = 1 \/ c = 2 \/ c = 3
        OBVIOUS
      <4> QED
        BY <4>1, CellLengths
    <3> QED
      BY <2>1, <3>1 DEF Behind
  <2> QED
    BY <1>0, <2>1, <2>2 DEF CoherentInv, Progress, RunAllCoherent
<1>3. CASE RunCell
  BY <1>0, <1>3 DEF RunCell, CoherentInv, Progress, RunAllCoherent
<1>4. CASE InCell
  <2>1. cell # 0 /\ outcome = Nothing /\ UNCHANGED <<uploaded, disturbed>>
    BY <1>4 DEF InCell, CoherentInv
  <2>2. CASE Onward
    <3>1. cell' = cell /\ runAll' = runAll /\ outcome' = Nothing
      BY <2>1, <2>2 DEF Onward
    <3>2. runAll /\ ~disturbed => Progress'
      BY <1>4, <2>2, StatementDone DEF CoherentInv
    <3>3. Progress'
      BY <2>1, <3>1, <3>2 DEF Progress
    <3> QED
      BY <1>0, <2>1, <3>1, <3>3 DEF CoherentInv, RunAllCoherent
  <2>3. CASE Raise
    BY <2>3 DEF Raise, CoherentInv, Progress, RunAllCoherent
  <2> QED
    BY <1>4, <2>2, <2>3 DEF InCell, WriteTable, Enforce, RejectGate, TakeCounts
<1>5. CASE EndCell
  BY <1>5, EndCellCoherent
<1>6. CASE PrintSummary
  BY <1>0, <1>6 DEF PrintSummary, CoherentInv, Progress, RunAllCoherent
<1>7. CASE LoseSession
  <2>1. cell' = 0 /\ runAll' = FALSE /\ UNCHANGED <<uploaded, table, printed, disturbed>>
    BY <1>7 DEF LoseSession
  <2>2. outcome' = "done" => outcome = "done"
    BY <1>7 DEF LoseSession
  <2>3. RunAllCoherent'
    BY <2>1, <2>2 DEF CoherentInv, RunAllCoherent, Passes
  <2> QED
    BY <2>1, <2>3 DEF CoherentInv, Progress
<1>8. CASE UNCHANGED vars
  <2>1. UNCHANGED <<uploaded, table, counts, cell, at, runAll, printed, outcome, disturbed>>
    BY <1>8 DEF vars
  <2>2. Progress'
    <3>1. \A c \in 1 .. 3 : \A i \in DOMAIN Cells[c] :
            /\ Behind(c, i)' <=> Behind(c, i)
            /\ Done(c, i) => Done(c, i)'
      BY <2>1 DEF Behind, Done, Final
    <3> QED
      BY <2>1, <3>1 DEF CoherentInv, Progress
  <2>3. RunAllCoherent'
    BY <2>1 DEF CoherentInv, RunAllCoherent, Passes
  <2>4. (cell # 0 => outcome = Nothing)' /\ (runAll => cell # 0)'
    BY <2>1 DEF CoherentInv
  <2> QED
    BY <2>2, <2>3, <2>4 DEF CoherentInv
<1> QED
  BY <1>1, <1>2, <1>3, <1>4, <1>5, <1>6, <1>7, <1>8 DEF Next

\* After a Run all that came to its end, with no upload since it began, every table is of the
\* files as they are, every contract and the reject budget hold, and the summary's numbers are
\* those of the tables: each statement overwrites what it writes with what the files and the
\* statements before it determine, so nothing of an earlier run, by hand or lost half way, is
\* left.
THEOREM RunAllCoherentAlways == Spec => []RunAllCoherent
<1>1. Init => CoherentInv
  BY NotebookAssumption DEF Init, CoherentInv, Progress, RunAllCoherent
<1>2. CoherentInv => RunAllCoherent
  BY DEF CoherentInv
<1> QED
  BY <1>1, <1>2, InitTypes, NextTypes, NextCoherent, PTL DEF Spec
=============================================================================
