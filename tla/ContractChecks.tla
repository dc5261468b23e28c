---------------------------- MODULE ContractChecks ----------------------------
(***************************************************************************)
(* The contract engine on a table: what each type of check computes from   *)
(* its aggregates, and what the engine makes of the results.               *)
(*                                                                         *)
(* A table is [cols, rows]: its column names, and its rows as functions of *)
(* the columns.  Rows carry enough lineage to be distinct.  Columns have   *)
(* the declared types.                                                     *)
(***************************************************************************)
EXTENDS Integers, FiniteSets, Sequences

CONSTANTS
    Null,       \* SQL NULL, and a parameter a check does not have
    Eval(_, _)  \* the value of a SQL condition on a row: TRUE, FALSE or Null

Total(T) == Cardinality(T.rows)

NullsIn(T, c) == Cardinality({r \in T.rows : r[c] = Null})

-----------------------------------------------------------------------------
(* The checks.  An aggregate over no rows is NULL and counts as zero, so only *)
(* row_count and freshness fail on an empty table.                            *)

SchemaPasses(k, T) ==
    /\ k.columns \subseteq T.cols
    /\ k.strict => T.cols \subseteq k.columns

\* Mutant: the columns' conditions joined with AND.
NotAllNull(k, T) == \A r \in T.rows : \E c \in k.columns : r[c] # Null

NotNullPasses(k, T) == \A c \in k.columns : NullsIn(T, c) = 0

\* Distinct structs: a NULL equals a NULL.
UniquePasses(k, T) ==
    Total(T) = Cardinality({[c \in k.columns |-> r[c]] : r \in T.rows})

RowCountPasses(k, T) ==
    /\ k.min # Null => Total(T) >= k.min
    /\ k.max # Null => Total(T) <= k.max

\* A NULL is the not_null check's business.
OutOfRange(k, r) ==
    /\ r[k.column] # Null
    /\ \/ k.min # Null /\ r[k.column] < k.min
       \/ k.max # Null /\ r[k.column] > k.max

RangePasses(k, T) == \A r \in T.rows : ~OutOfRange(k, r)

ValuesPasses(k, T) == \A r \in T.rows : r[k.column] \in k.values \cup {Null}

\* max is a percentage.
NullRatePasses(k, T) ==
    100 * NullsIn(T, k.column) <= k.max * (IF Total(T) = 0 THEN 1 ELSE Total(T))

\* A row that cannot prove it passes has failed.
Proven(k, r) == Eval(k.expr, r) = TRUE

ExpressionPasses(k, T) == \A r \in T.rows : Proven(k, r)

\* Some timestamp is at most max_age older than the logical run time.
FreshnessPasses(k, T, as_of) ==
    \E r \in T.rows : r[k.column] # Null /\ as_of - r[k.column] <= k.max_age

-----------------------------------------------------------------------------
(* The engine. *)

ColumnsOf(k) ==
    IF k.type \in {"not_null", "unique"} THEN k.columns
    ELSE IF k.type \in {"schema", "row_count", "expression"} THEN {}
    ELSE {k.column}

\* compile_check and evaluate: a check whose column does not exist fails.
Passes(k, T, as_of) ==
    /\ ColumnsOf(k) \subseteq T.cols
    /\ \/ k.type = "schema"          /\ SchemaPasses(k, T)
       \/ k.type = "not_null"        /\ NotNullPasses(k, T)
       \/ k.type = "unique"          /\ UniquePasses(k, T)
       \/ k.type = "row_count"       /\ RowCountPasses(k, T)
       \/ k.type = "accepted_range"  /\ RangePasses(k, T)
       \/ k.type = "accepted_values" /\ ValuesPasses(k, T)
       \/ k.type = "null_rate"       /\ NullRatePasses(k, T)
       \/ k.type = "expression"      /\ ExpressionPasses(k, T)
       \/ k.type = "freshness"       /\ FreshnessPasses(k, T, as_of)

\* A contract's checks, the ones its schema block declares first.
AllChecks(contract) ==
    <<[type |-> "schema", severity |-> "error",
       columns |-> contract.columns, strict |-> contract.strict],
      [type |-> "not_null", severity |-> "error", columns |-> contract.required]>>
    \o contract.checks

Failed(contract, T, as_of, severity) ==
    {i \in DOMAIN AllChecks(contract) :
        /\ AllChecks(contract)[i].severity = severity
        /\ ~Passes(AllChecks(contract)[i], T, as_of)}

Status(contract, T, as_of) ==
    IF Failed(contract, T, as_of, "error") # {} THEN "FAILED"
    ELSE IF Failed(contract, T, as_of, "warn") # {} THEN "PASSED_WITH_WARNINGS"
    ELSE "PASSED"

\* validate() raises: on_violation is "fail" (conf/streamlake.yml).
Raises(contract, T, as_of) == Failed(contract, T, as_of, "error") # {}
=============================================================================
