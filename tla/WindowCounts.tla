----------------------------- MODULE WindowCounts -----------------------------
(***************************************************************************)
(* What the streaming arm promises of its table: at any moment it is the   *)
(* exact count, per window and category, of a set of rows of the topic.    *)
(* The set only grows, in the order of the topic, and never takes two rows *)
(* of one transaction whose event times are within the delay.  There are   *)
(* no batches, no state store, no crash and no replay here.                *)
(***************************************************************************)
EXTENDS Naturals, Sequences, FiniteSets

CONSTANTS Row, Keys, KeyOf(_), Delay

VARIABLES
    log,       \* the topic
    accepted,  \* positions of the rows the table counts
    table      \* the txns column of the rows of each window and category

CountOf(k, A) == Cardinality({i \in A : KeyOf(log[i]) = k})

TableOf(A) == [k \in Keys |-> IF CountOf(k, A) = 0 THEN <<>> ELSE <<CountOf(k, A)>>]

Spaced(A) ==
    \A i, j \in A :
        i # j /\ log[i].txn = log[j].txn /\ log[i].ts <= log[j].ts
            => log[j].ts > log[i].ts + Delay

Init ==
    /\ log = <<>>
    /\ accepted = {} /\ table = TableOf({})

Produce ==
    /\ \E r \in Row : log' = Append(log, r)
    /\ UNCHANGED <<accepted, table>>

Accept ==
    /\ \E R \in SUBSET (1 .. Len(log)) :
        /\ \A i \in R, j \in accepted : j < i
        /\ Spaced(accepted \cup R)
        /\ accepted' = accepted \cup R
    /\ table' = TableOf(accepted')
    /\ UNCHANGED log

Next == Produce \/ Accept

Spec == Init /\ [][Next]_<<log, accepted, table>>
===============================================================================
