-------------------------------- MODULE Sums --------------------------------
(***************************************************************************)
(* Sums of naturals, for the modules that add up a column or a list of     *)
(* counters.                                                               *)
(***************************************************************************)
EXTENDS Naturals, FiniteSets

\* The sum of the values of f, a function to the naturals: x stands for f[x] units.
Units(f) == UNION {{x} \X (1 .. f[x]) : x \in DOMAIN f}
SumOf(f) == Cardinality(Units(f))
=============================================================================
