------------------------------ MODULE MCLateDemo ------------------------------
(* Values for LateDemo.  A row at 6 puts the watermark at 2, so that a row at 2 is late *)
(* for the batch after the next.                                                       *)
EXTENDS LateDemo, TLC

CONSTANTS a, b, c, n, shop

MCCategoryOf == [t \in Txns |-> IF t = n THEN NoCategory ELSE shop]

\* The curated export has an amount and an is_fraud of 0 or 1 in every row.
MCFraudOf == [t \in Txns |-> IF t = a THEN 1 ELSE 0]

MCCurated == {<<a, b, c>>, <<a, n>>, <<b>>}
===============================================================================
