-------------------------- MODULE MCStreamConsumer --------------------------
(* Values for StreamConsumer.  The unit of time is half a minute: windows of one minute *)
(* and a delay of two, as in conf/streamlake.yml.                                      *)
EXTENDS StreamConsumer, TLC

CONSTANTS a, b, n, u, f, shop

\* n has no category.
MCCategoryOf == [t \in Txns |-> IF t = n THEN NoCategory ELSE shop]

\* f breaks fraud_txns <= txns, but not in a window with a row that is no fraud; u, where it
\* occurs, has no amount.
MCFraudOf == [t \in Txns |-> IF t = f THEN 2 ELSE 0]

\* 2 and 3 share a window; 6 makes 2 late but not 3; 10 closes their window and expires
\* the dedup entry of a row at 2 or at 6.
MCTimes == {2, 3, 6, 10}

Redelivered == Permutations({a, b})
=============================================================================
