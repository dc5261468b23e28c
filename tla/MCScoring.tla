------------------------------ MODULE MCScoring ------------------------------
(* Values for Scoring.  With a delay of 2, an event at 5 makes one at 1 late and expires *)
(* its dedup entry.                                                                     *)
EXTENDS Scoring, TLC

CONSTANTS a, b

MCTimes == {1, 5}
MCExports == {<<a>>, <<b>>}
MCRisk(m, t) == IF m = 1 THEN 1 ELSE 9
MCReview == <<5, 5>>
MCDecline == <<8, 8>>
=============================================================================
