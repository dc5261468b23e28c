------------------------------ MODULE MCLanding ------------------------------
(* Values for Landing: a handful of rows that differ in what the rules and the      *)
(* contracts tell apart.                                                            *)
EXTENDS Landing

Clean(id, day) ==
    [trans_num |-> id, trans_date_trans_time |-> day, cc_num |-> 1, category |-> "grocery",
     amt |-> 2, dob |-> 0, lat |-> 0, merch_lat |-> 1, is_fraud |-> 0, merch_zipcode |-> 1]

A1 == Clean("a", 1)
A9 == [Clean("a", 9) EXCEPT !.is_fraud = 1, !.merch_zipcode = Null]
A9Bad == [Clean("a", 9) EXCEPT !.amt = 0]
B9 == [Clean("b", 9) EXCEPT !.lat = Null]
B9Huge == [Clean("b", 9) EXCEPT !.amt = 50]
C9 == Clean("c", 9)
C9NoReference == [Clean("c", 9) EXCEPT !.category = "travel"]
D1Holes == [Clean("d", 1) EXCEPT !.cc_num = Null, !.category = Null]
NoId == Clean(Null, 9)

MCRawRow == {A1, A9, A9Bad, B9, B9Huge, C9, C9NoReference, D1Holes, NoId}

V(train, test) == [s \in Splits |-> IF s = "train" THEN train ELSE test]

\* The clean pair of files; a transaction on both sides of the splits' border; one that is
\* invalid now; an absurd amount and a NULL id; rows no rule rejects and the contract does.
MCVersions ==
    {V({A1, B9}, {C9}), V({A1, B9}, {A9, C9}), V({B9}, {A9Bad, C9}), V({A1, B9Huge}, {NoId, C9}),
     V({A1, D1Holes}, {B9, C9NoReference})}

\* travel has another name in the reference.
MCCategoryRef == [c \in {"grocery", "trips"} |-> "in_person"]
=============================================================================
