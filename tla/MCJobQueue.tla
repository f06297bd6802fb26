----------------------------- MODULE MCJobQueue -----------------------------
(* Instances of JobQueue for TLC.                                             *)
EXTENDS JobQueue

CONSTANTS d1, d2, w1, w2

OneHome == [w \in Workers |-> d1]
TwoHomes == [w \in Workers |-> IF w = w1 THEN d1 ELSE d2]
=============================================================================
