------------------------------ MODULE MCPublish ------------------------------
(* Two uploads of one function and one of another, with room for one       *)
(* function only.                                                          *)
EXTENDS Publish

CONSTANTS u1, u2, u3, f1, f2

TwoOfOne == [u \in Uploads |-> IF u = u3 THEN f2 ELSE f1]
=============================================================================
