---------------------------- MODULE MCInvocation ----------------------------
(* Instances of Invocation for TLC.  Model values have no order, so calls  *)
(* are told apart by name.                                                 *)
EXTENDS Invocation

CONSTANTS c1, c2, c3, t1, t2

(* Calls of one tenant (c1, c2) exclude each other by the cap; c2 and c3   *)
(* by memory; c1 and c3 run side by side.                                  *)
TwoTenants == [c \in Calls |-> IF c = c3 THEN t2 ELSE t1]
MixedWeights == [c \in Calls |-> IF c = c1 THEN 1 ELSE 2]
=============================================================================
