----------------------------- MODULE MCRegistry -----------------------------
(* Two components and two functions, one upload and one cold invocation at *)
(* a time, and a grace period just longer than an upload and a pass.       *)
EXTENDS Registry, TLC

(* No definition tells digests or functions apart, and no liveness is      *)
(* checked.                                                                *)
Symmetry == Permutations(Digests) \cup Permutations(Funcs)
=============================================================================
