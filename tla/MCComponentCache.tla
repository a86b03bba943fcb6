-------------------------- MODULE MCComponentCache --------------------------
(* Three components for a cache of two entries: two small ones whose       *)
(* weights depend on where they were loaded from, and one that fills the   *)
(* byte budget alone.                                                      *)
EXTENDS ComponentCache

CONSTANTS d1, d2, d3

CwasmLens == [d \in Digests |-> IF d = d1 THEN 1 ELSE IF d = d2 THEN 2 ELSE 4]
WasmLens == [d \in Digests |-> IF d = d1 THEN 2 ELSE IF d = d2 THEN 1 ELSE 3]
=============================================================================
