------------------------------ MODULE MCHostCaps ------------------------------
(* Two calls of one tenant share its kv quota: the guest of one also grows *)
(* its memories, that of the other also logs.  Units: the cap is two, each *)
(* of two memories could take it all; one key is too long.                 *)
EXTENDS HostCaps

CONSTANTS c1, c2, t1, m1, m2, tab, k1, k2, kLong

OneTenant == [c \in Calls |-> t1]
Imports == [c \in Calls |-> IF c = c1 THEN {"memory", "kv"} ELSE {"kv", "log"}]
Declared == [r \in Regions |-> IF r = tab THEN 2 ELSE 3]
Lengths == [k \in Keys |-> IF k = kLong THEN 2 ELSE 1]
=============================================================================
