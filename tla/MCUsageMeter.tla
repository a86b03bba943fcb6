---------------------------- MODULE MCUsageMeter ----------------------------
(* Three rows for a channel of two and batches of two, with a retry.       *)
EXTENDS UsageMeter
=============================================================================
