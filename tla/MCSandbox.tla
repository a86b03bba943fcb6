------------------------------ MODULE MCSandbox ------------------------------
(* One call with a budget of two ticks and a grace of one, two host calls, *)
(* and a ticker that misses up to five periods and makes up for one.       *)
(* Other calls reach it only through how long it waits to be resumed,      *)
(* which is arbitrary here; SandboxProofs is about any number of calls.    *)
EXTENDS Sandbox
=============================================================================
