--------------------------- MODULE InvokeContract ---------------------------
(***************************************************************************)
(* What Runtime::invoke promises its callers, with no semaphores, queues   *)
(* or threads: a guest starts only when its tenant is under its cap and    *)
(* the memory of all running guests stays within the budget, and a call is *)
(* billed once, at the moment its guest stops, and only if it ran.         *)
(***************************************************************************)
EXTENDS Naturals, Sequences, FiniteSets

CONSTANTS Calls, TenantOf, Weight, GuestResults, MemoryBudget,
          MaxInFlightPerTenant

VARIABLES
  phase,   \* idle, pending, running or settled
  bill     \* the ok-flags reported for the call in progress

contractVars == <<phase, bill>>

MiB(C) == {p \in C \X (1..MemoryBudget) : p[2] <= Weight[p[1]]}
Running == {c \in Calls : phase[c] = "running"}

Call(c) ==
  /\ phase[c] = "idle"
  /\ phase' = [phase EXCEPT ![c] = "pending"]
  /\ UNCHANGED bill

(* TenantBusy: nothing was taken.                                          *)
Reject(c) ==
  /\ phase[c] = "pending"
  /\ phase' = [phase EXCEPT ![c] = "idle"]
  /\ UNCHANGED bill

(* Any other error, or a cancellation, before the guest starts.            *)
Refuse(c) ==
  /\ phase[c] = "pending"
  /\ phase' = [phase EXCEPT ![c] = "settled"]
  /\ UNCHANGED bill

Run(c) ==
  /\ phase[c] = "pending"
  /\ Weight[c] <= MemoryBudget
  /\ Cardinality(MiB(Running \cup {c})) <= MemoryBudget
  /\ Cardinality({d \in Running : TenantOf[d] = TenantOf[c]})
       < MaxInFlightPerTenant
  /\ phase' = [phase EXCEPT ![c] = "running"]
  /\ UNCHANGED bill

(* The guest ended, or was dropped by a cancellation.                      *)
Stop(c) ==
  /\ phase[c] = "running"
  /\ phase' = [phase EXCEPT ![c] = "settled"]
  /\ \E r \in GuestResults \cup {"Cancelled"} :
       bill' = [bill EXCEPT ![c] = Append(@, r = "Ok")]

Return(c) ==
  /\ phase[c] = "settled"
  /\ phase' = [phase EXCEPT ![c] = "idle"]
  /\ bill' = [bill EXCEPT ![c] = <<>>]

ContractInit ==
  /\ phase = [c \in Calls |-> "idle"]
  /\ bill = [c \in Calls |-> <<>>]

ContractNext ==
  \E c \in Calls :
    Call(c) \/ Reject(c) \/ Refuse(c) \/ Run(c) \/ Stop(c) \/ Return(c)

ContractSpec == ContractInit /\ [][ContractNext]_contractVars
=============================================================================
