----------------------------- MODULE Invocation -----------------------------
(***************************************************************************)
(* Runtime::invoke and Runtime::stage (crates/core/src/runtime.rs) as      *)
(* concurrent jobs over the four resources they share: the per-tenant      *)
(* in-flight map, the admission semaphore (one permit per MiB of guest     *)
(* memory), the compile semaphore, and tokio's pool of blocking threads.   *)
(*                                                                         *)
(* A future can be dropped at any await.  What it spawned with             *)
(* spawn_blocking is then detached and still runs, holding whatever was    *)
(* moved into its closure.  What the caller's frame owns is dropped, in    *)
(* reverse order of declaration: meter guard, admission, slot.             *)
(***************************************************************************)
EXTENDS Naturals, Sequences, FiniteSets, SequencesExt

CONSTANTS
  Calls,                \* identities of invocations
  Stages,               \* identities of stage requests
  Tenants,
  TenantOf,             \* the tenant a call is for
  Weight,               \* the MiB of guest memory a call asks for
  GuestResults,         \* how a guest that started may end
  MemoryBudget,         \* cfg.memory_budget_bytes in MiB
  MaxInFlightPerTenant,
  CompileConcurrency,
  PoolThreads           \* threads of tokio's blocking pool

Jobs == Calls \cup Stages

(* The variants of InvokeError whose usage() is Some(_).                   *)
MeteredErrors ==
  {"GuestTrap", "CpuBudgetExceeded", "MemoryCapExceeded",
   "WallClockTimeout", "OutputTooLarge"}

(* The variants a call that got its slot can end with before its guest     *)
(* starts.                                                                 *)
UnmeteredErrors == {"Overloaded", "NotFound", "Load"}

Results == {"none", "Ok", "Cancelled"} \cup MeteredErrors \cup UnmeteredErrors

ASSUME InvocationAssumption ==
  /\ IsFiniteSet(Calls)
  /\ IsFiniteSet(Stages)
  /\ Calls \cap Stages = {}
  /\ TenantOf \in [Calls -> Tenants]
  /\ Weight \in [Calls -> Nat \ {0}]
  /\ GuestResults \subseteq {"Ok"} \cup MeteredErrors
  /\ MemoryBudget \in Nat \ {0}
  /\ MaxInFlightPerTenant \in Nat \ {0}
  /\ CompileConcurrency \in Nat \ {0}
  /\ PoolThreads \in Nat \ {0}

VARIABLES
  pc,          \* where each job's future stands
  result,      \* what an ending call returns
  started,     \* the call's guest was started
  meter,       \* the ok-flags reported to the MeterSink for this call
  inFlight,    \* Inner::in_flight, an absent key being 0
  admission,   \* free permits of Inner::admission
  permits,     \* free permits of Inner::compile_slots
  permitQ,     \* futures waiting for a compile permit, in order
  holding,     \* jobs whose blocking task owns a compile permit
  task,        \* each job's blocking task
  poolQ        \* blocking tasks waiting for a thread, in order

gateVars == <<inFlight, admission>>
permitVars == <<permits, permitQ, holding>>
poolVars == <<task, poolQ>>
callVars == <<result, started, meter>>
vars == <<pc, callVars, gateVars, permitVars, poolVars>>

(* The awaits of invoke, in program order, then the guest.                 *)
Awaiting == {"lookup", "load", "permit", "recompile", "running"}
HoldsAdmission == Awaiting \cup {"unadmit"}
HoldsSlot == HoldsAdmission \cup {"slotted", "unslot"}
PCs == HoldsSlot \cup {"idle", "entered", "stage"}

-----------------------------------------------------------------------------
(* Blocking pool and compile semaphore.                                    *)

(* spawn_blocking: the closure joins the pool's queue.                     *)
Spawn(x) ==
  /\ task' = [task EXCEPT ![x] = "queued"]
  /\ poolQ' = Append(poolQ, x)

(* The permit moved into a blocking task's closure is dropped with it.     *)
DropPermit(x) ==
  /\ permits' = IF x \in holding THEN permits + 1 ELSE permits
  /\ holding' = holding \ {x}

(* A blocking task returns and its thread is free.                         *)
TaskReturns(x) ==
  /\ task' = [task EXCEPT ![x] = "none"]
  /\ UNCHANGED poolQ

AwaitPermit(x) ==
  /\ pc' = [pc EXCEPT ![x] = "permit"]
  /\ permitQ' = Append(permitQ, x)

(* A dropped future leaves the queue if it stood there.                    *)
StopWaiting(x) ==
  IF pc[x] = "permit"
  THEN \E i \in 1..Len(permitQ) :
         permitQ[i] = x /\ permitQ' = RemoveAt(permitQ, i)
  ELSE UNCHANGED permitQ

(* A thread of the pool takes the oldest queued task.                      *)
StartTask ==
  /\ poolQ # <<>>
  /\ Cardinality({x \in Jobs : task[x] = "running"}) < PoolThreads
  /\ task' = [task EXCEPT ![Head(poolQ)] = "running"]
  /\ poolQ' = Tail(poolQ)
  /\ UNCHANGED <<pc, callVars, gateVars, permitVars>>

(* The oldest waiter gets a free permit and moves it into its task.        *)
GrantPermit ==
  /\ permitQ # <<>>
  /\ permits > 0
  /\ LET x == Head(permitQ) IN
       /\ pc' = [pc EXCEPT ![x] = IF x \in Stages THEN "stage" ELSE "recompile"]
       /\ holding' = holding \cup {x}
       /\ Spawn(x)
  /\ permits' = permits - 1
  /\ permitQ' = Tail(permitQ)
  /\ UNCHANGED <<callVars, gateVars>>

(* The task of a job whose future is gone runs to its end all the same.    *)
DetachedTaskLeaks(x) ==  \* mutant: the permit is not in the closure
  /\ task[x] = "running"
  /\ pc[x] \in {"unadmit", "unslot", "idle"}
  /\ TaskReturns(x)
  /\ UNCHANGED <<pc, callVars, gateVars, permitVars>>

DetachedTaskEnds(x) ==
  /\ task[x] = "running"
  /\ pc[x] \in {"unadmit", "unslot", "idle"}
  /\ TaskReturns(x)
  /\ DropPermit(x)
  /\ UNCHANGED <<pc, callVars, gateVars, permitQ>>

-----------------------------------------------------------------------------
(* Runtime::invoke.                                                        *)

(* The call leaves with r and starts to drop what it owns.                 *)
LeaveLeaking(c, r) ==  \* mutant: an exit path that keeps the admission
  /\ pc' = [pc EXCEPT ![c] = "unslot"]
  /\ result' = [result EXCEPT ![c] = r]

Leave(c, r) ==
  /\ pc' = [pc EXCEPT ![c] = "unadmit"]
  /\ result' = [result EXCEPT ![c] = r]

(* The MeterGuard is created and the guest is entered in one poll.         *)
StartGuest(c) ==
  /\ pc' = [pc EXCEPT ![c] = "running"]
  /\ started' = [started EXCEPT ![c] = TRUE]

Record(c, ok) == meter' = [meter EXCEPT ![c] = Append(@, ok)]

(* Dropping an undone MeterGuard records a failure.  There is a guard only *)
(* once the guest has been entered.                                        *)
FreeCancellation(c) == UNCHANGED meter  \* mutant: no Drop for MeterGuard
BillAnyCancellation(c) == Record(c, FALSE)  \* mutant: guard made at entry

DropMeterGuard(c) ==
  IF pc[c] = "running" THEN Record(c, FALSE) ELSE UNCHANGED meter

(* A new call whose names and limits passed.  An identity is used again    *)
(* only once the task its last call detached has returned.                 *)
Enter(c) ==
  /\ pc[c] = "idle"
  /\ task[c] = "none"
  /\ pc' = [pc EXCEPT ![c] = "entered"]
  /\ UNCHANGED <<callVars, gateVars, permitVars, poolVars>>

SlotFreeAtCap(t) == inFlight[t] <= MaxInFlightPerTenant  \* mutant
SlotFree(t) == inFlight[t] < MaxInFlightPerTenant

(* TenantSlot::acquire, one critical section of the in_flight mutex.       *)
AcquireSlot(c) ==
  LET t == TenantOf[c] IN
  /\ pc[c] = "entered"
  /\ \/ /\ ~SlotFree(t)
        /\ pc' = [pc EXCEPT ![c] = "idle"]
        /\ UNCHANGED inFlight
     \/ /\ SlotFree(t)
        /\ pc' = [pc EXCEPT ![c] = "slotted"]
        /\ inFlight' = [inFlight EXCEPT ![t] = @ + 1]
  /\ UNCHANGED <<callVars, admission, permitVars, poolVars>>

(* A weight above the whole budget never fits.                             *)
FitsOnePermit(c) == admission > 0  \* mutant: try_acquire for one permit
Fits(c) == Weight[c] <= MemoryBudget /\ Weight[c] <= admission

(* try_acquire_many_owned, then the lookup is spawned in the same poll.    *)
Admit(c) ==
  /\ pc[c] = "slotted"
  /\ \/ /\ ~Fits(c)
        /\ pc' = [pc EXCEPT ![c] = "unslot"]
        /\ result' = [result EXCEPT ![c] = "Overloaded"]
        /\ UNCHANGED <<admission, poolVars>>
     \/ /\ Fits(c)
        /\ pc' = [pc EXCEPT ![c] = "lookup"]
        /\ admission' = admission - Weight[c]
        /\ Spawn(c)
        /\ UNCHANGED result
  /\ UNCHANGED <<started, meter, inFlight, permitVars>>

(* ComponentCache::lookup returned: no pointer, an error, a hit or a miss. *)
LookupReturns(c) ==
  /\ pc[c] = "lookup"
  /\ task[c] = "running"
  /\ \/ \E r \in {"NotFound", "Load"} : Leave(c, r)
        /\ TaskReturns(c)
        /\ UNCHANGED started
     \/ /\ StartGuest(c)
        /\ TaskReturns(c)
        /\ UNCHANGED result
     \/ /\ pc' = [pc EXCEPT ![c] = "load"]
        /\ Spawn(c)
        /\ UNCHANGED <<result, started>>
  /\ UNCHANGED <<meter, gateVars, permitVars>>

(* The load needs a compile: the permit is awaited off the blocking pool.  *)
NeedsCompileOnThread(c) ==  \* mutant: the thread waits for the permit
  /\ AwaitPermit(c)
  /\ UNCHANGED <<task, poolQ>>

NeedsCompile(c) ==
  /\ AwaitPermit(c)
  /\ TaskReturns(c)

(* ComponentCache::load_existing returned: an error, ready, or             *)
(* Loaded::NeedsCompile.                                                   *)
LoadReturns(c) ==
  /\ pc[c] = "load"
  /\ task[c] = "running"
  /\ \/ /\ Leave(c, "Load")
        /\ TaskReturns(c)
        /\ UNCHANGED <<started, permitQ>>
     \/ /\ StartGuest(c)
        /\ TaskReturns(c)
        /\ UNCHANGED <<result, permitQ>>
     \/ /\ NeedsCompile(c)
        /\ UNCHANGED <<result, started>>
  /\ UNCHANGED <<meter, gateVars, permits, holding>>

(* ComponentCache::get_or_load returned, under the compile permit.         *)
RecompileReturns(c) ==
  /\ pc[c] = "recompile"
  /\ task[c] = "running"
  /\ TaskReturns(c)
  /\ DropPermit(c)
  /\ \/ Leave(c, "Load") /\ UNCHANGED started
     \/ StartGuest(c) /\ UNCHANGED result
  /\ UNCHANGED <<meter, gateVars, permitQ>>

(* sandbox::run returned; meter.finish and the return are in one poll.     *)
GuestReturns(c) ==
  /\ pc[c] = "running"
  /\ \E r \in GuestResults :
       /\ Leave(c, r)
       /\ Record(c, r = "Ok")
  /\ UNCHANGED <<started, gateVars, permitVars, poolVars>>

(* The invoke future is dropped at an await: a spawned task is detached.   *)
CancelCall(c) ==
  /\ pc[c] \in Awaiting
  /\ Leave(c, "Cancelled")
  /\ DropMeterGuard(c)
  /\ StopWaiting(c)
  /\ UNCHANGED <<started, gateVars, permits, holding, poolVars>>

(* OwnedSemaphorePermit is dropped, then TenantSlot.                       *)
DropAdmission(c) ==
  /\ pc[c] = "unadmit"
  /\ pc' = [pc EXCEPT ![c] = "unslot"]
  /\ admission' = admission + Weight[c]
  /\ UNCHANGED <<callVars, inFlight, permitVars, poolVars>>

DropSlot(c) ==
  /\ pc[c] = "unslot"
  /\ pc' = [pc EXCEPT ![c] = "idle"]
  /\ inFlight' = [inFlight EXCEPT ![TenantOf[c]] = @ - 1]
  /\ result' = [result EXCEPT ![c] = "none"]
  /\ started' = [started EXCEPT ![c] = FALSE]
  /\ meter' = [meter EXCEPT ![c] = <<>>]
  /\ UNCHANGED <<admission, permitVars, poolVars>>

-----------------------------------------------------------------------------
(* Runtime::stage.                                                         *)

RequestStage(s) ==
  /\ pc[s] = "idle"
  /\ task[s] = "none"
  /\ AwaitPermit(s)
  /\ UNCHANGED <<callVars, gateVars, permits, holding, poolVars>>

StageReturns(s) ==
  /\ pc[s] = "stage"
  /\ task[s] = "running"
  /\ TaskReturns(s)
  /\ DropPermit(s)
  /\ pc' = [pc EXCEPT ![s] = "idle"]
  /\ UNCHANGED <<callVars, gateVars, permitQ>>

CancelStage(s) ==
  /\ pc[s] \in {"permit", "stage"}
  /\ pc' = [pc EXCEPT ![s] = "idle"]
  /\ StopWaiting(s)
  /\ UNCHANGED <<callVars, gateVars, permits, holding, poolVars>>

-----------------------------------------------------------------------------
Init ==
  /\ pc = [x \in Jobs |-> "idle"]
  /\ result = [c \in Calls |-> "none"]
  /\ started = [c \in Calls |-> FALSE]
  /\ meter = [c \in Calls |-> <<>>]
  /\ inFlight = [t \in Tenants |-> 0]
  /\ admission = MemoryBudget
  /\ permits = CompileConcurrency
  /\ permitQ = <<>>
  /\ holding = {}
  /\ task = [x \in Jobs |-> "none"]
  /\ poolQ = <<>>

Proceed(c) ==
  \/ AcquireSlot(c) \/ Admit(c)
  \/ LookupReturns(c) \/ LoadReturns(c) \/ RecompileReturns(c)
  \/ GuestReturns(c)
  \/ DropAdmission(c) \/ DropSlot(c)

Next ==
  \/ StartTask
  \/ GrantPermit
  \/ \E x \in Jobs : DetachedTaskEnds(x)
  \/ \E c \in Calls : Enter(c) \/ Proceed(c) \/ CancelCall(c)
  \/ \E s \in Stages : RequestStage(s) \/ StageReturns(s) \/ CancelStage(s)

(* Runnable futures are polled and pool threads do not stall; a guest ends *)
(* because sandbox::run bounds it by a wall clock.  Nobody has to call,    *)
(* stage or cancel.                                                        *)
Fairness ==
  /\ WF_vars(StartTask)
  /\ WF_vars(GrantPermit)
  /\ \A x \in Jobs : WF_vars(DetachedTaskEnds(x))
  /\ \A c \in Calls : WF_vars(Proceed(c))
  /\ \A s \in Stages : WF_vars(StageReturns(s))

Spec == Init /\ [][Next]_vars /\ Fairness

-----------------------------------------------------------------------------
(* Types: counters never go below zero, and a stage has no guest.          *)
TypeOK ==
  /\ pc \in [Jobs -> PCs]
  /\ \A s \in Stages : pc[s] \in {"idle", "permit", "stage"}
  /\ \A c \in Calls : pc[c] # "stage"
  /\ result \in [Calls -> Results]
  /\ started \in [Calls -> BOOLEAN]
  /\ meter \in [Calls -> Seq(BOOLEAN)]
  /\ inFlight \in [Tenants -> Nat]
  /\ admission \in Nat
  /\ permits \in Nat
  /\ permitQ \in Seq(Jobs)
  /\ holding \subseteq Jobs
  /\ task \in [Jobs -> {"none", "queued", "running"}]
  /\ poolQ \in Seq(Jobs)

SlotHolders(t) == {c \in Calls : TenantOf[c] = t /\ pc[c] \in HoldsSlot}

(* The MiB a set of calls was admitted for, one element per MiB.           *)
Pages(C) == {p \in C \X (1..MemoryBudget) : p[2] <= Weight[p[1]]}
Committed == Pages({c \in Calls : pc[c] \in HoldsAdmission})
GuestPages == Pages({c \in Calls : pc[c] = "running"})

(* The in-flight map counts exactly the calls that are between             *)
(* TenantSlot::acquire and its drop, and never passes the cap: no exit     *)
(* path, cancellation included, leaks or double-frees a slot.              *)
SlotAccounting ==
  \A t \in Tenants :
    /\ inFlight[t] = Cardinality(SlotHolders(t))
    /\ inFlight[t] <= MaxInFlightPerTenant

(* Free admission permits and the MiB admitted calls stand for always add  *)
(* up to the budget: "the memory admission is released on every exit       *)
(* path", and only once.                                                   *)
AdmissionAccounting == admission + Cardinality(Committed) = MemoryBudget

(* The guests alive at one moment can never use more memory than the       *)
(* budget, even while cancelled calls are still dropping what they own.    *)
GuestMemoryBounded == Cardinality(GuestPages) <= MemoryBudget

Waiters == {x \in Jobs : pc[x] = "permit"}
QueuedTasks == {x \in Jobs : task[x] = "queued"}
Lists(q, S) == IsInjective(q) /\ ToSet(q) = S

(* Both queues hold exactly the jobs that wait in them, once each, however *)
(* futures are dropped, and nobody waits for a permit on a pool thread: "a *)
(* blocking thread must never wait for a permit".                          *)
QueuesFaithful ==
  /\ Lists(permitQ, Waiters)
  /\ Lists(poolQ, QueuedTasks)
  /\ \A x \in Waiters : task[x] = "none"

(* A compile permit is either free or owned by a task that exists, also    *)
(* when the future that acquired it was dropped.                           *)
PermitAccounting ==
  /\ permits + Cardinality(holding) = CompileConcurrency
  /\ \A x \in holding : task[x] # "none"

(* A call that is ending was reported to the meter once if its guest ever  *)
(* started and never otherwise, as ok exactly when it returns Ok, and the  *)
(* error it returns carries a usage exactly when it was reported.          *)
BilledOnce ==
  \A c \in Calls : pc[c] \in {"unadmit", "unslot"} =>
    /\ meter[c] = IF started[c] THEN <<result[c] = "Ok">> ELSE <<>>
    /\ result[c] # "Cancelled" =>
         (started[c] <=> result[c] \in {"Ok"} \cup MeteredErrors)

(* Every call that enters invoke returns, and every stage request is       *)
(* answered, whatever the others do, with one thread and one permit.       *)
EveryJobEnds == \A x \in Jobs : (pc[x] # "idle") ~> (pc[x] = "idle")

-----------------------------------------------------------------------------
(* What the accounts above need to be preserved by every step.             *)

BeforeGuest ==
  {"idle", "entered", "slotted", "lookup", "load", "permit", "recompile"}

(* Only what fits the budget by itself is ever admitted.                   *)
AdmittedFit ==
  \A c \in Calls : pc[c] \in HoldsAdmission => Weight[c] <= MemoryBudget

(* A call has no task before it spawns its first, and only a task that     *)
(* compiles, or was detached, owns a permit.                               *)
TasksMatch ==
  /\ \A x \in Jobs : pc[x] \in {"entered", "slotted"} => task[x] = "none"
  /\ \A x \in holding :
       pc[x] \in {"recompile", "stage", "unadmit", "unslot", "idle"}

(* Nothing is known of a call until its guest starts, and nothing has been *)
(* reported until it stops.                                                *)
OpenBill ==
  \A c \in Calls :
    /\ pc[c] \in BeforeGuest =>
         result[c] = "none" /\ ~started[c] /\ meter[c] = <<>>
    /\ pc[c] = "running" => started[c] /\ meter[c] = <<>>

IInv ==
  /\ TypeOK /\ SlotAccounting
  /\ AdmissionAccounting /\ AdmittedFit
  /\ QueuesFaithful /\ PermitAccounting /\ TasksMatch
  /\ BilledOnce /\ OpenBill

-----------------------------------------------------------------------------
(* What invoke promises, with the waits and the blocking tasks hidden.     *)
Phase(p) ==
  CASE p = "idle" -> "idle"
    [] p = "running" -> "running"
    [] p \in {"unadmit", "unslot"} -> "settled"
    [] OTHER -> "pending"

Contract == INSTANCE InvokeContract WITH
  phase <- [c \in Calls |-> Phase(pc[c])],
  bill <- meter

(* Every behaviour of the runtime is one of the contract: guests start     *)
(* only within both limits and are billed as they stop.                    *)
ImplementsContract == Contract!ContractSpec
=============================================================================
