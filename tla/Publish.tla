------------------------------- MODULE Publish -------------------------------
(***************************************************************************)
(* publish_in_db and try_reconcile of crates/control/src/lib.rs for the    *)
(* functions of one tenant: a Postgres transaction under the tenant's      *)
(* advisory lock, and the pointer file, which no transaction covers.       *)
(*                                                                         *)
(* A session is seen from both ends.  Its client may lose it, or drop it,  *)
(* before the server notices; until then the server keeps the lock.  The   *)
(* server may also have rolled it back and released the lock while the     *)
(* client, busy with the pointer file, has not sent a statement since.     *)
(***************************************************************************)
EXTENDS Naturals, FiniteSets

CONSTANTS
  Uploads,        \* publish tasks, each with a component of its own
  Funcs,
  FuncOf,         \* the function an upload is for
  MaxFunctions,   \* AppState::max_functions_per_tenant
  MaxFaults,      \* bound on lost connections and crashes
  None

Sessions == Uploads \X {"publish", "reconcile"}
Publishing(u) == <<u, "publish">>
Reconciling(u) == <<u, "reconcile">>

ASSUME PublishAssumption ==
  /\ FuncOf \in [Uploads -> Funcs]
  /\ MaxFunctions \in Nat
  /\ MaxFaults \in Nat
  /\ None \notin Uploads \cup Sessions

VARIABLES
  pc,        \* where each publish task stands
  seen,      \* the row try_reconcile read
  tenant,    \* the tenant's row exists
  rows,      \* committed functions rows: an upload's digest, or None
  lock,      \* the session that holds the advisory lock, or None
  open,      \* sessions with a transaction on the server
  linked,    \* sessions their client can still use
  pointer,   \* the pointer file of each function
  faults

dbVars == <<tenant, rows, lock, open, linked>>
vars == <<pc, seen, dbVars, pointer, faults>>

(* Where a task has returned, and where it left pointer and row to chance. *)
Settled == {"start", "done", "refused", "failed"}
Abandoned == {"gaveup", "crashed"}
Ended == (Settled \ {"start"}) \cup Abandoned

Goto(u, p) == pc' = [pc EXCEPT ![u] = p]

-----------------------------------------------------------------------------
(* Postgres and the connection to it.                                      *)

OpenSession(s) ==
  /\ open' = open \cup {s}
  /\ linked' = linked \cup {s}

(* The client drops its transaction; the server rolls back in its time.    *)
DropSession(s) == linked' = linked \ {s}

ReleaseLock(s) == lock' = IF lock = s THEN None ELSE lock

CloseSession(s) ==
  /\ open' = open \ {s}
  /\ linked' = linked \ {s}
  /\ ReleaseLock(s)

(* pg_advisory_xact_lock granted.                                          *)
GrantLock(s) == s \in open /\ lock = None /\ lock' = s

ServerAborts(s) ==
  /\ s \in open \ linked
  /\ open' = open \ {s}
  /\ ReleaseLock(s)
  /\ UNCHANGED <<pc, seen, tenant, rows, linked, pointer, faults>>

LoseConnection(s) ==
  /\ faults < MaxFaults
  /\ s \in linked
  /\ linked' = linked \ {s}
  /\ faults' = faults + 1
  /\ UNCHANGED <<pc, seen, tenant, rows, lock, open, pointer>>

(* An operator deletes the tenant; functions rows cascade.  An uncommitted *)
(* upsert locks the tenant's row, so the delete waits for it.              *)
DeleteTenant ==
  /\ tenant
  /\ \A u \in Uploads :
       Publishing(u) \in open => pc[u] \in {"start", "lock", "quota", "upsert"}
  /\ tenant' = FALSE
  /\ rows' = [f \in Funcs |-> None]
  /\ UNCHANGED <<pc, seen, lock, open, linked, pointer, faults>>

-----------------------------------------------------------------------------
(* publish_in_db.                                                          *)

Begin(u) ==
  /\ pc[u] = "start"
  /\ Goto(u, "lock")
  /\ OpenSession(Publishing(u))
  /\ UNCHANGED <<seen, tenant, rows, lock, pointer, faults>>

TakeLock(u) ==
  /\ pc[u] = "lock"
  /\ Publishing(u) \in linked
  /\ GrantLock(Publishing(u))
  /\ Goto(u, "quota")
  /\ UNCHANGED <<seen, tenant, rows, open, linked, pointer, faults>>

(* A statement fails before activate: the lock was not granted within its  *)
(* timeout, or the connection is gone.  `tx` is dropped.                   *)
StatementFails(u) ==
  /\ \/ pc[u] = "lock" /\ lock # None
     \/ pc[u] \in {"lock", "quota", "upsert"} /\ Publishing(u) \notin linked
  /\ Goto(u, "failed")
  /\ DropSession(Publishing(u))
  /\ UNCHANGED <<seen, tenant, rows, lock, open, pointer, faults>>

OtherFunctions(u) == {f \in Funcs \ {FuncOf[u]} : rows[f] # None}
UnderQuotaOffByOne(u) == Cardinality(OtherFunctions(u)) <= MaxFunctions  \* mutant
UnderQuota(u) == Cardinality(OtherFunctions(u)) < MaxFunctions

ActivateThenCheck(u) ==  \* mutant: the pointer is written before the quota
  /\ pc[u] = "quota"
  /\ Publishing(u) \in linked
  /\ pointer' = [pointer EXCEPT ![FuncOf[u]] = u]
  /\ Goto(u, IF tenant /\ UnderQuota(u) THEN "upsert" ELSE "refused")
  /\ UNCHANGED <<seen, dbVars, faults>>

(* The tenant may be gone (401) or have too many other functions (403).    *)
CheckQuota(u) ==
  /\ pc[u] = "quota"
  /\ Publishing(u) \in linked
  /\ \/ /\ ~tenant \/ ~UnderQuota(u)
        /\ Goto(u, "refused")
        /\ DropSession(Publishing(u))
     \/ /\ tenant /\ UnderQuota(u)
        /\ Goto(u, "upsert")
        /\ UNCHANGED linked
  /\ UNCHANGED <<seen, tenant, rows, lock, open, pointer, faults>>

(* The row is written, invisible to other sessions until the commit.  The  *)
(* tenant may have been deleted since: the foreign key refuses.            *)
Upsert(u) ==
  /\ pc[u] = "upsert"
  /\ Publishing(u) \in linked
  /\ \/ /\ tenant
        /\ Goto(u, "activate")
        /\ UNCHANGED linked
     \/ /\ ~tenant
        /\ Goto(u, "failed")
        /\ DropSession(Publishing(u))
  /\ UNCHANGED <<seen, tenant, rows, lock, open, pointer, faults>>

ActivateOnce(u) ==  \* mutant: a function that has a pointer keeps it
  /\ pc[u] = "activate"
  /\ pointer' = [pointer EXCEPT ![FuncOf[u]] = IF @ = None THEN u ELSE @]
  /\ Goto(u, "commit")
  /\ UNCHANGED <<seen, dbVars, faults>>

(* Runtime::activate touches only the file system: it does not notice what *)
(* became of the session.  If it fails the pointer is as it was.           *)
Activate(u) ==
  /\ pc[u] = "activate"
  /\ \/ /\ pointer' = [pointer EXCEPT ![FuncOf[u]] = u]
        /\ Goto(u, "commit")
        /\ UNCHANGED linked
     \/ /\ Goto(u, "failed")
        /\ DropSession(Publishing(u))
        /\ UNCHANGED pointer
  /\ UNCHANGED <<seen, tenant, rows, lock, open, faults>>

CommitRowAndGoOn(u) ==  \* mutant: the client keeps the committed transaction
  /\ rows' = [rows EXCEPT ![FuncOf[u]] = u]
  /\ open' = open \ {Publishing(u)}
  /\ UNCHANGED linked
  /\ ReleaseLock(Publishing(u))

CommitRow(u) ==
  /\ rows' = [rows EXCEPT ![FuncOf[u]] = u]
  /\ CloseSession(Publishing(u))

CommitSucceeds(u) ==
  /\ pc[u] = "commit"
  /\ Publishing(u) \in linked
  /\ CommitRow(u)
  /\ Goto(u, "done")
  /\ UNCHANGED <<seen, tenant, pointer, faults>>

(* The server commits, and the connection is lost before it says so.       *)
CommitUnheard(u) ==
  /\ pc[u] = "commit"
  /\ Publishing(u) \in linked
  /\ faults < MaxFaults
  /\ CommitRow(u)
  /\ Goto(u, "reconcile")
  /\ faults' = faults + 1
  /\ UNCHANGED <<seen, tenant, pointer>>

CommitFailsQuietly(u) ==  \* mutant: no reconciliation
  /\ pc[u] = "commit"
  /\ Publishing(u) \notin linked
  /\ Goto(u, "failed")
  /\ UNCHANGED <<seen, dbVars, pointer, faults>>

(* The client learns of a lost connection only now.                        *)
CommitFails(u) ==
  /\ pc[u] = "commit"
  /\ Publishing(u) \notin linked
  /\ Goto(u, "reconcile")
  /\ UNCHANGED <<seen, dbVars, pointer, faults>>

-----------------------------------------------------------------------------
(* try_reconcile.                                                          *)

ReconcileBegin(u) ==
  /\ pc[u] = "reconcile"
  /\ Goto(u, "relock")
  /\ OpenSession(Reconciling(u))
  /\ UNCHANGED <<seen, tenant, rows, lock, pointer, faults>>

ReconcileLock(u) ==
  /\ pc[u] = "relock"
  /\ Reconciling(u) \in linked
  /\ GrantLock(Reconciling(u))
  /\ Goto(u, "reread")
  /\ UNCHANGED <<seen, tenant, rows, open, linked, pointer, faults>>

ReconcileRead(u) ==
  /\ pc[u] = "reread"
  /\ Reconciling(u) \in linked
  /\ seen' = [seen EXCEPT ![u] = rows[FuncOf[u]]]
  /\ Goto(u, "settle")
  /\ UNCHANGED <<dbVars, pointer, faults>>

(* activate_digest of the row's digest, or deactivate.                     *)
ReconcileSettle(u) ==
  /\ pc[u] = "settle"
  /\ pointer' = [pointer EXCEPT ![FuncOf[u]] = seen[u]]
  /\ Goto(u, "recommit")
  /\ UNCHANGED <<seen, dbVars, faults>>

ReconcileCommit(u) ==
  /\ pc[u] = "recommit"
  /\ Reconciling(u) \in linked
  /\ CloseSession(Reconciling(u))
  /\ Goto(u, "failed")
  /\ UNCHANGED <<seen, tenant, rows, pointer, faults>>

ReconcileAgain(u) ==  \* mutant: a failed reconciliation is tried again
  /\ pc[u] = "settle"
  /\ Goto(u, "reconcile")
  /\ DropSession(Reconciling(u))
  /\ UNCHANGED <<seen, tenant, rows, lock, open, pointer, faults>>

(* Any failure is logged, and there is nothing further to fall back on:    *)
(* the lock timed out, the connection is gone, or the file system refused. *)
ReconcileFails(u) ==
  /\ \/ pc[u] = "relock" /\ lock # None
     \/ pc[u] \in {"relock", "reread", "recommit"}
          /\ Reconciling(u) \notin linked
     \/ pc[u] = "settle"
  /\ Goto(u, "gaveup")
  /\ DropSession(Reconciling(u))
  /\ UNCHANGED <<seen, tenant, rows, lock, open, pointer, faults>>

(* The control process dies; its sessions die with their sockets.          *)
Crash ==
  /\ faults < MaxFaults
  /\ \E u \in Uploads : pc[u] \notin Ended \cup {"start"}
  /\ pc' = [u \in Uploads |->
              IF pc[u] \in Ended \cup {"start"} THEN pc[u] ELSE "crashed"]
  /\ linked' = {}
  /\ faults' = faults + 1
  /\ UNCHANGED <<seen, tenant, rows, lock, open, pointer>>

-----------------------------------------------------------------------------
Init ==
  /\ pc = [u \in Uploads |-> "start"]
  /\ seen = [u \in Uploads |-> None]
  /\ tenant = TRUE
  /\ rows = [f \in Funcs |-> None]
  /\ lock = None
  /\ open = {}
  /\ linked = {}
  /\ pointer = [f \in Funcs |-> None]
  /\ faults = 0

PublishStep(u) ==
  \/ TakeLock(u) \/ StatementFails(u) \/ CheckQuota(u) \/ Upsert(u)
  \/ Activate(u) \/ CommitSucceeds(u) \/ CommitUnheard(u) \/ CommitFails(u)

ReconcileStep(u) ==
  \/ ReconcileBegin(u) \/ ReconcileLock(u) \/ ReconcileRead(u)
  \/ ReconcileSettle(u) \/ ReconcileCommit(u) \/ ReconcileFails(u)

Next ==
  \/ \E u \in Uploads : Begin(u) \/ PublishStep(u) \/ ReconcileStep(u)
  \/ \E s \in Sessions : ServerAborts(s) \/ LoseConnection(s)
  \/ DeleteTenant
  \/ Crash

(* The spawned task runs to its end, and the server notices dead sessions. *)
Fairness ==
  /\ \A u \in Uploads : WF_vars(PublishStep(u) \/ ReconcileStep(u))
  /\ \A s \in Sessions : WF_vars(ServerAborts(s))

Spec == Init /\ [][Next]_vars /\ Fairness

-----------------------------------------------------------------------------
(* Types; a session the server runs for an upload is open, and only an     *)
(* open one is still tied to its client.                                   *)
TypeOK ==
  /\ pc \in [Uploads -> Settled \cup Abandoned \cup
               {"lock", "quota", "upsert", "activate", "commit", "reconcile",
                "relock", "reread", "settle", "recommit"}]
  /\ seen \in [Uploads -> Uploads \cup {None}]
  /\ tenant \in BOOLEAN
  /\ rows \in [Funcs -> Uploads \cup {None}]
  /\ lock \in Sessions \cup {None}
  /\ open \subseteq Sessions
  /\ linked \subseteq open
  /\ pointer \in [Funcs -> Uploads \cup {None}]
  /\ faults \in 0..MaxFaults

(* However uploads of one tenant race, and whatever is lost, the committed *)
(* rows never exceed the tenant's quota.                                   *)
QuotaHeld == Cardinality({f \in Funcs : rows[f] # None}) <= MaxFunctions

(* Once no upload is in flight, every pointer says what its row says,      *)
(* unless a task crashed or could not reconcile: a failed or unheard       *)
(* commit, a rollback and a refused upload leave no trace.                 *)
SettledPointerMatchesRow ==
  (tenant /\ \A u \in Uploads : pc[u] \in Settled) => pointer = rows

(* A pointer left ahead of its row by a crash or by an abandoned           *)
(* reconciliation is repaired by the next upload of the function: an       *)
(* upload that starts when no other is in flight, and is acknowledged,     *)
(* leaves pointer and row equal.                                           *)
NextUploadRepairs ==
  \A u \in Uploads :
    [](pc[u] = "start" /\ (\A v \in Uploads \ {u} : pc[v] \in Ended)
         => [](pc[u] = "done" /\ tenant =>
                 pointer[FuncOf[u]] = rows[FuncOf[u]]))

(* An upload the quota refused was never served, not even for a moment.    *)
RefusedNeverServed ==
  \A u \in Uploads : pc[u] = "refused" => \A f \in Funcs : pointer[f] # u

(* Every publish task ends, also when sessions die holding the lock.       *)
EveryUploadEnds == \A u \in Uploads : pc[u] # "start" ~> pc[u] \in Ended

(* What publish_pointer documents of the reconciliation: "it cannot        *)
(* clobber a concurrent upload that committed in between".                 *)
ReconcileKeepsCommitted ==
  [][ \A u \in Uploads :
        pc[u] = "settle" /\ pc'[u] = "recommit" /\ tenant
          => pointer'[FuncOf[u]] = rows[FuncOf[u]] ]_vars

-----------------------------------------------------------------------------
(* The inductive invariant behind QuotaHeld, SettledPointerMatchesRow and  *)
(* RefusedNeverServed.                                                     *)

(* A task past pg_advisory_xact_lock whose session still lives has the     *)
(* lock: one that lost both does not know, and can no longer write a row.  *)
LiveSessionHasLock ==
  \A u \in Uploads :
    /\ pc[u] \in {"quota", "upsert", "activate", "commit"}
         /\ Publishing(u) \in linked => lock = Publishing(u)
    /\ pc[u] \in {"reread", "settle", "recommit"}
         /\ Reconciling(u) \in linked => lock = Reconciling(u)

(* What the quota check found holds until the commit.                      *)
RoomUntilCommit ==
  \A u \in Uploads :
    pc[u] \in {"upsert", "activate", "commit"} /\ Publishing(u) \in linked
      => UnderQuota(u)

FinitelyManyRows == IsFiniteSet({f \in Funcs : rows[f] # None})

(* The task that has yet to settle the pointer of its function: it wrote   *)
(* it before its commit, or wrote it back without the lock.                *)
Owes(u) ==
  \/ pc[u] \in {"commit", "reconcile", "relock", "reread", "settle"}
  \/ pc[u] = "recommit" /\ Reconciling(u) \notin linked

NobodyAbandoned == \A u \in Uploads : pc[u] \notin Abandoned

(* Until the tenant is deleted or a task dies, a pointer that differs from *)
(* its row has a task that owes it; one about to commit sees its own       *)
(* digest there, or another task owes it.                                  *)
Owed ==
  tenant /\ NobodyAbandoned =>
    /\ \A f \in Funcs :
         pointer[f] # rows[f] => \E u \in Uploads : FuncOf[u] = f /\ Owes(u)
    /\ \A u \in Uploads :
         pc[u] = "commit" /\ Publishing(u) \in linked
             /\ pointer[FuncOf[u]] # u
           => \E v \in Uploads \ {u} : FuncOf[v] = FuncOf[u] /\ Owes(v)

(* What a reconciliation read is the row for as long as its session lives. *)
ReadIsCurrent ==
  \A u \in Uploads :
    pc[u] = "settle" /\ Reconciling(u) \in linked /\ tenant
      => seen[u] = rows[FuncOf[u]]

(* An upload that was not admitted has left no trace.                      *)
NoTraceBeforeQuota ==
  \A u \in Uploads :
    pc[u] \in {"start", "lock", "quota", "refused"} =>
      /\ \A f \in Funcs : pointer[f] # u /\ rows[f] # u
      /\ \A v \in Uploads : seen[v] # u

IInv ==
  /\ TypeOK
  /\ LiveSessionHasLock
  /\ RoomUntilCommit
  /\ FinitelyManyRows
  /\ QuotaHeld
  /\ Owed
  /\ ReadIsCurrent
  /\ NoTraceBeforeQuota
=============================================================================
