--------------------------------- MODULE PgKv ---------------------------------
(***************************************************************************)
(* PgKv of examples/storefront/app/src/kv.rs: the guests' kv kept in       *)
(* Postgres.  A put is a transaction that takes its tenant's advisory      *)
(* lock, adds up the tenant's rows, and writes if the quota allows.  The   *)
(* call that waits for it may be dropped at every await: the server then   *)
(* finishes the statement under way and rolls back what is not committed.  *)
(*                                                                         *)
(* A guest names any key and any value: the host adds its tenant.  It      *)
(* waits for one get or put before it makes the next.                      *)
(***************************************************************************)
EXTENDS Naturals, FiniteSets

CONSTANTS
  Calls, Tenants, TenantOf,
  Keys, Values,
  None,        \* no row
  Cost,        \* of a row: ENTRY_OVERHEAD_BYTES, key and value
  QuotaBytes,  \* tenant_cap_bytes
  PoolSize     \* max_connections

Rows == Values \cup {None}

ASSUME PgKvAssumption ==
  /\ TenantOf \in [Calls -> Tenants]
  /\ IsFiniteSet(Keys)
  /\ None \notin Values
  /\ Cost \in [Rows -> Nat] /\ Cost[None] = 0
  /\ QuotaBytes \in Nat
  /\ PoolSize \in Nat \ {0}

VARIABLES
  rows,  \* the committed rows of storefront.hook_kv
  db     \* the connection each call waits for or has: what it is at, whether
         \* the call still listens, its key and the value to put

kvVars == <<rows, db>>

NoSession == [at |-> "none", heard |-> FALSE, key |-> None, value |-> None]

Waiting == {"acquireGet", "acquirePut"}
LockHeld == {"sum", "write", "commit", "rollback"}
Connected == {"get", "lock"} \cup LockHeld

To(c, stage) == db' = [db EXCEPT ![c].at = stage]
Close(c) == db' = [db EXCEPT ![c] = NoSession]

-----------------------------------------------------------------------------
(* get and put are called; both ask the pool for a connection first.       *)
Open(at, key, value) == [at |-> at, heard |-> TRUE, key |-> key, value |-> value]

BeginGet(c, key) ==
  /\ db[c].at = "none" /\ key \in Keys
  /\ db' = [db EXCEPT ![c] = Open("acquireGet", key, None)]
  /\ UNCHANGED rows

BeginPut(c, key, value) ==
  /\ db[c].at = "none" /\ key \in Keys /\ value \in Values
  /\ db' = [db EXCEPT ![c] = Open("acquirePut", key, value)]
  /\ UNCHANGED rows

Acquire(c) ==
  /\ db[c].at \in Waiting
  /\ Cardinality({d \in Calls : db[d].at \in Connected}) < PoolSize
  /\ To(c, IF db[c].at = "acquireGet" THEN "get" ELSE "lock")
  /\ UNCHANGED rows

(* The row Row(c) is read; the connection goes back.                       *)
Row(c) == rows[TenantOf[c]][db[c].key]

Got(c) ==
  /\ db[c].at = "get"
  /\ Close(c)
  /\ UNCHANGED rows

(* pg_advisory_xact_lock.  A statement nobody waits for any more is        *)
(* finished all the same, and the transaction rolled back after it.        *)
LockFreely(c) ==  \* mutant: nothing orders the writers
  /\ db[c].at = "lock"
  /\ To(c, IF db[c].heard THEN "sum" ELSE "rollback")
  /\ UNCHANGED rows
Lock(c) ==
  /\ db[c].at = "lock"
  /\ \A d \in Calls : TenantOf[d] = TenantOf[c] => db[d].at \notin LockHeld
  /\ To(c, IF db[c].heard THEN "sum" ELSE "rollback")
  /\ UNCHANGED rows

(* What the rows of a tenant cost, byte by byte.                           *)
Bytes(r) == UNION {{k} \X (1..Cost[r[k]]) : k \in Keys}
Used(r) == Cardinality(Bytes(r))

Fits(c) ==
  Used(rows[TenantOf[c]]) + Cost[db[c].value] <= QuotaBytes + Cost[Row(c)]

SumFits(c) ==
  /\ db[c].at = "sum" /\ db[c].heard /\ Fits(c)
  /\ To(c, "write")
  /\ UNCHANGED rows

(* QuotaExceeded: the transaction is dropped.                              *)
ExceedsOpen(c) ==  \* mutant: the transaction is left open
  /\ db[c].at = "sum" /\ db[c].heard /\ ~Fits(c)
  /\ db' = [db EXCEPT ![c].heard = FALSE]
  /\ UNCHANGED rows
SumExceeds(c) ==
  /\ db[c].at = "sum" /\ db[c].heard /\ ~Fits(c)
  /\ db' = [db EXCEPT ![c].at = "rollback", ![c].heard = FALSE]
  /\ UNCHANGED rows

Upsert(c) ==
  /\ db[c].at = "write" /\ db[c].heard
  /\ To(c, "commit")
  /\ UNCHANGED rows

Stored(c) == rows' = [rows EXCEPT ![TenantOf[c]][db[c].key] = db[c].value]

Commit(c) ==
  /\ db[c].at = "commit"
  /\ Stored(c)
  /\ Close(c)

Rollback(c) ==
  /\ db[c].at = "rollback"
  /\ Close(c)
  /\ UNCHANGED rows

(* The pool's acquire timeout, an error of the server, a lost connection;  *)
(* BreakCommit is the COMMIT that is done and not answered.                *)
Break(c) ==
  /\ db[c].at \in Waiting \cup Connected
  /\ Close(c)
  /\ UNCHANGED rows

BreakCommit(c) ==
  /\ db[c].at = "commit"
  /\ Stored(c)
  /\ Close(c)

(* The call is dropped where it waits.                                     *)
Drop(c) ==
  /\ db' = [db EXCEPT ![c] =
       IF @.at \in {"none"} \cup Waiting THEN NoSession
       ELSE IF @.at \in {"sum", "write"} THEN [@ EXCEPT !.at = "rollback", !.heard = FALSE]
       ELSE [@ EXCEPT !.heard = FALSE]]
  /\ UNCHANGED rows

-----------------------------------------------------------------------------
KvInit ==
  /\ rows = [t \in Tenants |-> [k \in Keys |-> None]]
  /\ db = [c \in Calls |-> NoSession]

Puts == {"acquirePut", "lock", "sum", "write", "commit"}

Sessions ==
  {s \in [at : {"none"} \cup Waiting \cup Connected, heard : BOOLEAN,
          key : Keys \cup {None}, value : Rows] :
     /\ s.at # "none" => s.key \in Keys
     /\ s.at \in Puts => s.value \in Values}

KvTypeOK ==
  /\ rows \in [Tenants -> [Keys -> Rows]]
  /\ db \in [Calls -> Sessions]

(* The committed rows of a tenant never cost more than its quota, whatever *)
(* keys its calls write at the same time, wherever they are dropped, and   *)
(* whatever COMMIT goes unheard (kv.rs:4-10, 73-74).                       *)
KvWithinQuota == \A t \in Tenants : Used(rows[t]) <= QuotaBytes
=============================================================================
