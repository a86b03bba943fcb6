------------------------------- MODULE HostCaps -------------------------------
(***************************************************************************)
(* What one invocation may take from the host while its guest runs: linear *)
(* memory and table elements (TenantLimiter, crates/core/src/types.rs), kv *)
(* puts and log lines (HostCtx, crates/core/src/types.rs and sandbox.rs);  *)
(* and what a tenant's invocations together may keep in the shared MemKv   *)
(* (crates/core/src/kv.rs).                                                *)
(*                                                                         *)
(* Bytes are counted in units; the caps are constants.  Each name in Calls *)
(* is a place where invocations of its tenant run one after the other.     *)
(***************************************************************************)
EXTENDS Integers, FiniteSetsExt

CONSTANTS
  Calls, Tenants, TenantOf,
  Uses,              \* what the guest run by each call imports
  Memories, Tables,  \* the growable regions of a store
  DeclaredMax,       \* each region's own maximum
  MemCap, TableCap,
  Keys, KeyLen, MaxKey, MaxValue,
  MaxPuts, MaxPutBytes,  \* per invocation
  Overhead, TenantCap,   \* of MemKv
  MaxMsg, MaxLines, MaxLogBytes,
  Absent

Regions == Memories \cup Tables
Kinds == {"memory", "table"}

ASSUME CapsAssumption ==
  /\ TenantOf \in [Calls -> Tenants]
  /\ Uses \in [Calls -> SUBSET {"memory", "kv", "log"}]
  /\ IsFiniteSet(Memories) /\ IsFiniteSet(Tables) /\ IsFiniteSet(Keys)
  /\ Memories \cap Tables = {}
  /\ DeclaredMax \in [Regions -> Nat]
  /\ KeyLen \in [Keys -> Nat]
  /\ {MemCap, TableCap, MaxKey, MaxValue, MaxPuts, MaxPutBytes,
      Overhead, TenantCap, MaxMsg, MaxLines, MaxLogBytes} \subseteq Nat
  /\ MaxLogBytes > 0
  /\ Absent \notin Nat

VARIABLES
  pc,       \* idle, guest (its code runs) or put (waits for the kv lock)
  ctx,      \* HostCtx of each call, its limiter's counters included
  size,     \* how large the regions of its store really are
  pending,  \* the put it waits with
  entries,  \* MemKv: entries, by tenant and key: the value's length
  used      \* MemKv: tenant_bytes

vars == <<pc, ctx, size, pending, entries, used>>

KindOf(r) == IF r \in Memories THEN "memory" ELSE "table"
Cap == [memory |-> MemCap, table |-> TableCap]

Fresh == [total |-> [k \in Kinds |-> 0], peak |-> 0, capHit |-> FALSE,
          putCount |-> 0, putBytes |-> 0, lines |-> 0, logBytes |-> 0]
Empty == [r \in Regions |-> 0]
NoPut == [key |-> Absent, len |-> 0]

Start(c) ==
  /\ pc[c] = "idle"
  /\ pc' = [pc EXCEPT ![c] = "guest"]
  /\ UNCHANGED <<ctx, size, pending, entries, used>>

(* The store is dropped: the guest returned, trapped or was cancelled.     *)
Drop(c) ==
  /\ pc' = [pc EXCEPT ![c] = "idle"]
  /\ ctx' = [ctx EXCEPT ![c] = Fresh]
  /\ size' = [size EXCEPT ![c] = Empty]
  /\ pending' = [pending EXCEPT ![c] = NoPut]

(* At any time, in the wait for the kv lock too.                           *)
End(c) ==
  /\ pc[c] # "idle"
  /\ Drop(c)
  /\ UNCHANGED <<entries, used>>

-----------------------------------------------------------------------------
(* TenantLimiter.                                                          *)

ChargedAlone(c, r, desired) == desired  \* mutant: each region on its own
Charged(c, r, desired) == ctx[c].total[KindOf(r)] + (desired - size[c][r])

(* wasmtime asks memory_growing or table_growing, then grows the region.   *)
Grow(c, r, desired) ==
  /\ pc[c] = "guest" /\ "memory" \in Uses[c]
  /\ size[c][r] < desired /\ desired <= DeclaredMax[r]
  /\ LET total == Charged(c, r, desired)
         peak == IF r \in Memories THEN Max({ctx[c].peak, total}) ELSE ctx[c].peak
     IN /\ total <= Cap[KindOf(r)]
        /\ ctx' = [ctx EXCEPT ![c].total[KindOf(r)] = total, ![c].peak = peak]
  /\ \/ size' = [size EXCEPT ![c][r] = desired]
     \/ UNCHANGED size  \* accepted, but the host has no memory to give
  /\ UNCHANGED <<pc, pending, entries, used>>

(* Past the declared maximum nothing is even noted.                        *)
RefuseGrowth(c, r, desired) ==
  /\ pc[c] = "guest" /\ "memory" \in Uses[c]
  /\ size[c][r] < desired /\ desired <= DeclaredMax[r]
  /\ Charged(c, r, desired) > Cap[KindOf(r)]
  /\ ctx' = [ctx EXCEPT ![c].capHit = @ \/ r \in Memories]
  /\ UNCHANGED <<pc, size, pending, entries, used>>

-----------------------------------------------------------------------------
(* kv::Host::put and MemKv::put.                                           *)

PutBytes(k, len) == KeyLen[k] + len

(* Counted before it is checked, and before it waits for the lock.         *)
Put(c, k, len) ==
  /\ pc[c] = "guest" /\ "kv" \in Uses[c]
  /\ KeyLen[k] <= MaxKey /\ len <= MaxValue
  /\ LET count == ctx[c].putCount + 1
         bytes == ctx[c].putBytes + PutBytes(k, len)
     IN /\ count <= MaxPuts /\ bytes <= MaxPutBytes
        /\ ctx' = [ctx EXCEPT ![c].putCount = count, ![c].putBytes = bytes]
  /\ pc' = [pc EXCEPT ![c] = "put"]
  /\ pending' = [pending EXCEPT ![c] = [key |-> k, len |-> len]]
  /\ UNCHANGED <<size, entries, used>>

(* Any cap exceeded traps the guest.                                       *)
TrapPut(c, k, len) ==
  /\ pc[c] = "guest" /\ "kv" \in Uses[c]
  /\ \/ KeyLen[k] > MaxKey
     \/ len > MaxValue
     \/ ctx[c].putCount + 1 > MaxPuts
     \/ ctx[c].putBytes + PutBytes(k, len) > MaxPutBytes
  /\ Drop(c)
  /\ UNCHANGED <<entries, used>>

Cost(k, len) == IF len = Absent THEN 0 ELSE Overhead + KeyLen[k] + len

NewUsedTwice(t, k, len) == used[t] + Cost(k, len)  \* mutant: old value stays charged
NewUsedBare(t, k, len) ==  \* mutant: the overhead is refunded, never charged
  used[t] - Cost(k, entries[t][k]) + KeyLen[k] + len
NewUsed(t, k, len) == used[t] - Cost(k, entries[t][k]) + Cost(k, len)

(* The quota check and the write, under the one lock.                      *)
Store(c) ==
  LET t == TenantOf[c]
      k == pending[c].key
      len == pending[c].len
  IN /\ pc[c] = "put"
     /\ NewUsed(t, k, len) <= TenantCap
     /\ used' = [used EXCEPT ![t] = NewUsed(t, k, len)]
     /\ entries' = [entries EXCEPT ![t][k] = len]
     /\ pc' = [pc EXCEPT ![c] = "guest"]
     /\ pending' = [pending EXCEPT ![c] = NoPut]
     /\ UNCHANGED <<ctx, size>>

QuotaExceeded(c) ==
  /\ pc[c] = "put"
  /\ NewUsed(TenantOf[c], pending[c].key, pending[c].len) > TenantCap
  /\ Drop(c)
  /\ UNCHANGED <<entries, used>>

-----------------------------------------------------------------------------
(* log::Host::emit.                                                        *)

Truncated(len) == Min({len, MaxMsg})

(* Past either limit a line is dropped and the guest runs on.              *)
Emit(c, len) ==
  /\ pc[c] = "guest" /\ "log" \in Uses[c]
  /\ ctx[c].lines < MaxLines /\ ctx[c].logBytes < MaxLogBytes
  /\ ctx' = [ctx EXCEPT ![c].lines = @ + 1, ![c].logBytes = @ + Truncated(len)]
  /\ UNCHANGED <<pc, size, pending, entries, used>>

-----------------------------------------------------------------------------
Init ==
  /\ pc = [c \in Calls |-> "idle"]
  /\ ctx = [c \in Calls |-> Fresh]
  /\ size = [c \in Calls |-> Empty]
  /\ pending = [c \in Calls |-> NoPut]
  /\ entries = [t \in Tenants |-> [k \in Keys |-> Absent]]
  /\ used = [t \in Tenants |-> 0]

Next ==
  \E c \in Calls :
    \/ Start(c) \/ End(c)
    \/ \E r \in Regions : \E desired \in 1 .. DeclaredMax[r] :
         Grow(c, r, desired) \/ RefuseGrowth(c, r, desired)
    \/ \E k \in Keys, len \in 0 .. MaxValue + 1 : Put(c, k, len) \/ TrapPut(c, k, len)
    \/ Store(c) \/ QuotaExceeded(c)
    \/ \E len \in 0 .. MaxMsg + 1 : Emit(c, len)

Spec == Init /\ [][Next]_vars

-----------------------------------------------------------------------------
(* Every variable has its type.  What a tenant is charged is never         *)
(* negative (with KvQuotaExact, which makes `used` cover the old value,    *)
(* this is the underflow the comment at kv.rs:127-128 argues away); and    *)
(* the counters of an invocation stay within its caps, the log's bytes     *)
(* overshooting by less than one message (sandbox.rs:60-77).               *)
TypeOK ==
  /\ pc \in [Calls -> {"idle", "guest", "put"}]
  /\ ctx \in [Calls -> [total : [Kinds -> Nat], peak : Nat, capHit : BOOLEAN,
                        putCount : 0..MaxPuts, putBytes : 0..MaxPutBytes,
                        lines : 0..MaxLines, logBytes : 0..(MaxLogBytes + MaxMsg - 1)]]
  /\ size \in [Calls -> [Regions -> Nat]]
  /\ pending \in [Calls -> [key : Keys \cup {Absent}, len : Nat]]
  /\ entries \in [Tenants -> [Keys -> Nat \cup {Absent}]]
  /\ used \in [Tenants -> Nat]

(* The sum of f over S, counted as pairs.                                  *)
SumOver(f, S) == Cardinality(UNION {{x} \X (1..f[x]) : x \in S})

Combined(c, regions) == SumOver(size[c], regions)

(* All the memories of a store together stay under the tenant's cap, and   *)
(* so do its tables, whichever of them grew in which order and whichever   *)
(* growth failed after it was accepted; and the peak an invocation is      *)
(* billed for is never less than what its guest holds (types.rs:248-262).  *)
StoreWithinCap ==
  \A c \in Calls :
    /\ Combined(c, Memories) <= ctx[c].peak
    /\ ctx[c].peak <= MemCap
    /\ Combined(c, Tables) <= TableCap

Costs(row) == [k \in Keys |-> Cost(k, row[k])]
TenantHolds(t) == SumOver(Costs(entries[t]), Keys)

(* What MemKv charges a tenant is exactly what the tenant's entries cost,  *)
(* never over its quota, whatever calls of the tenant overwrite one        *)
(* another's keys or vanish in the middle of a put (kv.rs:113-142).        *)
KvQuotaExact ==
  \A t \in Tenants : used[t] = TenantHolds(t) /\ used[t] <= TenantCap

-----------------------------------------------------------------------------
(* Why they hold: the limiter's counters cover the regions and stay within *)
(* the caps, a failed growth leaves them too high and never too low; and a *)
(* call that waits for the kv lock waits with a key.                       *)
CountersCoverRegions ==
  \A c \in Calls :
    /\ Combined(c, Memories) <= ctx[c].total["memory"]
    /\ ctx[c].total["memory"] <= ctx[c].peak
    /\ ctx[c].peak <= MemCap
    /\ Combined(c, Tables) <= ctx[c].total["table"]
    /\ ctx[c].total["table"] <= TableCap

WaitsWithKey == \A c \in Calls : pc[c] = "put" => pending[c].key \in Keys

IInv == TypeOK /\ CountersCoverRegions /\ WaitsWithKey /\ KvQuotaExact
=============================================================================
