--------------------------- MODULE ComponentCache ---------------------------
(***************************************************************************)
(* The in-memory LRU of pre-instantiated components of                     *)
(* crates/core/src/registry.rs.  Every access to the LRU is a critical     *)
(* section of one mutex, but a loader reads the disk or compiles between   *)
(* its miss and its insert, so loaders of one digest overlap.              *)
(*                                                                         *)
(* LruCache is the lru crate's: get makes an entry the most recent, put    *)
(* returns the value it replaces under the same key and silently drops the *)
(* oldest entry when a new key meets a full cache, pop_lru removes and     *)
(* returns the oldest.                                                     *)
(***************************************************************************)
EXTENDS Naturals, FiniteSets, SequencesExt

CONSTANTS
  Digests,
  Loaders,       \* blocking tasks that look up and load
  Cap,           \* cfg.component_cache_entries
  ByteBudget,    \* cfg.component_cache_bytes
  CwasmLen,      \* bytes of a digest's .cwasm
  WasmLen        \* bytes of a digest's source

ASSUME CacheAssumption ==
  /\ IsFiniteSet(Digests) /\ Digests # {}
  /\ Cap \in Nat \ {0}
  /\ ByteBudget \in Nat
  /\ CwasmLen \in [Digests -> Nat]
  /\ WasmLen \in [Digests -> Nat]

VARIABLES
  lru,      \* resident digests, oldest first
  weight,   \* CacheEntry::weight of each resident digest
  total,    \* ComponentCacheInner::total_bytes
  pc,       \* where each loader stands
  want      \* the digest it loads

cacheVars == <<lru, weight, total>>
lruVars == <<cacheVars, pc, want>>

Entries(s) == {s[i] : i \in 1..Len(s)}
Resident == Entries(lru)
Without(s, d) ==
  IF d \in Entries(s) THEN RemoveAt(s, CHOOSE i \in 1..Len(s) : s[i] = d) ELSE s
SaturatingSub(a, b) == IF a >= b THEN a - b ELSE 0

-----------------------------------------------------------------------------
(* LruCache::get                                                           *)
Get(d) == lru' = Append(Without(lru, d), d)

(* The sequence after LruCache::put of d.                                  *)
PutBeside(d) ==  \* mutant: pushed without replacing the entry of its key
  Append(IF Len(lru) = Cap THEN Tail(lru) ELSE lru, d)
Put(d) ==
  LET rest == Without(lru, d) IN
  Append(IF Len(rest) = Cap THEN Tail(rest) ELSE rest, d)

(* What put gives back: the weight it replaced under the same key.         *)
Returned(d) == IF d \in Resident THEN weight[d] ELSE 0

(* total_bytes with the entry that was put and without what it replaced.   *)
ChargedNothing(d, w) ==  \* mutant: the new entry is not added
  SaturatingSub(total, Returned(d))
ChargedTwice(d, w) == total + w  \* mutant: what was replaced stays counted
Charged(d, w) == SaturatingSub(total, Returned(d)) + w

(* The bytes of the entries S.                                             *)
BytesOf(w, S) == Cardinality(UNION {{d} \X (1..w[d]) : d \in S})

(* total_bytes once the k oldest entries of s have been popped, each with  *)
(* a subtraction that saturates.                                           *)
TotalAfter(s, w, start) ==
  [k \in 0..Len(s) |-> SaturatingSub(start, BytesOf(w, {s[i] : i \in 1..k}))]

(* The pop_lru loop removes k of n entries.                                *)
PoppedLate(after, n, k) ==  \* mutant: one byte too many is let stand
  /\ after[k] <= ByteBudget + 1 \/ k = n
  /\ \A j \in 0..(k - 1) : after[j] > ByteBudget + 1
Popped(after, n, k) ==
  /\ after[k] <= ByteBudget \/ k = n
  /\ \A j \in 0..(k - 1) : after[j] > ByteBudget

(* ComponentCache::insert, one critical section.                           *)
Insert(d, w) ==
  LET s == Put(d)
      weights == [weight EXCEPT ![d] = w]
      after == TotalAfter(s, weights, Charged(d, w))
  IN \E k \in 0..Len(s) :
       /\ Popped(after, Len(s), k)
       /\ lru' = SubSeq(s, k + 1, Len(s))
       /\ weight' = [e \in Digests |-> IF e \in Resident' THEN weights[e] ELSE 0]
       /\ total' = after[k]

Done(l) ==
  /\ pc' = [pc EXCEPT ![l] = "idle"]
  /\ UNCHANGED want

(* ComponentCache::lookup of the digest a pointer named.                   *)
Lookup(l, d) ==
  /\ pc[l] = "idle"
  /\ \/ /\ d \in Resident
        /\ Get(d)
        /\ UNCHANGED <<pc, want>>
     \/ /\ d \notin Resident
        /\ pc' = [pc EXCEPT ![l] = "load"]
        /\ want' = [want EXCEPT ![l] = d]
        /\ UNCHANGED lru
  /\ UNCHANGED <<weight, total>>

(* load_existing asks the LRU again, first without a compile permit and    *)
(* then, from get_or_load, with one.                                       *)
LoadExisting(l) ==
  /\ pc[l] \in {"load", "reload"}
  /\ \/ /\ want[l] \in Resident
        /\ Get(want[l])
        /\ Done(l)
     \/ /\ want[l] \notin Resident
        /\ pc' = [pc EXCEPT ![l] = IF @ = "load" THEN "read" ELSE "reread"]
        /\ UNCHANGED <<lru, want>>
  /\ UNCHANGED <<weight, total>>

(* The .cwasm was deserialised.  Its length is 0 when the file went away   *)
(* before it could be measured.  A component that fails instantiate_pre is *)
(* an error and is not inserted.                                           *)
ReadCwasm(l) ==
  /\ pc[l] \in {"read", "reread"}
  /\ Done(l)
  /\ \/ \E w \in {CwasmLen[want[l]], 0} : Insert(want[l], w)
     \/ UNCHANGED cacheVars

(* No .cwasm this engine can load.                                         *)
NeedsCompile(l) ==
  /\ pc[l] \in {"read", "reread"}
  /\ pc' = [pc EXCEPT ![l] = IF @ = "read" THEN "reload" ELSE "compile"]
  /\ UNCHANGED <<cacheVars, want>>

(* recompile: the weight is the source's when the .cwasm could not be      *)
(* written back.  A missing or bad source is an error.                     *)
Recompile(l) ==
  /\ pc[l] = "compile"
  /\ Done(l)
  /\ \/ \E w \in {CwasmLen[want[l]], WasmLen[want[l]]} : Insert(want[l], w)
     \/ UNCHANGED cacheVars

-----------------------------------------------------------------------------
LruInit ==
  /\ lru = <<>>
  /\ weight = [d \in Digests |-> 0]
  /\ total = 0
  /\ pc = [l \in Loaders |-> "idle"]
  /\ want \in [Loaders -> {CHOOSE d \in Digests : TRUE}]

LruNext ==
  \E l \in Loaders :
    \/ \E d \in Digests : Lookup(l, d)
    \/ LoadExisting(l)
    \/ ReadCwasm(l)
    \/ NeedsCompile(l)
    \/ Recompile(l)

LruSpec == LruInit /\ [][LruNext]_lruVars

-----------------------------------------------------------------------------
(* The LRU order lists each digest once, and every variable has its type   *)
(* (ComponentCache, registry.rs:190-213).                                  *)
LruTypeOK ==
  /\ lru \in Seq(Digests)
  /\ \A i, j \in 1..Len(lru) : lru[i] = lru[j] => i = j
  /\ weight \in [Digests -> Nat]
  /\ total \in Nat
  /\ pc \in [Loaders ->
               {"idle", "load", "read", "reload", "reread", "compile"}]
  /\ want \in [Loaders -> Digests]

ResidentBytes == BytesOf(weight, Digests)

(* Whatever the loaders do, between two critical sections the cache holds  *)
(* at most Cap entries and ByteBudget bytes: "bounded by both entry count  *)
(* and total serialized-cwasm bytes".                                      *)
WithinCaps ==
  /\ Len(lru) <= Cap
  /\ ResidentBytes <= ByteBudget

(* total_bytes never falls below what is resident, so the subtraction that *)
(* saturates never hides bytes the budget should count.                    *)
TotalCoversResident == total >= ResidentBytes

(* The only step that moves total_bytes away from the resident bytes is    *)
(* one that loses the oldest entry of a cache at its count cap; replacing  *)
(* a digest, also with another weight, and popping keep them in step.      *)
DriftOnlyAtCountCap ==
  [][ total' - ResidentBytes' # total - ResidentBytes
        => Len(lru) = Cap /\ lru[1] \notin Resident' ]_cacheVars

(* What insert documents: entries are evicted "until back under both       *)
(* caps", so a component that fits the byte budget by itself is resident   *)
(* once it was inserted.                                                   *)
InsertedEntryStays ==
  [][ \A l \in Loaders, w \in 0..ByteBudget :
        pc[l] = "compile" /\ Insert(want[l], w) /\ pc'[l] = "idle"
          => want[l] \in Resident' ]_lruVars

-----------------------------------------------------------------------------
(* Why they hold: what is not resident weighs nothing, and total_bytes is  *)
(* what the loop compares with the budget.                                 *)
GoneWeighsNothing == \A d \in Digests \ Resident : weight[d] = 0

LruInv == LruTypeOK /\ WithinCaps /\ TotalCoversResident /\ GoneWeighsNothing
=============================================================================
