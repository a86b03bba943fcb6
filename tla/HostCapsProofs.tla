--------------------------- MODULE HostCapsProofs ---------------------------
(***************************************************************************)
(* The caps of one invocation and the kv quota of a tenant, for any calls, *)
(* tenants, caps, keys and any finite set of memories and tables.          *)
(***************************************************************************)
EXTENDS HostCaps, FiniteSetTheorems, TLAPS

-----------------------------------------------------------------------------
(* Sums over a finite set.                                                 *)

Bar(x, n) == {x} \X (1..n)

LEMMA BarSize ==
  ASSUME NEW x, NEW n \in Nat
  PROVE  IsFiniteSet(Bar(x, n)) /\ Cardinality(Bar(x, n)) = n
<1> DEFINE one == {x}
           interval == 1..n
<1>1. IsFiniteSet(one) /\ Cardinality(one) = 1
  BY FS_Singleton
<1>2. IsFiniteSet(interval) /\ Cardinality(interval) = n
  <2>1. /\ IsFiniteSet(interval)
        /\ Cardinality(interval) = IF 1 > n THEN 0 ELSE n - 1 + 1
    BY ONLY FS_Interval, 1 \in Int, n \in Int, Zenon
  <2> QED BY <2>1
<1> HIDE DEF one, interval
<1>3. /\ IsFiniteSet(one \X interval)
      /\ Cardinality(one \X interval) = Cardinality(one) * Cardinality(interval)
  BY <1>1, <1>2, FS_Product
<1> QED BY <1>1, <1>2, <1>3 DEF Bar, one, interval

Bars(f, S) == UNION {Bar(x, f[x]) : x \in S}

LEMMA BarsFinite ==
  ASSUME NEW S, IsFiniteSet(S), NEW f, \A x \in S : f[x] \in Nat
  PROVE  IsFiniteSet(Bars(f, S)) /\ SumOver(f, S) = Cardinality(Bars(f, S))
            /\ SumOver(f, S) \in Nat
<1> DEFINE All == {Bar(x, f[x]) : x \in S}
           g == [x \in S |-> Bar(x, f[x])]
<1>1. g \in Surjection(S, All)
  BY DEF Surjection
<1>2. IsFiniteSet(All)
  BY <1>1, FS_Surjection
<1>3. \A s \in All : IsFiniteSet(s)
  BY BarSize
<1>4. IsFiniteSet(UNION All)
  BY <1>2, <1>3, FS_UNION
<1> QED BY <1>4, FS_CardinalityType DEF Bars, Bar, SumOver

(* A sum is one of its terms and the sum of the others.                    *)
LEMMA SumSplits ==
  ASSUME NEW S, IsFiniteSet(S), NEW f, \A x \in S : f[x] \in Nat, NEW y \in S
  PROVE  /\ SumOver(f, S) = SumOver(f, S \ {y}) + f[y]
         /\ SumOver(f, S \ {y}) \in Nat
<1> DEFINE R == S \ {y}
<1>1. IsFiniteSet(R)
  BY FS_Difference
<1>2. /\ IsFiniteSet(Bars(f, R)) /\ SumOver(f, R) = Cardinality(Bars(f, R))
      /\ SumOver(f, R) \in Nat
  BY <1>1, BarsFinite
<1>3. SumOver(f, S) = Cardinality(Bars(f, S))
  BY BarsFinite
<1>4. Bars(f, S) = Bars(f, R) \cup Bar(y, f[y])
  BY DEF Bars
<1>5. Bars(f, R) \cap Bar(y, f[y]) = {}
  BY DEF Bars, Bar
<1>6. IsFiniteSet(Bar(y, f[y])) /\ Cardinality(Bar(y, f[y])) = f[y]
  BY BarSize
<1>7. Cardinality(Bars(f, R) \cup Bar(y, f[y]))
        = Cardinality(Bars(f, R)) + Cardinality(Bar(y, f[y]))
            - Cardinality(Bars(f, R) \cap Bar(y, f[y]))
  BY <1>2, <1>6, FS_Union
<1>8. Cardinality(Bars(f, R) \cap Bar(y, f[y])) = 0
  BY <1>5, FS_EmptySet
<1> QED BY <1>2, <1>3, <1>4, <1>6, <1>7, <1>8

LEMMA SumsAgree ==
  ASSUME NEW S, NEW f, NEW g, \A x \in S : f[x] = g[x]
  PROVE  SumOver(f, S) = SumOver(g, S)
<1>1. {{x} \X (1..f[x]) : x \in S} = {{x} \X (1..g[x]) : x \in S}
  OBVIOUS
<1> QED BY <1>1 DEF SumOver

(* Changing one term changes the sum by as much.                           *)
LEMMA SumAfterChange ==
  ASSUME NEW S, IsFiniteSet(S), NEW f, NEW g, NEW y \in S,
         \A x \in S : f[x] \in Nat /\ g[x] \in Nat,
         \A x \in S \ {y} : f[x] = g[x]
  PROVE  /\ SumOver(g, S) + f[y] = SumOver(f, S) + g[y]
         /\ SumOver(f, S) \in Nat /\ SumOver(g, S) \in Nat /\ SumOver(f, S) >= f[y]
<1>1. /\ SumOver(f, S) = SumOver(f, S \ {y}) + f[y]
      /\ SumOver(f, S \ {y}) \in Nat
  BY SumSplits
<1>2. /\ SumOver(g, S) = SumOver(g, S \ {y}) + g[y]
      /\ SumOver(g, S \ {y}) \in Nat
  BY SumSplits
<1>3. SumOver(f, S \ {y}) = SumOver(g, S \ {y})
  BY SumsAgree
<1>4. f[y] \in Nat /\ g[y] \in Nat
  OBVIOUS
<1> QED BY <1>1, <1>2, <1>3, <1>4

LEMMA SumOfNothing ==
  ASSUME NEW S, NEW f, \A x \in S : f[x] = 0
  PROVE  SumOver(f, S) = 0
<1>1. 1..0 = {}
  OBVIOUS
<1>2. UNION {{x} \X (1..f[x]) : x \in S} = {}
  BY <1>1
<1> QED BY <1>2, FS_EmptySet DEF SumOver

-----------------------------------------------------------------------------
(* The operators of the model.                                             *)

LEMMA MaxOfTwo ==
  ASSUME NEW a \in Nat, NEW b \in Nat
  PROVE  Max({a, b}) \in Nat /\ Max({a, b}) >= a /\ Max({a, b}) >= b
            /\ Max({a, b}) \in {a, b}
<1>1. \E x \in {a, b} : \A y \in {a, b} : x >= y
  OBVIOUS
<1> QED BY <1>1 DEF Max

LEMMA TruncatedInRange ==
  ASSUME NEW n \in Nat
  PROVE  Truncated(n) \in 0 .. MaxMsg
<1>1. MaxMsg \in Nat
  BY CapsAssumption
<1>2. \E x \in {n, MaxMsg} : \A y \in {n, MaxMsg} : x <= y
  BY <1>1
<1> QED BY <1>1, <1>2 DEF Truncated, Min

LEMMA CapConstants ==
  /\ {MemCap, TableCap, MaxKey, MaxValue, MaxPuts, MaxPutBytes,
      Overhead, TenantCap, MaxMsg, MaxLines, MaxLogBytes} \subseteq Nat
  /\ MaxLogBytes > 0
  /\ \A c \in Calls : TenantOf[c] \in Tenants
  /\ \A k \in Keys : KeyLen[k] \in Nat
  /\ \A r \in Regions : DeclaredMax[r] \in Nat
  /\ Absent \notin Nat
BY CapsAssumption

LEMMA RegionsOfAKind ==
  /\ IsFiniteSet(Memories) /\ IsFiniteSet(Tables)
  /\ Memories \subseteq Regions /\ Tables \subseteq Regions
  /\ \A r \in Memories : KindOf(r) = "memory"
  /\ \A r \in Tables : KindOf(r) = "table" /\ r \notin Memories
  /\ Cap["memory"] = MemCap /\ Cap["table"] = TableCap
BY CapsAssumption DEF Regions, KindOf, Cap

LEMMA CostIsNat ==
  ASSUME NEW k \in Keys, NEW len \in Nat \cup {Absent}
  PROVE  Cost(k, len) \in Nat
BY CapConstants DEF Cost

HostCtx == [total : [Kinds -> Nat], peak : Nat, capHit : BOOLEAN,
            putCount : 0..MaxPuts, putBytes : 0..MaxPutBytes,
            lines : 0..MaxLines, logBytes : 0..(MaxLogBytes + MaxMsg - 1)]

LEMMA FreshIsHostCtx == Fresh \in HostCtx
BY CapConstants DEF Fresh, HostCtx, Kinds

(* What the regions of a call's store hold together, when they are sz.     *)
Sized(sz, regions) == SumOver(sz, regions)

(* The counters x of one call cover its regions sz.                        *)
Covers(x, sz) ==
  /\ Sized(sz, Memories) <= x.total["memory"]
  /\ x.total["memory"] <= x.peak
  /\ x.peak <= MemCap
  /\ Sized(sz, Tables) <= x.total["table"]
  /\ x.total["table"] <= TableCap

LEMMA CoversEachCall ==
  CountersCoverRegions <=> \A c \in Calls : Covers(ctx[c], size[c])
BY DEF CountersCoverRegions, Covers, Combined, Sized

LEMMA CoversEachCallNext ==
  CountersCoverRegions' <=> \A c \in Calls : Covers(ctx'[c], size'[c])
BY DEF CountersCoverRegions, Covers, Combined, Sized

LEMMA FreshCoversEmpty == Covers(Fresh, Empty)
<1>1. SumOver(Empty, Memories) = 0 /\ SumOver(Empty, Tables) = 0
  <2>1. (\A r \in Memories : Empty[r] = 0) /\ (\A r \in Tables : Empty[r] = 0)
    BY DEF Empty, Regions
  <2> QED BY <2>1, SumOfNothing
<1> QED BY <1>1, CapConstants DEF Covers, Sized, Fresh, Kinds

-----------------------------------------------------------------------------
(* The invariant.                                                          *)

(* A step that leaves MemKv alone, gives call c the context x, the regions *)
(* sz and the put p, and moves it to stage.                                *)
MovesTo(c, stage, x, sz, p) ==
  /\ pc' = [pc EXCEPT ![c] = stage]
  /\ ctx' = [ctx EXCEPT ![c] = x]
  /\ size' = [size EXCEPT ![c] = sz]
  /\ pending' = [pending EXCEPT ![c] = p]

PutRequest == [key : Keys \cup {Absent}, len : Nat]

(* What such a step has to keep of the call's own state.                   *)
Proper(stage, x, sz, p) ==
  /\ stage \in {"idle", "guest", "put"}
  /\ x \in HostCtx
  /\ sz \in [Regions -> Nat]
  /\ p \in PutRequest
  /\ stage = "put" => p.key \in Keys
  /\ Covers(x, sz)

CallsInv ==
  /\ pc \in [Calls -> {"idle", "guest", "put"}]
  /\ ctx \in [Calls -> HostCtx]
  /\ size \in [Calls -> [Regions -> Nat]]
  /\ pending \in [Calls -> PutRequest]
  /\ CountersCoverRegions
  /\ WaitsWithKey

KvInv ==
  /\ entries \in [Tenants -> [Keys -> Nat \cup {Absent}]]
  /\ used \in [Tenants -> Nat]
  /\ KvQuotaExact

LEMMA TwoParts == IInv <=> CallsInv /\ KvInv
BY DEF IInv, TypeOK, CallsInv, KvInv, HostCtx, PutRequest

LEMMA OwnState ==
  ASSUME CallsInv, NEW c \in Calls
  PROVE  Proper(pc[c], ctx[c], size[c], pending[c])
BY CoversEachCall DEF CallsInv, Proper, WaitsWithKey

LEMMA MovesKeepCalls ==
  ASSUME CallsInv, NEW c \in Calls, NEW stage, NEW x, NEW sz, NEW p,
         Proper(stage, x, sz, p), MovesTo(c, stage, x, sz, p)
  PROVE  CallsInv'
<1>1. /\ pc' \in [Calls -> {"idle", "guest", "put"}]
      /\ ctx' \in [Calls -> HostCtx]
      /\ size' \in [Calls -> [Regions -> Nat]]
      /\ pending' \in [Calls -> PutRequest]
  BY DEF CallsInv, MovesTo, Proper
<1>2. CountersCoverRegions'
  <2>1. \A d \in Calls : Covers(ctx'[d], size'[d])
    BY CoversEachCall DEF CallsInv, MovesTo, Proper
  <2> QED BY <2>1, CoversEachCallNext
<1>3. WaitsWithKey'
  BY DEF CallsInv, WaitsWithKey, MovesTo, Proper
<1> QED BY <1>1, <1>2, <1>3 DEF CallsInv

LEMMA UntouchedKvStays ==
  ASSUME KvInv, UNCHANGED <<entries, used>>
  PROVE  KvInv'
BY DEF KvInv, KvQuotaExact, TenantHolds, Costs

LEMMA EmptyHolds ==
  ASSUME Init
  PROVE  IInv
<1>1. CallsInv
  <2>1. pc \in [Calls -> {"idle", "guest", "put"}]
    BY DEF Init
  <2>2. ctx \in [Calls -> HostCtx]
    BY FreshIsHostCtx DEF Init
  <2>3. size \in [Calls -> [Regions -> Nat]]
    BY DEF Init, Empty
  <2>4. pending \in [Calls -> PutRequest]
    BY DEF Init, NoPut, PutRequest
  <2>5. CountersCoverRegions
    BY CoversEachCall, FreshCoversEmpty DEF Init
  <2>6. WaitsWithKey
    BY DEF Init, WaitsWithKey
  <2> QED BY <2>1, <2>2, <2>3, <2>4, <2>5, <2>6 DEF CallsInv
<1>2. KvInv
  <2>1. /\ entries \in [Tenants -> [Keys -> Nat \cup {Absent}]]
        /\ used \in [Tenants -> Nat]
    BY DEF Init
  <2>2. ASSUME NEW t \in Tenants PROVE used[t] = TenantHolds(t) /\ used[t] <= TenantCap
    <3>1. \A k \in Keys : Costs(entries[t])[k] = 0
      BY DEF Init, Costs, Cost
    <3>2. TenantHolds(t) = 0
      BY <3>1, SumOfNothing DEF TenantHolds
    <3> QED BY <3>2, CapConstants DEF Init
  <2> QED BY <2>1, <2>2 DEF KvInv, KvQuotaExact
<1> QED BY <1>1, <1>2, TwoParts

(* However an invocation ends, its store and its counters go with it.      *)
LEMMA DropKeeps ==
  ASSUME CallsInv, NEW c \in Calls, Drop(c)
  PROVE  CallsInv'
<1>1. Proper("idle", Fresh, Empty, NoPut)
  BY FreshIsHostCtx, FreshCoversEmpty DEF Proper, NoPut, PutRequest, Empty
<1>2. MovesTo(c, "idle", Fresh, Empty, NoPut)
  BY DEF Drop, MovesTo
<1> QED BY <1>1, <1>2, MovesKeepCalls

LEMMA StartKeeps ==
  ASSUME CallsInv, NEW c \in Calls, Start(c)
  PROVE  CallsInv'
<1>1. Proper("guest", ctx[c], size[c], pending[c])
  BY OwnState DEF Proper
<1>2. MovesTo(c, "guest", ctx[c], size[c], pending[c])
  BY DEF Start, MovesTo, CallsInv
<1> QED BY <1>1, <1>2, MovesKeepCalls

(* What the sums of a store become when one region grows.                  *)
LEMMA SumsAfterGrowth ==
  ASSUME NEW sz \in [Regions -> Nat], NEW grown \in [Regions -> Nat], NEW r \in Regions,
         \A x \in Regions \ {r} : sz[x] = grown[x]
  PROVE  /\ Sized(sz, Memories) \in Nat /\ Sized(sz, Tables) \in Nat
         /\ Sized(grown, Memories) \in Nat /\ Sized(grown, Tables) \in Nat
         /\ r \in Memories =>
              /\ Sized(grown, Memories) + sz[r] = Sized(sz, Memories) + grown[r]
              /\ Sized(grown, Tables) = Sized(sz, Tables)
         /\ r \notin Memories =>
              /\ Sized(grown, Tables) + sz[r] = Sized(sz, Tables) + grown[r]
              /\ Sized(grown, Memories) = Sized(sz, Memories)
<1>1. /\ Sized(sz, Memories) \in Nat /\ Sized(sz, Tables) \in Nat
      /\ Sized(grown, Memories) \in Nat /\ Sized(grown, Tables) \in Nat
  BY RegionsOfAKind, BarsFinite DEF Sized
<1>2. ASSUME NEW S, IsFiniteSet(S), S \subseteq Regions, r \in S
      PROVE  SumOver(grown, S) + sz[r] = SumOver(sz, S) + grown[r]
  <2>1. \A x \in S : sz[x] \in Nat /\ grown[x] \in Nat
    BY <1>2
  <2>2. \A x \in S \ {r} : sz[x] = grown[x]
    BY <1>2
  <2>3. /\ SumOver(grown, S) + sz[r] = SumOver(sz, S) + grown[r]
        /\ SumOver(sz, S) \in Nat /\ SumOver(grown, S) \in Nat /\ SumOver(sz, S) >= sz[r]
    BY ONLY <1>2, <2>1, <2>2, SumAfterChange, Zenon
  <2> QED BY <2>3
<1>3. ASSUME NEW S, S \subseteq Regions, r \notin S
      PROVE  SumOver(grown, S) = SumOver(sz, S)
  <2>1. \A x \in S : grown[x] = sz[x]
    BY <1>3
  <2> QED BY <2>1, SumsAgree
<1>4. CASE r \in Memories
  <2>1. r \notin Tables
    BY <1>4, RegionsOfAKind
  <2>2. SumOver(grown, Memories) + sz[r] = SumOver(sz, Memories) + grown[r]
    BY <1>2, <1>4, RegionsOfAKind
  <2>3. SumOver(grown, Tables) = SumOver(sz, Tables)
    BY <1>3, <2>1, RegionsOfAKind
  <2> QED BY <1>1, <1>4, <2>2, <2>3 DEF Sized
<1>5. CASE r \notin Memories
  <2>1. r \in Tables
    BY <1>5 DEF Regions
  <2>2. SumOver(grown, Tables) + sz[r] = SumOver(sz, Tables) + grown[r]
    BY <1>2, <2>1, RegionsOfAKind
  <2>3. SumOver(grown, Memories) = SumOver(sz, Memories)
    BY <1>3, <1>5, RegionsOfAKind
  <2> QED BY <1>1, <1>5, <2>2, <2>3 DEF Sized
<1> QED BY <1>4, <1>5

LEMMA GrowKeeps ==
  ASSUME CallsInv, NEW c \in Calls, NEW r \in Regions,
         NEW desired \in 1 .. DeclaredMax[r], Grow(c, r, desired)
  PROVE  CallsInv'
<1> DEFINE sz == size[c]
           x == ctx[c]
           kind == KindOf(r)
           total == Charged(c, r, desired)
           peak == IF r \in Memories THEN Max({x.peak, total}) ELSE x.peak
           y == [x EXCEPT !.total[kind] = total, !.peak = peak]
           grown == [sz EXCEPT ![r] = desired]
<1>1. Proper("guest", x, sz, pending[c])
  BY OwnState DEF Grow, Proper
<1>2. desired \in Nat /\ sz[r] \in Nat /\ sz[r] < desired /\ sz \in [Regions -> Nat]
  BY <1>1, CapConstants DEF Grow, Proper
<1>3. kind \in Kinds /\ x.total[kind] \in Nat /\ x.peak \in Nat
        /\ x.total \in [Kinds -> Nat] /\ x \in HostCtx
  BY <1>1 DEF KindOf, Kinds, Proper, HostCtx
<1>4. total = x.total[kind] + (desired - sz[r]) /\ total \in Nat /\ total > x.total[kind]
  BY <1>2, <1>3 DEF Charged
<1>5. total <= Cap[kind] /\ ctx' = [ctx EXCEPT ![c] = y]
  BY DEF Grow
<1>6. /\ peak \in Nat /\ peak >= x.peak
      /\ r \in Memories => peak >= total /\ peak \in {x.peak, total}
      /\ r \notin Memories => peak = x.peak
  BY <1>3, <1>4, MaxOfTwo
<1>7. /\ y \in HostCtx /\ y.peak = peak
      /\ y.total = [x.total EXCEPT ![kind] = total]
  BY <1>3, <1>4, <1>6 DEF HostCtx
<1>8. Covers(x, sz)
  BY <1>1 DEF Proper
<1>9. /\ Sized(sz, Memories) \in Nat /\ Sized(sz, Tables) \in Nat
      /\ Sized(grown, Memories) \in Nat /\ Sized(grown, Tables) \in Nat
      /\ r \in Memories =>
           /\ Sized(grown, Memories) + sz[r] = Sized(sz, Memories) + desired
           /\ Sized(grown, Tables) = Sized(sz, Tables)
      /\ r \notin Memories =>
           /\ Sized(grown, Tables) + sz[r] = Sized(sz, Tables) + desired
           /\ Sized(grown, Memories) = Sized(sz, Memories)
  <2>1. /\ grown \in [Regions -> Nat] /\ grown[r] = desired
        /\ \A q \in Regions \ {r} : sz[q] = grown[q]
    BY <1>2
  <2> HIDE DEF sz, grown
  <2> QED BY <1>2, <2>1, SumsAfterGrowth
<1>10. MemCap \in Nat /\ TableCap \in Nat
  BY CapConstants
<1>11. Covers(y, sz) /\ Covers(y, grown)
  <2> HIDE DEF sz, x, total, peak, y, grown
  <2>1. CASE r \in Memories
    <3>1. kind = "memory" /\ Cap[kind] = MemCap
      BY <2>1, RegionsOfAKind
    <3>2. y.total["memory"] = total /\ y.total["table"] = x.total["table"]
            /\ x.total["table"] \in Nat
      BY <1>3, <1>7, <3>1 DEF Kinds
    <3> HIDE DEF kind
    <3> QED BY <1>2, <1>3, <1>4, <1>5, <1>6, <1>7, <1>8, <1>9, <1>10, <2>1, <3>1, <3>2
            DEF Covers
  <2>2. CASE r \notin Memories
    <3>1. kind = "table" /\ Cap[kind] = TableCap
      BY <2>2, RegionsOfAKind DEF KindOf
    <3>2. y.total["table"] = total /\ y.total["memory"] = x.total["memory"]
            /\ x.total["memory"] \in Nat
      BY <1>3, <1>7, <3>1 DEF Kinds
    <3> HIDE DEF kind
    <3> QED BY <1>2, <1>3, <1>4, <1>5, <1>6, <1>7, <1>8, <1>9, <1>10, <2>2, <3>1, <3>2
            DEF Covers
  <2> QED BY <2>1, <2>2
<1>12. Proper("guest", y, sz, pending[c]) /\ Proper("guest", y, grown, pending[c])
  BY <1>1, <1>2, <1>7, <1>11 DEF Proper
<1>13. \/ MovesTo(c, "guest", y, sz, pending[c])
       \/ MovesTo(c, "guest", y, grown, pending[c])
  BY <1>5 DEF Grow, MovesTo, CallsInv
<1> QED BY <1>12, <1>13, MovesKeepCalls

LEMMA RefuseGrowthKeeps ==
  ASSUME CallsInv, NEW c \in Calls, NEW r \in Regions,
         NEW desired \in 1 .. DeclaredMax[r], RefuseGrowth(c, r, desired)
  PROVE  CallsInv'
<1> DEFINE x == [ctx[c] EXCEPT !.capHit = @ \/ r \in Memories]
<1>1. Proper("guest", ctx[c], size[c], pending[c])
  BY OwnState DEF RefuseGrowth, Proper
<1>2. x \in HostCtx /\ x.total = ctx[c].total /\ x.peak = ctx[c].peak
  BY <1>1, Zenon DEF HostCtx, Proper
<1>3. Proper("guest", x, size[c], pending[c])
  BY <1>1, <1>2 DEF Proper, Covers
<1>4. MovesTo(c, "guest", x, size[c], pending[c])
  BY DEF RefuseGrowth, MovesTo, CallsInv
<1> QED BY <1>3, <1>4, MovesKeepCalls

LEMMA PutKeeps ==
  ASSUME CallsInv, NEW c \in Calls, NEW k \in Keys, NEW len \in 0 .. MaxValue + 1,
         Put(c, k, len)
  PROVE  CallsInv'
<1> DEFINE count == ctx[c].putCount + 1
           bytes == ctx[c].putBytes + PutBytes(k, len)
           x == [ctx[c] EXCEPT !.putCount = count, !.putBytes = bytes]
           p == [key |-> k, len |-> len]
<1>1. Proper("guest", ctx[c], size[c], pending[c])
  BY OwnState DEF Put, Proper
<1>2. len \in Nat /\ PutBytes(k, len) \in Nat /\ MaxPuts \in Nat /\ MaxPutBytes \in Nat
  BY CapConstants DEF PutBytes
<1>3. ctx[c].putCount \in Nat /\ ctx[c].putBytes \in Nat /\ ctx[c] \in HostCtx
  BY <1>1, <1>2 DEF Proper, HostCtx
<1>4. count \in 0 .. MaxPuts /\ bytes \in 0 .. MaxPutBytes
  BY <1>2, <1>3 DEF Put
<1>5. x \in HostCtx /\ x.total = ctx[c].total /\ x.peak = ctx[c].peak
  BY <1>3, <1>4 DEF HostCtx
<1>6. Proper("put", x, size[c], p)
  BY <1>1, <1>2, <1>5 DEF Proper, Covers, PutRequest
<1>7. MovesTo(c, "put", x, size[c], p)
  BY DEF Put, MovesTo, CallsInv
<1> QED BY <1>6, <1>7, MovesKeepCalls

LEMMA EmitKeeps ==
  ASSUME CallsInv, NEW c \in Calls, NEW len \in 0 .. MaxMsg + 1, Emit(c, len)
  PROVE  CallsInv'
<1> DEFINE x == [ctx[c] EXCEPT !.lines = @ + 1, !.logBytes = @ + Truncated(len)]
<1>1. Proper("guest", ctx[c], size[c], pending[c])
  BY OwnState DEF Emit, Proper
<1>2. /\ MaxMsg \in Nat /\ MaxLines \in Nat /\ MaxLogBytes \in Nat
      /\ Truncated(len) \in 0 .. MaxMsg
  BY CapConstants, TruncatedInRange
<1>3. ctx[c].lines \in Nat /\ ctx[c].logBytes \in Nat /\ ctx[c] \in HostCtx
  BY <1>1, <1>2 DEF Proper, HostCtx
<1>4. /\ ctx[c].lines + 1 \in 0 .. MaxLines
      /\ ctx[c].logBytes + Truncated(len) \in 0 .. (MaxLogBytes + MaxMsg - 1)
  BY <1>2, <1>3 DEF Emit
<1>5. x \in HostCtx /\ x.total = ctx[c].total /\ x.peak = ctx[c].peak
  BY <1>3, <1>4 DEF HostCtx
<1>6. Proper("guest", x, size[c], pending[c])
  BY <1>1, <1>5 DEF Proper, Covers
<1>7. MovesTo(c, "guest", x, size[c], pending[c])
  BY DEF Emit, MovesTo, CallsInv
<1> QED BY <1>6, <1>7, MovesKeepCalls

(* The write under the kv lock: the quota was checked against a charge     *)
(* that is exact, and stays exact.                                         *)
LEMMA StoreKeeps ==
  ASSUME CallsInv, KvInv, NEW c \in Calls, Store(c)
  PROVE  CallsInv' /\ KvInv'
<1> DEFINE t == TenantOf[c]
           k == pending[c].key
           len == pending[c].len
           row == entries[t]
           next == [row EXCEPT ![k] = len]
           f == Costs(row)
           g == Costs(next)
<1>1. Proper("put", ctx[c], size[c], pending[c])
  BY OwnState DEF Store, Proper
<1>2. k \in Keys /\ len \in Nat /\ t \in Tenants
  BY <1>1, CapConstants DEF Proper, PutRequest
<1>3. CallsInv'
  <2>1. Proper("guest", ctx[c], size[c], NoPut)
    BY <1>1 DEF Proper, NoPut, PutRequest
  <2>2. MovesTo(c, "guest", ctx[c], size[c], NoPut)
    BY DEF Store, MovesTo, CallsInv
  <2> QED BY <2>1, <2>2, MovesKeepCalls
<1>4. row \in [Keys -> Nat \cup {Absent}] /\ next \in [Keys -> Nat \cup {Absent}]
        /\ next[k] = len
  BY <1>2 DEF KvInv
<1>5. /\ \A j \in Keys : f[j] \in Nat /\ g[j] \in Nat
      /\ \A j \in Keys \ {k} : f[j] = g[j]
      /\ f[k] = Cost(k, row[k]) /\ g[k] = Cost(k, len)
  BY <1>2, <1>4, CostIsNat DEF Costs
<1>6. /\ SumOver(g, Keys) + f[k] = SumOver(f, Keys) + g[k]
      /\ SumOver(f, Keys) \in Nat /\ SumOver(g, Keys) \in Nat /\ SumOver(f, Keys) >= f[k]
  <2>1. IsFiniteSet(Keys)
    BY CapsAssumption
  <2> HIDE DEF f, g, k
  <2> QED BY <1>2, <1>5, <2>1, SumAfterChange, Zenon
<1>7. used[t] = SumOver(f, Keys)
  BY <1>2 DEF KvInv, KvQuotaExact, TenantHolds
<1>8. NewUsed(t, k, len) = SumOver(g, Keys)
  <2>1. NewUsed(t, k, len) = used[t] - f[k] + g[k]
    BY <1>5 DEF NewUsed
  <2>2. f[k] \in Nat /\ g[k] \in Nat
    BY <1>2, <1>5
  <2> HIDE DEF f, g
  <2> QED BY <1>6, <1>7, <2>1, <2>2
<1>9. /\ entries' = [entries EXCEPT ![t] = next]
      /\ used' = [used EXCEPT ![t] = NewUsed(t, k, len)]
      /\ NewUsed(t, k, len) <= TenantCap
  BY DEF Store
<1>10. KvInv'
  <2>1. /\ entries' \in [Tenants -> [Keys -> Nat \cup {Absent}]]
        /\ used' \in [Tenants -> Nat]
    BY <1>4, <1>6, <1>8, <1>9 DEF KvInv
  <2>2. ASSUME NEW u \in Tenants PROVE (used[u] = TenantHolds(u) /\ used[u] <= TenantCap)'
    <3>1. CASE u = t
      <4>1. entries'[u] = next /\ used'[u] = NewUsed(t, k, len)
        BY <1>2, <1>9, <3>1 DEF KvInv
      <4> QED BY <1>8, <1>9, <4>1 DEF TenantHolds
    <3>2. CASE u # t
      <4>1. entries'[u] = entries[u] /\ used'[u] = used[u]
        BY <1>9, <3>2 DEF KvInv
      <4>2. used[u] = TenantHolds(u) /\ used[u] <= TenantCap
        BY DEF KvInv, KvQuotaExact
      <4> QED BY <4>1, <4>2 DEF TenantHolds, Costs
    <3> QED BY <3>1, <3>2
  <2> QED BY <2>1, <2>2 DEF KvInv, KvQuotaExact
<1> QED BY <1>3, <1>10

-----------------------------------------------------------------------------
LEMMA NextKeepsIInv ==
  ASSUME IInv, [Next]_vars
  PROVE  IInv'
<1>0. CallsInv /\ KvInv
  BY TwoParts
<1>1. CallsInv' /\ KvInv'
  <2>1. ASSUME NEW c \in Calls, Start(c) PROVE CallsInv' /\ KvInv'
    BY <1>0, <2>1, StartKeeps, UntouchedKvStays DEF Start
  <2>2. ASSUME NEW c \in Calls, End(c) \/ QuotaExceeded(c) PROVE CallsInv' /\ KvInv'
    BY <1>0, <2>2, DropKeeps, UntouchedKvStays DEF End, QuotaExceeded
  <2>3. ASSUME NEW c \in Calls, NEW r \in Regions, NEW desired \in 1 .. DeclaredMax[r],
               Grow(c, r, desired)
        PROVE  CallsInv' /\ KvInv'
    BY <1>0, <2>3, GrowKeeps, UntouchedKvStays DEF Grow
  <2>4. ASSUME NEW c \in Calls, NEW r \in Regions, NEW desired \in 1 .. DeclaredMax[r],
               RefuseGrowth(c, r, desired)
        PROVE  CallsInv' /\ KvInv'
    BY <1>0, <2>4, RefuseGrowthKeeps, UntouchedKvStays DEF RefuseGrowth
  <2>5. ASSUME NEW c \in Calls, NEW k \in Keys, NEW len \in 0 .. MaxValue + 1, Put(c, k, len)
        PROVE  CallsInv' /\ KvInv'
    BY <1>0, <2>5, PutKeeps, UntouchedKvStays DEF Put
  <2>6. ASSUME NEW c \in Calls, NEW k \in Keys, NEW len \in 0 .. MaxValue + 1,
               TrapPut(c, k, len)
        PROVE  CallsInv' /\ KvInv'
    BY <1>0, <2>6, DropKeeps, UntouchedKvStays DEF TrapPut
  <2>7. ASSUME NEW c \in Calls, Store(c) PROVE CallsInv' /\ KvInv'
    BY <1>0, <2>7, StoreKeeps
  <2>8. ASSUME NEW c \in Calls, NEW len \in 0 .. MaxMsg + 1, Emit(c, len)
        PROVE  CallsInv' /\ KvInv'
    BY <1>0, <2>8, EmitKeeps, UntouchedKvStays DEF Emit
  <2>9. ASSUME UNCHANGED vars PROVE CallsInv' /\ KvInv'
    <3>1. CallsInv'
      BY <1>0, <2>9, CoversEachCall, CoversEachCallNext DEF vars, CallsInv, WaitsWithKey
    <3> QED BY <1>0, <2>9, <3>1, UntouchedKvStays DEF vars
  <2> QED BY <2>1, <2>2, <2>3, <2>4, <2>5, <2>6, <2>7, <2>8, <2>9 DEF Next
<1> QED BY <1>1, TwoParts DEF IInv, TypeOK, CallsInv, KvInv, HostCtx, PutRequest

LEMMA IInvIsInductive == Spec => []IInv
<1>1. Init => IInv
  BY EmptyHolds
<1>2. IInv /\ [Next]_vars => IInv'
  BY NextKeepsIInv
<1> QED BY <1>1, <1>2, PTL DEF Spec

(* Every variable has its type: the counters of an invocation stay within  *)
(* its caps, its log overshoots by less than one message, and a tenant is  *)
(* never charged less than nothing (kv.rs:127-128, sandbox.rs:60-77).      *)
THEOREM HostCapsTypeCorrect == Spec => []TypeOK
<1>1. IInv => TypeOK
  BY DEF IInv
<1> QED BY <1>1, IInvIsInductive, PTL

(* Whatever a guest grows in whatever order, and whichever growth the host *)
(* then cannot give, the memories of its store stay within the tenant's    *)
(* cap together, its tables within theirs, and the peak it is billed for   *)
(* covers what it holds (TenantLimiter, types.rs:248-262).                 *)
THEOREM StoreNeverExceedsCap == Spec => []StoreWithinCap
<1>1. IInv => StoreWithinCap
  <2> SUFFICES ASSUME IInv, NEW c \in Calls
               PROVE  /\ Combined(c, Memories) <= ctx[c].peak
                      /\ ctx[c].peak <= MemCap
                      /\ Combined(c, Tables) <= TableCap
    BY DEF StoreWithinCap
  <2>1. /\ Combined(c, Memories) <= ctx[c].total["memory"]
        /\ ctx[c].total["memory"] <= ctx[c].peak
        /\ ctx[c].peak <= MemCap
        /\ Combined(c, Tables) <= ctx[c].total["table"]
        /\ ctx[c].total["table"] <= TableCap
    BY DEF IInv, CountersCoverRegions
  <2>2. /\ ctx[c].total["memory"] \in Nat /\ ctx[c].total["table"] \in Nat
        /\ ctx[c].peak \in Nat /\ size[c] \in [Regions -> Nat]
    BY DEF IInv, TypeOK, Kinds
  <2>3. Combined(c, Memories) \in Nat /\ Combined(c, Tables) \in Nat
    BY <2>2, RegionsOfAKind, BarsFinite DEF Combined
  <2>4. TableCap \in Nat
    BY CapConstants
  <2> QED BY <2>1, <2>2, <2>3, <2>4
<1> QED BY <1>1, IInvIsInductive, PTL

(* What MemKv charges a tenant is what its entries cost, and within its    *)
(* quota, however its calls overwrite keys and are dropped in a put        *)
(* (MemKv::put, kv.rs:113-142).                                            *)
THEOREM KvChargeIsExact == Spec => []KvQuotaExact
<1>1. IInv => KvQuotaExact
  BY DEF IInv
<1> QED BY <1>1, IInvIsInductive, PTL

=============================================================================
