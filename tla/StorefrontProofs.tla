-------------------------- MODULE StorefrontProofs --------------------------
(***************************************************************************)
(* The quota of PgKv, the counting of orders and what they are charged,    *)
(* for any orders, keys, values that programs put, tenants, costs, pool    *)
(* and limits of the runtime.                                              *)
(***************************************************************************)
EXTENDS Storefront, FiniteSetTheorems, TLAPS

-----------------------------------------------------------------------------
(* What rows cost.                                                         *)

LEMMA CostIsNat ==
  ASSUME NEW n \in Rows
  PROVE  Cost[n] \in Nat
BY PgKvAssumption

Slice(k, n) == {k} \X (1..n)

LEMMA SliceSize ==
  ASSUME NEW k, NEW n \in Nat
  PROVE  IsFiniteSet(Slice(k, n)) /\ Cardinality(Slice(k, n)) = n
<1> DEFINE one == {k}
           interval == 1..n
<1>1. IsFiniteSet(one) /\ Cardinality(one) = 1
  BY FS_Singleton
<1>2. IsFiniteSet(interval) /\ Cardinality(interval) = n
  <2>1. /\ IsFiniteSet(interval)
        /\ Cardinality(interval) = IF 1 > n THEN 0 ELSE n - 1 + 1
    BY ONLY FS_Interval, 1 \in Int, n \in Int, Zenon
  <2> QED BY <2>1
<1> HIDE DEF one, interval
<1>3. /\ IsFiniteSet(one \X interval)
      /\ Cardinality(one \X interval) = Cardinality(one) * Cardinality(interval)
  BY <1>1, <1>2, FS_Product
<1> QED BY <1>1, <1>2, <1>3 DEF Slice, one, interval

(* The bytes of all rows but one.                                          *)
Others(r, k) == UNION {Slice(j, Cost[r[j]]) : j \in Keys \ {k}}

LEMMA OthersFinite ==
  ASSUME NEW r \in [Keys -> Rows], NEW k \in Keys
  PROVE  IsFiniteSet(Others(r, k)) /\ Cardinality(Others(r, k)) \in Nat
<1> DEFINE J == Keys \ {k}
           Slices == {Slice(j, Cost[r[j]]) : j \in J}
           f == [j \in J |-> Slice(j, Cost[r[j]])]
<1>1. IsFiniteSet(J)
  BY PgKvAssumption, FS_Difference
<1>2. f \in Surjection(J, Slices)
  BY DEF Surjection
<1>3. IsFiniteSet(Slices)
  BY <1>1, <1>2, FS_Surjection
<1>4. \A s \in Slices : IsFiniteSet(s)
  <2>1. ASSUME NEW j \in J PROVE IsFiniteSet(Slice(j, Cost[r[j]]))
    <3>1. Cost[r[j]] \in Nat
      BY CostIsNat
    <3> QED BY <3>1, SliceSize
  <2> QED BY <2>1
<1>5. IsFiniteSet(UNION Slices)
  BY <1>3, <1>4, FS_UNION
<1> QED BY <1>5, FS_CardinalityType DEF Others

(* A tenant uses what one of its rows costs and what the others do.        *)
LEMMA UsedSplits ==
  ASSUME NEW r \in [Keys -> Rows], NEW k \in Keys
  PROVE  /\ Used(r) = Cardinality(Others(r, k)) + Cost[r[k]]
         /\ Used(r) \in Nat
<1>1. Cost[r[k]] \in Nat
  BY CostIsNat
<1>2. Bytes(r) = Others(r, k) \cup Slice(k, Cost[r[k]])
  BY DEF Bytes, Others, Slice
<1>3. Others(r, k) \cap Slice(k, Cost[r[k]]) = {}
  BY DEF Others, Slice
<1>4. /\ IsFiniteSet(Slice(k, Cost[r[k]]))
      /\ Cardinality(Slice(k, Cost[r[k]])) = Cost[r[k]]
  BY <1>1, SliceSize
<1>5. IsFiniteSet(Others(r, k)) /\ Cardinality(Others(r, k)) \in Nat
  BY OthersFinite
<1>6. Cardinality(Others(r, k) \cup Slice(k, Cost[r[k]]))
        = Cardinality(Others(r, k)) + Cardinality(Slice(k, Cost[r[k]]))
            - Cardinality(Others(r, k) \cap Slice(k, Cost[r[k]]))
  BY <1>4, <1>5, FS_Union
<1>7. Cardinality(Others(r, k) \cap Slice(k, Cost[r[k]])) = 0
  BY <1>3, FS_EmptySet
<1> QED BY <1>1, <1>2, <1>4, <1>5, <1>6, <1>7 DEF Used

(* An upsert adds what the new row costs and frees what the old one did.   *)
LEMMA UsedAfterUpsert ==
  ASSUME NEW r \in [Keys -> Rows], NEW k \in Keys, NEW n \in Rows
  PROVE  Used([r EXCEPT ![k] = n]) + Cost[r[k]] = Used(r) + Cost[n]
<1> DEFINE s == [r EXCEPT ![k] = n]
<1>1. s \in [Keys -> Rows] /\ s[k] = n
  OBVIOUS
<1>2. Others(s, k) = Others(r, k)
  BY DEF Others
<1>3. /\ Used(s) = Cardinality(Others(s, k)) + Cost[s[k]]
      /\ Used(r) = Cardinality(Others(r, k)) + Cost[r[k]]
  BY <1>1, UsedSplits
<1>4. Cost[n] \in Nat /\ Cost[r[k]] \in Nat /\ Cardinality(Others(r, k)) \in Nat
  BY CostIsNat, OthersFinite
<1> QED BY <1>1, <1>2, <1>3, <1>4

-----------------------------------------------------------------------------
(* The quota.  One transaction of a tenant at most is past its lock, so    *)
(* what its SUM found is still true when it commits.                       *)

OneLockPerTenant ==
  \A c, d \in Calls :
    (TenantOf[c] = TenantOf[d] /\ db[c].at \in LockHeld /\ db[d].at \in LockHeld)
      => c = d

WritesFit ==
  \A c \in Calls : db[c].at \in {"write", "commit"} => Fits(c)

KvInv == KvTypeOK /\ OneLockPerTenant /\ WritesFit /\ KvWithinQuota

Stores(c) == Commit(c) \/ BreakCommit(c)

(* What a step does to a session, short of storing its value.              *)
Moves(c) ==
  \/ \E key : BeginGet(c, key) \/ \E value : BeginPut(c, key, value)
  \/ Acquire(c) \/ Got(c)
  \/ Lock(c) \/ SumFits(c) \/ SumExceeds(c) \/ Upsert(c)
  \/ Rollback(c) \/ Break(c) \/ Drop(c)

LEMMA KvConstants ==
  /\ \A c \in Calls : TenantOf[c] \in Tenants
  /\ Cost[None] = 0 /\ QuotaBytes \in Nat
  /\ None \in Rows /\ Values \subseteq Rows
BY PgKvAssumption DEF Rows

LEMMA EmptyFits ==
  ASSUME KvInit
  PROVE  KvInv
<1> USE KvConstants
<1>1. KvTypeOK
  <2>1. NoSession \in Sessions
    BY DEF NoSession, Sessions, Puts
  <2> QED BY <2>1 DEF KvInit, KvTypeOK
<1>2. OneLockPerTenant /\ WritesFit
  BY DEF KvInit, OneLockPerTenant, WritesFit, NoSession, LockHeld
<1>3. KvWithinQuota
  <2> SUFFICES ASSUME NEW t \in Tenants PROVE Used(rows[t]) <= QuotaBytes
    BY DEF KvWithinQuota
  <2>1. Bytes(rows[t]) = {}
    <3>1. \A k \in Keys : Cost[rows[t][k]] = 0
      BY DEF KvInit
    <3>2. 1..0 = {}
      OBVIOUS
    <3> QED BY <3>1, <3>2 DEF Bytes
  <2> QED BY <2>1, FS_EmptySet DEF Used
<1> QED BY <1>1, <1>2, <1>3 DEF KvInv

(* A session moves to s: past the lock only from there or when no other of *)
(* the tenant is, and to its write only when the value fits.               *)
MovesTo(c, s) ==
  /\ s \in Sessions
  /\ rows' = rows /\ db' = [db EXCEPT ![c] = s]
  /\ s.at \in LockHeld =>
       \/ db[c].at \in LockHeld
       \/ \A d \in Calls : TenantOf[d] = TenantOf[c] => db[d].at \notin LockHeld
  /\ s.at \in {"write", "commit"} =>
       Fits(c) /\ s.key = db[c].key /\ s.value = db[c].value

LEMMA MovesGoSomewhere ==
  ASSUME KvInv, NEW c \in Calls, Moves(c)
  PROVE  \E s \in Sessions : MovesTo(c, s)
<1> DEFINE at(stage) == [db[c] EXCEPT !.at = stage]
<1>1. db[c] \in Sessions /\ db \in [Calls -> Sessions]
  BY DEF KvInv, KvTypeOK
<1>2. NoSession \in Sessions /\ NoSession.at = "none"
  BY KvConstants DEF NoSession, Sessions, Puts
<1> USE DEF Waiting, Connected, LockHeld, Puts, MovesTo
<1>3. ASSUME NEW key, BeginGet(c, key)
      PROVE  \E s \in Sessions : MovesTo(c, s)
  <2> DEFINE s == Open("acquireGet", key, None)
  <2>1. s \in Sessions /\ s.at = "acquireGet"
    BY <1>3, KvConstants DEF Open, BeginGet, Sessions
  <2>2. rows' = rows /\ db' = [db EXCEPT ![c] = s]
    BY <1>3 DEF BeginGet
  <2> HIDE DEF s
  <2> QED BY <2>1, <2>2
<1>4. ASSUME NEW key, NEW value, BeginPut(c, key, value)
      PROVE  \E s \in Sessions : MovesTo(c, s)
  <2> DEFINE s == Open("acquirePut", key, value)
  <2>1. s \in Sessions /\ s.at = "acquirePut"
    BY <1>4, KvConstants DEF Open, BeginPut, Sessions
  <2>2. rows' = rows /\ db' = [db EXCEPT ![c] = s]
    BY <1>4 DEF BeginPut
  <2> HIDE DEF s
  <2> QED BY <2>1, <2>2
<1>5. CASE Acquire(c)
  <2>1. PICK stage \in {"get", "lock"} :
          /\ db' = [db EXCEPT ![c].at = stage]
          /\ db[c].at = IF stage = "get" THEN "acquireGet" ELSE "acquirePut"
    BY <1>5 DEF Acquire, To
  <2>2. at(stage) \in Sessions /\ at(stage).at = stage
    BY <1>1, <2>1 DEF Sessions
  <2>3. db' = [db EXCEPT ![c] = at(stage)]
    BY <2>1
  <2> QED BY <1>5, <2>2, <2>3 DEF Acquire
<1>6. CASE Got(c) \/ Rollback(c) \/ Break(c)
  BY <1>2, <1>6 DEF Got, Rollback, Break, Close
<1>7. CASE Lock(c)
  <2>1. PICK stage \in {"sum", "rollback"} :
          db' = [db EXCEPT ![c].at = stage] /\ db[c].at = "lock"
    BY <1>7 DEF Lock, To
  <2>2. at(stage) \in Sessions /\ at(stage).at = stage
    BY <1>1, <2>1 DEF Sessions
  <2>3. db' = [db EXCEPT ![c] = at(stage)]
    BY <2>1
  <2> QED BY <1>7, <2>2, <2>3 DEF Lock
<1>8. CASE SumFits(c) \/ Upsert(c)
  <2>1. PICK stage \in {"write", "commit"} :
          /\ db' = [db EXCEPT ![c].at = stage] /\ rows' = rows
          /\ db[c].at \in {"sum", "write"}
    BY <1>8 DEF SumFits, Upsert, To
  <2>2. db[c].at \in LockHeld /\ Fits(c)
    BY <1>8 DEF SumFits, Upsert, KvInv, WritesFit
  <2>3. /\ at(stage) \in Sessions /\ at(stage).at = stage
        /\ at(stage).key = db[c].key /\ at(stage).value = db[c].value
    BY <1>1, <2>1 DEF Sessions
  <2>4. db' = [db EXCEPT ![c] = at(stage)]
    BY <2>1
  <2> QED BY <2>1, <2>2, <2>3, <2>4
<1>9. CASE SumExceeds(c)
  <2> DEFINE s == [at("rollback") EXCEPT !.heard = FALSE]
  <2>1. db' = [db EXCEPT ![c] = s] /\ rows' = rows /\ db[c].at = "sum"
    BY <1>9 DEF SumExceeds
  <2>2. s \in Sessions /\ s.at = "rollback"
    BY <1>1, <2>1 DEF Sessions
  <2> QED BY <2>1, <2>2
<1>10. CASE Drop(c)
  <2>1. CASE db[c].at \in {"none"} \cup Waiting
    BY <1>2, <1>10, <2>1 DEF Drop
  <2>2. CASE db[c].at \in {"sum", "write"}
    <3> DEFINE s == [db[c] EXCEPT !.at = "rollback", !.heard = FALSE]
    <3>1. s \in Sessions /\ s.at = "rollback"
      BY <1>1, <2>2 DEF Sessions
    <3>2. db' = [db EXCEPT ![c] = s] /\ rows' = rows
      BY <1>10, <2>2 DEF Drop
    <3> QED BY <2>2, <3>1, <3>2
  <2>3. CASE db[c].at \notin {"none", "sum", "write"} \cup Waiting
    <3> DEFINE s == [db[c] EXCEPT !.heard = FALSE]
    <3>1. s \in Sessions /\ s.at = db[c].at /\ s.key = db[c].key /\ s.value = db[c].value
      BY <1>1 DEF Sessions
    <3>2. db' = [db EXCEPT ![c] = s] /\ rows' = rows
      BY <1>10, <2>3 DEF Drop
    <3>3. db[c].at \in {"write", "commit"} => Fits(c)
      BY DEF KvInv, WritesFit
    <3> QED BY <3>1, <3>2, <3>3
  <2> QED BY <2>1, <2>2, <2>3
<1> QED BY <1>3, <1>4, <1>5, <1>6, <1>7, <1>8, <1>9, <1>10 DEF Moves

LEMMA MovesKeepKvInv ==
  ASSUME KvInv, NEW c \in Calls, Moves(c)
  PROVE  KvInv'
<1>1. PICK s \in Sessions : MovesTo(c, s)
  BY MovesGoSomewhere
<1>2. db \in [Calls -> Sessions]
  BY DEF KvInv, KvTypeOK
<1>3. db' \in [Calls -> Sessions] /\ rows' = rows
  BY <1>1, <1>2 DEF MovesTo
<1>4. db'[c] = s /\ \A d \in Calls \ {c} : db'[d] = db[d]
  BY <1>1, <1>2 DEF MovesTo
<1>5. KvTypeOK'
  BY <1>3 DEF KvInv, KvTypeOK
<1>6. OneLockPerTenant'
  BY <1>1, <1>4 DEF MovesTo, KvInv, OneLockPerTenant
<1>7. WritesFit'
  BY <1>1, <1>3, <1>4 DEF MovesTo, KvInv, WritesFit, Fits, Row
<1>8. KvWithinQuota'
  BY <1>3 DEF KvInv, KvWithinQuota
<1> QED BY <1>5, <1>6, <1>7, <1>8 DEF KvInv

LEMMA StoresKeepKvInv ==
  ASSUME KvInv, NEW c \in Calls, Stores(c)
  PROVE  KvInv'
<1> USE KvConstants DEF KvInv
<1> DEFINE t == TenantOf[c]
           old == rows[t]
           new == [old EXCEPT ![db[c].key] = db[c].value]
<1>1. /\ db[c].at = "commit" /\ db[c].value \in Rows /\ db[c].key \in Keys
      /\ old \in [Keys -> Rows]
      /\ db' = [db EXCEPT ![c] = NoSession]
      /\ rows' = [rows EXCEPT ![t] = new]
  BY DEF Stores, Commit, BreakCommit, Stored, Close, KvTypeOK, Sessions, Puts
<1>2. rows'[t] = new /\ \A u \in Tenants \ {t} : rows'[u] = rows[u]
  BY <1>1 DEF KvTypeOK
<1>3. KvTypeOK'
  <2>1. NoSession \in Sessions
    BY DEF NoSession, Sessions, Puts
  <2>2. new \in [Keys -> Rows]
    BY <1>1
  <2> HIDE DEF new
  <2> QED BY <1>1, <2>1, <2>2 DEF KvTypeOK
<1>4. OneLockPerTenant'
  BY <1>1 DEF OneLockPerTenant, KvTypeOK, NoSession, LockHeld
<1>5. WritesFit'
  <2> SUFFICES ASSUME NEW d \in Calls, db'[d].at \in {"write", "commit"}
               PROVE  Fits(d)'
    BY DEF WritesFit
  <2>1. d # c /\ db'[d] = db[d]
    BY <1>1 DEF KvTypeOK, NoSession
  <2>2. TenantOf[d] # t
    BY <1>1, <2>1 DEF OneLockPerTenant, LockHeld
  <2> QED BY <1>2, <2>1, <2>2 DEF WritesFit, Fits, Row
<1>6. Used(new) <= QuotaBytes
  <2>1. Used(old) + Cost[db[c].value] <= QuotaBytes + Cost[old[db[c].key]]
    BY <1>1 DEF WritesFit, Fits, Row
  <2>2. Used(new) + Cost[old[db[c].key]] = Used(old) + Cost[db[c].value]
    BY <1>1, UsedAfterUpsert
  <2>3. /\ Used(old) \in Nat /\ Used(new) \in Nat
        /\ Cost[old[db[c].key]] \in Nat /\ Cost[db[c].value] \in Nat
    BY <1>1, UsedSplits, CostIsNat
  <2> QED BY <2>1, <2>2, <2>3
<1>7. KvWithinQuota'
  BY <1>2, <1>6 DEF KvWithinQuota
<1> QED BY <1>3, <1>4, <1>5, <1>7

(* Whatever the checkout does, it does to sessions one at a time.          *)
LEMMA StepsOfNext ==
  ASSUME Next
  PROVE  (\E c \in Calls : Moves(c) \/ Stores(c)) \/ UNCHANGED kvVars
<1>1. ASSUME NEW c \in Calls, GetAnswers(c) \/ CountOrder(c) \/ FraudPasses(c)
      PROVE  Moves(c)
  BY <1>1 DEF GetAnswers, CountOrder, FraudPasses, Moves
<1>2. ASSUME NEW c \in Calls,
             \/ PutExceeds(c) \/ KvBreaks(c) \/ CutOff(c) \/ Server(c)
             \/ RogueCalls(c)
      PROVE  Moves(c)
  BY <1>2 DEF PutExceeds, KvBreaks, CutOff, Server, RogueCalls, Moves
<1>3. ASSUME NEW c \in Calls, PutAnswers(c) \/ KvBreaksAfterCommit(c)
      PROVE  Stores(c)
  BY <1>3 DEF PutAnswers, KvBreaksAfterCommit, Stores
<1>4. ASSUME NEW c \in Calls, Leave(c)
      PROVE  Moves(c) \/ UNCHANGED kvVars
  BY <1>4 DEF Leave, Moves
<1>5. ASSUME NEW c \in Calls,
             \/ \E cart \in Carts : Place(c, cart)
             \/ Reads(c) \/ Enters(c) \/ FraudRejects(c) \/ Decide(c)
             \/ RogueDecides(c) \/ AnswerShopper(c) \/ Retry(c)
      PROVE  UNCHANGED kvVars
  BY <1>5 DEF Place, Reads, ReadLimits, UnknownMerchant, LimitsFail, Enters, Busy,
              Refused, RunGuest, FraudRejects, Decide, RogueDecides,
              AnswerShopper, Retry
<1>6. ASSUME NEW m \in Merchants,
             CreateMerchant(m) \/ \E hook \in Hooks : UploadHook(m, hook)
      PROVE  UNCHANGED kvVars
  BY <1>6 DEF CreateMerchant, UploadHook
<1> QED BY <1>1, <1>2, <1>3, <1>4, <1>5, <1>6 DEF Next

LEMMA NextKeepsKvInv ==
  ASSUME KvInv, [Next]_vars
  PROVE  KvInv'
<1>1. CASE Next
  <2>1. ASSUME NEW c \in Calls, Moves(c) \/ Stores(c) PROVE KvInv'
    BY <2>1, MovesKeepKvInv, StoresKeepKvInv
  <2>2. CASE UNCHANGED kvVars
    BY <2>2 DEF kvVars, KvInv, KvTypeOK, OneLockPerTenant, WritesFit, Fits, Row,
                KvWithinQuota
  <2> QED BY <1>1, <2>1, <2>2, StepsOfNext
<1>2. CASE UNCHANGED vars
  BY <1>2 DEF vars, KvInv, KvTypeOK, OneLockPerTenant, WritesFit, Fits, Row,
              KvWithinQuota
<1> QED BY <1>1, <1>2

(* The committed rows of a tenant stay within its quota: the lock makes    *)
(* the check and the write one, for any number of concurrent puts, dropped *)
(* transactions and unheard COMMITs (kv.rs:71-115).                        *)
THEOREM QuotaNeverExceeded == Spec => []KvWithinQuota
<1>1. Init => KvInv
  BY EmptyFits DEF Init
<1>2. KvInv /\ [Next]_vars => KvInv'
  BY NextKeepsKvInv
<1>3. KvInv => KvWithinQuota
  BY DEF KvInv
<1> QED BY <1>1, <1>2, <1>3, PTL DEF Spec

-----------------------------------------------------------------------------
(* Counting.  A put under way is not yet counted, a call whose guest runs  *)
(* is heard exactly while it waits, and a result that may be retried comes *)
(* from a call that never reached its kv.                                  *)

Gets == {"acquireGet", "get"}

(* Of a call's stage and result, its session s and what it counted, k.     *)
Consistent(at, out, s, k) ==
  /\ k = <<>> \/ Len(k) = 1
  /\ s.heard => at \in {"getting", "putting"}
  /\ at = "getting" => s.heard /\ s.at \in Gets
  /\ at = "putting" => s.heard /\ s.at \in Puts
  /\ s.at \in Puts => k = <<>>
  /\ at \in {"browsing", "priced", "invoking", "started", "getting", "got", "putting"}
       => k = <<>>
  /\ at \in {"browsing", "priced", "invoking", "started", "got", "deciding"}
       => s.at = "none"
  /\ at = "settled" =>
       \/ out.is = "GuestTrap" \/ (out.is = "Ok" /\ out.approved)
       \/ k = <<>> /\ s.at = "none"
  /\ at = "answered" =>
       \/ out.approved /\ out.is \in {"hook", "failed"}
       \/ k = <<>> /\ s.at = "none"

AllConsistent ==
  \A c \in Calls : Consistent(order[c].at, order[c].out, db[c], counted[c])

(* Amounts are what Subtotal and Discount make of the carts.               *)
Payable == {cart \in Carts : Subtotal(cart) # TooLarge}
Prices == {0} \cup {Subtotal(cart) : cart \in Payable}
Discounts ==
  {0} \cup Prices \cup {s + 1 : s \in Prices}
      \cup {Discount(s, n) : s \in Prices, n \in Nat}
Totals == Prices \cup {s - d : s \in Prices, d \in Discounts}
Kinds == Answers \cup Errors \cup {"nothing", "Ok", "TenantBusy"}
Outs == [is : Kinds, approved : BOOLEAN, total : Totals, discount : Discounts]
Stages == {"browsing", "priced", "invoking", "settled", "answered", "left"} \cup InGuest
Orders == [at : Stages, tries : Nat, subtotal : Prices, cart : Carts \cup {<<>>},
           hook : {"none"} \cup Hooks, nth : Counts, out : Outs]

CountInv ==
  /\ KvInv
  /\ order \in [Calls -> Orders]
  /\ counted \in [Calls -> Seq(Values)]
  /\ AllConsistent

LEMMA CountsAreNat ==
  /\ Counts \subseteq Nat /\ Counts \subseteq Values /\ 0 \in Counts
  /\ \A row : CountIn(row) \in Counts
  /\ \A n \in Counts : Successor(n) \in Counts
BY StorefrontAssumption DEF Counts, CountIn, Successor

(* The call c becomes this order, with this session and these counts.      *)
Becomes(c, o, s, k) ==
  /\ o \in Orders /\ k \in Seq(Values) /\ Consistent(o.at, o.out, s, k)
  /\ order' = [order EXCEPT ![c] = o]
  /\ db' = [db EXCEPT ![c] = s]
  /\ counted' = [counted EXCEPT ![c] = k]

LEMMA OneCall ==
  ASSUME CountInv, KvInv', NEW c \in Calls, NEW o, NEW s, NEW k, Becomes(c, o, s, k)
  PROVE  CountInv'
<1> USE DEF CountInv, Becomes
<1>1. /\ order'[c] = o /\ \A d \in Calls \ {c} : order'[d] = order[d]
      /\ order' = [d \in Calls |-> order'[d]]
  OBVIOUS
<1>2. counted'[c] = k /\ \A d \in Calls \ {c} : counted'[d] = counted[d]
  OBVIOUS
<1>3. db'[c] = s /\ \A d \in Calls \ {c} : db'[d] = db[d]
  BY DEF KvInv, KvTypeOK
<1>4. counted' \in [Calls -> Seq(Values)]
  OBVIOUS
<1>5. AllConsistent'
  BY <1>1, <1>2, <1>3 DEF AllConsistent
<1> QED BY <1>1, <1>4, <1>5

(* What a call is now, and that it may stay so.                            *)
LEMMA Now ==
  ASSUME CountInv, NEW c \in Calls
  PROVE  /\ order[c] \in Orders /\ counted[c] \in Seq(Values)
         /\ Consistent(order[c].at, order[c].out, db[c], counted[c])
         /\ db[c] \in Sessions
         /\ order = [order EXCEPT ![c] = order[c]]
         /\ db = [db EXCEPT ![c] = db[c]]
         /\ counted = [counted EXCEPT ![c] = counted[c]]
<1>1. db \in [Calls -> Sessions]
  BY DEF CountInv, KvInv, KvTypeOK
<1> QED BY <1>1 DEF CountInv, AllConsistent

LEMMA OutsAreOuts ==
  /\ Nothing \in Outs
  /\ \A is \in Kinds : Plain(is) \in Outs /\ Plain(is).is = is
  /\ \A is \in Kinds, s \in Prices :
       /\ Approved(is, s) \in Outs
       /\ Approved(is, s).is = is /\ Approved(is, s).approved = TRUE
  /\ \A b \in BOOLEAN, d \in Discounts :
       /\ Decision(b, d) \in Outs
       /\ Decision(b, d).is = "Ok" /\ Decision(b, d).approved = b
<1>1. 0 \in Prices /\ 0 \in Totals /\ 0 \in Discounts /\ Prices \subseteq Totals
  BY DEF Prices, Totals, Discounts
<1>2. Nothing \in Outs
  BY <1>1 DEF Nothing, Outs, Kinds
<1>3. ASSUME NEW is \in Kinds
      PROVE  Plain(is) \in Outs /\ Plain(is).is = is
  BY <1>1, <1>2, <1>3 DEF Plain, Nothing, Outs
<1>4. ASSUME NEW is \in Kinds, NEW s \in Prices
      PROVE  /\ Approved(is, s) \in Outs
             /\ Approved(is, s).is = is /\ Approved(is, s).approved = TRUE
  BY <1>1, <1>4 DEF Approved, Outs
<1>5. ASSUME NEW b \in BOOLEAN, NEW d \in Discounts
      PROVE  /\ Decision(b, d) \in Outs
             /\ Decision(b, d).is = "Ok" /\ Decision(b, d).approved = b
  <2>1. Plain("Ok") \in Outs /\ Plain("Ok").is = "Ok"
    BY <1>3 DEF Kinds
  <2> QED BY <2>1, <1>5 DEF Decision, Outs
<1> QED BY <1>2, <1>3, <1>4, <1>5

(* resolve keeps an approval of the hook, and retries what never ran.      *)
LEMMA ResolveProperties ==
  ASSUME NEW out \in Outs, NEW s \in Prices
  PROVE  /\ Resolve(out, s) \in Outs
         /\ (out.is = "GuestTrap" \/ (out.is = "Ok" /\ out.approved))
              => Resolve(out, s).approved /\ Resolve(out, s).is \in {"hook", "failed"}
<1> USE DEF Kinds, Answers
<1>1. CASE out.is = "Ok" /\ out.discount <= s
  <2> DEFINE r == [out EXCEPT !.is = "hook", !.total = s - out.discount]
  <2>1. Resolve(out, s) = r
    BY <1>1 DEF Resolve
  <2>2. s - out.discount \in Totals
    <3>1. out.discount \in Discounts
      BY DEF Outs
    <3> QED BY <3>1 DEF Totals
  <2>3. r \in Outs /\ r.is = "hook" /\ r.approved = out.approved
    BY <2>2 DEF Outs
  <2> QED BY <1>1, <2>1, <2>3
<1>2. CASE out.is = "NotFound"
  BY <1>2, OutsAreOuts DEF Resolve
<1>3. CASE out.is \in {"Overloaded", "TenantBusy"}
  BY <1>3, OutsAreOuts DEF Resolve
<1>4. CASE /\ ~(out.is = "Ok" /\ out.discount <= s)
           /\ out.is \notin {"NotFound", "Overloaded", "TenantBusy"}
  <2>1. Resolve(out, s) = Approved("failed", s)
    BY <1>4 DEF Resolve
  <2> QED BY ZenonT(60), <2>1, OutsAreOuts
<1> QED BY <1>1, <1>2, <1>3, <1>4

(* The handler's steps, which leave kv and counts alone.                   *)
LEMMA HandlerSteps ==
  ASSUME CountInv, KvInv', NEW c \in Calls,
         \/ \E cart \in Carts : Place(c, cart)
         \/ Reads(c) \/ Busy(c) \/ Refused(c) \/ RunGuest(c)
         \/ AnswerShopper(c) \/ Retry(c)
  PROVE  CountInv'
<1> DEFINE s == db[c]
           k == counted[c]
<1>n. /\ order[c] \in Orders /\ k \in Seq(Values)
      /\ Consistent(order[c].at, order[c].out, s, k)
      /\ db = [db EXCEPT ![c] = s] /\ counted = [counted EXCEPT ![c] = k]
  BY Now
<1>p. order[c].subtotal \in Prices
  BY <1>n DEF Orders
<1> USE DEF Stages, Kinds, Answers, Errors
<1>1. ASSUME NEW cart \in Carts, Place(c, cart)
      PROVE  CountInv'
  <2>1. CASE Subtotal(cart) = TooLarge
    <3> DEFINE o == [order[c] EXCEPT !.at = "answered", !.cart = cart,
                                     !.out = Plain("bad order")]
    <3>1. o \in Orders /\ o.at = "answered"
      BY <1>n, OutsAreOuts DEF Orders
    <3>2. order' = [order EXCEPT ![c] = o]
      BY <1>1, <2>1 DEF Place
    <3>3. Becomes(c, o, s, k)
      BY <1>1, <1>n, <3>1, <3>2 DEF Place, Becomes, Consistent, kvVars, history
    <3> QED BY <3>3, OneCall
  <2>2. CASE Subtotal(cart) # TooLarge
    <3> DEFINE o == [order[c] EXCEPT !.at = "priced", !.cart = cart,
                                     !.subtotal = Subtotal(cart)]
    <3>1. o \in Orders /\ o.at = "priced"
      BY <1>n, <2>2 DEF Orders, Prices, Payable
    <3>2. order' = [order EXCEPT ![c] = o]
      BY <1>1, <2>2 DEF Place
    <3>3. Becomes(c, o, s, k)
      BY <1>1, <1>n, <3>1, <3>2 DEF Place, Becomes, Consistent, kvVars, history
    <3> QED BY <3>3, OneCall
  <2> QED BY <2>1, <2>2
<1>2. CASE ReadLimits(c)
  <2> DEFINE o == [order[c] EXCEPT !.at = "invoking"]
  <2>1. o \in Orders /\ o.at = "invoking"
    BY <1>n DEF Orders
  <2>2. order' = [order EXCEPT ![c] = o]
    BY <1>2 DEF ReadLimits, Goes
  <2>3. Becomes(c, o, s, k)
    BY <1>2, <1>n, <2>1, <2>2 DEF ReadLimits, Becomes, Consistent, kvVars, history
  <2> QED BY <2>3, OneCall
<1>3. ASSUME order[c].at \in {"priced", "invoking"}, UNCHANGED <<kvVars, counted>>,
             NEW out \in Outs, Says(c, out)
      PROVE  CountInv'
  <2> DEFINE o == [order[c] EXCEPT !.at = "answered", !.out = out]
  <2>1. o \in Orders /\ o.at = "answered"
    BY <1>n DEF Orders
  <2>2. order' = [order EXCEPT ![c] = o]
    BY <1>3 DEF Says
  <2>3. Becomes(c, o, s, k)
    BY <1>3, <1>n, <2>1, <2>2 DEF Becomes, Consistent, kvVars, history
  <2> QED BY <2>3, OneCall
<1>4. CASE UnknownMerchant(c) \/ LimitsFail(c) \/ Busy(c)
  <2>1. /\ Plain("unknown merchant") \in Outs
        /\ Approved("failed", order[c].subtotal) \in Outs
        /\ Resolve(Plain("TenantBusy"), order[c].subtotal) \in Outs
    BY <1>p, OutsAreOuts, ResolveProperties
  <2>2. CASE UnknownMerchant(c)
    BY <1>3, <2>1, <2>2 DEF UnknownMerchant, history
  <2>3. CASE LimitsFail(c)
    BY <1>3, <2>1, <2>3 DEF LimitsFail, history
  <2>4. CASE Busy(c)
    BY <1>3, <2>1, <2>4 DEF Busy, history
  <2> QED BY <1>4, <2>2, <2>3, <2>4
<1>5. CASE Refused(c)
  <2>1. PICK error \in {"NotFound", "Overloaded", "Load"} :
          order' = [order EXCEPT ![c].at = "settled", ![c].out = Plain(error)]
    BY <1>5 DEF Refused
  <2> DEFINE o == [order[c] EXCEPT !.at = "settled", !.out = Plain(error)]
  <2>2. Plain(error) \in Outs
    BY OutsAreOuts
  <2>3. o \in Orders /\ o.at = "settled"
    BY <1>n, <2>2 DEF Orders
  <2>4. order' = [order EXCEPT ![c] = o]
    BY <2>1
  <2>5. Becomes(c, o, s, k)
    BY <1>5, <1>n, <2>3, <2>4 DEF Refused, Becomes, Consistent, kvVars, history
  <2> QED BY <2>5, OneCall
<1>6. CASE RunGuest(c)
  <2> DEFINE o == [order[c] EXCEPT !.at = "started", !.hook = shop[TenantOf[c]]]
  <2>1. o \in Orders /\ o.at = "started"
    BY <1>6, <1>n DEF RunGuest, Orders, InGuest
  <2>2. order' = [order EXCEPT ![c] = o]
    BY <1>6 DEF RunGuest
  <2>3. Becomes(c, o, s, k)
    BY <1>6, <1>n, <2>1, <2>2 DEF RunGuest, Becomes, Consistent, kvVars, history
  <2> QED BY <2>3, OneCall
<1>7. CASE AnswerShopper(c)
  <2> DEFINE out == Resolve(order[c].out, order[c].subtotal)
             o == [order[c] EXCEPT !.at = "answered", !.out = out]
  <2>1. order[c].out \in Outs
    BY <1>n DEF Orders
  <2>2. /\ out \in Outs
        /\ (order[c].out.is = "GuestTrap" \/ (order[c].out.is = "Ok" /\ order[c].out.approved))
             => out.approved /\ out.is \in {"hook", "failed"}
    BY <1>p, <2>1, ResolveProperties
  <2> HIDE DEF out
  <2>3. o \in Orders /\ o.at = "answered" /\ o.out = out
    BY <1>n, <2>2 DEF Orders
  <2>4. order' = [order EXCEPT ![c] = o]
    BY <1>7 DEF AnswerShopper, Says, out
  <2>5. Becomes(c, o, s, k)
    BY <1>7, <1>n, <2>2, <2>3, <2>4 DEF AnswerShopper, Becomes, Consistent, kvVars, history
  <2> QED BY <2>5, OneCall
<1>8. CASE Retry(c)
  <2> DEFINE o == [order[c] EXCEPT !.at = "priced", !.tries = order[c].tries + 1,
                                   !.out = Nothing, !.hook = "none", !.nth = 0]
  <2>1. o \in Orders /\ o.at = "priced"
    <3>1. order[c].tries + 1 \in Nat
      BY <1>n DEF Orders
    <3> QED BY <1>n, <3>1, OutsAreOuts, CountsAreNat DEF Orders
  <2>2. order' = [order EXCEPT ![c] = o]
    BY <1>8 DEF Retry
  <2>3. Becomes(c, o, s, k)
    BY <1>8, <1>n, <2>1, <2>2 DEF Retry, Becomes, Consistent, kvVars, history
  <2> QED BY <2>3, OneCall
<1> QED BY <1>1, <1>2, <1>4, <1>5, <1>6, <1>7, <1>8 DEF Reads

(* The guest's result, with what becomes of the session and the counts.    *)
LEMMA GuestEndsConsistently ==
  ASSUME CountInv, KvInv', NEW c \in Calls, NEW out \in Outs, GuestEnds(c, out),
         NEW t, db' = [db EXCEPT ![c] = t], ~t.heard,
         NEW k \in Seq(Values), counted' = [counted EXCEPT ![c] = k],
         k = <<>> \/ Len(k) = 1,
         t.at \in Puts => k = <<>>,
         \/ out.is = "GuestTrap" \/ (out.is = "Ok" /\ out.approved)
         \/ k = <<>> /\ t.at = "none"
  PROVE  CountInv'
<1> DEFINE o == [order[c] EXCEPT !.at = "settled", !.out = out]
<1>1. o \in Orders /\ o.at = "settled" /\ o.out = out
  BY Now DEF Orders, Stages
<1>2. order' = [order EXCEPT ![c] = o]
  BY DEF GuestEnds
<1> HIDE DEF o
<1>3. Becomes(c, o, t, k)
  BY <1>1, <1>2 DEF Becomes, Consistent
<1> QED BY <1>3, OneCall

LEMMA GuestDecides ==
  ASSUME CountInv, KvInv', NEW c \in Calls,
         FraudRejects(c) \/ Decide(c) \/ RogueDecides(c)
  PROVE  CountInv'
<1>n. /\ order[c] \in Orders /\ counted[c] \in Seq(Values)
      /\ Consistent(order[c].at, order[c].out, db[c], counted[c])
      /\ db = [db EXCEPT ![c] = db[c]] /\ counted = [counted EXCEPT ![c] = counted[c]]
  BY Now
<1>1. db' = [db EXCEPT ![c] = db[c]] /\ counted' = [counted EXCEPT ![c] = counted[c]]
  BY <1>n DEF FraudRejects, Decide, RogueDecides, kvVars, history
<1>2. db[c].at = "none" /\ ~db[c].heard
  BY <1>n DEF FraudRejects, Decide, RogueDecides, Consistent
<1>3. CASE FraudRejects(c)
  <2>1. Decision(FALSE, 0) \in Outs
    <3>1. 0 \in Discounts /\ FALSE \in BOOLEAN
      BY DEF Discounts
    <3> QED BY <3>1, OutsAreOuts, Zenon
  <2>2. GuestEnds(c, Decision(FALSE, 0)) /\ counted[c] = <<>>
    BY <1>3, <1>n DEF FraudRejects, Consistent
  <2> QED BY <2>2, <1>n, <1>1, <1>2, <2>1, GuestEndsConsistently DEF Consistent
<1>4. ASSUME NEW d \in Discounts, GuestEnds(c, Decision(TRUE, d))
      PROVE  CountInv'
  <2>1. /\ Decision(TRUE, d) \in Outs
        /\ Decision(TRUE, d).is = "Ok" /\ Decision(TRUE, d).approved
    BY OutsAreOuts
  <2>2. /\ db[c].at \in Puts => counted[c] = <<>>
        /\ counted[c] = <<>> \/ Len(counted[c]) = 1
    BY <1>n DEF Consistent
  <2> HIDE DEF GuestEnds
  <2> QED BY <1>n, <1>1, <1>2, <1>4, <2>1, <2>2, GuestEndsConsistently, Zenon
<1>5. order[c].subtotal \in Prices /\ order[c].nth \in Counts
  BY <1>n DEF Orders
<1>6. CASE Decide(c)
  <2>1. Discount(order[c].subtotal, order[c].nth) \in Discounts
    <3>1. order[c].nth \in Nat
      BY <1>5, CountsAreNat
    <3> QED BY <1>5, <3>1 DEF Discounts
  <2> QED BY <1>4, <1>6, <2>1 DEF Decide
<1>7. CASE RogueDecides(c)
  <2>1. order[c].subtotal \in Discounts /\ order[c].subtotal + 1 \in Discounts
    BY <1>5 DEF Discounts
  <2> QED BY <1>4, <1>7, <2>1 DEF RogueDecides
<1> QED BY <1>3, <1>6, <1>7

(* The guest asks for a row, is told it, and asks to store the next count. *)
LEMMA GuestAsks ==
  ASSUME CountInv, KvInv', NEW c \in Calls,
         FraudPasses(c) \/ GetAnswers(c) \/ CountOrder(c) \/ RogueCalls(c)
  PROVE  CountInv'
<1> DEFINE k == counted[c]
<1>n. /\ order[c] \in Orders /\ k \in Seq(Values)
      /\ Consistent(order[c].at, order[c].out, db[c], k)
      /\ order = [order EXCEPT ![c] = order[c]]
      /\ counted = [counted EXCEPT ![c] = k]
  BY Now
<1>1. counted' = [counted EXCEPT ![c] = k]
  BY <1>n DEF FraudPasses, GetAnswers, CountOrder, RogueCalls, history
<1> USE DEF Stages, InGuest, Gets, Puts
<1>2. ASSUME NEW key, BeginGet(c, key), Goes(c, "getting"), order[c].at = "started"
      PROVE  CountInv'
  <2> DEFINE o == [order[c] EXCEPT !.at = "getting"]
             t == Open("acquireGet", key, None)
  <2>1. o \in Orders /\ o.at = "getting"
    BY <1>n DEF Orders
  <2>2. order' = [order EXCEPT ![c] = o] /\ db' = [db EXCEPT ![c] = t]
    BY <1>2 DEF Goes, BeginGet
  <2>3. t.at = "acquireGet" /\ t.heard
    BY DEF Open
  <2> HIDE DEF o, t
  <2>4. Becomes(c, o, t, k)
    BY <1>2, <1>n, <1>1, <2>1, <2>2, <2>3 DEF Becomes, Consistent
  <2> QED BY <2>4, OneCall
<1>3. CASE GetAnswers(c) /\ db[c].heard
  <2> DEFINE n == IF order[c].hook = "loyalty"
                  THEN Successor(CountIn(Row(c))) ELSE order[c].nth
             o == [order[c] EXCEPT !.at = Resumes(c, "got"), !.nth = n]
  <2>1. n \in Counts
    BY <1>n, CountsAreNat DEF Orders
  <2>2. order' = [order EXCEPT ![c] = o] /\ db' = [db EXCEPT ![c] = NoSession]
    BY <1>3 DEF GetAnswers, Got, Close
  <2> HIDE DEF n
  <2>3. o \in Orders /\ o.at \in {"started", "got"}
    BY <1>n, <2>1 DEF Orders, Resumes
  <2>4. db[c].at = "get"
    BY <1>3 DEF GetAnswers, Got
  <2> HIDE DEF o
  <2>5. Becomes(c, o, NoSession, k)
    BY <1>3, <1>n, <1>1, <2>2, <2>3, <2>4 DEF Becomes, Consistent, NoSession
  <2> QED BY <2>5, OneCall
<1>4. CASE GetAnswers(c) /\ ~db[c].heard
  <2>1. /\ order' = [order EXCEPT ![c] = order[c]]
        /\ db' = [db EXCEPT ![c] = NoSession]
    BY <1>4, <1>n DEF GetAnswers, Got, Close
  <2>2. Becomes(c, order[c], NoSession, k)
    BY <1>4, <1>n, <1>1, <2>1 DEF Becomes, Consistent, NoSession
  <2> QED BY <2>2, OneCall
<1>5. ASSUME NEW key, NEW value, BeginPut(c, key, value), Goes(c, "putting"),
             order[c].at \in {"started", "got"}
      PROVE  CountInv'
  <2> DEFINE o == [order[c] EXCEPT !.at = "putting"]
             t == Open("acquirePut", key, value)
  <2>1. o \in Orders /\ o.at = "putting"
    BY <1>n DEF Orders
  <2>2. order' = [order EXCEPT ![c] = o] /\ db' = [db EXCEPT ![c] = t]
    BY <1>5 DEF Goes, BeginPut
  <2>3. t.at = "acquirePut" /\ t.heard
    BY DEF Open
  <2> HIDE DEF o, t
  <2>4. Becomes(c, o, t, k)
    BY <1>5, <1>n, <1>1, <2>1, <2>2, <2>3 DEF Becomes, Consistent
  <2> QED BY <2>4, OneCall
<1>6. CASE FraudPasses(c)
  BY <1>2, <1>6 DEF FraudPasses
<1>7. CASE CountOrder(c)
  BY <1>5, <1>7 DEF CountOrder
<1>8. CASE RogueCalls(c)
  BY <1>2, <1>5, <1>8 DEF RogueCalls
<1> QED BY <1>3, <1>4, <1>6, <1>7, <1>8

(* A step of the session alone: who listens goes on listening, and a put   *)
(* stays one.                                                              *)
LEMMA SessionSteps ==
  ASSUME CountInv, KvInv', NEW c \in Calls, NEW t \in Sessions,
         db' = [db EXCEPT ![c] = t], UNCHANGED <<order, counted>>,
         db[c].at # "none",
         t.heard => db[c].heard,
         db[c].heard => t.heard /\ (t.at \in Gets <=> db[c].at \in Gets)
                                /\ (t.at \in Puts <=> db[c].at \in Puts),
         t.at \in Puts => db[c].at \in Puts
  PROVE  CountInv'
<1>1. /\ order[c] \in Orders /\ counted[c] \in Seq(Values)
      /\ Consistent(order[c].at, order[c].out, db[c], counted[c])
      /\ order = [order EXCEPT ![c] = order[c]]
      /\ counted = [counted EXCEPT ![c] = counted[c]]
  BY Now
<1>2. Consistent(order[c].at, order[c].out, t, counted[c])
  BY <1>1 DEF Consistent
<1>3. Becomes(c, order[c], t, counted[c])
  BY <1>1, <1>2 DEF Becomes
<1> QED BY <1>3, OneCall

LEMMA ServerSteps ==
  ASSUME CountInv, KvInv', NEW c \in Calls, Server(c)
  PROVE  CountInv'
<1>n. /\ db[c] \in Sessions
      /\ Consistent(order[c].at, order[c].out, db[c], counted[c])
  BY Now
<1>u. UNCHANGED <<order, counted>>
  BY DEF Server, history
<1> USE DEF Gets, Puts, Waiting, Connected, LockHeld
<1>1. CASE Acquire(c)
  <2> DEFINE stage == IF db[c].at = "acquireGet" THEN "get" ELSE "lock"
             t == [db[c] EXCEPT !.at = stage]
  <2>1. db' = [db EXCEPT ![c] = t] /\ db[c].at \in Waiting
    BY <1>1 DEF Acquire, To
  <2>2. t \in Sessions /\ t.at = stage /\ t.heard = db[c].heard
    BY <1>n, <2>1 DEF Sessions
  <2> HIDE DEF t
  <2> QED BY <1>u, <2>1, <2>2, SessionSteps
<1>2. CASE Lock(c) \/ SumFits(c) \/ Upsert(c)
  <2>1. PICK stage \in {"sum", "write", "commit", "rollback"} :
          /\ db' = [db EXCEPT ![c].at = stage]
          /\ db[c].heard => stage # "rollback"
          /\ stage # "rollback" => db[c].heard
          /\ db[c].at \in Puts
    BY <1>2 DEF Lock, SumFits, Upsert, To
  <2> DEFINE t == [db[c] EXCEPT !.at = stage]
  <2>2. t \in Sessions /\ t.at = stage /\ t.heard = db[c].heard
    BY <1>n, <2>1 DEF Sessions
  <2>3. db' = [db EXCEPT ![c] = t]
    BY <2>1
  <2> HIDE DEF t
  <2> QED BY <1>u, <2>1, <2>2, <2>3, SessionSteps
<1>3. CASE Rollback(c)
  <2>1. db[c].at = "rollback" /\ db' = [db EXCEPT ![c] = NoSession]
    BY <1>3 DEF Rollback, Close
  <2>2. ~db[c].heard
    BY <1>n, <2>1 DEF Consistent
  <2>3. NoSession \in Sessions /\ NoSession.at = "none" /\ ~NoSession.heard
    BY KvConstants DEF NoSession, Sessions
  <2> QED BY <1>u, <2>1, <2>2, <2>3, SessionSteps
<1> QED BY <1>1, <1>2, <1>3 DEF Server

(* What a COMMIT makes of the counts of a call: the loyalty hook's order   *)
(* is counted, once; another program's put counts none.                    *)
CountsAfter(c) ==
  IF order[c].hook = "loyalty" THEN Append(counted[c], db[c].value) ELSE counted[c]

LEMMA CommitCountsOnce ==
  ASSUME CountInv, NEW c \in Calls, db[c].at = "commit"
  PROVE  /\ CountsAfter(c) \in Seq(Values)
         /\ CountsAfter(c) = <<>> \/ Len(CountsAfter(c)) = 1
         /\ order[c].hook # "loyalty" => CountsAfter(c) = <<>>
         /\ Recorded(c) => counted' = [counted EXCEPT ![c] = CountsAfter(c)]
         /\ db[c].heard => order[c].at = "putting"
         /\ ~db[c].heard =>
              /\ order[c].at \notin {"browsing", "priced", "invoking", "started",
                                     "getting", "got", "putting", "deciding"}
              /\ order[c].at = "settled" =>
                   \/ order[c].out.is = "GuestTrap"
                   \/ order[c].out.is = "Ok" /\ order[c].out.approved
              /\ order[c].at = "answered" =>
                   order[c].out.approved /\ order[c].out.is \in {"hook", "failed"}
<1>1. /\ counted[c] \in Seq(Values) /\ db[c].value \in Values
      /\ Consistent(order[c].at, order[c].out, db[c], counted[c])
      /\ counted = [counted EXCEPT ![c] = counted[c]]
  BY Now DEF Sessions, Puts
<1>2. counted[c] = <<>>
  BY <1>1 DEF Consistent, Puts
<1>3. /\ CountsAfter(c) \in Seq(Values)
      /\ CountsAfter(c) = <<>> \/ Len(CountsAfter(c)) = 1
      /\ order[c].hook # "loyalty" => CountsAfter(c) = <<>>
  BY <1>1, <1>2 DEF CountsAfter
<1>4. Recorded(c) => counted' = [counted EXCEPT ![c] = CountsAfter(c)]
  BY <1>1 DEF Recorded, CountsAfter
<1> QED BY <1>1, <1>3, <1>4 DEF Consistent, Gets, Puts

LEMMA PutAnswersSteps ==
  ASSUME CountInv, KvInv', NEW c \in Calls, PutAnswers(c)
  PROVE  CountInv'
<1> DEFINE k == CountsAfter(c)
<1>1. db[c].at = "commit" /\ db' = [db EXCEPT ![c] = NoSession] /\ Recorded(c)
  BY DEF PutAnswers, Commit, Close
<1>2. /\ k \in Seq(Values) /\ (k = <<>> \/ Len(k) = 1)
      /\ order[c].hook # "loyalty" => k = <<>>
      /\ counted' = [counted EXCEPT ![c] = k]
  BY <1>1, CommitCountsOnce
<1>3. order[c] \in Orders /\ order = [order EXCEPT ![c] = order[c]]
  BY Now
<1>4. NoSession.at = "none" /\ ~NoSession.heard
  BY DEF NoSession
<1> USE DEF Puts, Gets
<1>5. CASE db[c].heard
  <2> DEFINE o == [order[c] EXCEPT !.at = Resumes(c, "deciding")]
  <2>1. /\ o \in Orders
        /\ o.at = IF order[c].hook = "loyalty" THEN "deciding" ELSE "started"
    BY <1>3 DEF Orders, Stages, InGuest, Resumes
  <2>2. order' = [order EXCEPT ![c] = o]
    BY <1>5 DEF PutAnswers
  <2> HIDE DEF k, o
  <2>3. Becomes(c, o, NoSession, k)
    BY <1>1, <1>2, <1>4, <2>1, <2>2 DEF Becomes, Consistent
  <2> QED BY <2>3, OneCall
<1>6. CASE ~db[c].heard
  <2>1. order' = [order EXCEPT ![c] = order[c]]
    BY <1>3, <1>6 DEF PutAnswers
  <2>2. Consistent(order[c].at, order[c].out, NoSession, k)
    <3> HIDE DEF k
    <3> QED BY <1>1, <1>2, <1>4, <1>6, CommitCountsOnce DEF Consistent
  <2> HIDE DEF k
  <2>3. Becomes(c, order[c], NoSession, k)
    BY <1>1, <1>2, <1>3, <2>1, <2>2 DEF Becomes
  <2> QED BY <2>3, OneCall
<1> QED BY <1>5, <1>6

(* A kv call fails: its guest traps, or nobody listens.                    *)
LEMMA TrapSteps ==
  ASSUME CountInv, KvInv', NEW c \in Calls, HeardTrap(c),
         NEW t \in Sessions, db' = [db EXCEPT ![c] = t],
         ~t.heard, t.at \notin Puts, db[c].at # "none",
         NEW k \in Seq(Values), counted' = [counted EXCEPT ![c] = k],
         \/ k = counted[c]
         \/ db[c].at = "commit" /\ (k = <<>> \/ Len(k) = 1)
  PROVE  CountInv'
<1>1. /\ order[c] \in Orders
      /\ Consistent(order[c].at, order[c].out, db[c], counted[c])
      /\ order = [order EXCEPT ![c] = order[c]]
  BY Now
<1>2. k = <<>> \/ Len(k) = 1
  BY <1>1 DEF Consistent
<1>3. CASE db[c].heard
  <2>1. /\ Plain("GuestTrap") \in Outs /\ Plain("GuestTrap").is = "GuestTrap"
        /\ GuestEnds(c, Plain("GuestTrap"))
    BY <1>3, OutsAreOuts DEF HeardTrap, Kinds, Errors
  <2> QED BY <1>2, <2>1, GuestEndsConsistently, Zenon
<1>4. CASE ~db[c].heard
  <2>1. order' = [order EXCEPT ![c] = order[c]]
    BY <1>1, <1>4 DEF HeardTrap
  <2>2. Consistent(order[c].at, order[c].out, t, k)
    BY <1>1, <1>2, <1>4, CommitCountsOnce DEF Consistent, Gets, Puts
  <2>3. Becomes(c, order[c], t, k)
    BY <1>1, <2>1, <2>2 DEF Becomes
  <2> QED BY <2>3, OneCall
<1> QED BY <1>3, <1>4

LEMMA KvFailures ==
  ASSUME CountInv, KvInv', NEW c \in Calls,
         PutExceeds(c) \/ KvBreaks(c) \/ KvBreaksAfterCommit(c)
  PROVE  CountInv'
<1>n. /\ db[c] \in Sessions /\ counted[c] \in Seq(Values)
      /\ counted = [counted EXCEPT ![c] = counted[c]]
  BY Now
<1>z. /\ NoSession \in Sessions /\ ~NoSession.heard /\ NoSession.at \notin Puts
  BY KvConstants DEF NoSession, Sessions, Puts
<1>1. CASE PutExceeds(c)
  <2> DEFINE t == [db[c] EXCEPT !.at = "rollback", !.heard = FALSE]
  <2>1. t \in Sessions /\ ~t.heard /\ t.at \notin Puts
    BY <1>1, <1>n DEF PutExceeds, SumExceeds, Sessions, Puts, Waiting, Connected, LockHeld
  <2>2. db' = [db EXCEPT ![c] = t] /\ db[c].at # "none" /\ HeardTrap(c)
    BY <1>1 DEF PutExceeds, SumExceeds
  <2>3. counted' = [counted EXCEPT ![c] = counted[c]]
    BY <1>1, <1>n DEF PutExceeds, history
  <2> HIDE DEF t
  <2> QED BY <1>n, <2>1, <2>2, <2>3, TrapSteps
<1>2. CASE KvBreaks(c)
  <2>1. db' = [db EXCEPT ![c] = NoSession] /\ db[c].at # "none" /\ HeardTrap(c)
    BY <1>2 DEF KvBreaks, Break, Close, Waiting, Connected, LockHeld
  <2>2. counted' = [counted EXCEPT ![c] = counted[c]]
    BY <1>2, <1>n DEF KvBreaks, history
  <2> QED BY <1>n, <1>z, <2>1, <2>2, TrapSteps
<1>3. CASE KvBreaksAfterCommit(c)
  <2> DEFINE k == CountsAfter(c)
  <2>1. /\ db' = [db EXCEPT ![c] = NoSession] /\ db[c].at = "commit"
        /\ HeardTrap(c) /\ Recorded(c)
    BY <1>3 DEF KvBreaksAfterCommit, BreakCommit, Close
  <2>2. /\ k \in Seq(Values) /\ (k = <<>> \/ Len(k) = 1)
        /\ counted' = [counted EXCEPT ![c] = k]
    BY <2>1, CommitCountsOnce
  <2> HIDE DEF k
  <2> QED BY <1>n, <1>z, <2>1, <2>2, TrapSteps
<1> QED BY <1>1, <1>2, <1>3

(* What a dropped call leaves of its session.                              *)
LEMMA DropLeaves ==
  ASSUME CountInv, NEW c \in Calls, Drop(c)
  PROVE  \E t \in Sessions :
           /\ db' = [db EXCEPT ![c] = t] /\ ~t.heard
           /\ t.at \in Puts => db[c].at \in Puts
<1>1. db[c] \in Sessions /\ NoSession \in Sessions
  BY Now, KvConstants DEF NoSession, Sessions, Puts
<1>2. CASE db[c].at \in {"none"} \cup Waiting
  BY <1>1, <1>2 DEF Drop, NoSession, Puts
<1>3. CASE db[c].at \in {"sum", "write"}
  <2> DEFINE t == [db[c] EXCEPT !.at = "rollback", !.heard = FALSE]
  <2>1. t \in Sessions /\ ~t.heard /\ t.at = "rollback"
    BY <1>1, <1>3 DEF Sessions, Puts, Waiting, Connected, LockHeld
  <2>2. db' = [db EXCEPT ![c] = t]
    BY <1>3 DEF Drop, Waiting
  <2> QED BY <2>1, <2>2 DEF Puts
<1>4. CASE db[c].at \notin {"none", "sum", "write"} \cup Waiting
  <2> DEFINE t == [db[c] EXCEPT !.heard = FALSE]
  <2>1. t \in Sessions /\ ~t.heard /\ t.at = db[c].at
    BY <1>1 DEF Sessions
  <2>2. db' = [db EXCEPT ![c] = t]
    BY <1>4 DEF Drop
  <2> QED BY <2>1, <2>2
<1> QED BY <1>2, <1>3, <1>4

LEMMA CutOffSteps ==
  ASSUME CountInv, KvInv', NEW c \in Calls, CutOff(c)
  PROVE  CountInv'
<1>1. PICK t \in Sessions :
        /\ db' = [db EXCEPT ![c] = t] /\ ~t.heard
        /\ t.at \in Puts => db[c].at \in Puts
  BY DropLeaves DEF CutOff
<1>2. /\ counted[c] \in Seq(Values) /\ counted = [counted EXCEPT ![c] = counted[c]]
      /\ Consistent(order[c].at, order[c].out, db[c], counted[c])
  BY Now
<1>3. counted' = [counted EXCEPT ![c] = counted[c]]
  BY <1>2 DEF CutOff, history
<1>4. /\ counted[c] = <<>> \/ Len(counted[c]) = 1
      /\ t.at \in Puts => counted[c] = <<>>
  BY <1>1, <1>2 DEF Consistent
<1>5. /\ Plain("GuestTrap") \in Outs /\ Plain("GuestTrap").is = "GuestTrap"
      /\ GuestEnds(c, Plain("GuestTrap"))
  BY OutsAreOuts DEF CutOff, Kinds, Errors
<1> QED BY <1>1, <1>2, <1>3, <1>4, <1>5, GuestEndsConsistently, Zenon

LEMMA LeaveSteps ==
  ASSUME CountInv, KvInv', NEW c \in Calls, Leave(c)
  PROVE  CountInv'
<1> DEFINE o == [order[c] EXCEPT !.at = "left"]
<1>1. /\ counted[c] \in Seq(Values) /\ counted = [counted EXCEPT ![c] = counted[c]]
      /\ Consistent(order[c].at, order[c].out, db[c], counted[c])
      /\ db = [db EXCEPT ![c] = db[c]] /\ order[c] \in Orders /\ db[c] \in Sessions
  BY Now
<1>2. o \in Orders /\ o.at = "left"
  BY <1>1 DEF Orders, Stages
<1>3. /\ order' = [order EXCEPT ![c] = o]
      /\ counted' = [counted EXCEPT ![c] = counted[c]]
  BY <1>1 DEF Leave, Goes, history
<1>4. PICK t \in Sessions :
        /\ db' = [db EXCEPT ![c] = t] /\ ~t.heard
        /\ t.at \in Puts => db[c].at \in Puts
  <2>1. CASE order[c].at \in {"priced", "invoking"} /\ UNCHANGED kvVars
    BY <1>1, <2>1 DEF Consistent, kvVars, history
  <2>2. CASE Drop(c)
    BY <2>2, DropLeaves
  <2> QED BY <2>1, <2>2 DEF Leave
<1> HIDE DEF o
<1>5. Becomes(c, o, t, counted[c])
  BY <1>1, <1>2, <1>3, <1>4 DEF Becomes, Consistent
<1> QED BY <1>5, OneCall

LEMMA CountInvStarts ==
  ASSUME Init
  PROVE  CountInv
<1>1. KvInv
  BY EmptyFits DEF Init
<1>2. order \in [Calls -> Orders]
  <2>1. NewOrder \in Orders
    BY OutsAreOuts, CountsAreNat DEF NewOrder, Orders, Stages, Prices
  <2> QED BY <2>1 DEF Init
<1>3. counted \in [Calls -> Seq(Values)]
  BY DEF Init
<1>4. AllConsistent
  BY DEF Init, KvInit, NewOrder, NoSession, AllConsistent, Consistent, Puts
<1> QED BY <1>1, <1>2, <1>3, <1>4 DEF CountInv

(* One step of the checkout at a time.                                     *)
LEMMA NextKeepsCountInv ==
  ASSUME CountInv, [Next]_vars
  PROVE  CountInv'
<1>1. KvInv'
  BY NextKeepsKvInv DEF CountInv
<1>2. ASSUME NEW c \in Calls,
             \/ \E cart \in Carts : Place(c, cart)
             \/ Reads(c) \/ Enters(c) \/ AnswerShopper(c) \/ Retry(c)
      PROVE  CountInv'
  BY <1>1, <1>2, HandlerSteps DEF Enters
<1>3. ASSUME NEW c \in Calls,
             \/ FraudRejects(c) \/ Decide(c) \/ RogueDecides(c)
             \/ FraudPasses(c) \/ GetAnswers(c) \/ CountOrder(c) \/ PutAnswers(c)
             \/ RogueCalls(c)
      PROVE  CountInv'
  BY <1>1, <1>3, GuestDecides, GuestAsks, PutAnswersSteps
<1>4. ASSUME NEW c \in Calls,
             \/ PutExceeds(c) \/ KvBreaks(c) \/ KvBreaksAfterCommit(c)
             \/ CutOff(c) \/ Leave(c) \/ Server(c)
      PROVE  CountInv'
  BY <1>1, <1>4, KvFailures, CutOffSteps, LeaveSteps, ServerSteps
<1>5. ASSUME UNCHANGED <<order, db, counted>>
      PROVE  CountInv'
  BY <1>1, <1>5 DEF CountInv, AllConsistent
<1>6. ASSUME NEW m \in Merchants,
             CreateMerchant(m) \/ \E hook \in Hooks : UploadHook(m, hook)
      PROVE  CountInv'
  BY <1>5, <1>6 DEF CreateMerchant, UploadHook, kvVars, history
<1>7. CASE UNCHANGED vars
  BY <1>5, <1>7 DEF vars
<1> QED BY <1>2, <1>3, <1>4, <1>6, <1>7 DEF Next

(* An order is counted once at most, and only if its shopper is told that  *)
(* it is approved, or is told nothing: for any number of shoppers, tries,  *)
(* cut-offs, lost connections and abandoned requests.                      *)
THEOREM OrdersCountedOnce == Spec => []CountedOnce
<1>1. Init => CountInv
  BY CountInvStarts
<1>2. CountInv /\ [Next]_vars => CountInv'
  BY NextKeepsCountInv
<1>3. CountInv => CountedOnce
  <2> SUFFICES ASSUME CountInv, NEW c \in Calls
               PROVE  /\ Len(counted[c]) <= 1
                      /\ order[c].at = "answered" /\ counted[c] # <<>> =>
                           order[c].out.approved /\ order[c].out.is \in {"hook", "failed"}
    BY DEF CountedOnce
  <2>1. Consistent(order[c].at, order[c].out, db[c], counted[c])
    BY Now
  <2>2. Len(counted[c]) <= 1
    <3>1. counted[c] = <<>> \/ Len(counted[c]) = 1
      BY <2>1 DEF Consistent
    <3>2. Len(<<>>) = 0
      OBVIOUS
    <3>3. CASE counted[c] = <<>>
      <4>1. Len(counted[c]) = Len(<<>>)
        BY <3>3, Zenon
      <4> QED BY <3>2, <4>1
    <3>4. CASE Len(counted[c]) = 1
      BY <3>4
    <3> QED BY <3>1, <3>3, <3>4, Zenon
  <2>3. order[c].at = "answered" /\ counted[c] # <<>> =>
          order[c].out.approved /\ order[c].out.is \in {"hook", "failed"}
    BY <2>1 DEF Consistent
  <2> QED BY <2>2, <2>3
<1> QED BY <1>1, <1>2, <1>3, PTL DEF Spec

-----------------------------------------------------------------------------
(* Discounts.  A row never counts more orders than there are, and what     *)
(* other programs put there, so the nth order by the row is the nth of     *)
(* these at most; and the loyalty hook decides only once its own count is  *)
(* committed.                                                              *)

Number(c) == Claims(TenantOf[c], KeyOf[c])

EarnInv ==
  /\ RowsCounted
  /\ counted \in [Calls -> Seq(Counts)]
  /\ planted \in [Merchants -> [Keys -> Counts]]
  /\ \A c \in Calls : Earned(order[c], db[c], KeyOf[c], counted[c], Number(c))

(* No count and nothing planted is ever taken back.                        *)
Grows ==
  /\ counted' \in [Calls -> Seq(Counts)]
  /\ planted' \in [Merchants -> [Keys -> Counts]]
  /\ \A d \in Calls : counted[d] # <<>> => counted'[d] # <<>>
  /\ \A m \in Merchants, key \in Keys : planted[m][key] <= planted'[m][key]

LEMMA StandingStill ==
  ASSUME EarnInv, UNCHANGED <<counted, planted>>
  PROVE  Grows /\ \A m, key : Claims(m, key)' = Claims(m, key)
<1>1. ASSUME NEW m \in Merchants, NEW key \in Keys
      PROVE  planted[m][key] <= planted[m][key]
  <2>1. planted[m][key] \in Nat
    BY CountsAreNat DEF EarnInv
  <2> QED BY <2>1
<1> QED BY <1>1 DEF EarnInv, Grows, Claims, CountedFor

LEMMA CallsHaveRows ==
  ASSUME NEW c \in Calls
  PROVE  TenantOf[c] \in Merchants /\ KeyOf[c] \in Keys
BY PgKvAssumption, StorefrontAssumption DEF Merchants

LEMMA ClaimsGrow ==
  ASSUME EarnInv, Grows, NEW m \in Merchants, NEW key \in Keys
  PROVE  /\ Claims(m, key) \in Nat /\ Claims(m, key)' \in Nat
         /\ Claims(m, key) <= Claims(m, key)'
         /\ planted'[m][key] <= Claims(m, key)'
<1> DEFINE S == CountedFor(m, key)
           T == CountedFor(m, key)'
<1>1. S \subseteq T /\ T \subseteq Calls
  BY DEF CountedFor, Grows
<1>2. IsFiniteSet(Calls)
  BY StorefrontAssumption
<1>3. /\ planted[m][key] \in Nat /\ planted'[m][key] \in Nat
      /\ planted[m][key] <= planted'[m][key]
  BY CountsAreNat DEF EarnInv, Grows
<1> HIDE DEF S, T
<1>4. IsFiniteSet(T)
  BY <1>1, <1>2, FS_Subset
<1>5. IsFiniteSet(S) /\ Cardinality(S) <= Cardinality(T)
  BY <1>1, <1>4, FS_Subset
<1>6. Cardinality(S) \in Nat /\ Cardinality(T) \in Nat
  BY <1>4, <1>5, FS_CardinalityType
<1>7. /\ Claims(m, key) = planted[m][key] + Cardinality(S)
      /\ Claims(m, key)' = planted'[m][key] + Cardinality(T)
  BY DEF Claims, S, T
<1> QED BY <1>3, <1>5, <1>6, <1>7

(* The call that counts adds one.                                          *)
LEMMA OneMore ==
  ASSUME EarnInv, Grows, planted' = planted,
         NEW c \in Calls, counted[c] = <<>>, counted'[c] # <<>>
  PROVE  Number(c) + 1 <= Number(c)'
<1> DEFINE S == CountedFor(TenantOf[c], KeyOf[c])
           T == CountedFor(TenantOf[c], KeyOf[c])'
           p == planted[TenantOf[c]][KeyOf[c]]
<1>1. S \cup {c} \subseteq T /\ c \notin S /\ T \subseteq Calls
  BY DEF CountedFor, Grows
<1>2. IsFiniteSet(Calls)
  BY StorefrontAssumption
<1>3. S \subseteq T
  BY <1>1
<1>p. p \in Nat
  BY CallsHaveRows, CountsAreNat DEF EarnInv
<1> HIDE DEF S, T
<1>4. IsFiniteSet(T)
  BY <1>1, <1>2, FS_Subset
<1>5. IsFiniteSet(S)
  BY <1>3, <1>4, FS_Subset
<1>6. /\ Cardinality(S \cup {c}) = Cardinality(S) + 1
      /\ Cardinality(S) \in Nat /\ Cardinality(T) \in Nat
  BY <1>1, <1>4, <1>5, FS_AddElement, FS_CardinalityType
<1>7. Cardinality(S \cup {c}) <= Cardinality(T)
  BY <1>1, <1>4, FS_Subset
<1>8. Number(c) = p + Cardinality(S) /\ Number(c)' = p + Cardinality(T)
  BY DEF Number, Claims, S, T
<1> HIDE DEF p
<1> QED BY <1>p, <1>6, <1>7, <1>8

(* The other calls are where they were.                                    *)
OnlyMoves(c) ==
  \A d \in Calls \ {c} :
    order'[d] = order[d] /\ db'[d] = db[d] /\ counted'[d] = counted[d]

(* What holds of a call goes on to hold when more is counted.              *)
LEMMA EarnedStays ==
  ASSUME NEW o, o.nth \in Counts, NEW s, NEW key, NEW k,
         NEW n \in Nat, NEW m \in Nat, n <= m, Earned(o, s, key, k, n)
  PROVE  Earned(o, s, key, k, m)
<1>1. o.nth \in Nat /\ LoyaltyFrom \in Nat
  BY CountsAreNat, StorefrontAssumption
<1>2. 0..(n + 1) \subseteq 0..(m + 1) /\ LoyaltyFrom..n \subseteq LoyaltyFrom..m
  BY <1>1
<1>3. /\ o.nth <= n + 1 => o.nth <= m + 1
      /\ o.nth <= n => o.nth <= m
  BY <1>1
<1> QED BY <1>2, <1>3 DEF Earned

LEMMA EarnOneCall ==
  ASSUME CountInv, CountInv', EarnInv, NEW c \in Calls, OnlyMoves(c), Grows,
         NEW key \in Keys,
         \/ rows' = rows
         \/ /\ Stored(c) /\ key = db[c].key
            /\ CountIn(db[c].value) <= Claims(TenantOf[c], key)',
         Earned(order'[c], db'[c], KeyOf[c], counted'[c], Number(c)')
  PROVE  EarnInv'
<1>1. RowsCounted'
  <2> SUFFICES ASSUME NEW m \in Merchants, NEW other \in Keys
               PROVE  CountIn(rows'[m][other]) <= Claims(m, other)'
    BY DEF RowsCounted, CountIn
  <2>1. /\ Claims(m, other) \in Nat /\ Claims(m, other)' \in Nat
        /\ Claims(m, other) <= Claims(m, other)'
    BY ClaimsGrow
  <2>2. CountIn(rows[m][other]) <= Claims(m, other)
    BY DEF EarnInv, RowsCounted
  <2>3. CountIn(rows[m][other]) \in Nat
    BY CountsAreNat
  <2>4. rows \in [Merchants -> [Keys -> Rows]]
    BY DEF CountInv, KvInv, KvTypeOK, Merchants
  <2>5. CountIn(rows[m][other]) <= Claims(m, other)'
    BY <2>1, <2>2, <2>3
  <2>6. CASE rows'[m][other] = rows[m][other]
    BY <2>5, <2>6
  <2>7. CASE /\ Stored(c) /\ key = db[c].key
             /\ CountIn(db[c].value) <= Claims(TenantOf[c], key)'
             /\ m = TenantOf[c] /\ other = key
    <3>1. rows'[m][other] = db[c].value
      BY <2>4, <2>7 DEF Stored
    <3> QED BY <2>7, <3>1
  <2>8. CASE Stored(c) /\ key = db[c].key /\ (m # TenantOf[c] \/ other # key)
    <3>1. rows'[m][other] = rows[m][other]
      BY <2>4, <2>8 DEF Stored
    <3> QED BY <2>6, <3>1
  <2> QED BY <2>6, <2>7, <2>8
<1>2. ASSUME NEW d \in Calls
      PROVE  Earned(order'[d], db'[d], KeyOf[d], counted'[d], Number(d)')
  <2>1. CASE d = c
    BY <2>1
  <2>2. CASE d # c
    <3>1. Number(d) \in Nat /\ Number(d)' \in Nat /\ Number(d) <= Number(d)'
      BY ClaimsGrow, CallsHaveRows DEF Number
    <3>2. Earned(order[d], db[d], KeyOf[d], counted[d], Number(d))
      BY DEF EarnInv
    <3>3. order[d].nth \in Counts
      BY Now DEF Orders
    <3>4. Earned(order[d], db[d], KeyOf[d], counted[d], Number(d)')
      BY <3>1, <3>2, <3>3, EarnedStays
    <3> QED BY <2>2, <3>4 DEF OnlyMoves
  <2> QED BY <2>1, <2>2
<1> QED BY <1>1, <1>2 DEF EarnInv, Grows

LEMMA EarnNow ==
  ASSUME CountInv, EarnInv, NEW c \in Calls
  PROVE  /\ Earned(order[c], db[c], KeyOf[c], counted[c], Number(c))
         /\ Consistent(order[c].at, order[c].out, db[c], counted[c])
         /\ order[c] \in Orders /\ db[c] \in Sessions /\ counted[c] \in Seq(Counts)
         /\ order[c].nth \in Counts /\ order[c].nth \in Nat
<1>1. order[c].nth \in Counts
  BY Now DEF Orders
<1> QED BY <1>1, Now, CountsAreNat DEF EarnInv

(* Steps that store and count nothing, start no put of the loyalty hook,   *)
(* and give no discount of it.                                             *)
LEMMA EarnPlainly ==
  ASSUME CountInv, CountInv', EarnInv, NEW c \in Calls, OnlyMoves(c),
         UNCHANGED <<rows, counted, planted>>,
         \/ order'[c].hook = "rogue"
         \/ db'[c].at = "none"
         \/ db'[c].at \notin Puts /\ db'[c].key = KeyOf[c]
         \/ /\ order'[c].hook = order[c].hook
            /\ db[c].at # "none" /\ db'[c].key = db[c].key
            /\ db'[c].at \in Puts =>
                 /\ db[c].at \in Puts /\ db'[c].value = db[c].value
                 /\ db'[c].heard => db[c].heard /\ order'[c].nth = order[c].nth,
         \/ order'[c] = order[c]
         \/ /\ order'[c].at \notin {"got", "deciding"}
            /\ order'[c].at \in {"settled", "answered"} =>
                 order'[c].hook # "loyalty" \/ order'[c].out.discount = 0
  PROVE  EarnInv'
<1>1. Grows /\ Number(c)' = Number(c)
  BY StandingStill DEF Number
<1>2. Earned(order[c], db[c], KeyOf[c], counted[c], Number(c))
  BY EarnNow
<1>3. Earned(order'[c], db'[c], KeyOf[c], counted[c], Number(c))
  <2>1. "none" \notin Puts
    BY DEF Puts
  <2>2. order'[c].out.discount = 0 => ~(order'[c].out.discount > 0)
    OBVIOUS
  <2> QED BY <1>2, <2>1, <2>2 DEF Earned
<1>4. KeyOf[c] \in Keys
  BY CallsHaveRows
<1> QED BY <1>1, <1>3, <1>4, EarnOneCall

LEMMA OutsDiscount ==
  /\ \A is : Plain(is).discount = 0
  /\ \A is, s : Approved(is, s).discount = 0
  /\ \A b, d : Decision(b, d).discount = d
BY DEF Plain, Nothing, Approved, Decision

LEMMA EarnHandlerSteps ==
  ASSUME CountInv, CountInv', EarnInv, NEW c \in Calls,
         \/ \E cart \in Carts : Place(c, cart)
         \/ Reads(c) \/ Busy(c) \/ Refused(c) \/ RunGuest(c) \/ Retry(c)
  PROVE  EarnInv'
<1> USE DEF kvVars, history
<1>1. /\ order \in [Calls -> Orders] /\ db \in [Calls -> Sessions]
      /\ order[c].at \in {"browsing", "priced", "invoking", "answered"}
      /\ order[c].at = "answered" => order[c].out.is = "retry"
      /\ UNCHANGED <<rows, db, counted, planted>>
  BY Now DEF CountInv, KvInv, KvTypeOK, Place, Reads, ReadLimits,
             UnknownMerchant, LimitsFail, Busy, Refused, RunGuest, Retry
<1>2. db'[c].at = "none"
  BY <1>1, Now DEF Consistent
<1>3. \A d \in Calls \ {c} : order'[d] = order[d]
  <2>1. \E o : order' = [order EXCEPT ![c] = o]
    BY Zenon DEF Place, Reads, ReadLimits, UnknownMerchant, LimitsFail, Busy, Refused,
                 RunGuest, Retry, Goes, Says
  <2> QED BY <1>1, <2>1
<1>4. OnlyMoves(c)
  BY <1>1, <1>3 DEF OnlyMoves
<1> DEFINE Goal == /\ order'[c].at \notin {"got", "deciding"}
                   /\ order'[c].at \in {"settled", "answered"} => order'[c].out.discount = 0
<1>5. Goal
  <2> USE <1>1
  <2>1. ASSUME NEW cart \in Carts, Place(c, cart) PROVE Goal
    <3>1. CASE Subtotal(cart) = TooLarge
      <4>1. order' = [order EXCEPT ![c] = [order[c] EXCEPT
              !.at = "answered", !.cart = cart, !.out = Plain("bad order")]]
        BY <2>1, <3>1 DEF Place
      <4> QED BY <4>1, OutsDiscount DEF Orders
    <3>2. CASE Subtotal(cart) # TooLarge
      <4>1. order' = [order EXCEPT ![c] = [order[c] EXCEPT
              !.at = "priced", !.cart = cart, !.subtotal = Subtotal(cart)]]
        BY <2>1, <3>2 DEF Place
      <4> QED BY <4>1 DEF Orders
    <3> QED BY <3>1, <3>2
  <2>2. CASE ReadLimits(c) \/ RunGuest(c)
    <3>1. \/ order' = [order EXCEPT ![c].at = "invoking"]
          \/ order' = [order EXCEPT ![c].at = "started", ![c].hook = shop[TenantOf[c]]]
      BY <2>2 DEF ReadLimits, RunGuest, Goes
    <3> QED BY <3>1 DEF Orders
  <2>3. ASSUME NEW out, Says(c, out), out.discount = 0 PROVE Goal
    BY <2>3 DEF Says, Orders
  <2>4. CASE Busy(c)
    <3>1. Plain("TenantBusy").is = "TenantBusy"
      BY OutsAreOuts DEF Kinds
    <3>2. Resolve(Plain("TenantBusy"), order[c].subtotal) = Plain("retry")
      BY <3>1 DEF Resolve
    <3>3. Says(c, Plain("retry"))
      BY <2>4, <3>2 DEF Busy
    <3> QED BY <2>3, <3>3, OutsDiscount
  <2>5. CASE Refused(c)
    BY <2>5, OutsDiscount DEF Refused, Orders
  <2>6. CASE Retry(c)
    BY <2>6 DEF Retry, Orders
  <2>7. CASE UnknownMerchant(c)
    BY <2>3, <2>7, OutsDiscount DEF UnknownMerchant
  <2>8. CASE LimitsFail(c)
    BY <2>3, <2>8, OutsDiscount DEF LimitsFail
  <2> QED BY <2>1, <2>2, <2>4, <2>5, <2>6, <2>7, <2>8 DEF Reads
<1> QED BY <1>1, <1>2, <1>4, <1>5, EarnPlainly

LEMMA GuestEndsOrder ==
  ASSUME CountInv, NEW c \in Calls, NEW out, GuestEnds(c, out)
  PROVE  /\ \A d \in Calls \ {c} : order'[d] = order[d]
         /\ order'[c] = [order[c] EXCEPT !.at = "settled", !.out = out]
         /\ order'[c].at = "settled" /\ order'[c].out = out
         /\ order'[c].nth = order[c].nth /\ order'[c].hook = order[c].hook
         /\ order'[c].cart = order[c].cart /\ order'[c].subtotal = order[c].subtotal
         /\ order[c].at \in InGuest
<1>1. order[c] \in Orders /\ order' = [order EXCEPT ![c].at = "settled", ![c].out = out]
        /\ order \in [Calls -> Orders]
  BY Now DEF GuestEnds, CountInv
<1> QED BY <1>1 DEF Orders, GuestEnds

LEMMA EarnGuestDecides ==
  ASSUME CountInv, CountInv', EarnInv, NEW c \in Calls,
         FraudRejects(c) \/ Decide(c) \/ RogueDecides(c)
  PROVE  EarnInv'
<1>1. /\ UNCHANGED <<rows, db, counted, planted>>
      /\ order[c].at \in {"started", "deciding"}
  BY DEF FraudRejects, Decide, RogueDecides, kvVars, history
<1>2. db'[c].at = "none" /\ db[c].at = "none"
  BY <1>1, Now DEF Consistent
<1>3. CASE FraudRejects(c)
  <2>1. GuestEnds(c, Decision(FALSE, 0)) /\ Decision(FALSE, 0).discount = 0
    BY <1>3, OutsDiscount DEF FraudRejects
  <2>2. /\ \A d \in Calls \ {c} : order'[d] = order[d]
        /\ order'[c].nth = order[c].nth /\ order'[c].at = "settled"
        /\ order'[c].out.discount = 0
    BY <2>1, GuestEndsOrder
  <2>3. OnlyMoves(c)
    BY <1>1, <2>2 DEF OnlyMoves
  <2> QED BY <1>1, <1>2, <2>2, <2>3, EarnPlainly
<1>4. CASE RogueDecides(c)
  <2>1. PICK d : GuestEnds(c, Decision(TRUE, d))
    BY <1>4 DEF RogueDecides
  <2>2. /\ \A e \in Calls \ {c} : order'[e] = order[e]
        /\ order'[c].nth = order[c].nth /\ order'[c].at = "settled"
        /\ order'[c].hook = order[c].hook
    BY <2>1, GuestEndsOrder
  <2>3. OnlyMoves(c)
    BY <1>1, <2>2 DEF OnlyMoves
  <2>4. order[c].hook = "rogue"
    BY <1>4 DEF RogueDecides
  <2> QED BY <1>1, <1>2, <2>2, <2>3, <2>4, EarnPlainly
<1>5. CASE Decide(c)
  <2> DEFINE d == Discount(order[c].subtotal, order[c].nth)
  <2>1. GuestEnds(c, Decision(TRUE, d)) /\ Decision(TRUE, d).discount = d
    BY <1>5, OutsDiscount DEF Decide
  <2>2. /\ \A e \in Calls \ {c} : order'[e] = order[e]
        /\ order'[c].nth = order[c].nth /\ order'[c].at = "settled"
        /\ order'[c].out.discount = d
    BY <2>1, GuestEndsOrder
  <2>3. OnlyMoves(c) /\ Grows /\ Number(c)' = Number(c)
    BY <1>1, <2>2, StandingStill DEF OnlyMoves, Number
  <2>4. d > 0 => order[c].nth >= LoyaltyFrom
    BY DEF Discount
  <2>5. /\ Earned(order[c], db[c], KeyOf[c], counted[c], Number(c))
        /\ order[c].nth \in Nat /\ order[c].at = "deciding"
    BY <1>5, EarnNow DEF Decide
  <2>6. Number(c) \in Nat /\ LoyaltyFrom \in Nat
    BY <2>3, ClaimsGrow, CallsHaveRows, StorefrontAssumption DEF Number
  <2> HIDE DEF d
  <2>7. d > 0 => counted[c] = <<order[c].nth>> /\ order[c].nth \in LoyaltyFrom..Number(c)
    BY <2>4, <2>5, <2>6 DEF Earned
  <2>8. Earned(order'[c], db'[c], KeyOf[c], counted'[c], Number(c)')
    <3>1. "none" \notin Puts
      BY DEF Puts
    <3> QED BY <1>1, <1>2, <2>2, <2>3, <2>7, <3>1 DEF Earned
  <2> QED BY <1>1, <2>3, <2>8, CallsHaveRows, EarnOneCall
<1> QED BY <1>3, <1>4, <1>5

(* resolve passes a discount on from an accepted answer, and gives none.   *)
LEMMA ResolveDiscount ==
  ASSUME NEW out, NEW s
  PROVE  Resolve(out, s).discount \in {0, out.discount}
<1>1. CASE out.is = "Ok" /\ out.discount <= s
  <2>1. Resolve(out, s) = [out EXCEPT !.is = "hook", !.total = s - out.discount]
    BY <1>1 DEF Resolve
  <2> QED BY <2>1
<1>2. CASE ~(out.is = "Ok" /\ out.discount <= s)
  <2>1. \/ Resolve(out, s) \in {Approved("none", s), Approved("failed", s)}
        \/ Resolve(out, s) = Plain("retry")
    BY <1>2 DEF Resolve
  <2> QED BY <2>1, OutsDiscount
<1> QED BY <1>1, <1>2

LEMMA EarnAnswers ==
  ASSUME CountInv, CountInv', EarnInv, NEW c \in Calls, AnswerShopper(c)
  PROVE  EarnInv'
<1> DEFINE out == Resolve(order[c].out, order[c].subtotal)
<1>1. /\ UNCHANGED <<rows, db, counted, planted>> /\ order[c].at = "settled"
      /\ order' = [order EXCEPT ![c].at = "answered", ![c].out = out]
  BY DEF AnswerShopper, Says, kvVars, history
<1>2. out \in Outs /\ out.discount \in {0, order[c].out.discount}
  BY <1>1, Now, ResolveProperties, ResolveDiscount DEF Orders
<1> HIDE DEF out
<1>3. /\ \A d \in Calls \ {c} : order'[d] = order[d]
      /\ order'[c].nth = order[c].nth /\ order'[c].hook = order[c].hook
      /\ order'[c].at = "answered" /\ order'[c].out = out
  BY <1>1 DEF CountInv, Orders
<1>4. OnlyMoves(c) /\ Grows /\ Number(c)' = Number(c)
  BY <1>1, <1>3, StandingStill DEF OnlyMoves, Number
<1>5. Earned(order[c], db[c], KeyOf[c], counted[c], Number(c))
  BY EarnNow
<1>6. out.discount > 0 => order[c].out.discount > 0
  BY <1>2
<1>7. Earned(order'[c], db'[c], KeyOf[c], counted'[c], Number(c)')
  BY <1>1, <1>3, <1>4, <1>5, <1>6 DEF Earned
<1> QED BY <1>1, <1>4, <1>7, CallsHaveRows, EarnOneCall

LEMMA EarnGuestAsks ==
  ASSUME CountInv, CountInv', EarnInv, NEW c \in Calls,
         FraudPasses(c) \/ GetAnswers(c) \/ CountOrder(c) \/ RogueCalls(c)
  PROVE  EarnInv'
<1>1. /\ UNCHANGED <<rows, counted, planted>>
      /\ order \in [Calls -> Orders] /\ db \in [Calls -> Sessions]
      /\ TenantOf[c] \in Merchants /\ KeyOf[c] \in Keys
  BY CallsHaveRows DEF FraudPasses, GetAnswers, CountOrder, RogueCalls, BeginGet,
       BeginPut, Got, CountInv, KvInv, KvTypeOK, history
<1>2. /\ Earned(order[c], db[c], KeyOf[c], counted[c], Number(c))
      /\ Consistent(order[c].at, order[c].out, db[c], counted[c])
      /\ order[c].nth \in Counts /\ order[c].nth \in Nat
  BY EarnNow
<1>3. /\ Grows /\ Number(c)' = Number(c) /\ Number(c) \in Nat
  BY <1>1, StandingStill, ClaimsGrow DEF Number
<1> USE DEF Puts
<1>4. CASE FraudPasses(c)
  <2>1. /\ db' = [db EXCEPT ![c] = Open("acquireGet", KeyOf[c], None)]
        /\ order' = [order EXCEPT ![c].at = "getting"]
    BY <1>4 DEF FraudPasses, BeginGet, Goes
  <2>2. OnlyMoves(c) /\ db'[c].at = "acquireGet" /\ db'[c].key = KeyOf[c]
    BY <1>1, <2>1 DEF OnlyMoves, Open
  <2>3. order'[c].at = "getting"
    BY <1>1, <2>1 DEF Orders
  <2> QED BY <1>1, <2>2, <2>3, EarnPlainly
<1>5. CASE GetAnswers(c) /\ ~(db[c].heard /\ order[c].hook = "loyalty")
  <2>1. /\ db' = [db EXCEPT ![c] = NoSession]
        /\ order' = order \/ \E n : order' = [order EXCEPT ![c].at = "started", ![c].nth = n]
    BY <1>5 DEF GetAnswers, Got, Close, Resumes
  <2>2. OnlyMoves(c) /\ db'[c].at = "none"
    BY <1>1, <2>1 DEF OnlyMoves, NoSession
  <2>3. order'[c] = order[c] \/ order'[c].at = "started"
    BY <1>1, <2>1 DEF Orders
  <2> QED BY <1>1, <2>2, <2>3, EarnPlainly
<1>6. CASE GetAnswers(c) /\ db[c].heard /\ order[c].hook = "loyalty"
  <2> DEFINE x == CountIn(rows[TenantOf[c]][KeyOf[c]])
             n == Successor(x)
  <2>1. /\ db[c].at = "get" /\ db' = [db EXCEPT ![c] = NoSession]
        /\ order' = [order EXCEPT ![c].at = "got", ![c].nth = Successor(CountIn(Row(c)))]
    BY <1>6 DEF GetAnswers, Got, Close, Resumes
  <2>2. db[c].key = KeyOf[c]
    BY <1>2, <1>6, <2>1 DEF Earned
  <2>3. order' = [order EXCEPT ![c].at = "got", ![c].nth = n]
    BY <2>1, <2>2 DEF Row
  <2>4. x \in Nat /\ x <= Number(c) /\ n \in Counts
    BY <1>1, CountsAreNat DEF EarnInv, RowsCounted, Number
  <2> HIDE DEF x
  <2>5. n \in Nat /\ n <= Number(c) + 1
    BY <1>3, <2>4, CountsAreNat DEF Successor
  <2> HIDE DEF n
  <2>6. /\ OnlyMoves(c) /\ db'[c].at = "none"
        /\ order'[c].at = "got" /\ order'[c].nth = n /\ order'[c].hook = "loyalty"
    BY <1>1, <1>6, <2>1, <2>3 DEF OnlyMoves, NoSession, Orders
  <2>7. Earned(order'[c], db'[c], KeyOf[c], counted'[c], Number(c)')
    BY <1>3, <2>5, <2>6 DEF Earned
  <2> QED BY <1>1, <1>3, <2>6, <2>7, EarnOneCall
<1>7. CASE CountOrder(c)
  <2>1. /\ db' = [db EXCEPT ![c] = Open("acquirePut", KeyOf[c], order[c].nth)]
        /\ order' = [order EXCEPT ![c].at = "putting"] /\ order[c].at = "got"
    BY <1>7 DEF CountOrder, BeginPut, Goes
  <2>2. /\ OnlyMoves(c) /\ db'[c].at = "acquirePut" /\ db'[c].value = order[c].nth
        /\ db'[c].key = KeyOf[c]
        /\ order'[c].at = "putting" /\ order'[c].nth = order[c].nth
    BY <1>1, <2>1 DEF OnlyMoves, Orders, Open
  <2>3. order[c].nth \in Counts \cap 0..(Number(c) + 1)
    BY <1>2, <1>3, <2>1 DEF Earned
  <2>4. Earned(order'[c], db'[c], KeyOf[c], counted'[c], Number(c)')
    BY <1>3, <2>2, <2>3 DEF Earned
  <2> QED BY <1>1, <1>3, <2>2, <2>4, EarnOneCall
<1>8. CASE RogueCalls(c)
  <2>1. PICK at \in {"getting", "putting"} :
          /\ \E s : db' = [db EXCEPT ![c] = s]
          /\ order' = [order EXCEPT ![c].at = at]
    BY <1>8 DEF RogueCalls, BeginGet, BeginPut, Goes
  <2>2. /\ OnlyMoves(c) /\ order'[c].at = at /\ order'[c].hook = "rogue"
    BY <1>1, <1>8, <2>1 DEF OnlyMoves, Orders, RogueCalls
  <2> QED BY <1>1, <2>2, EarnPlainly
<1> QED BY <1>4, <1>5, <1>6, <1>7, <1>8

LEMMA Appended ==
  ASSUME NEW k \in Seq(Counts), k = <<>>, NEW v \in Counts
  PROVE  Append(k, v) = <<v>> /\ Append(k, v) # <<>> /\ Append(k, v) \in Seq(Counts)
OBVIOUS

(* COMMIT: the row takes the count of an order that has just been counted, *)
(* or what another program put.                                            *)
LEMMA CommitCounts ==
  ASSUME CountInv, EarnInv, NEW c \in Calls, db[c].at = "commit",
         order[c].hook = "loyalty", Recorded(c)
  PROVE  /\ counted'[c] = <<db[c].value>> /\ Grows
         /\ \A d \in Calls \ {c} : counted'[d] = counted[d]
         /\ db[c].key = KeyOf[c]
         /\ CountIn(db[c].value) <= Number(c)'
         /\ db[c].value <= Number(c)'
         /\ db[c].heard => order[c].nth = db[c].value
<1>1. /\ Earned(order[c], db[c], KeyOf[c], counted[c], Number(c))
      /\ Consistent(order[c].at, order[c].out, db[c], counted[c])
      /\ counted[c] \in Seq(Counts) /\ counted \in [Calls -> Seq(Counts)]
  BY EarnNow DEF EarnInv
<1>2. /\ counted' = [counted EXCEPT ![c] = Append(counted[c], db[c].value)]
      /\ planted' = planted
  BY DEF Recorded
<1>3. counted[c] = <<>>
  BY <1>1 DEF Consistent, Puts
<1>4. /\ db[c].key = KeyOf[c] /\ db[c].value \in Counts
      /\ db[c].value \in 0..(Number(c) + 1)
      /\ db[c].heard => order[c].nth = db[c].value
  BY <1>1 DEF Earned, Puts
<1>5. /\ Append(counted[c], db[c].value) = <<db[c].value>>
      /\ Append(counted[c], db[c].value) # <<>>
      /\ Append(counted[c], db[c].value) \in Seq(Counts)
  BY <1>1, <1>3, <1>4, Appended
<1>6. /\ counted'[c] = <<db[c].value>> /\ counted'[c] # <<>>
      /\ counted' \in [Calls -> Seq(Counts)]
      /\ \A d \in Calls \ {c} : counted'[d] = counted[d]
  BY <1>1, <1>2, <1>5
<1>7. Grows
  <2>1. ASSUME NEW m \in Merchants, NEW key \in Keys
        PROVE  planted[m][key] <= planted[m][key]
    <3>1. planted[m][key] \in Nat
      BY CountsAreNat DEF EarnInv
    <3> QED BY <3>1
  <2>2. planted \in [Merchants -> [Keys -> Counts]]
    BY DEF EarnInv
  <2>3. \A d \in Calls : counted[d] # <<>> => counted'[d] # <<>>
    BY <1>6
  <2> QED BY <1>2, <1>6, <2>1, <2>2, <2>3 DEF Grows
<1>8. Number(c) \in Nat /\ Number(c)' \in Nat
  BY <1>7, ClaimsGrow, CallsHaveRows DEF Number
<1>9. Number(c) + 1 <= Number(c)'
  BY <1>2, <1>3, <1>6, <1>7, OneMore
<1>10. db[c].value <= Number(c)' /\ CountIn(db[c].value) = db[c].value
  BY <1>4, <1>8, <1>9 DEF CountIn
<1> QED BY <1>4, <1>6, <1>7, <1>10

LEMMA CommitPlants ==
  ASSUME CountInv, EarnInv, NEW c \in Calls, db[c].at = "commit",
         order[c].hook # "loyalty", Recorded(c), NEW key \in Keys, key = db[c].key
  PROVE  /\ counted' = counted /\ Grows
         /\ CountIn(db[c].value) <= Claims(TenantOf[c], key)'
<1> DEFINE v == CountIn(db[c].value)
           t == TenantOf[c]
           old == planted[t][key]
           new == IF v > old THEN v ELSE old
           row == [planted[t] EXCEPT ![key] = new]
<1>1. t \in Merchants /\ planted \in [Merchants -> [Keys -> Counts]]
  BY CallsHaveRows DEF EarnInv
<1>2. v \in Counts /\ old \in Counts /\ new \in Counts
  BY <1>1, CountsAreNat
<1>3. v \in Nat /\ old \in Nat
  BY <1>2, CountsAreNat
<1>4. planted' = [planted EXCEPT ![t] = row] /\ counted' = counted
  BY DEF Recorded
<1> HIDE DEF v, t
<1>5. v <= new /\ old <= new
  BY <1>3
<1> HIDE DEF new
<1>6. /\ row \in [Keys -> Counts] /\ row[key] = new
      /\ \A k \in Keys \ {key} : row[k] = planted[t][k]
  BY <1>1, <1>2
<1> HIDE DEF row
<1>7. /\ planted' \in [Merchants -> [Keys -> Counts]] /\ planted'[t] = row
      /\ \A m \in Merchants \ {t} : planted'[m] = planted[m]
  BY <1>1, <1>4, <1>6
<1>8. ASSUME NEW m \in Merchants, NEW k \in Keys
      PROVE  planted[m][k] <= planted'[m][k]
  <2>1. CASE m = t /\ k = key
    BY <1>5, <1>6, <1>7, <2>1
  <2>2. CASE m # t \/ k # key
    <3>1. planted'[m][k] = planted[m][k] /\ planted[m][k] \in Counts
      BY <1>1, <1>6, <1>7, <2>2
    <3>2. planted[m][k] \in Nat
      BY <3>1, CountsAreNat
    <3> QED BY <3>1, <3>2
  <2> QED BY <2>1, <2>2
<1>9. Grows
  BY <1>4, <1>7, <1>8 DEF Grows, EarnInv
<1>10. new <= Claims(t, key)' /\ Claims(t, key)' \in Nat
  <2>1. planted'[t][key] <= Claims(t, key)' /\ Claims(t, key)' \in Nat
    BY <1>1, <1>9, ClaimsGrow
  <2> QED BY <1>6, <1>7, <2>1
<1>11. new \in Nat
  BY <1>2, CountsAreNat
<1>12. v <= Claims(t, key)'
  BY <1>3, <1>5, <1>10, <1>11
<1> QED BY <1>4, <1>9, <1>12 DEF v, t

LEMMA EmptyIsNoSingleton ==
  ASSUME NEW k, k = <<>>, NEW v
  PROVE  k # <<v>>
OBVIOUS

(* Where nobody listens, no discount hangs on the count.                   *)
LEMMA UnheardEarns ==
  ASSUME CountInv, EarnInv, NEW c \in Calls, db[c].at = "commit", ~db[c].heard,
         NEW k, NEW n
  PROVE  Earned(order[c], NoSession, KeyOf[c], k, n)
<1>1. /\ Earned(order[c], db[c], KeyOf[c], counted[c], Number(c))
      /\ Consistent(order[c].at, order[c].out, db[c], counted[c])
  BY EarnNow
<1>2. counted[c] = <<>> /\ order[c].at \notin {"got", "deciding"}
  BY <1>1 DEF Consistent, Puts
<1>3. counted[c] # <<order[c].nth>>
  BY <1>2, EmptyIsNoSingleton
<1>4. NoSession.at = "none" /\ "none" \notin Puts
  BY DEF NoSession, Puts
<1>5. ~(/\ order[c].at \in {"settled", "answered"} /\ order[c].hook = "loyalty"
        /\ order[c].out.discount > 0)
  BY <1>1, <1>3 DEF Earned
<1> QED BY <1>2, <1>4, <1>5 DEF Earned

LEMMA EarnPutAnswers ==
  ASSUME CountInv, CountInv', EarnInv, NEW c \in Calls, PutAnswers(c)
  PROVE  EarnInv'
<1>1. /\ db[c].at = "commit" /\ Stored(c) /\ db' = [db EXCEPT ![c] = NoSession]
      /\ Recorded(c)
  BY DEF PutAnswers, Commit, Close
<1>2. /\ order \in [Calls -> Orders] /\ db \in [Calls -> Sessions]
      /\ db'[c] = NoSession /\ \A d \in Calls \ {c} : db'[d] = db[d]
  BY <1>1 DEF CountInv, KvInv, KvTypeOK
<1>3. PICK key \in Keys : key = db[c].key
  BY <1>1, <1>2 DEF Sessions
<1>4. /\ Grows /\ CountIn(db[c].value) <= Claims(TenantOf[c], key)'
      /\ \A d \in Calls \ {c} : counted'[d] = counted[d]
  <2>1. CASE order[c].hook = "loyalty"
    BY <1>1, <1>3, <2>1, CommitCounts DEF Number
  <2>2. CASE order[c].hook # "loyalty"
    BY <1>1, <1>3, <2>2, CommitPlants
  <2> QED BY <2>1, <2>2
<1>5. NoSession.at = "none" /\ "none" \notin Puts
  BY DEF NoSession, Puts
<1>6. CASE db[c].heard
  <2>1. order' = [order EXCEPT ![c].at = Resumes(c, "deciding")]
    BY <1>6 DEF PutAnswers
  <2>2. /\ order'[c].at = IF order[c].hook = "loyalty" THEN "deciding" ELSE "started"
        /\ order'[c].nth = order[c].nth /\ order'[c].hook = order[c].hook
        /\ \A d \in Calls \ {c} : order'[d] = order[d]
    BY <1>2, <2>1 DEF Orders, Resumes
  <2>3. order[c].hook = "loyalty" =>
          counted'[c] = <<order[c].nth>> /\ order[c].nth <= Number(c)'
    BY <1>1, <1>6, CommitCounts
  <2>4. Earned(order'[c], db'[c], KeyOf[c], counted'[c], Number(c)')
    BY <1>2, <1>5, <2>2, <2>3 DEF Earned
  <2> QED BY <1>1, <1>2, <1>3, <1>4, <2>2, <2>4, EarnOneCall DEF OnlyMoves
<1>7. CASE ~db[c].heard
  <2>1. order' = order
    BY <1>7 DEF PutAnswers
  <2>2. Earned(order[c], NoSession, KeyOf[c], counted'[c], Number(c)')
    BY <1>1, <1>7, UnheardEarns
  <2> QED BY <1>1, <1>2, <1>3, <1>4, <2>1, <2>2, EarnOneCall DEF OnlyMoves
<1> QED BY <1>6, <1>7

LEMMA EarnKvBreaksAfterCommit ==
  ASSUME CountInv, CountInv', EarnInv, NEW c \in Calls, KvBreaksAfterCommit(c)
  PROVE  EarnInv'
<1>1. /\ db[c].at = "commit" /\ Stored(c) /\ db' = [db EXCEPT ![c] = NoSession]
      /\ Recorded(c) /\ HeardTrap(c)
  BY DEF KvBreaksAfterCommit, BreakCommit, Close
<1>2. /\ order \in [Calls -> Orders] /\ db \in [Calls -> Sessions]
      /\ db'[c] = NoSession /\ \A d \in Calls \ {c} : db'[d] = db[d]
  BY <1>1 DEF CountInv, KvInv, KvTypeOK
<1>3. PICK key \in Keys : key = db[c].key
  BY <1>1, <1>2 DEF Sessions
<1>4. /\ Grows /\ CountIn(db[c].value) <= Claims(TenantOf[c], key)'
      /\ \A d \in Calls \ {c} : counted'[d] = counted[d]
  <2>1. CASE order[c].hook = "loyalty"
    BY <1>1, <1>3, <2>1, CommitCounts DEF Number
  <2>2. CASE order[c].hook # "loyalty"
    BY <1>1, <1>3, <2>2, CommitPlants
  <2> QED BY <2>1, <2>2
<1>5. CASE db[c].heard
  <2>1. GuestEnds(c, Plain("GuestTrap")) /\ Plain("GuestTrap").discount = 0
    BY <1>1, <1>5, OutsDiscount DEF HeardTrap
  <2>2. /\ \A d \in Calls \ {c} : order'[d] = order[d]
        /\ order'[c].at = "settled" /\ order'[c].out.discount = 0
    BY <2>1, GuestEndsOrder
  <2>3. NoSession.at = "none" /\ "none" \notin Puts
    BY DEF NoSession, Puts
  <2>4. Earned(order'[c], NoSession, KeyOf[c], counted'[c], Number(c)')
    BY <2>2, <2>3 DEF Earned
  <2> QED BY <1>1, <1>2, <1>3, <1>4, <2>2, <2>4, EarnOneCall DEF OnlyMoves
<1>6. CASE ~db[c].heard
  <2>1. order' = order
    BY <1>1, <1>6 DEF HeardTrap
  <2>2. Earned(order[c], NoSession, KeyOf[c], counted'[c], Number(c)')
    BY <1>1, <1>6, UnheardEarns
  <2> QED BY <1>1, <1>2, <1>3, <1>4, <2>1, <2>2, EarnOneCall DEF OnlyMoves
<1> QED BY <1>5, <1>6

(* A session that ends or is cut off, and a guest that traps with it.      *)
LEMMA EarnFailures ==
  ASSUME CountInv, CountInv', EarnInv, NEW c \in Calls,
         PutExceeds(c) \/ KvBreaks(c) \/ CutOff(c) \/ Leave(c)
  PROVE  EarnInv'
<1>1. /\ UNCHANGED <<rows, counted, planted>> /\ order \in [Calls -> Orders]
      /\ db \in [Calls -> Sessions] /\ db[c] \in Sessions
  BY EarnNow DEF PutExceeds, SumExceeds, KvBreaks, Break, CutOff, Drop, Leave, kvVars,
                 CountInv, KvInv, KvTypeOK, history
<1>2. /\ \A d \in Calls \ {c} : db'[d] = db[d]
      /\ \/ db'[c].at = "none"
         \/ /\ db[c].at # "none" /\ db'[c].key = db[c].key
            /\ db'[c].at \in Puts =>
                 db[c].at \in Puts /\ db'[c].value = db[c].value /\ ~db'[c].heard
  <2>1. CASE PutExceeds(c)
    <3>1. /\ db' = [db EXCEPT ![c] = [db[c] EXCEPT !.at = "rollback", !.heard = FALSE]]
          /\ db[c].at = "sum"
      BY <2>1 DEF PutExceeds, SumExceeds
    <3> QED BY <1>1, <3>1 DEF Sessions, Puts
  <2>2. CASE KvBreaks(c)
    <3>1. db' = [db EXCEPT ![c] = NoSession] /\ NoSession.at = "none"
      BY <2>2 DEF KvBreaks, Break, Close, NoSession
    <3> QED BY <1>1, <3>1
  <2>3. CASE Drop(c)
    <3>1. CASE db[c].at \in {"none"} \cup Waiting
      <4>1. db' = [db EXCEPT ![c] = NoSession] /\ NoSession.at = "none"
        BY <2>3, <3>1 DEF Drop, NoSession
      <4> QED BY <1>1, <4>1
    <3>2. CASE db[c].at \in {"sum", "write"}
      <4>1. db' = [db EXCEPT ![c] = [db[c] EXCEPT !.at = "rollback", !.heard = FALSE]]
        BY <2>3, <3>2 DEF Drop, Waiting
      <4> QED BY <1>1, <3>2, <4>1 DEF Sessions, Puts
    <3>3. CASE db[c].at \notin {"none", "sum", "write"} \cup Waiting
      <4>1. db' = [db EXCEPT ![c] = [db[c] EXCEPT !.heard = FALSE]]
        BY <2>3, <3>3 DEF Drop
      <4> QED BY <1>1, <3>3, <4>1 DEF Sessions
    <3> QED BY <3>1, <3>2, <3>3
  <2>4. CASE order[c].at \in {"priced", "invoking"} /\ UNCHANGED db
    BY <2>4, Now DEF Consistent
  <2> QED BY <2>1, <2>2, <2>3, <2>4 DEF CutOff, Leave, kvVars
<1>3. /\ \A d \in Calls \ {c} : order'[d] = order[d]
      /\ order'[c].nth = order[c].nth /\ order'[c].hook = order[c].hook
      /\ \/ order'[c] = order[c]
         \/ /\ order'[c].at \notin {"got", "deciding"}
            /\ order'[c].at \in {"settled", "answered"} => order'[c].out.discount = 0
  <2>1. CASE GuestEnds(c, Plain("GuestTrap"))
    <3> DEFINE out == Plain("GuestTrap")
    <3>1. out.discount = 0
      BY OutsDiscount
    <3> HIDE DEF out
    <3>2. /\ \A d \in Calls \ {c} : order'[d] = order[d]
          /\ order'[c].nth = order[c].nth /\ order'[c].hook = order[c].hook
          /\ order'[c].at = "settled" /\ order'[c].out = out
      BY <2>1, GuestEndsOrder DEF out
    <3> QED BY <3>1, <3>2
  <2>2. CASE (PutExceeds(c) \/ KvBreaks(c) \/ CutOff(c)) /\ order' # order
    BY <2>1, <2>2 DEF PutExceeds, KvBreaks, CutOff, HeardTrap
  <2>3. CASE Leave(c)
    <3>1. order' = [order EXCEPT ![c].at = "left"]
      BY <2>3 DEF Leave, Goes
    <3> QED BY <1>1, <3>1 DEF Orders
  <2>4. CASE order' = order
    BY <2>4
  <2> QED BY <2>2, <2>3, <2>4
<1>4. OnlyMoves(c)
  BY <1>1, <1>2, <1>3 DEF OnlyMoves
<1> QED BY <1>1, <1>2, <1>3, <1>4, EarnPlainly

LEMMA EarnServerSteps ==
  ASSUME CountInv, CountInv', EarnInv, NEW c \in Calls, Server(c)
  PROVE  EarnInv'
<1>1. /\ UNCHANGED <<rows, counted, planted, order>> /\ db \in [Calls -> Sessions]
  BY DEF Server, Acquire, Lock, SumFits, Upsert, Rollback, CountInv, KvInv, KvTypeOK,
         history
<1>2. /\ \A d \in Calls \ {c} : db'[d] = db[d]
      /\ \/ db'[c].at = "none"
         \/ /\ db[c].at # "none" /\ db'[c].key = db[c].key
            /\ db'[c].at \in Puts =>
                 /\ db[c].at \in Puts /\ db'[c].value = db[c].value
                 /\ db'[c].heard => db[c].heard
  <2>1. CASE Rollback(c)
    <3>1. db' = [db EXCEPT ![c] = NoSession] /\ NoSession.at = "none"
      BY <2>1 DEF Rollback, Close, NoSession
    <3> QED BY <1>1, <3>1
  <2>2. CASE Acquire(c)
    <3>1. /\ db' = [db EXCEPT ![c].at = IF db[c].at = "acquireGet" THEN "get" ELSE "lock"]
          /\ db[c].at \in Waiting
      BY <2>2 DEF Acquire, To
    <3>2. CASE db[c].at = "acquireGet"
      BY <1>1, <3>1, <3>2 DEF Sessions, Puts
    <3>3. CASE db[c].at = "acquirePut"
      BY <1>1, <3>1, <3>3 DEF Sessions, Puts
    <3> QED BY <3>1, <3>2, <3>3 DEF Waiting
  <2>3. CASE Lock(c) \/ SumFits(c) \/ Upsert(c)
    <3>1. PICK stage : db' = [db EXCEPT ![c].at = stage] /\ db[c].at \in Puts
      BY <2>3 DEF Lock, SumFits, Upsert, To, Puts
    <3> QED BY <1>1, <3>1 DEF Sessions, Puts
  <2> QED BY <2>1, <2>2, <2>3 DEF Server
<1>3. OnlyMoves(c)
  BY <1>1, <1>2 DEF OnlyMoves
<1> QED BY <1>1, <1>2, <1>3, EarnPlainly

LEMMA EarnInvStarts ==
  ASSUME Init
  PROVE  EarnInv
<1>1. \A m, key : Cardinality(CountedFor(m, key)) = 0
  <2>1. \A m, key : CountedFor(m, key) = {}
    BY DEF Init, CountedFor
  <2> QED BY <2>1, FS_EmptySet
<1>2. RowsCounted
  <2> SUFFICES ASSUME NEW m \in Merchants, NEW key \in Keys
               PROVE  CountIn(rows[m][key]) <= Claims(m, key)
    BY DEF RowsCounted
  <2>1. rows[m][key] = None /\ planted[m][key] = 0
    BY DEF Init, KvInit, Merchants
  <2>2. CountIn(None) = 0
    BY PgKvAssumption, StorefrontAssumption DEF CountIn
  <2>3. Claims(m, key) = 0
    BY <1>1, <2>1 DEF Claims
  <2> QED BY <2>1, <2>2, <2>3
<1>3. counted \in [Calls -> Seq(Counts)] /\ planted \in [Merchants -> [Keys -> Counts]]
  BY CountsAreNat DEF Init
<1>4. ASSUME NEW c \in Calls
      PROVE  Earned(order[c], db[c], KeyOf[c], counted[c], Number(c))
  <2>1. order[c] = NewOrder /\ db[c] = NoSession
    BY DEF Init, KvInit
  <2>2. NewOrder.at = "browsing" /\ NoSession.at = "none"
    BY DEF NewOrder, NoSession
  <2> QED BY <2>1, <2>2 DEF Earned, Puts
<1> QED BY <1>2, <1>3, <1>4 DEF EarnInv

LEMMA NextKeepsEarnInv ==
  ASSUME CountInv, CountInv', EarnInv, [Next]_vars
  PROVE  EarnInv'
<1>1. ASSUME NEW c \in Calls,
             \/ \E cart \in Carts : Place(c, cart)
             \/ Reads(c) \/ Enters(c) \/ AnswerShopper(c) \/ Retry(c)
      PROVE  EarnInv'
  BY <1>1, EarnHandlerSteps, EarnAnswers DEF Enters
<1>2. ASSUME NEW c \in Calls,
             \/ FraudRejects(c) \/ Decide(c) \/ RogueDecides(c)
             \/ FraudPasses(c) \/ GetAnswers(c) \/ CountOrder(c) \/ PutAnswers(c)
             \/ RogueCalls(c)
      PROVE  EarnInv'
  BY <1>2, EarnGuestDecides, EarnGuestAsks, EarnPutAnswers
<1>3. ASSUME NEW c \in Calls,
             \/ PutExceeds(c) \/ KvBreaks(c) \/ KvBreaksAfterCommit(c)
             \/ CutOff(c) \/ Leave(c) \/ Server(c)
      PROVE  EarnInv'
  BY <1>3, EarnFailures, EarnKvBreaksAfterCommit, EarnServerSteps
<1>4. ASSUME UNCHANGED <<rows, order, db, counted, planted>>
      PROVE  EarnInv'
  BY <1>4 DEF EarnInv, RowsCounted, Number, Claims, CountedFor
<1>5. ASSUME NEW m \in Merchants,
             CreateMerchant(m) \/ \E hook \in Hooks : UploadHook(m, hook)
      PROVE  EarnInv'
  BY <1>4, <1>5 DEF CreateMerchant, UploadHook, kvVars, history
<1>6. CASE UNCHANGED vars
  BY <1>4, <1>6 DEF vars
<1> QED BY <1>1, <1>2, <1>3, <1>5, <1>6 DEF Next

-----------------------------------------------------------------------------
(* Prices.  What the cart costs goes through every stage of an order       *)
(* unchanged, and an answer is that less its discount.                     *)

PaidInv == \A c \in Calls : Paid(order[c])

LEMMA MaxCentsIsNat == MaxCents \in Nat /\ 0 \in 0..MaxCents
<1>1. MaxCents \in Nat
  BY StorefrontAssumption
<1> QED BY <1>1

LEMMA Amounts ==
  ASSUME PricesRight(Carts)
  PROVE  /\ MaxCents \in Nat
         /\ Prices \subseteq 0..MaxCents
         /\ Discounts \subseteq 0..(MaxCents + 1)
<1>1. MaxCents \in Nat /\ LoyaltyPercent \in 0..100
  BY StorefrontAssumption
<1>2. ASSUME NEW s \in Prices PROVE s \in 0..MaxCents
  <2>1. CASE s = 0
    BY <1>1, <2>1
  <2>2. CASE \E cart \in Carts : s = Subtotal(cart) /\ Subtotal(cart) # TooLarge
    BY <2>2 DEF PricesRight
  <2> QED BY <2>1, <2>2 DEF Prices, Payable
<1>3. ASSUME NEW s \in 0..MaxCents, NEW n \in Nat
      PROVE  Discount(s, n) \in 0..MaxCents
  <2> DEFINE x == s * LoyaltyPercent
  <2>1. s \in Nat /\ s <= MaxCents
    BY <1>1
  <2>2. x \in Nat /\ x <= s * 100
    <3>1. \A p \in 0..100 : s * p \in Nat /\ s * p <= s * 100
      BY <2>1
    <3> QED BY <1>1, <3>1
  <2>3. Discount(s, n) \in {x \div 100, 0}
    BY DEF Discount
  <2> HIDE DEF x
  <2>4. x \div 100 \in 0..MaxCents
    BY <1>1, <2>1, <2>2
  <2> QED BY <1>1, <2>3, <2>4
<1>4. ASSUME NEW d \in Discounts PROVE d \in 0..(MaxCents + 1)
  <2>1. CASE d \in Prices \/ d = 0
    BY <1>1, <1>2, <2>1
  <2>2. CASE \E s \in Prices : d = s + 1
    BY <1>1, <1>2, <2>2
  <2>3. CASE \E s \in Prices, n \in Nat : d = Discount(s, n)
    <3>1. PICK s \in Prices, n \in Nat : d = Discount(s, n)
      BY <2>3
    <3>2. d \in 0..MaxCents
      BY <1>2, <1>3, <3>1
    <3> QED BY <1>1, <3>2
  <2> QED BY <2>1, <2>2, <2>3 DEF Discounts
<1> QED BY <1>1, <1>2, <1>4

(* What the shopper may be told of an order that costs s.                  *)
Fair(out, s) ==
  /\ out.is \in Answers \cup Errors \cup {"nothing", "Ok"}
  /\ out.is # "bad order"
  /\ out.total \in 0..MaxCents
  /\ out.approved => out.total + out.discount = s

LEMMA PlainIsFair ==
  ASSUME NEW is \in (Answers \ {"bad order"}) \cup Errors, NEW s
  PROVE  Fair(Plain(is), s) /\ Plain(is).total = 0 /\ Plain(is).is = is
<1>1. 0 \in 0..MaxCents
  BY MaxCentsIsNat, Zenon
<1>2. Plain(is).is = is /\ Plain(is).total = 0 /\ Plain(is).approved = FALSE
  BY DEF Plain, Nothing
<1>3. is # "bad order"
  BY DEF Errors
<1> QED BY <1>1, <1>2, <1>3, Zenon DEF Fair

LEMMA ResolveIsFair ==
  ASSUME PricesRight(Carts), NEW out \in Outs, NEW s \in Prices
  PROVE  Fair(Resolve(out, s), s)
<1>1. /\ MaxCents \in Nat /\ s \in 0..MaxCents /\ out.discount \in 0..(MaxCents + 1)
  BY Amounts DEF Outs
<1> USE DEF Fair, Answers
<1>2. CASE out.is = "Ok" /\ out.discount <= s
  <2> DEFINE r == [out EXCEPT !.is = "hook", !.total = s - out.discount]
  <2>1. Resolve(out, s) = r
    BY <1>2 DEF Resolve
  <2>2. r.is = "hook" /\ r.total = s - out.discount /\ r.discount = out.discount
    BY DEF Outs
  <2> HIDE DEF r
  <2> QED BY <1>1, <1>2, <2>1, <2>2
<1>3. CASE ~(out.is = "Ok" /\ out.discount <= s)
  <2>1. \/ Resolve(out, s) \in {Approved("none", s), Approved("failed", s)}
        \/ Resolve(out, s) = Plain("retry")
    BY <1>3 DEF Resolve
  <2>2. ASSUME NEW is \in {"none", "failed"} PROVE Fair(Approved(is, s), s)
    <3> DEFINE a == Approved(is, s)
    <3>1. a.is = is /\ a.total = s /\ a.discount = 0
      BY DEF Approved
    <3>2. is \in Answers /\ is # "bad order" /\ s + 0 = s
      <4>1. s + 0 = s
        BY <1>1
      <4>2. is \in Answers /\ is # "bad order"
        OBVIOUS
      <4> QED BY <4>1, <4>2
    <3> HIDE DEF a
    <3>3. a.total + a.discount = s
      BY <3>1, <3>2, Zenon
    <3>4. Fair(a, s)
      BY <1>1, <3>1, <3>2, <3>3, Zenon
    <3> QED BY <3>4 DEF a
  <2>3. Fair(Plain("retry"), s)
    BY PlainIsFair
  <2> QED BY <2>1, <2>2, <2>3
<1> QED BY <1>2, <1>3

LEMMA PaidOneCall ==
  ASSUME CountInv, PaidInv, NEW c \in Calls,
         NEW o, order' = [order EXCEPT ![c] = o], Paid(o)
  PROVE  PaidInv'
BY DEF PaidInv, CountInv

(* An order that is on its way.                                            *)
UnderWay == {"priced", "invoking", "settled"} \cup InGuest

LEMMA PaidNow ==
  ASSUME CountInv, PaidInv, NEW c \in Calls
  PROVE  /\ order[c] \in Orders /\ Paid(order[c])
         /\ order[c].at \in UnderWay =>
              /\ order[c].cart \in Carts /\ Subtotal(order[c].cart) # TooLarge
              /\ order[c].subtotal = Subtotal(order[c].cart)
              /\ order[c].out.is # "bad order"
BY Now DEF PaidInv, Paid, UnderWay, InGuest

(* It goes on, with its cart, and whatever was said of it.                 *)
LEMMA PaidGoesOn ==
  ASSUME CountInv, PaidInv, NEW c \in Calls, order[c].at \in UnderWay,
         NEW o, order' = [order EXCEPT ![c] = o],
         o.at \in UnderWay \cup {"left"},
         o.cart = order[c].cart, o.subtotal = order[c].subtotal, o.out = order[c].out
  PROVE  PaidInv'
<1>1. Paid(o)
  BY PaidNow DEF Paid, UnderWay, InGuest
<1> QED BY <1>1, PaidOneCall

(* It gets a result or an answer.                                          *)
LEMMA PaidIsSettled ==
  ASSUME CountInv, PaidInv, NEW c \in Calls, order[c].at \in UnderWay,
         NEW stage \in {"settled", "answered"}, NEW out,
         order' = [order EXCEPT ![c].at = stage, ![c].out = out],
         \/ Fair(out, order[c].subtotal)
         \/ /\ stage = "settled" /\ out.is \in Errors \cup {"Ok"} /\ out.total = 0
  PROVE  PaidInv'
<1> DEFINE o == [order[c] EXCEPT !.at = stage, !.out = out]
<1>1. /\ o.at = stage /\ o.out = out
      /\ o.cart = order[c].cart /\ o.subtotal = order[c].subtotal
  BY PaidNow DEF Orders
<1>2. order' = [order EXCEPT ![c] = o]
  OBVIOUS
<1> HIDE DEF o
<1>3. /\ order[c].cart \in Carts /\ Subtotal(order[c].cart) # TooLarge
      /\ order[c].subtotal = Subtotal(order[c].cart)
  BY PaidNow
<1>4. CASE Fair(out, order[c].subtotal)
  <2>1. Paid(o)
    BY <1>1, <1>3, <1>4, Zenon DEF Paid, Fair
  <2> QED BY <1>2, <2>1, PaidOneCall
<1>5. CASE stage = "settled" /\ out.is \in Errors \cup {"Ok"} /\ out.total = 0
  <2>1. out.total \in 0..MaxCents
    BY <1>5, MaxCentsIsNat, Zenon
  <2>2. out.is # "bad order" /\ stage # "answered"
    BY <1>5 DEF Errors
  <2>3. Paid(o)
    BY <1>1, <1>3, <1>5, <2>1, <2>2, Zenon DEF Paid
  <2> QED BY <1>2, <2>3, PaidOneCall
<1> QED BY <1>4, <1>5

LEMMA PaidHandlerSteps ==
  ASSUME PricesRight(Carts), CountInv, PaidInv, NEW c \in Calls,
         \/ \E cart \in Carts : Place(c, cart)
         \/ Reads(c) \/ Enters(c) \/ AnswerShopper(c) \/ Retry(c)
  PROVE  PaidInv'
<1>1. order[c] \in Orders /\ order[c].subtotal \in Prices /\ order[c].out \in Outs
  BY PaidNow DEF Orders
<1>2. ASSUME NEW cart \in Carts, Place(c, cart) PROVE PaidInv'
  <2>0. order[c].out.is \in Answers \cup Errors \cup {"nothing", "Ok"}
          /\ order[c].out.total \in 0..MaxCents /\ order[c].out.is # "bad order"
    BY <1>2, PaidNow DEF Paid, Place
  <2>1. CASE Subtotal(cart) = TooLarge
    <3> DEFINE out == Plain("bad order")
               o == [order[c] EXCEPT !.at = "answered", !.cart = cart, !.out = out]
    <3>1. /\ out.is = "bad order" /\ out.total = 0 /\ out.approved = FALSE
          /\ MaxCents \in Nat
      BY MaxCentsIsNat DEF Plain, Nothing
    <3>2. order' = [order EXCEPT ![c] = o]
      BY <1>2, <2>1 DEF Place
    <3> HIDE DEF out
    <3>3. o.at = "answered" /\ o.out = out
      BY <1>1 DEF Orders
    <3>4. Paid(o)
      <4>1. out.total \in 0..MaxCents /\ out.is \in Answers
        BY <3>1, MaxCentsIsNat, Zenon DEF Answers
      <4> HIDE DEF o
      <4> QED BY <3>1, <3>3, <4>1 DEF Paid
    <3> QED BY <3>2, <3>4, PaidOneCall
  <2>2. CASE Subtotal(cart) # TooLarge
    <3> DEFINE o == [order[c] EXCEPT !.at = "priced", !.cart = cart,
                                     !.subtotal = Subtotal(cart)]
    <3>1. order' = [order EXCEPT ![c] = o]
      BY <1>2, <2>2 DEF Place
    <3>2. /\ o.at = "priced" /\ o.cart = cart /\ o.subtotal = Subtotal(cart)
          /\ o.out = order[c].out
      BY <1>1 DEF Orders
    <3>3. Paid(o)
      BY <2>0, <2>2, <3>2 DEF Paid
    <3> QED BY <3>1, <3>3, PaidOneCall
  <2> QED BY <2>1, <2>2
<1>3. CASE ReadLimits(c) \/ RunGuest(c)
  <2>1. \/ order' = [order EXCEPT ![c] = [order[c] EXCEPT !.at = "invoking"]]
        \/ order' = [order EXCEPT ![c] =
             [order[c] EXCEPT !.at = "started", !.hook = shop[TenantOf[c]]]]
    BY <1>3 DEF ReadLimits, RunGuest, Goes
  <2>2. order[c].at \in UnderWay
    BY <1>3 DEF ReadLimits, RunGuest, UnderWay
  <2> QED BY <1>1, <2>1, <2>2, PaidGoesOn DEF Orders, UnderWay, InGuest
<1>4. ASSUME NEW out, Says(c, out), Fair(out, order[c].subtotal), order[c].at \in UnderWay
      PROVE  PaidInv'
  BY <1>4, PaidIsSettled DEF Says
<1>5. CASE UnknownMerchant(c)
  BY <1>4, <1>5, PlainIsFair DEF UnknownMerchant, Answers, UnderWay
<1>6. CASE LimitsFail(c)
  <2>1. order[c].subtotal \in 0..MaxCents /\ MaxCents \in Nat
    BY <1>1, Amounts
  <2>2. Fair(Approved("failed", order[c].subtotal), order[c].subtotal)
    BY <2>1 DEF Fair, Approved, Answers
  <2> QED BY <1>4, <1>6, <2>2 DEF LimitsFail, UnderWay
<1>7. CASE Busy(c)
  <2>1. Plain("TenantBusy") \in Outs
    BY OutsAreOuts DEF Kinds
  <2> QED BY <1>1, <1>4, <1>7, <2>1, ResolveIsFair DEF Busy, UnderWay
<1>8. CASE AnswerShopper(c)
  BY <1>1, <1>4, <1>8, ResolveIsFair DEF AnswerShopper, UnderWay
<1>9. CASE Refused(c)
  <2>1. PICK error \in Errors :
          order' = [order EXCEPT ![c].at = "settled", ![c].out = Plain(error)]
    BY <1>9 DEF Refused, Errors
  <2>2. Fair(Plain(error), order[c].subtotal) /\ order[c].at \in UnderWay
    BY <1>9, PlainIsFair DEF Refused, UnderWay
  <2> QED BY <2>1, <2>2, PaidIsSettled
<1>10. CASE Retry(c)
  <2> DEFINE o == [order[c] EXCEPT !.at = "priced", !.tries = order[c].tries + 1,
                                   !.out = Nothing, !.hook = "none", !.nth = 0]
  <2>1. order' = [order EXCEPT ![c] = o]
    BY <1>10 DEF Retry
  <2>2. /\ o.at = "priced" /\ o.out = Nothing
        /\ o.cart = order[c].cart /\ o.subtotal = order[c].subtotal
    BY <1>1 DEF Orders
  <2>3. Nothing.is = "nothing" /\ Nothing.total \in 0..MaxCents
    BY MaxCentsIsNat DEF Nothing
  <2>4. order[c].at = "answered" /\ order[c].out.is = "retry"
    BY <1>10 DEF Retry
  <2> HIDE DEF o
  <2>5. Paid(o)
    BY <2>2, <2>3, <2>4, PaidNow DEF Paid
  <2> QED BY <2>1, <2>5, PaidOneCall
<1> QED BY <1>2, <1>3, <1>5, <1>6, <1>7, <1>8, <1>9, <1>10 DEF Reads, Enters

LEMMA PaidGuestSteps ==
  ASSUME CountInv, PaidInv, NEW c \in Calls,
         \/ FraudRejects(c) \/ Decide(c) \/ RogueDecides(c)
         \/ FraudPasses(c) \/ GetAnswers(c) \/ CountOrder(c) \/ PutAnswers(c)
         \/ RogueCalls(c)
         \/ PutExceeds(c) \/ KvBreaks(c) \/ KvBreaksAfterCommit(c)
         \/ CutOff(c) \/ Leave(c) \/ Server(c)
  PROVE  PaidInv'
<1>1. order[c] \in Orders /\ Consistent(order[c].at, order[c].out, db[c], counted[c])
  BY Now
<1>2. ASSUME NEW out, GuestEnds(c, out), out.is \in Errors \cup {"Ok"}, out.total = 0
      PROVE  PaidInv'
  BY <1>2, PaidIsSettled DEF GuestEnds, UnderWay
<1>3. /\ \A b, d : Decision(b, d).is = "Ok" /\ Decision(b, d).total = 0
      /\ Plain("GuestTrap").is = "GuestTrap" /\ Plain("GuestTrap").total = 0
  BY DEF Decision, Plain, Nothing
<1>4. CASE order' = order
  BY <1>4 DEF PaidInv
<1>5. CASE FraudRejects(c) \/ Decide(c) \/ RogueDecides(c)
  <2>1. \E b, d : GuestEnds(c, Decision(b, d))
    BY <1>5 DEF FraudRejects, Decide, RogueDecides
  <2> QED BY <1>2, <1>3, <2>1
<1>6. CASE PutExceeds(c) \/ KvBreaks(c) \/ KvBreaksAfterCommit(c) \/ CutOff(c)
  <2>1. order' = order \/ GuestEnds(c, Plain("GuestTrap"))
    BY <1>6 DEF PutExceeds, KvBreaks, KvBreaksAfterCommit, CutOff, HeardTrap
  <2>2. "GuestTrap" \in Errors
    BY DEF Errors
  <2> QED BY <1>2, <1>3, <1>4, <2>1, <2>2
<1>7. CASE \/ FraudPasses(c) \/ CountOrder(c) \/ RogueCalls(c)
           \/ PutAnswers(c) /\ db[c].heard
  <2>1. PICK at \in InGuest : order' = [order EXCEPT ![c] = [order[c] EXCEPT !.at = at]]
    BY <1>7 DEF FraudPasses, CountOrder, RogueCalls, PutAnswers, Resumes, Goes, InGuest
  <2>2. order[c].at \in UnderWay
    BY <1>1, <1>7 DEF FraudPasses, CountOrder, RogueCalls, PutAnswers, Consistent,
                      UnderWay, InGuest
  <2> QED BY <1>1, <2>1, <2>2, PaidGoesOn DEF Orders, UnderWay
<1>8. CASE GetAnswers(c) /\ db[c].heard
  <2>1. PICK at \in {"started", "got"}, n \in Counts :
          order' = [order EXCEPT ![c] = [order[c] EXCEPT !.at = at, !.nth = n]]
    <3>1. /\ order[c].nth \in Counts /\ Successor(CountIn(Row(c))) \in Counts
          /\ Resumes(c, "got") \in {"started", "got"}
      BY <1>1, CountsAreNat DEF Orders, Resumes
    <3> QED BY <1>8, <3>1 DEF GetAnswers
  <2>2. order[c].at \in UnderWay
    BY <1>1, <1>8 DEF Consistent, UnderWay, InGuest
  <2> QED BY <1>1, <2>1, <2>2, PaidGoesOn DEF Orders, UnderWay, InGuest
<1>9. CASE Leave(c)
  <2>1. order' = [order EXCEPT ![c] = [order[c] EXCEPT !.at = "left"]]
    BY <1>9 DEF Leave, Goes
  <2>2. order[c].at \in UnderWay
    BY <1>9 DEF Leave, UnderWay
  <2> QED BY <1>1, <2>1, <2>2, PaidGoesOn DEF Orders
<1>10. CASE (GetAnswers(c) \/ PutAnswers(c)) /\ ~db[c].heard
  BY <1>4, <1>10 DEF GetAnswers, PutAnswers
<1>11. CASE Server(c)
  BY <1>4, <1>11 DEF Server
<1> QED BY <1>5, <1>6, <1>7, <1>8, <1>9, <1>10, <1>11

LEMMA PaidInvStarts ==
  ASSUME Init
  PROVE  PaidInv
<1>1. NewOrder.at = "browsing" /\ NewOrder.out = Nothing
  BY DEF NewOrder
<1>2. Nothing.is = "nothing" /\ Nothing.total = 0
  BY DEF Nothing
<1>3. Nothing.total \in 0..MaxCents
  BY <1>2, MaxCentsIsNat, Zenon
<1>4. Paid(NewOrder)
  BY <1>1, <1>2, <1>3 DEF Paid
<1> QED BY <1>4 DEF PaidInv, Init

LEMMA NextKeepsPaidInv ==
  ASSUME PricesRight(Carts), CountInv, PaidInv, [Next]_vars
  PROVE  PaidInv'
<1>1. ASSUME NEW c \in Calls,
             \/ \E cart \in Carts : Place(c, cart)
             \/ Reads(c) \/ Enters(c) \/ AnswerShopper(c) \/ Retry(c)
      PROVE  PaidInv'
  BY <1>1, PaidHandlerSteps
<1>2. ASSUME NEW c \in Calls,
             \/ FraudRejects(c) \/ Decide(c) \/ RogueDecides(c)
             \/ FraudPasses(c) \/ GetAnswers(c) \/ CountOrder(c) \/ PutAnswers(c)
             \/ RogueCalls(c)
             \/ PutExceeds(c) \/ KvBreaks(c) \/ KvBreaksAfterCommit(c)
             \/ CutOff(c) \/ Leave(c) \/ Server(c)
      PROVE  PaidInv'
  BY <1>2, PaidGuestSteps
<1>3. CASE UNCHANGED order
  BY <1>3 DEF PaidInv
<1>4. ASSUME NEW m \in Merchants,
             CreateMerchant(m) \/ \E hook \in Hooks : UploadHook(m, hook)
      PROVE  PaidInv'
  BY <1>3, <1>4 DEF CreateMerchant, UploadHook
<1>5. CASE UNCHANGED vars
  BY <1>3, <1>5 DEF vars
<1> QED BY <1>1, <1>2, <1>4, <1>5 DEF Next

(* The runtime's side, and the merchants'.                                 *)
RestInv ==
  /\ phase \in [Calls -> {"idle", "pending", "running", "settled"}]
  /\ bill \in [Calls -> {<<>>} \cup {<<b>> : b \in BOOLEAN}]
  /\ shop \in [Merchants -> {"unknown", "none"} \cup Hooks]
  /\ BilledWhenSettled

LEMMA OneVerdict ==
  ASSUME NEW k, k = <<>>, NEW b \in BOOLEAN
  PROVE  Append(k, b) \in {<<x>> : x \in BOOLEAN}
<1>1. Append(k, b) = <<b>>
  OBVIOUS
<1> QED BY <1>1

LEMMA ContractSteps ==
  ASSUME RestInv, NEW c \in Calls,
         \/ Runtime!Call(c) \/ Runtime!Reject(c) \/ Runtime!Refuse(c)
         \/ Runtime!Run(c) \/ Runtime!Stop(c) \/ Runtime!Return(c),
         UNCHANGED shop
  PROVE  RestInv'
<1> USE DEF RestInv, BilledWhenSettled
<1>1. CASE Runtime!Call(c) \/ Runtime!Reject(c) \/ Runtime!Refuse(c) \/ Runtime!Run(c)
  <2>1. PICK stage \in {"idle", "pending", "running", "settled"} :
          /\ phase' = [phase EXCEPT ![c] = stage]
          /\ phase[c] \in {"idle", "pending"}
    BY <1>1 DEF Runtime!Call, Runtime!Reject, Runtime!Refuse, Runtime!Run
  <2>2. bill' = bill
    BY <1>1 DEF Runtime!Call, Runtime!Reject, Runtime!Refuse, Runtime!Run
  <2> QED BY <2>1, <2>2
<1>2. CASE Runtime!Stop(c)
  <2>1. phase[c] = "running" /\ phase' = [phase EXCEPT ![c] = "settled"]
    BY <1>2 DEF Runtime!Stop
  <2>2. PICK b \in BOOLEAN : bill' = [bill EXCEPT ![c] = Append(bill[c], b)]
    BY <1>2 DEF Runtime!Stop
  <2>3. Append(bill[c], b) \in {<<x>> : x \in BOOLEAN}
    BY <2>1, OneVerdict
  <2> QED BY <2>1, <2>2, <2>3
<1>3. CASE Runtime!Return(c)
  BY <1>3 DEF Runtime!Return
<1> QED BY <1>1, <1>2, <1>3

LEMMA NextKeepsRestInv ==
  ASSUME RestInv, [Next]_vars
  PROVE  RestInv'
<1>1. ASSUME UNCHANGED <<contractVars, shop>> PROVE RestInv'
  BY <1>1 DEF RestInv, contractVars, BilledWhenSettled
<1>2. ASSUME NEW m \in Merchants,
             CreateMerchant(m) \/ \E hook \in Hooks : UploadHook(m, hook)
      PROVE  RestInv'
  <2>1. /\ UNCHANGED contractVars
        /\ \E hook \in Hooks \cup {"none"} : shop' = [shop EXCEPT ![m] = hook]
    BY <1>2 DEF CreateMerchant, UploadHook
  <2> QED BY <2>1 DEF RestInv, contractVars, BilledWhenSettled
<1>3. ASSUME NEW c \in Calls,
             \/ \E cart \in Carts : Place(c, cart)
             \/ Reads(c) \/ Enters(c) \/ AnswerShopper(c) \/ Retry(c)
      PROVE  RestInv'
  <2>1. \/ UNCHANGED <<contractVars, shop>>
        \/ /\ UNCHANGED shop
           /\ \/ Runtime!Call(c) \/ Runtime!Reject(c) \/ Runtime!Refuse(c)
              \/ Runtime!Run(c) \/ Runtime!Return(c)
    BY <1>3, Zenon DEF Place, Reads, ReadLimits, UnknownMerchant, LimitsFail, Enters, Busy,
                       Refused, RunGuest, AnswerShopper, Retry
  <2> QED BY <1>1, <2>1, ContractSteps
<1>4. ASSUME NEW c \in Calls,
             \/ FraudRejects(c) \/ Decide(c) \/ RogueDecides(c)
             \/ FraudPasses(c) \/ GetAnswers(c) \/ CountOrder(c) \/ PutAnswers(c)
             \/ RogueCalls(c)
             \/ PutExceeds(c) \/ KvBreaks(c) \/ KvBreaksAfterCommit(c)
             \/ CutOff(c) \/ Leave(c) \/ Server(c)
      PROVE  RestInv'
  <2>1. \/ UNCHANGED <<contractVars, shop>>
        \/ UNCHANGED shop /\ (Runtime!Stop(c) \/ Runtime!Refuse(c))
    BY <1>4, Zenon DEF FraudRejects, Decide, RogueDecides, FraudPasses, GetAnswers,
                       CountOrder, PutAnswers, RogueCalls, PutExceeds, KvBreaks,
                       KvBreaksAfterCommit, CutOff, Leave, Server, GuestEnds, HeardTrap
  <2> QED BY <1>1, <2>1, ContractSteps
<1>5. CASE UNCHANGED vars
  BY <1>1, <1>5 DEF vars, contractVars
<1> QED BY <1>2, <1>3, <1>4, <1>5 DEF Next

-----------------------------------------------------------------------------
(* Together.                                                               *)

CheckoutInv == CountInv /\ EarnInv /\ PaidInv /\ RestInv

LEMMA CheckoutInvIsInductive ==
  ASSUME PricesRight(Carts)
  PROVE  Spec => []CheckoutInv
<1>1. Init => CheckoutInv
  <2>1. Init => RestInv
    BY DEF Init, Runtime!ContractInit, RestInv, BilledWhenSettled
  <2> QED BY <2>1, CountInvStarts, EarnInvStarts, PaidInvStarts DEF CheckoutInv
<1>2. CheckoutInv /\ [Next]_vars => CheckoutInv'
  <2> SUFFICES ASSUME CheckoutInv, [Next]_vars PROVE CheckoutInv'
    OBVIOUS
  <2>1. CountInv /\ EarnInv /\ PaidInv /\ RestInv
    BY DEF CheckoutInv
  <2>2. CountInv'
    BY <2>1, NextKeepsCountInv
  <2>3. EarnInv'
    BY <2>1, <2>2, NextKeepsEarnInv
  <2>4. PaidInv' /\ RestInv'
    BY <2>1, NextKeepsPaidInv, NextKeepsRestInv
  <2> QED BY <2>2, <2>3, <2>4 DEF CheckoutInv
<1> QED BY <1>1, <1>2, PTL DEF Spec

(* Every variable keeps its type, whatever the hooks put and answer and    *)
(* the database does: counts stay within a u64, and no shopper is told a   *)
(* total below zero or above the limit (lib.rs:332), if the carts'         *)
(* subtotals are their prices.                                             *)
THEOREM CheckoutTypeCorrect ==
  ASSUME PricesRight(Carts)
  PROVE  Spec => []TypeOK
<1>1. CheckoutInv => TypeOK
  <2> SUFFICES ASSUME CheckoutInv PROVE TypeOK
    OBVIOUS
  <2>1. CountInv /\ EarnInv /\ PaidInv /\ RestInv
    BY DEF CheckoutInv
  <2>2. ASSUME NEW c \in Calls
        PROVE  order[c] \in [at : {"browsing", "priced", "invoking", "settled",
                                   "answered", "left"} \cup InGuest,
                             tries : Nat, subtotal : 0..MaxCents,
                             cart : Carts \cup {<<>>}, hook : {"none"} \cup Hooks,
                             nth : Counts,
                             out : [is : Answers \cup Errors \cup {"nothing", "Ok"},
                                    approved : BOOLEAN, total : 0..MaxCents,
                                    discount : 0..(MaxCents + 1)]]
    <3>1. order[c] \in Orders /\ Paid(order[c])
      BY <2>1, PaidNow
    <3>2. order[c].nth \in Counts
      BY <3>1 DEF Orders
    <3>3. order[c].subtotal \in 0..MaxCents /\ order[c].out.discount \in 0..(MaxCents + 1)
      BY <3>1, Amounts DEF Orders, Outs
    <3>4. /\ order[c].out.is \in Answers \cup Errors \cup {"nothing", "Ok"}
          /\ order[c].out.total \in 0..MaxCents
      BY <3>1 DEF Paid
    <3> QED BY <3>1, <3>2, <3>3, <3>4 DEF Orders, Outs, Stages
  <2>3. KvTypeOK
    BY <2>1 DEF CountInv, KvInv
  <2>4. /\ order \in [Calls -> Orders] /\ counted \in [Calls -> Seq(Counts)]
        /\ planted \in [Merchants -> [Keys -> Counts]]
    BY <2>1 DEF CountInv, EarnInv
  <2> QED BY <2>1, <2>2, <2>3, <2>4 DEF RestInv, TypeOK
<1>2. Spec => []CheckoutInv
  BY CheckoutInvIsInductive
<1> QED BY <1>1, <1>2, PTL

(* No count is in a row that no order of the customer paid for and no      *)
(* other program of the merchant put there, no order is charged other than *)
(* its price less its discount, and the loyalty hook gives none but for an *)
(* order it counted, as the LoyaltyFrom-th at least of these (checkout.rs, *)
(* hook/src/lib.rs): for any interleaving of shoppers, lost connections,   *)
(* cut-off guests and unheard COMMITs, if the carts' subtotals are their   *)
(* prices.                                                                 *)
THEOREM ChargesAreJustified ==
  ASSUME PricesRight(Carts)
  PROVE  Spec => []ChargeJustified
<1>1. CheckoutInv => ChargeJustified
  <2> SUFFICES ASSUME CheckoutInv PROVE ChargeJustified
    OBVIOUS
  <2>1. CountInv /\ EarnInv /\ PaidInv
    BY DEF CheckoutInv
  <2>2. RowsCounted
    BY <2>1 DEF EarnInv
  <2>3. ASSUME NEW c \in Calls, order[c].at = "answered", order[c].out.approved
        PROVE  /\ order[c].out.total + order[c].out.discount = Price(order[c].cart)
               /\ (order[c].hook = "loyalty" /\ order[c].out.discount > 0) =>
                    /\ counted[c] = <<order[c].nth>>
                    /\ order[c].nth \in LoyaltyFrom..Claims(TenantOf[c], KeyOf[c])
    <3>1. Paid(order[c]) /\ Earned(order[c], db[c], KeyOf[c], counted[c], Number(c))
      BY <2>1, EarnNow DEF PaidInv
    <3>2. /\ order[c].cart \in Carts /\ Subtotal(order[c].cart) # TooLarge
          /\ order[c].subtotal = Subtotal(order[c].cart)
          /\ order[c].out.total + order[c].out.discount = order[c].subtotal
      BY <2>3, <3>1 DEF Paid
    <3>3. Subtotal(order[c].cart) = Price(order[c].cart)
      BY <3>2 DEF PricesRight
    <3>4. (order[c].hook = "loyalty" /\ order[c].out.discount > 0) =>
            counted[c] = <<order[c].nth>> /\ order[c].nth \in LoyaltyFrom..Number(c)
      BY <2>3, <3>1 DEF Earned
    <3> QED BY <3>2, <3>3, <3>4 DEF Number
  <2> QED BY <2>2, <2>3 DEF ChargeJustified
<1>2. Spec => []CheckoutInv
  BY CheckoutInvIsInductive
<1> QED BY <1>1, <1>2, PTL
=============================================================================
