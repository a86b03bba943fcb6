-------------------------- MODULE InvocationProofs --------------------------
(***************************************************************************)
(* What Invocation's runs check on small instances, for every number of    *)
(* calls, stages and tenants, every weight and every limit.                *)
(***************************************************************************)
EXTENDS Invocation, FiniteSetTheorems, SequenceTheorems, TLAPS

-----------------------------------------------------------------------------
(* Queues that list a set.                                                 *)

(* RemoveAt closes the gap it leaves.                                      *)
LEMMA RemoveAtProperties ==
  ASSUME NEW S, NEW s \in Seq(S), NEW i \in 1..Len(s)
  PROVE  /\ RemoveAt(s, i) \in Seq(S)
         /\ Len(RemoveAt(s, i)) = Len(s) - 1
         /\ \A j \in 1..(Len(s) - 1) :
              RemoveAt(s, i)[j] = IF j < i THEN s[j] ELSE s[j + 1]
<1> DEFINE a == SubSeq(s, 1, i - 1)
           b == SubSeq(s, i + 1, Len(s))
<1>1. /\ a \in Seq(S) /\ Len(a) = i - 1
      /\ \A j \in 1..(i - 1) : a[j] = s[j]
  BY SMT
<1>2. /\ b \in Seq(S) /\ Len(b) = Len(s) - i
      /\ \A j \in 1..(Len(s) - i) : b[j] = s[i + j]
  BY SMT
<1>3. RemoveAt(s, i) = a \o b
  BY DEF RemoveAt
<1> HIDE DEF a, b
<1>4. /\ a \o b \in Seq(S)
      /\ Len(a \o b) = Len(a) + Len(b)
      /\ \A j \in 1..Len(a) + Len(b) :
           (a \o b)[j] = IF j <= Len(a) THEN a[j] ELSE b[j - Len(a)]
  BY <1>1, <1>2, ConcatProperties
<1>5. Len(a) + Len(b) = Len(s) - 1
  BY <1>1, <1>2
<1>6. ASSUME NEW j \in 1..(Len(s) - 1)
      PROVE  (a \o b)[j] = IF j < i THEN s[j] ELSE s[j + 1]
  <2>1. CASE j < i
    BY <1>1, <1>4, <1>5, <2>1
  <2>2. CASE ~(j < i)
    <3>1. j - Len(a) \in 1..(Len(s) - i) /\ i + (j - Len(a)) = j + 1
      BY <1>1, <2>2
    <3> QED BY <1>1, <1>2, <1>4, <1>5, <2>2, <3>1
  <2> QED BY <2>1, <2>2
<1> QED BY <1>3, <1>4, <1>5, <1>6

(* A fresh element joins at the end.                                       *)
LEMMA ListsAppend ==
  ASSUME NEW S, NEW s \in Seq(S), NEW T, Lists(s, T), NEW x \in S \ T
  PROVE  Append(s, x) \in Seq(S) /\ Lists(Append(s, x), T \cup {x})
<1>1. \A i \in 1..Len(s) : s[i] \in T
  BY DEF Lists, ToSet
<1>2. \A y \in T : \E i \in 1..Len(s) : s[i] = y
  BY DEF Lists, ToSet
<1>3. \A i, j \in 1..Len(s) : s[i] = s[j] => i = j
  BY DEF Lists, IsInjective
<1> DEFINE t == Append(s, x)
<1>4. /\ t \in Seq(S)
      /\ Len(t) = Len(s) + 1
      /\ \A i \in 1..Len(s) : t[i] = s[i]
      /\ t[Len(s) + 1] = x
  BY AppendProperties
<1> HIDE DEF t
<1>5. IsInjective(t)
  <2> SUFFICES ASSUME NEW i \in 1..Len(t), NEW j \in 1..Len(t), t[i] = t[j]
               PROVE  i = j
    BY <1>4 DEF IsInjective
  <2> QED BY <1>1, <1>3, <1>4
<1>6. ToSet(t) = T \cup {x}
  <2>1. \A i \in 1..Len(t) : t[i] \in T \cup {x}
    BY <1>1, <1>4
  <2>2. \A y \in T \cup {x} : \E i \in 1..Len(t) : t[i] = y
    BY <1>2, <1>4
  <2>3. DOMAIN t = 1..Len(t)
    BY <1>4
  <2> QED BY <2>1, <2>2, <2>3 DEF ToSet
<1> QED BY <1>4, <1>5, <1>6 DEF t, Lists

(* The head leaves.                                                        *)
LEMMA ListsTail ==
  ASSUME NEW S, NEW s \in Seq(S), NEW T, Lists(s, T), s # <<>>
  PROVE  /\ Head(s) \in S /\ Head(s) \in T
         /\ Tail(s) \in Seq(S) /\ Lists(Tail(s), T \ {Head(s)})
<1>1. \A i \in 1..Len(s) : s[i] \in T
  BY DEF Lists, ToSet
<1>2. \A y \in T : \E i \in 1..Len(s) : s[i] = y
  BY DEF Lists, ToSet
<1>3. \A i, j \in 1..Len(s) : s[i] = s[j] => i = j
  BY DEF Lists, IsInjective
<1> DEFINE t == Tail(s)
<1>4. /\ t \in Seq(S)
      /\ Len(t) = Len(s) - 1
      /\ \A i \in 1..Len(t) : t[i] = s[i + 1]
  BY HeadTailProperties
<1>5. Len(s) \in Nat \ {0} /\ Head(s) = s[1]
  BY EmptySeq
<1> HIDE DEF t
<1>6. IsInjective(t)
  <2> SUFFICES ASSUME NEW i \in 1..Len(t), NEW j \in 1..Len(t), t[i] = t[j]
               PROVE  i = j
    BY <1>4 DEF IsInjective
  <2>1. i + 1 \in 1..Len(s) /\ j + 1 \in 1..Len(s)
    BY <1>4, <1>5
  <2>2. i + 1 = j + 1
    BY <1>3, <1>4, <2>1
  <2> QED BY <2>2
<1>7. ToSet(t) = T \ {s[1]}
  <2>1. ASSUME NEW i \in 1..Len(t)
        PROVE  t[i] \in T \ {s[1]}
    <3>1. i + 1 \in 1..Len(s) /\ i + 1 # 1 /\ 1 \in 1..Len(s)
      BY <1>4, <1>5
    <3> QED BY <1>1, <1>3, <1>4, <3>1
  <2>2. ASSUME NEW y \in T \ {s[1]}
        PROVE  \E i \in 1..Len(t) : t[i] = y
    <3>1. PICK i \in 1..Len(s) : s[i] = y
      BY <1>2
    <3>2. i - 1 \in 1..Len(t) /\ (i - 1) + 1 = i
      BY <1>4, <1>5, <3>1
    <3> QED BY <1>4, <3>1, <3>2
  <2>3. DOMAIN t = 1..Len(t)
    BY <1>4
  <2> QED BY <2>1, <2>2, <2>3 DEF ToSet
<1> QED BY <1>1, <1>4, <1>5, <1>6, <1>7 DEF t, Lists

(* Whoever stands at i leaves.                                             *)
LEMMA ListsRemove ==
  ASSUME NEW S, NEW s \in Seq(S), NEW T, Lists(s, T), NEW i \in 1..Len(s)
  PROVE  RemoveAt(s, i) \in Seq(S) /\ Lists(RemoveAt(s, i), T \ {s[i]})
<1>1. \A j \in 1..Len(s) : s[j] \in T
  BY DEF Lists, ToSet
<1>2. \A y \in T : \E j \in 1..Len(s) : s[j] = y
  BY DEF Lists, ToSet
<1>3. \A j, k \in 1..Len(s) : s[j] = s[k] => j = k
  BY DEF Lists, IsInjective
<1> DEFINE t == RemoveAt(s, i)
           old(j) == IF j < i THEN j ELSE j + 1
<1>4. /\ t \in Seq(S)
      /\ Len(t) = Len(s) - 1
      /\ \A j \in 1..Len(t) : t[j] = s[old(j)]
  BY RemoveAtProperties
<1>5. \A j \in 1..Len(t) : old(j) \in 1..Len(s) /\ old(j) # i
  BY <1>4
<1>6. \A j, k \in 1..Len(t) : old(j) = old(k) => j = k
  BY <1>4
<1>7. \A j \in 1..Len(s) : j # i => \E k \in 1..Len(t) : old(k) = j
  <2> SUFFICES ASSUME NEW j \in 1..Len(s), j # i
               PROVE  \E k \in 1..Len(t) : old(k) = j
    OBVIOUS
  <2>1. CASE j < i
    <3>1. j \in 1..Len(t) /\ old(j) = j
      BY <1>4, <2>1
    <3> QED BY <3>1
  <2>2. CASE j > i
    <3>1. j - 1 \in 1..Len(t) /\ old(j - 1) = j
      BY <1>4, <2>2
    <3> QED BY <3>1
  <2> QED BY <2>1, <2>2
<1> HIDE DEF t, old
<1>8. IsInjective(t)
  <2> SUFFICES ASSUME NEW j \in 1..Len(t), NEW k \in 1..Len(t), t[j] = t[k]
               PROVE  j = k
    BY <1>4 DEF IsInjective
  <2> QED BY <1>3, <1>4, <1>5, <1>6
<1>9. ToSet(t) = T \ {s[i]}
  <2>1. \A j \in 1..Len(t) : t[j] \in T \ {s[i]}
    BY <1>1, <1>3, <1>4, <1>5
  <2>2. ASSUME NEW y \in T \ {s[i]}
        PROVE  \E k \in 1..Len(t) : t[k] = y
    <3>1. PICK j \in 1..Len(s) : s[j] = y
      BY <1>2
    <3>2. PICK k \in 1..Len(t) : old(k) = j
      BY <1>7, <3>1
    <3> QED BY <1>4, <3>1, <3>2
  <2>3. DOMAIN t = 1..Len(t)
    BY <1>4
  <2> QED BY <2>1, <2>2, <2>3 DEF ToSet
<1> QED BY <1>4, <1>8, <1>9 DEF t, Lists

-----------------------------------------------------------------------------
(* Types.  A slot is given back by a call that holds one, so inFlight does *)
(* not go below zero: typing rests on the slot accounting.                 *)

(* A call has a tenant to count against and a weight to be admitted with.  *)
LEMMA CallConstants ==
  ASSUME NEW c \in Calls
  PROVE  TenantOf[c] \in Tenants /\ Weight[c] \in Nat \ {0}
BY InvocationAssumption

(* The calls that hold a tenant's slots can be counted.                    *)
LEMMA SlotHoldersFinite ==
  ASSUME NEW t
  PROVE  IsFiniteSet(SlotHolders(t)) /\ Cardinality(SlotHolders(t)) \in Nat
<1>1. SlotHolders(t) \in SUBSET Calls /\ IsFiniteSet(Calls)
  BY InvocationAssumption DEF SlotHolders
<1> QED BY <1>1, FS_Subset, FS_CardinalityType

(* A call about to give its slot back is counted, so the subtraction in    *)
(* TenantSlot's drop cannot underflow.                                     *)
LEMMA DropSlotCounts ==
  ASSUME TypeOK, SlotAccounting, NEW c \in Calls, pc[c] = "unslot"
  PROVE  TenantOf[c] \in Tenants /\ inFlight[TenantOf[c]] \in Nat \ {0}
<1> DEFINE t == TenantOf[c]
<1>1. t \in Tenants /\ inFlight[t] \in Nat
  BY CallConstants DEF TypeOK
<1>2. c \in SlotHolders(t)
  BY DEF SlotHolders, HoldsSlot
<1>3. Cardinality(SlotHolders(t)) # 0
  BY <1>2, SlotHoldersFinite, FS_EmptySet
<1> QED BY <1>1, <1>3 DEF SlotAccounting

(* The runtime starts well typed.                                          *)
LEMMA TypeInit == Init => TypeOK
<1> SUFFICES ASSUME Init
             PROVE  TypeOK
  OBVIOUS
<1>1. pc \in [Jobs -> PCs] /\ \A x \in Jobs : pc[x] = "idle"
  BY DEF Init, PCs
<1>2. result \in [Calls -> Results] /\ "none" \in Results
  BY DEF Init, Results
<1>3. meter \in [Calls -> Seq(BOOLEAN)] /\ permitQ \in Seq(Jobs) /\ poolQ \in Seq(Jobs)
  BY EmptySeq DEF Init
<1>4. admission \in Nat /\ permits \in Nat
  BY InvocationAssumption DEF Init
<1> QED BY <1>1, <1>2, <1>3, <1>4 DEF Init, TypeOK, Jobs

(* Every step of a job keeps the types.                                    *)
LEMMA TypeStep ==
  ASSUME TypeOK, SlotAccounting, [Next]_vars
  PROVE  TypeOK'
<1> USE DEF TypeOK, PCs, HoldsSlot, HoldsAdmission, Awaiting, vars, callVars,
            gateVars, permitVars, poolVars
<1>a. Calls \cap Stages = {} /\ Calls \subseteq Jobs /\ Stages \subseteq Jobs
  BY InvocationAssumption DEF Jobs
<1>b. \A x \in Jobs : Append(poolQ, x) \in Seq(Jobs) /\ Append(permitQ, x) \in Seq(Jobs)
  BY AppendProperties
<1>c. {"NotFound", "Load", "Overloaded", "Cancelled", "none"} \subseteq Results
  BY DEF Results, UnmeteredErrors
<1>1. CASE StartTask
  BY <1>1, HeadTailProperties DEF StartTask
<1>2. CASE GrantPermit
  BY <1>2, <1>b, HeadTailProperties, InvocationAssumption DEF GrantPermit, Spawn, Jobs
<1>3. ASSUME NEW x \in Jobs, DetachedTaskEnds(x)
      PROVE  TypeOK'
  BY <1>3 DEF DetachedTaskEnds, TaskReturns, DropPermit
<1>4. ASSUME NEW c \in Calls, Enter(c)
      PROVE  TypeOK'
  BY <1>4, <1>a DEF Enter
<1>5. ASSUME NEW c \in Calls, AcquireSlot(c)
      PROVE  TypeOK'
  <2>1. pc' \in [Jobs -> PCs] /\ pc'[c] \in {"idle", "slotted"}
    BY <1>5, <1>a DEF AcquireSlot
  <2>2. inFlight' \in [Tenants -> Nat]
    <3>1. TenantOf[c] \in Tenants /\ inFlight[TenantOf[c]] + 1 \in Nat
      BY CallConstants
    <3> QED BY <1>5, <3>1 DEF AcquireSlot
  <2> QED BY <1>5, <1>a, <2>1, <2>2 DEF AcquireSlot
<1>6. ASSUME NEW c \in Calls, Admit(c)
      PROVE  TypeOK'
  <2>1. CASE ~Fits(c)
    <3>1. /\ pc' = [pc EXCEPT ![c] = "unslot"]
          /\ result' = [result EXCEPT ![c] = "Overloaded"]
          /\ UNCHANGED <<admission, poolVars, started, meter, inFlight, permitVars>>
      BY <1>6, <2>1 DEF Admit
    <3> QED BY <1>a, <1>c, <3>1
  <2>2. CASE Fits(c)
    <3>1. admission' \in Nat
      <4>1. Weight[c] <= admission /\ admission' = admission - Weight[c]
        BY <1>6, <2>2 DEF Admit, Fits
      <4>2. admission \in Nat
        OBVIOUS
      <4> QED BY ONLY <4>1, <4>2, CallConstants, c \in Calls
    <3>2. /\ pc' = [pc EXCEPT ![c] = "lookup"]
          /\ Spawn(c)
          /\ UNCHANGED <<result, started, meter, inFlight, permitVars>>
      BY <1>6, <2>2 DEF Admit
    <3> QED BY <1>a, <1>b, <3>1, <3>2 DEF Spawn
  <2> QED BY <2>1, <2>2
<1>7. ASSUME NEW c \in Calls, LookupReturns(c)
      PROVE  TypeOK'
  <2>1. CASE \E r \in {"NotFound", "Load"} : Leave(c, r) /\ TaskReturns(c) /\ UNCHANGED started
    BY <1>7, <1>a, <1>c, <2>1 DEF LookupReturns, Leave, TaskReturns
  <2>2. CASE StartGuest(c) /\ TaskReturns(c) /\ UNCHANGED result
    BY <1>7, <1>a, <2>2 DEF LookupReturns, StartGuest, TaskReturns
  <2>3. CASE pc' = [pc EXCEPT ![c] = "load"] /\ Spawn(c) /\ UNCHANGED <<result, started>>
    BY <1>7, <1>a, <1>b, <2>3 DEF LookupReturns, Spawn
  <2> QED BY <1>7, <2>1, <2>2, <2>3 DEF LookupReturns
<1>8. ASSUME NEW c \in Calls, LoadReturns(c)
      PROVE  TypeOK'
  <2>1. CASE Leave(c, "Load") /\ TaskReturns(c) /\ UNCHANGED <<started, permitQ>>
    BY <1>8, <1>a, <1>c, <2>1 DEF LoadReturns, Leave, TaskReturns
  <2>2. CASE StartGuest(c) /\ TaskReturns(c) /\ UNCHANGED <<result, permitQ>>
    BY <1>8, <1>a, <2>2 DEF LoadReturns, StartGuest, TaskReturns
  <2>3. CASE NeedsCompile(c) /\ UNCHANGED <<result, started>>
    BY <1>8, <1>a, <1>b, <2>3 DEF LoadReturns, NeedsCompile, AwaitPermit, TaskReturns
  <2> QED BY <1>8, <2>1, <2>2, <2>3 DEF LoadReturns
<1>9. ASSUME NEW c \in Calls, RecompileReturns(c)
      PROVE  TypeOK'
  <2>1. CASE Leave(c, "Load") /\ UNCHANGED started
    BY <1>9, <1>a, <1>c, <2>1 DEF RecompileReturns, Leave, TaskReturns, DropPermit
  <2>2. CASE StartGuest(c) /\ UNCHANGED result
    BY <1>9, <1>a, <2>2 DEF RecompileReturns, StartGuest, TaskReturns, DropPermit
  <2> QED BY <1>9, <2>1, <2>2 DEF RecompileReturns
<1>10. ASSUME NEW c \in Calls, GuestReturns(c)
       PROVE  TypeOK'
  <2>1. PICK r \in GuestResults : Leave(c, r) /\ Record(c, r = "Ok")
    BY <1>10 DEF GuestReturns
  <2>2. r \in Results /\ Append(meter[c], r = "Ok") \in Seq(BOOLEAN)
    BY AppendProperties, InvocationAssumption DEF Results
  <2> QED BY <1>10, <1>a, <2>1, <2>2 DEF GuestReturns, Leave, Record
<1>11. ASSUME NEW c \in Calls, CancelCall(c)
       PROVE  TypeOK'
  <2>1. Append(meter[c], FALSE) \in Seq(BOOLEAN)
    BY AppendProperties
  <2>2. permitQ' \in Seq(Jobs)
    BY <1>11, RemoveAtProperties DEF CancelCall, StopWaiting
  <2>3. meter' \in [Calls -> Seq(BOOLEAN)]
    BY <1>11, <2>1 DEF CancelCall, DropMeterGuard, Record
  <2> QED BY <1>11, <1>a, <2>2, <2>3 DEF CancelCall, Leave, Results
<1>12. ASSUME NEW c \in Calls, DropAdmission(c)
       PROVE  TypeOK'
  BY <1>12, <1>a, CallConstants DEF DropAdmission
<1>13. ASSUME NEW c \in Calls, DropSlot(c)
       PROVE  TypeOK'
  BY <1>13, <1>a, DropSlotCounts, EmptySeq DEF DropSlot, Results
<1>14. ASSUME NEW s \in Stages, RequestStage(s)
       PROVE  TypeOK'
  BY <1>14, <1>a, <1>b DEF RequestStage, AwaitPermit
<1>15. ASSUME NEW s \in Stages, StageReturns(s)
       PROVE  TypeOK'
  BY <1>15, <1>a DEF StageReturns, TaskReturns, DropPermit
<1>16. ASSUME NEW s \in Stages, CancelStage(s)
       PROVE  TypeOK'
  <2>1. permitQ' \in Seq(Jobs)
    BY <1>16, RemoveAtProperties DEF CancelStage, StopWaiting
  <2> QED BY <1>16, <1>a, <2>1 DEF CancelStage
<1>17. CASE UNCHANGED vars
  BY <1>17
<1> QED
  BY <1>1, <1>2, <1>3, <1>4, <1>5, <1>6, <1>7, <1>8, <1>9, <1>10, <1>11, <1>12,
     <1>13, <1>14, <1>15, <1>16, <1>17 DEF Next, Proceed

-----------------------------------------------------------------------------
(* Slots.                                                                  *)

(* The job that is granted a permit was waiting for it.                    *)
LEMMA GrantedWaited ==
  ASSUME IInv, GrantPermit
  PROVE  /\ Head(permitQ) \in Jobs
         /\ pc[Head(permitQ)] = "permit"
         /\ task[Head(permitQ)] = "none"
<1>1. permitQ \in Seq(Jobs) /\ Lists(permitQ, Waiters) /\ permitQ # <<>>
  BY DEF IInv, TypeOK, QueuesFaithful, GrantPermit
<1>2. Head(permitQ) \in Waiters
  BY <1>1, ListsTail
<1> QED BY <1>2 DEF Waiters, IInv, QueuesFaithful

(* Every step keeps the in-flight map equal to the slot holders: only      *)
(* AcquireSlot adds one, below the cap, and only DropSlot removes one.     *)
LEMMA SlotStep ==
  ASSUME IInv, [Next]_vars
  PROVE  SlotAccounting'
<1> USE DEF HoldsSlot, HoldsAdmission, Awaiting
<1>t. TypeOK /\ SlotAccounting
  BY DEF IInv
<1>u. Calls \cap Stages = {} /\ Calls \subseteq Jobs /\ Stages \subseteq Jobs
  BY InvocationAssumption DEF Jobs
<1>f. ASSUME UNCHANGED inFlight,
             \A c \in Calls : pc'[c] \in HoldsSlot <=> pc[c] \in HoldsSlot
      PROVE  SlotAccounting'
  <2>1. ASSUME NEW t \in Tenants
        PROVE  SlotHolders(t)' = SlotHolders(t)
    BY <1>f DEF SlotHolders
  <2> QED BY <1>f, <1>t, <2>1 DEF SlotAccounting
<1>1. CASE StartTask
  BY <1>1, <1>f, <1>t, <1>u
     DEF StartTask, gateVars, TypeOK
<1>2. CASE GrantPermit
  BY <1>2, <1>f, <1>t, <1>u, GrantedWaited, InvocationAssumption
     DEF GrantPermit, gateVars, Jobs, TypeOK
<1>3. ASSUME NEW x \in Jobs, DetachedTaskEnds(x)
      PROVE  SlotAccounting'
  BY <1>3, <1>f, <1>t, <1>u
     DEF DetachedTaskEnds, gateVars, TypeOK
<1>4. ASSUME NEW c \in Calls, Enter(c)
      PROVE  SlotAccounting'
  BY <1>4, <1>f, <1>t, <1>u
     DEF Enter, gateVars, TypeOK
<1>5. ASSUME NEW c \in Calls, AcquireSlot(c)
      PROVE  SlotAccounting'
  <2> DEFINE t == TenantOf[c]
  <2>1. CASE ~SlotFree(t)
    BY <1>5, <1>f, <1>t, <1>u, <2>1 DEF AcquireSlot, TypeOK
  <2>2. CASE SlotFree(t)
    <3>1. /\ pc[c] = "entered" /\ pc' = [pc EXCEPT ![c] = "slotted"]
          /\ inFlight' = [inFlight EXCEPT ![t] = @ + 1]
          /\ inFlight[t] < MaxInFlightPerTenant
      BY <1>5, <2>2 DEF AcquireSlot, SlotFree
    <3>2. SlotHolders(t)' = SlotHolders(t) \cup {c} /\ c \notin SlotHolders(t)
      BY <1>t, <1>u, <3>1 DEF SlotHolders, TypeOK
    <3>3. \A u \in Tenants \ {t} : SlotHolders(u)' = SlotHolders(u)
      BY <1>t, <1>u, <3>1 DEF SlotHolders, TypeOK
    <3>4. Cardinality(SlotHolders(t)') = Cardinality(SlotHolders(t)) + 1
      BY <3>2, SlotHoldersFinite, FS_AddElement
    <3>5. \A u \in Tenants : inFlight'[u] = IF u = t THEN inFlight[u] + 1 ELSE inFlight[u]
      BY <1>t, <3>1 DEF TypeOK
    <3>6. \A u \in Tenants : inFlight[u] \in Nat /\ MaxInFlightPerTenant \in Nat
      BY <1>t, InvocationAssumption DEF TypeOK
    <3> QED BY <1>t, <3>1, <3>3, <3>4, <3>5, <3>6 DEF SlotAccounting
  <2> QED BY <2>1, <2>2
<1>6. ASSUME NEW c \in Calls, Admit(c)
      PROVE  SlotAccounting'
  BY <1>6, <1>f, <1>t, <1>u
     DEF Admit, gateVars, TypeOK
<1>7. ASSUME NEW c \in Calls, LookupReturns(c)
      PROVE  SlotAccounting'
  BY <1>7, <1>f, <1>t, <1>u
     DEF LookupReturns, Leave, StartGuest, gateVars, TypeOK
<1>8. ASSUME NEW c \in Calls, LoadReturns(c)
      PROVE  SlotAccounting'
  BY <1>8, <1>f, <1>t, <1>u
     DEF LoadReturns, Leave, StartGuest, NeedsCompile, AwaitPermit, gateVars, TypeOK
<1>9. ASSUME NEW c \in Calls, RecompileReturns(c)
      PROVE  SlotAccounting'
  BY <1>9, <1>f, <1>t, <1>u
     DEF RecompileReturns, Leave, StartGuest, gateVars, TypeOK
<1>10. ASSUME NEW c \in Calls, GuestReturns(c)
       PROVE  SlotAccounting'
  BY <1>10, <1>f, <1>t, <1>u
     DEF GuestReturns, Leave, gateVars, TypeOK
<1>11. ASSUME NEW c \in Calls, CancelCall(c)
       PROVE  SlotAccounting'
  BY <1>11, <1>f, <1>t, <1>u
     DEF CancelCall, Leave, gateVars, TypeOK
<1>12. ASSUME NEW c \in Calls, DropAdmission(c)
       PROVE  SlotAccounting'
  BY <1>12, <1>f, <1>t, <1>u
     DEF DropAdmission, gateVars, TypeOK
<1>13. ASSUME NEW c \in Calls, DropSlot(c)
       PROVE  SlotAccounting'
  <2> DEFINE t == TenantOf[c]
  <2>1. /\ pc[c] = "unslot" /\ pc' = [pc EXCEPT ![c] = "idle"]
        /\ inFlight' = [inFlight EXCEPT ![t] = @ - 1]
    BY <1>13 DEF DropSlot
  <2>2. SlotHolders(t)' = SlotHolders(t) \ {c} /\ c \in SlotHolders(t)
    BY <1>t, <1>u, <2>1 DEF SlotHolders, TypeOK
  <2>3. \A u \in Tenants \ {t} : SlotHolders(u)' = SlotHolders(u)
    BY <1>t, <1>u, <2>1 DEF SlotHolders, TypeOK
  <2>4. Cardinality(SlotHolders(t)') = Cardinality(SlotHolders(t)) - 1
    BY <2>2, SlotHoldersFinite, FS_RemoveElement
  <2>5. \A u \in Tenants : inFlight'[u] = IF u = t THEN inFlight[u] - 1 ELSE inFlight[u]
    BY <1>t, <2>1 DEF TypeOK
  <2>6. \A u \in Tenants : inFlight[u] \in Nat /\ MaxInFlightPerTenant \in Nat
    BY <1>t, InvocationAssumption DEF TypeOK
  <2> QED BY <1>t, <2>3, <2>4, <2>5, <2>6 DEF SlotAccounting
<1>14. ASSUME NEW s \in Stages, RequestStage(s)
       PROVE  SlotAccounting'
  BY <1>14, <1>f, <1>t, <1>u
     DEF RequestStage, AwaitPermit, gateVars, TypeOK
<1>15. ASSUME NEW s \in Stages, StageReturns(s)
       PROVE  SlotAccounting'
  BY <1>15, <1>f, <1>t, <1>u
     DEF StageReturns, gateVars, TypeOK
<1>16. ASSUME NEW s \in Stages, CancelStage(s)
       PROVE  SlotAccounting'
  BY <1>16, <1>f, <1>t, <1>u
     DEF CancelStage, gateVars, TypeOK
<1>17. CASE UNCHANGED vars
  BY <1>17, <1>f DEF vars, gateVars
<1> QED
  BY <1>1, <1>2, <1>3, <1>4, <1>5, <1>6, <1>7, <1>8, <1>9, <1>10, <1>11, <1>12,
     <1>13, <1>14, <1>15, <1>16, <1>17 DEF Next, Proceed

-----------------------------------------------------------------------------
(* Admission.                                                              *)

Admitted == {c \in Calls : pc[c] \in HoldsAdmission}

(* The MiB a set of calls stands for can be counted.                       *)
LEMMA PagesFinite ==
  ASSUME NEW C \in SUBSET Calls
  PROVE  IsFiniteSet(Pages(C)) /\ Cardinality(Pages(C)) \in Nat
<1>1. IsFiniteSet(C) /\ IsFiniteSet(1..MemoryBudget)
  BY InvocationAssumption, FS_Subset, FS_Interval
<1>2. IsFiniteSet(C \X (1..MemoryBudget))
  BY <1>1, FS_Product
<1>3. Pages(C) \in SUBSET (C \X (1..MemoryBudget))
  BY DEF Pages
<1> QED BY <1>2, <1>3, FS_Subset, FS_CardinalityType

(* A call that fits the budget stands for one page per MiB it asked for.   *)
LEMMA PagesOfOne ==
  ASSUME NEW c \in Calls, Weight[c] <= MemoryBudget
  PROVE  Cardinality(Pages({c})) = Weight[c]
<1>1. Weight[c] \in Nat \ {0} /\ MemoryBudget \in Nat
  BY CallConstants, InvocationAssumption
<1> DEFINE one == {c}
           mib == 1..Weight[c]
<1>2. Pages({c}) = one \X mib
  <2>1. \A n : n \in 1..MemoryBudget /\ n <= Weight[c] <=> n \in 1..Weight[c]
    BY <1>1
  <2> QED BY <2>1 DEF Pages
<1>3. IsFiniteSet(one) /\ Cardinality(one) = 1
  BY FS_Singleton
<1>4. IsFiniteSet(mib) /\ Cardinality(mib) = Weight[c]
  <2>1. /\ IsFiniteSet(mib)
        /\ Cardinality(mib) = IF 1 > Weight[c] THEN 0 ELSE Weight[c] - 1 + 1
    BY ONLY <1>1, FS_Interval, 1 \in Int, Weight[c] \in Int, Zenon
  <2> QED BY <1>1, <2>1
<1> HIDE DEF one, mib
<1>5. Cardinality(one \X mib) = Cardinality(one) * Cardinality(mib)
  BY <1>3, <1>4, FS_Product
<1>6. Cardinality(Pages({c})) = Cardinality(one) * Cardinality(mib)
  BY <1>2, <1>5, Zenon
<1> QED BY <1>1, <1>3, <1>4, <1>6

(* One call more commits its weight more.                                  *)
LEMMA PagesOfOneMore ==
  ASSUME NEW C \in SUBSET Calls, NEW c \in Calls \ C, Weight[c] <= MemoryBudget
  PROVE  Cardinality(Pages(C \cup {c})) = Cardinality(Pages(C)) + Weight[c]
<1>1. Pages(C \cup {c}) = Pages(C) \cup Pages({c})
  BY DEF Pages
<1>2. Pages(C) \cap Pages({c}) = {}
  BY DEF Pages
<1>3. /\ IsFiniteSet(Pages(C)) /\ Cardinality(Pages(C)) \in Nat
      /\ IsFiniteSet(Pages({c})) /\ Cardinality(Pages({c})) = Weight[c]
      /\ Weight[c] \in Nat
  BY PagesFinite, PagesOfOne, CallConstants
<1>4. Cardinality(Pages(C) \cup Pages({c}))
        = Cardinality(Pages(C)) + Cardinality(Pages({c}))
            - Cardinality(Pages(C) \cap Pages({c}))
  BY <1>3, FS_Union
<1>5. Cardinality(Pages(C \cup {c})) = Cardinality(Pages(C) \cup Pages({c}))
  BY <1>1, Zenon
<1>6. Cardinality(Pages(C) \cap Pages({c})) = 0
  BY <1>2, FS_EmptySet, Zenon
<1> QED BY <1>3, <1>4, <1>5, <1>6

(* Whoever is running was admitted, so guests fit where admissions fit.    *)
LEMMA GuestsWereAdmitted ==
  ASSUME TypeOK, AdmissionAccounting, NEW C \in SUBSET Admitted
  PROVE  Cardinality(Pages(C)) <= MemoryBudget
<1>1. Admitted \in SUBSET Calls /\ C \in SUBSET Calls
  BY DEF Admitted
<1>2. Pages(C) \in SUBSET Pages(Admitted)
  BY DEF Pages
<1>3. /\ IsFiniteSet(Pages(Admitted)) /\ Cardinality(Pages(Admitted)) \in Nat
      /\ Cardinality(Pages(C)) \in Nat
  BY <1>1, PagesFinite
<1>4. Cardinality(Pages(C)) <= Cardinality(Pages(Admitted))
  BY <1>2, <1>3, FS_Subset
<1>5. admission + Cardinality(Pages(Admitted)) = MemoryBudget
  BY DEF AdmissionAccounting, Committed, Admitted
<1> QED BY <1>3, <1>4, <1>5, InvocationAssumption DEF TypeOK

AdmissionInv == AdmissionAccounting /\ AdmittedFit

(* Every step keeps the admission semaphore's books: Admit takes what      *)
(* DropAdmission gives back.                                               *)
LEMMA AdmissionStep ==
  ASSUME IInv, [Next]_vars
  PROVE  AdmissionInv'
<1> USE DEF HoldsAdmission, Awaiting
<1>t. TypeOK /\ AdmissionAccounting /\ AdmittedFit
  BY DEF IInv
<1>u. Calls \cap Stages = {} /\ Calls \subseteq Jobs /\ Stages \subseteq Jobs
  BY InvocationAssumption DEF Jobs
<1>v. Admitted \in SUBSET Calls /\ admission + Cardinality(Pages(Admitted)) = MemoryBudget
  BY <1>t DEF Admitted, AdmissionAccounting, Committed
<1>f. ASSUME UNCHANGED admission,
             \A c \in Calls : pc'[c] \in HoldsAdmission <=> pc[c] \in HoldsAdmission
      PROVE  AdmissionInv'
  <2>1. Committed' = Committed
    BY <1>f DEF Committed, Pages
  <2> QED BY <1>f, <1>t, <2>1 DEF AdmissionInv, AdmissionAccounting, AdmittedFit
<1>1. CASE StartTask
  BY <1>1, <1>f, <1>t, <1>u
     DEF StartTask, gateVars, TypeOK
<1>2. CASE GrantPermit
  BY <1>2, <1>f, <1>t, <1>u, GrantedWaited, InvocationAssumption
     DEF GrantPermit, gateVars, Jobs, TypeOK
<1>3. ASSUME NEW x \in Jobs, DetachedTaskEnds(x)
      PROVE  AdmissionInv'
  BY <1>3, <1>f, <1>t, <1>u
     DEF DetachedTaskEnds, gateVars, TypeOK
<1>4. ASSUME NEW c \in Calls, Enter(c)
      PROVE  AdmissionInv'
  BY <1>4, <1>f, <1>t, <1>u
     DEF Enter, gateVars, TypeOK
<1>5. ASSUME NEW c \in Calls, AcquireSlot(c)
      PROVE  AdmissionInv'
  BY <1>5, <1>f, <1>t, <1>u
     DEF AcquireSlot, gateVars, TypeOK
<1>6. ASSUME NEW c \in Calls, Admit(c)
      PROVE  AdmissionInv'
  <2>1. CASE ~Fits(c)
    BY <1>6, <1>f, <1>t, <1>u, <2>1 DEF Admit, TypeOK
  <2>2. CASE Fits(c)
    <3>1. /\ pc[c] = "slotted" /\ pc' = [pc EXCEPT ![c] = "lookup"]
          /\ admission' = admission - Weight[c]
          /\ Weight[c] <= MemoryBudget
      BY <1>6, <2>2 DEF Admit, Fits
    <3>2. Admitted' = Admitted \cup {c} /\ c \notin Admitted
      BY <1>t, <1>u, <3>1 DEF Admitted, TypeOK
    <3>3. Cardinality(Pages(Admitted')) = Cardinality(Pages(Admitted)) + Weight[c]
      BY <1>v, <3>1, <3>2, PagesOfOneMore
    <3>4. /\ Cardinality(Pages(Admitted)) \in Nat /\ Weight[c] \in Nat
          /\ admission \in Nat /\ MemoryBudget \in Nat
      BY <1>t, <1>v, PagesFinite, CallConstants, InvocationAssumption DEF TypeOK
    <3>5. admission' + Cardinality(Pages(Admitted')) = MemoryBudget
      BY <1>v, <3>1, <3>3, <3>4
    <3>6. AdmittedFit'
      BY <1>t, <1>u, <3>1 DEF AdmittedFit, TypeOK
    <3> QED BY <3>5, <3>6 DEF AdmissionInv, AdmissionAccounting, Committed, Admitted, Pages
  <2> QED BY <2>1, <2>2
<1>7. ASSUME NEW c \in Calls, LookupReturns(c)
      PROVE  AdmissionInv'
  BY <1>7, <1>f, <1>t, <1>u
     DEF LookupReturns, Leave, StartGuest, gateVars, TypeOK
<1>8. ASSUME NEW c \in Calls, LoadReturns(c)
      PROVE  AdmissionInv'
  BY <1>8, <1>f, <1>t, <1>u
     DEF LoadReturns, Leave, StartGuest, NeedsCompile, AwaitPermit, gateVars, TypeOK
<1>9. ASSUME NEW c \in Calls, RecompileReturns(c)
      PROVE  AdmissionInv'
  BY <1>9, <1>f, <1>t, <1>u
     DEF RecompileReturns, Leave, StartGuest, gateVars, TypeOK
<1>10. ASSUME NEW c \in Calls, GuestReturns(c)
       PROVE  AdmissionInv'
  BY <1>10, <1>f, <1>t, <1>u
     DEF GuestReturns, Leave, gateVars, TypeOK
<1>11. ASSUME NEW c \in Calls, CancelCall(c)
       PROVE  AdmissionInv'
  BY <1>11, <1>f, <1>t, <1>u
     DEF CancelCall, Leave, gateVars, TypeOK
<1>12. ASSUME NEW c \in Calls, DropAdmission(c)
       PROVE  AdmissionInv'
  <2>1. /\ pc[c] = "unadmit" /\ pc' = [pc EXCEPT ![c] = "unslot"]
        /\ admission' = admission + Weight[c]
    BY <1>12 DEF DropAdmission
  <2>2. /\ Admitted = Admitted' \cup {c} /\ c \notin Admitted'
        /\ Admitted' \in SUBSET Calls /\ Weight[c] <= MemoryBudget
    BY <1>t, <1>u, <2>1 DEF Admitted, AdmittedFit, TypeOK
  <2>3. Cardinality(Pages(Admitted)) = Cardinality(Pages(Admitted')) + Weight[c]
    BY <2>2, PagesOfOneMore
  <2>4. /\ Cardinality(Pages(Admitted')) \in Nat /\ Weight[c] \in Nat
        /\ admission \in Nat /\ MemoryBudget \in Nat
    BY <1>t, <2>2, PagesFinite, CallConstants, InvocationAssumption DEF TypeOK
  <2>5. admission' + Cardinality(Pages(Admitted')) = MemoryBudget
    BY <1>v, <2>1, <2>3, <2>4
  <2>6. AdmittedFit'
    BY <1>t, <1>u, <2>1 DEF AdmittedFit, TypeOK
  <2> QED BY <2>5, <2>6 DEF AdmissionInv, AdmissionAccounting, Committed, Admitted, Pages
<1>13. ASSUME NEW c \in Calls, DropSlot(c)
       PROVE  AdmissionInv'
  BY <1>13, <1>f, <1>t, <1>u
     DEF DropSlot, gateVars, TypeOK
<1>14. ASSUME NEW s \in Stages, RequestStage(s)
       PROVE  AdmissionInv'
  BY <1>14, <1>f, <1>t, <1>u
     DEF RequestStage, AwaitPermit, gateVars, TypeOK
<1>15. ASSUME NEW s \in Stages, StageReturns(s)
       PROVE  AdmissionInv'
  BY <1>15, <1>f, <1>t, <1>u
     DEF StageReturns, gateVars, TypeOK
<1>16. ASSUME NEW s \in Stages, CancelStage(s)
       PROVE  AdmissionInv'
  BY <1>16, <1>f, <1>t, <1>u
     DEF CancelStage, gateVars, TypeOK
<1>17. CASE UNCHANGED vars
  BY <1>17, <1>f DEF vars, gateVars
<1> QED
  BY <1>1, <1>2, <1>3, <1>4, <1>5, <1>6, <1>7, <1>8, <1>9, <1>10, <1>11, <1>12,
     <1>13, <1>14, <1>15, <1>16, <1>17 DEF Next, Proceed

-----------------------------------------------------------------------------
(* Queues.                                                                 *)

(* Every step keeps the permit queue equal to the futures that wait in it, *)
(* cancellation in the middle of the queue included.                       *)
LEMMA WaitersStep ==
  ASSUME IInv, [Next]_vars
  PROVE  Lists(permitQ, Waiters)'
<1>t. TypeOK /\ QueuesFaithful
  BY DEF IInv
<1>u. Calls \cap Stages = {} /\ Calls \subseteq Jobs /\ Stages \subseteq Jobs
  BY InvocationAssumption DEF Jobs
<1>v. permitQ \in Seq(Jobs) /\ Lists(permitQ, Waiters)
  BY <1>t DEF TypeOK, QueuesFaithful
<1>f. ASSUME UNCHANGED permitQ,
             \A x \in Jobs : pc'[x] = "permit" <=> pc[x] = "permit"
      PROVE  Lists(permitQ, Waiters)'
  <2>1. Waiters' = Waiters
    BY <1>f DEF Waiters
  <2> QED BY <1>f, <1>v, <2>1 DEF Lists
<1>g. ASSUME NEW x \in Jobs, pc[x] # "permit", pc' = [pc EXCEPT ![x] = "permit"],
             permitQ' = Append(permitQ, x)
      PROVE  Lists(permitQ, Waiters)'
  <2>1. Waiters' = Waiters \cup {x} /\ x \in Jobs \ Waiters
    BY <1>t, <1>g DEF Waiters, TypeOK
  <2>2. Lists(Append(permitQ, x), Waiters \cup {x})
    BY <1>v, <2>1, ListsAppend
  <2> QED BY <1>g, <2>1, <2>2 DEF Lists
<1>h. ASSUME NEW x \in Jobs, NEW p, p # "permit", pc' = [pc EXCEPT ![x] = p],
             StopWaiting(x)
      PROVE  Lists(permitQ, Waiters)'
  <2>1. CASE pc[x] # "permit"
    BY <1>f, <1>h, <1>t, <2>1 DEF StopWaiting, TypeOK
  <2>2. CASE pc[x] = "permit"
    <3>1. PICK i \in 1..Len(permitQ) : permitQ[i] = x /\ permitQ' = RemoveAt(permitQ, i)
      BY <1>h, <2>2 DEF StopWaiting
    <3>2. Waiters' = Waiters \ {x}
      BY <1>h, <1>t DEF Waiters, TypeOK
    <3>3. Lists(RemoveAt(permitQ, i), Waiters \ {permitQ[i]})
      BY <1>v, ListsRemove
    <3> QED BY <3>1, <3>2, <3>3 DEF Lists
  <2> QED BY <2>1, <2>2
<1>1. CASE StartTask
  BY <1>1, <1>f, <1>t, <1>u
     DEF StartTask, permitVars, poolVars, TypeOK
<1>2. CASE GrantPermit
  <2> DEFINE x == Head(permitQ)
  <2>1. x \in Jobs /\ pc[x] = "permit"
    BY <1>2, GrantedWaited
  <2>2. PICK p \in {"stage", "recompile"} : pc' = [pc EXCEPT ![x] = p]
    BY <1>2 DEF GrantPermit
  <2>3. Waiters' = Waiters \ {x}
    BY <1>t, <2>1, <2>2 DEF Waiters, TypeOK
  <2>4. permitQ # <<>> /\ permitQ' = Tail(permitQ)
    BY <1>2 DEF GrantPermit
  <2>5. Lists(Tail(permitQ), Waiters \ {x})
    BY <1>v, <2>4, ListsTail
  <2> QED BY <2>3, <2>4, <2>5 DEF Lists
<1>3. ASSUME NEW x \in Jobs, DetachedTaskEnds(x)
      PROVE  Lists(permitQ, Waiters)'
  BY <1>3, <1>f, <1>t, <1>u
     DEF DetachedTaskEnds, TaskReturns, DropPermit, permitVars, poolVars, TypeOK
<1>4. ASSUME NEW c \in Calls, Enter(c)
      PROVE  Lists(permitQ, Waiters)'
  BY <1>4, <1>f, <1>t, <1>u
     DEF Enter, permitVars, poolVars, TypeOK
<1>5. ASSUME NEW c \in Calls, AcquireSlot(c)
      PROVE  Lists(permitQ, Waiters)'
  BY <1>5, <1>f, <1>t, <1>u
     DEF AcquireSlot, permitVars, poolVars, TypeOK
<1>6. ASSUME NEW c \in Calls, Admit(c)
      PROVE  Lists(permitQ, Waiters)'
  BY <1>6, <1>f, <1>t, <1>u
     DEF Admit, Spawn, permitVars, poolVars, TypeOK
<1>7. ASSUME NEW c \in Calls, LookupReturns(c)
      PROVE  Lists(permitQ, Waiters)'
  BY <1>7, <1>f, <1>t, <1>u
     DEF LookupReturns, Leave, StartGuest, TaskReturns, Spawn, permitVars, poolVars, TypeOK
<1>8. ASSUME NEW c \in Calls, LoadReturns(c)
      PROVE  Lists(permitQ, Waiters)'
  <2>1. CASE NeedsCompile(c)
    BY <1>8, <1>g, <1>u, <2>1 DEF LoadReturns, NeedsCompile, AwaitPermit
  <2>2. CASE (Leave(c, "Load") \/ StartGuest(c)) /\ UNCHANGED permitQ
    BY <1>8, <1>f, <1>t, <1>u, <2>2 DEF LoadReturns, Leave, StartGuest, TypeOK
  <2> QED BY <1>8, <2>1, <2>2 DEF LoadReturns
<1>9. ASSUME NEW c \in Calls, RecompileReturns(c)
      PROVE  Lists(permitQ, Waiters)'
  BY <1>9, <1>f, <1>t, <1>u
     DEF RecompileReturns, Leave, StartGuest, TaskReturns, DropPermit, permitVars, poolVars, TypeOK
<1>10. ASSUME NEW c \in Calls, GuestReturns(c)
       PROVE  Lists(permitQ, Waiters)'
  BY <1>10, <1>f, <1>t, <1>u
     DEF GuestReturns, Leave, permitVars, poolVars, TypeOK
<1>11. ASSUME NEW c \in Calls, CancelCall(c)
       PROVE  Lists(permitQ, Waiters)'
  BY <1>11, <1>h, <1>u DEF CancelCall, Leave
<1>12. ASSUME NEW c \in Calls, DropAdmission(c)
       PROVE  Lists(permitQ, Waiters)'
  BY <1>12, <1>f, <1>t, <1>u
     DEF DropAdmission, permitVars, poolVars, TypeOK
<1>13. ASSUME NEW c \in Calls, DropSlot(c)
       PROVE  Lists(permitQ, Waiters)'
  BY <1>13, <1>f, <1>t, <1>u
     DEF DropSlot, permitVars, poolVars, TypeOK
<1>14. ASSUME NEW s \in Stages, RequestStage(s)
       PROVE  Lists(permitQ, Waiters)'
  BY <1>14, <1>g, <1>u DEF RequestStage, AwaitPermit
<1>15. ASSUME NEW s \in Stages, StageReturns(s)
       PROVE  Lists(permitQ, Waiters)'
  BY <1>15, <1>f, <1>t, <1>u
     DEF StageReturns, TaskReturns, DropPermit, permitVars, poolVars, TypeOK
<1>16. ASSUME NEW s \in Stages, CancelStage(s)
       PROVE  Lists(permitQ, Waiters)'
  BY <1>16, <1>h, <1>u DEF CancelStage
<1>17. CASE UNCHANGED vars
  BY <1>17, <1>f DEF vars, permitVars
<1> QED
  BY <1>1, <1>2, <1>3, <1>4, <1>5, <1>6, <1>7, <1>8, <1>9, <1>10, <1>11, <1>12,
     <1>13, <1>14, <1>15, <1>16, <1>17 DEF Next, Proceed

(* Every step keeps the pool's queue equal to the tasks queued in it.      *)
LEMMA PoolStep ==
  ASSUME IInv, [Next]_vars
  PROVE  Lists(poolQ, QueuedTasks)'
<1>t. TypeOK /\ QueuesFaithful
  BY DEF IInv
<1>u. Calls \cap Stages = {} /\ Calls \subseteq Jobs /\ Stages \subseteq Jobs
  BY InvocationAssumption DEF Jobs
<1>v. poolQ \in Seq(Jobs) /\ Lists(poolQ, QueuedTasks)
  BY <1>t DEF TypeOK, QueuesFaithful
<1>f. ASSUME UNCHANGED poolQ,
             \A x \in Jobs : task'[x] = "queued" <=> task[x] = "queued"
      PROVE  Lists(poolQ, QueuedTasks)'
  <2>1. QueuedTasks' = QueuedTasks
    BY <1>f DEF QueuedTasks
  <2> QED BY <1>f, <1>v, <2>1 DEF Lists
<1>g. ASSUME NEW x \in Jobs, task[x] # "queued", Spawn(x)
      PROVE  Lists(poolQ, QueuedTasks)'
  <2>1. QueuedTasks' = QueuedTasks \cup {x} /\ x \in Jobs \ QueuedTasks
    BY <1>t, <1>g DEF QueuedTasks, Spawn, TypeOK
  <2>2. Lists(Append(poolQ, x), QueuedTasks \cup {x})
    BY <1>v, <2>1, ListsAppend
  <2> QED BY <1>g, <2>1, <2>2 DEF Lists, Spawn
<1>h. ASSUME NEW x \in Jobs, task[x] = "running", TaskReturns(x)
      PROVE  Lists(poolQ, QueuedTasks)'
  BY <1>f, <1>h, <1>t DEF TaskReturns, TypeOK
<1>1. CASE StartTask
  <2> DEFINE x == Head(poolQ)
  <2>1. /\ poolQ # <<>> /\ poolQ' = Tail(poolQ)
        /\ task' = [task EXCEPT ![x] = "running"]
    BY <1>1 DEF StartTask
  <2>2. x \in Jobs /\ Lists(Tail(poolQ), QueuedTasks \ {x})
    BY <1>v, <2>1, ListsTail
  <2>3. QueuedTasks' = QueuedTasks \ {x}
    BY <1>t, <2>1, <2>2 DEF QueuedTasks, TypeOK
  <2> QED BY <2>1, <2>2, <2>3 DEF Lists
<1>2. CASE GrantPermit
  BY <1>2, <1>g, GrantedWaited DEF GrantPermit
<1>3. ASSUME NEW x \in Jobs, DetachedTaskEnds(x)
      PROVE  Lists(poolQ, QueuedTasks)'
  BY <1>3, <1>h DEF DetachedTaskEnds
<1>4. ASSUME NEW c \in Calls, Enter(c)
      PROVE  Lists(poolQ, QueuedTasks)'
  BY <1>4, <1>f DEF Enter, poolVars
<1>5. ASSUME NEW c \in Calls, AcquireSlot(c)
      PROVE  Lists(poolQ, QueuedTasks)'
  BY <1>5, <1>f DEF AcquireSlot, poolVars
<1>6. ASSUME NEW c \in Calls, Admit(c)
      PROVE  Lists(poolQ, QueuedTasks)'
  <2>1. CASE Fits(c)
    BY <1>6, <1>g, <1>u, <2>1 DEF Admit, IInv, TasksMatch
  <2>2. CASE ~Fits(c)
    BY <1>6, <1>f, <2>2 DEF Admit, poolVars
  <2> QED BY <2>1, <2>2
<1>7. ASSUME NEW c \in Calls, LookupReturns(c)
      PROVE  Lists(poolQ, QueuedTasks)'
  BY <1>7, <1>g, <1>h, <1>u DEF LookupReturns
<1>8. ASSUME NEW c \in Calls, LoadReturns(c)
      PROVE  Lists(poolQ, QueuedTasks)'
  BY <1>8, <1>h, <1>u DEF LoadReturns, NeedsCompile
<1>9. ASSUME NEW c \in Calls, RecompileReturns(c)
      PROVE  Lists(poolQ, QueuedTasks)'
  BY <1>9, <1>h, <1>u DEF RecompileReturns
<1>10. ASSUME NEW c \in Calls, GuestReturns(c)
       PROVE  Lists(poolQ, QueuedTasks)'
  BY <1>10, <1>f DEF GuestReturns, poolVars
<1>11. ASSUME NEW c \in Calls, CancelCall(c)
       PROVE  Lists(poolQ, QueuedTasks)'
  BY <1>11, <1>f DEF CancelCall, poolVars
<1>12. ASSUME NEW c \in Calls, DropAdmission(c)
       PROVE  Lists(poolQ, QueuedTasks)'
  BY <1>12, <1>f DEF DropAdmission, poolVars
<1>13. ASSUME NEW c \in Calls, DropSlot(c)
       PROVE  Lists(poolQ, QueuedTasks)'
  BY <1>13, <1>f DEF DropSlot, poolVars
<1>14. ASSUME NEW s \in Stages, RequestStage(s)
       PROVE  Lists(poolQ, QueuedTasks)'
  BY <1>14, <1>f DEF RequestStage, poolVars
<1>15. ASSUME NEW s \in Stages, StageReturns(s)
       PROVE  Lists(poolQ, QueuedTasks)'
  BY <1>15, <1>h, <1>u DEF StageReturns
<1>16. ASSUME NEW s \in Stages, CancelStage(s)
       PROVE  Lists(poolQ, QueuedTasks)'
  BY <1>16, <1>f DEF CancelStage, poolVars
<1>17. CASE UNCHANGED vars
  BY <1>17, <1>f DEF vars, poolVars
<1> QED
  BY <1>1, <1>2, <1>3, <1>4, <1>5, <1>6, <1>7, <1>8, <1>9, <1>10, <1>11, <1>12,
     <1>13, <1>14, <1>15, <1>16, <1>17 DEF Next, Proceed

(* A future that waits for a permit has no task.                           *)
LEMMA OffPoolStep ==
  ASSUME IInv, [Next]_vars
  PROVE  (\A x \in Waiters : task[x] = "none")'
<1>t. TypeOK /\ QueuesFaithful
  BY DEF IInv
<1>u. Calls \cap Stages = {} /\ Calls \subseteq Jobs /\ Stages \subseteq Jobs
  BY InvocationAssumption DEF Jobs
<1>v. \A x \in Jobs : pc[x] = "permit" => task[x] = "none"
  BY <1>t DEF QueuesFaithful, Waiters
<1>g. SUFFICES \A x \in Jobs : pc'[x] = "permit" => task'[x] = "none"
  BY DEF Waiters
<1> DEFINE OffPool == \A x \in Jobs : pc'[x] = "permit" => task'[x] = "none"
<1>1. CASE StartTask
  <2>1. Head(poolQ) \in QueuedTasks
    <3>1. poolQ # <<>> /\ poolQ \in Seq(Jobs) /\ Lists(poolQ, QueuedTasks)
      BY <1>1, <1>t DEF StartTask, TypeOK, QueuesFaithful
    <3> QED BY <3>1, ListsTail
  <2> QED BY <1>1, <1>t, <1>v, <2>1 DEF StartTask, QueuedTasks, TypeOK
<1>2. CASE GrantPermit
  BY <1>2, <1>t, <1>v, GrantedWaited DEF GrantPermit, Spawn, TypeOK
<1>3. ASSUME NEW x \in Jobs, DetachedTaskEnds(x)
      PROVE  OffPool
  BY <1>3, <1>t, <1>u, <1>v
     DEF DetachedTaskEnds, TaskReturns, poolVars, Awaiting, TypeOK
<1>4. ASSUME NEW c \in Calls, Enter(c)
      PROVE  OffPool
  BY <1>4, <1>t, <1>u, <1>v
     DEF Enter, poolVars, Awaiting, TypeOK
<1>5. ASSUME NEW c \in Calls, AcquireSlot(c)
      PROVE  OffPool
  BY <1>5, <1>t, <1>u, <1>v
     DEF AcquireSlot, poolVars, Awaiting, TypeOK
<1>6. ASSUME NEW c \in Calls, Admit(c)
      PROVE  OffPool
  BY <1>6, <1>t, <1>u, <1>v
     DEF Admit, Spawn, poolVars, Awaiting, TypeOK
<1>7. ASSUME NEW c \in Calls, LookupReturns(c)
      PROVE  OffPool
  BY <1>7, <1>t, <1>u, <1>v
     DEF LookupReturns, Leave, StartGuest, TaskReturns, Spawn, poolVars, Awaiting, TypeOK
<1>8. ASSUME NEW c \in Calls, LoadReturns(c)
      PROVE  OffPool
  BY <1>8, <1>t, <1>u, <1>v
     DEF LoadReturns, Leave, StartGuest, TaskReturns, NeedsCompile, AwaitPermit,
          poolVars, Awaiting, TypeOK
<1>9. ASSUME NEW c \in Calls, RecompileReturns(c)
      PROVE  OffPool
  BY <1>9, <1>t, <1>u, <1>v
     DEF RecompileReturns, Leave, StartGuest, TaskReturns, poolVars, Awaiting, TypeOK
<1>10. ASSUME NEW c \in Calls, GuestReturns(c)
       PROVE  OffPool
  BY <1>10, <1>t, <1>u, <1>v
     DEF GuestReturns, Leave, poolVars, Awaiting, TypeOK
<1>11. ASSUME NEW c \in Calls, CancelCall(c)
       PROVE  OffPool
  BY <1>11, <1>t, <1>u, <1>v
     DEF CancelCall, Leave, poolVars, Awaiting, TypeOK
<1>12. ASSUME NEW c \in Calls, DropAdmission(c)
       PROVE  OffPool
  BY <1>12, <1>t, <1>u, <1>v
     DEF DropAdmission, poolVars, Awaiting, TypeOK
<1>13. ASSUME NEW c \in Calls, DropSlot(c)
       PROVE  OffPool
  BY <1>13, <1>t, <1>u, <1>v
     DEF DropSlot, poolVars, Awaiting, TypeOK
<1>14. ASSUME NEW s \in Stages, RequestStage(s)
       PROVE  OffPool
  BY <1>14, <1>t, <1>u, <1>v
     DEF RequestStage, AwaitPermit, poolVars, Awaiting, TypeOK
<1>15. ASSUME NEW s \in Stages, StageReturns(s)
       PROVE  OffPool
  BY <1>15, <1>t, <1>u, <1>v
     DEF StageReturns, TaskReturns, poolVars, Awaiting, TypeOK
<1>16. ASSUME NEW s \in Stages, CancelStage(s)
       PROVE  OffPool
  BY <1>16, <1>t, <1>u, <1>v
     DEF CancelStage, poolVars, Awaiting, TypeOK
<1>17. CASE UNCHANGED vars
  BY <1>17, <1>v DEF vars, poolVars
<1> QED
  BY <1>1, <1>2, <1>3, <1>4, <1>5, <1>6, <1>7, <1>8, <1>9, <1>10, <1>11, <1>12,
     <1>13, <1>14, <1>15, <1>16, <1>17 DEF Next, Proceed

-----------------------------------------------------------------------------
(* Compile permits.                                                        *)

(* Every step keeps tasks and futures matched: a call spawns only when its *)
(* last task has returned, and only compiling or detached tasks own a      *)
(* permit.                                                                 *)
LEMMA TasksStep ==
  ASSUME IInv, [Next]_vars
  PROVE  TasksMatch'
<1>t. TypeOK /\ TasksMatch /\ (\A x \in holding : task[x] # "none")
  BY DEF IInv, PermitAccounting
<1>u. Calls \cap Stages = {} /\ Calls \subseteq Jobs /\ Stages \subseteq Jobs
  BY InvocationAssumption DEF Jobs
<1>1. CASE StartTask
  <2>1. Head(poolQ) \in QueuedTasks
    <3>1. poolQ # <<>> /\ poolQ \in Seq(Jobs) /\ Lists(poolQ, QueuedTasks)
      BY <1>1 DEF StartTask, IInv, TypeOK, QueuesFaithful
    <3> QED BY <3>1, ListsTail
  <2> QED BY <1>1, <1>t, <2>1 DEF StartTask, QueuedTasks, TasksMatch, TypeOK, permitVars
<1>2. CASE GrantPermit
  BY <1>2, <1>t, GrantedWaited DEF GrantPermit, Spawn, TasksMatch, TypeOK
<1>3. ASSUME NEW x \in Jobs, DetachedTaskEnds(x)
      PROVE  TasksMatch'
  BY <1>3, <1>t, <1>u
     DEF DetachedTaskEnds, TaskReturns, DropPermit, permitVars, poolVars,
         TasksMatch, TypeOK
<1>4. ASSUME NEW c \in Calls, Enter(c)
      PROVE  TasksMatch'
  BY <1>4, <1>t, <1>u
     DEF Enter, permitVars, poolVars,
         TasksMatch, TypeOK
<1>5. ASSUME NEW c \in Calls, AcquireSlot(c)
      PROVE  TasksMatch'
  BY <1>5, <1>t, <1>u
     DEF AcquireSlot, permitVars, poolVars,
         TasksMatch, TypeOK
<1>6. ASSUME NEW c \in Calls, Admit(c)
      PROVE  TasksMatch'
  BY <1>6, <1>t, <1>u
     DEF Admit, Spawn, permitVars, poolVars,
         TasksMatch, TypeOK
<1>7. ASSUME NEW c \in Calls, LookupReturns(c)
      PROVE  TasksMatch'
  BY <1>7, <1>t, <1>u
     DEF LookupReturns, Leave, StartGuest, TaskReturns, Spawn, permitVars, poolVars,
         TasksMatch, TypeOK
<1>8. ASSUME NEW c \in Calls, LoadReturns(c)
      PROVE  TasksMatch'
  BY <1>8, <1>t, <1>u
     DEF LoadReturns, Leave, StartGuest, TaskReturns, NeedsCompile, AwaitPermit,
          permitVars, poolVars,
         TasksMatch, TypeOK
<1>9. ASSUME NEW c \in Calls, RecompileReturns(c)
      PROVE  TasksMatch'
  BY <1>9, <1>t, <1>u
     DEF RecompileReturns, Leave, StartGuest, TaskReturns, DropPermit, permitVars, poolVars,
         TasksMatch, TypeOK
<1>10. ASSUME NEW c \in Calls, GuestReturns(c)
       PROVE  TasksMatch'
  BY <1>10, <1>t, <1>u
     DEF GuestReturns, Leave, permitVars, poolVars,
         TasksMatch, TypeOK
<1>11. ASSUME NEW c \in Calls, CancelCall(c)
       PROVE  TasksMatch'
  BY <1>11, <1>t, <1>u
     DEF CancelCall, Leave, permitVars, poolVars,
         TasksMatch, TypeOK, Awaiting
<1>12. ASSUME NEW c \in Calls, DropAdmission(c)
       PROVE  TasksMatch'
  BY <1>12, <1>t, <1>u
     DEF DropAdmission, permitVars, poolVars,
         TasksMatch, TypeOK
<1>13. ASSUME NEW c \in Calls, DropSlot(c)
       PROVE  TasksMatch'
  BY <1>13, <1>t, <1>u
     DEF DropSlot, permitVars, poolVars,
         TasksMatch, TypeOK
<1>14. ASSUME NEW s \in Stages, RequestStage(s)
       PROVE  TasksMatch'
  BY <1>14, <1>t, <1>u
     DEF RequestStage, AwaitPermit, permitVars, poolVars,
         TasksMatch, TypeOK
<1>15. ASSUME NEW s \in Stages, StageReturns(s)
       PROVE  TasksMatch'
  BY <1>15, <1>t, <1>u
     DEF StageReturns, TaskReturns, DropPermit, permitVars, poolVars,
         TasksMatch, TypeOK
<1>16. ASSUME NEW s \in Stages, CancelStage(s)
       PROVE  TasksMatch'
  BY <1>16, <1>t, <1>u
     DEF CancelStage, permitVars, poolVars,
         TasksMatch, TypeOK
<1>17. CASE UNCHANGED vars
  BY <1>17, <1>t DEF vars, permitVars, poolVars, TasksMatch
<1> QED
  BY <1>1, <1>2, <1>3, <1>4, <1>5, <1>6, <1>7, <1>8, <1>9, <1>10, <1>11, <1>12,
     <1>13, <1>14, <1>15, <1>16, <1>17 DEF Next, Proceed

(* The compile permits handed out can be counted.                          *)
LEMMA PermitsCount ==
  ASSUME IInv
  PROVE  /\ IsFiniteSet(holding) /\ Cardinality(holding) \in Nat
         /\ permits \in Nat /\ CompileConcurrency \in Nat
         /\ permits + Cardinality(holding) = CompileConcurrency
<1>1. IsFiniteSet(Jobs)
  BY InvocationAssumption, FS_Union DEF Jobs
<1>2. holding \in SUBSET Jobs
  BY DEF IInv, TypeOK
<1> QED BY <1>1, <1>2, FS_Subset, FS_CardinalityType, InvocationAssumption
        DEF IInv, TypeOK, PermitAccounting

(* Every step keeps the compile permits' books: a permit moves into a task *)
(* and comes back when that task ends, detached or not.                    *)
LEMMA PermitStep ==
  ASSUME IInv, [Next]_vars
  PROVE  PermitAccounting'
<1>t. TypeOK /\ TasksMatch /\ \A x \in holding : task[x] # "none"
  BY DEF IInv, PermitAccounting
<1>u. Calls \cap Stages = {} /\ Calls \subseteq Jobs /\ Stages \subseteq Jobs
  BY InvocationAssumption DEF Jobs
<1>f. ASSUME UNCHANGED <<permits, holding>>, \A x \in holding : task'[x] # "none"
      PROVE  PermitAccounting'
  BY <1>f, PermitsCount DEF PermitAccounting
<1>g. ASSUME NEW x \in Jobs, TaskReturns(x), DropPermit(x)
      PROVE  PermitAccounting'
  <2>1. \A y \in holding' : task'[y] # "none"
    BY <1>g, <1>t DEF TaskReturns, DropPermit, TypeOK
  <2>2. permits' + Cardinality(holding') = CompileConcurrency
    <3>1. CASE x \in holding
      <4>1. Cardinality(holding \ {x}) = Cardinality(holding) - 1
        BY <3>1, PermitsCount, FS_RemoveElement
      <4>2. permits' = permits + 1 /\ holding' = holding \ {x}
        BY <1>g, <3>1 DEF DropPermit
      <4>3. Cardinality(holding') = Cardinality(holding \ {x})
        BY <4>2, Zenon
      <4> QED BY <4>1, <4>2, <4>3, PermitsCount
    <3>2. CASE x \notin holding
      <4>1. permits' = permits /\ holding' = holding
        BY <1>g, <3>2 DEF DropPermit
      <4> QED BY <4>1, PermitsCount
    <3> QED BY <3>1, <3>2
  <2> QED BY <2>1, <2>2 DEF PermitAccounting
<1>1. CASE StartTask
  BY <1>1, <1>f, <1>t, <1>u
     DEF StartTask, permitVars, poolVars, TypeOK
<1>2. CASE GrantPermit
  <2> DEFINE x == Head(permitQ)
  <2>1. x \in Jobs /\ x \notin holding
    BY <1>t, <1>2, GrantedWaited
  <2>2. /\ permits > 0 /\ permits' = permits - 1
        /\ holding' = holding \cup {x}
        /\ task' = [task EXCEPT ![x] = "queued"]
    BY <1>2 DEF GrantPermit, Spawn
  <2>3. Cardinality(holding \cup {x}) = Cardinality(holding) + 1
    BY <2>1, PermitsCount, FS_AddElement
  <2>4. Cardinality(holding') = Cardinality(holding \cup {x})
    BY <2>2, Zenon
  <2>5. permits' + Cardinality(holding') = CompileConcurrency
    BY <2>2, <2>3, <2>4, PermitsCount
  <2>6. \A y \in holding' : task'[y] # "none"
    BY <1>t, <2>1, <2>2 DEF TypeOK
  <2> QED BY <2>5, <2>6 DEF PermitAccounting
<1>3. ASSUME NEW x \in Jobs, DetachedTaskEnds(x)
      PROVE  PermitAccounting'
  BY <1>3, <1>g, <1>u DEF DetachedTaskEnds
<1>4. ASSUME NEW c \in Calls, Enter(c)
      PROVE  PermitAccounting'
  BY <1>4, <1>f, <1>t DEF Enter, permitVars, poolVars
<1>5. ASSUME NEW c \in Calls, AcquireSlot(c)
      PROVE  PermitAccounting'
  BY <1>5, <1>f, <1>t DEF AcquireSlot, permitVars, poolVars
<1>6. ASSUME NEW c \in Calls, Admit(c)
      PROVE  PermitAccounting'
  BY <1>6, <1>f, <1>t, <1>u
     DEF Admit, Spawn, permitVars, poolVars, TypeOK
<1>7. ASSUME NEW c \in Calls, LookupReturns(c)
      PROVE  PermitAccounting'
  BY <1>7, <1>f, <1>t, <1>u
     DEF LookupReturns, TaskReturns, Spawn, permitVars, TasksMatch, TypeOK
<1>8. ASSUME NEW c \in Calls, LoadReturns(c)
      PROVE  PermitAccounting'
  BY <1>8, <1>f, <1>t, <1>u
     DEF LoadReturns, TaskReturns, NeedsCompile, permitVars, TasksMatch, TypeOK
<1>9. ASSUME NEW c \in Calls, RecompileReturns(c)
      PROVE  PermitAccounting'
  BY <1>9, <1>g, <1>u DEF RecompileReturns
<1>10. ASSUME NEW c \in Calls, GuestReturns(c)
       PROVE  PermitAccounting'
  BY <1>10, <1>f, <1>t DEF GuestReturns, permitVars, poolVars
<1>11. ASSUME NEW c \in Calls, CancelCall(c)
       PROVE  PermitAccounting'
  BY <1>11, <1>f, <1>t DEF CancelCall, permitVars, poolVars
<1>12. ASSUME NEW c \in Calls, DropAdmission(c)
       PROVE  PermitAccounting'
  BY <1>12, <1>f, <1>t DEF DropAdmission, permitVars, poolVars
<1>13. ASSUME NEW c \in Calls, DropSlot(c)
       PROVE  PermitAccounting'
  BY <1>13, <1>f, <1>t DEF DropSlot, permitVars, poolVars
<1>14. ASSUME NEW s \in Stages, RequestStage(s)
       PROVE  PermitAccounting'
  BY <1>14, <1>f, <1>t DEF RequestStage, permitVars, poolVars
<1>15. ASSUME NEW s \in Stages, StageReturns(s)
       PROVE  PermitAccounting'
  BY <1>15, <1>g, <1>u DEF StageReturns
<1>16. ASSUME NEW s \in Stages, CancelStage(s)
       PROVE  PermitAccounting'
  BY <1>16, <1>f, <1>t DEF CancelStage, permitVars, poolVars
<1>17. CASE UNCHANGED vars
  BY <1>17, <1>f, <1>t DEF vars, permitVars, poolVars
<1> QED
  BY <1>1, <1>2, <1>3, <1>4, <1>5, <1>6, <1>7, <1>8, <1>9, <1>10, <1>11, <1>12,
     <1>13, <1>14, <1>15, <1>16, <1>17 DEF Next, Proceed

-----------------------------------------------------------------------------
(* Billing.                                                                *)

BillInv == BilledOnce /\ OpenBill

(* Every step keeps the bill right: nothing before the guest starts, one   *)
(* report when it stops or is dropped.                                     *)
LEMMA BillStep ==
  ASSUME IInv, [Next]_vars
  PROVE  BillInv'
<1>t. TypeOK /\ BilledOnce /\ OpenBill
  BY DEF IInv
<1>u. Calls \cap Stages = {} /\ Calls \subseteq Jobs /\ Stages \subseteq Jobs
  BY InvocationAssumption DEF Jobs
<1>f. ASSUME UNCHANGED callVars,
             \A c \in Calls : \/ pc'[c] = pc[c]
                              \/ pc[c] \in BeforeGuest /\ pc'[c] \in BeforeGuest
                              \/ pc[c] = "unadmit" /\ pc'[c] = "unslot"
      PROVE  BillInv'
  BY <1>f, <1>t
     DEF BillInv, BilledOnce, OpenBill, callVars, BeforeGuest
<1>s. ASSUME NEW c \in Calls, pc[c] \in BeforeGuest, StartGuest(c),
             UNCHANGED <<result, meter>>
      PROVE  BillInv'
  BY <1>s, <1>t, <1>u
     DEF BillInv, BilledOnce, OpenBill, StartGuest, BeforeGuest, TypeOK
<1>l. ASSUME NEW c \in Calls, NEW r \in UnmeteredErrors \cup {"Cancelled"},
             pc[c] \in BeforeGuest,
             \E p \in {"unadmit", "unslot"} : pc' = [pc EXCEPT ![c] = p],
             result' = [result EXCEPT ![c] = r], UNCHANGED <<started, meter>>
      PROVE  BillInv'
  <2>1. r \notin {"Ok"} \cup MeteredErrors
    BY DEF UnmeteredErrors, MeteredErrors
  <2> QED BY <1>l, <1>t, <1>u, <2>1
          DEF BillInv, BilledOnce, OpenBill, BeforeGuest, TypeOK
<1>r. ASSUME NEW c \in Calls, NEW r \in {"Ok", "Cancelled"} \cup MeteredErrors,
             pc[c] = "running", pc' = [pc EXCEPT ![c] = "unadmit"],
             result' = [result EXCEPT ![c] = r],
             Record(c, r = "Ok"), UNCHANGED started
      PROVE  BillInv'
  <2>1. meter'[c] = <<r = "Ok">> /\ started'[c] /\ result'[c] = r
    <3>1. meter'[c] = Append(meter[c], r = "Ok") /\ result'[c] = r
      BY <1>r, <1>t DEF Record, TypeOK
    <3>2. meter[c] = <<>> /\ started'[c]
      BY <1>r, <1>t DEF OpenBill
    <3>3. \A e : Append(<<>>, e) = <<e>>
      OBVIOUS
    <3> QED BY <3>1, <3>2, <3>3, Zenon
  <2>2. \A d \in Calls \ {c} : /\ meter'[d] = meter[d] /\ started'[d] = started[d]
                               /\ result'[d] = result[d] /\ pc'[d] = pc[d]
    BY <1>r, <1>t, <1>u DEF Record, TypeOK
  <2>3. pc'[c] = "unadmit"
    BY <1>r, <1>t, <1>u DEF TypeOK
  <2>4. BilledOnce'
    <3>1. ASSUME NEW d \in Calls, pc'[d] \in {"unadmit", "unslot"}
          PROVE  /\ meter'[d] = IF started'[d] THEN <<result'[d] = "Ok">> ELSE <<>>
                 /\ result'[d] # "Cancelled" =>
                      (started'[d] <=> result'[d] \in {"Ok"} \cup MeteredErrors)
      <4>1. CASE d = c
        BY <2>1, <4>1
      <4>2. CASE d # c
        BY <1>t, <2>2, <3>1, <4>2 DEF BilledOnce
      <4> QED BY <4>1, <4>2
    <3> QED BY <3>1 DEF BilledOnce
  <2>5. OpenBill'
    BY <1>t, <2>2, <2>3 DEF OpenBill, BeforeGuest
  <2> QED BY <2>4, <2>5 DEF BillInv
<1>1. CASE StartTask
  BY <1>1, <1>f DEF StartTask
<1>2. CASE GrantPermit
  <2>1. \A c \in Calls : pc'[c] = pc[c] \/ (pc[c] = "permit" /\ pc'[c] = "recompile")
    <3>1. PICK p \in {"stage", "recompile"} :
            /\ pc' = [pc EXCEPT ![Head(permitQ)] = p]
            /\ p = "stage" <=> Head(permitQ) \in Stages
      BY <1>2 DEF GrantPermit
    <3>2. Head(permitQ) \in Jobs /\ pc[Head(permitQ)] = "permit"
      BY <1>2, GrantedWaited
    <3>3. \A x \in Jobs : pc'[x] = IF x = Head(permitQ) THEN p ELSE pc[x]
      BY <1>t, <3>1 DEF TypeOK
    <3>4. ASSUME NEW c \in Calls
          PROVE  pc'[c] = pc[c] \/ (pc[c] = "permit" /\ pc'[c] = "recompile")
      <4>1. c \in Jobs /\ ~(c \in Stages)
        BY <1>u
      <4>2. CASE c = Head(permitQ)
        BY <3>1, <3>2, <3>3, <4>1, <4>2
      <4>3. CASE c # Head(permitQ)
        BY <3>3, <4>1, <4>3
      <4> QED BY <4>2, <4>3
    <3> QED BY <3>4
  <2> QED BY <1>2, <1>f, <2>1 DEF GrantPermit, BeforeGuest
<1>3. ASSUME NEW x \in Jobs, DetachedTaskEnds(x)
      PROVE  BillInv'
  BY <1>3, <1>f DEF DetachedTaskEnds
<1>4. ASSUME NEW c \in Calls, Enter(c)
      PROVE  BillInv'
  BY <1>4, <1>f, <1>t, <1>u DEF Enter, BeforeGuest, TypeOK
<1>5. ASSUME NEW c \in Calls, AcquireSlot(c)
      PROVE  BillInv'
  BY <1>5, <1>f, <1>t, <1>u DEF AcquireSlot, BeforeGuest, TypeOK
<1>6. ASSUME NEW c \in Calls, Admit(c)
      PROVE  BillInv'
  <2>1. CASE Fits(c)
    BY <1>6, <1>f, <1>t, <1>u, <2>1 DEF Admit, BeforeGuest, callVars, TypeOK
  <2>2. CASE ~Fits(c)
    BY <1>6, <1>l, <2>2 DEF Admit, BeforeGuest, UnmeteredErrors
  <2> QED BY <2>1, <2>2
<1>7. ASSUME NEW c \in Calls, LookupReturns(c)
      PROVE  BillInv'
  <2>1. CASE \E r \in {"NotFound", "Load"} : Leave(c, r) /\ UNCHANGED started
    BY <1>7, <1>l, <2>1 DEF LookupReturns, Leave, BeforeGuest, UnmeteredErrors
  <2>2. CASE StartGuest(c) /\ UNCHANGED result
    BY <1>7, <1>s, <2>2 DEF LookupReturns, BeforeGuest
  <2>3. CASE pc' = [pc EXCEPT ![c] = "load"] /\ UNCHANGED <<result, started>>
    BY <1>7, <1>f, <1>t, <1>u, <2>3 DEF LookupReturns, BeforeGuest, callVars, TypeOK
  <2> QED BY <1>7, <2>1, <2>2, <2>3 DEF LookupReturns
<1>8. ASSUME NEW c \in Calls, LoadReturns(c)
      PROVE  BillInv'
  <2>1. CASE Leave(c, "Load") /\ UNCHANGED started
    BY <1>8, <1>l, <2>1 DEF LoadReturns, Leave, BeforeGuest, UnmeteredErrors
  <2>2. CASE StartGuest(c) /\ UNCHANGED result
    BY <1>8, <1>s, <2>2 DEF LoadReturns, BeforeGuest
  <2>3. CASE NeedsCompile(c) /\ UNCHANGED <<result, started>>
    BY <1>8, <1>f, <1>t, <1>u, <2>3
       DEF LoadReturns, NeedsCompile, AwaitPermit, BeforeGuest, callVars, TypeOK
  <2> QED BY <1>8, <2>1, <2>2, <2>3 DEF LoadReturns
<1>9. ASSUME NEW c \in Calls, RecompileReturns(c)
      PROVE  BillInv'
  <2>1. CASE Leave(c, "Load") /\ UNCHANGED started
    BY <1>9, <1>l, <2>1 DEF RecompileReturns, Leave, BeforeGuest, UnmeteredErrors
  <2>2. CASE StartGuest(c) /\ UNCHANGED result
    BY <1>9, <1>s, <2>2 DEF RecompileReturns, BeforeGuest
  <2> QED BY <1>9, <2>1, <2>2 DEF RecompileReturns
<1>10. ASSUME NEW c \in Calls, GuestReturns(c)
       PROVE  BillInv'
  BY <1>10, <1>r, InvocationAssumption DEF GuestReturns, Leave
<1>11. ASSUME NEW c \in Calls, CancelCall(c)
       PROVE  BillInv'
  <2>1. CASE pc[c] = "running"
    <3>1. Record(c, "Cancelled" = "Ok")
      BY <1>11, <2>1 DEF CancelCall, DropMeterGuard, Record
    <3> QED BY <1>11, <1>r, <2>1, <3>1 DEF CancelCall, Leave
  <2>2. CASE pc[c] # "running"
    BY <1>11, <1>l, <2>2 DEF CancelCall, DropMeterGuard, Leave, Awaiting, BeforeGuest
  <2> QED BY <2>1, <2>2
<1>12. ASSUME NEW c \in Calls, DropAdmission(c)
       PROVE  BillInv'
  BY <1>12, <1>f, <1>t, <1>u DEF DropAdmission, TypeOK
<1>13. ASSUME NEW c \in Calls, DropSlot(c)
       PROVE  BillInv'
  BY <1>13, <1>t, <1>u
     DEF DropSlot, BillInv, BilledOnce, OpenBill, BeforeGuest, TypeOK
<1>14. ASSUME NEW s \in Stages, RequestStage(s)
       PROVE  BillInv'
  BY <1>14, <1>f, <1>t, <1>u DEF RequestStage, AwaitPermit, TypeOK
<1>15. ASSUME NEW s \in Stages, StageReturns(s)
       PROVE  BillInv'
  BY <1>15, <1>f, <1>t, <1>u DEF StageReturns, TypeOK
<1>16. ASSUME NEW s \in Stages, CancelStage(s)
       PROVE  BillInv'
  BY <1>16, <1>f, <1>t, <1>u DEF CancelStage, TypeOK
<1>17. CASE UNCHANGED vars
  BY <1>17, <1>f DEF vars
<1> QED
  BY <1>1, <1>2, <1>3, <1>4, <1>5, <1>6, <1>7, <1>8, <1>9, <1>10, <1>11, <1>12,
     <1>13, <1>14, <1>15, <1>16, <1>17 DEF Next, Proceed

-----------------------------------------------------------------------------
(* The inductive invariant, and what follows from it.                      *)

(* The inductive invariant holds initially: no call, no task, no permit    *)
(* out.                                                                    *)
LEMMA InitIInv == Init => IInv
<1> SUFFICES ASSUME Init
             PROVE  IInv
  OBVIOUS
<1>1. TypeOK
  BY TypeInit
<1>2. \A x \in Jobs : pc[x] = "idle" /\ task[x] = "none"
  BY DEF Init
<1>3. Calls \subseteq Jobs /\ holding = {} /\ Cardinality({}) = 0
  BY FS_EmptySet DEF Init, Jobs
<1>4. SlotAccounting
  <2>1. \A t \in Tenants : SlotHolders(t) = {}
    BY <1>2, <1>3 DEF SlotHolders, HoldsSlot, HoldsAdmission, Awaiting
  <2>2. \A t \in Tenants : Cardinality(SlotHolders(t)) = 0
    BY <1>3, <2>1, Zenon
  <2>3. \A t \in Tenants : inFlight[t] = 0
    BY DEF Init
  <2> QED BY <2>2, <2>3, InvocationAssumption DEF SlotAccounting
<1>5. AdmissionAccounting /\ AdmittedFit
  <2>1. Committed = {}
    BY <1>2, <1>3 DEF Committed, Pages, HoldsAdmission, Awaiting
  <2>2. Cardinality(Committed) = 0
    BY <1>3, <2>1, Zenon
  <2>3. AdmittedFit
    BY <1>2, <1>3 DEF AdmittedFit, HoldsAdmission, Awaiting
  <2> QED BY <2>2, <2>3, InvocationAssumption DEF Init, AdmissionAccounting
<1>6. QueuesFaithful
  <2>1. Waiters = {} /\ QueuedTasks = {}
    BY <1>2 DEF Waiters, QueuedTasks
  <2>2. Lists(<<>>, {})
    BY DEF Lists, IsInjective, ToSet
  <2>3. permitQ = <<>> /\ poolQ = <<>>
    BY DEF Init
  <2> QED BY <2>1, <2>2, <2>3 DEF QueuesFaithful
<1>7. PermitAccounting /\ TasksMatch
  <2>1. Cardinality(holding) = 0
    BY <1>3, Zenon
  <2> QED BY <1>2, <1>3, <2>1, InvocationAssumption
          DEF Init, PermitAccounting, TasksMatch
<1>8. BilledOnce /\ OpenBill
  BY <1>2, <1>3 DEF Init, BilledOnce, OpenBill
<1> QED BY <1>1, <1>4, <1>5, <1>6, <1>7, <1>8 DEF IInv

(* Every step keeps the inductive invariant; the parts rest on each other  *)
(* only in the state before the step.                                      *)
LEMMA StepIInv == IInv /\ [Next]_vars => IInv'
<1> SUFFICES ASSUME IInv, [Next]_vars
             PROVE  IInv'
  OBVIOUS
<1>1. TypeOK'
  BY TypeStep DEF IInv
<1>2. SlotAccounting' /\ AdmissionInv' /\ PermitAccounting' /\ TasksMatch' /\ BillInv'
  BY SlotStep, AdmissionStep, PermitStep, TasksStep, BillStep
<1>3. QueuesFaithful'
  BY WaitersStep, PoolStep, OffPoolStep DEF QueuesFaithful
<1> QED BY <1>1, <1>2, <1>3 DEF IInv, AdmissionInv, BillInv

(* The inductive invariant holds in every execution of the runtime.        *)
LEMMA Invariance == Spec => []IInv
BY InitIInv, StepIInv, PTL DEF Spec

(* Every variable keeps its type, in particular no counter of the runtime  *)
(* goes below zero.                                                        *)
THEOREM TypeCorrect == Spec => []TypeOK
<1>1. IInv => TypeOK
  BY DEF IInv
<1> QED BY <1>1, Invariance, PTL

(* TenantSlot: however calls end or are dropped, the in-flight map counts  *)
(* the live ones and never exceeds the cap.                                *)
THEOREM SlotsNeverLeak == Spec => []SlotAccounting
<1>1. IInv => SlotAccounting
  BY DEF IInv
<1> QED BY <1>1, Invariance, PTL

(* The admission semaphore: permits and admitted MiB add up to the budget. *)
THEOREM AdmissionExact == Spec => []AdmissionAccounting
<1>1. IInv => AdmissionAccounting
  BY DEF IInv
<1> QED BY <1>1, Invariance, PTL

(* Running guests never need more memory than the budget.                  *)
THEOREM MemoryBounded == Spec => []GuestMemoryBounded
<1>1. IInv => GuestMemoryBounded
  <2> SUFFICES ASSUME IInv
               PROVE  GuestMemoryBounded
    OBVIOUS
  <2>1. {c \in Calls : pc[c] = "running"} \in SUBSET Admitted
    BY DEF Admitted, HoldsAdmission, Awaiting
  <2> QED BY <2>1, GuestsWereAdmitted DEF IInv, GuestMemoryBounded, GuestPages
<1> QED BY <1>1, Invariance, PTL

(* Nobody waits for a permit on a pool thread, and dropped futures leave   *)
(* no ghost in a queue.                                                    *)
THEOREM QueuesExact == Spec => []QueuesFaithful
<1>1. IInv => QueuesFaithful
  BY DEF IInv
<1> QED BY <1>1, Invariance, PTL

(* Compile permits are never lost nor duplicated, also by detached tasks.  *)
THEOREM PermitsNeverLeak == Spec => []PermitAccounting
<1>1. IInv => PermitAccounting
  BY DEF IInv
<1> QED BY <1>1, Invariance, PTL

(* MeterGuard: a guest that started is reported exactly once.              *)
THEOREM MeteredExactlyOnce == Spec => []BilledOnce
<1>1. IInv => BilledOnce
  BY DEF IInv
<1> QED BY <1>1, Invariance, PTL

-----------------------------------------------------------------------------
(* Every step of Runtime::invoke and Runtime::stage is a step of the       *)
(* contract or leaves it alone.                                            *)

phases == [c \in Calls |-> Phase(pc[c])]

(* Which steps of invoke the contract calls idle, pending, running,        *)
(* settled.                                                                *)
LEMMA PhaseOf ==
  /\ Phase("idle") = "idle"
  /\ Phase("running") = "running"
  /\ \A p \in {"unadmit", "unslot"} : Phase(p) = "settled"
  /\ \A p \in {"entered", "slotted", "lookup", "load", "permit", "recompile"} :
       Phase(p) = "pending"
  /\ \A p : Phase(p) = "running" => p = "running"
BY DEF Phase

(* Moving one future moves at most its own phase.                          *)
LEMMA PhaseMoves ==
  ASSUME TypeOK, NEW c \in Calls, NEW p, pc' = [pc EXCEPT ![c] = p]
  PROVE  /\ phases' = [phases EXCEPT ![c] = Phase(p)]
         /\ phases[c] = Phase(pc[c])
<1>1. c \in Jobs /\ Calls \subseteq Jobs
  BY DEF Jobs
<1>2. \A d \in Calls : pc'[d] = IF d = c THEN p ELSE pc[d]
  BY <1>1 DEF TypeOK
<1>3. \A d \in Calls : Phase(pc'[d]) = IF d = c THEN Phase(p) ELSE Phase(pc[d])
  BY <1>2
<1> QED BY <1>3 DEF phases

ContractStep == [Contract!ContractNext]_(Contract!contractVars)

(* A step that moves nobody to another phase and bills nobody stutters.    *)
LEMMA Stutters ==
  ASSUME UNCHANGED meter, \A c \in Calls : Phase(pc'[c]) = Phase(pc[c])
  PROVE  ContractStep
<1>1. phases' = phases
  BY DEF phases
<1> QED BY <1>1 DEF ContractStep, Contract!contractVars, phases

(* A future that moves within its phase and is not billed stutters.        *)
LEMMA StuttersAlong ==
  ASSUME TypeOK, UNCHANGED meter, NEW c \in Calls, NEW p,
         pc' = [pc EXCEPT ![c] = p], Phase(p) = Phase(pc[c])
  PROVE  ContractStep
<1>1. phases' = phases
  BY PhaseMoves DEF phases
<1> QED BY <1>1 DEF ContractStep, Contract!contractVars, phases

(* Any single action of the contract is a step of it.                      *)
LEMMA StepIsContractStep ==
  ASSUME NEW c \in Calls,
         \/ Contract!Call(c) \/ Contract!Reject(c) \/ Contract!Refuse(c)
         \/ Contract!Run(c) \/ Contract!Stop(c) \/ Contract!Return(c)
  PROVE  ContractStep
BY DEF ContractStep, Contract!ContractNext

(* The contract counts as the runtime does.                                *)
LEMMA SameCardinality ==
  ASSUME NEW S
  PROVE  Contract!Cardinality(S) = Cardinality(S)
BY Zenon DEF Contract!Cardinality, Cardinality

(* Whoever holds an admission and a slot may run: the accounts leave room. *)
LEMMA RoomToRun ==
  ASSUME IInv, NEW c \in Calls, pc[c] \in Awaiting, pc[c] # "running"
  PROVE  /\ Weight[c] <= MemoryBudget
         /\ Cardinality(Contract!MiB(Contract!Running \cup {c})) <= MemoryBudget
         /\ Cardinality({d \in Contract!Running : TenantOf[d] = TenantOf[c]})
              < MaxInFlightPerTenant
<1>t. TypeOK /\ SlotAccounting /\ AdmissionAccounting /\ AdmittedFit
  BY DEF IInv
<1>1. Weight[c] <= MemoryBudget
  BY <1>t DEF AdmittedFit, HoldsAdmission
<1>2. Contract!Running = {d \in Calls : pc[d] = "running"}
  BY PhaseOf DEF Contract!Running
<1>3. Cardinality(Contract!MiB(Contract!Running \cup {c})) <= MemoryBudget
  <2> DEFINE C == Contract!Running \cup {c}
  <2>1. C \in SUBSET Admitted
    BY <1>2 DEF Admitted, HoldsAdmission, Awaiting
  <2>2. Cardinality(Pages(C)) <= MemoryBudget
    BY <1>t, <2>1, GuestsWereAdmitted
  <2>3. Contract!MiB(C) = Pages(C)
    BY DEF Contract!MiB, Pages
  <2> HIDE DEF C
  <2>4. Cardinality(Contract!MiB(C)) <= MemoryBudget
    BY <2>2, <2>3, Zenon
  <2> QED BY <2>4 DEF C
<1>4. Cardinality({d \in Contract!Running : TenantOf[d] = TenantOf[c]})
        < MaxInFlightPerTenant
  <2> DEFINE t == TenantOf[c]
             R == {d \in Contract!Running : TenantOf[d] = t}
             others == SlotHolders(t) \ {c}
  <2>1. R \in SUBSET others /\ c \in SlotHolders(t)
    BY <1>2 DEF SlotHolders, HoldsSlot, HoldsAdmission, Awaiting
  <2>2. /\ IsFiniteSet(others)
        /\ Cardinality(others) = Cardinality(SlotHolders(t)) - 1
    BY <2>1, SlotHoldersFinite, FS_RemoveElement
  <2>3. /\ Cardinality(R) <= Cardinality(others)
        /\ Cardinality(R) \in Nat /\ Cardinality(others) \in Nat
    BY <2>1, <2>2, FS_Subset, FS_CardinalityType
  <2>4. /\ Cardinality(SlotHolders(t)) \in Nat /\ MaxInFlightPerTenant \in Nat
        /\ Cardinality(SlotHolders(t)) <= MaxInFlightPerTenant
    BY <1>t, SlotHoldersFinite, CallConstants, InvocationAssumption DEF SlotAccounting
  <2> HIDE DEF others, R
  <2>5. Cardinality(R) < MaxInFlightPerTenant
    BY <2>2, <2>3, <2>4
  <2> QED BY <2>5 DEF R
<1> QED BY <1>1, <1>3, <1>4

(* StartGuest is the contract's Run: slot and admission leave room for it. *)
LEMMA GuestStarts ==
  ASSUME IInv, NEW c \in Calls, pc[c] \in Awaiting, pc[c] # "running",
         StartGuest(c), UNCHANGED meter
  PROVE  ContractStep
<1>1. phases[c] = "pending" /\ phases' = [phases EXCEPT ![c] = "running"]
  <2>1. phases' = [phases EXCEPT ![c] = Phase("running")] /\ phases[c] = Phase(pc[c])
    BY PhaseMoves DEF StartGuest, IInv
  <2> QED BY <2>1, PhaseOf DEF Awaiting
<1>2. Contract!Run(c)
  <2>1. /\ Weight[c] <= MemoryBudget
        /\ Cardinality(Contract!MiB(Contract!Running \cup {c})) <= MemoryBudget
        /\ Cardinality({d \in Contract!Running : TenantOf[d] = TenantOf[c]})
             < MaxInFlightPerTenant
    BY RoomToRun
  <2>2. /\ Contract!Cardinality(Contract!MiB(Contract!Running \cup {c})) <= MemoryBudget
        /\ Contract!Cardinality({d \in Contract!Running : TenantOf[d] = TenantOf[c]})
             < MaxInFlightPerTenant
    BY <2>1, SameCardinality, Zenon
  <2> QED BY <1>1, <2>1, <2>2, Zenon DEF Contract!Run, phases
<1> QED BY <1>2, StepIsContractStep

(* Leaving before the guest started is the contract's Refuse.              *)
LEMMA CallRefused ==
  ASSUME TypeOK, NEW c \in Calls, pc[c] \in {"slotted", "lookup", "load", "permit", "recompile"},
         NEW p \in {"unadmit", "unslot"}, pc' = [pc EXCEPT ![c] = p], UNCHANGED meter
  PROVE  ContractStep
<1>1. phases[c] = "pending" /\ phases' = [phases EXCEPT ![c] = "settled"]
  <2>1. phases' = [phases EXCEPT ![c] = Phase(p)] /\ phases[c] = Phase(pc[c])
    BY PhaseMoves
  <2> QED BY <2>1, PhaseOf
<1>2. Contract!Refuse(c)
  BY <1>1 DEF Contract!Refuse, phases
<1> QED BY <1>2, StepIsContractStep

(* Leaving a running guest with one report is the contract's Stop.         *)
LEMMA GuestStops ==
  ASSUME TypeOK, NEW c \in Calls, pc[c] = "running", NEW r \in GuestResults \cup {"Cancelled"},
         pc' = [pc EXCEPT ![c] = "unadmit"], Record(c, r = "Ok")
  PROVE  ContractStep
<1>1. phases[c] = "running" /\ phases' = [phases EXCEPT ![c] = "settled"]
  <2>1. phases' = [phases EXCEPT ![c] = Phase("unadmit")] /\ phases[c] = Phase(pc[c])
    BY PhaseMoves
  <2> QED BY <2>1, PhaseOf
<1>2. Contract!Stop(c)
  BY <1>1 DEF Contract!Stop, Record, phases
<1> QED BY <1>2, StepIsContractStep

(* Every step of the runtime is a step of the contract or a stutter.       *)
LEMMA StepRefines ==
  ASSUME IInv, [Next]_vars
  PROVE  ContractStep
<1>t. TypeOK
  BY DEF IInv
<1>u. Calls \cap Stages = {} /\ Calls \subseteq Jobs /\ Stages \subseteq Jobs
  BY InvocationAssumption DEF Jobs
<1>f. ASSUME UNCHANGED meter, \A c \in Calls : pc'[c] = pc[c]
      PROVE  ContractStep
  BY <1>f, Stutters
<1>1. CASE StartTask
  BY <1>1, <1>f DEF StartTask, callVars
<1>2. CASE GrantPermit
  <2>1. PICK p \in {"stage", "recompile"} :
          /\ pc' = [pc EXCEPT ![Head(permitQ)] = p]
          /\ p = "stage" <=> Head(permitQ) \in Stages
    BY <1>2 DEF GrantPermit
  <2>2. Head(permitQ) \in Jobs /\ pc[Head(permitQ)] = "permit" /\ UNCHANGED meter
    BY <1>2, GrantedWaited DEF GrantPermit, callVars
  <2>3. CASE Head(permitQ) \in Stages
    BY <1>f, <1>t, <1>u, <2>1, <2>2, <2>3 DEF TypeOK
  <2>4. CASE Head(permitQ) \in Calls
    <3>1. p = "recompile"
      BY <1>u, <2>1, <2>4
    <3> QED BY <1>t, <2>1, <2>2, <2>4, <3>1, PhaseOf, StuttersAlong
  <2> QED BY <2>2, <2>3, <2>4 DEF Jobs
<1>3. ASSUME NEW x \in Jobs, DetachedTaskEnds(x)
      PROVE  ContractStep
  BY <1>3, <1>f DEF DetachedTaskEnds, callVars
<1>4. ASSUME NEW c \in Calls, Enter(c)
      PROVE  ContractStep
  <2>1. phases[c] = "idle" /\ phases' = [phases EXCEPT ![c] = "pending"]
    <3>1. /\ phases' = [phases EXCEPT ![c] = Phase("entered")]
          /\ phases[c] = Phase(pc[c])
      BY <1>4, <1>t, PhaseMoves DEF Enter
    <3> QED BY <1>4, <3>1, PhaseOf DEF Enter
  <2>2. Contract!Call(c)
    BY <1>4, <2>1 DEF Contract!Call, Enter, callVars, phases
  <2> QED BY <2>2, StepIsContractStep
<1>5. ASSUME NEW c \in Calls, AcquireSlot(c)
      PROVE  ContractStep
  <2>1. CASE ~SlotFree(TenantOf[c])
    <3>1. phases[c] = "pending" /\ phases' = [phases EXCEPT ![c] = "idle"]
      <4>1. /\ phases' = [phases EXCEPT ![c] = Phase("idle")]
            /\ phases[c] = Phase(pc[c])
        BY <1>5, <1>t, <2>1, PhaseMoves DEF AcquireSlot
      <4> QED BY <1>5, <4>1, PhaseOf DEF AcquireSlot
    <3>2. Contract!Reject(c)
      BY <1>5, <3>1 DEF Contract!Reject, AcquireSlot, callVars, phases
    <3> QED BY <3>2, StepIsContractStep
  <2>2. CASE SlotFree(TenantOf[c])
    BY <1>5, <1>t, <2>2, PhaseOf, StuttersAlong DEF AcquireSlot, callVars
  <2> QED BY <2>1, <2>2
<1>6. ASSUME NEW c \in Calls, Admit(c)
      PROVE  ContractStep
  <2>1. CASE ~Fits(c)
    BY <1>6, <1>t, <2>1, CallRefused DEF Admit
  <2>2. CASE Fits(c)
    BY <1>6, <1>t, <2>2, PhaseOf, StuttersAlong DEF Admit
  <2> QED BY <2>1, <2>2
<1>7. ASSUME NEW c \in Calls, LookupReturns(c)
      PROVE  ContractStep
  <2>1. CASE \E r \in {"NotFound", "Load"} : Leave(c, r)
    BY <1>7, <1>t, <2>1, CallRefused DEF LookupReturns, Leave
  <2>2. CASE StartGuest(c)
    BY <1>7, <2>2, GuestStarts DEF LookupReturns, Awaiting
  <2>3. CASE pc' = [pc EXCEPT ![c] = "load"]
    BY <1>7, <1>t, <2>3, PhaseOf, StuttersAlong DEF LookupReturns
  <2> QED BY <1>7, <2>1, <2>2, <2>3 DEF LookupReturns
<1>8. ASSUME NEW c \in Calls, LoadReturns(c)
      PROVE  ContractStep
  <2>1. CASE Leave(c, "Load")
    BY <1>8, <1>t, <2>1, CallRefused DEF LoadReturns, Leave
  <2>2. CASE StartGuest(c)
    BY <1>8, <2>2, GuestStarts DEF LoadReturns, Awaiting
  <2>3. CASE NeedsCompile(c)
    BY <1>8, <1>t, <2>3, PhaseOf, StuttersAlong DEF LoadReturns, NeedsCompile, AwaitPermit
  <2> QED BY <1>8, <2>1, <2>2, <2>3 DEF LoadReturns
<1>9. ASSUME NEW c \in Calls, RecompileReturns(c)
      PROVE  ContractStep
  <2>1. CASE Leave(c, "Load")
    BY <1>9, <1>t, <2>1, CallRefused DEF RecompileReturns, Leave
  <2>2. CASE StartGuest(c)
    BY <1>9, <2>2, GuestStarts DEF RecompileReturns, Awaiting
  <2> QED BY <1>9, <2>1, <2>2 DEF RecompileReturns
<1>10. ASSUME NEW c \in Calls, GuestReturns(c)
       PROVE  ContractStep
  BY <1>10, <1>t, GuestStops DEF GuestReturns, Leave
<1>11. ASSUME NEW c \in Calls, CancelCall(c)
       PROVE  ContractStep
  <2>1. CASE pc[c] = "running"
    <3>1. Record(c, "Cancelled" = "Ok")
      BY <1>11, <2>1 DEF CancelCall, DropMeterGuard, Record
    <3> QED BY <1>11, <1>t, <2>1, <3>1, GuestStops DEF CancelCall, Leave
  <2>2. CASE pc[c] # "running"
    BY <1>11, <1>t, <2>2, CallRefused DEF CancelCall, DropMeterGuard, Leave, Awaiting
  <2> QED BY <2>1, <2>2
<1>12. ASSUME NEW c \in Calls, DropAdmission(c)
       PROVE  ContractStep
  BY <1>12, <1>t, PhaseOf, StuttersAlong DEF DropAdmission, callVars
<1>13. ASSUME NEW c \in Calls, DropSlot(c)
       PROVE  ContractStep
  <2>1. phases[c] = "settled" /\ phases' = [phases EXCEPT ![c] = "idle"]
    <3>1. /\ phases' = [phases EXCEPT ![c] = Phase("idle")]
          /\ phases[c] = Phase(pc[c])
      BY <1>13, <1>t, PhaseMoves DEF DropSlot
    <3> QED BY <1>13, <3>1, PhaseOf DEF DropSlot
  <2>2. Contract!Return(c)
    BY <1>13, <2>1 DEF Contract!Return, DropSlot, phases
  <2> QED BY <2>2, StepIsContractStep
<1>14. ASSUME NEW s \in Stages, RequestStage(s)
       PROVE  ContractStep
  BY <1>14, <1>f, <1>t, <1>u DEF RequestStage, AwaitPermit, callVars, TypeOK
<1>15. ASSUME NEW s \in Stages, StageReturns(s)
       PROVE  ContractStep
  BY <1>15, <1>f, <1>t, <1>u DEF StageReturns, callVars, TypeOK
<1>16. ASSUME NEW s \in Stages, CancelStage(s)
       PROVE  ContractStep
  BY <1>16, <1>f, <1>t, <1>u DEF CancelStage, callVars, TypeOK
<1>17. CASE UNCHANGED vars
  BY <1>17, <1>f DEF vars, callVars
<1> QED
  BY <1>1, <1>2, <1>3, <1>4, <1>5, <1>6, <1>7, <1>8, <1>9, <1>10, <1>11, <1>12,
     <1>13, <1>14, <1>15, <1>16, <1>17 DEF Next, Proceed

(* Runtime::invoke keeps its contract: a guest starts only while its       *)
(* tenant is under its cap and the memory of all running guests stays      *)
(* within the budget, and a call is billed once, as its guest stops.       *)
THEOREM RuntimeImplementsContract == Spec => ImplementsContract
<1>1. Init => Contract!ContractInit
  <2> SUFFICES ASSUME Init
               PROVE  Contract!ContractInit
    OBVIOUS
  <2>1. \A c \in Calls : Phase(pc[c]) = "idle"
    BY PhaseOf DEF Init, Jobs
  <2> QED BY <2>1 DEF Init, Contract!ContractInit
<1>2. IInv /\ [Next]_vars => [Contract!ContractNext]_(Contract!contractVars)
  BY StepRefines DEF ContractStep
<1> QED BY <1>1, <1>2, Invariance, PTL
        DEF Spec, ImplementsContract, Contract!ContractSpec
=============================================================================
