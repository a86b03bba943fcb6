---------------------------- MODULE PublishProofs ---------------------------
(***************************************************************************)
(* The quota, the pointer files and refused uploads of publish_in_db, for  *)
(* any number of uploads and functions, any quota and any faults.          *)
(***************************************************************************)
EXTENDS Publish, FiniteSetTheorems, TLAPS

-----------------------------------------------------------------------------
(* Sessions are told apart by their task and by what they do.              *)
LEMMA SessionFacts ==
  /\ None \notin Uploads /\ None \notin Sessions
  /\ \A u \in Uploads :
       /\ FuncOf[u] \in Funcs
       /\ Publishing(u) \in Sessions /\ Reconciling(u) \in Sessions
       /\ Publishing(u) # None /\ Reconciling(u) # None
  /\ \A u, v \in Uploads :
       /\ Publishing(u) # Reconciling(v)
       /\ Publishing(u) = Publishing(v) => u = v
       /\ Reconciling(u) = Reconciling(v) => u = v
BY PublishAssumption DEF Sessions, Publishing, Reconciling

(* Every step keeps the types, and sessions without a client stay so.      *)
LEMMA TypeStep ==
  ASSUME TypeOK, [Next]_vars
  PROVE  TypeOK'
<1> USE SessionFacts DEF TypeOK, Goto, Settled, Abandoned, Ended, OpenSession, DropSession,
        CloseSession, ReleaseLock, GrantLock, CommitRow, dbVars
<1>1. ASSUME NEW u \in Uploads, Begin(u)
      PROVE  TypeOK'
  BY <1>1 DEF Begin
<1>2. ASSUME NEW u \in Uploads, PublishStep(u)
      PROVE  TypeOK'
  <2>1. CASE TakeLock(u)
    BY <2>1 DEF TakeLock
  <2>2. CASE StatementFails(u)
    BY <2>2 DEF StatementFails
  <2>3. CASE CheckQuota(u)
    BY <2>3 DEF CheckQuota
  <2>4. CASE Upsert(u)
    BY <2>4 DEF Upsert
  <2>5. CASE Activate(u)
    BY <2>5 DEF Activate
  <2>6. CASE CommitSucceeds(u)
    BY <2>6 DEF CommitSucceeds
  <2>7. CASE CommitUnheard(u)
    BY <2>7, PublishAssumption DEF CommitUnheard
  <2>8. CASE CommitFails(u)
    BY <2>8 DEF CommitFails
  <2> QED BY <1>2, <2>1, <2>2, <2>3, <2>4, <2>5, <2>6, <2>7, <2>8 DEF PublishStep
<1>3. ASSUME NEW u \in Uploads, ReconcileStep(u)
      PROVE  TypeOK'
  <2>1. CASE ReconcileBegin(u)
    BY <2>1 DEF ReconcileBegin
  <2>2. CASE ReconcileLock(u)
    BY <2>2 DEF ReconcileLock
  <2>3. CASE ReconcileRead(u)
    BY <2>3 DEF ReconcileRead
  <2>4. CASE ReconcileSettle(u)
    BY <2>4 DEF ReconcileSettle
  <2>5. CASE ReconcileCommit(u)
    BY <2>5 DEF ReconcileCommit
  <2>6. CASE ReconcileFails(u)
    BY <2>6 DEF ReconcileFails
  <2> QED BY <1>3, <2>1, <2>2, <2>3, <2>4, <2>5, <2>6 DEF ReconcileStep
<1>4. ASSUME NEW s \in Sessions, ServerAborts(s)
      PROVE  TypeOK'
  BY <1>4 DEF ServerAborts
<1>5. ASSUME NEW s \in Sessions, LoseConnection(s)
      PROVE  TypeOK'
  BY <1>5, PublishAssumption DEF LoseConnection
<1>6. CASE DeleteTenant
  BY <1>6 DEF DeleteTenant
<1>7. CASE Crash
  BY <1>7, PublishAssumption DEF Crash
<1>8. CASE UNCHANGED vars
  BY <1>8 DEF vars
<1> QED BY <1>1, <1>2, <1>3, <1>4, <1>5, <1>6, <1>7, <1>8 DEF Next

(* A live session past its lock keeps it: only its own commit or the      *)
(* server, once the client is gone, releases it.                           *)
LEMMA LockStep ==
  ASSUME TypeOK, LiveSessionHasLock, [Next]_vars
  PROVE  LiveSessionHasLock'
<1> USE SessionFacts DEF TypeOK, Goto, Settled, Abandoned, Ended, OpenSession, DropSession,
        CloseSession, ReleaseLock, GrantLock, CommitRow, dbVars, LiveSessionHasLock
<1>1. ASSUME NEW u \in Uploads, Begin(u)
      PROVE  LiveSessionHasLock'
  BY <1>1 DEF Begin
<1>2. ASSUME NEW u \in Uploads, PublishStep(u)
      PROVE  LiveSessionHasLock'
  <2>1. CASE TakeLock(u)
    BY <2>1 DEF TakeLock
  <2>2. CASE StatementFails(u)
    BY <2>2 DEF StatementFails
  <2>3. CASE CheckQuota(u)
    BY <2>3 DEF CheckQuota
  <2>4. CASE Upsert(u)
    BY <2>4 DEF Upsert
  <2>5. CASE Activate(u)
    BY <2>5 DEF Activate
  <2>6. CASE CommitSucceeds(u)
    BY <2>6 DEF CommitSucceeds
  <2>7. CASE CommitUnheard(u)
    BY <2>7 DEF CommitUnheard
  <2>8. CASE CommitFails(u)
    BY <2>8 DEF CommitFails
  <2> QED BY <1>2, <2>1, <2>2, <2>3, <2>4, <2>5, <2>6, <2>7, <2>8 DEF PublishStep
<1>3. ASSUME NEW u \in Uploads, ReconcileStep(u)
      PROVE  LiveSessionHasLock'
  <2>1. CASE ReconcileBegin(u)
    BY <2>1 DEF ReconcileBegin
  <2>2. CASE ReconcileLock(u)
    BY <2>2 DEF ReconcileLock
  <2>3. CASE ReconcileRead(u)
    BY <2>3 DEF ReconcileRead
  <2>4. CASE ReconcileSettle(u)
    BY <2>4 DEF ReconcileSettle
  <2>5. CASE ReconcileCommit(u)
    BY <2>5 DEF ReconcileCommit
  <2>6. CASE ReconcileFails(u)
    BY <2>6 DEF ReconcileFails
  <2> QED BY <1>3, <2>1, <2>2, <2>3, <2>4, <2>5, <2>6 DEF ReconcileStep
<1>4. ASSUME NEW s \in Sessions, ServerAborts(s)
      PROVE  LiveSessionHasLock'
  BY <1>4 DEF ServerAborts
<1>5. ASSUME NEW s \in Sessions, LoseConnection(s)
      PROVE  LiveSessionHasLock'
  BY <1>5 DEF LoseConnection
<1>6. CASE DeleteTenant
  BY <1>6 DEF DeleteTenant
<1>7. CASE Crash
  BY <1>7 DEF Crash
<1>8. CASE UNCHANGED vars
  BY <1>8 DEF vars
<1> QED BY <1>1, <1>2, <1>3, <1>4, <1>5, <1>6, <1>7, <1>8 DEF Next

-----------------------------------------------------------------------------
(* The quota.                                                              *)

Written == {f \in Funcs : rows[f] # None}

(* The rows of other functions are finitely many, and not more than all.   *)
LEMMA OthersFinite ==
  ASSUME FinitelyManyRows, NEW u \in Uploads
  PROVE  /\ IsFiniteSet(OtherFunctions(u))
         /\ Cardinality(OtherFunctions(u)) \in Nat
BY FS_Subset, FS_CardinalityType DEF FinitelyManyRows, OtherFunctions

(* A commit adds at most the row of its own function.                      *)
LEMMA RowCommitted ==
  ASSUME TypeOK, FinitelyManyRows, NEW u \in Uploads, UnderQuota(u),
         rows' = [rows EXCEPT ![FuncOf[u]] = u]
  PROVE  FinitelyManyRows' /\ QuotaHeld'
<1> DEFINE S == OtherFunctions(u)
           T == S \cup {FuncOf[u]}
<1>1. IsFiniteSet(S) /\ Cardinality(S) \in Nat /\ Cardinality(S) < MaxFunctions
  BY OthersFinite DEF UnderQuota
<1>2. FuncOf[u] \notin S
  BY DEF OtherFunctions
<1>3. Written' \in SUBSET T
  BY DEF Written, OtherFunctions, TypeOK
<1> HIDE DEF S
<1>4. IsFiniteSet(T) /\ Cardinality(T) = Cardinality(S) + 1
  BY <1>1, <1>2, FS_AddElement
<1> HIDE DEF T
<1>5. /\ IsFiniteSet(Written') /\ Cardinality(Written') <= Cardinality(T)
      /\ Cardinality(Written') \in Nat
  BY <1>3, <1>4, FS_Subset, FS_CardinalityType
<1> QED BY <1>1, <1>4, <1>5, PublishAssumption DEF FinitelyManyRows, QuotaHeld, Written

(* A deleted tenant has no rows, and a quota it was under admits some.     *)
LEMMA RowsDeleted ==
  ASSUME FinitelyManyRows, rows' = [f \in Funcs |-> None]
  PROVE  /\ FinitelyManyRows' /\ QuotaHeld'
         /\ \A u \in Uploads : UnderQuota(u) => UnderQuota(u)'
<1>1. Written' = {}
  BY DEF Written
<1>2. ASSUME NEW u \in Uploads, UnderQuota(u)
      PROVE  UnderQuota(u)'
  <2>1. OtherFunctions(u)' = {}
    BY DEF OtherFunctions
  <2>2. Cardinality(OtherFunctions(u)) \in Nat
    BY OthersFinite
  <2> QED BY <1>2, <2>1, <2>2, FS_EmptySet, PublishAssumption DEF UnderQuota
<1> QED BY <1>1, <1>2, FS_EmptySet, PublishAssumption DEF FinitelyManyRows, QuotaHeld, Written

(* Rows nobody wrote.                                                      *)
LEMMA RowsKept ==
  ASSUME FinitelyManyRows, QuotaHeld, UNCHANGED rows
  PROVE  /\ FinitelyManyRows' /\ QuotaHeld'
         /\ \A u \in Uploads : UnderQuota(u)' = UnderQuota(u)
BY DEF FinitelyManyRows, QuotaHeld, UnderQuota, OtherFunctions

(* The quota check stays true until the commit: whoever else could commit  *)
(* a row meanwhile would need the lock.                                    *)
LEMMA QuotaStep ==
  ASSUME TypeOK, LiveSessionHasLock, RoomUntilCommit, FinitelyManyRows, QuotaHeld, [Next]_vars
  PROVE  (RoomUntilCommit /\ FinitelyManyRows /\ QuotaHeld)'
<1> USE SessionFacts DEF TypeOK, Goto, Settled, Abandoned, Ended, OpenSession, DropSession,
        CloseSession, ReleaseLock, dbVars, LiveSessionHasLock, RoomUntilCommit
<1>1. ASSUME NEW u \in Uploads, Begin(u)
      PROVE  (RoomUntilCommit /\ FinitelyManyRows /\ QuotaHeld)'
  BY <1>1, RowsKept DEF Begin
<1>2. ASSUME NEW u \in Uploads, PublishStep(u)
      PROVE  (RoomUntilCommit /\ FinitelyManyRows /\ QuotaHeld)'
  <2>1. CASE TakeLock(u)
    BY <2>1, RowsKept DEF TakeLock
  <2>2. CASE StatementFails(u)
    BY <2>2, RowsKept DEF StatementFails
  <2>3. CASE CheckQuota(u)
    BY <2>3, RowsKept DEF CheckQuota
  <2>4. CASE Upsert(u)
    BY <2>4, RowsKept DEF Upsert
  <2>5. CASE Activate(u)
    BY <2>5, RowsKept DEF Activate
  <2>6. CASE CommitSucceeds(u)
    BY <2>6, RowCommitted DEF CommitSucceeds, CommitRow
  <2>7. CASE CommitUnheard(u)
    BY <2>7, RowCommitted DEF CommitUnheard, CommitRow
  <2>8. CASE CommitFails(u)
    BY <2>8, RowsKept DEF CommitFails
  <2> QED BY <1>2, <2>1, <2>2, <2>3, <2>4, <2>5, <2>6, <2>7, <2>8 DEF PublishStep
<1>3. ASSUME NEW u \in Uploads, ReconcileStep(u)
      PROVE  (RoomUntilCommit /\ FinitelyManyRows /\ QuotaHeld)'
  <2>1. CASE ReconcileBegin(u)
    BY <2>1, RowsKept DEF ReconcileBegin
  <2>2. CASE ReconcileLock(u)
    BY <2>2, RowsKept DEF ReconcileLock
  <2>3. CASE ReconcileRead(u)
    BY <2>3, RowsKept DEF ReconcileRead
  <2>4. CASE ReconcileSettle(u)
    BY <2>4, RowsKept DEF ReconcileSettle
  <2>5. CASE ReconcileCommit(u)
    BY <2>5, RowsKept DEF ReconcileCommit
  <2>6. CASE ReconcileFails(u)
    BY <2>6, RowsKept DEF ReconcileFails
  <2> QED BY <1>3, <2>1, <2>2, <2>3, <2>4, <2>5, <2>6 DEF ReconcileStep
<1>4. ASSUME NEW s \in Sessions, ServerAborts(s)
      PROVE  (RoomUntilCommit /\ FinitelyManyRows /\ QuotaHeld)'
  BY <1>4, RowsKept DEF ServerAborts
<1>5. ASSUME NEW s \in Sessions, LoseConnection(s)
      PROVE  (RoomUntilCommit /\ FinitelyManyRows /\ QuotaHeld)'
  BY <1>5, RowsKept DEF LoseConnection
<1>6. CASE DeleteTenant
  BY <1>6, RowsDeleted DEF DeleteTenant
<1>7. CASE Crash
  BY <1>7, RowsKept DEF Crash
<1>8. CASE UNCHANGED vars
  BY <1>8, RowsKept DEF vars
<1> QED BY <1>1, <1>2, <1>3, <1>4, <1>5, <1>6, <1>7, <1>8 DEF Next

-----------------------------------------------------------------------------
(* The pointer files.                                                      *)

(* No row changes between a reconciliation's read and the end of its       *)
(* session.                                                                *)
LEMMA ReadStep ==
  ASSUME TypeOK, LiveSessionHasLock, ReadIsCurrent, [Next]_vars
  PROVE  ReadIsCurrent'
<1> USE SessionFacts DEF TypeOK, Goto, Settled, Abandoned, Ended, OpenSession, DropSession,
        CloseSession, ReleaseLock, GrantLock, CommitRow, dbVars, LiveSessionHasLock, ReadIsCurrent
<1>1. ASSUME NEW u \in Uploads, Begin(u)
      PROVE  ReadIsCurrent'
  BY <1>1 DEF Begin
<1>2. ASSUME NEW u \in Uploads, PublishStep(u)
      PROVE  ReadIsCurrent'
  <2>1. CASE TakeLock(u)
    BY <2>1 DEF TakeLock
  <2>2. CASE StatementFails(u)
    BY <2>2 DEF StatementFails
  <2>3. CASE CheckQuota(u)
    BY <2>3 DEF CheckQuota
  <2>4. CASE Upsert(u)
    BY <2>4 DEF Upsert
  <2>5. CASE Activate(u)
    BY <2>5 DEF Activate
  <2>6. CASE CommitSucceeds(u)
    BY <2>6 DEF CommitSucceeds
  <2>7. CASE CommitUnheard(u)
    BY <2>7 DEF CommitUnheard
  <2>8. CASE CommitFails(u)
    BY <2>8 DEF CommitFails
  <2> QED BY <1>2, <2>1, <2>2, <2>3, <2>4, <2>5, <2>6, <2>7, <2>8 DEF PublishStep
<1>3. ASSUME NEW u \in Uploads, ReconcileStep(u)
      PROVE  ReadIsCurrent'
  <2>1. CASE ReconcileBegin(u)
    BY <2>1 DEF ReconcileBegin
  <2>2. CASE ReconcileLock(u)
    BY <2>2 DEF ReconcileLock
  <2>3. CASE ReconcileRead(u)
    BY <2>3 DEF ReconcileRead
  <2>4. CASE ReconcileSettle(u)
    BY <2>4 DEF ReconcileSettle
  <2>5. CASE ReconcileCommit(u)
    BY <2>5 DEF ReconcileCommit
  <2>6. CASE ReconcileFails(u)
    BY <2>6 DEF ReconcileFails
  <2> QED BY <1>3, <2>1, <2>2, <2>3, <2>4, <2>5, <2>6 DEF ReconcileStep
<1>4. ASSUME NEW s \in Sessions, ServerAborts(s)
      PROVE  ReadIsCurrent'
  BY <1>4 DEF ServerAborts
<1>5. ASSUME NEW s \in Sessions, LoseConnection(s)
      PROVE  ReadIsCurrent'
  BY <1>5 DEF LoseConnection
<1>6. CASE DeleteTenant
  BY <1>6 DEF DeleteTenant
<1>7. CASE Crash
  BY <1>7 DEF Crash
<1>8. CASE UNCHANGED vars
  BY <1>8 DEF vars
<1> QED BY <1>1, <1>2, <1>3, <1>4, <1>5, <1>6, <1>7, <1>8 DEF Next

(* Whoever leaves a pointer off its row owes it, until it is settled.      *)
LEMMA OwedStep ==
  ASSUME TypeOK, LiveSessionHasLock, ReadIsCurrent, Owed, [Next]_vars
  PROVE  Owed'
<1> USE SessionFacts DEF TypeOK, Goto, Settled, Abandoned, Ended, OpenSession, DropSession,
        CloseSession, ReleaseLock, GrantLock, CommitRow, dbVars, LiveSessionHasLock, ReadIsCurrent,
         NobodyAbandoned, Owes, Owed
<1>1. ASSUME NEW u \in Uploads, Begin(u)
      PROVE  Owed'
  BY <1>1 DEF Begin
<1>2. ASSUME NEW u \in Uploads, PublishStep(u)
      PROVE  Owed'
  <2>1. CASE TakeLock(u)
    BY <2>1 DEF TakeLock
  <2>2. CASE StatementFails(u)
    BY <2>2 DEF StatementFails
  <2>3. CASE CheckQuota(u)
    BY <2>3 DEF CheckQuota
  <2>4. CASE Upsert(u)
    BY <2>4 DEF Upsert
  <2>5. CASE Activate(u)
    BY <2>5 DEF Activate
  <2>6. CASE CommitSucceeds(u)
    BY <2>6 DEF CommitSucceeds
  <2>7. CASE CommitUnheard(u)
    BY <2>7 DEF CommitUnheard
  <2>8. CASE CommitFails(u)
    BY <2>8 DEF CommitFails
  <2> QED BY <1>2, <2>1, <2>2, <2>3, <2>4, <2>5, <2>6, <2>7, <2>8 DEF PublishStep
<1>3. ASSUME NEW u \in Uploads, ReconcileStep(u)
      PROVE  Owed'
  <2>1. CASE ReconcileBegin(u)
    BY <2>1 DEF ReconcileBegin
  <2>2. CASE ReconcileLock(u)
    BY <2>2 DEF ReconcileLock
  <2>3. CASE ReconcileRead(u)
    BY <2>3 DEF ReconcileRead
  <2>4. CASE ReconcileSettle(u)
    BY <2>4 DEF ReconcileSettle
  <2>5. CASE ReconcileCommit(u)
    BY <2>5 DEF ReconcileCommit
  <2>6. CASE ReconcileFails(u)
    BY <2>6 DEF ReconcileFails
  <2> QED BY <1>3, <2>1, <2>2, <2>3, <2>4, <2>5, <2>6 DEF ReconcileStep
<1>4. ASSUME NEW s \in Sessions, ServerAborts(s)
      PROVE  Owed'
  BY <1>4 DEF ServerAborts
<1>5. ASSUME NEW s \in Sessions, LoseConnection(s)
      PROVE  Owed'
  BY <1>5 DEF LoseConnection
<1>6. CASE DeleteTenant
  BY <1>6 DEF DeleteTenant
<1>7. CASE Crash
  BY <1>7 DEF Crash
<1>8. CASE UNCHANGED vars
  BY <1>8 DEF vars
<1> QED BY <1>1, <1>2, <1>3, <1>4, <1>5, <1>6, <1>7, <1>8 DEF Next

(* Only an admitted upload is ever written anywhere.                       *)
LEMMA TraceStep ==
  ASSUME TypeOK, NoTraceBeforeQuota, [Next]_vars
  PROVE  NoTraceBeforeQuota'
<1> USE SessionFacts DEF TypeOK, Goto, Settled, Abandoned, Ended, OpenSession, DropSession,
        CloseSession, ReleaseLock, GrantLock, CommitRow, dbVars, NoTraceBeforeQuota
<1>1. ASSUME NEW u \in Uploads, Begin(u)
      PROVE  NoTraceBeforeQuota'
  BY <1>1 DEF Begin
<1>2. ASSUME NEW u \in Uploads, PublishStep(u)
      PROVE  NoTraceBeforeQuota'
  <2>1. CASE TakeLock(u)
    BY <2>1 DEF TakeLock
  <2>2. CASE StatementFails(u)
    BY <2>2 DEF StatementFails
  <2>3. CASE CheckQuota(u)
    BY <2>3 DEF CheckQuota
  <2>4. CASE Upsert(u)
    BY <2>4 DEF Upsert
  <2>5. CASE Activate(u)
    BY <2>5 DEF Activate
  <2>6. CASE CommitSucceeds(u)
    BY <2>6 DEF CommitSucceeds
  <2>7. CASE CommitUnheard(u)
    BY <2>7 DEF CommitUnheard
  <2>8. CASE CommitFails(u)
    BY <2>8 DEF CommitFails
  <2> QED BY <1>2, <2>1, <2>2, <2>3, <2>4, <2>5, <2>6, <2>7, <2>8 DEF PublishStep
<1>3. ASSUME NEW u \in Uploads, ReconcileStep(u)
      PROVE  NoTraceBeforeQuota'
  <2>1. CASE ReconcileBegin(u)
    BY <2>1 DEF ReconcileBegin
  <2>2. CASE ReconcileLock(u)
    BY <2>2 DEF ReconcileLock
  <2>3. CASE ReconcileRead(u)
    BY <2>3 DEF ReconcileRead
  <2>4. CASE ReconcileSettle(u)
    BY <2>4 DEF ReconcileSettle
  <2>5. CASE ReconcileCommit(u)
    BY <2>5 DEF ReconcileCommit
  <2>6. CASE ReconcileFails(u)
    BY <2>6 DEF ReconcileFails
  <2> QED BY <1>3, <2>1, <2>2, <2>3, <2>4, <2>5, <2>6 DEF ReconcileStep
<1>4. ASSUME NEW s \in Sessions, ServerAborts(s)
      PROVE  NoTraceBeforeQuota'
  BY <1>4 DEF ServerAborts
<1>5. ASSUME NEW s \in Sessions, LoseConnection(s)
      PROVE  NoTraceBeforeQuota'
  BY <1>5 DEF LoseConnection
<1>6. CASE DeleteTenant
  BY <1>6 DEF DeleteTenant
<1>7. CASE Crash
  BY <1>7 DEF Crash
<1>8. CASE UNCHANGED vars
  BY <1>8 DEF vars
<1> QED BY <1>1, <1>2, <1>3, <1>4, <1>5, <1>6, <1>7, <1>8 DEF Next

-----------------------------------------------------------------------------
(* The theorems.                                                           *)

LEMMA InitIInv == Init => IInv
<1> SUFFICES ASSUME Init
             PROVE  IInv
  OBVIOUS
<1> USE SessionFacts DEF Init
<1>1. TypeOK
  BY PublishAssumption DEF TypeOK, Settled
<1>2. FinitelyManyRows /\ QuotaHeld
  <2>1. Written = {}
    BY DEF Written
  <2> QED BY <2>1, FS_EmptySet, PublishAssumption DEF FinitelyManyRows, QuotaHeld, Written
<1>3. LiveSessionHasLock /\ RoomUntilCommit
  BY DEF LiveSessionHasLock, RoomUntilCommit
<1>4. Owed /\ ReadIsCurrent /\ NoTraceBeforeQuota
  BY DEF Owed, ReadIsCurrent, NoTraceBeforeQuota
<1> QED BY <1>1, <1>2, <1>3, <1>4 DEF IInv

LEMMA StepIInv == IInv /\ [Next]_vars => IInv'
BY TypeStep, LockStep, QuotaStep, ReadStep, OwedStep, TraceStep DEF IInv

LEMMA Invariance == Spec => []IInv
BY InitIInv, StepIInv, PTL DEF Spec

(* The variables of every publish keep their types, and only an open       *)
(* session is tied to a client.                                            *)
THEOREM PublishTypeCorrect == Spec => []TypeOK
<1>1. IInv => TypeOK
  BY DEF IInv
<1> QED BY <1>1, Invariance, PTL

(* The committed rows of a tenant never exceed its quota, however many     *)
(* uploads race and whatever connections they lose.                        *)
THEOREM QuotaNeverExceeded == Spec => []QuotaHeld
<1>1. IInv => QuotaHeld
  BY DEF IInv
<1> QED BY <1>1, Invariance, PTL

(* Whenever no upload is in flight, none crashed and none gave up its      *)
(* reconciliation, every pointer file says what its row says.              *)
THEOREM PointersSettle == Spec => []SettledPointerMatchesRow
<1>1. IInv => SettledPointerMatchesRow
  <2> SUFFICES ASSUME IInv, tenant, \A u \in Uploads : pc[u] \in Settled
               PROVE  pointer = rows
    BY DEF SettledPointerMatchesRow
  <2>1. NobodyAbandoned /\ \A u \in Uploads : ~Owes(u)
    BY DEF NobodyAbandoned, Owes, Settled, Abandoned
  <2>2. \A f \in Funcs : pointer[f] = rows[f]
    BY <2>1 DEF IInv, Owed
  <2> QED BY <2>2 DEF IInv, TypeOK
<1> QED BY <1>1, Invariance, PTL

(* The digest of an upload that was refused with 403 or 401 is never in a  *)
(* pointer file.                                                           *)
THEOREM RefusedUploadsLeaveNoTrace == Spec => []RefusedNeverServed
<1>1. IInv => RefusedNeverServed
  BY DEF IInv, NoTraceBeforeQuota, RefusedNeverServed
<1> QED BY <1>1, Invariance, PTL

-----------------------------------------------------------------------------
(* The next upload repairs.                                                *)

Alone(u) == \A v \in Uploads \ {u} : pc[v] \in Ended

Repairs(u) ==
  /\ Alone(u)
  /\ pc[u] = "commit" => pointer[FuncOf[u]] = u
  /\ pc[u] = "done" /\ tenant => pointer[FuncOf[u]] = rows[FuncOf[u]]

(* With every other upload at its end, the pointer is the upload's own     *)
(* from its activation to its commit, and nobody writes it afterwards.     *)
LEMMA RepairStep ==
  ASSUME NEW u \in Uploads, TypeOK, Repairs(u), [Next]_vars
  PROVE  Repairs(u)'
<1> USE SessionFacts DEF TypeOK, Goto, Settled, Abandoned, Ended, Alone, Repairs, dbVars
<1>1. ASSUME NEW v \in Uploads, Begin(v) \/ PublishStep(v) \/ ReconcileStep(v)
      PROVE  Repairs(u)'
  <2>1. v = u
    BY <1>1 DEF Begin, PublishStep, ReconcileStep, TakeLock, StatementFails, CheckQuota,
       Upsert, Activate, CommitSucceeds, CommitUnheard, CommitFails, ReconcileBegin,
       ReconcileLock, ReconcileRead, ReconcileSettle, ReconcileCommit, ReconcileFails
  <2>2. CASE Begin(u) \/ TakeLock(u) \/ StatementFails(u) \/ CheckQuota(u) \/ Upsert(u)
    BY <2>2 DEF Begin, TakeLock, StatementFails, CheckQuota, Upsert
  <2>3. CASE Activate(u)
    BY <2>3 DEF Activate
  <2>4. CASE CommitSucceeds(u) \/ CommitUnheard(u) \/ CommitFails(u)
    BY <2>4 DEF CommitSucceeds, CommitUnheard, CommitFails, CommitRow
  <2>5. CASE ReconcileStep(u)
    BY <2>5 DEF ReconcileStep, ReconcileBegin, ReconcileLock, ReconcileRead, ReconcileSettle,
       ReconcileCommit, ReconcileFails
  <2> QED BY <1>1, <2>1, <2>2, <2>3, <2>4, <2>5 DEF PublishStep
<1>2. ASSUME NEW s \in Sessions, ServerAborts(s) \/ LoseConnection(s)
      PROVE  Repairs(u)'
  BY <1>2 DEF ServerAborts, LoseConnection
<1>3. CASE DeleteTenant
  BY <1>3 DEF DeleteTenant
<1>4. CASE Crash
  BY <1>4 DEF Crash
<1>5. CASE UNCHANGED vars
  BY <1>5 DEF vars
<1> QED BY <1>1, <1>2, <1>3, <1>4, <1>5 DEF Next

(* Whatever a crash or an abandoned reconciliation left behind, an upload  *)
(* that starts when all others have ended and is acknowledged leaves       *)
(* pointer and row of its function equal.                                  *)
THEOREM NextUploadHeals == Spec => NextUploadRepairs
<1>1. ASSUME NEW u \in Uploads
      PROVE  Spec => [](pc[u] = "start" /\ Alone(u)
                => [](pc[u] = "done" /\ tenant =>
                        pointer[FuncOf[u]] = rows[FuncOf[u]]))
  <2>1. TypeOK /\ Repairs(u) /\ [Next]_vars => Repairs(u)'
    BY RepairStep
  <2>2. pc[u] = "start" /\ Alone(u) => Repairs(u)
    BY DEF Repairs
  <2>3. Repairs(u) => (pc[u] = "done" /\ tenant => pointer[FuncOf[u]] = rows[FuncOf[u]])
    BY DEF Repairs
  <2> QED BY <2>1, <2>2, <2>3, PublishTypeCorrect, PTL DEF Spec
<1> QED BY <1>1 DEF NextUploadRepairs, Alone
=============================================================================
