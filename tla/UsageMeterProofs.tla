-------------------------- MODULE UsageMeterProofs --------------------------
(***************************************************************************)
(* Nothing recorded is lost silently by PgMeter, for any number of rows,   *)
(* any channel, any batch size and any number of attempts.                 *)
(***************************************************************************)
EXTENDS UsageMeter, FiniteSetTheorems, SequenceTheorems, TLAPS

-----------------------------------------------------------------------------
(* Channel and batch.                                                      *)

LEMMA Elements ==
  ASSUME NEW S, NEW s \in Seq(S)
  PROVE  /\ DOMAIN s = 1..Len(s) /\ Len(s) \in Nat
         /\ ToSet(s) = {s[i] : i \in 1..Len(s)}
         /\ ToSet(s) \subseteq S
         /\ IsInjective(s) <=> \A i, j \in 1..Len(s) : s[i] = s[j] => i = j
<1>1. DOMAIN s = 1..Len(s) /\ Len(s) \in Nat /\ s \in [1..Len(s) -> S]
  BY LenProperties
<1> QED BY <1>1 DEF ToSet, IsInjective

(* Two sequences list no row twice when neither does and they share none.  *)
LEMMA InjectiveConcat ==
  ASSUME NEW S, NEW s \in Seq(S), NEW t \in Seq(S)
  PROVE  IsInjective(s \o t) <=>
           IsInjective(s) /\ IsInjective(t) /\ ToSet(s) \cap ToSet(t) = {}
<1> DEFINE m == Len(s)
           n == Len(t)
           c == s \o t
<1>1. /\ m \in Nat /\ n \in Nat
      /\ ToSet(s) = {s[i] : i \in 1..m} /\ ToSet(t) = {t[i] : i \in 1..n}
      /\ IsInjective(s) <=> \A i, j \in 1..m : s[i] = s[j] => i = j
      /\ IsInjective(t) <=> \A i, j \in 1..n : t[i] = t[j] => i = j
  BY Elements
<1>2. c \in Seq(S) /\ Len(c) = m + n
  BY ConcatProperties
<1>3. /\ \A i \in 1..m : c[i] = s[i]
      /\ \A j \in 1..n : c[m + j] = t[j]
  <2>1. \A i \in 1..(m + n) : c[i] = IF i <= m THEN s[i] ELSE t[i - m]
    BY ConcatProperties
  <2> HIDE DEF c, m, n
  <2>2. ASSUME NEW i \in 1..m
        PROVE  c[i] = s[i]
    <3>1. i \in 1..(m + n) /\ i <= m
      BY <1>1
    <3> QED BY <2>1, <3>1
  <2>3. ASSUME NEW j \in 1..n
        PROVE  c[m + j] = t[j]
    <3>1. m + j \in 1..(m + n) /\ ~(m + j <= m) /\ (m + j) - m = j
      BY <1>1
    <3>2. c[m + j] = t[(m + j) - m]
      BY <2>1, <3>1
    <3> QED BY <3>1, <3>2
  <2> QED BY <2>2, <2>3
<1>4. IsInjective(c) <=> \A i, j \in 1..(m + n) : c[i] = c[j] => i = j
  BY <1>2, Elements
<1> HIDE DEF c, m, n
<1>5. ASSUME IsInjective(c)
      PROVE  IsInjective(s) /\ IsInjective(t) /\ ToSet(s) \cap ToSet(t) = {}
  <2>1. IsInjective(s)
    BY <1>1, <1>3, <1>4, <1>5
  <2>2. IsInjective(t)
    <3> SUFFICES ASSUME NEW i \in 1..n, NEW j \in 1..n, t[i] = t[j]
                 PROVE  i = j
      BY <1>1
    <3>1. m + i \in 1..(m + n) /\ m + j \in 1..(m + n) /\ c[m + i] = c[m + j]
      BY <1>1, <1>3
    <3>2. m + i = m + j
      BY <1>4, <1>5, <3>1
    <3> QED BY <1>1, <3>2
  <2>3. ASSUME NEW i \in 1..m, NEW j \in 1..n, s[i] = t[j]
        PROVE  FALSE
    <3>1. i \in 1..(m + n) /\ m + j \in 1..(m + n) /\ i # m + j /\ c[i] = c[m + j]
      BY <1>1, <1>3, <2>3
    <3> QED BY <1>4, <1>5, <3>1
  <2> QED BY <1>1, <2>1, <2>2, <2>3
<1>6. ASSUME IsInjective(s), IsInjective(t), ToSet(s) \cap ToSet(t) = {}
      PROVE  IsInjective(c)
  <2> SUFFICES ASSUME NEW i \in 1..(m + n), NEW j \in 1..(m + n), c[i] = c[j]
               PROVE  i = j
    BY <1>4
  <2>1. \A k \in 1..(m + n) : k \in 1..m \/ (k - m \in 1..n /\ m + (k - m) = k)
    BY <1>1
  <2>2. \A k \in 1..m : c[k] \in ToSet(s)
    BY <1>1, <1>3
  <2>3. \A k \in 1..n : c[m + k] \in ToSet(t)
    BY ZenonT(60), <1>1, <1>3
  <2>4. CASE i \in 1..m /\ j \in 1..m
    BY <1>1, <1>3, <1>6, <2>4
  <2>5. ~(i \in 1..m /\ j \notin 1..m) /\ ~(i \notin 1..m /\ j \in 1..m)
    BY <1>6, <2>1, <2>2, <2>3
  <2>6. CASE i \notin 1..m /\ j \notin 1..m
    <3>1. t[i - m] = t[j - m] /\ i - m \in 1..n /\ j - m \in 1..n
      BY <1>3, <2>1, <2>6
    <3>2. i - m = j - m
      BY <1>1, <1>6, <3>1
    <3> QED BY <1>1, <3>2
  <2> QED BY <2>4, <2>5, <2>6, Zenon
<1> QED BY <1>5, <1>6 DEF c

LEMMA Appended ==
  ASSUME NEW S, NEW s \in Seq(S), NEW x \in S
  PROVE  /\ Append(s, x) \in Seq(S)
         /\ Len(Append(s, x)) = Len(s) + 1
         /\ ToSet(Append(s, x)) = ToSet(s) \cup {x}
         /\ IsInjective(s) /\ x \notin ToSet(s) => IsInjective(Append(s, x))
<1> DEFINE t == Append(s, x)
<1>1. /\ t \in Seq(S) /\ Len(t) = Len(s) + 1
      /\ \A i \in 1..Len(s) : t[i] = s[i]
      /\ t[Len(s) + 1] = x
  BY AppendProperties
<1> HIDE DEF t
<1>2. /\ Len(s) \in Nat /\ ToSet(s) = {s[i] : i \in 1..Len(s)}
      /\ IsInjective(s) <=> \A i, j \in 1..Len(s) : s[i] = s[j] => i = j
  BY Elements
<1>3. /\ ToSet(t) = {t[i] : i \in 1..Len(t)}
      /\ IsInjective(t) <=> \A i, j \in 1..Len(t) : t[i] = t[j] => i = j
  BY <1>1, Elements
<1>4. \A i \in 1..Len(t) : i \in 1..Len(s) \/ i = Len(s) + 1
  BY <1>1, <1>2
<1>5. ToSet(t) = ToSet(s) \cup {x}
  <2>1. 1..Len(s) \subseteq 1..Len(t) /\ Len(s) + 1 \in 1..Len(t)
    BY <1>1, <1>2
  <2> QED BY <1>1, <1>2, <1>3, <1>4, <2>1
<1>6. ASSUME IsInjective(s), x \notin ToSet(s)
      PROVE  IsInjective(t)
  <2> SUFFICES ASSUME NEW i \in 1..Len(t), NEW j \in 1..Len(t), t[i] = t[j]
               PROVE  i = j
    BY <1>3
  <2> QED BY <1>1, <1>2, <1>4, <1>6
<1> QED BY <1>1, <1>5, <1>6 DEF t

LEMMA HeadRemoved ==
  ASSUME NEW S, NEW s \in Seq(S), s # <<>>, IsInjective(s)
  PROVE  /\ Head(s) \in S /\ Head(s) \in ToSet(s)
         /\ Tail(s) \in Seq(S) /\ Len(Tail(s)) = Len(s) - 1
         /\ ToSet(Tail(s)) = ToSet(s) \ {Head(s)}
         /\ IsInjective(Tail(s))
<1> DEFINE t == Tail(s)
<1>1. /\ t \in Seq(S) /\ Len(t) = Len(s) - 1
      /\ \A i \in 1..Len(t) : t[i] = s[i + 1]
      /\ Head(s) \in S
  BY HeadTailProperties
<1>2. Len(s) \in Nat \ {0} /\ Head(s) = s[1]
  BY EmptySeq
<1> HIDE DEF t
<1>3. /\ ToSet(s) = {s[i] : i \in 1..Len(s)}
      /\ \A i, j \in 1..Len(s) : s[i] = s[j] => i = j
  BY Elements
<1>4. /\ ToSet(t) = {t[i] : i \in 1..Len(t)}
      /\ IsInjective(t) <=> \A i, j \in 1..Len(t) : t[i] = t[j] => i = j
  BY <1>1, Elements
<1>5. 1 \in 1..Len(s) /\ \A i \in 1..Len(t) : i + 1 \in 1..Len(s) /\ i + 1 # 1
  BY <1>1, <1>2
<1>6. \A i \in 1..Len(s) : i = 1 \/ (i - 1 \in 1..Len(t) /\ (i - 1) + 1 = i)
  BY <1>1, <1>2
<1>7. ToSet(t) = ToSet(s) \ {s[1]}
  <2>1. ASSUME NEW i \in 1..Len(t)
        PROVE  t[i] \in ToSet(s) \ {s[1]}
    BY <1>1, <1>3, <1>5
  <2>2. ASSUME NEW y \in ToSet(s) \ {s[1]}
        PROVE  \E i \in 1..Len(t) : t[i] = y
    <3>1. PICK i \in 1..Len(s) : s[i] = y
      BY <1>3
    <3> QED BY <1>1, <1>6, <3>1
  <2> QED BY <1>4, <2>1, <2>2
<1>8. IsInjective(t)
  <2> SUFFICES ASSUME NEW i \in 1..Len(t), NEW j \in 1..Len(t), t[i] = t[j]
               PROVE  i = j
    BY <1>4
  <2>1. i + 1 = j + 1
    BY <1>1, <1>3, <1>5
  <2> QED BY <2>1
<1> QED BY <1>1, <1>2, <1>3, <1>5, <1>7, <1>8 DEF t

-----------------------------------------------------------------------------
(* What a step does to channel and batch.                                  *)

Types ==
  /\ sender \in [Rows -> {"new", "permitted", "sent", "refused"}]
  /\ queue \in Seq(Rows) /\ batch \in Seq(Rows)
  /\ Len(batch) <= BatchMax
  /\ closed \in BOOLEAN /\ stopping \in BOOLEAN
  /\ writer \in {"idle", "fill", "write", "done", "killed"}
  /\ attempt \in 0..(Attempts - 1)
  /\ inDoubt \subseteq (SUBSET Rows) \X (0..(Attempts - 1))
  /\ stored \in [Rows -> Nat]
  /\ counted \subseteq Rows
  /\ handle \in {"running", "waiting", "joined", "abandoned", "released"}
  /\ before \subseteq Rows

Apart == IsInjective(queue \o batch)

LEMMA EmptySequence ==
  ASSUME NEW s \in Seq(Rows), Len(s) = 0
  PROVE  ToSet(s) = {} /\ IsInjective(s)
<1>1. 1..Len(s) = {}
  OBVIOUS
<1>2. ToSet(s) = {s[i] : i \in 1..Len(s)}
  BY Elements
<1>3. IsInjective(s) <=> \A i, j \in 1..Len(s) : s[i] = s[j] => i = j
  BY Elements
<1> HIDE DEF ToSet
<1> QED BY <1>1, <1>2, <1>3

(* The server counts one INSERT of some rows.                              *)
LEMMA Stored ==
  ASSUME stored \in [Rows -> Nat], NEW S, Store(S)
  PROVE  /\ stored' \in [Rows -> Nat]
         /\ \A r \in Rows : stored'[r] = stored[r] + (IF r \in S THEN 1 ELSE 0)
BY DEF Store

(* A row moves from the channel to the batch.                              *)
LEMMA Received ==
  ASSUME queue \in Seq(Rows), batch \in Seq(Rows), Apart, queue # <<>>,
         queue' = Tail(queue), batch' = Append(batch, Head(queue))
  PROVE  /\ Apart'
         /\ queue' \in Seq(Rows) /\ Len(queue') = Len(queue) - 1
         /\ batch' \in Seq(Rows) /\ Len(batch') = Len(batch) + 1
         /\ Head(queue) \in Rows \cap ToSet(queue) /\ Head(queue) \notin ToSet(batch)
         /\ ToSet(queue') = ToSet(queue) \ {Head(queue)}
         /\ ToSet(batch') = ToSet(batch) \cup {Head(queue)}
<1>1. IsInjective(queue) /\ IsInjective(batch) /\ ToSet(queue) \cap ToSet(batch) = {}
  BY InjectiveConcat DEF Apart
<1>2. /\ Head(queue) \in Rows /\ Head(queue) \in ToSet(queue)
      /\ queue' \in Seq(Rows) /\ Len(queue') = Len(queue) - 1
      /\ ToSet(queue') = ToSet(queue) \ {Head(queue)}
      /\ IsInjective(queue')
  BY <1>1, HeadRemoved
<1>3. Head(queue) \notin ToSet(batch)
  BY <1>1, <1>2
<1>4. /\ batch' \in Seq(Rows) /\ Len(batch') = Len(batch) + 1
      /\ ToSet(batch') = ToSet(batch) \cup {Head(queue)}
      /\ IsInjective(batch')
  BY <1>1, <1>2, <1>3, Appended
<1>5. ToSet(queue') \cap ToSet(batch') = {}
  BY <1>1, <1>2, <1>4
<1>6. Apart'
  BY <1>2, <1>4, <1>5, InjectiveConcat DEF Apart
<1> QED BY <1>2, <1>3, <1>4, <1>6

LEMMA FirstReceived ==
  ASSUME queue \in Seq(Rows), batch = <<>>, Apart, queue # <<>>,
         queue' = Tail(queue), batch' = <<Head(queue)>>
  PROVE  /\ Apart'
         /\ queue' \in Seq(Rows) /\ Len(queue') = Len(queue) - 1
         /\ batch' \in Seq(Rows) /\ Len(batch') = 1
         /\ Head(queue) \in Rows \cap ToSet(queue)
         /\ ToSet(queue') = ToSet(queue) \ {Head(queue)}
         /\ ToSet(batch') = {Head(queue)}
<1>1. batch' = Append(batch, Head(queue))
  OBVIOUS
<1>2. batch \in Seq(Rows) /\ Len(batch) = 0
  BY EmptySeq
<1>3. ToSet(batch) = {}
  BY <1>2, EmptySequence
<1> QED BY <1>1, <1>2, <1>3, Received

(* A row in flight is linked in.                                           *)
LEMMA Linked ==
  ASSUME queue \in Seq(Rows), batch \in Seq(Rows), Apart, NEW r \in Rows,
         r \notin ToSet(queue) \cup ToSet(batch),
         queue' = Append(queue, r), batch' = batch
  PROVE  /\ Apart'
         /\ queue' \in Seq(Rows) /\ Len(queue') = Len(queue) + 1
         /\ ToSet(queue') = ToSet(queue) \cup {r}
<1>1. IsInjective(queue) /\ IsInjective(batch) /\ ToSet(queue) \cap ToSet(batch) = {}
  BY InjectiveConcat DEF Apart
<1>2. /\ queue' \in Seq(Rows) /\ Len(queue') = Len(queue) + 1
      /\ ToSet(queue') = ToSet(queue) \cup {r}
      /\ IsInjective(queue')
  BY <1>1, Appended
<1>3. ToSet(queue') \cap ToSet(batch) = {}
  BY <1>1, <1>2
<1>4. IsInjective(queue' \o batch)
  BY <1>1, <1>2, <1>3, InjectiveConcat
<1> QED BY <1>2, <1>4 DEF Apart

(* The batch is stored or given up.                                        *)
LEMMA Emptied ==
  ASSUME queue \in Seq(Rows), batch \in Seq(Rows), Apart,
         queue' = queue, batch' = <<>>
  PROVE  /\ Apart' /\ batch' \in Seq(Rows) /\ Len(batch') = 0 /\ ToSet(batch') = {}
<1>1. IsInjective(queue)
  BY InjectiveConcat DEF Apart
<1>2. batch' \in Seq(Rows) /\ Len(batch') = 0
  BY EmptySeq
<1>3. ToSet(batch') = {} /\ IsInjective(batch')
  BY <1>2, EmptySequence
<1>4. IsInjective(queue \o batch')
  BY <1>1, <1>2, <1>3, InjectiveConcat
<1> QED BY <1>2, <1>3, <1>4 DEF Apart

(* What is in the pipeline has been sent.                                  *)
LEMMA NotInPipeline ==
  ASSUME PipelineWasSent, NEW r, sender[r] # "sent"
  PROVE  r \notin ToSet(queue) \cup ToSet(batch)
BY DEF PipelineWasSent

(* Types, and who is in the pipeline.                                      *)
LEMMA PipelineStep ==
  ASSUME Types, Apart, PipelineWasSent, BatchIsBeingWritten, [Next]_vars
  PROVE  (Types /\ Apart /\ PipelineWasSent /\ BatchIsBeingWritten)'
<1> USE DEF Types, PipelineWasSent, BatchIsBeingWritten, chanVars, dbVars, ownerVars
<1>t. /\ BatchMax \in Nat \ {0} /\ Attempts \in Nat \ {0}
      /\ ToSet(batch) \subseteq Rows /\ Len(batch) \in Nat
  BY MeterAssumption, Elements
<1>1. ASSUME NEW r \in Rows, Refuse(r)
      PROVE  (Types /\ Apart /\ PipelineWasSent /\ BatchIsBeingWritten)'
  BY <1>1, <1>t DEF Refuse, Apart
<1>2. ASSUME NEW r \in Rows, TakePermit(r)
      PROVE  (Types /\ Apart /\ PipelineWasSent /\ BatchIsBeingWritten)'
  BY <1>2, <1>t DEF TakePermit, Apart
<1>3. ASSUME NEW r \in Rows, Link(r)
      PROVE  (Types /\ Apart /\ PipelineWasSent /\ BatchIsBeingWritten)'
  BY <1>3, Linked, NotInPipeline DEF Link, Apart
<1>4. CASE ReceiveFirst
  <2>1. /\ Apart' /\ queue' \in Seq(Rows) /\ batch' \in Seq(Rows) /\ Len(batch') = 1
        /\ ToSet(queue') \subseteq ToSet(queue) /\ ToSet(batch') \subseteq ToSet(queue)
    BY <1>4, FirstReceived DEF ReceiveFirst
  <2>2. Types'
    BY <1>4, <1>t, <2>1 DEF ReceiveFirst
  <2>3. PipelineWasSent'
    BY <1>4, <2>1 DEF ReceiveFirst
  <2>4. BatchIsBeingWritten'
    BY <1>4 DEF ReceiveFirst
  <2> QED BY <2>1, <2>2, <2>3, <2>4
<1>5. CASE SeeStop
  BY <1>5, <1>t DEF SeeStop, Apart
<1>6. CASE Finish
  BY <1>6, <1>t DEF Finish, Apart
<1>7. CASE ReceiveMore
  BY <1>7, <1>t, Received DEF ReceiveMore
<1>8. CASE Full
  BY <1>8, <1>t DEF Full, Apart
<1>9. CASE Insert
  BY <1>9, <1>t, Emptied, Stored DEF Insert, NextBatch
<1>10. CASE AttemptFails
  <2>1. CASE /\ attempt + 1 < Attempts /\ attempt' = attempt + 1
             /\ UNCHANGED <<writer, batch, counted>>
    BY <1>10, <1>t, <2>1 DEF AttemptFails, Apart
  <2>2. CASE attempt + 1 = Attempts /\ CountBatch /\ NextBatch
    BY <1>10, <1>t, <2>2, Emptied DEF AttemptFails, CountBatch, NextBatch
  <2> QED BY <1>10, <2>1, <2>2 DEF AttemptFails, GiveUp
<1>11. ASSUME NEW i \in inDoubt, Decide(i)
       PROVE  (Types /\ Apart /\ PipelineWasSent /\ BatchIsBeingWritten)'
  <2>1. stored' \in [Rows -> Nat]
    BY <1>11, Stored DEF Decide
  <2> QED BY <1>11, <1>t, <2>1 DEF Decide, Apart
<1>12. CASE Shutdown
  BY <1>12 DEF Shutdown, Returned, Apart
<1>13. CASE Release
  BY <1>13 DEF Release, Returned, Apart
<1>14. CASE Joined
  BY <1>14, <1>t DEF Joined, Apart
<1>15. CASE Deadline
  BY <1>15, <1>t DEF Deadline, Apart
<1>16. CASE Exit
  BY <1>16, <1>t DEF Exit, Apart
<1>17. CASE UNCHANGED vars
  BY <1>17, <1>t DEF vars, Apart
<1> QED
  BY <1>1, <1>2, <1>3, <1>4, <1>5, <1>6, <1>7, <1>8, <1>9, <1>10, <1>11, <1>12,
     <1>13, <1>14, <1>15, <1>16, <1>17 DEF Next, Writer

-----------------------------------------------------------------------------
(* The permits of the channel.                                             *)

PermitsFit == Permits \in 0..Capacity

LEMMA FlightFinite ==
  IsFiniteSet(InFlight) /\ Cardinality(InFlight) \in Nat
BY MeterAssumption, FS_Subset, FS_CardinalityType DEF InFlight

LEMMA PermitsKept ==
  ASSUME PermitsFit, UNCHANGED sender, Len(queue') = Len(queue)
  PROVE  PermitsFit'
BY DEF PermitsFit, Permits, InFlight

LEMMA PermitReturned ==
  ASSUME PermitsFit, UNCHANGED sender, queue' \in Seq(Rows), queue \in Seq(Rows),
         Len(queue') = Len(queue) - 1
  PROVE  PermitsFit'
<1>1. InFlight' = InFlight
  BY DEF InFlight
<1>2. Len(queue) \in Nat /\ Len(queue') \in Nat /\ Capacity \in Nat
  BY MeterAssumption, LenProperties
<1> QED BY <1>1, <1>2, FlightFinite DEF PermitsFit, Permits

LEMMA FlightMoves ==
  ASSUME Types, NEW r \in Rows
  PROVE  /\ sender[r] = "new" /\ sender' = [sender EXCEPT ![r] = "refused"]
              => InFlight' = InFlight
         /\ sender[r] = "new" /\ sender' = [sender EXCEPT ![r] = "permitted"]
              => Cardinality(InFlight') = Cardinality(InFlight) + 1
         /\ sender[r] = "permitted" /\ sender' = [sender EXCEPT ![r] = "sent"]
              => Cardinality(InFlight') = Cardinality(InFlight) - 1
<1> USE DEF Types
<1>1. sender[r] = "new" /\ sender' = [sender EXCEPT ![r] = "refused"]
        => InFlight' = InFlight
  BY DEF InFlight
<1>2. sender[r] = "new" /\ sender' = [sender EXCEPT ![r] = "permitted"]
        => r \notin InFlight /\ InFlight' = InFlight \cup {r}
  BY DEF InFlight
<1>3. sender[r] = "permitted" /\ sender' = [sender EXCEPT ![r] = "sent"]
        => r \in InFlight /\ InFlight' = InFlight \ {r}
  BY DEF InFlight
<1> QED BY <1>1, <1>2, <1>3, FlightFinite, FS_AddElement, FS_RemoveElement

(* A permit taken is a row in flight or in the channel.                    *)
LEMMA PermitsStep ==
  ASSUME Types, Apart, PipelineWasSent, PermitsFit, [Next]_vars
  PROVE  PermitsFit'
<1> USE DEF chanVars, dbVars, ownerVars
<1>t. /\ Capacity \in Nat /\ Len(queue) \in Nat
      /\ queue \in Seq(Rows) /\ batch \in Seq(Rows)
  BY MeterAssumption, LenProperties DEF Types
<1>f. Cardinality(InFlight) \in Nat
  BY FlightFinite
<1>1. ASSUME NEW r \in Rows, Refuse(r)
      PROVE  PermitsFit'
  BY <1>1, FlightMoves DEF Refuse, PermitsFit, Permits
<1>2. ASSUME NEW r \in Rows, TakePermit(r)
      PROVE  PermitsFit'
  <2>1. Cardinality(InFlight') = Cardinality(InFlight) + 1
    BY <1>2, FlightMoves DEF TakePermit
  <2>2. Len(queue') = Len(queue) /\ Capacity - Len(queue) - Cardinality(InFlight) > 0
    BY <1>2 DEF TakePermit, Permits
  <2> QED BY <1>t, <1>f, <2>1, <2>2 DEF PermitsFit, Permits
<1>3. ASSUME NEW r \in Rows, Link(r)
      PROVE  PermitsFit'
  <2>1. Len(queue') = Len(queue) + 1
    BY <1>3, <1>t, Linked, NotInPipeline DEF Link
  <2>2. Cardinality(InFlight') = Cardinality(InFlight) - 1
    BY <1>3, FlightMoves DEF Link
  <2>3. 0 <= Capacity - Len(queue) - Cardinality(InFlight)
    BY DEF PermitsFit, Permits
  <2> QED BY <1>t, <1>f, <2>1, <2>2, <2>3 DEF PermitsFit, Permits
<1>4. CASE ReceiveFirst
  <2>1. queue' \in Seq(Rows) /\ Len(queue') = Len(queue) - 1
    BY <1>4, <1>t, HeadTailProperties DEF ReceiveFirst
  <2> QED BY <1>4, <1>t, <2>1, PermitReturned DEF ReceiveFirst
<1>5. CASE SeeStop
  BY <1>5, PermitsKept DEF SeeStop
<1>6. CASE Finish
  BY <1>6, PermitsKept DEF Finish
<1>7. CASE ReceiveMore
  <2>1. queue' \in Seq(Rows) /\ Len(queue') = Len(queue) - 1
    BY <1>7, <1>t, HeadTailProperties DEF ReceiveMore
  <2> QED BY <1>7, <1>t, <2>1, PermitReturned DEF ReceiveMore
<1>8. CASE Full
  BY <1>8, PermitsKept DEF Full
<1>9. CASE Insert
  BY <1>9, PermitsKept DEF Insert
<1>10. CASE AttemptFails
  BY <1>10, PermitsKept DEF AttemptFails
<1>11. ASSUME NEW i \in inDoubt, Decide(i)
       PROVE  PermitsFit'
  BY <1>11, PermitsKept DEF Decide
<1>12. CASE Shutdown
  BY <1>12, PermitsKept DEF Shutdown
<1>13. CASE Release
  BY <1>13, PermitsKept DEF Release
<1>14. CASE Joined
  BY <1>14, PermitsKept DEF Joined
<1>15. CASE Deadline
  BY <1>15, PermitsKept DEF Deadline
<1>16. CASE Exit
  BY <1>16, PermitsKept DEF Exit
<1>17. CASE UNCHANGED vars
  BY <1>17, PermitsKept DEF vars
<1> QED
  BY <1>1, <1>2, <1>3, <1>4, <1>5, <1>6, <1>7, <1>8, <1>9, <1>10, <1>11, <1>12,
     <1>13, <1>14, <1>15, <1>16, <1>17 DEF Next, Writer

-----------------------------------------------------------------------------
(* How often a row is stored.                                              *)

LEMMA OutstandingFinite ==
  ASSUME Types, NEW r
  PROVE  /\ IsFiniteSet(inDoubt)
         /\ IsFiniteSet(Outstanding(r)) /\ Cardinality(Outstanding(r)) \in Nat
<1> DEFINE tries == 0..(Attempts - 1)
           sets == SUBSET Rows
<1>1. IsFiniteSet(tries)
  BY MeterAssumption, FS_Interval
<1>2. IsFiniteSet(sets)
  BY MeterAssumption, FS_SUBSET
<1>3. inDoubt \subseteq sets \X tries
  BY DEF Types
<1> HIDE DEF tries, sets
<1>4. IsFiniteSet(sets \X tries)
  BY <1>1, <1>2, FS_Product
<1>5. IsFiniteSet(inDoubt)
  BY <1>3, <1>4, FS_Subset
<1>6. Outstanding(r) \subseteq inDoubt
  BY DEF Outstanding
<1> QED BY <1>5, <1>6, FS_Subset, FS_CardinalityType

(* Where nothing is inserted or decided and rows only move along, a row    *)
(* may be stored no less often.                                            *)
LEMMA StoredKept ==
  ASSUME StoredByAttempts, UNCHANGED dbVars,
         \A r \in Rows : AttemptsOn(r) <= AttemptsOn(r)',
         \A r \in Rows : AttemptsOn(r) \in Nat /\ AttemptsOn(r)' \in Nat,
         Types
  PROVE  StoredByAttempts'
<1> SUFFICES ASSUME NEW r \in Rows
             PROVE  stored'[r] + Cardinality(Outstanding(r)') <= AttemptsOn(r)'
  BY DEF StoredByAttempts
<1>1. stored' = stored /\ Outstanding(r)' = Outstanding(r)
  BY DEF Outstanding, dbVars
<1>2. stored[r] + Cardinality(Outstanding(r)) <= AttemptsOn(r)
  BY DEF StoredByAttempts
<1>3. stored[r] \in Nat /\ Cardinality(Outstanding(r)) \in Nat
  BY OutstandingFinite DEF Types
<1> QED BY <1>1, <1>2, <1>3

LEMMA AttemptsOnIsNat ==
  ASSUME Types, NEW r \in Rows
  PROVE  AttemptsOn(r) \in Nat /\ AttemptsOn(r) <= Attempts
BY MeterAssumption DEF AttemptsOn, Types

(* Only an attempt of its own batch puts a row into the table.             *)
LEMMA StoredStep ==
  ASSUME Types, Apart, PipelineWasSent, BatchIsBeingWritten, StoredByAttempts, [Next]_vars
  PROVE  StoredByAttempts'
<1> USE DEF chanVars, dbVars, ownerVars
<1>t. /\ \A r \in Rows : AttemptsOn(r) \in Nat /\ AttemptsOn(r)' \in Nat
      /\ Types /\ Attempts \in Nat /\ attempt \in Nat /\ batch \in Seq(Rows)
      /\ queue \in Seq(Rows) /\ Types'
  <2>1. Types'
    BY PipelineStep
  <2>2. \A r \in Rows : AttemptsOn(r)' \in Nat
    BY <2>1, MeterAssumption DEF AttemptsOn, Types
  <2> QED BY <2>1, <2>2, MeterAssumption, AttemptsOnIsNat DEF Types
<1>1. ASSUME NEW r \in Rows, Refuse(r)
      PROVE  StoredByAttempts'
  <2>1. \A d \in Rows : AttemptsOn(d)' = AttemptsOn(d)
    BY <1>1, <1>t DEF Refuse, Types, AttemptsOn
  <2> QED BY <1>1, <1>t, <2>1, StoredKept DEF Refuse
<1>2. ASSUME NEW r \in Rows, TakePermit(r)
      PROVE  StoredByAttempts'
  <2>1. \A d \in Rows : AttemptsOn(d)' = AttemptsOn(d)
    BY <1>2, <1>t DEF TakePermit, Types, AttemptsOn
  <2> QED BY <1>2, <1>t, <2>1, StoredKept DEF TakePermit
<1>3. ASSUME NEW r \in Rows, Link(r)
      PROVE  StoredByAttempts'
  <2>1. ToSet(queue') = ToSet(queue) \cup {r}
    BY <1>3, <1>t, Linked, NotInPipeline DEF Link
  <2>2. \A d \in Rows : AttemptsOn(d)' = AttemptsOn(d)
    BY <1>3, <1>t, <2>1 DEF Link, Types, AttemptsOn
  <2> QED BY <1>3, <1>t, <2>2, StoredKept DEF Link
<1>4. CASE ReceiveFirst
  <2>1. /\ ToSet(queue') = ToSet(queue) \ {Head(queue)}
        /\ Head(queue) \in ToSet(queue) /\ ToSet(batch') = {Head(queue)}
    BY <1>4, <1>t, FirstReceived DEF ReceiveFirst, BatchIsBeingWritten
  <2>2. ToSet(batch) = {}
    BY <1>4, <1>t, EmptySeq, EmptySequence DEF ReceiveFirst, BatchIsBeingWritten
  <2>3. \A d \in Rows : AttemptsOn(d) <= AttemptsOn(d)'
    BY <1>4, <1>t, <2>1, <2>2 DEF ReceiveFirst, AttemptsOn
  <2> QED BY <1>4, <1>t, <2>3, StoredKept DEF ReceiveFirst
<1>5. CASE SeeStop
  <2>1. \A d \in Rows : AttemptsOn(d)' = AttemptsOn(d)
    BY <1>5 DEF SeeStop, AttemptsOn
  <2> QED BY <1>5, <1>t, <2>1, StoredKept DEF SeeStop
<1>6. CASE Finish
  <2>1. \A d \in Rows : AttemptsOn(d)' = AttemptsOn(d)
    BY <1>6 DEF Finish, AttemptsOn
  <2> QED BY <1>6, <1>t, <2>1, StoredKept DEF Finish
<1>7. CASE ReceiveMore
  <2>1. /\ ToSet(queue') = ToSet(queue) \ {Head(queue)}
        /\ Head(queue) \in ToSet(queue) /\ ToSet(batch') = ToSet(batch) \cup {Head(queue)}
    BY <1>7, <1>t, Received DEF ReceiveMore
  <2>2. \A d \in Rows : AttemptsOn(d) <= AttemptsOn(d)'
    BY <1>7, <1>t, <2>1 DEF ReceiveMore, AttemptsOn
  <2> QED BY <1>7, <1>t, <2>2, StoredKept DEF ReceiveMore
<1>8. CASE Full
  <2>1. \A d \in Rows : AttemptsOn(d)' = AttemptsOn(d)
    BY <1>8 DEF Full, AttemptsOn
  <2> QED BY <1>8, <1>t, <2>1, StoredKept DEF Full
<1>9. CASE Insert
  <2>1. SUFFICES ASSUME NEW d \in Rows
               PROVE  stored'[d] + Cardinality(Outstanding(d)') <= AttemptsOn(d)'
    BY DEF StoredByAttempts
  <2>2. stored'[d] = stored[d] + (IF d \in ToSet(batch) THEN 1 ELSE 0)
    BY <1>9, <1>t, Stored DEF Insert, Types
  <2>3. Outstanding(d)' = Outstanding(d)
    BY <1>9 DEF Insert, Outstanding
  <2>4. ToSet(batch') = {} /\ queue' = queue /\ sender' = sender
    BY <1>9, <1>t, Emptied DEF Insert, NextBatch
  <2>5. (d \in ToSet(batch) => AttemptsOn(d) < AttemptsOn(d)') /\ AttemptsOn(d) <= AttemptsOn(d)'
    <3>1. d \in ToSet(batch) => d \notin ToSet(queue) /\ sender[d] = "sent"
      BY <1>t, InjectiveConcat DEF Apart, PipelineWasSent
    <3> QED BY <1>t, <2>4, <3>1 DEF AttemptsOn, Types
  <2>6. stored[d] + Cardinality(Outstanding(d)) <= AttemptsOn(d)
    BY DEF StoredByAttempts
  <2>7. stored[d] \in Nat /\ Cardinality(Outstanding(d)) \in Nat
    BY <1>t, OutstandingFinite DEF Types
  <2> QED BY <1>t, <2>2, <2>3, <2>5, <2>6, <2>7
<1>10. CASE AttemptFails
  <2> SUFFICES ASSUME NEW d \in Rows
               PROVE  stored'[d] + Cardinality(Outstanding(d)') <= AttemptsOn(d)'
    BY DEF StoredByAttempts
  <2> DEFINE O == Outstanding(d)
             i == <<ToSet(batch), attempt>>
  <2>1. stored' = stored /\ queue' = queue /\ sender' = sender
    BY <1>10 DEF AttemptFails
  <2>2. stored[d] \in Nat /\ IsFiniteSet(O) /\ Cardinality(O) \in Nat
    BY <1>t, OutstandingFinite DEF Types
  <2>3. stored[d] + Cardinality(O) <= AttemptsOn(d)
    BY DEF StoredByAttempts
  <2>4. O' = O \/ (d \in ToSet(batch) /\ O' = O \cup {i})
    BY <1>10 DEF AttemptFails, Outstanding
  <2>5. (d \in ToSet(batch) => AttemptsOn(d) < AttemptsOn(d)') /\ AttemptsOn(d) <= AttemptsOn(d)'
    <3>1. d \in ToSet(batch) => d \notin ToSet(queue) /\ sender[d] = "sent"
      BY <1>t, InjectiveConcat DEF Apart, PipelineWasSent
    <3>2. CASE attempt' = attempt + 1 /\ batch' = batch
      BY <1>t, <2>1, <3>1, <3>2 DEF AttemptsOn, Types
    <3>3. CASE NextBatch
      <4>1. ToSet(batch') = {}
        BY <1>t, <2>1, <3>3, Emptied DEF NextBatch
      <4> QED BY <1>t, <2>1, <3>1, <4>1 DEF AttemptsOn, Types
    <3> QED BY <1>10, <3>2, <3>3 DEF AttemptFails, GiveUp
  <2> HIDE DEF O, i
  <2>6. IsFiniteSet(O \cup {i}) /\ Cardinality(O \cup {i}) <= Cardinality(O) + 1
    <3>1. /\ IsFiniteSet(O \cup {i})
          /\ Cardinality(O \cup {i}) = IF i \in O THEN Cardinality(O) ELSE Cardinality(O) + 1
      BY <2>2, FS_AddElement, Zenon
    <3> QED BY <2>2, <3>1
  <2>7. Cardinality(O \cup {i}) \in Nat
    BY <2>6, FS_CardinalityType
  <2>8. CASE O' = O
    BY <1>t, <2>1, <2>2, <2>3, <2>5, <2>8 DEF O
  <2>9. CASE d \in ToSet(batch) /\ O' = O \cup {i}
    <3>1. Cardinality(O') <= Cardinality(O) + 1 /\ Cardinality(O') \in Nat
      BY <2>6, <2>7, <2>9
    <3>2. stored[d] + Cardinality(O') <= AttemptsOn(d)'
      BY <1>t, <2>2, <2>3, <2>5, <2>9, <3>1
    <3> QED BY <2>1, <3>2 DEF O
  <2> QED BY <2>4, <2>8, <2>9
<1>11. ASSUME NEW i \in inDoubt, Decide(i)
       PROVE  StoredByAttempts'
  <2> SUFFICES ASSUME NEW d \in Rows
               PROVE  stored'[d] + Cardinality(Outstanding(d)') <= AttemptsOn(d)'
    BY DEF StoredByAttempts
  <2> DEFINE O == Outstanding(d)
  <2>1. AttemptsOn(d)' = AttemptsOn(d)
    BY <1>11 DEF Decide, AttemptsOn
  <2>2. stored[d] \in Nat /\ IsFiniteSet(O) /\ Cardinality(O) \in Nat
    BY <1>t, OutstandingFinite DEF Types
  <2>3. stored[d] + Cardinality(O) <= AttemptsOn(d)
    BY DEF StoredByAttempts
  <2>4. stored'[d] = stored[d] \/ stored'[d] = stored[d] + (IF d \in i[1] THEN 1 ELSE 0)
    BY <1>11, <1>t, Stored DEF Decide, Types
  <2>5. CASE d \in i[1]
    <3>1. i \in O /\ O' = O \ {i}
      BY <1>11, <2>5 DEF Decide, Outstanding
    <3>2. Cardinality(O') = Cardinality(O) - 1
      BY <2>2, <3>1, FS_RemoveElement
    <3> HIDE DEF O
    <3>3. stored'[d] + Cardinality(O') <= AttemptsOn(d)'
      BY <1>t, <2>1, <2>2, <2>3, <2>4, <2>5, <3>2
    <3> QED BY <3>3 DEF O
  <2>6. CASE d \notin i[1]
    <3>1. O' = O
      BY <1>11, <2>6 DEF Decide, Outstanding
    <3> QED BY <2>1, <2>2, <2>3, <2>4, <2>6, <3>1
  <2> QED BY <2>5, <2>6
<1>12. CASE Shutdown
  <2>1. \A d \in Rows : AttemptsOn(d)' = AttemptsOn(d)
    BY <1>12 DEF Shutdown, AttemptsOn
  <2> QED BY <1>12, <1>t, <2>1, StoredKept DEF Shutdown
<1>13. CASE Release
  <2>1. \A d \in Rows : AttemptsOn(d)' = AttemptsOn(d)
    BY <1>13 DEF Release, AttemptsOn
  <2> QED BY <1>13, <1>t, <2>1, StoredKept DEF Release
<1>14. CASE Joined
  <2>1. \A d \in Rows : AttemptsOn(d)' = AttemptsOn(d)
    BY <1>14 DEF Joined, AttemptsOn
  <2> QED BY <1>14, <1>t, <2>1, StoredKept DEF Joined
<1>15. CASE Deadline
  <2>1. \A d \in Rows : AttemptsOn(d)' = AttemptsOn(d)
    BY <1>15 DEF Deadline, AttemptsOn
  <2> QED BY <1>15, <1>t, <2>1, StoredKept DEF Deadline
<1>16. CASE Exit
  <2>1. \A d \in Rows : AttemptsOn(d)' = AttemptsOn(d)
    BY <1>16 DEF Exit, AttemptsOn
  <2> QED BY <1>16, <1>t, <2>1, StoredKept DEF Exit
<1>17. CASE UNCHANGED vars
  <2>1. \A d \in Rows : AttemptsOn(d)' = AttemptsOn(d)
    BY <1>17 DEF vars, AttemptsOn
  <2> QED BY <1>17, <1>t, <2>1, StoredKept DEF vars
<1> QED
  BY <1>1, <1>2, <1>3, <1>4, <1>5, <1>6, <1>7, <1>8, <1>9, <1>10, <1>11, <1>12,
     <1>13, <1>14, <1>15, <1>16, <1>17 DEF Next, Writer

-----------------------------------------------------------------------------
(* Rows whose record returned.                                             *)

(* A row that is stored or counted stays so.                               *)
LEMMA SettledStays ==
  ASSUME Types, Types', counted \subseteq counted',
         \A r \in Rows : stored[r] <= stored'[r]
  PROVE  \A r \in Rows : Settled(r) => Settled(r)'
BY DEF Types, Settled

LEMMA SettledKept ==
  ASSUME UNCHANGED <<stored, counted>>
  PROVE  \A r : Settled(r)' = Settled(r)
BY DEF Settled

(* Every step leaves a returned row somewhere.                             *)
LEMMA VanishStep ==
  ASSUME Types, Apart, PipelineWasSent, BatchIsBeingWritten, NothingVanishes, [Next]_vars
  PROVE  NothingVanishes'
<1> USE DEF chanVars, dbVars, ownerVars
<1>t. /\ queue \in Seq(Rows) /\ batch \in Seq(Rows)
      /\ sender \in [Rows -> {"new", "permitted", "sent", "refused"}]
  BY DEF Types
<1>1. ASSUME NEW r \in Rows, Refuse(r)
      PROVE  NothingVanishes'
  <2>1. Returned' \subseteq Returned \cup {r}
    BY <1>1, <1>t DEF Refuse, Returned
  <2> QED BY <1>1, <2>1 DEF Refuse, NothingVanishes, Settled
<1>2. ASSUME NEW r \in Rows, TakePermit(r)
      PROVE  NothingVanishes'
  <2>1. Returned' \subseteq Returned
    BY <1>2, <1>t DEF TakePermit, Returned
  <2> QED BY <1>2, <2>1 DEF TakePermit, NothingVanishes, Settled
<1>3. ASSUME NEW r \in Rows, Link(r)
      PROVE  NothingVanishes'
  <2>1. Returned' \subseteq Returned \cup {r}
    BY <1>3, <1>t DEF Link, Returned
  <2>2. ToSet(queue') = ToSet(queue) \cup {r}
    BY <1>3, <1>t, Linked, NotInPipeline DEF Link
  <2> QED BY <1>3, <2>1, <2>2 DEF Link, NothingVanishes, Settled
<1>4. CASE ReceiveFirst
  <2>1. /\ ToSet(queue') = ToSet(queue) \ {Head(queue)} /\ ToSet(batch') = {Head(queue)}
    BY <1>4, <1>t, FirstReceived DEF ReceiveFirst, BatchIsBeingWritten
  <2>2. ToSet(batch) = {}
    BY <1>4, <1>t, EmptySeq, EmptySequence DEF ReceiveFirst, BatchIsBeingWritten
  <2> QED BY <1>4, <2>1, <2>2 DEF ReceiveFirst, NothingVanishes, Settled, Returned
<1>5. CASE SeeStop
  BY <1>5 DEF SeeStop, NothingVanishes, Settled, Returned
<1>6. CASE Finish
  BY <1>6 DEF Finish, NothingVanishes, Settled, Returned
<1>7. CASE ReceiveMore
  <2>1. /\ ToSet(queue') = ToSet(queue) \ {Head(queue)}
        /\ ToSet(batch') = ToSet(batch) \cup {Head(queue)}
    BY <1>7, <1>t, Received DEF ReceiveMore
  <2> QED BY <1>7, <2>1 DEF ReceiveMore, NothingVanishes, Settled, Returned
<1>8. CASE Full
  BY <1>8 DEF Full, NothingVanishes, Settled, Returned
<1>9. CASE Insert
  <2>1. /\ \A r \in Rows : stored[r] \in Nat
        /\ \A r \in Rows : stored'[r] = stored[r] + (IF r \in ToSet(batch) THEN 1 ELSE 0)
    BY <1>9, Stored DEF Insert, Types
  <2>2. \A r \in Rows : (r \in ToSet(batch) => stored'[r] > 0) /\ (stored[r] > 0 => stored'[r] > 0)
    BY <2>1
  <2>3. Returned' = Returned /\ queue' = queue /\ counted' = counted
    BY <1>9 DEF Insert, Returned
  <2> QED BY <2>2, <2>3 DEF NothingVanishes, Settled, Returned
<1>10. CASE AttemptFails
  <2>1. Returned' = Returned /\ queue' = queue /\ stored' = stored
    BY <1>10 DEF AttemptFails, Returned
  <2>2. CASE UNCHANGED <<batch, counted>>
    BY <2>1, <2>2 DEF NothingVanishes, Settled
  <2>3. CASE CountBatch
    BY <2>1, <2>3 DEF NothingVanishes, Settled, CountBatch
  <2> QED BY <1>10, <2>2, <2>3 DEF AttemptFails, GiveUp
<1>11. ASSUME NEW i \in inDoubt, Decide(i)
       PROVE  NothingVanishes'
  <2>1. \A r \in Rows : stored[r] > 0 => stored'[r] > 0
    <3>1. \A r \in Rows : stored[r] \in Nat
      BY DEF Types
    <3>2. \A r \in Rows : stored'[r] \in {stored[r], stored[r] + 1}
      BY <1>11, Stored DEF Decide, Types
    <3> QED BY <3>1, <3>2
  <2>2. Returned' = Returned /\ queue' = queue /\ batch' = batch /\ counted' = counted
    BY <1>11 DEF Decide, Returned
  <2> QED BY <2>1, <2>2 DEF NothingVanishes, Settled, Returned
<1>12. CASE Shutdown
  BY <1>12 DEF Shutdown, NothingVanishes, Settled, Returned
<1>13. CASE Release
  BY <1>13 DEF Release, NothingVanishes, Settled, Returned
<1>14. CASE Joined
  BY <1>14 DEF Joined, NothingVanishes, Settled, Returned
<1>15. CASE Deadline
  BY <1>15 DEF Deadline, NothingVanishes, Settled, Returned
<1>16. CASE Exit
  BY <1>16 DEF Exit, NothingVanishes, Settled, Returned
<1>17. CASE UNCHANGED vars
  BY <1>17 DEF vars, NothingVanishes, Settled, Returned
<1> QED
  BY <1>1, <1>2, <1>3, <1>4, <1>5, <1>6, <1>7, <1>8, <1>9, <1>10, <1>11, <1>12,
     <1>13, <1>14, <1>15, <1>16, <1>17 DEF Next, Writer

(* The writer stops only after its owner did, and a record that returned   *)
(* stays returned.                                                         *)
LEMMA OwnerStep ==
  ASSUME Types, StopsForOwner, RecordedBefore, [Next]_vars
  PROVE  (StopsForOwner /\ RecordedBefore)'
<1> USE DEF chanVars, dbVars, ownerVars, StopsForOwner, RecordedBefore
<1>t. sender \in [Rows -> {"new", "permitted", "sent", "refused"}]
  BY DEF Types
<1>1. ASSUME NEW r \in Rows, Refuse(r)
      PROVE  (StopsForOwner /\ RecordedBefore)'
  BY <1>1, <1>t DEF Refuse, Returned
<1>2. ASSUME NEW r \in Rows, TakePermit(r)
      PROVE  (StopsForOwner /\ RecordedBefore)'
  BY <1>2, <1>t DEF TakePermit, Returned
<1>3. ASSUME NEW r \in Rows, Link(r)
      PROVE  (StopsForOwner /\ RecordedBefore)'
  BY <1>3, <1>t DEF Link, Returned
<1>4. CASE ReceiveFirst
  BY <1>4 DEF ReceiveFirst, Returned
<1>5. CASE SeeStop
  BY <1>5 DEF SeeStop, Returned
<1>6. CASE Finish
  BY <1>6 DEF Finish, Returned
<1>7. CASE ReceiveMore
  BY <1>7 DEF ReceiveMore, Returned
<1>8. CASE Full
  BY <1>8 DEF Full, Returned
<1>9. CASE Insert
  BY <1>9 DEF Insert, NextBatch, Returned
<1>10. CASE AttemptFails
  BY <1>10 DEF AttemptFails, GiveUp, NextBatch, Returned
<1>11. ASSUME NEW i \in inDoubt, Decide(i)
       PROVE  (StopsForOwner /\ RecordedBefore)'
  BY <1>11 DEF Decide, Returned
<1>12. CASE Shutdown
  BY <1>12 DEF Shutdown, Returned
<1>13. CASE Release
  BY <1>13 DEF Release, Returned
<1>14. CASE Joined
  BY <1>14 DEF Joined, Returned
<1>15. CASE Deadline
  BY <1>15 DEF Deadline, Returned
<1>16. CASE Exit
  BY <1>16 DEF Exit, Returned
<1>17. CASE UNCHANGED vars
  BY <1>17 DEF vars, Returned
<1> QED
  BY <1>1, <1>2, <1>3, <1>4, <1>5, <1>6, <1>7, <1>8, <1>9, <1>10, <1>11, <1>12,
     <1>13, <1>14, <1>15, <1>16, <1>17 DEF Next, Writer

(* A writer that ends has drained the channel, and what is settled stays.  *)
LEMMA FlushStep ==
  ASSUME Types, BatchIsBeingWritten, StopsForOwner, RecordedBefore,
         NothingVanishes, ShutdownFlushes, [Next]_vars
  PROVE  ShutdownFlushes'
<1> USE DEF chanVars, dbVars, ownerVars, ShutdownFlushes
<1>t. /\ before \subseteq Rows
      /\ \A r \in Rows : stored[r] \in Nat
  BY DEF Types
<1>1. ASSUME NEW r \in Rows, Refuse(r)
      PROVE  ShutdownFlushes'
  BY <1>1 DEF Refuse, Settled
<1>2. ASSUME NEW r \in Rows, TakePermit(r)
      PROVE  ShutdownFlushes'
  BY <1>2 DEF TakePermit, Settled
<1>3. ASSUME NEW r \in Rows, Link(r)
      PROVE  ShutdownFlushes'
  BY <1>3 DEF Link, Settled
<1>4. CASE ReceiveFirst
  BY <1>4 DEF ReceiveFirst, Settled
<1>5. CASE SeeStop
  BY <1>5 DEF SeeStop, Settled
<1>6. CASE Finish
  <2>1. ToSet(queue) = {} /\ ToSet(batch) = {}
    <3>1. queue = <<>> /\ batch = <<>>
      BY <1>6 DEF Finish, BatchIsBeingWritten
    <3>2. /\ queue \in Seq(Rows) /\ batch \in Seq(Rows)
          /\ Len(queue) = 0 /\ Len(batch) = 0
      BY <3>1, EmptySeq
    <3> QED BY <3>2, EmptySequence
  <2>2. \A r \in before : Settled(r)
    BY <2>1 DEF NothingVanishes, RecordedBefore
  <2> QED BY <1>6, <2>2 DEF Finish, Settled
<1>7. CASE ReceiveMore
  BY <1>7 DEF ReceiveMore, Settled
<1>8. CASE Full
  BY <1>8 DEF Full, Settled
<1>9. CASE Insert
  BY <1>9 DEF Insert, NextBatch
<1>10. CASE AttemptFails
  BY <1>10 DEF AttemptFails, GiveUp, NextBatch
<1>11. ASSUME NEW i \in inDoubt, Decide(i)
       PROVE  ShutdownFlushes'
  <2>1. \A r \in Rows : stored[r] > 0 => stored'[r] > 0
    <3>1. \A r \in Rows : stored[r] \in Nat
      BY DEF Types
    <3>2. \A r \in Rows : stored'[r] \in {stored[r], stored[r] + 1}
      BY <1>11, Stored DEF Decide, Types
    <3> QED BY <3>1, <3>2
  <2> QED BY <1>11, <1>t, <2>1 DEF Decide, Settled
<1>12. CASE Shutdown
  BY <1>12 DEF Shutdown, StopsForOwner
<1>13. CASE Release
  BY <1>13 DEF Release, StopsForOwner
<1>14. CASE Joined
  BY <1>14 DEF Joined, Settled
<1>15. CASE Deadline
  BY <1>15 DEF Deadline, Settled
<1>16. CASE Exit
  BY <1>16 DEF Exit, Settled
<1>17. CASE UNCHANGED vars
  BY <1>17 DEF vars, Settled
<1> QED
  BY <1>1, <1>2, <1>3, <1>4, <1>5, <1>6, <1>7, <1>8, <1>9, <1>10, <1>11, <1>12,
     <1>13, <1>14, <1>15, <1>16, <1>17 DEF Next, Writer

-----------------------------------------------------------------------------
(* The theorems.                                                           *)

(* The invariant with what bounds `stored` told apart from its type.       *)
Inductive ==
  /\ Types /\ Apart /\ PermitsFit /\ PipelineWasSent /\ BatchIsBeingWritten
  /\ StoredByAttempts /\ StopsForOwner /\ RecordedBefore
  /\ NothingVanishes /\ ShutdownFlushes

LEMMA IInvFollows == Inductive => IInv
<1> SUFFICES ASSUME Inductive
             PROVE  TypeOK
  BY DEF Inductive, IInv
<1>1. ASSUME NEW r \in Rows
      PROVE  stored[r] \in 0..Attempts
  <2>1. /\ stored[r] \in Nat /\ Cardinality(Outstanding(r)) \in Nat
        /\ stored[r] + Cardinality(Outstanding(r)) <= AttemptsOn(r)
    BY OutstandingFinite DEF Inductive, Types, StoredByAttempts
  <2>2. AttemptsOn(r) \in Nat /\ AttemptsOn(r) <= Attempts /\ Attempts \in Nat
    BY AttemptsOnIsNat, MeterAssumption DEF Inductive
  <2> QED BY <2>1, <2>2
<1>2. stored \in [Rows -> 0..Attempts]
  BY <1>1 DEF Inductive, Types
<1> QED BY <1>2 DEF Inductive, TypeOK, Types, Apart, PermitsFit

LEMMA InitInductive == Init => Inductive
<1> SUFFICES ASSUME Init
             PROVE  Inductive
  OBVIOUS
<1>1. /\ queue \in Seq(Rows) /\ batch \in Seq(Rows)
      /\ Len(queue) = 0 /\ Len(batch) = 0
  BY EmptySeq DEF Init
<1>2. ToSet(queue) = {} /\ ToSet(batch) = {} /\ IsInjective(queue) /\ IsInjective(batch)
  BY <1>1, EmptySequence
<1>3. Types
  <2>1. Len(batch) <= BatchMax /\ 0 \in 0..(Attempts - 1)
    BY <1>1, MeterAssumption
  <2>2. sender \in [Rows -> {"new", "permitted", "sent", "refused"}] /\ stored \in [Rows -> Nat]
    BY DEF Init
  <2>3. /\ closed = FALSE /\ stopping = FALSE /\ writer = "idle" /\ attempt = 0
        /\ inDoubt = {} /\ counted = {} /\ handle = "running" /\ before = {}
    BY DEF Init
  <2> QED BY <1>1, <2>1, <2>2, <2>3 DEF Types
<1>4. Apart
  BY <1>1, <1>2, InjectiveConcat DEF Apart
<1>5. PermitsFit
  <2>1. InFlight = {}
    BY DEF Init, InFlight
  <2>2. Cardinality(InFlight) = 0
    BY <2>1, FS_EmptySet
  <2> QED BY <1>1, <2>2, MeterAssumption DEF PermitsFit, Permits
<1>6. StoredByAttempts
  <2> SUFFICES ASSUME NEW r \in Rows
               PROVE  stored[r] + Cardinality(Outstanding(r)) <= AttemptsOn(r)
    BY DEF StoredByAttempts
  <2>1. Outstanding(r) = {}
    BY DEF Init, Outstanding
  <2>2. Cardinality(Outstanding(r)) = 0
    BY <2>1, FS_EmptySet
  <2> QED BY <2>2 DEF Init, AttemptsOn
<1>7. PipelineWasSent /\ BatchIsBeingWritten
  BY <1>2 DEF Init, PipelineWasSent, BatchIsBeingWritten
<1>8. StopsForOwner /\ RecordedBefore /\ NothingVanishes /\ ShutdownFlushes
  BY DEF Init, StopsForOwner, RecordedBefore, NothingVanishes, ShutdownFlushes, Returned
<1> QED BY <1>3, <1>4, <1>5, <1>6, <1>7, <1>8 DEF Inductive

LEMMA StepInductive == Inductive /\ [Next]_vars => Inductive'
BY PipelineStep, PermitsStep, StoredStep, OwnerStep, VanishStep, FlushStep DEF Inductive

LEMMA Invariance == Spec => []IInv
BY InitInductive, StepInductive, IInvFollows, PTL DEF Spec

(* The channel, the batch and the count of each row keep within their      *)
(* bounds, and no row is in two places of the pipeline.                    *)
THEOREM MeterTypeCorrect == Spec => []TypeOK
<1>1. IInv => TypeOK
  BY DEF IInv
<1> QED BY <1>1, Invariance, PTL

(* A row whose record call returned is queued, being written, stored or    *)
(* counted as dropped, whatever Postgres does.                             *)
THEOREM NoRowVanishes == Spec => []NothingVanishes
<1>1. IInv => NothingVanishes
  BY DEF IInv
<1> QED BY <1>1, Invariance, PTL

(* When the writer task has ended, every row recorded before shutdown is   *)
(* stored or counted.                                                      *)
THEOREM ShutdownLosesNothing == Spec => []ShutdownFlushes
<1>1. IInv => ShutdownFlushes
  BY DEF IInv
<1> QED BY <1>1, Invariance, PTL
=============================================================================
