------------------------------ MODULE UsageMeter ------------------------------
(***************************************************************************)
(* PgMeter of crates/core/src/pg/meter.rs: senders that must not block, a  *)
(* bounded channel, and one writer task that inserts batches into Postgres *)
(* and is told to stop.                                                    *)
(*                                                                         *)
(* The channel is tokio's.  try_send takes one of its permits and then     *)
(* links the row in; between the two the receiver sees nothing.  close     *)
(* refuses new permits, and a permit comes back when a row is received.    *)
(*                                                                         *)
(* An INSERT the client gave up on may still commit: until the server has  *)
(* decided it is in doubt.                                                 *)
(***************************************************************************)
EXTENDS Naturals, Sequences, FiniteSets, SequencesExt

CONSTANTS
  Rows,       \* one per recorded invocation
  Capacity,   \* of the channel
  BatchMax,   \* BATCH_MAX
  Attempts    \* ATTEMPTS

ASSUME MeterAssumption ==
  /\ IsFiniteSet(Rows)
  /\ Capacity \in Nat \ {0}
  /\ BatchMax \in Nat \ {0}
  /\ Attempts \in Nat \ {0}

VARIABLES
  sender,    \* where the record call of each row stands
  queue,     \* the rows linked into the channel
  closed,    \* rx.close was called
  writer,    \* where the writer task stands
  stopping,  \* its local of this name
  batch,     \* the rows it is inserting
  attempt,   \* failed attempts on this batch
  inDoubt,   \* INSERTs given up on that the server has not decided
  stored,    \* how often each row is in warpline.meter
  counted,   \* the rows that PgMeter::dropped counts
  handle,    \* the owner: running, in shutdown, or gone without one
  before     \* history: the rows whose record returned before shutdown

chanVars == <<sender, queue, closed>>
dbVars == <<inDoubt, stored>>
ownerVars == <<handle, before>>
vars == <<chanVars, writer, stopping, batch, attempt, dbVars, counted, ownerVars>>

(* A row is in flight when record has a permit and has not linked it yet.  *)
InFlight == {r \in Rows : sender[r] = "permitted"}
Returned == {r \in Rows : sender[r] \in {"sent", "refused"}}
Permits == Capacity - Len(queue) - Cardinality(InFlight)

-----------------------------------------------------------------------------
(* record, called by the runtime.                                          *)

(* try_send finds the channel closed or full: the row is counted.          *)
Refuse(r) ==
  /\ sender[r] = "new"
  /\ closed \/ Permits = 0
  /\ sender' = [sender EXCEPT ![r] = "refused"]
  /\ counted' = counted \cup {r}
  /\ UNCHANGED <<queue, closed, writer, stopping, batch, attempt, dbVars, ownerVars>>

TakePermit(r) ==
  /\ sender[r] = "new"
  /\ ~closed /\ Permits > 0
  /\ sender' = [sender EXCEPT ![r] = "permitted"]
  /\ UNCHANGED <<queue, closed, writer, stopping, batch, attempt, dbVars, counted, ownerVars>>

Link(r) ==
  /\ sender[r] = "permitted"
  /\ sender' = [sender EXCEPT ![r] = "sent"]
  /\ queue' = Append(queue, r)
  /\ UNCHANGED <<closed, writer, stopping, batch, attempt, dbVars, counted, ownerVars>>

-----------------------------------------------------------------------------
(* run, the writer task.                                                   *)

(* The first row of a batch: awaited, or once stopping only if it is there.*)
ReceiveFirst ==
  /\ writer = "idle"
  /\ queue # <<>>
  /\ batch' = <<Head(queue)>>
  /\ queue' = Tail(queue)
  /\ writer' = "fill"
  /\ UNCHANGED <<sender, closed, stopping, attempt, dbVars, counted, ownerVars>>

(* The select also sees the stop notice; it may take a row instead.        *)
SeeStop ==
  /\ writer = "idle" /\ ~stopping
  /\ handle \in {"waiting", "abandoned"}
  /\ closed' = TRUE
  /\ stopping' = TRUE
  /\ UNCHANGED <<sender, queue, writer, batch, attempt, dbVars, counted, ownerVars>>

FinishUndrained ==  \* mutant: the writer stops without draining
  /\ writer = "idle" /\ stopping
  /\ writer' = "done"
  /\ UNCHANGED <<chanVars, stopping, batch, attempt, dbVars, counted, ownerVars>>

(* try_recv found nothing, or recv nobody who could still send.            *)
Finish ==
  /\ writer = "idle"
  /\ stopping \/ handle = "released"
  /\ queue = <<>>
  /\ writer' = "done"
  /\ UNCHANGED <<chanVars, stopping, batch, attempt, dbVars, counted, ownerVars>>

ReceiveTooMany ==  \* mutant: a row past BATCH_MAX
  /\ writer = "fill"
  /\ Len(batch) <= BatchMax /\ queue # <<>>
  /\ batch' = Append(batch, Head(queue))
  /\ queue' = Tail(queue)
  /\ UNCHANGED <<sender, closed, writer, stopping, attempt, dbVars, counted, ownerVars>>

ReceiveMore ==
  /\ writer = "fill"
  /\ Len(batch) < BatchMax /\ queue # <<>>
  /\ batch' = Append(batch, Head(queue))
  /\ queue' = Tail(queue)
  /\ UNCHANGED <<sender, closed, writer, stopping, attempt, dbVars, counted, ownerVars>>

Full ==
  /\ writer = "fill"
  /\ Len(batch) = BatchMax \/ queue = <<>>
  /\ writer' = "write"
  /\ UNCHANGED <<chanVars, stopping, batch, attempt, dbVars, counted, ownerVars>>

Store(rows) == stored' = [r \in Rows |-> stored[r] + (IF r \in rows THEN 1 ELSE 0)]

NextBatch ==
  /\ writer' = "idle"
  /\ batch' = <<>>
  /\ attempt' = 0

(* An attempt succeeds.                                                    *)
Insert ==
  /\ writer = "write"
  /\ Store(ToSet(batch))
  /\ NextBatch
  /\ UNCHANGED <<chanVars, stopping, inDoubt, counted, ownerVars>>

(* An attempt fails or times out, perhaps with the INSERT still under way; *)
(* after the last one the batch is counted.                                *)
Forget == counted' = counted  \* mutant: exhausted retries are not counted
CountBatch == counted' = counted \cup ToSet(batch)

RetryForever ==  \* mutant: no last attempt
  /\ attempt' = (attempt + 1) % Attempts
  /\ UNCHANGED <<writer, batch, counted>>

GiveUp ==
  \/ /\ attempt + 1 < Attempts
     /\ attempt' = attempt + 1
     /\ UNCHANGED <<writer, batch, counted>>
  \/ /\ attempt + 1 = Attempts
     /\ CountBatch
     /\ NextBatch

AttemptFails ==
  /\ writer = "write"
  /\ inDoubt' \in {inDoubt, inDoubt \cup {<<ToSet(batch), attempt>>}}
  /\ GiveUp
  /\ UNCHANGED <<chanVars, stopping, stored, ownerVars>>

(* Postgres decides an INSERT its client gave up on.                       *)
Decide(i) ==
  /\ i \in inDoubt
  /\ inDoubt' = inDoubt \ {i}
  /\ Store(i[1]) \/ UNCHANGED stored
  /\ UNCHANGED <<chanVars, writer, stopping, batch, attempt, counted, ownerVars>>

-----------------------------------------------------------------------------
(* PgMeterHandle::shutdown, and the process exit that follows it.          *)

Shutdown ==
  /\ handle = "running"
  /\ handle' = "waiting"
  /\ before' = Returned
  /\ UNCHANGED <<chanVars, writer, stopping, batch, attempt, dbVars, counted>>

(* The handle and every PgMeter are dropped instead.                       *)
Release ==
  /\ handle = "running"
  /\ InFlight = {}
  /\ handle' = "released"
  /\ before' = Returned
  /\ UNCHANGED <<chanVars, writer, stopping, batch, attempt, dbVars, counted>>

Joined ==
  /\ handle = "waiting" /\ writer = "done"
  /\ handle' = "joined"
  /\ UNCHANGED <<chanVars, writer, stopping, batch, attempt, dbVars, counted, before>>

(* The deadline passes: the writer runs on until the process ends.         *)
Deadline ==
  /\ handle = "waiting" /\ writer # "done"
  /\ handle' = "abandoned"
  /\ UNCHANGED <<chanVars, writer, stopping, batch, attempt, dbVars, counted, before>>

Exit ==
  /\ handle = "abandoned" /\ writer \notin {"done", "killed"}
  /\ writer' = "killed"
  /\ UNCHANGED <<chanVars, stopping, batch, attempt, dbVars, counted, ownerVars>>

Init ==
  /\ sender = [r \in Rows |-> "new"]
  /\ queue = <<>>
  /\ closed = FALSE
  /\ writer = "idle"
  /\ stopping = FALSE
  /\ batch = <<>>
  /\ attempt = 0
  /\ inDoubt = {}
  /\ stored = [r \in Rows |-> 0]
  /\ counted = {}
  /\ handle = "running"
  /\ before = {}

Writer ==
  \/ ReceiveFirst \/ SeeStop \/ Finish \/ ReceiveMore \/ Full \/ Insert \/ AttemptFails

Next ==
  \/ /\ handle # "released" /\ writer # "killed"
     /\ \E r \in Rows : Refuse(r) \/ TakePermit(r) \/ Link(r)
  \/ Writer
  \/ \E i \in inDoubt : Decide(i)
  \/ Shutdown \/ Release \/ Joined \/ Deadline \/ Exit

(* The writer task is scheduled while there is something for it to do.     *)
Spec == Init /\ [][Next]_vars /\ WF_vars(Writer)

-----------------------------------------------------------------------------
(* Types; channel and batch never hold more than their capacity, and no    *)
(* row is in two places of the pipeline.                                   *)
TypeOK ==
  /\ sender \in [Rows -> {"new", "permitted", "sent", "refused"}]
  /\ queue \in Seq(Rows) /\ batch \in Seq(Rows)
  /\ IsInjective(queue \o batch) /\ Len(batch) <= BatchMax
  /\ Permits \in 0..Capacity
  /\ closed \in BOOLEAN /\ stopping \in BOOLEAN
  /\ writer \in {"idle", "fill", "write", "done", "killed"}
  /\ attempt \in 0..(Attempts - 1)
  /\ inDoubt \subseteq (SUBSET Rows) \X (0..(Attempts - 1))
  /\ stored \in [Rows -> 0..Attempts]
  /\ counted \subseteq Rows
  /\ handle \in {"running", "waiting", "joined", "abandoned", "released"}
  /\ before \subseteq Rows

Settled(r) == stored[r] > 0 \/ r \in counted

(* No row vanishes silently: whatever is refused, retried or given up, a   *)
(* row whose record returned is queued, being written, stored or counted.  *)
NothingVanishes ==
  \A r \in Returned : Settled(r) \/ r \in ToSet(queue) \cup ToSet(batch)

(* A writer that ran to its end has settled every row recorded before      *)
(* shutdown was called, which is what the host relies on when it stops     *)
(* serving first and then shuts the meter down.  A record call that overlaps the   *)
(* shutdown has no such promise: its row may be linked in too late.        *)
ShutdownFlushes == writer = "done" => \A r \in before : Settled(r)

(* Every row that is queued while the writer lives is settled, and a       *)
(* writer that is told to stop ends or is abandoned at the deadline,       *)
(* however sick the database is: its retries are bounded (meter.rs:145).   *)
QueuedRowsSettle ==
  /\ \A r \in Rows :
       r \in ToSet(queue) /\ writer # "done" ~> Settled(r) \/ writer = "killed"
  /\ handle # "running" ~> writer \in {"done", "killed"}

-----------------------------------------------------------------------------
(* The inductive invariant behind TypeOK, NothingVanishes and              *)
(* ShutdownFlushes.                                                        *)

PipelineWasSent ==
  \A r \in ToSet(queue) \cup ToSet(batch) : sender[r] = "sent"

BatchIsBeingWritten ==
  /\ writer \in {"idle", "done"} => batch = <<>>
  /\ writer \in {"idle", "fill", "done"} => attempt = 0

(* How often a row may be in the table once every INSERT is decided: only  *)
(* an attempt of its own batch can put it there.                           *)
Outstanding(r) == {i \in inDoubt : r \in i[1]}
AttemptsOn(r) ==
  IF sender[r] # "sent" \/ r \in ToSet(queue) THEN 0
  ELSE IF r \in ToSet(batch) THEN attempt ELSE Attempts

StoredByAttempts ==
  \A r \in Rows : stored[r] + Cardinality(Outstanding(r)) <= AttemptsOn(r)

(* The writer only stops for an owner that is done recording.              *)
StopsForOwner == stopping \/ writer = "done" => handle # "running"

RecordedBefore == before \subseteq Returned

IInv ==
  /\ TypeOK
  /\ PipelineWasSent
  /\ BatchIsBeingWritten
  /\ StoredByAttempts
  /\ StopsForOwner
  /\ RecordedBefore
  /\ NothingVanishes
  /\ ShutdownFlushes
=============================================================================
