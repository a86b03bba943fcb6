------------------------------ MODULE Registry ------------------------------
(***************************************************************************)
(* The module registry on disk (crates/core/src/registry.rs, cache.rs and  *)
(* the staging half of runtime.rs): content-addressed sources and compiled *)
(* artifacts, pointers to them, and the garbage collector that removes     *)
(* what no pointer references and nobody touched for a grace period.       *)
(*                                                                         *)
(* Writes are atomic renames, so a file is there or not.  Its modification *)
(* time is kept as an age that stops at Grace, where older_than starts to  *)
(* hold.  Only artifacts of the current engine are kept: those of another  *)
(* engine are never loaded.                                                *)
(***************************************************************************)
EXTENDS Naturals, FiniteSets

CONSTANTS
  Digests,
  Funcs,
  Writers,      \* stage / activate / activate_digest requests
  Readers,      \* invocations that miss the in-memory cache
  Grace,        \* GC_GRACE_PERIOD, in ticks
  Window,       \* an upload goes from its first write to its pointer in this
  GcWindow,     \* a pass of the collector takes at most this
  Modes,        \* deployments to check, see Mode
  Absent, None

(* startup: gc runs before its process serves, and nothing else writes.    *)
(* fresh:   gc runs beside writers that upload components not stored yet.  *)
(* any:     gc runs beside writers that also use components stored before. *)
Mode == {"startup", "fresh", "any"}

ASSUME RegistryAssumption ==
  /\ Grace \in Nat /\ Window \in Nat /\ GcWindow \in Nat
  /\ Window + GcWindow < Grace
  /\ Modes \subseteq Mode
  /\ Absent \notin 0..Grace
  /\ None \notin Digests

VARIABLES
  mode,
  wasm,      \* age of wasm/{digest}.wasm
  cwasm,     \* age of cwasm/{digest}-{compat}.cwasm
  pointer,   \* tenants/{tenant}/{func}
  writer,    \* what each writer is at: its step, digest, time since it began
  reader,    \* what each reader is at: its step, function and digest
  gc         \* the collector

blobs == <<wasm, cwasm>>
vars == <<mode, blobs, pointer, writer, reader, gc>>

Ages == 0..Grace \cup {Absent}
Older(a) == IF a = Absent \/ a = Grace THEN a ELSE a + 1

IdleWriter == [at |-> "idle", digest |-> None, since |-> 0]
IdleReader == [at |-> "idle", func |-> None, digest |-> None]
IdleGc == [at |-> "idle", funcs |-> {}, referenced |-> {}, left |-> {},
           doomed |-> None, stale |-> {}, skipped |-> {}, since |-> 0]

-----------------------------------------------------------------------------
(* Runtime::stage, activate, activate_digest, deactivate.                  *)

(* A writer may begin: gc is not running, or runs in another process.      *)
MayWrite(w) ==
  /\ writer[w].at = "idle"
  /\ gc.at = "idle" \/ mode # "startup"

Step(w, at) == writer' = [writer EXCEPT ![w].at = at]

(* cache::compile found a loadable .cwasm, or compiled afresh because it   *)
(* is missing or corrupt; the component passed its typecheck.              *)
Compile(w, d) ==
  /\ MayWrite(w)
  /\ mode = "fresh" => wasm[d] = Absent
  /\ \E at \in (IF cwasm[d] = Absent THEN {"persist"} ELSE {"persist", "touch"}) :
       writer' = [writer EXCEPT ![w] = [at |-> at, digest |-> d, since |-> 0]]
  /\ UNCHANGED <<mode, blobs, pointer, reader, gc>>

(* persist_cwasm, or touch of the cached one; a touch that fails is only   *)
(* logged.                                                                 *)
WriteCwasm(w) ==
  LET d == writer[w].digest IN
  /\ writer[w].at \in {"persist", "touch"}
  /\ cwasm' = [cwasm EXCEPT ![d] =
                 IF writer[w].at = "touch" /\ @ = Absent THEN @ ELSE 0]
  /\ Step(w, "source")
  /\ UNCHANGED <<mode, wasm, pointer, reader, gc>>

(* write_wasm_source: touch the source if it is there, else write it.      *)
WriteSource(w) ==
  /\ writer[w].at = "source"
  /\ wasm' = [wasm EXCEPT ![writer[w].digest] = 0]
  /\ Step(w, "staged")
  /\ UNCHANGED <<mode, cwasm, pointer, reader, gc>>

(* activate_digest's wasm_exists check.                                    *)
CheckStored(w, d) ==
  /\ MayWrite(w)
  /\ mode # "fresh"
  /\ wasm[d] # Absent
  /\ writer' = [writer EXCEPT ![w] = [at |-> "checked", digest |-> d, since |-> 0]]
  /\ UNCHANGED <<mode, blobs, pointer, reader, gc>>

(* write_pointer, for activate and for activate_digest.                    *)
WritePointer(w, f) ==
  /\ writer[w].at \in {"staged", "checked"}
  /\ pointer' = [pointer EXCEPT ![f] = writer[w].digest]
  /\ writer' = [writer EXCEPT ![w] = IdleWriter]
  /\ UNCHANGED <<mode, blobs, reader, gc>>

(* A stage that fails, or that its caller does not activate (a quota).     *)
Discard(w) ==
  /\ writer[w].at # "idle"
  /\ writer' = [writer EXCEPT ![w] = IdleWriter]
  /\ UNCHANGED <<mode, blobs, pointer, reader, gc>>

RemovePointer(f) ==
  /\ gc.at = "idle" \/ mode # "startup"
  /\ pointer[f] # None
  /\ pointer' = [pointer EXCEPT ![f] = None]
  /\ UNCHANGED <<mode, blobs, writer, reader, gc>>

-----------------------------------------------------------------------------
(* An invocation that misses the in-memory cache.                          *)

Resolve(r, f) ==
  /\ reader[r].at = "idle"
  /\ pointer[f] # None
  /\ reader' = [reader EXCEPT ![r] =
                  [at |-> "load", func |-> f, digest |-> pointer[f]]]
  /\ UNCHANGED <<mode, blobs, pointer, writer, gc>>

LoadExisting(r) ==
  /\ reader[r].at = "load"
  /\ reader' = [reader EXCEPT ![r] =
                  IF cwasm[@.digest] # Absent THEN IdleReader
                  ELSE [@ EXCEPT !.at = "compile"]]
  /\ UNCHANGED <<mode, blobs, pointer, writer, gc>>

(* The source is read, then compiled for a while, then written back.  With *)
(* neither artifact nor source on disk the invocation fails as corrupt.    *)
ReadSource(r) ==
  /\ reader[r].at = "compile"
  /\ reader' = [reader EXCEPT ![r].at =
                  IF wasm[reader[r].digest] # Absent THEN "persist" ELSE "corrupt"]
  /\ UNCHANGED <<mode, blobs, pointer, writer, gc>>

(* Republishing the .cwasm may fail; the component is served anyway.       *)
Republish(r) ==
  /\ reader[r].at = "persist"
  /\ \/ cwasm' = [cwasm EXCEPT ![reader[r].digest] = 0]
     \/ UNCHANGED cwasm
  /\ reader' = [reader EXCEPT ![r] = IdleReader]
  /\ UNCHANGED <<mode, wasm, pointer, writer, gc>>

ReturnError(r) ==
  /\ reader[r].at = "corrupt"
  /\ reader' = [reader EXCEPT ![r] = IdleReader]
  /\ UNCHANGED <<mode, blobs, pointer, writer, gc>>

-----------------------------------------------------------------------------
(* gc_unreferenced_blobs.                                                  *)

(* stale is a history of the sources past their grace period by then, and  *)
(* skipped of those whose age the pass cannot read or that it cannot       *)
(* remove.                                                                 *)
GcStart ==
  /\ gc.at = "idle"
  /\ mode = "startup" => \A w \in Writers : writer[w].at = "idle"
  /\ gc' = [IdleGc EXCEPT !.at = "scan", !.funcs = Funcs,
              !.stale = {d \in Digests : wasm[d] = Grace}]
  /\ UNCHANGED <<mode, blobs, pointer, writer, reader>>

GcReadPointerRaw(f) ==  \* mutant: a missing pointer is a reference
  /\ gc.at = "scan"
  /\ f \in gc.funcs
  /\ gc' = [gc EXCEPT !.funcs = @ \ {f}, !.referenced = @ \cup {pointer[f]}]
  /\ UNCHANGED <<mode, blobs, pointer, writer, reader>>

(* Pass 1 reads one pointer at a time.                                     *)
GcReadPointer(f) ==
  /\ gc.at = "scan"
  /\ f \in gc.funcs
  /\ gc' = [gc EXCEPT !.funcs = @ \ {f},
              !.referenced = @ \cup ({pointer[f]} \ {None})]
  /\ UNCHANGED <<mode, blobs, pointer, writer, reader>>

(* A pointer that cannot be read ends the pass before anything is deleted; *)
(* a directory that cannot be listed ends it wherever it is.               *)
GcAborts ==
  /\ gc.at # "idle" /\ gc.doomed = None
  /\ gc' = IdleGc
  /\ UNCHANGED <<mode, blobs, pointer, writer, reader>>

GcSweep(from, to) ==
  /\ gc.at = from
  /\ gc.funcs = {} /\ gc.left = {} /\ gc.doomed = None
  /\ gc' = IF to = "idle" THEN IdleGc
           ELSE [gc EXCEPT !.at = to, !.left = Digests]
  /\ UNCHANGED <<mode, blobs, pointer, writer, reader>>

AnyAge(d, age) == age # Absent /\ d \notin gc.referenced  \* mutant: no grace
NotReferencedNow(d, age) ==  \* mutant: everything old goes
  age = Grace
Collectible(d, age) == age = Grace /\ d \notin gc.referenced

(* Pass 2 looks at one file of a directory...                              *)
GcJudge(dir, age, d) ==
  /\ gc.at = dir
  /\ d \in gc.left
  /\ gc.doomed = None
  /\ gc' = [gc EXCEPT !.left = @ \ {d},
              !.doomed = IF Collectible(d, age[d]) THEN d ELSE None]
  /\ UNCHANGED <<mode, blobs, pointer, writer, reader>>

SkippedToo(d) == IF gc.at = "wasm" THEN gc.skipped \cup {d} ELSE gc.skipped

(* ... passes over one that it would collect if it could read its age,     *)
GcCannotStat(dir, age, d) ==
  /\ gc.at = dir
  /\ d \in gc.left
  /\ gc.doomed = None
  /\ Collectible(d, age[d])
  /\ gc' = [gc EXCEPT !.left = @ \ {d}, !.skipped = SkippedToo(d)]
  /\ UNCHANGED <<mode, blobs, pointer, writer, reader>>

(* ... and then removes it, if it was collectible,                         *)
GcRemove ==
  /\ gc.doomed # None
  /\ IF gc.at = "wasm"
     THEN wasm' = [wasm EXCEPT ![gc.doomed] = Absent] /\ UNCHANGED cwasm
     ELSE cwasm' = [cwasm EXCEPT ![gc.doomed] = Absent] /\ UNCHANGED wasm
  /\ gc' = [gc EXCEPT !.doomed = None]
  /\ UNCHANGED <<mode, pointer, writer, reader>>

GcStopsAtFailure ==  \* mutant: the rest of the directory is given up
  /\ gc.doomed # None
  /\ gc' = [gc EXCEPT !.doomed = None, !.left = {}, !.skipped = SkippedToo(gc.doomed)]
  /\ UNCHANGED <<mode, blobs, pointer, writer, reader>>
(* ... or fails to remove it and goes on.                                  *)
GcCannotRemove ==
  /\ gc.doomed # None
  /\ gc' = [gc EXCEPT !.doomed = None, !.skipped = SkippedToo(gc.doomed)]
  /\ UNCHANGED <<mode, blobs, pointer, writer, reader>>

Gc ==
  \/ GcStart \/ GcAborts \/ GcRemove \/ GcCannotRemove
  \/ \E f \in Funcs : GcReadPointer(f)
  \/ GcSweep("scan", "wasm") \/ GcSweep("wasm", "cwasm") \/ GcSweep("cwasm", "idle")
  \/ \E d \in Digests :
       \/ GcJudge("wasm", wasm, d) \/ GcJudge("cwasm", cwasm, d)
       \/ GcCannotStat("wasm", wasm, d) \/ GcCannotStat("cwasm", cwasm, d)

-----------------------------------------------------------------------------
(* Time passes.  An upload and a pass of the collector together take less  *)
(* than the grace period, which is chosen "comfortably longer".            *)
Tick ==
  /\ \A w \in Writers : writer[w].at # "idle" => writer[w].since < Window
  /\ gc.at # "idle" => gc.since < GcWindow
  /\ wasm' = [d \in Digests |-> Older(wasm[d])]
  /\ cwasm' = [d \in Digests |-> Older(cwasm[d])]
  /\ writer' = [w \in Writers |->
                  IF writer[w].at = "idle" THEN writer[w]
                  ELSE [writer[w] EXCEPT !.since = @ + 1]]
  /\ gc' = IF gc.at = "idle" THEN gc ELSE [gc EXCEPT !.since = @ + 1]
  /\ UNCHANGED <<mode, pointer, reader>>

(* The process that uploads and collects dies between two steps.           *)
Crash ==
  /\ gc.at # "idle" \/ \E w \in Writers : writer[w].at # "idle"
  /\ writer' = [w \in Writers |-> IdleWriter]
  /\ gc' = IdleGc
  /\ UNCHANGED <<mode, blobs, pointer, reader>>

(* An artifact goes missing, or an engine upgrade makes it unloadable.     *)
LoseCwasm(d) ==
  /\ cwasm[d] # Absent
  /\ cwasm' = [cwasm EXCEPT ![d] = Absent]
  /\ UNCHANGED <<mode, wasm, pointer, writer, reader, gc>>

Init ==
  /\ mode \in Modes
  /\ wasm = [d \in Digests |-> Absent]
  /\ cwasm = [d \in Digests |-> Absent]
  /\ pointer = [f \in Funcs |-> None]
  /\ writer = [w \in Writers |-> IdleWriter]
  /\ reader = [r \in Readers |-> IdleReader]
  /\ gc = IdleGc

Next ==
  \/ \E w \in Writers :
       \/ \E d \in Digests : Compile(w, d) \/ CheckStored(w, d)
       \/ WriteCwasm(w) \/ WriteSource(w) \/ Discard(w)
       \/ \E f \in Funcs : WritePointer(w, f)
  \/ \E f \in Funcs : RemovePointer(f)
  \/ \E r \in Readers :
       \/ \E f \in Funcs : Resolve(r, f)
       \/ LoadExisting(r) \/ ReadSource(r) \/ Republish(r) \/ ReturnError(r)
  \/ Gc
  \/ Tick
  \/ Crash
  \/ \E d \in Digests : LoseCwasm(d)

Spec == Init /\ [][Next]_vars

-----------------------------------------------------------------------------
(* Types: every writer, reader and gc pass stands where registry.rs can    *)
(* leave it, and its clock stays in its window.                            *)
TypeOK ==
  /\ mode \in Modes
  /\ wasm \in [Digests -> Ages]
  /\ cwasm \in [Digests -> Ages]
  /\ pointer \in [Funcs -> Digests \cup {None}]
  /\ writer \in [Writers ->
       [at : {"idle", "persist", "touch", "source", "staged", "checked"},
        digest : Digests \cup {None}, since : 0..Window]]
  /\ reader \in [Readers ->
       [at : {"idle", "load", "compile", "persist", "corrupt"},
        func : Funcs \cup {None}, digest : Digests \cup {None}]]
  /\ gc \in [at : {"idle", "scan", "wasm", "cwasm"}, funcs : SUBSET Funcs,
             referenced : SUBSET Digests, left : SUBSET Digests,
             doomed : Digests \cup {None}, stale : SUBSET Digests,
             skipped : SUBSET Digests, since : 0..GcWindow]

(* A pointer always has its source on disk, so its function can always be  *)
(* recompiled: neither a crash between staging and activating nor a gc     *)
(* that read the pointers before they moved removes it.                    *)
NoDanglingPointer ==
  \A f \in Funcs : pointer[f] # None => wasm[pointer[f]] # Absent

(* An invocation finds neither artifact nor source only when the function  *)
(* was re-pointed after it resolved its digest.                            *)
LoadFailsOnlyIfSuperseded ==
  [][ \A r \in Readers :
        reader[r].at = "compile" /\ reader'[r].at = "corrupt"
          => pointer[reader[r].func] # reader[r].digest ]_vars

(* A pass that runs to its end before serving leaves no source that was    *)
(* past its grace period when it began and that no pointer references,     *)
(* but those it could not stat or remove itself: what crashed and refused  *)
(* uploads left does not leak, and one bad file does not keep the others.  *)
GcCollectsLeaks ==
  [][ (mode = "startup" /\ gc.at = "cwasm" /\ GcSweep("cwasm", "idle"))
        => \A d \in gc.stale \ gc.skipped :
             wasm[d] # Absent => \E f \in Funcs : pointer[f] = d ]_vars

(* What write_wasm_source documents: a stored source it touched is left    *)
(* alone by "a GC pass racing this upload", for the pointer to come.       *)
StagedSourceKept ==
  \A w \in Writers : writer[w].at = "staged" => wasm[writer[w].digest] # Absent

-----------------------------------------------------------------------------
(* The inductive invariant behind NoDanglingPointer and the two action     *)
(* properties.                                                             *)

(* Whoever is at work is at work on a digest.                              *)
AtWorkOnDigest ==
  /\ \A w \in Writers : writer[w].at # "idle" => writer[w].digest \in Digests
  /\ \A r \in Readers :
       reader[r].at # "idle" => reader[r].func \in Funcs /\ reader[r].digest \in Digests

StartupIsExclusive ==
  mode = "startup" /\ gc.at # "idle" => \A w \in Writers : writer[w].at = "idle"

ScanIsOver == gc.at \in {"wasm", "cwasm"} => gc.funcs = {}

(* While a collector has the disk for itself, what it read is still so,    *)
(* and it removed every stale source it looked at that has no pointer and  *)
(* did not fail it.                                                        *)
CollectedSoFar ==
  mode = "startup" /\ gc.at # "idle" =>
    /\ \A d \in gc.referenced : \E f \in Funcs : pointer[f] = d
    /\ \A d \in gc.stale :
         /\ wasm[d] \in {Grace, Absent}
         /\ gc.at \in {"wasm", "cwasm"} /\ d \notin gc.referenced
              => \/ wasm[d] = Absent \/ d \in gc.skipped
                 \/ gc.at = "wasm" /\ d \in gc.left \cup {gc.doomed}

(* A source that a new component's upload finds there is younger than the  *)
(* upload.                                                                 *)
YoungerThanUpload ==
  mode = "fresh" => \A w \in Writers :
    writer[w].at # "idle" /\ wasm[writer[w].digest] # Absent
      => wasm[writer[w].digest] <= writer[w].since

ReadyHasSource ==
  \A w \in Writers :
    writer[w].at \in {"staged", "checked"} => wasm[writer[w].digest] # Absent

(* A pointer that moved after the collector read it moved to a source too  *)
(* young for this pass.                                                    *)
MissedIsYoung ==
  gc.at # "idle" => \A f \in Funcs \ gc.funcs :
    \/ pointer[f] \in gc.referenced \cup {None}
    \/ /\ mode = "fresh"
       /\ wasm[pointer[f]] # Absent /\ wasm[pointer[f]] <= Window + gc.since

DoomedIsLost ==
  gc.at = "wasm" /\ gc.doomed # None =>
    wasm[gc.doomed] = Grace /\ \A f \in Funcs : pointer[f] # gc.doomed

IInv ==
  /\ TypeOK
  /\ AtWorkOnDigest
  /\ StartupIsExclusive
  /\ ScanIsOver
  /\ CollectedSoFar
  /\ mode # "any" =>
       /\ YoungerThanUpload
       /\ ReadyHasSource
       /\ MissedIsYoung
       /\ DoomedIsLost
       /\ NoDanglingPointer
=============================================================================
