--------------------------- MODULE RegistryProofs ---------------------------
(***************************************************************************)
(* The registry's pointers and its collector, for any digests, functions,  *)
(* writers and readers, and any windows that fit into the grace period.    *)
(***************************************************************************)
EXTENDS Registry, TLAPS

-----------------------------------------------------------------------------
(* Ages and windows.                                                       *)
LEMMA AgeFacts ==
  /\ Grace \in Nat /\ Window \in Nat /\ GcWindow \in Nat
  /\ Window + GcWindow < Grace /\ Window < Grace
  /\ Grace \in Ages /\ 0 \in Ages /\ Absent \in Ages
  /\ Grace # Absent /\ 0 # Absent
  /\ \A a \in Ages : a # Absent => a \in Nat /\ a <= Grace
  /\ \A a \in Ages :
       /\ Older(a) \in Ages
       /\ Older(a) = Absent <=> a = Absent
       /\ a = Grace => Older(a) = Grace
       /\ a # Absent => Older(a) <= a + 1
BY RegistryAssumption DEF Ages, Older

(* Every step keeps the types; nobody outlives its window.                 *)
LEMMA TypeStep ==
  ASSUME TypeOK, AtWorkOnDigest, [Next]_vars
  PROVE  TypeOK'
<1> USE AgeFacts DEF TypeOK, blobs, IdleWriter, IdleReader, IdleGc, Step
<1>1. ASSUME NEW w \in Writers, NEW d \in Digests, Compile(w, d)
      PROVE  TypeOK'
  BY <1>1 DEF Compile
<1>2. ASSUME NEW w \in Writers, NEW d \in Digests, CheckStored(w, d)
      PROVE  TypeOK'
  BY <1>2 DEF CheckStored
<1>3. ASSUME NEW w \in Writers, WriteCwasm(w)
      PROVE  TypeOK'
  <2> DEFINE d == writer[w].digest
             age == IF writer[w].at = "touch" /\ cwasm[d] = Absent THEN cwasm[d] ELSE 0
  <2>1. cwasm' = [cwasm EXCEPT ![d] = age] /\ writer' = [writer EXCEPT ![w].at = "source"]
    BY <1>3 DEF WriteCwasm
  <2>2. UNCHANGED <<mode, wasm, pointer, reader, gc>>
    BY <1>3 DEF WriteCwasm
  <2>3. cwasm' \in [Digests -> Ages]
    BY <2>1
  <2> QED BY <2>1, <2>2, <2>3
<1>4. ASSUME NEW w \in Writers, WriteSource(w)
      PROVE  TypeOK'
  <2>1. wasm' \in [Digests -> Ages] /\ writer' = [writer EXCEPT ![w].at = "staged"]
    BY <1>4 DEF WriteSource
  <2> QED BY <1>4, <2>1 DEF WriteSource
<1>5. ASSUME NEW w \in Writers, Discard(w)
      PROVE  TypeOK'
  BY <1>5 DEF Discard
<1>6. ASSUME NEW w \in Writers, NEW f \in Funcs, WritePointer(w, f)
      PROVE  TypeOK'
  BY <1>6 DEF WritePointer
<1>7. ASSUME NEW f \in Funcs, RemovePointer(f)
      PROVE  TypeOK'
  BY <1>7 DEF RemovePointer
<1>8. ASSUME NEW r \in Readers, NEW f \in Funcs, Resolve(r, f)
      PROVE  TypeOK'
  BY <1>8 DEF Resolve
<1>9. ASSUME NEW r \in Readers, LoadExisting(r)
      PROVE  TypeOK'
  BY <1>9 DEF LoadExisting
<1>10. ASSUME NEW r \in Readers, ReadSource(r)
       PROVE  TypeOK'
  BY <1>10 DEF ReadSource
<1>11. ASSUME NEW r \in Readers, Republish(r)
       PROVE  TypeOK'
  BY <1>11 DEF Republish
<1>12. ASSUME NEW r \in Readers, ReturnError(r)
       PROVE  TypeOK'
  BY <1>12 DEF ReturnError
<1>13. CASE GcStart
  <2>1. gc' = [at |-> "scan", funcs |-> Funcs, referenced |-> {}, left |-> {},
               doomed |-> None, stale |-> {d \in Digests : wasm[d] = Grace},
               skipped |-> {}, since |-> 0]
    BY <1>13 DEF GcStart
  <2>2. UNCHANGED <<mode, wasm, cwasm, pointer, writer, reader>>
    BY <1>13 DEF GcStart
  <2> QED BY <2>1, <2>2
<1>14. CASE GcAborts
  BY <1>14 DEF GcAborts
<1>15. CASE GcRemove
  BY <1>15 DEF GcRemove
<1>16. ASSUME NEW f \in Funcs, GcReadPointer(f)
       PROVE  TypeOK'
  <2>1. gc' = [gc EXCEPT !.funcs = gc'.funcs, !.referenced = gc'.referenced]
        /\ gc'.funcs \subseteq Funcs /\ gc'.referenced \subseteq Digests
    BY <1>16 DEF GcReadPointer
  <2> QED BY <1>16, <2>1 DEF GcReadPointer
<1>17. CASE GcSweep("scan", "wasm")
  BY <1>17 DEF GcSweep
<1>18. CASE GcSweep("wasm", "cwasm")
  BY <1>18 DEF GcSweep
<1>19. CASE GcSweep("cwasm", "idle")
  BY <1>19 DEF GcSweep
<1>20. ASSUME NEW d \in Digests, GcJudge("wasm", wasm, d)
       PROVE  TypeOK'
  BY <1>20 DEF GcJudge
<1>21. ASSUME NEW d \in Digests, GcJudge("cwasm", cwasm, d)
       PROVE  TypeOK'
  BY <1>21 DEF GcJudge
<1>22. CASE Tick
  <2>1. wasm' \in [Digests -> Ages] /\ cwasm' \in [Digests -> Ages]
    BY <1>22 DEF Tick
  <2>2. \A w \in Writers : writer'[w] \in
          [at : {"idle", "persist", "touch", "source", "staged", "checked"},
           digest : Digests \cup {None}, since : 0..Window]
    <3> SUFFICES ASSUME NEW w \in Writers
                 PROVE  writer'[w] \in
                   [at : {"idle", "persist", "touch", "source", "staged", "checked"},
                    digest : Digests \cup {None}, since : 0..Window]
      OBVIOUS
    <3>1. CASE writer[w].at = "idle"
      BY <1>22, <3>1 DEF Tick
    <3>2. CASE writer[w].at # "idle"
      <4>1. writer'[w] = [writer[w] EXCEPT !.since = @ + 1]
        BY <1>22, <3>2 DEF Tick
      <4>2. writer[w].since \in 0..Window /\ writer[w].since < Window
        BY <1>22, <3>2 DEF Tick
      <4> QED BY <4>1, <4>2
    <3> QED BY <3>1, <3>2
  <2>3. writer' = [w \in Writers |-> writer'[w]]
    BY <1>22 DEF Tick
  <2>4. gc' \in [at : {"idle", "scan", "wasm", "cwasm"}, funcs : SUBSET Funcs,
               referenced : SUBSET Digests, left : SUBSET Digests,
               doomed : Digests \cup {None}, stale : SUBSET Digests,
               skipped : SUBSET Digests, since : 0..GcWindow]
    <3>1. CASE gc.at = "idle"
      BY <1>22, <3>1 DEF Tick
    <3>2. CASE gc.at # "idle"
      <4>1. gc' = [gc EXCEPT !.since = @ + 1]
        BY <1>22, <3>2 DEF Tick
      <4>2. gc.since \in 0..GcWindow /\ gc.since < GcWindow
        BY <1>22, <3>2 DEF Tick
      <4> QED BY <4>1, <4>2
    <3> QED BY <3>1, <3>2
  <2> QED BY <1>22, <2>1, <2>2, <2>3, <2>4 DEF Tick
<1>23. CASE Crash
  BY <1>23 DEF Crash
<1>24. ASSUME NEW d \in Digests, LoseCwasm(d)
       PROVE  TypeOK'
  BY <1>24 DEF LoseCwasm
<1>25. CASE UNCHANGED vars
  BY <1>25 DEF vars
<1>26. CASE GcCannotRemove
  BY <1>26 DEF GcCannotRemove, SkippedToo
<1>27. ASSUME NEW d \in Digests, GcCannotStat("wasm", wasm, d)
       PROVE  TypeOK'
  BY <1>27 DEF GcCannotStat, SkippedToo
<1>28. ASSUME NEW d \in Digests, GcCannotStat("cwasm", cwasm, d)
       PROVE  TypeOK'
  BY <1>28 DEF GcCannotStat, SkippedToo
<1> QED
  BY <1>1, <1>2, <1>3, <1>4, <1>5, <1>6, <1>7, <1>8, <1>9, <1>10, <1>11, <1>12,
     <1>13, <1>14, <1>15, <1>16, <1>17, <1>18, <1>19, <1>20, <1>21, <1>22, <1>23,
     <1>24, <1>25, <1>26, <1>27,
     <1>28 DEF Next, Gc

(* Nobody works without a digest.                                          *)
LEMMA WorkStep ==
  ASSUME TypeOK, AtWorkOnDigest, [Next]_vars
  PROVE  AtWorkOnDigest'
<1> USE AgeFacts DEF TypeOK, blobs, IdleWriter, IdleReader, IdleGc, Step, AtWorkOnDigest
<1>1. ASSUME NEW w \in Writers, NEW d \in Digests, Compile(w, d)
      PROVE  AtWorkOnDigest'
  BY <1>1 DEF Compile
<1>2. ASSUME NEW w \in Writers, NEW d \in Digests, CheckStored(w, d)
      PROVE  AtWorkOnDigest'
  BY <1>2 DEF CheckStored
<1>3. ASSUME NEW w \in Writers, WriteCwasm(w)
      PROVE  AtWorkOnDigest'
  BY <1>3 DEF WriteCwasm
<1>4. ASSUME NEW w \in Writers, WriteSource(w)
      PROVE  AtWorkOnDigest'
  BY <1>4 DEF WriteSource
<1>5. ASSUME NEW w \in Writers, Discard(w)
      PROVE  AtWorkOnDigest'
  BY <1>5 DEF Discard
<1>6. ASSUME NEW w \in Writers, NEW f \in Funcs, WritePointer(w, f)
      PROVE  AtWorkOnDigest'
  BY <1>6 DEF WritePointer
<1>7. ASSUME NEW f \in Funcs, RemovePointer(f)
      PROVE  AtWorkOnDigest'
  BY <1>7 DEF RemovePointer
<1>8. ASSUME NEW r \in Readers, NEW f \in Funcs, Resolve(r, f)
      PROVE  AtWorkOnDigest'
  BY <1>8 DEF Resolve
<1>9. ASSUME NEW r \in Readers, LoadExisting(r)
      PROVE  AtWorkOnDigest'
  BY <1>9 DEF LoadExisting
<1>10. ASSUME NEW r \in Readers, ReadSource(r)
       PROVE  AtWorkOnDigest'
  BY <1>10 DEF ReadSource
<1>11. ASSUME NEW r \in Readers, Republish(r)
       PROVE  AtWorkOnDigest'
  BY <1>11 DEF Republish
<1>12. ASSUME NEW r \in Readers, ReturnError(r)
       PROVE  AtWorkOnDigest'
  BY <1>12 DEF ReturnError
<1>13. CASE GcStart
  BY <1>13 DEF GcStart
<1>14. CASE GcAborts
  BY <1>14 DEF GcAborts
<1>15. CASE GcRemove
  BY <1>15 DEF GcRemove
<1>16. ASSUME NEW f \in Funcs, GcReadPointer(f)
       PROVE  AtWorkOnDigest'
  BY <1>16 DEF GcReadPointer
<1>17. CASE GcSweep("scan", "wasm")
  BY <1>17 DEF GcSweep
<1>18. CASE GcSweep("wasm", "cwasm")
  BY <1>18 DEF GcSweep
<1>19. CASE GcSweep("cwasm", "idle")
  BY <1>19 DEF GcSweep
<1>20. ASSUME NEW d \in Digests, GcJudge("wasm", wasm, d)
       PROVE  AtWorkOnDigest'
  BY <1>20 DEF GcJudge
<1>21. ASSUME NEW d \in Digests, GcJudge("cwasm", cwasm, d)
       PROVE  AtWorkOnDigest'
  BY <1>21 DEF GcJudge
<1>22. CASE Tick
  BY <1>22 DEF Tick
<1>23. CASE Crash
  BY <1>23 DEF Crash
<1>24. ASSUME NEW d \in Digests, LoseCwasm(d)
       PROVE  AtWorkOnDigest'
  BY <1>24 DEF LoseCwasm
<1>25. CASE UNCHANGED vars
  BY <1>25 DEF vars
<1>26. CASE GcCannotRemove
  BY <1>26 DEF GcCannotRemove, SkippedToo
<1>27. ASSUME NEW d \in Digests, GcCannotStat("wasm", wasm, d)
       PROVE  AtWorkOnDigest'
  BY <1>27 DEF GcCannotStat, SkippedToo
<1>28. ASSUME NEW d \in Digests, GcCannotStat("cwasm", cwasm, d)
       PROVE  AtWorkOnDigest'
  BY <1>28 DEF GcCannotStat, SkippedToo
<1> QED
  BY <1>1, <1>2, <1>3, <1>4, <1>5, <1>6, <1>7, <1>8, <1>9, <1>10, <1>11, <1>12,
     <1>13, <1>14, <1>15, <1>16, <1>17, <1>18, <1>19, <1>20, <1>21, <1>22, <1>23,
     <1>24, <1>25, <1>26, <1>27,
     <1>28 DEF Next, Gc

(* In a startup pass nobody writes, and its scan ends before its sweeps.   *)
LEMMA ExclusiveStep ==
  ASSUME TypeOK, StartupIsExclusive, ScanIsOver, [Next]_vars
  PROVE  (StartupIsExclusive /\ ScanIsOver)'
<1> USE AgeFacts DEF TypeOK, blobs, IdleWriter, IdleReader, IdleGc, Step, MayWrite,
        StartupIsExclusive, ScanIsOver
<1>1. ASSUME NEW w \in Writers, NEW d \in Digests, Compile(w, d)
      PROVE  (StartupIsExclusive /\ ScanIsOver)'
  BY <1>1 DEF Compile
<1>2. ASSUME NEW w \in Writers, NEW d \in Digests, CheckStored(w, d)
      PROVE  (StartupIsExclusive /\ ScanIsOver)'
  BY <1>2 DEF CheckStored
<1>3. ASSUME NEW w \in Writers, WriteCwasm(w)
      PROVE  (StartupIsExclusive /\ ScanIsOver)'
  BY <1>3 DEF WriteCwasm
<1>4. ASSUME NEW w \in Writers, WriteSource(w)
      PROVE  (StartupIsExclusive /\ ScanIsOver)'
  BY <1>4 DEF WriteSource
<1>5. ASSUME NEW w \in Writers, Discard(w)
      PROVE  (StartupIsExclusive /\ ScanIsOver)'
  BY <1>5 DEF Discard
<1>6. ASSUME NEW w \in Writers, NEW f \in Funcs, WritePointer(w, f)
      PROVE  (StartupIsExclusive /\ ScanIsOver)'
  BY <1>6 DEF WritePointer
<1>7. ASSUME NEW f \in Funcs, RemovePointer(f)
      PROVE  (StartupIsExclusive /\ ScanIsOver)'
  BY <1>7 DEF RemovePointer
<1>8. ASSUME NEW r \in Readers, NEW f \in Funcs, Resolve(r, f)
      PROVE  (StartupIsExclusive /\ ScanIsOver)'
  BY <1>8 DEF Resolve
<1>9. ASSUME NEW r \in Readers, LoadExisting(r)
      PROVE  (StartupIsExclusive /\ ScanIsOver)'
  BY <1>9 DEF LoadExisting
<1>10. ASSUME NEW r \in Readers, ReadSource(r)
       PROVE  (StartupIsExclusive /\ ScanIsOver)'
  BY <1>10 DEF ReadSource
<1>11. ASSUME NEW r \in Readers, Republish(r)
       PROVE  (StartupIsExclusive /\ ScanIsOver)'
  BY <1>11 DEF Republish
<1>12. ASSUME NEW r \in Readers, ReturnError(r)
       PROVE  (StartupIsExclusive /\ ScanIsOver)'
  BY <1>12 DEF ReturnError
<1>13. CASE GcStart
  BY <1>13 DEF GcStart
<1>14. CASE GcAborts
  BY <1>14 DEF GcAborts
<1>15. CASE GcRemove
  BY <1>15 DEF GcRemove
<1>16. ASSUME NEW f \in Funcs, GcReadPointer(f)
       PROVE  (StartupIsExclusive /\ ScanIsOver)'
  BY <1>16 DEF GcReadPointer
<1>17. CASE GcSweep("scan", "wasm")
  BY <1>17 DEF GcSweep
<1>18. CASE GcSweep("wasm", "cwasm")
  BY <1>18 DEF GcSweep
<1>19. CASE GcSweep("cwasm", "idle")
  BY <1>19 DEF GcSweep
<1>20. ASSUME NEW d \in Digests, GcJudge("wasm", wasm, d)
       PROVE  (StartupIsExclusive /\ ScanIsOver)'
  BY <1>20 DEF GcJudge
<1>21. ASSUME NEW d \in Digests, GcJudge("cwasm", cwasm, d)
       PROVE  (StartupIsExclusive /\ ScanIsOver)'
  BY <1>21 DEF GcJudge
<1>22. CASE Tick
  BY <1>22 DEF Tick
<1>23. CASE Crash
  BY <1>23 DEF Crash
<1>24. ASSUME NEW d \in Digests, LoseCwasm(d)
       PROVE  (StartupIsExclusive /\ ScanIsOver)'
  BY <1>24 DEF LoseCwasm
<1>25. CASE UNCHANGED vars
  BY <1>25 DEF vars
<1>26. CASE GcCannotRemove
  BY <1>26 DEF GcCannotRemove, SkippedToo
<1>27. ASSUME NEW d \in Digests, GcCannotStat("wasm", wasm, d)
       PROVE  (StartupIsExclusive /\ ScanIsOver)'
  BY <1>27 DEF GcCannotStat, SkippedToo
<1>28. ASSUME NEW d \in Digests, GcCannotStat("cwasm", cwasm, d)
       PROVE  (StartupIsExclusive /\ ScanIsOver)'
  BY <1>28 DEF GcCannotStat, SkippedToo
<1> QED
  BY <1>1, <1>2, <1>3, <1>4, <1>5, <1>6, <1>7, <1>8, <1>9, <1>10, <1>11, <1>12,
     <1>13, <1>14, <1>15, <1>16, <1>17, <1>18, <1>19, <1>20, <1>21, <1>22, <1>23,
     <1>24, <1>25, <1>26, <1>27,
     <1>28 DEF Next, Gc

(* What a startup pass has looked at and left has a pointer.               *)
LEMMA CollectedStep ==
  ASSUME TypeOK, AtWorkOnDigest, StartupIsExclusive, ScanIsOver, CollectedSoFar, [Next]_vars
  PROVE  CollectedSoFar'
<1> USE AgeFacts DEF TypeOK, blobs, IdleWriter, IdleReader, IdleGc, Step, MayWrite,
        StartupIsExclusive, ScanIsOver, CollectedSoFar, Collectible
<1>1. ASSUME NEW w \in Writers, NEW d \in Digests, Compile(w, d)
      PROVE  CollectedSoFar'
  BY <1>1 DEF Compile
<1>2. ASSUME NEW w \in Writers, NEW d \in Digests, CheckStored(w, d)
      PROVE  CollectedSoFar'
  BY <1>2 DEF CheckStored
<1>3. ASSUME NEW w \in Writers, WriteCwasm(w)
      PROVE  CollectedSoFar'
  BY <1>3 DEF WriteCwasm
<1>4. ASSUME NEW w \in Writers, WriteSource(w)
      PROVE  CollectedSoFar'
  BY <1>4 DEF WriteSource
<1>5. ASSUME NEW w \in Writers, Discard(w)
      PROVE  CollectedSoFar'
  BY <1>5 DEF Discard
<1>6. ASSUME NEW w \in Writers, NEW f \in Funcs, WritePointer(w, f)
      PROVE  CollectedSoFar'
  BY <1>6 DEF WritePointer
<1>7. ASSUME NEW f \in Funcs, RemovePointer(f)
      PROVE  CollectedSoFar'
  BY <1>7 DEF RemovePointer
<1>8. ASSUME NEW r \in Readers, NEW f \in Funcs, Resolve(r, f)
      PROVE  CollectedSoFar'
  BY <1>8 DEF Resolve
<1>9. ASSUME NEW r \in Readers, LoadExisting(r)
      PROVE  CollectedSoFar'
  BY <1>9 DEF LoadExisting
<1>10. ASSUME NEW r \in Readers, ReadSource(r)
       PROVE  CollectedSoFar'
  BY <1>10 DEF ReadSource
<1>11. ASSUME NEW r \in Readers, Republish(r)
       PROVE  CollectedSoFar'
  BY <1>11 DEF Republish
<1>12. ASSUME NEW r \in Readers, ReturnError(r)
       PROVE  CollectedSoFar'
  BY <1>12 DEF ReturnError
<1>13. CASE GcStart
  BY <1>13 DEF GcStart
<1>14. CASE GcAborts
  BY <1>14 DEF GcAborts
<1>15. CASE GcRemove
  BY <1>15 DEF GcRemove
<1>16. ASSUME NEW f \in Funcs, GcReadPointer(f)
       PROVE  CollectedSoFar'
  <2>1. /\ gc'.at = gc.at /\ gc'.stale = gc.stale /\ gc.at = "scan"
        /\ gc'.referenced = gc.referenced \cup ({pointer[f]} \ {None})
    BY <1>16 DEF GcReadPointer
  <2>2. UNCHANGED <<mode, wasm, pointer>>
    BY <1>16 DEF GcReadPointer
  <2> QED BY <2>1, <2>2
<1>17. CASE GcSweep("scan", "wasm")
  <2>1. /\ gc.at = "scan" /\ gc'.at = "wasm" /\ gc'.stale = gc.stale
        /\ gc'.referenced = gc.referenced /\ gc'.left = Digests
    BY <1>17 DEF GcSweep
  <2>2. gc.stale \subseteq Digests /\ UNCHANGED <<mode, wasm, pointer>>
    BY <1>17 DEF GcSweep
  <2> QED BY <2>1, <2>2
<1>18. CASE GcSweep("wasm", "cwasm")
  BY <1>18, RegistryAssumption DEF GcSweep
<1>19. CASE GcSweep("cwasm", "idle")
  BY <1>19 DEF GcSweep
<1>20. ASSUME NEW d \in Digests, GcJudge("wasm", wasm, d)
       PROVE  CollectedSoFar'
  BY <1>20, RegistryAssumption DEF GcJudge
<1>21. ASSUME NEW d \in Digests, GcJudge("cwasm", cwasm, d)
       PROVE  CollectedSoFar'
  BY <1>21 DEF GcJudge
<1>22. CASE Tick
  BY <1>22 DEF Tick
<1>23. CASE Crash
  BY <1>23 DEF Crash
<1>24. ASSUME NEW d \in Digests, LoseCwasm(d)
       PROVE  CollectedSoFar'
  BY <1>24 DEF LoseCwasm
<1>25. CASE UNCHANGED vars
  BY <1>25 DEF vars
<1>26. CASE GcCannotRemove
  BY <1>26 DEF GcCannotRemove, SkippedToo
<1>27. ASSUME NEW d \in Digests, GcCannotStat("wasm", wasm, d)
       PROVE  CollectedSoFar'
  BY <1>27 DEF GcCannotStat, SkippedToo
<1>28. ASSUME NEW d \in Digests, GcCannotStat("cwasm", cwasm, d)
       PROVE  CollectedSoFar'
  BY <1>28 DEF GcCannotStat, SkippedToo
<1> QED
  BY <1>1, <1>2, <1>3, <1>4, <1>5, <1>6, <1>7, <1>8, <1>9, <1>10, <1>11, <1>12,
     <1>13, <1>14, <1>15, <1>16, <1>17, <1>18, <1>19, <1>20, <1>21, <1>22, <1>23,
     <1>24, <1>25, <1>26, <1>27,
     <1>28 DEF Next, Gc

-----------------------------------------------------------------------------
(* No pointer dangles unless uploads reuse stored components beside a pass.*)

Races ==
  /\ YoungerThanUpload /\ ReadyHasSource /\ MissedIsYoung
  /\ DoomedIsLost /\ NoDanglingPointer

LEMMA ModeStays == [Next]_vars => mode' = mode
BY DEF Next, Compile, CheckStored, WriteCwasm, WriteSource, Discard, WritePointer,
       RemovePointer, Resolve, LoadExisting, ReadSource, Republish, ReturnError, Gc,
       GcStart, GcAborts, GcRemove, GcCannotRemove, GcReadPointer, GcSweep, GcJudge,
       GcCannotStat, Tick, Crash,
       LoseCwasm, vars, blobs

(* The collector is about to remove a source no upload is at work on.      *)
LEMMA DoomedIsIdle ==
  ASSUME TypeOK, AtWorkOnDigest, StartupIsExclusive, mode # "any", YoungerThanUpload,
         DoomedIsLost, gc.at = "wasm", gc.doomed # None,
         NEW w \in Writers, writer[w].at # "idle"
  PROVE  writer[w].digest # gc.doomed
BY AgeFacts, RegistryAssumption
   DEF TypeOK, AtWorkOnDigest, StartupIsExclusive, YoungerThanUpload, DoomedIsLost, Mode

(* An upload and the source it wrote age together.                         *)
LEMMA YoungStep ==
  ASSUME TypeOK, AtWorkOnDigest, StartupIsExclusive, mode # "any",
         YoungerThanUpload, [Next]_vars
  PROVE  YoungerThanUpload'
<1> USE AgeFacts, RegistryAssumption DEF TypeOK, blobs, IdleWriter, IdleReader, IdleGc, Step,
        MayWrite, AtWorkOnDigest, YoungerThanUpload
<1>1. ASSUME NEW w \in Writers, NEW d \in Digests, Compile(w, d)
      PROVE  YoungerThanUpload'
  BY <1>1 DEF Compile
<1>2. ASSUME NEW w \in Writers, NEW d \in Digests, CheckStored(w, d)
      PROVE  YoungerThanUpload'
  BY <1>2 DEF CheckStored
<1>3. ASSUME NEW w \in Writers, WriteCwasm(w)
      PROVE  YoungerThanUpload'
  BY <1>3 DEF WriteCwasm
<1>4. ASSUME NEW w \in Writers, WriteSource(w)
      PROVE  YoungerThanUpload'
  BY <1>4 DEF WriteSource
<1>5. ASSUME NEW w \in Writers, Discard(w)
      PROVE  YoungerThanUpload'
  BY <1>5 DEF Discard
<1>6. ASSUME NEW w \in Writers, NEW f \in Funcs, WritePointer(w, f)
      PROVE  YoungerThanUpload'
  BY <1>6 DEF WritePointer
<1>7. ASSUME NEW f \in Funcs, RemovePointer(f)
      PROVE  YoungerThanUpload'
  BY <1>7 DEF RemovePointer
<1>8. ASSUME NEW r \in Readers, NEW f \in Funcs, Resolve(r, f)
      PROVE  YoungerThanUpload'
  BY <1>8 DEF Resolve
<1>9. ASSUME NEW r \in Readers, LoadExisting(r)
      PROVE  YoungerThanUpload'
  BY <1>9 DEF LoadExisting
<1>10. ASSUME NEW r \in Readers, ReadSource(r)
       PROVE  YoungerThanUpload'
  BY <1>10 DEF ReadSource
<1>11. ASSUME NEW r \in Readers, Republish(r)
       PROVE  YoungerThanUpload'
  BY <1>11 DEF Republish
<1>12. ASSUME NEW r \in Readers, ReturnError(r)
       PROVE  YoungerThanUpload'
  BY <1>12 DEF ReturnError
<1>13. CASE GcStart
  BY <1>13 DEF GcStart
<1>14. CASE GcAborts
  BY <1>14 DEF GcAborts
<1>15. CASE GcRemove
  BY <1>15 DEF GcRemove
<1>16. ASSUME NEW f \in Funcs, GcReadPointer(f)
       PROVE  YoungerThanUpload'
  BY <1>16 DEF GcReadPointer
<1>17. CASE GcSweep("scan", "wasm")
  BY <1>17 DEF GcSweep
<1>18. CASE GcSweep("wasm", "cwasm")
  BY <1>18 DEF GcSweep
<1>19. CASE GcSweep("cwasm", "idle")
  BY <1>19 DEF GcSweep
<1>20. ASSUME NEW d \in Digests, GcJudge("wasm", wasm, d)
       PROVE  YoungerThanUpload'
  BY <1>20 DEF GcJudge
<1>21. ASSUME NEW d \in Digests, GcJudge("cwasm", cwasm, d)
       PROVE  YoungerThanUpload'
  BY <1>21 DEF GcJudge
<1>22. CASE Tick
  BY <1>22 DEF Tick
<1>23. CASE Crash
  BY <1>23 DEF Crash
<1>24. ASSUME NEW d \in Digests, LoseCwasm(d)
       PROVE  YoungerThanUpload'
  BY <1>24 DEF LoseCwasm
<1>25. CASE UNCHANGED vars
  BY <1>25 DEF vars
<1>26. CASE GcCannotRemove
  BY <1>26 DEF GcCannotRemove, SkippedToo
<1>27. ASSUME NEW d \in Digests, GcCannotStat("wasm", wasm, d)
       PROVE  YoungerThanUpload'
  BY <1>27 DEF GcCannotStat, SkippedToo
<1>28. ASSUME NEW d \in Digests, GcCannotStat("cwasm", cwasm, d)
       PROVE  YoungerThanUpload'
  BY <1>28 DEF GcCannotStat, SkippedToo
<1> QED
  BY <1>1, <1>2, <1>3, <1>4, <1>5, <1>6, <1>7, <1>8, <1>9, <1>10, <1>11, <1>12,
     <1>13, <1>14, <1>15, <1>16, <1>17, <1>18, <1>19, <1>20, <1>21, <1>22, <1>23,
     <1>24, <1>25, <1>26, <1>27,
     <1>28 DEF Next, Gc

(* A staged source is not collected: a pass of its deployment is over, or  *)
(* the source is too young.                                                *)
LEMMA ReadyStep ==
  ASSUME TypeOK, AtWorkOnDigest, StartupIsExclusive, mode # "any",
         YoungerThanUpload, DoomedIsLost, ReadyHasSource, [Next]_vars
  PROVE  ReadyHasSource'
<1> USE AgeFacts, RegistryAssumption DEF TypeOK, blobs, IdleWriter, IdleReader, IdleGc, Step,
        MayWrite, AtWorkOnDigest, ReadyHasSource
<1>1. ASSUME NEW w \in Writers, NEW d \in Digests, Compile(w, d)
      PROVE  ReadyHasSource'
  BY <1>1 DEF Compile
<1>2. ASSUME NEW w \in Writers, NEW d \in Digests, CheckStored(w, d)
      PROVE  ReadyHasSource'
  BY <1>2 DEF CheckStored
<1>3. ASSUME NEW w \in Writers, WriteCwasm(w)
      PROVE  ReadyHasSource'
  BY <1>3 DEF WriteCwasm
<1>4. ASSUME NEW w \in Writers, WriteSource(w)
      PROVE  ReadyHasSource'
  BY <1>4 DEF WriteSource
<1>5. ASSUME NEW w \in Writers, Discard(w)
      PROVE  ReadyHasSource'
  BY <1>5 DEF Discard
<1>6. ASSUME NEW w \in Writers, NEW f \in Funcs, WritePointer(w, f)
      PROVE  ReadyHasSource'
  BY <1>6 DEF WritePointer
<1>7. ASSUME NEW f \in Funcs, RemovePointer(f)
      PROVE  ReadyHasSource'
  BY <1>7 DEF RemovePointer
<1>8. ASSUME NEW r \in Readers, NEW f \in Funcs, Resolve(r, f)
      PROVE  ReadyHasSource'
  BY <1>8 DEF Resolve
<1>9. ASSUME NEW r \in Readers, LoadExisting(r)
      PROVE  ReadyHasSource'
  BY <1>9 DEF LoadExisting
<1>10. ASSUME NEW r \in Readers, ReadSource(r)
       PROVE  ReadyHasSource'
  BY <1>10 DEF ReadSource
<1>11. ASSUME NEW r \in Readers, Republish(r)
       PROVE  ReadyHasSource'
  BY <1>11 DEF Republish
<1>12. ASSUME NEW r \in Readers, ReturnError(r)
       PROVE  ReadyHasSource'
  BY <1>12 DEF ReturnError
<1>13. CASE GcStart
  BY <1>13 DEF GcStart
<1>14. CASE GcAborts
  BY <1>14 DEF GcAborts
<1>15. CASE GcRemove
  BY <1>15, DoomedIsIdle DEF GcRemove
<1>16. ASSUME NEW f \in Funcs, GcReadPointer(f)
       PROVE  ReadyHasSource'
  BY <1>16 DEF GcReadPointer
<1>17. CASE GcSweep("scan", "wasm")
  BY <1>17 DEF GcSweep
<1>18. CASE GcSweep("wasm", "cwasm")
  BY <1>18 DEF GcSweep
<1>19. CASE GcSweep("cwasm", "idle")
  BY <1>19 DEF GcSweep
<1>20. ASSUME NEW d \in Digests, GcJudge("wasm", wasm, d)
       PROVE  ReadyHasSource'
  BY <1>20 DEF GcJudge
<1>21. ASSUME NEW d \in Digests, GcJudge("cwasm", cwasm, d)
       PROVE  ReadyHasSource'
  BY <1>21 DEF GcJudge
<1>22. CASE Tick
  BY <1>22 DEF Tick
<1>23. CASE Crash
  BY <1>23 DEF Crash
<1>24. ASSUME NEW d \in Digests, LoseCwasm(d)
       PROVE  ReadyHasSource'
  BY <1>24 DEF LoseCwasm
<1>25. CASE UNCHANGED vars
  BY <1>25 DEF vars
<1>26. CASE GcCannotRemove
  BY <1>26 DEF GcCannotRemove, SkippedToo
<1>27. ASSUME NEW d \in Digests, GcCannotStat("wasm", wasm, d)
       PROVE  ReadyHasSource'
  BY <1>27 DEF GcCannotStat, SkippedToo
<1>28. ASSUME NEW d \in Digests, GcCannotStat("cwasm", cwasm, d)
       PROVE  ReadyHasSource'
  BY <1>28 DEF GcCannotStat, SkippedToo
<1> QED
  BY <1>1, <1>2, <1>3, <1>4, <1>5, <1>6, <1>7, <1>8, <1>9, <1>10, <1>11, <1>12,
     <1>13, <1>14, <1>15, <1>16, <1>17, <1>18, <1>19, <1>20, <1>21, <1>22, <1>23,
     <1>24, <1>25, <1>26, <1>27,
     <1>28 DEF Next, Gc

(* Only a source without a pointer is removed, and only a stored one gets  *)
(* a pointer.                                                              *)
LEMMA DanglingStep ==
  ASSUME TypeOK, AtWorkOnDigest, StartupIsExclusive, mode # "any",
         ReadyHasSource, DoomedIsLost, NoDanglingPointer, [Next]_vars
  PROVE  NoDanglingPointer'
<1> USE AgeFacts, RegistryAssumption DEF TypeOK, blobs, IdleWriter, IdleReader, IdleGc, Step,
        AtWorkOnDigest, ReadyHasSource, DoomedIsLost, NoDanglingPointer
<1>1. ASSUME NEW w \in Writers, NEW d \in Digests, Compile(w, d)
      PROVE  NoDanglingPointer'
  BY <1>1 DEF Compile
<1>2. ASSUME NEW w \in Writers, NEW d \in Digests, CheckStored(w, d)
      PROVE  NoDanglingPointer'
  BY <1>2 DEF CheckStored
<1>3. ASSUME NEW w \in Writers, WriteCwasm(w)
      PROVE  NoDanglingPointer'
  BY <1>3 DEF WriteCwasm
<1>4. ASSUME NEW w \in Writers, WriteSource(w)
      PROVE  NoDanglingPointer'
  BY <1>4 DEF WriteSource
<1>5. ASSUME NEW w \in Writers, Discard(w)
      PROVE  NoDanglingPointer'
  BY <1>5 DEF Discard
<1>6. ASSUME NEW w \in Writers, NEW f \in Funcs, WritePointer(w, f)
      PROVE  NoDanglingPointer'
  BY <1>6 DEF WritePointer
<1>7. ASSUME NEW f \in Funcs, RemovePointer(f)
      PROVE  NoDanglingPointer'
  BY <1>7 DEF RemovePointer
<1>8. ASSUME NEW r \in Readers, NEW f \in Funcs, Resolve(r, f)
      PROVE  NoDanglingPointer'
  BY <1>8 DEF Resolve
<1>9. ASSUME NEW r \in Readers, LoadExisting(r)
      PROVE  NoDanglingPointer'
  BY <1>9 DEF LoadExisting
<1>10. ASSUME NEW r \in Readers, ReadSource(r)
       PROVE  NoDanglingPointer'
  BY <1>10 DEF ReadSource
<1>11. ASSUME NEW r \in Readers, Republish(r)
       PROVE  NoDanglingPointer'
  BY <1>11 DEF Republish
<1>12. ASSUME NEW r \in Readers, ReturnError(r)
       PROVE  NoDanglingPointer'
  BY <1>12 DEF ReturnError
<1>13. CASE GcStart
  BY <1>13 DEF GcStart
<1>14. CASE GcAborts
  BY <1>14 DEF GcAborts
<1>15. CASE GcRemove
  BY <1>15 DEF GcRemove
<1>16. ASSUME NEW f \in Funcs, GcReadPointer(f)
       PROVE  NoDanglingPointer'
  BY <1>16 DEF GcReadPointer
<1>17. CASE GcSweep("scan", "wasm")
  BY <1>17 DEF GcSweep
<1>18. CASE GcSweep("wasm", "cwasm")
  BY <1>18 DEF GcSweep
<1>19. CASE GcSweep("cwasm", "idle")
  BY <1>19 DEF GcSweep
<1>20. ASSUME NEW d \in Digests, GcJudge("wasm", wasm, d)
       PROVE  NoDanglingPointer'
  BY <1>20 DEF GcJudge
<1>21. ASSUME NEW d \in Digests, GcJudge("cwasm", cwasm, d)
       PROVE  NoDanglingPointer'
  BY <1>21 DEF GcJudge
<1>22. CASE Tick
  BY <1>22 DEF Tick
<1>23. CASE Crash
  BY <1>23 DEF Crash
<1>24. ASSUME NEW d \in Digests, LoseCwasm(d)
       PROVE  NoDanglingPointer'
  BY <1>24 DEF LoseCwasm
<1>25. CASE UNCHANGED vars
  BY <1>25 DEF vars
<1>26. CASE GcCannotRemove
  BY <1>26 DEF GcCannotRemove, SkippedToo
<1>27. ASSUME NEW d \in Digests, GcCannotStat("wasm", wasm, d)
       PROVE  NoDanglingPointer'
  BY <1>27 DEF GcCannotStat, SkippedToo
<1>28. ASSUME NEW d \in Digests, GcCannotStat("cwasm", cwasm, d)
       PROVE  NoDanglingPointer'
  BY <1>28 DEF GcCannotStat, SkippedToo
<1> QED
  BY <1>1, <1>2, <1>3, <1>4, <1>5, <1>6, <1>7, <1>8, <1>9, <1>10, <1>11, <1>12,
     <1>13, <1>14, <1>15, <1>16, <1>17, <1>18, <1>19, <1>20, <1>21, <1>22, <1>23,
     <1>24, <1>25, <1>26, <1>27,
     <1>28 DEF Next, Gc

(* What the collector judged lost stays lost until it removes it.          *)
LEMMA DoomedStep ==
  ASSUME TypeOK, AtWorkOnDigest, StartupIsExclusive, mode # "any",
         ScanIsOver, YoungerThanUpload, MissedIsYoung, DoomedIsLost, [Next]_vars
  PROVE  DoomedIsLost'
<1> USE AgeFacts, RegistryAssumption DEF TypeOK, blobs, IdleWriter, IdleReader, IdleGc, Step,
        AtWorkOnDigest, ScanIsOver, DoomedIsLost
<1>1. ASSUME NEW w \in Writers, NEW d \in Digests, Compile(w, d)
      PROVE  DoomedIsLost'
  BY <1>1 DEF Compile
<1>2. ASSUME NEW w \in Writers, NEW d \in Digests, CheckStored(w, d)
      PROVE  DoomedIsLost'
  BY <1>2 DEF CheckStored
<1>3. ASSUME NEW w \in Writers, WriteCwasm(w)
      PROVE  DoomedIsLost'
  BY <1>3 DEF WriteCwasm
<1>4. ASSUME NEW w \in Writers, WriteSource(w)
      PROVE  DoomedIsLost'
  BY <1>4, DoomedIsIdle DEF WriteSource
<1>5. ASSUME NEW w \in Writers, Discard(w)
      PROVE  DoomedIsLost'
  BY <1>5 DEF Discard
<1>6. ASSUME NEW w \in Writers, NEW f \in Funcs, WritePointer(w, f)
      PROVE  DoomedIsLost'
  BY <1>6, DoomedIsIdle DEF WritePointer
<1>7. ASSUME NEW f \in Funcs, RemovePointer(f)
      PROVE  DoomedIsLost'
  BY <1>7 DEF RemovePointer
<1>8. ASSUME NEW r \in Readers, NEW f \in Funcs, Resolve(r, f)
      PROVE  DoomedIsLost'
  BY <1>8 DEF Resolve
<1>9. ASSUME NEW r \in Readers, LoadExisting(r)
      PROVE  DoomedIsLost'
  BY <1>9 DEF LoadExisting
<1>10. ASSUME NEW r \in Readers, ReadSource(r)
       PROVE  DoomedIsLost'
  BY <1>10 DEF ReadSource
<1>11. ASSUME NEW r \in Readers, Republish(r)
       PROVE  DoomedIsLost'
  BY <1>11 DEF Republish
<1>12. ASSUME NEW r \in Readers, ReturnError(r)
       PROVE  DoomedIsLost'
  BY <1>12 DEF ReturnError
<1>13. CASE GcStart
  BY <1>13 DEF GcStart
<1>14. CASE GcAborts
  BY <1>14 DEF GcAborts
<1>15. CASE GcRemove
  BY <1>15 DEF GcRemove
<1>16. ASSUME NEW f \in Funcs, GcReadPointer(f)
       PROVE  DoomedIsLost'
  BY <1>16 DEF GcReadPointer
<1>17. CASE GcSweep("scan", "wasm")
  BY <1>17 DEF GcSweep
<1>18. CASE GcSweep("wasm", "cwasm")
  BY <1>18 DEF GcSweep
<1>19. CASE GcSweep("cwasm", "idle")
  BY <1>19 DEF GcSweep
<1>20. ASSUME NEW d \in Digests, GcJudge("wasm", wasm, d)
       PROVE  DoomedIsLost'
  BY <1>20 DEF GcJudge, Collectible, MissedIsYoung
<1>21. ASSUME NEW d \in Digests, GcJudge("cwasm", cwasm, d)
       PROVE  DoomedIsLost'
  BY <1>21 DEF GcJudge
<1>22. CASE Tick
  BY <1>22 DEF Tick
<1>23. CASE Crash
  BY <1>23 DEF Crash
<1>24. ASSUME NEW d \in Digests, LoseCwasm(d)
       PROVE  DoomedIsLost'
  BY <1>24 DEF LoseCwasm
<1>25. CASE UNCHANGED vars
  BY <1>25 DEF vars
<1>26. CASE GcCannotRemove
  BY <1>26 DEF GcCannotRemove, SkippedToo
<1>27. ASSUME NEW d \in Digests, GcCannotStat("wasm", wasm, d)
       PROVE  DoomedIsLost'
  BY <1>27 DEF GcCannotStat, SkippedToo
<1>28. ASSUME NEW d \in Digests, GcCannotStat("cwasm", cwasm, d)
       PROVE  DoomedIsLost'
  BY <1>28 DEF GcCannotStat, SkippedToo
<1> QED
  BY <1>1, <1>2, <1>3, <1>4, <1>5, <1>6, <1>7, <1>8, <1>9, <1>10, <1>11, <1>12,
     <1>13, <1>14, <1>15, <1>16, <1>17, <1>18, <1>19, <1>20, <1>21, <1>22, <1>23,
     <1>24, <1>25, <1>26, <1>27,
     <1>28 DEF Next, Gc

(* A pointer written behind the scan is to a source of that upload.        *)
LEMMA MissedStep ==
  ASSUME TypeOK, AtWorkOnDigest, StartupIsExclusive, mode # "any",
         ScanIsOver, YoungerThanUpload, ReadyHasSource, DoomedIsLost, MissedIsYoung, [Next]_vars
  PROVE  MissedIsYoung'
<1> USE AgeFacts, RegistryAssumption DEF TypeOK, blobs, IdleWriter, IdleReader, IdleGc, Step,
        AtWorkOnDigest, ScanIsOver, MissedIsYoung
<1>1. ASSUME NEW w \in Writers, NEW d \in Digests, Compile(w, d)
      PROVE  MissedIsYoung'
  BY <1>1 DEF Compile
<1>2. ASSUME NEW w \in Writers, NEW d \in Digests, CheckStored(w, d)
      PROVE  MissedIsYoung'
  BY <1>2 DEF CheckStored
<1>3. ASSUME NEW w \in Writers, WriteCwasm(w)
      PROVE  MissedIsYoung'
  BY <1>3 DEF WriteCwasm
<1>4. ASSUME NEW w \in Writers, WriteSource(w)
      PROVE  MissedIsYoung'
  BY <1>4 DEF WriteSource
<1>5. ASSUME NEW w \in Writers, Discard(w)
      PROVE  MissedIsYoung'
  BY <1>5 DEF Discard
<1>6. ASSUME NEW w \in Writers, NEW f \in Funcs, WritePointer(w, f)
      PROVE  MissedIsYoung'
  <2> SUFFICES ASSUME gc.at # "idle"
               PROVE  MissedIsYoung'
    BY <1>6 DEF WritePointer
  <2> DEFINE d == writer[w].digest
  <2>1. mode = "fresh"
    BY <1>6 DEF WritePointer, StartupIsExclusive, Mode
  <2>2. wasm[d] # Absent /\ wasm[d] <= writer[w].since /\ d \in Digests
    BY <1>6, <2>1 DEF WritePointer, YoungerThanUpload, ReadyHasSource
  <2>3. wasm[d] \in Nat /\ writer[w].since \in 0..Window /\ gc.since \in Nat
    <3>1. wasm[d] \in Ages
      BY <2>2
    <3>2. writer[w].since \in 0..Window
      OBVIOUS
    <3>3. gc.since \in 0..GcWindow
      OBVIOUS
    <3> HIDE DEF d, TypeOK
    <3>4. wasm[d] \in Nat
      BY <2>2, <3>1, Zenon
    <3> QED BY <3>2, <3>3, <3>4
  <2>4. wasm[d] <= Window + gc.since
    BY <2>2, <2>3
  <2>5. pointer' = [pointer EXCEPT ![f] = d] /\ UNCHANGED <<mode, wasm, gc>>
    BY <1>6 DEF WritePointer
  <2> HIDE DEF d
  <2> QED BY <2>1, <2>2, <2>4, <2>5
<1>7. ASSUME NEW f \in Funcs, RemovePointer(f)
      PROVE  MissedIsYoung'
  BY <1>7 DEF RemovePointer
<1>8. ASSUME NEW r \in Readers, NEW f \in Funcs, Resolve(r, f)
      PROVE  MissedIsYoung'
  BY <1>8 DEF Resolve
<1>9. ASSUME NEW r \in Readers, LoadExisting(r)
      PROVE  MissedIsYoung'
  BY <1>9 DEF LoadExisting
<1>10. ASSUME NEW r \in Readers, ReadSource(r)
       PROVE  MissedIsYoung'
  BY <1>10 DEF ReadSource
<1>11. ASSUME NEW r \in Readers, Republish(r)
       PROVE  MissedIsYoung'
  BY <1>11 DEF Republish
<1>12. ASSUME NEW r \in Readers, ReturnError(r)
       PROVE  MissedIsYoung'
  BY <1>12 DEF ReturnError
<1>13. CASE GcStart
  BY <1>13 DEF GcStart
<1>14. CASE GcAborts
  BY <1>14 DEF GcAborts
<1>15. CASE GcRemove
  BY <1>15 DEF GcRemove, DoomedIsLost
<1>16. ASSUME NEW f \in Funcs, GcReadPointer(f)
       PROVE  MissedIsYoung'
  BY <1>16 DEF GcReadPointer
<1>17. CASE GcSweep("scan", "wasm")
  BY <1>17 DEF GcSweep
<1>18. CASE GcSweep("wasm", "cwasm")
  BY <1>18 DEF GcSweep
<1>19. CASE GcSweep("cwasm", "idle")
  BY <1>19 DEF GcSweep
<1>20. ASSUME NEW d \in Digests, GcJudge("wasm", wasm, d)
       PROVE  MissedIsYoung'
  BY <1>20 DEF GcJudge
<1>21. ASSUME NEW d \in Digests, GcJudge("cwasm", cwasm, d)
       PROVE  MissedIsYoung'
  BY <1>21 DEF GcJudge
<1>22. CASE Tick
  BY <1>22 DEF Tick
<1>23. CASE Crash
  BY <1>23 DEF Crash
<1>24. ASSUME NEW d \in Digests, LoseCwasm(d)
       PROVE  MissedIsYoung'
  BY <1>24 DEF LoseCwasm
<1>25. CASE UNCHANGED vars
  BY <1>25 DEF vars
<1>26. CASE GcCannotRemove
  BY <1>26 DEF GcCannotRemove, SkippedToo
<1>27. ASSUME NEW d \in Digests, GcCannotStat("wasm", wasm, d)
       PROVE  MissedIsYoung'
  BY <1>27 DEF GcCannotStat, SkippedToo
<1>28. ASSUME NEW d \in Digests, GcCannotStat("cwasm", cwasm, d)
       PROVE  MissedIsYoung'
  BY <1>28 DEF GcCannotStat, SkippedToo
<1> QED
  BY <1>1, <1>2, <1>3, <1>4, <1>5, <1>6, <1>7, <1>8, <1>9, <1>10, <1>11, <1>12,
     <1>13, <1>14, <1>15, <1>16, <1>17, <1>18, <1>19, <1>20, <1>21, <1>22, <1>23,
     <1>24, <1>25, <1>26, <1>27,
     <1>28 DEF Next, Gc

-----------------------------------------------------------------------------
(* The theorems.                                                           *)

LEMMA InitIInv == Init => IInv
BY AgeFacts, RegistryAssumption
   DEF Init, IInv, TypeOK, AtWorkOnDigest, StartupIsExclusive, ScanIsOver, CollectedSoFar,
       YoungerThanUpload, ReadyHasSource, MissedIsYoung, DoomedIsLost, NoDanglingPointer,
       IdleWriter, IdleReader, IdleGc

LEMMA StepIInv == IInv /\ [Next]_vars => IInv'
<1> SUFFICES ASSUME IInv, [Next]_vars
             PROVE  IInv'
  OBVIOUS
<1>1. /\ TypeOK' /\ AtWorkOnDigest' /\ StartupIsExclusive' /\ ScanIsOver'
      /\ CollectedSoFar'
  BY TypeStep, WorkStep, ExclusiveStep, CollectedStep DEF IInv
<1>2. ASSUME mode # "any"
      PROVE  /\ YoungerThanUpload' /\ ReadyHasSource' /\ MissedIsYoung'
             /\ DoomedIsLost' /\ NoDanglingPointer'
  BY <1>2, YoungStep, ReadyStep, MissedStep, DoomedStep, DanglingStep DEF IInv
<1>3. mode' = mode
  BY ModeStays
<1> QED BY <1>1, <1>2, <1>3 DEF IInv

LEMMA Invariance == Spec => []IInv
BY InitIInv, StepIInv, PTL DEF Spec

(* Writers, readers and the collector stand where registry.rs can leave    *)
(* them, within their windows.                                             *)
THEOREM RegistryTypeCorrect == Spec => []TypeOK
<1>1. IInv => TypeOK
  BY DEF IInv
<1> QED BY <1>1, Invariance, PTL

(* In a deployment whose collector runs alone at startup, or beside        *)
(* uploads of new components only, a pointer always has its source.        *)
THEOREM PointersNeverDangle ==
  ASSUME "any" \notin Modes
  PROVE  Spec => []NoDanglingPointer
<1>1. IInv => NoDanglingPointer
  BY DEF IInv, TypeOK
<1> QED BY <1>1, Invariance, PTL

(* In such a deployment an invocation that resolved its function fails as  *)
(* corrupt only when the function was re-pointed meanwhile.                *)
THEOREM FailedLoadWasSuperseded ==
  ASSUME "any" \notin Modes
  PROVE  Spec => LoadFailsOnlyIfSuperseded
<1> DEFINE A == \A r \in Readers :
                  reader[r].at = "compile" /\ reader'[r].at = "corrupt"
                    => pointer[reader[r].func] # reader[r].digest
<1>1. IInv /\ [Next]_vars => [A]_vars
  <2> SUFFICES ASSUME IInv, [Next]_vars, NEW r \in Readers,
                      reader[r].at = "compile", reader'[r].at = "corrupt",
                      pointer[reader[r].func] = reader[r].digest
               PROVE  FALSE
    OBVIOUS
  <2>1. /\ reader[r].func \in Funcs /\ reader[r].digest \in Digests
        /\ reader \in [Readers -> [at : {"idle", "load", "compile", "persist", "corrupt"},
              func : Funcs \cup {None}, digest : Digests \cup {None}]]
    BY DEF IInv, AtWorkOnDigest, TypeOK
  <2>2. wasm[reader[r].digest] # Absent
    BY <2>1, RegistryAssumption DEF IInv, TypeOK, NoDanglingPointer
  <2>3. ReadSource(r)
    BY <2>1 DEF Next, Compile, CheckStored, WriteCwasm, WriteSource, Discard, WritePointer,
       RemovePointer, Resolve, LoadExisting, ReadSource, Republish, ReturnError, Gc,
       GcStart, GcAborts, GcRemove, GcCannotRemove, GcReadPointer, GcSweep, GcJudge,
       GcCannotStat, Tick, Crash,
       LoseCwasm, vars, blobs, IdleReader
  <2> QED BY <2>1, <2>2, <2>3 DEF ReadSource
<1> QED BY <1>1, Invariance, PTL DEF Spec, LoadFailsOnlyIfSuperseded

(* A startup pass that runs to its end leaves no source that was stale     *)
(* when it began and has no pointer, but those it failed to stat or remove *)
(* (registry.rs:376-381, 421-422, 482).                                    *)
THEOREM StartupPassCollects == Spec => GcCollectsLeaks
<1> DEFINE A == (mode = "startup" /\ gc.at = "cwasm" /\ GcSweep("cwasm", "idle"))
                  => \A d \in gc.stale \ gc.skipped :
                       wasm[d] # Absent => \E f \in Funcs : pointer[f] = d
<1>1. IInv => A
  BY DEF IInv, CollectedSoFar
<1>2. IInv /\ [Next]_vars => [A]_vars
  BY <1>1
<1> QED BY <1>2, Invariance, PTL DEF Spec, GcCollectsLeaks
=============================================================================
