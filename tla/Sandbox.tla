-------------------------------- MODULE Sandbox --------------------------------
(***************************************************************************)
(* run and EpochTicker of crates/core/src/sandbox.rs: how a guest's CPU    *)
(* time is counted and limited.  One thread bumps the epoch of the engine  *)
(* that all stores share.  Each store has a deadline a tick ahead; a guest *)
(* that finds it reached calls back, which counts a tick and yields to the *)
(* executor, and the deadline is set anew when the guest is resumed.       *)
(*                                                                         *)
(* Only the distance of a store's deadline to the epoch matters.  Guest    *)
(* code looks at the epoch in every loop and function, so a guest that is  *)
(* running looks before the next period of the ticker ends.                *)
(*                                                                         *)
(* Time is counted in the periods of the ticker's schedule.  The thread    *)
(* may wake late: periods then end without a bump and are made up for in a *)
(* burst, unless it is so far behind that it starts a new schedule.        *)
(***************************************************************************)
EXTENDS Naturals

CONSTANTS
  Calls,
  Budget,         \* budget_ticks of a call
  Grace,          \* INSTANTIATE_GRACE_TICKS
  Slack,          \* wall_budget beyond the CPU budget
  MaxHostCalls,   \* bound on the host calls a guest waits for
  CatchUp,        \* periods the ticker makes up for (10)
  MaxStalls,      \* bound on the periods that end without a bump
  NoOutcome

ASSUME SandboxAssumption ==
  /\ Budget \in Nat \ {0}
  /\ Grace \in Nat
  /\ Slack \in Nat
  /\ MaxHostCalls \in Nat
  /\ CatchUp \in Nat
  /\ MaxStalls \in Nat
  /\ NoOutcome \notin {"Ok", "Trap", "MemCap", "CpuBudget", "WallClock", "Cancelled"}

VARIABLES
  call,
  ticker   \* of EpochTicker: set, whether `next` is the bump to come or the
           \* one just done; pending, the periods that ended since; and as
           \* history, stalls
vars == <<call, ticker>>

WallBudget == Budget + Slack

Outcomes == {"Ok", "Trap", "MemCap", "CpuBudget", "WallClock", "Cancelled"}

(* What a call is at:                                                      *)
(*   at        its phase, and whether it has a store                       *)
(*   mode      running guest code, yielded to the executor, awaiting the   *)
(*             host, or gone                                               *)
(*   due       ticks until its deadline                                    *)
(*   ticks     counted so far, which is what it is billed                  *)
(*   limit     of the deadline callback                                    *)
(*   wall      periods since it began                                      *)
(*   outcome   of run                                                      *)
(* and, as history:                                                        *)
(*   ran       periods that passed while it was running                    *)
(*   stalled   those of them that ended without a bump                     *)
(*   missed    periods that ended so while it was waiting                  *)
(*   waits     host calls it awaited                                       *)
(*   startup   ticks counted when instantiation was over                   *)
NewCall ==
  [at |-> "new", mode |-> "guest", due |-> 1, ticks |-> 0,
   limit |-> Budget + Grace, wall |-> 0,
   outcome |-> NoOutcome, ran |-> 0, stalled |-> 0, missed |-> 0,
   waits |-> 0, startup |-> 0]

Live(c) == call[c].at \in {"instantiate", "call"}
Running(c) == Live(c) /\ call[c].mode = "guest"

Counted(k) == [k EXCEPT !.ticks = @ + 1]
Ended(k, outcome) ==
  [k EXCEPT !.at = "done", !.outcome = outcome, !.mode = "gone", !.due = 0, !.wall = 0]
End(c, outcome) ==
  /\ call' = [call EXCEPT ![c] = Ended(@, outcome)]
  /\ UNCHANGED ticker

-----------------------------------------------------------------------------
(* The store is built and its first deadline set.                          *)
Start(c) ==
  /\ call[c].at = "new"
  /\ call' = [call EXCEPT ![c].at = "instantiate"]
  /\ UNCHANGED ticker

(* call_limit: forgive at most the grace that instantiation used.          *)
ForgiveAll(ticks) == ticks + Budget  \* mutant: all of instantiation is free
CallLimit(ticks) == (IF ticks <= Grace THEN ticks ELSE Grace) + Budget

Instantiated(c) ==
  /\ Running(c)
  /\ call[c].at = "instantiate"
  /\ call' = [call EXCEPT ![c].at = "call",
                ![c].limit = CallLimit(call[c].ticks),
                ![c].startup = call[c].ticks]
  /\ UNCHANGED ticker

(* The deadline callback: a tick is counted, and past the limit the guest  *)
(* traps.  Otherwise it yields, and there the wall clock, if it has run    *)
(* out, ends the call.                                                     *)
Exhausted(c) ==
  /\ Running(c) /\ call[c].due = 0
  /\ call[c].ticks + 1 > call[c].limit
  /\ call' = [call EXCEPT ![c] = Ended(Counted(@), "CpuBudget")]
  /\ UNCHANGED ticker

Yield(c) ==
  /\ Running(c) /\ call[c].due = 0
  /\ call[c].ticks + 1 <= call[c].limit
  /\ call' = [call EXCEPT ![c] =
       IF @.wall = WallBudget THEN Ended(Counted(@), "WallClock")
       ELSE [Counted(@) EXCEPT !.mode = "yielded"]]
  /\ UNCHANGED ticker

(* The executor polls the call again: the deadline is a tick from now.     *)
Resume(c) ==
  /\ Live(c) /\ call[c].mode = "yielded"
  /\ call' = [call EXCEPT ![c].mode = "guest", ![c].due = 1]
  /\ UNCHANGED ticker

(* A host function that has to wait (kv, http-out).                        *)
AwaitHost(c) ==
  /\ Running(c)
  /\ call[c].waits < MaxHostCalls
  /\ call' = [call EXCEPT ![c].mode = "host", ![c].waits = @ + 1]
  /\ UNCHANGED ticker

HostReturns(c) ==
  /\ Live(c) /\ call[c].mode = "host"
  /\ call' = [call EXCEPT ![c].mode = "guest"]
  /\ UNCHANGED ticker

TimeoutInstantiation(c) ==  \* mutant: the timeout is around instantiation only
  /\ call[c].at = "instantiate" /\ call[c].mode = "host"
  /\ call[c].wall = WallBudget
  /\ End(c, "WallClock")
Timeout(c) ==
  /\ Live(c) /\ call[c].mode = "host"
  /\ call[c].wall = WallBudget
  /\ End(c, "WallClock")

Return(c) ==
  /\ Running(c)
  /\ call[c].at = "call"
  /\ End(c, "Ok")

(* Any trap but the callback's; classify calls it MemCap if the limiter    *)
(* refused a growth before.                                                *)
Trap(c) ==
  /\ Running(c)
  /\ \E outcome \in {"Trap", "MemCap"} : End(c, outcome)

(* The future is dropped, which can only happen where it is pending.       *)
Cancel(c) ==
  /\ Live(c) /\ call[c].mode \in {"yielded", "host"}
  /\ End(c, "Cancelled")

-----------------------------------------------------------------------------
(* EpochTicker::spawn.                                                     *)

(* A period ends for a live call.                                          *)
Passed(c, k) ==
  [k EXCEPT !.wall = IF @ < WallBudget THEN @ + 1 ELSE @,
            !.ran = IF Running(c) THEN @ + 1 ELSE @]
Bumped(k) == [k EXCEPT !.due = IF @ = 0 THEN 0 ELSE @ - 1]
Unbumped(c, k) ==
  [k EXCEPT !.stalled = IF Running(c) THEN @ + 1 ELSE @,
            !.missed = IF Running(c) THEN @ ELSE @ + 1]

PeriodEnds == \A c \in Calls : Running(c) => call[c].due > 0

(* A period ends and the sleeping ticker wakes: it bumps the epoch and     *)
(* sleeps until the end of the next one.                                   *)
Tick ==
  /\ PeriodEnds
  /\ ticker.set /\ ticker.pending = 0
  /\ call' = [c \in Calls |-> IF Live(c) THEN Bumped(Passed(c, call[c])) ELSE call[c]]
  /\ UNCHANGED ticker

(* A period ends and the ticker has no processor.                          *)
Stall ==
  /\ PeriodEnds
  /\ ticker.stalls < MaxStalls
  /\ call' = [c \in Calls |-> IF Live(c) THEN Unbumped(c, Passed(c, call[c])) ELSE call[c]]
  /\ ticker' = [ticker EXCEPT !.pending = @ + 1, !.stalls = @ + 1]

(* The ticker bumps late, in no time.  A guest that has not looked since   *)
(* the last bump sees the two as one.                                      *)
Bump ==
  /\ ticker.set /\ ticker.pending > 0
  /\ call' = [c \in Calls |-> IF Live(c) THEN Bumped(call[c]) ELSE call[c]]
  /\ ticker' = [ticker EXCEPT !.set = FALSE, !.pending = @ - 1]

(* It sets `next` one period on, and if that is past by more than CatchUp  *)
(* periods, to now.  Of the period under way some part has passed, or none.*)
ResyncNever(behind) == {FALSE}  \* mutant: every missed period is made up for
Resync(behind) ==
  IF behind < CatchUp THEN {FALSE}
  ELSE IF behind = CatchUp THEN BOOLEAN ELSE {TRUE}

Schedule ==
  /\ ~ticker.set
  /\ \E resync \in Resync(ticker.pending - 1) :
       ticker' = [ticker EXCEPT !.set = TRUE, !.pending = IF resync THEN 1 ELSE @]
  /\ UNCHANGED call

-----------------------------------------------------------------------------
Init ==
  /\ call = [c \in Calls |-> NewCall]
  /\ ticker = [set |-> TRUE, pending |-> 0, stalls |-> 0]

Next ==
  \/ \E c \in Calls :
       \/ Start(c) \/ Instantiated(c) \/ Exhausted(c) \/ Yield(c) \/ Resume(c)
       \/ AwaitHost(c) \/ HostReturns(c) \/ Timeout(c)
       \/ Return(c) \/ Trap(c) \/ Cancel(c)
  \/ Tick \/ Stall \/ Bump \/ Schedule

(* The ticker thread gets to run, the executor polls what is ready, and    *)
(* running guest code meets its deadline checks; a guest need not return,  *)
(* nor a host call answer.                                                 *)
Fairness ==
  /\ WF_vars(Tick) /\ WF_vars(Bump) /\ WF_vars(Schedule)
  /\ \A c \in Calls : WF_vars(Exhausted(c) \/ Yield(c)) /\ WF_vars(Resume(c)) /\ WF_vars(Timeout(c))

Spec == Init /\ [][Next]_vars /\ Fairness

-----------------------------------------------------------------------------
(* Types.                                                                  *)
TypeOK ==
  /\ call \in [Calls ->
       [at : {"new", "instantiate", "call", "done"},
        mode : {"guest", "yielded", "host", "gone"},
        due : 0..1, ticks : 0..(Budget + Grace + 1),
        limit : Budget..(Budget + Grace), wall : 0..WallBudget,
        outcome : Outcomes \cup {NoOutcome},
        ran : Nat, stalled : Nat, missed : Nat,
        waits : 0..MaxHostCalls, startup : Nat]]
  /\ ticker \in [set : BOOLEAN, pending : Nat, stalls : 0..MaxStalls]

(* A call is cut off within Budget + Grace + 1 ticks in all, and one whose *)
(* instantiation stayed within the grace gets its whole budget before it   *)
(* is cut off, however its ticks fall on the two phases.                   *)
BudgetHonoured ==
  \A c \in Calls :
    LET k == call[c] IN
    /\ k.ticks <= Budget + Grace + 1
    /\ k.outcome = "CpuBudget" /\ k.startup <= Grace
         => k.ticks - k.startup > Budget

(* The late bumps that can still come to a call that was not there when    *)
(* their periods ended: the stalls, and never more than CatchUp + 2.       *)
LateBumps == IF ticker.stalls <= CatchUp + 2 THEN ticker.stalls ELSE CatchUp + 2

(* The ticks a call is billed are its own.  With a ticker on time it is    *)
(* never billed for time it was waiting to be resumed, whatever its        *)
(* neighbours do, and for at most a tick of each host call; and not less   *)
(* than it ran, but for the tick under way.  A late ticker adds at most    *)
(* the periods it missed while the call was waiting and one burst, and     *)
(* takes off at most those it missed while the call ran.                   *)
BilledForOwnTime ==
  \A c \in Calls :
    LET k == call[c] IN
    /\ k.ticks <= k.ran + k.waits + k.missed + LateBumps
    /\ k.ran <= k.ticks + k.stalled + 1

(* Every call ends: neither a guest that loops, in its start function or   *)
(* in its handler, nor a host call without an answer keeps it.             *)
EveryCallEnds == \A c \in Calls : call[c].at = "instantiate" ~> call[c].at = "done"

-----------------------------------------------------------------------------
(* Why the two invariants hold.  A deadline that was reached stands for a  *)
(* period the call ran, for one of its host calls, or for a late bump,     *)
(* that is not counted yet; the bumps still to come of a late ticker are   *)
(* those of the periods that ended, if it does not resynchronise; and a    *)
(* live call has not passed its limit.                                     *)
Owed(k) == 1 - k.due
ToCome ==
  IF ticker.set
  THEN IF ticker.pending <= CatchUp + 2 THEN ticker.pending ELSE 2
  ELSE IF ticker.pending <= CatchUp + 1 THEN ticker.pending ELSE 1
TimeFits(k) ==
  LET paid == k.ran + k.waits + k.missed + LateBumps IN
  /\ k.mode = "guest" => /\ k.ticks + Owed(k) + ToCome <= paid
                         /\ k.ran <= k.ticks + Owed(k) + k.stalled
  /\ k.mode = "host" => /\ k.ticks + 1 + ToCome <= paid
                        /\ k.ran <= k.ticks + Owed(k) + k.stalled
  /\ k.mode = "yielded" => /\ k.ticks + ToCome <= paid
                           /\ k.ran <= k.ticks + k.stalled
LimitFits(k) ==
  /\ k.at = "new" => k = NewCall
  /\ k.at \in {"new", "instantiate"} =>
       k.limit = Budget + Grace /\ k.startup = 0
  /\ k.at = "call" => k.limit = CallLimit(k.startup)
  /\ k.at # "done" => k.ticks <= k.limit /\ k.outcome = NoOutcome
  /\ k.mode = "gone" <=> k.at = "done"
IInv ==
  /\ TypeOK
  /\ ToCome <= LateBumps
  /\ \A c \in Calls : TimeFits(call[c]) /\ LimitFits(call[c])
  /\ BudgetHonoured
  /\ BilledForOwnTime
=============================================================================
