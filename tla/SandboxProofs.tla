---------------------------- MODULE SandboxProofs ----------------------------
(***************************************************************************)
(* Proofs about the CPU accounting of Sandbox, for any number of calls,    *)
(* any budget and grace, any number of host calls, and a ticker that       *)
(* stalls any number of times and makes up for any number of periods.      *)
(***************************************************************************)
EXTENDS Sandbox, TLAPS

(* What the record of a call is, and what the invariant says of it.        *)
CallType ==
  [at : {"new", "instantiate", "call", "done"},
   mode : {"guest", "yielded", "host", "gone"},
   due : 0..1, ticks : 0..(Budget + Grace + 1),
   limit : Budget..(Budget + Grace), wall : 0..WallBudget,
   outcome : Outcomes \cup {NoOutcome},
   ran : Nat, stalled : Nat, missed : Nat,
   waits : 0..MaxHostCalls, startup : Nat]

TickerType == [set : BOOLEAN, pending : Nat, stalls : 0..MaxStalls]

Honoured(k) ==
  /\ k.ticks <= Budget + Grace + 1
  /\ k.outcome = "CpuBudget" /\ k.startup <= Grace => k.ticks - k.startup > Budget

Billed(k) ==
  /\ k.ticks <= k.ran + k.waits + k.missed + LateBumps
  /\ k.ran <= k.ticks + k.stalled + 1

CallOK(k) ==
  k \in CallType /\ TimeFits(k) /\ LimitFits(k) /\ Honoured(k) /\ Billed(k)

(* The numbers are numbers.                                                *)
LEMMA Numbers ==
  /\ Budget \in Nat /\ Budget > 0 /\ Grace \in Nat /\ WallBudget \in Nat
  /\ MaxHostCalls \in Nat /\ CatchUp \in Nat /\ MaxStalls \in Nat
BY SandboxAssumption DEF WallBudget

LEMMA LateNumbers ==
  ASSUME ticker \in TickerType
  PROVE  /\ ToCome \in Nat /\ LateBumps \in Nat
         /\ ToCome <= CatchUp + 2 /\ LateBumps <= CatchUp + 2
BY Numbers DEF TickerType, ToCome, LateBumps

(* The invariant, call by call.                                            *)
LEMMA IInvSplit ==
  IInv <=> /\ call \in [Calls -> CallType]
           /\ ticker \in TickerType /\ ToCome <= LateBumps
           /\ \A c \in Calls : CallOK(call[c])
BY DEF IInv, TypeOK, BudgetHonoured, BilledForOwnTime, CallOK, CallType,
       TickerType, Honoured, Billed

LEMMA IInvSplitNext ==
  IInv' <=> /\ (call \in [Calls -> CallType])'
            /\ (ticker \in TickerType)' /\ ToCome' <= LateBumps'
            /\ \A c \in Calls : CallOK(call[c])'
BY DEF IInv, TypeOK, BudgetHonoured, BilledForOwnTime, CallOK, CallType,
       TickerType, Honoured, Billed

(* A step of one call keeps the others'.                                   *)
LEMMA OneCall ==
  ASSUME NEW c \in Calls, NEW k,
         IInv, call' = [call EXCEPT ![c] = k], UNCHANGED ticker, CallOK(k)
  PROVE  IInv'
<1>1. /\ call \in [Calls -> CallType] /\ \A d \in Calls : CallOK(call[d])
      /\ ticker \in TickerType /\ ToCome <= LateBumps
  BY IInvSplit
<1>2. call' \in [Calls -> CallType] /\ \A d \in Calls : CallOK(call'[d])
  BY <1>1 DEF CallOK
<1>3. ToCome' = ToCome /\ LateBumps' = LateBumps
  BY DEF ToCome, LateBumps
<1>4. \A d \in Calls : CallOK(call[d])'
  BY <1>2, <1>3 DEF CallOK, TimeFits, LimitFits, Honoured, Billed
<1>5. ticker' \in TickerType /\ ToCome' <= LateBumps'
  BY <1>1, <1>3
<1> QED
  BY <1>2, <1>4, <1>5, IInvSplitNext DEF CallType, TickerType, WallBudget

(* A call that ends, here or with one more tick counted, keeps what it is  *)
(* billed.                                                                 *)
LEMMA EndedOK ==
  ASSUME NEW k \in CallType, NEW outcome \in Outcomes, Honoured(k), Billed(k),
         outcome = "CpuBudget" /\ k.startup <= Grace => k.ticks - k.startup > Budget
  PROVE  CallOK(Ended(k, outcome))
<1> DEFINE e == Ended(k, outcome)
<1> SUFFICES CallOK(e)
  OBVIOUS
<1>1. 0 \in 0..WallBudget /\ 0 \in 0..1
  BY Numbers
<1>2. /\ e \in CallType /\ e.at = "done" /\ e.mode = "gone"
      /\ e.outcome = outcome /\ e.ticks = k.ticks /\ e.startup = k.startup
      /\ e.ran = k.ran /\ e.waits = k.waits
      /\ e.stalled = k.stalled /\ e.missed = k.missed
  BY <1>1 DEF Ended, CallType
<1> HIDE DEF e
<1> QED
  BY <1>2 DEF CallOK, TimeFits, LimitFits, Honoured, Billed

(* What the deadline callback counts was run, or is owed to a host call or *)
(* to a late bump.                                                         *)
LEMMA CountedOK ==
  ASSUME NEW k, CallOK(k), k.mode = "guest", k.due = 0, ticker \in TickerType,
         k.at \in {"instantiate", "call"}
  PROVE  /\ Counted(k) \in CallType /\ Honoured(Counted(k)) /\ Billed(Counted(k))
         /\ Counted(k).ticks = k.ticks + 1
         /\ Counted(k).ticks + ToCome
              <= Counted(k).ran + Counted(k).waits + Counted(k).missed + LateBumps
         /\ Counted(k).ran <= Counted(k).ticks + Counted(k).stalled
         /\ Counted(k).at = k.at /\ Counted(k).limit = k.limit
         /\ Counted(k).startup = k.startup /\ Counted(k).outcome = NoOutcome
         /\ Counted(k).wall = k.wall
<1>1. /\ k \in CallType /\ k.ticks <= k.limit /\ k.outcome = NoOutcome
      /\ k.ticks + 1 + ToCome <= k.ran + k.waits + k.missed + LateBumps
      /\ k.ran <= k.ticks + 1 + k.stalled
  BY DEF CallOK, TimeFits, LimitFits, Owed
<1>2. /\ k.ticks \in Nat /\ k.limit \in Budget..(Budget + Grace)
      /\ k.ran \in Nat /\ k.waits \in Nat /\ k.stalled \in Nat /\ k.missed \in Nat
      /\ ToCome \in Nat /\ LateBumps \in Nat
  BY <1>1, Numbers, LateNumbers DEF CallType
<1>3. k.ticks + 1 \in 0..(Budget + Grace + 1)
  BY <1>1, <1>2, Numbers
<1>4. /\ Counted(k) \in CallType /\ Counted(k).ticks = k.ticks + 1
      /\ Counted(k).ran = k.ran /\ Counted(k).waits = k.waits
      /\ Counted(k).stalled = k.stalled /\ Counted(k).missed = k.missed
      /\ Counted(k).at = k.at /\ Counted(k).limit = k.limit
      /\ Counted(k).startup = k.startup /\ Counted(k).outcome = k.outcome
      /\ Counted(k).wall = k.wall
  BY <1>1, <1>3 DEF Counted, CallType
<1>5. Counted(k).outcome # "CpuBudget"
  BY <1>1, <1>4, SandboxAssumption
<1> QED
  BY <1>1, <1>2, <1>3, <1>4, <1>5, Numbers DEF Honoured, Billed

(* The invariant holds initially.                                          *)
LEMMA InitIInv == Init => IInv
<1> SUFFICES ASSUME Init PROVE IInv
  OBVIOUS
<1>1. /\ ticker \in TickerType /\ ToCome = 0 /\ LateBumps = 0
  BY Numbers DEF Init, TickerType, ToCome, LateBumps
<1>2. CallOK(NewCall)
  <2>1. NewCall \in CallType
    BY Numbers DEF NewCall, CallType
  <2>2. NoOutcome # "CpuBudget"
    BY SandboxAssumption
  <2> QED
    BY <1>1, <2>1, <2>2, Numbers
       DEF CallOK, TimeFits, LimitFits, Honoured, Billed, Owed, NewCall
<1> QED
  BY <1>1, <1>2, IInvSplit DEF Init, CallOK

LEMMA OneBumpLess ==
  ASSUME NEW a \in Nat, NEW b \in Nat, a < b,
         NEW x \in 0..1, NEW y \in 0..1, x <= y + 1
  PROVE  x + a <= y + b
OBVIOUS

(* What of a call is in order after a step of the ticker.                  *)
OKNext(k) ==
  LET paid == k.ran + k.waits + k.missed + LateBumps' IN
  /\ k \in CallType /\ LimitFits(k) /\ Honoured(k)
  /\ k.mode = "guest" => /\ k.ticks + Owed(k) + ToCome' <= paid
                         /\ k.ran <= k.ticks + Owed(k) + k.stalled
  /\ k.mode = "host" => /\ k.ticks + 1 + ToCome' <= paid
                        /\ k.ran <= k.ticks + Owed(k) + k.stalled
  /\ k.mode = "yielded" => /\ k.ticks + ToCome' <= paid
                           /\ k.ran <= k.ticks + k.stalled
  /\ k.ticks <= paid
  /\ k.ran <= k.ticks + k.stalled + 1

(* Two records of one call that differ in what the ticker moves only.      *)
SameButTime(k, j) ==
  /\ j.at = k.at /\ j.mode = k.mode /\ j.ticks = k.ticks /\ j.waits = k.waits
  /\ j.limit = k.limit /\ j.startup = k.startup /\ j.outcome = k.outcome

(* A step of the ticker keeps a live call in order if its deadline moves   *)
(* only as far as the periods that end, and the bumps that come, account   *)
(* for.                                                                    *)
LEMMA AdvancedOK ==
  ASSUME NEW k, CallOK(k), k.at \in {"instantiate", "call"}, ticker \in TickerType,
         NEW j \in CallType, SameButTime(k, j),
         ToCome' \in Nat, LateBumps' \in Nat,
         k.mode = "guest" =>
           k.due + ToCome' + k.ran + k.missed + LateBumps
             <= j.due + ToCome + j.ran + j.missed + LateBumps',
         k.mode # "guest" =>
           ToCome' + k.ran + k.missed + LateBumps
             <= ToCome + j.ran + j.missed + LateBumps',
         k.mode # "yielded" => j.ran + k.stalled + j.due <= k.ran + j.stalled + k.due,
         k.mode = "yielded" => j.ran + k.stalled <= k.ran + j.stalled
  PROVE  OKNext(j)
<1>1. /\ k \in CallType /\ LateBumps \in Nat /\ ToCome \in Nat
      /\ k.mode \in {"guest", "host", "yielded"}
  BY LateNumbers DEF CallOK, LimitFits, CallType
<1>2. /\ k.ticks \in Nat /\ k.ran \in Nat /\ k.waits \in Nat /\ k.due \in 0..1
      /\ k.stalled \in Nat /\ k.missed \in Nat
      /\ j.ran \in Nat /\ j.due \in 0..1 /\ j.stalled \in Nat /\ j.missed \in Nat
  BY <1>1, Numbers DEF CallType
<1>3. LimitFits(j) /\ Honoured(j)
  BY DEF CallOK, LimitFits, Honoured, SameButTime
<1>4. CASE k.mode = "guest"
  BY <1>1, <1>2, <1>3, <1>4 DEF CallOK, TimeFits, OKNext, Owed, SameButTime
<1>5. CASE k.mode = "host"
  BY <1>1, <1>2, <1>3, <1>5 DEF CallOK, TimeFits, OKNext, Owed, SameButTime
<1>6. CASE k.mode = "yielded"
  BY <1>1, <1>2, <1>3, <1>6 DEF CallOK, TimeFits, OKNext, SameButTime
<1> QED
  BY <1>1, <1>4, <1>5, <1>6

(* A step of the ticker that keeps every call in order keeps the           *)
(* invariant.                                                              *)
LEMMA TickerStep ==
  ASSUME call' = [c \in Calls |-> call'[c]],
         ticker' \in TickerType, ToCome' <= LateBumps',
         \A c \in Calls : OKNext(call'[c])
  PROVE  IInv'
<1>1. \A c \in Calls : CallOK(call[c])'
  BY DEF CallOK, TimeFits, OKNext, LimitFits, Honoured, Billed, CallType
<1>2. call' \in [Calls -> CallType]
  BY DEF OKNext
<1> QED
  BY <1>1, <1>2, IInvSplitNext DEF CallType, TickerType, WallBudget

(* A call that is not live is as it was, and the more bumps were possible  *)
(* the more it is in order.                                                *)
LEMMA GoneOK ==
  ASSUME NEW k, CallOK(k), k.at \notin {"instantiate", "call"},
         ticker \in TickerType, ToCome' \in Nat, LateBumps' \in Nat,
         LateBumps <= LateBumps', ToCome' <= LateBumps'
  PROVE  OKNext(k)

<1>1. /\ k \in CallType /\ LimitFits(k) /\ Honoured(k) /\ Billed(k)
      /\ LateBumps \in Nat
  BY LateNumbers DEF CallOK
<1>2. CASE k.at = "new"
  <2>1. k = NewCall
    BY <1>1, <1>2 DEF LimitFits
  <2>2. /\ k.mode = "guest" /\ k.due = 1 /\ k.ticks = 0
    BY <2>1 DEF NewCall
  <2>3. /\ k.ran \in Nat /\ k.waits \in Nat /\ k.missed \in Nat /\ k.stalled \in Nat
        /\ k.ran <= k.stalled
    BY <1>1, <2>1, Numbers DEF CallType, NewCall
  <2>4. LateBumps' <= k.ran + k.waits + k.missed + LateBumps'
    BY <2>3
  <2>5. k.ticks + Owed(k) = 0
    BY <2>2 DEF Owed
  <2> QED
    BY <1>1, <2>2, <2>3, <2>4, <2>5 DEF OKNext
<1>3. CASE k.at = "done"
  <2>1. k.mode = "gone"
    BY <1>1, <1>3 DEF LimitFits
  <2>2. /\ k.ticks \in Nat /\ k.ran \in Nat /\ k.waits \in Nat
        /\ k.missed \in Nat
    BY <1>1, Numbers DEF CallType
  <2> QED
    BY <1>1, <2>1, <2>2 DEF OKNext, Billed
<1> QED
  BY <1>1, <1>2, <1>3 DEF CallType

(* Every step keeps it.                                                    *)
LEMMA StepIInv == IInv /\ [Next]_vars => IInv'
<1> SUFFICES ASSUME IInv, [Next]_vars PROVE IInv'
  OBVIOUS
<1>0. /\ call \in [Calls -> CallType] /\ \A c \in Calls : CallOK(call[c])
      /\ ticker \in TickerType /\ ToCome <= LateBumps
      /\ ToCome \in Nat /\ LateBumps \in Nat
  BY IInvSplit, LateNumbers
<1> USE Numbers
<1>a. ASSUME NEW c \in Calls, Live(c)
      PROVE  /\ CallOK(call[c]) /\ call[c].at \in {"instantiate", "call"}
             /\ call[c].outcome # "CpuBudget" /\ call[c].outcome = NoOutcome
             /\ call[c] \in CallType /\ Honoured(call[c]) /\ Billed(call[c])
  BY <1>0, <1>a, SandboxAssumption DEF Live, CallOK, LimitFits
<1>b. ASSUME NEW c \in Calls, NEW outcome \in Outcomes \ {"CpuBudget"},
             Live(c), End(c, outcome)
      PROVE  IInv'
  <2>1. CallOK(Ended(call[c], outcome))
    BY <1>a, <1>b, EndedOK
  <2> QED
    BY <2>1, <1>b, OneCall DEF End
<1>1. ASSUME NEW c \in Calls, Start(c) PROVE IInv'
  <2> DEFINE k == call[c]
             j == [k EXCEPT !.at = "instantiate"]
  <2>1. CallOK(k) /\ k.at = "new"
    BY <1>0, <1>1 DEF Start
  <2>2. /\ j \in CallType /\ j.at = "instantiate" /\ j.mode = k.mode
        /\ j.due = k.due /\ j.ticks = k.ticks /\ j.limit = k.limit
        /\ j.outcome = k.outcome /\ j.ran = k.ran
        /\ j.stalled = k.stalled /\ j.missed = k.missed /\ j.waits = k.waits
        /\ j.startup = k.startup
    BY <2>1 DEF CallOK, CallType
  <2>3. call' = [call EXCEPT ![c] = j] /\ UNCHANGED ticker
    BY <1>0, <1>1 DEF Start
  <2> HIDE DEF k, j
  <2>4. CallOK(j)
    BY <2>1, <2>2 DEF CallOK, TimeFits, LimitFits, Honoured, Billed, Owed
  <2> QED
    BY <2>3, <2>4, OneCall
<1>2. ASSUME NEW c \in Calls, Instantiated(c) PROVE IInv'
  <2> DEFINE k == call[c]
             j == [k EXCEPT !.at = "call", !.limit = CallLimit(k.ticks),
                            !.startup = k.ticks]
  <2>1. CallOK(k) /\ k.at = "instantiate" /\ k \in CallType
        /\ k.outcome = NoOutcome /\ k.outcome # "CpuBudget"
    BY <1>2, <1>a DEF Instantiated, Running
  <2>2. /\ k.ticks \in Nat /\ k.ticks <= Budget + Grace
    BY <2>1 DEF CallOK, LimitFits, CallType
  <2>3. CallLimit(k.ticks) \in Budget..(Budget + Grace) /\ k.ticks <= CallLimit(k.ticks)
    BY <2>2 DEF CallLimit
  <2>4. /\ j \in CallType /\ j.at = "call" /\ j.mode = k.mode
        /\ j.due = k.due /\ j.ticks = k.ticks /\ j.limit = CallLimit(k.ticks)
        /\ j.outcome = k.outcome /\ j.ran = k.ran
        /\ j.stalled = k.stalled /\ j.missed = k.missed /\ j.waits = k.waits
        /\ j.startup = k.ticks
    BY <2>1, <2>2, <2>3 DEF CallType
  <2>5. call' = [call EXCEPT ![c] = j] /\ UNCHANGED ticker
    BY <1>0, <1>2 DEF Instantiated
  <2> HIDE DEF k, j
  <2>6. CallOK(j)
    BY <2>1, <2>3, <2>4 DEF CallOK, TimeFits, LimitFits, Honoured, Billed, Owed
  <2> QED
    BY <2>5, <2>6, OneCall
<1>3. ASSUME NEW c \in Calls, Exhausted(c) PROVE IInv'
  <2> DEFINE k == call[c]
             j == Counted(k)
  <2>1. /\ CallOK(k) /\ k.mode = "guest" /\ k.due = 0
        /\ k.at \in {"instantiate", "call"} /\ k.ticks + 1 > k.limit
    BY <1>3, <1>a DEF Exhausted, Running
  <2>2. /\ j \in CallType /\ Honoured(j) /\ Billed(j) /\ j.ticks = k.ticks + 1
        /\ j.at = k.at /\ j.limit = k.limit /\ j.startup = k.startup
    BY <1>0, <2>1, CountedOK
  <2>3. call' = [call EXCEPT ![c] = Ended(j, "CpuBudget")] /\ UNCHANGED ticker
    BY <1>0, <1>3 DEF Exhausted
  <2>4. j.startup <= Grace => j.ticks - j.startup > Budget
    <3>1. k.ticks \in Nat /\ k.limit \in Nat /\ k.startup \in Nat
      BY <2>1 DEF CallOK, CallType
    <3>2. k.at = "instantiate" => k.limit = Budget + Grace /\ k.startup = 0
      BY <2>1 DEF CallOK, LimitFits
    <3>3. k.at = "call" => k.limit = CallLimit(k.startup)
      BY <2>1 DEF CallOK, LimitFits
    <3> HIDE DEF k, j
    <3> QED
      BY <2>1, <2>2, <3>1, <3>2, <3>3 DEF CallLimit
  <2> HIDE DEF j
  <2>5. CallOK(Ended(j, "CpuBudget"))
    BY <2>2, <2>4, EndedOK DEF Outcomes
  <2> QED
    BY <2>3, <2>5, OneCall
<1>4. ASSUME NEW c \in Calls, Yield(c) PROVE IInv'
  <2> DEFINE k == call[c]
             j == Counted(k)
             y == [j EXCEPT !.mode = "yielded"]
  <2>1. /\ CallOK(k) /\ k.mode = "guest" /\ k.due = 0
        /\ k.at \in {"instantiate", "call"} /\ k.ticks + 1 <= k.limit
    BY <1>4, <1>a DEF Yield, Running
  <2>2. /\ j \in CallType /\ Honoured(j) /\ Billed(j) /\ j.ticks = k.ticks + 1
        /\ j.ticks + ToCome <= j.ran + j.waits + j.missed + LateBumps
        /\ j.ran <= j.ticks + j.stalled
        /\ j.at = k.at /\ j.limit = k.limit /\ j.startup = k.startup
        /\ j.outcome = NoOutcome
    BY <1>0, <2>1, CountedOK
  <2>3. call' = [call EXCEPT ![c] = IF k.wall = WallBudget
                                    THEN Ended(j, "WallClock") ELSE y]
      /\ UNCHANGED ticker
    BY <1>0, <1>4 DEF Yield
  <2>4. LimitFits(k)
    BY <2>1 DEF CallOK
  <2> HIDE DEF j
  <2>5. CallOK(Ended(j, "WallClock"))
    BY <2>2, EndedOK DEF Outcomes
  <2>6. CallOK(y)
    <3>1. /\ y \in CallType /\ y.mode = "yielded" /\ y.at = j.at
          /\ y.ticks = j.ticks /\ y.ran = j.ran
          /\ y.stalled = j.stalled /\ y.missed = j.missed /\ y.waits = j.waits
          /\ y.limit = j.limit /\ y.startup = j.startup /\ y.outcome = j.outcome
      BY <2>2 DEF CallType
    <3> HIDE DEF y, k
    <3> QED
      BY <2>1, <2>2, <2>4, <3>1
         DEF CallOK, TimeFits, LimitFits, Honoured, Billed
  <2> HIDE DEF y
  <2> QED
    BY <2>3, <2>5, <2>6, OneCall
<1>5. ASSUME NEW c \in Calls, Resume(c) PROVE IInv'
  <2> DEFINE k == call[c]
             j == [k EXCEPT !.mode = "guest", !.due = 1]
  <2>1. CallOK(k) /\ k \in CallType /\ k.mode = "yielded"
        /\ k.at \in {"instantiate", "call"}
    BY <1>5, <1>a DEF Resume
  <2>2. /\ j \in CallType /\ j.mode = "guest" /\ j.due = 1 /\ j.at = k.at
        /\ j.ticks = k.ticks /\ j.ran = k.ran
        /\ j.stalled = k.stalled /\ j.missed = k.missed /\ j.waits = k.waits
        /\ j.limit = k.limit /\ j.startup = k.startup /\ j.outcome = k.outcome
    <3>1. 1 \in 0..1
      OBVIOUS
    <3> HIDE DEF k
    <3> QED
      BY <2>1, <3>1 DEF CallType
  <2>3. call' = [call EXCEPT ![c] = j] /\ UNCHANGED ticker
    BY <1>0, <1>5 DEF Resume
  <2> HIDE DEF k, j
  <2>4. /\ j.ticks \in Nat /\ j.ran \in Nat /\ j.waits \in Nat
        /\ j.stalled \in Nat /\ j.missed \in Nat
    BY <2>2 DEF CallType
  <2>5. CallOK(j)
    BY <1>0, <2>1, <2>2, <2>4 DEF CallOK, TimeFits, LimitFits, Honoured, Billed, Owed
  <2> QED
    BY <2>3, <2>5, OneCall
<1>6. ASSUME NEW c \in Calls, AwaitHost(c) PROVE IInv'
  <2> DEFINE k == call[c]
             j == [k EXCEPT !.mode = "host", !.waits = @ + 1]
  <2>1. CallOK(k) /\ k \in CallType /\ k.mode = "guest"
        /\ k.at \in {"instantiate", "call"} /\ k.waits < MaxHostCalls
    BY <1>6, <1>a DEF AwaitHost, Running
  <2>2. k.waits + 1 \in 0..MaxHostCalls
    BY <2>1 DEF CallType
  <2>3. /\ j \in CallType /\ j.mode = "host" /\ j.due = k.due /\ j.at = k.at
        /\ j.ticks = k.ticks /\ j.ran = k.ran
        /\ j.stalled = k.stalled /\ j.missed = k.missed /\ j.waits = k.waits + 1
        /\ j.limit = k.limit /\ j.startup = k.startup /\ j.outcome = k.outcome
    BY <2>1, <2>2 DEF CallType
  <2>4. call' = [call EXCEPT ![c] = j] /\ UNCHANGED ticker
    BY <1>0, <1>6 DEF AwaitHost
  <2>5. /\ k.ticks \in Nat /\ k.ran \in Nat /\ k.waits \in Nat /\ k.due \in 0..1
        /\ k.stalled \in Nat /\ k.missed \in Nat
    BY <2>1 DEF CallType
  <2> HIDE DEF k, j
  <2>6. CallOK(j)
    BY <1>0, <2>1, <2>3, <2>5 DEF CallOK, TimeFits, LimitFits, Honoured, Billed, Owed
  <2> QED
    BY <2>4, <2>6, OneCall
<1>7. ASSUME NEW c \in Calls, HostReturns(c) PROVE IInv'
  <2> DEFINE k == call[c]
             j == [k EXCEPT !.mode = "guest"]
  <2>1. CallOK(k) /\ k \in CallType /\ k.mode = "host"
        /\ k.at \in {"instantiate", "call"}
    BY <1>7, <1>a DEF HostReturns
  <2>2. /\ j \in CallType /\ j.mode = "guest" /\ j.due = k.due /\ j.at = k.at
        /\ j.ticks = k.ticks /\ j.ran = k.ran
        /\ j.stalled = k.stalled /\ j.missed = k.missed /\ j.waits = k.waits
        /\ j.limit = k.limit /\ j.startup = k.startup /\ j.outcome = k.outcome
    BY <2>1 DEF CallType
  <2>3. call' = [call EXCEPT ![c] = j] /\ UNCHANGED ticker
    BY <1>0, <1>7 DEF HostReturns
  <2>4. /\ k.ticks \in Nat /\ k.ran \in Nat /\ k.waits \in Nat /\ k.due \in 0..1
        /\ k.stalled \in Nat /\ k.missed \in Nat
    BY <2>1 DEF CallType
  <2> HIDE DEF k, j
  <2>5. CallOK(j)
    BY <1>0, <2>1, <2>2, <2>4 DEF CallOK, TimeFits, LimitFits, Honoured, Billed, Owed
  <2> QED
    BY <2>3, <2>5, OneCall
<1>8. ASSUME NEW c \in Calls, Timeout(c) PROVE IInv'
  BY <1>8, <1>b DEF Timeout, Outcomes
<1>9. ASSUME NEW c \in Calls, Return(c) PROVE IInv'
  BY <1>9, <1>b DEF Return, Running, Outcomes
<1>10. ASSUME NEW c \in Calls, Trap(c) PROVE IInv'
  <2> PICK outcome \in {"Trap", "MemCap"} : End(c, outcome)
    BY <1>10 DEF Trap
  <2> QED
    BY <1>10, <1>b DEF Trap, Running, Outcomes
<1>11. ASSUME NEW c \in Calls, Cancel(c) PROVE IInv'
  BY <1>11, <1>b DEF Cancel, Outcomes
<1>12. CASE Tick
  <2>1. /\ ticker' = ticker /\ ticker' \in TickerType
        /\ ToCome' = ToCome /\ LateBumps' = LateBumps
        /\ ToCome' \in Nat /\ LateBumps' \in Nat /\ ToCome' <= LateBumps'
        /\ LateBumps <= LateBumps'
    BY <1>0, <1>12 DEF Tick, ToCome, LateBumps
  <2>2. call' = [c \in Calls |-> call'[c]]
    BY <1>12 DEF Tick
  <2>3. ASSUME NEW c \in Calls
        PROVE  OKNext(call'[c])
    <3>1. CASE ~Live(c)
      <4>1. call'[c] = call[c] /\ CallOK(call[c])
        BY <1>0, <1>12, <3>1 DEF Tick
      <4>2. call[c].at \notin {"instantiate", "call"}
        BY <3>1 DEF Live
      <4> QED
        BY <1>0, <2>1, <4>1, <4>2, GoneOK
    <3>2. CASE Live(c)
      <4> DEFINE k == call[c]
                 due == IF k.due = 0 THEN 0 ELSE k.due - 1
                 wall == IF k.wall < WallBudget THEN k.wall + 1 ELSE k.wall
                 ran == IF Running(c) THEN k.ran + 1 ELSE k.ran
                 stalled == k.stalled
                 missed == k.missed
                 j == [k EXCEPT !.due = due, !.wall = wall, !.ran = ran,
                                !.stalled = stalled, !.missed = missed]
      <4>1. CallOK(k) /\ k \in CallType /\ k.at \in {"instantiate", "call"}
        BY <3>2, <1>a
      <4>2. /\ k.ran \in Nat /\ k.stalled \in Nat /\ k.missed \in Nat
            /\ k.due \in 0..1 /\ k.wall \in 0..WallBudget
        BY <4>1 DEF CallType
      <4>3. call'[c] = j
        BY <1>12, <3>2, <4>1 DEF Tick, CallType, Bumped, Passed
      <4>4. /\ due \in 0..1 /\ wall \in 0..WallBudget
            /\ ran \in Nat /\ stalled \in Nat /\ missed \in Nat
        BY <4>2
      <4>5. Running(c) <=> k.mode = "guest"
        BY <3>2 DEF Running
      <4>6. /\ k.mode = "guest" => /\ ran = k.ran + 1 /\ stalled = k.stalled
                                   /\ missed = k.missed /\ k.due = due + 1
            /\ k.mode # "guest" => /\ ran = k.ran /\ stalled = k.stalled
                                   /\ missed = k.missed /\ due <= k.due
        <5>1. k.mode = "guest" => k.due = 1
          BY <1>12, <4>2, <4>5 DEF Tick, PeriodEnds
        <5> QED
          BY <4>2, <4>5, <5>1
      <4> HIDE DEF k, due, wall, ran, stalled, missed
      <4>7. /\ j \in CallType /\ SameButTime(k, j) /\ j.due = due /\ j.ran = ran
            /\ j.stalled = stalled /\ j.missed = missed
        BY <4>1, <4>4 DEF CallType, SameButTime
      <4> HIDE DEF j
      <4>8. /\ k.mode = "guest" =>
                 k.due + ToCome' + k.ran + k.missed + LateBumps
                   <= due + ToCome + ran + missed + LateBumps'
            /\ k.mode # "guest" =>
                 ToCome' + k.ran + k.missed + LateBumps
                   <= ToCome + ran + missed + LateBumps'
            /\ k.mode # "yielded" =>
                 ran + k.stalled + due <= k.ran + stalled + k.due
            /\ k.mode = "yielded" => ran + k.stalled <= k.ran + stalled
        BY <1>0, <2>1, <4>2, <4>4, <4>6
      <4> QED
        BY <1>0, <2>1, <4>1, <4>3, <4>7, <4>8, AdvancedOK
    <3> QED
      BY <3>1, <3>2
  <2> QED
    BY <2>1, <2>2, <2>3, TickerStep
<1>13. CASE Stall
  <2>1. /\ ticker' \in TickerType
        /\ ToCome' <= ToCome + 1 /\ LateBumps <= LateBumps'
        /\ ToCome' \in Nat /\ LateBumps' \in Nat /\ ToCome' <= LateBumps'
    <3>1. /\ ticker.pending \in Nat /\ ticker.stalls \in 0..MaxStalls
          /\ ticker'.pending = ticker.pending + 1 /\ ticker'.set = ticker.set
          /\ ticker'.stalls = ticker.stalls + 1 /\ ticker' \in TickerType
      <4>1. ticker' = [ticker EXCEPT !.pending = @ + 1, !.stalls = @ + 1]
        BY <1>13 DEF Stall
      <4>2. ticker.stalls < MaxStalls
        BY <1>13 DEF Stall
      <4>3. ticker.pending + 1 \in Nat /\ ticker.stalls + 1 \in 0..MaxStalls
        BY <1>0, <4>2 DEF TickerType
      <4> QED
        BY <1>0, <4>1, <4>2, <4>3 DEF TickerType
    <3> QED
      BY <1>0, <3>1 DEF ToCome, LateBumps
  <2>2. call' = [c \in Calls |-> call'[c]]
    BY <1>13 DEF Stall
  <2>3. ASSUME NEW c \in Calls
        PROVE  OKNext(call'[c])
    <3>1. CASE ~Live(c)
      <4>1. call'[c] = call[c] /\ CallOK(call[c])
        BY <1>0, <1>13, <3>1 DEF Stall
      <4>2. call[c].at \notin {"instantiate", "call"}
        BY <3>1 DEF Live
      <4> QED
        BY <1>0, <2>1, <4>1, <4>2, GoneOK
    <3>2. CASE Live(c)
      <4> DEFINE k == call[c]
                 due == k.due
                 wall == IF k.wall < WallBudget THEN k.wall + 1 ELSE k.wall
                 ran == IF Running(c) THEN k.ran + 1 ELSE k.ran
                 stalled == IF Running(c) THEN k.stalled + 1 ELSE k.stalled
                 missed == IF Running(c) THEN k.missed ELSE k.missed + 1
                 j == [k EXCEPT !.due = due, !.wall = wall, !.ran = ran,
                                !.stalled = stalled, !.missed = missed]
      <4>1. CallOK(k) /\ k \in CallType /\ k.at \in {"instantiate", "call"}
        BY <3>2, <1>a
      <4>2. /\ k.ran \in Nat /\ k.stalled \in Nat /\ k.missed \in Nat
            /\ k.due \in 0..1 /\ k.wall \in 0..WallBudget
        BY <4>1 DEF CallType
      <4>3. call'[c] = j
        BY <1>13, <3>2, <4>1 DEF Stall, CallType, Unbumped, Passed
      <4>4. /\ due \in 0..1 /\ wall \in 0..WallBudget
            /\ ran \in Nat /\ stalled \in Nat /\ missed \in Nat
        BY <4>2
      <4>5. Running(c) <=> k.mode = "guest"
        BY <3>2 DEF Running
      <4>6. /\ k.mode = "guest" => /\ ran = k.ran + 1 /\ stalled = k.stalled + 1
                                   /\ missed = k.missed /\ due = k.due
            /\ k.mode # "guest" => /\ ran = k.ran /\ stalled = k.stalled
                                   /\ missed = k.missed + 1 /\ due = k.due
        BY <4>2, <4>5
      <4> HIDE DEF k, due, wall, ran, stalled, missed
      <4>7. /\ j \in CallType /\ SameButTime(k, j) /\ j.due = due /\ j.ran = ran
            /\ j.stalled = stalled /\ j.missed = missed
        BY <4>1, <4>4 DEF CallType, SameButTime
      <4> HIDE DEF j
      <4>8. /\ k.mode = "guest" =>
                 k.due + ToCome' + k.ran + k.missed + LateBumps
                   <= due + ToCome + ran + missed + LateBumps'
            /\ k.mode # "guest" =>
                 ToCome' + k.ran + k.missed + LateBumps
                   <= ToCome + ran + missed + LateBumps'
            /\ k.mode # "yielded" =>
                 ran + k.stalled + due <= k.ran + stalled + k.due
            /\ k.mode = "yielded" => ran + k.stalled <= k.ran + stalled
        BY <1>0, <2>1, <4>2, <4>4, <4>6
      <4> QED
        BY <1>0, <2>1, <4>1, <4>3, <4>7, <4>8, AdvancedOK
    <3> QED
      BY <3>1, <3>2
  <2> QED
    BY <2>1, <2>2, <2>3, TickerStep
<1>14. CASE Bump
  <2>1. /\ ticker' \in TickerType
        /\ ToCome' < ToCome /\ LateBumps' = LateBumps
        /\ ToCome' \in Nat /\ LateBumps' \in Nat /\ ToCome' <= LateBumps'
        /\ LateBumps <= LateBumps'
    <3>1. /\ ticker.pending \in Nat /\ ticker.pending > 0 /\ ticker.set
          /\ ticker'.pending = ticker.pending - 1 /\ ~ticker'.set
          /\ ticker'.stalls = ticker.stalls /\ ticker' \in TickerType
      <4>1. ticker' = [ticker EXCEPT !.set = FALSE, !.pending = @ - 1]
        BY <1>14 DEF Bump
      <4>2. ticker.set /\ ticker.pending > 0
        BY <1>14 DEF Bump
      <4>3. ticker.pending - 1 \in Nat
        BY <1>0, <4>2 DEF TickerType
      <4> QED
        BY <1>0, <4>1, <4>2, <4>3 DEF TickerType
    <3> QED
      BY <1>0, <3>1 DEF ToCome, LateBumps
  <2>2. call' = [c \in Calls |-> call'[c]]
    BY <1>14 DEF Bump
  <2>3. ASSUME NEW c \in Calls
        PROVE  OKNext(call'[c])
    <3>1. CASE ~Live(c)
      <4>1. call'[c] = call[c] /\ CallOK(call[c])
        BY <1>0, <1>14, <3>1 DEF Bump
      <4>2. call[c].at \notin {"instantiate", "call"}
        BY <3>1 DEF Live
      <4> QED
        BY <1>0, <2>1, <4>1, <4>2, GoneOK
    <3>2. CASE Live(c)
      <4> DEFINE k == call[c]
                 due == IF k.due = 0 THEN 0 ELSE k.due - 1
                 wall == k.wall
                 ran == k.ran
                 stalled == k.stalled
                 missed == k.missed
                 j == [k EXCEPT !.due = due, !.wall = wall, !.ran = ran,
                                !.stalled = stalled, !.missed = missed]
      <4>1. CallOK(k) /\ k \in CallType /\ k.at \in {"instantiate", "call"}
        BY <3>2, <1>a
      <4>2. /\ k.ran \in Nat /\ k.stalled \in Nat /\ k.missed \in Nat
            /\ k.due \in 0..1 /\ k.wall \in 0..WallBudget
        BY <4>1 DEF CallType
      <4>3. call'[c] = j
        BY <1>14, <3>2, <4>1 DEF Bump, CallType, Bumped
      <4>4. /\ due \in 0..1 /\ wall \in 0..WallBudget
            /\ ran \in Nat /\ stalled \in Nat /\ missed \in Nat
        BY <4>2
      <4>5. Running(c) <=> k.mode = "guest"
        BY <3>2 DEF Running
      <4>6. /\ ran = k.ran /\ stalled = k.stalled /\ missed = k.missed
            /\ due <= k.due /\ k.due <= due + 1
        BY <4>2
      <4> HIDE DEF k, due, wall, ran, stalled, missed
      <4>7. /\ j \in CallType /\ SameButTime(k, j) /\ j.due = due /\ j.ran = ran
            /\ j.stalled = stalled /\ j.missed = missed
        BY <4>1, <4>4 DEF CallType, SameButTime
      <4> HIDE DEF j
      <4>8. /\ k.mode = "guest" =>
                 k.due + ToCome' + k.ran + k.missed + LateBumps
                   <= due + ToCome + ran + missed + LateBumps'
            /\ k.mode # "guest" =>
                 ToCome' + k.ran + k.missed + LateBumps
                   <= ToCome + ran + missed + LateBumps'
            /\ k.mode # "yielded" =>
                 ran + k.stalled + due <= k.ran + stalled + k.due
            /\ k.mode = "yielded" => ran + k.stalled <= k.ran + stalled
        <5>1. /\ k.due \in 0..1 /\ due \in 0..1 /\ due <= k.due /\ k.due <= due + 1
          BY <4>2, <4>4, <4>6
        <5>2. /\ ToCome \in Nat /\ ToCome' \in Nat /\ ToCome' < ToCome
          BY <1>0, <2>1
        <5>3. ToCome' <= ToCome
          BY <5>2
        <5>4. k.due + ToCome' <= due + ToCome
          BY <5>1, <5>2, OneBumpLess
        <5>5. /\ ran = k.ran /\ stalled = k.stalled /\ missed = k.missed
              /\ k.ran \in Nat /\ k.stalled \in Nat /\ k.missed \in Nat
              /\ LateBumps' = LateBumps /\ LateBumps \in Nat
          BY <1>0, <2>1, <4>2, <4>6
        <5>6. ran + k.stalled + due <= k.ran + stalled + k.due
          BY <5>1, <5>5
        <5> QED
          BY <5>1, <5>2, <5>3, <5>4, <5>5, <5>6
      <4> QED
        BY <1>0, <2>1, <4>1, <4>3, <4>7, <4>8, AdvancedOK
    <3> QED
      BY <3>1, <3>2
  <2> QED
    BY <2>1, <2>2, <2>3, TickerStep
<1>15. CASE Schedule
  <2>1. PICK resync \in Resync(ticker.pending - 1) :
          ticker' = [ticker EXCEPT !.set = TRUE, !.pending = IF resync THEN 1 ELSE @]
    BY <1>15 DEF Schedule
  <2>2. /\ ticker.pending \in Nat /\ ~ticker.set /\ ticker'.set
        /\ ticker'.pending = IF resync THEN 1 ELSE ticker.pending
        /\ ticker'.stalls = ticker.stalls /\ ticker' \in TickerType
    BY <1>0, <1>15, <2>1 DEF Schedule, TickerType
  <2>3. /\ resync => ticker.pending - 1 >= CatchUp
        /\ ~resync => ticker.pending - 1 <= CatchUp
    <3> DEFINE behind == ticker.pending - 1
    <3>1. CASE behind < CatchUp
      <4>1. Resync(behind) = {FALSE}
        BY <3>1 DEF Resync
      <4>2. ~resync
        BY <2>1, <4>1
      <4> QED
        BY <2>2, <3>1, <4>2
    <3>2. CASE behind = CatchUp
      BY <2>2, <3>2
    <3>3. CASE behind > CatchUp
      <4>0. ~(behind < CatchUp) /\ behind # CatchUp
        BY <2>2, <3>3
      <4>1. Resync(behind) = {TRUE}
        BY <4>0, Zenon DEF Resync
      <4>2. resync
        BY <2>1, <4>1
      <4> QED
        BY <2>2, <3>3, <4>2
    <3> QED
      BY <2>2, <3>1, <3>2, <3>3
  <2>4. /\ ToCome' <= ToCome /\ LateBumps' = LateBumps
        /\ ToCome' \in Nat /\ LateBumps' \in Nat /\ ToCome' <= LateBumps'
    BY <1>0, <2>2, <2>3 DEF ToCome, LateBumps
  <2>5. call' = call
    BY <1>15 DEF Schedule
  <2>6. ASSUME NEW c \in Calls
        PROVE  OKNext(call'[c])
    <3> DEFINE k == call[c]
    <3>1. CallOK(k)
      BY <1>0
    <3>2. /\ k.ticks \in Nat /\ k.ran \in Nat /\ k.waits \in Nat /\ k.due \in 0..1
          /\ k.missed \in Nat
      BY <3>1 DEF CallOK, CallType
    <3> HIDE DEF k
    <3>3. OKNext(k)
      BY <1>0, <2>4, <3>1, <3>2 DEF CallOK, TimeFits, OKNext, Owed, Billed
    <3> QED
      BY <2>5, <3>3 DEF k
  <2>7. call' = [c \in Calls |-> call'[c]]
    BY <1>0, <2>5
  <2> QED
    BY <2>2, <2>4, <2>6, <2>7, TickerStep
<1>16. CASE UNCHANGED vars
  BY <1>16 DEF vars, IInv, TypeOK, BudgetHonoured, BilledForOwnTime, TimeFits,
               LimitFits, ToCome, LateBumps
<1> QED
  BY <1>1, <1>2, <1>3, <1>4, <1>5, <1>6, <1>7, <1>8, <1>9, <1>10, <1>11, <1>12,
     <1>13, <1>14, <1>15, <1>16 DEF Next

(* In every execution of run the variables have their types; in particular *)
(* no count of ticks exceeds Budget + Grace + 1.                           *)
THEOREM SandboxTypeCorrect == Spec => []TypeOK
<1>1. IInv => TypeOK
  BY DEF IInv
<1> QED
  BY <1>1, InitIInv, StepIInv, PTL DEF Spec

(* In every execution of run, for every budget, a call is cut off in time  *)
(* and not before it had its budget.                                       *)
THEOREM BudgetAlwaysHonoured == Spec => []BudgetHonoured
<1>1. IInv => BudgetHonoured
  BY DEF IInv
<1> QED
  BY <1>1, InitIInv, StepIInv, PTL DEF Spec

(* In every execution of run, whatever other calls do, a call is billed    *)
(* for the ticks it ran and at most one for each host call it awaited,     *)
(* give or take what a late ticker missed and, once, one burst.            *)
THEOREM NeighboursNeverBilled == Spec => []BilledForOwnTime
<1>1. IInv => BilledForOwnTime
  BY DEF IInv
<1> QED
  BY <1>1, InitIInv, StepIInv, PTL DEF Spec
=============================================================================
