----------------------------- MODULE CacheProofs -----------------------------
(***************************************************************************)
(* The two caches of warpline.  The authenticator's: no answer is older    *)
(* than its window, for any number of requests, any TTL, stale window and  *)
(* lookup timeout, and any number of changes.  The component cache: both   *)
(* its caps hold and its byte total covers what is resident, for any       *)
(* finite set of digests, any weights, caps and racing loaders.            *)
(***************************************************************************)
EXTENDS AuthCache, ComponentCache, FiniteSetTheorems, SequenceTheorems, TLAPS

-----------------------------------------------------------------------------
(* The authenticator's cache.                                              *)

(* What ageing and superseding do to a copy's type and lag (the copies of  *)
(* auth.rs only grow older, a tick at a time).                             *)
LEMMA CopyLaws ==
  ASSUME NEW c \in Copy \cup {None}
  PROVE  /\ Aged(c) \in Copy \cup {None}
         /\ Superseded(c) \in Copy \cup {None}
         /\ Aged(c) = None <=> c = None
         /\ Superseded(c) = None <=> c = None
         /\ Lag(c) \in 0..Horizon
         /\ Lag(Aged(c)) <= Lag(c) + 1
         /\ Lag(Superseded(c)) <= Lag(c)
<1>1. CASE c = None
  BY <1>1, AuthAssumption DEF Aged, Superseded, Lag
<1>2. CASE c # None /\ c.live
  <2>1. c \in Copy /\ c.live = TRUE
    BY <1>2 DEF Copy
  <2>2. Superseded(c) = [live |-> FALSE, lag |-> 0] /\ Aged(c) = c /\ Lag(c) = 0
    BY <1>2 DEF Superseded, Aged, Lag
  <2>3. Superseded(c) \in Copy /\ ~Superseded(c).live /\ Superseded(c).lag = 0
    BY <2>2, AuthAssumption DEF Copy
  <2>4. Superseded(c) # None
    BY <2>3, AuthAssumption
  <2> QED
    BY <1>2, <2>1, <2>2, <2>3, <2>4, AuthAssumption DEF Lag
<1>3. CASE c # None /\ ~c.live
  <2>1. c \in Copy /\ c.lag \in 0..Horizon
    BY <1>3 DEF Copy
  <2>2. Superseded(c) = c /\ Aged(c) = [c EXCEPT !.lag = Later(@)] /\ Lag(c) = c.lag
    BY <1>3 DEF Superseded, Aged, Lag
  <2>3. Later(c.lag) \in 0..Horizon /\ Later(c.lag) <= c.lag + 1
    BY <2>1, AuthAssumption DEF Later
  <2>4. Aged(c) \in Copy /\ ~Aged(c).live /\ Aged(c).lag = Later(c.lag)
    BY <1>3, <2>1, <2>2, <2>3 DEF Copy
  <2>5. Aged(c) # None
    BY <2>4, AuthAssumption
  <2> QED
    BY <1>3, <2>1, <2>2, <2>3, <2>4, <2>5 DEF Lag
<1> QED
  BY <1>1, <1>2, <1>3

(* The row a query has just read is the current one.                       *)
LEMMA CurrentLaws == Current \in Copy /\ Current # None /\ Lag(Current) = 0
<1>1. Current \in Copy /\ Current.live
  BY AuthAssumption DEF Current, Copy
<1> QED
  BY <1>1, AuthAssumption DEF Lag

(* The windows are numbers.                                                *)
LEMMA Windows ==
  /\ TTL \in Nat /\ LookupTimeout \in Nat /\ StaleWindow \in Nat
  /\ Horizon \in Nat
BY AuthAssumption DEF StaleWindow

(* What a request record must satisfy, as one predicate of the record.     *)
RequestType ==
  [at : {"idle"} \cup Waiting \cup Answered, since : 0..LookupTimeout,
   fallback : Copy \cup {None}, copy : Copy \cup {None}]

Bounded(q) ==
  /\ q.at = "fresh" => Lag(q.copy) <= LookupTimeout
  /\ q.at = "hit" => Lag(q.copy) < TTL + LookupTimeout
  /\ q.at = "stale" => Lag(q.copy) < StaleWindow + 2 * LookupTimeout

RequestOK(q) == q \in RequestType /\ RequestFits(q) /\ Bounded(q)

EntryOK(e) ==
  /\ e \in Entry \cup {None}
  /\ e # None => Lag(e.copy) <= e.age + LookupTimeout

(* The invariant, request by request.                                      *)
LEMMA IInvSplit ==
  IInv <=> /\ EntryOK(entry)
           /\ req \in [Requests -> RequestType]
           /\ \A r \in Requests : RequestOK(req[r])
           /\ changes \in 0..MaxChanges
BY DEF IInv, TypeOK, EntryFits, StalenessBounded, RequestOK, EntryOK, Bounded,
       RequestType

(* A request that has just answered, or asked, starts its record afresh.   *)
LEMMA RequestFields ==
  ASSUME NEW a \in {"idle"} \cup Waiting \cup Answered,
         NEW f \in Copy \cup {None}, NEW c \in Copy \cup {None}
  PROVE  /\ Request(a, f, c) \in RequestType
         /\ Request(a, f, c).at = a /\ Request(a, f, c).since = 0
         /\ Request(a, f, c).fallback = f /\ Request(a, f, c).copy = c
BY Windows DEF Request, RequestType

(* An answer just read is fresh enough.                                    *)
LEMMA FreshIsOK ==
  ASSUME NEW c \in Copy, Lag(c) <= LookupTimeout
  PROVE  RequestOK(Request("fresh", None, c))
BY RequestFields DEF RequestOK, RequestFits, Bounded, Waiting, Answered

(* A step of one request keeps the others'.                                *)
LEMMA OneRequest ==
  ASSUME NEW r \in Requests, NEW q,
         req \in [Requests -> RequestType],
         \A s \in Requests : RequestOK(req[s]),
         req' = [req EXCEPT ![r] = q], RequestOK(q)
  PROVE  /\ req' \in [Requests -> RequestType]
         /\ \A s \in Requests : RequestOK(req'[s])
BY DEF RequestOK

(* The invariant holds initially: nothing is cached or asked.              *)
LEMMA InitIInv == Init => IInv
<1> SUFFICES ASSUME Init PROVE IInv
  OBVIOUS
<1>1. RequestOK(Request("idle", None, None))
  BY RequestFields DEF RequestOK, RequestFits, Bounded, Waiting
<1>2. EntryOK(entry)
  BY DEF Init, EntryOK
<1> QED
  BY <1>1, <1>2, AuthAssumption, IInvSplit DEF Init, RequestOK

(* Every step keeps the invariant: a copy is cached with the lag its       *)
(* lookup gave it, and from there age and lag grow together.               *)
LEMMA StepIInv == IInv /\ [Next]_vars => IInv'
<1> SUFFICES ASSUME IInv, [Next]_vars PROVE IInv'
  OBVIOUS
<1>0. /\ EntryOK(entry)
      /\ req \in [Requests -> RequestType]
      /\ \A r \in Requests : RequestOK(req[r])
      /\ changes \in 0..MaxChanges
  BY IInvSplit
<1> SUFFICES /\ EntryOK(entry')
             /\ req' \in [Requests -> RequestType]
             /\ \A r \in Requests : RequestOK(req'[r])
             /\ changes' \in 0..MaxChanges
  BY DEF IInv, TypeOK, EntryFits, StalenessBounded, RequestOK, EntryOK, Bounded,
         RequestType
<1> USE Windows
<1>1. ASSUME NEW r \in Requests, Hit(r)
      PROVE  /\ EntryOK(entry') /\ changes' \in 0..MaxChanges
             /\ req' \in [Requests -> RequestType]
             /\ \A s \in Requests : RequestOK(req'[s])
  <2>1. entry.copy \in Copy /\ entry.age \in 0..Horizon
        /\ Lag(entry.copy) <= entry.age + LookupTimeout
    BY <1>0, <1>1 DEF Hit, EntryOK, Entry
  <2>2. Lag(entry.copy) < TTL + LookupTimeout
    BY <1>1, <2>1, CopyLaws DEF Hit
  <2> DEFINE q == Request("hit", None, entry.copy)
  <2>3. RequestOK(q)
    <3>1. /\ "hit" \in {"idle"} \cup Waiting \cup Answered
          /\ None \in Copy \cup {None} /\ entry.copy \in Copy \cup {None}
      BY <2>1 DEF Answered
    <3>2. q \in RequestType /\ q.at = "hit" /\ q.copy = entry.copy
      BY SMTT(30), <3>1, RequestFields
    <3> HIDE DEF q
    <3> QED
      BY <2>2, <3>2 DEF RequestOK, RequestFits, Bounded, Waiting
  <2> QED
    BY <1>0, <1>1, <2>3, OneRequest DEF Hit
<1>2. ASSUME NEW r \in Requests, Ask(r)
      PROVE  /\ EntryOK(entry') /\ changes' \in 0..MaxChanges
             /\ req' \in [Requests -> RequestType]
             /\ \A s \in Requests : RequestOK(req'[s])
  <2> DEFINE f == IF entry # None /\ entry.age < StaleWindow
                  THEN entry.copy ELSE None
  <2>1. f \in Copy \cup {None}
    BY <1>0 DEF EntryOK, Entry
  <2>2. f # None => Lag(f) < StaleWindow + LookupTimeout
    <3> SUFFICES ASSUME f # None PROVE Lag(f) < StaleWindow + LookupTimeout
      OBVIOUS
    <3>1. entry # None /\ entry.age < StaleWindow /\ f = entry.copy
      OBVIOUS
    <3>2. entry.age \in 0..Horizon /\ Lag(f) <= entry.age + LookupTimeout
      BY <1>0, <3>1 DEF EntryOK, Entry
    <3>3. Lag(f) \in 0..Horizon
      BY <2>1, CopyLaws
    <3> HIDE DEF f
    <3> QED
      BY <3>1, <3>2, <3>3
  <2> HIDE DEF f
  <2>3. RequestOK(Request("lookup", f, None))
    BY <2>1, <2>2, RequestFields
       DEF RequestOK, RequestFits, Bounded, Waiting, Answered
  <2> QED
    BY <1>0, <1>2, <2>3, OneRequest DEF Ask, f
<1>3. ASSUME NEW r \in Requests, Snapshot(r)
      PROVE  /\ EntryOK(entry') /\ changes' \in 0..MaxChanges
             /\ req' \in [Requests -> RequestType]
             /\ \A s \in Requests : RequestOK(req'[s])
  <2> DEFINE q == [req[r] EXCEPT !.at = "fetched", !.copy = Current]
  <2>1. req' = [req EXCEPT ![r] = q]
    BY <1>0, <1>3 DEF Snapshot, RequestType
  <2>2. req[r] \in RequestType /\ req[r].at = "lookup" /\ RequestFits(req[r])
    BY <1>0, <1>3 DEF Snapshot, RequestOK
  <2>3. q \in RequestType /\ q.at = "fetched" /\ q.copy = Current
        /\ q.since = req[r].since /\ q.fallback = req[r].fallback
    BY <2>2, CurrentLaws DEF RequestType, Waiting
  <2> HIDE DEF q
  <2>4. RequestOK(q)
    BY <2>2, <2>3, CurrentLaws
       DEF RequestOK, RequestFits, Bounded, Waiting, RequestType
  <2> QED
    BY <1>0, <1>3, <2>1, <2>4, OneRequest DEF Snapshot
<1>4. ASSUME NEW r \in Requests, Answer(r)
      PROVE  /\ EntryOK(entry') /\ changes' \in 0..MaxChanges
             /\ req' \in [Requests -> RequestType]
             /\ \A s \in Requests : RequestOK(req'[s])
  <2>1. req[r] \in RequestType /\ req[r].at = "fetched" /\ RequestFits(req[r])
    BY <1>0, <1>4 DEF Answer, RequestOK
  <2>2. req[r].copy \in Copy /\ req[r].copy # None
    BY <2>1 DEF RequestFits, RequestType
  <2>3. Lag(req[r].copy) <= LookupTimeout
    <3>1. req[r].since \in 0..LookupTimeout /\ Lag(req[r].copy) <= req[r].since
      BY <2>1 DEF RequestFits, RequestType
    <3> QED
      BY <2>2, <3>1, CopyLaws
  <2>4. RequestOK(Request("fresh", None, req[r].copy))
    BY <2>2, <2>3, FreshIsOK
  <2>5. EntryOK([copy |-> req[r].copy, age |-> 0])
    BY <2>2, <2>3 DEF EntryOK, Entry
  <2> QED
    BY <1>0, <1>4, <2>4, <2>5, OneRequest DEF Answer
<1>5. ASSUME NEW r \in Requests, Fail(r)
      PROVE  /\ EntryOK(entry') /\ changes' \in 0..MaxChanges
             /\ req' \in [Requests -> RequestType]
             /\ \A s \in Requests : RequestOK(req'[s])
  <2> DEFINE f == req[r].fallback
             q == Request(IF f = None THEN "error" ELSE "stale", None, f)
  <2>1. req[r] \in RequestType /\ req[r].at \in Waiting /\ RequestFits(req[r])
    BY <1>0, <1>5 DEF Fail, RequestOK
  <2>2. f \in Copy \cup {None} /\ req[r].since \in 0..LookupTimeout
    BY <2>1 DEF RequestType
  <2>3. f # None => Lag(f) < StaleWindow + 2 * LookupTimeout
    <3> SUFFICES ASSUME f # None PROVE Lag(f) < StaleWindow + 2 * LookupTimeout
      OBVIOUS
    <3>1. Lag(f) < StaleWindow + LookupTimeout + req[r].since
      BY <2>1 DEF RequestFits
    <3>2. Lag(f) \in 0..Horizon
      BY <2>2, CopyLaws
    <3> HIDE DEF f
    <3> QED
      BY <2>2, <3>1, <3>2
  <2> HIDE DEF f
  <2>4. RequestOK(q)
    <3>1. CASE f = None
      BY <3>1, <2>2, RequestFields
         DEF RequestOK, RequestFits, Bounded, Waiting, Answered
    <3>2. CASE f # None
      BY <3>2, <2>2, <2>3, RequestFields
         DEF RequestOK, RequestFits, Bounded, Waiting, Answered
    <3> QED
      BY <3>1, <3>2
  <2>5. req' = [req EXCEPT ![r] = q]
    BY <1>5 DEF Fail, f
  <2> HIDE DEF q
  <2> QED
    BY <1>0, <1>5, <2>4, <2>5, OneRequest DEF Fail
<1>6. ASSUME NEW r \in Requests, Return(r)
      PROVE  /\ EntryOK(entry') /\ changes' \in 0..MaxChanges
             /\ req' \in [Requests -> RequestType]
             /\ \A s \in Requests : RequestOK(req'[s])
  <2>1. RequestOK(Request("idle", None, None))
    <3> DEFINE q == Request("idle", None, None)
    <3>1. q \in RequestType /\ q.at = "idle" /\ q.copy = None
      BY RequestFields
    <3> HIDE DEF q
    <3>2. RequestFits(q) /\ Bounded(q)
      BY <3>1 DEF RequestFits, Bounded, Waiting
    <3> QED
      BY <3>1, <3>2 DEF RequestOK, q
  <2> QED
    BY <1>0, <1>6, <2>1, OneRequest DEF Return
<1>7. CASE Evict
  BY <1>0, <1>7 DEF Evict, EntryOK
<1>8. CASE Change
  <2>1. EntryOK(entry')
    <3>1. CASE entry = None
      BY <1>0, <1>8, <3>1 DEF Change
    <3>2. CASE entry # None
      <4>1. /\ entry \in Entry /\ entry.copy \in Copy /\ entry.age \in 0..Horizon
            /\ Lag(entry.copy) <= entry.age + LookupTimeout
        BY <1>0, <3>2 DEF EntryOK, Entry
      <4>2. entry' = [entry EXCEPT !.copy = Superseded(@)]
        BY <1>8, <3>2 DEF Change
      <4>3. Superseded(entry.copy) \in Copy /\ entry.copy # None
        BY <4>1, CopyLaws, AuthAssumption
      <4>4. entry' \in Entry /\ entry'.copy = Superseded(entry.copy)
            /\ entry'.age = entry.age
        BY <4>1, <4>2, <4>3 DEF Entry
      <4>5. /\ Lag(entry.copy) \in 0..Horizon
            /\ Lag(Superseded(entry.copy)) \in 0..Horizon
            /\ Lag(Superseded(entry.copy)) <= Lag(entry.copy)
        BY <4>1, <4>3, CopyLaws
      <4> QED
        BY <4>1, <4>4, <4>5 DEF EntryOK
    <3> QED
      BY <3>1, <3>2
  <2>2. ASSUME NEW r \in Requests PROVE RequestOK(req'[r])
    <3> DEFINE q == req[r]
               p == [q EXCEPT !.fallback = Superseded(@), !.copy = Superseded(@)]
    <3>1. RequestOK(q) /\ q \in RequestType
      BY <1>0 DEF RequestOK
    <3>2. CASE q.at \notin Waiting
      BY <1>8, <3>1, <3>2 DEF Change
    <3>3. CASE q.at \in Waiting
      <4>1. req'[r] = p
        BY <1>8, <3>3 DEF Change
      <4>2. /\ q.fallback \in Copy \cup {None} /\ q.copy \in Copy \cup {None}
            /\ q.since \in 0..LookupTimeout
        BY <3>1 DEF RequestType
      <4>3. /\ Superseded(q.fallback) \in Copy \cup {None}
            /\ Superseded(q.copy) \in Copy \cup {None}
            /\ Superseded(q.fallback) = None <=> q.fallback = None
            /\ Superseded(q.copy) = None <=> q.copy = None
            /\ Lag(Superseded(q.fallback)) <= Lag(q.fallback)
            /\ Lag(Superseded(q.copy)) <= Lag(q.copy)
            /\ Lag(q.fallback) \in 0..Horizon /\ Lag(q.copy) \in 0..Horizon
        BY <4>2, CopyLaws
      <4>4. Lag(Superseded(q.fallback)) \in 0..Horizon
            /\ Lag(Superseded(q.copy)) \in 0..Horizon
        BY <4>3, CopyLaws
      <4>5. /\ p \in RequestType /\ p.at = q.at /\ p.since = q.since
            /\ p.fallback = Superseded(q.fallback) /\ p.copy = Superseded(q.copy)
        BY <3>1, <4>3 DEF RequestType
      <4> HIDE DEF p, q
      <4>6. RequestFits(p)
        BY <3>1, <4>2, <4>3, <4>4, <4>5 DEF RequestOK, RequestFits
      <4>7. Bounded(p)
        BY <3>3, <4>5 DEF Bounded, Waiting
      <4> QED
        BY <4>1, <4>5, <4>6, <4>7 DEF RequestOK
    <3> QED
      BY <3>2, <3>3
  <2>3. changes' \in 0..MaxChanges
    <3>1. changes \in 0..MaxChanges /\ changes < MaxChanges /\ changes' = changes + 1
      BY <1>0, <1>8 DEF Change
    <3>2. MaxChanges \in Nat
      BY AuthAssumption
    <3> QED
      BY <3>1, <3>2
  <2>4. req' = [r \in Requests |-> req'[r]]
    BY <1>8 DEF Change
  <2> QED
    BY <2>1, <2>2, <2>3, <2>4 DEF RequestOK
<1>9. CASE Tick
  <2>1. EntryOK(entry')
    <3>1. CASE entry = None
      BY <1>0, <1>9, <3>1 DEF Tick
    <3>2. CASE entry # None
      <4>1. /\ entry \in Entry /\ entry.copy \in Copy /\ entry.age \in 0..Horizon
            /\ Lag(entry.copy) <= entry.age + LookupTimeout
        BY <1>0, <3>2 DEF EntryOK, Entry
      <4>2. entry' = [copy |-> Aged(entry.copy), age |-> Later(entry.age)]
        BY <1>9, <3>2 DEF Tick
      <4>3. Aged(entry.copy) \in Copy /\ entry.copy # None
        BY <4>1, CopyLaws, AuthAssumption
      <4>4. entry' \in Entry /\ entry'.copy = Aged(entry.copy)
            /\ entry'.age = Later(entry.age)
        BY <4>1, <4>2, <4>3, AuthAssumption DEF Entry, Later
      <4>5. /\ Lag(entry.copy) \in 0..Horizon
            /\ Lag(Aged(entry.copy)) \in 0..Horizon
            /\ Lag(Aged(entry.copy)) <= Lag(entry.copy) + 1
        BY <4>1, <4>3, CopyLaws
      <4> QED
        BY <4>1, <4>4, <4>5 DEF EntryOK, Later
    <3> QED
      BY <3>1, <3>2
  <2>2. ASSUME NEW r \in Requests PROVE RequestOK(req'[r])
    <3> DEFINE q == req[r]
               p == [q EXCEPT !.since = @ + 1, !.fallback = Aged(@), !.copy = Aged(@)]
    <3>1. RequestOK(q) /\ q \in RequestType
      BY <1>0 DEF RequestOK
    <3>2. CASE q.at \notin Waiting
      BY <1>9, <3>1, <3>2 DEF Tick
    <3>3. CASE q.at \in Waiting
      <4>1. req'[r] = p
        BY <1>9, <3>3 DEF Tick
      <4>2. /\ q.fallback \in Copy \cup {None} /\ q.copy \in Copy \cup {None}
            /\ q.since \in 0..LookupTimeout /\ q.since < LookupTimeout
        BY <1>9, <3>1, <3>3 DEF RequestType, Tick
      <4>3. /\ Aged(q.fallback) \in Copy \cup {None}
            /\ Aged(q.copy) \in Copy \cup {None}
            /\ Aged(q.fallback) = None <=> q.fallback = None
            /\ Aged(q.copy) = None <=> q.copy = None
            /\ Lag(Aged(q.fallback)) <= Lag(q.fallback) + 1
            /\ Lag(Aged(q.copy)) <= Lag(q.copy) + 1
            /\ Lag(q.fallback) \in 0..Horizon /\ Lag(q.copy) \in 0..Horizon
        BY <4>2, CopyLaws
      <4>4. Lag(Aged(q.fallback)) \in 0..Horizon
            /\ Lag(Aged(q.copy)) \in 0..Horizon
        BY <4>3, CopyLaws
      <4>5. /\ p \in RequestType /\ p.at = q.at /\ p.since = q.since + 1
            /\ p.fallback = Aged(q.fallback) /\ p.copy = Aged(q.copy)
        <5>1. q.since + 1 \in 0..LookupTimeout
          BY <4>2
        <5> HIDE DEF q
        <5> QED
          BY <3>1, <5>1, <4>3 DEF RequestType
      <4> HIDE DEF p, q
      <4>6. RequestFits(p)
        BY <3>1, <4>2, <4>3, <4>4, <4>5 DEF RequestOK, RequestFits
      <4>7. Bounded(p)
        BY <3>3, <4>5 DEF Bounded, Waiting
      <4> QED
        BY <4>1, <4>5, <4>6, <4>7 DEF RequestOK
    <3> QED
      BY <3>2, <3>3
  <2>4. req' = [r \in Requests |-> req'[r]]
    BY <1>9 DEF Tick
  <2> QED
    BY <1>0, <1>9, <2>1, <2>2, <2>4 DEF RequestOK, Tick
<1>10. CASE UNCHANGED vars
  BY <1>0, <1>10 DEF vars
<1> QED
  BY <1>1, <1>2, <1>3, <1>4, <1>5, <1>6, <1>7, <1>8, <1>9, <1>10
     DEF Next, Finish

(* In every execution of authenticate the variables have their types.      *)
THEOREM AuthTypeCorrect == Spec => []TypeOK
<1>1. IInv => TypeOK
  BY DEF IInv
<1> QED
  BY <1>1, InitIInv, StepIInv, PTL DEF Spec

(* In every execution of authenticate, whatever the TTL, the timeouts and  *)
(* the number of concurrent requests, an answer was the current row no     *)
(* longer ago than its window and its lookups allow.                       *)
THEOREM AnswersNeverTooStale == Spec => []StalenessBounded
<1>1. IInv => StalenessBounded
  BY DEF IInv
<1> QED
  BY <1>1, InitIInv, StepIInv, PTL DEF Spec

-----------------------------------------------------------------------------
(* The component cache: orders without repetition.                       *)

Once(s) == \A i, j \in 1..Len(s) : s[i] = s[j] => i = j
Order(D) == {s \in Seq(D) : Once(s)}

LEMMA OrderFacts ==
  ASSUME NEW D, NEW s \in Order(D)
  PROVE  /\ s \in Seq(D) /\ Once(s) /\ Len(s) \in Nat
         /\ Entries(s) \subseteq D
         /\ \A i \in 1..Len(s) : s[i] \in D /\ s[i] \in Entries(s)
BY DEF Order, Entries

LEMMA OrderWithout ==
  ASSUME NEW D, NEW s \in Order(D), NEW d
  PROVE  /\ Without(s, d) \in Order(D)
         /\ Entries(Without(s, d)) = Entries(s) \ {d}
         /\ d \in Entries(s) => Len(Without(s, d)) = Len(s) - 1
         /\ d \notin Entries(s) => Without(s, d) = s
<1>1. CASE d \notin Entries(s)
  BY <1>1 DEF Without
<1>2. CASE d \in Entries(s)
  <2> DEFINE n == CHOOSE i \in 1..Len(s) : s[i] = d
             t == RemoveAt(s, n)
  <2>1. n \in 1..Len(s) /\ s[n] = d
    BY <1>2 DEF Entries
  <2>2. Without(s, d) = t
    BY <1>2 DEF Without
  <2> HIDE DEF n
  <2>3. s \in Seq(D) /\ Once(s)
    BY DEF Order
  <2>4. /\ t \in Seq(D) /\ Len(t) = Len(s) - 1
        /\ \A i \in 1..Len(t) : t[i] = IF i < n THEN s[i] ELSE s[i + 1]
    <3> DEFINE a == SubSeq(s, 1, n - 1)
               b == SubSeq(s, n + 1, Len(s))
    <3>1. /\ a \in Seq(D) /\ Len(a) = n - 1
          /\ \A i \in 1..Len(a) : a[i] = s[i]
      BY <2>1, <2>3
    <3>2. /\ b \in Seq(D) /\ Len(b) = Len(s) - n
          /\ \A i \in 1..Len(b) : b[i] = s[i + n]
      BY <2>1, <2>3
    <3>3. t = a \o b
      BY DEF RemoveAt
    <3> HIDE DEF a, b, t
    <3>4. /\ t \in Seq(D) /\ Len(t) = Len(a) + Len(b)
          /\ \A i \in 1..(Len(a) + Len(b)) :
               t[i] = IF i <= Len(a) THEN a[i] ELSE b[i - Len(a)]
      BY <3>1, <3>2, <3>3, ConcatProperties, Zenon
    <3>5. Len(t) = Len(s) - 1
      BY <2>1, <2>3, <3>1, <3>2, <3>4
    <3>6. ASSUME NEW i \in 1..Len(t)
          PROVE  t[i] = IF i < n THEN s[i] ELSE s[i + 1]
      <4>1. CASE i < n
        BY <2>1, <2>3, <3>1, <3>2, <3>4, <4>1
      <4>2. CASE i >= n
        <5>1. i - Len(a) \in 1..Len(b) /\ (i - Len(a)) + n = i + 1
          BY <2>1, <2>3, <3>1, <3>2, <3>4, <4>2
        <5> QED BY <2>1, <2>3, <3>1, <3>2, <3>4, <4>2, <5>1
      <4> QED BY <2>1, <2>3, <4>1, <4>2
    <3> QED BY <3>4, <3>5, <3>6
  <2> HIDE DEF t
  <2>5. Once(t)
    BY <2>1, <2>3, <2>4 DEF Once
  <2>6. Entries(t) \subseteq Entries(s) \ {d}
    <3> SUFFICES ASSUME NEW i \in 1..Len(t)
                 PROVE  t[i] \in Entries(s) \ {d}
      BY DEF Entries
    <3>1. CASE i < n
      BY <2>1, <2>3, <2>4, <3>1 DEF Once, Entries
    <3>2. CASE i >= n
      <4>1. i + 1 \in 1..Len(s) /\ t[i] = s[i + 1] /\ i + 1 # n
        BY <2>1, <2>3, <2>4, <3>2
      <4> QED BY <2>1, <2>3, <4>1 DEF Once, Entries
    <3> QED BY <2>1, <2>3, <2>4, <3>1, <3>2
  <2>7. ASSUME NEW e \in Entries(s) \ {d}
        PROVE  e \in Entries(t)
    <3>1. PICK i \in 1..Len(s) : s[i] = e
      BY DEF Entries
    <3>2. CASE i < n
      BY <2>1, <2>4, <3>1, <3>2, <2>3 DEF Entries
    <3>3. CASE i > n
      <4>1. i - 1 \in 1..Len(t) /\ t[i - 1] = s[i]
        BY <2>1, <2>4, <3>1, <3>3, <2>3
      <4> QED BY <3>1, <4>1 DEF Entries
    <3> QED BY <2>1, <3>1, <3>2, <3>3
  <2> QED BY <1>2, <2>2, <2>3, <2>4, <2>5, <2>6, <2>7 DEF Order
<1> QED BY <1>1, <1>2

LEMMA OrderAppend ==
  ASSUME NEW D, NEW s \in Order(D), NEW d \in D, d \notin Entries(s)
  PROVE  /\ Append(s, d) \in Order(D)
         /\ Entries(Append(s, d)) = Entries(s) \cup {d}
         /\ Len(Append(s, d)) = Len(s) + 1
<1> DEFINE t == Append(s, d)
<1>1. s \in Seq(D) /\ Once(s)
  BY DEF Order
<1>2. /\ t \in Seq(D) /\ Len(t) = Len(s) + 1
      /\ \A i \in 1..Len(s) : t[i] = s[i]
      /\ t[Len(s) + 1] = d
  BY <1>1
<1>3. \A i \in 1..Len(t) : i \in 1..Len(s) \/ i = Len(s) + 1
  BY <1>1, <1>2
<1> HIDE DEF t
<1>4. Once(t)
  BY <1>1, <1>2, <1>3 DEF Once, Entries
<1>5. Entries(t) = Entries(s) \cup {d}
  <2>1. Entries(t) \subseteq Entries(s) \cup {d}
    BY <1>2, <1>3 DEF Entries
  <2>2. Entries(s) \subseteq Entries(t)
    BY <1>1, <1>2 DEF Entries
  <2>3. d \in Entries(t)
    BY <1>1, <1>2 DEF Entries
  <2> QED BY <2>1, <2>2, <2>3
<1> QED BY <1>2, <1>4, <1>5 DEF Order, t

LEMMA OrderTail ==
  ASSUME NEW D, NEW s \in Order(D), Len(s) > 0
  PROVE  /\ Tail(s) \in Order(D)
         /\ Entries(Tail(s)) = Entries(s) \ {s[1]}
         /\ s[1] \in Entries(s)
         /\ Len(Tail(s)) = Len(s) - 1
<1> DEFINE t == Tail(s)
<1>1. s \in Seq(D) /\ Once(s)
  BY DEF Order
<1>2. s # <<>>
  OBVIOUS
<1>3. /\ t \in Seq(D) /\ Len(t) = Len(s) - 1
      /\ \A i \in 1..Len(t) : t[i] = s[i + 1]
  BY <1>1, <1>2
<1> HIDE DEF t
<1>4. Once(t)
  BY <1>1, <1>3 DEF Once
<1>5. Entries(t) \subseteq Entries(s) \ {s[1]}
  BY <1>1, <1>3 DEF Once, Entries
<1>6. ASSUME NEW e \in Entries(s) \ {s[1]}
      PROVE  e \in Entries(t)
  <2>1. PICK i \in 1..Len(s) : s[i] = e
    BY DEF Entries
  <2>2. i - 1 \in 1..Len(t) /\ t[i - 1] = e
    BY <1>1, <1>3, <2>1
  <2> QED BY <2>2 DEF Entries
<1>7. s[1] \in Entries(s)
  BY <1>1 DEF Entries
<1>8. t \in Order(D) /\ Len(t) = Len(s) - 1
  BY <1>3, <1>4 DEF Order
<1>9. Entries(t) = Entries(s) \ {s[1]}
  BY <1>5, <1>6
<1> QED BY <1>7, <1>8, <1>9 DEF t

(* The first k entries of s and what remains when they are popped.         *)
Oldest(s, k) == {s[i] : i \in 1..k}

LEMMA OrderPopped ==
  ASSUME NEW D, NEW s \in Order(D), NEW k \in 0..Len(s)
  PROVE  LET t == SubSeq(s, k + 1, Len(s)) IN
         /\ t \in Order(D)
         /\ Len(t) = Len(s) - k
         /\ Entries(s) = Entries(t) \cup Oldest(s, k)
         /\ Entries(t) \cap Oldest(s, k) = {}
<1> DEFINE t == SubSeq(s, k + 1, Len(s))
<1>1. s \in Seq(D) /\ Once(s)
  BY DEF Order
<1>2. /\ t \in Seq(D) /\ Len(t) = Len(s) - k
      /\ \A i \in 1..Len(t) : t[i] = s[i + k]
  BY <1>1
<1> HIDE DEF t
<1>3. Once(t)
  BY <1>1, <1>2 DEF Once
<1>4. Entries(t) \subseteq Entries(s) /\ Oldest(s, k) \subseteq Entries(s)
  BY SMTT(30), <1>1, <1>2 DEF Oldest, Entries
<1>5. Entries(t) \cap Oldest(s, k) = {}
  BY <1>1, <1>2 DEF Once, Oldest, Entries
<1>6. ASSUME NEW e \in Entries(s), e \notin Oldest(s, k)
      PROVE  e \in Entries(t)
  <2>1. PICK i \in 1..Len(s) : s[i] = e
    BY DEF Entries
  <2>2. i - k \in 1..Len(t) /\ t[i - k] = e
    BY <1>1, <1>2, <1>6, <2>1 DEF Oldest
  <2> QED BY <2>2 DEF Entries
<1> QED BY <1>2, <1>3, <1>4, <1>5, <1>6 DEF Order, t

-----------------------------------------------------------------------------
(* The bytes of a set of entries.                                          *)

Bytes(x, n) == {x} \X (1..n)

LEMMA BytesOfEntry ==
  ASSUME NEW x, NEW n \in Nat
  PROVE  IsFiniteSet(Bytes(x, n)) /\ Cardinality(Bytes(x, n)) = n
<1> DEFINE one == {x}
           interval == 1..n
<1>1. IsFiniteSet(one) /\ Cardinality(one) = 1
  BY FS_Singleton
<1>2. IsFiniteSet(interval) /\ Cardinality(interval) = n
  <2>1. /\ IsFiniteSet(interval)
        /\ Cardinality(interval) = IF 1 > n THEN 0 ELSE n - 1 + 1
    BY ONLY FS_Interval, 1 \in Int, n \in Int, Zenon
  <2> QED BY <2>1
<1> HIDE DEF one, interval
<1>3. /\ IsFiniteSet(one \X interval)
      /\ Cardinality(one \X interval) = Cardinality(one) * Cardinality(interval)
  BY <1>1, <1>2, FS_Product
<1> QED BY <1>1, <1>2, <1>3 DEF Bytes, one, interval

AllBytes(w, S) == UNION {Bytes(x, w[x]) : x \in S}

LEMMA BytesFinite ==
  ASSUME NEW S, IsFiniteSet(S), NEW w, \A x \in S : w[x] \in Nat
  PROVE  /\ IsFiniteSet(AllBytes(w, S))
         /\ BytesOf(w, S) = Cardinality(AllBytes(w, S))
         /\ BytesOf(w, S) \in Nat
<1> DEFINE All == {Bytes(x, w[x]) : x \in S}
           g == [x \in S |-> Bytes(x, w[x])]
<1>1. g \in Surjection(S, All)
  BY DEF Surjection
<1>2. IsFiniteSet(All)
  BY <1>1, FS_Surjection
<1>3. \A s \in All : IsFiniteSet(s)
  BY BytesOfEntry
<1>4. IsFiniteSet(UNION All)
  BY <1>2, <1>3, FS_UNION
<1> QED BY <1>4, FS_CardinalityType DEF AllBytes, Bytes, BytesOf

LEMMA BytesSplit ==
  ASSUME NEW A, NEW B, IsFiniteSet(A), IsFiniteSet(B), A \cap B = {},
         NEW w, \A x \in A \cup B : w[x] \in Nat
  PROVE  /\ BytesOf(w, A \cup B) = BytesOf(w, A) + BytesOf(w, B)
         /\ BytesOf(w, A) \in Nat /\ BytesOf(w, B) \in Nat
<1>1. IsFiniteSet(A \cup B)
  BY FS_Union
<1>2. /\ IsFiniteSet(AllBytes(w, A)) /\ BytesOf(w, A) = Cardinality(AllBytes(w, A))
      /\ BytesOf(w, A) \in Nat
  BY BytesFinite
<1>3. /\ IsFiniteSet(AllBytes(w, B)) /\ BytesOf(w, B) = Cardinality(AllBytes(w, B))
      /\ BytesOf(w, B) \in Nat
  BY BytesFinite
<1>4. BytesOf(w, A \cup B) = Cardinality(AllBytes(w, A \cup B))
  BY <1>1, BytesFinite
<1>5. AllBytes(w, A \cup B) = AllBytes(w, A) \cup AllBytes(w, B)
  BY DEF AllBytes
<1>6. AllBytes(w, A) \cap AllBytes(w, B) = {}
  BY DEF AllBytes, Bytes
<1>7. Cardinality(AllBytes(w, A) \cup AllBytes(w, B))
        = Cardinality(AllBytes(w, A)) + Cardinality(AllBytes(w, B))
            - Cardinality(AllBytes(w, A) \cap AllBytes(w, B))
  BY <1>2, <1>3, FS_Union
<1>8. Cardinality(AllBytes(w, A) \cap AllBytes(w, B)) = 0
  BY <1>6, FS_EmptySet
<1>9. BytesOf(w, A \cup B) = BytesOf(w, A) + BytesOf(w, B) - 0
  BY <1>2, <1>3, <1>4, <1>5, <1>7, <1>8
<1> QED BY <1>2, <1>3, <1>9

LEMMA BytesOfOne ==
  ASSUME NEW x, NEW w, w[x] \in Nat
  PROVE  BytesOf(w, {x}) = w[x]
<1>1. UNION {{d} \X (1..w[d]) : d \in {x}} = Bytes(x, w[x])
  BY DEF Bytes
<1> QED BY <1>1, BytesOfEntry DEF BytesOf

LEMMA BytesAgree ==
  ASSUME NEW S, NEW v, NEW w, \A x \in S : v[x] = w[x]
  PROVE  BytesOf(v, S) = BytesOf(w, S)
<1>1. {{x} \X (1..v[x]) : x \in S} = {{x} \X (1..w[x]) : x \in S}
  OBVIOUS
<1> QED BY <1>1 DEF BytesOf

LEMMA BytesOfNothing ==
  ASSUME NEW S, NEW w, \A x \in S : w[x] = 0
  PROVE  BytesOf(w, S) = 0
<1>1. 1..0 = {}
  OBVIOUS
<1>2. UNION {{x} \X (1..w[x]) : x \in S} = {}
  BY <1>1
<1> QED BY <1>2, FS_EmptySet DEF BytesOf

-----------------------------------------------------------------------------
(* The cache proper and the loaders; what an access to the LRU leaves of   *)
(* the cache, and that its byte total moved with the resident bytes.       *)

CacheOK ==
  /\ lru \in Order(Digests) /\ Len(lru) <= Cap
  /\ weight \in [Digests -> Nat]
  /\ total \in Nat
  /\ GoneWeighsNothing
  /\ ResidentBytes \in Nat /\ ResidentBytes <= ByteBudget
  /\ total >= ResidentBytes

LoadersOK ==
  /\ pc \in [Loaders -> {"idle", "load", "read", "reload", "reread", "compile"}]
  /\ want \in [Loaders -> Digests]

InStep ==
  total' - ResidentBytes' # total - ResidentBytes
    => Len(lru) = Cap /\ lru[1] \notin Resident'

LEMMA ResidentWeigh ==
  ASSUME NEW w \in [Digests -> Nat], NEW S \in SUBSET Digests,
         \A d \in Digests \ S : w[d] = 0
  PROVE  /\ BytesOf(w, Digests) = BytesOf(w, S)
         /\ BytesOf(w, S) \in Nat
<1> DEFINE G == Digests \ S
<1>1. IsFiniteSet(S) /\ IsFiniteSet(G)
  BY CacheAssumption, FS_Subset
<1>2. S \cap G = {} /\ Digests = S \cup G /\ \A x \in S \cup G : w[x] \in Nat
  OBVIOUS
<1>3. BytesOf(w, G) = 0
  BY BytesOfNothing
<1> HIDE DEF G
<1>4. /\ BytesOf(w, S \cup G) = BytesOf(w, S) + BytesOf(w, G)
      /\ BytesOf(w, S) \in Nat /\ BytesOf(w, G) \in Nat
  BY <1>1, <1>2, BytesSplit
<1> QED BY <1>2, <1>3, <1>4

LEMMA InvParts == LruInv <=> CacheOK /\ LoadersOK
<1>1. LruInv => LoadersOK /\ lru \in Order(Digests) /\ weight \in [Digests -> Nat]
  BY DEF LruInv, LruTypeOK, LoadersOK, Order, Once
<1>2. LruInv => ResidentBytes \in Nat
  <2> SUFFICES ASSUME LruInv PROVE ResidentBytes \in Nat
    OBVIOUS
  <2>1. Resident \in SUBSET Digests
    BY <1>1, OrderFacts DEF Resident
  <2>2. BytesOf(weight, Digests) = BytesOf(weight, Resident)
           /\ BytesOf(weight, Resident) \in Nat
    BY <1>1, <2>1, ResidentWeigh DEF LruInv, GoneWeighsNothing
  <2> QED BY <2>2 DEF ResidentBytes
<1>3. LruInv => CacheOK
  BY <1>1, <1>2 DEF LruInv, LruTypeOK, CacheOK, WithinCaps, TotalCoversResident
<1>4. CacheOK /\ LoadersOK => LruInv
  BY DEF LruInv, LruTypeOK, CacheOK, LoadersOK, WithinCaps, TotalCoversResident,
         Order, Once
<1> QED BY <1>1, <1>3, <1>4

(* LruCache::get of a resident digest only reorders.                       *)
LEMMA GetKeeps ==
  ASSUME CacheOK, NEW d \in Resident, Get(d), UNCHANGED <<weight, total>>
  PROVE  CacheOK' /\ InStep
<1> DEFINE rest == Without(lru, d)
<1>1. lru \in Order(Digests) /\ Entries(lru) = Resident /\ Len(lru) \in Nat
      /\ d \in Digests
  BY OrderFacts DEF CacheOK, Resident
<1>2. /\ rest \in Order(Digests) /\ Entries(rest) = Resident \ {d}
      /\ Len(rest) = Len(lru) - 1
  BY <1>1, OrderWithout
<1> HIDE DEF rest
<1>3. /\ Append(rest, d) \in Order(Digests)
      /\ Entries(Append(rest, d)) = (Resident \ {d}) \cup {d}
      /\ Len(Append(rest, d)) = Len(rest) + 1
  <2>1. d \notin Entries(rest)
    BY <1>2
  <2>2. /\ Append(rest, d) \in Order(Digests)
        /\ Entries(Append(rest, d)) = Entries(rest) \cup {d}
        /\ Len(Append(rest, d)) = Len(rest) + 1
    BY <1>1, <1>2, <2>1, OrderAppend
  <2> QED BY <1>2, <2>2
<1>4. lru' = Append(rest, d)
  BY DEF Get, rest
<1>5. lru' \in Order(Digests) /\ Resident' = Resident /\ Len(lru') = Len(lru)
  <2>1. (Resident \ {d}) \cup {d} = Resident
    OBVIOUS
  <2>2. Resident' = Entries(lru')
    BY DEF Resident, Entries
  <2>3. Entries(lru') = Resident
    BY <1>3, <1>4, <2>1, Zenon
  <2>4. Len(lru') = Len(lru)
    BY <1>1, <1>2, <1>3, <1>4
  <2> QED BY <1>3, <1>4, <2>2, <2>3, <2>4
<1>6. ResidentBytes' = ResidentBytes
  BY DEF ResidentBytes
<1> QED BY <1>5, <1>6 DEF CacheOK, InStep, GoneWeighsNothing

(* LruCache::put: the digest is in, and only a cache that is full without  *)
(* it loses its oldest entry.                                              *)
LEMMA PutOrder ==
  ASSUME CacheOK, NEW d \in Digests
  PROVE  /\ Put(d) \in Order(Digests) /\ Len(Put(d)) <= Cap
         /\ d \in Entries(Put(d))
         /\ \/ Entries(Put(d)) \ {d} = Resident \ {d}
            \/ /\ Len(lru) = Cap /\ d \notin Resident
               /\ lru[1] \in Resident /\ lru[1] \notin Entries(Put(d))
               /\ Entries(Put(d)) \ {d} = Resident \ {lru[1]}
<1> DEFINE rest == Without(lru, d)
<1>1. /\ lru \in Order(Digests) /\ Entries(lru) = Resident /\ Len(lru) \in Nat
      /\ Len(lru) <= Cap
  BY OrderFacts DEF CacheOK, Resident
<1>2. /\ rest \in Order(Digests) /\ Entries(rest) = Resident \ {d}
      /\ d \in Resident => Len(rest) = Len(lru) - 1
      /\ d \notin Resident => rest = lru
  BY <1>1, OrderWithout
<1>3. Put(d) = Append(IF Len(rest) = Cap THEN Tail(rest) ELSE rest, d)
  BY DEF Put
<1> HIDE DEF rest
<1>4. Len(rest) \in Nat
  BY <1>2, OrderFacts
<1>5. CASE Len(rest) = Cap
  <2>1. d \notin Resident /\ rest = lru /\ Len(lru) = Cap
    BY <1>1, <1>2, <1>5, CacheAssumption
  <2>2. /\ Tail(lru) \in Order(Digests)
        /\ Entries(Tail(lru)) = Entries(lru) \ {lru[1]}
        /\ lru[1] \in Entries(lru)
        /\ Len(Tail(lru)) = Len(lru) - 1
    <3>1. Len(lru) > 0
      BY <2>1, CacheAssumption
    <3> QED BY <1>1, <3>1, OrderTail
  <2> DEFINE t == Tail(lru)
  <2> HIDE DEF t
  <2>3. d \notin Entries(t) /\ t \in Order(Digests)
    BY <1>1, <2>1, <2>2 DEF t
  <2>4. /\ Append(t, d) \in Order(Digests)
        /\ Entries(Append(t, d)) = Entries(t) \cup {d}
        /\ Len(Append(t, d)) = Len(t) + 1
    BY <2>3, OrderAppend
  <2>5. Put(d) = Append(t, d)
    BY <1>3, <1>5, <2>1 DEF t
  <2>6. Len(t) + 1 = Cap /\ Entries(t) = Resident \ {lru[1]} /\ lru[1] \in Resident
    BY <1>1, <2>1, <2>2, CacheAssumption DEF t
  <2> HIDE <2>2
  <2>7. Len(Put(d)) <= Cap
    BY <2>4, <2>5, <2>6, CacheAssumption
  <2> QED BY <2>1, <2>3, <2>4, <2>5, <2>6, <2>7
<1>6. CASE Len(rest) # Cap
  <2>1. d \notin Entries(rest)
    BY <1>2
  <2>2. /\ Append(rest, d) \in Order(Digests)
        /\ Entries(Append(rest, d)) = Entries(rest) \cup {d}
        /\ Len(Append(rest, d)) = Len(rest) + 1
    BY <1>2, <2>1, OrderAppend
  <2>3. Put(d) = Append(rest, d)
    BY <1>3, <1>6
  <2>4. Len(rest) + 1 <= Cap
    BY <1>1, <1>2, <1>4, <1>6, CacheAssumption
  <2> QED BY <1>2, <2>2, <2>3, <2>4
<1> QED BY <1>5, <1>6

(* What total_bytes is charged covers what put left resident, and it moves *)
(* away from it only when put dropped an entry.                            *)
LEMMA ChargedCovers ==
  ASSUME CacheOK, NEW d \in Digests, NEW w \in Nat,
         NEW wt \in [Digests -> Nat], wt = [weight EXCEPT ![d] = w],
         NEW E \in SUBSET Digests, E = Entries(Put(d))
  PROVE  /\ Charged(d, w) \in Nat /\ BytesOf(wt, E) \in Nat
         /\ Charged(d, w) >= BytesOf(wt, E)
         /\ \/ Charged(d, w) - BytesOf(wt, E) = total - ResidentBytes
            \/ Len(lru) = Cap /\ lru[1] \notin E
<1> DEFINE before == Resident \ {d}
           after == E \ {d}
           one == {d}
<1>1. Resident \in SUBSET Digests /\ weight \in [Digests -> Nat]
  BY OrderFacts DEF CacheOK, Resident
<1>2. IsFiniteSet(before) /\ IsFiniteSet(after) /\ IsFiniteSet(one)
  BY <1>1, CacheAssumption, FS_Subset
<1>3. ResidentBytes = BytesOf(weight, Resident)
  <2>1. /\ BytesOf(weight, Digests) = BytesOf(weight, Resident)
        /\ BytesOf(weight, Resident) \in Nat
    BY <1>1, ResidentWeigh DEF CacheOK, GoneWeighsNothing
  <2> QED BY <2>1 DEF ResidentBytes
<1>4. BytesOf(wt, one) = w /\ BytesOf(weight, one) = weight[d]
  BY <1>1, BytesOfOne
<1>5. BytesOf(wt, after) = BytesOf(weight, after)
  BY <1>1, BytesAgree
<1>6. d \in E
  BY PutOrder
<1>7. BytesOf(wt, E) = BytesOf(weight, after) + w /\ BytesOf(weight, after) \in Nat
  <2>1. after \cup one = E /\ after \cap one = {} /\ \A x \in after \cup one : wt[x] \in Nat
    BY <1>6
  <2> HIDE DEF after, one
  <2>2. /\ BytesOf(wt, after \cup one) = BytesOf(wt, after) + BytesOf(wt, one)
        /\ BytesOf(wt, after) \in Nat /\ BytesOf(wt, one) \in Nat
    BY <1>2, <2>1, BytesSplit
  <2> QED BY <1>4, <1>5, <2>1, <2>2
<1>8. /\ BytesOf(weight, Resident) = BytesOf(weight, before) + Returned(d)
      /\ BytesOf(weight, before) \in Nat /\ Returned(d) \in Nat
  <2>1. CASE d \in Resident
    <3>1. /\ before \cup one = Resident /\ before \cap one = {}
          /\ \A x \in before \cup one : weight[x] \in Nat
      BY <1>1, <2>1
    <3> HIDE DEF before, one
    <3>2. /\ BytesOf(weight, before \cup one) = BytesOf(weight, before) + BytesOf(weight, one)
          /\ BytesOf(weight, before) \in Nat /\ BytesOf(weight, one) \in Nat
      BY <1>2, <3>1, BytesSplit
    <3> QED BY <1>4, <2>1, <3>1, <3>2 DEF Returned
  <2>2. CASE d \notin Resident
    <3>1. before = Resident
      BY <2>2
    <3>2. /\ BytesOf(weight, Digests) = BytesOf(weight, Resident)
          /\ BytesOf(weight, Resident) \in Nat
      BY <1>1, ResidentWeigh DEF CacheOK, GoneWeighsNothing
    <3>3. Returned(d) = 0
      BY <2>2 DEF Returned
    <3>4. BytesOf(weight, before) = BytesOf(weight, Resident)
      BY <3>1, Zenon
    <3> HIDE DEF before
    <3> QED BY <3>2, <3>3, <3>4
  <2> QED BY <2>1, <2>2
<1> HIDE DEF before, after, one
<1>9. Charged(d, w) = (total - Returned(d)) + w /\ total >= BytesOf(weight, Resident)
      /\ total \in Nat
  BY <1>3, <1>8 DEF CacheOK, Charged, SaturatingSub
<1>10. \/ after = before
       \/ /\ Len(lru) = Cap /\ lru[1] \notin E
          /\ BytesOf(weight, before) >= BytesOf(weight, after)
  <2>1. CASE after = before
    BY <2>1
  <2>2. CASE after # before
    <3> DEFINE lost == {lru[1]}
    <3>1. /\ Len(lru) = Cap /\ d \notin Resident
          /\ lru[1] \in Resident /\ lru[1] \notin E
          /\ after = Resident \ {lru[1]}
      BY <2>2, PutOrder DEF after, before
    <3>2. /\ after \cup lost = before /\ after \cap lost = {} /\ IsFiniteSet(lost)
          /\ \A x \in after \cup lost : weight[x] \in Nat
      BY <1>1, <3>1, FS_Singleton DEF before
    <3> HIDE DEF lost
    <3>3. /\ BytesOf(weight, after \cup lost) = BytesOf(weight, after) + BytesOf(weight, lost)
          /\ BytesOf(weight, after) \in Nat /\ BytesOf(weight, lost) \in Nat
      BY <1>2, <3>2, BytesSplit
    <3>4. BytesOf(weight, before) = BytesOf(weight, after) + BytesOf(weight, lost)
      BY <3>2, <3>3, Zenon
    <3>5. BytesOf(weight, before) >= BytesOf(weight, after)
      BY ONLY <3>3, <3>4
    <3> QED BY <3>1, <3>5
  <2> QED BY <2>1, <2>2
<1>11. CASE after = before
  BY <1>3, <1>7, <1>8, <1>9, <1>11
<1>12. CASE /\ Len(lru) = Cap /\ lru[1] \notin E
            /\ BytesOf(weight, before) >= BytesOf(weight, after)
  BY <1>7, <1>8, <1>9, <1>12
<1> QED BY <1>10, <1>11, <1>12

(* ComponentCache::insert.                                                 *)
LEMMA InsertKeeps ==
  ASSUME CacheOK, NEW d \in Digests, NEW w \in Nat, Insert(d, w)
  PROVE  CacheOK' /\ InStep
<1> DEFINE s == Put(d)
           wt == [weight EXCEPT ![d] = w]
           c == Charged(d, w)
<1>1. PICK k \in 0..Len(s) :
        /\ Popped(TotalAfter(s, wt, c), Len(s), k)
        /\ lru' = SubSeq(s, k + 1, Len(s))
        /\ weight' = [e \in Digests |-> IF e \in Resident' THEN wt[e] ELSE 0]
        /\ total' = TotalAfter(s, wt, c)[k]
  BY DEF Insert
<1> DEFINE E == Entries(s)
           kept == Entries(SubSeq(s, k + 1, Len(s)))
           gone == Oldest(s, k)
<1>2. s \in Order(Digests) /\ Len(s) <= Cap
  BY PutOrder
<1>3. wt \in [Digests -> Nat]
  BY DEF CacheOK
<1>4. E \in SUBSET Digests
  BY <1>2, OrderFacts
<1>5. /\ c \in Nat /\ BytesOf(wt, E) \in Nat /\ c >= BytesOf(wt, E)
      /\ \/ c - BytesOf(wt, E) = total - ResidentBytes
         \/ Len(lru) = Cap /\ lru[1] \notin E
  <2> HIDE DEF wt, E
  <2>1. wt = [weight EXCEPT ![d] = w] /\ E = Entries(Put(d))
    BY DEF wt, E
  <2> QED BY ZenonT(60), <1>3, <1>4, <2>1, ChargedCovers
<1>6. /\ lru' \in Order(Digests)
      /\ Len(lru') = Len(s) - k
      /\ E = kept \cup gone
      /\ kept \cap gone = {}
  BY <1>1, <1>2, OrderPopped
<1>7. Resident' = kept
  BY <1>1 DEF Resident, Entries
<1>8. TotalAfter(s, wt, c)[k] = SaturatingSub(c, BytesOf(wt, gone))
  BY <1>1 DEF TotalAfter, Oldest
<1>9. total' <= ByteBudget \/ k = Len(s)
  BY <1>1 DEF Popped
<1>10. weight' = [e \in Digests |-> IF e \in kept THEN wt[e] ELSE 0]
  BY <1>1, <1>7
<1>11. total' = SaturatingSub(c, BytesOf(wt, gone))
  BY <1>1, <1>8
<1>12. k = Len(s) => kept = {}
  <2> SUFFICES ASSUME k = Len(s) PROVE kept = {}
    OBVIOUS
  <2>1. Len(s) \in Nat /\ Len(lru') = 0
    BY <1>2, <1>6, OrderFacts
  <2>2. Entries(lru') = {}
    BY <2>1 DEF Entries
  <2> QED BY <1>1, <2>2
<1>13. k \in Nat /\ Len(s) \in Nat
  BY <1>2, OrderFacts
<1> HIDE DEF s, wt, c, E, kept, gone
<1>14. kept \in SUBSET Digests /\ gone \in SUBSET Digests
  BY <1>4, <1>6
<1>15. /\ BytesOf(wt, E) = BytesOf(wt, kept) + BytesOf(wt, gone)
       /\ BytesOf(wt, kept) \in Nat /\ BytesOf(wt, gone) \in Nat
  <2>1. IsFiniteSet(kept) /\ IsFiniteSet(gone) /\ \A x \in kept \cup gone : wt[x] \in Nat
    BY <1>3, <1>14, CacheAssumption, FS_Subset
  <2>2. /\ BytesOf(wt, kept \cup gone) = BytesOf(wt, kept) + BytesOf(wt, gone)
        /\ BytesOf(wt, kept) \in Nat /\ BytesOf(wt, gone) \in Nat
    BY <1>6, <2>1, BytesSplit
  <2> QED BY <1>6, <2>2
<1>16. weight' \in [Digests -> Nat] /\ \A e \in Digests \ kept : weight'[e] = 0
  BY <1>3, <1>10
<1>17. ResidentBytes' = BytesOf(wt, kept)
  <2>1. ResidentBytes' = BytesOf(weight', Digests)
    BY DEF ResidentBytes, BytesOf
  <2>2. /\ BytesOf(weight', Digests) = BytesOf(weight', kept)
        /\ BytesOf(weight', kept) \in Nat
    BY <1>14, <1>16, ResidentWeigh
  <2>3. \A x \in kept : weight'[x] = wt[x]
    BY <1>10, <1>14
  <2>4. BytesOf(weight', kept) = BytesOf(wt, kept)
    BY <2>3, BytesAgree
  <2> QED BY <2>1, <2>2, <2>4
<1>18. total' = c - BytesOf(wt, gone)
  BY <1>5, <1>11, <1>15 DEF SaturatingSub
<1>19. total' \in Nat /\ total' >= ResidentBytes' /\ ResidentBytes' \in Nat
  BY <1>5, <1>15, <1>17, <1>18
<1>20. ResidentBytes' <= ByteBudget
  <2>1. CASE k = Len(s)
    <3>1. \A x \in kept : wt[x] = 0
      BY <1>12, <2>1
    <3>2. BytesOf(wt, kept) = 0
      BY <3>1, BytesOfNothing
    <3> QED BY <1>17, <3>2, CacheAssumption
  <2>2. CASE total' <= ByteBudget
    BY <1>19, <2>2, CacheAssumption
  <2> QED BY <1>9, <2>1, <2>2
<1>21. Len(lru') <= Cap
  BY <1>2, <1>6, <1>13, CacheAssumption
<1>22. GoneWeighsNothing'
  BY <1>7, <1>16 DEF GoneWeighsNothing
<1>23. InStep
  <2>1. CASE c - BytesOf(wt, E) = total - ResidentBytes
    <3>1. total' - ResidentBytes' = c - BytesOf(wt, E)
      BY <1>5, <1>15, <1>17, <1>18
    <3> QED BY <2>1, <3>1 DEF InStep
  <2>2. CASE Len(lru) = Cap /\ lru[1] \notin E
    BY <1>6, <1>7, <2>2 DEF InStep
  <2> QED BY <1>5, <2>1, <2>2
<1> QED BY <1>6, <1>16, <1>19, <1>20, <1>21, <1>22, <1>23 DEF CacheOK

-----------------------------------------------------------------------------
LEMMA StillKeeps ==
  ASSUME CacheOK, UNCHANGED cacheVars
  PROVE  CacheOK' /\ InStep
BY DEF CacheOK, InStep, cacheVars, GoneWeighsNothing, ResidentBytes, Resident

LEMMA InitLruInv == LruInit => LruInv
<1> SUFFICES ASSUME LruInit PROVE CacheOK /\ LoadersOK
  BY InvParts
<1>1. Resident = {} /\ Len(lru) = 0
  BY DEF LruInit, Resident, Entries
<1>2. lru \in Order(Digests)
  BY DEF LruInit, Order, Once
<1>3. ResidentBytes = 0
  BY BytesOfNothing DEF LruInit, ResidentBytes
<1>4. LoadersOK
  BY CacheAssumption DEF LruInit, LoadersOK
<1> QED BY <1>1, <1>2, <1>3, <1>4, CacheAssumption DEF LruInit, CacheOK, GoneWeighsNothing

LEMMA StepKeeps ==
  ASSUME CacheOK, LoadersOK, [LruNext]_lruVars
  PROVE  CacheOK' /\ LoadersOK' /\ InStep
<1>1. ASSUME NEW l \in Loaders, NEW d \in Digests, Lookup(l, d)
      PROVE  CacheOK' /\ LoadersOK' /\ InStep
  <2>1. CacheOK' /\ InStep
    BY <1>1, GetKeeps, StillKeeps DEF Lookup, cacheVars
  <2>2. LoadersOK'
    BY <1>1 DEF Lookup, LoadersOK
  <2> QED BY <2>1, <2>2
<1>2. ASSUME NEW l \in Loaders, LoadExisting(l)
      PROVE  CacheOK' /\ LoadersOK' /\ InStep
  <2>1. CacheOK' /\ InStep
    BY <1>2, GetKeeps, StillKeeps DEF LoadExisting, cacheVars
  <2>2. LoadersOK'
    BY <1>2 DEF LoadExisting, Done, LoadersOK
  <2> QED BY <2>1, <2>2
<1>3. ASSUME NEW l \in Loaders, ReadCwasm(l)
      PROVE  CacheOK' /\ LoadersOK' /\ InStep
  <2>1. want[l] \in Digests /\ CwasmLen[want[l]] \in Nat
    BY CacheAssumption DEF LoadersOK
  <2>2. CacheOK' /\ InStep
    BY <1>3, <2>1, InsertKeeps, StillKeeps DEF ReadCwasm
  <2>3. LoadersOK'
    BY <1>3 DEF ReadCwasm, Done, LoadersOK
  <2> QED BY <2>2, <2>3
<1>4. ASSUME NEW l \in Loaders, NeedsCompile(l)
      PROVE  CacheOK' /\ LoadersOK' /\ InStep
  <2>1. CacheOK' /\ InStep
    BY <1>4, StillKeeps DEF NeedsCompile
  <2>2. LoadersOK'
    BY <1>4 DEF NeedsCompile, LoadersOK
  <2> QED BY <2>1, <2>2
<1>5. ASSUME NEW l \in Loaders, Recompile(l)
      PROVE  CacheOK' /\ LoadersOK' /\ InStep
  <2>1. want[l] \in Digests /\ CwasmLen[want[l]] \in Nat /\ WasmLen[want[l]] \in Nat
    BY CacheAssumption DEF LoadersOK
  <2>2. CacheOK' /\ InStep
    BY <1>5, <2>1, InsertKeeps, StillKeeps DEF Recompile
  <2>3. LoadersOK'
    BY <1>5 DEF Recompile, Done, LoadersOK
  <2> QED BY <2>2, <2>3
<1>6. CASE UNCHANGED lruVars
  <2>1. CacheOK' /\ InStep
    BY <1>6, StillKeeps DEF lruVars
  <2>2. LoadersOK'
    BY <1>6 DEF lruVars, LoadersOK
  <2> QED BY <2>1, <2>2
<1> QED BY <1>1, <1>2, <1>3, <1>4, <1>5, <1>6 DEF LruNext

LEMMA InvPartsNext == CacheOK' /\ LoadersOK' => LruInv'
BY DEF LruInv, LruTypeOK, CacheOK, LoadersOK, WithinCaps, TotalCoversResident,
       Order, Once

LEMMA LruInvIsInductive == LruSpec => []LruInv
<1>1. LruInv /\ [LruNext]_lruVars => LruInv'
  BY InvParts, StepKeeps, InvPartsNext
<1> QED BY <1>1, InitLruInv, PTL DEF LruSpec

(* Whatever loaders race, each digest is in the LRU order once and the     *)
(* byte total is a number.                                                 *)
THEOREM LruTypeCorrect == LruSpec => []LruTypeOK
<1>1. LruInv => LruTypeOK
  BY DEF LruInv
<1> QED BY <1>1, LruInvIsInductive, PTL

(* Whatever the weights, the caps and the number of racing loaders, the    *)
(* cache is within both caps between two critical sections.                *)
THEOREM CacheStaysWithinCaps == LruSpec => []WithinCaps
<1>1. LruInv => WithinCaps
  BY DEF LruInv
<1> QED BY <1>1, LruInvIsInductive, PTL

(* total_bytes is never below the resident bytes, so the budget is never   *)
(* checked against too little.                                             *)
THEOREM TotalNeverTooLow == LruSpec => []TotalCoversResident
<1>1. LruInv => TotalCoversResident
  BY DEF LruInv
<1> QED BY <1>1, LruInvIsInductive, PTL

(* Only losing the oldest entry at the count cap moves total_bytes away    *)
(* from the resident bytes.                                                *)
THEOREM OnlyCountCapDrifts == LruSpec => DriftOnlyAtCountCap
<1>1. LruInv /\ [LruNext]_lruVars
        => [ total' - ResidentBytes' # total - ResidentBytes
               => Len(lru) = Cap /\ lru[1] \notin Resident' ]_cacheVars
  BY InvParts, StepKeeps DEF InStep
<1> QED BY <1>1, LruInvIsInductive, PTL DEF LruSpec, DriftOnlyAtCountCap
=============================================================================
