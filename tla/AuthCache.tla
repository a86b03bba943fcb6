------------------------------ MODULE AuthCache ------------------------------
(***************************************************************************)
(* Authenticator::authenticate of crates/core/src/pg/auth.rs, seen from    *)
(* one bearer token: its row in Postgres changes (the key is revoked, the  *)
(* tenant's limits are edited), requests read the row or a cached copy of  *)
(* it, and what a request is answered with may be out of date.             *)
(*                                                                         *)
(* What matters of a copy of the row is whether it is still the current    *)
(* one (live) and, if not, for how long it has not been (lag).  Time is    *)
(* counted in ticks; ages and lags stop at Horizon.                        *)
(***************************************************************************)
EXTENDS Naturals

CONSTANTS
  Requests,
  TTL,             \* Inner::ttl; 0 disables the cache
  MinStaleWindow,  \* MIN_STALE_WINDOW
  LookupTimeout,   \* LOOKUP_TIMEOUT
  Horizon,         \* bound on ages and lags
  MaxChanges,      \* bound on changes of the row
  None

StaleWindow == IF 10 * TTL >= MinStaleWindow THEN 10 * TTL ELSE MinStaleWindow

Copy == [live : BOOLEAN, lag : 0..Horizon]
Entry == [copy : Copy, age : 0..Horizon]

ASSUME AuthAssumption ==
  /\ TTL \in Nat /\ MinStaleWindow \in Nat /\ LookupTimeout \in Nat
  /\ MaxChanges \in Nat
  /\ Horizon \in Nat /\ StaleWindow + 2 * LookupTimeout < Horizon
  /\ None \notin Copy \cup Entry

VARIABLES
  entry,     \* the token's entry of the LRU, or None
  req,       \* each request: where it stands, the time its lookup has taken,
             \* the stale copy it could fall back to, the copy it got
  changes

vars == <<entry, req, changes>>

Waiting == {"lookup", "fetched"}
Answered == {"hit", "fresh", "stale", "error"}

Later(n) == IF n < Horizon THEN n + 1 ELSE n
Current == [live |-> TRUE, lag |-> 0]
Aged(c) == IF c = None \/ c.live THEN c ELSE [c EXCEPT !.lag = Later(@)]
Superseded(c) == IF c # None /\ c.live THEN [live |-> FALSE, lag |-> 0] ELSE c

Request(at, fallback, copy) ==
  [at |-> at, since |-> 0, fallback |-> fallback, copy |-> copy]

-----------------------------------------------------------------------------
(* An entry younger than the TTL answers without a lookup.                 *)
SlidingHit(r) ==  \* mutant: a hit renews the entry
  /\ req[r].at = "idle"
  /\ entry # None /\ entry.age < TTL
  /\ req' = [req EXCEPT ![r] = Request("hit", None, entry.copy)]
  /\ entry' = [entry EXCEPT !.age = 0]
  /\ UNCHANGED changes

Hit(r) ==
  /\ req[r].at = "idle"
  /\ entry # None /\ entry.age < TTL
  /\ req' = [req EXCEPT ![r] = Request("hit", None, entry.copy)]
  /\ UNCHANGED <<entry, changes>>

(* Otherwise the row is looked up, and an entry inside the stale window is *)
(* remembered for the case that the lookup fails.                          *)
Ask(r) ==
  /\ req[r].at = "idle"
  /\ entry # None => entry.age >= TTL
  /\ req' = [req EXCEPT ![r] =
       Request("lookup",
               IF entry # None /\ entry.age < StaleWindow THEN entry.copy ELSE None,
               None)]
  /\ UNCHANGED <<entry, changes>>

(* The query takes its snapshot; its answer is still to arrive.            *)
Snapshot(r) ==
  /\ req[r].at = "lookup"
  /\ req' = [req EXCEPT ![r].at = "fetched", ![r].copy = Current]
  /\ UNCHANGED <<entry, changes>>

(* The answer arrives, is cached under the time of its arrival, whatever   *)
(* another request cached meanwhile, and returned.                         *)
Answer(r) ==
  /\ req[r].at = "fetched"
  /\ req' = [req EXCEPT ![r] = Request("fresh", None, req[r].copy)]
  /\ entry' = IF TTL > 0 THEN [copy |-> req[r].copy, age |-> 0] ELSE entry
  /\ UNCHANGED changes

(* The query fails or times out, also after it took its snapshot.          *)
FailAndRecache(r) ==  \* mutant: the stale copy is cached again
  /\ req[r].at \in Waiting
  /\ LET f == req[r].fallback IN
     /\ req' = [req EXCEPT ![r] = Request(IF f = None THEN "error" ELSE "stale", None, f)]
     /\ entry' = IF f = None THEN entry ELSE [copy |-> f, age |-> 0]
  /\ UNCHANGED changes

FailAndCache(r) ==  \* mutant: the outcome of a failed lookup is cached
  /\ req[r].at \in Waiting
  /\ LET f == req[r].fallback IN
     /\ req' = [req EXCEPT ![r] = Request(IF f = None THEN "error" ELSE "stale", None, f)]
     /\ entry' = [copy |-> None, age |-> 0]
  /\ UNCHANGED changes

Fail(r) ==
  /\ req[r].at \in Waiting
  /\ LET f == req[r].fallback IN
     req' = [req EXCEPT ![r] = Request(IF f = None THEN "error" ELSE "stale", None, f)]
  /\ UNCHANGED <<entry, changes>>

Return(r) ==
  /\ req[r].at \in Answered
  /\ req' = [req EXCEPT ![r] = Request("idle", None, None)]
  /\ UNCHANGED <<entry, changes>>

(* Other tokens push the entry out of the LRU.                             *)
Evict ==
  /\ entry # None
  /\ entry' = None
  /\ UNCHANGED <<req, changes>>

-----------------------------------------------------------------------------
(* The environment: the row changes, and time passes.  The timer and the   *)
(* task it wakes are prompt: no lookup outlives its timeout by a tick.     *)
Change ==
  /\ changes < MaxChanges
  /\ changes' = changes + 1
  /\ entry' = IF entry = None THEN None
              ELSE [entry EXCEPT !.copy = Superseded(@)]
  /\ req' = [r \in Requests |->
       IF req[r].at \in Waiting
       THEN [req[r] EXCEPT !.fallback = Superseded(@), !.copy = Superseded(@)]
       ELSE req[r]]

Tick ==
  /\ \A r \in Requests : req[r].at \in Waiting => req[r].since < LookupTimeout
  /\ entry' = IF entry = None THEN None
              ELSE [copy |-> Aged(entry.copy), age |-> Later(entry.age)]
  /\ req' = [r \in Requests |->
       IF req[r].at \in Waiting
       THEN [req[r] EXCEPT !.since = @ + 1, !.fallback = Aged(@), !.copy = Aged(@)]
       ELSE req[r]]
  /\ UNCHANGED changes

Init ==
  /\ entry = None
  /\ req = [r \in Requests |-> Request("idle", None, None)]
  /\ changes = 0

Finish(r) == Answer(r) \/ Fail(r)

Next ==
  \/ \E r \in Requests : Hit(r) \/ Ask(r) \/ Snapshot(r) \/ Finish(r) \/ Return(r)
  \/ Evict
  \/ Change
  \/ Tick

(* Lookups end, answered requests return and time goes on.                 *)
Fairness ==
  /\ \A r \in Requests : WF_vars(Finish(r)) /\ WF_vars(Return(r))
  /\ WF_vars(Tick)

Spec == Init /\ [][Next]_vars /\ Fairness

-----------------------------------------------------------------------------
(* Types of entry, requests and counter.                                   *)
TypeOK ==
  /\ entry \in Entry \cup {None}
  /\ req \in [Requests ->
       [at : {"idle"} \cup Waiting \cup Answered, since : 0..LookupTimeout,
        fallback : Copy \cup {None}, copy : Copy \cup {None}]]
  /\ changes \in 0..MaxChanges

Lag(c) == IF c = None \/ c.live THEN 0 ELSE c.lag

(* What a request is answered with was current recently.  A lookup's row   *)
(* was replaced at most a lookup ago; a cached one at most a TTL and a     *)
(* lookup ago, because the entry's time is the arrival of the row and not  *)
(* its snapshot, and because a slow lookup may overwrite a newer entry;    *)
(* a stale one at most the stale window and two lookups ago.               *)
StalenessBounded ==
  \A r \in Requests :
    LET lag == Lag(req[r].copy) IN
    /\ req[r].at = "fresh" => lag <= LookupTimeout
    /\ req[r].at = "hit" => lag < TTL + LookupTimeout
    /\ req[r].at = "stale" => lag < StaleWindow + 2 * LookupTimeout

(* A change is seen in the end: once the row stops changing, the cache     *)
(* stops answering with anything but the current row, also when one key is *)
(* in use all the time and when lookups fail now and then.                 *)
ChangeIsSeen ==
  <>[](\A r \in Requests : req[r].at \in {"hit", "fresh"} => req[r].copy.live)

-----------------------------------------------------------------------------
(* Why: a copy was the current row when its query took the snapshot, which *)
(* is less than a lookup before the copy was cached or handed back.        *)
EntryFits ==
  entry # None => Lag(entry.copy) <= entry.age + LookupTimeout
RequestFits(q) ==
  /\ q.at = "fetched" => Lag(q.copy) <= q.since
  /\ q.at = "fetched" => q.copy # None
  /\ q.at \in Waiting /\ q.fallback # None
       => Lag(q.fallback) < StaleWindow + LookupTimeout + q.since
IInv ==
  /\ TypeOK
  /\ EntryFits
  /\ \A r \in Requests : RequestFits(req[r])
  /\ StalenessBounded
=============================================================================
