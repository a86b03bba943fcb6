----------------------------- MODULE Storefront -----------------------------
(***************************************************************************)
(* The checkout of examples/storefront: its handler and policy             *)
(* (app/src/lib.rs, checkout.rs), the merchants' hook (hook/src/lib.rs),   *)
(* the Postgres kv behind it (PgKv), and Runtime::invoke as what it        *)
(* promises (InvokeContract, which Invocation is shown to implement).      *)
(*                                                                         *)
(* A call is the order of one shopper, who asks again when told to retry   *)
(* and may go away at any moment; KeyOf is the key under which the loyalty *)
(* hook counts the orders of its customer, but any program a merchant      *)
(* uploads may read and write it too.                                      *)
(***************************************************************************)
EXTENDS PgKv, Integers, SequencesExt

CONSTANTS
  KeyOf,
  Carts,       \* item lists [qty, unit_cents] a shopper may send
  Plants,      \* values that another program puts
  Word,        \* 2^64: the arithmetic of u64 is modulo Word
  MaxCents,
  LoyaltyFrom, \* LOYALTY_FROM_ORDER
  LoyaltyPercent,
  MaxTries,    \* bound on the tries of each shopper
  Weight, GuestResults, MemoryBudget, MaxInFlightPerTenant  \* of the runtime

Merchants == Tenants
Hooks == {"loyalty", "rogue"}
Counts == 0..(Word - 1)

ASSUME StorefrontAssumption ==
  /\ KeyOf \in [Calls -> Keys]
  /\ Word \in Nat \ {0}
  /\ Counts \subseteq Values /\ Plants \subseteq Values
  /\ Carts # {}
  /\ \A cart \in Carts : \A i \in DOMAIN cart :
       cart[i].qty \in 1..(Word - 1) /\ cart[i].unit \in 0..(Word - 1)
  /\ MaxCents \in 1..(Word \div 2)
  /\ LoyaltyFrom \in Nat \ {0}
  /\ LoyaltyPercent \in 0..100
  /\ MaxTries \in [Calls -> Nat \ {0}]
  /\ IsFiniteSet(Calls)

VARIABLES
  phase, bill,  \* of the runtime
  shop,    \* of each merchant: unknown, created without a hook, or its hook
  order,   \* of each call: where its request is
  counted, \* history: the counters the loyalty hook committed, one per put
  planted  \* history: the largest count another program committed per key

Runtime == INSTANCE InvokeContract

contractVars == <<phase, bill>>
history == <<counted, planted>>
vars == <<rows, db, phase, bill, shop, order, counted, planted>>

Nothing == [is |-> "nothing", approved |-> FALSE, total |-> 0, discount |-> 0]
Plain(is) == [Nothing EXCEPT !.is = is]

NewOrder == [at |-> "browsing", tries |-> 0, subtotal |-> 0, cart |-> <<>>,
             hook |-> "none", nth |-> 0, out |-> Nothing]

InGuest == {"started", "getting", "got", "putting", "deciding"}

-----------------------------------------------------------------------------
(* Order::subtotal: checked arithmetic, and a limit after every item.      *)
TooLarge == -1
CheckedMul(a, b) == IF a * b < Word THEN a * b ELSE TooLarge

AddItem(total, item) ==
  LET line == CheckedMul(item.unit, item.qty)
  IN  IF total = TooLarge \/ item.unit > MaxCents \/ line = TooLarge
         \/ total + line >= Word \/ total + line > MaxCents
      THEN TooLarge ELSE total + line
Subtotal(cart) ==
  IF cart = <<>> THEN TooLarge ELSE FoldLeft(AddItem, 0, cart)

Discount(subtotal, nth) ==
  IF nth >= LoyaltyFrom THEN (subtotal * LoyaltyPercent) \div 100 ELSE 0

(* resolve and parse_decision: what an invocation's result says to the     *)
(* shopper.  A discount over the subtotal stands for all invalid output.   *)
Approved(is, subtotal) ==
  [is |-> is, approved |-> TRUE, total |-> subtotal, discount |-> 0]

ResolveUnvetted(result, subtotal) ==  \* mutant: any discount is applied
  CASE result.is = "Ok" ->
         [result EXCEPT !.is = "hook", !.total = subtotal - result.discount]
    [] result.is = "NotFound" -> Approved("none", subtotal)
    [] result.is \in {"Overloaded", "TenantBusy"} -> Plain("retry")
    [] OTHER -> Approved("failed", subtotal)
ResolveRetrying(result, subtotal) ==  \* mutant: a failed hook is retried
  CASE result.is = "Ok" /\ result.discount <= subtotal ->
         [result EXCEPT !.is = "hook", !.total = subtotal - result.discount]
    [] result.is = "NotFound" -> Approved("none", subtotal)
    [] OTHER -> Plain("retry")

Resolve(result, subtotal) ==
  CASE result.is = "Ok" /\ result.discount <= subtotal ->
         [result EXCEPT !.is = "hook", !.total = subtotal - result.discount]
    [] result.is = "NotFound" -> Approved("none", subtotal)
    [] result.is \in {"Overloaded", "TenantBusy"} -> Plain("retry")
    [] OTHER -> Approved("failed", subtotal)
-----------------------------------------------------------------------------
(* create_merchant and upload_hook.                                        *)
CreateMerchant(m) ==
  /\ shop[m] = "unknown"
  /\ shop' = [shop EXCEPT ![m] = "none"]
  /\ UNCHANGED <<kvVars, contractVars, order, history>>

UploadHook(m, hook) ==
  /\ shop[m] \notin {"unknown", hook}
  /\ shop' = [shop EXCEPT ![m] = hook]
  /\ UNCHANGED <<kvVars, contractVars, order, history>>

-----------------------------------------------------------------------------
(* The handler up to invoke.                                               *)
Goes(c, at) == order' = [order EXCEPT ![c].at = at]
Says(c, out) == order' = [order EXCEPT ![c].at = "answered", ![c].out = out]

Place(c, cart) ==
  /\ order[c].at = "browsing"
  /\ order' = [order EXCEPT ![c] =
       IF Subtotal(cart) = TooLarge
       THEN [@ EXCEPT !.at = "answered", !.cart = cart, !.out = Plain("bad order")]
       ELSE [@ EXCEPT !.at = "priced", !.cart = cart, !.subtotal = Subtotal(cart)]]
  /\ UNCHANGED <<kvVars, contractVars, shop, history>>

ReadLimits(c) ==
  /\ order[c].at = "priced" /\ shop[TenantOf[c]] # "unknown"
  /\ Cardinality({d \in Calls : db[d].at \in Connected}) < PoolSize
  /\ Runtime!Call(c)
  /\ Goes(c, "invoking")
  /\ UNCHANGED <<kvVars, shop, history>>

UnknownMerchant(c) ==
  /\ order[c].at = "priced" /\ shop[TenantOf[c]] = "unknown"
  /\ Says(c, Plain("unknown merchant"))
  /\ UNCHANGED <<kvVars, contractVars, shop, history>>

LimitsFail(c) ==
  /\ order[c].at = "priced"
  /\ Says(c, Approved("failed", order[c].subtotal))
  /\ UNCHANGED <<kvVars, contractVars, shop, history>>

(* invoke fails before the guest starts; without a hook it may be refused  *)
(* for the runtime's limits as well, which come first.                     *)
Busy(c) ==
  /\ order[c].at = "invoking"
  /\ Runtime!Reject(c)
  /\ Says(c, Resolve(Plain("TenantBusy"), order[c].subtotal))
  /\ UNCHANGED <<kvVars, shop, history>>

Refused(c) ==
  /\ order[c].at = "invoking"
  /\ Runtime!Refuse(c)
  /\ \E error \in {"NotFound", "Overloaded", "Load"} :
       /\ error = "NotFound" => shop[TenantOf[c]] = "none"
       /\ order' = [order EXCEPT ![c].at = "settled", ![c].out = Plain(error)]
  /\ UNCHANGED <<kvVars, shop, history>>

-----------------------------------------------------------------------------
(* The hook, until it returns, traps or is cut off.                        *)
RunGuest(c) ==
  /\ order[c].at = "invoking"
  /\ shop[TenantOf[c]] \in Hooks
  /\ Runtime!Run(c)
  /\ order' = [order EXCEPT ![c].at = "started", ![c].hook = shop[TenantOf[c]]]
  /\ UNCHANGED <<kvVars, shop, history>>

GuestEnds(c, out) ==
  /\ order[c].at \in InGuest
  /\ Runtime!Stop(c)
  /\ bill'[c] = <<out.is = "Ok">>
  /\ order' = [order EXCEPT ![c].at = "settled", ![c].out = out]
  /\ UNCHANGED shop

Decision(approved, discount) ==
  [Plain("Ok") EXCEPT !.approved = approved, !.discount = discount]

FraudRejects(c) ==
  /\ order[c].at = "started"
  /\ GuestEnds(c, Decision(FALSE, 0))
  /\ UNCHANGED <<kvVars, history>>

(* A low score, or no answer at all.                                       *)
FraudPasses(c) ==
  /\ order[c].at = "started" /\ order[c].hook = "loyalty"
  /\ BeginGet(c, KeyOf[c])
  /\ Goes(c, "getting")
  /\ UNCHANGED <<contractVars, shop, history>>

(* No row and what is no number count as none; u64 wraps around in the     *)
(* guest's release build.                                                  *)
CountIn(row) == IF row \in Counts THEN row ELSE 0
Successor(n) == IF n + 1 = Word THEN 0 ELSE n + 1

(* Another program is back at its start after every call of its own.       *)
Resumes(c, at) == IF order[c].hook = "loyalty" THEN at ELSE "started"

GetAnswers(c) ==
  /\ Got(c)
  /\ order' = IF ~db[c].heard THEN order
              ELSE [order EXCEPT ![c].at = Resumes(c, "got"),
                      ![c].nth = IF order[c].hook = "loyalty"
                                 THEN Successor(CountIn(Row(c))) ELSE @]
  /\ UNCHANGED <<contractVars, shop, history>>

CountOrder(c) ==
  /\ order[c].at = "got"
  /\ BeginPut(c, KeyOf[c], order[c].nth)
  /\ Goes(c, "putting")
  /\ UNCHANGED <<contractVars, shop, history>>

(* What a COMMIT leaves in the row: an order counted, or what another      *)
(* program put there.                                                      *)
Recorded(c) ==
  IF order[c].hook = "loyalty"
  THEN /\ counted' = [counted EXCEPT ![c] = Append(@, db[c].value)]
       /\ UNCHANGED planted
  ELSE /\ planted' = [planted EXCEPT ![TenantOf[c]][db[c].key] =
                        IF CountIn(db[c].value) > @ THEN CountIn(db[c].value) ELSE @]
       /\ UNCHANGED counted

PutAnswers(c) ==
  /\ Commit(c)
  /\ Recorded(c)
  /\ order' = IF db[c].heard THEN [order EXCEPT ![c].at = Resumes(c, "deciding")]
              ELSE order
  /\ UNCHANGED <<contractVars, shop>>

Decide(c) ==
  /\ order[c].at = "deciding"
  /\ GuestEnds(c, Decision(TRUE, Discount(order[c].subtotal, order[c].nth)))
  /\ UNCHANGED <<kvVars, history>>

(* Another program a merchant may upload: it gets and puts what it likes,  *)
(* in its tenant, and takes what it likes off.                             *)
RogueCalls(c) ==
  /\ order[c].at = "started" /\ order[c].hook = "rogue"
  /\ \E key \in Keys :
       \/ BeginGet(c, key) /\ Goes(c, "getting")
       \/ \E value \in Plants : BeginPut(c, key, value) /\ Goes(c, "putting")
  /\ UNCHANGED <<contractVars, shop, history>>

RogueDecides(c) ==
  /\ order[c].at = "started" /\ order[c].hook = "rogue"
  /\ \E discount \in {order[c].subtotal, order[c].subtotal + 1} :
       GuestEnds(c, Decision(TRUE, discount))
  /\ UNCHANGED <<kvVars, history>>

(* The quota or the database fails the kv call: the guest traps.           *)
HeardLightly(c) ==  \* mutant: a guest is told that its failed put succeeded
  IF ~db[c].heard THEN UNCHANGED <<contractVars, shop, order>>
  ELSE IF order[c].at = "putting"
       THEN Goes(c, Resumes(c, "deciding")) /\ UNCHANGED <<contractVars, shop>>
       ELSE GuestEnds(c, Plain("GuestTrap"))
HeardTrap(c) ==
  IF db[c].heard THEN GuestEnds(c, Plain("GuestTrap"))
  ELSE UNCHANGED <<contractVars, shop, order>>
PutExceeds(c) == SumExceeds(c) /\ HeardTrap(c) /\ UNCHANGED history
KvBreaks(c) == Break(c) /\ HeardTrap(c) /\ UNCHANGED history
KvBreaksAfterCommit(c) ==
  /\ BreakCommit(c)
  /\ HeardTrap(c)
  /\ Recorded(c)

(* CPU budget, memory cap, wall clock or a trap of the guest's own.        *)
CutOff(c) ==
  /\ GuestEnds(c, Plain("GuestTrap"))
  /\ Drop(c)
  /\ UNCHANGED history

-----------------------------------------------------------------------------
(* The answer, a retry, and a shopper who goes away.                       *)
AnswerShopper(c) ==
  /\ order[c].at = "settled"
  /\ Runtime!Return(c)
  /\ Says(c, Resolve(order[c].out, order[c].subtotal))
  /\ UNCHANGED <<kvVars, shop, history>>

Retry(c) ==
  /\ order[c].at = "answered" /\ order[c].out.is = "retry"
  /\ order[c].tries + 1 < MaxTries[c]
  /\ order' = [order EXCEPT ![c].at = "priced", ![c].tries = @ + 1,
                            ![c].out = Nothing, ![c].hook = "none", ![c].nth = 0]
  /\ UNCHANGED <<kvVars, contractVars, shop, history>>

(* The future of the handler is dropped where it is.                       *)
Leave(c) ==
  /\ \/ order[c].at = "priced" /\ UNCHANGED <<kvVars, contractVars>>
     \/ order[c].at = "invoking" /\ Runtime!Refuse(c) /\ UNCHANGED kvVars
     \/ order[c].at \in InGuest /\ Runtime!Stop(c) /\ bill'[c] = <<FALSE>> /\ Drop(c)
  /\ Goes(c, "left")
  /\ UNCHANGED <<shop, history>>

(* The statements of PgKv that no shopper's step goes with.                *)
Server(c) ==
  /\ Acquire(c) \/ Lock(c) \/ SumFits(c) \/ Upsert(c) \/ Rollback(c)
  /\ UNCHANGED <<contractVars, shop, order, history>>

-----------------------------------------------------------------------------
Init ==
  /\ KvInit /\ Runtime!ContractInit
  /\ shop = [m \in Merchants |-> "unknown"]
  /\ order = [c \in Calls |-> NewOrder]
  /\ counted = [c \in Calls |-> <<>>]
  /\ planted = [m \in Merchants |-> [key \in Keys |-> 0]]

Enters(c) == Busy(c) \/ Refused(c) \/ RunGuest(c)
Reads(c) == ReadLimits(c) \/ UnknownMerchant(c) \/ LimitsFail(c)

Next ==
  \/ \E m \in Merchants :
       CreateMerchant(m) \/ \E hook \in Hooks : UploadHook(m, hook)
  \/ \E c \in Calls :
       \/ \E cart \in Carts : Place(c, cart)
       \/ Reads(c) \/ Enters(c)
       \/ FraudRejects(c) \/ FraudPasses(c) \/ GetAnswers(c) \/ CountOrder(c)
       \/ PutAnswers(c) \/ Decide(c) \/ RogueCalls(c) \/ RogueDecides(c)
       \/ PutExceeds(c) \/ KvBreaks(c) \/ KvBreaksAfterCommit(c) \/ CutOff(c)
       \/ AnswerShopper(c) \/ Retry(c) \/ Leave(c) \/ Server(c)

(* The handler runs on, the wall clock cuts every guest off, and Postgres  *)
(* answers, lets the next session take a lock and ends a transaction.      *)
(* Nothing is assumed of shoppers, merchants, guests or the pool.          *)
Handles(c) == Reads(c) \/ Enters(c) \/ CutOff(c) \/ AnswerShopper(c)
Serves(c) ==
  \/ db[c].at \in {"lock", "rollback"} /\ Server(c)
  \/ GetAnswers(c) \/ PutAnswers(c)
Fairness == \A c \in Calls : WF_vars(Handles(c)) /\ WF_vars(Serves(c))

Spec == Init /\ [][Next]_vars /\ Fairness

-----------------------------------------------------------------------------
(* Properties.                                                             *)
Answers == {"hook", "none", "failed", "retry", "bad order", "unknown merchant"}
Errors == {"NotFound", "Overloaded", "Load", "GuestTrap"}

(* Every variable keeps its type; no shopper is told a total below zero or *)
(* above the limit, whatever the hook answers (lib.rs:332).                *)
TypeOK ==
  /\ KvTypeOK
  /\ phase \in [Calls -> {"idle", "pending", "running", "settled"}]
  /\ bill \in [Calls -> {<<>>} \cup {<<b>> : b \in BOOLEAN}]
  /\ shop \in [Merchants -> {"unknown", "none"} \cup Hooks]
  /\ order \in [Calls -> [at : {"browsing", "priced", "invoking", "settled",
                                "answered", "left"} \cup InGuest,
                          tries : Nat, subtotal : 0..MaxCents,
                          cart : Carts \cup {<<>>}, hook : {"none"} \cup Hooks,
                          nth : Counts,
                          out : [is : Answers \cup Errors \cup {"nothing", "Ok"},
                                 approved : BOOLEAN, total : 0..MaxCents,
                                 discount : 0..(MaxCents + 1)]]]
  /\ counted \in [Calls -> Seq(Counts)]
  /\ planted \in [Merchants -> [Keys -> Counts]]

(* However often a shopper asks again, and wherever an attempt failed, the *)
(* order is counted once at most; and not at all when the shopper is told  *)
(* to retry, that the shop has no hook, or that the order is rejected      *)
(* (checkout.rs:147, hook/src/lib.rs:95).                                  *)
CountedOnce == \A c \in Calls :
  /\ Len(counted[c]) <= 1
  /\ order[c].at = "answered" /\ counted[c] # <<>> =>
       order[c].out.approved /\ order[c].out.is \in {"hook", "failed"}

Price(cart) ==
  FoldLeft(LAMBDA sum, item : sum + item.qty * item.unit, 0, cart)

CountedFor(m, key) ==
  {c \in Calls : TenantOf[c] = m /\ KeyOf[c] = key /\ counted[c] # <<>>}

(* The orders that a customer's row may be said to count.                  *)
Claims(m, key) == planted[m][key] + Cardinality(CountedFor(m, key))

(* Every count in a row is that of an order, but for what the merchant's   *)
(* other programs put there.                                               *)
RowsCounted ==
  \A m \in Merchants, key \in Keys : CountIn(rows[m][key]) <= Claims(m, key)

(* An approved order costs what its items cost, less its discount; the     *)
(* loyalty hook gives one only for an order that was itself counted, as    *)
(* its customer's LoyaltyFrom-th at least, and never counts beyond the     *)
(* orders counted and what another program of the same merchant put under  *)
(* the key: where that is nothing, the discount is earned by orders.  No   *)
(* failed put, unheard COMMIT, interleaving or wrapped sum earns one.      *)
ChargeJustified ==
  /\ RowsCounted
  /\ \A c \in Calls :
       (order[c].at = "answered" /\ order[c].out.approved) =>
         /\ order[c].out.total + order[c].out.discount = Price(order[c].cart)
         /\ (order[c].hook = "loyalty" /\ order[c].out.discount > 0) =>
              /\ counted[c] = <<order[c].nth>>
              /\ order[c].nth \in LoyaltyFrom..Claims(TenantOf[c], KeyOf[c])

(* Every order placed is answered or abandoned, although hooks may hang    *)
(* and the database may not answer; and every connection, with its lock,   *)
(* is back in the pool, those that dropped calls left behind included.     *)
AtRest(c) ==
  /\ order[c].at \in {"browsing", "answered", "left"}
  /\ db[c].at = "none"
EveryCheckoutEnds == <>[](\A c \in Calls : AtRest(c))

-----------------------------------------------------------------------------
(* Why ChargeJustified holds.  What checkout.rs adds up is the price, if   *)
(* no product wraps; TLC evaluates this over the carts it is given.        *)
PricesRight(carts) ==
  \A cart \in carts : Subtotal(cart) # TooLarge =>
    Subtotal(cart) \in 0..MaxCents /\ Subtotal(cart) = Price(cart)

(* Of an order o, its session s and its customer's key, what it counted k, *)
(* and the number n of orders its row may be said to count: a count that   *)
(* the loyalty hook has on its way into the row is one more than these at  *)
(* most, and a discount was counted first.                                 *)
Earned(o, s, key, k, n) ==
  /\ o.hook # "rogue" /\ s.at # "none" => s.key = key
  /\ o.hook # "rogue" /\ s.at \in Puts =>
       s.value \in Counts \cap 0..(n + 1) /\ (s.heard => s.value = o.nth)
  /\ o.at \in {"got", "deciding"} => o.hook = "loyalty"
  /\ o.at = "got" => o.nth <= n + 1
  /\ o.at = "deciding" => k = <<o.nth>> /\ o.nth <= n
  /\ (o.at \in {"settled", "answered"} /\ o.hook = "loyalty" /\ o.out.discount > 0) =>
       k = <<o.nth>> /\ o.nth \in LoyaltyFrom..n

(* An order on its way is priced by its cart, and its answer by its price. *)
Paid(o) ==
  /\ o.out.is \in Answers \cup Errors \cup {"nothing", "Ok"}
  /\ o.out.total \in 0..MaxCents
  /\ o.out.is = "bad order" => o.at = "answered"
  /\ (o.at # "browsing" /\ o.out.is # "bad order") =>
       o.cart \in Carts /\ Subtotal(o.cart) # TooLarge /\ o.subtotal = Subtotal(o.cart)
  /\ (o.at = "answered" /\ o.out.approved) =>
       o.out.is # "bad order" /\ o.out.total + o.out.discount = o.subtotal

BilledWhenSettled == \A c \in Calls : phase[c] # "settled" => bill[c] = <<>>

IInv ==
  /\ TypeOK /\ RowsCounted /\ BilledWhenSettled
  /\ \A c \in Calls :
       /\ Earned(order[c], db[c], KeyOf[c], counted[c], Claims(TenantOf[c], KeyOf[c]))
       /\ Paid(order[c])
=============================================================================
