---------------------------- MODULE MCStorefront ----------------------------
(* Two orders of one customer, one of whom asks again when told to.  Other *)
(* programs put no number, 1 or the last count under the customer's key or *)
(* another.  The quota holds one counter for each key, or one that has     *)
(* grown.  The second cart wraps around to 2 cents if its product is not   *)
(* checked.                                                                *)
EXTENDS Storefront

CONSTANTS c1, c2, m1, a, b, junk

Ones == [c \in Calls |-> 1]
TwiceForOne == [c \in Calls |-> IF c = c1 THEN 2 ELSE 1]
OneShop == [c \in Calls |-> m1]
OneCustomer == [c \in Calls |-> a]
CountsAndJunk == Counts \cup {junk}
Growing ==
  [v \in Rows |-> IF v = None THEN 0 ELSE IF v \in {0, 1} THEN 1 ELSE 2]
JunkOneAndTheLast == {junk, 1, Word - 1}
GoodAndWrapping ==
  {<<[qty |-> 2, unit |-> 5]>>, <<[qty |-> 13, unit |-> 10]>>}

(* Prices of up to three items, at the edges of the arithmetic.            *)
EdgeItems == [qty : {1, 2, 13, 64, 127}, unit : {0, 1, 5, 10, 20, 21, 64, 127}]
ASSUME PricesAtEdges ==
  PricesRight(Carts \cup UNION {[1..n -> EdgeItems] : n \in 0..3})
=============================================================================
