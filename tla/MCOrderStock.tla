--------------------------- MODULE MCOrderStock ---------------------------
(* Two overlapping carts, the second asking for the units the first may take,
   no customers: stock, payments and idempotency under concurrency. *)
EXTENDS OrderLifecycle, TLC

CONSTANTS o1, o2, o3, k1, k2, f1, p1, p2

Plain(a, b) == [items |-> p1 :> a @@ p2 :> b, customer |-> None, promotion |-> None,
                redeem |-> 0, total |-> a + b]
Baskets == o1 :> Plain(1, 1) @@ o2 :> Plain(1, 1) @@ o3 :> Plain(1, 0)
MCBasket == [o \in Orders |-> Baskets[o]]
MCTender ==
    k1 :> [order |-> o1, amount |-> 2, cardReach |-> 1, keyed |-> TRUE]
 @@ k2 :> [order |-> o1, amount |-> 1, cardReach |-> 1, keyed |-> TRUE]
MCReturn == f1 :> [order |-> o1, items |-> p1 :> 1 @@ p2 :> 1, amount |-> 2]
MCProductId == p1 :> 1 @@ p2 :> 2
MCUsageLimit == <<>>
MCInitial == p1 :> 2 @@ p2 :> 1
MCSymmetry == Permutations(Requests)
=============================================================================
