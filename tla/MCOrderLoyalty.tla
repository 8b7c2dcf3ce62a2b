-------------------------- MODULE MCOrderLoyalty --------------------------
(* One customer with a few points and one promotion with a limit, shared by
   two orders of a product that never runs out: loyalty and promotion
   counters under concurrency. *)
EXTENDS OrderLifecycle, TLC

CONSTANTS o1, o2, o3, k1, k2, f1, f2, p, c, d

Member(promotion, redeem, total) ==
    [items |-> p :> 1, customer |-> c, promotion |-> promotion,
     redeem |-> redeem, total |-> total]
Baskets == o1 :> Member(d, 0, 2) @@ o2 :> Member(None, 2, 1) @@ o3 :> Member(d, 0, 1)
MCBasket == [o \in Orders |-> Baskets[o]]
Tenders ==
    k1 :> [order |-> o1, amount |-> 2, cardReach |-> 2, keyed |-> TRUE]
 @@ k2 :> [order |-> o2, amount |-> 2, cardReach |-> 0, keyed |-> TRUE]
MCTender == [k \in Payments |-> Tenders[k]]
\* Refunds, under different keys, of the one unit o1 has sold.
MCReturn == [f \in Refunds |-> [order |-> o1, items |-> p :> 1, amount |-> 2]]
MCProductId == p :> 1
MCUsageLimit == d :> 1
MCInitial == p :> 3 @@ c :> 1 @@ d :> 0
MCSymmetry == Permutations(Requests)
=============================================================================
