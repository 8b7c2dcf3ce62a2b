--------------------------- MODULE SaleContract ---------------------------
(***************************************************************************)
(* What the order desk promises the shop floor, with no sessions, locks or *)
(* rows in sight: every sale takes all its units at once or none, every    *)
(* cancellation and every refund puts its units back once, and an order    *)
(* moves forward or is cancelled.  OrderLifecycle implements it.           *)
(***************************************************************************)
EXTENDS Integers, FiniteSetsExt

CONSTANTS Orders, Refunds, Products, Basket, Return, Initial

VARIABLES
    stock,    \* units on the shelf
    status,   \* where each order stands
    returned  \* the refunds that have been made

vars == <<stock, status, returned>>

Init ==
    /\ stock = [p \in Products |-> Initial[p]]
    /\ status = [o \in Orders |-> "absent"]
    /\ returned = {}

\* All the units are there, and leave the shelf together.
Sell(o) ==
    /\ status[o] = "absent"
    /\ \A p \in Products : stock[p] >= Basket[o].items[p]
    /\ stock' = [p \in Products |-> stock[p] - Basket[o].items[p]]
    /\ status' = [status EXCEPT ![o] = "pending"]
    /\ UNCHANGED returned

Forward(o, from, to) ==
    /\ status[o] = from
    /\ status' = [status EXCEPT ![o] = to]
    /\ UNCHANGED <<stock, returned>>

\* One order is cancelled, or a sweep cancels several that are still pending.
Release(S) ==
    /\ S # {}
    /\ \A o \in S : status[o] \notin {"absent", "cancelled"}
    /\ (\E o \in S : S = {o}) \/ \A o \in S : status[o] = "pending"
    /\ stock' = [p \in Products |->
            stock[p] + SumFunctionOnSet([o \in Orders |-> Basket[o].items[p]], S)]
    /\ status' = [o \in Orders |-> IF o \in S THEN "cancelled" ELSE status[o]]
    /\ UNCHANGED returned

\* A refund is made once, for an order that has been settled (a cancellation
\* may have overtaken it).
TakeBack(k) ==
    /\ k \notin returned
    /\ status[Return[k].order] \notin {"absent", "pending"}
    /\ stock' = [p \in Products |-> stock[p] + Return[k].items[p]]
    /\ returned' = returned \cup {k}
    /\ UNCHANGED status

Next ==
    \/ \E o \in Orders : \/ Sell(o)
                         \/ Forward(o, "pending", "serving")
                         \/ Forward(o, "serving", "completed")
    \/ \E S \in SUBSET Orders : Release(S)
    \/ \E k \in Refunds : TakeBack(k)

Spec == Init /\ [][Next]_vars
=============================================================================
