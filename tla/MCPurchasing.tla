---------------------------- MODULE MCPurchasing ----------------------------
(***************************************************************************)
(* Purchasing: orders of two products with two requests and one wizard     *)
(* session, and two invoices of one order with two payments.  Orders and   *)
(* money are checked side by side: a behaviour watches one of them, what   *)
(* the money side needs to know of the orders is in Payables.              *)
(***************************************************************************)
EXTENDS PurchaseOrders, Payables, TLC

CONSTANTS p1, p2, w1, i1, i2, k1, k2, clerk, boss, Parts

VARIABLE part

Both(a, b) == p1 :> a @@ p2 :> b
MCLines == {Both(2, 1)}
MCShipments == {Both(1, 0), Both(1, 1)}
MCInitial == Both(1, 0)

MCOrdered == <<2>>
MCOrderer == <<clerk>>
MCBill == i1 :> [po |-> 1, number |-> 1, units |-> 2, cost |-> 1, owner |-> clerk]
       @@ i2 :> [po |-> 1, number |-> 2, units |-> 1, cost |-> 1, owner |-> boss]
MCTransfer == k1 :> [invoice |-> i1, amount |-> 2, owner |-> clerk]
           @@ k2 :> [invoice |-> i1, amount |-> 1, owner |-> clerk]

MCSymmetry == Permutations(Requests)

MCInit == part \in Parts /\ Init /\ PayInit

MCNext ==
    \/ part = "orders" /\ Next /\ UNCHANGED <<part, payVars>>
    \/ part = "money" /\ PayNext /\ UNCHANGED <<part, vars>>

MCSpec == MCInit /\ [][MCNext]_<<part, vars, payVars>>

\* The state of both is of its type.
TypesOK == TypeOK /\ PayTypeOK
=============================================================================
