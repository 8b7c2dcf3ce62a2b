--------------------------- MODULE MCOrderSweep ---------------------------
(***************************************************************************)
(* The background loops that main.py starts.  The reservation sweep runs   *)
(* against one till: reservations that expire while a payment, a           *)
(* cancellation or another cart holds some of the rows.  The automatic     *)
(* purchase orders run against sales, deliveries and settings.  The two    *)
(* touch no common row, so a behaviour has one of them: `watched` says     *)
(* which, and the other one has never been started.                        *)
(***************************************************************************)
EXTENDS OrderLifecycle, TLC

CONSTANTS o1, o2, k1, p1, p2, g1, g2, s1, s2,
          DraftIds, Goods, Suppliers, Workers, Panels, Batches, Nobody, Trigger, Leaving,
          Switch, MaxSales, MaxCrashes

VARIABLES watched, drafts, shelf, demand, suppliers, setting, advisory, task, alive, crashes

Plain(a, b) == [items |-> p1 :> a @@ p2 :> b, customer |-> None, promotion |-> None,
                redeem |-> 0, total |-> a + b]
MCBasket == o1 :> Plain(1, 1) @@ o2 :> Plain(1, 1)
MCTender == k1 :> [order |-> o1, amount |-> 1, cardReach |-> 1, keyed |-> TRUE]
MCReturn == <<>>
MCProductId == p1 :> 1 @@ p2 :> 2
MCUsageLimit == <<>>
MCInitial == p1 :> 2 @@ p2 :> 2

Auto == INSTANCE AutoPurchase WITH
    sales <- demand,
    Rule <- g1 :> [point |-> 1, min |-> 0, max |-> 2, lead |-> 20, lookback |-> 10]
            @@ g2 :> [point |-> 0, min |-> 1, max |-> 0, lead |-> 0, lookback |-> 30],
    Shelf <- g1 :> 2 @@ g2 :> 0,
    Past <- g1 :> s1 @@ g2 :> s2

purchaseVars == <<drafts, shelf, demand, suppliers, setting, advisory, task, alive, crashes>>
loopVars == <<vars, watched, purchaseVars>>

LoopsInit == watched \in {"sweep", "purchases"} /\ Init /\ Auto!AutoInit

LoopsNext ==
    /\ UNCHANGED watched
    /\ IF watched = "sweep" THEN Work ELSE UNCHANGED vars
    /\ IF watched = "purchases"
       THEN Auto!WorkerNext \/ Auto!TradeNext
       ELSE UNCHANGED purchaseVars

\* Fairness and AutoFairness: the sweep has nothing to start on where there are
\* no orders, the purchasing loops would start anywhere.
LoopsFairness ==
    /\ Fairness
    /\ WF_purchaseVars(watched = "purchases" /\ \E w \in Workers : Auto!RunExclusive(w))
    /\ \A w \in Workers :
          /\ WF_purchaseVars(watched = "purchases" /\ (\/ Auto!MissSetting(w)
                                                   \/ Auto!InsertSetting(w)
                                                   \/ Auto!ReadSetting(w)))
          /\ WF_purchaseVars(watched = "purchases" /\ Auto!Ordering(w))

LoopsSpec == LoopsInit /\ [][LoopsNext]_loopVars /\ LoopsFairness

\* What automation is for: as long as some worker's loop is alive, a product
\* below its line is on order (or in review, or on hand again) eventually.
LowStockIsOrdered == Auto!LowStockIsOrdered

\* Ordering settles: a delivery of what was asked for ends the need, within the
\* product's maximum.
DeliveryEndsNeed == Auto!DeliveryEndsNeed
=============================================================================
