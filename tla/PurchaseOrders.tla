--------------------------- MODULE PurchaseOrders ---------------------------
(***************************************************************************)
(* Purchase orders: review, cancellation and receipt of goods, by the API  *)
(* and by the restock wizard of the admin panel.                           *)
(*                                                                         *)
(* No handler locks the purchase order or its items: it reads them in one  *)
(* statement, decides, and writes at commit.  Only the products received   *)
(* are locked.  An UPDATE carries the attributes that differ from the copy *)
(* the session read, with the values computed from that copy.              *)
(***************************************************************************)
EXTENDS Integers, FiniteSets

CONSTANTS
    Ids,         \* purchase orders, in the order the database numbers them
    Products,
    Users,
    Approvers,   \* users with purchasing:approve
    Superusers,
    Requests,    \* API sessions
    Wizards,     \* sessions of the admin panel's restock wizard
    None,
    Lines,       \* what an order may ask for: units of each product
    Shipments,   \* what one receipt may bring in
    Initial,     \* stock when the model starts
    MaxSold,     \* bounds: units of a product sold beyond those received,
    MaxReceived, \* units of a product received for one order,
    MaxBusy      \* and sessions in flight together

Sessions == Requests \cup Wizards

ASSUME PurchasingAssumption ==
    /\ Ids \subseteq Nat
    /\ Approvers \subseteq Users /\ Superusers \subseteq Users
    /\ Requests \cap Wizards = {} /\ None \notin Sessions \cup Users
    /\ Lines \subseteq [Products -> Nat]
    /\ Shipments \subseteq [Products -> Nat]
    /\ Initial \in [Products -> Int]
    /\ MaxSold \in Nat /\ MaxReceived \in Nat /\ MaxBusy \in Nat

VARIABLES
    po,        \* the purchase_orders table with its items
    receipts,  \* SUM of the purchase_receipt movements per order and product
    stock,     \* Product.stock_quantity
    ledger,    \* SUM of the deltas of each product's movements since the start
    holder,    \* which session holds each product's row lock
    session,
    audit,     \* audit_logs: the orders with a purchase_order.approve entry
    torn,      \* orders some session has committed from an outdated copy
    inPanel,   \* products whose stock the restock wizard has written
    unlogged   \* orders with an action that went past the audit log: a wizard's
               \* step, or an entry lost in a crash

vars == <<po, receipts, stock, ledger, holder, session, audit, torn, inPanel, unlogged>>

Statuses == {"absent", "draft", "pending_review", "ordered", "partially_received",
             "received", "rejected", "cancelled"}
Stages == {"idle", "panel", "deciding", "locking", "again", "logging"}
Nothing == [p \in Products |-> 0]
NoOrder == [status |-> "absent", owner |-> None, lines |-> Nothing, received |-> Nothing]

OrderRecord == [status : Statuses, owner : Users \cup {None},
                lines : [Products -> Nat], received : [Products -> Nat]]

\* seen is the order as read, to the status the handler sets, goods the
\* receipt, todo the products still to lock, base the stock as loaded.
SessionRecord == [stage : Stages, cur : Ids \cup {None},
                  seen : OrderRecord, to : Statuses, goods : [Products -> Nat],
                  todo : SUBSET Products, base : [Products -> Int]]

Idle == [stage |-> "idle", cur |-> None, seen |-> NoOrder,
         to |-> "absent", goods |-> Nothing, todo |-> {}, base |-> Nothing]

TypeOK ==
    /\ po \in [Ids -> OrderRecord]
    /\ receipts \in [Ids -> [Products -> Nat]]
    /\ stock \in [Products -> Int]
    /\ ledger \in [Products -> Int]
    /\ holder \in [Products -> Sessions \cup {None}]
    /\ session \in [Sessions -> SessionRecord]
    /\ audit \subseteq Ids
    /\ torn \subseteq Ids
    /\ inPanel \subseteq Products
    /\ unlogged \subseteq Ids

Init ==
    /\ po = [o \in Ids |-> NoOrder]
    /\ receipts = [o \in Ids |-> Nothing]
    /\ stock = Initial
    /\ ledger = Nothing
    /\ holder = [p \in Products |-> None]
    /\ session = [r \in Sessions |-> Idle]
    /\ audit = {}
    /\ torn = {}
    /\ inPanel = {}
    /\ unlogged = {}

-----------------------------------------------------------------------------
(* Reading an order and deciding *)

MayApprove(u) == u \in Approvers \cup Superusers

\* Approvers see every document of the tenant, others their own.
MayOpen(u, o) == MayApprove(u) \/ po[o].owner = u

\* Four eyes: only a superuser may decide on an order of his own.
OtherEyes(u, o) == u \in Superusers \/ po[o].owner # u

\* The session has read order o and means to commit what s says.
Hold(r, u, o, s) ==
    /\ po[o].status # "absent"
    /\ MayOpen(u, o)
    /\ session' = [session EXCEPT ![r] = [s EXCEPT !.cur = o, !.seen = po[o]]]
    /\ UNCHANGED <<po, receipts, stock, ledger, holder, audit, torn, inPanel, unlogged>>

Decide(r, u, o, to) == Hold(r, u, o, [Idle EXCEPT !.stage = "deciding", !.to = to])

SubmitForReview(r, u, o) ==
    /\ po[o].status = "draft"
    /\ Decide(r, u, o, "pending_review")

MarkOrdered(r, u, o) ==
    /\ po[o].status = "pending_review"
    /\ OtherEyes(u, o)
    /\ Decide(r, u, o, "ordered")

\* Mutant: a status the rest of the system does not know.
RejectAsRefused(r, u, o) ==
    /\ po[o].status = "pending_review"
    /\ OtherEyes(u, o)
    /\ Decide(r, u, o, "refused")

RejectOrder(r, u, o) ==
    /\ po[o].status = "pending_review"
    /\ OtherEyes(u, o)
    /\ Decide(r, u, o, "rejected")

\* Mutant: an order that has received goods can be cancelled.
CancelAnyOrder(r, u, o) ==
    /\ po[o].status # "cancelled"
    /\ Decide(r, u, o, "cancelled")

CancelOrder(r, u, o) ==
    /\ po[o].status # "cancelled"
    /\ \A p \in Products : po[o].received[p] = 0
    /\ Decide(r, u, o, "cancelled")

Listed(goods) == {p \in Products : goods[p] > 0}
Remaining(o, p) == po[o].lines[p] - po[o].received[p]

\* Mutant: a receipt is compared with what was ordered, not with what remains.
ReceiveUpToOrdered(r, u, o, goods) ==
    /\ \A p \in Products : receipts[o][p] + goods[p] <= MaxReceived
    /\ po[o].status \in {"ordered", "partially_received"}
    /\ Listed(goods) # {}
    /\ \A p \in Listed(goods) : goods[p] <= po[o].lines[p]
    /\ Hold(r, u, o, [session[r] EXCEPT !.stage = "locking", !.goods = goods,
                                        !.todo = Listed(goods)])

ReceiveItems(r, u, o, goods) ==
    /\ \A p \in Products : receipts[o][p] + goods[p] <= MaxReceived
    /\ po[o].status \in {"ordered", "partially_received"}
    /\ Listed(goods) # {}
    /\ \A p \in Listed(goods) : goods[p] <= Remaining(o, p)
    /\ Hold(r, u, o, [session[r] EXCEPT !.stage = "locking", !.goods = goods,
                                        !.todo = Listed(goods)])
-----------------------------------------------------------------------------
(* Writing *)

\* COMMIT and ROLLBACK both give the row locks back.
Unlock(r) == holder' = [p \in Products |-> IF holder[p] = r THEN None ELSE holder[p]]

\* What follows the service's own commit: an endpoint writes the audit entry
\* in a transaction of its own; the wizard's order step goes on to mark the
\* order it has submitted; any other wizard step is over.
AfterCommit(r, to) ==
    LET s == session[r]
    IN  /\ session' = [session EXCEPT ![r] =
              IF r \in Requests
              THEN [Idle EXCEPT !.stage = "logging", !.cur = s.cur, !.to = to]
              ELSE IF to = "pending_review"
              THEN [Idle EXCEPT !.stage = "again", !.cur = s.cur]
              ELSE Idle]
        /\ unlogged' = IF r \in Wizards THEN unlogged \cup {s.cur} ELSE unlogged

Outdated(r) == IF po[session[r].cur] # session[r].seen THEN {session[r].cur} ELSE {}

CommitDecision(r) ==
    LET s == session[r]
    IN  /\ s.stage = "deciding"
        /\ po' = [po EXCEPT ![s.cur].status = s.to]
        /\ torn' = torn \cup Outdated(r)
        /\ AfterCommit(r, s.to)
        /\ UNCHANGED <<receipts, stock, ledger, holder, audit, inPanel>>

\* Mutant: the products are not locked.
ReadProduct(r) ==
    LET s == session[r]
    IN  /\ s.stage = "locking"
        /\ \E p \in s.todo :
              session' = [session EXCEPT ![r].todo = @ \ {p}, ![r].base[p] = stock[p]]
        /\ UNCHANGED <<po, receipts, stock, ledger, holder, audit, torn, inPanel, unlogged>>

\* SELECT ... FOR UPDATE of one product, in the order the receipt lists them.
\* The wizard's session has loaded the product before: it keeps that copy.
LockProduct(r) ==
    LET s == session[r]
    IN  /\ s.stage = "locking"
        /\ \E p \in s.todo :
              /\ holder[p] = None
              /\ holder' = [holder EXCEPT ![p] = r]
              /\ session' = [session EXCEPT ![r].todo = @ \ {p},
                    ![r].base[p] = IF r \in Wizards THEN @ ELSE stock[p]]
        /\ UNCHANGED <<po, receipts, stock, ledger, audit, torn, inPanel, unlogged>>

Arrived(r, p) == session[r].seen.received[p] + session[r].goods[p]

\* Mutant: one complete item completes the order.
StatusOnAnyItem(r) ==
    IF \E p \in Products : Arrived(r, p) > 0 /\ Arrived(r, p) >= session[r].seen.lines[p]
    THEN "received" ELSE "partially_received"

StatusAfter(r) ==
    IF \A p \in Products : Arrived(r, p) >= session[r].seen.lines[p]
    THEN "received" ELSE "partially_received"

\* The items in the receipt, the stock, the movements, and the status when it
\* differs from the one read.
CommitReceipt(r) ==
    LET s == session[r]
        listed == Listed(s.goods)
    IN  /\ s.stage = "locking" /\ s.todo = {}
        /\ stock' = [p \in Products |-> IF p \in listed THEN s.base[p] + s.goods[p]
                                                        ELSE stock[p]]
        /\ ledger' = [p \in Products |-> ledger[p] + s.goods[p]]
        /\ receipts' = [receipts EXCEPT ![s.cur] = [p \in Products |-> @[p] + s.goods[p]]]
        /\ po' = [po EXCEPT
              ![s.cur].received = [p \in Products |-> IF p \in listed THEN Arrived(r, p)
                                                                      ELSE @[p]],
              ![s.cur].status = IF StatusAfter(r) # s.seen.status THEN StatusAfter(r) ELSE @]
        /\ torn' = torn \cup Outdated(r)
        /\ inPanel' = IF r \in Wizards THEN inPanel \cup listed ELSE inPanel
        /\ AfterCommit(r, "received")
        /\ Unlock(r)
        /\ UNCHANGED audit

\* Mutant: the endpoint adds the entry and never commits it.
LogActionUncommitted(r) ==
    /\ session[r].stage = "logging"
    /\ session' = [session EXCEPT ![r] = Idle]
    /\ UNCHANGED <<po, receipts, stock, ledger, holder, audit, torn, inPanel, unlogged>>

\* The endpoint's log_action and its commit.
LogAction(r) ==
    LET s == session[r]
    IN  /\ s.stage = "logging"
        /\ audit' = IF s.to = "ordered" THEN audit \cup {s.cur} ELSE audit
        /\ session' = [session EXCEPT ![r] = Idle]
        /\ UNCHANGED <<po, receipts, stock, ledger, holder, torn, inPanel, unlogged>>
-----------------------------------------------------------------------------
(* The endpoints *)

Free(r) == /\ session[r].stage = "idle"
           /\ Cardinality({q \in Sessions : session[q].stage # "idle"}) < MaxBusy

\* The new order takes the next id.
IsNext(o) == /\ po[o].status = "absent"
             /\ \A i \in Ids : i < o => po[i].status # "absent"

InsertOrder(r, u, lines) ==
    \E o \in {i \in Ids : IsNext(i)} :
        /\ Listed(lines) # {}
        /\ po' = [po EXCEPT ![o] = [NoOrder EXCEPT !.status = "draft", !.owner = u,
                                                   !.lines = lines]]
        /\ session' = [session EXCEPT ![r] = IF r \in Requests
              THEN [Idle EXCEPT !.stage = "logging", !.cur = o, !.to = "draft"] ELSE Idle]
        /\ unlogged' = IF r \in Wizards THEN unlogged \cup {o} ELSE unlogged
        /\ UNCHANGED <<receipts, stock, ledger, holder, audit, torn, inPanel>>

PostOrder(r) == Free(r) /\ \E u \in Users, lines \in Lines : InsertOrder(r, u, lines)

PostSubmit(r) == Free(r) /\ \E u \in Users, o \in Ids : SubmitForReview(r, u, o)

PostMarkOrdered(r) ==
    Free(r) /\ \E u \in Users, o \in Ids : MayApprove(u) /\ MarkOrdered(r, u, o)

PostReject(r) ==
    Free(r) /\ \E u \in Users, o \in Ids : MayApprove(u) /\ RejectOrder(r, u, o)

PostCancel(r) == Free(r) /\ \E u \in Users, o \in Ids : CancelOrder(r, u, o)

PostReceive(r) ==
    Free(r) /\ \E u \in Users, o \in Ids, goods \in Shipments : ReceiveItems(r, u, o, goods)

-----------------------------------------------------------------------------
(* The restock wizard: superusers only, no audit entries *)

\* Every step of the wizard starts by loading all products of the tenant, and
\* awaits the form before it goes on.
OpenWizard(r) ==
    /\ Free(r)
    /\ session' = [session EXCEPT ![r] = [Idle EXCEPT !.stage = "panel", !.base = stock]]
    /\ UNCHANGED <<po, receipts, stock, ledger, holder, audit, torn, inPanel, unlogged>>

WizardStep(r) ==
    /\ session[r].stage = "panel"
    /\ \E u \in Superusers :
          \/ \E lines \in Lines : InsertOrder(r, u, lines)
          \/ \E o \in Ids : SubmitForReview(r, u, o)
          \/ \E o \in Ids, goods \in Shipments : ReceiveItems(r, u, o, goods)

\* The second half of the order step.
WizardOrder(r) ==
    session[r].stage = "again" /\ \E u \in Superusers : MarkOrdered(r, u, session[r].cur)

\* The page is left or the step is refused (the order has moved on meanwhile).
LeaveWizard(r) ==
    /\ \/ session[r].stage = "panel"
       \/ session[r].stage = "again" /\ po[session[r].cur].status # "pending_review"
    /\ session' = [session EXCEPT ![r] = Idle]
    /\ UNCHANGED <<po, receipts, stock, ledger, holder, audit, torn, inPanel, unlogged>>
-----------------------------------------------------------------------------
(* The rest of the world *)

\* create_order takes the product's lock, and its stock when it commits.
Sell(p) ==
    /\ holder[p] = None /\ stock[p] > 0 /\ ledger[p] > -MaxSold
    /\ stock' = [stock EXCEPT ![p] = @ - 1]
    /\ ledger' = [ledger EXCEPT ![p] = @ - 1]
    /\ UNCHANGED <<po, receipts, holder, session, audit, torn, inPanel, unlogged>>

\* A receipt is a deadlock victim, or loses its connection.
Abort(r) ==
    /\ session[r].stage = "locking"
    /\ session' = [session EXCEPT ![r] = Idle]
    /\ Unlock(r)
    /\ UNCHANGED <<po, receipts, stock, ledger, audit, torn, inPanel, unlogged>>

\* The server goes down: open transactions roll back, owed entries are lost.
Restart ==
    /\ \E r \in Sessions : session[r].stage # "idle"
    /\ session' = [r \in Sessions |-> Idle]
    /\ holder' = [p \in Products |-> None]
    /\ unlogged' = unlogged \cup {session[r].cur :
                                     r \in {q \in Sessions : session[q].stage = "logging"}}
    /\ UNCHANGED <<po, receipts, stock, ledger, audit, torn, inPanel>>

Request(r) ==
    \/ PostOrder(r) \/ PostSubmit(r) \/ PostMarkOrdered(r) \/ PostReject(r)
    \/ PostCancel(r) \/ PostReceive(r)

Panel(r) == OpenWizard(r) \/ WizardStep(r) \/ WizardOrder(r) \/ LeaveWizard(r)

Commit(r) == CommitDecision(r) \/ LockProduct(r) \/ CommitReceipt(r) \/ LogAction(r)

Next ==
    \/ \E r \in Requests : Request(r)
    \/ \E r \in Wizards : Panel(r)
    \/ \E r \in Sessions : Commit(r) \/ Abort(r)
    \/ \E p \in Products : Sell(p)
    \/ Restart

Spec == Init /\ [][Next]_vars

-----------------------------------------------------------------------------
(* Properties *)

\* No lost updates: as long as the wizard has not written a product, its stock
\* is what it was plus its movements, whatever requests overlap (the product's
\* row lock in receive_purchase_order_items).
StockMatchesReceipts ==
    \A p \in Products \ inPanel : stock[p] = Initial[p] + ledger[p]

\* features.md: product stock is ledger-managed: its movements account for it.
StockIsLedgerManaged ==
    \A p \in Products : stock[p] = Initial[p] + ledger[p]

\* An item never records more than was ordered, nor more than has come in,
\* although receipts are compared with an unlocked copy and overwrite each
\* other: the sum is written from the copy that was compared.
NeverOverRecorded ==
    \A o \in Ids, p \in Products :
        /\ po[o].received[p] <= po[o].lines[p]
        /\ po[o].received[p] <= receipts[o][p]

Complete(o) == \A p \in Products : po[o].received[p] = po[o].lines[p]
Untouched(o) == \A p \in Products : po[o].received[p] = 0

\* An order nobody wrote from an outdated copy adds up: it has recorded all its
\* receipts, "received" is said of complete orders only, "partially_received"
\* of the others with receipts, and no order with receipts is cancelled,
\* rejected or back in review.
UntornOrdersAddUp ==
    \A o \in Ids \ torn :
        /\ po[o].received = receipts[o]
        /\ po[o].status = "received" => Complete(o)
        /\ po[o].status = "partially_received" => ~Complete(o) /\ ~Untouched(o)
        /\ po[o].status \notin {"received", "partially_received"} => Untouched(o)

\* docs/purchasing-redesign.md: lifecycle actions are in the audit log.  An
\* order stands ordered only if its approval is logged, is being logged by the
\* request that made it, or went past the log in the wizard or a crash.
OrdersAreAudited ==
    \A o \in Ids : po[o].status = "ordered" =>
        \/ o \in audit
        \/ o \in unlogged
        \/ \E r \in Requests : /\ session[r].stage = "logging"
                               /\ session[r].cur = o /\ session[r].to = "ordered"
=============================================================================
