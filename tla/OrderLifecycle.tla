-------------------------- MODULE OrderLifecycle --------------------------
(***************************************************************************)
(* Orders, payments, refunds, cancellations and the reservation sweep of   *)
(* the point-of-sale backend, as concurrent database sessions.             *)
(*                                                                         *)
(* Every request runs in one SQLAlchemy session on one PostgreSQL          *)
(* transaction (READ COMMITTED).  The counters the handlers update         *)
(* (Product.stock_quantity, Customer.points_balance,                       *)
(* Promotion.usage_count) are "rows" here: a handler loads a row into its  *)
(* session, adds to the loaded value in Python, and the flush at commit    *)
(* writes the sum back.  Whether the load was SELECT ... FOR UPDATE is     *)
(* what decides if the write may overwrite somebody else's.                *)
(***************************************************************************)
EXTENDS Integers, FiniteSetsExt

CONSTANTS
    Orders,      \* order idempotency keys: the carts the tills may submit
    Payments,    \* payment batches (one line, or the lines of a split)
    Refunds,     \* refund idempotency keys
    Products, Customers, Promotions,
    Requests,    \* API sessions that may be in flight together
    Loop,        \* the session of the background reservation sweep
    None,        \* no holder, no customer, no promotion
    Basket,      \* what each order asks for and comes to
    Tender,      \* what each payment batch pays
    Return,      \* what each refund hands back
    ProductId,   \* the primary keys create_order sorts by
    UsageLimit,  \* Promotion.usage_limit
    Initial      \* the rows' values when the model starts

Rows == Products \cup Customers \cup Promotions
Sessions == Requests \cup {Loop}
Lockable == Orders \cup Rows

\* total is the amount due after discount, redeemed points and taxes.
ASSUME BasketAssumption ==
    Basket \in [Orders -> [items     : [Products -> Nat],
                           customer  : Customers \cup {None},
                           promotion : Promotions \cup {None},
                           redeem    : Nat,
                           total     : Nat]]

\* amount is the batch's sum and cardReach the largest prefix sum that ends in
\* a non-cash line (0 when all lines are cash): the batch passes the
\* "non-cash cannot exceed remaining" test of each line in turn exactly when
\* cardReach does not exceed what is still due.
ASSUME TenderAssumption ==
    Tender \in [Payments -> [order : Orders, amount : Nat, cardReach : Nat, keyed : BOOLEAN]]

ASSUME ReturnAssumption ==
    Return \in [Refunds -> [order : Orders, items : [Products -> Nat], amount : Nat]]

\* A request lists the lines of its cart, or of its refund.
ASSUME LinesAssumption ==
    /\ \A o \in Orders : IsFiniteSet({p \in Products : Basket[o].items[p] > 0})
    /\ \A k \in Refunds : IsFiniteSet({p \in Products : Return[k].items[p] > 0})

\* Primary keys differ, and no promotion starts beyond its limit.
ASSUME RowAssumption ==
    /\ ProductId \in [Products -> Nat]
    /\ \A p, q \in Products : ProductId[p] = ProductId[q] => p = q
    /\ UsageLimit \in [Promotions -> Nat]
    /\ Initial \in [Rows -> Nat]
    /\ \A k \in Promotions : Initial[k] <= UsageLimit[k]

ASSUME DistinctAssumption ==
    /\ Products \cap Customers = {} /\ Products \cap Promotions = {}
    /\ Customers \cap Promotions = {} /\ Rows \cap Orders = {}
    /\ Loop \notin Requests
    /\ None \notin Sessions /\ None \notin Lockable

VARIABLES
    order,       \* the orders table: one record per key
    tendered,    \* SUM(Payment.amount) of each order
    charged,     \* how often each payment batch has been inserted
    earned,      \* SUM of the order's "earn" loyalty transactions
    refunded,    \* SUM(RefundItem.quantity) per order and product
    refundsDone, \* refund keys already inserted
    value,       \* the committed counters: stock, points, usage
    ledger,      \* SUM of the deltas logged for each row (stock movements,
                 \* loyalty transactions; for promotions the uses themselves)
    holder,      \* which session holds the row lock on each row
    session,     \* what each session is doing
    drawerOpen,  \* the drawer session all these orders belong to is open
    loopAlive    \* the sweep loop's task has not died of an exception

vars == <<order, tendered, charged, earned, refunded, refundsDone,
          value, ledger, holder, session, drawerOpen, loopAlive>>
sales == <<order, tendered, charged, earned, refunded, refundsDone>>

Operations == {"idle", "create", "pay", "refund", "cancel", "sweep"}
Stages == {"idle", "started", "locking", "ready"}
Statuses == {"absent", "pending", "serving", "completed", "cancelled"}
Reservations == {"none", "reserved", "committed", "released"}
ServingStatuses == {"none", "queued", "preparing", "ready", "served"}

\* cur is the order being worked on, queue the sweep's orders still to come and
\* done those it has been through (first to lock them, then to release them),
\* todo the rows still to be locked for cur, loaded the session's identity
\* map, seen the values as loaded and delta what has been added to them.
SessionState ==
    [op : Operations, stage : Stages, cur : Orders \cup {None},
     queue : SUBSET Orders, done : SUBSET Orders,
     arg : Payments \cup Refunds \cup {None},
     todo : SUBSET Rows, loaded : SUBSET Rows,
     seen : [Rows -> Int], delta : [Rows -> Int]]

OrderState ==
    [status : Statuses, reservation : Reservations, lapsed : BOOLEAN,
     serving : ServingStatuses,
     bill : [paid : Int, change : Int, remaining : Int]]

Idle == [op |-> "idle", stage |-> "idle", cur |-> None, queue |-> {}, done |-> {},
         arg |-> None, todo |-> {}, loaded |-> {},
         seen |-> [x \in Rows |-> 0], delta |-> [x \in Rows |-> 0]]

NoBill == [paid |-> 0, change |-> 0, remaining |-> 0]

TypeOK ==
    /\ order \in [Orders -> OrderState]
    /\ tendered \in [Orders -> Nat]
    /\ charged \in [Payments -> Nat]
    /\ earned \in [Orders -> Nat]
    /\ refunded \in [Orders -> [Products -> Nat]]
    /\ refundsDone \subseteq Refunds
    /\ value \in [Rows -> Int]
    /\ ledger \in [Rows -> Int]
    /\ holder \in [Lockable -> Sessions \cup {None}]
    /\ session \in [Sessions -> SessionState]
    /\ drawerOpen \in BOOLEAN
    /\ loopAlive \in BOOLEAN

Init ==
    /\ order = [o \in Orders |-> [status |-> "absent", reservation |-> "none",
                                  lapsed |-> FALSE, serving |-> "none", bill |-> NoBill]]
    /\ tendered = [o \in Orders |-> 0]
    /\ charged = [k \in Payments |-> 0]
    /\ earned = [o \in Orders |-> 0]
    /\ refunded = [o \in Orders |-> [p \in Products |-> 0]]
    /\ refundsDone = {}
    /\ value = Initial
    /\ ledger = [x \in Rows |-> 0]
    /\ holder = [x \in Lockable |-> None]
    /\ session = [r \in Sessions |-> Idle]
    /\ drawerOpen = TRUE
    /\ loopAlive = TRUE

-----------------------------------------------------------------------------
(* Rows and sessions *)

ItemsOf(o) == {p \in Products : Basket[o].items[p] > 0}
CustomerOf(o) == {Basket[o].customer} \cap Customers
PromotionOf(o) == {Basket[o].promotion} \cap Promotions

Lesser(a, b) == IF a <= b THEN a ELSE b

\* The attribute as the session's Python code sees it.
Local(r, x) == (IF x \in session[r].loaded THEN session[r].seen[x] ELSE value[x])
               + session[r].delta[x]

\* The session after it has loaded the rows X (a row already in the identity
\* map is not refreshed) and added d to them.
Touched(r, X, d) ==
    LET s == session[r]
    IN  [s EXCEPT !.loaded = @ \cup X,
                  !.seen = [x \in Rows |-> IF x \in X \ s.loaded THEN value[x] ELSE @[x]],
                  !.delta = [x \in Rows |-> IF x \in X THEN @[x] + d[x] ELSE @[x]]]

\* Mutant: rows are read without FOR UPDATE.
RowNeverLocked(r, x) == TRUE

\* A lock is granted to a session when nobody else holds the row.
RowFree(r, x) == holder[x] \in {None, r}

\* The refunds that have been flushed but not committed: their foreign key
\* keeps a share lock on the order's row.
Sharing(o) == {q \in Sessions : /\ session[q].op = "refund"
                                /\ session[q].stage = "ready"
                                /\ session[q].cur = o}

\* An order's row can be locked FOR UPDATE.
OrderFree(r, o) == RowFree(r, o) /\ Sharing(o) = {}

\* Mutant: a session that ends without giving its locks back.
EndSessionKeepingLocks(r) ==
    /\ session' = [session EXCEPT ![r] = Idle]
    /\ UNCHANGED holder

\* COMMIT and ROLLBACK both end the transaction and drop its row locks.
EndSession(r) ==
    /\ session' = [session EXCEPT ![r] = Idle]
    /\ holder' = [x \in Lockable |-> IF holder[x] = r THEN None ELSE holder[x]]

\* The flush before COMMIT: an UPDATE for every row whose value changed, which
\* waits for other sessions' row locks, and an INSERT for every logged delta.
Flush(r) ==
    LET s == session[r]
    IN  /\ \A x \in Rows : s.delta[x] # 0 => RowFree(r, x)
        /\ value' = [x \in Rows |-> IF s.delta[x] # 0 THEN s.seen[x] + s.delta[x]
                                                      ELSE value[x]]
        /\ ledger' = [x \in Rows |-> ledger[x] + s.delta[x]]

\* Mutant: the cart's products are locked as the till listed them.
PrecedesAsListed(x, y) == TRUE

\* create_order takes the customer, then the products in ascending id order,
\* then the promotion.
Precedes(x, y) ==
    \/ x = y
    \/ x \in Customers
    \/ y \in Promotions
    \/ x \in Products /\ y \in Products /\ ProductId[x] <= ProductId[y]

\* Refund lines come in the caller's order and Order.items has no ORDER BY, so
\* the other handlers may meet their products in any order.
NextRows(r) ==
    LET s == session[r]
    IN  IF s.op = "create" THEN {x \in s.todo : \A y \in s.todo : Precedes(x, y)}
                           ELSE s.todo

\* What locking the row makes the handler add to it (only create_order locks
\* customers and promotions).
Share(r, x) ==
    LET s == session[r]
    IN  IF x \in Customers THEN -Basket[s.cur].redeem
        ELSE IF x \in Promotions THEN 1
        ELSE IF s.op = "create" THEN -Basket[s.cur].items[x]
        ELSE IF s.op = "refund" THEN Return[s.arg].items[x]
        ELSE Basket[s.cur].items[x]

\* Mutant: stock is not checked again under the lock.
EnoughStockUnchecked(r, x) == TRUE

EnoughStock(r, x) ==
    x \in Products => Local(r, x) >= Basket[session[r].cur].items[x]

\* Mutant: the points balance is not checked under the lock.
EnoughPointsUnchecked(r, x) == TRUE

EnoughPoints(r, x) ==
    x \in Customers /\ Basket[session[r].cur].redeem > 0
        => Local(r, x) >= Basket[session[r].cur].redeem

\* Mutant: the limit is compared with the uses so far, this one not included.
UsesLeftOffByOne(r, x) == x \in Promotions => Local(r, x) <= UsageLimit[x]

UsesLeft(r, x) == x \in Promotions => Local(r, x) < UsageLimit[x]

\* The checks create_order makes on the rows it has locked.
Admits(r, x) ==
    session[r].op = "create" => EnoughStock(r, x) /\ EnoughPoints(r, x) /\ UsesLeft(r, x)

\* SELECT ... FOR UPDATE of one more row, and the assignment that follows it.
LockRow(r) ==
    /\ session[r].stage = "locking"
    /\ \E x \in NextRows(r) :
        /\ RowFree(r, x)
        /\ Admits(r, x)
        /\ holder' = [holder EXCEPT ![x] = r]
        /\ session' = [session EXCEPT ![r] =
                [Touched(r, {x}, [y \in {x} |-> Share(r, x)]) EXCEPT !.todo = @ \ {x}]]
    /\ UNCHANGED <<sales, value, ledger, drawerOpen, loopAlive>>

-----------------------------------------------------------------------------
(* create_order *)

\* No order with this idempotency key exists yet: go on to lock the rows.
StartOrder(r, o) ==
    /\ session[r] = Idle
    /\ order[o].status = "absent"
    /\ session' = [session EXCEPT ![r] =
            [Idle EXCEPT !.op = "create", !.cur = o, !.stage = "locking",
                         !.todo = ItemsOf(o) \cup CustomerOf(o) \cup PromotionOf(o)]]
    /\ UNCHANGED <<sales, value, ledger, holder, drawerOpen, loopAlive>>

\* Not enough stock, points or promotion uses: HTTP 400 and rollback.
RefuseOrder(r) ==
    /\ session[r].op = "create" /\ session[r].stage = "locking"
    /\ \E x \in NextRows(r) : RowFree(r, x) /\ ~Admits(r, x)
    /\ EndSession(r)
    /\ UNCHANGED <<sales, value, ledger, drawerOpen, loopAlive>>

\* The drawer session is read without a lock.
CheckDrawer(r) ==
    /\ session[r].op = "create" /\ session[r].stage = "locking" /\ session[r].todo = {}
    /\ IF drawerOpen
       THEN /\ session' = [session EXCEPT ![r].stage = "ready"]
            /\ UNCHANGED holder
       ELSE EndSession(r)
    /\ UNCHANGED <<sales, value, ledger, drawerOpen, loopAlive>>

CommitOrder(r) ==
    LET o == session[r].cur
    IN  /\ session[r].op = "create" /\ session[r].stage = "ready"
        /\ order[o].status = "absent"
        /\ Flush(r)
        /\ order' = [order EXCEPT ![o] =
                [status |-> "pending", reservation |-> "reserved", lapsed |-> FALSE,
                 serving |-> "none",
                 bill |-> [paid |-> 0, change |-> 0, remaining |-> Basket[o].total]]]
        /\ EndSession(r)
        /\ UNCHANGED <<tendered, charged, earned, refunded, refundsDone, drawerOpen, loopAlive>>

-----------------------------------------------------------------------------
(* add_payment_to_order, add_split_payments_to_order *)

\* _calculate_settlement_totals for payments that sum to t.
Settlement(o, t) ==
    LET due == Basket[o].total
    IN  [paid |-> Lesser(t, due), change |-> t - Lesser(t, due),
         remaining |-> due - Lesser(t, due)]

Completes(k) ==
    Settlement(Tender[k].order, tendered[Tender[k].order] + Tender[k].amount).remaining = 0

\* The batch's idempotency keys are not in the payments table yet.
StartPayment(r, k) ==
    /\ session[r] = Idle
    /\ order[Tender[k].order].status # "absent"
    /\ Tender[k].keyed => charged[k] = 0
    /\ session' = [session EXCEPT ![r] =
            [Idle EXCEPT !.op = "pay", !.cur = Tender[k].order, !.arg = k, !.stage = "started"]]
    /\ UNCHANGED <<sales, value, ledger, holder, drawerOpen, loopAlive>>

\* Mutant: only settled orders are refused, not cancelled or released ones.
PaymentAllowedAfterRelease(k) ==
    LET o == Tender[k].order
    IN  /\ drawerOpen
        /\ order[o].status \notin {"completed", "serving"}
        /\ Tender[k].cardReach = 0 \/ tendered[o] + Tender[k].cardReach <= Basket[o].total

\* The guards a payment passes under the order's lock.
PaymentAllowed(k) ==
    LET o == Tender[k].order
    IN  /\ drawerOpen
        /\ order[o].status \notin {"cancelled", "completed", "serving"}
        /\ order[o].reservation # "released"
        /\ ~(order[o].reservation = "reserved" /\ order[o].lapsed)
        /\ Tender[k].cardReach = 0 \/ tendered[o] + Tender[k].cardReach <= Basket[o].total

\* The order row is locked and the guards are evaluated; if the payment
\* completes the order, the customer is then loaded without a lock.
LockForPayment(r) ==
    LET k == session[r].arg
        o == session[r].cur
        earners == IF Completes(k) /\ earned[o] = 0 THEN CustomerOf(o) ELSE {}
    IN  /\ session[r].op = "pay" /\ session[r].stage = "started"
        /\ OrderFree(r, o)
        /\ IF PaymentAllowed(k)
           THEN /\ holder' = [holder EXCEPT ![o] = r]
                /\ session' = [session EXCEPT ![r] =
                        [Touched(r, earners, [x \in Rows |-> Basket[o].total])
                            EXCEPT !.stage = "ready"]]
           ELSE EndSession(r)
        /\ UNCHANGED <<sales, value, ledger, drawerOpen, loopAlive>>

\* Mutant: a difference of one cent counts as settled.
SettledWithTolerance(o, t) ==
    IF Settlement(o, t).remaining > 1
    THEN [order[o] EXCEPT !.bill = Settlement(o, t)]
    ELSE [order[o] EXCEPT !.bill = Settlement(o, t),
                          !.status = "serving",
                          !.reservation = "committed",
                          !.lapsed = FALSE,
                          !.serving = IF @ = "none" THEN "queued" ELSE @]

\* _complete_order_if_paid for an order whose payments now sum to t.
Settled(o, t) ==
    IF Settlement(o, t).remaining > 0
    THEN [order[o] EXCEPT !.bill = Settlement(o, t)]
    ELSE [order[o] EXCEPT !.bill = Settlement(o, t),
                          !.status = "serving",
                          !.reservation = "committed",
                          !.lapsed = FALSE,
                          !.serving = IF @ = "none" THEN "queued" ELSE @]

\* Mutant: the unique index on payment keys is missing.
KeyUnusedUnchecked(k) == TRUE

\* The unique (user_id, idempotency_key) index on payments.
KeyUnused(k) == Tender[k].keyed => charged[k] = 0

CommitPayment(r) ==
    LET k == session[r].arg
        o == session[r].cur
    IN  /\ session[r].op = "pay" /\ session[r].stage = "ready"
        /\ KeyUnused(k)
        /\ Flush(r)
        /\ charged' = [charged EXCEPT ![k] = @ + 1]
        /\ tendered' = [tendered EXCEPT ![o] = @ + Tender[k].amount]
        /\ order' = [order EXCEPT ![o] = Settled(o, tendered[o] + Tender[k].amount)]
        /\ earned' = [earned EXCEPT ![o] =
                IF Completes(k) /\ @ = 0 /\ CustomerOf(o) # {} THEN Basket[o].total ELSE @]
        /\ EndSession(r)
        /\ UNCHANGED <<refunded, refundsDone, drawerOpen, loopAlive>>

-----------------------------------------------------------------------------
(* create_refund *)

\* Everything the refund is judged by (the order's status, its drawer, what
\* has been refunded before) is read before any lock is taken.
StartRefund(r, k) ==
    LET o == Return[k].order
    IN  /\ session[r] = Idle
        /\ k \notin refundsDone
        /\ order[o].status \in {"serving", "completed"}
        /\ drawerOpen
        /\ \A p \in Products :
                Return[k].items[p] > 0 =>
                    Return[k].items[p] <= Basket[o].items[p] - refunded[o][p]
        /\ session' = [session EXCEPT ![r] =
                [Idle EXCEPT !.op = "refund", !.cur = o, !.arg = k, !.stage = "locking",
                             !.todo = {p \in Products : Return[k].items[p] > 0}]]
        /\ UNCHANGED <<sales, value, ledger, holder, drawerOpen, loopAlive>>

\* Mutant: the refund takes its points back whatever the balance.
ReversalInFull(r, c) == Return[session[r].arg].amount

\* Points given back: never more than the balance the session has read.
Reversal(r, c) ==
    LET points == Lesser(Return[session[r].arg].amount, Local(r, c))
    IN  IF points > 0 THEN points ELSE 0

\* The refund is flushed, which waits until nobody else has the order's row
\* locked; then the customer is loaded without a lock.
RefundPoints(r) ==
    LET s == session[r]
    IN  /\ s.op = "refund" /\ s.stage = "locking" /\ s.todo = {}
        /\ RowFree(r, s.cur)
        /\ session' = [session EXCEPT ![r] =
                [Touched(r, CustomerOf(s.cur), [c \in CustomerOf(s.cur) |-> -Reversal(r, c)])
                    EXCEPT !.stage = "ready"]]
        /\ UNCHANGED <<sales, value, ledger, holder, drawerOpen, loopAlive>>

CommitRefund(r) ==
    LET k == session[r].arg
        o == session[r].cur
    IN  /\ session[r].op = "refund" /\ session[r].stage = "ready"
        /\ k \notin refundsDone
        /\ Flush(r)
        /\ refundsDone' = refundsDone \cup {k}
        /\ refunded' = [refunded EXCEPT ![o] =
                [p \in Products |-> @[p] + Return[k].items[p]]]
        /\ EndSession(r)
        /\ UNCHANGED <<order, tendered, charged, earned, drawerOpen, loopAlive>>

\* The unique (user_id, idempotency_key) index refuses the second insert:
\* IntegrityError, rollback, HTTP 409.
DuplicateKey(r) ==
    LET s == session[r]
    IN  /\ s.stage = "ready"
        /\ \/ s.op = "create" /\ order[s.cur].status # "absent"
           \/ s.op = "pay" /\ Tender[s.arg].keyed /\ charged[s.arg] > 0
           \/ s.op = "refund" /\ s.arg \in refundsDone
        /\ EndSession(r)
        /\ UNCHANGED <<sales, value, ledger, drawerOpen, loopAlive>>

-----------------------------------------------------------------------------
(* cancel_order, release_expired_reservations_for_user *)

\* Mutant: a cancelled order can be cancelled again.
CancellableAgain(o) == order[o].status # "absent"

Cancellable(o) == order[o].status \notin {"absent", "cancelled"}

StartCancel(r, o) ==
    /\ session[r] = Idle
    /\ OrderFree(r, o)
    /\ Cancellable(o)
    /\ drawerOpen
    /\ holder' = [holder EXCEPT ![o] = r]
    /\ session' = [session EXCEPT ![r] =
            [Idle EXCEPT !.op = "cancel", !.cur = o, !.stage = "locking", !.todo = ItemsOf(o)]]
    /\ UNCHANGED <<sales, value, ledger, drawerOpen, loopAlive>>

\* The sweep's WHERE clause.
Expired == {o \in Orders : /\ order[o].status = "pending"
                           /\ order[o].reservation = "reserved"
                           /\ order[o].lapsed}

\* Mutant: the sweep does not look at the payments.
UnpaidOrPaid(S) == S

\* Orders with money on them are skipped.
Unpaid(S) == {o \in S : tendered[o] = 0}

\* The orders the sweep is for.
Releasable == Unpaid(Expired)

\* Mutant: the loop only sweeps while the drawer is open.
StartSweepInOpenDrawer(r) ==
    /\ session[r] = Idle
    /\ r = Loop => loopAlive
    /\ Expired # {} /\ drawerOpen
    /\ session' = [session EXCEPT ![r] =
            [Idle EXCEPT !.op = "sweep", !.stage = "started", !.queue = Expired]]
    /\ UNCHANGED <<sales, value, ledger, holder, drawerOpen, loopAlive>>

\* The query of the sweep that a request or the loop's timer starts.
StartSweep(r) ==
    /\ session[r] = Idle
    /\ r = Loop => loopAlive
    /\ Expired # {}
    /\ session' = [session EXCEPT ![r] =
            [Idle EXCEPT !.op = "sweep", !.stage = "started", !.queue = Expired]]
    /\ UNCHANGED <<sales, value, ledger, holder, drawerOpen, loopAlive>>

\* SELECT ... FOR UPDATE reaches the next expired order: once it has the lock,
\* PostgreSQL tests the WHERE clause again on the row as it now is.
LockExpired(r) ==
    /\ session[r].op = "sweep" /\ session[r].stage = "started"
    /\ \E o \in session[r].queue :
        LET still == {o} \cap Expired
        IN  /\ OrderFree(r, o)
            /\ holder' = [x \in Lockable |-> IF x \in still THEN r ELSE holder[x]]
            /\ session' = [session EXCEPT ![r].queue = @ \ {o}, ![r].done = @ \cup still]
    /\ UNCHANGED <<sales, value, ledger, drawerOpen, loopAlive>>

\* The payments are read when all candidates are locked.
SkipPaid(r) ==
    LET release == Unpaid(session[r].done)
    IN  /\ session[r].op = "sweep" /\ session[r].stage = "started" /\ session[r].queue = {}
        /\ IF release = {}
           THEN session' = [session EXCEPT ![r].stage = "ready", ![r].done = {}]
           ELSE \E o \in release :
                    session' = [session EXCEPT ![r].stage = "locking", ![r].done = {},
                        ![r].cur = o, ![r].queue = release \ {o}, ![r].todo = ItemsOf(o)]
        /\ UNCHANGED <<sales, value, ledger, holder, drawerOpen, loopAlive>>

\* Mutant: only the redeemed points are given back.
RevertedRedemption(r, x) ==
    IF x \in Customers THEN Basket[session[r].cur].redeem
    ELSE IF Local(r, x) > 0 THEN -1 ELSE 0

\* _revert_order_customer_and_promotion_effects on rows loaded without a lock.
Reverted(r, x) ==
    LET o == session[r].cur
    IN  IF x \in Customers THEN Basket[o].redeem - earned[o]
        ELSE IF Local(r, x) > 0 THEN -1 ELSE 0

\* The end of _release_order_reservation for the current order, and the start
\* of the sweep's next one.
RevertEffects(r) ==
    LET s == session[r]
        X == CustomerOf(s.cur) \cup PromotionOf(s.cur)
        after == [Touched(r, X, [x \in X |-> Reverted(r, x)]) EXCEPT !.done = @ \cup {s.cur}]
    IN  /\ s.op \in {"cancel", "sweep"} /\ s.stage = "locking" /\ s.todo = {}
        /\ IF s.queue = {}
           THEN session' = [session EXCEPT ![r] = [after EXCEPT !.stage = "ready"]]
           ELSE \E o \in s.queue :
                    session' = [session EXCEPT ![r] =
                        [after EXCEPT !.cur = o, !.queue = @ \ {o}, !.todo = ItemsOf(o)]]
        /\ UNCHANGED <<sales, value, ledger, holder, drawerOpen, loopAlive>>

\* Mutant: the release forgets the reservation.
CancelledReserved(o) == [order[o] EXCEPT !.status = "cancelled", !.lapsed = FALSE, !.bill = NoBill]

\* What _release_order_reservation writes to the order itself.
Cancelled(o) == [order[o] EXCEPT !.status = "cancelled", !.reservation = "released",
                                 !.lapsed = FALSE, !.bill = NoBill]

CommitRelease(r) ==
    LET s == session[r]
    IN  /\ s.op \in {"cancel", "sweep"} /\ s.stage = "ready"
        /\ Flush(r)
        /\ order' = [o \in Orders |-> IF o \in s.done THEN Cancelled(o) ELSE order[o]]
        /\ EndSession(r)
        /\ UNCHANGED <<tendered, charged, earned, refunded, refundsDone, drawerOpen, loopAlive>>

-----------------------------------------------------------------------------
(* transition_serving_status, and the world around the sessions *)

ServingTargets(s) == CASE s = "queued"    -> {"preparing"}
                       [] s = "preparing" -> {"ready", "served"}
                       [] s = "ready"     -> {"served"}
                       [] OTHER           -> {}

\* Reads and writes nothing but the locked order row, so it is one step.
Serve(o, target) ==
    /\ holder[o] = None /\ Sharing(o) = {}
    /\ order[o].status = "serving"
    /\ target \in ServingTargets(order[o].serving)
    /\ order' = [order EXCEPT ![o].serving = target,
                              ![o].status = IF target = "served" THEN "completed" ELSE @]
    /\ UNCHANGED <<tendered, charged, earned, refunded, refundsDone,
                   value, ledger, holder, session, drawerOpen, loopAlive>>

\* The clock passes reservation_expires_at.
ReservationLapses(o) ==
    /\ order[o].reservation = "reserved" /\ ~order[o].lapsed
    /\ order' = [order EXCEPT ![o].lapsed = TRUE]
    /\ UNCHANGED <<tendered, charged, earned, refunded, refundsDone,
                   value, ledger, holder, session, drawerOpen, loopAlive>>

CloseDrawer ==
    /\ drawerOpen
    /\ drawerOpen' = FALSE
    /\ UNCHANGED <<sales, value, ledger, holder, session, loopAlive>>

\* Deadlock victim or lost connection: the exception rolls the session back.
\* Nothing catches it in the loop's task, which ends.
Abort(r) ==
    /\ session[r] # Idle
    /\ EndSession(r)
    /\ loopAlive' = (loopAlive /\ r # Loop)
    /\ UNCHANGED <<sales, value, ledger, drawerOpen>>

\* The server process goes down and comes back: PostgreSQL rolls every open
\* transaction back and the lifespan handler starts the loop again.
Restart ==
    /\ session' = [r \in Sessions |-> Idle]
    /\ holder' = [x \in Lockable |-> None]
    /\ loopAlive' = TRUE
    /\ UNCHANGED <<sales, value, ledger, drawerOpen>>

Advance(r) ==
    \/ LockRow(r)
    \/ RefuseOrder(r)
    \/ CheckDrawer(r)
    \/ CommitOrder(r)
    \/ LockForPayment(r)
    \/ CommitPayment(r)
    \/ RefundPoints(r)
    \/ CommitRefund(r)
    \/ DuplicateKey(r)
    \/ LockExpired(r)
    \/ SkipPaid(r)
    \/ RevertEffects(r)
    \/ CommitRelease(r)

Arrive(r) ==
    \/ \E o \in Orders : StartOrder(r, o) \/ StartCancel(r, o)
    \/ \E k \in Payments : StartPayment(r, k)
    \/ \E k \in Refunds : StartRefund(r, k)

Work ==
    \/ \E r \in Requests : Arrive(r)
    \/ \E r \in Sessions : StartSweep(r) \/ Advance(r) \/ Abort(r)
    \/ \E o \in Orders, target \in ServingStatuses : Serve(o, target)
    \/ \E o \in Orders : ReservationLapses(o)
    \/ CloseDrawer

Next == Work \/ Restart

Spec == Init /\ [][Next]_vars

\* PostgreSQL's deadlock detector: some session of a waiting cycle is aborted.
WaitsFor(r) ==
    LET s == session[r]
    IN  IF s.stage = "locking" /\ s.op = "refund" /\ s.todo = {} THEN {s.cur}
        ELSE IF s.stage = "locking" THEN NextRows(r)
        ELSE IF s.stage = "started" THEN Orders \cap ({s.cur} \cup s.queue)
        ELSE {y \in Rows : s.delta[y] # 0}

Blockers(r, x) == {holder[x]} \cup IF session[r].stage = "started" THEN Sharing(x) ELSE {}
Waits(r) == (UNION {Blockers(r, x) : x \in WaitsFor(r)}) \ {r, None}

Cycle(S) ==
    /\ S # {}
    /\ \A r \in S : Waits(r) \cap S # {} /\ \E other \in S : r \in Waits(other)

BreakDeadlock == \E S \in SUBSET Sessions : Cycle(S) /\ \E r \in S : Abort(r)

\* The lock queues are first come, first served, so a request that keeps getting
\* its chance takes it; the loop sweeps again after every interval.
Fairness ==
    /\ \A r \in Sessions : SF_vars(Advance(r))
    /\ WF_vars(StartSweep(Loop))
    /\ WF_vars(BreakDeadlock)

\* Between two restarts.
FairSpec == Init /\ [][Work]_vars /\ Fairness

-----------------------------------------------------------------------------
(* What the order desk promises *)

\* Stock only moves together with its stock movements: no session's write of
\* stock_quantity overwrites another's, however their requests interleave.
StockMatchesMovements == \A p \in Products : value[p] = Initial[p] + ledger[p]

\* Two tills selling the last unit at the same moment never both get it.
NeverOversold == \A p \in Products : value[p] >= 0

\* An order leaves "pending" for the kitchen only when its payment rows really
\* sum to its total, its reservation is then committed and it is in the queue.
SettledInFull ==
    \A o \in Orders : order[o].status \in {"serving", "completed"} =>
        /\ tendered[o] >= Basket[o].total
        /\ order[o].reservation = "committed"
        /\ order[o].serving # "none"
        /\ order[o].status = "completed" <=> order[o].serving = "served"

\* A retried or doubled request with the same idempotency key charges once.
ChargedOnce == \A k \in Payments : Tender[k].keyed => charged[k] <= 1

\* Money is only ever taken for an order that still holds its stock: no payment
\* slips in behind a cancellation, a sweep or another payment that settled it.
PaidOnlyWhileReserved ==
    [][\A o \in Orders : tendered'[o] # tendered[o] =>
            order[o].status = "pending" /\ order[o].reservation = "reserved"]_vars

\* A request is cancelling the order; a payment of it has passed the guards.
Cancelling(o) == \E r \in Requests : session[r].op = "cancel" /\ session[r].cur = o
Paying(o) ==
    \E r \in Requests : session[r].op = "pay" /\ session[r].stage = "ready" /\ session[r].cur = o

\* An order with money on it is cancelled by a cashier or not at all: the sweep
\* and a payment that arrives while it runs cannot cross.  Once its reservation has
\* expired it is in limbo: the sweep skips it and pay refuses it, so it stays as it
\* is until a cashier cancels it or a payment commits that came just in time.
PaidNeverSwept ==
    [][\A o \in Orders : tendered[o] > 0 /\ order[o].status = "pending" =>
            /\ order'[o].status = "cancelled" => Cancelling(o)
            /\ order[o].lapsed /\ order'[o] # order[o] => Cancelling(o) \/ Paying(o)]_vars

\* Carts lock the customer, then the products by id, then the promotion, so
\* create_order sessions never wait for each other in a circle.
CartsNeverDeadlock ==
    \A S \in SUBSET {r \in Sessions : session[r].op = "create"} : ~Cycle(S)

\* Points spent on an order were on the balance when the order was committed.
RedemptionCovered ==
    [][\A o \in Orders : order[o].status = "absent" /\ order'[o].status = "pending" =>
            \A c \in CustomerOf(o) : Basket[o].redeem > 0 => value'[c] >= 0]_vars

\* Whatever a refund takes back, it does not push the balance below zero.
RefundNeverOverdraws ==
    [][refundsDone' # refundsDone =>
            \A c \in Customers : value'[c] < 0 => value'[c] = value[c]]_vars

\* The usage counter stays within the promotion's limit.
UsageCountInRange == \A k \in Promotions : value[k] \in 0 .. UsageLimit[k]

\* As long as nothing has been refunded, what the loyalty ledger says of a
\* customer is what the customer's standing orders earned and spent: an order
\* earns once, and a cancellation takes back and gives back exactly that.
Standing == {o \in Orders : order[o].status \notin {"absent", "cancelled"}}
Gains(c, points) ==
    [o \in Orders |-> IF c \in CustomerOf(o) THEN points[o] - Basket[o].redeem ELSE 0]
LedgerMatchesOrders ==
    refundsDone = {} =>
        \A c \in Customers : ledger[c] = SumFunctionOnSet(Gains(c, earned), Standing)

\* The shelf, explained: what it held at first, less what the standing orders have
\* taken, and what the refunds have brought back.
Units(p) == [o \in Orders |-> Basket[o].items[p]]
BroughtBack(p) == [k \in Refunds |-> Return[k].items[p]]
StockMatchesOrders ==
    \A p \in Products :
        value[p] = Initial[p] - SumFunctionOnSet(Units(p), Standing)
                   + SumFunctionOnSet(BroughtBack(p), refundsDone)

Contract == INSTANCE SaleContract WITH
    stock <- [p \in Products |-> value[p]],
    status <- [o \in Orders |-> order[o].status],
    returned <- refundsDone

\* Seen from the shop floor, the concurrent sessions are atomic sales,
\* cancellations and refunds.
SerializableSales == Contract!Spec

\* Every request gets its answer: sessions queue on each other's row locks, but
\* none waits for ever (a circle is broken by aborting one of its sessions).
RequestsFinish == \A r \in Sessions : session[r] # Idle ~> session[r] = Idle

\* An expired reservation nobody has paid for is released, while the loop lives.
ExpiredIsReleased ==
    \A o \in Orders :
        o \in Releasable ~> o \notin Releasable \/ ~loopAlive

-----------------------------------------------------------------------------
(* Why it holds: the inductive invariant the proofs rest on *)

WellFormed(r, s) ==
    /\ s.op \in {"create", "cancel"} => s.cur \in Orders
    /\ s.op = "pay" => s.arg \in Payments /\ s.cur = Tender[s.arg].order
    /\ s.op = "refund" => s.arg \in Refunds /\ s.cur = Return[s.arg].order
    /\ s.stage = "locking" => s.cur \in Orders
    /\ s.op = "sweep" /\ s.stage = "started" => s.cur = None
    /\ s.op = "cancel" => s.queue = {} /\ s.done \subseteq {s.cur}
    /\ r = Loop => s.op \in {"idle", "sweep"}

SessionsWellFormed == \A r \in Sessions : WellFormed(r, session[r])

\* A session that has loaded a product's row holds its lock, still sees its
\* committed stock, and has not taken more units than that.
Respects(r, s, locks) ==
    \A p \in Products :
        IF p \in s.loaded
        THEN /\ locks[p] = r
             /\ s.seen[p] = value[p]
             /\ s.seen[p] + s.delta[p] >= 0
        ELSE s.delta[p] = 0

StockGuarded == \A r \in Sessions : Respects(r, session[r], holder)

\* An order is pending exactly while it reserves its stock.
PendingIsReserved ==
    \A o \in Orders : order[o].status = "pending" <=> order[o].reservation = "reserved"

\* Nothing is prepared before it is paid.
PendingIsUnserved ==
    \A o \in Orders : order[o].status = "pending" => order[o].serving = "none"

\* What a session has established about an order stays true because it holds
\* the order's row: a payment that passed the guards, the orders a sweep found
\* expired and, once it has read the payments, found unpaid.
Holds(r, s, locks, orders, paid) ==
    LET Kept(o) == locks[o] = r /\ orders[o].status = "pending"
    IN  /\ s.op = "pay" => orders[s.cur].status # "absent"
        /\ s.op = "pay" /\ s.stage = "ready" => Kept(s.cur)
        /\ s.op = "cancel" => locks[s.cur] = r
        /\ s.op = "sweep" => \A o \in s.done : Kept(o)
        /\ s.op = "sweep" /\ s.stage # "started" =>
                \A o \in s.done \cup s.queue \cup ({s.cur} \cap Orders) : Kept(o) /\ paid[o] = 0

OrdersGuarded == \A r \in Sessions : Holds(r, session[r], holder, order, tendered)

IInv == /\ TypeOK
        /\ SessionsWellFormed
        /\ StockGuarded
        /\ StockMatchesMovements
        /\ NeverOversold
        /\ PendingIsReserved
        /\ OrdersGuarded
        /\ PendingIsUnserved
        /\ SettledInFull
        /\ ChargedOnce

\* IInv keeps the sessions from overwriting each other.  What they write is right
\* because a session's record says, at every step, what it has done so far.

\* Only carts lock customers and promotions, and one of each at most; a sweep
\* goes through a finite set of orders, each of them once.
OnCourse(s) ==
    /\ s.op = "idle" => s = Idle
    /\ s.op \in {"create", "refund", "cancel"} => s.stage \in {"locking", "ready"}
    /\ s.op = "pay" => s.stage \in {"started", "ready"}
    /\ s.op = "sweep" => s.stage \in {"started", "locking", "ready"}
    /\ s.stage # "locking" => s.todo = {}
    /\ s.op = "create" => s.todo \subseteq ItemsOf(s.cur) \cup CustomerOf(s.cur) \cup PromotionOf(s.cur)
    /\ s.op # "create" => s.todo \subseteq Products
    /\ IsFiniteSet(s.todo) /\ IsFiniteSet(s.queue) /\ IsFiniteSet(s.done)
    /\ s.queue \cap s.done = {}
    /\ s.op \in {"cancel", "sweep"} /\ s.stage = "locking" => s.cur \notin s.queue \cup s.done
    /\ s.op = "cancel" /\ s.stage = "ready" => s.done = {s.cur}

\* A refund is for a settled order, a cancellation for one that stands.
Aimed(s, orders) ==
    /\ s.op = "refund" => orders[s.cur].status \notin {"absent", "pending"}
    /\ s.op = "cancel" => orders[s.cur].status \notin {"absent", "cancelled"}

\* The units a cart has taken, a refund or a release has put back, so far.
StockDelta(s, p) ==
    CASE s.op = "create" -> IF p \in s.todo THEN 0 ELSE -Basket[s.cur].items[p]
      [] s.op = "refund" -> IF p \in s.todo THEN 0 ELSE Return[s.arg].items[p]
      [] s.op \in {"cancel", "sweep"} /\ s.stage # "started" ->
            SumFunctionOnSet(Units(p), s.done)
            + IF s.stage = "locking" /\ p \notin s.todo THEN Basket[s.cur].items[p] ELSE 0
      [] OTHER -> 0

\* The points a cart has redeemed, a payment has earned, a release has reverted.
PointsDelta(s, c, paid, points) ==
    CASE s.op = "create" -> IF c \in CustomerOf(s.cur) \ s.todo THEN -Basket[s.cur].redeem ELSE 0
      [] s.op = "pay" ->
            IF s.stage = "ready" /\ c \in CustomerOf(s.cur) /\ points[s.cur] = 0
               /\ paid[s.cur] + Tender[s.arg].amount >= Basket[s.cur].total
            THEN Basket[s.cur].total ELSE 0
      [] s.op \in {"cancel", "sweep"} /\ s.stage # "started" ->
            -SumFunctionOnSet(Gains(c, points), s.done)
      [] OTHER -> 0

Recorded(s, paid, points) ==
    /\ \A p \in Products : s.delta[p] = StockDelta(s, p)
    /\ \A c \in Customers :
          ~(s.op = "refund" /\ s.stage = "ready") => s.delta[c] = PointsDelta(s, c, paid, points)

\* What it will write is within bounds, whatever the row's value is by then.
Bounded(s) ==
    /\ \A k \in Promotions :
          IF k \in s.loaded THEN s.seen[k] + s.delta[k] \in 0 .. UsageLimit[k] ELSE s.delta[k] = 0
    /\ \A c \in Customers :
          s.op \in {"create", "refund"} /\ s.delta[c] # 0 => s.seen[c] + s.delta[c] >= 0

\* A cart only waits for rows behind all those it holds, and who is idle holds none.
Queued(r, s, locks) ==
    /\ s.op = "idle" => \A x \in Lockable : locks[x] # r
    /\ s.op = "create" => \A x \in Rows :
          /\ s.delta[x] # 0 => locks[x] = r
          /\ locks[x] = r =>
                /\ x \in ItemsOf(s.cur) \cup CustomerOf(s.cur) \cup PromotionOf(s.cur)
                /\ \A y \in s.todo : Precedes(x, y) /\ x # y

\* A sweep has locked the orders it is going to cancel, and none besides but those
\* it has found paid.
Sweeping(r, s, locks, paid) ==
    s.op = "sweep" =>
        \A o \in Orders : locks[o] = r =>
            \/ o \in s.done
            \/ s.stage = "locking" /\ o \in s.queue \cup {s.cur}
            \/ s.stage # "started" /\ paid[o] > 0

Tracked(r, s, locks, orders, paid, points) ==
    /\ OnCourse(s)
    /\ Aimed(s, orders)
    /\ Recorded(s, paid, points)
    /\ Bounded(s)
    /\ Queued(r, s, locks)
    /\ Sweeping(r, s, locks, paid)

SessionsTracked == \A r \in Sessions : Tracked(r, session[r], holder, order, tendered, earned)

OrdersTracked ==
    /\ IsFiniteSet({o \in Orders : order[o].status # "absent"}) /\ IsFiniteSet(refundsDone)
    /\ \A o \in Orders : order[o].status = "absent" => earned[o] = 0

Busy == {r \in Sessions : session[r] # Idle}

TrackInv == /\ SessionsTracked
            /\ IsFiniteSet(Busy)
            /\ OrdersTracked
            /\ UsageCountInRange
            /\ LedgerMatchesOrders
            /\ StockMatchesOrders

\* The session's next step has no row lock in its way.
Unblocked(r) ==
    LET s == session[r]
    IN  \/ s.stage = "locking" /\ s.todo # {} /\ \E x \in NextRows(r) : RowFree(r, x)
        \/ s.stage = "locking" /\ s.todo = {} /\ (s.op = "refund" => RowFree(r, s.cur))
        \/ s.stage = "started" /\ s.op = "pay" /\ OrderFree(r, s.cur)
        \/ s.stage = "started" /\ s.op = "sweep" /\ s.queue = {}
        \/ s.stage = "started" /\ \E o \in s.queue : OrderFree(r, o)
        \/ s.stage = "ready" /\ \A x \in Rows : s.delta[x] # 0 => RowFree(r, x)

\* Who waits for nobody can go on; and if all that are busy wait, some of them wait
\* in a circle, which the database finds and breaks.
NeverStuck ==
    /\ \A r \in Busy : Waits(r) = {} => Unblocked(r)
    /\ Busy # {} /\ (\A r \in Busy : Waits(r) # {}) => \E S \in SUBSET Busy : Cycle(S)

\* All of it, as one invariant: locks are respected, records true, books right,
\* and there is always somebody who can go on.
BooksInv == IInv /\ TrackInv /\ NeverStuck

\* The steps a session has before it at most: a row of its cart, an order of its
\* sweep, or its end, each of them once and no two of them again.
Effort(S) == SumFunctionOnSet([o \in Orders |-> Cardinality(ItemsOf(o)) + 1], S)
StepsLeft(s) ==
    CASE s.stage = "idle" -> 0
      [] s.stage = "ready" -> 1
      [] s.stage = "locking" -> Cardinality(s.todo) + Effort(s.queue) + 2
      [] s.stage = "started" /\ s.op = "pay" -> 2
      [] OTHER -> Cardinality(s.queue) + Effort(s.queue \cup s.done) + 2

\* Whatever a session does, and whatever becomes of it, it is nearer to its end.
SessionsAreShort ==
    [][\A r \in Busy : session'[r] # session[r] =>
            StepsLeft(session'[r]) < StepsLeft(session[r])]_vars

\* A sweep cancels every order it has locked, but those with money on them.
SweepsAreThorough ==
    [][\A r \in Sessions : session[r].op = "sweep" /\ CommitRelease(r) =>
            \A o \in Orders : holder[o] = r /\ tendered[o] = 0 =>
                order'[o].status = "cancelled"]_vars

-----------------------------------------------------------------------------
(* What the documentation claims and the code does not keep *)

\* docs/mobile-readiness.md:57: "stock deduction, promotion usage, and points are
\* all guarded by row locks".
GuardedByRowLocks == \A x \in Rows : value[x] = Initial[x] + ledger[x]

\* docs/features.md:83: "Validate refundable quantity per order item (prevents
\* over-refund)".
NoOverRefund ==
    \A o \in Orders, p \in Products : refunded[o][p] <= Basket[o].items[p]

\* docs/features.md:41: "Cancel order with automatic stock restoration": what an
\* order brings back to the shelf was taken from it by a sale.
StockNeverAppears == \A p \in Products : value[p] <= Initial[p]

\* app/main.py:116: "then the periodic loop keeps them fresh".
LoopKeepsReservationsFresh ==
    \A o \in Orders : o \in Releasable ~> o \notin Releasable
=============================================================================
