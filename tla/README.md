# OctoPOS: a TLA+ model of the point-of-sale backend

This project specifies the FastAPI backend in `src/app` and the till that talks to it
(`src/client/lib`): sales, payments, refunds and the rows they share, purchasing and the
money owed to suppliers, cash drawers, the kitchen, replication to tills, stock
maintenance, accounts, prices and reports. TLC checks it on small instances; the safety
properties that hold there are also proved with TLAPS, for instances of any size.

## The system

The backend is a FastAPI application on PostgreSQL. Every request handler is an
ordinary (threaded) function with its own SQLAlchemy session:
`SessionLocal(autocommit=False, autoflush=False)` (`core/database.py`), READ COMMITTED.
What makes the code hard follows from that: a handler reads, decides and writes in
steps, other handlers run between them, and only `SELECT ... FOR UPDATE` (SQLAlchemy's
`with_for_update`) stops them. A row that is already in the session's identity map is
not refreshed by a later query, FOR UPDATE or not, and an UPDATE writes the values the
Python code computed, of the columns that differ from the copy it read. The admin
panel's pages are `async` and hold such a copy across `await request.form()`. Tills (a
Flutter client) retry with idempotency keys and queue orders while they are offline.

| Component | State it keeps | Operations | Talks to | Hard behaviour | What makes it correct |
|---|---|---|---|---|---|
| Order desk (`services/orders.py`) | orders, items, payments, stock movements | create, pay, split payment, cancel, release expired | products, customers, promotions, drawer, refunds | overlapping carts, sweep against payment, retries, deadlocks | stock exact and never negative; paid once, in full, only while reserved; atomic sales |
| Refunds (`services/refunds.py`) | refunds, refund items | create | order items, stock, points, drawer | reads before locks | never more than was sold |
| Loyalty and promotions | balances, ledger, usage counts | earn, redeem, revert | order desk, refunds | counters written from unlocked reads | ledger agrees with orders; limit kept |
| Serving and tracking (`services/serving.py`, `tracking.py`) | serving and tracking status, event queues | advance, report a location, stream | orders, boards | threads publish, a loop enqueues, queues drop | paid before prepared or driven; forward only; boards catch up |
| Background loops (`main.py`, `core/exclusive_task.py`) | two tasks per worker, an advisory lock | release expired reservations, draft purchase orders | order desk, purchasing | exceptions, several workers, crashes | reservations are released; low stock is ordered |
| Cash drawers (`api/endpoints/drawers.py`, `services/drawers.py`) | drawer sessions, reconciliations | open, close, reconcile | orders, payments, refunds | unlocked check-then-act | one open drawer; the count is of what went in |
| Purchase orders (`services/purchasing.py`) | orders, items, receipts, audit rows | create, review, order, cancel, receive | stock, wizard | unlocked copies, panel pages | never received beyond the order; no receipt lost |
| Payables (same file) | invoices, supplier payments | create, submit, approve, reject | purchase orders | decisions from unlocked reads | never paid beyond billed; overbilling shows |
| Replenishment (`core/replenishment.py`, `services/auto_po.py`) | draft orders, a setting | suggest, generate | stock, purchase orders | loop, wizard and batch at once | no product drafted twice by loops |
| Event sync (`api/endpoints/sync.py`) | event log | replay a batch | order desk, refunds, tracking | crash between effect and log, lost replies | every event takes effect once; the log is true |
| Catalog delta (`services/sync.py`) | the till's copy and watermark | pull | products, categories | rows committed while it reads | the copy adds up |
| Till (`client/lib`) | checkout sheet, outbox | submit, queue, replay | order desk | lost requests and answers | one order and one charge per sale |
| Catalogue and inventory (`api/endpoints/products.py`, `inventory.py`, `admin/views/inventory.py`) | products, categories, stock, image files | create, update, move, adjust, receive, upload, delete | stock movements | copies written back, files against rows | movements explain the stock; images shown exist |
| Accounts (`api/endpoints/auth.py`, `users.py`, `rbac.py`) | users, roles, refresh tokens | sign up and in, refresh, manage staff and roles | every request | token exchanged twice | one live token per sign-in |
| Pricing and taxes | promotions, tax rules | maintain, price a cart, settle | order desk | rounding, caps, unvalidated forms, negative rates | the parts add up |
| Reports (`services/reports.py`) | nothing | aggregate | all of the above | a filter and a day of its own in each query | reports of one thing agree |

`PROJECT.json` lists every component with its status, and under `hazards` every place
where this code can go wrong in a way a test would hardly reach, each with the
properties that cover it or the reason why none does.

## Modules

| Module | What it is |
|---|---|
| `OrderLifecycle` | the order desk, refunds, serving transitions and the sweep as concurrent database sessions; its properties; the inductive invariants `IInv` and `TrackInv`; what a session can still do; the refinement mapping (`Contract`) to `SaleContract` |
| `SaleContract` | the abstract specification of a sale: atomic sales, cancellations and refunds, no sessions or locks |
| `PurchaseOrders` | purchase orders and receipts, from the API and from the restock wizard |
| `Payables` | supplier invoices and payments, from the API, the invoice wizard and the review queue |
| `ReorderRule`, `AutoPurchase` | when and how much to reorder; the draft generator behind the workers' loops, the wizard and the batch endpoint |
| `CashDrawer` | drawers, their counts, and the tills whose money moves meanwhile |
| `EventSync`, `CatalogDelta`, `Outbox` | the three ways a till exchanges data with the server |
| `ServingBoard` | the kitchen, the trips and the boards that follow them over Server-Sent Events |
| `StockDesk` | the writers of products, categories, stock and images |
| `Accounts` | users, roles, sign-ins and refresh tokens |
| `Pricing` | promotions, tax rules, the price of a cart and its settlement |
| `Reports` | each report as a function of the history |
| `SumTheorems` | facts about sums over finite sets |
| `OrderLifecycleProofs`, `OrderBooksProofs` | theorems about `OrderLifecycle`: what its locks guard; its books, the refinement, the carts' lock order, how sessions and sweeps end |
| `PurchasingProofs` | theorems about `PurchaseOrders`, `Payables` and the two together |
| `TillProofs` | theorems about `EventSync`, `Outbox` and `CashDrawer` |
| `CatalogProofs` | theorems about `CatalogDelta`, `StockDesk` and `Pricing` |
| `BackOfficeProofs` | theorems about `ServingBoard`, `AutoPurchase`, `Accounts` and `Reports` |
| `MCBackOfficeProofs` | the composed back office keeps what each of its parts keeps |
| `MCOrderStock`, `MCOrderLoyalty`, `MCOrderSweep`, `MCPurchasing`, `MCBackOffice` | the instances TLC checks |

Components interact through rows, and a module contains the other side's writes to the
rows it is about: `PurchaseOrders` has the till's sale of a product, `CashDrawer` has
orders, payments, refunds and cancellations, `EventSync` and `Outbox` the server's two
transactions, `ServingBoard` payment and cancellation. `MCOrderSweep`, `MCPurchasing` and
`MCBackOffice` put modules side by side that share no row: a behaviour picks one part and
only that one moves, so the state spaces add up instead of multiplying.

### How `OrderLifecycle` corresponds to the code

**Rows.** `Product.stock_quantity`, `Customer.points_balance` and
`Promotion.usage_count` are *rows*: `value` is the committed counter, `ledger` the sum
of the deltas the handlers log for it (stock movements, loyalty transactions; a
promotion has no log, so there it is the sum of the uses and returns). `holder` says
which session holds a row FOR UPDATE; order rows can be held too.

**Sessions.** `session[r]` is what one handler is doing: the operation and stage, the
current order, the rows still to be locked, and the identity map: which rows are
`loaded`, the value `seen` when they were, the `delta` added since. `Touched` is
"load the row unless it is loaded, then add"; `Flush` is the UPDATE at commit, which
writes `seen + delta` for rows whose value changed and waits for other sessions'
locks; `EndSession` is COMMIT's and ROLLBACK's release of the locks. A lost update is
therefore not assumed or excluded: it happens exactly when a row was loaded without a
lock and somebody else committed in between.

**Actions.**

| Action | Code |
|---|---|
| `StartOrder`, `LockRow`, `RefuseOrder`, `CheckDrawer`, `CommitOrder` | `create_order`: the key's lookup, the customer, the products in id order, the promotion, each locked and checked; the drawer; the insert and commit |
| `StartPayment`, `LockForPayment`, `CommitPayment` | `add_payment_to_order` and `add_split_payments_to_order`: key lookup, order lock and guards, insert, settlement, `_complete_order_if_paid` |
| `StartRefund`, `LockRow`, `RefundPoints`, `CommitRefund` | `create_refund`: all its unlocked reads, the product locks, the flush and the customer's read, the commit |
| `StartCancel`, `LockRow`, `RevertEffects`, `CommitRelease` | `cancel_order` with `_release_order_reservation` |
| `StartSweep`, `LockExpired`, `SkipPaid`, `LockRow`, `RevertEffects`, `CommitRelease` | `release_expired_reservations_for_user`, from a request or the loop: the SELECT, its row locks one by one, the payments, then each unpaid order |
| `DuplicateKey` | a unique index on (user, idempotency key) refuses the insert: IntegrityError, 409 |
| `Serve` | `transition_serving_status` |
| `ReservationLapses`, `CloseDrawer` | the clock; `close_drawer` |
| `Abort`, `Restart` | a deadlock victim or a lost connection; the server process going down and coming back |

**Abstractions, and why they lose nothing.**

- Money is an integer. An order's total (after discount, points and taxes) is
  part of its `Basket`; how it comes about is `Pricing`'s subject.
- A payment batch is its sum and `cardReach`, the largest prefix sum that ends in a
  non-cash line: every line passes the "non-cash cannot exceed remaining" test exactly
  when `cardReach` does not exceed what is due. A single payment is a batch of one.
- A read and the step before it are merged when nothing another session does can come
  between them with a different result. Taking a lock is merged with the guards read
  under it and the sums added to the row later on (points are checked and deducted at the
  end of `create_order`; the row is locked from its start). The drawer is read after the
  products' locks in the code and, here, after all locks: it can only close, and a
  session that finds it closed rolls back either way.
- FOR UPDATE on several orders (the sweep) locks them one at a time in any order, and
  tests the WHERE clause again on each row it had to wait for, as PostgreSQL does.
- A refund's insert takes a share lock on its order (foreign key); `Sharing` models it
  from the flush to the commit. Other foreign-key locks only touch rows the session
  has locked already or is about to update.
- `Order.items` has no ORDER BY and a refund lists its lines as the caller likes:
  cancellations, sweeps and refunds lock products in any order, carts in theirs.
- A cart has one line per product, quantities are not negative, every order and refund
  carries a key (payments may not), and there is one tenant and one cashier with one
  drawer session, which is closed once: all orders belong to it.
- The deadlock detector aborts one session of a circle (`BreakDeadlock`); `Abort` may
  also strike at any time. An aborted loop session ends the loop (`loopAlive`), since
  `_reservation_expiry_loop` catches nothing.

### The other modules

In all of them a session is a record with the operation, the stage it is in and the copy
it has read; a read and a commit are two actions when another session can come between
them, one when a lock or the absence of any other reader makes that moot. Variables
whose comment begins with `history` record what overlapped; only properties read them
(`torn`, `inPanel`, `unlogged`, `crossed`, `disturbed`, `overlaps`, `raced`, `doubled`,
`dropped`); so are the `doubts` of a board.

| Module | Actions | Code |
|---|---|---|
| `PurchaseOrders` | `PostOrder`, `PostSubmit`, `PostMarkOrdered`, `PostReject`, `PostCancel`, `PostReceive` | the endpoints: an unlocked copy, its checks, the decision held in the session |
| | `CommitDecision`, `LockProduct`, `CommitReceipt`, `LogAction` | the service's commit of the columns that differ from the copy; one product at a time FOR UPDATE; the endpoint's second commit, of the audit row |
| | `OpenWizard`, `WizardStep`, `WizardOrder`, `LeaveWizard` | `restock_workflow`: the products it loads before the form, and its steps, which write no audit row |
| | `Sell`, `Abort`, `Restart` | a till's sale of the product; a lost session; the process going down |
| `Payables` | `PostInvoice` ... `PostPayoutReject`, `InvoiceWizard`, `ReviewQueue` | every status change, with each handler's own checks of role and creator |
| | `LockInvoice`, `CommitPayout`, `CommitInvoice`, `CommitReview` | the invoice FOR UPDATE around the outstanding amount; unlocked decisions |
| | `Arrive`, `Void`, `Drop` | goods received on the order, the order's cancellation, an aborted session |
| `AutoPurchase` | `RunExclusive`, `MissSetting`, `InsertSetting`, `ReadSetting`, `OrderFrom`, `NothingLeftToOrder`, `FinishRun`, `Release` | `run_exclusive`, `get_purchasing_settings`, `auto_generate_purchase_orders`: scan, then one commit per supplier |
| | `OpenWizard`, `PressGenerate`, `TakeOtherStep` | the wizard, whose copies of the products are as old as its form |
| | `StartBatch`, `CommitBatch`, `PostFromReplenishment` | the API's generators, which take no lock either |
| | `Proceed`, `Deliver`, `SellUnit`, `UpdateSupplier`, `PutSetting`, `CrashWorker` | the life of an order, trade, settings, a worker dying with its lock |
| `CashDrawer` | `StartOpening`, `InsertDrawer`, `StartClosing`, `CloseDrawer`, `StartReconcile`, `ReadSales`, `ReadRefunds`, `CommitReconcile`, `AlreadyReconciled`, `OpenPanel` | `open_drawer`, `close_drawer`, `reconcile_and_close_drawer` with the queries of `compute_drawer_totals`, the panel's page |
| | `StartTab` ... `CommitCancelling` | the four operations that move a drawer's money, each with its unlocked check of the drawer |
| `EventSync` | `SendBatch`, `LoseRequest`, `HearReply` | the terminal and a lossy link |
| | `ShiftDrawer`, `ShiftRole`, `AssignTrip` | what an event is judged by and others change: the cashier's drawer and role, the trip of its order |
| | `FindLogged`, `FindNew`, `FindByKey`, `Apply`, `KeyConflict`, `Refuse`, `LogSuccess`, `LogFailed` | `process_sync_event` and the service behind it |
| `CatalogDelta` | `FlushRow`, `CommitRow`, `PullRows`, `PullDeleted`, `StorePull`, `LosePull` | an editor's `onupdate` stamp and its commit; the delta's two queries and its clock; the till's transaction |
| `Outbox` | `Submit`, `CloseSheet`, `SheetAnswered`, `SyncOutbox`, `NextRow`, `RowAnswered`, `OrderCreated`, `Timeout`, `KillTill` | `_submit` of the checkout sheet, `syncOutbox` |
| | `LookUpKey`, `PlaceOrder`, `TakePayment`, `FailPost`, `AnswerNobody`, `ReservationEnds`, `EndShift` | the server's create and pay as the till can tell them apart |
| `ServingBoard` | `LoadOrder`, `TransitionServing`, `TransitionTracking`, `ReportLocation`, `Pay`, `Cancel`, `Reject` | the handlers under the order's row lock |
| | `Publish`, `RunCallback` | `ServingHub.publish` in a request's thread, `_QueueWrapper` in the event loop |
| | `OpenBoard`, `Subscribe`, `Unsubscribe`, `Poll`, `Drain`, `ReadQueue`, `ShowQueue` | a board: its stream, its fetches and their answers, which may overtake each other |
| `StockDesk` | `CreateProduct`, `StartUpdate`, `CommitUpdate`, `ReceiveAdHoc`, `OpenAdjust`, `CommitAdjust`, `OpenMove`, `CommitMove`, `StartDelete`, `CommitDelete`, `StartDropCategory`, `CommitDropCategory` | the endpoints (locked and not) and the panel's pages |
| | `StartUpload`, `WriteFiles`, `StoreImage`, `UnwriteFiles`, `StartClear`, `ClearImage`, `DeleteMediaFile`, `GiveUp` | image files before the commit, unlinked after it, failures in between |
| `Accounts` | `Register`, `CreateStaff`, `UpdateStaff`, `UpdateRole`, `AssignRoles`, `SeedDefaults`, `MyPermissions` | user and role endpoints |
| | `StartLogin`, `FailLogin`, `PassLogin`, `GoogleLogin`, `StartRefresh`, `CommitRefresh`, `Logout`, `Unlock`, `Expire`, `SignIn`, `Authenticate`, `SignOut` | tokens and the panel's own session |
| `Pricing` | `CreatePromotion`, `UpdatePromotion`, `PanelPromotion`, `DeactivatePromotion`, `CreateTax`, `UpdateTax`, `PanelTax`, `DeactivateTax`, `PriceOrder`, `Tender`, `NewDay` | maintenance with its validators, the panel's forms without them, the price and the settlement |
| `Reports` | `SaleMade`, `SaleMoves`, `UnitReturned`, `Reclassified`, `Transferred`, `BillMoves`, `PayoutMoves`, `ShiftReconciled`, `Midnight` | the history; one operator per report |

**Abstractions, module by module.**

- `PurchaseOrders`: one tenant, one supplier; ids in commit order; overrides of prices
  and dates are left out. The wizard's list of suggestions is only its preload.
- `Payables`: audit rows are `PurchaseOrders`' subject. Who decides matters to the
  guards but not to the sums: the passing instance has a clerk and a director, the
  violated one an approver as well. What is received on an order is a counter.
- `ReorderRule`: ceilings are exact, where the code uses floating point.
- `AutoPurchase`: the user that automatic orders are made for exists. The wizard opens its
  form with copies of all products and decides by them, except that the query for what is
  low runs when Generate is pressed; its other steps are `PurchaseOrders`' subject.
- `CashDrawer`: the SUMs over payments and refunds are kept as running sums; the
  instance has one cashier, who may reconcile any drawer.
- `EventSync`: what an event does to its own component is a counter. A sale, payment or
  refund may be refused at any time for reasons modelled elsewhere, and is without an open
  drawer; a location is refused exactly when the cashier may not track or the order is not
  tracked; a malformed event always (`Malformed`). An order that was tracked once stays so,
  as in `ServingBoard`.
- `CatalogDelta`: one kind of row stands for products and categories, which have the
  same queries.
- `Outbox`: promotions, points and the catalogue matter to it as far as they move the
  server's total of a sale away from what the till expects (`Totals`). What is handed over
  is one of a few `Ways` for each sale; the sheet reads its selector when it fills the
  outbox row and again when it pays, so the two and every further tap may differ. No
  assumption ties what is handed over to the total. The refresh of access tokens is
  `Accounts`' subject. `outbox_payments` and `outbox_events` are written by no screen.
- `ServingBoard`: an event is one unit in a counter (a board answers every event with
  a fetch and never looks inside); positions are not kept.
- `StockDesk`: the check that a deleted product has no purchase documents and the
  uniqueness of SKUs are left out; a product and one category.
- `Accounts`: passwords and tokens are not guessed; rate limits are left out. Two users
  share an address if `Email` says so: both may exist, in different tenants, and then
  neither can log in by the API. Addresses do not change. The panel's sign-in takes the
  first user of an address; here it may take any, with that user's password.
- `Pricing`: amounts in cents, quotients exact (the code's Decimals keep 28 digits).
- `Reports`: what a sale consists of, its discount, points, tax and contained tax
  included, is fixed (`Ticket`), and tax and discount may be negative; a product may move
  to another tenant or category at any time. All categories belong to one tenant. Row
  limits and layout are left out.

## What the runs check

| Run | Instance | Shows |
|---|---|---|
| `order_stock` | 2 carts of the same 2 products, of which the second only fits once; 2 payments of the first order, 1 refund; 2 requests and the loop (about 174,000 states) | stock exact and never negative, payments once, in full and only while reserved, sweep and payment never cross, carts never deadlock, the sessions implement `SaleContract`, and the invariant the proofs rest on, `BooksInv` (`IInv`, `TrackInv` and `NeverStuck`), holds |
| `order_loyalty` | 3 orders of one customer with 1 point and a promotion limited to 1 use; 1 payment, 1 refund (about 495,000 states) | what loyalty and promotion counters still guarantee |
| `order_sweep` | the two background loops under fairness: 2 carts, 1 payment, 1 request and the sweep; 2 goods, 2 workers, a crash and the purchase-order loops (about 17,000 states) | every session ends; expired reservations are released while the loop lives; low stock is ordered while some worker lives, and a delivery ends the need (`DeliveryEndsNeed`) |
| `purchasing` | one order of 2 products, 2 requests and a wizard session, 2 at a time; 2 invoices and 2 payments of one order, 2 sessions (about 1,160,000 states) | receipts, approvals and payments in every interleaving |
| `back_office` | the parts listed in `Parts` of `MCBackOffice.cfg`, one at a time (about 597,000 states) | automatic orders, drawers, event sync, catalog delta, kitchen and boards, goods and images, accounts, prices, reports, till |
| `double_refund`, `cancel_refunded`, `lost_points`, `loop_dies`, `restock_wizard`, `four_eyes`, `tracked_orders` | the same instances | the seven claims of the documentation below, violated |

**Properties worth a second look.**

- `SerializableSales` is the refinement: seen from the shelf, every interleaving is a
  sequence of atomic sales, cancellations and refunds. `StockMatchesMovements` is the
  absence of lost updates on stock. `PaidNeverSwept` is about two sessions crossing: the
  sweep picks the order, a payment commits, the sweep gets the lock. It also names the
  limbo of an order that is partly paid when its reservation expires: the sweep skips it
  and pay refuses it, so nothing touches it but a cashier's cancellation or a payment
  that had passed its guards in time.
- `NeverStuck` (in `BooksInv`) is why the fairness below suffices: whoever waits for
  nobody has a step to take, and if all wait there is a circle for the detector to break.
- `LedgerMatchesOrders` holds until something is refunded, because refunds and
  cancellations both log "adjust" transactions and a cancellation does not know what a
  refund took. `RedemptionCovered` holds although other handlers write the balance
  without locking it, because carts do lock it. `UsageCountInRange` says that the
  *counter* stays in range; lost updates mean the number of orders that used the
  promotion may still exceed it (`lost_points`).
- `NeverOverRecorded` holds although nobody locks the purchase order: a receipt writes the
  sum it compared. The goods of two such receipts are both on the shelf
  (`StockMatchesReceipts`), the order has recorded one (`UntornOrdersAddUp` speaks of
  the orders nobody tore). `InvoiceNeverOverpaid` holds because paying is the one thing that
  locks the invoice; `PayablesAddUp` says what the detail page and the supplier's ledger
  still show when nobody decided on the same order side by side.
- `OnlyRacesOpenTwice`, `ClosedDrawersAreFinal` and `QuietCountsAreRight` say how far the
  unlocked drawer can be trusted: a second open drawer takes a race, a closed drawer only
  sees what had read it open, and a count nothing moved under is float plus takings,
  change and unfinished orders included.
- `EffectsHappenOnce` survives crashes between an effect and its log, `LogIsTrue` all but
  one: a location has no key, so that after such a crash its resend is judged anew, and is
  logged as failed if the cashier has lost `orders:track` meanwhile, although it took
  effect. `unlogged` marks the events this can happen to.
- `DeltasAddUp` names the rows the watermark passes over. `SinglePaymentsAreBookedOnce`
  follows a sale from the sheet through the outbox to the books: a single payment is
  booked once, cards are never charged more than the total, and no sale is forgotten. It
  does *not* say that a sale is paid once: split lines have no keys (below).
- `QuietBoardsAreCurrent`: a queue of one that drops its oldest event loses nothing, since
  any event makes a board fetch everything. It speaks of boards without `doubts`, of which
  there are three: the board shows an answer that one read later had overtaken (it assigns
  whatever arrives last), an answer older than a change published on another worker, whose
  hub is not its own, or an answer read or shown while its stream was not on. Each of these
  really leaves a board stale until the next event or poll. `ShownImagesExist` holds because
  a new name is never reused and the old file goes last. `OneTokenPerSignIn` holds but for
  two requests with the same token.
- `PricesAddUp` states what is left of the bounds when the panel's forms have their way: a
  negative rate is the only source of a negative tax, and without one no order costs less
  than its taxable base.
- `ReportsAgreeOnHistory` relates the reports to each other. A tenant's sales by product
  and by category add up to its gross revenue together with what was sold of products that
  have left the tenant since; revenue and margin cover the same orders only in an
  unbounded window.

**Bounds.** Each is a constant named in the module. Two requests and the loop are three
sessions, and every race listed in the hazards is between two of them, with the third to
make circles. Two products are needed for deadlocks and partial receipts, two orders for
contention, two payments for the race to settle or to overpay. Quantities are chosen so that
the second cart fits or not depending on who was released first, that one payment settles
the order and the other leaves it partly paid, that the second payment no longer fits its
invoice, and that redeeming 2 points is possible only after an order has earned them.
`MaxSold`, `MaxReceived` and `MaxBusy` let one sale, one complete order and two sessions
meet; two receipts need no more. In `CashDrawer` one tab costs 3 and coins are of 2, so that
one payment leaves it partly paid and the second gives change. `MaxSends` 4 lets the batch
that makes the order be followed by any other three times, or by both others and a
repetition, `MaxTime` a row be stamped before, during and after a pull, and again.
`MaxShifts` 2 lets a drawer or a role change and change back. `Capacity` 1 is the smallest
queue that drops. `MaxFaults` 2 lets a lost answer meet its replay and the replay's answer
be lost as well. There is one sale at the till: sales share nothing but the places for
requests and the shift. Its `Ways` are cash, card and a split, its `Totals` what they cover
exactly and twice that, so that a batch can fit again. `PanelTaxKinds` has a rate of -150,
which makes a total negative. Of two tenants with a product each (`MCMadeBy`), the first's
may move to the second and back. A namesake (`Email`) registers before the second token is
issued. In the part about roles the admin role keeps its permissions. Trips are left out of
the boards' part, since no board shows them, and are the kitchen's part. `MaxDay` and
`Today` put two days apart. Requests are symmetric in the safety instances of
`OrderLifecycle` and `Payables`, and the deliveries, clerks, calls and posts of the back
office are the same two model values, so that one symmetry serves them all; the liveness
instance uses none.

**Deadlock.** TLC checks for it in `order_stock` and `order_loyalty`: `Restart` is always
enabled, so there it says little; circles of waiting sessions are what `CartsNeverDeadlock`
and `RequestsFinish` are about. The other instances stop when every order, bill, sale or
key is used up, so they set `CHECK_DEADLOCK FALSE`.

**Fairness.** `Fairness` in `OrderLifecycle`, between two restarts: strong fairness of each
session's next step (PostgreSQL queues lock requests first come, first served, so a session
that is granted its chance again and again takes it); weak fairness of the sweep's start,
whose timer fires after every interval; weak fairness of `BreakDeadlock`, the detector
that runs after `deadlock_timeout`. `AutoFairness`: weak fairness of "some worker's loop
runs" (their timers fire too) and of each step of a run that has begun. No fairness of
requests' arrival, payments, deliveries, clocks or crashes. `LowStockIsOrdered` is
therefore about loops: as long as one is alive, what is low, wanted and has an active
supplier is on order, in review or on hand again. The outbox is replayed when the cashier
asks for it, so nothing is claimed of when.

## Where documentation and code disagree

1. *Over-refund.* `docs/features.md:83` promises that refundable quantity is validated;
   `create_refund` sums earlier refunds before it locks anything (`NoOverRefund`).
2. *Stock from nowhere.* `docs/features.md:41` promises stock restoration on
   cancellation; cancelling a refunded order restores refunded units again
   (`StockNeverAppears`).
3. *Row locks.* `docs/mobile-readiness.md:57` says that stock, promotion usage and points
   are all guarded by row locks; only `create_order` locks customers and promotions
   (`GuardedByRowLocks`).
4. *The loop.* The comment at `main.py:116` says the loop keeps reservations fresh; it
   ends at its first exception (`LoopKeepsReservationsFresh`).
5. *The wizard's copy.* `docs/features.md:179` says stock is ledger-managed;
   `restock_workflow` loads all products before it awaits its form, the receipt's FOR
   UPDATE returns those copies, and a sale in between is overwritten
   (`StockIsLedgerManaged`).
6. *Four eyes.* `docs/purchasing-redesign.md:73` says no one but a superuser approves or
   rejects an invoice he created; `reject_purchase_invoice` does not look (`FourEyes`).
7. *Trips of cancelled orders.* `services/tracking.py:7` says tracked orders are paid orders;
   a cancellation leaves the tracking status (`TrackedOrdersArePaid`).

Met while modelling; where a line is quoted, the documentation is contradicted too, but a
passing property already draws the line, so that no run of its own repeats it:

- *Split payments have no key.* `client/README.md:48-49` says that every payment carries a
  fresh `idempotency_key`, so retries never duplicate; the lines of a split are sent
  without one (`checkout_sheet.dart:441`). A batch whose answer is lost is booked again by
  the outbox as long as its card line still fits, which takes a server's total above the
  till's. Once it does not fit, the row ends as failed though the sale is paid. With
  `book[t].keyed + book[t].batches <= 1` for `SinglePaymentsAreBookedOnce`, TLC finds
  the first case after one timeout.
- *The margin's orders.* The comment at `reports.py:177-180` says that the margin is
  computed over exactly the same orders as the net revenue; in a bounded window a refund
  counts against the revenue on its own day and against the cost on its order's day
  (`MarginOverSameOrders` holds of `EverySale` only).
- *The tax form.* `admin/views/sales.py:103` describes a rate as "0.10 = 10%" where
  `orders.py:141-152` divides by 100; a rule entered that way charges a hundredth. The form
  also takes a negative rate, which gives money away, down to a negative total.
- Products that move to another tenant take their past sales out of the old tenant's reports
  by product and category (`reports.py:286-290`, `325-330`), not out of its summary.
- A location that took effect can be logged as failed (`unlogged`); a board goes stale when
  a later answer is overtaken by an earlier one (`serving_controller.dart:93-97`), or by
  events of another worker, since the hub lives in one process (`doubts`).
- Two requests can open two drawers for a cashier (`docs/features.md:139` speaks of one;
  `OnlyRacesOpenTwice`).
- An order row whose creation is answered by 409 leaves the outbox although its payment was
  never sent (`dropped`).
- Two invoices of one order with the same number pass side by side; the generators do not
  exclude deleted products; newly paid and cancelled orders are announced to no board;
  deactivated rules keep the end date they were given when they are switched on again.

## What is proved

For all values of the constants that satisfy the assumptions of the module: any sets of
orders, products, users, sessions, tills, boards or days, natural quantities and
amounts. Most theorems are about one module's own specification; those of purchasing as a
whole and of `MCBackOfficeProofs` carry them over to the compositions. `PROJECT.json`
lists them with what each says.

Few of these properties are inductive. The arguments below are what has to be added:
what a session knows, from the moment it reads to the moment it writes.

**Orders: locks** (`OrderLifecycleProofs`). `Invariance` (`[]IInv`), and from it
`TypeCorrect`, `StockIsExact`, `NoOverselling`, `ServedIsPaid`, `NoDoubleCharge`, and the
action properties `PaymentsAreForReservedOrders` and `SweepSparesPaidOrders`. `IInv` adds:

- `SessionsWellFormed`: a session's fields fit its operation.
- `StockGuarded`: a session that has loaded a product's row holds its lock, still sees
  the committed value, and has not taken more than that. This is why its flush cannot
  overwrite anything (`StockMatchesMovements`) nor push stock below zero
  (`NeverOversold`); it is kept because a product is only ever loaded under its lock
  and every flush of another session needs that lock.
- `PendingIsReserved`, `PendingIsUnserved`: the columns of an order agree.
- `OrdersGuarded`: what a session has established about an order stays true because it
  holds the order's row: a payment past its guards has a pending order, a cancellation
  its order's lock, a sweep past its SELECT pending orders and, after it has read the
  payments, unpaid ones. `PaidOnlyWhileReserved` and `PaidNeverSwept` follow, the limbo
  part of the latter because the only sessions past the guards of a lapsed order with
  money on it are its cancellation and a payment (`PaidOrderChanges`).

**Orders: books** (`OrderBooksProofs`). Customers and promotions are written from
unlocked reads, so no lock explains their rows. `RecordsAreTrue` (`[]BooksInv`) adds
that the shelf is what orders and refunds have left of it (`StockMatchesOrders`), and
`TrackInv`, which says what each session's copy is *for*: it is on its way through its
operation (`OnCourse`) towards an order in a fitting state (`Aimed`), each delta is the sum
of what it has done so far (`Recorded`), what it will write is in range whatever the row
holds by then (`Bounded`), it waits only for rows behind those it holds (`Queued`), and
a sweep has cancelled what it is done with, while what it still holds is unpaid and in
its queue, or has money on it (`Sweeping`). An idle session holds nothing, and finitely
many sessions are busy. From it:

- `UsageStaysInRange`, `LedgerAddsUp`, `RedemptionsAreCovered`, `RefundsNeverOverdraw`.
- `SalesAreSerializable`, the refinement of `SaleContract` step by step: locks, reads and
  flushes map to stutters, each commit to an atomic sale, cancellation or refund. A
  release is the step that needs the sums: what a sweep gives back is the total of the
  orders it has done.
- `CartsCannotDeadlock`: along a circle of waiting carts the row waited for would have to
  come strictly before itself in the order in which carts take their locks.
- `ShelfIsExplained` (`StockMatchesOrders`): whatever was cancelled, swept, aborted or
  sent again has left no trace on the shelf.

The liveness properties are TLC's, since they need fairness; what they rest on besides
fairness is proved:

- `SessionsAreFinite` (`SessionsAreShort`): every step of a busy session, its commit,
  abort and restart included, lowers `StepsLeft`, the number of rows and orders it has
  still to go through. No session goes on for ever. This needs finite carts and refunds
  (`LinesAssumption`): a sweep's orders count with all their rows from the start.
- `SomebodyCanGoOn` (`NeverStuck`): a busy session that waits for nobody is not blocked,
  and if every busy session waits, some of them form a circle: among the nonempty sets
  of busy sessions that wait only for each other there is a smallest one, and it is a
  circle. So either a session's next step is possible or `BreakDeadlock` is.
- `SweepsLeaveNothingBehind` (`SweepsAreThorough`): a sweep that commits has cancelled
  every order it locked but those with money on them.

**Purchasing** (`PurchasingProofs`). Of purchase orders it has `PurchasingTypes`,
`ReceiptsAreBounded` (`NeverOverRecorded`), `ReceiptsAreNotLost` (`StockMatchesReceipts`),
`ApprovalsAreAccountedFor` (`OrdersAreAudited`) and `UntornOrdersAreRight`
(`UntornOrdersAddUp`). Its `IInv` says of every session that it fits its order (`Fits`), that a
receipt in progress was compared with a copy no newer than the order's receipts and will
write a sum within the lines (`Compared`), and that it holds the products it has been
through, a request with the stock as it is (`Holds`). The sum a receipt writes is
therefore bounded although the order is not locked, and no request's `+=` loses a sale.
`UntornInv` adds that the copy a decision starts from was in a status without receipts or had
none, and that a receipt in progress brings something in (`Considered`).

Of invoices and payments it has `NoOverpayment` (`InvoiceNeverOverpaid`), `PayTypes` and
`PayablesAreRight` (`PayablesAddUp`). `PayIInv` says that whoever is about to pay holds the
invoice's lock (`PaysUnderLock`) and that what it is about to approve fits into what is
outstanding (`HasRoom`). `PayBooksInv` adds that a session is informed (goods only come
in, an invoice stays approved while a payment holds it: `Informed`), that money was
paid on approved invoices only, unless two decisions overtook each other
(`MoneyOnApproved`), and that invoices nobody was warned about bill no more than has
arrived, unless they were created side by side (`UnflaggedFit`).

`BothGoOn` shows that a behaviour of `MCPurchasing` is one of `PurchaseOrders` and one of
`Payables`, each with stutters, so all of the above holds of the composition; with it,
`PurchasingStateIsTyped` gives its `TypesOK`.

**Tills** (`TillProofs`).

- `EventsHappenOnce`, `LogsAreTrue`: a delivery that found no effect of its key, or of a
  location no log entry, finds no effect later unless another works on the same event or
  one was lost before it could log the location (`Honest`); two at one event are seen to
  overlap (`OverlapsAreSeen`); once an event is logged as failed nobody is at it any
  more (`FailuresAreOver`); and a location that took effect is in the log or about to be,
  with the same exceptions (`EffectsAreAccounted`).
- `TillsBookOnce`: an answer that a payment went through, or that its key is used up, is
  of a payment in the books, however late it arrives (`TellsTheTruth`), and a single payment
  is booked once and cards within the total (`SoundRow`). It assumes of the `Ways` only that
  something is handed over, of the `Totals` that they are integers.
- `OnlyRacesOpenDrawersTwice`, `ClosedDrawersStayFinal`, `QuietCounts`: a request fits the
  drawer and the tab it has read (`Fitting`), one request at a time pays or cancels a tab
  (`Alone`), and a tab has a drawer once it exists (`TabIsBooked`); a count under way has what
  the drawer has taken, unless it was disturbed (`CountsInv`); and what was tendered at a
  drawer is its sales and what its tabs left beyond them (`TakingsAddUp`).

**Catalogue** (`CatalogProofs`).

- `TerminalsHaveTheCatalog`: stamps are never in the future (`StampsArePast`), and what a
  pull has read of a row is current unless its writer raced it (`PullIsCurrent`).
- `LiveImagesAreOnDisk`: names of images belong to one product (`ImagesAreOwn`), a request
  unlinks only what was its own product's (`SeenIsOwn`), and the name it has just written
  is nobody else's (`FileIsFresh`).
- `MovementsAddUp`: an update holds its row's lock, so the stock it read still stands
  (`LockHolds`).
- `PricesAreRight`: for *any* integers in the rows of promotions and tax rules, since the
  panel's forms validate nothing. A cart's discount, base and lines have the bounds of
  `PricesAddUp` as they are computed (`BillIsRight`).

**Kitchen, drafts, accounts, reports** (`BackOfficeProofs`).

- `OrdersMoveForward`: whoever holds an order's lock holds it alone and what it read stands
  (`HoldsOrder`).
- `BoardsCatchUp`: a board that does not show the truth is to hear of it: an event, a fetch
  or a publisher is still to come, or what it shows is marked as doubtful for one of the
  three reasons above (`Informed`).
- `SignInsHoldOneToken`: two live tokens of one sign-in are one token, and a request
  exchanges a token that was issued (`SignInInv`).
- `LoopsDraftApart`: a loop past its start holds the advisory lock (`HoldsLock`), and what it
  wants is in no pending draft (`WantsNew`). `DeliveriesEndTheNeed` is the arithmetic of the
  reorder rule (`RuleSettles`).
- `ReportsAreConsistent`: `ReportTypeOK` is inductive; the rest is about sums. Every report
  groups the same books by a key of its own, and a sum by key is the sum of the groups
  (`SumByKey`, `SumByColumn`). Margins need that returns cost no more than what was sold
  did (`CostsAreCovered`).

**The back office as a whole** (`MCBackOfficeProofs`). `MCBackOffice` is not a conjunction
of its parts: one variable picks the part that moves, and the others must stutter.
`PartsGoOn` shows that each part still behaves as its own specification says, and
`BackOfficeIsSafe` that every invariant and action property the run checks holds of the
composition, for any `Parts` and any values of the other constants that satisfy the
modules' assumptions. One assumption is its own: the actors it
names are there, `p1` among the staff, `m1`, `m2` and `m3` as all the members, and a second
shop (`ActorsAssumption`).

**Types.** Every module's type invariant is proved: `TypeCorrect`, `PurchasingTypes`,
`PayTypes`, `SyncTypes`, `OutboxTypes`, `DrawerTypes`, `CatalogTypes`, `StockTypes`,
`PricingTypes`, `KitchenTypes`, `AccountTypes`, `BooksTypeCorrect` and, for `AutoPurchase`,
the `PurchasingTypes` of `BackOfficeProofs`. So is their conjunction, the `TypesOK` of
each composition (`PurchasingStateIsTyped`, `BackOfficeIsTyped`).

**Sums.** The models sum with the community modules' `SumFunctionOnSet`, the value of a
recursive function the library chooses. `SumTheorems` shows what it gives for a set with an
element more or less, a changed value, a union, a grouping. Induction over finite sets
cannot be instantiated here, so each fact is shown by looking at a smallest set for
which it would fail (`MinimalSubset`, `SubsetInduction`).

The proofs go action by action: type correctness, then one lemma per part of the
invariant or per kind of step, then the theorem with PTL.

**Only model-checked.** Liveness: `RequestsFinish`, `ExpiredIsReleased` and
`LowStockIsOrdered` rest on fairness and on which steps are ENABLED, which the prover does
not handle. The facts about single steps that the first two need are proved (above);
putting them together, and the step from "can go on" to "goes on", is left to TLC. The
seven violated claims are TLC's counterexamples.

## What is left

Larger instances: two tills with their outboxes against `OrderLifecycle` itself
instead of the server as the till sees it.

**Not modelled, and why.** Tenants and localization: configuration written one row at a
time; every query is filtered by tenant, so one tenant is modelled except where several
matter (`StockDesk`, `Accounts`, `Reports`). Embeddings and similarity search: numeric ranking
no state depends on. Customer and supplier records, the audit list, health, metrics and
rate limits: single-row writes and reads that no other component decides by. Schema
migrations and Pydantic schemas: declarations. List pages and plain forms of the panel:
`sqladmin` writes the columns of one row. The catalogue's screens in the till: they show
what `CatalogDelta` stores.

## Running

    tlc -workers 2 -config MCOrderStock.cfg MCOrderStock
    tlc -workers 2 -config MCOrderLoyalty.cfg MCOrderLoyalty
    tlc -workers 2 -config MCOrderSweep.cfg MCOrderSweep
    tlc -workers 2 -config MCPurchasing.cfg MCPurchasing
    tlc -workers 2 -config MCBackOffice.cfg MCBackOffice
    tlapm SumTheorems.tla
    tlapm OrderLifecycleProofs.tla
    tlapm OrderBooksProofs.tla
    tlapm PurchasingProofs.tla
    tlapm TillProofs.tla
    tlapm CatalogProofs.tla
    tlapm BackOfficeProofs.tla
    tlapm MCBackOfficeProofs.tla

The violated claims run with `MCDoubleRefund.cfg`, `MCCancelRefunded.cfg` and
`MCLostPoints.cfg` on `MCOrderLoyalty`, `MCLoopDies.cfg` on `MCOrderSweep`,
`MCRestockWizard.cfg` and `MCFourEyes.cfg` on `MCPurchasing`, and `MCTrackedOrders.cfg` on
`MCBackOffice`. Definitions marked `Mutant:` are plausible bugs: each replaces the
definition that follows it, and TLC must then find one of the properties violated, as
listed in `PROJECT.json`.
