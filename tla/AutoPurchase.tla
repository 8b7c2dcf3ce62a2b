---------------------------- MODULE AutoPurchase ----------------------------
(***************************************************************************)
(* Draft purchase orders from replenishment suggestions: the background    *)
(* loop of every server worker (one at a time, by an advisory lock), the   *)
(* restock wizard's Generate button and the batch endpoint, which take no  *)
(* lock, and the life of the orders they make as far as it matters here.   *)
(***************************************************************************)
EXTENDS ReorderRule, FiniteSets, FiniteSetsExt, Functions

CONSTANTS
    DraftIds,   \* purchase orders in the order of their ids
    Goods, Suppliers,
    Workers,    \* server processes, each with its own loop
    Panels,     \* sessions that press Generate in the restock wizard
    Batches,    \* sessions of the batch endpoint
    Nobody,
    Rule,       \* reorder point, min and max stock, lead time, lookback
    Trigger,    \* PurchasingSetting.auto_po_min_stock_trigger
    Shelf,      \* stock when the model starts
    Past,       \* the supplier of each product's latest order before that
    Leaving,    \* suppliers that may be deactivated
    Switch,     \* what a request may set auto_po_enabled to
    MaxSales,   \* bounds: units sold,
    MaxCrashes  \* and crashes of a server worker

Generators == Workers \cup Panels \cup Batches

ASSUME AutoPurchaseAssumption ==
    /\ DraftIds \subseteq Nat /\ IsFiniteSet(DraftIds)
    /\ Trigger \in Nat /\ MaxSales \in Nat /\ MaxCrashes \in Nat
    /\ Workers \cap (Panels \cup Batches) = {}
    /\ Rule \in [Goods -> [point : Nat, min : Nat, max : Nat, lead : Nat, lookback : Nat \ {0}]]
    /\ Shelf \in [Goods -> Int] /\ Switch \subseteq {"on", "off"}
    /\ Leaving \subseteq Suppliers
    /\ Past \in [Goods -> Suppliers \cup {Nobody}]
    /\ Nobody \notin Generators \cup Suppliers

VARIABLES
    drafts,    \* purchase orders: status, supplier, lines, units due, and whether
               \* a loop made them
    shelf,     \* Product.stock_quantity
    sales,     \* units sold within the lookback window
    suppliers, \* active suppliers
    setting,   \* the tenant's purchasing_settings row
    advisory,  \* who holds AUTO_PO_LOCK
    task,      \* what each generator is doing
    alive,     \* workers whose loop has not died of an exception
    crashes

autoVars == <<drafts, shelf, sales, suppliers, setting, advisory, task, alive, crashes>>

DraftStatuses == {"absent", "draft", "pending_review", "ordered",
                  "partially_received", "received", "closed"}
Zero == [p \in Goods |-> 0]
NoDraft == [status |-> "absent", supplier |-> Nobody, lines |-> {}, due |-> Zero, looped |-> FALSE]

\* want maps a product to the supplier it is to be ordered from, cached is the
\* stock as loaded, fresh says that the session's copies have expired.
NoTask == [stage |-> "idle", want |-> [p \in Goods |-> Nobody],
           cached |-> Zero, fresh |-> FALSE]

Stages == {"idle", "locked", "inserting", "form", "ordering"}

AutoTypeOK ==
    /\ drafts \in [DraftIds -> [status : DraftStatuses, supplier : Suppliers \cup {Nobody},
                                lines : SUBSET Goods, due : [Goods -> Nat], looped : BOOLEAN]]
    /\ shelf \in [Goods -> Int] /\ sales \in [Goods -> Nat]
    /\ suppliers \subseteq Suppliers
    /\ setting \in {"absent", "off", "on"}
    /\ advisory \in Workers \cup {Nobody}
    /\ task \in [Generators -> [stage : Stages,
                                want : [Goods -> Suppliers \cup {Nobody}],
                                cached : [Goods -> Int], fresh : BOOLEAN]]
    /\ alive \subseteq Workers
    /\ crashes \in 0..MaxCrashes

AutoInit ==
    /\ drafts = [i \in DraftIds |-> NoDraft]
    /\ shelf = Shelf
    /\ sales = [p \in Goods |-> 0]
    /\ suppliers = Suppliers
    /\ setting = "absent"
    /\ advisory = Nobody
    /\ task = [g \in Generators |-> NoTask]
    /\ alive = Workers
    /\ crashes = 0

-----------------------------------------------------------------------------
(* What the generators read *)

InOrders(statuses) ==
    UNION {drafts[i].lines : i \in {j \in DraftIds : drafts[j].status \in statuses}}

\* _products_already_in_pending_po: pending_review is not in its list.
InPendingOrder == InOrders({"draft", "ordered", "partially_received"})

\* The supplier of the latest order with p, or else the only active one.
SupplierOf(p) ==
    LET past == {i \in DraftIds : p \in drafts[i].lines}
    IN  IF past # {} THEN drafts[Max(past)].supplier
        ELSE IF Past[p] # Nobody THEN Past[p]
        ELSE IF Cardinality(suppliers) = 1 THEN CHOOSE s \in suppliers : TRUE
        ELSE Nobody

Quantity(p, trigger, stock) == Recommended(Rule[p], trigger, stock, sales[p])

\* What is to be ordered of the candidates, and from whom, by the stock the
\* session has seen.
Plan(candidates, trigger, seen) ==
    [p \in Goods |-> IF /\ p \in candidates \ InPendingOrder
                        /\ Quantity(p, trigger, seen[p]) > 0
                     THEN SupplierOf(p) ELSE Nobody]

LowIn(trigger, seen) == {p \in Goods : seen[p] <= Larger(Rule[p].point, trigger)}
LowGoods(trigger) == LowIn(trigger, shelf)

NextId == Min({i \in DraftIds : drafts[i].status = "absent"})
HasId == \E i \in DraftIds : drafts[i].status = "absent"

Draft(g, s, amounts) ==
    [status |-> "draft", supplier |-> s, lines |-> {p \in Goods : amounts[p] > 0},
     due |-> amounts, looped |-> g \in Workers]

TriggerOf(g) == IF g \in Workers THEN Trigger ELSE 0
-----------------------------------------------------------------------------
(* The background loop *)

\* Mutant: the task runs whoever holds the lock.
RunUnguarded(w) ==
    /\ w \in alive /\ task[w].stage = "idle"
    /\ advisory' = w
    /\ task' = [task EXCEPT ![w].stage = "locked"]
    /\ UNCHANGED <<drafts, shelf, sales, suppliers, setting, alive, crashes>>

\* run_exclusive: pg_try_advisory_lock, or skip this run.
RunExclusive(w) ==
    /\ w \in alive /\ task[w].stage = "idle"
    /\ advisory = Nobody
    /\ advisory' = w
    /\ task' = [task EXCEPT ![w].stage = "locked"]
    /\ UNCHANGED <<drafts, shelf, sales, suppliers, setting, alive, crashes>>

\* Mutant: run_exclusive returns without unlocking.
ReleaseKeepingLock(w) ==
    /\ UNCHANGED advisory
    /\ task' = [task EXCEPT ![w] = NoTask]

\* The task is over and run_exclusive unlocks.
Release(w) ==
    /\ advisory' = IF advisory = w THEN Nobody ELSE advisory
    /\ task' = [task EXCEPT ![w] = NoTask]

\* get_or_create_purchasing_setting finds no row and means to insert one.
MissSetting(w) ==
    /\ task[w].stage = "locked" /\ setting = "absent"
    /\ task' = [task EXCEPT ![w].stage = "inserting"]
    /\ UNCHANGED <<drafts, shelf, sales, suppliers, setting, advisory, alive, crashes>>

\* The row is unique per tenant: if a request has created it meanwhile, the
\* insert fails, nothing catches the error and the loop's task ends.
InsertSetting(w) ==
    /\ task[w].stage = "inserting"
    /\ IF setting = "absent"
       THEN setting' = "off" /\ UNCHANGED alive
       ELSE alive' = alive \ {w} /\ UNCHANGED setting
    /\ Release(w)
    /\ UNCHANGED <<drafts, shelf, sales, suppliers, crashes>>

\* _auto_po_sync for a tenant that has turned automation on.
ScanShelf(g, candidates, seen) ==
    /\ LET plan == Plan(candidates, TriggerOf(g), seen)
       IN  task' = [task EXCEPT ![g] = [stage |-> "ordering", want |-> plan, fresh |-> FALSE,
              cached |-> [p \in Goods |-> IF plan[p] # Nobody THEN seen[p] ELSE 0]]]
    /\ UNCHANGED <<drafts, shelf, sales, suppliers, setting, advisory, alive, crashes>>

ReadSetting(w) ==
    /\ task[w].stage = "locked" /\ setting # "absent"
    /\ IF setting = "on"
       THEN ScanShelf(w, LowGoods(Trigger), shelf)
       ELSE Release(w) /\ UNCHANGED <<drafts, shelf, sales, suppliers, setting, alive, crashes>>

\* create_purchase_order_from_replenishment for the products wanted from s.
\* Until the session's first commit it sees the products as it loaded them.
Amounts(g, s) ==
    [p \in Goods |-> IF task[g].want[p] = s
                     THEN Quantity(p, TriggerOf(g), IF task[g].fresh THEN shelf[p]
                                                                     ELSE task[g].cached[p])
                     ELSE 0]

Done(g, s) == [p \in Goods |-> IF task[g].want[p] = s THEN Nobody ELSE task[g].want[p]]

\* One draft per supplier, each with a commit of its own; an inactive supplier
\* is skipped.
OrderFrom(g, s) ==
    /\ task[g].stage = "ordering" /\ \E p \in Goods : task[g].want[p] = s
    /\ \/ /\ s \notin suppliers
          /\ task' = [task EXCEPT ![g].want = Done(g, s)]
          /\ UNCHANGED drafts
       \/ /\ s \in suppliers /\ HasId
          /\ \E p \in Goods : Amounts(g, s)[p] > 0
          /\ drafts' = [drafts EXCEPT ![NextId] = Draft(g, s, Amounts(g, s))]
          /\ task' = [task EXCEPT ![g].want = Done(g, s), ![g].fresh = TRUE,
                                          ![g].cached = Zero]
    /\ UNCHANGED <<shelf, sales, suppliers, setting, advisory, alive, crashes>>

\* The second supplier's products have been delivered meanwhile: HTTP 400,
\* which ends a worker's loop; the wizard reports it.
NothingLeftToOrder(g, s) ==
    /\ task[g].stage = "ordering" /\ \E p \in Goods : task[g].want[p] = s
    /\ s \in suppliers
    /\ \A p \in Goods : Amounts(g, s)[p] = 0
    /\ alive' = alive \ {g}
    /\ Release(g)
    /\ UNCHANGED <<drafts, shelf, sales, suppliers, setting, crashes>>

FinishRun(g) ==
    /\ task[g].stage = "ordering" /\ \A p \in Goods : task[g].want[p] = Nobody
    /\ Release(g)
    /\ UNCHANGED <<drafts, shelf, sales, suppliers, setting, alive, crashes>>

\* The restock wizard loads every product, then awaits the form.
OpenWizard(g) ==
    /\ g \in Panels /\ task[g].stage = "idle"
    /\ task' = [task EXCEPT ![g] = [NoTask EXCEPT !.stage = "form", !.cached = shelf]]
    /\ UNCHANGED <<drafts, shelf, sales, suppliers, setting, advisory, alive, crashes>>

\* Generate: no advisory lock, no setting, no trigger.  The query selects by the
\* stock of now, all that follows goes by the copies the wizard has loaded.
PressGenerate(g) ==
    /\ g \in Panels /\ task[g].stage = "form"
    /\ ScanShelf(g, LowGoods(0) \cap LowIn(0, task[g].cached), task[g].cached)

\* The form asks for another step of the wizard (see PurchaseOrders).
TakeOtherStep(g) ==
    /\ g \in Panels /\ task[g].stage = "form"
    /\ task' = [task EXCEPT ![g] = NoTask]
    /\ UNCHANGED <<drafts, shelf, sales, suppliers, setting, advisory, alive, crashes>>

-----------------------------------------------------------------------------
(* The endpoints *)

\* batch_generate_purchase_orders_from_replenishment reads, decides, and
\* inserts one draft per supplier, all in one commit.  It is asked for the
\* products at their reorder point, or for products by id.
StartBatch(g) ==
    /\ g \in Batches /\ task[g].stage = "idle"
    /\ \E candidates \in {LowGoods(0), Goods} :
          /\ \E p \in Goods : Plan(candidates, 0, shelf)[p] \in suppliers
          /\ ScanShelf(g, candidates, shelf)

\* The suppliers in some order take the next ids.
BatchFrom(g) == {s \in suppliers : \E p \in Goods : task[g].want[p] = s}
FreeIds == {i \in DraftIds : drafts[i].status = "absent"}
Rank(x, S) == Cardinality({y \in S : y < x})

CommitBatch(g) ==
    /\ g \in Batches /\ task[g].stage = "ordering"
    /\ Cardinality(BatchFrom(g)) <= Cardinality(FreeIds)
    /\ \E number \in [BatchFrom(g) -> {i \in FreeIds :
                                           Rank(i, FreeIds) < Cardinality(BatchFrom(g))}] :
          /\ \A s, t \in BatchFrom(g) : s # t => number[s] # number[t]
          /\ drafts' = [i \in DraftIds |->
                IF \E s \in BatchFrom(g) : number[s] = i
                THEN LET s == CHOOSE t \in BatchFrom(g) : number[t] = i
                     IN  Draft(g, s, Amounts(g, s))
                ELSE drafts[i]]
    /\ task' = [task EXCEPT ![g] = NoTask]
    /\ UNCHANGED <<shelf, sales, suppliers, setting, advisory, alive, crashes>>

\* create_purchase_order_from_replenishment from its endpoint: a supplier of the
\* caller's choice, whatever is pending.
PostFromReplenishment(g) ==
    /\ g \in Batches /\ task[g].stage = "idle" /\ HasId
    /\ \E s \in suppliers :
          LET amounts == [p \in Goods |-> Quantity(p, 0, shelf[p])]
          IN  /\ \E p \in Goods : amounts[p] > 0
              /\ drafts' = [drafts EXCEPT ![NextId] = Draft(g, s, amounts)]
    /\ UNCHANGED <<shelf, sales, suppliers, setting, advisory, task, alive, crashes>>

\* GET /settings creates the row, PUT /settings changes it.
PutSetting ==
    /\ \E on \in Switch : on # setting /\ setting' = on
    /\ UNCHANGED <<drafts, shelf, sales, suppliers, advisory, task, alive, crashes>>

\* PUT /suppliers/{id}: is_active.
UpdateSupplier ==
    /\ \E s \in Leaving : suppliers' = suppliers \ {s}
    /\ suppliers' # suppliers
    /\ UNCHANGED <<drafts, shelf, sales, setting, advisory, task, alive, crashes>>
-----------------------------------------------------------------------------
(* The orders' further life (see PurchaseOrders) and the tills *)

Proceed(i) ==
    /\ \/ /\ drafts[i].status = "draft"
          /\ \E to \in {"pending_review", "closed"} : drafts' = [drafts EXCEPT ![i].status = to]
       \/ /\ drafts[i].status = "pending_review"
          /\ \E to \in {"ordered", "closed"} : drafts' = [drafts EXCEPT ![i].status = to]
    /\ UNCHANGED <<shelf, sales, suppliers, setting, advisory, task, alive, crashes>>

\* Some units of an order come in.
Deliver(i, p) ==
    /\ drafts[i].status \in {"ordered", "partially_received"} /\ drafts[i].due[p] > 0
    /\ shelf' = [shelf EXCEPT ![p] = @ + drafts[i].due[p]]
    /\ drafts' = [drafts EXCEPT ![i].due[p] = 0,
          ![i].status = IF \A q \in Goods \ {p} : drafts[i].due[q] = 0
                        THEN "received" ELSE "partially_received"]
    /\ UNCHANGED <<sales, suppliers, setting, advisory, task, alive, crashes>>

SellUnit(p) ==
    /\ shelf[p] > 0 /\ FoldFunction(+, 0, sales) < MaxSales
    /\ shelf' = [shelf EXCEPT ![p] = @ - 1]
    /\ sales' = [sales EXCEPT ![p] = @ + 1]
    /\ UNCHANGED <<drafts, suppliers, setting, advisory, task, alive, crashes>>

\* A server process goes down and comes back: its connection takes the
\* advisory lock along, orders already committed stay.
CrashWorker(w) ==
    /\ crashes < MaxCrashes /\ task[w].stage # "idle"
    /\ crashes' = crashes + 1
    /\ alive' = alive \cup {w}
    /\ Release(w)
    /\ UNCHANGED <<drafts, shelf, sales, suppliers, setting>>

LoopStep(w) ==
    \/ RunExclusive(w) \/ MissSetting(w) \/ InsertSetting(w) \/ ReadSetting(w)

Ordering(g) ==
    \/ \E s \in Suppliers : OrderFrom(g, s) \/ NothingLeftToOrder(g, s)
    \/ FinishRun(g)

WorkerNext ==
    \/ \E w \in Workers : LoopStep(w) \/ CrashWorker(w) \/ Ordering(w)
    \/ PutSetting

DeskNext ==
    \/ \E g \in Panels :
          OpenWizard(g) \/ PressGenerate(g) \/ TakeOtherStep(g) \/ Ordering(g)
    \/ \E g \in Batches : StartBatch(g) \/ CommitBatch(g) \/ PostFromReplenishment(g)

TradeNext ==
    \/ UpdateSupplier
    \/ \E i \in DraftIds : Proceed(i) \/ \E p \in Goods : Deliver(i, p)
    \/ \E p \in Goods : SellUnit(p)

AutoNext == WorkerNext \/ DeskNext \/ TradeNext

\* The timers of the loops fire after every interval; a run goes on to its end.
AutoFairness ==
    /\ WF_autoVars(\E w \in Workers : RunExclusive(w))
    /\ \A w \in Workers : WF_autoVars(MissSetting(w) \/ InsertSetting(w) \/ ReadSetting(w))
    /\ \A w \in Workers : WF_autoVars(Ordering(w))

AutoSpec == AutoInit /\ [][AutoNext]_autoVars /\ AutoFairness

-----------------------------------------------------------------------------
(* Properties *)

\* The loops of several workers never draft the same product twice: the
\* advisory lock lets one scan at a time, and a draft counts as pending.
LoopDraftsDisjoint ==
    \A i, j \in DraftIds :
        /\ i # j
        /\ drafts[i].looped /\ drafts[j].looped
        /\ drafts[i].status = "draft" /\ drafts[j].status = "draft"
        => drafts[i].lines \cap drafts[j].lines = {}

\* Ordering settles: once the recommended quantity has come in, the rule asks
\* for nothing more, and a delivery never passes the product's maximum.
DeliveryEndsNeed ==
    \A p \in Goods, t \in {0, Trigger} :
        LET wanted == Quantity(p, t, shelf[p])
        IN  /\ Quantity(p, t, shelf[p] + wanted) = 0
            /\ wanted > 0 /\ Rule[p].max > 0 => shelf[p] + wanted <= Rule[p].max

Needed(p) == /\ setting = "on" /\ SupplierOf(p) \in suppliers
             /\ p \in LowGoods(Trigger) /\ Quantity(p, Trigger, shelf[p]) > 0

\* What automation is for: as long as some worker's loop is alive, a product
\* below its line is on order (or in review, or on hand again) eventually.
LowStockIsOrdered ==
    \A p \in Goods :
        Needed(p) /\ HasId ~> \/ ~Needed(p) \/ ~HasId \/ alive = {}
                              \/ p \in InPendingOrder \cup InOrders({"pending_review"})
=============================================================================
