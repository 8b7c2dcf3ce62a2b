---------------------------- MODULE MCBackOffice ----------------------------
(***************************************************************************)
(* The components around the order desk, which share no state as far as    *)
(* they are modelled, checked side by side: a behaviour picks one part and *)
(* only that part takes steps, so the state spaces add up instead of       *)
(* multiplying.                                                            *)
(***************************************************************************)
EXTENDS AutoPurchase, CashDrawer, EventSync, CatalogDelta, ServingBoard, StockDesk, Accounts,
        Pricing, Reports, Outbox, TLC

CONSTANTS g1, g2, s1, s2, b1, w1, p1, m1, m2, m3, q1, q2, Parts

ASSUME ActorsAssumption == p1 \in Staff /\ Members = {m1, m2, m3} /\ 2 \in Shops

VARIABLE part

MCRule == g1 :> [point |-> 1, min |-> 0, max |-> 2, lead |-> 20, lookback |-> 10]
       @@ g2 :> [point |-> 0, min |-> 1, max |-> 0, lead |-> 0, lookback |-> 30]
MCShelf == g1 :> 2 @@ g2 :> 0
MCPast == g1 :> s1 @@ g2 :> s2

MCKind == "o1" :> "order_create" @@ "p1" :> "order_add_payment"
          @@ "l1" :> "order_location_update" @@ "r1" :> "refund_create"
MCReplays == {<<"o1">>, <<"r1", "p1">>, <<"l1">>}

MCServedBy == b1 :> w1
MCAdjustments == {-1, 1}
MCEmail == m1 :> "mary" @@ m2 :> "owner" @@ m3 :> "mary"
MCDefaults == "cashier" :> {"sell"} @@ "admin" :> {"sell", "staff", "roles"}

MCWareCategory == "w1" :> "food" @@ "w2" :> "drink"
MCWarePrice == "w1" :> 333 @@ "w2" :> 5
MCPromoKinds == {
    [type |-> "percentage", value |-> 33, cap |-> <<100>>, least |-> 0, scope |-> "order",
     of |-> "nothing", starts |-> NoDay, ends |-> 0, state |-> "on"],
    [type |-> "fixed", value |-> 250, cap |-> <<>>, least |-> 300, scope |-> "category",
     of |-> "drink", starts |-> 1, ends |-> NoDay, state |-> "on"]}
MCPanelKinds == {
    [type |-> "percentage", value |-> 150, cap |-> <<>>, least |-> 0, scope |-> "product",
     of |-> "w1", starts |-> NoDay, ends |-> NoDay, state |-> "on"]}
MCTaxKinds == {
    [mode |-> "exclusive", rate |-> 11, scope |-> "order", of |-> "nothing",
     starts |-> NoDay, ends |-> NoDay, state |-> "on"],
    [mode |-> "inclusive", rate |-> 10, scope |-> "product", of |-> "w1",
     starts |-> 0, ends |-> 1, state |-> "on"]}

MCPanelTaxKinds == {
    [mode |-> "exclusive", rate |-> -150, scope |-> "order", of |-> "nothing",
     starts |-> NoDay, ends |-> NoDay, state |-> "on"]}

MCTicket ==
    "s1" :> [shop |-> 1, article |-> "a1", quantity |-> 2, price |-> 3, cost |-> 1,
             discount |-> 1, points |-> 1, tax |-> 2, contained |-> 1, buyer |-> "c1"]
    @@ "s2" :> [shop |-> 2, article |-> "a2", quantity |-> 1, price |-> 2, cost |-> UnknownCost,
                discount |-> 0, points |-> 0, tax |-> -3, contained |-> 0, buyer |-> NoBuyer]
MCMadeBy == "a1" :> 1 @@ "a2" :> 2
MCBillOf == "i1" :> [vendor |-> "v1", amount |-> 4, variance |-> -1]
            @@ "i2" :> [vendor |-> "v2", amount |-> 2, variance |-> 0]
MCMonthOf == <<1, 2>>

MCWays == "k1" :> {[cash |-> 2, card |-> 0], [cash |-> 0, card |-> 2], [cash |-> 1, card |-> 1]}
\* Requests are alike in every part whose requests are q1 and q2.
MCSymmetry == Permutations({q1, q2})

MCTotals == "k1" :> {2, 4}

vars == <<part, autoVars, drawerVars, syncVars, catalogVars, boardVars, stockVars, accountVars,
          pricingVars, reportVars, tillVars>>

Init ==
    /\ part \in Parts
    /\ AutoInit /\ DrawerInit /\ SyncInit /\ CatalogInit /\ BoardInit /\ StockInit
    /\ AccountInit /\ PricingInit /\ ReportInit /\ OutboxInit
    /\ part \notin {"goods", "photos"} => \A k \in Categories : categories[k].tenant = 1

Loops == WorkerNext \/ TradeNext
Buttons == DeskNext \/ TradeNext

\* Trips do not change what a board shows, and are left to the kitchen's part.
BoardsPart ==
    \/ /\ StaffNext(p1)
       /\ \A o \in Orders : orders'[o].tracking = "none"
    \/ \E b \in Boards : ScreenNext(b)
KitchenPart == \E p \in Staff : StaffNext(p)

GoodsPart == \E c \in Clerks : GoodsNext(c)
PhotosPart == \E c \in Clerks :
                 \/ PhotoNext(c)
                 \/ \E p \in Products, t \in Tenants : CreateProduct(c, p, t, NoCategory, 0)

\* The second shop is that of a namesake, who comes before the second token, if at
\* all, and stands in the way of further logins.
SignInsPart ==
    /\ \/ StaffChange(m2) \/ TokenChange(m1)
       \/ tokens[2].state = "none" /\ Register(m3, 2)
    /\ \A m \in Members : users'[m].state # "none" => users'[m].shop = IF m = m3 THEN 2 ELSE 1
\* Two users of one shop edit each other and the cashier's permissions.
RolesPart ==
    /\ (\E m \in Members : StaffChange(m) \/ RoleChange(m)) \/ \E w \in Windows : SignOut(w)
    /\ UNCHANGED <<users[m3], roles["admin"]>>
    /\ \A m \in Members : users'[m].shop # 2

\* The first shop's product may move to the second and back.
SalesPart == SaleHistory /\ UNCHANGED home["a2"]

AutoStep == (part = "loops" /\ Loops) \/ (part = "buttons" /\ Buttons)
BoardStep == (part = "kitchen" /\ KitchenPart) \/ (part = "boards" /\ BoardsPart)
StockStep == (part = "goods" /\ GoodsPart) \/ (part = "photos" /\ PhotosPart)
AccountStep == (part = "signins" /\ SignInsPart) \/ (part = "roles" /\ RolesPart)
ReportStep == \/ part = "sales" /\ SalesPart
              \/ part = "bills" /\ BillHistory
              \/ part = "shifts" /\ ShiftHistory

\* Every component whose part it is not rests.
Next ==
    /\ UNCHANGED part
    /\ IF part \in {"loops", "buttons"} THEN AutoStep ELSE UNCHANGED autoVars
    /\ IF part = "drawers" THEN DrawerNext ELSE UNCHANGED drawerVars
    /\ IF part = "sync" THEN SyncNext ELSE UNCHANGED syncVars
    /\ IF part = "catalog" THEN CatalogNext ELSE UNCHANGED catalogVars
    /\ IF part \in {"kitchen", "boards"} THEN BoardStep ELSE UNCHANGED boardVars
    /\ IF part \in {"goods", "photos"} THEN StockStep ELSE UNCHANGED stockVars
    /\ IF part \in {"signins", "roles"} THEN AccountStep ELSE UNCHANGED accountVars
    /\ IF part = "pricing" THEN PricingNext ELSE UNCHANGED pricingVars
    /\ IF part \in {"sales", "bills", "shifts"} THEN ReportStep ELSE UNCHANGED reportVars
    /\ IF part = "till" THEN OutboxNext ELSE UNCHANGED tillVars

Spec == Init /\ [][Next]_vars

\* Every component's state is of its type.
TypesOK ==
    /\ AutoTypeOK /\ DrawerTypeOK /\ SyncTypeOK /\ CatalogTypeOK /\ BoardTypeOK /\ StockTypeOK
    /\ AccountTypeOK /\ PricingTypeOK /\ ReportTypeOK /\ OutboxTypeOK
=============================================================================
