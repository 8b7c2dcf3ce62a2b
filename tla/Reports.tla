------------------------------ MODULE Reports ------------------------------
(***************************************************************************)
(* The reports, as functions of what was sold, refunded, billed and paid.  *)
(* Each is a query of its own with its own filters and joins; what they    *)
(* have to agree on is stated over a small history of days.                *)
(***************************************************************************)
EXTENDS Integers, FiniteSets, Functions

CONSTANTS
    Sales,        \* orders
    Ticket,       \* what each sells and to whom
    Articles,     \* products
    MadeBy,       \* the shop each was created in
    Sections,     \* categories, all of SectionShop's tenant
    SectionShop,
    Bills,        \* purchase invoices, each with its supplier payment
    BillOf,       \* supplier, amount and variance of each
    Shifts,       \* drawer sessions
    Today,        \* bound: the last day
    MonthOf       \* of a day

VARIABLES soldOrders, returns, home, section, invoiceBook, payoutBook, closings, reportDay
reportVars ==
    <<soldOrders, returns, home, section, invoiceBook, payoutBook, closings, reportDay>>

AllShops == 0      \* tenant_id None
NoLimit == -1      \* start_date or end_date None
NoSection == "uncategorized"
NoBuyer == "none"
UnknownCost == -1  \* OrderItem.unit_cost NULL
Dates == 1..Today
ReportedShops == {Ticket[o].shop : o \in Sales}

ASSUME ReportAssumption ==
    /\ Today \in Nat \ {0} /\ MonthOf \in [Dates -> Nat]
    /\ \A S \in {Sales, Articles, Sections, Bills, Shifts} : IsFiniteSet(S)
    /\ NoSection \notin Sections
    /\ \A o \in Sales :
          /\ Ticket[o].shop \in Nat \ {AllShops} /\ Ticket[o].article \in Articles
          /\ Ticket[o].quantity \in Nat /\ Ticket[o].price \in Nat
          /\ Ticket[o].discount \in Int /\ Ticket[o].points \in Nat
          /\ Ticket[o].cost \in Nat \cup {UnknownCost}
          /\ Ticket[o].tax \in Int /\ Ticket[o].contained \in Nat
    /\ MadeBy \in [Articles -> ReportedShops]
    /\ \A b \in Bills : BillOf[b].amount \in Nat /\ BillOf[b].variance \in Int

NoEntry == [state |-> "none", day |-> 1]
Unclosed == [closed |-> 0, variance |-> 0]

ReportInit ==
    /\ soldOrders = [o \in Sales |-> NoEntry]
    /\ returns = [o \in Sales |-> [d \in Dates |-> 0]]
    /\ home = MadeBy
    /\ section = [a \in Articles |-> NoSection]
    /\ invoiceBook = [b \in Bills |-> NoEntry]
    /\ payoutBook = [b \in Bills |-> NoEntry]
    /\ closings = [f \in Shifts |-> Unclosed]
    /\ reportDay = 1
-----------------------------------------------------------------------------
(* What the other modules' handlers leave behind *)

Books(changed) == UNCHANGED changed

\* An order is placed, of a product the tenant has.
SaleMade(o) ==
    /\ soldOrders[o].state = "none" /\ home[Ticket[o].article] = Ticket[o].shop
    /\ soldOrders' = [soldOrders EXCEPT ![o] = [state |-> "pending", day |-> reportDay]]
    /\ Books(<<returns, home, section, invoiceBook, payoutBook, closings, reportDay>>)

\* Paid, served or, at any time, cancelled.
SaleMoves(o, from, to) ==
    /\ soldOrders[o].state = from
    /\ soldOrders' = [soldOrders EXCEPT ![o].state = to]
    /\ Books(<<returns, home, section, invoiceBook, payoutBook, closings, reportDay>>)

RefundedUnits(o) == SumFunctionOnSet(returns[o], Dates)

\* A unit comes back, today.
UnitReturned(o) ==
    /\ soldOrders[o].state \in {"serving", "completed"}
    /\ RefundedUnits(o) < Ticket[o].quantity
    /\ returns' = [returns EXCEPT ![o][reportDay] = @ + 1]
    /\ Books(<<soldOrders, home, section, invoiceBook, payoutBook, closings, reportDay>>)

\* PUT /products moves a product to another category, of any tenant, for past sales
\* as well.
Reclassified(a, s) ==
    /\ section[a] # s
    /\ section' = [section EXCEPT ![a] = s]
    /\ Books(<<soldOrders, returns, home, invoiceBook, payoutBook, closings, reportDay>>)

\* PUT /products and the panel's page move it to another tenant; the category has to be
\* of that tenant, or is cleared.
Transferred(a, shop, s) ==
    /\ home[a] # shop /\ (s # NoSection => SectionShop = shop)
    /\ home' = [home EXCEPT ![a] = shop]
    /\ section' = [section EXCEPT ![a] = s]
    /\ Books(<<soldOrders, returns, invoiceBook, payoutBook, closings, reportDay>>)

BillSteps == {<<"none", "draft">>, <<"draft", "pending_review">>, <<"pending_review", "approved">>,
              <<"pending_review", "rejected">>}

Stepped(row, from, to) == IF from = "none" THEN [state |-> to, day |-> reportDay]
                                         ELSE [row EXCEPT !.state = to]

BillMoves(b, from, to) ==
    /\ invoiceBook[b].state = from
    /\ invoiceBook' = [invoiceBook EXCEPT ![b] = Stepped(@, from, to)]
    /\ Books(<<soldOrders, returns, home, section, payoutBook, closings, reportDay>>)

\* Supplier payments refer to an approved invoice; here, for half of it.
PayoutMoves(b, from, to) ==
    /\ payoutBook[b].state = from /\ invoiceBook[b].state = "approved"
    /\ payoutBook' = [payoutBook EXCEPT ![b] = Stepped(@, from, to)]
    /\ Books(<<soldOrders, returns, home, section, invoiceBook, closings, reportDay>>)

\* A shift is closed and reconciled.
ShiftReconciled(f, variance) ==
    /\ closings[f] = Unclosed
    /\ closings' = [closings EXCEPT ![f] = [closed |-> reportDay, variance |-> variance]]
    /\ Books(<<soldOrders, returns, home, section, invoiceBook, payoutBook, reportDay>>)

Midnight ==
    /\ reportDay < Today /\ reportDay' = reportDay + 1
    /\ Books(<<soldOrders, returns, home, section, invoiceBook, payoutBook, closings>>)

SaleHistory ==
    \/ \E o \in Sales :
          \/ SaleMade(o) \/ UnitReturned(o)
          \/ SaleMoves(o, "pending", "serving") \/ SaleMoves(o, "serving", "completed")
          \/ \E from \in {"pending", "serving", "completed"} : SaleMoves(o, from, "cancelled")
    \/ \E a \in Articles, s \in Sections \cup {NoSection} :
          Reclassified(a, s) \/ \E shop \in ReportedShops : Transferred(a, shop, s)
    \/ Midnight

BillHistory ==
    \/ \E b \in Bills, step \in BillSteps :
          BillMoves(b, step[1], step[2]) \/ PayoutMoves(b, step[1], step[2])
    \/ Midnight

ShiftHistory == (\E f \in Shifts, variance \in {-1, 0} : ShiftReconciled(f, variance)) \/ Midnight

ReportNext == SaleHistory \/ BillHistory \/ ShiftHistory
ReportSpec == ReportInit /\ [][ReportNext]_reportVars
-----------------------------------------------------------------------------
(* Windows and what falls into them *)

ReportWindows == [from : Dates \cup {NoLimit}, to : Dates \cup {NoLimit}]
EverySale == [from |-> NoLimit, to |-> NoLimit]
Within(d, w) == (w.from = NoLimit \/ w.from <= d) /\ (w.to = NoLimit \/ d <= w.to)

OfShop(shop, o) == shop = AllShops \/ Ticket[o].shop = shop
Counted(o) == soldOrders[o].state \in {"serving", "completed"}
SoldIn(w, shop) == {o \in Sales : Counted(o) /\ OfShop(shop, o) /\ Within(soldOrders[o].day, w)}

\* The columns of an order that reports add up.  A part of the tax may be contained in
\* the prices; redeemed points are not among the discounts.
GrossOf == [o \in Sales |-> Ticket[o].price * Ticket[o].quantity]
DiscountOf == [o \in Sales |-> Ticket[o].discount]
PointsOf == [o \in Sales |-> Ticket[o].points]
TaxOf == [o \in Sales |-> Ticket[o].tax]
ContainedOf == [o \in Sales |-> Ticket[o].contained]
TotalOf == [o \in Sales |->
              GrossOf[o] - (DiscountOf[o] + PointsOf[o]) + (TaxOf[o] - ContainedOf[o])]
QuantityOf == [o \in Sales |-> Ticket[o].quantity]
CostOf == [o \in Sales |-> Ticket[o].cost * Ticket[o].quantity]

SumOf(f, S) == SumFunctionOnSet(f, S)
Total(f) == SumOf(f, DOMAIN f)

\* Refunds as <<order, day>>: those taken off the revenue are picked by the day of
\* the refund, those taken off the cost by the day of the order.
RefundsOffRevenue(w, shop) ==
    {r \in Sales \X Dates : Counted(r[1]) /\ OfShop(shop, r[1]) /\ returns[r[1]][r[2]] > 0
                            /\ Within(r[2], w)}
KnownCost(o) == Ticket[o].cost # UnknownCost
RefundsOffCost(w, shop) ==
    {r \in Sales \X Dates : r[1] \in SoldIn(w, shop) /\ KnownCost(r[1])
                            /\ returns[r[1]][r[2]] > 0}
UnitsBack(r) == returns[r[1]][r[2]]
PriceBack == [r \in Sales \X Dates |-> Ticket[r[1]].price * UnitsBack(r)]
CostBack == [r \in Sales \X Dates |-> Ticket[r[1]].cost * UnitsBack(r)]
-----------------------------------------------------------------------------
(* The reports *)

SalesSummary(w, shop) ==
    LET sold == SoldIn(w, shop)
        revenue == SumOf(TotalOf, sold)
        refunds == SumOf(PriceBack, RefundsOffRevenue(w, shop))
        costed == {o \in sold : KnownCost(o)}
        cost == SumOf(CostOf, costed) - SumOf(CostBack, RefundsOffCost(w, shop))
        cogs == IF cost > 0 THEN cost ELSE 0
    IN  [gross |-> SumOf(GrossOf, sold), discounts |-> SumOf(DiscountOf, sold),
         revenue |-> revenue, refunds |-> refunds, net |-> revenue - refunds,
         count |-> Cardinality(sold), cogs |-> cogs, margin |-> revenue - refunds - cogs,
         known |-> SumOf(QuantityOf, costed)]

\* A tenant's reports by product and by category join the product as it is now: what
\* was sold of one that has since moved to another tenant is in neither.
MovedAway(shop, a) == shop # AllShops /\ home[a] # shop

\* Mutant: orders that are not paid for count as well.
TopProductsOfAll(w, shop) ==
    [a \in {b \in Articles : ~MovedAway(shop, b)} |->
        SumOf(GrossOf, {o \in Sales : /\ soldOrders[o].state # "none" /\ OfShop(shop, o)
                                      /\ Within(soldOrders[o].day, w) /\ Ticket[o].article = a})]

\* Rows up to the limit, by product.
TopProducts(w, shop) ==
    [a \in {b \in Articles : ~MovedAway(shop, b)} |->
        SumOf(GrossOf, {o \in SoldIn(w, shop) : Ticket[o].article = a})]

\* The tenant's filter on the outer-joined category drops sales of products that are
\* uncategorized, or in another tenant's category, from a tenant's report as well.
Unlisted(shop, a) ==
    MovedAway(shop, a) \/ (shop # AllShops /\ (section[a] = NoSection \/ SectionShop # shop))

CategorySales(w, shop) ==
    [s \in Sections \cup (IF shop = AllShops THEN {NoSection} ELSE {}) |->
        SumOf(GrossOf, {o \in SoldIn(w, shop) : section[Ticket[o].article] = s
                                                /\ ~Unlisted(shop, Ticket[o].article)})]

TopCustomers(w, shop) ==
    [c \in {Ticket[o].buyer : o \in SoldIn(w, shop)} \ {NoBuyer} |->
        SumOf(TotalOf, {o \in SoldIn(w, shop) : Ticket[o].buyer = c})]

TaxLiability(w, shop) == SumOf(TaxOf, SoldIn(w, shop))

ShiftVariance == [f \in Shifts |-> closings[f].variance]

DailyClose(d) ==
    LET closed == {f \in Shifts : closings[f] # Unclosed /\ closings[f].closed = d}
    IN  [variance |-> SumOf(ShiftVariance, closed),
         count |-> Cardinality(closed)]

ShiftList(w) == {f \in Shifts : closings[f] # Unclosed /\ Within(closings[f].closed, w)}

BilledIn(w) == {b \in Bills : invoiceBook[b].state # "none" /\ Within(invoiceBook[b].day, w)}
PaidIn(w) == {b \in Bills : payoutBook[b].state # "none" /\ Within(payoutBook[b].day, w)}
InState(S, book, state) == {b \in S : book[b].state = state}
Billed == [b \in Bills |-> BillOf[b].amount]
PaidOut == [b \in Bills |-> BillOf[b].amount \div 2]
VarianceOf == [b \in Bills |-> BillOf[b].variance]

InvoiceSummary(w) ==
    [count |-> Cardinality(BilledIn(w)),
     approved |-> SumOf(Billed, InState(BilledIn(w), invoiceBook, "approved")),
     billed |-> SumOf(Billed, BilledIn(w)), variance |-> SumOf(VarianceOf, BilledIn(w)),
     waiting |-> Cardinality(InState(BilledIn(w), invoiceBook, "pending_review"))]

SupplierPaymentSummary(w) ==
    LET paid == SumOf(PaidOut, InState(PaidIn(w), payoutBook, "approved"))
    IN  [count |-> Cardinality(PaidIn(w)), approved |-> paid,
         outstanding |-> InvoiceSummary(w).approved - paid]

\* By supplier; the estimate of the cost of goods is the sum of the rows.
SupplierSpend(w) ==
    [v \in {BillOf[b].vendor : b \in BilledIn(w)} |->
        LET own == {b \in BilledIn(w) : BillOf[b].vendor = v}
        IN  [approved |-> SumOf(Billed, InState(own, invoiceBook, "approved")),
             count |-> Cardinality(own), variance |-> SumOf(VarianceOf, own)]]

\* By month.
VarianceTrend(w) ==
    [m \in {MonthOf[invoiceBook[b].day] : b \in BilledIn(w)} |->
        LET own == {b \in BilledIn(w) : MonthOf[invoiceBook[b].day] = m}
        IN  [billed |-> SumOf(Billed, own), variance |-> SumOf(VarianceOf, own),
             approved |-> SumOf(Billed, InState(own, invoiceBook, "approved"))]]

\* The parts of the executive summary these books have: shifts and invoices.
ExecutiveSummary ==
    [shifts |-> Cardinality(ShiftList(EverySale)),
     variance |-> SumOf(ShiftVariance, ShiftList(EverySale)),
     invoices |-> InvoiceSummary(EverySale)]

\* The panel's page (today, or everything), over all tenants whichever is selected.
PanelPage(w) ==
    [sales |-> SalesSummary(w, AllShops), products |-> TopProducts(w, AllShops),
     categories |-> CategorySales(w, AllShops), customers |-> TopCustomers(w, AllShops),
     invoices |-> InvoiceSummary(w), payments |-> SupplierPaymentSummary(w)]

\* The dashboard of one tenant.
Dashboard(w, shop) ==
    [sales |-> SalesSummary(w, shop), products |-> TopProducts(w, shop),
     customers |-> TopCustomers(w, shop), payments |-> SupplierPaymentSummary(w)]
-----------------------------------------------------------------------------
ReportTypeOK ==
    /\ soldOrders \in [Sales -> [state : {"none", "pending", "serving", "completed", "cancelled"},
                            day : Dates]]
    /\ returns \in [Sales -> [Dates -> Nat]]
    /\ \A o \in Sales : RefundedUnits(o) \in 0..Ticket[o].quantity
    /\ home \in [Articles -> ReportedShops]
    /\ section \in [Articles -> Sections \cup {NoSection}]
    /\ \A book \in {invoiceBook, payoutBook} :
          book \in [Bills -> [state : {"none", "draft", "pending_review", "approved", "rejected"},
                             day : Dates]]
    /\ closings \in [Shifts -> {Unclosed} \cup [closed : Dates, variance : Int]]
    /\ reportDay \in Dates

\* The margin takes back the cost of the very refunds that the revenue is net of.
MarginOverSameOrders(w, shop) ==
    RefundsOffCost(w, shop) = {r \in RefundsOffRevenue(w, shop) : KnownCost(r[1])}

OneDay(d) == [from |-> d, to |-> d]
DaysOf(w) == {d \in Dates : Within(d, w)}

SalesAgree(w, shop) ==
    LET summary == SalesSummary(w, shop)
        sold == SoldIn(w, shop)
        moved == SumOf(GrossOf, {o \in sold : MovedAway(shop, Ticket[o].article)})
        loose == SumOf(GrossOf, {o \in sold : Unlisted(shop, Ticket[o].article)})
        walkIns == SumOf(TotalOf, {o \in sold : Ticket[o].buyer = NoBuyer})
    IN  /\ Total(TopProducts(w, shop)) + moved = summary.gross
        /\ Total(CategorySales(w, shop)) + loose = summary.gross
        /\ Total(TopCustomers(w, shop)) + walkIns = summary.revenue
        /\ summary.revenue = summary.gross - (summary.discounts + SumOf(PointsOf, SoldIn(w, shop)))
                              + (TaxLiability(w, shop) - SumOf(ContainedOf, SoldIn(w, shop)))

BillsAgree(w) ==
    LET invoices == InvoiceSummary(w)
        spend == SupplierSpend(w)
        trend == VarianceTrend(w)
    IN  /\ Total([v \in DOMAIN spend |-> spend[v].approved]) = invoices.approved
        /\ Total([m \in DOMAIN trend |-> trend[m].approved]) = invoices.approved
        /\ Total([m \in DOMAIN trend |-> trend[m].billed]) = invoices.billed
        /\ Total([d \in DaysOf(w) |-> DailyClose(d).count]) = Cardinality(ShiftList(w))

EverythingAgrees ==
    LET whole == SalesSummary(EverySale, AllShops)
    IN  /\ \A shop \in ReportedShops \cup {AllShops} : MarginOverSameOrders(EverySale, shop)
        /\ \A column \in {"net", "cogs", "margin"} :
              whole[column] = Total([d \in Dates |-> SalesSummary(OneDay(d), AllShops)[column]])
        /\ PanelPage(EverySale).sales.net
           = Total([shop \in ReportedShops |-> Dashboard(EverySale, shop).sales.net])
        /\ ExecutiveSummary.variance = Total([d \in Dates |-> DailyClose(d).variance])

\* The reports agree with each other over every window: the products' and the
\* categories' sales, with what was sold of products that are another tenant's by now
\* (and, for the categories, of products in none of the tenant's), add up to the gross
\* revenue, the customers' and the walk-ins' to the revenue, the days' figures to the
\* window's, all shops' to the panel's, suppliers' and months' to the invoices', and the
\* daily closes to the list of shifts.  Taxes and discounts may be negative, as the
\* panel lets them.  The margin, though, is over the same orders as the revenue only
\* when the window is unbounded, whatever the comment on it in the code says of every
\* window: a refund counts against the revenue on its own day, against the cost on the
\* day of the order.
ReportsAgree ==
    /\ EverythingAgrees
    /\ \A w \in ReportWindows :
          BillsAgree(w) /\ \A shop \in ReportedShops \cup {AllShops} : SalesAgree(w, shop)

\* They agree on any history, the empty one aside (there TLC need not look).
ReportsAgreeOnHistory == ~ReportInit => ReportsAgree
=============================================================================
