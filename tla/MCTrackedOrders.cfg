SPECIFICATION Spec
SYMMETRY MCSymmetry
CONSTANTS
    q1 = q1
    q2 = q2
    g1 = g1
    g2 = g2
    s1 = s1
    s2 = s2
    Nobody = Nobody
    DraftIds = {1, 2}
    Goods = {g1, g2}
    Suppliers = {s1, s2}
    Workers = {u1, u2}
    Panels = {a1}
    Batches = {b1}
    Rule <- MCRule
    Shelf <- MCShelf
    Past <- MCPast
    Leaving = {s2}
    Switch = {"on"}
    Trigger = 1
    MaxSales = 1
    MaxCrashes = 1
    Drawers = {1, 2}
    Cashiers = {c1}
    Superusers = {c1}
    Tills = {t1, t2}
    Desks = {t2}
    Tabs = {o1}
    Price = 3
    Coins = {2}
    Float = 1
    NoDrawer = NoDrawer
    NoTab = NoTab
    NoCashier = NoCashier
    Events = {"o1", "p1", "l1", "r1"}
    Malformed = {"r1"}
    Kind <- MCKind
    Replays <- MCReplays
    Deliveries = {q1, q2}
    MaxSends = 4
    MaxShifts = 2
    Items = {1, 2}
    Editors = {e1}
    MaxTime = 6
    b1 = b1
    w1 = w1
    p1 = p1
    m1 = m1
    m2 = m2
    m3 = m3
    Parts = {"kitchen"}
    Orders = {o1}
    Addressed = {o1}
    Staff = {p1, p2}
    Processes = {w1, w2}
    Boards = {b1}
    ServedBy <- MCServedBy
    Capacity = 1
    NoOrder = NoOrder
    MaxComing = 2
    MaxFetches = 2
    Products = {g1}
    Categories = {k1}
    Tenants = {1, 2}
    Clerks = {q1, q2}
    Files = {f1, f2}
    Adjustments <- MCAdjustments
    NoProduct = NoProduct
    NoCategory = NoCategory
    NoFile = NoFile
    MaxStock = 1
    Members = {m1, m2, m3}
    Email <- MCEmail
    Shops = {1, 2}
    Roles = {"cashier", "admin"}
    Defaults <- MCDefaults
    Powers = {"sell", "staff", "roles"}
    Calls = {q1, q2}
    Windows = {w1}
    MaxAttempts = 1
    NoShop = NoShop
    NoMember = NoMember
    MaxTokens = 3
    Wares = {"w1", "w2"}
    WareCategory <- MCWareCategory
    WarePrice <- MCWarePrice
    Promos = {"k1"}
    TaxRules = {"x1"}
    Checkouts = {"c1"}
    PromoKinds <- MCPromoKinds
    PanelKinds <- MCPanelKinds
    TaxKinds <- MCTaxKinds
    PanelTaxKinds <- MCPanelTaxKinds
    Tenders = {500}
    MaxPoints = 1
    MaxQuantity = 2
    MaxDay = 1
    Sales = {"s1", "s2"}
    Ticket <- MCTicket
    Articles = {"a1", "a2"}
    MadeBy <- MCMadeBy
    Sections = {"food"}
    SectionShop = 1
    Bills = {"i1", "i2"}
    BillOf <- MCBillOf
    Shifts = {"f1", "f2"}
    Today = 2
    MonthOf <- MCMonthOf
    Tickets = {"k1"}
    Ways <- MCWays
    Totals <- MCTotals
    Posts = {q1, q2}
    NoTicket = NoTicket
    MaxFaults = 2
INVARIANT TrackedOrdersArePaid
CHECK_DEADLOCK FALSE
