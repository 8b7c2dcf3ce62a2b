SPECIFICATION LoopsSpec
CONSTANTS
    o1 = o1  o2 = o2  k1 = k1  p1 = p1  p2 = p2
    Loop = Loop  None = None
    Orders = {o1, o2}
    Payments = {k1}
    Refunds = {}
    Products = {p1, p2}
    Customers = {}
    Promotions = {}
    Requests = {r1}
    Basket <- MCBasket
    Tender <- MCTender
    Return <- MCReturn
    ProductId <- MCProductId
    UsageLimit <- MCUsageLimit
    Initial <- MCInitial
    g1 = g1  g2 = g2  s1 = s1  s2 = s2
    Nobody = Nobody
    DraftIds = {1, 2}
    Goods = {g1, g2}
    Suppliers = {s1, s2}
    Workers = {u1, u2}
    Panels = {}
    Batches = {}
    Leaving = {s2}
    Switch = {"on"}
    Trigger = 1
    MaxSales = 1
    MaxCrashes = 1
CHECK_DEADLOCK FALSE
PROPERTY LoopKeepsReservationsFresh
