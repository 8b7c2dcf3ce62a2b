SPECIFICATION Spec
CONSTANTS
    o1 = o1  o2 = o2  o3 = o3  k1 = k1  k2 = k2  f1 = f1  f2 = f2  p = p  c = c  d = d
    Loop = Loop  None = None
    Orders = {o1}
    Payments = {k1}
    Refunds = {f1}
    Products = {p}
    Customers = {c}
    Promotions = {d}
    Requests = {r1}
    Basket <- MCBasket
    Tender <- MCTender
    Return <- MCReturn
    ProductId <- MCProductId
    UsageLimit <- MCUsageLimit
    Initial <- MCInitial
INVARIANT StockNeverAppears
