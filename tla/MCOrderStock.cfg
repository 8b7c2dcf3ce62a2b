SPECIFICATION Spec
CONSTANTS
    o1 = o1  o2 = o2  o3 = o3  k1 = k1  k2 = k2  f1 = f1  p1 = p1  p2 = p2
    Loop = Loop  None = None
    Orders = {o1, o2}
    Payments = {k1, k2}
    Refunds = {f1}
    Products = {p1, p2}
    Customers = {}
    Promotions = {}
    Requests = {r1, r2}
    Basket <- MCBasket
    Tender <- MCTender
    Return <- MCReturn
    ProductId <- MCProductId
    UsageLimit <- MCUsageLimit
    Initial <- MCInitial
SYMMETRY MCSymmetry
INVARIANTS BooksInv StockMatchesMovements NeverOversold SettledInFull ChargedOnce CartsNeverDeadlock
PROPERTIES PaidOnlyWhileReserved PaidNeverSwept SerializableSales
