SPECIFICATION MCSpec
CONSTANTS
    p1 = p1  p2 = p2  None = None  w1 = w1
    Ids = {1}
    Products = {p1, p2}
    Users = {clerk, boss, admin}
    Approvers = {boss}
    Superusers = {admin}
    Requests = {r1, r2}
    Wizards = {w1}
    Lines <- MCLines
    Shipments <- MCShipments
    Initial <- MCInitial
    MaxSold = 1  MaxReceived = 2  MaxBusy = 2
    i1 = i1  i2 = i2  k1 = k1  k2 = k2  clerk = clerk  boss = boss  Nil = Nil
    Invoices = {i1, i2}
    Payouts = {k1, k2}
    Accounts = {clerk, boss, admin}
    Deciders = {boss}
    Directors = {admin}
    Clients = {r1, r2}
    Bill <- MCBill
    Transfer <- MCTransfer
    Ordered <- MCOrdered
    Orderer <- MCOrderer
    Parts = {"money"}
SYMMETRY MCSymmetry
INVARIANTS FourEyes
CHECK_DEADLOCK FALSE
