----------------------- MODULE OrderLifecycleProofs -----------------------
(***************************************************************************)
(* Proofs about OrderLifecycle for any set of orders, products, customers, *)
(* payments, refunds and sessions.  IInv is shown to be inductive one      *)
(* conjunct at a time; the theorems at the end follow from it.             *)
(***************************************************************************)
EXTENDS OrderLifecycle, TLAPS

-----------------------------------------------------------------------------
(* Constants *)

\* The fields of a basket, a tender and a return have the types create_order,
\* the payment and the refund endpoints validate them to.
LEMMA BasketFields ==
    ASSUME NEW o \in Orders
    PROVE  /\ Basket[o].items \in [Products -> Nat]
           /\ Basket[o].redeem \in Nat
           /\ Basket[o].total \in Nat
  BY BasketAssumption

LEMMA TenderFields ==
    ASSUME NEW k \in Payments
    PROVE  /\ Tender[k].order \in Orders
           /\ Tender[k].amount \in Nat
           /\ Tender[k].keyed \in BOOLEAN
  BY TenderAssumption

LEMMA ReturnFields ==
    ASSUME NEW k \in Refunds
    PROVE  /\ Return[k].order \in Orders
           /\ Return[k].items \in [Products -> Nat]
           /\ Return[k].amount \in Nat
  BY ReturnAssumption

\* Everything a session may name as its current order, or nothing.
LEMMA IdleType == Idle \in SessionState
  BY DEF Idle, SessionState, Operations, Stages

-----------------------------------------------------------------------------
(* Helpers *)

LEMMA EndSessionType ==
    ASSUME TypeOK, NEW r \in Sessions, EndSession(r)
    PROVE  /\ session' \in [Sessions -> SessionState]
           /\ holder' \in [Lockable -> Sessions \cup {None}]
  BY IdleType DEF TypeOK, EndSession

LEMMA TouchedType ==
    ASSUME TypeOK, NEW r \in Sessions, NEW X \in SUBSET Rows,
           NEW d, \A x \in X : d[x] \in Int
    PROVE  Touched(r, X, d) \in SessionState
  <1>1. session[r] \in SessionState
    BY DEF TypeOK
  <1>2. session[r].loaded \cup X \in SUBSET Rows
    BY <1>1 DEF SessionState
  <1>3. [x \in Rows |-> IF x \in X \ session[r].loaded THEN value[x]
                                                       ELSE session[r].seen[x]] \in [Rows -> Int]
    BY <1>1 DEF SessionState, TypeOK
  <1>4. [x \in Rows |-> IF x \in X THEN session[r].delta[x] + d[x]
                                   ELSE session[r].delta[x]] \in [Rows -> Int]
    BY <1>1 DEF SessionState
  <1> QED
    BY <1>1, <1>2, <1>3, <1>4 DEF Touched, SessionState

LEMMA FlushType ==
    ASSUME TypeOK, NEW r \in Sessions, Flush(r)
    PROVE  value' \in [Rows -> Int] /\ ledger' \in [Rows -> Int]
  <1>1. session[r] \in SessionState
    BY DEF TypeOK
  <1>2. session[r].seen \in [Rows -> Int] /\ session[r].delta \in [Rows -> Int]
    BY <1>1 DEF SessionState
  <1> QED
    BY <1>2 DEF TypeOK, Flush

LEMMA LocalType ==
    ASSUME TypeOK, NEW r \in Sessions, NEW x \in Rows
    PROVE  Local(r, x) \in Int
  <1>1. session[r] \in SessionState
    BY DEF TypeOK
  <1>2. session[r].seen[x] \in Int /\ session[r].delta[x] \in Int /\ value[x] \in Int
    BY <1>1 DEF SessionState, TypeOK
  <1> QED
    BY <1>2 DEF Local

LEMMA SettlementType ==
    ASSUME NEW o \in Orders, NEW t \in Nat
    PROVE  Settlement(o, t) \in [paid : Int, change : Int, remaining : Int]
  BY BasketFields DEF Settlement, Lesser

LEMMA ShareType ==
    ASSUME SessionsWellFormed, NEW r \in Sessions, NEW x \in Rows,
           session[r].stage = "locking"
    PROVE  Share(r, x) \in Int
  <1>1. CASE session[r].op = "refund"
    BY <1>1, BasketFields, ReturnFields DEF Share, SessionsWellFormed, WellFormed, Rows
  <1>2. CASE session[r].op # "refund"
    BY <1>2, BasketFields DEF Share, SessionsWellFormed, WellFormed, Rows
  <1> QED
    BY <1>1, <1>2

\* The orders a session works on are orders, its rows rows.
LEMMA SessionFields ==
    ASSUME TypeOK, NEW r \in Sessions
    PROVE  /\ session[r].op \in Operations /\ session[r].stage \in Stages
           /\ session[r].cur \in Orders \cup {None}
           /\ session[r].queue \in SUBSET Orders /\ session[r].done \in SUBSET Orders
           /\ session[r].todo \in SUBSET Rows /\ session[r].loaded \in SUBSET Rows
           /\ session[r].seen \in [Rows -> Int] /\ session[r].delta \in [Rows -> Int]
  BY DEF TypeOK, SessionState

LEMMA ItemsType ==
    ASSUME NEW o \in Orders
    PROVE  ItemsOf(o) \in SUBSET Rows /\ CustomerOf(o) \in SUBSET Rows
           /\ PromotionOf(o) \in SUBSET Rows
  BY DEF ItemsOf, CustomerOf, PromotionOf, Rows

\* Touching rows leaves what the session is doing alone.
LEMMA TouchedControl ==
    ASSUME TypeOK, NEW r \in Sessions, NEW X, NEW d
    PROVE  /\ Touched(r, X, d).op = session[r].op
           /\ Touched(r, X, d).stage = session[r].stage
           /\ Touched(r, X, d).cur = session[r].cur
           /\ Touched(r, X, d).arg = session[r].arg
           /\ Touched(r, X, d).queue = session[r].queue
           /\ Touched(r, X, d).done = session[r].done
           /\ Touched(r, X, d).todo = session[r].todo
  <1>1. session[r] \in SessionState
    BY DEF TypeOK
  <1> QED
    BY <1>1 DEF Touched, SessionState

LEMMA TouchedRows ==
    ASSUME TypeOK, NEW r \in Sessions, NEW X, NEW d
    PROVE  /\ Touched(r, X, d).loaded = session[r].loaded \cup X
           /\ Touched(r, X, d).seen =
                [x \in Rows |-> IF x \in X \ session[r].loaded THEN value[x]
                                                               ELSE session[r].seen[x]]
           /\ Touched(r, X, d).delta =
                [x \in Rows |-> IF x \in X THEN session[r].delta[x] + d[x]
                                          ELSE session[r].delta[x]]
  <1>1. session[r] \in SessionState
    BY DEF TypeOK
  <1> QED
    BY <1>1 DEF Touched, SessionState

-----------------------------------------------------------------------------
(* The session records the row-loading steps build *)

LEMMA LockRowTouches ==
    ASSUME TypeOK, SessionsWellFormed, NEW r \in Sessions, session[r].stage = "locking",
           NEW x \in NextRows(r)
    PROVE  /\ x \in Rows
           /\ Share(r, x) \in Int
           /\ Touched(r, {x}, [y \in {x} |-> Share(r, x)]) \in SessionState
  <1>1. x \in Rows
    BY SessionFields DEF NextRows
  <1> QED
    BY <1>1, TouchedType, ShareType

Earners(r) ==
    IF Completes(session[r].arg) /\ earned[session[r].cur] = 0
    THEN CustomerOf(session[r].cur) ELSE {}

LEMMA PaymentTouches ==
    ASSUME TypeOK, SessionsWellFormed, NEW r \in Sessions, session[r].op = "pay"
    PROVE  /\ session[r].cur \in Orders
           /\ Earners(r) \in SUBSET Customers
           /\ Touched(r, Earners(r), [x \in Rows |-> Basket[session[r].cur].total])
                \in SessionState
  <1> DEFINE d == [x \in Rows |-> Basket[session[r].cur].total]
  <1>1. session[r].cur \in Orders
    BY TenderFields DEF SessionsWellFormed, WellFormed
  <1>2. Earners(r) \in SUBSET Customers /\ Earners(r) \in SUBSET Rows
    BY <1>1 DEF Earners, CustomerOf, Rows
  <1>3. \A x \in Earners(r) : d[x] \in Int
    BY <1>1, <1>2, BasketFields
  <1> QED
    BY <1>1, <1>2, <1>3, TouchedType

LEMMA RefundTouches ==
    ASSUME TypeOK, SessionsWellFormed, NEW r \in Sessions, session[r].op = "refund"
    PROVE  /\ session[r].cur \in Orders
           /\ Touched(r, CustomerOf(session[r].cur),
                      [c \in CustomerOf(session[r].cur) |-> -Reversal(r, c)]) \in SessionState
  <1> DEFINE X == CustomerOf(session[r].cur)
             d == [c \in X |-> -Reversal(r, c)]
  <1>1. session[r].cur \in Orders /\ Return[session[r].arg].amount \in Int
    BY ReturnFields DEF SessionsWellFormed, WellFormed
  <1>2. X \in SUBSET Rows
    BY <1>1, ItemsType
  <1>3. \A x \in X : d[x] \in Int
    <2>1. \A x \in X : Local(r, x) \in Int
      BY <1>2, LocalType
    <2> QED
      BY <1>1, <2>1 DEF Reversal, Lesser
  <1> QED
    BY <1>1, <1>2, <1>3, TouchedType

Reverts(r) == CustomerOf(session[r].cur) \cup PromotionOf(session[r].cur)

LEMMA RevertTouches ==
    ASSUME TypeOK, SessionsWellFormed, NEW r \in Sessions, session[r].stage = "locking"
    PROVE  /\ session[r].cur \in Orders
           /\ Touched(r, Reverts(r), [x \in Reverts(r) |-> Reverted(r, x)]) \in SessionState
  <1> DEFINE X == Reverts(r)
             d == [x \in X |-> Reverted(r, x)]
  <1>1. session[r].cur \in Orders
    BY DEF SessionsWellFormed, WellFormed
  <1>2. X \in SUBSET Rows
    BY <1>1, ItemsType DEF Reverts
  <1>3. \A x \in X : d[x] \in Int
    <2>1. earned[session[r].cur] \in Int /\ Basket[session[r].cur].redeem \in Int
      BY <1>1, BasketFields DEF TypeOK
    <2> QED
      BY <2>1 DEF Reverted
  <1> QED
    BY <1>1, <1>2, <1>3, TouchedType

\* What RevertEffects leaves the session with before the next order, if any.
AfterRevert(r) ==
    [Touched(r, Reverts(r), [x \in Reverts(r) |-> Reverted(r, x)])
        EXCEPT !.done = @ \cup {session[r].cur}]

LEMMA RevertEffectsSession ==
    ASSUME TypeOK, SessionsWellFormed, NEW r \in Sessions, RevertEffects(r)
    PROVE  /\ AfterRevert(r) \in SessionState
           /\ \/ /\ session[r].queue = {}
                 /\ session' = [session EXCEPT ![r] = [AfterRevert(r) EXCEPT !.stage = "ready"]]
              \/ \E q \in session[r].queue :
                    session' = [session EXCEPT ![r] =
                        [AfterRevert(r) EXCEPT !.cur = q, !.queue = @ \ {q}, !.todo = ItemsOf(q)]]
  <1>1. AfterRevert(r) \in SessionState
    BY RevertTouches DEF RevertEffects, AfterRevert, SessionState
  <1> QED
    BY <1>1 DEF RevertEffects, AfterRevert, Reverts

LEMMA LockExpiredSession ==
    ASSUME TypeOK, NEW r \in Sessions, LockExpired(r)
    PROVE  \E o \in session[r].queue :
             /\ RowFree(r, o)
             /\ holder' = [x \in Lockable |-> IF x \in {o} \cap Expired THEN r ELSE holder[x]]
             /\ session' = [session EXCEPT ![r] =
                    [session[r] EXCEPT !.queue = @ \ {o}, !.done = @ \cup ({o} \cap Expired)]]
  <1>1. session[r] \in SessionState
    BY DEF TypeOK
  <1>2. PICK o \in session[r].queue :
          /\ RowFree(r, o)
          /\ holder' = [x \in Lockable |-> IF x \in {o} \cap Expired THEN r ELSE holder[x]]
          /\ session' = [session EXCEPT ![r].queue = @ \ {o},
                                        ![r].done = @ \cup ({o} \cap Expired)]
    BY DEF OrderFree, LockExpired
  <1>3. session' = [session EXCEPT ![r] =
            [session[r] EXCEPT !.queue = @ \ {o}, !.done = @ \cup ({o} \cap Expired)]]
    BY <1>1, <1>2 DEF SessionState
  <1> QED
    BY <1>2, <1>3

LEMMA SkipPaidSession ==
    ASSUME TypeOK, NEW r \in Sessions, SkipPaid(r)
    PROVE  LET release == Unpaid(session[r].done)
           IN  \/ /\ release = {}
                  /\ session' = [session EXCEPT ![r] =
                        [session[r] EXCEPT !.stage = "ready", !.done = {}]]
               \/ \E o \in release :
                    session' = [session EXCEPT ![r] =
                        [session[r] EXCEPT !.stage = "locking", !.done = {}, !.cur = o,
                                           !.queue = release \ {o}, !.todo = ItemsOf(o)]]
  <1> DEFINE release == Unpaid(session[r].done)
  <1>1. session[r] \in SessionState
    BY DEF TypeOK
  <1>2. CASE release = {}
    BY <1>1, <1>2 DEF SkipPaid, SessionState, TypeOK
  <1>3. CASE release # {}
    <2>1. PICK o \in release :
            session' = [session EXCEPT ![r].stage = "locking", ![r].done = {},
                ![r].cur = o, ![r].queue = release \ {o}, ![r].todo = ItemsOf(o)]
      BY <1>3 DEF SkipPaid
    <2> HIDE DEF release
    <2>2. session' = [session EXCEPT ![r] =
                [session[r] EXCEPT !.stage = "locking", !.done = {}, !.cur = o,
                                   !.queue = release \ {o}, !.todo = ItemsOf(o)]]
      BY <1>1, <2>1 DEF SessionState, TypeOK
    <2> QED
      BY <2>2 DEF release
  <1> QED
    BY <1>2, <1>3

-----------------------------------------------------------------------------
(* Type correctness *)

LEMMA InitTypeOK == Init => TypeOK
  <1>1. Idle \in SessionState
    BY IdleType
  <1> QED
    BY <1>1, RowAssumption DEF Init, TypeOK, OrderState, Statuses, Reservations,
                               ServingStatuses, NoBill, Rows

LEMMA LockRowType ==
    ASSUME TypeOK, SessionsWellFormed, NEW r \in Sessions, LockRow(r)
    PROVE  TypeOK'
  <1>1. PICK x \in NextRows(r) :
            /\ holder' = [holder EXCEPT ![x] = r]
            /\ session' = [session EXCEPT ![r] =
                 [Touched(r, {x}, [y \in {x} |-> Share(r, x)]) EXCEPT !.todo = @ \ {x}]]
    BY DEF LockRow
  <1>2. Touched(r, {x}, [y \in {x} |-> Share(r, x)]) \in SessionState
    BY LockRowTouches DEF LockRow
  <1>3. [Touched(r, {x}, [y \in {x} |-> Share(r, x)]) EXCEPT !.todo = @ \ {x}] \in SessionState
    BY <1>2 DEF SessionState
  <1> QED
    BY <1>1, <1>3 DEF TypeOK, LockRow, sales

LEMMA ReleaseTypes ==
    ASSUME TypeOK, NEW r \in Sessions,
           \/ RefuseOrder(r) \/ DuplicateKey(r) \/ Abort(r) \/ CheckDrawer(r)
           \/ LockExpired(r) \/ SkipPaid(r)
    PROVE  TypeOK'
  <1>1. CASE RefuseOrder(r)
    BY <1>1, EndSessionType DEF RefuseOrder, TypeOK, sales
  <1>2. CASE DuplicateKey(r)
    BY <1>2, EndSessionType DEF DuplicateKey, TypeOK, sales
  <1>3. CASE Abort(r)
    BY <1>3, EndSessionType DEF Abort, TypeOK, sales
  <1>4. CASE CheckDrawer(r)
    <2>1. [session[r] EXCEPT !.stage = "ready"] \in SessionState
      BY DEF TypeOK, SessionState, Stages
    <2>2. CASE drawerOpen
      BY <1>4, <2>1, <2>2 DEF CheckDrawer, TypeOK, sales
    <2>3. CASE ~drawerOpen
      BY <1>4, <2>3, EndSessionType DEF CheckDrawer, TypeOK, sales
    <2> QED
      BY <2>2, <2>3
  <1>5. CASE LockExpired(r)
    <2>1. PICK o \in session[r].queue :
            /\ holder' = [x \in Lockable |-> IF x \in {o} \cap Expired THEN r ELSE holder[x]]
            /\ session' = [session EXCEPT ![r].queue = @ \ {o},
                                          ![r].done = @ \cup ({o} \cap Expired)]
      BY <1>5 DEF LockExpired
    <2>2. [session[r] EXCEPT !.queue = @ \ {o}, !.done = @ \cup ({o} \cap Expired)] \in SessionState
      <3>1. session[r].queue \ {o} \in SUBSET Orders
        BY SessionFields
      <3>2. session[r].done \cup ({o} \cap Expired) \in SUBSET Orders
        BY SessionFields DEF Expired
      <3> QED
        BY <3>1, <3>2 DEF TypeOK, SessionState
    <2>3. session' \in [Sessions -> SessionState]
      BY <2>1, <2>2 DEF TypeOK
    <2>4. holder' \in [Lockable -> Sessions \cup {None}]
      BY <2>1 DEF TypeOK
    <2> QED
      BY <1>5, <2>3, <2>4 DEF LockExpired, TypeOK, sales
  <1>6. CASE SkipPaid(r)
    <2> DEFINE release == Unpaid(session[r].done)
    <2>1. session[r] \in SessionState /\ release \in SUBSET Orders
      BY SessionFields DEF TypeOK, Unpaid
    <2> HIDE DEF release
    <2>2. [session[r] EXCEPT !.stage = "ready", !.done = {}] \in SessionState
      BY <2>1 DEF SessionState, Stages
    <2>3. \A o \in release :
            [session[r] EXCEPT !.stage = "locking", !.done = {}, !.cur = o,
                    !.queue = release \ {o}, !.todo = ItemsOf(o)] \in SessionState
      <3> TAKE o \in release
      <3>1. o \in Orders /\ ItemsOf(o) \in SUBSET Rows
        BY <2>1, ItemsType
      <3> QED
        BY <2>1, <3>1 DEF SessionState, Stages
    <2>4. \/ session' = [session EXCEPT ![r] =
                 [session[r] EXCEPT !.stage = "ready", !.done = {}]]
          \/ \E o \in release : session' = [session EXCEPT ![r] =
                 [session[r] EXCEPT !.stage = "locking", !.done = {}, !.cur = o,
                                    !.queue = release \ {o}, !.todo = ItemsOf(o)]]
      BY <1>6, SkipPaidSession DEF release
    <2>5. \E s \in SessionState : session' = [session EXCEPT ![r] = s]
      BY <2>2, <2>3, <2>4
    <2>6. session' \in [Sessions -> SessionState]
      BY <2>5 DEF TypeOK
    <2> QED
      BY <1>6, <2>6 DEF SkipPaid, TypeOK, sales
  <1> QED
    BY <1>1, <1>2, <1>3, <1>4, <1>5, <1>6

LEMMA RevertEffectsType ==
    ASSUME TypeOK, SessionsWellFormed, NEW r \in Sessions, RevertEffects(r)
    PROVE  TypeOK'
  <1>1. AfterRevert(r) \in SessionState
    BY RevertEffectsSession
  <1>2. [AfterRevert(r) EXCEPT !.stage = "ready"] \in SessionState
    BY <1>1 DEF SessionState, Stages
  <1>3. \A q \in session[r].queue :
          [AfterRevert(r) EXCEPT !.cur = q, !.queue = @ \ {q}, !.todo = ItemsOf(q)] \in SessionState
    <2> TAKE q \in session[r].queue
    <2>1. q \in Orders /\ ItemsOf(q) \in SUBSET Rows
      BY SessionFields, ItemsType
    <2> QED
      BY <1>1, <2>1 DEF SessionState
  <1>4. \E s \in SessionState : session' = [session EXCEPT ![r] = s]
    BY <1>2, <1>3, RevertEffectsSession
  <1>5. session' \in [Sessions -> SessionState]
    BY <1>4 DEF TypeOK
  <1> QED
    BY <1>5 DEF RevertEffects, TypeOK, sales

LEMMA LockForPaymentType ==
    ASSUME TypeOK, SessionsWellFormed, NEW r \in Sessions, LockForPayment(r)
    PROVE  TypeOK'
  <1> DEFINE t == Touched(r, Earners(r), [x \in Rows |-> Basket[session[r].cur].total])
  <1>1. t \in SessionState
    BY PaymentTouches DEF LockForPayment
  <1>2. CASE PaymentAllowed(session[r].arg)
    <2>1. /\ session' = [session EXCEPT ![r] = [t EXCEPT !.stage = "ready"]]
          /\ holder' = [holder EXCEPT ![session[r].cur] = r]
      BY <1>2 DEF LockForPayment, Earners
    <2> HIDE DEF t
    <2>2. [t EXCEPT !.stage = "ready"] \in SessionState
      BY <1>1 DEF SessionState, Stages
    <2> QED
      BY <2>1, <2>2 DEF LockForPayment, TypeOK, sales
  <1>3. CASE ~PaymentAllowed(session[r].arg)
    BY <1>3, EndSessionType DEF LockForPayment, TypeOK, sales
  <1> QED
    BY <1>2, <1>3

LEMMA RefundPointsType ==
    ASSUME TypeOK, SessionsWellFormed, NEW r \in Sessions, RefundPoints(r)
    PROVE  TypeOK'
  <1> DEFINE t == Touched(r, CustomerOf(session[r].cur),
                          [c \in CustomerOf(session[r].cur) |-> -Reversal(r, c)])
  <1>1. t \in SessionState
    BY RefundTouches DEF RefundPoints
  <1>2. session' = [session EXCEPT ![r] = [t EXCEPT !.stage = "ready"]]
    BY DEF RefundPoints
  <1> HIDE DEF t
  <1>3. [t EXCEPT !.stage = "ready"] \in SessionState
    BY <1>1 DEF SessionState, Stages
  <1> QED
    BY <1>2, <1>3 DEF RefundPoints, TypeOK, sales

LEMMA CommitTypes ==
    ASSUME TypeOK, SessionsWellFormed, NEW r \in Sessions,
           \/ CommitOrder(r) \/ CommitPayment(r) \/ CommitRefund(r) \/ CommitRelease(r)
    PROVE  TypeOK'
  <1> DEFINE o == session[r].cur
             k == session[r].arg
  <1>1. CASE CommitOrder(r)
    <2>1. o \in Orders
      BY <1>1 DEF CommitOrder, SessionsWellFormed, WellFormed
    <2>2. [status |-> "pending", reservation |-> "reserved", lapsed |-> FALSE,
           serving |-> "none",
           bill |-> [paid |-> 0, change |-> 0, remaining |-> Basket[o].total]] \in OrderState
      BY <2>1, BasketFields DEF OrderState, Statuses, Reservations, ServingStatuses
    <2>3. order' \in [Orders -> OrderState]
      BY <1>1, <2>2 DEF CommitOrder, TypeOK
    <2> QED
      BY <1>1, <2>3, EndSessionType, FlushType DEF CommitOrder, TypeOK
  <1>2. CASE CommitPayment(r)
    <2>1. k \in Payments /\ o \in Orders
      BY <1>2, TenderFields DEF CommitPayment, SessionsWellFormed, WellFormed
    <2> DEFINE t == tendered[o] + Tender[k].amount
    <2>2. t \in Nat
      BY <2>1, TenderFields DEF TypeOK
    <2>3. order[o] \in OrderState
      BY <2>1 DEF TypeOK
    <2>4. Settlement(o, t) \in [paid : Int, change : Int, remaining : Int]
      BY <2>1, <2>2, SettlementType
    <2>5. Settled(o, t) \in OrderState
      <3> HIDE DEF t
      <3> QED
        BY <2>3, <2>4 DEF Settled, OrderState, Statuses, Reservations, ServingStatuses
    <2>6. order' \in [Orders -> OrderState]
      BY <1>2, <2>5 DEF CommitPayment, TypeOK
    <2>7. charged' \in [Payments -> Nat] /\ tendered' \in [Orders -> Nat]
      BY <1>2, <2>1, <2>2 DEF CommitPayment, TypeOK
    <2>8. earned' \in [Orders -> Nat]
      BY <1>2, <2>1, BasketFields DEF CommitPayment, TypeOK
    <2> QED
      BY <1>2, <2>6, <2>7, <2>8, EndSessionType, FlushType DEF CommitPayment, TypeOK
  <1>3. CASE CommitRefund(r)
    <2>1. k \in Refunds /\ o \in Orders
      BY <1>3, ReturnFields DEF CommitRefund, SessionsWellFormed, WellFormed
    <2>2. [p \in Products |-> refunded[o][p] + Return[k].items[p]] \in [Products -> Nat]
      BY <2>1, ReturnFields DEF TypeOK
    <2>3. refunded' \in [Orders -> [Products -> Nat]]
      BY <1>3, <2>2 DEF CommitRefund, TypeOK
    <2>4. refundsDone' \subseteq Refunds
      BY <1>3, <2>1 DEF CommitRefund, TypeOK
    <2> QED
      BY <1>3, <2>3, <2>4, EndSessionType, FlushType DEF CommitRefund, TypeOK
  <1>4. CASE CommitRelease(r)
    <2>1. \A q \in Orders : order[q] \in OrderState
      BY DEF TypeOK
    <2>2. \A q \in Orders : Cancelled(q) \in OrderState
      <3> TAKE q \in Orders
      <3>1. order[q] \in OrderState
        BY <2>1
      <3>2. NoBill \in [paid : Int, change : Int, remaining : Int]
        BY DEF NoBill
      <3> QED
        BY <3>1, <3>2 DEF Cancelled, OrderState, Statuses, Reservations
    <2>3. order' \in [Orders -> OrderState]
      BY <1>4, <2>1, <2>2 DEF CommitRelease
    <2> QED
      BY <1>4, <2>3, EndSessionType, FlushType DEF CommitRelease, TypeOK
  <1> QED
    BY <1>1, <1>2, <1>3, <1>4

LEMMA ArriveType ==
    ASSUME TypeOK, NEW r \in Sessions, Arrive(r) \/ StartSweep(r)
    PROVE  TypeOK'
  <1>1. CASE \E o \in Orders : StartOrder(r, o)
    <2>1. PICK o \in Orders : StartOrder(r, o)
      BY <1>1
    <2>2. ItemsOf(o) \cup CustomerOf(o) \cup PromotionOf(o) \in SUBSET Rows
      BY ItemsType
    <2>3. [Idle EXCEPT !.op = "create", !.cur = o, !.stage = "locking",
                !.todo = ItemsOf(o) \cup CustomerOf(o) \cup PromotionOf(o)] \in SessionState
      BY <2>2, IdleType DEF SessionState, Operations, Stages
    <2> QED
      BY <2>1, <2>3 DEF StartOrder, TypeOK, sales
  <1>2. CASE \E o \in Orders : StartCancel(r, o)
    <2>1. PICK o \in Orders : StartCancel(r, o)
      BY <1>2
    <2>2. [Idle EXCEPT !.op = "cancel", !.cur = o, !.stage = "locking",
                !.todo = ItemsOf(o)] \in SessionState
      BY ItemsType, IdleType DEF SessionState, Operations, Stages
    <2> QED
      BY <2>1, <2>2 DEF StartCancel, TypeOK, sales
  <1>3. CASE \E k \in Payments : StartPayment(r, k)
    <2>1. PICK k \in Payments : StartPayment(r, k)
      BY <1>3
    <2>2. [Idle EXCEPT !.op = "pay", !.cur = Tender[k].order, !.arg = k,
                !.stage = "started"] \in SessionState
      BY TenderFields, IdleType DEF SessionState, Operations, Stages
    <2> QED
      BY <2>1, <2>2 DEF StartPayment, TypeOK, sales
  <1>4. CASE \E k \in Refunds : StartRefund(r, k)
    <2>1. PICK k \in Refunds : StartRefund(r, k)
      BY <1>4
    <2>2. {p \in Products : Return[k].items[p] > 0} \in SUBSET Rows
      BY DEF Rows
    <2>3. [Idle EXCEPT !.op = "refund", !.cur = Return[k].order, !.arg = k,
                !.stage = "locking",
                !.todo = {p \in Products : Return[k].items[p] > 0}] \in SessionState
      BY <2>2, ReturnFields, IdleType DEF SessionState, Operations, Stages
    <2> QED
      BY <2>1, <2>3 DEF StartRefund, TypeOK, sales
  <1>5. CASE StartSweep(r)
    <2>1. Expired \in SUBSET Orders
      BY DEF Expired
    <2>2. [Idle EXCEPT !.op = "sweep", !.stage = "started", !.queue = Expired] \in SessionState
      BY <2>1, IdleType DEF SessionState, Operations, Stages
    <2> QED
      BY <1>5, <2>2 DEF StartSweep, TypeOK, sales
  <1> QED
    BY <1>1, <1>2, <1>3, <1>4, <1>5 DEF Arrive

LEMMA WorldType ==
    ASSUME TypeOK,
           \/ \E o \in Orders, target \in ServingStatuses : Serve(o, target)
           \/ \E o \in Orders : ReservationLapses(o)
           \/ CloseDrawer
           \/ Restart
    PROVE  TypeOK'
  <1>1. CASE \E o \in Orders, target \in ServingStatuses : Serve(o, target)
    <2>1. PICK o \in Orders, target \in ServingStatuses : Serve(o, target)
      BY <1>1
    <2>2. [order[o] EXCEPT !.serving = target,
                           !.status = IF target = "served" THEN "completed" ELSE @] \in OrderState
      BY DEF TypeOK, OrderState, Statuses
    <2> QED
      BY <2>1, <2>2 DEF Serve, TypeOK
  <1>2. CASE \E o \in Orders : ReservationLapses(o)
    <2>1. PICK o \in Orders : ReservationLapses(o)
      BY <1>2
    <2>2. [order[o] EXCEPT !.lapsed = TRUE] \in OrderState
      BY DEF TypeOK, OrderState
    <2> QED
      BY <2>1, <2>2 DEF ReservationLapses, TypeOK
  <1>3. CASE CloseDrawer
    BY <1>3 DEF CloseDrawer, TypeOK, sales
  <1>4. CASE Restart
    BY <1>4, IdleType DEF Restart, TypeOK, sales
  <1> QED
    BY <1>1, <1>2, <1>3, <1>4

\* Every step of the specification is one of the steps the lemmas treat.
LEMMA StepCases ==
    ASSUME Next
    PROVE  \/ \E r \in Sessions :
                \/ LockRow(r) \/ LockForPayment(r) \/ RefundPoints(r) \/ RevertEffects(r)
                \/ RefuseOrder(r) \/ DuplicateKey(r) \/ Abort(r) \/ CheckDrawer(r)
                \/ LockExpired(r) \/ SkipPaid(r)
                \/ CommitOrder(r) \/ CommitPayment(r) \/ CommitRefund(r) \/ CommitRelease(r)
                \/ (r \in Requests /\ Arrive(r)) \/ StartSweep(r)
           \/ \E o \in Orders, target \in ServingStatuses : Serve(o, target)
           \/ \E o \in Orders : ReservationLapses(o)
           \/ CloseDrawer
           \/ Restart
  BY DEF Next, Work, Advance, Sessions

LEMMA NextTypeOK ==
    ASSUME TypeOK, SessionsWellFormed, [Next]_vars
    PROVE  TypeOK'
  <1>1. CASE Next
    BY <1>1, StepCases, LockRowType, LockForPaymentType, RefundPointsType, RevertEffectsType,
       ReleaseTypes, CommitTypes, ArriveType, WorldType
  <1>2. CASE UNCHANGED vars
    BY <1>2 DEF vars, TypeOK
  <1> QED
    BY <1>1, <1>2

-----------------------------------------------------------------------------
(* Sessions know what they work on *)

LEMMA IdleWellFormed == \A r : WellFormed(r, Idle)
  BY DEF WellFormed, Idle

\* A step that gives one session a well-formed record keeps them all so.
LEMMA WellFormedStep ==
    ASSUME TypeOK, SessionsWellFormed, NEW r \in Sessions, NEW s,
           session' = [session EXCEPT ![r] = s], WellFormed(r, s)
    PROVE  SessionsWellFormed'
  BY DEF SessionsWellFormed, TypeOK, WellFormed

LEMMA EndSessionWellFormed ==
    ASSUME TypeOK, SessionsWellFormed, NEW r \in Sessions, EndSession(r)
    PROVE  SessionsWellFormed'
  BY IdleWellFormed, WellFormedStep DEF EndSession

LEMMA AdvanceWellFormed ==
    ASSUME TypeOK, SessionsWellFormed, NEW r \in Sessions, Advance(r)
    PROVE  SessionsWellFormed'
  <1> DEFINE s == session[r]
  <1>1. /\ s \in SessionState
        /\ WellFormed(r, s)
    BY DEF TypeOK, SessionsWellFormed
  <1>2. CASE LockRow(r)
    <2>1. PICK x \in NextRows(r) : session' = [session EXCEPT ![r] =
                 [Touched(r, {x}, [y \in {x} |-> Share(r, x)]) EXCEPT !.todo = @ \ {x}]]
      BY <1>2 DEF LockRow
    <2> DEFINE t == Touched(r, {x}, [y \in {x} |-> Share(r, x)])
    <2>2. t \in SessionState
      BY <1>2, LockRowTouches DEF LockRow
    <2>3. /\ t.op = s.op /\ t.stage = s.stage /\ t.cur = s.cur /\ t.arg = s.arg
          /\ t.queue = s.queue /\ t.done = s.done
      BY TouchedControl
    <2> HIDE DEF t
    <2>4. WellFormed(r, [t EXCEPT !.todo = @ \ {x}])
      BY <1>1, <2>2, <2>3 DEF WellFormed, SessionState
    <2> QED
      BY <2>1, <2>4, WellFormedStep DEF t
  <1>3. CASE RefuseOrder(r) \/ DuplicateKey(r) \/ CommitOrder(r) \/ CommitPayment(r)
                \/ CommitRefund(r) \/ CommitRelease(r)
    BY <1>3, EndSessionWellFormed DEF RefuseOrder, DuplicateKey, CommitOrder, CommitPayment,
                                     CommitRefund, CommitRelease
  <1>4. CASE CheckDrawer(r)
    <2>1. WellFormed(r, [s EXCEPT !.stage = "ready"])
      BY <1>1 DEF SessionState, WellFormed
    <2>2. \/ session' = [session EXCEPT ![r] = [s EXCEPT !.stage = "ready"]]
          \/ EndSession(r)
      BY <1>1, <1>4 DEF CheckDrawer
    <2> QED
      BY <2>1, <2>2, WellFormedStep, EndSessionWellFormed
  <1>5. CASE LockForPayment(r)
    <2> DEFINE t == Touched(r, Earners(r), [x \in Rows |-> Basket[s.cur].total])
    <2>1. \/ session' = [session EXCEPT ![r] = [t EXCEPT !.stage = "ready"]]
          \/ EndSession(r)
      BY <1>5 DEF LockForPayment, Earners
    <2>2. t \in SessionState
      BY <1>5, PaymentTouches DEF LockForPayment
    <2>3. t.op = s.op /\ t.cur = s.cur /\ t.arg = s.arg /\ t.queue = s.queue /\ t.done = s.done
      BY TouchedControl
    <2> HIDE DEF t
    <2>4. WellFormed(r, [t EXCEPT !.stage = "ready"])
      BY <1>1, <1>5, <2>2, <2>3 DEF SessionState, WellFormed, LockForPayment
    <2> QED
      BY <2>1, <2>4, WellFormedStep, EndSessionWellFormed
  <1>6. CASE RefundPoints(r)
    <2> DEFINE t == Touched(r, CustomerOf(s.cur), [c \in CustomerOf(s.cur) |-> -Reversal(r, c)])
    <2>1. session' = [session EXCEPT ![r] = [t EXCEPT !.stage = "ready"]]
      BY <1>6 DEF RefundPoints
    <2>2. t \in SessionState
      BY <1>6, RefundTouches DEF RefundPoints
    <2>3. t.op = s.op /\ t.cur = s.cur /\ t.arg = s.arg /\ t.queue = s.queue /\ t.done = s.done
      BY TouchedControl
    <2> HIDE DEF t
    <2>4. WellFormed(r, [t EXCEPT !.stage = "ready"])
      BY <1>1, <1>6, <2>2, <2>3 DEF SessionState, WellFormed, RefundPoints
    <2> QED
      BY <2>1, <2>4, WellFormedStep
  <1>7. CASE LockExpired(r)
    <2>1. PICK o \in s.queue : session' = [session EXCEPT ![r] =
              [s EXCEPT !.queue = @ \ {o}, !.done = @ \cup ({o} \cap Expired)]]
      BY <1>7, LockExpiredSession
    <2>2. WellFormed(r, [s EXCEPT !.queue = @ \ {o}, !.done = @ \cup ({o} \cap Expired)])
      BY <1>1, <1>7 DEF SessionState, WellFormed, LockExpired
    <2> QED
      BY <2>1, <2>2, WellFormedStep
  <1>8. CASE SkipPaid(r)
    <2> DEFINE release == Unpaid(s.done)
    <2>1. WellFormed(r, [s EXCEPT !.stage = "ready", !.done = {}])
      BY <1>1, <1>8 DEF SessionState, WellFormed, SkipPaid
    <2>2. release \in SUBSET Orders
      BY SessionFields DEF Unpaid
    <2>3. \/ session' = [session EXCEPT ![r] = [s EXCEPT !.stage = "ready", !.done = {}]]
          \/ \E o \in release : session' = [session EXCEPT ![r] =
                [s EXCEPT !.stage = "locking", !.done = {}, !.cur = o,
                          !.queue = release \ {o}, !.todo = ItemsOf(o)]]
      BY <1>8, SkipPaidSession
    <2> HIDE DEF release
    <2>4. \A o \in release : WellFormed(r,
                [s EXCEPT !.stage = "locking", !.done = {}, !.cur = o,
                          !.queue = release \ {o}, !.todo = ItemsOf(o)])
      BY <1>1, <1>8, <2>2 DEF SessionState, WellFormed, SkipPaid
    <2> QED
      BY <2>1, <2>3, <2>4, WellFormedStep
  <1>9. CASE RevertEffects(r)
    <2> DEFINE t == Touched(r, Reverts(r), [x \in Reverts(r) |-> Reverted(r, x)])
               u == AfterRevert(r)
    <2>1. t \in SessionState
      BY <1>9, RevertTouches DEF RevertEffects
    <2>2. t.op = s.op /\ t.stage = s.stage /\ t.cur = s.cur /\ t.arg = s.arg
          /\ t.queue = s.queue /\ t.done = s.done
      BY TouchedControl
    <2>3. u = [t EXCEPT !.done = @ \cup {s.cur}]
      BY DEF AfterRevert
    <2> HIDE DEF t
    <2>4. /\ u \in SessionState
          /\ u.op = s.op /\ u.stage = s.stage /\ u.cur = s.cur /\ u.arg = s.arg
          /\ u.queue = s.queue /\ u.done = s.done \cup {s.cur}
      <3>1. u \in SessionState
        BY <1>9, RevertEffectsSession
      <3> QED
        BY <2>1, <2>2, <2>3, <3>1 DEF SessionState
    <2> HIDE DEF u
    <2>5. s.cur \in Orders
      BY <1>1, <1>9 DEF RevertEffects, WellFormed
    <2>6. s.queue = {} => WellFormed(r, [u EXCEPT !.stage = "ready"])
      BY <1>1, <1>9, <2>4, <2>5 DEF SessionState, WellFormed, RevertEffects
    <2>7. \A q \in s.queue :
            WellFormed(r, [u EXCEPT !.cur = q, !.queue = @ \ {q}, !.todo = ItemsOf(q)])
      <3>1. s.queue \in SUBSET Orders
        BY SessionFields
      <3> QED
        BY <1>1, <1>9, <2>4, <2>5, <3>1 DEF SessionState, WellFormed, RevertEffects
    <2> QED
      BY <1>9, <2>6, <2>7, RevertEffectsSession, WellFormedStep DEF u
  <1> QED
    BY <1>2, <1>3, <1>4, <1>5, <1>6, <1>7, <1>8, <1>9 DEF Advance

LEMMA ArriveWellFormed ==
    ASSUME TypeOK, SessionsWellFormed, NEW r \in Sessions,
           (r \in Requests /\ Arrive(r)) \/ StartSweep(r)
    PROVE  SessionsWellFormed'
  <1>0. r \in Requests => r # Loop
    BY DistinctAssumption
  <1>1. ASSUME NEW o \in Orders, StartOrder(r, o), r \in Requests PROVE SessionsWellFormed'
    <2> DEFINE u == [Idle EXCEPT !.op = "create", !.cur = o, !.stage = "locking",
                        !.todo = ItemsOf(o) \cup CustomerOf(o) \cup PromotionOf(o)]
    <2>1. WellFormed(r, u)
      BY <1>0, <1>1 DEF WellFormed, Idle
    <2> QED
      BY <1>1, <2>1, WellFormedStep DEF StartOrder
  <1>2. ASSUME NEW o \in Orders, StartCancel(r, o), r \in Requests PROVE SessionsWellFormed'
    <2> DEFINE u == [Idle EXCEPT !.op = "cancel", !.cur = o, !.stage = "locking",
                        !.todo = ItemsOf(o)]
    <2>1. WellFormed(r, u)
      BY <1>0, <1>2 DEF WellFormed, Idle
    <2> QED
      BY <1>2, <2>1, WellFormedStep DEF StartCancel
  <1>3. ASSUME NEW k \in Payments, StartPayment(r, k), r \in Requests PROVE SessionsWellFormed'
    <2> DEFINE u == [Idle EXCEPT !.op = "pay", !.cur = Tender[k].order, !.arg = k,
                        !.stage = "started"]
    <2>1. WellFormed(r, u)
      BY <1>0, <1>3 DEF WellFormed, Idle
    <2> QED
      BY <1>3, <2>1, WellFormedStep DEF StartPayment
  <1>4. ASSUME NEW k \in Refunds, StartRefund(r, k), r \in Requests PROVE SessionsWellFormed'
    <2> DEFINE u == [Idle EXCEPT !.op = "refund", !.cur = Return[k].order, !.arg = k,
                        !.stage = "locking", !.todo = {p \in Products : Return[k].items[p] > 0}]
    <2>1. WellFormed(r, u)
      BY <1>0, <1>4, ReturnFields DEF WellFormed, Idle
    <2> QED
      BY <1>4, <2>1, WellFormedStep DEF StartRefund
  <1>5. CASE StartSweep(r)
    <2> DEFINE u == [Idle EXCEPT !.op = "sweep", !.stage = "started", !.queue = Expired]
    <2>1. WellFormed(r, u)
      BY DEF WellFormed, Idle
    <2> QED
      BY <1>5, <2>1, WellFormedStep DEF StartSweep
  <1> QED
    BY <1>1, <1>2, <1>3, <1>4, <1>5 DEF Arrive

LEMMA NextWellFormed ==
    ASSUME TypeOK, SessionsWellFormed, [Next]_vars
    PROVE  SessionsWellFormed'
  <1>1. CASE \E r \in Sessions : Advance(r)
    BY <1>1, AdvanceWellFormed
  <1>2. CASE \E r \in Sessions : (r \in Requests /\ Arrive(r)) \/ StartSweep(r)
    BY <1>2, ArriveWellFormed
  <1>3. CASE \E r \in Sessions : Abort(r)
    BY <1>3, EndSessionWellFormed DEF Abort
  <1>4. CASE Restart
    BY <1>4, IdleWellFormed DEF Restart, SessionsWellFormed
  <1>5. CASE UNCHANGED session
    BY <1>5 DEF SessionsWellFormed
  <1> QED
    BY <1>1, <1>2, <1>3, <1>4, <1>5
    DEF Next, Work, Sessions, Serve, ReservationLapses, CloseDrawer, vars

-----------------------------------------------------------------------------
(* Stock *)

StockSafe == StockGuarded /\ StockMatchesMovements /\ NeverOversold

LEMMA InitStockSafe == Init => StockSafe
  BY RowAssumption DEF Init, StockSafe, StockGuarded, Respects, StockMatchesMovements, NeverOversold,
                       Idle, Rows

LEMMA ProductsAreRows ==
    /\ Products \subseteq Rows
    /\ \A p \in Products : p \in Lockable /\ p \notin Customers /\ p \notin Promotions /\ p \notin Orders
    /\ None \notin Sessions
  BY DistinctAssumption DEF Rows, Lockable

\* A session takes a step that commits nothing: it only takes free rows (or
\* gives its own back), and its new record respects the locks it then has.
TakesFreeRows(r, locks) ==
    \A p \in Products : locks[p] # holder[p] => holder[p] \in {None, r}

LEMMA StockStep ==
    ASSUME TypeOK, StockSafe, NEW r \in Sessions, NEW s,
           session' = [session EXCEPT ![r] = s],
           TakesFreeRows(r, holder'), Respects(r, s, holder'),
           UNCHANGED value, UNCHANGED ledger
    PROVE  StockSafe'
  <1>1. StockMatchesMovements' /\ NeverOversold'
    BY DEF StockSafe, StockMatchesMovements, NeverOversold
  <1>2. ASSUME NEW q \in Sessions
        PROVE  Respects(q, session'[q], holder')
    <2>1. CASE q = r
      BY <2>1 DEF TypeOK
    <2>2. CASE q # r
      <3>1. session'[q] = session[q]
        BY <2>2 DEF TypeOK
      <3>2. Respects(q, session[q], holder)
        BY DEF StockSafe, StockGuarded
      <3>3. \A p \in Products : p \in session[q].loaded => holder'[p] = q
        BY <2>2, <3>2, ProductsAreRows DEF TakesFreeRows, Respects
      <3> QED
        BY <3>1, <3>2, <3>3 DEF Respects
    <2> QED
      BY <2>1, <2>2
  <1> QED
    BY <1>1, <1>2 DEF StockSafe, StockGuarded, Respects

\* ROLLBACK.
LEMMA RollbackStockSafe ==
    ASSUME TypeOK, StockSafe, NEW r \in Sessions, EndSession(r),
           UNCHANGED value, UNCHANGED ledger
    PROVE  StockSafe'
  <1>1. session' = [session EXCEPT ![r] = Idle]
    BY DEF EndSession
  <1>2. TakesFreeRows(r, holder')
    BY ProductsAreRows DEF EndSession, TakesFreeRows
  <1>3. Respects(r, Idle, holder')
    BY ProductsAreRows DEF Idle, Respects
  <1> QED
    BY <1>1, <1>2, <1>3, StockStep

\* COMMIT: what is written for a product is the value it still has, plus the
\* session's delta, and goes into the ledger with it.
LEMMA CommitStockSafe ==
    ASSUME TypeOK, StockSafe, NEW r \in Sessions, Flush(r), EndSession(r)
    PROVE  StockSafe'
  <1>1. ASSUME NEW p \in Products
        PROVE  value'[p] = value[p] + session[r].delta[p] /\ value'[p] >= 0
    <2>1. p \in Rows /\ value[p] \in Int /\ session[r].delta[p] \in Int
      BY ProductsAreRows, SessionFields DEF TypeOK
    <2>2. value'[p] = IF session[r].delta[p] # 0 THEN session[r].seen[p] + session[r].delta[p]
                                                 ELSE value[p]
      BY <2>1 DEF Flush
    <2>3. session[r].delta[p] # 0 =>
            session[r].seen[p] = value[p] /\ session[r].seen[p] + session[r].delta[p] >= 0
      BY DEF StockSafe, StockGuarded, Respects
    <2>4. value[p] >= 0
      BY DEF StockSafe, NeverOversold
    <2> QED
      BY <2>1, <2>2, <2>3, <2>4
  <1>2. ASSUME NEW p \in Products PROVE ledger'[p] = ledger[p] + session[r].delta[p]
    BY ProductsAreRows DEF Flush
  <1>3. StockMatchesMovements' /\ NeverOversold'
    <2>1. ASSUME NEW p \in Products PROVE value'[p] = Initial[p] + ledger'[p]
      <3>1. value[p] = Initial[p] + ledger[p]
        BY DEF StockSafe, StockMatchesMovements
      <3>2. ledger[p] \in Int /\ Initial[p] \in Int /\ session[r].delta[p] \in Int
        BY ProductsAreRows, RowAssumption, SessionFields DEF TypeOK
      <3> QED
        BY <1>1, <1>2, <3>1, <3>2
    <2> QED
      BY <1>1, <2>1 DEF StockMatchesMovements, NeverOversold
  <1>4. StockGuarded'
    <2> SUFFICES ASSUME NEW p \in Products, NEW q \in Sessions
                 PROVE  IF p \in session'[q].loaded
                        THEN /\ holder'[p] = q
                             /\ session'[q].seen[p] = value'[p]
                             /\ session'[q].seen[p] + session'[q].delta[p] >= 0
                        ELSE session'[q].delta[p] = 0
      BY DEF StockGuarded, Respects
    <2>1. CASE q = r
      BY <2>1, ProductsAreRows DEF EndSession, TypeOK, Idle
    <2>2. CASE q # r
      <3>1. session'[q] = session[q]
        BY <2>2 DEF EndSession, TypeOK
      <3>2. CASE p \in session[q].loaded
        <4>1. holder[p] = q
          BY <3>2 DEF StockSafe, StockGuarded, Respects
        <4>2. holder'[p] = q
          BY <2>2, <4>1, ProductsAreRows DEF EndSession
        <4>3. session[r].delta[p] = 0
          BY <2>2, <4>1 DEF StockSafe, StockGuarded, Respects
        <4>4. value'[p] = value[p]
          BY <4>3, ProductsAreRows DEF Flush
        <4> QED
          BY <3>1, <3>2, <4>2, <4>4 DEF StockSafe, StockGuarded, Respects
      <3>3. CASE p \notin session[q].loaded
        BY <3>1, <3>3 DEF StockSafe, StockGuarded, Respects
      <3> QED
        BY <3>2, <3>3
    <2> QED
      BY <2>1, <2>2
  <1> QED
    BY <1>3, <1>4 DEF StockSafe

\* The product row is free and the handler has checked that enough is left.
LEMMA LockRowStockSafe ==
    ASSUME TypeOK, SessionsWellFormed, StockSafe, NEW r \in Sessions, LockRow(r)
    PROVE  StockSafe'
  <1>1. PICK x \in NextRows(r) :
            /\ RowFree(r, x) /\ Admits(r, x)
            /\ holder' = [holder EXCEPT ![x] = r]
            /\ session' = [session EXCEPT ![r] =
                 [Touched(r, {x}, [y \in {x} |-> Share(r, x)]) EXCEPT !.todo = @ \ {x}]]
    BY DEF LockRow
  <1> DEFINE t == Touched(r, {x}, [y \in {x} |-> Share(r, x)])
             u == [t EXCEPT !.todo = @ \ {x}]
  <1>2. x \in Rows /\ Share(r, x) \in Int /\ t \in SessionState
    BY LockRowTouches DEF LockRow
  <1>3. /\ t.loaded = session[r].loaded \cup {x}
        /\ t.seen = [y \in Rows |-> IF y \in {x} \ session[r].loaded THEN value[y]
                                                                   ELSE session[r].seen[y]]
        /\ t.delta = [y \in Rows |-> IF y \in {x} THEN session[r].delta[y] + Share(r, x)
                                                ELSE session[r].delta[y]]
    BY TouchedRows
  <1> HIDE DEF t
  <1>4. u.loaded = t.loaded /\ u.seen = t.seen /\ u.delta = t.delta
    BY <1>2 DEF SessionState
  <1> HIDE DEF u
  <1>5. ASSUME NEW p \in Products, p # x
        PROVE  IF p \in u.loaded
               THEN holder'[p] = r /\ u.seen[p] = value[p] /\ u.seen[p] + u.delta[p] >= 0
               ELSE u.delta[p] = 0
    <2>1. /\ p \in u.loaded <=> p \in session[r].loaded
          /\ u.seen[p] = session[r].seen[p]
          /\ u.delta[p] = session[r].delta[p]
      BY <1>3, <1>4, <1>5, ProductsAreRows
    <2>2. holder'[p] = holder[p]
      BY <1>1, <1>5, ProductsAreRows DEF TypeOK
    <2> QED
      BY <2>1, <2>2 DEF StockSafe, StockGuarded, Respects
  <1>6. ASSUME x \in Products
        PROVE  /\ x \in u.loaded /\ holder'[x] = r /\ u.seen[x] = value[x]
               /\ u.seen[x] + u.delta[x] >= 0
    <2>1. /\ value[x] \in Int /\ session[r].seen[x] \in Int /\ session[r].delta[x] \in Int
          /\ value[x] >= 0
      BY <1>2, <1>6, SessionFields DEF TypeOK, StockSafe, NeverOversold
    <2>2. holder'[x] = r
      BY <1>1, <1>2 DEF TypeOK, Lockable
    <2>3. u.seen[x] = value[x] /\ u.delta[x] = session[r].delta[x] + Share(r, x)
      BY <1>2, <1>3, <1>4, <1>6 DEF StockSafe, StockGuarded, Respects
    <2>4. Local(r, x) = value[x] + session[r].delta[x] /\ Local(r, x) >= 0
      BY <1>6, <2>1 DEF Local, StockSafe, StockGuarded, Respects
    <2>5. session[r].cur \in Orders
      BY DEF LockRow, SessionsWellFormed, WellFormed
    <2>6. Share(r, x) >= 0 \/ Local(r, x) + Share(r, x) >= 0
      <3>1. Basket[session[r].cur].items[x] \in Nat
        BY <1>6, <2>5, BasketFields
      <3>2. CASE session[r].op = "create"
        <4>1. Share(r, x) = -Basket[session[r].cur].items[x]
          BY <1>6, <3>2, ProductsAreRows DEF Share
        <4>2. Local(r, x) >= Basket[session[r].cur].items[x]
          BY <1>1, <1>6, <3>2 DEF Admits, EnoughStock
        <4> QED
          BY <2>1, <2>4, <3>1, <4>1, <4>2
      <3>3. CASE session[r].op = "refund"
        <4>1. Share(r, x) = Return[session[r].arg].items[x]
          BY <1>6, <3>3, ProductsAreRows DEF Share
        <4>2. session[r].arg \in Refunds
          BY <3>3 DEF SessionsWellFormed, WellFormed
        <4> QED
          BY <1>6, <4>1, <4>2, ReturnFields
      <3>4. CASE session[r].op \notin {"create", "refund"}
        <4>1. Share(r, x) = Basket[session[r].cur].items[x]
          BY <1>6, <3>4, ProductsAreRows DEF Share
        <4> QED
          BY <3>1, <4>1
      <3> QED
        BY <3>2, <3>3, <3>4
    <2>7. u.seen[x] + u.delta[x] >= 0
      BY <1>2, <2>1, <2>3, <2>4, <2>6
    <2> QED
      BY <1>3, <1>4, <2>2, <2>3, <2>7
  <1>7. Respects(r, u, holder')
    BY <1>5, <1>6 DEF Respects
  <1>8. TakesFreeRows(r, holder')
    BY <1>1, ProductsAreRows DEF RowFree, TypeOK, TakesFreeRows
  <1>9. session' = [session EXCEPT ![r] = u] /\ UNCHANGED value /\ UNCHANGED ledger
    BY <1>1 DEF u, t, LockRow
  <1> QED
    BY <1>7, <1>8, <1>9, StockStep

\* A record that differs from the session's in other rows, or not in rows at
\* all, is as safe as the session's was.
SameProducts(s, t) ==
    \A p \in Products : /\ p \in t.loaded <=> p \in s.loaded
                        /\ t.seen[p] = s.seen[p]
                        /\ t.delta[p] = s.delta[p]

SameLocks(locks) == \A p \in Products : locks[p] = holder[p]

LEMMA SameProductsStockSafe ==
    ASSUME TypeOK, StockSafe, NEW r \in Sessions, NEW s,
           session' = [session EXCEPT ![r] = s],
           SameLocks(holder'), SameProducts(session[r], s),
           UNCHANGED value, UNCHANGED ledger
    PROVE  StockSafe'
  <1>1. Respects(r, session[r], holder)
    BY DEF StockSafe, StockGuarded
  <1>2. Respects(r, s, holder')
    BY <1>1 DEF Respects, SameLocks, SameProducts
  <1>3. TakesFreeRows(r, holder')
    BY DEF SameLocks, TakesFreeRows
  <1> QED
    BY <1>2, <1>3, StockStep

\* Customers and promotions are other rows.
LEMMA TouchedOthers ==
    ASSUME TypeOK, NEW r \in Sessions, NEW X \in SUBSET (Customers \cup Promotions), NEW d
    PROVE  SameProducts(session[r], Touched(r, X, d))
  <1> DEFINE t == Touched(r, X, d)
  <1>1. \A p \in Products : p \in Rows /\ p \notin X
    BY ProductsAreRows
  <1>2. /\ t.loaded = session[r].loaded \cup X
        /\ t.seen = [x \in Rows |-> IF x \in X \ session[r].loaded THEN value[x]
                                                              ELSE session[r].seen[x]]
        /\ t.delta = [x \in Rows |-> IF x \in X THEN session[r].delta[x] + d[x]
                                           ELSE session[r].delta[x]]
    BY TouchedRows
  <1> HIDE DEF t
  <1>3. SameProducts(session[r], t)
    BY <1>1, <1>2 DEF SameProducts
  <1> QED
    BY <1>3 DEF t

LEMMA AdvanceStockSafe ==
    ASSUME TypeOK, SessionsWellFormed, StockSafe, NEW r \in Sessions, Advance(r)
    PROVE  StockSafe'
  <1> DEFINE s == session[r]
  <1>0. s \in SessionState
    BY DEF TypeOK
  <1>1. CASE LockRow(r)
    BY <1>1, LockRowStockSafe
  <1>2. CASE RefuseOrder(r) \/ DuplicateKey(r)
    BY <1>2, RollbackStockSafe DEF RefuseOrder, DuplicateKey
  <1>3. CASE CommitOrder(r) \/ CommitPayment(r) \/ CommitRefund(r) \/ CommitRelease(r)
    BY <1>3, CommitStockSafe DEF CommitOrder, CommitPayment, CommitRefund, CommitRelease
  <1>4. CASE CheckDrawer(r)
    <2>1. CASE drawerOpen
      <3>1. /\ session' = [session EXCEPT ![r] = [s EXCEPT !.stage = "ready"]]
            /\ SameLocks(holder')
            /\ UNCHANGED value /\ UNCHANGED ledger
        BY <1>0, <1>4, <2>1 DEF CheckDrawer, SameLocks
      <3>2. SameProducts(s, [s EXCEPT !.stage = "ready"])
        BY <1>0 DEF SameProducts, SessionState
      <3> QED
        BY <3>1, <3>2, SameProductsStockSafe
    <2>2. CASE ~drawerOpen
      BY <1>4, <2>2, RollbackStockSafe DEF CheckDrawer
    <2> QED
      BY <2>1, <2>2
  <1>5. CASE LockForPayment(r)
    <2> DEFINE t == Touched(r, Earners(r), [x \in Rows |-> Basket[s.cur].total])
               u == [t EXCEPT !.stage = "ready"]
    <2>1. CASE PaymentAllowed(s.arg)
      <3>1. /\ session' = [session EXCEPT ![r] = u]
            /\ holder' = [holder EXCEPT ![s.cur] = r]
            /\ UNCHANGED value /\ UNCHANGED ledger
        BY <1>5, <2>1 DEF LockForPayment, Earners
      <3>2. t \in SessionState /\ s.cur \in Orders /\ Earners(r) \in SUBSET Customers
        BY <1>5, PaymentTouches DEF LockForPayment
      <3>3. SameProducts(s, t)
        BY <3>2, TouchedOthers
      <3> HIDE DEF t
      <3>4. SameProducts(s, u)
        BY <3>2, <3>3 DEF SameProducts, SessionState
      <3>5. SameLocks(holder')
        BY <3>1, <3>2, ProductsAreRows DEF TypeOK, SameLocks
      <3> HIDE DEF u
      <3> QED
        BY <3>1, <3>4, <3>5, SameProductsStockSafe
    <2>2. CASE ~PaymentAllowed(s.arg)
      BY <1>5, <2>2, RollbackStockSafe DEF LockForPayment
    <2> QED
      BY <2>1, <2>2
  <1>6. CASE RefundPoints(r)
    <2> DEFINE t == Touched(r, CustomerOf(s.cur), [c \in CustomerOf(s.cur) |-> -Reversal(r, c)])
               u == [t EXCEPT !.stage = "ready"]
    <2>1. /\ session' = [session EXCEPT ![r] = u]
          /\ SameLocks(holder')
          /\ UNCHANGED value /\ UNCHANGED ledger
      BY <1>6 DEF RefundPoints, SameLocks
    <2>2. t \in SessionState /\ CustomerOf(s.cur) \in SUBSET Customers
      BY <1>6, RefundTouches DEF RefundPoints, CustomerOf
    <2>3. SameProducts(s, t)
      BY <2>2, TouchedOthers
    <2> HIDE DEF t
    <2>4. SameProducts(s, u)
      BY <2>2, <2>3 DEF SameProducts, SessionState
    <2> HIDE DEF u
    <2> QED
      BY <2>1, <2>4, SameProductsStockSafe
  <1>7. CASE LockExpired(r)
    <2>1. PICK o \in s.queue :
            /\ session' = [session EXCEPT ![r] =
                    [s EXCEPT !.queue = @ \ {o}, !.done = @ \cup ({o} \cap Expired)]]
            /\ holder' = [x \in Lockable |-> IF x \in {o} \cap Expired THEN r ELSE holder[x]]
      BY <1>7, LockExpiredSession
    <2>2. SameLocks(holder')
      BY <2>1, ProductsAreRows DEF Expired, SameLocks
    <2>3. SameProducts(s, [s EXCEPT !.queue = @ \ {o}, !.done = @ \cup ({o} \cap Expired)])
      BY <1>0 DEF SameProducts, SessionState
    <2>4. UNCHANGED value /\ UNCHANGED ledger
      BY <1>7 DEF LockExpired
    <2> QED
      BY <2>1, <2>2, <2>3, <2>4, SameProductsStockSafe
  <1>8. CASE SkipPaid(r)
    <2>1. SameLocks(holder') /\ UNCHANGED value /\ UNCHANGED ledger
      BY <1>8 DEF SkipPaid, SameLocks
    <2>2. CASE session' = [session EXCEPT ![r] = [s EXCEPT !.stage = "ready", !.done = {}]]
      <3>1. SameProducts(s, [s EXCEPT !.stage = "ready", !.done = {}])
        BY <1>0 DEF SameProducts, SessionState
      <3> QED
        BY <2>1, <2>2, <3>1, SameProductsStockSafe
    <2>3. ASSUME NEW o, NEW Q, session' = [session EXCEPT ![r] =
                    [s EXCEPT !.stage = "locking", !.done = {}, !.cur = o,
                              !.queue = Q, !.todo = ItemsOf(o)]]
          PROVE  StockSafe'
      <3>1. SameProducts(s, [s EXCEPT !.stage = "locking", !.done = {}, !.cur = o,
                                      !.queue = Q, !.todo = ItemsOf(o)])
        BY <1>0 DEF SameProducts, SessionState
      <3> QED
        BY <2>1, <2>3, <3>1, SameProductsStockSafe
    <2> QED
      BY <1>8, <2>2, <2>3, SkipPaidSession
  <1>9. CASE RevertEffects(r)
    <2> DEFINE t == Touched(r, Reverts(r), [x \in Reverts(r) |-> Reverted(r, x)])
               u == AfterRevert(r)
    <2>1. SameLocks(holder') /\ UNCHANGED value /\ UNCHANGED ledger
      BY <1>9 DEF RevertEffects, SameLocks
    <2>2. t \in SessionState /\ Reverts(r) \in SUBSET (Customers \cup Promotions)
      BY <1>9, RevertTouches DEF RevertEffects, Reverts, CustomerOf, PromotionOf
    <2>3. SameProducts(s, t)
      BY <2>2, TouchedOthers
    <2>4. u = [t EXCEPT !.done = @ \cup {s.cur}]
      BY DEF AfterRevert
    <2> HIDE DEF t
    <2>5. SameProducts(s, u)
      BY <2>2, <2>3, <2>4 DEF SameProducts, SessionState
    <2>6. u \in SessionState
      BY <1>9, RevertEffectsSession
    <2> HIDE DEF u
    <2>7. CASE session' = [session EXCEPT ![r] = [u EXCEPT !.stage = "ready"]]
      <3>1. SameProducts(s, [u EXCEPT !.stage = "ready"])
        BY <2>5, <2>6 DEF SameProducts, SessionState
      <3> QED
        BY <2>1, <2>7, <3>1, SameProductsStockSafe
    <2>8. ASSUME NEW q, session' = [session EXCEPT ![r] =
                    [u EXCEPT !.cur = q, !.queue = @ \ {q}, !.todo = ItemsOf(q)]]
          PROVE  StockSafe'
      <3>1. SameProducts(s, [u EXCEPT !.cur = q, !.queue = @ \ {q}, !.todo = ItemsOf(q)])
        BY <2>5, <2>6 DEF SameProducts, SessionState
      <3> QED
        BY <2>1, <2>8, <3>1, SameProductsStockSafe
    <2> QED
      BY <1>9, <2>7, <2>8, RevertEffectsSession DEF u
  <1> QED
    BY <1>1, <1>2, <1>3, <1>4, <1>5, <1>6, <1>7, <1>8, <1>9 DEF Advance

\* A request that arrives brings an empty session.
LEMMA ArriveStockSafe ==
    ASSUME TypeOK, StockSafe, NEW r \in Sessions, Arrive(r) \/ StartSweep(r)
    PROVE  StockSafe'
  <1>1. session[r] = Idle /\ UNCHANGED value /\ UNCHANGED ledger
    BY DEF Arrive, StartOrder, StartCancel, StartPayment, StartRefund, StartSweep
  <1>2. CASE \E o \in Orders : StartCancel(r, o)
    <2>1. PICK o \in Orders : StartCancel(r, o)
      BY <1>2
    <2>2. SameLocks(holder')
      BY <2>1, ProductsAreRows DEF StartCancel, SameLocks, TypeOK
    <2>3. SameProducts(Idle, [Idle EXCEPT !.op = "cancel", !.cur = o, !.stage = "locking",
                                          !.todo = ItemsOf(o)])
      BY DEF SameProducts, Idle
    <2> QED
      BY <1>1, <2>1, <2>2, <2>3, SameProductsStockSafe DEF StartCancel
  <1>3. CASE \E o \in Orders : StartOrder(r, o)
    <2>1. PICK o \in Orders : StartOrder(r, o)
      BY <1>3
    <2>2. SameProducts(Idle, [Idle EXCEPT !.op = "create", !.cur = o, !.stage = "locking",
                                 !.todo = ItemsOf(o) \cup CustomerOf(o) \cup PromotionOf(o)])
      BY DEF SameProducts, Idle
    <2>3. SameLocks(holder')
      BY <2>1 DEF StartOrder, SameLocks
    <2> QED
      BY <1>1, <2>1, <2>2, <2>3, SameProductsStockSafe DEF StartOrder
  <1>4. CASE \E k \in Payments : StartPayment(r, k)
    <2>1. PICK k \in Payments : StartPayment(r, k)
      BY <1>4
    <2>2. SameProducts(Idle, [Idle EXCEPT !.op = "pay", !.cur = Tender[k].order, !.arg = k,
                                          !.stage = "started"])
      BY DEF SameProducts, Idle
    <2>3. SameLocks(holder')
      BY <2>1 DEF StartPayment, SameLocks
    <2> QED
      BY <1>1, <2>1, <2>2, <2>3, SameProductsStockSafe DEF StartPayment
  <1>5. CASE \E k \in Refunds : StartRefund(r, k)
    <2>1. PICK k \in Refunds : StartRefund(r, k)
      BY <1>5
    <2>2. SameProducts(Idle, [Idle EXCEPT !.op = "refund", !.cur = Return[k].order, !.arg = k,
                                 !.stage = "locking",
                                 !.todo = {p \in Products : Return[k].items[p] > 0}])
      BY DEF SameProducts, Idle
    <2>3. SameLocks(holder')
      BY <2>1 DEF StartRefund, SameLocks
    <2> QED
      BY <1>1, <2>1, <2>2, <2>3, SameProductsStockSafe DEF StartRefund
  <1>6. CASE StartSweep(r)
    <2>1. SameProducts(Idle, [Idle EXCEPT !.op = "sweep", !.stage = "started", !.queue = Expired])
      BY DEF SameProducts, Idle
    <2>2. SameLocks(holder')
      BY <1>6 DEF StartSweep, SameLocks
    <2> QED
      BY <1>1, <1>6, <2>1, <2>2, SameProductsStockSafe DEF StartSweep
  <1> QED
    BY <1>2, <1>3, <1>4, <1>5, <1>6 DEF Arrive

LEMMA NextStockSafe ==
    ASSUME TypeOK, SessionsWellFormed, StockSafe, [Next]_vars
    PROVE  StockSafe'
  <1>1. CASE \E r \in Sessions : Advance(r)
    BY <1>1, AdvanceStockSafe
  <1>2. CASE \E r \in Sessions : Arrive(r) \/ StartSweep(r)
    BY <1>2, ArriveStockSafe
  <1>3. CASE \E r \in Sessions : Abort(r)
    BY <1>3, RollbackStockSafe DEF Abort
  <1>4. CASE Restart
    BY <1>4, ProductsAreRows DEF Restart, Idle, StockSafe, StockGuarded, Respects,
                                 StockMatchesMovements, NeverOversold
  <1>5. CASE UNCHANGED <<session, holder, value, ledger>>
    BY <1>5 DEF StockSafe, StockGuarded, Respects, StockMatchesMovements, NeverOversold
  <1> QED
    BY <1>1, <1>2, <1>3, <1>4, <1>5
    DEF Next, Work, Sessions, Serve, ReservationLapses, CloseDrawer, vars

-----------------------------------------------------------------------------
(* Orders *)

LEMMA OrderFields ==
    ASSUME TypeOK, NEW o \in Orders
    PROVE  order[o] \in OrderState /\ o \in Lockable /\ o \notin Rows /\ tendered[o] \in Nat
  BY DistinctAssumption DEF TypeOK, Lockable

LEMMA NextPendingIsReserved ==
    ASSUME TypeOK, SessionsWellFormed, PendingIsReserved, [Next]_vars
    PROVE  PendingIsReserved'
  <1> DEFINE Matches(x) == x.status = "pending" <=> x.reservation = "reserved"
  <1>0. \A o \in Orders : order[o] \in OrderState /\ Matches(order[o])
    BY OrderFields DEF PendingIsReserved
  <1>1. ASSUME NEW r \in Sessions, CommitOrder(r) PROVE PendingIsReserved'
    <2>1. session[r].cur \in Orders
      BY <1>1 DEF CommitOrder, SessionsWellFormed, WellFormed
    <2> QED
      BY <1>0, <1>1, <2>1 DEF CommitOrder, PendingIsReserved, TypeOK
  <1>2. ASSUME NEW r \in Sessions, CommitPayment(r) PROVE PendingIsReserved'
    <2> DEFINE o == session[r].cur
               t == tendered[o] + Tender[session[r].arg].amount
    <2>1. o \in Orders
      BY <1>2, TenderFields DEF CommitPayment, SessionsWellFormed, WellFormed
    <2>2. order' = [order EXCEPT ![o] = Settled(o, t)]
      BY <1>2 DEF CommitPayment
    <2> HIDE DEF o, t
    <2>3. Matches(Settled(o, t))
      BY <1>0, <2>1 DEF Settled, OrderState
    <2> QED
      BY <1>0, <2>1, <2>2, <2>3 DEF PendingIsReserved, TypeOK
  <1>3. ASSUME NEW r \in Sessions, CommitRelease(r) PROVE PendingIsReserved'
    <2>1. \A o \in Orders : Matches(Cancelled(o))
      <3> TAKE o \in Orders
      <3> QED
        BY <1>0 DEF Cancelled, OrderState
    <2> QED
      BY <1>0, <1>3, <2>1 DEF CommitRelease, PendingIsReserved
  <1>4. ASSUME NEW o \in Orders, NEW target \in ServingStatuses, Serve(o, target)
        PROVE  PendingIsReserved'
    <2> DEFINE new == [order[o] EXCEPT !.serving = target,
                                       !.status = IF target = "served" THEN "completed" ELSE @]
    <2>1. order' = [order EXCEPT ![o] = new]
      BY <1>0, <1>4 DEF Serve, OrderState
    <2>2. Matches(new)
      BY <1>0, <1>4 DEF Serve, OrderState
    <2> HIDE DEF new
    <2> QED
      BY <1>0, <2>1, <2>2 DEF PendingIsReserved, TypeOK
  <1>5. ASSUME NEW o \in Orders, ReservationLapses(o) PROVE PendingIsReserved'
    <2> DEFINE new == [order[o] EXCEPT !.lapsed = TRUE]
    <2>1. order' = [order EXCEPT ![o] = new]
      BY <1>0, <1>5 DEF ReservationLapses, OrderState
    <2>2. Matches(new)
      BY <1>0 DEF OrderState
    <2> HIDE DEF new
    <2> QED
      BY <1>0, <2>1, <2>2 DEF PendingIsReserved, TypeOK
  <1>6. CASE UNCHANGED order
    BY <1>6 DEF PendingIsReserved
  <1> QED
    BY <1>1, <1>2, <1>3, <1>4, <1>5, <1>6
    DEF Next, Work, Advance, Arrive, LockRow, StartOrder, RefuseOrder, CheckDrawer, StartPayment,
        LockForPayment, StartRefund, RefundPoints, CommitRefund, DuplicateKey, StartCancel,
        StartSweep, LockExpired, SkipPaid, RevertEffects, CloseDrawer, Abort, Restart, sales, vars

\* What one session may do to the orders without another noticing: those that
\* a third session has locked stay as they are, and none disappears.
LeavesOthers(r, locks, orders, paid) ==
    \A o \in Orders :
        /\ holder[o] \notin {None, r} =>
                /\ locks[o] = holder[o]
                /\ order[o].status = "pending" => orders[o].status = "pending"
                /\ paid[o] = tendered[o]
        /\ order[o].status # "absent" => orders[o].status # "absent"

LEMMA OthersStillHold ==
    ASSUME TypeOK, SessionsWellFormed, OrdersGuarded, NEW r,
           NEW locks, NEW orders, NEW paid, LeavesOthers(r, locks, orders, paid),
           NEW q \in Sessions, q # r
    PROVE  Holds(q, session[q], locks, orders, paid)
  <1> DEFINE s == session[q]
  <1>1. Holds(q, s, holder, order, tendered) /\ WellFormed(q, s) /\ q # None
    BY DistinctAssumption DEF OrdersGuarded, SessionsWellFormed
  <1>2. ASSUME NEW o \in Orders, holder[o] = q
        PROVE  /\ locks[o] = q
               /\ order[o].status = "pending" => orders[o].status = "pending"
               /\ paid[o] = tendered[o]
    BY <1>1, <1>2 DEF LeavesOthers
  <1>3. s.op = "pay" => s.cur \in Orders
    BY <1>1, TenderFields DEF WellFormed
  <1>4. s.op = "cancel" => s.cur \in Orders
    BY <1>1 DEF WellFormed
  <1>5. s.done \in SUBSET Orders /\ s.queue \in SUBSET Orders
    BY SessionFields
  <1>6. s.op = "pay" => orders[s.cur].status # "absent"
    BY <1>1, <1>3 DEF Holds, LeavesOthers
  <1>7. s.op = "pay" /\ s.stage = "ready" => locks[s.cur] = q /\ orders[s.cur].status = "pending"
    BY <1>1, <1>2, <1>3 DEF Holds
  <1>8. s.op = "cancel" => locks[s.cur] = q
    BY <1>1, <1>2, <1>4 DEF Holds
  <1>9. s.op = "sweep" => \A o \in s.done : locks[o] = q /\ orders[o].status = "pending"
    BY <1>1, <1>2, <1>5 DEF Holds
  <1>10. s.op = "sweep" /\ s.stage # "started" =>
            \A o \in s.done \cup s.queue \cup ({s.cur} \cap Orders) :
                locks[o] = q /\ orders[o].status = "pending" /\ paid[o] = 0
    BY <1>1, <1>2, <1>5 DEF Holds
  <1> QED
    BY <1>6, <1>7, <1>8, <1>9, <1>10 DEF Holds

LEMMA OrdersStep ==
    ASSUME TypeOK, SessionsWellFormed, OrdersGuarded, NEW r \in Sessions, NEW s,
           session' = [session EXCEPT ![r] = s],
           LeavesOthers(r, holder', order', tendered'),
           Holds(r, s, holder', order', tendered')
    PROVE  OrdersGuarded'
  <1>1. ASSUME NEW q \in Sessions PROVE Holds(q, session'[q], holder', order', tendered')
    <2>1. CASE q = r
      BY <2>1 DEF TypeOK
    <2>2. CASE q # r
      <3>1. session'[q] = session[q]
        BY <2>2 DEF TypeOK
      <3> QED
        BY <2>2, <3>1, OthersStillHold
    <2> QED
      BY <2>1, <2>2
  <1> QED
    BY <1>1 DEF OrdersGuarded

LEMMA IdleHolds == \A r, locks, orders, paid : Holds(r, Idle, locks, orders, paid)
  BY DEF Holds, Idle

\* The session gives up whatever it held.
LEMMA EndSessionOrders ==
    ASSUME TypeOK, SessionsWellFormed, OrdersGuarded, NEW r \in Sessions, EndSession(r),
           LeavesOthers(r, holder', order', tendered')
    PROVE  OrdersGuarded'
  BY IdleHolds, OrdersStep DEF EndSession

LEMMA RollbackOrders ==
    ASSUME TypeOK, SessionsWellFormed, OrdersGuarded, NEW r \in Sessions, EndSession(r),
           UNCHANGED order, UNCHANGED tendered
    PROVE  OrdersGuarded'
  <1>1. LeavesOthers(r, holder', order', tendered')
    BY OrderFields DEF EndSession, LeavesOthers
  <1> QED
    BY <1>1, EndSessionOrders

LEMMA CommitOrdersGuarded ==
    ASSUME TypeOK, SessionsWellFormed, OrdersGuarded, NEW r \in Sessions,
           \/ CommitOrder(r) \/ CommitPayment(r) \/ CommitRefund(r) \/ CommitRelease(r)
    PROVE  OrdersGuarded'
  <1> DEFINE s == session[r]
             o == s.cur
  <1>0. /\ EndSession(r)
        /\ Holds(r, s, holder, order, tendered) /\ WellFormed(r, s)
        /\ \A q \in Orders : holder[q] \notin {None, r} => holder'[q] = holder[q]
    BY OrderFields DEF CommitOrder, CommitPayment, CommitRefund, CommitRelease, EndSession,
                       OrdersGuarded, SessionsWellFormed
  <1>1. CASE CommitOrder(r)
    <2>1. o \in Orders /\ order[o].status = "absent"
      BY <1>0, <1>1 DEF CommitOrder, WellFormed
    <2>2. \A q \in Orders : order[q].status = "pending" \/ q = o => order'[q].status = "pending"
      BY <1>1, <2>1 DEF CommitOrder, TypeOK
    <2>3. \A q \in Orders : q # o => order'[q] = order[q]
      BY <1>1 DEF CommitOrder, TypeOK
    <2>4. LeavesOthers(r, holder', order', tendered')
      BY <1>0, <1>1, <2>1, <2>2, <2>3 DEF CommitOrder, LeavesOthers
    <2> QED
      BY <1>0, <2>4, EndSessionOrders
  <1>2. CASE CommitPayment(r)
    <2> DEFINE t == tendered[o] + Tender[s.arg].amount
    <2>1. o \in Orders /\ holder[o] = r /\ order[o].status = "pending"
      BY <1>0, <1>2, TenderFields DEF CommitPayment, WellFormed, Holds
    <2>2. /\ order' = [order EXCEPT ![o] = Settled(o, t)]
          /\ tendered' = [tendered EXCEPT ![o] = t]
      BY <1>2 DEF CommitPayment, TypeOK
    <2> HIDE DEF t
    <2>3. Settled(o, t).status # "absent"
      BY <2>1, OrderFields DEF Settled, OrderState
    <2>4. LeavesOthers(r, holder', order', tendered')
      BY <1>0, <2>1, <2>2, <2>3 DEF LeavesOthers, TypeOK
    <2> QED
      BY <1>0, <2>4, EndSessionOrders
  <1>3. CASE CommitRefund(r)
    BY <1>0, <1>3, RollbackOrders DEF CommitRefund
  <1>4. CASE CommitRelease(r)
    <2>1. \A q \in s.done : q \in Orders /\ holder[q] = r
      BY <1>0, <1>4, SessionFields DEF CommitRelease, WellFormed, Holds
    <2>2. \A q \in Orders : Cancelled(q).status = "cancelled"
      <3> TAKE q \in Orders
      <3>1. order[q] \in OrderState
        BY OrderFields
      <3> QED
        BY <3>1 DEF Cancelled, OrderState
    <2>3. LeavesOthers(r, holder', order', tendered')
      BY <1>0, <1>4, <2>1, <2>2 DEF CommitRelease, LeavesOthers
    <2> QED
      BY <1>0, <2>3, EndSessionOrders
  <1> QED
    BY <1>1, <1>2, <1>3, <1>4

\* A step that writes no order: it may lock free ones.
TakesFreeOrders(r, locks) ==
    \A o \in Orders : locks[o] # holder[o] => holder[o] \in {None, r}

LEMMA QuietOrders ==
    ASSUME TypeOK, SessionsWellFormed, OrdersGuarded, NEW r \in Sessions, NEW s,
           session' = [session EXCEPT ![r] = s], TakesFreeOrders(r, holder'),
           UNCHANGED order, UNCHANGED tendered,
           Holds(r, s, holder', order, tendered)
    PROVE  OrdersGuarded'
  <1>1. LeavesOthers(r, holder', order', tendered')
    BY DEF TakesFreeOrders, LeavesOthers
  <1>2. Holds(r, s, holder', order', tendered')
    OBVIOUS
  <1> QED
    BY <1>1, <1>2, OrdersStep

LEMMA AdvanceOrdersGuarded ==
    ASSUME TypeOK, SessionsWellFormed, PendingIsReserved, OrdersGuarded,
           NEW r \in Sessions, Advance(r)
    PROVE  OrdersGuarded'
  <1> DEFINE s == session[r]
  <1>0. s \in SessionState /\ WellFormed(r, s) /\ Holds(r, s, holder, order, tendered)
    BY DEF TypeOK, SessionsWellFormed, OrdersGuarded
  <1>1. CASE LockRow(r)
    <2>1. PICK x \in NextRows(r) :
            /\ holder' = [holder EXCEPT ![x] = r]
            /\ session' = [session EXCEPT ![r] =
                 [Touched(r, {x}, [y \in {x} |-> Share(r, x)]) EXCEPT !.todo = @ \ {x}]]
      BY <1>1 DEF LockRow
    <2> DEFINE t == Touched(r, {x}, [y \in {x} |-> Share(r, x)])
               u == [t EXCEPT !.todo = @ \ {x}]
    <2>2. t \in SessionState /\ x \in Rows
      BY <1>1, LockRowTouches DEF LockRow
    <2>3. /\ t.op = s.op /\ t.stage = s.stage /\ t.cur = s.cur
          /\ t.queue = s.queue /\ t.done = s.done
      BY TouchedControl
    <2>4. session' = [session EXCEPT ![r] = u]
      BY <2>1
    <2> HIDE DEF t
    <2>5. /\ u.op = s.op /\ u.stage = s.stage /\ u.cur = s.cur
          /\ u.queue = s.queue /\ u.done = s.done
      BY <2>2, <2>3 DEF SessionState
    <2> HIDE DEF u
    <2>6. \A o \in Orders : holder'[o] = holder[o]
      BY <2>1, <2>2, OrderFields DEF TypeOK
    <2>7. TakesFreeOrders(r, holder')
      BY <2>6 DEF TakesFreeOrders
    <2>8. Holds(r, u, holder', order, tendered)
      <3>1. s.done \in SUBSET Orders /\ s.queue \in SUBSET Orders
        BY SessionFields
      <3>2. s.op = "pay" => s.cur \in Orders
        BY <1>0, TenderFields DEF WellFormed
      <3>3. s.op = "cancel" => s.cur \in Orders
        BY <1>0 DEF WellFormed
      <3> QED
        BY <1>0, <2>5, <2>6, <3>1, <3>2, <3>3 DEF Holds
    <2> QED
      BY <1>1, <2>4, <2>7, <2>8, QuietOrders DEF LockRow, sales
  <1>2. CASE RefuseOrder(r) \/ DuplicateKey(r)
    BY <1>2, RollbackOrders DEF RefuseOrder, DuplicateKey, sales
  <1>3. CASE CommitOrder(r) \/ CommitPayment(r) \/ CommitRefund(r) \/ CommitRelease(r)
    BY <1>3, CommitOrdersGuarded
  <1>4. CASE CheckDrawer(r)
    <2>1. CASE drawerOpen
      <3>1. /\ session' = [session EXCEPT ![r] = [s EXCEPT !.stage = "ready"]]
            /\ TakesFreeOrders(r, holder')
            /\ UNCHANGED order /\ UNCHANGED tendered
        BY <1>0, <1>4, <2>1 DEF CheckDrawer, TakesFreeOrders, sales
      <3>2. Holds(r, [s EXCEPT !.stage = "ready"], holder', order, tendered)
        BY <1>0, <1>4 DEF CheckDrawer, SessionState, Holds
      <3> QED
        BY <3>1, <3>2, QuietOrders
    <2>2. CASE ~drawerOpen
      BY <1>4, <2>2, RollbackOrders DEF CheckDrawer, sales
    <2> QED
      BY <2>1, <2>2
  <1>5. CASE LockForPayment(r)
    <2> DEFINE t == Touched(r, Earners(r), [x \in Rows |-> Basket[s.cur].total])
               u == [t EXCEPT !.stage = "ready"]
    <2>1. CASE PaymentAllowed(s.arg)
      <3>1. /\ session' = [session EXCEPT ![r] = u]
            /\ holder' = [holder EXCEPT ![s.cur] = r]
            /\ RowFree(r, s.cur)
            /\ UNCHANGED order /\ UNCHANGED tendered
        BY <1>5, <2>1 DEF OrderFree, LockForPayment, Earners, sales
      <3>2. t \in SessionState /\ s.cur \in Orders /\ s.op = "pay" /\ s.cur = Tender[s.arg].order
        BY <1>0, <1>5, PaymentTouches DEF LockForPayment, WellFormed
      <3>3. t.op = s.op /\ t.cur = s.cur
        BY TouchedControl
      <3> HIDE DEF t
      <3>4. u.op = "pay" /\ u.cur = s.cur
        BY <3>2, <3>3 DEF SessionState
      <3>5. TakesFreeOrders(r, holder')
        BY <3>1 DEF TypeOK, RowFree, TakesFreeOrders
      <3>6. holder'[s.cur] = r
        BY <3>1, <3>2, OrderFields DEF TypeOK
      <3>7. order[s.cur].status = "pending"
        <4>1. order[s.cur].status \notin {"absent", "cancelled", "completed", "serving"}
          BY <1>0, <2>1, <3>2 DEF PaymentAllowed, Holds
        <4>2. order[s.cur].status \in Statuses
          BY <3>2, OrderFields DEF OrderState
        <4> QED
          BY <4>1, <4>2 DEF Statuses
      <3> HIDE DEF u
      <3>8. Holds(r, u, holder', order, tendered)
        BY <3>4, <3>6, <3>7 DEF Holds
      <3> QED
        BY <3>1, <3>5, <3>8, QuietOrders
    <2>2. CASE ~PaymentAllowed(s.arg)
      BY <1>5, <2>2, RollbackOrders DEF LockForPayment, sales
    <2> QED
      BY <2>1, <2>2
  <1>6. CASE RefundPoints(r)
    <2> DEFINE t == Touched(r, CustomerOf(s.cur), [c \in CustomerOf(s.cur) |-> -Reversal(r, c)])
               u == [t EXCEPT !.stage = "ready"]
    <2>1. /\ session' = [session EXCEPT ![r] = u]
          /\ TakesFreeOrders(r, holder')
          /\ UNCHANGED order /\ UNCHANGED tendered
      BY <1>6 DEF RefundPoints, TakesFreeOrders, sales
    <2>2. t \in SessionState /\ s.op = "refund"
      BY <1>6, RefundTouches DEF RefundPoints
    <2>3. t.op = s.op
      BY TouchedControl
    <2> HIDE DEF t
    <2>4. u.op = "refund"
      BY <2>2, <2>3 DEF SessionState
    <2> HIDE DEF u
    <2>5. Holds(r, u, holder', order, tendered)
      BY <2>4 DEF Holds
    <2> QED
      BY <2>1, <2>5, QuietOrders
  <1>7. CASE LockExpired(r)
    <2>1. PICK o \in s.queue :
            /\ RowFree(r, o)
            /\ holder' = [x \in Lockable |-> IF x \in {o} \cap Expired THEN r ELSE holder[x]]
            /\ session' = [session EXCEPT ![r] =
                    [s EXCEPT !.queue = @ \ {o}, !.done = @ \cup ({o} \cap Expired)]]
      BY <1>7, LockExpiredSession
    <2> DEFINE u == [s EXCEPT !.queue = @ \ {o}, !.done = @ \cup ({o} \cap Expired)]
    <2>2. u.op = "sweep" /\ u.stage = "started" /\ u.done = s.done \cup ({o} \cap Expired)
      BY <1>0, <1>7 DEF LockExpired, SessionState
    <2>3. TakesFreeOrders(r, holder')
      BY <2>1, OrderFields DEF RowFree, TakesFreeOrders
    <2>4. \A q \in u.done : holder'[q] = r /\ order[q].status = "pending"
      <3>1. \A q \in s.done : q \in Lockable /\ holder[q] = r /\ order[q].status = "pending"
        BY <1>0, <1>7, SessionFields, OrderFields DEF LockExpired, Holds
      <3>2. \A q \in {o} \cap Expired : q \in Lockable /\ order[q].status = "pending"
        BY OrderFields DEF Expired
      <3> QED
        BY <2>1, <2>2, <3>1, <3>2
    <2> HIDE DEF u
    <2>5. Holds(r, u, holder', order, tendered)
      BY <2>2, <2>4 DEF Holds
    <2> QED
      BY <1>7, <2>1, <2>3, <2>5, QuietOrders DEF LockExpired, sales, u
  <1>8. CASE SkipPaid(r)
    <2> DEFINE release == Unpaid(s.done)
    <2>1. TakesFreeOrders(r, holder') /\ UNCHANGED order /\ UNCHANGED tendered /\ UNCHANGED holder
      BY <1>8 DEF SkipPaid, TakesFreeOrders, sales
    <2>2. /\ s.op = "sweep" /\ s.queue = {} /\ s.cur \notin Orders
          /\ \A q \in s.done : holder[q] = r /\ order[q].status = "pending"
      BY <1>0, <1>8, DistinctAssumption DEF SkipPaid, WellFormed, Holds, Lockable
    <2>3. CASE session' = [session EXCEPT ![r] = [s EXCEPT !.stage = "ready", !.done = {}]]
      <3>1. Holds(r, [s EXCEPT !.stage = "ready", !.done = {}], holder', order, tendered)
        BY <1>0, <2>2 DEF SessionState, Holds
      <3> QED
        BY <2>1, <2>3, <3>1, QuietOrders
    <2>4. ASSUME NEW o \in release, session' = [session EXCEPT ![r] =
                    [s EXCEPT !.stage = "locking", !.done = {}, !.cur = o,
                              !.queue = release \ {o}, !.todo = ItemsOf(o)]]
          PROVE  OrdersGuarded'
      <3> DEFINE u == [s EXCEPT !.stage = "locking", !.done = {}, !.cur = o,
                                !.queue = release \ {o}, !.todo = ItemsOf(o)]
      <3>1. \A q \in release : holder'[q] = r /\ order[q].status = "pending" /\ tendered[q] = 0
        BY <2>1, <2>2 DEF Unpaid
      <3>2. session' = [session EXCEPT ![r] = u]
        BY <2>4
      <3> HIDE DEF release
      <3>3. u.op = "sweep" /\ u.done = {} /\ u.queue = release \ {o} /\ u.cur = o
        BY <1>0, <2>2 DEF SessionState
      <3> HIDE DEF u
      <3>4. Holds(r, u, holder', order, tendered)
        BY <2>4, <3>1, <3>3 DEF Holds
      <3> QED
        BY <2>1, <3>2, <3>4, QuietOrders
    <2> QED
      BY <1>8, <2>3, <2>4, SkipPaidSession
  <1>9. CASE RevertEffects(r)
    <2> DEFINE t == Touched(r, Reverts(r), [x \in Reverts(r) |-> Reverted(r, x)])
               u == AfterRevert(r)
    <2>1. TakesFreeOrders(r, holder') /\ UNCHANGED order /\ UNCHANGED tendered /\ UNCHANGED holder
      BY <1>9 DEF RevertEffects, TakesFreeOrders, sales
    <2>2. t \in SessionState
      BY <1>9, RevertTouches DEF RevertEffects
    <2>3. /\ t.op = s.op /\ t.stage = s.stage /\ t.cur = s.cur
          /\ t.queue = s.queue /\ t.done = s.done
      BY TouchedControl
    <2>4. u = [t EXCEPT !.done = @ \cup {s.cur}] /\ u \in SessionState
      BY <1>9, RevertEffectsSession DEF AfterRevert
    <2> HIDE DEF t
    <2>5. /\ u.op = s.op /\ u.cur = s.cur /\ u.queue = s.queue /\ u.done = s.done \cup {s.cur}
      BY <2>2, <2>3, <2>4 DEF SessionState
    <2> HIDE DEF u
    <2>6. /\ s.op \in {"cancel", "sweep"} /\ s.stage = "locking" /\ s.cur \in Orders
          /\ s.queue \in SUBSET Orders
      BY <1>0, <1>9, SessionFields DEF RevertEffects, WellFormed
    <2>7. s.op = "sweep" => \A o \in s.done \cup s.queue \cup {s.cur} :
                                holder[o] = r /\ order[o].status = "pending" /\ tendered[o] = 0
      BY <1>0, <2>6 DEF Holds
    <2>8. s.op = "cancel" => holder[s.cur] = r /\ s.queue = {}
      BY <1>0 DEF Holds, WellFormed
    <2>9. CASE session' = [session EXCEPT ![r] = [u EXCEPT !.stage = "ready"]]
      <3> DEFINE v == [u EXCEPT !.stage = "ready"]
      <3>1. v.op = s.op /\ v.cur = s.cur /\ v.queue = s.queue /\ v.done = s.done \cup {s.cur}
        BY <2>4, <2>5 DEF SessionState
      <3>2. session' = [session EXCEPT ![r] = v]
        BY <2>9
      <3> HIDE DEF v
      <3>3. Holds(r, v, holder', order, tendered)
        BY <2>1, <2>6, <2>7, <2>8, <3>1 DEF Holds
      <3> QED
        BY <2>1, <3>2, <3>3, QuietOrders
    <2>10. ASSUME NEW q \in s.queue, session' = [session EXCEPT ![r] =
                    [u EXCEPT !.cur = q, !.queue = @ \ {q}, !.todo = ItemsOf(q)]]
           PROVE  OrdersGuarded'
      <3> DEFINE v == [u EXCEPT !.cur = q, !.queue = @ \ {q}, !.todo = ItemsOf(q)]
      <3>1. v.op = s.op /\ v.cur = q /\ v.queue = s.queue \ {q} /\ v.done = s.done \cup {s.cur}
        BY <2>4, <2>5 DEF SessionState
      <3>2. session' = [session EXCEPT ![r] = v]
        BY <2>10
      <3> HIDE DEF v
      <3>3. s.op = "sweep"
        BY <2>6, <2>8, <2>10
      <3>4. Holds(r, v, holder', order, tendered)
        BY <2>1, <2>6, <2>7, <2>10, <3>1, <3>3 DEF Holds
      <3> QED
        BY <2>1, <3>2, <3>4, QuietOrders
    <2> QED
      BY <1>9, <2>9, <2>10, RevertEffectsSession DEF u
  <1> QED
    BY <1>1, <1>2, <1>3, <1>4, <1>5, <1>6, <1>7, <1>8, <1>9 DEF Advance

LEMMA ArriveOrdersGuarded ==
    ASSUME TypeOK, SessionsWellFormed, OrdersGuarded, NEW r \in Sessions,
           Arrive(r) \/ StartSweep(r)
    PROVE  OrdersGuarded'
  <1>1. UNCHANGED order /\ UNCHANGED tendered
    BY DEF Arrive, StartOrder, StartCancel, StartPayment, StartRefund, StartSweep, sales
  <1>2. ASSUME NEW o \in Orders, StartCancel(r, o) PROVE OrdersGuarded'
    <2> DEFINE u == [Idle EXCEPT !.op = "cancel", !.cur = o, !.stage = "locking",
                                 !.todo = ItemsOf(o)]
    <2>1. u.op = "cancel" /\ u.cur = o
      BY DEF Idle
    <2>2. /\ session' = [session EXCEPT ![r] = u]
          /\ holder' = [holder EXCEPT ![o] = r] /\ RowFree(r, o)
      BY <1>2 DEF OrderFree, StartCancel
    <2> HIDE DEF u
    <2>3. TakesFreeOrders(r, holder')
      BY <2>2 DEF TypeOK, RowFree, TakesFreeOrders
    <2>4. Holds(r, u, holder', order, tendered)
      BY <2>1, <2>2, OrderFields DEF Holds, TypeOK
    <2> QED
      BY <1>1, <2>2, <2>3, <2>4, QuietOrders
  <1>3. ASSUME NEW u, session' = [session EXCEPT ![r] = u], UNCHANGED holder,
               Holds(r, u, holder, order, tendered)
        PROVE  OrdersGuarded'
    <2>1. TakesFreeOrders(r, holder') /\ Holds(r, u, holder', order, tendered)
      BY <1>3 DEF TakesFreeOrders
    <2> QED
      BY <1>1, <1>3, <2>1, QuietOrders
  <1>4. ASSUME NEW o \in Orders, StartOrder(r, o) PROVE OrdersGuarded'
    <2> DEFINE u == [Idle EXCEPT !.op = "create", !.cur = o, !.stage = "locking",
                                 !.todo = ItemsOf(o) \cup CustomerOf(o) \cup PromotionOf(o)]
    <2>1. Holds(r, u, holder, order, tendered)
      BY DEF Idle, Holds
    <2> QED
      BY <1>3, <1>4, <2>1 DEF StartOrder
  <1>5. ASSUME NEW k \in Payments, StartPayment(r, k) PROVE OrdersGuarded'
    <2> DEFINE u == [Idle EXCEPT !.op = "pay", !.cur = Tender[k].order, !.arg = k,
                                 !.stage = "started"]
    <2>1. Holds(r, u, holder, order, tendered)
      BY <1>5 DEF Idle, Holds, StartPayment
    <2> QED
      BY <1>3, <1>5, <2>1 DEF StartPayment
  <1>6. ASSUME NEW k \in Refunds, StartRefund(r, k) PROVE OrdersGuarded'
    <2> DEFINE u == [Idle EXCEPT !.op = "refund", !.cur = Return[k].order, !.arg = k,
                                 !.stage = "locking",
                                 !.todo = {p \in Products : Return[k].items[p] > 0}]
    <2>1. Holds(r, u, holder, order, tendered)
      BY DEF Idle, Holds
    <2> QED
      BY <1>3, <1>6, <2>1 DEF StartRefund
  <1>7. CASE StartSweep(r)
    <2> DEFINE u == [Idle EXCEPT !.op = "sweep", !.stage = "started", !.queue = Expired]
    <2>1. Holds(r, u, holder, order, tendered)
      BY DEF Idle, Holds
    <2> QED
      BY <1>3, <1>7, <2>1 DEF StartSweep
  <1> QED
    BY <1>2, <1>4, <1>5, <1>6, <1>7 DEF Arrive

\* Serving an order and the passing of time disturb no session that has it
\* locked.
LEMMA WorldOrdersGuarded ==
    ASSUME TypeOK, SessionsWellFormed, OrdersGuarded, NEW o \in Orders,
           (\E target \in ServingStatuses : Serve(o, target)) \/ ReservationLapses(o)
    PROVE  OrdersGuarded'
  <1>1. UNCHANGED holder /\ UNCHANGED session /\ UNCHANGED tendered
    BY DEF Serve, ReservationLapses
  <1>2. ASSUME NEW q \in Orders
        PROVE  /\ holder[q] # None /\ order[q].status = "pending" => order'[q].status = "pending"
               /\ order[q].status # "absent" => order'[q].status # "absent"
    <2>1. CASE q # o
      BY <2>1 DEF Serve, ReservationLapses, TypeOK
    <2>2. CASE q = o
      <3>1. CASE ReservationLapses(o)
        <4>1. order'[o].status = order[o].status
          BY <3>1, OrderFields DEF ReservationLapses, TypeOK, OrderState
        <4> QED
          BY <2>2, <4>1
      <3>2. CASE \E target \in ServingStatuses : Serve(o, target)
        <4>1. PICK target \in ServingStatuses : Serve(o, target)
          BY <3>2
        <4>2. holder[o] = None /\ order[o].status = "serving" /\ order[o] \in OrderState
          BY <4>1, OrderFields DEF Serve
        <4>3. order'[o].status \in {"serving", "completed"}
          BY <4>1, <4>2 DEF Serve, TypeOK, OrderState
        <4> QED
          BY <2>2, <4>2, <4>3
      <3> QED
        BY <3>1, <3>2
    <2> QED
      BY <2>1, <2>2
  <1>3. LeavesOthers(None, holder', order', tendered')
    BY <1>1, <1>2 DEF LeavesOthers
  <1>4. \A q \in Sessions : Holds(q, session[q], holder', order', tendered')
    BY <1>3, OthersStillHold, ProductsAreRows
  <1> QED
    BY <1>1, <1>4 DEF OrdersGuarded

LEMMA NextOrdersGuarded ==
    ASSUME TypeOK, SessionsWellFormed, PendingIsReserved, OrdersGuarded, [Next]_vars
    PROVE  OrdersGuarded'
  <1>1. CASE \E r \in Sessions : Advance(r)
    BY <1>1, AdvanceOrdersGuarded
  <1>2. CASE \E r \in Sessions : Arrive(r) \/ StartSweep(r)
    BY <1>2, ArriveOrdersGuarded
  <1>3. CASE \E r \in Sessions : Abort(r)
    BY <1>3, RollbackOrders DEF Abort, sales
  <1>4. CASE Restart
    BY <1>4, IdleHolds DEF Restart, OrdersGuarded
  <1>5. CASE \E o \in Orders : (\E target \in ServingStatuses : Serve(o, target))
                               \/ ReservationLapses(o)
    BY <1>5, WorldOrdersGuarded
  <1>6. CASE CloseDrawer \/ UNCHANGED vars
    BY <1>6 DEF CloseDrawer, vars, sales, OrdersGuarded
  <1> QED
    BY <1>1, <1>2, <1>3, <1>4, <1>5, <1>6 DEF Next, Work, Sessions

-----------------------------------------------------------------------------
(* Settlement *)

Sound(x) == /\ x.status = "pending" => x.serving = "none"
            /\ x.status \in {"serving", "completed"} =>
                    /\ x.reservation = "committed"
                    /\ x.serving # "none"
                    /\ x.status = "completed" <=> x.serving = "served"

Owes(o) == order[o].status \in {"serving", "completed"} => tendered[o] >= Basket[o].total

LEMMA SettlementParts ==
    PendingIsUnserved /\ SettledInFull <=> \A o \in Orders : Sound(order[o]) /\ Owes(o)
  BY DEF PendingIsUnserved, SettledInFull, Sound, Owes

\* An order enters the kitchen when what its payments sum to covers its total.
LEMMA SettledSound ==
    ASSUME NEW o \in Orders, NEW t \in Nat, order[o] \in OrderState, Sound(order[o]),
           order[o].status = "pending"
    PROVE  /\ Settled(o, t) \in OrderState
           /\ Sound(Settled(o, t))
           /\ Settled(o, t).status \in {"pending", "serving"}
           /\ Settled(o, t).status = "serving" => t >= Basket[o].total
  <1>1. Settlement(o, t) \in [paid : Int, change : Int, remaining : Int]
    BY SettlementType
  <1>2. Settlement(o, t).remaining <= 0 => t >= Basket[o].total
    BY BasketFields DEF Settlement, Lesser
  <1>3. CASE Settlement(o, t).remaining > 0
    <2>1. Settled(o, t) = [order[o] EXCEPT !.bill = Settlement(o, t)]
      BY <1>3 DEF Settled
    <2> QED
      BY <1>1, <2>1 DEF OrderState, Sound
  <1>4. CASE ~(Settlement(o, t).remaining > 0)
    <2>1. Settled(o, t) = [order[o] EXCEPT !.bill = Settlement(o, t), !.status = "serving",
                             !.reservation = "committed", !.lapsed = FALSE, !.serving = "queued"]
      BY <1>4 DEF Settled, Sound
    <2>2. t >= Basket[o].total
      BY <1>1, <1>2, <1>4
    <2> QED
      BY <1>1, <2>1, <2>2 DEF OrderState, Sound, Statuses, Reservations, ServingStatuses
  <1> QED
    BY <1>3, <1>4

LEMMA NextSettled ==
    ASSUME TypeOK, SessionsWellFormed, OrdersGuarded, PendingIsUnserved, SettledInFull, [Next]_vars
    PROVE  PendingIsUnserved' /\ SettledInFull'
  <1>0. \A o \in Orders : order[o] \in OrderState /\ Sound(order[o]) /\ Owes(o)
    BY OrderFields, SettlementParts
  <1>1. ASSUME \A o \in Orders : Sound(order'[o]) /\ Owes(o)'
        PROVE  PendingIsUnserved' /\ SettledInFull'
    BY <1>1 DEF PendingIsUnserved, SettledInFull, Sound, Owes
  <1>2. ASSUME NEW r \in Sessions, CommitOrder(r)
        PROVE  \A o \in Orders : Sound(order'[o]) /\ Owes(o)'
    BY <1>0, <1>2 DEF CommitOrder, TypeOK, Sound, Owes
  <1>3. ASSUME NEW r \in Sessions, CommitPayment(r)
        PROVE  \A o \in Orders : Sound(order'[o]) /\ Owes(o)'
    <2> DEFINE c == session[r].cur
               k == session[r].arg
               t == tendered[c] + Tender[k].amount
    <2>1. c \in Orders /\ k \in Payments /\ order[c].status = "pending"
      BY <1>3, TenderFields DEF CommitPayment, SessionsWellFormed, WellFormed, OrdersGuarded, Holds
    <2>2. t \in Nat
      BY <2>1, TenderFields DEF TypeOK
    <2>3. order' = [order EXCEPT ![c] = Settled(c, t)] /\ tendered' = [tendered EXCEPT ![c] = t]
      BY <1>3 DEF CommitPayment, TypeOK
    <2> HIDE DEF c, t
    <2>4. /\ Sound(Settled(c, t))
          /\ Settled(c, t).status \in {"pending", "serving"}
          /\ Settled(c, t).status = "serving" => t >= Basket[c].total
      BY <1>0, <2>1, <2>2, SettledSound
    <2>5. ASSUME NEW o \in Orders PROVE Sound(order'[o]) /\ Owes(o)'
      <3>1. CASE o = c
        <4>1. order'[o] = Settled(c, t) /\ tendered'[o] = t
          BY <2>3, <3>1 DEF TypeOK
        <4> QED
          BY <2>4, <3>1, <4>1 DEF Owes
      <3>2. CASE o # c
        <4>1. order'[o] = order[o] /\ tendered'[o] = tendered[o]
          BY <2>3, <3>2 DEF TypeOK
        <4> QED
          BY <1>0, <4>1 DEF Owes
      <3> QED
        BY <3>1, <3>2
    <2> QED
      BY <2>5
  <1>4. ASSUME NEW r \in Sessions, CommitRelease(r)
        PROVE  \A o \in Orders : Sound(order'[o]) /\ Owes(o)'
    <2> TAKE o \in Orders
    <2>1. tendered' = tendered /\ (order'[o] = order[o] \/ order'[o] = Cancelled(o))
      BY <1>4 DEF CommitRelease
    <2>2. Cancelled(o).status = "cancelled"
      BY <1>0 DEF Cancelled, OrderState
    <2> QED
      BY <1>0, <2>1, <2>2 DEF Sound, Owes
  <1>5. ASSUME NEW c \in Orders, NEW target \in ServingStatuses, Serve(c, target)
        PROVE  \A o \in Orders : Sound(order'[o]) /\ Owes(o)'
    <2> DEFINE new == [order[c] EXCEPT !.serving = target,
                                       !.status = IF target = "served" THEN "completed" ELSE @]
    <2>1. order' = [order EXCEPT ![c] = new] /\ tendered' = tendered
      BY <1>0, <1>5 DEF Serve, OrderState
    <2>2. target # "none"
      BY <1>5 DEF Serve, ServingTargets
    <2>3. Sound(new) /\ new.status \in {"serving", "completed"}
      BY <1>0, <1>5, <2>2 DEF Serve, OrderState, Sound
    <2>4. Owes(c) /\ order[c].status = "serving"
      BY <1>0, <1>5 DEF Serve
    <2> HIDE DEF new
    <2>5. ASSUME NEW o \in Orders PROVE Sound(order'[o]) /\ Owes(o)'
      <3>1. CASE o = c
        BY <2>1, <2>3, <2>4, <3>1 DEF Owes, TypeOK
      <3>2. CASE o # c
        BY <1>0, <2>1, <3>2 DEF Owes, TypeOK
      <3> QED
        BY <3>1, <3>2
    <2> QED
      BY <2>5
  <1>6. ASSUME NEW c \in Orders, ReservationLapses(c)
        PROVE  \A o \in Orders : Sound(order'[o]) /\ Owes(o)'
    <2> DEFINE new == [order[c] EXCEPT !.lapsed = TRUE]
    <2>1. order' = [order EXCEPT ![c] = new] /\ tendered' = tendered
      BY <1>0, <1>6 DEF ReservationLapses, OrderState
    <2>2. Sound(new) /\ new.status = order[c].status
      BY <1>0 DEF OrderState, Sound
    <2> HIDE DEF new
    <2> QED
      BY <1>0, <2>1, <2>2 DEF Owes, TypeOK
  <1>7. CASE UNCHANGED order /\ UNCHANGED tendered
    BY <1>7 DEF PendingIsUnserved, SettledInFull
  <1> QED
    BY <1>1, <1>2, <1>3, <1>4, <1>5, <1>6, <1>7
    DEF Next, Work, Advance, Arrive, LockRow, StartOrder, RefuseOrder, CheckDrawer, StartPayment,
        LockForPayment, StartRefund, RefundPoints, CommitRefund, DuplicateKey, StartCancel,
        StartSweep, LockExpired, SkipPaid, RevertEffects, CloseDrawer, Abort, Restart, sales, vars

LEMMA NextChargedOnce ==
    ASSUME TypeOK, ChargedOnce, [Next]_vars
    PROVE  ChargedOnce'
  <1>1. ASSUME NEW r \in Sessions, CommitPayment(r) PROVE ChargedOnce'
    <2> SUFFICES ASSUME NEW k \in Payments, Tender[k].keyed PROVE charged'[k] <= 1
      BY DEF ChargedOnce
    <2>1. charged[k] \in Nat /\ charged[k] <= 1
      BY DEF ChargedOnce, TypeOK
    <2>2. CASE k = session[r].arg
      <3>1. charged[k] = 0
        BY <1>1, <2>2 DEF CommitPayment, KeyUnused
      <3>2. charged'[k] = charged[k] + 1
        BY <1>1, <2>2 DEF CommitPayment, TypeOK
      <3> QED
        BY <3>1, <3>2
    <2>3. CASE k # session[r].arg
      <3>1. charged'[k] = charged[k]
        BY <1>1, <2>3 DEF CommitPayment, TypeOK
      <3> QED
        BY <2>1, <3>1
    <2> QED
      BY <2>2, <2>3
  <1>2. CASE UNCHANGED charged
    BY <1>2 DEF ChargedOnce
  <1>3. CASE \E r \in Sessions : Advance(r)
    <2>1. PICK r \in Sessions : Advance(r)
      BY <1>3
    <2>2. CommitPayment(r) \/ UNCHANGED charged
      BY <2>1 DEF Advance, LockRow, RefuseOrder, CheckDrawer, CommitOrder, LockForPayment,
                  RefundPoints, CommitRefund, DuplicateKey, LockExpired, SkipPaid, RevertEffects,
                  CommitRelease, sales
    <2> QED
      BY <1>1, <1>2, <2>2
  <1>4. CASE \E r \in Sessions : Arrive(r) \/ StartSweep(r) \/ Abort(r)
    BY <1>2, <1>4 DEF Arrive, StartOrder, StartCancel, StartPayment, StartRefund, StartSweep,
                      Abort, sales
  <1>5. CASE Restart \/ CloseDrawer \/ UNCHANGED vars
    BY <1>2, <1>5 DEF Restart, CloseDrawer, sales, vars
  <1>6. CASE \E o \in Orders : (\E target \in ServingStatuses : Serve(o, target))
                               \/ ReservationLapses(o)
    BY <1>2, <1>6 DEF Serve, ReservationLapses
  <1> QED
    BY <1>3, <1>4, <1>5, <1>6 DEF Next, Work, Sessions

-----------------------------------------------------------------------------
(* The theorems *)

LEMMA InitIInv == Init => IInv
  <1> SUFFICES ASSUME Init PROVE IInv
    OBVIOUS
  <1>1. \A r \in Sessions : session[r] = Idle
    BY DEF Init
  <1>2. SessionsWellFormed
    BY <1>1, IdleWellFormed DEF SessionsWellFormed
  <1>3. OrdersGuarded
    BY <1>1, IdleHolds DEF OrdersGuarded
  <1>4. PendingIsReserved
    BY DEF Init, PendingIsReserved
  <1>5. PendingIsUnserved /\ SettledInFull /\ ChargedOnce
    BY DEF Init, PendingIsUnserved, SettledInFull, ChargedOnce
  <1> QED
    BY <1>2, <1>3, <1>4, <1>5, InitTypeOK, InitStockSafe DEF IInv, StockSafe

LEMMA NextIInv == IInv /\ [Next]_vars => IInv'
  BY NextTypeOK, NextWellFormed, NextStockSafe, NextPendingIsReserved, NextOrdersGuarded,
     NextSettled, NextChargedOnce
  DEF IInv, StockSafe

\* Whatever the sessions do, IInv holds: the session records, locks, rows and
\* orders stay consistent with each other.
THEOREM Invariance == Spec => []IInv
  BY InitIInv, NextIInv, PTL DEF Spec

\* The variables keep their types.
THEOREM TypeCorrect == Spec => []TypeOK
  <1>1. IInv => TypeOK
    BY DEF IInv
  <1> QED
    BY <1>1, Invariance, PTL

\* No interleaving of carts, refunds, cancellations and sweeps loses an update
\* of a product's stock: the stock is always what the movements say.
THEOREM StockIsExact == Spec => []StockMatchesMovements
  <1>1. IInv => StockMatchesMovements
    BY DEF IInv
  <1> QED
    BY <1>1, Invariance, PTL

\* However many tills compete for the last units, none is sold twice.
THEOREM NoOverselling == Spec => []NeverOversold
  <1>1. IInv => NeverOversold
    BY DEF IInv
  <1> QED
    BY <1>1, Invariance, PTL

\* Money is only taken for an order that still holds its reservation.
THEOREM PaymentsAreForReservedOrders == Spec => PaidOnlyWhileReserved
  <1> DEFINE A == \A o \in Orders : tendered'[o] # tendered[o] =>
                    order[o].status = "pending" /\ order[o].reservation = "reserved"
  <1>1. IInv /\ [Next]_vars => A
    <2> SUFFICES ASSUME IInv, [Next]_vars, NEW o \in Orders, tendered'[o] # tendered[o]
                 PROVE  order[o].status = "pending" /\ order[o].reservation = "reserved"
      OBVIOUS
    <2>1. PICK r \in Sessions : CommitPayment(r)
      <3>1. ASSUME NEW r \in Sessions, Advance(r), ~CommitPayment(r)
            PROVE  FALSE
        BY <3>1 DEF Advance, LockRow, RefuseOrder, CheckDrawer, CommitOrder, LockForPayment,
                    RefundPoints, CommitRefund, DuplicateKey, LockExpired, SkipPaid,
                    RevertEffects, CommitRelease, sales
      <3>2. ASSUME NEW r \in Requests, Arrive(r)
            PROVE  FALSE
        BY <3>2 DEF Arrive, StartOrder, StartCancel, StartPayment, StartRefund, sales
      <3>3. ASSUME NEW r \in Sessions, StartSweep(r) \/ Abort(r)
            PROVE  FALSE
        BY <3>3 DEF StartSweep, Abort, sales
      <3> QED
        BY <3>1, <3>2, <3>3
        DEF Next, Work, Serve, ReservationLapses, CloseDrawer, Restart, sales, vars
    <2>2. o = session[r].cur
      BY <2>1 DEF CommitPayment, IInv, TypeOK
    <2>3. order[o].status = "pending"
      BY <2>1, <2>2 DEF CommitPayment, IInv, OrdersGuarded, Holds
    <2> QED
      BY <2>3 DEF IInv, PendingIsReserved
  <1>2. IInv /\ [Next]_vars => [A]_vars
    BY <1>1
  <1> QED
    BY <1>2, Invariance, PTL DEF Spec, PaidOnlyWhileReserved

\* Who changes a pending order that has money on it: a payment of it, a request
\* that cancels it, or the clock, once.
LEMMA PaidOrderChanges ==
    ASSUME IInv, [Next]_vars, NEW o \in Orders, tendered[o] > 0, order[o].status = "pending",
           order'[o] # order[o]
    PROVE  \/ Paying(o) /\ order'[o].status # "cancelled"
           \/ Cancelling(o)
           \/ ~order[o].lapsed /\ order'[o].status # "cancelled"
  <1>1. TypeOK /\ SessionsWellFormed /\ OrdersGuarded /\ order[o] \in OrderState
    BY OrderFields DEF IInv
  <1>2. ASSUME NEW r \in Sessions, CommitOrder(r) PROVE FALSE
    BY <1>1, <1>2 DEF CommitOrder, TypeOK
  <1>3. ASSUME NEW r \in Sessions, CommitPayment(r)
        PROVE  Paying(o) /\ order'[o].status # "cancelled"
    <2> DEFINE t == tendered[session[r].cur] + Tender[session[r].arg].amount
    <2>1. order' = [order EXCEPT ![session[r].cur] = Settled(session[r].cur, t)]
      BY <1>3 DEF CommitPayment
    <2> HIDE DEF t
    <2>2. session[r].cur = o /\ order'[o] = Settled(o, t)
      BY <1>1, <2>1 DEF TypeOK
    <2>3. Settled(o, t).status \in {"pending", "serving"}
      BY <1>1 DEF Settled, OrderState
    <2>4. session[r].op = "pay" /\ session[r].stage = "ready" /\ r # Loop
      BY <1>1, <1>3 DEF CommitPayment, SessionsWellFormed, WellFormed
    <2> QED
      BY <2>2, <2>3, <2>4 DEF Paying, Sessions
  <1>4. ASSUME NEW r \in Sessions, CommitRelease(r) PROVE Cancelling(o)
    <2>1. o \in session[r].done /\ session[r].stage = "ready"
      BY <1>4 DEF CommitRelease
    <2>2. session[r].op # "sweep"
      BY <1>1, <2>1 DEF OrdersGuarded, Holds, TypeOK
    <2>3. session[r].op = "cancel" /\ session[r].cur = o /\ r # Loop
      BY <1>1, <1>4, <2>1, <2>2 DEF CommitRelease, SessionsWellFormed, WellFormed
    <2> QED
      BY <2>3 DEF Cancelling, Sessions
  <1>5. ASSUME NEW q \in Orders, NEW target \in ServingStatuses, Serve(q, target) PROVE FALSE
    BY <1>1, <1>5 DEF Serve, TypeOK
  <1>6. ASSUME NEW q \in Orders, ReservationLapses(q)
        PROVE  ~order[o].lapsed /\ order'[o].status # "cancelled"
    BY <1>1, <1>6 DEF ReservationLapses, TypeOK, OrderState
  <1>7. ASSUME NEW r \in Sessions,
               \/ LockRow(r) \/ LockForPayment(r) \/ RefundPoints(r) \/ RevertEffects(r)
               \/ RefuseOrder(r) \/ DuplicateKey(r) \/ Abort(r) \/ CheckDrawer(r)
               \/ LockExpired(r) \/ SkipPaid(r) \/ Arrive(r) \/ StartSweep(r) \/ CommitRefund(r)
        PROVE  FALSE
    <2>1. CASE Arrive(r)
      BY <2>1 DEF Arrive, StartOrder, StartCancel, StartPayment, StartRefund, sales
    <2>2. CASE ~Arrive(r)
      BY <1>7, <2>2 DEF LockRow, LockForPayment, RefundPoints, RevertEffects, RefuseOrder, DuplicateKey,
                 Abort, CheckDrawer, LockExpired, SkipPaid, StartSweep, CommitRefund, sales
    <2> QED
      BY <2>1, <2>2
  <1>8. ~(CloseDrawer \/ Restart \/ UNCHANGED vars)
    BY DEF CloseDrawer, Restart, vars, sales
  <1> QED
    BY <1>2, <1>3, <1>4, <1>5, <1>6, <1>7, <1>8, StepCases

\* A sweep never cancels an order somebody has put money on: only a request to
\* cancel that very order does.  Once its reservation has expired, nothing at all
\* becomes of such an order but by that request, or by a payment that was let
\* through before the reservation expired.
THEOREM SweepSparesPaidOrders == Spec => PaidNeverSwept
  <1> DEFINE A == \A o \in Orders : tendered[o] > 0 /\ order[o].status = "pending" =>
            /\ order'[o].status = "cancelled" => Cancelling(o)
            /\ order[o].lapsed /\ order'[o] # order[o] => Cancelling(o) \/ Paying(o)
  <1>1. IInv /\ [Next]_vars => A
    BY PaidOrderChanges
  <1>2. IInv /\ [Next]_vars => [A]_vars
    BY <1>1
  <1> QED
    BY <1>2, Invariance, PTL DEF Spec, PaidNeverSwept

\* Whatever is in the kitchen or served has been paid in full.
THEOREM ServedIsPaid == Spec => []SettledInFull
  <1>1. IInv => SettledInFull
    BY DEF IInv
  <1> QED
    BY <1>1, Invariance, PTL

\* A keyed payment is inserted at most once, however often it is sent.
THEOREM NoDoubleCharge == Spec => []ChargedOnce
  <1>1. IInv => ChargedOnce
    BY DEF IInv
  <1> QED
    BY <1>1, Invariance, PTL
=============================================================================
