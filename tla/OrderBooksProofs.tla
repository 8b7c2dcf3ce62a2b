-------------------------- MODULE OrderBooksProofs --------------------------
(***************************************************************************)
(* What the order desk writes is right: TrackInv is an invariant of the    *)
(* specification, so the loyalty ledger and the usage counters match the   *)
(* orders, carts never deadlock each other, and the concurrent sessions    *)
(* implement the atomic sales of SaleContract.                             *)
(***************************************************************************)
EXTENDS OrderLifecycleProofs, SumTheorems

-----------------------------------------------------------------------------
(* The sums the sessions build up *)

LEMMA UnitsType ==
    ASSUME NEW p \in Products, NEW o \in Orders
    PROVE  Units(p)[o] = Basket[o].items[p] /\ Units(p)[o] \in Nat
  BY BasketFields DEF Units

LEMMA GainsType ==
    ASSUME NEW c \in Customers, NEW points \in [Orders -> Nat], NEW o \in Orders
    PROVE  /\ Gains(c, points)[o] =
                IF c \in CustomerOf(o) THEN points[o] - Basket[o].redeem ELSE 0
           /\ Gains(c, points)[o] \in Int
  BY BasketFields DEF Gains

LEMMA UnitsSum ==
    ASSUME NEW p \in Products, NEW S \in SUBSET Orders, IsFiniteSet(S)
    PROVE  SumFunctionOnSet(Units(p), S) \in Int
  BY SumType, UnitsType

LEMMA LinesFinite ==
    ASSUME NEW o \in Orders
    PROVE  IsFiniteSet(ItemsOf(o)) /\ IsFiniteSet(ItemsOf(o) \cup CustomerOf(o) \cup PromotionOf(o))
  <1>1. IsFiniteSet(ItemsOf(o))
    BY LinesAssumption DEF ItemsOf
  <1>2. IsFiniteSet(CustomerOf(o)) /\ IsFiniteSet(PromotionOf(o))
    <2>1. IsFiniteSet({Basket[o].customer}) /\ IsFiniteSet({Basket[o].promotion})
      BY FS_Singleton
    <2>2. CustomerOf(o) \in SUBSET {Basket[o].customer} /\ PromotionOf(o) \in SUBSET {Basket[o].promotion}
      BY DEF CustomerOf, PromotionOf
    <2> QED
      BY <2>1, <2>2, FS_Subset
  <1> QED
    BY <1>1, <1>2, FS_Union

LEMMA GainsSum ==
    ASSUME NEW c \in Customers, NEW points \in [Orders -> Nat],
           NEW S \in SUBSET Orders, IsFiniteSet(S)
    PROVE  SumFunctionOnSet(Gains(c, points), S) \in Int
  BY SumType, GainsType

-----------------------------------------------------------------------------
(* What one session does leaves the others' records true *)

\* The orders a session relies on: the cancelled or swept ones, the one it pays.
SparesOthers(r, locks, orders, paid, points) ==
    /\ \A q \in Sessions, x \in Lockable : q # r => (locks[x] = q <=> holder[x] = q)
    /\ \A o \in Orders :
          /\ order[o].status \notin {"absent", "pending"}
                => orders[o].status \notin {"absent", "pending"}
          /\ holder[o] \notin {None, r} =>
                /\ order[o].status \notin {"absent", "cancelled"}
                        => orders[o].status \notin {"absent", "cancelled"}
                /\ paid[o] = tendered[o]
                /\ points[o] = earned[o]

LEMMA OthersStillTracked ==
    ASSUME IInv, SessionsTracked, NEW r, NEW locks, NEW orders, NEW paid,
           NEW points \in [Orders -> Nat],
           SparesOthers(r, locks, orders, paid, points), NEW q \in Sessions, q # r
    PROVE  Tracked(q, session[q], locks, orders, paid, points)
  <1> DEFINE s == session[q]
  <1>1. Tracked(q, s, holder, order, tendered, earned)
    BY DEF SessionsTracked
  <1>2. WellFormed(q, s) /\ Holds(q, s, holder, order, tendered) /\ q # None /\ earned \in [Orders -> Nat]
    BY DistinctAssumption DEF IInv, SessionsWellFormed, OrdersGuarded, TypeOK
  <1>3. s.queue \in SUBSET Orders /\ s.done \in SUBSET Orders /\ s.cur \in Orders \cup {None}
    BY SessionFields DEF IInv
  <1>4. ASSUME NEW o \in Orders, holder[o] = q
        PROVE  /\ order[o].status \notin {"absent", "cancelled"}
                    => orders[o].status \notin {"absent", "cancelled"}
               /\ paid[o] = tendered[o] /\ points[o] = earned[o]
    BY <1>2, <1>4 DEF SparesOthers
  <1>5. Aimed(s, orders)
    <2>1. s.op = "refund" => s.cur \in Orders
      BY <1>2, ReturnFields DEF WellFormed
    <2>2. s.op = "cancel" => s.cur \in Orders /\ holder[s.cur] = q
      BY <1>2 DEF WellFormed, Holds
    <2> QED
      BY <1>1, <1>4, <2>1, <2>2 DEF Tracked, Aimed, SparesOthers
  <1>6. Recorded(s, paid, points)
    <2>1. ASSUME NEW c \in Customers, ~(s.op = "refund" /\ s.stage = "ready")
          PROVE  PointsDelta(s, c, paid, points) = PointsDelta(s, c, tendered, earned)
      <3>1. CASE s.op = "pay"
        <4>1. s.stage = "ready" => s.cur \in Orders /\ holder[s.cur] = q
          BY <1>2, <3>1, TenderFields DEF WellFormed, Holds
        <4> QED
          BY <1>4, <3>1, <4>1 DEF PointsDelta
      <3>2. CASE s.op \in {"cancel", "sweep"} /\ s.stage # "started"
        <4>1. ASSUME NEW o \in s.done PROVE holder[o] = q
          BY <1>2, <3>2 DEF WellFormed, Holds
        <4>2. \A o \in s.done : Gains(c, points)[o] = Gains(c, earned)[o]
          BY <1>2, <1>3, <1>4, <4>1, GainsType
        <4>3. IsFiniteSet(s.done)
          BY <1>1 DEF Tracked, OnCourse
        <4>4. SumFunctionOnSet(Gains(c, points), s.done) = SumFunctionOnSet(Gains(c, earned), s.done)
          BY <4>2, <4>3, SumSame
        <4> QED
          BY <3>2, <4>4 DEF PointsDelta
      <3> QED
        BY <3>1, <3>2 DEF PointsDelta
    <2> QED
      BY <1>1, <2>1 DEF Tracked, Recorded
  <1>7. \A x \in Lockable : locks[x] = q <=> holder[x] = q
    BY DEF SparesOthers
  <1>8. Queued(q, s, locks)
    BY <1>1, <1>7 DEF Tracked, Queued, Lockable
  <1>9. Sweeping(q, s, locks, paid)
    BY <1>1, <1>4, <1>7 DEF Tracked, Sweeping, Lockable
  <1> QED
    BY <1>1, <1>5, <1>6, <1>8, <1>9 DEF Tracked

LEMMA TrackedStep ==
    ASSUME IInv, SessionsTracked, NEW r \in Sessions, NEW s,
           session' = [session EXCEPT ![r] = s],
           earned' \in [Orders -> Nat],
           SparesOthers(r, holder', order', tendered', earned'),
           Tracked(r, s, holder', order', tendered', earned')
    PROVE  SessionsTracked'
  <1>1. ASSUME NEW q \in Sessions
        PROVE  Tracked(q, session'[q], holder', order', tendered', earned')
    <2>1. CASE q = r
      BY <2>1 DEF IInv, TypeOK
    <2>2. CASE q # r
      <3>1. session'[q] = session[q]
        BY <2>2 DEF IInv, TypeOK
      <3> QED
        BY <2>2, <3>1, OthersStillTracked
    <2> QED
      BY <2>1, <2>2
  <1> QED
    BY <1>1 DEF SessionsTracked

LEMMA IdleTracked ==
    ASSUME NEW r, NEW locks, NEW orders, NEW paid, NEW points,
           \A x \in Lockable : locks[x] # r
    PROVE  Tracked(r, Idle, locks, orders, paid, points)
  <1>1. \A x \in Rows : Idle.delta[x] = 0
    BY DEF Idle
  <1>2. /\ OnCourse(Idle) /\ Aimed(Idle, orders) /\ Queued(r, Idle, locks)
        /\ Sweeping(r, Idle, locks, paid)
    BY FS_EmptySet DEF Idle, OnCourse, Aimed, Queued, Sweeping
  <1>3. \A p \in Products : StockDelta(Idle, p) = 0
    BY DEF Idle, StockDelta
  <1>4. \A c \in Customers : PointsDelta(Idle, c, paid, points) = 0
    BY DEF Idle, PointsDelta
  <1>5. Recorded(Idle, paid, points) /\ Bounded(Idle)
    BY <1>1, <1>3, <1>4 DEF Recorded, Bounded, Idle, Rows
  <1> QED
    BY <1>2, <1>5 DEF Tracked

LEMMA EndSessionTracked ==
    ASSUME IInv, SessionsTracked, NEW r \in Sessions, EndSession(r),
           earned' \in [Orders -> Nat],
           SparesOthers(r, holder', order', tendered', earned')
    PROVE  SessionsTracked'
  <1>1. r # None
    BY DistinctAssumption
  <1>2. \A x \in Lockable : holder'[x] # r
    BY <1>1 DEF EndSession
  <1>3. Tracked(r, Idle, holder', order', tendered', earned')
    BY <1>2, IdleTracked
  <1>4. session' = [session EXCEPT ![r] = Idle]
    BY DEF EndSession
  <1> QED
    BY <1>3, <1>4, TrackedStep

\* A session that is rolled back.
LEMMA RollbackTracked ==
    ASSUME IInv, SessionsTracked, NEW r \in Sessions, EndSession(r), UNCHANGED sales
    PROVE  SessionsTracked'
  <1>1. SparesOthers(r, holder', order', tendered', earned')
    BY DistinctAssumption DEF EndSession, SparesOthers, sales, Lockable
  <1>2. earned' \in [Orders -> Nat]
    BY DEF sales, IInv, TypeOK
  <1> QED
    BY <1>1, <1>2, EndSessionTracked

LEMMA CommitTracked ==
    ASSUME IInv, IInv', SessionsTracked, NEW r \in Sessions,
           \/ CommitOrder(r) \/ CommitPayment(r) \/ CommitRefund(r) \/ CommitRelease(r)
    PROVE  SessionsTracked'
  <1> DEFINE s == session[r]
             o == s.cur
  <1>1. /\ TypeOK /\ earned' \in [Orders -> Nat]
        /\ WellFormed(r, s) /\ Holds(r, s, holder, order, tendered)
    BY DEF IInv, TypeOK, SessionsWellFormed, OrdersGuarded
  <1>2. EndSession(r) /\ \A q \in Sessions, x \in Lockable : q # r => (holder'[x] = q <=> holder[x] = q)
    BY DistinctAssumption DEF CommitOrder, CommitPayment, CommitRefund, CommitRelease,
                              EndSession, Lockable
  <1>3. CASE CommitOrder(r)
    <2>1. \A x \in Orders : x # o => order'[x] = order[x]
      BY <1>1, <1>3 DEF CommitOrder, TypeOK
    <2>2. order[o].status = "absent" /\ UNCHANGED <<tendered, earned>>
      BY <1>3 DEF CommitOrder
    <2>3. SparesOthers(r, holder', order', tendered', earned')
      BY <1>2, <2>1, <2>2 DEF SparesOthers
    <2> QED
      BY <1>1, <1>2, <2>3, EndSessionTracked
  <1>4. CASE CommitPayment(r)
    <2>1. o \in Orders /\ holder[o] = r /\ order[o].status = "pending"
      BY <1>1, <1>4, TenderFields DEF CommitPayment, WellFormed, Holds
    <2>2. \A x \in Orders : x # o =>
             order'[x] = order[x] /\ tendered'[x] = tendered[x] /\ earned'[x] = earned[x]
      BY <1>1, <1>4 DEF CommitPayment, TypeOK
    <2>3. SparesOthers(r, holder', order', tendered', earned')
      BY <1>2, <2>1, <2>2 DEF SparesOthers
    <2> QED
      BY <1>1, <1>2, <2>3, EndSessionTracked
  <1>5. CASE CommitRefund(r)
    <2>1. UNCHANGED <<order, tendered, earned>>
      BY <1>5 DEF CommitRefund
    <2>2. SparesOthers(r, holder', order', tendered', earned')
      BY <1>2, <2>1 DEF SparesOthers
    <2> QED
      BY <1>1, <1>2, <2>2, EndSessionTracked
  <1>6. CASE CommitRelease(r)
    <2>1. \A x \in s.done : holder[x] = r
      BY <1>1, <1>6 DEF CommitRelease, WellFormed, Holds
    <2>2. \A x \in Orders : order'[x] = IF x \in s.done THEN Cancelled(x) ELSE order[x]
      BY <1>6 DEF CommitRelease
    <2>3. \A x \in Orders : order[x] \in OrderState => Cancelled(x).status = "cancelled"
      BY DEF Cancelled, OrderState
    <2>4. UNCHANGED <<tendered, earned>>
      BY <1>6 DEF CommitRelease
    <2>5. SparesOthers(r, holder', order', tendered', earned')
      BY <1>1, <1>2, <2>1, <2>2, <2>3, <2>4 DEF SparesOthers, TypeOK
    <2> QED
      BY <1>1, <1>2, <2>5, EndSessionTracked
  <1> QED
    BY <1>3, <1>4, <1>5, <1>6

\* A step of a session that writes nothing to the tables.
LEMMA QuietTracked ==
    ASSUME IInv, SessionsTracked, NEW r \in Sessions, NEW s,
           session' = [session EXCEPT ![r] = s], UNCHANGED sales,
           \A x \in Lockable : holder'[x] # holder[x] => holder[x] \in {None, r} /\ holder'[x] = r,
           OnCourse(s), Aimed(s, order), Recorded(s, tendered, earned), Bounded(s),
           Queued(r, s, holder'), Sweeping(r, s, holder', tendered)
    PROVE  SessionsTracked'
  <1>1. earned' \in [Orders -> Nat] /\ tendered' = tendered /\ earned' = earned /\ order' = order
    BY DEF sales, IInv, TypeOK
  <1>2. \A q \in Sessions, x \in Lockable : q # r => (holder'[x] = q <=> holder[x] = q)
    BY DistinctAssumption
  <1>3. SparesOthers(r, holder', order', tendered', earned')
    BY <1>1, <1>2 DEF SparesOthers
  <1>4. Tracked(r, s, holder', order', tendered', earned')
    BY <1>1 DEF Tracked
  <1> QED
    BY <1>1, <1>3, <1>4, TrackedStep

-----------------------------------------------------------------------------
(* The sessions' steps keep their records *)

\* What the record says of session r.
LEMMA Record ==
    ASSUME IInv, SessionsTracked, NEW r \in Sessions
    PROVE  /\ TypeOK /\ SessionsWellFormed
           /\ WellFormed(r, session[r]) /\ Holds(r, session[r], holder, order, tendered)
           /\ OnCourse(session[r]) /\ Aimed(session[r], order)
           /\ Recorded(session[r], tendered, earned) /\ Bounded(session[r])
           /\ Queued(r, session[r], holder) /\ Sweeping(r, session[r], holder, tendered)
           /\ r # None /\ session[r] \in SessionState
  BY DistinctAssumption DEF IInv, TypeOK, SessionsTracked, Tracked, SessionsWellFormed, OrdersGuarded

\* A new request: nothing is locked, loaded or added up yet.
LEMMA StartTracked ==
    ASSUME IInv, SessionsTracked, NEW r \in Sessions, session[r] = Idle, NEW s \in SessionState,
           session' = [session EXCEPT ![r] = s], UNCHANGED sales,
           s.loaded = {}, s.delta = [x \in Rows |-> 0], s.done = {},
           s.stage = "locking" => s.op = "create" \/ s.op = "refund" \/ s.op = "cancel",
           s.stage # "ready", s.op # "idle",
           \A x \in Lockable : holder'[x] # holder[x] => holder[x] \in {None, r} /\ holder'[x] = r,
           \A x \in Rows : holder'[x] = holder[x], s.op = "sweep" => holder' = holder,
           OnCourse(s), Aimed(s, order),
           s.op = "create" => ItemsOf(s.cur) \cup CustomerOf(s.cur) \subseteq s.todo /\ s.cur \in Orders,
           s.op = "refund" => s.arg \in Refunds /\ {p \in Products : Return[s.arg].items[p] > 0} \subseteq s.todo,
           s.op = "cancel" => s.cur \in Orders /\ ItemsOf(s.cur) \subseteq s.todo
    PROVE  SessionsTracked'
  <1>0. \A x \in Lockable : holder[x] # r
    BY Record DEF Queued, Idle
  <1>1. \A x \in Rows : s.delta[x] = 0 /\ holder[x] # r
    BY <1>0 DEF Lockable
  <1>2. \A p \in Products : s.delta[p] = 0 /\ p \in Rows
    BY <1>1 DEF Rows
  <1>3. ASSUME NEW p \in Products PROVE StockDelta(s, p) = 0
    <2>1. CASE s.op = "create"
      BY <2>1, BasketFields DEF StockDelta, ItemsOf
    <2>2. CASE s.op = "refund"
      BY <2>2, ReturnFields DEF StockDelta
    <2>3. CASE s.op \in {"cancel", "sweep"} /\ s.stage # "started"
      <3>1. s.op = "cancel" /\ s.stage = "locking"
        BY <2>3 DEF OnCourse
      <3>2. SumFunctionOnSet(Units(p), s.done) = 0
        BY SumEmpty
      <3>3. (IF s.stage = "locking" /\ p \notin s.todo THEN Basket[s.cur].items[p] ELSE 0) = 0
        BY <3>1, BasketFields DEF ItemsOf
      <3> QED
        BY <2>3, <3>2, <3>3 DEF StockDelta
    <2> QED
      BY <2>1, <2>2, <2>3 DEF StockDelta
  <1>4. ASSUME NEW c \in Customers PROVE PointsDelta(s, c, tendered, earned) = 0
    <2>1. CASE s.op = "create"
      BY <2>1 DEF PointsDelta
    <2>2. CASE s.op = "pay"
      BY <2>2 DEF PointsDelta
    <2>3. CASE s.op \in {"cancel", "sweep"} /\ s.stage # "started"
      <3>1. SumFunctionOnSet(Gains(c, earned), s.done) = 0
        BY SumEmpty
      <3> QED
        BY <2>3, <3>1 DEF PointsDelta
    <2> QED
      BY <2>1, <2>2, <2>3 DEF PointsDelta
  <1>5. Recorded(s, tendered, earned)
    BY <1>1, <1>2, <1>3, <1>4 DEF Recorded, Rows
  <1>6. Bounded(s)
    BY <1>1 DEF Bounded, Rows
  <1>7. Queued(r, s, holder')
    BY <1>1 DEF Queued
  <1>8. Sweeping(r, s, holder', tendered)
    BY <1>0 DEF Sweeping, Lockable
  <1> QED
    BY <1>5, <1>6, <1>7, <1>8, QuietTracked

LEMMA ArriveTracked ==
    ASSUME IInv, SessionsTracked, OrdersTracked, NEW r \in Sessions, Arrive(r) \/ StartSweep(r)
    PROVE  SessionsTracked'
  <1>0. \A o \in Orders : o \in Lockable /\ o \notin Rows
    BY OrderFields DEF IInv
  <1>1. ASSUME NEW o \in Orders, StartOrder(r, o) PROVE SessionsTracked'
    <2> DEFINE u == [Idle EXCEPT !.op = "create", !.cur = o, !.stage = "locking",
                        !.todo = ItemsOf(o) \cup CustomerOf(o) \cup PromotionOf(o)]
    <2>1. ItemsOf(o) \cup CustomerOf(o) \cup PromotionOf(o) \in SUBSET Rows
      BY ItemsType
    <2>2. u \in SessionState
      BY <2>1, IdleType DEF SessionState, Operations, Stages
    <2>3. /\ u.op = "create" /\ u.cur = o /\ u.stage = "locking" /\ u.queue = {} /\ u.done = {}
          /\ u.todo = ItemsOf(o) \cup CustomerOf(o) \cup PromotionOf(o)
          /\ u.loaded = {} /\ u.delta = [x \in Rows |-> 0]
      BY DEF Idle
    <2>4. /\ session[r] = Idle /\ session' = [session EXCEPT ![r] = u] /\ UNCHANGED sales
          /\ holder' = holder
      BY <1>1 DEF StartOrder
    <2> HIDE DEF u
    <2>5. OnCourse(u) /\ Aimed(u, order)
      BY <2>3, LinesFinite, FS_EmptySet DEF OnCourse, Aimed
    <2> QED
      BY <2>2, <2>3, <2>4, <2>5, StartTracked
  <1>2. ASSUME NEW o \in Orders, StartCancel(r, o) PROVE SessionsTracked'
    <2> DEFINE u == [Idle EXCEPT !.op = "cancel", !.cur = o, !.stage = "locking",
                        !.todo = ItemsOf(o)]
    <2>1. u \in SessionState
      BY ItemsType, IdleType DEF SessionState, Operations, Stages
    <2>2. /\ u.op = "cancel" /\ u.cur = o /\ u.stage = "locking" /\ u.queue = {} /\ u.done = {}
          /\ u.todo = ItemsOf(o) /\ u.loaded = {} /\ u.delta = [x \in Rows |-> 0]
      BY DEF Idle
    <2>3. /\ session[r] = Idle /\ session' = [session EXCEPT ![r] = u] /\ UNCHANGED sales
          /\ holder' = [holder EXCEPT ![o] = r] /\ holder[o] \in {None, r}
      BY <1>2 DEF StartCancel, OrderFree, RowFree
    <2>4. order[o].status \notin {"absent", "cancelled"}
      BY <1>2 DEF StartCancel, Cancellable
    <2> HIDE DEF u
    <2>5. OnCourse(u) /\ Aimed(u, order)
      <3>1. IsFiniteSet(u.todo) /\ u.todo \subseteq Products
        BY <2>2, LinesFinite DEF ItemsOf
      <3> QED
        BY <2>2, <2>4, <3>1, FS_EmptySet DEF OnCourse, Aimed
    <2>6. /\ \A x \in Lockable : holder'[x] # holder[x] => holder[x] \in {None, r} /\ holder'[x] = r
          /\ \A x \in Rows : holder'[x] = holder[x]
      BY <1>0, <2>3 DEF IInv, TypeOK, Lockable
    <2> QED
      BY <2>1, <2>2, <2>3, <2>5, <2>6, StartTracked
  <1>3. ASSUME NEW k \in Payments, StartPayment(r, k) PROVE SessionsTracked'
    <2> DEFINE u == [Idle EXCEPT !.op = "pay", !.cur = Tender[k].order, !.arg = k,
                        !.stage = "started"]
    <2>1. u \in SessionState
      BY TenderFields, IdleType DEF SessionState, Operations, Stages
    <2>2. /\ u.op = "pay" /\ u.stage = "started" /\ u.queue = {} /\ u.done = {} /\ u.todo = {}
          /\ u.loaded = {} /\ u.delta = [x \in Rows |-> 0]
      BY DEF Idle
    <2>3. /\ session[r] = Idle /\ session' = [session EXCEPT ![r] = u] /\ UNCHANGED sales
          /\ holder' = holder
      BY <1>3 DEF StartPayment
    <2> HIDE DEF u
    <2>4. OnCourse(u) /\ Aimed(u, order)
      BY <2>2, FS_EmptySet DEF OnCourse, Aimed
    <2> QED
      BY <2>1, <2>2, <2>3, <2>4, StartTracked
  <1>4. ASSUME NEW k \in Refunds, StartRefund(r, k) PROVE SessionsTracked'
    <2> DEFINE X == {p \in Products : Return[k].items[p] > 0}
               u == [Idle EXCEPT !.op = "refund", !.cur = Return[k].order, !.arg = k,
                        !.stage = "locking", !.todo = X]
    <2>1. X \in SUBSET Rows /\ X \in SUBSET Products
      BY DEF Rows
    <2>2. u \in SessionState
      BY <2>1, ReturnFields, IdleType DEF SessionState, Operations, Stages
    <2>3. /\ u.op = "refund" /\ u.cur = Return[k].order /\ u.arg = k /\ u.stage = "locking"
          /\ u.queue = {} /\ u.done = {} /\ u.todo = X
          /\ u.loaded = {} /\ u.delta = [x \in Rows |-> 0]
      BY DEF Idle
    <2>4. /\ session[r] = Idle /\ session' = [session EXCEPT ![r] = u] /\ UNCHANGED sales
          /\ holder' = holder /\ order[Return[k].order].status \in {"serving", "completed"}
      BY <1>4 DEF StartRefund
    <2> HIDE DEF u
    <2>5. OnCourse(u) /\ Aimed(u, order)
      <3>1. IsFiniteSet(u.todo)
        BY <2>3, LinesAssumption
      <3> QED
        BY <2>1, <2>3, <2>4, <3>1, FS_EmptySet DEF OnCourse, Aimed
    <2> QED
      BY <2>2, <2>3, <2>4, <2>5, StartTracked
  <1>5. CASE StartSweep(r)
    <2> DEFINE u == [Idle EXCEPT !.op = "sweep", !.stage = "started", !.queue = Expired]
    <2>1. u \in SessionState
      BY IdleType DEF SessionState, Operations, Stages, Expired
    <2>2. /\ u.op = "sweep" /\ u.stage = "started" /\ u.queue = Expired /\ u.done = {}
          /\ u.todo = {} /\ u.loaded = {} /\ u.delta = [x \in Rows |-> 0]
      BY DEF Idle
    <2>3. /\ session[r] = Idle /\ session' = [session EXCEPT ![r] = u] /\ UNCHANGED sales
          /\ holder' = holder
      BY <1>5 DEF StartSweep
    <2>4. IsFiniteSet(Expired)
      <3>1. Expired \subseteq {o \in Orders : order[o].status # "absent"}
        BY DEF Expired
      <3> QED
        BY <3>1, FS_Subset DEF OrdersTracked
    <2> HIDE DEF u
    <2>5. OnCourse(u) /\ Aimed(u, order)
      BY <2>2, <2>4, FS_EmptySet DEF OnCourse, Aimed
    <2> QED
      BY <2>1, <2>2, <2>3, <2>5, StartTracked
  <1> QED
    BY <1>1, <1>2, <1>3, <1>4, <1>5 DEF Arrive

\* What one more row does to the session that locks it.
TakesRow(r, x, u) ==
    /\ x \in Rows /\ x \in session[r].todo /\ x \in NextRows(r)
    /\ RowFree(r, x) /\ Admits(r, x)
    /\ Share(r, x) \in Int /\ session[r].stage = "locking"
    /\ holder' = [holder EXCEPT ![x] = r]
    /\ session' = [session EXCEPT ![r] = u]
    /\ u \in SessionState
    /\ u.op = session[r].op /\ u.stage = session[r].stage /\ u.cur = session[r].cur
    /\ u.arg = session[r].arg /\ u.queue = session[r].queue /\ u.done = session[r].done
    /\ u.todo = session[r].todo \ {x}
    /\ u.loaded = session[r].loaded \cup {x}
    /\ \A y \in Rows :
          /\ u.seen[y] = IF y = x /\ x \notin session[r].loaded THEN value[x] ELSE session[r].seen[y]
          /\ u.delta[y] = IF y = x THEN session[r].delta[x] + Share(r, x) ELSE session[r].delta[y]

LEMMA LockRowRecord ==
    ASSUME IInv, NEW r \in Sessions, LockRow(r)
    PROVE  \E x, u : TakesRow(r, x, u)
  <1>1. PICK x \in NextRows(r) :
            /\ RowFree(r, x) /\ Admits(r, x)
            /\ holder' = [holder EXCEPT ![x] = r]
            /\ session' = [session EXCEPT ![r] =
                 [Touched(r, {x}, [y \in {x} |-> Share(r, x)]) EXCEPT !.todo = @ \ {x}]]
    BY DEF LockRow
  <1> DEFINE t == Touched(r, {x}, [y \in {x} |-> Share(r, x)])
             u == [t EXCEPT !.todo = @ \ {x}]
  <1>2. TypeOK /\ SessionsWellFormed /\ session[r].stage = "locking"
    BY DEF LockRow, IInv
  <1>3. x \in Rows /\ x \in session[r].todo /\ Share(r, x) \in Int /\ t \in SessionState
    BY <1>2, LockRowTouches DEF NextRows
  <1>4. /\ t.loaded = session[r].loaded \cup {x}
        /\ t.seen = [y \in Rows |-> IF y \in {x} \ session[r].loaded THEN value[y]
                                                                   ELSE session[r].seen[y]]
        /\ t.delta = [y \in Rows |-> IF y \in {x} THEN session[r].delta[y] + Share(r, x)
                                                ELSE session[r].delta[y]]
    BY <1>2, TouchedRows
  <1>5. /\ t.op = session[r].op /\ t.stage = session[r].stage /\ t.cur = session[r].cur
        /\ t.arg = session[r].arg /\ t.queue = session[r].queue /\ t.done = session[r].done
        /\ t.todo = session[r].todo
    BY <1>2, TouchedControl
  <1> HIDE DEF t
  <1>6. /\ u \in SessionState /\ u.todo = t.todo \ {x}
        /\ u.loaded = t.loaded /\ u.seen = t.seen /\ u.delta = t.delta
        /\ u.op = t.op /\ u.stage = t.stage /\ u.cur = t.cur
        /\ u.arg = t.arg /\ u.queue = t.queue /\ u.done = t.done
    BY <1>3 DEF SessionState
  <1>7. session' = [session EXCEPT ![r] = u]
    BY <1>1 DEF t
  <1> HIDE DEF u
  <1>8. \A y \in Rows :
          /\ u.seen[y] = IF y = x /\ x \notin session[r].loaded THEN value[x] ELSE session[r].seen[y]
          /\ u.delta[y] = IF y = x THEN session[r].delta[x] + Share(r, x) ELSE session[r].delta[y]
    BY <1>4, <1>6
  <1>9. TakesRow(r, x, u)
    BY <1>1, <1>2, <1>3, <1>4, <1>5, <1>6, <1>7, <1>8 DEF TakesRow
  <1> QED
    BY <1>9

LEMMA LockRowTracked ==
    ASSUME IInv, SessionsTracked, UsageCountInRange, NEW r \in Sessions, LockRow(r)
    PROVE  SessionsTracked'
  <1> DEFINE s == session[r]
  <1>1. PICK x, u : TakesRow(r, x, u)
    BY LockRowRecord
  <1>2. /\ TypeOK /\ WellFormed(r, s) /\ OnCourse(s) /\ Aimed(s, order)
        /\ Recorded(s, tendered, earned) /\ Bounded(s) /\ Queued(r, s, holder)
        /\ Sweeping(r, s, holder, tendered)
        /\ s.cur \in Orders /\ s.delta \in [Rows -> Int] /\ s.seen \in [Rows -> Int]
    BY <1>1, Record, SessionFields DEF TakesRow, WellFormed
  <1>3. /\ u.op = s.op /\ u.stage = s.stage /\ u.cur = s.cur /\ u.arg = s.arg
        /\ u.queue = s.queue /\ u.done = s.done /\ u.todo = s.todo \ {x} /\ x \in s.todo
        /\ s.stage = "locking" /\ x \in Rows
    BY <1>1 DEF TakesRow
  <1>4. \A y \in Rows :
          /\ u.seen[y] = IF y = x /\ x \notin s.loaded THEN value[x] ELSE s.seen[y]
          /\ u.delta[y] = IF y = x THEN s.delta[x] + Share(r, x) ELSE s.delta[y]
    BY <1>1 DEF TakesRow
  <1>5. s.op \in {"create", "refund", "cancel", "sweep"}
    BY <1>2, <1>3 DEF OnCourse, SessionState, TypeOK, Operations, Idle
  <1>6. s.op # "create" => x \in Products
    BY <1>2, <1>3 DEF OnCourse
  <1>7. OnCourse(u) /\ Aimed(u, order)
    <2>1. IsFiniteSet(u.todo)
      BY <1>2, <1>3, FS_Subset DEF OnCourse
    <2> QED
      BY <1>2, <1>3, <1>5, <2>1 DEF OnCourse, Aimed
  <1>8. ASSUME NEW p \in Products PROVE u.delta[p] = StockDelta(u, p)
    <2>1. s.delta[p] = StockDelta(s, p) /\ p \in Rows /\ p \notin Customers /\ p \notin Promotions
      BY <1>2, ProductsAreRows DEF Recorded
    <2>2. Basket[s.cur].items[p] \in Nat
      BY <1>2, BasketFields
    <2>3. CASE s.op = "create"
      <3>1. StockDelta(s, p) = IF p \in s.todo THEN 0 ELSE -Basket[s.cur].items[p]
        BY <2>3 DEF StockDelta
      <3>2. StockDelta(u, p) = IF p \in u.todo THEN 0 ELSE -Basket[s.cur].items[p]
        BY <1>3, <2>3 DEF StockDelta
      <3>3. p = x => Share(r, x) = -Basket[s.cur].items[p]
        BY <2>1, <2>3 DEF Share
      <3> QED
        BY <1>3, <1>4, <2>1, <2>2, <3>1, <3>2, <3>3
    <2>4. CASE s.op = "refund"
      <3>1. StockDelta(s, p) = IF p \in s.todo THEN 0 ELSE Return[s.arg].items[p]
        BY <2>4 DEF StockDelta
      <3>2. StockDelta(u, p) = IF p \in u.todo THEN 0 ELSE Return[s.arg].items[p]
        BY <1>3, <2>4 DEF StockDelta
      <3>3. p = x => Share(r, x) = Return[s.arg].items[p]
        BY <2>1, <2>4 DEF Share
      <3>4. Return[s.arg].items[p] \in Nat
        BY <1>2, <2>4, ReturnFields DEF WellFormed
      <3> QED
        BY <1>3, <1>4, <2>1, <3>1, <3>2, <3>3, <3>4
    <2>5. CASE s.op \in {"cancel", "sweep"}
      <3> DEFINE sum == SumFunctionOnSet(Units(p), s.done)
      <3>1. StockDelta(s, p) = sum + IF p \notin s.todo THEN Basket[s.cur].items[p] ELSE 0
        BY <1>3, <2>5 DEF StockDelta
      <3>2. StockDelta(u, p) = sum + IF p \notin u.todo THEN Basket[s.cur].items[p] ELSE 0
        BY <1>3, <2>5 DEF StockDelta
      <3>3. p = x => Share(r, x) = Basket[s.cur].items[p]
        BY <2>1, <2>5 DEF Share
      <3>4. sum \in Int
        BY <1>2, UnitsSum, SessionFields DEF OnCourse
      <3> HIDE DEF sum
      <3> QED
        BY <1>3, <1>4, <2>1, <2>2, <3>1, <3>2, <3>3, <3>4
    <2> QED
      BY <1>5, <2>3, <2>4, <2>5
  <1>9. ASSUME NEW c \in Customers PROVE u.delta[c] = PointsDelta(u, c, tendered, earned)
    <2>1. s.delta[c] = PointsDelta(s, c, tendered, earned) /\ c \in Rows
      BY <1>2, <1>3 DEF Recorded, Rows
    <2>2. CASE s.op = "create"
      <3>1. PointsDelta(s, c, tendered, earned) =
              IF c \in CustomerOf(s.cur) \ s.todo THEN -Basket[s.cur].redeem ELSE 0
        BY <2>2 DEF PointsDelta
      <3>2. PointsDelta(u, c, tendered, earned) =
              IF c \in CustomerOf(s.cur) \ u.todo THEN -Basket[s.cur].redeem ELSE 0
        BY <1>3, <2>2 DEF PointsDelta
      <3>3. c = x => Share(r, x) = -Basket[s.cur].redeem
        BY DEF Share
      <3>4. c = x => c \in CustomerOf(s.cur)
        BY <1>2, <1>3, <2>2, DistinctAssumption DEF OnCourse, ItemsOf, PromotionOf
      <3>5. Basket[s.cur].redeem \in Nat
        BY <1>2, BasketFields
      <3> QED
        BY <1>3, <1>4, <2>1, <3>1, <3>2, <3>3, <3>4, <3>5
    <2>3. CASE s.op # "create"
      <3>1. c # x
        BY <1>6, <2>3, DistinctAssumption
      <3>2. PointsDelta(u, c, tendered, earned) = PointsDelta(s, c, tendered, earned)
        BY <1>3, <2>3 DEF PointsDelta
      <3> QED
        BY <1>4, <2>1, <3>1, <3>2
    <2> QED
      BY <2>2, <2>3
  <1>10. Recorded(u, tendered, earned)
    BY <1>8, <1>9 DEF Recorded
  <1>11. ASSUME NEW k \in Promotions
         PROVE  IF k \in u.loaded THEN u.seen[k] + u.delta[k] \in 0 .. UsageLimit[k] ELSE u.delta[k] = 0
    <2>1. /\ k \in Rows /\ value[k] \in 0 .. UsageLimit[k] /\ UsageLimit[k] \in Nat
          /\ s.seen[k] \in Int /\ s.delta[k] \in Int
          /\ IF k \in s.loaded THEN s.seen[k] + s.delta[k] \in 0 .. UsageLimit[k] ELSE s.delta[k] = 0
      BY <1>2, RowAssumption DEF Rows, UsageCountInRange, Bounded
    <2>2. u.loaded = s.loaded \cup {x}
      BY <1>1 DEF TakesRow
    <2>3. CASE k # x
      BY <1>4, <2>1, <2>2, <2>3
    <2>4. CASE k = x
      <3>1. s.op = "create" /\ Share(r, x) = 1
        BY <1>6, <2>4, DistinctAssumption DEF Share
      <3>2. Local(r, x) < UsageLimit[x]
        BY <1>1, <2>4, <3>1 DEF TakesRow, Admits, UsesLeft
      <3>3. u.seen[k] + u.delta[k] = Local(r, x) + 1 /\ Local(r, x) >= 0
        BY <1>4, <2>1, <2>4, <3>1 DEF Local
      <3>4. Local(r, x) \in Int
        BY <1>2, <1>3, LocalType
      <3> QED
        BY <2>1, <2>2, <2>4, <3>2, <3>3, <3>4
    <2> QED
      BY <2>3, <2>4
  <1>12. ASSUME NEW c \in Customers, u.op \in {"create", "refund"}, u.delta[c] # 0
         PROVE  u.seen[c] + u.delta[c] >= 0
    <2>1. /\ c \in Rows /\ s.seen[c] \in Int /\ s.delta[c] \in Int /\ value[c] \in Int
          /\ s.delta[c] # 0 => s.seen[c] + s.delta[c] >= 0
      BY <1>2, <1>3, <1>12 DEF Rows, Bounded, TypeOK
    <2>2. CASE c # x
      BY <1>4, <1>12, <2>1, <2>2
    <2>3. CASE c = x
      <3>1. s.op = "create" /\ Share(r, x) = -Basket[s.cur].redeem /\ Basket[s.cur].redeem \in Nat
        BY <1>2, <1>6, <2>3, DistinctAssumption, BasketFields DEF Share
      <3>2. s.delta[c] = 0
        BY <1>2, <1>3, <2>3, <3>1 DEF Recorded, PointsDelta
      <3>3. Basket[s.cur].redeem > 0
        BY <1>4, <1>12, <2>1, <2>3, <3>1, <3>2
      <3>4. Local(r, x) >= Basket[s.cur].redeem
        BY <1>1, <2>3, <3>1, <3>3 DEF TakesRow, Admits, EnoughPoints
      <3>5. u.seen[c] + u.delta[c] = Local(r, x) - Basket[s.cur].redeem
        BY <1>4, <2>1, <2>3, <3>1, <3>2 DEF Local
      <3>6. Local(r, x) \in Int
        BY <1>2, <1>3, LocalType
      <3> QED
        BY <3>1, <3>4, <3>5, <3>6
    <2> QED
      BY <2>2, <2>3
  <1>13. Bounded(u)
    BY <1>11, <1>12 DEF Bounded
  <1>14. \A y \in Rows : holder'[y] = IF y = x THEN r ELSE holder[y]
    BY <1>1, <1>2 DEF TakesRow, TypeOK, Lockable
  <1>15. Queued(r, u, holder')
    <2>1. u.op # "idle"
      BY <1>3, <1>5
    <2>2. ASSUME u.op = "create", NEW y \in Rows, u.delta[y] # 0 PROVE holder'[y] = r
      BY <1>2, <1>3, <1>4, <1>14, <2>2 DEF Queued
    <2>3. ASSUME u.op = "create", NEW y \in Rows, holder'[y] = r
          PROVE  /\ y \in ItemsOf(u.cur) \cup CustomerOf(u.cur) \cup PromotionOf(u.cur)
                 /\ \A z \in u.todo : Precedes(y, z) /\ y # z
      <3>1. CASE y = x
        BY <1>1, <1>2, <1>3, <2>3, <3>1 DEF TakesRow, NextRows, OnCourse
      <3>2. CASE y # x
        BY <1>2, <1>3, <1>14, <2>3, <3>2 DEF Queued
      <3> QED
        BY <3>1, <3>2
    <2> QED
      BY <2>1, <2>2, <2>3 DEF Queued
  <1>16. \A y \in Lockable : holder'[y] # holder[y] => holder[y] \in {None, r} /\ holder'[y] = r
    BY <1>1, <1>2 DEF TakesRow, TypeOK, RowFree
  <1>17. UNCHANGED sales /\ session' = [session EXCEPT ![r] = u]
    BY <1>1 DEF LockRow, TakesRow
  <1>18. Sweeping(r, u, holder', tendered)
    <2>1. \A o \in Orders : holder'[o] = r => holder[o] = r
      BY <1>1, <1>2, <1>3, OrderFields DEF TakesRow, IInv, TypeOK
    <2> QED
      BY <1>2, <1>3, <2>1 DEF Sweeping
  <1> QED
    BY <1>7, <1>10, <1>13, <1>15, <1>16, <1>17, <1>18, QuietTracked

\* Record t is session r's after d has been added to the customers X.
AddsPoints(r, X, d, t) ==
    /\ \A x \in Products \cup Promotions :
          /\ x \in t.loaded <=> x \in session[r].loaded
          /\ t.seen[x] = session[r].seen[x]
          /\ t.delta[x] = session[r].delta[x]
    /\ \A c \in Customers \ X :
          /\ t.seen[c] = session[r].seen[c]
          /\ t.delta[c] = session[r].delta[c]
    /\ \A c \in X :
          /\ t.seen[c] = IF c \in session[r].loaded THEN session[r].seen[c] ELSE value[c]
          /\ t.delta[c] = session[r].delta[c] + d[c]

LEMMA TouchedCustomers ==
    ASSUME TypeOK, NEW r \in Sessions, NEW X \in SUBSET Customers, NEW d
    PROVE  AddsPoints(r, X, d, Touched(r, X, d))
  <1> DEFINE t == Touched(r, X, d)
  <1>1. \A x \in Products \cup Promotions : x \notin X /\ x \in Rows
    BY DistinctAssumption DEF Rows
  <1>2. \A c \in Customers : c \in Rows
    BY DEF Rows
  <1>3. /\ t.loaded = session[r].loaded \cup X
        /\ t.seen = [x \in Rows |-> IF x \in X \ session[r].loaded THEN value[x] ELSE session[r].seen[x]]
        /\ t.delta = [x \in Rows |-> IF x \in X THEN session[r].delta[x] + d[x] ELSE session[r].delta[x]]
    BY TouchedRows
  <1> HIDE DEF t
  <1>4. AddsPoints(r, X, d, t)
    BY <1>1, <1>2, <1>3 DEF AddsPoints
  <1> QED
    BY <1>4 DEF t

LEMMA CompletesWhen ==
    ASSUME TypeOK, NEW k \in Payments
    PROVE  Completes(k) <=>
             tendered[Tender[k].order] + Tender[k].amount >= Basket[Tender[k].order].total
  <1>1. /\ Tender[k].order \in Orders /\ Tender[k].amount \in Nat
        /\ tendered[Tender[k].order] \in Nat /\ Basket[Tender[k].order].total \in Nat
    BY TenderFields, BasketFields DEF TypeOK
  <1> QED
    BY <1>1 DEF Completes, Settlement, Lesser

LEMMA CheckDrawerTracked ==
    ASSUME IInv, SessionsTracked, NEW r \in Sessions, CheckDrawer(r)
    PROVE  SessionsTracked'
  <1> DEFINE s == session[r]
             u == [s EXCEPT !.stage = "ready"]
  <1>1. CASE drawerOpen
    <2>1. /\ s \in SessionState /\ OnCourse(s) /\ Aimed(s, order)
          /\ Recorded(s, tendered, earned) /\ Bounded(s) /\ Queued(r, s, holder)
      BY Record
    <2>2. /\ session' = [session EXCEPT ![r] = u] /\ UNCHANGED sales /\ holder' = holder
          /\ s.op = "create" /\ s.todo = {} /\ s.stage = "locking"
      BY <1>1, <2>1 DEF CheckDrawer
    <2>3. /\ u.op = s.op /\ u.cur = s.cur /\ u.arg = s.arg /\ u.stage = "ready" /\ u.todo = s.todo
          /\ u.queue = s.queue /\ u.done = s.done /\ u.loaded = s.loaded /\ u.seen = s.seen
          /\ u.delta = s.delta
      BY <2>1 DEF SessionState
    <2> HIDE DEF u
    <2>4. OnCourse(u)
      BY <2>1, <2>2, <2>3 DEF OnCourse
    <2>5. Aimed(u, order)
      BY <2>1, <2>3 DEF Aimed
    <2>6. \A p \in Products : StockDelta(u, p) = StockDelta(s, p)
      BY <2>2, <2>3 DEF StockDelta
    <2>7. \A c \in Customers : PointsDelta(u, c, tendered, earned) = PointsDelta(s, c, tendered, earned)
      BY <2>2, <2>3 DEF PointsDelta
    <2>8. Recorded(u, tendered, earned)
      BY <2>1, <2>2, <2>3, <2>6, <2>7 DEF Recorded
    <2>9. Bounded(u)
      BY <2>1, <2>3 DEF Bounded
    <2>10. Queued(r, u, holder') /\ Sweeping(r, u, holder', tendered)
      BY <2>1, <2>2, <2>3 DEF Queued, Sweeping
    <2> QED
      BY <2>2, <2>4, <2>5, <2>8, <2>9, <2>10, QuietTracked
  <1>2. CASE ~drawerOpen
    BY <1>2, RollbackTracked DEF CheckDrawer
  <1> QED
    BY <1>1, <1>2

LEMMA LockForPaymentTracked ==
    ASSUME IInv, SessionsTracked, NEW r \in Sessions, LockForPayment(r)
    PROVE  SessionsTracked'
  <1> DEFINE s == session[r]
             o == s.cur
             d == [x \in Rows |-> Basket[o].total]
             t == Touched(r, Earners(r), d)
             u == [t EXCEPT !.stage = "ready"]
  <1>1. /\ s \in SessionState /\ OnCourse(s) /\ TypeOK /\ SessionsWellFormed /\ WellFormed(r, s)
        /\ Recorded(s, tendered, earned) /\ Bounded(s) /\ Queued(r, s, holder)
        /\ s.op = "pay" /\ s.stage = "started"
    BY Record DEF LockForPayment
  <1>2. CASE PaymentAllowed(s.arg)
    <2>1. /\ session' = [session EXCEPT ![r] = u] /\ UNCHANGED sales
          /\ holder' = [holder EXCEPT ![o] = r] /\ holder[o] \in {None, r}
      BY <1>2 DEF LockForPayment, Earners, OrderFree, RowFree
    <2>2. /\ t \in SessionState /\ o \in Orders /\ Earners(r) \in SUBSET Customers
          /\ s.arg \in Payments /\ o = Tender[s.arg].order
      BY <1>1, PaymentTouches DEF WellFormed
    <2>3. /\ t.op = "pay" /\ t.cur = o /\ t.arg = s.arg /\ t.queue = s.queue /\ t.done = s.done
          /\ t.todo = s.todo
      BY <1>1, TouchedControl
    <2>4. AddsPoints(r, Earners(r), d, t)
      BY <1>1, <2>2, TouchedCustomers
    <2> HIDE DEF t
    <2>5. /\ u.op = "pay" /\ u.stage = "ready" /\ u.cur = o /\ u.arg = s.arg /\ u.queue = s.queue
          /\ u.done = s.done /\ u.todo = s.todo /\ u.loaded = t.loaded /\ u.seen = t.seen
          /\ u.delta = t.delta
      BY <2>2, <2>3 DEF SessionState
    <2>6. session' = [session EXCEPT ![r] = u]
      BY <2>1
    <2> HIDE DEF u
    <2>7. OnCourse(u) /\ Aimed(u, order)
      BY <1>1, <2>5 DEF OnCourse, Aimed
    <2>8. ASSUME NEW p \in Products PROVE u.delta[p] = StockDelta(u, p)
      BY <1>1, <2>4, <2>5 DEF Recorded, StockDelta, AddsPoints
    <2>9. ASSUME NEW c \in Customers PROVE u.delta[c] = PointsDelta(u, c, tendered, earned)
      <3>1. s.delta[c] = 0 /\ c \in Rows
        BY <1>1 DEF Recorded, PointsDelta, Rows
      <3>2. PointsDelta(u, c, tendered, earned) = IF c \in Earners(r) THEN Basket[o].total ELSE 0
        BY <1>1, <2>2, <2>5, CompletesWhen DEF PointsDelta, Earners
      <3>3. Basket[o].total \in Nat
        BY <2>2, BasketFields
      <3> QED
        BY <2>4, <2>5, <3>1, <3>2, <3>3 DEF AddsPoints
    <2>10. Recorded(u, tendered, earned)
      BY <2>8, <2>9 DEF Recorded
    <2>11. Bounded(u)
      BY <1>1, <2>4, <2>5 DEF Bounded, AddsPoints
    <2>12. Queued(r, u, holder') /\ Sweeping(r, u, holder', tendered)
      BY <2>5 DEF Queued, Sweeping
    <2>13. \A x \in Lockable : holder'[x] # holder[x] => holder[x] \in {None, r} /\ holder'[x] = r
      BY <1>1, <2>1 DEF TypeOK
    <2> QED
      BY <2>1, <2>6, <2>7, <2>10, <2>11, <2>12, <2>13, QuietTracked
  <1>3. CASE ~PaymentAllowed(s.arg)
    BY <1>3, RollbackTracked DEF LockForPayment
  <1> QED
    BY <1>2, <1>3

LEMMA RefundPointsTracked ==
    ASSUME IInv, SessionsTracked, NEW r \in Sessions, RefundPoints(r)
    PROVE  SessionsTracked'
  <1> DEFINE s == session[r]
             X == CustomerOf(s.cur)
             d == [c \in X |-> -Reversal(r, c)]
             t == Touched(r, X, d)
             u == [t EXCEPT !.stage = "ready"]
  <1>1. /\ s \in SessionState /\ OnCourse(s) /\ TypeOK /\ SessionsWellFormed /\ WellFormed(r, s)
        /\ Aimed(s, order)
        /\ Recorded(s, tendered, earned) /\ Bounded(s) /\ Queued(r, s, holder)
        /\ s.op = "refund" /\ s.stage = "locking" /\ s.todo = {}
    BY Record DEF RefundPoints
  <1>2. session' = [session EXCEPT ![r] = u] /\ UNCHANGED sales /\ holder' = holder
    BY DEF RefundPoints
  <1>3. t \in SessionState /\ s.cur \in Orders /\ X \in SUBSET Customers
    BY <1>1, RefundTouches DEF CustomerOf
  <1>4. /\ t.op = "refund" /\ t.cur = s.cur /\ t.arg = s.arg /\ t.queue = s.queue /\ t.done = s.done
        /\ t.todo = s.todo
    BY <1>1, TouchedControl
  <1>5. AddsPoints(r, X, d, t)
    BY <1>1, <1>3, TouchedCustomers
  <1> HIDE DEF t
  <1>6. /\ u.op = "refund" /\ u.stage = "ready" /\ u.cur = s.cur /\ u.arg = s.arg
        /\ u.queue = s.queue /\ u.done = s.done /\ u.todo = s.todo /\ u.loaded = t.loaded
        /\ u.seen = t.seen /\ u.delta = t.delta
    BY <1>3, <1>4 DEF SessionState
  <1> HIDE DEF u
  <1>7. OnCourse(u) /\ Aimed(u, order)
    BY <1>1, <1>6 DEF OnCourse, Aimed
  <1>8. \A p \in Products : u.delta[p] = StockDelta(u, p)
    BY <1>1, <1>5, <1>6 DEF Recorded, StockDelta, AddsPoints
  <1>9. Recorded(u, tendered, earned)
    BY <1>6, <1>8 DEF Recorded
  <1>10. ASSUME NEW c \in Customers, u.delta[c] # 0 PROVE u.seen[c] + u.delta[c] >= 0
    <2>1. s.delta[c] = 0 /\ c \in Rows
      BY <1>1 DEF Recorded, PointsDelta, Rows
    <2>2. c \in X
      BY <1>5, <1>6, <1>10, <2>1 DEF AddsPoints
    <2>3. /\ u.seen[c] = Local(r, c) /\ Local(r, c) \in Int
          /\ u.delta[c] = -Reversal(r, c)
      <3>1. Local(r, c) \in Int /\ s.seen[c] \in Int /\ value[c] \in Int
        BY <1>1, <2>1, LocalType, SessionFields DEF TypeOK
      <3>2. Reversal(r, c) \in Int
        <4>1. Return[s.arg].amount \in Nat
          BY <1>1, ReturnFields DEF WellFormed
        <4> QED
          BY <3>1, <4>1 DEF Reversal, Lesser
      <3> QED
        BY <1>5, <1>6, <2>1, <2>2, <3>1, <3>2 DEF Local, AddsPoints
    <2>4. Return[s.arg].amount \in Nat
      BY <1>1, ReturnFields DEF WellFormed
    <2>5. Reversal(r, c) = 0 \/ Reversal(r, c) <= Local(r, c)
      BY <2>3, <2>4 DEF Reversal, Lesser
    <2>6. Reversal(r, c) \in Int
      BY <2>3, <2>4 DEF Reversal, Lesser
    <2> QED
      BY <1>10, <2>3, <2>5, <2>6
  <1>11. Bounded(u)
    BY <1>1, <1>5, <1>6, <1>10 DEF Bounded, AddsPoints
  <1>12. Queued(r, u, holder') /\ Sweeping(r, u, holder', tendered)
    BY <1>6 DEF Queued, Sweeping
  <1> QED
    BY <1>2, <1>7, <1>9, <1>11, <1>12, QuietTracked

LEMMA LockExpiredTracked ==
    ASSUME IInv, SessionsTracked, NEW r \in Sessions, LockExpired(r)
    PROVE  SessionsTracked'
  <1> DEFINE s == session[r]
  <1>1. PICK o \in s.queue :
            /\ RowFree(r, o)
            /\ holder' = [x \in Lockable |-> IF x \in {o} \cap Expired THEN r ELSE holder[x]]
            /\ session' = [session EXCEPT ![r] =
                    [s EXCEPT !.queue = @ \ {o}, !.done = @ \cup ({o} \cap Expired)]]
    BY LockExpiredSession DEF IInv
  <1> DEFINE u == [s EXCEPT !.queue = @ \ {o}, !.done = @ \cup ({o} \cap Expired)]
  <1>2. /\ s \in SessionState /\ OnCourse(s) /\ TypeOK
        /\ Recorded(s, tendered, earned) /\ Bounded(s) /\ Queued(r, s, holder)
        /\ Sweeping(r, s, holder, tendered)
        /\ s.op = "sweep" /\ s.stage = "started" /\ s.queue \in SUBSET Orders
    BY Record, SessionFields DEF LockExpired
  <1>3. /\ u.op = "sweep" /\ u.stage = "started" /\ u.queue = s.queue \ {o}
        /\ u.done = s.done \cup ({o} \cap Expired) /\ u.todo = s.todo
        /\ u.loaded = s.loaded /\ u.seen = s.seen /\ u.delta = s.delta
    BY <1>2 DEF SessionState
  <1>4. session' = [session EXCEPT ![r] = u] /\ UNCHANGED sales
    BY <1>1 DEF LockExpired
  <1> HIDE DEF u
  <1>5. IsFiniteSet(u.queue) /\ IsFiniteSet(u.done) /\ u.queue \cap u.done = {}
    <2>1. IsFiniteSet({o} \cap Expired)
      BY FS_Singleton, FS_Subset
    <2>2. IsFiniteSet(s.queue) /\ IsFiniteSet(s.done) /\ s.queue \cap s.done = {}
      BY <1>2 DEF OnCourse
    <2>3. IsFiniteSet(u.queue) /\ IsFiniteSet(u.done)
      BY <1>3, <2>1, <2>2, FS_Union, FS_Subset
    <2> QED
      BY <1>3, <2>2, <2>3
  <1>6. OnCourse(u) /\ Aimed(u, order)
    BY <1>2, <1>3, <1>5 DEF OnCourse, Aimed
  <1>7. \A p \in Products : u.delta[p] = StockDelta(u, p)
    BY <1>2, <1>3 DEF Recorded, StockDelta
  <1>8. \A c \in Customers : u.delta[c] = PointsDelta(u, c, tendered, earned)
    BY <1>2, <1>3 DEF Recorded, PointsDelta
  <1>9. Recorded(u, tendered, earned)
    BY <1>7, <1>8 DEF Recorded
  <1>10. Bounded(u)
    BY <1>2, <1>3 DEF Bounded
  <1>11. Queued(r, u, holder')
    BY <1>3 DEF Queued
  <1>12. \A x \in Lockable : holder'[x] # holder[x] => holder[x] \in {None, r} /\ holder'[x] = r
    BY <1>1 DEF RowFree
  <1>13. Sweeping(r, u, holder', tendered)
    BY <1>1, <1>2, <1>3 DEF Sweeping, Lockable
  <1> QED
    BY <1>4, <1>6, <1>9, <1>10, <1>11, <1>12, <1>13, QuietTracked

LEMMA SkipPaidTracked ==
    ASSUME IInv, SessionsTracked, NEW r \in Sessions, SkipPaid(r)
    PROVE  SessionsTracked'
  <1> DEFINE s == session[r]
             release == Unpaid(s.done)
  <1>1. /\ s \in SessionState /\ OnCourse(s) /\ TypeOK
        /\ Recorded(s, tendered, earned) /\ Bounded(s) /\ Queued(r, s, holder)
        /\ Sweeping(r, s, holder, tendered)
        /\ s.op = "sweep" /\ s.stage = "started" /\ s.queue = {} /\ s.done \in SUBSET Orders
    BY Record, SessionFields DEF SkipPaid
  <1>2. UNCHANGED sales /\ holder' = holder
    BY DEF SkipPaid
  <1>3. \A p \in Products : s.delta[p] = 0
    BY <1>1 DEF Recorded, StockDelta
  <1>4. \A c \in Customers : s.delta[c] = 0
    BY <1>1 DEF Recorded, PointsDelta
  <1>5. IsFiniteSet(release) /\ release \in SUBSET Orders
    BY <1>1, FS_Subset DEF OnCourse, Unpaid
  <1>6. ASSUME NEW u, session' = [session EXCEPT ![r] = u],
               u.op = "sweep", u.stage \in {"locking", "ready"}, u.done = {},
               u.loaded = s.loaded, u.seen = s.seen, u.delta = s.delta,
               OnCourse(u),
               u.stage = "locking" => u.cur \in Orders /\ u.todo = ItemsOf(u.cur),
               \A o \in release : u.stage = "locking" /\ o \in u.queue \cup {u.cur}
        PROVE  SessionsTracked'
    <2>1. ASSUME NEW p \in Products PROVE StockDelta(u, p) = 0
      <3>1. StockDelta(u, p) = SumFunctionOnSet(Units(p), {})
                + IF u.stage = "locking" /\ p \notin u.todo THEN Basket[u.cur].items[p] ELSE 0
        BY <1>6 DEF StockDelta
      <3>2. u.stage = "locking" /\ p \notin u.todo => Basket[u.cur].items[p] = 0
        BY <1>6, BasketFields DEF ItemsOf
      <3> QED
        BY <3>1, <3>2, SumEmpty
    <2>2. ASSUME NEW c \in Customers PROVE PointsDelta(u, c, tendered, earned) = 0
      <3>1. PointsDelta(u, c, tendered, earned) = -SumFunctionOnSet(Gains(c, earned), {})
        BY <1>6 DEF PointsDelta
      <3> QED
        BY <3>1, SumEmpty
    <2>3. Recorded(u, tendered, earned)
      BY <1>3, <1>4, <1>6, <2>1, <2>2 DEF Recorded
    <2>4. Bounded(u)
      BY <1>1, <1>6 DEF Bounded
    <2>5. Aimed(u, order) /\ Queued(r, u, holder')
      BY <1>6 DEF Aimed, Queued
    <2>6. Sweeping(r, u, holder', tendered)
      <3>1. ASSUME NEW o \in Orders, holder[o] = r, o \notin release PROVE tendered[o] > 0
        BY <1>1, <3>1 DEF Sweeping, Unpaid, TypeOK
      <3> QED
        BY <1>2, <1>6, <3>1 DEF Sweeping
    <2> QED
      BY <1>2, <1>6, <2>3, <2>4, <2>5, <2>6, QuietTracked
  <1>7. CASE /\ release = {}
             /\ session' = [session EXCEPT ![r] = [s EXCEPT !.stage = "ready", !.done = {}]]
    <2> DEFINE u == [s EXCEPT !.stage = "ready", !.done = {}]
    <2>1. /\ u.op = "sweep" /\ u.stage = "ready" /\ u.done = {} /\ u.loaded = s.loaded
          /\ u.seen = s.seen /\ u.delta = s.delta /\ u.todo = s.todo /\ u.queue = {}
      BY <1>1 DEF SessionState
    <2>2. session' = [session EXCEPT ![r] = u]
      BY <1>7
    <2> HIDE DEF u
    <2>3. OnCourse(u)
      BY <1>1, <2>1, FS_EmptySet DEF OnCourse
    <2> QED
      BY <1>6, <1>7, <2>1, <2>2, <2>3
  <1>8. ASSUME NEW o \in release, session' = [session EXCEPT ![r] =
                    [s EXCEPT !.stage = "locking", !.done = {}, !.cur = o,
                              !.queue = release \ {o}, !.todo = ItemsOf(o)]]
        PROVE  SessionsTracked'
    <2> DEFINE u == [s EXCEPT !.stage = "locking", !.done = {}, !.cur = o,
                              !.queue = release \ {o}, !.todo = ItemsOf(o)]
    <2>1. session' = [session EXCEPT ![r] = u]
      BY <1>8
    <2> HIDE DEF release
    <2>2. /\ u.op = "sweep" /\ u.stage = "locking" /\ u.done = {} /\ u.cur = o
          /\ u.queue = release \ {o} /\ u.todo = ItemsOf(o)
          /\ u.loaded = s.loaded /\ u.seen = s.seen /\ u.delta = s.delta
      BY <1>1 DEF SessionState
    <2> HIDE DEF u
    <2>3. IsFiniteSet(u.queue) /\ IsFiniteSet(u.done)
      BY <1>5, <2>2, FS_EmptySet, FS_Subset
    <2>4. OnCourse(u)
      <3>1. IsFiniteSet(u.todo) /\ u.todo \subseteq Products
        BY <1>5, <1>8, <2>2, LinesFinite DEF ItemsOf
      <3> QED
        BY <2>2, <2>3, <3>1 DEF OnCourse
    <2>5. o \in Orders
      BY <1>5, <1>8
    <2> QED
      BY <1>6, <2>1, <2>2, <2>4, <2>5
  <1> QED
    BY <1>7, <1>8, SkipPaidSession DEF IInv

\* The points and uses a release gives back; r's record after it is t.
RevertsTo(r, t) ==
    LET s == session[r]
    IN  /\ t \in SessionState
        /\ t.op = s.op /\ t.stage = s.stage /\ t.cur = s.cur /\ t.arg = s.arg
        /\ t.queue = s.queue /\ t.todo = s.todo /\ t.done = s.done \cup {s.cur}
        /\ t.loaded = s.loaded \cup Reverts(r)
        /\ \A x \in Rows :
              /\ t.seen[x] = IF x \in Reverts(r) \ s.loaded THEN value[x] ELSE s.seen[x]
              /\ t.delta[x] = IF x \in Reverts(r) THEN s.delta[x] + Reverted(r, x) ELSE s.delta[x]

LEMMA AfterRevertRecord ==
    ASSUME TypeOK, SessionsWellFormed, NEW r \in Sessions, session[r].stage = "locking"
    PROVE  RevertsTo(r, AfterRevert(r)) /\ session[r].cur \in Orders
  <1> DEFINE d == [x \in Reverts(r) |-> Reverted(r, x)]
             t == Touched(r, Reverts(r), d)
             u == [t EXCEPT !.done = @ \cup {session[r].cur}]
  <1>1. t \in SessionState /\ session[r].cur \in Orders
    BY RevertTouches
  <1>2. /\ t.op = session[r].op /\ t.stage = session[r].stage /\ t.cur = session[r].cur
        /\ t.arg = session[r].arg /\ t.queue = session[r].queue /\ t.done = session[r].done
        /\ t.todo = session[r].todo
    BY TouchedControl
  <1>3. /\ t.loaded = session[r].loaded \cup Reverts(r)
        /\ t.seen = [x \in Rows |-> IF x \in Reverts(r) \ session[r].loaded THEN value[x]
                                                                           ELSE session[r].seen[x]]
        /\ t.delta = [x \in Rows |-> IF x \in Reverts(r) THEN session[r].delta[x] + d[x]
                                                        ELSE session[r].delta[x]]
    BY TouchedRows
  <1>4. AfterRevert(r) = u
    BY DEF AfterRevert
  <1> HIDE DEF t
  <1>5. /\ u \in SessionState
        /\ u.op = t.op /\ u.stage = t.stage /\ u.cur = t.cur /\ u.arg = t.arg
        /\ u.queue = t.queue /\ u.todo = t.todo /\ u.done = t.done \cup {session[r].cur}
        /\ u.loaded = t.loaded /\ u.seen = t.seen /\ u.delta = t.delta
    BY <1>1 DEF SessionState
  <1> HIDE DEF u
  <1>6. RevertsTo(r, u)
    BY <1>1, <1>2, <1>3, <1>5 DEF RevertsTo
  <1> QED
    BY <1>1, <1>4, <1>6

LEMMA RevertEffectsTracked ==
    ASSUME IInv, SessionsTracked, UsageCountInRange, NEW r \in Sessions, RevertEffects(r)
    PROVE  SessionsTracked'
  <1> DEFINE s == session[r]
             t == AfterRevert(r)
  <1>1. /\ s \in SessionState /\ OnCourse(s) /\ TypeOK /\ SessionsWellFormed
        /\ WellFormed(r, s) /\ Aimed(s, order)
        /\ Recorded(s, tendered, earned) /\ Bounded(s) /\ Queued(r, s, holder)
        /\ Sweeping(r, s, holder, tendered)
        /\ s.op \in {"cancel", "sweep"} /\ s.stage = "locking" /\ s.todo = {}
        /\ s.queue \in SUBSET Orders /\ s.done \in SUBSET Orders
    BY Record, SessionFields DEF RevertEffects
  <1>2. UNCHANGED sales /\ holder' = holder
    BY DEF RevertEffects
  <1>3. RevertsTo(r, t) /\ s.cur \in Orders
    BY <1>1, AfterRevertRecord
  <1> HIDE DEF t
  <1>4. /\ s.cur \notin s.queue \cup s.done /\ IsFiniteSet(s.done) /\ IsFiniteSet(s.queue)
        /\ s.queue \cap s.done = {}
    BY <1>1 DEF OnCourse
  <1>5. IsFiniteSet(s.done \cup {s.cur})
    BY <1>4, FS_AddElement
  <1>6. ASSUME NEW p \in Products
        PROVE  t.delta[p] = SumFunctionOnSet(Units(p), s.done \cup {s.cur})
    <2>1. p \in Rows /\ p \notin Reverts(r)
      BY <1>3, ProductsAreRows, DistinctAssumption DEF Reverts, CustomerOf, PromotionOf
    <2>2. t.delta[p] = SumFunctionOnSet(Units(p), s.done) + Basket[s.cur].items[p]
      BY <1>1, <1>3, <2>1 DEF RevertsTo, Recorded, StockDelta
    <2>3. \A o \in s.done \cup {s.cur} : Units(p)[o] \in Int
      BY <1>1, <1>3, UnitsType
    <2>4. SumFunctionOnSet(Units(p), s.done \cup {s.cur})
            = SumFunctionOnSet(Units(p), s.done) + Units(p)[s.cur]
      BY <1>4, <2>3, SumAdd
    <2> QED
      BY <1>3, <2>2, <2>4, UnitsType
  <1>7. ASSUME NEW c \in Customers
        PROVE  t.delta[c] = -SumFunctionOnSet(Gains(c, earned), s.done \cup {s.cur})
    <2> DEFINE sum(S) == SumFunctionOnSet(Gains(c, earned), S)
    <2>0. earned \in [Orders -> Nat]
      BY <1>1 DEF TypeOK
    <2>1. c \in Rows /\ (c \in Reverts(r) <=> c \in CustomerOf(s.cur))
      BY DistinctAssumption DEF Reverts, Rows, PromotionOf
    <2>2. s.delta[c] = -sum(s.done)
      BY <1>1 DEF Recorded, PointsDelta
    <2>3. Reverted(r, c) = Basket[s.cur].redeem - earned[s.cur]
      BY DEF Reverted
    <2>4. Gains(c, earned)[s.cur] = IF c \in CustomerOf(s.cur) THEN earned[s.cur] - Basket[s.cur].redeem ELSE 0
      BY <1>3, <2>0, GainsType
    <2>5. \A o \in s.done \cup {s.cur} : Gains(c, earned)[o] \in Int
      BY <1>1, <1>3, <2>0, GainsType
    <2>6. sum(s.done \cup {s.cur}) = sum(s.done) + Gains(c, earned)[s.cur]
      BY <1>4, <2>5, SumAdd
    <2>7. sum(s.done) \in Int /\ earned[s.cur] \in Int /\ Basket[s.cur].redeem \in Int
      BY <1>1, <1>3, <1>4, <2>0, GainsSum, BasketFields
    <2>8. t.delta[c] = IF c \in CustomerOf(s.cur) THEN s.delta[c] + Reverted(r, c) ELSE s.delta[c]
      BY <1>3, <2>1 DEF RevertsTo
    <2> HIDE DEF sum
    <2>9. t.delta[c] = -sum(s.done \cup {s.cur})
      BY <2>2, <2>3, <2>4, <2>6, <2>7, <2>8
    <2> QED
      BY <2>9 DEF sum
  <1>8. Bounded(t)
    <2>1. ASSUME NEW k \in Promotions
          PROVE  IF k \in t.loaded THEN t.seen[k] + t.delta[k] \in 0 .. UsageLimit[k] ELSE t.delta[k] = 0
      <3>1. /\ k \in Rows /\ value[k] \in 0 .. UsageLimit[k] /\ UsageLimit[k] \in Nat
            /\ s.seen[k] \in Int /\ s.delta[k] \in Int
            /\ IF k \in s.loaded THEN s.seen[k] + s.delta[k] \in 0 .. UsageLimit[k] ELSE s.delta[k] = 0
        BY <1>1, SessionFields, RowAssumption DEF Rows, UsageCountInRange, Bounded
      <3>2. Local(r, k) \in 0 .. UsageLimit[k]
        BY <3>1 DEF Local
      <3>3. Reverted(r, k) = IF Local(r, k) > 0 THEN -1 ELSE 0
        BY DistinctAssumption DEF Reverted
      <3>4. CASE k \in Reverts(r)
        <4>1. k \in t.loaded /\ t.seen[k] + t.delta[k] = Local(r, k) + Reverted(r, k)
          BY <1>3, <3>1, <3>3, <3>4 DEF RevertsTo, Local
        <4> QED
          BY <3>1, <3>2, <3>3, <4>1
      <3>5. CASE k \notin Reverts(r)
        BY <1>3, <3>1, <3>5 DEF RevertsTo
      <3> QED
        BY <3>4, <3>5
    <2>2. t.op \notin {"create", "refund"}
      BY <1>1, <1>3 DEF RevertsTo
    <2> QED
      BY <2>1, <2>2 DEF Bounded
  <1>9. ASSUME NEW u, session' = [session EXCEPT ![r] = u],
               u.op = s.op, u.stage \in {"locking", "ready"}, u.done = s.done \cup {s.cur},
               u.loaded = t.loaded, u.seen = t.seen, u.delta = t.delta,
               OnCourse(u), s.op = "cancel" => u.cur = s.cur,
               u.stage = "locking" => u.cur \in Orders /\ u.todo = ItemsOf(u.cur),
               \A o \in s.queue : u.stage = "locking" /\ o \in u.queue \cup {u.cur}
        PROVE  SessionsTracked'
    <2>1. ASSUME NEW p \in Products PROVE u.delta[p] = StockDelta(u, p)
      <3> DEFINE sum == SumFunctionOnSet(Units(p), s.done \cup {s.cur})
      <3>1. StockDelta(u, p) = sum
                + IF u.stage = "locking" /\ p \notin u.todo THEN Basket[u.cur].items[p] ELSE 0
        BY <1>1, <1>9 DEF StockDelta
      <3>2. u.stage = "locking" /\ p \notin u.todo => Basket[u.cur].items[p] = 0
        BY <1>9, BasketFields DEF ItemsOf
      <3>3. sum \in Int /\ u.delta[p] = sum
        BY <1>1, <1>3, <1>5, <1>6, <1>9, UnitsSum
      <3> HIDE DEF sum
      <3> QED
        BY <3>1, <3>2, <3>3
    <2>2. ASSUME NEW c \in Customers PROVE u.delta[c] = PointsDelta(u, c, tendered, earned)
      BY <1>1, <1>7, <1>9 DEF PointsDelta
    <2>3. Recorded(u, tendered, earned)
      BY <2>1, <2>2 DEF Recorded
    <2>4. Bounded(u)
      BY <1>1, <1>8, <1>9 DEF Bounded
    <2>5. Aimed(u, order) /\ Queued(r, u, holder')
      BY <1>1, <1>9 DEF Aimed, Queued
    <2>6. Sweeping(r, u, holder', tendered)
      BY <1>1, <1>2, <1>9 DEF Sweeping
    <2> QED
      BY <1>2, <1>9, <2>3, <2>4, <2>5, <2>6, QuietTracked
  <1>10. CASE s.queue = {} /\ session' = [session EXCEPT ![r] = [t EXCEPT !.stage = "ready"]]
    <2> DEFINE u == [t EXCEPT !.stage = "ready"]
    <2>1. /\ u.op = s.op /\ u.stage = "ready" /\ u.cur = s.cur /\ u.queue = {} /\ u.todo = {}
          /\ u.done = s.done \cup {s.cur}
          /\ u.loaded = t.loaded /\ u.seen = t.seen /\ u.delta = t.delta
      BY <1>1, <1>3, <1>10 DEF RevertsTo, SessionState
    <2>2. session' = [session EXCEPT ![r] = u]
      BY <1>10
    <2> HIDE DEF u
    <2>3. u.op = "cancel" => u.done = {u.cur}
      BY <1>1, <1>4, <2>1 DEF WellFormed
    <2>4. OnCourse(u)
      BY <1>1, <1>5, <2>1, <2>3, FS_EmptySet DEF OnCourse
    <2> QED
      BY <1>9, <1>10, <2>1, <2>2, <2>4
  <1>11. ASSUME NEW q \in s.queue, session' = [session EXCEPT ![r] =
                    [t EXCEPT !.cur = q, !.queue = @ \ {q}, !.todo = ItemsOf(q)]]
         PROVE  SessionsTracked'
    <2> DEFINE u == [t EXCEPT !.cur = q, !.queue = @ \ {q}, !.todo = ItemsOf(q)]
    <2>1. /\ u.op = s.op /\ u.stage = "locking" /\ u.cur = q /\ u.queue = s.queue \ {q}
          /\ u.todo = ItemsOf(q) /\ u.done = s.done \cup {s.cur}
          /\ u.loaded = t.loaded /\ u.seen = t.seen /\ u.delta = t.delta
      BY <1>1, <1>3 DEF RevertsTo, SessionState
    <2>2. session' = [session EXCEPT ![r] = u]
      BY <1>11
    <2> HIDE DEF u
    <2>3. q \in Orders /\ s.op = "sweep"
      BY <1>1, <1>11 DEF WellFormed
    <2>4. IsFiniteSet(u.queue) /\ IsFiniteSet(u.todo)
      BY <1>4, <2>1, <2>3, LinesFinite, FS_Subset
    <2>5. ItemsOf(q) \subseteq Products
      BY DEF ItemsOf
    <2>6. OnCourse(u)
      BY <1>1, <1>4, <1>5, <1>11, <2>1, <2>3, <2>4, <2>5 DEF OnCourse
    <2> QED
      BY <1>9, <2>1, <2>2, <2>3, <2>6
  <1> QED
    BY <1>1, <1>10, <1>11, RevertEffectsSession DEF t

\* A step that leaves the sessions, their locks and the money alone.
LEMMA WorldTracked ==
    ASSUME IInv, SessionsTracked,
           \/ \E o \in Orders, target \in ServingStatuses : Serve(o, target)
           \/ \E o \in Orders : ReservationLapses(o)
           \/ CloseDrawer
    PROVE  SessionsTracked'
  <1>1. UNCHANGED <<session, holder, tendered, earned>>
    BY DEF Serve, ReservationLapses, CloseDrawer, sales
  <1>2. /\ TypeOK /\ None \notin Sessions /\ earned \in [Orders -> Nat]
        /\ \A o \in Orders : holder[o] \in Sessions \cup {None}
    BY DistinctAssumption DEF IInv, TypeOK, Lockable
  <1>3. ASSUME NEW o \in Orders
        PROVE  \/ order'[o].status = order[o].status
               \/ /\ holder[o] = None /\ order[o].status = "serving"
                  /\ order'[o].status \in {"serving", "completed"}
    <2>1. order[o] \in OrderState
      BY <1>2 DEF TypeOK
    <2>2. CASE \E q \in Orders, target \in ServingStatuses : Serve(q, target)
      <3>1. PICK q \in Orders, target \in ServingStatuses : Serve(q, target)
        BY <2>2
      <3> QED
        BY <1>2, <2>1, <3>1 DEF Serve, OrderState, TypeOK
    <2>3. CASE \E q \in Orders : ReservationLapses(q)
      BY <1>2, <2>1, <2>3 DEF ReservationLapses, OrderState, TypeOK
    <2>4. CASE CloseDrawer
      BY <2>4 DEF CloseDrawer, sales
    <2> QED
      BY <2>2, <2>3, <2>4
  <1>4. SparesOthers(None, holder', order', tendered', earned')
    BY <1>1, <1>3 DEF SparesOthers
  <1>5. \A q \in Sessions : Tracked(q, session[q], holder', order', tendered', earned')
    BY <1>1, <1>2, <1>4, OthersStillTracked
  <1> QED
    BY <1>1, <1>5 DEF SessionsTracked

LEMMA RestartTracked ==
    ASSUME IInv, SessionsTracked, Restart
    PROVE  SessionsTracked'
  <1>1. \A r \in Sessions : session'[r] = Idle /\ \A x \in Lockable : holder'[x] # r
    BY DistinctAssumption DEF Restart, Lockable
  <1>2. \A r \in Sessions : Tracked(r, session'[r], holder', order', tendered', earned')
    BY <1>1, IdleTracked
  <1> QED
    BY <1>2 DEF SessionsTracked

LEMMA NextTracked ==
    ASSUME IInv, IInv', SessionsTracked, OrdersTracked, UsageCountInRange, [Next]_vars
    PROVE  SessionsTracked'
  <1>1. ASSUME NEW r \in Sessions,
               RefuseOrder(r) \/ DuplicateKey(r) \/ Abort(r)
        PROVE  SessionsTracked'
    BY <1>1, RollbackTracked DEF RefuseOrder, DuplicateKey, Abort
  <1>2. CASE UNCHANGED vars
    BY <1>2 DEF vars, SessionsTracked
  <1>3. CASE Next
    BY <1>1, <1>3, StepCases, LockRowTracked, LockForPaymentTracked, RefundPointsTracked,
       RevertEffectsTracked, CheckDrawerTracked, LockExpiredTracked, SkipPaidTracked,
       CommitTracked, ArriveTracked, WorldTracked, RestartTracked
  <1> QED
    BY <1>2, <1>3

-----------------------------------------------------------------------------
(* What a commit writes *)

LEMMA FlushedRows ==
    ASSUME TypeOK, NEW r \in Sessions, Flush(r), NEW x \in Rows
    PROVE  /\ value'[x] = IF session[r].delta[x] # 0 THEN session[r].seen[x] + session[r].delta[x]
                                                     ELSE value[x]
           /\ ledger'[x] = ledger[x] + session[r].delta[x]
           /\ value[x] \in Int /\ ledger[x] \in Int
           /\ session[r].seen[x] \in Int /\ session[r].delta[x] \in Int
  BY SessionFields DEF Flush, TypeOK

\* Who does not commit writes nothing but an order's serving status.
NothingWritten ==
    /\ UNCHANGED <<value, ledger, earned, refundsDone>>
    /\ TypeOK => \E served : \A o \in Orders :
            \/ order'[o].status = order[o].status
            \/ /\ o = served /\ order[o].status = "serving"
               /\ order'[o].status = "completed"

LEMMA WhoWrites ==
    ASSUME [Next]_vars
    PROVE  \/ NothingWritten
           \/ \E r \in Sessions :
                 CommitOrder(r) \/ CommitPayment(r) \/ CommitRefund(r) \/ CommitRelease(r)
  <1>1. ASSUME NEW r \in Sessions,
               \/ LockRow(r) \/ LockForPayment(r) \/ RefundPoints(r) \/ RevertEffects(r)
               \/ RefuseOrder(r) \/ DuplicateKey(r) \/ Abort(r) \/ CheckDrawer(r)
               \/ LockExpired(r) \/ SkipPaid(r) \/ Arrive(r) \/ StartSweep(r)
        PROVE  UNCHANGED <<value, ledger, order, earned, refundsDone>>
    <2>1. CASE Arrive(r)
      BY <2>1 DEF Arrive, StartOrder, StartCancel, StartPayment, StartRefund, sales
    <2>2. CASE ~Arrive(r)
      BY <1>1, <2>2 DEF LockRow, LockForPayment, RefundPoints, RevertEffects, RefuseOrder, DuplicateKey,
                 Abort, CheckDrawer, LockExpired, SkipPaid, StartSweep, sales
    <2> QED
      BY <2>1, <2>2
  <1>2. CASE CloseDrawer \/ Restart \/ UNCHANGED vars
    BY <1>2 DEF NothingWritten, CloseDrawer, Restart, vars, sales
  <1>3. ASSUME NEW q \in Orders, NEW target \in ServingStatuses, Serve(q, target), TypeOK,
               NEW o \in Orders
        PROVE  \/ order'[o].status = order[o].status
               \/ /\ o = q
                  /\ order[o].status = "serving"
                  /\ order'[o].status = "completed"
    <2>1. /\ order[q].status = "serving" /\ order \in [Orders -> OrderState]
          /\ order' = [order EXCEPT ![q].serving = target,
                                    ![q].status = IF target = "served" THEN "completed" ELSE @]
      BY <1>3 DEF Serve, TypeOK
    <2>2. order'[q].status = IF target = "served" THEN "completed" ELSE order[q].status
      BY <2>1 DEF OrderState
    <2>3. o # q => order'[o] = order[o]
      BY <2>1
    <2>4. CASE o = q
      BY <2>1, <2>2, <2>4
    <2> QED
      BY <2>3, <2>4
  <1>4. ASSUME NEW q \in Orders, ReservationLapses(q), TypeOK, NEW o \in Orders
        PROVE  order'[o].status = order[o].status
    BY <1>4, OrderFields DEF ReservationLapses, OrderState, TypeOK
  <1>5. \A o \in Orders : \A target \in ServingStatuses :
           Serve(o, target) => UNCHANGED <<value, ledger, earned, refundsDone>>
    BY DEF Serve
  <1>6. \A o \in Orders : ReservationLapses(o) => UNCHANGED <<value, ledger, earned, refundsDone>>
    BY DEF ReservationLapses
  <1> QED
    BY <1>1, <1>2, <1>3, <1>4, <1>5, <1>6, StepCases DEF NothingWritten

LEMMA NextUsageCount ==
    ASSUME TypeOK, SessionsTracked, UsageCountInRange, [Next]_vars
    PROVE  UsageCountInRange'
  <1>1. ASSUME NEW r \in Sessions, Flush(r) PROVE UsageCountInRange'
    <2>1. ASSUME NEW k \in Promotions PROVE value'[k] \in 0 .. UsageLimit[k]
      <3>1. k \in Rows /\ value[k] \in 0 .. UsageLimit[k]
        BY DEF Rows, UsageCountInRange
      <3>2. session[r].delta[k] # 0 => session[r].seen[k] + session[r].delta[k] \in 0 .. UsageLimit[k]
        BY DEF SessionsTracked, Tracked, Bounded
      <3> QED
        BY <1>1, <3>1, <3>2, FlushedRows
    <2> QED
      BY <2>1 DEF UsageCountInRange
  <1>2. CASE UNCHANGED value
    BY <1>2 DEF UsageCountInRange
  <1> QED
    BY <1>1, <1>2, WhoWrites DEF NothingWritten, CommitOrder, CommitPayment, CommitRefund, CommitRelease

\* What the commits do to the orders.
LEMMA CommitOrderStatus ==
    ASSUME IInv, SessionsTracked, NEW r \in Sessions, CommitOrder(r)
    PROVE  /\ session[r].cur \in Orders /\ session[r].todo = {}
           /\ order[session[r].cur].status = "absent"
           /\ UNCHANGED earned /\ UNCHANGED refundsDone
           /\ \A o \in Orders : order'[o].status = IF o = session[r].cur THEN "pending"
                                                                      ELSE order[o].status
  <1>1. session[r].cur \in Orders /\ session[r].todo = {}
    BY Record DEF CommitOrder, WellFormed, OnCourse
  <1> QED
    BY <1>1, OrderFields DEF CommitOrder, IInv, TypeOK, OrderState

LEMMA CommitPaymentStatus ==
    ASSUME IInv, SessionsTracked, NEW r \in Sessions, CommitPayment(r)
    PROVE  /\ session[r].cur \in Orders /\ session[r].arg \in Payments
           /\ session[r].cur = Tender[session[r].arg].order
           /\ order[session[r].cur].status = "pending"
           /\ UNCHANGED refundsDone
           /\ \A o \in Orders : IF o = session[r].cur
                                THEN order'[o].status \in {"pending", "serving"}
                                ELSE order'[o].status = order[o].status /\ earned'[o] = earned[o]
  <1> DEFINE o == session[r].cur
             paid == tendered[o] + Tender[session[r].arg].amount
  <1>1. /\ o \in Orders /\ order[o].status = "pending" /\ session[r].arg \in Payments
        /\ o = Tender[session[r].arg].order
    BY Record, TenderFields DEF CommitPayment, Holds, WellFormed
  <1>2. order[o] \in OrderState /\ TypeOK /\ paid \in Nat
    BY <1>1, TenderFields DEF IInv, TypeOK
  <1>3. order' = [order EXCEPT ![o] = Settled(o, paid)] /\ UNCHANGED refundsDone
    BY DEF CommitPayment
  <1>4. Settled(o, paid).status \in {"pending", "serving"}
    BY <1>1, <1>2 DEF Settled, OrderState
  <1>5. \A q \in Orders : q # o => earned'[q] = earned[q]
    BY <1>2 DEF CommitPayment, TypeOK
  <1> HIDE DEF paid
  <1>6. \A q \in Orders : order'[q] = IF q = o THEN Settled(o, paid) ELSE order[q]
    BY <1>2, <1>3 DEF TypeOK
  <1> QED
    BY <1>1, <1>3, <1>4, <1>5, <1>6

LEMMA CommitReleaseStatus ==
    ASSUME IInv, SessionsTracked, NEW r \in Sessions, CommitRelease(r)
    PROVE  /\ session[r].done \in SUBSET Orders /\ IsFiniteSet(session[r].done)
           /\ \A o \in session[r].done : order[o].status \notin {"absent", "cancelled"}
           /\ \/ session[r].op = "cancel" /\ session[r].done = {session[r].cur}
              \/ session[r].op = "sweep" /\ \A o \in session[r].done : order[o].status = "pending"
           /\ UNCHANGED earned /\ UNCHANGED refundsDone
           /\ \A o \in Orders : order'[o].status = IF o \in session[r].done THEN "cancelled"
                                                                          ELSE order[o].status
  <1>1. session[r].done \in SUBSET Orders /\ IsFiniteSet(session[r].done)
    BY Record, SessionFields DEF OnCourse
  <1>2. \/ /\ session[r].op = "cancel" /\ session[r].done = {session[r].cur}
           /\ order[session[r].cur].status \notin {"absent", "cancelled"}
        \/ session[r].op = "sweep" /\ \A o \in session[r].done : order[o].status = "pending"
    BY Record DEF CommitRelease, OnCourse, Aimed, Holds
  <1>3. \A o \in Orders : order[o] \in OrderState /\ Cancelled(o).status = "cancelled"
    BY OrderFields DEF IInv, Cancelled, OrderState
  <1>4. \A o \in Orders : order'[o] = IF o \in session[r].done THEN Cancelled(o) ELSE order[o]
    BY DEF CommitRelease
  <1> QED
    BY <1>1, <1>2, <1>3, <1>4 DEF CommitRelease

LEMMA NextOrdersTracked ==
    ASSUME IInv, SessionsTracked, OrdersTracked, [Next]_vars
    PROVE  OrdersTracked'
  <1> DEFINE made == {o \in Orders : order[o].status # "absent"}
             madeNext == {o \in Orders : order'[o].status # "absent"}
  <1>0. IsFiniteSet(refundsDone')
    <2>1. refundsDone' = refundsDone \/ \E k \in Refunds : refundsDone' = refundsDone \cup {k}
      BY WhoWrites, CommitOrderStatus, CommitPaymentStatus, CommitReleaseStatus, Record
      DEF NothingWritten, CommitRefund, WellFormed
    <2> QED
      BY <2>1, FS_AddElement DEF OrdersTracked
  <1>1. ASSUME NEW S, IsFiniteSet(S), madeNext \subseteq made \cup S,
               \A o \in Orders : order'[o].status = "absent" =>
                    order[o].status = "absent" /\ earned'[o] = earned[o]
        PROVE  OrdersTracked'
    <2>1. IsFiniteSet(madeNext)
      BY <1>1, FS_Union, FS_Subset DEF OrdersTracked
    <2>2. \A o \in Orders : order'[o].status = "absent" => earned'[o] = 0
      BY <1>1 DEF OrdersTracked
    <2> QED
      BY <1>0, <2>1, <2>2 DEF OrdersTracked
  <1>2. ASSUME \A o \in Orders :
                    \/ order'[o].status = order[o].status /\ earned'[o] = earned[o]
                    \/ order[o].status # "absent" /\ order'[o].status # "absent"
        PROVE  OrdersTracked'
    <2>1. madeNext \subseteq made \cup {}
      BY <1>2
    <2> HIDE DEF made, madeNext
    <2> QED
      BY <1>1, <1>2, <2>1, FS_EmptySet
  <1>3. ASSUME NEW r \in Sessions, CommitOrder(r) PROVE OrdersTracked'
    <2>1. madeNext \subseteq made \cup {session[r].cur}
      BY <1>3, CommitOrderStatus
    <2>2. \A o \in Orders : order'[o].status = "absent" =>
                    order[o].status = "absent" /\ earned'[o] = earned[o]
      BY <1>3, CommitOrderStatus
    <2> HIDE DEF made, madeNext
    <2> QED
      BY <1>1, <2>1, <2>2, FS_Singleton
  <1>4. ASSUME NEW r \in Sessions, CommitPayment(r) PROVE OrdersTracked'
    BY <1>2, <1>4, CommitPaymentStatus
  <1>5. ASSUME NEW r \in Sessions, CommitRefund(r) PROVE OrdersTracked'
    BY <1>2, <1>5 DEF CommitRefund
  <1>6. ASSUME NEW r \in Sessions, CommitRelease(r) PROVE OrdersTracked'
    BY <1>2, <1>6, CommitReleaseStatus
  <1> QED
    BY <1>2, <1>3, <1>4, <1>5, <1>6, WhoWrites DEF IInv, NothingWritten

LEMMA NextLedger ==
    ASSUME IInv, SessionsTracked, OrdersTracked, LedgerMatchesOrders, [Next]_vars
    PROVE  LedgerMatchesOrders'
  <1> SUFFICES ASSUME refundsDone' = {}, NEW c \in Customers
               PROVE  ledger'[c] = SumFunctionOnSet(Gains(c, earned'), Standing')
    BY DEF LedgerMatchesOrders
  <1> DEFINE g == Gains(c, earned)
             h == Gains(c, earned')
  <1>1. /\ TypeOK /\ TypeOK' /\ earned \in [Orders -> Nat] /\ earned' \in [Orders -> Nat] /\ c \in Rows
    BY NextTypeOK DEF IInv, TypeOK, Rows
  <1>2. /\ IsFiniteSet(Standing) /\ Standing \in SUBSET Orders
        /\ \A o \in Orders : g[o] \in Int /\ h[o] \in Int
    <2>1. Standing \subseteq {o \in Orders : order[o].status # "absent"}
      BY DEF Standing
    <2> QED
      BY <1>1, <2>1, FS_Subset, GainsType DEF OrdersTracked, Standing
  <1>3. CASE UNCHANGED <<ledger, earned, refundsDone>> /\ Standing' = Standing
    BY <1>3 DEF LedgerMatchesOrders
  <1>4. ASSUME NEW r \in Sessions, CommitOrder(r)
        PROVE  ledger'[c] = SumFunctionOnSet(h, Standing')
    <2> DEFINE o == session[r].cur
    <2>1. /\ o \in Orders /\ o \notin Standing /\ Standing' = Standing \cup {o}
          /\ h = g /\ refundsDone = {} /\ earned[o] = 0
      BY <1>4, CommitOrderStatus DEF Standing, OrdersTracked
    <2>2. session[r].delta[c] = g[o]
      <3>1. session[r].delta[c] = IF c \in CustomerOf(o) THEN -Basket[o].redeem ELSE 0
        BY <1>4, Record, CommitOrderStatus DEF Recorded, PointsDelta, CommitOrder
      <3> QED
        BY <1>1, <2>1, <3>1, GainsType, BasketFields
    <2>3. ledger'[c] = ledger[c] + session[r].delta[c]
      BY <1>1, <1>4, FlushedRows DEF CommitOrder
    <2>4. ledger[c] = SumFunctionOnSet(g, Standing)
      BY <2>1 DEF LedgerMatchesOrders
    <2>5. SumFunctionOnSet(g, Standing \cup {o}) = SumFunctionOnSet(g, Standing) + g[o]
      BY <1>2, <2>1, SumAdd
    <2> QED
      BY <2>1, <2>2, <2>3, <2>4, <2>5
  <1>5. ASSUME NEW r \in Sessions, CommitPayment(r)
        PROVE  ledger'[c] = SumFunctionOnSet(h, Standing')
    <2> DEFINE o == session[r].cur
    <2>1. /\ o \in Orders /\ o \in Standing /\ Standing' = Standing /\ refundsDone = {}
          /\ \A q \in Orders : q # o => earned'[q] = earned[q]
      BY <1>5, CommitPaymentStatus DEF Standing
    <2>2. session[r].delta[c] = h[o] - g[o]
      <3>1. /\ session[r].arg \in Payments /\ o = Tender[session[r].arg].order
            /\ session[r].op = "pay" /\ session[r].stage = "ready"
        BY <1>5, CommitPaymentStatus DEF CommitPayment
      <3>2. session[r].delta[c] = IF c \in CustomerOf(o) /\ earned[o] = 0 /\ Completes(session[r].arg)
                                  THEN Basket[o].total ELSE 0
        BY <1>1, <3>1, Record, CompletesWhen DEF Recorded, PointsDelta
      <3>3. earned'[o] = IF Completes(session[r].arg) /\ earned[o] = 0 /\ CustomerOf(o) # {}
                         THEN Basket[o].total ELSE earned[o]
        BY <1>1, <1>5, <2>1 DEF CommitPayment
      <3>4. earned[o] \in Nat /\ Basket[o].total \in Nat /\ Basket[o].redeem \in Nat
        BY <1>1, <2>1, BasketFields
      <3>5. /\ g[o] = IF c \in CustomerOf(o) THEN earned[o] - Basket[o].redeem ELSE 0
            /\ h[o] = IF c \in CustomerOf(o) THEN earned'[o] - Basket[o].redeem ELSE 0
        BY <1>1, <2>1, GainsType
      <3> QED
        BY <3>2, <3>3, <3>4, <3>5
    <2>3. \A q \in Standing \ {o} : g[q] = h[q]
      BY <1>1, <1>2, <2>1, GainsType
    <2>4. ledger'[c] = ledger[c] + session[r].delta[c]
      BY <1>1, <1>5, FlushedRows DEF CommitPayment
    <2>5. ledger[c] = SumFunctionOnSet(g, Standing)
      BY <2>1 DEF LedgerMatchesOrders
    <2>6. SumFunctionOnSet(h, Standing) = SumFunctionOnSet(g, Standing) + (h[o] - g[o])
      <3>1. \A q \in Standing : g[q] \in Int /\ h[q] \in Int
        BY <1>2
      <3> HIDE DEF g, h
      <3> QED
        BY <1>2, <2>1, <2>3, <3>1, SumUpdate
    <2> QED
      BY <2>1, <2>2, <2>4, <2>5, <2>6
  <1>6. ASSUME NEW r \in Sessions, CommitRefund(r) PROVE FALSE
    BY <1>6 DEF CommitRefund
  <1>7. ASSUME NEW r \in Sessions, CommitRelease(r)
        PROVE  ledger'[c] = SumFunctionOnSet(h, Standing')
    <2> DEFINE D == session[r].done
    <2>1. /\ D \in SUBSET Standing /\ Standing' = Standing \ D /\ h = g /\ refundsDone = {}
          /\ IsFiniteSet(D) /\ D \in SUBSET Orders
      BY <1>7, CommitReleaseStatus DEF Standing
    <2>2. session[r].delta[c] = -SumFunctionOnSet(g, D)
      BY <1>7, Record DEF Recorded, PointsDelta, CommitRelease
    <2>3. ledger'[c] = ledger[c] + session[r].delta[c]
      BY <1>1, <1>7, FlushedRows DEF CommitRelease
    <2>4. ledger[c] = SumFunctionOnSet(g, Standing)
      BY <2>1 DEF LedgerMatchesOrders
    <2>5. SumFunctionOnSet(g, Standing \ D) = SumFunctionOnSet(g, Standing) - SumFunctionOnSet(g, D)
      BY <1>2, <2>1, SumDifference
    <2>6. SumFunctionOnSet(g, Standing) \in Int /\ SumFunctionOnSet(g, D) \in Int
      BY <1>1, <1>2, <2>1, GainsSum
    <2> QED
      BY <2>1, <2>2, <2>3, <2>4, <2>5, <2>6
  <1>8. CASE NothingWritten
    <2>1. Standing' = Standing
      BY <1>1, <1>8 DEF NothingWritten, Standing
    <2> QED
      BY <1>3, <1>8, <2>1 DEF NothingWritten
  <1>9. CASE \E r \in Sessions : CommitOrder(r) \/ CommitPayment(r) \/ CommitRefund(r) \/ CommitRelease(r)
    BY <1>4, <1>5, <1>6, <1>7, <1>9
  <1> QED
    BY <1>8, <1>9, WhoWrites

LEMMA FlushedStock ==
    ASSUME IInv, IInv', SessionsTracked, NEW r \in Sessions, Flush(r), NEW p \in Products,
           session[r].op # "idle"
    PROVE  /\ value'[p] = value[p] + StockDelta(session[r], p)
           /\ value[p] \in Int /\ value'[p] >= 0
  <1>1. TypeOK /\ p \in Rows /\ Initial[p] \in Nat
    BY RowAssumption DEF IInv, Rows
  <1>2. value[p] = Initial[p] + ledger[p] /\ value'[p] = Initial[p] + ledger'[p] /\ value'[p] >= 0
    BY DEF IInv, StockMatchesMovements, NeverOversold
  <1>3. session[r].delta[p] = StockDelta(session[r], p)
    BY Record DEF Recorded
  <1>4. ledger'[p] = ledger[p] + session[r].delta[p] /\ ledger[p] \in Int /\ session[r].delta[p] \in Int
    BY <1>1, FlushedRows
  <1>5. value[p] \in Int
    BY <1>1 DEF TypeOK
  <1> QED
    BY <1>1, <1>2, <1>3, <1>4, <1>5

\* The sums of all that stands sold, and of all that has been brought back.
LEMMA StandingUnits ==
    ASSUME IInv, OrdersTracked, NEW p \in Products
    PROVE  /\ IsFiniteSet(Standing) /\ Standing \in SUBSET Orders
           /\ \A o \in Orders : Units(p)[o] = Basket[o].items[p] /\ Units(p)[o] \in Int
           /\ SumFunctionOnSet(Units(p), Standing) \in Int
           /\ IsFiniteSet(refundsDone) /\ refundsDone \in SUBSET Refunds
           /\ \A k \in Refunds : BroughtBack(p)[k] = Return[k].items[p] /\ BroughtBack(p)[k] \in Int
           /\ SumFunctionOnSet(BroughtBack(p), refundsDone) \in Int
  <1>1. Standing \subseteq {o \in Orders : order[o].status # "absent"} /\ Standing \in SUBSET Orders
    BY DEF Standing
  <1>2. IsFiniteSet(Standing) /\ IsFiniteSet(refundsDone) /\ refundsDone \in SUBSET Refunds
    BY <1>1, FS_Subset DEF OrdersTracked, IInv, TypeOK
  <1>3. \A k \in Refunds : BroughtBack(p)[k] = Return[k].items[p] /\ BroughtBack(p)[k] \in Nat
    BY ReturnFields DEF BroughtBack
  <1>4. \A k \in refundsDone : BroughtBack(p)[k] \in Int
    BY <1>2, <1>3
  <1>5. SumFunctionOnSet(BroughtBack(p), refundsDone) \in Int
    BY <1>2, <1>4, SumType
  <1> QED
    BY <1>1, <1>2, <1>3, <1>5, UnitsType, UnitsSum

LEMMA NextStockMatchesOrders ==
    ASSUME IInv, IInv', SessionsTracked, OrdersTracked, StockMatchesOrders, [Next]_vars
    PROVE  StockMatchesOrders'
  <1> SUFFICES ASSUME NEW p \in Products
               PROVE  value'[p] = Initial[p] - SumFunctionOnSet(Units(p), Standing')
                                  + SumFunctionOnSet(BroughtBack(p), refundsDone')
    BY DEF StockMatchesOrders, Units, BroughtBack
  <1> DEFINE sold == SumFunctionOnSet(Units(p), Standing)
             back == SumFunctionOnSet(BroughtBack(p), refundsDone)
  <1>1. /\ value[p] = Initial[p] - sold + back /\ value[p] \in Int
        /\ Initial[p] \in Int /\ sold \in Int /\ back \in Int
        /\ TypeOK /\ IsFiniteSet(Standing) /\ Standing \in SUBSET Orders
        /\ \A o \in Orders : Units(p)[o] = Basket[o].items[p] /\ Units(p)[o] \in Int
        /\ IsFiniteSet(refundsDone) /\ refundsDone \in SUBSET Refunds
        /\ \A k \in Refunds : BroughtBack(p)[k] = Return[k].items[p] /\ BroughtBack(p)[k] \in Int
    BY StandingUnits, RowAssumption DEF StockMatchesOrders, IInv, TypeOK, Rows
  <1>2. CASE value'[p] = value[p] /\ Standing' = Standing /\ refundsDone' = refundsDone
    BY <1>1, <1>2
  <1>3. ASSUME NEW r \in Sessions, CommitOrder(r)
        PROVE  value'[p] = Initial[p] - SumFunctionOnSet(Units(p), Standing')
                           + SumFunctionOnSet(BroughtBack(p), refundsDone')
    <2>0. PICK o \in Orders : o = session[r].cur
      BY <1>3, CommitOrderStatus
    <2>1. /\ o \notin Standing /\ Standing' = Standing \cup {o} /\ refundsDone' = refundsDone
      BY <1>3, <2>0, CommitOrderStatus DEF Standing
    <2>2. /\ session[r].op = "create" /\ session[r].todo = {} /\ Flush(r)
      BY <1>3, CommitOrderStatus DEF CommitOrder
    <2>3. value'[p] = value[p] - Units(p)[o]
      <3>1. StockDelta(session[r], p) = -Units(p)[o]
        BY <1>1, <2>0, <2>2 DEF StockDelta
      <3>2. value'[p] = value[p] + StockDelta(session[r], p)
        BY <2>2, FlushedStock
      <3> QED
        BY <1>1, <3>1, <3>2
    <2>4. SumFunctionOnSet(Units(p), Standing \cup {o}) = sold + Units(p)[o]
      BY <1>1, <2>0, <2>1, SumAdd
    <2>5. Units(p)[o] \in Int
      BY <1>1
    <2> QED
      BY <1>1, <2>1, <2>3, <2>4, <2>5
  <1>4. ASSUME NEW r \in Sessions, CommitPayment(r)
        PROVE  value'[p] = Initial[p] - SumFunctionOnSet(Units(p), Standing')
                           + SumFunctionOnSet(BroughtBack(p), refundsDone')
    <2>1. Standing' = Standing /\ refundsDone' = refundsDone
      BY <1>4, CommitPaymentStatus DEF Standing
    <2>2. session[r].op = "pay" /\ Flush(r)
      BY <1>4 DEF CommitPayment
    <2>3. StockDelta(session[r], p) = 0
      BY <2>2 DEF StockDelta
    <2>4. value'[p] = value[p]
      BY <1>1, <2>2, <2>3, FlushedStock
    <2> QED
      BY <1>2, <2>1, <2>4
  <1>5. ASSUME NEW r \in Sessions, CommitRefund(r)
        PROVE  value'[p] = Initial[p] - SumFunctionOnSet(Units(p), Standing')
                           + SumFunctionOnSet(BroughtBack(p), refundsDone')
    <2>0. PICK k \in Refunds : k = session[r].arg
      BY <1>5, Record DEF CommitRefund, WellFormed
    <2>1. /\ session[r].op = "refund" /\ session[r].stage = "ready" /\ Flush(r)
          /\ k \notin refundsDone /\ refundsDone' = refundsDone \cup {k} /\ UNCHANGED order
      BY <1>5, <2>0 DEF CommitRefund
    <2>2. session[r].todo = {}
      BY <2>1, Record DEF OnCourse
    <2>3. value'[p] = value[p] + BroughtBack(p)[k]
      <3>1. StockDelta(session[r], p) = BroughtBack(p)[k]
        BY <1>1, <2>0, <2>1, <2>2 DEF StockDelta
      <3> QED
        BY <2>1, <3>1, FlushedStock
    <2>4. SumFunctionOnSet(BroughtBack(p), refundsDone \cup {k}) = back + BroughtBack(p)[k]
      BY <1>1, <2>0, <2>1, SumAdd
    <2>5. BroughtBack(p)[k] \in Int /\ Standing' = Standing
      BY <1>1, <2>1 DEF Standing
    <2> QED
      BY <1>1, <2>1, <2>3, <2>4, <2>5
  <1>6. ASSUME NEW r \in Sessions, CommitRelease(r)
        PROVE  value'[p] = Initial[p] - SumFunctionOnSet(Units(p), Standing')
                           + SumFunctionOnSet(BroughtBack(p), refundsDone')
    <2> DEFINE D == session[r].done
    <2>1. /\ D \in SUBSET Standing /\ Standing' = Standing \ D /\ refundsDone' = refundsDone
          /\ IsFiniteSet(D) /\ D \in SUBSET Orders
      BY <1>6, CommitReleaseStatus DEF Standing
    <2>2. session[r].op \in {"cancel", "sweep"} /\ session[r].stage = "ready" /\ Flush(r)
      BY <1>6 DEF CommitRelease
    <2>3. SumFunctionOnSet(Units(p), D) \in Int
      BY <2>1, UnitsSum
    <2>4. StockDelta(session[r], p) = SumFunctionOnSet(Units(p), D)
      BY <2>2, <2>3 DEF StockDelta
    <2>5. value'[p] = value[p] + SumFunctionOnSet(Units(p), D)
      BY <2>2, <2>4, FlushedStock
    <2>6. SumFunctionOnSet(Units(p), Standing \ D) = sold - SumFunctionOnSet(Units(p), D)
      BY <1>1, <2>1, SumDifference
    <2> HIDE DEF D
    <2> QED
      BY <1>1, <2>1, <2>3, <2>5, <2>6
  <1>7. CASE NothingWritten
    <2>1. Standing' = Standing
      BY <1>1, <1>7 DEF NothingWritten, Standing
    <2> QED
      BY <1>2, <1>7, <2>1 DEF NothingWritten
  <1> QED
    BY <1>3, <1>4, <1>5, <1>6, <1>7, WhoWrites

-----------------------------------------------------------------------------
(* The invariant, and what follows from it *)

LEMMA InitTrackInv == Init => TrackInv
  <1> SUFFICES ASSUME Init PROVE TrackInv
    OBVIOUS
  <1>1. SessionsTracked
    <2>1. \A r \in Sessions : session[r] = Idle /\ \A x \in Lockable : holder[x] # r
      BY DistinctAssumption DEF Init, Lockable
    <2>2. \A r \in Sessions : Tracked(r, session[r], holder, order, tendered, earned)
      BY <2>1, IdleTracked
    <2> QED
      BY <2>2 DEF SessionsTracked
  <1>2. {o \in Orders : order[o].status # "absent"} = {} /\ Standing = {} /\ Busy = {}
    BY DEF Init, Standing, Busy
  <1>3. OrdersTracked
    BY <1>2, FS_EmptySet DEF OrdersTracked, Init
  <1>4. UsageCountInRange
    BY RowAssumption DEF Init, UsageCountInRange, Rows
  <1>5. LedgerMatchesOrders
    BY <1>2, SumEmpty DEF LedgerMatchesOrders, Init, Rows
  <1>6. StockMatchesOrders
    <2>1. \A p \in Products : value[p] = Initial[p] /\ Initial[p] \in Nat
      BY RowAssumption DEF Init, Rows
    <2>2. refundsDone = {}
      BY DEF Init
    <2> QED
      BY <1>2, <2>1, <2>2, SumEmpty DEF StockMatchesOrders
  <1> QED
    BY <1>1, <1>2, <1>3, <1>4, <1>5, <1>6, FS_EmptySet DEF TrackInv

\* A set of numbers has a least one.
LEMMA LeastNumber ==
    ASSUME NEW f, NEW V, V # {}, \A x \in V : f[x] \in Nat
    PROVE  \E x \in V : \A y \in V : f[x] <= f[y]
  <1>1. PICK top \in V : TRUE
    OBVIOUS
  <1> DEFINE Low == {x \in V : f[x] <= f[top]}
             Downs == {0 .. f[x] : x \in Low}
             Whole == 0 .. f[top]
  <1>2. IsFiniteSet(Whole)
    BY <1>1, FS_Interval
  <1>3. Downs \subseteq SUBSET Whole /\ Downs # {}
    BY <1>1
  <1>4. PICK down \in Downs : \A other \in Downs : other \subseteq down => other = down
    <2> HIDE DEF Downs, Whole
    <2> QED
      BY <1>2, <1>3, MinimalSubset
  <1>5. PICK x \in Low : down = 0 .. f[x]
    BY <1>4
  <1>6. ASSUME NEW y \in V, ~(f[x] <= f[y]) PROVE FALSE
    <2>1. f[x] \in Nat /\ f[y] \in Nat /\ f[top] \in Nat /\ f[y] < f[x] /\ f[x] <= f[top]
      BY <1>1, <1>5, <1>6
    <2>2. y \in Low /\ 0 .. f[y] \in Downs
      BY <2>1
    <2>3. 0 .. f[y] \subseteq 0 .. f[x]
      BY <2>1
    <2>4. 0 .. f[y] = 0 .. f[x]
      BY <1>4, <1>5, <2>2, <2>3
    <2>5. f[x] \in 0 .. f[x] /\ f[x] \notin 0 .. f[y]
      BY <2>1
    <2> QED
      BY <2>4, <2>5
  <1> QED
    BY <1>5, <1>6

\* There is always a row that a cart takes next.
LEMMA FirstRow ==
    ASSUME NEW r \in Sessions, OnCourse(session[r]), session[r].op = "create", session[r].todo # {}
    PROVE  \E x \in session[r].todo : \A y \in session[r].todo : Precedes(x, y)
  <1> DEFINE T == session[r].todo
             o == session[r].cur
             P == T \cap Products
  <1>1. T \subseteq ItemsOf(o) \cup CustomerOf(o) \cup PromotionOf(o)
    BY DEF OnCourse
  <1>2. CASE T \cap Customers # {}
    BY <1>2 DEF Precedes
  <1>3. CASE T \cap Customers = {} /\ P # {}
    <2>1. \A x \in P : ProductId[x] \in Nat
      BY RowAssumption
    <2> HIDE DEF P
    <2>2. PICK x \in P : \A y \in P : ProductId[x] <= ProductId[y]
      BY <1>3, <2>1, LeastNumber
    <2>3. \A y \in T : Precedes(x, y)
      BY <1>1, <1>3, <2>2 DEF P, Precedes, ItemsOf, CustomerOf, PromotionOf
    <2> QED
      BY <2>2, <2>3 DEF P
  <1>4. CASE T \cap Customers = {} /\ P = {}
    <2>1. T \subseteq PromotionOf(o)
      BY <1>1, <1>4 DEF ItemsOf, CustomerOf
    <2>2. PICK x \in T : TRUE
      OBVIOUS
    <2>3. \A y \in T : Precedes(x, y)
      BY <2>1 DEF Precedes, PromotionOf
    <2> QED
      BY <2>2, <2>3
  <1> QED
    BY <1>2, <1>3, <1>4

\* The steps that end a session, and those with which it goes on.
Ends(r) ==
    \/ RefuseOrder(r) \/ DuplicateKey(r) \/ Abort(r)
    \/ CommitOrder(r) \/ CommitPayment(r) \/ CommitRefund(r) \/ CommitRelease(r)
GoesOn(r) ==
    \/ LockRow(r) \/ CheckDrawer(r) \/ LockForPayment(r) \/ RefundPoints(r)
    \/ LockExpired(r) \/ SkipPaid(r) \/ RevertEffects(r)

\* A step is one session's, or the world's, unless the server restarts.
LEMMA OnlyItsOwn ==
    ASSUME TypeOK, NEW r \in Sessions, Ends(r) \/ GoesOn(r) \/ Arrive(r) \/ StartSweep(r),
           NEW q \in Sessions, q # r
    PROVE  session'[q] = session[q]
  <1>1. ASSUME NEW s, session' = [session EXCEPT ![r] = s]
        PROVE  session'[q] = session[q]
    BY <1>1 DEF TypeOK
  <1>2. CASE LockRow(r) \/ LockForPayment(r) \/ RefundPoints(r) \/ RevertEffects(r)
    BY <1>1, <1>2 DEF LockRow, LockForPayment, RefundPoints, RevertEffects, EndSession
  <1>3. CASE Ends(r)
    BY <1>1, <1>3 DEF Ends, RefuseOrder, DuplicateKey, Abort, EndSession,
                      CommitOrder, CommitPayment, CommitRefund, CommitRelease
  <1>4. CASE CheckDrawer(r) \/ LockExpired(r) \/ SkipPaid(r)
    BY <1>4 DEF CheckDrawer, LockExpired, SkipPaid, EndSession, TypeOK
  <1>5. CASE Arrive(r) \/ StartSweep(r)
    BY <1>1, <1>5 DEF Arrive, StartOrder, StartCancel, StartPayment, StartRefund, StartSweep
  <1> QED
    BY <1>2, <1>3, <1>4, <1>5 DEF GoesOn

LEMMA WhoActs ==
    ASSUME TypeOK, [Next]_vars
    PROVE  \/ \A q \in Sessions : session'[q] = Idle
           \/ \A q \in Sessions : session'[q] = session[q]
           \/ \E r \in Sessions : Ends(r) \/ GoesOn(r) \/ Arrive(r) \/ StartSweep(r)
  <1>1. CASE \/ \E o \in Orders, target \in ServingStatuses : Serve(o, target)
             \/ \E o \in Orders : ReservationLapses(o)
             \/ CloseDrawer
             \/ UNCHANGED vars
    BY <1>1 DEF Serve, ReservationLapses, CloseDrawer, vars
  <1>2. CASE Restart
    BY <1>2 DEF Restart
  <1> QED
    BY <1>1, <1>2, StepCases DEF Ends, GoesOn

LEMMA NextBusy ==
    ASSUME TypeOK, IsFiniteSet(Busy), [Next]_vars
    PROVE  IsFiniteSet(Busy')
  <1>1. Busy' \subseteq Busy \/ \E r \in Sessions : Busy' \subseteq Busy \cup {r}
    <2>1. CASE \A q \in Sessions : session'[q] = Idle \/ session'[q] = session[q]
      BY <2>1 DEF Busy
    <2>2. ASSUME NEW r \in Sessions, Ends(r) \/ GoesOn(r) \/ Arrive(r) \/ StartSweep(r)
          PROVE  Busy' \subseteq Busy \cup {r}
      BY <2>2, OnlyItsOwn DEF Busy
    <2> QED
      BY <2>1, <2>2, WhoActs
  <1>2. \A r : IsFiniteSet(Busy \cup {r})
    BY FS_AddElement
  <1> QED
    BY <1>1, <1>2, FS_Subset

LEMMA NextRecords == IInv /\ TrackInv /\ [Next]_vars => (IInv /\ TrackInv)'
  <1> SUFFICES ASSUME IInv, TrackInv, [Next]_vars PROVE (IInv /\ TrackInv)'
    OBVIOUS
  <1>1. IInv'
    BY NextIInv
  <1>2. /\ TypeOK /\ SessionsTracked /\ OrdersTracked /\ UsageCountInRange /\ LedgerMatchesOrders
        /\ StockMatchesOrders /\ IsFiniteSet(Busy)
    BY DEF TrackInv, IInv
  <1> QED
    BY <1>1, <1>2, NextTracked, NextOrdersTracked, NextUsageCount, NextLedger,
       NextStockMatchesOrders, NextBusy DEF TrackInv

\* A busy session that waits for nobody has nothing in its way.
LEMMA WhoWaitsForNobody ==
    ASSUME IInv, SessionsTracked, NEW r \in Busy, Waits(r) = {}
    PROVE  Unblocked(r)
  <1> DEFINE s == session[r]
  <1>1. r \in Sessions /\ OnCourse(s) /\ WellFormed(r, s) /\ s \in SessionState /\ TypeOK
    BY Record DEF Busy
  <1>2. \A x \in WaitsFor(r) : RowFree(r, x)
    BY DEF Waits, Blockers, RowFree
  <1>3. s.op # "idle"
    BY <1>1 DEF OnCourse, Busy
  <1>4. CASE s.stage = "locking" /\ s.todo # {}
    <2>1. WaitsFor(r) = NextRows(r)
      BY <1>4 DEF WaitsFor
    <2>2. NextRows(r) # {}
      BY <1>1, <1>4, FirstRow DEF NextRows
    <2> QED
      BY <1>2, <1>4, <2>1, <2>2 DEF Unblocked
  <1>5. CASE s.stage = "locking" /\ s.todo = {}
    <2>1. s.op = "refund" => WaitsFor(r) = {s.cur}
      BY <1>5 DEF WaitsFor
    <2> QED
      BY <1>2, <1>5, <2>1 DEF Unblocked
  <1>6. CASE s.stage = "started"
    <2>1. WaitsFor(r) = Orders \cap ({s.cur} \cup s.queue)
      BY <1>6 DEF WaitsFor
    <2>2. ASSUME NEW x \in WaitsFor(r) PROVE OrderFree(r, x)
      <3>1. Sharing(x) \subseteq {r}
        <4>1. None \notin Sharing(x)
          BY DistinctAssumption DEF Sharing
        <4> QED
          BY <1>6, <4>1 DEF Waits, Blockers
      <3>2. r \notin Sharing(x)
        BY <1>6 DEF Sharing
      <3> QED
        BY <1>2, <3>1, <3>2 DEF OrderFree
    <2>3. CASE s.op = "pay"
      <3>1. s.cur \in Orders
        BY <1>1, <2>3, TenderFields DEF WellFormed
      <3> QED
        BY <1>6, <2>1, <2>2, <2>3, <3>1 DEF Unblocked
    <2>4. CASE s.op = "sweep"
      <3>1. s.queue \in SUBSET Orders
        BY <1>1 DEF SessionState
      <3> QED
        BY <1>6, <2>1, <2>2, <2>4, <3>1 DEF Unblocked
    <2> QED
      BY <1>1, <1>3, <1>6, <2>3, <2>4 DEF OnCourse, SessionState, Operations
  <1>7. CASE s.stage = "ready"
    <2>1. WaitsFor(r) = {y \in Rows : s.delta[y] # 0}
      BY <1>7 DEF WaitsFor
    <2> QED
      BY <1>2, <1>7, <2>1 DEF Unblocked
  <1> QED
    BY <1>1, <1>3, <1>4, <1>5, <1>6, <1>7 DEF OnCourse, SessionState, Operations, Stages

\* Only busy sessions hold locks.
LEMMA WaitsForBusy ==
    ASSUME IInv, SessionsTracked, NEW r \in Busy
    PROVE  Waits(r) \in SUBSET (Busy \ {r})
  <1> DEFINE s == session[r]
  <1>1. r \in Sessions /\ OnCourse(s) /\ WellFormed(r, s) /\ s \in SessionState /\ TypeOK
    BY Record DEF Busy
  <1>2. WaitsFor(r) \subseteq Lockable
    <2>1. s.cur \in Orders \/ ~(s.stage = "locking")
      BY <1>1 DEF WellFormed
    <2>2. NextRows(r) \subseteq Rows
      BY <1>1 DEF NextRows, SessionState
    <2> QED
      BY <2>1, <2>2 DEF WaitsFor, Lockable
  <1>3. ASSUME NEW q \in Sessions, session[q].op # "idle" PROVE q \in Busy
    BY <1>3 DEF Busy, Idle
  <1>4. ASSUME NEW x \in Lockable, holder[x] # None PROVE holder[x] \in Busy
    <2>1. holder[x] \in Sessions
      BY <1>1, <1>4 DEF TypeOK
    <2>2. session[holder[x]].op # "idle"
      BY <2>1, Record DEF Queued
    <2> QED
      BY <1>3, <2>1, <2>2
  <1>5. \A x : Sharing(x) \subseteq Busy
    BY <1>3 DEF Sharing
  <1>6. ASSUME NEW q \in Waits(r) PROVE q \in Busy /\ q # r
    <2>1. q # r /\ q # None
      BY DEF Waits
    <2>2. PICK x \in WaitsFor(r) : q \in Blockers(r, x)
      BY DEF Waits
    <2>3. q = holder[x] \/ q \in Sharing(x)
      BY <2>2 DEF Blockers
    <2> QED
      BY <1>2, <1>4, <1>5, <2>1, <2>2, <2>3
  <1> QED
    BY <1>6

\* If all of them wait for each other, some of them do so in a circle: the smallest
\* set of sessions each of which waits for another one of the set.
LEMMA EverybodyWaits ==
    ASSUME IInv, SessionsTracked, IsFiniteSet(Busy), Busy # {}, \A r \in Busy : Waits(r) # {}
    PROVE  \E S \in SUBSET Busy : Cycle(S)
  <1> DEFINE Closed == {S \in SUBSET Busy : S # {} /\ \A r \in S : Waits(r) \cap S # {}}
  <1>1. \A r \in Busy : Waits(r) \in SUBSET (Busy \ {r})
    BY WaitsForBusy
  <1>2. Busy \in Closed
    BY <1>1
  <1>3. PICK S \in Closed : \A R \in Closed : R \subseteq S => R = S
    <2> HIDE DEF Closed
    <2>1. Closed \subseteq SUBSET Busy
      BY DEF Closed
    <2> QED
      BY <1>2, <2>1, MinimalSubset
  <1>4. ASSUME NEW r \in S, \A other \in S : r \notin Waits(other) PROVE FALSE
    <2> DEFINE R == S \ {r}
    <2>1. R # {}
      BY <1>1, <1>4
    <2>2. \A q \in R : Waits(q) \cap R # {}
      BY <1>1, <1>4
    <2>3. R \in Closed
      BY <2>1, <2>2
    <2> QED
      BY <1>3, <2>3
  <1> QED
    BY <1>3, <1>4 DEF Cycle

LEMMA NobodyStuck == IInv /\ TrackInv => NeverStuck
  BY WhoWaitsForNobody, EverybodyWaits DEF TrackInv, NeverStuck

\* A session's record says what the session has done: the rows it holds, what
\* it has added to them, and that what it will write is within bounds.
THEOREM RecordsAreTrue == Spec => []BooksInv
  <1>1. Init => IInv /\ TrackInv
    BY InitIInv, InitTrackInv
  <1>2. Spec => [](IInv /\ TrackInv)
    BY <1>1, NextRecords, PTL DEF Spec
  <1>3. IInv /\ TrackInv => BooksInv
    BY NobodyStuck DEF BooksInv
  <1> QED
    BY <1>2, <1>3, PTL

\* Nobody is stuck: whoever waits for nobody can go on, and when everybody waits
\* there is a circle for the database to break.
THEOREM SomebodyCanGoOn == Spec => []NeverStuck
  <1>1. BooksInv => NeverStuck
    BY DEF BooksInv
  <1> QED
    BY <1>1, RecordsAreTrue, PTL

\* The usage counter of a promotion stays within its limit, though a
\* cancellation reads and writes it without the row lock.
THEOREM UsageStaysInRange == Spec => []UsageCountInRange
  <1>1. BooksInv => UsageCountInRange
    BY DEF BooksInv, TrackInv
  <1> QED
    BY <1>1, RecordsAreTrue, PTL

\* The loyalty ledger of every customer adds up to what the standing orders
\* have earned and spent, as long as there has been no refund.
THEOREM LedgerAddsUp == Spec => []LedgerMatchesOrders
  <1>1. BooksInv => LedgerMatchesOrders
    BY DEF BooksInv, TrackInv
  <1> QED
    BY <1>1, RecordsAreTrue, PTL

\* The shelf is explained: of every product there is what there was at first, less
\* what the orders that stand have sold, and what the refunds have brought back;
\* whatever was cancelled, swept, aborted or tried twice has left no trace.
THEOREM ShelfIsExplained == Spec => []StockMatchesOrders
  <1>1. BooksInv => StockMatchesOrders
    BY DEF BooksInv, TrackInv
  <1> QED
    BY <1>1, RecordsAreTrue, PTL

\* An order whose points did not cover its redemption is never committed.
THEOREM RedemptionsAreCovered == Spec => RedemptionCovered
  <1>1. ASSUME BooksInv, [Next]_vars, NEW o \in Orders, order[o].status = "absent",
               order'[o].status = "pending", NEW c \in CustomerOf(o), Basket[o].redeem > 0
        PROVE  value'[c] >= 0
    <2>1. IInv /\ TypeOK /\ SessionsTracked
      BY <1>1 DEF BooksInv, TrackInv, IInv
    <2>2. PICK r \in Sessions : CommitOrder(r) \/ CommitPayment(r) \/ CommitRefund(r) \/ CommitRelease(r)
      BY <1>1, <2>1, WhoWrites DEF NothingWritten
    <2>3. CASE CommitOrder(r)
      <3>1. o = session[r].cur /\ session[r].todo = {}
        BY <1>1, <2>1, <2>3, CommitOrderStatus
      <3>2. session[r].op = "create" /\ session[r].stage = "ready" /\ Flush(r)
        BY <2>3 DEF CommitOrder
      <3>3. c \in Customers /\ c \in Rows /\ Basket[o].redeem \in Nat
        BY <1>1, BasketFields DEF CustomerOf, Rows
      <3>4. session[r].delta[c] = -Basket[o].redeem
        BY <1>1, <2>1, <3>1, <3>2, <3>3, Record DEF Recorded, PointsDelta
      <3>5. session[r].seen[c] + session[r].delta[c] >= 0 /\ session[r].delta[c] # 0
        BY <1>1, <2>1, <3>2, <3>3, <3>4, Record DEF Bounded
      <3> QED
        BY <2>1, <3>2, <3>3, <3>5, FlushedRows
    <2>4. CASE CommitPayment(r)
      BY <1>1, <2>1, <2>4, CommitPaymentStatus
    <2>5. CASE CommitRefund(r)
      BY <1>1, <2>5 DEF CommitRefund
    <2>6. CASE CommitRelease(r)
      BY <1>1, <2>1, <2>6, CommitReleaseStatus
    <2> QED
      BY <2>2, <2>3, <2>4, <2>5, <2>6
  <1>2. BooksInv /\ [Next]_vars =>
          [\A o \in Orders : order[o].status = "absent" /\ order'[o].status = "pending" =>
              \A c \in CustomerOf(o) : Basket[o].redeem > 0 => value'[c] >= 0]_vars
    BY <1>1
  <1> QED
    BY <1>2, RecordsAreTrue, PTL DEF Spec, RedemptionCovered

\* A refund takes points back without a lock on the customer; still no balance
\* is below zero because of it.
THEOREM RefundsNeverOverdraw == Spec => RefundNeverOverdraws
  <1>1. ASSUME BooksInv, [Next]_vars, refundsDone' # refundsDone, NEW c \in Customers, value'[c] < 0
        PROVE  value'[c] = value[c]
    <2>1. IInv /\ TypeOK /\ SessionsTracked /\ c \in Rows
      BY <1>1 DEF BooksInv, TrackInv, IInv, Rows
    <2>2. PICK r \in Sessions : CommitOrder(r) \/ CommitPayment(r) \/ CommitRefund(r) \/ CommitRelease(r)
      BY <1>1, WhoWrites DEF NothingWritten
    <2>3. CommitRefund(r)
      BY <1>1, <2>2 DEF CommitOrder, CommitPayment, CommitRelease
    <2>4. Flush(r) /\ session[r].op = "refund"
      BY <2>3 DEF CommitRefund
    <2>5. session[r].delta[c] # 0 => session[r].seen[c] + session[r].delta[c] >= 0
      BY <1>1, <2>1, <2>4, Record DEF Bounded
    <2> QED
      BY <1>1, <2>1, <2>4, <2>5, FlushedRows
  <1>2. BooksInv /\ [Next]_vars =>
          [refundsDone' # refundsDone =>
              \A c \in Customers : value'[c] < 0 => value'[c] = value[c]]_vars
    BY <1>1
  <1> QED
    BY <1>2, RecordsAreTrue, PTL DEF Spec, RefundNeverOverdraws

-----------------------------------------------------------------------------
(* The sessions implement the atomic sales of SaleContract *)

\* No lost update: a commit moves the stock by exactly what the session did.
LEMMA InitSales == Init => Contract!Init
  BY DEF Init, Contract!Init, Rows

\* create_order commits: the sale takes all its units at once.
LEMMA CommitOrderSells ==
    ASSUME IInv, IInv', SessionsTracked, NEW r \in Sessions, CommitOrder(r)
    PROVE  \E o \in Orders : Contract!Sell(o)
  <1>0. PICK o \in Orders : o = session[r].cur
    BY CommitOrderStatus
  <1>1. /\ o \in Orders /\ session[r].todo = {} /\ order[o].status = "absent"
        /\ UNCHANGED refundsDone
        /\ \A q \in Orders : order'[q].status = IF q = o THEN "pending" ELSE order[q].status
    BY <1>0, CommitOrderStatus
  <1>2. session[r].op = "create" /\ Flush(r)
    BY DEF CommitOrder
  <1>3. ASSUME NEW p \in Products
        PROVE  value'[p] = value[p] - Basket[o].items[p] /\ value[p] >= Basket[o].items[p]
    <2>1. value'[p] = value[p] + StockDelta(session[r], p) /\ value[p] \in Int /\ value'[p] >= 0
      BY <1>2, FlushedStock
    <2>2. StockDelta(session[r], p) = -Basket[o].items[p]
      BY <1>0, <1>1, <1>2 DEF StockDelta
    <2>3. Basket[o].items[p] \in Nat
      BY <1>1, BasketFields
    <2> QED
      BY <2>1, <2>2, <2>3
  <1>4. [p \in Products |-> value'[p]] = [p \in Products |-> [q \in Products |-> value[q]][p] - Basket[o].items[p]]
    BY <1>3
  <1>5. [q \in Orders |-> order'[q].status] = [[q \in Orders |-> order[q].status] EXCEPT ![o] = "pending"]
    BY <1>1
  <1> QED
    BY <1>1, <1>3, <1>4, <1>5 DEF Contract!Sell

\* A payment commits: the order goes to the kitchen, or stays as it is.
LEMMA CommitPaymentForwards ==
    ASSUME IInv, IInv', SessionsTracked, NEW r \in Sessions, CommitPayment(r)
    PROVE  \/ \E o \in Orders : Contract!Forward(o, "pending", "serving")
           \/ UNCHANGED Contract!vars
  <1>0. PICK o \in Orders : o = session[r].cur
    BY CommitPaymentStatus
  <1>1. /\ o \in Orders /\ order[o].status = "pending" /\ UNCHANGED refundsDone
        /\ order'[o].status \in {"pending", "serving"}
        /\ \A q \in Orders : q # o => order'[q].status = order[q].status
    BY <1>0, CommitPaymentStatus
  <1>2. session[r].op = "pay" /\ Flush(r)
    BY DEF CommitPayment
  <1>3. [p \in Products |-> value'[p]] = [p \in Products |-> value[p]]
    <2>1. ASSUME NEW p \in Products PROVE value'[p] = value[p]
      <3>1. StockDelta(session[r], p) = 0
        BY <1>2 DEF StockDelta
      <3> QED
        BY <1>2, <3>1, FlushedStock
    <2> QED
      BY <2>1
  <1>4. CASE order'[o].status = "pending"
    <2>1. [q \in Orders |-> order'[q].status] = [q \in Orders |-> order[q].status]
      BY <1>1, <1>4
    <2> QED
      BY <1>1, <1>3, <2>1 DEF Contract!vars
  <1>5. CASE order'[o].status = "serving"
    <2>1. [q \in Orders |-> order'[q].status] = [[q \in Orders |-> order[q].status] EXCEPT ![o] = "serving"]
      BY <1>1, <1>5
    <2> QED
      BY <1>1, <1>3, <2>1 DEF Contract!Forward
  <1> QED
    BY <1>1, <1>4, <1>5

LEMMA CommitRefundTakesBack ==
    ASSUME IInv, IInv', SessionsTracked, NEW r \in Sessions, CommitRefund(r)
    PROVE  \E k \in Refunds : Contract!TakeBack(k)
  <1>0. PICK k \in Refunds : k = session[r].arg
    BY Record DEF CommitRefund, WellFormed
  <1>1. /\ session[r].op = "refund" /\ session[r].stage = "ready" /\ Flush(r)
        /\ k \notin refundsDone /\ refundsDone' = refundsDone \cup {k} /\ UNCHANGED order
    BY <1>0 DEF CommitRefund
  <1>2. /\ session[r].cur = Return[k].order /\ session[r].todo = {}
        /\ order[Return[k].order].status \notin {"absent", "pending"}
    BY <1>0, <1>1, Record DEF WellFormed, OnCourse, Aimed
  <1>3. Return[k].order \in Orders /\ Return[k].items \in [Products -> Nat]
    BY <1>2, ReturnFields
  <1>4. ASSUME NEW p \in Products PROVE value'[p] = value[p] + Return[k].items[p]
    <2>1. StockDelta(session[r], p) = Return[k].items[p]
      BY <1>0, <1>1, <1>2 DEF StockDelta
    <2> QED
      BY <1>1, <2>1, FlushedStock
  <1>5. [p \in Products |-> value'[p]] = [p \in Products |-> [q \in Products |-> value[q]][p] + Return[k].items[p]]
    BY <1>4
  <1> QED
    BY <1>1, <1>2, <1>3, <1>5 DEF Contract!TakeBack

LEMMA ContractSum ==
    ASSUME NEW f, NEW S
    PROVE  Contract!SumFunctionOnSet(f, S) = SumFunctionOnSet(f, S)
  <1>1. Contract!SumFunctionOnSet(f, S) = (CHOOSE g : IsSum(f, S, g))[S]
    BY DEF Contract!SumFunctionOnSet, Contract!FoldFunctionOnSet, Contract!MapThenFoldSet, IsSum, Pick
  <1> QED
    BY <1>1, SumUnfold

LEMMA CommitReleaseReleases ==
    ASSUME IInv, IInv', SessionsTracked, NEW r \in Sessions, CommitRelease(r)
    PROVE  \/ \E D \in SUBSET Orders : Contract!Release(D)
           \/ UNCHANGED Contract!vars
  <1>0. PICK D \in SUBSET Orders : D = session[r].done
    BY CommitReleaseStatus
  <1>1. /\ D \in SUBSET Orders /\ IsFiniteSet(D)
        /\ \A o \in D : order[o].status \notin {"absent", "cancelled"}
        /\ \/ session[r].op = "cancel" /\ D = {session[r].cur}
           \/ session[r].op = "sweep" /\ \A o \in D : order[o].status = "pending"
        /\ UNCHANGED refundsDone
        /\ \A o \in Orders : order'[o].status = IF o \in D THEN "cancelled" ELSE order[o].status
    BY <1>0, CommitReleaseStatus
  <1>2. session[r].op \in {"cancel", "sweep"} /\ session[r].stage = "ready" /\ Flush(r)
    BY DEF CommitRelease
  <1>3. ASSUME NEW p \in Products
        PROVE  value'[p] = value[p] + SumFunctionOnSet(Units(p), D) /\ value[p] \in Int
    <2>1. StockDelta(session[r], p) = SumFunctionOnSet(Units(p), D) + 0
      BY <1>0, <1>2 DEF StockDelta
    <2>2. SumFunctionOnSet(Units(p), D) \in Int
      BY <1>1, UnitsSum
    <2> QED
      BY <1>2, <2>1, <2>2, FlushedStock
  <1>4. [q \in Orders |-> order'[q].status] =
            [q \in Orders |-> IF q \in D THEN "cancelled" ELSE [o \in Orders |-> order[o].status][q]]
    BY <1>1
  <1>5. CASE D = {}
    <2>1. \A p \in Products : value'[p] = value[p]
      BY <1>3, <1>5, SumEmpty
    <2>2. [p \in Products |-> value'[p]] = [p \in Products |-> value[p]]
      BY <2>1
    <2>3. [q \in Orders |-> order'[q].status] = [q \in Orders |-> order[q].status]
      BY <1>1, <1>5
    <2> QED
      BY <1>1, <2>2, <2>3 DEF Contract!vars
  <1>6. CASE D # {}
    <2>2. [p \in Products |-> value'[p]] =
            [p \in Products |-> [q \in Products |-> value[q]][p]
                + Contract!SumFunctionOnSet([o \in Orders |-> Basket[o].items[p]], D)]
      BY <1>3, ContractSum DEF Units
    <2>3. \A o \in D : [q \in Orders |-> order[q].status][o] \notin {"absent", "cancelled"}
      BY <1>1
    <2>4. (\E o \in D : D = {o}) \/ \A o \in D : [q \in Orders |-> order[q].status][o] = "pending"
      BY <1>1
    <2>5. refundsDone' = refundsDone
      BY <1>1
    <2>6. Contract!Release(D)
      BY <1>4, <1>6, <2>2, <2>3, <2>4, <2>5 DEF Contract!Release
    <2> QED
      BY <2>6
  <1> QED
    BY <1>5, <1>6

\* The kitchen finishes an order; everything else is invisible.
LEMMA NothingWrittenForwards ==
    ASSUME TypeOK, [Next]_vars, NothingWritten
    PROVE  \/ \E o \in Orders : Contract!Forward(o, "serving", "completed")
           \/ UNCHANGED Contract!vars
  <1>1. PICK served : \A o \in Orders :
            \/ order'[o].status = order[o].status
            \/ o = served /\ order[o].status = "serving" /\ order'[o].status = "completed"
    BY DEF NothingWritten
  <1>2. UNCHANGED value /\ UNCHANGED refundsDone
    BY DEF NothingWritten
  <1>3. CASE \A o \in Orders : order'[o].status = order[o].status
    <2>1. [q \in Orders |-> order'[q].status] = [q \in Orders |-> order[q].status]
      BY <1>3
    <2> QED
      BY <1>2, <2>1 DEF Contract!vars
  <1>4. CASE /\ served \in Orders /\ order[served].status = "serving"
             /\ order'[served].status = "completed"
    <2>1. [q \in Orders |-> order'[q].status]
            = [[q \in Orders |-> order[q].status] EXCEPT ![served] = "completed"]
      BY <1>1, <1>4
    <2>2. [q \in Orders |-> order[q].status][served] = "serving"
      BY <1>4
    <2>3. Contract!Forward(served, "serving", "completed")
      BY <1>2, <2>1, <2>2 DEF Contract!Forward
    <2> QED
      BY <1>4, <2>3
  <1> QED
    BY <1>1, <1>3, <1>4

LEMMA NextSales ==
    ASSUME BooksInv, BooksInv', [Next]_vars
    PROVE  [Contract!Next]_(Contract!vars)
  <1>1. IInv /\ IInv' /\ SessionsTracked /\ TypeOK
    BY DEF BooksInv, TrackInv, IInv
  <1>2. CASE NothingWritten
    BY <1>1, <1>2, NothingWrittenForwards DEF Contract!Next
  <1>3. ASSUME NEW r \in Sessions, CommitOrder(r) PROVE Contract!Next
    BY <1>1, <1>3, CommitOrderSells DEF Contract!Next
  <1>4. ASSUME NEW r \in Sessions, CommitPayment(r) PROVE [Contract!Next]_(Contract!vars)
    BY <1>1, <1>4, CommitPaymentForwards DEF Contract!Next
  <1>5. ASSUME NEW r \in Sessions, CommitRefund(r) PROVE Contract!Next
    BY <1>1, <1>5, CommitRefundTakesBack DEF Contract!Next
  <1>6. ASSUME NEW r \in Sessions, CommitRelease(r) PROVE [Contract!Next]_(Contract!vars)
    BY <1>1, <1>6, CommitReleaseReleases DEF Contract!Next
  <1> QED
    BY <1>2, <1>3, <1>4, <1>5, <1>6, WhoWrites

\* Seen from the shop floor the interleaved sessions, with their locks, stale
\* reads, aborts and restarts, are atomic sales, cancellations and refunds.
THEOREM SalesAreSerializable == Spec => SerializableSales
  <1>1. BooksInv /\ BooksInv' /\ [Next]_vars => [Contract!Next]_(Contract!vars)
    BY NextSales
  <1>2. Spec => Contract!Init
    BY InitSales DEF Spec
  <1> QED
    BY <1>1, <1>2, RecordsAreTrue, PTL DEF Spec, SerializableSales, Contract!Spec

-----------------------------------------------------------------------------
(* Carts wait in one direction *)

\* The rows a cart has still to lock are its own, and the one it waits for is
\* the first of them.
Awaited(q, x) ==
    /\ session[q].op = "create"
    /\ x \in session[q].todo
    /\ \A y \in session[q].todo : Precedes(x, y)

\* A cart waits for a row it has still to lock, and for nothing else.
LEMMA CartsWaitForRows ==
    ASSUME TypeOK, SessionsTracked, NEW q \in Sessions, session[q].op = "create",
           NEW other \in Waits(q)
    PROVE  \E x \in Rows : Awaited(q, x) /\ holder[x] = other /\ other # q /\ other # None
  <1> DEFINE s == session[q]
  <1>1. OnCourse(s) /\ Queued(q, s, holder) /\ s \in SessionState
    BY DEF SessionsTracked, Tracked, TypeOK
  <1>2. s.stage # "started" /\ s.stage \in {"locking", "ready"}
    BY <1>1 DEF OnCourse
  <1>3. PICK x \in WaitsFor(q) : other = holder[x]
    BY <1>2 DEF Waits, Blockers
  <1>4. other # q /\ other # None
    BY DEF Waits
  <1>5. CASE s.stage = "ready"
    <2>1. x \in Rows /\ s.delta[x] # 0
      BY <1>3, <1>5 DEF WaitsFor
    <2> QED
      BY <1>1, <1>3, <1>4, <2>1 DEF Queued
  <1>6. CASE s.stage = "locking"
    <2>1. x \in NextRows(q)
      BY <1>3, <1>6 DEF WaitsFor
    <2>2. Awaited(q, x) /\ x \in Rows
      BY <1>1, <2>1 DEF NextRows, Awaited, SessionState
    <2> QED
      BY <1>3, <1>4, <2>2
  <1> QED
    BY <1>2, <1>5, <1>6

\* What a cart holds comes strictly before what it waits for: only the first
\* row in line is a customer, and only the last one a promotion.
LEMMA HeldBeforeAwaited ==
    ASSUME TypeOK, SessionsTracked, NEW q \in Sessions, NEW z \in Rows, NEW x \in Rows,
           Awaited(q, x), holder[z] = q
    PROVE  /\ x \notin Customers
           /\ z \notin Promotions
           /\ z \in Products /\ x \in Products => ProductId[z] < ProductId[x]
  <1> DEFINE s == session[q]
             o == s.cur
  <1>1. /\ OnCourse(s) /\ Queued(q, s, holder) /\ s.op = "create" /\ x \in s.todo
    BY DEF SessionsTracked, Tracked, Awaited
  <1>2. /\ z \in ItemsOf(o) \cup CustomerOf(o) \cup PromotionOf(o)
        /\ x \in ItemsOf(o) \cup CustomerOf(o) \cup PromotionOf(o)
        /\ Precedes(z, x) /\ z # x
    BY <1>1 DEF OnCourse, Queued
  <1>3. x \notin Customers
    BY <1>2, DistinctAssumption DEF Precedes, ItemsOf, CustomerOf, PromotionOf, Rows
  <1>4. z \notin Promotions
    BY <1>2, DistinctAssumption DEF Precedes, ItemsOf, CustomerOf, PromotionOf, Rows
  <1>5. ASSUME z \in Products, x \in Products PROVE ProductId[z] < ProductId[x]
    <2>1. ProductId[z] <= ProductId[x] /\ ProductId[z] # ProductId[x]
      BY <1>2, <1>5, DistinctAssumption, RowAssumption DEF Precedes
    <2>2. ProductId[z] \in Nat /\ ProductId[x] \in Nat
      BY <1>5, RowAssumption
    <2> QED
      BY <2>1, <2>2
  <1> QED
    BY <1>3, <1>4, <1>5

LEMMA CartsWaitInLine ==
    ASSUME TypeOK, SessionsTracked
    PROVE  CartsNeverDeadlock
  <1> SUFFICES ASSUME NEW S \in SUBSET {r \in Sessions : session[r].op = "create"}, Cycle(S)
               PROVE  FALSE
    BY DEF CartsNeverDeadlock
  <1>1. S # {} /\ \A r \in S : r \in Sessions /\ session[r].op = "create"
    BY DEF Cycle
  <1> DEFINE Wanted(q, x) == Awaited(q, x) /\ holder[x] \in S /\ holder[x] # q
             V == {x \in Products : \E q \in S : Wanted(q, x)}
  \* Everyone in the circle keeps somebody else in it waiting.
  <1>2. ASSUME NEW r \in S
        PROVE  \E q \in S, z \in Rows : Awaited(q, z) /\ holder[z] = r /\ r # q
    <2>1. PICK q \in S : r \in Waits(q)
      BY DEF Cycle
    <2> QED
      BY <1>1, <2>1, CartsWaitForRows
  <1>3. ASSUME NEW r \in S, NEW x \in Rows, Awaited(r, x)
        PROVE  \E z \in V : x \in Products => ProductId[z] < ProductId[x]
    <2>1. PICK q \in S, z \in Rows : Awaited(q, z) /\ holder[z] = r /\ r # q
      BY <1>2
    <2>2. PICK p \in S, y \in Rows : Awaited(p, y) /\ holder[y] = q /\ q # p
      BY <1>2
    <2>3. z \notin Promotions /\ (z \in Products /\ x \in Products => ProductId[z] < ProductId[x])
      BY <1>1, <1>3, <2>1, HeldBeforeAwaited
    <2>4. z \notin Customers
      BY <1>1, <2>1, <2>2, HeldBeforeAwaited
    <2>5. z \in V
      BY <2>1, <2>3, <2>4 DEF Rows
    <2> QED
      BY <2>3, <2>5
  <1>4. V # {}
    <2>1. PICK r \in S : TRUE
      BY <1>1
    <2>2. PICK q \in S, z \in Rows : Awaited(q, z)
      BY <1>2, <2>1
    <2> QED
      BY <1>3, <2>2
  <1>5. \A x \in V : ProductId[x] \in Nat /\ x \in Rows
    BY RowAssumption DEF Rows
  <1>6. \A x \in V : \E q \in S : Awaited(q, x)
    OBVIOUS
  <1> HIDE DEF V
  <1>7. PICK least \in V : \A y \in V : ProductId[least] <= ProductId[y]
    BY <1>4, <1>5, LeastNumber
  <1>8. least \in Products
    BY DEF V
  <1>9. PICK z \in V : ProductId[z] < ProductId[least]
    BY <1>3, <1>5, <1>6, <1>8
  <1> QED
    BY <1>5, <1>7, <1>9

\* However many carts are being submitted together, and whatever products,
\* customers and promotions they share, they never wait for each other in a
\* circle: create_order takes its row locks in one global order.
THEOREM CartsCannotDeadlock == Spec => []CartsNeverDeadlock
  <1>1. BooksInv => CartsNeverDeadlock
    BY CartsWaitInLine DEF BooksInv, TrackInv, IInv
  <1> QED
    BY <1>1, RecordsAreTrue, PTL

-----------------------------------------------------------------------------
(* Every session is on its way to its end *)

\* A sweep is thorough: of the orders it has locked, it cancels all that nobody
\* has put money on; none is locked, found unpaid, and left as it was.
THEOREM SweepsLeaveNothingBehind == Spec => SweepsAreThorough
  <1>1. ASSUME BooksInv, NEW r \in Sessions, session[r].op = "sweep", CommitRelease(r),
               NEW o \in Orders, holder[o] = r, tendered[o] = 0
        PROVE  order'[o].status = "cancelled"
    <2>1. IInv /\ SessionsTracked /\ TypeOK
      BY <1>1 DEF BooksInv, TrackInv, IInv
    <2>2. Sweeping(r, session[r], holder, tendered) /\ session[r].stage = "ready"
      BY <1>1, <2>1, Record DEF CommitRelease
    <2>3. o \in session[r].done
      BY <1>1, <2>1, <2>2 DEF Sweeping, TypeOK
    <2> QED
      BY <1>1, <2>1, <2>3, CommitReleaseStatus
  <1>2. BooksInv /\ [Next]_vars =>
          [\A r \in Sessions : session[r].op = "sweep" /\ CommitRelease(r) =>
              \A o \in Orders : holder[o] = r /\ tendered[o] = 0 =>
                  order'[o].status = "cancelled"]_vars
    BY <1>1
  <1> QED
    BY <1>2, RecordsAreTrue, PTL DEF Spec, SweepsAreThorough

\* What the orders of a sweep come to.
LEMMA EffortType ==
    ASSUME NEW S \in SUBSET Orders, IsFiniteSet(S)
    PROVE  Effort(S) \in Nat
  <1> DEFINE f == [o \in Orders |-> Cardinality(ItemsOf(o)) + 1]
  <1>1. \A o \in Orders : Cardinality(ItemsOf(o)) \in Nat
    BY LinesFinite, FS_CardinalityType
  <1>2. \A o \in S : f[o] \in Nat
    BY <1>1
  <1> HIDE DEF f
  <1>3. SumFunctionOnSet(f, S) \in Nat
    BY <1>2, SumNat
  <1> QED
    BY <1>3 DEF Effort, f

LEMMA EffortWithout ==
    ASSUME NEW S \in SUBSET Orders, IsFiniteSet(S), NEW o \in S
    PROVE  /\ Effort(S) = Cardinality(ItemsOf(o)) + 1 + Effort(S \ {o})
           /\ Cardinality(ItemsOf(o)) \in Nat /\ Effort(S \ {o}) \in Nat
  <1> DEFINE f == [q \in Orders |-> Cardinality(ItemsOf(q)) + 1]
  <1>1. \A q \in Orders : Cardinality(ItemsOf(q)) \in Nat
    BY LinesFinite, FS_CardinalityType
  <1>2. \A q \in S : f[q] \in Int
    BY <1>1
  <1>3. f[o] = Cardinality(ItemsOf(o)) + 1
    OBVIOUS
  <1> HIDE DEF f
  <1>4. SumFunctionOnSet(f, S) = f[o] + SumFunctionOnSet(f, S \ {o})
    BY <1>2, SumRemove
  <1>5. Effort(S \ {o}) \in Nat
    BY EffortType, FS_Subset
  <1> QED
    BY <1>1, <1>3, <1>4, <1>5 DEF Effort, f

LEMMA EffortWithin ==
    ASSUME NEW S \in SUBSET Orders, IsFiniteSet(S), NEW D \in SUBSET S
    PROVE  Effort(D) <= Effort(S) /\ Effort(D) \in Nat /\ Effort(S) \in Nat
  <1> DEFINE f == [q \in Orders |-> Cardinality(ItemsOf(q)) + 1]
  <1>1. IsFiniteSet(D) /\ IsFiniteSet(S \ D)
    BY FS_Subset
  <1>2. Effort(D) \in Nat /\ Effort(S) \in Nat /\ Effort(S \ D) \in Nat
    BY <1>1, EffortType
  <1>3. \A q \in S : f[q] \in Int
    <2>1. \A q \in Orders : Cardinality(ItemsOf(q)) \in Nat
      BY LinesFinite, FS_CardinalityType
    <2> QED
      BY <2>1
  <1> HIDE DEF f
  <1>4. SumFunctionOnSet(f, S \ D) = SumFunctionOnSet(f, S) - SumFunctionOnSet(f, D)
    BY <1>3, SumDifference
  <1>5. Effort(S \ D) = Effort(S) - Effort(D)
    BY <1>4 DEF Effort, f
  <1> QED
    BY <1>2, <1>5

\* What is left for a session, stage by stage.
LEMMA StepsWhen ==
    ASSUME NEW s \in SessionState, OnCourse(s)
    PROVE  /\ StepsLeft(s) \in Nat
           /\ s.stage = "idle" => StepsLeft(s) = 0
           /\ s.stage = "ready" => StepsLeft(s) = 1
           /\ s.stage = "locking" => /\ StepsLeft(s) = Cardinality(s.todo) + Effort(s.queue) + 2
                                     /\ StepsLeft(s) >= 2
           /\ s.stage = "started" /\ s.op = "pay" => StepsLeft(s) = 2
           /\ s.stage = "started" /\ s.op = "sweep" =>
                    StepsLeft(s) = Cardinality(s.queue) + Effort(s.queue \cup s.done) + 2
           /\ s.op # "idle" => StepsLeft(s) > 0
  <1>1. /\ s.queue \in SUBSET Orders /\ s.done \in SUBSET Orders
        /\ IsFiniteSet(s.queue) /\ IsFiniteSet(s.done) /\ IsFiniteSet(s.todo)
        /\ s.stage \in {"idle", "ready", "locking", "started"}
        /\ s.op # "idle" => s.stage # "idle"
    BY DEF SessionState, OnCourse, Stages, Operations
  <1>2. /\ Cardinality(s.queue) \in Nat /\ Cardinality(s.todo) \in Nat
        /\ Effort(s.queue) \in Nat /\ Effort(s.queue \cup s.done) \in Nat
    BY <1>1, FS_CardinalityType, FS_Union, EffortType
  <1>3. CASE s.stage = "idle"
    BY <1>1, <1>3 DEF StepsLeft
  <1>4. CASE s.stage = "ready"
    BY <1>4 DEF StepsLeft
  <1>5. CASE s.stage = "locking"
    BY <1>2, <1>5 DEF StepsLeft
  <1>6. CASE s.stage = "started"
    BY <1>2, <1>6 DEF StepsLeft
  <1> QED
    BY <1>1, <1>3, <1>4, <1>5, <1>6

\* A step with which a session goes on.
LEMMA GoingOnIsShort ==
    ASSUME IInv, SessionsTracked, IInv', SessionsTracked', NEW r \in Sessions, GoesOn(r),
           session'[r] # Idle
    PROVE  StepsLeft(session'[r]) < StepsLeft(session[r])
  <1> DEFINE s == session[r]
             u == session'[r]
  <1> SUFFICES StepsLeft(u) < StepsLeft(s)
    OBVIOUS
  <1>1. /\ TypeOK /\ SessionsWellFormed /\ OnCourse(s) /\ s \in SessionState
        /\ s.queue \in SUBSET Orders /\ s.done \in SUBSET Orders
        /\ IsFiniteSet(s.queue) /\ IsFiniteSet(s.done) /\ IsFiniteSet(s.todo)
    BY Record DEF SessionState, OnCourse
  <1>2. u \in SessionState /\ OnCourse(u)
    BY DEF IInv, TypeOK, SessionsTracked, Tracked
  <1>3. ASSUME NEW v, session' = [session EXCEPT ![r] = v] PROVE u = v
    BY <1>1, <1>3 DEF TypeOK
  <1>4. CASE u.stage = "ready" /\ s.stage = "locking"
    <2>1. StepsLeft(u) = 1
      BY <1>2, <1>4, StepsWhen
    <2>2. StepsLeft(s) >= 2 /\ StepsLeft(s) \in Nat
      BY <1>1, <1>4, StepsWhen
    <2> QED
      BY <2>1, <2>2
  <1>5. CASE u.stage = "ready" /\ s.stage = "started" /\ s.op = "pay"
    <2>1. StepsLeft(u) = 1
      BY <1>2, <1>5, StepsWhen
    <2>2. StepsLeft(s) = 2
      BY <1>1, <1>5, StepsWhen
    <2> QED
      BY <2>1, <2>2
  <1>6. CASE LockRow(r)
    <2>1. PICK x, v : TakesRow(r, x, v)
      BY <1>6, LockRowRecord
    <2>2. /\ u = v /\ s.stage = "locking" /\ u.stage = "locking" /\ u.queue = s.queue
          /\ x \in s.todo /\ u.todo = s.todo \ {x}
      BY <1>3, <2>1 DEF TakesRow
    <2>3. Cardinality(s.todo \ {x}) = Cardinality(s.todo) - 1
      BY <1>1, <2>2, FS_RemoveElement
    <2>4. Effort(s.queue) \in Nat /\ Cardinality(s.todo) \in Nat
      BY <1>1, EffortType, FS_CardinalityType
    <2> HIDE DEF s, u
    <2>5. StepsLeft(s) = Cardinality(s.todo) + Effort(s.queue) + 2
      BY <1>1, <2>2, StepsWhen
    <2>6. StepsLeft(u) = Cardinality(s.todo \ {x}) + Effort(s.queue) + 2
      BY <1>2, <2>2, StepsWhen
    <2> QED
      BY <2>3, <2>4, <2>5, <2>6
  <1>7. CASE CheckDrawer(r)
    <2>1. s.stage = "locking" /\ (u.stage = "ready" \/ u = Idle)
      BY <1>1, <1>7 DEF CheckDrawer, EndSession, TypeOK, SessionState
    <2> QED
      BY <1>4, <2>1
  <1>8. CASE LockForPayment(r)
    <2>1. s.stage = "started" /\ s.op = "pay" /\ (u.stage = "ready" \/ u = Idle)
      <3>1. s.stage = "started" /\ s.op = "pay"
        BY <1>8 DEF LockForPayment
      <3>2. \/ session' = [session EXCEPT ![r] = Idle]
            \/ \E X, d : session' = [session EXCEPT ![r] = [Touched(r, X, d) EXCEPT !.stage = "ready"]]
        BY <1>8 DEF LockForPayment, EndSession
      <3>3. ASSUME NEW X, NEW d,
                   session' = [session EXCEPT ![r] = [Touched(r, X, d) EXCEPT !.stage = "ready"]]
            PROVE  u.stage = "ready"
        <4> DEFINE v == [Touched(r, X, d) EXCEPT !.stage = "ready"]
        <4>1. v.stage = "ready"
          BY <1>1 DEF Touched, SessionState
        <4>2. u = v
          BY <1>3, <3>3
        <4> QED
          BY <4>1, <4>2
      <3>4. session' = [session EXCEPT ![r] = Idle] => u = Idle
        BY <1>3
      <3> QED
        BY <3>1, <3>2, <3>3, <3>4
    <2> QED
      BY <1>5, <2>1
  <1>9. CASE RefundPoints(r)
    <2>1. s.stage = "locking" /\ u.stage = "ready"
      BY <1>1, <1>9 DEF RefundPoints, TypeOK, Touched, SessionState
    <2> QED
      BY <1>4, <2>1
  <1>10. CASE LockExpired(r)
    <2>1. PICK o \in s.queue : session' = [session EXCEPT ![r] =
                    [s EXCEPT !.queue = @ \ {o}, !.done = @ \cup ({o} \cap Expired)]]
      BY <1>1, <1>10, LockExpiredSession
    <2>2. /\ u = [s EXCEPT !.queue = @ \ {o}, !.done = @ \cup ({o} \cap Expired)]
          /\ s.op = "sweep" /\ s.stage = "started"
      BY <1>3, <1>10, <2>1 DEF LockExpired
    <2>3. /\ u.op = "sweep" /\ u.stage = "started" /\ u.queue = s.queue \ {o}
          /\ u.queue \cup u.done \subseteq s.queue \cup s.done
      BY <1>1, <2>2 DEF SessionState
    <2>4. Cardinality(u.queue) = Cardinality(s.queue) - 1 /\ Cardinality(s.queue) \in Nat
      BY <1>1, <2>3, FS_RemoveElement, FS_CardinalityType
    <2> HIDE DEF s, u
    <2>5. /\ Effort(u.queue \cup u.done) <= Effort(s.queue \cup s.done)
          /\ Effort(u.queue \cup u.done) \in Nat /\ Effort(s.queue \cup s.done) \in Nat
      BY <1>1, <2>3, EffortWithin, FS_Union
    <2>6. StepsLeft(s) = Cardinality(s.queue) + Effort(s.queue \cup s.done) + 2
      BY <1>1, <2>2, StepsWhen
    <2>7. StepsLeft(u) = Cardinality(u.queue) + Effort(u.queue \cup u.done) + 2
      BY <1>2, <2>3, StepsWhen
    <2> QED
      BY <2>4, <2>5, <2>6, <2>7
  <1>11. CASE SkipPaid(r)
    <2> DEFINE release == Unpaid(s.done)
    <2>1. s.op = "sweep" /\ s.stage = "started" /\ s.queue = {}
      BY <1>11 DEF SkipPaid
    <2>2. StepsLeft(s) = Effort(s.done) + 2 /\ Effort(s.done) \in Nat
      <3>1. Cardinality(s.queue) = 0 /\ Effort(s.queue \cup s.done) = Effort(s.done)
        <4>1. s.queue \cup s.done = s.done
          BY <2>1
        <4> QED
          BY <2>1, <4>1, FS_EmptySet, Zenon
      <3>2. Effort(s.done) \in Nat
        BY <1>1, EffortType
      <3>3. StepsLeft(s) = Cardinality(s.queue) + Effort(s.queue \cup s.done) + 2
        BY <1>1, <2>1, StepsWhen
      <3> QED
        BY <3>1, <3>2, <3>3
    <2>3. CASE u = [s EXCEPT !.stage = "ready", !.done = {}]
      <3>1. u.stage = "ready"
        BY <1>1, <2>3 DEF SessionState
      <3>2. StepsLeft(u) = 1
        BY <1>2, <3>1, StepsWhen
      <3> QED
        BY <2>2, <3>2
    <2>4. ASSUME NEW o \in release,
                 u = [s EXCEPT !.stage = "locking", !.done = {}, !.cur = o,
                               !.queue = release \ {o}, !.todo = ItemsOf(o)]
          PROVE  StepsLeft(u) < StepsLeft(s)
      <3>1. u.stage = "locking" /\ u.queue = release \ {o} /\ u.todo = ItemsOf(o)
        BY <1>1, <2>4 DEF SessionState
      <3>2. release \in SUBSET s.done /\ IsFiniteSet(release) /\ release \in SUBSET Orders
        BY <1>1, FS_Subset DEF Unpaid
      <3> HIDE DEF u, release
      <3>3. Effort(release) <= Effort(s.done) /\ Effort(release) \in Nat
        BY <1>1, <3>2, EffortWithin
      <3>4. /\ Effort(release) = Cardinality(u.todo) + 1 + Effort(u.queue)
            /\ Cardinality(u.todo) \in Nat /\ Effort(u.queue) \in Nat
        BY <2>4, <3>1, <3>2, EffortWithout
      <3>5. StepsLeft(u) = Cardinality(u.todo) + Effort(u.queue) + 2
        BY <1>2, <3>1, StepsWhen
      <3> QED
        BY <2>2, <3>3, <3>4, <3>5
    <2> QED
      BY <1>1, <1>3, <1>11, <2>3, <2>4, SkipPaidSession
  <1>12. CASE RevertEffects(r)
    <2> DEFINE t == AfterRevert(r)
    <2>1. s.stage = "locking"
      BY <1>12 DEF RevertEffects
    <2>2. t \in SessionState /\ t.stage = "locking" /\ t.queue = s.queue
      BY <1>1, <2>1, AfterRevertRecord DEF RevertsTo
    <2> HIDE DEF t
    <2>3. CASE u = [t EXCEPT !.stage = "ready"]
      <3>1. u.stage = "ready"
        BY <2>2, <2>3 DEF SessionState
      <3> QED
        BY <1>4, <2>1, <3>1
    <2>4. ASSUME NEW q \in s.queue,
                 u = [t EXCEPT !.cur = q, !.queue = @ \ {q}, !.todo = ItemsOf(q)]
          PROVE  StepsLeft(u) < StepsLeft(s)
      <3>1. u.stage = "locking" /\ u.queue = s.queue \ {q} /\ u.todo = ItemsOf(q)
        BY <2>2, <2>4 DEF SessionState
      <3> HIDE DEF u
      <3>2. /\ Effort(s.queue) = Cardinality(u.todo) + 1 + Effort(u.queue)
            /\ Cardinality(u.todo) \in Nat /\ Effort(u.queue) \in Nat
        BY <1>1, <2>4, <3>1, EffortWithout
      <3>3. Cardinality(s.todo) \in Nat
        BY <1>1, FS_CardinalityType
      <3>4. StepsLeft(u) = Cardinality(u.todo) + Effort(u.queue) + 2
        BY <1>2, <3>1, StepsWhen
      <3>5. StepsLeft(s) = Cardinality(s.todo) + Effort(s.queue) + 2
        BY <1>1, <2>1, StepsWhen
      <3> QED
        BY <3>2, <3>3, <3>4, <3>5
    <2> QED
      BY <1>1, <1>3, <1>12, <2>3, <2>4, RevertEffectsSession DEF t
  <1> QED
    BY <1>6, <1>7, <1>8, <1>9, <1>10, <1>11, <1>12 DEF GoesOn

\* Every step of a busy session brings it nearer to its end: there is no way to
\* lock a row twice, to go back to an order, or to start over.
THEOREM SessionsAreFinite == Spec => SessionsAreShort
  <1>1. ASSUME BooksInv, BooksInv', [Next]_vars, NEW r \in Busy, session'[r] # session[r]
        PROVE  StepsLeft(session'[r]) < StepsLeft(session[r])
    <2>1. IInv /\ SessionsTracked /\ TypeOK /\ IInv' /\ SessionsTracked'
      BY <1>1 DEF BooksInv, TrackInv, IInv
    <2>2. r \in Sessions /\ session[r] # Idle /\ OnCourse(session[r]) /\ session[r] \in SessionState
      BY <2>1, Record DEF Busy
    <2>3. CASE session'[r] = Idle
      <3>1. StepsLeft(Idle) = 0
        BY DEF StepsLeft, Idle
      <3>2. session[r].op # "idle"
        BY <2>2 DEF OnCourse
      <3>3. StepsLeft(session[r]) \in Nat /\ StepsLeft(session[r]) > 0
        BY <2>2, <3>2, StepsWhen
      <3> QED
        BY <2>3, <3>1, <3>3
    <2>4. CASE session'[r] # Idle
      <3>1. PICK q \in Sessions : Ends(q) \/ GoesOn(q) \/ Arrive(q) \/ StartSweep(q)
        BY <1>1, <2>1, <2>2, <2>4, WhoActs
      <3>2. q = r
        BY <1>1, <2>1, <2>2, <3>1, OnlyItsOwn
      <3>3. ~Arrive(r) /\ ~StartSweep(r)
        BY <2>2 DEF Arrive, StartOrder, StartCancel, StartPayment, StartRefund, StartSweep
      <3>4. ~Ends(r)
        BY <2>1, <2>2, <2>4 DEF Ends, RefuseOrder, DuplicateKey, Abort, EndSession,
              CommitOrder, CommitPayment, CommitRefund, CommitRelease, TypeOK
      <3> QED
        BY <2>1, <2>2, <2>4, <3>1, <3>2, <3>3, <3>4, GoingOnIsShort
    <2> QED
      BY <2>3, <2>4
  <1>2. BooksInv /\ BooksInv' /\ [Next]_vars =>
          [\A r \in Busy : session'[r] # session[r] =>
              StepsLeft(session'[r]) < StepsLeft(session[r])]_vars
    BY <1>1
  <1> QED
    BY <1>2, RecordsAreTrue, PTL DEF Spec, SessionsAreShort
=============================================================================
