-------------------------- MODULE BackOfficeProofs --------------------------
(***************************************************************************)
(* What is proved of the components around the order desk that keep no     *)
(* money and no stock of their own: the kitchen's boards (ServingBoard),   *)
(* the drafts of the purchasing loops (AutoPurchase), the sign-ins         *)
(* (Accounts) and the reports (Reports), which add up what the others did. *)
(***************************************************************************)
EXTENDS ServingBoard, AutoPurchase, Accounts, Reports, SumTheorems, SequenceTheorems

-----------------------------------------------------------------------------
(* ServingBoard: the orders and the requests that hold them *)

StaffRows == [stage : {"idle", "holding", "publishing"}, order : Orders \cup {NoOrder},
              read : OrderRows]

KitchenOK == orders \in [Orders -> OrderRows] /\ staff \in [Staff -> StaffRows]

\* A request that holds an order's lock holds it alone, and what it read still stands.
HoldsOrder(s) ==
    Holding(s) =>
       /\ staff[s].order \in Orders /\ staff[s].read = orders[staff[s].order]
       /\ \A t \in Staff \ {s} : Holding(t) => staff[t].order # staff[s].order

KitchenInv ==
    /\ KitchenOK
    /\ \A s \in Staff : HoldsOrder(s)
    /\ \A o \in Orders : orders[o].status = "completed" => orders[o].serving = "served"

\* One allowed step of an order (the body of ForwardOnly).
Forward(o, old, new) ==
    /\ new.serving # old.serving =>
          \/ old.status = "pending" /\ new.serving = "queued"
          \/ old.status = "serving" /\ <<old.serving, new.serving>> \in ServingSteps
    /\ new.tracking # old.tracking =>
          old.status = "serving" /\ <<old.tracking, new.tracking>> \in TrackingSteps(o)
    /\ new.status = "completed" => new.serving = "served"
    /\ old.status = "cancelled" => new = old

\* s lets go of its order, having written the row.
Writes(s, row) ==
    /\ Holding(s) /\ row \in OrderRows
    /\ orders' = [orders EXCEPT ![staff[s].order] = row]
    /\ Forward(staff[s].order, staff[s].read, row)

Leaves(s) == \E x \in StaffRows : staff' = [staff EXCEPT ![s] = x] /\ x.stage # "holding"

LEMMA RowTypes ==
    /\ Unseen \in OrderRows /\ Idler \in StaffRows /\ Idler.stage = "idle"
  BY DEF Unseen, Idler, OrderRows, StaffRows, ServingStates, TrackingStates

LEMMA StaffFields ==
    ASSUME KitchenOK, NEW s \in Staff
    PROVE  /\ staff[s] \in StaffRows /\ staff[s].read \in OrderRows
           /\ staff[s].order \in Orders \cup {NoOrder}
  BY DEF KitchenOK, StaffRows

LEMMA Left ==
    ASSUME KitchenOK, NEW s \in Staff, staff' = [staff EXCEPT ![s] = Idler]
    PROVE  Leaves(s)
  BY RowTypes DEF Leaves

LEMMA LeftToPublish ==
    ASSUME KitchenOK, NEW s \in Staff, staff' = [staff EXCEPT ![s].stage = "publishing"]
    PROVE  Leaves(s) /\ staff'[s].stage = "publishing"
  <1> DEFINE x == [staff[s] EXCEPT !.stage = "publishing"]
  <1>1. x \in StaffRows /\ x.stage = "publishing"
    BY StaffFields DEF StaffRows
  <1>2. staff' = [staff EXCEPT ![s] = x]
    OBVIOUS
  <1> HIDE DEF x
  <1> QED
    BY <1>1, <1>2 DEF Leaves, KitchenOK

LEMMA PayWrites ==
    ASSUME KitchenInv, NEW s \in Staff, Pay(s)
    PROVE  \E row : Writes(s, row) /\ row.status = "serving" /\ row.serving = "queued"
                    /\ staff[s].read.status = "pending"
  <1> DEFINE read == staff[s].read
             row == [read EXCEPT !.status = "serving", !.serving = "queued"]
  <1>1. Holding(s) /\ read.status = "pending" /\ orders' = [orders EXCEPT ![staff[s].order] = row]
    BY DEF Pay, CommitSilently
  <1>2. read \in OrderRows
    BY StaffFields DEF KitchenInv
  <1>3. /\ row \in OrderRows /\ row.status = "serving" /\ row.serving = "queued"
        /\ row.tracking = read.tracking
    BY <1>2 DEF OrderRows, ServingStates
  <1> HIDE DEF row
  <1>4. Forward(staff[s].order, read, row)
    BY <1>1, <1>3 DEF Forward
  <1> QED
    BY <1>1, <1>3, <1>4 DEF Writes

LEMMA CancelWrites ==
    ASSUME KitchenInv, NEW s \in Staff, Cancel(s)
    PROVE  \E row : Writes(s, row) /\ row.status = "cancelled"
  <1> DEFINE read == staff[s].read
             row == [read EXCEPT !.status = "cancelled"]
  <1>1. Holding(s) /\ read.status # "cancelled"
        /\ orders' = [orders EXCEPT ![staff[s].order] = row]
    BY DEF Cancel, CommitSilently
  <1>2. read \in OrderRows
    BY StaffFields DEF KitchenInv
  <1>3. /\ row \in OrderRows /\ row.status = "cancelled" /\ row.serving = read.serving
        /\ row.tracking = read.tracking
    BY <1>2 DEF OrderRows
  <1> HIDE DEF row
  <1>4. Forward(staff[s].order, read, row)
    BY <1>1, <1>3 DEF Forward
  <1> QED
    BY <1>1, <1>3, <1>4 DEF Writes

LEMMA ServingWrites ==
    ASSUME KitchenInv, NEW s \in Staff, NEW state \in ServingStates, TransitionServing(s, state)
    PROVE  \E row : Writes(s, row)
  <1> DEFINE read == staff[s].read
             status == IF state = "served" THEN "completed" ELSE read.status
             row == [read EXCEPT !.serving = state, !.status = status]
  <1>1. read \in OrderRows
    BY StaffFields DEF KitchenInv
  <1>2. /\ Holding(s) /\ read.status = "serving" /\ <<read.serving, state>> \in ServingSteps
        /\ orders' = [orders EXCEPT ![staff[s].order] = row]
    BY <1>1 DEF TransitionServing, CommitAndPublish, OrderRows
  <1>3. status \in {"serving", "completed"} /\ (status = "completed" => state = "served")
    BY <1>2
  <1> HIDE DEF status
  <1>4. /\ row \in OrderRows /\ row.status = status /\ row.serving = state
        /\ row.tracking = read.tracking
    BY <1>1, <1>3 DEF OrderRows
  <1> HIDE DEF row
  <1>5. Forward(staff[s].order, read, row)
    BY <1>2, <1>3, <1>4 DEF Forward
  <1> QED
    BY <1>2, <1>4, <1>5 DEF Writes

LEMMA TrackingWrites ==
    ASSUME KitchenInv, NEW s \in Staff, NEW state \in TrackingStates, TransitionTracking(s, state)
    PROVE  \E row : Writes(s, row)
  <1> DEFINE read == staff[s].read
             row == [read EXCEPT !.tracking = state]
  <1>1. /\ Holding(s) /\ read.status = "serving"
        /\ <<read.tracking, state>> \in TrackingSteps(staff[s].order)
        /\ orders' = [orders EXCEPT ![staff[s].order] = row]
    BY DEF TransitionTracking, CommitAndPublish
  <1>2. read \in OrderRows
    BY StaffFields DEF KitchenInv
  <1>3. /\ row \in OrderRows /\ row.status = read.status /\ row.serving = read.serving
        /\ row.tracking = state
    BY <1>2 DEF OrderRows
  <1> HIDE DEF row
  <1>4. Forward(staff[s].order, read, row)
    BY <1>1, <1>3 DEF Forward
  <1> QED
    BY <1>1, <1>3, <1>4 DEF Writes

\* Every step of an order's life is a write of the request that holds it.
LEMMA WritesKeep ==
    ASSUME KitchenInv, NEW s \in Staff, NEW row, Writes(s, row), Leaves(s)
    PROVE  KitchenInv' /\ \A o \in Orders : Forward(o, orders[o], orders'[o])
  <1>1. PICK x \in StaffRows : staff' = [staff EXCEPT ![s] = x] /\ x.stage # "holding"
    BY DEF Leaves
  <1>2. /\ staff[s].order \in Orders /\ staff[s].read = orders[staff[s].order]
        /\ row \in OrderRows /\ orders' = [orders EXCEPT ![staff[s].order] = row]
        /\ Forward(staff[s].order, orders[staff[s].order], row)
    BY DEF KitchenInv, HoldsOrder, Writes
  <1>3. KitchenOK'
    BY <1>1, <1>2 DEF KitchenInv, KitchenOK
  <1>4. /\ \A t \in Staff : staff'[t] = IF t = s THEN x ELSE staff[t]
        /\ \A o \in Orders : orders'[o] = IF o = staff[s].order THEN row ELSE orders[o]
    BY <1>1, <1>2 DEF KitchenInv, KitchenOK
  <1>5. \A t \in Staff \ {s} : Holding(t) => staff[t].order # staff[s].order
    BY DEF KitchenInv, HoldsOrder, Writes
  <1>6. \A t \in Staff : HoldsOrder(t)'
    BY <1>1, <1>2, <1>4, <1>5 DEF KitchenInv, HoldsOrder, Holding
  <1>7. \A o \in Orders : Forward(o, orders[o], orders'[o])
    BY <1>2, <1>4 DEF Forward, KitchenInv
  <1>8. \A o \in Orders : orders'[o].status = "completed" => orders'[o].serving = "served"
    BY <1>7 DEF Forward
  <1> QED
    BY <1>3, <1>6, <1>7, <1>8 DEF KitchenInv

\* A request ends without a write, or nothing happens in the kitchen.
LEMMA LeavesKeep ==
    ASSUME KitchenInv, NEW s \in Staff, Leaves(s), UNCHANGED orders
    PROVE  KitchenInv'
  <1>1. PICK x \in StaffRows : staff' = [staff EXCEPT ![s] = x] /\ x.stage # "holding"
    BY DEF Leaves
  <1>2. KitchenOK' /\ \A t \in Staff : staff'[t] = IF t = s THEN x ELSE staff[t]
    BY <1>1 DEF KitchenInv, KitchenOK
  <1>3. \A t \in Staff : HoldsOrder(t)'
    BY <1>1, <1>2 DEF KitchenInv, HoldsOrder, Holding
  <1> QED
    BY <1>2, <1>3 DEF KitchenInv

LEMMA LoadOrderKeeps ==
    ASSUME KitchenInv, NEW s \in Staff, NEW o \in Orders, LoadOrder(s, o)
    PROVE  KitchenInv'
  <1> DEFINE x == [stage |-> "holding", order |-> o, read |-> orders[o]]
  <1>1. ~Locked(o) /\ staff' = [staff EXCEPT ![s] = x] /\ UNCHANGED orders
    BY DEF LoadOrder
  <1>2. x \in StaffRows /\ x.order = o /\ x.read = orders[o]
    BY DEF KitchenInv, KitchenOK, StaffRows
  <1> HIDE DEF x
  <1>3. KitchenOK' /\ \A t \in Staff : staff'[t] = IF t = s THEN x ELSE staff[t]
    BY <1>1, <1>2 DEF KitchenInv, KitchenOK
  <1>4. \A t \in Staff : Holding(t) => staff[t].order # o
    BY <1>1 DEF Locked
  <1>5. \A t \in Staff : HoldsOrder(t)'
    BY <1>1, <1>2, <1>3, <1>4 DEF KitchenInv, HoldsOrder, Holding
  <1> QED
    BY <1>1, <1>3, <1>5 DEF KitchenInv

\* A step of a request, as far as the kitchen is concerned.
LEMMA StaffSteps ==
    ASSUME KitchenInv, NEW s \in Staff, StaffNext(s)
    PROVE  KitchenInv' /\ \A o \in Orders : Forward(o, orders[o], orders'[o])
  <1>0. UNCHANGED orders => \A o \in Orders : Forward(o, orders[o], orders'[o])
    BY DEF Forward, KitchenInv
  <1>1. ASSUME NEW o \in Orders, LoadOrder(s, o)
        PROVE  KitchenInv' /\ UNCHANGED orders
    BY <1>1, LoadOrderKeeps DEF LoadOrder
  <1>2. CASE Pay(s)
    <2>1. Leaves(s)
      BY <1>2, Left DEF Pay, CommitSilently, KitchenInv
    <2> QED
      BY <1>2, <2>1, PayWrites, WritesKeep
  <1>3. CASE Cancel(s)
    <2>1. Leaves(s)
      BY <1>3, Left DEF Cancel, CommitSilently, KitchenInv
    <2> QED
      BY <1>3, <2>1, CancelWrites, WritesKeep
  <1>4. ASSUME NEW state \in ServingStates, TransitionServing(s, state)
        PROVE  KitchenInv' /\ \A o \in Orders : Forward(o, orders[o], orders'[o])
    <2>1. Leaves(s)
      BY <1>4, LeftToPublish DEF TransitionServing, CommitAndPublish, KitchenInv
    <2> QED
      BY <1>4, <2>1, ServingWrites, WritesKeep
  <1>5. ASSUME NEW state \in TrackingStates, TransitionTracking(s, state)
        PROVE  KitchenInv' /\ \A o \in Orders : Forward(o, orders[o], orders'[o])
    <2>1. Leaves(s)
      BY <1>5, LeftToPublish DEF TransitionTracking, CommitAndPublish, KitchenInv
    <2> QED
      BY <1>5, <2>1, TrackingWrites, WritesKeep
  <1>6. CASE Reject(s)
    <2>1. Leaves(s) /\ UNCHANGED orders
      BY <1>6, Left DEF Reject, KitchenInv
    <2> QED
      BY <1>0, <2>1, LeavesKeep
  <1>7. CASE ReportLocation(s)
    <2>1. Leaves(s) /\ UNCHANGED orders
      BY <1>7, LeftToPublish DEF ReportLocation, KitchenInv
    <2> QED
      BY <1>0, <2>1, LeavesKeep
  <1>8. ASSUME NEW w \in Processes, Publish(s, w)
        PROVE  KitchenInv' /\ UNCHANGED orders
    BY <1>8, Left, LeavesKeep, ZenonT(40) DEF Publish, KitchenInv
  <1> QED
    BY <1>0, <1>1, <1>2, <1>3, <1>4, <1>5, <1>6, <1>7, <1>8 DEF StaffNext

LEMMA ScreenSteps ==
    ASSUME NEW b \in Boards, ScreenNext(b)
    PROVE  UNCHANGED <<orders, staff>>
  BY DEF ScreenNext, RunCallback, Drain, ReadQueue, OpenBoard, Subscribe, Unsubscribe, Poll,
         ShowQueue

LEMMA KitchenStays ==
    ASSUME KitchenInv, UNCHANGED <<orders, staff>>
    PROVE  KitchenInv' /\ \A o \in Orders : Forward(o, orders[o], orders'[o])
  <1>1. KitchenInv'
    BY DEF KitchenInv, KitchenOK, HoldsOrder, Holding
  <1>2. \A o \in Orders : Forward(o, orders[o], orders'[o])
    BY DEF Forward, KitchenInv
  <1> QED
    BY <1>1, <1>2

LEMMA KitchenInit ==
    ASSUME BoardInit
    PROVE  KitchenInv
  BY RowTypes DEF BoardInit, KitchenInv, KitchenOK, HoldsOrder, Holding, Unseen

LEMMA KitchenStep ==
    ASSUME KitchenInv, [BoardNext]_boardVars
    PROVE  KitchenInv' /\ \A o \in Orders : Forward(o, orders[o], orders'[o])
  BY StaffSteps, ScreenSteps, KitchenStays DEF BoardNext, boardVars

\* Whatever the kitchen, the drivers and the tills do at once, an order's states move
\* forward only, one allowed step at a time, served and completed go together, and a
\* cancelled order stays as it is: each handler decides by what it read under the row's
\* lock, which is still so when it writes.
THEOREM OrdersMoveForward == BoardSpec => ForwardOnly
  <1>1. BoardInit => KitchenInv
    BY KitchenInit
  <1>2. KitchenInv /\ [BoardNext]_boardVars =>
           KitchenInv' /\ \A o \in Orders : Forward(o, orders[o], orders'[o])
    BY KitchenStep
  <1>3. KitchenInv /\ [BoardNext]_boardVars => KitchenInv'
    BY <1>2
  <1>4. KitchenInv /\ [BoardNext]_boardVars =>
           [\A o \in Orders :
              LET old == orders[o]
                  new == orders'[o]
              IN  /\ new.serving # old.serving =>
                        \/ old.status = "pending" /\ new.serving = "queued"
                        \/ old.status = "serving" /\ <<old.serving, new.serving>> \in ServingSteps
                  /\ new.tracking # old.tracking =>
                        old.status = "serving" /\ <<old.tracking, new.tracking>> \in TrackingSteps(o)
                  /\ new.status = "completed" => new.serving = "served"
                  /\ old.status = "cancelled" => new = old]_boardVars
    BY <1>2 DEF Forward
  <1> QED
    BY <1>1, <1>3, <1>4, PTL DEF BoardSpec, ForwardOnly

-----------------------------------------------------------------------------
(* ServingBoard: the screens *)

ScreenRows == [link : {"off", "connecting", "on"}, coming : 0..MaxComing, queue : 0..Capacity,
               asks : 0..MaxFetches, answers : Seq(QueueAnswers),
               shown : [Orders -> ServingStates], doubts : SUBSET Doubts]

Screen(b) == boards[b].asks + Len(boards[b].answers) <= MaxFetches

ScreensOK == boards \in [Boards -> ScreenRows] /\ \A b \in Boards : Screen(b)

LEMMA BoardTypes == KitchenOK /\ ScreensOK <=> BoardTypeOK
  BY DEF KitchenOK, StaffRows, ScreensOK, ScreenRows, Screen, BoardTypeOK

LastAnswer(b) == boards[b].answers[Len(boards[b].answers)]

Publishing == \E s \in Staff : staff[s].stage = "publishing"

\* The board hears of a change yet, or is to ask.
Expected(b) ==
    \/ boards[b].coming > 0 \/ boards[b].queue > 0 \/ boards[b].asks > 0
    \/ Publishing

\* There is a doubt about the last answer the board has, or is to get.
Doubtful(b) == IF boards[b].answers = <<>> THEN boards[b].doubts # {} ELSE LastAnswer(b).doubts # {}

\* ... and what it says.
Latest(b) == IF boards[b].answers = <<>> THEN boards[b].shown ELSE LastAnswer(b).queue

\* A queue shows the order as well as a board can know.
Right(queue, o) ==
    \/ queue[o] = ServingQueue[o]
    \/ queue[o] = "none" /\ ServingQueue[o] = "queued"
    \/ orders[o].status = "cancelled"

Informed(b) ==
    /\ Live(b) => Expected(b) \/ Doubtful(b) \/ \A o \in Orders : Right(Latest(b), o)
    /\ boards[b].link = "connecting" => boards[b].asks > 0 \/ Doubtful(b)

ScreensInv == ScreensOK /\ \A b \in Boards : Informed(b)

\* The screens while only the kitchen moves.
LEMMA Silence ==
    ASSUME ScreensInv, UNCHANGED boards, Publishing => Publishing',
           Publishing' \/ \A o \in Orders : \A queue : Right(queue, o) => Right(queue, o)'
    PROVE  ScreensInv'
  <1>1. ScreensOK'
    BY DEF ScreensInv, ScreensOK, Screen
  <1>2. ASSUME NEW b \in Boards PROVE Informed(b)'
    <2>1. /\ Latest(b)' = Latest(b) /\ Doubtful(b)' = Doubtful(b) /\ Live(b)' = Live(b)
      BY DEF Latest, Doubtful, LastAnswer, Live
    <2>2. Expected(b) => Expected(b)'
      BY DEF Expected
    <2>3. Publishing' => Expected(b)'
      BY DEF Expected
    <2> HIDE DEF Publishing
    <2>4. (\A o \in Orders : Right(Latest(b), o)) => Publishing' \/ \A o \in Orders : Right(Latest(b), o)'
      BY <2>1
    <2> QED
      BY <2>1, <2>2, <2>3, <2>4 DEF ScreensInv, Informed
  <1> QED
    BY <1>1, <1>2 DEF ScreensInv

\* ... or only one screen does.
LEMMA ScreenChanges ==
    ASSUME ScreensInv, UNCHANGED <<orders, staff>>, NEW b \in Boards, NEW x \in ScreenRows,
           boards' = [boards EXCEPT ![b] = x], x.asks + Len(x.answers) <= MaxFetches,
           boards'[b] = x => Informed(b)'
    PROVE  ScreensInv'
  <1>1. \A d \in Boards : boards'[d] = IF d = b THEN x ELSE boards[d]
    BY DEF ScreensInv, ScreensOK
  <1>2. ScreensOK'
    BY <1>1 DEF ScreensInv, ScreensOK, Screen
  <1>3. ASSUME NEW d \in Boards \ {b} PROVE Informed(d)'
    <2>1. boards'[d] = boards[d] /\ Publishing' = Publishing
      BY <1>1 DEF Publishing
    <2>2. /\ Latest(d)' = Latest(d) /\ Doubtful(d)' = Doubtful(d) /\ Live(d)' = Live(d)
          /\ Expected(d)' = Expected(d)
      BY <2>1 DEF Latest, Doubtful, LastAnswer, Live, Expected
    <2>3. ServingQueue' = ServingQueue
      BY DEF ServingQueue
    <2>4. \A o \in Orders : Right(Latest(d), o)' <=> Right(Latest(d), o)
      BY <2>2, <2>3 DEF Right
    <2> QED
      BY <2>1, <2>2, <2>4 DEF ScreensInv, Informed
  <1> QED
    BY <1>1, <1>2, <1>3 DEF ScreensInv

LEMMA ScreenFields ==
    ASSUME ScreensInv, NEW b \in Boards
    PROVE  /\ boards[b] \in ScreenRows
           /\ boards[b].coming \in 0..MaxComing /\ boards[b].queue \in 0..Capacity
           /\ boards[b].asks \in 0..MaxFetches /\ boards[b].answers \in Seq(QueueAnswers)
           /\ Len(boards[b].answers) \in Nat
           /\ boards[b].asks + Len(boards[b].answers) <= MaxFetches
           /\ Capacity \in Nat \ {0} /\ MaxComing \in Nat /\ MaxFetches \in Nat
           /\ Informed(b)
  BY ServingBoardAssumption, LenProperties DEF ScreensInv, ScreensOK, ScreenRows, Screen

\* A screen with some of its fields changed.
Heard(r, coming, queue) == [r EXCEPT !.coming = coming, !.queue = queue]

LEMMA HeardRow ==
    ASSUME NEW r \in ScreenRows, NEW coming \in 0..MaxComing, NEW queue \in 0..Capacity
    PROVE  LET x == Heard(r, coming, queue)
           IN  /\ x \in ScreenRows
               /\ x.coming = coming /\ x.queue = queue /\ x.asks = r.asks
               /\ x.link = r.link /\ x.answers = r.answers /\ x.doubts = r.doubts
  BY DEF Heard, ScreenRows

Drained(r, queue, asks) == [r EXCEPT !.queue = queue, !.asks = asks]

LEMMA DrainedRow ==
    ASSUME NEW r \in ScreenRows, NEW queue \in 0..Capacity, NEW asks \in 0..MaxFetches
    PROVE  LET x == Drained(r, queue, asks)
           IN  x \in ScreenRows /\ x.asks = asks /\ x.answers = r.answers
  BY DEF Drained, ScreenRows

LEMMA OpenRow ==
    ASSUME NEW r \in ScreenRows, NEW asks \in 0..MaxFetches,
           NEW x, x = [r EXCEPT !.link = "connecting", !.asks = asks]
    PROVE  x \in ScreenRows /\ x.asks = asks /\ x.answers = r.answers
  BY DEF ScreenRows

LEMMA PollRow ==
    ASSUME NEW r \in ScreenRows, NEW asks \in 0..MaxFetches,
           NEW x, x = [r EXCEPT !.asks = asks]
    PROVE  x \in ScreenRows /\ x.asks = asks /\ x.answers = r.answers
  BY DEF ScreenRows

LEMMA ScreenTypes ==
    ASSUME ScreensInv, NEW b \in Boards
    PROVE  /\ boards[b] \in ScreenRows
           /\ boards[b].coming \in 0..MaxComing /\ boards[b].queue \in 0..Capacity
           /\ boards[b].asks \in 0..MaxFetches /\ Len(boards[b].answers) \in Nat
           /\ boards[b].asks + Len(boards[b].answers) <= MaxFetches
           /\ Capacity \in Nat \ {0} /\ MaxComing \in Nat /\ MaxFetches \in Nat
  BY ScreenFields

LEMMA RunCallbackKeeps ==
    ASSUME ScreensInv, NEW b \in Boards, RunCallback(b)
    PROVE  ScreensInv'
  <1> DEFINE r == boards[b]
             queue == IF r.queue < Capacity THEN r.queue + 1 ELSE r.queue
             coming == r.coming - 1
             x == Heard(r, coming, queue)
  <1>1. /\ r.coming > 0 /\ UNCHANGED <<orders, staff>>
        /\ boards' = [boards EXCEPT ![b] = x]
    BY ScreenFields DEF RunCallback, ScreensInv, ScreensOK, ScreenRows, Heard
  <1>2. queue \in 0..Capacity /\ queue > 0 /\ coming \in 0..MaxComing
    BY <1>1, ScreenTypes
  <1>3. r \in ScreenRows
    BY ScreenTypes
  <1> HIDE DEF queue, coming, r
  <1>4. /\ x \in ScreenRows /\ x.queue = queue /\ x.asks = r.asks
        /\ x.answers = r.answers /\ x.link = r.link /\ x.doubts = r.doubts
    BY <1>2, <1>3, HeardRow
  <1> HIDE DEF x
  <1>5. boards'[b] = x => Informed(b)'
    BY <1>2, <1>4, ScreenFields DEF Informed, Expected, Doubtful, LastAnswer, r
  <1>6. x.asks + Len(x.answers) <= MaxFetches
    BY <1>4, ScreenTypes DEF r
  <1> QED
    BY <1>1, <1>4, <1>5, <1>6, ScreenChanges

LEMMA DrainKeeps ==
    ASSUME ScreensInv, NEW b \in Boards, Drain(b)
    PROVE  ScreensInv'
  <1> DEFINE r == boards[b]
             queue == r.queue - 1
             asks == r.asks + 1
             x == Drained(r, queue, asks)
  <1>1. /\ r.queue > 0 /\ r.asks + Len(r.answers) < MaxFetches
        /\ UNCHANGED <<orders, staff>> /\ boards' = [boards EXCEPT ![b] = x]
    BY ScreenFields DEF Drain, MayAsk, ScreensInv, ScreensOK, ScreenRows, Drained
  <1>2. queue \in 0..Capacity /\ asks \in 0..MaxFetches /\ r \in ScreenRows
    BY <1>1, ScreenTypes, SMTT(30)
  <1> HIDE DEF r, queue, asks
  <1>3. x \in ScreenRows /\ x.asks = asks /\ x.answers = r.answers
    BY <1>2, DrainedRow
  <1> HIDE DEF x
  <1>4. boards'[b] = x => Informed(b)'
    BY <1>3, ScreenTypes DEF Informed, Expected, r, asks
  <1>5. x.asks + Len(x.answers) <= MaxFetches
    BY <1>1, <1>3, ScreenTypes DEF r, asks
  <1> QED
    BY <1>1, <1>3, <1>4, <1>5, ScreenChanges

\* The board asks for the queue.
LEMMA AsksKeep ==
    ASSUME ScreensInv, NEW b \in Boards, NEW x \in ScreenRows, MayAsk(b),
           UNCHANGED <<orders, staff>>, boards' = [boards EXCEPT ![b] = x],
           x.asks = boards[b].asks + 1, x.answers = boards[b].answers
    PROVE  ScreensInv'
  <1>1. boards'[b] = x => Informed(b)'
    BY ScreenTypes DEF Informed, Expected
  <1>2. x.asks + Len(x.answers) <= MaxFetches
    BY ScreenTypes DEF MayAsk
  <1> QED
    BY <1>1, <1>2, ScreenChanges

LEMMA OpenBoardKeeps ==
    ASSUME ScreensInv, NEW b \in Boards, OpenBoard(b)
    PROVE  ScreensInv'
  <1> DEFINE r == boards[b]
             asks == r.asks + 1
             x == [r EXCEPT !.link = "connecting", !.asks = asks]
  <1>1. MayAsk(b) /\ UNCHANGED <<orders, staff>> /\ boards' = [boards EXCEPT ![b] = x]
    BY ScreenFields DEF OpenBoard, ScreensInv, ScreensOK, ScreenRows
  <1>2. asks \in 0..MaxFetches /\ r \in ScreenRows
    BY <1>1, ScreenTypes DEF MayAsk
  <1> HIDE DEF r, asks
  <1>3. x \in ScreenRows /\ x.asks = asks /\ x.answers = r.answers
    BY <1>2, OpenRow
  <1> HIDE DEF x
  <1> QED
    BY <1>1, <1>3, AsksKeep DEF r, asks

LEMMA PollKeeps ==
    ASSUME ScreensInv, NEW b \in Boards, Poll(b)
    PROVE  ScreensInv'
  <1> DEFINE r == boards[b]
             asks == r.asks + 1
             x == [r EXCEPT !.asks = asks]
  <1>1. MayAsk(b) /\ UNCHANGED <<orders, staff>> /\ boards' = [boards EXCEPT ![b] = x]
    BY ScreenFields DEF Poll, ScreensInv, ScreensOK, ScreenRows
  <1>2. asks \in 0..MaxFetches /\ r \in ScreenRows
    BY <1>1, ScreenTypes DEF MayAsk
  <1> HIDE DEF r, asks
  <1>3. x \in ScreenRows /\ x.asks = asks /\ x.answers = r.answers
    BY <1>2, PollRow
  <1> HIDE DEF x
  <1> QED
    BY <1>1, <1>3, AsksKeep DEF r, asks

LEMMA SubscribeKeeps ==
    ASSUME ScreensInv, NEW b \in Boards, Subscribe(b)
    PROVE  ScreensInv'
  <1> DEFINE x == [boards[b] EXCEPT !.link = "on"]
  <1>1. /\ boards[b].link = "connecting" /\ UNCHANGED <<orders, staff>>
        /\ boards' = [boards EXCEPT ![b] = x]
    BY ScreenFields DEF Subscribe, ScreensInv, ScreensOK
  <1>2. /\ x \in ScreenRows /\ x.link = "on" /\ x.asks = boards[b].asks
        /\ x.answers = boards[b].answers /\ x.doubts = boards[b].doubts
    BY ScreenFields DEF ScreenRows
  <1> HIDE DEF x
  <1>3. boards'[b] = x => Informed(b)'
    BY <1>1, <1>2, ScreenFields DEF Informed, Expected, Doubtful, LastAnswer
  <1> QED
    BY <1>1, <1>2, <1>3, ScreenFields, ScreenChanges

LEMMA DarkRow ==
    ASSUME NEW r \in ScreenRows,
           NEW x, x = [r EXCEPT !.link = "off", !.coming = 0, !.queue = 0,
                                !.doubts = r.doubts \cup {"off_air"}]
    PROVE  x \in ScreenRows /\ x.link = "off" /\ x.asks = r.asks /\ x.answers = r.answers
  <1>1. 0 \in 0..MaxComing /\ 0 \in 0..Capacity
    BY ServingBoardAssumption
  <1>2. DOMAIN r = {"link", "coming", "queue", "asks", "answers", "shown", "doubts"}
    BY DEF ScreenRows
  <1>3. /\ x.link = "off" /\ x.coming = 0 /\ x.queue = 0 /\ x.doubts = r.doubts \cup {"off_air"}
        /\ x.asks = r.asks /\ x.answers = r.answers /\ x.shown = r.shown
    BY <1>2
  <1>4. x = [link |-> "off", coming |-> 0, queue |-> 0, asks |-> r.asks,
             answers |-> r.answers, shown |-> r.shown, doubts |-> r.doubts \cup {"off_air"}]
    BY <1>2
  <1> QED
    BY <1>1, <1>3, <1>4 DEF ScreenRows, Doubts

LEMMA UnsubscribeKeeps ==
    ASSUME ScreensInv, NEW b \in Boards, Unsubscribe(b)
    PROVE  ScreensInv'
  <1> DEFINE r == boards[b]
             x == [r EXCEPT !.link = "off", !.coming = 0, !.queue = 0,
                            !.doubts = r.doubts \cup {"off_air"}]
  <1>1. UNCHANGED <<orders, staff>> /\ boards' = [boards EXCEPT ![b] = x]
    BY ScreenFields DEF Unsubscribe, ScreensInv, ScreensOK, ScreenRows
  <1>2. r \in ScreenRows
    BY ScreenTypes
  <1> HIDE DEF r
  <1>3. x \in ScreenRows /\ x.link = "off" /\ x.asks = r.asks /\ x.answers = r.answers
    BY <1>2, DarkRow
  <1> HIDE DEF x
  <1>4. boards'[b] = x => Informed(b)'
    BY <1>3 DEF Informed, Live
  <1> QED
    BY <1>1, <1>3, <1>4, ScreenTypes, ScreenChanges DEF r

LEMMA FunctionIsSeq ==
    ASSUME NEW S, NEW n \in Nat, NEW f \in [1..n -> S]
    PROVE  f \in Seq(S) /\ Len(f) = n /\ (f = <<>> <=> n = 0)
  <1>1. f \in Seq(S)
    BY SeqDef
  <1>2. Len(f) = n
    BY <1>1, LenProperties
  <1>3. Len(<<>>) = 0
    BY EmptySeq
  <1>4. n = 0 => f = <<>>
    BY <1>1, <1>2, EmptySeq
  <1> QED
    BY <1>1, <1>2, <1>3, <1>4

\* A screen with other answers, and what the last of them is.
Replied(r, asks, answers) == [r EXCEPT !.asks = asks, !.answers = answers]

LEMMA AnsweredRow ==
    ASSUME NEW r \in ScreenRows, NEW asks \in 0..MaxFetches, NEW answers \in Seq(QueueAnswers)
    PROVE  LET x == Replied(r, asks, answers)
           IN  /\ x \in ScreenRows /\ x.asks = asks /\ x.answers = answers /\ x.link = r.link
               /\ x.doubts = r.doubts
  BY DEF Replied, ScreenRows

LEMMA ServingQueueType ==
    ASSUME KitchenOK
    PROVE  ServingQueue \in [Orders -> ServingStates]
  BY DEF KitchenOK, ServingQueue, OrderRows, ServingStates

\* The newest answer says how things are.
LEMMA ReadQueueKeeps ==
    ASSUME ScreensInv, KitchenOK, NEW b \in Boards, ReadQueue(b)
    PROVE  ScreensInv'
  <1> DEFINE r == boards[b]
             answer == [queue |-> ServingQueue, doubts |-> OffAir(b)]
             asks == r.asks - 1
             answers == Append(r.answers, answer)
             x == Replied(r, asks, answers)
  <1>1. /\ r.asks > 0 /\ UNCHANGED <<orders, staff>>
        /\ boards' = [boards EXCEPT ![b] = x]
    BY ScreenFields DEF ReadQueue, ScreensInv, ScreensOK, ScreenRows, Replied
  <1>2. /\ answer \in QueueAnswers /\ answer.queue = ServingQueue
        /\ answer.doubts = {} <=> r.link = "on"
    BY ServingQueueType DEF QueueAnswers, Doubts, OffAir, Live
  <1>3. r \in ScreenRows /\ asks \in 0..MaxFetches /\ r.answers \in Seq(QueueAnswers)
    BY <1>1, ScreenFields
  <1> HIDE DEF answer
  <1>4. /\ answers \in Seq(QueueAnswers) /\ Len(answers) = Len(r.answers) + 1
        /\ answers[Len(answers)] = answer /\ answers # <<>>
    BY <1>2, <1>3, LenProperties, EmptySeq
  <1> HIDE DEF asks, answers, r
  <1>5. x \in ScreenRows /\ x.asks = asks /\ x.answers = answers /\ x.link = r.link
    BY <1>3, <1>4, AnsweredRow
  <1> HIDE DEF x
  <1>6. ServingQueue' = ServingQueue
    BY <1>1 DEF ServingQueue
  <1>7. boards'[b] = x => Informed(b)'
    <2>1. SUFFICES ASSUME boards'[b] = x PROVE Informed(b)'
      OBVIOUS
    <2>2. Doubtful(b)' = (answer.doubts # {}) /\ Latest(b)' = answer.queue
      BY <2>1, <1>4, <1>5 DEF Doubtful, Latest, LastAnswer
    <2> QED
      BY <2>1, <2>2, <1>2, <1>5, <1>6 DEF Informed, Live, Right
  <1>8. x.asks + Len(x.answers) <= MaxFetches
    BY <1>3, <1>4, <1>5, ScreenTypes, SMTT(30) DEF asks, r
  <1> QED
    BY <1>1, <1>5, <1>7, <1>8, ScreenChanges

\* The answers left when the i-th is shown.
LeftAnswers(answers, i) ==
    [j \in 1..(Len(answers) - 1) |->
        IF j < i THEN Doubted(answers[j], "overtaken") ELSE answers[j + 1]]

LEMMA LeftSeq ==
    ASSUME NEW answers \in Seq(QueueAnswers), NEW i \in 1..Len(answers)
    PROVE  LET left == LeftAnswers(answers, i)
           IN  /\ left \in Seq(QueueAnswers) /\ Len(left) = Len(answers) - 1
               /\ left = <<>> <=> Len(answers) = 1
               /\ left # <<>> => IF i = Len(answers) THEN left[Len(left)].doubts # {}
                                 ELSE left[Len(left)] = answers[Len(answers)]
  <1> DEFINE n == Len(answers)
             left == LeftAnswers(answers, i)
  <1>1. n \in Nat \ {0} /\ answers \in [1..n -> QueueAnswers]
    BY LenProperties
  <1>2. \A a \in QueueAnswers : /\ Doubted(a, "overtaken") \in QueueAnswers
                                /\ Doubted(a, "overtaken").doubts # {}
    BY DEF Doubted, QueueAnswers, Doubts
  <1> HIDE DEF n
  <1>3. n - 1 \in Nat /\ i \in 1..n /\ \A j \in 1..(n - 1) : j \in 1..n /\ j + 1 \in 1..n
    BY <1>1 DEF n
  <1>4. left = [j \in 1..(n - 1) |->
                  IF j < i THEN Doubted(answers[j], "overtaken") ELSE answers[j + 1]]
    BY DEF LeftAnswers, n
  <1>5. left \in [1..(n - 1) -> QueueAnswers]
    BY <1>1, <1>2, <1>3, <1>4
  <1>6. \A j \in 1..(n - 1) : left[j] = IF j < i THEN Doubted(answers[j], "overtaken")
                                        ELSE answers[j + 1]
    BY <1>4
  <1> HIDE DEF left
  <1>7. left \in Seq(QueueAnswers) /\ Len(left) = n - 1 /\ (left = <<>> <=> n - 1 = 0)
    BY <1>3, <1>5, FunctionIsSeq
  <1>8. ASSUME left # <<>>
        PROVE  IF i = n THEN left[n - 1].doubts # {} ELSE left[n - 1] = answers[n]
    <2>1. n - 1 \in 1..(n - 1) /\ n - 1 + 1 = n /\ (n - 1 < i <=> i = n)
      BY <1>1, <1>3, <1>7, <1>8
    <2>2. answers[n - 1] \in QueueAnswers
      BY <1>1, <1>3, <2>1
    <2> QED
      BY <1>2, <1>6, <2>1, <2>2
  <1>9. left = <<>> <=> n = 1
    BY <1>1, <1>7
  <1> QED
    BY <1>7, <1>8, <1>9 DEF n, left

Showing(r, queue, doubts, answers) ==
    [r EXCEPT !.shown = queue, !.doubts = doubts, !.answers = answers]

LEMMA ShowingRow ==
    ASSUME NEW r \in ScreenRows, NEW queue \in [Orders -> ServingStates],
           NEW doubts \in SUBSET Doubts, NEW answers \in Seq(QueueAnswers)
    PROVE  LET x == Showing(r, queue, doubts, answers)
           IN  /\ x \in ScreenRows /\ x.shown = queue /\ x.doubts = doubts /\ x.answers = answers
               /\ x.asks = r.asks /\ x.coming = r.coming /\ x.queue = r.queue /\ x.link = r.link
  BY DEF Showing, ScreenRows

\* The last answer is shown last, or those left are overtaken.
LEMMA ShowQueueKeeps ==
    ASSUME ScreensInv, NEW b \in Boards, NEW i \in 1..MaxFetches, ShowQueue(b, i)
    PROVE  ScreensInv'
  <1> DEFINE r == boards[b]
             answers == r.answers
             n == Len(answers)
             doubts == answers[i].doubts \cup OffAir(b)
             left == LeftAnswers(answers, i)
             queue == answers[i].queue
             x == Showing(r, queue, doubts, left)
  <1>1. /\ i \in DOMAIN answers /\ UNCHANGED <<orders, staff>>
        /\ boards' = [boards EXCEPT ![b] = x]
    BY ScreenFields DEF ShowQueue, ScreensInv, ScreensOK, ScreenRows, Showing, LeftAnswers
  <1>2. /\ r \in ScreenRows /\ answers \in Seq(QueueAnswers) /\ n \in Nat /\ i \in 1..n
        /\ answers[i] \in QueueAnswers
    BY <1>1, ScreenFields, LenProperties, ElementOfSeq
  <1>3. queue \in [Orders -> ServingStates] /\ doubts \in SUBSET Doubts
    BY <1>2 DEF QueueAnswers, Doubts, OffAir
  <1>4. /\ left \in Seq(QueueAnswers) /\ Len(left) = n - 1
        /\ left = <<>> <=> n = 1
        /\ left # <<>> => IF i = n THEN left[Len(left)].doubts # {}
                          ELSE left[Len(left)] = answers[n]
    BY <1>2, LeftSeq
  <1>5. answers # <<>>
    BY <1>2, EmptySeq
  <1>6. Live(b) <=> r.link = "on"
    BY DEF Live
  <1>7. Informed(b)
    BY ScreenFields
  <1>8. /\ LastAnswer(b) = answers[n] /\ Latest(b) = answers[n].queue
        /\ Doubtful(b) = (answers[n].doubts # {})
    BY <1>5 DEF LastAnswer, Doubtful, Latest
  <1>9. doubts # {} <=> answers[i].doubts # {} \/ r.link # "on"
    BY <1>6 DEF OffAir
  <1> HIDE DEF r, answers, n, doubts, left, queue
  <1>10. /\ x \in ScreenRows /\ x.shown = queue /\ x.doubts = doubts /\ x.answers = left
         /\ x.asks = r.asks /\ x.coming = r.coming /\ x.queue = r.queue /\ x.link = r.link
    BY <1>2, <1>3, <1>4, ShowingRow
  <1> HIDE DEF x
  <1>11. ServingQueue' = ServingQueue /\ Publishing' = Publishing
    BY <1>1 DEF ServingQueue, Publishing
  <1>12. ASSUME boards'[b] = x PROVE Informed(b)'
    <2>1. /\ Live(b)' = Live(b)
          /\ boards'[b].link = r.link /\ boards'[b].asks = r.asks /\ Expected(b)' = Expected(b)
      BY <1>10, <1>11, <1>12 DEF Live, Expected, r
    <2>2. CASE left = <<>>
      <3>1. i = n
        BY <1>2, <1>4, <2>2
      <3>2. Doubtful(b)' = (doubts # {}) /\ Latest(b)' = queue
        BY <1>10, <1>12, <2>2 DEF Doubtful, Latest
      <3>3. Doubtful(b) => Doubtful(b)'
        <4>1. Doubtful(b) => answers[n].doubts # {}
          BY <1>8
        <4>2. answers[i].doubts # {} => doubts # {}
          BY <1>9
        <4> QED
          BY <3>1, <3>2, <4>1, <4>2
      <3>4. Latest(b)' = Latest(b)
        BY <1>8, <3>1, <3>2 DEF queue
      <3>5. r.link = "connecting" => Doubtful(b)'
        BY <1>9, <3>2
      <3> QED
        BY <1>1, <1>6, <1>7, <1>11, <2>1, <3>3, <3>4, <3>5 DEF Informed, Right
    <2>3. CASE left # <<>> /\ i = n
      <3>1. Doubtful(b)'
        BY <1>4, <1>10, <1>12, <2>3 DEF Doubtful, LastAnswer
      <3> QED
        BY <3>1 DEF Informed
    <2>4. CASE left # <<>> /\ i # n
      <3>1. Doubtful(b)' = Doubtful(b) /\ Latest(b)' = Latest(b)
        BY <1>4, <1>8, <1>10, <1>12, <2>4 DEF Doubtful, Latest, LastAnswer
      <3> QED
        BY <1>1, <1>7, <1>11, <2>1, <3>1 DEF Informed, Right, r
    <2> QED
      BY <2>2, <2>3, <2>4
  <1>13. x.asks + Len(x.answers) <= MaxFetches
    BY <1>2, <1>4, <1>10, ScreenTypes DEF r, answers, n
  <1> QED
    BY <1>1, <1>10, <1>12, <1>13, ScreenChanges

\* All the answers a board is to get are doubted.
DoubtedAll(answers) == [i \in DOMAIN answers |-> Doubted(answers[i], "elsewhere")]

LEMMA DoubtedAllSeq ==
    ASSUME NEW answers \in Seq(QueueAnswers)
    PROVE  /\ DoubtedAll(answers) \in Seq(QueueAnswers) /\ Len(DoubtedAll(answers)) = Len(answers)
           /\ DoubtedAll(answers) # <<>> =>
                 DoubtedAll(answers)[Len(DoubtedAll(answers))].doubts # {}
  <1> DEFINE n == Len(answers)
             late == DoubtedAll(answers)
  <1>1. n \in Nat /\ answers \in [1..n -> QueueAnswers] /\ DOMAIN answers = 1..n
    BY LenProperties
  <1>2. \A a \in QueueAnswers : /\ Doubted(a, "elsewhere") \in QueueAnswers
                                /\ Doubted(a, "elsewhere").doubts # {}
    BY DEF Doubted, QueueAnswers, Doubts
  <1> HIDE DEF n
  <1>3. late = [i \in 1..n |-> Doubted(answers[i], "elsewhere")]
    BY <1>1 DEF DoubtedAll
  <1>4. late \in [1..n -> QueueAnswers] /\ \A i \in 1..n : late[i].doubts # {}
    <2>1. \A i \in 1..n : answers[i] \in QueueAnswers
      BY <1>1
    <2>2. \A i \in 1..n : late[i] = Doubted(answers[i], "elsewhere")
      BY <1>3
    <2>3. \A i \in 1..n : late[i] \in QueueAnswers /\ late[i].doubts # {}
      BY <1>2, <2>1, <2>2
    <2> HIDE DEF QueueAnswers
    <2>4. DOMAIN late = 1..n /\ late = [i \in 1..n |-> late[i]]
      BY <1>3
    <2> HIDE DEF late
    <2> QED
      BY <2>3, <2>4
  <1> HIDE DEF late
  <1>5. late \in Seq(QueueAnswers) /\ Len(late) = n /\ (late = <<>> <=> n = 0)
    BY <1>1, <1>4, FunctionIsSeq
  <1>6. late # <<>> => n \in 1..n
    BY <1>1, <1>5
  <1> QED
    BY <1>4, <1>5, <1>6 DEF n, late

Missed(r, answers) == [r EXCEPT !.doubts = @ \cup {"elsewhere"}, !.answers = answers]

LEMMA MissedRow ==
    ASSUME NEW r \in ScreenRows, NEW answers \in Seq(QueueAnswers)
    PROVE  LET x == Missed(r, answers)
           IN  /\ x \in ScreenRows /\ x.doubts # {} /\ x.answers = answers /\ x.asks = r.asks
               /\ x.link = r.link
  BY DEF Missed, ScreenRows, Doubts

\* Every board on the stream hears of the change, or is on another worker and in doubt.
LEMMA PublishKeeps ==
    ASSUME ScreensInv, NEW s \in Staff, NEW w \in Processes, Publish(s, w)
    PROVE  ScreensInv'
  <1> DEFINE queue(b) == IF boards[b].queue = Capacity THEN boards[b].queue - 1
                         ELSE boards[b].queue
             coming(b) == boards[b].coming + 1
             heard(b) == Heard(boards[b], coming(b), queue(b))
             missed(b) == Missed(boards[b], DoubtedAll(boards[b].answers))
  <1>1. /\ UNCHANGED orders /\ \A b \in Boards : boards[b].coming < MaxComing
        /\ boards' = [b \in Boards |-> IF ~Live(b) THEN boards[b]
                                       ELSE IF ServedBy[b] = w THEN heard(b) ELSE missed(b)]
    BY ScreenFields DEF Publish, Heard, Missed, DoubtedAll, ScreenRows
  <1>2. ASSUME NEW b \in Boards
        PROVE  boards'[b] \in ScreenRows /\ Screen(b)' /\ Informed(b)'
    <2> DEFINE r == boards[b]
    <2>1. r \in ScreenRows /\ Informed(b) /\ r.asks + Len(r.answers) <= MaxFetches
      BY ScreenFields
    <2>2. CASE ~Live(b)
      <3>1. boards'[b] = boards[b]
        BY <1>1, <2>2
      <3>2. /\ Doubtful(b)' = Doubtful(b) /\ ~Live(b)'
        BY <2>2, <3>1 DEF Doubtful, LastAnswer, Live
      <3> QED
        BY <2>1, <3>1, <3>2 DEF Informed, Screen
    <2>3. CASE Live(b) /\ ServedBy[b] = w
      <3>1. boards'[b] = heard(b)
        BY <1>1, <2>3
      <3>2. coming(b) \in 0..MaxComing /\ coming(b) > 0 /\ queue(b) \in 0..Capacity
        BY <1>1, ScreenTypes
      <3> HIDE DEF coming, queue
      <3>3. /\ heard(b) \in ScreenRows /\ heard(b).coming = coming(b)
            /\ heard(b).asks = r.asks /\ heard(b).answers = r.answers
            /\ heard(b).link = r.link
        BY <2>1, <3>2, HeardRow
      <3> HIDE DEF heard
      <3>4. Expected(b)' /\ boards'[b].link = "on"
        BY <2>3, <3>1, <3>2, <3>3 DEF Expected, Live
      <3> QED
        BY <2>1, <3>1, <3>3, <3>4 DEF Informed, Screen
    <2>4. CASE Live(b) /\ ServedBy[b] # w
      <3>1. boards'[b] = missed(b)
        BY <1>1, <2>4
      <3> DEFINE late == DoubtedAll(r.answers)
      <3>2. r.answers \in Seq(QueueAnswers)
        BY ScreenFields
      <3>3. /\ late \in Seq(QueueAnswers) /\ Len(late) = Len(r.answers)
            /\ late # <<>> => late[Len(late)].doubts # {}
        BY <3>2, DoubtedAllSeq
      <3> HIDE DEF late
      <3>4. /\ missed(b) \in ScreenRows /\ missed(b).doubts # {} /\ missed(b).answers = late
            /\ missed(b).asks = r.asks
        BY <2>1, <3>3, MissedRow DEF late
      <3> HIDE DEF missed
      <3>5. Doubtful(b)'
        BY <3>1, <3>3, <3>4 DEF Doubtful, LastAnswer
      <3> QED
        BY <2>1, <3>1, <3>3, <3>4, <3>5 DEF Informed, Screen
    <2> QED
      BY <2>2, <2>3, <2>4
  <1>3. boards' \in [Boards -> ScreenRows]
    <2>1. DOMAIN boards' = Boards /\ boards' = [b \in Boards |-> boards'[b]]
      BY <1>1
    <2> QED
      BY <1>2, <2>1
  <1> QED
    BY <1>2, <1>3 DEF ScreensInv, ScreensOK

\* A till pays or cancels, of which the boards are not told: what they show is right
\* enough.
LEMMA SilentWrites ==
    ASSUME KitchenInv, NEW s \in Staff, NEW row, Writes(s, row),
           \/ row.status = "cancelled"
           \/ /\ row.status = "serving" /\ row.serving = "queued"
              /\ staff[s].read.status = "pending",
           NEW o \in Orders, NEW queue, Right(queue, o)
    PROVE  Right(queue, o)'
  <1>1. /\ staff[s].order \in Orders /\ staff[s].read = orders[staff[s].order]
        /\ orders' = [orders EXCEPT ![staff[s].order] = row]
    BY DEF KitchenInv, HoldsOrder, Writes
  <1>2. \A p \in Orders : orders'[p] = IF p = staff[s].order THEN row ELSE orders[p]
    BY <1>1 DEF KitchenInv, KitchenOK
  <1>3. CASE o # staff[s].order
    BY <1>2, <1>3 DEF Right, ServingQueue
  <1>4. CASE o = staff[s].order /\ row.status = "cancelled"
    BY <1>2, <1>4 DEF Right
  <1>5. CASE /\ o = staff[s].order /\ row.status = "serving" /\ row.serving = "queued"
             /\ staff[s].read.status = "pending"
    <2>1. ServingQueue[o] = "none" /\ ServingQueue'[o] = "queued"
      BY <1>1, <1>2, <1>5 DEF ServingQueue
    <2> QED
      BY <1>1, <1>5, <2>1 DEF Right
  <1> QED
    BY <1>3, <1>4, <1>5

LEMMA StaffInforms ==
    ASSUME KitchenInv, ScreensInv, NEW s \in Staff, StaffNext(s)
    PROVE  ScreensInv'
  <1>0. \A x \in StaffRows : staff' = [staff EXCEPT ![s] = x] =>
           /\ staff[s].stage # "publishing" /\ Publishing => Publishing'
           /\ x.stage = "publishing" => Publishing'
    BY DEF KitchenInv, KitchenOK, Publishing
  <1>1. ASSUME NEW o \in Orders, LoadOrder(s, o) PROVE ScreensInv'
    <2> DEFINE x == [stage |-> "holding", order |-> o, read |-> orders[o]]
    <2>1. /\ staff[s].stage = "idle" /\ staff' = [staff EXCEPT ![s] = x]
          /\ UNCHANGED <<orders, boards>>
      BY <1>1 DEF LoadOrder
    <2>2. x \in StaffRows
      BY DEF KitchenInv, KitchenOK, StaffRows
    <2> HIDE DEF x
    <2>3. \A p \in Orders : \A queue : Right(queue, p) => Right(queue, p)'
      BY <2>1 DEF Right, ServingQueue
    <2> QED
      BY <1>0, <2>1, <2>2, <2>3, Silence
  <1>2. ASSUME NEW row, Writes(s, row), staff' = [staff EXCEPT ![s] = Idler], UNCHANGED boards,
               \/ row.status = "cancelled"
               \/ /\ row.status = "serving" /\ row.serving = "queued"
                  /\ staff[s].read.status = "pending"
        PROVE  ScreensInv'
    <2>1. \A o \in Orders : \A queue : Right(queue, o) => Right(queue, o)'
      BY <1>2, SilentWrites
    <2>2. staff[s].stage # "publishing"
      BY <1>2 DEF Writes, Holding
    <2> QED
      BY <1>0, <1>2, <2>1, <2>2, RowTypes, Silence
  <1>3. CASE Pay(s)
    BY <1>2, <1>3, PayWrites DEF Pay, CommitSilently
  <1>4. CASE Cancel(s)
    BY <1>2, <1>4, CancelWrites DEF Cancel, CommitSilently
  <1>5. ASSUME staff' = [staff EXCEPT ![s].stage = "publishing"], UNCHANGED boards
        PROVE  ScreensInv'
    <2>1. Publishing'
      BY <1>5, LeftToPublish DEF KitchenInv, Publishing
    <2> QED
      BY <1>5, <2>1, Silence
  <1>6. CASE Reject(s)
    <2>1. \A p \in Orders : \A queue : Right(queue, p) => Right(queue, p)'
      BY <1>6 DEF Reject, Right, ServingQueue
    <2>2. /\ staff[s].stage # "publishing" /\ staff' = [staff EXCEPT ![s] = Idler]
          /\ UNCHANGED boards
      BY <1>6 DEF Reject, Holding
    <2> QED
      BY <1>0, <2>1, <2>2, RowTypes, Silence
  <1>7. ASSUME NEW state \in ServingStates, TransitionServing(s, state) PROVE ScreensInv'
    BY <1>5, <1>7 DEF TransitionServing, CommitAndPublish
  <1>8. ASSUME NEW state \in TrackingStates, TransitionTracking(s, state) PROVE ScreensInv'
    BY <1>5, <1>8 DEF TransitionTracking, CommitAndPublish
  <1>9. CASE ReportLocation(s)
    BY <1>5, <1>9 DEF ReportLocation
  <1>10. ASSUME NEW w \in Processes, Publish(s, w) PROVE ScreensInv'
    BY <1>10, PublishKeeps
  <1> QED
    BY <1>1, <1>3, <1>4, <1>6, <1>7, <1>8, <1>9, <1>10 DEF StaffNext

LEMMA BoardsInit ==
    ASSUME BoardInit
    PROVE  ScreensInv
  <1>1. Dark \in ScreenRows /\ Dark.asks + Len(Dark.answers) <= MaxFetches
    <2>1. <<>> \in Seq(QueueAnswers) /\ Len(<<>>) = 0
      BY EmptySeq
    <2>2. [o \in Orders |-> "none"] \in [Orders -> ServingStates]
      BY DEF ServingStates
    <2>3. 0 \in 0..MaxComing /\ 0 \in 0..Capacity /\ 0 \in 0..MaxFetches
      BY ServingBoardAssumption
    <2> QED
      BY <2>1, <2>2, <2>3 DEF Dark, ScreenRows, Doubts
  <1>2. \A b \in Boards : boards[b] = Dark /\ ~Live(b) /\ boards[b].link # "connecting"
    BY DEF BoardInit, Dark, Live
  <1>3. boards \in [Boards -> ScreenRows]
    BY <1>1 DEF BoardInit
  <1> QED
    BY <1>1, <1>2, <1>3 DEF ScreensInv, ScreensOK, Screen, Informed

LEMMA BoardsStep ==
    ASSUME KitchenInv, ScreensInv, [BoardNext]_boardVars
    PROVE  KitchenInv' /\ ScreensInv'
  <1>1. KitchenInv'
    BY KitchenStep
  <1>2. CASE UNCHANGED boardVars
    <2>1. \A p \in Orders : \A queue : Right(queue, p) => Right(queue, p)'
      BY <1>2 DEF boardVars, Right, ServingQueue
    <2>2. UNCHANGED boards /\ (Publishing => Publishing')
      BY <1>2 DEF boardVars, Publishing
    <2> QED
      BY <1>1, <2>1, <2>2, Silence
  <1>3. ASSUME NEW b \in Boards, ScreenNext(b) PROVE ScreensInv'
    BY <1>3, RunCallbackKeeps, DrainKeeps, ReadQueueKeeps, OpenBoardKeeps, SubscribeKeeps,
       UnsubscribeKeeps, PollKeeps, ShowQueueKeeps DEF ScreenNext, KitchenInv
  <1> QED
    BY <1>1, <1>2, <1>3, StaffInforms DEF BoardNext

LEMMA BoardsAreInformed == BoardSpec => [](KitchenInv /\ ScreensInv)
  <1>1. BoardInit => KitchenInv /\ ScreensInv
    BY KitchenInit, BoardsInit
  <1>2. KitchenInv /\ ScreensInv /\ [BoardNext]_boardVars => (KitchenInv /\ ScreensInv)'
    BY BoardsStep
  <1> QED
    BY <1>1, <1>2, PTL DEF BoardSpec

\* Orders, requests and boards have their types: a board never has more fetches under way
\* than it may.
THEOREM KitchenTypes == BoardSpec => []BoardTypeOK
  <1>1. KitchenInv /\ ScreensInv => BoardTypeOK
    BY BoardTypes DEF KitchenInv, ScreensInv
  <1>2. BoardSpec => [](KitchenInv /\ ScreensInv)
    BY BoardsAreInformed
  <1> QED
    BY <1>1, <1>2, PTL

\* A live board to which nothing is on its way shows every order as it is, but for
\* those paid or cancelled since it last asked, whatever its queue has dropped and however
\* late a committed change is published: until then somebody publishing, an event, or a
\* fetch is still to come.  Boards whose last answer was overtaken, was given before
\* another worker published a change, or was read or shown off the air are left out.
THEOREM BoardsCatchUp == BoardSpec => []QuietBoardsAreCurrent
  <1>1. ScreensInv => QuietBoardsAreCurrent
    <2> SUFFICES ASSUME ScreensInv, NEW b \in Boards, Live(b), Quiet(b), boards[b].doubts = {},
                        NEW o \in Orders
                 PROVE  Right(boards[b].shown, o)
      BY DEF QuietBoardsAreCurrent, Right
    <2>1. ~Expected(b)
      BY DEF Quiet, Expected, Publishing
    <2>2. ~Doubtful(b) /\ Latest(b) = boards[b].shown
      BY DEF Quiet, Doubtful, Latest
    <2> QED
      BY <2>1, <2>2 DEF ScreensInv, Informed
  <1> QED
    BY <1>1, BoardsAreInformed, PTL

-----------------------------------------------------------------------------
(* Accounts *)

TokenRows == [state : {"none", "live", "revoked", "expired", "deleted"},
              user : Members \cup {NoMember}, origin : Tokens \cup {NoToken}]
CallRows == [op : {"idle", "login", "refresh"}, user : Members \cup {NoMember},
             token : Tokens \cup {NoToken},
             read : [active : BOOLEAN, attempts : 0..(MaxAttempts - 1), lock : Locks]]

TokensOK == tokens \in [Tokens -> TokenRows] /\ calls \in [Calls -> CallRows]

\* A token that may yet be exchanged belongs to a sign-in that has begun.
OriginIsIssued(k) ==
    tokens[k].state \in {"live", "revoked"} =>
       tokens[k].origin \in Tokens /\ tokens[tokens[k].origin].state # "none"

ExchangesIssued(c) ==
    calls[c].op = "refresh" => /\ calls[c].token \in Tokens
                               /\ tokens[calls[c].token].state # "none"

SameSignIn(j, k) ==
    /\ tokens[j].state = "live" /\ tokens[k].state = "live"
    /\ tokens[j].origin = tokens[k].origin /\ tokens[k].origin \notin doubled

SignInInv ==
    /\ TokensOK
    /\ \A k \in Tokens : OriginIsIssued(k)
    /\ \A c \in Calls : ExchangesIssued(c)
    /\ \A j, k \in Tokens : SameSignIn(j, k) => j = k

LEMMA TokenTypes ==
    /\ Unissued \in TokenRows /\ Forgotten \in TokenRows /\ Waiting \in CallRows
    /\ Waiting.op = "idle" /\ Unissued.state = "none" /\ Forgotten.state = "deleted"
    /\ Unread \in [active : BOOLEAN, attempts : 0..(MaxAttempts - 1), lock : Locks]
  <1>1. 0 \in 0..(MaxAttempts - 1)
    BY AccountsAssumption
  <1> QED
    BY <1>1 DEF Unissued, Forgotten, Waiting, Unread, TokenRows, CallRows, Locks

\* Calls come and go; tokens stay.
LEMMA CallMoves ==
    ASSUME SignInInv, NEW c \in Calls, NEW x \in CallRows, calls' = [calls EXCEPT ![c] = x],
           UNCHANGED <<tokens, doubled>>,
           x.op = "refresh" => x.token \in Tokens /\ tokens[x.token].state # "none"
    PROVE  SignInInv'
  <1>1. /\ TokensOK' /\ \A d \in Calls : calls'[d] = IF d = c THEN x ELSE calls[d]
    BY DEF SignInInv, TokensOK
  <1>2. \A d \in Calls : ExchangesIssued(d)'
    BY <1>1 DEF SignInInv, ExchangesIssued
  <1>3. (\A k \in Tokens : OriginIsIssued(k)') /\ \A j, k \in Tokens : SameSignIn(j, k)' => j = k
    BY DEF SignInInv, OriginIsIssued, SameSignIn
  <1> QED
    BY <1>1, <1>2, <1>3 DEF SignInInv

\* Tokens only grow old: none becomes live, and none that was issued is unissued again.
LEMMA TokensAge ==
    ASSUME SignInInv, UNCHANGED <<calls, doubled>>, tokens' \in [Tokens -> TokenRows],
           \A k \in Tokens : /\ tokens'[k].state = "none" <=> tokens[k].state = "none"
                             /\ tokens'[k].state = "live" => tokens[k].state = "live"
                             /\ tokens'[k].state \in {"live", "revoked"} =>
                                   /\ tokens[k].state \in {"live", "revoked"}
                                   /\ tokens'[k].origin = tokens[k].origin
    PROVE  SignInInv'
  <1>1. TokensOK'
    BY DEF SignInInv, TokensOK
  <1>2. \A k \in Tokens : OriginIsIssued(k)'
    BY DEF SignInInv, OriginIsIssued
  <1>3. \A c \in Calls : ExchangesIssued(c)'
    BY DEF SignInInv, ExchangesIssued
  <1>4. \A j, k \in Tokens : SameSignIn(j, k)' => j = k
    BY DEF SignInInv, SameSignIn
  <1> QED
    BY <1>1, <1>2, <1>3, <1>4 DEF SignInInv

\* What is issued, and what else becomes of the rows.
LEMMA IssuedRows ==
    ASSUME NEW rows \in [Tokens -> TokenRows], NEW k \in Tokens, NEW m \in Members \cup {NoMember},
           NEW origin \in Tokens
    PROVE  LET new == Issued(rows, k, m, origin)
           IN  /\ new \in [Tokens -> TokenRows]
               /\ new[k].state = "live" /\ new[k].origin = origin
               /\ \A j \in Tokens \ {k} :
                     IF rows[j].state = "expired" THEN new[j].state = "deleted"
                     ELSE new[j] = rows[j]
  <1>1. [state |-> "live", user |-> m, origin |-> origin] \in TokenRows
    BY DEF TokenRows
  <1> QED
    BY <1>1, TokenTypes DEF Issued

\* A new sign-in begins with its token, a name nobody had.
LEMMA SignInBegins ==
    ASSUME SignInInv, NEW k \in Tokens, NEW m \in Members \cup {NoMember}, Unused(k),
           tokens' = Issued(tokens, k, m, k), UNCHANGED doubled,
           \/ UNCHANGED calls
           \/ \E c \in Calls : calls' = [calls EXCEPT ![c] = Waiting]
    PROVE  SignInInv'
  <1>1. /\ tokens' \in [Tokens -> TokenRows]
        /\ tokens'[k].state = "live" /\ tokens'[k].origin = k
        /\ \A j \in Tokens \ {k} :
              IF tokens[j].state = "expired" THEN tokens'[j].state = "deleted"
              ELSE tokens'[j] = tokens[j]
    BY IssuedRows DEF SignInInv, TokensOK
  <1>2. tokens[k].state = "none"
    BY DEF Unused
  <1>3. calls' \in [Calls -> CallRows] /\ \A c \in Calls : calls'[c] \in {calls[c], Waiting}
    BY TokenTypes DEF SignInInv, TokensOK
  <1>4. \A j \in Tokens : OriginIsIssued(j)'
    BY <1>1, <1>2 DEF SignInInv, OriginIsIssued
  <1>5. \A c \in Calls : ExchangesIssued(c)'
    BY <1>1, <1>3, TokenTypes DEF SignInInv, ExchangesIssued
  <1>6. \A j \in Tokens : tokens[j].state = "live" => tokens[j].origin # k
    BY <1>2 DEF SignInInv, OriginIsIssued
  <1>7. \A i, j \in Tokens : SameSignIn(i, j)' => i = j
    BY <1>1, <1>6 DEF SignInInv, SameSignIn
  <1> QED
    BY <1>1, <1>3, <1>4, <1>5, <1>7 DEF SignInInv, TokensOK

\* The old token is revoked and the next one issued; if the old one was revoked
\* already, two requests have used it.
LEMMA CommitRefreshKeeps ==
    ASSUME SignInInv, NEW c \in Calls, NEW k \in Tokens, CommitRefresh(c, k)
    PROVE  SignInInv'
  <1> DEFINE old == calls[c].token
             origin == tokens[old].origin
             user == calls[c].user
             rows == [tokens EXCEPT ![old].state = "revoked"]
  <1>1. /\ calls[c].op = "refresh" /\ tokens[old].state \in {"live", "revoked"} /\ Unused(k)
        /\ tokens' = Issued(rows, k, user, origin)
        /\ doubled' = IF tokens[old].state = "live" THEN doubled ELSE doubled \cup {origin}
        /\ calls' = [calls EXCEPT ![c] = Waiting]
    BY DEF CommitRefresh
  <1>2. /\ old \in Tokens /\ origin \in Tokens /\ tokens[origin].state # "none"
        /\ user \in Members \cup {NoMember} /\ tokens[k].state = "none"
    BY <1>1 DEF SignInInv, TokensOK, CallRows, ExchangesIssued, OriginIsIssued, Unused
  <1>3. /\ rows \in [Tokens -> TokenRows] /\ rows[old].state = "revoked"
        /\ rows[old].origin = origin /\ \A j \in Tokens \ {old} : rows[j] = tokens[j]
    BY <1>2 DEF SignInInv, TokensOK, TokenRows
  <1> HIDE DEF old, origin, user, rows
  <1>4. /\ tokens' \in [Tokens -> TokenRows]
        /\ tokens'[k].state = "live" /\ tokens'[k].origin = origin
        /\ \A j \in Tokens \ {k} :
              IF rows[j].state = "expired" THEN tokens'[j].state = "deleted"
              ELSE tokens'[j] = rows[j]
    BY <1>1, <1>2, <1>3, IssuedRows
  <1>5. calls' \in [Calls -> CallRows] /\ \A d \in Calls : calls'[d] \in {calls[d], Waiting}
    BY <1>1, TokenTypes DEF SignInInv, TokensOK
  <1>6. /\ k # old /\ k # origin /\ tokens'[old].state = "revoked"
        /\ tokens'[old].origin = origin
    BY <1>1, <1>2, <1>3, <1>4
  <1>7. \A j \in Tokens : tokens[j].state # "none" => tokens'[j].state # "none"
    BY <1>2, <1>3, <1>4, <1>6
  <1>8. \A j \in Tokens \ {k, old} : tokens'[j].state \in {"live", "revoked"} =>
                                        tokens'[j] = tokens[j]
    BY <1>3, <1>4
  <1>9. \A j \in Tokens : OriginIsIssued(j)'
    BY <1>2, <1>4, <1>6, <1>7, <1>8 DEF SignInInv, OriginIsIssued
  <1>10. \A d \in Calls : ExchangesIssued(d)'
    BY <1>5, <1>7, TokenTypes DEF SignInInv, ExchangesIssued
  <1>11. ASSUME NEW j \in Tokens \ {k}, SameSignIn(j, k)' PROVE FALSE
    <2>1. j # old /\ tokens[j].state = "live" /\ tokens[j].origin = origin
      BY <1>4, <1>6, <1>8, <1>11 DEF SameSignIn
    <2>2. tokens[old].state = "live" /\ origin \notin doubled
      BY <1>1, <1>4, <1>11 DEF SameSignIn
    <2> QED
      BY <1>2, <2>1, <2>2 DEF SignInInv, SameSignIn, origin
  <1>12. \A i, j \in Tokens \ {k} : SameSignIn(i, j)' => i = j
    <2>1. doubled \subseteq doubled'
      BY <1>1
    <2> QED
      BY <1>6, <1>8, <2>1 DEF SignInInv, SameSignIn
  <1>13. \A i, j \in Tokens : SameSignIn(i, j)' => i = j
    <2>1. \A j \in Tokens : SameSignIn(k, j)' => SameSignIn(j, k)'
      BY DEF SameSignIn
    <2> QED
      BY <1>11, <1>12, <2>1
  <1> QED
    BY <1>4, <1>5, <1>9, <1>10, <1>13 DEF SignInInv, TokensOK

\* The rows of users, roles and windows.
UserRows == [state : {"none", "active", "inactive"}, super : BOOLEAN,
             shop : Shops \cup {NoShop}, roles : SUBSET Roles,
             attempts : 0..(MaxAttempts - 1), lock : Locks]

StaffOK == /\ users \in [Members -> UserRows] /\ roles \in [Roles -> SUBSET Powers]
           /\ windows \in [Windows -> Members \cup {NoMember}] /\ doubled \subseteq Tokens

\* A row of register or create_staff_user.
Hired(shop, given) ==
    [Stranger EXCEPT !.state = "active", !.shop = shop, !.roles = given]

LEMMA AccountsBegin ==
    ASSUME AccountInit
    PROVE  SignInInv /\ StaffOK
  <1>1. TokensOK
    BY TokenTypes DEF AccountInit, TokensOK
  <1>2. /\ \A k \in Tokens : tokens[k].state = "none"
        /\ \A c \in Calls : calls[c].op = "idle"
    BY TokenTypes DEF AccountInit
  <1>3. Stranger \in UserRows
    <2>1. 0 \in 0..(MaxAttempts - 1)
      BY AccountsAssumption
    <2> QED
      BY <2>1 DEF Stranger, UserRows, Locks
  <1>4. roles \in [Roles -> SUBSET Powers]
    BY AccountsAssumption DEF AccountInit
  <1> QED
    BY <1>1, <1>2, <1>3, <1>4
    DEF SignInInv, OriginIsIssued, ExchangesIssued, SameSignIn, StaffOK, AccountInit

\* RBAC and staff changes leave tokens and calls alone.
LEMMA StaffChanges ==
    ASSUME StaffOK, UNCHANGED doubled, NEW m \in Members,
           StaffChange(m) \/ RoleChange(m) \/ Unlock(m) \/ (\E w \in Windows : SignOut(w))
    PROVE  StaffOK' /\ UNCHANGED <<tokens, calls>>
  <1>1. RestoredRoles \in [Roles -> SUBSET Powers]
    BY AccountsAssumption DEF RestoredRoles, StaffOK
  <1>2. \A shop \in Shops, given \in SUBSET Roles : Hired(shop, given) \in UserRows
    <2>1. 0 \in 0..(MaxAttempts - 1)
      BY AccountsAssumption
    <2> QED
      BY <2>1 DEF Hired, Stranger, UserRows, Locks
  <1>3. {"cashier", "admin"} \in SUBSET Roles /\ {"cashier"} \in SUBSET Roles
    BY AccountsAssumption
  <1>4. \A n \in Members, x \in UserRows : [users EXCEPT ![n] = x] \in [Members -> UserRows]
    BY DEF StaffOK
  <1>5. CASE \E shop \in Shops : Register(m, shop)
    <2>1. PICK shop \in Shops : Register(m, shop)
      BY <1>5
    <2>2. users' = [users EXCEPT ![m] = Hired(shop, {"cashier", "admin"})]
      BY <2>1 DEF Register, Hired
    <2>3. Hired(shop, {"cashier", "admin"}) \in UserRows
      BY <1>2, <1>3
    <2>4. users' \in [Members -> UserRows]
      BY <1>4, <2>2, <2>3
    <2> QED
      BY <1>1, <2>1, <2>4 DEF Register, StaffOK
  <1>6. CASE \E new \in Members, shop \in Shops : CreateStaff(m, new, shop)
    <2>1. PICK new \in Members, shop \in Shops : CreateStaff(m, new, shop)
      BY <1>6
    <2>2. users' = [users EXCEPT ![new] = Hired(shop, {"cashier"})]
      BY <2>1 DEF CreateStaff, Hired
    <2>3. Hired(shop, {"cashier"}) \in UserRows
      BY <1>2, <1>3
    <2>4. users' \in [Members -> UserRows]
      BY <1>4, <2>2, <2>3
    <2> QED
      BY <1>1, <2>1, <2>4 DEF CreateStaff, StaffOK
  <1>7. CASE \E n \in Members, state \in {"active", "inactive"} : UpdateStaff(m, n, state)
    BY <1>7 DEF UpdateStaff, StaffOK, UserRows
  <1>8. CASE \E role \in Roles, powers \in SUBSET Powers : UpdateRole(m, role, powers)
    BY <1>8 DEF UpdateRole, StaffOK
  <1>9. CASE \E n \in Members, chosen \in SUBSET Roles : AssignRoles(m, n, chosen)
    BY <1>9 DEF AssignRoles, StaffOK, UserRows
  <1>10. CASE SeedDefaults(m)
    BY <1>1, <1>10 DEF SeedDefaults, StaffOK
  <1>11. CASE MyPermissions(m)
    BY <1>1, <1>3, <1>11 DEF MyPermissions, StaffOK, UserRows
  <1>12. CASE Promote(m)
    <2>1. \A x \in UserRows : [x EXCEPT !.super = TRUE] \in UserRows
      BY DEF UserRows
    <2>2. /\ users' = [users EXCEPT ![m] = [users[m] EXCEPT !.super = TRUE]]
          /\ UNCHANGED <<roles, tokens, calls, windows, doubled>>
      BY <1>12 DEF Promote
    <2> QED
      BY <1>4, <2>1, <2>2 DEF StaffOK
  <1>13. CASE Unlock(m)
    BY <1>13 DEF Unlock, StaffOK, UserRows, Locks
  <1>14. CASE \E w \in Windows : SignIn(w, m) \/ Authenticate(w, m) \/ SignOut(w)
    BY <1>14 DEF SignIn, Authenticate, SignOut, StaffOK
  <1> QED
    BY <1>5, <1>6, <1>7, <1>8, <1>9, <1>10, <1>11, <1>12, <1>13, <1>14
    DEF StaffChange, RoleChange

\* Counting failed logins and lock-outs keeps the rows' type.
LEMMA CountedRows ==
    ASSUME NEW rows \in [Members -> UserRows], NEW m,
           NEW n \in 0..(MaxAttempts - 1), NEW l \in Locks
    PROVE  [rows EXCEPT ![m].attempts = n, ![m].lock = l] \in [Members -> UserRows]
  <1>1. \A x \in UserRows : [x EXCEPT !.attempts = n, !.lock = l] \in UserRows
    BY DEF UserRows
  <1>2. [rows EXCEPT ![m].attempts = n, ![m].lock = l]
           = [rows EXCEPT ![m] = [rows[m] EXCEPT !.attempts = n, !.lock = l]]
    OBVIOUS
  <1> QED
    BY <1>1, <1>2

\* Logins that fail or pass leave roles and windows alone.
LEMMA LoginCounts ==
    ASSUME SignInInv, StaffOK, NEW c \in Calls, FailLogin(c) \/ \E k \in Tokens : PassLogin(c, k)
    PROVE  StaffOK'
  <1> DEFINE m == calls[c].user
             read == calls[c].read.attempts
             had == users[m].attempts
             lock == users[m].lock
  <1>1. read \in 0..(MaxAttempts - 1) /\ MaxAttempts \in Nat \ {0}
    BY AccountsAssumption DEF SignInInv, TokensOK, CallRows
  <1>2. m \in Members => had \in 0..(MaxAttempts - 1) /\ lock \in Locks
    BY DEF StaffOK, UserRows
  <1>3. "ahead" \in Locks /\ "none" \in Locks
    BY DEF Locks
  <1>4. /\ UNCHANGED <<roles, windows, doubled>>
        /\ \E n, l : /\ users' = [users EXCEPT ![m].attempts = n, ![m].lock = l]
                     /\ n \in {0, had} \/ (n = read + 1 /\ ~(n >= MaxAttempts))
                     /\ l \in {"ahead", "none", lock}
    <2>1. CASE FailLogin(c)
      <3> DEFINE n == IF read + 1 >= MaxAttempts THEN 0 ELSE read + 1
                 l == IF read + 1 >= MaxAttempts THEN "ahead" ELSE lock
      <3>1. /\ UNCHANGED <<roles, windows, doubled>>
            /\ users' = [users EXCEPT ![m].attempts = n, ![m].lock = l]
        BY <2>1 DEF FailLogin
      <3>2. /\ n \in {0, had} \/ (n = read + 1 /\ ~(n >= MaxAttempts))
            /\ l \in {"ahead", "none", lock}
        OBVIOUS
      <3> QED
        BY <3>1, <3>2, Zenon
    <2>2. CASE \E k \in Tokens : PassLogin(c, k)
      <3> DEFINE n == IF read > 0 THEN 0 ELSE had
                 l == IF calls[c].read.lock = "past" THEN "none" ELSE lock
      <3>1. /\ UNCHANGED <<roles, windows, doubled>>
            /\ users' = [users EXCEPT ![m].attempts = n, ![m].lock = l]
        BY <2>2 DEF PassLogin
      <3>2. n \in {0, had} /\ l \in {"ahead", "none", lock}
        OBVIOUS
      <3> QED
        BY <3>1, <3>2, Zenon
    <2> QED
      BY <2>1, <2>2
  <1>5. CASE m \in Members
    <2> HIDE DEF m, read, had, lock
    <2>1. PICK n, l : /\ users' = [users EXCEPT ![m].attempts = n, ![m].lock = l]
                      /\ n \in {0, had} \/ (n = read + 1 /\ ~(n >= MaxAttempts))
                      /\ l \in {"ahead", "none", lock}
      BY <1>4
    <2>2. n \in 0..(MaxAttempts - 1) /\ l \in Locks
      BY <1>1, <1>2, <1>3, <1>5, <2>1
    <2>3. users' \in [Members -> UserRows]
      BY <2>1, <2>2, CountedRows DEF StaffOK
    <2> QED
      BY <1>4, <2>3 DEF StaffOK
  <1>6. CASE m \notin Members
    <2> HIDE DEF m, read, had, lock
    <2>1. PICK n, l : users' = [users EXCEPT ![m].attempts = n, ![m].lock = l]
      BY <1>4
    <2>2. users \in [Members -> UserRows]
      BY DEF StaffOK
    <2>3. [users EXCEPT ![m].attempts = n, ![m].lock = l] = users
      BY <1>6, <2>2
    <2> QED
      BY <1>4, <2>1, <2>3 DEF StaffOK
  <1> QED
    BY <1>5, <1>6

LEMMA LoginKeeps ==
    ASSUME SignInInv, StaffOK, NEW c \in Calls, NEW m \in Members,
           \/ StartLogin(c, m) \/ HangUp(c) \/ \E k \in Tokens : StartRefresh(c, k)
    PROVE  SignInInv' /\ StaffOK'
  <1>1. StaffOK'
    BY DEF StartLogin, HangUp, StartRefresh, StaffOK
  <1>2. CASE StartLogin(c, m)
    <2> DEFINE read == [active |-> Active(m), attempts |-> users[m].attempts,
                        lock |-> users[m].lock]
               x == [op |-> "login", user |-> m, token |-> NoToken, read |-> read]
    <2>1. calls' = [calls EXCEPT ![c] = x] /\ UNCHANGED <<tokens, doubled>>
      BY <1>2 DEF StartLogin, Begins
    <2>2. read \in [active : BOOLEAN, attempts : 0..(MaxAttempts - 1), lock : Locks]
      BY DEF StaffOK, UserRows, Active
    <2> HIDE DEF read
    <2>3. x \in CallRows /\ x.op # "refresh"
      BY <2>2 DEF CallRows
    <2> HIDE DEF x
    <2> QED
      BY <1>1, <2>1, <2>3, CallMoves
  <1>3. CASE HangUp(c)
    <2>1. calls' = [calls EXCEPT ![c] = Waiting] /\ UNCHANGED <<tokens, doubled>>
      BY <1>3 DEF HangUp
    <2> QED
      BY <1>1, <2>1, TokenTypes, CallMoves
  <1>4. ASSUME NEW k \in Tokens, StartRefresh(c, k) PROVE SignInInv'
    <2> DEFINE user == tokens[k].user
               x == [op |-> "refresh", user |-> user, token |-> k, read |-> Unread]
    <2>1. /\ calls' = [calls EXCEPT ![c] = x] /\ UNCHANGED <<tokens, doubled>>
          /\ tokens[k].state = "live"
      BY <1>4 DEF StartRefresh, Begins
    <2>2. user \in Members \cup {NoMember}
      BY DEF SignInInv, TokensOK, TokenRows
    <2> HIDE DEF user
    <2>3. x \in CallRows /\ x.token = k
      BY <2>2, TokenTypes DEF CallRows
    <2> HIDE DEF x
    <2> QED
      BY <2>1, <2>3, CallMoves
  <1> QED
    BY <1>1, <1>2, <1>3, <1>4

LEMMA CallEnds ==
    ASSUME SignInInv, StaffOK, NEW c \in Calls,
           FailLogin(c) \/ \E k \in Tokens : CommitRefresh(c, k) \/ PassLogin(c, k)
    PROVE  SignInInv' /\ StaffOK'
  <1>1. CASE FailLogin(c)
    <2>1. calls' = [calls EXCEPT ![c] = Waiting] /\ UNCHANGED <<tokens, doubled>>
      BY <1>1 DEF FailLogin
    <2> QED
      BY <1>1, <2>1, TokenTypes, CallMoves, LoginCounts
  <1>2. ASSUME NEW k \in Tokens, PassLogin(c, k) PROVE SignInInv'
    <2> DEFINE user == calls[c].user
    <2>1. /\ Unused(k) /\ tokens' = Issued(tokens, k, user, k) /\ UNCHANGED doubled
          /\ calls' = [calls EXCEPT ![c] = Waiting]
      BY <1>2 DEF PassLogin
    <2>2. user \in Members \cup {NoMember}
      BY DEF SignInInv, TokensOK, CallRows
    <2> HIDE DEF user
    <2> QED
      BY <2>1, <2>2, SignInBegins
  <1>3. ASSUME NEW k \in Tokens, CommitRefresh(c, k) PROVE StaffOK'
    <2>1. calls[c].op = "refresh" /\ tokens[calls[c].token].state \in {"live", "revoked"}
      BY <1>3 DEF CommitRefresh
    <2>2. tokens[calls[c].token].origin \in Tokens
      BY <2>1 DEF SignInInv, OriginIsIssued, ExchangesIssued
    <2> QED
      BY <1>3, <2>2 DEF CommitRefresh, StaffOK
  <1> QED
    BY <1>1, <1>2, <1>3, LoginCounts, CommitRefreshKeeps

LEMMA TokensChange ==
    ASSUME SignInInv, StaffOK, NEW k \in Tokens, NEW m \in Members,
           GoogleLogin(m, k) \/ Logout(k) \/ Expire(k)
    PROVE  SignInInv' /\ StaffOK'
  <1>1. StaffOK'
    BY DEF GoogleLogin, Logout, Expire, StaffOK
  <1>2. CASE GoogleLogin(m, k)
    <2>1. Unused(k) /\ tokens' = Issued(tokens, k, m, k) /\ UNCHANGED <<doubled, calls>>
      BY <1>2 DEF GoogleLogin
    <2> QED
      BY <1>1, <2>1, SignInBegins
  <1>3. CASE Logout(k) \/ Expire(k)
    <2>1. /\ tokens' \in [Tokens -> TokenRows] /\ UNCHANGED <<calls, doubled>>
          /\ tokens[k].state \in {"live", "revoked"}
          /\ tokens'[k].state \in {"revoked", "expired"} /\ tokens'[k].origin = tokens[k].origin
          /\ \A j \in Tokens \ {k} : tokens'[j] = tokens[j]
      BY <1>3 DEF Logout, Expire, SignInInv, TokensOK, TokenRows
    <2>2. \A j \in Tokens : /\ tokens'[j].state = "none" <=> tokens[j].state = "none"
                            /\ tokens'[j].state = "live" => tokens[j].state = "live"
                            /\ tokens'[j].state \in {"live", "revoked"} =>
                                  /\ tokens[j].state \in {"live", "revoked"}
                                  /\ tokens'[j].origin = tokens[j].origin
      BY <2>1
    <2> QED
      BY <1>1, <2>1, <2>2, TokensAge
  <1> QED
    BY <1>2, <1>3, <1>1

LEMMA AccountsStep ==
    ASSUME SignInInv, StaffOK, [AccountNext]_accountVars
    PROVE  SignInInv' /\ StaffOK'
  <1>1. CASE UNCHANGED accountVars
    BY <1>1 DEF accountVars, SignInInv, TokensOK, OriginIsIssued, ExchangesIssued, SameSignIn,
                StaffOK
  <1>2. ASSUME UNCHANGED <<tokens, calls, doubled>> PROVE SignInInv'
    BY <1>2 DEF SignInInv, TokensOK, OriginIsIssued, ExchangesIssued, SameSignIn
  <1>3. ASSUME NEW m \in Members, StaffChange(m) \/ RoleChange(m) PROVE SignInInv' /\ StaffOK'
    <2>1. UNCHANGED doubled
      BY <1>3 DEF StaffChange, RoleChange, Register, CreateStaff, UpdateStaff, UpdateRole,
                  AssignRoles, SeedDefaults, MyPermissions, Promote, SignIn, Authenticate
    <2> QED
      BY <1>2, <1>3, <2>1, StaffChanges, SMTT(30)
  <1>4. ASSUME NEW m \in Members, Unlock(m) PROVE SignInInv' /\ StaffOK'
    <2>1. UNCHANGED doubled
      BY <1>4 DEF Unlock
    <2> QED
      BY <1>2, <1>4, <2>1, StaffChanges
  <1>5. ASSUME NEW w \in Windows, SignOut(w) PROVE SignInInv' /\ StaffOK'
    BY <1>2, <1>5 DEF SignOut, StaffOK
  <1>6. ASSUME NEW m \in Members, TokenChange(m) PROVE SignInInv' /\ StaffOK'
    BY <1>4, <1>6, LoginKeeps, CallEnds, TokensChange DEF TokenChange
  <1> QED
    BY <1>1, <1>3, <1>5, <1>6 DEF AccountNext

LEMMA StaffAndTokens == AccountSpec => [](SignInInv /\ StaffOK)
  <1>1. AccountInit => SignInInv /\ StaffOK
    BY AccountsBegin
  <1>2. SignInInv /\ StaffOK /\ [AccountNext]_accountVars => (SignInInv /\ StaffOK)'
    BY AccountsStep
  <1> QED
    BY <1>1, <1>2, PTL DEF AccountSpec

\* Rows, roles, tokens, calls and panel sessions have their types: no counter of failed
\* logins reaches the maximum, whatever logins run at once.
THEOREM AccountTypes == AccountSpec => []AccountTypeOK
  <1>1. SignInInv /\ StaffOK => AccountTypeOK
    BY DEF SignInInv, TokensOK, TokenRows, CallRows, StaffOK, UserRows, AccountTypeOK
  <1> QED
    BY <1>1, StaffAndTokens, PTL

\* A sign-in lives in one refresh token at a time, unless two requests were given the same
\* token before either had answered: an exchange finds its token live, and then no other
\* of its sign-in is, or it finds the token revoked, and then the sign-in is doubled.
THEOREM SignInsHoldOneToken == AccountSpec => []OneTokenPerSignIn
  <1>1. SignInInv => OneTokenPerSignIn
    <2> SUFFICES ASSUME SignInInv, NEW origin \in Tokens \ doubled
                 PROVE  Cardinality({k \in Tokens : tokens[k].state = "live"
                                                    /\ tokens[k].origin = origin}) <= 1
      BY DEF OneTokenPerSignIn
    <2> DEFINE Held == {k \in Tokens : tokens[k].state = "live" /\ tokens[k].origin = origin}
    <2>1. \A j, k \in Held : j = k
      BY DEF SignInInv, SameSignIn
    <2> HIDE DEF Held
    <2>2. Held = {} \/ \E k : Held = {k}
      BY <2>1
    <2>3. Cardinality(Held) \in {0, 1}
      BY <2>2, FS_EmptySet, FS_Singleton
    <2>4. Cardinality(Held) <= 1
      BY <2>3
    <2> QED
      BY <2>4 DEF Held
  <1> QED
    BY <1>1, StaffAndTokens, PTL

-----------------------------------------------------------------------------
(* AutoPurchase: the reorder rule *)

Rules == [point : Nat, min : Nat, max : Nat, lead : Nat, lookback : Nat \ {0}]

LEMMA LeadDemandType ==
    ASSUME NEW rule \in Rules, NEW sold \in Nat
    PROVE  LeadDemand(rule, sold) \in Nat
  <1> DEFINE sum == sold * rule.lead
             days == rule.lookback
  <1>1. rule.lead \in Nat /\ days \in Nat \ {0}
    BY DEF Rules
  <1>2. sum \in Nat
    BY <1>1
  <1> HIDE DEF sum, days
  <1>3. sum + days - 1 \in Nat
    BY <1>1, <1>2
  <1>4. (sum + days - 1) \div days \in Nat
    BY <1>1, <1>3
  <1> QED
    BY <1>4 DEF LeadDemand, sum, days

LEMMA TargetType ==
    ASSUME NEW rule \in Rules, NEW trigger \in Nat, NEW sold \in Nat
    PROVE  /\ Target(rule, trigger, sold) \in Nat
           /\ rule.max > 0 => Target(rule, trigger, sold) <= rule.max
  <1> DEFINE demand == LeadDemand(rule, sold)
  <1>1. demand \in Nat
    BY LeadDemandType
  <1> HIDE DEF demand
  <1>2. rule.point \in Nat /\ rule.min \in Nat /\ rule.max \in Nat
    BY DEF Rules
  <1> DEFINE wish == Larger(Larger(rule.min, rule.point + demand), trigger)
  <1>3. wish \in Nat
    BY <1>1, <1>2 DEF Larger
  <1>4. Target(rule, trigger, sold) = IF rule.max > 0 THEN Smaller(wish, rule.max) ELSE wish
    BY DEF Target, demand
  <1> HIDE DEF wish
  <1> QED
    BY <1>2, <1>3, <1>4 DEF Smaller

LEMMA RecommendedType ==
    ASSUME NEW rule \in Rules, NEW trigger \in Nat, NEW stock \in Int, NEW sold \in Nat
    PROVE  Recommended(rule, trigger, stock, sold) \in Nat
  BY TargetType DEF Recommended, Larger

\* The rule settles: what it asks for brings the stock to the target, whether the product
\* is still due to be reordered there or not.
LEMMA RuleSettles ==
    ASSUME NEW rule \in Rules, NEW trigger \in Nat, NEW stock \in Int, NEW sold \in Nat
    PROVE  LET wanted == Recommended(rule, trigger, stock, sold)
           IN  /\ Recommended(rule, trigger, stock + wanted, sold) = 0
               /\ wanted > 0 /\ rule.max > 0 => stock + wanted <= rule.max
  <1> DEFINE target == Target(rule, trigger, sold)
             wanted == Recommended(rule, trigger, stock, sold)
  <1>1. target \in Nat /\ (rule.max > 0 => target <= rule.max)
    BY TargetType
  <1>2. wanted \in Nat /\ wanted \in {0, target - stock}
    BY <1>1, RecommendedType DEF Recommended, Larger
  <1>3. \A x \in Int : Recommended(rule, trigger, x, sold) \in {0, Larger(target - x, 0)}
    BY DEF Recommended
  <1>4. CASE wanted = 0
    <2> HIDE DEF target
    <2>1. stock + wanted = stock
      BY <1>4
    <2> QED
      BY <1>4, <2>1
  <1>5. CASE wanted # 0
    <2>1. stock + wanted = target /\ stock + wanted \in Int
      BY <1>1, <1>2, <1>5
    <2> HIDE DEF target, wanted
    <2>2. Larger(target - target, 0) = 0
      BY <1>1 DEF Larger
    <2>3. Recommended(rule, trigger, target, sold) = 0
      BY <1>1, <1>3, <2>2
    <2>4. Recommended(rule, trigger, stock + wanted, sold) = 0
      BY <2>1, <2>3
    <2>5. wanted > 0 /\ rule.max > 0 => stock + wanted <= rule.max
      BY <1>1, <2>1
    <2> QED
      BY <2>4, <2>5 DEF wanted
  <1> QED
    BY <1>4, <1>5

\* Among finitely many parts of a finite set, one contains no other.
LEMMA SmallestPart ==
    ASSUME NEW S, IsFiniteSet(S), S # {}, NEW part \in [S -> SUBSET S]
    PROVE  \E x \in S : \A y \in S : part[y] \subseteq part[x] => part[y] = part[x]
  <1> DEFINE Parts == {part[x] : x \in S}
  <1>1. Parts \subseteq SUBSET S /\ Parts # {}
    OBVIOUS
  <1>2. (\A x \in S : part[x] \in Parts) /\ \A u \in Parts : \E x \in S : u = part[x]
    OBVIOUS
  <1> HIDE DEF Parts
  <1>3. PICK t \in Parts : \A u \in Parts : u \subseteq t => u = t
    BY <1>1, MinimalSubset
  <1>4. PICK x \in S : t = part[x]
    BY <1>2
  <1> QED
    BY <1>2, <1>3, <1>4

\* The greatest of a finite set of numbers is one of them.
LEMMA MaxIsMember ==
    ASSUME NEW S, IsFiniteSet(S), S \subseteq Nat, S # {}
    PROVE  Max(S) \in S
  <1> DEFINE Above(x) == {y \in S : y > x}
  <1>1. PICK x \in S : \A y \in S : Above(y) \subseteq Above(x) => Above(y) = Above(x)
    <2> DEFINE above == [x \in S |-> Above(x)]
    <2>1. above \in [S -> SUBSET S] /\ \A x \in S : above[x] = Above(x)
      OBVIOUS
    <2> HIDE DEF above, Above
    <2>2. \E x \in S : \A y \in S : above[y] \subseteq above[x] => above[y] = above[x]
      <3>1. IsFiniteSet(S) /\ S # {}
        OBVIOUS
      <3>2. above \in [S -> SUBSET S]
        BY <2>1
      <3> QED
        BY ONLY <3>1, <3>2, SmallestPart
    <2> QED
      BY <2>1, <2>2
  <1>4. ASSUME NEW y \in S, y > x PROVE FALSE
    <2>1. \A z \in S : z > y => z > x
      <3>1. \A a, b, c \in Nat : a > b /\ b > c => a > c
        OBVIOUS
      <3> QED
        BY <1>4, <3>1
    <2>2. Above(y) \subseteq Above(x)
      BY <2>1
    <2>3. y \in Above(x)
      BY <1>4
    <2>4. y \notin Above(y)
      <3>1. \A a \in Nat : ~(a > a)
        OBVIOUS
      <3> QED
        BY <3>1
    <2> QED
      BY <1>1, <2>2, <2>3, <2>4
  <1>5. \A y \in S : x >= y
    BY <1>4
  <1> QED
    BY <1>5 DEF Max

-----------------------------------------------------------------------------
(* AutoPurchase: drafts and loops *)

DraftRows == [status : DraftStatuses, supplier : Suppliers \cup {Nobody},
              lines : SUBSET Goods, due : [Goods -> Nat], looped : BOOLEAN]
TaskRows == [stage : Stages,
             want : [Goods -> Suppliers \cup {Nobody}],
             cached : [Goods -> Int], fresh : BOOLEAN]

LEMMA DraftAndTaskTypes ==
    /\ NoDraft \in DraftRows /\ NoTask \in TaskRows
    /\ NoTask.stage = "idle" /\ \A p \in Goods : NoTask.want[p] = Nobody
  <1>1. Zero \in [Goods -> Nat]
    BY DEF Zero
  <1>2. Zero \in [Goods -> Int]
    BY DEF Zero
  <1>3. NoDraft \in DraftRows
    BY <1>1 DEF NoDraft, DraftRows, DraftStatuses
  <1>4. [p \in Goods |-> Nobody] \in [Goods -> Suppliers \cup {Nobody}]
    OBVIOUS
  <1>5. NoTask \in TaskRows
    BY <1>2, <1>4 DEF NoTask, TaskRows, Stages
  <1> QED
    BY <1>3, <1>5 DEF NoTask

\* What the generators know of products is a number, and of suppliers a supplier.
LEMMA QuantityType ==
    ASSUME AutoTypeOK, NEW p \in Goods, NEW t \in Nat, NEW stock \in Int
    PROVE  Quantity(p, t, stock) \in Nat
  <1>1. Rule[p] \in Rules /\ sales[p] \in Nat
    BY AutoPurchaseAssumption DEF AutoTypeOK, Rules
  <1> QED
    BY <1>1, RecommendedType DEF Quantity

LEMMA SupplierType ==
    ASSUME AutoTypeOK, NEW p \in Goods
    PROVE  SupplierOf(p) \in Suppliers \cup {Nobody}
  <1> DEFINE past == {i \in DraftIds : p \in drafts[i].lines}
  <1>1. /\ past # {} => drafts[Max(past)].supplier \in Suppliers \cup {Nobody}
    <2>1. IsFiniteSet(past) /\ past \subseteq Nat /\ past \subseteq DraftIds
      BY AutoPurchaseAssumption, FS_Subset
    <2> HIDE DEF past
    <2>2. past # {} => Max(past) \in DraftIds
      BY <2>1, MaxIsMember
    <2>3. \A i \in DraftIds : drafts[i].supplier \in Suppliers \cup {Nobody}
      BY DEF AutoTypeOK
    <2> QED
      BY <2>2, <2>3
  <1>2. Cardinality(suppliers) = 1 => (CHOOSE s \in suppliers : TRUE) \in Suppliers
    <2>1. Cardinality(suppliers) = 1 => suppliers # {}
      BY FS_EmptySet
    <2>2. suppliers \subseteq Suppliers
      BY DEF AutoTypeOK
    <2> QED
      BY <2>1, <2>2
  <1>3. Past[p] \in Suppliers \cup {Nobody}
    BY AutoPurchaseAssumption
  <1> HIDE DEF past
  <1> QED
    BY <1>1, <1>2, <1>3 DEF SupplierOf, past

LEMMA PlanType ==
    ASSUME AutoTypeOK, NEW candidates, NEW t, NEW seen
    PROVE  LET plan == Plan(candidates, t, seen)
           IN  /\ plan \in [Goods -> Suppliers \cup {Nobody}]
               /\ \A p \in Goods : plan[p] # Nobody => p \notin InPendingOrder
  BY SupplierType DEF Plan

LEMMA TriggerType ==
    ASSUME NEW g \in Generators
    PROVE  TriggerOf(g) \in Nat
  BY AutoPurchaseAssumption DEF TriggerOf

LEMMA AmountsType ==
    ASSUME AutoTypeOK, NEW g \in Generators, NEW s
    PROVE  /\ Amounts(g, s) \in [Goods -> Nat]
           /\ \A p \in Goods : task[g].want[p] # s => Amounts(g, s)[p] = 0
  <1>1. shelf \in [Goods -> Int] /\ task[g].cached \in [Goods -> Int]
    BY DEF AutoTypeOK
  <1>2. \A p \in Goods, stock \in Int : Quantity(p, TriggerOf(g), stock) \in Nat
    BY TriggerType, QuantityType
  <1> QED
    BY <1>1, <1>2 DEF Amounts

LEMMA DraftType ==
    ASSUME NEW g, NEW s \in Suppliers, NEW amounts \in [Goods -> Nat]
    PROVE  LET new == Draft(g, s, amounts)
           IN  /\ new \in DraftRows /\ new.looped = (g \in Workers)
               /\ new.lines = {p \in Goods : amounts[p] > 0}
  BY DEF Draft, DraftRows, DraftStatuses

LEMMA DoneType ==
    ASSUME AutoTypeOK, NEW g \in Generators, NEW s
    PROVE  /\ Done(g, s) \in [Goods -> Suppliers \cup {Nobody}]
           /\ \A p \in Goods : Done(g, s)[p] # Nobody =>
                                  Done(g, s)[p] = task[g].want[p] /\ task[g].want[p] # s
  BY DEF Done, AutoTypeOK

\* A draft of a loop that nobody has taken further.
LoopDraft(i) == drafts[i].looped /\ drafts[i].status = "draft"

\* A worker with something to do holds the lock, and what it means to order is on no
\* draft of a loop.
HoldsLock(w) == task[w].stage # "idle" => advisory = w
WantsNew(w) ==
    \A p \in Goods : task[w].want[p] # Nobody =>
       /\ task[w].stage = "ordering"
       /\ \A i \in DraftIds : LoopDraft(i) => p \notin drafts[i].lines

LoopInv ==
    /\ AutoTypeOK
    /\ \A w \in Workers : HoldsLock(w) /\ WantsNew(w)
    /\ LoopDraftsDisjoint

LEMMA AutoBegins ==
    ASSUME AutoInit
    PROVE  LoopInv
  <1>1. AutoTypeOK
    BY DraftAndTaskTypes, AutoPurchaseAssumption
    DEF AutoInit, AutoTypeOK, DraftRows, TaskRows
  <1>2. /\ \A w \in Workers : task[w] = NoTask
        /\ \A i \in DraftIds : ~drafts[i].looped
    BY DEF AutoInit, Generators, NoDraft
  <1> QED
    BY <1>1, <1>2, DraftAndTaskTypes DEF LoopInv, HoldsLock, WantsNew, LoopDraftsDisjoint

\* The types by parts.
LEMMA AutoTypes ==
    AutoTypeOK <=>
       /\ drafts \in [DraftIds -> DraftRows] /\ task \in [Generators -> TaskRows]
       /\ shelf \in [Goods -> Int] /\ sales \in [Goods -> Nat] /\ suppliers \subseteq Suppliers
       /\ setting \in {"absent", "off", "on"} /\ advisory \in Workers \cup {Nobody}
       /\ alive \subseteq Workers /\ crashes \in 0..MaxCrashes
  BY DEF AutoTypeOK, DraftRows, TaskRows

\* Drafts that the loops made only move on; the workers' wishes only shrink, or were just
\* found to be on no pending order.
LEMMA LoopsGoOn ==
    ASSUME LoopInv, AutoTypeOK', \A w \in Workers : HoldsLock(w)',
           \A i \in DraftIds :
              LoopDraft(i)' => LoopDraft(i) /\ drafts'[i].lines = drafts[i].lines,
           \A w \in Workers, p \in Goods : task'[w].want[p] # Nobody =>
              /\ task'[w].stage = "ordering"
              /\ task[w].want[p] # Nobody \/ p \notin InPendingOrder
    PROVE  LoopInv'
  <1>1. \A p \in Goods, i \in DraftIds :
           p \notin InPendingOrder /\ LoopDraft(i) => p \notin drafts[i].lines
    BY DEF InPendingOrder, InOrders, LoopDraft
  <1>2. \A w \in Workers : WantsNew(w)'
    BY <1>1 DEF LoopInv, WantsNew
  <1>3. LoopDraftsDisjoint'
    BY DEF LoopInv, LoopDraftsDisjoint, LoopDraft
  <1> QED
    BY <1>2, <1>3 DEF LoopInv

\* A generator is done with its run.
LEMMA ReleaseKeeps ==
    ASSUME LoopInv, NEW g \in Generators, Release(g), UNCHANGED <<drafts, shelf, sales, suppliers>>,
           setting' \in {"absent", "off", "on"}, alive' \subseteq Workers,
           crashes' \in 0..MaxCrashes
    PROVE  LoopInv'
  <1>1. /\ task' \in [Generators -> TaskRows] /\ advisory' \in Workers \cup {Nobody}
        /\ task'[g] = NoTask /\ \A h \in Generators \ {g} : task'[h] = task[h]
    BY DraftAndTaskTypes, AutoTypes DEF LoopInv, Release
  <1>2. AutoTypeOK'
    BY <1>1, AutoTypes DEF LoopInv, AutoTypeOK, DraftRows, TaskRows
  <1>3. \A w \in Workers : HoldsLock(w)'
    <2> SUFFICES ASSUME NEW w \in Workers, task'[w].stage # "idle" PROVE advisory' = w
      BY DEF HoldsLock
    <2>1. w # g /\ task'[w] = task[w]
      BY <1>1, DraftAndTaskTypes DEF Generators
    <2> QED
      BY <2>1 DEF Release, LoopInv, HoldsLock
  <1>4. \A w \in Workers, p \in Goods : task'[w].want[p] # Nobody =>
           task'[w].stage = "ordering" /\ task[w].want[p] # Nobody
    <2> SUFFICES ASSUME NEW w \in Workers, NEW p \in Goods, task'[w].want[p] # Nobody
                 PROVE  task'[w].stage = "ordering" /\ task[w].want[p] # Nobody
      OBVIOUS
    <2>1. w # g /\ task'[w] = task[w]
      BY <1>1, DraftAndTaskTypes DEF Generators
    <2> QED
      BY <2>1 DEF LoopInv, WantsNew
  <1>5. \A i \in DraftIds : LoopDraft(i)' => LoopDraft(i) /\ drafts'[i].lines = drafts[i].lines
    BY DEF LoopDraft
  <1> QED
    BY <1>2, <1>3, <1>4, <1>5, LoopsGoOn

\* A generator begins, or goes on to the next stage of its run.
LEMMA StageKeeps ==
    ASSUME LoopInv, NEW g \in Generators, NEW row \in TaskRows,
           task' = [task EXCEPT ![g] = row], advisory' \in Workers \cup {Nobody},
           g \in Workers => advisory' = g /\ advisory \in {Nobody, g},
           g \notin Workers => UNCHANGED advisory,
           UNCHANGED <<drafts, shelf, sales, suppliers, setting, alive, crashes>>,
           \A p \in Goods : row.want[p] # Nobody =>
              /\ row.stage = "ordering"
              /\ task[g].want[p] # Nobody \/ p \notin InPendingOrder
    PROVE  LoopInv'
  <1>1. /\ task' \in [Generators -> TaskRows] /\ task'[g] = row
        /\ \A h \in Generators \ {g} : task'[h] = task[h]
    BY AutoTypes DEF LoopInv
  <1>2. AutoTypeOK'
    BY <1>1 DEF LoopInv, AutoTypeOK, TaskRows
  <1>3. \A w \in Workers : HoldsLock(w)'
    <2> SUFFICES ASSUME NEW w \in Workers, task'[w].stage # "idle", w # g PROVE advisory' = w
      BY DEF HoldsLock
    <2>1. task'[w] = task[w] /\ advisory = w
      BY <1>1 DEF LoopInv, HoldsLock, Generators
    <2>2. w # Nobody
      BY AutoPurchaseAssumption DEF Generators
    <2> QED
      BY <2>1, <2>2
  <1>4. \A w \in Workers, p \in Goods : task'[w].want[p] # Nobody =>
           /\ task'[w].stage = "ordering"
           /\ task[w].want[p] # Nobody \/ p \notin InPendingOrder
    <2> SUFFICES ASSUME NEW w \in Workers, w # g
                 PROVE  \A p \in Goods : task'[w].want[p] # Nobody =>
                           task'[w].stage = "ordering" /\ task[w].want[p] # Nobody
      BY <1>1
    <2>1. task'[w] = task[w]
      BY <1>1 DEF Generators
    <2> QED
      BY <2>1 DEF LoopInv, WantsNew
  <1>5. \A i \in DraftIds : LoopDraft(i)' => LoopDraft(i) /\ drafts'[i].lines = drafts[i].lines
    BY DEF LoopDraft
  <1> QED
    BY <1>2, <1>3, <1>4, <1>5, LoopsGoOn

\* A scan, by the stock its session has seen.
LEMMA ScanKeeps ==
    ASSUME LoopInv, NEW g \in Generators, NEW candidates,
           NEW seen \in [Goods -> Int], ScanShelf(g, candidates, seen),
           g \in Workers => advisory = g
    PROVE  LoopInv'
  <1> DEFINE plan == Plan(candidates, TriggerOf(g), seen)
             row == [stage |-> "ordering", want |-> plan, fresh |-> FALSE,
                     cached |-> [p \in Goods |-> IF plan[p] # Nobody THEN seen[p] ELSE 0]]
  <1>1. /\ plan \in [Goods -> Suppliers \cup {Nobody}]
        /\ \A p \in Goods : plan[p] # Nobody => p \notin InPendingOrder
    BY PlanType DEF LoopInv
  <1>2. /\ task' = [task EXCEPT ![g] = row]
        /\ UNCHANGED <<drafts, shelf, sales, suppliers, setting, advisory, alive, crashes>>
    BY DEF ScanShelf
  <1> HIDE DEF plan
  <1>3. advisory \in Workers \cup {Nobody}
    BY AutoTypes DEF LoopInv
  <1>4. row \in TaskRows /\ row.want = plan /\ row.stage = "ordering"
    BY <1>1 DEF TaskRows, Stages
  <1> HIDE DEF row
  <1> QED
    BY <1>1, <1>2, <1>3, <1>4, StageKeeps

\* The wizard waits for its form, or turns to another step.
LEMMA WizardKeeps ==
    ASSUME LoopInv, NEW g \in Panels, OpenWizard(g) \/ TakeOtherStep(g)
    PROVE  LoopInv'
  <1> DEFINE waiting == [NoTask EXCEPT !.stage = "form", !.cached = shelf]
  <1>1. g \in Generators /\ g \notin Workers
    BY AutoPurchaseAssumption DEF Generators
  <1>2. shelf \in [Goods -> Int] /\ advisory \in Workers \cup {Nobody}
    BY AutoTypes DEF LoopInv
  <1>3. waiting \in TaskRows /\ \A p \in Goods : waiting.want[p] = Nobody
    BY <1>2, DraftAndTaskTypes DEF TaskRows, Stages
  <1>4. PICK row \in {waiting, NoTask} : task' = [task EXCEPT ![g] = row]
    BY DEF OpenWizard, TakeOtherStep
  <1>5. row \in TaskRows /\ \A p \in Goods : row.want[p] = Nobody
    BY <1>3, DraftAndTaskTypes
  <1>6. UNCHANGED <<drafts, shelf, sales, suppliers, setting, advisory, alive, crashes>>
    BY DEF OpenWizard, TakeOtherStep
  <1> HIDE DEF waiting
  <1> QED
    BY <1>1, <1>2, <1>4, <1>5, <1>6, StageKeeps

LEMMA LoopStepKeeps ==
    ASSUME LoopInv, NEW w \in Workers, LoopStep(w)
    PROVE  LoopInv'
  <1>1. /\ w \in Generators /\ task[w] \in TaskRows /\ advisory \in Workers \cup {Nobody}
        /\ task[w].stage # "ordering" => \A p \in Goods : task[w].want[p] = Nobody
        /\ task[w].stage # "idle" => advisory = w
        /\ shelf \in [Goods -> Int]
    BY AutoTypes DEF LoopInv, HoldsLock, WantsNew, Generators
  <1>2. \A to \in {"locked", "inserting"} :
           LET row == [task[w] EXCEPT !.stage = to]
           IN  row \in TaskRows /\ row.want = task[w].want
               /\ [task EXCEPT ![w].stage = to] = [task EXCEPT ![w] = row]
    BY <1>1, AutoTypes DEF TaskRows, Stages, LoopInv
  <1>3. CASE RunExclusive(w)
    <2> DEFINE row == [task[w] EXCEPT !.stage = "locked"]
    <2>1. /\ row \in TaskRows /\ task' = [task EXCEPT ![w] = row]
          /\ \A p \in Goods : row.want[p] = Nobody
      BY <1>1, <1>2, <1>3 DEF RunExclusive
    <2>2. /\ advisory = Nobody /\ advisory' = w
          /\ UNCHANGED <<drafts, shelf, sales, suppliers, setting, alive, crashes>>
      BY <1>3 DEF RunExclusive
    <2> HIDE DEF row
    <2> QED
      BY <1>1, <2>1, <2>2, StageKeeps
  <1>4. CASE MissSetting(w)
    <2> DEFINE row == [task[w] EXCEPT !.stage = "inserting"]
    <2>1. /\ row \in TaskRows /\ task' = [task EXCEPT ![w] = row]
          /\ \A p \in Goods : row.want[p] = Nobody
      BY <1>1, <1>2, <1>4 DEF MissSetting
    <2>2. /\ advisory = w
          /\ UNCHANGED <<drafts, shelf, sales, suppliers, setting, alive, crashes, advisory>>
      BY <1>1, <1>4 DEF MissSetting
    <2> HIDE DEF row
    <2> QED
      BY <1>1, <2>1, <2>2, StageKeeps
  <1>5. CASE InsertSetting(w)
    <2>1. /\ Release(w) /\ UNCHANGED <<drafts, shelf, sales, suppliers, crashes>>
          /\ setting' \in {setting, "off"} /\ alive' \subseteq alive
      BY <1>5 DEF InsertSetting
    <2> QED
      BY <1>1, <2>1, ReleaseKeeps, AutoTypes DEF LoopInv
  <1>6. CASE ReadSetting(w)
    <2>1. CASE setting = "on"
      BY <1>1, <1>6, <2>1, ScanKeeps DEF ReadSetting
    <2>2. CASE setting # "on"
      <3>1. Release(w) /\ UNCHANGED <<drafts, shelf, sales, suppliers, setting, alive, crashes>>
        BY <1>6, <2>2 DEF ReadSetting
      <3> QED
        BY <1>1, <3>1, ReleaseKeeps, AutoTypes DEF LoopInv
    <2> QED
      BY <2>1, <2>2
  <1> QED
    BY <1>3, <1>4, <1>5, <1>6 DEF LoopStep

\* A loop's new draft has only products that were on none; the others' wishes are void,
\* for they do not hold the lock.
LEMMA OrderFromKeeps ==
    ASSUME LoopInv, NEW g \in Generators, NEW s \in Suppliers, OrderFrom(g, s)
    PROVE  LoopInv'
  <1> DEFINE left == Done(g, s)
             amounts == Amounts(g, s)
             new == Draft(g, s, amounts)
  <1>1. /\ left \in [Goods -> Suppliers \cup {Nobody}]
        /\ \A p \in Goods : left[p] # Nobody => left[p] = task[g].want[p] /\ task[g].want[p] # s
    BY DoneType DEF LoopInv
  <1>2. /\ task[g].stage = "ordering"
        /\ UNCHANGED <<shelf, sales, suppliers, setting, advisory, alive, crashes>>
    BY DEF OrderFrom
  <1>3. CASE s \notin suppliers
    <2> DEFINE row == [task[g] EXCEPT !.want = left]
    <2>1. task' = [task EXCEPT ![g].want = left] /\ UNCHANGED drafts
      BY <1>3 DEF OrderFrom
    <2> HIDE DEF left
    <2>2. /\ row \in TaskRows /\ row.want = left /\ row.stage = "ordering"
          /\ task' = [task EXCEPT ![g] = row]
      BY <1>1, <1>2, <2>1, AutoTypes DEF TaskRows, LoopInv
    <2>3. /\ g \in Workers => advisory = g
          /\ advisory \in Workers \cup {Nobody}
      BY <1>2, AutoTypes DEF LoopInv, HoldsLock
    <2> HIDE DEF row
    <2>4. \A p \in Goods : row.want[p] # Nobody =>
             row.stage = "ordering" /\ task[g].want[p] # Nobody
      BY <1>1, <2>2
    <2>5. /\ UNCHANGED <<drafts, shelf, sales, suppliers, setting, alive, crashes>>
          /\ UNCHANGED advisory /\ advisory' \in Workers \cup {Nobody}
          /\ g \in Workers => advisory' = g /\ advisory \in {Nobody, g}
      BY <1>2, <2>1, <2>3
    <2> QED
      BY <2>2, <2>4, <2>5, StageKeeps
  <1>4. CASE s \in suppliers
    <2>1. /\ drafts' = [drafts EXCEPT ![NextId] = new]
          /\ task' = [task EXCEPT ![g].want = left, ![g].fresh = TRUE, ![g].cached = Zero]
      BY <1>4 DEF OrderFrom
    <2>2. /\ amounts \in [Goods -> Nat]
          /\ \A p \in Goods : task[g].want[p] # s => amounts[p] = 0
      BY AmountsType DEF LoopInv
    <2> HIDE DEF amounts, left
    <2>3. /\ new \in DraftRows /\ new.looped = (g \in Workers)
          /\ new.lines = {p \in Goods : amounts[p] > 0}
      BY <2>2, DraftType
    <2> HIDE DEF new
    <2>4. \A p \in new.lines : p \in Goods /\ task[g].want[p] = s
      BY <2>2, <2>3
    <2>5. s # Nobody
      BY AutoPurchaseAssumption
    <2>6. /\ drafts' \in [DraftIds -> DraftRows]
          /\ \A i \in DraftIds : drafts'[i] \in {drafts[i], new}
          /\ \A i, j \in DraftIds : i # j => drafts'[i] = drafts[i] \/ drafts'[j] = drafts[j]
      BY <2>1, <2>3, AutoTypes DEF LoopInv
    <2>7. /\ task' \in [Generators -> TaskRows]
          /\ task'[g].want = left /\ task'[g].stage = "ordering"
          /\ \A h \in Generators \ {g} : task'[h] = task[h]
      BY <1>1, <1>2, <2>1, AutoTypes, DraftAndTaskTypes DEF TaskRows, LoopInv, NoTask
    <2>8. AutoTypeOK'
      BY <1>2, <2>6, <2>7 DEF LoopInv, AutoTypeOK, DraftRows, TaskRows
    <2>9. \A w \in Workers : HoldsLock(w)'
      <3>1. \A w \in Workers : task'[w].stage # "idle" => task[w].stage # "idle"
        BY <1>2, <2>7 DEF Generators
      <3> QED
        BY <1>2, <3>1 DEF LoopInv, HoldsLock
    <2>10. CASE g \notin Workers
      <3>1. \A i \in DraftIds :
               LoopDraft(i)' => LoopDraft(i) /\ drafts'[i].lines = drafts[i].lines
        BY <2>3, <2>6, <2>10 DEF LoopDraft
      <3>2. \A w \in Workers : task'[w] = task[w]
        BY <2>7, <2>10 DEF Generators
      <3>3. \A w \in Workers, p \in Goods : task'[w].want[p] # Nobody =>
               task'[w].stage = "ordering" /\ task[w].want[p] # Nobody
        BY <3>2 DEF LoopInv, WantsNew
      <3> QED
        BY <2>8, <2>9, <3>1, <3>3, LoopsGoOn
    <2>11. CASE g \in Workers
      <3>1. \A i \in DraftIds : LoopDraft(i) => new.lines \cap drafts[i].lines = {}
        BY <2>4, <2>5, <2>11 DEF LoopInv, WantsNew
      <3>2. LoopDraftsDisjoint'
        BY <2>6, <3>1 DEF LoopInv, LoopDraftsDisjoint, LoopDraft
      <3>3. \A w \in Workers : w # g => \A p \in Goods : task'[w].want[p] = Nobody
        BY <1>2, <2>7, <2>11 DEF LoopInv, HoldsLock, WantsNew, Generators
      <3>4. \A p \in Goods : left[p] # Nobody =>
               p \notin new.lines /\ \A i \in DraftIds : LoopDraft(i) => p \notin drafts[i].lines
        BY <1>1, <2>4, <2>11 DEF LoopInv, WantsNew
      <3>5. \A w \in Workers : WantsNew(w)'
        BY <2>6, <2>7, <3>3, <3>4 DEF WantsNew, LoopDraft
      <3> QED
        BY <2>8, <2>9, <3>2, <3>5 DEF LoopInv
    <2> QED
      BY <2>10, <2>11
  <1> QED
    BY <1>3, <1>4

LEMMA OrderingKeeps ==
    ASSUME LoopInv, NEW g \in Generators, Ordering(g)
    PROVE  LoopInv'
  <1>1. CASE \E s \in Suppliers : OrderFrom(g, s)
    BY <1>1, OrderFromKeeps
  <1>2. CASE (\E s \in Suppliers : NothingLeftToOrder(g, s)) \/ FinishRun(g)
    <2>1. /\ Release(g) /\ UNCHANGED <<drafts, shelf, sales, suppliers, setting, crashes>>
          /\ alive' \subseteq alive
      BY <1>2 DEF NothingLeftToOrder, FinishRun
    <2> QED
      BY <2>1, ReleaseKeeps, AutoTypes DEF LoopInv
  <1> QED
    BY <1>1, <1>2 DEF Ordering

LEMMA CrashKeeps ==
    ASSUME LoopInv, NEW w \in Workers, CrashWorker(w)
    PROVE  LoopInv'
  <1>1. /\ Release(w) /\ UNCHANGED <<drafts, shelf, sales, suppliers, setting>>
        /\ alive' = alive \cup {w}
    BY DEF CrashWorker
  <1>2. crashes' \in 0..MaxCrashes
    BY AutoPurchaseAssumption, AutoTypes DEF CrashWorker, LoopInv
  <1> QED
    BY <1>1, <1>2, ReleaseKeeps, AutoTypes DEF LoopInv, Generators

\* What the requests add are no drafts of a loop.
LEMMA RequestsKeep ==
    ASSUME LoopInv, UNCHANGED <<shelf, sales, suppliers, setting, advisory, alive, crashes>>,
           drafts' \in [DraftIds -> DraftRows],
           \A i \in DraftIds : drafts'[i] = drafts[i] \/ ~drafts'[i].looped,
           task' \in [Generators -> TaskRows], \A w \in Workers : task'[w] = task[w]
    PROVE  LoopInv'
  <1>1. AutoTypeOK'
    BY DEF LoopInv, AutoTypeOK, DraftRows, TaskRows
  <1>2. \A w \in Workers : HoldsLock(w)'
    BY DEF LoopInv, HoldsLock
  <1>3. \A i \in DraftIds : LoopDraft(i)' => LoopDraft(i) /\ drafts'[i].lines = drafts[i].lines
    BY DEF LoopDraft
  <1>4. \A w \in Workers, p \in Goods : task'[w].want[p] # Nobody =>
           task'[w].stage = "ordering" /\ task[w].want[p] # Nobody
    BY DEF LoopInv, WantsNew
  <1> QED
    BY <1>1, <1>2, <1>3, <1>4, LoopsGoOn

LEMMA BatchKeeps ==
    ASSUME LoopInv, NEW g \in Batches,
           CommitBatch(g) \/ PostFromReplenishment(g)
    PROVE  LoopInv'
  <1>1. g \in Generators /\ g \notin Workers
    BY AutoPurchaseAssumption DEF Generators
  <1>2. suppliers \subseteq Suppliers /\ drafts \in [DraftIds -> DraftRows]
        /\ task \in [Generators -> TaskRows] /\ shelf \in [Goods -> Int]
    BY AutoTypes DEF LoopInv
  <1>3. \A s \in suppliers : Draft(g, s, Amounts(g, s)) \in DraftRows
                             /\ ~Draft(g, s, Amounts(g, s)).looped
    BY <1>1, <1>2, AmountsType, DraftType DEF LoopInv
  <1>4. CASE CommitBatch(g)
    <2>1. PICK number \in [BatchFrom(g) -> {i \in FreeIds :
                                               Rank(i, FreeIds) < Cardinality(BatchFrom(g))}] :
             drafts' = [i \in DraftIds |->
                IF \E s \in BatchFrom(g) : number[s] = i
                THEN LET s == CHOOSE t \in BatchFrom(g) : number[t] = i
                     IN  Draft(g, s, Amounts(g, s))
                ELSE drafts[i]]
      BY <1>4 DEF CommitBatch
    <2>2. \A i \in DraftIds : \/ drafts'[i] = drafts[i]
                              \/ \E s \in suppliers : drafts'[i] = Draft(g, s, Amounts(g, s))
      BY <2>1 DEF BatchFrom
    <2>3. /\ drafts' \in [DraftIds -> DraftRows]
          /\ \A i \in DraftIds : drafts'[i] = drafts[i] \/ ~drafts'[i].looped
      <3>1. drafts' = [i \in DraftIds |-> drafts'[i]]
        BY <2>1
      <3>2. \A i \in DraftIds : /\ drafts'[i] \in DraftRows
                                /\ drafts'[i] = drafts[i] \/ ~drafts'[i].looped
        BY <1>2, <1>3, <2>2
      <3> QED
        BY <3>1, <3>2
    <2>4. /\ task' \in [Generators -> TaskRows] /\ \A w \in Workers : task'[w] = task[w]
          /\ UNCHANGED <<shelf, sales, suppliers, setting, advisory, alive, crashes>>
      BY <1>1, <1>2, <1>4, DraftAndTaskTypes DEF CommitBatch
    <2> QED
      BY <2>3, <2>4, RequestsKeep
  <1>5. CASE PostFromReplenishment(g)
    <2> DEFINE amounts == [p \in Goods |-> Quantity(p, 0, shelf[p])]
    <2>1. PICK s \in suppliers : drafts' = [drafts EXCEPT ![NextId] = Draft(g, s, amounts)]
      BY <1>5 DEF PostFromReplenishment
    <2>2. amounts \in [Goods -> Nat]
      BY <1>2, QuantityType DEF LoopInv
    <2> HIDE DEF amounts
    <2>3. Draft(g, s, amounts) \in DraftRows /\ ~Draft(g, s, amounts).looped
      BY <1>1, <1>2, <2>2, DraftType
    <2>4. /\ drafts' \in [DraftIds -> DraftRows]
          /\ \A i \in DraftIds : drafts'[i] = drafts[i] \/ ~drafts'[i].looped
      BY <1>2, <2>1, <2>3
    <2>5. UNCHANGED <<shelf, sales, suppliers, setting, advisory, task, alive, crashes>>
      BY <1>5 DEF PostFromReplenishment
    <2> QED
      BY <1>2, <2>4, <2>5, RequestsKeep
  <1> QED
    BY <1>4, <1>5

LEMMA DeskKeeps ==
    ASSUME LoopInv, DeskNext
    PROVE  LoopInv'
  <1>1. ASSUME NEW g \in Panels, PressGenerate(g) \/ Ordering(g) PROVE LoopInv'
    <2>1. g \in Generators /\ g \notin Workers
      BY AutoPurchaseAssumption DEF Generators
    <2>2. task[g].cached \in [Goods -> Int]
      BY <2>1 DEF LoopInv, AutoTypeOK
    <2> QED
      BY <1>1, <2>1, <2>2, ScanKeeps, OrderingKeeps DEF PressGenerate
  <1>2. ASSUME NEW g \in Batches, StartBatch(g) PROVE LoopInv'
    <2>1. g \in Generators /\ g \notin Workers
      BY AutoPurchaseAssumption DEF Generators
    <2>2. shelf \in [Goods -> Int]
      BY AutoTypes DEF LoopInv
    <2> QED
      BY <1>2, <2>1, <2>2, ScanKeeps DEF StartBatch
  <1> QED
    BY <1>1, <1>2, BatchKeeps, WizardKeeps DEF DeskNext

LEMMA TradeKeeps ==
    ASSUME LoopInv, TradeNext \/ PutSetting
    PROVE  LoopInv'
  <1>1. ASSUME AutoTypeOK', UNCHANGED <<task, advisory>>,
               \A i \in DraftIds :
                  LoopDraft(i)' => LoopDraft(i) /\ drafts'[i].lines = drafts[i].lines
        PROVE  LoopInv'
    <2>1. \A w \in Workers : HoldsLock(w)'
      BY <1>1 DEF LoopInv, HoldsLock
    <2>2. \A w \in Workers, p \in Goods : task'[w].want[p] # Nobody =>
             task'[w].stage = "ordering" /\ task[w].want[p] # Nobody
      BY <1>1 DEF LoopInv, WantsNew
    <2> QED
      BY <1>1, <2>1, <2>2, LoopsGoOn
  <1>2. CASE PutSetting
    BY <1>1, <1>2, AutoPurchaseAssumption DEF PutSetting, LoopInv, AutoTypeOK, LoopDraft
  <1>3. CASE UpdateSupplier
    BY <1>1, <1>3 DEF UpdateSupplier, LoopInv, AutoTypeOK, LoopDraft
  <1>4. ASSUME NEW i \in DraftIds, Proceed(i) PROVE LoopInv'
    <2>1. UNCHANGED <<shelf, sales, suppliers, setting, advisory, task, alive, crashes>>
          /\ drafts \in [DraftIds -> DraftRows]
      BY <1>4, AutoTypes DEF Proceed, LoopInv
    <2>2. /\ drafts' \in [DraftIds -> DraftRows] /\ drafts'[i].status # "draft"
          /\ \A j \in DraftIds \ {i} : drafts'[j] = drafts[j]
      BY <1>4, <2>1, SMTT(30) DEF Proceed, DraftRows, DraftStatuses
    <2>3. AutoTypeOK'
      BY <2>1, <2>2 DEF LoopInv, AutoTypeOK, DraftRows
    <2> QED
      BY <1>1, <2>1, <2>2, <2>3 DEF LoopDraft
  <1>5. ASSUME NEW i \in DraftIds, NEW p \in Goods, Deliver(i, p) PROVE LoopInv'
    <2>1. /\ UNCHANGED <<sales, suppliers, setting, advisory, task, alive, crashes>>
          /\ drafts \in [DraftIds -> DraftRows] /\ shelf \in [Goods -> Int]
          /\ shelf' = [shelf EXCEPT ![p] = @ + drafts[i].due[p]]
      BY <1>5, AutoTypes DEF Deliver, LoopInv
    <2>2. drafts[i].due \in [Goods -> Nat]
      BY <2>1 DEF DraftRows
    <2>3. shelf' \in [Goods -> Int]
      BY <2>1, <2>2
    <2> DEFINE due == [drafts[i].due EXCEPT ![p] = 0]
               to == IF \A q \in Goods \ {p} : drafts[i].due[q] = 0
                     THEN "received" ELSE "partially_received"
               row == [drafts[i] EXCEPT !.due = due, !.status = to]
    <2>4. due \in [Goods -> Nat] /\ to \in {"received", "partially_received"}
      BY <2>2
    <2>5. drafts' = [drafts EXCEPT ![i] = row]
      BY <1>5, <2>1 DEF Deliver, DraftRows
    <2> HIDE DEF due, to
    <2>6. row \in DraftRows /\ row.status # "draft"
      BY <2>1, <2>4 DEF DraftRows, DraftStatuses
    <2> HIDE DEF row
    <2>7. /\ drafts' \in [DraftIds -> DraftRows] /\ drafts'[i].status # "draft"
          /\ \A j \in DraftIds \ {i} : drafts'[j] = drafts[j]
      BY <2>1, <2>5, <2>6
    <2>8. AutoTypeOK'
      BY <2>1, <2>3, <2>7 DEF LoopInv, AutoTypeOK, DraftRows
    <2> QED
      BY <1>1, <2>1, <2>7, <2>8 DEF LoopDraft
  <1>6. ASSUME NEW p \in Goods, SellUnit(p) PROVE LoopInv'
    <2>1. /\ shelf' = [shelf EXCEPT ![p] = @ - 1] /\ sales' = [sales EXCEPT ![p] = @ + 1]
          /\ UNCHANGED <<drafts, suppliers, setting, advisory, task, alive, crashes>>
      BY <1>6 DEF SellUnit
    <2>2. AutoTypeOK'
      BY <2>1 DEF LoopInv, AutoTypeOK
    <2> QED
      BY <1>1, <2>1, <2>2 DEF LoopDraft
  <1> QED
    BY <1>2, <1>3, <1>4, <1>5, <1>6 DEF TradeNext

LEMMA GeneratorsStep ==
    ASSUME LoopInv, [AutoNext]_autoVars
    PROVE  LoopInv'
  <1>1. CASE UNCHANGED autoVars
    BY <1>1 DEF autoVars, LoopInv, AutoTypeOK, HoldsLock, WantsNew, LoopDraft,
                LoopDraftsDisjoint
  <1>2. CASE WorkerNext
    BY <1>2, LoopStepKeeps, CrashKeeps, OrderingKeeps, TradeKeeps DEF WorkerNext, Generators
  <1> QED
    BY <1>1, <1>2, DeskKeeps, TradeKeeps DEF AutoNext

LEMMA LoopsAreGuarded == AutoSpec => []LoopInv
  <1>1. AutoInit => LoopInv
    BY AutoBegins
  <1>2. LoopInv /\ [AutoNext]_autoVars => LoopInv'
    BY GeneratorsStep
  <1> QED
    BY <1>1, <1>2, PTL DEF AutoSpec

\* Drafts, shelf, suppliers, setting, lock and tasks have their types: the ids, suppliers
\* and amounts that plans and drafts are made of are always ones there are.
THEOREM PurchasingTypes == AutoSpec => []AutoTypeOK
  <1>1. LoopInv => AutoTypeOK
    BY DEF LoopInv
  <1> QED
    BY <1>1, LoopsAreGuarded, PTL

\* The loops of several workers never draft the same product twice, through crashes and
\* the deaths of loops: who wishes to order anything holds the advisory lock, and what it
\* still wishes to order is on no draft of a loop.
THEOREM LoopsDraftApart == AutoSpec => []LoopDraftsDisjoint
  <1>1. LoopInv => LoopDraftsDisjoint
    BY DEF LoopInv
  <1> QED
    BY <1>1, LoopsAreGuarded, PTL

\* At any sales and any stock, what is wanted of a product is what ends its need.
LEMMA NeedEnds == LoopInv => DeliveryEndsNeed
  <1> SUFFICES ASSUME LoopInv, NEW p \in Goods, NEW t \in {0, Trigger}
               PROVE  LET wanted == Quantity(p, t, shelf[p])
                      IN  /\ Quantity(p, t, shelf[p] + wanted) = 0
                          /\ wanted > 0 /\ Rule[p].max > 0 => shelf[p] + wanted <= Rule[p].max
    BY DEF DeliveryEndsNeed
  <1>1. /\ Rule[p] \in Rules /\ sales[p] \in Nat /\ shelf[p] \in Int /\ t \in Nat
    BY AutoPurchaseAssumption DEF LoopInv, AutoTypeOK, Rules
  <1> QED
    BY <1>1, RuleSettles DEF Quantity

\* Ordering settles for every rule, stock and rate of sales: once the recommended
\* quantity has come in, the rule asks for nothing more, and a delivery never passes the
\* product's maximum.
THEOREM DeliveriesEndTheNeed == AutoSpec => []DeliveryEndsNeed
  BY NeedEnds, LoopsAreGuarded, PTL

-----------------------------------------------------------------------------
(* Reports: the books the reports are drawn from *)

\* The days reported on are finitely many, none of them "no limit" or "not closed".
LEMMA DatesAreDays ==
    /\ Today \in Nat /\ 1 \in Dates /\ Dates \subseteq Nat /\ IsFiniteSet(Dates)
    /\ \A d \in Dates : d # NoLimit /\ d # 0
  <1>1. Today \in Nat \ {0}
    BY ReportAssumption
  <1>2. IsFiniteSet(1..Today)
    BY <1>1, FS_Interval
  <1> QED
    BY <1>1, <1>2 DEF Dates, NoLimit

\* The columns of an order are whole numbers, some of them never negative.
LEMMA TicketFields ==
    ASSUME NEW o \in Sales
    PROVE  /\ Ticket[o].shop \in Nat /\ Ticket[o].shop # AllShops /\ Ticket[o].article \in Articles
           /\ Ticket[o].quantity \in Nat /\ Ticket[o].price \in Nat
           /\ Ticket[o].cost \in Int /\ (KnownCost(o) => Ticket[o].cost \in Nat)
           /\ GrossOf[o] \in Nat /\ DiscountOf[o] \in Int /\ PointsOf[o] \in Nat
           /\ TaxOf[o] \in Int /\ ContainedOf[o] \in Nat /\ TotalOf[o] \in Int
           /\ CostOf[o] \in Int
           /\ TotalOf[o] = GrossOf[o] - (DiscountOf[o] + PointsOf[o]) + (TaxOf[o] - ContainedOf[o])
  <1>1. /\ Ticket[o].shop \in Nat \ {AllShops} /\ Ticket[o].article \in Articles
        /\ Ticket[o].quantity \in Nat /\ Ticket[o].price \in Nat
        /\ Ticket[o].discount \in Int /\ Ticket[o].points \in Nat
        /\ Ticket[o].cost \in Nat \cup {UnknownCost}
        /\ Ticket[o].tax \in Int /\ Ticket[o].contained \in Nat
    BY ReportAssumption
  <1>2. Ticket[o].price * Ticket[o].quantity \in Nat
    BY <1>1
  <1>3. Ticket[o].cost \in Int /\ (KnownCost(o) => Ticket[o].cost \in Nat)
    BY <1>1 DEF KnownCost, UnknownCost
  <1>4. Ticket[o].cost * Ticket[o].quantity \in Int
    BY <1>1, <1>3
  <1>5. /\ GrossOf[o] = Ticket[o].price * Ticket[o].quantity
        /\ DiscountOf[o] = Ticket[o].discount /\ PointsOf[o] = Ticket[o].points
        /\ TaxOf[o] = Ticket[o].tax /\ ContainedOf[o] = Ticket[o].contained
        /\ TotalOf[o] = GrossOf[o] - (DiscountOf[o] + PointsOf[o]) + (TaxOf[o] - ContainedOf[o])
        /\ CostOf[o] = Ticket[o].cost * Ticket[o].quantity
    BY DEF GrossOf, DiscountOf, PointsOf, TaxOf, ContainedOf, TotalOf, CostOf
  <1> QED
    BY <1>1, <1>2, <1>3, <1>4, <1>5

\* The books are empty at first.
LEMMA BooksBegin == ReportInit => ReportTypeOK
  <1> SUFFICES ASSUME ReportInit PROVE ReportTypeOK
    OBVIOUS
  <1>1. \A o \in Sales : RefundedUnits(o) = 0
    <2>1. SUFFICES ASSUME NEW o \in Sales PROVE SumFunctionOnSet(returns[o], Dates) = 0
      BY DEF RefundedUnits
    <2>2. \A d \in Dates : returns[o][d] = 0
      BY DEF ReportInit
    <2> QED
      BY <2>2, DatesAreDays, SumZero
  <1>2. \A o \in Sales : 0 \in 0..Ticket[o].quantity
    BY TicketFields
  <1> QED
    BY <1>1, <1>2, DatesAreDays, ReportAssumption DEF ReportInit, ReportTypeOK, NoEntry

\* A unit more comes back than before, and was there to come back.
LEMMA UnitReturnedKeeps ==
    ASSUME ReportTypeOK, NEW o \in Sales, UnitReturned(o)
    PROVE  ReportTypeOK'
  <1> DEFINE more == [returns[o] EXCEPT ![reportDay] = returns[o][reportDay] + 1]
  <1>1. /\ returns \in [Sales -> [Dates -> Nat]] /\ reportDay \in Dates
        /\ RefundedUnits(o) < Ticket[o].quantity /\ RefundedUnits(o) \in 0..Ticket[o].quantity
        /\ UNCHANGED <<soldOrders, home, section, invoiceBook, payoutBook, closings, reportDay>>
    BY DEF UnitReturned, Books, ReportTypeOK
  <1>2. returns' = [returns EXCEPT ![o] = more]
    BY DEF UnitReturned
  <1>3. more \in [Dates -> Nat] /\ returns' \in [Sales -> [Dates -> Nat]] /\ returns'[o] = more
    <2>1. returns[o] \in [Dates -> Nat]
      BY <1>1
    <2>2. more \in [Dates -> Nat]
      BY <1>1, <2>1
    <2> QED
      BY <1>2, <1>1, <2>2
  <1>4. ASSUME NEW s \in Sales PROVE RefundedUnits(s)' \in 0..Ticket[s].quantity
    <2>1. CASE s # o
      <3>1. returns'[s] = returns[s]
        BY <1>2, <1>1, <2>1
      <3> QED
        BY <3>1 DEF RefundedUnits, ReportTypeOK
    <2>2. CASE s = o
      <3> DEFINE new == more
                 old == returns[o]
      <3>1. /\ \A d \in Dates : old[d] \in Int /\ new[d] \in Int
            /\ \A d \in Dates \ {reportDay} : old[d] = new[d]
            /\ new[reportDay] - old[reportDay] = 1
        BY <1>1
      <3>2. /\ RefundedUnits(o) = SumFunctionOnSet(old, Dates)
            /\ RefundedUnits(o)' = SumFunctionOnSet(new, Dates)
        BY <1>3 DEF RefundedUnits
      <3> HIDE DEF new, old
      <3>3. SumFunctionOnSet(new, Dates)
              = SumFunctionOnSet(old, Dates) + (new[reportDay] - old[reportDay])
        <4>1. reportDay \in Dates /\ IsFiniteSet(Dates)
          BY <1>1, DatesAreDays
        <4> QED
          BY <3>1, <4>1, SumUpdate
      <3> QED
        BY <1>1, <2>2, <3>1, <3>2, <3>3, TicketFields
    <2> QED
      BY <2>1, <2>2
  <1> QED
    BY <1>1, <1>3, <1>4 DEF ReportTypeOK

\* Every step leaves books of their type.
LEMMA ReportNextKeeps ==
    ASSUME ReportTypeOK, [ReportNext]_reportVars
    PROVE  ReportTypeOK'
  <1> DEFINE Sums == \A o \in Sales : RefundedUnits(o) \in 0..Ticket[o].quantity
             States == {"none", "draft", "pending_review", "approved", "rejected"}
             Rows == [state : States, day : Dates]
  <1>1. UNCHANGED returns => (Sums => Sums')
    BY DEF RefundedUnits
  <1> HIDE DEF Sums
  <1>2. ReportTypeOK <=>
          /\ soldOrders \in [Sales -> [state : {"none", "pending", "serving", "completed", "cancelled"},
                                       day : Dates]]
          /\ returns \in [Sales -> [Dates -> Nat]] /\ Sums
          /\ home \in [Articles -> ReportedShops]
          /\ section \in [Articles -> Sections \cup {NoSection}]
          /\ invoiceBook \in [Bills -> Rows] /\ payoutBook \in [Bills -> Rows]
          /\ closings \in [Shifts -> {Unclosed} \cup [closed : Dates, variance : Int]]
          /\ reportDay \in Dates
    BY DEF ReportTypeOK, Sums
  <1>3. (ReportTypeOK <=>
          /\ soldOrders \in [Sales -> [state : {"none", "pending", "serving", "completed", "cancelled"},
                                       day : Dates]]
          /\ returns \in [Sales -> [Dates -> Nat]] /\ Sums
          /\ home \in [Articles -> ReportedShops]
          /\ section \in [Articles -> Sections \cup {NoSection}]
          /\ invoiceBook \in [Bills -> Rows] /\ payoutBook \in [Bills -> Rows]
          /\ closings \in [Shifts -> {Unclosed} \cup [closed : Dates, variance : Int]]
          /\ reportDay \in Dates)'
    BY DEF ReportTypeOK, Sums
  <1>4. ASSUME NEW o \in Sales, SaleMade(o) PROVE ReportTypeOK'
    BY <1>1, <1>2, <1>3, <1>4 DEF SaleMade, Books
  <1>5. ASSUME NEW o \in Sales, NEW from, NEW to \in {"serving", "completed", "cancelled"},
               SaleMoves(o, from, to)
        PROVE  ReportTypeOK'
    BY <1>1, <1>2, <1>3, <1>5 DEF SaleMoves, Books
  <1>6. ASSUME NEW a \in Articles, NEW s \in Sections \cup {NoSection}, Reclassified(a, s)
        PROVE  ReportTypeOK'
    BY <1>1, <1>2, <1>3, <1>6 DEF Reclassified, Books
  <1>15. ASSUME NEW a \in Articles, NEW shop \in ReportedShops, NEW s \in Sections \cup {NoSection},
                Transferred(a, shop, s)
         PROVE  ReportTypeOK'
    BY <1>1, <1>2, <1>3, <1>15 DEF Transferred, Books
  <1>7. ASSUME Midnight PROVE ReportTypeOK'
    <2>1. reportDay' \in Dates
      BY <1>2, <1>7, DatesAreDays DEF Midnight, Dates
    <2> QED
      BY <1>1, <1>2, <1>3, <1>7, <2>1 DEF Midnight, Books
  <1>8. ASSUME NEW row \in Rows, NEW from, NEW to \in States PROVE Stepped(row, from, to) \in Rows
    BY <1>2 DEF Stepped
  <1>9. ASSUME NEW b \in Bills, NEW step \in BillSteps,
               BillMoves(b, step[1], step[2]) \/ PayoutMoves(b, step[1], step[2])
        PROVE  ReportTypeOK'
    <2>1. step[2] \in States
      BY DEF BillSteps
    <2>2. /\ Stepped(invoiceBook[b], step[1], step[2]) \in Rows
          /\ Stepped(payoutBook[b], step[1], step[2]) \in Rows
      BY <1>2, <1>8, <2>1
    <2> HIDE DEF Rows
    <2> QED
      BY <1>1, <1>2, <1>3, <1>9, <2>2 DEF BillMoves, PayoutMoves, Books
  <1>10. ASSUME NEW f \in Shifts, NEW variance \in {-1, 0}, ShiftReconciled(f, variance)
         PROVE  ReportTypeOK'
    BY <1>1, <1>2, <1>3, <1>10 DEF ShiftReconciled, Books
  <1>11. CASE UNCHANGED reportVars
    BY <1>1, <1>2, <1>3, <1>11 DEF reportVars
  <1>12. CASE SaleHistory
    BY <1>4, <1>5, <1>6, <1>7, <1>12, <1>15, UnitReturnedKeeps DEF SaleHistory
  <1>13. CASE BillHistory
    BY <1>7, <1>9, <1>13 DEF BillHistory
  <1>14. CASE ShiftHistory
    BY <1>7, <1>10, <1>14 DEF ShiftHistory
  <1> QED
    BY <1>11, <1>12, <1>13, <1>14 DEF ReportNext
-----------------------------------------------------------------------------
(* Reports: what each adds up *)

\* Finitely many orders fall into a window, each on one of the days.
LEMMA SoldOrders ==
    ASSUME ReportTypeOK, NEW w, NEW shop
    PROVE  /\ SoldIn(w, shop) \in SUBSET Sales /\ IsFiniteSet(Sales)
           /\ IsFiniteSet(SoldIn(w, shop))
           /\ \A o \in SoldIn(w, shop) : soldOrders[o].day \in Dates
  <1>1. IsFiniteSet(Sales)
    BY ReportAssumption
  <1>2. SoldIn(w, shop) \in SUBSET Sales
    BY DEF SoldIn
  <1>3. \A o \in Sales : soldOrders[o].day \in Dates
    BY DEF ReportTypeOK
  <1> QED
    BY <1>1, <1>2, <1>3, FS_Subset

\* Of the sold orders, those that pass a test and those that do not add up to all.
LEMMA PartsOfSales ==
    ASSUME ReportTypeOK, NEW w, NEW shop, NEW f, NEW L \in SUBSET SoldIn(w, shop),
           \A o \in Sales : f[o] \in Int
    PROVE  /\ IsFiniteSet(SoldIn(w, shop) \ L)
           /\ SumFunctionOnSet(f, SoldIn(w, shop) \ L) + SumFunctionOnSet(f, L)
                = SumFunctionOnSet(f, SoldIn(w, shop))
  <1> DEFINE S == SoldIn(w, shop)
  <1>1. IsFiniteSet(S) /\ L \in SUBSET S /\ \A o \in S : f[o] \in Int
    BY SoldOrders
  <1> HIDE DEF S
  <1>2. IsFiniteSet(S \ L) /\ IsFiniteSet(L)
    BY <1>1, FS_Subset
  <1>3. SumFunctionOnSet(f, S \ L) = SumFunctionOnSet(f, S) - SumFunctionOnSet(f, L)
    BY <1>1, SumDifference
  <1>4. SumFunctionOnSet(f, S) \in Int /\ SumFunctionOnSet(f, L) \in Int
    BY <1>1, <1>2, SumType
  <1> QED
    BY <1>2, <1>3, <1>4 DEF S

\* The sales of products that have moved away.
AwaySales(w, shop) == {o \in SoldIn(w, shop) : MovedAway(shop, Ticket[o].article)}

\* The products' sales and those of products that moved away add up to the gross revenue.
LEMMA ProductsAgree ==
    ASSUME ReportTypeOK, NEW w, NEW shop
    PROVE  Total(TopProducts(w, shop)) + SumOf(GrossOf, AwaySales(w, shop))
             = SumOf(GrossOf, SoldIn(w, shop))
  <1> DEFINE S == SoldIn(w, shop)
             L == AwaySales(w, shop)
             R == S \ L
             K == {a \in Articles : ~MovedAway(shop, a)}
             key == [o \in Sales |-> Ticket[o].article]
             h == TopProducts(w, shop)
  <1>1. DOMAIN h = K /\ IsFiniteSet(K)
    <2>1. IsFiniteSet(Articles) /\ K \in SUBSET Articles
      BY ReportAssumption
    <2>2. IsFiniteSet(K)
      BY <2>1, FS_Subset
    <2> QED
      BY <2>2 DEF TopProducts
  <1>2. \A o \in S : o \in Sales /\ key[o] = Ticket[o].article /\ key[o] \in Articles
                     /\ GrossOf[o] \in Int
    BY SoldOrders, TicketFields
  <1>3. L \in SUBSET S /\ \A o \in R : key[o] \in K /\ GrossOf[o] \in Int
    BY <1>2 DEF AwaySales
  <1>4. ASSUME NEW a \in K
        PROVE  h[a] = SumFunctionOnSet(GrossOf, {o \in R : key[o] = a})
    <2>1. h[a] = SumFunctionOnSet(GrossOf, {o \in S : Ticket[o].article = a})
      BY DEF TopProducts, SumOf
    <2>2. {o \in S : Ticket[o].article = a} = {o \in R : key[o] = a}
      BY <1>2 DEF AwaySales
    <2> QED
      BY <2>1, <2>2
  <1>5. /\ IsFiniteSet(R)
        /\ SumFunctionOnSet(GrossOf, R) + SumFunctionOnSet(GrossOf, L) = SumFunctionOnSet(GrossOf, S)
    BY <1>3, TicketFields, PartsOfSales
  <1> HIDE DEF S, L, R, K, key, h
  <1>6. SumFunctionOnSet(h, K) = SumFunctionOnSet(GrossOf, R)
    BY <1>1, <1>3, <1>4, <1>5, SumByKey
  <1> QED
    BY <1>1, <1>5, <1>6 DEF Total, SumOf, h, S, L

\* The sales a tenant's category report leaves out.
Loose(w, shop) == {o \in SoldIn(w, shop) : Unlisted(shop, Ticket[o].article)}

\* The categories' sales and what a tenant's report leaves out add up to it as well.
LEMMA CategoriesAgree ==
    ASSUME ReportTypeOK, NEW w, NEW shop
    PROVE  Total(CategorySales(w, shop)) + SumOf(GrossOf, Loose(w, shop))
             = SumOf(GrossOf, SoldIn(w, shop))
  <1> DEFINE S == SoldIn(w, shop)
             L == Loose(w, shop)
             R == S \ L
             K == Sections \cup (IF shop = AllShops THEN {NoSection} ELSE {})
             key == [o \in Sales |-> section[Ticket[o].article]]
             h == CategorySales(w, shop)
  <1>1. DOMAIN h = K
    BY DEF CategorySales
  <1>2. IsFiniteSet(K)
    <2>1. IsFiniteSet(Sections)
      BY ReportAssumption
    <2> QED
      BY <2>1, FS_AddElement
  <1>3. \A o \in S : /\ o \in Sales /\ key[o] = section[Ticket[o].article]
                     /\ key[o] \in Sections \cup {NoSection} /\ GrossOf[o] \in Int
    BY SoldOrders, TicketFields DEF ReportTypeOK
  <1>4. L \in SUBSET S /\ \A o \in R : key[o] \in K /\ GrossOf[o] \in Int
    BY <1>3 DEF Loose, Unlisted
  <1>5. ASSUME NEW s \in K
        PROVE  h[s] = SumFunctionOnSet(GrossOf, {o \in R : key[o] = s})
    <2>1. h[s] = SumFunctionOnSet(GrossOf, {o \in S : section[Ticket[o].article] = s
                                              /\ ~Unlisted(shop, Ticket[o].article)})
      BY DEF CategorySales, SumOf
    <2>2. {o \in S : section[Ticket[o].article] = s /\ ~Unlisted(shop, Ticket[o].article)}
            = {o \in R : key[o] = s}
      BY <1>3 DEF Loose
    <2> QED
      BY <2>1, <2>2
  <1>6. /\ IsFiniteSet(R)
        /\ SumFunctionOnSet(GrossOf, R) + SumFunctionOnSet(GrossOf, L) = SumFunctionOnSet(GrossOf, S)
    BY <1>4, TicketFields, PartsOfSales
  <1> HIDE DEF S, L, R, K, key, h
  <1>7. SumFunctionOnSet(h, K) = SumFunctionOnSet(GrossOf, R)
    <2>1. IsFiniteSet(R) /\ \A o \in R : key[o] \in K /\ GrossOf[o] \in Int
      BY <1>4, <1>6
    <2>2. \A s \in K : h[s] = SumFunctionOnSet(GrossOf, {o \in R : key[o] = s})
      BY <1>5
    <2> QED
      BY <1>2, <2>1, <2>2, SumByKey
  <1> QED
    BY <1>1, <1>6, <1>7 DEF Total, SumOf, h, S, L

\* The sales without a customer.
WalkIns(w, shop) == {o \in SoldIn(w, shop) : Ticket[o].buyer = NoBuyer}

\* The known customers and the walk-ins spent what was sold.
LEMMA CustomersAgree ==
    ASSUME ReportTypeOK, NEW w, NEW shop
    PROVE  Total(TopCustomers(w, shop)) + SumOf(TotalOf, WalkIns(w, shop))
             = SumOf(TotalOf, SoldIn(w, shop))
  <1> DEFINE S == SoldIn(w, shop)
             L == WalkIns(w, shop)
             R == S \ L
             K == {Ticket[o].buyer : o \in S} \ {NoBuyer}
             key == [o \in Sales |-> Ticket[o].buyer]
             h == TopCustomers(w, shop)
  <1>1. DOMAIN h = K
    BY DEF TopCustomers
  <1>2. IsFiniteSet(S) /\ S \subseteq Sales /\ \A o \in Sales : key[o] = Ticket[o].buyer
    BY SoldOrders
  <1>3. IsFiniteSet(K)
    <2> DEFINE B == {key[o] : o \in S}
    <2>1. IsFiniteSet(B)
      <3> HIDE DEF S, key
      <3> QED
        BY <1>2, FiniteImage
    <2>2. K \subseteq B
      BY <1>2
    <2> HIDE DEF B, K
    <2> QED
      BY <2>1, <2>2, FS_Subset
  <1>4. L \in SUBSET S /\ \A o \in R : key[o] \in K /\ TotalOf[o] \in Int
    BY <1>2, TicketFields DEF WalkIns
  <1>5. \A c \in K : h[c] = SumFunctionOnSet(TotalOf, {o \in R : key[o] = c})
    <2>1. SUFFICES ASSUME NEW c \in K
                   PROVE  h[c] = SumFunctionOnSet(TotalOf, {o \in R : key[o] = c})
      OBVIOUS
    <2>2. h[c] = SumFunctionOnSet(TotalOf, {o \in S : Ticket[o].buyer = c})
      BY DEF TopCustomers, SumOf
    <2>3. {o \in S : Ticket[o].buyer = c} = {o \in R : key[o] = c}
      BY <1>2 DEF WalkIns
    <2> QED
      BY <2>2, <2>3
  <1>6. /\ IsFiniteSet(R)
        /\ SumFunctionOnSet(TotalOf, R) + SumFunctionOnSet(TotalOf, L) = SumFunctionOnSet(TotalOf, S)
    BY <1>4, TicketFields, PartsOfSales
  <1> HIDE DEF S, L, R, K, key, h
  <1>7. SumFunctionOnSet(h, K) = SumFunctionOnSet(TotalOf, R)
    <2>1. IsFiniteSet(R) /\ \A o \in R : key[o] \in K /\ TotalOf[o] \in Int
      BY <1>4, <1>6
    <2>2. \A c \in K : h[c] = SumFunctionOnSet(TotalOf, {o \in R : key[o] = c})
      BY <1>5
    <2> QED
      BY <1>3, <2>1, <2>2, SumByKey
  <1> QED
    BY <1>1, <1>6, <1>7 DEF Total, SumOf, h, S, L

\* Revenue is gross less discounts and points, plus the taxes that prices do not contain.
LEMMA RevenueAgrees ==
    ASSUME ReportTypeOK, NEW w, NEW shop
    PROVE  LET S == SoldIn(w, shop)
           IN  SumOf(TotalOf, S) = SumOf(GrossOf, S) - (SumOf(DiscountOf, S) + SumOf(PointsOf, S))
                                   + (SumOf(TaxOf, S) - SumOf(ContainedOf, S))
  <1> DEFINE S == SoldIn(w, shop)
             off == [o \in Sales |-> DiscountOf[o] + PointsOf[o]]
             on == [o \in Sales |-> TaxOf[o] - ContainedOf[o]]
             price == [o \in Sales |-> GrossOf[o] - off[o]]
  <1>1. IsFiniteSet(S)
    BY SoldOrders
  <1>2. ASSUME NEW o \in S
        PROVE  /\ DiscountOf[o] \in Int /\ PointsOf[o] \in Int /\ TaxOf[o] \in Int
               /\ ContainedOf[o] \in Int /\ GrossOf[o] \in Int
               /\ off[o] = DiscountOf[o] + PointsOf[o] /\ on[o] = TaxOf[o] - ContainedOf[o]
               /\ price[o] = GrossOf[o] - off[o] /\ TotalOf[o] = price[o] + on[o]
               /\ off[o] \in Int /\ on[o] \in Int /\ price[o] \in Int
    <2>1. o \in Sales
      BY SoldOrders
    <2> QED
      BY <2>1, TicketFields
  <1> HIDE DEF S, off, on, price
  <1>3. SumFunctionOnSet(off, S) = SumFunctionOnSet(DiscountOf, S) + SumFunctionOnSet(PointsOf, S)
    BY <1>1, <1>2, SumPlus
  <1>4. SumFunctionOnSet(on, S) = SumFunctionOnSet(TaxOf, S) - SumFunctionOnSet(ContainedOf, S)
    BY <1>1, <1>2, SumMinus
  <1>5. SumFunctionOnSet(price, S) = SumFunctionOnSet(GrossOf, S) - SumFunctionOnSet(off, S)
    BY <1>1, <1>2, SumMinus
  <1>6. SumFunctionOnSet(TotalOf, S) = SumFunctionOnSet(price, S) + SumFunctionOnSet(on, S)
    BY <1>1, <1>2, SumPlus
  <1> QED
    BY <1>3, <1>4, <1>5, <1>6 DEF SumOf, S

LEMMA SalesReportsAgree ==
    ASSUME ReportTypeOK, NEW w, NEW shop
    PROVE  SalesAgree(w, shop)
  <1>1. LET summary == SalesSummary(w, shop)
            S == SoldIn(w, shop)
        IN  /\ summary.gross = SumOf(GrossOf, S) /\ summary.discounts = SumOf(DiscountOf, S)
            /\ summary.revenue = SumOf(TotalOf, S) /\ TaxLiability(w, shop) = SumOf(TaxOf, S)
    BY DEF SalesSummary, TaxLiability
  <1> QED
    BY <1>1, ProductsAgree, CategoriesAgree, CustomersAgree, RevenueAgrees
    DEF SalesAgree, AwaySales, Loose, WalkIns

\* Finitely many bills fall into a window.
LEMMA BillsOnBook ==
    ASSUME ReportTypeOK, NEW w
    PROVE  /\ BilledIn(w) \in SUBSET Bills /\ IsFiniteSet(BilledIn(w))
           /\ \A b \in BilledIn(w) : Billed[b] \in Int
  <1>1. IsFiniteSet(Bills) /\ BilledIn(w) \in SUBSET Bills
    BY ReportAssumption DEF BilledIn
  <1>2. \A b \in Bills : Billed[b] \in Int
    BY ReportAssumption DEF Billed
  <1> QED
    BY <1>1, <1>2, FS_Subset

\* The bills A among those of a window, sorted by any key of the bills.
LEMMA BillsByKey ==
    ASSUME ReportTypeOK, NEW w, NEW A \in SUBSET BilledIn(w),
           NEW key, NEW K, IsFiniteSet(K), \A b \in A : key[b] \in K, NEW col, NEW h,
           \A k \in K : col[k] \in SUBSET A /\ \A b \in A : b \in col[k] <=> key[b] = k,
           \A k \in K : h[k] = SumOf(Billed, col[k])
    PROVE  SumOf(h, K) = SumOf(Billed, A)
  <1>1. IsFiniteSet(BilledIn(w)) /\ IsFiniteSet(A) /\ \A b \in A : Billed[b] \in Int
    BY BillsOnBook, FS_Subset
  <1>2. \A k \in K : h[k] = SumFunctionOnSet(Billed, col[k])
    BY DEF SumOf
  <1>3. SumFunctionOnSet(h, K) = SumFunctionOnSet(Billed, A)
    BY <1>1, <1>2, SumByColumn
  <1> QED
    BY <1>3 DEF SumOf

\* What was approved of the suppliers' bills adds up to the summary's.
LEMMA SuppliersAgree ==
    ASSUME ReportTypeOK, NEW w
    PROVE  LET spend == SupplierSpend(w)
           IN  Total([v \in DOMAIN spend |-> spend[v].approved]) = InvoiceSummary(w).approved
  <1> DEFINE spend == SupplierSpend(w)
             S == BilledIn(w)
             A == InState(S, invoiceBook, "approved")
             key == [b \in Bills |-> BillOf[b].vendor]
             h == [v \in DOMAIN spend |-> spend[v].approved]
             K == {key[b] : b \in S}
             col == [v \in K |-> {b \in A : key[b] = v}]
  <1>1. A \in SUBSET S /\ \A b \in S : key[b] = BillOf[b].vendor
    BY BillsOnBook DEF InState
  <1>2. DOMAIN spend = K
    <2>1. DOMAIN spend = {BillOf[b].vendor : b \in S}
      BY DEF SupplierSpend
    <2> QED
      BY <1>1, <2>1
  <1>3. \A v \in K : h[v] = SumOf(Billed, col[v])
    <2>1. SUFFICES ASSUME NEW v \in K PROVE h[v] = SumOf(Billed, col[v])
      OBVIOUS
    <2>2. h[v] = SumOf(Billed, InState({b \in S : BillOf[b].vendor = v}, invoiceBook, "approved"))
      BY <1>2 DEF SupplierSpend
    <2>3. InState({b \in S : BillOf[b].vendor = v}, invoiceBook, "approved")
            = {b \in A : key[b] = v}
      BY <1>1 DEF InState
    <2> QED
      BY <2>2, <2>3
  <1>4. \A v \in K : col[v] \in SUBSET A /\ \A b \in A : b \in col[v] <=> key[b] = v
    OBVIOUS
  <1>5. InvoiceSummary(w).approved = SumOf(Billed, A) /\ DOMAIN h = K
    BY <1>2 DEF InvoiceSummary
  <1>6. IsFiniteSet(K) /\ \A b \in S : key[b] \in K
    BY BillsOnBook, FiniteImage
  <1> HIDE DEF A, key, h, K, col
  <1>7. SumOf(h, K) = SumOf(Billed, A)
    BY <1>1, <1>3, <1>4, <1>6, BillsByKey
  <1> QED
    BY <1>5, <1>7 DEF Total, h

\* What the months billed and approved adds up to the summary's.
LEMMA MonthsAgree ==
    ASSUME ReportTypeOK, NEW w
    PROVE  LET trend == VarianceTrend(w)
           IN  /\ Total([m \in DOMAIN trend |-> trend[m].approved]) = InvoiceSummary(w).approved
               /\ Total([m \in DOMAIN trend |-> trend[m].billed]) = InvoiceSummary(w).billed
  <1> DEFINE trend == VarianceTrend(w)
             S == BilledIn(w)
             A == InState(BilledIn(w), invoiceBook, "approved")
             key == [b \in Bills |-> MonthOf[invoiceBook[b].day]]
             g == [m \in DOMAIN trend |-> trend[m].approved]
             h == [m \in DOMAIN trend |-> trend[m].billed]
             K == {key[b] : b \in S}
             some == [m \in K |-> {b \in A : key[b] = m}]
             all == [m \in K |-> {b \in S : key[b] = m}]
  <1>1. A \in SUBSET S /\ \A b \in S : key[b] = MonthOf[invoiceBook[b].day]
    BY BillsOnBook DEF InState
  <1>2. DOMAIN trend = K
    <2>1. DOMAIN trend = {MonthOf[invoiceBook[b].day] : b \in S}
      BY DEF VarianceTrend
    <2> QED
      BY <1>1, <2>1
  <1>3. \A m \in K : g[m] = SumOf(Billed, some[m]) /\ h[m] = SumOf(Billed, all[m])
    <2>1. SUFFICES ASSUME NEW m \in K
                   PROVE  g[m] = SumOf(Billed, some[m]) /\ h[m] = SumOf(Billed, all[m])
      OBVIOUS
    <2> DEFINE own == {b \in S : MonthOf[invoiceBook[b].day] = m}
    <2>2. g[m] = SumOf(Billed, InState(own, invoiceBook, "approved")) /\ h[m] = SumOf(Billed, own)
      BY <1>2 DEF VarianceTrend
    <2>3. InState(own, invoiceBook, "approved") = {b \in A : key[b] = m}
      BY <1>1 DEF InState
    <2>4. own = {b \in S : key[b] = m}
      BY <1>1
    <2> QED
      BY <2>2, <2>3, <2>4
  <1>4. \A m \in K : /\ some[m] \in SUBSET A /\ \A b \in A : b \in some[m] <=> key[b] = m
                     /\ all[m] \in SUBSET S /\ \A b \in S : b \in all[m] <=> key[b] = m
    OBVIOUS
  <1>5. /\ InvoiceSummary(w).approved = SumOf(Billed, A) /\ InvoiceSummary(w).billed = SumOf(Billed, S)
        /\ DOMAIN g = K /\ DOMAIN h = K
    BY <1>2 DEF InvoiceSummary
  <1>6. IsFiniteSet(K) /\ \A b \in S : key[b] \in K
    BY BillsOnBook, FiniteImage
  <1> HIDE DEF A, key, g, h, K, some, all
  <1>7. SumOf(g, K) = SumOf(Billed, A)
    BY <1>1, <1>3, <1>4, <1>6, BillsByKey
  <1>8. SumOf(h, K) = SumOf(Billed, S)
    BY <1>3, <1>4, <1>6, BillsByKey
  <1> QED
    BY <1>5, <1>7, <1>8 DEF Total, g, h

\* The shifts of a window, day by day.
LEMMA ShiftsByDay ==
    ASSUME ReportTypeOK, NEW w, NEW f, NEW h, \A s \in Shifts : f[s] \in Int,
           \A d \in DaysOf(w) :
              h[d] = SumFunctionOnSet(f, {s \in Shifts : closings[s] # Unclosed
                                                         /\ closings[s].closed = d})
    PROVE  SumFunctionOnSet(h, DaysOf(w)) = SumFunctionOnSet(f, ShiftList(w))
  <1> DEFINE S == ShiftList(w)
             K == DaysOf(w)
             key == [s \in Shifts |-> closings[s].closed]
             col == [d \in K |-> {s \in Shifts : closings[s] # Unclosed /\ closings[s].closed = d}]
  <1>1. S \in SUBSET Shifts /\ IsFiniteSet(Shifts) /\ K \in SUBSET Dates /\ IsFiniteSet(Dates)
    BY ReportAssumption, DatesAreDays DEF ShiftList, DaysOf
  <1>2. IsFiniteSet(S) /\ IsFiniteSet(K)
    BY <1>1, FS_Subset
  <1>3. \A s \in S : /\ s \in Shifts /\ closings[s] # Unclosed /\ Within(closings[s].closed, w)
                     /\ key[s] = closings[s].closed
    BY DEF ShiftList
  <1>4. \A s \in S : key[s] \in K /\ f[s] \in Int
    <2>1. \A s \in S : closings[s] \in [closed : Dates, variance : Int]
      BY <1>3 DEF ReportTypeOK
    <2>2. \A s \in S : closings[s].closed \in Dates
      BY <2>1
    <2> QED
      BY <1>3, <2>2 DEF DaysOf
  <1>5. \A d \in K : h[d] = SumFunctionOnSet(f, col[d])
    OBVIOUS
  <1>6. \A d \in K : col[d] \in SUBSET S /\ \A s \in S : s \in col[d] <=> key[s] = d
    <2>1. \A d \in K : Within(d, w)
      BY DEF DaysOf
    <2> QED
      BY <1>3, <2>1 DEF ShiftList
  <1> HIDE DEF S, K, key, col
  <1>7. SumFunctionOnSet(h, K) = SumFunctionOnSet(f, S)
    BY <1>2, <1>4, <1>5, <1>6, SumByColumn
  <1> QED
    BY <1>7 DEF S, K

\* The daily closes count the shifts that the list shows.
LEMMA ShiftCountsAgree ==
    ASSUME ReportTypeOK, NEW w
    PROVE  Total([d \in DaysOf(w) |-> DailyClose(d).count]) = Cardinality(ShiftList(w))
  <1> DEFINE f == [s \in Shifts |-> 1]
             h == [d \in DaysOf(w) |-> DailyClose(d).count]
             On(d) == {s \in Shifts : closings[s] # Unclosed /\ closings[s].closed = d}
  <1>1. IsFiniteSet(Shifts) /\ ShiftList(w) \in SUBSET Shifts
    BY ReportAssumption DEF ShiftList
  <1>2. \A S \in SUBSET Shifts : SumFunctionOnSet(f, S) = Cardinality(S)
    <2>1. SUFFICES ASSUME NEW S \in SUBSET Shifts PROVE SumFunctionOnSet(f, S) = Cardinality(S)
      OBVIOUS
    <2>2. IsFiniteSet(S) /\ \A s \in S : f[s] = 1
      BY <1>1, FS_Subset
    <2> HIDE DEF f
    <2> QED
      BY <2>2, SumOfOnes
  <1>3. \A d \in DaysOf(w) : h[d] = SumFunctionOnSet(f, On(d))
    <2>1. SUFFICES ASSUME NEW d \in DaysOf(w) PROVE h[d] = SumFunctionOnSet(f, On(d))
      OBVIOUS
    <2>2. h[d] = Cardinality(On(d)) /\ On(d) \in SUBSET Shifts
      BY DEF DailyClose
    <2> QED
      BY <1>2, <2>2
  <1>4. \A s \in Shifts : f[s] \in Int
    OBVIOUS
  <1>5. DOMAIN h = DaysOf(w) /\ Total(h) = SumFunctionOnSet(h, DaysOf(w))
    BY DEF Total, SumOf
  <1> HIDE DEF f, h
  <1>6. SumFunctionOnSet(h, DaysOf(w)) = SumFunctionOnSet(f, ShiftList(w))
    BY <1>3, <1>4, ShiftsByDay
  <1> QED
    BY <1>1, <1>2, <1>5, <1>6 DEF h

LEMMA BillReportsAgree ==
    ASSUME ReportTypeOK, NEW w
    PROVE  BillsAgree(w)
  BY SuppliersAgree, MonthsAgree, ShiftCountsAgree DEF BillsAgree

\* The daily closes' variances add up to the executive summary's.
LEMMA VariancesAgree ==
    ASSUME ReportTypeOK
    PROVE  ExecutiveSummary.variance = Total([d \in Dates |-> DailyClose(d).variance])
  <1> DEFINE h == [d \in Dates |-> DailyClose(d).variance]
  <1>1. DaysOf(EverySale) = Dates
    BY DEF DaysOf, EverySale, Within
  <1>2. \A s \in Shifts : ShiftVariance[s] \in Int
    BY DEF ReportTypeOK, ShiftVariance, Unclosed
  <1>3. \A d \in Dates :
           h[d] = SumFunctionOnSet(ShiftVariance, {s \in Shifts : closings[s] # Unclosed
                                                                  /\ closings[s].closed = d})
    BY DEF DailyClose, SumOf
  <1>4. Total(h) = SumFunctionOnSet(h, Dates)
    BY DEF Total, SumOf
  <1> HIDE DEF h
  <1>5. SumFunctionOnSet(h, Dates) = SumFunctionOnSet(ShiftVariance, ShiftList(EverySale))
    BY <1>1, <1>2, <1>3, ShiftsByDay
  <1> QED
    BY <1>4, <1>5 DEF ExecutiveSummary, SumOf, h
-----------------------------------------------------------------------------
(* Reports: the window cut into days, the orders into shops *)

\* The parts of the sales summary.
Revenue(w, shop) == SumOf(TotalOf, SoldIn(w, shop))
Refunded(w, shop) == SumOf(PriceBack, RefundsOffRevenue(w, shop))
Costed(w, shop) == {o \in SoldIn(w, shop) : KnownCost(o)}
NetCost(w, shop) == SumOf(CostOf, Costed(w, shop)) - SumOf(CostBack, RefundsOffCost(w, shop))

\* What the summary makes of its parts.
LEMMA SummaryParts ==
    ASSUME NEW w, NEW shop
    PROVE  LET summary == SalesSummary(w, shop)
               cogs == IF NetCost(w, shop) > 0 THEN NetCost(w, shop) ELSE 0
           IN  /\ summary["net"] = Revenue(w, shop) - Refunded(w, shop)
               /\ summary["cogs"] = cogs
               /\ summary["margin"] = Revenue(w, shop) - Refunded(w, shop) - cogs
  BY DEF SalesSummary, Revenue, Refunded, Costed, NetCost

\* Every day falls into the unbounded window, and only itself into its own.
LEMMA WindowDays ==
    /\ \A d \in Dates : Within(d, EverySale)
    /\ \A c, d \in Dates : Within(c, OneDay(d)) <=> c = d
  BY DatesAreDays DEF Within, EverySale, OneDay

\* The refunds of either kind are finitely many, of whole numbers each.
LEMMA RefundRows ==
    ASSUME ReportTypeOK, NEW w, NEW shop
    PROVE  LET rows == Sales \X Dates
           IN  /\ RefundsOffRevenue(w, shop) \in SUBSET rows
               /\ RefundsOffCost(w, shop) \in SUBSET rows
               /\ IsFiniteSet(RefundsOffRevenue(w, shop)) /\ IsFiniteSet(RefundsOffCost(w, shop))
               /\ \A r \in rows : /\ r[1] \in Sales /\ r[2] \in Dates /\ UnitsBack(r) \in Nat
                                  /\ PriceBack[r] \in Int /\ CostBack[r] \in Int
  <1> DEFINE rows == Sales \X Dates
  <1>1. IsFiniteSet(rows)
    BY ReportAssumption, DatesAreDays, FS_Product
  <1>2. RefundsOffRevenue(w, shop) \in SUBSET rows /\ RefundsOffCost(w, shop) \in SUBSET rows
    BY DEF RefundsOffRevenue, RefundsOffCost
  <1>3. \A r \in rows : r[1] \in Sales /\ r[2] \in Dates
    OBVIOUS
  <1>4. \A r \in rows : UnitsBack(r) \in Nat
    BY <1>3 DEF UnitsBack, ReportTypeOK
  <1>5. \A r \in rows : PriceBack[r] \in Int /\ CostBack[r] \in Int
    <2>1. \A r \in rows : Ticket[r[1]].price \in Int /\ Ticket[r[1]].cost \in Int
      BY <1>3, TicketFields
    <2>2. \A r \in rows : /\ Ticket[r[1]].price * UnitsBack(r) \in Int
                          /\ Ticket[r[1]].cost * UnitsBack(r) \in Int
      BY <1>4, <2>1
    <2> QED
      BY <2>2 DEF PriceBack, CostBack
  <1> HIDE DEF rows
  <1>6. IsFiniteSet(RefundsOffRevenue(w, shop)) /\ IsFiniteSet(RefundsOffCost(w, shop))
    BY <1>1, <1>2, FS_Subset
  <1> QED
    BY <1>2, <1>3, <1>4, <1>5, <1>6 DEF rows

\* Orders out of a shop's, a day's at a time.
LEMMA OrdersByDay ==
    ASSUME ReportTypeOK, NEW shop, NEW A \in SUBSET SoldIn(EverySale, shop),
           NEW f, \A o \in A : f[o] \in Int,
           NEW h, \A d \in Dates : h[d] = SumOf(f, A \cap SoldIn(OneDay(d), shop))
    PROVE  SumOf(h, Dates) = SumOf(f, A)
  <1> DEFINE key == [o \in Sales |-> soldOrders[o].day]
             col == [d \in Dates |-> A \cap SoldIn(OneDay(d), shop)]
  <1>1. IsFiniteSet(A) /\ IsFiniteSet(Dates)
    BY SoldOrders, DatesAreDays, FS_Subset
  <1>2. \A o \in A : /\ o \in Sales /\ Counted(o) /\ OfShop(shop, o)
                     /\ soldOrders[o].day \in Dates /\ key[o] = soldOrders[o].day
    BY SoldOrders DEF SoldIn
  <1>3. \A d \in Dates : col[d] \in SUBSET A /\ \A o \in A : o \in col[d] <=> key[o] = d
    BY <1>2, WindowDays DEF SoldIn
  <1>4. \A d \in Dates : h[d] = SumFunctionOnSet(f, col[d])
    BY DEF SumOf
  <1>5. \A o \in A : key[o] \in Dates
    BY <1>2
  <1> HIDE DEF key, col
  <1>6. SumFunctionOnSet(h, Dates) = SumFunctionOnSet(f, A)
    BY <1>1, <1>3, <1>4, <1>5, SumByColumn
  <1> QED
    BY <1>6 DEF SumOf

\* The refunds off the revenue, a day's at a time.
LEMMA RefundsByDay ==
    ASSUME ReportTypeOK, NEW shop,
           NEW h, \A d \in Dates : h[d] = Refunded(OneDay(d), shop)
    PROVE  SumOf(h, Dates) = Refunded(EverySale, shop)
  <1> DEFINE R == RefundsOffRevenue(EverySale, shop)
             key == [r \in Sales \X Dates |-> r[2]]
             col == [d \in Dates |-> RefundsOffRevenue(OneDay(d), shop)]
  <1>1. IsFiniteSet(R) /\ R \in SUBSET (Sales \X Dates) /\ IsFiniteSet(Dates)
    BY RefundRows, DatesAreDays
  <1>2. \A r \in R : key[r] = r[2] /\ r[2] \in Dates /\ PriceBack[r] \in Int
    BY <1>1, RefundRows
  <1>3. \A d \in Dates : col[d] \in SUBSET R /\ \A r \in R : r \in col[d] <=> key[r] = d
    <2>1. SUFFICES ASSUME NEW d \in Dates
                   PROVE  col[d] \in SUBSET R /\ \A r \in R : r \in col[d] <=> key[r] = d
      OBVIOUS
    <2>2. \A r \in Sales \X Dates : /\ Within(r[2], EverySale) /\ key[r] = r[2]
                                    /\ Within(r[2], OneDay(d)) <=> r[2] = d
      BY WindowDays
    <2>3. \A r \in Sales \X Dates : r \in col[d] <=> r \in R /\ key[r] = d
      BY <2>2 DEF RefundsOffRevenue
    <2>4. col[d] \in SUBSET (Sales \X Dates)
      BY RefundRows
    <2> HIDE DEF col, R, key
    <2> QED
      BY <1>1, <2>3, <2>4
  <1>4. \A d \in Dates : h[d] = SumFunctionOnSet(PriceBack, col[d])
    BY DEF SumOf, Refunded
  <1> HIDE DEF R, key, col
  <1>5. SumFunctionOnSet(h, Dates) = SumFunctionOnSet(PriceBack, R)
    BY <1>1, <1>2, <1>3, <1>4, SumByColumn
  <1> QED
    BY <1>5 DEF SumOf, Refunded, R

\* The refunds off the cost, by the days of the orders.
LEMMA CostRefundsByDay ==
    ASSUME ReportTypeOK, NEW shop,
           NEW h, \A d \in Dates : h[d] = SumOf(CostBack, RefundsOffCost(OneDay(d), shop))
    PROVE  SumOf(h, Dates) = SumOf(CostBack, RefundsOffCost(EverySale, shop))
  <1> DEFINE R == RefundsOffCost(EverySale, shop)
             key == [r \in Sales \X Dates |-> soldOrders[r[1]].day]
             col == [d \in Dates |-> RefundsOffCost(OneDay(d), shop)]
  <1>1. IsFiniteSet(R) /\ R \in SUBSET (Sales \X Dates) /\ IsFiniteSet(Dates)
    BY RefundRows, DatesAreDays
  <1>2. \A r \in Sales \X Dates : /\ key[r] = soldOrders[r[1]].day
                                  /\ r[1] \in Sales /\ soldOrders[r[1]].day \in Dates
    BY DEF ReportTypeOK
  <1>3. \A r \in R : key[r] \in Dates /\ CostBack[r] \in Int
    BY <1>1, <1>2, RefundRows
  <1>4. \A d \in Dates : col[d] \in SUBSET R /\ \A r \in R : r \in col[d] <=> key[r] = d
    <2>1. SUFFICES ASSUME NEW d \in Dates
                   PROVE  col[d] \in SUBSET R /\ \A r \in R : r \in col[d] <=> key[r] = d
      OBVIOUS
    <2>2. \A r \in Sales \X Dates : /\ Within(soldOrders[r[1]].day, EverySale)
                                    /\ Within(soldOrders[r[1]].day, OneDay(d)) <=> key[r] = d
      BY <1>2, WindowDays
    <2>3. \A r \in Sales \X Dates : r \in col[d] <=> r \in R /\ key[r] = d
      BY <1>2, <2>2 DEF RefundsOffCost, SoldIn
    <2>4. col[d] \in SUBSET (Sales \X Dates)
      BY RefundRows
    <2> HIDE DEF col, R, key
    <2> QED
      BY <1>1, <2>3, <2>4
  <1>5. \A d \in Dates : h[d] = SumFunctionOnSet(CostBack, col[d])
    BY DEF SumOf
  <1> HIDE DEF R, key, col
  <1>6. /\ IsFiniteSet(R) /\ IsFiniteSet(Dates)
        /\ \A r \in R : CostBack[r] \in Int
        /\ \A r \in R : key[r] \in Dates
    BY <1>1, <1>3
  <1>7. SumFunctionOnSet(h, Dates) = SumFunctionOnSet(CostBack, R)
    BY <1>4, <1>5, <1>6, SumByColumn
  <1> QED
    BY <1>7 DEF SumOf, R

\* What the units of one order that came back had cost.
LEMMA OrderCostBack ==
    ASSUME ReportTypeOK, NEW o \in Sales
    PROVE  LET back == {r \in Sales \X Dates : r[1] = o /\ returns[o][r[2]] > 0}
           IN  SumOf(CostBack, back) = Ticket[o].cost * RefundedUnits(o)
  <1> DEFINE back == {r \in Sales \X Dates : r[1] = o /\ returns[o][r[2]] > 0}
             key == [r \in Sales \X Dates |-> r[2]]
             col == [d \in Dates |-> {r \in back : r[2] = d}]
             units == returns[o]
             h == [d \in Dates |-> Ticket[o].cost * units[d]]
  <1>1. IsFiniteSet(Dates) /\ units \in [Dates -> Nat] /\ Ticket[o].cost \in Int
    BY DatesAreDays, TicketFields DEF ReportTypeOK
  <1>2. IsFiniteSet(back) /\ \A r \in back : CostBack[r] \in Int /\ key[r] \in Dates
    <2>1. IsFiniteSet(Sales \X Dates)
      BY ReportAssumption, DatesAreDays, FS_Product
    <2>2. back \in SUBSET (Sales \X Dates)
      OBVIOUS
    <2>3. \A r \in back : CostBack[r] \in Int
      BY <2>2, RefundRows
    <2>4. \A r \in back : key[r] \in Dates
      OBVIOUS
    <2> HIDE DEF back, key
    <2> QED
      BY <2>1, <2>2, <2>3, <2>4, FS_Subset
  <1>3. \A d \in Dates : col[d] \in SUBSET back /\ \A r \in back : r \in col[d] <=> key[r] = d
    OBVIOUS
  <1>4. \A d \in Dates : h[d] = SumFunctionOnSet(CostBack, col[d])
    <2>1. SUFFICES ASSUME NEW d \in Dates PROVE h[d] = SumFunctionOnSet(CostBack, col[d])
      OBVIOUS
    <2>2. CASE units[d] > 0
      <3>1. <<o, d>> \in Sales \X Dates /\ CostBack[<<o, d>>] = h[d] /\ h[d] \in Int
        <4>1. h[d] \in Int
          BY <1>1
        <4> QED
          BY <4>1 DEF CostBack, UnitsBack
      <3>2. col[d] = {<<o, d>>}
        BY <2>2
      <3> HIDE DEF col, h, units
      <3> QED
        BY <3>1, <3>2, SumOfOne
    <2>3. CASE ~(units[d] > 0)
      <3>1. col[d] = {}
        BY <2>3
      <3>2. units[d] = 0
        BY <1>1, <2>3
      <3>3. h[d] = 0
        BY <1>1, <3>2
      <3> HIDE DEF col, h, units
      <3> QED
        BY <3>1, <3>3, SumEmpty
    <2> QED
      BY <2>2, <2>3
  <1>5. \A d \in Dates : units[d] \in Int /\ h[d] = Ticket[o].cost * units[d]
    BY <1>1
  <1> HIDE DEF back, key, col, units, h
  <1>6. SumFunctionOnSet(h, Dates) = SumFunctionOnSet(CostBack, back)
    BY <1>1, <1>2, <1>3, <1>4, SumByColumn
  <1>7. SumFunctionOnSet(h, Dates) = Ticket[o].cost * SumFunctionOnSet(units, Dates)
    BY <1>1, <1>5, SumTimes
  <1> QED
    BY <1>6, <1>7 DEF SumOf, RefundedUnits, back, units

\* More units of the same cost do not cost less.
LEMMA MoreCostsMore ==
    ASSUME NEW c \in Nat, NEW m \in Nat, NEW n \in Nat, m <= n
    PROVE  c * m <= c * n
  <1>1. PICK k \in Nat : n = m + k
    <2>1. n - m \in Nat /\ n = m + (n - m)
      OBVIOUS
    <2> QED
      BY <2>1
  <1>2. c * n = c * m + c * k
    BY <1>1, Distributes
  <1>3. c * m \in Nat /\ c * k \in Nat
    OBVIOUS
  <1> QED
    BY <1>2, <1>3

\* No more cost comes back than was spent, in whatever window.
LEMMA CostsAreCovered ==
    ASSUME ReportTypeOK, NEW w, NEW shop
    PROVE  NetCost(w, shop) \in Nat
  <1> DEFINE R == RefundsOffCost(w, shop)
             K == Costed(w, shop)
             key == [r \in Sales \X Dates |-> r[1]]
             col == [o \in K |-> {r \in Sales \X Dates : r[1] = o /\ returns[o][r[2]] > 0}]
             h == [o \in K |-> Ticket[o].cost * RefundedUnits(o)]
  <1>1. IsFiniteSet(R) /\ IsFiniteSet(K) /\ R \in SUBSET (Sales \X Dates)
    BY RefundRows, SoldOrders, FS_Subset DEF Costed
  <1>2. \A r \in R : CostBack[r] \in Int /\ key[r] = r[1] /\ r[1] \in K
    BY <1>1, RefundRows DEF RefundsOffCost, Costed
  <1>3. \A o \in K : col[o] \in SUBSET R /\ \A r \in R : r \in col[o] <=> key[r] = o
    <2>1. \A o \in K : o \in SoldIn(w, shop) /\ KnownCost(o)
      BY DEF Costed
    <2> QED
      BY <2>1 DEF RefundsOffCost
  <1>4. \A o \in K : /\ o \in Sales /\ h[o] \in Int /\ CostOf[o] \in Int /\ h[o] <= CostOf[o]
    <2>1. SUFFICES ASSUME NEW o \in K
                   PROVE  o \in Sales /\ h[o] \in Int /\ CostOf[o] \in Int /\ h[o] <= CostOf[o]
      OBVIOUS
    <2>2. o \in Sales /\ KnownCost(o)
      BY SoldOrders DEF Costed
    <2>3. Ticket[o].cost \in Nat /\ Ticket[o].quantity \in Nat
      BY <2>2, TicketFields
    <2>4. RefundedUnits(o) \in 0..Ticket[o].quantity
      BY <2>2 DEF ReportTypeOK
    <2>5. /\ Ticket[o].cost * RefundedUnits(o) <= Ticket[o].cost * Ticket[o].quantity
          /\ Ticket[o].cost * RefundedUnits(o) \in Int
          /\ Ticket[o].cost * Ticket[o].quantity \in Int
      <3> DEFINE c == Ticket[o].cost
                 m == RefundedUnits(o)
                 n == Ticket[o].quantity
      <3>1. c \in Nat /\ m \in Nat /\ n \in Nat /\ m <= n
        BY <2>3, <2>4
      <3> HIDE DEF c, m, n
      <3>2. c * m <= c * n
        BY <3>1, MoreCostsMore
      <3>3. c * m \in Int /\ c * n \in Int
        BY <3>1
      <3> QED
        BY <3>2, <3>3 DEF c, m, n
    <2> QED
      BY <2>2, <2>5 DEF CostOf
  <1>5. \A o \in K : h[o] = SumFunctionOnSet(CostBack, col[o])
    BY <1>4, OrderCostBack DEF SumOf
  <1>6. NetCost(w, shop) = SumFunctionOnSet(CostOf, K) - SumFunctionOnSet(CostBack, R)
    BY DEF NetCost, SumOf
  <1> HIDE DEF R, K, key, col, h
  <1>7. SumFunctionOnSet(h, K) = SumFunctionOnSet(CostBack, R)
    BY <1>1, <1>2, <1>3, <1>5, SumByColumn
  <1>8. SumFunctionOnSet(h, K) <= SumFunctionOnSet(CostOf, K)
    <2>1. \A o \in K : ValueIn(h, K, o) <= ValueIn(CostOf, K, o)
      BY <1>4 DEF ValueIn
    <2> QED
      BY <1>1, <1>4, <2>1, SumCompare
  <1>9. SumFunctionOnSet(h, K) \in Int /\ SumFunctionOnSet(CostOf, K) \in Int
    BY <1>1, <1>4, SumType
  <1> QED
    BY <1>6, <1>7, <1>8, <1>9

\* The parts of the summary are whole numbers.
LEMMA AmountsAreWhole ==
    ASSUME ReportTypeOK, NEW w, NEW shop
    PROVE  /\ Revenue(w, shop) \in Int /\ Refunded(w, shop) \in Int
           /\ SumOf(CostOf, Costed(w, shop)) \in Int
           /\ SumOf(CostBack, RefundsOffCost(w, shop)) \in Int
           /\ \A o \in SoldIn(w, shop) : o \in Sales /\ TotalOf[o] \in Int /\ CostOf[o] \in Int
  <1>1. \A o \in SoldIn(w, shop) : o \in Sales /\ TotalOf[o] \in Int /\ CostOf[o] \in Int
    BY SoldOrders, TicketFields
  <1>2. /\ IsFiniteSet(SoldIn(w, shop)) /\ IsFiniteSet(Costed(w, shop))
        /\ \A o \in Costed(w, shop) : CostOf[o] \in Int
    BY <1>1, SoldOrders, FS_Subset DEF Costed
  <1>3. Revenue(w, shop) \in Int /\ SumOf(CostOf, Costed(w, shop)) \in Int
    BY <1>1, <1>2, SumType DEF Revenue, SumOf
  <1>4. /\ \A r \in RefundsOffRevenue(w, shop) : PriceBack[r] \in Int
        /\ \A r \in RefundsOffCost(w, shop) : CostBack[r] \in Int
    BY RefundRows
  <1>5. Refunded(w, shop) \in Int /\ SumOf(CostBack, RefundsOffCost(w, shop)) \in Int
    BY <1>4, RefundRows, SumType DEF Refunded, SumOf
  <1> QED
    BY <1>1, <1>3, <1>5

\* The days' net revenue, cost and margin add up to the whole time's.
LEMMA DaysAgree ==
    ASSUME ReportTypeOK
    PROVE  LET whole == SalesSummary(EverySale, AllShops)
           IN  \A column \in {"net", "cogs", "margin"} :
                  whole[column] = Total([d \in Dates |-> SalesSummary(OneDay(d), AllShops)[column]])
  <1> DEFINE revenue == [d \in Dates |-> Revenue(OneDay(d), AllShops)]
             refunds == [d \in Dates |-> Refunded(OneDay(d), AllShops)]
             spent == [d \in Dates |-> SumOf(CostOf, Costed(OneDay(d), AllShops))]
             back == [d \in Dates |-> SumOf(CostBack, RefundsOffCost(OneDay(d), AllShops))]
             net == [d \in Dates |-> SalesSummary(OneDay(d), AllShops)["net"]]
             cogs == [d \in Dates |-> SalesSummary(OneDay(d), AllShops)["cogs"]]
             margin == [d \in Dates |-> SalesSummary(OneDay(d), AllShops)["margin"]]
             whole == SalesSummary(EverySale, AllShops)
  <1>1. \A d \in Dates : /\ revenue[d] \in Int /\ refunds[d] \in Int /\ spent[d] \in Int /\ back[d] \in Int
                         /\ net[d] = revenue[d] - refunds[d]
                         /\ cogs[d] = spent[d] - back[d]
                         /\ margin[d] = net[d] - cogs[d]
    <2>1. SUFFICES ASSUME NEW d \in Dates
                   PROVE  /\ revenue[d] \in Int /\ refunds[d] \in Int /\ spent[d] \in Int /\ back[d] \in Int
                          /\ net[d] = revenue[d] - refunds[d]
                          /\ cogs[d] = spent[d] - back[d]
                          /\ margin[d] = net[d] - cogs[d]
      OBVIOUS
    <2>2. /\ revenue[d] \in Int /\ refunds[d] \in Int /\ spent[d] \in Int /\ back[d] \in Int
          /\ NetCost(OneDay(d), AllShops) = spent[d] - back[d]
      BY AmountsAreWhole DEF NetCost
    <2>3. /\ net[d] = revenue[d] - refunds[d]
          /\ cogs[d] = IF NetCost(OneDay(d), AllShops) > 0 THEN NetCost(OneDay(d), AllShops) ELSE 0
          /\ margin[d] = revenue[d] - refunds[d] - cogs[d]
      BY SummaryParts
    <2>4. NetCost(OneDay(d), AllShops) \in Nat
      BY CostsAreCovered
    <2> HIDE DEF revenue, refunds, spent, back, net, cogs, margin
    <2> QED
      BY <2>2, <2>3, <2>4
  <1>2. /\ whole["net"] = Revenue(EverySale, AllShops) - Refunded(EverySale, AllShops)
        /\ whole["cogs"] = NetCost(EverySale, AllShops)
        /\ whole["margin"] = whole["net"] - whole["cogs"]
    <2>1. NetCost(EverySale, AllShops) \in Nat
      BY CostsAreCovered
    <2> QED
      BY <2>1, SummaryParts
  <1>3. /\ Total(net) = SumFunctionOnSet(net, Dates) /\ Total(cogs) = SumFunctionOnSet(cogs, Dates)
        /\ Total(margin) = SumFunctionOnSet(margin, Dates) /\ IsFiniteSet(Dates)
    BY DatesAreDays DEF Total, SumOf
  <1>4. SumFunctionOnSet(revenue, Dates) = Revenue(EverySale, AllShops)
    <2> DEFINE A == SoldIn(EverySale, AllShops)
    <2>1. /\ A \in SUBSET SoldIn(EverySale, AllShops) /\ \A o \in A : TotalOf[o] \in Int
          /\ Revenue(EverySale, AllShops) = SumOf(TotalOf, A)
      BY AmountsAreWhole DEF Revenue
    <2>2. \A d \in Dates : revenue[d] = SumOf(TotalOf, A \cap SoldIn(OneDay(d), AllShops))
      <3>1. \A d \in Dates : A \cap SoldIn(OneDay(d), AllShops) = SoldIn(OneDay(d), AllShops)
        BY SoldOrders, WindowDays DEF SoldIn
      <3> QED
        BY <3>1 DEF Revenue
    <2> HIDE DEF A, revenue
    <2> QED
      BY <2>1, <2>2, OrdersByDay DEF SumOf
  <1>5. SumFunctionOnSet(spent, Dates) = SumOf(CostOf, Costed(EverySale, AllShops))
    <2> DEFINE A == Costed(EverySale, AllShops)
    <2>1. A \in SUBSET SoldIn(EverySale, AllShops) /\ \A o \in A : CostOf[o] \in Int
      BY AmountsAreWhole DEF Costed
    <2>2. \A d \in Dates : spent[d] = SumOf(CostOf, A \cap SoldIn(OneDay(d), AllShops))
      <3>1. \A d \in Dates : A \cap SoldIn(OneDay(d), AllShops) = Costed(OneDay(d), AllShops)
        BY SoldOrders, WindowDays DEF SoldIn, Costed
      <3> QED
        BY <3>1
    <2> HIDE DEF A, spent
    <2>3. SumOf(spent, Dates) = SumOf(CostOf, A)
      BY <2>1, <2>2, OrdersByDay
    <2> QED
      BY <2>3 DEF SumOf, A
  <1>6. SumFunctionOnSet(refunds, Dates) = Refunded(EverySale, AllShops)
    <2>1. \A d \in Dates : refunds[d] = Refunded(OneDay(d), AllShops)
      OBVIOUS
    <2> HIDE DEF refunds
    <2> QED
      BY <2>1, RefundsByDay DEF SumOf
  <1>7. SumFunctionOnSet(back, Dates) = SumOf(CostBack, RefundsOffCost(EverySale, AllShops))
    <2>1. \A d \in Dates : back[d] = SumOf(CostBack, RefundsOffCost(OneDay(d), AllShops))
      OBVIOUS
    <2> HIDE DEF back
    <2>2. SumOf(back, Dates) = SumOf(CostBack, RefundsOffCost(EverySale, AllShops))
      BY <2>1, CostRefundsByDay
    <2> QED
      BY <2>2 DEF SumOf
  <1> HIDE DEF revenue, refunds, spent, back, net, cogs, margin, whole
  <1>8. /\ SumFunctionOnSet(net, Dates)
             = SumFunctionOnSet(revenue, Dates) - SumFunctionOnSet(refunds, Dates)
        /\ SumFunctionOnSet(cogs, Dates) = SumFunctionOnSet(spent, Dates) - SumFunctionOnSet(back, Dates)
    BY <1>1, <1>3, SumMinus
  <1>9. SumFunctionOnSet(margin, Dates) = SumFunctionOnSet(net, Dates) - SumFunctionOnSet(cogs, Dates)
    <2>1. \A d \in Dates : net[d] \in Int /\ cogs[d] \in Int /\ margin[d] = net[d] - cogs[d]
      BY <1>1
    <2> QED
      BY <1>3, <2>1, SumMinus
  <1>10. whole["net"] = Total(net) /\ whole["cogs"] = Total(cogs) /\ whole["margin"] = Total(margin)
    BY <1>2, <1>3, <1>4, <1>5, <1>6, <1>7, <1>8, <1>9 DEF NetCost
  <1> QED
    BY <1>10 DEF net, cogs, margin, whole

\* The shops' net revenue adds up to the panel's.
LEMMA ShopsAgree ==
    ASSUME ReportTypeOK
    PROVE  PanelPage(EverySale).sales.net
             = Total([shop \in ReportedShops |-> Dashboard(EverySale, shop).sales.net])
  <1> DEFINE S == SoldIn(EverySale, AllShops)
             R == RefundsOffRevenue(EverySale, AllShops)
             K == ReportedShops
             net == [shop \in K |-> Dashboard(EverySale, shop).sales.net]
             revenue == [shop \in K |-> Revenue(EverySale, shop)]
             refunds == [shop \in K |-> Refunded(EverySale, shop)]
             shopOf == [o \in Sales |-> Ticket[o].shop]
             backTo == [r \in Sales \X Dates |-> Ticket[r[1]].shop]
             sold == [shop \in K |-> SoldIn(EverySale, shop)]
             back == [shop \in K |-> RefundsOffRevenue(EverySale, shop)]
  <1>1. IsFiniteSet(K)
    <2>1. IsFiniteSet(Sales)
      BY ReportAssumption
    <2>2. K = {shopOf[o] : o \in Sales}
      BY DEF ReportedShops
    <2> HIDE DEF K, shopOf
    <2> QED
      BY <2>1, <2>2, FiniteImage
  <1>2. \A o \in Sales : shopOf[o] = Ticket[o].shop /\ Ticket[o].shop \in K
    BY DEF ReportedShops
  <1>3. AllShops \notin K
    BY TicketFields DEF ReportedShops
  <1>4. \A shop \in K : /\ revenue[shop] \in Int /\ refunds[shop] \in Int
                        /\ net[shop] = revenue[shop] - refunds[shop]
    BY AmountsAreWhole, SummaryParts DEF Dashboard
  <1>5. PanelPage(EverySale).sales.net = Revenue(EverySale, AllShops) - Refunded(EverySale, AllShops)
    BY SummaryParts DEF PanelPage
  <1>6. SumFunctionOnSet(revenue, K) = SumFunctionOnSet(TotalOf, S)
    <2>1. IsFiniteSet(S) /\ \A o \in S : o \in Sales /\ TotalOf[o] \in Int
      BY SoldOrders, AmountsAreWhole
    <2>2. \A o \in S : shopOf[o] \in K
      BY <1>2, <2>1
    <2>3. \A shop \in K : sold[shop] \in SUBSET S /\ \A o \in S : o \in sold[shop] <=> shopOf[o] = shop
      BY <1>2, <1>3 DEF SoldIn, OfShop
    <2>4. \A shop \in K : revenue[shop] = SumFunctionOnSet(TotalOf, sold[shop])
      BY DEF Revenue, SumOf
    <2> HIDE DEF S, K, sold, revenue, shopOf
    <2> QED
      BY <1>1, <2>1, <2>2, <2>3, <2>4, SumByColumn
  <1>7. SumFunctionOnSet(refunds, K) = SumFunctionOnSet(PriceBack, R)
    <2>1. IsFiniteSet(R) /\ R \in SUBSET (Sales \X Dates)
      BY RefundRows
    <2>2. \A r \in R : r[1] \in Sales /\ PriceBack[r] \in Int /\ backTo[r] = Ticket[r[1]].shop
      BY <2>1, RefundRows
    <2>3. \A r \in R : backTo[r] \in K /\ PriceBack[r] \in Int
      BY <1>2, <2>2
    <2>4. \A shop \in K : back[shop] \in SUBSET R /\ \A r \in R : r \in back[shop] <=> backTo[r] = shop
      BY <1>3, <2>2 DEF RefundsOffRevenue, OfShop
    <2>5. \A shop \in K : refunds[shop] = SumFunctionOnSet(PriceBack, back[shop])
      BY DEF Refunded, SumOf
    <2>6. IsFiniteSet(R)
      BY <2>1
    <2> HIDE DEF R, K, back, refunds, backTo
    <2> QED
      BY <1>1, <2>3, <2>4, <2>5, <2>6, SumByColumn
  <1>8. Total(net) = SumFunctionOnSet(net, K)
    BY DEF Total, SumOf
  <1>9. /\ Revenue(EverySale, AllShops) = SumFunctionOnSet(TotalOf, S)
        /\ Refunded(EverySale, AllShops) = SumFunctionOnSet(PriceBack, R)
    BY DEF Revenue, Refunded, SumOf
  <1> HIDE DEF S, R, K, net, revenue, refunds, sold, back, shopOf, backTo
  <1>10. SumFunctionOnSet(net, K) = SumFunctionOnSet(revenue, K) - SumFunctionOnSet(refunds, K)
    BY <1>1, <1>4, SumMinus
  <1>11. PanelPage(EverySale).sales.net = Total(net)
    BY <1>5, <1>6, <1>7, <1>8, <1>9, <1>10
  <1> QED
    BY <1>11 DEF net, K

\* Over all time the refunds off the cost are those off the revenue.
LEMMA MarginsAgree ==
    ASSUME ReportTypeOK, NEW shop
    PROVE  MarginOverSameOrders(EverySale, shop)
  <1>1. \A r \in Sales \X Dates : /\ r[1] \in Sales /\ Within(r[2], EverySale)
                                  /\ Within(soldOrders[r[1]].day, EverySale)
    BY WindowDays DEF ReportTypeOK
  <1>2. \A r \in Sales \X Dates :
           r \in RefundsOffCost(EverySale, shop)
             <=> r \in RefundsOffRevenue(EverySale, shop) /\ KnownCost(r[1])
    BY <1>1 DEF RefundsOffCost, RefundsOffRevenue, SoldIn
  <1> QED
    BY <1>2, RefundRows DEF MarginOverSameOrders

\* Books of the right type give reports that agree.
LEMMA BooksGiveAgreement == ReportTypeOK => ReportsAgree
  <1> SUFFICES ASSUME ReportTypeOK PROVE ReportsAgree
    OBVIOUS
  <1>1. EverythingAgrees
    BY DaysAgree, ShopsAgree, MarginsAgree, VariancesAgree DEF EverythingAgrees
  <1> QED
    BY <1>1, BillReportsAgree, SalesReportsAgree DEF ReportsAgree

\* The books have their types, and of no order more units come back than were sold: a
\* refund is one unit of an order that still has one.
THEOREM BooksTypeCorrect == ReportSpec => []ReportTypeOK
  <1>1. ReportInit => ReportTypeOK
    BY BooksBegin
  <1>2. ReportTypeOK /\ [ReportNext]_reportVars => ReportTypeOK'
    BY ReportNextKeeps
  <1> QED
    BY <1>1, <1>2, PTL DEF ReportSpec

\* The reports agree with each other over every window, whatever was sold, returned,
\* billed, paid and closed, in whatever order and at whatever prices, discounts and taxes:
\* each report's rows are the columns of one sum over the same books.
THEOREM ReportsAlwaysAgree == ReportSpec => []ReportsAgree
  <1>1. ReportTypeOK => ReportsAgree
    BY BooksGiveAgreement
  <1> QED
    BY <1>1, BooksTypeCorrect, PTL

\* The same, as TLC checks it: on every history but the empty one.
THEOREM ReportsAreConsistent == ReportSpec => []ReportsAgreeOnHistory
  <1>1. ReportsAgree => ReportsAgreeOnHistory
    BY DEF ReportsAgreeOnHistory
  <1> QED
    BY <1>1, ReportsAlwaysAgree, PTL
=============================================================================
