---------------------------- MODULE ServingBoard ----------------------------
(***************************************************************************)
(* Paid orders on their way to the customer: the kitchen's serving states, *)
(* the trip's tracking states and location pings, and the hub that pushes  *)
(* every change to the boards of the tenant over Server-Sent Events.       *)
(* A change commits first and is published afterwards, by whichever thread *)
(* comes first; a board's queue is bounded and drops its oldest event.     *)
(***************************************************************************)
EXTENDS Naturals, Sequences

CONSTANTS
    Orders,
    Addressed,   \* those with a destination
    Staff,       \* requests of the kitchen, the drivers and the tills
    Processes,   \* the uvicorn workers
    Boards,      \* SSE connections,
    ServedBy,    \* each with the worker that serves it
    Capacity,    \* maxsize of a board's queue
    NoOrder,
    MaxComing,   \* bounds: events on the way to a board,
    MaxFetches   \* and its fetches under way

ASSUME ServingBoardAssumption ==
    /\ Addressed \subseteq Orders /\ NoOrder \notin Orders
    /\ ServedBy \in [Boards -> Processes]
    /\ Capacity \in Nat \ {0} /\ MaxComing \in Nat /\ MaxFetches \in Nat

VARIABLES
    orders,   \* status, serving_status, tracking_status
    staff,    \* each request: the order it has locked, and what it read of it
    boards    \* the kitchen's screens, with the hub's queue of each

boardVars == <<orders, staff, boards>>

ServingStates == {"none", "queued", "preparing", "ready", "served"}
TrackingStates == {"none", "assigned", "en_route", "on_site"}

Unseen == [status |-> "pending", serving |-> "none", tracking |-> "none"]
Idler == [stage |-> "idle", order |-> NoOrder, read |-> Unseen]
Dark == [link |-> "off", coming |-> 0, queue |-> 0, asks |-> 0, answers |-> <<>>,
         shown |-> [o \in Orders |-> "none"], doubts |-> {"off_air"}]

OrderRows == [status : {"pending", "serving", "completed", "cancelled"},
              serving : ServingStates, tracking : TrackingStates]

\* Why an answer may be older than what the board was told of: one read after it
\* arrived before it, a change was published on another worker since it was read, or
\* it was read or shown while the stream was not on.
Doubts == {"overtaken", "elsewhere", "off_air"}

\* What get_serving_queue said.
QueueAnswers == [queue : [Orders -> ServingStates], doubts : SUBSET Doubts]

BoardTypeOK ==
    /\ orders \in [Orders -> OrderRows]
    /\ staff \in [Staff -> [stage : {"idle", "holding", "publishing"},
                            order : Orders \cup {NoOrder}, read : OrderRows]]
    /\ boards \in [Boards -> [link : {"off", "connecting", "on"},
                              coming : 0..MaxComing, queue : 0..Capacity,
                              asks : 0..MaxFetches, answers : Seq(QueueAnswers),
                              shown : [Orders -> ServingStates], doubts : SUBSET Doubts]]
    /\ \A b \in Boards : boards[b].asks + Len(boards[b].answers) <= MaxFetches

BoardInit ==
    /\ orders = [o \in Orders |-> Unseen]
    /\ staff = [s \in Staff |-> Idler]
    /\ boards = [b \in Boards |-> Dark]

Holding(s) == staff[s].stage = "holding"
Locked(o) == \E s \in Staff : Holding(s) /\ staff[s].order = o

\* Mutant: the order is read without FOR UPDATE.
LoadOrderUnlocked(s, o) ==
    /\ staff[s].stage = "idle"
    /\ staff' = [staff EXCEPT ![s] = [stage |-> "holding", order |-> o, read |-> orders[o]]]
    /\ UNCHANGED <<orders, boards>>

\* _load_order: SELECT ... FOR UPDATE.
LoadOrder(s, o) ==
    /\ staff[s].stage = "idle" /\ ~Locked(o)
    /\ staff' = [staff EXCEPT ![s] = [stage |-> "holding", order |-> o, read |-> orders[o]]]
    /\ UNCHANGED <<orders, boards>>

\* The request is refused and its transaction rolled back.
Reject(s) ==
    /\ Holding(s)
    /\ staff' = [staff EXCEPT ![s] = Idler]
    /\ UNCHANGED <<orders, boards>>

\* A change commits, which gives up the lock; it is published later.
CommitAndPublish(s, change) ==
    /\ orders' = [orders EXCEPT ![staff[s].order] = change]
    /\ staff' = [staff EXCEPT ![s].stage = "publishing"]

\* A till's change commits; the hub is not told of it.
CommitSilently(s, change) ==
    /\ orders' = [orders EXCEPT ![staff[s].order] = change]
    /\ staff' = [staff EXCEPT ![s] = Idler]
    /\ UNCHANGED boards

\* _complete_order_if_paid: the order enters the queue.
Pay(s) ==
    /\ Holding(s) /\ staff[s].read.status = "pending"
    /\ CommitSilently(s, [staff[s].read EXCEPT !.status = "serving", !.serving = "queued"])

\* cancel_order takes paid orders too and leaves their serving and tracking status.
Cancel(s) ==
    /\ Holding(s) /\ staff[s].read.status # "cancelled"
    /\ CommitSilently(s, [staff[s].read EXCEPT !.status = "cancelled"])

\* _ALLOWED_TRANSITIONS of the two machines.
ServingSteps == {<<"queued", "preparing">>, <<"preparing", "ready">>,
                 <<"preparing", "served">>, <<"ready", "served">>}

TrackingSteps(o) ==
    (IF o \in Addressed THEN {<<"none", "assigned">>} ELSE {})
    \cup {<<"assigned", "en_route">>, <<"en_route", "on_site">>}

\* transition_serving_status: what is served is completed.
TransitionServing(s, state) ==
    LET read == staff[s].read
    IN  /\ Holding(s) /\ read.status = "serving" /\ <<read.serving, state>> \in ServingSteps
        /\ CommitAndPublish(s, [read EXCEPT
              !.serving = state, !.status = IF state = "served" THEN "completed" ELSE @])
        /\ UNCHANGED boards

\* transition_tracking_status.
TransitionTracking(s, state) ==
    LET read == staff[s].read
    IN  /\ Holding(s) /\ read.status = "serving"
        /\ <<read.tracking, state>> \in TrackingSteps(staff[s].order)
        /\ CommitAndPublish(s, [read EXCEPT !.tracking = state])
        /\ UNCHANGED boards

\* report_location looks at the tracking status only, not at the order's; the
\* location it appends is read by nothing modelled here.
ReportLocation(s) ==
    /\ Holding(s) /\ staff[s].read.tracking # "none"
    /\ staff' = [staff EXCEPT ![s].stage = "publishing"]
    /\ UNCHANGED <<orders, boards>>

\* get_serving_queue: the state of each order in the queue, "none" of the others.
ServingQueue ==
    [o \in Orders |-> IF orders[o].status = "serving"
                         /\ orders[o].serving \in {"queued", "preparing", "ready"}
                      THEN orders[o].serving ELSE "none"]
-----------------------------------------------------------------------------
(* The hub; what an event says does not matter to a board, only that it came *)

Live(b) == boards[b].link = "on"

OffAir(b) == IF Live(b) THEN {} ELSE {"off_air"}

Doubted(answer, why) == [answer EXCEPT !.doubts = @ \cup {why}]

\* Mutant: nothing is published.
PublishToNobody(s, w) ==
    /\ staff[s].stage = "publishing"
    /\ staff' = [staff EXCEPT ![s] = Idler]
    /\ UNCHANGED <<orders, boards>>

\* publish: a full queue gives up its oldest event, in the publisher's thread;
\* the new one is handed to the event loop.  The hub is in-process: boards on
\* another worker hear nothing, whatever they show or are about to.
Publish(s, w) ==
    /\ staff[s].stage = "publishing"
    /\ \A b \in Boards : boards[b].coming < MaxComing
    /\ boards' = [b \in Boards |->
                    IF ~Live(b) THEN boards[b]
                    ELSE IF ServedBy[b] = w
                    THEN [boards[b] EXCEPT !.coming = @ + 1,
                                           !.queue = IF @ = Capacity THEN @ - 1 ELSE @]
                    ELSE [boards[b] EXCEPT
                            !.doubts = @ \cup {"elsewhere"},
                            !.answers = [i \in DOMAIN @ |-> Doubted(@[i], "elsewhere")]]]
    /\ staff' = [staff EXCEPT ![s] = Idler]
    /\ UNCHANGED orders

\* Mutant: the queue is looked at in the publisher's thread only.
RunCallbackUnchecked(b) ==
    /\ boards[b].coming > 0
    /\ boards' = [boards EXCEPT ![b].coming = @ - 1, ![b].queue = @ + 1]
    /\ UNCHANGED <<orders, staff>>

\* call_soon_threadsafe: the event is queued, or lost to QueueFull when other
\* publishers have filled the queue since it was looked at.
RunCallback(b) ==
    /\ boards[b].coming > 0
    /\ boards' = [boards EXCEPT ![b].coming = @ - 1,
                                ![b].queue = IF @ < Capacity THEN @ + 1 ELSE @]
    /\ UNCHANGED <<orders, staff>>
-----------------------------------------------------------------------------
(* The boards *)

MayAsk(b) == boards[b].asks + Len(boards[b].answers) < MaxFetches

\* _subscribe opens the stream and asks for the queue at once.
OpenBoard(b) ==
    /\ boards[b].link = "off" /\ MayAsk(b)
    /\ boards' = [boards EXCEPT ![b].link = "connecting", ![b].asks = @ + 1]
    /\ UNCHANGED <<orders, staff>>

\* ServingHub.subscribe, when the server comes to the stream's request.
Subscribe(b) ==
    /\ boards[b].link = "connecting"
    /\ boards' = [boards EXCEPT ![b].link = "on"]
    /\ UNCHANGED <<orders, staff>>

\* The stream breaks: what it held is gone, and the board polls.
Unsubscribe(b) ==
    /\ boards[b].link # "off"
    /\ boards' = [boards EXCEPT ![b].link = "off", ![b].coming = 0, ![b].queue = 0,
                                ![b].doubts = @ \cup {"off_air"}]
    /\ UNCHANGED <<orders, staff>>

Poll(b) ==
    /\ boards[b].link = "off" /\ MayAsk(b)
    /\ boards' = [boards EXCEPT ![b].asks = @ + 1]
    /\ UNCHANGED <<orders, staff>>

\* Every event makes the board ask for the queue again.
Drain(b) ==
    /\ boards[b].queue > 0 /\ MayAsk(b)
    /\ boards' = [boards EXCEPT ![b].queue = @ - 1, ![b].asks = @ + 1]
    /\ UNCHANGED <<orders, staff>>

ReadQueue(b) ==
    /\ boards[b].asks > 0
    /\ boards' = [boards EXCEPT ![b].asks = @ - 1,
                    ![b].answers = Append(@, [queue |-> ServingQueue, doubts |-> OffAir(b)])]
    /\ UNCHANGED <<orders, staff>>

\* The board shows whichever answer arrives, not always in the order the server
\* gave them.
ShowQueue(b, i) ==
    LET answers == boards[b].answers
    IN  /\ i \in DOMAIN answers
        /\ boards' = [boards EXCEPT
              ![b].shown = answers[i].queue,
              ![b].doubts = answers[i].doubts \cup OffAir(b),
              ![b].answers = [j \in 1..(Len(answers) - 1) |->
                                 IF j < i THEN Doubted(answers[j], "overtaken")
                                 ELSE answers[j + 1]]]
        /\ UNCHANGED <<orders, staff>>

StaffNext(s) ==
    \/ \E o \in Orders : LoadOrder(s, o)
    \/ Pay(s) \/ Cancel(s)
    \/ \E state \in ServingStates : TransitionServing(s, state)
    \/ \E state \in TrackingStates : TransitionTracking(s, state)
    \/ Reject(s) \/ ReportLocation(s)
    \/ \E w \in Processes : Publish(s, w)

ScreenNext(b) ==
    \/ RunCallback(b) \/ Drain(b) \/ ReadQueue(b)
    \/ OpenBoard(b) \/ Subscribe(b) \/ Unsubscribe(b) \/ Poll(b)
    \/ \E i \in 1..MaxFetches : ShowQueue(b, i)

BoardNext == (\E s \in Staff : StaffNext(s)) \/ (\E b \in Boards : ScreenNext(b))

BoardSpec == BoardInit /\ [][BoardNext]_boardVars
-----------------------------------------------------------------------------
\* services/tracking.py: tracked orders are paid orders, and the list of active
\* trips shows every tracked order: none of them is cancelled.
TrackedOrdersArePaid ==
    \A o \in Orders :
        orders[o].tracking # "none" => orders[o].status \in {"serving", "completed"}

\* However the kitchen, the drivers and the tills overlap, only a paid order is
\* prepared or driven out, one allowed step at a time and never backwards; served
\* and completed go together, and a cancelled order is never revived.
ForwardOnly ==
    [][\A o \in Orders :
          LET old == orders[o]
              new == orders'[o]
          IN  /\ new.serving # old.serving =>
                    \/ old.status = "pending" /\ new.serving = "queued"
                    \/ old.status = "serving" /\ <<old.serving, new.serving>> \in ServingSteps
              /\ new.tracking # old.tracking =>
                    old.status = "serving" /\ <<old.tracking, new.tracking>> \in TrackingSteps(o)
              /\ new.status = "completed" => new.serving = "served"
              /\ old.status = "cancelled" => new = old]_boardVars

\* A live board to which nothing is on its way shows every order as it is, although
\* changes are published after their commit and outside the lock and events are
\* dropped when its queue is full: it can lack only orders paid, and show only orders
\* cancelled, since it last asked, which no event announces.  Nothing is said of a
\* board that shows, until the next event makes it ask again,
\*   - an answer that another, read later, overtook;
\*   - an answer since which another worker published a change; or
\*   - an answer read or shown while the board's stream was not on.
Quiet(b) == /\ boards[b].coming = 0 /\ boards[b].queue = 0
            /\ boards[b].asks = 0 /\ boards[b].answers = <<>>
            /\ \A s \in Staff : staff[s].stage # "publishing"

QuietBoardsAreCurrent ==
    \A b \in Boards : Live(b) /\ Quiet(b) /\ boards[b].doubts = {}
        => \A o \in Orders :
              \/ boards[b].shown[o] = ServingQueue[o]
              \/ boards[b].shown[o] = "none" /\ ServingQueue[o] = "queued"
              \/ orders[o].status = "cancelled"
=============================================================================
