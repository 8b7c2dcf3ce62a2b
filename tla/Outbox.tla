------------------------------- MODULE Outbox -------------------------------
(***************************************************************************)
(* The till: the checkout sheet and the outbox that replays what the sheet *)
(* could not finish, against the two requests a sale needs of the server   *)
(* (create the order, then pay it).  Requests and answers get lost, the    *)
(* till takes a slow server for a dead one, and a request it no longer     *)
(* waits for may still take effect.  The way of payment is read again for  *)
(* every request that pays.                                                *)
(***************************************************************************)
EXTENDS Integers, FiniteSets

CONSTANTS
    Tickets,   \* sales rung up, each with its order key and payment key
    Ways,      \* what each may hand over in cash and by card
    Totals,    \* what the server may make of each, by its promotion code and points
    Posts,     \* bound: requests in the server at once
    NoTicket,
    MaxFaults  \* bound: timeouts and crashes of the till

ASSUME OutboxAssumption ==
    /\ \A t \in Tickets :
          /\ Ways[t] \subseteq [cash : Nat, card : Nat] /\ Ways[t] # {} /\ Totals[t] \subseteq Int
          /\ \A way \in Ways[t] : way.cash + way.card > 0
    /\ NoTicket \notin Tickets /\ MaxFaults \in Nat

VARIABLES
    place,     \* where each sale is on the till: its sheet, its outbox row, or done
    waits,     \* what the sheet and the replay are waiting for
    todo,      \* rows the running replay has still to send
    rowWay,    \* the way of payment that each sale's outbox row has, or would have
    posts,     \* requests in the server
    book,      \* the server's order of each sale
    shift,     \* is the cashier's drawer open
    faults,
    dropped    \* history: rows removed because creating the order answered 409

tillVars == <<place, waits, todo, rowWay, posts, book, shift, faults, dropped>>

Senders == {"sheet", "replay"}
CallNames == {"create", "pay"}
Answers == {"ok", "conflict", "refused", "error"}  \* 2xx, 409, other 4xx, 5xx

Places == {"new", "sheet", "sold", "given_up", "pending", "failed", "synced"}
AtLeisure == [ticket |-> NoTicket, call |-> "none"]
NoWay == [cash |-> 0, card |-> 0]
NoPost == [by |-> "nobody", ticket |-> NoTicket, call |-> "none", way |-> NoWay, stage |-> "free"]
NotBooked == [status |-> "none", total |-> 0, paid |-> 0, card |-> 0, keyed |-> 0, batches |-> 0,
              lapsed |-> FALSE]

\* One line is sent as a payment with the sheet's payment key, two as a batch without.
Amount(way) == way.cash + way.card
Split(way) == way.cash > 0 /\ way.card > 0

OutboxTypeOK ==
    /\ place \in [Tickets -> Places]
    /\ waits \in [Senders -> [ticket : Tickets \cup {NoTicket}, call : CallNames \cup {"none"}]]
    /\ todo \subseteq Tickets
    /\ rowWay \in [Tickets -> [cash : Nat, card : Nat]]
    /\ posts \in [Posts -> [by : Senders \cup {"nobody"}, ticket : Tickets \cup {NoTicket},
                            call : CallNames \cup {"none"}, way : [cash : Nat, card : Nat],
                            stage : {"free", "arrived", "checked"} \cup Answers]]
    /\ book \in [Tickets -> [status : {"none", "pending", "serving"}, total : Int, paid : Nat,
                             card : Nat, keyed : Nat, batches : Nat, lapsed : BOOLEAN]]
    /\ shift \in BOOLEAN
    /\ faults \in 0..MaxFaults /\ dropped \subseteq Tickets

OutboxInit ==
    /\ place = [t \in Tickets |-> "new"]
    /\ waits = [c \in Senders |-> AtLeisure]
    /\ todo = {}
    /\ rowWay = [t \in Tickets |-> NoWay]
    /\ posts = [p \in Posts |-> NoPost]
    /\ book = [t \in Tickets |-> NotBooked]
    /\ shift = TRUE
    /\ faults = 0
    /\ dropped = {}
-----------------------------------------------------------------------------
(* The till *)

SendCreate(c, t) ==
    \E p \in Posts :
        /\ posts[p].stage = "free"
        /\ posts' = [posts EXCEPT ![p] = [NoPost EXCEPT !.by = c, !.ticket = t,
                                          !.call = "create", !.stage = "arrived"]]
        /\ waits' = [waits EXCEPT ![c] = [ticket |-> t, call |-> "create"]]

\* Pay is tapped, for the first time or again; the sheet keeps its keys.  What the
\* outbox would be given is read first.  A till that knows it is offline puts the
\* sale straight into the outbox.
Submit(t) ==
    /\ waits["sheet"] = AtLeisure
    /\ \/ place[t] = "sheet"
       \/ place[t] = "new" /\ \A u \in Tickets : place[u] # "sheet"
    /\ \E way \in Ways[t] : rowWay' = [rowWay EXCEPT ![t] = way]
    /\ \/ SendCreate("sheet", t) /\ place' = [place EXCEPT ![t] = "sheet"]
       \/ place' = [place EXCEPT ![t] = "pending"] /\ UNCHANGED <<posts, waits>>
    /\ UNCHANGED <<todo, book, shift, faults, dropped>>

\* The sheet is closed after an error, or while it submits if nothing was typed into
\* it, and its keys go with it.  What it has begun goes on, to no one's knowledge.
CloseSheet(t) ==
    /\ place[t] = "sheet"
    /\ place' = [place EXCEPT ![t] = "given_up"]
    /\ UNCHANGED <<waits, todo, rowWay, posts, book, shift, faults, dropped>>

Running == todo # {} \/ waits["replay"] # AtLeisure

\* syncOutbox: one run at a time, over the rows that were pending at its start.
SyncOutbox ==
    /\ ~Running
    /\ todo' = {t \in Tickets : place[t] = "pending"}
    /\ todo' # {}
    /\ UNCHANGED <<place, waits, rowWay, posts, book, shift, faults, dropped>>

NextRow(t) ==
    /\ waits["replay"] = AtLeisure /\ t \in todo
    /\ SendCreate("replay", t)
    /\ todo' = todo \ {t}
    /\ UNCHANGED <<place, rowWay, book, shift, faults, dropped>>

\* The order is there: the payment follows, on the same connection.  The sheet reads
\* its selector and its fields again, the replay has what the row says.
OrderCreated(c, p) ==
    /\ posts[p].by = c /\ posts[p].call = "create" /\ posts[p].stage = "ok"
    /\ \E way \in IF c = "sheet" THEN Ways[posts[p].ticket] ELSE {rowWay[posts[p].ticket]} :
          posts' = [posts EXCEPT ![p].call = "pay", ![p].way = way, ![p].stage = "arrived"]
    /\ waits' = [waits EXCEPT ![c].call = "pay"]
    /\ UNCHANGED <<place, todo, rowWay, book, shift, faults, dropped>>

Answered(c, p) ==
    /\ posts[p].by = c /\ posts[p].stage \in Answers
    /\ posts' = [posts EXCEPT ![p] = NoPost]
    /\ waits' = [waits EXCEPT ![c] = AtLeisure]
    /\ UNCHANGED <<todo, rowWay, book, shift, faults>>

\* Every error answer leaves the sheet open for another tap.
SheetAnswered(p) ==
    /\ Answered("sheet", p)
    /\ ~(posts[p].call = "create" /\ posts[p].stage = "ok")
    /\ place' = [place EXCEPT ![posts[p].ticket] =
                     IF posts[p].stage = "ok" /\ @ = "sheet" THEN "sold" ELSE @]
    /\ UNCHANGED dropped

\* A conflict means that the key has been used: the row is done.  What was refused
\* is kept for the cashier to see, what failed is tried again.
RowAfter(answer) ==
    CASE answer \in {"ok", "conflict"} -> "synced"
      [] answer = "refused" -> "failed"
      [] answer = "error" -> "pending"

RowAnswered(p) ==
    LET t == posts[p].ticket
    IN  /\ Answered("replay", p)
        /\ ~(posts[p].call = "create" /\ posts[p].stage = "ok")
        /\ place' = [place EXCEPT ![t] = RowAfter(posts[p].stage)]
        /\ dropped' = IF posts[p].call = "create" /\ posts[p].stage = "conflict"
                      THEN dropped \cup {t} ELSE dropped

\* What becomes of a request nobody waits for any more: it never arrived, its answer
\* is lost, or it is still to take effect.
Orphaned(p) ==
    IF posts[p].stage \in {"arrived"} \cup Answers
    THEN {NoPost, [posts[p] EXCEPT !.by = "nobody"]}
    ELSE {[posts[p] EXCEPT !.by = "nobody"]}

Timeout(c) ==
    /\ faults < MaxFaults
    /\ waits[c] # AtLeisure
    /\ \E p \in Posts :
          /\ posts[p].by = c
          /\ \E q \in Orphaned(p) : posts' = [posts EXCEPT ![p] = q]
    /\ waits' = [waits EXCEPT ![c] = AtLeisure]
    /\ place' = [place EXCEPT ![waits[c].ticket] = IF @ = "sheet" THEN "pending" ELSE @]
    /\ faults' = faults + 1
    /\ UNCHANGED <<todo, rowWay, book, shift, dropped>>

\* The application is killed: the outbox is on disk, the sheet and the run are not.
KillTill ==
    /\ faults < MaxFaults
    /\ faults' = faults + 1
    /\ place' = [t \in Tickets |-> IF place[t] = "sheet" THEN "given_up" ELSE place[t]]
    /\ waits' = [c \in Senders |-> AtLeisure]
    /\ todo' = {}
    /\ posts' = [p \in Posts |-> IF posts[p].stage = "free" THEN NoPost
                                 ELSE [posts[p] EXCEPT !.by = "nobody"]]
    /\ UNCHANGED <<rowWay, book, shift, dropped>>

TillNext ==
    \/ \E t \in Tickets : Submit(t) \/ CloseSheet(t) \/ NextRow(t)
    \/ SyncOutbox
    \/ \E p \in Posts : SheetAnswered(p) \/ RowAnswered(p)
    \/ \E c \in Senders : Timeout(c) \/ \E p \in Posts : OrderCreated(c, p)
    \/ KillTill
-----------------------------------------------------------------------------
(* The server *)

Reply(p, answer) == posts' = [posts EXCEPT ![p].stage = answer]

\* The commit went through, whether or not the answer says so.
Committed(p) == Reply(p, "ok") \/ Reply(p, "error")

\* Mutant: the payment's key is neither looked up nor unique.
KeyedOnlyOrders(r) == r.call = "create" /\ book[r.ticket].status # "none"

\* The order's key, or a single payment's; the lines of a batch have none.
KeyUsedUp(r) ==
    \/ r.call = "create" /\ book[r.ticket].status # "none"
    \/ r.call = "pay" /\ ~Split(r.way) /\ book[r.ticket].keyed > 0

LookUpKey(p) ==
    /\ posts[p].stage = "arrived"
    /\ IF KeyUsedUp(posts[p]) THEN Reply(p, "ok") ELSE Reply(p, "checked")
    /\ UNCHANGED <<place, waits, todo, rowWay, book, shift, faults, dropped>>

\* create_order, seen from the till: refused, stopped by the unique index, or done.
PlaceOrder(p) ==
    LET t == posts[p].ticket
    IN  /\ posts[p].stage = "checked" /\ posts[p].call = "create"
        /\ \/ ~shift /\ Reply(p, "refused") /\ UNCHANGED book
           \/ shift /\ KeyUsedUp(posts[p]) /\ Reply(p, "conflict") /\ UNCHANGED book
           \/ /\ shift /\ ~KeyUsedUp(posts[p]) /\ Committed(p)
              /\ \E total \in Totals[t] :
                    book' = [book EXCEPT ![t].status = "pending", ![t].total = total]
        /\ UNCHANGED <<place, waits, todo, rowWay, shift, faults, dropped>>

\* Cash may exceed what remains, the card line may not.
Payable(t, way) ==
    /\ shift /\ book[t].status = "pending" /\ ~book[t].lapsed
    /\ way.card > 0 => book[t].paid + Amount(way) <= book[t].total

\* The payments on the order, which is served once they cover its total.
Charged(row, way) ==
    LET paid == row.paid + Amount(way)
    IN  [row EXCEPT !.paid = paid, !.card = @ + way.card,
                    !.keyed = IF Split(way) THEN @ ELSE @ + 1,
                    !.batches = IF Split(way) THEN @ + 1 ELSE @,
                    !.status = IF paid >= row.total THEN "serving" ELSE "pending"]

\* add_payment_to_order and add_split_payments_to_order, under the order's lock.
TakePayment(p) ==
    LET t == posts[p].ticket
        way == posts[p].way
    IN  /\ posts[p].stage = "checked" /\ posts[p].call = "pay"
        /\ \/ ~Payable(t, way) /\ Reply(p, "refused") /\ UNCHANGED book
           \/ Payable(t, way) /\ KeyUsedUp(posts[p]) /\ Reply(p, "conflict") /\ UNCHANGED book
           \/ Payable(t, way) /\ ~KeyUsedUp(posts[p]) /\ Committed(p)
              /\ book' = [book EXCEPT ![t] = Charged(@, way)]
        /\ UNCHANGED <<place, waits, todo, rowWay, shift, faults, dropped>>

\* A deadlock, a lost connection or a restart: the request is rolled back.
FailPost(p) ==
    /\ posts[p].stage \in {"arrived", "checked"}
    /\ Reply(p, "error")
    /\ UNCHANGED <<place, waits, todo, rowWay, book, shift, faults, dropped>>

AnswerNobody(p) ==
    /\ posts[p].stage \in Answers /\ posts[p].by = "nobody"
    /\ posts' = [posts EXCEPT ![p] = NoPost]
    /\ UNCHANGED <<place, waits, todo, rowWay, book, shift, faults, dropped>>

\* The reservation expires.  To the till it is the same whether the sweep has
\* cancelled the order by then or not: no payment is taken any more.
ReservationEnds(t) ==
    /\ book[t].status = "pending" /\ ~book[t].lapsed
    /\ book' = [book EXCEPT ![t].lapsed = TRUE]
    /\ UNCHANGED <<place, waits, todo, rowWay, posts, shift, faults, dropped>>

EndShift ==
    /\ shift /\ shift' = FALSE
    /\ UNCHANGED <<place, waits, todo, rowWay, posts, book, faults, dropped>>

ServerNext ==
    \/ \E p \in Posts : LookUpKey(p) \/ PlaceOrder(p) \/ TakePayment(p) \/ FailPost(p)
                        \/ AnswerNobody(p)
    \/ \E t \in Tickets : ReservationEnds(t)
    \/ EndShift

OutboxNext == TillNext \/ ServerNext
OutboxSpec == OutboxInit /\ [][OutboxNext]_tillVars
-----------------------------------------------------------------------------
(* Properties *)

\* However often the sheet and the outbox send a sale, in whatever way of payment, and
\* whichever lost request still takes effect: it gets one order and at most one single
\* payment, and its cards are never charged more than the order's total.  A batch of
\* split lines has no keys, so that it may be booked again while the order is not
\* covered, whatever client/README.md:48-49 says of every payment.  And the till forgets
\* no payment: what its sheet or its outbox is done with has one, but for rows whose
\* order was answered by 409, the other copy of the request having created it and its
\* payment never having been sent.
SinglePaymentsAreBookedOnce ==
    \A t \in Tickets :
        /\ book[t].keyed <= 1
        /\ book[t].card > 0 => book[t].card <= book[t].total
        /\ place[t] \in {"sold", "synced"} => t \in dropped \/ book[t].keyed + book[t].batches > 0
=============================================================================
