----------------------------- MODULE CashDrawer -----------------------------
(***************************************************************************)
(* Cash drawers: opening, closing and reconciling a shift, by the API and  *)
(* by the admin's close-drawer page, while tills sell, take payments,      *)
(* refund and cancel.  No request locks the drawer's row: each reads it in *)
(* one statement and writes in a later one.                                *)
(* The SUMs of compute_drawer_totals are kept as running sums per drawer.  *)
(***************************************************************************)
EXTENDS Integers, FiniteSets, FiniteSetsExt

CONSTANTS
    Drawers,      \* drawer sessions that can be opened, in the order of their ids
    Cashiers,
    Superusers,   \* cashiers that may reconcile any drawer
    Tills,        \* API requests, reusable
    Desks,        \* admin panel sessions, reusable
    Tabs,         \* orders that can be placed
    Price,        \* every order's total
    Coins,        \* amounts tendered
    Float,        \* starting cash
    NoDrawer, NoTab, NoCashier

ASSUME CashDrawerAssumption ==
    /\ Drawers \subseteq Nat /\ Price \in Nat \ {0} /\ Float \in Nat /\ Coins \subseteq Nat \ {0}
    /\ Superusers \subseteq Cashiers /\ NoCashier \notin Cashiers
    /\ NoDrawer \notin Drawers /\ NoTab \notin Tabs /\ IsFiniteSet(Tabs)

VARIABLES
    drawers,   \* drawer_sessions rows
    counts,    \* shift_reconciliations rows, drawer_session_id being unique
    takings,   \* per drawer, what compute_drawer_totals adds up
    tabs,      \* orders with what is paid on them
    tills,     \* what each request is doing and what it has read
    disturbed  \* history: drawers whose money moved during or after a count

drawerVars == <<drawers, counts, takings, tabs, tills, disturbed>>

Requests == Tills \cup Desks
NoCount == [cash |-> 0, card |-> 0, gross |-> 0, made |-> FALSE]
NoTakings == [cash |-> 0, card |-> 0, cashBack |-> 0, cardBack |-> 0, gross |-> 0]
Resting == [stage |-> "idle", who |-> NoCashier, drawer |-> NoDrawer, tab |-> NoTab,
            sums |-> NoTakings, overtaken |-> FALSE]
Sums == [cash : Nat, card : Nat, cashBack : Nat, cardBack : Nat, gross : Nat]

DrawerTypeOK ==
    /\ drawers \in [Drawers -> [status : {"absent", "open", "closed"},
                                owner : Cashiers \cup {NoCashier}, expected : Int]]
    /\ counts \in [Drawers -> [cash : Int, card : Int, gross : Int, made : BOOLEAN]]
    /\ takings \in [Drawers -> Sums]
    /\ tabs \in [Tabs -> [status : {"absent", "pending", "completed", "cancelled"},
                          owner : Cashiers \cup {NoCashier}, drawer : Drawers \cup {NoDrawer},
                          paid : Nat, refunded : BOOLEAN]]
    /\ tills \in [Requests -> [stage : {"idle", "opening", "closing", "seen", "counting",
                                        "counted", "ordering", "paying", "refunding",
                                        "cancelling"},
                               who : Cashiers \cup {NoCashier},
                               drawer : Drawers \cup {NoDrawer}, tab : Tabs \cup {NoTab},
                               sums : Sums, overtaken : BOOLEAN]]
    /\ disturbed \subseteq Drawers

DrawerInit ==
    /\ drawers = [d \in Drawers |-> [status |-> "absent", owner |-> NoCashier, expected |-> 0]]
    /\ counts = [d \in Drawers |-> NoCount]
    /\ takings = [d \in Drawers |-> NoTakings]
    /\ tabs = [t \in Tabs |-> [status |-> "absent", owner |-> NoCashier, drawer |-> NoDrawer,
                               paid |-> 0, refunded |-> FALSE]]
    /\ tills = [r \in Requests |-> Resting]
    /\ disturbed = {}

\* get_active_drawer and the query of create_order: .first() of these.
ActiveDrawers(c) == {d \in Drawers : drawers[d].status = "open" /\ drawers[d].owner = c}

Begin(r, stage, c, d, t) ==
    /\ tills[r].stage = "idle"
    /\ tills' = [tills EXCEPT ![r] = [Resting EXCEPT !.stage = stage, !.who = c,
                                                     !.drawer = d, !.tab = t]]

Finish(r) == tills' = [tills EXCEPT ![r] = Resting]
-----------------------------------------------------------------------------
(* Opening and closing *)

\* Mutant: the query for an open drawer is left out.
StartOpeningUnchecked(r, c) ==
    /\ Begin(r, "opening", c, NoDrawer, NoTab)
    /\ UNCHANGED <<drawers, counts, takings, tabs, disturbed>>

\* open_drawer finds no open drawer of the user.
StartOpening(r, c) ==
    /\ ActiveDrawers(c) = {}
    /\ Begin(r, "opening", c, NoDrawer, NoTab)
    /\ UNCHANGED <<drawers, counts, takings, tabs, disturbed>>

\* ... and inserts one: no constraint stops a second.
InsertDrawer(r, d) ==
    /\ tills[r].stage = "opening"
    /\ d = Min({e \in Drawers : drawers[e].status = "absent"} \cup {d})
    /\ drawers[d].status = "absent"
    /\ drawers' = [drawers EXCEPT ![d] = [status |-> "open", owner |-> tills[r].who,
                                          expected |-> 0]]
    /\ tills' = [q \in Requests |->
                    IF q = r THEN Resting
                    ELSE IF tills[q].stage = "opening" /\ tills[q].who = tills[r].who
                    THEN [tills[q] EXCEPT !.overtaken = TRUE] ELSE tills[q]]
    /\ UNCHANGED <<counts, takings, tabs, disturbed>>

\* close_drawer loads the caller's own open drawer,
StartClosing(r, c, d) ==
    /\ d \in ActiveDrawers(c)
    /\ Begin(r, "closing", c, d, NoTab)
    /\ UNCHANGED <<drawers, counts, takings, tabs, disturbed>>

\* ... and writes the status and the expected cash of the caller (Float here).
CloseDrawer(r) ==
    /\ tills[r].stage = "closing"
    /\ \E expected \in {drawers[tills[r].drawer].expected, Float} :
          drawers' = [drawers EXCEPT ![tills[r].drawer].status = "closed",
                                     ![tills[r].drawer].expected = expected]
    /\ Finish(r)
    /\ UNCHANGED <<counts, takings, tabs, disturbed>>
-----------------------------------------------------------------------------
(* Reconciling *)

\* reconcile_and_close_drawer: the owner or a superuser finds the drawer open.
StartReconcile(r, c, d) ==
    /\ drawers[d].status = "open"
    /\ c \in Superusers \/ drawers[d].owner = c
    /\ Begin(r, "seen", c, d, NoTab)
    /\ UNCHANGED <<drawers, counts, takings, tabs, disturbed>>

\* The close-drawer page loads the open drawers before it awaits the form, and
\* its later db.get returns that copy.
OpenPanel(k, c, d) ==
    /\ drawers[d].status = "open"
    /\ Begin(k, "seen", c, d, NoTab)
    /\ UNCHANGED <<drawers, counts, takings, tabs, disturbed>>

\* No reconciliation yet; the payments of the drawer's orders are added up.
ReadSales(r) ==
    LET d == tills[r].drawer
    IN  /\ tills[r].stage = "seen" /\ ~counts[d].made
        /\ tills' = [tills EXCEPT ![r].stage = "counting",
                                  ![r].sums = [takings[d] EXCEPT !.cashBack = 0,
                                               !.cardBack = 0, !.gross = 0]]
        /\ UNCHANGED <<drawers, counts, takings, tabs, disturbed>>

\* The later statements of compute_drawer_totals: refunds and gross sales.
ReadRefunds(r) ==
    LET d == tills[r].drawer
    IN  /\ tills[r].stage = "counting"
        /\ tills' = [tills EXCEPT ![r].stage = "counted",
                                  ![r].sums = [takings[d] EXCEPT !.cash = tills[r].sums.cash,
                                               !.card = tills[r].sums.card]]
        /\ UNCHANGED <<drawers, counts, takings, tabs, disturbed>>

\* Mutant: the starting cash is left out.
ReconciliationWithoutFloat(sums) ==
    [cash |-> sums.cash - sums.cashBack, card |-> sums.card - sums.cardBack,
     gross |-> sums.gross, made |-> TRUE]

\* build_reconciliation.
Reconciliation(sums) ==
    [cash |-> Float + sums.cash - sums.cashBack, card |-> sums.card - sums.cardBack,
     gross |-> sums.gross, made |-> TRUE]

\* The reconciliation and the closed drawer are committed together.
CommitReconcile(r) ==
    LET d == tills[r].drawer
        count == Reconciliation(tills[r].sums)
    IN  /\ tills[r].stage = "counted" /\ ~counts[d].made
        /\ counts' = [counts EXCEPT ![d] = count]
        /\ drawers' = [drawers EXCEPT ![d].status = "closed", ![d].expected = count.cash]
        /\ Finish(r)
        /\ UNCHANGED <<takings, tabs, disturbed>>

\* A reconciliation is there, found by the query or by the unique constraint.
AlreadyReconciled(r) ==
    /\ tills[r].stage \in {"seen", "counted"} /\ counts[tills[r].drawer].made
    /\ Finish(r)
    /\ UNCHANGED <<drawers, counts, takings, tabs, disturbed>>
-----------------------------------------------------------------------------
(* The tills *)

\* The order's row, locked by a payment or a cancellation.
TabFree(t) ==
    \A r \in Requests : tills[r].tab = t => tills[r].stage \notin {"paying", "cancelling"}

MayUse(c, t) == c \in Superusers \/ tabs[t].owner = c

\* validate_drawer_session_status.
DrawerOpen(t) == drawers[tabs[t].drawer].status = "open"

Counting(d) == \E r \in Requests : tills[r].drawer = d /\ tills[r].stage \in {"counting", "counted"}

\* Money moves at drawer d.
Book(d, sums) ==
    /\ takings' = [takings EXCEPT ![d] = sums]
    /\ disturbed' = IF Counting(d) \/ drawers[d].status = "closed"
                    THEN disturbed \cup {d} ELSE disturbed

\* create_order reads the cashier's drawer,
StartTab(r, c, t, d) ==
    /\ d \in ActiveDrawers(c) /\ tabs[t].status = "absent"
    /\ \A q \in Requests : tills[q].tab # t
    /\ Begin(r, "ordering", c, d, t)
    /\ UNCHANGED <<drawers, counts, takings, tabs, disturbed>>

InsertTab(r) ==
    /\ tills[r].stage = "ordering"
    /\ tabs' = [tabs EXCEPT ![tills[r].tab] =
                   [status |-> "pending", owner |-> tills[r].who, drawer |-> tills[r].drawer,
                    paid |-> 0, refunded |-> FALSE]]
    /\ Finish(r)
    /\ UNCHANGED <<drawers, counts, takings, disturbed>>

\* add_payment_to_order locks the order and finds its drawer open,
StartPaying(r, c, t) ==
    /\ tabs[t].status = "pending" /\ MayUse(c, t)
    /\ TabFree(t) /\ DrawerOpen(t)
    /\ Begin(r, "paying", c, NoDrawer, t)
    /\ UNCHANGED <<drawers, counts, takings, tabs, disturbed>>

Remaining(t) == IF tabs[t].paid < Price THEN Price - tabs[t].paid ELSE 0

\* ... records what was tendered, and completes the order it settles.
CommitPaying(r, amount, method) ==
    LET t == tills[r].tab
        d == tabs[t].drawer
        paid == tabs[t].paid + amount
        settles == paid >= Price
    IN  /\ tills[r].stage = "paying"
        /\ method = "cash" \/ amount <= Remaining(t)
        /\ tabs' = [tabs EXCEPT ![t].paid = paid,
                                ![t].status = IF settles THEN "completed" ELSE "pending"]
        /\ Book(d, [takings[d] EXCEPT !.cash = @ + IF method = "cash" THEN amount ELSE 0,
                                      !.card = @ + IF method = "card" THEN amount ELSE 0,
                                      !.gross = @ + IF settles THEN Price ELSE 0])
        /\ Finish(r)
        /\ UNCHANGED <<drawers, counts>>

\* Mutant: the refund does not look at the drawer.
StartRefundingAnyDrawer(r, c, t) ==
    /\ tabs[t].status = "completed" /\ MayUse(c, t) /\ ~tabs[t].refunded
    /\ Begin(r, "refunding", c, NoDrawer, t)
    /\ UNCHANGED <<drawers, counts, takings, tabs, disturbed>>

\* create_refund reads the order, the drawer and what was refunded, unlocked.
StartRefunding(r, c, t) ==
    /\ tabs[t].status = "completed" /\ MayUse(c, t)
    /\ DrawerOpen(t) /\ ~tabs[t].refunded
    /\ Begin(r, "refunding", c, NoDrawer, t)
    /\ UNCHANGED <<drawers, counts, takings, tabs, disturbed>>

CommitRefunding(r, method) ==
    LET t == tills[r].tab
        d == tabs[t].drawer
    IN  /\ tills[r].stage = "refunding"
        /\ tabs' = [tabs EXCEPT ![t].refunded = TRUE]
        /\ Book(d, [takings[d] EXCEPT !.cashBack = @ + IF method = "cash" THEN Price ELSE 0,
                                      !.cardBack = @ + IF method = "card" THEN Price ELSE 0])
        /\ Finish(r)
        /\ UNCHANGED <<drawers, counts>>

\* cancel_order locks the order and finds its drawer open,
StartCancelling(r, c, t) ==
    /\ tabs[t].status = "pending" /\ MayUse(c, t)
    /\ TabFree(t) /\ DrawerOpen(t)
    /\ Begin(r, "cancelling", c, NoDrawer, t)
    /\ UNCHANGED <<drawers, counts, takings, tabs, disturbed>>

\* ... and leaves what was paid on it in the drawer.
CommitCancelling(r) ==
    /\ tills[r].stage = "cancelling"
    /\ tabs' = [tabs EXCEPT ![tills[r].tab].status = "cancelled"]
    /\ Finish(r)
    /\ UNCHANGED <<drawers, counts, takings, disturbed>>
-----------------------------------------------------------------------------
DrawerNext ==
    \/ \E r \in Tills, c \in Cashiers : StartOpening(r, c)
    \/ \E r \in Tills, d \in Drawers : InsertDrawer(r, d)
    \/ \E r \in Tills, c \in Cashiers, d \in Drawers : StartClosing(r, c, d) \/ StartReconcile(r, c, d)
    \/ \E k \in Desks, c \in Superusers, d \in Drawers : OpenPanel(k, c, d)
    \/ \E r \in Requests : \/ CloseDrawer(r) \/ ReadSales(r) \/ ReadRefunds(r)
                           \/ CommitReconcile(r) \/ AlreadyReconciled(r)
    \/ \E r \in Tills, c \in Cashiers, t \in Tabs :
          \/ \E d \in Drawers : StartTab(r, c, t, d)
          \/ StartPaying(r, c, t) \/ StartCancelling(r, c, t)
    \/ \E r \in Requests, c \in Cashiers, t \in Tabs : StartRefunding(r, c, t)
    \/ \E r \in Tills : InsertTab(r) \/ CommitCancelling(r)
    \/ \E r \in Tills, amount \in Coins, method \in {"cash", "card"} :
          CommitPaying(r, amount, method)
    \/ \E r \in Requests, method \in {"cash", "card"} : CommitRefunding(r, method)

DrawerSpec == DrawerInit /\ [][DrawerNext]_drawerVars
-----------------------------------------------------------------------------
InFlight(d) == {r \in Requests : \/ tills[r].drawer = d
                                 \/ tills[r].tab # NoTab /\ tabs[tills[r].tab].drawer = d}

\* A payment, refund or closing may still commit into a drawer that a concurrent
\* request has closed, because the drawer was read without a lock; but only a
\* request that had read it open before: no other ever comes to work on it, and
\* once those are over the drawer, its reconciliation and its money are final.
ClosedDrawersAreFinal ==
    [][\A d \in Drawers : drawers[d].status = "closed"
          => /\ InFlight(d)' \subseteq InFlight(d)
             /\ InFlight(d) = {} => /\ drawers'[d] = drawers[d] /\ counts'[d] = counts[d]
                                    /\ takings'[d] = takings[d]]_drawerVars

\* A request about to open a drawer meets one its cashier already has only when
\* another request opened it since the query: the check-then-insert race, which
\* no constraint of the table stops, is the one way to two open drawers.
OnlyRacesOpenTwice ==
    \A r \in Requests : tills[r].stage = "opening" /\ ~tills[r].overtaken
                        => ActiveDrawers(tills[r].who) = {}

ChangeOf(t) == IF tabs[t].paid > Price THEN tabs[t].paid - Price ELSE 0

\* What a tab has put into its drawer beyond the sales a report shows: the
\* change handed back to the customer, and payments on an order that was never
\* completed, cancelled ones included.
Unsold(t) == IF tabs[t].status = "completed" THEN ChangeOf(t) ELSE tabs[t].paid

TabsOf(d) == {t \in Tabs : tabs[t].drawer = d}

\* Where no money moved during or after its count, a reconciliation expects what
\* build_reconciliation defines, whatever order its queries and the commits of
\* the other requests came in: the float, the sales and, because it adds up what
\* was tendered, all change and all payments on unfinished orders.
QuietCountsAreRight ==
    \A d \in Drawers \ disturbed : counts[d].made
        => /\ counts[d].cash + counts[d].card + takings[d].cashBack + takings[d].cardBack
                = Float + counts[d].gross
                  + SumFunctionOnSet([t \in Tabs |-> Unsold(t)], TabsOf(d))
           /\ counts[d].card = takings[d].card - takings[d].cardBack
           /\ counts[d].gross = takings[d].gross
=============================================================================
