-------------------------- MODULE PurchasingProofs --------------------------
(***************************************************************************)
(* What is proved of purchasing, for any number of orders, products, users *)
(* and sessions.                                                           *)
(*                                                                         *)
(* PurchaseOrders: no order records more than it asked for or more than    *)
(* came in, stock that no wizard wrote matches its movements, and every    *)
(* order that stands ordered is accounted for in the audit log.            *)
(*                                                                         *)
(* Payables: no invoice is ever paid more than its total, and of an order  *)
(* whose invoices were not made or decided side by side the pages show     *)
(* what is owed and what was billed too much.                              *)
(*                                                                         *)
(* MCPurchasing, which runs the two side by side: each goes on as it does  *)
(* on its own.                                                             *)
(***************************************************************************)
EXTENDS MCPurchasing, SumTheorems


-----------------------------------------------------------------------------
(* Purchase orders: the inductive invariant; s is the state of session r. *)

\* A session works on an order that exists, and only requests write entries.
Fits(r, s) ==
    /\ s.stage \in {"deciding", "locking", "again", "logging"} =>
          s.cur \in Ids /\ po[s.cur].status # "absent"
    /\ s.stage = "deciding" => s.to # "absent"
    /\ s.stage = "logging" => r \in Requests

\* What a receipt was compared with: the lines never change, the receipts only
\* grow, and the sum it will write is within the lines.
Compared(s) ==
    s.stage = "locking" =>
        /\ s.seen.lines = po[s.cur].lines
        /\ \A p \in Products : s.seen.received[p] <= receipts[s.cur][p]
        /\ \A p \in Listed(s.goods) : s.seen.received[p] + s.goods[p] <= s.seen.lines[p]

\* The products a receipt has been through are its own, and a request's copy of
\* their stock is the stock; rows and shelf are the tables holder and stock.
Holds(r, s, rows, shelf) ==
    s.stage = "locking" =>
        /\ s.todo \subseteq Listed(s.goods)
        /\ \A p \in Listed(s.goods) \ s.todo :
              rows[p] = r /\ (r \in Requests => s.base[p] = shelf[p])

Sound(r, s) == Fits(r, s) /\ Compared(s) /\ Holds(r, s, holder, stock)

IInv ==
    /\ TypeOK
    /\ \A r \in Sessions : Sound(r, session[r])
    /\ NeverOverRecorded
    /\ StockMatchesReceipts
    /\ OrdersAreAudited

-----------------------------------------------------------------------------
(* Purchase orders: lemmas *)

LEMMA NothingType == Nothing \in [Products -> Nat] /\ Nothing \in [Products -> Int]
  BY DEF Nothing

LEMMA NoOrderType == NoOrder \in OrderRecord
  BY NothingType DEF NoOrder, OrderRecord, Statuses

LEMMA IdleType == /\ Idle \in SessionRecord /\ Idle.stage = "idle"
                  /\ Idle.todo = {} /\ Idle.goods = Nothing
  BY NothingType, NoOrderType DEF Idle, SessionRecord, Statuses, Stages

LEMMA SessionFields ==
    ASSUME TypeOK, NEW r \in Sessions
    PROVE  /\ session[r] \in SessionRecord
           /\ session[r].stage \in Stages /\ session[r].cur \in Ids \cup {None}
           /\ session[r].seen \in OrderRecord /\ session[r].to \in Statuses
           /\ session[r].goods \in [Products -> Nat]
           /\ session[r].todo \in SUBSET Products
           /\ session[r].base \in [Products -> Int]
           /\ session[r].seen.received \in [Products -> Nat]
           /\ session[r].seen.lines \in [Products -> Nat]
           /\ session[r].seen.status \in Statuses
  BY DEF TypeOK, SessionRecord, OrderRecord

LEMMA OrderFields ==
    ASSUME TypeOK, NEW o \in Ids
    PROVE  /\ po[o] \in OrderRecord /\ po[o].status \in Statuses
           /\ po[o].lines \in [Products -> Nat] /\ po[o].received \in [Products -> Nat]
           /\ receipts[o] \in [Products -> Nat]
  BY DEF TypeOK, OrderRecord

LEMMA SessionsApart == /\ Requests \subseteq Sessions /\ Wizards \subseteq Sessions
                       /\ \A r \in Wizards : r \notin Requests
                       /\ \A r \in Sessions : r # None
                       /\ \A r \in Sessions : r \in Requests \/ r \in Wizards
  BY PurchasingAssumption DEF Sessions

\* The audit property survives what leaves the orders and every session that is
\* about to write an entry alone.
LEMMA AuditKept ==
    ASSUME OrdersAreAudited, UNCHANGED <<audit, unlogged>>,
           \A o \in Ids : po'[o].status = "ordered" => po[o].status = "ordered",
           \A r \in Requests : session[r].stage = "logging" => session'[r] = session[r]
    PROVE  OrdersAreAudited'
  BY DEF OrdersAreAudited

\* One session moves on, perhaps taking a lock nobody holds or giving its own
\* back; nothing is written.
LEMMA SessionStep ==
    ASSUME IInv, NEW r \in Sessions, NEW s \in SessionRecord, Fits(r, s), Compared(s),
           session' = [session EXCEPT ![r] = s], session[r].stage # "logging",
           holder' \in [Products -> Sessions \cup {None}], Holds(r, s, holder', stock'),
           \A p \in Products : holder[p] \notin {r, None} => holder'[p] = holder[p],
           UNCHANGED <<po, receipts, stock, ledger, audit, torn, inPanel, unlogged>>
    PROVE  IInv'
  <1>1. TypeOK'
    BY DEF IInv, TypeOK
  <1>2. NeverOverRecorded' /\ StockMatchesReceipts'
    BY DEF IInv, NeverOverRecorded, StockMatchesReceipts
  <1>3. OrdersAreAudited'
    BY SessionsApart, AuditKept DEF IInv, TypeOK
  <1>4. ASSUME NEW q \in Sessions PROVE Sound(q, session[q])'
    <2>1. session'[q] = IF q = r THEN s ELSE session[q]
      BY DEF IInv, TypeOK
    <2>2. CASE q = r
      BY <2>1, <2>2 DEF Sound, Fits, Compared
    <2>3. CASE q # r
      <3>1. Fits(q, session[q])' /\ Compared(session[q])'
        BY <2>1, <2>3 DEF IInv, Sound, Fits, Compared
      <3>2. Holds(q, session'[q], holder', stock')
        <4>1. Holds(q, session[q], holder, stock)
          BY DEF IInv, Sound
        <4>2. q # None
          BY SessionsApart
        <4>3. Listed(session[q].goods) \subseteq Products
          BY DEF Listed
        <4> QED
          BY <2>1, <2>3, <4>1, <4>2, <4>3 DEF Holds
      <3> QED
        BY <3>1, <3>2 DEF Sound
    <2> QED
      BY <2>2, <2>3
  <1> QED
    BY <1>1, <1>2, <1>3, <1>4 DEF IInv

-----------------------------------------------------------------------------
(* Reading and deciding *)

LEMMA DecideKeeps ==
    ASSUME IInv, NEW r \in Sessions, NEW u, NEW o \in Ids, NEW to \in Statuses \ {"absent"},
           session[r].stage # "logging", Decide(r, u, o, to)
    PROVE  IInv'
  <1> DEFINE s == [[Idle EXCEPT !.stage = "deciding", !.to = to] EXCEPT !.cur = o, !.seen = po[o]]
  <1>1. po[o] \in OrderRecord /\ po[o].status # "absent"
    BY OrderFields DEF IInv, Decide, Hold
  <1>2. s \in SessionRecord /\ s.stage = "deciding" /\ s.cur = o /\ s.to = to
    BY <1>1, IdleType DEF SessionRecord, Stages
  <1>3. /\ session' = [session EXCEPT ![r] = s]
        /\ UNCHANGED <<po, receipts, stock, ledger, holder, audit, torn, inPanel, unlogged>>
    BY DEF Decide, Hold
  <1> HIDE DEF s
  <1>4. Fits(r, s) /\ Compared(s) /\ Holds(r, s, holder', stock')
    BY <1>1, <1>2 DEF Fits, Compared, Holds
  <1>5. holder' \in [Products -> Sessions \cup {None}]
    BY <1>3 DEF IInv, TypeOK
  <1> QED
    BY <1>2, <1>3, <1>4, <1>5, SessionStep

\* The comparison of a receipt with the items as read.
LEMMA ReceiveItemsKeeps ==
    ASSUME IInv, NEW r \in Sessions, NEW u, NEW o \in Ids, NEW goods \in Shipments,
           session[r].stage # "logging", ReceiveItems(r, u, o, goods)
    PROVE  IInv'
  <1> DEFINE t == [session[r] EXCEPT !.stage = "locking", !.goods = goods,
                                     !.todo = Listed(goods)]
             s == [t EXCEPT !.cur = o, !.seen = po[o]]
  <1>1. /\ po[o] \in OrderRecord /\ po[o].status # "absent"
        /\ goods \in [Products -> Nat] /\ Listed(goods) \subseteq Products
    BY OrderFields, PurchasingAssumption DEF IInv, ReceiveItems, Hold, Listed
  <1>2. session[r] \in SessionRecord
    BY DEF IInv, TypeOK
  <1>3. t \in SessionRecord /\ t.stage = "locking" /\ t.goods = goods /\ t.todo = Listed(goods)
    BY <1>1, <1>2 DEF SessionRecord, Stages
  <1>4. /\ Hold(r, u, o, t)
        /\ \A p \in Listed(goods) : goods[p] <= Remaining(o, p)
    BY DEF ReceiveItems
  <1> HIDE DEF t
  <1>5. /\ s \in SessionRecord /\ s.stage = "locking" /\ s.cur = o /\ s.seen = po[o]
        /\ s.goods = goods /\ s.todo = Listed(goods)
    BY <1>1, <1>3 DEF SessionRecord
  <1>6. /\ session' = [session EXCEPT ![r] = s]
        /\ UNCHANGED <<po, receipts, stock, ledger, holder, audit, torn, inPanel, unlogged>>
    BY <1>4 DEF Hold
  <1> HIDE DEF s
  <1>7. Fits(r, s) /\ Holds(r, s, holder', stock')
    BY <1>1, <1>5 DEF Fits, Holds
  <1>8. Compared(s)
    <2>1. \A p \in Products : po[o].received[p] <= receipts[o][p]
      BY DEF IInv, NeverOverRecorded
    <2>2. /\ po[o].lines \in [Products -> Nat] /\ po[o].received \in [Products -> Nat]
      BY OrderFields DEF IInv
    <2>3. \A p \in Listed(goods) : po[o].received[p] + goods[p] <= po[o].lines[p]
      BY <1>1, <1>4, <2>2 DEF Remaining
    <2> QED
      BY <1>5, <2>1, <2>3 DEF Compared
  <1>9. holder' \in [Products -> Sessions \cup {None}]
    BY <1>6 DEF IInv, TypeOK
  <1> QED
    BY <1>5, <1>6, <1>7, <1>8, <1>9, SessionStep

-----------------------------------------------------------------------------
(* Sessions that lock, rest or give up *)

LEMMA LockProductKeeps ==
    ASSUME IInv, NEW r \in Sessions, LockProduct(r)
    PROVE  IInv'
  <1>1. PICK p \in session[r].todo :
           /\ holder[p] = None
           /\ holder' = [holder EXCEPT ![p] = r]
           /\ session' = [session EXCEPT ![r].todo = @ \ {p},
                 ![r].base[p] = IF r \in Wizards THEN @ ELSE stock[p]]
    BY DEF LockProduct
  <1> DEFINE s == [session[r] EXCEPT !.todo = @ \ {p},
                                     !.base[p] = IF r \in Wizards THEN @ ELSE stock[p]]
  <1>2. /\ session[r] \in SessionRecord /\ session[r].todo \in SUBSET Products
        /\ session[r].base \in [Products -> Int] /\ stock \in [Products -> Int]
    BY SessionFields DEF IInv, TypeOK
  <1>3. /\ session[r].stage = "locking"
        /\ UNCHANGED <<po, receipts, stock, ledger, audit, torn, inPanel, unlogged>>
    BY DEF LockProduct
  <1>4. /\ s \in SessionRecord /\ s.stage = "locking" /\ s.cur = session[r].cur
        /\ s.seen = session[r].seen /\ s.goods = session[r].goods
        /\ s.todo = session[r].todo \ {p}
        /\ s.base = [session[r].base EXCEPT ![p] = IF r \in Wizards THEN @ ELSE stock[p]]
    BY <1>2, <1>3 DEF SessionRecord
  <1>5. session' = [session EXCEPT ![r] = s]
    BY <1>1 DEF IInv, TypeOK
  <1> HIDE DEF s
  <1>6. Sound(r, session[r])
    BY DEF IInv
  <1>7. Fits(r, s) /\ Compared(s)
    BY <1>3, <1>4, <1>6 DEF Sound, Fits, Compared
  <1>8. Holds(r, s, holder', stock')
    <2> SUFFICES ASSUME NEW q \in Listed(s.goods) \ s.todo
                 PROVE  holder'[q] = r /\ (r \in Requests => s.base[q] = stock[q])
      BY <1>3, <1>4, <1>6 DEF Sound, Holds, Listed
    <2>1. q \in Products /\ p \in Products
      BY <1>2 DEF Listed
    <2>2. CASE q = p
      BY <1>1, <1>2, <1>4, <2>1, <2>2, SessionsApart DEF IInv, TypeOK
    <2>3. CASE q # p
      <3>1. holder[q] = r /\ (r \in Requests => session[r].base[q] = stock[q])
        BY <1>3, <1>4, <1>6, <2>3 DEF Sound, Holds
      <3> QED
        BY <1>1, <1>2, <1>4, <2>1, <2>3, <3>1 DEF IInv, TypeOK
    <2> QED
      BY <2>2, <2>3
  <1>9. /\ holder' \in [Products -> Sessions \cup {None}]
        /\ \A q \in Products : holder[q] \notin {r, None} => holder'[q] = holder[q]
    BY <1>1 DEF IInv, TypeOK
  <1> QED
    BY <1>3, <1>4, <1>5, <1>7, <1>8, <1>9, SessionStep

\* A session that has nothing under way, or gives it up with its locks.
LEMMA RestKeeps ==
    ASSUME IInv, NEW r \in Sessions, NEW s \in SessionRecord, s.stage \in {"idle", "panel"},
           session' = [session EXCEPT ![r] = s], session[r].stage # "logging",
           Unlock(r) \/ UNCHANGED holder,
           UNCHANGED <<po, receipts, stock, ledger, audit, torn, inPanel, unlogged>>
    PROVE  IInv'
  <1>1. Fits(r, s) /\ Compared(s) /\ Holds(r, s, holder', stock')
    BY DEF Fits, Compared, Holds
  <1>2. /\ holder' \in [Products -> Sessions \cup {None}]
        /\ \A q \in Products : holder[q] \notin {r, None} => holder'[q] = holder[q]
    BY DEF IInv, TypeOK, Unlock
  <1> QED
    BY <1>1, <1>2, SessionStep

LEMMA OpenWizardKeeps ==
    ASSUME IInv, NEW r \in Sessions, OpenWizard(r)
    PROVE  IInv'
  <1> DEFINE s == [Idle EXCEPT !.stage = "panel", !.base = stock]
  <1>1. s \in SessionRecord /\ s.stage = "panel"
    BY IdleType DEF SessionRecord, Stages, IInv, TypeOK
  <1>2. /\ session' = [session EXCEPT ![r] = s] /\ session[r].stage # "logging"
        /\ UNCHANGED <<po, receipts, stock, ledger, holder, audit, torn, inPanel, unlogged>>
    BY DEF OpenWizard, Free
  <1> HIDE DEF s
  <1> QED
    BY <1>1, <1>2, RestKeeps

LEMMA LeaveWizardKeeps ==
    ASSUME IInv, NEW r \in Sessions, LeaveWizard(r)
    PROVE  IInv'
  BY IdleType, RestKeeps DEF LeaveWizard

LEMMA AbortKeeps ==
    ASSUME IInv, NEW r \in Sessions, Abort(r)
    PROVE  IInv'
  BY IdleType, RestKeeps DEF Abort

-----------------------------------------------------------------------------
(* Writing *)

\* What a session is after its commit.
LEMMA AfterCommitStates ==
    ASSUME TypeOK, NEW r \in Sessions, NEW to \in Statuses, session[r].cur \in Ids,
           AfterCommit(r, to)
    PROVE  /\ session' \in [Sessions -> SessionRecord]
           /\ \A q \in Sessions \ {r} : session'[q] = session[q]
           /\ session'[r].stage \in {"idle", "again", "logging"}
           /\ session'[r].stage # "idle" => session'[r].cur = session[r].cur
           /\ session'[r].stage = "logging" => r \in Requests
           /\ r \in Requests => session'[r].stage = "logging" /\ session'[r].to = to
                                /\ session'[r].cur = session[r].cur
           /\ unlogged' \in SUBSET Ids /\ unlogged \subseteq unlogged'
           /\ r \notin Requests => session[r].cur \in unlogged'
  <1> DEFINE written == [Idle EXCEPT !.stage = "logging", !.cur = session[r].cur, !.to = to]
             again == [Idle EXCEPT !.stage = "again", !.cur = session[r].cur]
  <1>1. /\ written \in SessionRecord /\ written.stage = "logging"
        /\ written.cur = session[r].cur /\ written.to = to
    BY IdleType DEF SessionRecord, Stages
  <1>2. again \in SessionRecord /\ again.stage = "again" /\ again.cur = session[r].cur
    BY IdleType DEF SessionRecord, Stages
  <1>3. /\ session' = [session EXCEPT ![r] = IF r \in Requests THEN written
                                             ELSE IF to = "pending_review" THEN again ELSE Idle]
        /\ unlogged' = IF r \in Wizards THEN unlogged \cup {session[r].cur} ELSE unlogged
    BY DEF AfterCommit
  <1> HIDE DEF written, again
  <1>4. session'[r] = IF r \in Requests THEN written
                      ELSE IF to = "pending_review" THEN again ELSE Idle
    BY <1>3 DEF TypeOK
  <1> QED
    BY <1>1, <1>2, <1>3, <1>4, IdleType, SessionsApart DEF TypeOK

\* What others read and hold stays good: lines are never changed, receipts only
\* grow, and a product's stock is written by who holds it.
LEMMA OthersStaySound ==
    ASSUME IInv, NEW r, NEW q \in Sessions \ {r}, session'[q] = session[q],
           \A o \in Ids : po[o].status # "absent" =>
              po'[o].status # "absent" /\ po'[o].lines = po[o].lines,
           receipts' \in [Ids -> [Products -> Nat]],
           \A o \in Ids, p \in Products : receipts[o][p] <= receipts'[o][p],
           \A p \in Products : holder[p] \notin {r, None} =>
              holder'[p] = holder[p] /\ stock'[p] = stock[p]
    PROVE  Sound(q, session[q])'
  <1>1. Fits(q, session[q]) /\ Compared(session[q]) /\ Holds(q, session[q], holder, stock)
    BY DEF IInv, Sound
  <1>2. q # None /\ Listed(session[q].goods) \subseteq Products
    BY SessionsApart DEF Listed
  <1>3. Fits(q, session[q])'
    BY <1>1 DEF Fits
  <1>4. Compared(session[q])'
    <2> SUFFICES ASSUME session[q].stage = "locking"
                 PROVE  Compared(session[q])'
      BY DEF Compared
    <2>1. session[q].cur \in Ids /\ po[session[q].cur].status # "absent"
      BY <1>1 DEF Fits
    <2>2. session[q].seen.received \in [Products -> Nat]
          /\ receipts[session[q].cur] \in [Products -> Nat]
          /\ receipts'[session[q].cur] \in [Products -> Nat]
      BY <2>1, SessionFields DEF IInv, TypeOK
    <2>3. \A p \in Products : session[q].seen.received[p] <= receipts'[session[q].cur][p]
      <3> SUFFICES ASSUME NEW p \in Products
                   PROVE  session[q].seen.received[p] <= receipts'[session[q].cur][p]
        OBVIOUS
      <3>1. /\ session[q].seen.received[p] <= receipts[session[q].cur][p]
            /\ receipts[session[q].cur][p] <= receipts'[session[q].cur][p]
        BY <1>1, <2>1 DEF Compared
      <3> QED
        BY <2>2, <3>1
    <2> QED
      BY <1>1, <2>1, <2>3 DEF Compared
  <1>5. Holds(q, session'[q], holder', stock')
    BY <1>1, <1>2 DEF Holds
  <1> QED
    BY <1>3, <1>4, <1>5 DEF Sound

LEMMA RestIsSound ==
    ASSUME NEW r \in Sessions, session'[r].stage = "idle"
    PROVE  Sound(r, session[r])'
  BY DEF Sound, Fits, Compared, Holds

LEMMA CommitDecisionKeeps ==
    ASSUME IInv, NEW r \in Sessions, CommitDecision(r)
    PROVE  IInv'
  <1> DEFINE o == session[r].cur
  <1>1. /\ session[r].stage = "deciding" /\ o \in Ids /\ po[o].status # "absent"
        /\ session[r].to \in Statuses /\ session[r].to # "absent"
    BY SessionFields DEF IInv, CommitDecision, Sound, Fits
  <1>2. /\ po' = [po EXCEPT ![o].status = session[r].to]
        /\ torn' = torn \cup Outdated(r) /\ AfterCommit(r, session[r].to)
        /\ UNCHANGED <<receipts, stock, ledger, holder, audit, inPanel>>
    BY DEF CommitDecision
  <1>3. /\ session' \in [Sessions -> SessionRecord]
        /\ \A q \in Sessions \ {r} : session'[q] = session[q]
        /\ session'[r].stage \in {"idle", "again", "logging"}
        /\ session'[r].stage # "idle" => session'[r].cur = o
        /\ session'[r].stage = "logging" => r \in Requests
        /\ r \in Requests => session'[r].stage = "logging" /\ session'[r].to = session[r].to
                             /\ session'[r].cur = o
        /\ unlogged' \in SUBSET Ids /\ unlogged \subseteq unlogged'
        /\ r \notin Requests => o \in unlogged'
    BY <1>1, <1>2, AfterCommitStates DEF IInv
  <1>4. Outdated(r) \subseteq Ids
    BY <1>1 DEF Outdated
  <1> HIDE DEF o
  <1>5. /\ \A i \in Ids \ {o} : po'[i] = po[i]
        /\ po'[o].status = session[r].to /\ po'[o].lines = po[o].lines
        /\ po'[o].received = po[o].received /\ po'[o] \in OrderRecord
    BY <1>1, <1>2, OrderFields DEF IInv, TypeOK, OrderRecord
  <1>6. TypeOK'
    <2>1. po' \in [Ids -> OrderRecord]
      BY <1>1, <1>2, <1>5 DEF IInv, TypeOK
    <2> QED
      BY <1>2, <1>3, <1>4, <2>1 DEF IInv, TypeOK
  <1>7. NeverOverRecorded'
    <2> SUFFICES ASSUME NEW i \in Ids, NEW p \in Products
                 PROVE  po'[i].received[p] <= po'[i].lines[p]
                        /\ po'[i].received[p] <= receipts'[i][p]
      BY DEF NeverOverRecorded
    <2>1. po'[i].received = po[i].received /\ po'[i].lines = po[i].lines
      BY <1>5
    <2> QED
      BY <1>2, <2>1 DEF IInv, NeverOverRecorded
  <1>8. StockMatchesReceipts'
    BY <1>2 DEF IInv, StockMatchesReceipts
  <1>9. OrdersAreAudited'
    <2> SUFFICES ASSUME NEW i \in Ids, po'[i].status = "ordered"
                 PROVE  \/ i \in audit \/ i \in unlogged'
                        \/ \E q \in Requests : /\ session'[q].stage = "logging"
                                               /\ session'[q].cur = i
                                               /\ session'[q].to = "ordered"
      BY <1>2 DEF OrdersAreAudited
    <2>1. CASE i = o
      BY <1>3, <1>5, <2>1
    <2>2. CASE i # o
      BY <1>1, <1>3, <1>5, <2>2, SessionsApart DEF IInv, OrdersAreAudited
    <2> QED
      BY <2>1, <2>2
  <1>10. ASSUME NEW q \in Sessions PROVE Sound(q, session[q])'
    <2>1. CASE q = r
      BY <1>1, <1>3, <1>5, <2>1 DEF Sound, Fits, Compared, Holds
    <2>2. CASE q # r
      <3>1. \A i \in Ids : po[i].status # "absent" =>
               po'[i].status # "absent" /\ po'[i].lines = po[i].lines
        BY <1>1, <1>5
      <3>2. /\ receipts' \in [Ids -> [Products -> Nat]]
            /\ \A i \in Ids, p \in Products : receipts[i][p] <= receipts'[i][p]
        BY <1>2, OrderFields DEF IInv, TypeOK
      <3> QED
        BY <1>2, <1>3, <2>2, <3>1, <3>2, OthersStaySound
    <2> QED
      BY <2>1, <2>2
  <1> QED
    BY <1>6, <1>7, <1>8, <1>9, <1>10 DEF IInv

LEMMA LogActionKeeps ==
    ASSUME IInv, NEW r \in Sessions, LogAction(r)
    PROVE  IInv'
  <1>1. /\ session[r].stage = "logging" /\ session[r].cur \in Ids
    BY DEF IInv, LogAction, Sound, Fits
  <1>2. /\ audit' = IF session[r].to = "ordered" THEN audit \cup {session[r].cur} ELSE audit
        /\ session' = [session EXCEPT ![r] = Idle]
        /\ UNCHANGED <<po, receipts, stock, ledger, holder, torn, inPanel, unlogged>>
    BY DEF LogAction
  <1>3. /\ session'[r] = Idle
        /\ \A q \in Sessions \ {r} : session'[q] = session[q]
    BY <1>2 DEF IInv, TypeOK
  <1>4. TypeOK'
    BY <1>1, <1>2, IdleType DEF IInv, TypeOK
  <1>5. NeverOverRecorded' /\ StockMatchesReceipts'
    BY <1>2 DEF IInv, NeverOverRecorded, StockMatchesReceipts
  <1>6. OrdersAreAudited'
    <2> SUFFICES ASSUME NEW i \in Ids, po[i].status = "ordered"
                 PROVE  \/ i \in audit' \/ i \in unlogged
                        \/ \E q \in Requests : /\ session'[q].stage = "logging"
                                               /\ session'[q].cur = i
                                               /\ session'[q].to = "ordered"
      BY <1>2 DEF OrdersAreAudited
    <2>1. CASE i \in audit \/ i \in unlogged
      BY <1>2, <2>1
    <2>2. ASSUME NEW q \in Requests, session[q].stage = "logging", session[q].cur = i,
                 session[q].to = "ordered"
          PROVE  i \in audit' \/ session'[q] = session[q]
      BY <1>2, <1>3, <2>2, SessionsApart
    <2> QED
      BY <2>1, <2>2 DEF IInv, OrdersAreAudited
  <1>7. ASSUME NEW q \in Sessions PROVE Sound(q, session[q])'
    <2>1. CASE q = r
      BY <1>3, <2>1, IdleType, RestIsSound
    <2>2. CASE q # r
      BY <1>2, <1>3, <2>2 DEF IInv, Sound, Fits, Compared, Holds
    <2> QED
      BY <2>1, <2>2
  <1> QED
    BY <1>4, <1>5, <1>6, <1>7 DEF IInv

\* A sale takes a unit of a product nobody holds.
LEMMA SellKeeps ==
    ASSUME IInv, NEW p \in Products, Sell(p)
    PROVE  IInv'
  <1>1. /\ holder[p] = None
        /\ stock' = [stock EXCEPT ![p] = @ - 1] /\ ledger' = [ledger EXCEPT ![p] = @ - 1]
        /\ UNCHANGED <<po, receipts, holder, session, audit, torn, inPanel, unlogged>>
    BY DEF Sell
  <1>2. TypeOK'
    BY <1>1 DEF IInv, TypeOK
  <1>3. NeverOverRecorded' /\ OrdersAreAudited'
    BY <1>1 DEF IInv, NeverOverRecorded, OrdersAreAudited
  <1>4. StockMatchesReceipts'
    <2> SUFFICES ASSUME NEW q \in Products, q \notin inPanel
                 PROVE  stock'[q] = Initial[q] + ledger'[q]
      BY <1>1 DEF StockMatchesReceipts
    <2>1. /\ stock[q] = Initial[q] + ledger[q]
          /\ stock[q] \in Int /\ ledger[q] \in Int /\ Initial[q] \in Int
      BY PurchasingAssumption DEF IInv, TypeOK, StockMatchesReceipts
    <2>2. CASE q = p
      <3>1. stock'[q] = stock[q] - 1 /\ ledger'[q] = ledger[q] - 1
        BY <1>1, <2>2 DEF IInv, TypeOK
      <3> QED
        BY <2>1, <3>1
    <2>3. CASE q # p
      <3>1. stock'[q] = stock[q] /\ ledger'[q] = ledger[q]
        BY <1>1, <2>3 DEF IInv, TypeOK
      <3> QED
        BY <2>1, <3>1
    <2> QED
      BY <2>2, <2>3
  <1>5. ASSUME NEW q \in Sessions PROVE Sound(q, session[q])'
    <2>1. /\ Sound(q, session[q]) /\ Listed(session[q].goods) \subseteq Products /\ q # None
      BY SessionsApart DEF IInv, Listed
    <2>2. \A x \in Products : holder[x] = q => stock'[x] = stock[x]
      BY <1>1, <2>1 DEF IInv, TypeOK
    <2> QED
      BY <1>1, <2>1, <2>2 DEF Sound, Fits, Compared, Holds
  <1> QED
    BY <1>2, <1>3, <1>4, <1>5 DEF IInv

\* A crash: entries still owed are counted as lost.
LEMMA RestartKeeps ==
    ASSUME IInv, Restart
    PROVE  IInv'
  <1>1. /\ session' = [r \in Sessions |-> Idle]
        /\ holder' = [p \in Products |-> None]
        /\ unlogged' = unlogged \cup {session[r].cur :
                                        r \in {q \in Sessions : session[q].stage = "logging"}}
        /\ UNCHANGED <<po, receipts, stock, ledger, audit, torn, inPanel>>
    BY DEF Restart
  <1>2. \A r \in Sessions : session[r].stage = "logging" => session[r].cur \in Ids
    BY DEF IInv, Sound, Fits
  <1>3. TypeOK'
    BY <1>1, <1>2, IdleType DEF IInv, TypeOK
  <1>4. NeverOverRecorded' /\ StockMatchesReceipts'
    BY <1>1 DEF IInv, NeverOverRecorded, StockMatchesReceipts
  <1>5. OrdersAreAudited'
    <2>1. \A r \in Requests : session[r].stage = "logging" => session[r].cur \in unlogged'
      BY <1>1, SessionsApart
    <2> QED
      BY <1>1, <2>1 DEF IInv, OrdersAreAudited
  <1>6. ASSUME NEW q \in Sessions PROVE Sound(q, session[q])'
    BY <1>1, IdleType, RestIsSound
  <1> QED
    BY <1>3, <1>4, <1>5, <1>6 DEF IInv

\* The item quantities, the stock and the movements of one receipt.
LEMMA CommitReceiptKeeps ==
    ASSUME IInv, NEW r \in Sessions, CommitReceipt(r)
    PROVE  IInv'
  <1> DEFINE o == session[r].cur
             goods == session[r].goods
             seen == session[r].seen
             base == session[r].base
             after == StatusAfter(r)
  <1>1. /\ session[r].stage = "locking" /\ session[r].todo = {}
        /\ o \in Ids /\ po[o].status # "absent"
        /\ goods \in [Products -> Nat] /\ base \in [Products -> Int]
        /\ seen.received \in [Products -> Nat] /\ seen.lines \in [Products -> Nat]
    BY SessionFields DEF IInv, CommitReceipt, Sound, Fits
  <1>2. /\ seen.lines = po[o].lines
        /\ \A p \in Products : seen.received[p] <= receipts[o][p]
        /\ \A p \in Listed(goods) : seen.received[p] + goods[p] <= seen.lines[p]
        /\ \A p \in Listed(goods) :
              holder[p] = r /\ (r \in Requests => base[p] = stock[p])
    BY <1>1 DEF IInv, Sound, Compared, Holds
  <1>3. /\ Listed(goods) \subseteq Products
        /\ \A p \in Products \ Listed(goods) : goods[p] = 0
    BY <1>1 DEF Listed
  <1>4. after \in {"received", "partially_received"}
    BY DEF StatusAfter
  <1>5. /\ stock' = [p \in Products |-> IF p \in Listed(goods) THEN base[p] + goods[p]
                                                               ELSE stock[p]]
        /\ ledger' = [p \in Products |-> ledger[p] + goods[p]]
        /\ receipts' = [receipts EXCEPT ![o] = [p \in Products |-> @[p] + goods[p]]]
        /\ po' = [po EXCEPT
              ![o].received = [p \in Products |-> IF p \in Listed(goods)
                                                  THEN seen.received[p] + goods[p] ELSE @[p]],
              ![o].status = IF after # seen.status THEN after ELSE @]
        /\ torn' = torn \cup Outdated(r)
        /\ inPanel' = IF r \in Wizards THEN inPanel \cup Listed(goods) ELSE inPanel
        /\ AfterCommit(r, "received") /\ Unlock(r) /\ UNCHANGED audit
    BY DEF CommitReceipt, Arrived
  <1>6. Outdated(r) \subseteq Ids
    BY <1>1 DEF Outdated
  <1>7. /\ session' \in [Sessions -> SessionRecord]
        /\ \A q \in Sessions \ {r} : session'[q] = session[q]
        /\ session'[r].stage \in {"idle", "again", "logging"}
        /\ session'[r].stage # "idle" => session'[r].cur = o
        /\ session'[r].stage = "logging" => r \in Requests
        /\ unlogged' \in SUBSET Ids /\ unlogged \subseteq unlogged'
    BY <1>1, <1>5, AfterCommitStates DEF IInv, Statuses
  <1>8. r \in Sessions
    OBVIOUS
  <1> HIDE DEF o, goods, seen, base, after
  <1>9. /\ \A i \in Ids \ {o} : po'[i] = po[i]
        /\ po'[o].status \in {after, po[o].status} /\ po'[o].lines = po[o].lines
        /\ po'[o].received = [p \in Products |-> IF p \in Listed(goods)
                                 THEN seen.received[p] + goods[p] ELSE po[o].received[p]]
        /\ po'[o] \in OrderRecord
    <2>1. po[o] \in OrderRecord /\ po[o].received \in [Products -> Nat]
      BY <1>1, OrderFields DEF IInv
    <2> DEFINE received == [p \in Products |-> IF p \in Listed(goods)
                               THEN seen.received[p] + goods[p] ELSE po[o].received[p]]
               status == IF after # seen.status THEN after ELSE po[o].status
    <2>2. received \in [Products -> Nat]
      BY <1>1, <2>1
    <2>3. status \in Statuses /\ status \in {after, po[o].status}
      BY <1>1, <1>4, OrderFields DEF IInv, Statuses
    <2>4. po' = [po EXCEPT ![o] = [[po[o] EXCEPT !.received = received] EXCEPT !.status = status]]
      BY <1>1, <1>5 DEF IInv, TypeOK
    <2> HIDE DEF received, status
    <2>5. /\ \A i \in Ids \ {o} : po'[i] = po[i]
          /\ po'[o] = [[po[o] EXCEPT !.received = received] EXCEPT !.status = status]
      BY <1>1, <2>4 DEF IInv, TypeOK
    <2>6. /\ po'[o].status = status /\ po'[o].lines = po[o].lines /\ po'[o].received = received
          /\ po'[o] \in OrderRecord
      BY <2>1, <2>2, <2>3, <2>5 DEF OrderRecord
    <2> QED
      BY <2>3, <2>5, <2>6 DEF received
  <1>10. /\ receipts' \in [Ids -> [Products -> Nat]]
         /\ \A i \in Ids, p \in Products : receipts[i][p] <= receipts'[i][p]
         /\ \A p \in Products : receipts'[o][p] = receipts[o][p] + goods[p]
         /\ \A i \in Ids \ {o} : receipts'[i] = receipts[i]
    BY <1>1, <1>5 DEF IInv, TypeOK
  <1>11. TypeOK'
    <2>1. po' \in [Ids -> OrderRecord]
      BY <1>1, <1>5, <1>9 DEF IInv, TypeOK
    <2>2. stock' \in [Products -> Int] /\ ledger' \in [Products -> Int]
      BY <1>1, <1>5 DEF IInv, TypeOK
    <2>3. holder' \in [Products -> Sessions \cup {None}]
      BY <1>5 DEF IInv, TypeOK, Unlock
    <2> QED
      BY <1>3, <1>5, <1>6, <1>7, <1>10, <2>1, <2>2, <2>3 DEF IInv, TypeOK
  <1>12. NeverOverRecorded'
    <2> SUFFICES ASSUME NEW i \in Ids, NEW p \in Products
                 PROVE  po'[i].received[p] <= po'[i].lines[p]
                        /\ po'[i].received[p] <= receipts'[i][p]
      BY DEF NeverOverRecorded
    <2>1. po[i].received[p] <= po[i].lines[p] /\ po[i].received[p] <= receipts[i][p]
      BY DEF IInv, NeverOverRecorded
    <2>2. CASE i # o
      BY <1>9, <1>10, <2>1, <2>2
    <2>3. CASE i = o /\ p \in Listed(goods)
      <3>1. po'[o].received[p] = seen.received[p] + goods[p]
        BY <1>9, <2>3
      <3>2. /\ seen.received[p] \in Nat /\ goods[p] \in Nat /\ receipts[o][p] \in Nat
            /\ seen.received[p] <= receipts[o][p]
            /\ seen.received[p] + goods[p] <= po[o].lines[p]
        BY <1>1, <1>2, <2>3, OrderFields DEF IInv
      <3> QED
        BY <1>9, <1>10, <2>3, <3>1, <3>2
    <2>4. CASE i = o /\ p \notin Listed(goods)
      <3>1. po'[o].received[p] = po[o].received[p] /\ goods[p] = 0 /\ receipts[o][p] \in Nat
        BY <1>1, <1>3, <1>9, <2>4, OrderFields DEF IInv
      <3> QED
        BY <1>9, <1>10, <2>1, <2>4, <3>1
    <2> QED
      BY <2>2, <2>3, <2>4
  <1>13. StockMatchesReceipts'
    <2> SUFFICES ASSUME NEW p \in Products, p \notin inPanel'
                 PROVE  stock'[p] = Initial[p] + ledger'[p]
      BY DEF StockMatchesReceipts
    <2>1. p \notin inPanel /\ stock[p] = Initial[p] + ledger[p]
      BY <1>5 DEF IInv, StockMatchesReceipts
    <2>2. stock[p] \in Int /\ ledger[p] \in Int /\ Initial[p] \in Int /\ goods[p] \in Nat
      BY <1>1, PurchasingAssumption DEF IInv, TypeOK
    <2>3. CASE p \in Listed(goods)
      <3>1. base[p] = stock[p]
        BY <1>2, <1>5, <1>8, <2>3, SessionsApart
      <3> QED
        BY <1>5, <2>1, <2>2, <2>3, <3>1
    <2>4. CASE p \notin Listed(goods)
      BY <1>3, <1>5, <2>1, <2>2, <2>4
    <2> QED
      BY <2>3, <2>4
  <1>14. OrdersAreAudited'
    <2>1. \A i \in Ids : po'[i].status = "ordered" => po[i].status = "ordered"
      BY <1>4, <1>9
    <2>2. \A q \in Requests : session[q].stage = "logging" => session'[q] = session[q]
      BY <1>1, <1>7, SessionsApart
    <2> SUFFICES ASSUME NEW i \in Ids, po'[i].status = "ordered"
                 PROVE  \/ i \in audit \/ i \in unlogged'
                        \/ \E q \in Requests : /\ session'[q].stage = "logging"
                                               /\ session'[q].cur = i
                                               /\ session'[q].to = "ordered"
      BY <1>5 DEF OrdersAreAudited
    <2>3. CASE i \in audit \/ i \in unlogged
      BY <1>7, <2>3
    <2>4. ASSUME NEW q \in Requests, session[q].stage = "logging", session[q].cur = i,
                 session[q].to = "ordered"
          PROVE  session'[q] = session[q]
      BY <2>2, <2>4
    <2> QED
      BY <2>1, <2>3, <2>4 DEF IInv, OrdersAreAudited
  <1>15. ASSUME NEW q \in Sessions PROVE Sound(q, session[q])'
    <2>1. CASE q = r
      BY <1>1, <1>4, <1>7, <1>9, <2>1 DEF Sound, Fits, Compared, Holds
    <2>2. CASE q # r
      <3>1. \A i \in Ids : po[i].status # "absent" =>
               po'[i].status # "absent" /\ po'[i].lines = po[i].lines
        BY <1>4, <1>9
      <3>2. \A p \in Products : holder[p] \notin {r, None} =>
               holder'[p] = holder[p] /\ stock'[p] = stock[p]
        BY <1>2, <1>5 DEF Unlock
      <3> QED
        BY <1>7, <1>10, <2>2, <3>1, <3>2, OthersStaySound
    <2> QED
      BY <2>1, <2>2
  <1> QED
    BY <1>11, <1>12, <1>13, <1>14, <1>15 DEF IInv

\* A new order: no session works on it yet.
LEMMA InsertOrderKeeps ==
    ASSUME IInv, NEW r \in Sessions, NEW u \in Users, NEW lines \in Lines,
           session[r].stage # "logging", InsertOrder(r, u, lines)
    PROVE  IInv'
  <1>1. PICK o \in Ids :
           /\ po[o].status = "absent"
           /\ po' = [po EXCEPT ![o] = [NoOrder EXCEPT !.status = "draft", !.owner = u,
                                                      !.lines = lines]]
           /\ session' = [session EXCEPT ![r] = IF r \in Requests
                 THEN [Idle EXCEPT !.stage = "logging", !.cur = o, !.to = "draft"] ELSE Idle]
           /\ unlogged' = IF r \in Wizards THEN unlogged \cup {o} ELSE unlogged
           /\ UNCHANGED <<receipts, stock, ledger, holder, audit, torn, inPanel>>
    BY DEF InsertOrder, IsNext
  <1> DEFINE new == [NoOrder EXCEPT !.status = "draft", !.owner = u, !.lines = lines]
             entry == [Idle EXCEPT !.stage = "logging", !.cur = o, !.to = "draft"]
             s == IF r \in Requests THEN entry ELSE Idle
  <1>2. /\ new \in OrderRecord /\ new.status = "draft" /\ new.lines = lines
        /\ new.received = Nothing /\ lines \in [Products -> Nat]
    BY NoOrderType, NothingType, PurchasingAssumption DEF OrderRecord, NoOrder, Statuses
  <1>3. entry \in SessionRecord /\ entry.stage = "logging" /\ entry.cur = o
    BY IdleType DEF SessionRecord, Stages, Statuses
  <1>4. po' = [po EXCEPT ![o] = new] /\ session' = [session EXCEPT ![r] = s]
    BY <1>1
  <1> HIDE DEF new, entry
  <1>5. /\ s \in SessionRecord
        /\ s.stage = "idle" \/ (s.stage = "logging" /\ s.cur = o /\ r \in Requests)
    <2>1. CASE r \in Requests
      BY <1>3, <2>1
    <2>2. CASE r \notin Requests
      <3>1. s = Idle
        BY <2>2
      <3> HIDE DEF s
      <3> QED
        BY <3>1, IdleType
    <2> QED
      BY <2>1, <2>2
  <1> HIDE DEF s
  <1>6. /\ po'[o] = new /\ \A i \in Ids \ {o} : po'[i] = po[i]
        /\ session'[r] = s /\ \A q \in Sessions \ {r} : session'[q] = session[q]
    BY <1>1, <1>4 DEF IInv, TypeOK
  <1>7. TypeOK'
    BY <1>1, <1>2, <1>4, <1>5 DEF IInv, TypeOK
  <1>8. NeverOverRecorded'
    <2> SUFFICES ASSUME NEW i \in Ids, NEW p \in Products
                 PROVE  po'[i].received[p] <= po'[i].lines[p]
                        /\ po'[i].received[p] <= receipts'[i][p]
      BY DEF NeverOverRecorded
    <2>1. CASE i = o
      <3>1. lines[p] \in Nat /\ receipts[i][p] \in Nat
        BY <1>2, OrderFields DEF IInv
      <3>2. Nothing[p] = 0
        BY DEF Nothing
      <3>3. po'[i].received = Nothing /\ po'[i].lines = lines
        BY <1>2, <1>6, <2>1
      <3>4. receipts' = receipts
        BY <1>1
      <3> QED
        BY <3>1, <3>2, <3>3, <3>4
    <2>2. CASE i # o
      BY <1>1, <1>6, <2>2 DEF IInv, NeverOverRecorded
    <2> QED
      BY <2>1, <2>2
  <1>9. StockMatchesReceipts'
    BY <1>1 DEF IInv, StockMatchesReceipts
  <1>10. OrdersAreAudited'
    <2>1. \A i \in Ids : po'[i].status = "ordered" => po[i].status = "ordered"
      BY <1>2, <1>6
    <2>2. \A q \in Requests : session[q].stage = "logging" => session'[q] = session[q]
      BY <1>6, SessionsApart
    <2> QED
      BY <1>1, <2>1, <2>2 DEF IInv, OrdersAreAudited
  <1>11. ASSUME NEW q \in Sessions PROVE Sound(q, session[q])'
    <2>1. CASE q = r
      BY <1>1, <1>2, <1>5, <1>6, <2>1 DEF Sound, Fits, Compared, Holds
    <2>2. CASE q # r
      <3>1. /\ \A i \in Ids : po[i].status # "absent" =>
                  po'[i].status # "absent" /\ po'[i].lines = po[i].lines
            /\ receipts' \in [Ids -> [Products -> Nat]]
            /\ \A i \in Ids, p \in Products : receipts[i][p] <= receipts'[i][p]
        BY <1>1, <1>6, OrderFields DEF IInv, TypeOK
      <3> QED
        BY <1>1, <1>6, <2>2, <3>1, OthersStaySound
    <2> QED
      BY <2>1, <2>2
  <1> QED
    BY <1>7, <1>8, <1>9, <1>10, <1>11 DEF IInv

-----------------------------------------------------------------------------
(* The theorems *)

\* A decision or a receipt that a request or a wizard begins.
LEMMA BeginKeeps ==
    ASSUME IInv, NEW r \in Sessions, NEW u \in Users, NEW o \in Ids,
           session[r].stage # "logging",
           \/ SubmitForReview(r, u, o) \/ MarkOrdered(r, u, o) \/ RejectOrder(r, u, o)
           \/ CancelOrder(r, u, o) \/ \E goods \in Shipments : ReceiveItems(r, u, o, goods)
    PROVE  IInv'
  <1>1. CASE SubmitForReview(r, u, o)
    BY <1>1, DecideKeeps DEF SubmitForReview, Statuses
  <1>2. CASE MarkOrdered(r, u, o)
    BY <1>2, DecideKeeps DEF MarkOrdered, Statuses
  <1>3. CASE RejectOrder(r, u, o)
    BY <1>3, DecideKeeps DEF RejectOrder, Statuses
  <1>4. CASE CancelOrder(r, u, o)
    BY <1>4, DecideKeeps DEF CancelOrder, Statuses
  <1>5. CASE \E goods \in Shipments : ReceiveItems(r, u, o, goods)
    BY <1>5, ReceiveItemsKeeps
  <1> QED
    BY <1>1, <1>2, <1>3, <1>4, <1>5

LEMMA RequestKeeps ==
    ASSUME IInv, NEW r \in Requests, Request(r)
    PROVE  IInv'
  <1>1. r \in Sessions /\ session[r].stage = "idle"
    BY SessionsApart DEF Request, PostOrder, PostSubmit, PostMarkOrdered, PostReject, PostCancel,
          PostReceive, Free
  <1>2. \/ \E u \in Users, lines \in Lines : InsertOrder(r, u, lines)
        \/ \E u \in Users, o \in Ids :
              \/ SubmitForReview(r, u, o) \/ MarkOrdered(r, u, o) \/ RejectOrder(r, u, o)
              \/ CancelOrder(r, u, o) \/ \E goods \in Shipments : ReceiveItems(r, u, o, goods)
    BY DEF Request, PostOrder, PostSubmit, PostMarkOrdered, PostReject, PostCancel, PostReceive
  <1> QED
    BY <1>1, <1>2, InsertOrderKeeps, BeginKeeps

LEMMA PanelKeeps ==
    ASSUME IInv, NEW r \in Wizards, Panel(r)
    PROVE  IInv'
  <1>1. r \in Sessions
    BY SessionsApart
  <1>2. CASE WizardStep(r)
    <2>1. session[r].stage = "panel"
      BY <1>2 DEF WizardStep
    <2>2. \/ \E u \in Users, lines \in Lines : InsertOrder(r, u, lines)
          \/ \E u \in Users, o \in Ids :
                SubmitForReview(r, u, o) \/ \E goods \in Shipments : ReceiveItems(r, u, o, goods)
      BY <1>2, PurchasingAssumption DEF WizardStep
    <2> QED
      BY <1>1, <2>1, <2>2, InsertOrderKeeps, BeginKeeps
  <1>3. CASE WizardOrder(r)
    <2>1. /\ session[r].stage = "again" /\ session[r].cur \in Ids
          /\ \E u \in Users : MarkOrdered(r, u, session[r].cur)
      BY <1>1, <1>3, PurchasingAssumption DEF IInv, Sound, Fits, WizardOrder
    <2> QED
      BY <1>1, <2>1, BeginKeeps
  <1> QED
    BY <1>1, <1>2, <1>3, OpenWizardKeeps, LeaveWizardKeeps DEF Panel

LEMMA InitHolds == Init => IInv
  <1> SUFFICES ASSUME Init PROVE IInv
    OBVIOUS
  <1>1. TypeOK
    BY NothingType, NoOrderType, IdleType, PurchasingAssumption DEF Init, TypeOK
  <1>2. NeverOverRecorded
    BY DEF Init, NeverOverRecorded, NoOrder, Nothing
  <1>3. StockMatchesReceipts
    BY PurchasingAssumption DEF Init, StockMatchesReceipts, Nothing
  <1>4. OrdersAreAudited
    BY DEF Init, OrdersAreAudited, NoOrder
  <1>5. ASSUME NEW r \in Sessions PROVE Sound(r, session[r])
    <2>1. session[r].stage = "idle"
      BY IdleType DEF Init
    <2> QED
      BY <2>1 DEF Sound, Fits, Compared, Holds
  <1> QED
    BY <1>1, <1>2, <1>3, <1>4, <1>5 DEF IInv

LEMMA NextKeeps == IInv /\ [Next]_vars => IInv'
  <1> SUFFICES ASSUME IInv, [Next]_vars PROVE IInv'
    OBVIOUS
  <1>1. CASE UNCHANGED vars
    BY <1>1 DEF vars, IInv, TypeOK, Sound, Fits, Compared, Holds, NeverOverRecorded,
                StockMatchesReceipts, OrdersAreAudited
  <1>2. ASSUME NEW r \in Sessions, Commit(r) PROVE IInv'
    BY <1>2, CommitDecisionKeeps, LockProductKeeps, CommitReceiptKeeps, LogActionKeeps DEF Commit
  <1> QED
    BY <1>1, <1>2, RequestKeeps, PanelKeeps, AbortKeeps, SellKeeps, RestartKeeps DEF Next

\* The tables are of their types in every behaviour.
THEOREM PurchasingTypes == Spec => []TypeOK
  <1>1. IInv => TypeOK
    BY DEF IInv
  <1> QED
    BY <1>1, InitHolds, NextKeeps, PTL DEF Spec

\* receive_purchase_order_items: although receipts are compared with an unlocked
\* copy, no item ever records more than was ordered, nor more than has come in.
THEOREM ReceiptsAreBounded == Spec => []NeverOverRecorded
  <1>1. IInv => NeverOverRecorded
    BY DEF IInv
  <1> QED
    BY <1>1, InitHolds, NextKeeps, PTL DEF Spec

\* The row lock on the product: stock that the wizard has not written is what it
\* was plus its movements, whatever requests and sales overlap.
THEOREM ReceiptsAreNotLost == Spec => []StockMatchesReceipts
  <1>1. IInv => StockMatchesReceipts
    BY DEF IInv
  <1> QED
    BY <1>1, InitHolds, NextKeeps, PTL DEF Spec

\* log_action: an order that stands ordered has its entry, or the request that
\* owes it is still there, or the entry was lost in a crash or never written.
THEOREM ApprovalsAreAccountedFor == Spec => []OrdersAreAudited
  <1>1. IInv => OrdersAreAudited
    BY DEF IInv
  <1> QED
    BY <1>1, InitHolds, NextKeeps, PTL DEF Spec

-----------------------------------------------------------------------------
(* Orders nobody wrote from an outdated copy *)

\* What a session found in its copy of the order before it decided: a status
\* without receipts, or no receipts; and a receipt brings something in.
Considered(s) ==
    /\ s.stage = "deciding" =>
          /\ s.to \notin {"received", "partially_received"}
          /\ \/ s.seen.status \in {"draft", "pending_review"}
             \/ \A p \in Products : s.seen.received[p] = 0
    /\ s.stage = "locking" => Listed(s.goods) # {}

UntornInv ==
    /\ IInv
    /\ \A r \in Sessions : Considered(session[r])
    /\ UntornOrdersAddUp

\* What UntornOrdersAddUp says of one order and its receipts.
AddsUp(order, came) ==
    /\ order.received = came
    /\ order.status = "received" => \A p \in Products : order.received[p] = order.lines[p]
    /\ order.status = "partially_received" =>
          /\ \E p \in Products : order.received[p] # order.lines[p]
          /\ \E p \in Products : order.received[p] # 0
    /\ order.status \notin {"received", "partially_received"} =>
          \A p \in Products : order.received[p] = 0

LEMMA UntornOrders == UntornOrdersAddUp <=> \A o \in Ids \ torn : AddsUp(po[o], receipts[o])
  BY DEF UntornOrdersAddUp, AddsUp, Complete, Untouched

LEMMA UntornOrdersNext ==
    ASSUME \A o \in Ids \ torn' : AddsUp(po'[o], receipts'[o])
    PROVE  UntornOrdersAddUp'
  BY DEF UntornOrdersAddUp, AddsUp, Complete, Untouched

\* A decision leaves the receipts alone, and found the order without any.
LEMMA DecisionAddsUp ==
    ASSUME UntornInv, NEW r \in Sessions, CommitDecision(r)
    PROVE  UntornOrdersAddUp'
  <1> DEFINE s == session[r]
             o == s.cur
  <1>1. /\ s.stage = "deciding" /\ o \in Ids /\ Considered(s)
        /\ po' = [po EXCEPT ![o].status = s.to]
        /\ torn' = torn \cup Outdated(r) /\ receipts' = receipts
        /\ TypeOK /\ \A q \in Ids \ torn : AddsUp(po[q], receipts[q])
    BY UntornOrders DEF UntornInv, IInv, Sound, Fits, CommitDecision
  <1>2. ASSUME NEW q \in Ids \ torn', q # o PROVE AddsUp(po'[q], receipts'[q])
    BY <1>1, <1>2 DEF TypeOK
  <1>3. ASSUME o \notin torn' PROVE AddsUp(po'[o], receipts'[o])
    <2>1. po[o] = s.seen /\ AddsUp(po[o], receipts[o])
      BY <1>1, <1>3 DEF Outdated
    <2>2. /\ po'[o].status = s.to /\ po'[o].received = po[o].received
          /\ po'[o].lines = po[o].lines
      BY <1>1, OrderFields DEF TypeOK, OrderRecord
    <2>3. \A p \in Products : po[o].received[p] = 0
      BY <1>1, <2>1 DEF Considered, AddsUp
    <2>4. s.to \notin {"received", "partially_received"}
      BY <1>1 DEF Considered
    <2> QED
      BY <1>1, <2>1, <2>2, <2>3, <2>4 DEF AddsUp
  <1> QED
    BY <1>2, <1>3, UntornOrdersNext

\* A receipt that was compared with the order as it still is.
LEMMA ReceiptAddsUp ==
    ASSUME UntornInv, NEW r \in Sessions, CommitReceipt(r)
    PROVE  UntornOrdersAddUp'
  <1> DEFINE s == session[r]
             o == s.cur
             after == StatusAfter(r)
             received == [p \in Products |-> IF p \in Listed(s.goods) THEN Arrived(r, p)
                                                                   ELSE po[o].received[p]]
  <1>1. /\ s.stage = "locking" /\ s.todo = {} /\ o \in Ids
        /\ Listed(s.goods) # {}
        /\ po' = [po EXCEPT ![o].received = [p \in Products |->
                                IF p \in Listed(s.goods) THEN Arrived(r, p) ELSE @[p]],
                            ![o].status = IF after # s.seen.status THEN after ELSE @]
        /\ receipts' = [receipts EXCEPT ![o] = [p \in Products |-> @[p] + s.goods[p]]]
        /\ torn' = torn \cup Outdated(r)
        /\ TypeOK /\ \A q \in Ids \ torn : AddsUp(po[q], receipts[q])
    BY UntornOrders DEF UntornInv, IInv, Sound, Fits, Considered, CommitReceipt
  <1>2. ASSUME NEW q \in Ids \ torn', q # o PROVE AddsUp(po'[q], receipts'[q])
    BY <1>1, <1>2 DEF TypeOK
  <1>3. ASSUME o \notin torn' PROVE AddsUp(po'[o], receipts'[o])
    <2>1. po[o] = s.seen /\ AddsUp(po[o], receipts[o])
      BY <1>1, <1>3 DEF Outdated
    <2>2. /\ s.goods \in [Products -> Nat] /\ po[o] \in OrderRecord
          /\ po[o].received \in [Products -> Nat] /\ po[o].lines \in [Products -> Nat]
          /\ receipts[o] = po[o].received
          /\ Listed(s.goods) \subseteq Products
          /\ \A p \in Products \ Listed(s.goods) : s.goods[p] = 0
          /\ \A p \in Listed(s.goods) : s.goods[p] > 0
      BY <1>1, <2>1, SessionFields, OrderFields DEF AddsUp, Listed
    <2>3. \A p \in Products : po[o].received[p] <= po[o].lines[p]
      BY <1>1 DEF UntornInv, IInv, NeverOverRecorded
    <2>4. \A p \in Listed(s.goods) : s.seen.received[p] + s.goods[p] <= s.seen.lines[p]
      BY <1>1 DEF UntornInv, IInv, Sound, Compared
    <2>5. \A p \in Products : Arrived(r, p) = po[o].received[p] + s.goods[p]
      BY <2>1 DEF Arrived
    <2> DEFINE status == IF after # s.seen.status THEN after ELSE po[o].status
    <2>6. po'[o] = [[po[o] EXCEPT !.received = received] EXCEPT !.status = status]
      BY <1>1 DEF TypeOK
    <2>7. status = after
      BY <2>1
    <2> HIDE DEF received, status, after
    <2>8. /\ po'[o].received = received /\ po'[o].lines = po[o].lines /\ po'[o].status = after
      BY <2>2, <2>6, <2>7 DEF OrderRecord
    <2>9. \A p \in Products : received[p] = po[o].received[p] + s.goods[p]
      BY <2>2, <2>5 DEF received
    <2>10. receipts'[o] = [p \in Products |-> receipts[o][p] + s.goods[p]]
      BY <1>1 DEF TypeOK
    <2>11. received = receipts'[o]
      BY <2>2, <2>9, <2>10 DEF received
    <2>12. \A p \in Products : received[p] <= po[o].lines[p]
      <3> SUFFICES ASSUME NEW p \in Products PROVE received[p] <= po[o].lines[p]
        OBVIOUS
      <3>1. CASE p \in Listed(s.goods)
        BY <2>1, <2>4, <2>9, <3>1
      <3>2. CASE p \notin Listed(s.goods)
        BY <2>2, <2>3, <2>9, <3>2
      <3> QED
        BY <3>1, <3>2
    <2>13. PICK listed \in Listed(s.goods) : TRUE
      BY <1>1
    <2>14. received[listed] # 0
      BY <2>2, <2>9, <2>13
    <2>15. after = IF \A p \in Products : received[p] >= po[o].lines[p]
                   THEN "received" ELSE "partially_received"
      BY <2>1, <2>5, <2>9 DEF after, StatusAfter
    <2>16. \A p \in Products : received[p] \in Nat /\ po[o].lines[p] \in Nat
      BY <2>2, <2>9
    <2>17. CASE \A p \in Products : received[p] >= po[o].lines[p]
      <3>1. \A p \in Products : received[p] = po[o].lines[p]
        BY <2>12, <2>16, <2>17
      <3> QED
        BY <2>8, <2>11, <2>15, <2>17, <3>1 DEF AddsUp
    <2>18. CASE ~\A p \in Products : received[p] >= po[o].lines[p]
      <3>1. \E p \in Products : received[p] # po[o].lines[p]
        BY <2>16, <2>18
      <3> QED
        BY <2>2, <2>8, <2>11, <2>14, <2>15, <2>18, <3>1 DEF AddsUp
    <2> QED
      BY <2>17, <2>18
  <1> QED
    BY <1>2, <1>3, UntornOrdersNext

\* A new order has no receipts: those of its number are none.
LEMMA InsertAddsUp ==
    ASSUME UntornInv, NEW r, NEW u, NEW lines, InsertOrder(r, u, lines)
    PROVE  UntornOrdersAddUp'
  <1>1. PICK o \in Ids :
           /\ po[o].status = "absent"
           /\ po' = [po EXCEPT ![o] = [NoOrder EXCEPT !.status = "draft", !.owner = u,
                                                      !.lines = lines]]
           /\ receipts' = receipts /\ torn' = torn
    BY DEF InsertOrder, IsNext
  <1> DEFINE new == [NoOrder EXCEPT !.status = "draft", !.owner = u, !.lines = lines]
  <1>2. TypeOK /\ \A q \in Ids \ torn : AddsUp(po[q], receipts[q])
    BY UntornOrders DEF UntornInv, IInv
  <1>3. new.status = "draft" /\ new.received = Nothing
    BY DEF NoOrder
  <1> HIDE DEF new
  <1>4. po'[o] = new /\ \A q \in Ids \ {o} : po'[q] = po[q]
    BY <1>1, <1>2 DEF TypeOK, new
  <1>5. ASSUME o \notin torn PROVE AddsUp(po'[o], receipts'[o])
    <2>1. AddsUp(po[o], receipts[o])
      BY <1>2, <1>5
    <2>2. receipts[o] \in [Products -> Nat] /\ \A p \in Products : receipts[o][p] = 0
      BY <1>1, <1>2, <2>1, OrderFields DEF AddsUp
    <2>3. receipts[o] = Nothing
      BY <2>2 DEF Nothing
    <2>4. \A p \in Products : Nothing[p] = 0
      BY DEF Nothing
    <2> QED
      BY <1>1, <1>3, <1>4, <2>3, <2>4 DEF AddsUp
  <1> QED
    BY <1>1, <1>2, <1>4, <1>5, UntornOrdersNext

LEMMA RestAddsUp ==
    ASSUME UntornInv, UNCHANGED <<po, receipts, torn>>
    PROVE  UntornOrdersAddUp'
  BY DEF UntornInv, UntornOrdersAddUp, Complete, Untouched

\* Every step but the commits and the insertions leaves the orders alone.
LEMMA NextAddsUp ==
    ASSUME UntornInv, [Next]_vars
    PROVE  UntornOrdersAddUp'
  <1>1. CASE UNCHANGED vars \/ Restart \/ \E p \in Products : Sell(p)
    BY <1>1, RestAddsUp DEF vars, Restart, Sell
  <1>2. ASSUME NEW r \in Sessions, Commit(r) \/ Abort(r) PROVE UntornOrdersAddUp'
    BY <1>2, DecisionAddsUp, ReceiptAddsUp, RestAddsUp DEF Commit, LockProduct, LogAction, Abort
  <1>3. ASSUME NEW r, NEW u, NEW o,
               \/ SubmitForReview(r, u, o) \/ MarkOrdered(r, u, o) \/ RejectOrder(r, u, o)
               \/ CancelOrder(r, u, o) \/ \E goods \in Shipments : ReceiveItems(r, u, o, goods)
        PROVE  UntornOrdersAddUp'
    <2>1. ASSUME NEW state, Hold(r, u, o, state) PROVE UntornOrdersAddUp'
      BY <2>1, RestAddsUp DEF Hold
    <2>2. PICK state : Hold(r, u, o, state)
      <3>1. CASE \E goods \in Shipments : ReceiveItems(r, u, o, goods)
        BY <3>1 DEF ReceiveItems
      <3>2. CASE \E to : Decide(r, u, o, to)
        BY <3>2 DEF Decide
      <3> QED
        BY <1>3, <3>1, <3>2 DEF SubmitForReview, MarkOrdered, RejectOrder, CancelOrder
    <2> QED
      BY <2>1, <2>2
  <1>4. ASSUME NEW r \in Requests, Request(r) PROVE UntornOrdersAddUp'
    BY <1>3, <1>4, InsertAddsUp DEF Request, PostOrder, PostSubmit, PostMarkOrdered, PostReject,
          PostCancel, PostReceive
  <1>5. ASSUME NEW r \in Wizards, Panel(r) PROVE UntornOrdersAddUp'
    BY <1>3, <1>5, InsertAddsUp, RestAddsUp DEF Panel, OpenWizard, WizardStep, WizardOrder,
          LeaveWizard
  <1> QED
    BY <1>1, <1>2, <1>4, <1>5 DEF Next

\* A session that neither decides nor receives has nothing to have considered.
LEMMA OneConsidered ==
    ASSUME TypeOK, \A r \in Sessions : Considered(session[r]), NEW r \in Sessions, NEW s,
           session' = [session EXCEPT ![r] = s], Considered(s)
    PROVE  \A q \in Sessions : Considered(session[q])'
  BY DEF TypeOK, Considered

LEMMA ReceiveConsidered ==
    ASSUME UntornInv, NEW r \in Sessions, NEW u, NEW o \in Ids, NEW goods \in Shipments,
           ReceiveItems(r, u, o, goods)
    PROVE  \A q \in Sessions : Considered(session[q])'
  <1> DEFINE t == [session[r] EXCEPT !.stage = "locking", !.goods = goods,
                                     !.todo = Listed(goods)]
             s == [t EXCEPT !.cur = o, !.seen = po[o]]
  <1>1. /\ TypeOK /\ \A q \in Sessions : Considered(session[q])
        /\ session[r] \in SessionRecord
    BY SessionFields DEF UntornInv, IInv
  <1>2. s.stage = "locking" /\ s.goods = goods
    BY <1>1 DEF SessionRecord
  <1>3. Hold(r, u, o, t) /\ Listed(goods) # {}
    BY DEF ReceiveItems
  <1> HIDE DEF t
  <1>4. session' = [session EXCEPT ![r] = s]
    BY <1>3 DEF Hold
  <1> HIDE DEF s
  <1>5. Considered(s)
    BY <1>2, <1>3 DEF Considered
  <1> QED
    BY <1>1, <1>4, <1>5, OneConsidered

LEMMA BeginConsidered ==
    ASSUME UntornInv, NEW r \in Sessions, NEW u, NEW o \in Ids,
           \/ SubmitForReview(r, u, o) \/ MarkOrdered(r, u, o) \/ RejectOrder(r, u, o)
           \/ CancelOrder(r, u, o) \/ \E goods \in Shipments : ReceiveItems(r, u, o, goods)
    PROVE  \A q \in Sessions : Considered(session[q])'
  <1>1. /\ TypeOK /\ \A q \in Sessions : Considered(session[q])
        /\ po[o] \in OrderRecord /\ session[r] \in SessionRecord
    BY OrderFields, SessionFields DEF UntornInv, IInv
  <1>2. ASSUME NEW to \in {"pending_review", "ordered", "rejected", "cancelled"},
               Decide(r, u, o, to),
               \/ po[o].status \in {"draft", "pending_review"}
               \/ \A p \in Products : po[o].received[p] = 0
        PROVE  \A q \in Sessions : Considered(session[q])'
    <2> DEFINE s == [[Idle EXCEPT !.stage = "deciding", !.to = to] EXCEPT !.cur = o, !.seen = po[o]]
    <2>1. session' = [session EXCEPT ![r] = s]
      BY <1>2 DEF Decide, Hold
    <2>2. s.stage = "deciding" /\ s.to = to /\ s.seen = po[o]
      BY DEF Idle
    <2> HIDE DEF s
    <2>3. Considered(s)
      BY <1>2, <2>2 DEF Considered
    <2> QED
      BY <1>1, <2>1, <2>3, OneConsidered
  <1> QED
    BY <1>2, ReceiveConsidered DEF SubmitForReview, MarkOrdered, RejectOrder, CancelOrder

LEMMA InsertConsidered ==
    ASSUME UntornInv, NEW r \in Sessions, NEW u \in Users, NEW lines \in Lines,
           InsertOrder(r, u, lines)
    PROVE  \A q \in Sessions : Considered(session[q])'
  <1>1. PICK o \in Ids :
           /\ po[o].status = "absent"
           /\ po' = [po EXCEPT ![o] = [NoOrder EXCEPT !.status = "draft", !.owner = u,
                                                      !.lines = lines]]
           /\ session' = [session EXCEPT ![r] = IF r \in Requests
                 THEN [Idle EXCEPT !.stage = "logging", !.cur = o, !.to = "draft"] ELSE Idle]
           /\ unlogged' = IF r \in Wizards THEN unlogged \cup {o} ELSE unlogged
           /\ UNCHANGED <<receipts, stock, ledger, holder, audit, torn, inPanel>>
    BY Zenon DEF InsertOrder, IsNext
  <1>2. /\ [Idle EXCEPT !.stage = "logging", !.cur = o, !.to = "draft"].stage = "logging"
        /\ Idle.stage = "idle"
    BY DEF Idle
  <1>3. /\ Considered([Idle EXCEPT !.stage = "logging", !.cur = o, !.to = "draft"])
        /\ Considered(Idle)
    BY <1>2 DEF Considered
  <1>4. TypeOK /\ \A q \in Sessions : Considered(session[q])
    BY DEF UntornInv, IInv
  <1> QED
    BY <1>1, <1>3, <1>4, OneConsidered

LEMMA CommitConsidered ==
    ASSUME UntornInv, NEW r \in Sessions, Commit(r) \/ Abort(r)
    PROVE  \A q \in Sessions : Considered(session[q])'
  <1>1. TypeOK /\ \A q \in Sessions : Considered(session[q])
    BY DEF UntornInv, IInv
  <1>2. ASSUME NEW to \in Statuses, session[r].cur \in Ids, AfterCommit(r, to)
        PROVE  \A q \in Sessions : Considered(session[q])'
    <2>1. /\ \A q \in Sessions \ {r} : session'[q] = session[q]
          /\ session'[r].stage \in {"idle", "again", "logging"}
      BY <1>1, <1>2, AfterCommitStates
    <2> QED
      BY <1>1, <2>1 DEF Considered
  <1>3. session[r].stage \in {"deciding", "locking"} => session[r].cur \in Ids
    BY DEF UntornInv, IInv, Sound, Fits
  <1>4. CASE CommitDecision(r)
    BY <1>1, <1>2, <1>3, <1>4, SessionFields DEF CommitDecision
  <1>5. CASE CommitReceipt(r)
    BY <1>1, <1>2, <1>3, <1>5 DEF CommitReceipt, Statuses
  <1>6. CASE LockProduct(r)
    <2>1. PICK p \in session[r].todo :
             session' = [session EXCEPT ![r].todo = @ \ {p},
                    ![r].base[p] = IF r \in Wizards THEN @ ELSE stock[p]]
      BY <1>6 DEF LockProduct
    <2>2. /\ \A q \in Sessions \ {r} : session'[q] = session[q]
          /\ session'[r].stage = session[r].stage /\ session'[r].goods = session[r].goods
          /\ session[r].stage = "locking"
      BY <1>1, <1>6, <2>1, SessionFields DEF TypeOK, SessionRecord, LockProduct
    <2> QED
      BY <1>1, <2>2 DEF Considered
  <1>7. CASE LogAction(r) \/ Abort(r)
    <2>1. session' = [session EXCEPT ![r] = Idle]
      BY <1>7 DEF LogAction, Abort
    <2>2. Considered(Idle)
      BY IdleType DEF Considered
    <2> QED
      BY <1>1, <2>1, <2>2, OneConsidered
  <1> QED
    BY <1>4, <1>5, <1>6, <1>7 DEF Commit

LEMMA PanelConsidered ==
    ASSUME UntornInv, NEW r \in Wizards, Panel(r)
    PROVE  \A q \in Sessions : Considered(session[q])'
  <1>1. /\ r \in Sessions /\ TypeOK /\ \A q \in Sessions : Considered(session[q])
    BY SessionsApart DEF UntornInv, IInv
  <1>2. CASE OpenWizard(r) \/ LeaveWizard(r)
    <2> DEFINE s == [Idle EXCEPT !.stage = "panel", !.base = stock]
    <2>1. s.stage = "panel" /\ Idle.stage = "idle"
      BY DEF Idle
    <2>2. session' = [session EXCEPT ![r] = s] \/ session' = [session EXCEPT ![r] = Idle]
      BY <1>2 DEF OpenWizard, LeaveWizard
    <2> HIDE DEF s
    <2>3. Considered(s) /\ Considered(Idle)
      BY <2>1 DEF Considered
    <2> QED
      BY <1>1, <2>2, <2>3, OneConsidered
  <1>3. CASE WizardStep(r)
    <2>1. \/ \E u \in Users, lines \in Lines : InsertOrder(r, u, lines)
          \/ \E u \in Users, o \in Ids :
                SubmitForReview(r, u, o) \/ \E goods \in Shipments : ReceiveItems(r, u, o, goods)
      BY <1>3, PurchasingAssumption DEF WizardStep
    <2> QED
      BY <1>1, <2>1, InsertConsidered, BeginConsidered
  <1>4. CASE WizardOrder(r)
    <2>1. session[r].cur \in Ids
      BY <1>1, <1>4 DEF UntornInv, IInv, Sound, Fits, WizardOrder
    <2> QED
      BY <1>1, <1>4, <2>1, BeginConsidered DEF WizardOrder
  <1> QED
    BY <1>2, <1>3, <1>4 DEF Panel

LEMMA NextConsidered ==
    ASSUME UntornInv, [Next]_vars
    PROVE  \A r \in Sessions : Considered(session[r])'
  <1>1. \A r \in Sessions : Considered(session[r])
    BY DEF UntornInv
  <1>2. CASE UNCHANGED vars \/ \E p \in Products : Sell(p)
    BY <1>1, <1>2 DEF vars, Sell, Considered
  <1>3. CASE Restart
    <2>1. \A r \in Sessions : session'[r] = Idle
      BY <1>3 DEF Restart
    <2> QED
      BY <2>1, IdleType DEF Considered
  <1>4. ASSUME NEW r \in Requests, Request(r) PROVE \A q \in Sessions : Considered(session[q])'
    BY <1>4, SessionsApart, InsertConsidered, BeginConsidered DEF Request, PostOrder, PostSubmit,
          PostMarkOrdered, PostReject, PostCancel, PostReceive
  <1> QED
    BY <1>2, <1>3, <1>4, PanelConsidered, CommitConsidered DEF Next

\* Unless a decision or a receipt was committed from an outdated copy of it, an
\* order has recorded all its receipts and its status says so: it is received
\* when complete, partially received between, and without receipts otherwise.
THEOREM UntornOrdersAreRight == Spec => []UntornOrdersAddUp
  <1>1. Init => UntornInv
    <2> SUFFICES ASSUME Init PROVE UntornInv
      OBVIOUS
    <2>1. \A r \in Sessions : Considered(session[r])
      BY IdleType DEF Init, Considered
    <2>2. \A o \in Ids : po[o].received = receipts[o] /\ po[o].status = "absent"
                         /\ \A p \in Products : po[o].received[p] = 0
      BY DEF Init, NoOrder, Nothing
    <2>3. UntornOrdersAddUp
      BY <2>2, UntornOrders DEF AddsUp
    <2> QED
      BY <2>1, <2>3, InitHolds DEF UntornInv
  <1>2. UntornInv /\ [Next]_vars => UntornInv'
    BY NextKeeps, NextAddsUp, NextConsidered DEF UntornInv
  <1>3. UntornInv => UntornOrdersAddUp
    BY DEF UntornInv
  <1> QED
    BY <1>1, <1>2, <1>3, PTL DEF Spec

-----------------------------------------------------------------------------
(* Payables: the inductive invariant.  The type of "billed", a sum over a set, *)
(* is left out of it: d is a record with the fields of ClientState.          *)

IsRecord(d) ==
    d = [stage |-> d.stage, user |-> d.user, doc |-> d.doc, seen |-> d.seen, to |-> d.to,
         known |-> d.known, billed |-> d.billed, received |-> d.received]

Shapes ==
    /\ payout \in [Payouts -> DocStatuses]
    /\ paid \in [Invoices -> Int]
    /\ lock \in [Invoices -> Clients \cup {Nil}]
    /\ desk = [c \in Clients |-> desk[c]]
    /\ \A c \in Clients : IsRecord(desk[c])

\* What a session is about fits what it is doing.
InStep(d) ==
    /\ d.to \in DocStatuses
    /\ d.stage = "deciding" => d.doc \in Invoices \cup Payouts
    /\ d.stage = "deciding" /\ d.doc \in Payouts => d.to \in {"pending_review", "rejected"}
    /\ d.stage \in {"locking", "paying"} => d.doc \in Payouts /\ d.to \in {"draft", "approved"}

InvoiceOf(c) == Transfer[desk[c].doc].invoice

\* Who is about to pay holds the invoice, and an approval still to come fits
\* into what is outstanding.
PaysUnderLock(c) == desk[c].stage = "paying" => lock[InvoiceOf(c)] = c

HasRoom(c) ==
    desk[c].stage = "paying" /\ desk[c].to = "approved" /\ payout[desk[c].doc] # "approved"
        => paid[InvoiceOf(c)] + Transfer[desk[c].doc].amount <= Total(InvoiceOf(c))

Orderly(c) == InStep(desk[c]) /\ PaysUnderLock(c) /\ HasRoom(c)

PayIInv == Shapes /\ InvoiceNeverOverpaid /\ \A c \in Clients : Orderly(c)

-----------------------------------------------------------------------------
(* Payables: lemmas *)

LEMMA TransferFields ==
    ASSUME NEW k \in Payouts
    PROVE  Transfer[k].invoice \in Invoices /\ Transfer[k].amount \in Nat
  BY PayablesAssumption

LEMMA TotalIsNatural ==
    ASSUME NEW i \in Invoices
    PROVE  Total(i) \in Nat
  <1>1. Bill[i].units \in Nat /\ Bill[i].cost \in Nat
    BY PayablesAssumption
  <1>2. \A a, b \in Nat : a * b \in Nat
    OBVIOUS
  <1> QED
    BY <1>1, <1>2 DEF Total

\* A session's record, field by field.
LEMMA NewRecord ==
    ASSUME NEW stage, NEW u, NEW d, NEW from, NEW to, NEW known, NEW billed, NEW received, NEW s,
           s \in [stage : {stage}, user : {u}, doc : {d}, seen : {from}, to : {to},
                  known : {known}, billed : {billed}, received : {received}]
    PROVE  IsRecord(s) /\ s.stage = stage /\ s.doc = d /\ s.to = to
  BY DEF IsRecord

LEMMA AtRestInStep == IsRecord(AtRest) /\ InStep(AtRest) /\ AtRest.stage = "idle"
  BY DEF IsRecord, InStep, AtRest, DocStatuses

LEMMA NobodyIsNil == \A c \in Clients : c # Nil
  BY PayablesAssumption

\* Two sessions about to pay are about different invoices.
LEMMA OnePays ==
    ASSUME PayIInv, NEW c \in Clients, NEW e \in Clients, c # e,
           desk[c].stage = "paying", desk[e].stage = "paying"
    PROVE  InvoiceOf(c) # InvoiceOf(e)
  BY DEF PayIInv, Orderly, PaysUnderLock

\* A session's new state, with the other tables as they were.
LEMMA DeskChange ==
    ASSUME PayIInv, NEW c \in Clients, NEW s, desk' = [desk EXCEPT ![c] = s],
           IsRecord(s), InStep(s), s.stage # "paying",
           UNCHANGED <<payout, paid, lock>>
    PROVE  PayIInv'
  <1>1. Shapes'
    BY DEF PayIInv, Shapes
  <1>2. InvoiceNeverOverpaid'
    BY DEF PayIInv, InvoiceNeverOverpaid, Total
  <1>3. ASSUME NEW e \in Clients PROVE Orderly(e)'
    <2>1. desk'[e] = IF e = c THEN s ELSE desk[e]
      BY DEF PayIInv, Shapes
    <2>2. Orderly(e)
      BY DEF PayIInv
    <2> QED
      BY <2>1, <2>2 DEF Orderly, PaysUnderLock, HasRoom, InvoiceOf, Total, InStep
  <1> QED
    BY <1>1, <1>2, <1>3 DEF PayIInv

\* A session comes to rest and gives up the invoice it held.
LEMMA RestAndRelease ==
    ASSUME PayIInv, NEW c \in Clients, desk' = [desk EXCEPT ![c] = AtRest],
           ReleaseInvoice(c), UNCHANGED <<payout, paid>>
    PROVE  PayIInv'
  <1>1. Shapes'
    BY AtRestInStep DEF PayIInv, Shapes, ReleaseInvoice
  <1>2. InvoiceNeverOverpaid'
    BY DEF PayIInv, InvoiceNeverOverpaid, Total
  <1>3. ASSUME NEW e \in Clients PROVE Orderly(e)'
    <2>1. desk'[e] = IF e = c THEN AtRest ELSE desk[e]
      BY DEF PayIInv, Shapes
    <2>2. Orderly(e)
      BY DEF PayIInv
    <2>3. CASE e = c
      BY <2>1, <2>3, AtRestInStep DEF Orderly, PaysUnderLock, HasRoom
    <2>4. CASE e # c
      <3>1. desk[e].stage = "paying" => InvoiceOf(e) \in Invoices /\ lock[InvoiceOf(e)] = e
        BY <2>2, TransferFields DEF Orderly, PaysUnderLock, InStep, InvoiceOf
      <3>2. desk[e].stage = "paying" => lock'[InvoiceOf(e)] = e
        BY <2>4, <3>1 DEF ReleaseInvoice
      <3> QED
        BY <2>1, <2>2, <2>4, <3>2 DEF Orderly, PaysUnderLock, HasRoom, InvoiceOf, Total, InStep
    <2> QED
      BY <2>3, <2>4
  <1> QED
    BY <1>1, <1>2, <1>3 DEF PayIInv

LEMMA BeginWorkKeeps ==
    ASSUME PayIInv, NEW c \in Clients, NEW s, Begin(c, s),
           IsRecord(s), InStep(s), s.stage # "paying"
    PROVE  PayIInv'
  BY DeskChange DEF Begin

\* A payment's new status and what it does to its invoice's sum.
LEMMA SetPayoutTables ==
    ASSUME PayIInv, NEW k \in Payouts, NEW to \in DocStatuses, SetPayout(k, to)
    PROVE  /\ payout' \in [Payouts -> DocStatuses]
           /\ paid' \in [Invoices -> Int]
           /\ \A j \in Payouts \ {k} : payout'[j] = payout[j]
           /\ payout'[k] = to
           /\ \A i \in Invoices \ {Transfer[k].invoice} : paid'[i] = paid[i]
           /\ to # "approved" => paid'[Transfer[k].invoice] <= paid[Transfer[k].invoice]
           /\ to # "approved" /\ payout[k] = "approved" =>
                 paid'[Transfer[k].invoice] = paid[Transfer[k].invoice] - Transfer[k].amount
           /\ to = "approved" => paid'[Transfer[k].invoice] =
                 paid[Transfer[k].invoice]
                    + (IF payout[k] = "approved" THEN 0 ELSE Transfer[k].amount)
  <1>1. /\ payout \in [Payouts -> DocStatuses] /\ paid \in [Invoices -> Int]
        /\ Transfer[k].invoice \in Invoices /\ Transfer[k].amount \in Nat
    BY TransferFields DEF PayIInv, Shapes
  <1> QED
    BY <1>1 DEF SetPayout

\* An unlocked submission or rejection never adds to what is paid.
LEMMA CommitReviewKeeps ==
    ASSUME PayIInv, NEW c \in Clients, CommitReview(c)
    PROVE  PayIInv'
  <1> DEFINE k == desk[c].doc
             i == Transfer[k].invoice
  <1>1. k \in Payouts /\ desk[c].to \in {"pending_review", "rejected"} /\ desk[c].to \in DocStatuses
    BY DEF CommitReview, PayIInv, Orderly, InStep
  <1>2. i \in Invoices /\ Transfer[k].amount \in Nat
    BY <1>1, TransferFields
  <1>3. /\ SetPayout(k, desk[c].to) /\ desk' = [desk EXCEPT ![c] = AtRest]
        /\ lock' = lock
    BY DEF CommitReview
  <1>4. /\ payout' \in [Payouts -> DocStatuses]
        /\ paid' \in [Invoices -> Int]
        /\ \A j \in Payouts \ {k} : payout'[j] = payout[j]
        /\ \A j \in Invoices \ {i} : paid'[j] = paid[j]
        /\ paid'[i] <= paid[i]
        /\ payout[k] = "approved" => paid'[i] = paid[i] - Transfer[k].amount
    BY <1>1, <1>3, SetPayoutTables
  <1> HIDE DEF k, i
  <1>5. Shapes'
    BY <1>3, <1>4, AtRestInStep DEF PayIInv, Shapes
  <1>6. \A j \in Invoices : paid[j] \in Int /\ paid'[j] \in Int /\ paid'[j] <= paid[j]
    BY <1>2, <1>4 DEF PayIInv, Shapes
  <1>7. InvoiceNeverOverpaid'
    BY <1>6, TotalIsNatural DEF PayIInv, InvoiceNeverOverpaid, Total
  <1>8. ASSUME NEW e \in Clients PROVE Orderly(e)'
    <2>1. desk'[e] = IF e = c THEN AtRest ELSE desk[e]
      BY <1>3 DEF PayIInv, Shapes
    <2>2. CASE e = c
      BY <2>1, <2>2, AtRestInStep DEF Orderly, PaysUnderLock, HasRoom
    <2>3. CASE e # c
      <3>1. InStep(desk[e])' /\ PaysUnderLock(e)'
        BY <1>3, <2>1, <2>3 DEF PayIInv, Orderly, PaysUnderLock, InvoiceOf, InStep
      <3>2. HasRoom(e)'
        <4> SUFFICES ASSUME desk[e].stage = "paying", desk[e].to = "approved",
                            payout'[desk[e].doc] # "approved"
                     PROVE  paid'[InvoiceOf(e)] + Transfer[desk[e].doc].amount
                              <= Total(InvoiceOf(e))
          BY <2>1, <2>3 DEF HasRoom, InvoiceOf, Total
        <4>1. desk[e].doc \in Payouts /\ InvoiceOf(e) \in Invoices
              /\ Transfer[desk[e].doc].amount \in Nat
          BY TransferFields DEF PayIInv, Orderly, InStep, InvoiceOf
        <4>2. CASE payout[desk[e].doc] # "approved"
          <5>1. paid[InvoiceOf(e)] + Transfer[desk[e].doc].amount <= Total(InvoiceOf(e))
            BY <4>2 DEF PayIInv, Orderly, HasRoom
          <5> QED
            BY <1>6, <4>1, <5>1, TotalIsNatural
        <4>3. CASE payout[desk[e].doc] = "approved"
          <5>1. desk[e].doc = k
            BY <1>4, <4>1, <4>3
          <5>2. paid'[InvoiceOf(e)] + Transfer[desk[e].doc].amount = paid[InvoiceOf(e)]
            BY <1>2, <1>4, <1>6, <4>3, <5>1 DEF InvoiceOf, i
          <5> QED
            BY <4>1, <5>2 DEF PayIInv, InvoiceNeverOverpaid
        <4> QED
          BY <4>2, <4>3
      <3> QED
        BY <3>1, <3>2 DEF Orderly
    <2> QED
      BY <2>2, <2>3
  <1> QED
    BY <1>5, <1>7, <1>8 DEF PayIInv

\* The draft's insert, or the approval, under the invoice's lock.
LEMMA CommitPayoutKeeps ==
    ASSUME PayIInv, NEW c \in Clients, CommitPayout(c)
    PROVE  PayIInv'
  <1> DEFINE k == desk[c].doc
             i == Transfer[k].invoice
  <1>1. /\ k \in Payouts /\ desk[c].to \in {"draft", "approved"} /\ desk[c].to \in DocStatuses
        /\ desk[c].stage = "paying"
    BY DEF CommitPayout, PayIInv, Orderly, InStep
  <1>2. i \in Invoices /\ Transfer[k].amount \in Nat
    BY <1>1, TransferFields
  <1>3. /\ SetPayout(k, desk[c].to) /\ desk' = [desk EXCEPT ![c] = AtRest]
        /\ ReleaseInvoice(c)
    BY DEF CommitPayout
  <1>4. /\ payout' \in [Payouts -> DocStatuses]
        /\ paid' \in [Invoices -> Int]
        /\ \A j \in Payouts \ {k} : payout'[j] = payout[j]
        /\ \A j \in Invoices \ {i} : paid'[j] = paid[j]
        /\ desk[c].to # "approved" => paid'[i] <= paid[i]
        /\ desk[c].to = "approved" => paid'[i] =
              paid[i] + (IF payout[k] = "approved" THEN 0 ELSE Transfer[k].amount)
    BY <1>1, <1>3, SetPayoutTables
  <1>5. /\ paid[i] \in Int /\ paid[i] <= Total(i)
        /\ desk[c].to = "approved" /\ payout[k] # "approved" =>
              paid[i] + Transfer[k].amount <= Total(i)
    BY <1>1, <1>2 DEF PayIInv, Shapes, InvoiceNeverOverpaid, Orderly, HasRoom, InvoiceOf
  <1>6. InvoiceOf(c) = i
    BY DEF InvoiceOf
  <1> HIDE DEF k, i
  <1>7. paid'[i] <= Total(i)
    BY <1>2, <1>4, <1>5, TotalIsNatural
  <1>8. Shapes'
    BY <1>3, <1>4, AtRestInStep DEF PayIInv, Shapes, ReleaseInvoice
  <1>9. InvoiceNeverOverpaid'
    BY <1>4, <1>7 DEF PayIInv, InvoiceNeverOverpaid, Total
  <1>10. ASSUME NEW e \in Clients PROVE Orderly(e)'
    <2>1. desk'[e] = IF e = c THEN AtRest ELSE desk[e]
      BY <1>3 DEF PayIInv, Shapes
    <2>2. CASE e = c
      BY <2>1, <2>2, AtRestInStep DEF Orderly, PaysUnderLock, HasRoom
    <2>3. CASE e # c
      <3>1. desk[e].stage = "paying" =>
               /\ desk[e].doc \in Payouts /\ InvoiceOf(e) \in Invoices
               /\ lock[InvoiceOf(e)] = e
        BY TransferFields DEF PayIInv, Orderly, PaysUnderLock, InStep, InvoiceOf
      <3>2. desk[e].stage = "paying" => lock'[InvoiceOf(e)] = e
        BY <1>3, <2>3, <3>1 DEF ReleaseInvoice
      <3>3. desk[e].stage = "paying" => InvoiceOf(e) # i /\ desk[e].doc # k
        BY <1>1, <1>6, <2>3, OnePays DEF InvoiceOf, i
      <3>4. desk[e].stage = "paying" =>
               paid'[InvoiceOf(e)] = paid[InvoiceOf(e)]
               /\ payout'[desk[e].doc] = payout[desk[e].doc]
        BY <1>4, <3>1, <3>3
      <3> QED
        BY <2>1, <2>3, <3>2, <3>4
           DEF PayIInv, Orderly, PaysUnderLock, HasRoom, InvoiceOf, Total, InStep
    <2> QED
      BY <2>2, <2>3
  <1> QED
    BY <1>8, <1>9, <1>10 DEF PayIInv

\* The invoice's lock, and the comparison with what is outstanding under it.
LEMMA LockInvoiceKeeps ==
    ASSUME PayIInv, NEW c \in Clients, LockInvoice(c)
    PROVE  PayIInv'
  <1> DEFINE k == desk[c].doc
             i == Transfer[k].invoice
             s == [desk[c] EXCEPT !.stage = "paying"]
  <1>1. /\ desk[c].stage = "locking" /\ k \in Payouts /\ desk[c].to \in {"draft", "approved"}
        /\ lock[i] = Nil /\ InStep(desk[c])
    BY DEF LockInvoice, PayIInv, Orderly, InStep
  <1>2. i \in Invoices /\ Transfer[k].amount \in Nat
    BY <1>1, TransferFields
  <1>3. CASE Payable(k)
    <2>1. /\ lock' = [lock EXCEPT ![i] = c] /\ desk' = [desk EXCEPT ![c] = s]
          /\ UNCHANGED <<payout, paid>>
      BY <1>3 DEF LockInvoice
    <2>2. paid[i] + Transfer[k].amount <= Total(i)
      BY <1>2, <1>3, TotalIsNatural DEF Payable, Outstanding, PayIInv, Shapes
    <2>3. /\ IsRecord(s) /\ s.stage = "paying" /\ s.doc = k /\ s.to = desk[c].to
      BY DEF PayIInv, Shapes, IsRecord
    <2>4. InStep(s)
      BY <1>1, <2>3 DEF InStep
    <2>5. k = desk[c].doc /\ i = Transfer[k].invoice
      OBVIOUS
    <2> HIDE DEF k, i, s
    <2>6. Shapes'
      BY <1>2, <2>1, <2>3 DEF PayIInv, Shapes
    <2>7. InvoiceNeverOverpaid'
      BY <2>1 DEF PayIInv, InvoiceNeverOverpaid, Total
    <2>8. ASSUME NEW e \in Clients PROVE Orderly(e)'
      <3>1. desk'[e] = IF e = c THEN s ELSE desk[e]
        BY <2>1 DEF PayIInv, Shapes
      <3>2. CASE e = c
        <4>1. lock'[i] = c
          BY <1>2, <2>1 DEF PayIInv, Shapes
        <4> QED
          BY <2>1, <2>2, <2>3, <2>4, <2>5, <3>1, <3>2, <4>1
             DEF Orderly, PaysUnderLock, HasRoom, InvoiceOf, Total
      <3>3. CASE e # c
        <4>1. desk[e].stage = "paying" => InvoiceOf(e) \in Invoices /\ lock[InvoiceOf(e)] = e
          BY TransferFields DEF PayIInv, Orderly, PaysUnderLock, InStep, InvoiceOf
        <4>2. desk[e].stage = "paying" => lock'[InvoiceOf(e)] = e
          BY <1>1, <2>1, <4>1, NobodyIsNil
        <4> QED
          BY <2>1, <3>1, <3>3, <4>2
             DEF PayIInv, Orderly, PaysUnderLock, HasRoom, InvoiceOf, Total, InStep
      <3> QED
        BY <3>2, <3>3
    <2> QED
      BY <2>6, <2>7, <2>8 DEF PayIInv
  <1>4. CASE ~Payable(k)
    <2>1. desk' = [desk EXCEPT ![c] = AtRest] /\ UNCHANGED <<payout, paid, lock>>
      BY <1>4 DEF LockInvoice
    <2> QED
      BY <2>1, DeskChange, AtRestInStep
  <1> QED
    BY <1>3, <1>4

-----------------------------------------------------------------------------
(* Requests that begin *)

LEMMA ReviewKeeps ==
    ASSUME PayIInv, NEW c \in Clients, NEW u, NEW d \in Invoices \cup Payouts, NEW from,
           NEW to \in DocStatuses, d \in Payouts => to \in {"pending_review", "rejected"},
           Review(c, u, d, from, to)
    PROVE  PayIInv'
  <1> DEFINE s == [AtRest EXCEPT !.stage = "deciding", !.user = u, !.doc = d,
                                 !.seen = from, !.to = to]
  <1>1. s \in [stage : {"deciding"}, user : {u}, doc : {d}, seen : {from}, to : {to},
                 known : {{}}, billed : {0}, received : {0}]
    BY DEF AtRest
  <1>2. Begin(c, s)
    BY DEF Review
  <1> HIDE DEF s
  <1>3. IsRecord(s) /\ s.stage = "deciding" /\ s.doc = d /\ s.to = to
    BY <1>1, NewRecord
  <1>4. InStep(s)
    BY <1>3 DEF InStep
  <1> QED
    BY <1>2, <1>3, <1>4, BeginWorkKeeps

LEMMA InvoiceRequestKeeps ==
    ASSUME PayIInv, NEW c \in Clients, NEW u \in Accounts, NEW i \in Invoices,
           \/ StartInvoice(c, u, i) \/ SubmitInvoice(c, u, i)
           \/ ApproveInvoice(c, u, i) \/ RejectInvoice(c, u, i)
    PROVE  PayIInv'
  <1>0. i \notin Payouts
    BY PayablesAssumption
  <1>1. CASE StartInvoice(c, u, i)
    <2> DEFINE known == InvoicesOf(Bill[i].po)
               billed == UnitsOf(Standing(Bill[i].po))
               s == [AtRest EXCEPT !.stage = "billing", !.doc = i, !.known = known,
                                   !.billed = billed, !.received = arrived[Bill[i].po]]
    <2>1. Begin(c, s)
      BY <1>1 DEF StartInvoice
    <2> HIDE DEF known, billed
    <2>2. s \in [stage : {"billing"}, user : {Nil}, doc : {i}, seen : {"absent"}, to : {"absent"},
                   known : {known}, billed : {billed}, received : {arrived[Bill[i].po]}]
      BY DEF AtRest
    <2> HIDE DEF s
    <2>3. IsRecord(s) /\ s.stage = "billing" /\ s.doc = i /\ s.to = "absent"
      BY <2>2, NewRecord
    <2>4. InStep(s)
      BY <2>3 DEF InStep, DocStatuses
    <2> QED
      BY <2>1, <2>3, <2>4, BeginWorkKeeps
  <1>2. CASE SubmitInvoice(c, u, i)
    BY <1>0, <1>2, ReviewKeeps DEF SubmitInvoice, DocStatuses
  <1>3. CASE ApproveInvoice(c, u, i)
    BY <1>0, <1>3, ReviewKeeps DEF ApproveInvoice, DocStatuses
  <1>4. CASE RejectInvoice(c, u, i)
    BY <1>0, <1>4, ReviewKeeps DEF RejectInvoice, DocStatuses
  <1> QED
    BY <1>1, <1>2, <1>3, <1>4

LEMMA PayoutRequestKeeps ==
    ASSUME PayIInv, NEW c \in Clients, NEW u \in Accounts, NEW k \in Payouts,
           \/ StartPayout(c, u, k) \/ SubmitPayout(c, u, k)
           \/ ApprovePayout(c, u, k) \/ RejectPayout(c, u, k)
    PROVE  PayIInv'
  <1>1. CASE StartPayout(c, u, k)
    <2> DEFINE s == [AtRest EXCEPT !.stage = "locking", !.doc = k, !.to = "draft"]
    <2>1. s \in [stage : {"locking"}, user : {Nil}, doc : {k}, seen : {"absent"}, to : {"draft"},
                   known : {{}}, billed : {0}, received : {0}]
      BY DEF AtRest
    <2>2. Begin(c, s)
      BY <1>1 DEF StartPayout
    <2> HIDE DEF s
    <2>3. IsRecord(s) /\ s.stage = "locking" /\ s.doc = k /\ s.to = "draft"
      BY <2>1, NewRecord
    <2>4. InStep(s)
      BY <2>3 DEF InStep, DocStatuses
    <2> QED
      BY <2>2, <2>3, <2>4, BeginWorkKeeps
  <1>2. CASE SubmitPayout(c, u, k)
    BY <1>2, ReviewKeeps DEF SubmitPayout, DocStatuses
  <1>3. CASE ApprovePayout(c, u, k)
    <2> DEFINE s == [AtRest EXCEPT !.stage = "locking", !.doc = k,
                                   !.seen = "pending_review", !.to = "approved"]
    <2>1. s \in [stage : {"locking"}, user : {Nil}, doc : {k}, seen : {"pending_review"}, to : {"approved"},
                   known : {{}}, billed : {0}, received : {0}]
      BY DEF AtRest
    <2>2. Begin(c, s)
      BY <1>3 DEF ApprovePayout
    <2> HIDE DEF s
    <2>3. IsRecord(s) /\ s.stage = "locking" /\ s.doc = k /\ s.to = "approved"
      BY <2>1, NewRecord
    <2>4. InStep(s)
      BY <2>3 DEF InStep, DocStatuses
    <2> QED
      BY <2>2, <2>3, <2>4, BeginWorkKeeps
  <1>4. CASE RejectPayout(c, u, k)
    BY <1>4, ReviewKeeps DEF RejectPayout, DocStatuses
  <1> QED
    BY <1>1, <1>2, <1>3, <1>4

LEMMA ArrivalKeeps ==
    ASSUME PayIInv, NEW c \in Clients, Arrival(c)
    PROVE  PayIInv'
  <1>1. \/ \E u \in Accounts, i \in Invoices :
              \/ StartInvoice(c, u, i) \/ SubmitInvoice(c, u, i)
              \/ ApproveInvoice(c, u, i) \/ RejectInvoice(c, u, i)
        \/ \E u \in Accounts, k \in Payouts :
              \/ StartPayout(c, u, k) \/ SubmitPayout(c, u, k)
              \/ ApprovePayout(c, u, k) \/ RejectPayout(c, u, k)
    BY PayablesAssumption
       DEF Arrival, PostInvoice, PostInvoiceSubmit, PostInvoiceApprove, PostInvoiceReject,
           PostPayout, PostPayoutSubmit, PostPayoutApprove, PostPayoutReject,
           InvoiceWizard, ReviewQueue
  <1> QED
    BY <1>1, InvoiceRequestKeeps, PayoutRequestKeeps

-----------------------------------------------------------------------------
(* The theorem *)

LEMMA PayInitHolds == PayInit => PayIInv
  <1> SUFFICES ASSUME PayInit PROVE PayIInv
    OBVIOUS
  <1>1. \A i \in Invoices : paid[i] = 0
    BY DEF PayInit
  <1>2. InvoiceNeverOverpaid
    BY <1>1, TotalIsNatural DEF InvoiceNeverOverpaid
  <1>3. Shapes
    BY AtRestInStep DEF PayInit, Shapes, DocStatuses
  <1>4. ASSUME NEW c \in Clients PROVE Orderly(c)
    <2>1. desk[c] = AtRest
      BY DEF PayInit
    <2> QED
      BY <2>1, AtRestInStep DEF Orderly, PaysUnderLock, HasRoom
  <1> QED
    BY <1>2, <1>3, <1>4 DEF PayIInv

LEMMA PayNextKeeps == PayIInv /\ [PayNext]_payVars => PayIInv'
  <1> SUFFICES ASSUME PayIInv, [PayNext]_payVars PROVE PayIInv'
    OBVIOUS
  <1>1. ASSUME NEW c \in Clients, Arrival(c) PROVE PayIInv'
    BY <1>1, ArrivalKeeps
  <1>2. ASSUME NEW c \in Clients, InsertInvoice(c) PROVE PayIInv'
    <2>1. desk' = [desk EXCEPT ![c] = AtRest] /\ UNCHANGED <<payout, paid, lock>>
      BY <1>2 DEF InsertInvoice
    <2> QED
      BY <2>1, DeskChange, AtRestInStep
  <1>3. ASSUME NEW c \in Clients, CommitInvoice(c) PROVE PayIInv'
    <2>1. desk' = [desk EXCEPT ![c] = AtRest] /\ UNCHANGED <<payout, paid, lock>>
      BY <1>3 DEF CommitInvoice
    <2> QED
      BY <2>1, DeskChange, AtRestInStep
  <1>4. ASSUME NEW c \in Clients, Drop(c) PROVE PayIInv'
    BY <1>4, RestAndRelease DEF Drop
  <1>5. ASSUME NEW o \in PoIds, Arrive(o) \/ Void(o) PROVE PayIInv'
    <2>1. UNCHANGED <<payout, paid, lock, desk>>
      BY <1>5 DEF Arrive, Void
    <2> QED
      BY <2>1 DEF PayIInv, Shapes, InvoiceNeverOverpaid, Orderly, PaysUnderLock, HasRoom,
                  InvoiceOf, Total, InStep, IsRecord
  <1>6. CASE UNCHANGED payVars
    BY <1>6 DEF payVars, PayIInv, Shapes, InvoiceNeverOverpaid, Orderly, PaysUnderLock,
                HasRoom, InvoiceOf, Total, InStep, IsRecord
  <1> QED
    BY <1>1, <1>2, <1>3, <1>4, <1>5, <1>6, CommitReviewKeeps, CommitPayoutKeeps,
       LockInvoiceKeeps DEF PayNext, Progress

\* create_supplier_payment and approve_supplier_payment: for any number of
\* invoices, payments and sessions, the approved payments of an invoice never
\* exceed its total, although reviews and rejections take no lock.
THEOREM NoOverpayment == PaySpec => []InvoiceNeverOverpaid
  <1>1. PayIInv => InvoiceNeverOverpaid
    BY DEF PayIInv
  <1> QED
    BY <1>1, PayInitHolds, PayNextKeeps, PTL DEF PaySpec

-----------------------------------------------------------------------------
(* The books add up.  d is what a session is doing, docs and came are the    *)
(* tables invoice and arrived.                                               *)

\* What a session has read is still true of what it is about to write: goods
\* only come in, decisions on an invoice start from a draft or a review, and an
\* invoice stays approved while a payment holds it.
Informed(d, docs, came) ==
    /\ d.stage = "billing" => d.doc \in Invoices /\ d.received <= came[Bill[d.doc].po]
    /\ d.stage = "deciding" /\ d.doc \in Invoices =>
          d.seen \in {"draft", "pending_review"} /\ d.to # "absent"
    /\ d.stage = "paying" => docs[Transfer[d.doc].invoice].status = "approved"

MoneyOnApproved == \A i \in Invoices \ overtaken : paid[i] > 0 => invoice[i].status = "approved"

\* The invoices nobody was warned about do not bill more than has come in.
Unflagged(o) == {i \in Standing(o) : ~invoice[i].flagged}
UnflaggedFit == \A o \in PoIds \ crossed : Undisturbed(o) => UnitsOf(Unflagged(o)) <= arrived[o]

PayBooksInv ==
    /\ PayIInv
    /\ PayTypeOK
    /\ \A c \in Clients : Informed(desk[c], invoice, arrived)
    /\ MoneyOnApproved
    /\ UnflaggedFit

-----------------------------------------------------------------------------
(* Payables: lemmas on the sums *)

LEMMA BillFields ==
    ASSUME NEW i \in Invoices
    PROVE  /\ Bill[i].po \in PoIds /\ Bill[i].units \in Nat
           /\ Bill[i].owner \in Accounts /\ Ordered[Bill[i].po] \in Nat
  BY PayablesAssumption

LEMMA InvoiceSets ==
    ASSUME NEW S \in SUBSET Invoices
    PROVE  /\ IsFiniteSet(S)
           /\ UnitsOf(S) \in Nat
           /\ TotalOf(S) \in Nat
  <1>1. IsFiniteSet(S)
    BY PayablesAssumption, FS_Subset
  <1>2. UnitsOf(S) \in Nat
    <2> DEFINE f == [i \in Invoices |-> Bill[i].units]
    <2>1. \A x \in S : f[x] \in Nat
      BY BillFields
    <2> HIDE DEF f
    <2>2. SumFunctionOnSet(f, S) \in Nat
      BY <1>1, <2>1, SumNat
    <2> QED
      BY <2>2 DEF UnitsOf, f
  <1>3. TotalOf(S) \in Nat
    <2> DEFINE f == [i \in Invoices |-> Total(i)]
    <2>1. \A x \in S : f[x] \in Nat
      BY TotalIsNatural
    <2> HIDE DEF f
    <2>2. SumFunctionOnSet(f, S) \in Nat
      BY <1>1, <2>1, SumNat
    <2> QED
      BY <2>2 DEF TotalOf, f
  <1> QED
    BY <1>1, <1>2, <1>3

LEMMA UnitsOfFewer ==
    ASSUME NEW R \in SUBSET Invoices, NEW S \in SUBSET R
    PROVE  UnitsOf(S) <= UnitsOf(R)
  <1> DEFINE f == [i \in Invoices |-> Bill[i].units]
  <1>1. \A x \in Invoices : f[x] \in Int /\ f[x] >= 0
    BY BillFields
  <1> HIDE DEF f
  <1>2. \A x \in Invoices : ValueIn(f, S, x) <= ValueIn(f, R, x)
    BY <1>1 DEF ValueIn
  <1>3. SumFunctionOnSet(f, S) <= SumFunctionOnSet(f, R)
    BY <1>1, <1>2, SumCompare, PayablesAssumption
  <1> QED
    BY <1>3 DEF UnitsOf, f

LEMMA UnitsOfOneMore ==
    ASSUME NEW S \in SUBSET Invoices, NEW i \in Invoices \ S
    PROVE  UnitsOf(S \cup {i}) = UnitsOf(S) + Bill[i].units
  <1> DEFINE f == [j \in Invoices |-> Bill[j].units]
  <1>1. \A x \in S \cup {i} : f[x] \in Int
    BY BillFields
  <1>2. f[i] = Bill[i].units /\ IsFiniteSet(S)
    BY InvoiceSets
  <1> HIDE DEF f
  <1>3. SumFunctionOnSet(f, S \cup {i}) = SumFunctionOnSet(f, S) + f[i]
    BY <1>1, <1>2, SumAdd
  <1> QED
    BY <1>2, <1>3 DEF UnitsOf, f

\* What is paid on a set of invoices, as long as only the approved ones of it
\* carry money and none more than its total.
LEMMA PaidIsOwed ==
    ASSUME PayBooksInv, NEW S \in SUBSET Invoices,
           \A i \in S : paid[i] > 0 => invoice[i].status = "approved"
    PROVE  TotalOf(Approved(S)) - PaidOn(S) >= 0
  <1> DEFINE f == [i \in Invoices |-> Total(i)]
             A == Approved(S)
  <1>1. A \in SUBSET Invoices
    BY DEF Approved
  <1>2. \A x \in Invoices : paid[x] \in Int /\ f[x] \in Int /\ f[x] >= 0 /\ paid[x] <= f[x]
    BY TotalIsNatural DEF PayBooksInv, PayTypeOK, PayIInv, InvoiceNeverOverpaid
  <1>3. \A x \in S : x \in A \/ paid[x] <= 0
    BY <1>2 DEF Approved
  <1>4. A \subseteq S
    BY DEF Approved
  <1> HIDE DEF f, A
  <1>5. \A x \in Invoices : ValueIn(paid, S, x) <= ValueIn(f, A, x)
    BY <1>2, <1>3, <1>4 DEF ValueIn
  <1>6. SumFunctionOnSet(paid, S) <= SumFunctionOnSet(f, A)
    BY <1>1, <1>2, <1>5, SumCompare, PayablesAssumption
  <1>7. SumFunctionOnSet(f, A) \in Nat
    BY <1>1, InvoiceSets DEF TotalOf, f
  <1>8. SumFunctionOnSet(paid, S) \in Int
    BY <1>2, InvoiceSets, SumType
  <1>9. SumFunctionOnSet(f, A) - SumFunctionOnSet(paid, S) >= 0
    BY <1>6, <1>7, <1>8
  <1> QED
    BY <1>9 DEF TotalOf, PaidOn, f, A

LEMMA BooksAddUp == PayBooksInv => PayablesAddUp
  <1> SUFFICES ASSUME PayBooksInv PROVE PayablesAddUp
    OBVIOUS
  <1>1. ASSUME NEW o \in PoIds, Undisturbed(o)
        PROVE  MoneyIsOwed(o) /\ (o \in crossed \/ OverbillingIsFlagged(o))
    <2>1. InvoicesOf(o) \in SUBSET Invoices /\ Standing(o) \in SUBSET Invoices
      BY DEF InvoicesOf, Standing
    <2>2. \A i \in InvoicesOf(o) : paid[i] > 0 => invoice[i].status = "approved"
      BY <1>1, <2>1 DEF PayBooksInv, MoneyOnApproved, Undisturbed
    <2>3. MoneyIsOwed(o)
      BY <2>1, <2>2, PaidIsOwed DEF MoneyIsOwed, OrderDetail
    <2>4. ASSUME o \notin crossed PROVE OverbillingIsFlagged(o)
      <3> SUFFICES ASSUME UnitsOf(Standing(o)) > arrived[o], \A i \in Standing(o) : ~invoice[i].flagged
                   PROVE  FALSE
        BY DEF OverbillingIsFlagged, OrderDetail
      <3>1. Unflagged(o) = Standing(o)
        BY DEF Unflagged
      <3>2. UnitsOf(Standing(o)) <= arrived[o]
        BY <1>1, <2>4, <3>1 DEF PayBooksInv, UnflaggedFit
      <3>3. UnitsOf(Standing(o)) \in Nat /\ arrived[o] \in Nat
        BY <2>1, InvoiceSets DEF PayBooksInv, PayTypeOK
      <3> QED
        BY <3>2, <3>3
    <2> QED
      BY <2>3, <2>4
  <1>2. ASSUME \A o \in PoIds : Undisturbed(o) PROVE SupplierLedger.outstanding >= 0
    <2> DEFINE made == {i \in Invoices : invoice[i].status # "absent"}
    <2>1. ASSUME NEW i \in made, paid[i] > 0 PROVE invoice[i].status = "approved"
      <3>1. i \in Invoices /\ i \in InvoicesOf(Bill[i].po) /\ Bill[i].po \in PoIds
        BY BillFields DEF InvoicesOf
      <3>2. i \notin overtaken
        BY <1>2, <3>1 DEF Undisturbed
      <3> QED
        BY <2>1, <3>1, <3>2 DEF PayBooksInv, MoneyOnApproved
    <2>2. TotalOf(Approved(made)) - PaidOn(made) >= 0
      BY <2>1, PaidIsOwed
    <2>3. SupplierLedger.outstanding = TotalOf(Approved(made)) - PaidOn(made)
      BY DEF SupplierLedger
    <2> QED
      BY <2>2, <2>3
  <1> QED
    BY <1>1, <1>2 DEF PayablesAddUp

-----------------------------------------------------------------------------
(* The books stay as they are *)

LEMMA AtRestIsKnown ==
    /\ AtRest \in ClientState
    /\ \A docs, came : Informed(AtRest, docs, came)
  BY DEF AtRest, ClientState, DocStatuses, Informed

LEMMA ClientFields ==
    ASSUME PayTypeOK, NEW c \in Clients
    PROVE  /\ desk[c] \in ClientState /\ desk[c].to \in DocStatuses
           /\ desk[c].known \in SUBSET Invoices /\ desk[c].billed \in Nat
           /\ desk[c].received \in Nat
  BY DEF PayTypeOK, ClientState

\* Steps that change nothing the books are about but perhaps the goods.
LEMMA SameBooks ==
    ASSUME PayBooksInv, UNCHANGED <<invoice, paid, overtaken, crossed>>,
           arrived' \in [PoIds -> Nat], \A o \in PoIds : arrived[o] <= arrived'[o]
    PROVE  MoneyOnApproved' /\ UnflaggedFit'
  <1>1. MoneyOnApproved'
    BY DEF PayBooksInv, MoneyOnApproved
  <1>2. ASSUME NEW o \in PoIds \ crossed, Undisturbed(o)'
        PROVE  UnitsOf(Unflagged(o))' <= arrived'[o]
    <2>1. Undisturbed(o) /\ Unflagged(o)' = Unflagged(o)
      BY <1>2 DEF Undisturbed, Unflagged, Standing, InvoicesOf
    <2>2. UnitsOf(Unflagged(o)) <= arrived[o]
      BY <2>1 DEF PayBooksInv, UnflaggedFit
    <2>3. UnitsOf(Unflagged(o)) \in Nat /\ arrived[o] \in Nat /\ arrived'[o] \in Nat
      BY InvoiceSets DEF Unflagged, Standing, InvoicesOf, PayBooksInv, PayTypeOK
    <2>4. UnitsOf(Unflagged(o))' = UnitsOf(Unflagged(o))
      BY <2>1 DEF UnitsOf
    <2> QED
      BY <2>2, <2>3, <2>4
  <1> QED
    BY <1>1, <1>2 DEF UnflaggedFit

\* One session moves on.
LEMMA OneInformed ==
    ASSUME PayBooksInv, NEW c \in Clients, NEW s, desk' = [desk EXCEPT ![c] = s],
           Informed(s, invoice, arrived), UNCHANGED <<invoice, arrived>>
    PROVE  \A e \in Clients : Informed(desk[e], invoice, arrived)'
  BY DEF PayBooksInv, PayTypeOK, Informed

LEMMA DeskKeepsBooks ==
    ASSUME PayBooksInv, PayIInv', NEW c \in Clients, NEW s \in ClientState,
           desk' = [desk EXCEPT ![c] = s], Informed(s, invoice, arrived),
           UNCHANGED <<invoice, payout, paid, arrived, voided, unitCost, overtaken, crossed>>
    PROVE  PayBooksInv'
  <1>1. PayTypeOK'
    <2>1. lock' \in [Invoices -> Clients \cup {Nil}]
      BY DEF PayIInv, Shapes
    <2> QED
      BY <2>1 DEF PayBooksInv, PayTypeOK
  <1>2. \A e \in Clients : Informed(desk[e], invoice, arrived)'
    BY OneInformed
  <1>3. arrived' \in [PoIds -> Nat] /\ \A o \in PoIds : arrived[o] <= arrived'[o]
    BY DEF PayBooksInv, PayTypeOK
  <1> QED
    BY <1>1, <1>2, <1>3, SameBooks DEF PayBooksInv

LEMMA DropKeepsBooks ==
    ASSUME PayBooksInv, PayIInv', NEW c \in Clients, Drop(c)
    PROVE  PayBooksInv'
  BY AtRestIsKnown, DeskKeepsBooks DEF Drop

LEMMA LockInvoiceKeepsBooks ==
    ASSUME PayBooksInv, PayIInv', NEW c \in Clients, LockInvoice(c)
    PROVE  PayBooksInv'
  <1> DEFINE s == [desk[c] EXCEPT !.stage = "paying"]
  <1>1. CASE Payable(desk[c].doc)
    <2>1. /\ desk' = [desk EXCEPT ![c] = s]
          /\ UNCHANGED <<invoice, payout, paid, arrived, voided, unitCost, overtaken, crossed>>
      BY <1>1 DEF LockInvoice
    <2>2. s \in ClientState /\ s.stage = "paying" /\ s.doc = desk[c].doc
      BY ClientFields DEF PayBooksInv, ClientState
    <2>3. Informed(s, invoice, arrived)
      BY <1>1, <2>2 DEF Payable, Informed
    <2> HIDE DEF s
    <2> QED
      BY <2>1, <2>2, <2>3, DeskKeepsBooks
  <1>2. CASE ~Payable(desk[c].doc)
    BY <1>2, AtRestIsKnown, DeskKeepsBooks DEF LockInvoice
  <1> QED
    BY <1>1, <1>2

-----------------------------------------------------------------------------
(* Money moves *)

\* The sum moves only on the payment's own invoice.
LEMMA PayoutKeepsBooks ==
    ASSUME PayBooksInv, PayIInv', NEW c \in Clients, CommitPayout(c) \/ CommitReview(c)
    PROVE  PayBooksInv'
  <1> DEFINE k == desk[c].doc
             i == Transfer[k].invoice
  <1>1. /\ k \in Payouts /\ desk[c].to \in DocStatuses
        /\ desk[c].stage \in {"paying", "deciding"}
        /\ desk[c].stage = "deciding" => desk[c].to \in {"pending_review", "rejected"}
        /\ SetPayout(k, desk[c].to)
        /\ desk' = [desk EXCEPT ![c] = AtRest]
        /\ UNCHANGED <<invoice, arrived, voided, unitCost, overtaken, crossed>>
    BY DEF PayBooksInv, PayIInv, Orderly, InStep, CommitPayout, CommitReview
  <1>2. i \in Invoices /\ Transfer[k].amount \in Nat
    BY <1>1, TransferFields
  <1>3. /\ payout' \in [Payouts -> DocStatuses]
        /\ paid' \in [Invoices -> Int]
        /\ \A j \in Invoices \ {i} : paid'[j] = paid[j]
        /\ desk[c].to # "approved" => paid'[i] <= paid[i]
    BY <1>1, SetPayoutTables DEF PayBooksInv
  <1>4. desk[c].stage = "paying" => invoice[i].status = "approved"
    BY DEF PayBooksInv, Informed
  <1>5. paid[i] \in Int /\ paid'[i] \in Int
    BY <1>2, <1>3 DEF PayBooksInv, PayTypeOK
  <1> HIDE DEF k, i
  <1>6. PayTypeOK'
    <2>1. lock' \in [Invoices -> Clients \cup {Nil}]
      BY DEF PayIInv, Shapes
    <2> QED
      BY <1>1, <1>3, <2>1, AtRestIsKnown DEF PayBooksInv, PayTypeOK
  <1>7. \A e \in Clients : Informed(desk[e], invoice, arrived)'
    BY <1>1, AtRestIsKnown, OneInformed
  <1>8. MoneyOnApproved'
    <2> SUFFICES ASSUME NEW j \in Invoices \ overtaken, paid'[j] > 0
                 PROVE  invoice[j].status = "approved"
      BY <1>1 DEF MoneyOnApproved
    <2>1. CASE j # i \/ paid[j] > 0
      BY <1>3, <2>1 DEF PayBooksInv, MoneyOnApproved
    <2>2. CASE j = i /\ ~(paid[j] > 0)
      BY <1>1, <1>3, <1>4, <1>5, <2>2
    <2> QED
      BY <2>1, <2>2
  <1>9. UnflaggedFit'
    <2>1. \A o \in PoIds \ crossed : Undisturbed(o)' => UnitsOf(Unflagged(o))' <= arrived'[o]
      BY <1>1 DEF PayBooksInv, UnflaggedFit, Undisturbed, Unflagged, Standing, InvoicesOf, UnitsOf
    <2> QED
      BY <1>1, <2>1 DEF UnflaggedFit
  <1> QED
    BY <1>6, <1>7, <1>8, <1>9 DEF PayBooksInv

-----------------------------------------------------------------------------
(* Invoices are written *)

\* Orders whose invoices read as before, and the goods did not leave.
LEMMA SameOrder ==
    ASSUME PayBooksInv, NEW o \in PoIds \ crossed, Undisturbed(o),
           Unflagged(o)' \in SUBSET Unflagged(o), UNCHANGED arrived
    PROVE  UnitsOf(Unflagged(o))' <= arrived'[o]
  <1> DEFINE before == Unflagged(o)
             after == Unflagged(o)'
  <1>1. before \in SUBSET Invoices
    BY DEF Unflagged, Standing, InvoicesOf
  <1>2. UnitsOf(before) <= arrived[o] /\ arrived[o] \in Nat
    BY DEF PayBooksInv, UnflaggedFit, PayTypeOK
  <1>3. UnitsOf(Unflagged(o))' = UnitsOf(after)
    BY DEF UnitsOf
  <1>4. after \in SUBSET before
    OBVIOUS
  <1> HIDE DEF before, after
  <1>5. UnitsOf(after) <= UnitsOf(before) /\ UnitsOf(after) \in Nat /\ UnitsOf(before) \in Nat
    BY <1>1, <1>4, UnitsOfFewer, InvoiceSets
  <1>6. UnitsOf(after) <= arrived[o]
    BY <1>2, <1>5
  <1> QED
    BY <1>3, <1>6

\* An invoice is decided on: what nobody was warned about only gets fewer.
LEMMA CommitInvoiceKeepsBooks ==
    ASSUME PayBooksInv, PayIInv', NEW c \in Clients, CommitInvoice(c)
    PROVE  PayBooksInv'
  <1> DEFINE i == desk[c].doc
  <1>1. /\ i \in Invoices /\ lock[i] = Nil
        /\ invoice' = [invoice EXCEPT ![i].status = desk[c].to]
        /\ unitCost' \in {i, unitCost}
        /\ overtaken' = IF invoice[i].status # desk[c].seen THEN overtaken \cup {i} ELSE overtaken
        /\ desk' = [desk EXCEPT ![c] = AtRest]
        /\ UNCHANGED <<payout, paid, arrived, voided, lock, crossed>>
    BY DEF CommitInvoice
  <1>2. /\ desk[c].seen \in {"draft", "pending_review"}
        /\ desk[c].to \in DocStatuses \ {"absent"}
    BY <1>1, ClientFields DEF PayBooksInv, Informed, CommitInvoice
  <1> HIDE DEF i
  <1>3. /\ invoice' \in [Invoices -> [status : DocStatuses, flagged : BOOLEAN]]
        /\ \A j \in Invoices \ {i} : invoice'[j] = invoice[j]
        /\ invoice'[i].status = desk[c].to /\ invoice'[i].flagged = invoice[i].flagged
    BY <1>1, <1>2 DEF PayBooksInv, PayTypeOK
  <1>4. PayTypeOK'
    BY <1>1, <1>3, AtRestIsKnown DEF PayBooksInv, PayTypeOK
  <1>5. ASSUME NEW e \in Clients PROVE Informed(desk[e], invoice, arrived)'
    <2>1. CASE e = c
      BY <1>1, <2>1, AtRestIsKnown DEF PayBooksInv, PayTypeOK
    <2>2. CASE e # c
      <3>1. desk'[e] = desk[e] /\ Informed(desk[e], invoice, arrived)
        BY <1>1, <2>2 DEF PayBooksInv, PayTypeOK
      <3>2. desk[e].stage = "paying" => InvoiceOf(e) \in Invoices /\ lock[InvoiceOf(e)] = e
        BY TransferFields DEF PayBooksInv, PayIInv, Orderly, PaysUnderLock, InStep, InvoiceOf
      <3>3. desk[e].stage = "paying" => InvoiceOf(e) \in Invoices \ {i}
        BY <1>1, <3>2, NobodyIsNil
      <3> QED
        BY <1>1, <1>3, <3>1, <3>3 DEF Informed, InvoiceOf
    <2> QED
      BY <2>1, <2>2
  <1>6. MoneyOnApproved'
    <2> SUFFICES ASSUME NEW j \in Invoices \ overtaken', paid[j] > 0
                 PROVE  invoice'[j].status = "approved"
      BY <1>1 DEF MoneyOnApproved
    <2>1. j \notin overtaken /\ invoice[j].status = "approved"
      BY <1>1 DEF PayBooksInv, MoneyOnApproved
    <2>2. j # i
      BY <1>1, <1>2, <2>1
    <2> QED
      BY <1>3, <2>1, <2>2
  <1>7. ASSUME NEW o \in PoIds \ crossed, Undisturbed(o)'
        PROVE  UnitsOf(Unflagged(o))' <= arrived'[o]
    <2>1. ASSUME Bill[i].po = o PROVE i \notin overtaken' /\ invoice[i].status = desk[c].seen
      <3>1. i \in InvoicesOf(o)'
        BY <1>1, <1>2, <1>3, <2>1 DEF InvoicesOf
      <3> QED
        BY <1>1, <1>7, <3>1 DEF Undisturbed
    <2>2. Undisturbed(o)
      BY <1>1, <1>2, <1>3, <1>7, <2>1 DEF Undisturbed, InvoicesOf
    <2>3. Unflagged(o)' \in SUBSET Unflagged(o)
      BY <1>1, <1>2, <1>3, <2>1 DEF Unflagged, Standing, InvoicesOf
    <2> QED
      BY <1>1, <2>2, <2>3, SameOrder
  <1>8. UnflaggedFit'
    BY <1>1, <1>7 DEF UnflaggedFit
  <1> QED
    BY <1>4, <1>5, <1>6, <1>8 DEF PayBooksInv

\* An invoice is made: if what was read of its order is still so, it is either
\* flagged or fits into what had come in.
LEMMA InsertInvoiceKeepsBooks ==
    ASSUME PayBooksInv, PayIInv', NEW c \in Clients, InsertInvoice(c)
    PROVE  PayBooksInv'
  <1> DEFINE i == desk[c].doc
             q == Bill[i].po
  <1>1. /\ i \in Invoices /\ q \in PoIds /\ desk[c].received <= arrived[q]
    BY BillFields DEF PayBooksInv, Informed, InsertInvoice
  <1>2. /\ invoice[i].status = "absent"
        /\ invoice' = [invoice EXCEPT ![i] = [status |-> "draft", flagged |-> QuantityFlagged(c, i)]]
        /\ crossed \subseteq crossed' /\ crossed' \subseteq crossed \cup {q}
        /\ q \notin crossed' => desk[c].billed = UnitsOf(Standing(q))
        /\ desk' = [desk EXCEPT ![c] = AtRest]
        /\ UNCHANGED <<payout, paid, arrived, voided, unitCost, lock, overtaken>>
    BY DEF InsertInvoice
  <1>3. QuantityFlagged(c, i) \in BOOLEAN
        /\ (~QuantityFlagged(c, i) => desk[c].billed + Bill[i].units <= desk[c].received)
    BY <1>1, BillFields, ClientFields DEF QuantityFlagged, PayBooksInv
  <1>4. q = Bill[i].po
    OBVIOUS
  <1> HIDE DEF i, q
  <1>5. /\ invoice' \in [Invoices -> [status : DocStatuses, flagged : BOOLEAN]]
        /\ \A j \in Invoices \ {i} : invoice'[j] = invoice[j]
        /\ invoice'[i].status = "draft" /\ invoice'[i].flagged = QuantityFlagged(c, i)
    BY <1>1, <1>2, <1>3 DEF PayBooksInv, PayTypeOK, DocStatuses
  <1>6. PayTypeOK'
    BY <1>1, <1>2, <1>5, AtRestIsKnown DEF PayBooksInv, PayTypeOK
  <1>7. ASSUME NEW e \in Clients PROVE Informed(desk[e], invoice, arrived)'
    <2>1. CASE e = c
      BY <1>2, <2>1, AtRestIsKnown DEF PayBooksInv, PayTypeOK
    <2>2. CASE e # c
      <3>1. desk'[e] = desk[e] /\ Informed(desk[e], invoice, arrived)
        BY <1>2, <2>2 DEF PayBooksInv, PayTypeOK
      <3>2. desk[e].stage = "paying" => Transfer[desk[e].doc].invoice \in Invoices \ {i}
        BY <1>2, <3>1, TransferFields DEF PayBooksInv, PayIInv, Orderly, InStep, Informed
      <3> QED
        BY <1>2, <1>5, <3>1, <3>2 DEF Informed
    <2> QED
      BY <2>1, <2>2
  <1>8. MoneyOnApproved'
    <2> SUFFICES ASSUME NEW j \in Invoices \ overtaken, paid[j] > 0
                 PROVE  invoice'[j].status = "approved"
      BY <1>2 DEF MoneyOnApproved
    <2>1. invoice[j].status = "approved" /\ j # i
      BY <1>2 DEF PayBooksInv, MoneyOnApproved
    <2> QED
      BY <1>5, <2>1
  <1>9. ASSUME NEW o \in PoIds \ crossed', Undisturbed(o)'
        PROVE  UnitsOf(Unflagged(o))' <= arrived'[o]
    <2>1. Undisturbed(o)
      BY <1>1, <1>2, <1>5, <1>9 DEF Undisturbed, InvoicesOf
    <2>2. CASE o # q \/ QuantityFlagged(c, i)
      <3>1. Unflagged(o)' \in SUBSET Unflagged(o)
        BY <1>1, <1>2, <1>4, <1>5, <2>2 DEF Unflagged, Standing, InvoicesOf
      <3> QED
        BY <1>2, <2>1, <3>1, SameOrder
    <2>3. CASE o = q /\ ~QuantityFlagged(c, i)
      <3> DEFINE S == Standing(q)
                 after == Unflagged(o)'
      <3>1. S \in SUBSET Invoices /\ i \in Invoices \ S
        BY <1>1, <1>2 DEF Standing, InvoicesOf
      <3>2. after \in SUBSET (S \cup {i})
        BY <1>1, <1>2, <1>4, <1>5, <2>3 DEF Unflagged, Standing, InvoicesOf
      <3>3. UnitsOf(Unflagged(o))' = UnitsOf(after)
        BY DEF UnitsOf
      <3>4. UnitsOf(S) + Bill[i].units <= arrived[q]
        <4>1. desk[c].billed = UnitsOf(S) /\ desk[c].billed + Bill[i].units <= desk[c].received
          BY <1>2, <1>3, <1>9, <2>3
        <4>2. UnitsOf(S) \in Nat /\ Bill[i].units \in Nat /\ desk[c].received \in Nat
              /\ arrived[q] \in Nat
          BY <1>1, <3>1, InvoiceSets, BillFields, ClientFields DEF PayBooksInv, PayTypeOK
        <4> HIDE DEF S
        <4> QED
          BY <1>1, <4>1, <4>2
      <3> HIDE DEF S, after
      <3>5. UnitsOf(S \cup {i}) = UnitsOf(S) + Bill[i].units
        BY <3>1, UnitsOfOneMore
      <3>6. UnitsOf(after) <= UnitsOf(S \cup {i})
        BY <3>1, <3>2, UnitsOfFewer
      <3>7. UnitsOf(after) \in Nat /\ UnitsOf(S \cup {i}) \in Nat /\ arrived[q] \in Nat
        <4>1. after \in SUBSET Invoices /\ S \cup {i} \in SUBSET Invoices
          BY <3>1, <3>2
        <4> QED
          BY <1>1, <4>1, InvoiceSets DEF PayBooksInv, PayTypeOK
      <3>8. UnitsOf(after) <= arrived[q]
        BY <3>4, <3>5, <3>6, <3>7
      <3> QED
        BY <1>2, <2>3, <3>3, <3>8
    <2> QED
      BY <2>2, <2>3
  <1>10. UnflaggedFit'
    BY <1>9 DEF UnflaggedFit
  <1> QED
    BY <1>6, <1>7, <1>8, <1>10 DEF PayBooksInv

-----------------------------------------------------------------------------
(* Requests begin, goods come in, orders are cancelled *)

LEMMA BeginKeepsBooks ==
    ASSUME PayBooksInv, PayIInv', NEW c \in Clients, NEW s \in ClientState, Begin(c, s),
           Informed(s, invoice, arrived)
    PROVE  PayBooksInv'
  BY DeskKeepsBooks DEF Begin

LEMMA ReviewKeepsBooks ==
    ASSUME PayBooksInv, PayIInv', NEW c \in Clients, NEW u \in Accounts \cup {Nil},
           NEW d \in Invoices \cup Payouts, NEW from \in {"draft", "pending_review"},
           NEW to \in {"pending_review", "approved", "rejected"}, Review(c, u, d, from, to)
    PROVE  PayBooksInv'
  <1> DEFINE s == [AtRest EXCEPT !.stage = "deciding", !.user = u, !.doc = d,
                                 !.seen = from, !.to = to]
  <1>1. Begin(c, s)
    BY DEF Review
  <1>2. s \in ClientState
    BY DEF AtRest, ClientState, DocStatuses
  <1>3. s.stage = "deciding" /\ s.doc = d /\ s.seen = from /\ s.to = to
    BY DEF AtRest
  <1> HIDE DEF s
  <1>4. Informed(s, invoice, arrived)
    BY <1>3 DEF Informed
  <1> QED
    BY <1>1, <1>2, <1>4, BeginKeepsBooks

LEMMA LockingKeepsBooks ==
    ASSUME PayBooksInv, PayIInv', NEW c \in Clients, NEW u \in Accounts, NEW k \in Payouts,
           StartPayout(c, u, k) \/ ApprovePayout(c, u, k)
    PROVE  PayBooksInv'
  <1>1. PICK s \in ClientState : Begin(c, s) /\ s.stage = "locking"
    <2> DEFINE a == [AtRest EXCEPT !.stage = "locking", !.doc = k, !.to = "draft"]
               b == [AtRest EXCEPT !.stage = "locking", !.doc = k,
                                   !.seen = "pending_review", !.to = "approved"]
    <2>1. Begin(c, a) \/ Begin(c, b)
      BY DEF StartPayout, ApprovePayout
    <2>2. a \in ClientState /\ b \in ClientState /\ a.stage = "locking" /\ b.stage = "locking"
      BY DEF AtRest, ClientState, DocStatuses
    <2> HIDE DEF a, b
    <2> QED
      BY <2>1, <2>2
  <1>2. Informed(s, invoice, arrived)
    BY <1>1 DEF Informed
  <1> QED
    BY <1>1, <1>2, BeginKeepsBooks

LEMMA StartInvoiceKeepsBooks ==
    ASSUME PayBooksInv, PayIInv', NEW c \in Clients, NEW u \in Accounts, NEW i \in Invoices,
           StartInvoice(c, u, i)
    PROVE  PayBooksInv'
  <1> DEFINE o == Bill[i].po
             s == [AtRest EXCEPT !.stage = "billing", !.doc = i, !.known = InvoicesOf(o),
                                 !.billed = UnitsOf(Standing(o)), !.received = arrived[o]]
  <1>1. Begin(c, s)
    BY DEF StartInvoice
  <1>2. /\ InvoicesOf(o) \in SUBSET Invoices /\ UnitsOf(Standing(o)) \in Nat
        /\ arrived[o] \in Nat
    <2>1. o \in PoIds /\ InvoicesOf(o) \in SUBSET Invoices /\ Standing(o) \in SUBSET Invoices
      BY BillFields DEF InvoicesOf, Standing
    <2> QED
      BY <2>1, InvoiceSets DEF PayBooksInv, PayTypeOK
  <1>3. s \in ClientState
    BY <1>2 DEF AtRest, ClientState, DocStatuses
  <1>4. s.stage = "billing" /\ s.doc = i /\ s.received = arrived[Bill[i].po]
    BY DEF AtRest
  <1> HIDE DEF s
  <1>5. Informed(s, invoice, arrived)
    BY <1>2, <1>4 DEF Informed
  <1> QED
    BY <1>1, <1>3, <1>5, BeginKeepsBooks

\* Directors are accounts, so the wizards add no request of another kind.
LEMMA ArrivalKeepsBooks ==
    ASSUME PayBooksInv, PayIInv', NEW c \in Clients, Arrival(c)
    PROVE  PayBooksInv'
  <1>1. Directors \subseteq Accounts
    BY PayablesAssumption
  <1>2. ASSUME NEW u \in Accounts, NEW i \in Invoices,
               \/ SubmitInvoice(c, u, i)
               \/ ApproveInvoice(c, u, i)
               \/ RejectInvoice(c, u, i)
        PROVE  PayBooksInv'
    BY <1>2, ReviewKeepsBooks DEF SubmitInvoice, ApproveInvoice, RejectInvoice
  <1>3. ASSUME NEW u \in Accounts, NEW k \in Payouts,
               SubmitPayout(c, u, k) \/ RejectPayout(c, u, k)
        PROVE  PayBooksInv'
    BY <1>3, ReviewKeepsBooks DEF SubmitPayout, RejectPayout
  <1> QED
    BY <1>1, <1>2, <1>3, StartInvoiceKeepsBooks, LockingKeepsBooks
       DEF Arrival, PostInvoice, PostInvoiceSubmit, PostInvoiceApprove, PostInvoiceReject,
           PostPayout, PostPayoutSubmit, PostPayoutApprove, PostPayoutReject,
           InvoiceWizard, ReviewQueue

LEMMA GoodsKeepBooks ==
    ASSUME PayBooksInv, PayIInv', NEW o \in PoIds, Arrive(o) \/ Void(o)
    PROVE  PayBooksInv'
  <1>1. /\ UNCHANGED <<invoice, payout, paid, unitCost, lock, desk, overtaken, crossed>>
        /\ voided' \subseteq PoIds
        /\ arrived' \in [PoIds -> Nat] /\ \A q \in PoIds : arrived[q] <= arrived'[q]
    BY DEF Arrive, Void, PayBooksInv, PayTypeOK
  <1>2. PayTypeOK'
    BY <1>1 DEF PayBooksInv, PayTypeOK
  <1>3. ASSUME NEW e \in Clients PROVE Informed(desk[e], invoice, arrived)'
    <2>1. /\ Informed(desk[e], invoice, arrived) /\ desk[e].received \in Nat
      BY ClientFields DEF PayBooksInv
    <2>2. desk[e].stage = "billing" =>
             LET q == Bill[desk[e].doc].po
             IN  q \in PoIds /\ arrived[q] \in Nat /\ arrived'[q] \in Nat
      BY <1>1, <2>1, BillFields DEF Informed, PayBooksInv, PayTypeOK
    <2> QED
      BY <1>1, <2>1, <2>2 DEF Informed
  <1> QED
    BY <1>1, <1>2, <1>3, SameBooks DEF PayBooksInv

-----------------------------------------------------------------------------
(* The theorems *)

LEMMA PayInitHasBooks == PayInit => PayBooksInv
  <1> SUFFICES ASSUME PayInit PROVE PayBooksInv
    OBVIOUS
  <1>1. PayTypeOK
    BY AtRestIsKnown DEF PayInit, PayTypeOK, DocStatuses
  <1>2. MoneyOnApproved
    BY DEF PayInit, MoneyOnApproved
  <1>3. ASSUME NEW o \in PoIds PROVE UnitsOf(Unflagged(o)) <= arrived[o]
    <2>1. Unflagged(o) = {}
      BY DEF PayInit, Unflagged, Standing, InvoicesOf
    <2>2. UnitsOf({}) = 0
      BY SumEmpty DEF UnitsOf
    <2>3. arrived[o] = 0
      BY DEF PayInit
    <2> QED
      BY <2>1, <2>2, <2>3
  <1>4. \A c \in Clients : Informed(desk[c], invoice, arrived)
    BY AtRestIsKnown DEF PayInit
  <1> QED
    BY <1>1, <1>2, <1>3, <1>4, PayInitHolds DEF PayBooksInv, UnflaggedFit

LEMMA PayNextKeepsBooks == PayBooksInv /\ [PayNext]_payVars => PayBooksInv'
  <1> SUFFICES ASSUME PayBooksInv, [PayNext]_payVars PROVE PayBooksInv'
    OBVIOUS
  <1>1. PayIInv'
    BY PayNextKeeps DEF PayBooksInv
  <1>2. ASSUME NEW c \in Clients, Arrival(c) \/ Progress(c) \/ Drop(c) PROVE PayBooksInv'
    BY <1>1, <1>2, ArrivalKeepsBooks, InsertInvoiceKeepsBooks, CommitInvoiceKeepsBooks,
       LockInvoiceKeepsBooks, PayoutKeepsBooks, DropKeepsBooks DEF Progress
  <1>3. ASSUME NEW o \in PoIds, Arrive(o) \/ Void(o) PROVE PayBooksInv'
    BY <1>1, <1>3, GoodsKeepBooks
  <1>4. CASE UNCHANGED payVars
    <2>1. UNCHANGED <<invoice, payout, paid, arrived, voided, unitCost, lock, desk,
                      overtaken, crossed>>
      BY <1>4 DEF payVars
    <2>2. PayTypeOK' /\ \A c \in Clients : Informed(desk[c], invoice, arrived)'
      BY <2>1 DEF PayBooksInv, PayTypeOK, Informed
    <2>3. arrived' \in [PoIds -> Nat] /\ \A o \in PoIds : arrived[o] <= arrived'[o]
      BY <2>1 DEF PayBooksInv, PayTypeOK
    <2> QED
      BY <1>1, <2>1, <2>2, <2>3, SameBooks DEF PayBooksInv
  <1> QED
    BY <1>2, <1>3, <1>4 DEF PayNext

\* Every table and session has the values it is declared with.
THEOREM PayTypes == PaySpec => []PayTypeOK
  <1>1. PayBooksInv => PayTypeOK
    BY DEF PayBooksInv
  <1> QED
    BY <1>1, PayInitHasBooks, PayNextKeepsBooks, PTL DEF PaySpec

\* create_supplier_invoice, the reviews and the payments: for any number of
\* orders, invoices, payments and sessions, an order's books add up unless its
\* invoices were made or decided on side by side, although what is billed is
\* compared with sums that were read without a lock.
THEOREM PayablesAreRight == PaySpec => []PayablesAddUp
  BY BooksAddUp, PayInitHasBooks, PayNextKeepsBooks, PTL DEF PaySpec

-----------------------------------------------------------------------------
(* MCPurchasing *)

\* Side by side, orders and money go on as each does on its own: what is proved of
\* either holds of both together.
THEOREM BothGoOn == MCSpec => Spec /\ PaySpec
  <1>1. MCInit => Init /\ PayInit
    BY DEF MCInit
  <1>2. [MCNext]_<<part, vars, payVars>> => [Next]_vars /\ [PayNext]_payVars
    BY DEF MCNext
  <1> QED
    BY <1>1, <1>2, PTL DEF MCSpec, Spec, PaySpec

\* The state of orders, products, requests and receipts, and that of invoices, payments
\* and sessions, is of its type.
THEOREM PurchasingStateIsTyped == MCSpec => []TypesOK
  <1>1. TypeOK /\ PayTypeOK => TypesOK
    BY DEF TypesOK
  <1> QED
    BY <1>1, BothGoOn, PurchasingTypes, PayTypes, PTL
=============================================================================
