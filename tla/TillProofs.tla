----------------------------- MODULE TillProofs -----------------------------
(***************************************************************************)
(* Proofs about the tills and the server they report to: replayed events   *)
(* (EventSync), the outbox (Outbox) and the cash drawers (CashDrawer).     *)
(***************************************************************************)
EXTENDS EventSync, Outbox, CashDrawer, SumTheorems, TLAPS

-----------------------------------------------------------------------------
(* EventSync.  r is what a delivery is doing, done the table effects, twice  *)
(* the events that overlapped and lost those applied but not logged.         *)

InHand(r) == r.stage \in {"new", "working", "applied", "refused"}

\* What a delivery has done or been refused is so: who found no effect of a key,
\* or no log entry of a location, finds no effect later, unless another delivery
\* works on the same event or one was lost before it could log the location.
Honest(r, done, twice, lost) ==
    InHand(r) =>
        LET e == Head(r.queue)
        IN  /\ r.queue # <<>>
            /\ r.stage = "applied" => done[e] > 0
            /\ r.stage \in {"working", "refused"} /\ Keyed(e) /\ e \notin twice => done[e] = 0
            /\ r.stage \in {"new", "working", "refused"} /\ ~Keyed(e) /\ e \notin twice \cup lost
                   => done[e] = 0

\* Two deliveries of an event are seen.
OverlapsAreSeen ==
    \A d, q \in Deliveries :
        d # q /\ Busy(d) /\ Busy(q) /\ Event(d) = Event(q) => Event(d) \in overlaps

\* What failed is over: nobody is at it any more.
FailuresAreOver ==
    \A e \in Events :
        logged[e] = "failed" /\ e \notin overlaps
            => /\ Keyed(e) \/ e \notin unlogged => effects[e] = 0
               /\ \A d \in Deliveries : Busy(d) => Event(d) # e

\* A location that took effect is in the log or about to be.
EffectsAreAccounted ==
    \A e \in Events :
        ~Keyed(e) /\ effects[e] > 0 /\ e \notin overlaps \cup unlogged
            => logged[e] # "none" \/ \E d \in Deliveries : At(d, "applied") /\ Event(d) = e

SyncInv ==
    /\ SyncTypeOK
    /\ \A d \in Deliveries : Honest(delivery[d], effects, overlaps, unlogged)
    /\ OverlapsAreSeen
    /\ FailuresAreOver
    /\ EffectsAreAccounted
    /\ \A e \in Events : logged[e] = "success" => effects[e] > 0
    /\ EffectsHappenOnce

LEMMA HeadAndTail ==
    ASSUME NEW q \in Seq(Events), q # <<>>
    PROVE  Head(q) \in Events /\ Tail(q) \in Seq(Events)
  OBVIOUS

LEMMA FreeIsRequested == Free \in Requested /\ ~InHand(Free)
  BY DEF Free, Requested, Statuses, InHand

\* Answers leave a delivery between two events.
LEMMA AnswerMoves ==
    ASSUME SyncInv, NEW d \in Deliveries, delivery[d].queue # <<>>, NEW status \in Statuses,
           Answer(d, status)
    PROVE  \E r \in Requested : ~InHand(r) /\ delivery' = [delivery EXCEPT ![d] = r]
  <1> DEFINE r == [queue |-> Tail(delivery[d].queue), stage |-> "next",
                   results |-> [delivery[d].results EXCEPT ![Event(d)] = status]]
  <1>1. delivery[d] \in Requested
    BY DEF SyncInv, SyncTypeOK
  <1>2. Event(d) \in Events /\ Tail(delivery[d].queue) \in Seq(Events)
    BY <1>1, HeadAndTail DEF Event, Requested
  <1>3. r \in Requested
    BY <1>1, <1>2 DEF Requested
  <1>4. ~InHand(r)
    BY DEF InHand
  <1>5. delivery' = [delivery EXCEPT ![d] = r]
    BY <1>1 DEF Answer
  <1> QED
    BY <1>3, <1>4, <1>5

LEMMA GoMoves ==
    ASSUME SyncInv, NEW d \in Deliveries,
           NEW stage \in {"free", "next", "new", "working", "applied", "refused"}, Go(d, stage)
    PROVE  \E r \in Requested : /\ r.queue = delivery[d].queue /\ r.stage = stage
                                /\ delivery' = [delivery EXCEPT ![d] = r]
  <1> DEFINE r == [delivery[d] EXCEPT !.stage = stage]
  <1>1. delivery[d] \in Requested
    BY DEF SyncInv, SyncTypeOK
  <1>2. r \in Requested /\ r.queue = delivery[d].queue /\ r.stage = stage
    BY <1>1 DEF Requested
  <1>3. delivery' = [delivery EXCEPT ![d] = r]
    BY DEF Go
  <1> QED
    BY <1>2, <1>3

\* A delivery comes to rest, goes on with its event, or takes up one that nobody
\* else is at, or one that is marked; the tables stay or marks are added.
LEMMA OneMoves ==
    ASSUME SyncInv, NEW d \in Deliveries, NEW r \in Requested,
           delivery' = [delivery EXCEPT ![d] = r],
           SyncTypeOK', UNCHANGED <<logged, effects>>,
           overlaps \subseteq overlaps', unlogged \subseteq unlogged',
           At(d, "applied") => logged[Event(d)] # "none" \/ Event(d) \in unlogged',
           Honest(r, effects, overlaps', unlogged'),
           InHand(r) => \/ Busy(d) /\ Head(r.queue) = Event(d)
                        \/ /\ logged[Head(r.queue)] = "none"
                           /\ \A q \in Deliveries \ {d} :
                                 Busy(q) /\ Event(q) = Head(r.queue) => Event(q) \in overlaps'
    PROVE  SyncInv'
  <1>1. \A q \in Deliveries : delivery'[q] = IF q = d THEN r ELSE delivery[q]
    BY DEF SyncInv, SyncTypeOK
  <1>2. \A q \in Deliveries : Honest(delivery[q], effects, overlaps, unlogged)'
    BY <1>1 DEF SyncInv, Honest
  <1>3. OverlapsAreSeen'
    BY <1>1 DEF SyncInv, OverlapsAreSeen, Busy, Event, InHand
  <1>4. FailuresAreOver'
    BY <1>1 DEF SyncInv, FailuresAreOver, Busy, Event, InHand
  <1>5. EffectsAreAccounted'
    BY <1>1 DEF SyncInv, EffectsAreAccounted, At, Event
  <1> QED
    BY <1>2, <1>3, <1>4, <1>5 DEF SyncInv, EffectsHappenOnce

\* A delivery that stops working on an event, all else being as it was.
LEMMA Stops ==
    ASSUME SyncInv, NEW d \in Deliveries, NEW r \in Requested, ~InHand(r),
           delivery' = [delivery EXCEPT ![d] = r], UNCHANGED <<logged, effects, overlaps>>,
           unlogged \subseteq unlogged', unlogged' \subseteq Events,
           At(d, "applied") => logged[Event(d)] # "none" \/ Event(d) \in unlogged',
           heard' \in [Events -> Statuses], UNCHANGED <<drawer, permitted, tracked>>,
           sends' \in 0..MaxSends, shifts' \in 0..MaxShifts
    PROVE  SyncInv'
  <1>1. SyncTypeOK'
    BY DEF SyncInv, SyncTypeOK
  <1>2. Honest(r, effects, overlaps', unlogged')
    BY DEF Honest
  <1> QED
    BY <1>1, <1>2, OneMoves

\* A delivery that goes on with its event.
LEMMA GoesOn ==
    ASSUME SyncInv, NEW d \in Deliveries, Busy(d), ~At(d, "applied"),
           NEW stage \in {"new", "working", "applied", "refused"}, Go(d, stage),
           stage = "applied" => effects[Event(d)] > 0,
           stage \in {"working", "refused"} /\ Keyed(Event(d)) /\ Event(d) \notin overlaps
               => effects[Event(d)] = 0,
           stage \in {"new", "working", "refused"} /\ ~Keyed(Event(d))
                   /\ Event(d) \notin overlaps \cup unlogged
               => effects[Event(d)] = 0,
           UNCHANGED <<logged, effects, overlaps, unlogged, heard, drawer, permitted, tracked,
                       sends, shifts>>
    PROVE  SyncInv'
  <1>1. PICK r \in Requested : /\ r.queue = delivery[d].queue /\ r.stage = stage
                               /\ delivery' = [delivery EXCEPT ![d] = r]
    BY GoMoves
  <1>2. delivery[d].queue # <<>>
    BY DEF SyncInv, Honest, Busy, InHand
  <1>3. SyncTypeOK'
    BY <1>1 DEF SyncInv, SyncTypeOK
  <1>4. Honest(r, effects, overlaps', unlogged')
    BY <1>1, <1>2 DEF Honest, Event
  <1> QED
    BY <1>1, <1>3, <1>4, OneMoves DEF Event

-----------------------------------------------------------------------------
(* The terminal's steps *)

LEMMA SendBatchKeeps ==
    ASSUME SyncInv, NEW d \in Deliveries, NEW batch \in Replays, SendBatch(d, batch)
    PROVE  SyncInv'
  <1> DEFINE r == [Free EXCEPT !.queue = batch, !.stage = "next"]
  <1>1. r \in Requested /\ ~InHand(r)
    BY EventSyncAssumption DEF Free, Requested, Statuses, InHand
  <1>2. sends' \in 0..MaxSends
    BY EventSyncAssumption DEF SendBatch, SyncInv, SyncTypeOK
  <1> QED
    BY <1>1, <1>2, Stops DEF SendBatch, SyncInv, SyncTypeOK, At

LEMMA HearReplyKeeps ==
    ASSUME SyncInv, NEW d \in Deliveries, HearReply(d)
    PROVE  SyncInv'
  <1>1. \A e \in Events : delivery[d].results[e] \in Statuses /\ logged[e] \in Statuses
    BY DEF SyncInv, SyncTypeOK, Requested, Statuses
  <1>2. heard' \in [Events -> Statuses]
    BY <1>1 DEF HearReply, Understood, SyncInv, SyncTypeOK
  <1> QED
    BY <1>2, FreeIsRequested, Stops DEF HearReply, SyncInv, SyncTypeOK, At

LEMMA LoseRequestKeeps ==
    ASSUME SyncInv, NEW d \in Deliveries, LoseRequest(d)
    PROVE  SyncInv'
  <1>1. At(d, "applied") => delivery[d].queue # <<>>
    BY DEF SyncInv, Honest, InHand, At
  <1>2. At(d, "applied") => Event(d) \in Events
    BY <1>1, HeadAndTail DEF Event, SyncInv, SyncTypeOK, Requested
  <1>3. unlogged \subseteq unlogged' /\ unlogged' \subseteq Events
        /\ (At(d, "applied") => Event(d) \in unlogged')
    BY <1>2 DEF LoseRequest, SyncInv, SyncTypeOK
  <1> QED
    BY <1>3, FreeIsRequested, Stops DEF LoseRequest, SyncInv, SyncTypeOK

\* What happens to the drawer, the role or a trip touches no delivery.
LEMMA ShiftKeeps ==
    ASSUME SyncInv, ShiftDrawer \/ ShiftRole \/ \E e \in Events : AssignTrip(e)
    PROVE  SyncInv'
  <1>1. UNCHANGED <<logged, effects, delivery, heard, sends, overlaps, unlogged>>
    BY DEF ShiftDrawer, ShiftRole, AssignTrip
  <1>2. SyncTypeOK'
    <2>1. permitted' \in BOOLEAN
      BY ZenonT(30) DEF ShiftDrawer, ShiftRole, AssignTrip, SyncInv, SyncTypeOK
    <2>2. /\ drawer' \in {"open", "closed"} /\ tracked' \subseteq Events
          /\ shifts' \in 0..MaxShifts
      BY EventSyncAssumption DEF ShiftDrawer, ShiftRole, AssignTrip, SyncInv, SyncTypeOK
    <2> QED
      BY <1>1, <2>1, <2>2 DEF SyncInv, SyncTypeOK
  <1> QED
    BY <1>1, <1>2 DEF SyncInv, Honest, OverlapsAreSeen, FailuresAreOver, EffectsAreAccounted, At,
                      Busy, Event, EffectsHappenOnce

-----------------------------------------------------------------------------
(* The server's steps *)

LEMMA FindNewKeeps ==
    ASSUME SyncInv, NEW d \in Deliveries, FindNew(d)
    PROVE  SyncInv'
  <1>1. PICK r \in Requested : /\ r.queue = delivery[d].queue /\ r.stage = "new"
                               /\ delivery' = [delivery EXCEPT ![d] = r]
    BY GoMoves DEF FindNew
  <1>2. Event(d) \in Events
    BY HeadAndTail DEF FindNew, Event, SyncInv, SyncTypeOK, Requested
  <1>3. SyncTypeOK' /\ overlaps \subseteq overlaps'
    BY <1>1, <1>2 DEF FindNew, SyncInv, SyncTypeOK
  <1>4. \A q \in Deliveries \ {d} : Busy(q) /\ Event(q) = Event(d) => Event(q) \in overlaps'
    BY DEF FindNew
  <1>5. ~Keyed(Event(d)) /\ Event(d) \notin overlaps' \cup unlogged' => effects[Event(d)] = 0
    BY <1>2, <1>3, <1>4 DEF FindNew, SyncInv, SyncTypeOK, EffectsAreAccounted, At, Busy
  <1>6. Honest(r, effects, overlaps', unlogged')
    BY <1>1, <1>5 DEF Honest, FindNew, Event
  <1> QED
    BY <1>1, <1>3, <1>4, <1>6, OneMoves DEF FindNew, Event, At

LEMMA AnsweredKeeps ==
    ASSUME SyncInv, NEW d \in Deliveries, delivery[d].queue # <<>>, NEW status \in Statuses,
           Answer(d, status), ~At(d, "applied"),
           UNCHANGED <<logged, effects, overlaps, unlogged, heard, drawer, permitted, tracked,
                       sends, shifts>>
    PROVE  SyncInv'
  <1>1. PICK r \in Requested : ~InHand(r) /\ delivery' = [delivery EXCEPT ![d] = r]
    BY AnswerMoves
  <1> QED
    BY <1>1, Stops DEF SyncInv, SyncTypeOK

LEMMA FindByKeyKeeps ==
    ASSUME SyncInv, NEW d \in Deliveries, FindByKey(d)
    PROVE  SyncInv'
  <1>1. Busy(d) /\ delivery[d].queue # <<>>
    BY DEF FindByKey, At, Busy, SyncInv, Honest, InHand
  <1>2. Event(d) \in Events
    BY <1>1, HeadAndTail DEF Event, SyncInv, SyncTypeOK, Requested
  <1>3. effects[Event(d)] \in Nat
    BY <1>2 DEF SyncInv, SyncTypeOK
  <1> DEFINE stage == IF Keyed(Event(d)) /\ effects[Event(d)] > 0 THEN "applied" ELSE "working"
  <1>4. /\ Go(d, stage) /\ stage \in {"new", "working", "applied", "refused"}
        /\ stage = "applied" => effects[Event(d)] > 0
        /\ stage \in {"working", "refused"} /\ Keyed(Event(d)) => effects[Event(d)] = 0
        /\ stage # "refused" /\ ~At(d, "applied")
        /\ ~Keyed(Event(d)) /\ Event(d) \notin overlaps \cup unlogged => effects[Event(d)] = 0
    BY <1>1, <1>3 DEF FindByKey, SyncInv, Honest, InHand, At, Event
  <1> HIDE DEF stage
  <1> QED
    BY <1>1, <1>4, GoesOn DEF FindByKey

LEMMA RefuseKeeps ==
    ASSUME SyncInv, NEW d \in Deliveries, Refuse(d)
    PROVE  SyncInv'
  <1>1. /\ Busy(d) /\ ~At(d, "applied")
        /\ Keyed(Event(d)) /\ Event(d) \notin overlaps => effects[Event(d)] = 0
        /\ ~Keyed(Event(d)) /\ Event(d) \notin overlaps \cup unlogged => effects[Event(d)] = 0
    BY DEF Refuse, At, Busy, SyncInv, Honest, InHand, Event
  <1> QED
    BY <1>1, GoesOn DEF Refuse

LEMMA ApplyKeeps ==
    ASSUME SyncInv, NEW d \in Deliveries, Apply(d)
    PROVE  SyncInv'
  <1> DEFINE e == Event(d)
  <1>1. PICK r \in Requested : /\ r.queue = delivery[d].queue /\ r.stage = "applied"
                               /\ delivery' = [delivery EXCEPT ![d] = r]
    BY GoMoves DEF Apply
  <1>2. Busy(d) /\ delivery[d].queue # <<>>
    BY DEF Apply, At, Busy, SyncInv, Honest, InHand
  <1>3. e \in Events
    BY <1>2, HeadAndTail DEF Event, SyncInv, SyncTypeOK, Requested
  <1>4. /\ effects' = [effects EXCEPT ![e] = @ + 1]
        /\ Keyed(e) => effects[e] = 0
        /\ UNCHANGED <<logged, heard, drawer, permitted, tracked, sends, shifts, overlaps,
                       unlogged>>
    BY DEF Apply
  <1>5. \A q \in Deliveries : delivery'[q] = IF q = d THEN r ELSE delivery[q]
    BY <1>1 DEF SyncInv, SyncTypeOK
  <1>6. \A q \in Deliveries \ {d} : Busy(q) /\ Event(q) = e => e \in overlaps
    BY <1>2 DEF SyncInv, OverlapsAreSeen
  <1>7. e = Head(r.queue) /\ r.queue # <<>>
    BY <1>1, <1>2 DEF Event
  <1>8. e = Event(d)
    OBVIOUS
  <1> HIDE DEF e
  <1>9. effects' \in [Events -> Nat] /\ effects'[e] = effects[e] + 1 /\ effects[e] \in Nat
        /\ \A x \in Events \ {e} : effects'[x] = effects[x]
    BY <1>3, <1>4 DEF SyncInv, SyncTypeOK
  <1>10. \A x \in Events : effects[x] > 0 => effects'[x] > 0
    BY <1>9
  <1>11. SyncTypeOK'
    BY <1>1, <1>4, <1>9 DEF SyncInv, SyncTypeOK
  <1>12. ASSUME NEW q \in Deliveries PROVE Honest(delivery[q], effects, overlaps, unlogged)'
    <2>1. CASE q = d
      <3>1. effects'[e] > 0
        BY <1>9
      <3> QED
        BY <1>1, <1>5, <1>7, <2>1, <3>1 DEF Honest
    <2>2. CASE q # d
      <3>1. delivery'[q] = delivery[q] /\ Honest(delivery[q], effects, overlaps, unlogged)
        BY <1>5, <2>2 DEF SyncInv
      <3>2. InHand(delivery[q]) => Head(delivery[q].queue) \in Events
        BY <3>1, HeadAndTail DEF Honest, SyncInv, SyncTypeOK, Requested
      <3>3. InHand(delivery[q]) /\ Head(delivery[q].queue) = e => e \in overlaps
        BY <1>6, <2>2 DEF InHand, Busy, Event
      <3> QED
        BY <1>4, <1>9, <1>10, <3>1, <3>2, <3>3 DEF Honest
    <2> QED
      BY <2>1, <2>2
  <1>13. OverlapsAreSeen'
    BY <1>1, <1>2, <1>4, <1>5 DEF SyncInv, OverlapsAreSeen, Busy, Event
  <1>14. FailuresAreOver'
    BY <1>1, <1>2, <1>3, <1>4, <1>5, <1>8, <1>9 DEF SyncInv, FailuresAreOver, Busy, Event
  <1>15. EffectsHappenOnce'
    BY <1>4, <1>9 DEF SyncInv, EffectsHappenOnce, Keyed
  <1>16. EffectsAreAccounted'
    <2>1. ASSUME NEW x \in Events, ~Keyed(x), effects'[x] > 0, x \notin overlaps \cup unlogged
          PROVE  logged[x] # "none" \/ \E q \in Deliveries : (At(q, "applied") /\ Event(q) = x)'
      <3>1. CASE x = e
        BY <1>1, <1>5, <1>7, <3>1 DEF At, Event
      <3>2. CASE x # e
        <4>1. logged[x] # "none" \/ \E q \in Deliveries : At(q, "applied") /\ Event(q) = x
          BY <1>9, <2>1, <3>2 DEF SyncInv, EffectsAreAccounted
        <4> QED
          BY <1>5, <1>8, <3>2, <4>1 DEF At, Event
      <3> QED
        BY <3>1, <3>2
    <2> QED
      BY <1>4, <2>1 DEF EffectsAreAccounted
  <1> QED
    BY <1>4, <1>10, <1>11, <1>12, <1>13, <1>14, <1>15, <1>16 DEF SyncInv

\* A delivery logs what became of its event.
LEMMA LogKeeps ==
    ASSUME SyncInv, NEW d \in Deliveries, LogSuccess(d) \/ LogFailed(d)
    PROVE  SyncInv'
  <1> DEFINE e == Event(d)
  <1>1. /\ Busy(d) /\ delivery[d].queue # <<>>
        /\ At(d, "applied") \/ At(d, "refused")
    BY DEF LogSuccess, LogFailed, At, Busy, SyncInv, Honest, InHand
  <1>2. e \in Events
    BY <1>1, HeadAndTail DEF Event, SyncInv, SyncTypeOK, Requested, LogSuccess, LogFailed, At,
                             Honest, InHand
  <1>3. CASE logged[e] # "none"
    <2>1. PICK r \in Requested : ~InHand(r) /\ delivery' = [delivery EXCEPT ![d] = r]
      BY <1>1, <1>3, AnswerMoves, FreeIsRequested
         DEF LogSuccess, LogFailed, Statuses, SyncInv, Honest, InHand, At
    <2>2. logged' = logged
      BY <1>2, <1>3 DEF LogSuccess, LogFailed, SyncInv, SyncTypeOK
    <2> QED
      BY <1>3, <2>1, <2>2, Stops DEF LogSuccess, LogFailed, SyncInv, SyncTypeOK
  <1>4. CASE logged[e] = "none"
    <2>1. PICK status \in {"success", "failed"} :
             /\ status = "success" <=> At(d, "applied")
             /\ logged' = [logged EXCEPT ![e] = status]
             /\ Answer(d, status)
      BY <1>4 DEF LogSuccess, LogFailed, At
    <2>2. PICK r \in Requested : ~InHand(r) /\ delivery' = [delivery EXCEPT ![d] = r]
      BY <1>1, <2>1, AnswerMoves DEF Statuses, SyncInv, Honest, InHand, At
    <2>3. UNCHANGED <<effects, heard, drawer, permitted, tracked, sends, shifts, overlaps,
                      unlogged>>
      BY DEF LogSuccess, LogFailed
    <2>4. \A q \in Deliveries : delivery'[q] = IF q = d THEN r ELSE delivery[q]
      BY <2>2 DEF SyncInv, SyncTypeOK
    <2>5. /\ At(d, "applied") => effects[e] > 0
          /\ ~At(d, "applied") /\ e \notin overlaps /\ (Keyed(e) \/ e \notin unlogged)
                 => effects[e] = 0
      BY <1>1 DEF SyncInv, Honest, InHand, At, Event
    <2>6. \A q \in Deliveries \ {d} : Busy(q) /\ Event(q) = e => e \in overlaps
      BY <1>1 DEF SyncInv, OverlapsAreSeen, Busy, At
    <2>7. \A q \in Deliveries : (Busy(q))' => q # d /\ Busy(q) /\ (Event(q))' = Event(q)
      BY <2>2, <2>4 DEF Busy, InHand, Event
    <2> HIDE DEF e
    <2>8. /\ logged' \in [Events -> {"none", "success", "failed"}]
          /\ \A x \in Events : logged'[x] = IF x = e THEN status ELSE logged[x]
      BY <1>2, <2>1 DEF SyncInv, SyncTypeOK
    <2>9. SyncTypeOK'
      BY <2>2, <2>3, <2>8 DEF SyncInv, SyncTypeOK
    <2>10. \A q \in Deliveries : Honest(delivery[q], effects, overlaps, unlogged)'
      BY <2>2, <2>3, <2>4 DEF SyncInv, Honest
    <2>11. OverlapsAreSeen'
      BY <2>3, <2>7 DEF SyncInv, OverlapsAreSeen
    <2>12. FailuresAreOver'
      BY <2>1, <2>3, <2>5, <2>6, <2>7, <2>8 DEF SyncInv, FailuresAreOver
    <2>13. EffectsAreAccounted'
      <3>1. ASSUME NEW x \in Events, x # e, NEW q \in Deliveries, At(q, "applied"), Event(q) = x
            PROVE  (At(q, "applied") /\ Event(q) = x)'
        <4>1. q # d
          BY <3>1 DEF e
        <4> QED
          BY <2>4, <3>1, <4>1 DEF At, Event
      <3> QED
        BY <2>1, <2>3, <2>8, <3>1 DEF SyncInv, EffectsAreAccounted
    <2>14. \A x \in Events : logged'[x] = "success" => effects'[x] > 0
      BY <2>1, <2>3, <2>5, <2>8 DEF SyncInv
    <2> QED
      BY <2>3, <2>9, <2>10, <2>11, <2>12, <2>13, <2>14 DEF SyncInv, EffectsHappenOnce
  <1> QED
    BY <1>3, <1>4

LEMMA SyncNextKeeps == SyncInv /\ [SyncNext]_syncVars => SyncInv'
  <1> SUFFICES ASSUME SyncInv, [SyncNext]_syncVars PROVE SyncInv'
    OBVIOUS
  <1>1. ASSUME NEW d \in Deliveries, FindLogged(d) \/ KeyConflict(d) PROVE SyncInv'
    <2>1. delivery[d].queue # <<>> /\ ~At(d, "applied")
      BY <1>1 DEF FindLogged, KeyConflict, At, SyncInv, Honest, InHand
    <2> QED
      BY <1>1, <2>1, AnsweredKeeps DEF FindLogged, KeyConflict, Statuses
  <1>2. CASE UNCHANGED syncVars
    BY <1>2 DEF syncVars, SyncInv, SyncTypeOK, Honest, OverlapsAreSeen, FailuresAreOver,
                EffectsAreAccounted, At, Busy, Event, EffectsHappenOnce
  <1> QED
    BY <1>1, <1>2, SendBatchKeeps, HearReplyKeeps, LoseRequestKeeps, ShiftKeeps, FindNewKeeps,
       FindByKeyKeeps, RefuseKeeps, ApplyKeeps, LogKeeps DEF SyncNext

LEMMA SyncInitHolds == SyncInit => SyncInv
  <1> SUFFICES ASSUME SyncInit PROVE SyncInv
    OBVIOUS
  <1>1. SyncTypeOK
    BY FreeIsRequested, EventSyncAssumption DEF SyncInit, SyncTypeOK, Statuses
  <1>2. \A d \in Deliveries : delivery[d] = Free
    BY DEF SyncInit
  <1>3. \A d \in Deliveries : ~Busy(d) /\ Honest(delivery[d], effects, overlaps, unlogged)
    BY <1>2 DEF Free, Busy, Honest, InHand
  <1> QED
    BY <1>1, <1>3 DEF SyncInit, SyncInv, OverlapsAreSeen, FailuresAreOver, EffectsAreAccounted,
                      EffectsHappenOnce

\* POST /sync/events/batch: for any batches, deliveries and crashes, a sale, a
\* payment or a refund happens at most once.
THEOREM EventsHappenOnce == SyncSpec => []EffectsHappenOnce
  <1>1. SyncInv => EffectsHappenOnce
    BY DEF SyncInv
  <1> QED
    BY <1>1, SyncInitHolds, SyncNextKeeps, PTL DEF SyncSpec

\* sync_event_logs tells the truth, for any batches, deliveries and crashes:
\* successes have happened, and failures have not unless two deliveries of the
\* event overlapped or the delivery that applied a location ended unlogged.
THEOREM LogsAreTrue == SyncSpec => []LogIsTrue
  <1>1. SyncInv => LogIsTrue
    BY DEF SyncInv, LogIsTrue, FailuresAreOver
  <1> QED
    BY <1>1, SyncInitHolds, SyncNextKeeps, PTL DEF SyncSpec

\* The log, the deliveries and what was heard of them have their types.
THEOREM SyncTypes == SyncSpec => []SyncTypeOK
  <1>1. SyncInv => SyncTypeOK
    BY DEF SyncInv
  <1> QED
    BY <1>1, SyncInitHolds, SyncNextKeeps, PTL DEF SyncSpec

-----------------------------------------------------------------------------
(* Outbox.  r is a request in the server, rows the table book.               *)

PostRows == [by : Senders \cup {"nobody"}, ticket : Tickets \cup {NoTicket},
             call : CallNames \cup {"none"}, way : [cash : Nat, card : Nat],
             stage : {"free", "arrived", "checked"} \cup Answers]

BookRows == [status : {"none", "pending", "serving"}, total : Int, paid : Nat, card : Nat,
             keyed : Nat, batches : Nat, lapsed : BOOLEAN]

HasPayment(row) == row.keyed > 0 \/ row.batches > 0

\* Whoever is told that a payment went through, or that its key is used up, is
\* told of a payment.
TellsTheTruth(r, rows) ==
    r.stage # "free" =>
        /\ r.ticket \in Tickets /\ r.call \in CallNames
        /\ r.call = "pay" /\ r.stage \in {"ok", "conflict"} => HasPayment(rows[r.ticket])

\* A single payment is booked once, cards are charged no more than the total, and an
\* order that is not there has no payments.
SoundRow(row) ==
    /\ row.keyed <= 1 /\ row.card <= row.paid
    /\ row.card > 0 => row.card <= row.total
    /\ row.status = "none" => row.card = 0

TillInv ==
    /\ OutboxTypeOK
    /\ \A p \in Posts : TellsTheTruth(posts[p], book)
    /\ \A t \in Tickets : SoundRow(book[t])
    /\ \A t \in Tickets : place[t] \in {"sold", "synced"} => t \in dropped \/ HasPayment(book[t])

LEMMA WayFields ==
    ASSUME NEW t \in Tickets
    PROVE  Ways[t] \subseteq [cash : Nat, card : Nat] /\ Totals[t] \subseteq Int
  BY OutboxAssumption

LEMMA BookFields ==
    ASSUME OutboxTypeOK, NEW t \in Tickets
    PROVE  book[t] \in BookRows /\ rowWay[t] \in [cash : Nat, card : Nat]
  BY DEF OutboxTypeOK, BookRows

LEMMA NoPostIsTrue == NoPost \in PostRows /\ \A rows : TellsTheTruth(NoPost, rows)
  BY DEF NoPost, NoWay, PostRows, TellsTheTruth, Answers

\* Steps of the till, which leave the book alone.
LEMMA SameBook ==
    ASSUME TillInv, UNCHANGED book, OutboxTypeOK', dropped \subseteq dropped',
           \A p \in Posts : TellsTheTruth(posts'[p], book),
           \A t \in Tickets : place'[t] \in {"sold", "synced"} =>
               place'[t] = place[t] \/ t \in dropped' \/ HasPayment(book[t])
    PROVE  TillInv'
  <1>1. \A p \in Posts : TellsTheTruth(posts[p], book)'
    BY DEF TillInv, TellsTheTruth
  <1>2. \A t \in Tickets : SoundRow(book[t])'
    BY DEF TillInv
  <1>3. \A t \in Tickets : place'[t] \in {"sold", "synced"} => t \in dropped' \/ HasPayment(book'[t])
    BY DEF TillInv
  <1> QED
    BY <1>1, <1>2, <1>3 DEF TillInv

\* One request in the server moves on, and nobody is done with a sale.
LEMMA OnePost ==
    ASSUME TillInv, NEW p \in Posts, NEW r \in PostRows, posts' = [posts EXCEPT ![p] = r],
           TellsTheTruth(r, book), UNCHANGED <<place, rowWay, book, dropped>>,
           waits' \in [Senders -> [ticket : Tickets \cup {NoTicket}, call : CallNames \cup {"none"}]],
           todo' \subseteq Tickets, shift' \in BOOLEAN, faults' \in 0..MaxFaults
    PROVE  TillInv'
  <1>1. OutboxTypeOK'
    BY DEF TillInv, OutboxTypeOK, PostRows
  <1>2. \A q \in Posts : TellsTheTruth(posts'[q], book)
    BY DEF TillInv, OutboxTypeOK
  <1> QED
    BY <1>1, <1>2, SameBook

LEMMA PostFields ==
    ASSUME TillInv, NEW p \in Posts
    PROVE  posts[p] \in PostRows /\ TellsTheTruth(posts[p], book)
  BY DEF TillInv, OutboxTypeOK, PostRows

\* A request's new stage.
LEMMA NewStage ==
    ASSUME TillInv, NEW p \in Posts,
           NEW stage \in {"arrived", "checked"} \cup Answers
    PROVE  LET r == [posts[p] EXCEPT !.stage = stage]
           IN  /\ r \in PostRows /\ r.stage = stage
               /\ r.call = posts[p].call /\ r.ticket = posts[p].ticket
  BY PostFields DEF PostRows

-----------------------------------------------------------------------------
(* The till *)

LEMMA SendKeeps ==
    ASSUME TillInv, NEW c \in Senders, NEW t \in Tickets, SendCreate(c, t),
           UNCHANGED <<book, shift, faults, dropped>>, todo' \subseteq Tickets,
           rowWay' \in [Tickets -> [cash : Nat, card : Nat]],
           place' \in [Tickets -> Places],
           \A u \in Tickets : place'[u] = place[u] \/ place'[u] = "sheet"
    PROVE  TillInv'
  <1> DEFINE r == [NoPost EXCEPT !.by = c, !.ticket = t, !.call = "create", !.stage = "arrived"]
  <1>1. PICK p \in Posts : /\ posts[p].stage = "free" /\ posts' = [posts EXCEPT ![p] = r]
                           /\ waits' = [waits EXCEPT ![c] = [ticket |-> t, call |-> "create"]]
    BY DEF SendCreate
  <1>2. r \in PostRows /\ TellsTheTruth(r, book)
    BY DEF NoPost, NoWay, PostRows, CallNames, TellsTheTruth
  <1> HIDE DEF r
  <1>3. OutboxTypeOK'
    BY <1>1, <1>2 DEF TillInv, OutboxTypeOK, PostRows, CallNames
  <1>4. \A q \in Posts : TellsTheTruth(posts'[q], book)
    BY <1>1, <1>2 DEF TillInv, OutboxTypeOK
  <1> QED
    BY <1>3, <1>4, SameBook

\* Steps that only take a sale elsewhere on the till, but not off it.
LEMMA OnlyPlaces ==
    ASSUME TillInv, place' \in [Tickets -> Places], UNCHANGED <<posts, book, shift, dropped>>,
           waits' \in [Senders -> [ticket : Tickets \cup {NoTicket}, call : CallNames \cup {"none"}]],
           todo' \subseteq Tickets, faults' \in 0..MaxFaults,
           rowWay' \in [Tickets -> [cash : Nat, card : Nat]],
           \A u \in Tickets : place'[u] = place[u] \/ place'[u] \notin {"sold", "synced"}
    PROVE  TillInv'
  <1>1. OutboxTypeOK'
    BY DEF TillInv, OutboxTypeOK
  <1> QED
    BY <1>1, SameBook DEF TillInv

LEMMA SheetAndRowsKeep ==
    ASSUME TillInv, NEW t \in Tickets,
           \/ Submit(t)
           \/ CloseSheet(t)
           \/ NextRow(t)
           \/ SyncOutbox
    PROVE  TillInv'
  <1>1. CASE Submit(t)
    <2>1. rowWay' \in [Tickets -> [cash : Nat, card : Nat]]
      BY <1>1, WayFields DEF Submit, TillInv, OutboxTypeOK
    <2> QED
      BY <1>1, <2>1, SendKeeps, OnlyPlaces DEF Submit, Senders, Places, TillInv, OutboxTypeOK
  <1>2. CASE CloseSheet(t)
    BY <1>2, OnlyPlaces DEF CloseSheet, Places, TillInv, OutboxTypeOK
  <1>3. CASE NextRow(t)
    BY <1>3, SendKeeps DEF NextRow, Senders, TillInv, OutboxTypeOK
  <1>4. CASE SyncOutbox
    BY <1>4, OnlyPlaces DEF SyncOutbox, TillInv, OutboxTypeOK
  <1> QED
    BY <1>1, <1>2, <1>3, <1>4

LEMMA OrderCreatedKeeps ==
    ASSUME TillInv, NEW c \in Senders, NEW p \in Posts, OrderCreated(c, p)
    PROVE  TillInv'
  <1>0. posts[p].ticket \in Tickets
    BY PostFields DEF OrderCreated, TellsTheTruth
  <1>4. PICK way \in [cash : Nat, card : Nat] :
           posts' = [posts EXCEPT ![p] =
                       [posts[p] EXCEPT !.call = "pay", !.way = way, !.stage = "arrived"]]
    <2>1. PICK way \in IF c = "sheet" THEN Ways[posts[p].ticket] ELSE {rowWay[posts[p].ticket]} :
             posts' = [posts EXCEPT ![p].call = "pay", ![p].way = way, ![p].stage = "arrived"]
      BY DEF OrderCreated
    <2>2. way \in [cash : Nat, card : Nat]
      BY <1>0, <2>1, WayFields, BookFields DEF TillInv
    <2>3. posts' = [posts EXCEPT ![p] =
                      [posts[p] EXCEPT !.call = "pay", !.way = way, !.stage = "arrived"]]
      BY <2>1
    <2> QED
      BY <2>2, <2>3
  <1> DEFINE r == [posts[p] EXCEPT !.call = "pay", !.way = way, !.stage = "arrived"]
  <1>1. r \in PostRows /\ TellsTheTruth(r, book)
    BY <1>0, PostFields DEF PostRows, CallNames, TellsTheTruth
  <1>2. posts' = [posts EXCEPT ![p] = r]
    BY <1>4
  <1>3. waits' \in [Senders -> [ticket : Tickets \cup {NoTicket}, call : CallNames \cup {"none"}]]
    <2>1. waits' = [waits EXCEPT ![c] = [waits[c] EXCEPT !.call = "pay"]]
      BY DEF OrderCreated
    <2>2. waits[c] \in [ticket : Tickets \cup {NoTicket}, call : CallNames \cup {"none"}]
      BY DEF TillInv, OutboxTypeOK
    <2>3. [waits[c] EXCEPT !.call = "pay"]
            \in [ticket : Tickets \cup {NoTicket}, call : CallNames \cup {"none"}]
      BY <2>2 DEF CallNames
    <2> QED
      BY <2>1, <2>3 DEF TillInv, OutboxTypeOK
  <1> HIDE DEF r
  <1> QED
    BY <1>1, <1>2, <1>3, OnePost DEF OrderCreated, TillInv, OutboxTypeOK

\* The answer that ends an attempt: who is told "ok" or "conflict" of a payment
\* is done with the sale because it is paid.
LEMMA AttemptsEndRight ==
    ASSUME TillInv, NEW p \in Posts, SheetAnswered(p) \/ RowAnswered(p)
    PROVE  TillInv'
  <1> DEFINE t == posts[p].ticket
  <1>1. /\ posts[p].stage \in Answers
        /\ posts' = [posts EXCEPT ![p] = NoPost]
        /\ waits' \in [Senders -> [ticket : Tickets \cup {NoTicket}, call : CallNames \cup {"none"}]]
        /\ UNCHANGED <<todo, rowWay, book, shift, faults>>
    BY DEF SheetAnswered, RowAnswered, Answered, Senders, AtLeisure, TillInv, OutboxTypeOK
  <1>2. /\ t \in Tickets /\ posts[p].call \in {"create", "pay"}
        /\ posts[p].call = "pay" /\ posts[p].stage \in {"ok", "conflict"} => HasPayment(book[t])
    BY <1>1, PostFields DEF TellsTheTruth, Answers, CallNames
  <1> HIDE DEF t
  <1>3. PICK s \in Places : /\ place' = [place EXCEPT ![t] = s]
                            /\ s \in {"sold", "synced"} =>
                                  s = place[t] \/ t \in dropped' \/ HasPayment(book[t])
    <2>1. CASE SheetAnswered(p)
      <3> DEFINE s == IF posts[p].stage = "ok" /\ place[t] = "sheet" THEN "sold" ELSE place[t]
      <3>1. s \in Places
        BY <1>2 DEF Places, TillInv, OutboxTypeOK
      <3>2. place' = [place EXCEPT ![t] = s]
        BY <2>1 DEF SheetAnswered, t
      <3>3. s = place[t] \/ HasPayment(book[t])
        BY <1>2, <2>1 DEF SheetAnswered
      <3> QED
        BY <3>1, <3>2, <3>3
    <2>2. CASE RowAnswered(p)
      <3> DEFINE s == RowAfter(posts[p].stage)
      <3>1. s \in Places
        BY <1>1 DEF RowAfter, Answers, Places
      <3>2. place' = [place EXCEPT ![t] = s]
        BY <2>2 DEF RowAnswered, t
      <3>3. s \in {"sold", "synced"} => posts[p].stage \in {"ok", "conflict"}
        BY <1>1 DEF RowAfter, Answers
      <3>4. posts[p].call = "create" /\ posts[p].stage \in {"ok", "conflict"} => t \in dropped'
        BY <2>2 DEF RowAnswered, t
      <3> HIDE DEF s
      <3> QED
        BY <1>2, <3>1, <3>2, <3>3, <3>4
    <2> QED
      BY <2>1, <2>2
  <1>4. dropped \subseteq dropped' /\ dropped' \subseteq Tickets
    BY <1>2 DEF SheetAnswered, RowAnswered, TillInv, OutboxTypeOK, t
  <1>5. OutboxTypeOK'
    BY <1>1, <1>3, <1>4, NoPostIsTrue DEF TillInv, OutboxTypeOK, PostRows
  <1>6. \A q \in Posts : TellsTheTruth(posts'[q], book)
    BY <1>1, NoPostIsTrue DEF TillInv, OutboxTypeOK
  <1>7. \A u \in Tickets : place'[u] \in {"sold", "synced"} =>
               place'[u] = place[u] \/ u \in dropped' \/ HasPayment(book[u])
    BY <1>3 DEF TillInv, OutboxTypeOK
  <1> QED
    BY <1>1, <1>4, <1>5, <1>6, <1>7, SameBook

\* A request nobody waits for keeps what it says.
LEMMA NobodysPost ==
    ASSUME TillInv, NEW p \in Posts
    PROVE  LET r == [posts[p] EXCEPT !.by = "nobody"]
           IN  r \in PostRows /\ TellsTheTruth(r, book)
  BY PostFields DEF PostRows, TellsTheTruth

LEMMA FaultsStay ==
    ASSUME TillInv, faults < MaxFaults
    PROVE  faults + 1 \in 0..MaxFaults
  BY OutboxAssumption DEF TillInv, OutboxTypeOK

LEMMA TimeoutKeeps ==
    ASSUME TillInv, NEW c \in Senders, Timeout(c)
    PROVE  TillInv'
  <1>0. PICK p \in Posts : \E q \in Orphaned(p) : posts' = [posts EXCEPT ![p] = q]
    BY DEF Timeout
  <1>1. PICK q \in Orphaned(p) : posts' = [posts EXCEPT ![p] = q]
    BY <1>0
  <1>2. q \in PostRows /\ TellsTheTruth(q, book)
    BY NobodysPost, NoPostIsTrue DEF Orphaned
  <1>3. /\ place' \in [Tickets -> Places]
        /\ \A u \in Tickets : place'[u] = place[u] \/ place'[u] = "pending"
    BY DEF Timeout, TillInv, OutboxTypeOK, Places
  <1>4. OutboxTypeOK'
    BY <1>1, <1>2, <1>3, FaultsStay DEF Timeout, AtLeisure, TillInv, OutboxTypeOK, PostRows
  <1>5. \A x \in Posts : TellsTheTruth(posts'[x], book)
    BY <1>1, <1>2 DEF TillInv, OutboxTypeOK
  <1> QED
    BY <1>3, <1>4, <1>5, SameBook DEF Timeout

LEMMA KillTillKeeps ==
    ASSUME TillInv, KillTill
    PROVE  TillInv'
  <1>1. \A p \in Posts : posts'[p] \in PostRows /\ TellsTheTruth(posts'[p], book)
    BY NobodysPost, NoPostIsTrue DEF KillTill
  <1>2. \A u \in Tickets : /\ place'[u] \in Places
                           /\ place'[u] = place[u] \/ place'[u] = "given_up"
    BY DEF KillTill, TillInv, OutboxTypeOK, Places
  <1>3. OutboxTypeOK'
    BY <1>1, <1>2, FaultsStay DEF KillTill, AtLeisure, TillInv, OutboxTypeOK, PostRows
  <1> QED
    BY <1>1, <1>2, <1>3, SameBook DEF KillTill

-----------------------------------------------------------------------------
(* The server *)

\* A request gets an answer, or goes on, and the book is as it was.
LEMMA ReplyKeeps ==
    ASSUME TillInv, NEW p \in Posts, posts[p].stage # "free",
           NEW stage \in {"arrived", "checked"} \cup Answers, Reply(p, stage),
           posts[p].call = "pay" /\ stage \in {"ok", "conflict"}
               => HasPayment(book[posts[p].ticket]),
           UNCHANGED <<place, waits, todo, rowWay, book, shift, faults, dropped>>
    PROVE  TillInv'
  <1> DEFINE r == [posts[p] EXCEPT !.stage = stage]
  <1>1. r \in PostRows /\ r.stage = stage /\ r.call = posts[p].call /\ r.ticket = posts[p].ticket
    BY NewStage
  <1>2. posts' = [posts EXCEPT ![p] = r]
    BY DEF Reply
  <1> HIDE DEF r
  <1>3. TellsTheTruth(r, book)
    BY <1>1, PostFields DEF TellsTheTruth
  <1> QED
    BY <1>1, <1>2, <1>3, OnePost DEF TillInv, OutboxTypeOK

\* A payment's key is used up when the sale is paid.
LEMMA UsedUpIsPaid ==
    ASSUME NEW r, r.call = "pay", KeyUsedUp(r)
    PROVE  HasPayment(book[r.ticket])
  BY DEF KeyUsedUp, HasPayment

LEMMA LookUpKeyKeeps ==
    ASSUME TillInv, NEW p \in Posts, LookUpKey(p)
    PROVE  TillInv'
  <1>1. posts[p].ticket \in Tickets
    BY PostFields DEF LookUpKey, TellsTheTruth
  <1> QED
    BY <1>1, UsedUpIsPaid, ReplyKeeps DEF LookUpKey, Answers

\* A sale's row in the book changes and its request is answered.
LEMMA BookKeeps ==
    ASSUME TillInv, NEW p \in Posts, posts[p].stage # "free", NEW t \in Tickets,
           posts[p].ticket = t, NEW stage \in {"ok", "error"}, Reply(p, stage),
           NEW row \in BookRows,
           book' = [book EXCEPT ![t] = row], SoundRow(row), HasPayment(book[t]) => HasPayment(row),
           posts[p].call = "pay" => HasPayment(row),
           UNCHANGED <<place, waits, todo, rowWay, shift, faults, dropped>>
    PROVE  TillInv'
  <1>1. \A u \in Tickets : book'[u] = IF u = t THEN row ELSE book[u]
    BY DEF TillInv, OutboxTypeOK
  <1>2. \A u \in Tickets : HasPayment(book[u]) => HasPayment(book'[u])
    BY <1>1
  <1>3. \A u \in Tickets : SoundRow(book'[u])
    BY <1>1 DEF TillInv
  <1> DEFINE r == [posts[p] EXCEPT !.stage = stage]
  <1>4. r \in PostRows /\ r.stage = stage /\ r.call = posts[p].call /\ r.ticket = t
    BY NewStage DEF Answers
  <1>5. posts' = [posts EXCEPT ![p] = r]
    BY DEF Reply
  <1>6. posts[p].call \in CallNames
    BY PostFields DEF TellsTheTruth
  <1> HIDE DEF r
  <1>7. TellsTheTruth(r, book')
    BY <1>1, <1>4, <1>6 DEF TellsTheTruth
  <1>8. \A q \in Posts : TellsTheTruth(posts[q], book)'
    BY <1>2, <1>5, <1>7 DEF TillInv, OutboxTypeOK, TellsTheTruth
  <1>9. OutboxTypeOK'
    BY <1>4, <1>5 DEF BookRows, TillInv, OutboxTypeOK, PostRows
  <1>10. \A u \in Tickets :
            place'[u] \in {"sold", "synced"} => u \in dropped' \/ HasPayment(book'[u])
    BY <1>2 DEF TillInv
  <1> QED
    BY <1>3, <1>8, <1>9, <1>10 DEF TillInv

LEMMA PlaceOrderKeeps ==
    ASSUME TillInv, NEW p \in Posts, PlaceOrder(p)
    PROVE  TillInv'
  <1> DEFINE t == posts[p].ticket
             row(total) == [book[t] EXCEPT !.status = "pending", !.total = total]
  <1>1. /\ t \in Tickets /\ posts[p].stage # "free" /\ posts[p].call = "create"
        /\ UNCHANGED <<place, waits, todo, rowWay, shift, faults, dropped>>
    BY PostFields DEF PlaceOrder, TellsTheTruth
  <1>2. book[t] \in BookRows /\ SoundRow(book[t])
    BY <1>1, BookFields DEF TillInv
  <1>3. CASE book' = book /\ (Reply(p, "refused") \/ Reply(p, "conflict"))
    BY <1>1, <1>3, ReplyKeeps DEF Answers
  <1>4. ASSUME NEW total \in Int, book[t].status = "none",
               book' = [book EXCEPT ![t] = row(total)], Reply(p, "ok") \/ Reply(p, "error")
        PROVE  TillInv'
    <2> DEFINE new == row(total)
    <2>1. new \in BookRows /\ SoundRow(new) /\ (HasPayment(book[t]) => HasPayment(new))
      <3>1. /\ new \in BookRows /\ new.keyed = book[t].keyed /\ new.batches = book[t].batches
            /\ new.paid = book[t].paid /\ new.card = book[t].card
        BY <1>2 DEF BookRows
      <3>2. book[t].card = 0 /\ book[t].keyed <= 1 /\ book[t].card <= book[t].paid
        BY <1>2, <1>4 DEF SoundRow
      <3> HIDE DEF new, t
      <3> QED
        BY <3>1, <3>2 DEF SoundRow, HasPayment
    <2>2. book' = [book EXCEPT ![t] = new]
      BY <1>4
    <2> HIDE DEF new, t
    <2> QED
      BY <1>1, <1>4, <2>1, <2>2, BookKeeps DEF t
  <1>5. \/ book' = book /\ (Reply(p, "refused") \/ Reply(p, "conflict"))
        \/ /\ book[t].status = "none" /\ (Reply(p, "ok") \/ Reply(p, "error"))
           /\ \E total \in Totals[t] : book' = [book EXCEPT ![t] = row(total)]
    BY <1>1, <1>2 DEF PlaceOrder, Committed, KeyUsedUp, BookRows
  <1> QED
    BY <1>1, <1>3, <1>4, <1>5, WayFields

\* The fields of a row that was charged.
LEMMA ChargedFields ==
    ASSUME NEW row \in BookRows, NEW way \in [cash : Nat, card : Nat]
    PROVE  /\ Charged(row, way) \in BookRows
           /\ Charged(row, way).paid = row.paid + Amount(way)
           /\ Charged(row, way).card = row.card + way.card
           /\ Charged(row, way).total = row.total
           /\ Charged(row, way).status \in {"pending", "serving"}
           /\ IF Split(way) THEN /\ Charged(row, way).keyed = row.keyed
                                 /\ Charged(row, way).batches = row.batches + 1
                            ELSE /\ Charged(row, way).keyed = row.keyed + 1
                                 /\ Charged(row, way).batches = row.batches
  <1> DEFINE paid == row.paid + Amount(way)
             card == row.card + way.card
             keyed == IF Split(way) THEN row.keyed ELSE row.keyed + 1
             batches == IF Split(way) THEN row.batches + 1 ELSE row.batches
             status == IF paid >= row.total THEN "serving" ELSE "pending"
  <1>1. /\ paid \in Nat /\ card \in Nat /\ keyed \in Nat /\ batches \in Nat
        /\ status \in {"pending", "serving"}
    BY DEF BookRows, Amount
  <1>2. Charged(row, way) = [row EXCEPT !.paid = paid, !.card = card, !.keyed = keyed,
                                       !.batches = batches, !.status = status]
    BY DEF Charged
  <1>3. /\ keyed = IF Split(way) THEN row.keyed ELSE row.keyed + 1
        /\ batches = IF Split(way) THEN row.batches + 1 ELSE row.batches
        /\ paid = row.paid + Amount(way) /\ card = row.card + way.card
    OBVIOUS
  <1> HIDE DEF paid, card, keyed, batches, status
  <1>4. /\ Charged(row, way) \in BookRows
        /\ Charged(row, way).paid = paid /\ Charged(row, way).card = card
        /\ Charged(row, way).keyed = keyed /\ Charged(row, way).batches = batches
        /\ Charged(row, way).status = status /\ Charged(row, way).total = row.total
    BY <1>1, <1>2 DEF BookRows
  <1> QED
    BY <1>1, <1>3, <1>4

\* A charged row is sound: the key of a single payment is unique, and a card line fits
\* into what remains.
LEMMA ChargesAreSound ==
    ASSUME TillInv, NEW t \in Tickets, NEW way \in [cash : Nat, card : Nat], Payable(t, way),
           Split(way) \/ ~(book[t].keyed > 0)
    PROVE  /\ Charged(book[t], way) \in BookRows /\ SoundRow(Charged(book[t], way))
           /\ HasPayment(Charged(book[t], way))
  <1> DEFINE row == book[t]
             new == Charged(row, way)
  <1>1. /\ row \in BookRows /\ SoundRow(row)
        /\ way.card > 0 => row.paid + Amount(way) <= row.total
        /\ way.card \in Nat /\ way.cash \in Nat /\ Amount(way) = way.cash + way.card
        /\ Split(way) \/ ~(row.keyed > 0)
    BY BookFields DEF TillInv, Payable, Amount
  <1>2. /\ new \in BookRows /\ new.paid = row.paid + Amount(way) /\ new.card = row.card + way.card
        /\ new.total = row.total /\ new.status \in {"pending", "serving"}
        /\ IF Split(way) THEN new.keyed = row.keyed /\ new.batches = row.batches + 1
                         ELSE new.keyed = row.keyed + 1 /\ new.batches = row.batches
    BY <1>1, ChargedFields
  <1> HIDE DEF row, new
  <1>3. /\ row.paid \in Nat /\ row.card \in Nat /\ row.keyed \in Nat /\ row.batches \in Nat
        /\ row.total \in Int
    BY <1>1 DEF BookRows
  <1>4. SoundRow(new)
    BY <1>1, <1>2, <1>3 DEF SoundRow
  <1>5. HasPayment(new)
    BY <1>2, <1>3 DEF HasPayment
  <1> QED
    BY <1>2, <1>4, <1>5 DEF row, new

LEMMA TakePaymentKeeps ==
    ASSUME TillInv, NEW p \in Posts, TakePayment(p)
    PROVE  TillInv'
  <1> DEFINE t == posts[p].ticket
             way == posts[p].way
  <1>1. /\ t \in Tickets /\ posts[p].stage # "free" /\ posts[p].call = "pay"
        /\ way \in [cash : Nat, card : Nat]
        /\ UNCHANGED <<place, waits, todo, rowWay, shift, faults, dropped>>
    BY PostFields DEF TakePayment, TellsTheTruth, PostRows
  <1>2. CASE /\ book' = book
             /\ Reply(p, "refused") \/ (KeyUsedUp(posts[p]) /\ Reply(p, "conflict"))
    BY <1>1, <1>2, UsedUpIsPaid, ReplyKeeps DEF Answers
  <1>3. CASE /\ Payable(t, way) /\ ~KeyUsedUp(posts[p]) /\ Committed(p)
             /\ book' = [book EXCEPT ![t] = Charged(book[t], way)]
    <2> DEFINE new == Charged(book[t], way)
    <2>1. new \in BookRows /\ SoundRow(new) /\ HasPayment(new)
      BY <1>1, <1>3, ChargesAreSound DEF KeyUsedUp
    <2>2. book' = [book EXCEPT ![t] = new]
      BY <1>3
    <2> HIDE DEF t, way, new
    <2> QED
      BY <1>1, <1>3, <2>1, <2>2, BookKeeps DEF Committed, t
  <1>4. \/ /\ book' = book
           /\ Reply(p, "refused") \/ (KeyUsedUp(posts[p]) /\ Reply(p, "conflict"))
        \/ /\ Payable(t, way) /\ ~KeyUsedUp(posts[p]) /\ Committed(p)
           /\ book' = [book EXCEPT ![t] = Charged(book[t], way)]
    BY DEF TakePayment
  <1> QED
    BY <1>2, <1>3, <1>4

\* A reservation ends: the sale's row keeps its payments.
LEMMA ReservationEndsKeeps ==
    ASSUME TillInv, NEW t \in Tickets, ReservationEnds(t)
    PROVE  TillInv'
  <1>1. /\ book' \in [Tickets -> BookRows]
        /\ \A u \in Tickets : SoundRow(book'[u]) /\ HasPayment(book'[u]) = HasPayment(book[u])
        /\ UNCHANGED <<place, waits, todo, rowWay, posts, shift, faults, dropped>>
    <2> DEFINE new == [book[t] EXCEPT !.lapsed = TRUE]
    <2>1. /\ \A u \in Tickets : book[u] \in BookRows /\ SoundRow(book[u])
          /\ book' = [book EXCEPT ![t] = new] /\ book \in [Tickets -> BookRows]
          /\ UNCHANGED <<place, waits, todo, rowWay, posts, shift, faults, dropped>>
      BY DEF ReservationEnds, TillInv, OutboxTypeOK, BookRows
    <2>2. /\ new \in BookRows /\ new.keyed = book[t].keyed /\ new.batches = book[t].batches
          /\ new.paid = book[t].paid /\ new.card = book[t].card /\ new.total = book[t].total
          /\ new.status = book[t].status
      BY <2>1 DEF BookRows
    <2> HIDE DEF new
    <2>3. SoundRow(new) /\ HasPayment(new) = HasPayment(book[t])
      BY <2>1, <2>2 DEF SoundRow, HasPayment
    <2> QED
      BY <2>1, <2>2, <2>3
  <1>2. OutboxTypeOK'
    BY <1>1 DEF BookRows, TillInv, OutboxTypeOK
  <1> QED
    BY <1>1, <1>2 DEF TillInv, TellsTheTruth

LEMMA OutboxNextKeeps == TillInv /\ [OutboxNext]_tillVars => TillInv'
  <1> SUFFICES ASSUME TillInv, [OutboxNext]_tillVars PROVE TillInv'
    OBVIOUS
  <1>1. ASSUME NEW p \in Posts, FailPost(p) PROVE TillInv'
    BY <1>1, ReplyKeeps DEF FailPost, Answers
  <1>2. ASSUME NEW p \in Posts, AnswerNobody(p) PROVE TillInv'
    BY <1>2, NoPostIsTrue, OnePost DEF AnswerNobody, TillInv, OutboxTypeOK
  <1>3. CASE EndShift \/ UNCHANGED tillVars
    BY <1>3 DEF EndShift, tillVars, TillInv, OutboxTypeOK, TellsTheTruth
  <1>4. CASE SyncOutbox
    BY <1>4, OnlyPlaces DEF SyncOutbox, TillInv, OutboxTypeOK
  <1> QED
    BY <1>1, <1>2, <1>3, <1>4, SheetAndRowsKeep, OrderCreatedKeeps, AttemptsEndRight, TimeoutKeeps,
       KillTillKeeps, LookUpKeyKeeps, PlaceOrderKeeps, TakePaymentKeeps, ReservationEndsKeeps
       DEF OutboxNext, TillNext, ServerNext

LEMMA OutboxInitHolds == OutboxInit => TillInv
  <1> SUFFICES ASSUME OutboxInit PROVE TillInv
    OBVIOUS
  <1>1. OutboxTypeOK
    BY NoPostIsTrue, OutboxAssumption
       DEF OutboxInit, OutboxTypeOK, PostRows, AtLeisure, NoWay, NotBooked, Places
  <1>2. \A p \in Posts : TellsTheTruth(posts[p], book)
    BY NoPostIsTrue DEF OutboxInit
  <1>3. \A t \in Tickets : SoundRow(book[t]) /\ place[t] = "new"
    BY DEF OutboxInit, NotBooked, SoundRow
  <1> QED
    BY <1>1, <1>2, <1>3 DEF TillInv

\* The checkout sheet and the outbox against the server's keys, for any number of
\* sales, requests and faults, any ways of payment and any totals: a sale gets at most one
\* single payment, its cards are charged no more than its total, and what the till is
\* done with has a payment, but for rows whose order was answered by 409.
THEOREM TillsBookOnce == OutboxSpec => []SinglePaymentsAreBookedOnce
  <1>1. TillInv => SinglePaymentsAreBookedOnce
    <2> SUFFICES ASSUME TillInv, NEW t \in Tickets
                 PROVE  /\ book[t].keyed <= 1
                        /\ book[t].card > 0 => book[t].card <= book[t].total
                        /\ place[t] \in {"sold", "synced"}
                              => t \in dropped \/ book[t].keyed + book[t].batches > 0
      BY DEF SinglePaymentsAreBookedOnce
    <2>1. book[t] \in BookRows /\ SoundRow(book[t])
      BY BookFields DEF TillInv
    <2>2. HasPayment(book[t]) => book[t].keyed + book[t].batches > 0
      BY <2>1 DEF HasPayment, BookRows
    <2> QED
      BY <2>1, <2>2 DEF TillInv, SoundRow
  <1> QED
    BY <1>1, OutboxInitHolds, OutboxNextKeeps, PTL DEF OutboxSpec

\* The sheet, the outbox, the requests under way and the books have their types.
THEOREM OutboxTypes == OutboxSpec => []OutboxTypeOK
  <1>1. TillInv => OutboxTypeOK
    BY DEF TillInv
  <1> QED
    BY <1>1, OutboxInitHolds, OutboxNextKeeps, PTL DEF OutboxSpec

-----------------------------------------------------------------------------
(* CashDrawer.  What a request works on fits what it is doing: it has found  *)
(* the drawer or the order in the state it expects, and a lock or the        *)
(* order's newness keeps others away from it.                                *)

TillRows == [stage : {"idle", "opening", "closing", "seen", "counting", "counted", "ordering",
                 "paying", "refunding", "cancelling"},
        who : Cashiers \cup {NoCashier}, drawer : Drawers \cup {NoDrawer},
        tab : Tabs \cup {NoTab}, sums : Sums, overtaken : BOOLEAN]

\* x is what a request is doing, rows and tickets the tables drawers and tabs.
Fitting(x, rows, tickets) ==
    /\ x.stage \in {"opening", "ordering"} => x.who \in Cashiers
    /\ x.stage \in {"closing", "seen", "counting", "counted"} =>
          x.drawer \in Drawers /\ rows[x.drawer].status # "absent"
    /\ x.stage = "ordering" =>
          x.drawer \in Drawers /\ x.tab \in Tabs /\ tickets[x.tab].status = "absent"
    /\ x.stage \in {"paying", "cancelling"} =>
          x.tab \in Tabs /\ tickets[x.tab].status = "pending"
    /\ x.stage = "refunding" => x.tab \in Tabs /\ tickets[x.tab].status = "completed"

Alone(r) ==
    /\ tills[r].stage = "ordering" =>
          \A q \in Requests \ {r} : tills[q].tab # tills[r].tab
    /\ tills[r].stage \in {"paying", "cancelling"} =>
          \A q \in Requests \ {r} : tills[q].tab = tills[r].tab =>
              tills[q].stage \notin {"paying", "cancelling"}

TabIsBooked(t) ==
    IF tabs[t].status = "absent" THEN tabs[t].drawer = NoDrawer /\ tabs[t].paid = 0
                                 ELSE tabs[t].drawer \in Drawers

DeskInv ==
    /\ DrawerTypeOK
    /\ \A r \in Requests : Fitting(tills[r], drawers, tabs) /\ Alone(r)
    /\ \A t \in Tabs : TabIsBooked(t)

LEMMA RowFields ==
    ASSUME DrawerTypeOK, NEW r \in Requests
    PROVE  /\ tills[r] \in TillRows /\ tills = [q \in Requests |-> tills[q]]
           /\ tills[r].sums \in Sums
  BY DEF DrawerTypeOK, TillRows

LEMMA RestingRow ==
    /\ Resting \in TillRows /\ Resting.stage = "idle" /\ Resting.tab = NoTab
    /\ Resting.drawer = NoDrawer /\ Resting.sums = NoTakings
    /\ Resting.overtaken = FALSE /\ Resting.who = NoCashier
    /\ \A rows, tickets : Fitting(Resting, rows, tickets)
  BY DEF Resting, TillRows, Sums, NoTakings, Fitting

LEMMA NoTabIsNone == NoTab \notin Tabs /\ NoDrawer \notin Drawers
  BY CashDrawerAssumption

\* What a request does next.
Fresh(stage, c, d, t) == [Resting EXCEPT !.stage = stage, !.who = c, !.drawer = d, !.tab = t]

\* One request moves on, and no table changes.
LEMMA OneRow ==
    ASSUME DeskInv, NEW r \in Requests, NEW x \in TillRows, tills' = [tills EXCEPT ![r] = x],
           UNCHANGED <<drawers, counts, takings, tabs, disturbed>>,
           Fitting(x, drawers, tabs),
           x.stage = "ordering" => \A q \in Requests \ {r} : tills[q].tab # x.tab,
           x.stage \in {"paying", "cancelling"} =>
               \A q \in Requests \ {r} : tills[q].tab = x.tab =>
                   tills[q].stage \notin {"paying", "cancelling"},
           x.tab \in {NoTab, tills[r].tab} \/ x.stage = "ordering" \/ tabs[x.tab].status # "absent"
    PROVE  DeskInv'
  <1>1. \A q \in Requests : tills'[q] = IF q = r THEN x ELSE tills[q]
    BY DEF DeskInv, DrawerTypeOK
  <1>2. DrawerTypeOK'
    BY DEF DeskInv, DrawerTypeOK, TillRows
  <1>3. ASSUME NEW q \in Requests PROVE Fitting(tills[q], drawers, tabs)'
    BY <1>1 DEF DeskInv, Fitting
  <1>4. ASSUME NEW q \in Requests PROVE Alone(q)'
    <2>1. CASE q = r
      BY <1>1, <2>1 DEF Alone
    <2>2. CASE q # r
      <3>1. Alone(q) /\ Fitting(tills[q], drawers, tabs)
        BY DEF DeskInv
      <3>2. tills[q].stage = "ordering" => tills[q].tab # x.tab
        BY <2>2, <3>1, NoTabIsNone DEF Alone, Fitting
      <3>3. tills[q].stage \in {"paying", "cancelling"} /\ x.tab = tills[q].tab
              => x.stage \notin {"paying", "cancelling"}
        BY <2>2
      <3> QED
        BY <1>1, <2>2, <3>1, <3>2, <3>3 DEF Alone
    <2> QED
      BY <2>1, <2>2
  <1>5. \A t \in Tabs : TabIsBooked(t)'
    BY DEF DeskInv, TabIsBooked
  <1> QED
    BY <1>2, <1>3, <1>4, <1>5 DEF DeskInv

LEMMA FinishKeeps ==
    ASSUME DeskInv, NEW r \in Requests, Finish(r),
           UNCHANGED <<drawers, counts, takings, tabs, disturbed>>
    PROVE  DeskInv'
  BY RestingRow, OneRow DEF Finish

-----------------------------------------------------------------------------
(* Requests begin *)

LEMMA ActiveIsOpen ==
    ASSUME NEW c, NEW d \in ActiveDrawers(c)
    PROVE  d \in Drawers /\ drawers[d].status = "open" /\ drawers[d].owner = c
  BY DEF ActiveDrawers

LEMMA OpeningKeeps ==
    ASSUME DeskInv, NEW r \in Requests, NEW c \in Cashiers, StartOpening(r, c)
    PROVE  DeskInv'
  <1> DEFINE x == Fresh("opening", c, NoDrawer, NoTab)
  <1>1. tills' = [tills EXCEPT ![r] = x]
    BY DEF StartOpening, Begin, Fresh
  <1>2. x \in TillRows /\ x.stage = "opening" /\ x.who = c /\ x.tab = NoTab
    BY DEF Fresh, Resting, TillRows, Sums, NoTakings
  <1> HIDE DEF x
  <1>3. Fitting(x, drawers, tabs)
    BY <1>2 DEF Fitting
  <1> QED
    BY <1>1, <1>2, <1>3, OneRow DEF StartOpening

LEMMA WorkOnDrawerKeeps ==
    ASSUME DeskInv, NEW r \in Requests, NEW c \in Cashiers, NEW d \in Drawers,
           NEW stage \in {"closing", "seen"}, drawers[d].status = "open",
           Begin(r, stage, c, d, NoTab), UNCHANGED <<drawers, counts, takings, tabs, disturbed>>
    PROVE  DeskInv'
  <1> DEFINE x == Fresh(stage, c, d, NoTab)
  <1>1. tills' = [tills EXCEPT ![r] = x]
    BY DEF Begin, Fresh
  <1>2. x \in TillRows /\ x.stage = stage /\ x.drawer = d /\ x.tab = NoTab
    BY DEF Fresh, Resting, TillRows, Sums, NoTakings
  <1> HIDE DEF x
  <1>3. Fitting(x, drawers, tabs)
    BY <1>2 DEF Fitting
  <1> QED
    BY <1>1, <1>2, <1>3, OneRow

LEMMA StartTabKeeps ==
    ASSUME DeskInv, NEW r \in Requests, NEW c \in Cashiers, NEW t \in Tabs, NEW d \in Drawers,
           StartTab(r, c, t, d)
    PROVE  DeskInv'
  <1> DEFINE x == Fresh("ordering", c, d, t)
  <1>1. tills' = [tills EXCEPT ![r] = x]
    BY DEF StartTab, Begin, Fresh
  <1>2. x \in TillRows /\ x.stage = "ordering" /\ x.who = c /\ x.drawer = d /\ x.tab = t
    BY DEF Fresh, Resting, TillRows, Sums, NoTakings
  <1> HIDE DEF x
  <1>3. /\ drawers[d].status = "open" /\ tabs[t].status = "absent"
        /\ \A q \in Requests : tills[q].tab # t
        /\ UNCHANGED <<drawers, counts, takings, tabs, disturbed>>
    BY DEF StartTab, ActiveDrawers
  <1>4. Fitting(x, drawers, tabs)
    BY <1>2, <1>3 DEF Fitting
  <1> QED
    BY <1>1, <1>2, <1>3, <1>4, OneRow

LEMMA WorkOnTabKeeps ==
    ASSUME DeskInv, NEW r \in Requests, NEW c \in Cashiers, NEW t \in Tabs,
           NEW stage \in {"paying", "cancelling", "refunding"},
           stage = "refunding" => tabs[t].status = "completed",
           stage # "refunding" => tabs[t].status = "pending" /\ TabFree(t),
           Begin(r, stage, c, NoDrawer, t),
           UNCHANGED <<drawers, counts, takings, tabs, disturbed>>
    PROVE  DeskInv'
  <1> DEFINE x == Fresh(stage, c, NoDrawer, t)
  <1>1. tills' = [tills EXCEPT ![r] = x]
    BY DEF Begin, Fresh
  <1>2. x \in TillRows /\ x.stage = stage /\ x.tab = t
    BY DEF Fresh, Resting, TillRows, Sums, NoTakings
  <1> HIDE DEF x
  <1>3. Fitting(x, drawers, tabs) /\ tabs[t].status # "absent"
    BY <1>2 DEF Fitting
  <1>4. x.stage \in {"paying", "cancelling"} =>
           \A q \in Requests \ {r} : tills[q].tab = x.tab =>
               tills[q].stage \notin {"paying", "cancelling"}
    BY <1>2 DEF TabFree
  <1> QED
    BY <1>1, <1>2, <1>3, <1>4, OneRow

-----------------------------------------------------------------------------
(* Requests read and write *)

LEMMA TakingFields ==
    ASSUME DrawerTypeOK, NEW d \in Drawers
    PROVE  /\ takings[d] \in Sums
           /\ takings[d].cash \in Nat /\ takings[d].card \in Nat /\ takings[d].gross \in Nat
           /\ takings[d].cashBack \in Nat /\ takings[d].cardBack \in Nat
  BY DEF DrawerTypeOK, Sums

SalesRead(d) == [takings[d] EXCEPT !.cashBack = 0, !.cardBack = 0, !.gross = 0]
RefundsRead(d, sums) == [takings[d] EXCEPT !.cash = sums.cash, !.card = sums.card]

MovesOn(r, stage, sums) ==
    tills' = [tills EXCEPT ![r] = [tills[r] EXCEPT !.stage = stage, !.sums = sums]]

LEMMA SalesRow ==
    ASSUME NEW r, ReadSales(r)
    PROVE  MovesOn(r, "counting", SalesRead(tills[r].drawer))
  BY DEF ReadSales, SalesRead, MovesOn

LEMMA RefundsRow ==
    ASSUME NEW r, ReadRefunds(r)
    PROVE  MovesOn(r, "counted", RefundsRead(tills[r].drawer, tills[r].sums))
  BY DEF ReadRefunds, RefundsRead, MovesOn

LEMMA MovedOn ==
    ASSUME DrawerTypeOK, NEW r \in Requests, NEW stage, NEW sums, MovesOn(r, stage, sums)
    PROVE  /\ \A q \in Requests \ {r} : tills'[q] = tills[q]
           /\ \A q \in Requests : tills'[q].drawer = tills[q].drawer /\ tills'[q].tab = tills[q].tab
           /\ tills'[r].stage = stage /\ tills'[r].sums = sums
  <1> DEFINE x == [tills[r] EXCEPT !.stage = stage, !.sums = sums]
  <1>1. /\ x.drawer = tills[r].drawer /\ x.tab = tills[r].tab
        /\ x.stage = stage /\ x.sums = sums
    BY RowFields DEF TillRows
  <1>2. \A q \in Requests : tills'[q] = IF q = r THEN x ELSE tills[q]
    BY DEF MovesOn, DrawerTypeOK
  <1> HIDE DEF x
  <1> QED
    BY <1>1, <1>2

LEMMA DrawerReadsKeep ==
    ASSUME DeskInv, NEW r \in Requests, ReadSales(r) \/ ReadRefunds(r)
    PROVE  DeskInv'
  <1> DEFINE d == tills[r].drawer
  <1>1. /\ d \in Drawers /\ drawers[d].status # "absent" /\ tills[r] \in TillRows
        /\ takings[d] \in Sums /\ tills[r].sums \in Sums
    BY RowFields, TakingFields DEF DeskInv, Fitting, ReadSales, ReadRefunds
  <1>2. PICK stage \in {"counting", "counted"}, sums \in Sums :
           tills' = [tills EXCEPT ![r] = [tills[r] EXCEPT !.stage = stage, !.sums = sums]]
    <2>1. CASE ReadSales(r)
      <3>1. [takings[d] EXCEPT !.cashBack = 0, !.cardBack = 0, !.gross = 0] \in Sums
        BY <1>1 DEF Sums
      <3>2. tills' = [tills EXCEPT ![r].stage = "counting",
                         ![r].sums = [takings[d] EXCEPT !.cashBack = 0, !.cardBack = 0, !.gross = 0]]
        BY <2>1 DEF ReadSales
      <3> QED
        BY <3>1, <3>2
    <2>2. CASE ReadRefunds(r)
      <3>1. [takings[d] EXCEPT !.cash = tills[r].sums.cash, !.card = tills[r].sums.card] \in Sums
        BY <1>1 DEF Sums
      <3>2. tills' = [tills EXCEPT ![r].stage = "counted",
                         ![r].sums = [takings[d] EXCEPT !.cash = tills[r].sums.cash,
                                                        !.card = tills[r].sums.card]]
        BY <2>2 DEF ReadRefunds
      <3> QED
        BY <3>1, <3>2
    <2> QED
      BY <2>1, <2>2
  <1> DEFINE x == [tills[r] EXCEPT !.stage = stage, !.sums = sums]
  <1>3. x \in TillRows /\ x.stage = stage /\ x.drawer = d /\ x.tab = tills[r].tab
    BY <1>1 DEF TillRows
  <1>4. Fitting(x, drawers, tabs)
    BY <1>1, <1>3 DEF Fitting
  <1> HIDE DEF x
  <1> QED
    BY <1>2, <1>3, <1>4, OneRow DEF ReadSales, ReadRefunds, x

\* Drawers are closed, or opened for the first time; nobody is taken aback.
LEMMA DrawerTableKeeps ==
    ASSUME DeskInv, NEW r \in Requests,
           \A q \in Requests : /\ tills'[q] \in TillRows
                               /\ tills'[q].stage = (IF q = r THEN "idle" ELSE tills[q].stage)
                               /\ tills'[q].tab = (IF q = r THEN NoTab ELSE tills[q].tab)
                               /\ q # r => /\ tills'[q].who = tills[q].who
                                           /\ tills'[q].drawer = tills[q].drawer,
           tills' = [q \in Requests |-> tills'[q]],
           drawers' \in [Drawers -> [status : {"absent", "open", "closed"},
                                     owner : Cashiers \cup {NoCashier}, expected : Int]],
           \A d \in Drawers : drawers[d].status # "absent" => drawers'[d].status # "absent",
           counts' \in [Drawers -> [cash : Int, card : Int, gross : Int, made : BOOLEAN]],
           UNCHANGED <<takings, tabs, disturbed>>
    PROVE  DeskInv'
  <1>1. DrawerTypeOK'
    BY DEF DeskInv, DrawerTypeOK, TillRows
  <1>2. ASSUME NEW q \in Requests PROVE Fitting(tills[q], drawers, tabs)'
    <2>1. Fitting(tills[q], drawers, tabs)
      BY DEF DeskInv
    <2> QED
      BY <2>1 DEF Fitting
  <1>3. ASSUME NEW q \in Requests PROVE Alone(q)'
    <2>1. Alone(q) /\ (tills[q].stage \in {"ordering", "paying", "cancelling"} => tills[q].tab # NoTab)
      BY NoTabIsNone DEF DeskInv, Fitting
    <2> QED
      BY <2>1 DEF Alone
  <1>4. \A t \in Tabs : TabIsBooked(t)'
    BY DEF DeskInv, TabIsBooked
  <1> QED
    BY <1>1, <1>2, <1>3, <1>4 DEF DeskInv

LEMMA InsertDrawerKeeps ==
    ASSUME DeskInv, NEW r \in Requests, NEW d \in Drawers, InsertDrawer(r, d)
    PROVE  DeskInv'
  <1>1. /\ tills[r].who \in Cashiers /\ tills[r] \in TillRows
        /\ drawers' = [drawers EXCEPT ![d] = [status |-> "open", owner |-> tills[r].who,
                                              expected |-> 0]]
        /\ UNCHANGED <<counts, takings, tabs, disturbed>>
    BY RowFields DEF DeskInv, Fitting, InsertDrawer
  <1>2. ASSUME NEW q \in Requests
        PROVE  /\ tills'[q] \in TillRows
               /\ tills'[q].stage = (IF q = r THEN "idle" ELSE tills[q].stage)
               /\ tills'[q].tab = (IF q = r THEN NoTab ELSE tills[q].tab)
               /\ q # r => /\ tills'[q].who = tills[q].who
                           /\ tills'[q].drawer = tills[q].drawer
    <2>1. tills'[q] = IF q = r THEN Resting
                      ELSE IF tills[q].stage = "opening" /\ tills[q].who = tills[r].who
                      THEN [tills[q] EXCEPT !.overtaken = TRUE] ELSE tills[q]
      BY DEF InsertDrawer
    <2>2. tills[q] \in TillRows
      BY RowFields DEF DeskInv
    <2>3. [tills[q] EXCEPT !.overtaken = TRUE] \in TillRows
      BY <2>2 DEF TillRows
    <2> QED
      BY <2>1, <2>2, <2>3, RestingRow DEF TillRows
  <1>3. tills' = [q \in Requests |-> tills'[q]]
    BY DEF InsertDrawer
  <1>4. drawers' \in [Drawers -> [status : {"absent", "open", "closed"},
                                  owner : Cashiers \cup {NoCashier}, expected : Int]]
    BY <1>1 DEF DeskInv, DrawerTypeOK
  <1>5. \A e \in Drawers : drawers[e].status # "absent" => drawers'[e].status # "absent"
    BY <1>1 DEF DeskInv, DrawerTypeOK
  <1>6. counts' \in [Drawers -> [cash : Int, card : Int, gross : Int, made : BOOLEAN]]
    BY <1>1 DEF DeskInv, DrawerTypeOK
  <1> QED
    BY <1>1, <1>2, <1>3, <1>4, <1>5, <1>6, DrawerTableKeeps

\* One request is done and the others go on.
LEMMA FinishedRows ==
    ASSUME DrawerTypeOK, NEW r \in Requests, Finish(r)
    PROVE  /\ \A q \in Requests : tills'[q] = IF q = r THEN Resting ELSE tills[q]
           /\ \A q \in Requests : tills'[q] \in TillRows
           /\ tills' = [q \in Requests |-> tills'[q]]
  BY RestingRow DEF DrawerTypeOK, Finish, TillRows

DrawerRows == [status : {"absent", "open", "closed"}, owner : Cashiers \cup {NoCashier},
               expected : Int]

\* A drawer is closed.
LEMMA ClosedRow ==
    ASSUME DrawerTypeOK, NEW d \in Drawers, NEW expected \in Int,
           drawers' = [drawers EXCEPT ![d].status = "closed", ![d].expected = expected]
    PROVE  /\ drawers' \in [Drawers -> DrawerRows]
           /\ drawers'[d].status = "closed"
           /\ \A e \in Drawers \ {d} : drawers'[e] = drawers[e]
  <1> DEFINE one == [drawers[d] EXCEPT !.status = "closed"]
             two == [one EXCEPT !.expected = expected]
  <1>1. drawers \in [Drawers -> DrawerRows]
    BY DEF DrawerTypeOK, DrawerRows
  <1>2. one \in DrawerRows /\ one.status = "closed"
    BY <1>1 DEF DrawerRows
  <1>3. drawers' = [drawers EXCEPT ![d] = two]
    BY <1>1
  <1> HIDE DEF one
  <1>4. two \in DrawerRows /\ two.status = "closed"
    BY <1>2 DEF DrawerRows
  <1> HIDE DEF two
  <1> QED
    BY <1>1, <1>3, <1>4

LEMMA FinishWithDrawer ==
    ASSUME DeskInv, NEW r \in Requests, Finish(r), UNCHANGED <<takings, tabs, disturbed>>,
           drawers' \in [Drawers -> DrawerRows],
           \A d \in Drawers : drawers[d].status # "absent" => drawers'[d].status # "absent",
           counts' \in [Drawers -> [cash : Int, card : Int, gross : Int, made : BOOLEAN]]
    PROVE  DeskInv'
  BY FinishedRows, RestingRow, DrawerTableKeeps DEF DeskInv, DrawerRows

LEMMA CloseDrawerKeeps ==
    ASSUME DeskInv, NEW r \in Requests, CloseDrawer(r)
    PROVE  DeskInv'
  <1> DEFINE d == tills[r].drawer
  <1>1. d \in Drawers /\ Finish(r) /\ UNCHANGED <<counts, takings, tabs, disturbed>>
    BY DEF DeskInv, Fitting, CloseDrawer
  <1>2. PICK expected \in {drawers[d].expected, Float} :
           drawers' = [drawers EXCEPT ![d].status = "closed", ![d].expected = expected]
    BY DEF CloseDrawer
  <1> HIDE DEF d
  <1>3. expected \in Int
    BY <1>1, CashDrawerAssumption DEF DeskInv, DrawerTypeOK
  <1>4. /\ drawers' \in [Drawers -> DrawerRows]
        /\ \A e \in Drawers : drawers[e].status # "absent" => drawers'[e].status # "absent"
    BY <1>1, <1>2, <1>3, ClosedRow DEF DeskInv
  <1>6. counts' \in [Drawers -> [cash : Int, card : Int, gross : Int, made : BOOLEAN]]
    BY <1>1 DEF DeskInv, DrawerTypeOK
  <1> QED
    BY <1>1, <1>4, <1>6, FinishWithDrawer

LEMMA CountFields ==
    ASSUME NEW sums \in Sums
    PROVE  /\ Reconciliation(sums) \in [cash : Int, card : Int, gross : Int, made : BOOLEAN]
           /\ Reconciliation(sums).cash \in Int /\ Reconciliation(sums).made
  BY CashDrawerAssumption DEF Reconciliation, Sums

LEMMA CommitReconcileKeeps ==
    ASSUME DeskInv, NEW r \in Requests, CommitReconcile(r)
    PROVE  DeskInv'
  <1> DEFINE d == tills[r].drawer
             count == Reconciliation(tills[r].sums)
  <1>1. /\ d \in Drawers /\ Finish(r) /\ UNCHANGED <<takings, tabs, disturbed>>
        /\ counts' = [counts EXCEPT ![d] = count]
        /\ drawers' = [drawers EXCEPT ![d].status = "closed", ![d].expected = count.cash]
    BY DEF DeskInv, Fitting, CommitReconcile
  <1>2. /\ count \in [cash : Int, card : Int, gross : Int, made : BOOLEAN]
        /\ count.cash \in Int
    BY RowFields, CountFields DEF DeskInv
  <1> HIDE DEF d, count
  <1>4. /\ drawers' \in [Drawers -> DrawerRows]
        /\ \A e \in Drawers : drawers[e].status # "absent" => drawers'[e].status # "absent"
    BY <1>1, <1>2, ClosedRow DEF DeskInv
  <1>6. counts' \in [Drawers -> [cash : Int, card : Int, gross : Int, made : BOOLEAN]]
    BY <1>1, <1>2 DEF DeskInv, DrawerTypeOK
  <1> QED
    BY <1>1, <1>4, <1>6, FinishWithDrawer

TabRows == [status : {"absent", "pending", "completed", "cancelled"},
            owner : Cashiers \cup {NoCashier}, drawer : Drawers \cup {NoDrawer},
            paid : Nat, refunded : BOOLEAN]

LEMMA TabFields ==
    ASSUME DrawerTypeOK, NEW t \in Tabs
    PROVE  /\ tabs[t] \in TabRows /\ tabs[t].paid \in Nat /\ Unsold(t) \in Nat
           /\ tabs \in [Tabs -> TabRows] /\ IsFiniteSet(Tabs) /\ Price \in Nat \ {0}
  BY CashDrawerAssumption DEF DrawerTypeOK, TabRows, Unsold, ChangeOf

\* The order that a request commits to is nobody else's but, refunded twice, of
\* another refund.
LEMMA TabTableKeeps ==
    ASSUME DeskInv, NEW r \in Requests, Finish(r), NEW t \in Tabs, t = tills[r].tab,
           tills[r].stage \in {"ordering", "paying", "cancelling", "refunding"},
           NEW row \in TabRows, tabs' = [tabs EXCEPT ![t] = row],
           row.status # "absent", row.drawer \in Drawers,
           tills[r].stage = "refunding" => row.status = "completed",
           takings' \in [Drawers -> Sums], disturbed' \subseteq Drawers,
           UNCHANGED <<drawers, counts>>
    PROVE  DeskInv'
  <1>1. /\ \A q \in Requests : tills'[q] = IF q = r THEN Resting ELSE tills[q]
        /\ \A q \in Requests : tills'[q] \in TillRows
        /\ tills' = [q \in Requests |-> tills'[q]]
    BY FinishedRows DEF DeskInv
  <1>2. \A u \in Tabs : tabs'[u] = IF u = t THEN row ELSE tabs[u]
    BY DEF DeskInv, DrawerTypeOK
  <1>3. tabs' \in [Tabs -> TabRows]
    BY TabFields DEF DeskInv
  <1>4. DrawerTypeOK'
    BY <1>1, <1>3 DEF DeskInv, DrawerTypeOK, TillRows, TabRows
  <1>5. ASSUME NEW q \in Requests PROVE Fitting(tills[q], drawers, tabs)'
    <2>1. Fitting(tills[q], drawers, tabs) /\ Alone(q) /\ Fitting(tills[r], drawers, tabs) /\ Alone(r)
      BY DEF DeskInv
    <2>2. CASE q = r
      BY <1>1, <2>2, RestingRow
    <2>3. CASE q # r /\ tills[q].tab # t
      BY <1>1, <1>2, <2>1, <2>3 DEF Fitting
    <2>4. CASE q # r /\ tills[q].tab = t
      <3>1. tills[q].stage \notin {"ordering", "paying", "cancelling"}
        BY <2>1, <2>4 DEF Fitting, Alone
      <3>2. tills[q].stage = "refunding" => tills[r].stage = "refunding"
        BY <2>1, <2>4 DEF Fitting, Alone
      <3> QED
        BY <1>1, <1>2, <2>1, <2>4, <3>1, <3>2 DEF Fitting
    <2> QED
      BY <2>2, <2>3, <2>4
  <1>6. ASSUME NEW q \in Requests PROVE Alone(q)'
    <2>1. Alone(q) /\ Fitting(tills[q], drawers, tabs)
      BY DEF DeskInv
    <2> QED
      BY <1>1, <2>1, RestingRow, NoTabIsNone DEF Alone, Fitting
  <1>7. \A u \in Tabs : TabIsBooked(u)'
    BY <1>2 DEF DeskInv, TabIsBooked
  <1> QED
    BY <1>4, <1>5, <1>6, <1>7 DEF DeskInv

\* What a request that is about to commit holds.
LEMMA CommitFields ==
    ASSUME DeskInv, NEW r \in Requests,
           tills[r].stage \in {"ordering", "paying", "cancelling", "refunding"}
    PROVE  /\ tills[r].tab \in Tabs
           /\ tills[r].stage = "ordering" =>
                 /\ tills[r].drawer \in Drawers /\ tills[r].who \in Cashiers
                 /\ tabs[tills[r].tab].status = "absent"
                 /\ tabs[tills[r].tab].drawer = NoDrawer /\ tabs[tills[r].tab].paid = 0
           /\ tills[r].stage # "ordering" => tabs[tills[r].tab].drawer \in Drawers
           /\ tills[r].stage \in {"paying", "cancelling"} => tabs[tills[r].tab].status = "pending"
           /\ tills[r].stage = "refunding" => tabs[tills[r].tab].status = "completed"
  BY DEF DeskInv, Fitting, TabIsBooked

NewTab(r) == [status |-> "pending", owner |-> tills[r].who, drawer |-> tills[r].drawer,
              paid |-> 0, refunded |-> FALSE]

LEMMA InsertTabKeeps ==
    ASSUME DeskInv, NEW r \in Requests, InsertTab(r)
    PROVE  DeskInv'
  <1> DEFINE t == tills[r].tab
  <1>1. /\ t \in Tabs /\ tills[r].stage = "ordering" /\ Finish(r)
        /\ tabs' = [tabs EXCEPT ![t] = NewTab(r)]
        /\ UNCHANGED <<drawers, counts, takings, disturbed>>
    BY CommitFields DEF InsertTab, NewTab
  <1>2. /\ NewTab(r) \in TabRows /\ NewTab(r).status = "pending" /\ NewTab(r).drawer \in Drawers
    BY <1>1, CommitFields DEF NewTab, TabRows
  <1>3. takings' \in [Drawers -> Sums] /\ disturbed' \subseteq Drawers
    BY <1>1 DEF DeskInv, DrawerTypeOK
  <1> QED
    BY <1>1, <1>2, <1>3, TabTableKeeps

LEMMA CommitCancellingKeeps ==
    ASSUME DeskInv, NEW r \in Requests, CommitCancelling(r)
    PROVE  DeskInv'
  <1> DEFINE t == tills[r].tab
             row == [tabs[t] EXCEPT !.status = "cancelled"]
  <1>1. /\ t \in Tabs /\ tills[r].stage = "cancelling" /\ Finish(r)
        /\ tabs' = [tabs EXCEPT ![t] = row] /\ tabs[t].drawer \in Drawers
        /\ UNCHANGED <<drawers, counts, takings, disturbed>>
    BY CommitFields DEF CommitCancelling
  <1>2. /\ row \in TabRows /\ row.status = "cancelled" /\ row.drawer \in Drawers
    BY <1>1, TabFields DEF DeskInv, TabRows
  <1> HIDE DEF row
  <1>3. takings' \in [Drawers -> Sums] /\ disturbed' \subseteq Drawers
    BY <1>1 DEF DeskInv, DrawerTypeOK
  <1> QED
    BY <1>1, <1>2, <1>3, TabTableKeeps

LEMMA BookTypes ==
    ASSUME DeskInv, NEW d \in Drawers, NEW sums \in Sums, Book(d, sums)
    PROVE  /\ takings' \in [Drawers -> Sums] /\ disturbed' \subseteq Drawers
           /\ takings' = [takings EXCEPT ![d] = sums]
  BY DEF DeskInv, DrawerTypeOK, Book

Repaid(sums, a, b) == [sums EXCEPT !.cashBack = @ + a, !.cardBack = @ + b]

LEMMA RepaidSums ==
    ASSUME NEW sums \in Sums, NEW a \in Nat, NEW b \in Nat
    PROVE  /\ Repaid(sums, a, b) \in Sums /\ Repaid(sums, a, b).cash = sums.cash
           /\ Repaid(sums, a, b).card = sums.card /\ Repaid(sums, a, b).gross = sums.gross
  <1> DEFINE one == [sums EXCEPT !.cashBack = @ + a]
             two == [one EXCEPT !.cardBack = sums.cardBack + b]
  <1>1. one \in Sums /\ one.cash = sums.cash /\ one.card = sums.card /\ one.gross = sums.gross
    BY DEF Sums
  <1>2. sums.cardBack + b \in Nat
    BY DEF Sums
  <1> HIDE DEF one
  <1>3. two \in Sums /\ two.cash = sums.cash /\ two.card = sums.card /\ two.gross = sums.gross
    BY <1>1, <1>2 DEF Sums
  <1> HIDE DEF two
  <1> QED
    BY <1>3 DEF one, two, Repaid

Sold(sums, a, b, g) == [sums EXCEPT !.cash = @ + a, !.card = @ + b, !.gross = @ + g]

LEMMA SoldSums ==
    ASSUME NEW sums \in Sums, NEW a \in Nat, NEW b \in Nat, NEW g \in Nat
    PROVE  /\ Sold(sums, a, b, g) \in Sums
           /\ Sold(sums, a, b, g).cash = sums.cash + a
           /\ Sold(sums, a, b, g).card = sums.card + b
           /\ Sold(sums, a, b, g).gross = sums.gross + g
  <1> DEFINE one == [sums EXCEPT !.cash = @ + a]
             two == [one EXCEPT !.card = sums.card + b]
             new == [two EXCEPT !.gross = sums.gross + g]
  <1>1. one \in Sums /\ one.cash = sums.cash + a
    BY DEF Sums
  <1>2. sums.card + b \in Nat /\ sums.gross + g \in Nat
    BY DEF Sums
  <1> HIDE DEF one
  <1>3. two \in Sums /\ two.cash = sums.cash + a /\ two.card = sums.card + b
    BY <1>1, <1>2 DEF Sums
  <1> HIDE DEF two
  <1>4. /\ new \in Sums /\ new.cash = sums.cash + a /\ new.card = sums.card + b
        /\ new.gross = sums.gross + g
    BY <1>2, <1>3 DEF Sums
  <1> HIDE DEF new
  <1> QED
    BY <1>4 DEF one, two, new, Sold

LEMMA CommitRefundingKeeps ==
    ASSUME DeskInv, NEW r \in Requests, NEW method \in {"cash", "card"}, CommitRefunding(r, method)
    PROVE  DeskInv'
  <1> DEFINE t == tills[r].tab
             d == tabs[t].drawer
             row == [tabs[t] EXCEPT !.refunded = TRUE]
             a == IF method = "cash" THEN Price ELSE 0
             b == IF method = "card" THEN Price ELSE 0
             sums == Repaid(takings[d], a, b)
  <1>a. tills[r].stage = "refunding"
    BY DEF CommitRefunding
  <1>b. t \in Tabs /\ d \in Drawers /\ tabs[t].status = "completed"
    BY <1>a, CommitFields
  <1>c. Book(d, sums)
    BY DEF CommitRefunding, Repaid
  <1>d. Finish(r) /\ tabs' = [tabs EXCEPT ![t] = row] /\ UNCHANGED <<drawers, counts>>
    BY DEF CommitRefunding
  <1>1. /\ t \in Tabs /\ tills[r].stage = "refunding" /\ Finish(r)
        /\ tabs' = [tabs EXCEPT ![t] = row] /\ d \in Drawers /\ tabs[t].status = "completed"
        /\ Book(d, sums)
        /\ UNCHANGED <<drawers, counts>>
    BY <1>a, <1>b, <1>c, <1>d
  <1>2. a \in Nat /\ b \in Nat /\ takings[d] \in Sums /\ tabs[t] \in TabRows
    BY <1>1, TakingFields, TabFields DEF DeskInv
  <1> HIDE DEF a, b, t
  <1>3. /\ row \in TabRows /\ row.status = "completed" /\ row.drawer \in Drawers
    BY <1>1, <1>2 DEF TabRows
  <1> HIDE DEF d
  <1>4. sums \in Sums
    BY <1>2, RepaidSums
  <1> HIDE DEF row, sums
  <1>5. takings' \in [Drawers -> Sums] /\ disturbed' \subseteq Drawers
    BY <1>1, <1>4, BookTypes
  <1> QED
    BY <1>1, <1>3, <1>5, TabTableKeeps DEF t

Paid(t, amount) == [tabs[t] EXCEPT !.paid = tabs[t].paid + amount,
                                   !.status = IF tabs[t].paid + amount >= Price
                                              THEN "completed" ELSE "pending"]

\* A payment completes the order it settles.
LEMMA PaidTab ==
    ASSUME NEW t, tabs[t] \in TabRows, NEW amount \in Nat, Price \in Nat
    PROVE  /\ Paid(t, amount) \in TabRows /\ Paid(t, amount).paid = tabs[t].paid + amount
           /\ Paid(t, amount).drawer = tabs[t].drawer
           /\ Paid(t, amount).status = IF tabs[t].paid + amount >= Price
                                       THEN "completed" ELSE "pending"
  <1> DEFINE paid == tabs[t].paid + amount
             status == IF paid >= Price THEN "completed" ELSE "pending"
             one == [tabs[t] EXCEPT !.paid = paid]
             two == [one EXCEPT !.status = status]
  <1>1. paid \in Nat /\ status \in {"completed", "pending"}
    BY DEF TabRows
  <1> HIDE DEF paid, status
  <1>2. one \in TabRows /\ one.paid = paid /\ one.drawer = tabs[t].drawer
    BY <1>1 DEF TabRows
  <1> HIDE DEF one
  <1>3. two \in TabRows /\ two.paid = paid /\ two.drawer = tabs[t].drawer /\ two.status = status
    BY <1>1, <1>2 DEF TabRows
  <1> HIDE DEF two
  <1> QED
    BY <1>3 DEF Paid, one, two, paid, status

\* What the commit of a payment does.
LEMMA PayingFields ==
    ASSUME DeskInv, NEW r \in Requests, NEW amount \in Coins, NEW method \in {"cash", "card"},
           CommitPaying(r, amount, method)
    PROVE  LET t == tills[r].tab
               d == tabs[t].drawer
               sums == Sold(takings[d], IF method = "cash" THEN amount ELSE 0,
                            IF method = "card" THEN amount ELSE 0,
                            IF tabs[t].paid + amount >= Price THEN Price ELSE 0)
           IN  /\ t \in Tabs /\ d \in Drawers /\ tabs[t].status = "pending"
               /\ tills[r].stage = "paying" /\ Finish(r)
               /\ tabs' = [tabs EXCEPT ![t] = Paid(t, amount)]
               /\ Book(d, sums)
               /\ UNCHANGED <<drawers, counts>>
  <1>1. tills[r].stage = "paying"
    BY DEF CommitPaying
  <1>2. /\ tills[r].tab \in Tabs /\ tabs[tills[r].tab].drawer \in Drawers
        /\ tabs[tills[r].tab].status = "pending"
    BY <1>1, CommitFields
  <1>3. Book(tabs[tills[r].tab].drawer,
             Sold(takings[tabs[tills[r].tab].drawer], IF method = "cash" THEN amount ELSE 0,
                  IF method = "card" THEN amount ELSE 0,
                  IF tabs[tills[r].tab].paid + amount >= Price THEN Price ELSE 0))
    BY DEF CommitPaying, Sold
  <1>4. /\ tabs' = [tabs EXCEPT ![tills[r].tab] = Paid(tills[r].tab, amount)]
        /\ Finish(r) /\ UNCHANGED <<drawers, counts>>
    BY DEF CommitPaying, Paid
  <1> QED
    BY <1>1, <1>2, <1>3, <1>4

LEMMA CommitPayingKeeps ==
    ASSUME DeskInv, NEW r \in Requests, NEW amount \in Coins, NEW method \in {"cash", "card"},
           CommitPaying(r, amount, method)
    PROVE  DeskInv'
  <1> DEFINE t == tills[r].tab
             d == tabs[t].drawer
             a == IF method = "cash" THEN amount ELSE 0
             b == IF method = "card" THEN amount ELSE 0
             g == IF tabs[t].paid + amount >= Price THEN Price ELSE 0
             sums == Sold(takings[d], a, b, g)
             row == Paid(t, amount)
  <1>1. /\ t \in Tabs /\ d \in Drawers /\ tabs[t].status = "pending"
        /\ tills[r].stage = "paying" /\ Finish(r)
        /\ tabs' = [tabs EXCEPT ![t] = row]
        /\ Book(d, sums)
        /\ UNCHANGED <<drawers, counts>>
    BY PayingFields
  <1>2. /\ amount \in Nat /\ a \in Nat /\ b \in Nat /\ g \in Nat /\ Price \in Nat
        /\ takings[d] \in Sums /\ tabs[t] \in TabRows
    BY <1>1, TakingFields, TabFields, CashDrawerAssumption DEF DeskInv
  <1> HIDE DEF a, b, g
  <1>3. sums \in Sums
    BY <1>2, SoldSums
  <1>4. row \in TabRows /\ row.status # "absent" /\ row.drawer \in Drawers
    BY <1>1, <1>2, PaidTab
  <1> HIDE DEF sums, row, d
  <1>5. takings' \in [Drawers -> Sums] /\ disturbed' \subseteq Drawers
    BY <1>1, <1>3, BookTypes
  <1> QED
    BY <1>1, <1>4, <1>5, TabTableKeeps

LEMMA DeskNextKeeps == DeskInv /\ [DrawerNext]_drawerVars => DeskInv'
  <1> SUFFICES ASSUME DeskInv, [DrawerNext]_drawerVars PROVE DeskInv'
    OBVIOUS
  <1>1. CASE UNCHANGED drawerVars
    BY <1>1 DEF drawerVars, DeskInv, DrawerTypeOK, Fitting, Alone, TabIsBooked
  <1>2. Superusers \subseteq Cashiers /\ Coins \subseteq Nat
    BY CashDrawerAssumption
  <1>3. ASSUME NEW r \in Requests, NEW c \in Cashiers, NEW d \in Drawers,
               StartClosing(r, c, d) \/ StartReconcile(r, c, d) \/ OpenPanel(r, c, d)
        PROVE  DeskInv'
    <2>2. CASE StartClosing(r, c, d)
      BY <2>2, WorkOnDrawerKeeps DEF StartClosing, ActiveDrawers
    <2>3. CASE StartReconcile(r, c, d)
      BY <2>3, WorkOnDrawerKeeps DEF StartReconcile
    <2>4. CASE OpenPanel(r, c, d)
      BY <2>4, WorkOnDrawerKeeps DEF OpenPanel
    <2> QED
      BY <1>3, <2>2, <2>3, <2>4
  <1>4. ASSUME NEW r \in Requests, NEW c \in Cashiers, NEW t \in Tabs,
               \/ \E d \in Drawers : StartTab(r, c, t, d)
               \/ StartPaying(r, c, t) \/ StartCancelling(r, c, t) \/ StartRefunding(r, c, t)
        PROVE  DeskInv'
    <2>1. CASE \E d \in Drawers : StartTab(r, c, t, d)
      BY <2>1, StartTabKeeps
    <2>2. CASE StartPaying(r, c, t)
      BY <2>2, WorkOnTabKeeps DEF StartPaying
    <2>3. CASE StartCancelling(r, c, t)
      BY <2>3, WorkOnTabKeeps DEF StartCancelling
    <2>4. CASE StartRefunding(r, c, t)
      BY <2>4, WorkOnTabKeeps DEF StartRefunding
    <2> QED
      BY <1>4, <2>1, <2>2, <2>3, <2>4
  <1>5. ASSUME NEW r \in Requests,
               \/ CloseDrawer(r) \/ ReadSales(r) \/ ReadRefunds(r) \/ CommitReconcile(r)
               \/ AlreadyReconciled(r) \/ InsertTab(r) \/ CommitCancelling(r)
        PROVE  DeskInv'
    BY <1>5, CloseDrawerKeeps, DrawerReadsKeep, CommitReconcileKeeps, FinishKeeps, InsertTabKeeps,
       CommitCancellingKeeps DEF AlreadyReconciled
  <1>6. CASE DrawerNext
    BY <1>2, <1>3, <1>4, <1>5, <1>6, OpeningKeeps, InsertDrawerKeeps, CommitPayingKeeps,
       CommitRefundingKeeps DEF DrawerNext, Requests
  <1> QED
    BY <1>1, <1>6

LEMMA DeskInitHolds == DrawerInit => DeskInv
  <1> SUFFICES ASSUME DrawerInit PROVE DeskInv
    OBVIOUS
  <1>1. DrawerTypeOK
    BY RestingRow, CashDrawerAssumption DEF DrawerInit, DrawerTypeOK, NoCount, NoTakings, Sums, TillRows
  <1>2. \A r \in Requests : Fitting(tills[r], drawers, tabs) /\ Alone(r)
    BY RestingRow DEF DrawerInit, Alone
  <1>3. \A t \in Tabs : TabIsBooked(t)
    BY DEF DrawerInit, TabIsBooked
  <1> QED
    BY <1>1, <1>2, <1>3 DEF DeskInv

LEMMA DeskIsRight == DrawerSpec => []DeskInv
  BY DeskInitHolds, DeskNextKeeps, PTL DEF DrawerSpec

\* Drawers, counts, orders and the requests at them have their types.
THEOREM DrawerTypes == DrawerSpec => []DrawerTypeOK
  <1>1. DeskInv => DrawerTypeOK
    BY DEF DeskInv
  <1> QED
    BY <1>1, DeskIsRight, PTL

-----------------------------------------------------------------------------
(* Two open drawers of one cashier *)

LEMMA BegunRows ==
    ASSUME DrawerTypeOK, NEW r \in Requests, NEW stage, NEW c, NEW d, NEW t,
           Begin(r, stage, c, d, t)
    PROVE  /\ \A q \in Requests : tills'[q] = IF q = r THEN Fresh(stage, c, d, t) ELSE tills[q]
           /\ tills[r].stage = "idle"
           /\ Fresh(stage, c, d, t).stage = stage /\ Fresh(stage, c, d, t).who = c
           /\ Fresh(stage, c, d, t).drawer = d /\ Fresh(stage, c, d, t).tab = t
  <1>1. /\ \A q \in Requests : tills'[q] = IF q = r THEN Fresh(stage, c, d, t) ELSE tills[q]
        /\ tills[r].stage = "idle"
    BY DEF Begin, Fresh, DrawerTypeOK
  <1> QED
    BY <1>1 DEF Fresh, Resting

\* Drawers are only closed, and whoever comes to open one has none.
LEMMA OnlyCloses ==
    ASSUME OnlyRacesOpenTwice,
           \A q \in Requests : tills'[q].stage = "opening" /\ ~tills'[q].overtaken =>
               \/ /\ tills[q].stage = "opening" /\ ~tills[q].overtaken
                  /\ tills'[q].who = tills[q].who
               \/ ActiveDrawers(tills'[q].who) = {},
           \A d \in Drawers : drawers'[d].status = "open" =>
               drawers[d].status = "open" /\ drawers'[d].owner = drawers[d].owner
    PROVE  OnlyRacesOpenTwice'
  <1>1. \A c : ActiveDrawers(c)' \subseteq ActiveDrawers(c)
    BY DEF ActiveDrawers
  <1> QED
    BY <1>1 DEF OnlyRacesOpenTwice

LEMMA InsertMarksRivals ==
    ASSUME DeskInv, OnlyRacesOpenTwice, NEW r \in Requests, NEW d \in Drawers, InsertDrawer(r, d)
    PROVE  OnlyRacesOpenTwice'
  <1> SUFFICES ASSUME NEW q \in Requests, tills'[q].stage = "opening", ~tills'[q].overtaken
               PROVE  ActiveDrawers(tills[q].who)' = {}
    BY DEF OnlyRacesOpenTwice, ActiveDrawers
  <1>1. tills'[q] = IF q = r THEN Resting
                    ELSE IF tills[q].stage = "opening" /\ tills[q].who = tills[r].who
                    THEN [tills[q] EXCEPT !.overtaken = TRUE] ELSE tills[q]
    BY DEF InsertDrawer
  <1>2. tills[q] \in TillRows
    BY RowFields DEF DeskInv
  <1>3. q # r /\ tills'[q] = tills[q] /\ tills[q].who # tills[r].who
    <2>1. [tills[q] EXCEPT !.overtaken = TRUE].overtaken
      BY <1>2 DEF TillRows
    <2> QED
      BY <1>1, <2>1, RestingRow
  <1>4. ActiveDrawers(tills[q].who) = {}
    BY <1>3 DEF OnlyRacesOpenTwice
  <1>5. \A e \in Drawers : drawers'[e] = IF e = d THEN [status |-> "open", owner |-> tills[r].who,
                                                        expected |-> 0] ELSE drawers[e]
    BY DEF InsertDrawer, DeskInv, DrawerTypeOK
  <1> QED
    BY <1>3, <1>4, <1>5 DEF ActiveDrawers

\* A request takes up work on an open drawer, its own or its order's.
BeginsWork(r) ==
    /\ \E c \in Cashiers, d \in Drawers \cup {NoDrawer}, t \in Tabs \cup {NoTab},
          stage \in {"closing", "seen", "ordering", "paying", "cancelling", "refunding"} :
          /\ Begin(r, stage, c, d, t)
          /\ d # NoDrawer => drawers[d].status = "open"
          /\ t # NoTab => IF d = NoDrawer THEN drawers[tabs[t].drawer].status = "open"
                                          ELSE tabs[t].status = "absent"
    /\ UNCHANGED <<drawers, counts, takings, tabs, disturbed>>

LEMMA StepCases ==
    ASSUME DeskInv, DrawerNext
    PROVE  \/ \E r \in Requests : \/ \E c \in Cashiers : StartOpening(r, c)
                                  \/ BeginsWork(r)
                                  \/ \E d \in Drawers : InsertDrawer(r, d)
                                  \/ ReadSales(r) \/ ReadRefunds(r) \/ AlreadyReconciled(r)
                                  \/ CloseDrawer(r) \/ CommitReconcile(r)
                                  \/ InsertTab(r) \/ CommitCancelling(r)
           \/ \E r \in Requests, method \in {"cash", "card"} : CommitRefunding(r, method)
           \/ \E r \in Requests, amount \in Coins, method \in {"cash", "card"} :
                 CommitPaying(r, amount, method)
  <1>1. Superusers \subseteq Cashiers /\ NoTab \notin Tabs /\ NoDrawer \notin Drawers
    BY CashDrawerAssumption
  <1>2. ASSUME NEW r \in Requests, NEW c \in Cashiers, NEW d \in Drawers,
               StartClosing(r, c, d) \/ StartReconcile(r, c, d) \/ OpenPanel(r, c, d)
        PROVE  BeginsWork(r)
    <2>1. CASE StartClosing(r, c, d)
      BY <1>1, <2>1 DEF StartClosing, ActiveDrawers, BeginsWork
    <2>2. CASE StartReconcile(r, c, d)
      BY <1>1, <2>2 DEF StartReconcile, BeginsWork
    <2>3. CASE OpenPanel(r, c, d)
      BY <1>1, <2>3 DEF OpenPanel, BeginsWork
    <2> QED
      BY <1>2, <2>1, <2>2, <2>3
  <1>3. ASSUME NEW r \in Requests, NEW c \in Cashiers, NEW t \in Tabs, NEW d \in Drawers,
               StartTab(r, c, t, d)
        PROVE  BeginsWork(r)
    BY <1>1, <1>3 DEF StartTab, ActiveDrawers, BeginsWork
  <1>4. ASSUME NEW r \in Requests, NEW c \in Cashiers, NEW t \in Tabs,
               StartPaying(r, c, t) \/ StartCancelling(r, c, t) \/ StartRefunding(r, c, t)
        PROVE  BeginsWork(r)
    <2>1. CASE StartPaying(r, c, t)
      BY <1>1, <2>1 DEF StartPaying, DrawerOpen, BeginsWork
    <2>2. CASE StartCancelling(r, c, t)
      BY <1>1, <2>2 DEF StartCancelling, DrawerOpen, BeginsWork
    <2>3. CASE StartRefunding(r, c, t)
      BY <1>1, <2>3 DEF StartRefunding, DrawerOpen, BeginsWork
    <2> QED
      BY <1>4, <2>1, <2>2, <2>3
  <1> QED
    BY <1>1, <1>2, <1>3, <1>4 DEF DrawerNext, Requests

\* A closing request has its drawer closed, and touches no other.
LEMMA ClosedBy ==
    ASSUME DeskInv, NEW r \in Requests, CloseDrawer(r) \/ CommitReconcile(r)
    PROVE  /\ tills[r].drawer \in Drawers /\ Finish(r)
           /\ drawers'[tills[r].drawer].status = "closed"
           /\ \A e \in Drawers \ {tills[r].drawer} : drawers'[e] = drawers[e]
           /\ UNCHANGED <<takings, tabs, disturbed>>
  <1> DEFINE d == tills[r].drawer
  <1>1. d \in Drawers /\ Finish(r) /\ UNCHANGED <<takings, tabs, disturbed>>
    BY DEF DeskInv, Fitting, CloseDrawer, CommitReconcile
  <1>2. CASE CloseDrawer(r)
    <2>1. PICK expected \in {drawers[d].expected, Float} :
             drawers' = [drawers EXCEPT ![d].status = "closed", ![d].expected = expected]
      BY <1>2 DEF CloseDrawer
    <2> HIDE DEF d
    <2>2. expected \in Int
      BY <1>1, CashDrawerAssumption DEF DeskInv, DrawerTypeOK
    <2> QED
      BY <1>1, <2>1, <2>2, ClosedRow DEF DeskInv, d
  <1>3. CASE CommitReconcile(r)
    <2>1. Reconciliation(tills[r].sums).cash \in Int
      BY RowFields, CountFields DEF DeskInv
    <2>2. drawers' = [drawers EXCEPT ![d].status = "closed",
                                     ![d].expected = Reconciliation(tills[r].sums).cash]
      BY <1>3 DEF CommitReconcile
    <2> HIDE DEF d
    <2> QED
      BY <1>1, <2>1, <2>2, ClosedRow DEF DeskInv, d
  <1> QED
    BY <1>2, <1>3

LEMMA RacesNextKeeps ==
    ASSUME DeskInv, OnlyRacesOpenTwice, [DrawerNext]_drawerVars
    PROVE  OnlyRacesOpenTwice'
  <1>0. DrawerTypeOK
    BY DEF DeskInv
  <1>1. CASE UNCHANGED drawerVars
    BY <1>1 DEF drawerVars, OnlyRacesOpenTwice, ActiveDrawers
  <1>2. ASSUME NEW r \in Requests, NEW c \in Cashiers, StartOpening(r, c)
        PROVE  OnlyRacesOpenTwice'
    <2>1. \A q \in Requests : tills'[q] = IF q = r THEN Fresh("opening", c, NoDrawer, NoTab)
                                          ELSE tills[q]
      BY <1>0, <1>2, BegunRows DEF StartOpening
    <2>2. Fresh("opening", c, NoDrawer, NoTab).who = c /\ drawers' = drawers
          /\ ActiveDrawers(c) = {}
      BY <1>2 DEF Fresh, Resting, StartOpening
    <2> QED
      BY <2>1, <2>2, OnlyCloses
  <1>3. ASSUME NEW r \in Requests, BeginsWork(r)
        PROVE  OnlyRacesOpenTwice'
    <2>1. PICK c \in Cashiers, d \in Drawers \cup {NoDrawer}, t \in Tabs \cup {NoTab},
               stage \in {"closing", "seen", "ordering", "paying", "cancelling", "refunding"} :
             Begin(r, stage, c, d, t)
      BY <1>3 DEF BeginsWork
    <2>2. \A q \in Requests : tills'[q] = IF q = r THEN Fresh(stage, c, d, t) ELSE tills[q]
      BY <1>0, <2>1, BegunRows
    <2>3. Fresh(stage, c, d, t).stage # "opening" /\ drawers' = drawers
      BY <1>3, <2>1 DEF Fresh, Resting, BeginsWork
    <2> QED
      BY <2>2, <2>3, OnlyCloses
  <1>4. ASSUME NEW r \in Requests, ReadSales(r) \/ ReadRefunds(r)
        PROVE  OnlyRacesOpenTwice'
    <2>1. \A q \in Requests \ {r} : tills'[q] = tills[q]
      BY <1>0, <1>4 DEF DrawerTypeOK, ReadSales, ReadRefunds
    <2>2. tills'[r].stage # "opening" /\ drawers' = drawers
      BY <1>0, <1>4 DEF DrawerTypeOK, ReadSales, ReadRefunds
    <2> QED
      BY <2>1, <2>2, OnlyCloses
  <1>5. ASSUME NEW r \in Requests, Finish(r), drawers' = drawers
        PROVE  OnlyRacesOpenTwice'
    BY <1>0, <1>5, FinishedRows, RestingRow, OnlyCloses
  <1>6. ASSUME NEW r \in Requests, CloseDrawer(r) \/ CommitReconcile(r)
        PROVE  OnlyRacesOpenTwice'
    <2>1. \A e \in Drawers : drawers'[e].status = "open" => drawers'[e] = drawers[e]
      BY <1>6, ClosedBy
    <2> QED
      BY <1>0, <1>6, <2>1, ClosedBy, FinishedRows, RestingRow, OnlyCloses
  <1>7. ASSUME NEW r \in Requests,
               \/ AlreadyReconciled(r) \/ InsertTab(r) \/ CommitCancelling(r)
               \/ \E method \in {"cash", "card"} : CommitRefunding(r, method)
               \/ \E amount \in Coins, method \in {"cash", "card"} :
                     CommitPaying(r, amount, method)
        PROVE  Finish(r) /\ drawers' = drawers
    BY <1>7 DEF AlreadyReconciled, InsertTab, CommitCancelling, CommitRefunding, CommitPaying
  <1>8. CASE DrawerNext
    BY <1>2, <1>3, <1>4, <1>5, <1>6, <1>7, <1>8, StepCases, InsertMarksRivals
  <1> QED
    BY <1>1, <1>8

\* However many requests open drawers at once: one about to insert a drawer for a
\* cashier that has one was overtaken since it looked.
THEOREM OnlyRacesOpenDrawersTwice == DrawerSpec => []OnlyRacesOpenTwice
  <1>1. DrawerInit => OnlyRacesOpenTwice
    BY RestingRow DEF DrawerInit, OnlyRacesOpenTwice
  <1>2. DeskInv /\ OnlyRacesOpenTwice /\ [DrawerNext]_drawerVars => OnlyRacesOpenTwice'
    BY RacesNextKeeps
  <1> QED
    BY <1>1, <1>2, DeskIsRight, PTL DEF DrawerSpec

-----------------------------------------------------------------------------
(* Closed drawers *)

\* Requests only leave a drawer when no row of theirs comes to point to it.
LEMMA NobodyComes ==
    ASSUME NEW d \in Drawers, NEW r \in Requests, DeskInv,
           \A q \in Requests : /\ tills'[q].drawer \in {NoDrawer, tills[q].drawer}
                               /\ tills'[q].tab \in {NoTab, tills[q].tab},
           \A q \in Requests : tills'[q].tab \in Tabs =>
               tabs'[tills'[q].tab].drawer = tabs[tills'[q].tab].drawer
    PROVE  InFlight(d)' \subseteq InFlight(d)
  <1>1. \A q \in Requests : tills[q].tab \in Tabs \cup {NoTab}
    BY RowFields DEF DeskInv, TillRows
  <1> QED
    BY <1>1, NoTabIsNone DEF InFlight

LEMMA WorkBeginsElsewhere ==
    ASSUME DeskInv, NEW d \in Drawers, drawers[d].status = "closed", NEW r \in Requests,
           BeginsWork(r)
    PROVE  InFlight(d)' \subseteq InFlight(d)
  <1>1. PICK c \in Cashiers, e \in Drawers \cup {NoDrawer}, t \in Tabs \cup {NoTab},
             stage \in {"closing", "seen", "ordering", "paying", "cancelling", "refunding"} :
           /\ Begin(r, stage, c, e, t)
           /\ e # NoDrawer => drawers[e].status = "open"
           /\ t # NoTab => IF e = NoDrawer THEN drawers[tabs[t].drawer].status = "open"
                                           ELSE tabs[t].status = "absent"
    BY DEF BeginsWork
  <1> DEFINE x == Fresh(stage, c, e, t)
  <1>2. \A q \in Requests : tills'[q] = IF q = r THEN x ELSE tills[q]
    BY <1>1, BegunRows DEF DeskInv
  <1>3. x.drawer = e /\ x.tab = t /\ tabs' = tabs
    BY DEF Fresh, Resting, BeginsWork
  <1> HIDE DEF x
  <1>4. e # d /\ (t # NoTab => tabs[t].drawer # d)
    BY <1>1, NoTabIsNone DEF DeskInv, TabIsBooked
  <1> QED
    BY <1>2, <1>3, <1>4 DEF InFlight

\* What a finished request leaves alone.
LEMMA FinishLeaves ==
    ASSUME DeskInv, NEW d \in Drawers, NEW r \in Requests, Finish(r),
           \A t \in Tabs : tabs'[t].drawer = tabs[t].drawer
    PROVE  InFlight(d)' \subseteq InFlight(d)
  <1>1. \A q \in Requests : tills'[q] = IF q = r THEN Resting ELSE tills[q]
    BY FinishedRows DEF DeskInv
  <1> QED
    BY <1>1, RestingRow, NobodyComes

LEMMA InsertTabElsewhere ==
    ASSUME DeskInv, NEW d \in Drawers, NEW r \in Requests, InsertTab(r)
    PROVE  InFlight(d)' \subseteq InFlight(d)
  <1>1. \A q \in Requests : tills'[q] = IF q = r THEN Resting ELSE tills[q]
    BY FinishedRows DEF DeskInv, InsertTab
  <1>2. \A q \in Requests \ {r} : tills[q].tab # tills[r].tab
    BY DEF DeskInv, Alone, InsertTab
  <1>3. \A t \in Tabs \ {tills[r].tab} : tabs'[t] = tabs[t]
    BY DEF DeskInv, DrawerTypeOK, InsertTab
  <1>4. tills[r].tab # NoTab
    BY CommitFields, NoTabIsNone DEF InsertTab
  <1> QED
    BY <1>1, <1>2, <1>3, <1>4, RestingRow, NoTabIsNone, NobodyComes

Final(d) ==
    /\ InFlight(d)' \subseteq InFlight(d)
    /\ InFlight(d) = {} => /\ drawers'[d] = drawers[d] /\ counts'[d] = counts[d]
                           /\ takings'[d] = takings[d]

LEMMA ClosingIsFinal ==
    ASSUME DeskInv, NEW d \in Drawers, NEW r \in Requests, CloseDrawer(r) \/ CommitReconcile(r)
    PROVE  Final(d)
  <1>1. InFlight(d)' \subseteq InFlight(d)
    BY ClosedBy, FinishLeaves
  <1>2. CASE tills[r].drawer = d
    BY <1>1, <1>2 DEF Final, InFlight
  <1>3. CASE tills[r].drawer # d
    <2>1. counts'[d] = counts[d]
      BY <1>3 DEF CloseDrawer, CommitReconcile, DeskInv, DrawerTypeOK
    <2> QED
      BY <1>1, <1>3, <2>1, ClosedBy DEF Final
  <1> QED
    BY <1>2, <1>3

\* A payment or refund is in flight at the drawer it books into.
LEMMA BookingIsFinal ==
    ASSUME DeskInv, NEW d \in Drawers, NEW r \in Requests,
           \/ \E method \in {"cash", "card"} : CommitRefunding(r, method)
           \/ \E amount \in Coins, method \in {"cash", "card"} : CommitPaying(r, amount, method)
    PROVE  Final(d)
  <1> DEFINE t == tills[r].tab
             e == tabs[t].drawer
  <1>1. /\ Finish(r) /\ tills[r].stage \in {"paying", "refunding"}
        /\ UNCHANGED <<drawers, counts>>
        /\ \E sums : takings' = [takings EXCEPT ![e] = sums]
        /\ \A u \in Tabs : tabs'[u].drawer = tabs[u].drawer
    <2>1. /\ Finish(r) /\ tills[r].stage \in {"paying", "refunding"}
          /\ UNCHANGED <<drawers, counts>>
      BY DEF CommitRefunding, CommitPaying
    <2>2. \E sums : takings' = [takings EXCEPT ![e] = sums]
      BY DEF CommitRefunding, CommitPaying, Book
    <2>3. \A u \in Tabs : tabs'[u].drawer = tabs[u].drawer
      <3>1. CASE \E method \in {"cash", "card"} : CommitRefunding(r, method)
        BY <3>1 DEF CommitRefunding, DeskInv, DrawerTypeOK
      <3>2. CASE \E amount \in Coins, method \in {"cash", "card"} : CommitPaying(r, amount, method)
        <4>1. PICK amount \in Coins, method \in {"cash", "card"} : CommitPaying(r, amount, method)
          BY <3>2
        <4>2. tabs' = [tabs EXCEPT ![t] = Paid(t, amount)] /\ t \in Tabs
          BY <4>1, PayingFields
        <4>3. tabs[t] \in TabRows /\ amount \in Nat /\ Price \in Nat
          BY <4>2, TabFields, CashDrawerAssumption DEF DeskInv
        <4>4. Paid(t, amount).drawer = tabs[t].drawer
          BY <4>3, PaidTab
        <4> HIDE DEF t
        <4> QED
          BY <4>2, <4>4 DEF DeskInv, DrawerTypeOK
      <3> QED
        BY <3>1, <3>2
    <2> QED
      BY <2>1, <2>2, <2>3
  <1>2. t \in Tabs /\ e \in Drawers
    BY <1>1, CommitFields
  <1> HIDE DEF e
  <1>3. InFlight(d)' \subseteq InFlight(d)
    BY <1>1, FinishLeaves
  <1>4. CASE e = d
    BY <1>2, <1>3, <1>4, NoTabIsNone DEF Final, InFlight, e
  <1>5. CASE e # d
    BY <1>1, <1>2, <1>3, <1>5 DEF Final, DeskInv, DrawerTypeOK
  <1> QED
    BY <1>4, <1>5

LEMMA NextIsFinal ==
    ASSUME DeskInv, [DrawerNext]_drawerVars, NEW d \in Drawers, drawers[d].status = "closed"
    PROVE  Final(d)
  <1>0. DrawerTypeOK
    BY DEF DeskInv
  <1>1. CASE UNCHANGED drawerVars
    BY <1>1 DEF drawerVars, Final, InFlight
  <1>2. ASSUME NEW r \in Requests, NEW c \in Cashiers, StartOpening(r, c)
        PROVE  Final(d)
    <2>1. /\ \A q \in Requests : tills'[q] = IF q = r THEN Fresh("opening", c, NoDrawer, NoTab)
                                             ELSE tills[q]
          /\ Fresh("opening", c, NoDrawer, NoTab).drawer = NoDrawer
          /\ Fresh("opening", c, NoDrawer, NoTab).tab = NoTab
      BY <1>0, <1>2, BegunRows DEF StartOpening
    <2>2. UNCHANGED <<drawers, counts, takings, tabs>>
      BY <1>2 DEF StartOpening
    <2> QED
      BY <2>1, <2>2, NobodyComes DEF Final
  <1>3. ASSUME NEW r \in Requests, BeginsWork(r)
        PROVE  Final(d)
    BY <1>3, WorkBeginsElsewhere DEF BeginsWork, Final
  <1>4. ASSUME NEW r \in Requests, NEW e \in Drawers, InsertDrawer(r, e)
        PROVE  Final(d)
    <2>1. \A q \in Requests : /\ tills'[q].drawer \in {NoDrawer, tills[q].drawer}
                              /\ tills'[q].tab \in {NoTab, tills[q].tab}
      BY <1>0, <1>4, RestingRow DEF InsertDrawer, DrawerTypeOK
    <2>2. drawers'[d] = drawers[d] /\ UNCHANGED <<counts, takings, tabs>>
      BY <1>0, <1>4 DEF InsertDrawer, DrawerTypeOK
    <2> QED
      BY <2>1, <2>2, NobodyComes DEF Final
  <1>5. ASSUME NEW r \in Requests, ReadSales(r) \/ ReadRefunds(r)
        PROVE  Final(d)
    <2>1. \A q \in Requests : /\ tills'[q].drawer = tills[q].drawer
                              /\ tills'[q].tab = tills[q].tab
      <3>1. CASE ReadSales(r)
        BY <1>0, <3>1, SalesRow, MovedOn
      <3>2. CASE ReadRefunds(r)
        BY <1>0, <3>2, RefundsRow, MovedOn
      <3> QED
        BY <1>5, <3>1, <3>2
    <2>2. UNCHANGED <<drawers, counts, takings, tabs>>
      BY <1>5 DEF ReadSales, ReadRefunds
    <2> QED
      BY <2>1, <2>2, NobodyComes DEF Final
  <1>6. ASSUME NEW r \in Requests, AlreadyReconciled(r) \/ CommitCancelling(r)
        PROVE  Final(d)
    <2>1. Finish(r) /\ UNCHANGED <<drawers, counts, takings>>
      BY <1>6 DEF AlreadyReconciled, CommitCancelling
    <2>2. \A t \in Tabs : tabs'[t].drawer = tabs[t].drawer
      BY <1>0, <1>6 DEF AlreadyReconciled, CommitCancelling, DrawerTypeOK
    <2> QED
      BY <2>1, <2>2, FinishLeaves DEF Final
  <1>7. ASSUME NEW r \in Requests, InsertTab(r)
        PROVE  Final(d)
    BY <1>7, InsertTabElsewhere DEF InsertTab, Final
  <1>8. CASE DrawerNext
    BY <1>2, <1>3, <1>4, <1>5, <1>6, <1>7, <1>8, StepCases, ClosingIsFinal, BookingIsFinal
  <1> QED
    BY <1>1, <1>8

\* Nobody takes up work on a closed drawer, and once those who had are done it
\* is final, for any number of drawers, orders and requests.
THEOREM ClosedDrawersStayFinal == DrawerSpec => ClosedDrawersAreFinal
  <1>1. DeskInv /\ [DrawerNext]_drawerVars
          => [\A d \in Drawers : drawers[d].status = "closed"
                => /\ InFlight(d)' \subseteq InFlight(d)
                   /\ InFlight(d) = {} => /\ drawers'[d] = drawers[d] /\ counts'[d] = counts[d]
                                          /\ takings'[d] = takings[d]]_drawerVars
    BY NextIsFinal DEF Final
  <1> QED
    BY <1>1, DeskIsRight, PTL DEF DrawerSpec, ClosedDrawersAreFinal

-----------------------------------------------------------------------------
(* Counts *)

\* A count shows what its drawer took, and is of a closed drawer; what a request
\* has read of an undisturbed drawer is still what the drawer took.
CountsInv ==
    /\ \A d \in Drawers : counts[d].made => drawers[d].status = "closed"
    /\ \A d \in Drawers \ disturbed : counts[d].made => counts[d] = Reconciliation(takings[d])
    /\ \A r \in Requests : tills[r].drawer \in Drawers \ disturbed =>
          /\ tills[r].stage = "counting" =>
                /\ tills[r].sums.cash = takings[tills[r].drawer].cash
                /\ tills[r].sums.card = takings[tills[r].drawer].card
          /\ tills[r].stage = "counted" => tills[r].sums = takings[tills[r].drawer]

LEMMA NothingCounted ==
    ASSUME DeskInv, CountsInv, UNCHANGED <<counts, takings, disturbed>>,
           \A d \in Drawers : drawers[d].status = "closed" => drawers'[d].status = "closed",
           \A q \in Requests : \/ tills'[q].stage \notin {"counting", "counted"}
                               \/ /\ tills'[q].stage = tills[q].stage
                                  /\ tills'[q].sums = tills[q].sums
                                  /\ tills'[q].drawer = tills[q].drawer
    PROVE  CountsInv'
  BY DEF CountsInv

LEMMA ReadsCountRight ==
    ASSUME DeskInv, CountsInv, NEW r \in Requests, ReadSales(r) \/ ReadRefunds(r)
    PROVE  CountsInv'
  <1> DEFINE d == tills[r].drawer
  <1>0. DrawerTypeOK /\ UNCHANGED <<drawers, counts, takings, tabs, disturbed>>
    BY DEF DeskInv, ReadSales, ReadRefunds
  <1>1. d \in Drawers /\ takings[d] \in Sums
    BY RowFields, TakingFields DEF DeskInv, Fitting, ReadSales, ReadRefunds
  <1>2. CASE ReadSales(r)
    <2>1. /\ \A q \in Requests \ {r} : tills'[q] = tills[q]
          /\ tills'[r].drawer = d /\ tills'[r].stage = "counting" /\ tills'[r].sums = SalesRead(d)
      BY <1>0, <1>2, SalesRow, MovedOn
    <2>2. SalesRead(d).cash = takings[d].cash /\ SalesRead(d).card = takings[d].card
      BY <1>1 DEF SalesRead, Sums
    <2> HIDE DEF d
    <2> QED
      BY <1>0, <2>1, <2>2 DEF CountsInv
  <1>3. CASE ReadRefunds(r)
    <2>1. /\ \A q \in Requests \ {r} : tills'[q] = tills[q]
          /\ tills'[r].drawer = d /\ tills'[r].stage = "counted"
          /\ tills'[r].sums = RefundsRead(d, tills[r].sums)
      BY <1>0, <1>3, RefundsRow, MovedOn
    <2>2. d \notin disturbed => /\ tills[r].sums.cash = takings[d].cash
                                /\ tills[r].sums.card = takings[d].card
      BY <1>1, <1>3 DEF CountsInv, ReadRefunds
    <2>3. d \notin disturbed => RefundsRead(d, tills[r].sums) = takings[d]
      <3> SUFFICES ASSUME d \notin disturbed
                   PROVE  [takings[d] EXCEPT !.cash = tills[r].sums.cash,
                                             !.card = tills[r].sums.card] = takings[d]
        BY DEF RefundsRead
      <3>1. [takings[d] EXCEPT !.cash = takings[d].cash, !.card = takings[d].card] = takings[d]
        BY <1>1 DEF Sums
      <3> QED
        BY <2>2, <3>1
    <2> HIDE DEF d
    <2> QED
      BY <1>0, <2>1, <2>3 DEF CountsInv
  <1> QED
    BY <1>2, <1>3

LEMMA CommitCountsRight ==
    ASSUME DeskInv, CountsInv, NEW r \in Requests, CommitReconcile(r)
    PROVE  CountsInv'
  <1> DEFINE d == tills[r].drawer
  <1>1. /\ d \in Drawers /\ counts' = [counts EXCEPT ![d] = Reconciliation(tills[r].sums)]
        /\ tills[r].stage = "counted"
        /\ UNCHANGED <<takings, disturbed>>
        /\ \A q \in Requests : tills'[q] = IF q = r THEN Resting ELSE tills[q]
        /\ drawers'[d].status = "closed"
        /\ \A e \in Drawers \ {d} : drawers'[e] = drawers[e]
    BY ClosedBy, FinishedRows DEF CommitReconcile, DeskInv
  <1> HIDE DEF d
  <1>2. \A e \in Drawers : counts'[e] = IF e = d THEN Reconciliation(tills[r].sums) ELSE counts[e]
    BY <1>1 DEF DeskInv, DrawerTypeOK
  <1>3. d \notin disturbed => tills[r].sums = takings[d]
    BY <1>1 DEF CountsInv, d
  <1>4. \A e \in Drawers : drawers[e].status = "closed" => drawers'[e].status = "closed"
    BY <1>1
  <1>5. \A e \in Drawers : counts'[e].made => drawers'[e].status = "closed"
    BY <1>1, <1>2 DEF CountsInv
  <1>6. \A e \in Drawers \ disturbed : counts'[e].made => counts'[e] = Reconciliation(takings[e])
    BY <1>2, <1>3 DEF CountsInv
  <1>7. \A q \in Requests : tills'[q].stage \in {"counting", "counted"} => tills'[q] = tills[q]
    BY <1>1, RestingRow
  <1> QED
    BY <1>1, <1>5, <1>6, <1>7, RestingRow DEF CountsInv

\* Money that moves at a drawer that is closed or being counted is remembered.
LEMMA BookingDisturbs ==
    ASSUME DeskInv, CountsInv, NEW r \in Requests, Finish(r), UNCHANGED <<drawers, counts>>,
           NEW e \in Drawers, NEW sums \in Sums, Book(e, sums)
    PROVE  CountsInv'
  <1>1. \A q \in Requests : tills'[q].stage \in {"counting", "counted"} => tills'[q] = tills[q]
    BY FinishedRows, RestingRow DEF DeskInv
  <1>2. /\ \A d \in Drawers : takings'[d] = IF d = e THEN sums ELSE takings[d]
        /\ disturbed \subseteq disturbed'
        /\ e \notin disturbed' => ~Counting(e) /\ drawers[e].status # "closed"
    BY DEF Book, DeskInv, DrawerTypeOK
  <1>3. \A d \in Drawers \ disturbed' : counts[d].made => counts[d] = Reconciliation(takings'[d])
    BY <1>2 DEF CountsInv
  <1>4. ASSUME NEW q \in Requests, tills[q].drawer \in Drawers \ disturbed',
               tills[q].stage \in {"counting", "counted"}
        PROVE  takings'[tills[q].drawer] = takings[tills[q].drawer]
    BY <1>2, <1>4 DEF Counting
  <1> QED
    BY <1>1, <1>2, <1>3, <1>4 DEF CountsInv

\* What a payment and a refund book.
Settled(t, amount) == IF tabs[t].paid + amount >= Price THEN Price ELSE 0

LEMMA PaymentBooks ==
    ASSUME DeskInv, NEW r \in Requests, NEW amount \in Coins, NEW method \in {"cash", "card"},
           CommitPaying(r, amount, method)
    PROVE  \E a \in Nat, b \in Nat, t \in Tabs, d \in Drawers :
              /\ a + b = amount /\ d = tabs[t].drawer /\ tabs[t].status = "pending"
              /\ Sold(takings[d], a, b, Settled(t, amount)) \in Sums
              /\ Book(d, Sold(takings[d], a, b, Settled(t, amount)))
              /\ tabs' = [tabs EXCEPT ![t] = Paid(t, amount)]
              /\ Finish(r) /\ UNCHANGED <<drawers, counts>>
  <1> DEFINE t == tills[r].tab
             d == tabs[t].drawer
             a == IF method = "cash" THEN amount ELSE 0
             b == IF method = "card" THEN amount ELSE 0
  <1>1. /\ t \in Tabs /\ d \in Drawers /\ tabs[t].status = "pending"
        /\ Finish(r)
        /\ tabs' = [tabs EXCEPT ![t] = Paid(t, amount)]
        /\ Book(d, Sold(takings[d], a, b, Settled(t, amount)))
        /\ UNCHANGED <<drawers, counts>>
    BY PayingFields DEF Settled
  <1>2. /\ amount \in Nat /\ a \in Nat /\ b \in Nat /\ Settled(t, amount) \in Nat
        /\ takings[d] \in Sums /\ a + b = amount
    BY <1>1, TakingFields, TabFields, CashDrawerAssumption DEF DeskInv, Settled
  <1> HIDE DEF a, b
  <1>3. Sold(takings[d], a, b, Settled(t, amount)) \in Sums
    BY <1>2, SoldSums
  <1> HIDE DEF t
  <1> QED
    BY <1>1, <1>2, <1>3

LEMMA RefundBooks ==
    ASSUME DeskInv, NEW r \in Requests, NEW method \in {"cash", "card"}, CommitRefunding(r, method)
    PROVE  \E a \in Nat, b \in Nat, t \in Tabs, d \in Drawers :
              /\ d = tabs[t].drawer /\ tabs[t].status = "completed"
              /\ Repaid(takings[d], a, b) \in Sums /\ Book(d, Repaid(takings[d], a, b))
              /\ tabs' = [tabs EXCEPT ![t] = [tabs[t] EXCEPT !.refunded = TRUE]]
              /\ Finish(r) /\ UNCHANGED <<drawers, counts>>
  <1> DEFINE t == tills[r].tab
             d == tabs[t].drawer
             a == IF method = "cash" THEN Price ELSE 0
             b == IF method = "card" THEN Price ELSE 0
  <1>1. tills[r].stage = "refunding"
    BY DEF CommitRefunding
  <1>2. t \in Tabs /\ d \in Drawers /\ tabs[t].status = "completed"
    BY <1>1, CommitFields
  <1>3. Book(d, Repaid(takings[d], a, b))
    BY DEF CommitRefunding, Repaid
  <1>4. /\ Finish(r) /\ UNCHANGED <<drawers, counts>>
        /\ tabs' = [tabs EXCEPT ![t] = [tabs[t] EXCEPT !.refunded = TRUE]]
    BY DEF CommitRefunding
  <1>5. a \in Nat /\ b \in Nat /\ takings[d] \in Sums
    BY <1>2, TakingFields, TabFields DEF DeskInv
  <1> HIDE DEF a, b
  <1>6. Repaid(takings[d], a, b) \in Sums
    BY <1>5, RepaidSums
  <1> HIDE DEF t
  <1> QED
    BY <1>2, <1>3, <1>4, <1>5, <1>6

LEMMA CountsNextKeep ==
    ASSUME DeskInv, CountsInv, [DrawerNext]_drawerVars
    PROVE  CountsInv'
  <1>0. DrawerTypeOK
    BY DEF DeskInv
  <1>1. CASE UNCHANGED drawerVars
    BY <1>1 DEF drawerVars, CountsInv
  <1>2. ASSUME NEW r \in Requests, NEW c \in Cashiers, StartOpening(r, c)
        PROVE  CountsInv'
    <2>1. /\ \A q \in Requests : tills'[q] = IF q = r THEN Fresh("opening", c, NoDrawer, NoTab)
                                             ELSE tills[q]
          /\ Fresh("opening", c, NoDrawer, NoTab).stage = "opening"
      BY <1>0, <1>2, BegunRows DEF StartOpening
    <2>2. UNCHANGED <<drawers, counts, takings, disturbed>>
      BY <1>2 DEF StartOpening
    <2> QED
      BY <2>1, <2>2, NothingCounted
  <1>3. ASSUME NEW r \in Requests, BeginsWork(r)
        PROVE  CountsInv'
    <2>1. PICK c \in Cashiers, d \in Drawers \cup {NoDrawer}, t \in Tabs \cup {NoTab},
               stage \in {"closing", "seen", "ordering", "paying", "cancelling", "refunding"} :
             Begin(r, stage, c, d, t)
      BY <1>3 DEF BeginsWork
    <2>2. /\ \A q \in Requests : tills'[q] = IF q = r THEN Fresh(stage, c, d, t) ELSE tills[q]
          /\ Fresh(stage, c, d, t).stage = stage
      BY <1>0, <2>1, BegunRows
    <2>3. UNCHANGED <<drawers, counts, takings, disturbed>>
      BY <1>3 DEF BeginsWork
    <2> QED
      BY <2>2, <2>3, NothingCounted
  <1>4. ASSUME NEW r \in Requests, NEW e \in Drawers, InsertDrawer(r, e)
        PROVE  CountsInv'
    <2>1. \A q \in Requests : \/ tills'[q].stage = "idle"
                              \/ tills'[q].stage = "opening"
                              \/ tills'[q] = tills[q]
      BY <1>0, <1>4, RestingRow DEF InsertDrawer, DrawerTypeOK
    <2>2. \A d \in Drawers : drawers[d].status = "closed" => drawers'[d].status = "closed"
      BY <1>0, <1>4 DEF InsertDrawer, DrawerTypeOK
    <2>3. UNCHANGED <<counts, takings, disturbed>>
      BY <1>4 DEF InsertDrawer
    <2> QED
      BY <2>1, <2>2, <2>3, NothingCounted
  <1>5. ASSUME NEW r \in Requests,
               \/ CloseDrawer(r) \/ AlreadyReconciled(r) \/ InsertTab(r) \/ CommitCancelling(r)
        PROVE  CountsInv'
    <2>1. Finish(r) /\ UNCHANGED <<counts, takings, disturbed>>
      BY <1>5 DEF CloseDrawer, AlreadyReconciled, InsertTab, CommitCancelling
    <2>2. \A d \in Drawers : drawers[d].status = "closed" => drawers'[d].status = "closed"
      BY <1>5, ClosedBy DEF AlreadyReconciled, InsertTab, CommitCancelling
    <2> QED
      BY <1>0, <2>1, <2>2, FinishedRows, RestingRow, NothingCounted
  <1>6. ASSUME NEW r \in Requests, NEW amount \in Coins, NEW method \in {"cash", "card"},
               CommitPaying(r, amount, method)
        PROVE  CountsInv'
    BY <1>6, PaymentBooks, BookingDisturbs
  <1>7. ASSUME NEW r \in Requests, NEW method \in {"cash", "card"}, CommitRefunding(r, method)
        PROVE  CountsInv'
    BY <1>7, RefundBooks, BookingDisturbs
  <1>8. CASE DrawerNext
    BY <1>2, <1>3, <1>4, <1>5, <1>6, <1>7, <1>8, StepCases, ReadsCountRight, CommitCountsRight
  <1> QED
    BY <1>1, <1>8

-----------------------------------------------------------------------------
(* What the drawers took *)

\* What was tendered at a drawer is its sales and what its tabs left beyond them.
TakingsAddUp ==
    \A d \in Drawers :
       takings[d].cash + takings[d].card
         = takings[d].gross + SumFunctionOnSet([t \in Tabs |-> Unsold(t)], TabsOf(d))

LEMMA SameTakings ==
    ASSUME TakingsAddUp,
           \A d \in Drawers : /\ takings'[d].cash = takings[d].cash
                              /\ takings'[d].card = takings[d].card
                              /\ takings'[d].gross = takings[d].gross,
           \A t \in Tabs : tabs'[t].drawer = tabs[t].drawer /\ Unsold(t)' = Unsold(t)
    PROVE  TakingsAddUp'
  <1>1. \A d \in Drawers : TabsOf(d)' = TabsOf(d)
    BY DEF TabsOf
  <1>2. [t \in Tabs |-> Unsold(t)]' = [t \in Tabs |-> Unsold(t)]
    OBVIOUS
  <1> QED
    BY <1>1, <1>2 DEF TakingsAddUp

LEMMA NewTabAddsNothing ==
    ASSUME DeskInv, TakingsAddUp, NEW r \in Requests, InsertTab(r)
    PROVE  TakingsAddUp'
  <1> DEFINE t == tills[r].tab
             f == [u \in Tabs |-> Unsold(u)]
  <1>1. /\ t \in Tabs /\ tabs[t].status = "absent" /\ tabs[t].drawer = NoDrawer
        /\ tabs[t].paid = 0 /\ tabs' = [tabs EXCEPT ![t] = NewTab(r)]
        /\ tills[r].drawer \in Drawers /\ takings' = takings
    BY CommitFields DEF InsertTab, NewTab
  <1>2. /\ NewTab(r).drawer = tills[r].drawer /\ NewTab(r).paid = 0
        /\ NewTab(r).status = "pending"
    BY DEF NewTab
  <1>3. \A u \in Tabs : tabs'[u] = IF u = t THEN NewTab(r) ELSE tabs[u]
    BY <1>1 DEF DeskInv, DrawerTypeOK
  <1> HIDE DEF t
  <1>4. \A u \in Tabs : Unsold(u)' = Unsold(u) /\ Unsold(u) \in Nat
    BY <1>1, <1>2, <1>3, TabFields DEF Unsold, ChangeOf, DeskInv
  <1>5. f' = f /\ \A u \in Tabs : f[u] = Unsold(u)
    BY <1>4
  <1>6. Unsold(t) = 0
    BY <1>1 DEF Unsold
  <1> SUFFICES ASSUME NEW d \in Drawers
               PROVE  SumFunctionOnSet(f, TabsOf(d)') = SumFunctionOnSet(f, TabsOf(d))
    BY <1>1, <1>5 DEF TakingsAddUp
  <1> HIDE DEF f
  <1>7. CASE d # tills[r].drawer
    <2>1. TabsOf(d)' = TabsOf(d)
      BY <1>1, <1>2, <1>3, <1>7, NoTabIsNone DEF TabsOf
    <2> QED
      BY <2>1
  <1>8. CASE d = tills[r].drawer
    <2>1. TabsOf(d)' = TabsOf(d) \cup {t} /\ t \notin TabsOf(d)
      BY <1>1, <1>2, <1>3, <1>8, NoTabIsNone DEF TabsOf
    <2>2. IsFiniteSet(TabsOf(d)) /\ TabsOf(d) \subseteq Tabs
      BY <1>1, TabFields, FS_Subset DEF TabsOf, DeskInv
    <2>3. /\ SumFunctionOnSet(f, TabsOf(d) \cup {t}) = SumFunctionOnSet(f, TabsOf(d)) + f[t]
          /\ SumFunctionOnSet(f, TabsOf(d)) \in Int
      BY <1>1, <1>4, <1>5, <2>1, <2>2, SumAdd, SumType
    <2> QED
      BY <1>1, <1>5, <1>6, <2>1, <2>3
  <1> QED
    BY <1>7, <1>8

LEMMA PaymentAddsUp ==
    ASSUME DeskInv, TakingsAddUp, NEW r \in Requests, NEW amount \in Coins,
           NEW method \in {"cash", "card"}, CommitPaying(r, amount, method)
    PROVE  TakingsAddUp'
  <1>1. PICK a \in Nat, b \in Nat, t \in Tabs, d \in Drawers :
           /\ a + b = amount /\ d = tabs[t].drawer /\ tabs[t].status = "pending"
           /\ Book(d, Sold(takings[d], a, b, Settled(t, amount)))
           /\ Sold(takings[d], a, b, Settled(t, amount)) \in Sums
           /\ tabs' = [tabs EXCEPT ![t] = Paid(t, amount)]
    BY PaymentBooks
  <1> DEFINE f == [u \in Tabs |-> Unsold(u)]
             g == [u \in Tabs |-> Unsold(u)']
             sums == Sold(takings[d], a, b, Settled(t, amount))
  <1>2. /\ tabs[t] \in TabRows /\ tabs[t].paid \in Nat /\ amount \in Nat /\ Price \in Nat
        /\ takings[d] \in Sums /\ Settled(t, amount) \in Nat /\ DrawerTypeOK /\ DrawerTypeOK'
    BY TabFields, TakingFields, CashDrawerAssumption, CommitPayingKeeps DEF DeskInv, Settled
  <1>3. /\ Paid(t, amount).paid = tabs[t].paid + amount
        /\ Paid(t, amount).drawer = d
        /\ Paid(t, amount).status = IF tabs[t].paid + amount >= Price
                                    THEN "completed" ELSE "pending"
    BY <1>1, <1>2, PaidTab
  <1>4. \A u \in Tabs : tabs'[u] = IF u = t THEN Paid(t, amount) ELSE tabs[u]
    BY <1>1, <1>2 DEF DrawerTypeOK
  <1>5. \A e \in Drawers : takings'[e] = IF e = d THEN sums ELSE takings[e]
    BY <1>1, BookTypes, <1>2 DEF DrawerTypeOK
  <1>6. /\ sums.cash = takings[d].cash + a /\ sums.card = takings[d].card + b
        /\ sums.gross = takings[d].gross + Settled(t, amount)
    <2>1. takings[d] \in Sums /\ Settled(t, amount) \in Nat
      BY <1>2
    <2> DEFINE s == Settled(t, amount)
               old == takings[d]
    <2>2. old \in Sums /\ s \in Nat
      BY <2>1
    <2> HIDE DEF s, old
    <2>3. /\ Sold(old, a, b, s).cash = old.cash + a /\ Sold(old, a, b, s).card = old.card + b
          /\ Sold(old, a, b, s).gross = old.gross + s
      BY <2>2, SoldSums
    <2> QED
      BY <2>3 DEF s, old
  <1> HIDE DEF sums
  <1>7. \A e \in Drawers : TabsOf(e)' = TabsOf(e)
    BY <1>1, <1>3, <1>4 DEF TabsOf
  <1>8. \A u \in Tabs : Unsold(u) \in Nat /\ Unsold(u)' \in Nat
    <2>1. \A u \in Tabs : tabs[u].paid \in Nat /\ tabs'[u].paid \in Nat
      BY <1>2 DEF DrawerTypeOK
    <2> QED
      BY <1>2, <2>1 DEF Unsold, ChangeOf
  <1>9. \A u \in Tabs \ {t} : Unsold(u)' = Unsold(u)
    BY <1>4 DEF Unsold, ChangeOf
  <1>10. Unsold(t)' + Settled(t, amount) = Unsold(t) + amount
    BY <1>1, <1>2, <1>3, <1>4 DEF Unsold, ChangeOf, Settled
  <1>11. /\ \A u \in Tabs : f[u] = Unsold(u) /\ g[u] = Unsold(u)'
         /\ [u \in Tabs |-> Unsold(u)]' = g
    OBVIOUS
  <1> HIDE DEF f, g
  <1>12. ASSUME NEW e \in Drawers
         PROVE  takings'[e].cash + takings'[e].card
                  = takings'[e].gross + SumFunctionOnSet(g, TabsOf(e))
    <2>1. /\ TabsOf(e) \subseteq Tabs /\ IsFiniteSet(TabsOf(e))
          /\ takings[e].cash \in Nat /\ takings[e].card \in Nat /\ takings[e].gross \in Nat
      BY <1>2, TabFields, TakingFields, FS_Subset DEF TabsOf
    <2>2. /\ takings[e].cash + takings[e].card = takings[e].gross + SumFunctionOnSet(f, TabsOf(e))
          /\ SumFunctionOnSet(f, TabsOf(e)) \in Int
      BY <1>8, <1>11, <2>1, SumType DEF TakingsAddUp, f
    <2>3. CASE e = d
      <3>1. t \in TabsOf(e)
        BY <1>1, <2>3 DEF TabsOf
      <3>2. SumFunctionOnSet(g, TabsOf(e)) = SumFunctionOnSet(f, TabsOf(e)) + (g[t] - f[t])
        BY <1>8, <1>9, <1>11, <2>1, <3>1, SumUpdate
      <3>3. g[t] + Settled(t, amount) = f[t] + amount /\ g[t] \in Nat /\ f[t] \in Nat
        BY <1>8, <1>10, <1>11
      <3>4. takings'[e] = sums
        BY <1>5, <2>3
      <3>5. /\ takings'[e].cash = takings[e].cash + a /\ takings'[e].card = takings[e].card + b
            /\ takings'[e].gross = takings[e].gross + Settled(t, amount)
        BY <1>6, <2>3, <3>4
      <3> DEFINE before == SumFunctionOnSet(f, TabsOf(e))
                 after == SumFunctionOnSet(g, TabsOf(e))
                 s == Settled(t, amount)
      <3>6. /\ takings[e].cash + takings[e].card = takings[e].gross + before
            /\ before \in Int /\ s \in Nat /\ a + b = amount
            /\ after = before + (g[t] - f[t]) /\ g[t] + s = f[t] + amount
        BY <1>1, <1>2, <2>2, <3>2, <3>3
      <3> HIDE DEF before, after, s
      <3>7. takings[e].cash + a + (takings[e].card + b) = takings[e].gross + s + after
        BY <2>1, <3>3, <3>6
      <3> QED
        BY <3>5, <3>7 DEF s, after
    <2>4. CASE e # d
      <3>1. t \notin TabsOf(e)
        BY <1>1, <2>4 DEF TabsOf
      <3>2. SumFunctionOnSet(f, TabsOf(e)) = SumFunctionOnSet(g, TabsOf(e))
        BY <1>9, <1>11, <2>1, <3>1, SumSame
      <3> QED
        BY <1>5, <2>2, <2>4, <3>2
    <2> QED
      BY <2>3, <2>4
  <1> QED
    BY <1>7, <1>11, <1>12 DEF TakingsAddUp

LEMMA RefundAddsNothing ==
    ASSUME DeskInv, TakingsAddUp, NEW r \in Requests, NEW method \in {"cash", "card"},
           CommitRefunding(r, method)
    PROVE  TakingsAddUp'
  <1>1. PICK a \in Nat, b \in Nat, t \in Tabs, d \in Drawers :
           /\ d = tabs[t].drawer
           /\ Repaid(takings[d], a, b) \in Sums /\ Book(d, Repaid(takings[d], a, b))
           /\ tabs' = [tabs EXCEPT ![t] = [tabs[t] EXCEPT !.refunded = TRUE]]
    BY RefundBooks
  <1>2. takings[d] \in Sums /\ tabs[t] \in TabRows
    BY TakingFields, TabFields DEF DeskInv
  <1>3. \A e \in Drawers : takings'[e] = IF e = d THEN Repaid(takings[d], a, b) ELSE takings[e]
    BY <1>1, BookTypes DEF DeskInv, DrawerTypeOK
  <1>4. \A e \in Drawers : /\ takings'[e].cash = takings[e].cash
                           /\ takings'[e].card = takings[e].card
                           /\ takings'[e].gross = takings[e].gross
    BY <1>2, <1>3, RepaidSums
  <1>5. \A u \in Tabs : /\ tabs'[u].drawer = tabs[u].drawer /\ tabs'[u].paid = tabs[u].paid
                        /\ tabs'[u].status = tabs[u].status
    BY <1>1 DEF DeskInv, DrawerTypeOK
  <1>6. \A u \in Tabs : Unsold(u)' = Unsold(u)
    BY <1>5 DEF Unsold, ChangeOf
  <1> QED
    BY <1>4, <1>5, <1>6, SameTakings

LEMMA CancellingAddsNothing ==
    ASSUME DeskInv, TakingsAddUp, NEW r \in Requests, CommitCancelling(r)
    PROVE  TakingsAddUp'
  <1> DEFINE t == tills[r].tab
  <1>1. /\ t \in Tabs /\ tabs[t].status = "pending" /\ takings' = takings
        /\ tabs' = [tabs EXCEPT ![t] = [tabs[t] EXCEPT !.status = "cancelled"]]
    BY CommitFields DEF CommitCancelling
  <1> HIDE DEF t
  <1>2. \A u \in Tabs : /\ tabs'[u].drawer = tabs[u].drawer /\ tabs'[u].paid = tabs[u].paid
                        /\ tabs'[u].status = "completed" <=> tabs[u].status = "completed"
    BY <1>1 DEF DeskInv, DrawerTypeOK
  <1>3. \A u \in Tabs : Unsold(u)' = Unsold(u)
    BY <1>2 DEF Unsold, ChangeOf
  <1> QED
    BY <1>1, <1>2, <1>3, SameTakings

LEMMA TakingsNextAddUp ==
    ASSUME DeskInv, TakingsAddUp, [DrawerNext]_drawerVars
    PROVE  TakingsAddUp'
  <1>1. ASSUME UNCHANGED <<takings, tabs>> PROVE TakingsAddUp'
    BY <1>1, SameTakings DEF Unsold, ChangeOf
  <1>2. ASSUME NEW r \in Requests,
               \/ \E c \in Cashiers : StartOpening(r, c)
               \/ BeginsWork(r) \/ ReadSales(r) \/ ReadRefunds(r) \/ AlreadyReconciled(r)
               \/ CloseDrawer(r) \/ CommitReconcile(r) \/ \E d \in Drawers : InsertDrawer(r, d)
        PROVE  UNCHANGED <<takings, tabs>>
    BY <1>2 DEF StartOpening, BeginsWork, ReadSales, ReadRefunds, AlreadyReconciled, CloseDrawer,
                CommitReconcile, InsertDrawer
  <1>3. CASE UNCHANGED drawerVars
    BY <1>1, <1>3 DEF drawerVars
  <1>4. CASE DrawerNext
    BY <1>1, <1>2, <1>4, StepCases, NewTabAddsNothing, PaymentAddsUp, RefundAddsNothing,
       CancellingAddsNothing
  <1> QED
    BY <1>3, <1>4

LEMMA CountsStartRight == DrawerInit => CountsInv /\ TakingsAddUp
  <1> SUFFICES ASSUME DrawerInit PROVE CountsInv /\ TakingsAddUp
    OBVIOUS
  <1>1. CountsInv
    BY RestingRow DEF DrawerInit, CountsInv, NoCount
  <1>2. ASSUME NEW d \in Drawers PROVE TabsOf(d) = {}
    BY NoTabIsNone DEF TabsOf, DrawerInit
  <1>3. TakingsAddUp
    BY <1>2, SumEmpty DEF TakingsAddUp, DrawerInit, NoTakings
  <1> QED
    BY <1>1, <1>3

\* The counts of undisturbed drawers, for any number of drawers, orders, amounts
\* and requests: what the count's queries read one after the other adds up.
THEOREM QuietCounts == DrawerSpec => []QuietCountsAreRight
  <1>1. DeskInv /\ CountsInv /\ TakingsAddUp => QuietCountsAreRight
    <2> SUFFICES ASSUME DeskInv, CountsInv, TakingsAddUp,
                        NEW d \in Drawers \ disturbed, counts[d].made
                 PROVE  LET sum == SumFunctionOnSet([t \in Tabs |-> Unsold(t)], TabsOf(d))
                        IN  /\ counts[d].cash + counts[d].card + takings[d].cashBack
                                 + takings[d].cardBack = Float + counts[d].gross + sum
                            /\ counts[d].card = takings[d].card - takings[d].cardBack
                            /\ counts[d].gross = takings[d].gross
      BY DEF QuietCountsAreRight
    <2> DEFINE sum == SumFunctionOnSet([t \in Tabs |-> Unsold(t)], TabsOf(d))
    <2>1. /\ counts[d].cash = Float + takings[d].cash - takings[d].cashBack
          /\ counts[d].card = takings[d].card - takings[d].cardBack
          /\ counts[d].gross = takings[d].gross
      <3>1. counts[d] = Reconciliation(takings[d])
        BY DEF CountsInv
      <3> QED
        BY <3>1 DEF Reconciliation
    <2>2. takings[d].cash + takings[d].card = takings[d].gross + sum
      BY DEF TakingsAddUp
    <2>3. sum \in Int
      <3> DEFINE f == [t \in Tabs |-> Unsold(t)]
      <3>1. IsFiniteSet(TabsOf(d)) /\ \A t \in TabsOf(d) : f[t] \in Int
        BY TabFields, CashDrawerAssumption, FS_Subset DEF TabsOf, DeskInv
      <3> HIDE DEF f
      <3>2. SumFunctionOnSet(f, TabsOf(d)) \in Int
        BY <3>1, SumType
      <3> QED
        BY <3>2 DEF f
    <2>4. /\ takings[d].cash \in Nat /\ takings[d].card \in Nat /\ takings[d].gross \in Nat
          /\ takings[d].cashBack \in Nat /\ takings[d].cardBack \in Nat /\ Float \in Nat
      BY TakingFields, CashDrawerAssumption DEF DeskInv
    <2> HIDE DEF sum
    <2>5. counts[d].cash + counts[d].card + takings[d].cashBack + takings[d].cardBack
            = Float + counts[d].gross + sum
      BY <2>1, <2>2, <2>3, <2>4
    <2> QED
      BY <2>1, <2>5 DEF sum
  <1>2. DeskInv /\ CountsInv /\ [DrawerNext]_drawerVars => CountsInv'
    BY CountsNextKeep
  <1>3. DeskInv /\ TakingsAddUp /\ [DrawerNext]_drawerVars => TakingsAddUp'
    BY TakingsNextAddUp
  <1> QED
    BY <1>1, <1>2, <1>3, CountsStartRight, DeskIsRight, PTL DEF DrawerSpec
=============================================================================
