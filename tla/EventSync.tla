----------------------------- MODULE EventSync ------------------------------
(***************************************************************************)
(* POST /sync/events/batch: a terminal replays the events it recorded      *)
(* while offline.  Each event is looked up in the log, applied in a        *)
(* transaction of its own and then logged in another, so that the server   *)
(* may die between the two, two deliveries of one event may overlap, and a *)
(* reply may be lost.                                                      *)
(***************************************************************************)
EXTENDS Naturals, Sequences, SequencesExt

CONSTANTS
    Events,      \* client_event_ids
    Kind,        \* event_type of each
    Malformed,   \* events whose payload lacks a field or fails its schema
    Replays,     \* the batches a terminal may send
    Deliveries,  \* requests in the server
    MaxSends,    \* bounds: batches sent,
    MaxShifts    \* and times the cashier's drawer or role changes

Kinds == {"order_create", "order_add_payment", "refund_create", "order_location_update"}

ASSUME EventSyncAssumption ==
    /\ Kind \in [Events -> Kinds]
    /\ Malformed \subseteq Events
    /\ Replays \subseteq Seq(Events) \ {<<>>}
    /\ MaxSends \in Nat /\ MaxShifts \in Nat

VARIABLES
    logged,    \* sync_event_logs: the status logged for each event
    effects,   \* how often each event has been applied
    delivery,  \* what each request is doing, and its replies so far
    heard,     \* what the terminal knows of each event
    drawer,    \* is the cashier's drawer open
    permitted, \* does the cashier's role hold orders:track
    tracked,   \* location events whose order is being tracked
    sends, shifts,
    overlaps,  \* history: events two deliveries were processing at once,
    unlogged   \* and events applied by a delivery that ended before logging them

syncVars == <<logged, effects, delivery, heard, drawer, permitted, tracked, sends, shifts,
              overlaps, unlogged>>

Free == [queue |-> <<>>, stage |-> "free", results |-> [e \in Events |-> "none"]]
Statuses == {"none", "success", "failed", "duplicate"}

Requested == [queue : Seq(Events),
              stage : {"free", "next", "new", "working", "applied", "refused"},
              results : [Events -> Statuses]]

SyncTypeOK ==
    /\ logged \in [Events -> {"none", "success", "failed"}]
    /\ effects \in [Events -> Nat]
    /\ delivery \in [Deliveries -> Requested]
    /\ heard \in [Events -> Statuses]
    /\ drawer \in {"open", "closed"}
    /\ sends \in 0..MaxSends /\ shifts \in 0..MaxShifts
    /\ permitted \in BOOLEAN
    /\ tracked \subseteq Events /\ overlaps \subseteq Events /\ unlogged \subseteq Events

SyncInit ==
    /\ logged = [e \in Events |-> "none"]
    /\ effects = [e \in Events |-> 0]
    /\ delivery = [d \in Deliveries |-> Free]
    /\ heard = [e \in Events |-> "none"]
    /\ drawer = "open" /\ permitted = TRUE
    /\ sends = 0 /\ shifts = 0
    /\ tracked = {} /\ overlaps = {} /\ unlogged = {}

Busy(d) == delivery[d].stage \in {"new", "working", "applied", "refused"}
Event(d) == Head(delivery[d].queue)
At(d, stage) == delivery[d].stage = stage
Go(d, stage) == delivery' = [delivery EXCEPT ![d].stage = stage]

\* The event has its result; on to the next one of the batch.
Answer(d, status) ==
    delivery' = [delivery EXCEPT ![d] = [queue |-> Tail(@.queue), stage |-> "next",
                                         results |-> [@.results EXCEPT ![Event(d)] = status]]]
-----------------------------------------------------------------------------
(* The terminal *)

\* An event that names an order needs its id, which the terminal has from the
\* reply to the order's own event.
Sendable(e) == Kind[e] = "order_create"
               \/ \E o \in Events : Kind[o] = "order_create" /\ heard[o] = "success"

\* Events without an answer are sent, again if need be.
SendBatch(d, batch) ==
    /\ At(d, "free") /\ sends < MaxSends
    /\ \A i \in DOMAIN batch : Sendable(batch[i]) /\ heard[batch[i]] = "none"
    /\ delivery' = [delivery EXCEPT ![d] = [Free EXCEPT !.queue = batch, !.stage = "next"]]
    /\ sends' = sends + 1
    /\ UNCHANGED <<logged, effects, heard, drawer, permitted, tracked, shifts, overlaps, unlogged>>

\* A duplicate of what succeeded names its resource, so it counts as success.
Understood(e, status) ==
    IF status = "duplicate" THEN logged[e] ELSE status

HearReply(d) ==
    /\ At(d, "next") /\ delivery[d].queue = <<>>
    /\ heard' = [e \in Events |-> IF delivery[d].results[e] = "none" THEN heard[e]
                                  ELSE Understood(e, delivery[d].results[e])]
    /\ delivery' = [delivery EXCEPT ![d] = Free]
    /\ UNCHANGED <<logged, effects, drawer, permitted, tracked, sends, shifts, overlaps, unlogged>>

\* The reply is lost, or the server dies at any point of the request, or the
\* request ends with 500 (a location that is no number).
LoseRequest(d) ==
    /\ ~At(d, "free")
    /\ delivery' = [delivery EXCEPT ![d] = Free]
    /\ unlogged' = unlogged \cup (IF At(d, "applied") THEN {Event(d)} ELSE {})
    /\ UNCHANGED <<logged, effects, heard, drawer, permitted, tracked, sends, shifts, overlaps>>

ShiftDrawer ==
    /\ shifts < MaxShifts /\ shifts' = shifts + 1
    /\ drawer' = IF drawer = "open" THEN "closed" ELSE "open"
    /\ UNCHANGED <<logged, effects, delivery, heard, permitted, tracked, sends, overlaps, unlogged>>

\* The cashier is given or loses a role.
ShiftRole ==
    /\ shifts < MaxShifts /\ shifts' = shifts + 1
    /\ permitted' = ~permitted
    /\ UNCHANGED <<logged, effects, delivery, heard, drawer, tracked, sends, overlaps, unlogged>>

\* The trip of an event's order is assigned; an order tracked once stays so.
AssignTrip(e) ==
    /\ Kind[e] = "order_location_update" /\ e \notin tracked
    /\ \E o \in Events : Kind[o] = "order_create" /\ effects[o] > 0
    /\ tracked' = tracked \cup {e}
    /\ UNCHANGED <<logged, effects, delivery, heard, drawer, permitted, sends, shifts, overlaps,
                   unlogged>>
-----------------------------------------------------------------------------
(* The server *)

\* The event is in the log already.
FindLogged(d) ==
    /\ At(d, "next") /\ delivery[d].queue # <<>> /\ logged[Event(d)] # "none"
    /\ Answer(d, "duplicate")
    /\ UNCHANGED <<logged, effects, heard, drawer, permitted, tracked, sends, shifts,
                   overlaps, unlogged>>

FindNew(d) ==
    /\ At(d, "next") /\ delivery[d].queue # <<>> /\ logged[Event(d)] = "none"
    /\ Go(d, "new")
    /\ overlaps' = IF \E q \in Deliveries \ {d} : Busy(q) /\ Event(q) = Event(d)
                   THEN overlaps \cup {Event(d)} ELSE overlaps
    /\ UNCHANGED <<logged, effects, heard, drawer, permitted, tracked, sends, shifts, unlogged>>

\* Locations are appended without a key.
Keyed(e) == Kind[e] # "order_location_update"

\* Mutant: the service does not look for the event's key first.
FindByKeyNever(d) ==
    /\ At(d, "new")
    /\ Go(d, "working")
    /\ UNCHANGED <<logged, effects, heard, drawer, permitted, tracked, sends, shifts,
                   overlaps, unlogged>>

\* create_order, add_payment_to_order and create_refund return what the event's
\* idempotency key made before.
FindByKey(d) ==
    /\ At(d, "new")
    /\ Go(d, IF Keyed(Event(d)) /\ effects[Event(d)] > 0 THEN "applied" ELSE "working")
    /\ UNCHANGED <<logged, effects, heard, drawer, permitted, tracked, sends, shifts,
                   overlaps, unlogged>>

\* A location is taken from a cashier who may track, for a tracked order; every
\* sale needs an open drawer, and a payment is refused once the order is settled,
\* a refund once there is nothing left to refund.
Accepts(e) ==
    /\ e \notin Malformed
    /\ ~Keyed(e) => permitted /\ e \in tracked
    /\ Keyed(e) => drawer = "open"
    /\ Kind[e] \in {"order_add_payment", "refund_create"} => effects[e] = 0

\* Mutant: the key is not passed on, so that no constraint finds it used.
ApplyWithoutKey(d) ==
    /\ At(d, "working") /\ Accepts(Event(d))
    /\ effects' = [effects EXCEPT ![Event(d)] = @ + 1]
    /\ Go(d, "applied")
    /\ UNCHANGED <<logged, heard, drawer, permitted, tracked, sends, shifts,
                   overlaps, unlogged>>

\* _process_event: the service commits.
Apply(d) ==
    /\ At(d, "working") /\ Accepts(Event(d))
    /\ Keyed(Event(d)) => effects[Event(d)] = 0
    /\ effects' = [effects EXCEPT ![Event(d)] = @ + 1]
    /\ Go(d, "applied")
    /\ UNCHANGED <<logged, heard, drawer, permitted, tracked, sends, shifts,
                   overlaps, unlogged>>

\* Another delivery has used the key since it was looked up.
KeyConflict(d) ==
    /\ At(d, "working") /\ Accepts(Event(d))
    /\ Keyed(Event(d)) /\ effects[Event(d)] > 0
    /\ Answer(d, IF logged[Event(d)] # "none" THEN "duplicate" ELSE "failed")
    /\ UNCHANGED <<logged, effects, heard, drawer, permitted, tracked, sends, shifts,
                   overlaps, unlogged>>

\* HTTPException or ValidationError: rolled back.  A sale, payment or refund is
\* also refused for what is modelled elsewhere (stock, points, amounts).
Refuse(d) ==
    /\ At(d, "working")
    /\ Keyed(Event(d)) \/ ~Accepts(Event(d))
    /\ Go(d, "refused")
    /\ UNCHANGED <<logged, effects, heard, drawer, permitted, tracked, sends, shifts,
                   overlaps, unlogged>>

\* The log's unique constraint turns the second row into a duplicate.
LogSuccess(d) ==
    LET e == Event(d)
    IN  /\ At(d, "applied")
        /\ logged' = [logged EXCEPT ![e] = IF @ = "none" THEN "success" ELSE @]
        /\ Answer(d, IF logged[e] = "none" THEN "success" ELSE "duplicate")
        /\ UNCHANGED <<effects, heard, drawer, permitted, tracked, sends, shifts,
                   overlaps, unlogged>>

\* Inside the except clause the same conflict is not caught: the request ends
\* with 409 and the rest of the batch is not looked at.
LogFailed(d) ==
    LET e == Event(d)
    IN  /\ At(d, "refused")
        /\ \/ logged[e] = "none" /\ logged' = [logged EXCEPT ![e] = "failed"] /\ Answer(d, "failed")
           \/ logged[e] # "none" /\ delivery' = [delivery EXCEPT ![d] = Free] /\ UNCHANGED logged
        /\ UNCHANGED <<effects, heard, drawer, permitted, tracked, sends, shifts,
                   overlaps, unlogged>>

SyncNext ==
    \/ ShiftDrawer \/ ShiftRole
    \/ \E e \in Events : AssignTrip(e)
    \/ \E d \in Deliveries :
          \/ \E batch \in Replays : SendBatch(d, batch)
          \/ HearReply(d) \/ LoseRequest(d)
          \/ FindLogged(d) \/ FindNew(d) \/ FindByKey(d) \/ Apply(d)
          \/ KeyConflict(d) \/ Refuse(d) \/ LogSuccess(d) \/ LogFailed(d)

SyncSpec == SyncInit /\ [][SyncNext]_syncVars
-----------------------------------------------------------------------------
\* However often a batch is resent, after lost replies and after crashes between
\* an event's effect and its log entry, and however deliveries overlap, a sale,
\* payment or refund happens at most once.
EffectsHappenOnce == \A e \in Events : Keyed(e) => effects[e] <= 1

\* The log does not lie: what it calls a success has happened, and what it calls
\* failed has not, unless two deliveries of the event overlapped (then one may be
\* refused and logged first while the other takes effect), or a location was
\* applied by a delivery that ended before logging it: it has no key, so that its
\* resend is judged anew, and refused if the cashier may no longer track.
LogIsTrue ==
    \A e \in Events :
        /\ logged[e] = "success" => effects[e] > 0
        /\ logged[e] = "failed" /\ e \notin overlaps /\ (Keyed(e) \/ e \notin unlogged)
               => effects[e] = 0
=============================================================================
