---------------------------- MODULE CatalogDelta ----------------------------
(***************************************************************************)
(* GET /sync/catalog and the terminal's copy of the catalog.  A row is     *)
(* stamped when its UPDATE is flushed and seen when it commits; the delta  *)
(* reads the changed rows, then the deleted ids, then the clock, which is  *)
(* the terminal's next watermark.                                          *)
(***************************************************************************)
EXTENDS Naturals

CONSTANTS
    Items,     \* products (or categories)
    Editors,   \* sessions that edit or delete one
    MaxTime    \* bound: instants at which something is stamped

ASSUME CatalogDeltaAssumption == MaxTime \in Nat \ {0}

VARIABLES
    items,      \* committed rows: updated_at and deleted_at
    editing,    \* the row each editor has flushed and not yet committed
    now,        \* the server's clock
    pull,       \* the delta being read
    copy,       \* the terminal's rows: the updated_at of each, 0 if it has none
    watermark,  \* 0 before the first pull
    raced       \* history: rows written while a pull could not see them

catalogVars == <<items, editing, now, pull, copy, watermark, raced>>

Row == [stamp : Nat, dead : BOOLEAN]
NoEdit == [item |-> 0, stamp |-> 0, dead |-> FALSE]
NoPull == [stage |-> "idle", rows |-> [i \in Items |-> 0], gone |-> {}]

CatalogTypeOK ==
    /\ items \in [Items -> Row]
    /\ editing \in [Editors -> {NoEdit} \cup [item : Items, stamp : Nat, dead : BOOLEAN]]
    /\ now \in 0..MaxTime
    /\ pull \in [stage : {"idle", "rows", "gone"}, rows : [Items -> Nat], gone : SUBSET Items]
    /\ copy \in [Items -> Nat]
    /\ watermark \in 0..MaxTime
    /\ raced \subseteq Items

CatalogInit ==
    /\ items = [i \in Items |-> [stamp |-> 1, dead |-> FALSE]]
    /\ editing = [e \in Editors |-> NoEdit]
    /\ now = 1
    /\ pull = NoPull
    /\ copy = [i \in Items |-> 0]
    /\ watermark = 0
    /\ raced = {}

Pulling == pull.stage # "idle"

\* update_product and delete_product flush their row, stamped by onupdate.
FlushRow(e, i, dead) ==
    /\ editing[e] = NoEdit /\ now < MaxTime
    /\ ~items[i].dead /\ \A f \in Editors : editing[f].item # i
    /\ now' = now + 1
    /\ editing' = [editing EXCEPT ![e] = [item |-> i, stamp |-> now + 1, dead |-> dead]]
    /\ UNCHANGED <<items, pull, copy, watermark, raced>>

CommitRow(e) ==
    LET edit == editing[e]
    IN  /\ edit # NoEdit
        /\ items' = [items EXCEPT ![edit.item] = [stamp |-> edit.stamp, dead |-> edit.dead]]
        /\ editing' = [editing EXCEPT ![e] = NoEdit]
        /\ raced' = IF Pulling \/ edit.stamp < watermark THEN raced \cup {edit.item} ELSE raced
        /\ UNCHANGED <<now, pull, copy, watermark>>

\* Mutant: rows are taken by age, deleted ones with the rest.
ChangedWithDeleted == {i \in Items : items[i].stamp > watermark}

\* Rows newer than since; all rows on a first sync, where the watermark is 0.
Changed == {i \in Items : items[i].stamp > watermark /\ ~items[i].dead}

\* Nothing is listed as deleted on a first sync.
Deleted == {i \in Items : watermark > 0 /\ items[i].dead /\ items[i].stamp > watermark}

\* get_catalog_delta: the products,
PullRows ==
    /\ pull.stage = "idle"
    /\ pull' = [stage |-> "rows", gone |-> {},
                rows |-> [i \in Items |-> IF i \in Changed THEN items[i].stamp ELSE 0]]
    /\ UNCHANGED <<items, editing, now, copy, watermark, raced>>

\* ... then the ids of the deleted ones.
PullDeleted ==
    /\ pull.stage = "rows"
    /\ pull' = [pull EXCEPT !.stage = "gone", !.gone = Deleted]
    /\ UNCHANGED <<items, editing, now, copy, watermark, raced>>

\* server_time is read last; the terminal removes the deleted rows, stores the
\* others and keeps server_time.
StorePull ==
    /\ pull.stage = "gone" /\ now < MaxTime
    /\ now' = now + 1
    /\ watermark' = now + 1
    /\ copy' = [i \in Items |-> IF pull.rows[i] > 0 THEN pull.rows[i]
                                ELSE IF i \in pull.gone THEN 0 ELSE copy[i]]
    /\ pull' = NoPull
    /\ UNCHANGED <<items, editing, raced>>

\* The request fails or the reply is lost: nothing is stored.
LosePull ==
    /\ Pulling
    /\ pull' = NoPull
    /\ UNCHANGED <<items, editing, now, copy, watermark, raced>>

CatalogNext ==
    \/ \E e \in Editors, i \in Items, dead \in BOOLEAN : FlushRow(e, i, dead)
    \/ \E e \in Editors : CommitRow(e)
    \/ PullRows \/ PullDeleted \/ StorePull \/ LosePull

CatalogSpec == CatalogInit /\ [][CatalogNext]_catalogVars
-----------------------------------------------------------------------------
\* After any number of deltas the terminal has every row as of its watermark, and
\* none that was deleted, save the rows whose writer committed during a pull, or
\* after a pull that came between its stamp and its commit: those the watermark
\* passes over, and a later delta does not bring them.
DeltasAddUp ==
    \A i \in Items \ raced : items[i].stamp <= watermark
        => copy[i] = IF items[i].dead THEN 0 ELSE items[i].stamp
=============================================================================
