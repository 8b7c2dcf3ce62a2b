----------------------------- MODULE StockDesk ------------------------------
(***************************************************************************)
(* The catalogue's writers: the product, category, image and inventory     *)
(* endpoints and the panel's product pages.  Only update_product and the   *)
(* ad-hoc receipt lock the product row; the others write the columns they  *)
(* changed over whatever was committed since they read it.  Image files    *)
(* are written before the commit and deleted after it.                     *)
(***************************************************************************)
EXTENDS Integers, FiniteSets

CONSTANTS
    Products, Categories, Tenants,
    Clerks,       \* requests
    Files,        \* names uuid4 gives to images
    Adjustments,  \* stock deltas
    NoProduct, NoCategory, NoFile,
    MaxStock      \* bound: units on hand

ASSUME StockDeskAssumption ==
    /\ NoProduct \notin Products /\ NoCategory \notin Categories /\ NoFile \notin Files
    /\ Adjustments \subseteq Int \ {0} /\ MaxStock \in Nat /\ Tenants # {}

VARIABLES
    products,    \* rows: tenant, category, stock, image, whether live
    categories,  \* rows
    movements,   \* of each product: the sum of stock_movements, and their tenants
    files,       \* on disk
    named,       \* every name given so far
    clerks,      \* the requests under way
    overtaken    \* products whose stock an adjust page wrote from a stale read

stockVars == <<products, categories, movements, files, named, clerks, overtaken>>

ProductRows == [tenant : Tenants, category : Categories \cup {NoCategory},
                stock : 0..MaxStock, image : Files \cup {NoFile},
                state : {"none", "live", "deleted"}]

AnyTenant == CHOOSE t \in Tenants : TRUE
Unmade == [tenant |-> AnyTenant, category |-> NoCategory, stock |-> 0, image |-> NoFile,
           state |-> "none"]
AtEase == [op |-> "idle", product |-> NoProduct, category |-> NoCategory,
           seen |-> Unmade, file |-> NoFile]

Ops == {"idle", "update", "delete", "drop_category", "upload", "store", "clear", "adjust",
        "move", "unlink"}

StockTypeOK ==
    /\ products \in [Products -> ProductRows]
    /\ categories \in [Categories -> [tenant : Tenants, deleted : BOOLEAN]]
    /\ movements \in [Products -> [sum : Int, tenants : SUBSET Tenants]]
    /\ files \subseteq named /\ named \subseteq Files
    /\ clerks \in [Clerks -> [op : Ops, product : Products \cup {NoProduct},
                              category : Categories \cup {NoCategory},
                              seen : ProductRows, file : Files \cup {NoFile}]]
    /\ overtaken \subseteq Products

\* One category of each tenant to begin with, and no products.
StockInit ==
    /\ products = [p \in Products |-> Unmade]
    /\ categories \in [Categories -> [tenant : Tenants, deleted : {FALSE}]]
    /\ movements = [p \in Products |-> [sum |-> 0, tenants |-> {}]]
    /\ files = {} /\ named = {}
    /\ clerks = [c \in Clerks |-> AtEase]
    /\ overtaken = {}

Exists(p) == products[p].state # "none"
LockedRow(p) == \E c \in Clerks : clerks[c].op = "update" /\ clerks[c].product = p
AtWork(c, op) == clerks[c].op = op
InStock(n) == n \in 0..MaxStock

\* A request reads the product, deleted ones included, and keeps the columns it
\* goes by later.
Reads(c, op, p, columns) ==
    /\ clerks[c].op = "idle" /\ Exists(p)
    /\ clerks' = [clerks EXCEPT ![c] = [AtEase EXCEPT
          !.op = op, !.product = p,
          !.seen = [column \in DOMAIN Unmade |->
                      IF column \in columns THEN products[p][column] ELSE Unmade[column]]]]

Finished(c) == clerks' = [clerks EXCEPT ![c] = AtEase]

\* A row with a movement of its tenant.
Moved(p, delta, tenant) ==
    movements' = [movements EXCEPT ![p].sum = @ + delta, ![p].tenants = @ \cup {tenant}]
-----------------------------------------------------------------------------
(* Products *)

\* _category of the right tenant, deleted or not.
InTenant(k, t) == k \in Categories => categories[k].tenant = t

\* create_product, with its initial_stock movement.
CreateProduct(c, p, t, k, stock) ==
    /\ clerks[c].op = "idle" /\ ~Exists(p) /\ InTenant(k, t) /\ InStock(stock)
    /\ products' = [products EXCEPT ![p] = [Unmade EXCEPT
                      !.tenant = t, !.category = k, !.stock = stock, !.state = "live"]]
    /\ IF stock = 0 THEN UNCHANGED movements ELSE Moved(p, stock, t)
    /\ UNCHANGED <<categories, files, named, clerks, overtaken>>

\* Mutant: the product is read without FOR UPDATE.
StartUpdateUnlocked(c, p) ==
    /\ Reads(c, "update", p, {"tenant", "category", "stock"})
    /\ UNCHANGED <<products, categories, movements, files, named, overtaken>>

\* update_product: SELECT ... FOR UPDATE.
StartUpdate(c, p) ==
    /\ ~LockedRow(p) /\ Reads(c, "update", p, {"tenant", "category", "stock"})
    /\ UNCHANGED <<products, categories, movements, files, named, overtaken>>

\* The category after a move: the new one if it was given, the old one if it is
\* of the target tenant, or none.
CategoryAfterMove(seen, t, chosen, k) ==
    IF chosen THEN k ELSE IF InTenant(seen.category, t) THEN seen.category ELSE NoCategory

\* update_product: the move to another tenant, then the stock by delta or to a
\* given value, then the other fields.  A category given without a move is not
\* looked up, so it may be of any tenant.
CommitUpdate(c, t, chosen, k, delta) ==
    LET p == clerks[c].product
        seen == clerks[c].seen
        moves == t # seen.tenant
    IN  /\ AtWork(c, "update")
        /\ moves /\ chosen => InTenant(k, t)
        /\ InStock(seen.stock + delta)
        /\ products' = [products EXCEPT
              ![p].tenant = t, ![p].stock = IF delta = 0 THEN @ ELSE seen.stock + delta,
              ![p].category = IF moves THEN CategoryAfterMove(seen, t, chosen, k)
                              ELSE IF chosen THEN k ELSE @]
        /\ IF delta = 0 THEN UNCHANGED movements ELSE Moved(p, delta, t)
        /\ Finished(c)
        /\ UNCHANGED <<categories, files, named, overtaken>>

\* create_inventory_receipt: one locked transaction.
ReceiveAdHoc(c, p, n) ==
    /\ clerks[c].op = "idle" /\ Exists(p) /\ ~LockedRow(p)
    /\ n > 0 /\ InStock(products[p].stock + n)
    /\ products' = [products EXCEPT ![p].stock = @ + n]
    /\ Moved(p, n, products[p].tenant)
    /\ UNCHANGED <<categories, files, named, clerks, overtaken>>

\* delete_product: refused while the product's present tenant has a movement of
\* it, as a sold or received one has (the items of purchases not yet received are
\* left out); the counts are read without a lock.
StartDelete(c, p) ==
    /\ products[p].tenant \notin movements[p].tenants
    /\ Reads(c, "delete", p, {"image"})
    /\ UNCHANGED <<products, categories, movements, files, named, overtaken>>

\* The soft delete commits and the files are deleted next.
CommitDelete(c) ==
    LET p == clerks[c].product
    IN  /\ AtWork(c, "delete") /\ ~LockedRow(p)
        /\ products' = [products EXCEPT ![p].state = "deleted"]
        /\ clerks' = [clerks EXCEPT ![c].op = "unlink", ![c].file = NoFile]
        /\ UNCHANGED <<categories, movements, files, named, overtaken>>
-----------------------------------------------------------------------------
(* Categories *)

\* delete_category counts the live products of its tenant, without a lock.
StartDropCategory(c, k) ==
    /\ clerks[c].op = "idle"
    /\ \A p \in Products : products[p].state = "live" /\ products[p].category = k
                              => products[p].tenant # categories[k].tenant
    /\ clerks' = [clerks EXCEPT ![c] = [AtEase EXCEPT !.op = "drop_category", !.category = k]]
    /\ UNCHANGED <<products, categories, movements, files, named, overtaken>>

CommitDropCategory(c) ==
    /\ AtWork(c, "drop_category")
    /\ categories' = [categories EXCEPT ![clerks[c].category].deleted = TRUE]
    /\ Finished(c)
    /\ UNCHANGED <<products, movements, files, named, overtaken>>
-----------------------------------------------------------------------------
(* Images *)

StartUpload(c, p) ==
    /\ Reads(c, "upload", p, {"image"})
    /\ UNCHANGED <<products, categories, movements, files, named, overtaken>>

\* Mutant: the old files go before the new ones are in the row.
UnlinkFirst(c, f) ==
    /\ AtWork(c, "upload") /\ f \notin named
    /\ named' = named \cup {f} /\ files' = (files \cup {f}) \ {clerks[c].seen.image}
    /\ clerks' = [clerks EXCEPT ![c].op = "store", ![c].file = f]
    /\ UNCHANGED <<products, categories, movements, overtaken>>

\* The files are written under a new name, before the row is.
WriteFiles(c, f) ==
    /\ AtWork(c, "upload") /\ f \notin named
    /\ named' = named \cup {f} /\ files' = files \cup {f}
    /\ clerks' = [clerks EXCEPT ![c].op = "store", ![c].file = f]
    /\ UNCHANGED <<products, categories, movements, overtaken>>

StoreImage(c) ==
    LET p == clerks[c].product
    IN  /\ AtWork(c, "store") /\ ~LockedRow(p)
        /\ products' = [products EXCEPT ![p].image = clerks[c].file]
        /\ clerks' = [clerks EXCEPT ![c].op = "unlink", ![c].file = NoFile]
        /\ UNCHANGED <<categories, movements, files, named, overtaken>>

\* The commit fails: the new files are taken away again.
UnwriteFiles(c) ==
    /\ AtWork(c, "store")
    /\ files' = files \ {clerks[c].file}
    /\ Finished(c)
    /\ UNCHANGED <<products, categories, movements, named, overtaken>>

StartClear(c, p) ==
    /\ Reads(c, "clear", p, {"image"})
    /\ UNCHANGED <<products, categories, movements, files, named, overtaken>>

\* delete_product_image: without an image in what was read nothing is written.
ClearImage(c) ==
    LET p == clerks[c].product
    IN  /\ AtWork(c, "clear") /\ ~LockedRow(p)
        /\ products' = [products EXCEPT
              ![p].image = IF clerks[c].seen.image = NoFile THEN @ ELSE NoFile]
        /\ clerks' = [clerks EXCEPT ![c].op = "unlink", ![c].file = NoFile]
        /\ UNCHANGED <<categories, movements, files, named, overtaken>>

\* delete_media_file, of the image the request read at its start.
DeleteMediaFile(c) ==
    /\ AtWork(c, "unlink")
    /\ files' = files \ {clerks[c].seen.image}
    /\ Finished(c)
    /\ UNCHANGED <<products, categories, movements, named, overtaken>>
-----------------------------------------------------------------------------
(* The panel's pages *)

\* adjust_stock_page reads the product, and then waits for the form.
OpenAdjust(c, p) ==
    /\ Reads(c, "adjust", p, {"tenant", "stock"})
    /\ UNCHANGED <<products, categories, movements, files, named, overtaken>>

CommitAdjust(c, delta) ==
    LET p == clerks[c].product
        seen == clerks[c].seen
    IN  /\ AtWork(c, "adjust") /\ ~LockedRow(p) /\ InStock(seen.stock + delta)
        /\ p \notin overtaken  \* bound: one stale adjustment of a product
        /\ products' = [products EXCEPT ![p].stock = seen.stock + delta]
        /\ Moved(p, delta, seen.tenant)
        /\ overtaken' = overtaken \cup (IF products[p].stock # seen.stock THEN {p} ELSE {})
        /\ Finished(c)
        /\ UNCHANGED <<categories, files, named>>

\* move_tenant_page writes the tenant and the category, but nothing that holds
\* what was read.
OpenMove(c, p) ==
    /\ Reads(c, "move", p, {"tenant", "category"})
    /\ UNCHANGED <<products, categories, movements, files, named, overtaken>>

CommitMove(c, t, chosen, k) ==
    LET p == clerks[c].product
        seen == clerks[c].seen
        category == CategoryAfterMove(seen, t, chosen, k)
    IN  /\ AtWork(c, "move") /\ ~LockedRow(p) /\ t # seen.tenant
        /\ chosen => InTenant(k, t)
        /\ products' = [products EXCEPT
              ![p].tenant = t, ![p].category = IF category = seen.category THEN @ ELSE category]
        /\ Finished(c)
        /\ UNCHANGED <<categories, movements, files, named, overtaken>>
-----------------------------------------------------------------------------
\* A request is refused, or its process dies: what it did not commit is rolled
\* back, and files it wrote or had still to delete stay on disk.
GiveUp(c) ==
    /\ clerks[c].op # "idle" /\ Finished(c)
    /\ UNCHANGED <<products, categories, movements, files, named, overtaken>>

Picks == {<<FALSE, NoCategory>>} \cup ({TRUE} \X (Categories \cup {NoCategory}))

GoodsNext(c) ==
    \/ \E p \in Products :
          \/ StartUpdate(c, p) \/ StartDelete(c, p) \/ OpenAdjust(c, p) \/ OpenMove(c, p)
          \/ \E n \in Adjustments : ReceiveAdHoc(c, p, n)
          \/ \E t \in Tenants, k \in Categories \cup {NoCategory}, n \in 0..1 :
                CreateProduct(c, p, t, k, n)
    \/ \E t \in Tenants, pick \in Picks :
          \/ \E delta \in Adjustments \cup {0} : CommitUpdate(c, t, pick[1], pick[2], delta)
          \/ CommitMove(c, t, pick[1], pick[2])
    \/ \E k \in Categories : StartDropCategory(c, k)
    \/ \E delta \in Adjustments : CommitAdjust(c, delta)
    \/ CommitDelete(c) \/ CommitDropCategory(c) \/ GiveUp(c)

PhotoNext(c) ==
    \/ \E p \in Products : StartDelete(c, p) \/ StartUpload(c, p) \/ StartClear(c, p)
    \/ \E f \in Files : WriteFiles(c, f)
    \/ CommitDelete(c) \/ StoreImage(c) \/ UnwriteFiles(c) \/ ClearImage(c)
    \/ DeleteMediaFile(c) \/ GiveUp(c)

StockNext == \E c \in Clerks : GoodsNext(c) \/ PhotoNext(c)

StockSpec == StockInit /\ [][StockNext]_stockVars
-----------------------------------------------------------------------------
\* The ledger explains the stock of every product, through creation, updates with
\* and without a move of tenant, receipts and adjustments, unless an adjust page
\* wrote a value it had computed from a stock that was no longer so.
MovementsExplainStock ==
    \A p \in Products \ overtaken : movements[p].sum = products[p].stock

\* The image of a live product is on disk, whatever uploads, replacements and
\* removals overlap or die half-way.
ShownImagesExist ==
    \A p \in Products :
        products[p].state = "live" /\ products[p].image # NoFile => products[p].image \in files
=============================================================================
