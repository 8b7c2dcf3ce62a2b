---------------------------- MODULE CatalogProofs ----------------------------
(***************************************************************************)
(* Proofs about the catalogue: the deltas a terminal pulls (CatalogDelta), *)
(* the requests that write products and images (StockDesk) and the prices, *)
(* promotions and taxes of an order's lines (Pricing).                     *)
(***************************************************************************)
EXTENDS CatalogDelta, StockDesk, Pricing, SumTheorems

-----------------------------------------------------------------------------
(* CatalogDelta.  A row that nobody committed behind a pull's back is, in    *)
(* the pull, as it is in the table.                                        *)

\* Stamps are instants that have passed; no writer's is the watermark's.
StampsArePast ==
    /\ watermark <= now
    /\ \A i \in Items : items[i].stamp \in 1..now
    /\ \A e \in Editors : editing[e] # NoEdit =>
          editing[e].stamp \in 1..now /\ editing[e].stamp # watermark

\* What the pull has read of item i is still so.
PullIsCurrent(i) ==
    /\ Pulling => pull.rows[i] = IF items[i].stamp > watermark /\ ~items[i].dead
                                 THEN items[i].stamp ELSE 0
    /\ pull.stage = "gone" =>
          (i \in pull.gone <=> watermark > 0 /\ items[i].dead /\ items[i].stamp > watermark)

CatalogInv ==
    /\ CatalogTypeOK
    /\ StampsArePast
    /\ watermark = 0 => \A i \in Items : copy[i] = 0
    /\ \A i \in Items \ raced : PullIsCurrent(i)
    /\ DeltasAddUp

LEMMA CatalogFields ==
    ASSUME CatalogInv
    PROVE  /\ now \in Nat /\ watermark \in Nat /\ MaxTime \in Nat
           /\ \A i \in Items : /\ items[i] \in [stamp : Nat, dead : BOOLEAN]
                               /\ items[i].stamp \in Nat /\ items[i].dead \in BOOLEAN
                               /\ copy[i] \in Nat /\ pull.rows[i] \in Nat
           /\ \A e \in Editors : editing[e] # NoEdit =>
                 /\ editing[e].item \in Items /\ editing[e].stamp \in Nat
                 /\ editing[e].dead \in BOOLEAN
  BY CatalogDeltaAssumption DEF CatalogInv, CatalogTypeOK, Row

LEMMA FlushKeeps ==
    ASSUME CatalogInv, NEW e \in Editors, NEW i \in Items, NEW dead \in BOOLEAN,
           FlushRow(e, i, dead)
    PROVE  CatalogInv'
  <1> DEFINE edit == [item |-> i, stamp |-> now + 1, dead |-> dead]
  <1>1. /\ now' = now + 1 /\ now < MaxTime /\ editing' = [editing EXCEPT ![e] = edit]
        /\ UNCHANGED <<items, pull, copy, watermark, raced>>
    BY DEF FlushRow
  <1>2. /\ edit \in [item : Items, stamp : Nat, dead : BOOLEAN]
        /\ edit.stamp = now + 1
    BY CatalogFields
  <1> HIDE DEF edit
  <1>3. CatalogTypeOK'
    BY <1>1, <1>2, CatalogFields DEF CatalogInv, CatalogTypeOK
  <1>4. \A f \in Editors : editing'[f] = IF f = e THEN edit ELSE editing[f]
    BY <1>1 DEF CatalogInv, CatalogTypeOK
  <1>5. StampsArePast'
    BY <1>1, <1>2, <1>4, CatalogFields DEF CatalogInv, StampsArePast
  <1> QED
    BY <1>1, <1>3, <1>5 DEF CatalogInv, PullIsCurrent, Pulling, DeltasAddUp

\* A writer that commits behind a pull's back is remembered; another's row is
\* younger than the watermark.
LEMMA CommitRowKeeps ==
    ASSUME CatalogInv, NEW e \in Editors, CommitRow(e)
    PROVE  CatalogInv'
  <1> DEFINE i == editing[e].item
             row == [stamp |-> editing[e].stamp, dead |-> editing[e].dead]
  <1>1. /\ editing[e] # NoEdit /\ i \in Items
        /\ items' = [items EXCEPT ![i] = row]
        /\ editing' = [editing EXCEPT ![e] = NoEdit]
        /\ raced' = IF Pulling \/ editing[e].stamp < watermark THEN raced \cup {i} ELSE raced
        /\ UNCHANGED <<now, pull, copy, watermark>>
    BY CatalogFields DEF CommitRow
  <1>2. /\ row \in [stamp : Nat, dead : BOOLEAN]
        /\ row.stamp = editing[e].stamp /\ row.stamp \in 1..now /\ row.stamp # watermark
    BY <1>1, CatalogFields DEF CatalogInv, StampsArePast
  <1> HIDE DEF i, row
  <1>3. \A j \in Items : items'[j] = IF j = i THEN row ELSE items[j]
    BY <1>1 DEF CatalogInv, CatalogTypeOK
  <1>4. \A f \in Editors : editing'[f] = IF f = e THEN NoEdit ELSE editing[f]
    BY <1>1 DEF CatalogInv, CatalogTypeOK
  <1>5. CatalogTypeOK'
    BY <1>1, <1>2 DEF CatalogInv, CatalogTypeOK, Row
  <1>6. StampsArePast'
    BY <1>1, <1>2, <1>3, <1>4 DEF CatalogInv, StampsArePast
  <1>7. \A j \in Items \ raced' : j = i => ~Pulling /\ row.stamp > watermark
    BY <1>1, <1>2, CatalogFields
  <1>8. \A j \in Items \ raced' : PullIsCurrent(j)'
    BY <1>1, <1>3, <1>7 DEF CatalogInv, PullIsCurrent, Pulling
  <1>9. DeltasAddUp'
    BY <1>1, <1>2, <1>3, <1>7, CatalogFields DEF CatalogInv, DeltasAddUp
  <1> QED
    BY <1>1, <1>5, <1>6, <1>8, <1>9 DEF CatalogInv

LEMMA PullRowsKeeps ==
    ASSUME CatalogInv, PullRows
    PROVE  CatalogInv'
  <1> DEFINE rows == [i \in Items |-> IF i \in Changed THEN items[i].stamp ELSE 0]
  <1>1. /\ pull' = [stage |-> "rows", gone |-> {}, rows |-> rows]
        /\ UNCHANGED <<items, editing, now, copy, watermark, raced>>
    BY DEF PullRows
  <1>2. rows \in [Items -> Nat]
    BY CatalogFields
  <1>3. \A i \in Items : rows[i] = IF items[i].stamp > watermark /\ ~items[i].dead
                                   THEN items[i].stamp ELSE 0
    BY DEF Changed
  <1> HIDE DEF rows
  <1>4. CatalogTypeOK'
    BY <1>1, <1>2 DEF CatalogInv, CatalogTypeOK
  <1> QED
    BY <1>1, <1>3, <1>4 DEF CatalogInv, StampsArePast, PullIsCurrent, DeltasAddUp

LEMMA PullDeletedKeeps ==
    ASSUME CatalogInv, PullDeleted
    PROVE  CatalogInv'
  <1>1. /\ pull.stage = "rows" /\ pull' = [pull EXCEPT !.stage = "gone", !.gone = Deleted]
        /\ UNCHANGED <<items, editing, now, copy, watermark, raced>>
    BY DEF PullDeleted
  <1>2. pull'.stage = "gone" /\ pull'.gone = Deleted /\ pull'.rows = pull.rows
    BY <1>1 DEF CatalogInv, CatalogTypeOK
  <1>3. \A i \in Items : i \in Deleted <=>
           watermark > 0 /\ items[i].dead /\ items[i].stamp > watermark
    BY DEF Deleted
  <1>4. CatalogTypeOK'
    BY <1>1 DEF CatalogInv, CatalogTypeOK, Deleted
  <1> QED
    BY <1>1, <1>2, <1>3, <1>4 DEF CatalogInv, StampsArePast, PullIsCurrent, Pulling, DeltasAddUp

LEMMA StorePullKeeps ==
    ASSUME CatalogInv, StorePull
    PROVE  CatalogInv'
  <1>1. /\ pull.stage = "gone" /\ now < MaxTime /\ now' = now + 1 /\ watermark' = now + 1
        /\ copy' = [i \in Items |-> IF pull.rows[i] > 0 THEN pull.rows[i]
                                    ELSE IF i \in pull.gone THEN 0 ELSE copy[i]]
        /\ pull' = NoPull
        /\ UNCHANGED <<items, editing, raced>>
    BY DEF StorePull
  <1>2. NoPull \in [stage : {"idle", "rows", "gone"}, rows : [Items -> Nat], gone : SUBSET Items]
        /\ NoPull.stage = "idle"
    BY DEF NoPull
  <1>3. CatalogTypeOK'
    BY <1>1, <1>2, CatalogFields DEF CatalogInv, CatalogTypeOK
  <1>4. StampsArePast'
    BY <1>1, CatalogFields DEF CatalogInv, StampsArePast
  <1>5. ASSUME NEW i \in Items \ raced
        PROVE  copy'[i] = IF items[i].dead THEN 0 ELSE items[i].stamp
    <2>1. /\ copy'[i] = IF pull.rows[i] > 0 THEN pull.rows[i]
                        ELSE IF i \in pull.gone THEN 0 ELSE copy[i]
          /\ PullIsCurrent(i) /\ Pulling
          /\ items[i].stamp <= watermark => copy[i] = IF items[i].dead THEN 0 ELSE items[i].stamp
          /\ items[i].stamp \in Nat \ {0}
          /\ watermark = 0 => copy[i] = 0
      BY <1>1, CatalogFields DEF CatalogInv, DeltasAddUp, Pulling, StampsArePast
    <2> QED
      BY <1>1, <2>1, CatalogFields DEF PullIsCurrent
  <1>6. DeltasAddUp'
    BY <1>1, <1>5 DEF DeltasAddUp
  <1>7. \A i \in Items : PullIsCurrent(i)'
    BY <1>1, <1>2 DEF PullIsCurrent, Pulling
  <1> QED
    BY <1>1, <1>3, <1>4, <1>6, <1>7, CatalogFields DEF CatalogInv

LEMMA LosePullKeeps ==
    ASSUME CatalogInv, LosePull
    PROVE  CatalogInv'
  <1>1. pull' = NoPull /\ UNCHANGED <<items, editing, now, copy, watermark, raced>>
    BY DEF LosePull
  <1>2. NoPull \in [stage : {"idle", "rows", "gone"}, rows : [Items -> Nat], gone : SUBSET Items]
        /\ NoPull.stage = "idle"
    BY DEF NoPull
  <1>3. CatalogTypeOK'
    BY <1>1, <1>2 DEF CatalogInv, CatalogTypeOK
  <1> QED
    BY <1>1, <1>2, <1>3 DEF CatalogInv, StampsArePast, PullIsCurrent, Pulling, DeltasAddUp

LEMMA CatalogIsRight == CatalogSpec => []CatalogInv
  <1>1. CatalogInit => CatalogInv
    <2> SUFFICES ASSUME CatalogInit PROVE CatalogInv
      OBVIOUS
    <2>1. CatalogTypeOK
      BY CatalogDeltaAssumption DEF CatalogInit, CatalogTypeOK, NoPull, Row
    <2> QED
      BY <2>1 DEF CatalogInit, CatalogInv, StampsArePast, PullIsCurrent, Pulling, NoPull,
                  DeltasAddUp
  <1>2. CatalogInv /\ [CatalogNext]_catalogVars => CatalogInv'
    <2>1. ASSUME CatalogInv, UNCHANGED catalogVars PROVE CatalogInv'
      BY <2>1 DEF catalogVars, CatalogInv, CatalogTypeOK, StampsArePast, PullIsCurrent, Pulling,
                  DeltasAddUp
    <2> QED
      BY <2>1, FlushKeeps, CommitRowKeeps, PullRowsKeeps, PullDeletedKeeps, StorePullKeeps,
         LosePullKeeps DEF CatalogNext
  <1> QED
    BY <1>1, <1>2, PTL DEF CatalogSpec

\* The table, the pull under way and the terminal's copy have their types.
THEOREM CatalogTypes == CatalogSpec => []CatalogTypeOK
  <1>1. CatalogInv => CatalogTypeOK
    BY DEF CatalogInv
  <1> QED
    BY <1>1, CatalogIsRight, PTL

\* Deltas add up to the catalog, for any number of rows, editors and pulls.
THEOREM TerminalsHaveTheCatalog == CatalogSpec => []DeltasAddUp
  <1>1. CatalogInv => DeltasAddUp
    BY DEF CatalogInv
  <1> QED
    BY <1>1, CatalogIsRight, PTL

-----------------------------------------------------------------------------
(* StockDesk: types *)

ClerkRows == [op : Ops, product : Products \cup {NoProduct},
              category : Categories \cup {NoCategory},
              seen : ProductRows, file : Files \cup {NoFile}]

LEMMA UnmadeRow ==
    /\ Unmade \in ProductRows /\ Unmade.image = NoFile /\ Unmade.stock = 0
    /\ Unmade.state = "none" /\ Unmade.category = NoCategory /\ Unmade.tenant = AnyTenant
    /\ DOMAIN Unmade = {"tenant", "category", "stock", "image", "state"}
  <1>1. AnyTenant \in Tenants /\ 0 \in 0..MaxStock
    BY StockDeskAssumption DEF AnyTenant
  <1> QED
    BY <1>1 DEF Unmade, ProductRows

LEMMA IdleRow ==
    /\ AtEase \in ClerkRows /\ AtEase.op = "idle" /\ AtEase.seen = Unmade
    /\ AtEase.product = NoProduct /\ AtEase.file = NoFile
  BY UnmadeRow DEF AtEase, ClerkRows, Ops

LEMMA StockFields ==
    ASSUME StockTypeOK
    PROVE  /\ \A p \in Products : /\ products[p] \in ProductRows
                                  /\ products[p].stock \in Int
                                  /\ movements[p].sum \in Int
                                  /\ movements[p].tenants \subseteq Tenants
           /\ products \in [Products -> ProductRows]
           /\ clerks \in [Clerks -> ClerkRows]
           /\ \A c \in Clerks : clerks[c] \in ClerkRows /\ clerks[c].seen \in ProductRows
                                /\ clerks[c].seen.stock \in Int
  BY DEF StockTypeOK, ClerkRows, ProductRows

SeenColumns(p, columns) ==
    [column \in DOMAIN Unmade |->
        IF column \in columns THEN products[p][column] ELSE Unmade[column]]

LEMMA SeenRow ==
    ASSUME NEW p \in Products, products[p] \in ProductRows, NEW columns
    PROVE  /\ SeenColumns(p, columns) \in ProductRows
           /\ SeenColumns(p, columns).image =
                 IF "image" \in columns THEN products[p].image ELSE NoFile
           /\ "stock" \in columns => SeenColumns(p, columns).stock = products[p].stock
  BY UnmadeRow DEF SeenColumns, ProductRows

\* A request begins with what it read.
LEMMA ReadsRow ==
    ASSUME StockTypeOK, NEW c \in Clerks, NEW op \in Ops, NEW p \in Products, NEW columns,
           Reads(c, op, p, columns)
    PROVE  \E x \in ClerkRows :
              /\ clerks' = [clerks EXCEPT ![c] = x]
              /\ x.op = op /\ x.product = p /\ x.seen = SeenColumns(p, columns)
  <1> DEFINE x == [AtEase EXCEPT !.op = op, !.product = p, !.seen = SeenColumns(p, columns)]
  <1>1. SeenColumns(p, columns) \in ProductRows
    BY StockFields, SeenRow
  <1>2. clerks' = [clerks EXCEPT ![c] = x]
    BY DEF Reads, SeenColumns
  <1>3. x \in ClerkRows /\ x.op = op /\ x.product = p /\ x.seen = SeenColumns(p, columns)
    BY <1>1, UnmadeRow DEF AtEase, ClerkRows
  <1> QED
    BY <1>2, <1>3

\* What a request works on is there.
OpsFit(c) ==
    /\ clerks[c].op \in Ops \ {"idle", "drop_category"} =>
          clerks[c].product \in Products /\ Exists(clerks[c].product)
    /\ clerks[c].op = "drop_category" => clerks[c].category \in Categories

DeskTypes == StockTypeOK /\ \A c \in Clerks : OpsFit(c)

\* A request moves on.
LEMMA ClerkMoves ==
    ASSUME DeskTypes, NEW c \in Clerks, NEW x \in ClerkRows, clerks' = [clerks EXCEPT ![c] = x],
           products' \in [Products -> ProductRows],
           \A p \in Products : Exists(p) => Exists(p)',
           categories' \in [Categories -> [tenant : Tenants, deleted : BOOLEAN]],
           movements' \in [Products -> [sum : Int, tenants : SUBSET Tenants]],
           files' \subseteq named', named' \subseteq Files,
           overtaken' \subseteq Products,
           x.op \in Ops \ {"idle", "drop_category"} =>
               x.product \in Products /\ Exists(x.product)',
           x.op = "drop_category" => x.category \in Categories
    PROVE  DeskTypes' /\ \A d \in Clerks : clerks'[d] = IF d = c THEN x ELSE clerks[d]
  <1>1. \A d \in Clerks : clerks'[d] = IF d = c THEN x ELSE clerks[d]
    BY StockFields DEF DeskTypes
  <1>2. StockTypeOK'
    BY StockFields DEF DeskTypes, StockTypeOK, ClerkRows
  <1>3. \A d \in Clerks : OpsFit(d)'
    BY <1>1 DEF DeskTypes, OpsFit
  <1> QED
    BY <1>1, <1>2, <1>3 DEF DeskTypes

\* ... or none does.
LEMMA RowsMove ==
    ASSUME DeskTypes, clerks' = clerks,
           products' \in [Products -> ProductRows],
           \A p \in Products : Exists(p) => Exists(p)',
           movements' \in [Products -> [sum : Int, tenants : SUBSET Tenants]],
           UNCHANGED <<categories, files, named, overtaken>>
    PROVE  DeskTypes'
  <1>1. StockTypeOK'
    BY DEF DeskTypes, StockTypeOK
  <1> QED
    BY <1>1 DEF DeskTypes, OpsFit

-----------------------------------------------------------------------------
(* StockDesk: images *)

Image(p) == products[p].image
SeenImage(c) == clerks[c].seen.image

ImagesAreOwn ==
    /\ \A p \in Products : Image(p) # NoFile => Image(p) \in named
    /\ \A p, q \in Products : p # q /\ Image(p) # NoFile => Image(q) # Image(p)
    /\ \A p \in Products : products[p].state = "none" => Image(p) = NoFile

\* The image a request has read was its product's and never another's; once the
\* request goes on to delete the file, no live product shows it.
SeenIsOwn(c) ==
    SeenImage(c) # NoFile =>
       /\ SeenImage(c) \in named /\ clerks[c].product \in Products
       /\ \A q \in Products \ {clerks[c].product} : Image(q) # SeenImage(c)
       /\ clerks[c].op = "unlink" => \/ Image(clerks[c].product) # SeenImage(c)
                                     \/ products[clerks[c].product].state = "deleted"

\* A file that is written and not yet stored is on disk, and nobody else's.
FileIsFresh(c) ==
    clerks[c].op = "store" =>
       /\ clerks[c].file \in files
       /\ \A q \in Products : Image(q) # clerks[c].file
       /\ \A d \in Clerks : SeenImage(d) # clerks[c].file
       /\ \A d \in Clerks \ {c} : clerks[d].op = "store" => clerks[d].file # clerks[c].file

PhotoInv ==
    /\ ImagesAreOwn
    /\ \A c \in Clerks : SeenIsOwn(c) /\ FileIsFresh(c)
    /\ ShownImagesExist

\* Steps that write neither images nor files.
LEMMA ImagesStay ==
    ASSUME PhotoInv, DeskTypes, UNCHANGED <<files, named>>,
           \A p \in Products : /\ products'[p].image = products[p].image
                               /\ products'[p].state \in {products[p].state, "live", "deleted"}
                               /\ products[p].state = "deleted" => products'[p].state = "deleted"
                               /\ products'[p].state = "live" =>
                                     products[p].state = "live" \/ Image(p) = NoFile,
           \A d \in Clerks :
               \/ clerks'[d] = clerks[d]
               \/ /\ clerks'[d].op \notin {"store", "unlink"}
                  /\ \/ clerks'[d].seen.image = NoFile
                     \/ /\ clerks'[d].product \in Products
                        /\ clerks'[d].seen.image = Image(clerks'[d].product)
    PROVE  PhotoInv'
  <1>1. \A p \in Products : Image(p)' = Image(p)
    BY DEF Image
  <1>2. ImagesAreOwn'
    BY <1>1 DEF PhotoInv, ImagesAreOwn
  <1>3. ASSUME NEW d \in Clerks PROVE SeenIsOwn(d)'
    BY <1>1 DEF PhotoInv, ImagesAreOwn, SeenIsOwn, SeenImage, Image
  <1>4. ASSUME NEW c \in Clerks, clerks'[c].op = "store" PROVE FileIsFresh(c)'
    <2>1. FileIsFresh(c) /\ clerks'[c] = clerks[c] /\ clerks[c].op = "store"
      BY <1>4 DEF PhotoInv
    <2>2. clerks[c].file # NoFile
      BY <2>1, StockDeskAssumption DEF DeskTypes, StockTypeOK, FileIsFresh
    <2>3. \A d \in Clerks : SeenImage(d)' # clerks[c].file
      BY <2>1, <2>2 DEF FileIsFresh, SeenImage, Image
    <2> QED
      BY <1>1, <2>1, <2>3 DEF FileIsFresh
  <1>5. ShownImagesExist'
    BY <1>1 DEF PhotoInv, ShownImagesExist, Image
  <1> QED
    BY <1>2, <1>3, <1>4, <1>5 DEF PhotoInv, FileIsFresh

\* A clerk that lets go.
LEMMA IdleImages ==
    ASSUME PhotoInv, DeskTypes, NEW c \in Clerks, clerks' = [clerks EXCEPT ![c] = AtEase],
           UNCHANGED <<files, named>>,
           \A p \in Products : /\ products'[p].image = products[p].image
                               /\ products'[p].state = products[p].state
    PROVE  PhotoInv'
  <1>1. \A d \in Clerks : clerks'[d] = IF d = c THEN AtEase ELSE clerks[d]
    BY StockFields DEF DeskTypes
  <1>2. \A p \in Products : products'[p].state \in {"none", "live", "deleted"}
    BY StockFields DEF DeskTypes, ProductRows
  <1> QED
    BY <1>1, <1>2, IdleRow, UnmadeRow, ImagesStay DEF Image

LEMMA WriteFilesKeeps ==
    ASSUME PhotoInv, DeskTypes, NEW c \in Clerks, NEW f \in Files, WriteFiles(c, f)
    PROVE  PhotoInv' /\ DeskTypes'
  <1> DEFINE x == [clerks[c] EXCEPT !.op = "store", !.file = f]
  <1>1. /\ clerks[c].op = "upload" /\ f \notin named
        /\ named' = named \cup {f} /\ files' = files \cup {f}
        /\ clerks' = [clerks EXCEPT ![c] = x]
        /\ UNCHANGED <<products, categories, movements, overtaken>>
    BY DEF WriteFiles, AtWork
  <1>2. /\ x \in ClerkRows /\ x.op = "store" /\ x.file = f
        /\ x.product = clerks[c].product /\ x.seen = clerks[c].seen
    BY StockFields DEF DeskTypes, ClerkRows, Ops
  <1> HIDE DEF x
  <1>3. clerks[c].product \in Products /\ Exists(clerks[c].product)
    BY <1>1 DEF DeskTypes, OpsFit, Ops
  <1>4. DeskTypes' /\ \A d \in Clerks : clerks'[d] = IF d = c THEN x ELSE clerks[d]
    BY <1>1, <1>2, <1>3, ClerkMoves DEF DeskTypes, StockTypeOK, Exists
  <1>5. /\ \A d \in Clerks : SeenImage(d)' = SeenImage(d)
        /\ \A p \in Products : Image(p)' = Image(p)
    BY <1>1, <1>2, <1>4 DEF SeenImage, Image
  <1>6. ImagesAreOwn' /\ ShownImagesExist'
    BY <1>1, <1>5 DEF PhotoInv, ImagesAreOwn, ShownImagesExist, Image
  <1>7. \A d \in Clerks : SeenIsOwn(d)'
    BY <1>1, <1>2, <1>4, <1>5 DEF PhotoInv, SeenIsOwn
  <1>8. /\ f # NoFile /\ \A p \in Products : Image(p) # f
        /\ \A d \in Clerks : SeenImage(d) # f
        /\ \A d \in Clerks : clerks[d].op = "store" => clerks[d].file # f
    BY <1>1, StockDeskAssumption DEF PhotoInv, ImagesAreOwn, SeenIsOwn, FileIsFresh, DeskTypes,
                                     StockTypeOK
  <1>9. ASSUME NEW d \in Clerks PROVE FileIsFresh(d)'
    BY <1>1, <1>2, <1>4, <1>5, <1>8 DEF PhotoInv, FileIsFresh
  <1> QED
    BY <1>4, <1>6, <1>7, <1>9 DEF PhotoInv

\* The row of the request's product.
RowChange(p, row) ==
    /\ products' = [products EXCEPT ![p] = row]
    /\ \A q \in Products : products'[q] = IF q = p THEN row ELSE products[q]
    /\ products' \in [Products -> ProductRows]

LEMMA RowsChange ==
    ASSUME StockTypeOK, NEW p \in Products, NEW row \in ProductRows,
           products' = [products EXCEPT ![p] = row]
    PROVE  RowChange(p, row)
  BY StockFields DEF RowChange

LEMMA StoreImageKeeps ==
    ASSUME PhotoInv, DeskTypes, NEW c \in Clerks, StoreImage(c)
    PROVE  PhotoInv' /\ DeskTypes'
  <1> DEFINE p == clerks[c].product
             f == clerks[c].file
             row == [products[p] EXCEPT !.image = f]
             x == [clerks[c] EXCEPT !.op = "unlink", !.file = NoFile]
  <1>1. /\ clerks[c].op = "store" /\ products' = [products EXCEPT ![p] = row]
        /\ clerks' = [clerks EXCEPT ![c] = x]
        /\ UNCHANGED <<categories, movements, files, named, overtaken>>
    BY DEF StoreImage, AtWork
  <1>2. /\ x \in ClerkRows /\ x.op = "unlink" /\ x.product = p /\ x.seen = clerks[c].seen
    BY StockFields DEF DeskTypes, ClerkRows, Ops
  <1>3. p \in Products /\ Exists(p) /\ f \in files /\ f \in Files /\ f \in named
    BY <1>1 DEF DeskTypes, OpsFit, Ops, PhotoInv, FileIsFresh, StockTypeOK
  <1>4. products[p] \in ProductRows
    BY <1>3, StockFields DEF DeskTypes
  <1> HIDE DEF x, f, p
  <1>5. row \in ProductRows /\ row.image = f /\ row.state = products[p].state
    BY <1>3, <1>4 DEF ProductRows
  <1> HIDE DEF row
  <1>6. RowChange(p, row)
    BY <1>1, <1>3, <1>5, RowsChange DEF DeskTypes
  <1>7. \A q \in Products : Exists(q) => Exists(q)'
    BY <1>5, <1>6 DEF RowChange, Exists
  <1>8. DeskTypes' /\ \A d \in Clerks : clerks'[d] = IF d = c THEN x ELSE clerks[d]
    BY <1>1, <1>2, <1>3, <1>6, <1>7, ClerkMoves DEF DeskTypes, StockTypeOK, RowChange
  <1>9. /\ \A d \in Clerks : SeenImage(d)' = SeenImage(d)
        /\ \A q \in Products : Image(q)' = IF q = p THEN f ELSE Image(q)
        /\ \A q \in Products : products'[q].state = products[q].state
    BY <1>2, <1>5, <1>6, <1>8 DEF SeenImage, Image, RowChange
  <1>10. /\ f # NoFile /\ \A q \in Products : Image(q) # f
         /\ \A d \in Clerks : SeenImage(d) # f
         /\ \A d \in Clerks \ {c} : clerks[d].op = "store" => clerks[d].file # f
    BY <1>1, <1>3, StockDeskAssumption DEF PhotoInv, FileIsFresh, f
  <1>11. ImagesAreOwn'
    BY <1>1, <1>3, <1>9, <1>10 DEF PhotoInv, ImagesAreOwn, Exists
  <1>12. ShownImagesExist'
    BY <1>1, <1>3, <1>9 DEF PhotoInv, ShownImagesExist, Image
  <1>13. ASSUME NEW d \in Clerks PROVE SeenIsOwn(d)'
    BY <1>1, <1>2, <1>8, <1>9, <1>10 DEF PhotoInv, SeenIsOwn, p
  <1>14. ASSUME NEW d \in Clerks PROVE FileIsFresh(d)'
    BY <1>1, <1>2, <1>8, <1>9, <1>10 DEF PhotoInv, FileIsFresh
  <1> QED
    BY <1>8, <1>11, <1>12, <1>13, <1>14 DEF PhotoInv

\* A file goes that no live product shows and no other request holds.
LEMMA FileGoes ==
    ASSUME PhotoInv, DeskTypes, NEW c \in Clerks, NEW f, files' = files \ {f},
           UNCHANGED <<products, categories, movements, named, overtaken>>,
           clerks' = [clerks EXCEPT ![c] = AtEase],
           \A p \in Products : products[p].state = "live" => Image(p) # f,
           \A d \in Clerks \ {c} : clerks[d].op = "store" => clerks[d].file # f
    PROVE  PhotoInv' /\ DeskTypes'
  <1>1. DeskTypes' /\ \A d \in Clerks : clerks'[d] = IF d = c THEN AtEase ELSE clerks[d]
    BY ClerkMoves, IdleRow DEF DeskTypes, StockTypeOK, Exists
  <1>2. \A d \in Clerks : SeenImage(d)' = IF d = c THEN NoFile ELSE SeenImage(d)
    BY <1>1, IdleRow, UnmadeRow DEF SeenImage
  <1>3. ImagesAreOwn' /\ ShownImagesExist'
    BY DEF PhotoInv, ImagesAreOwn, ShownImagesExist, Image
  <1>4. ASSUME NEW d \in Clerks PROVE SeenIsOwn(d)'
    BY <1>1, <1>2 DEF PhotoInv, SeenIsOwn, Image
  <1>5. ASSUME NEW d \in Clerks PROVE FileIsFresh(d)'
    <2>1. clerks[d].op = "store" => clerks[d].file # NoFile
      BY StockDeskAssumption DEF PhotoInv, FileIsFresh, DeskTypes, StockTypeOK
    <2> QED
      BY <1>1, <1>2, <2>1, IdleRow DEF PhotoInv, FileIsFresh, Image
  <1> QED
    BY <1>1, <1>3, <1>4, <1>5 DEF PhotoInv

LEMMA UnwriteFilesKeeps ==
    ASSUME PhotoInv, DeskTypes, NEW c \in Clerks, UnwriteFiles(c)
    PROVE  PhotoInv' /\ DeskTypes'
  <1> DEFINE f == clerks[c].file
  <1>1. /\ clerks[c].op = "store" /\ files' = files \ {f}
        /\ clerks' = [clerks EXCEPT ![c] = AtEase]
        /\ UNCHANGED <<products, categories, movements, named, overtaken>>
    BY DEF UnwriteFiles, AtWork, Finished
  <1>2. /\ \A q \in Products : products[q].state = "live" => Image(q) # f
        /\ \A d \in Clerks \ {c} : clerks[d].op = "store" => clerks[d].file # f
    BY <1>1 DEF PhotoInv, FileIsFresh
  <1> HIDE DEF f
  <1> QED
    BY <1>1, <1>2, FileGoes

LEMMA DeleteMediaFileKeeps ==
    ASSUME PhotoInv, DeskTypes, NEW c \in Clerks, DeleteMediaFile(c)
    PROVE  PhotoInv' /\ DeskTypes'
  <1>1. /\ clerks[c].op = "unlink" /\ files' = files \ {SeenImage(c)}
        /\ clerks' = [clerks EXCEPT ![c] = AtEase]
        /\ UNCHANGED <<products, categories, movements, named, overtaken>>
    BY DEF DeleteMediaFile, AtWork, Finished, SeenImage
  <1>2. \A d \in Clerks \ {c} : clerks[d].op = "store" => clerks[d].file # SeenImage(c)
    BY DEF PhotoInv, FileIsFresh
  <1>3. CASE SeenImage(c) = NoFile
    <2>1. files' = files
      BY <1>1, <1>3, StockDeskAssumption DEF DeskTypes, StockTypeOK
    <2>2. PhotoInv'
      BY <1>1, <2>1, IdleImages
    <2>3. DeskTypes'
      BY <1>1, <2>1, ClerkMoves, IdleRow DEF DeskTypes, StockTypeOK, Exists
    <2> QED
      BY <2>2, <2>3
  <1>4. CASE SeenImage(c) # NoFile
    <2>1. \A p \in Products : products[p].state = "live" => Image(p) # SeenImage(c)
      BY <1>1, <1>4 DEF PhotoInv, SeenIsOwn
    <2> QED
      BY <1>1, <1>2, <2>1, FileGoes
  <1> QED
    BY <1>3, <1>4

\* A request begins: nothing is written.
LEMMA ReadsKeep ==
    ASSUME PhotoInv, DeskTypes, NEW c \in Clerks,
           NEW op \in {"update", "delete", "upload", "clear", "adjust", "move"},
           NEW p \in Products, NEW columns, Reads(c, op, p, columns),
           UNCHANGED <<products, categories, movements, files, named, overtaken>>
    PROVE  /\ PhotoInv' /\ DeskTypes'
           /\ clerks'[c].op = op /\ clerks'[c].product = p
           /\ clerks'[c].seen = SeenColumns(p, columns)
           /\ \A d \in Clerks \ {c} : clerks'[d] = clerks[d]
  <1>1. op \in Ops \ {"idle", "drop_category"} /\ op \notin {"store", "unlink"} /\ Exists(p)
    BY DEF Ops, Reads
  <1>2. PICK x \in ClerkRows :
           /\ clerks' = [clerks EXCEPT ![c] = x]
           /\ x.op = op /\ x.product = p /\ x.seen = SeenColumns(p, columns)
    BY <1>1, ReadsRow DEF DeskTypes
  <1>3. DeskTypes' /\ \A d \in Clerks : clerks'[d] = IF d = c THEN x ELSE clerks[d]
    BY <1>1, <1>2, ClerkMoves DEF DeskTypes, StockTypeOK, Exists
  <1>4. SeenColumns(p, columns).image = Image(p) \/ SeenColumns(p, columns).image = NoFile
    BY SeenRow, StockFields DEF DeskTypes, Image
  <1>5. \A q \in Products : products'[q] = products[q]
    OBVIOUS
  <1>6. \A q \in Products : products[q].state \in {"none", "live", "deleted"}
    BY StockFields DEF DeskTypes, ProductRows
  <1>7. PhotoInv'
    BY <1>1, <1>2, <1>3, <1>4, <1>5, <1>6, ImagesStay DEF Image
  <1> QED
    BY <1>2, <1>3, <1>7

\* A request writes a row, its image apart, and ends.
LEMMA RowFinishes ==
    ASSUME PhotoInv, DeskTypes, NEW c \in Clerks, NEW p \in Products, NEW row \in ProductRows,
           RowChange(p, row), Finished(c), row.image = Image(p), row.state = products[p].state,
           movements' \in [Products -> [sum : Int, tenants : SUBSET Tenants]],
           overtaken' \subseteq Products, UNCHANGED <<categories, files, named>>
    PROVE  PhotoInv' /\ DeskTypes'
  <1>1. clerks' = [clerks EXCEPT ![c] = AtEase]
    BY DEF Finished
  <1>2. \A q \in Products : /\ products'[q].image = products[q].image
                            /\ products'[q].state = products[q].state
    BY DEF RowChange, Image
  <1>3. PhotoInv'
    BY <1>1, <1>2, IdleImages
  <1>4. DeskTypes'
    BY <1>1, <1>2, ClerkMoves, IdleRow DEF DeskTypes, StockTypeOK, Exists, RowChange
  <1> QED
    BY <1>3, <1>4

\* ... or a request does it in one transaction.
LEMMA RowWritten ==
    ASSUME PhotoInv, DeskTypes, NEW p \in Products, NEW row \in ProductRows,
           RowChange(p, row), row.image = Image(p), row.state # "none",
           products[p].state \in {"none", row.state},
           movements' \in [Products -> [sum : Int, tenants : SUBSET Tenants]],
           UNCHANGED <<clerks, categories, files, named, overtaken>>
    PROVE  PhotoInv' /\ DeskTypes'
  <1>1. row.state \in {"live", "deleted"}
    BY DEF ProductRows
  <1>2. \A q \in Products : products[q].state \in {"none", "live", "deleted"}
    BY StockFields DEF DeskTypes, ProductRows
  <1>3. products[p].state = "none" => Image(p) = NoFile
    BY DEF PhotoInv, ImagesAreOwn
  <1>4. PhotoInv'
    BY <1>1, <1>2, <1>3, ImagesStay DEF RowChange, Image
  <1>5. DeskTypes'
    BY RowsMove DEF RowChange, Exists
  <1> QED
    BY <1>4, <1>5

\* A product goes, or its image does, and the file is to be deleted next.
LEMMA CommitDeleteKeeps ==
    ASSUME PhotoInv, DeskTypes, NEW c \in Clerks, CommitDelete(c)
    PROVE  PhotoInv' /\ DeskTypes'
  <1> DEFINE p == clerks[c].product
             row == [products[p] EXCEPT !.state = "deleted"]
             x == [clerks[c] EXCEPT !.op = "unlink", !.file = NoFile]
  <1>1. /\ clerks[c].op = "delete" /\ products' = [products EXCEPT ![p] = row]
        /\ clerks' = [clerks EXCEPT ![c] = x]
        /\ UNCHANGED <<categories, movements, files, named, overtaken>>
    BY DEF CommitDelete, AtWork
  <1>2. /\ x \in ClerkRows /\ x.op = "unlink" /\ x.product = p /\ x.seen = clerks[c].seen
    BY StockFields DEF DeskTypes, ClerkRows, Ops
  <1>3. p \in Products /\ Exists(p)
    BY <1>1 DEF DeskTypes, OpsFit, Ops
  <1>4. products[p] \in ProductRows
    BY <1>3, StockFields DEF DeskTypes
  <1> HIDE DEF x
  <1>5. row \in ProductRows /\ row.image = Image(p) /\ row.state = "deleted"
    BY <1>3, <1>4 DEF ProductRows, Image
  <1> HIDE DEF row
  <1>6. RowChange(p, row)
    BY <1>1, <1>3, <1>5, RowsChange DEF DeskTypes
  <1>7. \A q \in Products : Exists(q) => Exists(q)'
    BY <1>5, <1>6 DEF RowChange, Exists
  <1>8. DeskTypes' /\ \A d \in Clerks : clerks'[d] = IF d = c THEN x ELSE clerks[d]
    BY <1>1, <1>2, <1>3, <1>6, <1>7, ClerkMoves DEF DeskTypes, StockTypeOK, RowChange
  <1>9. /\ \A d \in Clerks : SeenImage(d)' = SeenImage(d)
        /\ \A q \in Products : Image(q)' = Image(q)
        /\ \A q \in Products : products'[q].state = IF q = p THEN "deleted" ELSE products[q].state
    BY <1>2, <1>5, <1>6, <1>8 DEF SeenImage, Image, RowChange
  <1>10. ImagesAreOwn'
    BY <1>1, <1>3, <1>9 DEF PhotoInv, ImagesAreOwn
  <1>11. ShownImagesExist'
    BY <1>1, <1>3, <1>9 DEF PhotoInv, ShownImagesExist, Image
  <1> HIDE DEF p
  <1>12. ASSUME NEW d \in Clerks PROVE SeenIsOwn(d)'
    <2>1. clerks'[d].product = clerks[d].product
      BY <1>2, <1>8 DEF p
    <2>2. d = c => clerks[d].product = p
      BY DEF p
    <2> QED
      BY <1>1, <1>2, <1>3, <1>8, <1>9, <2>1, <2>2 DEF PhotoInv, SeenIsOwn
  <1>13. ASSUME NEW d \in Clerks PROVE FileIsFresh(d)'
    BY <1>1, <1>2, <1>8, <1>9 DEF PhotoInv, FileIsFresh
  <1> QED
    BY <1>8, <1>10, <1>11, <1>12, <1>13 DEF PhotoInv

LEMMA ClearImageKeeps ==
    ASSUME PhotoInv, DeskTypes, NEW c \in Clerks, ClearImage(c)
    PROVE  PhotoInv' /\ DeskTypes'
  <1> DEFINE p == clerks[c].product
             gone == IF SeenImage(c) = NoFile THEN Image(p) ELSE NoFile
             row == [products[p] EXCEPT !.image = gone]
             x == [clerks[c] EXCEPT !.op = "unlink", !.file = NoFile]
  <1>1. /\ clerks[c].op = "clear" /\ products' = [products EXCEPT ![p] = row]
        /\ clerks' = [clerks EXCEPT ![c] = x]
        /\ UNCHANGED <<categories, movements, files, named, overtaken>>
    BY DEF ClearImage, AtWork, SeenImage, Image
  <1>2. /\ x \in ClerkRows /\ x.op = "unlink" /\ x.product = p /\ x.seen = clerks[c].seen
    BY StockFields DEF DeskTypes, ClerkRows, Ops
  <1>3. p \in Products /\ Exists(p)
    BY <1>1 DEF DeskTypes, OpsFit, Ops
  <1>4. products[p] \in ProductRows /\ gone \in Files \cup {NoFile}
    BY <1>3, StockFields DEF DeskTypes, Image, ProductRows
  <1>5. gone \in {Image(p), NoFile} /\ (SeenImage(c) # NoFile => gone = NoFile)
    OBVIOUS
  <1> HIDE DEF x, gone
  <1>6. row \in ProductRows /\ row.image = gone /\ row.state = products[p].state
    BY <1>3, <1>4 DEF ProductRows
  <1> HIDE DEF row
  <1>7. RowChange(p, row)
    BY <1>1, <1>3, <1>6, RowsChange DEF DeskTypes
  <1>8. \A q \in Products : Exists(q) => Exists(q)'
    BY <1>6, <1>7 DEF RowChange, Exists
  <1>9. DeskTypes' /\ \A d \in Clerks : clerks'[d] = IF d = c THEN x ELSE clerks[d]
    BY <1>1, <1>2, <1>3, <1>7, <1>8, ClerkMoves DEF DeskTypes, StockTypeOK, RowChange
  <1>10. /\ \A d \in Clerks : SeenImage(d)' = SeenImage(d)
         /\ \A q \in Products : Image(q)' = IF q = p THEN gone ELSE Image(q)
         /\ \A q \in Products : products'[q].state = products[q].state
    BY <1>2, <1>6, <1>7, <1>9 DEF SeenImage, Image, RowChange
  <1>11. ImagesAreOwn'
    BY <1>1, <1>3, <1>5, <1>10 DEF PhotoInv, ImagesAreOwn
  <1>12. ShownImagesExist'
    BY <1>1, <1>3, <1>5, <1>10 DEF PhotoInv, ShownImagesExist, Image
  <1> HIDE DEF p
  <1>13. ASSUME NEW d \in Clerks PROVE SeenIsOwn(d)'
    <2>1. clerks'[d].product = clerks[d].product
      BY <1>2, <1>9 DEF p
    <2>2. d = c => clerks[d].product = p
      BY DEF p
    <2> QED
      BY <1>1, <1>2, <1>3, <1>5, <1>9, <1>10, <2>1, <2>2 DEF PhotoInv, SeenIsOwn
  <1>14. ASSUME NEW d \in Clerks PROVE FileIsFresh(d)'
    <2>1. clerks[d].op = "store" => clerks[d].file # NoFile
      BY StockDeskAssumption DEF PhotoInv, FileIsFresh, DeskTypes, StockTypeOK
    <2> QED
      BY <1>1, <1>2, <1>5, <1>9, <1>10, <2>1 DEF PhotoInv, FileIsFresh
  <1> QED
    BY <1>9, <1>11, <1>12, <1>13, <1>14 DEF PhotoInv

-----------------------------------------------------------------------------
(* StockDesk: the movements *)

\* An update holds its row's lock, so what it read still stands.
LockHolds(c) ==
    clerks[c].op = "update" =>
       /\ clerks[c].seen.stock = products[clerks[c].product].stock
       /\ \A d \in Clerks \ {c} : clerks[d].op = "update" =>
                                     clerks[d].product # clerks[c].product

StockInv ==
    /\ \A c \in Clerks : LockHolds(c)
    /\ \A p \in Products : ~Exists(p) => products[p].stock = 0
    /\ MovementsExplainStock

\* Steps that leave the stock and the movements alone.
LEMMA StockStays ==
    ASSUME StockInv,
           \A p \in Products : /\ products'[p].stock = products[p].stock
                               /\ Exists(p) => Exists(p)',
           \A d \in Clerks : clerks'[d].op = "update" => clerks'[d] = clerks[d],
           UNCHANGED <<movements, overtaken>>,
           \A d \in Clerks : clerks[d].op = "update" => clerks[d].product \in Products
    PROVE  StockInv'
  <1>1. \A d \in Clerks : LockHolds(d)'
    BY DEF StockInv, LockHolds
  <1>2. \A p \in Products : ~Exists(p)' => products'[p].stock = 0
    BY DEF StockInv
  <1>3. MovementsExplainStock'
    BY DEF StockInv, MovementsExplainStock
  <1> QED
    BY <1>1, <1>2, <1>3 DEF StockInv, Exists

\* A step that writes the stock of a product no update is under way on.
LEMMA StockMoves ==
    ASSUME StockInv, DeskTypes, NEW p \in Products, NEW row \in ProductRows,
           RowChange(p, row), row.state # "none",
           overtaken \subseteq overtaken',
           \A q \in Products \ {p} : movements'[q].sum = movements[q].sum,
           p \notin overtaken' => movements'[p].sum = row.stock,
           \A d \in Clerks : clerks'[d].op = "update" =>
                                clerks'[d] = clerks[d] /\ clerks[d].product # p
    PROVE  StockInv'
  <1>1. ASSUME NEW d \in Clerks PROVE LockHolds(d)'
    <2>1. clerks[d].op = "update" => clerks[d].product \in Products
      BY DEF DeskTypes, OpsFit, Ops
    <2> QED
      BY <2>1 DEF StockInv, LockHolds, RowChange
  <1>2. \A q \in Products : ~Exists(q)' => products'[q].stock = 0
    BY DEF StockInv, Exists, RowChange
  <1>3. MovementsExplainStock'
    BY DEF StockInv, MovementsExplainStock, RowChange
  <1> QED
    BY <1>1, <1>2, <1>3 DEF StockInv, Exists

MovementSums == [sum : Int, tenants : SUBSET Tenants]

LEMMA MovedSums ==
    ASSUME StockTypeOK, NEW p \in Products, NEW delta \in Int, NEW t \in Tenants,
           Moved(p, delta, t)
    PROVE  /\ movements' \in [Products -> [sum : Int, tenants : SUBSET Tenants]]
           /\ movements'[p].sum = movements[p].sum + delta
           /\ \A q \in Products \ {p} : movements'[q].sum = movements[q].sum
  <1> DEFINE m == [movements EXCEPT ![p].sum = movements[p].sum + delta]
             tenants == movements[p].tenants \cup {t}
  <1>1. movements \in [Products -> MovementSums]
    BY DEF StockTypeOK, MovementSums
  <1>2. movements[p].sum + delta \in Int /\ tenants \in SUBSET Tenants
    BY <1>1 DEF MovementSums
  <1>3. /\ m \in [Products -> MovementSums] /\ m[p].sum = movements[p].sum + delta
        /\ m[p].tenants = movements[p].tenants
        /\ \A q \in Products \ {p} : m[q] = movements[q]
    BY <1>1, <1>2 DEF MovementSums
  <1>4. movements' = [m EXCEPT ![p].tenants = m[p].tenants \cup {t}]
    BY <1>1 DEF Moved
  <1>5. movements' = [m EXCEPT ![p].tenants = tenants]
    BY <1>3, <1>4
  <1> HIDE DEF m, tenants
  <1>6. /\ movements' \in [Products -> MovementSums] /\ movements'[p].sum = m[p].sum
        /\ \A q \in Products \ {p} : movements'[q] = m[q]
    BY <1>2, <1>3, <1>5 DEF MovementSums
  <1> QED
    BY <1>3, <1>6 DEF MovementSums

DeskBooks == DeskTypes /\ PhotoInv /\ StockInv

LEMMA CreateProductKeeps ==
    ASSUME DeskBooks, NEW c \in Clerks, NEW p \in Products, NEW t \in Tenants,
           NEW k \in Categories \cup {NoCategory}, NEW n \in 0..1, CreateProduct(c, p, t, k, n)
    PROVE  DeskBooks'
  <1> DEFINE row == [Unmade EXCEPT !.tenant = t, !.category = k, !.stock = n, !.state = "live"]
  <1>1. /\ ~Exists(p) /\ n \in 0..MaxStock /\ products' = [products EXCEPT ![p] = row]
        /\ IF n = 0 THEN UNCHANGED movements ELSE Moved(p, n, t)
        /\ UNCHANGED <<categories, files, named, clerks, overtaken>>
    BY DEF CreateProduct, InStock
  <1>2. row \in ProductRows /\ row.image = NoFile /\ row.state = "live" /\ row.stock = n
    BY <1>1, UnmadeRow DEF ProductRows
  <1> HIDE DEF row
  <1>3. RowChange(p, row)
    BY <1>1, <1>2, RowsChange DEF DeskBooks, DeskTypes
  <1>4. products[p].state = "none" /\ products[p].stock = 0 /\ Image(p) = NoFile
    BY <1>1 DEF DeskBooks, StockInv, PhotoInv, ImagesAreOwn, Exists
  <1>5. /\ movements' \in [Products -> [sum : Int, tenants : SUBSET Tenants]]
        /\ movements'[p].sum = movements[p].sum + n
        /\ \A q \in Products \ {p} : movements'[q].sum = movements[q].sum
    BY <1>1, MovedSums, StockFields DEF DeskBooks, DeskTypes, StockTypeOK
  <1>6. \A d \in Clerks : clerks[d].op = "update" => clerks[d].product # p
    BY <1>1 DEF DeskBooks, DeskTypes, OpsFit, Ops
  <1>7. p \notin overtaken => movements[p].sum = 0
    BY <1>4 DEF DeskBooks, StockInv, MovementsExplainStock
  <1>8. PhotoInv' /\ DeskTypes'
    BY <1>1, <1>2, <1>3, <1>4, <1>5, RowWritten DEF DeskBooks
  <1>9. p \notin overtaken' => movements'[p].sum = row.stock
    BY <1>1, <1>2, <1>5, <1>7
  <1>10. StockInv'
    BY <1>1, <1>2, <1>3, <1>5, <1>6, <1>9, StockMoves DEF DeskBooks
  <1> QED
    BY <1>8, <1>10 DEF DeskBooks

LEMMA ReceiveAdHocKeeps ==
    ASSUME DeskBooks, NEW c \in Clerks, NEW p \in Products, NEW n \in Adjustments,
           ReceiveAdHoc(c, p, n)
    PROVE  DeskBooks'
  <1> DEFINE row == [products[p] EXCEPT !.stock = @ + n]
  <1>1. /\ Exists(p) /\ ~LockedRow(p) /\ products[p].stock + n \in 0..MaxStock
        /\ products' = [products EXCEPT ![p] = row] /\ Moved(p, n, products[p].tenant)
        /\ UNCHANGED <<categories, files, named, clerks, overtaken>>
    BY DEF ReceiveAdHoc, InStock
  <1>2. products[p] \in ProductRows /\ n \in Int /\ products[p].tenant \in Tenants
    BY StockFields, StockDeskAssumption DEF DeskBooks, DeskTypes, ProductRows
  <1>3. /\ row \in ProductRows /\ row.image = Image(p) /\ row.state = products[p].state
        /\ row.stock = products[p].stock + n
    BY <1>1, <1>2 DEF ProductRows, Image
  <1> HIDE DEF row
  <1>4. RowChange(p, row)
    BY <1>1, <1>3, RowsChange DEF DeskBooks, DeskTypes
  <1>5. /\ movements' \in [Products -> [sum : Int, tenants : SUBSET Tenants]]
        /\ movements'[p].sum = movements[p].sum + n
        /\ \A q \in Products \ {p} : movements'[q].sum = movements[q].sum
    BY <1>1, <1>2, MovedSums DEF DeskBooks, DeskTypes
  <1>6. \A d \in Clerks : clerks[d].op = "update" => clerks[d].product # p
    BY <1>1 DEF LockedRow
  <1>7. p \notin overtaken => movements[p].sum = products[p].stock
    BY DEF DeskBooks, StockInv, MovementsExplainStock
  <1>8. row.state # "none"
    BY <1>1, <1>3 DEF Exists
  <1>9. PhotoInv' /\ DeskTypes'
    BY <1>1, <1>3, <1>4, <1>5, <1>8, RowWritten DEF DeskBooks
  <1>10. p \notin overtaken' => movements'[p].sum = row.stock
    BY <1>1, <1>3, <1>5, <1>7
  <1>11. StockInv'
    BY <1>1, <1>3, <1>4, <1>5, <1>6, <1>8, <1>10, StockMoves DEF DeskBooks
  <1> QED
    BY <1>9, <1>11 DEF DeskBooks

LEMMA AfterMove ==
    ASSUME NEW seen \in ProductRows, NEW t \in Tenants, NEW chosen \in BOOLEAN,
           NEW k \in Categories \cup {NoCategory}
    PROVE  CategoryAfterMove(seen, t, chosen, k) \in Categories \cup {NoCategory}
  BY DEF CategoryAfterMove, ProductRows

LEMMA CommitUpdateKeeps ==
    ASSUME DeskBooks, NEW c \in Clerks, NEW t \in Tenants, NEW chosen \in BOOLEAN,
           NEW k \in Categories \cup {NoCategory}, NEW delta \in Adjustments \cup {0},
           CommitUpdate(c, t, chosen, k, delta)
    PROVE  DeskBooks'
  <1> DEFINE p == clerks[c].product
             seen == clerks[c].seen
             stock == IF delta = 0 THEN products[p].stock ELSE seen.stock + delta
             category == IF t # seen.tenant THEN CategoryAfterMove(seen, t, chosen, k)
                         ELSE IF chosen THEN k ELSE products[p].category
             row == [products[p] EXCEPT !.tenant = t, !.stock = stock, !.category = category]
  <1>1. /\ clerks[c].op = "update" /\ seen.stock + delta \in 0..MaxStock
        /\ IF delta = 0 THEN UNCHANGED movements ELSE Moved(p, delta, t)
        /\ Finished(c) /\ UNCHANGED <<categories, files, named, overtaken>>
    BY DEF CommitUpdate, AtWork, InStock
  <1>2. p \in Products /\ Exists(p)
    BY <1>1 DEF DeskBooks, DeskTypes, OpsFit, Ops
  <1>3. products[p] \in ProductRows /\ seen \in ProductRows /\ delta \in Int
    <2>1. StockTypeOK
      BY DEF DeskBooks, DeskTypes
    <2>2. products[p] \in ProductRows /\ seen \in ProductRows
      BY <1>2, <2>1, StockFields
    <2>3. delta \in Int
      BY StockDeskAssumption
    <2> QED
      BY <2>2, <2>3
  <1>4. products' = [products EXCEPT ![p] = row]
    BY <1>2, <1>3, StockFields DEF CommitUpdate, DeskBooks, DeskTypes
  <1>5. category \in Categories \cup {NoCategory}
    BY <1>3, AfterMove DEF ProductRows
  <1>6. stock \in 0..MaxStock /\ stock = products[p].stock + delta
    BY <1>1, <1>3 DEF DeskBooks, StockInv, LockHolds, ProductRows
  <1> HIDE DEF stock, category
  <1>7. /\ row \in ProductRows /\ row.image = Image(p) /\ row.state = products[p].state
        /\ row.stock = stock
    BY <1>3, <1>5, <1>6 DEF ProductRows, Image
  <1> HIDE DEF row
  <1>8. RowChange(p, row)
    BY <1>2, <1>4, <1>7, RowsChange DEF DeskBooks, DeskTypes
  <1>9. /\ movements' \in [Products -> [sum : Int, tenants : SUBSET Tenants]]
        /\ movements'[p].sum = movements[p].sum + delta
        /\ \A q \in Products \ {p} : movements'[q].sum = movements[q].sum
    BY <1>1, <1>2, <1>3, MovedSums, StockFields DEF DeskBooks, DeskTypes, StockTypeOK
  <1>10. \A d \in Clerks : clerks'[d] = IF d = c THEN AtEase ELSE clerks[d]
    BY <1>1, StockFields DEF DeskBooks, DeskTypes, Finished
  <1>11. \A d \in Clerks : clerks'[d].op = "update" =>
                              clerks'[d] = clerks[d] /\ clerks[d].product # p
    BY <1>1, <1>10, IdleRow DEF DeskBooks, StockInv, LockHolds
  <1>12. p \notin overtaken => movements[p].sum = products[p].stock
    BY <1>2 DEF DeskBooks, StockInv, MovementsExplainStock
  <1>13. p \notin overtaken' => movements'[p].sum = row.stock
    BY <1>1, <1>6, <1>7, <1>9, <1>12
  <1>14. row.state # "none" /\ overtaken' \subseteq Products
    BY <1>1, <1>2, <1>7 DEF Exists, DeskBooks, DeskTypes, StockTypeOK
  <1> HIDE DEF p
  <1>15. PhotoInv' /\ DeskTypes'
    BY <1>1, <1>2, <1>7, <1>8, <1>9, <1>14, RowFinishes DEF DeskBooks
  <1>16. StockInv'
    BY <1>1, <1>2, <1>7, <1>8, <1>9, <1>11, <1>13, <1>14, StockMoves DEF DeskBooks
  <1> QED
    BY <1>15, <1>16 DEF DeskBooks

LEMMA CommitAdjustKeeps ==
    ASSUME DeskBooks, NEW c \in Clerks, NEW delta \in Adjustments, CommitAdjust(c, delta)
    PROVE  DeskBooks'
  <1> DEFINE p == clerks[c].product
             seen == clerks[c].seen
             row == [products[p] EXCEPT !.stock = seen.stock + delta]
  <1>1. /\ clerks[c].op = "adjust" /\ ~LockedRow(p) /\ seen.stock + delta \in 0..MaxStock
        /\ products' = [products EXCEPT ![p] = row] /\ Moved(p, delta, seen.tenant)
        /\ overtaken' = overtaken \cup (IF products[p].stock # seen.stock THEN {p} ELSE {})
        /\ Finished(c) /\ UNCHANGED <<categories, files, named>>
    BY DEF CommitAdjust, AtWork, InStock
  <1>2. p \in Products /\ Exists(p)
    BY <1>1 DEF DeskBooks, DeskTypes, OpsFit, Ops
  <1>3. /\ products[p] \in ProductRows /\ seen \in ProductRows /\ delta \in Int
        /\ seen.tenant \in Tenants
    BY <1>2, StockFields, StockDeskAssumption DEF DeskBooks, DeskTypes, ProductRows
  <1>4. /\ row \in ProductRows /\ row.image = Image(p) /\ row.state = products[p].state
        /\ row.stock = seen.stock + delta
    BY <1>1, <1>3 DEF ProductRows, Image
  <1> HIDE DEF row
  <1>5. RowChange(p, row)
    BY <1>1, <1>2, <1>4, RowsChange DEF DeskBooks, DeskTypes
  <1>6. /\ movements' \in [Products -> [sum : Int, tenants : SUBSET Tenants]]
        /\ movements'[p].sum = movements[p].sum + delta
        /\ \A q \in Products \ {p} : movements'[q].sum = movements[q].sum
    BY <1>1, <1>2, <1>3, MovedSums DEF DeskBooks, DeskTypes
  <1>7. \A d \in Clerks : clerks'[d] = IF d = c THEN AtEase ELSE clerks[d]
    BY <1>1, StockFields DEF DeskBooks, DeskTypes, Finished
  <1>8. \A d \in Clerks : clerks'[d].op = "update" =>
                             clerks'[d] = clerks[d] /\ clerks[d].product # p
    BY <1>1, <1>7, IdleRow DEF LockedRow
  <1>9. p \notin overtaken => movements[p].sum = products[p].stock
    BY <1>2 DEF DeskBooks, StockInv, MovementsExplainStock
  <1>10. p \notin overtaken' => products[p].stock = seen.stock /\ p \notin overtaken
    BY <1>1
  <1>11. p \notin overtaken' => movements'[p].sum = row.stock
    BY <1>4, <1>6, <1>9, <1>10
  <1>12. /\ row.state # "none" /\ overtaken' \subseteq Products
         /\ overtaken \subseteq overtaken'
    BY <1>1, <1>2, <1>4 DEF Exists, DeskBooks, DeskTypes, StockTypeOK
  <1> HIDE DEF p
  <1>13. PhotoInv' /\ DeskTypes'
    BY <1>1, <1>2, <1>4, <1>5, <1>6, <1>12, RowFinishes DEF DeskBooks
  <1>14. StockInv'
    BY <1>1, <1>2, <1>4, <1>5, <1>6, <1>8, <1>11, <1>12, StockMoves DEF DeskBooks
  <1> QED
    BY <1>13, <1>14 DEF DeskBooks

LEMMA CommitMoveKeeps ==
    ASSUME DeskBooks, NEW c \in Clerks, NEW t \in Tenants, NEW chosen \in BOOLEAN,
           NEW k \in Categories \cup {NoCategory}, CommitMove(c, t, chosen, k)
    PROVE  DeskBooks'
  <1> DEFINE p == clerks[c].product
             seen == clerks[c].seen
             after == CategoryAfterMove(seen, t, chosen, k)
             category == IF after = seen.category THEN products[p].category ELSE after
             row == [products[p] EXCEPT !.tenant = t, !.category = category]
  <1>1. /\ clerks[c].op = "move" /\ Finished(c)
        /\ UNCHANGED <<categories, movements, files, named, overtaken>>
    BY DEF CommitMove, AtWork
  <1>2. p \in Products /\ Exists(p)
    BY <1>1 DEF DeskBooks, DeskTypes, OpsFit, Ops
  <1>3. products[p] \in ProductRows /\ seen \in ProductRows
    BY <1>2, StockFields DEF DeskBooks, DeskTypes
  <1>4. products' = [products EXCEPT ![p] = row]
    BY <1>2, <1>3, StockFields DEF CommitMove, DeskBooks, DeskTypes
  <1>5. category \in Categories \cup {NoCategory}
    BY <1>3, AfterMove DEF ProductRows
  <1> HIDE DEF category
  <1>6. /\ row \in ProductRows /\ row.image = Image(p) /\ row.state = products[p].state
        /\ row.stock = products[p].stock
    BY <1>3, <1>5 DEF ProductRows, Image
  <1> HIDE DEF row
  <1>7. RowChange(p, row)
    BY <1>2, <1>4, <1>6, RowsChange DEF DeskBooks, DeskTypes
  <1>8. \A d \in Clerks : clerks'[d] = IF d = c THEN AtEase ELSE clerks[d]
    BY <1>1, StockFields DEF DeskBooks, DeskTypes, Finished
  <1>9. /\ movements' \in [Products -> [sum : Int, tenants : SUBSET Tenants]]
        /\ overtaken' \subseteq Products
    BY <1>1 DEF DeskBooks, DeskTypes, StockTypeOK
  <1> HIDE DEF p
  <1>10. PhotoInv' /\ DeskTypes'
    BY <1>1, <1>2, <1>6, <1>7, <1>9, RowFinishes DEF DeskBooks
  <1>11. \A q \in Products : products'[q].stock = products[q].stock /\ (Exists(q) => Exists(q)')
    BY <1>6, <1>7 DEF RowChange, Exists
  <1>12. \A d \in Clerks : clerks'[d].op = "update" => clerks'[d] = clerks[d]
    BY <1>8, IdleRow
  <1>13. \A d \in Clerks : clerks[d].op = "update" => clerks[d].product \in Products
    BY DEF DeskBooks, DeskTypes, OpsFit, Ops
  <1>14. StockInv'
    BY <1>1, <1>11, <1>12, <1>13, StockStays DEF DeskBooks
  <1> QED
    BY <1>10, <1>14 DEF DeskBooks

\* Requests that begin.
LEMMA StartUpdateKeeps ==
    ASSUME DeskBooks, NEW c \in Clerks, NEW p \in Products, StartUpdate(c, p)
    PROVE  DeskBooks'
  <1> DEFINE columns == {"tenant", "category", "stock"}
  <1>1. /\ ~LockedRow(p) /\ Reads(c, "update", p, columns)
        /\ UNCHANGED <<products, categories, movements, files, named, overtaken>>
    BY DEF StartUpdate
  <1>2. "stock" \in columns
    OBVIOUS
  <1> HIDE DEF columns
  <1>3. /\ PhotoInv' /\ DeskTypes'
        /\ clerks'[c].product = p /\ clerks'[c].seen = SeenColumns(p, columns)
        /\ \A d \in Clerks \ {c} : clerks'[d] = clerks[d]
    BY <1>1, ReadsKeep DEF DeskBooks
  <1>4. SeenColumns(p, columns).stock = products[p].stock
    BY <1>2, SeenRow, StockFields DEF DeskBooks, DeskTypes
  <1>5. \A d \in Clerks : clerks[d].op = "update" => clerks[d].product # p
    BY <1>1 DEF LockedRow
  <1>6. \A d \in Clerks : LockHolds(d)'
    BY <1>1, <1>3, <1>4, <1>5 DEF DeskBooks, StockInv, LockHolds
  <1>7. StockInv'
    BY <1>1, <1>6 DEF DeskBooks, StockInv, MovementsExplainStock, Exists
  <1> QED
    BY <1>3, <1>7 DEF DeskBooks

LEMMA OthersStart ==
    ASSUME DeskBooks, NEW c \in Clerks, NEW op \in {"delete", "upload", "clear", "adjust", "move"},
           NEW p \in Products, NEW columns, Reads(c, op, p, columns),
           UNCHANGED <<products, categories, movements, files, named, overtaken>>
    PROVE  DeskBooks'
  <1>1. /\ PhotoInv' /\ DeskTypes' /\ clerks'[c].op = op
        /\ \A d \in Clerks \ {c} : clerks'[d] = clerks[d]
    BY ReadsKeep DEF DeskBooks
  <1>2. \A d \in Clerks : clerks[d].op = "update" => clerks[d].product \in Products
    BY DEF DeskBooks, DeskTypes, OpsFit, Ops
  <1>3. \A d \in Clerks : clerks'[d].op = "update" => clerks'[d] = clerks[d]
    BY <1>1
  <1>4. StockInv'
    BY <1>2, <1>3, StockStays DEF DeskBooks, Exists
  <1> QED
    BY <1>1, <1>4 DEF DeskBooks

\* A clerk lets go, and of the rows only a category's may have changed.
LEMMA LetsGo ==
    ASSUME DeskBooks, NEW c \in Clerks, Finished(c),
           categories' \in [Categories -> [tenant : Tenants, deleted : BOOLEAN]],
           UNCHANGED <<products, movements, files, named, overtaken>>
    PROVE  DeskBooks'
  <1>1. clerks' = [clerks EXCEPT ![c] = AtEase]
    BY DEF Finished
  <1>2. PhotoInv'
    BY <1>1, IdleImages DEF DeskBooks
  <1>3. DeskTypes' /\ \A d \in Clerks : clerks'[d] = IF d = c THEN AtEase ELSE clerks[d]
    BY <1>1, ClerkMoves, IdleRow DEF DeskBooks, DeskTypes, StockTypeOK, Exists
  <1>4. \A d \in Clerks : clerks[d].op = "update" => clerks[d].product \in Products
    BY DEF DeskBooks, DeskTypes, OpsFit, Ops
  <1>5. StockInv'
    BY <1>3, <1>4, IdleRow, StockStays DEF DeskBooks, Exists
  <1> QED
    BY <1>2, <1>3, <1>5 DEF DeskBooks

LEMMA StartDropKeeps ==
    ASSUME DeskBooks, NEW c \in Clerks, NEW k \in Categories, StartDropCategory(c, k)
    PROVE  DeskBooks'
  <1> DEFINE x == [AtEase EXCEPT !.op = "drop_category", !.category = k]
  <1>1. /\ clerks' = [clerks EXCEPT ![c] = x]
        /\ UNCHANGED <<products, categories, movements, files, named, overtaken>>
    BY DEF StartDropCategory
  <1>2. /\ x \in ClerkRows /\ x.op = "drop_category" /\ x.category = k
        /\ x.seen.image = NoFile
    BY UnmadeRow DEF AtEase, ClerkRows, Ops
  <1> HIDE DEF x
  <1>3. DeskTypes' /\ \A d \in Clerks : clerks'[d] = IF d = c THEN x ELSE clerks[d]
    BY <1>1, <1>2, ClerkMoves DEF DeskBooks, DeskTypes, StockTypeOK, Exists
  <1>4. \A q \in Products : products[q].state \in {"none", "live", "deleted"}
    BY StockFields DEF DeskBooks, DeskTypes, ProductRows
  <1>5. PhotoInv'
    BY <1>1, <1>2, <1>3, <1>4, ImagesStay DEF DeskBooks
  <1>6. \A d \in Clerks : clerks[d].op = "update" => clerks[d].product \in Products
    BY DEF DeskBooks, DeskTypes, OpsFit, Ops
  <1>7. StockInv'
    BY <1>1, <1>2, <1>3, <1>6, StockStays DEF DeskBooks, Exists
  <1> QED
    BY <1>3, <1>5, <1>7 DEF DeskBooks

\* The steps of the image endpoints, and a deletion's commit, leave the stock alone.
LEMMA PhotoStepKeeps ==
    ASSUME DeskBooks, NEW c \in Clerks,
           \/ \E f \in Files : WriteFiles(c, f)
           \/ CommitDelete(c) \/ StoreImage(c) \/ UnwriteFiles(c) \/ ClearImage(c)
           \/ DeleteMediaFile(c)
    PROVE  DeskBooks'
  <1>1. PhotoInv' /\ DeskTypes'
    BY WriteFilesKeeps, CommitDeleteKeeps, StoreImageKeeps, UnwriteFilesKeeps, ClearImageKeeps,
       DeleteMediaFileKeeps DEF DeskBooks
  <1>2. /\ UNCHANGED <<movements, overtaken>>
        /\ \E x : clerks' = [clerks EXCEPT ![c] = x] /\ x.op \in {"store", "unlink", "idle"}
    <2> DEFINE x(op, f) == [clerks[c] EXCEPT !.op = op, !.file = f]
    <2>1. \A op \in Ops : \A f : x(op, f).op = op
      BY StockFields DEF DeskBooks, DeskTypes, ClerkRows
    <2>2. "store" \in Ops /\ "unlink" \in Ops
      BY DEF Ops
    <2>3. ASSUME NEW f \in Files, WriteFiles(c, f)
          PROVE  UNCHANGED <<movements, overtaken>> /\ clerks' = [clerks EXCEPT ![c] = x("store", f)]
      BY <2>3 DEF WriteFiles
    <2>4. CommitDelete(c) \/ StoreImage(c) \/ ClearImage(c) =>
             /\ UNCHANGED <<movements, overtaken>>
             /\ clerks' = [clerks EXCEPT ![c] = x("unlink", NoFile)]
      BY DEF CommitDelete, StoreImage, ClearImage
    <2>5. UnwriteFiles(c) \/ DeleteMediaFile(c) =>
             UNCHANGED <<movements, overtaken>> /\ clerks' = [clerks EXCEPT ![c] = AtEase]
      BY DEF UnwriteFiles, DeleteMediaFile, Finished
    <2> HIDE DEF x
    <2> QED
      BY <2>1, <2>2, <2>3, <2>4, <2>5, IdleRow
  <1>3. \A q \in Products : products'[q].stock = products[q].stock /\ (Exists(q) => Exists(q)')
    <2>1. ASSUME NEW q \in Products, NEW p,
                 \/ products' = products
                 \/ products' = [products EXCEPT ![p].state = "deleted"]
                 \/ \E f : products' = [products EXCEPT ![p].image = f]
          PROVE  products'[q].stock = products[q].stock /\ (Exists(q) => Exists(q)')
      BY <2>1, StockFields DEF DeskBooks, DeskTypes, ProductRows, Exists
    <2>2. \/ products' = products
          \/ \E p : products' = [products EXCEPT ![p].state = "deleted"]
          \/ \E p, f : products' = [products EXCEPT ![p].image = f]
      <3> DEFINE p == clerks[c].product
      <3>1. CASE CommitDelete(c)
        BY <3>1 DEF CommitDelete
      <3>2. CASE StoreImage(c)
        BY <3>2 DEF StoreImage
      <3>3. CASE ClearImage(c)
        <4>1. products' = [products EXCEPT ![p].image =
                             IF clerks[c].seen.image = NoFile THEN products[p].image ELSE NoFile]
          BY <3>3 DEF ClearImage
        <4> QED
          BY <4>1
      <3> QED
        BY <3>1, <3>2, <3>3 DEF WriteFiles, UnwriteFiles, DeleteMediaFile
    <2> QED
      BY <2>1, <2>2
  <1>4. \A d \in Clerks : clerks'[d].op = "update" => clerks'[d] = clerks[d]
    BY <1>2, StockFields DEF DeskBooks, DeskTypes
  <1>5. \A d \in Clerks : clerks[d].op = "update" => clerks[d].product \in Products
    BY DEF DeskBooks, DeskTypes, OpsFit, Ops
  <1>6. StockInv'
    BY <1>2, <1>3, <1>4, <1>5, StockStays DEF DeskBooks
  <1> QED
    BY <1>1, <1>6 DEF DeskBooks

LEMMA DeskBooksInit ==
    ASSUME StockInit
    PROVE  DeskBooks
  <1>1. StockTypeOK
    <2>1. products \in [Products -> ProductRows] /\ clerks \in [Clerks -> ClerkRows]
      BY UnmadeRow, IdleRow DEF StockInit
    <2>2. categories \in [Categories -> [tenant : Tenants, deleted : BOOLEAN]]
      BY DEF StockInit
    <2>3. movements \in [Products -> [sum : Int, tenants : SUBSET Tenants]]
      BY DEF StockInit
    <2> QED
      BY <2>1, <2>2, <2>3 DEF StockInit, StockTypeOK, ClerkRows
  <1>2. /\ \A c \in Clerks : clerks[c] = AtEase
        /\ \A p \in Products : products[p] = Unmade /\ movements[p].sum = 0
    BY DEF StockInit
  <1>3. DeskTypes
    BY <1>1, <1>2, IdleRow DEF DeskTypes, OpsFit
  <1>4. PhotoInv
    BY <1>2, IdleRow, UnmadeRow DEF PhotoInv, ImagesAreOwn, SeenIsOwn, FileIsFresh,
                                    ShownImagesExist, Image, SeenImage
  <1>5. StockInv
    BY <1>2, IdleRow, UnmadeRow DEF StockInv, LockHolds, MovementsExplainStock
  <1> QED
    BY <1>3, <1>4, <1>5 DEF DeskBooks

LEMMA DeskBooksStep ==
    ASSUME DeskBooks, [StockNext]_stockVars
    PROVE  DeskBooks'
  <1>1. CASE UNCHANGED stockVars
    <2>1. DeskTypes'
      BY <1>1 DEF DeskBooks, DeskTypes, stockVars, StockTypeOK, OpsFit, Exists
    <2>2. PhotoInv'
      BY <1>1 DEF DeskBooks, stockVars, PhotoInv, ImagesAreOwn, SeenIsOwn, FileIsFresh,
                  ShownImagesExist, Image, SeenImage
    <2>3. StockInv'
      BY <1>1 DEF DeskBooks, stockVars, StockInv, LockHolds, MovementsExplainStock, Exists
    <2> QED
      BY <2>1, <2>2, <2>3 DEF DeskBooks
  <1>2. ASSUME NEW c \in Clerks, GoodsNext(c) PROVE DeskBooks'
    <2>1. ASSUME NEW p \in Products,
                 \/ StartUpdate(c, p) \/ StartDelete(c, p) \/ OpenAdjust(c, p) \/ OpenMove(c, p)
          PROVE  DeskBooks'
      <3>1. CASE StartUpdate(c, p)
        BY <3>1, StartUpdateKeeps
      <3>2. CASE StartDelete(c, p)
        BY <3>2, OthersStart DEF StartDelete
      <3>3. CASE OpenAdjust(c, p)
        BY <3>3, OthersStart DEF OpenAdjust
      <3>4. CASE OpenMove(c, p)
        BY <3>4, OthersStart DEF OpenMove
      <3> QED
        BY <2>1, <3>1, <3>2, <3>3, <3>4
    <2>2. ASSUME NEW t \in Tenants, NEW pick \in Picks
          PROVE  pick[1] \in BOOLEAN /\ pick[2] \in Categories \cup {NoCategory}
      <3>1. CASE pick = <<FALSE, NoCategory>>
        BY <3>1
      <3>2. CASE pick \in {TRUE} \X (Categories \cup {NoCategory})
        BY <3>2
      <3> QED
        BY <3>1, <3>2 DEF Picks
    <2>3. ASSUME NEW t \in Tenants, NEW pick \in Picks, NEW delta \in Adjustments \cup {0},
                 CommitUpdate(c, t, pick[1], pick[2], delta)
          PROVE  DeskBooks'
      BY <2>2, <2>3, CommitUpdateKeeps
    <2>4. ASSUME NEW t \in Tenants, NEW pick \in Picks, CommitMove(c, t, pick[1], pick[2])
          PROVE  DeskBooks'
      BY <2>2, <2>4, CommitMoveKeeps
    <2>5. CASE CommitDropCategory(c)
      <3>1. /\ Finished(c) /\ UNCHANGED <<products, movements, files, named, overtaken>>
            /\ categories' = [categories EXCEPT ![clerks[c].category].deleted = TRUE]
        BY <2>5 DEF CommitDropCategory
      <3>2. categories' \in [Categories -> [tenant : Tenants, deleted : BOOLEAN]]
        BY <3>1 DEF DeskBooks, DeskTypes, StockTypeOK
      <3> QED
        BY <3>1, <3>2, LetsGo
    <2>6. CASE GiveUp(c)
      BY <2>6, LetsGo DEF GiveUp, DeskBooks, DeskTypes, StockTypeOK
    <2> QED
      BY <1>2, <2>1, <2>3, <2>4, <2>5, <2>6, CreateProductKeeps, ReceiveAdHocKeeps,
         CommitAdjustKeeps, StartDropKeeps, PhotoStepKeeps DEF GoodsNext
  <1>3. ASSUME NEW c \in Clerks, PhotoNext(c) PROVE DeskBooks'
    <2>1. ASSUME NEW p \in Products, StartDelete(c, p) \/ StartUpload(c, p) \/ StartClear(c, p)
          PROVE  DeskBooks'
      <3>1. CASE StartDelete(c, p)
        BY <3>1, OthersStart DEF StartDelete
      <3>2. CASE StartUpload(c, p)
        BY <3>2, OthersStart DEF StartUpload
      <3>3. CASE StartClear(c, p)
        BY <3>3, OthersStart DEF StartClear
      <3> QED
        BY <2>1, <3>1, <3>2, <3>3
    <2>2. CASE GiveUp(c)
      BY <2>2, LetsGo DEF GiveUp, DeskBooks, DeskTypes, StockTypeOK
    <2> QED
      BY <1>3, <2>1, <2>2, PhotoStepKeeps DEF PhotoNext
  <1> QED
    BY <1>1, <1>2, <1>3 DEF StockNext

LEMMA DeskIsInOrder == StockSpec => []DeskBooks
  BY DeskBooksInit, DeskBooksStep, PTL DEF StockSpec

\* Products, categories, files and the requests that write them have their types.
THEOREM StockTypes == StockSpec => []StockTypeOK
  <1>1. DeskBooks => StockTypeOK
    BY DEF DeskBooks, DeskTypes
  <1> QED
    BY <1>1, DeskIsInOrder, PTL

\* The image of a live product is on disk: files are written under a name nobody had
\* before the row shows them, and a request deletes only the file it has read, which
\* is its own product's old one and which the row no longer shows (or the product is
\* deleted), whatever other uploads and removals of that product have done meanwhile.
THEOREM LiveImagesAreOnDisk == StockSpec => []ShownImagesExist
  <1>1. DeskBooks => ShownImagesExist
    BY DEF DeskBooks, PhotoInv
  <1> QED
    BY <1>1, DeskIsInOrder, PTL

\* The movements of a product add up to its stock, unless an adjust page wrote it from
\* a stock that was no longer so: an update goes by what it read under the row's lock, which
\* every other writer of stock waits for, the adjust page too when it commits, though
\* not when it reads.
THEOREM MovementsAddUp == StockSpec => []MovementsExplainStock
  <1>1. DeskBooks => MovementsExplainStock
    BY DEF DeskBooks, StockInv
  <1> QED
    BY <1>1, DeskIsInOrder, PTL

-----------------------------------------------------------------------------
(* Pricing: arithmetic *)

LEMMA RoundedType ==
    ASSUME NEW a \in Int, NEW b \in Nat \ {0}
    PROVE  Rounded(a, b) \in Int /\ (a >= 0 => Rounded(a, b) \in Nat)
  <1>1. \A x \in Int : x >= 0 => x \div (2 * b) \in Nat
    OBVIOUS
  <1>2. CASE a >= 0
    BY <1>1, <1>2 DEF Rounded
  <1>3. CASE a < 0
    <2>1. b - 2 * a \in Int /\ b - 2 * a >= 0
      BY <1>3
    <2>2. (b - 2 * a) \div (2 * b) \in Nat
      BY <1>1, <2>1
    <2> QED
      BY <1>3, <2>2 DEF Rounded
  <1> QED
    BY <1>2, <1>3

\* What is at most n units' worth rounds to at most n units.
LEMMA RoundedBound ==
    ASSUME NEW a \in Nat, NEW b \in Nat \ {0}, NEW n \in Nat, a <= n * b
    PROVE  Rounded(a, b) <= n
  <1> DEFINE d == 2 * b
             x == 2 * a + b
             q == x \div d
  <1>1. d \in Nat \ {0} /\ x \in Nat
    OBVIOUS
  <1>2. x < (n + 1) * d
    <2>1. n * b \in Nat /\ (n + 1) * d = 2 * (n * b) + 2 * b
      OBVIOUS
    <2> QED
      BY <2>1
  <1> HIDE DEF d, x
  <1>3. q \in Nat /\ q * d <= x
    BY <1>1
  <1> HIDE DEF q
  <1>4. q * d < (n + 1) * d
    <2>1. q * d \in Nat /\ (n + 1) * d \in Nat
      BY <1>1, <1>3
    <2> QED
      BY <1>1, <1>2, <1>3, <2>1
  <1>5. q <= n
    BY <1>1, <1>3, <1>4
  <1> QED
    BY <1>5 DEF Rounded, q, x, d

LEMMA ProductGrows ==
    ASSUME NEW a \in Nat, NEW b \in Nat, NEW n \in Nat, a <= b
    PROVE  a * n \in Nat /\ a * n <= n * b
  OBVIOUS

(* Pricing: carts *)

CartRows == [Wares -> 0..MaxQuantity]

LEMMA LineTotalsType ==
    ASSUME NEW cart \in CartRows
    PROVE  LineTotals(cart) \in [Wares -> Nat]
  <1>1. \A w \in Wares : WarePrice[w] \in Nat /\ cart[w] \in Nat
    BY PricingAssumption DEF CartRows
  <1>2. \A x, y \in Nat : x * y \in Nat
    OBVIOUS
  <1> QED
    BY <1>1, <1>2 DEF LineTotals, LineTotal

LEMMA SubtotalsType ==
    ASSUME NEW cart \in CartRows, NEW row
    PROVE  /\ Subtotal(cart) \in Nat /\ ScopeSubtotal(row, cart) \in Nat
           /\ ScopeSubtotal(row, cart) <= Subtotal(cart)
  <1> DEFINE f == LineTotals(cart)
             S == InScope(row)
  <1>1. \A w \in Wares : f[w] \in Nat
    BY LineTotalsType
  <1>2. S \in SUBSET Wares /\ IsFiniteSet(Wares) /\ IsFiniteSet(S)
    BY PricingAssumption, FS_Subset DEF InScope
  <1> HIDE DEF f, S
  <1>3. SumFunctionOnSet(f, Wares) \in Nat /\ SumFunctionOnSet(f, S) \in Nat
    BY <1>1, <1>2, SumNat
  <1>4. SumFunctionOnSet(f, S) <= SumFunctionOnSet(f, Wares)
    <2>1. Wares \in SUBSET Wares /\ \A w \in Wares : f[w] \in Int
      BY <1>1
    <2>2. \A w \in Wares : ValueIn(f, S, w) <= ValueIn(f, Wares, w)
      BY <1>1 DEF ValueIn
    <2> QED
      BY <1>2, <2>1, <2>2, SumCompare
  <1> QED
    BY <1>3, <1>4 DEF Subtotal, ScopeSubtotal, f, S

\* A discount that applies is a positive amount within the price of the goods, whatever
\* numbers the row holds.
LEMMA DiscountBound ==
    ASSUME NEW cart \in CartRows, NEW row \in PromotionFields, PromotionApplies(row, cart)
    PROVE  Discount(row, cart) \in Nat /\ Discount(row, cart) <= Subtotal(cart)
  <1> DEFINE eligible == ScopeSubtotal(row, cart)
             subtotal == Subtotal(cart)
             wanted == IF row.type = "percentage" THEN Rounded(eligible * row.value, 100)
                                                  ELSE row.value
             capped == IF row.cap = <<>> THEN wanted ELSE Least(wanted, row.cap[1])
  <1>1. eligible \in Nat /\ subtotal \in Nat
    BY SubtotalsType
  <1>2. row.value \in Int /\ (row.cap # <<>> => row.cap[1] \in Int)
    BY DEF PromotionFields
  <1> HIDE DEF eligible, subtotal
  <1>3. wanted \in Int
    <2>1. eligible * row.value \in Int /\ 100 \in Nat \ {0}
      BY <1>1, <1>2
    <2> QED
      BY <1>2, <2>1, RoundedType
  <1> HIDE DEF wanted
  <1>4. capped \in Int
    BY <1>2, <1>3 DEF Least
  <1> HIDE DEF capped
  <1>5. Discount(row, cart) = Least(Least(capped, eligible), subtotal)
    BY DEF Discount, capped, wanted, eligible, subtotal
  <1>6. Discount(row, cart) > 0
    BY DEF PromotionApplies
  <1> QED
    BY <1>1, <1>4, <1>5, <1>6 DEF Least, subtotal

TaxLineRows ==
    [mode : {"inclusive", "exclusive"}, scope : Scopes, rate : Int, base : Nat, tax : Int]

\* No tax line is on more than the base, what the price contains is part of it, and a
\* negative tax is due to a negative rate.
LineIsRight(line, base) ==
    /\ line.base <= base
    /\ line.mode = "inclusive" => line.tax \in 0..line.base
    /\ line.tax < 0 => line.rate < 0

LEMMA TaxLineBound ==
    ASSUME NEW cart \in CartRows, NEW rule \in TaxFields, NEW base \in Nat, Subtotal(cart) > 0
    PROVE  LET line == TaxLine(rule, cart, base)
           IN  line \in TaxLineRows /\ LineIsRight(line, base)
  <1> DEFINE share == ScopeSubtotal(rule, cart)
             whole == Subtotal(cart)
             rate == rule.rate
             taxable == Rounded(share * base, whole)
             inside == IF rate > 0 THEN Rounded(taxable * rate, 100 + rate) ELSE 0
             above == Rounded(taxable * rate, 100)
  <1>1. share \in Nat /\ whole \in Nat \ {0} /\ share <= whole
    BY SubtotalsType
  <1>2. rate \in Int /\ rule.mode \in {"inclusive", "exclusive"} /\ rule.scope \in Scopes
    BY DEF TaxFields
  <1> HIDE DEF share, whole, rate
  <1>3. taxable \in Nat /\ taxable <= base
    <2>1. share * base \in Nat /\ share * base <= base * whole
      BY <1>1, ProductGrows
    <2> QED
      BY <1>1, <2>1, RoundedType, RoundedBound
  <1> HIDE DEF taxable
  <1>4. inside \in Nat /\ inside <= taxable
    <2>1. CASE rate > 0
      <3>1. rate \in Nat /\ 100 + rate \in Nat \ {0} /\ rate <= 100 + rate
        BY <1>2, <2>1
      <3>2. rate * taxable \in Nat /\ rate * taxable <= taxable * (100 + rate)
        BY <1>3, <3>1, ProductGrows
      <3>3. taxable * rate = rate * taxable
        BY <1>2, <1>3
      <3> QED
        BY <1>3, <2>1, <3>1, <3>2, <3>3, RoundedType, RoundedBound
    <2>2. CASE ~(rate > 0)
      BY <1>3, <2>2
    <2> QED
      BY <2>1, <2>2
  <1>5. above \in Int /\ (above < 0 => rate < 0)
    <2>1. taxable * rate \in Int /\ (rate >= 0 => taxable * rate >= 0) /\ 100 \in Nat \ {0}
      BY <1>2, <1>3
    <2>2. above \in Int /\ (taxable * rate >= 0 => above \in Nat)
      BY <2>1, RoundedType
    <2> QED
      BY <1>2, <2>1, <2>2
  <1> HIDE DEF inside, above
  <1>6. TaxLine(rule, cart, base)
          = [mode |-> rule.mode, scope |-> rule.scope, rate |-> rate, base |-> taxable,
             tax |-> IF rule.mode = "inclusive" THEN inside ELSE above]
    BY DEF TaxLine, inside, above, taxable, share, whole, rate
  <1> QED
    BY <1>2, <1>3, <1>4, <1>5, <1>6 DEF TaxLineRows, LineIsRight

(* Pricing: bills *)

Lines == UNION {[S -> TaxLineRows] : S \in SUBSET TaxRules}
BillRows == [state : {"priced", "settled"}, subtotal : Nat, discount : Nat, points : Nat,
             base : Nat, lines : Lines, total : Int, tendered : Nat]

BillIsRight(b) ==
    /\ b.discount <= b.subtotal
    /\ (\A x \in Exclusive(b.lines) : b.lines[x].rate >= 0) => b.base <= b.total
    /\ \A x \in DOMAIN b.lines : LineIsRight(b.lines[x], b.base)

RulesOK == /\ promos \in [Promos -> {Unset} \cup PromotionFields]
           /\ taxRules \in [TaxRules -> {Unset} \cup TaxFields]
           /\ day \in Nat
BillsOK == /\ bills \in [Checkouts -> {Unset} \cup BillRows]
           /\ \A c \in Checkouts : bills[c] # Unset => BillIsRight(bills[c])

LEMMA LinesType ==
    ASSUME NEW cart \in CartRows, NEW base \in Nat, Subtotal(cart) > 0, RulesOK
    PROVE  LET lines == TaxLines(cart, base)
           IN  /\ lines \in Lines
               /\ \A x \in DOMAIN lines : LineIsRight(lines[x], base)
  <1> DEFINE applied == {x \in TaxRules : /\ taxRules[x] # Unset /\ InForce(taxRules[x])
                                          /\ ScopeSubtotal(taxRules[x], cart) > 0
                                          /\ TaxLine(taxRules[x], cart, base).base > 0}
  <1>1. applied \in SUBSET TaxRules /\ \A x \in applied : taxRules[x] \in TaxFields
    BY DEF RulesOK
  <1>2. TaxLines(cart, base) = [x \in applied |-> TaxLine(taxRules[x], cart, base)]
    BY DEF TaxLines
  <1> HIDE DEF applied
  <1>3. \A x \in applied :
           LET line == TaxLine(taxRules[x], cart, base)
           IN  line \in TaxLineRows /\ LineIsRight(line, base)
    BY <1>1, TaxLineBound
  <1>4. TaxLines(cart, base) \in [applied -> TaxLineRows]
    BY <1>2, <1>3
  <1> QED
    BY <1>1, <1>2, <1>3, <1>4 DEF Lines

LEMMA TotalBound ==
    ASSUME NEW base \in Nat, NEW lines \in Lines,
           \A x \in DOMAIN lines : LineIsRight(lines[x], base)
    PROVE  /\ GrandTotal(base, lines) \in Int
           /\ (\A x \in Exclusive(lines) : lines[x].rate >= 0) => base <= GrandTotal(base, lines)
  <1> DEFINE tax == [x \in DOMAIN lines |-> lines[x].tax]
             E == Exclusive(lines)
  <1>1. PICK S \in SUBSET TaxRules : lines \in [S -> TaxLineRows]
    BY DEF Lines
  <1>2. \A x \in S : tax[x] \in Int
    BY <1>1 DEF TaxLineRows
  <1>3. E \subseteq S /\ IsFiniteSet(E)
    BY <1>1, PricingAssumption, FS_Subset DEF Exclusive
  <1>4. (\A x \in E : lines[x].rate >= 0) => \A x \in E : tax[x] \in Nat
    <2> SUFFICES ASSUME \A x \in E : lines[x].rate >= 0, NEW x \in E PROVE tax[x] \in Nat
      OBVIOUS
    <2>1. lines[x] \in TaxLineRows /\ LineIsRight(lines[x], base) /\ tax[x] = lines[x].tax
      BY <1>1, <1>3
    <2> QED
      BY <2>1 DEF LineIsRight, TaxLineRows
  <1>5. GrandTotal(base, lines) = base + SumFunctionOnSet(tax, E)
    BY DEF GrandTotal
  <1> HIDE DEF tax, E
  <1>6. SumFunctionOnSet(tax, E) \in Int
    BY <1>2, <1>3, SumType
  <1>7. (\A x \in E : tax[x] \in Nat) => SumFunctionOnSet(tax, E) \in Nat
    BY <1>3, SumNat
  <1> QED
    BY <1>4, <1>5, <1>6, <1>7 DEF E

LEMMA PriceOrderKeeps ==
    ASSUME RulesOK, BillsOK, NEW c \in Checkouts, NEW cart \in CartRows,
           NEW k \in Promos \cup {"none"}, NEW points \in Nat, PriceOrder(c, cart, k, points)
    PROVE  RulesOK' /\ BillsOK'
  <1> DEFINE subtotal == Subtotal(cart)
             discount == IF k = "none" THEN 0 ELSE Discount(promos[k], cart)
             base == subtotal - discount - 100 * points
             lines == TaxLines(cart, base)
             bill == [state |-> "priced", subtotal |-> subtotal, discount |-> discount,
                      points |-> points, base |-> base, lines |-> lines,
                      total |-> GrandTotal(base, lines), tendered |-> 0]
  <1>1. /\ subtotal > 0
        /\ k # "none" => promos[k] # Unset /\ PromotionApplies(promos[k], cart)
        /\ points > 0 => points <= (subtotal - discount) \div 100
        /\ bills' = [bills EXCEPT ![c] = bill]
        /\ UNCHANGED <<promos, taxRules, day>>
    BY DEF PriceOrder
  <1>2. subtotal \in Nat
    BY SubtotalsType
  <1>3. discount \in Nat /\ discount <= subtotal
    <2>1. CASE k = "none"
      BY <1>2, <2>1
    <2>2. CASE k # "none"
      <3>1. promos[k] \in PromotionFields /\ PromotionApplies(promos[k], cart)
        BY <1>1, <2>2 DEF RulesOK
      <3> QED
        BY <2>2, <3>1, DiscountBound
    <2> QED
      BY <2>1, <2>2
  <1> HIDE DEF discount
  <1>4. subtotal > 0 /\ (points > 0 => points <= (subtotal - discount) \div 100)
    BY <1>1
  <1>5. base \in Nat
    BY <1>2, <1>3, <1>4
  <1>6. /\ lines \in Lines
        /\ \A x \in DOMAIN lines : LineIsRight(lines[x], base)
    BY <1>4, <1>5, LinesType
  <1> HIDE DEF base, lines, subtotal
  <1>7. /\ GrandTotal(base, lines) \in Int
        /\ (\A x \in Exclusive(lines) : lines[x].rate >= 0) => base <= GrandTotal(base, lines)
    BY <1>5, <1>6, TotalBound
  <1>8. bill \in BillRows /\ BillIsRight(bill)
    BY <1>2, <1>3, <1>5, <1>6, <1>7 DEF BillRows, BillIsRight
  <1> HIDE DEF bill
  <1>9. BillsOK'
    BY <1>1, <1>8 DEF BillsOK
  <1> QED
    BY <1>1, <1>9 DEF RulesOK

LEMMA TenderKeeps ==
    ASSUME BillsOK, RulesOK, NEW c \in Checkouts, NEW amount \in Tenders, Tender(c, amount)
    PROVE  RulesOK' /\ BillsOK'
  <1> DEFINE tendered == bills[c].tendered + amount
             state == IF Settlement(bills[c].total, tendered).remaining = 0 THEN "settled"
                      ELSE "priced"
             new == [bills[c] EXCEPT !.tendered = tendered, !.state = state]
  <1>1. /\ bills' = [bills EXCEPT ![c] = new] /\ bills[c].state = "priced"
        /\ UNCHANGED <<promos, taxRules, day>>
    BY DEF Tender, BillsOK
  <1>2. bills[c] \in BillRows /\ BillIsRight(bills[c])
    BY <1>1 DEF BillsOK, Unset
  <1>3. amount \in Nat
    BY PricingAssumption
  <1>4. new \in BillRows
    <2>1. state \in {"priced", "settled"} /\ tendered \in Nat
      BY <1>2, <1>3 DEF BillRows
    <2> HIDE DEF state, tendered
    <2> QED
      BY <1>2, <2>1 DEF BillRows
  <1>5. BillIsRight(new)
    BY <1>2 DEF BillRows, BillIsRight
  <1> HIDE DEF new
  <1>6. BillsOK'
    BY <1>1, <1>4, <1>5 DEF BillsOK
  <1> QED
    BY <1>1, <1>6 DEF RulesOK

\* A rule change is of one promotion or of one tax rule.
PromotionChange(k) ==
    \/ DeactivatePromotion(k)
    \/ \E row \in PromoRows : CreatePromotion(k, row) \/ UpdatePromotion(k, row)
    \/ \E row \in PromoRows \cup {Unset} : PanelPromotion(k, row)

TaxChange(x) ==
    \/ DeactivateTax(x)
    \/ \E row \in TaxRows : CreateTax(x, row) \/ UpdateTax(x, row)
    \/ \E row \in TaxRows \cup {Unset} : PanelTax(x, row)

LEMMA ChangesAreOfOne ==
    RuleChange <=> (\E k \in Promos : PromotionChange(k)) \/ (\E x \in TaxRules : TaxChange(x))
  BY DEF RuleChange, PromotionChange, TaxChange

LEMMA RuleChangeKeeps ==
    ASSUME RulesOK, BillsOK, RuleChange \/ NewDay
    PROVE  RulesOK' /\ BillsOK'
  <1>1. PromoRows \subseteq PromotionFields /\ TaxRows \subseteq TaxFields
    BY PricingAssumption DEF PromoRows, TaxRows
  <1>2. UNCHANGED bills
    BY DEF RuleChange, NewDay, DeactivatePromotion, CreatePromotion, UpdatePromotion,
           PanelPromotion, PanelTax, DeactivateTax, CreateTax, UpdateTax
  <1>3. BillsOK'
    BY <1>2 DEF BillsOK
  <1>4. /\ \A row \in PromotionFields : Ended(row) \in PromotionFields
        /\ \A row \in TaxFields : Ended(row) \in TaxFields
    <2>1. day \in Int
      BY DEF RulesOK
    <2> QED
      BY <2>1 DEF Ended, EndedOn, PromotionFields, TaxFields
  <1>5. CASE NewDay
    <2>1. UNCHANGED <<promos, taxRules>> /\ day' = day + 1
      BY <1>5 DEF NewDay
    <2>2. day' \in Nat
      BY <2>1 DEF RulesOK
    <2> QED
      BY <1>3, <2>1, <2>2 DEF RulesOK
  <1>6. ASSUME NEW k \in Promos, PromotionChange(k) PROVE RulesOK'
    <2>1. PICK row \in {Unset} \cup PromotionFields : promos' = [promos EXCEPT ![k] = row]
      BY <1>1, <1>4, <1>6 DEF PromotionChange, RulesOK, DeactivatePromotion, CreatePromotion,
                              UpdatePromotion, PanelPromotion
    <2>2. UNCHANGED <<taxRules, day>>
      BY <1>6 DEF PromotionChange, DeactivatePromotion, CreatePromotion, UpdatePromotion,
                  PanelPromotion
    <2> QED
      BY <2>1, <2>2 DEF RulesOK
  <1>7. ASSUME NEW x \in TaxRules, TaxChange(x) PROVE RulesOK'
    <2>1. PICK row \in {Unset} \cup TaxFields : taxRules' = [taxRules EXCEPT ![x] = row]
      BY <1>1, <1>4, <1>7 DEF TaxChange, RulesOK, DeactivateTax, CreateTax, UpdateTax, PanelTax
    <2>2. UNCHANGED <<promos, day>>
      BY <1>7 DEF TaxChange, DeactivateTax, CreateTax, UpdateTax, PanelTax
    <2> QED
      BY <2>1, <2>2 DEF RulesOK
  <1> QED
    BY <1>3, <1>5, <1>6, <1>7, ChangesAreOfOne

LEMMA PricesStep ==
    ASSUME RulesOK, BillsOK, [PricingNext]_pricingVars
    PROVE  RulesOK' /\ BillsOK'
  <1>1. CASE UNCHANGED pricingVars
    BY <1>1 DEF pricingVars, RulesOK, BillsOK
  <1>2. 0..MaxPoints \subseteq Nat
    BY PricingAssumption
  <1> QED
    BY <1>1, <1>2, RuleChangeKeeps, PriceOrderKeeps, TenderKeeps DEF PricingNext, CartRows

\* An end that was set stays: a row that is ended once more is the same.
LEMMA EndedRows ==
    ASSUME NEW Fields, Fields \in {PromotionFields, TaxFields}, NEW K \in SUBSET Fields,
           NEW row \in RowsOf(K), day \in 0..MaxDay
    PROVE  Ended(row) \in RowsOf(K)
  <1>1. CASE row \in K
    <2>1. Ended(row) = EndedOn(row, day)
      BY DEF Ended
    <2> QED
      BY <1>1, <2>1 DEF RowsOf
  <1>2. CASE \E r \in K, e \in 0..MaxDay : row = EndedOn(r, e)
    <2>1. PICK r \in K, e \in 0..MaxDay : row = EndedOn(r, e)
      BY <1>2
    <2>2. r \in PromotionFields \/ r \in TaxFields
      OBVIOUS
    <2>3. e # NoDay
      BY PricingAssumption DEF NoDay
    <2>4. Ended(row) = row
      <3>1. CASE r \in PromotionFields
        BY <2>1, <2>3, <3>1 DEF Ended, EndedOn, PromotionFields
      <3>2. CASE r \in TaxFields
        BY <2>1, <2>3, <3>2 DEF Ended, EndedOn, TaxFields
      <3> QED
        BY <2>2, <3>1, <3>2
    <2> QED
      BY <2>4
  <1> QED
    BY <1>1, <1>2 DEF RowsOf

LEMMA RuleChangeTypes ==
    ASSUME PricingTypeOK, RuleChange
    PROVE  PricingTypeOK'
  <1>1. /\ PromoRows \in SUBSET PromotionFields /\ TaxRows \in SUBSET TaxFields
        /\ PromoRows \subseteq RowsOf(PromoRows) /\ TaxRows \subseteq RowsOf(TaxRows)
    <2>1. \A K : K \subseteq RowsOf(K)
      BY DEF RowsOf
    <2> QED
      BY <2>1, PricingAssumption DEF PromoRows, TaxRows
  <1>2. \A row \in RowsOf(PromoRows) : Ended(row) \in RowsOf(PromoRows)
    BY <1>1, EndedRows DEF PricingTypeOK
  <1>3. \A row \in RowsOf(TaxRows) : Ended(row) \in RowsOf(TaxRows)
    BY <1>1, EndedRows DEF PricingTypeOK
  <1>4. ASSUME NEW k \in Promos, PromotionChange(k) PROVE PricingTypeOK'
    <2>1. PICK row \in {Unset} \cup RowsOf(PromoRows) : promos' = [promos EXCEPT ![k] = row]
      BY <1>1, <1>2, <1>4 DEF PromotionChange, PricingTypeOK, DeactivatePromotion,
         CreatePromotion, UpdatePromotion, PanelPromotion
    <2>2. UNCHANGED <<taxRules, day>>
      BY <1>4 DEF PromotionChange, DeactivatePromotion, CreatePromotion, UpdatePromotion,
                  PanelPromotion
    <2> QED
      BY <2>1, <2>2 DEF PricingTypeOK
  <1>5. ASSUME NEW x \in TaxRules, TaxChange(x) PROVE PricingTypeOK'
    <2>1. PICK row \in {Unset} \cup RowsOf(TaxRows) : taxRules' = [taxRules EXCEPT ![x] = row]
      BY <1>1, <1>3, <1>5 DEF TaxChange, PricingTypeOK, DeactivateTax, CreateTax, UpdateTax,
         PanelTax
    <2>2. UNCHANGED <<promos, day>>
      BY <1>5 DEF TaxChange, DeactivateTax, CreateTax, UpdateTax, PanelTax
    <2> QED
      BY <2>1, <2>2 DEF PricingTypeOK
  <1> QED
    BY <1>4, <1>5, ChangesAreOfOne

\* A promotion or a tax rule is as somebody filled it in, or switched off since: an end
\* that was set is never moved, and one that was not is a day that has come.
THEOREM PricingTypes == PricingSpec => []PricingTypeOK
  <1>1. PricingInit => PricingTypeOK
    BY PricingAssumption DEF PricingInit, PricingTypeOK
  <1>2. PricingTypeOK /\ [PricingNext]_pricingVars => PricingTypeOK'
    <2> SUFFICES ASSUME PricingTypeOK, [PricingNext]_pricingVars PROVE PricingTypeOK'
      OBVIOUS
    <2>1. CASE RuleChange
      BY <2>1, RuleChangeTypes
    <2>2. CASE UNCHANGED <<promos, taxRules, day>>
      BY <2>2 DEF PricingTypeOK
    <2>3. CASE NewDay
      BY <2>3, PricingAssumption DEF NewDay, PricingTypeOK
    <2>4. \A c, cart, k, points :
             PriceOrder(c, cart, k, points) => UNCHANGED <<promos, taxRules, day>>
      BY DEF PriceOrder
    <2>5. \A c, amount : Tender(c, amount) => UNCHANGED <<promos, taxRules, day>>
      BY DEF Tender
    <2>6. UNCHANGED pricingVars => UNCHANGED <<promos, taxRules, day>>
      BY DEF pricingVars
    <2> QED
      BY <2>1, <2>2, <2>3, <2>4, <2>5, <2>6, Zenon DEF PricingNext
  <1> QED
    BY <1>1, <1>2, PTL DEF PricingSpec

\* Whatever rows the endpoints and the panel let through, negative values, caps and rates
\* included: a discount gives away no more than the goods cost, points no more than the
\* rest, no tax is charged on more than the taxable base, a tax contained in the price is
\* part of it, only a negative rate makes a tax negative and, through an exclusive rule,
\* an order cheaper than its base, and what was settled and what remains make up the
\* total, whatever its sign.
THEOREM PricesAreRight == PricingSpec => []PricesAddUp
  <1>1. PricingInit => RulesOK /\ BillsOK
    BY DEF PricingInit, RulesOK, BillsOK
  <1>2. RulesOK /\ BillsOK /\ [PricingNext]_pricingVars => (RulesOK /\ BillsOK)'
    BY PricesStep
  <1>3. BillsOK => PricesAddUp
    <2> SUFFICES ASSUME BillsOK, NEW c \in {d \in Checkouts : bills[d] # Unset}
                 PROVE  LET b == bills[c]
                            settled == Settlement(b.total, b.tendered)
                        IN  /\ 0 <= b.discount /\ b.discount <= b.subtotal
                            /\ 0 <= b.base
                            /\ (\A x \in Exclusive(b.lines) : b.lines[x].rate >= 0)
                                   => b.base <= b.total
                            /\ \A x \in DOMAIN b.lines : LineIsRight(b.lines[x], b.base)
                            /\ settled.paid + settled.remaining = b.total
                            /\ settled.paid + settled.change = b.tendered
      BY DEF PricesAddUp, LineIsRight
    <2>1. bills[c] \in BillRows /\ BillIsRight(bills[c])
      BY DEF BillsOK
    <2>2. \A total \in Int, tendered \in Nat :
             LET settled == Settlement(total, tendered)
             IN  /\ settled.paid + settled.remaining = total
                 /\ settled.paid + settled.change = tendered
      BY DEF Settlement, Least, Most
    <2>3. bills[c].total \in Int /\ bills[c].tendered \in Nat
          /\ bills[c].discount \in Nat /\ bills[c].base \in Nat
      BY <2>1 DEF BillRows
    <2> QED
      BY <2>1, <2>2, <2>3 DEF BillIsRight
  <1> QED
    BY <1>1, <1>2, <1>3, PTL DEF PricingSpec
=============================================================================
