------------------------- MODULE StockRequestsProofs -------------------------
(***************************************************************************)
(* Proofs about StockRequests, for any number of slots, sales, materials,  *)
(* lines, recipes and quantities.                                          *)
(*                                                                         *)
(* What a call read of a row, and what its transaction means to write over *)
(* it, holds of the committed row until the commit, unless the row is      *)
(* among those the call knows were overtaken (late).  From that, a commit  *)
(* moves as much between shelf and snapshots as it says it does.           *)
(*                                                                         *)
(* Where calls in flight touch no common row nothing is ever late, and a   *)
(* commit is then one handler of StockControl.                             *)
(***************************************************************************)
EXTENDS StockRequests, StockMathProofs

-----------------------------------------------------------------------------
(* The invariant.                                                          *)

\* The functions from a part of S to T.
Partial(S, T) == UNION {[D -> T] : D \in SUBSET S}

Seen ==
  [sale : SaleRow \cup {NoSale}, item : SaleItem \cup {NoItem}, material : Materials \cup {"NONE"},
   quantity : Nat, row : Snapshot \cup {<<>>}, need : [Materials -> Nat] \cup {<<>>},
   todo : SUBSET (Materials \cup Snapshot), doomed : SUBSET Snapshot,
   late : SUBSET (Sales \cup Materials)]
Own ==
  [stock : Partial(Materials, Nat), bom : Partial(Products, Recipes), sale : Partial(Sales, SaleRow),
   lines : Partial(Sales \X Lines, SaleItem \cup {NoItem}),
   added : SUBSET Snapshot, removed : SUBSET Snapshot]

SaleOps ==
  {"createSale", "addItem", "removeItem", "updateItemQuantity", "updateDetails",
   "updatePaymentStatus", "updateProductionStatus"}
MaterialOps == {"receiveStock", "recordLoss", "countStock", "editMaterial"}

\* The statements of each path of updateProductionStatus, and of each operation.
DebitPath == {"checkSnapshots", "readNeed", "readStock", "saveDebit"}
ReversalPath == {"readSnapshots", "readBack", "saveBack", "findSnapshots", "deleteSnapshots"}
Places(op) ==
  CASE op = "createSale" -> {"saveNewSale", "commit"}
    [] op = "addItem" -> {"readSale", "saveItem", "commit"}
    [] op \in {"removeItem", "updateItemQuantity"} -> {"readSale", "readItem", "saveItem", "commit"}
    [] op \in {"updateDetails", "updatePaymentStatus"} -> {"readSale", "saveSale", "commit"}
    [] op = "updateProductionStatus" ->
         {"readSale", "saveSale", "commit"} \cup DebitPath \cup ReversalPath
    [] op \in MaterialOps -> {"readMaterial", "saveMaterial", "commit"}
    [] op = "replaceBillOfMaterials" -> {"saveBom", "commit"}
    [] OTHER -> {"idle"}
Firsts == {"saveNewSale", "readSale", "readMaterial", "saveBom"}
Anywhere == UNION {Places(op) : op \in SaleOps \cup MaterialOps \cup {"replaceBillOfMaterials", "none"}}

Typed ==
  /\ stock \in [Materials -> Nat]
  /\ bom \in [Products -> Recipes]
  /\ sale \in [Sales -> SaleRow \cup {NoSale}]
  /\ lines \in [Sales \X Lines -> SaleItem \cup {NoItem}]
  /\ snapshots \in SUBSET Snapshot /\ IsFiniteSet(snapshots)
  /\ ledger \in [Materials -> Int]
  /\ overtaken \in SUBSET (Sales \cup Materials)
  /\ pc \in [Requests -> Anywhere]
  /\ call \in [Requests -> Calls \cup {NoCall}]
  /\ seen \in [Requests -> Seen]
  /\ writes \in [Requests -> Own]

\* A call is at a statement of its operation; at its first it knows nothing.
Position(r) ==
  /\ pc[r] \in Places(call[r].op)
  /\ pc[r] \in {"idle"} \cup Firsts => seen[r] = NothingSeen /\ writes[r] = NoWrites

\* What a handler knows of its sale.
Debits(r) ==
  /\ call[r].op = "updateProductionStatus" /\ call[r].status # "PENDING"
  /\ seen[r].sale.production = "PENDING"
Reverses(r) ==
  /\ call[r].op = "updateProductionStatus" /\ call[r].status = "PENDING"
  /\ seen[r].sale.production \in {"ASSEMBLED", "DELIVERED"}

Creates(r) == call[r].op = "createSale"
Changes(r) == call[r].op \in SaleOps \ {"createSale"}
Knows(r) ==
  /\ Creates(r) => sale[call[r].sale] = NoSale /\ seen[r] = NothingSeen
  /\ Changes(r) /\ pc[r] # "readSale" =>
       /\ seen[r].sale # NoSale /\ sale[call[r].sale] # NoSale
       /\ call[r].sale \in seen[r].late \/ sale[call[r].sale] = seen[r].sale
  /\ call[r].op \notin SaleOps => seen[r].sale = NoSale
  /\ pc[r] \in DebitPath => Debits(r)
  /\ pc[r] \in ReversalPath => Reverses(r)
  /\ pc[r] = "saveItem" /\ call[r].op = "updateItemQuantity" => seen[r].item # NoItem

\* The sale row a handler saves, last of all.
SavesSale(r) ==
  call[r].op \in {"createSale", "updateDetails", "updatePaymentStatus", "updateProductionStatus"}
SaleWrites(r) ==
  IF pc[r] = "commit" /\ SavesSale(r)
  THEN /\ DOMAIN writes[r].sale = {call[r].sale}
       /\ writes[r].sale[call[r].sale]
            = IF Creates(r) THEN NewSale ELSE SaleSaved(call[r], seen[r].sale)
  ELSE DOMAIN writes[r].sale = {}

\* A balance known and not overtaken is the committed one.
Holding(r, m) == m \in seen[r].late \/ seen[r].quantity = stock[m]

MovesMaterial(r) == call[r].op \in MaterialOps
MaterialSlot(r) ==
  MovesMaterial(r) =>
    /\ writes[r].added = {} /\ writes[r].removed = {}
    /\ pc[r] = "saveMaterial" =>
         /\ seen[r].material = call[r].material /\ Holding(r, call[r].material)
         /\ call[r].op = "recordLoss" => call[r].quantity <= seen[r].quantity
    /\ pc[r] # "commit" => DOMAIN writes[r].stock = {}
    /\ pc[r] = "commit" =>
         /\ DOMAIN writes[r].stock = {call[r].material}
         /\ \/ call[r].material \in seen[r].late
            \/ writes[r].stock[call[r].material] = StockSaved(call[r], stock[call[r].material])

\* The others move no stock.
Bystander(r) ==
  ~ MovesMaterial(r) /\ ~ Debits(r) /\ ~ Reverses(r) =>
    DOMAIN writes[r].stock = {} /\ writes[r].added = {} /\ writes[r].removed = {}

RowsOf(r) == SnapshotsOf(snapshots, call[r].sale)

\* A debit: one row for each balance it lowers, and none committed before.
DebitSlot(r) ==
  Debits(r) =>
    /\ writes[r].removed = {}
    /\ IsFiniteSet(writes[r].added)
    /\ \A row \in writes[r].added : row.sale = call[r].sale /\ row.material \in DOMAIN writes[r].stock
    /\ \A a, b \in writes[r].added : a.material = b.material => a = b
    /\ \A m \in DOMAIN writes[r].stock : \E row \in writes[r].added :
         row.material = m /\ (m \in seen[r].late \/ writes[r].stock[m] = stock[m] - row.quantity)
    /\ pc[r] \in {"checkSnapshots", "readNeed"} =>
         DOMAIN writes[r].stock = {} /\ writes[r].added = {}
    /\ pc[r] \in {"readStock", "saveDebit"} =>
         /\ seen[r].need \in [Materials -> Nat]
         /\ seen[r].todo \subseteq Materials \ DOMAIN writes[r].stock
    /\ pc[r] = "saveDebit" => seen[r].material \in seen[r].todo /\ Holding(r, seen[r].material)
    /\ pc[r] \in {"readNeed", "readStock", "saveDebit"} \/ writes[r].added # {} =>
         call[r].sale \in seen[r].late \/ RowsOf(r) = {}

\* The rows a reversal has still to give back.
Rest(r) ==
  CASE pc[r] = "readSnapshots" -> RowsOf(r)
    [] pc[r] \in {"readBack", "saveBack"} -> seen[r].todo
    [] OTHER -> {}

\* What it gave back, when each material has one row.
Returned(r) ==
  /\ Rest(r) \subseteq RowsOf(r)
  /\ DOMAIN writes[r].stock = {row.material : row \in RowsOf(r) \ Rest(r)}
  /\ \A row \in RowsOf(r) \ Rest(r) :
       \/ row.material \in seen[r].late
       \/ writes[r].stock[row.material] = stock[row.material] + row.quantity
  /\ pc[r] = "saveBack" => Holding(r, seen[r].material)

SalesUntouched == overtaken \cap Sales = {}

ReverseSlot(r) ==
  Reverses(r) =>
    /\ writes[r].added = {}
    /\ pc[r] \in ReversalPath => writes[r].removed = {}
    /\ \A row \in writes[r].removed : row.sale = call[r].sale
    /\ pc[r] \in {"readBack", "saveBack"} => seen[r].todo \subseteq Snapshot
    /\ pc[r] = "saveBack" => seen[r].row \in seen[r].todo /\ seen[r].material = seen[r].row.material
    /\ pc[r] = "deleteSnapshots" => \A row \in seen[r].doomed : row.sale = call[r].sale
    /\ call[r].sale \notin seen[r].late =>
         /\ pc[r] = "deleteSnapshots" => seen[r].doomed = RowsOf(r)
         /\ pc[r] \in {"saveSale", "commit"} => writes[r].removed = RowsOf(r)
         /\ SalesUntouched => Returned(r)

Slot(r) ==
  /\ Position(r) /\ Knows(r) /\ SaleWrites(r)
  /\ MaterialSlot(r) /\ Bystander(r) /\ DebitSlot(r) /\ ReverseSlot(r)

\* A balance is written by one transaction at a time; a new sale has one author.
Exclusive ==
  \A r, o \in Requests : r # o =>
    /\ DOMAIN writes[r].stock \cap DOMAIN writes[o].stock = {}
    /\ Creates(r) /\ Creates(o) => call[r].sale # call[o].sale

Inv ==
  /\ Typed
  /\ \A r \in Requests : Slot(r)
  /\ Exclusive
  /\ StockLostOnlyToARace
  /\ SnapshotsFitTheSaleUnlessRaced

-----------------------------------------------------------------------------
(* Calls, and the types of what slots hold.                                *)

AllOps == SaleOps \cup MaterialOps \cup {"replaceBillOfMaterials"}

LEMMA CallFields ==
  ASSUME NEW c \in Calls
  PROVE  /\ c.op \in AllOps
         /\ c \in SaleCalls <=> c.op \in SaleOps
         /\ c \in MaterialCalls <=> c.op \in MaterialOps
         /\ c \in ProductCalls <=> c.op = "replaceBillOfMaterials"
         /\ c.op \in SaleOps => c.sale \in Sales
         /\ c.op = "createSale" => c.items \in Baskets
         /\ c.op \in {"addItem", "removeItem", "updateItemQuantity"} => c.line \in Lines
         /\ c.op = "addItem" => c.item \in SaleItem
         /\ c.op = "updateItemQuantity" => c.quantity \in Quantities
         /\ c.op = "updatePaymentStatus" => c.status \in PaymentStatus
         /\ c.op = "updateProductionStatus" => c.status \in AskedStatuses
         /\ c.op \in MaterialOps => c.material \in Materials
         /\ c.op \in MaterialOps \ {"editMaterial"} => c.quantity \in Quantities \cup {0}
         /\ c.op = "replaceBillOfMaterials" => c.product \in Products /\ c.recipe \in Recipes
<1>1. c \in SaleCalls \/ c \in MaterialCalls \/ c \in ProductCalls
  BY DEF Calls
<1>2. ASSUME c \in SaleCalls
      PROVE  /\ c.op \in SaleOps /\ c.sale \in Sales
             /\ c.op = "createSale" => c.items \in Baskets
             /\ c.op \in {"addItem", "removeItem", "updateItemQuantity"} => c.line \in Lines
             /\ c.op = "addItem" => c.item \in SaleItem
             /\ c.op = "updateItemQuantity" => c.quantity \in Quantities
             /\ c.op = "updatePaymentStatus" => c.status \in PaymentStatus
             /\ c.op = "updateProductionStatus" => c.status \in AskedStatuses
  BY <1>2 DEF SaleCalls, SaleOps
<1>3. ASSUME c \in MaterialCalls
      PROVE  /\ c.op \in MaterialOps /\ c.material \in Materials
             /\ c.op # "editMaterial" => c.quantity \in Quantities \cup {0}
  BY <1>3 DEF MaterialCalls, MaterialOps
<1>4. ASSUME c \in ProductCalls
      PROVE  c.op = "replaceBillOfMaterials" /\ c.product \in Products /\ c.recipe \in Recipes
  BY <1>4 DEF ProductCalls
<1> QED
  BY <1>1, <1>2, <1>3, <1>4 DEF SaleOps, MaterialOps, AllOps

LEMMA QuantityIsNat ==
  ASSUME NEW c \in Calls, c.op \in MaterialOps \ {"editMaterial"}
  PROVE  c.quantity \in Nat
<1>1. c.quantity \in Quantities \/ c.quantity = 0
  BY CallFields
<1>2. Quantities \subseteq Nat /\ 0 \in Nat
  BY QuantitiesAssumption
<1> QED
  BY <1>1, <1>2, Zenon

LEMMA NoCallFields == NoCall.op = "none"
BY DEF NoCall

LEMMA PartialFacts ==
  ASSUME NEW S, NEW T, NEW f \in Partial(S, T)
  PROVE  DOMAIN f \subseteq S /\ \A x \in DOMAIN f : f[x] \in T
BY DEF Partial

LEMMA NothingWritten ==
  ASSUME NEW S, NEW T
  PROVE  <<>> \in Partial(S, T)
<1>1. <<>> \in [{} -> T]
  OBVIOUS
<1> QED
  BY <1>1 DEF Partial

LEMMA PartialFunction ==
  ASSUME NEW S, NEW T, NEW f, NEW D \in SUBSET S, f \in [D -> T]
  PROVE  f \in Partial(S, T)
BY DEF Partial

LEMMA PutTyped ==
  ASSUME NEW S, NEW T, NEW f, f \in Partial(S, T), NEW x, x \in S, NEW row, row \in T
  PROVE  /\ Put(f, x, row) \in Partial(S, T)
         /\ DOMAIN Put(f, x, row) = DOMAIN f \cup {x}
         /\ Put(f, x, row)[x] = row
         /\ \A y \in DOMAIN f : y # x => Put(f, x, row)[y] = f[y]
<1>1. DOMAIN f \subseteq S /\ \A y \in DOMAIN f : f[y] \in T
  BY DEF Partial
<1> DEFINE D == DOMAIN f \cup {x}
<1>2. Put(f, x, row) \in [D -> T] /\ D \in SUBSET S
  BY <1>1 DEF Put
<1>3. Put(f, x, row) \in Partial(S, T)
  BY <1>2, PartialFunction
<1>4. /\ DOMAIN Put(f, x, row) = DOMAIN f \cup {x} /\ Put(f, x, row)[x] = row
      /\ \A y \in DOMAIN f : y # x => Put(f, x, row)[y] = f[y]
  BY DEF Put
<1> QED
  BY <1>3, <1>4

LEMMA SeenFields ==
  ASSUME NEW k \in Seen
  PROVE  /\ k.sale \in SaleRow \cup {NoSale} /\ k.item \in SaleItem \cup {NoItem}
         /\ k.material \in Materials \cup {"NONE"} /\ k.quantity \in Nat
         /\ k.row \in Snapshot \cup {<<>>} /\ k.need \in [Materials -> Nat] \cup {<<>>}
         /\ k.todo \in SUBSET (Materials \cup Snapshot) /\ k.doomed \in SUBSET Snapshot
         /\ k.late \in SUBSET (Sales \cup Materials)
BY DEF Seen

LEMMA OwnFields ==
  ASSUME NEW w \in Own
  PROVE  /\ w.stock \in Partial(Materials, Nat) /\ w.bom \in Partial(Products, Recipes)
         /\ w.sale \in Partial(Sales, SaleRow)
         /\ w.lines \in Partial(Sales \X Lines, SaleItem \cup {NoItem})
         /\ w.added \in SUBSET Snapshot /\ w.removed \in SUBSET Snapshot
BY DEF Own

LEMMA SaleRowFields ==
  ASSUME NEW row \in SaleRow
  PROVE  /\ row.production \in ProductionStatus /\ row.payment \in PaymentStatus /\ row # NoSale
         /\ \A x \in PaymentStatus : [row EXCEPT !.payment = x] \in SaleRow
                                     /\ [row EXCEPT !.payment = x].production = row.production
         /\ \A x \in ProductionStatus : [row EXCEPT !.production = x] \in SaleRow
                                        /\ [row EXCEPT !.production = x].production = x
BY DEF SaleRow, NoSale, ProductionStatus, PaymentStatus

LEMMA NothingTyped ==
  /\ NothingSeen \in Seen /\ NoWrites \in Own
  /\ NothingSeen.sale = NoSale /\ NothingSeen.late = {} /\ NothingSeen.item = NoItem
  /\ DOMAIN NoWrites.stock = {} /\ DOMAIN NoWrites.bom = {} /\ DOMAIN NoWrites.sale = {}
  /\ DOMAIN NoWrites.lines = {} /\ NoWrites.added = {} /\ NoWrites.removed = {}
  /\ NoSale.production = "NONE"
<1>1. NothingSeen \in Seen
  <2> HIDE DEF NoSale, NoItem
  <2> QED
    BY DEF NothingSeen, Seen
<1>2. NoWrites \in Own
  BY NothingWritten DEF NoWrites, Own
<1>3. /\ NothingSeen.sale = NoSale /\ NothingSeen.late = {} /\ NothingSeen.item = NoItem
  BY DEF NothingSeen
<1>4. /\ DOMAIN NoWrites.stock = {} /\ DOMAIN NoWrites.bom = {} /\ DOMAIN NoWrites.sale = {}
      /\ DOMAIN NoWrites.lines = {} /\ NoWrites.added = {} /\ NoWrites.removed = {}
  BY DEF NoWrites
<1> QED
  BY <1>1, <1>2, <1>3, <1>4 DEF NoSale

LEMMA SlotFields ==
  ASSUME Typed, NEW r \in Requests
  PROVE  /\ call[r] \in Calls \cup {NoCall} /\ seen[r] \in Seen /\ writes[r] \in Own
         /\ pc[r] \in Anywhere
BY DEF Typed

-----------------------------------------------------------------------------
(* Control.                                                                *)

LEMMA Placed ==
  ASSUME Typed, NEW r \in Requests, Position(r)
  PROVE  /\ pc[r] = "idle" <=> call[r] = NoCall
         /\ pc[r] # "idle" => call[r] \in Calls /\ call[r].op \in AllOps
         /\ pc[r] = "saveNewSale" => call[r].op = "createSale"
         /\ pc[r] = "readSale" => call[r].op \in SaleOps \ {"createSale"}
         /\ pc[r] = "readItem" => call[r].op \in {"removeItem", "updateItemQuantity"}
         /\ pc[r] = "saveItem" => call[r].op \in {"addItem", "removeItem", "updateItemQuantity"}
         /\ pc[r] = "saveSale" =>
              call[r].op \in {"updateDetails", "updatePaymentStatus", "updateProductionStatus"}
         /\ pc[r] \in DebitPath \cup ReversalPath => call[r].op = "updateProductionStatus"
         /\ pc[r] \in {"readMaterial", "saveMaterial"} => call[r].op \in MaterialOps
         /\ pc[r] = "saveBom" => call[r].op = "replaceBillOfMaterials"
<1>1. call[r] = NoCall \/ (call[r] \in Calls /\ call[r].op \in AllOps)
  BY CallFields DEF Typed
<1>2. CASE call[r] = NoCall
  <2>1. call[r].op = "none"
    BY <1>2, NoCallFields
  <2>2. pc[r] = "idle"
    BY <2>1 DEF Position, Places, MaterialOps
  <2> QED
    BY <1>2, <2>2 DEF DebitPath, ReversalPath
<1>3. CASE call[r] \in Calls /\ call[r].op \in AllOps
  <2>1. call[r] # NoCall
    BY <1>3, NoCallFields DEF AllOps, SaleOps, MaterialOps
  <2>2. pc[r] \in Places(call[r].op)
    BY DEF Position
  <2> QED
    BY <1>3, <2>1, <2>2
       DEF AllOps, SaleOps, MaterialOps, Places, DebitPath, ReversalPath
<1> QED
  BY <1>1, <1>2, <1>3

LEMMA SomewhereTyped ==
  ASSUME NEW c \in Calls \cup {NoCall}, NEW p \in Places(c.op)
  PROVE  p \in Anywhere
<1>1. c.op \in AllOps \cup {"none"}
  BY CallFields, NoCallFields
<1> QED
  BY <1>1 DEF Anywhere, AllOps

LEMMA FirstOf ==
  ASSUME NEW c \in Calls, c.op \in SaleOps \ {"createSale"}
  PROVE  FirstStatement(c) = "readSale"
<1>1. c \in SaleCalls /\ c \notin MaterialCalls /\ c \notin ProductCalls /\ c.op # "createSale"
  BY CallFields DEF SaleOps, MaterialOps
<1> QED
  BY <1>1 DEF FirstStatement

\* A step of one slot, short of its commit.
Local(r) ==
  \/ \E c \in Calls : Start(r, c)
  \/ SaveNewSale(r) \/ ReadSale(r) \/ ReadItem(r) \/ SaveItem(r) \/ SaveSale(r)
  \/ CheckSnapshots(r) \/ ReadNeed(r) \/ ReadStock(r) \/ SaveDebit(r)
  \/ ReadSnapshots(r) \/ ReadBack(r) \/ SaveBack(r)
  \/ FindSnapshots(r) \/ DeleteSnapshots(r)
  \/ ReadMaterial(r) \/ SaveMaterial(r) \/ SaveBom(r)
  \/ Abort(r)

LEMMA StepsOfSlots ==
  ASSUME [Next]_vars
  PROVE  UNCHANGED vars \/ \E r \in Requests : Local(r) \/ Commit(r)
BY DEF Next, Statement, Fail, BreakDeadlock, Local

\* It leaves the committed rows and the other slots alone.
Quiet(r) ==
  /\ stock' = stock /\ bom' = bom /\ sale' = sale /\ lines' = lines /\ ledger' = ledger
  /\ snapshots' = snapshots /\ overtaken' = overtaken
  /\ pc' = [pc EXCEPT ![r] = pc'[r]] /\ call' = [call EXCEPT ![r] = call'[r]]
  /\ seen' = [seen EXCEPT ![r] = seen'[r]] /\ writes' = [writes EXCEPT ![r] = writes'[r]]

LEMMA LocalQuiet ==
  ASSUME Typed, NEW r \in Requests, Local(r)
  PROVE  Quiet(r)
<1> DEFINE Kept(f) == DOMAIN f = Requests
<1>1. /\ pc \in [Requests -> Anywhere] /\ call \in [Requests -> Calls \cup {NoCall}]
      /\ seen \in [Requests -> Seen] /\ writes \in [Requests -> Own]
  BY DEF Typed
<1>2. /\ pc = [pc EXCEPT ![r] = pc[r]] /\ call = [call EXCEPT ![r] = call[r]]
      /\ seen = [seen EXCEPT ![r] = seen[r]] /\ writes = [writes EXCEPT ![r] = writes[r]]
  BY <1>1
<1>3. ASSUME NEW S, NEW f \in [Requests -> S], NEW v
      PROVE  [f EXCEPT ![r] = v][r] = v
  BY <1>3
<1>4. UNCHANGED <<database, overtaken>>
  BY DEF Local, Start, Abort, End, SaveNewSale, ReadSale, ReadItem, SaveItem, SaveSale, CheckSnapshots,
         ReadNeed, ReadStock, SaveDebit, ReadSnapshots, ReadBack, SaveBack, FindSnapshots,
         DeleteSnapshots, ReadMaterial, SaveMaterial, SaveBom, Reads, Writes
<1>5. \E v : pc' = [pc EXCEPT ![r] = v]
  BY DEF Local, Start, Abort, End, SaveNewSale, ReadSale, ReadItem, SaveItem, SaveSale, CheckSnapshots,
         ReadNeed, ReadStock, SaveDebit, ReadSnapshots, ReadBack, SaveBack, FindSnapshots,
         DeleteSnapshots, ReadMaterial, SaveMaterial, SaveBom, GoTo
<1>6. call' = call \/ \E v : call' = [call EXCEPT ![r] = v]
  BY DEF Local, Start, Abort, End, SaveNewSale, ReadSale, ReadItem, SaveItem, SaveSale, CheckSnapshots,
         ReadNeed, ReadStock, SaveDebit, ReadSnapshots, ReadBack, SaveBack, FindSnapshots,
         DeleteSnapshots, ReadMaterial, SaveMaterial, SaveBom, Reads, Writes
<1>7. seen' = seen \/ \E v : seen' = [seen EXCEPT ![r] = v]
  BY DEF Local, Start, Abort, End, SaveNewSale, ReadSale, ReadItem, SaveItem, SaveSale, CheckSnapshots,
         ReadNeed, ReadStock, SaveDebit, ReadSnapshots, ReadBack, SaveBack, FindSnapshots,
         DeleteSnapshots, ReadMaterial, SaveMaterial, SaveBom, Reads, Writes
<1>8. writes' = writes \/ \E v : writes' = [writes EXCEPT ![r] = v]
  BY DEF Local, Start, Abort, End, SaveNewSale, ReadSale, ReadItem, SaveItem, SaveSale, CheckSnapshots,
         ReadNeed, ReadStock, SaveDebit, ReadSnapshots, ReadBack, SaveBack, FindSnapshots,
         DeleteSnapshots, ReadMaterial, SaveMaterial, SaveBom, Reads, Writes
<1>9. /\ pc' = [pc EXCEPT ![r] = pc'[r]] /\ call' = [call EXCEPT ![r] = call'[r]]
      /\ seen' = [seen EXCEPT ![r] = seen'[r]] /\ writes' = [writes EXCEPT ![r] = writes'[r]]
  BY <1>1, <1>2, <1>3, <1>5, <1>6, <1>7, <1>8
<1> QED
  BY <1>4, <1>9 DEF Quiet, database

\* A slot is sound as long as neither it nor the committed rows change.
LEMMA SlotStays ==
  ASSUME stock' = stock, sale' = sale, snapshots' = snapshots, overtaken' = overtaken,
         NEW o \in Requests, Slot(o),
         pc'[o] = pc[o], call'[o] = call[o], seen'[o] = seen[o], writes'[o] = writes[o]
  PROVE  Slot(o)'
<1>1. Position(o) => Position(o)'
  BY DEF Position
<1>2. Knows(o) => Knows(o)'
  BY DEF Knows, Creates, Changes, Debits, Reverses
<1>3. SaleWrites(o) => SaleWrites(o)'
  BY DEF SaleWrites, SavesSale, Creates
<1>4. MaterialSlot(o) => MaterialSlot(o)'
  BY DEF MaterialSlot, MovesMaterial, Holding
<1>5. Bystander(o) => Bystander(o)'
  BY DEF Bystander, MovesMaterial, Debits, Reverses
<1>6. DebitSlot(o) => DebitSlot(o)'
  BY DEF DebitSlot, Debits, Holding, RowsOf
<1>7. ReverseSlot(o) => ReverseSlot(o)'
  BY DEF ReverseSlot, Reverses, RowsOf, Returned, Rest, Holding, SalesUntouched
<1> QED
  BY <1>1, <1>2, <1>3, <1>4, <1>5, <1>6, <1>7 DEF Slot

LEMMA OthersStay ==
  ASSUME Typed, NEW r \in Requests, Quiet(r), NEW o \in Requests, o # r
  PROVE  /\ pc'[o] = pc[o] /\ call'[o] = call[o] /\ seen'[o] = seen[o] /\ writes'[o] = writes[o]
         /\ Slot(o) => Slot(o)'
<1>1. pc'[o] = pc[o] /\ call'[o] = call[o] /\ seen'[o] = seen[o] /\ writes'[o] = writes[o]
  BY DEF Typed, Quiet
<1> QED
  BY <1>1, SlotStays DEF Quiet

\* What a local step owes: the slot it moves.
Sound(r) ==
  /\ call'[r] \in Calls \cup {NoCall} /\ seen'[r] \in Seen /\ writes'[r] \in Own
  /\ Slot(r)'
  /\ \A o \in Requests \ {r} :
       /\ DOMAIN writes'[r].stock \cap DOMAIN writes[o].stock = {}
       /\ Creates(r)' /\ Creates(o) => call'[r].sale # call[o].sale

LEMMA LocalStep ==
  ASSUME Inv, NEW r \in Requests, Local(r), Sound(r)
  PROVE  Inv'
<1>1. Typed /\ Quiet(r)
  BY LocalQuiet DEF Inv
<1>2. Typed'
  <2>1. pc'[r] \in Anywhere
    <3>1. pc'[r] \in Places(call'[r].op)
      BY DEF Sound, Slot, Position
    <3> QED
      BY <3>1, SomewhereTyped DEF Sound
  <2> QED
    BY <1>1, <2>1 DEF Typed, Quiet, Sound
<1>3. \A o \in Requests : Slot(o)'
  BY <1>1, OthersStay DEF Inv, Sound
<1>4. Exclusive'
  <2>1. \A o \in Requests \ {r} : writes'[o] = writes[o] /\ call'[o] = call[o]
    BY <1>1, OthersStay
  <2>2. \A o \in Requests \ {r} : Creates(o)' <=> Creates(o)
    BY <2>1 DEF Creates
  <2> QED
    BY <2>1, <2>2 DEF Inv, Exclusive, Sound, Creates
<1>5. StockLostOnlyToARace'
  <2>1. \A s \in Sales, m \in Materials : Held(s, m)' = Held(s, m)
    BY <1>1 DEF Held, Quiet
  <2> QED
    BY <1>1, <2>1 DEF Inv, StockLostOnlyToARace, Held, Quiet
<1>6. SnapshotsFitTheSaleUnlessRaced'
  BY <1>1 DEF Inv, SnapshotsFitTheSaleUnlessRaced, SnapshotsOf, Quiet
<1> QED
  BY <1>2, <1>3, <1>4, <1>5, <1>6 DEF Inv

-----------------------------------------------------------------------------
(* Each statement keeps its slot.                                          *)

\* A slot whose call has ended, and a step that ends or begins one.
LEMMA IdleSlot ==
  ASSUME NEW r \in Requests,
         pc'[r] = "idle", call'[r] = NoCall, seen'[r] = NothingSeen, writes'[r] = NoWrites
  PROVE  Slot(r)' /\ ~ Creates(r)'
<1>1. call'[r].op = "none"
  BY NoCallFields
<1>2. Position(r)'
  BY <1>1 DEF Position, Places, MaterialOps
<1>3. Knows(r)'
  BY <1>1, NothingTyped DEF Knows, Creates, Changes, SaleOps, DebitPath, ReversalPath
<1>4. SaleWrites(r)'
  BY NothingTyped DEF SaleWrites
<1>5. ~ MovesMaterial(r)' /\ ~ Debits(r)' /\ ~ Reverses(r)'
  BY <1>1 DEF MovesMaterial, MaterialOps, Debits, Reverses
<1>6. Bystander(r)'
  BY NothingTyped DEF Bystander
<1> QED
  BY <1>1, <1>2, <1>3, <1>4, <1>5, <1>6 DEF Slot, MaterialSlot, DebitSlot, ReverseSlot, Creates

LEMMA AbortSound ==
  ASSUME Inv, NEW r \in Requests, Abort(r)
  PROVE  Sound(r)
<1>1. pc'[r] = "idle" /\ call'[r] = NoCall /\ seen'[r] = NothingSeen /\ writes'[r] = NoWrites
  BY DEF Inv, Abort, End, GoTo, Typed
<1> QED
  BY <1>1, IdleSlot, NothingTyped DEF Sound

LEMMA StartSound ==
  ASSUME Inv, NEW r \in Requests, NEW c \in Calls, Start(r, c)
  PROVE  Sound(r)
<1>1. Typed /\ Slot(r) /\ pc[r] = "idle"
  BY DEF Inv, Start
<1>2. /\ pc'[r] = FirstStatement(c) /\ call'[r] = c /\ seen'[r] = NothingSeen
      /\ writes'[r] = NoWrites /\ sale' = sale
  BY <1>1 DEF Start, GoTo, Typed, Slot, Position, database
<1>3. c.op \in AllOps /\ FirstStatement(c) \in Places(c.op) \cap Firsts
  BY CallFields DEF AllOps, FirstStatement, SaleOps, MaterialOps, Places, Firsts
<1>4. Creates(r)' => sale[c.sale] = NoSale /\ \A o \in Requests : Creates(o) => call[o].sale # c.sale
  <2>1. \A o \in Requests : Creates(o) => call[o] \in SaleCalls
    BY <1>1, CallFields, NoCallFields DEF Typed, Creates, SaleOps
  <2> QED
    BY <1>2, <2>1 DEF Start, Fresh, Creates
<1>5. Slot(r)'
  <2>1. Position(r)'
    BY <1>2, <1>3 DEF Position
  <2>2. Knows(r)'
    <3>1. Changes(r)' => FirstStatement(c) = "readSale"
      BY <1>2, FirstOf DEF Changes
    <3> QED
      BY <1>2, <1>3, <1>4, <3>1, NothingTyped
         DEF Knows, Creates, Firsts, DebitPath, ReversalPath
  <2>3. SaleWrites(r)'
    BY <1>2, <1>3, NothingTyped DEF SaleWrites, Firsts
  <2>4. ~ Debits(r)' /\ ~ Reverses(r)'
    BY <1>2, NothingTyped DEF Debits, Reverses
  <2>5. Bystander(r)'
    BY <1>2, NothingTyped DEF Bystander
  <2>6. MaterialSlot(r)'
    BY <1>2, <1>3, NothingTyped DEF MaterialSlot, Firsts
  <2> QED
    BY <2>1, <2>2, <2>3, <2>4, <2>5, <2>6 DEF Slot, DebitSlot, ReverseSlot
<1> QED
  BY <1>2, <1>4, <1>5, NothingTyped DEF Sound, Creates

\* A step of a sale's handler that moves no stock.
LEMMA AsideSound ==
  ASSUME Inv, NEW r \in Requests, Local(r), call'[r] = call[r], call[r] \in Calls,
         seen'[r] \in Seen, writes'[r] \in Own,
         Position(r)', Knows(r)', SaleWrites(r)', MaterialSlot(r)', DebitSlot(r)', ReverseSlot(r)',
         Bystander(r)', DOMAIN writes'[r].stock \subseteq DOMAIN writes[r].stock
  PROVE  Sound(r)
<1>1. \A o \in Requests \ {r} :
        /\ DOMAIN writes[r].stock \cap DOMAIN writes[o].stock = {}
        /\ Creates(r) /\ Creates(o) => call[r].sale # call[o].sale
  BY DEF Inv, Exclusive
<1>2. Creates(r)' <=> Creates(r)
  BY DEF Creates
<1> QED
  BY <1>1, <1>2 DEF Sound, Slot

LEMMA SaveNewSaleSound ==
  ASSUME Inv, NEW r \in Requests, SaveNewSale(r)
  PROVE  Sound(r)
<1>1. Typed /\ Slot(r) /\ pc[r] = "saveNewSale" /\ Local(r)
  BY DEF Inv, SaveNewSale, Ready, Local
<1>2. /\ call[r] \in Calls /\ call[r].op = "createSale" /\ call[r].sale \in Sales
      /\ call[r].items \in Baskets
  BY <1>1, Placed, CallFields DEF Slot, SaleOps
<1> DEFINE s == call[r].sale
           items == [sl \in {s} \X Lines |-> call[r].items[sl[2]]]
           w == [NoWrites EXCEPT !.sale = Put(<<>>, s, NewSale), !.lines = items]
<1>3. writes[r] = NoWrites /\ seen[r] = NothingSeen
  BY <1>1 DEF Slot, Position, Firsts
<1>4. /\ pc'[r] = "commit" /\ call'[r] = call[r] /\ seen'[r] = NothingSeen /\ writes'[r] = w
      /\ sale' = sale
  BY <1>1, <1>3 DEF SaveNewSale, GoTo, Writes, Typed, database
<1>5. /\ w.stock = <<>> /\ w.bom = <<>> /\ w.sale = Put(<<>>, s, NewSale) /\ w.lines = items
      /\ w.added = {} /\ w.removed = {} /\ w \in Own
  <2>1. items \in Partial(Sales \X Lines, SaleItem \cup {NoItem})
    <3>1. items \in [{s} \X Lines -> SaleItem \cup {NoItem}]
      BY <1>2 DEF Baskets
    <3>2. {s} \X Lines \in SUBSET (Sales \X Lines)
      BY <1>2
    <3> QED
      BY <3>1, <3>2, PartialFunction
  <2>2. Put(<<>>, s, NewSale) \in Partial(Sales, SaleRow)
    <3>1. NewSale \in SaleRow
      BY DEF NewSale, SaleRow, ProductionStatus, PaymentStatus
    <3>2. <<>> \in Partial(Sales, SaleRow)
      BY NothingWritten
    <3> QED
      BY <1>2, <3>1, <3>2, PutTyped
  <2>3. <<>> \in Partial(Materials, Nat) /\ <<>> \in Partial(Products, Recipes)
    BY NothingWritten
  <2> HIDE DEF items
  <2> QED
    BY <2>1, <2>2, <2>3 DEF NoWrites, Own
<1>6. DOMAIN w.sale = {s} /\ w.sale[s] = NewSale /\ DOMAIN w.stock = {}
  BY <1>2, <1>5, NothingWritten, NothingTyped, PutTyped DEF NoWrites, Put
<1> HIDE DEF w
<1>7. Knows(r)'
  BY <1>1, <1>2, <1>3, <1>4, NothingTyped
     DEF Slot, Knows, Creates, Changes, SaleOps, DebitPath, ReversalPath
<1>8. Position(r)' /\ SaleWrites(r)'
  BY <1>2, <1>4, <1>6 DEF Position, Places, Firsts, SaleWrites, SavesSale, Creates
<1>9. ~ MovesMaterial(r)' /\ ~ Debits(r)' /\ ~ Reverses(r)'
  BY <1>2, <1>4 DEF MovesMaterial, MaterialOps, Debits, Reverses
<1>10. Bystander(r)'
  BY <1>4, <1>5, <1>6 DEF Bystander
<1> QED
  BY <1>1, <1>2, <1>4, <1>5, <1>6, <1>7, <1>8, <1>9, <1>10, AsideSound, NothingTyped
     DEF MaterialSlot, DebitSlot, ReverseSlot

\* What a handler learns of its sale when it reads it.
LEMMA LearnsSale ==
  ASSUME NEW k \in Seen, NEW row \in SaleRow
  PROVE  LET n == [k EXCEPT !.sale = row] IN
         n \in Seen /\ n.sale = row /\ n.late = k.late /\ n.item = k.item
BY DEF Seen

LEMMA ReadSaleSound ==
  ASSUME Inv, NEW r \in Requests, ReadSale(r)
  PROVE  Sound(r)
<1>1. Typed /\ Slot(r) /\ pc[r] = "readSale" /\ Local(r)
  BY DEF Inv, ReadSale, Ready, Local
<1>2. CASE Abort(r)
  BY <1>2, AbortSound
<1>3. CASE /\ sale[call[r].sale] # NoSale
           /\ GoTo(r, AfterReadSale(call[r], sale[call[r].sale]))
           /\ Reads(r, [seen[r] EXCEPT !.sale = sale[call[r].sale]])
  <2> DEFINE s == call[r].sale
             row == sale[s]
             k == [NothingSeen EXCEPT !.sale = row]
             at == AfterReadSale(call[r], row)
  <2>1. /\ call[r] \in Calls /\ call[r].op \in SaleOps \ {"createSale"} /\ s \in Sales
        /\ call[r].op = "updateProductionStatus" => call[r].status \in ProductionStatus
    BY <1>1, Placed, CallFields, RequestsAssumption DEF Slot
  <2>2. writes[r] = NoWrites /\ seen[r] = NothingSeen
    BY <1>1 DEF Slot, Position, Firsts
  <2>3. row \in SaleRow /\ row.production \in ProductionStatus /\ row # NoSale
    BY <1>1, <1>3, <2>1, SaleRowFields DEF Typed
  <2>4. k \in Seen /\ k.sale = row /\ k.late = {}
    BY <2>3, NothingTyped, LearnsSale
  <2>5. pc'[r] = at /\ call'[r] = call[r] /\ seen'[r] = k /\ writes'[r] = NoWrites /\ sale' = sale
    BY <1>1, <1>3, <2>2 DEF GoTo, Reads, Typed, database
  <2>6. /\ at \in Places(call[r].op) \ ({"idle", "commit"} \cup Firsts)
        /\ at \in {"readItem", "saveItem", "saveSale", "readSnapshots", "checkSnapshots"}
        /\ at = "readSnapshots" => call[r].op = "updateProductionStatus"
                  /\ row.production # "PENDING" /\ call[r].status = "PENDING"
        /\ at = "checkSnapshots" => call[r].op = "updateProductionStatus"
                  /\ row.production = "PENDING" /\ call[r].status # "PENDING"
        /\ at = "saveItem" => call[r].op = "addItem"
    <3>1. CASE call[r].op = "updateProductionStatus"
      <4>1. \/ at = "saveSale"
            \/ at = "readSnapshots" /\ row.production # "PENDING" /\ call[r].status = "PENDING"
            \/ at = "checkSnapshots" /\ row.production = "PENDING" /\ call[r].status # "PENDING"
        BY <3>1 DEF AfterReadSale
      <4> HIDE DEF at
      <4> QED
        BY <3>1, <4>1 DEF Places, Firsts, DebitPath, ReversalPath, MaterialOps
    <3>2. CASE call[r].op # "updateProductionStatus"
      <4>1. \/ call[r].op = "addItem" /\ at = "saveItem"
            \/ call[r].op \in {"removeItem", "updateItemQuantity"} /\ at = "readItem"
            \/ call[r].op \in {"updateDetails", "updatePaymentStatus"} /\ at = "saveSale"
        BY <2>1, <3>2 DEF AfterReadSale, SaleOps
      <4> HIDE DEF at
      <4> QED
        BY <4>1 DEF Places, Firsts, MaterialOps
    <3> QED
      BY <3>1, <3>2
  <2> HIDE DEF k, at
  <2>7. Position(r)' /\ SaleWrites(r)'
    BY <2>5, <2>6, NothingTyped DEF Position, SaleWrites
  <2>8. Knows(r)'
    BY <2>1, <2>3, <2>4, <2>5, <2>6
       DEF Knows, Creates, Changes, Debits, Reverses, DebitPath, ReversalPath, ProductionStatus
  <2>9. ~ MovesMaterial(r)'
    BY <2>1, <2>5 DEF MovesMaterial, MaterialOps, SaleOps
  <2>10. Bystander(r)' /\ DebitSlot(r)'
    BY <2>5, <2>6, NothingTyped, FS_EmptySet DEF Bystander, DebitSlot
  <2>11. ReverseSlot(r)'
    <3>2. Reverses(r)' => at = "readSnapshots"
      BY <2>1, <2>3, <2>4, <2>5 DEF Reverses, at, AfterReadSale
    <3> QED
      BY <2>5, <3>2, NothingTyped DEF ReverseSlot, ReversalPath, Returned, Rest
  <2> QED
    BY <1>1, <2>1, <2>4, <2>5, <2>7, <2>8, <2>9, <2>10, <2>11, AsideSound, NothingTyped
       DEF MaterialSlot
<1> QED
  BY <1>2, <1>3 DEF ReadSale

\* One field written, the others as they were.
LEMMA WritesSale ==
  ASSUME NEW w \in Own, NEW x \in Partial(Sales, SaleRow)
  PROVE  LET n == [w EXCEPT !.sale = x] IN
         /\ n \in Own /\ n.sale = x /\ n.stock = w.stock /\ n.added = w.added /\ n.removed = w.removed
BY DEF Own

LEMMA WritesLines ==
  ASSUME NEW w \in Own, NEW x \in Partial(Sales \X Lines, SaleItem \cup {NoItem})
  PROVE  LET n == [w EXCEPT !.lines = x] IN
         /\ n \in Own /\ n.sale = w.sale /\ n.stock = w.stock
         /\ n.added = w.added /\ n.removed = w.removed
BY DEF Own

LEMMA LearnsItem ==
  ASSUME NEW k \in Seen, NEW item \in SaleItem \cup {NoItem}
  PROVE  LET n == [k EXCEPT !.item = item] IN
         n \in Seen /\ n.sale = k.sale /\ n.late = k.late /\ n.item = item
BY DEF Seen

LEMMA ItemResized ==
  ASSUME NEW item \in SaleItem, NEW quantity \in Quantities
  PROVE  [item EXCEPT !.quantity = quantity] \in SaleItem
BY DEF SaleItem

LEMMA ReadItemSound ==
  ASSUME Inv, NEW r \in Requests, ReadItem(r)
  PROVE  Sound(r)
<1>1. Typed /\ Slot(r) /\ pc[r] = "readItem" /\ Local(r)
  BY DEF Inv, ReadItem, Ready, Local
<1> DEFINE item == lines[<<call[r].sale, call[r].line>>]
<1>2. CASE Abort(r)
  BY <1>2, AbortSound
<1>3. CASE item # NoItem /\ GoTo(r, "saveItem") /\ Reads(r, [seen[r] EXCEPT !.item = item])
  <2>1. /\ call[r] \in Calls /\ call[r].op \in {"removeItem", "updateItemQuantity"}
        /\ call[r].sale \in Sales /\ call[r].line \in Lines
    BY <1>1, Placed, CallFields DEF Slot, SaleOps
  <2>2. item \in SaleItem \cup {NoItem} /\ seen[r] \in Seen /\ writes[r] \in Own
    BY <1>1, <2>1 DEF Typed
  <2> DEFINE k == [seen[r] EXCEPT !.item = item]
  <2>3. k \in Seen /\ k.sale = seen[r].sale /\ k.late = seen[r].late /\ k.item = item
    BY <2>2, LearnsItem
  <2>4. /\ pc'[r] = "saveItem" /\ call'[r] = call[r] /\ seen'[r] = k /\ writes'[r] = writes[r]
        /\ sale' = sale
    BY <1>1, <1>3 DEF GoTo, Reads, Typed, database
  <2> HIDE DEF k, item
  <2>5. Position(r)' /\ SaleWrites(r)'
    BY <1>1, <2>1, <2>4 DEF Position, Places, Firsts, SaleWrites, Slot
  <2>6. Knows(r)'
    BY <1>1, <1>3, <2>1, <2>3, <2>4
       DEF Slot, Knows, Creates, Changes, SaleOps, DebitPath, ReversalPath
  <2>7. ~ MovesMaterial(r)' /\ ~ Debits(r)' /\ ~ Reverses(r)' /\ ~ MovesMaterial(r) /\ ~ Debits(r) /\ ~ Reverses(r)
    BY <2>1, <2>4 DEF MovesMaterial, MaterialOps, Debits, Reverses
  <2>8. Bystander(r)'
    BY <1>1, <2>4, <2>7 DEF Bystander, Slot
  <2> QED
    BY <1>1, <2>1, <2>2, <2>3, <2>4, <2>5, <2>6, <2>7, <2>8, AsideSound
       DEF MaterialSlot, DebitSlot, ReverseSlot
<1> QED
  BY <1>2, <1>3, <1>1 DEF ReadItem

LEMMA SaveItemSound ==
  ASSUME Inv, NEW r \in Requests, SaveItem(r)
  PROVE  Sound(r)
<1> DEFINE c == call[r]
           line == <<c.sale, c.line>>
           item == CASE c.op = "addItem" -> c.item
                     [] c.op = "removeItem" -> NoItem
                     [] c.op = "updateItemQuantity" -> [seen[r].item EXCEPT !.quantity = c.quantity]
           w == [writes[r] EXCEPT !.lines = Put(@, line, item)]
<1>1. Typed /\ Slot(r) /\ pc[r] = "saveItem" /\ Local(r)
  BY DEF Inv, SaveItem, Ready, Local
<1>2. CASE Abort(r)
  BY <1>2, AbortSound
<1>3. CASE Writes(r, w) /\ GoTo(r, "commit") /\ UNCHANGED seen
  <2>1. /\ c \in Calls /\ c.op \in {"addItem", "removeItem", "updateItemQuantity"}
        /\ c.sale \in Sales /\ c.line \in Lines
        /\ c.op = "addItem" => c.item \in SaleItem
        /\ c.op = "updateItemQuantity" => c.quantity \in Quantities
    BY <1>1, Placed, CallFields DEF Slot, SaleOps
  <2>2. seen[r] \in Seen /\ writes[r] \in Own
    BY <1>1 DEF Typed
  <2>3. item \in SaleItem \cup {NoItem}
    <3>1. c.op = "updateItemQuantity" => seen[r].item \in SaleItem
      BY <1>1, <2>2, SeenFields DEF Slot, Knows
    <3>2. CASE c.op = "updateItemQuantity"
      BY <2>1, <3>1, <3>2, ItemResized
    <3>3. CASE c.op # "updateItemQuantity"
      BY <2>1, <3>3
    <3> QED
      BY <3>2, <3>3
  <2> HIDE DEF item
  <2>4. /\ w \in Own /\ w.sale = writes[r].sale /\ w.stock = writes[r].stock
        /\ w.added = writes[r].added /\ w.removed = writes[r].removed
    <3>1. writes[r].lines \in Partial(Sales \X Lines, SaleItem \cup {NoItem})
      BY <2>2, OwnFields
    <3>2. line \in Sales \X Lines
      BY <2>1
    <3> HIDE DEF line
    <3>3. Put(writes[r].lines, line, item) \in Partial(Sales \X Lines, SaleItem \cup {NoItem})
      BY <2>3, <3>1, <3>2, PutTyped
    <3> QED
      BY <2>2, <3>3, WritesLines
  <2>5. /\ pc'[r] = "commit" /\ call'[r] = c /\ seen'[r] = seen[r] /\ writes'[r] = w
        /\ sale' = sale
    BY <1>1, <1>3 DEF GoTo, Writes, Typed, database
  <2> HIDE DEF w
  <2>6. Position(r)' /\ SaleWrites(r)'
    BY <1>1, <2>1, <2>4, <2>5 DEF Position, Places, Firsts, SaleWrites, SavesSale, Slot
  <2>7. Knows(r)'
    BY <1>1, <2>1, <2>5 DEF Slot, Knows, Creates, Changes, SaleOps, DebitPath, ReversalPath
  <2>8. ~ MovesMaterial(r)' /\ ~ Debits(r)' /\ ~ Reverses(r)' /\ ~ MovesMaterial(r) /\ ~ Debits(r) /\ ~ Reverses(r)
    BY <2>1, <2>5 DEF MovesMaterial, MaterialOps, Debits, Reverses
  <2>9. Bystander(r)'
    BY <1>1, <2>4, <2>5, <2>8 DEF Bystander, Slot
  <2> QED
    BY <1>1, <2>1, <2>2, <2>4, <2>5, <2>6, <2>7, <2>8, <2>9, AsideSound
       DEF MaterialSlot, DebitSlot, ReverseSlot
<1> QED
  BY <1>2, <1>3 DEF SaveItem

LEMMA SaveSaleSound ==
  ASSUME Inv, NEW r \in Requests, SaveSale(r)
  PROVE  Sound(r)
<1> DEFINE s == call[r].sale
           row == SaleSaved(call[r], seen[r].sale)
           w == [writes[r] EXCEPT !.sale = Put(@, s, row)]
<1>1. Typed /\ Slot(r) /\ pc[r] = "saveSale" /\ Local(r) /\ Quiet(r)
  BY LocalQuiet DEF Inv, SaveSale, Ready, Local
<1>2. /\ call[r] \in Calls /\ s \in Sales
      /\ call[r].op \in {"updateDetails", "updatePaymentStatus", "updateProductionStatus"}
      /\ call[r].op = "updatePaymentStatus" => call[r].status \in PaymentStatus
      /\ call[r].op = "updateProductionStatus" => call[r].status \in ProductionStatus
  BY <1>1, Placed, CallFields, RequestsAssumption DEF Slot, SaleOps
<1>3. seen[r] \in Seen /\ writes[r] \in Own
  BY <1>1 DEF Typed
<1>4. seen[r].sale \in SaleRow
  <2>1. seen[r].sale # NoSale
    BY <1>1, <1>2 DEF Slot, Knows, Changes, SaleOps
  <2> QED
    BY <1>3, <2>1, SeenFields
<1>5. row \in SaleRow
  BY <1>2, <1>4, SaleRowFields DEF SaleSaved
<1> HIDE DEF row
<1>6. /\ w \in Own /\ w.sale = Put(writes[r].sale, s, row) /\ w.stock = writes[r].stock
      /\ w.added = writes[r].added /\ w.removed = writes[r].removed
      /\ DOMAIN w.sale = DOMAIN writes[r].sale \cup {s} /\ w.sale[s] = row
  <2>1. writes[r].sale \in Partial(Sales, SaleRow)
    BY <1>3, OwnFields
  <2>2. /\ Put(writes[r].sale, s, row) \in Partial(Sales, SaleRow)
        /\ DOMAIN Put(writes[r].sale, s, row) = DOMAIN writes[r].sale \cup {s}
        /\ Put(writes[r].sale, s, row)[s] = row
    <3> DEFINE own == writes[r].sale
    <3>1. own \in Partial(Sales, SaleRow) /\ s \in Sales
      BY <1>2, <2>1
    <3> HIDE DEF own, s
    <3>2. Put(own, s, row) \in Partial(Sales, SaleRow)
      BY <1>5, <3>1, PutTyped
    <3>3. DOMAIN Put(own, s, row) = DOMAIN own \cup {s} /\ Put(own, s, row)[s] = row
      BY DEF Put
    <3> QED
      BY <3>2, <3>3 DEF own
  <2> QED
    BY <1>3, <2>2, WritesSale
<1>7. /\ pc'[r] = "commit" /\ call'[r] = call[r] /\ seen'[r] = seen[r] /\ writes'[r] = w
      /\ sale' = sale
  BY <1>1 DEF SaveSale, GoTo, Writes, Typed, database, row
<1> HIDE DEF w
<1>8. Position(r)'
  BY <1>2, <1>7 DEF Position, Places, Firsts
<1>9. SaleWrites(r)'
  <2>1. DOMAIN writes[r].sale = {}
    BY <1>1 DEF Slot, SaleWrites
  <2>2. DOMAIN w.sale = {s} /\ w.sale[s] = row
    BY <1>6, <2>1
  <2>3. ~ Creates(r)'
    BY <1>2, <1>7 DEF Creates
  <2>4. SavesSale(r)' /\ pc'[r] = "commit" /\ writes'[r] = w /\ call'[r].sale = s
    BY <1>2, <1>7 DEF SavesSale
  <2>5. SaleSaved(call'[r], seen'[r].sale) = row
    BY <1>7 DEF row
  <2> QED
    BY <2>2, <2>3, <2>4, <2>5 DEF SaleWrites
<1>10. Knows(r)'
  BY <1>1, <1>2, <1>7 DEF Slot, Knows, Creates, Changes, SaleOps, DebitPath, ReversalPath
<1>11. /\ ~ MovesMaterial(r)' /\ ~ MovesMaterial(r)
       /\ Debits(r)' <=> Debits(r)
       /\ Reverses(r)' <=> Reverses(r)
  BY <1>2, <1>7 DEF MovesMaterial, MaterialOps, Debits, Reverses
<1>12. Bystander(r)'
  BY <1>1, <1>6, <1>7, <1>11 DEF Bystander, Slot
<1>13. DebitSlot(r)'
  <2> SUFFICES ASSUME Debits(r) PROVE DebitSlot(r)'
    BY <1>11 DEF DebitSlot
  <2> QED
    BY <1>1, <1>6, <1>7 DEF Slot, DebitSlot, RowsOf, Quiet
<1>14. ReverseSlot(r)'
  <2> SUFFICES ASSUME Reverses(r) PROVE ReverseSlot(r)'
    BY <1>11 DEF ReverseSlot
  <2>1. RowsOf(r)' = RowsOf(r) /\ Rest(r)' = {} /\ Rest(r) = {} /\ (SalesUntouched' <=> SalesUntouched)
    BY <1>1, <1>7 DEF RowsOf, Rest, SalesUntouched, Quiet
  <2>2. Returned(r) => Returned(r)'
    BY <1>1, <1>6, <1>7, <2>1 DEF Returned, Quiet
  <2> QED
    BY <1>1, <1>6, <1>7, <2>1, <2>2 DEF Slot, ReverseSlot, ReversalPath
<1> QED
  BY <1>1, <1>2, <1>3, <1>6, <1>7, <1>8, <1>9, <1>10, <1>11, <1>12, <1>13, <1>14, AsideSound
     DEF MaterialSlot

-----------------------------------------------------------------------------
(* The debit and the reversal.                                             *)

\* What a handler knows of itself on either path.
LEMMA Crossing ==
  ASSUME Inv, NEW r \in Requests, pc[r] \in DebitPath \cup ReversalPath
  PROVE  /\ Typed /\ Slot(r)
         /\ call[r] \in Calls /\ call[r].op = "updateProductionStatus" /\ call[r].sale \in Sales
         /\ seen[r] \in Seen /\ writes[r] \in Own
         /\ pc[r] \in DebitPath => Debits(r) /\ ~ Reverses(r)
         /\ pc[r] \in ReversalPath => Reverses(r) /\ ~ Debits(r)
<1>1. Typed /\ Slot(r)
  BY DEF Inv
<1>2. pc[r] # "idle"
  BY DEF DebitPath, ReversalPath
<1>3. call[r] \in Calls /\ call[r].op = "updateProductionStatus"
  BY <1>1, <1>2, Placed DEF Slot
<1>4. call[r].sale \in Sales
  BY <1>3, CallFields DEF SaleOps
<1>5. seen[r] \in Seen /\ writes[r] \in Own
  BY <1>1, SlotFields
<1> QED
  BY <1>1, <1>3, <1>4, <1>5 DEF Slot, Knows, Debits, Reverses

LEMMA CrossingStep ==
  ASSUME Inv, NEW r \in Requests, Local(r), call'[r] = call[r],
         \/ pc[r] \in DebitPath /\ pc'[r] \in DebitPath \cup {"saveSale"} /\ DebitSlot(r)'
         \/ pc[r] \in ReversalPath /\ pc'[r] \in ReversalPath \cup {"saveSale"} /\ ReverseSlot(r)',
         seen'[r] \in Seen, seen'[r].sale = seen[r].sale, seen'[r].late = seen[r].late,
         writes'[r] \in Own, writes'[r].sale = writes[r].sale,
         \A o \in Requests \ {r} : DOMAIN writes'[r].stock \cap DOMAIN writes[o].stock = {}
  PROVE  Sound(r)
<1>1. /\ Typed /\ Slot(r) /\ call[r] \in Calls /\ call[r].op = "updateProductionStatus"
      /\ pc[r] \in DebitPath => Debits(r) /\ ~ Reverses(r)
      /\ pc[r] \in ReversalPath => Reverses(r) /\ ~ Debits(r)
  BY Crossing
<1>2. Quiet(r)
  BY <1>1, LocalQuiet
<1>3. /\ Debits(r)' <=> Debits(r)
      /\ Reverses(r)' <=> Reverses(r)
      /\ ~ MovesMaterial(r)' /\ ~ Creates(r)' /\ (Changes(r)' <=> Changes(r))
  BY <1>1 DEF Debits, Reverses, MovesMaterial, MaterialOps, Creates, Changes
<1>4. Position(r)'
  BY <1>1 DEF Position, Places, MaterialOps, Firsts, DebitPath, ReversalPath
<1>5. Knows(r)'
  BY <1>1, <1>2, <1>3
     DEF Slot, Knows, Quiet, SaleOps, DebitPath, ReversalPath, Changes, Creates
<1>6. SaleWrites(r)'
  BY <1>1 DEF Slot, SaleWrites, DebitPath, ReversalPath
<1>7. MaterialSlot(r)' /\ Bystander(r)' /\ DebitSlot(r)' /\ ReverseSlot(r)'
  <2>1. MaterialSlot(r)'
    BY <1>3 DEF MaterialSlot
  <2>2. Debits(r)' \/ Reverses(r)'
    BY <1>1, <1>3
  <2>3. Bystander(r)'
    BY <2>2 DEF Bystander
  <2>4. CASE DebitSlot(r)' /\ ~ Reverses(r)'
    BY <2>1, <2>3, <2>4 DEF ReverseSlot
  <2>5. CASE ReverseSlot(r)' /\ ~ Debits(r)'
    BY <2>1, <2>3, <2>5 DEF DebitSlot
  <2> QED
    BY <1>1, <1>3, <2>4, <2>5
<1>8. Slot(r)'
  BY <1>4, <1>5, <1>6, <1>7 DEF Slot
<1> QED
  BY <1>1, <1>3, <1>8 DEF Sound

\* The balances a transaction has not written, and those the others hold.
LEMMA HeldApart ==
  ASSUME Inv, NEW r \in Requests
  PROVE  \A o \in Requests \ {r} : DOMAIN writes[r].stock \cap DOMAIN writes[o].stock = {}
BY DEF Inv, Exclusive

LEMMA WriteApart ==
  ASSUME Inv, NEW r \in Requests, pc[r] \in {"saveDebit", "saveBack", "saveMaterial"},
         Ready(r, pc[r]), NEW own, DOMAIN own = DOMAIN writes[r].stock \cup {seen[r].material}
  PROVE  \A o \in Requests \ {r} : DOMAIN own \cap DOMAIN writes[o].stock = {}
<1> DEFINE m == seen[r].material
<1>1. Wants(r) = {<<"material", m>>}
  BY DEF Wants
<1>2. ASSUME NEW o \in Requests \ {r}
      PROVE  m \notin DOMAIN writes[o].stock
  <2>1. <<"material", m>> \notin Holds(o)
    BY <1>1 DEF Ready, WaitsFor
  <2> QED
    BY <2>1 DEF Holds
<1> QED
  BY <1>2, HeldApart

LEMMA OwnStock ==
  ASSUME Typed, NEW r \in Requests, NEW m \in Materials
  PROVE  /\ StockSeen(r)[m] \in Nat
         /\ m \notin DOMAIN writes[r].stock => StockSeen(r)[m] = stock[m]
<1>1. writes[r].stock \in Partial(Materials, Nat)
  BY SlotFields, OwnFields
<1>2. \A x \in DOMAIN writes[r].stock : writes[r].stock[x] \in Nat
  BY <1>1, PartialFacts
<1>3. stock[m] \in Nat /\ DOMAIN stock = Materials
  BY DEF Typed
<1> QED
  BY <1>2, <1>3 DEF StockSeen, Over

LEMMA CheckSnapshotsSound ==
  ASSUME Inv, NEW r \in Requests, CheckSnapshots(r)
  PROVE  Sound(r)
<1>1. pc[r] = "checkSnapshots" /\ pc[r] \in DebitPath /\ Local(r)
  BY DEF CheckSnapshots, Ready, DebitPath, Local
<1>2. Typed /\ Slot(r) /\ Quiet(r) /\ Debits(r) /\ seen[r] \in Seen /\ writes[r] \in Own
  BY <1>1, Crossing, LocalQuiet
<1>3. /\ pc'[r] \in {"readNeed", "saveSale"} /\ call'[r] = call[r] /\ seen'[r] = seen[r]
      /\ writes'[r] = writes[r]
      /\ pc'[r] = "readNeed" => SnapshotsOf(SnapshotsSeen(r), call[r].sale) = {}
  BY <1>2 DEF CheckSnapshots, GoTo, Typed
<1>4. /\ DOMAIN writes[r].stock = {} /\ writes[r].added = {} /\ writes[r].removed = {}
  BY <1>1, <1>2 DEF Slot, DebitSlot
<1>5. pc'[r] = "readNeed" => RowsOf(r)' = {}
  BY <1>2, <1>3, <1>4 DEF SnapshotsSeen, SnapshotsOf, RowsOf, Quiet
<1>6. DebitSlot(r)'
  BY <1>3, <1>4, <1>5, FS_EmptySet DEF DebitSlot
<1> QED
  BY <1>1, <1>2, <1>3, <1>6, CrossingStep, HeldApart DEF DebitPath

\* What a sale needs of each material is a natural number.
LEMMA NeedIsNat ==
  ASSUME Typed, NEW s \in Sales, NEW m \in Materials
  PROVE  MaterialNeed(bom, lines, s, m) \in Nat
<1> DEFINE w == [l \in Lines |->
                   Consumption(bom, lines[<<s, l>>].ref, m) * lines[<<s, l>>].quantity]
<1>1. ASSUME NEW a \in Nat, NEW b \in Nat
      PROVE  a * b \in Nat
  OBVIOUS
<1>2. \A l \in Lines : w[l] \in Nat
  <2> TAKE l \in Lines
  <2>1. lines[<<s, l>>] \in SaleItem \/ lines[<<s, l>>] = NoItem
    BY DEF Typed
  <2>2. lines[<<s, l>>].quantity \in Nat
    <3>1. CASE lines[<<s, l>>] \in SaleItem
      <4>1. lines[<<s, l>>].quantity \in Quantities
        BY <3>1 DEF SaleItem
      <4> QED
        BY <4>1, QuantitiesAssumption
    <3>2. CASE lines[<<s, l>>] = NoItem
      BY <3>2 DEF NoItem
    <3> QED
      BY <2>1, <3>1, <3>2
  <2>3. Consumption(bom, lines[<<s, l>>].ref, m) \in Nat
    BY QuantitiesAssumption DEF Typed, Consumption
  <2> QED
    BY <1>1, <2>2, <2>3
<1>3. SumOver(Lines, w) \in Nat
  BY <1>2, SumIsNat, LinesAssumption
<1> QED
  BY <1>3 DEF MaterialNeed

NeedRead(k, need, todo) == [k EXCEPT !.need = need, !.todo = todo]

LEMMA LearnsNeed ==
  ASSUME NEW k \in Seen, NEW need \in [Materials -> Nat], NEW todo \in SUBSET Materials
  PROVE  LET n == NeedRead(k, need, todo) IN
         /\ n \in Seen /\ n.sale = k.sale /\ n.late = k.late
         /\ n.need = need /\ n.todo = todo
BY DEF Seen, NeedRead

LEMMA ReadNeedSound ==
  ASSUME Inv, NEW r \in Requests, ReadNeed(r)
  PROVE  Sound(r)
<1> DEFINE need == [m \in Materials |-> MaterialNeed(bom, lines, call[r].sale, m)]
           needed == {m \in Materials : need[m] > 0}
           k == NeedRead(seen[r], need, needed)
<1>1. pc[r] = "readNeed" /\ pc[r] \in DebitPath /\ Local(r)
  BY DEF ReadNeed, Ready, DebitPath, Local
<1>2. /\ Typed /\ Slot(r) /\ Quiet(r) /\ Debits(r) /\ seen[r] \in Seen /\ writes[r] \in Own
      /\ call[r].sale \in Sales
  BY <1>1, Crossing, LocalQuiet
<1>3. need \in [Materials -> Nat] /\ needed \in SUBSET Materials
  BY <1>2, NeedIsNat
<1>4. /\ pc'[r] \in {"readStock", "saveSale"} /\ call'[r] = call[r] /\ seen'[r] = k
      /\ writes'[r] = writes[r]
  BY <1>2 DEF ReadNeed, Reads, GoTo, Typed, NeedRead
<1> HIDE DEF need, needed
<1>5. k \in Seen /\ k.sale = seen[r].sale /\ k.late = seen[r].late /\ k.need = need /\ k.todo = needed
  BY <1>2, <1>3, LearnsNeed
<1> HIDE DEF k
<1>6. /\ DOMAIN writes[r].stock = {} /\ writes[r].added = {} /\ writes[r].removed = {}
      /\ call[r].sale \in seen[r].late \/ RowsOf(r) = {}
  BY <1>1, <1>2 DEF Slot, DebitSlot
<1>7. RowsOf(r)' = RowsOf(r)
  BY <1>2, <1>4 DEF RowsOf, Quiet
<1>8. DebitSlot(r)'
  BY <1>3, <1>4, <1>5, <1>6, <1>7, FS_EmptySet DEF DebitSlot
<1> QED
  BY <1>1, <1>2, <1>4, <1>5, <1>8, CrossingStep, HeldApart DEF DebitPath

BalanceRead(k, m, quantity) == [k EXCEPT !.material = m, !.quantity = quantity]

LEMMA LearnsBalance ==
  ASSUME NEW k \in Seen, NEW m \in Materials, NEW quantity \in Nat
  PROVE  LET n == BalanceRead(k, m, quantity) IN
         /\ n \in Seen /\ n.sale = k.sale /\ n.late = k.late /\ n.item = k.item
         /\ n.need = k.need /\ n.todo = k.todo /\ n.material = m /\ n.quantity = quantity
BY DEF Seen, BalanceRead

LEMMA LearnsTodo ==
  ASSUME NEW k \in Seen, NEW todo \in SUBSET (Materials \cup Snapshot)
  PROVE  LET n == [k EXCEPT !.todo = todo] IN
         /\ n \in Seen /\ n.sale = k.sale /\ n.late = k.late /\ n.need = k.need /\ n.todo = todo
BY DEF Seen

LEMMA ReadStockSound ==
  ASSUME Inv, NEW r \in Requests, ReadStock(r)
  PROVE  Sound(r)
<1>1. pc[r] = "readStock" /\ pc[r] \in DebitPath /\ Local(r)
  BY DEF ReadStock, Ready, DebitPath, Local
<1>2. /\ Typed /\ Slot(r) /\ Quiet(r) /\ Debits(r) /\ seen[r] \in Seen /\ writes[r] \in Own
  BY <1>1, Crossing, LocalQuiet
<1>3. DebitSlot(r) /\ seen[r].todo \subseteq Materials \ DOMAIN writes[r].stock
  BY <1>1, <1>2 DEF Slot, DebitSlot
<1>4. PICK m \in seen[r].todo :
        LET quantity == StockSeen(r)[m] IN
        IF StockDebit(seen[r].need[m], quantity) > 0
        THEN /\ Reads(r, [seen[r] EXCEPT !.material = m, !.quantity = quantity])
             /\ GoTo(r, "saveDebit")
        ELSE /\ Reads(r, [seen[r] EXCEPT !.todo = @ \ {m}])
             /\ GoTo(r, IF seen[r].todo = {m} THEN "saveSale" ELSE "readStock")
  BY DEF ReadStock
<1> DEFINE q == StockSeen(r)[m]
           held == BalanceRead(seen[r], m, q)
           rest == [seen[r] EXCEPT !.todo = seen[r].todo \ {m}]
<1>5. m \in Materials /\ q \in Nat /\ q = stock[m]
  BY <1>2, <1>3, OwnStock
<1>6. RowsOf(r)' = RowsOf(r) \/ call'[r] # call[r]
  BY <1>2 DEF RowsOf, Quiet
<1>7. CASE Reads(r, held) /\ GoTo(r, "saveDebit")
  <2>1. /\ pc'[r] = "saveDebit" /\ call'[r] = call[r] /\ seen'[r] = held /\ writes'[r] = writes[r]
        /\ stock' = stock
    BY <1>2, <1>7 DEF Reads, GoTo, Typed, database
  <2> HIDE DEF q
  <2>2. /\ held \in Seen /\ held.sale = seen[r].sale /\ held.late = seen[r].late
        /\ held.need = seen[r].need /\ held.todo = seen[r].todo
        /\ held.material = m /\ held.quantity = q
    BY <1>2, <1>5, LearnsBalance
  <2> HIDE DEF held
  <2>3. DebitSlot(r)'
    <3>1. Holding(r, m)'
      BY <1>5, <2>1, <2>2 DEF Holding
    <3>2. seen'[r].material = m /\ m \in seen'[r].todo
      BY <2>1, <2>2
    <3> QED
      BY <1>1, <1>2, <1>3, <1>6, <2>1, <2>2, <3>1, <3>2 DEF DebitSlot
  <2> QED
    BY <1>1, <1>2, <2>1, <2>2, <2>3, CrossingStep, HeldApart DEF DebitPath
<1>8. CASE Reads(r, rest) /\ GoTo(r, IF seen[r].todo = {m} THEN "saveSale" ELSE "readStock")
  <2>1. /\ pc'[r] \in {"saveSale", "readStock"} /\ call'[r] = call[r] /\ seen'[r] = rest
        /\ writes'[r] = writes[r] /\ stock' = stock
    BY <1>2, <1>8 DEF Reads, GoTo, Typed, database
  <2>2. /\ rest \in Seen /\ rest.sale = seen[r].sale /\ rest.late = seen[r].late
        /\ rest.need = seen[r].need /\ rest.todo = seen[r].todo \ {m}
    BY <1>2, <1>3, LearnsTodo
  <2> HIDE DEF rest
  <2>3. DebitSlot(r)'
    BY <1>1, <1>2, <1>3, <1>6, <2>1, <2>2 DEF DebitSlot
  <2> QED
    BY <1>1, <1>2, <2>1, <2>2, <2>3, CrossingStep, HeldApart DEF DebitPath
<1> QED
  BY <1>4, <1>7, <1>8 DEF BalanceRead

DebitWritten(w, x, rows) == [w EXCEPT !.stock = x, !.added = rows]

LEMMA WritesDebit ==
  ASSUME NEW w \in Own, NEW x \in Partial(Materials, Nat), NEW rows \in SUBSET Snapshot
  PROVE  LET n == DebitWritten(w, x, rows) IN
         /\ n \in Own /\ n.sale = w.sale /\ n.stock = x /\ n.added = rows /\ n.removed = w.removed
BY DEF Own, DebitWritten

LEMMA DebitTaken ==
  ASSUME NEW need \in Nat, NEW quantity \in Nat
  PROVE  /\ StockDebit(need, quantity) \in Nat
         /\ quantity - StockDebit(need, quantity) \in Nat
BY DEF StockDebit, Smaller

LEMMA SaveDebitSound ==
  ASSUME Inv, NEW r \in Requests, SaveDebit(r)
  PROVE  Sound(r)
<1> DEFINE m == seen[r].material
           q == seen[r].quantity
           debited == StockDebit(seen[r].need[m], q)
           row == [sale |-> call[r].sale, material |-> m, by |-> r, quantity |-> debited]
           own == Put(writes[r].stock, m, q - debited)
           rows == writes[r].added \cup {row}
           w == DebitWritten(writes[r], own, rows)
           k == [seen[r] EXCEPT !.todo = seen[r].todo \ {m}]
<1>1. pc[r] = "saveDebit" /\ pc[r] \in DebitPath /\ Local(r) /\ Ready(r, pc[r])
  BY DEF SaveDebit, Ready, DebitPath, Local
<1>2. /\ Typed /\ Slot(r) /\ Quiet(r) /\ Debits(r) /\ seen[r] \in Seen /\ writes[r] \in Own
      /\ call[r].sale \in Sales
  BY <1>1, Crossing, LocalQuiet
<1>3. /\ DebitSlot(r) /\ seen[r].todo \subseteq Materials \ DOMAIN writes[r].stock
      /\ m \in seen[r].todo /\ Holding(r, m) /\ seen[r].need \in [Materials -> Nat]
      /\ call[r].sale \in seen[r].late \/ RowsOf(r) = {}
  BY <1>1, <1>2 DEF Slot, DebitSlot
<1>4. m \in Materials /\ m \notin DOMAIN writes[r].stock /\ q \in Nat /\ seen[r].need[m] \in Nat
  BY <1>2, <1>3, SeenFields
<1>5. debited \in Nat /\ q - debited \in Nat
  BY <1>4, DebitTaken
<1>6. /\ pc'[r] \in {"saveSale", "readStock"} /\ call'[r] = call[r] /\ seen'[r] = k
      /\ writes'[r] = w /\ stock' = stock
  BY <1>2 DEF SaveDebit, Writes, GoTo, Typed, database, DebitWritten
<1>7. k \in Seen /\ k.sale = seen[r].sale /\ k.late = seen[r].late /\ k.need = seen[r].need
      /\ k.todo = seen[r].todo \ {m}
  BY <1>2, <1>3, LearnsTodo
<1>8. /\ own \in Partial(Materials, Nat) /\ DOMAIN own = DOMAIN writes[r].stock \cup {m}
      /\ own[m] = q - debited
      /\ \A y \in DOMAIN writes[r].stock : own[y] = writes[r].stock[y]
  <2> DEFINE old == writes[r].stock
             left == q - debited
             mine == Put(old, m, left)
  <2>1. old \in Partial(Materials, Nat) /\ left \in Nat /\ m \in Materials /\ m \notin DOMAIN old
    BY <1>2, <1>4, <1>5, OwnFields
  <2> HIDE DEF old, left, m
  <2>2. /\ mine \in Partial(Materials, Nat) /\ DOMAIN mine = DOMAIN old \cup {m}
        /\ mine[m] = left /\ \A y \in DOMAIN old : y # m => mine[y] = old[y]
    BY <2>1, PutTyped
  <2>3. \A y \in DOMAIN old : mine[y] = old[y]
    BY <2>1, <2>2
  <2> USE DEF old, left, m
  <2> QED
    BY <2>2, <2>3
<1>9. row \in Snapshot /\ row.sale = call[r].sale /\ row.material = m /\ row.quantity = debited
  <2> HIDE DEF debited, m
  <2> QED
    BY <1>2, <1>4, <1>5 DEF Snapshot
<1>10. rows \in SUBSET Snapshot /\ IsFiniteSet(rows)
  <2>1. writes[r].added \in SUBSET Snapshot /\ IsFiniteSet(writes[r].added)
    BY <1>2, <1>3, OwnFields DEF DebitSlot
  <2> HIDE DEF row
  <2> QED
    BY <1>9, <2>1, FS_AddElement
<1>11. /\ w \in Own /\ w.sale = writes[r].sale /\ w.stock = own /\ w.added = rows
       /\ w.removed = writes[r].removed
  <2> HIDE DEF own, rows
  <2> QED
    BY <1>2, <1>8, <1>10, WritesDebit
<1> HIDE DEF m, q, debited, row, own, w, k
<1>12. DebitSlot(r)'
  <2>1. writes'[r].removed = {} /\ IsFiniteSet(writes'[r].added)
    BY <1>2, <1>3, <1>6, <1>10, <1>11 DEF DebitSlot
  <2>2. \A x \in rows : x.sale = call[r].sale /\ x.material \in DOMAIN own
    BY <1>2, <1>3, <1>8, <1>9 DEF DebitSlot
  <2>3. \A a, b \in rows : a.material = b.material => a = b
    BY <1>2, <1>3, <1>4, <1>9 DEF DebitSlot
  <2>4. \A n \in DOMAIN own : \E x \in rows :
          x.material = n /\ (n \in seen[r].late \/ own[n] = stock[n] - x.quantity)
    <3>1. ASSUME NEW n \in DOMAIN writes[r].stock
          PROVE  \E x \in rows :
                   x.material = n /\ (n \in seen[r].late \/ own[n] = stock[n] - x.quantity)
      <4>1. PICK x \in writes[r].added :
              x.material = n /\ (n \in seen[r].late \/ writes[r].stock[n] = stock[n] - x.quantity)
        BY <1>2, <1>3 DEF DebitSlot
      <4> QED
        BY <1>8, <4>1
    <3>2. m \in seen[r].late \/ own[m] = stock[m] - row.quantity
      BY <1>3, <1>8, <1>9 DEF Holding, q
    <3> QED
      BY <1>8, <1>9, <3>1, <3>2
  <2>5. RowsOf(r)' = RowsOf(r)
    BY <1>2, <1>6 DEF RowsOf, Quiet
  <2>6. k.todo \subseteq Materials \ DOMAIN own
    BY <1>3, <1>7, <1>8
  <2> HIDE DEF rows
  <2> QED
    BY <1>3, <1>6, <1>7, <1>11, <2>1, <2>2, <2>3, <2>4, <2>5, <2>6 DEF DebitSlot
<1>13. \A o \in Requests \ {r} : DOMAIN own \cap DOMAIN writes[o].stock = {}
  BY <1>1, <1>8, WriteApart DEF m
<1> QED
  BY <1>1, <1>6, <1>7, <1>11, <1>12, <1>13, CrossingStep DEF DebitPath

LEMMA ReadSnapshotsSound ==
  ASSUME Inv, NEW r \in Requests, ReadSnapshots(r)
  PROVE  Sound(r)
<1> DEFINE rows == SnapshotsOf(SnapshotsSeen(r), call[r].sale)
           k == [seen[r] EXCEPT !.todo = rows]
<1>1. pc[r] = "readSnapshots" /\ pc[r] \in ReversalPath /\ Local(r)
  BY DEF ReadSnapshots, Ready, ReversalPath, Local
<1>2. /\ Typed /\ Slot(r) /\ Quiet(r) /\ Reverses(r) /\ seen[r] \in Seen /\ writes[r] \in Own
  BY <1>1, Crossing, LocalQuiet
<1>3. writes[r].added = {} /\ writes[r].removed = {} /\ ReverseSlot(r)
  BY <1>1, <1>2 DEF Slot, ReverseSlot
<1>4. rows = RowsOf(r) /\ RowsOf(r) \in SUBSET Snapshot
  BY <1>2, <1>3 DEF RowsOf, SnapshotsSeen, SnapshotsOf, Typed
<1>5. /\ pc'[r] = (IF rows = {} THEN "findSnapshots" ELSE "readBack")
      /\ call'[r] = call[r] /\ seen'[r] = k /\ writes'[r] = writes[r]
  BY <1>2 DEF ReadSnapshots, Reads, GoTo, Typed
<1> HIDE DEF rows
<1>6. k \in Seen /\ k.sale = seen[r].sale /\ k.late = seen[r].late /\ k.todo = rows
  BY <1>2, <1>4, LearnsTodo
<1> HIDE DEF k
<1>7. RowsOf(r)' = RowsOf(r) /\ (SalesUntouched' <=> SalesUntouched)
  BY <1>2, <1>5 DEF RowsOf, SalesUntouched, Quiet
<1>8. Rest(r) = RowsOf(r) /\ Rest(r)' = RowsOf(r)
  BY <1>1, <1>4, <1>5, <1>6 DEF Rest
<1>9. Returned(r) => Returned(r)'
  BY <1>2, <1>5, <1>6, <1>7, <1>8 DEF Returned, Quiet
<1>10. ReverseSlot(r)'
  BY <1>2, <1>3, <1>4, <1>5, <1>6, <1>7, <1>9 DEF ReverseSlot
<1> QED
  BY <1>1, <1>2, <1>5, <1>6, <1>10, CrossingStep, HeldApart DEF ReversalPath

RowRead(k, row, quantity) ==
  [k EXCEPT !.material = row.material, !.row = row, !.quantity = quantity]

LEMMA LearnsRow ==
  ASSUME NEW k \in Seen, NEW row \in Snapshot, NEW quantity \in Nat
  PROVE  LET n == RowRead(k, row, quantity) IN
         /\ n \in Seen /\ n.sale = k.sale /\ n.late = k.late /\ n.todo = k.todo
         /\ n.material = row.material /\ n.row = row /\ n.quantity = quantity
BY DEF Seen, Snapshot, RowRead

LEMMA SnapshotFields ==
  ASSUME NEW row \in Snapshot
  PROVE  row.sale \in Sales /\ row.material \in Materials /\ row.quantity \in Nat
BY DEF Snapshot

\* While no sale is overtaken, a sale has one row of a material.
LEMMA OneRow ==
  ASSUME Inv, SalesUntouched, NEW a \in snapshots, NEW b \in snapshots,
         a.sale = b.sale, a.material = b.material
  PROVE  a = b
<1>1. a.sale \in Sales
  BY SnapshotFields DEF Inv, Typed
<1>2. a.sale \notin overtaken
  BY <1>1 DEF SalesUntouched
<1> QED
  BY <1>2 DEF Inv, SnapshotsFitTheSaleUnlessRaced, SnapshotsOf

LEMMA ReadBackSound ==
  ASSUME Inv, NEW r \in Requests, ReadBack(r)
  PROVE  Sound(r)
<1>1. pc[r] = "readBack" /\ pc[r] \in ReversalPath /\ Local(r)
  BY DEF ReadBack, Ready, ReversalPath, Local
<1>2. /\ Typed /\ Slot(r) /\ Quiet(r) /\ Reverses(r) /\ seen[r] \in Seen /\ writes[r] \in Own
  BY <1>1, Crossing, LocalQuiet
<1>3. ReverseSlot(r) /\ seen[r].todo \subseteq Snapshot
  BY <1>1, <1>2 DEF Slot, ReverseSlot
<1>4. PICK row \in seen[r].todo :
        Reads(r, [seen[r] EXCEPT !.material = row.material, !.row = row,
                                 !.quantity = StockSeen(r)[row.material]])
  BY DEF ReadBack
<1> DEFINE q == StockSeen(r)[row.material]
           k == RowRead(seen[r], row, q)
<1>5. row \in Snapshot /\ row.material \in Materials /\ q \in Nat
  BY <1>2, <1>3, SnapshotFields, OwnStock
<1>6. row.material \notin DOMAIN writes[r].stock => q = stock[row.material]
  BY <1>2, <1>5, OwnStock
<1>7. /\ pc'[r] = "saveBack" /\ call'[r] = call[r] /\ seen'[r] = k /\ writes'[r] = writes[r]
  BY <1>2, <1>4 DEF ReadBack, Reads, GoTo, Typed, RowRead
<1> HIDE DEF q
<1>8. /\ k \in Seen /\ k.sale = seen[r].sale /\ k.late = seen[r].late /\ k.todo = seen[r].todo
      /\ k.material = row.material /\ k.row = row /\ k.quantity = q
  BY <1>2, <1>5, LearnsRow
<1> HIDE DEF k
<1>9. RowsOf(r)' = RowsOf(r) /\ (SalesUntouched' <=> SalesUntouched)
  BY <1>2, <1>7 DEF RowsOf, SalesUntouched, Quiet
<1>10. Rest(r) = seen[r].todo /\ Rest(r)' = seen[r].todo
  BY <1>1, <1>7, <1>8 DEF Rest
<1>11. ASSUME SalesUntouched, Returned(r)
       PROVE  Returned(r)'
  <2>1. row.material \notin DOMAIN writes[r].stock
    <3> SUFFICES ASSUME NEW x \in RowsOf(r) \ Rest(r), x.material = row.material
                 PROVE  FALSE
      BY <1>11 DEF Returned
    <3>1. row \in RowsOf(r) /\ row # x
      BY <1>4, <1>10, <1>11 DEF Returned
    <3> QED
      BY <1>11, <3>1, OneRow DEF RowsOf, SnapshotsOf
  <2>2. Holding(r, seen[r].material)'
    BY <1>2, <1>6, <1>7, <1>8, <2>1 DEF Holding, Quiet
  <2> QED
    BY <1>2, <1>7, <1>8, <1>9, <1>10, <1>11, <2>2 DEF Returned, Quiet
<1>12. ReverseSlot(r)'
  BY <1>1, <1>2, <1>3, <1>4, <1>7, <1>8, <1>9, <1>11 DEF ReverseSlot, ReversalPath
<1> QED
  BY <1>1, <1>2, <1>7, <1>8, <1>12, CrossingStep, HeldApart DEF ReversalPath

LEMMA WritesStock ==
  ASSUME NEW w \in Own, NEW x \in Partial(Materials, Nat)
  PROVE  LET n == [w EXCEPT !.stock = x] IN
         /\ n \in Own /\ n.sale = w.sale /\ n.stock = x /\ n.added = w.added /\ n.removed = w.removed
BY DEF Own

LEMMA SaveBackSound ==
  ASSUME Inv, NEW r \in Requests, SaveBack(r)
  PROVE  Sound(r)
<1> DEFINE row == seen[r].row
           m == row.material
           back == seen[r].quantity + row.quantity
           own == Put(writes[r].stock, m, back)
           w == [writes[r] EXCEPT !.stock = own]
           k == [seen[r] EXCEPT !.todo = seen[r].todo \ {row}]
<1>1. pc[r] = "saveBack" /\ pc[r] \in ReversalPath /\ Local(r) /\ Ready(r, pc[r])
  BY DEF SaveBack, Ready, ReversalPath, Local
<1>2. /\ Typed /\ Slot(r) /\ Quiet(r) /\ Reverses(r) /\ seen[r] \in Seen /\ writes[r] \in Own
  BY <1>1, Crossing, LocalQuiet
<1>3. /\ ReverseSlot(r) /\ seen[r].todo \subseteq Snapshot
      /\ row \in seen[r].todo /\ seen[r].material = m
  BY <1>1, <1>2 DEF Slot, ReverseSlot
<1>4. row \in Snapshot /\ m \in Materials /\ back \in Nat
  <2>1. row \in Snapshot
    BY <1>3
  <2>2. row.material \in Materials /\ row.quantity \in Nat
    BY <2>1, SnapshotFields
  <2>3. seen[r].quantity \in Nat
    BY <1>2, SeenFields
  <2> QED
    BY <2>1, <2>2, <2>3
<1>5. /\ pc'[r] \in {"findSnapshots", "readBack"} /\ call'[r] = call[r] /\ seen'[r] = k
      /\ writes'[r] = w /\ (pc'[r] = "findSnapshots" => seen[r].todo = {row})
  BY <1>2 DEF SaveBack, Writes, GoTo, Typed
<1>6. k \in Seen /\ k.sale = seen[r].sale /\ k.late = seen[r].late /\ k.todo = seen[r].todo \ {row}
  <2> HIDE DEF row
  <2> QED
    BY <1>2, <1>3, LearnsTodo
<1>7. /\ own \in Partial(Materials, Nat) /\ DOMAIN own = DOMAIN writes[r].stock \cup {m}
      /\ own[m] = back
      /\ \A y \in DOMAIN writes[r].stock : y # m => own[y] = writes[r].stock[y]
  <2> DEFINE old == writes[r].stock
  <2>1. old \in Partial(Materials, Nat)
    BY <1>2, OwnFields
  <2> HIDE DEF old, back, m
  <2>2. Put(old, m, back) \in Partial(Materials, Nat)
    BY <1>4, <2>1, PutTyped
  <2>3. /\ DOMAIN Put(old, m, back) = DOMAIN old \cup {m} /\ Put(old, m, back)[m] = back
        /\ \A y \in DOMAIN old : y # m => Put(old, m, back)[y] = old[y]
    BY DEF Put
  <2> QED
    BY <2>2, <2>3 DEF old
<1> HIDE DEF own
<1>8. /\ w \in Own /\ w.sale = writes[r].sale /\ w.stock = own /\ w.added = writes[r].added
      /\ w.removed = writes[r].removed
  BY <1>2, <1>7, WritesStock
<1> HIDE DEF w, k
<1>9. RowsOf(r)' = RowsOf(r) /\ (SalesUntouched' <=> SalesUntouched)
  BY <1>2, <1>5 DEF RowsOf, SalesUntouched, Quiet
<1>10. Rest(r) = seen[r].todo /\ Rest(r)' = seen[r].todo \ {row}
  BY <1>1, <1>5, <1>6 DEF Rest
<1>11. ASSUME SalesUntouched, Returned(r)
       PROVE  Returned(r)'
  <2>1. row \in RowsOf(r) /\ RowsOf(r) \ Rest(r)' = (RowsOf(r) \ Rest(r)) \cup {row}
    BY <1>3, <1>10, <1>11 DEF Returned
  <2>2. Holding(r, m)
    BY <1>1, <1>3, <1>11 DEF Returned
  <2>3. \A x \in RowsOf(r) \ Rest(r) : x.material # m
    BY <1>3, <1>10, <1>11, <2>1, OneRow DEF RowsOf, SnapshotsOf
  <2>4. DOMAIN own = {x.material : x \in RowsOf(r) \ Rest(r)'}
    BY <1>7, <1>11, <2>1 DEF Returned
  <2>5. \A x \in RowsOf(r) \ Rest(r)' :
          x.material \in seen[r].late \/ own[x.material] = stock[x.material] + x.quantity
    <3>1. \A x \in RowsOf(r) \ Rest(r) :
            x.material \in seen[r].late \/ own[x.material] = stock[x.material] + x.quantity
      BY <1>7, <1>11, <2>3 DEF Returned
    <3>2. m \in seen[r].late \/ own[m] = stock[m] + row.quantity
      BY <1>7, <2>2 DEF Holding
    <3> QED
      BY <2>1, <3>1, <3>2
  <2>6. Rest(r)' \subseteq RowsOf(r) /\ pc'[r] # "saveBack"
    BY <1>5, <1>10, <1>11 DEF Returned
  <2> QED
    BY <1>2, <1>5, <1>6, <1>8, <1>9, <2>4, <2>5, <2>6 DEF Returned, Quiet
<1>12. ReverseSlot(r)'
  BY <1>1, <1>2, <1>3, <1>5, <1>6, <1>8, <1>9, <1>11 DEF ReverseSlot, ReversalPath
<1>13. \A o \in Requests \ {r} : DOMAIN own \cap DOMAIN writes[o].stock = {}
  BY <1>1, <1>3, <1>7, WriteApart
<1> QED
  BY <1>1, <1>5, <1>6, <1>8, <1>12, <1>13, CrossingStep DEF ReversalPath

LEMMA LearnsDoomed ==
  ASSUME NEW k \in Seen, NEW doomed \in SUBSET Snapshot
  PROVE  LET n == [k EXCEPT !.doomed = doomed] IN
         n \in Seen /\ n.sale = k.sale /\ n.late = k.late /\ n.doomed = doomed
BY DEF Seen

LEMMA FindSnapshotsSound ==
  ASSUME Inv, NEW r \in Requests, FindSnapshots(r)
  PROVE  Sound(r)
<1> DEFINE rows == SnapshotsOf(SnapshotsSeen(r), call[r].sale)
           k == [seen[r] EXCEPT !.doomed = rows]
<1>1. pc[r] = "findSnapshots" /\ pc[r] \in ReversalPath /\ Local(r)
  BY DEF FindSnapshots, Ready, ReversalPath, Local
<1>2. /\ Typed /\ Slot(r) /\ Quiet(r) /\ Reverses(r) /\ seen[r] \in Seen /\ writes[r] \in Own
  BY <1>1, Crossing, LocalQuiet
<1>3. writes[r].added = {} /\ writes[r].removed = {} /\ ReverseSlot(r)
  BY <1>1, <1>2 DEF Slot, ReverseSlot
<1>4. rows = RowsOf(r) /\ RowsOf(r) \in SUBSET Snapshot /\ \A x \in rows : x.sale = call[r].sale
  BY <1>2, <1>3 DEF RowsOf, SnapshotsSeen, SnapshotsOf, Typed
<1>5. /\ pc'[r] = "deleteSnapshots" /\ call'[r] = call[r] /\ seen'[r] = k /\ writes'[r] = writes[r]
  BY <1>2 DEF FindSnapshots, Reads, GoTo, Typed
<1> HIDE DEF rows
<1>6. k \in Seen /\ k.sale = seen[r].sale /\ k.late = seen[r].late /\ k.doomed = rows
  BY <1>2, <1>4, LearnsDoomed
<1> HIDE DEF k
<1>7. RowsOf(r)' = RowsOf(r) /\ (SalesUntouched' <=> SalesUntouched)
  BY <1>2, <1>5 DEF RowsOf, SalesUntouched, Quiet
<1>8. Rest(r) = {} /\ Rest(r)' = {}
  BY <1>1, <1>5 DEF Rest
<1>9. Returned(r) => Returned(r)'
  BY <1>2, <1>5, <1>6, <1>7, <1>8 DEF Returned, Quiet
<1>10. ReverseSlot(r)'
  BY <1>2, <1>3, <1>4, <1>5, <1>6, <1>7, <1>9 DEF ReverseSlot
<1> QED
  BY <1>1, <1>2, <1>5, <1>6, <1>10, CrossingStep, HeldApart DEF ReversalPath

LEMMA WritesRemoved ==
  ASSUME NEW w \in Own, NEW rows \in SUBSET Snapshot
  PROVE  LET n == [w EXCEPT !.removed = rows] IN
         /\ n \in Own /\ n.sale = w.sale /\ n.stock = w.stock /\ n.added = w.added /\ n.removed = rows
BY DEF Own

LEMMA DeleteSnapshotsSound ==
  ASSUME Inv, NEW r \in Requests, DeleteSnapshots(r)
  PROVE  Sound(r)
<1> DEFINE rows == seen[r].doomed \cap snapshots
           w == [writes[r] EXCEPT !.removed = rows]
<1>1. pc[r] = "deleteSnapshots" /\ pc[r] \in ReversalPath /\ Local(r)
  BY DEF DeleteSnapshots, Ready, ReversalPath, Local
<1>2. /\ Typed /\ Slot(r) /\ Quiet(r) /\ Reverses(r) /\ seen[r] \in Seen /\ writes[r] \in Own
  BY <1>1, Crossing, LocalQuiet
<1>3. /\ writes[r].added = {} /\ ReverseSlot(r) /\ \A x \in rows : x.sale = call[r].sale
      /\ call[r].sale \notin seen[r].late => seen[r].doomed = RowsOf(r)
  BY <1>1, <1>2 DEF Slot, ReverseSlot
<1>4. rows \in SUBSET Snapshot /\ (call[r].sale \notin seen[r].late => rows = RowsOf(r))
  BY <1>2, <1>3 DEF RowsOf, SnapshotsOf, Typed
<1>5. /\ pc'[r] = "saveSale" /\ call'[r] = call[r] /\ seen'[r] = seen[r] /\ writes'[r] = w
  BY <1>2 DEF DeleteSnapshots, Writes, GoTo, Typed
<1> HIDE DEF rows
<1>6. /\ w \in Own /\ w.sale = writes[r].sale /\ w.stock = writes[r].stock
      /\ w.added = writes[r].added /\ w.removed = rows
  BY <1>2, <1>4, WritesRemoved
<1> HIDE DEF w
<1>7. RowsOf(r)' = RowsOf(r) /\ (SalesUntouched' <=> SalesUntouched)
  BY <1>2, <1>5 DEF RowsOf, SalesUntouched, Quiet
<1>8. Rest(r) = {} /\ Rest(r)' = {}
  BY <1>1, <1>5 DEF Rest
<1>9. Returned(r) => Returned(r)'
  BY <1>2, <1>5, <1>6, <1>7, <1>8 DEF Returned, Quiet
<1>10. ReverseSlot(r)'
  BY <1>2, <1>3, <1>4, <1>5, <1>6, <1>7, <1>9 DEF ReverseSlot, ReversalPath
<1> QED
  BY <1>1, <1>2, <1>5, <1>6, <1>10, CrossingStep, HeldApart DEF ReversalPath

-----------------------------------------------------------------------------
(* Materials and recipes.                                                  *)

LEMMA ReadMaterialSound ==
  ASSUME Inv, NEW r \in Requests, ReadMaterial(r)
  PROVE  Sound(r)
<1> DEFINE m == call[r].material
           q == stock[m]
           k == BalanceRead(seen[r], m, q)
<1>1. Typed /\ Slot(r) /\ pc[r] = "readMaterial" /\ Local(r)
  BY DEF Inv, ReadMaterial, Ready, Local
<1>2. CASE Abort(r)
  BY <1>2, AbortSound
<1>3. CASE /\ ~ (call[r].op = "recordLoss" /\ call[r].quantity > q)
           /\ Reads(r, k) /\ GoTo(r, "saveMaterial")
  <2>1. call[r] \in Calls /\ call[r].op \in MaterialOps /\ m \in Materials
    BY <1>1, Placed, CallFields DEF Slot
  <2>2. call[r].op = "recordLoss" => call[r].quantity \in Nat
    BY <2>1, QuantityIsNat DEF MaterialOps
  <2>4. seen[r] \in Seen /\ writes[r] \in Own /\ q \in Nat
    BY <1>1, <2>1 DEF Typed
  <2>5. Quiet(r)
    BY <1>1, LocalQuiet
  <2>6. /\ pc'[r] = "saveMaterial" /\ call'[r] = call[r] /\ seen'[r] = k /\ writes'[r] = writes[r]
        /\ stock' = stock /\ sale' = sale
    BY <1>1, <1>3 DEF Reads, GoTo, Typed, database
  <2>7. call[r].op = "recordLoss" => call[r].quantity <= q
    BY <1>3, <2>2, <2>4
  <2> HIDE DEF q
  <2>8. /\ k \in Seen /\ k.sale = seen[r].sale /\ k.late = seen[r].late
        /\ k.material = m /\ k.quantity = q
    BY <2>1, <2>4, LearnsBalance
  <2> HIDE DEF k
  <2>9. Position(r)' /\ SaleWrites(r)'
    BY <1>1, <2>1, <2>6 DEF Position, Places, Firsts, MaterialOps, SaleWrites, Slot
  <2>10. /\ ~ Debits(r)' /\ ~ Reverses(r)' /\ ~ Creates(r)' /\ ~ Changes(r)'
         /\ call[r].op \notin SaleOps
    BY <2>1, <2>6 DEF Debits, Reverses, Creates, Changes, MaterialOps, SaleOps
  <2>11. Knows(r)'
    BY <1>1, <2>6, <2>8, <2>10 DEF Slot, Knows, DebitPath, ReversalPath
  <2>12. Holding(r, m)'
    BY <2>6, <2>8 DEF Holding, q
  <2>13. MovesMaterial(r)' /\ MovesMaterial(r)
    BY <2>1, <2>6 DEF MovesMaterial
  <2>14. MaterialSlot(r)'
    BY <1>1, <2>6, <2>7, <2>8, <2>12, <2>13 DEF Slot, MaterialSlot
  <2> QED
    BY <1>1, <2>1, <2>4, <2>6, <2>8, <2>9, <2>10, <2>11, <2>13, <2>14, AsideSound
       DEF Bystander, DebitSlot, ReverseSlot
<1> QED
  BY <1>2, <1>3 DEF ReadMaterial, BalanceRead

LEMMA SaveMaterialSound ==
  ASSUME Inv, NEW r \in Requests, SaveMaterial(r)
  PROVE  Sound(r)
<1> DEFINE m == call[r].material
           left == StockSaved(call[r], seen[r].quantity)
           own == Put(writes[r].stock, m, left)
           w == [writes[r] EXCEPT !.stock = own]
<1>1. Typed /\ Slot(r) /\ pc[r] = "saveMaterial" /\ Local(r) /\ Ready(r, pc[r])
  BY DEF Inv, SaveMaterial, Ready, Local
<1>2. /\ call[r] \in Calls /\ call[r].op \in MaterialOps /\ m \in Materials
      /\ call[r].op \in MaterialOps \ {"editMaterial"} => call[r].quantity \in Nat
  <2>1. call[r] \in Calls /\ call[r].op \in MaterialOps
    BY <1>1, Placed DEF Slot
  <2> QED
    BY <2>1, CallFields, QuantityIsNat
<1>3. seen[r] \in Seen /\ writes[r] \in Own /\ seen[r].quantity \in Nat /\ stock[m] \in Nat
  BY <1>1, <1>2, SeenFields DEF Typed
<1>4. MovesMaterial(r) /\ MaterialSlot(r)
  BY <1>1, <1>2 DEF MovesMaterial, Slot
<1>5. /\ seen[r].material = m /\ Holding(r, m) /\ DOMAIN writes[r].stock = {}
      /\ writes[r].added = {} /\ writes[r].removed = {}
      /\ call[r].op = "recordLoss" => call[r].quantity <= seen[r].quantity
  BY <1>1, <1>4 DEF MaterialSlot
<1>6. left \in Nat /\ (m \in seen[r].late \/ left = StockSaved(call[r], stock[m]))
  <2>1. left \in Nat
    BY <1>2, <1>3, <1>5 DEF StockSaved, MaterialOps
  <2> QED
    BY <1>5, <2>1 DEF Holding
<1> HIDE DEF left
<1>7. /\ own \in Partial(Materials, Nat) /\ DOMAIN own = {m} /\ own[m] = left
  <2> DEFINE old == writes[r].stock
  <2>1. old \in Partial(Materials, Nat)
    BY <1>3, OwnFields
  <2>2. DOMAIN old = {}
    BY <1>5
  <2> HIDE DEF old, m
  <2>3. Put(old, m, left) \in Partial(Materials, Nat)
    BY <1>2, <1>6, <2>1, PutTyped
  <2>4. DOMAIN Put(old, m, left) = DOMAIN old \cup {m} /\ Put(old, m, left)[m] = left
    BY DEF Put
  <2> QED
    BY <2>2, <2>3, <2>4 DEF old
<1>8. /\ pc'[r] = "commit" /\ call'[r] = call[r] /\ seen'[r] = seen[r] /\ writes'[r] = w
      /\ stock' = stock /\ sale' = sale
  BY <1>1 DEF SaveMaterial, Writes, GoTo, Typed, database, left
<1> HIDE DEF own
<1>9. /\ w \in Own /\ w.sale = writes[r].sale /\ w.stock = own /\ w.added = writes[r].added
      /\ w.removed = writes[r].removed
  BY <1>3, <1>7, WritesStock
<1> HIDE DEF w
<1>10. Position(r)' /\ SaleWrites(r)'
  BY <1>1, <1>2, <1>8, <1>9
     DEF Position, Places, Firsts, MaterialOps, SaleWrites, SavesSale, Slot
<1>11. /\ ~ Debits(r)' /\ ~ Reverses(r)' /\ ~ Creates(r)' /\ ~ Changes(r)'
       /\ call[r].op \notin SaleOps /\ MovesMaterial(r)'
  BY <1>2, <1>8 DEF Debits, Reverses, Creates, Changes, MaterialOps, SaleOps, MovesMaterial
<1>12. Knows(r)'
  BY <1>1, <1>8, <1>11 DEF Slot, Knows, DebitPath, ReversalPath
<1>13. MaterialSlot(r)'
  BY <1>5, <1>6, <1>7, <1>8, <1>9 DEF MaterialSlot
<1>14. Slot(r)'
  BY <1>10, <1>11, <1>12, <1>13 DEF Slot, Bystander, DebitSlot, ReverseSlot
<1>15. \A o \in Requests \ {r} : DOMAIN own \cap DOMAIN writes[o].stock = {}
  BY <1>1, <1>5, <1>7, WriteApart
<1> QED
  BY <1>2, <1>3, <1>8, <1>9, <1>11, <1>14, <1>15 DEF Sound

LEMMA WritesBom ==
  ASSUME NEW w \in Own, NEW x \in Partial(Products, Recipes)
  PROVE  LET n == [w EXCEPT !.bom = x] IN
         /\ n \in Own /\ n.sale = w.sale /\ n.stock = w.stock
         /\ n.added = w.added /\ n.removed = w.removed
BY DEF Own

LEMMA SaveBomSound ==
  ASSUME Inv, NEW r \in Requests, SaveBom(r)
  PROVE  Sound(r)
<1> DEFINE own == Put(writes[r].bom, call[r].product, call[r].recipe)
           w == [writes[r] EXCEPT !.bom = own]
<1>1. Typed /\ Slot(r) /\ pc[r] = "saveBom" /\ Local(r)
  BY DEF Inv, SaveBom, Ready, Local
<1>2. /\ call[r] \in Calls /\ call[r].op = "replaceBillOfMaterials"
      /\ call[r].product \in Products /\ call[r].recipe \in Recipes
  BY <1>1, Placed, CallFields DEF Slot
<1>3. seen[r] \in Seen /\ writes[r] \in Own
  BY <1>1 DEF Typed
<1>4. own \in Partial(Products, Recipes)
  <2> DEFINE old == writes[r].bom
             p == call[r].product
             recipe == call[r].recipe
  <2>1. old \in Partial(Products, Recipes) /\ p \in Products /\ recipe \in Recipes
    BY <1>2, <1>3, OwnFields
  <2> HIDE DEF old, p, recipe
  <2>2. Put(old, p, recipe) \in Partial(Products, Recipes)
    BY <2>1, PutTyped
  <2> QED
    BY <2>2 DEF old, p, recipe
<1>5. /\ pc'[r] = "commit" /\ call'[r] = call[r] /\ seen'[r] = seen[r] /\ writes'[r] = w
      /\ sale' = sale
  BY <1>1 DEF SaveBom, Writes, GoTo, Typed, database
<1> HIDE DEF own
<1>6. /\ w \in Own /\ w.sale = writes[r].sale /\ w.stock = writes[r].stock
      /\ w.added = writes[r].added /\ w.removed = writes[r].removed
  BY <1>3, <1>4, WritesBom
<1> HIDE DEF w
<1>7. Position(r)' /\ SaleWrites(r)'
  BY <1>1, <1>2, <1>5, <1>6
     DEF Position, Places, Firsts, MaterialOps, SaleWrites, SavesSale, Slot
<1>8. /\ ~ Debits(r)' /\ ~ Reverses(r)' /\ ~ Creates(r)' /\ ~ Changes(r)' /\ ~ MovesMaterial(r)'
      /\ ~ Debits(r) /\ ~ Reverses(r) /\ ~ MovesMaterial(r) /\ call[r].op \notin SaleOps
  BY <1>2, <1>5 DEF Debits, Reverses, Creates, Changes, MaterialOps, SaleOps, MovesMaterial
<1>9. Knows(r)'
  BY <1>1, <1>5, <1>8 DEF Slot, Knows, DebitPath, ReversalPath
<1>10. Bystander(r)'
  BY <1>1, <1>5, <1>6, <1>8 DEF Slot, Bystander
<1> QED
  BY <1>1, <1>2, <1>3, <1>5, <1>6, <1>7, <1>8, <1>9, <1>10, AsideSound
     DEF MaterialSlot, DebitSlot, ReverseSlot

LEMMA LocalKeepsInv ==
  ASSUME Inv, NEW r \in Requests, Local(r)
  PROVE  Inv'
<1>1. Sound(r)
  BY StartSound, SaveNewSaleSound, ReadSaleSound, ReadItemSound, SaveItemSound, SaveSaleSound,
     CheckSnapshotsSound, ReadNeedSound, ReadStockSound, SaveDebitSound, ReadSnapshotsSound,
     ReadBackSound, SaveBackSound, FindSnapshotsSound, DeleteSnapshotsSound, ReadMaterialSound,
     SaveMaterialSound, SaveBomSound, AbortSound DEF Local
<1> QED
  BY <1>1, LocalStep

-----------------------------------------------------------------------------
(* The commit: the committed rows, and what the other slots know of them.  *)

LEMMA LearnsLate ==
  ASSUME NEW k \in Seen, NEW more \in SUBSET (Sales \cup Materials)
  PROVE  LET n == [k EXCEPT !.late = k.late \cup more] IN
         /\ n \in Seen /\ n.sale = k.sale /\ n.item = k.item /\ n.material = k.material
         /\ n.quantity = k.quantity /\ n.row = k.row /\ n.need = k.need /\ n.todo = k.todo
         /\ n.doomed = k.doomed /\ n.late = k.late \cup more
         /\ more = {} => n = k
BY DEF Seen

LEMMA OvertakesTyped ==
  ASSUME Typed, NEW r \in Requests, NEW o \in Requests
  PROVE  Overtakes(r, o) \in SUBSET (Sales \cup Materials)
<1>1. /\ writes[r].stock \in Partial(Materials, Nat) /\ writes[r].sale \in Partial(Sales, SaleRow)
  BY SlotFields, OwnFields
<1>2. DOMAIN writes[r].stock \subseteq Materials /\ DOMAIN writes[r].sale \subseteq Sales
  BY <1>1, PartialFacts
<1> QED
  BY <1>2 DEF Overtakes

LEMMA EnteredIsInt ==
  ASSUME Typed, NEW c \in Calls, NEW m \in Materials
  PROVE  Entered(c, m) \in Int
<1>1. stock[m] \in Nat
  BY DEF Typed
<1>2. CASE c \notin MaterialCalls \/ c.op = "editMaterial" \/ c.material # m
  BY <1>2 DEF Entered
<1>3. CASE c \in MaterialCalls /\ c.op # "editMaterial" /\ c.material = m
  <2>1. c.op \in {"receiveStock", "recordLoss", "countStock"}
    BY <1>3, CallFields DEF MaterialOps
  <2>2. c.quantity \in Nat
    BY <2>1, QuantityIsNat DEF MaterialOps
  <2> QED
    BY <1>1, <1>3, <2>1, <2>2 DEF Entered
<1> QED
  BY <1>2, <1>3

LEMMA Committed ==
  ASSUME Inv, NEW r \in Requests, Commit(r)
  PROVE  /\ Typed /\ Slot(r) /\ pc[r] = "commit"
         /\ call[r] \in Calls /\ seen[r] \in Seen /\ writes[r] \in Own
         /\ \A m \in Materials :
              stock'[m] = IF m \in DOMAIN writes[r].stock THEN writes[r].stock[m] ELSE stock[m]
         /\ \A s \in Sales :
              sale'[s] = IF s \in DOMAIN writes[r].sale THEN writes[r].sale[s] ELSE sale[s]
         /\ snapshots' = (snapshots \cup writes[r].added) \ writes[r].removed
         /\ \A m \in Materials : ledger'[m] = ledger[m] + Entered(call[r], m)
         /\ overtaken' = overtaken \cup seen[r].late
         /\ pc'[r] = "idle" /\ call'[r] = NoCall /\ seen'[r] = NothingSeen /\ writes'[r] = NoWrites
         /\ \A o \in Requests \ {r} :
              /\ pc'[o] = pc[o] /\ call'[o] = call[o] /\ writes'[o] = writes[o]
              /\ seen'[o] = [seen[o] EXCEPT !.late = seen[o].late \cup Overtakes(r, o)]
         /\ stock' \in [Materials -> Nat] /\ sale' \in [Sales -> SaleRow \cup {NoSale}]
         /\ bom' \in [Products -> Recipes] /\ lines' \in [Sales \X Lines -> SaleItem \cup {NoItem}]
<1>1. Typed /\ Slot(r) /\ pc[r] = "commit"
  BY DEF Inv, Commit
<1>2. call[r] \in Calls /\ seen[r] \in Seen /\ writes[r] \in Own
  BY <1>1, Placed, SlotFields DEF Slot
<1>3. /\ pc'[r] = "idle" /\ call'[r] = NoCall /\ writes'[r] = NoWrites
      /\ \A o \in Requests \ {r} : pc'[o] = pc[o] /\ call'[o] = call[o] /\ writes'[o] = writes[o]
  BY <1>1 DEF Commit, GoTo, Typed
<1>4. /\ seen'[r] = NothingSeen
      /\ \A o \in Requests \ {r} :
           seen'[o] = [seen[o] EXCEPT !.late = seen[o].late \cup Overtakes(r, o)]
  BY DEF Commit
<1>5. /\ snapshots' = (snapshots \cup writes[r].added) \ writes[r].removed
      /\ \A m \in Materials : ledger'[m] = ledger[m] + Entered(call[r], m)
      /\ overtaken' = overtaken \cup seen[r].late
  BY DEF Commit, SnapshotsSeen
<1>6. /\ writes[r].stock \in Partial(Materials, Nat) /\ writes[r].bom \in Partial(Products, Recipes)
      /\ writes[r].sale \in Partial(Sales, SaleRow)
      /\ writes[r].lines \in Partial(Sales \X Lines, SaleItem \cup {NoItem})
  BY <1>2, OwnFields
<1>7. /\ stock \in [Materials -> Nat] /\ bom \in [Products -> Recipes]
      /\ sale \in [Sales -> SaleRow \cup {NoSale}]
      /\ lines \in [Sales \X Lines -> SaleItem \cup {NoItem}]
  BY <1>1 DEF Typed
<1>8. /\ stock' = Over(writes[r].stock, stock) /\ bom' = Over(writes[r].bom, bom)
      /\ sale' = Over(writes[r].sale, sale) /\ lines' = Over(writes[r].lines, lines)
  BY DEF Commit
<1>9. /\ stock' \in [Materials -> Nat]
      /\ \A m \in Materials :
           stock'[m] = IF m \in DOMAIN writes[r].stock THEN writes[r].stock[m] ELSE stock[m]
  <2>1. \A m \in DOMAIN writes[r].stock : writes[r].stock[m] \in Nat
    BY <1>6, PartialFacts
  <2> QED
    BY <1>7, <1>8, <2>1 DEF Over
<1>10. /\ sale' \in [Sales -> SaleRow \cup {NoSale}]
       /\ \A s \in Sales :
            sale'[s] = IF s \in DOMAIN writes[r].sale THEN writes[r].sale[s] ELSE sale[s]
  <2>1. \A s \in DOMAIN writes[r].sale : writes[r].sale[s] \in SaleRow
    BY <1>6, PartialFacts
  <2> QED
    BY <1>7, <1>8, <2>1 DEF Over
<1>11. bom' \in [Products -> Recipes] /\ lines' \in [Sales \X Lines -> SaleItem \cup {NoItem}]
  <2>1. /\ \A p \in DOMAIN writes[r].bom : writes[r].bom[p] \in Recipes
        /\ \A sl \in DOMAIN writes[r].lines : writes[r].lines[sl] \in SaleItem \cup {NoItem}
    BY <1>6, PartialFacts
  <2>2. bom' \in [Products -> Recipes]
    BY <1>7, <1>8, <2>1 DEF Over
  <2>3. lines' \in [Sales \X Lines -> SaleItem \cup {NoItem}]
    BY <1>7, <1>8, <2>1 DEF Over
  <2> QED
    BY <2>2, <2>3
<1> QED
  BY <1>1, <1>2, <1>3, <1>4, <1>5, <1>9, <1>10, <1>11

\* Only a debit or a reversal touches snapshots, those of the sale it saves.
LEMMA CommittedRows ==
  ASSUME Inv, NEW r \in Requests, Commit(r)
  PROVE  /\ IsFiniteSet(writes[r].added)
         /\ DOMAIN writes[r].sale # {} =>
              SavesSale(r) /\ DOMAIN writes[r].sale = {call[r].sale} /\ call[r].sale \in Sales
         /\ SavesSale(r) =>
              /\ DOMAIN writes[r].sale = {call[r].sale} /\ call[r].sale \in Sales
              /\ writes[r].sale[call[r].sale]
                   = IF Creates(r) THEN NewSale ELSE SaleSaved(call[r], seen[r].sale)
         /\ Debits(r) \/ Reverses(r) => SavesSale(r) /\ ~ MovesMaterial(r)
         /\ ~ (Debits(r) /\ Reverses(r))
         /\ ~ Debits(r) /\ ~ Reverses(r) => writes[r].added = {} /\ writes[r].removed = {}
         /\ \A x \in writes[r].added \cup writes[r].removed : x.sale = call[r].sale
<1>1. Typed /\ Slot(r) /\ pc[r] = "commit" /\ call[r] \in Calls
  BY Committed
<1>2. SavesSale(r) => call[r].sale \in Sales
  BY <1>1, CallFields DEF SavesSale, SaleOps
<1>3. /\ Debits(r) \/ Reverses(r) => SavesSale(r) /\ ~ MovesMaterial(r)
      /\ ~ (Debits(r) /\ Reverses(r))
  BY DEF Debits, Reverses, SavesSale, MovesMaterial, MaterialOps
<1>4. CASE Debits(r)
  BY <1>1, <1>2, <1>3, <1>4 DEF Slot, DebitSlot, SaleWrites
<1>5. CASE Reverses(r)
  BY <1>1, <1>2, <1>3, <1>5, FS_EmptySet DEF Slot, ReverseSlot, SaleWrites
<1>6. CASE ~ Debits(r) /\ ~ Reverses(r)
  <2>1. writes[r].added = {} /\ writes[r].removed = {}
    BY <1>1, <1>6 DEF Slot, MaterialSlot, Bystander
  <2> QED
    BY <1>1, <1>2, <1>6, <2>1, FS_EmptySet DEF Slot, SaleWrites
<1> QED
  BY <1>4, <1>5, <1>6

LEMMA CommitTyped ==
  ASSUME Inv, NEW r \in Requests, Commit(r)
  PROVE  Typed'
<1>1. /\ Typed /\ call[r] \in Calls /\ seen[r] \in Seen /\ writes[r] \in Own
  BY Committed
<1>2. snapshots' \in SUBSET Snapshot /\ IsFiniteSet(snapshots')
  <2>1. writes[r].added \in SUBSET Snapshot /\ IsFiniteSet(writes[r].added)
    BY <1>1, OwnFields, CommittedRows
  <2>2. snapshots \in SUBSET Snapshot /\ IsFiniteSet(snapshots)
    BY <1>1 DEF Typed
  <2>3. IsFiniteSet(snapshots \cup writes[r].added)
    BY <2>1, <2>2, FS_Union
  <2>4. snapshots' \subseteq snapshots \cup writes[r].added
    BY Committed
  <2> QED
    BY <2>1, <2>2, <2>3, <2>4, FS_Subset
<1>3. ledger' \in [Materials -> Int]
  <2>1. \A m \in Materials : ledger[m] \in Int /\ Entered(call[r], m) \in Int
    BY <1>1, EnteredIsInt DEF Typed
  <2>2. ledger' = [m \in Materials |-> ledger[m] + Entered(call[r], m)]
    BY DEF Commit
  <2> QED
    BY <2>1, <2>2
<1>4. overtaken' \in SUBSET (Sales \cup Materials)
  BY <1>1, Committed, SeenFields DEF Typed
<1>5. /\ pc' \in [Requests -> Anywhere] /\ call' \in [Requests -> Calls \cup {NoCall}]
      /\ writes' \in [Requests -> Own]
  <2>1. "idle" \in Anywhere
    <3>1. "idle" \in Places(NoCall.op)
      BY NoCallFields DEF Places, MaterialOps
    <3> QED
      BY <3>1, SomewhereTyped
  <2> QED
    BY <1>1, <2>1, NothingTyped DEF Typed, Commit, GoTo
<1>6. seen' \in [Requests -> Seen]
  <2>1. \A o \in Requests : seen'[o] \in Seen
    <3> TAKE o \in Requests
    <3>1. CASE o = r
      BY <3>1, Committed, NothingTyped
    <3>2. CASE o # r
      <4>1. seen[o] \in Seen /\ Overtakes(r, o) \in SUBSET (Sales \cup Materials)
        BY <1>1, SlotFields, OvertakesTyped
      <4>2. seen'[o] = [seen[o] EXCEPT !.late = seen[o].late \cup Overtakes(r, o)]
        BY <3>2, Committed
      <4> QED
        BY <4>1, <4>2, LearnsLate
    <3> QED
      BY <3>1, <3>2
  <2>2. seen' = [o \in Requests |-> seen'[o]]
    BY DEF Commit
  <2> QED
    BY <2>1, <2>2
<1> QED
  BY <1>2, <1>3, <1>4, <1>5, <1>6, Committed DEF Typed

\* What a commit does to another slot: it may overtake what the slot read.
LEMMA CommitSeen ==
  ASSUME Inv, NEW r \in Requests, Commit(r), NEW o \in Requests, o # r
  PROVE  /\ pc'[o] = pc[o] /\ call'[o] = call[o] /\ writes'[o] = writes[o]
         /\ seen'[o].sale = seen[o].sale /\ seen'[o].item = seen[o].item
         /\ seen'[o].material = seen[o].material /\ seen'[o].quantity = seen[o].quantity
         /\ seen'[o].row = seen[o].row /\ seen'[o].need = seen[o].need
         /\ seen'[o].todo = seen[o].todo /\ seen'[o].doomed = seen[o].doomed
         /\ seen'[o].late = seen[o].late \cup Overtakes(r, o)
         /\ Overtakes(r, o) = {} => seen'[o] = seen[o]
         /\ \A m \in DOMAIN writes[o].stock : m \in Materials /\ stock'[m] = stock[m]
<1>1. Typed /\ pc'[o] = pc[o] /\ call'[o] = call[o] /\ writes'[o] = writes[o]
  BY Committed
<1>2. seen[o] \in Seen /\ Overtakes(r, o) \in SUBSET (Sales \cup Materials)
  BY <1>1, SlotFields, OvertakesTyped
<1>3. seen'[o] = [seen[o] EXCEPT !.late = seen[o].late \cup Overtakes(r, o)]
  BY Committed
<1>4. \A m \in DOMAIN writes[o].stock : m \in Materials /\ stock'[m] = stock[m]
  <2>1. writes[o].stock \in Partial(Materials, Nat)
    BY <1>1, SlotFields, OwnFields
  <2>2. DOMAIN writes[o].stock \subseteq Materials
    BY <2>1, PartialFacts
  <2>3. \A m \in DOMAIN writes[o].stock : m \notin DOMAIN writes[r].stock
    BY HeldApart
  <2> QED
    BY <2>2, <2>3, Committed
<1> DEFINE more == Overtakes(r, o)
<1> HIDE DEF more
<1>5. LET n == [seen[o] EXCEPT !.late = seen[o].late \cup more] IN
      /\ n \in Seen /\ n.sale = seen[o].sale /\ n.item = seen[o].item
      /\ n.material = seen[o].material /\ n.quantity = seen[o].quantity /\ n.row = seen[o].row
      /\ n.need = seen[o].need /\ n.todo = seen[o].todo /\ n.doomed = seen[o].doomed
      /\ n.late = seen[o].late \cup more /\ (more = {} => n = seen[o])
  BY <1>2, LearnsLate DEF more
<1> QED
  BY <1>1, <1>3, <1>4, <1>5 DEF more

\* A balance a slot is about to save: it is the committed one, or overtaken.
LEMMA StillHolding ==
  ASSUME Inv, NEW r \in Requests, Commit(r), NEW o \in Requests, o # r,
         pc[o] \in {"saveDebit", "saveBack", "saveMaterial"},
         seen[o].material \in Materials, Holding(o, seen[o].material)
  PROVE  \/ seen[o].material \in seen'[o].late
         \/ seen'[o].quantity = stock'[seen[o].material]
<1> DEFINE m == seen[o].material
<1>1. CASE m \in DOMAIN writes[r].stock
  <2>1. m \in Overtakes(r, o)
    BY <1>1 DEF Overtakes
  <2> QED
    BY <2>1, CommitSeen
<1>2. CASE m \notin DOMAIN writes[r].stock
  <2>1. stock'[m] = stock[m]
    BY <1>2, Committed
  <2>2. seen'[o].quantity = seen[o].quantity /\ seen[o].late \subseteq seen'[o].late
    BY CommitSeen
  <2> QED
    BY <2>1, <2>2 DEF Holding
<1> QED
  BY <1>1, <1>2

\* A commit that touches a sale's snapshots overtakes who has read the sale.
LEMMA RowsStay ==
  ASSUME Inv, NEW r \in Requests, Commit(r), NEW o \in Requests, o # r,
         seen[o].sale # NoSale, call[o].sale \notin seen'[o].late
  PROVE  RowsOf(o)' = RowsOf(o)
<1>1. call[o].sale \notin DOMAIN writes[r].sale
  BY CommitSeen DEF Overtakes
<1>2. \A x \in writes[r].added \cup writes[r].removed : x.sale # call[o].sale
  BY <1>1, CommittedRows
<1> QED
  BY <1>2, Committed, CommitSeen DEF RowsOf, SnapshotsOf

LEMMA CommitOthers ==
  ASSUME Inv, NEW r \in Requests, Commit(r), NEW o \in Requests, o # r
  PROVE  Slot(o)'
<1>1. Typed /\ Slot(o) /\ Typed' /\ Slot(r)
  BY CommitTyped DEF Inv
<1>2. /\ pc'[o] = pc[o] /\ call'[o] = call[o] /\ writes'[o] = writes[o]
      /\ seen'[o].sale = seen[o].sale /\ seen'[o].item = seen[o].item
      /\ seen'[o].material = seen[o].material /\ seen'[o].quantity = seen[o].quantity
      /\ seen'[o].row = seen[o].row /\ seen'[o].need = seen[o].need
      /\ seen'[o].todo = seen[o].todo /\ seen'[o].doomed = seen[o].doomed
      /\ seen[o].late \subseteq seen'[o].late
      /\ \A m \in DOMAIN writes[o].stock : m \in Materials /\ stock'[m] = stock[m]
  BY CommitSeen
<1>3. \/ pc[o] \in {"idle"} \cup Firsts
      \/ Creates(o)
      => seen'[o] = seen[o]
  <2> SUFFICES ASSUME pc[o] \in {"idle"} \cup Firsts \/ Creates(o)
               PROVE  seen'[o] = seen[o]
    OBVIOUS
  <2>1. seen[o].sale = NoSale
    BY <1>1, NothingTyped DEF Slot, Position, Knows
  <2>2. pc[o] \notin {"saveDebit", "saveBack", "saveMaterial"}
    BY <1>1, Placed DEF Slot, Firsts, Creates, DebitPath, ReversalPath, MaterialOps
  <2>3. Overtakes(r, o) = {}
    BY <2>1, <2>2 DEF Overtakes
  <2> QED
    BY <2>3, CommitSeen
<1>4. Position(o)'
  BY <1>1, <1>2, <1>3 DEF Slot, Position
<1>5. /\ Creates(o)' <=> Creates(o)
      /\ Changes(o)' <=> Changes(o)
      /\ Debits(o)' <=> Debits(o)
      /\ Reverses(o)' <=> Reverses(o)
      /\ MovesMaterial(o)' <=> MovesMaterial(o)
  BY <1>2 DEF Creates, Changes, Debits, Reverses, MovesMaterial
<1>6. call[o].op \in SaleOps => call[o].sale \in Sales
  <2>1. call[o] \in Calls \/ call[o] = NoCall
    BY <1>1 DEF Typed
  <2> QED
    BY <2>1, CallFields, NoCallFields DEF SaleOps
<1>7. Knows(o)'
  <2>1. ASSUME Creates(o)
        PROVE  sale'[call[o].sale] = NoSale /\ seen'[o] = NothingSeen
    <3> DEFINE s == call[o].sale
    <3>1. s \in Sales /\ sale[s] = NoSale /\ seen[o] = NothingSeen
      BY <1>1, <1>6, <2>1 DEF Slot, Knows, Creates, SaleOps
    <3>2. s \notin DOMAIN writes[r].sale
      <4> SUFFICES ASSUME s \in DOMAIN writes[r].sale
                   PROVE  FALSE
        OBVIOUS
      <4>1. SavesSale(r) /\ call[r].sale = s
        BY CommittedRows
      <4>2. ~ Creates(r)
        BY <2>1, <4>1 DEF Inv, Exclusive
      <4>3. Changes(r) /\ pc[r] # "readSale"
        BY <4>1, <4>2, Committed DEF SavesSale, Changes, Creates, SaleOps
      <4> QED
        BY <1>1, <3>1, <4>1, <4>3 DEF Slot, Knows
    <3> QED
      BY <1>3, <2>1, <3>1, <3>2, Committed
  <2>2. ASSUME Changes(o), pc[o] # "readSale"
        PROVE  /\ seen[o].sale # NoSale /\ sale'[call[o].sale] # NoSale
               /\ call[o].sale \in seen'[o].late \/ sale'[call[o].sale] = seen[o].sale
    <3> DEFINE s == call[o].sale
    <3>1. /\ s \in Sales /\ seen[o].sale # NoSale /\ sale[s] # NoSale
          /\ s \in seen[o].late \/ sale[s] = seen[o].sale
      BY <1>1, <1>6, <2>2 DEF Slot, Knows, Changes
    <3>2. CASE s \in DOMAIN writes[r].sale
      <4>1. s \in Overtakes(r, o)
        BY <3>1, <3>2 DEF Overtakes
      <4>2. writes[r].sale[s] \in SaleRow
        <5>1. writes[r].sale \in Partial(Sales, SaleRow)
          BY Committed, OwnFields
        <5> QED
          BY <3>2, <5>1, PartialFacts
      <4>3. sale'[s] # NoSale
        BY <3>1, <3>2, <4>2, Committed, SaleRowFields
      <4> QED
        BY <3>1, <4>1, <4>3, CommitSeen
    <3>3. CASE s \notin DOMAIN writes[r].sale
      BY <1>2, <3>1, <3>3, Committed
    <3> QED
      BY <3>2, <3>3
  <2> QED
    BY <1>1, <1>2, <1>5, <2>1, <2>2 DEF Slot, Knows
<1>8. SaleWrites(o)'
  BY <1>1, <1>2, <1>5 DEF Slot, SaleWrites, SavesSale
<1>9. MaterialSlot(o)'
  <2> SUFFICES ASSUME MovesMaterial(o)
               PROVE  MaterialSlot(o)'
    BY <1>5 DEF MaterialSlot
  <2>1. call[o] \in Calls /\ call[o].material \in Materials
    BY <1>1, CallFields, NoCallFields DEF Typed, MovesMaterial, MaterialOps
  <2>2. MaterialSlot(o)
    BY <1>1 DEF Slot
  <2>3. pc[o] = "saveMaterial" =>
          /\ seen[o].material = call[o].material
          /\ \/ call[o].material \in seen'[o].late
             \/ seen'[o].quantity = stock'[call[o].material]
          /\ call[o].op = "recordLoss" => call[o].quantity <= seen[o].quantity
    <3> SUFFICES ASSUME pc[o] = "saveMaterial"
                 PROVE  /\ seen[o].material = call[o].material
                        /\ \/ call[o].material \in seen'[o].late
                           \/ seen'[o].quantity = stock'[call[o].material]
                        /\ call[o].op = "recordLoss" => call[o].quantity <= seen[o].quantity
      OBVIOUS
    <3>1. /\ seen[o].material = call[o].material /\ Holding(o, seen[o].material)
          /\ call[o].op = "recordLoss" => call[o].quantity <= seen[o].quantity
      BY <2>2 DEF MaterialSlot
    <3>2. seen[o].material \in seen'[o].late \/ seen'[o].quantity = stock'[seen[o].material]
      BY <2>1, <3>1, StillHolding
    <3> QED
      BY <3>1, <3>2
  <2>4. pc[o] = "commit" =>
          /\ DOMAIN writes[o].stock = {call[o].material}
          /\ \/ call[o].material \in seen'[o].late
             \/ writes[o].stock[call[o].material] = StockSaved(call[o], stock'[call[o].material])
    BY <1>2, <2>2 DEF MaterialSlot
  <2> QED
    BY <1>2, <2>2, <2>3, <2>4 DEF MaterialSlot, Holding
<1>10. Bystander(o)'
  BY <1>1, <1>2, <1>5 DEF Slot, Bystander
<1>11. Debits(o) \/ Reverses(o) =>
         /\ call[o].sale \in Sales /\ seen[o].sale # NoSale
         /\ call[o].sale \notin seen'[o].late => RowsOf(o)' = RowsOf(o)
  <2> SUFFICES ASSUME Debits(o) \/ Reverses(o)
               PROVE  /\ call[o].sale \in Sales /\ seen[o].sale # NoSale
                      /\ call[o].sale \notin seen'[o].late => RowsOf(o)' = RowsOf(o)
    OBVIOUS
  <2>1. call[o].sale \in Sales
    BY <1>6 DEF Debits, Reverses, SaleOps
  <2>2. seen[o].sale # NoSale
    BY NothingTyped DEF Debits, Reverses
  <2> QED
    BY <2>1, <2>2, RowsStay
<1>12. DebitSlot(o)'
  <2> SUFFICES ASSUME Debits(o)
               PROVE  DebitSlot(o)'
    BY <1>5 DEF DebitSlot
  <2>1. DebitSlot(o)
    BY <1>1 DEF Slot
  <2>2. \A m \in DOMAIN writes[o].stock : \E row \in writes[o].added :
          row.material = m /\ (m \in seen'[o].late \/ writes[o].stock[m] = stock'[m] - row.quantity)
    BY <1>2, <2>1 DEF DebitSlot
  <2>3. pc[o] = "saveDebit" =>
          /\ seen[o].material \in seen[o].todo
          /\ \/ seen[o].material \in seen'[o].late
             \/ seen'[o].quantity = stock'[seen[o].material]
    <3> SUFFICES ASSUME pc[o] = "saveDebit"
                 PROVE  /\ seen[o].material \in seen[o].todo
                        /\ \/ seen[o].material \in seen'[o].late
                           \/ seen'[o].quantity = stock'[seen[o].material]
      OBVIOUS
    <3>1. /\ seen[o].material \in seen[o].todo /\ Holding(o, seen[o].material)
          /\ seen[o].todo \subseteq Materials
      BY <2>1 DEF DebitSlot
    <3> QED
      BY <3>1, StillHolding
  <2>4. pc[o] \in {"readNeed", "readStock", "saveDebit"} \/ writes[o].added # {} =>
          call[o].sale \in seen'[o].late \/ RowsOf(o)' = {}
    BY <1>2, <1>11, <2>1 DEF DebitSlot
  <2> QED
    BY <1>2, <2>1, <2>2, <2>3, <2>4 DEF DebitSlot, Holding
<1>13. ReverseSlot(o)'
  <2> SUFFICES ASSUME Reverses(o)
               PROVE  ReverseSlot(o)'
    BY <1>5 DEF ReverseSlot
  <2>1. ReverseSlot(o)
    BY <1>1 DEF Slot
  <2>2. SalesUntouched' => SalesUntouched
    BY Committed DEF SalesUntouched
  <2>3. ASSUME call[o].sale \notin seen'[o].late, Returned(o)
        PROVE  Returned(o)'
    <3>1. RowsOf(o)' = RowsOf(o)
      BY <1>11, <2>3
    <3>2. Rest(o)' = Rest(o)
      BY <1>2, <3>1 DEF Rest
    <3>3. \A row \in RowsOf(o) \ Rest(o) :
            row.material \in DOMAIN writes[o].stock
      BY <2>3 DEF Returned
    <3>4. \A row \in RowsOf(o) \ Rest(o) :
            \/ row.material \in seen'[o].late
            \/ writes[o].stock[row.material] = stock'[row.material] + row.quantity
      BY <1>2, <2>3, <3>3 DEF Returned
    <3>5. pc[o] = "saveBack" =>
            seen[o].material \in seen'[o].late \/ seen'[o].quantity = stock'[seen[o].material]
      <4> SUFFICES ASSUME pc[o] = "saveBack"
                   PROVE  \/ seen[o].material \in seen'[o].late
                          \/ seen'[o].quantity = stock'[seen[o].material]
        OBVIOUS
      <4>1. seen[o].material \in Materials
        <5>1. seen[o].row \in Snapshot /\ seen[o].material = seen[o].row.material
          BY <2>1 DEF ReverseSlot
        <5> QED
          BY <5>1, SnapshotFields
      <4>2. Holding(o, seen[o].material)
        BY <2>3 DEF Returned
      <4> QED
        BY <4>1, <4>2, StillHolding
    <3> QED
      BY <1>2, <2>3, <3>1, <3>2, <3>4, <3>5 DEF Returned, Holding
  <2>4. call[o].sale \notin seen'[o].late =>
          /\ pc[o] = "deleteSnapshots" => seen[o].doomed = RowsOf(o)'
          /\ pc[o] \in {"saveSale", "commit"} => writes[o].removed = RowsOf(o)'
          /\ SalesUntouched' => Returned(o)'
    BY <1>2, <1>11, <2>1, <2>2, <2>3 DEF ReverseSlot
  <2> QED
    BY <1>2, <2>1, <2>4 DEF ReverseSlot
<1> QED
  BY <1>4, <1>7, <1>8, <1>9, <1>10, <1>12, <1>13 DEF Slot

-----------------------------------------------------------------------------
(* The commit: shelf, snapshots and ledger.                                *)

Mine(rows, s, m) == {row \in rows : row.sale = s /\ row.material = m}
HeldIn(rows, s, m) == SumOver(Mine(rows, s, m), [row \in Mine(rows, s, m) |-> row.quantity])

LEMMA HeldIsSum ==
  ASSUME NEW s, NEW m
  PROVE  Held(s, m) = HeldIn(snapshots, s, m) /\ Held(s, m)' = HeldIn(snapshots', s, m)
BY DEF Held, HeldIn, Mine

LEMMA HeldIsNat ==
  ASSUME NEW rows \in SUBSET Snapshot, IsFiniteSet(rows), NEW s, NEW m
  PROVE  HeldIn(rows, s, m) \in Nat
<1> DEFINE mine == Mine(rows, s, m)
           w == [row \in mine |-> row.quantity]
<1>1. mine \subseteq rows /\ IsFiniteSet(mine)
  BY FS_Subset DEF Mine
<1>2. \A x \in mine : w[x] \in Nat
  BY <1>1, SnapshotFields
<1> HIDE DEF w, mine
<1>3. SumOver(mine, w) \in Nat
  BY <1>1, <1>2, SumIsNat
<1> QED
  BY <1>3 DEF HeldIn, mine, w

LEMMA HeldNone ==
  ASSUME NEW rows, NEW s, NEW m, Mine(rows, s, m) = {}
  PROVE  HeldIn(rows, s, m) = 0
<1> DEFINE w == [row \in Mine(rows, s, m) |-> row.quantity]
<1>1. \A x \in Mine(rows, s, m) : w[x] = 0
  OBVIOUS
<1>2. SumOver(Mine(rows, s, m), w) = 0
  BY <1>1, SumOfZeros
<1> QED
  BY <1>2 DEF HeldIn

LEMMA HeldOne ==
  ASSUME NEW rows, NEW s, NEW m, NEW x, Mine(rows, s, m) = {x}, x.quantity \in Nat
  PROVE  HeldIn(rows, s, m) = x.quantity
<1> DEFINE w == [row \in {x} |-> row.quantity]
<1>1. w[x] = x.quantity /\ \A y \in {x} : w[y] \in Nat
  OBVIOUS
<1>2. IsFiniteSet({x}) /\ {x} \ {x} = {}
  BY FS_Singleton
<1> HIDE DEF w
<1>3. SumOver({x}, w) = SumOver({x} \ {x}, w) + w[x]
  BY <1>1, <1>2, SumSplit
<1>4. SumOver({x} \ {x}, w) = 0
  BY <1>2, SumOfZeros
<1>5. SumOver({x}, w) = x.quantity
  BY <1>1, <1>3, <1>4
<1> QED
  BY <1>5 DEF HeldIn, w

\* What all sales hold of a material moves with what one of them holds.
Outstanding(rows, m) == SumOver(Sales, [s \in Sales |-> HeldIn(rows, s, m)])

LEMMA OutstandingSame ==
  ASSUME NEW a, NEW b, NEW m, \A s \in Sales : Mine(a, s, m) = Mine(b, s, m)
  PROVE  Outstanding(a, m) = Outstanding(b, m)
<1>1. \A s \in Sales : HeldIn(a, s, m) = HeldIn(b, s, m)
  BY DEF HeldIn
<1>2. [s \in Sales |-> HeldIn(a, s, m)] = [s \in Sales |-> HeldIn(b, s, m)]
  BY <1>1
<1> QED
  BY <1>2 DEF Outstanding

LEMMA OutstandingMoves ==
  ASSUME NEW a \in SUBSET Snapshot, IsFiniteSet(a), NEW b \in SUBSET Snapshot, IsFiniteSet(b),
         NEW m, NEW s \in Sales,
         \A t \in Sales \ {s} : Mine(a, t, m) = Mine(b, t, m)
  PROVE  Outstanding(b, m) = Outstanding(a, m) - HeldIn(a, s, m) + HeldIn(b, s, m)
<1> DEFINE v == [t \in Sales |-> HeldIn(a, t, m)]
           w == [t \in Sales |-> HeldIn(b, t, m)]
<1>1. \A t \in Sales : v[t] \in Nat
  BY HeldIsNat
<1>2. \A t \in Sales : w[t] \in Nat
  BY HeldIsNat
<1>3. \A t \in Sales \ {s} : v[t] = w[t]
  BY DEF HeldIn
<1>4. SumOver(Sales, w) = SumOver(Sales, v) - v[s] + w[s]
  <2> HIDE DEF v, w
  <2> QED
    BY <1>1, <1>2, <1>3, SumReplaceTerm, SetsAssumption
<1> QED
  BY <1>4 DEF Outstanding

LEMMA OutstandingIsNat ==
  ASSUME NEW a \in SUBSET Snapshot, IsFiniteSet(a), NEW m
  PROVE  Outstanding(a, m) \in Nat
<1> DEFINE v == [t \in Sales |-> HeldIn(a, t, m)]
<1>1. \A t \in Sales : v[t] \in Nat
  BY HeldIsNat
<1> HIDE DEF v
<1>2. SumOver(Sales, v) \in Nat
  BY <1>1, SumIsNat, SetsAssumption
<1> QED
  BY <1>2 DEF Outstanding, v

LEMMA LostIsOutstanding ==
  /\ StockLostOnlyToARace <=>
       (SalesUntouched => \A m \in Materials \ overtaken : stock[m] + Outstanding(snapshots, m) = ledger[m])
  /\ StockLostOnlyToARace' <=>
       (SalesUntouched' =>
          \A m \in Materials \ overtaken' : stock'[m] + Outstanding(snapshots', m) = ledger'[m])
<1>1. \A m : SumOver(Sales, [s \in Sales |-> Held(s, m)]) = Outstanding(snapshots, m)
  BY DEF Held, Outstanding, HeldIn, Mine
<1>2. \A m : SumOver(Sales, [s \in Sales |-> Held(s, m)])' = Outstanding(snapshots', m)
  BY DEF Held, Outstanding, HeldIn, Mine
<1> QED
  BY <1>1, <1>2 DEF StockLostOnlyToARace, SalesUntouched

\* A material is moved by as much as the ledger says.
LEMMA MaterialKeepsLedger ==
  ASSUME Inv, NEW r \in Requests, Commit(r), NEW m \in Materials, m \notin seen[r].late,
         MovesMaterial(r)
  PROVE  stock'[m] - stock[m] = ledger'[m] - ledger[m] /\ snapshots' = snapshots
<1>1. /\ Typed /\ Slot(r) /\ pc[r] = "commit" /\ call[r] \in Calls /\ call[r] \in MaterialCalls
      /\ call[r].op \in MaterialOps
  BY Committed, CallFields DEF MovesMaterial
<1>2. /\ writes[r].added = {} /\ writes[r].removed = {}
      /\ DOMAIN writes[r].stock = {call[r].material}
      /\ \/ call[r].material \in seen[r].late
         \/ writes[r].stock[call[r].material] = StockSaved(call[r], stock[call[r].material])
  BY <1>1 DEF Slot, MaterialSlot
<1>3. stock[m] \in Nat /\ ledger[m] \in Int
  BY <1>1 DEF Typed
<1>4. call[r].op \in MaterialOps \ {"editMaterial"} => call[r].quantity \in Nat
  BY <1>1, QuantityIsNat
<1>5. stock'[m] - stock[m] = Entered(call[r], m)
  <2>1. CASE call[r].material # m
    BY <1>1, <1>2, <1>3, <2>1, Committed DEF Entered
  <2>2. CASE call[r].material = m
    <3>1. stock'[m] = StockSaved(call[r], stock[m])
      BY <1>2, <2>2, Committed
    <3> QED
      BY <1>1, <1>3, <1>4, <2>2, <3>1 DEF Entered, StockSaved, MaterialOps
  <2> QED
    BY <2>1, <2>2
<1>6. ledger'[m] = ledger[m] + Entered(call[r], m) /\ Entered(call[r], m) \in Int
  BY <1>1, Committed, EnteredIsInt
<1>7. snapshots' = snapshots
  <2>1. snapshots' = (snapshots \cup writes[r].added) \ writes[r].removed
    BY Committed
  <2> QED
    BY <1>2, <2>1
<1> QED
  BY <1>3, <1>5, <1>6, <1>7

LEMMA OthersEnterNothing ==
  ASSUME Inv, NEW r \in Requests, Commit(r), ~ MovesMaterial(r), NEW m \in Materials
  PROVE  ledger'[m] = ledger[m]
<1>1. call[r] \notin MaterialCalls /\ ledger[m] \in Int
  BY Committed, CallFields DEF MovesMaterial, Typed
<1>2. Entered(call[r], m) = 0
  BY <1>1 DEF Entered
<1> QED
  BY <1>1, <1>2, Committed

\* A debit: the snapshots of its sale grow by what the shelf loses.
LEMMA DebitKeepsLedger ==
  ASSUME Inv, NEW r \in Requests, Commit(r), Debits(r), call[r].sale \notin seen[r].late,
         NEW m \in Materials, m \notin seen[r].late
  PROVE  stock'[m] + Outstanding(snapshots', m) = stock[m] + Outstanding(snapshots, m)
<1> DEFINE s == call[r].sale
<1>1. Typed /\ Typed' /\ Slot(r) /\ s \in Sales /\ stock[m] \in Nat /\ DebitSlot(r)
  <2>1. Typed /\ Typed' /\ Slot(r)
    BY Committed, CommitTyped
  <2>2. s \in Sales
    BY CommittedRows
  <2> QED
    BY <2>1, <2>2 DEF Typed, Slot
<1>2. snapshots' = snapshots \cup writes[r].added
  BY <1>1, Committed DEF DebitSlot
<1>3. \A x \in writes[r].added : x.sale = s
  BY <1>1 DEF DebitSlot
<1>4. CASE m \notin DOMAIN writes[r].stock
  <2>1. \A x \in writes[r].added : x.material # m
    BY <1>1, <1>4 DEF DebitSlot
  <2>2. \A t \in Sales : Mine(snapshots', t, m) = Mine(snapshots, t, m)
    BY <1>2, <2>1 DEF Mine
  <2>3. stock'[m] = stock[m]
    BY <1>4, Committed
  <2> QED
    BY <2>2, <2>3, OutstandingSame
<1>5. CASE m \in DOMAIN writes[r].stock
  <2>1. PICK x \in writes[r].added : x.material = m /\ writes[r].stock[m] = stock[m] - x.quantity
    BY <1>1, <1>5 DEF DebitSlot
  <2>2. RowsOf(r) = {}
    BY <1>1, <2>1 DEF DebitSlot
  <2>3. Mine(snapshots, s, m) = {}
    BY <2>2 DEF Mine, RowsOf, SnapshotsOf
  <2>4. Mine(snapshots', s, m) = {x}
    <3>1. \A y \in writes[r].added : y.material = m => y = x
      BY <1>1, <2>1 DEF DebitSlot
    <3> QED
      BY <1>2, <1>3, <2>1, <2>3, <3>1 DEF Mine
  <2>5. x.quantity \in Nat
    <3>1. writes[r].added \in SUBSET Snapshot
      BY Committed, OwnFields
    <3> QED
      BY <3>1, SnapshotFields
  <2>6. HeldIn(snapshots, s, m) = 0 /\ HeldIn(snapshots', s, m) = x.quantity
    BY <2>3, <2>4, <2>5, HeldNone, HeldOne
  <2>7. \A t \in Sales \ {s} : Mine(snapshots, t, m) = Mine(snapshots', t, m)
    BY <1>2, <1>3 DEF Mine
  <2>8. /\ snapshots \in SUBSET Snapshot /\ IsFiniteSet(snapshots)
        /\ snapshots' \in SUBSET Snapshot /\ IsFiniteSet(snapshots')
    BY <1>1 DEF Typed
  <2>9. Outstanding(snapshots', m) = Outstanding(snapshots, m) - 0 + x.quantity
    BY <1>1, <2>6, <2>7, <2>8, OutstandingMoves
  <2>10. stock'[m] = stock[m] - x.quantity
    BY <1>5, <2>1, Committed
  <2>11. Outstanding(snapshots, m) \in Nat
    BY <2>8, OutstandingIsNat
  <2> QED
    BY <1>1, <2>5, <2>9, <2>10, <2>11
<1> QED
  BY <1>4, <1>5

\* A reversal: the shelf gets back what the rows it deletes held.
LEMMA ReversalKeepsLedger ==
  ASSUME Inv, NEW r \in Requests, Commit(r), Reverses(r), call[r].sale \notin seen[r].late,
         SalesUntouched, NEW m \in Materials, m \notin seen[r].late
  PROVE  stock'[m] + Outstanding(snapshots', m) = stock[m] + Outstanding(snapshots, m)
<1> DEFINE s == call[r].sale
<1>1. Typed /\ Typed' /\ Slot(r) /\ s \in Sales /\ stock[m] \in Nat /\ ReverseSlot(r)
      /\ pc[r] = "commit"
  <2>1. Typed /\ Typed' /\ Slot(r) /\ pc[r] = "commit"
    BY Committed, CommitTyped
  <2>2. s \in Sales
    BY CommittedRows
  <2> QED
    BY <2>1, <2>2 DEF Typed, Slot
<1>2. writes[r].added = {} /\ writes[r].removed = RowsOf(r) /\ Returned(r)
  BY <1>1 DEF ReverseSlot
<1>3. snapshots' = snapshots \ RowsOf(r)
  BY <1>2, Committed
<1>4. /\ DOMAIN writes[r].stock = {x.material : x \in RowsOf(r)}
      /\ \A x \in RowsOf(r) :
           x.material \in seen[r].late \/ writes[r].stock[x.material] = stock[x.material] + x.quantity
  BY <1>1, <1>2 DEF Returned, Rest
<1>5. CASE m \notin DOMAIN writes[r].stock
  <2>1. \A x \in RowsOf(r) : x.material # m
    BY <1>4, <1>5
  <2>2. \A t \in Sales : Mine(snapshots', t, m) = Mine(snapshots, t, m)
    BY <1>3, <2>1 DEF Mine
  <2>3. stock'[m] = stock[m]
    BY <1>5, Committed
  <2> QED
    BY <2>2, <2>3, OutstandingSame
<1>6. CASE m \in DOMAIN writes[r].stock
  <2>1. PICK x \in RowsOf(r) : x.material = m
    BY <1>4, <1>6
  <2>2. x \in snapshots /\ x.sale = s /\ x.quantity \in Nat
    BY <1>1, <2>1, SnapshotFields DEF RowsOf, SnapshotsOf, Typed
  <2>3. Mine(snapshots, s, m) = {x}
    <3>1. \A y \in Mine(snapshots, s, m) : y = x
      BY <2>1, <2>2, OneRow DEF Mine
    <3> QED
      BY <2>1, <2>2, <3>1 DEF Mine
  <2>4. Mine(snapshots', s, m) = {}
    BY <1>3 DEF Mine, RowsOf, SnapshotsOf
  <2>5. HeldIn(snapshots, s, m) = x.quantity /\ HeldIn(snapshots', s, m) = 0
    BY <2>2, <2>3, <2>4, HeldNone, HeldOne
  <2>6. \A t \in Sales \ {s} : Mine(snapshots, t, m) = Mine(snapshots', t, m)
    BY <1>3 DEF Mine, RowsOf, SnapshotsOf
  <2>7. /\ snapshots \in SUBSET Snapshot /\ IsFiniteSet(snapshots)
        /\ snapshots' \in SUBSET Snapshot /\ IsFiniteSet(snapshots')
    BY <1>1 DEF Typed
  <2>8. Outstanding(snapshots', m) = Outstanding(snapshots, m) - x.quantity + 0
    BY <1>1, <2>5, <2>6, <2>7, OutstandingMoves
  <2>9. stock'[m] = stock[m] + x.quantity
    BY <1>4, <1>6, <2>1, Committed
  <2>10. Outstanding(snapshots, m) \in Nat
    BY <2>7, OutstandingIsNat
  <2> QED
    BY <1>1, <2>2, <2>8, <2>9, <2>10
<1> QED
  BY <1>5, <1>6

LEMMA CommitKeepsLedger ==
  ASSUME Inv, NEW r \in Requests, Commit(r)
  PROVE  StockLostOnlyToARace'
<1> SUFFICES ASSUME SalesUntouched', NEW m \in Materials \ overtaken'
             PROVE  stock'[m] + Outstanding(snapshots', m) = ledger'[m]
  BY LostIsOutstanding
<1>1. /\ Typed /\ Typed' /\ SalesUntouched /\ m \in Materials /\ m \notin overtaken
      /\ m \notin seen[r].late /\ \A s \in Sales : s \notin seen[r].late
  BY Committed, CommitTyped DEF SalesUntouched
<1>2. stock[m] + Outstanding(snapshots, m) = ledger[m]
  BY <1>1, LostIsOutstanding DEF Inv
<1>3. Outstanding(snapshots, m) \in Nat /\ stock[m] \in Nat /\ ledger[m] \in Int
      /\ stock'[m] \in Nat /\ ledger'[m] \in Int
  <2>1. /\ snapshots \in SUBSET Snapshot /\ IsFiniteSet(snapshots)
        /\ stock[m] \in Nat /\ ledger[m] \in Int /\ stock'[m] \in Nat /\ ledger'[m] \in Int
    BY <1>1 DEF Typed
  <2> QED
    BY <2>1, OutstandingIsNat
<1>4. CASE MovesMaterial(r)
  <2>1. stock'[m] - stock[m] = ledger'[m] - ledger[m] /\ snapshots' = snapshots
    BY <1>1, <1>4, MaterialKeepsLedger
  <2> QED
    BY <1>2, <1>3, <2>1
<1>5. CASE ~ MovesMaterial(r)
  <2>1. ledger'[m] = ledger[m]
    BY <1>1, <1>5, OthersEnterNothing
  <2>2. stock'[m] + Outstanding(snapshots', m) = stock[m] + Outstanding(snapshots, m)
    <3>1. CASE Debits(r)
      <4>1. call[r].sale \notin seen[r].late
        BY <1>1, <3>1, CommittedRows
      <4> QED
        BY <1>1, <3>1, <4>1, DebitKeepsLedger
    <3>2. CASE Reverses(r)
      <4>1. call[r].sale \notin seen[r].late
        BY <1>1, <3>2, CommittedRows
      <4> QED
        BY <1>1, <3>2, <4>1, ReversalKeepsLedger
    <3>3. CASE ~ Debits(r) /\ ~ Reverses(r)
      <4>1. DOMAIN writes[r].stock = {} /\ writes[r].added = {} /\ writes[r].removed = {}
        BY <1>5, <3>3, Committed DEF Slot, Bystander
      <4> QED
        BY <1>1, <4>1, Committed
    <3> QED
      BY <3>1, <3>2, <3>3
  <2> QED
    BY <1>2, <2>1, <2>2
<1> QED
  BY <1>4, <1>5

-----------------------------------------------------------------------------
(* The commit: the snapshots fit the sale.                                 *)

\* The production status a commit leaves a sale with rows in.
LEMMA CommittedStatus ==
  ASSUME Inv, NEW r \in Requests, Commit(r), SavesSale(r), ~ Debits(r), ~ Reverses(r),
         call[r].sale \notin seen[r].late,
         sale[call[r].sale].production \in {"ASSEMBLED", "DELIVERED"}
  PROVE  sale'[call[r].sale].production \in {"ASSEMBLED", "DELIVERED"}
<1> DEFINE s == call[r].sale
<1>1. Typed /\ Slot(r) /\ pc[r] = "commit" /\ call[r] \in Calls /\ s \in Sales
  BY Committed, CommittedRows
<1>2. ~ Creates(r)
  BY <1>1, NothingTyped DEF Slot, Knows
<1>3. Changes(r)
  BY <1>2 DEF Changes, SavesSale, Creates, SaleOps
<1>4. seen[r].sale = sale[s] /\ seen[r].sale # NoSale
  BY <1>1, <1>3 DEF Slot, Knows
<1>5. seen[r].sale \in SaleRow
  BY <1>1, <1>4 DEF Typed
<1>6. sale'[s] = SaleSaved(call[r], seen[r].sale)
  BY <1>1, <1>2, Committed, CommittedRows
<1>7. CASE call[r].op = "updateDetails"
  BY <1>4, <1>6, <1>7 DEF SaleSaved
<1>8. CASE call[r].op = "updatePaymentStatus"
  <2>1. call[r].status \in PaymentStatus
    BY <1>1, <1>8, CallFields
  <2>2. sale'[s] = [seen[r].sale EXCEPT !.payment = call[r].status]
    BY <1>6, <1>8 DEF SaleSaved
  <2> QED
    BY <1>4, <1>5, <2>1, <2>2, SaleRowFields
<1>9. CASE call[r].op = "updateProductionStatus"
  <2>1. call[r].status \in ProductionStatus
    BY <1>1, <1>9, CallFields, RequestsAssumption
  <2>2. sale'[s] = [seen[r].sale EXCEPT !.production = call[r].status]
    BY <1>6, <1>9 DEF SaleSaved
  <2>3. sale'[s].production = call[r].status
    BY <1>5, <2>1, <2>2, SaleRowFields
  <2>4. call[r].status # "PENDING"
    BY <1>4, <1>9 DEF Reverses
  <2> QED
    BY <2>1, <2>3, <2>4 DEF ProductionStatus
<1> QED
  BY <1>2, <1>7, <1>8, <1>9 DEF SavesSale, Creates

\* A debit leaves its sale assembled or delivered, with the rows it added or
\* those it found.
LEMMA DebitFits ==
  ASSUME Inv, NEW r \in Requests, Commit(r), Debits(r), call[r].sale \notin seen[r].late,
         call[r].sale \notin overtaken
  PROVE  /\ sale'[call[r].sale].production \in {"ASSEMBLED", "DELIVERED"}
         /\ \A a, b \in SnapshotsOf(snapshots', call[r].sale) : a.material = b.material => a = b
<1> DEFINE s == call[r].sale
<1>1. /\ Typed /\ Slot(r) /\ pc[r] = "commit" /\ call[r] \in Calls /\ s \in Sales /\ DebitSlot(r)
      /\ SavesSale(r)
  BY Committed, CommittedRows DEF Slot
<1>2. Changes(r) /\ ~ Creates(r) /\ call[r].op = "updateProductionStatus"
  BY DEF Debits, Changes, Creates, SaleOps
<1>3. seen[r].sale \in SaleRow
  <2>1. seen[r].sale # NoSale
    BY <1>1, <1>2 DEF Slot, Knows
  <2>2. seen[r].sale \in SaleRow \cup {NoSale}
    BY <1>1, SlotFields, SeenFields
  <2> QED
    BY <2>1, <2>2
<1>4. call[r].status \in ProductionStatus /\ call[r].status # "PENDING"
  BY <1>1, <1>2, CallFields, RequestsAssumption DEF Debits
<1>5. sale'[s] = [seen[r].sale EXCEPT !.production = call[r].status]
  <2>1. /\ writes[r].sale[s] = SaleSaved(call[r], seen[r].sale)
        /\ DOMAIN writes[r].sale = {s}
    BY <1>1, <1>2, CommittedRows
  <2>2. sale'[s] = SaleSaved(call[r], seen[r].sale)
    BY <1>1, <2>1, Committed
  <2> QED
    BY <1>2, <2>2 DEF SaleSaved
<1>6. sale'[s].production = call[r].status
  BY <1>3, <1>4, <1>5, SaleRowFields
<1>7. snapshots' = snapshots \cup writes[r].added
  BY <1>1, Committed DEF DebitSlot
<1>8. \A a, b \in SnapshotsOf(snapshots', s) : a.material = b.material => a = b
  <2>1. CASE writes[r].added = {}
    BY <1>7, <2>1 DEF Inv, SnapshotsFitTheSaleUnlessRaced, SnapshotsOf
  <2>2. CASE writes[r].added # {}
    <3>1. RowsOf(r) = {}
      BY <1>1, <2>2 DEF DebitSlot
    <3>2. SnapshotsOf(snapshots', s) \subseteq writes[r].added
      BY <1>7, <3>1 DEF SnapshotsOf, RowsOf
    <3> QED
      BY <1>1, <3>2 DEF DebitSlot
  <2> QED
    BY <2>1, <2>2
<1> QED
  BY <1>4, <1>6, <1>8 DEF ProductionStatus

LEMMA CommitFits ==
  ASSUME Inv, NEW r \in Requests, Commit(r)
  PROVE  SnapshotsFitTheSaleUnlessRaced'
<1> SUFFICES ASSUME NEW row \in snapshots', row.sale \notin overtaken'
             PROVE  /\ sale'[row.sale].production \in {"ASSEMBLED", "DELIVERED"}
                    /\ \A other \in SnapshotsOf(snapshots', row.sale) :
                         other.material = row.material => other = row
  BY DEF SnapshotsFitTheSaleUnlessRaced, SnapshotsOf
<1> DEFINE s == row.sale
<1>1. /\ Typed /\ Typed' /\ Slot(r) /\ s \in Sales /\ s \notin overtaken /\ s \notin seen[r].late
  BY Committed, CommitTyped, SnapshotFields DEF Typed
<1>2. CASE Debits(r) /\ call[r].sale = s
  <2>1. row \in SnapshotsOf(snapshots', s)
    BY DEF SnapshotsOf
  <2> QED
    BY <1>1, <1>2, <2>1, DebitFits
<1>3. CASE Reverses(r) /\ call[r].sale = s
  <2>1. writes[r].added = {} /\ writes[r].removed = RowsOf(r)
    BY <1>1, <1>3, Committed DEF Slot, ReverseSlot
  <2> QED
    BY <1>3, <2>1, Committed DEF RowsOf, SnapshotsOf
<1>4. CASE call[r].sale = s => ~ Debits(r) /\ ~ Reverses(r)
  <2>1. SnapshotsOf(snapshots', s) = SnapshotsOf(snapshots, s)
    <3>1. \A x \in writes[r].added \cup writes[r].removed : x.sale # s
      BY <1>4, CommittedRows
    <3> QED
      BY <3>1, Committed DEF SnapshotsOf
  <2>2. row \in snapshots /\ sale[s].production \in {"ASSEMBLED", "DELIVERED"}
    BY <1>1, <2>1 DEF Inv, SnapshotsFitTheSaleUnlessRaced, SnapshotsOf
  <2>3. \A other \in SnapshotsOf(snapshots', s) : other.material = row.material => other = row
    BY <1>1, <2>1, <2>2 DEF Inv, SnapshotsFitTheSaleUnlessRaced
  <2>4. sale'[s].production \in {"ASSEMBLED", "DELIVERED"}
    <3>1. CASE s \notin DOMAIN writes[r].sale
      BY <1>1, <2>2, <3>1, Committed
    <3>2. CASE s \in DOMAIN writes[r].sale
      <4>1. SavesSale(r) /\ call[r].sale = s
        BY <3>2, CommittedRows
      <4> QED
        BY <1>1, <1>4, <2>2, <4>1, CommittedStatus
    <3> QED
      BY <3>1, <3>2
  <2> QED
    BY <2>3, <2>4
<1> QED
  BY <1>2, <1>3, <1>4

LEMMA CommitKeepsInv ==
  ASSUME Inv, NEW r \in Requests, Commit(r)
  PROVE  Inv'
<1>1. Slot(r)' /\ ~ Creates(r)'
  BY Committed, IdleSlot
<1>2. \A o \in Requests : Slot(o)'
  BY <1>1, CommitOthers
<1>3. Exclusive'
  <2>1. \A o \in Requests \ {r} : writes'[o] = writes[o] /\ call'[o] = call[o]
    BY CommitSeen
  <2>2. \A o \in Requests \ {r} : Creates(o)' <=> Creates(o)
    BY <2>1 DEF Creates
  <2>3. DOMAIN writes'[r].stock = {}
    BY Committed, NothingTyped
  <2> QED
    BY <1>1, <2>1, <2>2, <2>3 DEF Inv, Exclusive
<1> QED
  BY <1>2, <1>3, CommitTyped, CommitKeepsLedger, CommitFits DEF Inv

-----------------------------------------------------------------------------
(* Theorems.                                                               *)

LEMMA InitInv == Init => Inv
<1> SUFFICES ASSUME Init PROVE Inv
  OBVIOUS
<1>1. Typed
  <2>1. "idle" \in Anywhere
    <3>1. "idle" \in Places(NoCall.op)
      BY NoCallFields DEF Places, MaterialOps
    <3> QED
      BY <3>1, SomewhereTyped
  <2> QED
    BY <2>1, NothingTyped, FS_EmptySet, QuantitiesAssumption DEF Init, Typed
<1>2. ASSUME NEW r \in Requests
      PROVE  Slot(r) /\ ~ Creates(r)
  <2>1. /\ pc[r] = "idle" /\ call[r] = NoCall /\ seen[r] = NothingSeen /\ writes[r] = NoWrites
        /\ call[r].op = "none"
    BY NoCallFields DEF Init
  <2>2. Position(r)
    BY <2>1 DEF Position, Places, MaterialOps
  <2>3. Knows(r)
    BY <2>1, NothingTyped DEF Knows, Creates, Changes, SaleOps, DebitPath, ReversalPath
  <2>4. SaleWrites(r) /\ Bystander(r)
    BY <2>1, NothingTyped DEF SaleWrites, Bystander
  <2>5. ~ MovesMaterial(r) /\ ~ Debits(r) /\ ~ Reverses(r)
    BY <2>1 DEF MovesMaterial, MaterialOps, Debits, Reverses
  <2> QED
    BY <2>1, <2>2, <2>3, <2>4, <2>5 DEF Slot, MaterialSlot, DebitSlot, ReverseSlot, Creates
<1>3. Exclusive
  BY <1>2, NothingTyped DEF Exclusive, Init
<1>4. StockLostOnlyToARace
  <2> SUFFICES ASSUME NEW m \in Materials
               PROVE  stock[m] + Outstanding(snapshots, m) = ledger[m]
    BY LostIsOutstanding
  <2>1. \A s \in Sales : Mine(snapshots, s, m) = {}
    BY DEF Init, Mine
  <2> DEFINE w == [s \in Sales |-> HeldIn(snapshots, s, m)]
  <2>2. \A s \in Sales : w[s] = 0
    BY <2>1, HeldNone
  <2> HIDE DEF w
  <2>3. SumOver(Sales, w) = 0
    BY <2>2, SumOfZeros
  <2>4. Outstanding(snapshots, m) = 0
    BY <2>3 DEF Outstanding, w
  <2> QED
    BY <1>1, <2>4 DEF Init, Typed
<1>5. SnapshotsFitTheSaleUnlessRaced
  BY DEF Init, SnapshotsFitTheSaleUnlessRaced
<1> QED
  BY <1>1, <1>2, <1>3, <1>4, <1>5 DEF Inv

LEMMA StepInv ==
  ASSUME Inv, [Next]_vars
  PROVE  Inv'
<1>1. CASE UNCHANGED vars
  <2>1. \A r \in Requests : Slot(r)'
    BY <1>1, SlotStays DEF Inv, vars, database
  <2> QED
    BY <1>1, <2>1 DEF Inv, vars, database, Typed, Exclusive, Creates, StockLostOnlyToARace, Held,
           SnapshotsFitTheSaleUnlessRaced, SnapshotsOf
<1> QED
  BY <1>1, StepsOfSlots, LocalKeepsInv, CommitKeepsInv

LEMMA InvHolds == Spec => []Inv
<1> QED
  BY InitInv, StepInv, PTL DEF Spec

\* What left the shelf is what the snapshots hold, however debits, reversals,
\* entries, counts, losses and edits meet, for every material that no
\* transaction saved over a balance changed since it was read.
THEOREM NothingLostWithoutARace == Spec => []StockLostOnlyToARace
<1>1. Inv => StockLostOnlyToARace
  BY DEF Inv
<1> QED
  BY <1>1, InvHolds, PTL

\* A sale with a debit is assembled or delivered, and is debited once of each
\* material, unless some transaction saved it over a change it had not read.
THEOREM SnapshotsFit == Spec => []SnapshotsFitTheSaleUnlessRaced
<1>1. Inv => SnapshotsFitTheSaleUnlessRaced
  BY DEF Inv
<1> QED
  BY <1>1, InvHolds, PTL

\* Balances stay natural numbers and every row keeps a legal shape; a slot
\* with no call has read nothing and holds no uncommitted write.
THEOREM RequestsTyped == Spec => []TypeOK
<1>1. Inv => TypeOK
  <2> SUFFICES ASSUME Inv PROVE TypeOK
    OBVIOUS
  <2>1. ASSUME NEW r \in Requests
        PROVE  /\ pc[r] = "idle" <=> call[r] = NoCall
               /\ pc[r] = "idle" => seen[r] = NothingSeen /\ writes[r] = NoWrites
               /\ \A m \in DOMAIN writes[r].stock : writes[r].stock[m] \in Nat
               /\ writes[r].added \subseteq Snapshot
    <3>1. Typed /\ Position(r)
      BY DEF Inv, Slot
    <3>2. writes[r].stock \in Partial(Materials, Nat) /\ writes[r].added \in SUBSET Snapshot
      BY <3>1, SlotFields, OwnFields
    <3>3. \A m \in DOMAIN writes[r].stock : writes[r].stock[m] \in Nat
      BY <3>2, PartialFacts
    <3> QED
      BY <3>1, <3>2, <3>3, Placed DEF Position
  <2> QED
    BY <2>1 DEF Inv, Typed, TypeOK
<1> QED
  BY <1>1, InvHolds, PTL

-----------------------------------------------------------------------------
(* Calls that touch no common row: what a call in flight knows and holds   *)
(* is then what the tables have, and stays so until its commit.            *)

EditsLine(r) == call[r].op \in {"addItem", "removeItem", "updateItemQuantity"}
LineOf(r) == <<call[r].sale, call[r].line>>
ItemSaved(c, item) ==
  CASE c.op = "addItem" -> c.item
    [] c.op = "removeItem" -> NoItem
    [] c.op = "updateItemQuantity" -> [item EXCEPT !.quantity = c.quantity]

\* The lines of a sale: those of a new one, or the one a call edits.
LinesSlot(r) ==
  /\ EditsLine(r) /\ pc[r] # "readSale" => Editable(seen[r].sale)
  /\ call[r].op = "addItem" => lines[LineOf(r)] = NoItem
  /\ pc[r] = "saveItem" /\ call[r].op = "updateItemQuantity" => seen[r].item = lines[LineOf(r)]
  /\ EditsLine(r) /\ pc[r] = "commit" =>
       /\ DOMAIN writes[r].lines = {LineOf(r)}
       /\ writes[r].lines[LineOf(r)] = ItemSaved(call[r], lines[LineOf(r)])
       /\ call[r].op # "addItem" => lines[LineOf(r)] # NoItem
  /\ Creates(r) /\ pc[r] = "commit" =>
       writes[r].lines = [sl \in {call[r].sale} \X Lines |-> call[r].items[sl[2]]]
  /\ pc[r] # "commit" \/ ~ (EditsLine(r) \/ Creates(r)) => DOMAIN writes[r].lines = {}

\* The recipe a call replaces.
BomSlot(r) ==
  /\ pc[r] = "commit" /\ call[r].op = "replaceBillOfMaterials" =>
       /\ DOMAIN writes[r].bom = {call[r].product}
       /\ writes[r].bom[call[r].product] = call[r].recipe
  /\ pc[r] # "commit" \/ call[r].op # "replaceBillOfMaterials" => DOMAIN writes[r].bom = {}

\* The bounds an entry was given.
BoundSlot(r) ==
  LET c == call[r] IN
  /\ c.op = "receiveStock" => ledger[c.material] + c.quantity <= MaxHeld
  /\ c.op = "countStock" => ledger[c.material] + c.quantity - stock[c.material] <= MaxHeld

\* A debit takes what is due of each material it has come to.
NeedOf(r, m) == MaterialNeed(bom, lines, call[r].sale, m)
Due(r, m) == StockDebit(NeedOf(r, m), stock[m])
ToDebit(r) == IF pc[r] \in {"readStock", "saveDebit"} THEN seen[r].todo ELSE {}
DueSlot(r) ==
  Debits(r) =>
    /\ pc[r] \in {"readStock", "saveDebit"} => seen[r].need = [m \in Materials |-> NeedOf(r, m)]
    /\ \A m \in DOMAIN writes[r].stock \cup ToDebit(r) : NeedOf(r, m) > 0
    /\ \A row \in writes[r].added : row.quantity = Due(r, row.material)
    /\ pc[r] \in {"readStock", "saveDebit", "saveSale", "commit"} =>
         \A m \in Materials \ (DOMAIN writes[r].stock \cup ToDebit(r)) : Due(r, m) = 0

\* Calls in flight touch no common row.
Apart ==
  \A r, o \in Requests, c, d \in Calls :
    r # o /\ call[r] = c /\ call[o] = d => Touches(c) \cap Touches(d) = {}

Lone(r) == seen[r].late = {} /\ LinesSlot(r) /\ BomSlot(r) /\ BoundSlot(r) /\ DueSlot(r)
Alone == overtaken = {} /\ Apart /\ \A r \in Requests : Lone(r)

\* What the instance of StockControl defines of its own is what is defined here.
LEMMA SameAsSerial ==
  /\ \A a, b : Serial!StockDebit(a, b) = StockDebit(a, b)
  /\ \A a, b, s, m : Serial!MaterialNeed(a, b, s, m) = MaterialNeed(a, b, s, m)
  /\ Serial!NoSale = NoSale /\ Serial!NewSale = NewSale /\ Serial!NoItem = NoItem
  /\ Serial!SaleItem = SaleItem /\ Serial!Baskets = Baskets
  /\ Serial!ProductionStatus = ProductionStatus /\ Serial!PaymentStatus = PaymentStatus
  /\ \A row : Serial!Editable(row) <=> Editable(row)
<1>1. \A S, w : Serial!SumOver(S, w) = SumOver(S, w)
  BY DEF Serial!SumOver, SumOver, Serial!Units, Units, Serial!Cardinality, Cardinality
<1>2. \A a, b, s, m : Serial!MaterialNeed(a, b, s, m) = MaterialNeed(a, b, s, m)
  BY <1>1 DEF Serial!MaterialNeed, MaterialNeed, Serial!Consumption, Consumption
<1>3. \A a, b : Serial!StockDebit(a, b) = StockDebit(a, b)
  BY DEF Serial!StockDebit, StockDebit, Serial!Smaller, Smaller
<1>4. /\ Serial!NoSale = NoSale /\ Serial!NewSale = NewSale /\ Serial!NoItem = NoItem
      /\ Serial!SaleItem = SaleItem /\ Serial!Baskets = Baskets
      /\ Serial!ProductionStatus = ProductionStatus /\ Serial!PaymentStatus = PaymentStatus
      /\ \A row : Serial!Editable(row) <=> Editable(row)
  BY DEF Serial!NoSale, NoSale, Serial!NewSale, NewSale, Serial!NoItem, NoItem,
         Serial!SaleItem, SaleItem, Serial!Baskets, Baskets, Serial!Editable, Editable,
         Serial!ProductionStatus, ProductionStatus, Serial!PaymentStatus, PaymentStatus
<1> QED
  BY <1>2, <1>3, <1>4

\* What a call touches, by its operation.
TouchesStatus(c) ==
  {<<"sale", c.sale>>} \cup ({"product"} \X Products)
    \cup {<<"material", m>> : m \in {n \in Materials :
           \/ MaterialNeed(bom, lines, c.sale, n) > 0
           \/ \E row \in snapshots : row.sale = c.sale /\ row.material = n}}
TouchesOf(c) ==
  IF c.op = "updateProductionStatus" THEN TouchesStatus(c)
  ELSE IF c.op \in SaleOps THEN {<<"sale", c.sale>>}
  ELSE IF c.op \in MaterialOps THEN {<<"material", c.material>>}
  ELSE {<<"product", c.product>>}

LEMMA TouchesNow ==
  ASSUME NEW c \in Calls
  PROVE  Touches(c) = TouchesOf(c)
<1>1. /\ c \in SaleCalls <=> c.op \in SaleOps
      /\ c \in MaterialCalls <=> c.op \in MaterialOps
      /\ c \in ProductCalls <=> c.op = "replaceBillOfMaterials"
      /\ c.op \in AllOps
  BY CallFields
<1> QED
  BY <1>1 DEF Touches, TouchesOf, TouchesStatus, AllOps, SaleOps, MaterialOps

LEMMA TouchesNext ==
  ASSUME NEW c \in Calls
  PROVE  Touches(c)' = TouchesOf(c)'
<1>1. (Touches(c) = TouchesOf(c))'
  BY TouchesNow, PTL
<1> QED
  BY <1>1

LEMMA TouchesAtLeast ==
  ASSUME NEW c \in Calls
  PROVE  /\ c.op \in SaleOps => <<"sale", c.sale>> \in Touches(c)
         /\ c.op \in MaterialOps => <<"material", c.material>> \in Touches(c)
         /\ c.op = "replaceBillOfMaterials" => <<"product", c.product>> \in Touches(c)
         /\ c.op = "updateProductionStatus" =>
              /\ \A p \in Products : <<"product", p>> \in Touches(c)
              /\ \A m \in Materials :
                   (\/ MaterialNeed(bom, lines, c.sale, m) > 0
                    \/ \E row \in snapshots : row.sale = c.sale /\ row.material = m)
                   => <<"material", m>> \in Touches(c)
<1>1. Touches(c) = TouchesOf(c)
  BY TouchesNow
<1> QED
  BY <1>1 DEF TouchesOf, TouchesStatus, SaleOps, MaterialOps

\* Only the lines of its sale, the recipes and its snapshots change that.
LEMMA TouchesStay ==
  ASSUME NEW c \in Calls,
         c.op = "updateProductionStatus" =>
           /\ bom' = bom /\ SnapshotsOf(snapshots', c.sale) = SnapshotsOf(snapshots, c.sale)
           /\ \A l \in Lines : lines'[<<c.sale, l>>] = lines[<<c.sale, l>>]
  PROVE  /\ Touches(c)' = Touches(c)
         /\ c.op = "updateProductionStatus" =>
              \A m : MaterialNeed(bom', lines', c.sale, m) = MaterialNeed(bom, lines, c.sale, m)
<1>1. CASE c.op = "updateProductionStatus"
  <2>1. ASSUME NEW m
        PROVE  MaterialNeed(bom', lines', c.sale, m) = MaterialNeed(bom, lines, c.sale, m)
    BY <1>1 DEF MaterialNeed
  <2>2. \A m : (\E row \in snapshots' : row.sale = c.sale /\ row.material = m)
                 <=> (\E row \in snapshots : row.sale = c.sale /\ row.material = m)
    BY <1>1 DEF SnapshotsOf
  <2>3. {n \in Materials :
           \/ MaterialNeed(bom', lines', c.sale, n) > 0
           \/ \E row \in snapshots' : row.sale = c.sale /\ row.material = n}
        = {n \in Materials :
             \/ MaterialNeed(bom, lines, c.sale, n) > 0
             \/ \E row \in snapshots : row.sale = c.sale /\ row.material = n}
    BY <2>1, <2>2
  <2>4. TouchesOf(c)' = TouchesOf(c)
    BY <1>1, <2>3 DEF TouchesOf, TouchesStatus
  <2> QED
    BY <1>1, <2>1, <2>4, TouchesNow, TouchesNext
<1>2. CASE c.op # "updateProductionStatus"
  <2>1. TouchesOf(c)' = TouchesOf(c)
    BY <1>2 DEF TouchesOf
  <2> QED
    BY <1>2, <2>1, TouchesNow, TouchesNext
<1> QED
  BY <1>1, <1>2

\* A statement leaves the fields it does not write, and what is late, alone.
LEMMA WritesOne ==
  ASSUME NEW w \in Own, NEW x, NEW y
  PROVE  /\ [w EXCEPT !.stock = x].lines = w.lines /\ [w EXCEPT !.stock = x].bom = w.bom
         /\ [w EXCEPT !.sale = x].lines = w.lines /\ [w EXCEPT !.sale = x].bom = w.bom
         /\ [w EXCEPT !.removed = x].lines = w.lines /\ [w EXCEPT !.removed = x].bom = w.bom
         /\ DebitWritten(w, x, y).lines = w.lines /\ DebitWritten(w, x, y).bom = w.bom
         /\ [w EXCEPT !.lines = x].lines = x /\ [w EXCEPT !.lines = x].bom = w.bom
         /\ [w EXCEPT !.bom = x].lines = w.lines /\ [w EXCEPT !.bom = x].bom = x
         /\ [w EXCEPT !.sale = x, !.lines = y].lines = y
         /\ [w EXCEPT !.sale = x, !.lines = y].bom = w.bom
BY DEF Own, DebitWritten

LEMMA LearnsOne ==
  ASSUME NEW k \in Seen, NEW x, NEW y
  PROVE  /\ [k EXCEPT !.sale = x].late = k.late /\ [k EXCEPT !.item = x].late = k.late
         /\ [k EXCEPT !.todo = x].late = k.late /\ [k EXCEPT !.doomed = x].late = k.late
         /\ NeedRead(k, x, y).late = k.late /\ BalanceRead(k, x, y).late = k.late
         /\ RowRead(k, x, y).late = k.late
BY DEF Seen, NeedRead, BalanceRead, RowRead

LEMMA ReadsKept ==
  ASSUME Typed, NEW r \in Requests, NEW what, Reads(r, what), what.late = seen[r].late
  PROVE  /\ call'[r] = call[r] /\ seen'[r].late = seen[r].late
         /\ writes'[r].lines = writes[r].lines /\ writes'[r].bom = writes[r].bom
BY DEF Reads, Typed

\* A step within a call: reads and writes of a status change or of a material.
LEMMA CrossingKept ==
  ASSUME Typed, NEW r \in Requests,
         \/ SaveSale(r)
         \/ CheckSnapshots(r) \/ ReadNeed(r) \/ ReadStock(r) \/ SaveDebit(r)
         \/ ReadSnapshots(r) \/ ReadBack(r) \/ SaveBack(r)
         \/ FindSnapshots(r) \/ DeleteSnapshots(r)
  PROVE  /\ call'[r] = call[r] /\ seen'[r].late = seen[r].late
         /\ writes'[r].lines = writes[r].lines /\ writes'[r].bom = writes[r].bom
<1>1. seen[r] \in Seen /\ writes[r] \in Own
  BY SlotFields
<1>2. CASE SaveSale(r)
  BY <1>1, <1>2, WritesOne DEF SaveSale, Writes, Typed
<1>3. CASE CheckSnapshots(r)
  BY <1>3 DEF CheckSnapshots
<1>10. CASE FindSnapshots(r)
  BY <1>1, <1>10, LearnsOne, ReadsKept DEF FindSnapshots
<1>11. CASE ReadSnapshots(r)
  BY <1>1, <1>11, LearnsOne, ReadsKept DEF ReadSnapshots
<1>4. CASE ReadNeed(r)
  BY <1>1, <1>4, LearnsOne DEF ReadNeed, Reads, Typed, NeedRead
<1>5. CASE ReadStock(r)
  <2>1. PICK m : \/ Reads(r, BalanceRead(seen[r], m, StockSeen(r)[m]))
                 \/ Reads(r, [seen[r] EXCEPT !.todo = @ \ {m}])
    BY <1>5 DEF ReadStock, BalanceRead
  <2>2. /\ BalanceRead(seen[r], m, StockSeen(r)[m]).late = seen[r].late
        /\ [seen[r] EXCEPT !.todo = seen[r].todo \ {m}].late = seen[r].late
    BY <1>1, LearnsOne
  <2> QED
    BY <2>1, <2>2, ReadsKept
<1>6. CASE SaveDebit(r)
  BY <1>1, <1>6, WritesOne, LearnsOne DEF SaveDebit, Writes, Typed, DebitWritten
<1>7. CASE ReadBack(r)
  <2>1. PICK row : Reads(r, RowRead(seen[r], row, StockSeen(r)[row.material]))
    BY <1>7 DEF ReadBack, RowRead
  <2> QED
    BY <1>1, <2>1, LearnsOne, ReadsKept
<1>8. CASE SaveBack(r)
  BY <1>1, <1>8, WritesOne, LearnsOne DEF SaveBack, Writes, Typed
<1>9. CASE DeleteSnapshots(r)
  BY <1>1, <1>9, WritesOne DEF DeleteSnapshots, Writes, Typed
<1> QED
  BY <1>2, <1>3, <1>4, <1>5, <1>6, <1>7, <1>8, <1>9, <1>10, <1>11

\* A step of a call that edits no line and replaces no recipe.
LEMMA AsideLone ==
  ASSUME Inv, Alone, NEW r \in Requests, Local(r), call'[r] = call[r],
         ~ EditsLine(r), ~ Creates(r), call[r].op # "replaceBillOfMaterials",
         seen'[r].late = {}, DOMAIN writes'[r].lines = {}, DOMAIN writes'[r].bom = {}, DueSlot(r)'
  PROVE  Lone(r)'
<1>1. Quiet(r)
  BY LocalQuiet DEF Inv
<1>2. ~ EditsLine(r)' /\ ~ Creates(r)' /\ call'[r].op # "addItem" /\ call'[r].op # "updateItemQuantity"
  BY DEF EditsLine, Creates
<1>3. LinesSlot(r)'
  BY <1>2 DEF LinesSlot
<1>4. BomSlot(r)'
  BY DEF BomSlot
<1>5. BoundSlot(r)'
  BY <1>1 DEF BoundSlot, Alone, Lone, Quiet
<1> QED
  BY <1>3, <1>4, <1>5 DEF Lone

LEMMA AbortLone ==
  ASSUME Inv, Alone, NEW r \in Requests, Abort(r)
  PROVE  Lone(r)'
<1>1. /\ pc'[r] = "idle" /\ call'[r] = NoCall /\ seen'[r] = NothingSeen /\ writes'[r] = NoWrites
      /\ call'[r].op = "none"
  BY NoCallFields DEF Inv, Abort, End, GoTo, Typed
<1>2. ~ EditsLine(r)' /\ ~ Creates(r)' /\ ~ Debits(r)'
  BY <1>1 DEF EditsLine, Creates, Debits
<1>3. LinesSlot(r)' /\ BomSlot(r)' /\ DueSlot(r)'
  BY <1>1, <1>2, NothingTyped DEF LinesSlot, BomSlot, DueSlot
<1>4. BoundSlot(r)'
  BY <1>1 DEF BoundSlot
<1> QED
  BY <1>1, <1>3, <1>4, NothingTyped DEF Lone

LEMMA StartLone ==
  ASSUME Inv, Alone, NEW r \in Requests, NEW c \in Calls, Start(r, c)
  PROVE  Lone(r)'
<1>1. Typed /\ Slot(r) /\ pc[r] = "idle" /\ Local(r) /\ Quiet(r)
  BY LocalQuiet DEF Inv, Start, Local
<1>2. /\ pc'[r] = FirstStatement(c) /\ call'[r] = c /\ seen'[r] = NothingSeen
      /\ writes'[r] = NoWrites
  BY <1>1 DEF Start, GoTo, Typed, Slot, Position
<1>3. FirstStatement(c) \in Firsts
  BY CallFields DEF AllOps, FirstStatement, SaleOps, MaterialOps, Firsts
<1>4. EditsLine(r)' => pc'[r] = "readSale"
  BY <1>2, FirstOf DEF EditsLine, SaleOps
<1>5. LinesSlot(r)'
  <2>1. c.op = "addItem" => lines'[<<c.sale, c.line>>] = NoItem
    BY <1>1 DEF Start, Fresh, Quiet
  <2> QED
    BY <1>2, <1>3, <1>4, <2>1, NothingTyped DEF LinesSlot, Firsts, LineOf
<1>6. BomSlot(r)'
  BY <1>2, <1>3, NothingTyped DEF BomSlot, Firsts
<1>7. BoundSlot(r)'
  BY <1>1, <1>2 DEF BoundSlot, Start, WithinBounds, Quiet
<1>8. DueSlot(r)'
  BY <1>2, NothingTyped DEF DueSlot, Debits
<1> QED
  BY <1>2, <1>5, <1>6, <1>7, <1>8, NothingTyped DEF Lone

LEMMA SaveNewSaleLone ==
  ASSUME Inv, Alone, NEW r \in Requests, SaveNewSale(r)
  PROVE  Lone(r)'
<1>1. Typed /\ Slot(r) /\ pc[r] = "saveNewSale"
  BY DEF Inv, SaveNewSale, Ready
<1>2. call[r].op = "createSale" /\ seen[r] = NothingSeen /\ writes[r] = NoWrites /\ writes[r] \in Own
  BY <1>1, Placed, SlotFields DEF Slot, Position, Firsts
<1> DEFINE items == [sl \in {call[r].sale} \X Lines |-> call[r].items[sl[2]]]
           new == Put(<<>>, call[r].sale, NewSale)
<1>3. /\ pc'[r] = "commit" /\ call'[r] = call[r] /\ seen'[r] = NothingSeen
      /\ writes'[r] = [writes[r] EXCEPT !.sale = new, !.lines = items]
  BY <1>1, <1>2 DEF SaveNewSale, GoTo, Writes, Typed
<1> HIDE DEF new
<1>4. writes'[r].lines = items /\ writes'[r].bom = writes[r].bom
  <2> HIDE DEF items
  <2> QED
    BY <1>2, <1>3, WritesOne
<1>5. DOMAIN writes[r].bom = {}
  BY <1>2, NothingTyped
<1>6. LinesSlot(r)'
  BY <1>2, <1>3, <1>4 DEF LinesSlot, Creates, EditsLine
<1>7. BomSlot(r)' /\ BoundSlot(r)' /\ DueSlot(r)'
  BY <1>2, <1>3, <1>4, <1>5 DEF BomSlot, BoundSlot, DueSlot, Debits
<1> QED
  BY <1>3, <1>6, <1>7, NothingTyped DEF Lone

\* A line's handler has found its sale editable, and its line as it is.
LEMMA EditLone ==
  ASSUME Inv, Alone, NEW r \in Requests, Local(r), call'[r] = call[r], EditsLine(r),
         seen'[r].late = {}, DOMAIN writes'[r].bom = {}, LinesSlot(r)'
  PROVE  Lone(r)'
<1>1. Quiet(r)
  BY LocalQuiet DEF Inv
<1>2. BomSlot(r)' /\ DueSlot(r)'
  BY DEF BomSlot, DueSlot, Debits, EditsLine
<1>3. BoundSlot(r)'
  BY DEF BoundSlot, EditsLine
<1> QED
  BY <1>2, <1>3 DEF Lone

LEMMA ReadSaleLone ==
  ASSUME Inv, Alone, NEW r \in Requests, ReadSale(r)
  PROVE  Lone(r)'
<1>1. Typed /\ Slot(r) /\ pc[r] = "readSale" /\ Local(r) /\ Quiet(r)
  BY LocalQuiet DEF Inv, ReadSale, Ready, Local
<1> DEFINE row == sale[call[r].sale]
           k == [seen[r] EXCEPT !.sale = row]
<1>2. CASE Abort(r)
  BY <1>2, AbortLone
<1>3. CASE /\ row # NoSale /\ (NeedsEditable(call[r]) => Editable(row))
           /\ GoTo(r, AfterReadSale(call[r], row))
           /\ Reads(r, k)
  <2>1. call[r] \in Calls /\ call[r].op \in SaleOps \ {"createSale"} /\ call[r].sale \in Sales
    BY <1>1, Placed, CallFields DEF Slot
  <2>2. writes[r] = NoWrites /\ seen[r] = NothingSeen /\ seen[r] \in Seen
    BY <1>1, SlotFields DEF Slot, Position, Firsts
  <2>3. row \in SaleRow
    BY <1>1, <1>3, <2>1 DEF Typed
  <2> HIDE DEF row
  <2>4. k.sale = row /\ k.late = {}
    BY <2>2, <2>3, LearnsSale, NothingTyped
  <2>5. /\ pc'[r] = AfterReadSale(call[r], row) /\ call'[r] = call[r] /\ seen'[r] = k
        /\ writes'[r] = NoWrites
    BY <1>1, <1>3, <2>2 DEF GoTo, Reads, Typed
  <2> HIDE DEF k
  <2>6. CASE EditsLine(r)
    <3>1. pc'[r] \in {"saveItem", "readItem"} /\ (pc'[r] = "saveItem" => call[r].op = "addItem")
      BY <2>5, <2>6 DEF AfterReadSale, EditsLine
    <3>2. Editable(row)
      BY <1>3, <2>6 DEF EditsLine, NeedsEditable
    <3>3. call[r].op = "addItem" => lines'[LineOf(r)] = NoItem
      BY <1>1 DEF Alone, Lone, LinesSlot, Quiet
    <3>4. LinesSlot(r)'
      BY <2>4, <2>5, <3>1, <3>2, <3>3, NothingTyped DEF LinesSlot, LineOf
    <3> QED
      BY <1>1, <2>4, <2>5, <2>6, <3>4, EditLone, NothingTyped
  <2>7. CASE ~ EditsLine(r)
    <3>1. pc'[r] \in {"saveSale", "readSnapshots", "checkSnapshots"}
      BY <2>1, <2>5, <2>7 DEF AfterReadSale, EditsLine, SaleOps
    <3>2. Debits(r)' => pc'[r] = "checkSnapshots"
      BY <2>4, <2>5 DEF Debits, AfterReadSale
    <3>3. DueSlot(r)'
      BY <2>5, <3>2, NothingTyped DEF DueSlot, ToDebit
    <3>4. ~ Creates(r) /\ call[r].op # "replaceBillOfMaterials"
      BY <2>1 DEF Creates, SaleOps
    <3> QED
      BY <1>1, <2>4, <2>5, <2>7, <3>3, <3>4, AsideLone, NothingTyped
  <2> QED
    BY <2>6, <2>7
<1> QED
  BY <1>2, <1>3 DEF ReadSale

LEMMA ReadItemLone ==
  ASSUME Inv, Alone, NEW r \in Requests, ReadItem(r)
  PROVE  Lone(r)'
<1>1. Typed /\ Slot(r) /\ pc[r] = "readItem" /\ Local(r) /\ Quiet(r)
  BY LocalQuiet DEF Inv, ReadItem, Ready, Local
<1> DEFINE item == lines[<<call[r].sale, call[r].line>>]
           k == [seen[r] EXCEPT !.item = item]
<1>2. CASE Abort(r)
  BY <1>2, AbortLone
<1>3. CASE item # NoItem /\ GoTo(r, "saveItem") /\ Reads(r, k)
  <2>1. /\ call[r] \in Calls /\ call[r].op \in {"removeItem", "updateItemQuantity"}
        /\ call[r].sale \in Sales /\ call[r].line \in Lines
    BY <1>1, Placed, CallFields DEF Slot, SaleOps
  <2>2. item \in SaleItem \cup {NoItem} /\ seen[r] \in Seen
    BY <1>1, <2>1 DEF Typed
  <2>3. k.sale = seen[r].sale /\ k.late = seen[r].late /\ k.item = item
    BY <2>2, LearnsItem
  <2>4. /\ pc'[r] = "saveItem" /\ call'[r] = call[r] /\ seen'[r] = k /\ writes'[r] = writes[r]
    BY <1>1, <1>3 DEF GoTo, Reads, Typed
  <2> HIDE DEF k
  <2>5. /\ EditsLine(r) /\ Editable(seen[r].sale) /\ seen[r].late = {}
        /\ DOMAIN writes[r].lines = {} /\ DOMAIN writes[r].bom = {}
    BY <1>1, <2>1 DEF Alone, Lone, LinesSlot, BomSlot, EditsLine
  <2>6. LinesSlot(r)'
    BY <1>1, <2>1, <2>3, <2>4, <2>5 DEF LinesSlot, LineOf, Quiet
  <2> QED
    BY <1>1, <2>3, <2>4, <2>5, <2>6, EditLone
<1> QED
  BY <1>1, <1>2, <1>3 DEF ReadItem

LEMMA SaveItemLone ==
  ASSUME Inv, Alone, NEW r \in Requests, SaveItem(r)
  PROVE  Lone(r)'
<1> DEFINE c == call[r]
           line == <<c.sale, c.line>>
           item == CASE c.op = "addItem" -> c.item
                     [] c.op = "removeItem" -> NoItem
                     [] c.op = "updateItemQuantity" -> [seen[r].item EXCEPT !.quantity = c.quantity]
           w == [writes[r] EXCEPT !.lines = Put(@, line, item)]
<1>1. Typed /\ Slot(r) /\ pc[r] = "saveItem" /\ Local(r) /\ Quiet(r)
  BY LocalQuiet DEF Inv, SaveItem, Ready, Local
<1>2. CASE Abort(r)
  BY <1>2, AbortLone
<1>3. CASE /\ c.op = "removeItem" => lines[line] # NoItem
           /\ Writes(r, w) /\ GoTo(r, "commit") /\ UNCHANGED seen
  <2>1. EditsLine(r) /\ writes[r] \in Own
    BY <1>1, Placed, SlotFields DEF Slot, EditsLine
  <2>2. /\ Editable(seen[r].sale) /\ seen[r].late = {}
        /\ DOMAIN writes[r].lines = {} /\ DOMAIN writes[r].bom = {}
        /\ c.op = "addItem" => lines[line] = NoItem
        /\ c.op = "updateItemQuantity" => seen[r].item = lines[line] /\ seen[r].item # NoItem
    BY <1>1, <2>1 DEF Alone, Lone, LinesSlot, BomSlot, LineOf, Slot, Knows
  <2>3. item = ItemSaved(c, lines[line])
    BY <2>1, <2>2 DEF ItemSaved, EditsLine
  <2> HIDE DEF item
  <2> DEFINE own == Put(writes[r].lines, line, item)
  <2>4. DOMAIN own = {line} /\ own[line] = item
    BY <2>2 DEF Put
  <2> HIDE DEF own
  <2>5. w.lines = own /\ w.bom = writes[r].bom
    BY <2>1, WritesOne DEF own
  <2>6. /\ pc'[r] = "commit" /\ call'[r] = c /\ seen'[r] = seen[r] /\ writes'[r] = w
    BY <1>1, <1>3 DEF GoTo, Writes, Typed
  <2> HIDE DEF w
  <2>7. c.op # "addItem" => lines[line] # NoItem
    BY <1>3, <2>1, <2>2 DEF EditsLine
  <2>8. ~ Creates(r)' /\ EditsLine(r)'
    BY <2>1, <2>6 DEF Creates, EditsLine
  <2>9. LinesSlot(r)'
    BY <1>1, <2>2, <2>3, <2>4, <2>5, <2>6, <2>7, <2>8 DEF LinesSlot, LineOf, Quiet
  <2> QED
    BY <1>1, <2>1, <2>2, <2>5, <2>6, <2>9, EditLone
<1> QED
  BY <1>2, <1>3 DEF SaveItem

\* A status change, short of its commit, holds no line and no recipe.
LEMMA CrossingLone ==
  ASSUME Inv, Alone, NEW r \in Requests,
         \/ SaveSale(r)
         \/ CheckSnapshots(r) \/ ReadNeed(r) \/ ReadStock(r) \/ SaveDebit(r)
         \/ ReadSnapshots(r) \/ ReadBack(r) \/ SaveBack(r)
         \/ FindSnapshots(r) \/ DeleteSnapshots(r),
         DueSlot(r)'
  PROVE  Lone(r)'
<1>1. Typed /\ Slot(r) /\ Local(r)
  BY DEF Inv, Local
<1>2. pc[r] \in {"saveSale"} \cup DebitPath \cup ReversalPath
  BY DEF SaveSale, CheckSnapshots, ReadNeed, ReadStock, SaveDebit, ReadSnapshots, ReadBack,
         SaveBack, FindSnapshots, DeleteSnapshots, Ready, DebitPath, ReversalPath
<1>3. call[r].op \in {"updateDetails", "updatePaymentStatus", "updateProductionStatus"}
  BY <1>1, <1>2, Placed DEF Slot
<1>4. ~ EditsLine(r) /\ ~ Creates(r) /\ call[r].op # "replaceBillOfMaterials"
  BY <1>3 DEF EditsLine, Creates
<1>5. seen[r].late = {} /\ DOMAIN writes[r].lines = {} /\ DOMAIN writes[r].bom = {}
  BY <1>4 DEF Alone, Lone, LinesSlot, BomSlot
<1>6. /\ call'[r] = call[r] /\ seen'[r].late = seen[r].late
      /\ writes'[r].lines = writes[r].lines /\ writes'[r].bom = writes[r].bom
  BY <1>1, CrossingKept
<1> QED
  BY <1>1, <1>4, <1>5, <1>6, AsideLone

\* A reversal owes nothing of a debit.
LEMMA ReversalLone ==
  ASSUME Inv, Alone, NEW r \in Requests,
         \/ ReadSnapshots(r) \/ ReadBack(r) \/ SaveBack(r)
         \/ FindSnapshots(r) \/ DeleteSnapshots(r)
  PROVE  Lone(r)'
<1>1. pc[r] \in ReversalPath /\ Typed
  BY DEF ReadSnapshots, ReadBack, SaveBack, FindSnapshots, DeleteSnapshots, Ready, ReversalPath, Inv
<1>2. call[r].status = "PENDING"
  BY <1>1, Crossing DEF Reverses
<1>3. call'[r] = call[r]
  BY <1>1, CrossingKept
<1>4. DueSlot(r)'
  BY <1>2, <1>3 DEF DueSlot, Debits
<1> QED
  BY <1>4, CrossingLone

LEMMA CheckSnapshotsLone ==
  ASSUME Inv, Alone, NEW r \in Requests, CheckSnapshots(r)
  PROVE  Lone(r)'
<1>1. pc[r] = "checkSnapshots" /\ pc[r] \in DebitPath
  BY DEF CheckSnapshots, Ready, DebitPath
<1>2. /\ Typed /\ Slot(r) /\ Debits(r) /\ call[r] \in Calls /\ call[r].sale \in Sales
      /\ call[r].op = "updateProductionStatus"
  BY <1>1, Crossing
<1>3. DOMAIN writes[r].stock = {} /\ writes[r].added = {}
  BY <1>1, <1>2 DEF Slot, DebitSlot
<1>4. SnapshotsOf(snapshots, call[r].sale) = {}
  <2>1. sale[call[r].sale].production = "PENDING"
    BY <1>1, <1>2 DEF Slot, Knows, Changes, SaleOps, Debits, Alone, Lone
  <2> QED
    BY <2>1 DEF Inv, SnapshotsFitTheSaleUnlessRaced, SnapshotsOf, Alone
<1>5. pc'[r] = "readNeed" /\ writes'[r] = writes[r]
  BY <1>2, <1>3, <1>4 DEF CheckSnapshots, GoTo, Typed, SnapshotsOf, SnapshotsSeen
<1>6. DueSlot(r)'
  BY <1>3, <1>5 DEF DueSlot, ToDebit
<1> QED
  BY <1>6, CrossingLone

LEMMA DueStays ==
  ASSUME NEW r \in Requests, Quiet(r), call'[r] = call[r], NEW m
  PROVE  NeedOf(r, m)' = NeedOf(r, m) /\ Due(r, m)' = Due(r, m)
BY DEF NeedOf, Due, Quiet

LEMMA NothingDue ==
  ASSUME Typed, NEW r \in Requests, call[r].sale \in Sales, NEW m \in Materials,
         ~ (NeedOf(r, m) > 0)
  PROVE  NeedOf(r, m) = 0 /\ Due(r, m) = 0
<1>1. NeedOf(r, m) \in Nat /\ stock[m] \in Nat
  BY NeedIsNat DEF NeedOf, Typed
<1> QED
  BY <1>1 DEF Due, StockDebit, Smaller

LEMMA ReadNeedLone ==
  ASSUME Inv, Alone, NEW r \in Requests, ReadNeed(r)
  PROVE  Lone(r)'
<1> DEFINE need == [m \in Materials |-> MaterialNeed(bom, lines, call[r].sale, m)]
           needed == {m \in Materials : need[m] > 0}
           k == NeedRead(seen[r], need, needed)
<1>1. pc[r] = "readNeed" /\ pc[r] \in DebitPath /\ Local(r)
  BY DEF ReadNeed, Ready, DebitPath, Local
<1>2. /\ Typed /\ Slot(r) /\ Quiet(r) /\ Debits(r) /\ call[r].sale \in Sales /\ seen[r] \in Seen
  BY <1>1, Crossing, LocalQuiet
<1>3. /\ pc'[r] = (IF needed = {} THEN "saveSale" ELSE "readStock") /\ call'[r] = call[r]
      /\ seen'[r] = k /\ writes'[r] = writes[r]
  BY <1>2 DEF ReadNeed, Reads, GoTo, Typed, NeedRead
<1>4. DOMAIN writes[r].stock = {} /\ writes[r].added = {}
  BY <1>1, <1>2 DEF Slot, DebitSlot
<1>5. \A m \in Materials : need[m] = NeedOf(r, m)
  BY DEF NeedOf
<1>6. need = [m \in Materials |-> NeedOf(r, m)]
  BY DEF NeedOf
<1>7. need \in [Materials -> Nat]
  BY <1>2, NeedIsNat
<1> HIDE DEF need
<1>8. k.need = need /\ k.todo = needed
  BY <1>2, <1>7, LearnsNeed
<1> HIDE DEF k
<1>9. \A m \in Materials \ needed : Due(r, m) = 0
  BY <1>2, <1>5, NothingDue
<1>10. ToDebit(r)' = needed
  BY <1>3, <1>8 DEF ToDebit
<1>11. \A m : NeedOf(r, m)' = NeedOf(r, m) /\ Due(r, m)' = Due(r, m)
  BY <1>2, <1>3, DueStays
<1>12. [m \in Materials |-> NeedOf(r, m)]' = [m \in Materials |-> NeedOf(r, m)]
  BY <1>11
<1>13. \A m \in needed : NeedOf(r, m) > 0
  BY <1>5
<1> HIDE DEF needed
<1>14. DueSlot(r)'
  BY <1>3, <1>4, <1>6, <1>8, <1>9, <1>10, <1>11, <1>12, <1>13 DEF DueSlot
<1> QED
  BY <1>14, CrossingLone

LEMMA ReadStockLone ==
  ASSUME Inv, Alone, NEW r \in Requests, ReadStock(r)
  PROVE  Lone(r)'
<1>1. pc[r] = "readStock" /\ pc[r] \in DebitPath /\ Local(r)
  BY DEF ReadStock, Ready, DebitPath, Local
<1>2. /\ Typed /\ Slot(r) /\ Quiet(r) /\ Debits(r) /\ seen[r] \in Seen /\ call[r].sale \in Sales
  BY <1>1, Crossing, LocalQuiet
<1>3. seen[r].todo \subseteq Materials \ DOMAIN writes[r].stock
  BY <1>1, <1>2 DEF Slot, DebitSlot
<1>4. /\ seen[r].need = [m \in Materials |-> NeedOf(r, m)]
      /\ ToDebit(r) = seen[r].todo
      /\ \A m \in DOMAIN writes[r].stock \cup seen[r].todo : NeedOf(r, m) > 0
      /\ \A row \in writes[r].added : row.quantity = Due(r, row.material)
      /\ \A m \in Materials \ (DOMAIN writes[r].stock \cup seen[r].todo) : Due(r, m) = 0
  BY <1>1, <1>2 DEF Alone, Lone, DueSlot, ToDebit
<1>5. PICK m \in seen[r].todo :
        LET quantity == StockSeen(r)[m] IN
        IF StockDebit(seen[r].need[m], quantity) > 0
        THEN /\ Reads(r, [seen[r] EXCEPT !.material = m, !.quantity = quantity])
             /\ GoTo(r, "saveDebit")
        ELSE /\ Reads(r, [seen[r] EXCEPT !.todo = @ \ {m}])
             /\ GoTo(r, IF seen[r].todo = {m} THEN "saveSale" ELSE "readStock")
  BY DEF ReadStock
<1> DEFINE q == StockSeen(r)[m]
           held == BalanceRead(seen[r], m, q)
           rest == [seen[r] EXCEPT !.todo = seen[r].todo \ {m}]
<1>6. m \in Materials /\ q \in Nat /\ q = stock[m] /\ StockDebit(seen[r].need[m], q) = Due(r, m)
  <2>1. m \in Materials /\ m \notin DOMAIN writes[r].stock
    BY <1>3
  <2>2. q \in Nat /\ q = stock[m]
    BY <1>2, <2>1, OwnStock
  <2> QED
    BY <1>4, <2>1, <2>2 DEF Due
<1> HIDE DEF q
<1>7. call'[r] = call[r]
  BY <1>2, CrossingKept
<1>8. \A n : NeedOf(r, n)' = NeedOf(r, n) /\ Due(r, n)' = Due(r, n)
  BY <1>2, <1>7, DueStays
<1>9. [n \in Materials |-> NeedOf(r, n)]' = [n \in Materials |-> NeedOf(r, n)]
  BY <1>8
<1>10. CASE Reads(r, held) /\ GoTo(r, "saveDebit")
  <2>1. /\ pc'[r] = "saveDebit" /\ seen'[r] = held /\ writes'[r] = writes[r]
    BY <1>2, <1>10 DEF Reads, GoTo, Typed
  <2>2. held.need = seen[r].need /\ held.todo = seen[r].todo
    BY <1>2, <1>6, LearnsBalance
  <2> HIDE DEF held
  <2>3. ToDebit(r)' = seen[r].todo
    BY <2>1, <2>2 DEF ToDebit
  <2>4. DueSlot(r)'
    BY <1>4, <1>8, <1>9, <2>1, <2>2, <2>3 DEF DueSlot
  <2> QED
    BY <2>4, CrossingLone
<1>11. CASE /\ Reads(r, rest) /\ Due(r, m) = 0
            /\ GoTo(r, IF seen[r].todo = {m} THEN "saveSale" ELSE "readStock")
  <2>1. /\ pc'[r] = (IF seen[r].todo = {m} THEN "saveSale" ELSE "readStock")
        /\ seen'[r] = rest /\ writes'[r] = writes[r]
    BY <1>2, <1>11 DEF Reads, GoTo, Typed
  <2>2. rest.need = seen[r].need /\ rest.todo = seen[r].todo \ {m}
    BY <1>2, <1>3, LearnsTodo
  <2> HIDE DEF rest
  <2>3. ToDebit(r)' = seen[r].todo \ {m}
    BY <2>1, <2>2 DEF ToDebit
  <2>4. DueSlot(r)'
    BY <1>4, <1>8, <1>9, <1>11, <2>1, <2>2, <2>3 DEF DueSlot
  <2> QED
    BY <2>4, CrossingLone
<1>12. StockDebit(seen[r].need[m], q) > 0 \/ Due(r, m) = 0
  <2>1. seen[r].need[m] \in Nat
    BY <1>2, <1>4, <1>6, NeedIsNat DEF NeedOf
  <2>2. StockDebit(seen[r].need[m], q) \in Nat
    BY <1>6, <2>1, DebitTaken
  <2> QED
    BY <1>6, <2>2
<1> QED
  BY <1>5, <1>10, <1>11, <1>12 DEF BalanceRead, q

LEMMA SaveDebitLone ==
  ASSUME Inv, Alone, NEW r \in Requests, SaveDebit(r)
  PROVE  Lone(r)'
<1> DEFINE m == seen[r].material
           q == seen[r].quantity
           debited == StockDebit(seen[r].need[m], q)
           row == [sale |-> call[r].sale, material |-> m, by |-> r, quantity |-> debited]
           own == Put(writes[r].stock, m, q - debited)
           rows == writes[r].added \cup {row}
           w == DebitWritten(writes[r], own, rows)
           k == [seen[r] EXCEPT !.todo = seen[r].todo \ {m}]
<1>1. pc[r] = "saveDebit" /\ pc[r] \in DebitPath /\ Local(r)
  BY DEF SaveDebit, Ready, DebitPath, Local
<1>2. /\ Typed /\ Slot(r) /\ Quiet(r) /\ Debits(r) /\ seen[r] \in Seen /\ writes[r] \in Own
      /\ call[r].sale \in Sales
  BY <1>1, Crossing, LocalQuiet
<1>3. /\ seen[r].todo \subseteq Materials \ DOMAIN writes[r].stock
      /\ m \in seen[r].todo /\ Holding(r, m) /\ m \in Materials
  BY <1>1, <1>2 DEF Slot, DebitSlot
<1>4. /\ seen[r].need = [n \in Materials |-> NeedOf(r, n)]
      /\ ToDebit(r) = seen[r].todo /\ seen[r].late = {}
      /\ \A n \in DOMAIN writes[r].stock \cup seen[r].todo : NeedOf(r, n) > 0
      /\ \A x \in writes[r].added : x.quantity = Due(r, x.material)
      /\ \A n \in Materials \ (DOMAIN writes[r].stock \cup seen[r].todo) : Due(r, n) = 0
  BY <1>1, <1>2 DEF Alone, Lone, DueSlot, ToDebit
<1>5. debited = Due(r, m)
  BY <1>3, <1>4 DEF Holding, Due
<1>6. /\ pc'[r] = (IF seen[r].todo = {m} THEN "saveSale" ELSE "readStock")
      /\ call'[r] = call[r] /\ seen'[r] = k /\ writes'[r] = w
  BY <1>2 DEF SaveDebit, Writes, GoTo, Typed, DebitWritten
<1>7. k.need = seen[r].need /\ k.todo = seen[r].todo \ {m}
  BY <1>2, <1>3, LearnsTodo
<1>8. row.material = m /\ row.quantity = Due(r, m)
  BY <1>5
<1>9. DOMAIN own = DOMAIN writes[r].stock \cup {m}
  BY DEF Put
<1>10. w.stock = own /\ w.added = rows
  BY <1>2 DEF DebitWritten, Own
<1> HIDE DEF row, own, k, w, debited, m
<1>11. \A n : NeedOf(r, n)' = NeedOf(r, n) /\ Due(r, n)' = Due(r, n)
  BY <1>2, <1>6, DueStays
<1>12. [n \in Materials |-> NeedOf(r, n)]' = [n \in Materials |-> NeedOf(r, n)]
  BY <1>11
<1>13. ToDebit(r)' = seen[r].todo \ {m}
  BY <1>6, <1>7 DEF ToDebit
<1>14. \A x \in rows : x.quantity = Due(r, x.material)
  BY <1>4, <1>8
<1> HIDE DEF rows
<1>15. DueSlot(r)'
  BY <1>3, <1>4, <1>6, <1>7, <1>9, <1>10, <1>11, <1>12, <1>13, <1>14 DEF DueSlot
<1> QED
  BY <1>15, CrossingLone

LEMMA SaveSaleLone ==
  ASSUME Inv, Alone, NEW r \in Requests, SaveSale(r)
  PROVE  Lone(r)'
<1> DEFINE own == Put(writes[r].sale, call[r].sale, SaleSaved(call[r], seen[r].sale))
           w == [writes[r] EXCEPT !.sale = own]
<1>1. pc[r] = "saveSale" /\ Local(r) /\ Typed /\ Quiet(r) /\ writes[r] \in Own
  BY LocalQuiet, SlotFields DEF SaveSale, Ready, Local, Inv
<1>2. pc'[r] = "commit" /\ call'[r] = call[r] /\ seen'[r] = seen[r] /\ writes'[r] = w
  BY <1>1 DEF SaveSale, GoTo, Writes, Typed
<1>3. w.stock = writes[r].stock /\ w.added = writes[r].added
  BY <1>1 DEF Own
<1> HIDE DEF w
<1>4. DueSlot(r) /\ (Debits(r)' <=> Debits(r)) /\ ToDebit(r) = {} /\ ToDebit(r)' = {}
  BY <1>1, <1>2 DEF Alone, Lone, Debits, ToDebit
<1>5. \A n : NeedOf(r, n)' = NeedOf(r, n) /\ Due(r, n)' = Due(r, n)
  BY <1>1, <1>2, DueStays
<1>6. DueSlot(r)'
  BY <1>1, <1>2, <1>3, <1>4, <1>5 DEF DueSlot
<1> QED
  BY <1>6, CrossingLone

LEMMA MaterialLone ==
  ASSUME Inv, Alone, NEW r \in Requests, ReadMaterial(r) \/ SaveMaterial(r)
  PROVE  Lone(r)'
<1>1. /\ pc[r] \in {"readMaterial", "saveMaterial"} /\ Local(r) /\ Typed /\ Slot(r)
      /\ seen[r] \in Seen /\ writes[r] \in Own
  BY SlotFields DEF ReadMaterial, SaveMaterial, Ready, Local, Inv
<1>2. call[r].op \in MaterialOps
  BY <1>1, Placed DEF Slot
<1>3. /\ ~ EditsLine(r) /\ ~ Creates(r) /\ call[r].op # "replaceBillOfMaterials"
      /\ call[r].op # "updateProductionStatus"
  BY <1>2 DEF MaterialOps, EditsLine, Creates
<1>4. seen[r].late = {} /\ DOMAIN writes[r].lines = {} /\ DOMAIN writes[r].bom = {}
  BY <1>3 DEF Alone, Lone, LinesSlot, BomSlot
<1>5. CASE Abort(r)
  BY <1>5, AbortLone
<1>6. CASE /\ call'[r] = call[r] /\ seen'[r].late = seen[r].late
           /\ writes'[r].lines = writes[r].lines /\ writes'[r].bom = writes[r].bom
  <2>1. DueSlot(r)'
    BY <1>3, <1>6 DEF DueSlot, Debits
  <2> QED
    BY <1>1, <1>3, <1>4, <1>6, <2>1, AsideLone
<1>7. CASE ReadMaterial(r)
  <2>1. Abort(r) \/ Reads(r, BalanceRead(seen[r], call[r].material, stock[call[r].material]))
    BY <1>7 DEF ReadMaterial, BalanceRead
  <2>2. BalanceRead(seen[r], call[r].material, stock[call[r].material]).late = seen[r].late
    BY <1>1, LearnsOne
  <2> QED
    BY <1>1, <1>5, <1>6, <2>1, <2>2, ReadsKept
<1>8. CASE SaveMaterial(r)
  <2>1. PICK own : Writes(r, [writes[r] EXCEPT !.stock = own]) /\ UNCHANGED seen
    BY <1>8 DEF SaveMaterial
  <2>2. /\ call'[r] = call[r] /\ seen'[r] = seen[r]
        /\ writes'[r] = [writes[r] EXCEPT !.stock = own]
    BY <1>1, <2>1 DEF Writes, Typed
  <2> QED
    BY <1>1, <1>6, <2>2, WritesOne
<1> QED
  BY <1>7, <1>8

LEMMA SaveBomLone ==
  ASSUME Inv, Alone, NEW r \in Requests, SaveBom(r)
  PROVE  Lone(r)'
<1>1. pc[r] = "saveBom" /\ Typed /\ Slot(r) /\ writes[r] \in Own
  BY SlotFields DEF SaveBom, Ready, Inv
<1>2. /\ call[r].op = "replaceBillOfMaterials" /\ seen[r] = NothingSeen /\ writes[r] = NoWrites
  BY <1>1, Placed DEF Slot, Position, Firsts
<1> DEFINE own == Put(writes[r].bom, call[r].product, call[r].recipe)
<1>3. /\ pc'[r] = "commit" /\ call'[r] = call[r] /\ seen'[r] = NothingSeen
      /\ writes'[r] = [writes[r] EXCEPT !.bom = own]
  BY <1>1, <1>2 DEF SaveBom, GoTo, Writes, Typed
<1>4. DOMAIN own = {call[r].product} /\ own[call[r].product] = call[r].recipe
  BY <1>2, NothingTyped DEF Put
<1> HIDE DEF own
<1>5. writes'[r].bom = own /\ DOMAIN writes'[r].lines = {}
  BY <1>1, <1>2, <1>3, WritesOne, NothingTyped
<1>6. LinesSlot(r)'
  BY <1>2, <1>3, <1>5 DEF LinesSlot, EditsLine, Creates
<1>7. BomSlot(r)' /\ BoundSlot(r)' /\ DueSlot(r)'
  BY <1>2, <1>3, <1>4, <1>5 DEF BomSlot, BoundSlot, DueSlot, Debits
<1> QED
  BY <1>3, <1>6, <1>7, NothingTyped DEF Lone

LEMMA LoneStays ==
  ASSUME NEW o \in Requests, Lone(o),
         stock' = stock, bom' = bom, lines' = lines, ledger' = ledger,
         pc'[o] = pc[o], call'[o] = call[o], seen'[o] = seen[o], writes'[o] = writes[o]
  PROVE  Lone(o)'
<1>1. LinesSlot(o) => LinesSlot(o)'
  BY DEF LinesSlot, EditsLine, LineOf, Creates
<1>2. BomSlot(o) => BomSlot(o)'
  BY DEF BomSlot
<1>3. BoundSlot(o) => BoundSlot(o)'
  BY DEF BoundSlot
<1>4. DueSlot(o) => DueSlot(o)'
  BY DEF DueSlot, Debits, NeedOf, Due, ToDebit
<1> QED
  BY <1>1, <1>2, <1>3, <1>4 DEF Lone

\* A new call touches nothing the others do; the others touch what they did.
LEMMA LocalKeepsApart ==
  ASSUME ~ ConflictsAllowed, Inv, Alone, NEW r \in Requests, Local(r)
  PROVE  Apart'
<1>1. Typed /\ Quiet(r)
  BY LocalQuiet DEF Inv
<1>2. ASSUME NEW c \in Calls
      PROVE  Touches(c)' = Touches(c)
  BY <1>1, TouchesStay DEF Quiet
<1>3. \A o \in Requests \ {r} : call'[o] = call[o]
  BY <1>1, OthersStay
<1>4. \A o \in Requests : call[o] \in Calls => pc[o] # "idle"
  BY Placed, NoCallFields, CallFields DEF Inv, Slot, AllOps, SaleOps, MaterialOps
<1>5. \/ call'[r] = NoCall
      \/ call'[r] = call[r]
      \/ call'[r] \in Calls /\ ~ Conflicts(call'[r])
  <2>1. CASE Abort(r)
    BY <1>1, <2>1 DEF Abort, End, GoTo, Typed
  <2>2. CASE \E c \in Calls : Start(r, c)
    BY <1>1, <2>2 DEF Start, Typed
  <2>3. CASE ~ Abort(r) /\ ~ \E c \in Calls : Start(r, c)
    BY <2>3 DEF Local, SaveNewSale, ReadSale, ReadItem, SaveItem, SaveSale, CheckSnapshots,
         ReadNeed, ReadStock, SaveDebit, ReadSnapshots, ReadBack, SaveBack, FindSnapshots,
         DeleteSnapshots, ReadMaterial, SaveMaterial, SaveBom, Reads, Writes
  <2> QED
    BY <2>1, <2>2, <2>3
<1>6. ASSUME NEW o \in Requests \ {r}, NEW c \in Calls, NEW d \in Calls,
             call'[r] = c, call'[o] = d
      PROVE  Touches(c) \cap Touches(d) = {}
  <2>1. call[o] = d /\ pc[o] # "idle"
    BY <1>3, <1>4, <1>6
  <2>2. CASE call[r] = c
    BY <2>1, <2>2 DEF Alone, Apart
  <2>3. CASE ~ Conflicts(c)
    BY <2>1, <2>3 DEF Conflicts
  <2>4. c # NoCall
    BY NoCallFields, CallFields DEF AllOps, SaleOps, MaterialOps
  <2> QED
    BY <1>5, <1>6, <2>2, <2>3, <2>4
<1> SUFFICES ASSUME NEW p \in Requests, NEW o \in Requests, NEW c \in Calls, NEW d \in Calls,
                    p # o, call'[p] = c, call'[o] = d
             PROVE  Touches(c) \cap Touches(d) = {}
  BY <1>2 DEF Apart
<1>7. CASE p # r /\ o # r
  BY <1>3, <1>7 DEF Alone, Apart
<1>8. CASE p = r
  BY <1>6, <1>8
<1>9. CASE o = r
  BY <1>6, <1>9
<1> QED
  BY <1>7, <1>8, <1>9

LEMMA LocalKeepsAlone ==
  ASSUME ~ ConflictsAllowed, Inv, Alone, NEW r \in Requests, Local(r)
  PROVE  Alone'
<1>1. Typed /\ Quiet(r)
  BY LocalQuiet DEF Inv
<1>2. Lone(r)'
  BY StartLone, SaveNewSaleLone, ReadSaleLone, ReadItemLone, SaveItemLone, SaveSaleLone,
     CheckSnapshotsLone, ReadNeedLone, ReadStockLone, SaveDebitLone, ReversalLone, MaterialLone,
     SaveBomLone, AbortLone DEF Local
<1>3. \A o \in Requests \ {r} : Lone(o)'
  BY <1>1, OthersStay, LoneStays DEF Alone, Quiet
<1>4. overtaken' = {}
  BY <1>1 DEF Alone, Quiet
<1>5. Apart'
  BY LocalKeepsApart
<1> QED
  BY <1>2, <1>3, <1>4, <1>5 DEF Alone

\* A commit changes only rows its call touches.
LEMMA CommitTouches ==
  ASSUME Inv, Alone, NEW r \in Requests, Commit(r)
  PROVE  /\ \A s \in DOMAIN writes[r].sale : <<"sale", s>> \in Touches(call[r])
         /\ \A m \in DOMAIN writes[r].stock : <<"material", m>> \in Touches(call[r])
         /\ \A p \in DOMAIN writes[r].bom : <<"product", p>> \in Touches(call[r])
         /\ \A sl \in DOMAIN writes[r].lines : <<"sale", sl[1]>> \in Touches(call[r])
         /\ \A x \in writes[r].added \cup writes[r].removed : <<"sale", x.sale>> \in Touches(call[r])
         /\ \A m \in Materials : Entered(call[r], m) # 0 => <<"material", m>> \in Touches(call[r])
<1> DEFINE c == call[r]
<1>1. Typed /\ Slot(r) /\ pc[r] = "commit" /\ c \in Calls /\ writes[r] \in Own /\ Lone(r)
  BY Committed DEF Alone
<1>2. /\ c.op \in SaleOps => <<"sale", c.sale>> \in Touches(c)
      /\ c.op \in MaterialOps => <<"material", c.material>> \in Touches(c)
      /\ c.op = "replaceBillOfMaterials" => <<"product", c.product>> \in Touches(c)
      /\ c.op = "updateProductionStatus" =>
           \A m \in Materials :
             (\/ MaterialNeed(bom, lines, c.sale, m) > 0
              \/ \E row \in snapshots : row.sale = c.sale /\ row.material = m)
             => <<"material", m>> \in Touches(c)
  BY <1>1, TouchesAtLeast
<1>3. \A s \in DOMAIN writes[r].sale : <<"sale", s>> \in Touches(c)
  BY <1>2, CommittedRows DEF SavesSale, SaleOps
<1>4. \A m \in DOMAIN writes[r].stock : <<"material", m>> \in Touches(c)
  <2> TAKE m \in DOMAIN writes[r].stock
  <2>1. m \in Materials
    <3>1. writes[r].stock \in Partial(Materials, Nat)
      BY <1>1, OwnFields
    <3> QED
      BY <3>1, PartialFacts
  <2>2. CASE MovesMaterial(r)
    BY <1>1, <1>2, <2>2 DEF Slot, MaterialSlot, MovesMaterial
  <2>3. CASE Debits(r)
    <3>1. NeedOf(r, m) > 0
      BY <1>1, <2>3 DEF Lone, DueSlot
    <3> QED
      BY <1>2, <2>1, <2>3, <3>1 DEF NeedOf, Debits
  <2>4. CASE Reverses(r)
    <3>1. Returned(r)
      BY <1>1, <2>4 DEF Slot, ReverseSlot, Alone, Lone, SalesUntouched
    <3>2. \E row \in RowsOf(r) : row.material = m
      BY <3>1 DEF Returned
    <3> QED
      BY <1>2, <2>1, <2>4, <3>2 DEF RowsOf, SnapshotsOf, Reverses
  <2>5. CASE ~ MovesMaterial(r) /\ ~ Debits(r) /\ ~ Reverses(r)
    BY <1>1, <2>5 DEF Slot, Bystander
  <2> QED
    BY <2>2, <2>3, <2>4, <2>5
<1>5. \A p \in DOMAIN writes[r].bom : <<"product", p>> \in Touches(c)
  BY <1>1, <1>2 DEF Lone, BomSlot
<1>6. \A sl \in DOMAIN writes[r].lines : <<"sale", sl[1]>> \in Touches(c)
  <2> TAKE sl \in DOMAIN writes[r].lines
  <2>1. EditsLine(r) \/ Creates(r)
    BY <1>1 DEF Lone, LinesSlot
  <2>2. <<"sale", c.sale>> \in Touches(c)
    BY <1>2, <2>1 DEF EditsLine, Creates, SaleOps
  <2>3. sl[1] = c.sale
    BY <1>1, <2>1 DEF Lone, LinesSlot, LineOf
  <2> QED
    BY <2>2, <2>3
<1>7. \A x \in writes[r].added \cup writes[r].removed : <<"sale", x.sale>> \in Touches(c)
  BY <1>2, CommittedRows DEF SavesSale, SaleOps
<1>8. \A m \in Materials : Entered(c, m) # 0 => <<"material", m>> \in Touches(c)
  BY <1>1, <1>2, CallFields DEF Entered
<1> QED
  BY <1>3, <1>4, <1>5, <1>6, <1>7, <1>8

\* What the committed rows become, row by row.
LEMMA CommittedTables ==
  ASSUME Inv, NEW r \in Requests, Commit(r)
  PROVE  /\ \A p \in Products :
              bom'[p] = IF p \in DOMAIN writes[r].bom THEN writes[r].bom[p] ELSE bom[p]
         /\ \A sl \in Sales \X Lines :
              lines'[sl] = IF sl \in DOMAIN writes[r].lines THEN writes[r].lines[sl] ELSE lines[sl]
<1>1. DOMAIN bom = Products /\ DOMAIN lines = Sales \X Lines
  BY DEF Inv, Typed
<1> QED
  BY <1>1 DEF Commit, Over

\* The balances another call is about to save are among those it touches.
LEMMA HeldTouched ==
  ASSUME Inv, Alone, NEW o \in Requests, NEW d \in Calls, call[o] = d,
         pc[o] \in {"saveDebit", "saveBack", "saveMaterial"}
  PROVE  <<"material", seen[o].material>> \in Touches(d)
<1>1. Typed /\ Slot(o) /\ Lone(o)
  BY DEF Inv, Alone
<1>2. /\ d.op \in MaterialOps => <<"material", d.material>> \in Touches(d)
      /\ d.op = "updateProductionStatus" =>
           \A m \in Materials :
             (\/ MaterialNeed(bom, lines, d.sale, m) > 0
              \/ \E row \in snapshots : row.sale = d.sale /\ row.material = m)
             => <<"material", m>> \in Touches(d)
  BY TouchesAtLeast
<1>3. CASE pc[o] = "saveMaterial"
  BY <1>1, <1>2, <1>3, Placed DEF Slot, MaterialSlot, MovesMaterial
<1>4. CASE pc[o] = "saveDebit"
  <2>1. Debits(o)
    BY <1>4, Crossing DEF DebitPath
  <2>2. seen[o].material \in ToDebit(o) /\ seen[o].material \in Materials
    BY <1>1, <1>4, <2>1 DEF Slot, DebitSlot, ToDebit
  <2>3. NeedOf(o, seen[o].material) > 0
    BY <1>1, <2>1, <2>2 DEF Lone, DueSlot
  <2> QED
    BY <1>2, <2>1, <2>2, <2>3 DEF NeedOf, Debits
<1>5. CASE pc[o] = "saveBack"
  <2>1. Reverses(o)
    BY <1>5, Crossing DEF ReversalPath
  <2>2. seen[o].row \in seen[o].todo /\ seen[o].material = seen[o].row.material /\ Returned(o)
    BY <1>1, <1>5, <2>1 DEF Slot, ReverseSlot, Alone, Lone, SalesUntouched
  <2>3. seen[o].row \in RowsOf(o)
    BY <1>5, <2>2 DEF Returned, Rest
  <2>4. seen[o].row \in snapshots /\ seen[o].row.sale = d.sale /\ seen[o].material \in Materials
    BY <1>1, <2>2, <2>3, SnapshotFields DEF RowsOf, SnapshotsOf, Typed
  <2> QED
    BY <1>2, <2>1, <2>2, <2>4 DEF Reverses
<1> QED
  BY <1>3, <1>4, <1>5

\* A commit changes nothing another call touches, or has read.
LEMMA CommitSpares ==
  ASSUME Inv, Alone, NEW r \in Requests, Commit(r), NEW o \in Requests, o # r,
         NEW d \in Calls, call[o] = d
  PROVE  /\ d.op \in SaleOps =>
              /\ \A l \in Lines : lines'[<<d.sale, l>>] = lines[<<d.sale, l>>]
              /\ SnapshotsOf(snapshots', d.sale) = SnapshotsOf(snapshots, d.sale)
         /\ \A m \in Materials :
              <<"material", m>> \in Touches(d) => stock'[m] = stock[m] /\ ledger'[m] = ledger[m]
         /\ d.op = "updateProductionStatus" => bom' = bom
         /\ Overtakes(r, o) = {}
<1> DEFINE c == call[r]
<1>1. /\ Typed /\ Slot(o) /\ c \in Calls /\ bom' \in [Products -> Recipes]
      /\ d.op \in SaleOps => d.sale \in Sales
  BY Committed, CallFields DEF Inv
<1>2. Touches(c) \cap Touches(d) = {}
  BY <1>1 DEF Alone, Apart
<1>3. /\ d.op \in SaleOps => <<"sale", d.sale>> \notin Touches(c)
      /\ d.op = "updateProductionStatus" => \A p \in Products : <<"product", p>> \notin Touches(c)
  BY <1>2, TouchesAtLeast
<1>4. d.op \in SaleOps => \A l \in Lines : lines'[<<d.sale, l>>] = lines[<<d.sale, l>>]
  <2>1. ASSUME d.op \in SaleOps, NEW l \in Lines
        PROVE  lines'[<<d.sale, l>>] = lines[<<d.sale, l>>]
    <3>1. <<d.sale, l>> \notin DOMAIN writes[r].lines
      BY <1>3, <2>1, CommitTouches
    <3>2. <<d.sale, l>> \in Sales \X Lines
      BY <1>1, <2>1
    <3> QED
      BY <3>1, <3>2, CommittedTables
  <2> QED
    BY <2>1
<1>5. d.op \in SaleOps => SnapshotsOf(snapshots', d.sale) = SnapshotsOf(snapshots, d.sale)
  <2>1. d.op \in SaleOps => \A x \in writes[r].added \cup writes[r].removed : x.sale # d.sale
    BY <1>3, CommitTouches
  <2>2. snapshots' = (snapshots \cup writes[r].added) \ writes[r].removed
    BY Committed
  <2> QED
    BY <2>1, <2>2 DEF SnapshotsOf
<1>6. ASSUME NEW m \in Materials, <<"material", m>> \in Touches(d)
      PROVE  stock'[m] = stock[m] /\ ledger'[m] = ledger[m]
  <2>1. <<"material", m>> \notin Touches(c)
    BY <1>2, <1>6
  <2>2. m \notin DOMAIN writes[r].stock /\ Entered(c, m) = 0
    BY <2>1, CommitTouches
  <2>3. ledger[m] \in Int
    BY <1>1 DEF Typed
  <2> QED
    BY <2>2, <2>3, Committed
<1>7. d.op = "updateProductionStatus" => bom' = bom
  <2>1. bom \in [Products -> Recipes]
    BY <1>1 DEF Typed
  <2>2. d.op = "updateProductionStatus" => \A p \in Products : p \notin DOMAIN writes[r].bom
    BY <1>3, CommitTouches
  <2>3. d.op = "updateProductionStatus" => \A p \in Products : bom'[p] = bom[p]
    BY <2>2, CommittedTables
  <2> QED
    BY <1>1, <2>1, <2>3
<1>8. Overtakes(r, o) = {}
  <2>1. seen[o].sale # NoSale => d.op \in SaleOps
    BY <1>1 DEF Slot, Knows
  <2>2. \A s \in DOMAIN writes[r].sale : ~ (seen[o].sale # NoSale /\ call[o].sale = s)
    BY <1>3, <2>1, CommitTouches
  <2>3. \A m \in DOMAIN writes[r].stock :
          ~ (pc[o] \in {"saveDebit", "saveBack", "saveMaterial"} /\ seen[o].material = m)
    BY <1>2, CommitTouches, HeldTouched
  <2> QED
    BY <2>2, <2>3 DEF Overtakes
<1> QED
  BY <1>4, <1>5, <1>6, <1>7, <1>8

\* What another call in flight knows stays so.
LEMMA CommitLone ==
  ASSUME Inv, Alone, NEW r \in Requests, Commit(r), NEW o \in Requests, o # r
  PROVE  Lone(o)'
<1>1. /\ Typed /\ Typed' /\ Slot(o) /\ Lone(o)
      /\ pc'[o] = pc[o] /\ call'[o] = call[o] /\ writes'[o] = writes[o]
      /\ Overtakes(r, o) = {} => seen'[o] = seen[o]
  BY CommitSeen, CommitTyped DEF Inv, Alone
<1>2. CASE call[o] = NoCall
  <2>1. pc[o] = "idle" /\ seen[o] = NothingSeen /\ call[o].op = "none"
    BY <1>1, <1>2, Placed, NoCallFields DEF Slot, Position
  <2>2. Overtakes(r, o) = {}
    BY <2>1, NothingTyped DEF Overtakes
  <2>3. LinesSlot(o)'
    BY <1>1, <2>1 DEF Lone, LinesSlot, EditsLine, Creates
  <2>4. BomSlot(o)' /\ BoundSlot(o)' /\ DueSlot(o)'
    BY <1>1, <2>1 DEF Lone, BomSlot, BoundSlot, DueSlot, Debits
  <2> QED
    BY <1>1, <2>2, <2>3, <2>4 DEF Lone
<1>3. CASE call[o] \in Calls
  <2> DEFINE d == call[o]
  <2>1. /\ d.op \in SaleOps =>
             /\ \A l \in Lines : lines'[<<d.sale, l>>] = lines[<<d.sale, l>>]
             /\ SnapshotsOf(snapshots', d.sale) = SnapshotsOf(snapshots, d.sale)
        /\ \A m \in Materials :
             <<"material", m>> \in Touches(d) => stock'[m] = stock[m] /\ ledger'[m] = ledger[m]
        /\ d.op = "updateProductionStatus" => bom' = bom
        /\ Overtakes(r, o) = {}
    BY <1>3, CommitSpares
  <2>2. seen'[o] = seen[o]
    BY <1>1, <2>1
  <2>3. /\ d.op \in SaleOps => d.sale \in Sales
        /\ d.op \in {"addItem", "removeItem", "updateItemQuantity"} => d.line \in Lines
        /\ d.op \in MaterialOps => d.material \in Materials /\ <<"material", d.material>> \in Touches(d)
        /\ d.op = "updateProductionStatus" =>
             \A m \in Materials :
               MaterialNeed(bom, lines, d.sale, m) > 0 => <<"material", m>> \in Touches(d)
    BY <1>3, CallFields, TouchesAtLeast
  <2>4. LinesSlot(o)'
    <3>1. EditsLine(o) => lines'[LineOf(o)] = lines[LineOf(o)]
      BY <2>1, <2>3 DEF EditsLine, LineOf, SaleOps
    <3>2. /\ EditsLine(o)' <=> EditsLine(o)
          /\ Creates(o)' <=> Creates(o)
          /\ LineOf(o)' = LineOf(o)
          /\ d.op = "addItem" \/ d.op = "updateItemQuantity" => EditsLine(o)
      BY <1>1 DEF EditsLine, Creates, LineOf
    <3> QED
      BY <1>1, <2>2, <3>1, <3>2 DEF Lone, LinesSlot
  <2>5. BomSlot(o)'
    BY <1>1 DEF Lone, BomSlot
  <2>6. BoundSlot(o)'
    BY <1>1, <2>1, <2>3 DEF Lone, BoundSlot, MaterialOps
  <2>7. DueSlot(o)'
    <3> SUFFICES ASSUME Debits(o)
                 PROVE  DueSlot(o)'
      BY <1>1, <2>2 DEF DueSlot, Debits
    <3>1. /\ d.op = "updateProductionStatus" /\ d.sale \in Sales /\ DueSlot(o)
          /\ \A l \in Lines : lines'[<<d.sale, l>>] = lines[<<d.sale, l>>]
          /\ bom' = bom
      BY <1>1, <2>1, <2>3 DEF Debits, Lone, SaleOps
    <3>2. \A m : MaterialNeed(bom', lines', d.sale, m) = MaterialNeed(bom, lines, d.sale, m)
      BY <3>1 DEF MaterialNeed
    <3>3. \A m : NeedOf(o, m)' = NeedOf(o, m)
      BY <1>1, <3>2 DEF NeedOf
    <3>4. ASSUME NEW m \in Materials
          PROVE  Due(o, m)' = Due(o, m)
      <4>1. CASE NeedOf(o, m) > 0
        <5>1. stock'[m] = stock[m]
          BY <2>1, <2>3, <3>1, <4>1 DEF NeedOf
        <5> QED
          BY <3>3, <5>1 DEF Due
      <4>2. CASE ~ (NeedOf(o, m) > 0)
        <5>1. NeedOf(o, m) = 0 /\ Due(o, m) = 0
          BY <1>1, <3>1, <4>2, NothingDue
        <5>2. NeedOf(o, m)' = 0 /\ stock'[m] \in Nat
          BY <1>1, <3>3, <5>1 DEF Typed
        <5> QED
          BY <5>1, <5>2 DEF Due, StockDebit, Smaller
      <4> QED
        BY <4>1, <4>2
    <3>5. writes[o].added \subseteq Snapshot /\ ToDebit(o)' = ToDebit(o)
          /\ DOMAIN writes[o].stock \subseteq Materials /\ ToDebit(o) \subseteq Materials
      <4>1. writes[o] \in Own /\ DebitSlot(o)
        BY <1>1, SlotFields DEF Slot
      <4>2. writes[o].added \subseteq Snapshot /\ DOMAIN writes[o].stock \subseteq Materials
        BY <4>1, OwnFields, PartialFacts
      <4> QED
        BY <1>1, <2>2, <4>1, <4>2 DEF ToDebit, DebitSlot
    <3>6. \A row \in writes[o].added : Due(o, row.material)' = Due(o, row.material)
      BY <3>4, <3>5, SnapshotFields
    <3>7. [m \in Materials |-> NeedOf(o, m)]' = [m \in Materials |-> NeedOf(o, m)]
      BY <3>3
    <3> QED
      BY <1>1, <2>2, <3>1, <3>3, <3>4, <3>5, <3>6, <3>7 DEF DueSlot
  <2> QED
    BY <1>1, <2>2, <2>4, <2>5, <2>6, <2>7 DEF Lone
<1> QED
  BY <1>1, <1>2, <1>3 DEF Typed

LEMMA CommitKeepsAlone ==
  ASSUME Inv, Alone, NEW r \in Requests, Commit(r)
  PROVE  Alone'
<1>1. /\ pc'[r] = "idle" /\ call'[r] = NoCall /\ seen'[r] = NothingSeen /\ writes'[r] = NoWrites
      /\ call'[r].op = "none" /\ overtaken' = {}
      /\ \A o \in Requests \ {r} : call'[o] = call[o]
  BY Committed, NoCallFields DEF Alone, Lone
<1>2. Lone(r)'
  <2>1. ~ EditsLine(r)' /\ ~ Creates(r)' /\ ~ Debits(r)'
    BY <1>1 DEF EditsLine, Creates, Debits
  <2>2. LinesSlot(r)' /\ BomSlot(r)' /\ DueSlot(r)'
    BY <1>1, <2>1, NothingTyped DEF LinesSlot, BomSlot, DueSlot
  <2>3. BoundSlot(r)'
    BY <1>1 DEF BoundSlot
  <2> QED
    BY <1>1, <2>2, <2>3, NothingTyped DEF Lone
<1>3. Apart'
  <2>1. ASSUME NEW o \in Requests, NEW d \in Calls, call'[o] = d
        PROVE  call[o] = d /\ Touches(d)' = Touches(d)
    <3>1. o # r
      BY <1>1, <2>1, CallFields DEF AllOps, SaleOps, MaterialOps
    <3>2. call[o] = d
      BY <1>1, <2>1, <3>1
    <3>3. d.op = "updateProductionStatus" =>
            /\ bom' = bom /\ SnapshotsOf(snapshots', d.sale) = SnapshotsOf(snapshots, d.sale)
            /\ \A l \in Lines : lines'[<<d.sale, l>>] = lines[<<d.sale, l>>]
      BY <3>1, <3>2, CommitSpares DEF SaleOps
    <3> QED
      BY <3>2, <3>3, TouchesStay
  <2> QED
    BY <2>1 DEF Alone, Apart
<1> QED
  BY <1>1, <1>2, <1>3, CommitLone DEF Alone

LEMMA InitAlone == Init => Alone
<1> SUFFICES ASSUME Init PROVE Alone
  OBVIOUS
<1>1. ASSUME NEW r \in Requests
      PROVE  Lone(r) /\ call[r] \notin Calls
  <2>1. /\ pc[r] = "idle" /\ call[r] = NoCall /\ seen[r] = NothingSeen /\ writes[r] = NoWrites
        /\ call[r].op = "none"
    BY NoCallFields DEF Init
  <2>2. LinesSlot(r) /\ BomSlot(r)
    BY <2>1, NothingTyped DEF LinesSlot, BomSlot, EditsLine, Creates
  <2>3. BoundSlot(r) /\ DueSlot(r)
    BY <2>1 DEF BoundSlot, DueSlot, Debits
  <2> QED
    BY <2>1, <2>2, <2>3, NothingTyped, CallFields DEF Lone, AllOps, SaleOps, MaterialOps
<1>2. Apart
  BY <1>1 DEF Apart
<1> QED
  BY <1>1, <1>2 DEF Alone, Init

LEMMA StepAlone ==
  ASSUME ~ ConflictsAllowed, Inv, Alone, [Next]_vars
  PROVE  Alone'
<1>1. CASE UNCHANGED vars
  <2>1. /\ stock' = stock /\ bom' = bom /\ lines' = lines /\ ledger' = ledger
        /\ snapshots' = snapshots /\ call' = call /\ overtaken' = overtaken
        /\ pc' = pc /\ seen' = seen /\ writes' = writes
    BY <1>1 DEF vars, database
  <2>2. \A o \in Requests : Lone(o)'
    BY <2>1, LoneStays DEF Alone
  <2>3. \A c \in Calls : Touches(c)' = Touches(c)
    BY <2>1, TouchesStay
  <2>4. Apart'
    BY <2>1, <2>3 DEF Alone, Apart
  <2> QED
    BY <2>1, <2>2, <2>4 DEF Alone
<1> QED
  BY <1>1, StepsOfSlots, LocalKeepsAlone, CommitKeepsAlone

-----------------------------------------------------------------------------
(* A commit is one handler of StockControl.                                *)

\* What StockControl sees of the snapshot rows.
HeldRows == [s \in Sales |-> [m \in Materials |-> Held(s, m)]]

\* What a commit leaves alone, and what it writes of its sale.
LEMMA CommitLeaves ==
  ASSUME Inv, Alone, NEW r \in Requests, Commit(r)
  PROVE  /\ ~ MovesMaterial(r) /\ ~ Debits(r) /\ ~ Reverses(r) =>
              stock' = stock /\ snapshots' = snapshots
         /\ ~ MovesMaterial(r) => ledger' = ledger
         /\ ~ SavesSale(r) => sale' = sale
         /\ SavesSale(r) =>
              sale' = [sale EXCEPT ![call[r].sale] =
                         IF Creates(r) THEN NewSale ELSE SaleSaved(call[r], sale[call[r].sale])]
         /\ ~ EditsLine(r) /\ ~ Creates(r) => lines' = lines
         /\ call[r].op # "replaceBillOfMaterials" => bom' = bom
<1>1. /\ Typed /\ Slot(r) /\ pc[r] = "commit" /\ call[r] \in Calls /\ Lone(r)
      /\ stock' \in [Materials -> Nat] /\ sale' \in [Sales -> SaleRow \cup {NoSale}]
      /\ bom' \in [Products -> Recipes] /\ lines' \in [Sales \X Lines -> SaleItem \cup {NoItem}]
  BY Committed DEF Alone
<1>2. /\ stock \in [Materials -> Nat] /\ sale \in [Sales -> SaleRow \cup {NoSale}]
      /\ bom \in [Products -> Recipes] /\ lines \in [Sales \X Lines -> SaleItem \cup {NoItem}]
      /\ ledger \in [Materials -> Int]
  BY <1>1 DEF Typed
<1>3. ASSUME ~ MovesMaterial(r), ~ Debits(r), ~ Reverses(r)
      PROVE  stock' = stock /\ snapshots' = snapshots
  <2>1. DOMAIN writes[r].stock = {} /\ writes[r].added = {} /\ writes[r].removed = {}
    BY <1>1, <1>3 DEF Slot, Bystander
  <2>2. \A m \in Materials : stock'[m] = stock[m]
    BY <2>1, Committed
  <2>3. snapshots' = snapshots
    BY <2>1, Committed
  <2> QED
    BY <1>1, <1>2, <2>2, <2>3
<1>4. ASSUME ~ MovesMaterial(r)
      PROVE  ledger' = ledger
  <2>1. \A m \in Materials : ledger'[m] = ledger[m]
    BY <1>4, OthersEnterNothing
  <2>2. ledger' = [m \in Materials |-> ledger'[m]]
    BY DEF Commit
  <2> QED
    BY <1>2, <2>1, <2>2
<1>5. ASSUME ~ SavesSale(r)
      PROVE  sale' = sale
  <2>1. \A s \in Sales : sale'[s] = sale[s]
    BY <1>5, Committed, CommittedRows
  <2> QED
    BY <1>1, <1>2, <2>1
<1>6. ASSUME SavesSale(r)
      PROVE  sale' = [sale EXCEPT ![call[r].sale] =
                        IF Creates(r) THEN NewSale ELSE SaleSaved(call[r], sale[call[r].sale])]
  <2>1. /\ DOMAIN writes[r].sale = {call[r].sale} /\ call[r].sale \in Sales
        /\ writes[r].sale[call[r].sale]
             = IF Creates(r) THEN NewSale ELSE SaleSaved(call[r], seen[r].sale)
    BY <1>6, CommittedRows
  <2>2. ~ Creates(r) => seen[r].sale = sale[call[r].sale]
    BY <1>1, <1>6 DEF Slot, Knows, Changes, Creates, SavesSale, SaleOps, Lone
  <2> DEFINE row == IF Creates(r) THEN NewSale ELSE SaleSaved(call[r], sale[call[r].sale])
  <2>3. writes[r].sale[call[r].sale] = row
    BY <2>1, <2>2
  <2> HIDE DEF row
  <2>4. \A s \in Sales : sale'[s] = IF s = call[r].sale THEN row ELSE sale[s]
    BY <2>1, <2>3, Committed
  <2>5. sale' = [sale EXCEPT ![call[r].sale] = row]
    BY <1>1, <1>2, <2>4
  <2> QED
    BY <2>5 DEF row
<1>7. ASSUME ~ EditsLine(r), ~ Creates(r)
      PROVE  lines' = lines
  <2>1. DOMAIN writes[r].lines = {}
    BY <1>1, <1>7 DEF Lone, LinesSlot
  <2>2. \A sl \in Sales \X Lines : lines'[sl] = lines[sl]
    BY <2>1, CommittedTables
  <2> QED
    BY <1>1, <1>2, <2>2
<1>8. ASSUME call[r].op # "replaceBillOfMaterials"
      PROVE  bom' = bom
  <2>1. DOMAIN writes[r].bom = {}
    BY <1>1, <1>8 DEF Lone, BomSlot
  <2>2. \A p \in Products : bom'[p] = bom[p]
    BY <2>1, CommittedTables
  <2> QED
    BY <1>1, <1>2, <2>2
<1> QED
  BY <1>3, <1>4, <1>5, <1>6, <1>7, <1>8

LEMMA HeldRowsStay ==
  ASSUME snapshots' = snapshots
  PROVE  HeldRows' = HeldRows
BY DEF HeldRows, Held

LEMMA HeldRowsIn ==
  /\ HeldRows = [s \in Sales |-> [m \in Materials |-> HeldIn(snapshots, s, m)]]
  /\ HeldRows' = [s \in Sales |-> [m \in Materials |-> HeldIn(snapshots', s, m)]]
BY DEF HeldRows, Held, HeldIn, Mine

\* What a handler that changes a sale knows of it when it commits.
LEMMA CommitKnows ==
  ASSUME Inv, Alone, NEW r \in Requests, Commit(r), Changes(r)
  PROVE  /\ call[r] \in Calls /\ call[r].sale \in Sales
         /\ sale[call[r].sale] \in SaleRow /\ seen[r].sale = sale[call[r].sale]
         /\ sale[call[r].sale] # NoSale
<1>1. Typed /\ Slot(r) /\ pc[r] = "commit" /\ call[r] \in Calls /\ Lone(r)
  BY Committed DEF Alone
<1>2. call[r].sale \in Sales
  BY <1>1, CallFields DEF Changes, SaleOps
<1>3. sale[call[r].sale] # NoSale /\ seen[r].sale = sale[call[r].sale]
  BY <1>1 DEF Slot, Knows, Lone
<1> QED
  BY <1>1, <1>2, <1>3 DEF Typed

LEMMA CreateSaleSerial ==
  ASSUME Inv, Alone, NEW r \in Requests, Commit(r), call[r].op = "createSale"
  PROVE  Serial!Next
<1> DEFINE s == call[r].sale
           items == call[r].items
<1>1. Typed /\ Slot(r) /\ pc[r] = "commit" /\ call[r] \in Calls /\ Lone(r)
  BY Committed DEF Alone
<1>2. /\ Creates(r) /\ SavesSale(r) /\ ~ MovesMaterial(r) /\ ~ Debits(r) /\ ~ Reverses(r)
  BY DEF Creates, SavesSale, MovesMaterial, MaterialOps, Debits, Reverses
<1>3. s \in Sales /\ items \in Baskets
  BY <1>1, CallFields DEF SaleOps
<1>4. sale[s] = NoSale
  BY <1>1, <1>2 DEF Slot, Knows
<1>5. sale' = [sale EXCEPT ![s] = NewSale]
  BY <1>2, CommitLeaves
<1>6. stock' = stock /\ snapshots' = snapshots /\ ledger' = ledger /\ bom' = bom
  BY <1>2, CommitLeaves
<1>7. HeldRows' = HeldRows
  BY <1>6, HeldRowsStay
<1>8. lines' = [sl \in Sales \X Lines |-> IF sl[1] = s THEN items[sl[2]] ELSE lines[sl]]
  <2>1. writes[r].lines = [sl \in {s} \X Lines |-> items[sl[2]]]
    BY <1>1, <1>2 DEF Lone, LinesSlot
  <2>2. \A sl \in Sales \X Lines : lines'[sl] = IF sl[1] = s THEN items[sl[2]] ELSE lines[sl]
    BY <2>1, CommittedTables
  <2>3. lines' \in [Sales \X Lines -> SaleItem \cup {NoItem}]
    BY Committed
  <2> QED
    BY <2>2, <2>3
<1>9. Serial!CreateSale(s, items)
  BY <1>4, <1>5, <1>6, <1>7, <1>8, SameAsSerial DEF Serial!CreateSale, HeldRows
<1> QED
  BY <1>3, <1>9, SameAsSerial DEF Serial!Next, Serial!SaleStep

LEMMA EditLineSerial ==
  ASSUME Inv, Alone, NEW r \in Requests, Commit(r), EditsLine(r)
  PROVE  Serial!Next
<1> DEFINE s == call[r].sale
           l == call[r].line
           c == call[r]
<1>1. Typed /\ Slot(r) /\ pc[r] = "commit" /\ call[r] \in Calls /\ Lone(r)
  BY Committed DEF Alone
<1>2. /\ ~ Creates(r) /\ ~ SavesSale(r) /\ Changes(r)
      /\ ~ MovesMaterial(r) /\ ~ Debits(r) /\ ~ Reverses(r) /\ c.op # "replaceBillOfMaterials"
  BY DEF EditsLine, Creates, SavesSale, Changes, MovesMaterial, MaterialOps, Debits, Reverses, SaleOps
<1>3. s \in Sales /\ l \in Lines /\ Editable(sale[s])
  <2>1. Editable(seen[r].sale)
    BY <1>1 DEF Lone, LinesSlot
  <2>2. l \in Lines
    BY <1>1, CallFields DEF EditsLine
  <2> QED
    BY <1>2, <2>1, <2>2, CommitKnows
<1>4. stock' = stock /\ snapshots' = snapshots /\ ledger' = ledger /\ bom' = bom /\ sale' = sale
  BY <1>2, CommitLeaves
<1>5. HeldRows' = HeldRows
  BY <1>4, HeldRowsStay
<1>6. /\ lines' = [lines EXCEPT ![<<s, l>>] = ItemSaved(c, lines[<<s, l>>])]
      /\ c.op = "addItem" => lines[<<s, l>>] = NoItem
      /\ c.op # "addItem" => lines[<<s, l>>] # NoItem
  <2> DEFINE item == ItemSaved(c, lines[<<s, l>>])
  <2>1. /\ DOMAIN writes[r].lines = {<<s, l>>} /\ writes[r].lines[<<s, l>>] = item
        /\ c.op = "addItem" => lines[<<s, l>>] = NoItem
        /\ c.op # "addItem" => lines[<<s, l>>] # NoItem
    BY <1>1 DEF Lone, LinesSlot, LineOf
  <2> HIDE DEF item
  <2>2. \A sl \in Sales \X Lines : lines'[sl] = IF sl = <<s, l>> THEN item ELSE lines[sl]
    BY <2>1, CommittedTables
  <2>3. /\ lines' \in [Sales \X Lines -> SaleItem \cup {NoItem}]
        /\ lines \in [Sales \X Lines -> SaleItem \cup {NoItem}]
    BY <1>1, Committed DEF Typed
  <2>4. lines' = [lines EXCEPT ![<<s, l>>] = item]
    BY <2>2, <2>3
  <2> QED
    BY <2>1, <2>4 DEF item
<1>7. CASE c.op = "addItem"
  <2>1. c.item \in SaleItem
    BY <1>1, <1>7, CallFields
  <2>2. Serial!AddItem(s, l, c.item)
    BY <1>3, <1>4, <1>5, <1>6, <1>7, SameAsSerial DEF Serial!AddItem, HeldRows, ItemSaved
  <2> QED
    BY <1>3, <2>1, <2>2, SameAsSerial DEF Serial!Next, Serial!SaleStep
<1>8. CASE c.op = "removeItem"
  <2>1. Serial!RemoveItem(s, l)
    BY <1>3, <1>4, <1>5, <1>6, <1>8, SameAsSerial DEF Serial!RemoveItem, HeldRows, ItemSaved
  <2> QED
    BY <1>3, <2>1, SameAsSerial DEF Serial!Next, Serial!SaleStep
<1>9. CASE c.op = "updateItemQuantity"
  <2>1. c.quantity \in Quantities
    BY <1>1, <1>9, CallFields
  <2>2. Serial!UpdateItemQuantity(s, l, c.quantity)
    BY <1>3, <1>4, <1>5, <1>6, <1>9, SameAsSerial DEF Serial!UpdateItemQuantity, HeldRows, ItemSaved
  <2> QED
    BY <1>3, <2>1, <2>2 DEF Serial!Next, Serial!SaleStep
<1> QED
  BY <1>7, <1>8, <1>9 DEF EditsLine

LEMMA UpdatePaymentSerial ==
  ASSUME Inv, Alone, NEW r \in Requests, Commit(r),
         call[r].op \in {"updateDetails", "updatePaymentStatus"}
  PROVE  Serial!Next \/ UNCHANGED Serial!vars
<1> DEFINE s == call[r].sale
           c == call[r]
<1>1. /\ ~ Creates(r) /\ ~ EditsLine(r) /\ SavesSale(r) /\ Changes(r) /\ ~ MovesMaterial(r)
      /\ ~ Debits(r) /\ ~ Reverses(r) /\ c.op # "replaceBillOfMaterials"
  BY DEF EditsLine, Creates, SavesSale, Changes, MovesMaterial, MaterialOps, Debits, Reverses, SaleOps
<1>2. c \in Calls /\ s \in Sales /\ sale[s] # NoSale
  BY <1>1, CommitKnows
<1>3. stock' = stock /\ snapshots' = snapshots /\ ledger' = ledger /\ bom' = bom /\ lines' = lines
  BY <1>1, CommitLeaves
<1>4. HeldRows' = HeldRows
  BY <1>3, HeldRowsStay
<1>5. sale' = [sale EXCEPT ![s] = SaleSaved(c, sale[s])]
  BY <1>1, CommitLeaves
<1>6. CASE c.op = "updateDetails"
  <2>1. sale' = sale
    <3>1. sale' = [sale EXCEPT ![s] = sale[s]]
      BY <1>5, <1>6 DEF SaleSaved
    <3>2. sale \in [Sales -> SaleRow \cup {NoSale}]
      BY DEF Inv, Typed
    <3> QED
      BY <3>1, <3>2
  <2> QED
    BY <1>3, <1>4, <2>1 DEF Serial!vars, HeldRows
<1>7. CASE c.op = "updatePaymentStatus"
  <2>1. c.status \in PaymentStatus
    BY <1>2, <1>7, CallFields
  <2>2. Serial!UpdatePaymentStatus(s, c.status)
    BY <1>2, <1>3, <1>4, <1>5, <1>7, SameAsSerial DEF Serial!UpdatePaymentStatus, HeldRows, SaleSaved
  <2> QED
    BY <1>2, <2>1, <2>2, SameAsSerial DEF Serial!Next, Serial!SaleStep
<1> QED
  BY <1>6, <1>7

\* A debit takes what is due of every material, and its rows say so.
LEMMA DebitSerial ==
  ASSUME Inv, Alone, NEW r \in Requests, Commit(r), Debits(r)
  PROVE  ~ Serial!HasSnapshots(call[r].sale) /\ Serial!DebitStock(call[r].sale)
<1> DEFINE s == call[r].sale
<1>1. /\ Typed /\ Slot(r) /\ pc[r] = "commit" /\ call[r] \in Calls /\ Lone(r) /\ Changes(r)
      /\ seen[r].late = {} /\ overtaken = {} /\ DebitSlot(r) /\ DueSlot(r)
  BY Committed DEF Alone, Lone, Slot, Debits, Changes, SaleOps
<1>2. s \in Sales /\ sale[s].production = "PENDING"
  BY <1>1, CommitKnows DEF Debits
<1>3. SnapshotsOf(snapshots, s) = {}
  BY <1>1, <1>2 DEF Inv, SnapshotsFitTheSaleUnlessRaced, SnapshotsOf
<1>4. ASSUME NEW m \in Materials
      PROVE  HeldIn(snapshots, s, m) = 0
  <2>1. Mine(snapshots, s, m) = {}
    BY <1>3 DEF Mine, SnapshotsOf
  <2> QED
    BY <2>1, HeldNone
<1>5. snapshots' = snapshots \cup writes[r].added
  BY <1>1, Committed DEF DebitSlot
<1>6. ASSUME NEW m \in Materials
      PROVE  stock'[m] = stock[m] - Due(r, m) /\ HeldIn(snapshots', s, m) = Due(r, m)
  <2>1. CASE m \in DOMAIN writes[r].stock
    <3>1. PICK x \in writes[r].added : x.material = m /\ writes[r].stock[m] = stock[m] - x.quantity
      BY <1>1, <2>1 DEF DebitSlot
    <3>2. x.quantity = Due(r, m) /\ x.quantity \in Nat
      <4>1. x \in Snapshot
        BY Committed, OwnFields
      <4> QED
        BY <1>1, <3>1, <4>1, SnapshotFields DEF DueSlot
    <3>3. Mine(snapshots', s, m) = {x}
      <4>1. \A y \in writes[r].added : y.sale = s /\ (y.material = m => y = x)
        BY <1>1, <3>1 DEF DebitSlot
      <4> QED
        BY <1>3, <1>5, <3>1, <4>1 DEF Mine, SnapshotsOf
    <3>4. HeldIn(snapshots', s, m) = Due(r, m)
      BY <3>2, <3>3, HeldOne
    <3>5. stock'[m] = writes[r].stock[m]
      BY <2>1, Committed
    <3> QED
      BY <3>1, <3>2, <3>4, <3>5
  <2>2. CASE m \notin DOMAIN writes[r].stock
    <3>1. Due(r, m) = 0
      BY <1>1, <2>2 DEF DueSlot, ToDebit
    <3>2. Mine(snapshots', s, m) = {}
      <4>1. \A y \in writes[r].added : y.material # m
        BY <1>1, <2>2 DEF DebitSlot
      <4> QED
        BY <1>3, <1>5, <4>1 DEF Mine, SnapshotsOf
    <3>3. HeldIn(snapshots', s, m) = 0
      BY <3>2, HeldNone
    <3>4. stock'[m] = stock[m] /\ stock[m] \in Nat
      BY <1>1, <2>2, Committed DEF Typed
    <3> QED
      BY <3>1, <3>3, <3>4
  <2> QED
    BY <2>1, <2>2
<1>7. ASSUME NEW t \in Sales \ {s}, NEW m \in Materials
      PROVE  HeldIn(snapshots', t, m) = HeldIn(snapshots, t, m)
  <2>1. \A y \in writes[r].added : y.sale = s
    BY <1>1 DEF DebitSlot
  <2>2. Mine(snapshots', t, m) = Mine(snapshots, t, m)
    BY <1>5, <2>1 DEF Mine
  <2> QED
    BY <2>2 DEF HeldIn
<1>8. stock' = [m \in Materials |-> stock[m] - Due(r, m)]
  <2>1. stock' \in [Materials -> Nat]
    BY Committed
  <2> QED
    BY <1>6, <2>1
<1>9. HeldRows' = [HeldRows EXCEPT ![s] = [m \in Materials |-> Due(r, m)]]
  <2> DEFINE after(t) == [m \in Materials |-> HeldIn(snapshots', t, m)]
             before(t) == [m \in Materials |-> HeldIn(snapshots, t, m)]
             moved == [m \in Materials |-> Due(r, m)]
  <2>1. HeldRows' = [t \in Sales |-> after(t)] /\ HeldRows = [t \in Sales |-> before(t)]
    BY HeldRowsIn
  <2>2. after(s) = moved
    BY <1>6
  <2>3. \A t \in Sales \ {s} : after(t) = before(t)
    BY <1>7
  <2> HIDE DEF after, before, moved
  <2>4. HeldRows' = [HeldRows EXCEPT ![s] = moved]
    BY <1>2, <2>1, <2>2, <2>3
  <2> QED
    BY <2>4 DEF moved
<1>10. \A m \in Materials : Due(r, m) = Serial!DebitOf(s, m)
  BY SameAsSerial DEF Due, NeedOf, Serial!DebitOf
<1>11. [m \in Materials |-> Due(r, m)] = [m \in Materials |-> Serial!DebitOf(s, m)]
  BY <1>10
<1>12. [m \in Materials |-> stock[m] - Due(r, m)]
         = [m \in Materials |-> stock[m] - Serial!DebitOf(s, m)]
  BY <1>10
<1>13. Serial!DebitStock(s)
  BY <1>8, <1>9, <1>11, <1>12 DEF Serial!DebitStock, HeldRows
<1>14. ~ Serial!HasSnapshots(s)
  <2>1. ASSUME NEW m \in Materials
        PROVE  ~ (HeldRows[s][m] > 0)
    <3>1. HeldRows[s][m] = 0
      BY <1>2, <1>4, HeldRowsIn
    <3> QED
      BY <3>1
  <2> QED
    BY <2>1, Zenon DEF Serial!HasSnapshots, HeldRows
<1> QED
  BY <1>13, <1>14

\* A reversal gives back what the rows of its sale hold, and deletes them.
LEMMA ReversalSerial ==
  ASSUME Inv, Alone, NEW r \in Requests, Commit(r), Reverses(r)
  PROVE  Serial!ReverseStockDebit(call[r].sale)
<1> DEFINE s == call[r].sale
<1>1. /\ Typed /\ Slot(r) /\ pc[r] = "commit" /\ Changes(r) /\ SalesUntouched
      /\ seen[r].late = {} /\ overtaken = {} /\ ReverseSlot(r)
  BY Committed DEF Alone, Lone, Slot, Reverses, Changes, SaleOps, SalesUntouched
<1>2. s \in Sales
  BY <1>1, CommitKnows
<1>3. writes[r].added = {} /\ writes[r].removed = RowsOf(r) /\ Returned(r)
  BY <1>1 DEF ReverseSlot
<1>4. snapshots' = snapshots \ RowsOf(r)
  BY <1>3, Committed
<1>5. /\ DOMAIN writes[r].stock = {x.material : x \in RowsOf(r)}
      /\ \A x \in RowsOf(r) : writes[r].stock[x.material] = stock[x.material] + x.quantity
  BY <1>1, <1>3 DEF Returned, Rest
<1>6. ASSUME NEW m \in Materials
      PROVE  stock'[m] = stock[m] + HeldIn(snapshots, s, m) /\ HeldIn(snapshots', s, m) = 0
  <2>1. HeldIn(snapshots', s, m) = 0
    <3>1. Mine(snapshots', s, m) = {}
      BY <1>4 DEF Mine, RowsOf, SnapshotsOf
    <3> QED
      BY <3>1, HeldNone
  <2>2. CASE m \in DOMAIN writes[r].stock
    <3>1. PICK x \in RowsOf(r) : x.material = m
      BY <1>5, <2>2
    <3>2. x \in snapshots /\ x.sale = s /\ x.quantity \in Nat
      BY <1>1, <3>1, SnapshotFields DEF RowsOf, SnapshotsOf, Typed
    <3>3. Mine(snapshots, s, m) = {x}
      <4>1. \A y \in Mine(snapshots, s, m) : y = x
        BY <1>1, <3>1, <3>2, OneRow DEF Mine
      <4> QED
        BY <3>1, <3>2, <4>1 DEF Mine
    <3>4. HeldIn(snapshots, s, m) = x.quantity
      BY <3>2, <3>3, HeldOne
    <3>5. stock'[m] = stock[m] + x.quantity
      BY <1>5, <2>2, <3>1, Committed
    <3> QED
      BY <2>1, <3>4, <3>5
  <2>3. CASE m \notin DOMAIN writes[r].stock
    <3>1. Mine(snapshots, s, m) = {}
      BY <1>5, <2>3 DEF Mine, RowsOf, SnapshotsOf
    <3>2. HeldIn(snapshots, s, m) = 0
      BY <3>1, HeldNone
    <3>3. stock'[m] = stock[m] /\ stock[m] \in Nat
      BY <1>1, <2>3, Committed DEF Typed
    <3> QED
      BY <2>1, <3>2, <3>3
  <2> QED
    BY <2>2, <2>3
<1>7. ASSUME NEW t \in Sales \ {s}, NEW m \in Materials
      PROVE  HeldIn(snapshots', t, m) = HeldIn(snapshots, t, m)
  <2>1. Mine(snapshots', t, m) = Mine(snapshots, t, m)
    BY <1>4 DEF Mine, RowsOf, SnapshotsOf
  <2> QED
    BY <2>1 DEF HeldIn
<1>8. stock' = [m \in Materials |-> stock[m] + HeldRows[s][m]]
  <2>1. stock' \in [Materials -> Nat]
    BY Committed
  <2>2. \A m \in Materials : HeldRows[s][m] = HeldIn(snapshots, s, m)
    BY <1>2, HeldRowsIn
  <2> QED
    BY <1>6, <2>1, <2>2
<1>9. HeldRows' = [HeldRows EXCEPT ![s] = [m \in Materials |-> 0]]
  <2> DEFINE after(t) == [m \in Materials |-> HeldIn(snapshots', t, m)]
             before(t) == [m \in Materials |-> HeldIn(snapshots, t, m)]
             moved == [m \in Materials |-> 0]
  <2>1. HeldRows' = [t \in Sales |-> after(t)] /\ HeldRows = [t \in Sales |-> before(t)]
    BY HeldRowsIn
  <2>2. after(s) = moved
    BY <1>6
  <2>3. \A t \in Sales \ {s} : after(t) = before(t)
    BY <1>7
  <2> HIDE DEF after, before, moved
  <2>4. HeldRows' = [HeldRows EXCEPT ![s] = moved]
    BY <1>2, <2>1, <2>2, <2>3
  <2> QED
    BY <2>4 DEF moved
<1> QED
  BY <1>8, <1>9 DEF Serial!ReverseStockDebit, HeldRows

LEMMA UpdateProductionSerial ==
  ASSUME Inv, Alone, NEW r \in Requests, Commit(r), call[r].op = "updateProductionStatus"
  PROVE  Serial!Next
<1> DEFINE s == call[r].sale
           c == call[r]
<1>1. /\ ~ Creates(r) /\ ~ EditsLine(r) /\ SavesSale(r) /\ Changes(r) /\ ~ MovesMaterial(r)
      /\ c.op # "replaceBillOfMaterials"
  BY DEF EditsLine, Creates, SavesSale, Changes, MovesMaterial, MaterialOps, SaleOps
<1>2. /\ c \in Calls /\ s \in Sales /\ sale[s] # NoSale
      /\ sale[s] \in SaleRow /\ seen[r].sale = sale[s]
  BY <1>1, CommitKnows
<1>3. c.status \in ProductionStatus /\ sale[s].production \in ProductionStatus
  BY <1>2, CallFields, RequestsAssumption, SaleRowFields
<1>4. ledger' = ledger /\ bom' = bom /\ lines' = lines
  BY <1>1, CommitLeaves
<1>5. sale' = [sale EXCEPT ![s].production = c.status]
  <2>1. sale' = [sale EXCEPT ![s] = SaleSaved(c, sale[s])]
    BY <1>1, CommitLeaves
  <2> QED
    BY <2>1 DEF SaleSaved
<1> DEFINE Moves ==
             \/ /\ sale[s].production # "PENDING" /\ c.status = "PENDING"
                /\ Serial!ReverseStockDebit(s)
             \/ /\ sale[s].production = "PENDING" /\ c.status # "PENDING"
                /\ ~ Serial!HasSnapshots(s) /\ Serial!DebitStock(s)
             \/ /\ (sale[s].production = "PENDING") = (c.status = "PENDING")
                /\ stock' = stock /\ HeldRows' = HeldRows
<1>6. Moves
  <2>1. CASE Debits(r)
    BY <1>2, <2>1, DebitSerial DEF Debits
  <2>2. CASE Reverses(r)
    BY <1>2, <2>2, ReversalSerial DEF Reverses
  <2>3. CASE ~ Debits(r) /\ ~ Reverses(r)
    <3>1. stock' = stock /\ HeldRows' = HeldRows
      BY <1>1, <2>3, CommitLeaves, HeldRowsStay
    <3>2. (sale[s].production = "PENDING") = (c.status = "PENDING")
      BY <1>2, <1>3, <2>3 DEF Debits, Reverses, ProductionStatus
    <3> QED
      BY <3>1, <3>2
  <2> QED
    BY <2>1, <2>2, <2>3
<1>7. Serial!UpdateProductionStatus(s, c.status)
  <2>1. sale[s] # Serial!NoSale
    BY <1>2, SameAsSerial
  <2> QED
    BY <1>4, <1>5, <1>6, <2>1 DEF Serial!UpdateProductionStatus, HeldRows
<1> QED
  BY <1>2, <1>3, <1>7, SameAsSerial DEF Serial!Next, Serial!SaleStep

LEMMA MaterialQuantities ==
  ASSUME NEW c \in Calls
  PROVE  /\ c.op \in {"receiveStock", "recordLoss"} => c.quantity \in Quantities
         /\ c.op = "countStock" => c.quantity \in Quantities \cup {0}
<1>1. c.op \in {"receiveStock", "recordLoss"} => c \in MaterialCalls
  BY CallFields DEF MaterialOps
<1>2. c.op \in {"receiveStock", "recordLoss"} => c.quantity \in Quantities
  BY <1>1 DEF MaterialCalls
<1> QED
  BY <1>2, CallFields DEF MaterialOps

\* A handler of a material moves its balance and its ledger, nothing else.
LEMMA MaterialMoved ==
  ASSUME Inv, Alone, NEW r \in Requests, Commit(r), MovesMaterial(r)
  PROVE  /\ call[r] \in Calls /\ call[r].material \in Materials
         /\ StockSaved(call[r], stock[call[r].material]) \in Nat
         /\ stock' = [stock EXCEPT ![call[r].material] = StockSaved(call[r], stock[call[r].material])]
         /\ ledger' = [ledger EXCEPT ![call[r].material] =
                         ledger[call[r].material] + Entered(call[r], call[r].material)]
         /\ HeldRows' = HeldRows /\ sale' = sale /\ lines' = lines /\ bom' = bom
<1> DEFINE c == call[r]
           m == c.material
<1>1. /\ Typed /\ Slot(r) /\ pc[r] = "commit" /\ c \in Calls /\ Lone(r) /\ writes[r] \in Own
      /\ stock' \in [Materials -> Nat]
  BY Committed DEF Alone
<1>2. /\ ~ Creates(r) /\ ~ EditsLine(r) /\ ~ SavesSale(r) /\ c.op # "replaceBillOfMaterials"
      /\ c.op \in MaterialOps /\ m \in Materials
  BY <1>1, CallFields DEF EditsLine, Creates, SavesSale, MovesMaterial, MaterialOps
<1>3. sale' = sale /\ lines' = lines /\ bom' = bom
  BY <1>2, CommitLeaves
<1>4. /\ writes[r].added = {} /\ writes[r].removed = {}
      /\ DOMAIN writes[r].stock = {m} /\ writes[r].stock[m] = StockSaved(c, stock[m])
  BY <1>1 DEF Slot, MaterialSlot, Lone
<1>5. HeldRows' = HeldRows
  <2>1. snapshots' = (snapshots \cup writes[r].added) \ writes[r].removed
    BY Committed
  <2>2. snapshots' = snapshots
    BY <1>4, <2>1
  <2> QED
    BY <2>2, HeldRowsStay
<1>6. StockSaved(c, stock[m]) \in Nat
  <2>1. writes[r].stock \in Partial(Materials, Nat)
    BY <1>1, OwnFields
  <2> QED
    BY <1>4, <2>1, PartialFacts
<1> DEFINE new == StockSaved(c, stock[m])
<1>7. stock' = [stock EXCEPT ![m] = new]
  <2> HIDE DEF new
  <2>1. \A n \in Materials : stock'[n] = IF n = m THEN new ELSE stock[n]
    BY <1>4, Committed DEF new
  <2>2. stock \in [Materials -> Nat]
    BY <1>1 DEF Typed
  <2> QED
    BY <1>1, <1>2, <2>1, <2>2
<1>8. ledger' = [ledger EXCEPT ![m] = ledger[m] + Entered(c, m)]
  <2>1. ledger \in [Materials -> Int]
    BY <1>1 DEF Typed
  <2>2. \A n \in Materials : n # m => Entered(c, n) = 0
    BY DEF Entered
  <2>3. ledger' = [n \in Materials |-> ledger[n] + Entered(c, n)]
    BY DEF Commit
  <2>4. \A n \in Materials : n # m => ledger'[n] = ledger[n]
    BY <2>1, <2>2, <2>3
  <2>5. ledger'[m] = ledger[m] + Entered(c, m)
    BY <1>2, <2>3
  <2> QED
    BY <2>1, <2>3, <2>4, <2>5
<1> QED
  BY <1>1, <1>2, <1>3, <1>5, <1>6, <1>7, <1>8

LEMMA MaterialSerial ==
  ASSUME Inv, Alone, NEW r \in Requests, Commit(r), MovesMaterial(r)
  PROVE  Serial!Next \/ UNCHANGED Serial!vars
<1> DEFINE c == call[r]
           m == c.material
           q == c.quantity
<1>1. /\ c \in Calls /\ m \in Materials /\ StockSaved(c, stock[m]) \in Nat
      /\ stock' = [stock EXCEPT ![m] = StockSaved(c, stock[m])]
      /\ ledger' = [ledger EXCEPT ![m] = ledger[m] + Entered(c, m)]
      /\ HeldRows' = HeldRows /\ sale' = sale /\ lines' = lines /\ bom' = bom
  BY MaterialMoved
<1>2. /\ stock \in [Materials -> Nat] /\ ledger \in [Materials -> Int] /\ BoundSlot(r)
  BY DEF Inv, Typed, Alone, Lone
<1>3. c.op \in MaterialOps /\ c \in MaterialCalls
  BY <1>1, CallFields DEF MovesMaterial
<1>4. /\ c.op \in {"receiveStock", "recordLoss"} => q \in Quantities
      /\ c.op = "countStock" => q \in Quantities \cup {0}
      /\ c.op # "editMaterial" => q \in Nat
  BY <1>1, <1>3, MaterialQuantities, QuantityIsNat
<1>5. CASE c.op = "receiveStock"
  <2>1. /\ ledger[m] + q <= MaxHeld
        /\ stock' = [stock EXCEPT ![m] = stock[m] + q]
        /\ ledger' = [ledger EXCEPT ![m] = ledger[m] + q]
    BY <1>1, <1>2, <1>3, <1>5 DEF BoundSlot, StockSaved, Entered
  <2>2. Serial!ReceiveStock(m, q)
    BY <1>1, <2>1 DEF Serial!ReceiveStock, HeldRows
  <2> QED
    BY <1>1, <1>4, <1>5, <2>2 DEF Serial!Next, Serial!MaterialStep
<1>6. CASE c.op = "countStock"
  <2>1. /\ ledger[m] + q - stock[m] <= MaxHeld
        /\ stock' = [stock EXCEPT ![m] = q]
        /\ ledger' = [ledger EXCEPT ![m] = ledger[m] + (q - stock[m])]
    BY <1>1, <1>2, <1>3, <1>6 DEF BoundSlot, StockSaved, Entered
  <2>2. ledger[m] + (q - stock[m]) = ledger[m] + q - stock[m]
    <3>1. ledger[m] \in Int /\ stock[m] \in Nat /\ q \in Nat
      BY <1>1, <1>2, <1>4, <1>6
    <3> QED
      BY <3>1
  <2>3. ledger' = [ledger EXCEPT ![m] = ledger[m] + q - stock[m]]
    BY <2>1, <2>2
  <2>4. Serial!CountStock(m, q)
    BY <1>1, <2>1, <2>3 DEF Serial!CountStock, HeldRows
  <2> QED
    BY <1>1, <1>4, <1>6, <2>4 DEF Serial!Next, Serial!MaterialStep
<1>7. CASE c.op = "recordLoss"
  <2>1. stock[m] \in Nat /\ ledger[m] \in Int /\ q \in Nat /\ stock[m] - q \in Nat
    BY <1>1, <1>2, <1>4, <1>7 DEF StockSaved
  <2>2. q <= stock[m]
    BY <2>1
  <2>3. ledger[m] + Entered(c, m) = ledger[m] - q
    BY <1>3, <1>7, <2>1 DEF Entered
  <2>4. /\ stock' = [stock EXCEPT ![m] = stock[m] - q]
        /\ ledger' = [ledger EXCEPT ![m] = ledger[m] - q]
    BY <1>1, <1>7, <2>3 DEF StockSaved
  <2>5. Serial!RecordLoss(m, q)
    BY <1>1, <2>2, <2>4 DEF Serial!RecordLoss, HeldRows
  <2> QED
    BY <1>1, <1>4, <1>7, <2>5 DEF Serial!Next, Serial!MaterialStep
<1>8. CASE c.op = "editMaterial"
  <2>1. ledger[m] + Entered(c, m) = ledger[m]
    BY <1>1, <1>2, <1>8 DEF Entered
  <2>2. stock' = [stock EXCEPT ![m] = stock[m]] /\ ledger' = [ledger EXCEPT ![m] = ledger[m]]
    BY <1>1, <1>8, <2>1 DEF StockSaved
  <2>3. stock' = stock /\ ledger' = ledger
    BY <1>2, <2>2
  <2> QED
    BY <1>1, <2>3 DEF Serial!vars, HeldRows
<1> QED
  BY <1>3, <1>5, <1>6, <1>7, <1>8 DEF MaterialOps

LEMMA ReplaceBomSerial ==
  ASSUME Inv, Alone, NEW r \in Requests, Commit(r), call[r].op = "replaceBillOfMaterials"
  PROVE  Serial!Next
<1> DEFINE p == call[r].product
           recipe == call[r].recipe
<1>1. /\ Typed /\ pc[r] = "commit" /\ call[r] \in Calls /\ Lone(r)
      /\ bom' \in [Products -> Recipes]
  BY Committed DEF Alone
<1>2. /\ ~ Creates(r) /\ ~ EditsLine(r) /\ ~ SavesSale(r) /\ ~ MovesMaterial(r)
      /\ ~ Debits(r) /\ ~ Reverses(r)
  BY DEF EditsLine, Creates, SavesSale, MovesMaterial, MaterialOps, Debits, Reverses
<1>3. p \in Products /\ recipe \in Recipes
  BY <1>1, CallFields
<1>4. stock' = stock /\ snapshots' = snapshots /\ ledger' = ledger /\ sale' = sale /\ lines' = lines
  BY <1>2, CommitLeaves
<1>5. HeldRows' = HeldRows
  BY <1>4, HeldRowsStay
<1>6. bom' = [bom EXCEPT ![p] = recipe]
  <2>1. DOMAIN writes[r].bom = {p} /\ writes[r].bom[p] = recipe
    BY <1>1 DEF Lone, BomSlot
  <2>2. \A x \in Products : bom'[x] = IF x = p THEN recipe ELSE bom[x]
    BY <2>1, CommittedTables
  <2>3. bom \in [Products -> Recipes]
    BY <1>1 DEF Typed
  <2> QED
    BY <1>1, <2>2, <2>3
<1>7. Serial!ReplaceBillOfMaterials(p, recipe)
  BY <1>4, <1>5, <1>6 DEF Serial!ReplaceBillOfMaterials, HeldRows
<1> QED
  BY <1>3, <1>7 DEF Serial!Next, Serial!ProductStep

LEMMA CommitSerial ==
  ASSUME Inv, Alone, NEW r \in Requests, Commit(r)
  PROVE  Serial!Next \/ UNCHANGED Serial!vars
<1>1. call[r].op \in AllOps
  BY Committed, CallFields
<1> QED
  BY <1>1, CreateSaleSerial, EditLineSerial, UpdatePaymentSerial, UpdateProductionSerial,
     MaterialSerial, ReplaceBomSerial DEF AllOps, SaleOps, EditsLine, MovesMaterial

LEMMA InitSerial ==
  ASSUME Init
  PROVE  Serial!Init
<1>1. \A s \in Sales, m \in Materials : HeldIn(snapshots, s, m) = 0
  <2>1. \A s \in Sales, m \in Materials : Mine(snapshots, s, m) = {}
    BY DEF Init, Mine
  <2> QED
    BY <2>1, HeldNone
<1>2. HeldRows = [s \in Sales |-> [m \in Materials |-> 0]]
  BY <1>1, HeldRowsIn
<1> QED
  BY <1>2, SameAsSerial DEF Init, Serial!Init, HeldRows

LEMMA StepSerial ==
  ASSUME Inv, Alone, [Next]_vars
  PROVE  [Serial!Next]_(Serial!vars)
<1>1. ASSUME UNCHANGED database
      PROVE  UNCHANGED Serial!vars
  BY <1>1, HeldRowsStay DEF database, Serial!vars, HeldRows
<1>2. CASE UNCHANGED vars
  BY <1>1, <1>2 DEF vars
<1>3. ASSUME NEW r \in Requests, Local(r)
      PROVE  UNCHANGED Serial!vars
  <2>1. Quiet(r)
    BY <1>3, LocalQuiet DEF Inv
  <2> QED
    BY <1>1, <2>1 DEF Quiet, database
<1> QED
  BY <1>2, <1>3, StepsOfSlots, CommitSerial

\* Calls that touch no common row are serialisable: each transaction takes
\* effect at its commit as one whole handler of StockControl, and a call that
\* fails on the way takes none.
THEOREM ApartIsSerial ==
  ASSUME ~ ConflictsAllowed
  PROVE  Spec => ImplementsSerial
<1>1. Inv /\ Alone /\ [Next]_vars => Alone'
  BY StepAlone
<1>2. Inv /\ Alone /\ [Next]_vars => [Serial!Next]_(Serial!vars)
  BY StepSerial
<1>3. Init => Serial!Init
  BY InitSerial
<1> QED
  BY <1>1, <1>2, <1>3, InitAlone, InvHolds, PTL DEF Spec, ImplementsSerial, Serial!Spec

=============================================================================
