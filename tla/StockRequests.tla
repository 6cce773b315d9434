--------------------------- MODULE StockRequests ----------------------------
(***************************************************************************)
(* The handlers of StockControl, statement by statement, served            *)
(* concurrently by one process over one PostgreSQL database.               *)
(*                                                                         *)
(* PrismaUnitOfWork.runInTransaction opens a transaction with no isolation *)
(* level, hence READ COMMITTED: a statement reads what is committed at     *)
(* that moment plus its own transaction's writes; a write locks its row    *)
(* until the transaction ends and waits while another holds it; a          *)
(* repository's save upserts the whole row, with whatever the handler read *)
(* earlier.  A failed transaction leaves nothing behind.                   *)
(*                                                                         *)
(* A request slot serves one call at a time, any number of them.           *)
(*                                                                         *)
(* A history variable, overtaken, keeps the sales and materials some       *)
(* transaction wrote although what it had read of them no longer held: the *)
(* properties say that nothing else breaks the agreement of shelf, sales   *)
(* and snapshots.                                                          *)
(***************************************************************************)
EXTENDS StockData

CONSTANTS
  Requests,         \* the request slots
  Operations,       \* the operations clients call in this instance
  AskedStatuses,    \* the production statuses they ask for
  ConflictsAllowed  \* may two calls in flight touch a common row?

ASSUME RequestsAssumption ==
  /\ IsFiniteSet(Requests)
  /\ AskedStatuses \subseteq ProductionStatus
  /\ ConflictsAllowed \in BOOLEAN

VARIABLES
  stock, bom, sale, lines, ledger,  \* committed rows, as in StockControl
  snapshots,                        \* committed StockMovementSnapshot rows
  pc,                               \* the statement each slot executes next
  call,                             \* the call each slot serves
  seen,                             \* what each handler has read so far
  writes,                           \* uncommitted writes of each transaction
  overtaken                         \* rows written over a change not read

database == <<stock, bom, sale, lines, ledger, snapshots>>
vars == <<database, pc, call, seen, writes, overtaken>>

-----------------------------------------------------------------------------
(* Calls.                                                                  *)

SaleCalls ==
  [op : {"createSale"}, sale : Sales, items : Baskets]
    \cup [op : {"addItem"}, sale : Sales, line : Lines, item : SaleItem]
    \cup [op : {"removeItem"}, sale : Sales, line : Lines]
    \cup [op : {"updateItemQuantity"}, sale : Sales, line : Lines, quantity : Quantities]
    \cup [op : {"updateDetails"}, sale : Sales]
    \cup [op : {"updatePaymentStatus"}, sale : Sales, status : PaymentStatus]
    \cup [op : {"updateProductionStatus"}, sale : Sales, status : AskedStatuses]

MaterialCalls ==
  [op : {"receiveStock", "recordLoss"}, material : Materials, quantity : Quantities]
    \cup [op : {"countStock"}, material : Materials, quantity : Quantities \cup {0}]
    \cup [op : {"editMaterial"}, material : Materials]

ProductCalls ==
  [op : {"replaceBillOfMaterials"}, product : Products, recipe : Recipes]

Calls == {c \in SaleCalls \cup MaterialCalls \cup ProductCalls : c.op \in Operations}

NoCall == [op |-> "none"]

\* The first statement of each operation.
FirstStatement(c) ==
  CASE c.op = "createSale" -> "saveNewSale"
    [] c \in SaleCalls /\ c.op # "createSale" -> "readSale"
    [] c \in MaterialCalls -> "readMaterial"
    [] c \in ProductCalls -> "saveBom"

-----------------------------------------------------------------------------
(* Transactions.                                                           *)

\* One snapshot row; `by` is the slot whose debit inserted it.
Snapshot == [sale : Sales, material : Materials, by : Requests, quantity : Nat]

NoWrites == [stock |-> <<>>, bom |-> <<>>, sale |-> <<>>, lines |-> <<>>,
             added |-> {}, removed |-> {}]
NothingSeen == [sale |-> NoSale, item |-> NoItem, material |-> "NONE", quantity |-> 0,
                row |-> <<>>, need |-> <<>>, todo |-> {}, doomed |-> {}, late |-> {}]

\* The committed rows as overwritten by a transaction's own writes.
Over(own, committed) ==
  [x \in DOMAIN committed |-> IF x \in DOMAIN own THEN own[x] ELSE committed[x]]

StockSeen(r) == Over(writes[r].stock, stock)
SnapshotsSeen(r) == (snapshots \cup writes[r].added) \ writes[r].removed
SnapshotsOf(rows, s) == {row \in rows : row.sale = s}

\* One row written.
Put(own, x, value) == [y \in DOMAIN own \cup {x} |-> IF y = x THEN value ELSE own[y]]

\* The rows a transaction has locked by writing them.
Holds(r) ==
  ({"material"} \X DOMAIN writes[r].stock) \cup ({"product"} \X DOMAIN writes[r].bom)
    \cup ({"sale"} \X DOMAIN writes[r].sale) \cup ({"item"} \X DOMAIN writes[r].lines)
    \cup ({"snapshot"} \X writes[r].removed)

\* The rows the next statement of a slot writes.
Wants(r) ==
  CASE pc[r] \in {"saveDebit", "saveBack", "saveMaterial"} -> {<<"material", seen[r].material>>}
    [] pc[r] = "saveSale" -> {<<"sale", call[r].sale>>}
    [] pc[r] = "saveItem" -> {<<"item", <<call[r].sale, call[r].line>>>>}
    [] pc[r] = "saveBom" -> {<<"product", call[r].product>>}
    [] pc[r] = "deleteSnapshots" -> {"snapshot"} \X seen[r].doomed
    [] OTHER -> {}

WaitsFor(r, o) == o # r /\ Wants(r) \cap Holds(o) # {}

\* A slot between two statements: at statement `at`, and not waiting for a row.
Ready(r, at) == pc[r] = at /\ \A o \in Requests : ~ WaitsFor(r, o)

GoTo(r, at) == pc' = [pc EXCEPT ![r] = at]

\* The handler returns or throws: its transaction ends and it forgets.
End(r) ==
  /\ GoTo(r, "idle")
  /\ call' = [call EXCEPT ![r] = NoCall]
  /\ seen' = [seen EXCEPT ![r] = NothingSeen]
  /\ writes' = [writes EXCEPT ![r] = NoWrites]

\* Mutant of Abort: the transaction of a failed handler is left open.
AbortLeavingOpen(r) ==
  /\ GoTo(r, "idle")
  /\ call' = [call EXCEPT ![r] = NoCall]
  /\ seen' = [seen EXCEPT ![r] = NothingSeen]
  /\ UNCHANGED <<database, overtaken, writes>>

\* The handler throws, or its transaction is rolled back.
Abort(r) == End(r) /\ UNCHANGED <<database, overtaken>>

\* A statement that only reads, and one that only writes.
Reads(r, what) ==
  /\ seen' = [seen EXCEPT ![r] = what]
  /\ UNCHANGED <<database, call, writes, overtaken>>

Writes(r, what) ==
  /\ writes' = [writes EXCEPT ![r] = what]
  /\ UNCHANGED <<database, call, overtaken>>


-----------------------------------------------------------------------------
(* Starting a call.                                                        *)

\* A uuid no row and no call in flight uses: createSale and addItem draw one.
Fresh(c) ==
  /\ c.op = "createSale" =>
       /\ sale[c.sale] = NoSale
       /\ \A o \in Requests : call[o] \in SaleCalls => call[o].sale # c.sale
  /\ c.op = "addItem" =>
       /\ lines[<<c.sale, c.line>>] = NoItem
       /\ \A o \in Requests : call[o] \in SaleCalls /\ call[o].sale = c.sale =>
            /\ call[o].op = "createSale" => call[o].items[c.line] = NoItem
            /\ call[o].op \in {"addItem", "removeItem", "updateItemQuantity"} => call[o].line # c.line

\* Bounds: nothing puts stock back on a shelf above MaxHeld, the ledger never
\* grows past it, and losses never take it below zero.
WithinBounds(c) ==
  /\ c.op = "receiveStock" \/ (c.op = "updateProductionStatus" /\ c.status = "PENDING") =>
       \A m \in Materials : stock[m] <= MaxHeld
  /\ c.op = "receiveStock" => ledger[c.material] + c.quantity <= MaxHeld
  /\ c.op = "countStock" => ledger[c.material] + c.quantity - stock[c.material] <= MaxHeld
  /\ c.op = "recordLoss" => c.quantity <= ledger[c.material]

\* The sale, materials and products a call may read or write.
Touches(c) ==
  CASE c.op = "updateProductionStatus" ->
         {<<"sale", c.sale>>} \cup ({"product"} \X Products)
           \cup {<<"material", m>> : m \in {n \in Materials :
                  \/ MaterialNeed(bom, lines, c.sale, n) > 0
                  \/ \E row \in snapshots : row.sale = c.sale /\ row.material = n}}
    [] c \in SaleCalls /\ c.op # "updateProductionStatus" -> {<<"sale", c.sale>>}
    [] c \in MaterialCalls -> {<<"material", c.material>>}
    [] c \in ProductCalls -> {<<"product", c.product>>}

Conflicts(c) == \E o \in Requests : pc[o] # "idle" /\ Touches(c) \cap Touches(call[o]) # {}

Start(r, c) ==
  /\ pc[r] = "idle"
  /\ Fresh(c) /\ WithinBounds(c)
  /\ ConflictsAllowed \/ ~ Conflicts(c)
  /\ GoTo(r, FirstStatement(c))
  /\ call' = [call EXCEPT ![r] = c]
  /\ UNCHANGED <<database, seen, writes, overtaken>>

-----------------------------------------------------------------------------
(* Sales.                                                                  *)

\* SalesService.create: the sale and its items, in one transaction.
SaveNewSale(r) ==
  /\ Ready(r, "saveNewSale")
  /\ LET s == call[r].sale
         items == [sl \in {s} \X Lines |-> call[r].items[sl[2]]]
     IN Writes(r, [writes[r] EXCEPT !.sale = Put(<<>>, s, NewSale), !.lines = items])
  /\ GoTo(r, "commit")
  /\ UNCHANGED seen

\* Mutant of AfterReadSale: the debit depends on the status asked for alone,
\* so a sale whose shelf was empty debits when it goes on to DELIVERED.
AfterReadSaleByTarget(c, row) ==
  CASE c.op \in {"addItem"} -> "saveItem"
    [] c.op \in {"removeItem", "updateItemQuantity"} -> "readItem"
    [] c.op \in {"updateDetails", "updatePaymentStatus"} -> "saveSale"
    [] c.op = "updateProductionStatus" ->
         IF c.status = "PENDING" THEN "readSnapshots" ELSE "checkSnapshots"

\* findById(saleId), inside updateProductionStatus's transaction and before
\* the transaction of every other handler; then the guard of each.
AfterReadSale(c, row) ==
  CASE c.op \in {"addItem"} -> "saveItem"
    [] c.op \in {"removeItem", "updateItemQuantity"} -> "readItem"
    [] c.op \in {"updateDetails", "updatePaymentStatus"} -> "saveSale"
    [] c.op = "updateProductionStatus" ->
         IF (row.production = "PENDING") = (c.status = "PENDING") THEN "saveSale"
         ELSE IF c.status = "PENDING" THEN "readSnapshots" ELSE "checkSnapshots"

NeedsEditable(c) == c.op \in {"addItem", "removeItem", "updateItemQuantity", "updateDetails"}

ReadSale(r) ==
  LET row == sale[call[r].sale] IN
  /\ Ready(r, "readSale")
  /\ \/ /\ row = NoSale \/ (NeedsEditable(call[r]) /\ ~ Editable(row))
        /\ Abort(r)
     \/ /\ row # NoSale /\ (NeedsEditable(call[r]) => Editable(row))
        /\ GoTo(r, AfterReadSale(call[r], row))
        /\ Reads(r, [seen[r] EXCEPT !.sale = row])

\* findItemOrThrow.
ReadItem(r) ==
  LET item == lines[<<call[r].sale, call[r].line>>] IN
  /\ Ready(r, "readItem")
  /\ \/ item = NoItem /\ Abort(r)
     \/ /\ item # NoItem
        /\ GoTo(r, "saveItem")
        /\ Reads(r, [seen[r] EXCEPT !.item = item])

\* saveItems upserts the line, deleteItem fails on a line already gone.
SaveItem(r) ==
  LET c == call[r]
      line == <<c.sale, c.line>>
      item == CASE c.op = "addItem" -> c.item
                [] c.op = "removeItem" -> NoItem
                [] c.op = "updateItemQuantity" -> [seen[r].item EXCEPT !.quantity = c.quantity]
  IN
  /\ Ready(r, "saveItem")
  /\ \/ c.op = "removeItem" /\ lines[line] = NoItem /\ Abort(r)
     \/ /\ c.op = "removeItem" => lines[line] # NoItem
        /\ Writes(r, [writes[r] EXCEPT !.lines = Put(@, line, item)])
        /\ GoTo(r, "commit")
        /\ UNCHANGED seen

\* The row a handler saves: what it read, with the one axis it changes.
SaleSaved(c, row) ==
  CASE c.op = "updateDetails" -> row
    [] c.op = "updatePaymentStatus" -> [row EXCEPT !.payment = c.status]
    [] c.op = "updateProductionStatus" -> [row EXCEPT !.production = c.status]

SaveSale(r) ==
  /\ Ready(r, "saveSale")
  /\ Writes(r, [writes[r] EXCEPT
                  !.sale = Put(@, call[r].sale, SaleSaved(call[r], seen[r].sale))])
  /\ GoTo(r, "commit")
  /\ UNCHANGED seen

-----------------------------------------------------------------------------
(* The debit: debitStock, when findStockMovementsBySaleId returns no row.  *)

CheckSnapshots(r) ==
  /\ Ready(r, "checkSnapshots")
  /\ GoTo(r, IF SnapshotsOf(SnapshotsSeen(r), call[r].sale) = {} THEN "readNeed" ELSE "saveSale")
  /\ UNCHANGED <<database, call, seen, writes, overtaken>>

\* findItemsBySaleId and findBillOfMaterials, then calculateMaterialNeed.
ReadNeed(r) ==
  LET need == [m \in Materials |-> MaterialNeed(bom, lines, call[r].sale, m)]
      needed == {m \in Materials : need[m] > 0}
  IN
  /\ Ready(r, "readNeed")
  /\ Reads(r, [seen[r] EXCEPT !.need = need, !.todo = needed])
  /\ GoTo(r, IF needed = {} THEN "saveSale" ELSE "readStock")

\* The next material to debit, in whatever order the lines came back; one
\* with nothing in stock is skipped.
ReadStock(r) ==
  /\ Ready(r, "readStock")
  /\ \E m \in seen[r].todo :
       LET quantity == StockSeen(r)[m] IN
       IF StockDebit(seen[r].need[m], quantity) > 0
       THEN /\ Reads(r, [seen[r] EXCEPT !.material = m, !.quantity = quantity])
            /\ GoTo(r, "saveDebit")
       ELSE /\ Reads(r, [seen[r] EXCEPT !.todo = @ \ {m}])
            /\ GoTo(r, IF seen[r].todo = {m} THEN "saveSale" ELSE "readStock")

\* Saves the balance read, less the debit, and keeps its snapshot for
\* saveStockMovements: no other transaction sees the row before the commit.
SaveDebit(r) ==
  LET m == seen[r].material
      debited == StockDebit(seen[r].need[m], seen[r].quantity)
      row == [sale |-> call[r].sale, material |-> m, by |-> r, quantity |-> debited]
  IN
  /\ Ready(r, "saveDebit")
  /\ Writes(r, [writes[r] EXCEPT !.stock = Put(@, m, seen[r].quantity - debited),
                                 !.added = @ \cup {row}])
  /\ seen' = [seen EXCEPT ![r].todo = @ \ {m}]
  /\ GoTo(r, IF seen[r].todo = {m} THEN "saveSale" ELSE "readStock")

-----------------------------------------------------------------------------
(* The reversal: reverseStockDebit.                                        *)

ReadSnapshots(r) ==
  LET rows == SnapshotsOf(SnapshotsSeen(r), call[r].sale) IN
  /\ Ready(r, "readSnapshots")
  /\ Reads(r, [seen[r] EXCEPT !.todo = rows])
  /\ GoTo(r, IF rows = {} THEN "findSnapshots" ELSE "readBack")

ReadBack(r) ==
  /\ Ready(r, "readBack")
  /\ \E row \in seen[r].todo :
       Reads(r, [seen[r] EXCEPT !.material = row.material, !.row = row,
                                !.quantity = StockSeen(r)[row.material]])
  /\ GoTo(r, "saveBack")

SaveBack(r) ==
  LET row == seen[r].row IN
  /\ Ready(r, "saveBack")
  /\ Writes(r, [writes[r] EXCEPT
                  !.stock = Put(@, row.material, seen[r].quantity + row.quantity)])
  /\ seen' = [seen EXCEPT ![r].todo = @ \ {row}]
  /\ GoTo(r, IF seen[r].todo = {row} THEN "findSnapshots" ELSE "readBack")

\* deleteMany finds its rows when it starts, then waits for each of them and
\* deletes those another transaction has not deleted meanwhile.
FindSnapshots(r) ==
  /\ Ready(r, "findSnapshots")
  /\ Reads(r, [seen[r] EXCEPT !.doomed = SnapshotsOf(SnapshotsSeen(r), call[r].sale)])
  /\ GoTo(r, "deleteSnapshots")

\* Mutant of DeleteSnapshots: the rows given back are kept.
DeleteSnapshotsKept(r) ==
  /\ Ready(r, "deleteSnapshots")
  /\ GoTo(r, "saveSale")
  /\ UNCHANGED <<database, call, seen, writes, overtaken>>

DeleteSnapshots(r) ==
  /\ Ready(r, "deleteSnapshots")
  /\ Writes(r, [writes[r] EXCEPT !.removed = seen[r].doomed \cap snapshots])
  /\ GoTo(r, "saveSale")
  /\ UNCHANGED seen

-----------------------------------------------------------------------------
(* Materials and recipes.                                                  *)

\* findById(materialId), inside StockLossesService.record's transaction and
\* before the transaction of the others; a loss above the balance is refused.
ReadMaterial(r) ==
  LET quantity == stock[call[r].material]
      refused == call[r].op = "recordLoss" /\ call[r].quantity > quantity
  IN
  /\ Ready(r, "readMaterial")
  /\ \/ refused /\ Abort(r)
     \/ /\ ~ refused
        /\ Reads(r, [seen[r] EXCEPT !.material = call[r].material, !.quantity = quantity])
        /\ GoTo(r, "saveMaterial")

\* The balance a handler saves with the rest of the row; editMaterial stands
\* for update, setImage, removeImage, discontinue and reactivate.
StockSaved(c, quantity) ==
  CASE c.op = "receiveStock" -> quantity + c.quantity
    [] c.op = "countStock" -> c.quantity
    [] c.op = "recordLoss" -> quantity - c.quantity
    [] c.op = "editMaterial" -> quantity

SaveMaterial(r) ==
  /\ Ready(r, "saveMaterial")
  /\ Writes(r, [writes[r] EXCEPT
                  !.stock = Put(@, call[r].material, StockSaved(call[r], seen[r].quantity))])
  /\ GoTo(r, "commit")
  /\ UNCHANGED seen

\* CompositeProductsService.update: the recipe is replaced whole.
SaveBom(r) ==
  /\ Ready(r, "saveBom")
  /\ Writes(r, [writes[r] EXCEPT !.bom = Put(@, call[r].product, call[r].recipe)])
  /\ GoTo(r, "commit")
  /\ UNCHANGED seen

-----------------------------------------------------------------------------
(* The end of a transaction.                                               *)

\* What a call means to put in, or take out, of the ledger.
Entered(c, m) ==
  IF c \notin MaterialCalls \/ c.op = "editMaterial" THEN 0
  ELSE IF c.material # m THEN 0
  ELSE CASE c.op = "receiveStock" -> c.quantity
         [] c.op = "countStock" -> c.quantity - stock[m]
         [] c.op = "recordLoss" -> -c.quantity

\* The rows slot o has read, and may save, that slot r has written since.
Overtakes(r, o) ==
  {s \in DOMAIN writes[r].sale : seen[o].sale # NoSale /\ call[o].sale = s}
    \cup {m \in DOMAIN writes[r].stock :
            pc[o] \in {"saveDebit", "saveBack", "saveMaterial"} /\ seen[o].material = m}

Commit(r) ==
  /\ pc[r] = "commit"
  /\ stock' = Over(writes[r].stock, stock)
  /\ bom' = Over(writes[r].bom, bom)
  /\ sale' = Over(writes[r].sale, sale)
  /\ lines' = Over(writes[r].lines, lines)
  /\ snapshots' = SnapshotsSeen(r)
  /\ ledger' = [m \in Materials |-> ledger[m] + Entered(call[r], m)]
  /\ overtaken' = overtaken \cup seen[r].late
  /\ GoTo(r, "idle")
  /\ call' = [call EXCEPT ![r] = NoCall]
  /\ seen' = [o \in Requests |->
                IF o = r THEN NothingSeen ELSE [seen[o] EXCEPT !.late = @ \cup Overtakes(r, o)]]
  /\ writes' = [writes EXCEPT ![r] = NoWrites]

\* A statement fails, the connection is lost, the process stops, or the
\* five seconds Prisma gives a transaction run out.
Fail(r) == pc[r] # "idle" /\ Abort(r)

\* PostgreSQL aborts one transaction of a cycle of waits.
InCycle(r, group) ==
  /\ r \in group
  /\ \A o \in group : \E other \in group : WaitsFor(o, other)
  /\ \A o \in group : \E other \in group : WaitsFor(other, o)

BreakDeadlock(r) == (\E group \in SUBSET Requests : InCycle(r, group)) /\ Abort(r)

-----------------------------------------------------------------------------

Statement(r) ==
  \/ SaveNewSale(r) \/ ReadSale(r) \/ ReadItem(r) \/ SaveItem(r) \/ SaveSale(r)
  \/ CheckSnapshots(r) \/ ReadNeed(r) \/ ReadStock(r) \/ SaveDebit(r)
  \/ ReadSnapshots(r) \/ ReadBack(r) \/ SaveBack(r)
  \/ FindSnapshots(r) \/ DeleteSnapshots(r)
  \/ ReadMaterial(r) \/ SaveMaterial(r) \/ SaveBom(r)
  \/ Commit(r)

Init ==
  /\ stock \in [Materials -> 0..MaxHeld]
  /\ bom \in [Products -> Recipes]
  /\ sale = [s \in Sales |-> NoSale]
  /\ lines = [sl \in Sales \X Lines |-> NoItem]
  /\ snapshots = {}
  /\ ledger = stock
  /\ pc = [r \in Requests |-> "idle"]
  /\ call = [r \in Requests |-> NoCall]
  /\ seen = [r \in Requests |-> NothingSeen]
  /\ writes = [r \in Requests |-> NoWrites]
  /\ overtaken = {}

Next ==
  \E r \in Requests :
    \/ \E c \in Calls : Start(r, c)
    \/ Statement(r)
    \/ Fail(r)
    \/ BreakDeadlock(r)

Spec == Init /\ [][Next]_vars

\* Statements are executed and locks granted in the order they were asked
\* for, so a slot that can move again and again does (strong fairness); the
\* deadlock detector runs while a cycle lasts.  Clients owe nothing.
Fairness ==
  /\ \A r \in Requests : SF_vars(Statement(r))
  /\ WF_vars(\E r \in Requests : BreakDeadlock(r))

-----------------------------------------------------------------------------
(* Correctness.                                                            *)

\* What the snapshot rows of sale s hold of material m.
Held(s, m) ==
  LET rows == {row \in snapshots : row.sale = s /\ row.material = m}
  IN SumOver(rows, [row \in rows |-> row.quantity])

TypeOK ==
  /\ stock \in [Materials -> Nat]
  /\ bom \in [Products -> Recipes]
  /\ sale \in [Sales -> SaleRow \cup {NoSale}]
  /\ lines \in [Sales \X Lines -> SaleItem \cup {NoItem}]
  /\ snapshots \subseteq Snapshot
  /\ ledger \in [Materials -> Int]
  /\ overtaken \subseteq Sales \cup Materials
  /\ \A r \in Requests :
       /\ pc[r] = "idle" <=> call[r] = NoCall
       /\ pc[r] = "idle" => seen[r] = NothingSeen /\ writes[r] = NoWrites
       /\ \A m \in DOMAIN writes[r].stock : writes[r].stock[m] \in Nat
       /\ writes[r].added \subseteq Snapshot

Serial == INSTANCE StockControl
            WITH snapshots <- [s \in Sales |-> [m \in Materials |-> Held(s, m)]]

\* Calls that touch no common row are serialisable: every transaction takes
\* effect at its commit as one whole handler of StockControl, and a call that
\* fails on the way takes none.
ImplementsSerial == Serial!Spec

\* Every call returns: a slot that waits for a row gets it, or loses a deadlock.
EveryCallEnds == \A r \in Requests : pc[r] # "idle" ~> pc[r] = "idle"

\* What left the shelf is what the snapshots hold, whatever calls meet in
\* whatever order (SalesService.debitStock, reverseStockDebit): only a balance
\* or a sale saved over a change its handler had not read can break it.
StockLostOnlyToARace ==
  overtaken \cap Sales = {} =>
    \A m \in Materials \ overtaken :
      stock[m] + SumOver(Sales, [s \in Sales |-> Held(s, m)]) = ledger[m]

\* "PENDING means nothing is debited", and "debit only when no snapshot exists
\* yet, which keeps a repeated call from debiting twice"
\* (SalesService.updateProductionStatus), while payments, details and items are
\* saved by other calls: only a sale saved over a change its handler had not
\* read is PENDING with a debit, or debited twice of one material.
SnapshotsFitTheSaleUnlessRaced ==
  \A row \in snapshots : row.sale \notin overtaken =>
    /\ sale[row.sale].production \in {"ASSEMBLED", "DELIVERED"}
    /\ \A other \in SnapshotsOf(snapshots, row.sale) :
         other.material = row.material => other = row

=============================================================================
