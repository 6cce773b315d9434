-------------------------- MODULE MaterialCatalog ---------------------------
(***************************************************************************)
(* The row of a Material and the three things that must agree with it: its *)
(* price history, the object its imageKey names in storage, and the lines  *)
(* of bills of materials, whose quantities are meant in its consumption    *)
(* unit.                                                                   *)
(*                                                                         *)
(* Every handler reads the row first and later upserts all of it, in one   *)
(* transaction; between the two another call may commit.  What a handler   *)
(* does in its transaction after waiting for a row takes effect at the     *)
(* commit, so the transaction is one step; storage is outside of it.       *)
(*                                                                         *)
(* A history variable, overtaken, keeps the materials some call wrote      *)
(* although what it had read no longer held: the properties say that       *)
(* nothing else can break the agreement.                                   *)
(***************************************************************************)
EXTENDS Naturals, Sequences, FiniteSets

CONSTANTS
  Materials,   \* Material ids
  Products,    \* CompositeProduct ids
  Units,       \* consumption units
  Keys,        \* storage keys, each drawn by one upload
  NoKey,       \* imageKey null
  MaxCost,     \* bound: package costs are 0..MaxCost, in cents
  MaxCalls,    \* bound: calls served in all
  Requests     \* the request slots

ASSUME CatalogAssumption ==
  /\ IsFiniteSet(Requests) /\ IsFiniteSet(Materials)
  /\ NoKey \notin Keys
  /\ MaxCost \in Nat /\ MaxCalls \in Nat

VARIABLES
  catalog,    \* the Material rows
  history,    \* MaterialPriceHistory by material, in the order it was written
  bom,        \* the unit each line of a bill of materials was typed in
  purchased,  \* materials a purchase line references
  stored,     \* the objects in storage
  drawn,      \* keys drawn so far
  born,       \* ids drawn so far
  served,     \* calls begun so far
  overtaken,  \* materials written by a call whose reading no longer held
  pc, call, seen  \* per slot: its next step, the call it serves, what it read

database == <<catalog, history, bom, purchased>>
vars == <<database, stored, drawn, born, served, overtaken, pc, call, seen>>

Costs == 0..MaxCost
NoRow == [row |-> "none"]
NoUnit == "none"
Row == [active : BOOLEAN, cost : Costs, unit : Units, held : BOOLEAN, image : Keys \cup {NoKey}]
Entry == [previous : Costs, new : Costs]

-----------------------------------------------------------------------------
(* Calls.  `held` is whether the balance is above zero; the debit of a sale  *)
(* and a recorded loss save the row as an entry without a cost does.         *)

Calls ==
  [op : {"update", "registerPurchase", "classifyInvoice"}, material : Materials, cost : Costs]
    \cup [op : {"registerStockEntry"}, material : Materials, cost : Costs, held : BOOLEAN]
    \cup [op : {"create"}, material : Materials, cost : Costs, unit : Units, held : BOOLEAN]
    \cup [op : {"createFromInvoice"}, material : Materials, cost : Costs, unit : Units,
          held : {TRUE}]
    \cup [op : {"changeConsumptionUnit"}, material : Materials, unit : Units]
    \cup [op : {"setImage", "removeImage", "discontinue", "reactivate", "delete"},
          material : Materials]
    \cup [op : {"saveBill"}, product : Products, materials : SUBSET Materials]

NoCall == [op |-> "none"]
Creates(c) == c.op \in {"create", "createFromInvoice"}

\* The materials a call reads before it writes.
Reads(c) ==
  CASE Creates(c) -> {}
    [] c.op = "saveBill" -> c.materials
    [] OTHER -> {c.material}

NothingSeen == [rows |-> [m \in Materials |-> NoRow], refs |-> {}, key |-> NoKey]

GoTo(r, at) == pc' = [pc EXCEPT ![r] = at]

\* The handler returns or throws.
End(r) ==
  /\ GoTo(r, "idle")
  /\ call' = [call EXCEPT ![r] = NoCall]
  /\ seen' = [seen EXCEPT ![r] = NothingSeen]

-----------------------------------------------------------------------------
(* Reading.                                                                *)

References(m) == {p \in Products : bom[p][m] # NoUnit}

\* What a handler refuses once it has read its rows, where null is an error;
\* references are counted by a statement of its own, later.
Refused(c) ==
  IF \E m \in Reads(c) : catalog[m] = NoRow THEN TRUE
  ELSE CASE c.op = "discontinue" -> ~ catalog[c.material].active
         [] c.op = "reactivate" -> catalog[c.material].active
         [] c.op = "saveBill" -> \E m \in c.materials : ~ catalog[m].active
         \* MaterialPriceHistory refuses an entry from zero to zero.
         [] c.op = "create" -> c.cost = 0
         [] OTHER -> FALSE

FirstStep(c) ==
  CASE c.op = "setImage" -> "upload"
    [] c.op \in {"changeConsumptionUnit", "delete"} -> "count"
    [] OTHER -> "save"

\* A call begins with its findById; one that is refused leaves no trace.  The
\* rows of a bill are read one after the other: as each is compared with its
\* own lines only, one step stands for them.
Start(r, c) ==
  /\ pc[r] = "idle"
  /\ served < MaxCalls /\ served' = served + 1
  /\ Creates(c) => c.material \notin born
  /\ ~ Refused(c)
  /\ born' = IF Creates(c) THEN born \cup {c.material} ELSE born
  /\ GoTo(r, FirstStep(c))
  /\ call' = [call EXCEPT ![r] = c]
  /\ seen' = [seen EXCEPT ![r].rows =
                [m \in Materials |-> IF m \in Reads(c) THEN catalog[m] ELSE NoRow]]
  /\ UNCHANGED <<database, stored, drawn, overtaken>>

\* Mutant of Locked: the unit lock looks at the balance alone.
LockedByStock(c, row) ==
  \/ c.op = "delete" /\ (References(c.material) # {} \/ c.material \in purchased)
  \/ c.op = "changeConsumptionUnit" /\ c.unit # row.unit /\ row.held

\* Whether a call refuses the references it counts.
Locked(c, row) ==
  \/ c.op = "delete" /\ (References(c.material) # {} \/ c.material \in purchased)
  \/ /\ c.op = "changeConsumptionUnit" /\ c.unit # row.unit
     /\ row.held \/ References(c.material) # {}

\* countReferences or countBomItemReferences, before the transaction.
Count(r) ==
  /\ pc[r] = "count"
  /\ \/ Locked(call[r], seen[r].rows[call[r].material]) /\ End(r)
     \/ /\ ~ Locked(call[r], seen[r].rows[call[r].material])
        /\ GoTo(r, "save")
        /\ seen' = [seen EXCEPT ![r].refs = References(call[r].material)]
        /\ UNCHANGED call
  /\ UNCHANGED <<database, stored, drawn, born, served, overtaken>>

\* setImage uploads before it touches the database.
Upload(r) ==
  /\ pc[r] = "upload"
  /\ \E k \in Keys \ drawn :
       /\ stored' = stored \cup {k}
       /\ drawn' = drawn \cup {k}
       /\ seen' = [seen EXCEPT ![r].key = k]
  /\ GoTo(r, "save")
  /\ UNCHANGED <<database, born, served, overtaken, call>>

-----------------------------------------------------------------------------
(* Writing.                                                                *)

\* receiveInvoicePackageCost: only an increase is taken.
Receive(row, cost) == IF cost > row.cost THEN [row EXCEPT !.cost = cost] ELSE row

\* The row a handler saves: the row it read, with what it changes.
Saved(c, row, key) ==
  CASE c.op = "update" -> [row EXCEPT !.cost = c.cost]
    [] c.op = "changeConsumptionUnit" -> [row EXCEPT !.unit = c.unit]
    [] c.op = "registerStockEntry" -> Receive([row EXCEPT !.held = c.held], c.cost)
    [] c.op = "registerPurchase" -> Receive(row, c.cost)
    [] c.op = "classifyInvoice" -> Receive([row EXCEPT !.held = TRUE], c.cost)
    [] c.op = "setImage" -> [row EXCEPT !.image = key]
    [] c.op = "removeImage" -> [row EXCEPT !.image = NoKey]
    [] c.op = "discontinue" -> [row EXCEPT !.active = FALSE]
    [] c.op = "reactivate" -> [row EXCEPT !.active = TRUE]

\* Mutant of Recorded: a cut is left out of the history.
RecordedIncreases(entries, before, after) ==
  IF before >= after THEN entries
  ELSE Append(entries, [previous |-> before, new |-> after])

\* addPriceHistoryEntry, when the cost saved is not the cost read.  Its changedAt
\* is taken before that reading, so calls that overlap may be listed in another
\* order than they wrote in.
Recorded(entries, before, after) ==
  IF before = after THEN entries
  ELSE Append(entries, [previous |-> before, new |-> after])

\* The reading a save rests on no longer holds.
Overtaken(c, read) ==
  {m \in Reads(c) :
     IF c.op = "saveBill" THEN catalog[m].unit # read.rows[m].unit
     ELSE \/ catalog[m] # read.rows[m]
          \/ c.op = "changeConsumptionUnit" /\ References(m) # read.refs}

\* Upserts the row, history entry included.
Upsert(r) ==
  LET c == call[r]
      m == c.material
      read == seen[r].rows[m]
      row == Saved(c, read, seen[r].key)
  IN
  /\ catalog' = [catalog EXCEPT ![m] = row]
  /\ history' = [history EXCEPT ![m] = Recorded(@, read.cost, row.cost)]
  /\ overtaken' = overtaken \cup Overtaken(c, seen[r])

MaterialSaves == {"update", "changeConsumptionUnit", "registerStockEntry", "setImage",
                  "removeImage", "discontinue", "reactivate"}

\* Mutant of SaveMaterial: the image is deleted when the row is about to be
\* saved, in a transaction that may still roll back.
SaveMaterialAfterDiscarding(r) ==
  /\ pc[r] = "save" /\ call[r].op \in MaterialSaves
  /\ stored' = IF call[r].op \in {"setImage", "removeImage"}
               THEN stored \ {seen[r].rows[call[r].material].image} ELSE stored
  /\ \/ Upsert(r)
     \/ UNCHANGED <<catalog, history, overtaken>>
  /\ End(r)
  /\ UNCHANGED <<bom, purchased, drawn, born, served>>

\* The transaction of MaterialsService's handlers; the two that may have
\* replaced an image go on to discard it.
SaveMaterial(r) ==
  /\ pc[r] = "save" /\ call[r].op \in MaterialSaves
  /\ Upsert(r)
  /\ IF /\ call[r].op \in {"setImage", "removeImage"}
        /\ seen[r].rows[call[r].material].image # NoKey
     THEN GoTo(r, "discard") /\ UNCHANGED <<call, seen>>
     ELSE End(r)
  /\ UNCHANGED <<bom, purchased, stored, drawn, born, served>>

\* register and classify: the purchase lines, whose foreign key refuses a
\* material gone meanwhile, then the cost and the balance of the material they
\* name.  classify may first save a new packageQuantity: that upsert brings a
\* deleted row back.
RecordInvoice(r) ==
  LET m == call[r].material IN
  /\ pc[r] = "save" /\ call[r].op \in {"registerPurchase", "classifyInvoice"}
  /\ \/ /\ catalog[m] = NoRow
        /\ UNCHANGED <<database, overtaken>>
     \/ /\ catalog[m] # NoRow \/ call[r].op = "classifyInvoice"
        /\ purchased' = purchased \cup {m}
        /\ IF call[r].op = "registerPurchase"
              /\ Receive(seen[r].rows[m], call[r].cost) = seen[r].rows[m]
           THEN UNCHANGED <<catalog, history, overtaken>>
           ELSE Upsert(r)
        /\ UNCHANGED bom
  /\ End(r)
  /\ UNCHANGED <<stored, drawn, born, served>>

\* create, and classify for a line that names a new material: the row and, for
\* a cost above zero, the CREATION entry.
CreateMaterial(r) ==
  LET c == call[r] IN
  /\ pc[r] = "save" /\ Creates(c)
  /\ catalog' = [catalog EXCEPT ![c.material] =
                   [active |-> TRUE, cost |-> c.cost, unit |-> c.unit, held |-> c.held,
                    image |-> NoKey]]
  /\ history' = [history EXCEPT ![c.material] = Recorded(<<>>, 0, c.cost)]
  /\ purchased' = IF c.op = "createFromInvoice" THEN purchased \cup {c.material} ELSE purchased
  /\ End(r)
  /\ UNCHANGED <<bom, stored, drawn, born, served, overtaken>>

\* Mutant of DeleteMaterial: the count made before the transaction is trusted.
DeleteMaterialCounted(r) ==
  LET m == call[r].material IN
  /\ pc[r] = "save" /\ call[r].op = "delete"
  /\ catalog' = [catalog EXCEPT ![m] = NoRow]
  /\ history' = [history EXCEPT ![m] = <<>>]
  /\ End(r)
  /\ UNCHANGED <<bom, purchased, stored, drawn, born, served, overtaken>>

\* The history goes with the row; the foreign keys of every other table refuse
\* the deletion of a row they name.  The image stays in storage.
DeleteMaterial(r) ==
  LET m == call[r].material IN
  /\ pc[r] = "save" /\ call[r].op = "delete"
  /\ \/ /\ References(m) = {} /\ m \notin purchased
        /\ catalog' = [catalog EXCEPT ![m] = NoRow]
        /\ history' = [history EXCEPT ![m] = <<>>]
     \/ /\ References(m) # {} \/ m \in purchased
        /\ UNCHANGED <<catalog, history>>
  /\ End(r)
  /\ UNCHANGED <<bom, purchased, stored, drawn, born, served, overtaken>>

\* create and update of a CompositeProduct replace its whole bill, delete
\* removes it; the foreign key refuses a line whose material is gone.
SaveBill(r) ==
  LET c == call[r] IN
  /\ pc[r] = "save" /\ c.op = "saveBill"
  /\ \/ /\ \A m \in c.materials : catalog[m] # NoRow
        /\ bom' = [bom EXCEPT ![c.product] =
             [m \in Materials |-> IF m \in c.materials THEN seen[r].rows[m].unit ELSE NoUnit]]
        /\ overtaken' = overtaken \cup Overtaken(c, seen[r])
     \/ /\ \E m \in c.materials : catalog[m] = NoRow
        /\ UNCHANGED <<bom, overtaken>>
  /\ End(r)
  /\ UNCHANGED <<catalog, history, purchased, stored, drawn, born, served>>

\* discardStoredImage, after the commit: a failure is logged and swallowed.
Discard(r) ==
  /\ pc[r] = "discard"
  /\ \/ stored' = stored \ {seen[r].rows[call[r].material].image}
     \/ UNCHANGED stored
  /\ End(r)
  /\ UNCHANGED <<database, drawn, born, served, overtaken>>

\* A statement or the upload fails, or the process stops.
Fail(r) ==
  /\ pc[r] # "idle"
  /\ End(r)
  /\ UNCHANGED <<database, stored, drawn, born, served, overtaken>>

-----------------------------------------------------------------------------

Init ==
  /\ catalog = [m \in Materials |-> NoRow]
  /\ history = [m \in Materials |-> <<>>]
  /\ bom = [p \in Products |-> [m \in Materials |-> NoUnit]]
  /\ purchased = {} /\ stored = {} /\ drawn = {} /\ born = {} /\ served = 0 /\ overtaken = {}
  /\ pc = [r \in Requests |-> "idle"]
  /\ call = [r \in Requests |-> NoCall]
  /\ seen = [r \in Requests |-> NothingSeen]

Next ==
  \E r \in Requests :
    \/ \E c \in Calls : Start(r, c)
    \/ Count(r) \/ Upload(r)
    \/ SaveMaterial(r) \/ RecordInvoice(r) \/ CreateMaterial(r) \/ DeleteMaterial(r)
    \/ SaveBill(r) \/ Discard(r) \/ Fail(r)

Spec == Init /\ [][Next]_vars

-----------------------------------------------------------------------------
(* Correctness.                                                            *)

\* Rows, calls in flight and what they read have the shapes their columns and
\* handlers give them (schema.prisma, MaterialsService).
TypeOK ==
  /\ catalog \in [Materials -> Row \cup {NoRow}]
  /\ history \in [Materials -> Seq(Entry)]
  /\ bom \in [Products -> [Materials -> Units \cup {NoUnit}]]
  /\ purchased \subseteq born /\ overtaken \subseteq born /\ born \subseteq Materials
  /\ stored \subseteq drawn /\ drawn \subseteq Keys /\ served \in 0..MaxCalls
  /\ pc \in [Requests -> {"idle", "count", "upload", "save", "discard"}]
  /\ call \in [Requests -> Calls \cup {NoCall}]
  /\ seen \in [Requests -> [rows : [Materials -> Row \cup {NoRow}],
                            refs : SUBSET Products, key : Keys \cup {NoKey}]]

Exists(m) == catalog[m] # NoRow

\* A count taken before the transaction never lets a referenced material go,
\* whatever is inserted meanwhile (MaterialsService.delete): every bill, purchase
\* line and history entry names a material that is there.
ReferencesResolve ==
  \A m \in Materials :
    References(m) # {} \/ m \in purchased \/ history[m] # <<>> => Exists(m)

\* Uploading first and discarding last (MaterialsService.setImage, removeImage):
\* whatever fails on the way, no row names an object that is not in storage.
ImagesResolve ==
  \A m \in Materials \ overtaken :
    Exists(m) /\ catalog[m].image # NoKey => catalog[m].image \in stored

\* A history that starts from zero, whose entries each start where the one before
\* ended, and that ends at this cost.
Tells(entries, cost) ==
  /\ cost = IF entries = <<>> THEN 0 ELSE entries[Len(entries)].new
  /\ \A i \in 1..Len(entries) :
       /\ entries[i].previous = IF i = 1 THEN 0 ELSE entries[i - 1].new
       /\ entries[i].new # entries[i].previous

\* The history tells every cost a material ever had (MaterialsService.create,
\* update, registerStockEntry; applyPackageCost; applyStockEntry).
HistoryTellsTheCost ==
  \A m \in Materials \ overtaken : Exists(m) => Tells(history[m], catalog[m].cost)

\* No recipe quantity changes its meaning (Material.changeConsumptionUnit): the
\* lines of every bill were typed in the unit the material still has.
RecipesKeepTheirUnit ==
  \A m \in Materials \ overtaken : \A p \in Products :
    bom[p][m] # NoUnit => bom[p][m] = catalog[m].unit

=============================================================================
