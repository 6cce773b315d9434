----------------------- MODULE MaterialCatalogProofs ------------------------
(***************************************************************************)
(* MaterialCatalog holds what it promises for any set of materials,        *)
(* products, keys and slots, and any number of calls.                      *)
(***************************************************************************)
EXTENDS MaterialCatalog, TLAPS

-----------------------------------------------------------------------------
(* Calls and rows.                                                         *)

UpsertingOps == MaterialSaves \cup {"registerPurchase", "classifyInvoice"}

\* The fields each call carries.
LEMMA CallFields ==
  ASSUME NEW c \in Calls
  PROVE  /\ c.op # "saveBill" => c.material \in Materials
         /\ c.op = "saveBill" => c.product \in Products /\ c.materials \in SUBSET Materials
         /\ c.op \in {"update", "registerPurchase", "classifyInvoice", "registerStockEntry",
                      "create", "createFromInvoice"} => c.cost \in Costs
         /\ c.op \in {"create", "createFromInvoice", "changeConsumptionUnit"} => c.unit \in Units
         /\ c.op \in {"create", "createFromInvoice", "registerStockEntry"} => c.held \in BOOLEAN
         /\ c.op # "none"
BY DEF Calls

\* What each call reads.
LEMMA CallReads ==
  ASSUME NEW c \in Calls
  PROVE  /\ Creates(c) => Reads(c) = {}
         /\ c.op = "saveBill" => Reads(c) = c.materials
         /\ c.op # "saveBill" /\ ~ Creates(c) => Reads(c) = {c.material}
         /\ Reads(c) \in SUBSET Materials
BY CallFields DEF Reads, Creates

\* A row is never taken for its absence.
LEMMA RowsExist == \A row \in Row : row # NoRow
<1>1. SUFFICES ASSUME NEW row \in Row, row = NoRow PROVE FALSE
  OBVIOUS
<1>2. "active" \in DOMAIN row
  BY <1>1 DEF Row
<1>3. DOMAIN NoRow = {"row"}
  BY DEF NoRow
<1> QED BY <1>1, <1>2, <1>3

\* A handler saves a row, with the unit and the image it read unless it is
\* asked to change them.
LEMMA SavedRow ==
  ASSUME NEW c \in Calls, c.op \in UpsertingOps, NEW row \in Row, NEW key \in Keys \cup {NoKey}
  PROVE  /\ Saved(c, row, key) \in Row
         /\ Saved(c, row, key).unit = IF c.op = "changeConsumptionUnit" THEN c.unit ELSE row.unit
         /\ Saved(c, row, key).image = IF c.op = "setImage" THEN key
                                       ELSE IF c.op = "removeImage" THEN NoKey ELSE row.image
BY CallFields DEF Saved, Receive, Row, UpsertingOps, MaterialSaves

\* A price history stays one when a cost is recorded.
LEMMA RecordedEntries ==
  ASSUME NEW entries \in Seq(Entry), NEW before \in Costs, NEW after \in Costs
  PROVE  Recorded(entries, before, after) \in Seq(Entry)
<1>1. [previous |-> before, new |-> after] \in Entry
  BY DEF Entry
<1>2. \A e \in Entry : Append(entries, e) \in Seq(Entry)
  OBVIOUS
<1> QED BY <1>1, <1>2 DEF Recorded

-----------------------------------------------------------------------------
(* The invariant: types, what a call in flight has read, and references.    *)

\* A call in flight holds the rows it read, of ids drawn before, and stands at
\* a step of its operation; an idle slot holds nothing.
InFlight(r) ==
  /\ pc[r] = "idle" => call[r] = NoCall /\ seen[r] = NothingSeen
  /\ pc[r] # "idle" =>
       /\ call[r] \in Calls
       /\ \A m \in Reads(call[r]) : seen[r].rows[m] # NoRow
       /\ Creates(call[r]) => call[r].material \in born
  /\ \A m \in Materials : seen[r].rows[m] # NoRow => m \in born
  /\ pc[r] = "upload" => call[r].op = "setImage"
  /\ pc[r] = "count" => call[r].op \in {"changeConsumptionUnit", "delete"}
  /\ pc[r] = "discard" =>
       /\ call[r].op \in {"setImage", "removeImage"}
       /\ seen[r].rows[call[r].material].image # NoKey

RowsAreBorn == \A m \in Materials : catalog[m] # NoRow => m \in born

Grounded ==
  /\ TypeOK
  /\ \A r \in Requests : InFlight(r)
  /\ RowsAreBorn
  /\ ReferencesResolve

slots == <<pc, call, seen>>

SlotTypes ==
  /\ pc \in [Requests -> {"idle", "count", "upload", "save", "discard"}]
  /\ call \in [Requests -> Calls \cup {NoCall}]
  /\ seen \in [Requests -> [rows : [Materials -> Row \cup {NoRow}],
                            refs : SUBSET Products, key : Keys \cup {NoKey}]]

LEMMA NothingSeenTypes ==
  NothingSeen \in [rows : [Materials -> Row \cup {NoRow}],
                   refs : SUBSET Products, key : Keys \cup {NoKey}]
BY DEF NothingSeen

\* A call that ends leaves its slot empty and the others as they were.
LEMMA EndingSlots ==
  ASSUME SlotTypes, \A o \in Requests : InFlight(o), NEW r \in Requests, End(r),
         born' = born
  PROVE  SlotTypes' /\ \A o \in Requests : InFlight(o)'
<1>1. SlotTypes'
  BY NothingSeenTypes DEF SlotTypes, End, GoTo
<1>2. ASSUME NEW o \in Requests PROVE InFlight(o)'
  <2>1. CASE o = r
    <3>1. pc'[o] = "idle" /\ call'[o] = NoCall /\ seen'[o] = NothingSeen
      BY <2>1 DEF End, GoTo, SlotTypes
    <3> QED BY <3>1 DEF InFlight, NothingSeen
  <2>2. CASE o # r
    <3>1. pc'[o] = pc[o] /\ call'[o] = call[o] /\ seen'[o] = seen[o]
      BY <2>2 DEF End, GoTo, SlotTypes
    <3> QED BY <3>1 DEF InFlight, Reads, Creates
  <2> QED BY <2>1, <2>2
<1> QED BY <1>1, <1>2

\* What an upsert writes.
LEMMA Upserting ==
  ASSUME Grounded, NEW r \in Requests, pc[r] = "save", call[r].op \in UpsertingOps, Upsert(r)
  PROVE  LET m == call[r].material
             row == Saved(call[r], seen[r].rows[m], seen[r].key)
         IN
         /\ call[r] \in Calls /\ m \in Materials /\ m \in born /\ Reads(call[r]) = {m}
         /\ seen[r].rows[m] \in Row /\ row \in Row
         /\ catalog' = [catalog EXCEPT ![m] = row]
         /\ history' = [history EXCEPT ![m] = Recorded(@, seen[r].rows[m].cost, row.cost)]
         /\ overtaken' = overtaken \cup Overtaken(call[r], seen[r])
         /\ Overtaken(call[r], seen[r]) \in SUBSET {m}
         /\ catalog' \in [Materials -> Row \cup {NoRow}]
         /\ history' \in [Materials -> Seq(Entry)]
         /\ overtaken' \subseteq born
<1> DEFINE m == call[r].material
           row == Saved(call[r], seen[r].rows[m], seen[r].key)
<1>1. call[r] \in Calls /\ m \in Materials /\ Reads(call[r]) = {m}
  <2>1. call[r] \in Calls
    BY DEF Grounded, InFlight
  <2> QED BY <2>1, CallFields, CallReads DEF UpsertingOps, MaterialSaves, Creates
<1>2. seen[r].rows[m] \in Row /\ m \in born
  BY <1>1 DEF Grounded, InFlight, TypeOK
<1>3. row \in Row
  <2>1. seen[r].key \in Keys \cup {NoKey}
    BY DEF Grounded, TypeOK
  <2> QED BY <1>1, <1>2, <2>1, SavedRow
<1>4. /\ catalog' = [catalog EXCEPT ![m] = row]
      /\ history' = [history EXCEPT ![m] = Recorded(@, seen[r].rows[m].cost, row.cost)]
      /\ overtaken' = overtaken \cup Overtaken(call[r], seen[r])
  BY DEF Upsert
<1>5. Overtaken(call[r], seen[r]) \in SUBSET {m}
  BY <1>1 DEF Overtaken
<1>6. catalog' \in [Materials -> Row \cup {NoRow}]
  BY <1>3, <1>4 DEF Grounded, TypeOK
<1>7. history' \in [Materials -> Seq(Entry)]
  <2>1. history[m] \in Seq(Entry) /\ seen[r].rows[m].cost \in Costs /\ row.cost \in Costs
    BY <1>1, <1>2, <1>3 DEF Grounded, TypeOK, Row
  <2>2. Recorded(history[m], seen[r].rows[m].cost, row.cost) \in Seq(Entry)
    BY <2>1, RecordedEntries
  <2> QED BY <1>4, <2>2 DEF Grounded, TypeOK
<1>8. overtaken' \subseteq born
  BY <1>2, <1>4, <1>5 DEF Grounded, TypeOK
<1> QED BY <1>1, <1>2, <1>3, <1>4, <1>5, <1>6, <1>7, <1>8

DatabaseTypes ==
  /\ catalog \in [Materials -> Row \cup {NoRow}]
  /\ history \in [Materials -> Seq(Entry)]
  /\ bom \in [Products -> [Materials -> Units \cup {NoUnit}]]

HistoryTypes ==
  /\ purchased \subseteq born /\ overtaken \subseteq born /\ born \subseteq Materials
  /\ stored \subseteq drawn /\ drawn \subseteq Keys /\ served \in 0..MaxCalls

LEMMA TypeParts == TypeOK <=> DatabaseTypes /\ HistoryTypes /\ SlotTypes
BY DEF TypeOK, DatabaseTypes, HistoryTypes, SlotTypes

\* The invariant from its parts, after a step.
LEMMA Regrounded ==
  ASSUME DatabaseTypes', HistoryTypes', SlotTypes', \A r \in Requests : InFlight(r)',
         RowsAreBorn', ReferencesResolve'
  PROVE  Grounded'
<1>1. TypeOK'
  BY DEF TypeOK, DatabaseTypes, HistoryTypes, SlotTypes
<1> QED BY <1>1 DEF Grounded

LEMMA GroundedInit == Init => Grounded
<1> SUFFICES ASSUME Init PROVE Grounded
  OBVIOUS
<1>1. TypeOK
  <2>1. DatabaseTypes
    BY DEF Init, DatabaseTypes
  <2>2. HistoryTypes
    BY CatalogAssumption DEF Init, HistoryTypes
  <2>3. SlotTypes
    BY NothingSeenTypes DEF Init, SlotTypes
  <2> QED BY <2>1, <2>2, <2>3, TypeParts
<1>2. \A r \in Requests : InFlight(r)
  BY DEF Init, InFlight, NothingSeen
<1>3. RowsAreBorn
  BY DEF Init, RowsAreBorn
<1>4. ReferencesResolve
  BY DEF Init, ReferencesResolve, References
<1> QED BY <1>1, <1>2, <1>3, <1>4 DEF Grounded

LEMMA GroundedStart ==
  ASSUME Grounded, NEW r \in Requests, NEW c \in Calls, Start(r, c)
  PROVE  Grounded'
<1>1. TypeOK'
  <2>1. DatabaseTypes'
    BY TypeParts DEF Grounded, DatabaseTypes, Start, database
  <2>2. HistoryTypes'
    <3>1. born \subseteq born' /\ born' \subseteq Materials
      BY CallFields, TypeParts DEF Grounded, HistoryTypes, Start, Creates
    <3>2. served' \in 0..MaxCalls
      BY CatalogAssumption, TypeParts DEF Grounded, HistoryTypes, Start
    <3>3. /\ purchased' = purchased /\ overtaken' = overtaken
          /\ stored' = stored /\ drawn' = drawn
      BY DEF Start, database
    <3>4. HistoryTypes
      BY TypeParts DEF Grounded
    <3> QED BY <3>1, <3>2, <3>3, <3>4 DEF HistoryTypes
  <2>3. SlotTypes'
    <3>1. FirstStep(c) \in {"idle", "count", "upload", "save", "discard"}
      BY DEF FirstStep
    <3>2. [m \in Materials |-> IF m \in Reads(c) THEN catalog[m] ELSE NoRow]
            \in [Materials -> Row \cup {NoRow}]
      BY TypeParts DEF Grounded, DatabaseTypes
    <3> QED BY <3>1, <3>2, TypeParts DEF Grounded, SlotTypes, Start, GoTo
  <2> QED BY <2>1, <2>2, <2>3 DEF TypeOK, DatabaseTypes, HistoryTypes, SlotTypes
<1>2. ASSUME NEW o \in Requests PROVE InFlight(o)'
  <2>1. CASE o # r
    <3>1. pc'[o] = pc[o] /\ call'[o] = call[o] /\ seen'[o] = seen[o] /\ born \subseteq born'
      BY <2>1, TypeParts DEF Grounded, SlotTypes, Start, GoTo
    <3> QED BY <3>1 DEF Grounded, InFlight, Reads, Creates
  <2>2. CASE o = r
    <3>1. /\ pc'[o] = FirstStep(c) /\ call'[o] = c
          /\ seen'[o].rows = [m \in Materials |-> IF m \in Reads(c) THEN catalog[m] ELSE NoRow]
      BY <2>2, TypeParts DEF Grounded, SlotTypes, Start, GoTo
    <3>2. \A m \in Reads(c) : m \in Materials /\ catalog[m] # NoRow
      BY CallReads DEF Start, Refused
    <3>3. \A m \in Materials : catalog[m] # NoRow => m \in born'
      BY DEF Grounded, RowsAreBorn, Start
    <3>4. Creates(c) => c.material \in born'
      BY DEF Start
    <3>5. /\ FirstStep(c) # "idle" /\ FirstStep(c) # "discard"
          /\ FirstStep(c) = "upload" => c.op = "setImage"
          /\ FirstStep(c) = "count" => c.op \in {"changeConsumptionUnit", "delete"}
      BY DEF FirstStep
    <3> QED BY <3>1, <3>2, <3>3, <3>4, <3>5 DEF InFlight, Reads, Creates
  <2> QED BY <2>1, <2>2
<1>3. RowsAreBorn'
  BY DEF Grounded, RowsAreBorn, Start, database
<1>4. ReferencesResolve'
  BY DEF Grounded, ReferencesResolve, References, Exists, Start, database
<1> QED BY <1>1, <1>2, <1>3, <1>4 DEF Grounded

LEMMA GroundedCount ==
  ASSUME Grounded, NEW r \in Requests, Count(r)
  PROVE  Grounded'
<1>1. UNCHANGED <<database, stored, drawn, born, served, overtaken>>
  BY DEF Count
<1>2. SlotTypes' /\ \A o \in Requests : InFlight(o)'
  <2>1. CASE End(r)
    BY <1>1, <2>1, EndingSlots, TypeParts DEF Grounded
  <2>2. CASE /\ GoTo(r, "save")
             /\ seen' = [seen EXCEPT ![r].refs = References(call[r].material)]
             /\ UNCHANGED call
    <3>1. SlotTypes'
      <4>1. References(call[r].material) \in SUBSET Products
        BY DEF References
      <4> QED BY <2>2, <4>1, TypeParts DEF Grounded, SlotTypes, GoTo
    <3>2. ASSUME NEW o \in Requests PROVE InFlight(o)'
      <4>1. CASE o # r
        <5>1. pc'[o] = pc[o] /\ call'[o] = call[o] /\ seen'[o] = seen[o]
          BY <2>2, <4>1, TypeParts DEF Grounded, SlotTypes, GoTo
        <5> QED BY <1>1, <5>1 DEF Grounded, InFlight, Reads, Creates
      <4>2. CASE o = r
        <5>1. /\ pc[o] = "count" /\ pc'[o] = "save" /\ call'[o] = call[o]
              /\ seen'[o].rows = seen[o].rows
          BY <2>2, <4>2, TypeParts DEF Grounded, SlotTypes, GoTo, Count
        <5> QED BY <1>1, <5>1 DEF Grounded, InFlight, Reads, Creates
      <4> QED BY <4>1, <4>2
    <3> QED BY <3>1, <3>2
  <2> QED BY <2>1, <2>2 DEF Count
<1>3. DatabaseTypes /\ HistoryTypes /\ RowsAreBorn /\ ReferencesResolve
  BY TypeParts DEF Grounded
<1>4. DatabaseTypes' /\ HistoryTypes'
  BY <1>1, <1>3 DEF DatabaseTypes, HistoryTypes, database
<1>5. RowsAreBorn' /\ ReferencesResolve'
  BY <1>1, <1>3 DEF RowsAreBorn, ReferencesResolve, References, Exists, database
<1> QED BY <1>2, <1>4, <1>5, Regrounded

LEMMA GroundedUpload ==
  ASSUME Grounded, NEW r \in Requests, Upload(r)
  PROVE  Grounded'
<1> PICK k \in Keys \ drawn : /\ stored' = stored \cup {k}
                             /\ drawn' = drawn \cup {k}
                             /\ seen' = [seen EXCEPT ![r].key = k]
  BY DEF Upload
<1>1. UNCHANGED <<database, born, served, overtaken, call>>
  BY DEF Upload
<1>2. SlotTypes'
  BY TypeParts DEF Grounded, SlotTypes, Upload, GoTo
<1>3. ASSUME NEW o \in Requests PROVE InFlight(o)'
  <2>1. CASE o # r
    <3>1. pc'[o] = pc[o] /\ call'[o] = call[o] /\ seen'[o] = seen[o]
      BY <2>1, TypeParts DEF Grounded, SlotTypes, Upload, GoTo
    <3> QED BY <1>1, <3>1 DEF Grounded, InFlight, Reads, Creates
  <2>2. CASE o = r
    <3>1. /\ pc[o] = "upload" /\ pc'[o] = "save" /\ call'[o] = call[o]
          /\ seen'[o].rows = seen[o].rows
      BY <2>2, TypeParts DEF Grounded, SlotTypes, Upload, GoTo
    <3> QED BY <1>1, <3>1 DEF Grounded, InFlight, Reads, Creates
  <2> QED BY <2>1, <2>2
<1>4. DatabaseTypes /\ HistoryTypes /\ RowsAreBorn /\ ReferencesResolve
  BY TypeParts DEF Grounded
<1>5. DatabaseTypes'
  BY <1>1, <1>4 DEF DatabaseTypes, database
<1>6. HistoryTypes'
  BY <1>1, <1>4 DEF HistoryTypes, database
<1>7. RowsAreBorn' /\ ReferencesResolve'
  BY <1>1, <1>4 DEF RowsAreBorn, ReferencesResolve, References, Exists, database
<1> QED BY <1>2, <1>3, <1>5, <1>6, <1>7, Regrounded

LEMMA GroundedSave ==
  ASSUME Grounded, NEW r \in Requests, SaveMaterial(r)
  PROVE  Grounded'
<1> DEFINE m == call[r].material
<1>0. /\ pc[r] = "save" /\ call[r].op \in MaterialSaves /\ Upsert(r)
      /\ UNCHANGED <<bom, purchased, stored, drawn, born, served>>
  BY DEF SaveMaterial
<1>1. /\ call[r] \in Calls /\ m \in Materials /\ m \in born /\ Reads(call[r]) = {m}
      /\ catalog' \in [Materials -> Row \cup {NoRow}]
      /\ history' \in [Materials -> Seq(Entry)]
      /\ overtaken' \subseteq born
  BY <1>0, Upserting DEF UpsertingOps
<1>2. PICK row \in Row : catalog' = [catalog EXCEPT ![m] = row]
  BY <1>0, Upserting DEF UpsertingOps
<1>3. PICK told : history' = [history EXCEPT ![m] = told]
  BY <1>0 DEF Upsert
<1>4. DatabaseTypes /\ HistoryTypes /\ SlotTypes /\ RowsAreBorn /\ ReferencesResolve
  BY TypeParts DEF Grounded
<1>5. DatabaseTypes'
  BY <1>0, <1>1, <1>4 DEF DatabaseTypes
<1>6. HistoryTypes'
  BY <1>0, <1>1, <1>4 DEF HistoryTypes
<1>7. SlotTypes' /\ \A o \in Requests : InFlight(o)'
  <2>1. CASE End(r)
    BY <1>0, <1>4, <2>1, EndingSlots DEF Grounded
  <2>2. CASE /\ call[r].op \in {"setImage", "removeImage"} /\ seen[r].rows[m].image # NoKey
             /\ GoTo(r, "discard") /\ UNCHANGED <<call, seen>>
    <3>1. SlotTypes'
      BY <1>4, <2>2 DEF SlotTypes, GoTo
    <3>2. ASSUME NEW o \in Requests PROVE InFlight(o)'
      <4>1. CASE o # r
        <5>1. pc'[o] = pc[o] /\ call'[o] = call[o] /\ seen'[o] = seen[o]
          BY <1>4, <2>2, <4>1 DEF SlotTypes, GoTo
        <5> QED BY <1>0, <5>1 DEF Grounded, InFlight, Reads, Creates
      <4>2. CASE o = r
        <5>1. pc[o] = "save" /\ pc'[o] = "discard" /\ call'[o] = call[o] /\ seen'[o] = seen[o]
          BY <1>0, <1>4, <2>2, <4>2 DEF SlotTypes, GoTo
        <5> QED BY <1>0, <2>2, <4>2, <5>1 DEF Grounded, InFlight, Reads, Creates
      <4> QED BY <4>1, <4>2
    <3> QED BY <3>1, <3>2
  <2> QED BY <2>1, <2>2 DEF SaveMaterial
<1>8. RowsAreBorn'
  BY <1>0, <1>1, <1>2, <1>4 DEF RowsAreBorn, DatabaseTypes
<1>9. ReferencesResolve'
  BY <1>0, <1>1, <1>2, <1>3, <1>4, RowsExist
     DEF ReferencesResolve, References, Exists, DatabaseTypes
<1> QED BY <1>5, <1>6, <1>7, <1>8, <1>9, Regrounded

LEMMA GroundedInvoice ==
  ASSUME Grounded, NEW r \in Requests, RecordInvoice(r)
  PROVE  Grounded'
<1> DEFINE m == call[r].material
<1>0. /\ pc[r] = "save" /\ call[r].op \in UpsertingOps /\ End(r)
      /\ UNCHANGED <<bom, stored, drawn, born, served>>
  BY DEF RecordInvoice, UpsertingOps, database
<1>1. call[r] \in Calls /\ m \in Materials /\ m \in born
  <2>1. call[r] \in Calls /\ Reads(call[r]) = {m} /\ m \in Materials
    BY <1>0, CallFields, CallReads DEF Grounded, InFlight, UpsertingOps, MaterialSaves, Creates
  <2> QED BY <2>1 DEF Grounded, InFlight, RecordInvoice
<1>4. DatabaseTypes /\ HistoryTypes /\ SlotTypes /\ RowsAreBorn /\ ReferencesResolve
  BY TypeParts DEF Grounded
<1>7. SlotTypes' /\ \A o \in Requests : InFlight(o)'
  BY <1>0, <1>4, EndingSlots DEF Grounded
<1>8. CASE UNCHANGED <<database, overtaken>>
  BY <1>0, <1>4, <1>7, <1>8, Regrounded
     DEF database, DatabaseTypes, HistoryTypes, RowsAreBorn, ReferencesResolve, References, Exists
<1>9. CASE /\ catalog[m] # NoRow
           /\ purchased' = purchased \cup {m}
           /\ UNCHANGED <<catalog, history, overtaken>>
  <2>1. DatabaseTypes' /\ HistoryTypes'
    BY <1>0, <1>1, <1>4, <1>9 DEF DatabaseTypes, HistoryTypes
  <2>2. RowsAreBorn' /\ ReferencesResolve'
    BY <1>0, <1>4, <1>9 DEF RowsAreBorn, ReferencesResolve, References, Exists
  <2> QED BY <1>7, <2>1, <2>2, Regrounded
<1>10. CASE purchased' = purchased \cup {m} /\ Upsert(r)
  <2>1. /\ catalog' \in [Materials -> Row \cup {NoRow}]
        /\ history' \in [Materials -> Seq(Entry)]
        /\ overtaken' \subseteq born
    BY <1>0, <1>10, Upserting
  <2>2. PICK row \in Row : catalog' = [catalog EXCEPT ![m] = row]
    BY <1>0, <1>10, Upserting
  <2>3. PICK told : history' = [history EXCEPT ![m] = told]
    BY <1>10 DEF Upsert
  <2>4. DatabaseTypes'
    BY <1>0, <1>4, <2>1 DEF DatabaseTypes
  <2>5. HistoryTypes'
    BY <1>0, <1>1, <1>4, <1>10, <2>1 DEF HistoryTypes
  <2>6. RowsAreBorn'
    BY <1>0, <1>1, <1>4, <2>2 DEF RowsAreBorn, DatabaseTypes
  <2>7. ReferencesResolve'
    BY <1>0, <1>1, <1>4, <1>10, <2>2, <2>3, RowsExist
       DEF ReferencesResolve, References, Exists, DatabaseTypes
  <2> QED BY <1>7, <2>4, <2>5, <2>6, <2>7, Regrounded
<1>11. \/ UNCHANGED <<database, overtaken>>
       \/ /\ catalog[m] # NoRow
          /\ purchased' = purchased \cup {m}
          /\ UNCHANGED <<catalog, history, overtaken>>
       \/ purchased' = purchased \cup {m} /\ Upsert(r)
  BY DEF RecordInvoice
<1> QED BY <1>8, <1>9, <1>10, <1>11

LEMMA GroundedCreate ==
  ASSUME Grounded, NEW r \in Requests, CreateMaterial(r)
  PROVE  Grounded'
<1> DEFINE c == call[r]
           row == [active |-> TRUE, cost |-> c.cost, unit |-> c.unit, held |-> c.held,
                   image |-> NoKey]
<1>0. /\ pc[r] = "save" /\ Creates(c) /\ End(r)
      /\ catalog' = [catalog EXCEPT ![c.material] = row]
      /\ history' = [history EXCEPT ![c.material] = Recorded(<<>>, 0, c.cost)]
      /\ purchased' = IF c.op = "createFromInvoice" THEN purchased \cup {c.material} ELSE purchased
      /\ UNCHANGED <<bom, stored, drawn, born, served, overtaken>>
  BY DEF CreateMaterial
<1>1. c \in Calls /\ c.material \in Materials /\ c.material \in born
  BY <1>0, CallFields DEF Grounded, InFlight, Creates
<1>2. row \in Row /\ c.cost \in Costs
  BY <1>0, <1>1, CallFields DEF Row, Creates
<1>3. Recorded(<<>>, 0, c.cost) \in Seq(Entry)
  <2>1. <<>> \in Seq(Entry)
    OBVIOUS
  <2>2. 0 \in Costs
    BY CatalogAssumption DEF Costs
  <2> QED BY <1>2, <2>1, <2>2, RecordedEntries
<1>4. DatabaseTypes /\ HistoryTypes /\ SlotTypes /\ RowsAreBorn /\ ReferencesResolve
  BY TypeParts DEF Grounded
<1>5. DatabaseTypes'
  BY <1>0, <1>2, <1>3, <1>4 DEF DatabaseTypes
<1>6. HistoryTypes'
  BY <1>0, <1>1, <1>4 DEF HistoryTypes
<1>7. SlotTypes' /\ \A o \in Requests : InFlight(o)'
  BY <1>0, <1>4, EndingSlots DEF Grounded
<1>8. RowsAreBorn'
  BY <1>0, <1>1, <1>4 DEF RowsAreBorn, DatabaseTypes
<1>9. ReferencesResolve'
  <2>1. ASSUME NEW m \in Materials, m # c.material
        PROVE  catalog'[m] = catalog[m] /\ history'[m] = history[m] /\ (m \in purchased' <=> m \in purchased)
    BY <1>0, <1>4, <2>1 DEF DatabaseTypes
  <2>2. catalog'[c.material] # NoRow
    BY <1>0, <1>1, <1>2, <1>4, RowsExist DEF DatabaseTypes
  <2> QED BY <1>0, <1>4, <2>1, <2>2 DEF ReferencesResolve, References, Exists
<1> QED BY <1>5, <1>6, <1>7, <1>8, <1>9, Regrounded

LEMMA GroundedDelete ==
  ASSUME Grounded, NEW r \in Requests, DeleteMaterial(r)
  PROVE  Grounded'
<1> DEFINE m == call[r].material
<1>0. /\ End(r) /\ UNCHANGED <<bom, purchased, stored, drawn, born, served, overtaken>>
  BY DEF DeleteMaterial
<1>4. DatabaseTypes /\ HistoryTypes /\ SlotTypes /\ RowsAreBorn /\ ReferencesResolve
  BY TypeParts DEF Grounded
<1>6. HistoryTypes'
  BY <1>0, <1>4 DEF HistoryTypes
<1>7. SlotTypes' /\ \A o \in Requests : InFlight(o)'
  BY <1>0, <1>4, EndingSlots DEF Grounded
<1>8. CASE UNCHANGED <<catalog, history>>
  <2>1. DatabaseTypes' /\ RowsAreBorn' /\ ReferencesResolve'
    BY <1>0, <1>4, <1>8 DEF DatabaseTypes, RowsAreBorn, ReferencesResolve, References, Exists
  <2> QED BY <1>6, <1>7, <2>1, Regrounded
<1>9. CASE /\ References(m) = {} /\ m \notin purchased
           /\ catalog' = [catalog EXCEPT ![m] = NoRow]
           /\ history' = [history EXCEPT ![m] = <<>>]
  <2>0. <<>> \in Seq(Entry)
    OBVIOUS
  <2>1. DatabaseTypes'
    BY <1>0, <1>4, <1>9, <2>0 DEF DatabaseTypes
  <2>2. RowsAreBorn'
    BY <1>0, <1>4, <1>9 DEF RowsAreBorn, DatabaseTypes
  <2>3. ASSUME NEW o \in Materials, o # m
        PROVE  catalog'[o] = catalog[o] /\ history'[o] = history[o]
    BY <1>4, <1>9, <2>3 DEF DatabaseTypes
  <2>4. m \in Materials => history'[m] = <<>>
    BY <1>4, <1>9 DEF DatabaseTypes
  <2>5. ReferencesResolve'
    BY <1>0, <1>4, <1>9, <2>3, <2>4 DEF ReferencesResolve, References, Exists
  <2> QED BY <1>6, <1>7, <2>1, <2>2, <2>5, Regrounded
<1> QED BY <1>8, <1>9 DEF DeleteMaterial

LEMMA GroundedBill ==
  ASSUME Grounded, NEW r \in Requests, SaveBill(r)
  PROVE  Grounded'
<1> DEFINE c == call[r]
           units == [m \in Materials |->
                       IF m \in c.materials THEN seen[r].rows[m].unit ELSE NoUnit]
<1>0. /\ pc[r] = "save" /\ c.op = "saveBill" /\ End(r)
      /\ UNCHANGED <<catalog, history, purchased, stored, drawn, born, served>>
  BY DEF SaveBill
<1>1. c \in Calls /\ c.product \in Products /\ Reads(c) = c.materials
  BY <1>0, CallFields, CallReads DEF Grounded, InFlight
<1>4. DatabaseTypes /\ HistoryTypes /\ SlotTypes /\ RowsAreBorn /\ ReferencesResolve
  BY TypeParts DEF Grounded
<1>2. units \in [Materials -> Units \cup {NoUnit}]
  <2>1. ASSUME NEW m \in Materials, m \in c.materials PROVE seen[r].rows[m].unit \in Units
    <3>1. seen[r].rows[m] \in Row
      BY <1>0, <1>1, <1>4, <2>1 DEF SlotTypes, Grounded, InFlight
    <3> QED BY <3>1 DEF Row
  <2> QED BY <2>1
<1>3. overtaken' \subseteq born
  <2>1. Overtaken(c, seen[r]) \subseteq c.materials
    BY <1>1 DEF Overtaken
  <2>2. c.materials \subseteq born
    <3>1. \A m \in c.materials : m \in Materials /\ seen[r].rows[m] # NoRow
      BY <1>0, <1>1, CallReads DEF Grounded, InFlight
    <3> QED BY <3>1 DEF Grounded, InFlight
  <2>3. overtaken' \subseteq overtaken \cup Overtaken(c, seen[r])
    BY DEF SaveBill
  <2> QED BY <1>4, <2>1, <2>2, <2>3 DEF HistoryTypes
<1>6. HistoryTypes'
  BY <1>0, <1>3, <1>4 DEF HistoryTypes
<1>7. SlotTypes' /\ \A o \in Requests : InFlight(o)'
  BY <1>0, <1>4, EndingSlots DEF Grounded
<1>8. RowsAreBorn'
  BY <1>0, <1>4 DEF RowsAreBorn
<1>9. CASE UNCHANGED bom
  <2>1. DatabaseTypes' /\ ReferencesResolve'
    BY <1>0, <1>4, <1>9 DEF DatabaseTypes, ReferencesResolve, References, Exists
  <2> QED BY <1>6, <1>7, <1>8, <2>1, Regrounded
<1>10. CASE (\A m \in c.materials : catalog[m] # NoRow) /\ bom' = [bom EXCEPT ![c.product] = units]
  <2>1. DatabaseTypes'
    BY <1>0, <1>2, <1>4, <1>10 DEF DatabaseTypes
  <2>2. ASSUME NEW m \in Materials, catalog[m] = NoRow PROVE References(m)' \subseteq References(m)
    <3>1. \A p \in Products : p # c.product => bom'[p] = bom[p]
      BY <1>4, <1>10 DEF DatabaseTypes
    <3>2. bom'[c.product][m] = NoUnit
      BY <1>1, <1>4, <1>10, <2>2 DEF DatabaseTypes
    <3> QED BY <3>1, <3>2 DEF References
  <2>3. ReferencesResolve'
    BY <1>0, <1>4, <2>2 DEF ReferencesResolve, Exists
  <2> QED BY <1>6, <1>7, <1>8, <2>1, <2>3, Regrounded
<1> QED BY <1>9, <1>10 DEF SaveBill

LEMMA GroundedEnd ==
  ASSUME Grounded, NEW r \in Requests, Discard(r) \/ Fail(r)
  PROVE  Grounded'
<1>1. End(r) /\ UNCHANGED <<database, drawn, born, served, overtaken>> /\ stored' \subseteq stored
  BY DEF Discard, Fail
<1>4. DatabaseTypes /\ HistoryTypes /\ SlotTypes /\ RowsAreBorn /\ ReferencesResolve
  BY TypeParts DEF Grounded
<1>2. DatabaseTypes' /\ HistoryTypes'
  BY <1>1, <1>4 DEF DatabaseTypes, HistoryTypes, database
<1>3. RowsAreBorn' /\ ReferencesResolve'
  BY <1>1, <1>4 DEF RowsAreBorn, ReferencesResolve, References, Exists, database
<1>5. SlotTypes' /\ \A o \in Requests : InFlight(o)'
  BY <1>1, <1>4, EndingSlots DEF Grounded
<1> QED BY <1>2, <1>3, <1>5, Regrounded

LEMMA GroundedStutter ==
  ASSUME Grounded, UNCHANGED vars
  PROVE  Grounded'
<1>1. UNCHANGED <<catalog, history, bom, purchased, stored, drawn, born, served, overtaken,
                  pc, call, seen>>
  BY DEF vars, database
<1>4. DatabaseTypes /\ HistoryTypes /\ SlotTypes /\ RowsAreBorn /\ ReferencesResolve
  BY TypeParts DEF Grounded
<1>2. DatabaseTypes' /\ HistoryTypes' /\ SlotTypes'
  BY <1>1, <1>4 DEF DatabaseTypes, HistoryTypes, SlotTypes
<1>3. RowsAreBorn' /\ ReferencesResolve'
  BY <1>1, <1>4 DEF RowsAreBorn, ReferencesResolve, References, Exists
<1>5. \A o \in Requests : InFlight(o)'
  BY <1>1 DEF Grounded, InFlight, Reads, Creates
<1> QED BY <1>2, <1>3, <1>5, Regrounded

LEMMA GroundedStep == Grounded /\ [Next]_vars => Grounded'
<1> SUFFICES ASSUME Grounded, [Next]_vars PROVE Grounded'
  OBVIOUS
<1>1. CASE UNCHANGED vars
  BY <1>1, GroundedStutter
<1>2. ASSUME NEW r \in Requests,
             \/ \E c \in Calls : Start(r, c)
             \/ Count(r) \/ Upload(r)
             \/ SaveMaterial(r) \/ RecordInvoice(r) \/ CreateMaterial(r) \/ DeleteMaterial(r)
             \/ SaveBill(r) \/ Discard(r) \/ Fail(r)
      PROVE  Grounded'
  BY <1>2, GroundedStart, GroundedCount, GroundedUpload, GroundedSave, GroundedInvoice,
     GroundedCreate, GroundedDelete, GroundedBill, GroundedEnd
<1> QED BY <1>1, <1>2 DEF Next

LEMMA AlwaysGrounded == Spec => []Grounded
BY GroundedInit, GroundedStep, PTL DEF Spec

\* Rows, calls in flight and what they read keep the shapes their columns and
\* handlers give them (schema.prisma, MaterialsService).
THEOREM TypeCorrect == Spec => []TypeOK
<1>1. Grounded => TypeOK
  BY DEF Grounded
<1> QED BY <1>1, AlwaysGrounded, PTL

\* Whatever calls overlap and wherever they fail, every bill, purchase line and
\* history entry names a material that is there (MaterialsService.delete).
THEOREM ReferencesAlwaysResolve == Spec => []ReferencesResolve
<1>1. Grounded => ReferencesResolve
  BY DEF Grounded
<1> QED BY <1>1, AlwaysGrounded, PTL

-----------------------------------------------------------------------------
(* The price history.                                                      *)

\* What a step does to the rows, the history and the bills.
UpsertStep(r) ==
  /\ pc[r] = "save" /\ call[r].op \in UpsertingOps
  /\ Upsert(r) /\ UNCHANGED bom
  /\ GoTo(r, "discard") \/ End(r)

CreateStep(r) ==
  LET c == call[r] IN
  /\ pc[r] = "save" /\ Creates(c)
  /\ catalog' = [catalog EXCEPT ![c.material] =
                   [active |-> TRUE, cost |-> c.cost, unit |-> c.unit, held |-> c.held,
                    image |-> NoKey]]
  /\ history' = [history EXCEPT ![c.material] = Recorded(<<>>, 0, c.cost)]
  /\ End(r) /\ UNCHANGED <<bom, overtaken>>

DeleteStep(m) ==
  /\ References(m) = {}
  /\ catalog' = [catalog EXCEPT ![m] = NoRow]
  /\ history' = [history EXCEPT ![m] = <<>>]
  /\ UNCHANGED <<bom, overtaken>>

BillStep(r) ==
  LET c == call[r] IN
  /\ pc[r] = "save" /\ c.op = "saveBill"
  /\ bom' = [bom EXCEPT ![c.product] =
               [m \in Materials |-> IF m \in c.materials THEN seen[r].rows[m].unit ELSE NoUnit]]
  /\ overtaken' = overtaken \cup Overtaken(c, seen[r])
  /\ UNCHANGED <<catalog, history>>

LEMMA RowSteps ==
  ASSUME [Next]_vars
  PROVE  \/ UNCHANGED <<catalog, history, bom, overtaken>>
         \/ \E r \in Requests : UpsertStep(r)
         \/ \E r \in Requests : CreateStep(r)
         \/ \E r \in Requests : DeleteStep(call[r].material)
         \/ \E r \in Requests : BillStep(r)
<1>1. CASE UNCHANGED vars
  BY <1>1 DEF vars, database
<1>2. ASSUME NEW r \in Requests, \E c \in Calls : Start(r, c)
      PROVE  UNCHANGED <<catalog, history, bom, overtaken>>
  BY <1>2 DEF Start, database
<1>3. ASSUME NEW r \in Requests, Count(r) \/ Upload(r) \/ Discard(r) \/ Fail(r)
      PROVE  UNCHANGED <<catalog, history, bom, overtaken>>
  BY <1>3 DEF Count, Upload, Discard, Fail, database
<1>4. ASSUME NEW r \in Requests, SaveMaterial(r) PROVE UpsertStep(r)
  BY <1>4 DEF SaveMaterial, UpsertStep, UpsertingOps
<1>5. ASSUME NEW r \in Requests, RecordInvoice(r)
      PROVE  UNCHANGED <<catalog, history, bom, overtaken>> \/ UpsertStep(r)
  BY <1>5 DEF RecordInvoice, UpsertStep, UpsertingOps, database
<1>6. ASSUME NEW r \in Requests, CreateMaterial(r) PROVE CreateStep(r)
  BY <1>6 DEF CreateMaterial, CreateStep
<1>7. ASSUME NEW r \in Requests, DeleteMaterial(r)
      PROVE  UNCHANGED <<catalog, history, bom, overtaken>> \/ DeleteStep(call[r].material)
  BY <1>7 DEF DeleteMaterial, DeleteStep
<1>8. ASSUME NEW r \in Requests, SaveBill(r)
      PROVE  UNCHANGED <<catalog, history, bom, overtaken>> \/ BillStep(r)
  BY <1>8 DEF SaveBill, BillStep
<1> QED BY <1>1, <1>2, <1>3, <1>4, <1>5, <1>6, <1>7, <1>8 DEF Next

\* A save that does not overtake its material rests on the row as it is.
LEMMA UpsertOnCurrent ==
  ASSUME Grounded, NEW r \in Requests, UpsertStep(r), call[r].material \notin overtaken'
  PROVE  /\ catalog[call[r].material] = seen[r].rows[call[r].material]
         /\ call[r].op = "changeConsumptionUnit" =>
              References(call[r].material) = seen[r].refs
<1>1. /\ Reads(call[r]) = {call[r].material}
      /\ overtaken' = overtaken \cup Overtaken(call[r], seen[r])
  BY Upserting DEF UpsertStep
<1>2. call[r].material \in Reads(call[r]) /\ call[r].material \notin Overtaken(call[r], seen[r])
  BY <1>1
<1>3. call[r].op # "saveBill"
  BY DEF UpsertStep, UpsertingOps, MaterialSaves
<1> QED BY <1>2, <1>3 DEF Overtaken

\* A history that tells a cost tells the next one once it is recorded.
LEMMA TellsRecorded ==
  ASSUME NEW entries \in Seq(Entry), NEW before \in Costs, NEW after \in Costs,
         Tells(entries, before)
  PROVE  Tells(Recorded(entries, before, after), after)
<1> DEFINE e == [previous |-> before, new |-> after]
           n == Len(entries)
<1>1. CASE before = after
  BY <1>1 DEF Recorded
<1>2. CASE before # after
  <2> DEFINE es == Append(entries, e)
  <2>1. Recorded(entries, before, after) = es
    BY <1>2 DEF Recorded
  <2>2. /\ n \in Nat /\ Len(es) = n + 1 /\ es # <<>>
        /\ es[n + 1] = e
        /\ \A i \in 1..n : es[i] = entries[i]
        /\ entries = <<>> <=> n = 0
    BY DEF Entry
  <2>3. es[Len(es)].new = after
    BY <2>2
  <2>4. ASSUME NEW i \in 1..Len(es)
        PROVE  /\ es[i].previous = IF i = 1 THEN 0 ELSE es[i - 1].new
               /\ es[i].new # es[i].previous
    <3>1. CASE i \in 1..n
      <4>1. es[i] = entries[i] /\ (i # 1 => es[i - 1] = entries[i - 1])
        BY <2>2, <3>1
      <4> QED BY <3>1, <4>1 DEF Tells
    <3>2. CASE i = n + 1
      <4>1. before = IF n = 0 THEN 0 ELSE entries[n].new
        BY <2>2 DEF Tells
      <4>2. n # 0 => es[i - 1] = entries[n]
        BY <2>2, <3>2
      <4>3. es[i].previous = before /\ es[i].new = after
        BY <2>2, <3>2
      <4> QED BY <1>2, <2>2, <3>2, <4>1, <4>2, <4>3
    <3> QED BY <2>2, <3>1, <3>2
  <2> HIDE DEF es
  <2> QED BY <2>1, <2>2, <2>3, <2>4 DEF Tells
<1> QED BY <1>1, <1>2

LEMMA HistoryStep == Grounded /\ HistoryTellsTheCost /\ [Next]_vars => HistoryTellsTheCost'
<1> SUFFICES ASSUME Grounded, HistoryTellsTheCost, [Next]_vars,
                    NEW m \in Materials, m \notin overtaken', Exists(m)'
             PROVE  Tells(history'[m], catalog'[m].cost)
  BY DEF HistoryTellsTheCost
<1>0. /\ catalog \in [Materials -> Row \cup {NoRow}]
      /\ history \in [Materials -> Seq(Entry)]
  BY DEF Grounded, TypeOK
<1>1. ASSUME m \notin overtaken, catalog'[m] = catalog[m], history'[m] = history[m]
      PROVE  Tells(history'[m], catalog'[m].cost)
  BY <1>1 DEF HistoryTellsTheCost, Exists
<1>2. CASE UNCHANGED <<catalog, history, bom, overtaken>>
  BY <1>1, <1>2
<1>3. ASSUME NEW r \in Requests, UpsertStep(r) PROVE Tells(history'[m], catalog'[m].cost)
  <2> DEFINE o == call[r].material
             read == seen[r].rows[o]
             row == Saved(call[r], read, seen[r].key)
  <2>1. /\ o \in Materials /\ read \in Row /\ row \in Row
        /\ catalog' = [catalog EXCEPT ![o] = row]
        /\ history' = [history EXCEPT ![o] = Recorded(@, read.cost, row.cost)]
        /\ overtaken \subseteq overtaken'
    BY <1>3, Upserting DEF UpsertStep
  <2>2. CASE m # o
    BY <1>0, <1>1, <2>1, <2>2
  <2>3. CASE m = o
    <3>1. catalog[m] = read
      BY <1>3, <2>3, UpsertOnCurrent
    <3>2. Tells(history[m], read.cost)
      BY <2>1, <3>1, RowsExist DEF HistoryTellsTheCost, Exists
    <3>3. read.cost \in Costs /\ row.cost \in Costs
      BY <2>1 DEF Row
    <3>4. history'[m] = Recorded(history[m], read.cost, row.cost) /\ catalog'[m] = row
      BY <1>0, <2>1, <2>3
    <3> QED BY <1>0, <3>2, <3>3, <3>4, TellsRecorded
  <2> QED BY <2>2, <2>3
<1>4. ASSUME NEW r \in Requests, CreateStep(r) PROVE Tells(history'[m], catalog'[m].cost)
  <2> DEFINE c == call[r]
  <2>1. CASE m # c.material
    BY <1>0, <1>1, <1>4, <2>1 DEF CreateStep
  <2>2. CASE m = c.material
    <3>1. c.cost \in Costs
      BY <1>4, CallFields DEF CreateStep, Creates, Grounded, InFlight
    <3>2. history'[m] = Recorded(<<>>, 0, c.cost) /\ catalog'[m].cost = c.cost
      BY <1>0, <1>4, <2>2 DEF CreateStep
    <3>3. <<>> \in Seq(Entry) /\ 0 \in Costs
      BY CatalogAssumption DEF Costs
    <3>4. Tells(<<>>, 0)
      BY DEF Tells
    <3> QED BY <3>1, <3>2, <3>3, <3>4, TellsRecorded
  <2> QED BY <2>1, <2>2
<1>5. ASSUME NEW r \in Requests, DeleteStep(call[r].material)
      PROVE  Tells(history'[m], catalog'[m].cost)
  <2>1. m # call[r].material
    BY <1>0, <1>5 DEF DeleteStep, Exists
  <2> QED BY <1>0, <1>1, <1>5, <2>1 DEF DeleteStep
<1>6. ASSUME NEW r \in Requests, BillStep(r) PROVE Tells(history'[m], catalog'[m].cost)
  BY <1>1, <1>6 DEF BillStep
<1> QED BY <1>2, <1>3, <1>4, <1>5, <1>6, RowSteps

\* The history tells every cost a material ever had, for any number of changes
\* and whatever fails, unless a call wrote on an outdated reading
\* (MaterialsService.create, update, registerStockEntry; applyPackageCost).
THEOREM HistoryAlwaysTells == Spec => []HistoryTellsTheCost
<1>1. Init => HistoryTellsTheCost
  BY DEF Init, HistoryTellsTheCost, Exists
<1> QED BY <1>1, AlwaysGrounded, HistoryStep, PTL DEF Spec

-----------------------------------------------------------------------------
(* The unit of the recipes.                                                *)

\* What a step does to the slots: one moves, the others stay.
LEMMA SlotSteps ==
  ASSUME Grounded, [Next]_vars
  PROVE  \/ UNCHANGED slots
         \/ \E r \in Requests :
              /\ \A o \in Requests \ {r} :
                   pc'[o] = pc[o] /\ call'[o] = call[o] /\ seen'[o] = seen[o]
              /\ \/ \E c \in Calls : Start(r, c)
                 \/ /\ pc[r] = "count" /\ ~ Locked(call[r], seen[r].rows[call[r].material])
                    /\ pc'[r] = "save" /\ call'[r] = call[r]
                    /\ seen'[r].refs = References(call[r].material) /\ seen'[r].rows = seen[r].rows
                 \/ /\ Upload(r) /\ pc'[r] = "save" /\ call'[r] = call[r]
                    /\ seen'[r].rows = seen[r].rows
                 \/ /\ SaveMaterial(r) /\ pc'[r] = "discard"
                    /\ call'[r] = call[r] /\ seen'[r] = seen[r]
                 \/ pc'[r] = "idle" /\ call'[r] = NoCall /\ seen'[r] = NothingSeen
<1> SUFFICES ASSUME NEW r \in Requests,
                    \/ \E c \in Calls : Start(r, c)
                    \/ Count(r) \/ Upload(r)
                    \/ SaveMaterial(r) \/ RecordInvoice(r) \/ CreateMaterial(r)
                    \/ DeleteMaterial(r) \/ SaveBill(r) \/ Discard(r) \/ Fail(r)
             PROVE  /\ \A o \in Requests \ {r} :
                         pc'[o] = pc[o] /\ call'[o] = call[o] /\ seen'[o] = seen[o]
                    /\ \/ \E c \in Calls : Start(r, c)
                       \/ /\ pc[r] = "count" /\ ~ Locked(call[r], seen[r].rows[call[r].material])
                          /\ pc'[r] = "save" /\ call'[r] = call[r]
                          /\ seen'[r].refs = References(call[r].material)
                          /\ seen'[r].rows = seen[r].rows
                       \/ /\ Upload(r) /\ pc'[r] = "save" /\ call'[r] = call[r]
                          /\ seen'[r].rows = seen[r].rows
                       \/ /\ SaveMaterial(r) /\ pc'[r] = "discard"
                          /\ call'[r] = call[r] /\ seen'[r] = seen[r]
                       \/ pc'[r] = "idle" /\ call'[r] = NoCall /\ seen'[r] = NothingSeen
  BY DEF Next, vars, slots
<1>0. SlotTypes
  BY TypeParts DEF Grounded
<1>1. ASSUME End(r)
      PROVE  /\ \A o \in Requests \ {r} :
                  pc'[o] = pc[o] /\ call'[o] = call[o] /\ seen'[o] = seen[o]
             /\ pc'[r] = "idle" /\ call'[r] = NoCall /\ seen'[r] = NothingSeen
  BY <1>0, <1>1 DEF SlotTypes, End, GoTo
<1>2. CASE \E c \in Calls : Start(r, c)
  BY <1>0, <1>2 DEF SlotTypes, Start, GoTo
<1>3. CASE Count(r)
  <2>1. CASE End(r)
    BY <1>1, <2>1
  <2>2. CASE /\ ~ Locked(call[r], seen[r].rows[call[r].material]) /\ GoTo(r, "save")
             /\ seen' = [seen EXCEPT ![r].refs = References(call[r].material)]
             /\ UNCHANGED call
    <3>1. pc[r] = "count"
      BY <1>3 DEF Count
    <3>2. /\ \A o \in Requests \ {r} :
               pc'[o] = pc[o] /\ call'[o] = call[o] /\ seen'[o] = seen[o]
          /\ pc'[r] = "save" /\ call'[r] = call[r]
          /\ seen'[r].refs = References(call[r].material) /\ seen'[r].rows = seen[r].rows
      BY <1>0, <2>2 DEF SlotTypes, GoTo
    <3> QED BY <2>2, <3>1, <3>2
  <2> QED BY <1>3, <2>1, <2>2 DEF Count
<1>4. CASE Upload(r)
  <2>1. PICK k \in Keys : seen' = [seen EXCEPT ![r].key = k]
    BY <1>4 DEF Upload
  <2>2. UNCHANGED call /\ GoTo(r, "save")
    BY <1>4 DEF Upload
  <2> QED BY <1>0, <1>4, <2>1, <2>2 DEF SlotTypes, GoTo
<1>5. CASE SaveMaterial(r)
  <2>1. CASE End(r)
    BY <1>1, <2>1
  <2>2. CASE GoTo(r, "discard") /\ UNCHANGED <<call, seen>>
    BY <1>0, <1>5, <2>2 DEF SlotTypes, GoTo
  <2> QED BY <1>5, <2>1, <2>2 DEF SaveMaterial
<1>6. CASE \/ RecordInvoice(r) \/ CreateMaterial(r) \/ DeleteMaterial(r)
           \/ SaveBill(r) \/ Discard(r) \/ Fail(r)
  BY <1>1, <1>6 DEF RecordInvoice, CreateMaterial, DeleteMaterial, SaveBill, Discard, Fail
<1> QED BY <1>2, <1>3, <1>4, <1>5, <1>6

\* What a slot that does not start a call keeps.
LEMMA SlotKeeps ==
  ASSUME Grounded, [Next]_vars, NEW o \in Requests
  PROVE  \/ \E c \in Calls : Start(o, c)
         \/ call'[o] = call[o] /\ seen'[o].rows = seen[o].rows
         \/ call'[o] = NoCall /\ seen'[o] = NothingSeen
BY SlotSteps DEF slots

\* The id a creation in flight drew is nowhere yet: not in the catalogue, not in
\* what any call read, not drawn by another creation.
Unborn(r) ==
  Creates(call[r]) =>
    LET m == call[r].material IN
    /\ catalog[m] = NoRow
    /\ \A o \in Requests : seen[o].rows[m] = NoRow
    /\ \A o \in Requests \ {r} : Creates(call[o]) => call[o].material # m

\* A call that changes a unit goes on only if no bill mentioned the material.
Unlocked(r) ==
  pc[r] = "save" /\ call[r].op = "changeConsumptionUnit" =>
    \/ call[r].unit = seen[r].rows[call[r].material].unit
    \/ seen[r].refs = {}

Ordered == Grounded /\ \A r \in Requests : Unborn(r) /\ Unlocked(r)

LEMMA OrderedInit == Init => Ordered
BY GroundedInit DEF Init, Ordered, Unborn, Unlocked, Creates, NoCall

\* A creation in flight drew its id when it started, or is the one that starts.
LEMMA UnbornBefore ==
  ASSUME Ordered, [Next]_vars, NEW r \in Requests, Creates(call'[r])
  PROVE  LET m == call'[r].material IN
         /\ catalog[m] = NoRow
         /\ \A o \in Requests : seen[o].rows[m] = NoRow
         /\ \A o \in Requests \ {r} : Creates(call[o]) => call[o].material # m
<1>1. CASE call'[r] = call[r]
  BY <1>1 DEF Ordered, Unborn
<1>2. CASE \E c \in Calls : Start(r, c)
  <2>1. PICK c \in Calls : Start(r, c)
    BY <1>2
  <2>2. call'[r] = c /\ c.material \notin born
    BY <2>1 DEF Ordered, Grounded, TypeOK, Start
  <2>3. c.material \in Materials
    BY <2>2, CallFields DEF Creates
  <2>4. \A o \in Requests : Creates(call[o]) => call[o].material \in born
    BY DEF Ordered, Grounded, InFlight, Creates, NoCall
  <2> QED BY <2>2, <2>3, <2>4 DEF Ordered, Grounded, InFlight, RowsAreBorn
<1>3. call'[r] = NoCall => ~ Creates(call'[r])
  BY DEF Creates, NoCall
<1> QED BY <1>1, <1>2, <1>3, SlotSteps DEF Ordered, slots

LEMMA UnbornStep ==
  ASSUME Ordered, [Next]_vars, NEW r \in Requests
  PROVE  Unborn(r)'
<1> SUFFICES ASSUME Creates(call'[r])
             PROVE  LET m == call'[r].material IN
                    /\ catalog'[m] = NoRow
                    /\ \A o \in Requests : seen'[o].rows[m] = NoRow
                    /\ \A o \in Requests \ {r} : Creates(call'[o]) => call'[o].material # m
  BY DEF Unborn, Creates
<1> DEFINE m == call'[r].material
<1>1. /\ catalog[m] = NoRow
      /\ \A o \in Requests : seen[o].rows[m] = NoRow
      /\ \A o \in Requests \ {r} : Creates(call[o]) => call[o].material # m
  BY UnbornBefore
<1>2. /\ Grounded' /\ Grounded
      /\ catalog \in [Materials -> Row \cup {NoRow}]
  BY GroundedStep DEF Ordered, Grounded, TypeOK
<1>3. call'[r] \in Calls /\ m \in Materials /\ m \in born'
  BY <1>2, CallFields DEF Grounded, InFlight, Creates, NoCall
<1>4. catalog'[m] = NoRow
  <2>1. ASSUME NEW o \in Requests, UpsertStep(o) PROVE catalog'[m] = NoRow
    <3>1. PICK row \in Row : catalog' = [catalog EXCEPT ![call[o].material] = row]
      BY <1>2, <2>1, Upserting DEF UpsertStep
    <3>2. seen[o].rows[call[o].material] # NoRow
      BY <1>2, <2>1, Upserting, RowsExist DEF UpsertStep
    <3> QED BY <1>1, <1>2, <3>1, <3>2
  <2>2. ASSUME NEW o \in Requests, CreateStep(o) PROVE catalog'[m] = NoRow
    <3>1. o # r
      BY <2>2 DEF CreateStep, End, Creates, NoCall, Ordered, Grounded, TypeOK
    <3>2. call[o].material # m
      BY <1>1, <2>2, <3>1 DEF CreateStep
    <3> QED BY <1>1, <1>2, <2>2, <3>2 DEF CreateStep
  <2>3. ASSUME NEW o \in Requests, DeleteStep(call[o].material) PROVE catalog'[m] = NoRow
    BY <1>1, <1>2, <1>3, <2>3 DEF DeleteStep
  <2>4. ASSUME NEW o \in Requests, BillStep(o) PROVE catalog'[m] = NoRow
    BY <1>1, <2>4 DEF BillStep
  <2> QED BY <1>1, <2>1, <2>2, <2>3, <2>4, RowSteps
<1>5. ASSUME NEW o \in Requests PROVE seen'[o].rows[m] = NoRow
  <2>1. CASE call'[o] = call[o] /\ seen'[o].rows = seen[o].rows
    BY <1>1, <2>1
  <2>2. CASE call'[o] = NoCall /\ seen'[o] = NothingSeen
    BY <1>3, <2>2 DEF NothingSeen
  <2>3. CASE \E c \in Calls : Start(o, c)
    <3>1. PICK c \in Calls : Start(o, c)
      BY <2>3
    <3>2. seen'[o].rows = [n \in Materials |-> IF n \in Reads(c) THEN catalog[n] ELSE NoRow]
      BY <1>2, <3>1 DEF Start, Grounded, TypeOK
    <3> QED BY <1>1, <1>3, <3>2
  <2> QED BY <1>2, <2>1, <2>2, <2>3, SlotKeeps
<1>6. ASSUME NEW o \in Requests \ {r}, Creates(call'[o]) PROVE call'[o].material # m
  <2>1. CASE call'[o] = call[o]
    BY <1>1, <1>6, <2>1
  <2>2. CASE \E c \in Calls : Start(o, c)
    <3>1. PICK c \in Calls : Start(o, c)
      BY <2>2
    <3>2. call'[o] = c /\ call'[r] = call[r]
      BY <1>2, <3>1 DEF Start, Grounded, TypeOK
    <3>3. c.material \notin born
      BY <1>6, <3>1, <3>2 DEF Start
    <3>4. m \in born
      BY <1>2, <3>2 DEF Grounded, InFlight, Creates, NoCall
    <3> QED BY <3>2, <3>3, <3>4
  <2>3. call'[o] # NoCall
    BY <1>6 DEF Creates, NoCall
  <2> QED BY <1>2, <2>1, <2>2, <2>3, SlotKeeps
<1> QED BY <1>4, <1>5, <1>6

LEMMA UnlockedStep ==
  ASSUME Ordered, [Next]_vars, NEW r \in Requests
  PROVE  Unlocked(r)'
<1>0. Grounded /\ Unlocked(r)
  BY DEF Ordered
<1>1. CASE pc'[r] = pc[r] /\ call'[r] = call[r] /\ seen'[r] = seen[r]
  BY <1>0, <1>1 DEF Unlocked
<1>2. CASE \E c \in Calls : Start(r, c)
  <2>1. PICK c \in Calls : Start(r, c)
    BY <1>2
  <2>2. pc'[r] = FirstStep(c) /\ call'[r] = c
    BY <1>0, <2>1 DEF Grounded, TypeOK, Start, GoTo
  <2> QED BY <2>2 DEF Unlocked, FirstStep
<1>3. CASE /\ pc[r] = "count" /\ ~ Locked(call[r], seen[r].rows[call[r].material])
           /\ pc'[r] = "save" /\ call'[r] = call[r]
           /\ seen'[r].refs = References(call[r].material) /\ seen'[r].rows = seen[r].rows
  BY <1>3 DEF Unlocked, Locked
<1>4. CASE Upload(r) /\ call'[r] = call[r]
  <2>1. call[r].op = "setImage"
    BY <1>0, <1>4 DEF Upload, Grounded, InFlight
  <2> QED BY <1>4, <2>1 DEF Unlocked
<1>5. CASE pc'[r] \in {"discard", "idle"}
  BY <1>5 DEF Unlocked
<1> QED BY <1>0, <1>1, <1>2, <1>3, <1>4, <1>5, SlotSteps DEF slots

LEMMA OrderedStep == Ordered /\ [Next]_vars => Ordered'
BY GroundedStep, UnbornStep, UnlockedStep DEF Ordered

LEMMA AlwaysOrdered == Spec => []Ordered
BY OrderedInit, OrderedStep, PTL DEF Spec

LEMMA UnitStep == Ordered /\ RecipesKeepTheirUnit /\ [Next]_vars => RecipesKeepTheirUnit'
<1> SUFFICES ASSUME Ordered, RecipesKeepTheirUnit, [Next]_vars,
                    NEW m \in Materials, m \notin overtaken', NEW p \in Products,
                    bom'[p][m] # NoUnit
             PROVE  bom'[p][m] = catalog'[m].unit
  BY DEF RecipesKeepTheirUnit
<1>0. /\ Grounded
      /\ catalog \in [Materials -> Row \cup {NoRow}]
      /\ bom \in [Products -> [Materials -> Units \cup {NoUnit}]]
  BY DEF Ordered, Grounded, TypeOK
<1>1. ASSUME m \notin overtaken, catalog'[m] = catalog[m], bom'[p][m] = bom[p][m]
      PROVE  bom'[p][m] = catalog'[m].unit
  BY <1>1 DEF RecipesKeepTheirUnit
<1>2. CASE UNCHANGED <<catalog, history, bom, overtaken>>
  BY <1>1, <1>2
<1>3. ASSUME NEW r \in Requests, UpsertStep(r) PROVE bom'[p][m] = catalog'[m].unit
  <2> DEFINE o == call[r].material
             read == seen[r].rows[o]
             row == Saved(call[r], read, seen[r].key)
  <2>1. /\ o \in Materials /\ read \in Row /\ row \in Row /\ call[r] \in Calls
        /\ catalog' = [catalog EXCEPT ![o] = row]
        /\ overtaken \subseteq overtaken' /\ bom' = bom
    BY <1>0, <1>3, Upserting DEF UpsertStep
  <2>2. CASE m # o
    BY <1>0, <1>1, <2>1, <2>2
  <2>3. CASE m = o
    <3>1. /\ catalog[m] = read
          /\ call[r].op = "changeConsumptionUnit" => References(m) = seen[r].refs
      BY <1>0, <1>3, <2>3, UpsertOnCurrent
    <3>2. bom[p][m] = read.unit
      BY <2>1, <3>1 DEF RecipesKeepTheirUnit
    <3>3. row.unit = IF call[r].op = "changeConsumptionUnit" THEN call[r].unit ELSE read.unit
      <4>1. seen[r].key \in Keys \cup {NoKey}
        BY <1>0 DEF Grounded, TypeOK
      <4> QED BY <1>3, <2>1, <4>1, SavedRow DEF UpsertStep
    <3>4. p \in References(m)
      BY <2>1 DEF References
    <3>5. call[r].op = "changeConsumptionUnit" => call[r].unit = read.unit
      BY <1>3, <2>3, <3>1, <3>4 DEF Ordered, Unlocked, UpsertStep
    <3> QED BY <1>0, <2>1, <2>3, <3>2, <3>3, <3>5
  <2> QED BY <2>2, <2>3
<1>4. ASSUME NEW r \in Requests, CreateStep(r) PROVE bom'[p][m] = catalog'[m].unit
  <2>1. catalog[call[r].material] = NoRow
    BY <1>4 DEF CreateStep, Ordered, Unborn
  <2>2. p \in References(m)
    BY <1>4 DEF CreateStep, References
  <2>3. catalog[m] # NoRow
    BY <1>0, <2>2 DEF Grounded, ReferencesResolve, Exists
  <2> QED BY <1>0, <1>1, <1>4, <2>1, <2>3 DEF CreateStep
<1>5. ASSUME NEW r \in Requests, DeleteStep(call[r].material)
      PROVE  bom'[p][m] = catalog'[m].unit
  <2>1. m # call[r].material
    BY <1>5 DEF DeleteStep, References
  <2> QED BY <1>0, <1>1, <1>5, <2>1 DEF DeleteStep
<1>6. ASSUME NEW r \in Requests, BillStep(r) PROVE bom'[p][m] = catalog'[m].unit
  <2> DEFINE c == call[r]
  <2>0. c \in Calls /\ Reads(c) = c.materials /\ overtaken \subseteq overtaken'
    BY <1>0, <1>6, CallReads DEF BillStep, Grounded, InFlight
  <2>1. CASE p = c.product
    <3>1. bom'[p][m] = IF m \in c.materials THEN seen[r].rows[m].unit ELSE NoUnit
      BY <1>0, <1>6, <2>1 DEF BillStep
    <3>2. m \in c.materials /\ m \notin Overtaken(c, seen[r])
      BY <1>6, <3>1 DEF BillStep
    <3>3. catalog[m].unit = seen[r].rows[m].unit
      BY <1>6, <2>0, <3>2 DEF BillStep, Overtaken
    <3> QED BY <1>6, <3>1, <3>2, <3>3 DEF BillStep
  <2>2. CASE p # c.product
    BY <1>0, <1>1, <1>6, <2>0, <2>2 DEF BillStep
  <2> QED BY <2>1, <2>2
<1> QED BY <1>2, <1>3, <1>4, <1>5, <1>6, RowSteps

\* No recipe quantity ever changes its meaning, for any recipes and units, unless
\* a call wrote on an outdated reading (Material.changeConsumptionUnit).
THEOREM RecipesAlwaysKeepTheirUnit == Spec => []RecipesKeepTheirUnit
<1>1. Init => RecipesKeepTheirUnit
  BY DEF Init, RecipesKeepTheirUnit
<1> QED BY <1>1, AlwaysOrdered, UnitStep, PTL DEF Spec

-----------------------------------------------------------------------------
(* Images.  Deleting one is safe because of what is true of keys: one that *)
(* a row or a reading holds belongs to one material, one just uploaded is  *)
(* held by nobody else, and one about to be discarded is no longer in its  *)
(* material's row.                                                         *)

\* The keys the row of a material holds, and those calls in flight read in it.
Named(n) ==
  {k \in Keys : \/ catalog[n] # NoRow /\ catalog[n].image = k
                \/ \E o \in Requests : seen[o].rows[n] # NoRow /\ seen[o].rows[n].image = k}

Apart == \A n, q \in Materials : n # q => Named(n) \cap Named(q) = {}

AllDrawn ==
  /\ \A n \in Materials : Named(n) \subseteq drawn
  /\ \A o \in Requests : seen[o].key \in drawn \cup {NoKey}

\* The key a call is about to save is its own, and its object is there.
Fresh(o) ==
  pc[o] = "save" /\ call[o].op = "setImage" =>
    /\ seen[o].key \in stored
    /\ \A n \in Materials : seen[o].key \notin Named(n)
    /\ \A s \in Requests \ {o} : seen[s].key # seen[o].key

\* The key a call is about to discard.
DoomedKey(r) == seen[r].rows[call[r].material].image

\* It has left its material's row.
Doomed(r) ==
  LET m == call[r].material IN
  pc[r] = "discard" /\ m \notin overtaken /\ catalog[m] # NoRow =>
    catalog[m].image # DoomedKey(r)

Imaged ==
  /\ Grounded
  /\ Apart /\ AllDrawn
  /\ \A r \in Requests : Fresh(r) /\ Doomed(r)
  /\ ImagesResolve

LEMMA ImagedInit == Init => Imaged
<1> SUFFICES ASSUME Init PROVE Imaged
  OBVIOUS
<1>1. \A n \in Materials : Named(n) = {}
  BY DEF Init, Named, NothingSeen
<1>2. AllDrawn /\ Apart
  BY <1>1 DEF AllDrawn, Apart, Init, NothingSeen
<1>3. \A r \in Requests : Fresh(r) /\ Doomed(r)
  BY DEF Init, Fresh, Doomed
<1>4. ImagesResolve
  BY DEF Init, ImagesResolve, Exists
<1> QED BY <1>2, <1>3, <1>4, GroundedInit DEF Imaged

-----------------------------------------------------------------------------
(* What a step does to keys.                                               *)

\* A slot keeps its key, forgets it, or uploads one never drawn before.
LEMMA KeySteps ==
  ASSUME Grounded, [Next]_vars, NEW o \in Requests
  PROVE  \/ seen'[o].key = seen[o].key
         \/ seen'[o].key = NoKey
         \/ /\ Upload(o)
            /\ seen'[o].key \in Keys \ drawn /\ seen'[o].key \in drawn' \cap stored'
<1>1. CASE \E c \in Calls : Start(o, c)
  BY <1>1 DEF Start, Grounded, TypeOK
<1>2. CASE Upload(o)
  BY <1>2 DEF Upload, Grounded, TypeOK
<1>3. CASE pc[o] = "count" /\ Count(o)
  <2>1. CASE End(o)
    BY <2>1 DEF End, NothingSeen, Grounded, TypeOK
  <2>2. CASE seen' = [seen EXCEPT ![o].refs = References(call[o].material)]
    BY <2>2 DEF Grounded, TypeOK
  <2> QED BY <1>3, <2>1, <2>2 DEF Count
<1>4. CASE seen'[o] = seen[o]
  BY <1>4
<1>5. CASE seen'[o] = NothingSeen
  BY <1>5 DEF NothingSeen
<1>6. ASSUME NEW r \in Requests,
             \/ SaveMaterial(r) \/ RecordInvoice(r) \/ CreateMaterial(r)
             \/ DeleteMaterial(r) \/ SaveBill(r) \/ Discard(r) \/ Fail(r)
      PROVE  seen'[o] = seen[o] \/ seen'[o] = NothingSeen
  <2>1. UNCHANGED seen \/ End(r)
    BY <1>6 DEF SaveMaterial, RecordInvoice, CreateMaterial, DeleteMaterial, SaveBill,
                Discard, Fail
  <2> QED BY <2>1 DEF End, Grounded, TypeOK
<1>7. ASSUME NEW r \in Requests, r # o,
             (\E c \in Calls : Start(r, c)) \/ Count(r) \/ Upload(r)
      PROVE  seen'[o] = seen[o]
  BY <1>7 DEF Start, Count, Upload, End, Grounded, TypeOK
<1>8. CASE UNCHANGED vars
  BY <1>4, <1>8 DEF vars
<1> QED BY <1>1, <1>2, <1>3, <1>4, <1>5, <1>6, <1>7, <1>8 DEF Next, Count

\* Objects stay in storage, but for the one a call discards.
LEMMA StoredSteps ==
  ASSUME [Next]_vars
  PROVE  /\ drawn \subseteq drawn'
         /\ \/ stored \subseteq stored'
            \/ \E r \in Requests :
                 /\ pc[r] = "discard" /\ stored' = stored \ {DoomedKey(r)}
                 /\ UNCHANGED <<catalog, overtaken>>
<1>1. CASE UNCHANGED vars
  BY <1>1 DEF vars
<1>2. ASSUME NEW r \in Requests, Discard(r)
      PROVE  /\ drawn \subseteq drawn'
             /\ \/ stored \subseteq stored'
                \/ /\ pc[r] = "discard" /\ stored' = stored \ {DoomedKey(r)}
                   /\ UNCHANGED <<catalog, overtaken>>
  BY <1>2 DEF Discard, DoomedKey, database
<1>3. ASSUME NEW r \in Requests, Upload(r)
      PROVE  drawn \subseteq drawn' /\ stored \subseteq stored'
  BY <1>3 DEF Upload
<1>4. ASSUME NEW r \in Requests,
             \/ \E c \in Calls : Start(r, c)
             \/ Count(r) \/ SaveMaterial(r) \/ RecordInvoice(r) \/ CreateMaterial(r)
             \/ DeleteMaterial(r) \/ SaveBill(r) \/ Fail(r)
      PROVE  drawn \subseteq drawn' /\ stored \subseteq stored'
  BY <1>4 DEF Start, Count, SaveMaterial, RecordInvoice, CreateMaterial, DeleteMaterial,
              SaveBill, Fail
<1> QED BY <1>1, <1>2, <1>3, <1>4 DEF Next

\* What an upsert leaves in the row: the key it read, none, or the one uploaded.
LEMMA UpsertedImage ==
  ASSUME Grounded, NEW r \in Requests, UpsertStep(r)
  PROVE  LET m == call[r].material IN
         /\ m \in Materials /\ seen[r].rows[m] \in Row
         /\ \A n \in Materials : n # m => catalog'[n] = catalog[n]
         /\ catalog'[m].image = IF call[r].op = "setImage" THEN seen[r].key
                                ELSE IF call[r].op = "removeImage" THEN NoKey
                                ELSE seen[r].rows[m].image
         /\ overtaken \subseteq overtaken'
<1> DEFINE m == call[r].material
           row == Saved(call[r], seen[r].rows[m], seen[r].key)
<1>1. /\ m \in Materials /\ seen[r].rows[m] \in Row /\ call[r] \in Calls
      /\ catalog' = [catalog EXCEPT ![m] = row] /\ overtaken \subseteq overtaken'
  BY Upserting DEF UpsertStep
<1>2. seen[r].key \in Keys \cup {NoKey} /\ catalog \in [Materials -> Row \cup {NoRow}]
  BY DEF Grounded, TypeOK
<1>3. row.image = IF call[r].op = "setImage" THEN seen[r].key
                  ELSE IF call[r].op = "removeImage" THEN NoKey ELSE seen[r].rows[m].image
  BY <1>1, <1>2, SavedRow DEF UpsertStep
<1> QED BY <1>1, <1>2, <1>3

\* The image a row has after a step is one it, or a reading of it, had before,
\* or the one a call saves.
LEMMA ImageSteps ==
  ASSUME Grounded, [Next]_vars, NEW n \in Materials, catalog'[n] # NoRow, catalog'[n].image # NoKey
  PROVE  \/ catalog'[n] = catalog[n]
         \/ \E r \in Requests :
              /\ UpsertStep(r) /\ n = call[r].material /\ seen[r].rows[n] \in Row
              /\ \/ call[r].op = "setImage" /\ catalog'[n].image = seen[r].key
                 \/ catalog'[n].image = seen[r].rows[n].image
<1>0. catalog \in [Materials -> Row \cup {NoRow}]
  BY DEF Grounded, TypeOK
<1>1. ASSUME NEW r \in Requests, UpsertStep(r), catalog'[n] # catalog[n]
      PROVE  /\ n = call[r].material /\ seen[r].rows[n] \in Row
             /\ \/ call[r].op = "setImage" /\ catalog'[n].image = seen[r].key
                \/ catalog'[n].image = seen[r].rows[n].image
  BY <1>1, UpsertedImage
<1>2. ASSUME NEW r \in Requests, CreateStep(r) PROVE catalog'[n] = catalog[n]
  BY <1>0, <1>2 DEF CreateStep
<1>3. ASSUME NEW r \in Requests, DeleteStep(call[r].material) PROVE catalog'[n] = catalog[n]
  BY <1>0, <1>3 DEF DeleteStep
<1>4. ASSUME NEW r \in Requests, BillStep(r) PROVE catalog'[n] = catalog[n]
  BY <1>4 DEF BillStep
<1> QED BY <1>1, <1>2, <1>3, <1>4, RowSteps

\* A material gains no key but the one uploaded for it.
LEMMA NamedSteps ==
  ASSUME Grounded, [Next]_vars, NEW n \in Materials, NEW k \in Named(n)'
  PROVE  \/ k \in Named(n)
         \/ \E r \in Requests :
              /\ UpsertStep(r) /\ call[r].op = "setImage"
              /\ n = call[r].material /\ k = seen[r].key
<1>0. k \in Keys /\ k # NoKey
  BY CatalogAssumption DEF Named
<1>1. CASE catalog'[n] # NoRow /\ catalog'[n].image = k
  <2>1. CASE catalog'[n] = catalog[n]
    BY <1>0, <1>1, <2>1 DEF Named
  <2>2. ASSUME NEW r \in Requests, UpsertStep(r), n = call[r].material, seen[r].rows[n] \in Row,
               catalog'[n].image = seen[r].rows[n].image
        PROVE  k \in Named(n)
    BY <1>0, <1>1, <2>2, RowsExist DEF Named
  <2> QED BY <1>0, <1>1, <2>1, <2>2, ImageSteps
<1>2. ASSUME NEW o \in Requests, seen'[o].rows[n] # NoRow, seen'[o].rows[n].image = k
      PROVE  k \in Named(n)
  <2>1. CASE \E c \in Calls : Start(o, c)
    <3>1. PICK c \in Calls : Start(o, c)
      BY <2>1
    <3>2. seen'[o].rows = [q \in Materials |-> IF q \in Reads(c) THEN catalog[q] ELSE NoRow]
      BY <3>1 DEF Start, Grounded, TypeOK
    <3> QED BY <1>0, <1>2, <3>2 DEF Named
  <2>2. CASE seen'[o].rows = seen[o].rows
    BY <1>0, <1>2, <2>2 DEF Named
  <2>3. seen'[o] # NothingSeen
    BY <1>2 DEF NothingSeen
  <2> QED BY <2>1, <2>2, <2>3, SlotKeeps
<1> QED BY <1>1, <1>2 DEF Named

-----------------------------------------------------------------------------
(* The invariant is kept.                                                  *)

LEMMA ApartStep == Imaged /\ [Next]_vars => Apart' /\ AllDrawn'
<1> SUFFICES ASSUME Imaged, [Next]_vars PROVE Apart' /\ AllDrawn'
  OBVIOUS
<1>0. Grounded /\ drawn \subseteq drawn' /\ stored \subseteq drawn
  BY StoredSteps DEF Imaged, Grounded, TypeOK
<1>1. ASSUME NEW r \in Requests, UpsertStep(r), call[r].op = "setImage"
      PROVE  seen[r].key \in drawn /\ \A n \in Materials : seen[r].key \notin Named(n)
  BY <1>0, <1>1 DEF Imaged, Fresh, UpsertStep
<1>2. ASSUME NEW n \in Materials, NEW k \in Named(n)' PROVE k \in drawn'
  BY <1>0, <1>1, <1>2, NamedSteps DEF Imaged, AllDrawn
<1>3. ASSUME NEW o \in Requests PROVE seen'[o].key \in drawn' \cup {NoKey}
  BY <1>0, KeySteps DEF Imaged, AllDrawn
<1>4. ASSUME NEW n \in Materials, NEW q \in Materials, n # q,
             NEW k \in Named(n)', k \in Named(q)'
      PROVE  FALSE
  <2>1. \/ k \in Named(n)
        \/ \E r \in Requests : /\ UpsertStep(r) /\ call[r].op = "setImage"
                               /\ n = call[r].material /\ k = seen[r].key
    BY <1>0, NamedSteps
  <2>2. \/ k \in Named(q)
        \/ \E r \in Requests : /\ UpsertStep(r) /\ call[r].op = "setImage"
                               /\ q = call[r].material /\ k = seen[r].key
    BY <1>0, <1>4, NamedSteps
  <2>3. CASE k \in Named(n) /\ k \in Named(q)
    BY <1>4, <2>3 DEF Imaged, Apart
  <2>4. CASE k \notin Named(n) /\ k \notin Named(q)
    <3>1. PICK r \in Requests : /\ UpsertStep(r) /\ call[r].op = "setImage"
                                /\ n = call[r].material /\ k = seen[r].key
      BY <2>1, <2>4
    <3>2. PICK s \in Requests : /\ UpsertStep(s) /\ call[s].op = "setImage"
                                /\ q = call[s].material /\ k = seen[s].key
      BY <2>2, <2>4
    <3> QED BY <1>4, <3>1, <3>2 DEF Imaged, Fresh, UpsertStep
  <2> QED BY <1>1, <2>1, <2>2, <2>3, <2>4
<1>5. Apart'
  BY <1>4 DEF Apart
<1>6. AllDrawn'
  BY <1>2, <1>3 DEF AllDrawn
<1> QED BY <1>5, <1>6

\* The key a call discards is one of its material's.
LEMMA DoomedIsNamed ==
  ASSUME Grounded, NEW r \in Requests, pc[r] = "discard"
  PROVE  call[r].material \in Materials /\ DoomedKey(r) \in Named(call[r].material)
<1> DEFINE m == call[r].material
<1>1. call[r] \in Calls /\ call[r].op \in {"setImage", "removeImage"} /\ DoomedKey(r) # NoKey
  BY DEF Grounded, InFlight, DoomedKey
<1>2. m \in Materials /\ Reads(call[r]) = {m}
  BY <1>1, CallFields, CallReads DEF Creates
<1>3. seen[r].rows[m] # NoRow
  BY <1>2 DEF Grounded, InFlight
<1>4. seen[r].rows[m] \in Row
  BY <1>2, <1>3 DEF Grounded, TypeOK
<1>5. DoomedKey(r) \in Keys
  BY <1>1, <1>4 DEF DoomedKey, Row
<1> QED BY <1>2, <1>3, <1>5 DEF Named, DoomedKey

LEMMA FreshStep ==
  ASSUME Imaged, [Next]_vars, NEW o \in Requests
  PROVE  Fresh(o)'
<1> SUFFICES ASSUME pc'[o] = "save", call'[o].op = "setImage"
             PROVE  /\ seen'[o].key \in stored'
                    /\ \A n \in Materials : seen'[o].key \notin Named(n)'
                    /\ \A s \in Requests \ {o} : seen'[s].key # seen'[o].key
  BY DEF Fresh
<1>0. Grounded /\ Grounded' /\ stored \subseteq drawn /\ drawn \subseteq Keys /\ NoKey \notin Keys
  BY GroundedStep, CatalogAssumption DEF Imaged, Grounded, TypeOK
<1>1. CASE Upload(o)
  <2>1. PICK k \in Keys \ drawn : stored' = stored \cup {k} /\ seen' = [seen EXCEPT ![o].key = k]
    BY <1>1 DEF Upload
  <2>2. seen'[o].key = k /\ \A s \in Requests \ {o} : seen'[s].key = seen[s].key
    BY <1>0, <2>1 DEF Grounded, TypeOK
  <2>3. \A s \in Requests : seen[s].key # k
    BY <1>0, <2>1 DEF Imaged, AllDrawn
  <2>4. catalog' = catalog /\ \A s \in Requests : seen'[s].rows = seen[s].rows
    BY <1>0, <1>1, <2>1 DEF Upload, database, Grounded, TypeOK
  <2>5. \A n \in Materials : Named(n)' = Named(n)
    BY <2>4 DEF Named
  <2>6. \A n \in Materials : k \notin Named(n)
    BY DEF Imaged, AllDrawn
  <2> QED BY <2>1, <2>2, <2>3, <2>5, <2>6
<1>2. CASE pc[o] = "save" /\ call[o].op = "setImage" /\ seen'[o] = seen[o]
  <2>1. /\ seen[o].key \in stored
        /\ \A n \in Materials : seen[o].key \notin Named(n)
        /\ \A s \in Requests \ {o} : seen[s].key # seen[o].key
    BY <1>2 DEF Imaged, Fresh
  <2>2. seen[o].key \in stored'
    <3>1. ASSUME NEW r \in Requests, pc[r] = "discard" PROVE DoomedKey(r) # seen[o].key
      BY <1>0, <2>1, <3>1, DoomedIsNamed
    <3> QED BY <2>1, <3>1, StoredSteps
  <2>3. ASSUME NEW n \in Materials, seen[o].key \in Named(n)' PROVE FALSE
    <3>1. PICK r \in Requests : UpsertStep(r) /\ seen[o].key = seen[r].key
      BY <1>0, <2>1, <2>3, NamedSteps
    <3>2. r = o
      BY <2>1, <3>1
    <3> QED BY <1>0, <3>1, <3>2 DEF UpsertStep, End, GoTo, Grounded, TypeOK
  <2>4. ASSUME NEW s \in Requests \ {o} PROVE seen'[s].key # seen[o].key
    <3>1. seen[o].key \in drawn /\ seen[o].key # NoKey
      BY <1>0, <2>1
    <3> QED BY <1>0, <2>1, <3>1, KeySteps
  <2> QED BY <1>2, <2>2, <2>3, <2>4
<1>3. ASSUME NEW c \in Calls, Start(o, c) PROVE FALSE
  <2>1. pc'[o] = FirstStep(c) /\ call'[o] = c
    BY <1>0, <1>3 DEF Grounded, TypeOK, Start, GoTo
  <2> QED BY <2>1 DEF FirstStep
<1>4. ASSUME pc[o] = "count", call'[o] = call[o] PROVE FALSE
  BY <1>0, <1>4 DEF Grounded, InFlight
<1> QED BY <1>0, <1>1, <1>2, <1>3, <1>4, SlotSteps DEF slots

LEMMA DoomedStep ==
  ASSUME Imaged, [Next]_vars, NEW r \in Requests
  PROVE  Doomed(r)'
<1> DEFINE m == call'[r].material
           k == seen'[r].rows[m].image
<1> SUFFICES ASSUME pc'[r] = "discard", m \notin overtaken', catalog'[m] # NoRow
             PROVE  catalog'[m].image # k
  BY DEF Doomed, DoomedKey
<1>0. Grounded /\ Grounded' /\ NoKey \notin Keys /\ overtaken \subseteq overtaken'
  <2>1. overtaken \subseteq overtaken'
    <3>1. \A o \in Requests : UpsertStep(o) => overtaken \subseteq overtaken'
      BY DEF UpsertStep, Upsert
    <3> QED BY <3>1, RowSteps DEF CreateStep, DeleteStep, BillStep
  <2> QED BY <2>1, GroundedStep, CatalogAssumption DEF Imaged
<1>1. m \in Materials /\ k # NoKey
  <2>1. call'[r] \in Calls /\ call'[r].op \in {"setImage", "removeImage"} /\ k # NoKey
    BY <1>0 DEF Grounded, InFlight
  <2> QED BY <2>1, CallFields
<1>2. CASE SaveMaterial(r) /\ call'[r] = call[r] /\ seen'[r] = seen[r]
  <2>1. call[r].op \in {"setImage", "removeImage"}
    BY <1>0, <1>2 DEF Grounded, InFlight
  <2>2. UpsertStep(r)
    BY <1>2 DEF SaveMaterial, UpsertStep, UpsertingOps
  <2>3. catalog'[m].image = IF call[r].op = "setImage" THEN seen[r].key ELSE NoKey
    BY <1>0, <1>2, <2>1, <2>2, UpsertedImage
  <2>4. k \in Named(m)
    <3>1. seen[r].rows[m] \in Row
      BY <1>0, <1>2, <2>2, UpsertedImage
    <3>2. k \in Keys
      BY <1>1, <1>2, <3>1 DEF Row
    <3> QED BY <1>2, <3>1, <3>2, RowsExist DEF Named
  <2>5. call[r].op = "setImage" => seen[r].key # k
    BY <1>1, <2>2, <2>4 DEF Imaged, Fresh, UpsertStep
  <2> QED BY <1>1, <2>3, <2>5
<1>3. CASE pc[r] = "discard" /\ call'[r] = call[r] /\ seen'[r] = seen[r]
  <2>1. k \in Named(m)
    BY <1>0, <1>3, DoomedIsNamed DEF DoomedKey
  <2>2. catalog[m] # NoRow => catalog[m].image # k
    BY <1>0, <1>3 DEF Imaged, Doomed, DoomedKey
  <2>3. ASSUME NEW o \in Requests, UpsertStep(o), m = call[o].material, catalog'[m].image # NoKey
        PROVE  catalog'[m].image # k
    <3>1. catalog[m] = seen[o].rows[m] /\ catalog[m] # NoRow
      BY <1>0, <2>3, UpsertOnCurrent, UpsertedImage, RowsExist
    <3>2. catalog'[m].image = seen[o].key /\ call[o].op = "setImage" => catalog'[m].image # k
      BY <1>1, <2>1, <2>3 DEF Imaged, Fresh, UpsertStep
    <3> QED BY <1>0, <2>2, <2>3, <3>1, <3>2, UpsertedImage
  <2> QED BY <1>0, <1>1, <2>2, <2>3, ImageSteps
<1>4. ASSUME NEW c \in Calls, Start(r, c) PROVE FALSE
  <2>1. pc'[r] = FirstStep(c)
    BY <1>0, <1>4 DEF Grounded, TypeOK, Start, GoTo
  <2> QED BY <2>1 DEF FirstStep
<1> QED BY <1>0, <1>2, <1>3, <1>4, SlotSteps DEF slots

LEMMA ImagesStep == Imaged /\ [Next]_vars => ImagesResolve'
<1> SUFFICES ASSUME Imaged, [Next]_vars,
                    NEW n \in Materials, n \notin overtaken',
                    catalog'[n] # NoRow, catalog'[n].image # NoKey
             PROVE  catalog'[n].image \in stored'
  BY DEF ImagesResolve, Exists
<1>0. Grounded /\ Grounded'
  BY GroundedStep DEF Imaged
<1>1. CASE stored \subseteq stored'
  <2>1. CASE catalog'[n] = catalog[n]
    <3>1. n \notin overtaken
      <4>1. \A o \in Requests : UpsertStep(o) => overtaken \subseteq overtaken'
        BY DEF UpsertStep, Upsert
      <4> QED BY <4>1, RowSteps DEF CreateStep, DeleteStep, BillStep
    <3> QED BY <1>1, <2>1, <3>1 DEF Imaged, ImagesResolve, Exists
  <2>2. ASSUME NEW r \in Requests, UpsertStep(r), n = call[r].material, seen[r].rows[n] \in Row,
               \/ call[r].op = "setImage" /\ catalog'[n].image = seen[r].key
               \/ catalog'[n].image = seen[r].rows[n].image
        PROVE  catalog'[n].image \in stored
    <3>1. CASE call[r].op = "setImage" /\ catalog'[n].image = seen[r].key
      BY <2>2, <3>1 DEF Imaged, Fresh, UpsertStep
    <3>2. CASE catalog'[n].image = seen[r].rows[n].image
      <4>1. catalog[n] = seen[r].rows[n] /\ n \notin overtaken
        BY <1>0, <2>2, UpsertOnCurrent, UpsertedImage
      <4> QED BY <2>2, <3>2, <4>1, RowsExist DEF Imaged, ImagesResolve, Exists
    <3> QED BY <2>2, <3>1, <3>2
  <2> QED BY <1>0, <1>1, <2>1, <2>2, ImageSteps
<1>2. ASSUME NEW r \in Requests, pc[r] = "discard", stored' = stored \ {DoomedKey(r)},
             UNCHANGED <<catalog, overtaken>>
      PROVE  catalog'[n].image \in stored'
  <2>1. catalog[n].image \in stored
    BY <1>2 DEF Imaged, ImagesResolve, Exists
  <2>2. catalog[n].image \in Named(n)
    BY <1>0, <1>2, <2>1 DEF Named, Grounded, TypeOK
  <2>3. call[r].material \in Materials /\ DoomedKey(r) \in Named(call[r].material)
    BY <1>0, <1>2, DoomedIsNamed
  <2>4. catalog[n].image # DoomedKey(r)
    <3>1. CASE n = call[r].material
      BY <1>2, <3>1 DEF Imaged, Doomed
    <3>2. CASE n # call[r].material
      BY <2>2, <2>3, <3>2 DEF Imaged, Apart
    <3> QED BY <3>1, <3>2
  <2> QED BY <1>2, <2>1, <2>4
<1> QED BY <1>1, <1>2, StoredSteps

LEMMA ImagedStep == Imaged /\ [Next]_vars => Imaged'
<1> SUFFICES ASSUME Imaged, [Next]_vars PROVE Imaged'
  OBVIOUS
<1>1. Grounded'
  BY GroundedStep DEF Imaged
<1>2. Apart' /\ AllDrawn' /\ ImagesResolve'
  BY ApartStep, ImagesStep
<1>3. \A r \in Requests : Fresh(r)' /\ Doomed(r)'
  BY FreshStep, DoomedStep
<1> QED BY <1>1, <1>2, <1>3 DEF Imaged

\* Whatever fails between upload, transaction and discard, no row names an object
\* that is gone, unless a call wrote on an outdated reading
\* (MaterialsService.setImage, removeImage; discardStoredImage).
THEOREM ImagesAlwaysResolve == Spec => []ImagesResolve
<1>1. Imaged => ImagesResolve
  BY DEF Imaged
<1> QED BY <1>1, ImagedInit, ImagedStep, PTL DEF Spec

=============================================================================
