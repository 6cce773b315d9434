---------------------------- MODULE LedgerProofs -----------------------------
(***************************************************************************)
(* Proofs about the two ledgers the server keeps and must not get wrong:   *)
(* the stock of each material with what the sales took of it               *)
(* (StockControl), and the record of the server's own work, the audit      *)
(* trail and the count of its errors (ServerRecords).  The two share no    *)
(* state.                                                                  *)
(***************************************************************************)
EXTENDS StockControl, ServerRecords, StockMathProofs

-----------------------------------------------------------------------------
(***************************************************************************)
(* StockControl keeps its types, conserves stock and holds nothing for a   *)
(* PENDING sale, for every set of materials, products, sales, lines,       *)
(* recipes and quantities.                                                 *)
(*                                                                         *)
(* TypeOK is inductive once a need is known to be a natural number.        *)
(* StockConserved alone is not: a debit overwrites the sale's snapshots,   *)
(* so conserving stock needs them empty beforehand, which the guard of     *)
(* debitStock and PendingHoldsNoStock provide.                             *)
(***************************************************************************)


\* What one unit of a line consumes is a natural number.
LEMMA ConsumptionIsNat ==
  ASSUME NEW recipes \in [Products -> Recipes], NEW ref, NEW m \in Materials
  PROVE  Consumption(recipes, ref, m) \in Nat
<1>1. CASE ref \in Products
  BY <1>1, QuantitiesAssumption DEF Consumption
<1>2. CASE ref \notin Products
  BY <1>2 DEF Consumption
<1> QED
  BY <1>1, <1>2

\* The product of naturals is a natural, as a fact the provers can cite.
LEMMA ProductIsNat ==
  ASSUME NEW a \in Nat, NEW b \in Nat
  PROVE  a * b \in Nat
OBVIOUS

\* What a sale needs of a material is a natural number.
LEMMA NeedIsNat ==
  ASSUME TypeOK, NEW s \in Sales, NEW m \in Materials
  PROVE  MaterialNeed(bom, lines, s, m) \in Nat
<1> DEFINE w == [l \in Lines |->
                   Consumption(bom, lines[<<s, l>>].ref, m) * lines[<<s, l>>].quantity]
<1>1. \A l \in Lines : w[l] \in Nat
  <2> TAKE l \in Lines
  <2>1. lines[<<s, l>>] \in SaleItem \/ lines[<<s, l>>] = NoItem
    BY DEF TypeOK
  <2>2. lines[<<s, l>>].quantity \in Nat
    <3>1. CASE lines[<<s, l>>] \in SaleItem
      <4>1. lines[<<s, l>>].quantity \in Quantities
        BY <3>1 DEF SaleItem
      <4> QED
        BY <4>1, QuantitiesAssumption
    <3>2. CASE lines[<<s, l>>] = NoItem
      BY <3>2 DEF NoItem
    <3> QED
      BY <2>1, <3>1, <3>2
  <2>3. Consumption(bom, lines[<<s, l>>].ref, m) \in Nat
    BY ConsumptionIsNat DEF TypeOK
  <2> QED
    BY <2>2, <2>3, ProductIsNat
<1>2. SumOver(Lines, w) \in Nat
  BY <1>1, SumIsNat, LinesAssumption
<1> QED
  BY <1>2 DEF MaterialNeed

\* A debit takes a natural quantity, within the need and within the stock.
LEMMA DebitBounds ==
  ASSUME TypeOK, NEW s \in Sales, NEW m \in Materials
  PROVE  /\ DebitOf(s, m) \in Nat
         /\ DebitOf(s, m) <= stock[m]
         /\ DebitOf(s, m) <= MaterialNeed(bom, lines, s, m)
         /\ DebitOf(s, m) \in {stock[m], MaterialNeed(bom, lines, s, m)}
<1>1. stock[m] \in Nat
  BY DEF TypeOK
<1> QED
  BY <1>1, NeedIsNat DEF DebitOf, StockDebit, Smaller

-----------------------------------------------------------------------------
(* Type correctness.                                                       *)

LEMMA InitTypeOK == Init => TypeOK
BY QuantitiesAssumption DEF Init, TypeOK

\* One step per handler.
LEMMA StepTypeOK ==
  ASSUME TypeOK, [Next]_vars
  PROVE  TypeOK'
<1>1. ASSUME NEW s \in Sales, NEW items \in Baskets,
             CreateSale(s, items)
      PROVE  TypeOK'
  BY <1>1 DEF TypeOK, CreateSale, Baskets, NewSale, SaleRow, ProductionStatus, PaymentStatus
<1>2. ASSUME NEW s \in Sales, NEW l \in Lines, NEW item \in SaleItem, AddItem(s, l, item)
      PROVE  TypeOK'
  BY <1>2 DEF TypeOK, AddItem
<1>3. ASSUME NEW s \in Sales, NEW l \in Lines, RemoveItem(s, l)
      PROVE  TypeOK'
  BY <1>3 DEF TypeOK, RemoveItem
<1>4. ASSUME NEW s \in Sales, NEW l \in Lines, NEW q \in Quantities,
             UpdateItemQuantity(s, l, q)
      PROVE  TypeOK'
  <2>1. lines[<<s, l>>] \in SaleItem
    BY <1>4 DEF TypeOK, UpdateItemQuantity
  <2>2. [lines[<<s, l>>] EXCEPT !.quantity = q] \in SaleItem
    BY <2>1 DEF SaleItem
  <2>3. lines' = [lines EXCEPT ![<<s, l>>] = [lines[<<s, l>>] EXCEPT !.quantity = q]]
    BY <1>4 DEF UpdateItemQuantity
  <2> QED
    BY <1>4, <2>2, <2>3 DEF TypeOK, UpdateItemQuantity
<1>5. ASSUME NEW s \in Sales, NEW status \in PaymentStatus, UpdatePaymentStatus(s, status)
      PROVE  TypeOK'
  BY <1>5 DEF TypeOK, UpdatePaymentStatus, SaleRow
<1>6. ASSUME NEW s \in Sales, NEW status \in ProductionStatus,
             UpdateProductionStatus(s, status)
      PROVE  TypeOK'
  <2>1. sale' \in [Sales -> SaleRow \cup {NoSale}]
    BY <1>6 DEF TypeOK, UpdateProductionStatus, SaleRow
  <2>2. /\ stock' \in [Materials -> Nat]
        /\ snapshots' \in [Sales -> [Materials -> Nat]]
    <3>1. CASE ReverseStockDebit(s)
      BY <3>1 DEF TypeOK, ReverseStockDebit
    <3>2. CASE DebitStock(s)
      <4>1. \A m \in Materials : DebitOf(s, m) \in Nat /\ stock[m] - DebitOf(s, m) \in Nat
        BY DebitBounds DEF TypeOK
      <4> QED
        BY <3>2, <4>1 DEF TypeOK, DebitStock
    <3>3. CASE UNCHANGED <<stock, snapshots>>
      BY <3>3 DEF TypeOK
    <3> QED
      BY <1>6, <3>1, <3>2, <3>3 DEF UpdateProductionStatus
  <2> QED
    BY <1>6, <2>1, <2>2 DEF TypeOK, UpdateProductionStatus
<1>7. ASSUME NEW m \in Materials, NEW q \in Quantities, ReceiveStock(m, q)
      PROVE  TypeOK'
  BY <1>7, QuantitiesAssumption DEF TypeOK, ReceiveStock
<1>8. ASSUME NEW m \in Materials, NEW q \in Quantities \cup {0}, CountStock(m, q)
      PROVE  TypeOK'
  BY <1>8, QuantitiesAssumption DEF TypeOK, CountStock
<1>9. ASSUME NEW m \in Materials, NEW q \in Quantities, RecordLoss(m, q)
      PROVE  TypeOK'
  BY <1>9, QuantitiesAssumption DEF TypeOK, RecordLoss
<1>10. ASSUME NEW p \in Products, NEW recipe \in Recipes, ReplaceBillOfMaterials(p, recipe)
       PROVE  TypeOK'
  BY <1>10 DEF TypeOK, ReplaceBillOfMaterials
<1>11. CASE UNCHANGED vars
  BY <1>11 DEF TypeOK, vars
<1> QED
  BY <1>1, <1>2, <1>3, <1>4, <1>5, <1>6, <1>7, <1>8, <1>9, <1>10, <1>11
     DEF Next, SaleStep, MaterialStep, ProductStep

\* Balances never go negative and every row keeps a legal shape, whatever the
\* order of sales, crossings, edits, entries, counts, losses and recipes.
THEOREM TypeCorrect == Spec => []TypeOK
<1>1. Init => TypeOK
  BY InitTypeOK
<1>2. TypeOK /\ [Next]_vars => TypeOK'
  BY StepTypeOK
<1> QED
  BY <1>1, <1>2, PTL DEF Spec

-----------------------------------------------------------------------------
(* Conservation of stock, and nothing held for a PENDING sale.             *)

Inv == TypeOK /\ StockConserved /\ PendingHoldsNoStock

\* What each sale holds of material m, the terms Outstanding adds up.
Held(m) == [s \in Sales |-> snapshots[s][m]]

LEMMA OutstandingIsNat ==
  ASSUME TypeOK, NEW m \in Materials
  PROVE  Outstanding(m) \in Nat
<1>1. \A s \in Sales : Held(m)[s] \in Nat
  BY DEF TypeOK, Held
<1> QED
  BY <1>1, SumIsNat, SetsAssumption DEF Outstanding, Held

\* When only sale s's snapshots change, the total moves by their difference.
LEMMA OutstandingMoves ==
  ASSUME TypeOK, TypeOK', NEW s \in Sales, NEW m \in Materials,
         \A t \in Sales \ {s} : snapshots'[t][m] = snapshots[t][m]
  PROVE  Outstanding(m)' = Outstanding(m) - snapshots[s][m] + snapshots'[s][m]
<1> DEFINE v == [t \in Sales |-> snapshots[t][m]]
           w == [t \in Sales |-> snapshots'[t][m]]
<1>1. \A t \in Sales : v[t] \in Nat
  BY DEF TypeOK
<1>2. \A t \in Sales : w[t] \in Nat
  BY DEF TypeOK
<1>3. \A t \in Sales \ {s} : v[t] = w[t]
  OBVIOUS
<1>4. SumOver(Sales, w) = SumOver(Sales, v) - v[s] + w[s]
  <2> HIDE DEF v, w
  <2> QED
    BY <1>1, <1>2, <1>3, SumReplaceTerm, SetsAssumption
<1> QED
  BY <1>4 DEF Outstanding

LEMMA InitInv == Init => Inv
<1> SUFFICES ASSUME Init PROVE Inv
  OBVIOUS
<1>1. TypeOK
  BY InitTypeOK
<1>2. PendingHoldsNoStock
  BY DEF Init, PendingHoldsNoStock
<1>3. StockConserved
  <2> SUFFICES ASSUME NEW m \in Materials
               PROVE  stock[m] + Outstanding(m) = ledger[m]
    BY DEF StockConserved
  <2>1. \A s \in Sales : Held(m)[s] = 0
    BY DEF Init, Held
  <2>2. Outstanding(m) = 0
    BY <2>1, SumOfZeros DEF Outstanding, Held
  <2> QED
    BY <1>1, <2>2 DEF Init, TypeOK
<1> QED
  BY <1>1, <1>2, <1>3 DEF Inv

\* A step that leaves the stock, the snapshots and the ledger alone conserves.
LEMMA UntouchedStock ==
  ASSUME StockConserved, UNCHANGED <<stock, snapshots, ledger>>
  PROVE  StockConserved'
BY DEF StockConserved, Outstanding

\* A step that moves the balance and the ledger together conserves.
LEMMA LedgerFollowsStock ==
  ASSUME TypeOK, StockConserved, UNCHANGED snapshots,
         TypeOK', NEW m \in Materials, NEW d \in Int,
         stock' = [stock EXCEPT ![m] = stock[m] + d],
         ledger' = [ledger EXCEPT ![m] = ledger[m] + d]
  PROVE  StockConserved'
<1> SUFFICES ASSUME NEW n \in Materials
             PROVE  stock'[n] + Outstanding(n)' = ledger'[n]
  BY DEF StockConserved
<1>1. Outstanding(n)' = Outstanding(n)
  BY DEF Outstanding
<1>2. Outstanding(n) \in Nat /\ stock[n] \in Nat /\ ledger[n] \in Int
  BY OutstandingIsNat DEF TypeOK
<1>3. stock[n] + Outstanding(n) = ledger[n]
  BY DEF StockConserved
<1>4. \/ n = m /\ stock'[n] = stock[n] + d /\ ledger'[n] = ledger[n] + d
      \/ n # m /\ stock'[n] = stock[n] /\ ledger'[n] = ledger[n]
  BY DEF TypeOK
<1> QED
  BY <1>1, <1>2, <1>3, <1>4

\* Crossing between PENDING and the rest moves stock to or from the snapshots.
LEMMA CrossingKeepsInv ==
  ASSUME Inv, TypeOK', NEW s \in Sales, NEW status \in ProductionStatus,
         UpdateProductionStatus(s, status)
  PROVE  StockConserved' /\ PendingHoldsNoStock'
<1>1. sale'[s].production = status /\ \A t \in Sales \ {s} : sale'[t] = sale[t]
  BY DEF Inv, TypeOK, UpdateProductionStatus, SaleRow
<1>2. CASE sale[s].production # "PENDING" /\ status = "PENDING" /\ ReverseStockDebit(s)
  <2>1. \A t \in Sales, m \in Materials :
          snapshots'[t][m] = IF t = s THEN 0 ELSE snapshots[t][m]
    BY <1>2 DEF Inv, TypeOK, ReverseStockDebit
  <2>2. ASSUME NEW m \in Materials
        PROVE  stock'[m] + Outstanding(m)' = ledger'[m]
    <3>1. Outstanding(m)' = Outstanding(m) - snapshots[s][m]
      <4>1. Outstanding(m)' = Outstanding(m) - snapshots[s][m] + snapshots'[s][m]
        BY <2>1, OutstandingMoves DEF Inv
      <4> QED
        BY <2>1, <4>1, OutstandingIsNat DEF Inv, TypeOK
    <3>2. stock'[m] = stock[m] + snapshots[s][m]
      BY <1>2 DEF ReverseStockDebit
    <3>3. stock[m] + Outstanding(m) = ledger[m] /\ ledger'[m] = ledger[m]
      BY DEF Inv, StockConserved, UpdateProductionStatus
    <3>4. stock[m] \in Nat /\ snapshots[s][m] \in Nat /\ Outstanding(m) \in Nat
      BY OutstandingIsNat DEF Inv, TypeOK
    <3> QED
      BY <3>1, <3>2, <3>3, <3>4
  <2>3. PendingHoldsNoStock'
    BY <1>1, <2>1 DEF Inv, PendingHoldsNoStock
  <2> QED
    BY <2>2, <2>3 DEF StockConserved
<1>3. CASE /\ sale[s].production = "PENDING" /\ status # "PENDING"
           /\ ~ HasSnapshots(s) /\ DebitStock(s)
  <2>1. \A t \in Sales, m \in Materials :
          snapshots'[t][m] = IF t = s THEN DebitOf(s, m) ELSE snapshots[t][m]
    BY <1>3 DEF Inv, TypeOK, DebitStock
  <2>2. ASSUME NEW m \in Materials
        PROVE  stock'[m] + Outstanding(m)' = ledger'[m]
    <3>1. snapshots[s][m] = 0
      BY <1>3 DEF Inv, TypeOK, HasSnapshots
    <3>2. Outstanding(m)' = Outstanding(m) - snapshots[s][m] + snapshots'[s][m]
      BY <2>1, OutstandingMoves DEF Inv
    <3>3. stock'[m] = stock[m] - DebitOf(s, m)
      BY <1>3 DEF DebitStock
    <3>4. stock[m] + Outstanding(m) = ledger[m] /\ ledger'[m] = ledger[m]
      BY DEF Inv, StockConserved, UpdateProductionStatus
    <3>5. stock[m] \in Nat /\ DebitOf(s, m) \in Nat /\ Outstanding(m) \in Nat
      BY OutstandingIsNat, DebitBounds DEF Inv, TypeOK
    <3> QED
      BY <2>1, <3>1, <3>2, <3>3, <3>4, <3>5
  <2>3. PendingHoldsNoStock'
    <3>1. status \in {"ASSEMBLED", "DELIVERED"}
      BY <1>3 DEF ProductionStatus
    <3> QED
      BY <1>1, <2>1, <3>1 DEF Inv, PendingHoldsNoStock
  <2> QED
    BY <2>2, <2>3 DEF StockConserved
<1>4. CASE UNCHANGED <<stock, snapshots>> /\ sale[s].production = "PENDING"
  <2>1. StockConserved'
    BY <1>4, UntouchedStock DEF Inv, UpdateProductionStatus
  <2>2. PendingHoldsNoStock'
    BY <1>1, <1>4 DEF Inv, PendingHoldsNoStock
  <2> QED
    BY <2>1, <2>2
<1>5. CASE UNCHANGED <<stock, snapshots>> /\ sale[s].production # "PENDING"
                                        /\ status # "PENDING"
  <2>1. StockConserved'
    BY <1>5, UntouchedStock DEF Inv, UpdateProductionStatus
  <2>2. sale[s].production \in {"ASSEMBLED", "DELIVERED"}
        /\ status \in {"ASSEMBLED", "DELIVERED"}
    BY <1>5 DEF Inv, TypeOK, SaleRow, NoSale, ProductionStatus, UpdateProductionStatus
  <2>3. PendingHoldsNoStock'
    BY <1>1, <1>5, <2>2 DEF Inv, PendingHoldsNoStock
  <2> QED
    BY <2>1, <2>3
<1> QED
  BY <1>2, <1>3, <1>4, <1>5 DEF UpdateProductionStatus

\* One step per handler.
LEMMA StepInv ==
  ASSUME Inv, [Next]_vars
  PROVE  Inv'
<1> USE DEF Inv
<1>t. TypeOK'
  BY StepTypeOK
<1>1. ASSUME NEW s \in Sales, NEW items \in Baskets,
             CreateSale(s, items)
      PROVE  Inv'
  <2>1. StockConserved'
    BY <1>1, UntouchedStock DEF CreateSale
  <2>2. PendingHoldsNoStock'
    BY <1>1 DEF CreateSale, PendingHoldsNoStock, TypeOK, NoSale
  <2> QED
    BY <1>t, <2>1, <2>2
<1>2. ASSUME UNCHANGED <<stock, sale, snapshots, ledger>>
      PROVE  Inv'
  BY <1>t, <1>2, UntouchedStock DEF PendingHoldsNoStock
<1>3. ASSUME NEW s \in Sales, NEW status \in PaymentStatus, UpdatePaymentStatus(s, status)
      PROVE  Inv'
  <2>1. StockConserved'
    BY <1>3, UntouchedStock DEF UpdatePaymentStatus
  <2>2. \A t \in Sales : sale'[t].production = sale[t].production
    BY <1>3 DEF UpdatePaymentStatus, TypeOK, SaleRow
  <2>3. PendingHoldsNoStock'
    BY <1>3, <2>2 DEF UpdatePaymentStatus, PendingHoldsNoStock
  <2> QED
    BY <1>t, <2>1, <2>3
<1>4. ASSUME NEW s \in Sales, NEW status \in ProductionStatus,
             UpdateProductionStatus(s, status)
      PROVE  Inv'
  BY <1>t, <1>4, CrossingKeepsInv
<1>5. ASSUME NEW m \in Materials, NEW d \in Int,
             stock' = [stock EXCEPT ![m] = stock[m] + d],
             ledger' = [ledger EXCEPT ![m] = ledger[m] + d],
             UNCHANGED <<sale, snapshots>>
      PROVE  Inv'
  <2>1. StockConserved'
    BY <1>t, <1>5, LedgerFollowsStock
  <2> QED
    BY <1>t, <1>5, <2>1 DEF PendingHoldsNoStock
<1>6. ASSUME NEW m \in Materials, NEW q \in Quantities, ReceiveStock(m, q)
      PROVE  Inv'
  <2>1. q \in Int
    BY QuantitiesAssumption
  <2> QED
    BY <1>5, <1>6, <2>1 DEF ReceiveStock
<1>7. ASSUME NEW m \in Materials, NEW q \in Quantities \cup {0}, CountStock(m, q)
      PROVE  Inv'
  <2> DEFINE d == q - stock[m]
  <2>1. q \in Nat /\ stock[m] \in Nat /\ ledger[m] \in Int
    BY <1>7, QuantitiesAssumption DEF TypeOK
  <2>2. d \in Int /\ q = stock[m] + d /\ ledger[m] + q - stock[m] = ledger[m] + d
    BY <2>1
  <2>3. /\ stock' = [stock EXCEPT ![m] = stock[m] + d]
        /\ ledger' = [ledger EXCEPT ![m] = ledger[m] + d]
        /\ UNCHANGED <<sale, snapshots>>
    BY <1>7, <2>2 DEF CountStock
  <2> HIDE DEF d
  <2> QED
    BY <1>5, <2>2, <2>3
<1>8. ASSUME NEW m \in Materials, NEW q \in Quantities, RecordLoss(m, q)
      PROVE  Inv'
  <2>1. q \in Nat /\ stock[m] \in Nat /\ ledger[m] \in Int
    BY <1>8, QuantitiesAssumption DEF TypeOK
  <2>2. -q \in Int /\ stock[m] - q = stock[m] + (-q) /\ ledger[m] - q = ledger[m] + (-q)
    BY <2>1
  <2> QED
    BY <1>5, <1>8, <2>2 DEF RecordLoss
<1> QED
  BY <1>1, <1>2, <1>3, <1>4, <1>6, <1>7, <1>8
     DEF Next, SaleStep, MaterialStep, ProductStep, vars, AddItem, RemoveItem,
         UpdateItemQuantity, ReplaceBillOfMaterials

LEMMA Invariance == Spec => []Inv
<1>1. Init => Inv
  BY InitInv
<1>2. Inv /\ [Next]_vars => Inv'
  BY StepInv
<1> QED
  BY <1>1, <1>2, PTL DEF Spec

\* No sequence of requests served one at a time creates or destroys stock.
THEOREM StockIsConserved == Spec => []StockConserved
<1>1. Inv => StockConserved
  BY DEF Inv
<1> QED
  BY <1>1, Invariance, PTL

\* "PENDING means nothing is debited", served one at a time.
THEOREM PendingIsUndebited == Spec => []PendingHoldsNoStock
<1>1. Inv => PendingHoldsNoStock
  BY DEF Inv
<1> QED
  BY <1>1, Invariance, PTL

\* Only updateProductionStatus takes a sale out of PENDING, and it debits.
LEMMA LeavingPendingDebits ==
  ASSUME Inv, [Next]_vars, NEW s \in Sales,
         sale[s].production = "PENDING", sale'[s].production # "PENDING"
  PROVE  DebitStock(s)
<1>1. ~ UNCHANGED sale
  OBVIOUS
<1>2. ASSUME NEW t \in Sales, NEW items \in Baskets,
             CreateSale(t, items)
      PROVE  FALSE
  BY <1>2 DEF CreateSale, NoSale, Inv, TypeOK
<1>3. ASSUME NEW t \in Sales, NEW status \in PaymentStatus, UpdatePaymentStatus(t, status)
      PROVE  FALSE
  BY <1>3 DEF UpdatePaymentStatus, Inv, TypeOK, SaleRow
<1>4. ASSUME NEW t \in Sales, NEW status \in ProductionStatus,
             UpdateProductionStatus(t, status)
      PROVE  DebitStock(s)
  <2>1. t = s /\ status # "PENDING"
    BY <1>4 DEF UpdateProductionStatus, Inv, TypeOK, SaleRow
  <2>2. ~ HasSnapshots(s)
    <3>1. \A m \in Materials : snapshots[s][m] = 0
      BY DEF Inv, PendingHoldsNoStock
    <3> QED
      BY <3>1 DEF HasSnapshots
  <2> QED
    BY <1>4, <2>1, <2>2 DEF UpdateProductionStatus
<1> QED
  BY <1>1, <1>2, <1>3, <1>4
     DEF Next, SaleStep, MaterialStep, ProductStep, vars, AddItem, RemoveItem,
         UpdateItemQuantity, ReceiveStock, CountStock, RecordLoss, ReplaceBillOfMaterials

\* A debit that does not cover the need empties the shelf, and none exceeds it.
THEOREM ShortSalesEmptyTheShelf == Spec => ShortOnlyWhenShelfEmptied
<1> DEFINE Step == \A s \in Sales, m \in Materials :
       (sale[s].production = "PENDING" /\ sale'[s].production # "PENDING") =>
          LET needed == MaterialNeed(bom, lines, s, m) IN
          /\ snapshots'[s][m] <= needed
          /\ snapshots'[s][m] < needed => stock'[m] = 0
<1>1. Inv /\ [Next]_vars => [Step]_vars
  <2> SUFFICES ASSUME Inv, [Next]_vars, NEW s \in Sales, NEW m \in Materials,
                      sale[s].production = "PENDING", sale'[s].production # "PENDING"
               PROVE  /\ snapshots'[s][m] <= MaterialNeed(bom, lines, s, m)
                      /\ snapshots'[s][m] < MaterialNeed(bom, lines, s, m) => stock'[m] = 0
    OBVIOUS
  <2>1. DebitStock(s)
    BY LeavingPendingDebits
  <2>2. snapshots'[s][m] = DebitOf(s, m) /\ stock'[m] = stock[m] - DebitOf(s, m)
    BY <2>1 DEF DebitStock, Inv, TypeOK
  <2>3. stock[m] \in Nat /\ MaterialNeed(bom, lines, s, m) \in Nat
    BY NeedIsNat DEF Inv, TypeOK
  <2> QED
    BY <2>2, <2>3, DebitBounds DEF Inv
<1>2. Spec => [][Step]_vars
  BY <1>1, Invariance, PTL DEF Spec
<1> QED
  BY <1>2 DEF ShortOnlyWhenShelfEmptied

-----------------------------------------------------------------------------
(***************************************************************************)
(* ServerRecords: the audit trail and the count of server errors.          *)
(*                                                                         *)
(* TrailIsTrue is not inductive: it says nothing of a write between its    *)
(* statements, of a transaction before its commit, nor of a request that   *)
(* may yet succeed.  RecordsInv adds what they owe the trail.              *)
(***************************************************************************)

\* What rows, changes, audit rows, requests and alerts hold.
Cell == Values \cup {None}
Operations == {"create", "upsert", "updateMany", "delete", "deleteMany"}
Change == [by : Requests, row : AuditedRows, old : Cell, new : Cell, at : Nat,
           overtaken : BOOLEAN, inTx : BOOLEAN]
AuditRow == [transaction : Requests, row : AuditedRows, old : Cell, new : Cell, at : Nat,
             operation : {"CREATE", "UPDATE", "DELETE"}]

\* A write between its read and its statement, and before its audit row.
Reading == [row : AuditedRows, before : Cell, overtaken : BOOLEAN]
Writing == [row : AuditedRows, op : Operations, before : Cell, after : Cell]

\* What a transaction has written, of the rows it wrote.
Owned == UNION {[D -> Cell] : D \in SUBSET AuditedRows}

Underway == {"running", "read", "written"}
Request == [at : Underway \cup {"answered", "over", "cut"}, error : Errors \cup {NoError},
            inTx : BOOLEAN, own : Owned, audits : SUBSET AuditRow, done : SUBSET Change,
            write : {None} \cup Reading \cup Writing]

\* The types, and the shape a write under way has at each statement.
RecordsTyped ==
  /\ now \in Nat
  /\ row \in [AuditedRows -> Cell]
  /\ request \in [Requests -> Request]
  /\ changes \subseteq Change
  /\ auditLog \subseteq AuditRow
  /\ \A r \in Requests :
       /\ request[r].at = "read" => request[r].write \in Reading
       /\ request[r].at = "written" => request[r].write \in Writing

\* A change the trail owes a row for.
Matters(c) == c.old # c.new /\ ~ c.overtaken

\* The write an audit row is of, told with what it replaced unless overtaken.
Explains(a, c) ==
  Tells(a, c) \/ (c.overtaken /\ a.transaction = c.by /\ a.row = c.row /\ a.new = c.new)

\* One of these rows tells the change, and is no older.
Traced(c, rows) == \E a \in rows : Tells(a, c) /\ c.at <= a.at

\* The audit row its request inserts next tells the change.
Awaited(c) ==
  LET q == request[c.by] IN
  /\ q.at = "written" /\ q.write.row = c.row
  /\ \E a \in AuditOf(q.write.op, q.write.before, q.write.after) : a.old = c.old /\ a.new = c.new

\* The request has failed or was cut, and never succeeds.
Lost(r) ==
  \/ request[r].at = "cut"
  \/ request[r].at \in {"answered", "over"} /\ request[r].error # NoError

\* A row is as it was read, or the reading is marked as overtaken.
ReadHolds(r) ==
  request[r].at = "read" =>
    request[r].write.overtaken \/ request[r].write.before = Seen(r, request[r].write.row)

\* c is the write r has under way, and what its audit row will tell of.
WriteOf(r, c) ==
  LET w == request[r].write IN
  /\ c.by = r /\ c.row = w.row /\ c.new = w.after /\ c.at <= now
  /\ \A a \in AuditOf(w.op, w.before, w.after) : a.old = c.old \/ c.overtaken

\* Where the writes of r go.
EffectsOf(r) == IF request[r].inTx THEN request[r].done ELSE changes

WriteExplained(r) == request[r].at = "written" => \E c \in EffectsOf(r) : WriteOf(r, c)

\* A transaction keeps, until its commit, an audit row for every change.
Inside(r) ==
  /\ \A c \in request[r].done :
       /\ c.by = r /\ c.inTx /\ c.at <= now
       /\ Matters(c) => Traced(c, request[r].audits) \/ Awaited(c)
  /\ \A a \in request[r].audits : \E c \in request[r].done : Explains(a, c)

\* What holds of each request, and of each change that took effect.
RequestHolds(r) ==
  /\ request[r].at \in Underway \cup {"cut"} => request[r].error = NoError
  /\ ~ request[r].inTx => request[r].done = {} /\ request[r].audits = {}
  /\ ReadHolds(r) /\ WriteExplained(r) /\ Inside(r)

ChangeHolds(c) ==
  /\ c.at <= now
  /\ Matters(c) =>
       \/ Expired(c) \/ Traced(c, auditLog)
       \/ ~ c.inTx /\ (Lost(c.by) \/ (Awaited(c) /\ ~ request[c.by].inTx))

RecordsInv ==
  /\ RecordsTyped
  /\ \A r \in Requests : RequestHolds(r)
  /\ \A c \in changes : ChangeHolds(c)
  /\ \A a \in auditLog : \E c \in changes : Explains(a, c)

-----------------------------------------------------------------------------

LEMMA RecordsConstants ==
  NoError \notin Errors /\ AuditDays \in Nat /\ IsFiniteSet(Requests)
BY RecordsAssumption

LEMMA FreshTyped ==
  /\ Fresh \in Request
  /\ Fresh.at = "running" /\ Fresh.error = NoError /\ ~ Fresh.inTx /\ Fresh.done = {}
  /\ Fresh.audits = {} /\ Fresh.write = None
<1>1. Fresh.own \in [{} -> Cell]
  BY DEF Fresh
<1>2. Fresh.own \in Owned
  BY <1>1 DEF Owned
<1> QED
  BY <1>2 DEF Fresh, Request, Underway

LEMMA ClosingPlaces == ASSUME NEW r PROVE Closing(r) \in {"answered", "over"}
BY DEF Closing

\* What a request that ends is left with.
LEMMA EndTyped ==
  ASSUME NEW at \in Underway \cup {"answered", "over", "cut"},
         NEW error \in Errors \cup {NoError}
  PROVE  LET q == [Fresh EXCEPT !.at = at, !.error = error] IN
         /\ q \in Request
         /\ q.at = at /\ q.error = error /\ ~ q.inTx /\ q.done = {} /\ q.audits = {}
BY FreshTyped DEF Request, Fresh

LEMMA AuditsTyped ==
  ASSUME NEW op \in Operations, NEW before \in Cell, NEW after \in Cell,
         NEW a \in AuditOf(op, before, after)
  PROVE  a.old \in Cell /\ a.new = after /\ a.operation \in {"CREATE", "UPDATE", "DELETE"}
BY DEF AuditOf, Cell

\* A write that found the row as it was read is traced with what it replaced.
LEMMA ToldByItsRow ==
  ASSUME NEW op \in Operations, NEW value, NEW current, ~ Refused(op, current),
         NEW before, op = "create" \/ before = current,
         NEW reached, reached \/ MayMiss(op, before, current),
         Left(op, value, current, reached) # current
  PROVE  \E a \in AuditOf(op, before, Left(op, value, current, reached)) :
            a.old = current /\ a.new = Left(op, value, current, reached)
BY DEF Operations, Refused, AuditOf, Left, MayMiss

LEMMA NotTold ==
  ASSUME NEW op \in Operations, NEW value, NEW current, ~ Refused(op, current),
         NEW before, op = "create" \/ before = current,
         NEW reached, reached \/ MayMiss(op, before, current)
  PROVE  \A a \in AuditOf(op, before, Left(op, value, current, reached)) : a.old = current
BY DEF Operations, Refused, AuditOf, Left, MayMiss

\* Another request that a step leaves alone, or marks as overtaken.
Onlooker(s) ==
  \/ request'[s] = request[s]
  \/ /\ request[s].at = "read"
     /\ request'[s] = [request[s] EXCEPT !.write.overtaken = TRUE]

\* What the mark of an overtaken reading changes of a request.
LEMMA MarkOnly ==
  ASSUME RecordsTyped, NEW s \in Requests, Onlooker(s)
  PROVE  /\ request'[s].at = request[s].at /\ request'[s].error = request[s].error
         /\ request'[s].inTx = request[s].inTx /\ request'[s].own = request[s].own
         /\ request'[s].audits = request[s].audits /\ request'[s].done = request[s].done
         /\ request[s].at # "read" => request'[s].write = request[s].write
         /\ request'[s] # request[s] => request'[s].write = [request[s].write EXCEPT !.overtaken = TRUE]
         /\ request'[s] \in Request
         /\ request[s].at = "read" => request'[s].write \in Reading
<1>1. request[s] \in Request
  BY DEF RecordsTyped
<1>2. CASE request'[s] = request[s]
  BY <1>1, <1>2 DEF RecordsTyped
<1>3. CASE request[s].at = "read" /\ request'[s] = [request[s] EXCEPT !.write.overtaken = TRUE]
  <2>1. request[s].write \in Reading
    BY <1>3 DEF RecordsTyped
  <2>2. [request[s].write EXCEPT !.overtaken = TRUE] \in Reading
    BY <2>1 DEF Reading
  <2>3. request'[s] = [request[s] EXCEPT !.write = [request[s].write EXCEPT !.overtaken = TRUE]]
    BY <1>3
  <2> QED
    BY <1>1, <1>3, <2>2, <2>3 DEF Request
<1> QED
  BY <1>2, <1>3 DEF Onlooker

\* Another's step leaves what a request knows.
LEMMA OnlookerLocal ==
  ASSUME RecordsInv, NEW s \in Requests, Onlooker(s), now' \in Nat, now <= now', changes \subseteq changes',
         request[s].at = "read" /\ request'[s] = request[s] =>
           \/ request[s].write.overtaken
           \/ Seen(s, request[s].write.row)' = Seen(s, request[s].write.row)
  PROVE  RequestHolds(s)'
<1>1. RecordsTyped /\ RequestHolds(s) /\ now \in Nat
  BY DEF RecordsInv, RecordsTyped
<1>2. /\ request'[s].at = request[s].at /\ request'[s].error = request[s].error
      /\ request'[s].inTx = request[s].inTx /\ request'[s].own = request[s].own
      /\ request'[s].audits = request[s].audits /\ request'[s].done = request[s].done
      /\ request[s].at # "read" => request'[s].write = request[s].write
      /\ request'[s] # request[s] => request'[s].write = [request[s].write EXCEPT !.overtaken = TRUE]
      /\ request[s].at = "read" => request[s].write \in Reading
  BY <1>1, MarkOnly DEF RecordsTyped
<1>3. ReadHolds(s)'
  <2> SUFFICES ASSUME request'[s].at = "read"
               PROVE  \/ request'[s].write.overtaken
                      \/ request'[s].write.before = Seen(s, request[s].write.row)'
    BY DEF ReadHolds
  <2>1. CASE request'[s] # request[s]
    BY <1>2, <2>1 DEF Reading
  <2>2. CASE request'[s] = request[s]
    BY <1>1, <1>2, <2>2 DEF RequestHolds, ReadHolds
  <2> QED
    BY <2>1, <2>2
<1>4. WriteExplained(s)'
  <2> SUFFICES ASSUME request[s].at = "written" PROVE \E c \in EffectsOf(s)' : WriteOf(s, c)'
    BY <1>2 DEF WriteExplained
  <2>1. PICK c \in EffectsOf(s) : WriteOf(s, c)
    BY <1>1 DEF RequestHolds, WriteExplained
  <2>2. c \in EffectsOf(s)'
    BY <1>2, <2>1 DEF EffectsOf
  <2>3. c.at <= now'
    <3>1. c \in Change
      BY <1>1, <2>1 DEF EffectsOf, RecordsTyped, Request
    <3> QED
      BY <1>1, <2>1, <3>1 DEF WriteOf, Change
  <2>4. WriteOf(s, c)'
    BY <1>2, <2>1, <2>3 DEF WriteOf
  <2> QED
    BY <2>2, <2>4
<1>5. Inside(s)'
  <2>1. ASSUME NEW c \in request[s].done
        PROVE  /\ c.by = s /\ c.inTx /\ c.at <= now'
               /\ Matters(c) => Traced(c, request'[s].audits) \/ Awaited(c)'
    <3>1. /\ c.by = s /\ c.inTx /\ c.at <= now
          /\ Matters(c) => Traced(c, request[s].audits) \/ Awaited(c)
      BY <1>1 DEF RequestHolds, Inside
    <3>2. c.at \in Nat
      BY <1>1 DEF RecordsTyped, Request, Change
    <3>3. Awaited(c) => Awaited(c)'
      BY <1>2, <3>1 DEF Awaited
    <3> QED
      BY <1>1, <1>2, <3>1, <3>2, <3>3
  <2>2. \A a \in request'[s].audits : \E c \in request'[s].done : Explains(a, c)
    BY <1>1, <1>2 DEF RequestHolds, Inside
  <2> QED
    BY <1>2, <2>1, <2>2 DEF Inside
<1> QED
  BY <1>1, <1>2, <1>3, <1>4, <1>5 DEF RequestHolds

-----------------------------------------------------------------------------

\* A request's step keeps the invariant if it leaves its own part true, loses
\* nothing it or another was to trace, and adds only what is explained.
LEMMA StepKeepsInv ==
  ASSUME RecordsInv, RecordsTyped', NEW r \in Requests, now' = now,
         \A s \in Requests \ {r} :
           /\ Onlooker(s)
           /\ request[s].at = "read" /\ request'[s] = request[s] =>
                \/ request[s].write.overtaken
                \/ Seen(s, request[s].write.row)' = Seen(s, request[s].write.row),
         changes \subseteq changes', auditLog \subseteq auditLog',
         RequestHolds(r)', Lost(r) => Lost(r)',
         \A c \in changes' \ changes : ChangeHolds(c)',
         \A c \in changes :
           c.by = r /\ Matters(c) /\ Awaited(c) /\ ~ request[r].inTx => Traced(c, auditLog') \/ Lost(r)',
         \A a \in auditLog' \ auditLog : \E c \in changes' : Explains(a, c)
  PROVE  RecordsInv'
<1>1. RecordsTyped /\ now \in Nat /\ now <= now' /\ now' \in Nat
  BY DEF RecordsInv, RecordsTyped
<1>2. \A s \in Requests : RequestHolds(s)'
  <2> TAKE s \in Requests
  <2>1. CASE s = r
    BY <2>1
  <2>2. CASE s # r
    BY <1>1, <2>2, OnlookerLocal
  <2> QED
    BY <2>1, <2>2
<1>3. ASSUME NEW c \in changes PROVE ChangeHolds(c)'
  <2>1. ChangeHolds(c) /\ c.by \in Requests /\ c.at \in Nat
    BY <1>1 DEF RecordsInv, RecordsTyped, Change
  <2>2. SUFFICES ASSUME Matters(c)
                 PROVE  \/ Expired(c)' \/ Traced(c, auditLog')
                        \/ ~ c.inTx /\ (Lost(c.by)' \/ (Awaited(c)' /\ ~ request'[c.by].inTx))
    BY <2>1 DEF ChangeHolds
  <2>3. Expired(c) => Expired(c)'
    BY DEF Expired
  <2>4. Traced(c, auditLog) => Traced(c, auditLog')
    BY DEF Traced
  <2>5. Lost(c.by) => Lost(c.by)'
    BY <1>1, <2>1, MarkOnly DEF Lost
  <2>6. Awaited(c) /\ ~ request[c.by].inTx =>
          \/ Traced(c, auditLog') \/ Lost(c.by)'
          \/ Awaited(c)' /\ ~ request'[c.by].inTx
    <3>1. CASE c.by = r
      BY <2>2, <3>1
    <3>2. CASE c.by # r
      <4>1. /\ request'[c.by].at = request[c.by].at /\ request'[c.by].inTx = request[c.by].inTx
            /\ request[c.by].at # "read" => request'[c.by].write = request[c.by].write
        BY <1>1, <2>1, <3>2, MarkOnly
      <4> QED
        BY <4>1 DEF Awaited
    <3> QED
      BY <3>1, <3>2
  <2>7. \/ Expired(c) \/ Traced(c, auditLog)
        \/ ~ c.inTx /\ (Lost(c.by) \/ (Awaited(c) /\ ~ request[c.by].inTx))
    BY <2>1, <2>2 DEF ChangeHolds
  <2> QED
    BY <2>3, <2>4, <2>5, <2>6, <2>7
<1>4. \A a \in auditLog' : \E c \in changes' : Explains(a, c)
  BY DEF RecordsInv
<1> QED
  BY <1>2, <1>3, <1>4 DEF RecordsInv

\* A step that touches neither rows nor records.
LEMMA QuietStep ==
  ASSUME RecordsInv, NEW r \in Requests, NEW q \in Request, request' = [request EXCEPT ![r] = q],
         UNCHANGED <<now, row, changes, auditLog>>,
         q.at # "written", q.at = "read" => q.write \in Reading,
         RequestHolds(r)', Lost(r) => Lost(r)',
         request[r].at = "written" => Lost(r)'
  PROVE  RecordsInv'
<1>1. request'[r] = q /\ \A s \in Requests \ {r} : request'[s] = request[s]
  BY DEF RecordsInv, RecordsTyped
<1>2. RecordsTyped'
  BY <1>1 DEF RecordsInv, RecordsTyped
<1>3. \A s \in Requests \ {r} :
      Onlooker(s) /\ Seen(s, request[s].write.row)' = Seen(s, request[s].write.row)
  BY <1>1 DEF Onlooker, Seen
<1>4. \A c \in changes : c.by = r /\ Awaited(c) => Lost(r)'
  BY DEF Awaited
<1> QED
  BY <1>2, <1>3, <1>4, StepKeepsInv

\* What a transaction has done stays explained and traced while no write is
\* under way.
LEMMA InsideStays ==
  ASSUME RecordsInv, NEW r \in Requests, request[r].at # "written", now' = now,
         request'[r].done = request[r].done, request'[r].audits = request[r].audits
  PROVE  Inside(r)'
<1>1. Inside(r)
  BY DEF RecordsInv, RequestHolds
<1>2. \A c \in request[r].done : c.by = r
  BY <1>1 DEF Inside
<1>3. \A c \in request[r].done : ~ Awaited(c)
  BY <1>2 DEF Awaited
<1> QED
  BY <1>1, <1>2, <1>3 DEF Inside

LEMMA SeenTyped ==
  ASSUME RecordsTyped, NEW r \in Requests, NEW e \in AuditedRows
  PROVE  Seen(r, e) \in Cell
<1>1. request[r].own \in Owned /\ row[e] \in Cell
  BY DEF RecordsTyped, Request
<1>2. PICK D \in SUBSET AuditedRows : request[r].own \in [D -> Cell]
  BY <1>1 DEF Owned
<1> QED
  BY <1>1, <1>2 DEF Seen

LEMMA BeginKeeps ==
  ASSUME RecordsInv, NEW r \in Requests, Begin(r)
  PROVE  RecordsInv'
<1> DEFINE q == [request[r] EXCEPT !.inTx = TRUE]
<1>1. request[r] \in Request /\ request[r].at = "running" /\ RequestHolds(r)
  BY DEF RecordsInv, RecordsTyped, Begin
<1>2. /\ q \in Request /\ q.at = "running" /\ q.error = request[r].error
      /\ q.done = request[r].done /\ q.audits = request[r].audits /\ q.inTx
  BY <1>1 DEF Request
<1>3. request' = [request EXCEPT ![r] = q] /\ request'[r] = q
  BY DEF Begin, RecordsInv, RecordsTyped
<1>4. UNCHANGED <<now, row, changes, auditLog>>
  BY DEF Begin
<1> HIDE DEF q
<1>5. RequestHolds(r)'
  <2>1. Inside(r)'
    BY <1>1, <1>2, <1>3, <1>4, InsideStays
  <2> QED
    BY <1>1, <1>2, <1>3, <2>1 DEF RequestHolds, ReadHolds, WriteExplained, Underway
<1>6. ~ Lost(r)
  BY <1>1 DEF Lost
<1> QED
  BY <1>1, <1>2, <1>3, <1>4, <1>5, <1>6, QuietStep

LEMMA ReadBeforeKeeps ==
  ASSUME RecordsInv, NEW r \in Requests, NEW e \in AuditedRows, ReadBefore(r, e)
  PROVE  RecordsInv'
<1> DEFINE w == [row |-> e, before |-> Seen(r, e), overtaken |-> FALSE]
           q == [request[r] EXCEPT !.at = "read", !.write = w]
<1>1. request[r] \in Request /\ request[r].at = "running" /\ RequestHolds(r)
  BY DEF RecordsInv, RecordsTyped, ReadBefore
<1>2. w \in Reading /\ w.row = e /\ w.before = Seen(r, e)
  BY SeenTyped DEF RecordsInv, Reading
<1>3. /\ q \in Request /\ q.at = "read" /\ q.error = request[r].error /\ q.inTx = request[r].inTx
      /\ q.done = request[r].done /\ q.audits = request[r].audits /\ q.write = w
      /\ q.own = request[r].own
  BY <1>1, <1>2 DEF Request, Underway
<1>4. request' = [request EXCEPT ![r] = q] /\ request'[r] = q
  BY DEF ReadBefore, Before, RecordsInv, RecordsTyped
<1>5. UNCHANGED <<now, row, changes, auditLog>>
  BY DEF ReadBefore
<1>6. Seen(r, e)' = Seen(r, e)
  BY <1>3, <1>4, <1>5 DEF Seen
<1> HIDE DEF q, w
<1>7. RequestHolds(r)'
  <2>1. Inside(r)'
    BY <1>1, <1>3, <1>4, <1>5, InsideStays
  <2>2. ReadHolds(r)'
    BY <1>2, <1>3, <1>4, <1>6 DEF ReadHolds
  <2> QED
    BY <1>1, <1>3, <1>4, <2>1, <2>2 DEF RequestHolds, WriteExplained, Underway
<1>8. ~ Lost(r)
  BY <1>1 DEF Lost
<1> QED
  BY <1>1, <1>2, <1>3, <1>4, <1>5, <1>7, <1>8, QuietStep

LEMMA EndedLocal ==
  ASSUME NEW r \in Requests, request'[r].at \in {"answered", "over", "cut"},
         request'[r].at = "cut" => request'[r].error = NoError,
         request'[r].done = {}, request'[r].audits = {}
  PROVE  RequestHolds(r)'
BY DEF RequestHolds, ReadHolds, WriteExplained, Inside, Underway

LEMMA AnswerKeeps ==
  ASSUME RecordsInv, NEW r \in Requests, Answer(r)
  PROVE  RecordsInv'
<1> DEFINE q == [Fresh EXCEPT !.at = Closing(r)]
<1>1. request[r].at = "running"
  BY DEF Answer
<1>2. q \in Request /\ q.at \in {"answered", "over"} /\ q.done = {} /\ q.audits = {}
  BY FreshTyped, ClosingPlaces DEF Request, Fresh
<1>3. request' = [request EXCEPT ![r] = q] /\ request'[r] = q
  BY DEF Answer, RecordsInv, RecordsTyped
<1>4. UNCHANGED <<now, row, changes, auditLog>>
  BY DEF Answer
<1> HIDE DEF q
<1>5. RequestHolds(r)'
  BY <1>2, <1>3, EndedLocal
<1>6. ~ Lost(r)
  BY <1>1 DEF Lost
<1> QED
  BY <1>1, <1>2, <1>3, <1>4, <1>5, <1>6, QuietStep

LEMMA FailKeeps ==
  ASSUME RecordsInv, NEW r \in Requests, NEW t \in Errors, Fail(r, t)
  PROVE  RecordsInv'
<1> DEFINE q == [Fresh EXCEPT !.at = Closing(r), !.error = t]
<1>1. request[r].at \in Underway
  BY DEF Fail, Underway
<1>2. q \in Request /\ q.at \in {"answered", "over"} /\ q.error = t /\ q.done = {} /\ q.audits = {}
  BY FreshTyped, ClosingPlaces DEF Request, Fresh
<1>3. request' = [request EXCEPT ![r] = q] /\ request'[r] = q
  BY DEF Fail, RecordsInv, RecordsTyped
<1>4. UNCHANGED <<now, row, changes, auditLog>>
  BY DEF Fail
<1> HIDE DEF q
<1>5. RequestHolds(r)'
  BY <1>2, <1>3, EndedLocal
<1>6. Lost(r)'
  BY <1>2, <1>3, RecordsConstants DEF Lost
<1> QED
  BY <1>1, <1>2, <1>3, <1>4, <1>5, <1>6, QuietStep

\* The RequestLog row, written or lost.
LEMMA CloseKeeps ==
  ASSUME RecordsInv, NEW r \in Requests, WriteRequestLog(r) \/ LoseRequestLog(r)
  PROVE  RecordsInv'
<1> DEFINE q == [request[r] EXCEPT !.at = "over"]
<1>1. request[r] \in Request /\ request[r].at = "answered" /\ RequestHolds(r)
  BY DEF RecordsInv, RecordsTyped, WriteRequestLog, LoseRequestLog
<1>2. /\ q \in Request /\ q.at = "over" /\ q.error = request[r].error /\ q.inTx = request[r].inTx
      /\ q.done = request[r].done /\ q.audits = request[r].audits
  BY <1>1 DEF Request
<1>3. request' = [request EXCEPT ![r] = q] /\ request'[r] = q
  BY DEF WriteRequestLog, LoseRequestLog, RecordsInv, RecordsTyped
<1>4. UNCHANGED <<now, row, changes, auditLog>>
  BY DEF WriteRequestLog, LoseRequestLog
<1> HIDE DEF q
<1>5. RequestHolds(r)'
  <2>1. Inside(r)'
    BY <1>1, <1>2, <1>3, <1>4, InsideStays
  <2> QED
    BY <1>1, <1>2, <1>3, <2>1 DEF RequestHolds, ReadHolds, WriteExplained, Underway
<1>6. Lost(r) => Lost(r)'
  BY <1>1, <1>2, <1>3 DEF Lost
<1> QED
  BY <1>1, <1>2, <1>3, <1>4, <1>5, <1>6, QuietStep

-----------------------------------------------------------------------------

LEMMA LeftTyped ==
  ASSUME NEW op \in Operations, NEW value \in Cell, NEW current \in Cell, NEW reached
  PROVE  Left(op, value, current, reached) \in Cell
BY DEF Left, Cell

LEMMA WriteKeeps ==
  ASSUME RecordsInv, NEW r \in Requests, NEW op \in Operations, NEW value \in Cell,
         NEW reached, request[r].at = "read", Write(r, op, value, reached)
  PROVE  RecordsInv'
<1> DEFINE e == request[r].write.row
           current == Seen(r, e)
           left == Left(op, value, current, reached)
           made == [by |-> r, row |-> e, old |-> current, new |-> left, at |-> now,
                    overtaken |-> request[r].write.overtaken /\ op # "create",
                    inTx |-> request[r].inTx]
           w == [row |-> e, op |-> op, before |-> request[r].write.before, after |-> left]
           written == [request EXCEPT ![r].at = "written", ![r].write = w]
<1>1. /\ request[r] \in Request /\ request[r].write \in Reading /\ RequestHolds(r) /\ RecordsTyped
      /\ now \in Nat /\ request[r].inTx \in BOOLEAN
  BY DEF RecordsInv, RecordsTyped, Request
<1>2. e \in AuditedRows /\ current \in Cell /\ left \in Cell
  BY <1>1, SeenTyped, LeftTyped DEF Reading
<1>3. made \in Change
  <2>1. (request[r].write.overtaken /\ op # "create") \in BOOLEAN
    OBVIOUS
  <2> QED
    BY <1>1, <1>2, <2>1 DEF Change
<1>4. w \in Writing
  BY <1>1, <1>2 DEF Writing, Reading
<1>5. /\ ~ Refused(op, current) /\ now' = now /\ auditLog' = auditLog
      /\ reached \/ MayMiss(op, request[r].write.before, current)
  BY DEF Write
<1>p. PICK change \in Change : change = made
  BY <1>3
<1>6. /\ w.row = e /\ w.op = op /\ w.before = request[r].write.before /\ w.after = left
      /\ change.by = r /\ change.row = e /\ change.old = current /\ change.new = left
      /\ change.at = now /\ change.inTx = request[r].inTx
      /\ change.overtaken = (request[r].write.overtaken /\ op # "create")
  BY <1>p
<1>7. ~ change.overtaken => op = "create" \/ w.before = current
  BY <1>1, <1>6 DEF RequestHolds, ReadHolds
<1>8. /\ Matters(change) => \E a \in AuditOf(op, w.before, left) : a.old = current /\ a.new = left
      /\ \A a \in AuditOf(op, w.before, left) : a.old = current \/ change.overtaken
  <2>1. CASE change.overtaken
    BY <2>1 DEF Matters
  <2>2. CASE ~ change.overtaken
    <3>1. op = "create" \/ w.before = current
      BY <1>7, <2>2
    <3>2. left # current => \E a \in AuditOf(op, w.before, left) : a.old = current /\ a.new = left
      BY <1>5, <1>6, <3>1, ToldByItsRow
    <3>3. \A a \in AuditOf(op, w.before, left) : a.old = current
      BY <1>5, <1>6, <3>1, NotTold
    <3> QED
      BY <1>6, <3>2, <3>3 DEF Matters
  <2> QED
    BY <2>1, <2>2
<1>9. CASE request[r].inTx
  <2> DEFINE own == [f \in DOMAIN request[r].own \cup {e} |-> IF f = e THEN left ELSE request[r].own[f]]
             q == [request[r] EXCEPT !.at = "written", !.write = w,
                                     !.done = @ \cup {change}, !.own = own]
  <2>1. own \in Owned
    <3>1. PICK D \in SUBSET AuditedRows : request[r].own \in [D -> Cell]
      BY <1>1 DEF Request, Owned
    <3>2. own \in [D \cup {e} -> Cell] /\ D \cup {e} \in SUBSET AuditedRows
      BY <1>2, <3>1
    <3> QED
      BY <3>2 DEF Owned
  <2>2. /\ q \in Request /\ q.at = "written" /\ q.error = request[r].error /\ q.inTx
        /\ q.done = request[r].done \cup {change} /\ q.audits = request[r].audits /\ q.write = w
    BY <1>1, <1>3, <1>4, <1>9, <2>1 DEF Request, Underway
  <2>3. request' = [request EXCEPT ![r] = q] /\ UNCHANGED <<row, changes>>
    <3>1. written = [request EXCEPT ![r] = [request[r] EXCEPT !.at = "written", !.write = w]]
      BY <1>1 DEF RecordsTyped
    <3>2. /\ request' = [written EXCEPT ![r].done = @ \cup {made},
               ![r].own = [f \in DOMAIN @ \cup {e} |-> IF f = e THEN left ELSE @[f]]]
          /\ UNCHANGED <<row, changes>>
      BY <1>9 DEF Write
    <3>3. /\ written[r] = [request[r] EXCEPT !.at = "written", !.write = w]
          /\ written[r].done = request[r].done /\ written[r].own = request[r].own
      BY <1>1, <3>1 DEF RecordsTyped, Request
    <3> HIDE DEF w, made, written, e, left
    <3>4. request' = [written EXCEPT ![r] =
                        [written[r] EXCEPT !.done = request[r].done \cup {made}, !.own = own]]
      BY <3>2, <3>3
    <3>5. q = [written[r] EXCEPT !.done = request[r].done \cup {made}, !.own = own]
      BY <1>p, <3>3
    <3> QED
      BY <3>1, <3>2, <3>4, <3>5
  <2>4. request'[r] = q /\ \A s \in Requests \ {r} : request'[s] = request[s]
    BY <1>1, <2>3 DEF RecordsTyped
  <2> HIDE DEF q, own, made, w, written
  <2>5. RecordsTyped'
    BY <1>1, <1>4, <1>5, <2>2, <2>3, <2>4 DEF RecordsTyped
  <2>6. \A s \in Requests \ {r} :
        Onlooker(s) /\ Seen(s, request[s].write.row)' = Seen(s, request[s].write.row)
    BY <2>3, <2>4 DEF Onlooker, Seen
  <2>7. RequestHolds(r)'
    <3>1. WriteOf(r, change)'
      BY <1>1, <1>5, <1>6, <1>8, <2>2, <2>4 DEF WriteOf
    <3>2. WriteExplained(r)'
      BY <2>2, <2>4, <3>1 DEF WriteExplained, EffectsOf
    <3>3. \A c \in request[r].done : Matters(c) => Traced(c, request[r].audits)
      BY <1>1 DEF RequestHolds, Inside, Awaited
    <3>4. Inside(r)'
      <4>1. ASSUME NEW c \in request'[r].done
            PROVE  /\ c.by = r /\ c.inTx /\ c.at <= now'
                   /\ Matters(c) => Traced(c, request'[r].audits) \/ Awaited(c)'
        <5>1. CASE c = change
          <6>1. Matters(c) => Awaited(c)'
            BY <1>6, <1>8, <2>2, <2>4, <5>1 DEF Awaited
          <6>2. c.by = r /\ c.at <= now'
            BY <1>1, <1>5, <1>6, <5>1
          <6>3. c.inTx
            BY <1>6, <1>9, <5>1
          <6> QED
            BY <6>1, <6>2, <6>3
        <5>2. CASE c \in request[r].done
          BY <1>1, <1>5, <2>2, <2>4, <3>3, <5>2 DEF RequestHolds, Inside
        <5> QED
          BY <2>2, <2>4, <5>1, <5>2
      <4>2. \A a \in request'[r].audits : \E c \in request'[r].done : Explains(a, c)
        BY <1>1, <2>2, <2>4 DEF RequestHolds, Inside
      <4> QED
        BY <4>1, <4>2 DEF Inside
    <3> QED
      BY <1>1, <2>2, <2>4, <3>2, <3>4 DEF RequestHolds, ReadHolds, Underway
  <2>8. ~ Lost(r) /\ \A c \in changes : c.by = r => ~ Awaited(c)
    BY DEF Lost, Awaited
  <2> QED
    BY <1>5, <2>3, <2>5, <2>6, <2>7, <2>8, StepKeepsInv
<1>10. CASE ~ request[r].inTx
  <2> DEFINE q == [request[r] EXCEPT !.at = "written", !.write = w]
  <2>1. /\ q \in Request /\ q.at = "written" /\ q.error = request[r].error /\ ~ q.inTx
        /\ q.done = request[r].done /\ q.audits = request[r].audits /\ q.write = w
    BY <1>1, <1>4, <1>10 DEF Request, Underway
  <2>2. written = [request EXCEPT ![r] = q] /\ written[r] = q
        /\ \A s \in Requests \ {r} : written[s] = request[s]
    BY <1>1 DEF RecordsTyped
  <2>3. /\ row' = [row EXCEPT ![e] = left] /\ changes' = changes \cup {change}
        /\ request' = Overtaking(r, {e}, written)
    BY <1>10, <1>p DEF Write
  <2> HIDE DEF q, written, made, w
  <2>4. request'[r] = q
    BY <2>2, <2>3 DEF Overtaking
  <2>5. ASSUME NEW s \in Requests \ {r}
        PROVE  /\ Onlooker(s)
               /\ request[s].at = "read" /\ request'[s] = request[s]
                    => \/ request[s].write.overtaken
                       \/ Seen(s, request[s].write.row)' = Seen(s, request[s].write.row)
    <3>1. written[s] = request[s] /\ request[s] \in Request
      BY <1>1, <2>2 DEF RecordsTyped
    <3>2. CASE request[s].at = "read" /\ request[s].write.row = e
      <4>1. request'[s] = [request[s] EXCEPT !.write.overtaken = TRUE]
        BY <2>3, <3>1, <3>2 DEF Overtaking
      <4>2. request'[s] = request[s] => request[s].write.overtaken
        <5>1. request'[s].write = [request[s].write EXCEPT !.overtaken = TRUE]
          BY <3>1, <4>1 DEF Request
        <5> QED
          BY <1>1, <3>2, <5>1 DEF RecordsTyped, Reading
      <4>q. Onlooker(s)
        BY <3>2, <4>1 DEF Onlooker
      <4> QED
        BY <4>q, <4>2
    <3>3. CASE ~ (request[s].at = "read" /\ request[s].write.row = e)
      <4>1. request'[s] = request[s]
        BY <2>3, <3>1, <3>3 DEF Overtaking
      <4>2. request[s].at = "read" => request[s].write.row \in AuditedRows
        BY <1>1 DEF RecordsTyped, Reading
      <4>3. request[s].at = "read" => Seen(s, request[s].write.row)' = Seen(s, request[s].write.row)
        BY <1>1, <2>3, <3>3, <4>1, <4>2 DEF Seen, RecordsTyped
      <4> QED
        BY <4>1, <4>3 DEF Onlooker
    <3> QED
      BY <3>2, <3>3
  <2>6. RecordsTyped'
    <3>1. row' \in [AuditedRows -> Cell] /\ changes' \subseteq Change /\ auditLog' \subseteq AuditRow /\ now' \in Nat
      BY <1>1, <1>2, <1>5, <2>3 DEF RecordsTyped
    <3>2. request' \in [Requests -> Request]
      <4>1. \A s \in Requests : request'[s] \in Request
        BY <1>1, <2>1, <2>4, <2>5, MarkOnly
      <4>2. DOMAIN request' = Requests /\ request' = [s \in Requests |-> request'[s]]
        BY <2>3 DEF Overtaking
      <4> QED
        BY <4>1, <4>2
    <3>3. ASSUME NEW s \in Requests
          PROVE  /\ request'[s].at = "read" => request'[s].write \in Reading
                 /\ request'[s].at = "written" => request'[s].write \in Writing
      <4>1. CASE s = r
        BY <1>4, <2>1, <2>4, <4>1
      <4>2. CASE s # r
        BY <1>1, <2>5, <4>2, MarkOnly DEF RecordsTyped
      <4> QED
        BY <4>1, <4>2
    <3> QED
      BY <3>1, <3>2, <3>3 DEF RecordsTyped
  <2>7. WriteOf(r, change)'
    BY <1>1, <1>5, <1>6, <1>8, <2>1, <2>4 DEF WriteOf
  <2>8. Matters(change) => Awaited(change)'
    BY <1>6, <1>8, <2>1, <2>4 DEF Awaited
  <2>9. RequestHolds(r)'
    <3>1. WriteExplained(r)'
      BY <2>1, <2>3, <2>4, <2>7 DEF WriteExplained, EffectsOf
    <3>2. Inside(r)'
      BY <1>1, <1>10, <2>1, <2>4 DEF RequestHolds, Inside
    <3> QED
      BY <1>1, <1>10, <2>1, <2>4, <3>1, <3>2 DEF RequestHolds, ReadHolds, Underway
  <2>10. ChangeHolds(change)'
    BY <1>1, <1>5, <1>6, <1>10, <2>1, <2>4, <2>8 DEF ChangeHolds
  <2>11. ~ Lost(r) /\ \A c \in changes : c.by = r => ~ Awaited(c)
    BY DEF Lost, Awaited
  <2> QED
    BY <1>5, <2>3, <2>5, <2>6, <2>9, <2>10, <2>11, StepKeepsInv
<1> QED
  BY <1>1, <1>9, <1>10

\* The audit row of a write, kept to the transaction or committed at once.
LEMMA WriteAuditKeeps ==
  ASSUME RecordsInv, NEW r \in Requests, WriteAudit(r)
  PROVE  RecordsInv'
<1> DEFINE w == request[r].write
           rows == AuditOf(w.op, w.before, w.after)
           added == {[transaction |-> r, row |-> w.row, old |-> a.old, new |-> a.new, at |-> now,
                      operation |-> a.operation] : a \in rows}
           going == [request[r] EXCEPT !.at = "running", !.write = None]
<1>1. /\ request[r] \in Request /\ request[r].at = "written" /\ w \in Writing /\ RequestHolds(r)
      /\ RecordsTyped /\ now \in Nat
  BY DEF WriteAudit, RecordsInv, RecordsTyped
<1>2. \A a \in rows : a.old \in Cell /\ a.new \in Cell /\ a.new = w.after
                      /\ a.operation \in {"CREATE", "UPDATE", "DELETE"}
  BY <1>1, AuditsTyped DEF Writing
<1>3. added \subseteq AuditRow
  BY <1>1, <1>2 DEF AuditRow, Writing
<1>4. UNCHANGED <<now, row, changes>>
  BY DEF WriteAudit
<1>5. PICK mine \in EffectsOf(r) : WriteOf(r, mine)
  BY <1>1 DEF RequestHolds, WriteExplained
<1>6. \A a \in added : Explains(a, mine)
  BY <1>2, <1>5 DEF WriteOf, Explains, Tells
<1>7. ASSUME NEW c, c.by = r, Awaited(c), c.at <= now
      PROVE  Traced(c, added)
  <2>1. PICK a \in rows : a.old = c.old /\ a.new = c.new
    BY <1>7 DEF Awaited
  <2> DEFINE row_a == [transaction |-> r, row |-> w.row, old |-> a.old, new |-> a.new, at |-> now,
                       operation |-> a.operation]
  <2>2. row_a \in added
    OBVIOUS
  <2>3. w.row = c.row
    BY <1>7 DEF Awaited
  <2>4. Tells(row_a, c) /\ c.at <= row_a.at
    BY <1>7, <2>1, <2>3 DEF Tells
  <2> QED
    BY <2>2, <2>4 DEF Traced
<1>8. /\ going \in Request /\ going.at = "running" /\ going.error = request[r].error
      /\ going.inTx = request[r].inTx /\ going.done = request[r].done
      /\ going.audits = request[r].audits
  BY <1>1 DEF Request, Underway
<1>9. ~ Lost(r)
  BY <1>1 DEF Lost
<1>10. CASE request[r].inTx
  <2> DEFINE q == [going EXCEPT !.audits = request[r].audits \cup added]
  <2>1. /\ q \in Request /\ q.at = "running" /\ q.error = request[r].error /\ q.inTx
        /\ q.done = request[r].done /\ q.audits = request[r].audits \cup added
    BY <1>1, <1>3, <1>8, <1>10 DEF Request
  <2>2. request' = [request EXCEPT ![r] = q] /\ auditLog' = auditLog
    BY <1>1, <1>10 DEF WriteAudit, RecordsTyped, Request
  <2>3. request'[r] = q /\ \A s \in Requests \ {r} : request'[s] = request[s]
    BY <1>1, <2>2 DEF RecordsTyped
  <2> HIDE DEF q, added, going
  <2>4. RecordsTyped'
    BY <1>1, <1>4, <2>1, <2>2, <2>3 DEF RecordsTyped
  <2>5. \A s \in Requests \ {r} :
        Onlooker(s) /\ Seen(s, request[s].write.row)' = Seen(s, request[s].write.row)
    BY <1>4, <2>3 DEF Onlooker, Seen
  <2>6. Inside(r)'
    <3>1. ASSUME NEW c \in request[r].done
          PROVE  /\ c.by = r /\ c.inTx /\ c.at <= now'
                 /\ Matters(c) => Traced(c, request'[r].audits)
      <4>1. /\ c.by = r /\ c.inTx /\ c.at <= now
            /\ Matters(c) => Traced(c, request[r].audits) \/ Awaited(c)
        BY <1>1 DEF RequestHolds, Inside
      <4>2. Matters(c) => Traced(c, request[r].audits) \/ Traced(c, added)
        BY <1>7, <4>1
      <4> QED
        BY <1>4, <2>1, <2>3, <4>1, <4>2 DEF Traced
    <3>2. ASSUME NEW a \in request'[r].audits PROVE \E c \in request[r].done : Explains(a, c)
      BY <1>1, <1>5, <1>6, <1>10, <2>1, <2>3 DEF RequestHolds, Inside, EffectsOf
    <3> QED
      BY <2>1, <2>3, <3>1, <3>2 DEF Inside
  <2>7. RequestHolds(r)'
    BY <1>1, <2>1, <2>3, <2>6 DEF RequestHolds, ReadHolds, WriteExplained, Underway
  <2> QED
    BY <1>4, <1>9, <1>10, <2>2, <2>4, <2>5, <2>7, StepKeepsInv
<1>11. CASE ~ request[r].inTx
  <2>1. request' = [request EXCEPT ![r] = going] /\ auditLog' = auditLog \cup added
    BY <1>1, <1>11 DEF WriteAudit, RecordsTyped, Request
  <2>2. request'[r] = going /\ \A s \in Requests \ {r} : request'[s] = request[s]
    BY <1>1, <2>1 DEF RecordsTyped
  <2> HIDE DEF added, going
  <2>3. RecordsTyped'
    BY <1>1, <1>3, <1>4, <1>8, <2>1, <2>2 DEF RecordsTyped
  <2>4. \A s \in Requests \ {r} :
        Onlooker(s) /\ Seen(s, request[s].write.row)' = Seen(s, request[s].write.row)
    BY <1>4, <2>2 DEF Onlooker, Seen
  <2>5. RequestHolds(r)'
    BY <1>1, <1>8, <1>11, <2>2 DEF RequestHolds, ReadHolds, WriteExplained, Inside, Underway
  <2>6. ASSUME NEW c \in changes, c.by = r, Awaited(c) PROVE Traced(c, auditLog')
    <3>1. c.at <= now
      BY DEF RecordsInv, ChangeHolds
    <3> QED
      BY <1>7, <2>1, <2>6, <3>1 DEF Traced
  <2>7. \A a \in auditLog' \ auditLog : \E c \in changes' : Explains(a, c)
    BY <1>4, <1>5, <1>6, <1>11, <2>1 DEF EffectsOf
  <2> QED
    BY <1>4, <1>9, <2>1, <2>3, <2>4, <2>5, <2>6, <2>7, StepKeepsInv
<1> QED
  BY <1>1, <1>10, <1>11 DEF Request

\* A commit: the rows, the changes and the audit rows at once.
LEMMA CommitKeeps ==
  ASSUME RecordsInv, NEW r \in Requests, Commit(r)
  PROVE  RecordsInv'
<1> DEFINE own == request[r].own
           q == [request EXCEPT ![r] = Fresh]
<1>1. /\ request[r] \in Request /\ request[r].at = "running" /\ request[r].inTx /\ RequestHolds(r)
      /\ RecordsTyped /\ now \in Nat
  BY DEF Commit, RecordsInv, RecordsTyped
<1>2. /\ row' = [e \in AuditedRows |-> Seen(r, e)] /\ now' = now
      /\ changes' = changes \cup request[r].done /\ auditLog' = auditLog \cup request[r].audits
      /\ request' = Overtaking(r, DOMAIN own, q)
  BY DEF Commit
<1>3. q[r] = Fresh /\ \A s \in Requests \ {r} : q[s] = request[s]
  BY <1>1 DEF RecordsTyped
<1> HIDE DEF q, own
<1>4. request'[r] = Fresh
  BY <1>2, <1>3 DEF Overtaking
<1>5. ASSUME NEW s \in Requests \ {r}
      PROVE  /\ Onlooker(s)
             /\ request[s].at = "read" /\ request'[s] = request[s]
                  => \/ request[s].write.overtaken
                     \/ Seen(s, request[s].write.row)' = Seen(s, request[s].write.row)
  <2>1. q[s] = request[s] /\ request[s] \in Request
    BY <1>1, <1>3 DEF RecordsTyped
  <2>2. CASE request[s].at = "read" /\ request[s].write.row \in DOMAIN own
    <3>1. request'[s] = [request[s] EXCEPT !.write.overtaken = TRUE]
      BY <1>2, <2>1, <2>2 DEF Overtaking
    <3>2. request'[s] = request[s] => request[s].write.overtaken
      <4>1. request'[s].write = [request[s].write EXCEPT !.overtaken = TRUE]
        BY <2>1, <3>1 DEF Request
      <4> QED
        BY <1>1, <2>2, <4>1 DEF RecordsTyped, Reading
    <3>3. Onlooker(s)
      BY <2>2, <3>1 DEF Onlooker
    <3> QED
      BY <3>2, <3>3
  <2>3. CASE ~ (request[s].at = "read" /\ request[s].write.row \in DOMAIN own)
    <3>1. request'[s] = request[s]
      BY <1>2, <2>1, <2>3 DEF Overtaking
    <3>2. request[s].at = "read" => request[s].write.row \in AuditedRows
      BY <1>1 DEF RecordsTyped, Reading
    <3>3. request[s].at = "read" => Seen(s, request[s].write.row)' = Seen(s, request[s].write.row)
      BY <1>1, <1>2, <2>3, <3>1, <3>2 DEF Seen, RecordsTyped, own
    <3> QED
      BY <3>1, <3>3 DEF Onlooker
  <2> QED
    BY <2>2, <2>3
<1>6. RecordsTyped'
  <2>1. row' \in [AuditedRows -> Cell]
    BY <1>1, <1>2, SeenTyped
  <2>2. changes' \subseteq Change /\ auditLog' \subseteq AuditRow /\ now' \in Nat
    BY <1>1, <1>2 DEF RecordsTyped, Request
  <2>3. request' \in [Requests -> Request]
    <3>1. \A s \in Requests : request'[s] \in Request
      BY <1>1, <1>4, <1>5, MarkOnly, FreshTyped
    <3>2. DOMAIN request' = Requests /\ request' = [s \in Requests |-> request'[s]]
      BY <1>2 DEF Overtaking
    <3> QED
      BY <3>1, <3>2
  <2>4. ASSUME NEW s \in Requests
        PROVE  /\ request'[s].at = "read" => request'[s].write \in Reading
               /\ request'[s].at = "written" => request'[s].write \in Writing
    <3>1. CASE s = r
      BY <1>4, <3>1, FreshTyped
    <3>2. CASE s # r
      BY <1>1, <1>5, <3>2, MarkOnly DEF RecordsTyped
    <3> QED
      BY <3>1, <3>2
  <2> QED
    BY <2>1, <2>2, <2>3, <2>4 DEF RecordsTyped
<1>7. RequestHolds(r)'
  BY <1>4, FreshTyped DEF RequestHolds, ReadHolds, WriteExplained, Inside, Underway
<1>8. \A c \in request[r].done : /\ c.inTx /\ c.by = r /\ c.at <= now
                                 /\ Matters(c) => Traced(c, request[r].audits)
  BY <1>1 DEF RequestHolds, Inside, Awaited
<1>9. ASSUME NEW c \in changes' \ changes PROVE ChangeHolds(c)'
  BY <1>2, <1>8 DEF ChangeHolds, Traced
<1>10. \A a \in auditLog' \ auditLog : \E c \in changes' : Explains(a, c)
  BY <1>1, <1>2 DEF RequestHolds, Inside
<1>11. ~ Lost(r) /\ \A c \in changes : c.by = r => ~ Awaited(c)
  BY <1>1 DEF Lost, Awaited
<1> QED
  BY <1>2, <1>5, <1>6, <1>7, <1>9, <1>10, <1>11, StepKeepsInv

-----------------------------------------------------------------------------
\* Steps of no one request.

\* Time and pruning: nobody is in the middle of a write the clock passes, and
\* an audit row goes only when the change it tells has expired.
LEMMA AgeingKeeps ==
  ASSUME RecordsInv, UNCHANGED <<row, request, changes>>, now' \in Nat, now <= now',
         auditLog' \subseteq auditLog,
         \A a \in auditLog \ auditLog' : now > a.at + AuditDays
  PROVE  RecordsInv'
<1>1. RecordsTyped /\ now \in Nat
  BY DEF RecordsInv, RecordsTyped
<1>2. RecordsTyped'
  BY <1>1 DEF RecordsTyped
<1>3. \A s \in Requests : RequestHolds(s)'
  BY <1>1, OnlookerLocal DEF Onlooker, Seen
<1>4. ASSUME NEW c \in changes PROVE ChangeHolds(c)'
  <2>1. ChangeHolds(c) /\ c.at \in Nat
    BY <1>1 DEF RecordsInv, RecordsTyped, Change
  <2>2. Expired(c) => Expired(c)'
    BY <1>1, <2>1, RecordsConstants DEF Expired
  <2>3. Traced(c, auditLog) => Traced(c, auditLog') \/ Expired(c)'
    <3> SUFFICES ASSUME Traced(c, auditLog) PROVE Traced(c, auditLog') \/ Expired(c)'
      OBVIOUS
    <3>1. PICK a \in auditLog : Tells(a, c) /\ c.at <= a.at
      BY DEF Traced
    <3>2. CASE a \in auditLog'
      BY <3>1, <3>2 DEF Traced
    <3>3. CASE a \notin auditLog'
      <4>1. a.at \in Nat /\ now > a.at + AuditDays
        BY <1>1, <3>3 DEF RecordsTyped, AuditRow
      <4> QED
        BY <1>1, <2>1, <3>1, <4>1, RecordsConstants DEF Expired
    <3> QED
      BY <3>2, <3>3
  <2>4. (Lost(c.by) <=> Lost(c.by)') /\ (Awaited(c) <=> Awaited(c)')
    BY DEF Lost, Awaited
  <2> QED
    BY <1>1, <2>1, <2>2, <2>3, <2>4 DEF ChangeHolds
<1>5. \A a \in auditLog' : \E c \in changes' : Explains(a, c)
  BY DEF RecordsInv
<1> QED
  BY <1>2, <1>3, <1>4, <1>5 DEF RecordsInv

LEMMA PruneKeeps ==
  ASSUME RecordsInv, NEW audit \in BOOLEAN, NEW log \in BOOLEAN, Prune(audit, log)
  PROVE  RecordsInv'
<1>1. RecordsTyped /\ now \in Nat
  BY DEF RecordsInv, RecordsTyped
<1>2. UNCHANGED <<now, row, request, changes>> /\ auditLog' \subseteq auditLog
  BY DEF Prune
<1>3. ASSUME NEW a \in auditLog \ auditLog' PROVE now > a.at + AuditDays
  <2>1. a.at \in Nat /\ ~ (now <= a.at + AuditDays)
    BY <1>1, <1>3 DEF Prune, RecordsTyped, AuditRow
  <2> QED
    BY <1>1, <2>1, RecordsConstants
<1> QED
  BY <1>1, <1>2, <1>3, AgeingKeeps

LEMMA CrashKeeps ==
  ASSUME RecordsInv, Crash
  PROVE  RecordsInv'
<1> DEFINE place(r) == IF request[r].at \in {"answered", "over"} THEN "over" ELSE "cut"
           q(r) == [Fresh EXCEPT !.at = place(r), !.error = request[r].error]
<1>1. RecordsTyped /\ now \in Nat
  BY DEF RecordsInv, RecordsTyped
<1>2. request' = [r \in Requests |-> q(r)] /\ UNCHANGED <<now, row, auditLog, changes>>
  BY DEF Crash
<1>3. ASSUME NEW r \in Requests
      PROVE  /\ q(r) \in Request /\ q(r).at = place(r) /\ q(r).error = request[r].error
             /\ q(r).done = {} /\ q(r).audits = {}
  <2>1. request[r].error \in Errors \cup {NoError}
    BY <1>1 DEF RecordsTyped, Request
  <2> QED
    BY <2>1, FreshTyped DEF Request, Fresh
<1> HIDE DEF q
<1>4. RecordsTyped'
  BY <1>1, <1>2, <1>3 DEF RecordsTyped
<1>5. ASSUME NEW r \in Requests PROVE RequestHolds(r)' /\ (Lost(r) \/ request[r].at \in Underway => Lost(r)')
  <2>1. /\ request'[r].at = place(r) /\ request'[r].error = request[r].error
        /\ request'[r].done = {} /\ request'[r].audits = {}
    BY <1>2, <1>3
  <2>2. request[r].at \in Underway \cup {"answered", "over", "cut"} /\ RequestHolds(r)
    BY <1>1 DEF RecordsInv, RecordsTyped, Request
  <2>3. RequestHolds(r)'
    BY <2>1, <2>2, EndedLocal DEF RequestHolds, Underway
  <2> QED
    BY <2>1, <2>2, <2>3 DEF Lost, Underway
<1>6. ASSUME NEW c \in changes PROVE ChangeHolds(c)'
  <2>1. ChangeHolds(c) /\ c.by \in Requests
    BY <1>1 DEF RecordsInv, RecordsTyped, Change
  <2>2. Lost(c.by) \/ Awaited(c) => Lost(c.by)'
    BY <1>5, <2>1 DEF Awaited, Underway
  <2> QED
    BY <1>2, <2>1, <2>2 DEF ChangeHolds, Expired
<1>7. \A a \in auditLog' : \E c \in changes' : Explains(a, c)
  BY <1>2 DEF RecordsInv
<1> QED
  BY <1>2, <1>4, <1>5, <1>6, <1>7 DEF RecordsInv

LEMMA InitRecordsInv == RecordsInit => RecordsInv
<1> SUFFICES ASSUME RecordsInit PROVE RecordsInv
  OBVIOUS
<1>1. RecordsTyped
  BY FreshTyped DEF RecordsInit, RecordsTyped, Cell
<1>2. \A r \in Requests : RequestHolds(r)
  BY FreshTyped DEF RecordsInit, RequestHolds, ReadHolds, WriteExplained, Inside, Underway
<1> QED
  BY <1>1, <1>2 DEF RecordsInit, RecordsInv

LEMMA StepRecordsInv ==
  RecordsInv /\ [RecordsNext]_recordsVars => RecordsInv'
<1> SUFFICES ASSUME RecordsInv, [RecordsNext]_recordsVars PROVE RecordsInv'
  OBVIOUS
<1>1. ASSUME NEW r \in Requests, Begin(r) PROVE RecordsInv'
  BY <1>1, BeginKeeps
<1>2. ASSUME NEW r \in Requests, WriteAudit(r) PROVE RecordsInv'
  BY <1>2, WriteAuditKeeps
<1>3. ASSUME NEW r \in Requests, Commit(r) PROVE RecordsInv'
  BY <1>3, CommitKeeps
<1>4. ASSUME NEW r \in Requests, Answer(r) PROVE RecordsInv'
  BY <1>4, AnswerKeeps
<1>5. ASSUME NEW r \in Requests, WriteRequestLog(r) \/ LoseRequestLog(r) PROVE RecordsInv'
  BY <1>5, CloseKeeps
<1>6. ASSUME NEW r \in Requests, NEW e \in AuditedRows, ReadBefore(r, e) PROVE RecordsInv'
  BY <1>6, ReadBeforeKeeps
<1>7. ASSUME NEW r \in Requests, request[r].at = "read", NEW op \in Operations, NEW value \in Cell,
             NEW reached, Write(r, op, value, reached)
      PROVE  RecordsInv'
  BY <1>7, WriteKeeps
<1>8. ASSUME NEW r \in Requests, NEW t \in Errors, Fail(r, t) PROVE RecordsInv'
  BY <1>8, FailKeeps
<1>9. ASSUME NEW audit \in BOOLEAN, NEW log \in BOOLEAN, Prune(audit, log) PROVE RecordsInv'
  BY <1>9, PruneKeeps
<1>10. CASE Tick
  BY <1>10, AgeingKeeps DEF Tick, RecordsInv, RecordsTyped
<1>11. CASE Crash
  BY <1>11, CrashKeeps
<1>12. CASE UNCHANGED <<now, row, request, changes, auditLog>>
  BY <1>12, AgeingKeeps DEF RecordsInv, RecordsTyped
<1>13. ASSUME NEW s \in sending, Sent(s) \/ NotSent(s)
       PROVE  UNCHANGED <<now, row, request, changes, auditLog>>
  BY <1>13 DEF Sent, NotSent
<1>14. UNCHANGED recordsVars => UNCHANGED <<now, row, request, changes, auditLog>>
  BY DEF recordsVars
<1> QED
  BY <1>1, <1>2, <1>3, <1>4, <1>5, <1>6, <1>7, <1>8, <1>9, <1>10, <1>11, <1>12, <1>13, <1>14
     DEF RecordsNext, Operations, Cell

LEMMA RecordsInvHolds ==
  RecordsSpec => []RecordsInv
BY InitRecordsInv, StepRecordsInv, PTL DEF RecordsSpec

\* The audit trail is true, whatever requests write the same rows, fail, are
\* cut by a restart, or are pruned (prisma-audit.extension.ts, AuditRetentionService).
THEOREM TheTrailIsTrue ==
  RecordsSpec => []TrailIsTrue
<1>1. RecordsInv => TrailIsTrue
  <2> SUFFICES ASSUME RecordsInv PROVE TrailIsTrue
    OBVIOUS
  <2>1. ASSUME NEW c \in changes, c.old # c.new, c.inTx \/ Succeeded(c.by), ~ c.overtaken, ~ Expired(c)
        PROVE  \E a \in auditLog : Tells(a, c)
    <3>1. ChangeHolds(c) /\ Matters(c)
      BY <2>1 DEF RecordsInv, Matters
    <3>2. Traced(c, auditLog) \/ (~ c.inTx /\ (Lost(c.by) \/ Awaited(c)))
      BY <2>1, <3>1 DEF ChangeHolds
    <3>3. ~ c.inTx => ~ Lost(c.by) /\ ~ Awaited(c)
      BY <2>1 DEF Succeeded, Lost, Awaited
    <3> QED
      BY <3>2, <3>3 DEF Traced
  <2>2. ASSUME NEW c \in changes, NEW a \in auditLog, Tells(a, c), NEW l \in requestLog, l.transaction = c.by
        PROVE  a \in Investigation(c.by)
    BY <2>2 DEF Investigation, Tells
  <2>3. \A a \in auditLog : \E c \in changes :
          Tells(a, c) \/ (c.overtaken /\ a.transaction = c.by /\ a.row = c.row /\ a.new = c.new)
    BY DEF RecordsInv, Explains
  <2> QED
    BY <2>1, <2>2, <2>3 DEF TrailIsTrue
<1> QED
  BY <1>1, RecordsInvHolds, PTL

-----------------------------------------------------------------------------

(* The server errors: one by one, on an alert, counted, or kept.           *)

\* The occurrences a set of alerts tells of.
Occurrences(A) == UNION {{s} \X (0..s.further) : s \in A}

LEMMA OneAlert ==
  ASSUME NEW s, s.further \in Nat
  PROVE  IsFiniteSet({s} \X (0..s.further)) /\ Cardinality({s} \X (0..s.further)) = 1 + s.further
<1> DEFINE one == {s}
           range == 0..s.further
<1>1. IsFiniteSet(one) /\ Cardinality(one) = 1
  BY FS_Singleton
<1>2. IsFiniteSet(range) /\ Cardinality(range) = s.further + 1
  BY FS_Interval
<1> HIDE DEF one, range
<1>3. IsFiniteSet(one \X range) /\ Cardinality(one \X range) = Cardinality(one) * Cardinality(range)
  BY <1>1, <1>2, FS_Product
<1>4. Cardinality(one \X range) = 1 + s.further
  BY <1>1, <1>2, <1>3
<1> QED
  BY <1>3, <1>4 DEF one, range

LEMMA OccurrencesFinite ==
  ASSUME NEW A, IsFiniteSet(A), \A s \in A : s.further \in Nat
  PROVE  IsFiniteSet(Occurrences(A))
<1> DEFINE T == {{s} \X (0..s.further) : s \in A}
           f == [s \in A |-> {s} \X (0..s.further)]
<1>1. f \in Surjection(A, T)
  BY DEF Surjection
<1>2. IsFiniteSet(T)
  BY <1>1, FS_Surjection
<1>3. \A u \in T : IsFiniteSet(u)
  BY OneAlert
<1> QED
  BY <1>2, <1>3, FS_UNION DEF Occurrences

LEMMA OneMoreAlert ==
  ASSUME NEW A, IsFiniteSet(A), \A s \in A : s.further \in Nat,
         NEW x, x \notin A, x.further \in Nat
  PROVE  Cardinality(Occurrences(A \cup {x})) = Cardinality(Occurrences(A)) + 1 + x.further
<1> DEFINE one == {x} \X (0..x.further)
<1>1. Occurrences(A \cup {x}) = Occurrences(A) \cup one
  BY DEF Occurrences
<1>2. Occurrences(A) \cap one = {}
  BY DEF Occurrences
<1>3. IsFiniteSet(Occurrences(A)) /\ IsFiniteSet(one) /\ Cardinality(one) = 1 + x.further
  BY OccurrencesFinite, OneAlert
<1>4. Cardinality(Occurrences(A)) \in Nat
  BY <1>3, FS_CardinalityType
<1> HIDE DEF one
<1>5. Cardinality(Occurrences(A) \cup one) = Cardinality(Occurrences(A)) + Cardinality(one) - Cardinality({})
  BY <1>2, <1>3, FS_Union
<1> DEFINE n == Cardinality(Occurrences(A))
           k == Cardinality(one)
<1>6. Cardinality({}) = 0
  BY FS_EmptySet
<1>7. Cardinality(Occurrences(A \cup {x})) = n + k - 0
  BY <1>1, <1>5, <1>6, Zenon
<1>8. n \in Nat /\ k = 1 + x.further
  BY <1>3, <1>4
<1> HIDE DEF n, k
<1>9. n + k - 0 = n + 1 + x.further
  BY <1>8
<1> QED
  BY <1>7, <1>9 DEF n

\* The alerts of t under way, and the requests that failed with it.
About(t) == {s \in sending : s.error = t}
Failed(t) == {r \in Requests : request[r].error = t}

LEMMA InFlightCounts == ASSUME NEW t PROVE InFlight(t) = Cardinality(Occurrences(About(t)))
BY DEF InFlight, Carried, Occurrences, About

\* What is counted, and that an alert is of the request that failed.
Alert == [by : Requests, error : Errors, further : Nat]

Tally ==
  /\ told \in [Errors -> Nat] /\ unsent \in [Errors -> Nat] /\ suppressedSince \in [Errors -> Nat]
  /\ sending \subseteq Alert /\ IsFiniteSet(sending)
  /\ \A s \in sending : request[s.by].error = s.error
  /\ ErrorsAreAccountedFor

LEMMA AboutFinite ==
  ASSUME Tally, NEW t
  PROVE  /\ IsFiniteSet(About(t)) /\ \A s \in About(t) : s.further \in Nat
         /\ InFlight(t) \in Nat
<1>1. IsFiniteSet(About(t)) /\ \A s \in About(t) : s.further \in Nat
  BY FS_Subset DEF Tally, About, Alert
<1> QED
  BY <1>1, InFlightCounts, OccurrencesFinite, FS_CardinalityType

\* Only a failure changes a request's error, and it had none.
LEMMA ErrorsStay ==
  ASSUME RecordsInv, [RecordsNext]_recordsVars, NEW r \in Requests
  PROVE  \/ request'[r].error = request[r].error
         \/ \E t \in Errors : Fail(r, t)
<1>1. RecordsTyped /\ request \in [Requests -> Request]
  BY DEF RecordsInv, RecordsTyped
<1>2. \A q \in Requests : request[q].at \in Underway => request[q].error = NoError
  BY DEF RecordsInv, RequestHolds
<1>3. ASSUME NEW q \in Requests, Begin(q) PROVE request'[r].error = request[r].error
  BY <1>1, <1>3 DEF Begin, Request
<1>4. ASSUME NEW q \in Requests, WriteAudit(q) PROVE request'[r].error = request[r].error
  BY <1>1, <1>4 DEF WriteAudit, Request
<1>5. ASSUME NEW q \in Requests, Commit(q) PROVE request'[r].error = request[r].error
  <2>1. request[q].error = NoError
    BY <1>2, <1>5 DEF Commit, Underway
  <2> QED
    BY <1>1, <1>5, <2>1, FreshTyped DEF Commit, Overtaking, Request
<1>6. ASSUME NEW q \in Requests, Answer(q) PROVE request'[r].error = request[r].error
  <2>1. request[q].error = NoError
    BY <1>2, <1>6 DEF Answer, Underway
  <2>2. [Fresh EXCEPT !.at = Closing(q)].error = NoError
    BY FreshTyped DEF Fresh
  <2> QED
    BY <1>1, <1>6, <2>1, <2>2 DEF Answer
<1>7. ASSUME NEW q \in Requests, WriteRequestLog(q) \/ LoseRequestLog(q)
      PROVE  request'[r].error = request[r].error
  BY <1>1, <1>7 DEF WriteRequestLog, LoseRequestLog, Request
<1>8. ASSUME NEW q \in Requests, NEW e \in AuditedRows, ReadBefore(q, e)
      PROVE  request'[r].error = request[r].error
  BY <1>1, <1>8 DEF ReadBefore, Request
<1>9. ASSUME NEW q \in Requests, NEW op, NEW value, NEW reached, Write(q, op, value, reached)
      PROVE  request'[r].error = request[r].error
  <2> QED
    BY <1>1, <1>9 DEF Write, Overtaking, Request
<1>10. ASSUME NEW q \in Requests, NEW t \in Errors, Fail(q, t), q # r
       PROVE  request'[r].error = request[r].error
  BY <1>1, <1>10 DEF Fail
<1>11. ASSUME NEW s, Sent(s) \/ NotSent(s) PROVE request'[r].error = request[r].error
  BY <1>11 DEF Sent, NotSent
<1>12. ASSUME NEW audit, NEW log, Prune(audit, log) PROVE request'[r].error = request[r].error
  BY <1>12 DEF Prune
<1>13. CASE Tick
  BY <1>13 DEF Tick
<1>14. CASE Crash
  BY <1>1, <1>14, FreshTyped DEF Crash, Fresh
<1>15. CASE UNCHANGED recordsVars
  BY <1>15 DEF recordsVars
<1> QED
  BY <1>3, <1>4, <1>5, <1>6, <1>7, <1>8, <1>9, <1>10, <1>11, <1>12, <1>13, <1>14, <1>15 DEF RecordsNext

LEMMA InitTally ==
  RecordsInit => Tally
<1> SUFFICES ASSUME RecordsInit PROVE Tally
  OBVIOUS
<1>1. \A r \in Requests : request[r].error = NoError
  BY FreshTyped DEF RecordsInit
<1>2. ASSUME NEW t \in Errors
      PROVE  Cardinality(Failed(t)) = told[t] + InFlight(t) + suppressedSince[t] + unsent[t]
  <2>1. Failed(t) = {} /\ Occurrences(About(t)) = {}
    BY <1>1, RecordsConstants DEF Failed, Occurrences, About, RecordsInit
  <2> QED
    BY <2>1, InFlightCounts, FS_EmptySet DEF RecordsInit
<1>3. ErrorsAreAccountedFor
  BY <1>2 DEF ErrorsAreAccountedFor, Failed
<1> QED
  BY <1>3, FS_EmptySet DEF RecordsInit, Tally

\* A step with no failure and no alert.
LEMMA QuietTally ==
  ASSUME Tally, \A r \in Requests : request'[r].error = request[r].error,
         UNCHANGED <<sending, told, unsent, suppressedSince>>
  PROVE  Tally'
<1>1. \A t : InFlight(t)' = InFlight(t)
  BY DEF InFlight, Carried
<1>2. \A t : {r \in Requests : request'[r].error = t} = {r \in Requests : request[r].error = t}
  OBVIOUS
<1>3. ErrorsAreAccountedFor'
  BY <1>1, <1>2 DEF Tally, ErrorsAreAccountedFor
<1> QED
  BY <1>3 DEF Tally, Alert

\* An alert that arrives, or is lost.
LEMMA AlertEnds ==
  ASSUME RecordsInv, Tally, NEW s \in sending, Sent(s) \/ NotSent(s)
  PROVE  Tally'
<1>1. /\ sending' = sending \ {s} /\ request' = request /\ suppressedSince' = suppressedSince
      /\ \/ told' = [told EXCEPT ![s.error] = @ + 1 + s.further] /\ unsent' = unsent
         \/ unsent' = [unsent EXCEPT ![s.error] = @ + 1 + s.further] /\ told' = told
  BY DEF Sent, NotSent
<1>2. s.error \in Errors /\ s.further \in Nat
  BY DEF Tally, Alert
<1>3. ASSUME NEW t \in Errors
      PROVE  /\ InFlight(t)' \in Nat /\ InFlight(t) \in Nat
             /\ t # s.error => InFlight(t)' = InFlight(t)
             /\ t = s.error => InFlight(t) = InFlight(t)' + 1 + s.further
  <2> DEFINE rest == {u \in sending' : u.error = t}
  <2>1. IsFiniteSet(About(t)) /\ (\A u \in About(t) : u.further \in Nat) /\ InFlight(t) \in Nat
    BY AboutFinite
  <2>2. rest \subseteq About(t) /\ s \notin rest
    BY <1>1 DEF About
  <2>3. IsFiniteSet(rest) /\ \A u \in rest : u.further \in Nat
    BY <2>1, <2>2, FS_Subset
  <2>4. InFlight(t)' = Cardinality(Occurrences(rest))
    BY DEF InFlight, Carried, Occurrences
  <2>5. t = s.error => About(t) = rest \cup {s}
    BY <1>1 DEF About
  <2>6. t # s.error => About(t) = rest
    BY <1>1 DEF About
  <2> HIDE DEF rest
  <2>7. Cardinality(Occurrences(rest)) \in Nat
    BY <2>3, OccurrencesFinite, FS_CardinalityType
  <2>8. Cardinality(Occurrences(rest \cup {s})) = Cardinality(Occurrences(rest)) + 1 + s.further
    BY <1>2, <2>2, <2>3, OneMoreAlert
  <2> QED
    BY <2>1, <2>4, <2>5, <2>6, <2>7, <2>8, InFlightCounts
<1>4. told' \in [Errors -> Nat] /\ unsent' \in [Errors -> Nat]
  BY <1>1, <1>2 DEF Tally
<1>5. ErrorsAreAccountedFor'
  <2> SUFFICES ASSUME NEW t \in Errors, ServerError(t)
               PROVE  Cardinality({r \in Requests : request[r].error = t})
                        = told'[t] + InFlight(t)' + suppressedSince[t] + unsent'[t]
    BY <1>1 DEF ErrorsAreAccountedFor, ServerError
  <2>1. Cardinality({r \in Requests : request[r].error = t})
          = told[t] + InFlight(t) + suppressedSince[t] + unsent[t]
    BY DEF Tally, ErrorsAreAccountedFor
  <2>2. told[t] \in Nat /\ unsent[t] \in Nat /\ suppressedSince[t] \in Nat
    BY DEF Tally
  <2>3. t # s.error => told'[t] = told[t] /\ unsent'[t] = unsent[t]
    BY <1>1 DEF Tally
  <2>4. t = s.error => told'[t] + unsent'[t] = told[t] + unsent[t] + 1 + s.further
    BY <1>1, <1>2, <2>2 DEF Tally
  <2>5. told'[t] \in Nat /\ unsent'[t] \in Nat
    BY <1>4
  <2> QED
    BY <1>2, <1>3, <2>1, <2>2, <2>3, <2>4, <2>5
<1>6. IsFiniteSet(sending')
  BY <1>1, FS_Subset DEF Tally
<1> QED
  BY <1>1, <1>4, <1>5, <1>6 DEF Tally, Alert

LEMMA CrashTally ==
  ASSUME RecordsInv, Tally, Crash
  PROVE  Tally'
<1>1. /\ sending' = {} /\ told' = told
      /\ unsent' = [t \in Errors |-> unsent[t] + suppressedSince[t] + InFlight(t)]
      /\ suppressedSince' = [t \in Errors |-> 0]
  BY DEF Crash
<1>2. \A r \in Requests : request'[r].error = request[r].error
  BY FreshTyped DEF Crash, Fresh
<1>3. \A t \in Errors :
      InFlight(t) \in Nat /\ told[t] \in Nat /\ unsent[t] \in Nat /\ suppressedSince[t] \in Nat
  BY AboutFinite DEF Tally
<1>4. \A t : InFlight(t)' = 0
  <2>1. \A t : Carried(t)' = {}
    BY <1>1 DEF Carried
  <2> QED
    BY <2>1, FS_EmptySet DEF InFlight
<1>5. \A t : {r \in Requests : request'[r].error = t} = {r \in Requests : request[r].error = t}
  BY <1>2
<1>6. ASSUME NEW t \in Errors, ServerError(t)
      PROVE  Cardinality({r \in Requests : request'[r].error = t})
               = told'[t] + InFlight(t)' + suppressedSince'[t] + unsent'[t]
  <2>1. Cardinality({r \in Requests : request[r].error = t})
          = told[t] + InFlight(t) + suppressedSince[t] + unsent[t]
    BY <1>6 DEF Tally, ErrorsAreAccountedFor
  <2>2. Cardinality({r \in Requests : request'[r].error = t})
          = Cardinality({r \in Requests : request[r].error = t})
    BY <1>5, Zenon
  <2>3. /\ told'[t] = told[t] /\ InFlight(t)' = 0 /\ suppressedSince'[t] = 0
        /\ unsent'[t] = unsent[t] + suppressedSince[t] + InFlight(t)
    BY <1>1, <1>4
  <2>4. told[t] + InFlight(t) + suppressedSince[t] + unsent[t]
          = told'[t] + InFlight(t)' + suppressedSince'[t] + unsent'[t]
    BY <1>3, <2>3
  <2> QED
    BY <2>1, <2>2, <2>4, Zenon
<1>7. ErrorsAreAccountedFor'
  BY <1>6 DEF ErrorsAreAccountedFor, ServerError
<1> QED
  BY <1>1, <1>3, <1>7, FS_EmptySet DEF Tally, Alert

\* A failure counts once: on the alert that leaves, or for the next.
LEMMA FailTally ==
  ASSUME RecordsInv, Tally, NEW r \in Requests, NEW t \in Errors, Fail(r, t)
  PROVE  Tally'
<1>1. /\ request[r].error = NoError /\ NoError # t /\ RecordsTyped
      /\ \A s \in sending : s.by # r
  <2>1. request[r].error = NoError
    BY DEF RecordsInv, RequestHolds, Fail, Underway
  <2>2. \A s \in sending : s.error # NoError
    BY RecordsConstants DEF Tally, Alert
  <2> QED
    BY <2>1, <2>2, RecordsConstants DEF RecordsInv, Tally
<1>2. request'[r].error = t /\ \A s \in Requests \ {r} : request'[s].error = request[s].error
  <2>1. [Fresh EXCEPT !.at = Closing(r), !.error = t].error = t
    BY FreshTyped DEF Fresh
  <2> QED
    BY <1>1, <2>1 DEF Fail, RecordsTyped
<1>3. /\ {q \in Requests : request'[q].error = t} = Failed(t) \cup {r} /\ r \notin Failed(t)
      /\ \A u \in Errors \ {t} : {q \in Requests : request'[q].error = u} = Failed(u)
  BY <1>1, <1>2, RecordsConstants DEF Failed
<1>4. /\ Cardinality({q \in Requests : request'[q].error = t}) = Cardinality(Failed(t)) + 1
      /\ Cardinality(Failed(t)) \in Nat
  <2>1. IsFiniteSet(Failed(t))
    BY RecordsConstants, FS_Subset DEF Failed
  <2> QED
    BY <1>3, <2>1, FS_AddElement, FS_CardinalityType
<1>5. \A u \in Errors :
      InFlight(u) \in Nat /\ told[u] \in Nat /\ unsent[u] \in Nat /\ suppressedSince[u] \in Nat
  BY AboutFinite DEF Tally
<1>6. \A u \in Errors : ServerError(u) =>
         Cardinality(Failed(u)) = told[u] + InFlight(u) + suppressedSince[u] + unsent[u]
  BY DEF Tally, ErrorsAreAccountedFor, Failed
<1>7. SUFFICES ASSUME \/ ~ ServerError(t) /\ UNCHANGED alerts
                      \/ Suppressed(t)
                      \/ Alerted(r, t)
               PROVE  Tally'
  BY DEF Fail
<1>8. \A s \in sending : request'[s.by].error = s.error
  BY <1>1, <1>2 DEF Tally, Alert
<1>9. CASE ~ ServerError(t) /\ UNCHANGED alerts
  <2>1. UNCHANGED <<sending, told, unsent, suppressedSince>>
    BY <1>9 DEF alerts
  <2>2. \A u : InFlight(u)' = InFlight(u)
    BY <2>1 DEF InFlight, Carried
  <2>3. ErrorsAreAccountedFor'
    BY <1>3, <1>6, <1>9, <2>1, <2>2 DEF ErrorsAreAccountedFor, ServerError
  <2> QED
    BY <1>8, <2>1, <2>3 DEF Tally, Alert
<1>10. CASE Suppressed(t)
  <2>1. UNCHANGED <<sending, told, unsent>> /\ suppressedSince' = [suppressedSince EXCEPT ![t] = @ + 1]
    BY <1>10 DEF Suppressed
  <2>2. \A u : InFlight(u)' = InFlight(u)
    BY <2>1 DEF InFlight, Carried
  <2>3. /\ suppressedSince'[t] = suppressedSince[t] + 1
        /\ \A u \in Errors \ {t} : suppressedSince'[u] = suppressedSince[u]
        /\ suppressedSince' \in [Errors -> Nat]
    BY <2>1 DEF Tally
  <2>4. ASSUME NEW u \in Errors, ServerError(u)
        PROVE  Cardinality({q \in Requests : request'[q].error = u})
                 = told'[u] + InFlight(u)' + suppressedSince'[u] + unsent'[u]
    <3>1. CASE u = t
      BY <1>4, <1>5, <1>6, <2>1, <2>2, <2>3, <2>4, <3>1
    <3>2. CASE u # t
      BY <1>3, <1>5, <1>6, <2>1, <2>2, <2>3, <2>4, <3>2
    <3> QED
      BY <3>1, <3>2
  <2>5. ErrorsAreAccountedFor'
    BY <2>4 DEF ErrorsAreAccountedFor, ServerError
  <2> QED
    BY <1>8, <2>1, <2>3, <2>5 DEF Tally, Alert
<1>11. CASE Alerted(r, t)
  <2> DEFINE s == [by |-> r, error |-> t, further |-> suppressedSince[t]]
  <2>1. /\ UNCHANGED <<told, unsent>> /\ sending' = sending \cup {s}
        /\ suppressedSince' = [suppressedSince EXCEPT ![t] = 0]
    BY <1>11 DEF Alerted
  <2>2. s \in Alert /\ s \notin sending /\ s.error = t /\ s.by = r /\ s.further = suppressedSince[t]
    BY <1>1, <1>5 DEF Alert
  <2> HIDE DEF s
  <2>3. /\ suppressedSince'[t] = 0
        /\ \A u \in Errors \ {t} : suppressedSince'[u] = suppressedSince[u]
        /\ suppressedSince' \in [Errors -> Nat]
    BY <2>1 DEF Tally
  <2>4. InFlight(t)' = InFlight(t) + 1 + suppressedSince[t]
    <3>1. {u \in sending' : u.error = t} = About(t) \cup {s}
      BY <2>1, <2>2 DEF About
    <3>2. InFlight(t)' = Cardinality(Occurrences(About(t) \cup {s}))
      BY <3>1 DEF InFlight, Carried, Occurrences
    <3>3. s \notin About(t) /\ s.further \in Nat
      BY <1>5, <2>2 DEF About
    <3> QED
      BY <2>2, <3>2, <3>3, AboutFinite, OneMoreAlert, InFlightCounts
  <2>5. \A u \in Errors \ {t} : InFlight(u)' = InFlight(u)
    <3>1. \A u \in Errors \ {t} : {x \in sending' : x.error = u} = {x \in sending : x.error = u}
      BY <2>1, <2>2
    <3> QED
      BY <3>1 DEF InFlight, Carried
  <2>6. ASSUME NEW u \in Errors, ServerError(u)
        PROVE  Cardinality({q \in Requests : request'[q].error = u})
                 = told'[u] + InFlight(u)' + suppressedSince'[u] + unsent'[u]
    <3>1. CASE u = t
      BY <1>4, <1>5, <1>6, <2>1, <2>3, <2>4, <2>6, <3>1
    <3>2. CASE u # t
      BY <1>3, <1>5, <1>6, <2>1, <2>3, <2>5, <2>6, <3>2
    <3> QED
      BY <3>1, <3>2
  <2>7. ErrorsAreAccountedFor'
    BY <2>6 DEF ErrorsAreAccountedFor, ServerError
  <2>8. IsFiniteSet(sending')
    BY <2>1, FS_AddElement DEF Tally
  <2>9. \A x \in sending' : x \in Alert /\ request'[x.by].error = x.error
    BY <1>2, <1>8, <2>1, <2>2 DEF Tally
  <2> QED
    BY <2>1, <2>3, <2>7, <2>8, <2>9 DEF Tally, Alert
<1> QED
  BY <1>7, <1>9, <1>10, <1>11

LEMMA StepTally ==
  RecordsInv /\ Tally /\ [RecordsNext]_recordsVars => Tally'
<1> SUFFICES ASSUME RecordsInv, Tally, [RecordsNext]_recordsVars PROVE Tally'
  OBVIOUS
<1>1. ASSUME NEW r \in Requests, NEW t \in Errors, Fail(r, t) PROVE Tally'
  BY <1>1, FailTally
<1>2. CASE Crash
  BY <1>2, CrashTally
<1>3. ASSUME NEW s \in sending, Sent(s) \/ NotSent(s) PROVE Tally'
  BY <1>3, AlertEnds
<1>4. CASE /\ UNCHANGED <<sending, told, unsent, suppressedSince>>
           /\ \A r \in Requests, t \in Errors : ~ Fail(r, t)
  <2>1. \A r \in Requests : request'[r].error = request[r].error
    BY <1>4, ErrorsStay
  <2> QED
    BY <1>4, <2>1, QuietTally
<1>5. \/ \E r \in Requests, t \in Errors : Fail(r, t)
      \/ Crash
      \/ \E s \in sending : Sent(s) \/ NotSent(s)
      \/ UNCHANGED <<sending, told, unsent, suppressedSince>>
  <2> DEFINE Calm == UNCHANGED <<sending, told, unsent, suppressedSince>>
  <2>1. ASSUME NEW r \in Requests,
               \/ Begin(r) \/ WriteAudit(r) \/ Commit(r) \/ Answer(r)
               \/ WriteRequestLog(r) \/ LoseRequestLog(r) \/ \E e \in AuditedRows : ReadBefore(r, e)
        PROVE  Calm
    BY <2>1
      DEF Begin, WriteAudit, Commit, Answer, WriteRequestLog,
          LoseRequestLog, ReadBefore, alerts
  <2>2. ASSUME NEW r \in Requests, NEW op, NEW value, NEW reached,
             Write(r, op, value, reached)
      PROVE  Calm
    BY <2>2 DEF Write, alerts
  <2>3. ASSUME NEW audit, NEW log, Prune(audit, log) PROVE Calm
    BY <2>3 DEF Prune, alerts
  <2>4. Tick \/ UNCHANGED recordsVars => Calm
    BY DEF Tick, recordsVars, alerts
  <2> QED
    BY <2>1, <2>2, <2>3, <2>4 DEF RecordsNext
<1> QED
  BY <1>1, <1>2, <1>3, <1>4, <1>5

\* No server error is dropped between the throttle, the channel and a restart
\* (ErrorAlertService.notifyServerError).
THEOREM EveryErrorIsAccountedFor ==
  RecordsSpec => []ErrorsAreAccountedFor
<1>1. Tally => ErrorsAreAccountedFor
  BY DEF Tally
<1>2. RecordsSpec => []Tally
  BY InitTally, RecordsInvHolds, StepTally, PTL DEF RecordsSpec
<1> QED
  BY <1>1, <1>2, PTL

=============================================================================
