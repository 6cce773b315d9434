---------------------------- MODULE StockControl ----------------------------
(***************************************************************************)
(* What the stock, the sales and the recipes promise when requests are     *)
(* served one at a time: every action is one whole request handler of      *)
(* SalesService, MaterialsService, StockLossesService or                   *)
(* CompositeProductsService, from its reads to the commit of its           *)
(* transaction.  StockRequests refines it statement by statement.          *)
(***************************************************************************)
EXTENDS StockData

VARIABLES
  stock,      \* material.stockQuantity
  bom,        \* the bill of materials of each product; 0 is no line
  sale,       \* the Sale rows, by their two status axes
  lines,      \* the SaleItem rows
  snapshots,  \* StockMovementSnapshot.quantityDebited; 0 is no row
  ledger      \* history: what was put into stock less what was lost

vars == <<stock, bom, sale, lines, snapshots, ledger>>

-----------------------------------------------------------------------------

TypeOK ==
  /\ stock \in [Materials -> Nat]
  /\ bom \in [Products -> Recipes]
  /\ sale \in [Sales -> SaleRow \cup {NoSale}]
  /\ lines \in [Sales \X Lines -> SaleItem \cup {NoItem}]
  /\ snapshots \in [Sales -> [Materials -> Nat]]
  /\ ledger \in [Materials -> Int]

Init ==
  /\ stock \in [Materials -> 0..MaxHeld]
  /\ bom \in [Products -> Recipes]
  /\ sale = [s \in Sales |-> NoSale]
  /\ lines = [sl \in Sales \X Lines |-> NoItem]
  /\ snapshots = [s \in Sales |-> [m \in Materials |-> 0]]
  /\ ledger = stock

-----------------------------------------------------------------------------
\* What assembling sale s now takes of material m.
DebitOf(s, m) == StockDebit(MaterialNeed(bom, lines, s, m), stock[m])

-----------------------------------------------------------------------------
(* Sales.                                                                  *)

\* SalesService.create: at least one item, both axes start PENDING.
CreateSale(s, items) ==
  /\ sale[s] = NoSale
  /\ sale' = [sale EXCEPT ![s] = NewSale]
  /\ lines' = [sl \in Sales \X Lines |-> IF sl[1] = s THEN items[sl[2]] ELSE lines[sl]]
  /\ UNCHANGED <<stock, bom, snapshots, ledger>>

\* SalesService.addItem, into a free slot.
AddItem(s, l, item) ==
  /\ Editable(sale[s])
  /\ lines[<<s, l>>] = NoItem
  /\ lines' = [lines EXCEPT ![<<s, l>>] = item]
  /\ UNCHANGED <<stock, bom, sale, snapshots, ledger>>

\* SalesService.removeItem.
RemoveItem(s, l) ==
  /\ Editable(sale[s])
  /\ lines[<<s, l>>] # NoItem
  /\ lines' = [lines EXCEPT ![<<s, l>>] = NoItem]
  /\ UNCHANGED <<stock, bom, sale, snapshots, ledger>>

\* SalesService.updateItemQuantity.
UpdateItemQuantity(s, l, quantity) ==
  /\ Editable(sale[s])
  /\ lines[<<s, l>>] # NoItem
  /\ lines' = [lines EXCEPT ![<<s, l>>].quantity = quantity]
  /\ UNCHANGED <<stock, bom, sale, snapshots, ledger>>

\* SalesService.updatePaymentStatus: allowed in every production status.
UpdatePaymentStatus(s, status) ==
  /\ sale[s] # NoSale
  /\ sale' = [sale EXCEPT ![s].payment = status]
  /\ UNCHANGED <<stock, bom, lines, snapshots, ledger>>

\* SalesService.debitStock: writes the balances and one snapshot per debit.
DebitStock(s) ==
  /\ stock' = [m \in Materials |-> stock[m] - DebitOf(s, m)]
  /\ snapshots' = [snapshots EXCEPT ![s] = [m \in Materials |-> DebitOf(s, m)]]

\* Mutants of reverseStockDebit: the need recomputed; the snapshots kept.
ReverseRecomputedNeed(s) ==
  /\ stock' = [m \in Materials |-> stock[m] + MaterialNeed(bom, lines, s, m)]
  /\ snapshots' = [snapshots EXCEPT ![s] = [m \in Materials |-> 0]]

ReverseKeepingSnapshots(s) ==
  /\ stock' = [m \in Materials |-> stock[m] + snapshots[s][m]]
  /\ UNCHANGED snapshots

\* SalesService.reverseStockDebit: replays the snapshots and clears them.
ReverseStockDebit(s) ==
  /\ stock' = [m \in Materials |-> stock[m] + snapshots[s][m]]
  /\ snapshots' = [snapshots EXCEPT ![s] = [m \in Materials |-> 0]]

HasSnapshots(s) == \E m \in Materials : snapshots[s][m] > 0

\* SalesService.updateProductionStatus: stock moves only when the sale crosses
\* between PENDING and the rest, and a sale with snapshots is not debited.
UpdateProductionStatus(s, status) ==
  /\ sale[s] # NoSale
  /\ sale' = [sale EXCEPT ![s].production = status]
  /\ \/ /\ sale[s].production # "PENDING" /\ status = "PENDING"
        /\ ReverseStockDebit(s)
     \/ /\ sale[s].production = "PENDING" /\ status # "PENDING"
        /\ IF HasSnapshots(s) THEN UNCHANGED <<stock, snapshots>> ELSE DebitStock(s)
     \/ /\ (sale[s].production = "PENDING") = (status = "PENDING")
        /\ UNCHANGED <<stock, snapshots>>
  /\ UNCHANGED <<bom, lines, ledger>>

-----------------------------------------------------------------------------
(* Stock and recipes.                                                      *)

\* MaterialsService.registerStockEntry with a relative increment.
ReceiveStock(m, quantity) ==
  /\ ledger[m] + quantity <= MaxHeld
  /\ stock' = [stock EXCEPT ![m] = @ + quantity]
  /\ ledger' = [ledger EXCEPT ![m] = @ + quantity]
  /\ UNCHANGED <<bom, sale, lines, snapshots>>

\* MaterialsService.registerStockEntry with an absolute quantity: a count
\* replaces the balance, and what it adds or removes enters the ledger.
CountStock(m, quantity) ==
  /\ ledger[m] + quantity - stock[m] <= MaxHeld
  /\ stock' = [stock EXCEPT ![m] = quantity]
  /\ ledger' = [ledger EXCEPT ![m] = @ + quantity - stock[m]]
  /\ UNCHANGED <<bom, sale, lines, snapshots>>

\* StockLossesService.record: a loss above the balance is refused.
RecordLoss(m, quantity) ==
  /\ quantity <= stock[m]
  /\ stock' = [stock EXCEPT ![m] = @ - quantity]
  /\ ledger' = [ledger EXCEPT ![m] = @ - quantity]
  /\ UNCHANGED <<bom, sale, lines, snapshots>>

\* CompositeProductsService.update with a bill of materials: replaced whole.
ReplaceBillOfMaterials(p, recipe) ==
  /\ bom' = [bom EXCEPT ![p] = recipe]
  /\ UNCHANGED <<stock, sale, lines, snapshots, ledger>>

-----------------------------------------------------------------------------

SaleStep(s) ==
  \/ \E items \in Baskets : CreateSale(s, items)
  \/ \E l \in Lines, item \in SaleItem : AddItem(s, l, item)
  \/ \E l \in Lines : RemoveItem(s, l)
  \/ \E l \in Lines, quantity \in Quantities : UpdateItemQuantity(s, l, quantity)
  \/ \E status \in PaymentStatus : UpdatePaymentStatus(s, status)
  \/ \E status \in ProductionStatus : UpdateProductionStatus(s, status)

MaterialStep(m) ==
  \/ \E quantity \in Quantities : ReceiveStock(m, quantity)
  \/ \E quantity \in Quantities \cup {0} : CountStock(m, quantity)
  \/ \E quantity \in Quantities : RecordLoss(m, quantity)

ProductStep(p) == \E recipe \in Recipes : ReplaceBillOfMaterials(p, recipe)

Next ==
  \/ \E s \in Sales : SaleStep(s)
  \/ \E m \in Materials : MaterialStep(m)
  \/ \E p \in Products : ProductStep(p)

Spec == Init /\ [][Next]_vars

-----------------------------------------------------------------------------
(* Correctness.                                                            *)

\* What the snapshots of all sales hold of material m.
Outstanding(m) == SumOver(Sales, [s \in Sales |-> snapshots[s][m]])

\* Stock is conserved: whatever is not on the shelf is on a snapshot that can
\* give it back.  A reversal that recomputed the need after the recipe, the
\* lines or the stock changed, or a debit recorded with another quantity than
\* the one taken, would create or destroy stock
\* (SalesService.debitStock and reverseStockDebit).
StockConserved == \A m \in Materials : stock[m] + Outstanding(m) = ledger[m]

\* "PENDING means nothing is debited" (SalesService.updateProductionStatus),
\* over every sequence of crossings, edits and recipe changes.
PendingHoldsNoStock ==
  \A s \in Sales, m \in Materials :
    sale[s].production \notin {"ASSEMBLED", "DELIVERED"} => snapshots[s][m] = 0

\* A sale that leaves PENDING takes its whole current need, and comes out short
\* of a material only by emptying the shelf: it never leaves stock behind
\* while short (calculateStockDebit, called from SalesService.debitStock).
ShortOnlyWhenShelfEmptied ==
  [][\A s \in Sales, m \in Materials :
       (sale[s].production = "PENDING" /\ sale'[s].production # "PENDING") =>
          LET needed == MaterialNeed(bom, lines, s, m) IN
          /\ snapshots'[s][m] <= needed
          /\ snapshots'[s][m] < needed => stock'[m] = 0]_vars

=============================================================================
