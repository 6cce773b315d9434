----------------------------- MODULE StockData ------------------------------
(***************************************************************************)
(* The rows of the sales, materials and recipes tables, as far as stock    *)
(* depends on them, and the pure functions the services compute with.      *)
(*                                                                         *)
(* Materials, products and sales are model values; a member of Lines       *)
(* stands for the uuid of a SaleItem.  Names, prices, margins and          *)
(* timestamps are left out: no guard of these handlers reads them.         *)
(***************************************************************************)
EXTENDS StockMath

CONSTANTS
  Materials,      \* the materials of the catalogue
  Products,       \* the composite products of the catalogue
  Sales,          \* the identifiers a sale may take
  Recipes,        \* the bills of materials a product may be given
  Quantities,     \* the quantities a client may put in a request
  MaxHeld         \* bound: what was ever put in of a material, net of losses

ASSUME SetsAssumption ==
  /\ IsFiniteSet(Sales)
  /\ Products \cap Materials = {}

ASSUME QuantitiesAssumption ==
  /\ Quantities \subseteq Nat \ {0}
  /\ Recipes \subseteq [Materials -> Nat]
  /\ MaxHeld \in Nat

-----------------------------------------------------------------------------
(* Rows.  A sale has two independent status axes.                          *)

ProductionStatus == {"PENDING", "ASSEMBLED", "DELIVERED"}
PaymentStatus == {"PENDING", "PAID"}

SaleRow == [production : ProductionStatus, payment : PaymentStatus]
NoSale == [production |-> "NONE", payment |-> "NONE"]
NewSale == [production |-> "PENDING", payment |-> "PENDING"]

SaleItem == [ref : Materials \cup Products, quantity : Quantities]
NoItem == [ref |-> "NONE", quantity |-> 0]

\* The items a client may create a sale with: at least one.
Baskets == {items \in [Lines -> SaleItem \cup {NoItem}] : \E l \in Lines : items[l] # NoItem}

-----------------------------------------------------------------------------
(* Functions.                                                              *)

\* SalesService.assertEditable.
Editable(row) == row.production = "PENDING"

\* How much of material m one unit of the referenced thing consumes.
Consumption(recipes, ref, m) ==
  IF ref \in Products THEN recipes[ref][m] ELSE IF ref = m THEN 1 ELSE 0

\* calculateMaterialNeed, for one material: the recipe quantities of the
\* product lines plus the quantities of the loose-material lines.
MaterialNeed(recipes, items, s, m) ==
  SumOver(Lines, [l \in Lines |->
    Consumption(recipes, items[<<s, l>>].ref, m) * items[<<s, l>>].quantity])

\* Mutant of StockDebit: all or nothing.
DebitAllOrNothing(needed, stockQuantity) == IF needed <= stockQuantity THEN needed ELSE 0

\* calculateStockDebit: never more than what is in stock.
StockDebit(needed, stockQuantity) == Smaller(needed, stockQuantity)

=============================================================================
