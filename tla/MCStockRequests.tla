-------------------------- MODULE MCStockRequests ---------------------------
(***************************************************************************)
(* Small instances of StockRequests; each run names the operations its     *)
(* clients call.                                                           *)
(***************************************************************************)
EXTENDS StockRequests, TLC

CONSTANTS flour, sugar, cake

OneRecipe == {[m \in Materials |-> 1]}
TwoRecipes == {[m \in Materials |-> 1], [m \in Materials |-> IF m = flour THEN 2 ELSE 0]}

AllOperations ==
  {"createSale", "addItem", "removeItem", "updateItemQuantity", "updateDetails",
   "updatePaymentStatus", "updateProductionStatus", "receiveStock", "countStock",
   "editMaterial", "recordLoss", "replaceBillOfMaterials"}

\* The calls of the raced run: each saves a row read by an earlier statement.
RacingOperations ==
  {"createSale", "updatePaymentStatus", "updateProductionStatus", "editMaterial", "recordLoss"}

\* The liveness run begins after one cake was sold, one of each material in
\* stock, and every row was raced for once: no statement reads overtaken, and
\* full from the start it multiplies no states.
CakeSold ==
  /\ stock = [m \in Materials |-> 1]
  /\ bom \in [Products -> Recipes]
  /\ sale = [s \in Sales |-> NewSale]
  /\ lines = [sl \in Sales \X Lines |-> [ref |-> cake, quantity |-> 1]]
  /\ snapshots = {}
  /\ ledger = stock
  /\ pc = [r \in Requests |-> "idle"]
  /\ call = [r \in Requests |-> NoCall]
  /\ seen = [r \in Requests |-> NothingSeen]
  /\ writes = [r \in Requests |-> NoWrites]
  /\ overtaken = Materials \cup Sales

FairFromCakeSold == CakeSold /\ [][Next]_vars /\ Fairness

Interchangeable == Permutations(Requests) \cup Permutations(Sales)
=============================================================================
