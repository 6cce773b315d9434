--------------------------- MODULE MCStockControl ---------------------------
(***************************************************************************)
(* A small shop for StockControl: two materials, one product, two sales.   *)
(* Sales and lines are interchangeable, so each is a symmetry set.         *)
(***************************************************************************)
EXTENDS StockControl, TLC

CONSTANTS flour, sugar, cake

MCRecipes == {[m \in Materials |-> 1], (flour :> 2 @@ sugar :> 0)}

Interchangeable == Permutations(Sales) \cup Permutations(Lines)
=============================================================================
