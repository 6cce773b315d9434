------------------------- MODULE MCMaterialCatalog --------------------------
(***************************************************************************)
(* A small instance of MaterialCatalog: two calls at once.                 *)
(***************************************************************************)
EXTENDS MaterialCatalog, TLC

Interchangeable == Permutations(Requests) \cup Permutations(Keys) \cup Permutations(Units)
=============================================================================
