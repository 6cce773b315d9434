------------------------- MODULE MCPurchaseDiscounts -------------------------
(***************************************************************************)
(* PurchaseDiscounts with a few lines of a few cents, where every rounding *)
(* shows.                                                                  *)
(***************************************************************************)
EXTENDS PurchaseDiscounts, TLC

Interchangeable == Permutations(Lines)
=============================================================================
