------------------------- MODULE MCPurchaseRequests -------------------------
(***************************************************************************)
(* PurchaseRequests with two requests at a time on a purchase of up to two *)
(* lines, registered under PROPORTIONAL, and a Material whose package      *)
(* holds one unit to begin with.                                           *)
(***************************************************************************)
EXTENDS PurchaseRequests, TLC

HoldsOne == Init /\ material.package = 1

SpecFromOne == HoldsOne /\ [][Next]_vars

Interchangeable == Permutations(Callers) \cup Permutations(Lines)
=============================================================================
