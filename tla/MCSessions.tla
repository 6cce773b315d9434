------------------------------ MODULE MCSessions ------------------------------
(* One account's stories, and a second registration of its address.        *)
EXTENDS Sessions, TLC

CONSTANTS r1, r2, typed, other, capitals

MCAddressOf == typed :> "ana" @@ other :> "bia" @@ capitals :> "bia"

Symmetry == Permutations({r1, r2})
===============================================================================
