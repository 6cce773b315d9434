----------------------------- MODULE StockMath ------------------------------
(***************************************************************************)
(* The arithmetic sales, stock and purchases are built from: sums over a   *)
(* finite set, most often of lines, and the smaller of two quantities.     *)
(*                                                                         *)
(* A quantity is a natural number of thousandths of a consumption unit,    *)
(* the precision Material.applyStockDelta rounds a balance to.             *)
(*                                                                         *)
(* A sum is the number of units counted over its terms.  Counting gives    *)
(* the laws of addition from those of cardinality, without recursion, so   *)
(* they are proved for every finite set (StockMathProofs).                 *)
(***************************************************************************)
EXTENDS Integers, FiniteSets

CONSTANT Lines  \* the ids a line of a sale or of a purchase can have

ASSUME LinesAssumption == IsFiniteSet(Lines)

\* Every unit of every term: the i-th unit of the quantity w[x].
Units(S, w) == UNION {{<<x, i>> : i \in 1..w[x]} : x \in S}

\* The sum of w[x] over x in S, for w a function to the naturals.
SumOver(S, w) == Cardinality(Units(S, w))

\* Math.min, on quantities.
Smaller(a, b) == IF a <= b THEN a ELSE b

=============================================================================
