------------------------- MODULE DiscountAllocation -------------------------
(***************************************************************************)
(* How the discount of a note is attributed to its lines                   *)
(* (discount-allocation.ts).  Money is a natural number of cents.          *)
(***************************************************************************)
EXTENDS StockMath

ComputedModes == {"PROPORTIONAL", "COMPANY_ONLY", "PERSONAL_ONLY"}
Modes == ComputedModes \cup {"MANUAL"}

Amounts == [Lines -> Nat]
NoAmounts == [l \in Lines |-> 0]

EligibleLines(ls, theirs, m) ==
  CASE m = "COMPANY_ONLY" -> ls \cap theirs
    [] m = "PERSONAL_ONLY" -> ls \ theirs
    [] OTHER -> ls

\* Mutant of Share: rounded down.
ShareRoundedDown(value, discount, total) == (value * discount) \div total

\* Money.times, then Money.dividedBy: one rounding, half away from zero.
Share(value, discount, total) == (2 * value * discount + total) \div (2 * total)

Shares(eligible, g, discount) ==
  [l \in Lines |-> IF l \in eligible THEN Share(g[l], discount, SumOver(eligible, g)) ELSE 0]

\* The residue fits on a line that stays between nothing and its gross value.
Absorbs(l, g, shares, residue) == shares[l] + residue \in 0..g[l]

\* The largest line that can absorb it; equal lines come in any order.
ResidueLines(eligible, g, shares, residue) ==
  {l \in eligible :
     /\ Absorbs(l, g, shares, residue)
     /\ \A k \in eligible : g[k] > g[l] => ~ Absorbs(k, g, shares, residue)}

\* The attributions allocateProportionally may return; none if it throws.
ProportionalAllocations(eligible, g, discount) ==
  LET shares == Shares(eligible, g, discount)
      residue == discount - SumOver(Lines, shares)
  IN IF eligible = {} \/ discount > SumOver(eligible, g) THEN {}
     ELSE IF residue = 0 THEN {shares}
     ELSE {[shares EXCEPT ![l] = @ + residue] :
             l \in ResidueLines(eligible, g, shares, residue)}

\* What the user typed, if it closes and no line takes more than its value.
ManualAllocations(ls, g, discount, manual) ==
  LET typed == [l \in Lines |-> IF l \in ls THEN manual[l] ELSE 0]
  IN {a \in {typed} : SumOver(Lines, a) = discount /\ \A l \in ls : a[l] <= g[l]}

Allocations(ls, g, theirs, discount, m, manual) ==
  IF discount = 0 THEN {NoAmounts}
  ELSE IF m = "MANUAL" THEN ManualAllocations(ls, g, discount, manual)
  ELSE ProportionalAllocations(EligibleLines(ls, theirs, m), g, discount)

=============================================================================
