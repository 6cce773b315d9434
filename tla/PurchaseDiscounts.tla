-------------------------- MODULE PurchaseDiscounts --------------------------
(***************************************************************************)
(* A Purchase: the aggregate root (purchase.entity.ts) and the operations  *)
(* of PurchasesService, PurchaseEditingService and                         *)
(* InvoiceClassificationService that go through it.  DiscountAllocation    *)
(* says how its discount is attributed.                                    *)
(*                                                                         *)
(* Money is a natural number of cents.  A quantity and a unit price feed   *)
(* nothing here, and the Material a line stocks is left out.               *)
(***************************************************************************)
EXTENDS DiscountAllocation

CONSTANTS
  Values,      \* gross values a line can have, in cents
  Discounts    \* discounts a note can grant, in cents

ASSUME PurchaseAssumption ==
  /\ Values \subseteq Nat
  /\ Discounts \subseteq Nat

VARIABLES
  lines,          \* the ids of purchase.items; none before it is registered
  gross,          \* grossValue of each line
  company,        \* the lines that are a company expense
  allocated,      \* allocatedDiscount of each line
  grossTotal, discountTotal,
  mode,           \* discountAllocationMode
  pending,        \* allocationPending
  registered      \* does the purchase exist?

header == <<discountTotal, registered>>
vars == <<lines, gross, company, allocated, grossTotal, mode, pending, header>>

-----------------------------------------------------------------------------
(* The root.                                                               *)

Init ==
  /\ lines = {} /\ gross = NoAmounts /\ company = {} /\ allocated = NoAmounts
  /\ grossTotal = 0 /\ discountTotal = 0
  /\ mode = "PROPORTIONAL" /\ pending = FALSE /\ registered = FALSE

\* withReallocation: attributes over the lines and the mode the operation
\* ends with, in one construction.
Reallocate(ls, g, theirs, discount, m, manual) ==
  /\ allocated' \in Allocations(ls, g, theirs, discount, m, manual)
  /\ mode' = m
  /\ pending' = FALSE

\* PurchasesService.register and InvoiceImportFacade.buildPurchase: at least
\* one line, a discount the lines are worth, and any mode but MANUAL.
Register(ls, g, theirs, discount, m) ==
  /\ ~ registered /\ ls # {}
  /\ registered' = TRUE
  /\ lines' = ls
  /\ gross' = [l \in Lines |-> IF l \in ls THEN g[l] ELSE 0]
  /\ company' = ls \cap theirs
  /\ grossTotal' = SumOver(ls, g)
  /\ discountTotal' = discount /\ discount <= grossTotal'
  /\ Reallocate(ls, gross', company', discount, m, NoAmounts)

\* Mutant of Restructure: under MANUAL the discount is spread, and parked.
RestructureSpreading(ls, g, theirs, kept) ==
  LET total == SumOver(ls, g)
  IN /\ discountTotal <= total
     /\ lines' = ls /\ gross' = g /\ company' = theirs /\ grossTotal' = total
     /\ allocated' \in Allocations(ls, g, theirs, discountTotal,
                                   IF mode = "MANUAL" THEN "PROPORTIONAL" ELSE mode, NoAmounts)
     /\ pending' = (mode = "MANUAL" /\ discountTotal # 0)
     /\ UNCHANGED <<mode, header>>

\* restructure: attributed again, or parked until the user restates it.
Restructure(ls, g, theirs, kept) ==
  LET total == SumOver(ls, g)
  IN /\ discountTotal <= total
     /\ lines' = ls /\ gross' = g /\ company' = theirs /\ grossTotal' = total
     /\ IF mode # "MANUAL" THEN Reallocate(ls, g, theirs, discountTotal, mode, NoAmounts)
        ELSE /\ allocated' = kept
             /\ pending' = (discountTotal # 0)
             /\ UNCHANGED mode
     /\ UNCHANGED header

AddItem(l, value, ours) ==
  /\ registered /\ l \notin lines
  /\ Restructure(lines \cup {l}, [gross EXCEPT ![l] = value],
                 IF ours THEN company \cup {l} ELSE company, allocated)

RemoveItem(l) ==
  /\ l \in lines
  /\ Restructure(lines \ {l}, [gross EXCEPT ![l] = 0], company \ {l},
                 [allocated EXCEPT ![l] = 0])

\* The line gives up its discount, whatever changed: its ceiling may have moved.
ChangeItemValue(l, value) ==
  /\ l \in lines
  /\ Restructure(lines, [gross EXCEPT ![l] = value], company, [allocated EXCEPT ![l] = 0])

\* Mutant of ClassifyItems: the discount stays where it was.
ClassifyItemsInPlace(theirs) ==
  /\ registered /\ ~ pending
  /\ company' = theirs
  /\ UNCHANGED <<lines, gross, allocated, grossTotal, mode, pending, header>>

\* InvoiceClassificationService.classify with no mode chosen: the lines are
\* reclassified as one operation, then completeEdit refuses a purchase whose
\* attribution is pending.  Under MANUAL what was typed before is kept.
ClassifyItems(theirs) ==
  /\ registered
  /\ company' = theirs
  /\ IF mode = "MANUAL" THEN ~ pending /\ UNCHANGED <<allocated, mode, pending>>
     ELSE Reallocate(lines, gross, theirs, discountTotal, mode, NoAmounts)
  /\ UNCHANGED <<lines, gross, grossTotal, header>>

\* The same with a mode chosen, which a note without discount ignores.
ClassifyAndAllocate(theirs, m, manual) ==
  /\ registered /\ discountTotal # 0
  /\ company' = theirs
  /\ Reallocate(lines, gross, theirs, discountTotal, m, manual)
  /\ UNCHANGED <<lines, gross, grossTotal, header>>

\* PurchaseEditingService.setDiscountAllocation.
ChangeDiscountAllocation(m, manual) ==
  /\ registered
  /\ Reallocate(lines, gross, company, discountTotal, m, manual)
  /\ UNCHANGED <<lines, gross, company, grossTotal, header>>

-----------------------------------------------------------------------------

\* Amounts a user types: no line more than its value, or they are refused.
TypedAmounts ==
  {[l \in Lines |-> IF l \in lines THEN a[l] ELSE 0] : a \in [lines -> 0..discountTotal]}

Next ==
  \/ \E ls \in SUBSET Lines, theirs \in SUBSET Lines, discount \in Discounts, m \in ComputedModes :
       \E g \in [ls -> Values] : Register(ls, g, theirs, discount, m)
  \/ \E l \in Lines, value \in Values :
       \/ \E ours \in BOOLEAN : AddItem(l, value, ours)
       \/ ChangeItemValue(l, value)
  \/ \E l \in Lines : RemoveItem(l)
  \/ \E theirs \in SUBSET lines :
       \/ ClassifyItems(theirs)
       \/ \E m \in ComputedModes : ClassifyAndAllocate(theirs, m, NoAmounts)
       \/ \E manual \in TypedAmounts : ClassifyAndAllocate(theirs, "MANUAL", manual)
  \/ \E m \in ComputedModes : ChangeDiscountAllocation(m, NoAmounts)
  \/ \E manual \in TypedAmounts : ChangeDiscountAllocation("MANUAL", manual)

Spec == Init /\ [][Next]_vars

-----------------------------------------------------------------------------
(* Correctness.                                                            *)

TypeOK ==
  /\ lines \subseteq Lines /\ company \subseteq lines
  /\ gross \in Amounts /\ allocated \in Amounts
  /\ grossTotal \in Nat /\ discountTotal \in Nat
  /\ mode \in Modes
  /\ pending \in BOOLEAN /\ registered \in BOOLEAN
  /\ registered \/ lines = {}

\* The checks of the Purchase and PurchaseItem constructors are defensive: no
\* operation ever builds a purchase they refuse.  The header closes over the
\* lines, no line holds more discount than it is worth or any outside the
\* eligible set, and the discount closes unless it is pending.
ConstructorAccepts ==
  /\ grossTotal = SumOver(lines, gross) /\ discountTotal <= grossTotal
  /\ \A l \in Lines : allocated[l] <= gross[l]
  /\ \A l \in Lines \ EligibleLines(lines, company, mode) : allocated[l] = 0
  /\ pending \/ SumOver(Lines, allocated) = discountTotal

\* Outside MANUAL the purchase waits for nobody, and the stored discounts are the
\* ones the mode gives the lines as they now are, however they came to be so
\* (the root reattributes on its own).
AttributionIsCurrent ==
  mode # "MANUAL" =>
    ~ pending /\ allocated \in Allocations(lines, gross, company, discountTotal, mode, NoAmounts)

\* Only a MANUAL attribution of some discount is ever pending
\* (PurchaseProps.allocationPending): the others count in the spending panel.
PendingOnlyUnderManual == pending => mode = "MANUAL" /\ discountTotal # 0

\* Outside MANUAL every line but the one that takes the residue holds its exact
\* share rounded to the nearest cent.
SharesAreFairButOne ==
  LET eligible == EligibleLines(lines, company, mode)
      total == SumOver(eligible, gross)
      exact(l) == gross[l] * discountTotal
      held(l) == allocated[l] * total
  IN mode # "MANUAL" /\ discountTotal # 0 =>
       \E r \in eligible : \A l \in eligible \ {r} :
         2 * (exact(l) - held(l)) <= total /\ 2 * (held(l) - exact(l)) <= total

\* Under MANUAL an amount is the user's: an edit that parks the purchase keeps
\* it or drops it, and never makes one up.
ManualAmountsAreTheUsers ==
  [][mode = "MANUAL" /\ mode' = "MANUAL" /\ pending' =>
       \A l \in lines \cap lines' : allocated'[l] \in {allocated[l], 0}]_vars

=============================================================================
