---------------------------- MODULE MoneyProofs -----------------------------
(***************************************************************************)
(* Proofs about what is bought, read and sold, for any values of the       *)
(* constants: PurchaseDiscounts, whose attribution stays closed and        *)
(* current; InvoicePages, whose canary tells the truth and whose purchases *)
(* hold the note they were read from; Figures, whose totals, lists, panels *)
(* and reversals agree with the rows they are computed from.               *)
(***************************************************************************)
EXTENDS PurchaseDiscounts, InvoicePages, Figures, StockMathProofs

-----------------------------------------------------------------------------
(* PurchaseDiscounts: the root.                                            *)

\* The inductive invariant: the constructor's checks, and where the stored
\* discounts come from.
Sound ==
  TypeOK /\ ConstructorAccepts /\ AttributionIsCurrent /\ PendingOnlyUnderManual

\* Any operation that ends in Reallocate leaves the root sound.
LEMMA ReallocateIsSound ==
  ASSUME NEW ls \in SUBSET Lines, NEW g \in Amounts, NEW theirs \in SUBSET ls,
         NEW d \in Nat, NEW m \in Modes, NEW manual \in Amounts,
         Reallocate(ls, g, theirs, d, m, manual),
         lines' = ls, gross' = g, company' = theirs, discountTotal' = d,
         grossTotal' = SumOver(ls, g), d <= grossTotal', registered' = TRUE
  PROVE  Sound'
<1>1. Given(ls, g, theirs, d, m, manual)
  BY DEF Given
<1>2. /\ allocated' \in Allocations(ls, g, theirs, d, m, manual)
      /\ mode' = m /\ pending' = FALSE
  BY DEF Reallocate
<1>3. /\ allocated' \in Amounts
      /\ SumOver(Lines, allocated') = d
      /\ \A l \in Lines : allocated'[l] <= g[l]
      /\ \A l \in Lines \ EligibleLines(ls, theirs, m) : allocated'[l] = 0
  BY <1>1, <1>2, AllocationCloses
<1>4. grossTotal' \in Nat
  <2>1. IsFiniteSet(ls) /\ \A l \in ls : g[l] \in Nat
    BY SubsetFinite DEF Amounts
  <2> QED
    BY <2>1, SumIsNat
<1>5. TypeOK'
  BY <1>2, <1>3, <1>4 DEF TypeOK
<1>6. ConstructorAccepts'
  BY <1>2, <1>3 DEF ConstructorAccepts
<1>7. AttributionIsCurrent'
  BY <1>2, TypedIsIgnored DEF AttributionIsCurrent
<1>8. PendingOnlyUnderManual'
  BY <1>2 DEF PendingOnlyUnderManual
<1> QED
  BY <1>5, <1>6, <1>7, <1>8 DEF Sound

\* So does an edit of the lines: outside MANUAL it reallocates, under MANUAL it
\* keeps amounts that still fit and parks the purchase.
LEMMA RestructureIsSound ==
  ASSUME Sound, registered,
         NEW ls \in SUBSET Lines, NEW g \in Amounts, NEW theirs \in SUBSET ls,
         NEW kept \in Amounts,
         \A l \in Lines : kept[l] <= g[l] /\ kept[l] \in {allocated[l], 0},
         \A l \in Lines \ ls : kept[l] = 0,
         Restructure(ls, g, theirs, kept)
  PROVE  Sound'
<1>1. /\ discountTotal <= SumOver(ls, g)
      /\ lines' = ls /\ gross' = g /\ company' = theirs /\ grossTotal' = SumOver(ls, g)
      /\ discountTotal' = discountTotal /\ registered' = TRUE
  BY DEF Restructure, header
<1>2. discountTotal \in Nat /\ mode \in Modes
  BY DEF Sound, TypeOK
<1>3. CASE mode # "MANUAL"
  <2>1. Reallocate(ls, g, theirs, discountTotal, mode, NoAmounts)
    BY <1>3 DEF Restructure
  <2>2. NoAmounts \in Amounts
    BY DEF NoAmounts, Amounts
  <2> QED
    BY <1>1, <1>2, <2>1, <2>2, ReallocateIsSound
<1>4. CASE mode = "MANUAL"
  <2>1. allocated' = kept /\ mode' = "MANUAL" /\ pending' = (discountTotal # 0)
    BY <1>4 DEF Restructure
  <2>2. grossTotal' \in Nat
    <3>1. IsFiniteSet(ls) /\ \A l \in ls : g[l] \in Nat
      BY SubsetFinite DEF Amounts
    <3> QED
      BY <1>1, <3>1, SumIsNat
  <2>3. TypeOK'
    BY <1>1, <1>2, <2>1, <2>2 DEF TypeOK, Modes
  <2>4. EligibleLines(ls, theirs, "MANUAL") = ls
    BY DEF EligibleLines
  <2>5. ~ pending' => SumOver(Lines, kept) = discountTotal
    <3> SUFFICES ASSUME discountTotal = 0 PROVE SumOver(Lines, kept) = 0
      BY <2>1
    <3>1. SumOver(Lines, allocated) = 0
      BY DEF Sound, ConstructorAccepts, PendingOnlyUnderManual
    <3>2. \A l \in Lines : kept[l] = 0
      BY <3>1, SumOfNothing DEF Sound, TypeOK
    <3> QED
      BY <3>2, SumOfZeros
  <2>6. ConstructorAccepts'
    BY <1>1, <2>1, <2>4, <2>5 DEF ConstructorAccepts
  <2>7. AttributionIsCurrent' /\ PendingOnlyUnderManual'
    BY <1>1, <2>1 DEF AttributionIsCurrent, PendingOnlyUnderManual
  <2> QED
    BY <2>3, <2>6, <2>7 DEF Sound
<1> QED
  BY <1>3, <1>4

-----------------------------------------------------------------------------
(* Every step.                                                             *)

LEMMA SoundFirst == Init => Sound
<1> SUFFICES ASSUME Init PROVE Sound
  OBVIOUS
<1>1. \A l \in Lines : NoAmounts[l] = 0
  BY DEF NoAmounts
<1>2. SumOver({}, NoAmounts) = 0 /\ SumOver(Lines, NoAmounts) = 0
  BY <1>1, SumOfZeros
<1>3. NoAmounts \in Amounts
  BY DEF NoAmounts, Amounts
<1>4. TypeOK
  BY <1>3 DEF Init, TypeOK, Modes, ComputedModes
<1>5. ConstructorAccepts
  BY <1>1, <1>2 DEF Init, ConstructorAccepts
<1>6. AttributionIsCurrent /\ PendingOnlyUnderManual
  BY DEF Init, AttributionIsCurrent, Allocations, PendingOnlyUnderManual
<1> QED
  BY <1>4, <1>5, <1>6 DEF Sound

LEMMA RegisterIsSound ==
  ASSUME NEW ls \in SUBSET Lines, NEW theirs \in SUBSET Lines, NEW discount \in Discounts,
         NEW m \in ComputedModes, NEW g \in [ls -> Values], Register(ls, g, theirs, discount, m)
  PROVE  Sound'
<1> DEFINE values == [l \in Lines |-> IF l \in ls THEN g[l] ELSE 0]
<1>1. /\ lines' = ls /\ gross' = values /\ company' = ls \cap theirs
      /\ grossTotal' = SumOver(ls, g) /\ discountTotal' = discount /\ discount <= grossTotal'
      /\ registered' = TRUE
      /\ Reallocate(ls, gross', company', discount, m, NoAmounts)
  BY DEF Register
<1>2. values \in Amounts /\ NoAmounts \in Amounts /\ discount \in Nat /\ m \in Modes
  BY PurchaseAssumption, LinesAssumption DEF Amounts, NoAmounts, Modes
<1>3. SumOver(ls, g) = SumOver(ls, values)
  <2>1. \A l \in ls : g[l] = values[l]
    OBVIOUS
  <2> QED
    BY <2>1, SumSameTerms
<1> HIDE DEF values
<1> QED
  BY <1>1, <1>2, <1>3, ReallocateIsSound

\* The three edits of the lines keep only amounts that still fit.
LEMMA EditIsSound ==
  ASSUME Sound, NEW l \in Lines, NEW value \in Values
  PROVE  /\ \A ours \in BOOLEAN : AddItem(l, value, ours) => Sound'
         /\ ChangeItemValue(l, value) => Sound'
<1>1. /\ lines \subseteq Lines /\ company \subseteq lines
      /\ gross \in Amounts /\ allocated \in Amounts /\ value \in Nat
      /\ \A k \in Lines : allocated[k] <= gross[k]
      /\ registered \in BOOLEAN /\ (registered \/ lines = {})
  BY PurchaseAssumption, LinesAssumption DEF Sound, TypeOK, ConstructorAccepts
<1>2. \A k \in Lines \ lines : allocated[k] = 0
  BY EligibleAreLines DEF Sound, ConstructorAccepts
<1>3. ASSUME NEW ours \in BOOLEAN, AddItem(l, value, ours) PROVE Sound'
  <2> DEFINE theirs == IF ours THEN company \cup {l} ELSE company
             values == [gross EXCEPT ![l] = value]
  <2>1. registered /\ l \notin lines /\ Restructure(lines \cup {l}, values, theirs, allocated)
    BY <1>3 DEF AddItem
  <2>2. values \in Amounts /\ theirs \in SUBSET (lines \cup {l})
    BY <1>1 DEF Amounts
  <2>3. \A k \in Lines : allocated[k] <= values[k] /\ allocated[k] \in {allocated[k], 0}
    BY <1>1, <1>2, <2>1 DEF Amounts
  <2> HIDE DEF theirs, values
  <2> QED
    BY <1>1, <1>2, <2>1, <2>2, <2>3, RestructureIsSound
<1>4. ASSUME ChangeItemValue(l, value) PROVE Sound'
  <2> DEFINE values == [gross EXCEPT ![l] = value]
             kept == [allocated EXCEPT ![l] = 0]
  <2>1. l \in lines /\ Restructure(lines, values, company, kept)
    BY <1>4 DEF ChangeItemValue
  <2>2. values \in Amounts /\ kept \in Amounts
    BY <1>1 DEF Amounts
  <2>3. \A k \in Lines : kept[k] <= values[k] /\ kept[k] \in {allocated[k], 0}
    BY <1>1 DEF Amounts
  <2>4. \A k \in Lines \ lines : kept[k] = 0
    BY <1>1, <1>2 DEF Amounts
  <2>5. registered
    BY <1>1, <2>1
  <2> HIDE DEF kept, values
  <2> QED
    BY <1>1, <2>1, <2>2, <2>3, <2>4, <2>5, RestructureIsSound
<1> QED
  BY <1>3, <1>4

LEMMA RemovalIsSound ==
  ASSUME Sound, NEW l \in Lines, RemoveItem(l)
  PROVE  Sound'
<1>1. /\ lines \subseteq Lines /\ company \subseteq lines
      /\ gross \in Amounts /\ allocated \in Amounts
      /\ \A k \in Lines : allocated[k] <= gross[k]
      /\ registered \in BOOLEAN /\ (registered \/ lines = {})
  BY DEF Sound, TypeOK, ConstructorAccepts
<1>2. \A k \in Lines \ lines : allocated[k] = 0
  BY EligibleAreLines DEF Sound, ConstructorAccepts
<1> DEFINE values == [gross EXCEPT ![l] = 0]
           kept == [allocated EXCEPT ![l] = 0]
<1>3. l \in lines /\ Restructure(lines \ {l}, values, company \ {l}, kept)
  BY DEF RemoveItem
<1>4. values \in Amounts /\ kept \in Amounts /\ company \ {l} \in SUBSET (lines \ {l})
  BY <1>1 DEF Amounts
<1>5. \A k \in Lines : kept[k] <= values[k] /\ kept[k] \in {allocated[k], 0}
  BY <1>1 DEF Amounts
<1>6. \A k \in Lines \ (lines \ {l}) : kept[k] = 0
  BY <1>1, <1>2 DEF Amounts
<1>7. registered
  BY <1>1, <1>3
<1> HIDE DEF kept, values
<1> QED
  BY <1>1, <1>3, <1>4, <1>5, <1>6, <1>7, RestructureIsSound

\* An operation that attributes again over lines it does not change.
LEMMA ReattributionIsSound ==
  ASSUME Sound, registered, NEW theirs \in SUBSET lines, NEW m \in Modes, NEW manual \in Amounts,
         Reallocate(lines, gross, theirs, discountTotal, m, manual),
         company' = theirs, UNCHANGED <<lines, gross, grossTotal, header>>
  PROVE  Sound'
<1>1. /\ lines' = lines /\ gross' = gross /\ company' = theirs /\ discountTotal' = discountTotal
      /\ grossTotal' = SumOver(lines, gross) /\ discountTotal <= grossTotal' /\ registered' = TRUE
  BY DEF Sound, ConstructorAccepts, header
<1>2. lines \in SUBSET Lines /\ gross \in Amounts /\ discountTotal \in Nat
  BY DEF Sound, TypeOK
<1> QED
  BY <1>1, <1>2, ReallocateIsSound

LEMMA ReclassificationIsSound ==
  ASSUME Sound, NEW theirs \in SUBSET lines, ClassifyItems(theirs)
  PROVE  Sound'
<1>1. CASE mode # "MANUAL"
  <2>1. Reallocate(lines, gross, theirs, discountTotal, mode, NoAmounts)
    BY <1>1 DEF ClassifyItems
  <2>2. NoAmounts \in Amounts /\ mode \in Modes
    BY DEF NoAmounts, Amounts, Sound, TypeOK
  <2> QED
    BY <2>1, <2>2, ReattributionIsSound DEF ClassifyItems
<1>2. CASE mode = "MANUAL"
  <2>1. /\ company' = theirs
        /\ UNCHANGED <<lines, gross, allocated, grossTotal, mode, pending, discountTotal,
                       registered>>
    BY <1>2 DEF ClassifyItems, header
  <2>2. TypeOK'
    BY <2>1 DEF Sound, TypeOK
  <2>3. EligibleLines(lines, theirs, mode) = EligibleLines(lines, company, mode)
    BY <1>2 DEF EligibleLines
  <2>4. ConstructorAccepts'
    BY <2>1, <2>3 DEF Sound, ConstructorAccepts
  <2>5. AttributionIsCurrent' /\ PendingOnlyUnderManual'
    BY <1>2, <2>1 DEF Sound, AttributionIsCurrent, PendingOnlyUnderManual
  <2> QED
    BY <2>2, <2>4, <2>5 DEF Sound
<1> QED
  BY <1>1, <1>2

LEMMA TypedAreAmounts ==
  ASSUME TypeOK
  PROVE  TypedAmounts \subseteq Amounts
BY DEF TypedAmounts, Amounts, TypeOK

LEMMA SoundNext == Sound /\ [Next]_vars => Sound'
<1> SUFFICES ASSUME Sound, [Next]_vars PROVE Sound'
  OBVIOUS
<1>1. ASSUME NEW ls \in SUBSET Lines, NEW theirs \in SUBSET Lines, NEW discount \in Discounts,
             NEW m \in ComputedModes, NEW g \in [ls -> Values], Register(ls, g, theirs, discount, m)
      PROVE  Sound'
  BY <1>1, RegisterIsSound
<1>2. ASSUME NEW l \in Lines, NEW value \in Values,
             (\E ours \in BOOLEAN : AddItem(l, value, ours)) \/ ChangeItemValue(l, value)
      PROVE  Sound'
  BY <1>2, EditIsSound
<1>3. ASSUME NEW l \in Lines, RemoveItem(l)
      PROVE  Sound'
  BY <1>3, RemovalIsSound
<1>4. ASSUME NEW theirs \in SUBSET lines, ClassifyItems(theirs)
      PROVE  Sound'
  BY <1>4, ReclassificationIsSound
<1>5. NoAmounts \in Amounts /\ TypedAmounts \subseteq Amounts
  BY TypedAreAmounts DEF Sound, NoAmounts, Amounts
<1>6. ASSUME NEW theirs \in SUBSET lines, NEW m \in Modes, NEW manual \in Amounts,
             ClassifyAndAllocate(theirs, m, manual)
      PROVE  Sound'
  BY <1>6, ReattributionIsSound DEF ClassifyAndAllocate
<1>7. ASSUME NEW m \in Modes, NEW manual \in Amounts, ChangeDiscountAllocation(m, manual)
      PROVE  Sound'
  <2>1. company \in SUBSET lines
    BY DEF Sound, TypeOK
  <2> QED
    BY <1>7, <2>1, ReattributionIsSound DEF ChangeDiscountAllocation
<1>8. CASE UNCHANGED vars
  BY <1>8 DEF vars, header, Sound, TypeOK, ConstructorAccepts, AttributionIsCurrent,
             PendingOnlyUnderManual
<1> QED
  BY <1>1, <1>2, <1>3, <1>4, <1>5, <1>6, <1>7, <1>8 DEF Next, Modes

-----------------------------------------------------------------------------

LEMMA SoundAlways == Spec => []Sound
BY SoundFirst, SoundNext, PTL DEF Spec

\* Whatever the lines, the discount and the order of edits, the purchase stays
\* well formed and no line's share of the discount is negative
\* (purchase.entity.ts, discount-allocation.ts).
THEOREM TypeCorrect == Spec => []TypeOK
<1>1. Sound => TypeOK
  BY DEF Sound
<1> QED
  BY SoundAlways, <1>1, PTL

\* The purchase an edit, a reclassification or a reattribution builds is one
\* the constructor accepts: the header closes over the lines and the discount
\* closes over the eligible ones, unless the user has yet to restate it.
THEOREM ConstructorNeverRefuses == Spec => []ConstructorAccepts
<1>1. Sound => ConstructorAccepts
  BY DEF Sound
<1> QED
  BY SoundAlways, <1>1, PTL

\* Outside MANUAL no stored share is left over from lines, classes or a mode the
\* purchase no longer has (withReallocation is called by every operation).
THEOREM AttributionNeverStale == Spec => []AttributionIsCurrent
<1>1. Sound => AttributionIsCurrent
  BY DEF Sound
<1> QED
  BY SoundAlways, <1>1, PTL

\* A purchase waits for its user only under MANUAL and with a discount to
\* restate; leaving MANUAL always ends the wait.
THEOREM OnlyManualWaits == Spec => []PendingOnlyUnderManual
<1>1. Sound => PendingOnlyUnderManual
  BY DEF Sound
<1> QED
  BY SoundAlways, <1>1, PTL

\* What allocateProportionally gives a line is its exact share rounded to the
\* nearest cent, one line excepted.
LEMMA SoundIsFair == Sound => SharesAreFairButOne
<1> SUFFICES ASSUME Sound, mode # "MANUAL", discountTotal # 0
             PROVE  LET eligible == EligibleLines(lines, company, mode)
                        total == SumOver(eligible, gross)
                    IN \E r \in eligible : \A l \in eligible \ {r} :
                         /\ 2 * (gross[l] * discountTotal - allocated[l] * total) <= total
                         /\ 2 * (allocated[l] * total - gross[l] * discountTotal) <= total
  BY DEF SharesAreFairButOne
<1> DEFINE eligible == EligibleLines(lines, company, mode)
           total == SumOver(eligible, gross)
<1>1. /\ eligible \in SUBSET Lines
      /\ gross \in Amounts /\ discountTotal \in Nat
      /\ \A l \in Lines : gross[l] \in Nat
  BY EligibleAreLines DEF Sound, TypeOK, Amounts
<1>2. allocated \in ProportionalAllocations(eligible, gross, discountTotal)
  BY DEF Sound, AttributionIsCurrent, Allocations
<1>3. \E r \in eligible : \A l \in eligible \ {r} :
        allocated[l] = Share(gross[l], discountTotal, SumOver(eligible, gross))
  <2> HIDE DEF eligible
  <2> QED
    BY <1>1, <1>2, ProportionalCloses
<1>4. total \in Nat /\ eligible # {} /\ ~ discountTotal > total
  <2>1. total \in Nat
    <3>1. IsFiniteSet(eligible) /\ \A l \in eligible : gross[l] \in Nat
      BY <1>1, SubsetFinite
    <3> HIDE DEF eligible
    <3> QED
      BY <3>1, SumIsNat
  <2> QED
    BY <1>2, <2>1 DEF ProportionalAllocations
<1> HIDE DEF eligible
<1>5. PICK r \in eligible : \A l \in eligible \ {r} :
        allocated[l] = Share(gross[l], discountTotal, total)
  BY <1>3
<1> HIDE DEF total
<1>6. total \in Nat \ {0} /\ discountTotal <= total
  BY <1>1, <1>4
<1>7. ASSUME NEW l \in eligible \ {r}
      PROVE  /\ 2 * (gross[l] * discountTotal - allocated[l] * total) <= total
             /\ 2 * (allocated[l] * total - gross[l] * discountTotal) <= total
  <2>1. gross[l] \in Nat /\ allocated[l] = Share(gross[l], discountTotal, total)
    BY <1>1, <1>5
  <2> QED
    BY <1>1, <1>6, <2>1, ShareIsFair
<1> QED
  BY <1>7 DEF eligible, total

\* Outside MANUAL every line but one holds its share to the nearest cent, for
\* any note: the residue never spreads over several lines.
THEOREM SharesStayFair == Spec => []SharesAreFairButOne
BY SoundAlways, SoundIsFair, PTL

\* A step that leaves a purchase waiting for its user invented no amount: each
\* line that is still there holds what it held, or nothing.
LEMMA StepInventsNothing ==
  ASSUME Sound, [Next]_vars, mode = "MANUAL", mode' = "MANUAL", pending',
         NEW l \in lines, l \in lines'
  PROVE  allocated'[l] \in {allocated[l], 0}
<1>1. allocated \in Amounts /\ lines \subseteq Lines /\ mode' \notin ComputedModes
  BY DEF Sound, TypeOK, ComputedModes
<1>2. ASSUME NEW ls, NEW g, NEW theirs, NEW kept, Restructure(ls, g, theirs, kept)
      PROVE  allocated' = kept
  BY <1>2 DEF Restructure
<1>3. ASSUME NEW k \in Lines, NEW value \in Values, NEW ours \in BOOLEAN, AddItem(k, value, ours)
      PROVE  allocated'[l] \in {allocated[l], 0}
  BY <1>2, <1>3 DEF AddItem
<1>4. ASSUME NEW k \in Lines, NEW value \in Values, ChangeItemValue(k, value)
      PROVE  allocated'[l] \in {allocated[l], 0}
  <2>1. allocated' = [allocated EXCEPT ![k] = 0]
    BY <1>2, <1>4 DEF ChangeItemValue
  <2> QED
    BY <1>1, <2>1 DEF Amounts
<1>5. ASSUME NEW k \in Lines, RemoveItem(k)
      PROVE  allocated'[l] \in {allocated[l], 0}
  <2>1. allocated' = [allocated EXCEPT ![k] = 0]
    BY <1>2, <1>5 DEF RemoveItem
  <2> QED
    BY <1>1, <2>1 DEF Amounts
<1>6. ASSUME NEW theirs, ClassifyItems(theirs)
      PROVE  allocated' = allocated
  BY <1>6 DEF ClassifyItems
<1>7. ASSUME NEW ls, NEW g, NEW theirs, NEW d, NEW m, NEW manual,
             Reallocate(ls, g, theirs, d, m, manual)
      PROVE  FALSE
  BY <1>7 DEF Reallocate
<1>8. ASSUME NEW ls, NEW theirs, NEW d, NEW m, NEW g, Register(ls, g, theirs, d, m)
      PROVE  FALSE
  BY <1>7, <1>8 DEF Register
<1>9. ASSUME NEW theirs, NEW m, NEW manual, ClassifyAndAllocate(theirs, m, manual)
      PROVE  FALSE
  BY <1>7, <1>9 DEF ClassifyAndAllocate
<1>10. ASSUME NEW m, NEW manual, ChangeDiscountAllocation(m, manual)
       PROVE  FALSE
  BY <1>7, <1>10 DEF ChangeDiscountAllocation
<1>11. CASE UNCHANGED vars
  BY <1>11 DEF vars
<1> QED
  BY <1>3, <1>4, <1>5, <1>6, <1>8, <1>9, <1>10, <1>11 DEF Next

\* A parked purchase shows the user their own amounts (Purchase.restructure,
\* changeItemValue): no edit under MANUAL makes one up.
THEOREM ManualStaysTheUsers == Spec => ManualAmountsAreTheUsers
<1>1. Sound /\ [Next]_vars =>
        [mode = "MANUAL" /\ mode' = "MANUAL" /\ pending' =>
           \A l \in lines \cap lines' : allocated'[l] \in {allocated[l], 0}]_vars
  BY StepInventsNothing
<1> QED
  BY SoundAlways, <1>1, PTL DEF Spec, ManualAmountsAreTheUsers

-----------------------------------------------------------------------------

(***************************************************************************)
(* InvoicePages: what a loop over the rows of a note computes, and what    *)
(* the canary reads from it.                                               *)
(***************************************************************************)
\* What a loop over n rows has computed after each row.
IsRun(f, n, S, base, step) ==
  f \in [0..n -> S] /\ f[0] = base /\ \A i \in 1..n : f[i] = step[<<f[i - 1], i>>]

\* A loop has a run.
LEMMA LoopRuns ==
  ASSUME NEW n \in Nat, NEW S, NEW base \in S, NEW step \in [S \X (1..n) -> S]
  PROVE  \E f : IsRun(f, n, S, base, step)
<1> DEFINE Run(k, f) == f[0] = base /\ \A i \in 1..k : f[i] = step[<<f[i - 1], i>>]
           held == {k \in 0..n : \E f \in [0..k -> S] : Run(k, f)}
<1>1. 0 \in held
  <2> DEFINE f == [i \in 0..0 |-> base]
  <2>1. f \in [0..0 -> S] /\ Run(0, f)
    OBVIOUS
  <2> HIDE DEF f
  <2> QED
    BY <2>1
<1>2. ASSUME NEW k \in 1..n, k - 1 \in held PROVE k \in held
  <2>1. PICK f \in [0..(k - 1) -> S] : Run(k - 1, f)
    BY <1>2
  <2> DEFINE top == step[<<f[k - 1], k>>]
             g == [i \in 0..k |-> IF i = k THEN top ELSE f[i]]
  <2>2. f[k - 1] \in S /\ <<f[k - 1], k>> \in S \X (1..n)
    BY <2>1
  <2>3. top \in S
    BY <2>2
  <2>4. g[k] = top /\ \A i \in 0..(k - 1) : g[i] = f[i]
    OBVIOUS
  <2>5. g \in [0..k -> S]
    BY <2>1, <2>3
  <2>6. Run(k, g)
    <3>1. g[0] = base /\ g[k - 1] = f[k - 1]
      BY <2>1, <2>4
    <3>2. ASSUME NEW i \in 1..k PROVE g[i] = step[<<g[i - 1], i>>]
      <4>1. CASE i = k
        BY <2>4, <3>1, <4>1
      <4>2. CASE i # k
        <5>1. i \in 1..(k - 1) /\ g[i] = f[i] /\ g[i - 1] = f[i - 1]
          BY <2>4, <4>2
        <5> HIDE DEF g, top
        <5> QED
          BY <2>1, <5>1
      <4> QED
        BY <4>1, <4>2
    <3> HIDE DEF g
    <3> QED
      BY <3>1, <3>2
  <2> HIDE DEF g
  <2> QED
    BY <2>5, <2>6
<1>3. \A k \in 0..n : k \in held
  <2> HIDE DEF held
  <2> QED
    BY <1>1, <1>2, CountingUp
<1>4. n \in held
  BY <1>3
<1> QED
  BY <1>4 DEF IsRun

\* Targets is the run of its loop.
LEMMA TargetsRun ==
  \E kept : /\ kept \in [0..Len(Configured) -> Seq(Notes)]
            /\ Targets = kept[Len(Configured)]
<1> DEFINE n == Len(Configured)
           S == Seq(Notes)
           Loop(f) == [i \in 0..n |-> IF i = 0 THEN <<>>
                                     ELSE IF Configured[i] \in Pinned THEN Append(f[i - 1], Configured[i])
                                     ELSE f[i - 1]]
           step == [x \in S \X (1..n) |->
                      IF Configured[x[2]] \in Pinned THEN Append(x[1], Configured[x[2]]) ELSE x[1]]
<1>1. n \in Nat /\ <<>> \in S /\ \A i \in 1..n : Configured[i] \in Notes
  BY PagesAssumption
<1>2. step \in [S \X (1..n) -> S]
  BY <1>1
<1>3. \E f \in [0..n -> S] : f[0] = <<>> /\ \A i \in 1..n : f[i] = step[<<f[i - 1], i>>]
  <2> DEFINE base == <<>>
  <2>1. base \in S /\ n \in Nat
    BY <1>1
  <2> HIDE DEF step, S, n, base
  <2>2. \E f : IsRun(f, n, S, base, step)
    BY <2>1, <1>2, LoopRuns
  <2> QED
    BY <2>2 DEF base, IsRun
<1>4. PICK f \in [0..n -> S] : f[0] = <<>> /\ \A i \in 1..n : f[i] = step[<<f[i - 1], i>>]
  BY <1>3
<1>5. f = Loop(f)
  <2>1. ASSUME NEW i \in 0..n, i # 0
        PROVE  f[i] = IF Configured[i] \in Pinned THEN Append(f[i - 1], Configured[i]) ELSE f[i - 1]
    <3>1. i \in 1..n /\ f[i - 1] \in S
      <4> HIDE DEF S
      <4> QED
        BY <1>1, <1>4, <2>1
    <3>2. <<f[i - 1], i>> \in S \X (1..n)
      BY <3>1
    <3> HIDE DEF S
    <3> QED
      BY <1>4, <3>1, <3>2
  <2>2. f = [i \in 0..n |-> f[i]]
    BY <1>4
  <2> HIDE DEF S, step
  <2> QED
    BY <1>4, <2>1, <2>2
<1> DEFINE kept == CHOOSE kept : kept = Loop(kept)
<1>6. kept = Loop(kept)
  BY <1>5
<1>7. Targets = kept[n]
  BY DEF Targets
<1> HIDE DEF kept
<1> DEFINE held == {i \in 0..n : kept[i] \in S}
<1>8. 0 \in held
  BY <1>1, <1>6
<1>9. ASSUME NEW i \in 1..n, i - 1 \in held PROVE i \in held
  <2>1. kept[i] = IF Configured[i] \in Pinned THEN Append(kept[i - 1], Configured[i]) ELSE kept[i - 1]
    <3>1. kept[i] = Loop(kept)[i]
      BY <1>6
    <3> QED
      BY <3>1
  <2>2. kept[i - 1] \in S
    BY <1>9
  <2>3. kept[i] \in S
    BY <1>1, <2>1, <2>2
  <2> QED
    BY <2>3
<1>10. \A i \in 0..n : i \in held
  <2> HIDE DEF held, n
  <2> QED
    BY <1>1, <1>8, <1>9, CountingUp
<1>11. \A i \in 0..n : kept[i] \in S
  BY <1>10
<1>12. kept \in [0..n -> S]
  <2>1. kept = [i \in 0..n |-> kept[i]]
    BY <1>6
  <2> QED
    BY <1>11, <2>1
<1> QED
  BY <1>7, <1>12

LEMMA TargetsAreNotes == Targets \in Seq(Notes)
<1>1. Len(Configured) \in Nat
  BY PagesAssumption
<1> QED
  BY <1>1, TargetsRun

-----------------------------------------------------------------------------
(* InvoicePages: what is read off a page.                                  *)

Verdicts == {"UNREACHABLE", "STRUCTURE_CHANGED", "MATCHED", "DIVERGED"}

LEMMA NoteFacts ==
  ASSUME NEW n \in Notes
  PROVE  /\ Len(Contents[n].lines) \in Nat \ {0} /\ Rows(n) = 1..Len(Contents[n].lines)
         /\ \A i \in Rows(n) : Contents[n].lines[i] \in Line
         /\ IsFiniteSet(Rows(n)) /\ Cardinality(Rows(n)) = Len(Contents[n].lines)
         /\ Contents[n].discount \in Nat /\ GrossTotal(n) \in Nat
<1>1. Contents[n].lines \in Seq(Line) /\ Contents[n].lines # <<>>
  BY PagesAssumption
<1>2. Len(Contents[n].lines) \in Nat \ {0} /\ Rows(n) = 1..Len(Contents[n].lines)
  BY <1>1 DEF Rows
<1>3. \A i \in Rows(n) : Contents[n].lines[i] \in Line
  BY <1>1, <1>2
<1>4. IsFiniteSet(Rows(n)) /\ Cardinality(Rows(n)) = Len(Contents[n].lines)
  <2> DEFINE k == Len(Contents[n].lines)
  <2>1. IsFiniteSet(1..k) /\ Cardinality(1..k) = k
    <3>1. k \in Nat \ {0}
      BY <1>2
    <3> HIDE DEF k
    <3> QED
      BY <3>1, FS_Interval
  <2> QED
    BY <1>2, <2>1
<1>5. GrossTotal(n) \in Nat
  <2> DEFINE w == [i \in Rows(n) |-> Contents[n].lines[i].gross]
  <2>1. \A i \in Rows(n) : w[i] \in Nat
    BY <1>3 DEF Line
  <2> HIDE DEF w
  <2>2. SumOver(Rows(n), w) \in Nat
    BY <1>4, <2>1, SumIsNat
  <2> QED
    BY <2>2 DEF GrossTotal, LinesTotal, Rows, w
<1> QED
  BY <1>2, <1>3, <1>4, <1>5, PagesAssumption

\* Every line read is a line, as issued but for what a selector misread of it.
LEMMA LinesAreRead ==
  ASSUME NEW n \in Notes
  PROVE  /\ RowsFound(n) \subseteq Rows(n) /\ IsFiniteSet(RowsFound(n))
         /\ DOMAIN ExtractItems(n) = RowsFound(n)
         /\ \A i \in RowsFound(n) :
              /\ ExtractItems(n)[i] \in Line
              /\ "other code" \notin markup => ExtractItems(n)[i].code = Contents[n].lines[i].code
              /\ "other quantity" \notin markup =>
                   ExtractItems(n)[i].quantity = Contents[n].lines[i].quantity
              /\ "other total" \notin markup => ExtractItems(n)[i].gross = Contents[n].lines[i].gross
<1>1. RowsFound(n) \subseteq Rows(n) /\ IsFiniteSet(RowsFound(n))
  <2>1. RowsFound(n) \subseteq Rows(n)
    BY DEF RowsFound
  <2> QED
    BY <2>1, NoteFacts, FS_Subset
<1>2. ASSUME NEW i \in Rows(n) PROVE Contents[n].lines[i] \in Line /\ Elsewhere[n].lines[i] \in Line
  <2>1. Elsewhere[n].lines \in Seq(Line) /\ Len(Elsewhere[n].lines) = Len(Contents[n].lines)
    BY PagesAssumption
  <2>2. i \in 1..Len(Elsewhere[n].lines)
    BY <2>1, NoteFacts
  <2> QED
    BY <2>1, <2>2, NoteFacts
<1>3. ASSUME NEW i \in RowsFound(n)
      PROVE  /\ ExtractItems(n)[i] \in Line
             /\ "other code" \notin markup => ExtractItems(n)[i].code = Contents[n].lines[i].code
             /\ "other quantity" \notin markup =>
                  ExtractItems(n)[i].quantity = Contents[n].lines[i].quantity
             /\ "other total" \notin markup => ExtractItems(n)[i].gross = Contents[n].lines[i].gross
  <2>1. ExtractItems(n)[i] = LineRead(n, i)
    BY DEF ExtractItems
  <2> DEFINE printed == Contents[n].lines[i]
             there == Elsewhere[n].lines[i]
             code == IF "other code" \in markup THEN there.code ELSE printed.code
             quantity == IF "other quantity" \in markup THEN there.quantity ELSE printed.quantity
             total == IF "other total" \in markup THEN there.gross ELSE printed.gross
  <2>2. printed \in Line /\ there \in Line
    BY <1>1, <1>2
  <2>3. LineRead(n, i) = [code |-> code, quantity |-> quantity, gross |-> total]
    BY DEF LineRead, Found
  <2> HIDE DEF printed, there
  <2>4. code \in Lines /\ quantity \in Nat \ {0} /\ total \in Nat
    BY <2>2 DEF Line
  <2>5. LineRead(n, i) \in Line
    <3> HIDE DEF code, quantity, total
    <3> QED
      BY <2>3, <2>4 DEF Line
  <2>6. LineRead(n, i).code = code /\ LineRead(n, i).quantity = quantity /\ LineRead(n, i).gross = total
    <3> HIDE DEF code, quantity, total
    <3> QED
      BY <2>3
  <2> QED
    BY <2>1, <2>5, <2>6 DEF printed
<1> QED
  BY <1>1, <1>3 DEF ExtractItems

LEMMA TotalsAreRead ==
  ASSUME NEW n \in Notes
  PROVE  /\ NetRead(n) \in Int /\ DiscountRead(n) \in Nat /\ GrossRead(n) \in Int
         /\ "other net" \notin markup => NetRead(n) = GrossTotal(n) - Contents[n].discount
         /\ markup \cap {"other discount", "discount absent"} = {} => DiscountRead(n) = Contents[n].discount
         /\ "other count" \notin markup => CountRead(n) = Len(Contents[n].lines)
<1>1. Elsewhere[n].gross \in Nat /\ Elsewhere[n].discount \in Nat /\ Elsewhere[n].net \in Nat
  BY PagesAssumption
<1>2. NetRead(n) \in Int /\ ("other net" \notin markup => NetRead(n) = GrossTotal(n) - Contents[n].discount)
  <2>1. GrossTotal(n) \in Nat /\ Contents[n].discount \in Nat
    BY NoteFacts
  <2>2. "other net" \in markup => NetRead(n) = Elsewhere[n].net
    BY DEF NetRead, Found
  <2>3. "other net" \notin markup => NetRead(n) = GrossTotal(n) - Contents[n].discount
    BY DEF NetRead, Found, NetTotal
  <2>4. GrossTotal(n) - Contents[n].discount \in Int /\ Elsewhere[n].net \in Int
    BY <1>1, <2>1
  <2> QED
    BY <2>2, <2>3, <2>4
<1>3. DiscountRead(n) \in Nat
  BY <1>1, NoteFacts DEF DiscountRead, Found
<1>4. markup \cap {"other discount", "discount absent"} = {} => DiscountRead(n) = Contents[n].discount
  BY DEF DiscountRead, Found, Absent, Printed
<1>5. GrossRead(n) \in Int
  <2>1. NetRead(n) \in Int
    BY <1>2
  <2>2. NetRead(n) + DiscountRead(n) \in Int
    BY <1>3, <2>1
  <2>3. GrossTotal(n) \in Nat
    BY NoteFacts
  <2>4. GrossTotal(n) \in Int /\ Elsewhere[n].gross \in Int
    BY <1>1, <2>3
  <2> QED
    BY <2>2, <2>4 DEF GrossRead, Found
<1> QED
  BY <1>2, <1>3, <1>4, <1>5 DEF CountRead, Found

LEMMA LinesAddUp ==
  ASSUME NEW n \in Notes, RowsFound(n) = Rows(n), "other total" \notin markup
  PROVE  LinesTotal(ExtractItems(n)) = GrossTotal(n)
<1> DEFINE read == [i \in Rows(n) |-> ExtractItems(n)[i].gross]
           printed == [i \in Rows(n) |-> Contents[n].lines[i].gross]
<1>1. read = printed
  <2>1. \A i \in Rows(n) : ExtractItems(n)[i].gross = Contents[n].lines[i].gross
    BY LinesAreRead
  <2> QED
    BY <2>1
<1>2. LinesTotal(ExtractItems(n)) = SumOver(Rows(n), read)
  <2>1. DOMAIN ExtractItems(n) = Rows(n)
    BY LinesAreRead
  <2> QED
    BY <2>1 DEF LinesTotal
<1>3. GrossTotal(n) = SumOver(Rows(n), printed)
  BY DEF GrossTotal, LinesTotal, Rows
<1> QED
  BY <1>1, <1>2, <1>3

\* What is read as a note closes, and where its count was read it has every row.
LEMMA ReadCloses ==
  ASSUME NEW n \in Notes, FetchInvoice(n).outcome = "read"
  PROVE  /\ FetchInvoice(n).invoice.lines = ExtractItems(n)
         /\ FetchInvoice(n).invoice.grossTotal = GrossRead(n)
         /\ FetchInvoice(n).invoice.discountTotal = DiscountRead(n)
         /\ "other count" \notin markup => RowsFound(n) = Rows(n)
         /\ TotalsClose(n)
<1> DEFINE heading == Found("other heading", Contents[n].merchant, Elsewhere[n].merchant)
           invoice == [heading |-> heading, lines |-> ExtractItems(n),
                       grossTotal |-> GrossRead(n), discountTotal |-> DiscountRead(n)]
<1>1. /\ Cardinality(RowsFound(n)) = CountRead(n) /\ TotalsClose(n)
      /\ FetchInvoice(n) = Read(invoice)
  BY DEF FetchInvoice, Parse, Unavailable, StructureChanged, Read
<1>2. "other count" \notin markup => RowsFound(n) = Rows(n)
  <2> SUFFICES ASSUME "other count" \notin markup PROVE RowsFound(n) = Rows(n)
    OBVIOUS
  <2>1. CountRead(n) = Len(Contents[n].lines)
    BY TotalsAreRead
  <2>2. Cardinality(RowsFound(n)) = Cardinality(Rows(n))
    BY <1>1, <2>1, NoteFacts
  <2>3. RowsFound(n) \subseteq Rows(n) /\ IsFiniteSet(Rows(n))
    BY LinesAreRead, NoteFacts
  <2> QED
    BY <2>2, <2>3, FS_Subset
<1> HIDE DEF heading
<1>3. FetchInvoice(n).invoice = invoice
  <2> HIDE DEF invoice
  <2> QED
    BY <1>1 DEF Read
<1>4. /\ invoice.lines = ExtractItems(n) /\ invoice.grossTotal = GrossRead(n)
      /\ invoice.discountTotal = DiscountRead(n)
  OBVIOUS
<1> HIDE DEF invoice
<1> QED
  BY <1>1, <1>2, <1>3, <1>4

\* A page that is up, whole and as it was is read as it was pinned.
LEMMA UntouchedIsRead ==
  ASSUME NEW n \in Notes,
         portal # "down", n \notin expired, markup = {}, missed = {}
  PROVE  ReadsRight(n)
<1>1. RowsFound(n) = Rows(n) /\ RowsFound(n) # {}
  <2>1. 1 \in Rows(n)
    BY NoteFacts
  <2> QED
    BY <2>1 DEF RowsFound
<1>2. Legible(n)
  BY DEF Legible
<1>3. /\ CountRead(n) = Len(Contents[n].lines) /\ DiscountRead(n) = Contents[n].discount
      /\ NetRead(n) = GrossTotal(n) - Contents[n].discount
      /\ LinesTotal(ExtractItems(n)) = GrossTotal(n)
  BY <1>1, TotalsAreRead, LinesAddUp
<1>4. GrossRead(n) = GrossTotal(n)
  BY <1>3, NoteFacts DEF GrossRead, Found
<1>5. TotalsClose(n)
  BY <1>3, <1>4 DEF TotalsClose
<1> DEFINE heading == Found("other heading", Contents[n].merchant, Elsewhere[n].merchant)
           invoice == [heading |-> heading, lines |-> ExtractItems(n),
                       grossTotal |-> GrossRead(n), discountTotal |-> DiscountRead(n)]
<1>6. FetchInvoice(n) = Read(invoice)
  BY <1>1, <1>2, <1>3, <1>5, NoteFacts DEF FetchInvoice, Parse
<1>7. heading = Contents[n].merchant
  BY DEF Found
<1>8. Matches(n, invoice)
  <2>1. Cardinality(DOMAIN ExtractItems(n)) = Len(Contents[n].lines)
    BY <1>1, LinesAreRead, NoteFacts
  <2> QED
    BY <1>4, <1>7, <2>1 DEF Matches
<1> QED
  <2> HIDE DEF invoice
  <2> QED
    BY <1>6, <1>8 DEF ReadsRight, Read

\* What a check says of its note and of what may be wrong with it.
LEMMA CheckTells ==
  ASSUME NEW n \in Watched, n \in Notes
  PROVE  /\ Check(n) \in Verdicts
         /\ Check(n) = "MATCHED" <=> ReadsRight(n)
         /\ Check(n) = "UNREACHABLE" => "portal" \in Causes
         /\ Check(n) \in {"STRUCTURE_CHANGED", "DIVERGED"} => Causes \cap {"markup", "age"} # {}
<1>1. FetchInvoice(n).outcome \in {"unavailable", "changed", "read"}
  BY DEF FetchInvoice, Parse, Unavailable, StructureChanged, Read
<1>2. Check(n) = "MATCHED" <=> ReadsRight(n)
  BY <1>1 DEF Check, ReadsRight
<1>3. ASSUME Check(n) = "UNREACHABLE" PROVE "portal" \in Causes
  <2>1. FetchInvoice(n).outcome = "unavailable"
    BY <1>1, <1>3 DEF Check
  <2>2. portal = "down"
    BY <2>1 DEF FetchInvoice, Parse, StructureChanged, Read
  <2> QED
    BY <2>2 DEF Causes
<1>4. ASSUME Check(n) \in {"STRUCTURE_CHANGED", "DIVERGED"}
      PROVE  Causes \cap {"markup", "age"} # {}
  <2>1. ~ ReadsRight(n) /\ FetchInvoice(n).outcome # "unavailable"
    BY <1>2, <1>4 DEF Check
  <2>2. portal # "down"
    BY <2>1 DEF FetchInvoice, Unavailable
  <2>3. n \in expired \/ markup # {} \/ missed # {}
    BY <2>1, <2>2, UntouchedIsRead
  <2> QED
    BY <2>3 DEF Causes
<1>5. Check(n) \in Verdicts
  BY <1>1 DEF Check, Verdicts
<1> QED
  BY <1>2, <1>3, <1>4, <1>5

-----------------------------------------------------------------------------
(* InvoicePages: the canary.                                               *)

Views == [always : SUBSET Notes, ever : SUBSET Notes, causes : SUBSET {"portal", "markup", "age"}]

PagesTyped ==
  /\ canary \in [running : BOOLEAN, checks : Seq(Verdicts)]
  /\ seen \in Views
  /\ last \in [ended : BOOLEAN, alerted : BOOLEAN, subject : {"extraction", "unread"}, seen : Views]

\* What a verdict on n shows of what went on since the run began.
Shown(verdict, n) ==
  /\ verdict = "MATCHED" => n \in seen.ever
  /\ verdict # "MATCHED" => n \notin seen.always
  /\ verdict = "UNREACHABLE" => "portal" \in seen.causes
  /\ verdict \in {"STRUCTURE_CHANGED", "DIVERGED"} => seen.causes \cap {"markup", "age"} # {}

\* A run has seen what is wrong now, and which notes read right now; and each
\* of its verdicts was true of some moment of it.
RunSees ==
  canary.running =>
    /\ Targets # <<>> /\ Len(canary.checks) <= Len(Targets)
    /\ Causes \subseteq seen.causes
    /\ seen.always \subseteq {n \in Watched : ReadsRight(n)}
    /\ {n \in Watched : ReadsRight(n)} \subseteq seen.ever
    /\ \A i \in 1..Len(canary.checks) : Shown(canary.checks[i], Targets[i])

PagesInv == PagesTyped /\ RunSees /\ AlertsAreTrue

LEMMA CausesAreKnown == Causes \subseteq {"portal", "markup", "age"}
BY DEF Causes

LEMMA WatchedAreNotes ==
  /\ Watched \subseteq Notes
  /\ \A i \in 1..Len(Targets) : Targets[i] \in Watched
  /\ Len(Targets) \in Nat
  /\ \A n \in Watched : \E i \in 1..Len(Targets) : Targets[i] = n
BY TargetsAreNotes DEF Watched

\* A step that leaves the portal alone changes nothing of what is read.
LEMMA SamePortal ==
  ASSUME UNCHANGED portalVars
  PROVE  Causes' = Causes /\ \A n : ReadsRight(n)' = ReadsRight(n)
<1>1. \A n : /\ ExtractItems(n)' = ExtractItems(n) /\ RowsFound(n)' = RowsFound(n)
             /\ NetRead(n)' = NetRead(n) /\ DiscountRead(n)' = DiscountRead(n)
             /\ CountRead(n)' = CountRead(n) /\ GrossRead(n)' = GrossRead(n)
  BY DEF portalVars, ExtractItems, RowsFound, LineRead, CountRead, NetRead, DiscountRead, GrossRead,
         Found, Absent, Printed, NetTotal, GrossTotal, LinesTotal, Rows
<1>2. \A n : FetchInvoice(n)' = FetchInvoice(n)
  BY <1>1 DEF portalVars, FetchInvoice, Parse, Legible, TotalsClose, LinesTotal, Found, Absent, Printed
<1> QED
  BY <1>2 DEF portalVars, Causes, ReadsRight, Matches, GrossTotal, LinesTotal, Watched

LEMMA StartKeeps == ASSUME PagesInv, StartRun PROVE PagesInv'
<1>1. Causes' = Causes /\ \A n : ReadsRight(n)' = ReadsRight(n)
  BY SamePortal DEF StartRun
<1> DEFINE right == {n \in Watched : ReadsRight(n)}
<1>2. /\ canary' = [running |-> TRUE, checks |-> <<>>] /\ Targets # <<>> /\ last' = last
      /\ seen' = [always |-> right, ever |-> right, causes |-> Causes]
  BY DEF StartRun
<1>3. PagesTyped'
  BY <1>2, CausesAreKnown, WatchedAreNotes DEF PagesInv, PagesTyped, Views
<1>4. RunSees'
  <2>1. Len(canary'.checks) = 0 /\ Len(canary'.checks) <= Len(Targets)
    BY <1>2, WatchedAreNotes
  <2>2. right = {n \in Watched : ReadsRight(n)'}
    BY <1>1
  <2> HIDE DEF right
  <2> QED
    BY <1>1, <1>2, <2>1, <2>2 DEF RunSees
<1>5. AlertsAreTrue'
  BY <1>2 DEF PagesInv, AlertsAreTrue
<1> QED
  BY <1>3, <1>4, <1>5 DEF PagesInv

LEMMA CheckKeeps == ASSUME PagesInv, CheckNext PROVE PagesInv'
<1>1. Causes' = Causes /\ \A n : ReadsRight(n)' = ReadsRight(n)
  BY SamePortal DEF CheckNext
<1> DEFINE k == Len(canary.checks)
           n == Targets[k + 1]
<1>2. /\ canary.running /\ k < Len(Targets) /\ seen' = seen /\ last' = last
      /\ canary' = [canary EXCEPT !.checks = Append(canary.checks, Check(n))]
  BY DEF CheckNext
<1>3. k \in Nat /\ canary.checks \in Seq(Verdicts) /\ n \in Watched /\ n \in Notes
  BY <1>2, WatchedAreNotes DEF PagesInv, PagesTyped
<1>4. Check(n) \in Verdicts
  BY <1>3, CheckTells
<1>5. /\ canary'.running = canary.running /\ canary'.checks = Append(canary.checks, Check(n))
      /\ canary' \in [running : BOOLEAN, checks : Seq(Verdicts)]
  <2> DEFINE checks == Append(canary.checks, Check(n))
  <2>1. checks \in Seq(Verdicts) /\ canary' = [canary EXCEPT !.checks = checks]
    BY <1>2, <1>3, <1>4
  <2> HIDE DEF checks, n, k
  <2>2. canary'.running = canary.running /\ canary'.checks = checks
        /\ canary' \in [running : BOOLEAN, checks : Seq(Verdicts)]
    BY <2>1 DEF PagesInv, PagesTyped
  <2> QED
    BY <2>2 DEF checks
<1>6. PagesTyped'
  BY <1>2, <1>5 DEF PagesInv, PagesTyped
<1>7. Shown(Check(n), n)
  BY <1>2, <1>3, CheckTells DEF PagesInv, RunSees, Shown
<1>8. RunSees'
  <2>1. Len(canary'.checks) = k + 1 /\ canary'.checks[k + 1] = Check(n)
        /\ \A i \in 1..k : canary'.checks[i] = canary.checks[i]
    BY <1>3, <1>4, <1>5
  <2>2. \A i \in 1..Len(canary'.checks) : Shown(canary'.checks[i], Targets[i])
    <3>1. \A i \in 1..k : Shown(canary.checks[i], Targets[i])
      BY <1>2 DEF PagesInv, RunSees
    <3>2. \A i \in 1..(k + 1) : i \in 1..k \/ i = k + 1
      BY <1>3
    <3> HIDE DEF k
    <3> QED
      BY <1>7, <2>1, <3>1, <3>2
  <2>3. \A i \in 1..Len(canary'.checks) : Shown(canary.checks[i], Targets[i])' 
    BY <1>2, <2>2 DEF Shown
  <2> QED
    BY <1>1, <1>2, <1>3, <1>5, <2>1, <2>3, WatchedAreNotes DEF PagesInv, RunSees
<1>9. AlertsAreTrue'
  BY <1>2 DEF PagesInv, AlertsAreTrue
<1> QED
  BY <1>6, <1>8, <1>9 DEF PagesInv

LEMMA ReportKeeps == ASSUME PagesInv, Report PROVE PagesInv'
<1>1. /\ canary.running /\ Len(canary.checks) = Len(Targets) /\ canary' = NotRunning
      /\ last' = [ended |-> TRUE, alerted |-> Alerts(canary.checks),
                  subject |-> Subject(canary.checks), seen |-> seen]
      /\ seen' = NothingSeen
  BY DEF Report
<1>2. canary.checks \in Seq(Verdicts) /\ DOMAIN canary.checks = 1..Len(canary.checks)
      /\ \A i \in 1..Len(canary.checks) : canary.checks[i] \in Verdicts
  BY DEF PagesInv, PagesTyped
<1>3. /\ Len(Targets) \in Nat \ {0} /\ seen.always \subseteq Watched
      /\ \A i \in 1..Len(Targets) : Shown(canary.checks[i], Targets[i])
  BY <1>1, WatchedAreNotes, TargetsAreNotes DEF PagesInv, RunSees
<1>4. PagesTyped'
  <2>1. Alerts(canary.checks) \in BOOLEAN /\ Subject(canary.checks) \in {"extraction", "unread"}
    BY DEF Alerts, Subject
  <2>2. NothingSeen \in Views /\ NotRunning \in [running : BOOLEAN, checks : Seq(Verdicts)]
    BY DEF NothingSeen, NotRunning, Views
  <2>3. seen \in Views
    BY DEF PagesInv, PagesTyped
  <2>4. last' \in [ended : BOOLEAN, alerted : BOOLEAN, subject : {"extraction", "unread"}, seen : Views]
    BY <1>1, <2>1, <2>3
  <2> QED
    BY <1>1, <2>2, <2>4 DEF PagesTyped
<1>5. RunSees'
  BY <1>1 DEF RunSees, NotRunning
<1>6. CASE Alerts(canary.checks)
  <2>1. \A i \in 1..Len(Targets) : canary.checks[i] # "MATCHED"
    BY <1>1, <1>2, <1>6 DEF Alerts
  <2>2. seen.always = {}
    BY <1>3, <2>1, WatchedAreNotes DEF Shown
  <2>3. ASSUME Subject(canary.checks) = "unread" PROVE "portal" \in seen.causes
    <3>1. canary.checks[1] = "UNREACHABLE"
      BY <1>1, <1>2, <1>3, <2>3 DEF Subject
    <3> QED
      BY <1>3, <3>1 DEF Shown
  <2>4. ASSUME seen.causes = {"portal"} PROVE Subject(canary.checks) = "unread"
    <3>1. \A i \in 1..Len(Targets) : canary.checks[i] = "UNREACHABLE"
      BY <1>1, <1>2, <1>3, <2>1, <2>4 DEF Shown, Verdicts
    <3> QED
      BY <1>1, <1>2, <3>1 DEF Subject
  <2>5. last'.alerted /\ last'.seen = seen /\ last'.subject = Subject(canary.checks)
    BY <1>1, <1>6
  <2>6. AlertsAreTrue'
    BY <2>2, <2>3, <2>4, <2>5 DEF AlertsAreTrue
  <2> QED
    BY <1>4, <1>5, <2>6 DEF PagesInv
<1>7. CASE ~ Alerts(canary.checks)
  <2>1. PICK i \in 1..Len(Targets) : canary.checks[i] = "MATCHED"
    BY <1>1, <1>2, <1>7 DEF Alerts
  <2>2. seen.ever # {}
    BY <1>3, <2>1 DEF Shown
  <2>3. last'.alerted = FALSE /\ last'.seen = seen
    BY <1>1, <1>7
  <2>4. AlertsAreTrue'
    BY <2>2, <2>3 DEF AlertsAreTrue
  <2> QED
    BY <1>4, <1>5, <2>4 DEF PagesInv
<1> QED
  BY <1>6, <1>7

\* Whatever happens to the portal, the run has seen it.
LEMMA NoticeKeeps ==
  ASSUME PagesInv, Notice, UNCHANGED <<canary, last>>
  PROVE  PagesInv'
<1> DEFINE right == {n \in Watched : ReadsRight(n)'}
<1>1. seen' = IF canary.running
                THEN [always |-> seen.always \cap right, ever |-> seen.ever \cup right,
                      causes |-> seen.causes \cup Causes']
                ELSE seen
  BY DEF Notice
<1>2. right \subseteq Notes /\ Causes' \subseteq {"portal", "markup", "age"}
  <2>1. Causes' \subseteq {"portal", "markup", "age"}
    BY DEF Causes
  <2> QED
    BY <2>1, WatchedAreNotes
<1>3. PagesTyped'
  <2>1. seen \in Views /\ seen' \in Views
    <3> HIDE DEF right
    <3> QED
      BY <1>1, <1>2 DEF PagesInv, PagesTyped, Views
  <2> QED
    BY <2>1 DEF PagesInv, PagesTyped
<1>4. AlertsAreTrue'
  BY DEF PagesInv, AlertsAreTrue
<1>5. ASSUME canary.running PROVE RunSees'
  <2>1. /\ seen'.always = seen.always \cap right /\ seen'.ever = seen.ever \cup right
        /\ seen'.causes = seen.causes \cup Causes'
    <3> HIDE DEF right
    <3> QED
      BY <1>1, <1>5
  <2>2. \A i \in 1..Len(canary.checks) : Shown(canary.checks[i], Targets[i])
    BY <1>5 DEF PagesInv, RunSees
  <2>3. \A i \in 1..Len(canary.checks) : Shown(canary.checks[i], Targets[i])'
    <3> HIDE DEF right
    <3> QED
      BY <2>1, <2>2 DEF Shown
  <2>4. right = {n \in Watched : ReadsRight(n)}'
    BY DEF Watched
  <2>5. Targets # <<>> /\ Len(canary.checks) <= Len(Targets)
    BY <1>5 DEF PagesInv, RunSees
  <2> HIDE DEF right
  <2> QED
    BY <2>1, <2>3, <2>4, <2>5 DEF RunSees
<1>6. ASSUME ~ canary.running PROVE RunSees'
  BY <1>6 DEF RunSees
<1> QED
  BY <1>3, <1>4, <1>5, <1>6 DEF PagesInv

\* A step that leaves the portal and the canary alone.
LEMMA AsideKeeps == ASSUME PagesInv, UNCHANGED <<portalVars, canary, last, seen>> PROVE PagesInv'
<1>1. Causes' = Causes /\ \A n : ReadsRight(n)' = ReadsRight(n)
  BY SamePortal
<1>2. PagesTyped' /\ AlertsAreTrue'
  BY DEF PagesInv, PagesTyped, AlertsAreTrue
<1>3. RunSees'
  <2>1. {n \in Watched : ReadsRight(n)}' = {n \in Watched : ReadsRight(n)}
    BY <1>1 DEF Watched
  <2>2. \A i \in 1..Len(canary.checks) : Shown(canary.checks[i], Targets[i])' = Shown(canary.checks[i], Targets[i])
    BY DEF Shown
  <2> QED
    BY <1>1, <2>1, <2>2 DEF PagesInv, RunSees
<1> QED
  BY <1>2, <1>3 DEF PagesInv

LEMMA CrashKeepsPages == ASSUME PagesInv, Crash PROVE PagesInv'
<1>1. canary' = NotRunning /\ seen' = NothingSeen /\ last' = last
  BY DEF Crash
<1>2. NothingSeen \in Views /\ NotRunning \in [running : BOOLEAN, checks : Seq(Verdicts)]
  BY DEF NothingSeen, NotRunning, Views
<1>3. PagesTyped'
  BY <1>1, <1>2 DEF PagesInv, PagesTyped
<1>4. RunSees' /\ AlertsAreTrue'
  BY <1>1 DEF PagesInv, RunSees, NotRunning, AlertsAreTrue
<1> QED
  BY <1>3, <1>4 DEF PagesInv

LEMMA InitPages == PagesInit => PagesInv
<1> SUFFICES ASSUME PagesInit PROVE PagesInv
  OBVIOUS
<1>1. NothingSeen \in Views /\ NotRunning \in [running : BOOLEAN, checks : Seq(Verdicts)]
  BY DEF NothingSeen, NotRunning, Views
<1> QED
  BY <1>1 DEF PagesInit, PagesInv, PagesTyped, RunSees, AlertsAreTrue, NotRunning

LEMMA StepPages == ASSUME PagesInv, [PagesNext]_pagesVars PROVE PagesInv'
<1>1. ASSUME NEW n \in Notes, Import(n) PROVE PagesInv'
  BY <1>1, AsideKeeps DEF Import
<1>2. ASSUME NEW n \in Notes, NoteExpires(n) PROVE PagesInv'
  BY <1>2, NoticeKeeps DEF NoteExpires, Happens
<1>3. ASSUME PortalGoes PROVE PagesInv'
  BY <1>3, NoticeKeeps DEF PortalGoes, Happens
<1>4. ASSUME PageChanges PROVE PagesInv'
  BY <1>4, NoticeKeeps DEF PageChanges, Happens
<1>5. CASE UNCHANGED pagesVars
  BY <1>5, AsideKeeps DEF pagesVars
<1> QED
  BY <1>1, <1>2, <1>3, <1>4, <1>5, StartKeeps, CheckKeeps, ReportKeeps, CrashKeepsPages DEF PagesNext

(***************************************************************************)
(* Every alert of the canary is true, and so is its silence, for any notes *)
(* and any changes of the portal during a run.                             *)
(***************************************************************************)
THEOREM CanaryTellsTheTruth == PagesSpec => []AlertsAreTrue
<1>1. PagesInv => AlertsAreTrue
  BY DEF PagesInv
<1>2. PagesInv /\ [PagesNext]_pagesVars => PagesInv'
  BY StepPages
<1> QED
  BY <1>1, <1>2, InitPages, PTL DEF PagesSpec

-----------------------------------------------------------------------------
(* InvoicePages: the purchase built of a note.                             *)

\* The lines read at some of the rows of a note.
IsReading(n, read) ==
  /\ DOMAIN read \subseteq Rows(n) /\ IsFiniteSet(DOMAIN read)
  /\ \A j \in DOMAIN read : read[j] \in Line

CodesUpTo(read, i) == {read[j].code : j \in DOMAIN read \cap (1..i)}
RowsOf(read, i, c) == {j \in DOMAIN read \cap (1..i) : read[j].code = c}
Quantities(read) == [j \in DOMAIN read |-> read[j].quantity]
Grosses(read) == [j \in DOMAIN read |-> read[j].gross]

\* The lines folded up to the i-th: each product with all its rows so far.
Folded(read, i) ==
  [c \in CodesUpTo(read, i) |->
     [quantity |-> SumOver(RowsOf(read, i, c), Quantities(read)),
      gross |-> SumOver(RowsOf(read, i, c), Grosses(read))]]

LEMMA RowFacts ==
  ASSUME NEW n \in Notes, NEW read, IsReading(n, read)
  PROVE  /\ \A j \in DOMAIN read : Quantities(read)[j] \in Nat /\ Grosses(read)[j] \in Nat
         /\ \A j \in DOMAIN read : read[j].code \in Lines
         /\ \A c, i : RowsOf(read, i, c) \subseteq DOMAIN read /\ IsFiniteSet(RowsOf(read, i, c))
<1>1. \A j \in DOMAIN read : read[j] \in Line
  BY DEF IsReading
<1>2. \A c, i : RowsOf(read, i, c) \subseteq DOMAIN read
  BY DEF RowsOf
<1> QED
  BY <1>1, <1>2, FS_Subset DEF Line, Quantities, Grosses, IsReading

\* One row more of a product adds its amount; the sums of the others stay.
LEMMA OneRowMore ==
  ASSUME NEW n \in Notes, NEW read, IsReading(n, read), NEW i \in DOMAIN read, NEW c, NEW w,
         \A j \in DOMAIN read : w[j] \in Nat
  PROVE  /\ read[i].code # c =>
              SumOver(RowsOf(read, i, c), w) = SumOver(RowsOf(read, i - 1, c), w)
         /\ read[i].code = c =>
              SumOver(RowsOf(read, i, c), w) = SumOver(RowsOf(read, i - 1, c), w) + w[i]
         /\ SumOver(RowsOf(read, i - 1, c), w) \in Nat
         /\ c \notin CodesUpTo(read, i - 1) => SumOver(RowsOf(read, i - 1, c), w) = 0
<1>1. i \in Nat \ {0} /\ DOMAIN read \subseteq Nat \ {0}
  BY NoteFacts DEF IsReading
<1>2. IsFiniteSet(RowsOf(read, i, c)) /\ IsFiniteSet(RowsOf(read, i - 1, c))
      /\ RowsOf(read, i, c) \subseteq DOMAIN read /\ RowsOf(read, i - 1, c) \subseteq DOMAIN read
  BY RowFacts
<1>3. read[i].code # c => RowsOf(read, i, c) = RowsOf(read, i - 1, c)
  BY <1>1 DEF RowsOf
<1>4. read[i].code = c => i \in RowsOf(read, i, c) /\ RowsOf(read, i, c) \ {i} = RowsOf(read, i - 1, c)
  BY <1>1 DEF RowsOf
<1>5. read[i].code = c =>
        SumOver(RowsOf(read, i, c), w) = SumOver(RowsOf(read, i - 1, c), w) + w[i]
  <2> SUFFICES ASSUME read[i].code = c
               PROVE  SumOver(RowsOf(read, i, c), w) = SumOver(RowsOf(read, i - 1, c), w) + w[i]
    OBVIOUS
  <2>1. \A j \in RowsOf(read, i, c) : w[j] \in Nat
    BY <1>2
  <2>2. SumOver(RowsOf(read, i, c), w) = SumOver(RowsOf(read, i, c) \ {i}, w) + w[i]
    BY <1>2, <1>4, <2>1, SumSplit
  <2> QED
    BY <1>4, <2>2
<1>6. SumOver(RowsOf(read, i - 1, c), w) \in Nat
  <2>1. \A j \in RowsOf(read, i - 1, c) : w[j] \in Nat
    BY <1>2
  <2> QED
    BY <1>2, <2>1, SumIsNat
<1>7. c \notin CodesUpTo(read, i - 1) => SumOver(RowsOf(read, i - 1, c), w) = 0
  <2> SUFFICES ASSUME c \notin CodesUpTo(read, i - 1)
               PROVE  SumOver(RowsOf(read, i - 1, c), w) = 0
    OBVIOUS
  <2>1. RowsOf(read, i - 1, c) = {}
    BY DEF RowsOf, CodesUpTo
  <2>2. \A j \in RowsOf(read, i - 1, c) : w[j] = 0
    BY <2>1
  <2> QED
    BY <2>2, SumOfZeros
<1> QED
  BY <1>3, <1>5, <1>6, <1>7

LEMMA FoldAddsARow ==
  ASSUME NEW n \in Notes, NEW read, IsReading(n, read), NEW i \in DOMAIN read
  PROVE  Folded(read, i) = Fold(Folded(read, i - 1), read[i])
<1> DEFINE row == read[i]
           before == Folded(read, i - 1)
           codes == CodesUpTo(read, i - 1)
           Of(j, c) == [quantity |-> SumOver(RowsOf(read, j, c), Quantities(read)),
                        gross |-> SumOver(RowsOf(read, j, c), Grosses(read))]
<1>1. Quantities(read)[i] = row.quantity /\ Grosses(read)[i] = row.gross
      /\ row.quantity \in Nat /\ row.gross \in Nat
  BY RowFacts DEF Quantities, Grosses
<1>2. CodesUpTo(read, i) = codes \cup {row.code}
  <2>1. \A j \in DOMAIN read : j \in 1..i <=> j \in 1..(i - 1) \/ j = i
    BY NoteFacts DEF IsReading
  <2> QED
    BY <2>1 DEF CodesUpTo
<1>3. DOMAIN before = codes /\ \A c \in codes : before[c] = Of(i - 1, c)
  BY DEF Folded
<1>4. \A c : /\ c # row.code => Of(i, c) = Of(i - 1, c)
             /\ c = row.code => /\ SumOver(RowsOf(read, i, c), Quantities(read))
                                      = SumOver(RowsOf(read, i - 1, c), Quantities(read)) + row.quantity
                                 /\ SumOver(RowsOf(read, i, c), Grosses(read))
                                      = SumOver(RowsOf(read, i - 1, c), Grosses(read)) + row.gross
             /\ c \notin codes => /\ SumOver(RowsOf(read, i - 1, c), Quantities(read)) = 0
                                  /\ SumOver(RowsOf(read, i - 1, c), Grosses(read)) = 0
  BY <1>1, RowFacts, OneRowMore
<1>5. Fold(before, row)
        = [c \in codes \cup {row.code} |->
             IF c # row.code THEN before[c]
             ELSE IF c \notin codes THEN [quantity |-> row.quantity, gross |-> row.gross]
             ELSE [quantity |-> before[c].quantity + row.quantity,
                   gross |-> before[c].gross + row.gross]]
  BY <1>3 DEF Fold
<1>6. ASSUME NEW c \in codes \cup {row.code}
      PROVE  Of(i, c) = IF c # row.code THEN before[c]
                        ELSE IF c \notin codes THEN [quantity |-> row.quantity, gross |-> row.gross]
                        ELSE [quantity |-> before[c].quantity + row.quantity,
                              gross |-> before[c].gross + row.gross]
  <2> DEFINE q == SumOver(RowsOf(read, i - 1, c), Quantities(read))
             g == SumOver(RowsOf(read, i - 1, c), Grosses(read))
  <2>1. c # row.code => Of(i, c) = [quantity |-> q, gross |-> g]
    BY <1>4
  <2>2. c = row.code => Of(i, c) = [quantity |-> q + row.quantity, gross |-> g + row.gross]
    BY <1>4
  <2>3. c \in codes => before[c] = [quantity |-> q, gross |-> g]
    BY <1>3
  <2>4. c \notin codes => q = 0 /\ g = 0
    BY <1>4
  <2>5. row.quantity \in Nat /\ row.gross \in Nat
    BY <1>1
  <2> HIDE DEF q, g, Of, before, row, codes
  <2>6. CASE c # row.code
    <3>1. c \in codes
      BY <2>6
    <3> QED
      BY <2>1, <2>3, <2>6, <3>1
  <2>7. CASE c = row.code /\ c \notin codes
    <3>1. q + row.quantity = row.quantity /\ g + row.gross = row.gross
      BY <2>4, <2>5, <2>7
    <3> QED
      BY <2>2, <2>7, <3>1
  <2>8. CASE c = row.code /\ c \in codes
    <3>1. before[c].quantity = q /\ before[c].gross = g
      BY <2>3, <2>8
    <3> QED
      BY <2>2, <2>8, <3>1
  <2> QED
    BY <2>6, <2>7, <2>8
<1>7. Folded(read, i) = [c \in codes \cup {row.code} |-> Of(i, c)]
  BY <1>2 DEF Folded
<1> HIDE DEF codes, Of, before, row
<1> QED
  BY <1>5, <1>6, <1>7 DEF before, row

LEMMA FoldSkipsARow ==
  ASSUME NEW n \in Notes, NEW read, IsReading(n, read),
         NEW i \in 1..Len(Contents[n].lines), i \notin DOMAIN read
  PROVE  Folded(read, i) = Folded(read, i - 1)
<1>1. DOMAIN read \cap (1..i) = DOMAIN read \cap (1..(i - 1))
  BY NoteFacts DEF IsReading
<1> QED
  BY <1>1 DEF Folded, CodesUpTo, RowsOf

\* Folding the rows read of a note, all of them, sums each product.
LEMMA FoldSums ==
  ASSUME NEW n \in Notes, NEW read, IsReading(n, read)
  PROVE  AggregateInvoiceItems(n, read) = Folded(read, Len(Contents[n].lines))
<1> DEFINE k == Len(Contents[n].lines)
           Loop(f) == [i \in 0..k |-> IF i = 0 THEN <<>>
                                     ELSE IF i \in DOMAIN read THEN Fold(f[i - 1], read[i])
                                     ELSE f[i - 1]]
           f == [i \in 0..k |-> Folded(read, i)]
<1>1. k \in Nat /\ Rows(n) = 1..k
  BY NoteFacts
<1>2. Folded(read, 0) = <<>>
  BY DEF Folded, CodesUpTo
<1>3. \A i \in 1..k : Folded(read, i) = IF i \in DOMAIN read THEN Fold(Folded(read, i - 1), read[i])
                                        ELSE Folded(read, i - 1)
  BY FoldAddsARow, FoldSkipsARow
<1>4. f = Loop(f)
  <2>1. ASSUME NEW i \in 0..k PROVE f[i] = Loop(f)[i]
    <3>1. CASE i = 0
      BY <1>2, <3>1
    <3>2. CASE i # 0
      <4>1. i \in 1..k /\ i - 1 \in 0..k
        BY <1>1, <3>2
      <4>2. f[i] = Folded(read, i) /\ f[i - 1] = Folded(read, i - 1)
        BY <4>1
      <4> HIDE DEF f, k
      <4> QED
        BY <1>1, <1>3, <3>2, <4>1, <4>2
    <3> QED
      BY <3>1, <3>2
  <2>2. f = [i \in 0..k |-> f[i]]
    OBVIOUS
  <2>3. Loop(f) = [i \in 0..k |-> Loop(f)[i]]
    OBVIOUS
  <2> HIDE DEF f, Loop, k
  <2> QED
    BY <2>1, <2>2, <2>3
<1> HIDE DEF f
<1> DEFINE folded == CHOOSE folded : folded = Loop(folded)
<1>5. folded = Loop(folded)
  BY <1>4
<1>6. AggregateInvoiceItems(n, read) = folded[k]
  BY DEF AggregateInvoiceItems
<1> HIDE DEF folded
<1> DEFINE held == {i \in 0..k : folded[i] = Folded(read, i)}
<1>7. 0 \in held
  <2>1. folded[0] = <<>>
    <3>1. folded[0] = Loop(folded)[0]
      BY <1>5
    <3> QED
      BY <1>1, <3>1
  <2> QED
    BY <1>1, <1>2, <2>1
<1>8. ASSUME NEW i \in 1..k, i - 1 \in held PROVE i \in held
  <2>1. folded[i] = IF i \in DOMAIN read THEN Fold(folded[i - 1], read[i]) ELSE folded[i - 1]
    <3>1. folded[i] = Loop(folded)[i]
      BY <1>5
    <3> QED
      BY <1>1, <3>1
  <2>2. folded[i - 1] = Folded(read, i - 1)
    BY <1>8
  <2> QED
    BY <1>1, <1>3, <2>1, <2>2
<1>9. \A i \in 0..k : i \in held
  <2> HIDE DEF held, k
  <2> QED
    BY <1>1, <1>7, <1>8, CountingUp
<1>10. k \in held
  BY <1>1, <1>9
<1> QED
  BY <1>6, <1>10

\* A purchase of a note read under some faults says what was issued of what
\* they left alone.
ClosesOverItsLines(p) ==
  /\ SumOver(p.lines, p.gross) = p.grossTotal
  /\ SumOver(p.lines, p.allocated) = p.discountTotal
  /\ \A c \in p.lines : p.allocated[c] <= p.gross[c]
HoldsTotals(p, n) == p.grossTotal = GrossTotal(n) /\ p.discountTotal = Contents[n].discount
HoldsProducts(p, n, under) ==
  /\ p.lines = {Contents[n].lines[i].code : i \in Rows(n)}
  /\ \A c \in p.lines :
       /\ "other quantity" \notin under => p.quantity[c] = Issued(n, c, LAMBDA row : row.quantity)
       /\ "other total" \notin under => p.gross[c] = Issued(n, c, LAMBDA row : row.gross)

AsIssued(under) ==
  (IF under \cap {"other total", "other count"} = {} THEN {"lines"} ELSE {})
    \cup (IF under \cap {"other discount", "discount absent"} = {} THEN {"discount"} ELSE {})
    \cup (IF "other net" \notin under THEN {"net"} ELSE {})

HoldsNote(p, n, under) ==
  /\ ClosesOverItsLines(p)
  /\ Cardinality(AsIssued(under)) >= 2 => HoldsTotals(p, n)
  /\ under \cap {"other count", "other code"} = {} => HoldsProducts(p, n, under)

\* The lines read of a note are a reading of it.
LEMMA ItemsAreAReading == ASSUME NEW n \in Notes PROVE IsReading(n, ExtractItems(n))
BY LinesAreRead DEF IsReading

\* Two of the lines, the discount and the amount paid give the third.
LEMMA TwoGiveTheThird ==
  ASSUME NEW n \in Notes, FetchInvoice(n).outcome = "read",
         Cardinality(AsIssued(markup)) >= 2
  PROVE  GrossRead(n) = GrossTotal(n) /\ DiscountRead(n) = Contents[n].discount
<1> DEFINE d == Contents[n].discount
<1>1. GrossTotal(n) \in Nat /\ d \in Nat
  BY NoteFacts
<1>2. NetRead(n) \in Int /\ DiscountRead(n) \in Nat /\ GrossRead(n) \in Int
  BY TotalsAreRead
<1>3. NetRead(n) = GrossRead(n) - DiscountRead(n) /\ LinesTotal(ExtractItems(n)) = GrossRead(n)
  BY ReadCloses DEF TotalsClose
<1>4. "lines" \in AsIssued(markup) => GrossRead(n) = GrossTotal(n)
  <2> SUFFICES ASSUME "lines" \in AsIssued(markup) PROVE GrossRead(n) = GrossTotal(n)
    OBVIOUS
  <2>1. "other total" \notin markup /\ "other count" \notin markup
    BY DEF AsIssued
  <2> QED
    BY <1>3, <2>1, ReadCloses, LinesAddUp
<1>5. "discount" \in AsIssued(markup) => DiscountRead(n) = d
  BY TotalsAreRead DEF AsIssued
<1>6. "net" \in AsIssued(markup) => NetRead(n) = GrossTotal(n) - d
  BY TotalsAreRead DEF AsIssued
<1>7. \/ {"lines", "discount"} \subseteq AsIssued(markup)
      \/ {"lines", "net"} \subseteq AsIssued(markup)
      \/ {"discount", "net"} \subseteq AsIssued(markup)
  <2> SUFFICES ASSUME ~ ({"lines", "discount"} \subseteq AsIssued(markup)),
                      ~ ({"lines", "net"} \subseteq AsIssued(markup)),
                      ~ ({"discount", "net"} \subseteq AsIssued(markup))
               PROVE  FALSE
    OBVIOUS
  <2>1. AsIssued(markup) \subseteq {"lines", "discount", "net"}
    BY DEF AsIssued
  <2>2. PICK x : AsIssued(markup) \subseteq {x}
    BY <2>1
  <2>3. IsFiniteSet({x}) /\ Cardinality({x}) = 1
    BY FS_Singleton
  <2>4. Cardinality(AsIssued(markup)) <= 1 /\ Cardinality(AsIssued(markup)) \in Nat
    BY <2>2, <2>3, FS_Subset, FS_CardinalityType
  <2> QED
    BY <2>4
<1> HIDE DEF d
<1>8. GrossRead(n) = GrossTotal(n) /\ DiscountRead(n) = d
  BY <1>1, <1>2, <1>3, <1>4, <1>5, <1>6, <1>7
<1> QED
  BY <1>8 DEF d

LEMMA BuiltOfTheNote ==
  ASSUME NEW n \in Notes, FetchInvoice(n).outcome = "read",
         NEW built \in BuildPurchase(n, FetchInvoice(n).invoice)
  PROVE  HoldsNote(built, n, markup)
<1> DEFINE k == Len(Contents[n].lines)
           invoice == FetchInvoice(n).invoice
           read == ExtractItems(n)
           folded == AggregateInvoiceItems(n, invoice.lines)
           codes == DOMAIN folded
           grosses == [c \in Lines |-> IF c \in codes THEN folded[c].gross ELSE 0]
           quantity == [c \in Lines |-> IF c \in codes THEN folded[c].quantity ELSE 0]
           d == DiscountRead(n)
<1>1. /\ invoice.lines = read /\ invoice.grossTotal = GrossRead(n) /\ invoice.discountTotal = d
      /\ "other count" \notin markup => DOMAIN read = Rows(n)
      /\ LinesTotal(read) = GrossRead(n)
  BY ReadCloses, LinesAreRead DEF TotalsClose
<1>2. PICK a \in Allocations(codes, grosses, codes, invoice.discountTotal, "PROPORTIONAL", NoAmounts) :
        built = [lines |-> codes, quantity |-> quantity, gross |-> grosses, allocated |-> a,
                 grossTotal |-> invoice.grossTotal, discountTotal |-> invoice.discountTotal]
  BY DEF BuildPurchase
<1>3. IsReading(n, read)
  BY ItemsAreAReading
<1>4. folded = Folded(read, k)
  <2> HIDE DEF read
  <2> QED
    BY <1>1, <1>3, FoldSums
<1>5. DOMAIN read \subseteq 1..k /\ Rows(n) = 1..k /\ IsFiniteSet(DOMAIN read)
  BY <1>3, NoteFacts DEF IsReading
<1>6. codes = {read[j].code : j \in DOMAIN read} /\ codes \subseteq Lines
  <2>1. DOMAIN read \cap (1..k) = DOMAIN read
    BY <1>5
  <2>2. codes = CodesUpTo(read, k)
    BY <1>4 DEF Folded
  <2>3. \A j \in DOMAIN read : read[j].code \in Lines
    BY <1>3, RowFacts
  <2> HIDE DEF read, codes, k
  <2> QED
    BY <2>1, <2>2, <2>3 DEF CodesUpTo
<1>7. \A c : RowsOf(read, k, c) = {j \in DOMAIN read : read[j].code = c}
  BY <1>5 DEF RowsOf
<1>8. \A c \in codes : /\ folded[c].quantity = SumOver(RowsOf(read, k, c), Quantities(read))
                       /\ folded[c].gross = SumOver(RowsOf(read, k, c), Grosses(read))
                       /\ folded[c].gross \in Nat
  <2> SUFFICES ASSUME NEW c \in codes
               PROVE  /\ folded[c].quantity = SumOver(RowsOf(read, k, c), Quantities(read))
                      /\ folded[c].gross = SumOver(RowsOf(read, k, c), Grosses(read))
                      /\ folded[c].gross \in Nat
    OBVIOUS
  <2>1. c \in CodesUpTo(read, k)
    BY <1>4 DEF Folded
  <2>2. SumOver(RowsOf(read, k, c), Grosses(read)) \in Nat
    <3>1. IsFiniteSet(RowsOf(read, k, c)) /\ \A j \in RowsOf(read, k, c) : Grosses(read)[j] \in Nat
      <4> HIDE DEF read
      <4> QED
        BY <1>3, RowFacts
    <3> QED
      BY <3>1, SumIsNat
  <2>3. /\ Folded(read, k)[c].quantity = SumOver(RowsOf(read, k, c), Quantities(read))
        /\ Folded(read, k)[c].gross = SumOver(RowsOf(read, k, c), Grosses(read))
    <3> HIDE DEF k, read
    <3> QED
      BY <2>1 DEF Folded
  <2> HIDE DEF folded, k, read
  <2> QED
    BY <1>4, <2>2, <2>3
<1> HIDE DEF folded, codes, invoice, k, read
<1>9. grosses \in Amounts
  BY <1>8 DEF Amounts
<1>10. \A c \in codes : quantity[c] = folded[c].quantity /\ grosses[c] = folded[c].gross
  BY <1>6
<1>11. SumOver(codes, grosses) = GrossRead(n)
  <2> DEFINE label == [j \in DOMAIN read |-> read[j].code]
  <2>1. \A c : Labelled(DOMAIN read, label, c) = RowsOf(read, k, c)
    BY <1>7 DEF Labelled
  <2>2. \A j \in DOMAIN read : label[j] \in codes /\ Grosses(read)[j] \in Nat
    BY <1>3, <1>6, RowFacts
  <2>3. \A c \in codes : grosses[c] = SumOver(Labelled(DOMAIN read, label, c), Grosses(read))
    BY <1>8, <1>10, <2>1
  <2>4. IsFiniteSet(codes) /\ IsFiniteSet(DOMAIN read)
    BY <1>5, <1>6, LinesAssumption, FS_Subset
  <2> HIDE DEF label, grosses
  <2>5. SumOver(codes, grosses) = SumOver(DOMAIN read, Grosses(read))
    BY <2>2, <2>3, <2>4, SumByLabel
  <2> QED
    BY <1>1, <2>5 DEF LinesTotal, Grosses
<1> HIDE DEF grosses, quantity
<1>12. Given(codes, grosses, codes, d, "PROPORTIONAL", NoAmounts)
  BY <1>6, <1>9, TotalsAreRead DEF Given, NoAmounts, Amounts, Modes, ComputedModes, grosses
<1>13. /\ a \in Amounts /\ SumOver(Lines, a) = d /\ \A l \in Lines : a[l] <= grosses[l]
       /\ \A l \in Lines \ codes : a[l] = 0
  <2>1. a \in Allocations(codes, grosses, codes, d, "PROPORTIONAL", NoAmounts)
    BY <1>1, <1>2
  <2>2. EligibleLines(codes, codes, "PROPORTIONAL") = codes
    BY DEF EligibleLines
  <2> HIDE DEF d
  <2> QED
    BY <1>12, <2>1, <2>2, AllocationCloses
<1>14. SumOver(codes, a) = d
  BY <1>6, <1>13, SumWithoutZeros DEF Amounts
<1>15. /\ built.lines = codes /\ built.quantity = quantity /\ built.gross = grosses
       /\ built.allocated = a /\ built.grossTotal = GrossRead(n) /\ built.discountTotal = d
  <2> HIDE DEF d
  <2> QED
    BY <1>1, <1>2
<1>16. ClosesOverItsLines(built)
  BY <1>6, <1>11, <1>13, <1>14, <1>15 DEF ClosesOverItsLines
<1>17. Cardinality(AsIssued(markup)) >= 2 => HoldsTotals(built, n)
  BY <1>15, TwoGiveTheThird DEF HoldsTotals
<1>18. markup \cap {"other count", "other code"} = {} => HoldsProducts(built, n, markup)
  <2> SUFFICES ASSUME "other count" \notin markup, "other code" \notin markup
               PROVE  HoldsProducts(built, n, markup)
    OBVIOUS
  <2>1. DOMAIN read = Rows(n)
    BY <1>1
  <2>2. \A j \in Rows(n) :
          /\ read[j].code = Contents[n].lines[j].code
          /\ "other quantity" \notin markup => read[j].quantity = Contents[n].lines[j].quantity
          /\ "other total" \notin markup => read[j].gross = Contents[n].lines[j].gross
    BY <2>1, LinesAreRead DEF read
  <2>3. codes = {Contents[n].lines[j].code : j \in Rows(n)}
    BY <1>6, <2>1, <2>2
  <2>4. ASSUME NEW c \in codes
        PROVE  /\ "other quantity" \notin markup =>
                    quantity[c] = Issued(n, c, LAMBDA row : row.quantity)
               /\ "other total" \notin markup => grosses[c] = Issued(n, c, LAMBDA row : row.gross)
    <3> DEFINE S == {j \in Rows(n) : Contents[n].lines[j].code = c}
               quantities == [j \in Rows(n) |-> Contents[n].lines[j].quantity]
               totals == [j \in Rows(n) |-> Contents[n].lines[j].gross]
    <3>1. RowsOf(read, k, c) = S
      BY <1>7, <2>1, <2>2
    <3>2. /\ Issued(n, c, LAMBDA row : row.quantity) = SumOver(S, quantities)
          /\ Issued(n, c, LAMBDA row : row.gross) = SumOver(S, totals)
      BY DEF Issued
    <3>3. /\ "other quantity" \notin markup => \A j \in S : Quantities(read)[j] = quantities[j]
          /\ "other total" \notin markup => \A j \in S : Grosses(read)[j] = totals[j]
      BY <2>1, <2>2 DEF Quantities, Grosses
    <3> HIDE DEF S, quantities, totals
    <3>4. /\ "other quantity" \notin markup => SumOver(S, Quantities(read)) = SumOver(S, quantities)
          /\ "other total" \notin markup => SumOver(S, Grosses(read)) = SumOver(S, totals)
      BY <3>3, SumSameTerms
    <3> QED
      BY <1>8, <1>10, <3>1, <3>2, <3>4
  <2> QED
    BY <1>15, <2>3, <2>4 DEF HoldsProducts
<1> QED
  BY <1>16, <1>17, <1>18 DEF HoldsNote

\* The purchases recorded are those of the notes, each as it was read.
Recorded ==
  /\ purchases = [n \in Notes |-> purchases[n]] /\ readUnder = [n \in Notes |-> readUnder[n]]
  /\ NoteIsReadWhole

LEMMA HeldWhole ==
  NoteIsReadWhole <=>
    \A n \in Notes : purchases[n] # NoPurchase => HoldsNote(purchases[n], n, readUnder[n])
BY DEF NoteIsReadWhole, HoldsNote, ClosesOverItsLines, HoldsTotals, HoldsProducts, AsIssued, ReadAsIssued

LEMMA ImportRecords ==
  ASSUME Recorded, NEW n \in Notes, Import(n)
  PROVE  Recorded'
<1>1. /\ readUnder' = [readUnder EXCEPT ![n] = markup]
      /\ \E built \in BuildPurchase(n, FetchInvoice(n).invoice) :
           purchases' = [purchases EXCEPT ![n] = built]
  BY DEF Import
<1>2. PICK built \in BuildPurchase(n, FetchInvoice(n).invoice) :
        purchases' = [purchases EXCEPT ![n] = built]
  BY <1>1
<1>3. HoldsNote(built, n, markup)
  BY BuiltOfTheNote DEF Import
<1>4. /\ purchases' = [m \in Notes |-> IF m = n THEN built ELSE purchases[m]]
      /\ readUnder' = [m \in Notes |-> IF m = n THEN markup ELSE readUnder[m]]
  BY <1>1, <1>2 DEF Recorded
<1>5. ASSUME NEW m \in Notes, purchases'[m] # NoPurchase
      PROVE  HoldsNote(purchases'[m], m, readUnder'[m])
  <2>1. CASE m = n
    BY <1>3, <1>4, <2>1
  <2>2. CASE m # n
    <3>1. purchases'[m] = purchases[m] /\ readUnder'[m] = readUnder[m]
      BY <1>4, <2>2
    <3> QED
      BY <1>5, <3>1, HeldWhole DEF Recorded
  <2> QED
    BY <2>1, <2>2
<1>6. NoteIsReadWhole'
  BY <1>5 DEF NoteIsReadWhole, HoldsNote, ClosesOverItsLines, HoldsTotals, HoldsProducts,
              AsIssued, ReadAsIssued, Issued, GrossTotal, LinesTotal, Rows
<1> QED
  BY <1>4, <1>6 DEF Recorded

LEMMA RecordedNext == Recorded /\ [PagesNext]_pagesVars => Recorded'
<1> SUFFICES ASSUME Recorded, [PagesNext]_pagesVars PROVE Recorded'
  OBVIOUS
<1>1. ASSUME NEW n \in Notes, Import(n) PROVE Recorded'
  BY <1>1, ImportRecords
<1>2. CASE UNCHANGED <<purchases, readUnder>>
  BY <1>2 DEF Recorded, NoteIsReadWhole, ReadAsIssued, Issued, GrossTotal, LinesTotal, Rows
<1> QED
  BY <1>1, <1>2 DEF PagesNext, NoteExpires, StartRun, CheckNext, Report, PortalGoes, PageChanges,
                    Crash, Happens, pagesVars

(***************************************************************************)
(* Whatever page is read as a note, the lines of the purchase built of it  *)
(* close over its total and its discount; a wrong total takes two of the   *)
(* lines, the discount and the amount paid gone wrong in agreement; and    *)
(* where the count of items is the note's, the purchase has every row of   *)
(* it, but for the codes, quantities and totals that were misread: for any *)
(* notes of any length, any faults of the page and any text found instead. *)
(***************************************************************************)
THEOREM PurchasesHoldTheirNotes == PagesSpec => []NoteIsReadWhole
<1>1. PagesInit => Recorded
  BY DEF PagesInit, Recorded, NoteIsReadWhole
<1>2. Recorded => NoteIsReadWhole
  BY DEF Recorded
<1> QED
  BY <1>1, <1>2, RecordedNext, PTL DEF PagesSpec

-----------------------------------------------------------------------------
(* Figures: what the rows hold.                                            *)

MaterialRow == [cost : Nat, holds : Nat \ {0}, stock : Nat, active : BOOLEAN]
SaleRow == [payment : PaymentStatus, production : ProductionStatus, created : Nat]
ItemRow == [ref : {Product} \cup Materials, quantity : Nat \ {0}, amount : Nat, over : Nat \ {0}]
LossRow == [material : Materials, quantity : Nat, reason : Reasons, amount : Nat,
            over : Nat \ {0}, created : Nat]
PurchaseRow ==
  {[shop |-> note.shop, lines |-> note.lines, pending |-> waits, date |-> instant] :
     note \in Recordable, waits \in BOOLEAN, instant \in Nat}

FiguresTyped ==
  /\ material \in [Materials -> MaterialRow]
  /\ product \in ProductRow \cup {None}
  /\ sale \in [Sales -> SaleRow \cup {None}]
  /\ line \in [Sales \X Lines -> ItemRow \cup {None}]
  /\ snapshot \in [Sales \X Materials -> Nat \cup {NoRow}]
  /\ loss \in [Losses -> LossRow \cup {None}]
  /\ purchase \in [Purchases -> PurchaseRow \cup {None}]
  /\ now \in Nat

\* A sale that does not exist has no lines, and a product that is gone is on
\* no line.
LinesHaveOwners ==
  \A s \in Sales, l \in Lines :
    line[<<s, l>>] # None =>
      /\ sale[s] # None
      /\ line[<<s, l>>].ref = Product => product # None

LEMMA NoneIsNoRow ==
  /\ None \notin SaleRow /\ None \notin ItemRow /\ None \notin LossRow
  /\ None \notin PurchaseRow /\ None \notin ProductRow
<1>1. None \notin SaleRow
  BY DEF None, SaleRow
<1>2. None \notin ItemRow
  BY DEF None, ItemRow
<1>3. None \notin LossRow
  BY DEF None, LossRow
<1>4. None \notin PurchaseRow
  <2> DEFINE row(note, waits, instant) ==
               [shop |-> note.shop, lines |-> note.lines, pending |-> waits, date |-> instant]
  <2>1. ASSUME NEW note, NEW waits, NEW instant PROVE None # row(note, waits, instant)
    <3>1. "shop" \in DOMAIN row(note, waits, instant) /\ "shop" \notin DOMAIN None
      BY DEF None
    <3> QED
      BY <3>1
  <2> QED
    BY <2>1 DEF PurchaseRow
<1>5. None \notin ProductRow
  BY DEF None, ProductRow
<1> QED
  BY <1>1, <1>2, <1>3, <1>4, <1>5

LEMMA FigureConstants ==
  /\ Scale \in Nat \ {0} /\ RatioScale \in Nat \ {0} /\ MonthLength \in Nat \ {0}
  /\ Costs \subseteq Nat /\ FixedCosts \subseteq Nat /\ Margins \subseteq Nat
  /\ ManualPrices \subseteq Nat /\ Holds \subseteq Nat \ {0}
  /\ PieceQuantities \subseteq Nat \ {0} /\ LooseQuantities \subseteq Nat \ {0}
  /\ Received \subseteq Nat \ {0} /\ Bills \subseteq [Materials -> Nat]
  /\ Offset \in Nat /\ MaxNow \in Nat /\ Product \notin Materials
  /\ IsFiniteSet(Materials) /\ IsFiniteSet(Sales) /\ IsFiniteSet(Losses)
  /\ IsFiniteSet(Reasons) /\ IsFiniteSet(Purchases) /\ IsFiniteSet(Lines)
BY FiguresAssumption, LinesAssumption

LEMMA ProductIsNatural == ASSUME NEW a \in Nat, NEW b \in Nat PROVE a * b \in Nat
OBVIOUS

LEMMA RoundingTyped ==
  ASSUME NEW a \in Nat, NEW b \in Nat \ {0}
  PROVE  DivideRounding(a, b) \in Nat
<1>1. 2 * a + b \in Nat /\ 2 * b \in Nat \ {0}
  OBVIOUS
<1>2. (2 * a + b) \div (2 * b) \in Nat
  BY <1>1, Quotient
<1> QED
  BY <1>2 DEF DivideRounding

LEMMA ScaledTyped ==
  ASSUME NEW amount \in Nat, NEW multiplier \in Nat, NEW divisor \in Nat \ {0}
  PROVE  Scaled(amount, multiplier, divisor) \in Nat
BY ProductIsNatural, RoundingTyped DEF Scaled

LEMMA MarginTyped ==
  ASSUME NEW amount \in Nat, NEW basisPoints \in Nat
  PROVE  ApplyMargin(amount, basisPoints) \in Nat
BY ScaledTyped DEF ApplyMargin

LEMMA PriceTyped ==
  ASSUME FiguresTyped, product # None
  PROVE  FinalPrice \in Nat
<1>1. product \in ProductRow /\ product.bill \in [Materials -> Nat]
      /\ product.fixed \in Nat /\ product.margin \in Nat /\ product.manual \in Nat \cup {NoRow}
  BY FigureConstants DEF FiguresTyped, ProductRow
<1>2. IsFiniteSet(InBill) /\ InBill \subseteq Materials
  BY FigureConstants, FS_Subset DEF InBill
<1> DEFINE w == [m \in InBill |-> Scaled(material[m].cost, product.bill[m], material[m].holds)]
<1>3. \A m \in InBill : w[m] \in Nat
  BY <1>1, <1>2, ScaledTyped DEF FiguresTyped, MaterialRow
<1>4. DOMAIN w = InBill
  OBVIOUS
<1> HIDE DEF w
<1>5. SumFunction(w) \in Nat
  BY <1>2, <1>3, <1>4, SumOfFunction, SumIsNat
<1>6. MaterialsCost \in Nat
  BY <1>5 DEF MaterialsCost, w
<1>7. MaterialsCost + product.fixed \in Nat
  BY <1>1, <1>6
<1> QED
  BY <1>1, <1>7, MarginTyped DEF FinalPrice

LEMMA ResolvedTyped ==
  ASSUME FiguresTyped, NEW input \in ItemInputs, Sellable(input)
  PROVE  Resolved(input) \in ItemRow /\ (Resolved(input).ref = Product => product # None)
         /\ Resolved(input).ref = input.ref /\ Resolved(input).quantity = input.quantity
<1>1. CASE input.ref = Product
  <2>1. input.quantity \in Nat \ {0}
    BY <1>1, FigureConstants DEF ItemInputs
  <2>2. FinalPrice \in Nat /\ product # None
    BY <1>1, PriceTyped DEF Sellable
  <2> QED
    BY <1>1, <2>1, <2>2, FigureConstants DEF Resolved, ItemRow
<1>2. CASE input.ref # Product
  <2>1. input.ref \in Materials /\ input.quantity \in Nat \ {0} /\ input.margin \in Nat
    BY <1>2, FigureConstants DEF ItemInputs
  <2>2. material[input.ref] \in MaterialRow
    BY <2>1 DEF FiguresTyped
  <2>3. LooseMaterialPriceBasis(input.ref, input.margin) \in Nat
    BY <2>1, <2>2, MarginTyped DEF LooseMaterialPriceBasis, MaterialRow
  <2> QED
    BY <1>2, <2>1, <2>2, <2>3 DEF Resolved, ItemRow, MaterialRow
<1> QED
  BY <1>1, <1>2

LEMMA LinesFinite ==
  ASSUME NEW selection \in SUBSET Sales
  PROVE  /\ IsFiniteSet(UNION {LinesOf(s) : s \in selection})
         /\ UNION {LinesOf(s) : s \in selection} \subseteq Sales \X Lines
         /\ \A sl \in UNION {LinesOf(s) : s \in selection} : line[sl] # None
<1>1. UNION {LinesOf(s) : s \in selection} \subseteq Sales \X Lines
  BY DEF LinesOf
<1>2. IsFiniteSet(Sales \X Lines)
  BY FigureConstants, FS_Product
<1> QED
  BY <1>1, <1>2, FS_Subset DEF LinesOf

LEMMA TakesTyped ==
  ASSUME FiguresTyped, LinesHaveOwners, NEW sl \in Sales \X Lines, line[sl] # None,
         NEW m \in Materials
  PROVE  line[sl] \in ItemRow /\ Takes(line[sl], m) \in Nat
<1>1. line[sl] \in ItemRow
  BY DEF FiguresTyped
<1>2. line[sl].ref = Product => product # None
  <2>1. sl = <<sl[1], sl[2]>> /\ sl[1] \in Sales /\ sl[2] \in Lines
    OBVIOUS
  <2> QED
    BY <2>1 DEF LinesHaveOwners
<1>3. line[sl].ref = Product => product.bill[m] \in Nat
  BY <1>2, FigureConstants DEF FiguresTyped, ProductRow
<1> QED
  BY <1>1, <1>3, FigureConstants DEF Takes

LEMMA NeedTyped ==
  ASSUME FiguresTyped, LinesHaveOwners, NEW selection \in SUBSET Sales, NEW m \in Materials
  PROVE  Need(selection, m) \in Nat
<1> DEFINE L == UNION {LinesOf(s) : s \in selection}
           w == [sl \in L |-> line[sl].quantity * Takes(line[sl], m)]
<1>1. IsFiniteSet(L) /\ L \subseteq Sales \X Lines /\ \A sl \in L : line[sl] # None
  BY LinesFinite
<1>2. DOMAIN w = L /\ \A sl \in L : w[sl] \in Nat
  <2> HIDE DEF L
  <2>1. ASSUME NEW sl \in L PROVE w[sl] \in Nat
    BY <1>1, TakesTyped, ProductIsNatural DEF ItemRow
  <2> QED
    BY <2>1
<1>3. Need(selection, m) = SumFunction(w)
  BY DEF Need
<1> HIDE DEF w, L
<1> QED
  BY <1>1, <1>2, <1>3, SumOfFunction, SumIsNat

\* A column stores a natural number, at most half a thousandth off.
LEMMA StoredTyped ==
  ASSUME NEW exact \in Nat, NEW n \in Stored(exact)
  PROVE  n \in Nat /\ 2 * (n * Scale - exact) \in -Scale..Scale
<1>1. exact \div Scale \in Nat
  BY FigureConstants, Quotient
<1> QED
  BY <1>1 DEF Stored

LEMMA DebitTyped ==
  ASSUME FiguresTyped, LinesHaveOwners, NEW s \in Sales, NEW m \in Materials
  PROVE  /\ material[m].stock * Scale \in Nat
         /\ Debited(s, m) \in Nat /\ Debited(s, m) <= material[m].stock * Scale
         /\ Stored(Debited(s, m)) \subseteq Nat
         /\ Stored(material[m].stock * Scale - Debited(s, m)) \subseteq Nat
<1>1. Need({s}, m) \in Nat
  BY NeedTyped
<1>2. material[m].stock \in Nat /\ Scale \in Nat \ {0}
  BY FigureConstants DEF FiguresTyped, MaterialRow
<1> DEFINE shelf == material[m].stock * Scale
<1>3. shelf \in Nat
  BY <1>2, ProductIsNatural
<1> HIDE DEF shelf
<1>4. Debited(s, m) = Smaller(Need({s}, m), shelf)
  BY DEF Debited, shelf
<1>5. Debited(s, m) \in Nat /\ Debited(s, m) <= shelf
  BY <1>1, <1>3, <1>4 DEF Smaller
<1>6. Stored(Debited(s, m)) \subseteq Nat /\ Stored(shelf - Debited(s, m)) \subseteq Nat
  <2>1. shelf - Debited(s, m) \in Nat
    BY <1>3, <1>5
  <2> QED
    BY <1>5, <2>1, StoredTyped
<1> QED
  BY <1>3, <1>5, <1>6 DEF shelf

RowsSound == FiguresTyped /\ LinesHaveOwners

-----------------------------------------------------------------------------
(* Figures: what the operations leave.                                     *)

LEMMA CreateSaleKeeps ==
  ASSUME RowsSound, NEW s \in Sales, NEW chosen \in SUBSET Lines,
         NEW inputs \in [chosen -> ItemInputs], CreateSale(s, inputs)
  PROVE  RowsSound'
<1> DEFINE made == [payment |-> "PENDING", production |-> "PENDING", created |-> now]
<1>1. /\ UNCHANGED <<material, product, snapshot, loss, books, purchase, now>>
      /\ sale' = [sale EXCEPT ![s] = made] /\ sale[s] = None
      /\ \A l \in chosen : Sellable(inputs[l])
      /\ line' = [sl \in Sales \X Lines |->
                    IF sl[1] = s /\ sl[2] \in chosen THEN Resolved(inputs[sl[2]]) ELSE line[sl]]
  BY DEF CreateSale, Keeps
<1>2. made \in SaleRow /\ made # None
  BY NoneIsNoRow DEF SaleRow, PaymentStatus, ProductionStatus, RowsSound, FiguresTyped
<1>3. sale' \in [Sales -> SaleRow \cup {None}] /\ \A t \in Sales : t # s => sale'[t] = sale[t]
  <2> HIDE DEF made
  <2> QED
    BY <1>1, <1>2 DEF RowsSound, FiguresTyped
<1>4. sale'[s] # None
  <2> HIDE DEF made
  <2> QED
    BY <1>1, <1>2 DEF RowsSound, FiguresTyped
<1>5. \A l \in chosen : /\ Resolved(inputs[l]) \in ItemRow
                        /\ Resolved(inputs[l]).ref = Product => product # None
  BY <1>1, ResolvedTyped DEF RowsSound
<1>6. line' \in [Sales \X Lines -> ItemRow \cup {None}]
  <2>1. ASSUME NEW sl \in Sales \X Lines
        PROVE  (IF sl[1] = s /\ sl[2] \in chosen THEN Resolved(inputs[sl[2]]) ELSE line[sl])
                 \in ItemRow \cup {None}
    BY <1>5 DEF RowsSound, FiguresTyped
  <2> QED
    BY <1>1, <2>1
<1>7. LinesHaveOwners'
  <2>1. ASSUME NEW t \in Sales, NEW l \in Lines, line'[<<t, l>>] # None
        PROVE  sale'[t] # None /\ (line'[<<t, l>>].ref = Product => product # None)
    <3>1. line'[<<t, l>>] = IF t = s /\ l \in chosen THEN Resolved(inputs[l]) ELSE line[<<t, l>>]
      BY <1>1
    <3>2. CASE t = s /\ l \in chosen
      BY <1>4, <1>5, <3>1, <3>2
    <3>3. CASE ~ (t = s /\ l \in chosen)
      <4>1. sale[t] # None /\ (line[<<t, l>>].ref = Product => product # None)
        BY <2>1, <3>1, <3>3 DEF RowsSound, LinesHaveOwners
      <4> QED
        BY <1>1, <1>3, <3>1, <3>3, <4>1
    <3> QED
      BY <3>2, <3>3
  <2> QED
    BY <1>1, <2>1 DEF LinesHaveOwners
<1> QED
  BY <1>1, <1>3, <1>6, <1>7 DEF RowsSound, FiguresTyped

\* One line set: resolved now, changed or gone.
LEMMA LineKeeps ==
  ASSUME RowsSound, NEW s \in Sales, NEW l \in Lines, sale[s] # None,
         NEW item \in ItemRow \cup {None}, item # None => (item.ref = Product => product # None),
         line' = [line EXCEPT ![<<s, l>>] = item],
         UNCHANGED <<material, product, sale, snapshot, loss, purchase, now>>
  PROVE  RowsSound'
<1>1. line' \in [Sales \X Lines -> ItemRow \cup {None}]
  BY DEF RowsSound, FiguresTyped
<1>2. ASSUME NEW t \in Sales, NEW k \in Lines, line'[<<t, k>>] # None
      PROVE  sale[t] # None /\ (line'[<<t, k>>].ref = Product => product # None)
  <2>1. CASE t = s /\ k = l
    <3>1. line'[<<t, k>>] = item
      BY <2>1 DEF RowsSound, FiguresTyped
    <3> QED
      BY <1>2, <2>1, <3>1
  <2>2. CASE <<t, k>> # <<s, l>>
    <3>1. line'[<<t, k>>] = line[<<t, k>>]
      BY <2>2 DEF RowsSound, FiguresTyped
    <3> QED
      BY <1>2, <3>1 DEF RowsSound, LinesHaveOwners
  <2> QED
    BY <2>1, <2>2
<1>3. LinesHaveOwners'
  BY <1>2 DEF LinesHaveOwners
<1> QED
  BY <1>1, <1>3 DEF RowsSound, FiguresTyped

LEMMA AddSaleItemKeeps ==
  ASSUME RowsSound, NEW s \in Sales, NEW l \in Lines, NEW input \in ItemInputs,
         AddSaleItem(s, l, input)
  PROVE  RowsSound'
<1>1. Resolved(input) \in ItemRow /\ (Resolved(input).ref = Product => product # None)
  BY ResolvedTyped DEF AddSaleItem, RowsSound
<1> QED
  BY <1>1, LineKeeps DEF AddSaleItem, Editable, Keeps

LEMMA RemoveSaleItemKeeps ==
  ASSUME RowsSound, NEW s \in Sales, NEW l \in Lines, RemoveSaleItem(s, l)
  PROVE  RowsSound'
BY LineKeeps DEF RemoveSaleItem, Editable, Keeps

LEMMA ItemKeepsPrice ==
  ASSUME NEW item \in ItemRow, NEW quantity \in Nat \ {0}
  PROVE  /\ WithQuantity(item, quantity) \in ItemRow
         /\ WithQuantity(item, quantity).ref = item.ref
         /\ WithQuantity(item, quantity).amount = item.amount
         /\ WithQuantity(item, quantity).over = item.over
         /\ WithQuantity(item, quantity).quantity = quantity
BY DEF WithQuantity, ItemRow

LEMMA UpdateItemQuantityKeeps ==
  ASSUME RowsSound, NEW s \in Sales, NEW l \in Lines, UpdateItemQuantity(s, l)
  PROVE  RowsSound'
<1> DEFINE item == line[<<s, l>>]
<1>1. PICK quantity \in QuantitiesOf(item.ref) :
        line' = [line EXCEPT ![<<s, l>>] = WithQuantity(item, quantity)]
  BY DEF UpdateItemQuantity
<1>2. quantity \in Nat \ {0}
  BY FigureConstants DEF QuantitiesOf
<1>3. sale[s] # None /\ item # None /\ UNCHANGED <<material, product, sale, snapshot, loss, purchase, now>>
  BY DEF UpdateItemQuantity, Editable, Keeps
<1>4. item \in ItemRow /\ (item.ref = Product => product # None)
  BY <1>3 DEF RowsSound, FiguresTyped, LinesHaveOwners
<1>5. WithQuantity(item, quantity) \in ItemRow /\ WithQuantity(item, quantity).ref = item.ref
  BY <1>2, <1>4, ItemKeepsPrice
<1> HIDE DEF item
<1> QED
  BY <1>1, <1>3, <1>4, <1>5, LineKeeps

\* Lines and products as they were keep their owners, if no sale goes.
LEMMA OwnersStay ==
  ASSUME RowsSound, UNCHANGED line, product # None => product' # None,
         \A s \in Sales : sale[s] # None => sale'[s] # None
  PROVE  LinesHaveOwners'
BY DEF RowsSound, LinesHaveOwners

\* One sale moved to another status.
LEMMA StatusKeeps ==
  ASSUME RowsSound, NEW s \in Sales, sale[s] # None,
         NEW row \in SaleRow, sale' = [sale EXCEPT ![s] = row], UNCHANGED <<line, product>>
  PROVE  /\ sale' \in [Sales -> SaleRow \cup {None}] /\ LinesHaveOwners'
<1>1. sale' \in [Sales -> SaleRow \cup {None}] /\ \A t \in Sales : sale[t] # None => sale'[t] # None
  BY NoneIsNoRow DEF RowsSound, FiguresTyped
<1> QED
  BY <1>1, OwnersStay

LEMMA UpdatePaymentStatusKeeps ==
  ASSUME RowsSound, NEW s \in Sales, NEW status \in PaymentStatus, UpdatePaymentStatus(s, status)
  PROVE  RowsSound'
<1> DEFINE row == [sale[s] EXCEPT !.payment = status]
<1>1. /\ sale[s] # None /\ sale' = [sale EXCEPT ![s] = row]
      /\ UNCHANGED <<material, product, line, snapshot, loss, purchase, now>>
  BY DEF UpdatePaymentStatus, Keeps
<1>2. row \in SaleRow
  BY <1>1 DEF RowsSound, FiguresTyped, SaleRow
<1> HIDE DEF row
<1>3. sale' \in [Sales -> SaleRow \cup {None}] /\ LinesHaveOwners'
  BY <1>1, <1>2, StatusKeeps
<1> QED
  BY <1>1, <1>3 DEF RowsSound, FiguresTyped

Taken(s) == {m \in Materials : Debited(s, m) > 0}

\* What a debit writes: two columns, each rounded on its own.
LEMMA DebitWrites ==
  ASSUME RowsSound, NEW s \in Sales, DebitStock(s)
  PROVE  \E left, debited :
           /\ \A m \in Taken(s) : /\ left[m] \in Stored(material[m].stock * Scale - Debited(s, m))
                               /\ debited[m] \in Stored(Debited(s, m))
           /\ material' = [m \in Materials |->
                IF m \in Taken(s) THEN [material[m] EXCEPT !.stock = left[m]] ELSE material[m]]
           /\ snapshot' = [sm \in Sales \X Materials |->
                IF sm[1] = s /\ sm[2] \in Taken(s) THEN debited[sm[2]] ELSE snapshot[sm]]
           /\ ties' = [m \in Materials |->
                IF m \in Taken(s) /\ Halfway(Debited(s, m)) THEN ties[m] + 1 ELSE ties[m]]
<1> DEFINE debits == [m \in Taken(s) |-> Debited(s, m)]
           shelves == [m \in DOMAIN debits |-> material[m].stock * Scale - debits[m]]
<1>1. PICK left \in AllStored(shelves), debited \in AllStored(debits) :
        /\ material' = [m \in Materials |->
             IF m \in DOMAIN debits THEN [material[m] EXCEPT !.stock = left[m]] ELSE material[m]]
        /\ snapshot' = [sm \in Sales \X Materials |->
             IF sm[1] = s /\ sm[2] \in DOMAIN debits THEN debited[sm[2]] ELSE snapshot[sm]]
        /\ ties' = [m \in Materials |->
             IF m \in DOMAIN debits /\ Halfway(debits[m]) THEN ties[m] + 1 ELSE ties[m]]
  BY DEF DebitStock, Taken
<1>2. DOMAIN debits = Taken(s) /\ \A m \in Taken(s) : debits[m] = Debited(s, m)
  OBVIOUS
<1>3. DOMAIN shelves = Taken(s) /\ \A m \in Taken(s) : shelves[m] = material[m].stock * Scale - debits[m]
  BY <1>2
<1> HIDE DEF shelves, debits
<1>4. \A m \in Taken(s) : left[m] \in Stored(shelves[m]) /\ debited[m] \in Stored(debits[m])
  BY <1>1, <1>2, <1>3 DEF AllStored
<1>5. \A m \in Taken(s) : /\ left[m] \in Stored(material[m].stock * Scale - Debited(s, m))
                       /\ debited[m] \in Stored(Debited(s, m))
  BY <1>2, <1>3, <1>4
<1>6. /\ material' = [m \in Materials |->
             IF m \in Taken(s) THEN [material[m] EXCEPT !.stock = left[m]] ELSE material[m]]
      /\ snapshot' = [sm \in Sales \X Materials |->
             IF sm[1] = s /\ sm[2] \in Taken(s) THEN debited[sm[2]] ELSE snapshot[sm]]
  BY <1>1, <1>2
<1>7. ties' = [m \in Materials |->
                IF m \in Taken(s) /\ Halfway(Debited(s, m)) THEN ties[m] + 1 ELSE ties[m]]
  <2>1. ASSUME NEW m \in Materials
        PROVE  (IF m \in DOMAIN debits /\ Halfway(debits[m]) THEN ties[m] + 1 ELSE ties[m])
                 = (IF m \in Taken(s) /\ Halfway(Debited(s, m)) THEN ties[m] + 1 ELSE ties[m])
    <3>1. CASE m \in Taken(s)
      <4>1. debits[m] = Debited(s, m) /\ m \in DOMAIN debits
        BY <1>2, <3>1
      <4> QED
        BY <3>1, <4>1
    <3>2. CASE m \notin Taken(s)
      BY <1>2, <3>2
    <3> QED
      BY <3>1, <3>2
  <2> QED
    BY <1>1, <2>1, Zenon
<1> QED
  BY <1>5, <1>6, <1>7

LEMMA DebitKeeps ==
  ASSUME RowsSound, NEW s \in Sales, DebitStock(s)
  PROVE  /\ material' \in [Materials -> MaterialRow]
         /\ snapshot' \in [Sales \X Materials -> Nat \cup {NoRow}]
<1>1. PICK left, debited :
        /\ \A m \in Taken(s) : /\ left[m] \in Stored(material[m].stock * Scale - Debited(s, m))
                            /\ debited[m] \in Stored(Debited(s, m))
        /\ material' = [m \in Materials |->
             IF m \in Taken(s) THEN [material[m] EXCEPT !.stock = left[m]] ELSE material[m]]
        /\ snapshot' = [sm \in Sales \X Materials |->
             IF sm[1] = s /\ sm[2] \in Taken(s) THEN debited[sm[2]] ELSE snapshot[sm]]
        /\ ties' = [m \in Materials |->
             IF m \in Taken(s) /\ Halfway(Debited(s, m)) THEN ties[m] + 1 ELSE ties[m]]
  BY DebitWrites
<1>2. \A m \in Taken(s) : left[m] \in Nat /\ debited[m] \in Nat
  BY <1>1, DebitTyped DEF RowsSound, Taken
<1>3. material' \in [Materials -> MaterialRow]
  <2>1. ASSUME NEW m \in Materials, NEW stock \in Nat
        PROVE  [material[m] EXCEPT !.stock = stock] \in MaterialRow
    BY DEF RowsSound, FiguresTyped, MaterialRow
  <2>2. \A m \in Materials : material[m] \in MaterialRow
    BY DEF RowsSound, FiguresTyped
  <2> QED
    BY <1>1, <1>2, <2>1, <2>2
<1>4. snapshot' \in [Sales \X Materials -> Nat \cup {NoRow}]
  BY <1>1, <1>2 DEF RowsSound, FiguresTyped
<1> QED
  BY <1>3, <1>4

LEMMA ReversalKeeps ==
  ASSUME RowsSound, NEW s \in Sales, ReverseStockDebit(s)
  PROVE  /\ material' \in [Materials -> MaterialRow]
         /\ snapshot' \in [Sales \X Materials -> Nat \cup {NoRow}]
<1>1. ASSUME NEW m \in Materials
      PROVE  (IF snapshot[<<s, m>>] = NoRow THEN material[m]
              ELSE [material[m] EXCEPT !.stock = @ + snapshot[<<s, m>>]]) \in MaterialRow
  <2>1. material[m] \in MaterialRow /\ snapshot[<<s, m>>] \in Nat \cup {NoRow}
    BY DEF RowsSound, FiguresTyped
  <2> QED
    BY <2>1 DEF MaterialRow
<1>2. material' \in [Materials -> MaterialRow]
  BY <1>1 DEF ReverseStockDebit
<1>3. snapshot' \in [Sales \X Materials -> Nat \cup {NoRow}]
  BY DEF ReverseStockDebit, RowsSound, FiguresTyped
<1> QED
  BY <1>2, <1>3

LEMMA UpdateProductionStatusKeeps ==
  ASSUME RowsSound, NEW s \in Sales, NEW status \in ProductionStatus,
         UpdateProductionStatus(s, status)
  PROVE  RowsSound'
<1> DEFINE row == [sale[s] EXCEPT !.production = status]
<1>1. /\ sale[s] # None /\ sale' = [sale EXCEPT ![s] = row]
      /\ UNCHANGED <<product, line, loss, purchase, now>>
      /\ DebitStock(s) \/ ReverseStockDebit(s) \/ UNCHANGED <<material, snapshot>>
  BY DEF UpdateProductionStatus, Keeps
<1>2. row \in SaleRow
  BY <1>1 DEF RowsSound, FiguresTyped, SaleRow
<1> HIDE DEF row
<1>3. sale' \in [Sales -> SaleRow \cup {None}] /\ LinesHaveOwners'
  BY <1>1, <1>2, StatusKeeps
<1>4. /\ material' \in [Materials -> MaterialRow]
      /\ snapshot' \in [Sales \X Materials -> Nat \cup {NoRow}]
  BY <1>1, DebitKeeps, ReversalKeeps DEF RowsSound, FiguresTyped
<1> QED
  BY <1>1, <1>3, <1>4 DEF RowsSound, FiguresTyped

\* One material changed, and perhaps one loss.
LEMMA MaterialKeeps ==
  ASSUME RowsSound, NEW m \in Materials, NEW row \in MaterialRow,
         material' = [material EXCEPT ![m] = row],
         UNCHANGED <<product, sale, line, snapshot, purchase, now>>,
         loss' \in [Losses -> LossRow \cup {None}]
  PROVE  RowsSound'
<1>1. material' \in [Materials -> MaterialRow]
  BY DEF RowsSound, FiguresTyped
<1> QED
  BY <1>1, OwnersStay DEF RowsSound, FiguresTyped

LEMMA MaterialCallKeeps ==
  ASSUME RowsSound, NEW m \in Materials, MaterialCall(m)
  PROVE  RowsSound'
<1>1. material[m] \in MaterialRow /\ loss \in [Losses -> LossRow \cup {None}] /\ now \in Nat
  BY DEF RowsSound, FiguresTyped
<1>2. ASSUME NEW quantity \in Received, ReceiveStock(m, quantity) PROVE RowsSound'
  <2> DEFINE row == [material[m] EXCEPT !.stock = @ + quantity]
  <2>1. row \in MaterialRow
    BY <1>1, FigureConstants DEF MaterialRow
  <2>2. /\ material' = [material EXCEPT ![m] = row]
        /\ UNCHANGED <<product, sale, line, snapshot, loss, purchase, now>>
    BY <1>2 DEF ReceiveStock, Keeps
  <2> HIDE DEF row
  <2> QED
    BY <1>1, <2>1, <2>2, MaterialKeeps
<1>3. ASSUME NEW cost \in Costs, NEW holds \in Holds, ChangePackage(m, cost, holds) PROVE RowsSound'
  <2> DEFINE row == [material[m] EXCEPT !.cost = cost, !.holds = holds]
  <2>1. row \in MaterialRow
    BY <1>1, FigureConstants DEF MaterialRow
  <2>2. /\ material' = [material EXCEPT ![m] = row]
        /\ UNCHANGED <<product, sale, line, snapshot, loss, purchase, now>>
    BY <1>1, <1>3 DEF ChangePackage, Keeps, MaterialRow, RowsSound, FiguresTyped
  <2> HIDE DEF row
  <2> QED
    BY <1>1, <2>1, <2>2, MaterialKeeps
<1>4. ASSUME NEW active \in BOOLEAN, SetMaterialActive(m, active) PROVE RowsSound'
  <2> DEFINE row == [material[m] EXCEPT !.active = active]
  <2>1. row \in MaterialRow
    BY <1>1 DEF MaterialRow
  <2>2. /\ material' = [material EXCEPT ![m] = row]
        /\ UNCHANGED <<product, sale, line, snapshot, loss, purchase, now>>
    BY <1>4 DEF SetMaterialActive, Keeps
  <2> HIDE DEF row
  <2> QED
    BY <1>1, <2>1, <2>2, MaterialKeeps
<1>5. ASSUME NEW l \in Losses, NEW quantity \in LooseQuantities, NEW reason \in Reasons,
             RecordLoss(l, m, quantity, reason)
      PROVE  RowsSound'
  <2> DEFINE row == [material[m] EXCEPT !.stock = @ - quantity]
             lost == [material |-> m, quantity |-> quantity, reason |-> reason,
                      amount |-> material[m].cost, over |-> material[m].holds, created |-> now]
  <2>1. quantity \in Nat /\ quantity <= material[m].stock
    BY <1>5, FigureConstants DEF RecordLoss
  <2>2. row \in MaterialRow /\ lost \in LossRow
    BY <1>1, <2>1 DEF MaterialRow, LossRow
  <2>3. /\ material' = [material EXCEPT ![m] = row] /\ loss' = [loss EXCEPT ![l] = lost]
        /\ UNCHANGED <<product, sale, line, snapshot, purchase, now>>
    BY <1>5 DEF RecordLoss, Keeps
  <2> HIDE DEF row, lost
  <2>4. loss' \in [Losses -> LossRow \cup {None}]
    BY <1>1, <2>2, <2>3
  <2> QED
    BY <2>2, <2>3, <2>4, MaterialKeeps
<1> QED
  BY <1>2, <1>3, <1>4, <1>5 DEF MaterialCall

LEMMA RemoveLossKeeps == ASSUME RowsSound, NEW l \in Losses, RemoveLoss(l) PROVE RowsSound'
<1>1. loss' \in [Losses -> LossRow \cup {None}] /\ UNCHANGED <<material, product, sale, line, snapshot, purchase, now>>
  BY DEF RemoveLoss, Keeps, RowsSound, FiguresTyped
<1> QED
  BY <1>1, OwnersStay DEF RowsSound, FiguresTyped

LEMMA ProductCallKeeps == ASSUME RowsSound, ProductCall PROVE RowsSound'
<1>1. CASE /\ product' \in ProductRow
           /\ UNCHANGED <<material, sale, line, snapshot, loss, purchase, now>>
  <2>1. product' # None
    BY <1>1, NoneIsNoRow
  <2> QED
    BY <1>1, <2>1, OwnersStay DEF RowsSound, FiguresTyped
<1>2. CASE DeleteProduct
  <2>1. /\ product' = None /\ UNCHANGED <<material, sale, line, snapshot, loss, purchase, now>>
        /\ \A sl \in Sales \X Lines : line[sl] # None => line[sl].ref # Product
    BY <1>2 DEF DeleteProduct, Keeps
  <2>2. LinesHaveOwners'
    BY <2>1 DEF RowsSound, LinesHaveOwners
  <2> QED
    BY <2>1, <2>2 DEF RowsSound, FiguresTyped
<1>3. ASSUME NEW row \in ProductRow, CreateProduct(row) \/ UpdateProduct(row) PROVE RowsSound'
  <2>1. product' \in ProductRow /\ UNCHANGED <<material, sale, line, snapshot, loss, purchase, now>>
    BY <1>3 DEF CreateProduct, UpdateProduct, Keeps
  <2> QED
    BY <1>1, <2>1
<1>4. ASSUME NEW active \in BOOLEAN, SetProductActive(active) PROVE RowsSound'
  <2>1. product \in ProductRow /\ product' = [product EXCEPT !.active = active]
        /\ UNCHANGED <<material, sale, line, snapshot, loss, purchase, now>>
    BY <1>4 DEF SetProductActive, Keeps, RowsSound, FiguresTyped
  <2>2. product' \in ProductRow
    BY <2>1 DEF ProductRow
  <2> QED
    BY <1>1, <2>1, <2>2
<1> QED
  BY <1>2, <1>3, <1>4 DEF ProductCall

LEMMA PurchaseCallKeeps ==
  ASSUME RowsSound, NEW p \in Purchases,
         \/ \E note \in Recordable : RegisterPurchase(p, note)
         \/ \E undecided \in BOOLEAN : SetAttributionPending(p, undecided)
  PROVE  RowsSound'
<1>1. ASSUME NEW row \in PurchaseRow, purchase' = [purchase EXCEPT ![p] = row], UNCHANGED <<inventory, now>>
      PROVE  RowsSound'
  <2>1. purchase' \in [Purchases -> PurchaseRow \cup {None}]
    BY <1>1 DEF RowsSound, FiguresTyped
  <2> QED
    BY <1>1, <2>1, OwnersStay DEF RowsSound, FiguresTyped, inventory
<1>2. ASSUME NEW note \in Recordable, RegisterPurchase(p, note) PROVE RowsSound'
  <2> DEFINE row == [shop |-> note.shop, lines |-> note.lines, pending |-> FALSE, date |-> now]
  <2>0. now \in Nat
    BY DEF RowsSound, FiguresTyped
  <2>1. row \in PurchaseRow
    <3>1. FALSE \in BOOLEAN /\ now \in Nat /\ note \in Recordable
      BY <2>0
    <3>2. \A waits \in BOOLEAN, instant \in Nat :
            [shop |-> note.shop, lines |-> note.lines, pending |-> waits, date |-> instant] \in PurchaseRow
      BY DEF PurchaseRow
    <3> QED
      BY <3>1, <3>2
  <2>2. purchase' = [purchase EXCEPT ![p] = row] /\ UNCHANGED <<inventory, now>>
    BY <1>2 DEF RegisterPurchase
  <2> HIDE DEF row
  <2> QED
    BY <1>1, <2>1, <2>2
<1>3. ASSUME NEW undecided \in BOOLEAN, SetAttributionPending(p, undecided) PROVE RowsSound'
  <2> DEFINE row == [purchase[p] EXCEPT !.pending = undecided]
  <2>1. purchase[p] \in PurchaseRow
    BY <1>3 DEF SetAttributionPending, RowsSound, FiguresTyped
  <2>2. PICK note \in Recordable, waits \in BOOLEAN, instant \in Nat :
          purchase[p] = [shop |-> note.shop, lines |-> note.lines, pending |-> waits, date |-> instant]
    <3> HIDE DEF row
    <3> QED
      BY ONLY <2>1 DEF PurchaseRow
  <2>3. row = [shop |-> note.shop, lines |-> note.lines, pending |-> undecided, date |-> instant]
    BY <2>2
  <2>4. row \in PurchaseRow
    BY <2>3 DEF PurchaseRow
  <2>5. purchase' = [purchase EXCEPT ![p] = row] /\ UNCHANGED <<inventory, now>>
    BY <1>3 DEF SetAttributionPending
  <2> HIDE DEF row
  <2> QED
    BY <1>1, <2>4, <2>5
<1> QED
  BY <1>2, <1>3

LEMMA SaleCallKeeps == ASSUME RowsSound, NEW s \in Sales, SaleCall(s) PROVE RowsSound'
BY CreateSaleKeeps, AddSaleItemKeeps, RemoveSaleItemKeeps, UpdateItemQuantityKeeps,
   UpdatePaymentStatusKeeps, UpdateProductionStatusKeeps DEF SaleCall

LEMMA RowsSoundFirst == FiguresInit => RowsSound
<1> SUFFICES ASSUME FiguresInit PROVE RowsSound
  OBVIOUS
<1>1. material \in [Materials -> MaterialRow]
  <2>1. [cost : Costs, holds : Holds, stock : Received, active : {TRUE}] \subseteq MaterialRow
    BY FigureConstants DEF MaterialRow
  <2> QED
    BY <2>1 DEF FiguresInit
<1>2. product \in ProductRow
  BY DEF FiguresInit
<1>3. /\ sale \in [Sales -> {None}] /\ line \in [Sales \X Lines -> {None}]
      /\ snapshot \in [Sales \X Materials -> {NoRow}] /\ loss \in [Losses -> {None}]
      /\ purchase \in [Purchases -> {None}] /\ now = 0
  BY DEF FiguresInit
<1>4. LinesHaveOwners
  BY <1>3 DEF LinesHaveOwners
<1> QED
  BY <1>1, <1>2, <1>3, <1>4 DEF RowsSound, FiguresTyped

LEMMA RowsSoundNext == RowsSound /\ [FiguresNext]_figuresVars => RowsSound'
<1> SUFFICES ASSUME RowsSound, [FiguresNext]_figuresVars PROVE RowsSound'
  OBVIOUS
<1>1. CASE Call
  BY <1>1, SaleCallKeeps, MaterialCallKeeps, RemoveLossKeeps, ProductCallKeeps, PurchaseCallKeeps
     DEF Call
<1>2. CASE Tick
  <2>1. UNCHANGED rows /\ now' \in Nat
    BY <1>2 DEF Tick, RowsSound, FiguresTyped
  <2> QED
    BY <2>1, OwnersStay DEF RowsSound, FiguresTyped, rows, inventory
<1>3. CASE UNCHANGED figuresVars
  BY <1>3, OwnersStay DEF RowsSound, FiguresTyped, figuresVars, rows, inventory
<1> QED
  BY <1>1, <1>2, <1>3 DEF FiguresNext

LEMMA RowsStaySound == FiguresSpec => []RowsSound
BY RowsSoundFirst, RowsSoundNext, PTL DEF FiguresSpec

-----------------------------------------------------------------------------
(* Figures: the agreed price of a line.                                    *)

SamePrice(sl) ==
  line[sl] # None /\ line'[sl] # None =>
    line'[sl].amount = line[sl].amount /\ line'[sl].over = line[sl].over

\* Only three operations write a line that stays: two of them find its slot
\* empty, the third edits its quantity.
LEMMA SaleCallKeepsPrices ==
  ASSUME RowsSound, NEW s \in Sales, SaleCall(s), NEW sl \in Sales \X Lines
  PROVE  SamePrice(sl)
<1>1. sl = <<sl[1], sl[2]>> /\ sl[1] \in Sales /\ sl[2] \in Lines
  OBVIOUS
<1>2. ASSUME NEW chosen \in SUBSET Lines, NEW inputs \in [chosen -> ItemInputs], CreateSale(s, inputs)
      PROVE  SamePrice(sl)
  <2>1. CASE sl[1] = s
    <3>1. line[sl] = None
      BY <1>1, <1>2, <2>1 DEF CreateSale, RowsSound, LinesHaveOwners
    <3> QED
      BY <3>1 DEF SamePrice
  <2>2. CASE sl[1] # s
    <3>1. line'[sl] = line[sl]
      BY <1>2, <2>2 DEF CreateSale
    <3> QED
      BY <3>1 DEF SamePrice
  <2> QED
    BY <2>1, <2>2
<1>3. ASSUME NEW l \in Lines, NEW input \in ItemInputs, AddSaleItem(s, l, input)
      PROVE  SamePrice(sl)
  <2>1. line[<<s, l>>] = None /\ line' = [line EXCEPT ![<<s, l>>] = Resolved(input)]
    BY <1>3 DEF AddSaleItem
  <2>2. sl # <<s, l>> => line'[sl] = line[sl]
    BY <2>1 DEF RowsSound, FiguresTyped
  <2> QED
    BY <2>1, <2>2 DEF SamePrice
<1>4. ASSUME NEW l \in Lines, RemoveSaleItem(s, l) PROVE SamePrice(sl)
  <2>1. line' = [line EXCEPT ![<<s, l>>] = None]
    BY <1>4 DEF RemoveSaleItem
  <2>2. line'[sl] = IF sl = <<s, l>> THEN None ELSE line[sl]
    BY <2>1 DEF RowsSound, FiguresTyped
  <2> QED
    BY <2>2 DEF SamePrice
<1>5. ASSUME NEW l \in Lines, UpdateItemQuantity(s, l) PROVE SamePrice(sl)
  <2> DEFINE item == line[<<s, l>>]
  <2>1. PICK quantity \in QuantitiesOf(item.ref) :
          line' = [line EXCEPT ![<<s, l>>] = WithQuantity(item, quantity)]
    BY <1>5 DEF UpdateItemQuantity
  <2>2. quantity \in Nat \ {0}
    BY FigureConstants DEF QuantitiesOf
  <2>3. item \in ItemRow
    BY <1>5 DEF UpdateItemQuantity, RowsSound, FiguresTyped
  <2>4. /\ WithQuantity(item, quantity).amount = item.amount
        /\ WithQuantity(item, quantity).over = item.over
    BY <2>2, <2>3, ItemKeepsPrice
  <2>5. line'[sl] = IF sl = <<s, l>> THEN WithQuantity(item, quantity) ELSE line[sl]
    BY <2>1 DEF RowsSound, FiguresTyped
  <2> QED
    BY <2>4, <2>5 DEF SamePrice
<1>6. ASSUME UNCHANGED line PROVE SamePrice(sl)
  BY <1>6 DEF SamePrice
<1> QED
  BY <1>2, <1>3, <1>4, <1>5, <1>6 DEF SaleCall, UpdatePaymentStatus, UpdateProductionStatus, Keeps

LEMMA OthersKeepLines ==
  ASSUME \/ \E m \in Materials : MaterialCall(m)
         \/ \E l \in Losses : RemoveLoss(l)
         \/ ProductCall
         \/ \E p \in Purchases : \/ \E note \in Recordable : RegisterPurchase(p, note)
                                \/ \E undecided \in BOOLEAN : SetAttributionPending(p, undecided)
  PROVE  UNCHANGED line
<1>1. ASSUME NEW m \in Materials, MaterialCall(m) PROVE UNCHANGED line
  BY <1>1 DEF MaterialCall, ReceiveStock, ChangePackage, SetMaterialActive, RecordLoss, Keeps
<1>2. ASSUME NEW l \in Losses, RemoveLoss(l) PROVE UNCHANGED line
  BY <1>2 DEF RemoveLoss, Keeps
<1>3. ASSUME ProductCall PROVE UNCHANGED line
  BY <1>3 DEF ProductCall, CreateProduct, UpdateProduct, SetProductActive, DeleteProduct, Keeps
<1>4. ASSUME NEW p \in Purchases, NEW note \in Recordable, RegisterPurchase(p, note)
      PROVE  UNCHANGED line
  BY <1>4 DEF RegisterPurchase, inventory
<1>5. ASSUME NEW p \in Purchases, NEW undecided \in BOOLEAN, SetAttributionPending(p, undecided)
      PROVE  UNCHANGED line
  BY <1>5 DEF SetAttributionPending, inventory
<1> QED
  BY <1>1, <1>2, <1>3, <1>4, <1>5

LEMMA StepKeepsPrices ==
  ASSUME RowsSound, [FiguresNext]_figuresVars, NEW sl \in Sales \X Lines
  PROVE  SamePrice(sl)
<1>1. UNCHANGED line => SamePrice(sl)
  BY DEF SamePrice
<1>2. CASE Call
  BY <1>1, <1>2, SaleCallKeepsPrices, OthersKeepLines DEF Call
<1>3. CASE Tick
  BY <1>1, <1>3 DEF Tick, rows, inventory
<1>4. CASE UNCHANGED figuresVars
  BY <1>1, <1>4 DEF figuresVars, rows, inventory
<1> QED
  BY <1>2, <1>3, <1>4 DEF FiguresNext

\* What one unit of a line costs is what was agreed, whatever happens to
\* packages, recipes, margins and practised prices (SaleItem.priceBasisAmount).
THEOREM TheAgreedPriceStands == FiguresSpec => AgreedPricesHold
<1>1. ASSUME RowsSound, [FiguresNext]_figuresVars
      PROVE  [\A sl \in Sales \X Lines :
                line[sl] # None /\ line'[sl] # None =>
                  LineTotal(line'[sl]) = Scaled(line[sl].amount, line'[sl].quantity, line[sl].over)]_figuresVars
  BY <1>1, StepKeepsPrices DEF SamePrice, LineTotal
<1> QED
  BY <1>1, RowsStaySound, PTL DEF FiguresSpec, AgreedPricesHold

-----------------------------------------------------------------------------
(* Figures: what the shelf makes.                                          *)

LEMMA TheLeastIsThere ==
  ASSUME NEW S \in SUBSET Nat, S # {}
  PROVE  Min(S) \in S /\ \A y \in S : Min(S) <= y
BY LeastNatural DEF Min

\* A material makes at least what the screen says of it, and not two more.
LEMMA UnitsOfOne ==
  ASSUME NEW stock \in Nat, NEW takes \in Nat \ {0}, NEW unit \in Nat,
         LET whole == stock \div takes IN unit = whole \/ (unit = whole - 1 /\ whole > 0)
  PROVE  unit * takes <= stock /\ (unit + 2) * takes > stock
<1> DEFINE whole == stock \div takes
<1>1. whole \in Nat /\ takes * whole <= stock /\ stock < takes * whole + takes
  BY Quotient
<1>2. unit = whole \/ unit = whole - 1
  OBVIOUS
<1> HIDE DEF whole
<1>3. takes * whole = whole * takes /\ whole * takes \in Nat
  BY <1>1
<1>4. (whole - 1) * takes = whole * takes - takes /\ (whole + 1) * takes = whole * takes + takes
      /\ (whole + 2) * takes = whole * takes + 2 * takes
  BY <1>1
<1>5. CASE unit = whole
  BY <1>1, <1>3, <1>4, <1>5
<1>6. CASE unit = whole - 1
  <2>1. unit + 2 = whole + 1
    BY <1>1, <1>6
  <2> QED
    BY <1>1, <1>3, <1>4, <1>6, <2>1
<1> QED
  BY <1>2, <1>5, <1>6

LEMMA CapacityOfTheShelf == RowsSound => CapacityCanBeMade
<1> SUFFICES ASSUME RowsSound, NEW pieces \in Capacities
             PROVE  /\ \A m \in InBill : pieces * product.bill[m] <= material[m].stock
                    /\ InBill # {} => \E m \in InBill : (pieces + 2) * product.bill[m] > material[m].stock
  BY DEF CapacityCanBeMade
<1>1. CASE InBill = {}
  BY <1>1
<1>2. CASE InBill # {}
  <2>1. product \in ProductRow /\ product.bill \in [Materials -> Nat]
    BY <1>2, FigureConstants DEF InBill, RowsSound, FiguresTyped, ProductRow
  <2>2. ASSUME NEW m \in InBill
        PROVE  material[m].stock \in Nat /\ product.bill[m] \in Nat \ {0}
    BY <1>2, <2>1, <2>2 DEF InBill, RowsSound, FiguresTyped, MaterialRow
  <2>3. PICK f \in [InBill -> UNION {PossibleUnits(m) : m \in InBill}] :
          (\A m \in InBill : f[m] \in PossibleUnits(m)) /\ pieces = Min({f[m] : m \in InBill})
    BY <1>2 DEF Capacities
  <2>4. ASSUME NEW m \in InBill
        PROVE  /\ f[m] \in Nat
               /\ f[m] * product.bill[m] <= material[m].stock
               /\ (f[m] + 2) * product.bill[m] > material[m].stock
    <3> DEFINE stock == material[m].stock
               takes == product.bill[m]
               whole == stock \div takes
    <3>1. stock \in Nat /\ takes \in Nat \ {0}
      BY <2>2
    <3>2. f[m] \in PossibleUnits(m)
      BY <2>3
    <3>3. f[m] = whole \/ (f[m] = whole - 1 /\ whole > 0)
      BY <3>2 DEF PossibleUnits
    <3> HIDE DEF stock, takes
    <3>4. whole \in Nat
      BY <3>1, Quotient
    <3>5. f[m] \in Nat
      <4> HIDE DEF whole
      <4> QED
        BY <3>3, <3>4
    <3>6. f[m] * takes <= stock /\ (f[m] + 2) * takes > stock
      BY <3>1, <3>3, <3>5, UnitsOfOne
    <3> QED
      BY <3>5, <3>6 DEF stock, takes
  <2> DEFINE U == {f[m] : m \in InBill}
  <2>5. U \in SUBSET Nat /\ U # {} /\ pieces = Min(U)
    BY <1>2, <2>3, <2>4
  <2>6. pieces \in U /\ \A y \in U : pieces <= y
    <3> HIDE DEF U
    <3> QED
      BY <2>5, TheLeastIsThere
  <2>7. ASSUME NEW m \in InBill PROVE pieces * product.bill[m] <= material[m].stock
    <3>1. pieces <= f[m] /\ pieces \in Nat /\ f[m] \in Nat /\ product.bill[m] \in Nat
      BY <2>2, <2>4, <2>5, <2>6
    <3>2. product.bill[m] * pieces <= product.bill[m] * f[m]
      BY <3>1, ProductGrows
    <3>3. pieces * product.bill[m] = product.bill[m] * pieces
          /\ f[m] * product.bill[m] = product.bill[m] * f[m]
      BY <3>1
    <3>4. product.bill[m] * pieces \in Nat /\ product.bill[m] * f[m] \in Nat /\ material[m].stock \in Nat
      BY <2>2, <3>1, ProductIsNatural
    <3> QED
      BY <2>4, <3>2, <3>3, <3>4
  <2>8. PICK m \in InBill : pieces = f[m]
    BY <2>6
  <2> QED
    BY <2>4, <2>7, <2>8
<1> QED
  BY <1>1, <1>2

\* What the product's screen promises, the shelf makes, and not two pieces
\* more, whatever the doubles did (calculateProductionCapacity).
THEOREM ThePromiseCanBeKept == FiguresSpec => []CapacityCanBeMade
BY RowsStaySound, CapacityOfTheShelf, PTL

-----------------------------------------------------------------------------
(* Figures: what to buy.                                                   *)

LEMMA WhatIsMissing ==
  ASSUME NEW x \in Int
  PROVE  /\ Max({0, x}) \in Nat /\ Max({0, x}) >= x
         /\ Max({0, x}) > 0 => Max({0, x}) = x
<1> DEFINE Greatest(m) == m \in {0, x} /\ \A y \in {0, x} : m >= y
<1>1. \E m : Greatest(m)
  <2>1. CASE x >= 0
    BY <2>1
  <2>2. CASE x < 0
    BY <2>2
  <2> QED
    BY <2>1, <2>2
<1>2. Max({0, x}) = CHOOSE m \in {0, x} : \A y \in {0, x} : m >= y
  BY DEF Max
<1>3. Greatest(Max({0, x}))
  BY <1>1, <1>2
<1> QED
  BY <1>3

\* The packages bought cover the shortage, but for a hair when the ratio was
\* rounded down to the whole package; one less does not.
LEMMA PackagesAreEnough ==
  ASSUME NEW short \in Nat, NEW holds \in Nat \ {0}
  PROVE  LET packages == PackagesToBuy(short, holds)
             held == holds * Scale
         IN /\ packages \in Nat
            /\ packages * held + held \div RatioScale >= short
            /\ packages > 0 => (packages - 1) * held < short
<1> DEFINE A == holds * Scale
           R == RatioScale
           ratio == DivideRounding(short * R, A)
           packages == PackagesToBuy(short, holds)
           hair == A \div R
<1>1. R \in Nat \ {0} /\ Scale \in Nat \ {0}
  BY FigureConstants
<1>2. A \in Nat \ {0}
  BY <1>1
<1>3. packages = (ratio + R - 1) \div R
  BY DEF PackagesToBuy
<1>4. ratio = (2 * (short * R) + A) \div (2 * A)
  BY DEF DivideRounding
<1> HIDE DEF A, R, ratio, packages, hair
<1>5. short * R \in Nat
  BY <1>1, ProductIsNatural
<1>6. ratio \in Nat /\ 2 * A * ratio <= 2 * (short * R) + A /\ 2 * (short * R) + A < 2 * A * ratio + 2 * A
  <2>1. 2 * (short * R) + A \in Nat /\ 2 * A \in Nat \ {0}
    BY <1>2, <1>5
  <2> QED
    BY <1>4, <2>1, Quotient
<1>7. packages \in Nat /\ R * packages <= ratio + R - 1 /\ ratio + R - 1 < R * packages + R
  <2>1. ratio + R - 1 \in Nat
    BY <1>1, <1>6
  <2> QED
    BY <1>1, <1>3, <2>1, Quotient
<1>8. hair \in Nat /\ R * hair <= A /\ A < R * hair + R
  BY <1>1, <1>2, Quotient DEF hair
<1> DEFINE whole == R * packages
<1>9. whole \in Nat /\ ratio <= whole /\ whole <= ratio + R - 1
  <2>1. whole \in Nat
    BY <1>1, <1>7, ProductIsNatural
  <2> QED
    BY <1>1, <1>6, <1>7, <2>1
<1>10. A * whole = R * (A * packages)
  BY <1>1, <1>2, <1>7
<1> DEFINE bought == A * packages
<1>11. bought \in Nat /\ R * bought \in Nat /\ A * whole = R * bought
  BY <1>1, <1>2, <1>7, <1>10, ProductIsNatural
<1>12. packages * A = bought /\ (packages - 1) * A = bought - A
  BY <1>2, <1>7
<1> HIDE DEF whole, bought
<1> DEFINE X == A * ratio
<1>13. X \in Nat /\ 2 * A * ratio = 2 * X
  BY <1>2, <1>6, ProductIsNatural
<1>14. X <= R * bought
  <2>1. A * ratio <= A * whole
    BY <1>2, <1>6, <1>9, ProductGrows
  <2> QED
    BY <1>11, <2>1
<1>15. R * bought <= X + A * R - A
  <2>1. ratio + R - 1 \in Nat
    BY <1>1, <1>6
  <2>2. A * whole <= A * (ratio + R - 1)
    BY <1>2, <1>9, <2>1, ProductGrows
  <2>3. A * (ratio + R - 1) = X + A * R - A
    BY <1>1, <1>2, <1>6
  <2> QED
    BY <1>11, <2>2, <2>3
<1>16. A * R \in Nat
  BY <1>1, <1>2, ProductIsNatural
<1> HIDE DEF X
<1>17. 2 * (short * R) < 2 * (R * bought) + A
  BY <1>2, <1>5, <1>6, <1>11, <1>13, <1>14
<1>18. 2 * (R * bought) + A <= 2 * (short * R) + 2 * (A * R)
  BY <1>2, <1>5, <1>6, <1>11, <1>13, <1>15, <1>16
<1>19. bought + hair >= short
  <2> SUFFICES ASSUME bought + hair + 1 <= short PROVE FALSE
    BY <1>8, <1>11
  <2>1. R * (bought + hair + 1) <= R * short
    <3>1. bought + hair + 1 \in Nat
      BY <1>8, <1>11
    <3> QED
      BY <1>1, <3>1, ProductGrows
  <2>2. R * (bought + hair + 1) = R * bought + R * hair + R /\ R * short = short * R
        /\ R * hair \in Nat
    BY <1>1, <1>8, <1>11, ProductIsNatural
  <2> QED
    BY <1>1, <1>2, <1>5, <1>8, <1>11, <1>17, <2>1, <2>2
<1>20. bought - A < short
  <2> SUFFICES ASSUME short <= bought - A PROVE FALSE
    BY <1>2, <1>11
  <2>1. short + A <= bought
    BY <1>2, <1>11
  <2>2. R * (short + A) <= R * bought
    <3>1. short + A \in Nat
      BY <1>2
    <3> QED
      BY <1>1, <1>11, <2>1, <3>1, ProductGrows
  <2>3. R * (short + A) = short * R + A * R
    BY <1>1, <1>2
  <2> QED
    BY <1>2, <1>5, <1>11, <1>16, <1>18, <2>2, <2>3
<1> QED
  BY <1>7, <1>12, <1>19, <1>20 DEF A, R, packages, hair

LEMMA TheListIsEnough == RowsSound => BuyingTheListIsEnough
<1> SUFFICES ASSUME RowsSound, NEW selection \in SUBSET ExistingSales
    PROVE LET list == ShoppingList(selection)
              Shelf(m, packages) == (material[m].stock + packages * material[m].holds) * Scale
              Hair(m) == (material[m].holds * Scale) \div RatioScale
              unpriced == {m \in DOMAIN list.lines : list.lines[m].packages > 0 /\ material[m].cost = 0}
          IN /\ \A m \in DOMAIN list.lines :
                  LET packages == list.lines[m].packages IN
                  /\ Shelf(m, packages) + Hair(m) >= Need(selection, m)
                  /\ packages > 0 => Shelf(m, packages - 1) < Need(selection, m)
             /\ list.unestimatedLineCount = Cardinality(unpriced)
  BY DEF BuyingTheListIsEnough
<1> DEFINE list == ShoppingList(selection)
           Shelf(m, packages) == (material[m].stock + packages * material[m].holds) * Scale
           Hair(m) == (material[m].holds * Scale) \div RatioScale
           unpriced == {m \in DOMAIN list.lines : list.lines[m].packages > 0 /\ material[m].cost = 0}
           wanted == {m \in Materials : Need(selection, m) > 0}
           Packages(m) == PackagesToBuy(Shortage(selection, m), material[m].holds)
<1>1. selection \in SUBSET Sales
  BY DEF ExistingSales
<1>2. ASSUME NEW m \in Materials
      PROVE  /\ Need(selection, m) \in Nat /\ material[m].stock \in Nat
             /\ material[m].holds \in Nat \ {0} /\ material[m].cost \in Nat
             /\ Scale \in Nat \ {0} /\ RatioScale \in Nat \ {0}
  BY <1>1, NeedTyped, FigureConstants DEF RowsSound, FiguresTyped, MaterialRow
<1>3. ASSUME NEW m \in Materials
      PROVE  /\ Packages(m) \in Nat
             /\ Shelf(m, Packages(m)) + Hair(m) >= Need(selection, m)
             /\ Packages(m) > 0 => Shelf(m, Packages(m) - 1) < Need(selection, m)
  <2> DEFINE need == Need(selection, m)
             stock == material[m].stock
             holds == material[m].holds
             short == Shortage(selection, m)
             packages == PackagesToBuy(short, holds)
             held == holds * Scale
             hair == held \div RatioScale
  <2>1. /\ need \in Nat /\ stock \in Nat /\ holds \in Nat \ {0}
        /\ Scale \in Nat \ {0} /\ RatioScale \in Nat \ {0}
    BY <1>2
  <2>2. short = Max({0, need - stock * Scale})
    BY DEF Shortage
  <2> HIDE DEF need, stock, holds, short
  <2>3. stock * Scale \in Nat /\ need - stock * Scale \in Int
    BY <2>1, ProductIsNatural
  <2>4. short \in Nat /\ short >= need - stock * Scale /\ (short > 0 => short = need - stock * Scale)
    BY <2>2, <2>3, WhatIsMissing
  <2>5. /\ packages \in Nat /\ packages * held + hair >= short
        /\ packages > 0 => (packages - 1) * held < short
    BY <2>1, <2>4, PackagesAreEnough
  <2> HIDE DEF packages
  <2>6. held \in Nat \ {0} /\ hair \in Nat
    BY <2>1, Quotient
  <2>7. (stock + packages * holds) * Scale = stock * Scale + packages * held
    BY <2>1, <2>5
  <2>8. (stock + (packages - 1) * holds) * Scale = stock * Scale + (packages - 1) * held
    BY <2>1, <2>5
  <2> HIDE DEF held, hair
  <2>9. packages * held \in Nat
    BY <2>5, <2>6, ProductIsNatural
  <2>10. (stock + packages * holds) * Scale + hair >= need
    BY <2>1, <2>3, <2>4, <2>5, <2>6, <2>7, <2>9
  <2>11. ASSUME packages > 0 PROVE (stock + (packages - 1) * holds) * Scale < need
    <3>1. packages - 1 \in Nat
      BY <2>5, <2>11
    <3>2. (packages - 1) * held \in Nat
      BY <2>6, <3>1, ProductIsNatural
    <3> QED
      BY <2>1, <2>3, <2>4, <2>5, <2>8, <2>11, <3>2
  <2> QED
    BY <2>5, <2>10, <2>11 DEF need, stock, holds, short, packages, held, hair
<1>4. /\ DOMAIN list.lines = wanted
      /\ \A m \in wanted : list.lines[m] = ShoppingLine(selection, m)
      /\ list.unestimatedLineCount = Cardinality({m \in wanted : ~ ShoppingLine(selection, m).known})
  <2>1. {m \in wanted : ~ [k \in wanted |-> ShoppingLine(selection, k)][m].known}
         = {m \in wanted : ~ ShoppingLine(selection, m).known}
    OBVIOUS
  <2> QED
    BY <2>1 DEF ShoppingList
<1>5. ASSUME NEW m \in wanted
      PROVE  /\ ShoppingLine(selection, m).packages = Packages(m)
             /\ ShoppingLine(selection, m).known <=> (Packages(m) = 0 \/ material[m].cost > 0)
  BY DEF ShoppingLine
<1>6. wanted \subseteq Materials
  OBVIOUS
<1> HIDE DEF wanted, list, Packages
<1>7. unpriced = {m \in wanted : ~ ShoppingLine(selection, m).known}
  <2>1. ASSUME NEW m \in wanted
        PROVE  (list.lines[m].packages > 0 /\ material[m].cost = 0) <=> ~ ShoppingLine(selection, m).known
    <3>1. Packages(m) \in Nat /\ material[m].cost \in Nat
      BY <1>2, <1>3, <1>6
    <3> QED
      BY <1>4, <1>5, <3>1
  <2> QED
    BY <1>4, <2>1
<1>8. ASSUME NEW m \in DOMAIN list.lines
      PROVE  /\ Shelf(m, list.lines[m].packages) + Hair(m) >= Need(selection, m)
             /\ list.lines[m].packages > 0 => Shelf(m, list.lines[m].packages - 1) < Need(selection, m)
  <2>1. m \in wanted /\ m \in Materials /\ list.lines[m].packages = Packages(m)
    BY <1>4, <1>5, <1>6
  <2> QED
    BY <1>3, <2>1
<1> QED
  BY <1>4, <1>7, <1>8 DEF list

\* Buying what the list says is enough to assemble what it was asked for, one
\* package less is not, and what it could not price it counts
\* (estimatePurchase).
THEOREM TheListCanBeTrusted == FiguresSpec => []BuyingTheListIsEnough
BY RowsStaySound, TheListIsEnough, PTL

-----------------------------------------------------------------------------
(* Figures: what a reversal gives back.                                    *)

\* What each sale has taken of a material.
Out(m) == [s \in Sales |-> IF snapshot[<<s, m>>] = NoRow THEN 0 ELSE snapshot[<<s, m>>]]

Balanced ==
  \A m \in Materials :
    material[m].stock + SumOver(Sales, Out(m)) \in (ledger[m] - ties[m])..(ledger[m] + ties[m])

WaitingHoldsNothing ==
  \A s \in Sales, m \in Materials :
    sale[s] = None \/ sale[s].production = "PENDING" => snapshot[<<s, m>>] = NoRow

BooksTyped == ledger \in [Materials -> Int] /\ ties \in [Materials -> Nat]

NearlyExact ==
  /\ RowsSound
  /\ BooksTyped
  /\ Balanced
  /\ WaitingHoldsNothing

\* The two columns a debit rounds into cancel, unless it ends halfway.
LEMMA ColumnsCancel ==
  ASSUME NEW stock \in Nat, NEW d \in Nat, d <= stock * Scale,
         NEW x \in Stored(stock * Scale - d), NEW y \in Stored(d)
  PROVE  /\ x \in Nat /\ y \in Nat
         /\ x + y - stock \in -1..1
         /\ ~ Halfway(d) => x + y = stock
<1> DEFINE shelf == stock * Scale
           rest == shelf - d
           e == 2 * (x * Scale - rest)
           f == 2 * (y * Scale - d)
           z == x + y - stock
<1>1. shelf \in Nat /\ Scale \in Nat \ {0}
  BY FigureConstants, ProductIsNatural
<1>2. rest \in Nat
  BY <1>1
<1>3. x \in Nat /\ y \in Nat /\ e \in -Scale..Scale /\ f \in -Scale..Scale
  BY <1>2, StoredTyped
<1>4. e + f = 2 * (z * Scale)
  <2> DEFINE a == x * Scale
             b == y * Scale
  <2>1. a \in Int /\ b \in Int /\ z * Scale = a + b - shelf
    BY <1>1, <1>3
  <2> HIDE DEF a, b, shelf
  <2> QED
    BY <1>1, <2>1 DEF a, b
<1>5. ~ Halfway(d) => f \notin {-Scale, Scale}
  BY DEF Halfway
<1>6. z \in Int /\ z * Scale \in Int
  BY <1>1, <1>3
<1> HIDE DEF e, f, z
<1>7. ~ (z >= 2)
  <2> SUFFICES ASSUME z >= 2 PROVE FALSE
    OBVIOUS
  <2>1. Scale * 2 <= Scale * z
    BY <1>1, <1>6, ProductGrows
  <2>2. Scale * z = z * Scale
    BY <1>1, <1>6
  <2> QED
    BY <1>1, <1>3, <1>4, <1>6, <2>1, <2>2
<1>8. ~ (z <= -2)
  <2> SUFFICES ASSUME z <= -2 PROVE FALSE
    OBVIOUS
  <2> DEFINE up == -z
  <2>1. up \in Nat /\ 2 <= up
    BY <1>6
  <2>2. Scale * up = -(z * Scale)
    BY <1>1, <1>6
  <2> HIDE DEF up
  <2>3. Scale * 2 <= Scale * up
    BY <1>1, <2>1, ProductGrows
  <2> QED
    BY <1>1, <1>3, <1>4, <1>6, <2>2, <2>3
<1>9. f \notin {-Scale, Scale} => z = 0
  <2>1. z = 1 => z * Scale = Scale
    BY <1>1
  <2>2. z = -1 => z * Scale = -Scale
    BY <1>1
  <2> QED
    BY <1>1, <1>3, <1>4, <1>6, <1>7, <1>8, <2>1, <2>2
<1>10. x + y - stock \in -1..1 /\ (z = 0 => x + y = stock)
  BY <1>3, <1>6, <1>7, <1>8 DEF z
<1> QED
  BY <1>3, <1>5, <1>9, <1>10

LEMMA OutTyped ==
  ASSUME RowsSound, NEW m \in Materials
  PROVE  \A s \in Sales : Out(m)[s] \in Nat
BY DEF Out, RowsSound, FiguresTyped

LEMMA BooksStay ==
  ASSUME NearlyExact, RowsSound', UNCHANGED <<snapshot, books>>,
         \A m \in Materials : material'[m].stock = material[m].stock
  PROVE  Balanced' /\ BooksTyped'
<1>1. ASSUME NEW m \in Materials
      PROVE  material'[m].stock + SumOver(Sales, Out(m)')
               \in (ledger'[m] - ties'[m])..(ledger'[m] + ties'[m])
  <2>1. Out(m)' = Out(m)
    BY DEF Out, NearlyExact
  <2> QED
    BY <2>1 DEF NearlyExact, Balanced, books
<1> QED
  BY <1>1 DEF Balanced, BooksTyped, NearlyExact, books

\* What one sale takes or gives back, the shelf loses or gains, but for ties.
LEMMA BooksMove ==
  ASSUME NearlyExact, RowsSound', NEW s \in Sales, UNCHANGED ledger, BooksTyped',
         \A t \in Sales, m \in Materials : t # s => snapshot'[<<t, m>>] = snapshot[<<t, m>>],
         \A m \in Materials :
           (material'[m].stock + Out(m)'[s]) - (material[m].stock + Out(m)[s])
             \in (ties[m] - ties'[m])..(ties'[m] - ties[m])
  PROVE  Balanced'
<1>1. ASSUME NEW m \in Materials
      PROVE  material'[m].stock + SumOver(Sales, Out(m)')
               \in (ledger'[m] - ties'[m])..(ledger'[m] + ties'[m])
  <2> DEFINE v == Out(m)
             w == Out(m)'
  <2>1. \A t \in Sales : v[t] \in Nat
    BY OutTyped DEF NearlyExact
  <2>2. \A t \in Sales : w[t] \in Nat
    BY DEF Out, RowsSound, FiguresTyped
  <2>3. \A t \in Sales \ {s} : v[t] = w[t]
    BY DEF Out
  <2>4. (material'[m].stock + w[s]) - (material[m].stock + v[s])
          \in (ties[m] - ties'[m])..(ties'[m] - ties[m])
    OBVIOUS
  <2>5. /\ material[m].stock \in Nat /\ material'[m].stock \in Nat
        /\ ties[m] \in Nat /\ ties'[m] \in Nat /\ ledger[m] \in Int /\ ledger'[m] = ledger[m]
    BY DEF NearlyExact, BooksTyped, RowsSound, FiguresTyped, MaterialRow
  <2>6. material[m].stock + SumOver(Sales, v) \in (ledger[m] - ties[m])..(ledger[m] + ties[m])
    BY DEF NearlyExact, Balanced
  <2> HIDE DEF v, w
  <2>7. SumOver(Sales, w) = SumOver(Sales, v) - v[s] + w[s]
    <3>1. IsFiniteSet(Sales)
      BY FigureConstants
    <3> QED
      BY <2>1, <2>2, <2>3, <3>1, SumReplaceTerm
  <2>8. SumOver(Sales, v) \in Nat /\ SumOver(Sales, w) \in Nat
    BY <2>1, <2>2, FigureConstants, SumIsNat
  <2>9. v[s] \in Nat /\ w[s] \in Nat
    BY <2>1, <2>2
  <2>10. material'[m].stock + SumOver(Sales, w) \in (ledger'[m] - ties'[m])..(ledger'[m] + ties'[m])
    BY <2>4, <2>5, <2>6, <2>7, <2>8, <2>9
  <2> QED
    BY <2>10 DEF w
<1> QED
  BY <1>1 DEF Balanced

\* An assembled sale takes what its rows say, but for ties.
LEMMA DebitBalances ==
  ASSUME NearlyExact, RowsSound', NEW s \in Sales, DebitStock(s), UNCHANGED ledger,
         \A m \in Materials : snapshot[<<s, m>>] = NoRow
  PROVE  /\ Balanced' /\ BooksTyped'
         /\ \A t \in Sales, m \in Materials : t # s => snapshot'[<<t, m>>] = snapshot[<<t, m>>]
<1>1. PICK left, debited :
        /\ \A m \in Taken(s) : /\ left[m] \in Stored(material[m].stock * Scale - Debited(s, m))
                               /\ debited[m] \in Stored(Debited(s, m))
        /\ material' = [m \in Materials |->
             IF m \in Taken(s) THEN [material[m] EXCEPT !.stock = left[m]] ELSE material[m]]
        /\ snapshot' = [sm \in Sales \X Materials |->
             IF sm[1] = s /\ sm[2] \in Taken(s) THEN debited[sm[2]] ELSE snapshot[sm]]
        /\ ties' = [m \in Materials |->
             IF m \in Taken(s) /\ Halfway(Debited(s, m)) THEN ties[m] + 1 ELSE ties[m]]
  BY DebitWrites DEF NearlyExact
<1>2. \A t \in Sales, m \in Materials :
        snapshot'[<<t, m>>] = IF t = s /\ m \in Taken(s) THEN debited[m] ELSE snapshot[<<t, m>>]
  BY <1>1
<1>3. \A m \in Materials : ties[m] \in Nat
  BY DEF NearlyExact, BooksTyped
<1>4. BooksTyped'
  <2>1. ties' \in [Materials -> Nat]
    BY <1>1, <1>3
  <2> QED
    BY <2>1 DEF BooksTyped, NearlyExact
<1>5. ASSUME NEW m \in Materials
      PROVE  (material'[m].stock + Out(m)'[s]) - (material[m].stock + Out(m)[s])
               \in (ties[m] - ties'[m])..(ties'[m] - ties[m])
  <2>1. material[m].stock \in Nat /\ material[m] \in MaterialRow
    BY DEF NearlyExact, RowsSound, FiguresTyped, MaterialRow
  <2>2. Out(m)[s] = 0 /\ NoRow \notin Nat
    BY DEF Out, NoRow
  <2>3. CASE m \in Taken(s)
    <3> DEFINE stock == material[m].stock
               d == Debited(s, m)
               x == left[m]
               y == debited[m]
    <3>1. x \in Stored(stock * Scale - d) /\ y \in Stored(d)
      BY <1>1, <2>3
    <3>2. d \in Nat /\ d <= stock * Scale
      BY DebitTyped DEF NearlyExact, RowsSound
    <3>3. material'[m].stock = x
      BY <1>1, <2>1, <2>3 DEF MaterialRow
    <3>4. snapshot'[<<s, m>>] = y
      BY <1>2, <2>3
    <3>5. ties'[m] = IF Halfway(d) THEN ties[m] + 1 ELSE ties[m]
      BY <1>1, <2>3
    <3> HIDE DEF x, y, d
    <3>6. /\ x \in Nat /\ y \in Nat /\ x + y - stock \in -1..1
          /\ ~ Halfway(d) => x + y = stock
      BY <2>1, <3>1, <3>2, ColumnsCancel
    <3>7. Out(m)'[s] = y
      BY <2>2, <3>4, <3>6 DEF Out
    <3> HIDE DEF stock
    <3>8. stock \in Nat /\ (x + y) - (stock + 0) \in (ties[m] - ties'[m])..(ties'[m] - ties[m])
      BY <1>3, <2>1, <3>5, <3>6 DEF stock
    <3> QED
      BY <2>2, <3>3, <3>7, <3>8 DEF stock
  <2>4. CASE m \notin Taken(s)
    <3>1. material'[m].stock = material[m].stock /\ ties'[m] = ties[m]
      BY <1>1, <2>4
    <3>2. snapshot'[<<s, m>>] = NoRow
      BY <1>2, <2>4
    <3>3. Out(m)'[s] = 0
      BY <3>2 DEF Out
    <3> QED
      BY <1>3, <2>1, <2>2, <3>1, <3>3
  <2> QED
    BY <2>3, <2>4
<1>6. \A t \in Sales, m \in Materials : t # s => snapshot'[<<t, m>>] = snapshot[<<t, m>>]
  BY <1>2
<1> QED
  BY <1>4, <1>5, <1>6, BooksMove

\* Going back gives back exactly what the rows say.
LEMMA ReversalBalances ==
  ASSUME NearlyExact, RowsSound', NEW s \in Sales, ReverseStockDebit(s), UNCHANGED ledger
  PROVE  /\ Balanced' /\ BooksTyped'
         /\ \A t \in Sales, m \in Materials :
              snapshot'[<<t, m>>] = IF t = s THEN NoRow ELSE snapshot[<<t, m>>]
<1>1. \A t \in Sales, m \in Materials :
        snapshot'[<<t, m>>] = IF t = s THEN NoRow ELSE snapshot[<<t, m>>]
  BY DEF ReverseStockDebit
<1>2. BooksTyped' /\ ties' = ties
  BY DEF ReverseStockDebit, BooksTyped, NearlyExact
<1>3. ASSUME NEW m \in Materials
      PROVE  (material'[m].stock + Out(m)'[s]) - (material[m].stock + Out(m)[s])
               \in (ties[m] - ties'[m])..(ties'[m] - ties[m])
  <2>1. material[m].stock \in Nat /\ material[m] \in MaterialRow
        /\ snapshot[<<s, m>>] \in Nat \cup {NoRow} /\ ties[m] \in Nat
    BY DEF NearlyExact, BooksTyped, RowsSound, FiguresTyped, MaterialRow
  <2>2. material'[m].stock = IF snapshot[<<s, m>>] = NoRow THEN material[m].stock
                             ELSE material[m].stock + snapshot[<<s, m>>]
    BY <2>1 DEF ReverseStockDebit, MaterialRow
  <2>3. Out(m)'[s] = 0
    BY <1>1 DEF Out
  <2>4. Out(m)[s] = IF snapshot[<<s, m>>] = NoRow THEN 0 ELSE snapshot[<<s, m>>]
    BY DEF Out
  <2> QED
    BY <1>2, <2>1, <2>2, <2>3, <2>4
<1> QED
  BY <1>1, <1>2, <1>3, BooksMove

\* Assembling debits, and going back to waiting gives everything back.
LEMMA StatusIsExact ==
  ASSUME NearlyExact, RowsSound', NEW s \in Sales, NEW status \in ProductionStatus,
         UpdateProductionStatus(s, status)
  PROVE  NearlyExact'
<1>1. /\ UNCHANGED ledger /\ sale[s] # None
      /\ \A t \in Sales : t # s => sale'[t] = sale[t]
      /\ sale'[s].production = status
  BY DEF UpdateProductionStatus, Keeps, NearlyExact, RowsSound, FiguresTyped, SaleRow
<1>2. sale'[s] # None
  BY NoneIsNoRow DEF UpdateProductionStatus, NearlyExact, RowsSound, FiguresTyped, SaleRow
<1>3. ASSUME UNCHANGED <<material, snapshot, ties>>,
             status = "PENDING" => sale[s].production = "PENDING"
      PROVE  NearlyExact'
  <2>1. Balanced' /\ BooksTyped'
    BY <1>1, <1>3, BooksStay DEF books
  <2>2. WaitingHoldsNothing'
    BY <1>2, <1>1, <1>3 DEF WaitingHoldsNothing, NearlyExact
  <2> QED
    BY <2>1, <2>2 DEF NearlyExact
<1>4. CASE status # "PENDING" /\ sale[s].production = "PENDING"
  <2>1. CASE \A m \in Materials : snapshot[<<s, m>>] = NoRow
    <3>1. DebitStock(s)
      BY <1>4, <2>1 DEF UpdateProductionStatus
    <3>2. /\ Balanced' /\ BooksTyped'
          /\ \A t \in Sales, m \in Materials : t # s => snapshot'[<<t, m>>] = snapshot[<<t, m>>]
      BY <1>1, <2>1, <3>1, DebitBalances
    <3>3. WaitingHoldsNothing'
      <4>1. ASSUME NEW t \in Sales, NEW m \in Materials,
                   sale'[t] = None \/ sale'[t].production = "PENDING"
            PROVE  snapshot'[<<t, m>>] = NoRow
        <5>1. CASE t # s
          BY <1>1, <3>2, <4>1, <5>1 DEF WaitingHoldsNothing, NearlyExact
        <5>2. CASE t = s
          BY <1>1, <1>2, <1>4, <4>1, <5>2
        <5> QED
          BY <5>1, <5>2
      <4> QED
        BY <4>1 DEF WaitingHoldsNothing
    <3> QED
      BY <3>2, <3>3 DEF NearlyExact
  <2>2. CASE ~ \A m \in Materials : snapshot[<<s, m>>] = NoRow
    BY <1>4, <2>2 DEF WaitingHoldsNothing, NearlyExact
  <2> QED
    BY <2>1, <2>2
<1>5. CASE status = "PENDING" /\ sale[s].production # "PENDING"
  <2>1. ReverseStockDebit(s)
    BY <1>5 DEF UpdateProductionStatus
  <2>2. /\ Balanced' /\ BooksTyped'
        /\ \A t \in Sales, m \in Materials :
             snapshot'[<<t, m>>] = IF t = s THEN NoRow ELSE snapshot[<<t, m>>]
    BY <1>1, <2>1, ReversalBalances
  <2>3. WaitingHoldsNothing'
    BY <1>1, <2>2 DEF WaitingHoldsNothing, NearlyExact
  <2> QED
    BY <2>2, <2>3 DEF NearlyExact
<1>6. CASE (status = "PENDING") = (sale[s].production = "PENDING")
  <2>1. UNCHANGED <<material, snapshot, ties>>
    BY <1>6 DEF UpdateProductionStatus
  <2> QED
    BY <1>3, <1>6, <2>1
<1> QED
  BY <1>4, <1>5, <1>6

LEMMA SaleCallIsExact ==
  ASSUME NearlyExact, RowsSound', NEW s \in Sales, SaleCall(s)
  PROVE  NearlyExact'
<1>1. ASSUME UNCHANGED <<material, snapshot, books>>, WaitingHoldsNothing'
      PROVE  NearlyExact'
  BY <1>1, BooksStay DEF NearlyExact
<1>2. ASSUME NEW chosen \in SUBSET Lines, NEW inputs \in [chosen -> ItemInputs], CreateSale(s, inputs)
      PROVE  NearlyExact'
  <2>1. /\ UNCHANGED <<material, snapshot, books>> /\ sale[s] = None
        /\ \A t \in Sales : t # s => sale'[t] = sale[t]
    BY <1>2 DEF CreateSale, Keeps, NearlyExact, RowsSound, FiguresTyped
  <2>2. WaitingHoldsNothing'
    BY <2>1 DEF WaitingHoldsNothing, NearlyExact
  <2> QED
    BY <1>1, <2>1, <2>2
<1>3. ASSUME UNCHANGED <<material, snapshot, books, sale>>
      PROVE  NearlyExact'
  BY <1>1, <1>3 DEF WaitingHoldsNothing, NearlyExact
<1>4. ASSUME NEW status \in PaymentStatus, UpdatePaymentStatus(s, status)
      PROVE  NearlyExact'
  <2>1. /\ UNCHANGED <<material, snapshot, books>> /\ sale[s] # None
        /\ \A t \in Sales : t # s => sale'[t] = sale[t]
        /\ sale'[s].production = sale[s].production
    BY <1>4 DEF UpdatePaymentStatus, Keeps, NearlyExact, RowsSound, FiguresTyped, SaleRow
  <2>2. sale'[s] # None
    BY <1>4, NoneIsNoRow DEF UpdatePaymentStatus, NearlyExact, RowsSound, FiguresTyped, SaleRow
  <2>3. WaitingHoldsNothing'
    BY <2>1, <2>2 DEF WaitingHoldsNothing, NearlyExact
  <2> QED
    BY <1>1, <2>1, <2>3
<1>5. ASSUME NEW l \in Lines, NEW input, AddSaleItem(s, l, input) PROVE NearlyExact'
  BY <1>3, <1>5 DEF AddSaleItem, Keeps
<1>6. ASSUME NEW l \in Lines, RemoveSaleItem(s, l) \/ UpdateItemQuantity(s, l) PROVE NearlyExact'
  BY <1>3, <1>6 DEF RemoveSaleItem, UpdateItemQuantity, Keeps
<1> QED
  BY <1>2, <1>4, <1>5, <1>6, StatusIsExact DEF SaleCall

\* A stock entry and a loss move the shelf and what was put in stock alike.
LEMMA BooksMeet ==
  ASSUME NearlyExact, RowsSound', NEW m \in Materials, NEW moved \in Int, UNCHANGED <<snapshot, ties>>,
         material' = [material EXCEPT ![m].stock = material[m].stock + moved],
         ledger' = [ledger EXCEPT ![m] = ledger[m] + moved]
  PROVE  Balanced' /\ BooksTyped'
<1>1. BooksTyped'
  BY DEF NearlyExact, BooksTyped
<1>2. ASSUME NEW k \in Materials
      PROVE  material'[k].stock + SumOver(Sales, Out(k)')
               \in (ledger'[k] - ties'[k])..(ledger'[k] + ties'[k])
  <2> DEFINE total == SumOver(Sales, Out(k))
  <2>1. Out(k)' = Out(k)
    BY DEF Out, NearlyExact
  <2>2. /\ material[k].stock + total \in (ledger[k] - ties[k])..(ledger[k] + ties[k])
        /\ material[k].stock \in Nat /\ material[k] \in MaterialRow
        /\ ledger[k] \in Int /\ ties[k] \in Nat /\ ties'[k] = ties[k]
    BY DEF NearlyExact, Balanced, BooksTyped, RowsSound, FiguresTyped, MaterialRow
  <2>3. total \in Nat
    BY OutTyped, SumIsNat, FigureConstants DEF NearlyExact
  <2> HIDE DEF total
  <2>4. material'[k].stock = material[k].stock + (IF k = m THEN moved ELSE 0)
    BY <2>2 DEF NearlyExact, RowsSound, FiguresTyped, MaterialRow
  <2>5. ledger'[k] = ledger[k] + (IF k = m THEN moved ELSE 0)
    BY DEF NearlyExact, BooksTyped
  <2>6. material'[k].stock + total \in (ledger'[k] - ties'[k])..(ledger'[k] + ties'[k])
    BY <2>2, <2>3, <2>4, <2>5 DEF NearlyExact
  <2> QED
    BY <2>1, <2>6 DEF total
<1> QED
  BY <1>1, <1>2 DEF Balanced

LEMMA MaterialCallIsExact ==
  ASSUME NearlyExact, RowsSound', NEW m \in Materials, MaterialCall(m)
  PROVE  NearlyExact'
<1>1. UNCHANGED <<sale, snapshot, ties>>
  BY DEF MaterialCall, ReceiveStock, ChangePackage, SetMaterialActive, RecordLoss, Keeps, books
<1>2. WaitingHoldsNothing'
  BY <1>1 DEF NearlyExact, WaitingHoldsNothing
<1>3. ASSUME NEW quantity \in Received, ReceiveStock(m, quantity)
      PROVE  Balanced' /\ BooksTyped'
  <2>1. quantity \in Int
    BY FigureConstants
  <2> QED
    BY <1>1, <1>3, <2>1, BooksMeet DEF ReceiveStock
<1>4. ASSUME NEW l \in Losses, NEW quantity \in LooseQuantities, NEW reason \in Reasons,
             RecordLoss(l, m, quantity, reason)
      PROVE  Balanced' /\ BooksTyped'
  <2>1. quantity \in Nat /\ -quantity \in Int
    BY FigureConstants
  <2>2. material[m].stock \in Nat /\ ledger[m] \in Int
    BY DEF NearlyExact, BooksTyped, RowsSound, FiguresTyped, MaterialRow
  <2>3. /\ material' = [material EXCEPT ![m].stock = material[m].stock - quantity]
        /\ ledger' = [ledger EXCEPT ![m] = ledger[m] - quantity]
    BY <1>4 DEF RecordLoss
  <2>4. material[m].stock - quantity = material[m].stock + (-quantity)
        /\ ledger[m] - quantity = ledger[m] + (-quantity)
    BY <2>1, <2>2
  <2> DEFINE moved == -quantity
  <2> HIDE DEF moved
  <2>5. moved \in Int /\ material' = [material EXCEPT ![m].stock = material[m].stock + moved]
        /\ ledger' = [ledger EXCEPT ![m] = ledger[m] + moved]
    BY <2>1, <2>3, <2>4 DEF moved
  <2> QED
    BY <1>1, <2>5, BooksMeet
<1>5. ASSUME NEW cost \in Costs, NEW holds \in Holds, ChangePackage(m, cost, holds)
      PROVE  Balanced' /\ BooksTyped'
  <2>1. UNCHANGED <<snapshot, books>> /\ material' = [material EXCEPT ![m].cost = cost, ![m].holds = holds]
    BY <1>5 DEF ChangePackage, Keeps
  <2>2. \A k \in Materials : material'[k].stock = material[k].stock
    BY <2>1 DEF NearlyExact, RowsSound, FiguresTyped, MaterialRow
  <2> QED
    BY <2>1, <2>2, BooksStay DEF NearlyExact
<1>6. ASSUME NEW active \in BOOLEAN, SetMaterialActive(m, active)
      PROVE  Balanced' /\ BooksTyped'
  <2>1. UNCHANGED <<snapshot, books>> /\ material' = [material EXCEPT ![m].active = active]
    BY <1>6 DEF SetMaterialActive, Keeps
  <2>2. \A k \in Materials : material'[k].stock = material[k].stock
    BY <2>1 DEF NearlyExact, RowsSound, FiguresTyped, MaterialRow
  <2> QED
    BY <2>1, <2>2, BooksStay DEF NearlyExact
<1> QED
  BY <1>2, <1>3, <1>4, <1>5, <1>6 DEF MaterialCall, NearlyExact

LEMMA OthersAreExact ==
  ASSUME NearlyExact, RowsSound', UNCHANGED <<material, sale, snapshot, books>>
  PROVE  NearlyExact'
<1>1. Balanced' /\ BooksTyped'
  BY BooksStay
<1>2. WaitingHoldsNothing'
  BY DEF NearlyExact, WaitingHoldsNothing
<1> QED
  BY <1>1, <1>2 DEF NearlyExact

LEMMA NearlyExactFirst == FiguresInit => NearlyExact
<1> SUFFICES ASSUME FiguresInit PROVE NearlyExact
  OBVIOUS
<1>1. RowsSound
  BY RowsSoundFirst
<1>2. /\ snapshot \in [Sales \X Materials -> {NoRow}]
      /\ ledger = [m \in Materials |-> material[m].stock]
      /\ ties = [m \in Materials |-> 0]
  BY DEF FiguresInit
<1>3. WaitingHoldsNothing
  BY <1>2 DEF WaitingHoldsNothing
<1>4. \A m \in Materials : material[m].stock \in Nat
  BY <1>1 DEF RowsSound, FiguresTyped, MaterialRow
<1>5. ASSUME NEW m \in Materials
      PROVE  material[m].stock + SumOver(Sales, Out(m)) \in (ledger[m] - ties[m])..(ledger[m] + ties[m])
  <2>1. \A s \in Sales : Out(m)[s] = 0
    BY <1>2 DEF Out
  <2>2. SumOver(Sales, Out(m)) = 0
    BY <2>1, SumOfZeros
  <2> QED
    BY <1>2, <1>4, <2>2
<1>6. BooksTyped
  BY <1>2, <1>4 DEF BooksTyped
<1> QED
  BY <1>1, <1>3, <1>5, <1>6 DEF NearlyExact, Balanced

LEMMA NearlyExactNext ==
  ASSUME NearlyExact, [FiguresNext]_figuresVars
  PROVE  NearlyExact'
<1>1. RowsSound'
  BY RowsSoundNext DEF NearlyExact
<1>2. CASE Call
  <2>1. ASSUME NEW s \in Sales, SaleCall(s) PROVE NearlyExact'
    BY <1>1, <2>1, SaleCallIsExact
  <2>2. ASSUME NEW m \in Materials, MaterialCall(m) PROVE NearlyExact'
    BY <1>1, <2>2, MaterialCallIsExact
  <2>3. ASSUME NEW l \in Losses, RemoveLoss(l) PROVE NearlyExact'
    BY <1>1, <2>3, OthersAreExact DEF RemoveLoss, Keeps
  <2>4. ASSUME ProductCall PROVE NearlyExact'
    BY <1>1, <2>4, OthersAreExact
       DEF ProductCall, CreateProduct, UpdateProduct, SetProductActive, DeleteProduct, Keeps
  <2>5. ASSUME NEW p \in Purchases, NEW note \in Recordable, RegisterPurchase(p, note) PROVE NearlyExact'
    BY <1>1, <2>5, OthersAreExact DEF RegisterPurchase, inventory
  <2>6. ASSUME NEW p \in Purchases, NEW undecided \in BOOLEAN, SetAttributionPending(p, undecided)
        PROVE  NearlyExact'
    BY <1>1, <2>6, OthersAreExact DEF SetAttributionPending, inventory
  <2> QED
    BY <1>2, <2>1, <2>2, <2>3, <2>4, <2>5, <2>6 DEF Call
<1>3. CASE Tick
  BY <1>1, <1>3, OthersAreExact DEF Tick, rows, inventory
<1>4. CASE UNCHANGED figuresVars
  BY <1>1, <1>4, OthersAreExact DEF figuresVars, rows, inventory
<1> QED
  BY <1>2, <1>3, <1>4 DEF FiguresNext

LEMMA NearlyExactIsEnough == NearlyExact => ReversalIsExactButForTies
<1> SUFFICES ASSUME NearlyExact, NEW m \in Materials
    PROVE  /\ material[m].stock + HeldBySales(m) \in (ledger[m] - ties[m])..(ledger[m] + ties[m])
           /\ \A s \in ExistingSales : sale[s].production = "PENDING" => snapshot[<<s, m>>] = NoRow
  BY DEF ReversalIsExactButForTies
<1>1. HeldBySales(m) = SumFunction(Out(m)) /\ DOMAIN Out(m) = Sales
  BY DEF Out, HeldBySales
<1>2. \A s \in Sales : Out(m)[s] \in Nat
  BY OutTyped DEF NearlyExact
<1>3. IsFiniteSet(Sales)
  BY FigureConstants
<1>4. SumFunction(Out(m)) = SumOver(Sales, Out(m))
  BY <1>1, <1>2, <1>3, SumOfFunction
<1>5. material[m].stock + HeldBySales(m) \in (ledger[m] - ties[m])..(ledger[m] + ties[m])
  BY <1>1, <1>4 DEF NearlyExact, Balanced
<1> QED
  BY <1>5 DEF NearlyExact, WaitingHoldsNothing, ExistingSales

\* Whatever is sold, in pieces or fractions of them: the shelf and the rows
\* together are what was put in stock, to within one thousandth for each debit
\* that ended halfway between two, and a sale waiting to be produced holds
\* nothing (debitStock, reverseStockDebit).
THEOREM NothingIsLostInReversing == FiguresSpec => []ReversalIsExactButForTies
<1>1. NearlyExact /\ [FiguresNext]_figuresVars => NearlyExact'
  BY NearlyExactNext
<1> QED
  BY <1>1, NearlyExactFirst, NearlyExactIsEnough, PTL DEF FiguresSpec

-----------------------------------------------------------------------------
(* Figures: the panels.                                                    *)

LEMMA QuotientOfInteger ==
  ASSUME NEW a \in Int, NEW b \in Nat \ {0}
  PROVE  /\ a \div b \in Int
         /\ b * (a \div b) <= a
         /\ a < b * (a \div b) + b
OBVIOUS

LEMMA QuotientIsTheOnly ==
  ASSUME NEW a \in Int, NEW b \in Nat \ {0}, NEW q \in Int, NEW r \in Int,
         b * q <= a, a < b * q + b, b * r <= a, a < b * r + b
  PROVE  q = r
<1>1. b * q \in Int /\ b * r \in Int
  OBVIOUS
<1>2. ~ (q + 1 <= r)
  <2> SUFFICES ASSUME q + 1 <= r PROVE FALSE
    OBVIOUS
  <2>1. r - q - 1 \in Nat
    OBVIOUS
  <2>2. b * (r - q - 1) \in Nat
    BY <2>1
  <2>3. b * (r - q - 1) = b * r - b * q - b
    OBVIOUS
  <2> QED
    BY <1>1, <2>2, <2>3
<1>3. ~ (r + 1 <= q)
  <2> SUFFICES ASSUME r + 1 <= q PROVE FALSE
    OBVIOUS
  <2>1. q - r - 1 \in Nat
    OBVIOUS
  <2>2. b * (q - r - 1) \in Nat
    BY <2>1
  <2>3. b * (q - r - 1) = b * q - b * r - b
    OBVIOUS
  <2> QED
    BY <1>1, <2>2, <2>3
<1> QED
  BY <1>2, <1>3

\* Every month from that of one instant to that of a later one has an instant
\* between them, and no other month has.
LEMMA MonthsTouched ==
  ASSUME NEW from \in Int, NEW to \in Int, from < to
  PROVE  BusinessMonthsIn(from, to) = {BusinessMonth(t) : t \in from..to - 1}
<1> DEFINE b == MonthLength
           month(t) == (t - Offset) \div b
<1>1. b \in Nat \ {0} /\ Offset \in Nat
  BY FigureConstants
<1> HIDE DEF b
<1>2. ASSUME NEW t \in Int
      PROVE  month(t) \in Int /\ b * month(t) \in Int
             /\ b * month(t) <= t - Offset /\ t - Offset < b * month(t) + b
  <2>1. t - Offset \in Int
    BY <1>1
  <2>2. month(t) \in Int /\ b * month(t) <= t - Offset /\ t - Offset < b * month(t) + b
    BY <1>1, <2>1, QuotientOfInteger
  <2>3. b * month(t) \in Int
    <3> HIDE DEF month
    <3> QED
      BY <1>1, <2>2
  <2> QED
    BY <2>2, <2>3
<1>3. ASSUME NEW t \in Int, NEW k \in Int, b * k <= t - Offset, t - Offset < b * k + b
      PROVE  month(t) = k
  <2>1. t - Offset \in Int
    BY <1>1
  <2>2. month(t) \in Int /\ b * month(t) <= t - Offset /\ t - Offset < b * month(t) + b
    BY <1>2
  <2> HIDE DEF month
  <2> QED
    BY <1>1, <1>3, <2>1, <2>2, QuotientIsTheOnly
<1> HIDE DEF month
<1>4. ASSUME NEW t \in Int, NEW u \in Int, t <= u PROVE month(t) <= month(u)
  <2> SUFFICES ASSUME month(u) + 1 <= month(t) PROVE FALSE
    BY <1>2
  <2>1. month(t) \in Int /\ month(u) \in Int
    BY <1>2
  <2>2. month(t) - month(u) - 1 \in Nat
    BY <2>1
  <2>3. b * (month(t) - month(u) - 1) \in Nat
    BY <1>1, <2>2, ProductIsNatural
  <2>4. b * (month(t) - month(u) - 1) = b * month(t) - b * month(u) - b
    BY <1>1, <2>1
  <2> QED
    BY <1>1, <1>2, <1>4, <2>3, <2>4
<1>5. ASSUME NEW t \in from..to - 1 PROVE month(t) \in month(from)..month(to - 1)
  BY <1>2, <1>4
<1>6. ASSUME NEW k \in month(from)..month(to - 1) PROVE \E t \in from..to - 1 : month(t) = k
  <2>1. k \in Int /\ month(from) <= k /\ k <= month(to - 1)
        /\ month(from) \in Int /\ month(to - 1) \in Int
    BY <1>2
  <2>2. CASE k = month(from)
    BY <2>2
  <2>3. CASE month(from) + 1 <= k
    <3> DEFINE t == b * k + Offset
    <3>1. b * k \in Int
      BY <1>1, <2>1
    <3>2. t \in Int /\ t - Offset = b * k
      BY <1>1, <3>1
    <3>3. b * month(from) + b <= b * k
      <4>1. k - month(from) - 1 \in Nat
        BY <2>1, <2>3
      <4>2. b * (k - month(from) - 1) \in Nat
        BY <1>1, <4>1, ProductIsNatural
      <4>3. b * (k - month(from) - 1) = b * k - b * month(from) - b
        BY <1>1, <2>1
      <4> QED
        BY <1>1, <1>2, <3>1, <4>2, <4>3
    <3>4. b * k <= b * month(to - 1)
      <4>1. month(to - 1) - k \in Nat
        BY <2>1
      <4>2. b * (month(to - 1) - k) \in Nat
        BY <1>1, <4>1, ProductIsNatural
      <4>3. b * (month(to - 1) - k) = b * month(to - 1) - b * k
        BY <1>1, <2>1
      <4>4. b * month(to - 1) \in Int
        BY <1>1, <2>1
      <4> QED
        BY <3>1, <4>2, <4>3, <4>4
    <3> HIDE DEF t
    <3>5. from <= t
      BY <1>1, <1>2, <3>1, <3>2, <3>3
    <3>6. t <= to - 1
      <4>1. to - 1 \in Int
        OBVIOUS
      <4>2. b * month(to - 1) <= to - 1 - Offset /\ b * month(to - 1) \in Int
        BY <1>2, <4>1
      <4> QED
        BY <1>1, <3>1, <3>2, <3>4, <4>2
    <3>7. month(t) = k
      BY <1>1, <1>3, <2>1, <3>1, <3>2
    <3> QED
      BY <3>2, <3>5, <3>6, <3>7
  <2> QED
    BY <2>1, <2>2, <2>3
<1>7. month(from)..month(to - 1) = {month(t) : t \in from..to - 1}
  BY <1>5, <1>6
<1>8. ~ (to <= from)
  OBVIOUS
<1> QED
  BY <1>7, <1>8 DEF BusinessMonthsIn, BusinessMonth, month, b

LEMMA MonthsAreFinite ==
  ASSUME NEW from \in Int, NEW to \in Int, from < to
  PROVE  IsFiniteSet(BusinessMonthsIn(from, to))
<1>1. to - 1 \in Int /\ from - Offset \in Int /\ to - 1 - Offset \in Int
      /\ MonthLength \in Nat \ {0}
  BY FigureConstants
<1>2. BusinessMonth(from) \in Int /\ BusinessMonth(to - 1) \in Int
  BY <1>1, QuotientOfInteger DEF BusinessMonth
<1>3. BusinessMonthsIn(from, to) = BusinessMonth(from)..BusinessMonth(to - 1)
  BY DEF BusinessMonthsIn
<1> QED
  BY <1>2, <1>3, FS_Interval

\* Whatever labels the details, the cells tell them.
LEMMA LabelsTell ==
  ASSUME NEW figures, IsFiniteSet(DOMAIN figures), \A s \in DOMAIN figures : figures[s] \in Nat,
         NEW cells, IsFiniteSet(DOMAIN cells),
         NEW label, \A s \in DOMAIN figures : label[s] \in DOMAIN cells,
         \A x \in DOMAIN cells :
           LET group == Labelled(DOMAIN figures, label, x)
           IN /\ cells[x].count = Cardinality(group)
              /\ cells[x].amount = SumFunction([s \in group |-> figures[s]])
  PROVE  Tells(cells, figures)
<1> DEFINE S == DOMAIN figures
           X == DOMAIN cells
           counts == [x \in X |-> cells[x].count]
           amounts == [x \in X |-> cells[x].amount]
<1>1. \A x \in X : counts[x] = Cardinality(Labelled(S, label, x))
  OBVIOUS
<1>2. ASSUME NEW x \in X PROVE amounts[x] = SumOver(Labelled(S, label, x), figures)
  <2> DEFINE group == Labelled(S, label, x)
             mine == [s \in group |-> figures[s]]
  <2>1. group \subseteq S /\ IsFiniteSet(group)
    BY FS_Subset DEF Labelled
  <2>2. amounts[x] = SumFunction(mine)
    OBVIOUS
  <2>3. DOMAIN mine = group /\ \A s \in group : mine[s] = figures[s] /\ mine[s] \in Nat
    BY <2>1
  <2> HIDE DEF group, mine
  <2>4. SumFunction(mine) = SumOver(group, mine)
    BY <2>1, <2>3, SumOfFunction
  <2>5. SumOver(group, mine) = SumOver(group, figures)
    BY <2>3, SumSameTerms
  <2> QED
    BY <2>2, <2>4, <2>5 DEF group
<1>3. DOMAIN counts = X /\ DOMAIN amounts = X
  OBVIOUS
<1>4. Tells(cells, figures) <=>
        SumFunction(counts) = Cardinality(S) /\ SumFunction(amounts) = SumFunction(figures)
  BY DEF Tells
<1> HIDE DEF counts, amounts
<1>5. SumOver(X, counts) = Cardinality(S) /\ \A x \in X : counts[x] \in Nat
  BY <1>1, CountByLabel
<1>6. SumOver(X, amounts) = SumOver(S, figures) /\ \A x \in X : amounts[x] \in Nat
  BY <1>2, SumByLabel
<1>7. SumFunction(counts) = SumOver(X, counts) /\ SumFunction(amounts) = SumOver(X, amounts)
      /\ SumFunction(figures) = SumOver(S, figures)
  BY <1>3, <1>5, <1>6, SumOfFunction
<1> QED
  BY <1>4, <1>5, <1>6, <1>7

LEMMA LabelsAreFinite ==
  ASSUME NEW S, IsFiniteSet(S), NEW label
  PROVE  IsFiniteSet({label[s] : s \in S})
<1> DEFINE f == [s \in S |-> label[s]]
           X == {label[s] : s \in S}
<1>1. f \in Surjection(S, X)
  BY DEF Surjection
<1> HIDE DEF f
<1> QED
  BY <1>1, FS_Surjection

\* Whatever labels the parts, the cells spend what is left of their purchases.
LEMMA LabelsSpend ==
  ASSUME NEW parts, IsFiniteSet(parts), NEW w, \A part \in parts : w[part] \in Nat,
         NEW cells, IsFiniteSet(DOMAIN cells),
         NEW label, \A part \in parts : label[part] \in DOMAIN cells,
         \A x \in DOMAIN cells :
           cells[x].netSpend = SumFunction([part \in Labelled(parts, label, x) |-> w[part]])
  PROVE  SumFunction([x \in DOMAIN cells |-> cells[x].netSpend]) = SumOver(parts, w)
<1> DEFINE X == DOMAIN cells
           spends == [x \in X |-> cells[x].netSpend]
<1>1. ASSUME NEW x \in X PROVE spends[x] = SumOver(Labelled(parts, label, x), w)
  <2> DEFINE group == Labelled(parts, label, x)
             mine == [part \in group |-> w[part]]
  <2>1. group \subseteq parts /\ IsFiniteSet(group)
    BY FS_Subset DEF Labelled
  <2>2. spends[x] = SumFunction(mine)
    OBVIOUS
  <2>3. DOMAIN mine = group /\ \A part \in group : mine[part] = w[part] /\ mine[part] \in Nat
    BY <2>1
  <2> HIDE DEF group, mine
  <2>4. SumFunction(mine) = SumOver(group, mine)
    BY <2>1, <2>3, SumOfFunction
  <2>5. SumOver(group, mine) = SumOver(group, w)
    BY <2>3, SumSameTerms
  <2> QED
    BY <2>2, <2>4, <2>5 DEF group
<1>2. DOMAIN spends = X
  OBVIOUS
<1> HIDE DEF spends
<1>3. SumOver(X, spends) = SumOver(parts, w) /\ \A x \in X : spends[x] \in Nat
  BY <1>1, SumByLabel
<1>4. SumFunction(spends) = SumOver(X, spends)
  BY <1>2, <1>3, SumOfFunction
<1> QED
  BY <1>3, <1>4 DEF spends

\* What the parts of each purchase spend, they spend together.
LEMMA OwnersSpend ==
  ASSUME NEW parts, IsFiniteSet(parts), NEW w, \A part \in parts : w[part] \in Nat,
         NEW left, IsFiniteSet(DOMAIN left),
         NEW owner, \A part \in parts : owner[part] \in DOMAIN left,
         \A p \in DOMAIN left :
           left[p] = SumFunction([part \in Labelled(parts, owner, p) |-> w[part]])
  PROVE  SumFunction(left) = SumOver(parts, w)
<1>1. ASSUME NEW p \in DOMAIN left PROVE left[p] = SumOver(Labelled(parts, owner, p), w)
  <2> DEFINE group == Labelled(parts, owner, p)
             mine == [part \in group |-> w[part]]
  <2>1. group \subseteq parts /\ IsFiniteSet(group)
    BY FS_Subset DEF Labelled
  <2>2. left[p] = SumFunction(mine)
    OBVIOUS
  <2>3. DOMAIN mine = group /\ \A part \in group : mine[part] = w[part] /\ mine[part] \in Nat
    BY <2>1
  <2> HIDE DEF group, mine
  <2>4. SumFunction(mine) = SumOver(group, mine)
    BY <2>1, <2>3, SumOfFunction
  <2>5. SumOver(group, mine) = SumOver(group, w)
    BY <2>3, SumSameTerms
  <2> QED
    BY <2>2, <2>4, <2>5 DEF group
<1>2. SumOver(DOMAIN left, left) = SumOver(parts, w) /\ \A p \in DOMAIN left : left[p] \in Nat
  BY <1>1, SumByLabel
<1> QED
  BY <1>2, SumOfFunction

LEMMA TotalTyped == ASSUME RowsSound, NEW s \in Sales PROVE SaleTotal(s) \in Nat
<1> DEFINE L == LinesOf(s)
           w == [sl \in L |-> LineTotal(line[sl])]
<1>1. L \subseteq Sales \X Lines /\ (\A sl \in L : line[sl] # None)
  BY DEF LinesOf
<1>2. IsFiniteSet(L)
  <2> HIDE DEF L
  <2>1. IsFiniteSet(Sales \X Lines)
    BY FigureConstants, FS_Product
  <2> QED
    BY <1>1, <2>1, FS_Subset
<1>3. DOMAIN w = L /\ \A sl \in L : w[sl] \in Nat
  <2> HIDE DEF L
  <2>1. ASSUME NEW sl \in L PROVE w[sl] \in Nat
    <3>1. line[sl] \in ItemRow
      BY <1>1 DEF RowsSound, FiguresTyped
    <3>2. line[sl].amount \in Nat /\ line[sl].quantity \in Nat /\ line[sl].over \in Nat \ {0}
      BY <3>1 DEF ItemRow
    <3>3. LineTotal(line[sl]) \in Nat
      BY <3>2, ScaledTyped DEF LineTotal
    <3> QED
      BY <3>3
  <2> QED
    BY <2>1
<1>4. SaleTotal(s) = SumFunction(w)
  BY DEF SaleTotal
<1> HIDE DEF w, L
<1> QED
  BY <1>2, <1>3, <1>4, SumOfFunction, SumIsNat

LEMMA LossTyped == ASSUME RowsSound, NEW l \in Losses, loss[l] # None PROVE LossValue(l) \in Nat
<1>1. loss[l] \in LossRow
  BY DEF RowsSound, FiguresTyped
<1>2. loss[l].amount \in Nat /\ loss[l].quantity \in Nat /\ loss[l].over \in Nat \ {0}
  BY <1>1 DEF LossRow
<1> QED
  BY <1>2, ScaledTyped DEF LossValue

\* A purchase keeps the lines of the note it was recorded as.
LEMMA PurchaseTyped ==
  ASSUME RowsSound, NEW p \in Purchases, purchase[p] # None
  PROVE  /\ purchase[p].shop \in Shops /\ purchase[p].date \in Nat
         /\ \A k \in Kinds : purchase[p].lines[k] # None =>
              purchase[p].lines[k].gross - purchase[p].lines[k].discount \in Nat
<1>1. purchase[p] \in PurchaseRow
  BY DEF RowsSound, FiguresTyped
<1>2. PICK note \in Recordable, waits \in BOOLEAN, instant \in Nat :
        purchase[p] = [shop |-> note.shop, lines |-> note.lines, pending |-> waits, date |-> instant]
  BY <1>1 DEF PurchaseRow
<1>3. purchase[p].shop = note.shop /\ purchase[p].lines = note.lines /\ purchase[p].date = instant
  BY <1>2
<1>4. ASSUME NEW k \in Kinds, note.lines[k] # None
      PROVE  note.lines[k].gross - note.lines[k].discount \in Nat
  <2>1. {note.lines[k].gross, note.lines[k].discount} \subseteq Nat
        /\ note.lines[k].discount <= note.lines[k].gross
    BY <1>4, FiguresAssumption
  <2> QED
    BY <2>1
<1> QED
  BY <1>3, <1>4 DEF Shops

-----------------------------------------------------------------------------

LEMMA StatusesAreFinite == IsFiniteSet(PaymentStatus) /\ IsFiniteSet(ProductionStatus)
<1>1. IsFiniteSet({"PENDING"}) /\ IsFiniteSet({"PENDING"} \cup {"ASSEMBLED"})
      /\ IsFiniteSet({"PENDING"} \cup {"ASSEMBLED"} \cup {"DELIVERED"})
      /\ IsFiniteSet({"PENDING"} \cup {"PAID"})
  BY FS_Singleton, FS_AddElement
<1>2. ProductionStatus = {"PENDING"} \cup {"ASSEMBLED"} \cup {"DELIVERED"}
      /\ PaymentStatus = {"PENDING"} \cup {"PAID"}
  BY DEF ProductionStatus, PaymentStatus
<1> QED
  BY <1>1, <1>2

LEMMA SalesPanel ==
  ASSUME RowsSound, NEW from \in Nat, NEW to \in Nat, from < to
  PROVE  LET sales == SalesDataset(from, to)
             sold == {s \in ExistingSales : sale[s].created \in from..to - 1}
             unsettled == {s \in ExistingSales :
                             sale[s].payment # "PAID" \/ sale[s].production # "DELIVERED"}
             saleTotals == [s \in sold |-> SaleTotal(s)]
             openTotals == [s \in unsettled |-> SaleTotal(s)]
         IN /\ Tells(sales.byMonth, saleTotals)
            /\ Tells(sales.byPaymentStatus, saleTotals)
            /\ Tells(sales.byProductionStatus, saleTotals)
            /\ Tells(sales.openItems, openTotals)
            /\ DOMAIN sales.byMonth = {BusinessMonth(t) : t \in from..to - 1}
<1> DEFINE sold == {s \in ExistingSales : sale[s].created \in from..to - 1}
           unsettled == {s \in ExistingSales :
                           sale[s].payment # "PAID" \/ sale[s].production # "DELIVERED"}
           saleTotals == [s \in sold |-> SaleTotal(s)]
           openTotals == [s \in unsettled |-> SaleTotal(s)]
           period == {s \in ExistingSales : from <= sale[s].created /\ sale[s].created < to}
           months == BusinessMonthsIn(from, to) \cup {BusinessMonth(sale[s].created) : s \in period}
           cells == {cell \in PaymentStatus \X ProductionStatus : IsOpen(cell[1], cell[2])}
           byMonth == [month \in months |->
                         SaleTotals({s \in period : BusinessMonth(sale[s].created) = month})]
           byPayment == [status \in PaymentStatus |->
                           SaleTotals({s \in period : sale[s].payment = status})]
           byProduction == [status \in ProductionStatus |->
                              SaleTotals({s \in period : sale[s].production = status})]
           openItems == [cell \in cells |->
                           SaleTotals({s \in ExistingSales :
                                         <<sale[s].payment, sale[s].production>> = cell})]
<1>1. ASSUME NEW s \in ExistingSales
      PROVE  /\ s \in Sales /\ sale[s].created \in Nat
             /\ sale[s].payment \in PaymentStatus /\ sale[s].production \in ProductionStatus
  <2>1. s \in Sales /\ sale[s] \in SaleRow
    BY DEF ExistingSales, RowsSound, FiguresTyped
  <2> QED
    BY <2>1 DEF SaleRow
<1>2. ExistingSales \subseteq Sales /\ IsFiniteSet(ExistingSales)
  BY FigureConstants, FS_Subset DEF ExistingSales
<1>3. period = sold /\ sold \subseteq ExistingSales /\ unsettled \subseteq ExistingSales
  BY <1>1
<1>4. months = {BusinessMonth(t) : t \in from..to - 1} /\ months = BusinessMonthsIn(from, to)
  <2>1. BusinessMonthsIn(from, to) = {BusinessMonth(t) : t \in from..to - 1}
    BY MonthsTouched
  <2>2. {BusinessMonth(sale[s].created) : s \in period} \subseteq BusinessMonthsIn(from, to)
    <3>1. \A s \in sold : BusinessMonth(sale[s].created) \in {BusinessMonth(t) : t \in from..to - 1}
      OBVIOUS
    <3> HIDE DEF period, sold
    <3> QED
      BY <1>3, <2>1, <3>1
  <2>3. \A A, B : B \subseteq A => A \cup B = A
    OBVIOUS
  <2> HIDE DEF period
  <2> QED
    BY ONLY <2>1, <2>2, <2>3, Zenon
<1>5. IsFiniteSet(months)
  <2> HIDE DEF months
  <2> QED
    BY <1>4, MonthsAreFinite
<1>6. ASSUME NEW group
      PROVE  /\ SaleTotals(group).count = Cardinality(group)
             /\ SaleTotals(group).amount = SumFunction([s \in group |-> SaleTotal(s)])
  <2>1. \A s \in group : SummaryTotal(s) = SaleTotal(s)
    BY DEF SummaryTotal, SaleTotal
  <2>2. [s \in group |-> SummaryTotal(s)] = [s \in group |-> SaleTotal(s)]
    BY <2>1
  <2> QED
    BY <2>2 DEF SaleTotals
<1>7. ASSUME NEW S \in SUBSET ExistingSales, NEW panel, IsFiniteSet(DOMAIN panel),
             NEW label, \A s \in S : label[s] \in DOMAIN panel,
             \A x \in DOMAIN panel : panel[x] = SaleTotals(Labelled(S, label, x))
      PROVE  Tells(panel, [s \in S |-> SaleTotal(s)])
  <2> DEFINE figures == [s \in S |-> SaleTotal(s)]
  <2>1. DOMAIN figures = S /\ IsFiniteSet(S) /\ \A s \in S : figures[s] \in Nat
    BY <1>2, <1>1, TotalTyped, FS_Subset
  <2>2. ASSUME NEW x \in DOMAIN panel
        PROVE  LET group == Labelled(S, label, x)
               IN /\ panel[x].count = Cardinality(group)
                  /\ panel[x].amount = SumFunction([s \in group |-> figures[s]])
    <3> DEFINE group == Labelled(S, label, x)
    <3>1. group \subseteq S
      BY DEF Labelled
    <3> HIDE DEF group
    <3>2. [s \in group |-> figures[s]] = [s \in group |-> SaleTotal(s)]
      BY <3>1
    <3>3. panel[x] = SaleTotals(group)
      BY <1>7 DEF group
    <3> HIDE DEF figures
    <3> QED
      BY <1>6, <3>2, <3>3 DEF group
  <2> HIDE DEF figures
  <2>3. Tells(panel, figures)
    BY <1>7, <2>1, <2>2, LabelsTell
  <2> QED
    BY <2>3 DEF figures
<1>8. Tells(byMonth, saleTotals)
  <2> DEFINE label == [s \in sold |-> BusinessMonth(sale[s].created)]
  <2>1. \A x : Labelled(sold, label, x) = {s \in period : BusinessMonth(sale[s].created) = x}
    BY <1>3 DEF Labelled
  <2>2. \A s \in sold : label[s] \in months
    BY <1>3
  <2>3. DOMAIN byMonth = months /\ \A x \in months : byMonth[x] = SaleTotals(Labelled(sold, label, x))
    BY <2>1
  <2> HIDE DEF byMonth, label, sold, months
  <2> QED
    BY <1>3, <1>5, <1>7, <2>2, <2>3
<1>9. Tells(byPayment, saleTotals)
  <2> DEFINE label == [s \in sold |-> sale[s].payment]
  <2>1. \A x : Labelled(sold, label, x) = {s \in period : sale[s].payment = x}
    BY <1>3 DEF Labelled
  <2>2. \A s \in sold : label[s] \in PaymentStatus
    BY <1>1, <1>3
  <2>3. DOMAIN byPayment = PaymentStatus
        /\ \A x \in PaymentStatus : byPayment[x] = SaleTotals(Labelled(sold, label, x))
    BY <2>1
  <2>4. IsFiniteSet(PaymentStatus)
    BY StatusesAreFinite
  <2> HIDE DEF byPayment, label, sold
  <2> QED
    BY <1>3, <1>7, <2>2, <2>3, <2>4
<1>10. Tells(byProduction, saleTotals)
  <2> DEFINE label == [s \in sold |-> sale[s].production]
  <2>1. \A x : Labelled(sold, label, x) = {s \in period : sale[s].production = x}
    BY <1>3 DEF Labelled
  <2>2. \A s \in sold : label[s] \in ProductionStatus
    BY <1>1, <1>3
  <2>3. DOMAIN byProduction = ProductionStatus
        /\ \A x \in ProductionStatus : byProduction[x] = SaleTotals(Labelled(sold, label, x))
    BY <2>1
  <2>4. IsFiniteSet(ProductionStatus)
    BY StatusesAreFinite
  <2> HIDE DEF byProduction, label, sold
  <2> QED
    BY <1>3, <1>7, <2>2, <2>3, <2>4
<1>11. Tells(openItems, openTotals)
  <2> DEFINE label == [s \in unsettled |-> <<sale[s].payment, sale[s].production>>]
  <2>1. \A s \in unsettled : label[s] \in cells
    <3> SUFFICES ASSUME NEW s \in unsettled PROVE label[s] \in cells
      OBVIOUS
    <3>1. sale[s].payment \in PaymentStatus /\ sale[s].production \in ProductionStatus
      BY <1>1, <1>3
    <3>2. IsOpen(sale[s].payment, sale[s].production)
      BY <3>1 DEF IsOpen, PaymentStatus
    <3> QED
      BY <3>1, <3>2
  <2>2. ASSUME NEW x \in cells
        PROVE  Labelled(unsettled, label, x)
                 = {s \in ExistingSales : <<sale[s].payment, sale[s].production>> = x}
    <3>1. ASSUME NEW s \in ExistingSales, <<sale[s].payment, sale[s].production>> = x
          PROVE  s \in unsettled
      <4>1. IsOpen(sale[s].payment, sale[s].production)
        BY <3>1
      <4> QED
        BY <4>1 DEF IsOpen
    <3> QED
      BY <3>1 DEF Labelled
  <2>3. DOMAIN openItems = cells
        /\ \A x \in cells : openItems[x] = SaleTotals(Labelled(unsettled, label, x))
    BY <2>2
  <2>4. IsFiniteSet(cells)
    <3>1. IsFiniteSet(PaymentStatus \X ProductionStatus)
      BY StatusesAreFinite, FS_Product
    <3>2. cells \subseteq PaymentStatus \X ProductionStatus
      OBVIOUS
    <3> HIDE DEF cells
    <3> QED
      BY <3>1, <3>2, FS_Subset
  <2> HIDE DEF openItems, label, unsettled, cells
  <2> QED
    BY <1>3, <1>7, <2>1, <2>3, <2>4
<1>12. LET sales == SalesDataset(from, to)
       IN /\ sales.byMonth = byMonth /\ sales.byPaymentStatus = byPayment
          /\ sales.byProductionStatus = byProduction /\ sales.openItems = openItems
  BY DEF SalesDataset
<1>13. DOMAIN byMonth = months
  OBVIOUS
<1> HIDE DEF byMonth, byPayment, byProduction, openItems, months, cells, period
<1> QED
  BY <1>4, <1>8, <1>9, <1>10, <1>11, <1>12, <1>13

LEMMA LossPanel ==
  ASSUME RowsSound, NEW from \in Nat, NEW to \in Nat, from < to
  PROVE  LET losses == LossDataset(from, to)
             lost == {l \in Losses : loss[l] # None /\ loss[l].created \in from..to - 1}
             lossValues == [l \in lost |-> LossValue(l)]
         IN /\ Tells(losses.byMonth, lossValues)
            /\ Tells(losses.byReason, lossValues)
            /\ Tells(losses.byMaterial, lossValues)
            /\ DOMAIN losses.byMonth = {BusinessMonth(t) : t \in from..to - 1}
<1> DEFINE lost == {l \in Losses : loss[l] # None /\ loss[l].created \in from..to - 1}
           lossValues == [l \in lost |-> LossValue(l)]
           period == {l \in Losses : loss[l] # None /\ from <= loss[l].created /\ loss[l].created < to}
           months == BusinessMonthsIn(from, to) \cup {BusinessMonth(loss[l].created) : l \in period}
           which == {loss[l].material : l \in period}
           byMonth == [month \in months |->
                         LossTotals({l \in period : BusinessMonth(loss[l].created) = month})]
           byReason == [reason \in Reasons |-> LossTotals({l \in period : loss[l].reason = reason})]
           byMaterial == [m \in which |-> LossTotals({l \in period : loss[l].material = m})]
<1>1. ASSUME NEW l \in Losses, loss[l] # None
      PROVE  /\ loss[l].created \in Nat /\ loss[l].reason \in Reasons
             /\ loss[l].material \in Materials /\ LossValue(l) \in Nat
  <2>1. loss[l] \in LossRow
    BY <1>1 DEF RowsSound, FiguresTyped
  <2> QED
    BY <1>1, <2>1, LossTyped DEF LossRow
<1>2. period = lost
  BY <1>1
<1>3. DOMAIN lossValues = lost /\ IsFiniteSet(lost) /\ \A l \in lost : lossValues[l] \in Nat
  <2>1. lost \subseteq Losses /\ \A l \in lost : LossValue(l) \in Nat
    BY <1>1
  <2>2. IsFiniteSet(lost)
    <3> HIDE DEF lost
    <3> QED
      BY <2>1, FigureConstants, FS_Subset
  <2> QED
    BY <2>1, <2>2
<1>4. months = {BusinessMonth(t) : t \in from..to - 1} /\ months = BusinessMonthsIn(from, to)
  <2>1. BusinessMonthsIn(from, to) = {BusinessMonth(t) : t \in from..to - 1}
    BY MonthsTouched
  <2>2. {BusinessMonth(loss[l].created) : l \in period} \subseteq BusinessMonthsIn(from, to)
    <3>1. \A l \in lost : BusinessMonth(loss[l].created) \in {BusinessMonth(t) : t \in from..to - 1}
      OBVIOUS
    <3> HIDE DEF period, lost
    <3> QED
      BY <1>2, <2>1, <3>1
  <2>3. \A A, B : B \subseteq A => A \cup B = A
    OBVIOUS
  <2> HIDE DEF period
  <2> QED
    BY ONLY <2>1, <2>2, <2>3, Zenon
<1>5. IsFiniteSet(months)
  <2> HIDE DEF months
  <2> QED
    BY <1>4, MonthsAreFinite
<1>6. ASSUME NEW panel, IsFiniteSet(DOMAIN panel),
             NEW label, \A l \in lost : label[l] \in DOMAIN panel,
             \A x \in DOMAIN panel : panel[x] = LossTotals(Labelled(lost, label, x))
      PROVE  Tells(panel, lossValues)
  <2>1. ASSUME NEW x \in DOMAIN panel
        PROVE  LET group == Labelled(lost, label, x)
               IN /\ panel[x].count = Cardinality(group)
                  /\ panel[x].amount = SumFunction([l \in group |-> lossValues[l]])
    <3> DEFINE group == Labelled(lost, label, x)
    <3>1. group \subseteq lost
      BY DEF Labelled
    <3> HIDE DEF group
    <3>2. [l \in group |-> lossValues[l]] = [l \in group |-> LossValue(l)]
      BY <3>1
    <3>3. panel[x] = LossTotals(group)
      BY <1>6 DEF group
    <3> HIDE DEF lossValues
    <3> QED
      BY <3>2, <3>3 DEF group, LossTotals
  <2> HIDE DEF lossValues, lost
  <2> QED
    BY <1>3, <1>6, <2>1, LabelsTell
<1>7. Tells(byMonth, lossValues)
  <2> DEFINE label == [l \in lost |-> BusinessMonth(loss[l].created)]
  <2>1. \A x : Labelled(lost, label, x) = {l \in period : BusinessMonth(loss[l].created) = x}
    BY <1>2 DEF Labelled
  <2>2. \A l \in lost : label[l] \in months
    BY <1>2
  <2>3. DOMAIN byMonth = months /\ \A x \in months : byMonth[x] = LossTotals(Labelled(lost, label, x))
    BY <2>1
  <2> HIDE DEF byMonth, label, lost, months, lossValues
  <2> QED
    BY <1>5, <1>6, <2>2, <2>3
<1>8. Tells(byReason, lossValues)
  <2> DEFINE label == [l \in lost |-> loss[l].reason]
  <2>1. \A x : Labelled(lost, label, x) = {l \in period : loss[l].reason = x}
    BY <1>2 DEF Labelled
  <2>2. \A l \in lost : label[l] \in Reasons
    BY <1>1
  <2>3. DOMAIN byReason = Reasons
        /\ \A x \in Reasons : byReason[x] = LossTotals(Labelled(lost, label, x))
    BY <2>1
  <2> HIDE DEF byReason, label, lost, lossValues
  <2> QED
    BY <1>6, <2>2, <2>3, FigureConstants
<1>9. Tells(byMaterial, lossValues)
  <2> DEFINE label == [l \in lost |-> loss[l].material]
  <2>1. \A x : Labelled(lost, label, x) = {l \in period : loss[l].material = x}
    BY <1>2 DEF Labelled
  <2>2. \A l \in lost : label[l] \in which
    BY <1>2
  <2>3. DOMAIN byMaterial = which
        /\ \A x \in which : byMaterial[x] = LossTotals(Labelled(lost, label, x))
    BY <2>1
  <2>4. IsFiniteSet(which)
    <3>1. which \subseteq Materials
      BY <1>1
    <3> HIDE DEF which
    <3> QED
      BY <3>1, FigureConstants, FS_Subset
  <2> HIDE DEF byMaterial, label, lost, lossValues, which
  <2> QED
    BY <1>6, <2>2, <2>3, <2>4
<1>10. LET losses == LossDataset(from, to)
       IN /\ losses.byMonth = byMonth /\ losses.byReason = byReason
          /\ losses.byMaterial = byMaterial
  BY DEF LossDataset
<1>11. DOMAIN byMonth = months
  OBVIOUS
<1> HIDE DEF byMonth, byReason, byMaterial, months, which, period
<1> QED
  BY <1>4, <1>7, <1>8, <1>9, <1>10, <1>11

LEMMA KindsAreFinite == IsFiniteSet(Kinds)
<1>1. IsFiniteSet({"stock"}) /\ IsFiniteSet({"stock"} \cup {"other"})
  BY FS_Singleton, FS_AddElement
<1>2. Kinds = {"stock"} \cup {"other"}
  BY DEF Kinds
<1> QED
  BY <1>1, <1>2

LEMMA SpendingPanel ==
  ASSUME RowsSound, NEW from \in Nat, NEW to \in Nat, from < to
  PROVE  LET spending == SpendingDataset(from, to, Shops)
             spent == {p \in Purchases : /\ purchase[p] # None /\ ~ purchase[p].pending
                                         /\ purchase[p].date \in from..to - 1
                                         /\ \E k \in Kinds : purchase[p].lines[k] # None}
             left == [p \in spent |-> SumFunction([part \in PartsOf(p) |-> NetSpend(part)])]
         IN /\ Spends(spending.byPeriod, left) /\ CountsOnce(spending.byPeriod, spent)
            /\ Spends(spending.byEstablishment, left)
            /\ CountsOnce(spending.byEstablishment, spent)
            /\ Spends(spending.byStockMaterial, left)
<1> DEFINE spent == {p \in Purchases : /\ purchase[p] # None /\ ~ purchase[p].pending
                                       /\ purchase[p].date \in from..to - 1
                                       /\ \E k \in Kinds : purchase[p].lines[k] # None}
           left == [p \in spent |-> SumFunction([part \in PartsOf(p) |-> NetSpend(part)])]
           counted == {p \in Purchases :
                         /\ purchase[p] # None /\ ~ purchase[p].pending
                         /\ from <= purchase[p].date /\ purchase[p].date < to
                         /\ purchase[p].shop \in Shops}
           parts == {part \in counted \X Kinds : purchase[part[1]].lines[part[2]] # None}
           By(label) ==
             [x \in {label[part[1]] : part \in parts} |->
                SpendingTotals({part \in parts : label[part[1]] = x})]
           month == [p \in counted |-> BusinessMonth(purchase[p].date)]
           shop == [p \in counted |-> purchase[p].shop]
           byKind == [k \in Kinds |-> SpendingTotals({part \in parts : part[2] = k})]
           w == [part \in parts |-> NetSpend(part)]
           owner == [part \in parts |-> part[1]]
<1>1. /\ counted \subseteq Purchases /\ IsFiniteSet(counted)
      /\ spent \subseteq counted /\ IsFiniteSet(spent)
  <2>1. counted \subseteq Purchases
    OBVIOUS
  <2>2. spent \subseteq counted
    BY PurchaseTyped
  <2> HIDE DEF counted, spent
  <2> QED
    BY <2>1, <2>2, FigureConstants, FS_Subset
<1>2. parts \subseteq counted \X Kinds /\ IsFiniteSet(parts)
  <2>1. parts \subseteq counted \X Kinds
    OBVIOUS
  <2> HIDE DEF counted, parts
  <2> QED
    BY <1>1, <2>1, KindsAreFinite, FS_Product, FS_Subset
<1>3. ASSUME NEW part \in parts PROVE NetSpend(part) \in Nat /\ w[part] = NetSpend(part)
  <2>1. part[1] \in Purchases /\ purchase[part[1]] # None /\ part[2] \in Kinds
        /\ purchase[part[1]].lines[part[2]] # None
    OBVIOUS
  <2>2. NetSpend(part) \in Nat
    BY <2>1, PurchaseTyped DEF NetSpend
  <2> QED
    BY <2>2
<1>4. spent = {part[1] : part \in parts}
  <2>1. ASSUME NEW part \in parts PROVE part[1] \in spent
    <3>1. part[1] \in counted /\ part[2] \in Kinds /\ purchase[part[1]].lines[part[2]] # None
      OBVIOUS
    <3>2. purchase[part[1]].date \in Nat
      BY <3>1, PurchaseTyped
    <3> QED
      BY <3>1, <3>2
  <2>2. ASSUME NEW p \in spent PROVE \E part \in parts : part[1] = p
    <3>1. PICK k \in Kinds : purchase[p].lines[k] # None
      OBVIOUS
    <3>2. p \in counted
      BY <1>1
    <3>3. <<p, k>> \in parts /\ <<p, k>>[1] = p
      BY <3>1, <3>2
    <3> QED
      BY <3>3
  <2> HIDE DEF spent, parts
  <2> QED
    BY <2>1, <2>2
<1>5. ASSUME NEW p \in spent
      PROVE  left[p] = SumFunction([part \in Labelled(parts, owner, p) |-> w[part]])
  <2>1. PartsOf(p) = Labelled(parts, owner, p)
    <3>1. p \in counted
      BY <1>1
    <3>2. ASSUME NEW part \in PartsOf(p) PROVE part \in parts /\ owner[part] = p
      BY <3>1 DEF PartsOf
    <3>3. ASSUME NEW part \in parts, owner[part] = p PROVE part \in PartsOf(p)
      BY <3>3 DEF PartsOf
    <3> HIDE DEF parts, owner
    <3> QED
      BY <3>2, <3>3 DEF Labelled, PartsOf
  <2>2. PartsOf(p) \subseteq parts
    BY <2>1 DEF Labelled
  <2>3. [part \in PartsOf(p) |-> NetSpend(part)] = [part \in PartsOf(p) |-> w[part]]
    <3> HIDE DEF parts, w
    <3> QED
      BY <1>3, <2>2
  <2> QED
    BY <2>1, <2>3
<1>6. SumFunction(left) = SumOver(parts, w)
  <2>1. DOMAIN left = spent /\ \A part \in parts : owner[part] \in spent
    BY <1>4
  <2> HIDE DEF left, owner, parts, w, spent
  <2> QED
    BY <1>1, <1>2, <1>3, <1>5, <2>1, OwnersSpend
<1>7. ASSUME NEW X, IsFiniteSet(X), NEW label, \A part \in parts : label[part] \in X,
             NEW cells, DOMAIN cells = X,
             \A x \in X : cells[x] = SpendingTotals(Labelled(parts, label, x))
      PROVE  Spends(cells, left)
  <2>1. ASSUME NEW x \in X
        PROVE  cells[x].netSpend = SumFunction([part \in Labelled(parts, label, x) |-> w[part]])
    <3> DEFINE group == Labelled(parts, label, x)
    <3>1. group \subseteq parts
      BY DEF Labelled
    <3>2. cells[x] = SpendingTotals(group)
      BY <1>7
    <3> HIDE DEF group, parts, w
    <3>3. [part \in group |-> NetSpend(part)] = [part \in group |-> w[part]]
      BY <1>3, <3>1
    <3> QED
      BY <3>2, <3>3 DEF SpendingTotals, group
  <2> HIDE DEF parts, w, left
  <2>2. SumFunction([x \in DOMAIN cells |-> cells[x].netSpend]) = SumOver(parts, w)
    BY <1>2, <1>3, <1>7, <2>1, LabelsSpend
  <2> QED
    BY <1>6, <2>2 DEF Spends
<1>8. ASSUME NEW label PROVE Spends(By(label), left) /\ CountsOnce(By(label), spent)
  <2> DEFINE X == {label[part[1]] : part \in parts}
             tag == [part \in parts |-> label[part[1]]]
             cells == By(label)
             counts == [x \in X |-> cells[x].purchaseCount]
  <2>1. X = {label[p] : p \in spent}
    <3> HIDE DEF parts, spent
    <3> QED
      BY <1>4
  <2>2. IsFiniteSet(X)
    <3> HIDE DEF X, spent
    <3> QED
      BY <1>1, <2>1, LabelsAreFinite
  <2>3. DOMAIN cells = X /\ \A x \in X : cells[x] = SpendingTotals({part \in parts : label[part[1]] = x})
    OBVIOUS
  <2>4. \A x : Labelled(parts, tag, x) = {part \in parts : label[part[1]] = x}
    BY DEF Labelled
  <2>5. \A part \in parts : tag[part] \in X
    OBVIOUS
  <2>6. ASSUME NEW x \in X PROVE counts[x] = Cardinality(Labelled(spent, label, x))
    <3>1. {part[1] : part \in {part \in parts : label[part[1]] = x}} = Labelled(spent, label, x)
      <4> HIDE DEF parts, spent
      <4> QED
        BY <1>4 DEF Labelled
    <3>2. counts[x] = SpendingTotals({part \in parts : label[part[1]] = x}).purchaseCount
      BY <2>3
    <3> HIDE DEF parts, spent, counts
    <3> QED
      BY <3>1, <3>2 DEF SpendingTotals
  <2>7. Spends(cells, left)
    <3> HIDE DEF X, tag, cells, parts, left
    <3> QED
      BY <1>7, <2>2, <2>3, <2>4, <2>5
  <2>8. CountsOnce(cells, spent)
    <3>1. DOMAIN counts = X /\ \A p \in spent : label[p] \in X
      BY <2>1
    <3>2. CountsOnce(cells, spent) <=> SumFunction(counts) = Cardinality(spent)
      BY <2>3 DEF CountsOnce
    <3> HIDE DEF counts, X, cells, spent
    <3>3. SumOver(X, counts) = Cardinality(spent) /\ \A x \in X : counts[x] \in Nat
      BY <1>1, <2>2, <2>6, <3>1, CountByLabel
    <3>4. SumFunction(counts) = SumOver(X, counts)
      BY <2>2, <3>1, <3>3, SumOfFunction
    <3> QED
      BY <3>2, <3>3, <3>4
  <2> QED
    BY <2>7, <2>8
<1>9. Spends(byKind, left)
  <2> DEFINE tag == [part \in parts |-> part[2]]
  <2>1. \A x : Labelled(parts, tag, x) = {part \in parts : part[2] = x}
    BY DEF Labelled
  <2>2. \A part \in parts : tag[part] \in Kinds
    OBVIOUS
  <2>3. DOMAIN byKind = Kinds /\ \A k \in Kinds : byKind[k] = SpendingTotals(Labelled(parts, tag, k))
    BY <2>1
  <2> HIDE DEF tag, parts, byKind, left
  <2> QED
    BY <1>7, <2>2, <2>3, KindsAreFinite
<1>10. LET spending == SpendingDataset(from, to, Shops)
       IN /\ spending.byPeriod = By(month) /\ spending.byEstablishment = By(shop)
          /\ spending.byStockMaterial = byKind
  BY DEF SpendingDataset
<1>11. /\ Spends(By(month), left) /\ CountsOnce(By(month), spent)
       /\ Spends(By(shop), left) /\ CountsOnce(By(shop), spent)
  <2> HIDE DEF left, spent, By, month, shop
  <2> QED
    BY <1>8
<1> HIDE DEF By, month, shop, byKind, counted, parts
<1> QED
  BY <1>9, <1>10, <1>11

LEMMA PanelsTell == RowsSound => PanelsTellTheDetails
<1> SUFFICES ASSUME RowsSound, NEW asked \in Periods
    PROVE LET sales == SalesDataset(asked[1], asked[2])
              losses == LossDataset(asked[1], asked[2])
              instants == asked[1]..asked[2] - 1
              sold == {s \in ExistingSales : sale[s].created \in instants}
              lost == {l \in Losses : loss[l] # None /\ loss[l].created \in instants}
              unsettled == {s \in ExistingSales :
                              sale[s].payment # "PAID" \/ sale[s].production # "DELIVERED"}
              saleTotals == [s \in sold |-> SaleTotal(s)]
              openTotals == [s \in unsettled |-> SaleTotal(s)]
              lossValues == [l \in lost |-> LossValue(l)]
              months == {BusinessMonth(t) : t \in instants}
              spending == SpendingDataset(asked[1], asked[2], Shops)
              spent == {p \in Purchases : /\ purchase[p] # None /\ ~ purchase[p].pending
                                          /\ purchase[p].date \in instants
                                          /\ \E k \in Kinds : purchase[p].lines[k] # None}
              left == [p \in spent |-> SumFunction([part \in PartsOf(p) |-> NetSpend(part)])]
          IN /\ Spends(spending.byPeriod, left) /\ CountsOnce(spending.byPeriod, spent)
             /\ Spends(spending.byEstablishment, left) /\ CountsOnce(spending.byEstablishment, spent)
             /\ Spends(spending.byStockMaterial, left)
             /\ Tells(sales.byMonth, saleTotals)
             /\ Tells(sales.byPaymentStatus, saleTotals)
             /\ Tells(sales.byProductionStatus, saleTotals)
             /\ Tells(sales.openItems, openTotals)
             /\ Tells(losses.byMonth, lossValues)
             /\ Tells(losses.byReason, lossValues)
             /\ Tells(losses.byMaterial, lossValues)
             /\ DOMAIN sales.byMonth = months /\ DOMAIN losses.byMonth = months
  BY DEF PanelsTellTheDetails
<1>1. asked[1] \in Nat /\ asked[2] \in Nat /\ asked[1] < asked[2]
  BY FigureConstants DEF Periods
<1> QED
  BY <1>1, SalesPanel, LossPanel, SpendingPanel

\* Whatever the period asked, the panels of sales, losses and spending add up
\* to what the details show, each row counted once (saleLineTotal,
\* buildStockLossDataset, spendingDataset).
THEOREM ThePanelsAddUp == FiguresSpec => []PanelsTellTheDetails
BY RowsStaySound, PanelsTell, PTL

=============================================================================
