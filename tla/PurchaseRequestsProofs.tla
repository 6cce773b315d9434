----------------------- MODULE PurchaseRequestsProofs ------------------------
(***************************************************************************)
(* Proofs about PurchaseRequests, for any number of requests, lines, values*)
(* and discounts: however requests interleave, the stored purchase closes, *)
(* its shares are current unless a torn load made them, and stock holds    *)
(* what classifications entered.                                           *)
(***************************************************************************)
EXTENDS PurchaseRequests, StockMathProofs, WellFoundedInduction

-----------------------------------------------------------------------------
(* The highest of a set of costs.                                          *)

IsHighest(n, S) == n \in S /\ \A y \in S : y <= n

LEMMA HighestIsMax ==
  ASSUME NEW S \in SUBSET Nat, NEW n, IsHighest(n, S)
  PROVE  Sets!Max(S) = n
<1>1. \E x \in S : \A y \in S : x >= y
  BY DEF IsHighest
<1>2. Sets!Max(S) \in S /\ \A y \in S : Sets!Max(S) >= y
  BY <1>1, Zenon DEF Sets!Max
<1> DEFINE top == Sets!Max(S)
<1>3. top \in S /\ \A y \in S : top >= y
  BY <1>2
<1> HIDE DEF top
<1>4. top = n
  BY <1>3 DEF IsHighest
<1> QED
  BY <1>4 DEF top

\* The least bound of a set of naturals is in it.
LEMMA HighestExists ==
  ASSUME NEW S \in SUBSET Nat, S # {}, NEW bound \in Nat, \A y \in S : y <= bound
  PROVE  IsHighest(Sets!Max(S), S)
<1> DEFINE bounds == {n \in Nat : \A y \in S : y <= n}
           less == OpToRel(<, Nat)
<1>1. bounds \subseteq Nat /\ bounds # {}
  BY DEF bounds
<1>2. IsWellFoundedOn(less, Nat)
  BY NatLessThanWellFounded
<1>3. \E n \in bounds : \A y \in bounds : ~ (<<y, n>> \in less)
  <2> HIDE DEF bounds, less
  <2> QED
    BY <1>1, <1>2, WFMin
<1>4. PICK n \in bounds : \A y \in bounds : ~ (<<y, n>> \in less)
  BY <1>3
<1>5. \A y \in bounds : ~ (y < n)
  BY <1>4 DEF OpToRel
<1>6. n \in S
  <2> SUFFICES ASSUME n \notin S PROVE FALSE
    OBVIOUS
  <2>1. \A y \in S : y \in Nat /\ y <= n - 1
    OBVIOUS
  <2>2. n - 1 \in bounds
    <3>1. PICK y \in S : TRUE
      OBVIOUS
    <3>2. y \in Nat /\ y <= n - 1 /\ n \in Nat
      BY <2>1
    <3>3. n - 1 \in Nat
      BY <3>2
    <3> QED
      BY <2>1, <3>3
  <2> QED
    BY <1>5, <2>2
<1>7. IsHighest(n, S)
  BY <1>6 DEF IsHighest
<1> QED
  BY <1>7, HighestIsMax

\* A term of a sum is no more than the sum.
LEMMA TermIsCovered ==
  ASSUME NEW w \in Amounts, NEW l \in Lines
  PROVE  w[l] <= SumOver(Lines, w) /\ SumOver(Lines, w) \in Nat
<1>1. \A x \in Lines : w[x] \in Nat
  BY DEF Amounts
<1>2. IsFiniteSet(Lines) /\ IsFiniteSet(Lines \ {l})
  BY LinesAssumption, FS_RemoveElement
<1>3. SumOver(Lines, w) = SumOver(Lines \ {l}, w) + w[l]
  BY <1>1, <1>2, SumSplit
<1>4. SumOver(Lines \ {l}, w) \in Nat
  BY <1>1, <1>2, SumIsNat
<1> QED
  BY <1>1, <1>3, <1>4

\* The cost a batch of lines leaves is natural.
LEMMA CostIsNat ==
  ASSUME NEW cost \in Nat, NEW g \in Amounts, NEW ls \in SUBSET Lines
  PROVE  CostAfter(cost, {g[l] : l \in ls}) \in Nat
<1> DEFINE costs == {cost} \cup {g[l] : l \in ls}
           total == SumOver(Lines, g)
<1>1. costs \in SUBSET Nat /\ costs # {}
  BY DEF Amounts
<1>2. total \in Nat
  <2>1. IsFiniteSet(Lines) /\ \A x \in Lines : g[x] \in Nat
    BY LinesAssumption DEF Amounts
  <2> QED
    BY <2>1, SumIsNat
<1>3. \A l \in ls : g[l] <= total
  BY TermIsCovered
<1>4. \A y \in costs : y <= cost + total
  <2>1. \A l \in ls : g[l] \in Nat
    BY DEF Amounts
  <2> HIDE DEF total
  <2> QED
    BY <1>2, <1>3, <2>1
<1>5. IsHighest(Sets!Max(costs), costs)
  <2>1. cost + total \in Nat
    BY <1>2
  <2> HIDE DEF costs
  <2> QED
    BY <1>1, <1>4, <2>1, HighestExists
<1>6. Sets!Max(costs) \in Nat
  <2> HIDE DEF costs
  <2> QED
    BY <1>1, <1>5 DEF IsHighest
<1> QED
  BY <1>6 DEF CostAfter

-----------------------------------------------------------------------------
(* Purchases.                                                              *)

Purchases ==
  [lines : SUBSET Lines, gross : Amounts, company : SUBSET Lines, allocated : Amounts,
   grossTotal : Nat, discountTotal : Nat, mode : Modes, pending : BOOLEAN,
   registered : BOOLEAN]

Headers == [grossTotal : Nat, discountTotal : Nat, mode : Modes, pending : BOOLEAN]

\* Nothing is kept of a line the purchase does not have.
WellFormed(p) ==
  /\ p \in Purchases
  /\ p.company \subseteq p.lines
  /\ \A l \in Lines \ p.lines : p.gross[l] = 0 /\ p.allocated[l] = 0

\* Only MANUAL waits, and only for a discount; a fact about headers.
WaitsForManual(h) == h.pending => h.mode = "MANUAL" /\ h.discountTotal # 0

Sound(p) == WellFormed(p) /\ WaitsForManual(p) /\ Accepts(p)

Current(p) ==
  p.mode = "MANUAL" \/
    p.allocated \in Allocations(p.lines, p.gross, p.company, p.discountTotal, p.mode, NoAmounts)

\* A sum over the lines of a purchase is a sum over all lines.
LEMMA SumOverLines ==
  ASSUME NEW ls \in SUBSET Lines, NEW w, \A l \in Lines \ ls : w[l] = 0
  PROVE  SumOver(ls, w) = SumOver(Lines, w)
<1>1. Units(ls, w) = Units(Lines, w)
  BY DEF Units
<1> QED
  BY <1>1 DEF SumOver

LEMMA SumOfLinesIsNat ==
  ASSUME NEW ls \in SUBSET Lines, NEW w \in Amounts
  PROVE  SumOver(ls, w) \in Nat
<1>1. IsFiniteSet(ls) /\ \A l \in ls : w[l] \in Nat
  BY SubsetFinite DEF Amounts
<1> QED
  BY <1>1, SumIsNat

LEMMA NoAmountsTyped == NoAmounts \in Amounts
BY DEF NoAmounts, Amounts

\* A purchase without a discount attributes none.
LEMMA NothingToAttribute ==
  ASSUME NEW p, Sound(p), p.discountTotal = 0, NEW l \in Lines
  PROVE  p.allocated[l] = 0
<1>1. SumOver(p.lines, p.allocated) = 0
  BY DEF Sound, WaitsForManual, Accepts
<1>2. p.lines \in SUBSET Lines /\ p.allocated \in Amounts
  BY DEF Sound, WellFormed, Purchases
<1>3. SumOver(Lines, p.allocated) = 0
  BY <1>1, <1>2, SumOverLines DEF Sound, WellFormed
<1> QED
  BY <1>2, <1>3, SumOfNothing

\* The attribution of a mode is sound and current, whatever was attributed before.
LEMMA ReallocatedIsSound ==
  ASSUME NEW p, WellFormed(p), p.discountTotal <= p.grossTotal,
         p.lines = {} \/ SumOver(p.lines, p.gross) = p.grossTotal,
         NEW m \in Modes, NEW manual, m # "MANUAL" \/ manual \in Amounts,
         NEW q \in Reallocated(p, m, manual)
  PROVE  Sound(q) /\ Current(q) /\ q.registered = p.registered
<1> DEFINE chosen == IF m = "MANUAL" THEN manual ELSE NoAmounts
<1>1. PICK a \in Allocations(p.lines, p.gross, p.company, p.discountTotal, m, manual) :
        q = [p EXCEPT !.allocated = a, !.mode = m, !.pending = FALSE]
  BY DEF Reallocated
<1>2. a \in Allocations(p.lines, p.gross, p.company, p.discountTotal, m, chosen)
  BY <1>1, TypedIsIgnored
<1>3. p \in Purchases /\ chosen \in Amounts
  BY NoAmountsTyped DEF WellFormed
<1>4. Given(p.lines, p.gross, p.company, p.discountTotal, m, chosen)
  BY <1>3 DEF Given, Purchases
<1>5. /\ a \in Amounts
      /\ SumOver(Lines, a) = p.discountTotal
      /\ \A l \in Lines : a[l] <= p.gross[l]
      /\ \A l \in Lines \ EligibleLines(p.lines, p.company, m) : a[l] = 0
  <2> HIDE DEF chosen
  <2> QED
    BY <1>2, <1>4, AllocationCloses
<1>6. /\ q \in Purchases
      /\ q.lines = p.lines /\ q.gross = p.gross /\ q.company = p.company
      /\ q.grossTotal = p.grossTotal /\ q.discountTotal = p.discountTotal
      /\ q.allocated = a /\ q.mode = m /\ q.pending = FALSE /\ q.registered = p.registered
  BY <1>1, <1>3, <1>5 DEF Purchases
<1>7. EligibleLines(p.lines, p.company, m) \subseteq p.lines /\ p.lines \subseteq Lines
  BY <1>3, EligibleAreLines DEF Purchases
<1>8. WellFormed(q)
  BY <1>5, <1>6, <1>7 DEF WellFormed
<1>9. SumOver(q.lines, q.allocated) = q.discountTotal
  <2>1. \A l \in Lines \ p.lines : a[l] = 0
    BY <1>5, <1>7
  <2> QED
    BY <1>5, <1>6, <1>7, <2>1, SumOverLines
<1>10. Accepts(q)
  BY <1>5, <1>6, <1>7, <1>9 DEF Accepts, ItemAccepted, NothingOutside
<1>11. Current(q)
  BY <1>2, <1>6 DEF Current
<1> QED
  BY <1>6, <1>8, <1>10, <1>11 DEF Sound, WaitsForManual

\* So is the purchase an edit of its lines leaves, computed or parked.
LEMMA RestructuredIsSound ==
  ASSUME NEW p, WellFormed(p), \A l \in p.lines : p.allocated[l] <= p.gross[l],
         p.discountTotal = 0 => \A l \in Lines : p.allocated[l] = 0,
         NEW q \in Restructured(p)
  PROVE  Sound(q) /\ Current(q) /\ q.registered = p.registered
<1> DEFINE total == SumOver(p.lines, p.gross)
           closed == [p EXCEPT !.grossTotal = total]
<1>1. p \in Purchases
  BY DEF WellFormed
<1>2. total \in Nat
  BY <1>1, SumOfLinesIsNat DEF Purchases
<1>3. /\ closed \in Purchases
      /\ closed.lines = p.lines /\ closed.gross = p.gross /\ closed.company = p.company
      /\ closed.allocated = p.allocated /\ closed.discountTotal = p.discountTotal
      /\ closed.mode = p.mode /\ closed.registered = p.registered
      /\ closed.grossTotal = total
  <2> HIDE DEF total
  <2> QED
    BY <1>1, <1>2 DEF Purchases
<1>4. /\ p.discountTotal <= total
      /\ p.mode # "MANUAL" => q \in Reallocated(closed, p.mode, NoAmounts)
      /\ p.mode = "MANUAL" => q = [closed EXCEPT !.pending = (p.discountTotal # 0)]
  <2>1. p.discountTotal \in Nat /\ ~ p.discountTotal > total
    BY <1>1 DEF Restructured, Purchases
  <2> QED
    BY <1>2, <2>1 DEF Restructured
<1>5. WellFormed(closed)
  BY <1>3 DEF WellFormed
<1>6. closed.lines = {} \/ SumOver(closed.lines, closed.gross) = closed.grossTotal
  BY <1>3
<1> HIDE DEF closed, total
<1>7. CASE p.mode # "MANUAL"
  <2>1. p.mode \in Modes
    BY <1>1 DEF Purchases
  <2> QED
    BY <1>3, <1>4, <1>5, <1>6, <1>7, <2>1, ReallocatedIsSound
<1>8. CASE p.mode = "MANUAL"
  <2>1. /\ q \in Purchases
        /\ q.lines = p.lines /\ q.gross = p.gross /\ q.company = p.company
        /\ q.allocated = p.allocated /\ q.discountTotal = p.discountTotal
        /\ q.mode = "MANUAL" /\ q.registered = p.registered /\ q.grossTotal = total
        /\ q.pending = (p.discountTotal # 0)
    BY <1>3, <1>4, <1>8 DEF Purchases
  <2>2. EligibleLines(q.lines, q.company, q.mode) = q.lines
    BY <2>1 DEF EligibleLines
  <2>3. ~ q.pending => SumOver(q.lines, q.allocated) = q.discountTotal
    <3> SUFFICES ASSUME p.discountTotal = 0 PROVE SumOver(p.lines, p.allocated) = 0
      BY <2>1
    <3>1. \A l \in p.lines : p.allocated[l] = 0
      BY <1>1 DEF Purchases
    <3> QED
      BY <3>1, SumOfZeros
  <2>4. Accepts(q)
    BY <1>4, <2>1, <2>2, <2>3 DEF Accepts, ItemAccepted, NothingOutside, total
  <2>5. WellFormed(q)
    BY <2>1 DEF WellFormed
  <2> QED
    BY <2>1, <2>4, <2>5 DEF Sound, WaitsForManual, Current
<1> QED
  BY <1>7, <1>8

-----------------------------------------------------------------------------
(* The operations of the root.                                             *)

LEMMA WithItemIsSound ==
  ASSUME NEW p, Sound(p), NEW l \in Lines \ p.lines, NEW value \in Nat, NEW ours \in BOOLEAN,
         NEW q \in WithItem(p, l, value, ours)
  PROVE  Sound(q) /\ Current(q) /\ q.registered = p.registered
<1> DEFINE edited == [p EXCEPT !.lines = @ \cup {l}, !.gross[l] = value, !.allocated[l] = 0,
                               !.company = IF ours THEN @ \cup {l} ELSE @]
<1>1. p \in Purchases /\ WellFormed(p)
  BY DEF Sound, WellFormed
<1>2. /\ edited \in Purchases
      /\ edited.lines = p.lines \cup {l}
      /\ edited.gross = [p.gross EXCEPT ![l] = value]
      /\ edited.allocated = [p.allocated EXCEPT ![l] = 0]
      /\ edited.company = (IF ours THEN p.company \cup {l} ELSE p.company)
      /\ edited.discountTotal = p.discountTotal /\ edited.registered = p.registered
  BY <1>1 DEF Purchases, Amounts
<1>3. q \in Restructured(edited)
  BY DEF WithItem
<1> HIDE DEF edited
<1>4. p.gross \in Amounts /\ p.allocated \in Amounts
  BY <1>1 DEF Purchases
<1>5. WellFormed(edited)
  BY <1>1, <1>2, <1>4 DEF WellFormed, Amounts
<1>6. \A x \in edited.lines : edited.allocated[x] <= edited.gross[x]
  <2>1. \A x \in p.lines : p.allocated[x] <= p.gross[x]
    BY DEF Sound, Accepts, ItemAccepted
  <2>2. edited.lines \subseteq Lines
    BY <1>2 DEF Purchases
  <2> QED
    BY <1>2, <1>4, <2>1, <2>2 DEF Amounts
<1>7. edited.discountTotal = 0 => \A x \in Lines : edited.allocated[x] = 0
  <2>1. p.discountTotal = 0 => \A x \in Lines : p.allocated[x] = 0
    BY NothingToAttribute
  <2> QED
    BY <1>2, <1>4, <2>1 DEF Amounts
<1>8. Sound(q) /\ Current(q) /\ q.registered = edited.registered
  BY <1>3, <1>5, <1>6, <1>7, RestructuredIsSound
<1> QED
  BY <1>2, <1>8

LEMMA WithoutItemIsSound ==
  ASSUME NEW p, Sound(p), NEW l \in p.lines, NEW q \in WithoutItem(p, l)
  PROVE  Sound(q) /\ Current(q) /\ q.registered = p.registered
<1> DEFINE edited == [p EXCEPT !.lines = @ \ {l}, !.gross[l] = 0, !.allocated[l] = 0,
                               !.company = @ \ {l}]
<1>1. p \in Purchases /\ WellFormed(p) /\ l \in Lines
  BY DEF Sound, WellFormed, Purchases
<1>2. /\ edited \in Purchases
      /\ edited.lines = p.lines \ {l}
      /\ edited.gross = [p.gross EXCEPT ![l] = 0]
      /\ edited.allocated = [p.allocated EXCEPT ![l] = 0]
      /\ edited.company = p.company \ {l}
      /\ edited.discountTotal = p.discountTotal /\ edited.registered = p.registered
  BY <1>1 DEF Purchases, Amounts
<1>3. q \in Restructured(edited)
  BY DEF WithoutItem
<1> HIDE DEF edited
<1>4. p.gross \in Amounts /\ p.allocated \in Amounts
  BY <1>1 DEF Purchases
<1>5. WellFormed(edited)
  BY <1>1, <1>2, <1>4 DEF WellFormed, Amounts
<1>6. \A x \in edited.lines : edited.allocated[x] <= edited.gross[x]
  <2>1. \A x \in p.lines : p.allocated[x] <= p.gross[x]
    BY DEF Sound, Accepts, ItemAccepted
  <2>2. edited.lines \subseteq Lines
    BY <1>2 DEF Purchases
  <2> QED
    BY <1>2, <1>4, <2>1, <2>2 DEF Amounts
<1>7. edited.discountTotal = 0 => \A x \in Lines : edited.allocated[x] = 0
  <2>1. p.discountTotal = 0 => \A x \in Lines : p.allocated[x] = 0
    BY NothingToAttribute
  <2> QED
    BY <1>2, <1>4, <2>1 DEF Amounts
<1>8. Sound(q) /\ Current(q) /\ q.registered = edited.registered
  BY <1>3, <1>5, <1>6, <1>7, RestructuredIsSound
<1> QED
  BY <1>2, <1>8

LEMMA WithItemValueIsSound ==
  ASSUME NEW p, Sound(p), NEW l \in p.lines, NEW value \in Nat,
         NEW q \in WithItemValue(p, l, value)
  PROVE  Sound(q) /\ Current(q) /\ q.registered = p.registered
<1> DEFINE edited == [p EXCEPT !.gross[l] = value, !.allocated[l] = 0]
<1>1. p \in Purchases /\ WellFormed(p) /\ l \in Lines
  BY DEF Sound, WellFormed, Purchases
<1>2. /\ edited \in Purchases
      /\ edited.lines = p.lines
      /\ edited.gross = [p.gross EXCEPT ![l] = value]
      /\ edited.allocated = [p.allocated EXCEPT ![l] = 0]
      /\ edited.company = p.company
      /\ edited.discountTotal = p.discountTotal /\ edited.registered = p.registered
  BY <1>1 DEF Purchases, Amounts
<1>3. q \in Restructured(edited)
  BY DEF WithItemValue
<1> HIDE DEF edited
<1>4. p.gross \in Amounts /\ p.allocated \in Amounts
  BY <1>1 DEF Purchases
<1>5. WellFormed(edited)
  BY <1>1, <1>2, <1>4 DEF WellFormed, Amounts
<1>6. \A x \in edited.lines : edited.allocated[x] <= edited.gross[x]
  <2>1. \A x \in p.lines : p.allocated[x] <= p.gross[x]
    BY DEF Sound, Accepts, ItemAccepted
  <2>2. edited.lines \subseteq Lines
    BY <1>2 DEF Purchases
  <2> QED
    BY <1>2, <1>4, <2>1, <2>2 DEF Amounts
<1>7. edited.discountTotal = 0 => \A x \in Lines : edited.allocated[x] = 0
  <2>1. p.discountTotal = 0 => \A x \in Lines : p.allocated[x] = 0
    BY NothingToAttribute
  <2> QED
    BY <1>2, <1>4, <2>1 DEF Amounts
<1>8. Sound(q) /\ Current(q) /\ q.registered = edited.registered
  BY <1>3, <1>5, <1>6, <1>7, RestructuredIsSound
<1> QED
  BY <1>2, <1>8

\* A choice of a mode, the classes as they are.
LEMMA ModeIsSound ==
  ASSUME NEW p, Sound(p), NEW m \in Modes, NEW manual \in Amounts,
         NEW q \in Reallocated(p, m, manual)
  PROVE  Sound(q) /\ Current(q) /\ q.registered = p.registered
<1>1. /\ WellFormed(p) /\ p.discountTotal <= p.grossTotal
      /\ p.lines = {} \/ SumOver(p.lines, p.gross) = p.grossTotal
  BY DEF Sound, Accepts
<1> QED
  BY <1>1, ReallocatedIsSound

\* A batch of classes under its mode, or under the amounts the user stated.
LEMMA ClassifiedIsSound ==
  ASSUME NEW p, Sound(p), NEW theirs \in SUBSET p.lines, NEW chosen \in Modes \cup {Kept},
         NEW manual \in Amounts, NEW q \in Classified(p, theirs, chosen, manual)
  PROVE  Sound(q) /\ Current(q) /\ q.registered = p.registered
<1> DEFINE m == IF chosen = Kept THEN p.mode ELSE chosen
           reclassified == [p EXCEPT !.company = theirs]
<1>1. p \in Purchases /\ WellFormed(p)
  BY DEF Sound, WellFormed
<1>2. /\ reclassified \in Purchases
      /\ reclassified.lines = p.lines /\ reclassified.gross = p.gross
      /\ reclassified.allocated = p.allocated /\ reclassified.company = theirs
      /\ reclassified.grossTotal = p.grossTotal /\ reclassified.mode = p.mode
      /\ reclassified.discountTotal = p.discountTotal
      /\ reclassified.registered = p.registered /\ reclassified.pending = p.pending
  BY <1>1 DEF Purchases
<1>3. IF chosen = Kept /\ p.mode = "MANUAL"
        THEN q = reclassified /\ ~ q.pending /\ Accepts(q)
        ELSE q \in Reallocated(reclassified, m, manual)
  BY DEF Classified
<1>4. WellFormed(reclassified)
  BY <1>1, <1>2 DEF WellFormed
<1>5. reclassified.discountTotal <= reclassified.grossTotal
        /\ (reclassified.lines = {}
              \/ SumOver(reclassified.lines, reclassified.gross) = reclassified.grossTotal)
  BY <1>2 DEF Sound, Accepts
<1> HIDE DEF reclassified
<1>6. CASE chosen = Kept /\ p.mode = "MANUAL"
  <2>1. q = reclassified /\ ~ q.pending /\ Accepts(q)
    BY <1>3, <1>6
  <2> QED
    BY <1>2, <1>4, <1>6, <2>1 DEF Sound, WaitsForManual, Current
<1>7. CASE ~ (chosen = Kept /\ p.mode = "MANUAL")
  <2>1. q \in Reallocated(reclassified, m, manual)
    BY <1>3, <1>7
  <2>2. m \in Modes
    BY <1>1 DEF Purchases
  <2> QED
    BY <1>2, <1>4, <1>5, <2>1, <2>2, ReallocatedIsSound
<1> QED
  BY <1>6, <1>7

-----------------------------------------------------------------------------
(* Loads and saves.                                                        *)

\* A header over lines is typed, and the purchase itself if neither moved.
LEMMA UnderIsTyped ==
  ASSUME NEW p \in Purchases, WellFormed(p), NEW h \in Headers, WaitsForManual(h)
  PROVE  /\ WellFormed(Under(h, p)) /\ WaitsForManual(Under(h, p))
         /\ Under(h, p).registered = p.registered
         /\ h = Header(p) => Under(h, p) = p
<1>1. /\ Under(h, p) \in Purchases
      /\ Under(h, p).lines = p.lines /\ Under(h, p).company = p.company
      /\ Under(h, p).gross = p.gross /\ Under(h, p).allocated = p.allocated
      /\ Under(h, p).mode = h.mode /\ Under(h, p).discountTotal = h.discountTotal
      /\ Under(h, p).pending = h.pending /\ Under(h, p).registered = p.registered
  BY DEF Under, Headers, Purchases
<1>2. WellFormed(Under(h, p)) /\ WaitsForManual(Under(h, p))
  BY <1>1 DEF WellFormed, WaitsForManual
<1>3. h = Header(p) => Under(h, p) = p
  BY DEF Under, Header, Purchases
<1> QED
  BY <1>1, <1>2, <1>3

LEMMA HeaderIsTyped ==
  ASSUME NEW p, Sound(p)
  PROVE  Header(p) \in Headers /\ WaitsForManual(Header(p))
BY DEF Sound, WellFormed, WaitsForManual, Header, Headers, Purchases

\* What a save leaves is the purchase saved: the lines it lacks are gone.
LEMMA SavedIsBuilt ==
  ASSUME NEW stored, WellFormed(stored), NEW built, WellFormed(built)
  PROVE  Saved(stored, built) = built
<1>1. stored \in Purchases /\ built \in Purchases
  BY DEF WellFormed
<1>2. LinesLeft(stored, built) \ built.lines = {}
  BY DEF LinesLeft
<1> DEFINE grossLeft == [l \in Lines |-> IF l \in built.lines THEN built.gross[l]
                           ELSE IF l \in LinesLeft(stored, built) THEN stored.gross[l] ELSE 0]
           allocatedLeft == [l \in Lines |-> IF l \in built.lines THEN built.allocated[l]
                           ELSE IF l \in LinesLeft(stored, built) THEN stored.allocated[l] ELSE 0]
<1>3. grossLeft = built.gross
  BY <1>1 DEF WellFormed, LinesLeft, Purchases, Amounts
<1>4. allocatedLeft = built.allocated
  BY <1>1 DEF WellFormed, LinesLeft, Purchases, Amounts
<1>5. Saved(stored, built) =
        [built EXCEPT !.lines = built.lines, !.company = built.company,
                      !.gross = grossLeft, !.allocated = allocatedLeft]
  <2>1. Saved(stored, built) =
          [built EXCEPT !.lines = @ \cup {}, !.company = @ \cup (stored.company \cap {}),
                        !.gross = grossLeft, !.allocated = allocatedLeft]
    BY <1>2 DEF Saved
  <2>2. built.lines \cup {} = built.lines
          /\ built.company \cup (stored.company \cap {}) = built.company
    OBVIOUS
  <2> HIDE DEF grossLeft, allocatedLeft
  <2>3. [built EXCEPT !.lines = @ \cup {}, !.company = @ \cup (stored.company \cap {}),
                      !.gross = grossLeft, !.allocated = allocatedLeft] =
        [built EXCEPT !.lines = built.lines, !.company = built.company,
                      !.gross = grossLeft, !.allocated = allocatedLeft]
    BY <2>2, Zenon
  <2> QED
    BY <2>1, <2>3
<1> HIDE DEF grossLeft, allocatedLeft
<1> DEFINE saved == Saved(stored, built)
<1>6. /\ saved \in Purchases
      /\ saved.lines = built.lines /\ saved.company = built.company
      /\ saved.gross = built.gross /\ saved.allocated = built.allocated
      /\ saved.grossTotal = built.grossTotal /\ saved.discountTotal = built.discountTotal
      /\ saved.mode = built.mode /\ saved.pending = built.pending
      /\ saved.registered = built.registered
  BY <1>1, <1>3, <1>4, <1>5 DEF Purchases
<1> HIDE DEF saved
<1>7. saved = built
  BY <1>1, <1>6 DEF Purchases
<1> QED
  BY <1>7 DEF saved

-----------------------------------------------------------------------------
(* The invariant.                                                          *)

MaterialRows == [stock : Nat, cost : Nat, package : Nat]

SoundPurchases == {p \in Purchases : Sound(p)}

Loading == [at : {"header"}, header : {h \in Headers : WaitsForManual(h)}]

Building ==
  [at : {"built", "saved"}, built : SoundPurchases, stocked : SUBSET Lines,
   resolve : SUBSET Lines, enter : SUBSET Lines, row : MaterialRows \cup {None},
   seen : MaterialRows \cup {None}, gain : Nat, repackaged : BOOLEAN, torn : BOOLEAN]

Transactions == {Idle} \cup Loading \cup Building

StateTyped ==
  /\ purchase \in SoundPurchases
  /\ material \in MaterialRows
  /\ tx \in [Callers -> Transactions]
  /\ entered \in Nat /\ highest \in Nat
  /\ repackaged \in BOOLEAN /\ torn \in BOOLEAN /\ calls \in Nat

\* Under the lock of the purchase: the row read is the row left, which holds
\* over the committed one (m) the packages entered so far and their costs.
Entering(t, m) ==
  LET row == IF t.row = None THEN m ELSE t.row
  IN /\ t.seen \in {None, row}
     /\ row.stock = m.stock + t.gain
     /\ IsHighest(row.cost, {m.cost} \cup {t.built.gross[l] : l \in t.stocked \ t.enter})

\* What a caller that built a purchase holds, over the committed material m.
Fits(t, m) ==
  t.at \in {"built", "saved"} =>
    /\ t.torn \/ Current(t.built)
    /\ t.built.registered
    /\ t.enter \subseteq t.stocked
    /\ t.at = "built" => t.gain = 0 /\ t.enter = t.stocked
    /\ t.repackaged \/ (t.at = "built" /\ t.row = None) \/ (t.at = "saved" /\ Entering(t, m))

\* Nothing is loaded before the registration, one caller saves at a time.
Ordered ==
  /\ ~ purchase.registered => \A c \in Callers : tx[c] = Idle
  /\ \A c, d \in Callers : tx[c].at = "saved" /\ tx[d].at = "saved" => c = d

IInv ==
  /\ StateTyped
  /\ torn \/ Current(purchase)
  /\ Ordered
  /\ \A c \in Callers : Fits(tx[c], material)
  /\ StockHoldsEveryEntry

LEMMA InvFirst == Init => IInv
<1> SUFFICES ASSUME Init PROVE IInv
  OBVIOUS
<1>1. \A l \in Lines : NoAmounts[l] = 0
  BY DEF NoAmounts
<1>2. NoPurchase \in Purchases
  BY NoAmountsTyped DEF NoPurchase, Purchases, Modes, ComputedModes
<1>3. /\ NoPurchase.lines = {} /\ NoPurchase.gross = NoAmounts /\ NoPurchase.allocated = NoAmounts
      /\ NoPurchase.company = {} /\ NoPurchase.grossTotal = 0 /\ NoPurchase.discountTotal = 0
      /\ NoPurchase.pending = FALSE /\ NoPurchase.mode = "PROPORTIONAL"
  BY DEF NoPurchase
<1>4. SumOver({}, NoAmounts) = 0
  BY SumOfZeros
<1>5. Accepts(NoPurchase)
  BY <1>3, <1>4 DEF Accepts, ItemAccepted, NothingOutside
<1>6. Sound(NoPurchase)
  BY <1>1, <1>2, <1>3, <1>5 DEF Sound, WellFormed, WaitsForManual
<1>7. Current(NoPurchase)
  BY <1>3 DEF Current, Allocations
<1>8. material \in MaterialRows /\ material.stock = 0 /\ material.cost = 0
  BY RequestsAssumption DEF Init, MaterialRows
<1>9. tx \in [Callers -> Transactions] /\ \A c \in Callers : tx[c] = Idle
  BY DEF Init, Transactions
<1>10. Idle.at = "idle"
  BY DEF Idle
<1>11. StateTyped
  BY <1>2, <1>6, <1>8, <1>9 DEF Init, StateTyped, SoundPurchases
<1>12. Ordered /\ \A c \in Callers : Fits(tx[c], material)
  BY <1>9, <1>10 DEF Ordered, Fits
<1>13. StockHoldsEveryEntry
  BY <1>8 DEF Init, StockHoldsEveryEntry
<1> QED
  BY <1>7, <1>11, <1>12, <1>13 DEF Init, IInv

\* A step of one caller that commits nothing.
LEMMA OneMoves ==
  ASSUME IInv, NEW c \in Callers, NEW t \in Transactions, tx' = [tx EXCEPT ![c] = t],
         purchase.registered, Fits(t, material),
         t.at = "saved" => tx[c].at = "saved" \/ PurchaseIsFree,
         calls' \in Nat, UNCHANGED <<purchase, material, history>>
  PROVE  IInv'
<1>1. /\ purchase' = purchase /\ material' = material /\ entered' = entered
      /\ highest' = highest /\ repackaged' = repackaged /\ torn' = torn
  BY DEF history
<1>2. tx \in [Callers -> Transactions]
  BY DEF IInv, StateTyped
<1>3. tx' \in [Callers -> Transactions] /\ tx'[c] = t /\ \A d \in Callers \ {c} : tx'[d] = tx[d]
  BY <1>2
<1>4. StateTyped'
  BY <1>1, <1>3 DEF IInv, StateTyped
<1>5. Ordered'
  BY <1>1, <1>3 DEF IInv, Ordered, PurchaseIsFree
<1>6. \A d \in Callers : Fits(tx'[d], material')
  BY <1>1, <1>3 DEF IInv
<1>7. StockHoldsEveryEntry'
  BY <1>1 DEF IInv, StockHoldsEveryEntry
<1> QED
  <2>1. (torn \/ Current(purchase))'
    BY <1>1 DEF IInv
  <2> QED
    BY <1>4, <1>5, <1>6, <1>7, <2>1 DEF IInv

-----------------------------------------------------------------------------
(* Steps.                                                                  *)

LEMMA BusyIsRegistered ==
  ASSUME IInv, NEW c \in Callers, tx[c].at # "idle"
  PROVE  purchase.registered
BY DEF IInv, Ordered, Idle

LEMMA IdleFits == Idle \in Transactions /\ Idle.at = "idle" /\ Fits(Idle, material)
BY DEF Transactions, Idle, Fits

LEMMA RegisterKeeps ==
  ASSUME IInv, NEW ls \in SUBSET Lines, NEW discount \in Discounts, NEW m \in RegisteredModes,
         NEW g \in [ls -> Values], NEW theirs \in SUBSET ls, NEW stocked \in SUBSET theirs,
         Register(ls, g, theirs, discount, m, stocked)
  PROVE  IInv'
<1> DEFINE gross == [l \in Lines |-> IF l \in ls THEN g[l] ELSE 0]
           built == Built(ls, g, theirs, discount)
           cost == CostAfter(material.cost, {built.gross[l] : l \in stocked})
<1>1. /\ ~ purchase.registered /\ discount <= built.grossTotal
      /\ purchase' \in Reallocated(built, m, NoAmounts)
      /\ material' = [material EXCEPT !.cost = cost] /\ highest' = cost
      /\ tx' = tx /\ entered' = entered /\ repackaged' = repackaged /\ torn' = torn
      /\ calls' = calls
  BY DEF Register
<1>2. gross \in Amounts /\ discount \in Nat /\ m \in Modes
  BY RequestsAssumption DEF Amounts, Modes
<1>3. SumOver(ls, gross) \in Nat
  <2> HIDE DEF gross
  <2> QED
    BY <1>2, SumOfLinesIsNat
<1>4. built = [NoPurchase EXCEPT !.lines = ls, !.gross = gross, !.company = theirs,
                 !.grossTotal = SumOver(ls, gross), !.discountTotal = discount,
                 !.registered = TRUE]
  BY DEF Built
<1> HIDE DEF gross, built
<1>5. /\ built \in Purchases
      /\ built.lines = ls /\ built.gross = gross /\ built.company = theirs
      /\ built.allocated = NoAmounts /\ built.discountTotal = discount
      /\ built.grossTotal = SumOver(ls, gross) /\ built.registered = TRUE
  BY <1>2, <1>3, <1>4, NoAmountsTyped DEF NoPurchase, Purchases, Modes, ComputedModes
<1>6. WellFormed(built)
  BY <1>5 DEF WellFormed, NoAmounts, gross
<1>7. Sound(purchase') /\ Current(purchase') /\ purchase'.registered
  <2>1. built.discountTotal <= built.grossTotal
          /\ (built.lines = {} \/ SumOver(built.lines, built.gross) = built.grossTotal)
    BY <1>1, <1>5
  <2> QED
    BY <1>1, <1>2, <1>5, <1>6, <2>1, NoAmountsTyped, ReallocatedIsSound
<1>8. cost \in Nat
  <2>1. material.cost \in Nat
    BY DEF IInv, StateTyped, MaterialRows
  <2> QED
    BY <1>2, <1>5, <2>1, CostIsNat
<1> HIDE DEF cost
<1>9. material' \in MaterialRows /\ material'.cost = cost /\ material'.stock = material.stock
  BY <1>1, <1>8 DEF IInv, StateTyped, MaterialRows
<1>10. purchase' \in SoundPurchases
  BY <1>7 DEF Sound, WellFormed, SoundPurchases
<1>11. \A c \in Callers : tx[c] = Idle
  BY <1>1 DEF IInv, Ordered
<1>12. StateTyped'
  BY <1>1, <1>8, <1>9, <1>10 DEF IInv, StateTyped
<1>13. (torn \/ Current(purchase))'
  BY <1>7 DEF Current
<1>14. Ordered'
  BY <1>1, <1>7, <1>11, IdleFits DEF Ordered
<1>15. \A c \in Callers : Fits(tx[c], material)'
  BY <1>1, <1>11, IdleFits DEF Fits
<1>16. StockHoldsEveryEntry'
  BY <1>1, <1>9 DEF IInv, StockHoldsEveryEntry
<1> QED
  BY <1>12, <1>13, <1>14, <1>15, <1>16 DEF IInv

LEMMA LoadHeaderKeeps ==
  ASSUME IInv, NEW c \in Callers, LoadHeader(c)
  PROVE  IInv'
<1> DEFINE t == [at |-> "header", header |-> Header(purchase)]
<1>1. Sound(purchase) /\ calls \in Nat
  BY DEF IInv, StateTyped, SoundPurchases
<1>2. Header(purchase) \in Headers /\ WaitsForManual(Header(purchase))
  BY <1>1, HeaderIsTyped
<1>3. t \in Transactions /\ t.at = "header"
  BY <1>2 DEF Transactions, Loading
<1>4. Fits(t, material)
  BY <1>3 DEF Fits
<1>5. /\ tx' = [tx EXCEPT ![c] = t] /\ purchase.registered /\ calls' \in Nat
      /\ UNCHANGED <<purchase, material, history>>
  BY <1>1 DEF LoadHeader
<1> HIDE DEF t
<1> QED
  BY <1>3, <1>4, <1>5, OneMoves

\* Answering, and whatever fails before the commit, leave nothing.
LEMMA LeavingKeeps ==
  ASSUME IInv, NEW c \in Callers, Answer(c) \/ Rollback(c)
  PROVE  IInv'
<1>1. /\ tx' = [tx EXCEPT ![c] = Idle] /\ tx[c].at # "idle" /\ calls' = calls
      /\ UNCHANGED <<purchase, material, history>>
  BY DEF Answer, Rollback
<1>2. purchase.registered
  BY <1>1, BusyIsRegistered
<1>3. calls' \in Nat
  BY <1>1 DEF IInv, StateTyped
<1> QED
  BY <1>1, <1>2, <1>3, IdleFits, OneMoves

-----------------------------------------------------------------------------
(* Operations on a load.                                                   *)

\* What a request loads, if the constructor accepts it.
LEMMA LoadIsSound ==
  ASSUME IInv, NEW c \in Callers, tx[c].at = "header"
  PROVE  /\ Loaded(c) \in Purchases /\ WellFormed(Loaded(c))
         /\ Accepts(Loaded(c)) => Sound(Loaded(c))
         /\ Loaded(c).registered
         /\ torn \/ tx[c].header # Header(purchase) \/ Current(Loaded(c))
<1>1. tx[c] \in Loading
  BY DEF IInv, StateTyped, Transactions, Loading, Building, Idle
<1>2. tx[c].header \in Headers /\ WaitsForManual(tx[c].header)
  BY <1>1 DEF Loading
<1>3. purchase \in Purchases /\ WellFormed(purchase)
  BY DEF IInv, StateTyped, SoundPurchases, Sound
<1>4. /\ WellFormed(Loaded(c)) /\ WaitsForManual(Loaded(c))
      /\ Loaded(c).registered = purchase.registered
      /\ tx[c].header = Header(purchase) => Loaded(c) = purchase
  BY <1>2, <1>3, UnderIsTyped DEF Loaded
<1>5. purchase.registered
  BY BusyIsRegistered
<1> QED
  BY <1>4, <1>5 DEF Sound, WellFormed, IInv

\* An operation that makes sound purchases of a sound one, current unless they
\* are the load itself.
LEMMA OperateKeeps ==
  ASSUME IInv, NEW c \in Callers, NEW outcomes,
         NEW stocked \in SUBSET Lines, NEW restated \in SUBSET stocked,
         Operate(c, outcomes, stocked, restated),
         Sound(Loaded(c)) =>
           \A q \in outcomes :
             Sound(q) /\ (q = Loaded(c) \/ Current(q)) /\ q.registered = Loaded(c).registered
  PROVE  IInv'
<1>1. tx[c].at = "header" /\ Accepts(Loaded(c))
  BY DEF Operate
<1>2. Sound(Loaded(c)) /\ Loaded(c).registered
        /\ (torn \/ tx[c].header # Header(purchase) \/ Current(Loaded(c)))
  BY <1>1, LoadIsSound
<1> DEFINE isTorn == torn \/ tx[c].header # Header(purchase)
<1>3. PICK built \in outcomes :
        tx' = [tx EXCEPT ![c] =
                 [at |-> "built", built |-> built, stocked |-> stocked,
                  resolve |-> restated, enter |-> stocked, row |-> None,
                  seen |-> None, gain |-> 0, repackaged |-> FALSE, torn |-> isTorn]]
  BY DEF Operate
<1>4. calls' = calls /\ UNCHANGED <<purchase, material, history>>
  BY DEF Operate
<1>5. Sound(built) /\ built.registered /\ (isTorn \/ Current(built))
  BY <1>2
<1>6. built \in SoundPurchases /\ isTorn \in BOOLEAN
  BY <1>5 DEF Sound, WellFormed, SoundPurchases
<1> HIDE DEF isTorn
<1> DEFINE t == [at |-> "built", built |-> built, stocked |-> stocked,
                 resolve |-> restated, enter |-> stocked, row |-> None,
                 seen |-> None, gain |-> 0, repackaged |-> FALSE, torn |-> isTorn]
<1>7. t \in Transactions /\ t.at = "built"
  BY <1>6 DEF Transactions, Building
<1>8. Fits(t, material)
  BY <1>5 DEF Fits
<1>9. purchase.registered
  BY <1>1, BusyIsRegistered
<1>10. tx' = [tx EXCEPT ![c] = t]
  BY <1>3
<1>11. calls' \in Nat
  BY <1>4 DEF IInv, StateTyped
<1> HIDE DEF t
<1> QED
  BY <1>4, <1>7, <1>8, <1>9, <1>10, <1>11, OneMoves

\* Amounts typed for a purchase are amounts.
LEMMA TypedAreAmounts ==
  ASSUME NEW p \in Purchases, NEW manual \in Typed(p)
  PROVE  manual \in Amounts
BY DEF Typed, Purchases, Amounts

LEMMA EditKeeps ==
  ASSUME IInv, NEW c \in Callers, tx[c].at = "header", Edit(c)
  PROVE  IInv'
<1>1. /\ Loaded(c) \in Purchases /\ WellFormed(Loaded(c)) /\ Loaded(c).lines \subseteq Lines
  BY LoadIsSound DEF Purchases
<1>2. {} \in SUBSET Lines /\ {} \in SUBSET {}
  OBVIOUS
<1>3. ASSUME NEW l \in Lines, NEW value \in Values, NEW ours \in BOOLEAN, AddItem(c, l, value, ours)
      PROVE  IInv'
  <2>1. Operate(c, WithItem(Loaded(c), l, value, ours), {}, {}) /\ l \in Lines \ Loaded(c).lines
    BY <1>3 DEF AddItem
  <2>2. value \in Nat
    BY RequestsAssumption
  <2> DEFINE outcomes == WithItem(Loaded(c), l, value, ours)
  <2>3. Sound(Loaded(c)) => \A q \in outcomes :
          Sound(q) /\ Current(q) /\ q.registered = Loaded(c).registered
    BY <2>1, <2>2, WithItemIsSound
  <2>4. Operate(c, outcomes, {}, {})
    BY <2>1
  <2> HIDE DEF outcomes
  <2> QED
    BY <1>2, <2>3, <2>4, OperateKeeps
<1>4. ASSUME NEW l \in Lines, RemoveItem(c, l)
      PROVE  IInv'
  <2> DEFINE outcomes == WithoutItem(Loaded(c), l)
  <2>1. Operate(c, outcomes, {}, {}) /\ l \in Loaded(c).lines
    BY <1>4 DEF RemoveItem
  <2>2. Sound(Loaded(c)) => \A q \in outcomes :
          Sound(q) /\ Current(q) /\ q.registered = Loaded(c).registered
    BY <2>1, WithoutItemIsSound
  <2> HIDE DEF outcomes
  <2> QED
    BY <1>2, <2>1, <2>2, OperateKeeps
<1>5. ASSUME NEW l \in Lines, NEW value \in Values, ChangeItem(c, l, value)
      PROVE  IInv'
  <2> DEFINE outcomes == WithItemValue(Loaded(c), l, value)
  <2>1. Operate(c, outcomes, {}, {}) /\ l \in Loaded(c).lines /\ value \in Nat
    BY <1>5, RequestsAssumption DEF ChangeItem
  <2>2. Sound(Loaded(c)) => \A q \in outcomes :
          Sound(q) /\ Current(q) /\ q.registered = Loaded(c).registered
    BY <2>1, WithItemValueIsSound
  <2> HIDE DEF outcomes
  <2> QED
    BY <1>2, <2>1, <2>2, OperateKeeps
<1>6. ASSUME NEW m \in Modes, NEW manual \in Amounts, SetDiscountAllocation(c, m, manual)
      PROVE  IInv'
  <2> DEFINE outcomes == Reallocated(Loaded(c), m, manual)
  <2>1. Operate(c, outcomes, {}, {})
    BY <1>6 DEF SetDiscountAllocation
  <2>2. Sound(Loaded(c)) => \A q \in outcomes :
          Sound(q) /\ Current(q) /\ q.registered = Loaded(c).registered
    BY ModeIsSound
  <2> HIDE DEF outcomes
  <2> QED
    BY <1>2, <2>1, <2>2, OperateKeeps
<1>7. ASSUME CompleteEdit(c) PROVE IInv'
  <2>1. Operate(c, {Loaded(c)}, {}, {})
    BY <1>7 DEF CompleteEdit
  <2> DEFINE outcomes == {Loaded(c)}
  <2>2. Sound(Loaded(c)) => \A q \in outcomes :
          Sound(q) /\ q = Loaded(c) /\ q.registered = Loaded(c).registered
    OBVIOUS
  <2>3. Operate(c, outcomes, {}, {})
    BY <2>1
  <2> HIDE DEF outcomes
  <2> QED
    BY <1>2, <2>2, <2>3, OperateKeeps
<1>8. \A m \in ComputedModes : m \in Modes
  BY DEF Modes
<1>9. "MANUAL" \in Modes /\ \A manual \in Typed(Loaded(c)) : manual \in Amounts
  BY <1>1, TypedAreAmounts DEF Modes
<1> QED
  BY <1>3, <1>4, <1>5, <1>6, <1>7, <1>8, <1>9, NoAmountsTyped DEF Edit

LEMMA ClassificationKeeps ==
  ASSUME IInv, NEW c \in Callers, tx[c].at = "header", Classification(c)
  PROVE  IInv'
<1>1. Loaded(c) \in Purchases /\ Loaded(c).lines \subseteq Lines
  BY LoadIsSound DEF Purchases
<1>2. ASSUME NEW theirs \in SUBSET Loaded(c).lines, NEW stocked \in SUBSET theirs,
             NEW m \in Modes \cup {Kept}, NEW manual \in Amounts,
             Classify(c, theirs, stocked, m, manual)
      PROVE  IInv'
  <2> DEFINE outcomes == Classified(Loaded(c), theirs, m, manual)
  <2>1. PICK restated \in SUBSET stocked : Operate(c, outcomes, stocked, restated)
    BY <1>2 DEF Classify
  <2>2. Sound(Loaded(c)) => \A q \in outcomes :
          Sound(q) /\ Current(q) /\ q.registered = Loaded(c).registered
    BY <1>2, ClassifiedIsSound
  <2>3. stocked \in SUBSET Lines
    BY <1>1
  <2> HIDE DEF outcomes
  <2> QED
    BY <2>1, <2>2, <2>3, OperateKeeps
<1>3. Kept \in Modes \cup {Kept} /\ "MANUAL" \in Modes /\ \A m \in ComputedModes : m \in Modes
  BY DEF Modes
<1>4. \A manual \in Typed(Loaded(c)) : manual \in Amounts
  BY <1>1, TypedAreAmounts
<1> QED
  BY <1>2, <1>3, <1>4, NoAmountsTyped DEF Classification

-----------------------------------------------------------------------------
(* The Material of the stock lines.                                        *)

LEMMA BuildingTyped ==
  ASSUME IInv, NEW c \in Callers, tx[c].at \in {"built", "saved"}
  PROVE  /\ tx[c] \in Building /\ Fits(tx[c], material) /\ purchase.registered
         /\ Row(c) \in MaterialRows
<1>1. tx[c] \in Building
  BY DEF IInv, StateTyped, Transactions, Loading, Idle
<1>2. Row(c) \in MaterialRows
  BY <1>1 DEF Row, Building, IInv, StateTyped
<1> QED
  BY <1>1, <1>2, BusyIsRegistered DEF IInv

LEMMA NoRowIsNone == None \notin MaterialRows
BY DEF None, MaterialRows

LEMMA ReadToRepackageKeeps ==
  ASSUME IInv, NEW c \in Callers, NEW l \in Lines, ReadToRepackage(c, l)
  PROVE  IInv'
<1> DEFINE t == [tx[c] EXCEPT !.seen = Row(c)]
<1>1. /\ tx[c].at = "built" /\ tx' = [tx EXCEPT ![c] = t] /\ calls' = calls
      /\ UNCHANGED <<purchase, material, history>>
  BY DEF ReadToRepackage, Visible
<1>2. tx[c] \in Building /\ Fits(tx[c], material) /\ purchase.registered /\ Row(c) \in MaterialRows
  BY <1>1, BuildingTyped
<1>3. /\ t \in Building /\ t.at = "built" /\ t.built = tx[c].built /\ t.torn = tx[c].torn
      /\ t.stocked = tx[c].stocked /\ t.enter = tx[c].enter /\ t.gain = tx[c].gain
      /\ t.repackaged = tx[c].repackaged /\ t.row = tx[c].row
  BY <1>1, <1>2 DEF Building
<1> HIDE DEF t
<1>4. Fits(t, material)
  BY <1>1, <1>2, <1>3 DEF Fits
<1>5. t \in Transactions /\ calls' \in Nat
  BY <1>1, <1>3 DEF Transactions, IInv, StateTyped
<1> QED
  BY <1>1, <1>2, <1>3, <1>4, <1>5, OneMoves

LEMMA SaveRepackagedKeeps ==
  ASSUME IInv, NEW c \in Callers, NEW l \in Lines, NEW q \in PackageQuantities,
         SaveRepackaged(c, l, q)
  PROVE  IInv'
<1> DEFINE row == [tx[c].seen EXCEPT !.package = q]
           t == [tx[c] EXCEPT !.resolve = @ \ {l}, !.seen = None, !.repackaged = TRUE,
                              !.row = row]
<1>1. /\ tx[c].at = "built" /\ tx[c].seen # None /\ tx' = [tx EXCEPT ![c] = t]
      /\ calls' = calls /\ UNCHANGED <<purchase, material, history>>
  BY DEF SaveRepackaged
<1>2. tx[c] \in Building /\ Fits(tx[c], material) /\ purchase.registered
  BY <1>1, BuildingTyped
<1>3. row \in MaterialRows
  BY <1>1, <1>2, RequestsAssumption DEF Building, MaterialRows
<1> HIDE DEF row
<1>4. /\ t \in Building /\ t.at = "built" /\ t.built = tx[c].built /\ t.torn = tx[c].torn
      /\ t.stocked = tx[c].stocked /\ t.enter = tx[c].enter /\ t.gain = tx[c].gain
      /\ t.repackaged = TRUE
  BY <1>1, <1>2, <1>3 DEF Building
<1> HIDE DEF t
<1>5. Fits(t, material)
  BY <1>1, <1>2, <1>4 DEF Fits
<1>6. t \in Transactions /\ calls' \in Nat
  BY <1>1, <1>4 DEF Transactions, IInv, StateTyped
<1> QED
  BY <1>1, <1>2, <1>4, <1>5, <1>6, OneMoves

\* The lock is free, so the row the caller goes on from is the committed one.
LEMMA SaveHeaderKeeps ==
  ASSUME IInv, NEW c \in Callers, SaveHeader(c)
  PROVE  IInv'
<1> DEFINE t == [tx[c] EXCEPT !.at = "saved"]
<1>1. /\ tx[c].at = "built" /\ tx[c].seen = None /\ PurchaseIsFree
      /\ tx' = [tx EXCEPT ![c] = t] /\ calls' = calls
      /\ UNCHANGED <<purchase, material, history>>
  BY DEF SaveHeader
<1>2. tx[c] \in Building /\ Fits(tx[c], material) /\ purchase.registered
  BY <1>1, BuildingTyped
<1>3. /\ t \in Building /\ t.at = "saved" /\ t.built = tx[c].built /\ t.torn = tx[c].torn
      /\ t.stocked = tx[c].stocked /\ t.enter = tx[c].enter /\ t.gain = tx[c].gain
      /\ t.repackaged = tx[c].repackaged /\ t.row = tx[c].row /\ t.seen = None
  BY <1>1, <1>2 DEF Building
<1> HIDE DEF t
<1>4. material \in MaterialRows
  BY DEF IInv, StateTyped
<1>5. ASSUME ~ t.repackaged PROVE Entering(t, material)
  <2>1. t.row = None /\ t.gain = 0 /\ t.stocked \ t.enter = {}
    BY <1>1, <1>2, <1>3, <1>5 DEF Fits
  <2>2. {t.built.gross[l] : l \in t.stocked \ t.enter} = {}
    BY <2>1
  <2> QED
    BY <1>3, <1>4, <2>1, <2>2 DEF Entering, IsHighest, MaterialRows
<1>6. Fits(t, material)
  BY <1>1, <1>2, <1>3, <1>5 DEF Fits
<1>7. t \in Transactions /\ calls' \in Nat
  BY <1>1, <1>3 DEF Transactions, IInv, StateTyped
<1> QED
  BY <1>1, <1>2, <1>6, <1>7, OneMoves

LEMMA ReadToEnterKeeps ==
  ASSUME IInv, NEW c \in Callers, ReadToEnter(c)
  PROVE  IInv'
<1> DEFINE t == [tx[c] EXCEPT !.seen = Row(c)]
<1>1. /\ tx[c].at = "saved" /\ tx' = [tx EXCEPT ![c] = t] /\ calls' = calls
      /\ UNCHANGED <<purchase, material, history>>
  BY DEF ReadToEnter, Visible
<1>2. tx[c] \in Building /\ Fits(tx[c], material) /\ purchase.registered /\ Row(c) \in MaterialRows
  BY <1>1, BuildingTyped
<1>3. /\ t \in Building /\ t.at = "saved" /\ t.built = tx[c].built /\ t.torn = tx[c].torn
      /\ t.stocked = tx[c].stocked /\ t.enter = tx[c].enter /\ t.gain = tx[c].gain
      /\ t.repackaged = tx[c].repackaged /\ t.row = tx[c].row /\ t.seen = Row(c)
  BY <1>1, <1>2 DEF Building
<1> HIDE DEF t
<1>4. Entering(tx[c], material) => Entering(t, material)
  BY <1>3 DEF Entering, Row
<1>5. Fits(t, material)
  BY <1>1, <1>2, <1>3, <1>4 DEF Fits
<1>6. t \in Transactions /\ calls' \in Nat
  BY <1>1, <1>3 DEF Transactions, IInv, StateTyped
<1> QED
  BY <1>1, <1>2, <1>3, <1>5, <1>6, OneMoves

\* The higher of a highest cost and one more is the highest of all of them.
LEMMA HighestGrows ==
  ASSUME NEW S \in SUBSET Nat, NEW n, IsHighest(n, S), NEW y \in Nat
  PROVE  /\ CostAfter(n, {y}) \in Nat
         /\ IsHighest(CostAfter(n, {y}), S \cup {y})
<1> DEFINE top == IF n <= y THEN y ELSE n
<1>1. n \in Nat /\ top \in Nat
  BY DEF IsHighest
<1>2. {n} \cup {y} \in SUBSET Nat /\ IsHighest(top, {n} \cup {y})
  BY <1>1 DEF IsHighest
<1>3. CostAfter(n, {y}) = top
  <2> HIDE DEF top
  <2> QED
    BY <1>2, HighestIsMax DEF CostAfter
<1>4. IsHighest(top, S \cup {y})
  BY <1>1 DEF IsHighest
<1> QED
  BY <1>1, <1>3, <1>4

LEMMA EnterStockKeeps ==
  ASSUME IInv, NEW c \in Callers, NEW l \in Lines, EnterStock(c, l)
  PROVE  IInv'
<1> DEFINE seen == tx[c].seen
           gross == tx[c].built.gross
           cost == CostAfter(seen.cost, {gross[l]})
           row == [seen EXCEPT !.stock = @ + seen.package, !.cost = cost]
           t == [tx[c] EXCEPT !.enter = @ \ {l}, !.seen = None, !.gain = @ + seen.package,
                              !.row = row]
           costs(u) == {material.cost} \cup {u.built.gross[k] : k \in u.stocked \ u.enter}
<1>1. /\ tx[c].at = "saved" /\ l \in tx[c].enter /\ seen # None
      /\ calls' = calls /\ UNCHANGED <<purchase, material, history>>
  BY DEF EnterStock
<1>2. tx' = [tx EXCEPT ![c] = t]
  BY DEF EnterStock
<1>3. tx[c] \in Building /\ Fits(tx[c], material) /\ purchase.registered
  BY <1>1, BuildingTyped
<1>4. /\ seen \in MaterialRows /\ gross \in Amounts /\ material \in MaterialRows
      /\ tx[c].stocked \in SUBSET Lines
  BY <1>1, <1>3 DEF Building, SoundPurchases, Purchases, IInv, StateTyped
<1>5. gross[l] \in Nat /\ seen.cost \in Nat /\ seen.stock \in Nat /\ seen.package \in Nat
        /\ tx[c].gain \in Nat
  BY <1>3, <1>4 DEF Amounts, MaterialRows, Building
<1>6. IsHighest(seen.cost, {seen.cost})
  BY <1>5 DEF IsHighest
<1>7. cost \in Nat
  <2>1. {seen.cost} \in SUBSET Nat
    BY <1>5
  <2> QED
    BY <1>5, <1>6, <2>1, HighestGrows
<1>8. ~ tx[c].repackaged => IsHighest(cost, costs(tx[c]) \cup {gross[l]})
  <2> SUFFICES ASSUME ~ tx[c].repackaged PROVE IsHighest(cost, costs(tx[c]) \cup {gross[l]})
    OBVIOUS
  <2>1. IsHighest(seen.cost, costs(tx[c]))
    BY <1>1, <1>3 DEF Fits, Entering
  <2>2. costs(tx[c]) \in SUBSET Nat
    BY <1>4 DEF Amounts, MaterialRows
  <2> HIDE DEF costs, seen, gross
  <2> QED
    BY <1>5, <2>1, <2>2, HighestGrows DEF cost
<1>9. ~ tx[c].repackaged => seen.stock = material.stock + tx[c].gain
  BY <1>1, <1>3 DEF Fits, Entering
<1> HIDE DEF cost
<1>10. /\ row \in MaterialRows /\ row.cost = cost /\ row.stock = seen.stock + seen.package
  <2> DEFINE stock == seen.stock + seen.package
  <2>1. stock \in Nat /\ row = [seen EXCEPT !.stock = stock, !.cost = cost]
    BY <1>5
  <2> HIDE DEF stock, row, seen
  <2>2. row \in MaterialRows /\ row.cost = cost /\ row.stock = stock
    BY <1>4, <1>7, <2>1 DEF MaterialRows
  <2> QED
    BY <2>2 DEF stock
<1> HIDE DEF row
<1>11. /\ t \in Building /\ t.at = "saved" /\ t.built = tx[c].built /\ t.torn = tx[c].torn
       /\ t.stocked = tx[c].stocked /\ t.enter = tx[c].enter \ {l}
       /\ t.gain = tx[c].gain + seen.package
       /\ t.repackaged = tx[c].repackaged /\ t.row = row /\ t.seen = None
  <2> DEFINE gain == tx[c].gain + seen.package
             left == tx[c].enter \ {l}
  <2>1. /\ gain \in Nat
        /\ t = [tx[c] EXCEPT !.enter = left, !.seen = None, !.gain = gain, !.row = row]
    BY <1>5
  <2>2. left \in SUBSET Lines
    BY <1>3 DEF Building
  <2> HIDE DEF gain, left, t, seen
  <2>3. /\ t \in Building /\ t.at = "saved" /\ t.built = tx[c].built /\ t.torn = tx[c].torn
        /\ t.stocked = tx[c].stocked /\ t.enter = left /\ t.gain = gain
        /\ t.repackaged = tx[c].repackaged /\ t.row = row /\ t.seen = None
    BY <1>1, <1>3, <1>10, <2>1, <2>2 DEF Building
  <2> QED
    BY <2>3 DEF gain, left
<1> HIDE DEF t
<1>12. l \in t.stocked /\ t.stocked \ t.enter = (tx[c].stocked \ tx[c].enter) \cup {l}
  BY <1>1, <1>3, <1>11 DEF Fits
<1>13. costs(t) = costs(tx[c]) \cup {gross[l]}
  BY <1>11, <1>12
<1>14. ASSUME ~ t.repackaged PROVE Entering(t, material)
  <2>1. t.row # None
    BY <1>10, <1>11, NoRowIsNone
  <2>2. row.stock = material.stock + t.gain
    BY <1>4, <1>5, <1>9, <1>10, <1>11, <1>14 DEF MaterialRows
  <2>3. IsHighest(row.cost, costs(t))
    BY <1>8, <1>10, <1>11, <1>13, <1>14
  <2> QED
    BY <1>11, <2>1, <2>2, <2>3 DEF Entering
<1>15. Fits(t, material)
  BY <1>1, <1>3, <1>11, <1>14 DEF Fits
<1>16. t \in Transactions /\ calls' \in Nat
  BY <1>1, <1>11 DEF Transactions, IInv, StateTyped
<1> QED
  BY <1>1, <1>2, <1>3, <1>11, <1>15, <1>16, OneMoves

-----------------------------------------------------------------------------
(* The commit.                                                             *)

LEMMA CommitKeeps ==
  ASSUME IInv, NEW c \in Callers, Commit(c)
  PROVE  IInv'
<1> DEFINE built == tx[c].built
           gross == built.gross
           top == Sets!Max({highest} \cup {gross[l] : l \in tx[c].stocked})
<1>1. /\ tx[c].at = "saved" /\ tx[c].enter = {}
      /\ purchase' = Saved(purchase, built) /\ material' = Row(c)
      /\ entered' = entered + tx[c].gain /\ highest' = top
      /\ repackaged' = (repackaged \/ tx[c].repackaged) /\ torn' = tx[c].torn
      /\ tx' = [tx EXCEPT ![c] = Idle] /\ calls' = calls
  BY DEF Commit
<1>2. /\ tx[c] \in Building /\ Fits(tx[c], material) /\ purchase.registered
      /\ Row(c) \in MaterialRows
  BY <1>1, BuildingTyped
<1>3. /\ built \in SoundPurchases /\ Sound(built) /\ built.registered
      /\ tx[c].torn \/ Current(built)
  BY <1>1, <1>2 DEF Building, SoundPurchases, Fits
<1>4. purchase' = built
  <2>1. WellFormed(purchase) /\ WellFormed(built)
    BY <1>3 DEF IInv, StateTyped, SoundPurchases, Sound
  <2> QED
    BY <1>1, <2>1, SavedIsBuilt
<1>5. gross \in Amounts /\ tx[c].stocked \in SUBSET Lines /\ tx[c].gain \in Nat
        /\ highest \in Nat /\ entered \in Nat /\ material \in MaterialRows
  BY <1>2, <1>3 DEF SoundPurchases, Purchases, Building, IInv, StateTyped
<1>6. top \in Nat
  BY <1>5, CostIsNat DEF CostAfter
<1>7. tx \in [Callers -> Transactions]
  BY DEF IInv, StateTyped
<1>8. tx' \in [Callers -> Transactions] /\ tx'[c] = Idle /\ \A d \in Callers \ {c} : tx'[d] = tx[d]
  BY <1>1, <1>7, IdleFits
<1>9. StateTyped'
  <2>1. repackaged' \in BOOLEAN /\ torn' \in BOOLEAN
    BY <1>1, <1>2 DEF Building, IInv, StateTyped
  <2> HIDE DEF top
  <2> QED
    BY <1>1, <1>2, <1>3, <1>4, <1>5, <1>6, <1>8, <2>1 DEF IInv, StateTyped
<1>10. \A d \in Callers \ {c} : tx[d].at # "saved"
  BY <1>1 DEF IInv, Ordered
<1>11. Ordered'
  BY <1>3, <1>4, <1>8, <1>10, IdleFits DEF Ordered
<1>12. \A d \in Callers : Fits(tx'[d], material')
  BY <1>8, <1>10, IdleFits DEF IInv, Fits
<1>13. StockHoldsEveryEntry'
  <2> SUFFICES ASSUME ~ repackaged'
               PROVE  material'.stock = entered' /\ material'.cost = highest'
    BY DEF StockHoldsEveryEntry
  <2>1. material.stock = entered /\ material.cost = highest /\ ~ tx[c].repackaged
    BY <1>1 DEF IInv, StockHoldsEveryEntry
  <2>2. Entering(tx[c], material)
    BY <1>1, <1>2, <2>1 DEF Fits
  <2>3. Row(c).stock = material.stock + tx[c].gain
    BY <2>2 DEF Entering, Row
  <2>4. IsHighest(Row(c).cost, {highest} \cup {gross[l] : l \in tx[c].stocked})
    <3>1. tx[c].stocked \ tx[c].enter = tx[c].stocked
      BY <1>1
    <3> QED
      BY <2>1, <2>2, <3>1 DEF Entering, Row
  <2>5. {highest} \cup {gross[l] : l \in tx[c].stocked} \in SUBSET Nat
    BY <1>5 DEF Amounts
  <2>6. top = Row(c).cost
    BY <2>4, <2>5, HighestIsMax
  <2> HIDE DEF top
  <2> QED
    BY <1>1, <2>1, <2>3, <2>6
<1>14. (torn \/ Current(purchase))'
  BY <1>1, <1>3, <1>4 DEF Current
<1> QED
  BY <1>9, <1>11, <1>12, <1>13, <1>14 DEF IInv

-----------------------------------------------------------------------------
(* Every step, and the theorems.                                           *)

LEMMA StepKeeps ==
  ASSUME IInv, NEW c \in Callers, Step(c)
  PROVE  IInv'
<1>1. CASE LoadHeader(c)
  BY <1>1, LoadHeaderKeeps
<1>2. CASE Answer(c) \/ Rollback(c)
  BY <1>2, LeavingKeeps
<1>3. CASE tx[c].at = "header" /\ Edit(c)
  BY <1>3, EditKeeps
<1>4. CASE tx[c].at = "header" /\ Classification(c)
  BY <1>4, ClassificationKeeps
<1>5. CASE \E l \in Lines : ReadToRepackage(c, l)
  BY <1>5, ReadToRepackageKeeps
<1>6. CASE \E l \in Lines, q \in PackageQuantities : SaveRepackaged(c, l, q)
  BY <1>6, SaveRepackagedKeeps
<1>7. CASE \E l \in Lines : EnterStock(c, l)
  BY <1>7, EnterStockKeeps
<1>8. CASE SaveHeader(c)
  BY <1>8, SaveHeaderKeeps
<1>9. CASE ReadToEnter(c)
  BY <1>9, ReadToEnterKeeps
<1>10. CASE Commit(c)
  BY <1>10, CommitKeeps
<1> QED
  BY <1>1, <1>2, <1>3, <1>4, <1>5, <1>6, <1>7, <1>8, <1>9, <1>10 DEF Step

LEMMA StutterKeeps ==
  ASSUME IInv, UNCHANGED vars
  PROVE  IInv'
<1>1. /\ purchase' = purchase /\ material' = material /\ tx' = tx /\ entered' = entered
      /\ highest' = highest /\ repackaged' = repackaged /\ torn' = torn /\ calls' = calls
  BY DEF vars
<1>2. StateTyped'
  BY <1>1 DEF IInv, StateTyped
<1>3. (torn \/ Current(purchase))' /\ Ordered' /\ StockHoldsEveryEntry'
  BY <1>1 DEF IInv, Current, Ordered, StockHoldsEveryEntry
<1>4. \A c \in Callers : Fits(tx'[c], material')
  BY <1>1 DEF IInv
<1> QED
  BY <1>2, <1>3, <1>4 DEF IInv

LEMMA InvAlways == Spec => []IInv
<1>1. Init => IInv
  BY InvFirst
<1>2. IInv /\ [Next]_vars => IInv'
  <2> SUFFICES ASSUME IInv, [Next]_vars PROVE IInv'
    OBVIOUS
  <2>1. CASE UNCHANGED vars
    BY <2>1, StutterKeeps
  <2>2. CASE \E c \in Callers : Step(c)
    BY <2>2, StepKeeps
  <2>3. CASE \E ls \in SUBSET Lines, discount \in Discounts, m \in RegisteredModes :
               \E g \in [ls -> Values], theirs \in SUBSET ls : \E stocked \in SUBSET theirs :
                 Register(ls, g, theirs, discount, m, stocked)
    BY <2>3, RegisterKeeps
  <2> QED
    BY <2>1, <2>2, <2>3 DEF Next
<1> QED
  BY <1>1, <1>2, PTL DEF Spec

\* Whatever requests interleave on a purchase, any number of them over any
\* number of lines, what PrismaPurchaseRepository.save commits is a purchase the
\* constructor accepts: lines, header and shares add up.
THEOREM StoredAlwaysCloses == Spec => []StoredPurchaseCloses
<1>1. IInv => StoredPurchaseCloses
  BY DEF IInv, StateTyped, SoundPurchases, Sound, StoredPurchaseCloses
<1> QED
  BY <1>1, InvAlways, PTL

\* The stored shares are those of the stored mode, classes and lines, unless
\* the purchase was built on halves of two purchases (findById's two statements).
THEOREM OnlyTornGoesStale == Spec => []AttributionIsCurrentUnlessTorn
<1>1. IInv => AttributionIsCurrentUnlessTorn
  BY DEF IInv, Current, AttributionIsCurrentUnlessTorn
<1> QED
  BY <1>1, InvAlways, PTL

\* While no classification restates a package quantity, stock is what the
\* committed ones entered and the cost the highest reported, any number of
\* calls at once (applyStockEntry under the purchase's lock).
THEOREM EntriesAreNeverLost == Spec => []StockHoldsEveryEntry
<1>1. IInv => StockHoldsEveryEntry
  BY DEF IInv
<1> QED
  BY <1>1, InvAlways, PTL

=============================================================================
