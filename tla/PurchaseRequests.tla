--------------------------- MODULE PurchaseRequests ---------------------------
(***************************************************************************)
(* Requests on one recorded purchase at once: the edits of                 *)
(* PurchaseEditingService, the classification of                           *)
(* InvoiceClassificationService with the stock it enters, and the reads of *)
(* PurchasesService.  Every writer runs in a transaction at READ COMMITTED:*)
(* it loads the purchase by two statements, header then lines, applies one *)
(* operation of the root, and saves the whole aggregate, the header first, *)
(* whose row lock it then holds until it ends.                             *)
(*                                                                         *)
(* The root's operations are those of PurchaseDiscounts, here as functions *)
(* of the purchase that was loaded.  Every line buys one package, and all  *)
(* that are stocked are of one Material, whose other writers are left to   *)
(* StockRequests.                                                          *)
(***************************************************************************)
EXTENDS DiscountAllocation

Sets == INSTANCE FiniteSetsExt

CONSTANTS
  Callers,            \* requests that can be under way at once
  Values, Discounts,  \* gross values and discounts, in cents
  RegisteredModes,    \* the modes a registration chooses
  PackageQuantities,  \* how much of the consumption unit a package can hold
  MaxCalls            \* bound on the requests that load the purchase

ASSUME RequestsAssumption ==
  /\ Values \subseteq Nat /\ Discounts \subseteq Nat
  /\ RegisteredModes \subseteq ComputedModes
  /\ PackageQuantities \subseteq Nat

VARIABLES
  purchase,   \* the committed row and its lines
  material,   \* the committed row of the Material
  tx,         \* what each caller holds
  entered,    \* history: what committed classifications entered into stock
  highest,    \* history: the highest package cost a committed request reported
  repackaged, \* history: has a classification restated the package quantity?
  torn,       \* history: was the committed purchase built on a torn load?
  calls       \* bounds the model: requests that loaded the purchase

vars == <<purchase, material, tx, entered, highest, repackaged, torn, calls>>

None == [none |-> TRUE]
Idle == [at |-> "idle"]

NoPurchase ==
  [lines |-> {}, gross |-> NoAmounts, company |-> {}, allocated |-> NoAmounts,
   grossTotal |-> 0, discountTotal |-> 0, mode |-> "PROPORTIONAL", pending |-> FALSE,
   registered |-> FALSE]

Header(p) == [f \in {"grossTotal", "discountTotal", "mode", "pending"} |-> p[f]]

\* PurchaseMapper.toDomain: one statement's header over another's lines.
Under(header, p) == [f \in DOMAIN p |-> IF f \in DOMAIN header THEN header[f] ELSE p[f]]

\* The PurchaseItem constructor, on the discount a line holds.
ItemAccepted(p, l) == p.allocated[l] <= p.gross[l]

\* assertNoDiscountOutsideEligibleSet.
NothingOutside(p) ==
  \A l \in p.lines \ EligibleLines(p.lines, p.company, p.mode) : p.allocated[l] = 0

\* The Purchase constructor, which every load goes through too.
Accepts(p) ==
  /\ p.discountTotal <= p.grossTotal
  /\ p.lines = {} \/ SumOver(p.lines, p.gross) = p.grossTotal
  /\ \A l \in p.lines : ItemAccepted(p, l)
  /\ NothingOutside(p)
  /\ p.pending \/ SumOver(p.lines, p.allocated) = p.discountTotal

-----------------------------------------------------------------------------
(* The root: the purchases an operation may make of p, none if it throws.  *)

\* withReallocation.
Reallocated(p, m, manual) ==
  {[p EXCEPT !.allocated = a, !.mode = m, !.pending = FALSE] :
     a \in Allocations(p.lines, p.gross, p.company, p.discountTotal, m, manual)}

\* restructure, over the lines p now has.
Restructured(p) ==
  LET total == SumOver(p.lines, p.gross)
      closed == [p EXCEPT !.grossTotal = total]
  IN IF p.discountTotal > total THEN {}
     ELSE IF p.mode # "MANUAL" THEN Reallocated(closed, p.mode, NoAmounts)
     ELSE {[closed EXCEPT !.pending = (p.discountTotal # 0)]}

WithItem(p, l, value, ours) ==
  Restructured([p EXCEPT !.lines = @ \cup {l}, !.gross[l] = value, !.allocated[l] = 0,
                         !.company = IF ours THEN @ \cup {l} ELSE @])

WithoutItem(p, l) ==
  Restructured([p EXCEPT !.lines = @ \ {l}, !.gross[l] = 0, !.allocated[l] = 0,
                         !.company = @ \ {l}])

WithItemValue(p, l, value) ==
  Restructured([p EXCEPT !.gross[l] = value, !.allocated[l] = 0])

\* No mode comes with the classes.
Kept == "KEPT"

\* Mutant of Classified: the discount stays where it was.
ClassifiedInPlace(p, theirs, chosen, manual) == {[p EXCEPT !.company = theirs]}

\* classifyItems, then completeEdit, which refuses a pending attribution.
Classified(p, theirs, chosen, manual) ==
  LET reclassified == [p EXCEPT !.company = theirs]
      m == IF chosen = Kept THEN p.mode ELSE chosen
  IN IF chosen = Kept /\ p.mode = "MANUAL"
       THEN {q \in {reclassified} : ~ q.pending /\ Accepts(q)}
       ELSE Reallocated(reclassified, m, manual)

-----------------------------------------------------------------------------
(* Loading and saving.                                                     *)

Init ==
  /\ purchase = NoPurchase
  /\ material \in {[stock |-> 0, cost |-> 0, package |-> q] : q \in PackageQuantities}
  /\ tx = [c \in Callers |-> Idle]
  /\ entered = 0 /\ highest = 0
  /\ repackaged = FALSE /\ torn = FALSE /\ calls = 0

history == <<entered, highest, repackaged, torn>>

\* buildItems: a purchase of the lines given, no discount attributed yet.
Built(ls, g, theirs, discount) ==
  LET gross == [l \in Lines |-> IF l \in ls THEN g[l] ELSE 0]
  IN [NoPurchase EXCEPT !.lines = ls, !.gross = gross, !.company = theirs,
        !.grossTotal = SumOver(ls, gross), !.discountTotal = discount, !.registered = TRUE]

\* receiveInvoicePackageCost, line after line: a cost only rises.
CostAfter(cost, reported) == Sets!Max({cost} \cup reported)

\* PurchasesService.register.  Nobody else can name the purchase before it is
\* committed.  Each line that names the Material reports its cost to it.
Register(ls, g, theirs, discount, m, stocked) ==
  /\ ~ purchase.registered
  /\ ls # {} /\ stocked \subseteq theirs
  /\ LET built == Built(ls, g, theirs, discount)
         cost == CostAfter(material.cost, {built.gross[l] : l \in stocked})
     IN /\ discount <= built.grossTotal
        /\ purchase' \in Reallocated(built, m, NoAmounts)
        /\ material' = [material EXCEPT !.cost = cost]
        /\ highest' = cost
  /\ UNCHANGED <<tx, entered, repackaged, torn, calls>>

\* findById, its first statement.
LoadHeader(c) ==
  /\ tx[c].at = "idle" /\ purchase.registered /\ calls < MaxCalls
  /\ tx' = [tx EXCEPT ![c] = [at |-> "header", header |-> Header(purchase)]]
  /\ calls' = calls + 1
  /\ UNCHANGED <<purchase, material, history>>

\* Its second: the lines as they are by then.
Loaded(c) == Under(tx[c].header, purchase)

\* getById and list answer with what they load; a load the constructor refuses,
\* or an operation it throws from, ends the request with nothing saved.
Answer(c) ==
  /\ tx[c].at = "header"
  /\ tx' = [tx EXCEPT ![c] = Idle]
  /\ UNCHANGED <<purchase, material, history, calls>>

\* The caller goes on with the purchase its operation made, the lines it stocks
\* and those among them that restate the package quantity, and whether what it
\* loaded was, or came from, halves of two purchases.
Operate(c, outcomes, stocked, restated) ==
  /\ tx[c].at = "header" /\ Accepts(Loaded(c))
  /\ \E built \in outcomes :
       tx' = [tx EXCEPT ![c] =
                [at |-> "built", built |-> built, stocked |-> stocked,
                 resolve |-> restated, enter |-> stocked, row |-> None,
                 seen |-> None, gain |-> 0, repackaged |-> FALSE,
                 torn |-> torn \/ tx[c].header # Header(purchase)]]
  /\ UNCHANGED <<purchase, material, history, calls>>

AddItem(c, l, value, ours) ==
  /\ tx[c].at = "header" /\ l \notin Loaded(c).lines
  /\ Operate(c, WithItem(Loaded(c), l, value, ours), {}, {})

RemoveItem(c, l) ==
  /\ tx[c].at = "header" /\ l \in Loaded(c).lines
  /\ Operate(c, WithoutItem(Loaded(c), l), {}, {})

ChangeItem(c, l, value) ==
  /\ tx[c].at = "header" /\ l \in Loaded(c).lines
  /\ Operate(c, WithItemValue(Loaded(c), l, value), {}, {})

SetDiscountAllocation(c, m, manual) ==
  /\ tx[c].at = "header"
  /\ Operate(c, Reallocated(Loaded(c), m, manual), {}, {})

CompleteEdit(c) ==
  /\ tx[c].at = "header" /\ ~ Loaded(c).pending
  /\ Operate(c, {Loaded(c)}, {}, {})

Classify(c, theirs, stocked, m, manual) ==
  /\ tx[c].at = "header" /\ stocked \subseteq theirs
  /\ \E restated \in SUBSET stocked :
       Operate(c, Classified(Loaded(c), theirs, m, manual), stocked, restated)

-----------------------------------------------------------------------------
(* The Material of the stock lines.                                        *)

\* The row caller c leaves: its own, saved and not committed, over the committed.
Row(c) == IF tx[c].row = None THEN material ELSE tx[c].row

\* Mutant of Visible: read outside the transaction.
VisibleOutside(c) == material

\* The row as c's next statement finds it, its repositories being bound to its
\* transaction.
Visible(c) == Row(c)

MaterialIsFree(c) ==
  \A d \in Callers \ {c} : tx[d].at \in {"built", "saved"} => tx[d].row = None

\* resolveMaterial, line by line before anything of the purchase is saved: a
\* quantity that is not the row's is written into the row it read, and the whole
\* row saved.
ReadToRepackage(c, l) ==
  /\ tx[c].at = "built" /\ l \in tx[c].resolve /\ tx[c].seen = None
  /\ tx' = [tx EXCEPT ![c].seen = Visible(c)]
  /\ UNCHANGED <<purchase, material, history, calls>>

SaveRepackaged(c, l, q) ==
  /\ tx[c].at = "built" /\ l \in tx[c].resolve /\ tx[c].seen # None
  /\ q # tx[c].seen.package /\ MaterialIsFree(c)
  /\ tx' = [tx EXCEPT ![c].resolve = @ \ {l}, ![c].seen = None, ![c].repackaged = TRUE,
                      ![c].row = [tx[c].seen EXCEPT !.package = q]]
  /\ UNCHANGED <<purchase, material, history, calls>>

\* applyStockEntry reads the row, once the purchase is saved and under its lock...
ReadToEnter(c) ==
  /\ tx[c].at = "saved" /\ tx[c].enter # {} /\ tx[c].seen = None
  /\ tx' = [tx EXCEPT ![c].seen = Visible(c)]
  /\ UNCHANGED <<purchase, material, history, calls>>

\* ...and saves the whole of it: one more package, and a cost that only rises.
EnterStock(c, l) ==
  /\ tx[c].at = "saved" /\ l \in tx[c].enter /\ tx[c].seen # None
  /\ MaterialIsFree(c)
  /\ LET seen == tx[c].seen
     IN tx' = [tx EXCEPT ![c].enter = @ \ {l}, ![c].seen = None,
                         ![c].gain = @ + seen.package,
                         ![c].row = [seen EXCEPT !.stock = @ + seen.package,
                                       !.cost = CostAfter(@, {tx[c].built.gross[l]})]]
  /\ UNCHANGED <<purchase, material, history, calls>>

-----------------------------------------------------------------------------

PurchaseIsFree == \A d \in Callers : tx[d].at # "saved"

\* PrismaPurchaseRepository.save begins with the header, and waits for its row.
SaveHeader(c) ==
  /\ tx[c].at = "built" /\ tx[c].resolve = {} /\ tx[c].seen = None
  /\ PurchaseIsFree
  /\ tx' = [tx EXCEPT ![c].at = "saved"]
  /\ UNCHANGED <<purchase, material, history, calls>>

\* Mutant of LinesLeft: lines the aggregate does not have are left behind.
LinesLeftAll(stored, built) == stored.lines

\* The deleteMany of save: what stays of the lines stored under the lock.
LinesLeft(stored, built) == stored.lines \cap built.lines

\* The row and the lines once saved: the header, then the lines left, each line
\* of the aggregate written over them.
Saved(stored, built) ==
  LET over(f) == [l \in Lines |-> IF l \in built.lines THEN built[f][l]
                                  ELSE IF l \in LinesLeft(stored, built) THEN stored[f][l] ELSE 0]
      left == LinesLeft(stored, built) \ built.lines
  IN [built EXCEPT !.lines = @ \cup left, !.company = @ \cup (stored.company \cap left),
                   !.gross = over("gross"), !.allocated = over("allocated")]

Commit(c) ==
  /\ tx[c].at = "saved" /\ tx[c].enter = {}
  /\ purchase' = Saved(purchase, tx[c].built)
  /\ material' = Row(c)
  /\ entered' = entered + tx[c].gain
  /\ highest' = Sets!Max({highest} \cup {tx[c].built.gross[l] : l \in tx[c].stocked})
  /\ repackaged' = (repackaged \/ tx[c].repackaged)
  /\ torn' = tx[c].torn
  /\ tx' = [tx EXCEPT ![c] = Idle]
  /\ UNCHANGED calls

\* Anything that fails before the commit leaves nothing: a call refused, a lost
\* connection, a crash, the transaction's time limit, or a deadlock, which two
\* classifications meet when one of them restates a package quantity.
Rollback(c) ==
  /\ tx[c].at \in {"built", "saved"}
  /\ tx' = [tx EXCEPT ![c] = Idle]
  /\ UNCHANGED <<purchase, material, history, calls>>

-----------------------------------------------------------------------------

\* Amounts typed for the lines of a purchase of this discount.
Typed(p) == {[l \in Lines |-> IF l \in p.lines THEN a[l] ELSE 0] :
               a \in [p.lines -> 0..p.discountTotal]}

Edit(c) ==
  \/ \E l \in Lines, value \in Values, ours \in BOOLEAN : AddItem(c, l, value, ours)
  \/ \E l \in Lines : RemoveItem(c, l)
  \/ \E l \in Lines, value \in Values : ChangeItem(c, l, value)
  \/ \E m \in ComputedModes : SetDiscountAllocation(c, m, NoAmounts)
  \/ \E manual \in Typed(Loaded(c)) : SetDiscountAllocation(c, "MANUAL", manual)
  \/ CompleteEdit(c)

\* The mode is the purchase's own unless one is chosen and there is a discount.
Classification(c) ==
  \E theirs \in SUBSET Loaded(c).lines : \E stocked \in SUBSET theirs :
    \/ Classify(c, theirs, stocked, Kept, NoAmounts)
    \/ /\ Loaded(c).discountTotal # 0
       /\ \/ \E m \in ComputedModes : Classify(c, theirs, stocked, m, NoAmounts)
          \/ \E manual \in Typed(Loaded(c)) : Classify(c, theirs, stocked, "MANUAL", manual)

Step(c) ==
  \/ LoadHeader(c) \/ Answer(c)
  \/ tx[c].at = "header" /\ (Edit(c) \/ Classification(c))
  \/ \E l \in Lines :
       \/ ReadToRepackage(c, l) \/ EnterStock(c, l)
       \/ \E q \in PackageQuantities : SaveRepackaged(c, l, q)
  \/ SaveHeader(c) \/ ReadToEnter(c) \/ Commit(c) \/ Rollback(c)

Next ==
  \/ \E ls \in SUBSET Lines, discount \in Discounts, m \in RegisteredModes :
       \E g \in [ls -> Values], theirs \in SUBSET ls : \E stocked \in SUBSET theirs :
         Register(ls, g, theirs, discount, m, stocked)
  \/ \E c \in Callers : Step(c)

Spec == Init /\ [][Next]_vars

-----------------------------------------------------------------------------
(* Correctness.                                                            *)

\* Whatever requests interleave, the committed header and lines are a purchase
\* the constructor accepts: the header's row lock and the whole aggregate saved
\* under it (PrismaPurchaseRepository.save) never leave two saves mixed, though
\* loads do mix them and a later save may be built on such a load.
StoredPurchaseCloses == purchase.registered => Accepts(purchase)

\* A save overwriting changes it never saw still stores amounts that are those
\* of the mode, classes and lines stored with them; only a load of two halves
\* can part them, when the constructor cannot tell (PurchaseEditingService.edit
\* says an edit never saves allocatedDiscount out of step).
AttributionIsCurrentUnlessTorn ==
  LET p == purchase
  IN torn \/ p.mode = "MANUAL" \/
       p.allocated \in Allocations(p.lines, p.gross, p.company, p.discountTotal, p.mode, NoAmounts)

\* Classifying again and again, together or in turns, each committed call enters
\* each of its lines exactly once, and the cost is the highest any reported: the
\* purchase's lock, taken before the stock is read, keeps calls of one purchase
\* from losing each other's entries, unless one restates the package quantity,
\* which saves the whole row before that lock (resolveMaterial).
StockHoldsEveryEntry ==
  ~ repackaged => material.stock = entered /\ material.cost = highest

=============================================================================
