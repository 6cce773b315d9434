------------------------------ MODULE Figures -------------------------------
(***************************************************************************)
(* The figures the shop reads: what a recipe costs and sells for, how many *)
(* pieces the shelf makes, what a sale adds up to, what to buy for the     *)
(* sales waiting, and the panels of sales, losses and spending; with the   *)
(* operations that move the rows they are computed from.                   *)
(*                                                                         *)
(* Amounts are whole cents.  Quantities have three decimals and are        *)
(* counted in 1/Scale of a unit, so a need, recipe times sale, is counted  *)
(* in 1/Scale^2 until a column stores it.  Money computes in integers and  *)
(* so does this module; where the code divides doubles, or rounds one that *)
(* lies halfway, the outcomes it may have are a set.                       *)
(*                                                                         *)
(* Handlers are served one at a time: what overlaps is StockRequests.      *)
(***************************************************************************)
EXTENDS StockMath, FiniteSetsExt

CONSTANTS
  Scale,            \* 1000 in the code: three decimals of a quantity
  RatioScale,       \* 10^9 in the code: the places a ratio is rounded to
  Materials,
  Product,          \* the one composite product
  Sales,            \* the identifiers a sale may take
  Losses,           \* the identifiers a stock loss may take
  Reasons,          \* StockLossReason
  Purchases,        \* the identifiers a purchase may take
  Recordable,       \* what a purchase may be recorded as
  Costs,            \* package costs, in cents
  Holds,            \* package quantities
  Bills,            \* bills of materials: what a piece takes of each material
  FixedCosts,       \* fixed operational costs, in cents
  Margins,          \* margins, in basis points
  ManualPrices,     \* practised prices, in cents
  PieceQuantities,  \* what a product line sells
  LooseQuantities,  \* what a loose material line sells, and what is lost
  Received,         \* what one stock entry puts in
  MonthLength,      \* instants in a month
  Offset,           \* how far the business day lags behind UTC
  MaxNow,           \* bound: the last instant
  MaxCalls          \* bound: calls

None == [none |-> TRUE]

\* What a company line of a purchase is: stock material, or not.
Kinds == {"stock", "other"}

ASSUME FiguresAssumption ==
  /\ \A S \in {Materials, Sales, Losses, Reasons, Purchases} : IsFiniteSet(S)
  /\ {Scale, RatioScale, MonthLength} \subseteq Nat \ {0}
  /\ Costs \cup FixedCosts \cup Margins \cup ManualPrices \subseteq Nat
  /\ Holds \cup PieceQuantities \cup LooseQuantities \cup Received \subseteq Nat \ {0}
  /\ Bills \subseteq [Materials -> Nat]
  /\ {Offset, MaxNow, MaxCalls} \subseteq Nat
  /\ Product \notin Materials
  /\ \A note \in Recordable, k \in Kinds :
       \/ note.lines[k] = None
       \/ {note.lines[k].gross, note.lines[k].discount} \subseteq Nat
            /\ note.lines[k].discount <= note.lines[k].gross

VARIABLES
  material,   \* [cost, holds, stock, active] of each Material
  product,    \* [bill, fixed, margin, manual, active] of the product
  sale,       \* [payment, production, created] of each sale
  line,       \* [ref, quantity, amount, over] of each item slot
  snapshot,   \* quantityDebited of each sale and material
  loss,       \* [material, quantity, reason, amount, over, created] of each loss
  purchase,   \* [shop, lines, pending, date] of each purchase
  ledger,     \* history: what was put in stock, net of losses
  ties,       \* history: the debits of each material that ended halfway
  now,
  calls

books == <<ledger, ties>>
inventory == <<material, product, sale, line, snapshot, loss, books>>
rows == <<inventory, purchase>>
figuresVars == <<rows, now, calls>>

NoRow == -1

PaymentStatus == {"PENDING", "PAID"}
ProductionStatus == {"PENDING", "ASSEMBLED", "DELIVERED"}

ExistingSales == {s \in Sales : sale[s] # None}
LinesOf(s) == {sl \in {s} \X Lines : line[sl] # None}

-----------------------------------------------------------------------------
(* Money.                                                                  *)

\* divideRoundingHalfAwayFromZero, of figures that are never negative.
DivideRounding(numerator, denominator) ==
  (2 * numerator + denominator) \div (2 * denominator)

\* Money.scaled: multiplied before divided, rounded once.
Scaled(amount, multiplier, divisor) == DivideRounding(amount * multiplier, divisor)

ApplyMargin(amount, basisPoints) == Scaled(amount, 10000 + basisPoints, 10000)

-----------------------------------------------------------------------------
(* Pricing and capacity of the product.                                    *)

InBill == IF product = None THEN {} ELSE {m \in Materials : product.bill[m] > 0}

\* calculateMaterialsCost: the rounded lines, summed.
MaterialsCost ==
  SumFunction([m \in InBill |-> Scaled(material[m].cost, product.bill[m], material[m].holds)])

FinalPrice ==
  IF product.manual # NoRow THEN product.manual
  ELSE ApplyMargin(MaterialsCost + product.fixed, product.margin)

\* Mutant of PossibleUnits: a piece begun counts as a piece.
PossibleUnitsBegun(m) ==
  {(material[m].stock + product.bill[m] - 1) \div product.bill[m]}

\* Math.floor of a quotient of doubles, not rounded first: where the exact
\* ratio is whole it may come out a hair below (0.3 / 0.1 floors to 2).
PossibleUnits(m) ==
  LET whole == material[m].stock \div product.bill[m]
      exact == material[m].stock = whole * product.bill[m]
  IN {whole} \cup {unit \in {whole - 1} : exact /\ whole > 0}

\* The productionCapacity the screen may show: the least of its lines, zero
\* for an empty bill.
Capacities ==
  IF InBill = {} THEN {0}
  ELSE {Min({units[m] : m \in InBill}) :
          units \in {f \in [InBill -> UNION {PossibleUnits(m) : m \in InBill}] :
                       \A m \in InBill : f[m] \in PossibleUnits(m)}}

-----------------------------------------------------------------------------
(* Lines and totals of a sale.                                             *)

\* What a client asks to sell: a margin goes with a loose material only.
ItemInputs ==
  [ref : {Product}, quantity : PieceQuantities, margin : {NoRow}]
    \cup [ref : Materials, quantity : LooseQuantities, margin : Margins]

Sellable(input) ==
  IF input.ref = Product THEN product # None /\ product.active
  ELSE material[input.ref].active

\* calculateLooseMaterialPriceBasis: what a whole package sells for.
LooseMaterialPriceBasis(m, margin) == ApplyMargin(material[m].cost, margin)

\* resolveItems: the price of a line is frozen when the line is created.
Resolved(input) ==
  IF input.ref = Product
  THEN [ref |-> Product, quantity |-> input.quantity, amount |-> FinalPrice, over |-> Scale]
  ELSE [ref |-> input.ref, quantity |-> input.quantity,
        amount |-> LooseMaterialPriceBasis(input.ref, input.margin),
        over |-> material[input.ref].holds]

LineTotal(item) == Scaled(item.amount, item.quantity, item.over)

\* saleTotal: the rounded lines, summed; what the detail of a sale shows.
SaleTotal(s) == SumFunction([sl \in LinesOf(s) |-> LineTotal(line[sl])])

-----------------------------------------------------------------------------
(* Needs, debits and what to buy.                                          *)

\* What one unit of a line takes of material m.
Takes(item, m) ==
  IF item.ref = Product THEN product.bill[m]
  ELSE IF item.ref = m THEN Scale ELSE 0

\* calculateMaterialNeed over the items of a selection of sales, in 1/Scale^2.
Need(selection, m) ==
  SumFunction([sl \in UNION {LinesOf(s) : s \in selection} |->
                 line[sl].quantity * Takes(line[sl], m)])

\* What a numeric(12,3) column may store of a figure of six decimals: the
\* nearest; of one halfway between two, either.  The column rounds it up, but
\* the double it comes from may lie a hair below (0.7 * 0.005).
Stored(exact) ==
  {n \in {exact \div Scale, exact \div Scale + 1} : 2 * (n * Scale - exact) \in -Scale..Scale}

Halfway(exact) == \E n \in Stored(exact) : 2 * (n * Scale - exact) \in {-Scale, Scale}

\* What a column may store of several figures.
AllStored(figures) ==
  {stored \in [DOMAIN figures -> UNION {Stored(figures[x]) : x \in DOMAIN figures}] :
     \A x \in DOMAIN figures : stored[x] \in Stored(figures[x])}

\* calculateStockDebit.
Debited(s, m) == Smaller(Need({s}, m), material[m].stock * Scale)

\* calculateShortage.
Shortage(selection, m) == Max({0, Need(selection, m) - material[m].stock * Scale})

\* Mutant of PackagesToBuy: the started package is forgotten.
PackagesToBuyWhole(shortage, holds) ==
  DivideRounding(shortage * RatioScale, holds * Scale) \div RatioScale

\* estimatePurchase: the ratio rounded to its places, then to the next package.
PackagesToBuy(shortage, holds) ==
  LET ratio == DivideRounding(shortage * RatioScale, holds * Scale)
  IN (ratio + RatioScale - 1) \div RatioScale

\* One line of the shopping list; a package that costs nothing is one whose
\* cost was never informed.
ShoppingLine(selection, m) ==
  LET packages == PackagesToBuy(Shortage(selection, m), material[m].holds)
      known == packages = 0 \/ material[m].cost > 0
  IN [packages |-> packages, known |-> known,
      cost |-> IF known THEN packages * material[m].cost ELSE 0]

\* getShoppingList: its lines, their sum, and how many it leaves out.
ShoppingList(selection) ==
  LET wanted == {m \in Materials : Need(selection, m) > 0}
      lines == [m \in wanted |-> ShoppingLine(selection, m)]
  IN [lines |-> lines,
      estimatedTotal |-> SumFunction([m \in wanted |-> lines[m].cost]),
      unestimatedLineCount |-> Cardinality({m \in wanted : ~ lines[m].known})]
-----------------------------------------------------------------------------
(* The panels.                                                             *)

\* businessMonthOf: the month on the shop's wall calendar, not in UTC.
BusinessMonth(instant) == (instant - Offset) \div MonthLength

\* businessMonthsIn: every month [from, to) touches.
BusinessMonthsIn(from, to) ==
  IF to <= from THEN {} ELSE BusinessMonth(from)..BusinessMonth(to - 1)

\* Mutant of SummaryTotal: the price of one unit is rounded, then multiplied.
SummaryTotalPerUnit(s) ==
  SumFunction([sl \in LinesOf(s) |->
                 Scaled(Scaled(line[sl].amount, Scale, line[sl].over), line[sl].quantity, Scale)])

\* toSaleSummary: the adapter adds a sale up with the function of its detail.
SummaryTotal(s) == SumFunction([sl \in LinesOf(s) |-> LineTotal(line[sl])])

SaleTotals(group) ==
  [count |-> Cardinality(group), amount |-> SumFunction([s \in group |-> SummaryTotal(s)])]

IsOpen(payment, production) == payment = "PENDING" \/ production # "DELIVERED"

\* buildSalesDataset over the sales created in [from, to), and over every open
\* sale whatever its date.
SalesDataset(from, to) ==
  LET period == {s \in ExistingSales : from <= sale[s].created /\ sale[s].created < to}
      months == BusinessMonthsIn(from, to) \cup {BusinessMonth(sale[s].created) : s \in period}
      cells == {cell \in PaymentStatus \X ProductionStatus : IsOpen(cell[1], cell[2])}
  IN [byMonth |-> [month \in months |->
                     SaleTotals({s \in period : BusinessMonth(sale[s].created) = month})],
      byPaymentStatus |-> [status \in PaymentStatus |->
                             SaleTotals({s \in period : sale[s].payment = status})],
      byProductionStatus |-> [status \in ProductionStatus |->
                                SaleTotals({s \in period : sale[s].production = status})],
      openItems |-> [cell \in cells |->
                       SaleTotals({s \in ExistingSales :
                                     <<sale[s].payment, sale[s].production>> = cell})]]

\* StockLoss.value: at the cost frozen when the loss was recorded.
LossValue(l) == Scaled(loss[l].amount, loss[l].quantity, loss[l].over)

LossTotals(group) ==
  [count |-> Cardinality(group), amount |-> SumFunction([l \in group |-> LossValue(l)])]

\* buildStockLossDataset over the losses recorded in [from, to).
LossDataset(from, to) ==
  LET period == {l \in Losses : loss[l] # None /\ from <= loss[l].created /\ loss[l].created < to}
      months == BusinessMonthsIn(from, to) \cup {BusinessMonth(loss[l].created) : l \in period}
  IN [byMonth |-> [month \in months |->
                     LossTotals({l \in period : BusinessMonth(loss[l].created) = month})],
      byReason |-> [reason \in Reasons |-> LossTotals({l \in period : loss[l].reason = reason})],
      byMaterial |-> [m \in {loss[l].material : l \in period} |->
                        LossTotals({l \in period : loss[l].material = m})]]

\* What one group of a purchase's lines adds up to in the panel.
NetSpend(part) == purchase[part[1]].lines[part[2]].gross - purchase[part[1]].lines[part[2]].discount

SpendingTotals(parts) ==
  [netSpend |-> SumFunction([part \in parts |-> NetSpend(part)]),
   discountTotal |->
     SumFunction([part \in parts |-> purchase[part[1]].lines[part[2]].discount]),
   purchaseCount |-> Cardinality({part[1] : part \in parts})]

\* spendingDataset over the purchases dated in [from, to), of some shop or of
\* all: those whose attribution is pending are left out, a purchase of company
\* lines of both kinds counts once but in each kind, and both kinds are there.
SpendingDataset(from, to, shops) ==
  LET counted == {p \in Purchases :
                    /\ purchase[p] # None /\ ~ purchase[p].pending
                    /\ from <= purchase[p].date /\ purchase[p].date < to
                    /\ purchase[p].shop \in shops}
      parts == {part \in counted \X Kinds : purchase[part[1]].lines[part[2]] # None}
      By(label) ==
        [x \in {label[part[1]] : part \in parts} |->
           SpendingTotals({part \in parts : label[part[1]] = x})]
  IN [byPeriod |-> By([p \in counted |-> BusinessMonth(purchase[p].date)]),
      byEstablishment |-> By([p \in counted |-> purchase[p].shop]),
      byStockMaterial |-> [k \in Kinds |-> SpendingTotals({part \in parts : part[2] = k})]]

-----------------------------------------------------------------------------
(* Sales.                                                                  *)

Keeps(what) == UNCHANGED what /\ UNCHANGED <<purchase, now>>

\* SalesService.create.
CreateSale(s, inputs) ==
  /\ sale[s] = None
  /\ \A l \in DOMAIN inputs : Sellable(inputs[l])
  /\ sale' = [sale EXCEPT ![s] = [payment |-> "PENDING", production |-> "PENDING",
                                  created |-> now]]
  /\ line' = [sl \in Sales \X Lines |->
                IF sl[1] = s /\ sl[2] \in DOMAIN inputs THEN Resolved(inputs[sl[2]]) ELSE line[sl]]
  /\ Keeps(<<material, product, snapshot, loss, books>>)

Editable(s) == sale[s] # None /\ sale[s].production = "PENDING"

AddSaleItem(s, l, input) ==
  /\ Editable(s) /\ line[<<s, l>>] = None /\ Sellable(input)
  /\ line' = [line EXCEPT ![<<s, l>>] = Resolved(input)]
  /\ Keeps(<<material, product, sale, snapshot, loss, books>>)

RemoveSaleItem(s, l) ==
  /\ Editable(s) /\ line[<<s, l>>] # None
  /\ line' = [line EXCEPT ![<<s, l>>] = None]
  /\ Keeps(<<material, product, sale, snapshot, loss, books>>)

\* Mutant of WithQuantity: the line is resolved again, at today's price.
WithQuantityRepriced(item, quantity) ==
  IF item.ref = Product THEN [item EXCEPT !.quantity = quantity, !.amount = FinalPrice]
  ELSE [item EXCEPT !.quantity = quantity, !.amount = material[item.ref].cost]

\* SaleItem.withQuantity: the frozen price stays.
WithQuantity(item, quantity) == [item EXCEPT !.quantity = quantity]

QuantitiesOf(ref) == IF ref = Product THEN PieceQuantities ELSE LooseQuantities

UpdateItemQuantity(s, l) ==
  /\ Editable(s) /\ line[<<s, l>>] # None
  /\ \E quantity \in QuantitiesOf(line[<<s, l>>].ref) :
       line' = [line EXCEPT ![<<s, l>>] = WithQuantity(@, quantity)]
  /\ Keeps(<<material, product, sale, snapshot, loss, books>>)

UpdatePaymentStatus(s, status) ==
  /\ sale[s] # None
  /\ sale' = [sale EXCEPT ![s].payment = status]
  /\ Keeps(<<material, product, line, snapshot, loss, books>>)

\* debitStock: what is taken, and the row that says so, each rounded by its
\* own column; nothing to take leaves no row.
DebitStock(s) ==
  LET debits == [m \in {k \in Materials : Debited(s, k) > 0} |-> Debited(s, m)]
      shelves == [m \in DOMAIN debits |-> material[m].stock * Scale - debits[m]]
  IN \E left \in AllStored(shelves), debited \in AllStored(debits) :
       /\ material' = [m \in Materials |->
                         IF m \in DOMAIN debits THEN [material[m] EXCEPT !.stock = left[m]]
                         ELSE material[m]]
       /\ snapshot' = [sm \in Sales \X Materials |->
                         IF sm[1] = s /\ sm[2] \in DOMAIN debits THEN debited[sm[2]]
                         ELSE snapshot[sm]]
       /\ ties' = [m \in Materials |->
                     IF m \in DOMAIN debits /\ Halfway(debits[m]) THEN ties[m] + 1 ELSE ties[m]]

\* Mutant of ReverseStockDebit: the need is computed again.
ReverseStockDebitRecomputed(s) ==
  /\ \E needed \in AllStored([m \in Materials |-> Need({s}, m)]) :
       material' = [m \in Materials |-> [material[m] EXCEPT !.stock = @ + needed[m]]]
  /\ snapshot' = [sm \in Sales \X Materials |-> IF sm[1] = s THEN NoRow ELSE snapshot[sm]]
  /\ UNCHANGED ties

\* reverseStockDebit.  A row that reads zero is refused by its own entity, so
\* the handler throws and the sale stays as it is.
ReverseStockDebit(s) ==
  /\ \A m \in Materials : snapshot[<<s, m>>] # 0
  /\ material' = [m \in Materials |->
                    IF snapshot[<<s, m>>] = NoRow THEN material[m]
                    ELSE [material[m] EXCEPT !.stock = @ + snapshot[<<s, m>>]]]
  /\ snapshot' = [sm \in Sales \X Materials |-> IF sm[1] = s THEN NoRow ELSE snapshot[sm]]
  /\ UNCHANGED ties

UpdateProductionStatus(s, status) ==
  /\ sale[s] # None
  /\ \/ /\ status # "PENDING" /\ sale[s].production = "PENDING"
        /\ IF \A m \in Materials : snapshot[<<s, m>>] = NoRow
           THEN DebitStock(s)
           ELSE UNCHANGED <<material, snapshot, ties>>
     \/ /\ status = "PENDING" /\ sale[s].production # "PENDING"
        /\ ReverseStockDebit(s)
     \/ /\ (status = "PENDING") = (sale[s].production = "PENDING")
        /\ UNCHANGED <<material, snapshot, ties>>
  /\ sale' = [sale EXCEPT ![s].production = status]
  /\ Keeps(<<product, line, loss, ledger>>)

-----------------------------------------------------------------------------
(* Materials.                                                              *)

\* registerStockEntry, a relative entry.
ReceiveStock(m, quantity) ==
  /\ material' = [material EXCEPT ![m].stock = @ + quantity]
  /\ ledger' = [ledger EXCEPT ![m] = @ + quantity]
  /\ Keeps(<<product, sale, line, snapshot, loss, ties>>)

\* MaterialsService.update of the package.
ChangePackage(m, cost, holds) ==
  /\ material' = [material EXCEPT ![m].cost = cost, ![m].holds = holds]
  /\ Keeps(<<product, sale, line, snapshot, loss, books>>)

\* MaterialsService.discontinue and reactivate.
SetMaterialActive(m, active) ==
  /\ material[m].active # active
  /\ material' = [material EXCEPT ![m].active = active]
  /\ Keeps(<<product, sale, line, snapshot, loss, books>>)

\* StockLossesService.record: refused above the balance; at today's cost.
RecordLoss(l, m, quantity, reason) ==
  /\ loss[l] = None /\ quantity <= material[m].stock
  /\ material' = [material EXCEPT ![m].stock = @ - quantity]
  /\ loss' = [loss EXCEPT ![l] = [material |-> m, quantity |-> quantity, reason |-> reason,
                                  amount |-> material[m].cost, over |-> material[m].holds,
                                  created |-> now]]
  /\ ledger' = [ledger EXCEPT ![m] = @ - quantity]
  /\ Keeps(<<product, sale, line, snapshot, ties>>)

\* StockLossesService.remove: the stock is not touched.
RemoveLoss(l) ==
  /\ loss[l] # None
  /\ loss' = [loss EXCEPT ![l] = None]
  /\ Keeps(<<material, product, sale, line, snapshot, books>>)

-----------------------------------------------------------------------------
(* The product.                                                            *)

AllActive(bill) == \A m \in Materials : bill[m] > 0 => material[m].active

ProductRow ==
  [bill : Bills, fixed : FixedCosts, margin : Margins,
   manual : ManualPrices \cup {NoRow}, active : BOOLEAN]

\* CompositeProductsService.create.
CreateProduct(row) ==
  /\ product = None /\ row.active /\ AllActive(row.bill)
  /\ product' = row
  /\ Keeps(<<material, sale, line, snapshot, loss, books>>)

\* CompositeProductsService.update: a bill that is sent must be of active
\* materials; one that is kept need not be.
UpdateProduct(row) ==
  /\ product # None /\ row.active = product.active
  /\ row.bill = product.bill \/ AllActive(row.bill)
  /\ product' = row
  /\ Keeps(<<material, sale, line, snapshot, loss, books>>)

\* CompositeProductsService.discontinue and reactivate.
SetProductActive(active) ==
  /\ product # None /\ product.active # active
  /\ product' = [product EXCEPT !.active = active]
  /\ Keeps(<<material, sale, line, snapshot, loss, books>>)

\* CompositeProductsService.delete: refused while a sale line references it.
DeleteProduct ==
  /\ product # None
  /\ \A sl \in Sales \X Lines : line[sl] # None => line[sl].ref # Product
  /\ product' = None
  /\ Keeps(<<material, sale, line, snapshot, loss, books>>)

-----------------------------------------------------------------------------

\* PurchasesService.register; a purchase is dated by its note.
RegisterPurchase(p, note) ==
  /\ purchase[p] = None
  /\ purchase' = [purchase EXCEPT ![p] =
       [shop |-> note.shop, lines |-> note.lines, pending |-> FALSE, date |-> now]]
  /\ UNCHANGED <<inventory, now>>

\* An edit under MANUAL leaves the attribution pending, restating it settles it.
SetAttributionPending(p, pending) ==
  /\ purchase[p] # None /\ purchase[p].pending # pending
  /\ purchase' = [purchase EXCEPT ![p].pending = pending]
  /\ UNCHANGED <<inventory, now>>

SaleCall(s) ==
  \/ \E chosen \in (SUBSET Lines) \ {{}} : \E inputs \in [chosen -> ItemInputs] :
       CreateSale(s, inputs)
  \/ \E l \in Lines : \/ \E input \in ItemInputs : AddSaleItem(s, l, input)
                      \/ RemoveSaleItem(s, l)
                      \/ UpdateItemQuantity(s, l)
  \/ \E status \in PaymentStatus : UpdatePaymentStatus(s, status)
  \/ \E status \in ProductionStatus : UpdateProductionStatus(s, status)

MaterialCall(m) ==
  \/ \E quantity \in Received : ReceiveStock(m, quantity)
  \/ \E cost \in Costs, holds \in Holds : ChangePackage(m, cost, holds)
  \/ \E active \in BOOLEAN : SetMaterialActive(m, active)
  \/ \E l \in Losses, quantity \in LooseQuantities, reason \in Reasons :
       RecordLoss(l, m, quantity, reason)

ProductCall ==
  \/ \E row \in ProductRow : CreateProduct(row) \/ UpdateProduct(row)
  \/ \E active \in BOOLEAN : SetProductActive(active)
  \/ DeleteProduct

Call ==
  /\ calls < MaxCalls
  /\ calls' = calls + 1
  /\ \/ \E s \in Sales : SaleCall(s)
     \/ \E m \in Materials : MaterialCall(m)
     \/ \E l \in Losses : RemoveLoss(l)
     \/ ProductCall
     \/ \E p \in Purchases : \/ \E note \in Recordable : RegisterPurchase(p, note)
                            \/ \E pending \in BOOLEAN : SetAttributionPending(p, pending)

Tick == now < MaxNow /\ now' = now + 1 /\ UNCHANGED <<rows, calls>>

FiguresInit ==
  /\ material \in [Materials -> [cost : Costs, holds : Holds, stock : Received, active : {TRUE}]]
  /\ product \in {row \in ProductRow : row.active}
  /\ sale = [s \in Sales |-> None]
  /\ line = [sl \in Sales \X Lines |-> None]
  /\ snapshot = [sm \in Sales \X Materials |-> NoRow]
  /\ loss = [l \in Losses |-> None]
  /\ purchase = [p \in Purchases |-> None]
  /\ ledger = [m \in Materials |-> material[m].stock]
  /\ ties = [m \in Materials |-> 0]
  /\ now = 0
  /\ calls = 0

FiguresNext == Call \/ Tick

FiguresSpec == FiguresInit /\ [][FiguresNext]_figuresVars

-----------------------------------------------------------------------------
(* Correctness.                                                            *)

Shops == {note.shop : note \in Recordable}

\* The periods a panel may be asked for.
Periods == {period \in (0..MaxNow) \X (1..MaxNow + 1) : period[1] < period[2]}

\* A sale adds up to what was agreed (SaleItem.priceBasisAmount): once a line
\* exists, neither a new cost, package, recipe, margin or practised
\* price, nor an edit of its quantity, changes what one unit of it costs.
AgreedPricesHold ==
  [][\A sl \in Sales \X Lines :
       line[sl] # None /\ line'[sl] # None =>
         LineTotal(line'[sl]) = Scaled(line[sl].amount, line'[sl].quantity, line[sl].over)]_figuresVars

\* The cells of a panel add up to the figures of its details, and count them.
Tells(cells, figures) ==
  /\ SumFunction([x \in DOMAIN cells |-> cells[x].count]) = Cardinality(DOMAIN figures)
  /\ SumFunction([x \in DOMAIN cells |-> cells[x].amount]) = SumFunction(figures)

Spends(cells, left) ==
  SumFunction([x \in DOMAIN cells |-> cells[x].netSpend]) = SumFunction(left)

CountsOnce(cells, spent) ==
  SumFunction([x \in DOMAIN cells |-> cells[x].purchaseCount]) = Cardinality(spent)

PartsOf(p) == {part \in {p} \X Kinds : purchase[p].lines[part[2]] # None}

\* "Every figure of the sales dataset" equals the details "to the cent"
\* (saleLineTotal): whatever the period, months, payment and production each
\* add up to the sales of the period as their details show them, every month
\* of the period is there and no other, and the open cells hold each sale
\* that is not both paid and delivered once.  The panel of losses adds up to
\* its list in the same way (buildStockLossDataset), and that of spending to
\* the company lines of the purchases settled by then, each purchase counted
\* once by month and by shop (spendingDataset).
PanelsTellTheDetails ==
  \A asked \in Periods :
    LET sales == SalesDataset(asked[1], asked[2])
        losses == LossDataset(asked[1], asked[2])
        instants == asked[1]..asked[2] - 1
        sold == {s \in ExistingSales : sale[s].created \in instants}
        lost == {l \in Losses : loss[l] # None /\ loss[l].created \in instants}
        unsettled == {s \in ExistingSales :
                        sale[s].payment # "PAID" \/ sale[s].production # "DELIVERED"}
        saleTotals == [s \in sold |-> SaleTotal(s)]
        openTotals == [s \in unsettled |-> SaleTotal(s)]
        lossValues == [l \in lost |-> LossValue(l)]
        months == {BusinessMonth(t) : t \in instants}
        spending == SpendingDataset(asked[1], asked[2], Shops)
        spent == {p \in Purchases : /\ purchase[p] # None /\ ~ purchase[p].pending
                                    /\ purchase[p].date \in instants
                                    /\ \E k \in Kinds : purchase[p].lines[k] # None}
        left == [p \in spent |-> SumFunction([part \in PartsOf(p) |-> NetSpend(part)])]
    IN /\ Spends(spending.byPeriod, left) /\ CountsOnce(spending.byPeriod, spent)
       /\ Spends(spending.byEstablishment, left) /\ CountsOnce(spending.byEstablishment, spent)
       /\ Spends(spending.byStockMaterial, left)
       /\ Tells(sales.byMonth, saleTotals)
       /\ Tells(sales.byPaymentStatus, saleTotals)
       /\ Tells(sales.byProductionStatus, saleTotals)
       /\ Tells(sales.openItems, openTotals)
       /\ Tells(losses.byMonth, lossValues)
       /\ Tells(losses.byReason, lossValues)
       /\ Tells(losses.byMaterial, lossValues)
       /\ DOMAIN sales.byMonth = months /\ DOMAIN losses.byMonth = months

\* Buying what the shopping list says is enough to assemble every sale it was
\* asked for, and one package less of anything is not (estimatePurchase), up
\* to the place the ratio is rounded to; and the total says how many of the
\* materials to buy it leaves out.
BuyingTheListIsEnough ==
  \A selection \in SUBSET ExistingSales :
    LET list == ShoppingList(selection)
        Shelf(m, packages) == (material[m].stock + packages * material[m].holds) * Scale
        Hair(m) == (material[m].holds * Scale) \div RatioScale
        unpriced == {m \in DOMAIN list.lines : list.lines[m].packages > 0 /\ material[m].cost = 0}
    IN /\ \A m \in DOMAIN list.lines :
            LET packages == list.lines[m].packages IN
            /\ Shelf(m, packages) + Hair(m) >= Need(selection, m)
            /\ packages > 0 => Shelf(m, packages - 1) < Need(selection, m)
       /\ list.unestimatedLineCount = Cardinality(unpriced)

\* The shelf can make what the product's screen promises, and at most one
\* piece more (calculateProductionCapacity).
CapacityCanBeMade ==
  \A pieces \in Capacities :
    /\ \A m \in InBill : pieces * product.bill[m] <= material[m].stock
    /\ InBill # {} => \E m \in InBill : (pieces + 2) * product.bill[m] > material[m].stock

HeldBySales(m) ==
  SumFunction([s \in Sales |-> IF snapshot[<<s, m>>] = NoRow THEN 0 ELSE snapshot[<<s, m>>]])

\* Whatever pieces and fractions of pieces are sold, debited and given back in
\* any order (debitStock, reverseStockDebit), the two columns a debit rounds
\* into cancel: shelf and snapshots together are what was put in stock, but
\* for the debits that ended halfway between two thousandths, each of which
\* may have made or lost one.  A sale waiting to be produced holds nothing.
ReversalIsExactButForTies ==
  \A m \in Materials :
    /\ material[m].stock + HeldBySales(m) \in (ledger[m] - ties[m])..(ledger[m] + ties[m])
    /\ \A s \in ExistingSales : sale[s].production = "PENDING" => snapshot[<<s, m>>] = NoRow

=============================================================================
