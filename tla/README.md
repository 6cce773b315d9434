# Verification of craft-stock-api

craft-stock-api is the back end of a small craft business. It keeps the materials on the shelf and what they cost,
the composite products (recipes) made of them, the sales that consume them, the purchases that restock them, and the
NFC-e invoices (Brazilian consumer receipts, reached through a QR Code) those purchases are imported from. One Node.js
process serves HTTP requests over one PostgreSQL database; handlers interleave at every `await`.

This directory holds TLA+ models of the parts where order, concurrency, failure or rounding matter, TLC configurations
that check them on small instances, and proofs, checked by TLAPS, of what holds for every instance.

Paths below are relative to `src/`; `M/` abbreviates `src/modules/`, `S/` abbreviates `src/shared/`.

## 1. The system

Every use case is a service method. It loads rows through Prisma repositories, builds entities whose constructors
validate them, decides, and saves **whole rows** back inside `PrismaUnitOfWork.runInTransaction`
(`S/infrastructure/persistence/prisma-unit-of-work.ts`). The transaction is opened with no isolation level, so it runs at
PostgreSQL's READ COMMITTED, and reads take no lock. Most handlers read *before* the transaction and save *inside* it.
That pattern is the source of most of the hazards listed in `PROJECT.json`.

| Component | State | Operations | Interacts with | What is hard, and what makes it correct |
|---|---|---|---|---|
| Sales (`M/sales`) | `Sale` (production and payment axes), `SaleItem`, `StockMovementSnapshot` | create, add/remove/resize item, details, payment status, production status (debits or reverses stock) | materials, recipes | A reversal gives back what the debit took, though recipe, lines and stock changed in between and each column rounds; PENDING holds nothing; two debits at once |
| Materials, balance (`M/materials`) | `Material.stockQuantity`, `StockLoss` | stock entry (relative or absolute), loss, whole-row saves | sales, invoices | Stock is conserved; no lost update |
| Materials, catalogue | the rest of the `Material` row, `MaterialPriceHistory`, image key | create, update, change unit, entry with cost, set/remove image, discontinue, reactivate, delete | storage, recipes, purchases, invoices | References, image, history and unit agree with the row, whatever fails |
| Composite products (`M/composite-products`) | product, bill of materials | create, update, delete, image, pricing, capacity | materials, sales | The bill is replaced whole while debits read it |
| Purchases (`M/purchases`) | `Purchase` with its lines, discount attribution | register, add/remove/change line, classify, choose a mode | materials, invoices | The discount closes over the eligible lines after any edit; rounding residue; MANUAL amounts |
| Invoice import (`M/invoices`) | `PendingInvoice` queue | importFromUrl, reprocess | portal (HTTP), purchases | Retries, crashes, duplicate scans, the unique access key |
| Providers, line aggregation (`M/invoices/infrastructure`, `/domain`) | none | fetchInvoice, parse, aggregateInvoiceItems, buildPurchase | the state's portal | A page only half read must not become a purchase; what a wrong selector finds must not go unnoticed |
| NFC-e canary (`M/invoices`) | the run under way | daily run | portal, mail | Pinned notes are read one after another, while the portal changes and they grow old |
| Invoice classification (`M/invoices`) | none of its own | classify a batch of lines | purchases, materials, stock | One transaction over three aggregates; may be called twice |
| Image storage (`S/infrastructure/storage`) | objects on disk or S3 | upload, delete | materials, products | Outside the transaction: partial failure |
| Sessions and passwords (`M/auth`) | `RefreshToken`, `PasswordResetToken`, the password of `User` | login, rotate, logout, change of password, request of a link, reset | users, mail | Statements of two calls interleave; one live token per login; nothing survives a change of password; locks taken in opposite orders |
| Users (`M/users`) | `User` | register | auth | The address is compared case aside, the unique column compares it as typed |
| Audit trail (`S/infrastructure/prisma/audit`) | `AuditLog` | read before, write, insert, around every write of an audited model; pruning | everything | The row before is read by its own statement; outside a transaction the three commit apart |
| Request log, error alerts (`S/application/observability`) | `RequestLog`, alert windows in memory | record after the response, alert, throttle; pruning | mail | A window opened before the alert is sent; a restart forgets it |
| Pricing and capacity, shopping list, panels (`M/composite-products/domain`, `M/sales/domain`, `*/analytics`) | none | functions of the rows | products, sales, losses, purchases | Rounding at boundaries: ceilings and floors of doubles, totals added up twice |
| Listings, rate limit, mail, configuration, health, backups | none, or external | queries, output | — | Not modelled: see section 5 |

`PROJECT.json` lists all 26 components with their sources, and 40 hazards each at its line.

## 2. Modules

```
StockMath                                                 SumOver, Smaller (pure)
  <- StockData                                            rows, need, debit (pure)
       <- StockControl <- LedgerProofs                    serial meaning
       <- StockRequests <- StockRequestsProofs            statement by statement; refines StockControl
  <- DiscountAllocation <- StockMathProofs                who gets what of a discount (pure); lemmas about sums and shares
       <- PurchaseDiscounts <- MoneyProofs                one operation at a time
       <- PurchaseRequests <- PurchaseRequestsProofs      statement by statement, with classification
       <- InvoicePages <- MoneyProofs                     from a page of the portal to a purchase; the canary
  <- Figures <- MoneyProofs                               totals, lists, panels and reversals

MaterialCatalog <- MaterialCatalogProofs
InvoiceImport <- InvoiceImportProofs
Sessions      <- SessionsProofs
ServerRecords <- LedgerProofs
```
Each `MC*` module instantiates one of them for TLC. A proof module may extend several modules that share nothing but
arithmetic: LedgerProofs has the two that keep books (stock, and what the process writes about itself), MoneyProofs the three
that compute amounts.

**StockControl** is the abstract specification: each action is a whole handler, from its reads to its commit, with
requests served one at a time. `stock`, `sale`, `lines`, `snapshots`, `bom` are the tables; `ledger` is a history
variable, what was ever put in less what was lost. `UpdateProductionStatus` is
`SalesService.updateProductionStatus` with `debitStock` and `reverseStockDebit`.

**StockRequests** is the same handlers statement by statement. A slot in `Requests` runs one call at a time; `pc` names
its next statement, `seen` what it read, `writes` its transaction's uncommitted rows. A read sees committed rows plus the
slot's own writes; a write locks the row and waits for a holder (`Ready`); `Commit` publishes; `Fail` and `BreakDeadlock`
roll back. `ConflictsAllowed = FALSE` restricts calls in flight to ones that touch no common row.

Its history variable `overtaken` keeps the sales and materials some transaction wrote on a reading that no longer held.
The code has no defence against that: two debits of one material at once lose one of the two decrements, and a debit
that overlaps its own repetition is taken twice. What is claimed is that *nothing else* does harm.

**Figures** is what the shop reads, with the operations that move what it is read from, one at a time: the cost, price
and capacity of a recipe (`composite-products/domain`), the total of a line and of a sale, the debit with its three
decimals, what to buy for a selection of sales (`sales/domain/purchase-estimate.ts`), and the panels of sales, losses
and spending. Amounts are whole cents and `Money`'s rounding is exact; quantities are counted in `1/Scale`, needs in
`1/Scale^2`, as the columns are. A debit is written into two columns, balance and snapshot, and each is rounded on its own
(`Stored`); `ties` is a history variable, how many debits ended halfway between two thousandths. A snapshot stored as zero is
refused by its entity when read, so `ReverseStockDebit` is then not enabled. Where the code divides doubles, both outcomes a quotient near a whole number may have
are allowed.

**InvoiceImport** is `InvoiceImportFacade`: a capture is queued in a first transaction, the portal is read with retries
outside any, and the outcome saved in a last one, by calls that carry the capture row they read all the way. The portal's
answers are nondeterministic; any call may fail and the process may die at any point. Its history variable `raced` keeps
the QR Codes two calls worked on at once.

**InvoicePages** is what InvoiceImport takes for granted: what `ScrapingRsProvider` makes of a page, the fold of its lines by
product code and the purchase built of them, and the canary. Each note is printed as it was issued; the portal then goes
down, lets notes expire, or changes its page so that the scraper misses rows, finds labels gone, cannot read a field, or
finds another text of the right form where the field was (`Found`, `Elsewhere`): another heading, another product code, quantity or total of a
line, another gross total, discount, amount paid or count of items.
The provider's checks (required fields, item count, the two checks of totals) decide whether that is a note or a refusal. Some fields are
checked against nothing: the heading, and of each line the code, the quantity, the description and the unit price. What they are
misread as becomes the purchase, and `NoteIsReadWhole` says so: it names for each part of a purchase the fields it rests on.
`readUnder` is a history variable, the faults of the page when each note was recorded. The canary's history variable `seen` keeps which pinned notes read right, at some
moment of the run or all through it.

**DiscountAllocation** is `discount-allocation.ts`: cents are naturals, `Share` rounds half away from zero as
`Money.times(..).dividedBy(..)` does, and the set `ResidueLines` holds every line the code's stable sort may pick among
equal ones. Where the residue fits on no line the code throws, so a legal edit may be refused (four lines of a cent,
a discount of two): the set of results is empty there.

**PurchaseDiscounts** is the aggregate root `Purchase`, one operation at a time. `Restructure` is what every edit of the
lines goes through.

**PurchaseRequests** is the same root under concurrent requests: the edits of `PurchaseEditingService`, the
classification of `InvoiceClassificationService` with the stock it enters, and the reads. Each loads the purchase by two
statements, header then lines, and a commit between the two gives a purchase that never existed (`torn`). The constructor
runs on every load and refuses most such purchases. What passes is edited and saved whole; such a purchase closes, but its
shares may be those of other lines. `repackaged` keeps whether a classification restated the package quantity: that
saves the whole Material as read before the transaction, over a stock entry committed meanwhile.

**MaterialCatalog** is the row of a material with the three things that must agree with it: price history, stored
image, lines of recipes and purchases. A handler is staged as the code is: `Start` (findById and its checks), `Count` or
`Upload` where it has one, the transaction, `Discard`. Its history variable `overtaken` keeps the materials some call
wrote on a reading that no longer held. The agreements are claimed for all others: *nothing but* a write on an outdated
reading can break them, not a failure between two steps, and not a call that overlaps without touching the row.

**Sessions** is accounts, refresh tokens and reset links. A call is a list of statements (`Program`), run one at a time
against committed rows and its own writes. `updateMany` finds its rows when it starts, locks them one by one, and writes
those that still satisfy its condition (`Find`, `LockNext`, `Close`). An insert of a token or a link keeps the user row it refers to (the foreign
key takes FOR KEY SHARE), and `users.save` is an upsert that sets the id, which excludes that: each waits for the other
(`WaitsForUser`). Each row carries what the properties speak of: the login a token descends
from, the password it was opened under, and what went on while its call ran (`during`). The races are real: two rotations
of one token at once both issue a session, and two requests for a link both leave a working link. So are the deadlocks: a refresh holds the token it revoked and waits to insert the
next, while a change of password has saved the user and wants that token; a request for a link and a reset do the same over
a link. PostgreSQL aborts one of the two (`Fail`). `OnlyInsertsWaitInACircle` says that there is no other circle. The properties say what still
holds, and exactly which overlap is needed to break the rest.

**ServerRecords** is what the process writes about itself: the audit row of every write, the request log, the throttled
alert, the daily pruning. A write is the three statements the Prisma extension makes of it. `changes` is the history of
the writes that took effect; `told` and `unsent` count the occurrences an alert spoke of.
The model shows facts worth knowing:
 * a save that writes back the value it had read, over another's commit, changes the row and leaves no audit row: the row
   it compares with is the one read before, so nothing differs;
 * the comment at `audit.extension.ts:118` wants a failed audit write to fail the operation, "a write with no trace is worse
   than a rejected write". The operation does fail, but outside a transaction its write has committed and stands untraced;
   the same happens if the process dies in between. The trail is claimed for transactions, and for requests that succeeded;
 * the number of suppressed alerts is told only by a later failure of the same kind after the window, and is lost with a
   failed sending or a restart.

## 3. Runs

| Run | Asks | Instance, and why it is enough |
|---|---|---|
| `stock_serial` | Is stock conserved over any sequence of handlers, does PENDING hold nothing, is a sale short only of an emptied material? | 2 materials, 1 product with 2 recipes (one of which leaves out a material), 2 sales of 2 lines, up to 3 units: a recipe may change between debit and reversal, a shelf may run out under either sale |
| `requests_apart` | Do the statement-level handlers, failing anywhere, implement StockControl when they touch no common row? | 2 slots, 2 sales, every operation: two transactions interleave at every statement |
| `requests_raced` | With conflicts allowed: is stock lost, or left on a PENDING sale, or taken twice for one sale, only by a write over a row somebody else changed? | 2 slots on 1 sale and 1 material, every call that saves a row read by an earlier statement |
| `requests_live` | Does every call return? | 2 slots whose debits and reversals hit the same two materials in either order, so lock waits and deadlock cycles occur. It starts with the sale made and nothing on its snapshots, and with `overtaken`, which no statement reads, full |
| `import_concurrent` | Does what the queue and the answers say hold of the purchases, with crashes and retries, and does every call end? | 2 calls, 2 QR Codes of one note, 2 attempts, 2 captures: duplicate by URL, duplicate by note, and resume all occur |
| `purchase_discounts` | Does the discount close over the eligible lines after any edits, each share fair but one, and are MANUAL amounts the user's? | 4 lines of 1 or 3 cents, discounts 0, 2, 3: with cents this small every share rounds, in both directions, and the residue has either sign |
| `purchase_requests` | With requests that overlap: does the stored purchase still close, are its shares stale only after a torn load, does stock hold what classifications entered? | 2 callers, 2 lines, every operation, a package that holds 1 or 2: two requests are enough to tear a load, to classify twice and to repackage under an entry |
| `material_catalog` | Do references resolve, and do image, history and recipe units agree with the row? | 1 material, 1 product, 2 units, 2 keys, costs 0..2, 2 slots, 5 calls: create, bill, and three more calls, two of them at once, is the shortest story that replaces an image or overtakes a count |
| `sale_figures` | Do the panels tell what their details add up to, is the shopping list enough to make every sale of any selection, can the capacity be made, what do debits and reversals leave on the shelf, do agreed prices hold? | 2 materials, 1 product, 2 sales of 2 lines, 1 loss, 2 purchases; costs, margins and packages whose quotients are ties or fractions of a cent; every period within two months and every selection of sales and shops; tenths of a piece, of recipes of 0.3 and 0.5, in columns of one decimal (`Scale` is 10), so a debit may be stored as zero, end halfway, or be rounded up; 4 calls: a sale, its debit, its reversal, and one more |
| `sessions` | Is a login one live token, does nothing outlive a change of password, does a link work once and only the newest, do calls wait in a circle only where an insert meets a change of password, is there one account per address? | 2 slots, 3 accounts over 2 addresses, one of them in two spellings, 3 tokens, 2 links, 4 calls, a clock that outlives tokens and links |
| `server_records` | Is every audit row a change that happened and every committed change of a request in the trail, is every server error in an alert or a count? | 2 requests writing one row and one that reads, 2 writes, a crash, a clock that outlives a window and the retention |
| `invoice_pages` | Can a page that is only half read, or read wrong, become a purchase, and of what? Are the canary's alerts true of the time they are about, and is a break that lasts alerted? | 2 notes, both pinned: one weighs a product twice under a discount, beside a gift; one has no discount. While the portal changes (2 changes or crashes, enough for a run to see three different portals), any two of 4 faults with any row missed; from the start (`ChangedBefore`), any three of all 14 with any row missed, so that a missed row, an absent label and wrong texts compensate each other, and two misread totals agree |

Type invariants that a theorem proves (`TypeCorrect`, `SessionsTyped`) are not checked again by a run.
Every property of a passing run has a mutant, written above the definition it replaces, that breaks it.

Six disagreements between the code and what it says of itself showed while modelling. They are told by the properties,
which name exactly when they occur:

* `stock-movement-snapshot.entity.ts:7`, "Exactly how much of the Material was debited from stock for this sale, allowing an exact
  reversal": balance and snapshot are rounded apart to three decimals. Of a recipe of 0.005 and a tenth of a piece
  (`create-sale-item.dto.ts:26` allows it), with 10 in stock, the balance 9.9995 is stored as 10.000 and the snapshot 0.0005 as 0.001; the
  reversal leaves 10.001. What holds, for any recipes and fractions, is `ReversalIsExactButForTies`: a thousandth per debit that
  ended halfway, no more.
* `stock-movement-snapshot.entity.ts:22`, "quantityDebited must be a finite number greater than zero": 0.4 of a piece of a recipe of
  0.001 debits 0.0004, which the column stores as zero. The row cannot be read back, so the sale cannot go back to PENDING:
  `ReverseStockDebit` is not enabled there.
* `sales.service.ts:244`, "debit only when no snapshot exists yet, which keeps a repeated call from debiting twice": two calls
  in flight both find none and both debit, and no unique key stops the second. `SnapshotsFitTheSaleUnlessRaced` is claimed for sales not saved
  over a change their handler had not read.
* `recordUnstable` saves the row read before its retries, so it puts back to UNSTABLE a capture another call imported meanwhile.
  `OneOpenCapturePerUrl` and `ImportedStaysImported` are claimed for codes no two calls worked on.
* A residue that fits on no line refuses a legal edit (DiscountAllocation's set of results is empty there).
* `nfce-canary.service.ts:222`, "nothing having been read at all is either the portal being down or every reference note having expired":
  a note that is not there is answered, by a 404 or another page, which ScrapingRsProvider reports as a changed structure. A run in
  which every note merely expired is told as an extraction that no longer matches; `AlertsAreTrue` claims nothing of it.

*Bounds.* Every name that begins with `Max` caps what would grow for ever; each is a guard, or the length of an
enumeration, and is named in its module. `CHECK_DEADLOCK FALSE` appears where such a bound really stops the system.
Symmetry is declared only in runs without liveness, over sets whose members no definition tells apart.
A specification of an `MC` module that starts "from" somewhere is the module's own with a stronger initial state, one
the full system reaches; that of `invoice_pages` adds to the initial states those of a portal that has changed its page once, in more ways
than the run then lets it.

*Fairness.* `requests_live` assumes strong fairness of each slot's statements: PostgreSQL grants a row lock in the order
asked, so a slot that can move again and again does; and weak fairness of the deadlock detector, which runs while a cycle
lasts. `import_concurrent` assumes weak fairness of each call's steps: the HTTP client has a timeout and the database
answers. `invoice_pages` assumes weak fairness of the schedule, which fires every day, and of the run's steps, each request having a timeout; crashes
are bounded, so they do not fall on every run. Nothing is assumed of clients, failures or crashes.

## 4. Proofs

The proof modules hold for every value of the constants, under the named assumptions their modules state (finite sets
of sales, lines, slots; quantities and bounds natural; products are not materials).

* **StockMathProofs**: a sum over a finite set is natural, splits at a term, depends on its terms alone, and changes by
  what one term changes. `SumOver` counts the units of its terms, so these follow from the library's theorems on
  cardinality, with no recursion.
  What a loop or a fold computes is proved here too, without induction over data: a property of sets that passes from
  every set less an element to the set holds of a finite set (`GrowingASet`), one that passes from a row to the next holds
  of all rows (`CountingUp`), both because the naturals are well founded. So `SumFunction` is a sum in any order
  (`SumOfFunction`), sums by label add up to the sum (`SumByLabel`, `CountByLabel`).
  The same module has the lemmas about a discount: an allocation closes over the eligible lines, overdraws none and leaves nothing outside,
  whatever the residue line (`AllocationCloses`); each share differs from the exact one by less than a cent, but the residue's.
* **LedgerProofs**, of StockControl: `TypeCorrect`, `StockIsConserved`, `PendingIsUndebited`, `ShortSalesEmptyTheShelf`. Conservation
  alone is not inductive: a debit overwrites the sale's snapshots, so it needs them empty beforehand, which
  `PendingHoldsNoStock` supplies. The invariant is `TypeOK /\ StockConserved /\ PendingHoldsNoStock`.
* **MoneyProofs**, of PurchaseDiscounts: `TypeCorrect`, `ConstructorNeverRefuses`, `AttributionNeverStale`, `OnlyManualWaits`,
  `SharesStayFair`, `ManualStaysTheUsers`. The invariant is `Sound`, the conjunction of the four state properties: the
  totals close because the shares are current, and leaving MANUAL ends the wait because only MANUAL waits. Fairness of shares
  follows from `Sound` by the arithmetic of one rounding.
* **MoneyProofs**, of InvoicePages: `CanaryTellsTheTruth` and `PurchasesHoldTheirNotes`. `AlertsAreTrue` speaks of runs that
  ended, so `PagesInv` adds what a run under way has seen (`RunSees`): the causes at work now are among those it saw, a
  note that reads right now is one that ever did, one that always did reads right now, and each verdict given so far was
  true of some moment of it (`Shown`). `PurchasesHoldTheirNotes` needs what a page that
  passes the checks can have been read as (`ReadCloses`, of all combinations of faults, missed rows and texts found instead): its header
  closes over its lines, so of lines, discount and amount paid any two read as issued give the third (`TwoGiveTheThird`), and a
  count read as issued leaves no row out. It also needs what the fold over the lines returns: `FoldSums` gives it in closed form (each
  product with the sums of the rows read as it), by counting up the rows. A purchase so built holds what the
  property says (`BuiltOfTheNote`), its discount closing by `AllocationCloses`; no step writes it again, so the property is
  inductive once `purchases` and `readUnder` are known to be functions (`Recorded`).
* **MoneyProofs**, of Figures: all five properties the passing runs check. `RowsSound` (types, and `LinesHaveOwners`: a line has its sale, and a line
  of the product has the product) is inductive and carries four of them:
  * `TheAgreedPriceStands`: only three operations write a line that stays; two of them find its slot empty, because a sale
    that is not there has no line, and the third keeps its price.
  * `ThePromiseCanBeKept`, `TheListCanBeTrusted`: arithmetic of one quotient (`UnitsOfOne`) and of two in a row
    (`PackagesAreEnough`), over all values of the scales.
  * `ThePanelsAddUp`: every panel is a labelling of the details it is made of, so `LabelsTell` and `LabelsSpend` give each;
    and a month is touched by a period exactly when an instant of it is (`MonthsTouched`).
  * `NothingIsLostInReversing` is of any pieces and fractions, with no assumption. A debit is rounded into two columns of one
    precision: their sum is the stock it was taken from, or one unit off where the debit ends halfway between two
    (`ColumnsCancel`), and then `ties` counts it. The invariant `NearlyExact` says that of the shelf and of all snapshots together
    (`Balanced`), and that a waiting sale holds none (`WaitingHoldsNothing`), without which a debit would overwrite what was taken before; each
    debit and reversal moves the two sides of it by amounts that close (`BooksMove`).
* **MaterialCatalogProofs**: `TypeCorrect`, `ReferencesAlwaysResolve`, `HistoryAlwaysTells`, `RecipesAlwaysKeepTheirUnit`.
  The invariant `Grounded` adds to the first two what a call in flight holds: rows it did read, of ids drawn before, at a
  step of its own operation. It is needed because a save is an upsert of the row read, so an absent row must never be
  what was read. `HistoryTellsTheCost` is inductive with it: a save that overtakes nobody rests on the row as it is
  (`UpsertOnCurrent`), and recording a cost extends a history that tells (`TellsRecorded`). The recipes need more
  (`Ordered`): the id a creation drew is nowhere yet, so no line waits for it, and a change of unit that went past its
  count either changes nothing or saw no line.
  `ImagesAlwaysResolve` needs a third invariant, `Imaged`, about keys: a key held by a row, or by a
  reading of it, belongs to one material (`Apart`) and was drawn (`AllDrawn`); one just uploaded is in storage and held
  by nobody else (`Fresh`); one about to be discarded has left its row (`Doomed`).
* **PurchaseRequestsProofs**: `StoredAlwaysCloses`, `OnlyTornGoesStale`, `EntriesAreNeverLost`. The invariant adds to
  them what each call in flight holds (`StateTyped`, `Fits`): a header that waits only under MANUAL; a purchase the
  constructor accepted, torn or not; and a material that is the committed one with what the call has entered so far,
  because one caller saves at a time (`Ordered`, `Entering`). Each operation then saves
  exactly what was built (`SavedIsBuilt`), and what was built closes by `AllocationCloses`. The highest cost of a batch
  exists because the naturals are well founded, with no induction.
* **InvoiceImportProofs**: `ClosedHasItsPurchase`, `AnswersAreDurable`, `OneOpenCapture`, `EveryAttemptIsCounted`,
  `ClosedIsForGood`. The invariant adds what a call carries over the queue (`Fits`): the row it will save is the row as it
  is, and open, unless the QR Code was raced; a call about to queue found every capture of its code closed. `Serial`, that
  a capture is queued once the earlier ones of its code are closed, gives at most one open; `Alone`, that one call at a
  time works on a code never raced, keeps what the others carry true; `Dense` says that rows are numbered without gaps.

* **SessionsProofs**: every property of Sessions. They share one invariant, `Steady`. Of each slot it says that what is
  left of its call is the rest of its handler's list (`Position`), that an idle or fresh call knows and holds nothing
  (`Blank`), what it has learned by the statement it is at (`Informed`), and which rows it may then hold (`AccountWrites`,
  `SessionWrites`, `LinkWrites`, `Spends`). Of the slots together it says that no two hold a row of one table
  (`Exclusive`), that an id is left for every row still to insert (`Room`, by counting: `IdLeft`), and that ids name rows
  that are there (`Grounded`). `LocalStep` gives what one statement changes and `Effects` what it may write, so the
  preservation of `Steady` (`SteadyStep`), and of what each property adds to it, splits over the statement and then over the table.
  * `SessionsLinksWorkOnce` adds `SpentLinks`: a link that set a password is used, so a call that sets one by it again
    had looked at it before.
  * `SessionsOneLiveToken` adds `OneLive`: of a login no outdated save moved, one token at most is not revoked, and none
    once a logout closed it; so a rotation commits the one that took its place.
  * `SessionsNewestLink` adds `Newest`: two requests under way for one account know of each other (`BothAsk`), and one that
    has looked at the account closes every link that works, or knows of those it missed (`AsksAfter`). `SessionsOneAccount`
    adds `Addresses`, the same of two registrations (`BothRegister`, `Beforehand`).
  * `SessionsPasswords` adds `Passwords`: a change closes what it has looked for (`ClosesToken`, `ClosesLink`); who issues
    meanwhile knows of the change (`Warned`) or goes by the password the account has (`Fresh`).
  * `SessionsOnlyInsertsCircle` adds `UserFirst`, that a change which has not saved its user row holds no token. In a circle without an insert that
    waits for a change, some call closes rows, and who closes tokens, having saved the user, waits for no other that closes (`TokensWaitForNone`); who closes links
    waits for one that holds a later link than it does (`LinksWaitUpwards`), and links cannot rise for ever (`NoEndlessRise`).
* **StockRequestsProofs**: `NothingLostWithoutARace`, `SnapshotsFit`, `RequestsTyped`, `ApartIsSerial`. The first two are of
  what any interleaving of transactions leaves in the tables. Neither property is inductive, for both speak of committed rows only, and a
  commit publishes what was computed many statements before. The invariant `Inv` adds, of each slot, that what is left
  of its call is the rest of its handler (`Position`); that what it read of a sale still stands, or the sale is in `late`,
  and so it will be counted as overtaken (`Knows`); which rows the call may hold, and that they follow from what it read
  (`SaleWrites`, `MaterialSlot`, `Bystander`); and how far a debit or a reversal has got: the rows written are the
  committed ones less what its own snapshots took, or plus what the sale's gave back (`DebitSlot`, `ReverseSlot`). Of the
  slots together it says that no two hold one row (`Exclusive`). The two properties need each other: a reversal
  balances because the snapshots it empties have one row per material. A statement changes its own slot only
  (`LocalStep`); a commit moves the ledger by what it writes (`CommitKeepsLedger`), and whoever read a row it writes
  becomes late (`CommitOthers`).
  * `ApartIsSerial` is the refinement, `ImplementsSerial`, step by step: with `ConflictsAllowed` false, every statement
    maps to a stutter of StockControl and every commit to one of its handlers, or to a stutter where it has none
    (`updateDetails`, and the edits of a material that keep its balance). `Inv` alone does not give it, for it lets
    a call be late. `Alone` adds that calls in flight touch no common row (`Apart`), hence that nothing is late,
    and that what a call carries is what a handler that ran at once would compute now: the line it edits
    (`LinesSlot`), the recipe it replaces (`BomSlot`), the bounds it was let in under (`BoundSlot`), and of a debit the
    exact quantity due of every material it has come to, and nothing due of those it passed over (`DueSlot`).
    A commit writes only rows its call touches (`CommitTouches`), so it changes nothing another call knows
    (`CommitSpares`). The hypothesis is needed: with conflicts, two entries of one
    material that both read its balance before either saves it lose one of the two, and TLC then refutes the property.

* **LedgerProofs**, of ServerRecords: `TheTrailIsTrue` and `EveryErrorIsAccountedFor`. `TrailIsTrue` speaks of changes that took effect and of requests that ended, so it is not
  inductive. `RecordsInv` adds what is still owed: a reading is as the row is, or marked overtaken (`ReadHolds`); a statement
  that ran left the change its audit row will tell (`WriteExplained`); a transaction keeps a row, or awaits one, for every
  change it has made (`Inside`); and a change outside a transaction without its row is either about to get it (`Awaited`) or
  of a request that failed and never succeeds (`Lost`, which no step undoes). Other requests see a step as nothing
  or as the mark of being overtaken (`Onlooker`), which is what a write, a commit and the pruning have to be shown to be.
  The count of errors rests on `Tally`: the alerts under way are finite, each of a request that failed with that error, so a
  new alert is a new one and adds exactly its occurrences (`InFlightCounts`), counted as a set and with no fold.

*Only model-checked*: liveness (`EveryCallEnds`, twice, and `LastingBreakIsAlerted`) and whatever needs ENABLED. Every
invariant and every action property a run checks is a theorem.

## 5. Not modelled

* **How text is read off a page** (`M/invoices/infrastructure`, `brazilian-number.ts`): selectors and patterns are text processing;
  InvoicePages has a field read as printed, as another text of the right form, or not at all. The provider takes a line's code, quantity, description
  and unit price on trust, and the canary compares heading, gross total and number of lines only: no property claims those are right on a
  page that changed. Description, unit price, taxes and payments are left out. The providers of other states only throw.
* **Pending invoice listing**, the audit searches, pagination: queries over rows the models have.
* **Rate limit**: counting is a library's. **E-mail**: output only; ServerRecords and Sessions keep that it may fail.
* **Configuration and health**: validation at start-up and a probe. **Backup and restore**: shell around `pg_dump`.
* Names, texts, file types, URLs, wording and redaction: no guard of the modelled handlers depends on them but their own
  validation.
* Binary floating point as such: figures are exact, and where a quotient of doubles is floored or ceiled both outcomes near
  a whole number are allowed.
* The spending panel reads sums and purchases by two statements; Figures computes a panel from the rows of one moment, so
  the disagreement of the two is a listed hazard without a property.
* `SalesService.debitStock` reads the lines of a sale and then the recipes they name (`sales.service.ts:364`, `:365`); StockRequests has the
  two as one reading of the need (`ReadNeed`). A recipe replaced between the two is a recipe replaced just before: nothing the handler
  does in between depends on it, and the snapshots keep what was taken, not of which recipe.
* MaterialCatalog keeps a price history in the order it was committed. The code lists it by `changedAt`, taken before the row is read
  (`materials.service.ts:97`), so two overlapping changes of a cost may be listed the other way round; both have then written
  on one reading, and the property is claimed for materials no call overtook.
* Images of composite products: the same code as a material's, which MaterialCatalog has.

## 6. Plan

What is left is the spending panel of **Figures** by its two statements, with what may be recorded between them.
