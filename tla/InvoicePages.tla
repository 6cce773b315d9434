---------------------------- MODULE InvoicePages ----------------------------
(***************************************************************************)
(* What becomes of a page of the state's portal: the note read off it      *)
(* (ScrapingRsProvider), the lines folded by product code, the Purchase    *)
(* built of them, and the canary that reads pinned notes again every day   *)
(* to notice that the page is no longer read (NfceCanaryService).          *)
(*                                                                         *)
(* The portal is outside: it may be down, drop a note that grew old, and   *)
(* change its page so that the scraper misses rows, finds labels gone,     *)
(* finds text it cannot read, or finds another text of the right form:     *)
(* another heading, product code, quantity, line total, header total or    *)
(* count of items.  How text is read is left out: a field is read as it    *)
(* was printed, as what Elsewhere says stands there now, or not at all.    *)
(***************************************************************************)
EXTENDS DiscountAllocation, Sequences

CONSTANTS
  Notes,       \* the notes of the portal, by their access keys
  Contents,    \* what each was issued with
  Elsewhere,   \* what a selector that went astray finds instead, of each
  Configured,  \* NFCE_CANARY_URLS, in order, as the notes they lead to
  Pinned,      \* the notes pinned in code
  Faults,      \* what the portal may do to its page
  MaxFaults,   \* bound: faults of one page
  MaxMissed,   \* bound: rows missed
  MaxEvents    \* bound: changes of the portal and crashes

\* "no field": a field every note must carry is gone, or cannot be read.
AllFaults ==
  {"not a note", "no field",
   "gross illegible", "gross absent", "discount illegible", "discount absent",
   "other heading", "other code", "other quantity", "other total",
   "other gross", "other discount", "other net", "other count"}

Line == [code : Lines, quantity : Nat \ {0}, gross : Nat]

ASSUME PagesAssumption ==
  /\ \A n \in Notes :
       /\ DOMAIN Contents[n] = {"merchant", "lines", "discount"}
       /\ Contents[n].merchant \in STRING
       /\ Contents[n].lines \in Seq(Line) \ {<<>>}
       /\ Contents[n].discount \in Nat
       /\ Elsewhere[n].merchant \in STRING
       /\ Elsewhere[n].lines \in Seq(Line)
       /\ Len(Elsewhere[n].lines) = Len(Contents[n].lines)
       /\ {Elsewhere[n].gross, Elsewhere[n].discount, Elsewhere[n].net, Elsewhere[n].count}
             \subseteq Nat
  /\ Configured \in Seq(Notes)
  /\ Pinned \subseteq Notes
  /\ Faults \subseteq AllFaults
  /\ MaxFaults \in Nat /\ MaxMissed \in Nat /\ MaxEvents \in Nat

VARIABLES
  portal,     \* "up", or "down": no response, or a 5xx
  expired,    \* the notes the portal no longer shows
  markup,     \* the faults of its page
  missed,     \* the rows the scraper's selector no longer finds
  purchases,  \* the Purchase recorded of each note
  readUnder,  \* history: the faults of the page when each was recorded
  canary,     \* the run under way: the checks made so far
  last,       \* history: the last run that ended, and what went on in it
  seen,       \* history: what went on since the run under way began
  events

portalVars == <<portal, expired, markup, missed>>
pagesVars == <<portalVars, purchases, readUnder, canary, last, seen, events>>

-----------------------------------------------------------------------------
(* The note, and what of it is on the page.                                *)

Rows(n) == DOMAIN Contents[n].lines
LinesTotal(lines) == SumOver(DOMAIN lines, [i \in DOMAIN lines |-> lines[i].gross])
GrossTotal(n) == LinesTotal(Contents[n].lines)
NetTotal(n) == GrossTotal(n) - Contents[n].discount

\* "Valor total" and "Descontos" are printed of a note with a discount.
Printed(n, label) == label \in {"gross", "discount"} => Contents[n].discount # 0

Absent(n, label) ==
  ~ Printed(n, label) \/ (label = "gross" /\ "gross absent" \in markup)
                      \/ (label = "discount" /\ "discount absent" \in markup)

Illegible == {"no field", "gross illegible", "discount illegible"}

\* Every field that is there can be read, and every one required is there.
Legible(n) ==
  \A f \in markup \cap Illegible :
    \/ f = "gross illegible" /\ Absent(n, "gross")
    \/ f = "discount illegible" /\ Absent(n, "discount")

\* What the selector of a field finds: what was printed, or what is there now.
Found(fault, printed, there) == IF fault \in markup THEN there ELSE printed

Unread == [heading |-> "none", lines |-> <<>>, grossTotal |-> 0, discountTotal |-> 0]
Unavailable == [outcome |-> "unavailable", invoice |-> Unread]
StructureChanged == [outcome |-> "changed", invoice |-> Unread]
Read(invoice) == [outcome |-> "read", invoice |-> invoice]

-----------------------------------------------------------------------------
(* ScrapingRsProvider.                                                     *)

RowsFound(n) == Rows(n) \ missed

LineRead(n, i) ==
  LET printed == Contents[n].lines[i]
      there == Elsewhere[n].lines[i]
  IN [code |-> Found("other code", printed.code, there.code),
      quantity |-> Found("other quantity", printed.quantity, there.quantity),
      gross |-> Found("other total", printed.gross, there.gross)]

\* The lines, at the rows they were read from.
ExtractItems(n) == [i \in RowsFound(n) |-> LineRead(n, i)]

CountRead(n) == Found("other count", Len(Contents[n].lines), Elsewhere[n].count)
NetRead(n) == Found("other net", NetTotal(n), Elsewhere[n].net)

DiscountRead(n) ==
  IF Absent(n, "discount") THEN 0
  ELSE Found("other discount", Contents[n].discount, Elsewhere[n].discount)

GrossRead(n) ==
  IF Absent(n, "gross") THEN NetRead(n) + DiscountRead(n)
  ELSE Found("other gross", GrossTotal(n), Elsewhere[n].gross)

\* The header closes, and the lines add up to it.
TotalsClose(n) ==
  /\ NetRead(n) = GrossRead(n) - DiscountRead(n)
  /\ LinesTotal(ExtractItems(n)) = GrossRead(n)

Parse(n) ==
  IF Legible(n) /\ Cardinality(RowsFound(n)) = CountRead(n) /\ TotalsClose(n)
    THEN Read([heading |-> Found("other heading", Contents[n].merchant, Elsewhere[n].merchant),
               lines |-> ExtractItems(n),
               grossTotal |-> GrossRead(n), discountTotal |-> DiscountRead(n)])
    ELSE StructureChanged

\* A note that is gone is answered by a 404 or by a page that is not a note.
FetchInvoice(n) ==
  IF portal = "down" THEN Unavailable
  ELSE IF n \in expired \/ "not a note" \in markup \/ RowsFound(n) = {} THEN StructureChanged
  ELSE Parse(n)

-----------------------------------------------------------------------------
(* The import: aggregateInvoiceItems and buildPurchase.                    *)

\* Mutant of Fold: a repeated line replaces the one before.
FoldLast(byCode, line) ==
  [c \in DOMAIN byCode \cup {line.code} |->
     IF c = line.code THEN [quantity |-> line.quantity, gross |-> line.gross] ELSE byCode[c]]

Fold(byCode, line) ==
  [c \in DOMAIN byCode \cup {line.code} |->
     IF c # line.code THEN byCode[c]
     ELSE IF c \notin DOMAIN byCode THEN [quantity |-> line.quantity, gross |-> line.gross]
     ELSE [quantity |-> byCode[c].quantity + line.quantity,
           gross |-> byCode[c].gross + line.gross]]

\* The lines read, in the order of the page, folded by code.
AggregateInvoiceItems(n, lines) ==
  LET folded[i \in 0..Len(Contents[n].lines)] ==
        IF i = 0 THEN <<>>
        ELSE IF i \in DOMAIN lines THEN Fold(folded[i - 1], lines[i])
        ELSE folded[i - 1]
  IN folded[Len(Contents[n].lines)]

NoPurchase ==
  [lines |-> {}, quantity |-> NoAmounts, gross |-> NoAmounts, allocated |-> NoAmounts,
   grossTotal |-> 0, discountTotal |-> 0]

\* The purchases that may be built; none where the discount cannot be spread.
BuildPurchase(n, invoice) ==
  LET folded == AggregateInvoiceItems(n, invoice.lines)
      codes == DOMAIN folded
      gross == [c \in Lines |-> IF c \in codes THEN folded[c].gross ELSE 0]
  IN {[lines |-> codes,
       quantity |-> [c \in Lines |-> IF c \in codes THEN folded[c].quantity ELSE 0],
       gross |-> gross, allocated |-> a,
       grossTotal |-> invoice.grossTotal, discountTotal |-> invoice.discountTotal] :
        a \in Allocations(codes, gross, codes, invoice.discountTotal, "PROPORTIONAL", NoAmounts)}

\* What is not read is recorded on the capture alone; a known note is left.
Import(n) ==
  /\ purchases[n] = NoPurchase
  /\ FetchInvoice(n).outcome = "read"
  /\ \E built \in BuildPurchase(n, FetchInvoice(n).invoice) :
       purchases' = [purchases EXCEPT ![n] = built]
  /\ readUnder' = [readUnder EXCEPT ![n] = markup]
  /\ UNCHANGED <<portalVars, canary, last, seen, events>>

-----------------------------------------------------------------------------
(* The canary.                                                             *)

\* The notes configured that are pinned, in order; it reports the others.
Targets ==
  LET kept[i \in 0..Len(Configured)] ==
        IF i = 0 THEN <<>>
        ELSE IF Configured[i] \in Pinned THEN Append(kept[i - 1], Configured[i])
        ELSE kept[i - 1]
  IN kept[Len(Configured)]
Watched == {Targets[i] : i \in DOMAIN Targets}

\* compareToReferenceInvoice: the heading, the gross total, how many lines.
Matches(n, invoice) ==
  /\ invoice.heading = Contents[n].merchant
  /\ invoice.grossTotal = GrossTotal(n)
  /\ Cardinality(DOMAIN invoice.lines) = Len(Contents[n].lines)

\* Reads as pinned: the other fields of the note the canary does not know.
ReadsRight(n) ==
  FetchInvoice(n).outcome = "read" /\ Matches(n, FetchInvoice(n).invoice)

\* Why a note may not be read as pinned.
Causes ==
  (IF portal = "down" THEN {"portal"} ELSE {})
    \cup (IF markup # {} \/ missed # {} THEN {"markup"} ELSE {})
    \cup (IF expired \cap Watched # {} THEN {"age"} ELSE {})

Check(n) ==
  LET fetched == FetchInvoice(n)
  IN CASE fetched.outcome = "unavailable" -> "UNREACHABLE"
       [] fetched.outcome = "changed" -> "STRUCTURE_CHANGED"
       [] OTHER -> IF Matches(n, fetched.invoice) THEN "MATCHED" ELSE "DIVERGED"

NotRunning == [running |-> FALSE, checks |-> <<>>]
NothingSeen == [always |-> {}, ever |-> {}, causes |-> {}]

\* Every day at four, unless there is nothing to check.
StartRun ==
  /\ ~ canary.running /\ Targets # <<>>
  /\ canary' = [running |-> TRUE, checks |-> <<>>]
  /\ LET right == {n \in Watched : ReadsRight(n)}
     IN seen' = [always |-> right, ever |-> right, causes |-> Causes]
  /\ UNCHANGED <<portalVars, purchases, readUnder, last, events>>

CheckNext ==
  /\ canary.running /\ Len(canary.checks) < Len(Targets)
  /\ canary' = [canary EXCEPT !.checks = Append(@, Check(Targets[Len(@) + 1]))]
  /\ UNCHANGED <<portalVars, purchases, readUnder, last, seen, events>>

\* Mutant of Alerts: a single failure is enough.
AlertsOnAny(checks) == \E i \in DOMAIN checks : checks[i] # "MATCHED"

\* Mutant of Alerts: a run that failed whole is taken for a partial failure.
AlertsNever(checks) == FALSE

Alerts(checks) == \A i \in DOMAIN checks : checks[i] # "MATCHED"

Subject(checks) ==
  IF \E i \in DOMAIN checks : checks[i] # "UNREACHABLE" THEN "extraction" ELSE "unread"

\* A sender that fails changes nothing of the run.
Report ==
  /\ canary.running /\ Len(canary.checks) = Len(Targets)
  /\ canary' = NotRunning
  /\ last' = [ended |-> TRUE, alerted |-> Alerts(canary.checks),
              subject |-> Subject(canary.checks), seen |-> seen]
  /\ seen' = NothingSeen
  /\ UNCHANGED <<portalVars, purchases, readUnder, events>>

-----------------------------------------------------------------------------
(* The portal, and the process.                                            *)

\* What a change of the portal does to what the run under way has seen.
Notice ==
  LET right == {n \in Watched : ReadsRight(n)'}
  IN seen' = IF canary.running
               THEN [always |-> seen.always \cap right, ever |-> seen.ever \cup right,
                     causes |-> seen.causes \cup Causes']
               ELSE seen

Happens ==
  /\ events < MaxEvents
  /\ events' = events + 1
  /\ UNCHANGED <<purchases, readUnder, canary, last>>

PortalGoes ==
  /\ portal' = IF portal = "up" THEN "down" ELSE "up"
  /\ UNCHANGED <<expired, markup, missed>>
  /\ Happens /\ Notice

NoteExpires(n) ==
  /\ n \notin expired
  /\ expired' = expired \cup {n}
  /\ UNCHANGED <<portal, markup, missed>>
  /\ Happens /\ Notice

Positions == UNION {Rows(n) : n \in Notes}

PageChanges ==
  /\ markup' \in {fs \in SUBSET Faults : Cardinality(fs) <= MaxFaults}
  /\ missed' \in {ps \in SUBSET Positions : Cardinality(ps) <= MaxMissed}
  /\ <<markup', missed'>> # <<markup, missed>>
  /\ UNCHANGED <<portal, expired>>
  /\ Happens /\ Notice

\* The process dies: a run under way is not resumed.
Crash ==
  /\ canary.running /\ events < MaxEvents
  /\ events' = events + 1
  /\ canary' = NotRunning /\ seen' = NothingSeen
  /\ UNCHANGED <<portalVars, purchases, readUnder, last>>

PagesInit ==
  /\ portal = "up" /\ expired = {} /\ markup = {} /\ missed = {}
  /\ purchases = [n \in Notes |-> NoPurchase]
  /\ readUnder = [n \in Notes |-> {}]
  /\ canary = NotRunning /\ seen = NothingSeen
  /\ last = [ended |-> FALSE, alerted |-> FALSE, subject |-> "unread", seen |-> NothingSeen]
  /\ events = 0

PagesNext ==
  \/ \E n \in Notes : Import(n) \/ NoteExpires(n)
  \/ StartRun \/ CheckNext \/ Report
  \/ PortalGoes \/ PageChanges \/ Crash

PagesSpec == PagesInit /\ [][PagesNext]_pagesVars

\* The schedule fires every day, and each request has a timeout.
Daily == WF_pagesVars(StartRun) /\ WF_pagesVars(CheckNext) /\ WF_pagesVars(Report)

FairSpec == PagesSpec /\ Daily

-----------------------------------------------------------------------------
(* Correctness.                                                            *)

\* What the note was issued with, line by line.
Issued(n, c, amount(_)) ==
  SumOver({i \in Rows(n) : Contents[n].lines[i].code = c},
          [i \in Rows(n) |-> amount(Contents[n].lines[i])])

\* What the totals of a note are checked by: its lines, its discount, and what
\* was paid.  These were read as issued when n was recorded.
ReadAsIssued(n) ==
  (IF readUnder[n] \cap {"other total", "other count"} = {} THEN {"lines"} ELSE {})
    \cup (IF readUnder[n] \cap {"other discount", "discount absent"} = {} THEN {"discount"} ELSE {})
    \cup (IF "other net" \notin readUnder[n] THEN {"net"} ELSE {})

\* Whatever the portal does to its page, the lines of a purchase add up to its
\* total and its discount is given away to the cent, no line below zero; and of
\* the lines, the discount and the amount paid two must go wrong, and agree,
\* before a wrong total or discount is recorded.  Where the note's own count of
\* its items was read as issued, no line is lost or told twice: the purchase has
\* the products of the note, with all that was sold of each and all it cost,
\* but for the codes, quantities or totals a selector found elsewhere
\* (requireMoney, the item count and the totals of ScrapingRsProvider, which
\* checks a code and a quantity against nothing).
NoteIsReadWhole ==
  \A n \in Notes :
    LET p == purchases[n]
        under == readUnder[n]
    IN p # NoPurchase =>
         /\ SumOver(p.lines, p.gross) = p.grossTotal
         /\ SumOver(p.lines, p.allocated) = p.discountTotal
         /\ \A c \in p.lines : p.allocated[c] <= p.gross[c]
         /\ Cardinality(ReadAsIssued(n)) >= 2 =>
              p.grossTotal = GrossTotal(n) /\ p.discountTotal = Contents[n].discount
         /\ under \cap {"other count", "other code"} = {} =>
              /\ p.lines = {Contents[n].lines[i].code : i \in Rows(n)}
              /\ \A c \in p.lines :
                   /\ "other quantity" \notin under =>
                        p.quantity[c] = Issued(n, c, LAMBDA line : line.quantity)
                   /\ "other total" \notin under =>
                        p.gross[c] = Issued(n, c, LAMBDA line : line.gross)

\* A run checks the notes one after another, while the portal changes.  It
\* alerts only if no pinned note read as pinned all through it, and keeps silent
\* only if one did at some moment of it (NfceCanaryService.report); a code, a
\* quantity or a discount gone wrong is none of what it compares.  The
\* alert that says nothing could be read is about a portal that was down, and a
\* portal that was down, nothing else being wrong, is told so (subjectOf).
\* Notes that merely expired are told as an extraction that no longer matches.
AlertsAreTrue ==
  last.ended =>
    IF last.alerted
      THEN /\ last.seen.always = {}
           /\ last.subject = "unread" => "portal" \in last.seen.causes
           /\ last.seen.causes = {"portal"} => last.subject = "unread"
      ELSE last.seen.ever # {}

\* When no pinned note reads as pinned any more, the runs come to say so, every one.
LastingBreakIsAlerted ==
  <>[](Targets # <<>> /\ \A n \in Watched : ~ ReadsRight(n)) => <>[](last.alerted)

=============================================================================
