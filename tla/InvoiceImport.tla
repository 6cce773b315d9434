---------------------------- MODULE InvoiceImport ----------------------------
(***************************************************************************)
(* The import of an NFC-e (InvoiceImportFacade) over the queue of captured *)
(* QR Codes (PendingInvoice).                                              *)
(*                                                                         *)
(* A call queues the capture in a first transaction, reads the portal      *)
(* outside any transaction, retrying, and records what came of it in a     *)
(* last one.  It carries the capture it read all the way and saves the     *)
(* whole row at the end.  Calls run concurrently, any of them may fail,    *)
(* and the process may die and lose them all.                              *)
(*                                                                         *)
(* What a note holds and how a Purchase is built from it are left out: a   *)
(* note is its access key, and its Purchase is identified by it.           *)
(***************************************************************************)
EXTENDS Integers, FiniteSets

CONSTANTS
  Calls,          \* the requests that can be in flight
  Urls, Notes,
  NoteOf,         \* the note a URL leads to
  MaxAttempts,    \* NFCE_IMPORT_MAX_ATTEMPTS
  MaxCaptures,    \* bound: rows of the queue
  MaxRecorded     \* bound: attempts recorded on one capture

ASSUME ImportAssumption ==
  /\ IsFiniteSet(Calls)
  /\ NoteOf \in [Urls -> Notes]
  /\ MaxAttempts \in Nat \ {0}
  /\ MaxCaptures \in Nat
  /\ MaxRecorded \in Nat

VARIABLES
  captures,   \* the PendingInvoice table, in the order of createdAt
  purchases,  \* the access keys of the Purchase table
  calls,      \* what each request is doing and the capture it read
  recorded,   \* history: the attempts whose result was saved, per capture
  raced       \* history: the URLs two calls worked on at once

vars == <<captures, purchases, calls, recorded, raced>>

Ids == 1..MaxCaptures
Statuses == {"PENDING", "UNSTABLE", "IMPORTED"}

\* One value stands for an absent row and for an absent purchaseId.
NoCapture == [url |-> "none", status |-> "none", attempts |-> 0, purchase |-> "none"]
NoPurchase == "none"

-----------------------------------------------------------------------------
(* PendingInvoice.                                                         *)

Capture(url) ==
  [url |-> url, status |-> "PENDING", attempts |-> 0, purchase |-> NoPurchase]

MarkUnstable(row) ==
  [row EXCEPT !.status = "UNSTABLE", !.attempts = @ + 1]

MarkUnreadable(row) ==
  [row EXCEPT !.status = "PENDING", !.attempts = @ + 1]

MarkImported(row, note) ==
  [row EXCEPT !.status = "IMPORTED", !.attempts = @ + 1, !.purchase = note]

-----------------------------------------------------------------------------

Queued == {i \in Ids : captures[i] # NoCapture}
CapturesOf(url) == {i \in Queued : captures[i].url = url}
Newest(ids) == CHOOSE i \in ids : \A j \in ids : j <= i

Idle == [at |-> "idle", id |-> 0, row |-> NoCapture, attempt |-> 0, answer |-> "none"]
InFlight(c) == calls[c].at # "idle"

\* Bounds.  Every call in flight may add one row and record one attempt.
RoomToQueue ==
  Cardinality(Queued) + Cardinality({c \in Calls : calls[c].at \in {"find", "queue"}})
    < MaxCaptures
RoomToRecord(id) == recorded[id] + Cardinality({c \in Calls : calls[c].id = id}) < MaxRecorded

MoveTo(c, place) == calls' = [calls EXCEPT ![c].at = place]
Work(c, id, row) ==
  calls' = [calls EXCEPT ![c] = [at |-> "fetch", id |-> id, row |-> row, attempt |-> 1,
                                 answer |-> "none"]]
Answer(c, answer) ==
  calls' = [calls EXCEPT ![c].at = "idle", ![c].id = 0, ![c].attempt = 0, ![c].answer = answer]

Races(url) ==
  raced' = IF \E c \in Calls : InFlight(c) /\ calls[c].row.url = url THEN raced \cup {url}
           ELSE raced

\* PrismaPendingInvoiceRepository.save: the whole row, as the call read it.
Save(c, row) ==
  /\ captures' = [captures EXCEPT ![calls[c].id] = row]
  /\ recorded' = [recorded EXCEPT ![calls[c].id] = @ + 1]

Init ==
  /\ captures = [i \in Ids |-> NoCapture]
  /\ purchases = {}
  /\ calls = [c \in Calls |-> Idle]
  /\ recorded = [i \in Ids |-> 0]
  /\ raced = {}

-----------------------------------------------------------------------------
(* importFromUrl and reprocess, up to the portal.                          *)

ImportFromUrl(c, url) ==
  /\ ~ InFlight(c) /\ RoomToQueue
  /\ \A id \in CapturesOf(url) : RoomToRecord(id)
  /\ calls' = [calls EXCEPT ![c] = [Idle EXCEPT !.at = "find", !.row = Capture(url)]]
  /\ Races(url)
  /\ UNCHANGED <<captures, purchases, recorded>>

\* Mutant of FindByUrl: only an imported capture is looked for.
FindByUrlImported(c) ==
  LET found == CapturesOf(calls[c].row.url)
  IN /\ calls[c].at = "find"
     /\ IF found # {} /\ captures[Newest(found)].status = "IMPORTED"
          THEN Work(c, Newest(found), captures[Newest(found)])
          ELSE MoveTo(c, "queue")
     /\ UNCHANGED <<captures, purchases, recorded, raced>>

FindByUrl(c) ==
  LET found == CapturesOf(calls[c].row.url)
  IN /\ calls[c].at = "find"
     /\ IF found # {} /\ captures[Newest(found)].status # "IMPORTED"
          THEN Work(c, Newest(found), captures[Newest(found)])
          ELSE MoveTo(c, "queue")
     /\ UNCHANGED <<captures, purchases, recorded, raced>>

QueueCapture(c) ==
  LET id == Cardinality(Queued) + 1
  IN /\ calls[c].at = "queue"
     /\ captures' = [captures EXCEPT ![id] = calls[c].row]
     /\ Work(c, id, calls[c].row)
     /\ UNCHANGED <<purchases, recorded, raced>>

\* Mutant of Reprocess: whatever the capture became.
ReprocessAny(c, id) ==
  /\ ~ InFlight(c) /\ id \in Queued /\ RoomToRecord(id)
  /\ Work(c, id, captures[id])
  /\ Races(captures[id].url)
  /\ UNCHANGED <<captures, purchases, recorded>>

Reprocess(c, id) ==
  /\ ~ InFlight(c) /\ id \in Queued /\ RoomToRecord(id)
  /\ IF captures[id].status = "IMPORTED"
       THEN calls' = [calls EXCEPT ![c].row = captures[id], ![c].answer = "duplicate"]
       ELSE Work(c, id, captures[id])
  /\ Races(captures[id].url)
  /\ UNCHANGED <<captures, purchases, recorded>>

-----------------------------------------------------------------------------
(* extract: the portal, and what is recorded when it fails.                *)

FetchInvoice(c) ==
  /\ calls[c].at = "fetch"
  /\ MoveTo(c, "lookup")
  /\ UNCHANGED <<captures, purchases, recorded, raced>>

\* Mutant of SourceUnavailable: the attempts start over instead of ending.
SourceUnavailableForever(c) ==
  /\ calls[c].at = "fetch"
  /\ calls' = [calls EXCEPT ![c].attempt = IF @ < MaxAttempts THEN @ + 1 ELSE 1]
  /\ UNCHANGED <<captures, purchases, recorded, raced>>

SourceUnavailable(c) ==
  /\ calls[c].at = "fetch"
  /\ IF calls[c].attempt < MaxAttempts
       THEN calls' = [calls EXCEPT ![c].attempt = @ + 1]
       ELSE MoveTo(c, "unstable")
  /\ UNCHANGED <<captures, purchases, recorded, raced>>

StructureChanged(c) ==
  /\ calls[c].at = "fetch"
  /\ MoveTo(c, "unreadable")
  /\ UNCHANGED <<captures, purchases, recorded, raced>>

RecordUnstable(c) ==
  /\ calls[c].at = "unstable"
  /\ Save(c, MarkUnstable(calls[c].row))
  /\ Answer(c, "unavailable")
  /\ UNCHANGED <<purchases, raced>>

\* Mutant of RecordUnreadable: the attempt is logged and not saved.
RecordUnreadableUncounted(c) ==
  /\ calls[c].at = "unreadable"
  /\ Save(c, [MarkUnreadable(calls[c].row) EXCEPT !.attempts = calls[c].row.attempts])
  /\ Answer(c, "unreadable")
  /\ UNCHANGED <<purchases, raced>>

RecordUnreadable(c) ==
  /\ calls[c].at = "unreadable"
  /\ Save(c, MarkUnreadable(calls[c].row))
  /\ Answer(c, "unreadable")
  /\ UNCHANGED <<purchases, raced>>

-----------------------------------------------------------------------------
(* persist: one transaction, from the look-up of the access key.           *)

Note(c) == NoteOf[calls[c].row.url]

FindByAccessKey(c) ==
  /\ calls[c].at = "lookup"
  /\ MoveTo(c, IF Note(c) \in purchases THEN "duplicate" ELSE "import")
  /\ UNCHANGED <<captures, purchases, recorded, raced>>

CloseDuplicate(c) ==
  /\ calls[c].at = "duplicate"
  /\ Save(c, MarkImported(calls[c].row, Note(c)))
  /\ Answer(c, "duplicate")
  /\ UNCHANGED <<purchases, raced>>

\* Mutant of ImportNote: the capture is closed and the purchase left for later.
CloseBeforeImport(c) ==
  /\ calls[c].at = "import"
  /\ Save(c, MarkImported(calls[c].row, Note(c)))
  /\ Answer(c, "imported")
  /\ UNCHANGED <<purchases, raced>>

\* The purchase and the closed capture commit together.
ImportNote(c) ==
  /\ calls[c].at = "import" /\ Note(c) \notin purchases
  /\ purchases' = purchases \cup {Note(c)}
  /\ Save(c, MarkImported(calls[c].row, Note(c)))
  /\ Answer(c, "imported")
  /\ UNCHANGED raced

\* Purchase.accessKey is unique: another call inserted the note after the
\* look-up, the insert is refused and the transaction rolled back.
RefusedByAccessKey(c) ==
  /\ calls[c].at = "import" /\ Note(c) \in purchases
  /\ Answer(c, "error")
  /\ UNCHANGED <<captures, purchases, recorded, raced>>

-----------------------------------------------------------------------------

\* A URL no provider takes, a database error, a note no Purchase can be
\* built from: the call ends, its open transaction rolled back.
Fail(c) ==
  /\ InFlight(c)
  /\ Answer(c, "error")
  /\ UNCHANGED <<captures, purchases, recorded, raced>>

\* The process dies.
Crash ==
  /\ \E c \in Calls : InFlight(c)
  /\ calls' = [c \in Calls |-> Idle]
  /\ UNCHANGED <<captures, purchases, recorded, raced>>

Step(c) ==
  \/ FindByUrl(c) \/ QueueCapture(c)
  \/ FetchInvoice(c) \/ SourceUnavailable(c) \/ StructureChanged(c)
  \/ RecordUnstable(c) \/ RecordUnreadable(c)
  \/ FindByAccessKey(c) \/ CloseDuplicate(c) \/ ImportNote(c) \/ RefusedByAccessKey(c)

Next ==
  \/ \E c \in Calls :
       \/ \E url \in Urls : ImportFromUrl(c, url)
       \/ \E id \in Ids : Reprocess(c, id)
       \/ Step(c)
       \/ Fail(c)
  \/ Crash

Spec == Init /\ [][Next]_vars

\* Every await of a call resolves: the HTTP client gives up after a timeout,
\* and the database answers.
FairSpec == Spec /\ \A c \in Calls : WF_vars(Step(c))

-----------------------------------------------------------------------------
(* Correctness.                                                            *)

Rows == [url : Urls, status : Statuses, attempts : Nat, purchase : Notes \cup {NoPurchase}]

TypeOK ==
  /\ captures \in [Ids -> Rows \cup {NoCapture}]
  /\ purchases \subseteq Notes
  /\ calls \in [Calls -> [at : {"idle", "find", "queue", "fetch", "unstable", "unreadable",
                                "lookup", "duplicate", "import"},
                          id : 0..MaxCaptures,
                          row : Rows \cup {NoCapture},
                          attempt : 0..MaxAttempts,
                          answer : {"none", "unavailable", "unreadable", "duplicate",
                                    "imported", "error"}]]
  /\ recorded \in [Ids -> Nat]
  /\ raced \subseteq Urls

\* A capture says IMPORTED exactly when it names a purchase, that purchase is
\* in the table and is the one of its own note (PendingInvoice.purchaseId).
ClosedAgainstItsPurchase ==
  \A id \in Queued :
    IF captures[id].status = "IMPORTED"
      THEN captures[id].purchase = NoteOf[captures[id].url] /\ captures[id].purchase \in purchases
      ELSE captures[id].purchase = NoPurchase

\* Whoever was told the note is imported finds its purchase.
AnsweredIsDurable ==
  \A c \in Calls :
    calls[c].answer \in {"imported", "duplicate"} => NoteOf[calls[c].row.url] \in purchases

\* Scanning the same QR Code again resumes the capture already queued
\* (PendingInvoiceRepository.findByUrl): at most one is open, whatever failed
\* or crashed before, if no two calls worked on it at once.
OneOpenCapturePerUrl ==
  \A url \in Urls \ raced :
    Cardinality({i \in CapturesOf(url) : captures[i].status # "IMPORTED"}) <= 1

\* Every attempt whose result was saved is in attemptCount, if no two calls
\* worked on the capture at once.
AttemptsAreCounted ==
  \A id \in Queued : captures[id].url \notin raced => captures[id].attempts = recorded[id]

\* A capture closed against its purchase "really has been imported"
\* (InvoiceImportFacade.process): nothing opens it again but a call that read
\* it before, working on it at once with the one that imported it.
ImportedStaysImported ==
  [][\A id \in Queued :
       captures[id].url \notin raced' /\ captures[id].status = "IMPORTED" =>
         captures'[id].status = "IMPORTED" /\ captures'[id].purchase = captures[id].purchase]_vars

\* A call gets its answer, unless the process dies.
EveryCallEnds == \A c \in Calls : InFlight(c) ~> ~InFlight(c)

=============================================================================
