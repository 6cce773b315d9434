------------------------- MODULE InvoiceImportProofs -------------------------
(***************************************************************************)
(* Proofs about InvoiceImport, for any number of calls, URLs, notes and    *)
(* rows: however calls interleave, fail and are lost, a closed capture has *)
(* its purchase and stays closed, an answer stays true, and a URL no two   *)
(* calls worked on at once has one open capture, every attempt counted.    *)
(***************************************************************************)
EXTENDS InvoiceImport, FiniteSetTheorems, WellFoundedInduction, TLAPS

-----------------------------------------------------------------------------
(* What a call holds over the rows of the queue.                           *)

Waiting(work) == {c \in Calls : work[c].at \in {"find", "queue"}}

\* The call is at work on a row of the queue.
Placed == {"fetch", "unstable", "unreadable", "lookup", "duplicate", "import"}

\* A call and the tables it will answer from and save into.
Fits(t, rows, kept, races) ==
  /\ t.answer \in {"imported", "duplicate"} => NoteOf[t.row.url] \in kept
  /\ t.at # "idle" =>
       t.row \in Rows /\ t.row.status # "IMPORTED" /\ t.row.purchase = NoPurchase
  /\ t.at \in {"find", "queue"} => t.row = Capture(t.row.url)
  /\ t.at = "queue" /\ t.row.url \notin races =>
       \A i \in Ids : rows[i] # NoCapture /\ rows[i].url = t.row.url => rows[i].status = "IMPORTED"
  /\ t.at \in Placed =>
       /\ t.id \in Ids /\ rows[t.id] # NoCapture /\ rows[t.id].url = t.row.url
       /\ t.row.url \notin races => rows[t.id] = t.row
  /\ t.at = "duplicate" => NoteOf[t.row.url] \in kept

AllFit == \A c \in Calls : Fits(calls[c], captures, purchases, raced)

\* One call at a time on a URL that was not raced.
Alone ==
  \A c, d \in Calls :
    /\ calls[c].at # "idle" /\ calls[d].at # "idle"
    /\ calls[c].row.url = calls[d].row.url /\ calls[c].row.url \notin raced
    => c = d

\* A capture is queued once those before it, of its URL, are closed.
Serial ==
  \A i, j \in Queued :
    i < j /\ captures[i].url = captures[j].url /\ captures[i].url \notin raced
    => captures[i].status = "IMPORTED"

\* Rows fill the queue from the first on, and there is one for every call
\* that may still add its own.
Dense ==
  /\ Queued = 1..Cardinality(Queued)
  /\ Cardinality(Queued) + Cardinality(Waiting(calls)) <= MaxCaptures
  /\ \A i \in Ids \ Queued : recorded[i] = 0

IInv ==
  /\ TypeOK
  /\ ClosedAgainstItsPurchase
  /\ AttemptsAreCounted
  /\ AllFit
  /\ Alone
  /\ Serial
  /\ Dense

Requests ==
  [at : {"idle", "find", "queue", "fetch", "unstable", "unreadable",
         "lookup", "duplicate", "import"},
   id : 0..MaxCaptures,
   row : Rows \cup {NoCapture},
   attempt : 0..MaxAttempts,
   answer : {"none", "unavailable", "unreadable", "duplicate", "imported", "error"}]

-----------------------------------------------------------------------------
(* Rows and sets of rows.                                                  *)

LEMMA NoRowIsNoCapture == NoCapture \notin Rows
BY DEF NoCapture, Rows, Statuses

LEMMA CaptureIsRow ==
  ASSUME NEW url \in Urls
  PROVE  /\ Capture(url) \in Rows /\ Capture(url).url = url
         /\ Capture(url).status # "IMPORTED" /\ Capture(url).purchase = NoPurchase
         /\ Capture(url).attempts = 0
BY DEF Capture, Rows, Statuses, NoPurchase

LEMMA MarksAreRows ==
  ASSUME NEW row \in Rows
  PROVE  /\ MarkUnstable(row) \in Rows /\ MarkUnstable(row).url = row.url
         /\ MarkUnstable(row).attempts = row.attempts + 1
         /\ MarkUnstable(row).status # "IMPORTED" /\ MarkUnstable(row).purchase = row.purchase
         /\ MarkUnreadable(row) \in Rows /\ MarkUnreadable(row).url = row.url
         /\ MarkUnreadable(row).attempts = row.attempts + 1
         /\ MarkUnreadable(row).status # "IMPORTED" /\ MarkUnreadable(row).purchase = row.purchase
<1>1. row.attempts + 1 \in Nat /\ "UNSTABLE" \in Statuses /\ "PENDING" \in Statuses
  BY DEF Rows, Statuses
<1>2. MarkUnstable(row) \in Rows
  BY <1>1 DEF MarkUnstable, Rows
<1>3. /\ MarkUnstable(row).url = row.url /\ MarkUnstable(row).attempts = row.attempts + 1
      /\ MarkUnstable(row).status = "UNSTABLE" /\ MarkUnstable(row).purchase = row.purchase
  BY DEF MarkUnstable, Rows
<1>4. MarkUnreadable(row) \in Rows
  BY <1>1 DEF MarkUnreadable, Rows
<1>5. /\ MarkUnreadable(row).url = row.url /\ MarkUnreadable(row).attempts = row.attempts + 1
      /\ MarkUnreadable(row).status = "PENDING" /\ MarkUnreadable(row).purchase = row.purchase
  BY DEF MarkUnreadable, Rows
<1> QED
  BY <1>2, <1>3, <1>4, <1>5

LEMMA MarkImportedIsRow ==
  ASSUME NEW row \in Rows, NEW note \in Notes
  PROVE  /\ MarkImported(row, note) \in Rows /\ MarkImported(row, note).url = row.url
         /\ MarkImported(row, note).attempts = row.attempts + 1
         /\ MarkImported(row, note).purchase = note
         /\ MarkImported(row, note).status = "IMPORTED"
<1>1. row.attempts + 1 \in Nat /\ "IMPORTED" \in Statuses
  BY DEF Rows, Statuses
<1>2. MarkImported(row, note) \in Rows
  BY <1>1 DEF MarkImported, Rows
<1>3. /\ MarkImported(row, note).url = row.url
      /\ MarkImported(row, note).attempts = row.attempts + 1
      /\ MarkImported(row, note).purchase = note
      /\ MarkImported(row, note).status = "IMPORTED"
  BY DEF MarkImported, Rows
<1> QED
  BY <1>2, <1>3

\* A bounded set of naturals has its highest, the least of its bounds.
LEMMA NewestIsIn ==
  ASSUME NEW S \in SUBSET Ids, S # {}
  PROVE  Newest(S) \in S /\ \A j \in S : j <= Newest(S)
<1> DEFINE bounds == {n \in Nat : \A y \in S : y <= n}
           less == OpToRel(<, Nat)
<1>1. S \subseteq Nat /\ \A y \in S : y <= MaxCaptures
  BY ImportAssumption DEF Ids
<1>2. bounds \subseteq Nat /\ bounds # {}
  BY <1>1, ImportAssumption DEF bounds
<1>3. IsWellFoundedOn(less, Nat)
  BY NatLessThanWellFounded
<1>4. \E n \in bounds : \A y \in bounds : ~ (<<y, n>> \in less)
  <2> HIDE DEF bounds, less
  <2> QED
    BY <1>2, <1>3, WFMin
<1>5. PICK n \in bounds : \A y \in bounds : ~ (<<y, n>> \in less)
  BY <1>4
<1>6. \A y \in bounds : ~ (y < n)
  BY <1>5 DEF OpToRel
<1>7. n \in S
  <2> SUFFICES ASSUME n \notin S PROVE FALSE
    OBVIOUS
  <2>1. \A y \in S : y \in Nat /\ y <= n - 1
    BY <1>1
  <2>2. PICK y \in S : y \in Nat /\ y <= n - 1
    BY <2>1
  <2>3. n - 1 \in Nat
    BY <2>2
  <2>4. n - 1 \in bounds
    BY <2>1, <2>3
  <2> QED
    BY <1>6, <2>4
<1>8. \E i \in S : \A j \in S : j <= i
  BY <1>7
<1> QED
  BY <1>8, Zenon DEF Newest

LEMMA QueueIsFinite ==
  /\ IsFiniteSet(Queued) /\ Cardinality(Queued) \in Nat
  /\ \A url : IsFiniteSet(CapturesOf(url)) /\ CapturesOf(url) \subseteq Ids
<1>1. IsFiniteSet(Ids)
  BY FS_Interval, ImportAssumption DEF Ids
<1>2. Queued \in SUBSET Ids
  BY DEF Queued
<1>3. \A url : CapturesOf(url) \in SUBSET Ids
  BY DEF Queued, CapturesOf
<1> QED
  BY <1>1, <1>2, <1>3, FS_Subset, FS_CardinalityType

\* What one call does to the number of those that wait.
LEMMA WaitingAfter ==
  ASSUME NEW work \in [Calls -> Requests], NEW c \in Calls, NEW t \in Requests
  PROVE  LET after == [work EXCEPT ![c] = t]
         IN /\ Cardinality(Waiting(work)) \in Nat /\ Cardinality(Waiting(after)) \in Nat
            /\ Cardinality(Waiting(after)) <= Cardinality(Waiting(work)) + 1
            /\ t.at \notin {"find", "queue"} =>
                 Cardinality(Waiting(after)) <= Cardinality(Waiting(work))
            /\ work[c].at \in {"find", "queue"} =>
                 /\ Cardinality(Waiting(after)) <= Cardinality(Waiting(work))
                 /\ Cardinality(Waiting(work)) > 0
            /\ work[c].at \in {"find", "queue"} /\ t.at \notin {"find", "queue"} =>
                 Cardinality(Waiting(after)) = Cardinality(Waiting(work)) - 1
<1> DEFINE after == [work EXCEPT ![c] = t]
           W == Waiting(work)
           A == Waiting(after)
<1>1. IsFiniteSet(Calls)
  BY ImportAssumption
<1>2. W \in SUBSET Calls /\ A \in SUBSET Calls
  BY DEF Waiting
<1>3. A = IF t.at \in {"find", "queue"} THEN W \cup {c} ELSE W \ {c}
  BY DEF Waiting
<1>4. c \in W <=> work[c].at \in {"find", "queue"}
  BY DEF Waiting
<1>5. IsFiniteSet(W) /\ Cardinality(W) \in Nat
  BY <1>1, <1>2, FS_Subset, FS_CardinalityType
<1>6. /\ Cardinality(W \cup {c}) = IF c \in W THEN Cardinality(W) ELSE Cardinality(W) + 1
      /\ Cardinality(W \ {c}) = IF c \in W THEN Cardinality(W) - 1 ELSE Cardinality(W)
  BY <1>5, FS_AddElement, FS_RemoveElement
<1>7. c \in W => Cardinality(W) > 0
  <2>1. c \in W => Cardinality(W) # 0
    BY <1>5, FS_EmptySet
  <2> HIDE DEF W
  <2> QED
    BY <1>5, <2>1
<1> HIDE DEF W, A
<1>8. CASE c \in W
  BY <1>3, <1>4, <1>5, <1>6, <1>7, <1>8 DEF W, A
<1>9. CASE c \notin W
  BY <1>3, <1>4, <1>5, <1>6, <1>9 DEF W, A
<1> QED
  BY <1>8, <1>9

-----------------------------------------------------------------------------
(* Steps that only move a call.                                            *)

LEMMA FitsLater ==
  ASSUME NEW t, NEW rows, NEW kept, NEW races, NEW kept2, NEW races2,
         Fits(t, rows, kept, races), kept \subseteq kept2, races \subseteq races2
  PROVE  Fits(t, rows, kept2, races2)
BY DEF Fits

\* A call changes what it does, or starts, and no row does.
LEMMA OneMoves ==
  ASSUME IInv, NEW c \in Calls, NEW t \in Requests,
         calls' = [calls EXCEPT ![c] = t],
         captures' = captures, purchases' = purchases, recorded' = recorded,
         raced \subseteq raced', raced' \subseteq Urls,
         Fits(t, captures, purchases, raced'),
         \A d \in Calls \ {c} :
           t.at # "idle" /\ calls[d].at # "idle" /\ calls[d].row.url = t.row.url
           => t.row.url \in raced',
         Cardinality(Queued) + Cardinality(Waiting([calls EXCEPT ![c] = t])) <= MaxCaptures
  PROVE  IInv'
<1>1. /\ captures \in [Ids -> Rows \cup {NoCapture}] /\ purchases \subseteq Notes
      /\ calls \in [Calls -> Requests] /\ recorded \in [Ids -> Nat]
  BY DEF IInv, TypeOK, Requests
<1>2. /\ calls' \in [Calls -> Requests] /\ calls'[c] = t
      /\ \A d \in Calls \ {c} : calls'[d] = calls[d]
  BY <1>1
<1>3. TypeOK'
  BY <1>1, <1>2 DEF TypeOK, Requests
<1>4. ClosedAgainstItsPurchase'
  BY DEF IInv, ClosedAgainstItsPurchase, Queued
<1>5. AttemptsAreCounted'
  BY DEF IInv, AttemptsAreCounted, Queued
<1>6. AllFit'
  <2> SUFFICES ASSUME NEW d \in Calls
               PROVE  Fits(calls'[d], captures, purchases, raced')
    BY DEF AllFit, Fits
  <2>1. CASE d = c
    BY <1>2, <2>1
  <2>2. CASE d # c
    <3>1. Fits(calls[d], captures, purchases, raced)
      BY DEF IInv, AllFit
    <3>2. Fits(calls[d], captures, purchases, raced')
      BY <3>1, FitsLater
    <3> QED
      BY <1>2, <2>2, <3>2
  <2> QED
    BY <2>1, <2>2
<1>7. Alone'
  <2> SUFFICES ASSUME NEW d \in Calls, NEW e \in Calls,
                      calls'[d].at # "idle", calls'[e].at # "idle",
                      calls'[d].row.url = calls'[e].row.url, calls'[d].row.url \notin raced'
               PROVE  d = e
    BY DEF Alone
  <2>1. CASE d = c
    BY <1>2, <2>1
  <2>2. CASE e = c
    BY <1>2, <2>2
  <2>3. CASE d # c /\ e # c
    <3>1. Alone
      BY DEF IInv
    <3>2. calls'[d] = calls[d] /\ calls'[e] = calls[e]
      BY <1>2, <2>3
    <3>3. calls[d].row.url \notin raced
      BY <3>2
    <3> QED
      BY <3>1, <3>2, <3>3 DEF Alone
  <2> QED
    BY <2>1, <2>2, <2>3
<1>8. Serial'
  BY DEF IInv, Serial, Queued
<1>9. Dense'
  <2>1. Dense /\ Queued' = Queued /\ Waiting(calls)' = Waiting([calls EXCEPT ![c] = t])
    BY DEF IInv, Queued, Waiting
  <2> QED
    BY <2>1 DEF Dense
<1> QED
  BY <1>3, <1>4, <1>5, <1>6, <1>7, <1>8, <1>9 DEF IInv

\* The same for a call at work that stays on the row it read, or on none.
LEMMA OneGoesOn ==
  ASSUME IInv, NEW c \in Calls, NEW t \in Requests,
         calls' = [calls EXCEPT ![c] = t], UNCHANGED <<captures, purchases, recorded, raced>>,
         Fits(t, captures, purchases, raced),
         calls[c].at # "idle", t.row.url = calls[c].row.url,
         t.at \in {"find", "queue"} => calls[c].at \in {"find", "queue"}
  PROVE  IInv'
<1>1. raced \subseteq Urls /\ calls \in [Calls -> Requests]
  BY DEF IInv, TypeOK, Requests
<1>2. \A d \in Calls \ {c} :
        t.at # "idle" /\ calls[d].at # "idle" /\ calls[d].row.url = t.row.url
        => t.row.url \in raced
  BY DEF IInv, Alone
<1>3. Cardinality(Queued) + Cardinality(Waiting([calls EXCEPT ![c] = t])) <= MaxCaptures
  <2>1. Cardinality(Queued) + Cardinality(Waiting(calls)) <= MaxCaptures
    BY DEF IInv, Dense
  <2>2. Cardinality(Queued) \in Nat
    BY QueueIsFinite
  <2>3. /\ Cardinality(Waiting(calls)) \in Nat
        /\ Cardinality(Waiting([calls EXCEPT ![c] = t])) \in Nat
        /\ Cardinality(Waiting([calls EXCEPT ![c] = t])) <= Cardinality(Waiting(calls))
    BY <1>1, WaitingAfter
  <2> QED
    BY <2>1, <2>2, <2>3, ImportAssumption
<1> QED
  BY <1>1, <1>2, <1>3, OneMoves

-----------------------------------------------------------------------------
(* Steps that save a row and answer.                                       *)

LEMMA OneSaves ==
  ASSUME IInv, NEW c \in Calls, NEW t \in Requests, NEW row \in Rows,
         calls[c].at \in Placed, Save(c, row),
         calls' = [calls EXCEPT ![c] = t], t.at = "idle",
         raced' = raced, purchases \subseteq purchases', purchases' \subseteq Notes,
         row.url = calls[c].row.url, row.attempts = calls[c].row.attempts + 1,
         IF row.status = "IMPORTED"
           THEN row.purchase = NoteOf[row.url] /\ row.purchase \in purchases'
           ELSE row.purchase = NoPurchase,
         t.answer \in {"imported", "duplicate"} => NoteOf[t.row.url] \in purchases'
  PROVE  IInv'
<1> DEFINE id == calls[c].id
           url == calls[c].row.url
<1>1. /\ captures \in [Ids -> Rows \cup {NoCapture}] /\ purchases \subseteq Notes
      /\ calls \in [Calls -> Requests] /\ recorded \in [Ids -> Nat] /\ raced \subseteq Urls
  BY DEF IInv, TypeOK, Requests
<1>2. /\ calls' \in [Calls -> Requests] /\ calls'[c] = t
      /\ \A d \in Calls \ {c} : calls'[d] = calls[d]
  BY <1>1
<1>3. /\ id \in Ids /\ captures[id] # NoCapture /\ captures[id].url = url
      /\ url \notin raced => captures[id] = calls[c].row
      /\ calls[c].row.status # "IMPORTED" /\ calls[c].at # "idle"
  <2>1. Fits(calls[c], captures, purchases, raced)
    BY DEF IInv, AllFit
  <2> QED
    BY <2>1 DEF Fits, Placed
<1>4. /\ captures' = [captures EXCEPT ![id] = row]
      /\ recorded' = [recorded EXCEPT ![id] = @ + 1]
  BY DEF Save
<1> HIDE DEF id, url
<1>5. /\ captures'[id] = row /\ row # NoCapture /\ row.url = url
      /\ \A i \in Ids \ {id} : captures'[i] = captures[i]
      /\ recorded'[id] = recorded[id] + 1
      /\ \A i \in Ids \ {id} : recorded'[i] = recorded[i]
  BY <1>1, <1>3, <1>4, NoRowIsNoCapture DEF url
<1>6. Queued' = Queued /\ id \in Queued
  BY <1>3, <1>5 DEF Queued
<1>7. TypeOK'
  <2>1. captures' \in [Ids -> Rows \cup {NoCapture}] /\ recorded' \in [Ids -> Nat]
    BY <1>1, <1>3, <1>4
  <2> QED
    BY <1>1, <1>2, <2>1 DEF TypeOK, Requests
<1>8. ClosedAgainstItsPurchase'
  <2> SUFFICES ASSUME NEW i \in Queued
               PROVE  IF captures'[i].status = "IMPORTED"
                        THEN /\ captures'[i].purchase = NoteOf[captures'[i].url]
                             /\ captures'[i].purchase \in purchases'
                        ELSE captures'[i].purchase = NoPurchase
    BY <1>6 DEF ClosedAgainstItsPurchase
  <2>1. CASE i = id
    BY <1>5, <2>1
  <2>2. CASE i # id
    <3>1. captures'[i] = captures[i]
      BY <1>5, <2>2 DEF Queued
    <3>2. ClosedAgainstItsPurchase
      BY DEF IInv
    <3> QED
      BY <3>1, <3>2 DEF ClosedAgainstItsPurchase
  <2> QED
    BY <2>1, <2>2
<1>9. AttemptsAreCounted'
  <2> SUFFICES ASSUME NEW i \in Queued, captures'[i].url \notin raced
               PROVE  captures'[i].attempts = recorded'[i]
    BY <1>6 DEF AttemptsAreCounted
  <2>1. AttemptsAreCounted
    BY DEF IInv
  <2>2. CASE i = id
    <3>1. captures[id] = calls[c].row /\ captures[id].url \notin raced
      BY <1>3, <1>5, <2>2
    <3>2. calls[c].row.attempts = recorded[id]
      BY <1>6, <2>1, <3>1 DEF AttemptsAreCounted
    <3> QED
      BY <1>5, <2>2, <3>2
  <2>3. CASE i # id
    <3>1. captures'[i] = captures[i] /\ recorded'[i] = recorded[i]
      BY <1>5, <2>3 DEF Queued
    <3> QED
      BY <2>1, <3>1 DEF AttemptsAreCounted
  <2> QED
    BY <2>2, <2>3
<1>10. Alone'
  <2>1. Alone
    BY DEF IInv
  <2>2. \A d \in Calls : calls'[d].at # "idle" => d # c /\ calls'[d] = calls[d]
    BY <1>2
  <2> QED
    BY <2>1, <2>2 DEF Alone
<1>11. \A d \in Calls \ {c} : calls[d].at # "idle" /\ calls[d].row.url = url => url \in raced
  BY <1>3 DEF IInv, Alone, url
<1>12. AllFit'
  <2> SUFFICES ASSUME NEW d \in Calls
               PROVE  Fits(calls'[d], captures', purchases', raced)
    BY DEF AllFit, Fits
  <2>1. CASE d = c
    BY <1>2, <2>1 DEF Fits, Placed
  <2>2. CASE d # c
    <3> DEFINE u == calls[d]
    <3>1. calls'[d] = u
      BY <1>2, <2>2
    <3>2. Fits(u, captures, purchases', raced)
      <4>1. Fits(u, captures, purchases, raced)
        BY DEF IInv, AllFit
      <4> QED
        BY <4>1, FitsLater
    <3>3. u.at # "idle" /\ u.row.url = url => url \in raced
      BY <1>11, <2>2
    <3> HIDE DEF u
    <3>4. u.at = "queue" /\ u.row.url \notin raced =>
            \A i \in Ids : captures'[i] # NoCapture /\ captures'[i].url = u.row.url
                           => captures'[i].status = "IMPORTED"
      <4> SUFFICES ASSUME u.at = "queue", u.row.url \notin raced, NEW i \in Ids,
                          captures'[i] # NoCapture, captures'[i].url = u.row.url
                   PROVE  captures'[i].status = "IMPORTED"
        OBVIOUS
      <4>1. i # id
        BY <1>5, <3>3
      <4> QED
        BY <1>5, <3>2, <4>1 DEF Fits
    <3>5. u.at \in Placed =>
            /\ u.id \in Ids /\ captures'[u.id] # NoCapture /\ captures'[u.id].url = u.row.url
            /\ u.row.url \notin raced => captures'[u.id] = u.row
      <4> SUFFICES ASSUME u.at \in Placed
                   PROVE  /\ u.id \in Ids /\ captures'[u.id] # NoCapture
                          /\ captures'[u.id].url = u.row.url
                          /\ u.row.url \notin raced => captures'[u.id] = u.row
        OBVIOUS
      <4>1. /\ u.id \in Ids /\ captures[u.id] # NoCapture /\ captures[u.id].url = u.row.url
            /\ u.row.url \notin raced => captures[u.id] = u.row
        BY <3>2 DEF Fits
      <4>2. CASE u.id # id
        BY <1>5, <4>1, <4>2
      <4>3. CASE u.id = id
        <5>1. u.at # "idle" /\ u.row.url = url
          BY <1>3, <4>1, <4>3 DEF Placed
        <5> QED
          BY <1>3, <1>5, <3>3, <4>3, <5>1
      <4> QED
        BY <4>2, <4>3
    <3>6. Fits(u, captures', purchases', raced)
      BY <3>2, <3>4, <3>5 DEF Fits
    <3> QED
      BY <3>1, <3>6
  <2> QED
    BY <2>1, <2>2
<1>13. Serial'
  <2> SUFFICES ASSUME NEW i \in Queued, NEW j \in Queued, i < j,
                      captures'[i].url = captures'[j].url, captures'[i].url \notin raced
               PROVE  captures'[i].status = "IMPORTED"
    BY <1>6 DEF Serial
  <2>1. captures'[i].url = captures[i].url /\ captures'[j].url = captures[j].url
    BY <1>3, <1>5 DEF Queued
  <2>2. captures[i].status = "IMPORTED"
    BY <2>1 DEF IInv, Serial
  <2>3. i # id
    BY <1>3, <1>5, <2>2
  <2> QED
    BY <1>5, <2>2, <2>3 DEF Queued
<1>14. Dense'
  <2>1. Dense
    BY DEF IInv
  <2>2. Cardinality(Queued) \in Nat
    BY QueueIsFinite
  <2>3. Cardinality(Queued) + Cardinality(Waiting([calls EXCEPT ![c] = t])) <= MaxCaptures
    <3>1. /\ Cardinality(Waiting(calls)) \in Nat
          /\ Cardinality(Waiting([calls EXCEPT ![c] = t])) \in Nat
          /\ Cardinality(Waiting([calls EXCEPT ![c] = t])) <= Cardinality(Waiting(calls))
      BY <1>1, WaitingAfter
    <3> QED
      BY <2>1, <2>2, <3>1, ImportAssumption DEF Dense
  <2>4. Waiting(calls)' = Waiting([calls EXCEPT ![c] = t])
    BY DEF Waiting
  <2>5. \A i \in Ids \ Queued : recorded'[i] = 0
    BY <1>5, <1>6, <2>1 DEF Dense
  <2> QED
    BY <1>6, <2>1, <2>3, <2>4, <2>5 DEF Dense
<1> QED
  BY <1>7, <1>8, <1>9, <1>10, <1>12, <1>13, <1>14 DEF IInv

-----------------------------------------------------------------------------
(* Each action keeps the invariant.                                        *)

LEMMA InvFirst == Init => IInv
<1> SUFFICES ASSUME Init PROVE IInv
  OBVIOUS
<1>1. /\ \A i \in Ids : captures[i] = NoCapture /\ recorded[i] = 0
      /\ \A c \in Calls : calls[c] = Idle
      /\ purchases = {} /\ raced = {}
  BY DEF Init
<1>2. Queued = {} /\ Waiting(calls) = {}
  BY <1>1 DEF Queued, Waiting, Idle
<1>3. TypeOK
  <2>1. Idle \in Requests
    BY ImportAssumption DEF Idle, Requests
  <2>2. calls \in [Calls -> Requests]
    BY <2>1 DEF Init
  <2> QED
    BY <2>2 DEF Init, TypeOK, Requests
<1>4. AllFit
  BY <1>1 DEF AllFit, Fits, Idle, Placed
<1>5. Alone
  BY <1>1 DEF Alone, Idle
<1>6. Dense
  <2>1. Cardinality({}) = 0
    BY FS_EmptySet
  <2>2. 1..0 = {}
    OBVIOUS
  <2> QED
    BY <1>1, <1>2, <2>1, <2>2, ImportAssumption DEF Dense
<1> QED
  BY <1>2, <1>3, <1>4, <1>5, <1>6
  DEF IInv, ClosedAgainstItsPurchase, AttemptsAreCounted, Serial

\* What the invariant says of one call and of the rows it may read.
LEMMA CallFits ==
  ASSUME IInv, NEW c \in Calls
  PROVE  /\ calls[c] \in Requests /\ Fits(calls[c], captures, purchases, raced)
         /\ \A i \in Queued : i \in Ids /\ captures[i] \in Rows
         /\ purchases \subseteq Notes /\ raced \subseteq Urls
<1>1. calls \in [Calls -> Requests] /\ captures \in [Ids -> Rows \cup {NoCapture}]
  BY DEF IInv, TypeOK, Requests
<1>2. AllFit
  BY DEF IInv
<1> QED
  BY <1>1, <1>2 DEF AllFit, Queued, IInv, TypeOK

LEMMA RoomFor ==
  ASSUME IInv, NEW c \in Calls, NEW t \in Requests,
         \/ t.at \notin {"find", "queue"}
         \/ calls[c].at \in {"find", "queue"}
         \/ RoomToQueue
  PROVE  Cardinality(Queued) + Cardinality(Waiting([calls EXCEPT ![c] = t])) <= MaxCaptures
<1> DEFINE q == Cardinality(Queued)
           w == Cardinality(Waiting(calls))
           a == Cardinality(Waiting([calls EXCEPT ![c] = t]))
<1>1. calls \in [Calls -> Requests]
  BY DEF IInv, TypeOK, Requests
<1>2. /\ w \in Nat /\ a \in Nat /\ a <= w + 1
      /\ t.at \notin {"find", "queue"} \/ calls[c].at \in {"find", "queue"} => a <= w
  BY <1>1, WaitingAfter
<1>3. q \in Nat
  BY QueueIsFinite
<1>4. q + w <= MaxCaptures
  BY DEF IInv, Dense
<1>5. RoomToQueue => q + w < MaxCaptures
  BY DEF RoomToQueue, Waiting
<1> HIDE DEF q, w, a
<1>6. q + a <= MaxCaptures
  BY <1>2, <1>3, <1>4, <1>5, ImportAssumption
<1> QED
  BY <1>6 DEF q, a

\* A request that begins work on a URL: if another is on it, the two race.
LEMMA RaceIsSeen ==
  ASSUME IInv, NEW c \in Calls, NEW url \in Urls, Races(url)
  PROVE  /\ raced \subseteq raced' /\ raced' \subseteq Urls
         /\ \A d \in Calls : calls[d].at # "idle" /\ calls[d].row.url = url => url \in raced'
BY DEF IInv, TypeOK, Races, InFlight

LEMMA ImportFromUrlKeeps ==
  ASSUME IInv, NEW c \in Calls, NEW url \in Urls, ImportFromUrl(c, url)
  PROVE  IInv'
<1> DEFINE t == [Idle EXCEPT !.at = "find", !.row = Capture(url)]
<1>1. /\ t \in Requests /\ t.at = "find" /\ t.row = Capture(url) /\ t.answer = "none"
  <2>1. Capture(url) \in Rows
    BY CaptureIsRow
  <2>2. Idle \in Requests /\ Idle.answer = "none"
    BY ImportAssumption DEF Idle, Requests
  <2>3. t \in Requests
    BY <2>1, <2>2 DEF Requests
  <2>4. t.at = "find" /\ t.row = Capture(url) /\ t.answer = "none"
    BY <2>2 DEF Requests
  <2> QED
    BY <2>3, <2>4
<1>2. calls' = [calls EXCEPT ![c] = t] /\ Races(url) /\ RoomToQueue
  BY DEF ImportFromUrl
<1> HIDE DEF t
<1>3. Fits(t, captures, purchases, raced')
  BY <1>1, CaptureIsRow DEF Fits, Placed
<1>4. t.row.url = url
  BY <1>1, CaptureIsRow
<1>5. Cardinality(Queued) + Cardinality(Waiting([calls EXCEPT ![c] = t])) <= MaxCaptures
  BY <1>1, <1>2, RoomFor
<1>6. captures' = captures /\ purchases' = purchases /\ recorded' = recorded
  BY DEF ImportFromUrl
<1>7. /\ raced \subseteq raced' /\ raced' \subseteq Urls
      /\ \A d \in Calls : calls[d].at # "idle" /\ calls[d].row.url = url => url \in raced'
  BY <1>2, RaceIsSeen
<1> QED
  BY <1>1, <1>2, <1>3, <1>4, <1>5, <1>6, <1>7, OneMoves

\* A call put to work on a row that is queued and open.
Working(id) ==
  [at |-> "fetch", id |-> id, row |-> captures[id], attempt |-> 1, answer |-> "none"]

LEMMA WorkFits ==
  ASSUME IInv, NEW id \in Queued, captures[id].status # "IMPORTED", NEW races
  PROVE  /\ Working(id) \in Requests /\ Working(id).at = "fetch"
         /\ Working(id).row = captures[id]
         /\ Fits(Working(id), captures, purchases, races)
<1>1. /\ id \in Ids /\ captures[id] # NoCapture /\ captures[id] \in Rows
      /\ captures[id].purchase = NoPurchase
  BY DEF IInv, TypeOK, Queued, ClosedAgainstItsPurchase
<1>2. Working(id) \in Requests
  BY <1>1, ImportAssumption DEF Working, Requests, Ids
<1>3. Fits(Working(id), captures, purchases, races)
  BY <1>1 DEF Fits, Working, Placed
<1> QED
  BY <1>2, <1>3 DEF Working

LEMMA FindByUrlKeeps ==
  ASSUME IInv, NEW c \in Calls, FindByUrl(c)
  PROVE  IInv'
<1> DEFINE url == calls[c].row.url
           found == CapturesOf(url)
           id == Newest(found)
<1>1. calls[c].at = "find" /\ UNCHANGED <<captures, purchases, recorded, raced>>
  BY DEF FindByUrl
<1>2. /\ calls[c] \in Requests /\ Fits(calls[c], captures, purchases, raced)
      /\ calls[c].row = Capture(url) /\ calls[c].row \in Rows
      /\ calls[c].row.status # "IMPORTED" /\ calls[c].row.purchase = NoPurchase
      /\ calls[c].answer \notin {"imported", "duplicate"} \/ NoteOf[url] \in purchases
  <2>1. calls[c] \in Requests /\ Fits(calls[c], captures, purchases, raced)
    BY CallFits
  <2> QED
    BY <1>1, <2>1 DEF Fits
<1>3. found \in SUBSET Ids
  BY QueueIsFinite
<1>4. found # {} => id \in found /\ \A j \in found : j <= id
  BY <1>3, NewestIsIn
<1>5. CASE found # {} /\ captures[id].status # "IMPORTED"
  <2>1. calls' = [calls EXCEPT ![c] = Working(id)]
    BY <1>5 DEF FindByUrl, Work, Working
  <2>2. id \in Queued /\ captures[id].url = url
    BY <1>4, <1>5 DEF CapturesOf
  <2> HIDE DEF id
  <2>3. /\ Working(id) \in Requests /\ Working(id).at = "fetch"
        /\ Working(id).row = captures[id]
        /\ Fits(Working(id), captures, purchases, raced)
    BY <1>5, <2>2, WorkFits
  <2> QED
    BY <1>1, <2>1, <2>2, <2>3, OneGoesOn
<1>6. CASE ~ (found # {} /\ captures[id].status # "IMPORTED")
  <2> DEFINE t == [calls[c] EXCEPT !.at = "queue"]
  <2>1. calls' = [calls EXCEPT ![c] = t]
    BY <1>6 DEF FindByUrl, MoveTo
  <2>2. /\ t \in Requests /\ t.at = "queue" /\ t.row = calls[c].row
        /\ t.answer = calls[c].answer
    BY <1>2 DEF Requests
  <2>3. \A i \in Ids : captures[i] # NoCapture /\ captures[i].url = url /\ url \notin raced
                       => captures[i].status = "IMPORTED"
    <3> SUFFICES ASSUME NEW i \in Ids, captures[i] # NoCapture, captures[i].url = url,
                        url \notin raced
                 PROVE  captures[i].status = "IMPORTED"
      OBVIOUS
    <3>1. i \in found /\ i \in Queued
      BY DEF CapturesOf, Queued
    <3>2. id \in Queued /\ captures[id].url = url /\ captures[id].status = "IMPORTED"
      BY <1>4, <1>6, <3>1 DEF CapturesOf
    <3>3. i <= id /\ id \in Ids
      BY <1>3, <1>4, <3>1
    <3> HIDE DEF id, found
    <3>4. i = id \/ i < id
      BY <3>3, ImportAssumption DEF Ids
    <3> QED
      BY <3>1, <3>2, <3>4 DEF IInv, Serial
  <2> HIDE DEF t, found, id
  <2>4. Fits(t, captures, purchases, raced)
    BY <1>2, <2>2, <2>3 DEF Fits, Placed
  <2> QED
    BY <1>1, <2>1, <2>2, <2>4, OneGoesOn
<1> QED
  BY <1>5, <1>6

LEMMA ReprocessKeeps ==
  ASSUME IInv, NEW c \in Calls, NEW id \in Ids, Reprocess(c, id)
  PROVE  IInv'
<1>1. /\ calls[c].at = "idle" /\ id \in Queued /\ Races(captures[id].url)
      /\ captures' = captures /\ purchases' = purchases /\ recorded' = recorded
  BY DEF Reprocess, InFlight
<1>2. captures[id] \in Rows /\ calls[c] \in Requests
  BY <1>1, CallFits
<1>3. captures[id].url \in Urls
  BY <1>2 DEF Rows
<1>4. /\ raced \subseteq raced' /\ raced' \subseteq Urls
      /\ \A d \in Calls : calls[d].at # "idle" /\ calls[d].row.url = captures[id].url
                          => captures[id].url \in raced'
  BY <1>1, <1>3, RaceIsSeen
<1>5. CASE captures[id].status = "IMPORTED"
  <2> DEFINE t == [calls[c] EXCEPT !.row = captures[id], !.answer = "duplicate"]
  <2>1. calls' = [calls EXCEPT ![c] = t]
    BY <1>5 DEF Reprocess
  <2>2. t \in Requests
    BY <1>2 DEF Requests
  <2>3. t.at = "idle" /\ t.row = captures[id]
    BY <1>1, <1>2 DEF Requests
  <2>4. NoteOf[captures[id].url] \in purchases
    BY <1>1, <1>5 DEF IInv, ClosedAgainstItsPurchase
  <2> HIDE DEF t
  <2>5. Fits(t, captures, purchases, raced')
    BY <2>3, <2>4 DEF Fits, Placed
  <2>6. Cardinality(Queued) + Cardinality(Waiting([calls EXCEPT ![c] = t])) <= MaxCaptures
    BY <2>2, <2>3, RoomFor
  <2> QED
    BY <1>1, <1>4, <2>1, <2>2, <2>3, <2>5, <2>6, OneMoves
<1>6. CASE captures[id].status # "IMPORTED"
  <2>1. calls' = [calls EXCEPT ![c] = Working(id)]
    BY <1>6 DEF Reprocess, Work, Working
  <2>2. /\ Working(id) \in Requests /\ Working(id).at = "fetch"
        /\ Working(id).row = captures[id]
        /\ Fits(Working(id), captures, purchases, raced')
    BY <1>1, <1>6, WorkFits
  <2>3. Cardinality(Queued) + Cardinality(Waiting([calls EXCEPT ![c] = Working(id)]))
          <= MaxCaptures
    BY <2>2, RoomFor
  <2> QED
    BY <1>1, <1>4, <2>1, <2>2, <2>3, OneMoves
<1> QED
  BY <1>5, <1>6

\* A call on a row goes on to another step on it.
LEMMA MoveKeeps ==
  ASSUME IInv, NEW c \in Calls, calls[c].at \in Placed, NEW place \in Placed,
         MoveTo(c, place), UNCHANGED <<captures, purchases, recorded, raced>>,
         place = "duplicate" => Note(c) \in purchases
  PROVE  IInv'
<1> DEFINE t == [calls[c] EXCEPT !.at = place]
<1>1. calls[c] \in Requests /\ Fits(calls[c], captures, purchases, raced)
  BY CallFits
<1>2. t \in Requests /\ t.at = place /\ t.row = calls[c].row /\ t.answer = calls[c].answer
      /\ t.id = calls[c].id
  BY <1>1 DEF Requests, Placed
<1>3. calls' = [calls EXCEPT ![c] = t]
  BY DEF MoveTo
<1> HIDE DEF t
<1>4. Fits(t, captures, purchases, raced)
  BY <1>1, <1>2 DEF Fits, Placed, Note
<1>5. calls[c].at # "idle" /\ t.at \notin {"find", "queue"}
  BY <1>2 DEF Placed
<1> QED
  BY <1>2, <1>3, <1>4, <1>5, OneGoesOn

LEMMA FetchInvoiceKeeps ==
  ASSUME IInv, NEW c \in Calls, FetchInvoice(c) \/ StructureChanged(c)
  PROVE  IInv'
<1>1. calls[c].at \in Placed /\ UNCHANGED <<captures, purchases, recorded, raced>>
  BY DEF FetchInvoice, StructureChanged, Placed
<1>2. CASE FetchInvoice(c)
  <2>1. MoveTo(c, "lookup") /\ "lookup" \in Placed
    BY <1>2 DEF FetchInvoice, Placed
  <2> QED
    BY <1>1, <2>1, MoveKeeps
<1>3. CASE StructureChanged(c)
  <2>1. MoveTo(c, "unreadable") /\ "unreadable" \in Placed
    BY <1>3 DEF StructureChanged, Placed
  <2> QED
    BY <1>1, <2>1, MoveKeeps
<1> QED
  BY <1>2, <1>3

LEMMA SourceUnavailableKeeps ==
  ASSUME IInv, NEW c \in Calls, SourceUnavailable(c)
  PROVE  IInv'
<1>1. calls[c].at = "fetch" /\ UNCHANGED <<captures, purchases, recorded, raced>>
  BY DEF SourceUnavailable
<1>2. CASE calls[c].attempt < MaxAttempts
  <2> DEFINE t == [calls[c] EXCEPT !.attempt = @ + 1]
  <2>1. calls[c] \in Requests /\ Fits(calls[c], captures, purchases, raced)
    BY CallFits
  <2>2. calls[c].attempt + 1 \in 0..MaxAttempts
    BY <1>2, <2>1, ImportAssumption DEF Requests
  <2>3. t \in Requests /\ t.at = "fetch" /\ t.row = calls[c].row
        /\ t.answer = calls[c].answer /\ t.id = calls[c].id
    BY <1>1, <2>1, <2>2 DEF Requests
  <2>4. calls' = [calls EXCEPT ![c] = t]
    BY <1>2 DEF SourceUnavailable
  <2> HIDE DEF t
  <2>5. Fits(t, captures, purchases, raced)
    BY <1>1, <2>1, <2>3 DEF Fits, Placed
  <2> QED
    BY <1>1, <2>3, <2>4, <2>5, OneGoesOn
<1>3. CASE ~ (calls[c].attempt < MaxAttempts)
  <2>1. MoveTo(c, "unstable") /\ "unstable" \in Placed /\ calls[c].at \in Placed
    BY <1>1, <1>3 DEF SourceUnavailable, Placed
  <2> QED
    BY <1>1, <2>1, MoveKeeps
<1> QED
  BY <1>2, <1>3

LEMMA FindByAccessKeyKeeps ==
  ASSUME IInv, NEW c \in Calls, FindByAccessKey(c)
  PROVE  IInv'
<1>1. calls[c].at \in Placed /\ UNCHANGED <<captures, purchases, recorded, raced>>
  BY DEF FindByAccessKey, Placed
<1>2. CASE Note(c) \in purchases
  <2>1. MoveTo(c, "duplicate") /\ "duplicate" \in Placed
    BY <1>2 DEF FindByAccessKey, Placed
  <2> QED
    BY <1>1, <1>2, <2>1, MoveKeeps
<1>3. CASE Note(c) \notin purchases
  <2>1. MoveTo(c, "import") /\ "import" \in Placed
    BY <1>3 DEF FindByAccessKey, Placed
  <2> QED
    BY <1>1, <2>1, MoveKeeps
<1> QED
  BY <1>2, <1>3

\* What a call at work has read, and the record an answer leaves of it.
Answered(c, answer) ==
  [calls[c] EXCEPT !.at = "idle", !.id = 0, !.attempt = 0, !.answer = answer]

LEMMA AnsweredFits ==
  ASSUME IInv, NEW c \in Calls,
         NEW answer \in {"unavailable", "unreadable", "duplicate", "imported", "error"}
  PROVE  /\ Answered(c, answer) \in Requests /\ Answered(c, answer).at = "idle"
         /\ Answered(c, answer).row = calls[c].row /\ Answered(c, answer).answer = answer
<1>1. calls[c] \in Requests
  BY CallFits
<1>2. Answered(c, answer) \in Requests
  <2>1. 0 \in 0..MaxCaptures /\ 0 \in 0..MaxAttempts
    BY ImportAssumption
  <2> QED
    BY <1>1, <2>1 DEF Answered, Requests
<1>3. /\ Answered(c, answer).at = "idle" /\ Answered(c, answer).row = calls[c].row
      /\ Answered(c, answer).answer = answer
  BY <1>1 DEF Answered, Requests
<1> QED
  BY <1>2, <1>3

LEMMA PlacedReads ==
  ASSUME IInv, NEW c \in Calls, calls[c].at \in Placed
  PROVE  /\ calls[c].row \in Rows /\ calls[c].row.purchase = NoPurchase
         /\ calls[c].row.status # "IMPORTED" /\ Note(c) \in Notes
         /\ calls[c].at = "duplicate" => Note(c) \in purchases
<1>1. Fits(calls[c], captures, purchases, raced)
  BY CallFits
<1>2. /\ calls[c].row \in Rows /\ calls[c].row.purchase = NoPurchase
      /\ calls[c].row.status # "IMPORTED"
      /\ calls[c].at = "duplicate" => Note(c) \in purchases
  BY <1>1 DEF Fits, Placed, Note
<1>3. Note(c) \in Notes
  BY <1>2, ImportAssumption DEF Note, Rows
<1> QED
  BY <1>2, <1>3

\* A failed read of the portal is recorded.
LEMMA RecordKeeps ==
  ASSUME IInv, NEW c \in Calls, RecordUnstable(c) \/ RecordUnreadable(c)
  PROVE  IInv'
<1>1. calls[c].at \in Placed /\ purchases' = purchases /\ raced' = raced
  BY DEF RecordUnstable, RecordUnreadable, Placed
<1>2. purchases' \subseteq Notes
  BY <1>1, CallFits
<1>3. calls[c].row \in Rows /\ calls[c].row.purchase = NoPurchase
  BY <1>1, PlacedReads
<1>4. CASE RecordUnstable(c)
  <2> DEFINE t == Answered(c, "unavailable")
             row == MarkUnstable(calls[c].row)
  <2>1. t \in Requests /\ t.at = "idle" /\ t.answer = "unavailable"
    BY AnsweredFits
  <2>2. /\ row \in Rows /\ row.url = calls[c].row.url
        /\ row.attempts = calls[c].row.attempts + 1
        /\ row.status # "IMPORTED" /\ row.purchase = NoPurchase
    BY <1>3, MarksAreRows
  <2>3. Save(c, row) /\ calls' = [calls EXCEPT ![c] = t]
    BY <1>4 DEF RecordUnstable, Answer, Answered
  <2> HIDE DEF t, row
  <2> QED
    BY <1>1, <1>2, <2>1, <2>2, <2>3, OneSaves
<1>5. CASE RecordUnreadable(c)
  <2> DEFINE t == Answered(c, "unreadable")
             row == MarkUnreadable(calls[c].row)
  <2>1. t \in Requests /\ t.at = "idle" /\ t.answer = "unreadable"
    BY AnsweredFits
  <2>2. /\ row \in Rows /\ row.url = calls[c].row.url
        /\ row.attempts = calls[c].row.attempts + 1
        /\ row.status # "IMPORTED" /\ row.purchase = NoPurchase
    BY <1>3, MarksAreRows
  <2>3. Save(c, row) /\ calls' = [calls EXCEPT ![c] = t]
    BY <1>5 DEF RecordUnreadable, Answer, Answered
  <2> HIDE DEF t, row
  <2> QED
    BY <1>1, <1>2, <2>1, <2>2, <2>3, OneSaves
<1> QED
  BY <1>4, <1>5

\* A capture is closed, against the purchase found or the one inserted.
LEMMA CloseKeeps ==
  ASSUME IInv, NEW c \in Calls, CloseDuplicate(c) \/ ImportNote(c)
  PROVE  IInv'
<1> DEFINE row == MarkImported(calls[c].row, Note(c))
<1>1. calls[c].at \in Placed /\ raced' = raced
  BY DEF CloseDuplicate, ImportNote, Placed
<1>2. /\ calls[c].row \in Rows /\ Note(c) \in Notes
      /\ calls[c].at = "duplicate" => Note(c) \in purchases
  BY <1>1, PlacedReads
<1>3. purchases \subseteq purchases' /\ purchases' \subseteq Notes /\ Note(c) \in purchases'
  <2>1. purchases \subseteq Notes
    BY CallFits
  <2>2. CASE CloseDuplicate(c)
    BY <1>2, <2>1, <2>2 DEF CloseDuplicate
  <2>3. CASE ImportNote(c)
    BY <1>2, <2>1, <2>3 DEF ImportNote
  <2> QED
    BY <2>2, <2>3
<1>4. /\ row \in Rows /\ row.url = calls[c].row.url
      /\ row.attempts = calls[c].row.attempts + 1
      /\ row.status = "IMPORTED" /\ row.purchase = Note(c)
  BY <1>2, MarkImportedIsRow
<1>5. PICK answer \in {"duplicate", "imported"} : Answer(c, answer) /\ Save(c, row)
  BY DEF CloseDuplicate, ImportNote
<1> DEFINE t == Answered(c, answer)
<1>6. t \in Requests /\ t.at = "idle" /\ t.row = calls[c].row
  BY AnsweredFits
<1>7. calls' = [calls EXCEPT ![c] = t]
  BY <1>5 DEF Answer, Answered
<1> HIDE DEF t, row
<1>8. /\ row.purchase = NoteOf[row.url] /\ row.purchase \in purchases'
      /\ NoteOf[t.row.url] \in purchases'
  BY <1>3, <1>4, <1>6 DEF Note
<1> QED
  BY <1>1, <1>3, <1>4, <1>5, <1>6, <1>7, <1>8, OneSaves

\* A call ends with nothing written.
LEMMA FailKeeps ==
  ASSUME IInv, NEW c \in Calls, Fail(c) \/ RefusedByAccessKey(c)
  PROVE  IInv'
<1> DEFINE t == Answered(c, "error")
<1>1. /\ calls[c].at # "idle" /\ Answer(c, "error")
      /\ UNCHANGED <<captures, purchases, recorded, raced>>
  BY DEF Fail, RefusedByAccessKey, InFlight
<1>2. t \in Requests /\ t.at = "idle" /\ t.row = calls[c].row /\ t.answer = "error"
  BY AnsweredFits
<1>3. calls' = [calls EXCEPT ![c] = t]
  BY <1>1 DEF Answer, Answered
<1> HIDE DEF t
<1>4. Fits(t, captures, purchases, raced)
  BY <1>2 DEF Fits, Placed
<1> QED
  BY <1>1, <1>2, <1>3, <1>4, OneGoesOn

\* A new row is added after the others, and its URL has no open one.
LEMMA QueueCaptureKeeps ==
  ASSUME IInv, NEW c \in Calls, QueueCapture(c)
  PROVE  IInv'
<1> DEFINE n == Cardinality(Queued)
           id == n + 1
           row == calls[c].row
           url == row.url
           t == [at |-> "fetch", id |-> id, row |-> row, attempt |-> 1, answer |-> "none"]
<1>1. /\ calls[c].at = "queue" /\ captures' = [captures EXCEPT ![id] = row]
      /\ calls' = [calls EXCEPT ![c] = t]
      /\ purchases' = purchases /\ recorded' = recorded /\ raced' = raced
  BY DEF QueueCapture, Work
<1>2. /\ captures \in [Ids -> Rows \cup {NoCapture}] /\ purchases \subseteq Notes
      /\ calls \in [Calls -> Requests] /\ recorded \in [Ids -> Nat] /\ raced \subseteq Urls
  BY DEF IInv, TypeOK, Requests
<1>3. /\ row = Capture(url) /\ row \in Rows
      /\ row.status # "IMPORTED" /\ row.purchase = NoPurchase /\ row.attempts = 0
      /\ url \notin raced => \A i \in Queued : captures[i].url = url
                                              => captures[i].status = "IMPORTED"
  <2>1. Fits(calls[c], captures, purchases, raced)
    BY CallFits
  <2>2. row \in Rows /\ row = Capture(url)
    BY <1>1, <2>1 DEF Fits
  <2>3. url \in Urls
    BY <2>2 DEF Rows
  <2>4. url \notin raced => \A i \in Queued : captures[i].url = url
                                             => captures[i].status = "IMPORTED"
    BY <1>1, <2>1 DEF Fits, Queued
  <2> HIDE DEF url
  <2> QED
    BY <2>2, <2>3, <2>4, CaptureIsRow
<1>4. n \in Nat /\ IsFiniteSet(Queued) /\ Queued = 1..n /\ \A i \in Ids \ Queued : recorded[i] = 0
  BY QueueIsFinite DEF IInv, Dense
<1>5. /\ t \in Requests => Cardinality(Waiting([calls EXCEPT ![c] = t])) \in Nat
      /\ t \in Requests => Cardinality(Waiting([calls EXCEPT ![c] = t]))
                             = Cardinality(Waiting(calls)) - 1
      /\ Cardinality(Waiting(calls)) \in Nat /\ Cardinality(Waiting(calls)) > 0
  <2>1. Idle \in Requests /\ t.at = "fetch"
    BY ImportAssumption DEF Idle, Requests
  <2> HIDE DEF t
  <2> QED
    BY <1>1, <1>2, <2>1, WaitingAfter
<1>6. n + Cardinality(Waiting(calls)) <= MaxCaptures
  BY DEF IInv, Dense
<1>7. id \in Ids /\ id \notin Queued /\ id \in 0..MaxCaptures
  <2> HIDE DEF n
  <2> QED
    BY <1>4, <1>5, <1>6, ImportAssumption DEF Ids
<1>8. captures[id] = NoCapture /\ recorded[id] = 0
  BY <1>4, <1>7 DEF Queued
<1>9. t \in Requests
  <2>1. 1 \in 0..MaxAttempts
    BY ImportAssumption
  <2> HIDE DEF n, id
  <2> QED
    BY <1>3, <1>7, <2>1 DEF Requests
<1>10. t.at = "fetch" /\ t.id = id /\ t.row = row /\ t.answer = "none"
  OBVIOUS
<1> HIDE DEF id, t
<1>11. /\ captures'[id] = row /\ row # NoCapture
       /\ \A i \in Ids \ {id} : captures'[i] = captures[i]
       /\ Queued' = Queued \cup {id}
  <2>1. captures'[id] = row /\ \A i \in Ids \ {id} : captures'[i] = captures[i]
    BY <1>1, <1>2, <1>7
  <2>2. row # NoCapture
    BY <1>3, NoRowIsNoCapture
  <2> QED
    BY <1>7, <2>1, <2>2 DEF Queued
<1>12. /\ calls' \in [Calls -> Requests] /\ calls'[c] = t
       /\ \A d \in Calls \ {c} : calls'[d] = calls[d]
  BY <1>1, <1>2, <1>9
<1>13. TypeOK'
  <2>1. captures' \in [Ids -> Rows \cup {NoCapture}]
    BY <1>1, <1>2, <1>3, <1>7
  <2> QED
    BY <1>1, <1>2, <1>12, <2>1 DEF TypeOK, Requests
<1>14. ClosedAgainstItsPurchase'
  <2>1. ClosedAgainstItsPurchase
    BY DEF IInv
  <2>2. \A i \in Queued : captures'[i] = captures[i]
    BY <1>7, <1>11 DEF Queued
  <2> QED
    BY <1>1, <1>3, <1>11, <2>1, <2>2 DEF ClosedAgainstItsPurchase
<1>15. AttemptsAreCounted'
  <2>1. AttemptsAreCounted
    BY DEF IInv
  <2>2. \A i \in Queued : captures'[i] = captures[i]
    BY <1>7, <1>11 DEF Queued
  <2> QED
    BY <1>1, <1>3, <1>8, <1>11, <2>1, <2>2 DEF AttemptsAreCounted
<1>16. \A d \in Calls \ {c} : calls[d].at # "idle" /\ calls[d].row.url = url => url \in raced
  BY <1>1 DEF IInv, Alone
<1>17. Alone'
  <2>1. \A d \in Calls : calls'[d].at # "idle" => calls[d].at # "idle"
    BY <1>1, <1>12
  <2>2. \A d \in Calls : calls'[d].row = calls[d].row
    BY <1>10, <1>12
  <2>3. Alone
    BY DEF IInv
  <2> QED
    BY <1>1, <2>1, <2>2, <2>3 DEF Alone
<1>18. AllFit'
  <2> SUFFICES ASSUME NEW d \in Calls
               PROVE  Fits(calls'[d], captures', purchases, raced)
    BY <1>1 DEF AllFit, Fits
  <2>1. CASE d = c
    BY <1>3, <1>7, <1>10, <1>11, <1>12, <2>1 DEF Fits, Placed
  <2>2. CASE d # c
    <3> DEFINE u == calls[d]
    <3>1. calls'[d] = u /\ Fits(u, captures, purchases, raced)
      BY <1>12, <2>2, CallFits
    <3>2. u.at # "idle" /\ u.row.url = url => url \in raced
      BY <1>16, <2>2
    <3> HIDE DEF u, row
    <3>3. u.at = "queue" /\ u.row.url \notin raced =>
            \A i \in Ids : captures'[i] # NoCapture /\ captures'[i].url = u.row.url
                           => captures'[i].status = "IMPORTED"
      <4> SUFFICES ASSUME u.at = "queue", u.row.url \notin raced, NEW i \in Ids,
                          captures'[i] # NoCapture, captures'[i].url = u.row.url
                   PROVE  captures'[i].status = "IMPORTED"
        OBVIOUS
      <4>1. i # id
        BY <1>11, <3>2
      <4> QED
        BY <1>11, <3>1, <4>1 DEF Fits
    <3>4. u.at \in Placed =>
            /\ u.id \in Ids /\ captures'[u.id] # NoCapture /\ captures'[u.id].url = u.row.url
            /\ u.row.url \notin raced => captures'[u.id] = u.row
      <4> SUFFICES ASSUME u.at \in Placed
                   PROVE  /\ u.id \in Ids /\ captures'[u.id] # NoCapture
                          /\ captures'[u.id].url = u.row.url
                          /\ u.row.url \notin raced => captures'[u.id] = u.row
        OBVIOUS
      <4>1. /\ u.id \in Ids /\ captures[u.id] # NoCapture /\ captures[u.id].url = u.row.url
            /\ u.row.url \notin raced => captures[u.id] = u.row
        BY <3>1 DEF Fits
      <4> QED
        BY <1>8, <1>11, <4>1
    <3>5. Fits(u, captures', purchases, raced)
      BY <3>1, <3>3, <3>4 DEF Fits
    <3> QED
      BY <3>1, <3>5
  <2> QED
    BY <2>1, <2>2
<1>19. Serial'
  <2> SUFFICES ASSUME NEW i \in Queued \cup {id}, NEW j \in Queued \cup {id}, i < j,
                      captures'[i].url = captures'[j].url, captures'[i].url \notin raced
               PROVE  captures'[i].status = "IMPORTED"
    BY <1>1, <1>11 DEF Serial
  <2>1. i # id
    <3> HIDE DEF n
    <3> QED
      BY <1>4 DEF id
  <2>2. i \in Queued /\ captures'[i] = captures[i]
    BY <1>11, <2>1 DEF Queued
  <2>3. CASE j = id
    BY <1>3, <1>11, <2>2, <2>3
  <2>4. CASE j # id
    <3>1. j \in Queued /\ captures'[j] = captures[j]
      BY <1>11, <2>4 DEF Queued
    <3> QED
      BY <2>2, <3>1 DEF IInv, Serial
  <2> QED
    BY <2>3, <2>4
<1>20. Dense'
  <2>1. Cardinality(Queued') = n + 1
    BY <1>4, <1>7, <1>11, FS_AddElement
  <2>2. Queued' = 1..(n + 1)
    <3> HIDE DEF n
    <3> QED
      BY <1>4, <1>11 DEF id
  <2>3. Waiting(calls') = Waiting([calls EXCEPT ![c] = t])
    BY <1>1
  <2>4. (n + 1) + Cardinality(Waiting([calls EXCEPT ![c] = t])) <= MaxCaptures
    <3> HIDE DEF n
    <3> QED
      BY <1>4, <1>5, <1>6, <1>9, ImportAssumption
  <2>5. \A i \in Ids \ Queued' : recorded'[i] = 0
    BY <1>1, <1>4, <1>11
  <2> HIDE DEF n
  <2> QED
    BY <2>1, <2>2, <2>3, <2>4, <2>5 DEF Dense
<1> QED
  BY <1>13, <1>14, <1>15, <1>17, <1>18, <1>19, <1>20 DEF IInv

\* The calls are lost, and what they had saved is what is there.
LEMMA CrashKeeps ==
  ASSUME IInv, Crash
  PROVE  IInv'
<1>1. /\ \A c \in Calls : calls'[c] = Idle
      /\ captures' = captures /\ purchases' = purchases /\ recorded' = recorded
      /\ raced' = raced
  BY DEF Crash
<1>2. TypeOK'
  <2>1. Idle \in Requests
    BY ImportAssumption DEF Idle, Requests
  <2>2. calls' \in [Calls -> Requests]
    BY <2>1 DEF Crash
  <2> QED
    BY <1>1, <2>2 DEF IInv, TypeOK, Requests
<1>3. ClosedAgainstItsPurchase' /\ AttemptsAreCounted' /\ Serial'
  BY <1>1 DEF IInv, ClosedAgainstItsPurchase, AttemptsAreCounted, Serial, Queued
<1>4. AllFit' /\ Alone'
  BY <1>1 DEF AllFit, Alone, Fits, Idle, Placed
<1>5. Dense'
  <2>1. Queued' = Queued /\ Waiting(calls') = {}
    BY <1>1 DEF Queued, Waiting, Idle
  <2>2. Cardinality({}) = 0
    BY FS_EmptySet
  <2>3. Cardinality(Queued) \in Nat /\ Cardinality(Waiting(calls)) \in Nat
    <3>1. Waiting(calls) \in SUBSET Calls
      BY DEF Waiting
    <3> QED
      BY <3>1, QueueIsFinite, FS_Subset, FS_CardinalityType, ImportAssumption
  <2>4. Cardinality(Queued) + Cardinality({}) <= MaxCaptures
    <3>1. Cardinality(Queued) + Cardinality(Waiting(calls)) <= MaxCaptures
      BY DEF IInv, Dense
    <3> QED
      BY <2>2, <2>3, <3>1, ImportAssumption
  <2> QED
    BY <1>1, <2>1, <2>4 DEF IInv, Dense
<1> QED
  BY <1>2, <1>3, <1>4, <1>5 DEF IInv

LEMMA StutterKeeps ==
  ASSUME IInv, UNCHANGED vars
  PROVE  IInv'
<1>1. /\ captures' = captures /\ purchases' = purchases /\ calls' = calls
      /\ recorded' = recorded /\ raced' = raced
  BY DEF vars
<1>2. TypeOK' /\ ClosedAgainstItsPurchase' /\ AttemptsAreCounted'
  BY <1>1 DEF IInv, TypeOK, ClosedAgainstItsPurchase, AttemptsAreCounted, Queued
<1>3. AllFit' /\ Alone' /\ Serial' /\ Dense'
  BY <1>1 DEF IInv, AllFit, Fits, Alone, Serial, Dense, Queued, Waiting
<1> QED
  BY <1>2, <1>3 DEF IInv

LEMMA StepKeeps ==
  ASSUME IInv, NEW c \in Calls, Step(c)
  PROVE  IInv'
<1>1. CASE FindByUrl(c)
  BY <1>1, FindByUrlKeeps
<1>2. CASE QueueCapture(c)
  BY <1>2, QueueCaptureKeeps
<1>3. CASE FetchInvoice(c) \/ StructureChanged(c)
  BY <1>3, FetchInvoiceKeeps
<1>4. CASE SourceUnavailable(c)
  BY <1>4, SourceUnavailableKeeps
<1>5. CASE RecordUnstable(c) \/ RecordUnreadable(c)
  BY <1>5, RecordKeeps
<1>6. CASE FindByAccessKey(c)
  BY <1>6, FindByAccessKeyKeeps
<1>7. CASE CloseDuplicate(c) \/ ImportNote(c)
  BY <1>7, CloseKeeps
<1>8. CASE RefusedByAccessKey(c)
  BY <1>8, FailKeeps
<1> QED
  BY <1>1, <1>2, <1>3, <1>4, <1>5, <1>6, <1>7, <1>8 DEF Step

LEMMA InvAlways == Spec => []IInv
<1>1. Init => IInv
  BY InvFirst
<1>2. IInv /\ [Next]_vars => IInv'
  <2> SUFFICES ASSUME IInv, [Next]_vars PROVE IInv'
    OBVIOUS
  <2>1. CASE UNCHANGED vars
    BY <2>1, StutterKeeps
  <2>2. CASE \E c \in Calls, url \in Urls : ImportFromUrl(c, url)
    BY <2>2, ImportFromUrlKeeps
  <2>3. CASE \E c \in Calls, id \in Ids : Reprocess(c, id)
    BY <2>3, ReprocessKeeps
  <2>4. CASE \E c \in Calls : Step(c)
    BY <2>4, StepKeeps
  <2>5. CASE \E c \in Calls : Fail(c)
    BY <2>5, FailKeeps
  <2>6. CASE Crash
    BY <2>6, CrashKeeps
  <2> QED
    BY <2>1, <2>2, <2>3, <2>4, <2>5, <2>6 DEF Next
<1> QED
  BY <1>1, <1>2, PTL DEF Spec

-----------------------------------------------------------------------------
(* The theorems.                                                           *)

\* However calls interleave, fail and are lost, the queue says IMPORTED of the
\* captures whose note's purchase is in the table, and of no other.
THEOREM ClosedHasItsPurchase == Spec => []ClosedAgainstItsPurchase
<1>1. IInv => ClosedAgainstItsPurchase
  BY DEF IInv
<1> QED
  BY <1>1, InvAlways, PTL

\* A caller told "imported" or "duplicate" (InvoiceImportFacade.process) finds
\* the purchase of the note.
THEOREM AnswersAreDurable == Spec => []AnsweredIsDurable
<1>1. IInv => AnsweredIsDurable
  BY DEF IInv, AllFit, Fits, AnsweredIsDurable
<1> QED
  BY <1>1, InvAlways, PTL

\* A QR Code no two calls worked on at once has one open capture, whatever
\* failed or crashed before (findByUrl, then the queue).
THEOREM OneOpenCapture == Spec => []OneOpenCapturePerUrl
<1>1. IInv => OneOpenCapturePerUrl
  <2> SUFFICES ASSUME IInv, NEW url \in Urls \ raced
               PROVE  Cardinality({i \in CapturesOf(url) : captures[i].status # "IMPORTED"}) <= 1
    BY DEF OneOpenCapturePerUrl
  <2> DEFINE open == {i \in CapturesOf(url) : captures[i].status # "IMPORTED"}
  <2>1. \A i, j \in open : ~ (i < j)
    BY DEF IInv, Serial, CapturesOf
  <2>2. \A i \in open : i \in Int
    BY DEF CapturesOf, Queued, Ids
  <2> HIDE DEF open
  <2>3. \A i, j \in open : i = j
    BY <2>1, <2>2
  <2>4. CASE open = {}
    BY <2>4, FS_EmptySet DEF open
  <2>5. CASE open # {}
    <3>1. PICK i \in open : TRUE
      BY <2>5
    <3>2. open = {i}
      BY <2>3, <3>1
    <3>3. Cardinality(open) = 1
      BY <3>2, FS_Singleton
    <3> QED
      BY <3>3 DEF open
  <2> QED
    BY <2>4, <2>5
<1> QED
  BY <1>1, InvAlways, PTL

\* attemptCount is the number of attempts whose result was saved, on a QR Code
\* no two calls worked on at once (PrismaPendingInvoiceRepository.save writes
\* the count the call read, plus one).
THEOREM EveryAttemptIsCounted == Spec => []AttemptsAreCounted
<1>1. IInv => AttemptsAreCounted
  BY DEF IInv
<1> QED
  BY <1>1, InvAlways, PTL

\* The row a step may rewrite is the one its call read, open unless two calls
\* worked on its URL at once.
LEMMA OnlyOpenRowsAreSaved ==
  ASSUME IInv, [Next]_vars, NEW i \in Queued,
         captures[i].url \notin raced', captures[i].status = "IMPORTED"
  PROVE  captures'[i] = captures[i]
<1>1. captures \in [Ids -> Rows \cup {NoCapture}]
  BY DEF IInv, TypeOK
<1>2. CASE captures' = captures
  BY <1>2
<1>3. CASE \E c \in Calls : calls[c].at \in Placed /\ raced' = raced /\ \E row : Save(c, row)
  <2>1. PICK c \in Calls : calls[c].at \in Placed /\ raced' = raced /\ \E row : Save(c, row)
    BY <1>3
  <2>2. Fits(calls[c], captures, purchases, raced)
    BY CallFits
  <2>3. calls[c].id # i
    BY <2>1, <2>2 DEF Fits, Placed
  <2> QED
    BY <1>1, <2>1, <2>3 DEF Save, Queued
<1>4. CASE \E c \in Calls : QueueCapture(c)
  <2>1. PICK c \in Calls : captures' = [captures EXCEPT ![Cardinality(Queued) + 1] = calls[c].row]
    BY <1>4 DEF QueueCapture
  <2>2. Queued = 1..Cardinality(Queued) /\ Cardinality(Queued) \in Nat
    BY QueueIsFinite DEF IInv, Dense
  <2>3. i # Cardinality(Queued) + 1
    BY <2>2
  <2> QED
    BY <1>1, <2>1, <2>3 DEF Queued
<1>5. CASE \E c \in Calls : Step(c)
  <2>1. PICK c \in Calls : Step(c)
    BY <1>5
  <2>2. CASE FindByUrl(c) \/ FetchInvoice(c) \/ SourceUnavailable(c) \/ StructureChanged(c)
             \/ FindByAccessKey(c) \/ RefusedByAccessKey(c)
    BY <1>2, <2>2 DEF FindByUrl, FetchInvoice, SourceUnavailable, StructureChanged,
                      FindByAccessKey, RefusedByAccessKey
  <2>3. CASE QueueCapture(c)
    BY <1>4, <2>3
  <2>4. CASE RecordUnstable(c) \/ RecordUnreadable(c) \/ CloseDuplicate(c) \/ ImportNote(c)
    BY <1>3, <2>4 DEF RecordUnstable, RecordUnreadable, CloseDuplicate, ImportNote, Placed
  <2> QED
    BY <2>1, <2>2, <2>3, <2>4 DEF Step
<1>6. CASE ~ \E c \in Calls : Step(c)
  BY <1>2, <1>6 DEF Next, vars, ImportFromUrl, Reprocess, Fail, Crash
<1> QED
  BY <1>5, <1>6

\* Nothing opens a closed capture again, nor moves it to another purchase, on a
\* QR Code no two calls worked on at once.
THEOREM ClosedIsForGood == Spec => ImportedStaysImported
<1> DEFINE Stays == \A id \in Queued :
                      captures[id].url \notin raced' /\ captures[id].status = "IMPORTED" =>
                        captures'[id].status = "IMPORTED" /\
                          captures'[id].purchase = captures[id].purchase
<1>1. IInv /\ [Next]_vars => [Stays]_vars
  BY OnlyOpenRowsAreSaved
<1>2. Spec => [][Stays]_vars
  BY <1>1, InvAlways, PTL DEF Spec
<1> QED
  BY <1>2 DEF ImportedStaysImported

=============================================================================
