----------------------------- MODULE ServerRecords ------------------------------
(***************************************************************************)
(* What the server records of its own work: the audit row the Prisma       *)
(* extension adds to every write, the RequestLog row the middleware adds   *)
(* once the response is out, the throttled alert a server error raises, and*)
(* the daily pruning of both tables.                                       *)
(*                                                                         *)
(* A request may open transactions, one after another, and may also write  *)
(* outside them.  A write is three statements: read the row as it is, write*)
(* it, insert the audit row.  In a transaction they share its snapshot of  *)
(* its own writes and its fate; outside, each commits on its own.  Both run*)
(* at READ COMMITTED, where a write waits for the row's holder.            *)
(***************************************************************************)
EXTENDS Naturals, FiniteSets

CONSTANTS
  Requests,      \* requests, each with its transactionId
  Mutating,      \* those of MUTATING_METHODS; the others write nothing
  AuditedRows,   \* rows of audited models
  Values,        \* what a row can hold
  Errors,        \* names of the exceptions thrown
  Throttle,      \* ERROR_ALERT_THROTTLE_SECONDS
  AuditDays,     \* AUDIT_LOG_RETENTION_DAYS
  RequestDays,   \* REQUEST_LOG_RETENTION_DAYS
  MaxWrites,     \* bound on the writes begun
  MaxNow,        \* bound of the clock
  MaxCrashes     \* bound on restarts

NoError == "none"

ASSUME RecordsAssumption ==
  /\ IsFiniteSet(Requests) /\ Mutating \subseteq Requests
  /\ NoError \notin Errors
  /\ {Throttle, MaxWrites, MaxNow, MaxCrashes} \subseteq Nat
  /\ {AuditDays, RequestDays} \subseteq Nat \ {0}

VARIABLES
  now,
  row,             \* committed rows
  request,         \* each request: its progress, its open transaction, its end
  auditLog,        \* AuditLog
  requestLog,      \* RequestLog
  lastAlertAt,     \* ErrorAlertService: when the window of an error opened
  suppressedSince, \* ErrorAlertService: occurrences since, not alerted on
  sending,         \* alerts handed to the channel
  told, unsent,    \* history: occurrences in alerts delivered, and in alerts lost
  changes,         \* history: the writes that took effect
  writes, crashes  \* bound the model: writes begun and restarts so far

recordsVars == <<now, row, request, auditLog, requestLog, lastAlertAt, suppressedSince,
                 sending, told, unsent, changes, writes, crashes>>

None == [none |-> TRUE]

\* A request that has nothing under way and no transaction open.
Fresh == [at |-> "running", error |-> NoError, inTx |-> FALSE, own |-> [e \in {} |-> None],
          audits |-> {}, done |-> {}, write |-> None]

-----------------------------------------------------------------------------
(* AllExceptionsFilter: the status of an exception.                        *)

\* DOMAIN_ERROR_STATUS; the other domain errors are refusals, 422.
DomainStatus ==
  [DuplicateInvoiceError |-> 409, PurchaseNotFoundError |-> 404,
   InvoiceSourceUnavailableError |-> 503, InvoiceStructureChangedError |-> 502,
   InvalidCredentialsError |-> 401, InvalidRefreshTokenError |-> 401,
   EmailAlreadyInUseError |-> 409, UserNotFoundError |-> 404,
   ImageUploadFailedError |-> 503, RateLimitExceededError |-> 429]

\* describe.  "Error" stands for whatever is neither the domain's nor HTTP's.
StatusOf(error) ==
  IF error \in DOMAIN DomainStatus THEN DomainStatus[error]
  ELSE IF error = "Error" THEN 500 ELSE 422

ServerError(error) == StatusOf(error) >= 500

-----------------------------------------------------------------------------
(* A write and its audit row.                                              *)

\* The response is out: only a mutating request has a RequestLog row to write.
Closing(r) == IF r \in Mutating THEN "answered" ELSE "over"

\* What a statement of r sees of a row.
Seen(r, e) == IF e \in DOMAIN request[r].own THEN request[r].own[e] ELSE row[e]

\* Mutant of Before: the read goes to the base client, outside the transaction.
BeforeFromOutside(r, e) == row[e]

\* The extension's read before a write, through txContext's client.
Before(r, e) == Seen(r, e)

HeldByAnother(r, e) == \E s \in Requests \ {r} : e \in DOMAIN request[s].own

\* What a write that reached the row, or did not, leaves of it, and when the
\* database refuses it.
Left(op, value, current, reached) ==
  IF ~ reached THEN current
  ELSE IF op \in {"create", "upsert"} \/ (op = "updateMany" /\ current # None) THEN value
  ELSE None

\* updateMany asks its where again of a row that is no longer what was read.
MayMiss(op, before, current) == op = "updateMany" /\ before # current

Refused(op, current) ==
  \/ op = "create" /\ current # None
  \/ op = "delete" /\ current = None

\* The row the extension adds, if any, for what it read before and after.
AuditOf(op, before, after) ==
  IF op = "create" \/ (op = "upsert" /\ before = None)
  THEN {[operation |-> "CREATE", old |-> None, new |-> after]}
  ELSE IF before = None \/ before = after THEN {}
  ELSE {[operation |-> IF op \in {"delete", "deleteMany"} THEN "DELETE" ELSE "UPDATE",
         old |-> before, new |-> after]}

\* Other requests between their read of one of these rows and their write.
Overtaking(r, es, requests) ==
  [s \in Requests |-> IF s # r /\ requests[s].at = "read" /\ requests[s].write.row \in es
                      THEN [requests[s] EXCEPT !.write.overtaken = TRUE] ELSE requests[s]]

alerts == <<lastAlertAt, suppressedSince, sending, told, unsent>>

RecordsInit ==
  /\ now = 0 /\ writes = 0 /\ crashes = 0
  /\ row \in [AuditedRows -> Values \cup {None}]
  /\ request = [r \in Requests |-> Fresh]
  /\ auditLog = {} /\ requestLog = {} /\ changes = {}
  /\ lastAlertAt = [t \in Errors |-> {}]
  /\ suppressedSince = [t \in Errors |-> 0]
  /\ sending = {}
  /\ told = [t \in Errors |-> 0] /\ unsent = [t \in Errors |-> 0]

\* PrismaUnitOfWork.runInTransaction opens its scope.
Begin(r) ==
  /\ r \in Mutating
  /\ request[r].at = "running" /\ ~ request[r].inTx
  /\ request' = [request EXCEPT ![r].inTx = TRUE]
  /\ UNCHANGED <<now, row, auditLog, requestLog, alerts, changes, writes, crashes>>

\* $allOperations, its read before the write, which create and createMany do
\* without: their audit row does not tell it.
ReadBefore(r, e) ==
  /\ r \in Mutating
  /\ request[r].at = "running" /\ writes < MaxWrites
  /\ writes' = writes + 1
  /\ request' = [request EXCEPT ![r].at = "read",
       ![r].write = [row |-> e, before |-> Before(r, e), overtaken |-> FALSE]]
  /\ UNCHANGED <<now, row, auditLog, requestLog, alerts, changes, crashes>>

\* The write itself: kept to the transaction, or committed at once.  Only
\* transactions call updateMany.
Write(r, op, value, reached) ==
  LET e == request[r].write.row
      current == Seen(r, e)
      left == Left(op, value, current, reached)
      change == [by |-> r, row |-> e, old |-> current, new |-> left, at |-> now,
                 overtaken |-> request[r].write.overtaken /\ op # "create", inTx |-> request[r].inTx]
      written == [request EXCEPT ![r].at = "written",
                    ![r].write = [row |-> e, op |-> op, before |-> @.before, after |-> left]]
  IN /\ op = "updateMany" => request[r].inTx
     /\ reached \/ MayMiss(op, request[r].write.before, current)
     /\ ~ HeldByAnother(r, e) /\ ~ Refused(op, current)
     /\ IF request[r].inTx
        THEN /\ request' = [written EXCEPT
                  ![r].done = @ \cup {change},
                  ![r].own = [f \in DOMAIN @ \cup {e} |-> IF f = e THEN left ELSE @[f]]]
             /\ UNCHANGED <<row, changes>>
        ELSE /\ row' = [row EXCEPT ![e] = left]
             /\ changes' = changes \cup {change}
             /\ request' = Overtaking(r, {e}, written)
     /\ UNCHANGED <<now, auditLog, requestLog, alerts, writes, crashes>>

\* writeAuditRow and maybeWriteUpdateRow.
WriteAudit(r) ==
  LET w == request[r].write
      added == {[transaction |-> r, row |-> w.row, old |-> a.old, new |-> a.new, at |-> now,
                 operation |-> a.operation] : a \in AuditOf(w.op, w.before, w.after)}
      going == [request EXCEPT ![r].at = "running", ![r].write = None]
  IN /\ request[r].at = "written"
     /\ IF request[r].inTx
        THEN request' = [going EXCEPT ![r].audits = @ \cup added] /\ UNCHANGED auditLog
        ELSE request' = going /\ auditLog' = auditLog \cup added
     /\ UNCHANGED <<now, row, requestLog, alerts, changes, writes, crashes>>

Commit(r) ==
  LET own == request[r].own
  IN /\ request[r].at = "running" /\ request[r].inTx
     /\ row' = [e \in AuditedRows |-> Seen(r, e)]
     /\ changes' = changes \cup request[r].done
     /\ auditLog' = auditLog \cup request[r].audits
     /\ request' = Overtaking(r, DOMAIN own,
                     [request EXCEPT ![r] = Fresh])
     /\ UNCHANGED <<now, requestLog, alerts, writes, crashes>>

-----------------------------------------------------------------------------
(* The answer, the alert and the RequestLog row.                           *)

Answer(r) ==
  /\ request[r].at = "running" /\ ~ request[r].inTx
  /\ request' = [request EXCEPT ![r] = [Fresh EXCEPT !.at = Closing(r)]]
  /\ UNCHANGED <<now, row, auditLog, requestLog, alerts, changes, writes, crashes>>

Throttled(t) == \E at \in lastAlertAt[t] : now - at < Throttle

\* Mutant of Alerted: the count goes once the alert has been written.
AlertedKeepingCount(r, t) ==
  /\ ServerError(t) /\ ~ Throttled(t)
  /\ lastAlertAt' = [lastAlertAt EXCEPT ![t] = {now}]
  /\ sending' = sending \cup {[by |-> r, error |-> t, further |-> suppressedSince[t]]}
  /\ UNCHANGED <<suppressedSince, told, unsent>>

\* notifyServerError, up to the await: the window opens and the count of what
\* was not alerted on leaves with the alert.
Alerted(r, t) ==
  /\ ServerError(t) /\ ~ Throttled(t)
  /\ lastAlertAt' = [lastAlertAt EXCEPT ![t] = {now}]
  /\ sending' = sending \cup {[by |-> r, error |-> t, further |-> suppressedSince[t]]}
  /\ suppressedSince' = [suppressedSince EXCEPT ![t] = 0]
  /\ UNCHANGED <<told, unsent>>

Suppressed(t) ==
  /\ ServerError(t) /\ Throttled(t)
  /\ suppressedSince' = [suppressedSince EXCEPT ![t] = @ + 1]
  /\ UNCHANGED <<lastAlertAt, sending, told, unsent>>

\* AllExceptionsFilter.catch, on whatever failed: a statement, an audit row or
\* the handler.  An open transaction has been rolled back.
Fail(r, t) ==
  /\ request[r].at \in {"running", "read", "written"}
  /\ request' = [request EXCEPT ![r] = [Fresh EXCEPT !.at = Closing(r), !.error = t]]
  /\ \/ ~ ServerError(t) /\ UNCHANGED alerts
     \/ Suppressed(t)
     \/ Alerted(r, t)
  /\ UNCHANGED <<now, row, auditLog, requestLog, changes, writes, crashes>>

\* writeRequestLog, on the response's finish event.
WriteRequestLog(r) ==
  LET error == request[r].error
  IN /\ request[r].at = "answered"
     /\ requestLog' = requestLog \cup
          {[transaction |-> r, error |-> error, at |-> now,
            statusCode |-> IF error = NoError THEN 200 ELSE StatusOf(error)]}
     /\ request' = [request EXCEPT ![r].at = "over"]
     /\ UNCHANGED <<now, row, auditLog, alerts, changes, writes, crashes>>

\* It could not be written: that is logged, and nothing else.
LoseRequestLog(r) ==
  /\ request[r].at = "answered"
  /\ request' = [request EXCEPT ![r].at = "over"]
  /\ UNCHANGED <<now, row, auditLog, requestLog, alerts, changes, writes, crashes>>

Sent(s) ==
  /\ sending' = sending \ {s}
  /\ told' = [told EXCEPT ![s.error] = @ + 1 + s.further]
  /\ UNCHANGED <<now, row, request, auditLog, requestLog, lastAlertAt, suppressedSince,
                 unsent, changes, writes, crashes>>

\* The channel refused it, and notifyServerError swallows that.
NotSent(s) ==
  /\ sending' = sending \ {s}
  /\ unsent' = [unsent EXCEPT ![s.error] = @ + 1 + s.further]
  /\ UNCHANGED <<now, row, request, auditLog, requestLog, lastAlertAt, suppressedSince,
                 told, changes, writes, crashes>>

-----------------------------------------------------------------------------
(* Retention, the clock, a restart.                                        *)

\* AuditRetentionService.pruneOlderThan.  Either deletion may fail alone.
Prune(auditPruned, requestPruned) ==
  /\ auditLog' = IF auditPruned THEN {a \in auditLog : now <= a.at + AuditDays} ELSE auditLog
  /\ requestLog' = IF requestPruned THEN {l \in requestLog : now <= l.at + RequestDays}
                   ELSE requestLog
  /\ UNCHANGED <<now, row, request, alerts, changes, writes, crashes>>

\* Has r not arrived yet, or had its answer and its RequestLog row?
Absent(r) ==
  \/ request[r].at \in {"over", "cut"}
  \/ request[r] = Fresh /\ ~ \E c \in changes : c.by = r

\* A window is of minutes, a day longer; a request takes seconds.
Tick ==
  /\ now < MaxNow
  /\ \A r \in Requests : Absent(r)
  /\ now' = now + 1
  /\ UNCHANGED <<row, request, auditLog, requestLog, alerts, changes, writes, crashes>>

\* The occurrences of t in the alerts under way, and how many they are.
Carried(t) == UNION {{s} \X (0..s.further) : s \in {s \in sending : s.error = t}}

InFlight(t) == Cardinality(Carried(t))

\* The process restarts: its transactions roll back, its memory is empty.
Crash ==
  /\ crashes < MaxCrashes
  /\ crashes' = crashes + 1
  /\ request' = [r \in Requests |->
       [Fresh EXCEPT !.at = IF request[r].at \in {"answered", "over"} THEN "over" ELSE "cut",
                     !.error = request[r].error]]
  /\ unsent' = [t \in Errors |-> unsent[t] + suppressedSince[t] + InFlight(t)]
  /\ lastAlertAt' = [t \in Errors |-> {}]
  /\ suppressedSince' = [t \in Errors |-> 0]
  /\ sending' = {}
  /\ UNCHANGED <<now, row, auditLog, requestLog, told, changes, writes>>


RecordsNext ==
  \/ \E r \in Requests :
       \/ Begin(r) \/ WriteAudit(r) \/ Commit(r)
       \/ Answer(r) \/ WriteRequestLog(r) \/ LoseRequestLog(r)
       \/ \E e \in AuditedRows : ReadBefore(r, e)
       \/ /\ request[r].at = "read"
          /\ \/ \E op \in {"create", "upsert", "updateMany"}, value \in Values, reached \in BOOLEAN :
                  Write(r, op, value, reached)
             \/ \E op \in {"delete", "deleteMany"} : Write(r, op, None, TRUE)
       \/ \E t \in Errors : Fail(r, t)
  \/ \E s \in sending : Sent(s) \/ NotSent(s)
  \/ \E audit, log \in BOOLEAN : Prune(audit, log)
  \/ Tick \/ Crash

RecordsSpec == RecordsInit /\ [][RecordsNext]_recordsVars

-----------------------------------------------------------------------------
(* PrismaAuditTrailReader.investigate, by the transactionId.               *)
Investigation(r) ==
  IF \E l \in requestLog : l.transaction = r THEN {a \in auditLog : a.transaction = r} ELSE {}

Expired(c) == now > c.at + AuditDays

Tells(a, c) == a.transaction = c.by /\ a.row = c.row /\ a.new = c.new /\ a.old = c.old

Succeeded(r) == request[r].error = NoError /\ request[r].at \in {"answered", "over"}

(***************************************************************************)
(* The audit trail is true.  A change that took effect in a transaction,   *)
(* or in a request answered as a success, is traced with the values it     *)
(* replaced and left until its row expires, and investigating the request  *)
(* shows it while its RequestLog row stands; and every audit row is of a   *)
(* write that took effect.  The one exception is a row another request     *)
(* committed to between the read before and the write.                     *)
(***************************************************************************)
TrailIsTrue ==
  /\ \A c \in {c \in changes : c.old # c.new /\ (c.inTx \/ Succeeded(c.by))} :
       \/ c.overtaken \/ Expired(c)
       \/ /\ \E a \in auditLog : Tells(a, c)
          /\ (\E l \in requestLog : l.transaction = c.by)
               => \E a \in Investigation(c.by) : Tells(a, c)
  /\ \A a \in auditLog : \E c \in changes :
       Tells(a, c) \/ (c.overtaken /\ a.transaction = c.by /\ a.row = c.row /\ a.new = c.new)

(***************************************************************************)
(* Every server error is accounted for, by its name: told of in an alert   *)
(* that arrived, as its subject or in its count; in one under way; kept    *)
(* for the next; or in an alert the channel refused or a restart lost.     *)
(***************************************************************************)
ErrorsAreAccountedFor ==
  \A t \in {t \in Errors : ServerError(t)} :
    Cardinality({r \in Requests : request[r].error = t})
      = told[t] + InFlight(t) + suppressedSince[t] + unsent[t]
=============================================================================
