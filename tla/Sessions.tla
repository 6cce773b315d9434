------------------------------- MODULE Sessions --------------------------------
(***************************************************************************)
(* Accounts, refresh tokens and password-reset links: AuthenticationService,*)
(* PasswordService and UsersService, statement by statement, served         *)
(* concurrently over one database at READ COMMITTED.                        *)
(*                                                                          *)
(* A call is a list of statements (Program).  A statement reads committed   *)
(* rows and the call's own writes; a write locks its row and waits for a    *)
(* holder; Commit publishes the writes; Fail forgets them.  An insert keeps *)
(* the user row it refers to as it is (FOR KEY SHARE, by its foreign key),  *)
(* and waits for a users.save of it.  updateMany finds its rows when it     *)
(* starts, locks them one by one in the order they are stored, and writes   *)
(* those that still satisfy its condition: Find, Lock and Close here.       *)
(*                                                                          *)
(* Each row keeps what the properties speak of: the login a token descends  *)
(* from (chain), the password it was opened under (secret), and what went  *)
(* on while its call ran (during).                                          *)
(***************************************************************************)
EXTENDS Naturals, FiniteSets, Sequences

CONSTANTS
  Requests,      \* call slots
  Spellings,     \* e-mail addresses as typed
  FirstEmail,    \* the one of the account the installation starts with
  AddressOf,     \* the address a spelling stands for, case aside
  MaxAccounts, MaxTokens, MaxLinks,  \* bounds: rows ever inserted
  MaxSecrets,                        \* bound: passwords ever chosen
  RefreshTtl, ResetTtl, Cooldown,  \* lifetimes, in ticks of the clock
  MaxNow,                          \* bound of the clock
  MaxCalls                         \* bound: calls ever made

ASSUME SessionsAssumption ==
  /\ IsFiniteSet(Requests)
  /\ Spellings \subseteq DOMAIN AddressOf /\ FirstEmail \in Spellings
  /\ {MaxTokens, MaxLinks, MaxNow, MaxCalls} \subseteq Nat
  /\ {MaxAccounts, MaxSecrets} \subseteq Nat \ {0}
  /\ {RefreshTtl, ResetTtl, Cooldown} \subseteq Nat \ {0}

VARIABLES
  now,
  account,    \* User rows
  session,    \* RefreshToken rows, by id in order of insertion
  link,       \* PasswordResetToken rows, likewise
  mailed,     \* links whose e-mail went out
  call,       \* the call each slot serves
  todo,       \* the statements it has left
  seen,       \* what it read
  writes,     \* its uncommitted writes
  locked,     \* the rows its updateMany calls have locked
  overtaken,  \* history: chains a save moved on an outdated reading of a token
  ended,      \* history: chains a logout closed
  calls       \* calls made so far

database == <<account, session, link>>
history == <<overtaken, ended, calls>>
vars == <<now, database, mailed, call, todo, seen, writes, locked, history>>

Accounts == 1..MaxAccounts
Secrets == 1..MaxSecrets
Tokens == 1..MaxTokens
Links == 1..MaxLinks
None == [none |-> TRUE]   \* no row
NoToken == 0

\* What else went on while the call that inserted a row ran.
During == SUBSET {"change", "rival"}

Account == [email : Spellings, secret : Secrets, during : During]
Session == [user : Accounts, expires : Nat, revoked : BOOLEAN,
            chain : Tokens, secret : Secrets, during : During]
Link == [user : Accounts, created : Nat, used : BOOLEAN,
         secret : Secrets, during : During, sets : Nat]

Calls ==
  [op : {"login"}, email : Spellings, secret : Secrets]
    \cup [op : {"refresh", "logout"}, token : Tokens]
    \cup [op : {"changePassword"}, user : Accounts, secret : Secrets, new : Secrets,
          keep : Tokens \cup {NoToken}]
    \cup [op : {"requestReset"}, email : Spellings]
    \cup [op : {"resetPassword"}, link : Links, new : Secrets]
    \cup [op : {"register"}, email : Spellings, secret : Secrets]

NoCall == [op |-> "none"]
NothingSeen == [user |-> 0, row |-> None, during |-> {}, stale |-> FALSE, now |-> 0,
                doomed |-> {}, swept |-> {}]
NoWrites == [account |-> <<>>, session |-> <<>>, link |-> <<>>]

-----------------------------------------------------------------------------
(* Programs: what each handler executes, in order.                         *)

ClosingSessions == <<"findSessions", "closeSessions">>
ClosingLinks == <<"findLinks", "closeLinks">>

\* Mutant of Rotating: the token presented stays as it was.
RotatingUnspent == <<"readSession", "saveSession">>

Rotating == <<"readSession", "revokeRead", "saveSession">>

\* Mutant of Asking: the links sent before keep working.
AskingOnly == <<"readEmail", "readLatest", "saveLink">>

Asking == <<"readEmail", "readLatest">> \o ClosingLinks \o <<"saveLink">>

\* Mutant of Resetting: the user is saved last.
ResettingUserLast == <<"readLink">> \o ClosingLinks \o ClosingSessions \o <<"saveUser">>

\* Mutant of Resetting: the link is not marked.
ResettingOpen == <<"readLink", "saveUser">> \o ClosingSessions

Resetting == <<"readLink", "saveUser">> \o ClosingLinks \o ClosingSessions

Program(op) ==
  CASE op = "login" -> <<"readEmail", "saveSession">>
    [] op = "refresh" -> Rotating
    [] op = "logout" -> <<"readSession", "revokeRead">>
    [] op = "changePassword" -> <<"readUser", "saveUser">> \o ClosingSessions \o ClosingLinks
    [] op = "requestReset" -> Asking
    [] op = "resetPassword" -> Resetting
    [] op = "register" -> <<"readEmail", "insertUser">>

Statement(r) == IF todo[r] = <<>> THEN "commit" ELSE Head(todo[r])
Busy(r) == call[r] # NoCall

\* The handlers that insert a token or a link, and those that change a password.
Issues(op, kind) ==
  op \in (IF kind = "sessions" THEN {"login", "refresh"} ELSE {"requestReset"})
Changes(op) == op \in {"changePassword", "resetPassword"}

-----------------------------------------------------------------------------
(* Rows, locks and waits.                                                  *)

\* The committed rows as a transaction that wrote some of them sees them.
Over(own, committed) ==
  [x \in DOMAIN committed |-> IF x \in DOMAIN own THEN own[x] ELSE committed[x]]
Put(own, x, row) == [y \in DOMAIN own \cup {x} |-> IF y = x THEN row ELSE own[y]]

Rows(table) == {x \in DOMAIN table : table[x] # None}

\* The first id nobody has drawn: ids are random, and nothing depends on their order.
Drawn(table, own(_)) == Rows(table) \cup UNION {DOMAIN own(o) : o \in Requests}
AccountsOf(o) == writes[o].account
SessionsOf(o) == writes[o].session
LinksOf(o) == writes[o].link
NextId(ids, drawn) == CHOOSE i \in ids \ drawn : \A j \in ids \ drawn : i <= j

\* The rows it has to itself: those it wrote, and those updateMany locked, even
\* if it then left them as they were.
Holds(r) ==
  ({"user"} \X DOMAIN writes[r].account) \cup ({"session"} \X DOMAIN writes[r].session)
    \cup ({"link"} \X DOMAIN writes[r].link) \cup locked[r]
    \cup ({"email"} \X (IF call[r].op = "register" /\ DOMAIN writes[r].account # {}
                        THEN {call[r].email} ELSE {}))

\* The user rows that what it inserted refers to.
Refers(r) ==
  {writes[r].session[t].user : t \in DOMAIN writes[r].session \ Rows(session)}
    \cup {writes[r].link[l].user : l \in DOMAIN writes[r].link \ Rows(link)}

\* The next row of an updateMany.
NextOf(r, table) ==
  LET left == {x \in seen[r].doomed : <<table, x>> \notin locked[r]} IN
  {<<table, x>> : x \in {y \in left : \A z \in left : y <= z}}

Wants(r) ==
  CASE Statement(r) = "saveUser" -> {<<"user", seen[r].user>>}
    [] Statement(r) = "insertUser" -> {<<"email", call[r].email>>}
    [] Statement(r) = "revokeRead" -> {<<"session", call[r].token>>}
    [] Statement(r) = "closeSessions" -> NextOf(r, "session")
    [] Statement(r) = "closeLinks" -> NextOf(r, "link")
    [] OTHER -> {}

\* An insert waits for a users.save of the row it refers to (an upsert that sets
\* the id, so it locks the row against references too), and the other way round.
WaitsForUser(r, o) ==
  \/ Statement(r) \in {"saveSession", "saveLink"} /\ seen[r].user \in DOMAIN writes[o].account
  \/ Statement(r) = "saveUser" /\ seen[r].user \in Refers(o)

WaitsFor(r, o) == o # r /\ (Wants(r) \cap Holds(o) # {} \/ WaitsForUser(r, o))

\* A slot at statement `at` that waits for no row.
At(r, at) == Busy(r) /\ Statement(r) = at /\ \A o \in Requests : ~ WaitsFor(r, o)

Advance(r) == todo' = [todo EXCEPT ![r] = Tail(@)]

\* The handler returns or throws.
End(r) ==
  /\ call' = [call EXCEPT ![r] = NoCall]
  /\ todo' = [todo EXCEPT ![r] = <<>>]
  /\ seen' = [seen EXCEPT ![r] = NothingSeen]
  /\ writes' = [writes EXCEPT ![r] = NoWrites]
  /\ locked' = [locked EXCEPT ![r] = {}]

Abort(r) == End(r) /\ UNCHANGED <<now, database, mailed, history>>

Reads(r, what) ==
  /\ seen' = [seen EXCEPT ![r] = what]
  /\ Advance(r)
  /\ UNCHANGED <<now, database, mailed, call, writes, locked, history>>

Writes(r, what) ==
  /\ writes' = [writes EXCEPT ![r] = what]
  /\ Advance(r)
  /\ UNCHANGED <<now, database, mailed, call, seen, locked, history>>

\* Has a change of u's password under way already looked for what to close?
Sweeping(u, kind) ==
  \E o \in Requests : seen[o].user = u /\ Changes(call[o].op) /\ kind \in seen[o].swept
Amid(u, kind) == IF Sweeping(u, kind) THEN {"change"} ELSE {}

Beside(rivals) == IF rivals = {} THEN {} ELSE {"rival"}

-----------------------------------------------------------------------------
(* Starting.                                                               *)

ChosenBy(o) ==
  IF Changes(call[o].op) THEN {call[o].new}
  ELSE IF call[o].op = "register" THEN {call[o].secret} ELSE {}

\* The passwords in use somewhere.
Chosen ==
  {account[u].secret : u \in Rows(account)} \cup {session[t].secret : t \in Rows(session)}
    \cup {link[l].secret : l \in Rows(link)} \cup UNION {ChosenBy(o) : o \in Requests}

NewSecrets == IF Chosen = Secrets THEN {} ELSE {NextId(Secrets, Chosen)}

\* Bounds: ids left for every call that inserts.
RoomFor(op) ==
  LET issuing(kind) == {o \in Requests : Issues(call[o].op, kind)} IN
  /\ Issues(op, "sessions") =>
       Cardinality(Rows(session)) + Cardinality(issuing("sessions")) < MaxTokens
  /\ Issues(op, "links") =>
       Cardinality(Rows(link)) + Cardinality(issuing("links")) < MaxLinks
  /\ op = "register" =>
       Cardinality(Rows(account)) + Cardinality({o \in Requests : call[o].op = "register"})
         < MaxAccounts

\* What clients may present: tokens and links they were given; a password that
\* replaces another is new (a salted hash never repeats).
Presentable ==
  [op : {"login"}, email : Spellings, secret : Chosen]
    \cup [op : {"refresh", "logout"}, token : Rows(session)]
    \cup [op : {"changePassword"}, user : Rows(account), secret : Chosen,
          keep : Rows(session) \cup {NoToken}, new : NewSecrets]
    \cup [op : {"requestReset"}, email : Spellings]
    \cup [op : {"resetPassword"}, link : mailed, new : NewSecrets]
    \cup [op : {"register"}, email : Spellings, secret : NewSecrets]

Start(r) ==
  /\ ~ Busy(r) /\ calls < MaxCalls
  /\ \E c \in Presentable :
       /\ RoomFor(c.op)
       /\ call' = [call EXCEPT ![r] = c]
       /\ todo' = [todo EXCEPT ![r] = Program(c.op)]
  /\ calls' = calls + 1
  /\ UNCHANGED <<now, database, mailed, seen, writes, locked, overtaken, ended>>

-----------------------------------------------------------------------------
(* Accounts.                                                               *)

\* Mutant of Owners: the address is looked up as it was typed.
OwnersAsTyped(e) == {u \in Rows(account) : account[u].email = e}

\* findByEmail forgives the case.
Owners(e) == {u \in Rows(account) : AddressOf[account[u].email] = AddressOf[e]}

\* Registrations of the same address that have looked it up.
Registering(r) ==
  {o \in Requests \ {r} : /\ call[o].op = "register" /\ Statement(o) # "readEmail"
                           /\ AddressOf[call[o].email] = AddressOf[call[r].email]}

\* findByEmail and what each handler makes of it: login
\* verifies the password, requestReset needs an account, register none.  Of
\* two accounts of one address, findFirst returns either.
ReadEmail(r) ==
  LET c == call[r] IN
  /\ At(r, "readEmail")
  /\ \/ Owners(c.email) = {} /\ c.op # "register" /\ Abort(r)
     \/ Owners(c.email) # {} /\ c.op = "register" /\ Abort(r)
     \/ /\ Owners(c.email) = {} /\ c.op = "register"
        /\ seen' = [o \in Requests |->
             IF o = r THEN [seen[r] EXCEPT !.during = Beside(Registering(r))]
             ELSE IF o \in Registering(r) THEN [seen[o] EXCEPT !.during = @ \cup {"rival"}]
             ELSE seen[o]]
        /\ Advance(r)
        /\ UNCHANGED <<now, database, mailed, call, writes, locked, history>>
     \/ /\ c.op # "register"
        /\ \E u \in Owners(c.email) :
             IF c.op = "login" /\ account[u].secret # c.secret THEN Abort(r)
             ELSE Reads(r, [seen[r] EXCEPT !.user = u, !.row = account[u],
                      !.during = Amid(u, IF c.op = "login" THEN "sessions" ELSE "links")])

\* changePassword: findById, then the current password is verified.
ReadUser(r) ==
  LET c == call[r] IN
  /\ At(r, "readUser")
  /\ IF account[c.user].secret # c.secret THEN Abort(r)
     ELSE Reads(r, [seen[r] EXCEPT !.user = c.user, !.row = account[c.user]])

\* The whole user row, with the new hash; the lock lasts until the commit.
SaveUser(r) ==
  LET row == [seen[r].row EXCEPT !.secret = call[r].new] IN
  /\ At(r, "saveUser")
  /\ Writes(r, [writes[r] EXCEPT !.account = Put(@, seen[r].user, row)])

\* A uuid is drawn; the unique column refuses the same spelling, committed.
InsertUser(r) ==
  LET c == call[r]
      taken == \E u \in Rows(account) : account[u].email = c.email
  IN
  /\ At(r, "insertUser")
  /\ \/ taken /\ Abort(r)
     \/ /\ ~ taken
        /\ LET u == NextId(Accounts, Drawn(account, AccountsOf)) IN
             Writes(r, [writes[r] EXCEPT
                             !.account = Put(@, u, [email |-> c.email, secret |-> c.secret,
                                                    during |-> {}])])

-----------------------------------------------------------------------------
(* Sessions.                                                               *)

Active(row) == ~ row.revoked /\ row.expires > now

\* findByTokenHash and isActive, in refresh and in logout.
ReadSession(r) ==
  LET row == session[call[r].token] IN
  /\ At(r, "readSession")
  /\ IF ~ Active(row) THEN Abort(r)
     ELSE Reads(r, [seen[r] EXCEPT !.user = row.user, !.row = row,
                                   !.during = row.during \cup Amid(row.user, "sessions")])

\* save(existing.revoke(now)): the row read, revoked, over whatever is there.
RevokeRead(r) ==
  LET t == call[r].token IN
  /\ At(r, "revokeRead")
  /\ writes' = [writes EXCEPT ![r].session = Put(@, t, [seen[r].row EXCEPT !.revoked = TRUE])]
  /\ seen' = [seen EXCEPT ![r].stale = session[t].revoked]
  /\ Advance(r)
  /\ UNCHANGED <<now, database, mailed, call, locked, history>>

\* issueSession.
SaveSession(r) ==
  LET id == NextId(Tokens, Drawn(session, SessionsOf))
      row == [user |-> seen[r].user, expires |-> now + RefreshTtl, revoked |-> FALSE,
              chain |-> IF call[r].op = "refresh" THEN seen[r].row.chain ELSE id,
              secret |-> seen[r].row.secret, during |-> {}]
  IN
  /\ At(r, "saveSession")
  /\ Writes(r, [writes[r] EXCEPT !.session = Put(@, id, row)])

\* A change of password, about to close: whoever is issuing meanwhile is late.
Sweep(r, kind, doomed) ==
  LET late == {o \in Requests : seen[o].user = seen[r].user /\ Issues(call[o].op, kind)} IN
  /\ seen' = [o \in Requests |->
               IF o = r THEN [seen[r] EXCEPT !.doomed = doomed, !.swept = @ \cup {kind}]
               ELSE IF o \in late /\ Changes(call[r].op) THEN [seen[o] EXCEPT !.during = @ \cup {"change"}]
               ELSE seen[o]]
  /\ Advance(r)
  /\ UNCHANGED <<now, database, mailed, call, writes, locked, history>>

\* Mutant of SessionsToClose: a change closes its own session, not the others.
SessionsToCloseOwn(r) ==
  {t \in Rows(session) : session[t].user = seen[r].user /\ ~ session[t].revoked
     /\ (call[r].op = "changePassword" => t = call[r].keep)}

\* revokeActiveByUserId: the tokens not revoked, but the one to keep.
SessionsToClose(r) ==
  {t \in Rows(session) : session[t].user = seen[r].user /\ ~ session[t].revoked
     /\ ~ (call[r].op = "changePassword" /\ t = call[r].keep)}

FindSessions(r) == At(r, "findSessions") /\ Sweep(r, "sessions", SessionsToClose(r))

\* updateMany comes to its next row, and looks at it again once it has it.
LockNext(r) ==
  /\ At(r, "closeSessions") \/ At(r, "closeLinks")
  /\ Wants(r) # {}
  /\ locked' = [locked EXCEPT ![r] = @ \cup Wants(r)]
  /\ UNCHANGED <<now, database, mailed, call, todo, seen, writes, history>>

CloseSessions(r) ==
  LET closed == {t \in seen[r].doomed : ~ session[t].revoked} IN
  /\ At(r, "closeSessions") /\ Wants(r) = {}
  /\ Writes(r, [writes[r] EXCEPT !.session =
       [t \in DOMAIN @ \cup closed |->
          IF t \in closed THEN [session[t] EXCEPT !.revoked = TRUE] ELSE @[t]]])

-----------------------------------------------------------------------------
(* Reset links.                                                            *)

Usable(row) == ~ row.used /\ row.created + ResetTtl > now

LinksTo(u) == {l \in Rows(link) : link[l].user = u}

\* Requests for a link to the same account that have looked at the last one.
Rivals(r) ==
  {o \in Requests \ {r} : call[o].op = "requestReset" /\ seen[o].user = seen[r].user
                             /\ Statement(o) \notin {"readEmail", "readLatest"}}

\* Mutant of CoolingDown: the gap is not looked at.
CoolingDownNever(u) == FALSE

CoolingDown(u) == \E l \in LinksTo(u) : now - link[l].created < Cooldown

\* findLatestByUserId: a link younger than the cooldown ends the call.
ReadLatest(r) ==
  /\ At(r, "readLatest")
  /\ \/ CoolingDown(seen[r].user) /\ Abort(r)
     \/ /\ ~ CoolingDown(seen[r].user)
        /\ seen' = [o \in Requests |->
             IF o = r THEN [seen[r] EXCEPT !.now = now, !.during = @ \cup Beside(Rivals(r))]
             ELSE IF o \in Rivals(r) THEN [seen[o] EXCEPT !.during = @ \cup {"rival"}]
             ELSE seen[o]]
        /\ Advance(r)
        /\ UNCHANGED <<now, database, mailed, call, writes, locked, history>>

\* markAllUsedByUserId.
FindLinks(r) ==
  /\ At(r, "findLinks")
  /\ Sweep(r, "links", {l \in LinksTo(seen[r].user) : ~ link[l].used})

CloseLinks(r) ==
  LET closed == {l \in seen[r].doomed : ~ link[l].used} IN
  /\ At(r, "closeLinks") /\ Wants(r) = {}
  /\ Writes(r, [writes[r] EXCEPT !.link =
       [l \in DOMAIN @ \cup closed |->
          IF l \in closed THEN [link[l] EXCEPT !.used = TRUE] ELSE @[l]]])

NewLink(r) ==
  [user |-> seen[r].user, created |-> seen[r].now, used |-> FALSE,
   secret |-> seen[r].row.secret, during |-> {}, sets |-> 0]

SaveLink(r) ==
  /\ At(r, "saveLink")
  /\ Writes(r, [writes[r] EXCEPT
                  !.link = Put(@, NextId(Links, Drawn(link, LinksOf)), NewLink(r))])

\* findByTokenHash and isUsable, then findById.
ReadLink(r) ==
  LET row == link[call[r].link] IN
  /\ At(r, "readLink")
  /\ IF ~ Usable(row) THEN Abort(r)
     ELSE Reads(r, [seen[r] EXCEPT !.user = row.user, !.row = account[row.user]])

-----------------------------------------------------------------------------
(* The end of a call.                                                      *)

\* The rows it inserts, with what went on meanwhile.
Noted(r, own, table) ==
  [x \in DOMAIN own |->
     IF table[x] = None THEN [own[x] EXCEPT !.during = seen[r].during] ELSE own[x]]

\* The session a change of password came from answers for the new password.
Vouched(r, rows) ==
  IF call[r].op # "changePassword" \/ call[r].keep = NoToken THEN rows
  ELSE IF rows[call[r].keep].user # call[r].user THEN rows
  ELSE [rows EXCEPT ![call[r].keep].secret = call[r].new]

\* One more password set through the link, raced if it was spent meanwhile.
Counted(r, rows) ==
  IF call[r].op # "resetPassword" THEN rows
  ELSE [rows EXCEPT ![call[r].link].sets = @ + 1,
                    ![call[r].link].during =
                      @ \cup (IF link[call[r].link].used THEN {"rival"} ELSE {})]

\* requestReset sends the link once committed, not awaited: it may not arrive.
Commit(r) ==
  /\ Busy(r) /\ Statement(r) = "commit"
  /\ account' = Over(Noted(r, writes[r].account, account), account)
  /\ session' = Vouched(r, Over(Noted(r, writes[r].session, session), session))
  /\ link' = Counted(r, Over(Noted(r, writes[r].link, link), link))
  /\ mailed' \in {mailed, mailed \cup (DOMAIN writes[r].link \ Rows(link))}
  /\ overtaken' = IF seen[r].stale THEN overtaken \cup {seen[r].row.chain} ELSE overtaken
  /\ ended' = IF call[r].op = "logout" THEN ended \cup {seen[r].row.chain} ELSE ended
  /\ End(r)
  /\ UNCHANGED <<now, calls>>

\* A statement fails, the process stops before the commit, or PostgreSQL picks the
\* call to break a circle of waits.
Fail(r) == Busy(r) /\ Abort(r)

Tick ==
  /\ now < MaxNow
  /\ now' = now + 1
  /\ UNCHANGED <<database, mailed, call, todo, seen, writes, locked, history>>

-----------------------------------------------------------------------------

\* The first account is created outside the API.
Init ==
  /\ now = 0
  /\ account = [u \in Accounts |->
                   IF u = 1 THEN [email |-> FirstEmail, secret |-> 1, during |-> {}] ELSE None]
  /\ session = [t \in Tokens |-> None]
  /\ link = [l \in Links |-> None]
  /\ mailed = {}
  /\ call = [r \in Requests |-> NoCall]
  /\ todo = [r \in Requests |-> <<>>]
  /\ seen = [r \in Requests |-> NothingSeen]
  /\ writes = [r \in Requests |-> NoWrites]
  /\ locked = [r \in Requests |-> {}]
  /\ overtaken = {} /\ ended = {} /\ calls = 0

Execute(r) ==
  \/ ReadEmail(r) \/ ReadUser(r) \/ SaveUser(r) \/ InsertUser(r)
  \/ ReadSession(r) \/ RevokeRead(r) \/ SaveSession(r) \/ FindSessions(r) \/ LockNext(r)
  \/ CloseSessions(r) \/ ReadLatest(r) \/ FindLinks(r) \/ CloseLinks(r) \/ SaveLink(r) \/ ReadLink(r)
  \/ Commit(r)

Next ==
  \/ Tick
  \/ \E r \in Requests : Start(r) \/ Execute(r) \/ Fail(r)

Spec == Init /\ [][Next]_vars

-----------------------------------------------------------------------------
(* Properties.                                                             *)

TypeOK ==
  /\ now \in 0..MaxNow /\ calls \in 0..MaxCalls
  /\ account \in [Accounts -> Account \cup {None}]
  /\ session \in [Tokens -> Session \cup {None}]
  /\ link \in [Links -> Link \cup {None}]
  /\ mailed \subseteq Rows(link)
  /\ call \in [Requests -> Calls \cup {NoCall}]
  /\ overtaken \subseteq Tokens /\ ended \subseteq Tokens

\* A login has one live token, however often it was rotated, and none once a
\* logout spent it; only a call that saved over a token spent since it was
\* read (AuthenticationService.refresh, logout) may break this.
OneLiveTokenPerLogin ==
  \A c \in Tokens \ overtaken :
    LET live == {t \in Rows(session) : session[t].chain = c /\ Active(session[t])} IN
    Cardinality(live) <= (IF c \in ended THEN 0 ELSE 1)

\* Whichever way a password changes, no session and no link from before it
\* works: the live ones were opened under the password the account has now,
\* but for those being issued while the change looked for what to close.
NothingOutlivesThePassword ==
  /\ \A t \in Rows(session) :
       Active(session[t]) =>
         "change" \in session[t].during \/ session[t].secret = account[session[t].user].secret
  /\ \A l \in Rows(link) :
       Usable(link[l]) => "change" \in link[l].during \/ link[l].secret = account[link[l].user].secret

\* "Only the newest link works", and links are a cooldown apart, unless two
\* requests for one were under way at once.
OnlyTheNewestLinkWorks ==
  \A l, k \in Rows(link) :
    l # k /\ link[l].user = link[k].user /\ "rival" \notin link[l].during \cap link[k].during =>
      /\ ~ (Usable(link[l]) /\ Usable(link[k]))
      /\ link[l].created + Cooldown <= link[k].created
           \/ link[k].created + Cooldown <= link[l].created

\* A link sets a password once, unless it was spent between the look at it and
\* the commit of another reset.
LinksWorkOnce == \A l \in Rows(link) : link[l].sets <= 1 \/ "rival" \in link[l].during

\* Calls may wait in a circle: a password change that has saved the user wants a
\* token or a link, and whoever rotated that token, or closed that link to send
\* another, waits to insert the next, which refers to the user.  There is no other
\* circle, though a change of password and a reset close sessions and links in
\* opposite orders, and several requests close the same links: the user row both
\* changes save first, and the order of the rows, keep them apart.
OnlyInsertsWaitInACircle ==
  \A group \in (SUBSET Requests) \ {{}} :
    (\A r \in group : \E o \in group : WaitsFor(r, o)) =>
      \E r, o \in group :
        /\ call[r].op \in {"refresh", "requestReset"} /\ Changes(call[o].op)
        /\ seen[r].user = seen[o].user /\ WaitsForUser(r, o)

\* Two accounts of one address were registered at once, under different
\* spellings: the look before the insert does not see the other's, and the
\* unique column compares what was typed.
OneAccountPerAddress ==
  \A u, v \in Rows(account) :
    u # v /\ AddressOf[account[u].email] = AddressOf[account[v].email] =>
      account[u].email # account[v].email /\ "rival" \in account[u].during \cap account[v].during

=============================================================================
