--------------------------- MODULE SessionsProofs ---------------------------
(***************************************************************************)
(* Proofs about Sessions, for any number of slots, accounts, tokens, links *)
(* and calls, and for any lifetimes.                                       *)
(***************************************************************************)
EXTENDS Sessions, FiniteSetTheorems, WellFoundedInduction, TLAPS

-----------------------------------------------------------------------------
(* Ids.                                                                    *)

LEMMA NoneIsNoRow == None \notin Account /\ None \notin Session /\ None \notin Link
BY DEF None, Account, Session, Link

LEMMA NoCallIsNoCall == NoCall \notin Calls /\ NoCall.op = "none"
BY DEF NoCall, Calls

LEMMA Constants ==
  /\ MaxTokens \in Nat /\ MaxLinks \in Nat /\ MaxNow \in Nat /\ MaxCalls \in Nat
  /\ MaxAccounts \in Nat \ {0} /\ MaxSecrets \in Nat \ {0}
  /\ RefreshTtl \in Nat /\ ResetTtl \in Nat /\ Cooldown \in Nat
  /\ Accounts \subseteq Nat \ {0} /\ Tokens \subseteq Nat \ {0} /\ Links \subseteq Nat \ {0}
  /\ Secrets \subseteq Nat
BY SessionsAssumption DEF Accounts, Tokens, Links, Secrets

\* The first id that is left is one that is left.
LEMMA NextIdIsLeft ==
  ASSUME NEW ids \in SUBSET Nat, NEW drawn, ids \ drawn # {}
  PROVE  NextId(ids, drawn) \in ids /\ NextId(ids, drawn) \notin drawn
<1> DEFINE left == ids \ drawn
           less == OpToRel(<, Nat)
<1>1. left \subseteq Nat /\ left # {}
  OBVIOUS
<1>2. IsWellFoundedOn(less, Nat)
  BY NatLessThanWellFounded
<1>3. \E i \in left : \A j \in left : ~ (<<j, i>> \in less)
  <2> HIDE DEF left, less
  <2> QED
    BY <1>1, <1>2, WFMin
<1>4. \E i \in left : \A j \in left : i <= j
  <2> HIDE DEF left
  <2>1. PICK i \in left : \A j \in left : ~ (<<j, i>> \in less)
    BY <1>3
  <2>2. \A j \in left : ~ (j < i)
    BY <1>1, <2>1 DEF OpToRel
  <2>3. \A j \in left : i <= j
    BY <1>1, <2>2
  <2> QED
    BY <2>3
<1> QED
  BY <1>4 DEF NextId

\* An id is left for a slot r that is one of the slots I that may insert, when
\* the rows R there are and those slots are together no more than the ids.
LEMMA IdLeft ==
  ASSUME NEW N \in Nat, NEW R \in SUBSET (1..N), NEW I, IsFiniteSet(I), NEW r \in I,
         Cardinality(R) + Cardinality(I) <= N,
         NEW F \in SUBSET (1..N), NEW owner \in [F -> I \ {r}],
         \A x, y \in F : owner[x] = owner[y] => x = y
  PROVE  (1..N) \ (R \cup F) # {}
<1>1. IsFiniteSet(1..N) /\ Cardinality(1..N) = N
  BY FS_Interval
<1>2. IsFiniteSet(R) /\ IsFiniteSet(F)
  BY <1>1, FS_Subset
<1>3. IsFiniteSet(I \ {r}) /\ Cardinality(I \ {r}) = Cardinality(I) - 1
  BY FS_RemoveElement
<1>4. owner \in Injection(F, I \ {r})
  BY DEF Injection, IsInjective
<1>5. Cardinality(F) <= Cardinality(I \ {r})
  BY <1>3, <1>4, FS_Injection
<1>6. /\ IsFiniteSet(R \cup F)
      /\ Cardinality(R \cup F) = Cardinality(R) + Cardinality(F) - Cardinality(R \cap F)
  BY <1>2, FS_Union
<1>7. IsFiniteSet(R \cap F)
  BY <1>2, FS_Intersection
<1>8. /\ Cardinality(R) \in Nat /\ Cardinality(F) \in Nat /\ Cardinality(I) \in Nat
      /\ Cardinality(R \cap F) \in Nat
  BY <1>2, <1>7, FS_CardinalityType
<1>9. Cardinality(R \cup F) < N
  BY <1>3, <1>5, <1>6, <1>8
<1> SUFFICES ASSUME 1..N \subseteq R \cup F PROVE FALSE
  OBVIOUS
<1>10. R \cup F = 1..N
  OBVIOUS
<1>11. Cardinality(R \cup F) = N
  BY ONLY <1>1, <1>10
<1> QED
  BY <1>9, <1>11

-----------------------------------------------------------------------------
(* Where a call is.                                                        *)

Ops == {"login", "refresh", "logout", "changePassword", "requestReset", "resetPassword",
        "register"}

LEMMA OpOfCall == \A c \in Calls : c.op \in Ops
BY DEF Calls, Ops

\* The statement that follows statement s of a handler.
After(op, s) ==
  CASE s = "readEmail" -> IF op = "login" THEN "saveSession"
                          ELSE IF op = "requestReset" THEN "readLatest" ELSE "insertUser"
    [] s = "readLatest" -> "findLinks"
    [] s = "readSession" -> "revokeRead"
    [] s = "revokeRead" -> IF op = "refresh" THEN "saveSession" ELSE "commit"
    [] s \in {"readUser", "readLink"} -> "saveUser"
    [] s = "saveUser" -> IF op = "changePassword" THEN "findSessions" ELSE "findLinks"
    [] s = "findSessions" -> "closeSessions"
    [] s = "findLinks" -> "closeLinks"
    [] s = "closeSessions" -> IF op = "changePassword" THEN "findLinks" ELSE "commit"
    [] s = "closeLinks" -> IF op = "requestReset" THEN "saveLink"
                           ELSE IF op = "changePassword" THEN "commit" ELSE "findSessions"
    [] OTHER -> "commit"

\* The statements of a handler, its commit included.
StatementsOf(op) ==
  {"commit"} \cup
  CASE op = "login" -> {"readEmail", "saveSession"}
    [] op = "refresh" -> {"readSession", "revokeRead", "saveSession"}
    [] op = "logout" -> {"readSession", "revokeRead"}
    [] op = "changePassword" ->
         {"readUser", "saveUser", "findSessions", "closeSessions", "findLinks", "closeLinks"}
    [] op = "requestReset" -> {"readEmail", "readLatest", "findLinks", "closeLinks", "saveLink"}
    [] op = "resetPassword" ->
         {"readLink", "saveUser", "findLinks", "closeLinks", "findSessions", "closeSessions"}
    [] OTHER -> {"readEmail", "insertUser"}

Statements == UNION {StatementsOf(op) : op \in Ops}

LEMMA StatementNames ==
  /\ "readEmail" \in Statements /\ "readUser" \in Statements /\ "readSession" \in Statements
  /\ "readLink" \in Statements /\ "readLatest" \in Statements /\ "saveUser" \in Statements
  /\ "insertUser" \in Statements /\ "saveSession" \in Statements /\ "saveLink" \in Statements
  /\ "revokeRead" \in Statements /\ "findSessions" \in Statements
  /\ "closeSessions" \in Statements /\ "findLinks" \in Statements
  /\ "closeLinks" \in Statements
<1>1. \A op \in Ops : StatementsOf(op) \subseteq Statements
  BY DEF Statements
<1>2. /\ "login" \in Ops /\ "refresh" \in Ops /\ "changePassword" \in Ops /\ "register" \in Ops
      /\ "requestReset" \in Ops /\ "resetPassword" \in Ops
  BY DEF Ops
<1> QED
  BY <1>1, <1>2 DEF StatementsOf

Firsts == {"readEmail", "readUser", "readSession", "readLink"}

\* What a slot has left is the rest of its handler.
RestOf(p, n) == SubSeq(p, n, Len(p))
Position(r) ==
  IF Busy(r)
  THEN LET p == Program(call[r].op) IN \E n \in 1..Len(p) + 1 : todo[r] = RestOf(p, n)
  ELSE todo[r] = <<>>

LEMMA Rest ==
  ASSUME NEW p \in Seq(Statements)
  PROVE  /\ RestOf(p, 1) = p /\ RestOf(p, Len(p) + 1) = <<>>
         /\ \A n \in 1..Len(p) : /\ RestOf(p, n) # <<>>
                                 /\ Head(RestOf(p, n)) = p[n]
                                 /\ Tail(RestOf(p, n)) = RestOf(p, n + 1)
BY DEF RestOf

LEMMA ShortList ==
  ASSUME NEW S, NEW a \in S, NEW b \in S, NEW c \in S, NEW p
  PROVE  /\ p = <<a>> => p \in Seq(S)
         /\ p = <<a, b>> => p \in Seq(S) /\ Len(p) = 2 /\ p[1] = a /\ p[2] = b
         /\ p = <<a, b, c>> => p \in Seq(S) /\ Len(p) = 3 /\ p[1] = a /\ p[2] = b /\ p[3] = c
<1>1. p = <<a>> => p \in Seq(S)
  OBVIOUS
<1>2. p = <<a, b>> => p \in Seq(S) /\ Len(p) = 2 /\ p[1] = a /\ p[2] = b
  OBVIOUS
<1>3. p = <<a, b, c>> => p \in Seq(S) /\ Len(p) = 3 /\ p[1] = a /\ p[2] = b /\ p[3] = c
  OBVIOUS
<1> QED
  BY <1>1, <1>2, <1>3

LEMMA Joined ==
  ASSUME NEW S, NEW x \in Seq(S), NEW y \in Seq(S), NEW z \in Seq(S)
  PROVE  x \o y \o z \in Seq(S)
<1>1. x \o y \in Seq(S)
  OBVIOUS
<1> QED
  BY <1>1

LEMMA Closings ==
  /\ ClosingSessions \in Seq(Statements) /\ Len(ClosingSessions) = 2
  /\ ClosingSessions[1] = "findSessions" /\ ClosingSessions[2] = "closeSessions"
  /\ ClosingLinks \in Seq(Statements) /\ Len(ClosingLinks) = 2
  /\ ClosingLinks[1] = "findLinks" /\ ClosingLinks[2] = "closeLinks"
<1>1. ClosingSessions = <<"findSessions", "closeSessions">>
  BY DEF ClosingSessions
<1>2. ClosingLinks = <<"findLinks", "closeLinks">>
  BY DEF ClosingLinks
<1> QED
  BY <1>1, <1>2, StatementNames, ShortList

\* The handlers, statement by statement.
LEMMA Programs ==
  /\ Program("login") \in Seq(Statements) /\ Len(Program("login")) = 2
  /\ Program("login")[1] = "readEmail" /\ Program("login")[2] = "saveSession"
  /\ Program("refresh") \in Seq(Statements) /\ Len(Program("refresh")) = 3
  /\ Program("refresh")[1] = "readSession" /\ Program("refresh")[2] = "revokeRead"
  /\ Program("refresh")[3] = "saveSession"
  /\ Program("logout") \in Seq(Statements) /\ Len(Program("logout")) = 2
  /\ Program("logout")[1] = "readSession" /\ Program("logout")[2] = "revokeRead"
  /\ Program("changePassword") \in Seq(Statements) /\ Len(Program("changePassword")) = 6
  /\ Program("changePassword")[1] = "readUser" /\ Program("changePassword")[2] = "saveUser"
  /\ Program("changePassword")[3] = "findSessions" /\ Program("changePassword")[4] = "closeSessions"
  /\ Program("changePassword")[5] = "findLinks" /\ Program("changePassword")[6] = "closeLinks"
  /\ Program("requestReset") \in Seq(Statements) /\ Len(Program("requestReset")) = 5
  /\ Program("requestReset")[1] = "readEmail" /\ Program("requestReset")[2] = "readLatest"
  /\ Program("requestReset")[3] = "findLinks" /\ Program("requestReset")[4] = "closeLinks"
  /\ Program("requestReset")[5] = "saveLink"
  /\ Program("resetPassword") \in Seq(Statements) /\ Len(Program("resetPassword")) = 6
  /\ Program("resetPassword")[1] = "readLink" /\ Program("resetPassword")[2] = "saveUser"
  /\ Program("resetPassword")[3] = "findLinks" /\ Program("resetPassword")[4] = "closeLinks"
  /\ Program("resetPassword")[5] = "findSessions" /\ Program("resetPassword")[6] = "closeSessions"
  /\ Program("register") \in Seq(Statements) /\ Len(Program("register")) = 2
  /\ Program("register")[1] = "readEmail" /\ Program("register")[2] = "insertUser"
<1>1. /\ Program("login") \in Seq(Statements) /\ Len(Program("login")) = 2
      /\ Program("login")[1] = "readEmail" /\ Program("login")[2] = "saveSession"
  <2>1. Program("login") = <<"readEmail", "saveSession">>
    BY DEF Program
  <2> QED
    BY <2>1, StatementNames, ShortList
<1>2. /\ Program("refresh") \in Seq(Statements) /\ Len(Program("refresh")) = 3
      /\ Program("refresh")[1] = "readSession" /\ Program("refresh")[2] = "revokeRead"
      /\ Program("refresh")[3] = "saveSession"
  <2>1. Program("refresh") = <<"readSession", "revokeRead", "saveSession">>
    BY DEF Program, Rotating
  <2> QED
    BY <2>1, StatementNames, ShortList
<1>3. /\ Program("logout") \in Seq(Statements) /\ Len(Program("logout")) = 2
      /\ Program("logout")[1] = "readSession" /\ Program("logout")[2] = "revokeRead"
  <2>1. Program("logout") = <<"readSession", "revokeRead">>
    BY DEF Program
  <2> QED
    BY <2>1, StatementNames, ShortList
<1>4. /\ Program("changePassword") \in Seq(Statements) /\ Len(Program("changePassword")) = 6
      /\ Program("changePassword")[1] = "readUser" /\ Program("changePassword")[2] = "saveUser"
      /\ Program("changePassword")[3] = "findSessions" /\ Program("changePassword")[4] = "closeSessions"
      /\ Program("changePassword")[5] = "findLinks" /\ Program("changePassword")[6] = "closeLinks"
  <2>1. Program("changePassword") = <<"readUser", "saveUser">> \o ClosingSessions \o ClosingLinks
    BY DEF Program
  <2>2. Program("changePassword") \in Seq(Statements)
    <3>1. <<"readUser", "saveUser">> \in Seq(Statements)
      BY StatementNames, ShortList
    <3> QED
      BY <2>1, <3>1, Closings, Joined
  <2>3. Len(Program("changePassword")) = 6
    BY <2>1 DEF ClosingSessions, ClosingLinks
  <2>4. Program("changePassword")[1] = "readUser" /\ Program("changePassword")[2] = "saveUser"
    BY <2>1 DEF ClosingSessions, ClosingLinks
  <2>5. Program("changePassword")[3] = "findSessions" /\ Program("changePassword")[4] = "closeSessions"
    BY <2>1 DEF ClosingSessions, ClosingLinks
  <2>6. Program("changePassword")[5] = "findLinks" /\ Program("changePassword")[6] = "closeLinks"
    BY <2>1 DEF ClosingSessions, ClosingLinks
  <2> QED
    BY <2>2, <2>3, <2>4, <2>5, <2>6
<1>5. /\ Program("requestReset") \in Seq(Statements) /\ Len(Program("requestReset")) = 5
      /\ Program("requestReset")[1] = "readEmail" /\ Program("requestReset")[2] = "readLatest"
      /\ Program("requestReset")[3] = "findLinks" /\ Program("requestReset")[4] = "closeLinks"
      /\ Program("requestReset")[5] = "saveLink"
  <2>1. Program("requestReset") = <<"readEmail", "readLatest">> \o ClosingLinks \o <<"saveLink">>
    BY DEF Program, Asking
  <2>2. Program("requestReset") \in Seq(Statements)
    <3>1. <<"readEmail", "readLatest">> \in Seq(Statements) /\ <<"saveLink">> \in Seq(Statements)
      BY StatementNames, ShortList
    <3> QED
      BY <2>1, <3>1, Closings, Joined
  <2>3. Len(Program("requestReset")) = 5
    BY <2>1 DEF ClosingSessions, ClosingLinks
  <2>4. Program("requestReset")[1] = "readEmail" /\ Program("requestReset")[2] = "readLatest"
    BY <2>1 DEF ClosingSessions, ClosingLinks
  <2>5. Program("requestReset")[3] = "findLinks" /\ Program("requestReset")[4] = "closeLinks"
    BY <2>1 DEF ClosingSessions, ClosingLinks
  <2>6. Program("requestReset")[5] = "saveLink"
    BY <2>1 DEF ClosingSessions, ClosingLinks
  <2> QED
    BY <2>2, <2>3, <2>4, <2>5, <2>6
<1>6. /\ Program("resetPassword") \in Seq(Statements) /\ Len(Program("resetPassword")) = 6
      /\ Program("resetPassword")[1] = "readLink" /\ Program("resetPassword")[2] = "saveUser"
      /\ Program("resetPassword")[3] = "findLinks" /\ Program("resetPassword")[4] = "closeLinks"
      /\ Program("resetPassword")[5] = "findSessions" /\ Program("resetPassword")[6] = "closeSessions"
  <2>1. Program("resetPassword") = <<"readLink", "saveUser">> \o ClosingLinks \o ClosingSessions
    BY DEF Program, Resetting
  <2>2. Program("resetPassword") \in Seq(Statements)
    <3>1. <<"readLink", "saveUser">> \in Seq(Statements)
      BY StatementNames, ShortList
    <3> QED
      BY <2>1, <3>1, Closings, Joined
  <2>3. Len(Program("resetPassword")) = 6
    BY <2>1 DEF ClosingSessions, ClosingLinks
  <2>4. Program("resetPassword")[1] = "readLink" /\ Program("resetPassword")[2] = "saveUser"
    BY <2>1 DEF ClosingSessions, ClosingLinks
  <2>5. Program("resetPassword")[3] = "findLinks" /\ Program("resetPassword")[4] = "closeLinks"
    BY <2>1 DEF ClosingSessions, ClosingLinks
  <2>6. Program("resetPassword")[5] = "findSessions" /\ Program("resetPassword")[6] = "closeSessions"
    BY <2>1 DEF ClosingSessions, ClosingLinks
  <2> QED
    BY <2>2, <2>3, <2>4, <2>5, <2>6
<1>7. /\ Program("register") \in Seq(Statements) /\ Len(Program("register")) = 2
      /\ Program("register")[1] = "readEmail" /\ Program("register")[2] = "insertUser"
  <2>1. Program("register") = <<"readEmail", "insertUser">>
    BY DEF Program
  <2> QED
    BY <2>1, StatementNames, ShortList
<1> QED
  BY <1>1, <1>2, <1>3, <1>4, <1>5, <1>6, <1>7

\* Each handler runs its statements in the order After tells.
LEMMA ProgramFlow ==
  ASSUME NEW op \in Ops
  PROVE  LET p == Program(op) IN
         /\ p \in Seq(Statements) /\ Len(p) \in Nat \ {0}
         /\ p[1] \in Firsts
         /\ \A n \in 1..Len(p) :
              /\ p[n] \in StatementsOf(op) \ {"commit"}
              /\ p[n] \in Firsts <=> n = 1
              /\ After(op, p[n]) = IF n = Len(p) THEN "commit" ELSE p[n + 1]
<1> DEFINE p == Program(op)
<1> HIDE DEF p
<1> USE DEF After, StatementsOf, Firsts
<1>1. CASE op = "login"
  <2>1. /\ p \in Seq(Statements) /\ Len(p) = 2
        /\ p[1] = "readEmail" /\ p[2] = "saveSession"
    BY <1>1, Programs DEF p
  <2> QED
    BY <1>1, <2>1 DEF p
<1>2. CASE op = "refresh"
  <2>1. /\ p \in Seq(Statements) /\ Len(p) = 3
        /\ p[1] = "readSession" /\ p[2] = "revokeRead" /\ p[3] = "saveSession"
    BY <1>2, Programs DEF p
  <2> QED
    BY <1>2, <2>1 DEF p
<1>3. CASE op = "logout"
  <2>1. /\ p \in Seq(Statements) /\ Len(p) = 2
        /\ p[1] = "readSession" /\ p[2] = "revokeRead"
    BY <1>3, Programs DEF p
  <2> QED
    BY <1>3, <2>1 DEF p
<1>4. CASE op = "changePassword"
  <2>1. /\ p \in Seq(Statements) /\ Len(p) = 6
        /\ p[1] = "readUser" /\ p[2] = "saveUser" /\ p[3] = "findSessions"
        /\ p[4] = "closeSessions" /\ p[5] = "findLinks" /\ p[6] = "closeLinks"
    BY <1>4, Programs DEF p
  <2>2. \A n \in 1..6 : n \in {1, 2, 3, 4, 5, 6}
    OBVIOUS
  <2>3. \A n \in 1..Len(p) : p[n] \in StatementsOf(op) \ {"commit"}
    BY <1>4, <2>1, <2>2
  <2>4. \A n \in 1..Len(p) : p[n] \in Firsts <=> n = 1
    BY <1>4, <2>1, <2>2
  <2>5. \A n \in 1..Len(p) : After(op, p[n]) = IF n = Len(p) THEN "commit" ELSE p[n + 1]
    BY <1>4, <2>1, <2>2
  <2> QED
    BY <2>1, <2>3, <2>4, <2>5 DEF p
<1>5. CASE op = "requestReset"
  <2>1. /\ p \in Seq(Statements) /\ Len(p) = 5
        /\ p[1] = "readEmail" /\ p[2] = "readLatest" /\ p[3] = "findLinks"
        /\ p[4] = "closeLinks" /\ p[5] = "saveLink"
    BY <1>5, Programs DEF p
  <2>2. \A n \in 1..5 : n \in {1, 2, 3, 4, 5}
    OBVIOUS
  <2> QED
    BY <1>5, <2>1, <2>2 DEF p
<1>6. CASE op = "resetPassword"
  <2>1. /\ p \in Seq(Statements) /\ Len(p) = 6
        /\ p[1] = "readLink" /\ p[2] = "saveUser" /\ p[3] = "findLinks"
        /\ p[4] = "closeLinks" /\ p[5] = "findSessions" /\ p[6] = "closeSessions"
    BY <1>6, Programs DEF p
  <2>2. \A n \in 1..6 : n \in {1, 2, 3, 4, 5, 6}
    OBVIOUS
  <2> QED
    BY <1>6, <2>1, <2>2 DEF p
<1>7. CASE op = "register"
  <2>1. /\ p \in Seq(Statements) /\ Len(p) = 2
        /\ p[1] = "readEmail" /\ p[2] = "insertUser"
    BY <1>7, Programs DEF p
  <2> QED
    BY <1>7, <2>1 DEF p
<1> QED
  BY <1>1, <1>2, <1>3, <1>4, <1>5, <1>6, <1>7 DEF Ops, p

-----------------------------------------------------------------------------
(* The state.                                                              *)

\* The functions from a part of S to T.
Partial(S, T) == UNION {[D -> T] : D \in SUBSET S}

Seen ==
  [user : Accounts \cup {0}, row : Account \cup Session \cup {None}, during : During,
   stale : BOOLEAN, now : Nat, doomed : SUBSET Nat, swept : SUBSET {"sessions", "links"}]
Own ==
  [account : Partial(Accounts, Account), session : Partial(Tokens, Session),
   link : Partial(Links, Link)]

Typed ==
  /\ TypeOK
  /\ todo \in [Requests -> Seq(Statements)]
  /\ seen \in [Requests -> Seen]
  /\ writes \in [Requests -> Own]
  /\ locked \in [Requests -> SUBSET ({"session", "link"} \X Nat)]

LEMMA PartialFacts ==
  ASSUME NEW S, NEW T, NEW f \in Partial(S, T)
  PROVE  DOMAIN f \subseteq S /\ \A x \in DOMAIN f : f[x] \in T
BY DEF Partial

LEMMA NothingWritten ==
  ASSUME NEW S, NEW T
  PROVE  <<>> \in Partial(S, T)
<1>1. <<>> \in [{} -> T]
  OBVIOUS
<1> QED
  BY <1>1 DEF Partial

LEMMA PutTyped ==
  ASSUME NEW S, NEW T, NEW f, f \in Partial(S, T), NEW x, x \in S, NEW row, row \in T
  PROVE  Put(f, x, row) \in Partial(S, T)
<1>1. DOMAIN f \subseteq S /\ \A y \in DOMAIN f : f[y] \in T
  BY DEF Partial
<1> DEFINE D == DOMAIN f \cup {x}
<1>2. Put(f, x, row) \in [D -> T] /\ D \in SUBSET S
  BY <1>1 DEF Put
<1> QED
  BY <1>2 DEF Partial

LEMMA SeenFields ==
  ASSUME NEW s \in Seen
  PROVE  /\ s.user \in Accounts \cup {0} /\ s.row \in Account \cup Session \cup {None}
         /\ s.during \in During /\ s.stale \in BOOLEAN /\ s.now \in Nat
         /\ s.doomed \in SUBSET Nat /\ s.swept \in SUBSET {"sessions", "links"}
BY DEF Seen

LEMMA NothingTyped == NothingSeen \in Seen /\ NoWrites \in Own
<1>1. NothingSeen \in Seen
  BY DEF NothingSeen, Seen, During
<1>2. NoWrites \in Own
  BY NothingWritten DEF NoWrites, Own
<1> QED
  BY <1>1, <1>2

LEMMA OwnFields ==
  ASSUME NEW w \in Own
  PROVE  /\ w.account \in Partial(Accounts, Account)
         /\ w.session \in Partial(Tokens, Session)
         /\ w.link \in Partial(Links, Link)
         /\ DOMAIN w.account \subseteq Accounts /\ \A u \in DOMAIN w.account : w.account[u] \in Account
         /\ DOMAIN w.session \subseteq Tokens /\ \A t \in DOMAIN w.session : w.session[t] \in Session
         /\ DOMAIN w.link \subseteq Links /\ \A l \in DOMAIN w.link : w.link[l] \in Link
<1>1. /\ w.account \in Partial(Accounts, Account)
      /\ w.session \in Partial(Tokens, Session)
      /\ w.link \in Partial(Links, Link)
  BY DEF Own
<1> QED
  BY <1>1, PartialFacts

LEMMA CallFields ==
  ASSUME NEW c \in Calls \cup {NoCall}
  PROVE  /\ c.op \in Ops \cup {"none"} /\ (c # NoCall => c.op \in Ops) /\ (c = NoCall => c.op = "none")
         /\ c.op \in {"login", "requestReset", "register"} => c.email \in Spellings
         /\ c.op \in {"login", "register", "changePassword"} => c.secret \in Secrets
         /\ c.op \in {"refresh", "logout"} => c.token \in Tokens
         /\ c.op \in {"changePassword", "resetPassword"} => c.new \in Secrets
         /\ c.op = "changePassword" => c.user \in Accounts /\ c.keep \in Tokens \cup {NoToken}
         /\ c.op = "resetPassword" => c.link \in Links
BY DEF Calls, NoCall, Ops

\* A row that is there has its fields.
LEMMA RowFields ==
  ASSUME Typed
  PROVE  /\ Rows(account) \subseteq Accounts /\ Rows(session) \subseteq Tokens /\ Rows(link) \subseteq Links
         /\ DOMAIN account = Accounts /\ DOMAIN session = Tokens /\ DOMAIN link = Links
         /\ \A u \in Rows(account) : account[u] \in Account
         /\ \A t \in Rows(session) : session[t] \in Session
         /\ \A l \in Rows(link) : link[l] \in Link
         /\ \A u \in Accounts : u \notin Rows(account) => account[u] = None
         /\ \A t \in Tokens : t \notin Rows(session) => session[t] = None
         /\ \A l \in Links : l \notin Rows(link) => link[l] = None
BY DEF Typed, TypeOK, Rows

LEMMA SlotFields ==
  ASSUME Typed, NEW r \in Requests
  PROVE  call[r] \in Calls \cup {NoCall} /\ seen[r] \in Seen /\ writes[r] \in Own
BY DEF Typed, TypeOK

-----------------------------------------------------------------------------
(* Control.                                                                *)

Started(r) == Busy(r) /\ Statement(r) \notin Firsts

LEMMA Heads ==
  ASSUME NEW p \in Seq(Statements), NEW rest
  PROVE  /\ rest = RestOf(p, Len(p) + 1) => (IF rest = <<>> THEN "commit" ELSE Head(rest)) = "commit"
         /\ \A n \in 1..Len(p) :
              rest = RestOf(p, n) => (IF rest = <<>> THEN "commit" ELSE Head(rest)) = p[n]
<1> SUFFICES ASSUME NEW n \in 1..Len(p), rest = RestOf(p, n)
             PROVE  (IF rest = <<>> THEN "commit" ELSE Head(rest)) = p[n]
  BY Rest
<1>1. rest # <<>> /\ Head(rest) = p[n]
  BY Rest
<1> QED
  BY <1>1

LEMMA Placed ==
  ASSUME Typed, NEW r \in Requests, Position(r)
  PROVE  /\ Busy(r) => call[r].op \in Ops /\ Statement(r) \in StatementsOf(call[r].op)
         /\ ~ Busy(r) => call[r].op = "none" /\ Statement(r) = "commit"
<1>1. CASE Busy(r)
  <2> DEFINE p == Program(call[r].op)
  <2>1. call[r].op \in Ops
    BY <1>1, SlotFields, CallFields DEF Busy
  <2>2. p \in Seq(Statements) /\ \A n \in 1..Len(p) : p[n] \in StatementsOf(call[r].op)
    BY <2>1, ProgramFlow
  <2>3. PICK n \in 1..Len(p) + 1 : todo[r] = RestOf(p, n)
    BY <1>1 DEF Position
  <2> HIDE DEF p
  <2>4. CASE n = Len(p) + 1
    <3>1. Statement(r) = "commit"
      BY <2>2, <2>3, <2>4, Heads DEF Statement
    <3> QED
      BY <1>1, <2>1, <3>1 DEF StatementsOf
  <2>5. CASE n # Len(p) + 1
    <3>1. n \in 1..Len(p)
      BY <2>2, <2>5
    <3>2. Statement(r) = p[n]
      BY <2>2, <2>3, <3>1, Heads DEF Statement
    <3> QED
      BY <1>1, <2>1, <2>2, <3>1, <3>2
  <2> QED
    BY <1>1, <2>1, <2>4, <2>5
<1>2. CASE ~ Busy(r)
  BY <1>2, NoCallIsNoCall DEF Position, Statement, Busy
<1> QED
  BY <1>1, <1>2

LEMMA Advanced ==
  ASSUME Typed, NEW r \in Requests, Position(r), Busy(r), Statement(r) # "commit",
         call' = call, Advance(r)
  PROVE  /\ todo' \in [Requests -> Seq(Statements)]
         /\ \A o \in Requests \ {r} : todo'[o] = todo[o]
         /\ Position(r)' /\ Busy(r)'
         /\ Statement(r)' = After(call[r].op, Statement(r))
         /\ Started(r)'
<1> DEFINE op == call[r].op
           p == Program(op)
<1>1. op \in Ops
  BY SlotFields, CallFields DEF Busy
<1>2. /\ p \in Seq(Statements) /\ Len(p) \in Nat \ {0}
      /\ \A n \in 1..Len(p) :
              /\ p[n] \in StatementsOf(op) \ {"commit"}
              /\ p[n] \in Firsts <=> n = 1
              /\ After(op, p[n]) = IF n = Len(p) THEN "commit" ELSE p[n + 1]
  BY <1>1, ProgramFlow
<1>3. PICK n \in 1..Len(p) + 1 : todo[r] = RestOf(p, n)
  BY DEF Position
<1> HIDE DEF p, op
<1>4. n \in 1..Len(p)
  <2>1. n # Len(p) + 1
    BY <1>2, <1>3, Rest DEF Statement
  <2> QED
    BY <1>2, <2>1
<1>5. Statement(r) = p[n] /\ Tail(todo[r]) = RestOf(p, n + 1)
  BY <1>2, <1>3, <1>4, Rest DEF Statement
<1>6. todo[r] \in Seq(Statements) /\ todo[r] # <<>>
  BY <1>2, <1>3, <1>4, Rest DEF Typed
<1>7. todo'[r] = RestOf(p, n + 1) /\ \A o \in Requests \ {r} : todo'[o] = todo[o]
  BY <1>5 DEF Advance, Typed
<1>8. todo' \in [Requests -> Seq(Statements)]
  BY <1>6 DEF Advance, Typed
<1>9. Position(r)' /\ Busy(r)'
  <2>1. n + 1 \in 1..Len(p) + 1
    BY <1>2, <1>4
  <2> QED
    BY <1>7, <2>1 DEF Position, Busy, p, op
<1>10. Statement(r)' = After(op, Statement(r)) /\ Statement(r)' \notin Firsts
  <2>1. CASE n = Len(p)
    BY <1>2, <1>4, <1>5, <1>7, <2>1, Rest DEF Statement, Firsts
  <2>2. CASE n # Len(p)
    <3>1. n + 1 \in 1..Len(p) /\ n + 1 # 1
      BY <1>2, <1>4, <2>2
    <3>2. Statement(r)' = p[n + 1]
      <4> DEFINE rest == todo'[r]
      <4>1. rest = RestOf(p, n + 1) /\ p \in Seq(Statements)
        BY <1>2, <1>7
      <4> HIDE DEF rest
      <4>2. (IF rest = <<>> THEN "commit" ELSE Head(rest)) = p[n + 1]
        BY <3>1, <4>1, Heads
      <4> QED
        BY <4>2 DEF Statement, rest
    <3>3. p[n + 1] \notin Firsts
      BY <1>2, <3>1
    <3>4. After(op, p[n]) = p[n + 1]
      BY <1>2, <1>4, <2>2
    <3> QED
      BY <1>5, <3>2, <3>3, <3>4
  <2> QED
    BY <2>1, <2>2
<1> QED
  BY <1>7, <1>8, <1>9, <1>10 DEF Started, op

-----------------------------------------------------------------------------
(* The invariant the others rest on.                                       *)

Presents(r) == call[r].op \in {"refresh", "logout"}
Changer(r) == Changes(call[r].op)

\* A slot that has read nothing has nothing.
Blank(r) == ~ Started(r) => seen[r] = NothingSeen /\ writes[r] = NoWrites

\* What the client presented is there.
Given(r) ==
  /\ Presents(r) => call[r].token \in Rows(session)
  /\ call[r].op = "resetPassword" => call[r].link \in Rows(link)
  /\ call[r].op = "changePassword" =>
       call[r].user \in Rows(account) /\ call[r].keep \in Rows(session) \cup {NoToken}

\* What a started call read is still so, the parts that never change.
Informed(r) ==
  Started(r) =>
    /\ call[r].op # "register" => seen[r].user \in Rows(account)
    /\ call[r].op = "changePassword" => seen[r].user = call[r].user
    /\ call[r].op = "resetPassword" => link[call[r].link].user = seen[r].user
    /\ Presents(r) =>
         /\ seen[r].row \in Session /\ seen[r].row.user = seen[r].user
         /\ session[call[r].token].user = seen[r].user
         /\ seen[r].row.chain = session[call[r].token].chain
    /\ call[r].op \in {"login", "requestReset"} \/ Changer(r) => seen[r].row \in Account
    /\ Changer(r) =>
         /\ seen[r].row.email = account[seen[r].user].email
         /\ seen[r].row.during = account[seen[r].user].during

\* The user row a change of password holds, the one a registration inserted.
Saved(r) == Started(r) /\ Changer(r) /\ Statement(r) # "saveUser"
Inserted(r) == Started(r) /\ call[r].op = "register" /\ Statement(r) = "commit"

AccountWrites(r) ==
  LET own == writes[r].account IN
  /\ Saved(r) => /\ DOMAIN own = {seen[r].user}
                 /\ own[seen[r].user] = [seen[r].row EXCEPT !.secret = call[r].new]
  /\ Inserted(r) => \E u \in Accounts \ Rows(account) :
                      DOMAIN own = {u} /\ own[u].email = call[r].email
  /\ ~ Saved(r) /\ ~ Inserted(r) => DOMAIN own = {}

\* The token rows a call holds: the one it issues, those it revokes.
Issued(r, t) ==
  LET row == writes[r].session[t] IN
  /\ t \in Tokens \ Rows(session)
  /\ Issues(call[r].op, "sessions") /\ Started(r) /\ Statement(r) = "commit"
  /\ ~ row.revoked /\ row.user = seen[r].user /\ row.secret = seen[r].row.secret
  /\ row.chain = IF call[r].op = "refresh" THEN seen[r].row.chain ELSE t
Revokes(r, t) ==
  LET row == writes[r].session[t] IN
  /\ t \in Rows(session) /\ ((Presents(r) /\ t = call[r].token) \/ Changer(r))
  /\ row.revoked /\ row.user = session[t].user /\ row.chain = session[t].chain
  /\ session[t].user = seen[r].user
SessionWrites(r) ==
  LET own == writes[r].session IN
  /\ \A t \in DOMAIN own : Issued(r, t) \/ Revokes(r, t)
  /\ \A t, x \in DOMAIN own : t \notin Rows(session) /\ x \notin Rows(session) => t = x
  /\ Statement(r) = "closeSessions" =>
       \A t \in seen[r].doomed : t \in Rows(session) /\ session[t].user = seen[r].user
  /\ Started(r) /\ Presents(r) =>
       IF Statement(r) = "revokeRead" THEN DOMAIN own = {}
       ELSE /\ call[r].token \in DOMAIN own
            /\ ~ seen[r].stale => ~ session[call[r].token].revoked

\* The link rows a call holds: the one it sends, those it marks.
Sends(r, l) ==
  /\ l \in Links \ Rows(link)
  /\ call[r].op = "requestReset" /\ Started(r) /\ Statement(r) = "commit"
  /\ writes[r].link[l] = NewLink(r)
Marks(r, l) ==
  /\ l \in Rows(link) /\ (call[r].op = "requestReset" \/ Changer(r))
  /\ writes[r].link[l] = [link[l] EXCEPT !.used = TRUE]
  /\ ~ link[l].used /\ link[l].user = seen[r].user
PastLinks(r) ==
  /\ Started(r)
  /\ \/ call[r].op = "requestReset" /\ Statement(r) \in {"saveLink", "commit"}
     \/ call[r].op = "changePassword" /\ Statement(r) = "commit"
     \/ /\ call[r].op = "resetPassword"
        /\ Statement(r) \in {"findSessions", "closeSessions", "commit"}
LinkWrites(r) ==
  LET own == writes[r].link IN
  /\ \A l \in DOMAIN own : Sends(r, l) \/ Marks(r, l)
  /\ \A l, k \in DOMAIN own : l \notin Rows(link) /\ k \notin Rows(link) => l = k
  /\ ~ PastLinks(r) => DOMAIN own = {}
  /\ Statement(r) = "closeLinks" =>
       \A l \in seen[r].doomed : l \in Rows(link) /\ link[l].user = seen[r].user

\* A reset spends its link, unless somebody has.
Spends(r) ==
  Started(r) /\ call[r].op = "resetPassword" =>
    /\ Statement(r) = "closeLinks" => link[call[r].link].used \/ call[r].link \in seen[r].doomed
    /\ Statement(r) \in {"findSessions", "closeSessions", "commit"} =>
         link[call[r].link].used \/ call[r].link \in DOMAIN writes[r].link

\* The rows an updateMany has locked: tokens once the user is saved, and links,
\* the first ones of those to close.
Locks(r) ==
  /\ ~ Started(r) => locked[r] = {}
  /\ \A t : <<"session", t>> \in locked[r] =>
       t \in Rows(session) /\ session[t].user = seen[r].user /\ Saved(r)
  /\ \A l : <<"link", l>> \in locked[r] =>
       /\ l \in Rows(link) /\ link[l].user = seen[r].user
       /\ Saved(r) \/ call[r].op = "requestReset"
       /\ Statement(r) = "closeLinks" \/ PastLinks(r)
       /\ Statement(r) = "closeLinks" =>
            \A k \in seen[r].doomed : <<"link", k>> \in locked[r] \/ l < k

Slot(r) ==
  /\ Position(r) /\ Blank(r) /\ Given(r) /\ Informed(r)
  /\ AccountWrites(r) /\ SessionWrites(r) /\ LinkWrites(r) /\ Spends(r) /\ Locks(r)

\* A row is held by one slot.
Clear(r, o) ==
  /\ \A t \in DOMAIN writes[r].session : <<"session", t>> \notin locked[o]
  /\ \A l \in DOMAIN writes[r].link : <<"link", l>> \notin locked[o]
Apart(r, o) ==
  /\ DOMAIN writes[r].account \cap DOMAIN writes[o].account = {}
  /\ DOMAIN writes[r].session \cap DOMAIN writes[o].session = {}
  /\ DOMAIN writes[r].link \cap DOMAIN writes[o].link = {}
  /\ locked[r] \cap locked[o] = {} /\ Clear(r, o) /\ Clear(o, r)
Exclusive == \A r, o \in Requests : r # o => Apart(r, o)

\* An id is left for every call that inserts.
Issuing(kind) == {r \in Requests : Issues(call[r].op, kind)}
Registrations == {r \in Requests : call[r].op = "register"}
Room ==
  /\ Cardinality(Rows(account)) + Cardinality(Registrations) <= MaxAccounts
  /\ Cardinality(Rows(session)) + Cardinality(Issuing("sessions")) <= MaxTokens
  /\ Cardinality(Rows(link)) + Cardinality(Issuing("links")) <= MaxLinks

\* Rows point at rows.
Grounded ==
  /\ \A t \in Rows(session) :
       session[t].user \in Rows(account) /\ session[t].chain \in Rows(session)
  /\ \A l \in Rows(link) : link[l].user \in Rows(account)
  /\ overtaken \subseteq Rows(session) /\ ended \subseteq Rows(session)

Base ==
  /\ Typed
  /\ \A r \in Requests : Slot(r)
  /\ Exclusive /\ Room /\ Grounded

-----------------------------------------------------------------------------
(* A step of one slot, short of its commit, leaves the others alone.       *)

Grown(o) ==
  /\ seen'[o].user = seen[o].user /\ seen'[o].row = seen[o].row
  /\ seen[o].during \subseteq seen'[o].during
  /\ seen'[o].stale = seen[o].stale /\ seen'[o].now = seen[o].now
  /\ seen'[o].doomed = seen[o].doomed /\ seen'[o].swept = seen[o].swept
  /\ ~ Started(o) => seen'[o] = seen[o]

Quiet(r) ==
  /\ UNCHANGED <<database, mailed, overtaken, ended>>
  /\ \A o \in Requests \ {r} :
       /\ call'[o] = call[o] /\ todo'[o] = todo[o] /\ writes'[o] = writes[o]
       /\ locked'[o] = locked[o] /\ Grown(o)

LEMMA QuietSlots ==
  ASSUME NEW r \in Requests, Quiet(r), NEW o \in Requests \ {r}, Slot(o)
  PROVE  Slot(o)'
<1> USE DEF Quiet, Grown
<1>1. /\ account' = account /\ session' = session /\ link' = link
      /\ call'[o] = call[o] /\ todo'[o] = todo[o] /\ writes'[o] = writes[o]
  BY DEF database
<1>2. /\ seen'[o].user = seen[o].user /\ seen'[o].row = seen[o].row
      /\ seen'[o].stale = seen[o].stale /\ seen'[o].now = seen[o].now
      /\ seen'[o].doomed = seen[o].doomed
  OBVIOUS
<1>3. (Statement(o)' = Statement(o)) /\ (Busy(o)' <=> Busy(o)) /\ (Started(o)' <=> Started(o))
  BY <1>1 DEF Statement, Busy, Started
<1>4. Position(o)'
  BY <1>1 DEF Slot, Position, Busy
<1>5. Blank(o)'
  BY <1>1, <1>3 DEF Slot, Blank
<1>6. Given(o)'
  BY <1>1 DEF Slot, Given, Presents, Rows
<1>7. Informed(o)'
  BY <1>1, <1>2, <1>3 DEF Slot, Informed, Presents, Changer, Rows
<1>8. AccountWrites(o)'
  BY <1>1, <1>2, <1>3 DEF Slot, AccountWrites, Saved, Inserted, Changer, Rows
<1>9. SessionWrites(o)'
  BY <1>1, <1>2, <1>3 DEF Slot, SessionWrites, Issued, Revokes, Presents, Changer, Rows
<1>10. LinkWrites(o)'
  <2>1. NewLink(o)' = NewLink(o)
    BY <1>2 DEF NewLink
  <2> QED
    BY <1>1, <1>2, <1>3, <2>1 DEF Slot, LinkWrites, PastLinks, Sends, Marks, Changer, Rows
<1>11. Spends(o)'
  BY <1>1, <1>2, <1>3 DEF Slot, Spends
<1>12. Locks(o)'
  <2>1. locked'[o] = locked[o] /\ (Saved(o)' <=> Saved(o)) /\ (PastLinks(o)' <=> PastLinks(o))
    BY <1>1, <1>3 DEF Saved, Changer, PastLinks
  <2> QED
    BY <1>1, <1>2, <1>3, <2>1 DEF Slot, Locks, Rows
<1> QED
  BY <1>4, <1>5, <1>6, <1>7, <1>8, <1>9, <1>10, <1>11, <1>12 DEF Slot

-----------------------------------------------------------------------------
(* What a step does to the slot that takes it.                             *)

\* Whose statement it is.
LEMMA Who ==
  ASSUME Typed, NEW r \in Requests, Slot(r), Busy(r)
  PROVE  /\ call[r].op \in Ops
         /\ Statement(r) = "readEmail" => call[r].op \in {"login", "requestReset", "register"}
         /\ Statement(r) = "readUser" => call[r].op = "changePassword"
         /\ Statement(r) = "readSession" => Presents(r)
         /\ Statement(r) = "readLink" => call[r].op = "resetPassword"
         /\ Statement(r) = "readLatest" => call[r].op = "requestReset"
         /\ Statement(r) = "insertUser" => call[r].op = "register"
         /\ Statement(r) = "saveUser" => Changer(r)
         /\ Statement(r) = "revokeRead" => Presents(r)
         /\ Statement(r) = "saveSession" => call[r].op \in {"login", "refresh"}
         /\ Statement(r) \in {"findSessions", "closeSessions"} => Changer(r)
         /\ Statement(r) \in {"findLinks", "closeLinks"} => Changer(r) \/ call[r].op = "requestReset"
         /\ Statement(r) = "saveLink" => call[r].op = "requestReset"
BY Placed DEF Slot, StatementsOf, Ops, Presents, Changer, Changes

\* A statement of r that goes through.
Forward(r) ==
  /\ Busy(r) /\ Statement(r) # "commit" /\ call' = call /\ Advance(r) /\ Quiet(r)
  /\ seen' \in [Requests -> Seen] /\ writes' \in [Requests -> Own]
  /\ UNCHANGED <<now, calls, locked>>

LEMMA ForwardControl ==
  ASSUME Base, NEW r \in Requests, Forward(r)
  PROVE  /\ Typed' /\ Position(r)' /\ Busy(r)' /\ Started(r)'
         /\ Statement(r)' = After(call[r].op, Statement(r))
         /\ (Presents(r)' <=> Presents(r)) /\ (Changer(r)' <=> Changer(r))
<1>1. Typed /\ Slot(r)
  BY DEF Base
<1>2. /\ todo' \in [Requests -> Seq(Statements)] /\ Position(r)' /\ Busy(r)' /\ Started(r)'
      /\ Statement(r)' = After(call[r].op, Statement(r))
  BY <1>1, Advanced DEF Forward, Slot
<1>3. TypeOK'
  BY <1>1 DEF Typed, TypeOK, Forward, Quiet, database, Rows
<1>4. locked' \in [Requests -> SUBSET ({"session", "link"} \X Nat)]
  BY <1>1 DEF Typed, Forward
<1> QED
  BY <1>2, <1>3, <1>4 DEF Typed, Forward, Presents, Changer

\* An idle slot, or one that has read nothing.
LEMMA IdleSlot ==
  ASSUME Typed', NEW r \in Requests, Position(r)', Given(r)', ~ Started(r)',
         seen'[r] = NothingSeen, writes'[r] = NoWrites, locked'[r] = {}
  PROVE  Slot(r)'
<1>1. DOMAIN writes'[r].account = {} /\ DOMAIN writes'[r].session = {} /\ DOMAIN writes'[r].link = {}
  BY DEF NoWrites
<1>2. seen'[r].doomed = {}
  BY DEF NothingSeen
<1> QED
  BY <1>1, <1>2
  DEF Slot, Blank, Informed, AccountWrites, Saved, Inserted, SessionWrites, LinkWrites, Spends, Locks

\* A statement leaves what was locked; the links come last.
LEMMA LocksStay ==
  ASSUME Base, NEW r \in Requests, Forward(r), Started(r) => seen'[r].user = seen[r].user
  PROVE  Locks(r)'
<1>1. Typed /\ Slot(r)
  BY DEF Base
<1>2. /\ Started(r)' /\ Statement(r)' = After(call[r].op, Statement(r)) /\ (Changer(r)' <=> Changer(r))
      /\ call'[r] = call[r] /\ session' = session /\ link' = link /\ locked' = locked
  BY ForwardControl DEF Forward, Quiet, database
<1>3. CASE ~ Started(r)
  BY <1>1, <1>2, <1>3 DEF Slot, Locks
<1>4. CASE Started(r)
  <2>1. /\ call[r].op \in Ops /\ Statement(r) \in StatementsOf(call[r].op) \ {"commit"}
        /\ Statement(r) \notin Firsts
    BY <1>1, <1>4, Placed DEF Slot, Forward, Started
  <2>2. Saved(r) => Saved(r)'
    BY <1>2, <2>1 DEF Saved, Changer, Changes, StatementsOf, Firsts, After
  <2>3. Statement(r) = "closeLinks" \/ PastLinks(r) => PastLinks(r)'
    BY <1>2, <2>1 DEF PastLinks, StatementsOf, Ops, Firsts, After
  <2>4. PastLinks(r)' => Statement(r)' # "closeLinks"
    BY DEF PastLinks
  <2> QED
    BY <1>1, <1>2, <1>4, <2>2, <2>3, <2>4 DEF Slot, Locks, Rows
<1> QED
  BY <1>3, <1>4

LEMMA FirstRead ==
  ASSUME Base, NEW r \in Requests, Forward(r), Statement(r) \in Firsts, writes' = writes,
         Informed(r)'
  PROVE  Slot(r)'
<1>1. Typed /\ Slot(r)
  BY DEF Base
<1>2. /\ Typed' /\ Position(r)' /\ Busy(r)' /\ Started(r)'
      /\ Statement(r)' = After(call[r].op, Statement(r))
      /\ (Presents(r)' <=> Presents(r)) /\ (Changer(r)' <=> Changer(r))
  BY ForwardControl
<1>3. DOMAIN writes'[r].account = {} /\ DOMAIN writes'[r].session = {} /\ DOMAIN writes'[r].link = {}
  BY <1>1 DEF NoWrites, Slot, Blank, Started
<1>4. call'[r] = call[r] /\ account' = account /\ session' = session /\ link' = link
  BY DEF Forward, Quiet, database
<1>5. /\ Statement(r)' \in {"saveSession", "readLatest", "insertUser", "revokeRead", "saveUser"}
      /\ Changer(r) => Statement(r)' = "saveUser"
      /\ Presents(r) => Statement(r)' = "revokeRead"
  BY <1>1, <1>2, Who DEF Firsts, After, Forward, Presents, Changer, Changes
<1>6. Given(r)'
  BY <1>1, <1>4 DEF Slot, Given, Presents, Rows
<1>7. AccountWrites(r)'
  BY <1>2, <1>3, <1>5 DEF AccountWrites, Saved, Inserted
<1>8. SessionWrites(r)'
  BY <1>2, <1>3, <1>5 DEF SessionWrites
<1>9. LinkWrites(r)'
  BY <1>2, <1>3, <1>5 DEF LinkWrites
<1>10. Spends(r)'
  BY <1>2, <1>4, <1>5 DEF Spends, Changer, Changes
<1>11. Locks(r)'
  BY LocksStay DEF Started
<1> QED
  BY <1>2, <1>6, <1>7, <1>8, <1>9, <1>10, <1>11 DEF Slot, Blank

LEMMA ReadsForward ==
  ASSUME Base, NEW r \in Requests, Busy(r), Statement(r) # "commit",
         NEW what \in Seen, Reads(r, what)
  PROVE  Forward(r) /\ writes' = writes /\ seen' = [seen EXCEPT ![r] = what] /\ seen'[r] = what
<1>1. seen \in [Requests -> Seen] /\ writes \in [Requests -> Own] /\ todo \in [Requests -> Seq(Statements)]
  BY DEF Base, Typed
<1>2. Quiet(r)
  BY <1>1 DEF Reads, Quiet, Grown, Advance, history
<1> QED
  BY <1>1, <1>2 DEF Forward, Reads, history

LEMMA WritesForward ==
  ASSUME Base, NEW r \in Requests, Busy(r), Statement(r) # "commit",
         NEW what \in Own, Writes(r, what)
  PROVE  Forward(r) /\ seen' = seen /\ writes'[r] = what
<1>1. seen \in [Requests -> Seen] /\ writes \in [Requests -> Own] /\ todo \in [Requests -> Seq(Statements)]
  BY DEF Base, Typed
<1>2. Quiet(r)
  BY <1>1 DEF Writes, Quiet, Grown, Advance, history
<1> QED
  BY <1>1, <1>2 DEF Forward, Writes, history

\* Several slots see something: r what it reads, the slots in S that it is there.
LEMMA NoticesForward ==
  ASSUME Base, NEW r \in Requests, Busy(r), Statement(r) # "commit",
         NEW what \in Seen, NEW S, NEW sign \in {"change", "rival"},
         \A o \in S \cap Requests : o # r => Started(o),
         seen' = [o \in Requests |->
                    IF o = r THEN what
                    ELSE IF o \in S THEN [seen[o] EXCEPT !.during = @ \cup {sign}]
                    ELSE seen[o]],
         Advance(r), UNCHANGED <<now, database, mailed, call, writes, locked, history>>
  PROVE  Forward(r) /\ writes' = writes /\ seen'[r] = what
<1>1. seen \in [Requests -> Seen] /\ writes \in [Requests -> Own] /\ todo \in [Requests -> Seq(Statements)]
  BY DEF Base, Typed
<1>2. \A o \in Requests : [seen[o] EXCEPT !.during = @ \cup {sign}] \in Seen
  BY <1>1 DEF Seen, During
<1>3. seen' \in [Requests -> Seen]
  BY <1>1, <1>2
<1>4. \A o \in Requests \ {r} : Grown(o)
  <2> SUFFICES ASSUME NEW o \in Requests \ {r} PROVE Grown(o)
    OBVIOUS
  <2>1. CASE o \in S
    <3>1. seen'[o] = [seen[o] EXCEPT !.during = @ \cup {sign}] /\ Started(o)
      BY <2>1
    <3> QED
      BY <1>1, <3>1 DEF Grown, Seen
  <2>2. CASE o \notin S
    BY <2>2 DEF Grown
  <2> QED
    BY <2>1, <2>2
<1>5. Quiet(r)
  BY <1>1, <1>4 DEF Quiet, Advance, history
<1> QED
  BY <1>1, <1>3, <1>5 DEF Forward, history

LEMMA RegisteringStarted ==
  ASSUME Base, NEW r \in Requests, NEW o \in Registering(r)
  PROVE  o \in Requests \ {r} /\ call[o].op = "register" /\ Started(o)
<1>1. o \in Requests \ {r} /\ call[o].op = "register" /\ Statement(o) # "readEmail"
  BY DEF Registering
<1>2. Busy(o)
  BY <1>1, NoCallIsNoCall DEF Busy
<1>3. Statement(o) \in StatementsOf("register")
  BY <1>1, <1>2, Placed DEF Base, Slot
<1> QED
  BY <1>1, <1>2, <1>3 DEF Started, StatementsOf, Firsts

\* What readEmail shows to login and to requestReset.
Shown(r, u) ==
  [seen[r] EXCEPT !.user = u, !.row = account[u],
     !.during = Amid(u, IF call[r].op = "login" THEN "sessions" ELSE "links")]

LEMMA ReadEmailStep ==
  ASSUME Base, NEW r \in Requests, ReadEmail(r)
  PROVE  \/ Abort(r)
         \/ /\ Forward(r) /\ writes' = writes /\ Slot(r)' /\ Statement(r) = "readEmail"
            /\ \/ /\ call[r].op = "register" /\ Owners(call[r].email) = {}
                  /\ seen' = [o \in Requests |->
                       IF o = r THEN [seen[r] EXCEPT !.during = Beside(Registering(r))]
                       ELSE IF o \in Registering(r) THEN [seen[o] EXCEPT !.during = @ \cup {"rival"}]
                       ELSE seen[o]]
               \/ /\ call[r].op \in {"login", "requestReset"}
                  /\ \E u \in Rows(account) : seen' = [seen EXCEPT ![r] = Shown(r, u)]
<1>1. Typed /\ Slot(r) /\ seen[r] \in Seen
  BY SlotFields DEF Base
<1>2. Busy(r) /\ Statement(r) = "readEmail" /\ Statement(r) \in Firsts
  BY DEF ReadEmail, At, Firsts
<1>3. call[r].op \in {"login", "requestReset", "register"}
  BY <1>1, <1>2, Who
<1>4. CASE /\ call[r].op = "register" /\ Owners(call[r].email) = {}
           /\ seen' = [o \in Requests |->
                IF o = r THEN [seen[r] EXCEPT !.during = Beside(Registering(r))]
                ELSE IF o \in Registering(r) THEN [seen[o] EXCEPT !.during = @ \cup {"rival"}]
                ELSE seen[o]]
           /\ Advance(r)
           /\ UNCHANGED <<now, database, mailed, call, writes, locked, history>>
  <2> DEFINE what == [seen[r] EXCEPT !.during = Beside(Registering(r))]
  <2>1. what \in Seen
    BY <1>1 DEF Seen, Beside, During
  <2> HIDE DEF what
  <2>2. seen' = [o \in Requests |->
                   IF o = r THEN what
                   ELSE IF o \in Registering(r) THEN [seen[o] EXCEPT !.during = @ \cup {"rival"}]
                   ELSE seen[o]]
    BY <1>4 DEF what
  <2>3. Forward(r) /\ writes' = writes
    BY <1>2, <1>4, <2>1, <2>2, RegisteringStarted, NoticesForward
  <2>4. Informed(r)'
    BY <1>4 DEF Informed, Presents, Changer, Changes
  <2>5. Slot(r)'
    BY <1>2, <2>3, <2>4, FirstRead
  <2> QED
    BY <1>2, <1>4, <2>3, <2>5
<1>5. CASE /\ call[r].op # "register"
           /\ \E u \in Owners(call[r].email) :
                IF call[r].op = "login" /\ account[u].secret # call[r].secret THEN Abort(r)
                ELSE Reads(r, Shown(r, u))
  <2>1. PICK u \in Owners(call[r].email) :
          IF call[r].op = "login" /\ account[u].secret # call[r].secret THEN Abort(r)
          ELSE Reads(r, Shown(r, u))
    BY <1>5
  <2>2. u \in Rows(account) /\ account[u] \in Account /\ u \in Accounts
    BY <1>1, RowFields DEF Owners
  <2>3. Shown(r, u) \in Seen /\ Shown(r, u).user = u /\ Shown(r, u).row = account[u]
    BY <1>1, <2>2 DEF Seen, Amid, During, Shown
  <2>4. CASE Reads(r, Shown(r, u))
    <3>1. Forward(r) /\ writes' = writes
          /\ seen' = [seen EXCEPT ![r] = Shown(r, u)] /\ seen'[r] = Shown(r, u)
      BY <1>2, <2>3, <2>4, ReadsForward
    <3>2. Informed(r)'
      BY <1>3, <1>5, <2>2, <2>3, <3>1
         DEF Informed, Presents, Changer, Changes, Forward, Quiet, database, Rows
    <3>3. Slot(r)'
      BY <1>2, <3>1, <3>2, FirstRead
    <3> QED
      BY <1>2, <1>3, <1>5, <2>2, <3>1, <3>3
  <2> QED
    BY <2>1, <2>4
<1> QED
  BY <1>4, <1>5 DEF ReadEmail, Shown

LEMMA ReadUserStep ==
  ASSUME Base, NEW r \in Requests, ReadUser(r)
  PROVE  \/ Abort(r)
         \/ /\ Forward(r) /\ writes' = writes /\ Slot(r)'
            /\ Statement(r) = "readUser" /\ call[r].op = "changePassword"
            /\ call[r].user \in Rows(account)
            /\ seen' = [seen EXCEPT ![r] =
                 [seen[r] EXCEPT !.user = call[r].user, !.row = account[call[r].user]]]
<1>1. Typed /\ Slot(r) /\ seen[r] \in Seen
  BY SlotFields DEF Base
<1>2. Busy(r) /\ Statement(r) = "readUser" /\ Statement(r) \in Firsts
  BY DEF ReadUser, At, Firsts
<1>3. call[r].op = "changePassword"
  BY <1>1, <1>2, Who
<1> DEFINE u == call[r].user
           what == [seen[r] EXCEPT !.user = u, !.row = account[u]]
<1>4. u \in Rows(account) /\ u \in Accounts /\ account[u] \in Account
  BY <1>1, <1>3, RowFields DEF Slot, Given
<1>5. what \in Seen /\ what.user = u /\ what.row = account[u]
  BY <1>1, <1>4 DEF Seen
<1>6. Abort(r) \/ Reads(r, what)
  BY DEF ReadUser
<1> HIDE DEF what
<1>7. CASE Reads(r, what)
  <2>1. Forward(r) /\ writes' = writes /\ seen' = [seen EXCEPT ![r] = what] /\ seen'[r] = what
    BY <1>2, <1>5, <1>7, ReadsForward
  <2>2. Informed(r)'
    BY <1>3, <1>4, <1>5, <2>1
       DEF Informed, Presents, Changer, Changes, Forward, Quiet, database, Rows
  <2>3. Slot(r)'
    BY <1>2, <2>1, <2>2, FirstRead
  <2> QED
    BY <1>2, <1>3, <1>4, <2>1, <2>3 DEF what
<1> QED
  BY <1>6, <1>7

LEMMA ReadSessionStep ==
  ASSUME Base, NEW r \in Requests, ReadSession(r)
  PROVE  \/ Abort(r)
         \/ /\ Forward(r) /\ writes' = writes /\ Slot(r)'
            /\ Statement(r) = "readSession" /\ Presents(r)
            /\ call[r].token \in Rows(session) /\ ~ session[call[r].token].revoked
            /\ seen' = [seen EXCEPT ![r] =
                 [seen[r] EXCEPT
                    !.user = session[call[r].token].user, !.row = session[call[r].token],
                    !.during = session[call[r].token].during
                                 \cup Amid(session[call[r].token].user, "sessions")]]
<1>1. Typed /\ Slot(r) /\ seen[r] \in Seen
  BY SlotFields DEF Base
<1>2. Busy(r) /\ Statement(r) = "readSession" /\ Statement(r) \in Firsts
  BY DEF ReadSession, At, Firsts
<1>3. Presents(r)
  BY <1>1, <1>2, Who
<1> DEFINE row == session[call[r].token]
           what == [seen[r] EXCEPT !.user = row.user, !.row = row,
                      !.during = row.during \cup Amid(row.user, "sessions")]
<1>4. call[r].token \in Rows(session) /\ row \in Session
  BY <1>1, <1>3, RowFields DEF Slot, Given
<1>5. row.user \in Accounts /\ row.user \in Rows(account) /\ row.during \in During
  BY <1>4 DEF Session, Base, Grounded
<1>6. what \in Seen /\ what.user = row.user /\ what.row = row
  BY <1>1, <1>4, <1>5 DEF Seen, Amid, During
<1>7. Abort(r) \/ (Reads(r, what) /\ ~ row.revoked)
  <2>1. IF ~ Active(row) THEN Abort(r) ELSE Reads(r, what)
    BY DEF ReadSession
  <2> QED
    BY <1>4, <2>1 DEF Active, Session
<1> HIDE DEF what
<1>8. CASE Reads(r, what) /\ ~ row.revoked
  <2>1. Forward(r) /\ writes' = writes /\ seen' = [seen EXCEPT ![r] = what] /\ seen'[r] = what
    BY <1>2, <1>6, <1>8, ReadsForward
  <2>2. Informed(r)'
    BY <1>3, <1>4, <1>5, <1>6, <2>1
       DEF Informed, Presents, Changer, Changes, Forward, Quiet, database, Rows
  <2>3. Slot(r)'
    BY <1>2, <2>1, <2>2, FirstRead
  <2> QED
    BY <1>2, <1>3, <1>4, <1>8, <2>1, <2>3 DEF what
<1> QED
  BY <1>7, <1>8

LEMMA ReadLinkStep ==
  ASSUME Base, NEW r \in Requests, ReadLink(r)
  PROVE  \/ Abort(r)
         \/ /\ Forward(r) /\ writes' = writes /\ Slot(r)'
            /\ Statement(r) = "readLink" /\ call[r].op = "resetPassword"
            /\ call[r].link \in Rows(link)
            /\ seen' = [seen EXCEPT ![r] =
                 [seen[r] EXCEPT !.user = link[call[r].link].user,
                    !.row = account[link[call[r].link].user]]]
<1>1. Typed /\ Slot(r) /\ seen[r] \in Seen
  BY SlotFields DEF Base
<1>2. Busy(r) /\ Statement(r) = "readLink" /\ Statement(r) \in Firsts
  BY DEF ReadLink, At, Firsts
<1>3. call[r].op = "resetPassword"
  BY <1>1, <1>2, Who
<1> DEFINE u == link[call[r].link].user
           what == [seen[r] EXCEPT !.user = u, !.row = account[u]]
<1>4. call[r].link \in Rows(link)
  BY <1>1, <1>3, RowFields DEF Slot, Given
<1>5. u \in Rows(account) /\ u \in Accounts /\ account[u] \in Account
  BY <1>1, <1>4, RowFields DEF Base, Grounded
<1>6. what \in Seen /\ what.user = u /\ what.row = account[u]
  BY <1>1, <1>5 DEF Seen
<1>7. Abort(r) \/ Reads(r, what)
  BY DEF ReadLink
<1> HIDE DEF what
<1>8. CASE Reads(r, what)
  <2>1. Forward(r) /\ writes' = writes /\ seen' = [seen EXCEPT ![r] = what] /\ seen'[r] = what
    BY <1>2, <1>6, <1>8, ReadsForward
  <2>2. Informed(r)'
    BY <1>3, <1>4, <1>5, <1>6, <2>1
       DEF Informed, Presents, Changer, Changes, Forward, Quiet, database, Rows
  <2>3. Slot(r)'
    BY <1>2, <2>1, <2>2, FirstRead
  <2> QED
    BY <1>2, <1>3, <1>4, <2>1, <2>3 DEF what
<1> QED
  BY <1>7, <1>8

\* A sweep sees the calls that are issuing: they have read.
LEMMA IssuersStarted ==
  ASSUME Base, NEW r \in Requests, Started(r), call[r].op # "register",
         NEW o \in Requests, seen[o].user = seen[r].user
  PROVE  Started(o)
<1>1. seen[r].user \in Rows(account) /\ Rows(account) \subseteq Accounts
  BY RowFields DEF Base, Slot, Informed
<1>2. seen[o].user # 0
  BY <1>1, Constants
<1> QED
  BY <1>2 DEF Base, Slot, Blank, NothingSeen

LEMMA SweepForward ==
  ASSUME Base, NEW r \in Requests, Started(r), Statement(r) # "commit", call[r].op # "register",
         NEW kind \in {"sessions", "links"}, NEW doomed \in SUBSET Nat, Sweep(r, kind, doomed)
  PROVE  /\ Forward(r) /\ writes' = writes
         /\ seen'[r] = [seen[r] EXCEPT !.doomed = doomed, !.swept = @ \cup {kind}]
<1> DEFINE what == [seen[r] EXCEPT !.doomed = doomed, !.swept = @ \cup {kind}]
           late == {o \in Requests : seen[o].user = seen[r].user /\ Issues(call[o].op, kind)}
           S == IF Changes(call[r].op) THEN late ELSE {}
<1>1. seen[r] \in Seen
  BY SlotFields DEF Base
<1>2. what \in Seen
  BY <1>1 DEF Seen
<1>3. \A o \in S \cap Requests : o # r => Started(o)
  BY IssuersStarted
<1>4. /\ seen' = [o \in Requests |->
                    IF o = r THEN what
                    ELSE IF o \in late /\ Changes(call[r].op)
                         THEN [seen[o] EXCEPT !.during = @ \cup {"change"}]
                    ELSE seen[o]]
      /\ Advance(r) /\ UNCHANGED <<now, database, mailed, call, writes, locked, history>>
  BY DEF Sweep
<1> HIDE DEF what, late
<1>5. seen' = [o \in Requests |->
                 IF o = r THEN what
                 ELSE IF o \in S THEN [seen[o] EXCEPT !.during = @ \cup {"change"}]
                 ELSE seen[o]]
  BY <1>4
<1> HIDE DEF S
<1>6. Forward(r) /\ writes' = writes /\ seen'[r] = what
  BY <1>2, <1>3, <1>4, <1>5, NoticesForward DEF Started
<1> QED
  BY <1>6 DEF what

\* A read that follows others: what was read before stays.
LEMMA LaterRead ==
  ASSUME Base, NEW r \in Requests, Forward(r), Started(r), writes' = writes,
         Statement(r) \in {"findSessions", "findLinks", "readLatest"},
         seen'[r].user = seen[r].user, seen'[r].row = seen[r].row, seen'[r].stale = seen[r].stale,
         Statement(r) = "findSessions" =>
           \A t \in seen'[r].doomed : t \in Rows(session) /\ session[t].user = seen[r].user,
         Statement(r) = "findLinks" =>
           /\ \A l \in seen'[r].doomed : l \in Rows(link) /\ link[l].user = seen[r].user
           /\ call[r].op = "resetPassword" =>
                link[call[r].link].used \/ call[r].link \in seen'[r].doomed
  PROVE  Slot(r)'
<1>1. Typed /\ Slot(r)
  BY DEF Base
<1>2. /\ Typed' /\ Position(r)' /\ Busy(r)' /\ Started(r)'
      /\ Statement(r)' = After(call[r].op, Statement(r))
      /\ (Presents(r)' <=> Presents(r)) /\ (Changer(r)' <=> Changer(r))
  BY ForwardControl
<1>3. call'[r] = call[r] /\ account' = account /\ session' = session /\ link' = link
  BY DEF Forward, Quiet, database
<1>4. /\ Statement(r) = "findSessions" => Statement(r)' = "closeSessions" /\ Changer(r)
      /\ Statement(r) = "findLinks" =>
           Statement(r)' = "closeLinks" /\ (Changer(r) \/ call[r].op = "requestReset")
      /\ Statement(r) = "readLatest" => Statement(r)' = "findLinks" /\ call[r].op = "requestReset"
  BY <1>1, <1>2, Who DEF After, Forward
<1>5. Given(r)'
  BY <1>1, <1>3 DEF Slot, Given, Presents, Rows
<1>6. Informed(r)'
  BY <1>1, <1>2, <1>3 DEF Slot, Informed, Rows
<1>7. AccountWrites(r)'
  <2>1. (Saved(r)' <=> Saved(r)) /\ ~ Inserted(r)' /\ ~ Inserted(r)
    BY <1>2, <1>4 DEF Saved, Inserted
  <2> QED
    BY <1>1, <1>3, <2>1 DEF Slot, AccountWrites, Rows
<1>8. SessionWrites(r)'
  <2>1. \A t : ~ Issued(r, t) /\ ~ Issued(r, t)'
    BY <1>4 DEF Issued
  <2>2. \A t : Revokes(r, t)' <=> Revokes(r, t)
    BY <1>2, <1>3 DEF Revokes, Rows
  <2>3. ~ Presents(r)
    BY <1>4 DEF Presents, Changer, Changes
  <2>4. /\ \A t \in DOMAIN writes[r].session : Issued(r, t) \/ Revokes(r, t)
        /\ \A t, x \in DOMAIN writes[r].session : t \notin Rows(session) /\ x \notin Rows(session) => t = x
    BY <1>1 DEF Slot, SessionWrites
  <2> QED
    BY <1>2, <1>3, <1>4, <2>1, <2>2, <2>3, <2>4 DEF SessionWrites, Rows
<1>9. LinkWrites(r)'
  <2>1. \A l : ~ Sends(r, l) /\ ~ Sends(r, l)'
    BY <1>4 DEF Sends
  <2>2. \A l : Marks(r, l)' <=> Marks(r, l)
    BY <1>2, <1>3 DEF Marks, Rows
  <2>3. PastLinks(r)' <=> PastLinks(r)
    BY <1>2, <1>3, <1>4 DEF PastLinks, Changer, Changes
  <2> QED
    BY <1>1, <1>3, <1>4, <2>1, <2>2, <2>3 DEF Slot, LinkWrites, Rows
<1>10. Spends(r)'
  BY <1>1, <1>2, <1>3, <1>4 DEF Slot, Spends
<1>11. Locks(r)'
  BY LocksStay
<1> QED
  BY <1>2, <1>5, <1>6, <1>7, <1>8, <1>9, <1>10, <1>11 DEF Slot, Blank

LEMMA FindSessionsStep ==
  ASSUME Base, NEW r \in Requests, FindSessions(r)
  PROVE  /\ Forward(r) /\ writes' = writes /\ Slot(r)'
         /\ Statement(r) = "findSessions" /\ Changer(r) /\ Started(r)
         /\ seen'[r] = [seen[r] EXCEPT !.doomed = SessionsToClose(r), !.swept = @ \cup {"sessions"}]
<1>1. Typed /\ Slot(r) /\ seen[r] \in Seen
  BY SlotFields DEF Base
<1>2. Busy(r) /\ Statement(r) = "findSessions" /\ Started(r)
  BY DEF FindSessions, At, Firsts, Started
<1>3. Changer(r) /\ call[r].op # "register"
  BY <1>1, <1>2, Who DEF Changer, Changes
<1>4. SessionsToClose(r) \in SUBSET Nat
  BY <1>1, RowFields, Constants DEF SessionsToClose
<1>5. /\ Forward(r) /\ writes' = writes
      /\ seen'[r] = [seen[r] EXCEPT !.doomed = SessionsToClose(r), !.swept = @ \cup {"sessions"}]
  BY <1>2, <1>3, <1>4, SweepForward DEF FindSessions
<1>6. /\ seen'[r].user = seen[r].user /\ seen'[r].row = seen[r].row /\ seen'[r].stale = seen[r].stale
      /\ seen'[r].doomed = SessionsToClose(r)
  BY <1>1, <1>5 DEF Seen
<1>7. Slot(r)'
  BY <1>2, <1>5, <1>6, LaterRead DEF SessionsToClose
<1> QED
  BY <1>2, <1>3, <1>5, <1>7

LEMMA FindLinksStep ==
  ASSUME Base, NEW r \in Requests, FindLinks(r)
  PROVE  /\ Forward(r) /\ writes' = writes /\ Slot(r)'
         /\ Statement(r) = "findLinks" /\ Started(r)
         /\ Changer(r) \/ call[r].op = "requestReset"
         /\ seen'[r] = [seen[r] EXCEPT !.doomed = {l \in LinksTo(seen[r].user) : ~ link[l].used},
                                       !.swept = @ \cup {"links"}]
<1>1. Typed /\ Slot(r) /\ seen[r] \in Seen
  BY SlotFields DEF Base
<1>2. Busy(r) /\ Statement(r) = "findLinks" /\ Started(r)
  BY DEF FindLinks, At, Firsts, Started
<1>3. (Changer(r) \/ call[r].op = "requestReset") /\ call[r].op # "register"
  BY <1>1, <1>2, Who DEF Changer, Changes
<1> DEFINE doomed == {l \in LinksTo(seen[r].user) : ~ link[l].used}
<1>4. doomed \in SUBSET Nat
  BY <1>1, RowFields, Constants DEF LinksTo
<1>5. /\ Forward(r) /\ writes' = writes
      /\ seen'[r] = [seen[r] EXCEPT !.doomed = doomed, !.swept = @ \cup {"links"}]
  BY <1>2, <1>3, <1>4, SweepForward DEF FindLinks
<1>6. /\ seen'[r].user = seen[r].user /\ seen'[r].row = seen[r].row /\ seen'[r].stale = seen[r].stale
      /\ seen'[r].doomed = doomed
  BY <1>1, <1>5 DEF Seen
<1>7. \A l \in doomed : l \in Rows(link) /\ link[l].user = seen[r].user
  BY DEF LinksTo
<1>8. call[r].op = "resetPassword" => link[call[r].link].used \/ call[r].link \in doomed
  BY <1>1, <1>2 DEF Slot, Given, Informed, LinksTo
<1> HIDE DEF doomed
<1>9. Slot(r)'
  BY <1>2, <1>5, <1>6, <1>7, <1>8, LaterRead
<1> QED
  BY <1>2, <1>3, <1>5, <1>9 DEF doomed

LEMMA RivalsStarted ==
  ASSUME Base, NEW r \in Requests, NEW o \in Rivals(r)
  PROVE  /\ o \in Requests \ {r} /\ call[o].op = "requestReset" /\ seen[o].user = seen[r].user
         /\ Started(o) /\ Statement(o) # "readLatest"
<1>1. /\ o \in Requests \ {r} /\ call[o].op = "requestReset" /\ seen[o].user = seen[r].user
      /\ Statement(o) \notin {"readEmail", "readLatest"}
  BY DEF Rivals
<1>2. Busy(o)
  BY <1>1, NoCallIsNoCall DEF Busy
<1>3. Statement(o) \in StatementsOf("requestReset")
  BY <1>1, <1>2, Placed DEF Base, Slot
<1> QED
  BY <1>1, <1>2, <1>3 DEF Started, StatementsOf, Firsts

LEMMA ReadLatestStep ==
  ASSUME Base, NEW r \in Requests, ReadLatest(r)
  PROVE  \/ Abort(r)
         \/ /\ Forward(r) /\ writes' = writes /\ Slot(r)'
            /\ Statement(r) = "readLatest" /\ Started(r) /\ call[r].op = "requestReset"
            /\ ~ CoolingDown(seen[r].user)
            /\ seen' = [o \in Requests |->
                 IF o = r THEN [seen[r] EXCEPT !.now = now, !.during = @ \cup Beside(Rivals(r))]
                 ELSE IF o \in Rivals(r) THEN [seen[o] EXCEPT !.during = @ \cup {"rival"}]
                 ELSE seen[o]]
<1>1. Typed /\ Slot(r) /\ seen[r] \in Seen
  BY SlotFields DEF Base
<1>2. Busy(r) /\ Statement(r) = "readLatest" /\ Started(r)
  BY DEF ReadLatest, At, Firsts, Started
<1>3. call[r].op = "requestReset"
  BY <1>1, <1>2, Who
<1> DEFINE what == [seen[r] EXCEPT !.now = now, !.during = @ \cup Beside(Rivals(r))]
<1>4. what \in Seen
  <2>1. now \in Nat
    BY <1>1, Constants DEF Typed, TypeOK
  <2> QED
    BY <1>1, <2>1 DEF Seen, Beside, During
<1>5. what.user = seen[r].user /\ what.row = seen[r].row /\ what.stale = seen[r].stale
  BY <1>1 DEF Seen
<1>6. CASE /\ ~ CoolingDown(seen[r].user)
           /\ seen' = [o \in Requests |->
                IF o = r THEN [seen[r] EXCEPT !.now = now, !.during = @ \cup Beside(Rivals(r))]
                ELSE IF o \in Rivals(r) THEN [seen[o] EXCEPT !.during = @ \cup {"rival"}]
                ELSE seen[o]]
           /\ Advance(r)
           /\ UNCHANGED <<now, database, mailed, call, writes, locked, history>>
  <2> HIDE DEF what
  <2>1. seen' = [o \in Requests |->
                   IF o = r THEN what
                   ELSE IF o \in Rivals(r) THEN [seen[o] EXCEPT !.during = @ \cup {"rival"}]
                   ELSE seen[o]]
    BY <1>6 DEF what
  <2>2. Forward(r) /\ writes' = writes /\ seen'[r] = what
    <3>1. \A o \in Rivals(r) \cap Requests : o # r => Started(o)
      BY RivalsStarted
    <3> DEFINE S == Rivals(r)
    <3>2. /\ seen' = [o \in Requests |->
                        IF o = r THEN what
                        ELSE IF o \in S THEN [seen[o] EXCEPT !.during = @ \cup {"rival"}]
                        ELSE seen[o]]
          /\ Advance(r) /\ UNCHANGED <<now, database, mailed, call, writes, locked, history>>
      BY <1>6, <2>1
    <3> HIDE DEF S
    <3> QED
      BY <1>2, <1>4, <3>1, <3>2, NoticesForward DEF S
  <2>3. Slot(r)'
    BY <1>2, <1>5, <2>2, LaterRead
  <2> QED
    BY <1>2, <1>3, <1>6, <2>2, <2>3
<1> QED
  BY <1>6 DEF ReadLatest

LEMMA NotHeld ==
  ASSUME NEW r \in Requests, NEW o \in Requests \ {r}, ~ WaitsFor(r, o)
  PROVE  /\ Statement(r) = "saveUser" => seen[r].user \notin DOMAIN writes[o].account
         /\ Statement(r) = "insertUser" /\ call[o].op = "register" /\ DOMAIN writes[o].account # {} =>
              call[o].email # call[r].email
         /\ Statement(r) = "revokeRead" =>
              /\ call[r].token \notin DOMAIN writes[o].session
              /\ <<"session", call[r].token>> \notin locked[o]
<1>1. Wants(r) \cap Holds(o) = {}
  BY DEF WaitsFor
<1>2. /\ \A u \in DOMAIN writes[o].account : <<"user", u>> \in Holds(o)
      /\ \A t \in DOMAIN writes[o].session : <<"session", t>> \in Holds(o)
      /\ locked[o] \subseteq Holds(o)
      /\ call[o].op = "register" /\ DOMAIN writes[o].account # {} => <<"email", call[o].email>> \in Holds(o)
  BY DEF Holds
<1>3. /\ Statement(r) = "saveUser" => <<"user", seen[r].user>> \in Wants(r)
      /\ Statement(r) = "insertUser" => <<"email", call[r].email>> \in Wants(r)
      /\ Statement(r) = "revokeRead" => <<"session", call[r].token>> \in Wants(r)
  BY DEF Wants
<1> QED
  BY <1>1, <1>2, <1>3

\* While a row is not locked, the updateMany wants the first of them.
LEMMA FirstLeft ==
  ASSUME Base, NEW r \in Requests, NEW table \in {"session", "link"}
  PROVE  /\ NextOf(r, table) = {} => \A x \in seen[r].doomed : <<table, x>> \in locked[r]
         /\ \A y \in NextOf(r, table) :
              \E x \in seen[r].doomed :
                /\ y = <<table, x>> /\ y \notin locked[r] /\ x \in Nat
                /\ NextOf(r, table) = {y}
                /\ \A z \in seen[r].doomed : <<table, z>> \in locked[r] \/ z = x \/ x < z
<1> DEFINE left == {x \in seen[r].doomed : <<table, x>> \notin locked[r]}
           first == {y \in left : \A z \in left : y <= z}
<1>1. seen[r].doomed \subseteq Nat
  BY SlotFields, SeenFields DEF Base
<1>2. NextOf(r, table) = {<<table, x>> : x \in first}
  BY DEF NextOf
<1>3. left # {} => first # {}
  <2>1. \A i \in left : i \in Nat
    BY <1>1
  <2> SUFFICES ASSUME left # {} PROVE first # {}
    OBVIOUS
  <2>2. NextId(left, {}) \in left
    <3> HIDE DEF left
    <3> QED
      BY <2>1, NextIdIsLeft
  <2>3. IsWellFoundedOn(OpToRel(<, Nat), Nat)
    BY NatLessThanWellFounded
  <2>4. \E i \in left : \A j \in left : ~ (<<j, i>> \in OpToRel(<, Nat))
    <3> HIDE DEF left
    <3> QED
      BY <2>1, <2>3, WFMin
  <2>5. PICK i \in left : \A j \in left : ~ (<<j, i>> \in OpToRel(<, Nat))
    BY <2>4
  <2>6. \A j \in left : ~ (j < i)
    <3> HIDE DEF left
    <3> QED
      BY <2>1, <2>5 DEF OpToRel
  <2>7. \A j \in left : i <= j
    <3> HIDE DEF left
    <3> QED
      BY <2>1, <2>6
  <2>8. i \in first
    BY <2>7
  <2> QED
    BY <2>8
<1>4. ASSUME NEW x \in first
      PROVE  /\ x \in seen[r].doomed /\ <<table, x>> \notin locked[r] /\ x \in Nat /\ first = {x}
             /\ \A z \in seen[r].doomed : <<table, z>> \in locked[r] \/ z = x \/ x < z
  BY <1>1, <1>4
<1> HIDE DEF left, first
<1>5. NextOf(r, table) = {} => first = {}
  BY <1>2
<1>6. ASSUME NEW y \in NextOf(r, table)
      PROVE  \E x \in seen[r].doomed :
               /\ y = <<table, x>> /\ y \notin locked[r] /\ x \in Nat
               /\ NextOf(r, table) = {y}
               /\ \A z \in seen[r].doomed : <<table, z>> \in locked[r] \/ z = x \/ x < z
  <2>1. PICK x \in first : y = <<table, x>>
    BY <1>2, <1>6
  <2>2. NextOf(r, table) = {y}
    BY <1>2, <1>4, <2>1
  <2> QED
    BY <1>4, <2>1, <2>2
<1>7. left = {} => \A x \in seen[r].doomed : <<table, x>> \in locked[r]
  BY DEF left
<1> QED
  BY <1>3, <1>5, <1>6, <1>7

\* A write leaves what the slot read, and the tables it does not touch.
LEMMA LaterWrite ==
  ASSUME Base, NEW r \in Requests, Forward(r), Started(r),
         Statement(r) \notin {"findSessions", "findLinks"},
         seen'[r].user = seen[r].user, seen'[r].row = seen[r].row, seen'[r].doomed = seen[r].doomed
  PROVE  /\ Position(r)' /\ Blank(r)' /\ Given(r)' /\ Informed(r)' /\ Locks(r)'
         /\ writes'[r].account = writes[r].account /\ Statement(r) \notin {"saveUser", "insertUser"} =>
              AccountWrites(r)'
         /\ /\ writes'[r].session = writes[r].session
            /\ Statement(r) \notin {"revokeRead", "saveSession", "closeSessions"}
            => SessionWrites(r)'
         /\ writes'[r].link = writes[r].link /\ Statement(r) \notin {"closeLinks", "saveLink"} =>
              LinkWrites(r)'
         /\ writes'[r].link = writes[r].link /\ Statement(r) # "closeLinks" => Spends(r)'
<1>1. Typed /\ Slot(r)
  BY DEF Base
<1>2. /\ Typed' /\ Position(r)' /\ Busy(r)' /\ Started(r)'
      /\ Statement(r)' = After(call[r].op, Statement(r))
      /\ (Presents(r)' <=> Presents(r)) /\ (Changer(r)' <=> Changer(r))
  BY ForwardControl
<1>3. call'[r] = call[r] /\ account' = account /\ session' = session /\ link' = link
  BY DEF Forward, Quiet, database
<1>4. /\ Statement(r)' \notin {"saveUser", "closeSessions", "closeLinks"}
      /\ Statement(r) \in {"readLatest", "saveUser", "insertUser", "revokeRead", "saveSession",
                           "closeSessions", "closeLinks", "saveLink"}
      /\ Presents(r) => Statement(r) \in {"revokeRead", "saveSession"}
      /\ call[r].op = "register" <=> Statement(r) = "insertUser"
      /\ call[r].op = "resetPassword" => Statement(r) \in {"saveUser", "closeLinks", "closeSessions"}
      /\ call[r].op = "changePassword" => Statement(r) \in {"saveUser", "closeLinks", "closeSessions"}
      /\ call[r].op = "requestReset" => Statement(r) \in {"readLatest", "closeLinks", "saveLink"}
  <2>1. call[r].op \in Ops /\ Statement(r) \in StatementsOf(call[r].op) \ {"commit"} /\ Statement(r) \notin Firsts
    BY <1>1, Placed DEF Slot, Forward, Started
  <2>2. call[r].op \in Ops
    BY <2>1
  <2> QED
    BY <1>2, <2>1 DEF StatementsOf, Ops, Firsts, After, Presents
<1>5. Given(r)'
  BY <1>1, <1>3 DEF Slot, Given, Presents, Rows
<1>6. Informed(r)'
  BY <1>1, <1>2, <1>3 DEF Slot, Informed, Rows
<1>7. ASSUME writes'[r].account = writes[r].account, Statement(r) \notin {"saveUser", "insertUser"}
      PROVE  AccountWrites(r)'
  <2>1. (Saved(r)' <=> Saved(r)) /\ ~ Inserted(r)' /\ ~ Inserted(r)
    BY <1>2, <1>3, <1>4, <1>7 DEF Saved, Inserted
  <2> QED
    BY <1>1, <1>3, <1>7, <2>1 DEF Slot, AccountWrites, Rows
<1>8. ASSUME writes'[r].session = writes[r].session,
             Statement(r) \notin {"revokeRead", "saveSession", "closeSessions"}
      PROVE  SessionWrites(r)'
  <2>1. \A t : ~ Issued(r, t)
    BY DEF Issued, Forward
  <2>2. \A t : Revokes(r, t)' <=> Revokes(r, t)
    BY <1>2, <1>3, <1>8 DEF Revokes, Rows
  <2>3. ~ Presents(r)
    BY <1>4, <1>8
  <2>4. /\ \A t \in DOMAIN writes[r].session : Revokes(r, t)
        /\ \A t, x \in DOMAIN writes[r].session : t \notin Rows(session) /\ x \notin Rows(session) => t = x
    BY <1>1, <2>1 DEF Slot, SessionWrites
  <2> QED
    BY <1>2, <1>3, <1>4, <1>8, <2>2, <2>3, <2>4 DEF SessionWrites, Rows
<1>9. ASSUME writes'[r].link = writes[r].link, Statement(r) \notin {"closeLinks", "saveLink"}
      PROVE  LinkWrites(r)'
  <2>1. \A l : ~ Sends(r, l)
    BY DEF Sends, Forward
  <2>2. \A l : Marks(r, l)' <=> Marks(r, l)
    BY <1>2, <1>3, <1>9 DEF Marks, Rows
  <2>3. PastLinks(r) => PastLinks(r)'
    BY <1>2, <1>3, <1>4, <1>9 DEF PastLinks, After
  <2>4. /\ \A l \in DOMAIN writes[r].link : Marks(r, l)
        /\ \A l, k \in DOMAIN writes[r].link : l \notin Rows(link) /\ k \notin Rows(link) => l = k
        /\ ~ PastLinks(r) => DOMAIN writes[r].link = {}
    BY <1>1, <2>1 DEF Slot, LinkWrites
  <2> QED
    BY <1>3, <1>4, <1>9, <2>2, <2>3, <2>4 DEF LinkWrites, Rows
<1>10. ASSUME writes'[r].link = writes[r].link, Statement(r) # "closeLinks"
       PROVE  Spends(r)'
  BY <1>1, <1>2, <1>3, <1>4, <1>10 DEF Slot, Spends, After
<1>11. Locks(r)'
  BY LocksStay
<1> QED
  BY <1>2, <1>5, <1>6, <1>7, <1>8, <1>9, <1>10, <1>11 DEF Blank

\* The slots whose rows stay apart are those that hold none of the rows written.
LEMMA StillApart ==
  ASSUME Base, NEW r \in Requests, Forward(r), NEW o \in Requests \ {r},
         (DOMAIN writes'[r].account \ DOMAIN writes[r].account) \cap DOMAIN writes[o].account = {},
         (DOMAIN writes'[r].session \ DOMAIN writes[r].session) \cap DOMAIN writes[o].session = {},
         (DOMAIN writes'[r].link \ DOMAIN writes[r].link) \cap DOMAIN writes[o].link = {},
         \A t \in DOMAIN writes'[r].session \ DOMAIN writes[r].session : <<"session", t>> \notin locked[o],
         \A l \in DOMAIN writes'[r].link \ DOMAIN writes[r].link : <<"link", l>> \notin locked[o]
  PROVE  Apart(r, o)'
<1>1. writes'[o] = writes[o] /\ locked' = locked
  BY DEF Forward, Quiet
<1>2. Apart(r, o)
  BY DEF Base, Exclusive
<1>3. Clear(r, o)' /\ Clear(o, r)'
  BY <1>1, <1>2 DEF Apart, Clear
<1> QED
  BY <1>1, <1>2, <1>3 DEF Apart

\* An id drawn for a row to insert is nobody's locked row.
LEMMA NewUnlocked ==
  ASSUME Base, NEW o \in Requests
  PROVE  /\ \A t : t \notin Rows(session) => <<"session", t>> \notin locked[o]
         /\ \A l : l \notin Rows(link) => <<"link", l>> \notin locked[o]
BY DEF Base, Slot, Locks

LEMMA SaveUserStep ==
  ASSUME Base, NEW r \in Requests, SaveUser(r)
  PROVE  /\ Forward(r) /\ seen' = seen /\ Slot(r)' /\ \A o \in Requests \ {r} : Apart(r, o)'
         /\ Statement(r) = "saveUser" /\ Started(r) /\ Changer(r)
         /\ writes'[r].session = writes[r].session /\ writes'[r].link = writes[r].link
<1>1. Typed /\ Slot(r) /\ seen[r] \in Seen /\ writes[r] \in Own
  BY SlotFields DEF Base
<1>2. Busy(r) /\ Statement(r) = "saveUser" /\ Started(r) /\ \A o \in Requests \ {r} : ~ WaitsFor(r, o)
  BY DEF SaveUser, At, Firsts, Started
<1>3. Changer(r)
  BY <1>1, <1>2, Who
<1> DEFINE u == seen[r].user
           row == [seen[r].row EXCEPT !.secret = call[r].new]
           what == [writes[r] EXCEPT !.account = Put(@, u, row)]
<1>4. u \in Accounts /\ row \in Account
  <2>1. u \in Rows(account) /\ Rows(account) \subseteq Accounts /\ seen[r].row \in Account
    BY <1>1, <1>2, <1>3, RowFields DEF Slot, Informed, Changer, Changes
  <2>2. call[r].new \in Secrets
    BY <1>1, <1>3, SlotFields, CallFields DEF Changer, Changes
  <2> QED
    BY <2>1, <2>2 DEF Account
<1>5. /\ Put(writes[r].account, u, row) \in Partial(Accounts, Account)
      /\ DOMAIN Put(writes[r].account, u, row) = DOMAIN writes[r].account \cup {u}
      /\ Put(writes[r].account, u, row)[u] = row
  <2> DEFINE own == writes[r].account
  <2>1. own \in Partial(Accounts, Account)
    BY <1>1, OwnFields
  <2> HIDE DEF u, row, own
  <2>2. Put(own, u, row) \in Partial(Accounts, Account)
    BY <1>4, <2>1, PutTyped
  <2>3. /\ DOMAIN Put(own, u, row) = DOMAIN own \cup {u}
        /\ Put(own, u, row)[u] = row
    BY DEF Put
  <2> QED
    BY <2>2, <2>3 DEF own
<1>6. DOMAIN writes[r].account = {}
  BY <1>1, <1>2 DEF Slot, AccountWrites, Saved, Inserted
<1> HIDE DEF row
<1>7. /\ what \in Own /\ what.session = writes[r].session /\ what.link = writes[r].link
      /\ DOMAIN what.account = {u} /\ what.account[u] = row
  BY <1>1, <1>5, <1>6 DEF Own
<1>8. Writes(r, what)
  BY DEF SaveUser, row
<1> HIDE DEF what
<1>9. Forward(r) /\ seen' = seen /\ writes'[r] = what
  BY <1>2, <1>7, <1>8, WritesForward
<1>10. AccountWrites(r)'
  <2>1. /\ Started(r)' /\ Changer(r)' /\ Statement(r)' = After(call[r].op, Statement(r))
    BY <1>3, <1>9, ForwardControl
  <2>2. Saved(r)' /\ ~ Inserted(r)' /\ call'[r] = call[r]
    BY <1>2, <1>9, <2>1 DEF Saved, Inserted, After, Changer, Changes, Forward
  <2> QED
    BY <1>7, <1>9, <2>2 DEF AccountWrites, row
<1>11. Slot(r)'
  BY <1>2, <1>7, <1>9, <1>10, LaterWrite DEF Slot
<1>12. \A o \in Requests \ {r} : Apart(r, o)'
  <2> SUFFICES ASSUME NEW o \in Requests \ {r} PROVE Apart(r, o)'
    OBVIOUS
  <2>1. u \notin DOMAIN writes[o].account
    BY <1>2, NotHeld
  <2> QED
    BY <1>7, <1>9, <2>1, StillApart
<1> QED
  BY <1>2, <1>3, <1>7, <1>9, <1>11, <1>12

\* While r has drawn no id, the ids that the slots of I hold, at most one each,
\* and those of the rows there are leave one.
LEMMA IdFree ==
  ASSUME NEW N \in Nat, NEW R \in SUBSET (1..N), NEW I \in SUBSET Requests, NEW r \in I,
         Cardinality(R) + Cardinality(I) <= N,
         NEW W, \A o \in Requests : W[o] \subseteq 1..N,
         \A o \in Requests : \A x \in W[o] \ R : o \in I \ {r},
         \A o \in Requests : \A x, y \in W[o] \ R : x = y
  PROVE  (1..N) \ (R \cup UNION {W[o] : o \in Requests}) # {}
<1> DEFINE F == (UNION {W[o] : o \in Requests}) \ R
           owner == [x \in F |-> CHOOSE o \in Requests : x \in W[o]]
<1>1. \A x \in F : owner[x] \in Requests /\ x \in W[owner[x]]
  OBVIOUS
<1>2. F \in SUBSET (1..N)
  OBVIOUS
<1>3. \A x \in F : owner[x] \in I \ {r}
  <2> SUFFICES ASSUME NEW x \in F PROVE owner[x] \in I \ {r}
    OBVIOUS
  <2> DEFINE o == owner[x]
  <2>1. o \in Requests /\ x \in W[o] /\ x \notin R
    BY <1>1
  <2> HIDE DEF o
  <2>2. o \in I \ {r}
    BY <2>1
  <2> QED
    BY <2>2 DEF o
<1>4. owner \in [F -> I \ {r}]
  <2>1. owner = [x \in F |-> owner[x]]
    OBVIOUS
  <2> HIDE DEF owner, F
  <2> QED
    BY <1>3, <2>1
<1>5. \A x, y \in F : owner[x] = owner[y] => x = y
  <2> SUFFICES ASSUME NEW x \in F, NEW y \in F, owner[x] = owner[y] PROVE x = y
    OBVIOUS
  <2> DEFINE o == owner[x]
  <2>1. o \in Requests /\ x \in W[o] \ R /\ y \in W[o] \ R
    BY <1>1
  <2> HIDE DEF o, F
  <2> QED
    BY <2>1
<1>6. IsFiniteSet(I)
  BY SessionsAssumption, FS_Subset
<1>7. (1..N) \ (R \cup F) # {}
  <2> HIDE DEF owner, F
  <2> QED
    BY <1>2, <1>4, <1>5, <1>6, IdLeft
<1> QED
  BY <1>7

LEMMA AccountId ==
  ASSUME Base, NEW r \in Requests, Busy(r), Statement(r) = "insertUser",
         NEW u, u = NextId(Accounts, Drawn(account, AccountsOf))
  PROVE  u \in Accounts \ Rows(account) /\ \A o \in Requests : u \notin DOMAIN writes[o].account
<1> DEFINE R == Rows(account)
           W == [o \in Requests |-> DOMAIN writes[o].account]
<1>1. Typed /\ Slot(r) /\ R \in SUBSET (1..MaxAccounts) /\ MaxAccounts \in Nat /\ Accounts \subseteq Nat
  BY RowFields, Constants DEF Base, Accounts
<1>2. r \in Registrations /\ Registrations \subseteq Requests
  BY <1>1, Who DEF Registrations
<1>3. \A o \in Requests : W[o] \subseteq 1..MaxAccounts
  BY <1>1, SlotFields, OwnFields DEF Accounts
<1>4. /\ \A o \in Requests : \A x \in W[o] \ R : o \in Registrations \ {r}
      /\ \A o \in Requests : \A x, y \in W[o] \ R : x = y
  <2> SUFFICES ASSUME NEW o \in Requests, NEW x \in W[o] \ R
               PROVE  o \in Registrations \ {r} /\ \A y \in W[o] \ R : x = y
    OBVIOUS
  <2>1. Slot(o) /\ x \in DOMAIN writes[o].account /\ x \notin Rows(account)
    BY DEF Base
  <2>2. ~ Saved(o)
    BY <2>1 DEF Slot, AccountWrites, Informed, Saved, Changer, Changes
  <2>3. Inserted(o)
    BY <2>1, <2>2 DEF Slot, AccountWrites
  <2> QED
    BY <2>1, <2>3 DEF Slot, AccountWrites, Inserted, Registrations
<1>5. Cardinality(R) + Cardinality(Registrations) <= MaxAccounts
  BY DEF Base, Room
<1>6. (1..MaxAccounts) \ (R \cup UNION {W[o] : o \in Requests}) # {}
  <2> HIDE DEF R, W
  <2> QED
    BY <1>1, <1>2, <1>3, <1>4, <1>5, IdFree
<1>7. Drawn(account, AccountsOf) = R \cup UNION {W[o] : o \in Requests}
  BY DEF Drawn, AccountsOf
<1>8. u \in Accounts /\ u \notin Drawn(account, AccountsOf)
  <2> DEFINE D == Drawn(account, AccountsOf)
  <2>1. Accounts \ D # {}
    BY <1>6, <1>7 DEF Accounts
  <2> HIDE DEF D, R, W
  <2>2. NextId(Accounts, D) \in Accounts /\ NextId(Accounts, D) \notin D
    BY <1>1, <2>1, NextIdIsLeft
  <2> QED
    BY <2>2 DEF D
<1> QED
  BY <1>7, <1>8

LEMMA SessionId ==
  ASSUME Base, NEW r \in Requests, Busy(r), Statement(r) = "saveSession",
         NEW t, t = NextId(Tokens, Drawn(session, SessionsOf))
  PROVE  t \in Tokens \ Rows(session) /\ \A o \in Requests : t \notin DOMAIN writes[o].session
<1> DEFINE R == Rows(session)
           W == [o \in Requests |-> DOMAIN writes[o].session]
           I == Issuing("sessions")
<1>1. Typed /\ Slot(r) /\ R \in SUBSET (1..MaxTokens) /\ MaxTokens \in Nat /\ Tokens \subseteq Nat
  BY RowFields, Constants DEF Base, Tokens
<1>2. r \in I /\ I \subseteq Requests
  BY <1>1, Who DEF Issuing, Issues
<1>3. \A o \in Requests : W[o] \subseteq 1..MaxTokens
  BY <1>1, SlotFields, OwnFields DEF Tokens
<1>4. /\ \A o \in Requests : \A x \in W[o] \ R : o \in I \ {r}
      /\ \A o \in Requests : \A x, y \in W[o] \ R : x = y
  <2> SUFFICES ASSUME NEW o \in Requests, NEW x \in W[o] \ R
               PROVE  o \in I \ {r} /\ \A y \in W[o] \ R : x = y
    OBVIOUS
  <2>1. Slot(o) /\ x \in DOMAIN writes[o].session /\ x \notin Rows(session)
    BY DEF Base
  <2>2. Issued(o, x)
    BY <2>1 DEF Slot, SessionWrites, Revokes
  <2> QED
    BY <2>1, <2>2 DEF Slot, SessionWrites, Issued, Issuing
<1>5. Cardinality(R) + Cardinality(I) <= MaxTokens
  BY DEF Base, Room
<1>6. (1..MaxTokens) \ (R \cup UNION {W[o] : o \in Requests}) # {}
  <2> HIDE DEF R, W, I
  <2> QED
    BY <1>1, <1>2, <1>3, <1>4, <1>5, IdFree
<1>7. Drawn(session, SessionsOf) = R \cup UNION {W[o] : o \in Requests}
  BY DEF Drawn, SessionsOf
<1>8. t \in Tokens /\ t \notin Drawn(session, SessionsOf)
  <2> DEFINE D == Drawn(session, SessionsOf)
  <2>1. Tokens \ D # {}
    BY <1>6, <1>7 DEF Tokens
  <2> HIDE DEF D, R, W, I
  <2>2. NextId(Tokens, D) \in Tokens /\ NextId(Tokens, D) \notin D
    BY <1>1, <2>1, NextIdIsLeft
  <2> QED
    BY <2>2 DEF D
<1> QED
  BY <1>7, <1>8

LEMMA LinkId ==
  ASSUME Base, NEW r \in Requests, Busy(r), Statement(r) = "saveLink",
         NEW l, l = NextId(Links, Drawn(link, LinksOf))
  PROVE  l \in Links \ Rows(link) /\ \A o \in Requests : l \notin DOMAIN writes[o].link
<1> DEFINE R == Rows(link)
           W == [o \in Requests |-> DOMAIN writes[o].link]
           I == Issuing("links")
<1>1. Typed /\ Slot(r) /\ R \in SUBSET (1..MaxLinks) /\ MaxLinks \in Nat /\ Links \subseteq Nat
  BY RowFields, Constants DEF Base, Links
<1>2. r \in I /\ I \subseteq Requests
  BY <1>1, Who DEF Issuing, Issues
<1>3. \A o \in Requests : W[o] \subseteq 1..MaxLinks
  BY <1>1, SlotFields, OwnFields DEF Links
<1>4. /\ \A o \in Requests : \A x \in W[o] \ R : o \in I \ {r}
      /\ \A o \in Requests : \A x, y \in W[o] \ R : x = y
  <2> SUFFICES ASSUME NEW o \in Requests, NEW x \in W[o] \ R
               PROVE  o \in I \ {r} /\ \A y \in W[o] \ R : x = y
    OBVIOUS
  <2>1. Slot(o) /\ x \in DOMAIN writes[o].link /\ x \notin Rows(link)
    BY DEF Base
  <2>2. Sends(o, x)
    BY <2>1 DEF Slot, LinkWrites, Marks
  <2> QED
    BY <2>1, <2>2 DEF Slot, LinkWrites, Sends, Issuing, Issues
<1>5. Cardinality(R) + Cardinality(I) <= MaxLinks
  BY DEF Base, Room
<1>6. (1..MaxLinks) \ (R \cup UNION {W[o] : o \in Requests}) # {}
  <2> HIDE DEF R, W, I
  <2> QED
    BY <1>1, <1>2, <1>3, <1>4, <1>5, IdFree
<1>7. Drawn(link, LinksOf) = R \cup UNION {W[o] : o \in Requests}
  BY DEF Drawn, LinksOf
<1>8. l \in Links /\ l \notin Drawn(link, LinksOf)
  <2> DEFINE D == Drawn(link, LinksOf)
  <2>1. Links \ D # {}
    BY <1>6, <1>7 DEF Links
  <2> HIDE DEF D, R, W, I
  <2>2. NextId(Links, D) \in Links /\ NextId(Links, D) \notin D
    BY <1>1, <2>1, NextIdIsLeft
  <2> QED
    BY <2>2 DEF D
<1> QED
  BY <1>7, <1>8

LEMMA InsertUserStep ==
  ASSUME Base, NEW r \in Requests, InsertUser(r)
  PROVE  \/ Abort(r)
         \/ /\ Forward(r) /\ seen' = seen /\ Slot(r)' /\ \A o \in Requests \ {r} : Apart(r, o)'
            /\ Statement(r) = "insertUser" /\ Started(r) /\ call[r].op = "register"
            /\ \A u \in Rows(account) : account[u].email # call[r].email
            /\ \A o \in Requests \ {r} : Inserted(o) => call[o].email # call[r].email
            /\ writes'[r].session = writes[r].session /\ writes'[r].link = writes[r].link
<1>1. Typed /\ Slot(r) /\ seen[r] \in Seen /\ writes[r] \in Own
  BY SlotFields DEF Base
<1>2. /\ Busy(r) /\ Statement(r) = "insertUser" /\ Started(r)
      /\ \A o \in Requests \ {r} : ~ WaitsFor(r, o)
  BY DEF InsertUser, At, Firsts, Started
<1>3. call[r].op = "register"
  BY <1>1, <1>2, Who
<1> DEFINE u == NextId(Accounts, Drawn(account, AccountsOf))
           row == [email |-> call[r].email, secret |-> call[r].secret, during |-> {}]
           what == [writes[r] EXCEPT !.account = Put(@, u, row)]
<1>4. u \in Accounts \ Rows(account) /\ \A o \in Requests : u \notin DOMAIN writes[o].account
  BY <1>2, AccountId
<1>5. row \in Account /\ row.email = call[r].email
  <2>1. call[r].email \in Spellings /\ call[r].secret \in Secrets
    BY <1>1, <1>3, SlotFields, CallFields
  <2> QED
    BY <2>1 DEF Account, During
<1>6. DOMAIN writes[r].account = {}
  BY <1>1, <1>2, <1>3 DEF Slot, AccountWrites, Saved, Inserted, Changer, Changes
<1> HIDE DEF row, u
<1>7. /\ what \in Own /\ what.session = writes[r].session /\ what.link = writes[r].link
      /\ DOMAIN what.account = {u} /\ what.account[u] = row
  <2> DEFINE own == writes[r].account
  <2>1. own \in Partial(Accounts, Account)
    BY <1>1, OwnFields
  <2> HIDE DEF own
  <2>2. Put(own, u, row) \in Partial(Accounts, Account)
    BY <1>4, <1>5, <2>1, PutTyped
  <2>3. DOMAIN Put(own, u, row) = DOMAIN own \cup {u} /\ Put(own, u, row)[u] = row
    BY DEF Put
  <2> QED
    BY <1>1, <1>6, <2>2, <2>3 DEF own, Own
<1>8. Abort(r) \/ (Writes(r, what) /\ \A v \in Rows(account) : account[v].email # call[r].email)
  BY DEF InsertUser, row, u
<1> HIDE DEF what
<1>9. CASE Writes(r, what) /\ \A v \in Rows(account) : account[v].email # call[r].email
  <2>1. Forward(r) /\ seen' = seen /\ writes'[r] = what
    BY <1>2, <1>7, <1>9, WritesForward
  <2>2. AccountWrites(r)'
    <3>1. Started(r)' /\ ~ Changer(r)' /\ Statement(r)' = "commit" /\ call'[r] = call[r]
      BY <1>2, <1>3, <2>1, ForwardControl DEF After, Changer, Changes, Forward
    <3>2. ~ Saved(r)' /\ Inserted(r)' /\ account' = account
      BY <1>3, <2>1, <3>1 DEF Saved, Inserted, Forward, Quiet, database
    <3> QED
      BY <1>4, <1>5, <1>7, <2>1, <3>1, <3>2 DEF AccountWrites, Rows
  <2>3. Slot(r)'
    BY <1>2, <1>7, <2>1, <2>2, LaterWrite DEF Slot
  <2>4. \A o \in Requests \ {r} : Apart(r, o)'
    BY <1>4, <1>7, <2>1, StillApart
  <2>5. \A o \in Requests \ {r} : Inserted(o) => call[o].email # call[r].email
    <3> SUFFICES ASSUME NEW o \in Requests \ {r}, Inserted(o) PROVE call[o].email # call[r].email
      OBVIOUS
    <3>1. call[o].op = "register" /\ DOMAIN writes[o].account # {}
      BY DEF Base, Slot, AccountWrites, Inserted
    <3> QED
      BY <1>2, <3>1, NotHeld
  <2> QED
    BY <1>2, <1>3, <1>7, <1>9, <2>1, <2>3, <2>4, <2>5
<1> QED
  BY <1>8, <1>9

LEMMA RevokeReadStep ==
  ASSUME Base, NEW r \in Requests, RevokeRead(r)
  PROVE  /\ Forward(r) /\ Slot(r)' /\ \A o \in Requests \ {r} : Apart(r, o)'
         /\ seen' = [seen EXCEPT ![r].stale = session[call[r].token].revoked]
         /\ Statement(r) = "revokeRead" /\ Started(r) /\ Presents(r)
         /\ writes'[r].account = writes[r].account /\ writes'[r].link = writes[r].link
         /\ DOMAIN writes'[r].session = {call[r].token}
<1>1. Typed /\ Slot(r) /\ seen[r] \in Seen /\ writes[r] \in Own
  BY SlotFields DEF Base
<1>2. /\ Busy(r) /\ Statement(r) = "revokeRead" /\ Started(r)
      /\ \A o \in Requests \ {r} : ~ WaitsFor(r, o)
  BY DEF RevokeRead, At, Firsts, Started
<1>3. Presents(r)
  BY <1>1, <1>2, Who
<1> DEFINE t == call[r].token
           row == [seen[r].row EXCEPT !.revoked = TRUE]
<1>4. /\ t \in Rows(session) /\ t \in Tokens /\ session[t] \in Session
      /\ seen[r].row \in Session /\ seen[r].row.user = seen[r].user /\ session[t].user = seen[r].user
      /\ seen[r].row.chain = session[t].chain
  BY <1>1, <1>2, <1>3, RowFields DEF Slot, Given, Informed
<1>5. row \in Session /\ row.revoked /\ row.user = session[t].user /\ row.chain = session[t].chain
  BY <1>4 DEF Session
<1>6. DOMAIN writes[r].session = {}
  BY <1>1, <1>2, <1>3 DEF Slot, SessionWrites
<1> HIDE DEF row
<1> DEFINE own == writes[r].session
           what == Put(own, t, row)
<1>7. what \in Partial(Tokens, Session) /\ DOMAIN what = {t} /\ what[t] = row
  <2>1. own \in Partial(Tokens, Session) /\ DOMAIN own = {}
    BY <1>1, <1>6, OwnFields
  <2> HIDE DEF own
  <2>2. what \in Partial(Tokens, Session)
    BY <1>4, <1>5, <2>1, PutTyped
  <2>3. DOMAIN what = DOMAIN own \cup {t} /\ what[t] = row
    BY DEF Put
  <2> QED
    BY <2>1, <2>2, <2>3
<1>8. /\ writes' = [writes EXCEPT ![r].session = what]
      /\ seen' = [seen EXCEPT ![r].stale = session[t].revoked]
      /\ Advance(r) /\ UNCHANGED <<now, database, mailed, call, locked, history>>
  BY DEF RevokeRead, row
<1> HIDE DEF what, t
<1>9. /\ seen \in [Requests -> Seen] /\ writes \in [Requests -> Own]
      /\ todo \in [Requests -> Seq(Statements)]
  BY <1>1 DEF Typed
<1>10. /\ writes' \in [Requests -> Own] /\ writes'[r].session = what
       /\ writes'[r].account = writes[r].account /\ writes'[r].link = writes[r].link
       /\ \A o \in Requests \ {r} : writes'[o] = writes[o]
  BY <1>7, <1>8, <1>9 DEF Own
<1>11. /\ seen' \in [Requests -> Seen] /\ seen'[r].stale = session[t].revoked
       /\ seen'[r].user = seen[r].user /\ seen'[r].row = seen[r].row
       /\ seen'[r].doomed = seen[r].doomed
       /\ \A o \in Requests \ {r} : seen'[o] = seen[o]
  <2>1. session[t].revoked \in BOOLEAN
    BY <1>4 DEF Session, t
  <2> QED
    BY <1>8, <1>9, <2>1 DEF Seen
<1>12. Forward(r)
  <2>1. Quiet(r)
    BY <1>8, <1>9, <1>10, <1>11 DEF Quiet, Grown, Advance, history
  <2> QED
    BY <1>2, <1>8, <1>10, <1>11, <2>1 DEF Forward, history
<1>13. SessionWrites(r)'
  <2>1. /\ Presents(r)' /\ Started(r)' /\ Statement(r)' = After(call[r].op, Statement(r))
        /\ call'[r] = call[r] /\ session' = session
    BY <1>3, <1>12, ForwardControl DEF Forward, Quiet, database
  <2>2. Statement(r)' \in {"saveSession", "commit"}
    BY <1>2, <2>1 DEF After
  <2>3. Revokes(r, t)'
    BY <1>4, <1>5, <1>7, <1>10, <1>11, <2>1 DEF Revokes, Rows, t
  <2> QED
    BY <1>7, <1>10, <1>11, <2>1, <2>2, <2>3 DEF SessionWrites, t
<1>14. Slot(r)'
  BY <1>2, <1>10, <1>11, <1>12, <1>13, LaterWrite DEF Slot
<1>15. \A o \in Requests \ {r} : Apart(r, o)'
  <2> SUFFICES ASSUME NEW o \in Requests \ {r} PROVE Apart(r, o)'
    OBVIOUS
  <2>1. t \notin DOMAIN writes[o].session /\ <<"session", t>> \notin locked[o]
    BY <1>2, NotHeld DEF t
  <2> QED
    BY <1>6, <1>7, <1>10, <1>12, <2>1, StillApart
<1> QED
  BY <1>2, <1>3, <1>7, <1>8, <1>10, <1>12, <1>14, <1>15 DEF t

LEMMA SaveSessionStep ==
  ASSUME Base, NEW r \in Requests, SaveSession(r)
  PROVE  /\ Forward(r) /\ seen' = seen /\ Slot(r)' /\ \A o \in Requests \ {r} : Apart(r, o)'
         /\ Statement(r) = "saveSession" /\ Started(r) /\ call[r].op \in {"login", "refresh"}
         /\ writes'[r].account = writes[r].account /\ writes'[r].link = writes[r].link
<1>1. Typed /\ Slot(r) /\ seen[r] \in Seen /\ writes[r] \in Own
  BY SlotFields DEF Base
<1>2. /\ Busy(r) /\ Statement(r) = "saveSession" /\ Started(r)
  BY DEF SaveSession, At, Firsts, Started
<1>3. call[r].op \in {"login", "refresh"}
  BY <1>1, <1>2, Who
<1>0. PICK id : id = NextId(Tokens, Drawn(session, SessionsOf))
  OBVIOUS
<1> DEFINE row == [user |-> seen[r].user, expires |-> now + RefreshTtl, revoked |-> FALSE,
                   chain |-> IF call[r].op = "refresh" THEN seen[r].row.chain ELSE id,
                   secret |-> seen[r].row.secret, during |-> {}]
           own == writes[r].session
           what == Put(own, id, row)
<1>4. id \in Tokens \ Rows(session) /\ \A o \in Requests : id \notin DOMAIN writes[o].session
  BY <1>0, <1>2, SessionId
<1>5. row \in Session
  <2>1. seen[r].user \in Accounts
    BY <1>1, <1>2, <1>3, RowFields DEF Slot, Informed
  <2>2. now + RefreshTtl \in Nat
    BY <1>1, Constants DEF Typed, TypeOK
  <2>3. call[r].op = "login" => seen[r].row \in Account
    BY <1>1, <1>2 DEF Slot, Informed
  <2>4. call[r].op = "refresh" => seen[r].row \in Session
    BY <1>1, <1>2 DEF Slot, Informed, Presents
  <2>5. seen[r].row.secret \in Secrets /\ (call[r].op = "refresh" => seen[r].row.chain \in Tokens)
    BY <1>3, <2>3, <2>4 DEF Account, Session
  <2> QED
    BY <1>4, <2>1, <2>2, <2>5 DEF Session, During
<1>6. /\ ~ row.revoked /\ row.user = seen[r].user /\ row.secret = seen[r].row.secret
      /\ row.chain = IF call[r].op = "refresh" THEN seen[r].row.chain ELSE id
  OBVIOUS
<1> HIDE DEF row
<1>7. /\ what \in Partial(Tokens, Session) /\ DOMAIN what = DOMAIN own \cup {id} /\ what[id] = row
      /\ \A t \in DOMAIN own : what[t] = own[t]
  <2>1. own \in Partial(Tokens, Session) /\ id \notin DOMAIN own
    BY <1>1, <1>4, OwnFields
  <2> HIDE DEF own
  <2>2. what \in Partial(Tokens, Session)
    BY <1>4, <1>5, <2>1, PutTyped
  <2>3. DOMAIN what = DOMAIN own \cup {id} /\ what[id] = row /\ \A t \in DOMAIN own : what[t] = own[t]
    BY <2>1 DEF Put
  <2> QED
    BY <2>2, <2>3
<1> HIDE DEF what
<1> DEFINE mine == [writes[r] EXCEPT !.session = what]
<1>8. /\ mine \in Own /\ mine.session = what
      /\ mine.account = writes[r].account /\ mine.link = writes[r].link
  BY <1>1, <1>7 DEF Own
<1>9. Writes(r, mine)
  BY <1>0 DEF SaveSession, what, row
<1> HIDE DEF mine
<1>10. Forward(r) /\ seen' = seen /\ writes'[r] = mine
  BY <1>2, <1>8, <1>9, WritesForward
<1>11. SessionWrites(r)'
  <2>1. /\ (Presents(r)' <=> Presents(r)) /\ (Changer(r)' <=> Changer(r)) /\ Started(r)'
        /\ Statement(r)' = "commit" /\ call'[r] = call[r] /\ session' = session
    BY <1>2, <1>10, ForwardControl DEF Forward, Quiet, database, After
  <2>2. Issued(r, id)'
    BY <1>3, <1>4, <1>6, <1>7, <1>8, <1>10, <2>1 DEF Issued, Issues, Rows
  <2>3. \A t \in DOMAIN own : Revokes(r, t)
    BY <1>1, <1>2 DEF Slot, SessionWrites, Issued
  <2>4. \A t \in DOMAIN own : Revokes(r, t)'
    BY <1>7, <1>8, <1>10, <2>1, <2>3 DEF Revokes, Rows
  <2>5. \A t \in DOMAIN own : t \in Rows(session)
    BY <2>3 DEF Revokes
  <2>6. Presents(r) => call[r].token \in DOMAIN own /\ (~ seen[r].stale => ~ session[call[r].token].revoked)
    BY <1>1, <1>2 DEF Slot, SessionWrites
  <2>7. \A t \in DOMAIN what : t = id \/ t \in DOMAIN own
    BY <1>7
  <2> QED
    BY <1>3, <1>7, <1>8, <1>10, <2>1, <2>2, <2>4, <2>5, <2>6, <2>7 DEF SessionWrites, Rows
<1>12. Slot(r)'
  BY <1>2, <1>8, <1>10, <1>11, LaterWrite DEF Slot
<1>13. \A o \in Requests \ {r} : Apart(r, o)'
  BY <1>4, <1>7, <1>8, <1>10, NewUnlocked, StillApart
<1> QED
  BY <1>2, <1>3, <1>8, <1>10, <1>12, <1>13

LEMMA CloseSessionsStep ==
  ASSUME Base, NEW r \in Requests, CloseSessions(r)
  PROVE  /\ Forward(r) /\ seen' = seen /\ Slot(r)' /\ \A o \in Requests \ {r} : Apart(r, o)'
         /\ Statement(r) = "closeSessions" /\ Started(r) /\ Changer(r)
         /\ writes'[r].account = writes[r].account /\ writes'[r].link = writes[r].link
         /\ \A t \in Rows(session) :
              t \in DOMAIN writes'[r].session <=>
                t \in DOMAIN writes[r].session \/ (t \in seen[r].doomed /\ ~ session[t].revoked)
<1>1. Typed /\ Slot(r) /\ seen[r] \in Seen /\ writes[r] \in Own
  BY SlotFields DEF Base
<1>2. /\ Busy(r) /\ Statement(r) = "closeSessions" /\ Started(r)
      /\ Wants(r) = {}
  BY DEF CloseSessions, At, Firsts, Started
<1>3. Changer(r) /\ ~ Presents(r)
  BY <1>1, <1>2, Who DEF Changer, Changes, Presents
<1> DEFINE closed == {t \in seen[r].doomed : ~ session[t].revoked}
           own == writes[r].session
           what == [t \in DOMAIN own \cup closed |->
                      IF t \in closed THEN [session[t] EXCEPT !.revoked = TRUE] ELSE own[t]]
           mine == [writes[r] EXCEPT !.session = what]
<1>4. \A t \in closed : /\ t \in Rows(session) /\ session[t].user = seen[r].user
                        /\ t \in Tokens /\ session[t] \in Session
  BY <1>1, <1>2, RowFields DEF Slot, SessionWrites
<1>5. \A t \in closed : /\ what[t] \in Session /\ what[t].revoked /\ what[t].user = session[t].user
                        /\ what[t].chain = session[t].chain
  <2> SUFFICES ASSUME NEW t \in closed
               PROVE  /\ what[t] \in Session /\ what[t].revoked /\ what[t].user = session[t].user
                      /\ what[t].chain = session[t].chain
    OBVIOUS
  <2>1. what[t] = [session[t] EXCEPT !.revoked = TRUE] /\ session[t] \in Session
    BY <1>4
  <2> HIDE DEF what
  <2> QED
    BY <2>1 DEF Session
<1>6. own \in Partial(Tokens, Session) /\ DOMAIN own \subseteq Tokens /\ \A t \in DOMAIN own : own[t] \in Session
  BY <1>1, OwnFields
<1>7. \A t \in DOMAIN own \ closed : what[t] = own[t]
  OBVIOUS
<1>8. DOMAIN what = DOMAIN own \cup closed /\ what = [t \in DOMAIN what |-> what[t]]
  OBVIOUS
<1> HIDE DEF what, own
<1>9. what \in Partial(Tokens, Session)
  <2> DEFINE D == DOMAIN own \cup closed
  <2>1. \A t \in D : what[t] \in Session
    BY <1>5, <1>6, <1>7
  <2>2. D \subseteq Tokens
    BY <1>4, <1>6
  <2>3. what \in [D -> Session]
    <3> HIDE DEF closed
    <3> QED
      BY <1>8, <2>1
  <2> QED
    BY <2>2, <2>3 DEF Partial
<1>10. /\ mine \in Own /\ mine.session = what
       /\ mine.account = writes[r].account /\ mine.link = writes[r].link
  BY <1>1, <1>9 DEF Own
<1>11. Writes(r, mine)
  BY DEF CloseSessions, what, own
<1> HIDE DEF mine
<1>12. Forward(r) /\ seen' = seen /\ writes'[r] = mine
  BY <1>2, <1>10, <1>11, WritesForward
<1>13. SessionWrites(r)'
  <2>1. /\ (Presents(r)' <=> Presents(r)) /\ (Changer(r)' <=> Changer(r)) /\ Started(r)'
        /\ Statement(r)' \in {"findLinks", "commit"} /\ call'[r] = call[r] /\ session' = session
    BY <1>2, <1>12, ForwardControl DEF Forward, Quiet, database, After
  <2>2. \A t \in DOMAIN own : Revokes(r, t)
    BY <1>1, <1>2 DEF Slot, SessionWrites, Issued, own
  <2>3. \A t \in DOMAIN what : Revokes(r, t)'
    <3> SUFFICES ASSUME NEW t \in DOMAIN what PROVE Revokes(r, t)'
      OBVIOUS
    <3>1. CASE t \in closed
      BY <1>3, <1>4, <1>5, <1>10, <1>12, <2>1, <3>1 DEF Revokes, Rows
    <3>2. CASE t \notin closed
      <4>1. t \in DOMAIN own /\ what[t] = own[t]
        BY <1>7, <1>8, <3>2
      <4> QED
        BY <1>10, <1>12, <2>1, <2>2, <4>1 DEF Revokes, Rows, own
    <3> QED
      BY <3>1, <3>2
  <2>4. \A t \in DOMAIN what : t \in Rows(session)
    BY <1>4, <1>8, <2>2 DEF Revokes
  <2> QED
    BY <1>3, <1>10, <1>12, <2>1, <2>3, <2>4 DEF SessionWrites, Rows
<1>14. Slot(r)'
  BY <1>2, <1>10, <1>12, <1>13, LaterWrite DEF Slot
<1>15. \A o \in Requests \ {r} : Apart(r, o)'
  <2> SUFFICES ASSUME NEW o \in Requests \ {r} PROVE Apart(r, o)'
    OBVIOUS
  <2>1. \A t \in closed : <<"session", t>> \in locked[r]
    BY <1>2, FirstLeft DEF Wants
  <2>2. \A t \in closed : t \notin DOMAIN writes[o].session /\ <<"session", t>> \notin locked[o]
    BY <2>1 DEF Base, Exclusive, Apart, Clear
  <2> QED
    BY <1>8, <1>10, <1>12, <2>2, StillApart DEF own
<1> QED
  BY <1>2, <1>3, <1>8, <1>10, <1>12, <1>14, <1>15 DEF own

LEMMA CloseLinksStep ==
  ASSUME Base, NEW r \in Requests, CloseLinks(r)
  PROVE  /\ Forward(r) /\ seen' = seen /\ Slot(r)' /\ \A o \in Requests \ {r} : Apart(r, o)'
         /\ Statement(r) = "closeLinks" /\ Started(r)
         /\ writes'[r].account = writes[r].account /\ writes'[r].session = writes[r].session
         /\ DOMAIN writes'[r].link = {l \in seen[r].doomed : ~ link[l].used}
<1>1. Typed /\ Slot(r) /\ seen[r] \in Seen /\ writes[r] \in Own
  BY SlotFields DEF Base
<1>2. /\ Busy(r) /\ Statement(r) = "closeLinks" /\ Started(r)
      /\ Wants(r) = {}
  BY DEF CloseLinks, At, Firsts, Started
<1>3. Changer(r) \/ call[r].op = "requestReset"
  BY <1>1, <1>2, Who
<1> DEFINE closed == {l \in seen[r].doomed : ~ link[l].used}
           own == writes[r].link
           what == [l \in DOMAIN own \cup closed |->
                      IF l \in closed THEN [link[l] EXCEPT !.used = TRUE] ELSE own[l]]
           mine == [writes[r] EXCEPT !.link = what]
<1>4. \A l \in closed : /\ l \in Rows(link) /\ link[l].user = seen[r].user /\ ~ link[l].used
                        /\ l \in Links /\ link[l] \in Link
  BY <1>1, <1>2, RowFields DEF Slot, LinkWrites
<1>5. DOMAIN own = {}
  BY <1>1, <1>2 DEF Slot, LinkWrites, PastLinks
<1>6. DOMAIN what = closed /\ \A l \in closed : what[l] = [link[l] EXCEPT !.used = TRUE]
  BY <1>5
<1>7. what = [l \in DOMAIN what |-> what[l]]
  OBVIOUS
<1> HIDE DEF what, own
<1>8. what \in Partial(Links, Link)
  <2>1. \A l \in closed : what[l] \in Link
    BY <1>4, <1>6 DEF Link
  <2>2. closed \subseteq Links
    BY <1>4
  <2>3. what \in [closed -> Link]
    <3> HIDE DEF closed
    <3> QED
      BY <1>6, <1>7, <2>1
  <2> QED
    BY <2>2, <2>3 DEF Partial
<1>9. /\ mine \in Own /\ mine.link = what
      /\ mine.account = writes[r].account /\ mine.session = writes[r].session
  BY <1>1, <1>8 DEF Own
<1>10. Writes(r, mine)
  BY DEF CloseLinks, what, own
<1> HIDE DEF mine
<1>11. Forward(r) /\ seen' = seen /\ writes'[r] = mine
  BY <1>2, <1>9, <1>10, WritesForward
<1>12. /\ (Presents(r)' <=> Presents(r)) /\ (Changer(r)' <=> Changer(r)) /\ Started(r)'
       /\ Statement(r)' = After(call[r].op, "closeLinks") /\ call'[r] = call[r] /\ link' = link
  BY <1>2, <1>11, ForwardControl DEF Forward, Quiet, database
<1>13. LinkWrites(r)'
  <2>1. \A l \in closed : Marks(r, l)'
    BY <1>3, <1>4, <1>6, <1>9, <1>11, <1>12 DEF Marks, Rows
  <2>2. PastLinks(r)'
    BY <1>3, <1>12 DEF PastLinks, After, Changer, Changes
  <2>3. Statement(r)' # "closeLinks"
    BY <1>12 DEF After
  <2> QED
    BY <1>4, <1>6, <1>9, <1>11, <1>12, <2>1, <2>2, <2>3 DEF LinkWrites, Rows
<1>14. Spends(r)'
  <2> SUFFICES ASSUME call[r].op = "resetPassword"
               PROVE  link[call[r].link].used \/ call[r].link \in DOMAIN writes'[r].link
    BY <1>12 DEF Spends, After
  <2>1. link[call[r].link].used \/ call[r].link \in seen[r].doomed
    BY <1>1, <1>2 DEF Slot, Spends
  <2> QED
    BY <1>6, <1>9, <1>11, <2>1
<1>15. Slot(r)'
  BY <1>2, <1>9, <1>11, <1>13, <1>14, LaterWrite DEF Slot
<1>16. \A o \in Requests \ {r} : Apart(r, o)'
  <2> SUFFICES ASSUME NEW o \in Requests \ {r} PROVE Apart(r, o)'
    OBVIOUS
  <2>1. \A l \in closed : <<"link", l>> \in locked[r]
    BY <1>2, FirstLeft DEF Wants
  <2>2. \A l \in closed : l \notin DOMAIN writes[o].link /\ <<"link", l>> \notin locked[o]
    BY <2>1 DEF Base, Exclusive, Apart, Clear
  <2> QED
    BY <1>6, <1>9, <1>11, <2>2, StillApart
<1> QED
  BY <1>2, <1>6, <1>9, <1>11, <1>15, <1>16

LEMMA SaveLinkStep ==
  ASSUME Base, NEW r \in Requests, SaveLink(r)
  PROVE  /\ Forward(r) /\ seen' = seen /\ Slot(r)' /\ \A o \in Requests \ {r} : Apart(r, o)'
         /\ Statement(r) = "saveLink" /\ Started(r) /\ call[r].op = "requestReset"
         /\ writes'[r].account = writes[r].account /\ writes'[r].session = writes[r].session
         /\ DOMAIN writes[r].link \subseteq DOMAIN writes'[r].link
<1>0. PICK id : id = NextId(Links, Drawn(link, LinksOf))
  OBVIOUS
<1>1. Typed /\ Slot(r) /\ seen[r] \in Seen /\ writes[r] \in Own
  BY SlotFields DEF Base
<1>2. /\ Busy(r) /\ Statement(r) = "saveLink" /\ Started(r)
  BY DEF SaveLink, At, Firsts, Started
<1>3. call[r].op = "requestReset"
  BY <1>1, <1>2, Who
<1> DEFINE own == writes[r].link
           row == NewLink(r)
           what == Put(own, id, row)
           mine == [writes[r] EXCEPT !.link = what]
<1>4. id \in Links \ Rows(link) /\ \A o \in Requests : id \notin DOMAIN writes[o].link
  BY <1>0, <1>2, LinkId
<1>5. row \in Link
  <2>1. seen[r].user \in Accounts /\ seen[r].row \in Account /\ seen[r].now \in Nat
    BY <1>1, <1>2, <1>3, RowFields, SeenFields DEF Slot, Informed
  <2> QED
    BY <2>1 DEF NewLink, Link, Account, During
<1>6. /\ what \in Partial(Links, Link) /\ DOMAIN what = DOMAIN own \cup {id} /\ what[id] = row
      /\ \A l \in DOMAIN own : what[l] = own[l]
  <2>1. own \in Partial(Links, Link) /\ id \notin DOMAIN own
    BY <1>1, <1>4, OwnFields
  <2> HIDE DEF own, row
  <2>2. what \in Partial(Links, Link)
    BY <1>4, <1>5, <2>1, PutTyped
  <2>3. DOMAIN what = DOMAIN own \cup {id} /\ what[id] = row /\ \A l \in DOMAIN own : what[l] = own[l]
    BY <2>1 DEF Put
  <2> QED
    BY <2>2, <2>3
<1> HIDE DEF what
<1>7. /\ mine \in Own /\ mine.link = what
      /\ mine.account = writes[r].account /\ mine.session = writes[r].session
  BY <1>1, <1>6 DEF Own
<1>8. Writes(r, mine)
  BY <1>0 DEF SaveLink, what
<1> HIDE DEF mine
<1>9. Forward(r) /\ seen' = seen /\ writes'[r] = mine
  BY <1>2, <1>7, <1>8, WritesForward
<1>10. LinkWrites(r)'
  <2>1. /\ Started(r)' /\ Statement(r)' = "commit" /\ call'[r] = call[r] /\ link' = link
        /\ (Changer(r)' <=> Changer(r))
    BY <1>2, <1>9, ForwardControl DEF Forward, Quiet, database, After
  <2>2. NewLink(r)' = NewLink(r)
    BY <1>9 DEF NewLink
  <2>3. Sends(r, id)'
    BY <1>3, <1>4, <1>6, <1>7, <1>9, <2>1, <2>2 DEF Sends, Rows
  <2>4. \A l \in DOMAIN own : Marks(r, l)
    BY <1>1, <1>2 DEF Slot, LinkWrites, Sends
  <2>5. \A l \in DOMAIN own : Marks(r, l)'
    BY <1>6, <1>7, <1>9, <2>1, <2>4 DEF Marks, Rows
  <2>6. \A l \in DOMAIN own : l \in Rows(link)
    BY <2>4 DEF Marks
  <2>7. PastLinks(r)'
    BY <1>3, <2>1 DEF PastLinks
  <2>8. \A l \in DOMAIN what : l = id \/ l \in DOMAIN own
    BY <1>6
  <2> QED
    BY <1>7, <1>9, <2>1, <2>3, <2>5, <2>6, <2>7, <2>8 DEF LinkWrites, Rows
<1>11. Spends(r)'
  BY <1>3, <1>9 DEF Spends, Forward
<1>12. Slot(r)'
  BY <1>2, <1>7, <1>9, <1>10, <1>11, LaterWrite DEF Slot
<1>13. \A o \in Requests \ {r} : Apart(r, o)'
  BY <1>4, <1>6, <1>7, <1>9, NewUnlocked, StillApart
<1> QED
  BY <1>2, <1>3, <1>6, <1>7, <1>9, <1>12, <1>13

\* A slot takes a call, or drops one.
Idle(r) ==
  /\ Quiet(r) /\ Typed' /\ Slot(r)' /\ ~ Started(r)'
  /\ seen'[r] = NothingSeen /\ writes'[r] = NoWrites /\ locked'[r] = {}

LEMMA AbortStep ==
  ASSUME Base, NEW r \in Requests, Abort(r)
  PROVE  Idle(r) /\ call'[r] = NoCall
<1>1. /\ call \in [Requests -> Calls \cup {NoCall}] /\ todo \in [Requests -> Seq(Statements)]
      /\ seen \in [Requests -> Seen] /\ writes \in [Requests -> Own]
      /\ locked \in [Requests -> SUBSET ({"session", "link"} \X Nat)]
  BY DEF Base, Typed, TypeOK
<1>2. /\ call'[r] = NoCall /\ todo'[r] = <<>> /\ seen'[r] = NothingSeen /\ writes'[r] = NoWrites
      /\ locked'[r] = {}
      /\ \A o \in Requests \ {r} : /\ call'[o] = call[o] /\ todo'[o] = todo[o] /\ seen'[o] = seen[o]
                                   /\ writes'[o] = writes[o] /\ locked'[o] = locked[o]
  BY <1>1 DEF Abort, End
<1>3. /\ call' \in [Requests -> Calls \cup {NoCall}] /\ todo' \in [Requests -> Seq(Statements)]
      /\ seen' \in [Requests -> Seen] /\ writes' \in [Requests -> Own]
      /\ locked' \in [Requests -> SUBSET ({"session", "link"} \X Nat)]
  BY <1>1, NothingTyped DEF Abort, End
<1>4. Quiet(r)
  BY <1>2 DEF Quiet, Grown, Abort, history
<1>5. Typed'
  BY <1>3 DEF Base, Typed, TypeOK, Abort, database, history, Rows
<1>6. ~ Busy(r)' /\ Position(r)' /\ Given(r)' /\ ~ Started(r)'
  BY <1>2, NoCallIsNoCall DEF Busy, Position, Given, Presents, Started
<1>7. Slot(r)'
  BY <1>2, <1>5, <1>6, IdleSlot
<1> QED
  BY <1>2, <1>4, <1>5, <1>6, <1>7 DEF Idle

LEMMA SecretsThere ==
  ASSUME Typed
  PROVE  Chosen \subseteq Secrets /\ NewSecrets \subseteq Secrets
<1>1. \A u \in Rows(account) : account[u].secret \in Secrets
  BY RowFields DEF Account
<1>2. \A t \in Rows(session) : session[t].secret \in Secrets
  BY RowFields DEF Session
<1>3. \A l \in Rows(link) : link[l].secret \in Secrets
  BY RowFields DEF Link
<1>4. \A o \in Requests : ChosenBy(o) \subseteq Secrets
  BY SlotFields, CallFields DEF ChosenBy, Changes
<1>5. Chosen \subseteq Secrets
  BY <1>1, <1>2, <1>3, <1>4 DEF Chosen
<1>6. CASE Chosen # Secrets
  <2> DEFINE D == Chosen
  <2>1. Secrets \ D # {} /\ Secrets \subseteq Nat
    BY <1>5, <1>6, Constants
  <2> HIDE DEF D
  <2>2. NextId(Secrets, D) \in Secrets
    BY <2>1, NextIdIsLeft
  <2> QED
    BY <1>5, <1>6, <2>2 DEF NewSecrets, D
<1> QED
  BY <1>5, <1>6 DEF NewSecrets

LEMMA StartStep ==
  ASSUME Base, NEW r \in Requests, Start(r)
  PROVE  /\ Idle(r) /\ ~ Busy(r) /\ call'[r] \in Calls /\ RoomFor(call'[r].op)
         /\ seen' = seen /\ writes' = writes
<1>1. /\ call \in [Requests -> Calls \cup {NoCall}] /\ todo \in [Requests -> Seq(Statements)]
      /\ seen \in [Requests -> Seen] /\ writes \in [Requests -> Own]
      /\ Typed /\ Slot(r) /\ mailed \subseteq Rows(link)
  BY DEF Base, Typed, TypeOK
<1>2. PICK c \in Presentable :
        /\ RoomFor(c.op)
        /\ call' = [call EXCEPT ![r] = c]
        /\ todo' = [todo EXCEPT ![r] = Program(c.op)]
  BY DEF Start
<1>3. /\ c \in Calls
      /\ c.op \in {"refresh", "logout"} => c.token \in Rows(session)
      /\ c.op = "resetPassword" => c.link \in Rows(link)
      /\ c.op = "changePassword" =>
           c.user \in Rows(account) /\ c.keep \in Rows(session) \cup {NoToken}
  <2>1. /\ Chosen \subseteq Secrets /\ NewSecrets \subseteq Secrets /\ Rows(account) \subseteq Accounts
        /\ Rows(session) \subseteq Tokens /\ mailed \subseteq Rows(link) /\ Rows(link) \subseteq Links
    BY <1>1, SecretsThere, RowFields
  <2>2. CASE c \in [op : {"login"}, email : Spellings, secret : Chosen]
    <3>1. c \in [op : {"login"}, email : Spellings, secret : Secrets]
      BY <2>1, <2>2
    <3> QED
      BY <2>2, <3>1 DEF Calls
  <2>3. CASE c \in [op : {"refresh", "logout"}, token : Rows(session)]
    <3>1. c \in [op : {"refresh", "logout"}, token : Tokens]
      BY <2>1, <2>3
    <3> QED
      BY <2>3, <3>1 DEF Calls
  <2>4. CASE c \in [op : {"changePassword"}, user : Rows(account), secret : Chosen,
                    keep : Rows(session) \cup {NoToken}, new : NewSecrets]
    <3>1. c \in [op : {"changePassword"}, user : Accounts, secret : Secrets, new : Secrets,
                 keep : Tokens \cup {NoToken}]
      BY <2>1, <2>4
    <3> QED
      BY <2>4, <3>1 DEF Calls
  <2>5. CASE c \in [op : {"requestReset"}, email : Spellings]
    BY <2>5 DEF Calls
  <2>6. CASE c \in [op : {"resetPassword"}, link : mailed, new : NewSecrets]
    <3>1. c \in [op : {"resetPassword"}, link : Links, new : Secrets]
      BY <2>1, <2>6
    <3> QED
      BY <2>1, <2>6, <3>1 DEF Calls
  <2>7. CASE c \in [op : {"register"}, email : Spellings, secret : NewSecrets]
    <3>1. c \in [op : {"register"}, email : Spellings, secret : Secrets]
      BY <2>1, <2>7
    <3> QED
      BY <2>7, <3>1 DEF Calls
  <2> QED
    BY <2>2, <2>3, <2>4, <2>5, <2>6, <2>7 DEF Presentable
<1>4. c.op \in Ops /\ c # NoCall
  BY <1>3, OpOfCall, NoCallIsNoCall
<1> DEFINE p == Program(c.op)
<1>5. p \in Seq(Statements) /\ Len(p) \in Nat \ {0} /\ p[1] \in Firsts
  BY <1>4, ProgramFlow
<1>6. p = RestOf(p, 1) /\ Head(p) = p[1] /\ p # <<>>
  BY <1>5, Rest
<1> HIDE DEF p
<1>7. /\ call' \in [Requests -> Calls \cup {NoCall}] /\ call'[r] = c
      /\ todo' \in [Requests -> Seq(Statements)] /\ todo'[r] = p
      /\ \A o \in Requests \ {r} : call'[o] = call[o] /\ todo'[o] = todo[o]
  BY <1>1, <1>2, <1>3, <1>5 DEF p
<1>8. /\ ~ Busy(r) /\ calls < MaxCalls /\ calls' = calls + 1
      /\ UNCHANGED <<now, database, mailed, seen, writes, locked, overtaken, ended>>
  BY DEF Start
<1>9. seen'[r] = NothingSeen /\ writes'[r] = NoWrites /\ locked'[r] = {}
  BY <1>1, <1>8 DEF Slot, Blank, Locks, Started
<1>10. Quiet(r)
  BY <1>7, <1>8 DEF Quiet, Grown
<1>11. Typed'
  <2>1. calls' \in 0..MaxCalls
    BY <1>1, <1>8, Constants DEF Typed, TypeOK
  <2> QED
    BY <1>1, <1>7, <1>8, <2>1 DEF Typed, TypeOK, database, Rows
<1>12. Busy(r)' /\ Position(r)' /\ ~ Started(r)'
  <2>1. Busy(r)' /\ Statement(r)' = p[1]
    BY <1>4, <1>6, <1>7 DEF Busy, Statement
  <2>2. 1 \in 1..Len(p) + 1
    BY <1>5
  <2>3. Position(r)'
    BY <1>6, <1>7, <2>1, <2>2 DEF Position, p
  <2> QED
    BY <1>5, <2>1, <2>3 DEF Started
<1>13. Given(r)'
  BY <1>3, <1>7, <1>8 DEF Given, Presents, database, Rows
<1>14. Slot(r)'
  BY <1>9, <1>11, <1>12, <1>13, IdleSlot
<1> QED
  BY <1>2, <1>3, <1>7, <1>8, <1>9, <1>10, <1>11, <1>12, <1>14 DEF Idle

-----------------------------------------------------------------------------
(* Every step of one slot, short of its commit, keeps the invariant.       *)

\* Counting n rows and the slots of S, there is room for one more slot.
LEMMA OneMore ==
  ASSUME NEW n \in Nat, NEW max \in Nat, NEW S \in SUBSET Requests, NEW T \in SUBSET Requests, NEW r \in Requests,
         n + Cardinality(S) <= max,
         T \subseteq S \/ (T \subseteq S \cup {r} /\ n + Cardinality(S) < max)
  PROVE  n + Cardinality(T) <= max
<1>1. IsFiniteSet(S) /\ IsFiniteSet(T) /\ IsFiniteSet(S \cup {r})
  BY SessionsAssumption, FS_Subset
<1>2. Cardinality(S) \in Nat /\ Cardinality(T) \in Nat
  BY <1>1, FS_CardinalityType
<1>3. T \subseteq S => Cardinality(T) <= Cardinality(S)
  BY <1>1, FS_Subset
<1>4. Cardinality(S \cup {r}) = IF r \in S THEN Cardinality(S) ELSE Cardinality(S) + 1
  BY <1>1, FS_AddElement
<1>5. T \subseteq S \cup {r} => Cardinality(T) <= Cardinality(S \cup {r})
  BY <1>1, FS_Subset
<1> QED
  BY <1>2, <1>3, <1>4, <1>5

LEMMA Counts ==
  ASSUME Typed
  PROVE  /\ IsFiniteSet(Rows(account)) /\ IsFiniteSet(Rows(session)) /\ IsFiniteSet(Rows(link))
         /\ Cardinality(Rows(account)) \in Nat /\ Cardinality(Rows(session)) \in Nat
         /\ Cardinality(Rows(link)) \in Nat
         /\ Registrations \in SUBSET Requests /\ Issuing("sessions") \in SUBSET Requests
         /\ Issuing("links") \in SUBSET Requests
<1>1. IsFiniteSet(Accounts) /\ IsFiniteSet(Tokens) /\ IsFiniteSet(Links)
  BY Constants, FS_Interval DEF Accounts, Tokens, Links
<1>2. IsFiniteSet(Rows(account)) /\ IsFiniteSet(Rows(session)) /\ IsFiniteSet(Rows(link))
  BY <1>1, RowFields, FS_Subset
<1> QED
  BY <1>2, FS_CardinalityType DEF Registrations, Issuing

LEMMA RoomStart ==
  ASSUME Base, NEW r \in Requests, Quiet(r), RoomFor(call'[r].op)
  PROVE  Room'
<1>1. /\ Rows(account)' = Rows(account) /\ Rows(session)' = Rows(session) /\ Rows(link)' = Rows(link)
      /\ \A o \in Requests \ {r} : call'[o] = call[o]
  BY DEF Quiet, database, Rows
<1>2. /\ Registrations' \in SUBSET Requests
      /\ Issuing("sessions")' \in SUBSET Requests /\ Issuing("links")' \in SUBSET Requests
  BY DEF Registrations, Issuing
<1>3. /\ \A kind \in {"sessions", "links"} :
           Issuing(kind)' \subseteq Issuing(kind) \/
             (Issuing(kind)' \subseteq Issuing(kind) \cup {r} /\ Issues(call'[r].op, kind))
      /\ Registrations' \subseteq Registrations \/
           (Registrations' \subseteq Registrations \cup {r} /\ call'[r].op = "register")
  BY <1>1 DEF Registrations, Issuing
<1>4. /\ Issues(call'[r].op, "sessions") =>
           Cardinality(Rows(session)) + Cardinality(Issuing("sessions")) < MaxTokens
      /\ Issues(call'[r].op, "links") =>
           Cardinality(Rows(link)) + Cardinality(Issuing("links")) < MaxLinks
      /\ call'[r].op = "register" =>
           Cardinality(Rows(account)) + Cardinality(Registrations) < MaxAccounts
  BY DEF RoomFor, Issuing, Registrations
<1>5. Typed /\ Room
  BY DEF Base
<1>6. Cardinality(Rows(account)) + Cardinality(Registrations') <= MaxAccounts
  BY <1>2, <1>3, <1>4, <1>5, Counts, Constants, OneMore DEF Room
<1>7. Cardinality(Rows(session)) + Cardinality(Issuing("sessions")') <= MaxTokens
  BY <1>2, <1>3, <1>4, <1>5, Counts, Constants, OneMore DEF Room
<1>8. Cardinality(Rows(link)) + Cardinality(Issuing("links")') <= MaxLinks
  BY <1>2, <1>3, <1>4, <1>5, Counts, Constants, OneMore DEF Room
<1> QED
  BY <1>1, <1>6, <1>7, <1>8 DEF Room

LEMMA RoomStays ==
  ASSUME Base, NEW r \in Requests, Quiet(r), call'[r] = call[r] \/ call'[r] = NoCall
  PROVE  Room'
<1>1. /\ Rows(account)' = Rows(account) /\ Rows(session)' = Rows(session) /\ Rows(link)' = Rows(link)
      /\ \A o \in Requests \ {r} : call'[o] = call[o]
  BY DEF Quiet, database, Rows
<1>2. /\ Registrations' \in SUBSET Requests
      /\ Issuing("sessions")' \in SUBSET Requests /\ Issuing("links")' \in SUBSET Requests
      /\ Registrations' \subseteq Registrations
      /\ Issuing("sessions")' \subseteq Issuing("sessions") /\ Issuing("links")' \subseteq Issuing("links")
  BY <1>1, NoCallIsNoCall DEF Registrations, Issuing, Issues
<1>3. Typed /\ Room
  BY DEF Base
<1>4. Cardinality(Rows(account)) + Cardinality(Registrations') <= MaxAccounts
  BY <1>2, <1>3, Counts, Constants, OneMore DEF Room
<1>5. Cardinality(Rows(session)) + Cardinality(Issuing("sessions")') <= MaxTokens
  BY <1>2, <1>3, Counts, Constants, OneMore DEF Room
<1>6. Cardinality(Rows(link)) + Cardinality(Issuing("links")') <= MaxLinks
  BY <1>2, <1>3, Counts, Constants, OneMore DEF Room
<1> QED
  BY <1>1, <1>4, <1>5, <1>6 DEF Room

LEMMA QuietBase ==
  ASSUME Base, NEW r \in Requests, Quiet(r), Typed', Room', Slot(r)',
         \A o \in Requests \ {r} : Apart(r, o)'
  PROVE  Base'
<1>1. \A o \in Requests : Slot(o)'
  BY QuietSlots DEF Base
<1>2. Exclusive'
  <2> SUFFICES ASSUME NEW o \in Requests, NEW q \in Requests, o # q PROVE Apart(o, q)'
    BY DEF Exclusive
  <2>1. CASE o = r
    BY <2>1
  <2>2. CASE q = r
    <3>1. Apart(r, o)'
      BY <2>2
    <3> QED
      BY <2>2, <3>1 DEF Apart
  <2>3. CASE o # r /\ q # r
    <3>1. Apart(o, q)
      BY DEF Base, Exclusive
    <3> QED
      BY <2>3, <3>1 DEF Apart, Clear, Quiet
  <2> QED
    BY <2>1, <2>2, <2>3
<1>3. Grounded'
  BY DEF Base, Grounded, Quiet, database, Rows
<1> QED
  BY <1>1, <1>2, <1>3 DEF Base

\* A step of r, short of a commit: it takes or drops a call, or executes a statement.
Local(r) ==
  \/ Start(r) \/ Fail(r) \/ ReadEmail(r) \/ ReadUser(r) \/ SaveUser(r) \/ InsertUser(r)
  \/ ReadSession(r) \/ RevokeRead(r) \/ SaveSession(r) \/ FindSessions(r) \/ CloseSessions(r)
  \/ ReadLatest(r) \/ FindLinks(r) \/ CloseLinks(r) \/ SaveLink(r) \/ ReadLink(r)

LEMMA UnwrittenApart ==
  ASSUME Base, NEW r \in Requests, Quiet(r), writes'[r] = writes[r] \/ writes'[r] = NoWrites,
         locked'[r] \subseteq locked[r]
  PROVE  \A o \in Requests \ {r} : Apart(r, o)'
<1> SUFFICES ASSUME NEW o \in Requests \ {r} PROVE Apart(r, o)'
  OBVIOUS
<1>1. writes'[o] = writes[o] /\ locked'[o] = locked[o] /\ Apart(r, o)
  BY DEF Quiet, Base, Exclusive
<1>2. DOMAIN NoWrites.account = {} /\ DOMAIN NoWrites.session = {} /\ DOMAIN NoWrites.link = {}
  BY DEF NoWrites
<1>3. Clear(r, o)' /\ Clear(o, r)'
  BY <1>1, <1>2 DEF Apart, Clear
<1> QED
  BY <1>1, <1>2, <1>3 DEF Apart

\* updateMany takes the next row.
LEMMA LockNextStep ==
  ASSUME Base, NEW r \in Requests, LockNext(r)
  PROVE  Base' /\ UNCHANGED <<now, database, mailed, call, todo, seen, writes, history>>
<1>1. Typed /\ Slot(r) /\ Position(r)
  BY DEF Base, Slot
<1>2. PICK table \in {"session", "link"} :
        /\ Statement(r) = (IF table = "session" THEN "closeSessions" ELSE "closeLinks")
        /\ Busy(r) /\ Wants(r) = NextOf(r, table) /\ \A o \in Requests : ~ WaitsFor(r, o)
  BY DEF LockNext, At, Wants
<1>3. Wants(r) # {} /\ locked' = [locked EXCEPT ![r] = @ \cup Wants(r)]
      /\ UNCHANGED <<now, database, mailed, call, todo, seen, writes, history>>
  BY DEF LockNext
<1>4. /\ account' = account /\ session' = session /\ link' = link /\ call' = call /\ todo' = todo
      /\ seen' = seen /\ writes' = writes /\ mailed' = mailed /\ now' = now
      /\ overtaken' = overtaken /\ ended' = ended /\ calls' = calls
  BY <1>3 DEF database, history
<1>5. PICK x \in seen[r].doomed :
        /\ Wants(r) = {<<table, x>>} /\ <<table, x>> \notin locked[r] /\ x \in Nat
        /\ \A z \in seen[r].doomed : <<table, z>> \in locked[r] \/ z = x \/ x < z
  BY <1>2, <1>3, FirstLeft
<1>6. /\ locked' \in [Requests -> SUBSET ({"session", "link"} \X Nat)]
      /\ locked'[r] = locked[r] \cup {<<table, x>>}
      /\ \A o \in Requests \ {r} : locked'[o] = locked[o]
  BY <1>1, <1>3, <1>5 DEF Typed
<1>7. \A o \in Requests \ {r} : /\ <<table, x>> \notin locked[o]
                                /\ table = "session" => x \notin DOMAIN writes[o].session
                                /\ table = "link" => x \notin DOMAIN writes[o].link
  <2> SUFFICES ASSUME NEW o \in Requests \ {r}
               PROVE  /\ <<table, x>> \notin locked[o]
                      /\ table = "session" => x \notin DOMAIN writes[o].session
                      /\ table = "link" => x \notin DOMAIN writes[o].link
    OBVIOUS
  <2>1. <<table, x>> \notin Holds(o)
    BY <1>2, <1>5 DEF WaitsFor
  <2>2. /\ locked[o] \subseteq Holds(o)
        /\ \A t \in DOMAIN writes[o].session : <<"session", t>> \in Holds(o)
        /\ \A l \in DOMAIN writes[o].link : <<"link", l>> \in Holds(o)
    BY DEF Holds
  <2> QED
    BY <2>1, <2>2
<1>8. Typed' /\ Quiet(r)
  <2>1. Quiet(r)
    BY <1>4, <1>6 DEF Quiet, Grown, database
  <2> QED
    BY <1>1, <1>4, <1>6, <2>1 DEF Typed, TypeOK, Rows
<1>9. /\ (Statement(r)' = Statement(r)) /\ (Started(r)' <=> Started(r)) /\ (NewLink(r)' = NewLink(r))
      /\ (Saved(r)' <=> Saved(r)) /\ (PastLinks(r)' <=> PastLinks(r))
  BY <1>4 DEF Statement, Started, Busy, NewLink, Saved, Changer, PastLinks
<1>10. /\ Started(r)
       /\ table = "session" => Saved(r) /\ x \in Rows(session) /\ session[x].user = seen[r].user
       /\ table = "link" => /\ Saved(r) \/ call[r].op = "requestReset"
                            /\ x \in Rows(link) /\ link[x].user = seen[r].user
  <2>1. Started(r)
    BY <1>2 DEF Started, Firsts
  <2>2. table = "session" => Changer(r)
    BY <1>1, <1>2, Who
  <2>3. table = "link" => Changer(r) \/ call[r].op = "requestReset"
    BY <1>1, <1>2, Who
  <2>4. Changer(r) => Saved(r)
    BY <1>2, <2>1 DEF Saved
  <2> QED
    BY <1>1, <1>2, <1>5, <2>1, <2>2, <2>3, <2>4 DEF Slot, SessionWrites, LinkWrites
<1>11. Locks(r)'
  <2>1. Locks(r)
    BY <1>1 DEF Slot
  <2>2. ASSUME NEW t, <<"session", t>> \in locked'[r]
        PROVE  t \in Rows(session) /\ session[t].user = seen[r].user /\ Saved(r)
    BY <1>6, <1>10, <2>1, <2>2 DEF Locks
  <2>3. ASSUME NEW l, <<"link", l>> \in locked'[r]
        PROVE  /\ l \in Rows(link) /\ link[l].user = seen[r].user
               /\ Saved(r) \/ call[r].op = "requestReset"
               /\ Statement(r) = "closeLinks" \/ PastLinks(r)
               /\ Statement(r) = "closeLinks" =>
                    \A k \in seen[r].doomed : <<"link", k>> \in locked'[r] \/ l < k
    <3>1. CASE <<"link", l>> \in locked[r]
      BY <1>6, <2>1, <3>1 DEF Locks
    <3>2. CASE table = "link" /\ l = x
      BY <1>2, <1>5, <1>6, <1>10, <3>2
    <3> QED
      BY <1>6, <2>3, <3>1, <3>2
  <2> QED
    BY <1>4, <1>9, <1>10, <2>2, <2>3 DEF Locks, Rows
<1>12. Slot(r)'
  <2>1. Position(r)' /\ Blank(r)' /\ Given(r)' /\ Informed(r)'
    BY <1>1, <1>4, <1>9 DEF Slot, Position, Busy, Blank, Given, Informed, Presents, Changer, Rows
  <2>2. AccountWrites(r)' /\ SessionWrites(r)'
    BY <1>1, <1>4, <1>9
    DEF Slot, AccountWrites, Inserted, SessionWrites, Issued, Revokes, Presents, Changer, Rows
  <2>3. LinkWrites(r)' /\ Spends(r)'
    BY <1>1, <1>4, <1>9 DEF Slot, LinkWrites, Spends, Sends, Marks, Changer, Rows
  <2> QED
    BY <1>11, <2>1, <2>2, <2>3 DEF Slot
<1>13. \A o \in Requests \ {r} : Apart(r, o)'
  <2> SUFFICES ASSUME NEW o \in Requests \ {r} PROVE Apart(r, o)'
    OBVIOUS
  <2>1. Apart(r, o)
    BY DEF Base, Exclusive
  <2>2. Clear(r, o)' /\ Clear(o, r)'
    BY <1>4, <1>6, <1>7, <2>1 DEF Apart, Clear
  <2> QED
    BY <1>4, <1>6, <1>7, <2>1, <2>2 DEF Apart
<1>14. Room'
  BY <1>4, <1>8, RoomStays
<1> QED
  BY <1>3, <1>8, <1>12, <1>13, <1>14, QuietBase

LEMMA LocalStep ==
  ASSUME Base, NEW r \in Requests, Local(r)
  PROVE  /\ Idle(r) \/ (Forward(r) /\ Slot(r)')
         /\ Base'
<1>1. CASE Idle(r) /\ (Start(r) \/ Abort(r))
  <2>1. Room'
    BY <1>1, StartStep, AbortStep, RoomStart, RoomStays DEF Idle
  <2> QED
    BY <1>1, <2>1, UnwrittenApart, QuietBase DEF Idle
<1>2. CASE Forward(r) /\ Slot(r)' /\ \A o \in Requests \ {r} : Apart(r, o)'
  <2>1. Room' /\ Typed' /\ Quiet(r)
    BY <1>2, RoomStays, ForwardControl DEF Forward
  <2> QED
    BY <1>2, <2>1, QuietBase
<1>3. CASE Forward(r) /\ Slot(r)' /\ writes' = writes
  <2>1. \A o \in Requests \ {r} : Apart(r, o)'
    BY <1>3, UnwrittenApart DEF Forward
  <2> QED
    BY <1>2, <1>3, <2>1
<1>4. CASE Start(r)
  BY <1>1, <1>4, StartStep
<1>5. CASE Abort(r)
  BY <1>1, <1>5, AbortStep
<1>6. CASE Fail(r)
  BY <1>5, <1>6 DEF Fail
<1>7. CASE ReadEmail(r)
  BY <1>3, <1>5, <1>7, ReadEmailStep
<1>8. CASE ReadUser(r)
  BY <1>3, <1>5, <1>8, ReadUserStep
<1>9. CASE SaveUser(r)
  BY <1>2, <1>9, SaveUserStep
<1>10. CASE InsertUser(r)
  BY <1>2, <1>5, <1>10, InsertUserStep
<1>11. CASE ReadSession(r)
  BY <1>3, <1>5, <1>11, ReadSessionStep
<1>12. CASE RevokeRead(r)
  BY <1>2, <1>12, RevokeReadStep
<1>13. CASE SaveSession(r)
  BY <1>2, <1>13, SaveSessionStep
<1>14. CASE FindSessions(r)
  BY <1>3, <1>14, FindSessionsStep
<1>15. CASE CloseSessions(r)
  BY <1>2, <1>15, CloseSessionsStep
<1>16. CASE ReadLatest(r)
  BY <1>3, <1>5, <1>16, ReadLatestStep
<1>17. CASE FindLinks(r)
  BY <1>3, <1>17, FindLinksStep
<1>18. CASE CloseLinks(r)
  BY <1>2, <1>18, CloseLinksStep
<1>19. CASE SaveLink(r)
  BY <1>2, <1>19, SaveLinkStep
<1>20. CASE ReadLink(r)
  BY <1>3, <1>5, <1>20, ReadLinkStep
<1> QED
  BY <1>4, <1>6, <1>7, <1>8, <1>9, <1>10, <1>11, <1>12, <1>13, <1>14, <1>15, <1>16, <1>17,
     <1>18, <1>19, <1>20 DEF Local

-----------------------------------------------------------------------------
(* What a commit does to the tables.                                       *)

Kept(r, t) == call[r].op = "changePassword" /\ t = call[r].keep

LEMMA AccountMoves ==
  ASSUME Base, NEW r \in Requests, Commit(r)
  PROVE  /\ account' \in [Accounts -> Account \cup {None}]
         /\ \A u \in Accounts \ DOMAIN writes[r].account : account'[u] = account[u]
         /\ \A u \in Rows(account) :
              /\ u \in Rows(account)' /\ account'[u].email = account[u].email
              /\ account'[u].during = account[u].during
              /\ account'[u].secret = IF Changer(r) /\ u = seen[r].user THEN call[r].new
                                      ELSE account[u].secret
         /\ \A u \in Rows(account)' \ Rows(account) :
              /\ Inserted(r) /\ u \in DOMAIN writes[r].account
              /\ account'[u].email = call[r].email /\ account'[u].during = seen[r].during
<1>1. Typed /\ Slot(r) /\ seen[r] \in Seen /\ writes[r] \in Own
  BY SlotFields DEF Base
<1> DEFINE own == writes[r].account
<1>2. /\ own \in Partial(Accounts, Account) /\ DOMAIN own \subseteq Accounts
      /\ \A u \in DOMAIN own : own[u] \in Account
  BY <1>1, OwnFields
<1>3. Busy(r) /\ Statement(r) = "commit" /\ Started(r) /\ account' = Over(Noted(r, own, account), account)
  BY DEF Commit, Started, Firsts
<1>4. account \in [Accounts -> Account \cup {None}] /\ None \notin Account
  BY <1>1, NoneIsNoRow DEF Typed, TypeOK
<1>5. \A row \in Account : [row EXCEPT !.during = seen[r].during] \in Account
  BY <1>1, SeenFields DEF Account
<1>6. /\ account' \in [Accounts -> Account \cup {None}]
      /\ \A u \in Accounts : account'[u] = IF u \in DOMAIN own
                                   THEN IF account[u] = None
                                        THEN [own[u] EXCEPT !.during = seen[r].during]
                                        ELSE own[u]
                                   ELSE account[u]
      /\ \A u \in Accounts : account'[u] # None <=> account[u] # None \/ u \in DOMAIN own
  <2>1. account' = [u \in Accounts |->
                     IF u \in DOMAIN own
                     THEN IF account[u] = None THEN [own[u] EXCEPT !.during = seen[r].during]
                          ELSE own[u]
                     ELSE account[u]]
    BY <1>2, <1>3, <1>4 DEF Over, Noted
  <2> HIDE DEF own
  <2>2. \A u \in Accounts : account'[u] = IF u \in DOMAIN own
                                   THEN IF account[u] = None
                                        THEN [own[u] EXCEPT !.during = seen[r].during]
                                        ELSE own[u]
                                   ELSE account[u]
    BY <2>1
  <2>3. \A u \in Accounts : /\ account'[u] \in Account \cup {None}
                        /\ account'[u] # None <=> account[u] # None \/ u \in DOMAIN own
    BY <1>2, <1>4, <1>5, <2>2
  <2> QED
    BY <2>1, <2>2, <2>3
<1>7. /\ Changer(r) => /\ DOMAIN own = {seen[r].user}
                       /\ own[seen[r].user] = [seen[r].row EXCEPT !.secret = call[r].new]
                       /\ seen[r].user \in Rows(account)
                       /\ seen[r].row \in Account
                       /\ seen[r].row.email = account[seen[r].user].email
                       /\ seen[r].row.during = account[seen[r].user].during
      /\ ~ Changer(r) /\ ~ Inserted(r) => DOMAIN own = {}
      /\ Inserted(r) => ~ Changer(r)
      /\ Inserted(r) => \E u \in Accounts \ Rows(account) :
                      DOMAIN own = {u} /\ own[u].email = call[r].email
  BY <1>1, <1>3 DEF Slot, AccountWrites, Informed, Saved, Inserted, Changer, Changes
<1>8. Rows(account) = {u \in Accounts : account[u] # None}
      /\ Rows(account)' = {u \in Accounts : account'[u] # None}
  BY <1>4, <1>6 DEF Rows
<1> HIDE DEF own
<1>9. ASSUME NEW u \in Rows(account)
      PROVE  /\ u \in Rows(account)' /\ account'[u].email = account[u].email
             /\ account'[u].during = account[u].during
             /\ account'[u].secret = IF Changer(r) /\ u = seen[r].user THEN call[r].new
                                     ELSE account[u].secret
  <2>1. u \in Accounts /\ account[u] # None /\ account'[u] # None
    BY <1>6, <1>8
  <2>2. CASE u \in DOMAIN own
    <3>1. Changer(r) /\ u = seen[r].user
      BY <1>7, <1>9, <2>2
    <3>2. account'[u] = [seen[r].row EXCEPT !.secret = call[r].new]
      BY <1>6, <1>7, <2>1, <2>2, <3>1
    <3> QED
      BY <1>7, <1>8, <2>1, <3>1, <3>2 DEF Account
  <2>3. CASE u \notin DOMAIN own
    <3>1. account'[u] = account[u] /\ ~ (Changer(r) /\ u = seen[r].user)
      BY <1>6, <1>7, <2>1, <2>3
    <3> QED
      BY <1>8, <2>1, <3>1
  <2> QED
    BY <2>2, <2>3
<1>10. ASSUME NEW u \in Rows(account)' \ Rows(account)
       PROVE  /\ Inserted(r) /\ u \in DOMAIN own
              /\ account'[u].email = call[r].email /\ account'[u].during = seen[r].during
  <2>1. u \in Accounts /\ account[u] = None /\ account'[u] # None /\ u \in DOMAIN own
    BY <1>6, <1>8
  <2>2. Inserted(r) /\ own[u].email = call[r].email
    BY <1>7, <1>8, <2>1
  <2>3. account'[u] = [own[u] EXCEPT !.during = seen[r].during] /\ own[u] \in Account
    BY <1>2, <1>6, <2>1
  <2> QED
    BY <2>1, <2>2, <2>3 DEF Account
<1> QED
  BY <1>6, <1>9, <1>10 DEF own

LEMMA SessionMoves ==
  ASSUME Base, NEW r \in Requests, Commit(r)
  PROVE  /\ session' \in [Tokens -> Session \cup {None}]
         /\ \A t \in Tokens \ DOMAIN writes[r].session : ~ Kept(r, t) => session'[t] = session[t]
         /\ \A t \in Rows(session) :
              /\ t \in Rows(session)' /\ session'[t].user = session[t].user
              /\ session'[t].chain = session[t].chain
              /\ session'[t].revoked = (session[t].revoked \/ t \in DOMAIN writes[r].session)
              /\ t \notin DOMAIN writes[r].session => session'[t].during = session[t].during
              /\ t \notin DOMAIN writes[r].session =>
                   session'[t].secret =
                     IF Kept(r, t) /\ session[t].user = call[r].user THEN call[r].new
                     ELSE session[t].secret
         /\ \A t \in Rows(session)' \ Rows(session) :
              /\ Issued(r, t) /\ t \in DOMAIN writes[r].session
              /\ session'[t].user = seen[r].user /\ session'[t].secret = seen[r].row.secret
              /\ session'[t].during = seen[r].during /\ ~ session'[t].revoked
              /\ session'[t].chain = IF call[r].op = "refresh" THEN seen[r].row.chain ELSE t
<1>1. Typed /\ Slot(r) /\ seen[r] \in Seen /\ writes[r] \in Own
  BY SlotFields DEF Base
<1> DEFINE own == writes[r].session
<1>2. /\ own \in Partial(Tokens, Session) /\ DOMAIN own \subseteq Tokens
      /\ \A t \in DOMAIN own : own[t] \in Session
  BY <1>1, OwnFields
<1>3. PICK rows : rows = Over(Noted(r, own, session), session)
  OBVIOUS
<1>4. /\ Busy(r) /\ Statement(r) = "commit" /\ Started(r)
      /\ session' = Vouched(r, rows)
  BY <1>3 DEF Commit, Started, Firsts
<1>5. session \in [Tokens -> Session \cup {None}] /\ None \notin Session
  BY <1>1, NoneIsNoRow DEF Typed, TypeOK
<1>6. \A row \in Session : [row EXCEPT !.during = seen[r].during] \in Session
  BY <1>1, SeenFields DEF Session
<1>7. /\ rows \in [Tokens -> Session \cup {None}]
      /\ \A t \in Tokens : rows[t] = IF t \in DOMAIN own
                                     THEN IF session[t] = None
                                          THEN [own[t] EXCEPT !.during = seen[r].during]
                                          ELSE own[t]
                                     ELSE session[t]
      /\ \A t \in Tokens : rows[t] # None <=> session[t] # None \/ t \in DOMAIN own
  <2>1. rows = [t \in Tokens |->
                     IF t \in DOMAIN own
                     THEN IF session[t] = None THEN [own[t] EXCEPT !.during = seen[r].during]
                          ELSE own[t]
                     ELSE session[t]]
    BY <1>2, <1>3, <1>5 DEF Over, Noted
  <2> HIDE DEF own
  <2>2. \A t \in Tokens : rows[t] = IF t \in DOMAIN own
                                   THEN IF session[t] = None
                                        THEN [own[t] EXCEPT !.during = seen[r].during]
                                        ELSE own[t]
                                   ELSE session[t]
    BY <2>1
  <2>3. \A t \in Tokens : /\ rows[t] \in Session \cup {None}
                        /\ rows[t] # None <=> session[t] # None \/ t \in DOMAIN own
    BY <1>2, <1>5, <1>6, <2>2
  <2> QED
    BY <2>1, <2>2, <2>3
<1>8. \A t \in DOMAIN own : Issued(r, t) \/ Revokes(r, t)
  BY <1>1 DEF Slot, SessionWrites
<1>9. Rows(session) = {t \in Tokens : session[t] # None}
  BY <1>5 DEF Rows
<1>10. /\ session' \in [Tokens -> Session \cup {None}]
       /\ \A t \in Tokens :
            IF Kept(r, t) /\ rows[t].user = call[r].user
            THEN /\ rows[t] \in Session /\ session[t] # None
                 /\ session'[t] = [rows[t] EXCEPT !.secret = call[r].new]
            ELSE session'[t] = rows[t]
  <2>1. CASE call[r].op # "changePassword" \/ call[r].keep = NoToken
    <3>1. session' = rows
      BY <1>4, <2>1 DEF Vouched
    <3>2. \A t \in Tokens : ~ Kept(r, t)
      BY <2>1, Constants DEF Kept, NoToken
    <3> QED
      BY <1>7, <3>1, <3>2
  <2>2. CASE call[r].op = "changePassword" /\ call[r].keep # NoToken
    <3> DEFINE k == call[r].keep
    <3>1. k \in Rows(session) /\ k \in Tokens /\ session[k] # None
      BY <1>1, <1>9, <2>2 DEF Slot, Given
    <3>2. rows[k] \in Session
      BY <1>7, <3>1
    <3>3. call[r].new \in Secrets
      BY <1>1, <2>2, SlotFields, CallFields
    <3>4. session' = IF rows[k].user # call[r].user THEN rows
                     ELSE [rows EXCEPT ![k].secret = call[r].new]
      BY <1>4, <2>2 DEF Vouched
    <3>5. \A t : Kept(r, t) <=> t = k
      BY <2>2 DEF Kept
    <3> HIDE DEF k
    <3>6. [rows[k] EXCEPT !.secret = call[r].new] \in Session
      BY <3>2, <3>3 DEF Session
    <3>7. CASE rows[k].user # call[r].user
      BY <1>7, <3>4, <3>5, <3>7
    <3>8. CASE rows[k].user = call[r].user
      <4>1. session' = [rows EXCEPT ![k] = [rows[k] EXCEPT !.secret = call[r].new]]
        BY <3>4, <3>8
      <4> QED
        BY <1>7, <3>1, <3>2, <3>5, <3>6, <3>8, <4>1
    <3> QED
      BY <3>7, <3>8
  <2> QED
    BY <2>1, <2>2
<1>11. Rows(session)' = {t \in Tokens : session'[t] # None}
  BY <1>10 DEF Rows
<1>12. \A t \in Tokens : session'[t] # None <=> rows[t] # None
  BY <1>5, <1>7, <1>10 DEF Session, None
<1>13. ASSUME NEW t \in Tokens \ DOMAIN own, ~ Kept(r, t)
       PROVE  session'[t] = session[t]
  BY <1>7, <1>10, <1>13
<1> HIDE DEF own
<1>14. ASSUME NEW t \in Rows(session)
       PROVE  /\ t \in Rows(session)' /\ session'[t].user = session[t].user
              /\ session'[t].chain = session[t].chain
              /\ session'[t].revoked = (session[t].revoked \/ t \in DOMAIN own)
              /\ t \notin DOMAIN own => session'[t].during = session[t].during
              /\ t \notin DOMAIN own =>
                   session'[t].secret =
                     IF Kept(r, t) /\ session[t].user = call[r].user THEN call[r].new
                     ELSE session[t].secret
  <2>1. t \in Tokens /\ session[t] # None /\ rows[t] # None /\ session[t] \in Session /\ rows[t] \in Session
    BY <1>5, <1>7, <1>9
  <2>2. /\ session'[t].user = rows[t].user /\ session'[t].chain = rows[t].chain
        /\ session'[t].revoked = rows[t].revoked /\ session'[t].during = rows[t].during
        /\ session'[t].secret = IF Kept(r, t) /\ rows[t].user = call[r].user THEN call[r].new
                                ELSE rows[t].secret
    <3>1. CASE Kept(r, t) /\ rows[t].user = call[r].user
      <4>1. session'[t] = [rows[t] EXCEPT !.secret = call[r].new]
        BY <1>10, <2>1, <3>1
      <4> QED
        BY <2>1, <3>1, <4>1 DEF Session
    <3>2. CASE ~ (Kept(r, t) /\ rows[t].user = call[r].user)
      <4>1. session'[t] = rows[t]
        BY <1>10, <2>1, <3>2
      <4> QED
        BY <3>2, <4>1
    <3> QED
      BY <3>1, <3>2
  <2>3. t \in Rows(session)'
    BY <1>11, <1>12, <2>1
  <2>4. CASE t \in DOMAIN own
    <3>1. rows[t] = own[t] /\ ~ Issued(r, t)
      BY <1>7, <2>1, <2>4 DEF Issued
    <3>2. own[t].revoked /\ own[t].user = session[t].user /\ own[t].chain = session[t].chain
      BY <1>8, <2>4, <3>1 DEF Revokes, own
    <3> QED
      BY <1>2, <2>1, <2>2, <2>3, <2>4, <3>1, <3>2 DEF Session
  <2>5. CASE t \notin DOMAIN own
    <3>1. rows[t] = session[t]
      BY <1>7, <2>1, <2>5
    <3>2. session[t].revoked \in BOOLEAN
      BY <2>1 DEF Session
    <3> QED
      BY <2>2, <2>3, <2>5, <3>1, <3>2
  <2> QED
    BY <2>4, <2>5
<1>15. ASSUME NEW t \in Rows(session)' \ Rows(session)
       PROVE  /\ Issued(r, t) /\ t \in DOMAIN own
              /\ session'[t].user = seen[r].user /\ session'[t].secret = seen[r].row.secret
              /\ session'[t].during = seen[r].during /\ ~ session'[t].revoked
              /\ session'[t].chain = IF call[r].op = "refresh" THEN seen[r].row.chain ELSE t
  <2>1. t \in Tokens /\ session[t] = None /\ t \in DOMAIN own
    BY <1>7, <1>9, <1>11, <1>12
  <2>2. Issued(r, t)
    BY <1>8, <1>9, <2>1 DEF Revokes
  <2>3. rows[t] = [own[t] EXCEPT !.during = seen[r].during] /\ own[t] \in Session
    BY <1>2, <1>7, <2>1
  <2>4. ~ Kept(r, t)
    BY <2>2 DEF Issued, Issues, Kept
  <2>5. session'[t] = rows[t]
    BY <1>10, <2>1, <2>4
  <2> QED
    BY <2>1, <2>2, <2>3, <2>5 DEF Session, Issued, own
<1> QED
  BY <1>10, <1>13, <1>14, <1>15 DEF own

\* Two fields of one row.
LEMMA TwoFields ==
  ASSUME NEW f, f = [x \in DOMAIN f |-> f[x]], NEW k \in DOMAIN f, f[k] \in Link, NEW race
  PROVE  [f EXCEPT ![k].sets = @ + 1, ![k].during = @ \cup race]
           = [f EXCEPT ![k] = [f[k] EXCEPT !.sets = f[k].sets + 1, !.during = f[k].during \cup race]]
BY DEF Link

LEMMA OneMoreSet ==
  ASSUME NEW row \in Link, NEW race \in During
  PROVE  [row EXCEPT !.sets = row.sets + 1, !.during = row.during \cup race] \in Link
<1>1. row.sets \in Nat /\ row.during \in During
  BY DEF Link
<1>2. row.sets + 1 \in Nat
  BY <1>1
<1>3. row.during \cup race \in During
  BY <1>1 DEF During
<1> QED
  BY <1>2, <1>3 DEF Link

LEMMA LinkMoves ==
  ASSUME Base, NEW r \in Requests, Commit(r)
  PROVE  /\ link' \in [Links -> Link \cup {None}]
         /\ \A l \in Links \ DOMAIN writes[r].link :
              call[r].op # "resetPassword" \/ l # call[r].link => link'[l] = link[l]
         /\ \A l \in Rows(link) :
              /\ l \in Rows(link)' /\ link'[l].user = link[l].user
              /\ link'[l].created = link[l].created /\ link'[l].secret = link[l].secret
              /\ link'[l].used = (link[l].used \/ l \in DOMAIN writes[r].link)
              /\ IF call[r].op = "resetPassword" /\ l = call[r].link
                 THEN /\ link'[l].sets = link[l].sets + 1
                      /\ link'[l].during = link[l].during \cup (IF link[l].used THEN {"rival"} ELSE {})
                 ELSE link'[l].sets = link[l].sets /\ link'[l].during = link[l].during
         /\ \A l \in Rows(link)' \ Rows(link) :
              /\ Sends(r, l) /\ l \in DOMAIN writes[r].link
              /\ link'[l].user = seen[r].user /\ link'[l].created = seen[r].now
              /\ link'[l].secret = seen[r].row.secret /\ link'[l].during = seen[r].during
              /\ ~ link'[l].used /\ link'[l].sets = 0
         /\ \A l \in DOMAIN writes[r].link : l \in Rows(link)'
<1>1. Typed /\ Slot(r) /\ seen[r] \in Seen /\ writes[r] \in Own
  BY SlotFields DEF Base
<1> DEFINE own == writes[r].link
<1>2. /\ own \in Partial(Links, Link) /\ DOMAIN own \subseteq Links
      /\ \A l \in DOMAIN own : own[l] \in Link
  BY <1>1, OwnFields
<1>3. PICK rows : rows = Over(Noted(r, own, link), link)
  OBVIOUS
<1>4. /\ Busy(r) /\ Statement(r) = "commit" /\ Started(r)
      /\ link' = Counted(r, rows)
  BY <1>3 DEF Commit, Started, Firsts
<1>5. link \in [Links -> Link \cup {None}] /\ None \notin Link
  BY <1>1, NoneIsNoRow DEF Typed, TypeOK
<1>6. \A row \in Link : [row EXCEPT !.during = seen[r].during] \in Link
  BY <1>1, SeenFields DEF Link
<1>7. /\ rows \in [Links -> Link \cup {None}]
      /\ \A l \in Links : rows[l] = IF l \in DOMAIN own
                                    THEN IF link[l] = None
                                         THEN [own[l] EXCEPT !.during = seen[r].during]
                                         ELSE own[l]
                                    ELSE link[l]
      /\ \A l \in Links : rows[l] # None <=> link[l] # None \/ l \in DOMAIN own
  <2>1. rows = [l \in Links |->
                     IF l \in DOMAIN own
                     THEN IF link[l] = None THEN [own[l] EXCEPT !.during = seen[r].during]
                          ELSE own[l]
                     ELSE link[l]]
    BY <1>2, <1>3, <1>5 DEF Over, Noted
  <2> HIDE DEF own
  <2>2. \A l \in Links : rows[l] = IF l \in DOMAIN own
                                   THEN IF link[l] = None
                                        THEN [own[l] EXCEPT !.during = seen[r].during]
                                        ELSE own[l]
                                   ELSE link[l]
    BY <2>1
  <2>3. \A l \in Links : /\ rows[l] \in Link \cup {None}
                        /\ rows[l] # None <=> link[l] # None \/ l \in DOMAIN own
    BY <1>2, <1>5, <1>6, <2>2
  <2> QED
    BY <2>1, <2>2, <2>3
<1>8. \A l \in DOMAIN own : Sends(r, l) \/ Marks(r, l)
  BY <1>1 DEF Slot, LinkWrites
<1>9. Rows(link) = {l \in Links : link[l] # None}
  BY <1>5 DEF Rows
<1>10. ASSUME NEW l \in Rows(link)
       PROVE  /\ l \in Links /\ link[l] \in Link /\ rows[l] \in Link
              /\ rows[l].user = link[l].user /\ rows[l].created = link[l].created
              /\ rows[l].secret = link[l].secret /\ rows[l].sets = link[l].sets
              /\ rows[l].during = link[l].during
              /\ rows[l].used = (link[l].used \/ l \in DOMAIN own)
  <2>1. l \in Links /\ link[l] # None /\ link[l] \in Link /\ rows[l] \in Link
    BY <1>5, <1>7, <1>9
  <2>2. CASE l \in DOMAIN own
    <3>1. Marks(r, l)
      BY <1>8, <2>2 DEF Sends
    <3>2. rows[l] = own[l]
      BY <1>7, <2>1, <2>2
    <3>3. rows[l] = [link[l] EXCEPT !.used = TRUE]
      BY <3>1, <3>2 DEF Marks
    <3> QED
      BY <2>1, <2>2, <3>3 DEF Link
  <2>3. CASE l \notin DOMAIN own
    <3>1. rows[l] = link[l]
      BY <1>7, <2>1, <2>3
    <3> QED
      BY <2>1, <2>3, <3>1 DEF Link
  <2> QED
    BY <2>2, <2>3
<1> DEFINE mine(l) == call[r].op = "resetPassword" /\ l = call[r].link
           raced(l) == IF link[l].used THEN {"rival"} ELSE {}
<1>11. /\ link' \in [Links -> Link \cup {None}]
       /\ \A l \in Links : ~ mine(l) => link'[l] = rows[l]
       /\ \A l \in Rows(link) : mine(l) =>
            link'[l] = [rows[l] EXCEPT !.sets = rows[l].sets + 1, !.during = rows[l].during \cup raced(l)]
  <2>1. CASE call[r].op # "resetPassword"
    <3>1. link' = rows
      BY <1>4, <2>1 DEF Counted
    <3> QED
      BY <1>7, <2>1, <3>1
  <2>2. CASE call[r].op = "resetPassword"
    <3>1. PICK k : k = call[r].link
      OBVIOUS
    <3>2. k \in Rows(link) /\ k \in Links /\ rows[k] \in Link
      BY <1>1, <1>10, <2>2, <3>1 DEF Slot, Given
    <3>3. link' = [rows EXCEPT ![k].sets = @ + 1, ![k].during = @ \cup raced(k)]
      BY <1>4, <2>2, <3>1 DEF Counted
    <3>4. link' = [rows EXCEPT ![k] = [rows[k] EXCEPT !.sets = rows[k].sets + 1,
                                                   !.during = rows[k].during \cup raced(k)]]
      <4>1. PICK race : race = raced(k)
        OBVIOUS
      <4> HIDE DEF raced
      <4>2. link' = [rows EXCEPT ![k].sets = @ + 1, ![k].during = @ \cup race]
        BY <3>3, <4>1
      <4>3. DOMAIN rows = Links /\ k \in DOMAIN rows
        BY <1>7, <3>2
      <4> QED
        BY <3>2, <4>1, <4>2, <4>3, TwoFields
    <3>5. [rows[k] EXCEPT !.sets = rows[k].sets + 1, !.during = rows[k].during \cup raced(k)] \in Link
      <4>1. raced(k) \in During
        BY DEF During
      <4> HIDE DEF raced
      <4> QED
        BY <3>2, <4>1, OneMoreSet
    <3> HIDE DEF raced
    <3> QED
      BY <1>7, <2>2, <3>1, <3>2, <3>4, <3>5
  <2> QED
    BY <2>1, <2>2
<1>12. \A l \in Links : link'[l] # None <=> rows[l] # None
  <2> SUFFICES ASSUME NEW l \in Links PROVE link'[l] # None <=> rows[l] # None
    OBVIOUS
  <2>1. CASE mine(l)
    <3>1. l \in Rows(link)
      BY <1>1, <2>1 DEF Slot, Given
    <3>2. rows[l] \in Link /\ rows[l] # None
      BY <1>5, <1>10, <3>1
    <3>3. PICK race : race = raced(l) /\ race \in During
      BY DEF During
    <3> HIDE DEF raced
    <3>4. link'[l] = [rows[l] EXCEPT !.sets = rows[l].sets + 1, !.during = rows[l].during \cup race]
      BY <1>11, <2>1, <3>1, <3>3
    <3>5. link'[l] \in Link
      BY <3>2, <3>3, <3>4, OneMoreSet
    <3> QED
      BY <1>5, <3>2, <3>5
  <2>2. CASE ~ mine(l)
    BY <1>11, <2>2
  <2> QED
    BY <2>1, <2>2
<1>13. Rows(link)' = {l \in Links : link'[l] # None}
  BY <1>11 DEF Rows
<1> HIDE DEF own
<1>14. ASSUME NEW l \in Links \ DOMAIN own, ~ mine(l)
       PROVE  link'[l] = link[l]
  BY <1>7, <1>11, <1>14
<1>15. ASSUME NEW l \in Rows(link)
       PROVE  /\ l \in Rows(link)' /\ link'[l].user = link[l].user
              /\ link'[l].created = link[l].created /\ link'[l].secret = link[l].secret
              /\ link'[l].used = (link[l].used \/ l \in DOMAIN own)
              /\ IF mine(l)
                 THEN link'[l].sets = link[l].sets + 1 /\ link'[l].during = link[l].during \cup raced(l)
                 ELSE link'[l].sets = link[l].sets /\ link'[l].during = link[l].during
  <2>1. l \in Rows(link)'
    BY <1>5, <1>10, <1>12, <1>13
  <2>2. CASE mine(l)
    <3>1. link'[l] = [rows[l] EXCEPT !.sets = rows[l].sets + 1, !.during = rows[l].during \cup raced(l)]
      BY <1>11, <2>2
    <3> HIDE DEF mine, raced
    <3> QED
      BY <1>10, <2>1, <2>2, <3>1 DEF Link
  <2>3. CASE ~ mine(l)
    <3>1. link'[l] = rows[l]
      BY <1>10, <1>11, <2>3
    <3> QED
      BY <1>10, <2>1, <2>3, <3>1
  <2> QED
    BY <2>2, <2>3
<1>16. ASSUME NEW l \in Rows(link)' \ Rows(link)
       PROVE  /\ Sends(r, l) /\ l \in DOMAIN own
              /\ link'[l].user = seen[r].user /\ link'[l].created = seen[r].now
              /\ link'[l].secret = seen[r].row.secret /\ link'[l].during = seen[r].during
              /\ ~ link'[l].used /\ link'[l].sets = 0
  <2>1. l \in Links /\ link[l] = None /\ l \in DOMAIN own
    BY <1>7, <1>9, <1>12, <1>13
  <2>2. Sends(r, l)
    BY <1>8, <1>9, <2>1 DEF Marks
  <2>3. rows[l] = [own[l] EXCEPT !.during = seen[r].during] /\ own[l] \in Link
    BY <1>2, <1>7, <2>1 DEF own
  <2>4. ~ mine(l) /\ own[l] = NewLink(r)
    BY <2>2 DEF Sends, own
  <2>5. link'[l] = rows[l]
    BY <1>11, <2>1, <2>4
  <2> QED
    BY <2>1, <2>2, <2>3, <2>4, <2>5 DEF Link, NewLink
<1>17. \A l \in DOMAIN own : l \in Rows(link)'
  BY <1>2, <1>7, <1>12, <1>13 DEF own
<1> QED
  BY <1>11, <1>14, <1>15, <1>16, <1>17 DEF own

-----------------------------------------------------------------------------
(* A commit keeps the invariant.                                           *)

\* Only a call that presents a token saves it on an outdated reading.
Aware == \A r \in Requests : seen[r].stale => Presents(r)

LEMMA CommitControl ==
  ASSUME Base, NEW r \in Requests, Commit(r)
  PROVE  /\ Busy(r) /\ Started(r) /\ Statement(r) = "commit"
         /\ call'[r] = NoCall /\ todo'[r] = <<>> /\ seen'[r] = NothingSeen /\ writes'[r] = NoWrites
         /\ ~ Busy(r)' /\ ~ Started(r)' /\ now' = now /\ locked'[r] = {}
         /\ \A o \in Requests \ {r} :
              /\ call'[o] = call[o] /\ todo'[o] = todo[o] /\ seen'[o] = seen[o] /\ writes'[o] = writes[o]
              /\ Statement(o)' = Statement(o) /\ (Busy(o)' <=> Busy(o)) /\ (Started(o)' <=> Started(o))
              /\ locked'[o] = locked[o]
         /\ locked' \in [Requests -> SUBSET ({"session", "link"} \X Nat)]
         /\ call' \in [Requests -> Calls \cup {NoCall}] /\ todo' \in [Requests -> Seq(Statements)]
         /\ seen' \in [Requests -> Seen] /\ writes' \in [Requests -> Own]
<1>1. /\ call \in [Requests -> Calls \cup {NoCall}] /\ todo \in [Requests -> Seq(Statements)]
      /\ seen \in [Requests -> Seen] /\ writes \in [Requests -> Own]
      /\ locked \in [Requests -> SUBSET ({"session", "link"} \X Nat)]
  BY DEF Base, Typed, TypeOK
<1>2. End(r) /\ Busy(r) /\ Statement(r) = "commit" /\ now' = now
  BY DEF Commit
<1>3. /\ call'[r] = NoCall /\ todo'[r] = <<>> /\ seen'[r] = NothingSeen /\ writes'[r] = NoWrites
      /\ locked'[r] = {}
      /\ \A o \in Requests \ {r} : /\ call'[o] = call[o] /\ todo'[o] = todo[o] /\ seen'[o] = seen[o]
                                   /\ writes'[o] = writes[o] /\ locked'[o] = locked[o]
  BY <1>1, <1>2 DEF End
<1>4. /\ locked' \in [Requests -> SUBSET ({"session", "link"} \X Nat)]
      /\ call' \in [Requests -> Calls \cup {NoCall}] /\ todo' \in [Requests -> Seq(Statements)]
      /\ seen' \in [Requests -> Seen] /\ writes' \in [Requests -> Own]
  BY <1>1, <1>2, NothingTyped DEF End
<1>5. \A o \in Requests \ {r} :
        (Statement(o)' = Statement(o)) /\ (Busy(o)' <=> Busy(o)) /\ (Started(o)' <=> Started(o))
  BY <1>3 DEF Statement, Busy, Started
<1>6. Started(r)
  BY <1>2 DEF Started, Firsts
<1>7. ~ Busy(r)' /\ ~ Started(r)'
  BY <1>3 DEF Busy, Started
<1> QED
  BY <1>2, <1>3, <1>4, <1>5, <1>6, <1>7

LEMMA CommitTyped ==
  ASSUME Base, Aware, NEW r \in Requests, Commit(r)
  PROVE  Typed' /\ overtaken' \subseteq Rows(session)' /\ ended' \subseteq Rows(session)'
<1>1. Typed /\ Slot(r) /\ Grounded /\ seen[r] \in Seen /\ writes[r] \in Own
  BY SlotFields DEF Base
<1>2. Rows(session) \subseteq Rows(session)' /\ Rows(link) \subseteq Rows(link)'
  BY SessionMoves, LinkMoves
<1>3. DOMAIN writes[r].link \subseteq Rows(link)'
  BY LinkMoves
<1>4. Presents(r) => seen[r].row.chain \in Rows(session)
  BY <1>1, CommitControl DEF Slot, Informed, Given, Grounded
<1>5. overtaken' \subseteq Rows(session)'
  BY <1>1, <1>2, <1>4 DEF Commit, Aware, Grounded
<1>6. ended' \subseteq Rows(session)'
  BY <1>1, <1>2, <1>4 DEF Commit, Presents, Grounded
<1>7. mailed' \subseteq Rows(link)'
  <2>1. mailed \subseteq Rows(link)
    BY <1>1 DEF Typed, TypeOK
  <2> QED
    BY <1>2, <1>3, <2>1 DEF Commit
<1>8. Rows(session)' \subseteq Tokens
  BY SessionMoves DEF Rows
<1>9. TypeOK'
  <2>1. now' \in 0..MaxNow /\ calls' \in 0..MaxCalls
    BY <1>1 DEF Typed, TypeOK, Commit
  <2>2. /\ account' \in [Accounts -> Account \cup {None}] /\ session' \in [Tokens -> Session \cup {None}]
        /\ link' \in [Links -> Link \cup {None}]
    BY AccountMoves, SessionMoves, LinkMoves
  <2>3. call' \in [Requests -> Calls \cup {NoCall}]
    BY CommitControl
  <2> QED
    BY <1>5, <1>6, <1>7, <1>8, <2>1, <2>2, <2>3 DEF TypeOK
<1> QED
  BY <1>5, <1>6, <1>9, CommitControl DEF Typed

LEMMA CommitOthers ==
  ASSUME Base, NEW r \in Requests, Commit(r), NEW o \in Requests \ {r}
  PROVE  Slot(o)'
<1>1. Typed /\ Slot(o) /\ Slot(r) /\ Apart(r, o)
  BY DEF Base, Exclusive
<1>2. /\ call'[o] = call[o] /\ todo'[o] = todo[o] /\ seen'[o] = seen[o] /\ writes'[o] = writes[o]
      /\ Statement(o)' = Statement(o) /\ (Busy(o)' <=> Busy(o)) /\ (Started(o)' <=> Started(o))
  BY CommitControl
<1>3. (Presents(o)' <=> Presents(o)) /\ (Changer(o)' <=> Changer(o))
  BY <1>2 DEF Presents, Changer
<1>4. /\ Rows(account) \subseteq Rows(account)' /\ Rows(session) \subseteq Rows(session)'
      /\ Rows(link) \subseteq Rows(link)'
  BY AccountMoves, SessionMoves, LinkMoves
<1>5. Position(o)' /\ Blank(o)'
  BY <1>1, <1>2 DEF Slot, Position, Busy, Blank
<1>6. Given(o)'
  BY <1>1, <1>2, <1>3, <1>4 DEF Slot, Given
<1>7. Informed(o)'
  <2>1. Started(o) /\ call[o].op # "register" => seen[o].user \in Rows(account)
    BY <1>1 DEF Slot, Informed
  <2>2. ~ (Presents(o) /\ call[o].op = "register") /\ ~ (Changer(o) /\ call[o].op = "register")
    BY DEF Presents, Changer, Changes
  <2>3. Started(o) /\ Changer(o) =>
          /\ account'[seen[o].user].email = account[seen[o].user].email
          /\ account'[seen[o].user].during = account[seen[o].user].during
    BY <2>1, <2>2, AccountMoves
  <2>4. Presents(o) => /\ session'[call[o].token].user = session[call[o].token].user
                       /\ session'[call[o].token].chain = session[call[o].token].chain
    BY <1>1, SessionMoves DEF Slot, Given
  <2>5. call[o].op = "resetPassword" => link'[call[o].link].user = link[call[o].link].user
    BY <1>1, LinkMoves DEF Slot, Given
  <2> QED
    BY <1>1, <1>2, <1>3, <1>4, <2>3, <2>4, <2>5 DEF Slot, Informed
<1>8. AccountWrites(o)'
  <2>1. \A u \in DOMAIN writes[o].account : u \notin Rows(account) => u \notin Rows(account)'
    BY <1>1, AccountMoves DEF Apart
  <2>2. (Saved(o)' <=> Saved(o)) /\ (Inserted(o)' <=> Inserted(o))
    BY <1>2, <1>3 DEF Saved, Inserted
  <2>3. AccountWrites(o)
    BY <1>1 DEF Slot
  <2> QED
    BY <1>2, <2>1, <2>2, <2>3 DEF AccountWrites
<1>9. SessionWrites(o)'
  <2>1. \A t \in DOMAIN writes[o].session : t \notin Rows(session) => t \notin Rows(session)'
    BY <1>1, SessionMoves DEF Apart
  <2>2. \A t \in DOMAIN writes[o].session : Issued(o, t) => Issued(o, t)'
    BY <1>2, <2>1 DEF Issued
  <2>3. \A t : Revokes(o, t) => Revokes(o, t)'
    BY <1>2, <1>3, SessionMoves DEF Revokes
  <2>4. \A t \in Rows(session) : t \in Rows(session)' /\ session'[t].user = session[t].user
    BY SessionMoves
  <2>5. \A t \in Rows(session) : t \in DOMAIN writes[o].session =>
          session'[t].revoked = session[t].revoked
    <3> SUFFICES ASSUME NEW t \in Rows(session), t \in DOMAIN writes[o].session
                 PROVE  session'[t].revoked = session[t].revoked
      OBVIOUS
    <3>1. t \notin DOMAIN writes[r].session
      BY <1>1 DEF Apart
    <3>2. session[t].revoked \in BOOLEAN
      BY <1>1, RowFields DEF Session
    <3> QED
      BY <3>1, <3>2, SessionMoves
  <2>6. SessionWrites(o)
    BY <1>1 DEF Slot
  <2>7. Presents(o) => call[o].token \in Rows(session)
    BY <1>1 DEF Slot, Given
  <2> QED
    BY <1>2, <1>3, <1>4, <2>2, <2>3, <2>4, <2>5, <2>6, <2>7 DEF SessionWrites
<1>10. LinkWrites(o)'
  <2>1. \A l \in DOMAIN writes[o].link : l \notin Rows(link) => l \notin Rows(link)'
    BY <1>1, LinkMoves DEF Apart
  <2>2. NewLink(o)' = NewLink(o)
    BY <1>2 DEF NewLink
  <2>3. \A l \in DOMAIN writes[o].link : Sends(o, l) => Sends(o, l)'
    BY <1>2, <2>1, <2>2 DEF Sends
  <2>4. ASSUME NEW l \in DOMAIN writes[o].link, Marks(o, l)
        PROVE  Marks(o, l)'
    <3>1. l \notin DOMAIN writes[r].link /\ l \in Rows(link) /\ ~ link[l].used
      BY <1>1, <2>4 DEF Apart, Marks
    <3>2. l \in Links
      BY <1>1, <3>1, RowFields
    <3>3. ~ (call[r].op = "resetPassword" /\ l = call[r].link)
      BY <1>1, <3>1, CommitControl DEF Slot, Spends
    <3>4. link'[l] = link[l]
      BY <3>1, <3>2, <3>3, LinkMoves
    <3> QED
      BY <1>2, <1>3, <1>4, <2>4, <3>4 DEF Marks
  <2>5. \A l \in Rows(link) : l \in Rows(link)' /\ link'[l].user = link[l].user
    BY LinkMoves
  <2>6. (PastLinks(o)' <=> PastLinks(o))
    BY <1>2 DEF PastLinks
  <2>7. LinkWrites(o)
    BY <1>1 DEF Slot
  <2> QED
    BY <1>2, <1>4, <2>3, <2>4, <2>5, <2>6, <2>7 DEF LinkWrites
<1>11. Spends(o)'
  <2>1. call[o].op = "resetPassword" => call[o].link \in Rows(link)
    BY <1>1 DEF Slot, Given
  <2>2. \A l \in Rows(link) : link[l].used => link'[l].used
    BY LinkMoves
  <2> QED
    BY <1>1, <1>2, <2>1, <2>2 DEF Slot, Spends
<1>12. Locks(o)'
  <2>1. locked'[o] = locked[o] /\ (Saved(o)' <=> Saved(o)) /\ (PastLinks(o)' <=> PastLinks(o))
    BY <1>2, <1>3, CommitControl DEF Saved, PastLinks
  <2>2. Locks(o)
    BY <1>1 DEF Slot
  <2>3. /\ \A t \in Rows(session) : session'[t].user = session[t].user
        /\ \A l \in Rows(link) : link'[l].user = link[l].user
    BY SessionMoves, LinkMoves
  <2>4. ~ Started(o)' => locked'[o] = {}
    BY <1>2, <2>1, <2>2 DEF Locks
  <2>5. ASSUME NEW t, <<"session", t>> \in locked'[o]
        PROVE  t \in Rows(session)' /\ session'[t].user = seen'[o].user /\ Saved(o)'
    <3>1. t \in Rows(session) /\ session[t].user = seen[o].user /\ Saved(o)
      BY <2>1, <2>2, <2>5 DEF Locks
    <3> QED
      BY <1>2, <1>4, <2>1, <2>3, <3>1
  <2>6. ASSUME NEW l, <<"link", l>> \in locked'[o]
        PROVE  /\ l \in Rows(link)' /\ link'[l].user = seen'[o].user
               /\ Saved(o)' \/ call'[o].op = "requestReset"
               /\ Statement(o)' = "closeLinks" \/ PastLinks(o)'
               /\ Statement(o)' = "closeLinks" =>
                    \A k \in seen'[o].doomed : <<"link", k>> \in locked'[o] \/ l < k
    <3>1. l \in Rows(link) /\ link[l].user = seen[o].user
      BY <2>1, <2>2, <2>6 DEF Locks
    <3>2. /\ Saved(o) \/ call[o].op = "requestReset"
          /\ Statement(o) = "closeLinks" \/ PastLinks(o)
          /\ Statement(o) = "closeLinks" =>
               \A k \in seen[o].doomed : <<"link", k>> \in locked[o] \/ l < k
      BY <2>1, <2>2, <2>6 DEF Locks
    <3> QED
      BY <1>2, <1>4, <2>1, <2>3, <3>1, <3>2
  <2> QED
    BY <2>4, <2>5, <2>6 DEF Locks
<1> QED
  BY <1>5, <1>6, <1>7, <1>8, <1>9, <1>10, <1>11, <1>12 DEF Slot

\* A row more, a call less.
LEMMA OneForOne ==
  ASSUME NEW max \in Nat, NEW R, IsFiniteSet(R), NEW S \in SUBSET Requests, NEW r \in Requests, NEW x,
         Cardinality(R) + Cardinality(S) <= max,
         NEW T, T = R \/ (r \in S /\ T = R \cup {x})
  PROVE  Cardinality(T) + Cardinality(S \ {r}) <= max
<1>1. IsFiniteSet(S)
  BY SessionsAssumption, FS_Subset
<1>2. /\ Cardinality(S) \in Nat /\ Cardinality(R) \in Nat
      /\ Cardinality(S \ {r}) = IF r \in S THEN Cardinality(S) - 1 ELSE Cardinality(S)
  BY <1>1, FS_CardinalityType, FS_RemoveElement
<1>3. Cardinality(R \cup {x}) = IF x \in R THEN Cardinality(R) ELSE Cardinality(R) + 1
  BY FS_AddElement
<1> QED
  BY <1>2, <1>3

LEMMA CommitRoom ==
  ASSUME Base, NEW r \in Requests, Commit(r)
  PROVE  Room'
<1>1. Typed /\ Slot(r) /\ Room
  BY DEF Base
<1>2. /\ call'[r] = NoCall /\ \A o \in Requests \ {r} : call'[o] = call[o]
  BY CommitControl
<1>3. /\ Registrations' = Registrations \ {r} /\ Issuing("sessions")' = Issuing("sessions") \ {r}
      /\ Issuing("links")' = Issuing("links") \ {r}
  BY <1>2, NoCallIsNoCall DEF Registrations, Issuing, Issues
<1>4. \E u : Rows(account)' = Rows(account) \/ (r \in Registrations /\ Rows(account)' = Rows(account) \cup {u})
  <2>1. Rows(account) \subseteq Rows(account)'
    BY AccountMoves
  <2>2. CASE Rows(account)' # Rows(account)
    <3>1. PICK u : u \in Rows(account)' \ Rows(account)
      BY <2>1, <2>2
    <3>2. Inserted(r) /\ u \in DOMAIN writes[r].account
      BY <3>1, AccountMoves
    <3>3. DOMAIN writes[r].account = {u}
      BY <1>1, <3>2 DEF Slot, AccountWrites
    <3>4. Rows(account)' = Rows(account) \cup {u} /\ r \in Registrations
      BY <2>1, <3>1, <3>2, <3>3, AccountMoves DEF Inserted, Registrations
    <3> QED
      BY <3>4
  <2> QED
    BY <2>2
<1>5. \E t : Rows(session)' = Rows(session)
               \/ (r \in Issuing("sessions") /\ Rows(session)' = Rows(session) \cup {t})
  <2>1. Rows(session) \subseteq Rows(session)'
    BY SessionMoves
  <2>2. CASE Rows(session)' # Rows(session)
    <3>1. PICK t : t \in Rows(session)' \ Rows(session)
      BY <2>1, <2>2
    <3>2. Issued(r, t) /\ t \in DOMAIN writes[r].session
      BY <3>1, SessionMoves
    <3>3. \A x \in Rows(session)' \ Rows(session) : x = t
      BY <1>1, <3>1, <3>2, SessionMoves DEF Slot, SessionWrites
    <3>4. Rows(session)' = Rows(session) \cup {t} /\ r \in Issuing("sessions")
      BY <2>1, <3>1, <3>2, <3>3 DEF Issued, Issuing
    <3> QED
      BY <3>4
  <2> QED
    BY <2>2
<1>6. \E l : Rows(link)' = Rows(link)
               \/ (r \in Issuing("links") /\ Rows(link)' = Rows(link) \cup {l})
  <2>1. Rows(link) \subseteq Rows(link)'
    BY LinkMoves
  <2>2. CASE Rows(link)' # Rows(link)
    <3>1. PICK l : l \in Rows(link)' \ Rows(link)
      BY <2>1, <2>2
    <3>2. Sends(r, l) /\ l \in DOMAIN writes[r].link
      BY <3>1, LinkMoves
    <3>3. \A k \in Rows(link)' \ Rows(link) : k = l
      BY <1>1, <3>1, <3>2, LinkMoves DEF Slot, LinkWrites
    <3>4. Rows(link)' = Rows(link) \cup {l} /\ r \in Issuing("links")
      BY <2>1, <3>1, <3>2, <3>3 DEF Sends, Issuing, Issues
    <3> QED
      BY <3>4
  <2> QED
    BY <2>2
<1>7. Cardinality(Rows(account)') + Cardinality(Registrations') <= MaxAccounts
  BY <1>1, <1>3, <1>4, Counts, Constants, OneForOne DEF Room
<1>8. Cardinality(Rows(session)') + Cardinality(Issuing("sessions")') <= MaxTokens
  BY <1>1, <1>3, <1>5, Counts, Constants, OneForOne DEF Room
<1>9. Cardinality(Rows(link)') + Cardinality(Issuing("links")') <= MaxLinks
  BY <1>1, <1>3, <1>6, Counts, Constants, OneForOne DEF Room
<1> QED
  BY <1>7, <1>8, <1>9 DEF Room

LEMMA CommitStep ==
  ASSUME Base, Aware, NEW r \in Requests, Commit(r)
  PROVE  Base'
<1>1. Typed' /\ overtaken' \subseteq Rows(session)' /\ ended' \subseteq Rows(session)'
  BY CommitTyped
<1>2. Slot(r)'
  <2>1. Position(r)' /\ Given(r)'
    BY CommitControl, NoCallIsNoCall DEF Position, Given, Presents
  <2> QED
    BY <1>1, <2>1, CommitControl, IdleSlot
<1>3. \A o \in Requests : Slot(o)'
  BY <1>2, CommitOthers
<1>4. Exclusive'
  <2> SUFFICES ASSUME NEW o \in Requests, NEW q \in Requests, o # q PROVE Apart(o, q)'
    BY DEF Exclusive
  <2>1. DOMAIN NoWrites.account = {} /\ DOMAIN NoWrites.session = {} /\ DOMAIN NoWrites.link = {}
    BY DEF NoWrites
  <2>2. Apart(o, q)
    BY DEF Base, Exclusive
  <2> QED
    BY <2>1, <2>2, CommitControl DEF Apart, Clear
<1>5. Grounded'
  <2>1. Typed /\ Slot(r) /\ Grounded
    BY DEF Base
  <2>2. /\ Rows(account) \subseteq Rows(account)' /\ Rows(session) \subseteq Rows(session)'
    BY AccountMoves, SessionMoves
  <2>3. call[r].op # "register" => seen[r].user \in Rows(account)
    BY <2>1, CommitControl DEF Slot, Informed
  <2>4. ASSUME NEW t \in Rows(session)'
        PROVE  session'[t].user \in Rows(account)' /\ session'[t].chain \in Rows(session)'
    <3>1. CASE t \in Rows(session)
      BY <2>1, <2>2, <3>1, SessionMoves DEF Grounded
    <3>2. CASE t \notin Rows(session)
      <4>1. /\ Issued(r, t) /\ session'[t].user = seen[r].user
            /\ session'[t].chain = IF call[r].op = "refresh" THEN seen[r].row.chain ELSE t
        BY <2>4, <3>2, SessionMoves
      <4>2. call[r].op # "register"
        BY <4>1 DEF Issued, Issues
      <4>3. call[r].op = "refresh" => seen[r].row.chain \in Rows(session)
        BY <2>1, CommitControl DEF Slot, Informed, Given, Presents, Grounded
      <4> QED
        BY <2>2, <2>3, <2>4, <4>1, <4>2, <4>3
    <3> QED
      BY <3>1, <3>2
  <2>5. ASSUME NEW l \in Rows(link)'
        PROVE  link'[l].user \in Rows(account)'
    <3>1. CASE l \in Rows(link)
      BY <2>1, <2>2, <3>1, LinkMoves DEF Grounded
    <3>2. CASE l \notin Rows(link)
      <4>1. Sends(r, l) /\ link'[l].user = seen[r].user
        BY <2>5, <3>2, LinkMoves
      <4> QED
        BY <2>2, <2>3, <4>1 DEF Sends
    <3> QED
      BY <3>1, <3>2
  <2> QED
    BY <1>1, <2>4, <2>5 DEF Grounded
<1> QED
  BY <1>1, <1>3, <1>4, <1>5, CommitRoom DEF Base

-----------------------------------------------------------------------------
(* What each statement does, in one place.                                 *)

\* What the call has besides, unless it is among the parts named.
Keeps(r, parts) ==
  /\ "user" \in parts \/ seen'[r].user = seen[r].user
  /\ "row" \in parts \/ seen'[r].row = seen[r].row
  /\ "during" \in parts \/ seen'[r].during = seen[r].during
  /\ "stale" \in parts \/ seen'[r].stale = seen[r].stale
  /\ "now" \in parts \/ seen'[r].now = seen[r].now
  /\ "doomed" \in parts \/ seen'[r].doomed = seen[r].doomed
  /\ "swept" \in parts \/ seen'[r].swept = seen[r].swept

FirstReadEffect(r) ==
  /\ writes' = writes /\ Keeps(r, {"user", "row", "during"}) /\ seen[r] = NothingSeen
  /\ \A o \in Requests \ {r} : call[o].op # "register" => seen'[o] = seen[o]
  /\ \/ /\ Statement(r) = "readEmail" /\ call[r].op = "register"
        /\ Owners(call[r].email) = {} /\ seen'[r].during = Beside(Registering(r))
        /\ \A o \in Registering(r) : "rival" \in seen'[o].during
     \/ /\ Statement(r) = "readEmail" /\ call[r].op \in {"login", "requestReset"}
        /\ \E u \in Rows(account) :
             /\ seen'[r].user = u /\ seen'[r].row = account[u]
             /\ seen'[r].during = Amid(u, IF call[r].op = "login" THEN "sessions" ELSE "links")
     \/ /\ Statement(r) = "readUser" /\ call[r].op = "changePassword"
        /\ seen'[r].user = call[r].user /\ seen'[r].row = account[call[r].user]
     \/ /\ Statement(r) = "readSession" /\ Presents(r) /\ ~ session[call[r].token].revoked
        /\ seen'[r].user = session[call[r].token].user /\ seen'[r].row = session[call[r].token]
        /\ seen'[r].during =
             session[call[r].token].during \cup Amid(session[call[r].token].user, "sessions")
     \/ /\ Statement(r) = "readLink" /\ call[r].op = "resetPassword"
        /\ seen'[r].user = link[call[r].link].user
        /\ seen'[r].row = account[link[call[r].link].user]

LaterReadEffect(r) ==
  /\ writes' = writes
  /\ \/ /\ Statement(r) = "readLatest" /\ call[r].op = "requestReset"
        /\ ~ CoolingDown(seen[r].user)
        /\ Keeps(r, {"now", "during"})
        /\ seen'[r].now = now /\ seen'[r].during = seen[r].during \cup Beside(Rivals(r))
        /\ \A o \in Rivals(r) : "rival" \in seen'[o].during
     \/ \E kind \in {"sessions", "links"}, doomed \in SUBSET Nat :
          /\ \/ /\ Statement(r) = "findSessions" /\ kind = "sessions" /\ Changer(r)
                /\ doomed = SessionsToClose(r)
             \/ /\ Statement(r) = "findLinks" /\ kind = "links"
                /\ Changer(r) \/ call[r].op = "requestReset"
                /\ doomed = {l \in LinksTo(seen[r].user) : ~ link[l].used}
          /\ Keeps(r, {"doomed", "swept"})
          /\ seen'[r].doomed = doomed /\ seen'[r].swept = seen[r].swept \cup {kind}
          /\ Changer(r) => \A o \in Requests \ {r} :
               seen[o].user = seen[r].user /\ Issues(call[o].op, kind) => "change" \in seen'[o].during

WriteEffect(r) ==
  /\ \A o \in Requests \ {r} : seen'[o] = seen[o]
  /\ \/ /\ Statement(r) = "saveUser" /\ Changer(r)
        /\ seen' = seen /\ writes'[r].session = writes[r].session /\ writes'[r].link = writes[r].link
     \/ /\ Statement(r) = "insertUser" /\ call[r].op = "register"
        /\ \A u \in Rows(account) : account[u].email # call[r].email
        /\ \A o \in Requests \ {r} : Inserted(o) => call[o].email # call[r].email
        /\ seen' = seen /\ writes'[r].session = writes[r].session /\ writes'[r].link = writes[r].link
     \/ /\ Statement(r) = "revokeRead" /\ Presents(r) /\ Keeps(r, {"stale"})
        /\ writes'[r].link = writes[r].link
     \/ /\ Statement(r) = "saveSession" /\ call[r].op \in {"login", "refresh"}
        /\ seen' = seen /\ writes'[r].link = writes[r].link
     \/ /\ Statement(r) = "closeSessions" /\ Changer(r)
        /\ seen' = seen /\ writes'[r].link = writes[r].link
        /\ \A t \in Rows(session) :
             t \in DOMAIN writes'[r].session <=>
               t \in DOMAIN writes[r].session \/ (t \in seen[r].doomed /\ ~ session[t].revoked)
     \/ /\ Statement(r) = "closeLinks" /\ (Changer(r) \/ call[r].op = "requestReset")
        /\ seen' = seen /\ writes'[r].session = writes[r].session
        /\ DOMAIN writes'[r].link = {l \in seen[r].doomed : ~ link[l].used}
     \/ /\ Statement(r) = "saveLink" /\ call[r].op = "requestReset"
        /\ seen' = seen /\ writes'[r].session = writes[r].session
        /\ DOMAIN writes[r].link \subseteq DOMAIN writes'[r].link

LEMMA OneSeen ==
  ASSUME Base, NEW r \in Requests, NEW what, seen' = [seen EXCEPT ![r] = what]
  PROVE  seen'[r] = what /\ \A o \in Requests \ {r} : seen'[o] = seen[o]
BY DEF Base, Typed

LEMMA NothingYet ==
  ASSUME Base, NEW r \in Requests, Statement(r) \in Firsts
  PROVE  seen[r] = NothingSeen /\ seen[r] \in Seen
BY SlotFields DEF Base, Slot, Blank, Started

LEMMA ReadTwo ==
  ASSUME Base, NEW r \in Requests, NEW a, NEW b,
         seen' = [seen EXCEPT ![r] = [seen[r] EXCEPT !.user = a, !.row = b]]
  PROVE  /\ seen'[r].user = a /\ seen'[r].row = b /\ Keeps(r, {"user", "row", "during"})
         /\ \A o \in Requests \ {r} : seen'[o] = seen[o]
<1>1. PICK s : s = seen[r] /\ s \in Seen
  BY SlotFields DEF Base
<1>2. PICK t : t = [s EXCEPT !.user = a, !.row = b]
  OBVIOUS
<1>3. /\ t.user = a /\ t.row = b /\ t.stale = s.stale /\ t.now = s.now /\ t.doomed = s.doomed
      /\ t.swept = s.swept
  BY <1>1, <1>2 DEF Seen
<1>4. seen'[r] = t /\ \A o \in Requests \ {r} : seen'[o] = seen[o]
  BY <1>1, <1>2, OneSeen
<1> QED
  BY <1>1, <1>3, <1>4 DEF Keeps

LEMMA ReadThree ==
  ASSUME Base, NEW r \in Requests, NEW a, NEW b, NEW c,
         seen' = [seen EXCEPT ![r] = [seen[r] EXCEPT !.user = a, !.row = b, !.during = c]]
  PROVE  /\ seen'[r].user = a /\ seen'[r].row = b /\ seen'[r].during = c
         /\ Keeps(r, {"user", "row", "during"})
         /\ \A o \in Requests \ {r} : seen'[o] = seen[o]
<1>1. PICK s : s = seen[r] /\ s \in Seen
  BY SlotFields DEF Base
<1>2. PICK t : t = [s EXCEPT !.user = a, !.row = b, !.during = c]
  OBVIOUS
<1>3. /\ t.user = a /\ t.row = b /\ t.during = c /\ t.stale = s.stale /\ t.now = s.now
      /\ t.doomed = s.doomed /\ t.swept = s.swept
  BY <1>1, <1>2 DEF Seen
<1>4. seen'[r] = t /\ \A o \in Requests \ {r} : seen'[o] = seen[o]
  BY <1>1, <1>2, OneSeen
<1> QED
  BY <1>1, <1>3, <1>4 DEF Keeps

LEMMA Signed ==
  ASSUME NEW s \in Seen, NEW sign
  PROVE  sign \in [s EXCEPT !.during = @ \cup {sign}].during
BY DEF Seen

LEMMA FirstReads ==
  ASSUME Base, NEW r \in Requests,
         ReadEmail(r) \/ ReadUser(r) \/ ReadSession(r) \/ ReadLink(r)
  PROVE  Abort(r) \/ (Forward(r) /\ Slot(r)' /\ FirstReadEffect(r))
<1>1. CASE ReadUser(r) /\ ~ Abort(r)
  <2>1. PICK u, row : u = call[r].user /\ row = account[call[r].user]
    OBVIOUS
  <2>2. /\ Forward(r) /\ writes' = writes /\ Slot(r)' /\ Statement(r) = "readUser"
        /\ call[r].op = "changePassword"
        /\ seen' = [seen EXCEPT ![r] = [seen[r] EXCEPT !.user = u, !.row = row]]
    BY <1>1, <2>1, ReadUserStep
  <2>3. /\ seen'[r].user = u /\ seen'[r].row = row /\ Keeps(r, {"user", "row", "during"})
        /\ \A o \in Requests \ {r} : seen'[o] = seen[o]
    BY <2>2, ReadTwo
  <2>4. seen[r] = NothingSeen
    BY <2>2, NothingYet DEF Firsts
  <2> QED
    BY <2>1, <2>2, <2>3, <2>4 DEF FirstReadEffect
<1>2. CASE ReadLink(r) /\ ~ Abort(r)
  <2>1. PICK u, row : u = link[call[r].link].user /\ row = account[link[call[r].link].user]
    OBVIOUS
  <2>2. /\ Forward(r) /\ writes' = writes /\ Slot(r)' /\ Statement(r) = "readLink"
        /\ call[r].op = "resetPassword"
        /\ seen' = [seen EXCEPT ![r] = [seen[r] EXCEPT !.user = u, !.row = row]]
    BY <1>2, <2>1, ReadLinkStep
  <2>3. /\ seen'[r].user = u /\ seen'[r].row = row /\ Keeps(r, {"user", "row", "during"})
        /\ \A o \in Requests \ {r} : seen'[o] = seen[o]
    BY <2>2, ReadTwo
  <2>4. seen[r] = NothingSeen
    BY <2>2, NothingYet DEF Firsts
  <2> QED
    BY <2>1, <2>2, <2>3, <2>4 DEF FirstReadEffect
<1>3. CASE ReadSession(r) /\ ~ Abort(r)
  <2>1. PICK u, row, d : /\ u = session[call[r].token].user /\ row = session[call[r].token]
                         /\ d = session[call[r].token].during
                                  \cup Amid(session[call[r].token].user, "sessions")
    OBVIOUS
  <2>2. /\ Forward(r) /\ writes' = writes /\ Slot(r)' /\ Statement(r) = "readSession" /\ Presents(r)
        /\ ~ session[call[r].token].revoked
        /\ seen' = [seen EXCEPT ![r] = [seen[r] EXCEPT !.user = u, !.row = row, !.during = d]]
    BY <1>3, <2>1, ReadSessionStep
  <2>3. /\ seen'[r].user = u /\ seen'[r].row = row /\ seen'[r].during = d
        /\ Keeps(r, {"user", "row", "during"})
        /\ \A o \in Requests \ {r} : seen'[o] = seen[o]
    BY <2>2, ReadThree
  <2>4. seen[r] = NothingSeen
    BY <2>2, NothingYet DEF Firsts
  <2> QED
    BY <2>1, <2>2, <2>3, <2>4 DEF FirstReadEffect
<1>4. CASE ReadEmail(r) /\ ~ Abort(r)
  <2>1. Forward(r) /\ writes' = writes /\ Slot(r)' /\ Statement(r) = "readEmail"
    BY <1>4, ReadEmailStep
  <2>2. seen[r] = NothingSeen /\ seen[r] \in Seen
    BY <2>1, NothingYet DEF Firsts
  <2>3. CASE call[r].op # "register"
    <3>1. PICK u \in Rows(account) : seen' = [seen EXCEPT ![r] = Shown(r, u)]
      BY <1>4, <2>3, ReadEmailStep
    <3>2. PICK d : d = Amid(u, IF call[r].op = "login" THEN "sessions" ELSE "links")
      OBVIOUS
    <3>3. seen' = [seen EXCEPT ![r] = [seen[r] EXCEPT !.user = u, !.row = account[u], !.during = d]]
      BY <3>1, <3>2 DEF Shown
    <3>4. call[r].op \in {"login", "requestReset"}
      BY <1>4, <2>3, ReadEmailStep
    <3>5. /\ seen'[r].user = u /\ seen'[r].row = account[u] /\ seen'[r].during = d
          /\ Keeps(r, {"user", "row", "during"})
          /\ \A o \in Requests \ {r} : seen'[o] = seen[o]
      BY <3>3, ReadThree
    <3> QED
      BY <2>1, <2>2, <3>2, <3>4, <3>5 DEF FirstReadEffect
  <2>4. CASE call[r].op = "register"
    <3>1. /\ Owners(call[r].email) = {}
          /\ seen' = [o \in Requests |->
               IF o = r THEN [seen[r] EXCEPT !.during = Beside(Registering(r))]
               ELSE IF o \in Registering(r) THEN [seen[o] EXCEPT !.during = @ \cup {"rival"}]
               ELSE seen[o]]
      BY <1>4, <2>4, ReadEmailStep
    <3>2. PICK S, d : S = Registering(r) /\ d = Beside(Registering(r))
      OBVIOUS
    <3>3. \A o \in S : o \in Requests \ {r} /\ call[o].op = "register"
      BY <3>2 DEF Registering
    <3>4. /\ seen'[r] = [seen[r] EXCEPT !.during = d]
          /\ \A o \in Requests \ {r} :
               seen'[o] = IF o \in S THEN [seen[o] EXCEPT !.during = @ \cup {"rival"}] ELSE seen[o]
      BY <3>1, <3>2
    <3>5. seen'[r].during = d /\ Keeps(r, {"user", "row", "during"})
      <4>1. PICK s : s = seen[r] /\ s \in Seen
        BY <2>2
      <4>2. PICK t : t = [s EXCEPT !.during = d]
        OBVIOUS
      <4>3. /\ t.user = s.user /\ t.row = s.row /\ t.during = d /\ t.stale = s.stale /\ t.now = s.now
            /\ t.doomed = s.doomed /\ t.swept = s.swept
        BY <4>1, <4>2 DEF Seen
      <4> QED
        BY <3>4, <4>1, <4>2, <4>3 DEF Keeps
    <3>6. \A o \in S : "rival" \in seen'[o].during
      <4> SUFFICES ASSUME NEW o \in S PROVE "rival" \in seen'[o].during
        OBVIOUS
      <4>1. seen[o] \in Seen
        BY <3>3, SlotFields DEF Base
      <4> QED
        BY <3>3, <3>4, <4>1, Signed
    <3>7. \A o \in Requests \ {r} : call[o].op # "register" => seen'[o] = seen[o]
      BY <3>3, <3>4
    <3> QED
      BY <2>1, <2>2, <2>4, <3>1, <3>2, <3>5, <3>6, <3>7 DEF FirstReadEffect
  <2> QED
    BY <2>3, <2>4
<1> QED
  BY <1>1, <1>2, <1>3, <1>4

LEMMA SweepEffect ==
  ASSUME Base, NEW r \in Requests, NEW kind, NEW doomed, Sweep(r, kind, doomed)
  PROVE  /\ writes' = writes /\ Keeps(r, {"doomed", "swept"})
         /\ seen'[r].doomed = doomed /\ seen'[r].swept = seen[r].swept \cup {kind}
         /\ Changer(r) => \A o \in Requests \ {r} :
              seen[o].user = seen[r].user /\ Issues(call[o].op, kind) => "change" \in seen'[o].during
<1>1. PICK late : late = {o \in Requests : seen[o].user = seen[r].user /\ Issues(call[o].op, kind)}
  OBVIOUS
<1>2. /\ writes' = writes
      /\ seen' = [o \in Requests |->
           IF o = r THEN [seen[r] EXCEPT !.doomed = doomed, !.swept = @ \cup {kind}]
           ELSE IF o \in late /\ Changes(call[r].op) THEN [seen[o] EXCEPT !.during = @ \cup {"change"}]
           ELSE seen[o]]
  BY <1>1 DEF Sweep
<1>3. PICK s : s = seen[r] /\ s \in Seen
  BY SlotFields DEF Base
<1>4. PICK t : t = [s EXCEPT !.doomed = doomed, !.swept = s.swept \cup {kind}]
  OBVIOUS
<1>5. /\ t.user = s.user /\ t.row = s.row /\ t.during = s.during /\ t.stale = s.stale /\ t.now = s.now
      /\ t.doomed = doomed /\ t.swept = s.swept \cup {kind}
  BY <1>3, <1>4 DEF Seen
<1>6. /\ seen'[r] = t
      /\ \A o \in Requests \ {r} : o \in late /\ Changer(r) =>
           seen'[o] = [seen[o] EXCEPT !.during = @ \cup {"change"}]
  BY <1>2, <1>3, <1>4 DEF Changer
<1>7. ASSUME NEW o \in Requests \ {r}, o \in late, Changer(r)
      PROVE  "change" \in seen'[o].during
  <2>1. seen[o] \in Seen
    BY SlotFields DEF Base
  <2> QED
    BY <1>6, <1>7, <2>1, Signed
<1>8. Keeps(r, {"doomed", "swept"}) /\ seen'[r].doomed = doomed
      /\ seen'[r].swept = seen[r].swept \cup {kind}
  BY <1>3, <1>5, <1>6 DEF Keeps
<1> QED
  BY <1>1, <1>2, <1>7, <1>8

LEMMA LaterReads ==
  ASSUME Base, NEW r \in Requests, FindSessions(r) \/ FindLinks(r) \/ ReadLatest(r)
  PROVE  Abort(r) \/ (Forward(r) /\ Slot(r)' /\ LaterReadEffect(r))
<1>1. CASE FindSessions(r)
  <2>1. Forward(r) /\ Slot(r)' /\ Statement(r) = "findSessions" /\ Changer(r)
    BY <1>1, FindSessionsStep
  <2>2. PICK doomed : doomed = SessionsToClose(r)
    OBVIOUS
  <2>3. doomed \in SUBSET Nat
    <3>1. Rows(session) \subseteq Tokens /\ Tokens \subseteq Nat
      BY RowFields, Constants DEF Base
    <3> QED
      BY <2>2, <3>1 DEF SessionsToClose
  <2>4. Sweep(r, "sessions", doomed)
    BY <1>1, <2>2 DEF FindSessions
  <2> QED
    BY <2>1, <2>2, <2>3, <2>4, SweepEffect DEF LaterReadEffect
<1>2. CASE FindLinks(r)
  <2>1. Forward(r) /\ Slot(r)' /\ Statement(r) = "findLinks" /\ (Changer(r) \/ call[r].op = "requestReset")
    BY <1>2, FindLinksStep
  <2>2. PICK doomed : doomed = {l \in LinksTo(seen[r].user) : ~ link[l].used}
    OBVIOUS
  <2>3. doomed \in SUBSET Nat
    <3>1. Rows(link) \subseteq Links /\ Links \subseteq Nat
      BY RowFields, Constants DEF Base
    <3> QED
      BY <2>2, <3>1 DEF LinksTo
  <2>4. Sweep(r, "links", doomed)
    BY <1>2, <2>2 DEF FindLinks
  <2> QED
    BY <2>1, <2>2, <2>3, <2>4, SweepEffect DEF LaterReadEffect
<1>3. CASE ReadLatest(r) /\ ~ Abort(r)
  <2>1. /\ Forward(r) /\ writes' = writes /\ Slot(r)' /\ Statement(r) = "readLatest"
        /\ call[r].op = "requestReset" /\ ~ CoolingDown(seen[r].user)
    BY <1>3, ReadLatestStep
  <2>2. PICK S, d : S = Rivals(r) /\ d = Beside(Rivals(r))
    OBVIOUS
  <2>3. seen' = [o \in Requests |->
          IF o = r THEN [seen[r] EXCEPT !.now = now, !.during = @ \cup d]
          ELSE IF o \in S THEN [seen[o] EXCEPT !.during = @ \cup {"rival"}]
          ELSE seen[o]]
    BY <1>3, <2>2, ReadLatestStep
  <2>4. \A o \in S : o \in Requests \ {r}
    BY <2>2 DEF Rivals
  <2>5. PICK s : s = seen[r] /\ s \in Seen
    BY SlotFields DEF Base
  <2>6. PICK t : t = [s EXCEPT !.now = now, !.during = s.during \cup d]
    OBVIOUS
  <2>7. /\ t.user = s.user /\ t.row = s.row /\ t.during = s.during \cup d /\ t.stale = s.stale
        /\ t.now = now /\ t.doomed = s.doomed /\ t.swept = s.swept
    BY <2>5, <2>6 DEF Seen
  <2>8. /\ seen'[r] = t
        /\ \A o \in S : seen'[o] = [seen[o] EXCEPT !.during = @ \cup {"rival"}]
    BY <2>3, <2>4, <2>5, <2>6
  <2>9. ASSUME NEW o \in S
        PROVE  "rival" \in seen'[o].during
    <3>1. seen[o] \in Seen
      BY <2>4, SlotFields DEF Base
    <3> QED
      BY <2>8, <3>1, Signed
  <2>10. Keeps(r, {"now", "during"}) /\ seen'[r].now = now /\ seen'[r].during = seen[r].during \cup d
    BY <2>5, <2>7, <2>8 DEF Keeps
  <2> QED
    BY <2>1, <2>2, <2>9, <2>10 DEF LaterReadEffect
<1> QED
  BY <1>1, <1>2, <1>3

LEMMA WriteSteps ==
  ASSUME Base, NEW r \in Requests,
         \/ SaveUser(r) \/ InsertUser(r) \/ RevokeRead(r) \/ SaveSession(r)
         \/ CloseSessions(r) \/ CloseLinks(r) \/ SaveLink(r)
  PROVE  Abort(r) \/ (Forward(r) /\ Slot(r)' /\ WriteEffect(r))
<1>1. CASE SaveUser(r)
  BY <1>1, SaveUserStep DEF WriteEffect
<1>2. CASE InsertUser(r)
  BY <1>2, InsertUserStep DEF WriteEffect
<1>3. CASE RevokeRead(r)
  <2>1. PICK b : b = session[call[r].token].revoked
    OBVIOUS
  <2>2. /\ Forward(r) /\ Slot(r)' /\ Statement(r) = "revokeRead" /\ Presents(r)
        /\ seen' = [seen EXCEPT ![r].stale = b] /\ writes'[r].link = writes[r].link
    BY <1>3, <2>1, RevokeReadStep
  <2>3. PICK s : s = seen[r] /\ s \in Seen
    BY SlotFields DEF Base
  <2>4. PICK t : t = [s EXCEPT !.stale = b]
    OBVIOUS
  <2>5. /\ t.user = s.user /\ t.row = s.row /\ t.during = s.during /\ t.now = s.now
        /\ t.doomed = s.doomed /\ t.swept = s.swept
    BY <2>3, <2>4 DEF Seen
  <2>6. seen'[r] = t /\ \A o \in Requests \ {r} : seen'[o] = seen[o]
    BY <2>2, <2>3, <2>4, OneSeen
  <2>7. Keeps(r, {"stale"})
    BY <2>3, <2>5, <2>6 DEF Keeps
  <2> QED
    BY <2>2, <2>6, <2>7 DEF WriteEffect
<1>4. CASE SaveSession(r)
  BY <1>4, SaveSessionStep DEF WriteEffect
<1>5. CASE CloseSessions(r)
  BY <1>5, CloseSessionsStep DEF WriteEffect
<1>6. CASE CloseLinks(r)
  <2>1. Changer(r) \/ call[r].op = "requestReset"
    BY <1>6, Who, CloseLinksStep DEF Base, Started
  <2> QED
    BY <1>6, <2>1, CloseLinksStep DEF WriteEffect
<1>7. CASE SaveLink(r)
  BY <1>7, SaveLinkStep DEF WriteEffect
<1> QED
  BY <1>1, <1>2, <1>3, <1>4, <1>5, <1>6, <1>7

LEMMA Effects ==
  ASSUME Base, NEW r \in Requests, Local(r)
  PROVE  \/ Idle(r)
         \/ /\ Forward(r) /\ Slot(r)'
            /\ FirstReadEffect(r) \/ LaterReadEffect(r) \/ WriteEffect(r)
<1>1. CASE Start(r) \/ Fail(r)
  BY <1>1, StartStep, AbortStep DEF Fail
<1>2. CASE ~ Start(r) /\ ~ Fail(r)
  BY <1>2, FirstReads, LaterReads, WriteSteps, AbortStep DEF Local
<1> QED
  BY <1>1, <1>2

LEMMA AwareStep ==
  ASSUME Base, Aware, NEW r \in Requests, Local(r)
  PROVE  Aware'
<1> SUFFICES ASSUME NEW o \in Requests, seen'[o].stale PROVE Presents(o)'
  BY DEF Aware
<1>1. Quiet(r)
  BY LocalStep DEF Idle, Forward
<1>2. CASE o # r
  BY <1>1, <1>2 DEF Quiet, Grown, Aware, Presents
<1>3. CASE o = r
  <2>1. CASE Idle(r)
    BY <1>3, <2>1 DEF Idle, NothingSeen
  <2>2. CASE ~ Idle(r)
    <3>1. Presents(r)' <=> Presents(r)
      BY <2>2, Effects, ForwardControl
    <3>2. FirstReadEffect(r) \/ LaterReadEffect(r) \/ WriteEffect(r)
      BY <2>2, Effects
    <3>3. Presents(r) \/ seen'[r].stale = seen[r].stale
      BY <3>2 DEF FirstReadEffect, LaterReadEffect, WriteEffect, Keeps
    <3> QED
      BY <1>3, <3>1, <3>3 DEF Aware
  <2> QED
    BY <2>1, <2>2
<1> QED
  BY <1>2, <1>3

-----------------------------------------------------------------------------
(* The invariant.                                                          *)

Steady == Base /\ Aware

LEMMA StepsOfSlots ==
  ASSUME [Next]_vars
  PROVE  \/ /\ UNCHANGED <<database, mailed, call, todo, seen, writes, history>>
            /\ now' = now \/ (now < MaxNow /\ now' = now + 1)
            /\ locked' = locked \/ \E r \in Requests : LockNext(r)
         \/ \E r \in Requests : Local(r) \/ Commit(r)
<1>1. CASE UNCHANGED vars
  BY <1>1 DEF vars
<1>2. CASE Tick
  BY <1>2 DEF Tick
<1>3. ASSUME NEW r \in Requests, LockNext(r)
      PROVE  UNCHANGED <<database, mailed, call, todo, seen, writes, history>> /\ now' = now
  BY <1>3 DEF LockNext
<1>4. ASSUME NEW r \in Requests, Start(r) \/ Execute(r) \/ Fail(r)
      PROVE  LockNext(r) \/ Local(r) \/ Commit(r)
  BY <1>4 DEF Execute, Local
<1> QED
  BY <1>1, <1>2, <1>3, <1>4 DEF Next

LEMMA SteadyInit ==
  ASSUME Init
  PROVE  Steady
<1>1. /\ now = 0 /\ mailed = {} /\ overtaken = {} /\ ended = {} /\ calls = 0
      /\ \A r \in Requests : /\ call[r] = NoCall /\ todo[r] = <<>> /\ seen[r] = NothingSeen
                             /\ writes[r] = NoWrites /\ locked[r] = {}
      /\ locked \in [Requests -> SUBSET ({"session", "link"} \X Nat)]
  BY DEF Init
<1>2. /\ 1 \in Accounts /\ 1 \in Secrets /\ 0 \in 0..MaxNow /\ 0 \in 0..MaxCalls /\ {} \in During
  BY Constants DEF Accounts, Secrets, During
<1>3. [email |-> FirstEmail, secret |-> 1, during |-> {}] \in Account
  BY <1>2, SessionsAssumption DEF Account
<1>4. /\ account \in [Accounts -> Account \cup {None}] /\ session \in [Tokens -> Session \cup {None}]
      /\ link \in [Links -> Link \cup {None}]
  BY <1>3 DEF Init
<1>5. TypeOK
  BY <1>1, <1>2, <1>4 DEF TypeOK, Init
<1>6. Typed
  BY <1>1, <1>5, NothingTyped DEF Init, Typed
<1>7. /\ Rows(account) = {1} /\ Rows(session) = {} /\ Rows(link) = {}
  <2>1. PICK row : row = [email |-> FirstEmail, secret |-> 1, during |-> {}]
    OBVIOUS
  <2>2. row # None
    BY <1>3, <2>1, NoneIsNoRow
  <2>3. account = [u \in Accounts |-> IF u = 1 THEN row ELSE None]
    BY <2>1 DEF Init
  <2>4. \A u \in Accounts : account[u] = None <=> u # 1
    BY <2>2, <2>3
  <2> QED
    BY <1>2, <1>4, <2>4 DEF Rows, Init
<1>8. \A r \in Requests : Slot(r)
  <2> SUFFICES ASSUME NEW r \in Requests PROVE Slot(r)
    OBVIOUS
  <2>1. ~ Busy(r) /\ ~ Started(r) /\ call[r].op = "none" /\ Statement(r) = "commit"
    BY <1>1, NoCallIsNoCall DEF Busy, Started, Statement
  <2>2. DOMAIN writes[r].account = {} /\ DOMAIN writes[r].session = {} /\ DOMAIN writes[r].link = {}
    BY <1>1 DEF NoWrites
  <2> QED
    BY <1>1, <2>1, <2>2
    DEF Slot, Position, Blank, Given, Informed, AccountWrites, Saved, Inserted, SessionWrites, LinkWrites,
        Spends, Presents, Locks
<1>9. Exclusive
  <2>1. \A r \in Requests : DOMAIN writes[r].account = {} /\ DOMAIN writes[r].session = {}
                            /\ DOMAIN writes[r].link = {}
    BY <1>1 DEF NoWrites
  <2> QED
    BY <1>1, <2>1 DEF Exclusive, Apart, Clear
<1>10. Room
  <2>1. Registrations = {} /\ Issuing("sessions") = {} /\ Issuing("links") = {}
    BY <1>1, NoCallIsNoCall DEF Registrations, Issuing, Issues
  <2>2. Cardinality({}) = 0 /\ Cardinality({1}) = 1
    BY FS_EmptySet, FS_Singleton
  <2> QED
    BY <1>7, <2>1, <2>2, Constants DEF Room
<1>11. Grounded
  BY <1>1, <1>7 DEF Grounded
<1>12. Aware
  BY <1>1 DEF Aware, NothingSeen
<1> QED
  BY <1>6, <1>8, <1>9, <1>10, <1>11, <1>12 DEF Steady, Base

LEMMA SteadyStill ==
  ASSUME Base, UNCHANGED <<database, mailed, call, todo, seen, writes, locked, history>>,
         now' = now \/ (now < MaxNow /\ now' = now + 1)
  PROVE  Base'
<1>1. /\ account' = account /\ session' = session /\ link' = link /\ mailed' = mailed /\ call' = call
      /\ todo' = todo /\ seen' = seen /\ writes' = writes /\ locked' = locked
      /\ overtaken' = overtaken /\ ended' = ended /\ calls' = calls
  BY DEF database, history
<1>2. now' \in 0..MaxNow
  BY Constants DEF Base, Typed, TypeOK
<1>3. Typed'
  BY <1>1, <1>2 DEF Base, Typed, TypeOK, Rows
<1>4. \A r \in Requests : Slot(r)'
  <2> SUFFICES ASSUME NEW r \in Requests PROVE Slot(r)'
    OBVIOUS
  <2>1. Slot(r)
    BY DEF Base
  <2>2. (Statement(r)' = Statement(r)) /\ (Started(r)' <=> Started(r)) /\ (NewLink(r)' = NewLink(r))
    BY <1>1 DEF Statement, Started, Busy, NewLink
  <2>3. Locks(r)'
    BY <1>1, <2>1, <2>2 DEF Slot, Locks, Saved, Changer, PastLinks, Rows
  <2> QED
    BY <1>1, <2>1, <2>2, <2>3
    DEF Slot, Position, Busy, Blank, Given, Informed, AccountWrites, Saved, Inserted, SessionWrites, LinkWrites,
        Spends, Presents, Changer, Issued, Revokes, Sends, Marks, PastLinks, Rows
<1>5. Exclusive' /\ Room' /\ Grounded'
  BY <1>1 DEF Base, Exclusive, Apart, Clear, Room, Registrations, Issuing, Grounded, Rows
<1> QED
  BY <1>3, <1>4, <1>5 DEF Base

LEMMA SteadyStep ==
  ASSUME Steady, [Next]_vars
  PROVE  Steady'
<1>1. CASE /\ UNCHANGED <<database, mailed, call, todo, seen, writes, history>>
           /\ now' = now \/ (now < MaxNow /\ now' = now + 1)
           /\ locked' = locked \/ \E r \in Requests : LockNext(r)
  BY <1>1, SteadyStill, LockNextStep DEF Steady, Aware, Presents
<1>2. ASSUME NEW r \in Requests, Local(r)
      PROVE  Steady'
  BY <1>2, LocalStep, AwareStep DEF Steady
<1>3. ASSUME NEW r \in Requests, Commit(r)
      PROVE  Steady'
  <2>1. ~ NothingSeen.stale /\ seen'[r] = NothingSeen
        /\ \A o \in Requests \ {r} : seen'[o] = seen[o] /\ call'[o] = call[o]
    BY <1>3, CommitControl DEF Steady, NothingSeen
  <2>2. \A o \in Requests : seen'[o].stale => call'[o].op \in {"refresh", "logout"}
    BY <2>1 DEF Steady, Aware, Presents
  <2>3. Aware'
    BY <2>2 DEF Aware, Presents
  <2> QED
    BY <1>3, <2>3, CommitStep DEF Steady
<1> QED
  BY <1>1, <1>2, <1>3, StepsOfSlots

\* What every session and every reset of a password goes through stays in
\* order: each slot is at a statement of its handler, holds only rows that its
\* handler may write, keeps what it learned, shares no row with another, and
\* finds an id left for what it inserts (AuthenticationService,
\* PasswordService and UsersService under UnitOfWork.run).
THEOREM SessionsSteady == Spec => []Steady
<1>1. Init => Steady
  BY SteadyInit
<1>2. Steady /\ [Next]_vars => Steady'
  BY SteadyStep
<1> QED
  BY <1>1, <1>2, PTL DEF Spec

\* Accounts, tokens and links have their types, a link is sent only when its
\* row is there, and the chains the history speaks of are tokens.
THEOREM SessionsTyped == Spec => []TypeOK
<1>1. Steady => TypeOK
  BY DEF Steady, Base, Typed
<1> QED
  BY <1>1, SessionsSteady, PTL

\* Short of a commit the tables stay as they are.
LEMMA TablesMove ==
  ASSUME Steady, [Next]_vars
  PROVE  \/ UNCHANGED database /\ overtaken' = overtaken /\ ended' = ended
         \/ \E r \in Requests : Commit(r)
<1>1. ASSUME NEW r \in Requests, Local(r)
      PROVE  UNCHANGED database /\ overtaken' = overtaken /\ ended' = ended
  BY <1>1, LocalStep DEF Steady, Idle, Forward, Quiet
<1> QED
  BY <1>1, StepsOfSlots DEF history

-----------------------------------------------------------------------------
(* Links set one password.                                                 *)

\* A link that set a password is used.
SpentLinks == \A l \in Rows(link) : link[l].sets >= 1 => link[l].used

LEMMA SpentLinksStep ==
  ASSUME Steady, SpentLinks, LinksWorkOnce, [Next]_vars
  PROVE  SpentLinks' /\ LinksWorkOnce'
<1>1. CASE UNCHANGED database
  BY <1>1 DEF SpentLinks, LinksWorkOnce, database, Rows
<1>2. ASSUME NEW r \in Requests, Commit(r), NEW l \in Rows(link)'
      PROVE  /\ link'[l].sets >= 1 => link'[l].used
             /\ link'[l].sets <= 1 \/ "rival" \in link'[l].during
  <2>1. Typed /\ Slot(r) /\ Started(r) /\ Statement(r) = "commit"
    BY <1>2, CommitControl DEF Steady, Base
  <2>2. CASE l \notin Rows(link)
    <3>1. link'[l].sets = 0
      BY <1>2, <2>2, LinkMoves DEF Steady
    <3> QED
      BY <3>1
  <2>3. CASE l \in Rows(link)
    <3>1. link[l].sets \in Nat /\ link[l].used \in BOOLEAN
      BY <2>1, <2>3, RowFields DEF Link
    <3>2. link'[l].used = (link[l].used \/ l \in DOMAIN writes[r].link)
      BY <1>2, <2>3, LinkMoves DEF Steady
    <3>3. /\ link[l].sets >= 1 => link[l].used
          /\ link[l].sets <= 1 \/ "rival" \in link[l].during
      BY <2>3 DEF SpentLinks, LinksWorkOnce
    <3>4. CASE call[r].op = "resetPassword" /\ l = call[r].link
      <4>1. /\ link'[l].sets = link[l].sets + 1
            /\ link'[l].during = link[l].during \cup (IF link[l].used THEN {"rival"} ELSE {})
        BY <1>2, <2>3, <3>4, LinkMoves DEF Steady
      <4>2. link[l].used \/ l \in DOMAIN writes[r].link
        BY <2>1, <3>4 DEF Slot, Spends
      <4>3. link[l].sets >= 1 => "rival" \in link'[l].during
        BY <3>3, <4>1
      <4>4. link'[l].used
        BY <3>2, <4>2
      <4>5. link'[l].sets <= 1 \/ link[l].sets >= 1
        <5>1. PICK n : n \in Nat /\ link[l].sets = n /\ link'[l].sets = n + 1
          BY <3>1, <4>1
        <5> QED
          BY <5>1
      <4> QED
        BY <4>3, <4>4, <4>5
    <3>5. CASE ~ (call[r].op = "resetPassword" /\ l = call[r].link)
      <4>1. link'[l].sets = link[l].sets /\ link'[l].during = link[l].during
        BY <1>2, <2>3, <3>5, LinkMoves DEF Steady
      <4> QED
        BY <3>2, <3>3, <4>1
    <3> QED
      BY <3>4, <3>5
  <2> QED
    BY <2>2, <2>3
<1>3. ASSUME NEW r \in Requests, Commit(r)
      PROVE  SpentLinks' /\ LinksWorkOnce'
  BY <1>2, <1>3 DEF SpentLinks, LinksWorkOnce
<1> QED
  BY <1>1, <1>3, TablesMove

\* A reset link sets a password once; a second time only if another call spent
\* it between resetPassword's look at the link and its commit.
THEOREM SessionsLinksWorkOnce == Spec => []LinksWorkOnce
<1>1. Init => SpentLinks /\ LinksWorkOnce
  <2> SUFFICES ASSUME Init PROVE SpentLinks /\ LinksWorkOnce
    OBVIOUS
  <2>1. Rows(link) = {}
    BY DEF Init, Rows
  <2> QED
    BY <2>1 DEF SpentLinks, LinksWorkOnce
<1>2. Steady /\ SpentLinks /\ LinksWorkOnce /\ [Next]_vars => SpentLinks' /\ LinksWorkOnce'
  BY SpentLinksStep
<1> QED
  BY <1>1, <1>2, SessionsSteady, PTL DEF Spec

-----------------------------------------------------------------------------
(* A login has one live token.                                             *)

\* Of a chain that no outdated save moved, one token at most is not revoked,
\* and none once a logout closed it.
OneLive ==
  \A t, x \in Rows(session) :
    /\ session[t].chain = session[x].chain /\ ~ session[t].revoked /\ ~ session[x].revoked
    /\ session[t].chain \notin overtaken
    => t = x /\ session[t].chain \notin ended

LEMMA OneLiveStep ==
  ASSUME Steady, OneLive, [Next]_vars
  PROVE  OneLive'
<1>1. CASE UNCHANGED database /\ overtaken' = overtaken /\ ended' = ended
  BY <1>1 DEF OneLive, database, Rows
<1>2. ASSUME NEW r \in Requests, Commit(r), NEW t \in Rows(session)', NEW x \in Rows(session)',
             session'[t].chain = session'[x].chain, ~ session'[t].revoked, ~ session'[x].revoked,
             session'[t].chain \notin overtaken'
      PROVE  t = x /\ session'[t].chain \notin ended'
  <2>1. /\ Base /\ Typed /\ Slot(r) /\ Grounded /\ Started(r) /\ Statement(r) = "commit"
        /\ overtaken \subseteq Rows(session) /\ ended \subseteq Rows(session)
    BY <1>2, CommitControl DEF Steady, Base, Grounded
  <2> DEFINE c == session'[t].chain
             old(y) == y \in Rows(session) /\ ~ session[y].revoked /\ session[y].chain = c
                         /\ y \notin DOMAIN writes[r].session
             new(y) == y \notin Rows(session) /\ y \in DOMAIN writes[r].session
                         /\ c = IF call[r].op = "refresh" THEN seen[r].row.chain ELSE y
  <2>2. ASSUME NEW y \in Rows(session)', session'[y].chain = c, ~ session'[y].revoked
        PROVE  old(y) \/ (new(y) /\ Issued(r, y))
    <3>1. CASE y \in Rows(session)
      BY <2>1, <2>2, <3>1, <1>2, SessionMoves
    <3>2. CASE y \notin Rows(session)
      BY <2>1, <2>2, <3>2, <1>2, SessionMoves
    <3> QED
      BY <3>1, <3>2
  <2>3. overtaken \subseteq overtaken' /\ ended \subseteq ended'
    BY <1>2 DEF Commit
  <2>4. c \notin overtaken
    BY <1>2, <2>3
  <2>5. Presents(r) /\ ~ seen[r].stale =>
          LET y == call[r].token IN
          /\ y \in Rows(session) /\ y \in DOMAIN writes[r].session /\ ~ session[y].revoked
          /\ session[y].chain = seen[r].row.chain
    BY <2>1 DEF Slot, Given, Informed, SessionWrites
  <2>6. seen[r].stale => seen[r].row.chain \in overtaken'
    BY <1>2 DEF Commit
  <2>7. ended' = IF call[r].op = "logout" THEN ended \cup {seen[r].row.chain} ELSE ended
    BY <1>2 DEF Commit
  <2>8. CASE Presents(r) /\ c = seen[r].row.chain
    <3>1. PICK k : /\ k \in Rows(session) /\ k \in DOMAIN writes[r].session /\ ~ session[k].revoked
                   /\ session[k].chain = c
      BY <1>2, <2>5, <2>6, <2>8
    <3>2. \A y : ~ old(y)
      BY <2>4, <3>1 DEF OneLive
    <3>3. new(t) /\ new(x) /\ Issued(r, t)
      BY <1>2, <2>2, <3>2
    <3>4. t = x
      BY <2>1, <3>3 DEF Slot, SessionWrites
    <3>5. call[r].op # "logout"
      BY <3>3 DEF Issued, Issues
    <3>6. c \notin ended
      BY <2>4, <3>1 DEF OneLive
    <3> QED
      BY <2>7, <3>4, <3>5, <3>6
  <2>9. CASE ~ (Presents(r) /\ c = seen[r].row.chain)
    <3>1. call[r].op = "logout" => c # seen[r].row.chain
      BY <2>9 DEF Presents
    <3>2. ASSUME NEW y, new(y)
          PROVE  c = y /\ \A k : ~ old(k)
      <4>1. c = y /\ y \notin Rows(session)
        BY <2>9, <3>2 DEF Presents
      <4>2. \A k \in Rows(session) : session[k].chain # y
        BY <2>1, <4>1 DEF Grounded
      <4> QED
        BY <4>1, <4>2
    <3>3. CASE new(t) \/ new(x)
      <4>1. new(t) /\ new(x)
        BY <1>2, <2>2, <3>2, <3>3
      <4>2. c = t /\ c = x /\ c \notin Rows(session)
        BY <3>2, <4>1
      <4> QED
        BY <2>1, <2>7, <3>1, <4>2
    <3>4. CASE ~ new(t) /\ ~ new(x)
      <4>1. old(t) /\ old(x)
        BY <1>2, <2>2, <3>4
      <4> QED
        BY <2>4, <2>7, <3>1, <4>1 DEF OneLive
    <3> QED
      BY <3>3, <3>4
  <2> QED
    BY <2>8, <2>9
<1>3. ASSUME NEW r \in Requests, Commit(r)
      PROVE  OneLive'
  BY <1>2, <1>3 DEF OneLive
<1> QED
  BY <1>1, <1>3, TablesMove

LEMMA OneLiveCounts ==
  ASSUME Typed, OneLive
  PROVE  OneLiveTokenPerLogin
<1> SUFFICES ASSUME NEW c \in Tokens \ overtaken
             PROVE  LET live == {t \in Rows(session) : session[t].chain = c /\ Active(session[t])}
                    IN Cardinality(live) <= (IF c \in ended THEN 0 ELSE 1)
  BY DEF OneLiveTokenPerLogin
<1> DEFINE live == {t \in Rows(session) : session[t].chain = c /\ Active(session[t])}
<1>1. \A t, x \in live : t = x /\ c \notin ended
  BY DEF OneLive, Active
<1>2. Cardinality({}) = 0
  BY FS_EmptySet
<1>3. \A t : Cardinality({t}) = 1
  BY FS_Singleton
<1> HIDE DEF live
<1>4. live = {} \/ \E t : live = {t} /\ c \notin ended
  BY <1>1
<1>5. Cardinality(live) <= (IF c \in ended THEN 0 ELSE 1)
  <2>1. CASE live = {}
    BY <1>2, <2>1
  <2>2. CASE live # {}
    <3>1. PICK t : live = {t} /\ c \notin ended
      BY <1>4, <2>2
    <3>2. Cardinality(live) = 1
      BY <1>3, <3>1
    <3> QED
      BY <3>1, <3>2
  <2> QED
    BY <2>1, <2>2
<1> QED
  BY <1>5 DEF live

\* However often a session is rotated, and whatever races, a login has one live
\* token at most, and none once a logout spent it, unless a refresh or a logout
\* saved over a token that had been spent since it was read.
THEOREM SessionsOneLiveToken == Spec => []OneLiveTokenPerLogin
<1>1. Init => OneLive
  <2> SUFFICES ASSUME Init PROVE OneLive
    OBVIOUS
  <2>1. Rows(session) = {}
    BY DEF Init, Rows
  <2> QED
    BY <2>1 DEF OneLive
<1>2. Steady /\ OneLive /\ [Next]_vars => OneLive'
  BY OneLiveStep
<1>3. Steady /\ OneLive => OneLiveTokenPerLogin
  BY OneLiveCounts DEF Steady, Base
<1> QED
  BY <1>1, <1>2, <1>3, SessionsSteady, PTL DEF Spec

-----------------------------------------------------------------------------
(* One account per address.                                                *)

\* What a step of one slot, short of a commit, leaves to another.
LEMMA OthersStay ==
  ASSUME NEW r \in Requests, Quiet(r), NEW o \in Requests \ {r}
  PROVE  /\ call'[o] = call[o] /\ Statement(o)' = Statement(o) /\ (Started(o)' <=> Started(o))
         /\ writes'[o] = writes[o] /\ seen[o].during \subseteq seen'[o].during
         /\ seen'[o].user = seen[o].user /\ seen'[o].row = seen[o].row /\ seen'[o].now = seen[o].now
         /\ seen'[o].doomed = seen[o].doomed /\ seen'[o].swept = seen[o].swept
BY DEF Quiet, Grown, Statement, Started, Busy

\* Nothing moves but the clock.
LEMMA AllStay ==
  ASSUME UNCHANGED <<database, mailed, call, todo, seen, writes, history>>, NEW o \in Requests
  PROVE  /\ Statement(o)' = Statement(o) /\ (Started(o)' <=> Started(o))
         /\ account' = account /\ session' = session /\ link' = link
         /\ call' = call /\ seen' = seen /\ writes' = writes
BY DEF Statement, Started, Busy, database

\* A registration that has looked the address up.
Looked(r) == Started(r) /\ call[r].op = "register"
Same(e, f) == AddressOf[e] = AddressOf[f]

\* Two registrations of one address know of each other, and hold it under
\* different spellings; so do a registration and an account.
BothRegister(r, o) ==
  Looked(r) /\ Looked(o) /\ Same(call[r].email, call[o].email) =>
    /\ "rival" \in seen[r].during
    /\ Inserted(r) /\ Inserted(o) => call[r].email # call[o].email
Beforehand(r, u) ==
  Looked(r) /\ Same(call[r].email, account[u].email) =>
    /\ "rival" \in seen[r].during /\ "rival" \in account[u].during
    /\ Inserted(r) => call[r].email # account[u].email
Addresses ==
  /\ \A r, o \in Requests : r # o => BothRegister(r, o)
  /\ \A r \in Requests, u \in Rows(account) : Beforehand(r, u)
  /\ OneAccountPerAddress

LEMMA AddressesLocal ==
  ASSUME Steady, Addresses, NEW r \in Requests, Local(r)
  PROVE  Addresses'
<1>1. Base /\ Typed /\ Slot(r)
  BY DEF Steady, Base
<1>2. Quiet(r) /\ account' = account /\ Rows(account)' = Rows(account)
  BY <1>1, LocalStep DEF Idle, Forward, Quiet, database, Rows
<1>3. OneAccountPerAddress'
  BY <1>2 DEF Addresses, OneAccountPerAddress
<1>4. \A o \in Requests \ {r} :
        /\ Looked(o)' <=> Looked(o)
        /\ Inserted(o)' <=> Inserted(o)
        /\ call'[o] = call[o] /\ seen[o].during \subseteq seen'[o].during
  BY <1>2, OthersStay DEF Looked, Inserted
<1>5. \/ ~ Looked(r)'
      \/ /\ call'[r] = call[r] /\ Looked(r) /\ seen'[r] = seen[r]
         /\ Inserted(r)' => /\ \A u \in Rows(account) : account[u].email # call[r].email
                            /\ \A o \in Requests \ {r} : Inserted(o) => call[o].email # call[r].email
      \/ /\ call'[r] = call[r] /\ call[r].op = "register" /\ ~ Inserted(r)'
         /\ Owners(call[r].email) = {} /\ seen'[r].during = Beside(Registering(r))
         /\ \A o \in Registering(r) : "rival" \in seen'[o].during
  <2>1. CASE Idle(r)
    BY <2>1 DEF Idle, Looked
  <2>2. CASE Forward(r) /\ call[r].op # "register"
    BY <2>2 DEF Forward, Looked
  <2>3. CASE Forward(r) /\ call[r].op = "register" /\ (FirstReadEffect(r) \/ LaterReadEffect(r) \/ WriteEffect(r))
    <3>1. /\ call' = call /\ Busy(r) /\ Statement(r)' = After("register", Statement(r))
      BY <1>1, <2>3, ForwardControl DEF Forward
    <3>2. Statement(r) \in {"readEmail", "insertUser"}
      BY <1>1, <2>3, Placed DEF Slot, StatementsOf, Ops, Forward
    <3>3. CASE Statement(r) = "readEmail"
      <4>1. Statement(r)' = "insertUser"
        BY <3>1, <3>3 DEF After
      <4>2. FirstReadEffect(r)
        BY <2>3, <3>3 DEF LaterReadEffect, WriteEffect
      <4> QED
        BY <2>3, <3>1, <3>3, <4>1, <4>2 DEF FirstReadEffect, Inserted
    <3>4. CASE Statement(r) = "insertUser"
      <4>1. WriteEffect(r)
        BY <2>3, <3>4 DEF FirstReadEffect, LaterReadEffect
      <4>2. Looked(r)
        BY <2>3, <3>1, <3>4 DEF Looked, Started, Firsts
      <4> QED
        BY <2>3, <3>1, <3>4, <4>1, <4>2 DEF WriteEffect
    <3> QED
      BY <3>2, <3>3, <3>4
  <2> QED
    BY <1>1, <2>1, <2>2, <2>3, Effects
<1>6. ASSUME NEW o \in Requests \ {r}
      PROVE  BothRegister(r, o)' /\ BothRegister(o, r)'
  <2>1. BothRegister(r, o) /\ BothRegister(o, r)
    BY DEF Addresses
  <2>2. CASE ~ Looked(r)'
    BY <2>2 DEF BothRegister
  <2>3. CASE /\ call'[r] = call[r] /\ Looked(r) /\ seen'[r] = seen[r]
             /\ Inserted(r)' => \A q \in Requests \ {r} : Inserted(q) => call[q].email # call[r].email
    BY <1>4, <2>1, <2>3 DEF BothRegister
  <2>4. CASE /\ call'[r] = call[r] /\ call[r].op = "register" /\ ~ Inserted(r)'
             /\ seen'[r].during = Beside(Registering(r))
             /\ \A q \in Registering(r) : "rival" \in seen'[q].during
    <3>1. Looked(o) /\ Same(call[r].email, call[o].email) => o \in Registering(r)
      BY DEF Looked, Same, Registering, Started, Firsts
    <3>2. o \in Registering(r) => "rival" \in seen'[r].during
      BY <2>4 DEF Beside
    <3> QED
      BY <1>4, <2>4, <3>1, <3>2 DEF BothRegister, Same
  <2> QED
    BY <1>5, <2>2, <2>3, <2>4
<1>7. ASSUME NEW o \in Requests, NEW u \in Rows(account)
      PROVE  Beforehand(o, u)'
  <2>1. Beforehand(o, u)
    BY DEF Addresses
  <2>2. CASE o # r
    BY <1>2, <1>4, <2>1, <2>2 DEF Beforehand
  <2>3. CASE o = r
    <3>1. CASE ~ Looked(r)'
      BY <2>3, <3>1 DEF Beforehand
    <3>2. CASE /\ call'[r] = call[r] /\ Looked(r) /\ seen'[r] = seen[r]
               /\ Inserted(r)' => \A v \in Rows(account) : account[v].email # call[r].email
      BY <1>2, <2>1, <2>3, <3>2 DEF Beforehand
    <3>3. CASE call'[r] = call[r] /\ Owners(call[r].email) = {}
      BY <1>2, <2>3, <3>3 DEF Beforehand, Owners, Same
    <3> QED
      BY <1>5, <3>1, <3>2, <3>3
  <2> QED
    BY <2>2, <2>3
<1>8. \A o, q \in Requests : o # q => BothRegister(o, q)'
  <2> SUFFICES ASSUME NEW o \in Requests, NEW q \in Requests, o # q PROVE BothRegister(o, q)'
    OBVIOUS
  <2>1. CASE o = r \/ q = r
    BY <1>6, <2>1
  <2>2. CASE o # r /\ q # r
    <3>1. BothRegister(o, q)
      BY DEF Addresses
    <3> QED
      BY <1>4, <2>2, <3>1 DEF BothRegister
  <2> QED
    BY <2>1, <2>2
<1> QED
  BY <1>2, <1>3, <1>7, <1>8 DEF Addresses

LEMMA AddressesCommit ==
  ASSUME Steady, Addresses, NEW r \in Requests, Commit(r)
  PROVE  Addresses'
<1>1. Base /\ Typed /\ Slot(r) /\ Started(r) /\ Statement(r) = "commit"
  BY CommitControl DEF Steady, Base
<1>2. /\ ~ Looked(r)'
      /\ \A o \in Requests \ {r} : /\ (Looked(o)' <=> Looked(o)) /\ (Inserted(o)' <=> Inserted(o))
                                   /\ call'[o] = call[o] /\ seen'[o] = seen[o]
  BY <1>1, CommitControl DEF Looked, Inserted
<1>3. \A u \in Rows(account) : u \in Rows(account)' /\ account'[u].email = account[u].email
                               /\ account'[u].during = account[u].during
  BY <1>1, AccountMoves
<1>4. ASSUME NEW u \in Rows(account)' \ Rows(account)
      PROVE  /\ Inserted(r) /\ Looked(r) /\ account'[u].email = call[r].email
             /\ account'[u].during = seen[r].during /\ DOMAIN writes[r].account = {u}
  <2>1. /\ Inserted(r) /\ u \in DOMAIN writes[r].account /\ account'[u].email = call[r].email
        /\ account'[u].during = seen[r].during
    BY <1>1, AccountMoves
  <2> QED
    BY <1>1, <2>1 DEF Slot, AccountWrites, Inserted, Looked
<1>5. \A o, q \in Requests : o # q => BothRegister(o, q)'
  <2> SUFFICES ASSUME NEW o \in Requests, NEW q \in Requests, o # q PROVE BothRegister(o, q)'
    OBVIOUS
  <2>1. BothRegister(o, q)
    BY DEF Addresses
  <2> QED
    BY <1>2, <2>1 DEF BothRegister
<1>6. ASSUME NEW o \in Requests, NEW u \in Rows(account)'
      PROVE  Beforehand(o, u)'
  <2>1. CASE o = r
    BY <1>2, <2>1 DEF Beforehand
  <2>2. CASE o # r /\ u \in Rows(account)
    <3>1. Beforehand(o, u)
      BY <2>2 DEF Addresses
    <3> QED
      BY <1>2, <1>3, <2>2, <3>1 DEF Beforehand
  <2>3. CASE o # r /\ u \notin Rows(account)
    <3>1. BothRegister(o, r) /\ BothRegister(r, o)
      BY <2>3 DEF Addresses
    <3> QED
      BY <1>2, <1>4, <1>6, <2>3, <3>1 DEF Beforehand, BothRegister, Same
  <2> QED
    BY <2>1, <2>2, <2>3
<1>7. ASSUME NEW u \in Rows(account)', NEW v \in Rows(account)', u # v,
             AddressOf[account'[u].email] = AddressOf[account'[v].email]
      PROVE  /\ account'[u].email # account'[v].email
             /\ "rival" \in account'[u].during \cap account'[v].during
  <2>1. CASE u \in Rows(account) /\ v \in Rows(account)
    <3>1. OneAccountPerAddress
      BY DEF Addresses
    <3> QED
      BY <1>3, <1>7, <2>1, <3>1 DEF OneAccountPerAddress
  <2>2. ASSUME NEW x \in Rows(account)' \ Rows(account), NEW y \in Rows(account),
               AddressOf[account'[x].email] = AddressOf[account'[y].email]
        PROVE  /\ account'[x].email # account'[y].email
               /\ "rival" \in account'[x].during /\ "rival" \in account'[y].during
    <3>1. Beforehand(r, y)
      BY DEF Addresses
    <3> QED
      BY <1>3, <1>4, <2>2, <3>1 DEF Beforehand, Same
  <2>3. u \in Rows(account) \/ v \in Rows(account)
    BY <1>4, <1>7
  <2> QED
    BY <1>7, <2>1, <2>2, <2>3
<1>8. OneAccountPerAddress'
  BY <1>7 DEF OneAccountPerAddress
<1> QED
  BY <1>5, <1>6, <1>8 DEF Addresses

LEMMA AddressesStill ==
  ASSUME Addresses, UNCHANGED <<database, mailed, call, todo, seen, writes, history>>
  PROVE  Addresses'
<1>1. account' = account /\ call' = call /\ seen' = seen /\ Rows(account)' = Rows(account)
  BY DEF database, Rows
<1>2. \A r \in Requests : (Looked(r)' <=> Looked(r)) /\ (Inserted(r)' <=> Inserted(r))
  BY AllStay DEF Looked, Inserted
<1>3. \A r, o \in Requests : BothRegister(r, o) => BothRegister(r, o)'
  BY <1>1, <1>2 DEF BothRegister
<1>4. \A r \in Requests : \A u : Beforehand(r, u) => Beforehand(r, u)'
  BY <1>1, <1>2 DEF Beforehand
<1>5. OneAccountPerAddress' <=> OneAccountPerAddress
  BY <1>1 DEF OneAccountPerAddress
<1> QED
  BY <1>1, <1>3, <1>4, <1>5 DEF Addresses

\* UsersService.create looks an address up before it inserts it: two accounts
\* of one address exist only if they were registered at once, and then under
\* different spellings, which the unique column keeps apart.
THEOREM SessionsOneAccount == Spec => []OneAccountPerAddress
<1>1. Init => Addresses
  <2> SUFFICES ASSUME Init PROVE Addresses
    OBVIOUS
  <2>1. \A r \in Requests : ~ Looked(r)
    BY DEF Init, Looked, Started, Busy
  <2>2. \A u, v \in Rows(account) : u = v
    BY DEF Init, Rows
  <2> QED
    BY <2>1, <2>2 DEF Addresses, BothRegister, Beforehand, OneAccountPerAddress
<1>2. Steady /\ Addresses /\ [Next]_vars => Addresses'
  BY AddressesLocal, AddressesCommit, AddressesStill, StepsOfSlots
<1>3. Addresses => OneAccountPerAddress
  BY DEF Addresses
<1> QED
  BY <1>1, <1>2, <1>3, SessionsSteady, PTL DEF Spec

-----------------------------------------------------------------------------
(* Only the newest link works.                                             *)

\* A request for a link that has looked at the last one.
Asked(r) == Started(r) /\ call[r].op = "requestReset" /\ Statement(r) # "readLatest"

\* Two of them for one account know of each other.
BothAsk(r, o) ==
  Asked(r) /\ Asked(o) /\ seen[r].user = seen[o].user => "rival" \in seen[r].during

\* A link sent before either is a cooldown older and gets used, or raced the request.
AsksAfter(r, l) ==
  Asked(r) /\ link[l].user = seen[r].user =>
    \/ "rival" \in seen[r].during /\ "rival" \in link[l].during
    \/ /\ link[l].created + Cooldown <= seen[r].now
       /\ Statement(r) = "closeLinks" => link[l].used \/ l \in seen[r].doomed
       /\ Statement(r) \in {"saveLink", "commit"} => link[l].used \/ l \in DOMAIN writes[r].link

SentApart(l, k) ==
  link[l].user = link[k].user =>
    \/ "rival" \in link[l].during /\ "rival" \in link[k].during
    \/ /\ link[l].used \/ link[k].used
       /\ \/ link[l].created + Cooldown <= link[k].created
          \/ link[k].created + Cooldown <= link[l].created

Newest ==
  /\ \A r, o \in Requests : r # o => BothAsk(r, o)
  /\ \A r \in Requests, l \in Rows(link) : AsksAfter(r, l)
  /\ \A l, k \in Rows(link) : l # k => SentApart(l, k)

LEMMA NewestWorks ==
  ASSUME Newest
  PROVE  OnlyTheNewestLinkWorks
BY DEF Newest, SentApart, OnlyTheNewestLinkWorks, Usable

\* How far a request for a link is, and what it has seen, after its own step.
LEMMA AskingStep ==
  ASSUME Base, NEW r \in Requests, Local(r), Asked(r)'
  PROVE  /\ call'[r].op = "requestReset"
         /\ \/ /\ Statement(r)' = "findLinks" /\ ~ CoolingDown(seen[r].user)
               /\ seen'[r].user = seen[r].user /\ seen'[r].now = now
               /\ seen'[r].during = seen[r].during \cup Beside(Rivals(r))
               /\ \A o \in Rivals(r) : "rival" \in seen'[o].during
            \/ /\ Asked(r) /\ seen'[r].user = seen[r].user /\ seen'[r].now = seen[r].now
               /\ seen'[r].during = seen[r].during
               /\ \/ /\ Statement(r)' = "closeLinks"
                     /\ seen'[r].doomed = {l \in LinksTo(seen[r].user) : ~ link[l].used}
                  \/ /\ Statement(r)' = "saveLink" /\ Statement(r) = "closeLinks"
                     /\ DOMAIN writes'[r].link = {l \in seen[r].doomed : ~ link[l].used}
                  \/ /\ Statement(r)' = "commit" /\ Statement(r) = "saveLink"
                     /\ DOMAIN writes[r].link \subseteq DOMAIN writes'[r].link
<1>1. /\ Typed /\ Slot(r) /\ Forward(r)
      /\ FirstReadEffect(r) \/ LaterReadEffect(r) \/ WriteEffect(r)
  BY Effects DEF Base, Idle, Asked
<1>2. /\ call' = call /\ call[r].op = "requestReset" /\ Busy(r)
      /\ Statement(r)' = After("requestReset", Statement(r))
  BY <1>1, ForwardControl DEF Forward, Asked
<1>3. Statement(r) \in {"readEmail", "readLatest", "findLinks", "closeLinks", "saveLink"}
  BY <1>1, <1>2, Placed DEF Slot, StatementsOf, Ops, Forward
<1>4. CASE Statement(r) = "readEmail"
  BY <1>2, <1>4 DEF After, Asked
<1>5. CASE Statement(r) = "readLatest"
  <2>1. Statement(r)' = "findLinks"
    BY <1>2, <1>5 DEF After
  <2>2. LaterReadEffect(r)
    BY <1>1, <1>5 DEF FirstReadEffect, WriteEffect
  <2> QED
    BY <1>2, <1>5, <2>1, <2>2 DEF LaterReadEffect, Keeps
<1>6. CASE Statement(r) = "findLinks"
  <2>1. Statement(r)' = "closeLinks" /\ Asked(r)
    BY <1>2, <1>6 DEF After, Asked, Started, Firsts
  <2>2. LaterReadEffect(r)
    BY <1>1, <1>6 DEF FirstReadEffect, WriteEffect
  <2> QED
    BY <1>2, <1>6, <2>1, <2>2 DEF LaterReadEffect, Keeps
<1>7. CASE Statement(r) = "closeLinks"
  <2>1. Statement(r)' = "saveLink" /\ Asked(r)
    BY <1>2, <1>7 DEF After, Asked, Started, Firsts
  <2>2. WriteEffect(r)
    BY <1>1, <1>7 DEF FirstReadEffect, LaterReadEffect
  <2> QED
    BY <1>2, <1>7, <2>1, <2>2 DEF WriteEffect
<1>8. CASE Statement(r) = "saveLink"
  <2>1. Statement(r)' = "commit" /\ Asked(r)
    BY <1>2, <1>8 DEF After, Asked, Started, Firsts
  <2>2. WriteEffect(r)
    BY <1>1, <1>8 DEF FirstReadEffect, LaterReadEffect
  <2> QED
    BY <1>2, <1>8, <2>1, <2>2 DEF WriteEffect
<1> QED
  BY <1>3, <1>4, <1>5, <1>6, <1>7, <1>8

LEMMA NewestLocal ==
  ASSUME Steady, Newest, NEW r \in Requests, Local(r)
  PROVE  Newest'
<1>1. Base /\ Typed
  BY DEF Steady, Base
<1>2. Quiet(r) /\ link' = link /\ Rows(link)' = Rows(link)
  BY <1>1, LocalStep DEF Idle, Forward, Quiet, database, Rows
<1>3. \A l, k \in Rows(link) : l # k => SentApart(l, k)'
  <2> SUFFICES ASSUME NEW l \in Rows(link), NEW k \in Rows(link), l # k PROVE SentApart(l, k)'
    OBVIOUS
  <2>1. SentApart(l, k)
    BY DEF Newest
  <2> QED
    BY <1>2, <2>1 DEF SentApart
<1>4. \A o \in Requests \ {r} :
        /\ Asked(o)' <=> Asked(o)
        /\ call'[o] = call[o] /\ seen[o].during \subseteq seen'[o].during
        /\ seen'[o].user = seen[o].user /\ seen'[o].now = seen[o].now /\ seen'[o].doomed = seen[o].doomed
        /\ writes'[o] = writes[o] /\ Statement(o)' = Statement(o)
  BY <1>2, OthersStay DEF Asked
<1>5. ASSUME NEW o \in Requests \ {r}
      PROVE  BothAsk(r, o)' /\ BothAsk(o, r)'
  <2>1. BothAsk(r, o) /\ BothAsk(o, r)
    BY DEF Newest
  <2>2. CASE ~ Asked(r)'
    BY <2>2 DEF BothAsk
  <2>3. CASE Asked(r) /\ seen'[r].user = seen[r].user /\ seen'[r].during = seen[r].during
    BY <1>4, <2>1, <2>3 DEF BothAsk
  <2>4. CASE /\ call'[r].op = "requestReset" /\ seen'[r].user = seen[r].user
             /\ seen'[r].during = seen[r].during \cup Beside(Rivals(r))
             /\ \A q \in Rivals(r) : "rival" \in seen'[q].during
    <3>1. Asked(o) /\ seen[o].user = seen[r].user => o \in Rivals(r)
      BY DEF Asked, Rivals, Started, Firsts
    <3>2. o \in Rivals(r) => "rival" \in seen'[r].during
      BY <2>4 DEF Beside
    <3> QED
      BY <1>4, <2>4, <3>1, <3>2 DEF BothAsk
  <2> QED
    BY <1>1, <2>2, <2>3, <2>4, AskingStep
<1>6. ASSUME NEW o \in Requests, NEW l \in Rows(link)
      PROVE  AsksAfter(o, l)'
  <2>1. AsksAfter(o, l)
    BY DEF Newest
  <2>2. CASE o # r
    BY <1>2, <1>4, <2>1, <2>2 DEF AsksAfter
  <2>3. CASE o = r /\ ~ Asked(r)'
    BY <2>3 DEF AsksAfter
  <2>4. CASE /\ o = r /\ Statement(r)' = "findLinks" /\ ~ CoolingDown(seen[r].user)
             /\ seen'[r].user = seen[r].user /\ seen'[r].now = now
    <3>1. link[l].user = seen[r].user => ~ (now - link[l].created < Cooldown)
      BY <2>4 DEF CoolingDown, LinksTo
    <3>2. now \in Nat /\ link[l].created \in Nat /\ Cooldown \in Nat
      <4>1. link[l] \in Link
        BY <1>1, RowFields
      <4>2. now \in 0..MaxNow /\ MaxNow \in Nat
        BY <1>1, Constants DEF Typed, TypeOK
      <4> QED
        BY <4>1, <4>2, Constants DEF Link
    <3>3. link[l].user = seen[r].user => link[l].created + Cooldown <= now
      BY <3>1, <3>2
    <3> QED
      BY <1>2, <2>4, <3>3 DEF AsksAfter
  <2>5. CASE /\ o = r /\ Asked(r) /\ seen'[r].user = seen[r].user /\ seen'[r].now = seen[r].now
             /\ seen'[r].during = seen[r].during /\ Statement(r)' = "closeLinks"
             /\ seen'[r].doomed = {k \in LinksTo(seen[r].user) : ~ link[k].used}
    <3>1. link[l].user = seen[r].user => link[l].used \/ l \in seen'[r].doomed
      BY <2>5 DEF LinksTo
    <3> QED
      BY <1>2, <2>1, <2>5, <3>1 DEF AsksAfter
  <2>6. CASE /\ o = r /\ Asked(r) /\ seen'[r].user = seen[r].user /\ seen'[r].now = seen[r].now
             /\ seen'[r].during = seen[r].during
             /\ Statement(r)' = "saveLink" /\ Statement(r) = "closeLinks"
             /\ DOMAIN writes'[r].link = {k \in seen[r].doomed : ~ link[k].used}
    BY <1>2, <2>1, <2>6 DEF AsksAfter
  <2>7. CASE /\ o = r /\ Asked(r) /\ seen'[r].user = seen[r].user /\ seen'[r].now = seen[r].now
             /\ seen'[r].during = seen[r].during
             /\ Statement(r)' = "commit" /\ Statement(r) = "saveLink"
             /\ DOMAIN writes[r].link \subseteq DOMAIN writes'[r].link
    BY <1>2, <2>1, <2>7 DEF AsksAfter
  <2> QED
    BY <1>1, <2>2, <2>3, <2>4, <2>5, <2>6, <2>7, AskingStep
<1>7. \A o, q \in Requests : o # q => BothAsk(o, q)'
  <2> SUFFICES ASSUME NEW o \in Requests, NEW q \in Requests, o # q PROVE BothAsk(o, q)'
    OBVIOUS
  <2>1. CASE o = r \/ q = r
    BY <1>5, <2>1
  <2>2. CASE o # r /\ q # r
    <3>1. BothAsk(o, q)
      BY DEF Newest
    <3> QED
      BY <1>4, <2>2, <3>1 DEF BothAsk
  <2> QED
    BY <2>1, <2>2
<1> QED
  BY <1>2, <1>3, <1>6, <1>7 DEF Newest

LEMMA NewestCommit ==
  ASSUME Steady, Newest, NEW r \in Requests, Commit(r)
  PROVE  Newest'
<1>1. Base /\ Typed /\ Slot(r) /\ Started(r) /\ Statement(r) = "commit"
  BY CommitControl DEF Steady, Base
<1>2. /\ ~ Asked(r)'
      /\ \A o \in Requests \ {r} : /\ (Asked(o)' <=> Asked(o)) /\ seen'[o] = seen[o]
                                   /\ writes'[o] = writes[o] /\ Statement(o)' = Statement(o)
  BY <1>1, CommitControl DEF Asked
<1>3. \A l \in Rows(link) :
        /\ l \in Rows(link)' /\ link'[l].user = link[l].user /\ link'[l].created = link[l].created
        /\ link[l].during \subseteq link'[l].during
        /\ link[l].used \/ l \in DOMAIN writes[r].link <=> link'[l].used
  <2> SUFFICES ASSUME NEW l \in Rows(link)
               PROVE  /\ l \in Rows(link)' /\ link'[l].user = link[l].user
                      /\ link'[l].created = link[l].created
                      /\ link[l].during \subseteq link'[l].during
                      /\ link[l].used \/ l \in DOMAIN writes[r].link <=> link'[l].used
    OBVIOUS
  <2>1. link[l].used \in BOOLEAN
    BY <1>1, RowFields DEF Link
  <2>2. link'[l].used = (link[l].used \/ l \in DOMAIN writes[r].link)
    BY <1>1, LinkMoves
  <2>3. link[l].used \/ l \in DOMAIN writes[r].link <=> link'[l].used
    BY <2>1, <2>2
  <2>4. link[l].during \subseteq link'[l].during
    BY <1>1, LinkMoves
  <2> QED
    BY <1>1, <2>3, <2>4, LinkMoves
<1>4. ASSUME NEW l \in Rows(link)' \ Rows(link)
      PROVE  /\ Asked(r) /\ l \in DOMAIN writes[r].link /\ link'[l].user = seen[r].user
             /\ link'[l].created = seen[r].now /\ link'[l].during = seen[r].during
  BY <1>1, LinkMoves DEF Sends, Asked
<1>5. \A o, q \in Requests : o # q => BothAsk(o, q)'
  <2> SUFFICES ASSUME NEW o \in Requests, NEW q \in Requests, o # q PROVE BothAsk(o, q)'
    OBVIOUS
  <2>1. BothAsk(o, q)
    BY DEF Newest
  <2> QED
    BY <1>2, <2>1 DEF BothAsk
<1>6. ASSUME NEW o \in Requests, NEW l \in Rows(link)'
      PROVE  AsksAfter(o, l)'
  <2>1. CASE o = r
    BY <1>2, <2>1 DEF AsksAfter
  <2>2. CASE o # r /\ l \in Rows(link)
    <3>1. AsksAfter(o, l)
      BY <2>2 DEF Newest
    <3> QED
      BY <1>2, <1>3, <2>2, <3>1 DEF AsksAfter
  <2>3. CASE o # r /\ l \notin Rows(link)
    <3>1. BothAsk(o, r) /\ BothAsk(r, o)
      BY <2>3 DEF Newest
    <3> QED
      BY <1>2, <1>4, <1>6, <2>3, <3>1 DEF AsksAfter, BothAsk
  <2> QED
    BY <2>1, <2>2, <2>3
<1>7. ASSUME NEW l \in Rows(link)', NEW k \in Rows(link)', l # k
      PROVE  SentApart(l, k)'
  <2>1. CASE l \in Rows(link) /\ k \in Rows(link)
    <3>1. SentApart(l, k)
      BY <1>7, <2>1 DEF Newest
    <3> QED
      BY <1>3, <2>1, <3>1 DEF SentApart
  <2>2. ASSUME NEW x \in Rows(link)' \ Rows(link), NEW y \in Rows(link)
        PROVE  SentApart(x, y)' /\ SentApart(y, x)'
    <3>1. AsksAfter(r, y)
      BY DEF Newest
    <3> QED
      BY <1>1, <1>3, <1>4, <2>2, <3>1 DEF AsksAfter, SentApart
  <2>3. l \in Rows(link) \/ k \in Rows(link)
    BY <1>1, <1>4, <1>7 DEF Slot, LinkWrites
  <2> QED
    BY <1>7, <2>1, <2>2, <2>3
<1> QED
  BY <1>5, <1>6, <1>7 DEF Newest

LEMMA NewestStill ==
  ASSUME Newest, UNCHANGED <<database, mailed, call, todo, seen, writes, history>>
  PROVE  Newest'
<1>1. /\ link' = link /\ call' = call /\ seen' = seen /\ writes' = writes /\ Rows(link)' = Rows(link)
  BY DEF database, Rows
<1>2. \A r \in Requests : (Asked(r)' <=> Asked(r)) /\ Statement(r)' = Statement(r)
  BY AllStay DEF Asked
<1>3. \A r, o \in Requests : BothAsk(r, o) => BothAsk(r, o)'
  BY <1>1, <1>2 DEF BothAsk
<1>4. \A r \in Requests : \A l : AsksAfter(r, l) => AsksAfter(r, l)'
  BY <1>1, <1>2 DEF AsksAfter
<1>5. \A l, k : SentApart(l, k) => SentApart(l, k)'
  BY <1>1 DEF SentApart
<1> QED
  BY <1>1, <1>3, <1>4, <1>5 DEF Newest

\* PasswordService.requestReset ends the cooldown's links before it sends one:
\* of an account's links one works, and they are a cooldown apart, except for
\* links whose requests were under way at once.
THEOREM SessionsNewestLink == Spec => []OnlyTheNewestLinkWorks
<1>1. Init => Newest
  <2> SUFFICES ASSUME Init PROVE Newest
    OBVIOUS
  <2>1. \A r \in Requests : ~ Asked(r)
    BY DEF Init, Asked, Started, Busy
  <2>2. Rows(link) = {}
    BY DEF Init, Rows
  <2> QED
    BY <2>1, <2>2 DEF Newest, BothAsk
<1>2. Steady /\ Newest /\ [Next]_vars => Newest'
  BY NewestLocal, NewestCommit, NewestStill, StepsOfSlots
<1>3. Newest => OnlyTheNewestLinkWorks
  BY NewestWorks
<1> QED
  BY <1>1, <1>2, <1>3, SessionsSteady, PTL DEF Spec

-----------------------------------------------------------------------------
(* Circles of waiting calls.                                               *)

\* A row that o wrote or locked.
HasToken(o, t) == t \in DOMAIN writes[o].session \/ <<"session", t>> \in locked[o]
HasLink(o, l) == l \in DOMAIN writes[o].link \/ <<"link", l>> \in locked[o]

LEMMA WaitsReason ==
  ASSUME Base, NEW r \in Requests, NEW o \in Requests, WaitsFor(r, o)
  PROVE  /\ o # r
         /\ \/ /\ Statement(r) = "saveUser"
               /\ seen[r].user \in DOMAIN writes[o].account \/ seen[r].user \in Refers(o)
            \/ /\ Statement(r) = "insertUser" /\ call[o].op = "register"
               /\ DOMAIN writes[o].account # {}
            \/ Statement(r) = "revokeRead" /\ HasToken(o, call[r].token)
            \/ /\ Statement(r) = "closeSessions"
               /\ \E t \in seen[r].doomed : HasToken(o, t)
            \/ /\ Statement(r) = "closeLinks"
               /\ \E l \in seen[r].doomed : <<"link", l>> \notin locked[r] /\ HasLink(o, l)
            \/ Statement(r) \in {"saveSession", "saveLink"} /\ WaitsForUser(r, o)
<1>1. o # r /\ (Wants(r) \cap Holds(o) # {} \/ WaitsForUser(r, o))
  BY DEF WaitsFor
<1>2. CASE WaitsForUser(r, o)
  BY <1>1, <1>2 DEF WaitsForUser
<1>3. CASE Wants(r) \cap Holds(o) # {}
  <2> DEFINE email == IF call[o].op = "register" /\ DOMAIN writes[o].account # {}
                      THEN {call[o].email} ELSE {}
  <2>1. PICK x : /\ x \in Wants(r)
                 /\ x \in ({"user"} \X DOMAIN writes[o].account)
                          \cup ({"session"} \X DOMAIN writes[o].session)
                          \cup ({"link"} \X DOMAIN writes[o].link) \cup locked[o]
                          \cup ({"email"} \X email)
    BY <1>3 DEF Holds
  <2>2. locked[o] \subseteq {"session", "link"} \X Nat
    BY DEF Base, Typed
  <2>3. /\ \A u : x = <<"user", u>> => u \in DOMAIN writes[o].account
        /\ \A e : x = <<"email", e>> => email # {}
        /\ \A t : x = <<"session", t>> => HasToken(o, t)
        /\ \A l : x = <<"link", l>> => HasLink(o, l)
    BY <2>1, <2>2 DEF HasToken, HasLink
  <2>4. email # {} => call[o].op = "register" /\ DOMAIN writes[o].account # {}
    OBVIOUS
  <2> HIDE DEF email
  <2>5. CASE Statement(r) = "closeSessions"
    <3>1. x \in NextOf(r, "session")
      BY <2>1, <2>5 DEF Wants
    <3>2. \E t \in seen[r].doomed : x = <<"session", t>>
      BY <3>1, FirstLeft
    <3> QED
      BY <1>1, <2>3, <2>5, <3>2
  <2>6. CASE Statement(r) = "closeLinks"
    <3>1. x \in NextOf(r, "link")
      BY <2>1, <2>6 DEF Wants
    <3>2. \E l \in seen[r].doomed : x = <<"link", l>> /\ x \notin locked[r]
      BY <3>1, FirstLeft
    <3> QED
      BY <1>1, <2>3, <2>6, <3>2
  <2>7. CASE Statement(r) \in {"saveUser", "insertUser", "revokeRead"}
    BY <1>1, <2>1, <2>3, <2>4, <2>7 DEF Wants
  <2>8. Statement(r) \in {"saveUser", "insertUser", "revokeRead", "closeSessions", "closeLinks"}
    BY <2>1 DEF Wants
  <2> QED
    BY <2>5, <2>6, <2>7, <2>8
<1> QED
  BY <1>1, <1>2, <1>3

\* The user row comes first: a change that has not saved it holds no token.
UserFirst == \A r \in Requests : Statement(r) = "saveUser" => DOMAIN writes[r].session = {}

LEMMA UserFirstStep ==
  ASSUME Steady, UserFirst, [Next]_vars
  PROVE  UserFirst'
<1>1. CASE UNCHANGED <<database, mailed, call, todo, seen, writes, history>>
  BY <1>1, AllStay DEF UserFirst
<1>2. ASSUME NEW r \in Requests, Local(r)
      PROVE  UserFirst'
  <2>1. Base /\ Typed /\ Slot(r) /\ Quiet(r)
    BY <1>2, LocalStep DEF Steady, Base, Idle, Forward
  <2>2. \A o \in Requests \ {r} : Statement(o)' = "saveUser" => DOMAIN writes'[o].session = {}
    BY <2>1, OthersStay DEF UserFirst
  <2>3. DOMAIN NoWrites.session = {}
    BY DEF NoWrites
  <2>4. CASE Idle(r)
    BY <2>2, <2>3, <2>4 DEF Idle, UserFirst
  <2>5. CASE /\ Forward(r) /\ Statement(r)' = "saveUser"
             /\ FirstReadEffect(r) \/ LaterReadEffect(r) \/ WriteEffect(r)
    <3>1. After(call[r].op, Statement(r)) = "saveUser" /\ Statement(r) \in Statements
      BY <2>1, <2>5, ForwardControl, Placed DEF Slot, Forward, Statements
    <3>2. Statement(r) \in {"readUser", "readLink"}
      <4>1. Statement(r) \in {"readEmail", "readUser", "readSession", "readLink", "readLatest",
              "findSessions", "findLinks", "saveUser", "insertUser", "saveSession", "closeSessions",
              "closeLinks", "saveLink", "revokeRead", "commit"}
        BY <3>1 DEF Statements, StatementsOf, Ops
      <4> QED
        BY <3>1, <4>1 DEF After
    <3>3. writes[r] = NoWrites
      BY <2>1, <3>2 DEF Slot, Blank, Started, Firsts
    <3>4. writes' = writes
      BY <2>5, <3>2 DEF FirstReadEffect, LaterReadEffect, WriteEffect
    <3> QED
      BY <2>2, <2>3, <3>3, <3>4 DEF UserFirst
  <2>6. CASE Statement(r)' # "saveUser"
    BY <2>2, <2>6 DEF UserFirst
  <2> QED
    BY <1>2, <2>1, <2>4, <2>5, <2>6, Effects
<1>3. ASSUME NEW r \in Requests, Commit(r)
      PROVE  UserFirst'
  <2>1. DOMAIN NoWrites.session = {}
    BY DEF NoWrites
  <2>2. /\ writes'[r] = NoWrites
        /\ \A o \in Requests \ {r} : writes'[o] = writes[o] /\ Statement(o)' = Statement(o)
    BY <1>3, CommitControl DEF Steady
  <2> QED
    BY <2>1, <2>2 DEF UserFirst
<1> QED
  BY <1>1, <1>2, <1>3, StepsOfSlots

\* Two calls of a group that wait as the property allows: one inserts a row for a
\* user whom the other has saved.
Insertion(r, o) ==
  /\ call[r].op \in {"refresh", "requestReset"} /\ Changes(call[o].op)
  /\ seen[r].user = seen[o].user /\ WaitsForUser(r, o)

\* A call that inserts waits for a change of its user's password, no registration.
LEMMA InsertsWait ==
  ASSUME Base, NEW r \in Requests, NEW o \in Requests, Busy(r),
         Statement(r) \in {"saveSession", "saveLink"}, WaitsForUser(r, o)
  PROVE  call[r].op = "login" \/ Insertion(r, o)
<1>1. Typed /\ Slot(r) /\ Slot(o)
  BY DEF Base
<1>2. call[r].op \in {"login", "refresh", "requestReset"}
  BY <1>1, Who
<1>3. seen[r].user \in DOMAIN writes[o].account
  BY DEF WaitsForUser
<1>4. seen[r].user \in Rows(account)
  BY <1>1, <1>2 DEF Slot, Informed, Started, Firsts
<1>5. ~ Inserted(o)
  BY <1>1, <1>3, <1>4 DEF Slot, AccountWrites
<1>6. Saved(o) /\ DOMAIN writes[o].account = {seen[o].user}
  BY <1>1, <1>3, <1>5 DEF Slot, AccountWrites
<1> QED
  BY <1>2, <1>3, <1>6 DEF Insertion, Saved, Changer

\* Whom a waiting call keeps waiting: one that closes tokens or links, or one
\* that inserts what refers to a user another call is saving.
LEMMA WaitedFor ==
  ASSUME Base, UserFirst, NEW r \in Requests, NEW o \in Requests, NEW q \in Requests,
         WaitsFor(r, o), WaitsFor(o, q), ~ Insertion(o, q)
  PROVE  /\ Busy(o) /\ Started(o)
         /\ \/ Statement(o) = "closeSessions" /\ Saved(o)
            \/ Statement(o) = "closeLinks"
<1>1. Typed /\ Slot(o) /\ Slot(r)
  BY DEF Base
<1>2. Statement(o) \in {"saveUser", "insertUser", "revokeRead", "closeSessions", "closeLinks",
                        "saveSession", "saveLink"}
  BY WaitsReason
<1>3. Busy(o) /\ Started(o)
  <2>1. Busy(o)
    BY <1>1, <1>2, Placed DEF Slot
  <2> QED
    BY <1>2, <2>1 DEF Started, Firsts
<1>4. \/ DOMAIN writes[o].account # {} \/ DOMAIN writes[o].session # {}
      \/ DOMAIN writes[o].link # {}
      \/ \E t : <<"session", t>> \in locked[o]
      \/ \E l : <<"link", l>> \in locked[o]
  BY WaitsReason DEF HasToken, HasLink, Refers, WaitsForUser
<1>5. /\ Statement(o) = "saveUser" => Changer(o)
      /\ Statement(o) = "insertUser" => call[o].op = "register"
      /\ Statement(o) = "revokeRead" => Presents(o)
      /\ Statement(o) = "closeSessions" => Changer(o)
      /\ Statement(o) = "saveSession" => call[o].op \in {"login", "refresh"}
      /\ Statement(o) = "saveLink" => call[o].op = "requestReset"
  BY <1>1, <1>3, Who
<1>6. CASE Statement(o) \in {"saveUser", "insertUser", "revokeRead"} \/ call[o].op = "login"
  <2>1. DOMAIN writes[o].account = {}
    BY <1>1, <1>2, <1>5, <1>6 DEF Slot, AccountWrites, Saved, Inserted, Presents, Changer, Changes
  <2>2. DOMAIN writes[o].session = {}
    <3>1. CASE Statement(o) = "saveUser"
      BY <3>1 DEF UserFirst
    <3>2. CASE Statement(o) = "revokeRead"
      BY <1>1, <1>3, <1>5, <3>2 DEF Slot, SessionWrites
    <3>3. CASE Statement(o) = "insertUser" \/ call[o].op = "login"
      <4>1. \A t : ~ Issued(o, t) /\ ~ Revokes(o, t)
        BY <1>2, <1>5, <3>3 DEF Issued, Revokes, Presents, Changer, Changes
      <4> QED
        BY <1>1, <4>1 DEF Slot, SessionWrites
    <3> QED
      BY <1>6, <3>1, <3>2, <3>3
  <2>3. call[o].op # "login" => ~ PastLinks(o) /\ Statement(o) # "closeLinks"
    BY <1>6 DEF PastLinks
  <2>4. call[o].op = "login" => ~ PastLinks(o) /\ Statement(o) # "closeLinks"
    BY <1>1, <1>3, Who DEF PastLinks, Changer, Changes
  <2>5. DOMAIN writes[o].link = {} /\ \A l : <<"link", l>> \notin locked[o]
    BY <1>1, <2>3, <2>4 DEF Slot, LinkWrites, Locks
  <2>6. ~ Saved(o)
    BY <1>5, <1>6 DEF Saved, Presents, Changer, Changes
  <2>7. \A t : <<"session", t>> \notin locked[o]
    BY <1>1, <2>6 DEF Slot, Locks
  <2> QED
    BY <1>4, <2>1, <2>2, <2>5, <2>7
<1>7. CASE Statement(o) \in {"saveSession", "saveLink"} /\ call[o].op # "login"
  <2>1. WaitsForUser(o, q)
    BY <1>7, WaitsReason
  <2> QED
    BY <1>3, <1>7, <2>1, InsertsWait
<1>8. Statement(o) = "closeSessions" => Saved(o)
  BY <1>3, <1>5 DEF Saved
<1> QED
  BY <1>2, <1>3, <1>6, <1>7, <1>8

\* A set of numbers up to a bound has a greatest one.
LEMMA NoEndlessRise ==
  ASSUME NEW N \in Nat, NEW S \in SUBSET (1..N), S # {}
  PROVE  \E x \in S : \A y \in S : ~ (x < y)
<1> DEFINE T == {N - x : x \in S}
           less == OpToRel(<, Nat)
<1>1. T \subseteq Nat /\ T # {}
  <2>1. \A x \in S : N - x \in Nat
    OBVIOUS
  <2> QED
    BY <2>1
<1>2. IsWellFoundedOn(less, Nat)
  BY NatLessThanWellFounded
<1>3. \E i \in T : \A j \in T : ~ (<<j, i>> \in less)
  <2> HIDE DEF T, less
  <2> QED
    BY <1>1, <1>2, WFMin
<1>4. \E i \in T : \A j \in T : ~ (j < i)
  <2> HIDE DEF T
  <2> QED
    BY <1>1, <1>3 DEF OpToRel
<1>5. PICK x \in S : \A j \in T : ~ (j < N - x)
  BY <1>4
<1>6. \A y \in S : N - y \in T /\ y \in Nat /\ y <= N
  OBVIOUS
<1> HIDE DEF T
<1>7. ASSUME NEW y \in S, x < y PROVE FALSE
  <2>1. ~ (N - y < N - x)
    BY <1>5, <1>6
  <2> QED
    BY <1>6, <1>7, <2>1
<1> QED
  BY <1>5, <1>7

\* Of two calls that close, the one that closes tokens waits for none that closes.
LEMMA TokensWaitForNone ==
  ASSUME Base, NEW o \in Requests, NEW q \in Requests, WaitsFor(o, q),
         Statement(o) = "closeSessions", Saved(o),
         Started(q), Statement(q) \in {"closeSessions", "closeLinks"}
  PROVE  FALSE
<1>1. Typed /\ Slot(o) /\ Slot(q) /\ o # q /\ Apart(o, q)
  BY WaitsReason DEF Base, Exclusive
<1>2. PICK t \in seen[o].doomed : HasToken(q, t)
  BY WaitsReason
<1>3. t \in Rows(session) /\ session[t].user = seen[o].user
  BY <1>1 DEF Slot, SessionWrites
<1>4. Saved(q) /\ session[t].user = seen[q].user
  <2>1. CASE t \in DOMAIN writes[q].session
    <3>1. Revokes(q, t)
      BY <1>1, <1>3, <2>1 DEF Slot, SessionWrites, Issued
    <3>2. ~ Presents(q)
      BY <1>1, Who DEF Started, Presents, Changer, Changes
    <3> QED
      BY <3>1, <3>2 DEF Revokes, Saved
  <2>2. CASE <<"session", t>> \in locked[q]
    BY <1>1, <2>2 DEF Slot, Locks
  <2> QED
    BY <1>2, <2>1, <2>2 DEF HasToken
<1>5. seen[o].user \in DOMAIN writes[o].account /\ seen[o].user \in DOMAIN writes[q].account
  BY <1>1, <1>3, <1>4 DEF Slot, AccountWrites
<1> QED
  BY <1>1, <1>5 DEF Apart

\* Of two calls that close links, the one waited for waits for a later link.
LEMMA LinksWaitUpwards ==
  ASSUME Base, NEW o \in Requests, NEW q \in Requests,
         Statement(o) = "closeLinks", Statement(q) = "closeLinks",
         NEW l \in seen[o].doomed, HasLink(q, l),
         NEW k \in seen[q].doomed, <<"link", k>> \notin locked[q]
  PROVE  l < k
<1>1. Slot(q)
  BY DEF Base
<1>2. DOMAIN writes[q].link = {}
  BY <1>1 DEF Slot, LinkWrites, PastLinks
<1>3. <<"link", l>> \in locked[q]
  BY <1>2 DEF HasLink
<1> QED
  BY <1>1, <1>3 DEF Slot, Locks

LEMMA NoOtherCircle ==
  ASSUME Base, UserFirst
  PROVE  OnlyInsertsWaitInACircle
<1> SUFFICES ASSUME NEW group \in (SUBSET Requests) \ {{}},
                    \A r \in group : \E o \in group : WaitsFor(r, o),
                    \A r, o \in group : ~ Insertion(r, o)
             PROVE  FALSE
  BY DEF OnlyInsertsWaitInACircle, Insertion
<1> DEFINE held == {o \in group : \E r \in group : WaitsFor(r, o)}
<1>1. /\ held \subseteq Requests /\ held # {}
      /\ \A o \in held : \E q \in held : WaitsFor(o, q)
  OBVIOUS
<1>2. \A o \in held : /\ Busy(o) /\ Started(o)
                     /\ \/ Statement(o) = "closeSessions" /\ Saved(o)
                        \/ Statement(o) = "closeLinks"
  <2> SUFFICES ASSUME NEW o \in held
               PROVE  /\ Busy(o) /\ Started(o)
                      /\ \/ Statement(o) = "closeSessions" /\ Saved(o)
                         \/ Statement(o) = "closeLinks"
    OBVIOUS
  <2>1. PICK r \in group, q \in group : WaitsFor(r, o) /\ WaitsFor(o, q)
    OBVIOUS
  <2>2. r \in Requests /\ o \in Requests /\ q \in Requests /\ ~ Insertion(o, q)
    OBVIOUS
  <2> QED
    BY <2>1, <2>2, WaitedFor
<1> HIDE DEF held
<1>3. \A o \in held : Statement(o) = "closeLinks"
  BY <1>1, <1>2, TokensWaitForNone
<1> DEFINE wanted == {l \in Links : \E o, q \in held :
                        l \in seen[o].doomed /\ <<"link", l>> \notin locked[o] /\ HasLink(q, l)}
<1>4. \A o \in held : seen[o].doomed \subseteq Links
  <2>1. Rows(link) \subseteq Links
    BY RowFields DEF Base
  <2> QED
    BY <1>1, <1>3, <2>1 DEF Base, Slot, LinkWrites
<1>5. \A o \in held : \E q \in held : \E l \in seen[o].doomed :
        <<"link", l>> \notin locked[o] /\ HasLink(q, l)
  BY <1>1, <1>3, WaitsReason
<1>6. wanted # {} /\ wanted \in SUBSET (1..MaxLinks)
  BY <1>1, <1>4, <1>5 DEF Links
<1>7. \A l \in wanted : \E k \in wanted : l < k
  <2> SUFFICES ASSUME NEW l \in wanted PROVE \E k \in wanted : l < k
    OBVIOUS
  <2>1. PICK o \in held, q \in held : l \in seen[o].doomed /\ HasLink(q, l)
    OBVIOUS
  <2>2. PICK p \in held, k \in seen[q].doomed : <<"link", k>> \notin locked[q] /\ HasLink(p, k)
    BY <1>5
  <2>3. k \in wanted
    BY <1>4, <2>2
  <2>4. l < k
    BY <1>1, <1>3, <2>1, <2>2, LinksWaitUpwards
  <2> QED
    BY <2>3, <2>4
<1> HIDE DEF wanted
<1>8. MaxLinks \in Nat
  BY Constants
<1> QED
  BY <1>6, <1>7, <1>8, NoEndlessRise

\* Calls wait in a circle only where a refresh or a request for a link inserts
\* what refers to the user a change of password saved, and holds what the change
\* closes; PasswordService's two changes close tokens and links in opposite
\* orders, but have saved the user first, and links are closed in one order.
THEOREM SessionsOnlyInsertsCircle == Spec => []OnlyInsertsWaitInACircle
<1>1. Init => UserFirst
  <2> SUFFICES ASSUME Init PROVE UserFirst
    OBVIOUS
  <2>1. \A r \in Requests : DOMAIN writes[r].session = {}
    BY DEF Init, NoWrites
  <2> QED
    BY <2>1 DEF UserFirst
<1>2. Steady /\ UserFirst /\ [Next]_vars => UserFirst'
  BY UserFirstStep
<1>3. Steady /\ UserFirst => OnlyInsertsWaitInACircle
  BY NoOtherCircle DEF Steady
<1> QED
  BY <1>1, <1>2, <1>3, SessionsSteady, PTL DEF Spec

-----------------------------------------------------------------------------
(* Nothing outlives the password.                                          *)

Issuer(r) == Issues(call[r].op, "sessions") \/ Issues(call[r].op, "links")
SweptFor(r, kind) == Changer(r) /\ kind \in seen[r].swept

\* How far a change of password is.
Progress(r) ==
  Started(r) =>
    /\ call[r].op = "changePassword" =>
         /\ Statement(r) \in {"closeSessions", "findLinks", "closeLinks", "commit"} =>
              "sessions" \in seen[r].swept
         /\ Statement(r) \in {"closeLinks", "commit"} => "links" \in seen[r].swept
    /\ call[r].op = "resetPassword" =>
         /\ Statement(r) \in {"closeLinks", "findSessions", "closeSessions", "commit"} =>
              "links" \in seen[r].swept
         /\ Statement(r) \in {"closeSessions", "commit"} => "sessions" \in seen[r].swept

\* Who issues while a change of the same account has looked knows of it.
Warned(r, o) ==
  \A kind \in {"sessions", "links"} :
    SweptFor(r, kind) /\ Issues(call[o].op, kind) /\ Started(o) /\ seen[o].user = seen[r].user =>
      "change" \in seen[o].during

\* Who does not, goes by the password the account has.
Fresh(o) ==
  Started(o) /\ Issuer(o) =>
    "change" \in seen[o].during \/ seen[o].row.secret = account[seen[o].user].secret

\* What a change has looked for, it closes.
ClosesToken(r, t) ==
  /\ Started(r) /\ SweptFor(r, "sessions")
  /\ session[t].user = seen[r].user /\ ~ session[t].revoked
  => \/ Kept(r, t)
     \/ "change" \in session[t].during
     \/ IF Statement(r) = "closeSessions" THEN t \in seen[r].doomed ELSE t \in DOMAIN writes[r].session
ClosesLink(r, l) ==
  /\ Started(r) /\ SweptFor(r, "links")
  /\ link[l].user = seen[r].user /\ ~ link[l].used
  => \/ "change" \in link[l].during
     \/ IF Statement(r) = "closeLinks" THEN l \in seen[r].doomed ELSE l \in DOMAIN writes[r].link

TokenUpToDate(t) ==
  ~ session[t].revoked =>
    "change" \in session[t].during \/ session[t].secret = account[session[t].user].secret
LinkUpToDate(l) ==
  ~ link[l].used =>
    "change" \in link[l].during \/ link[l].secret = account[link[l].user].secret

Passwords ==
  /\ \A r \in Requests : Progress(r) /\ Fresh(r)
  /\ \A r, o \in Requests : Warned(r, o)
  /\ \A r \in Requests, t \in Rows(session) : ClosesToken(r, t)
  /\ \A r \in Requests, l \in Rows(link) : ClosesLink(r, l)
  /\ \A t \in Rows(session) : TokenUpToDate(t)
  /\ \A l \in Rows(link) : LinkUpToDate(l)

LEMMA PasswordsCover ==
  ASSUME Passwords
  PROVE  NothingOutlivesThePassword
BY DEF Passwords, TokenUpToDate, LinkUpToDate, NothingOutlivesThePassword, Active, Usable

\* What an issuing call knows after its own step.
LEMMA IssuerStep ==
  ASSUME Base, NEW r \in Requests, Local(r), Started(r)', Issuer(r)'
  PROVE  /\ call'[r] = call[r]
         /\ \/ /\ Started(r) /\ seen'[r].user = seen[r].user /\ seen'[r].row = seen[r].row
               /\ seen[r].during \subseteq seen'[r].during
            \/ /\ \A kind \in {"sessions", "links"} :
                    Issues(call[r].op, kind) => Amid(seen'[r].user, kind) \subseteq seen'[r].during
               /\ \/ seen'[r].user \in Rows(account) /\ seen'[r].row = account[seen'[r].user]
                  \/ \E t \in Rows(session) :
                       /\ ~ session[t].revoked /\ seen'[r].row = session[t]
                       /\ seen'[r].user = session[t].user /\ session[t].during \subseteq seen'[r].during
<1>1. /\ Typed /\ Slot(r) /\ Forward(r) /\ Busy(r)
      /\ FirstReadEffect(r) \/ LaterReadEffect(r) \/ WriteEffect(r)
  BY Effects DEF Base, Idle, Forward
<1>2. call'[r] = call[r]
  BY <1>1 DEF Forward
<1>3. call[r].op \in {"login", "refresh", "requestReset"}
  BY <1>2 DEF Issuer, Issues
<1>4. CASE FirstReadEffect(r)
  <2>1. CASE Statement(r) = "readEmail" /\ call[r].op \in {"login", "requestReset"}
    <3>1. PICK u \in Rows(account) :
            /\ seen'[r].user = u /\ seen'[r].row = account[u]
            /\ seen'[r].during = Amid(u, IF call[r].op = "login" THEN "sessions" ELSE "links")
      BY <1>4, <2>1 DEF FirstReadEffect
    <3> QED
      BY <1>2, <2>1, <3>1 DEF Issues
  <2>2. CASE Statement(r) = "readSession" /\ Presents(r)
    <3>1. PICK t : t = call[r].token
      OBVIOUS
    <3>2. /\ ~ session[t].revoked /\ seen'[r].row = session[t] /\ seen'[r].user = session[t].user
          /\ seen'[r].during = session[t].during \cup Amid(seen'[r].user, "sessions")
      BY <1>4, <2>2, <3>1 DEF FirstReadEffect
    <3>3. t \in Rows(session)
      BY <1>1, <2>2, <3>1 DEF Slot, Given
    <3> QED
      BY <1>2, <2>2, <3>2, <3>3 DEF Issues, Presents
  <2> QED
    BY <1>3, <1>4, <2>1, <2>2 DEF FirstReadEffect
<1>5. CASE LaterReadEffect(r) \/ WriteEffect(r)
  <2>1. Started(r)
    BY <1>1, <1>5 DEF LaterReadEffect, WriteEffect, Started, Firsts
  <2>2. /\ seen'[r].user = seen[r].user /\ seen'[r].row = seen[r].row
        /\ seen[r].during \subseteq seen'[r].during
    BY <1>5 DEF LaterReadEffect, WriteEffect, Keeps
  <2> QED
    BY <1>2, <2>1, <2>2
<1> QED
  BY <1>1, <1>4, <1>5

\* How far a change of password is after its own step.
LEMMA ChangerStep ==
  ASSUME Base, NEW r \in Requests, Local(r), Started(r)', Changer(r)'
  PROVE  /\ call'[r] = call[r] /\ Changer(r)
         /\ \/ Statement(r)' = "saveUser" /\ seen'[r].swept = {}
            \/ /\ Started(r) /\ seen'[r].user = seen[r].user
               /\ Statement(r)' = After(call[r].op, Statement(r))
               /\ \/ /\ Statement(r) = "saveUser" /\ seen'[r].swept = seen[r].swept
                     /\ writes'[r].session = writes[r].session /\ writes'[r].link = writes[r].link
                  \/ /\ Statement(r) = "findSessions" /\ seen'[r].swept = seen[r].swept \cup {"sessions"}
                     /\ seen'[r].doomed = SessionsToClose(r) /\ writes' = writes
                  \/ /\ Statement(r) = "findLinks" /\ seen'[r].swept = seen[r].swept \cup {"links"}
                     /\ seen'[r].doomed = {l \in LinksTo(seen[r].user) : ~ link[l].used} /\ writes' = writes
                  \/ /\ Statement(r) = "closeSessions" /\ seen'[r].swept = seen[r].swept
                     /\ writes'[r].link = writes[r].link
                     /\ \A t \in Rows(session) :
                          t \in DOMAIN writes'[r].session <=>
                            t \in DOMAIN writes[r].session \/ (t \in seen[r].doomed /\ ~ session[t].revoked)
                  \/ /\ Statement(r) = "closeLinks" /\ seen'[r].swept = seen[r].swept
                     /\ writes'[r].session = writes[r].session
                     /\ DOMAIN writes'[r].link = {l \in seen[r].doomed : ~ link[l].used}
         /\ \A kind \in seen'[r].swept \ seen[r].swept : \A o \in Requests \ {r} :
              seen[o].user = seen[r].user /\ Issues(call[o].op, kind) => "change" \in seen'[o].during
<1>1. /\ Typed /\ Slot(r) /\ Forward(r) /\ Busy(r) /\ (Changer(r)' <=> Changer(r))
      /\ Statement(r)' = After(call[r].op, Statement(r))
      /\ FirstReadEffect(r) \/ LaterReadEffect(r) \/ WriteEffect(r)
  BY Effects, ForwardControl DEF Base, Idle, Forward
<1>2. call'[r] = call[r] /\ Changer(r) /\ call[r].op \in {"changePassword", "resetPassword"}
  BY <1>1 DEF Forward, Changer, Changes
<1>3. CASE FirstReadEffect(r)
  <2>1. Statement(r) \in {"readUser", "readLink"}
    BY <1>2, <1>3 DEF FirstReadEffect, Presents
  <2>2. Statement(r)' = "saveUser"
    BY <1>1, <2>1 DEF After
  <2>3. seen'[r].swept = {} /\ seen[r].swept = {}
    BY <1>3 DEF FirstReadEffect, Keeps, NothingSeen
  <2> QED
    BY <1>2, <2>2, <2>3
<1>4. CASE LaterReadEffect(r)
  <2>1. Statement(r) \in {"findSessions", "findLinks"} /\ Started(r) /\ writes' = writes
    BY <1>1, <1>2, <1>4 DEF LaterReadEffect, Started, Firsts
  <2>2. CASE Statement(r) = "findSessions"
    BY <1>1, <1>2, <1>4, <2>1, <2>2 DEF LaterReadEffect, Keeps
  <2>3. CASE Statement(r) = "findLinks"
    BY <1>1, <1>2, <1>4, <2>1, <2>3 DEF LaterReadEffect, Keeps
  <2> QED
    BY <2>1, <2>2, <2>3
<1>5. CASE WriteEffect(r)
  <2>1. Started(r)
    BY <1>1, <1>5 DEF WriteEffect, Started, Firsts
  <2>2. /\ seen' = seen
        /\ Statement(r) \in {"saveUser", "closeSessions", "closeLinks"}
    BY <1>2, <1>5 DEF WriteEffect, Presents
  <2>3. CASE Statement(r) = "saveUser"
    BY <1>1, <1>2, <1>5, <2>1, <2>2, <2>3 DEF WriteEffect
  <2>4. CASE Statement(r) = "closeSessions"
    BY <1>1, <1>2, <1>5, <2>1, <2>2, <2>4 DEF WriteEffect
  <2>5. CASE Statement(r) = "closeLinks"
    BY <1>1, <1>2, <1>5, <2>1, <2>2, <2>5 DEF WriteEffect
  <2> QED
    BY <2>2, <2>3, <2>4, <2>5
<1> QED
  BY <1>1, <1>3, <1>4, <1>5

LEMMA PasswordsLocal ==
  ASSUME Steady, Passwords, NEW r \in Requests, Local(r)
  PROVE  Passwords'
<1>1. Base /\ Typed
  BY DEF Steady, Base
<1>2. /\ Quiet(r) /\ account' = account /\ session' = session /\ link' = link
      /\ Rows(session)' = Rows(session) /\ Rows(link)' = Rows(link)
  BY <1>1, LocalStep DEF Idle, Forward, Quiet, database, Rows
<1>3. \A o \in Requests \ {r} :
        /\ call'[o] = call[o] /\ Statement(o)' = Statement(o) /\ (Started(o)' <=> Started(o))
        /\ (Issuer(o)' <=> Issuer(o)) /\ (Changer(o)' <=> Changer(o))
        /\ writes'[o] = writes[o] /\ seen[o].during \subseteq seen'[o].during
        /\ seen'[o].user = seen[o].user /\ seen'[o].row = seen[o].row
        /\ seen'[o].doomed = seen[o].doomed /\ seen'[o].swept = seen[o].swept
        /\ \A kind : SweptFor(o, kind)' <=> SweptFor(o, kind)
  BY <1>2, OthersStay DEF Issuer, Changer, SweptFor
<1>4. ~ Started(r)' => seen'[r].swept = {}
  <2>1. CASE Idle(r)
    BY <2>1 DEF Idle, NothingSeen
  <2>2. CASE Forward(r)
    BY <1>1, <2>2, ForwardControl
  <2> QED
    BY <1>1, <2>1, <2>2, LocalStep
<1>5. Progress(r)'
  <2>1. CASE ~ Started(r)' \/ ~ Changer(r)'
    BY <2>1 DEF Progress, Changer, Changes
  <2>2. CASE Started(r)' /\ Changer(r)' /\ Statement(r)' = "saveUser"
    BY <2>2 DEF Progress
  <2>3. CASE Started(r)' /\ Changer(r)' /\ Statement(r)' # "saveUser"
    <3>1. /\ call'[r] = call[r] /\ Changer(r) /\ Started(r)
          /\ Statement(r)' = After(call[r].op, Statement(r))
          /\ \/ Statement(r) \in {"saveUser", "closeSessions", "closeLinks"} /\ seen'[r].swept = seen[r].swept
             \/ Statement(r) = "findSessions" /\ seen'[r].swept = seen[r].swept \cup {"sessions"}
             \/ Statement(r) = "findLinks" /\ seen'[r].swept = seen[r].swept \cup {"links"}
      BY <1>1, <2>3, ChangerStep
    <3>2. Progress(r)
      BY DEF Passwords
    <3>3. CASE call[r].op = "changePassword"
      BY <3>1, <3>2, <3>3 DEF Progress, After
    <3>4. CASE call[r].op = "resetPassword"
      BY <3>1, <3>2, <3>4 DEF Progress, After
    <3> QED
      BY <3>1, <3>3, <3>4 DEF Changer, Changes
  <2> QED
    BY <2>1, <2>2, <2>3
<1>6. Fresh(r)'
  <2> SUFFICES ASSUME Started(r)', Issuer(r)'
               PROVE  "change" \in seen'[r].during \/ seen'[r].row.secret = account[seen'[r].user].secret
    BY <1>2 DEF Fresh
  <2>1. CASE /\ call'[r] = call[r] /\ Started(r) /\ seen'[r].user = seen[r].user
             /\ seen'[r].row = seen[r].row /\ seen[r].during \subseteq seen'[r].during
    BY <2>1 DEF Passwords, Fresh, Issuer
  <2>2. CASE seen'[r].row = account[seen'[r].user]
    BY <2>2
  <2>3. CASE \E t \in Rows(session) :
               /\ ~ session[t].revoked /\ seen'[r].row = session[t]
               /\ seen'[r].user = session[t].user /\ session[t].during \subseteq seen'[r].during
    <3>1. PICK t \in Rows(session) :
            /\ ~ session[t].revoked /\ seen'[r].row = session[t]
            /\ seen'[r].user = session[t].user /\ session[t].during \subseteq seen'[r].during
      BY <2>3
    <3>2. TokenUpToDate(t)
      BY DEF Passwords
    <3> QED
      BY <3>1, <3>2 DEF TokenUpToDate
  <2> QED
    BY <1>1, <2>1, <2>2, <2>3, IssuerStep
<1>7. \A o \in Requests : Progress(o)' /\ Fresh(o)'
  <2> SUFFICES ASSUME NEW o \in Requests \ {r} PROVE Progress(o)' /\ Fresh(o)'
    BY <1>5, <1>6
  <2>1. Progress(o) /\ Fresh(o)
    BY DEF Passwords
  <2> QED
    BY <1>2, <1>3, <2>1 DEF Progress, Fresh
<1>8. ASSUME NEW o \in Requests, NEW q \in Requests
      PROVE  Warned(o, q)'
  <2> SUFFICES ASSUME NEW kind \in {"sessions", "links"}, SweptFor(o, kind)',
                      Issues(call'[q].op, kind), Started(q)', seen'[q].user = seen'[o].user
               PROVE  "change" \in seen'[q].during
    BY DEF Warned
  <2>1. Warned(o, q)
    BY DEF Passwords
  <2>2. CASE o # r /\ q # r
    BY <1>3, <2>1, <2>2 DEF Warned
  <2>3. CASE o # r /\ q = r
    <3>1. Issuer(r)' /\ Started(r)' /\ SweptFor(o, kind) /\ seen'[q].user = seen[o].user
      BY <1>3, <2>3 DEF Issuer
    <3>2. CASE /\ call'[r] = call[r] /\ Started(r) /\ seen'[r].user = seen[r].user
               /\ seen[r].during \subseteq seen'[r].during
      BY <2>1, <2>3, <3>1, <3>2 DEF Warned
    <3>3. CASE call'[r] = call[r] /\ Amid(seen'[r].user, kind) \subseteq seen'[r].during
      <4>1. Sweeping(seen'[r].user, kind)
        BY <2>3, <3>1 DEF Sweeping, SweptFor, Changer
      <4> QED
        BY <2>3, <3>3, <4>1 DEF Amid
    <3> QED
      BY <1>1, <2>3, <3>1, <3>2, <3>3, IssuerStep
  <2>4. CASE o = r /\ q # r
    <3>1. Started(r)' /\ Changer(r)' /\ kind \in seen'[r].swept /\ Started(q)
      BY <1>3, <1>4, <2>4 DEF SweptFor
    <3>2. /\ Changer(r) /\ seen'[r].user = seen[r].user
          /\ kind \notin seen[r].swept =>
               (seen[q].user = seen[r].user /\ Issues(call[q].op, kind) => "change" \in seen'[q].during)
      BY <1>1, <2>4, <3>1, ChangerStep
    <3>3. seen[q].user = seen[r].user /\ Issues(call[q].op, kind)
      BY <1>3, <2>4, <3>2
    <3>4. CASE kind \in seen[r].swept
      <4>1. "change" \in seen[q].during
        BY <2>1, <2>4, <3>1, <3>2, <3>3, <3>4 DEF Warned, SweptFor
      <4> QED
        BY <1>3, <2>4, <4>1
    <3> QED
      BY <3>2, <3>3, <3>4
  <2>5. CASE o = r /\ q = r
    BY <2>5 DEF SweptFor, Changer, Changes, Issues
  <2> QED
    BY <2>2, <2>3, <2>4, <2>5
<1>9. ASSUME NEW o \in Requests, NEW t \in Rows(session)
      PROVE  ClosesToken(o, t)'
  <2>1. ClosesToken(o, t)
    BY DEF Passwords
  <2>2. CASE o # r
    <3>1. Kept(o, t)' <=> Kept(o, t)
      BY <1>3, <2>2 DEF Kept
    <3> QED
      BY <1>2, <1>3, <2>1, <2>2, <3>1 DEF ClosesToken
  <2>3. CASE o = r
    <3> SUFFICES ASSUME Started(r)', Changer(r)', "sessions" \in seen'[r].swept,
                        session[t].user = seen'[r].user, ~ session[t].revoked
                 PROVE  \/ Kept(r, t)'
                        \/ "change" \in session[t].during
                        \/ IF Statement(r)' = "closeSessions" THEN t \in seen'[r].doomed
                           ELSE t \in DOMAIN writes'[r].session
      BY <1>2, <2>3 DEF ClosesToken, SweptFor
    <3>1. /\ call'[r] = call[r] /\ Changer(r) /\ Started(r) /\ seen'[r].user = seen[r].user
          /\ Statement(r)' = After(call[r].op, Statement(r))
      BY <1>1, ChangerStep
    <3>2. Kept(r, t)' <=> Kept(r, t)
      BY <3>1 DEF Kept
    <3>3. CASE Statement(r) = "findSessions"
      <4>1. seen'[r].doomed = SessionsToClose(r) /\ Statement(r)' = "closeSessions"
        BY <1>1, <3>1, <3>3, ChangerStep DEF After
      <4> QED
        BY <3>1, <3>2, <4>1 DEF SessionsToClose, Kept
    <3>4. CASE Statement(r) = "closeSessions"
      <4>1. /\ seen'[r].swept = seen[r].swept /\ Statement(r)' # "closeSessions"
            /\ t \in DOMAIN writes'[r].session <=>
                 t \in DOMAIN writes[r].session \/ (t \in seen[r].doomed /\ ~ session[t].revoked)
        BY <1>1, <3>1, <3>4, ChangerStep DEF After
      <4> QED
        BY <2>1, <2>3, <3>1, <3>2, <3>4, <4>1 DEF ClosesToken, SweptFor
    <3>5. CASE Statement(r) \in {"saveUser", "findLinks", "closeLinks"}
      <4>1. /\ "sessions" \in seen[r].swept /\ Statement(r)' # "closeSessions"
            /\ writes'[r].session = writes[r].session
        BY <1>1, <3>1, <3>5, ChangerStep DEF After
      <4> QED
        BY <2>1, <2>3, <3>1, <3>2, <3>5, <4>1 DEF ClosesToken, SweptFor
    <3> QED
      BY <1>1, <3>3, <3>4, <3>5, ChangerStep
  <2> QED
    BY <2>2, <2>3
<1>10. ASSUME NEW o \in Requests, NEW l \in Rows(link)
       PROVE  ClosesLink(o, l)'
  <2>1. ClosesLink(o, l)
    BY DEF Passwords
  <2>2. CASE o # r
    BY <1>2, <1>3, <2>1, <2>2 DEF ClosesLink
  <2>3. CASE o = r
    <3> SUFFICES ASSUME Started(r)', Changer(r)', "links" \in seen'[r].swept,
                        link[l].user = seen'[r].user, ~ link[l].used
                 PROVE  \/ "change" \in link[l].during
                        \/ IF Statement(r)' = "closeLinks" THEN l \in seen'[r].doomed
                           ELSE l \in DOMAIN writes'[r].link
      BY <1>2, <2>3 DEF ClosesLink, SweptFor
    <3>1. /\ call'[r] = call[r] /\ Changer(r) /\ Started(r) /\ seen'[r].user = seen[r].user
          /\ Statement(r)' = After(call[r].op, Statement(r))
      BY <1>1, ChangerStep
    <3>2. CASE Statement(r) = "findLinks"
      <4>1. /\ seen'[r].doomed = {k \in LinksTo(seen[r].user) : ~ link[k].used}
            /\ Statement(r)' = "closeLinks"
        BY <1>1, <3>1, <3>2, ChangerStep DEF After
      <4> QED
        BY <3>1, <4>1 DEF LinksTo
    <3>3. CASE Statement(r) = "closeLinks"
      <4>1. /\ seen'[r].swept = seen[r].swept /\ Statement(r)' # "closeLinks"
            /\ DOMAIN writes'[r].link = {k \in seen[r].doomed : ~ link[k].used}
        BY <1>1, <3>1, <3>3, ChangerStep DEF After
      <4> QED
        BY <2>1, <2>3, <3>1, <3>3, <4>1 DEF ClosesLink, SweptFor
    <3>4. CASE Statement(r) \in {"saveUser", "findSessions", "closeSessions"}
      <4>1. /\ "links" \in seen[r].swept /\ Statement(r)' # "closeLinks"
            /\ writes'[r].link = writes[r].link
        BY <1>1, <3>1, <3>4, ChangerStep DEF After
      <4> QED
        BY <2>1, <2>3, <3>1, <3>4, <4>1 DEF ClosesLink, SweptFor
    <3> QED
      BY <1>1, <3>2, <3>3, <3>4, ChangerStep
  <2> QED
    BY <2>2, <2>3
<1>11. /\ \A t \in Rows(session) : TokenUpToDate(t)'
       /\ \A l \in Rows(link) : LinkUpToDate(l)'
  BY <1>2 DEF Passwords, TokenUpToDate, LinkUpToDate
<1> QED
  BY <1>2, <1>7, <1>8, <1>9, <1>10, <1>11 DEF Passwords

LEMMA PasswordsCommit ==
  ASSUME Steady, Passwords, NEW r \in Requests, Commit(r)
  PROVE  Passwords'
<1>1. /\ Base /\ Typed /\ Slot(r) /\ Grounded /\ Started(r) /\ Statement(r) = "commit"
      /\ ~ Started(r)' /\ seen'[r].swept = {}
  BY CommitControl DEF Steady, Base, NothingSeen
<1>2. \A o \in Requests \ {r} :
        /\ call'[o] = call[o] /\ Statement(o)' = Statement(o) /\ (Started(o)' <=> Started(o))
        /\ (Issuer(o)' <=> Issuer(o)) /\ (Changer(o)' <=> Changer(o))
        /\ writes'[o] = writes[o] /\ seen'[o] = seen[o]
        /\ \A kind : SweptFor(o, kind)' <=> SweptFor(o, kind)
  BY <1>1, CommitControl DEF Issuer, Changer, SweptFor
\* What the commit of a change of password meets.
<1>3. Changer(r) => SweptFor(r, "sessions") /\ SweptFor(r, "links")
  BY <1>1 DEF Passwords, Progress, SweptFor, Changer, Changes
<1>4. \A u \in Rows(account) :
        account'[u].secret = IF Changer(r) /\ u = seen[r].user THEN call[r].new ELSE account[u].secret
  BY <1>1, AccountMoves
\* What it leaves of the rows that are still good.
<1>5. ASSUME NEW t \in Rows(session), ~ session'[t].revoked
      PROVE  /\ ~ session[t].revoked /\ t \notin DOMAIN writes[r].session
             /\ session'[t].user = session[t].user /\ session'[t].during = session[t].during
             /\ session'[t].secret = IF Kept(r, t) /\ session[t].user = call[r].user
                                     THEN call[r].new ELSE session[t].secret
  <2>1. session'[t].revoked = (session[t].revoked \/ t \in DOMAIN writes[r].session)
    BY <1>1, SessionMoves
  <2> QED
    BY <1>1, <1>5, <2>1, SessionMoves
<1>6. ASSUME NEW t \in Rows(session)' \ Rows(session)
      PROVE  /\ Issues(call[r].op, "sessions") /\ session'[t].user = seen[r].user
             /\ session'[t].secret = seen[r].row.secret /\ session'[t].during = seen[r].during
  BY <1>1, SessionMoves DEF Issued
<1>7. ASSUME NEW l \in Rows(link), ~ link'[l].used
      PROVE  /\ ~ link[l].used /\ l \notin DOMAIN writes[r].link
             /\ link'[l].user = link[l].user /\ link[l].during \subseteq link'[l].during
             /\ link'[l].secret = link[l].secret
  <2>1. link'[l].used = (link[l].used \/ l \in DOMAIN writes[r].link)
    BY <1>1, LinkMoves
  <2>2. link[l].during \subseteq link'[l].during
    BY <1>1, LinkMoves
  <2> QED
    BY <1>1, <1>7, <2>1, <2>2, LinkMoves
<1>8. ASSUME NEW l \in Rows(link)' \ Rows(link)
      PROVE  /\ Issues(call[r].op, "links") /\ link'[l].user = seen[r].user
             /\ link'[l].secret = seen[r].row.secret /\ link'[l].during = seen[r].during
  BY <1>1, LinkMoves DEF Sends, Issues
<1>9. Issuer(r) => ~ Changer(r) /\ seen[r].user \in Rows(account)
  BY <1>1 DEF Issuer, Issues, Changer, Changes, Slot, Informed
<1>10. ASSUME NEW o \in Requests
       PROVE  Progress(o)' /\ Fresh(o)'
  <2>1. CASE o = r
    BY <1>1, <2>1 DEF Progress, Fresh
  <2>2. CASE o # r
    <3>1. Progress(o)'
      BY <1>2, <2>2 DEF Passwords, Progress
    <3>2. Fresh(o) /\ Warned(r, o) /\ Slot(o)
      BY <1>1 DEF Passwords, Base
    <3>3. ASSUME Started(o), Issuer(o)
          PROVE  "change" \in seen[o].during \/ seen[o].row.secret = account'[seen[o].user].secret
      <4>1. seen[o].user \in Rows(account)
        BY <3>2, <3>3 DEF Slot, Informed, Issuer, Issues
      <4>2. CASE Changer(r) /\ seen[o].user = seen[r].user
        BY <1>3, <3>2, <3>3, <4>2 DEF Warned, Issuer
      <4>3. CASE ~ (Changer(r) /\ seen[o].user = seen[r].user)
        BY <1>4, <3>2, <3>3, <4>1, <4>3 DEF Fresh
      <4> QED
        BY <4>2, <4>3
    <3>4. Fresh(o)'
      BY <1>2, <2>2, <3>3 DEF Fresh
    <3> QED
      BY <3>1, <3>4
  <2> QED
    BY <2>1, <2>2
<1>11. ASSUME NEW o \in Requests, NEW q \in Requests
       PROVE  Warned(o, q)'
  <2>1. CASE o = r \/ q = r
    BY <1>1, <2>1 DEF Warned, SweptFor
  <2>2. CASE o # r /\ q # r
    <3>1. Warned(o, q)
      BY DEF Passwords
    <3> QED
      BY <1>2, <2>2, <3>1 DEF Warned
  <2> QED
    BY <2>1, <2>2
<1>12. ASSUME NEW o \in Requests, NEW t \in Rows(session)'
       PROVE  ClosesToken(o, t)'
  <2>1. CASE o = r
    BY <1>1, <2>1 DEF ClosesToken
  <2>2. CASE o # r /\ t \in Rows(session)
    <3>1. ClosesToken(o, t)
      BY <2>2 DEF Passwords
    <3>2. Kept(o, t)' <=> Kept(o, t)
      BY <1>2, <2>2 DEF Kept
    <3> QED
      BY <1>2, <1>5, <2>2, <3>1, <3>2 DEF ClosesToken
  <2>3. CASE o # r /\ t \notin Rows(session)
    <3>1. Warned(o, r)
      BY DEF Passwords
    <3> QED
      BY <1>1, <1>2, <1>6, <1>12, <2>3, <3>1 DEF ClosesToken, Warned
  <2> QED
    BY <2>1, <2>2, <2>3
<1>13. ASSUME NEW o \in Requests, NEW l \in Rows(link)'
       PROVE  ClosesLink(o, l)'
  <2>1. CASE o = r
    BY <1>1, <2>1 DEF ClosesLink
  <2>2. CASE o # r /\ l \in Rows(link)
    <3>1. ClosesLink(o, l)
      BY <2>2 DEF Passwords
    <3> QED
      BY <1>2, <1>7, <2>2, <3>1 DEF ClosesLink
  <2>3. CASE o # r /\ l \notin Rows(link)
    <3>1. Warned(o, r)
      BY DEF Passwords
    <3> QED
      BY <1>1, <1>2, <1>8, <1>13, <2>3, <3>1 DEF ClosesLink, Warned
  <2> QED
    BY <2>1, <2>2, <2>3
<1>14. ASSUME NEW t \in Rows(session)'
       PROVE  TokenUpToDate(t)'
  <2> SUFFICES ASSUME ~ session'[t].revoked
               PROVE  "change" \in session'[t].during
                        \/ session'[t].secret = account'[session'[t].user].secret
    BY DEF TokenUpToDate
  <2>1. CASE t \in Rows(session)
    <3>1. TokenUpToDate(t) /\ ClosesToken(r, t) /\ session[t].user \in Rows(account)
      BY <1>1, <2>1 DEF Passwords, Grounded
    <3>2. CASE Changer(r) /\ session[t].user = seen[r].user
      <4>1. Kept(r, t) \/ "change" \in session[t].during
        BY <1>1, <1>3, <1>5, <2>1, <3>1, <3>2 DEF ClosesToken
      <4>2. Kept(r, t) => session[t].user = call[r].user
        BY <1>1, <3>2 DEF Slot, Informed, Kept
      <4> QED
        BY <1>4, <1>5, <2>1, <3>1, <3>2, <4>1, <4>2
    <3>3. CASE ~ (Changer(r) /\ session[t].user = seen[r].user)
      <4>1. ~ (Kept(r, t) /\ session[t].user = call[r].user)
        BY <1>1, <3>3 DEF Slot, Informed, Kept, Changer, Changes
      <4> QED
        BY <1>4, <1>5, <2>1, <3>1, <3>3, <4>1 DEF TokenUpToDate
    <3> QED
      BY <3>2, <3>3
  <2>2. CASE t \notin Rows(session)
    <3>1. Issuer(r) /\ Fresh(r)
      BY <1>6, <1>14, <2>2 DEF Passwords, Issuer
    <3> QED
      BY <1>1, <1>4, <1>6, <1>9, <1>14, <2>2, <3>1 DEF Fresh
  <2> QED
    BY <2>1, <2>2
<1>15. ASSUME NEW l \in Rows(link)'
       PROVE  LinkUpToDate(l)'
  <2> SUFFICES ASSUME ~ link'[l].used
               PROVE  "change" \in link'[l].during \/ link'[l].secret = account'[link'[l].user].secret
    BY DEF LinkUpToDate
  <2>1. CASE l \in Rows(link)
    <3>1. LinkUpToDate(l) /\ ClosesLink(r, l) /\ link[l].user \in Rows(account)
      BY <1>1, <2>1 DEF Passwords, Grounded
    <3>2. CASE Changer(r) /\ link[l].user = seen[r].user
      BY <1>1, <1>3, <1>7, <2>1, <3>1, <3>2 DEF ClosesLink
    <3>3. CASE ~ (Changer(r) /\ link[l].user = seen[r].user)
      BY <1>4, <1>7, <2>1, <3>1, <3>3 DEF LinkUpToDate
    <3> QED
      BY <3>2, <3>3
  <2>2. CASE l \notin Rows(link)
    <3>1. Issuer(r) /\ Fresh(r)
      BY <1>8, <1>15, <2>2 DEF Passwords, Issuer
    <3> QED
      BY <1>1, <1>4, <1>8, <1>9, <1>15, <2>2, <3>1 DEF Fresh
  <2> QED
    BY <2>1, <2>2
<1> QED
  BY <1>10, <1>11, <1>12, <1>13, <1>14, <1>15 DEF Passwords

LEMMA PasswordsStill ==
  ASSUME Passwords, UNCHANGED <<database, mailed, call, todo, seen, writes, history>>
  PROVE  Passwords'
<1>1. /\ account' = account /\ session' = session /\ link' = link /\ call' = call /\ seen' = seen
      /\ writes' = writes /\ Rows(session)' = Rows(session) /\ Rows(link)' = Rows(link)
  BY DEF database, Rows
<1>2. \A r \in Requests :
        /\ (Started(r)' <=> Started(r)) /\ Statement(r)' = Statement(r) /\ (Issuer(r)' <=> Issuer(r))
        /\ \A kind : SweptFor(r, kind)' <=> SweptFor(r, kind)
  BY <1>1, AllStay DEF Issuer, SweptFor, Changer
<1>3. \A r \in Requests : (Progress(r) => Progress(r)') /\ (Fresh(r) => Fresh(r)')
  BY <1>1, <1>2 DEF Progress, Fresh
<1>4. \A r, o \in Requests : Warned(r, o) => Warned(r, o)'
  BY <1>1, <1>2 DEF Warned
<1>5. \A r \in Requests : \A x : /\ ClosesToken(r, x) => ClosesToken(r, x)'
                                 /\ ClosesLink(r, x) => ClosesLink(r, x)'
  BY <1>1, <1>2 DEF ClosesToken, ClosesLink, Kept
<1>6. \A x : /\ TokenUpToDate(x) => TokenUpToDate(x)'
             /\ LinkUpToDate(x) => LinkUpToDate(x)'
  BY <1>1 DEF TokenUpToDate, LinkUpToDate
<1> QED
  BY <1>1, <1>3, <1>4, <1>5, <1>6 DEF Passwords

\* Whichever way a password changes (PasswordService.changePassword,
\* resetPassword), the sessions and links that still work were opened under the
\* password the account has now, but for those being issued while the change
\* looked for what to close.
THEOREM SessionsPasswords == Spec => []NothingOutlivesThePassword
<1>1. Init => Passwords
  <2> SUFFICES ASSUME Init PROVE Passwords
    OBVIOUS
  <2>1. \A r \in Requests : ~ Started(r) /\ ~ Changer(r)
    BY NoCallIsNoCall DEF Init, Started, Busy, Changer, Changes
  <2>2. Rows(session) = {} /\ Rows(link) = {}
    BY DEF Init, Rows
  <2> QED
    BY <2>1, <2>2 DEF Passwords, Progress, Fresh, Warned, SweptFor
<1>2. Steady /\ Passwords /\ [Next]_vars => Passwords'
  BY PasswordsLocal, PasswordsCommit, PasswordsStill, StepsOfSlots
<1>3. Passwords => NothingOutlivesThePassword
  BY PasswordsCover
<1> QED
  BY <1>1, <1>2, <1>3, SessionsSteady, PTL DEF Spec

=============================================================================
