-------------------------- MODULE DashboardProofs --------------------------
(***************************************************************************)
(* Proofs about what a browser is left with, for any number of users,      *)
(* sign-in methods, versions, runs, outages and answers under way.         *)
(* Sessions: a token that was revoked stays revoked, no dashboard socket   *)
(* outlives its session, and a page gives up on its socket only when its   *)
(* session is over.  Dashboard: a tab at rest shows what the server would  *)
(* answer, but for the excuses that module names.                          *)
(***************************************************************************)
EXTENDS MCServerWeb, FiniteSetTheorems, WellFoundedInduction, TLAPS

-----------------------------------------------------------------------------
(***************************************************************************)
(* The inductive invariant.                                                *)
(***************************************************************************)
\* An id that was not handed out yet has no row.
IdsKept == \A id \in Ids : id >= nextId => users[id] = Nobody

\* A token was made for an id that is taken, with a version its user had.
Issued(token) ==
    token.id \in Ids => /\ token.id < nextId
                        /\ users[token.id] # Nobody => token.tv <= users[token.id].tv

TokensKept == \A t \in Tabs : /\ Issued(jar[t]) /\ Issued(socket[t].token)
                              /\ \A a \in answers[t] : Issued(a.token)

\* Who is not signed in has no socket.
OutsideKept == \A t \in Tabs : ~inside[t] => socket[t].state = "none"

\* The page will not connect again: it gave up, or was told to.
GivenUp(t) == \/ socket[t].state = "stopped"
              \/ socket[t].state = "closing" /\ socket[t].code = 4001

\* A socket under way or open carries the page's cookie, unless an older
\* sign-out cleared it, and no newer one is on its way; a page gives up with a
\* cookie that is revoked.
PagesKept ==
    \A t \in Tabs :
        /\ socket[t].state \in {"connecting", "open"} \/ GivenUp(t) =>
               \A a \in answers[t] : a.kind # "renewed"
        /\ socket[t].state \in {"connecting", "open"} => jar[t] \in {socket[t].token, NoToken}
        /\ GivenUp(t) => ~IsSessionCurrent(jar[t])

SInv == SessionsTypeOK /\ IdsKept /\ TokensKept /\ SocketsAreCurrent /\ OutsideKept

-----------------------------------------------------------------------------
(***************************************************************************)
(* The table of users.                                                     *)
(***************************************************************************)
\* A row comes with a new id, rises, or goes.
Rises == /\ nextId' = nextId
         /\ \E id \in Ids, rec \in UserRow :
               /\ users' = [users EXCEPT ![id] = rec]
               /\ users[id] # Nobody /\ rec.tv > users[id].tv
Goes == /\ nextId' = nextId
        /\ \E id \in Ids : users' = [users EXCEPT ![id] = Nobody]
Comes == /\ nextId' = nextId + 1 /\ nextId \in Ids
         /\ \E rec \in UserRow : users' = [users EXCEPT ![nextId] = rec]
UsersMove == UNCHANGED <<users, nextId>> \/ Rises \/ Goes \/ Comes

LEMMA NoTokenIsNone == NoToken.id \notin Ids /\ NoToken \notin Token
BY DEF NoToken, Ids, Token

\* What was issued stays issued, and what was revoked stays revoked.
LEMMA IssuedStays ==
    ASSUME SessionsTypeOK, IdsKept, UsersMove, NEW token \in Token \cup {NoToken}, Issued(token)
    PROVE  /\ Issued(token)'
           /\ ~IsSessionCurrent(token) => ~IsSessionCurrent(token)'
<1>1. CASE token.id \notin Ids
  BY <1>1 DEF Issued, IsSessionCurrent, Rows
<1>2. CASE token.id \in Ids
  <2>1. /\ token \in Token /\ token.tv \in Nat /\ token.id \in Nat /\ nextId \in Nat
        /\ users \in [Ids -> UserRow \cup {Nobody}]
    BY <1>2, NoTokenIsNone, SessionsAssumption DEF Token, SessionsTypeOK, Ids
  <2>2. \A id \in Ids : users[id].tv \in Nat
    BY <2>1, SessionsAssumption DEF UserRow, Nobody
  <2>3. CASE UNCHANGED <<users, nextId>>
    BY <2>3 DEF Issued, IsSessionCurrent, Rows
  <2>4. CASE Rises
    <3>1. PICK id \in Ids, rec \in UserRow :
              /\ users' = [users EXCEPT ![id] = rec]
              /\ users[id] # Nobody /\ rec.tv > users[id].tv
      BY <2>4 DEF Rises
    <3>2. nextId' = nextId /\ rec.tv \in Nat
      BY <2>4, SessionsAssumption DEF Rises, UserRow
    <3>3. CASE token.id = id
      <4>1. users'[token.id] = rec /\ token.tv <= users[id].tv
        BY <1>2, <2>1, <3>1, <3>3 DEF Issued
      <4>2. token.tv < rec.tv
        BY <2>1, <2>2, <3>1, <3>2, <4>1
      <4>3. QED
        BY <1>2, <2>1, <3>2, <4>1, <4>2 DEF Issued, IsSessionCurrent, Rows
    <3>4. CASE token.id # id
      BY <1>2, <2>1, <3>1, <3>2, <3>4 DEF Issued, IsSessionCurrent, Rows
    <3>5. QED
      BY <3>3, <3>4
  <2>5. CASE Goes
    BY <1>2, <2>1, <2>5 DEF Goes, Issued, IsSessionCurrent, Rows
  <2>6. CASE Comes
    <3>1. token.id # nextId /\ token.id < nextId /\ token.id < nextId + 1
      BY <1>2, <2>1 DEF Issued
    <3>2. users'[token.id] = users[token.id] /\ nextId' = nextId + 1
      BY <1>2, <2>1, <2>6, <3>1 DEF Comes
    <3>3. QED
      BY <1>2, <3>1, <3>2 DEF Issued, IsSessionCurrent, Rows
  <2>7. QED
    BY <2>3, <2>4, <2>5, <2>6 DEF UsersMove
<1>3. QED
  BY <1>1, <1>2

LEMMA IdsStay ==
    ASSUME SessionsTypeOK, IdsKept, UsersMove
    PROVE  IdsKept'
<1>1. nextId \in Nat /\ users \in [Ids -> UserRow \cup {Nobody}] /\ \A id \in Ids : id \in Nat
  BY SessionsAssumption DEF SessionsTypeOK, Ids
<1>2. CASE UNCHANGED <<users, nextId>>
  BY <1>2 DEF IdsKept
<1>3. CASE Rises
  BY <1>1, <1>3 DEF Rises, IdsKept
<1>4. CASE Goes
  BY <1>1, <1>4 DEF Goes, IdsKept
<1>5. CASE Comes
  <2>1. \A id \in Ids : id >= nextId + 1 => id >= nextId /\ id # nextId
    BY <1>1
  <2>2. QED
    BY <1>1, <1>5, <2>1 DEF Comes, IdsKept
<1>6. QED
  BY <1>2, <1>3, <1>4, <1>5 DEF UsersMove

-----------------------------------------------------------------------------
(***************************************************************************)
(* The actions.  Those of a page alone leave the users as they are.        *)
(***************************************************************************)
SocketRow == [state : States, token : Token \cup {NoToken}, code : {0, 4001, 4002}]

\* A socket is a row of three fields, each of which may change.
LEMMA SocketFields ==
    ASSUME NEW s \in SocketRow
    PROVE  /\ s.state \in States /\ s.token \in Token \cup {NoToken} /\ s.code \in {0, 4001, 4002}
           /\ \A x \in States : /\ [s EXCEPT !.state = x] \in SocketRow
                                /\ [s EXCEPT !.state = x].state = x
                                /\ [s EXCEPT !.state = x].token = s.token
                                /\ [s EXCEPT !.state = x].code = s.code
           /\ \A k \in {0, 4001, 4002} :
                  /\ Closing(s, k) \in SocketRow /\ Closing(s, k).state = "closing"
                  /\ Closing(s, k).token = s.token /\ Closing(s, k).code = k
<1>1. s.state \in States /\ s.token \in Token \cup {NoToken} /\ s.code \in {0, 4001, 4002}
  BY DEF SocketRow
<1>2. ASSUME NEW x \in States
      PROVE  [s EXCEPT !.state = x] = [state |-> x, token |-> s.token, code |-> s.code]
  BY DEF SocketRow
<1>3. \A x \in States, k \in {0, 4001, 4002} : [state |-> x, token |-> s.token, code |-> k] \in SocketRow
  BY <1>1 DEF SocketRow
<1>4. ASSUME NEW x \in States
      PROVE  [s EXCEPT !.state = x] \in SocketRow
  <2>1. [state |-> x, token |-> s.token, code |-> s.code] \in SocketRow
    BY <1>1 DEF SocketRow
  <2>2. QED
    BY <1>2, <2>1
<1>5. \A k \in {0, 4001, 4002} : Closing(s, k) \in SocketRow
  BY <1>3 DEF Closing, States
<1>6. QED
  BY <1>1, <1>2, <1>4, <1>5 DEF Closing

LEMMA SomeSockets ==
    /\ NoSocket \in SocketRow /\ SocketWaits \in SocketRow
    /\ NoSocket.state = "none" /\ SocketWaits.state = "waiting"
    /\ NoSocket.token = NoToken /\ SocketWaits.token = NoToken
    /\ NoSocket.code = 0 /\ SocketWaits.code = 0
    /\ \A token \in Token \cup {NoToken} :
          /\ [state |-> "connecting", token |-> token, code |-> 0] \in SocketRow
    /\ [NoSocket EXCEPT !.state = "stopped"] \in SocketRow
    /\ [NoSocket EXCEPT !.state = "stopped"].state = "stopped"
    /\ [NoSocket EXCEPT !.state = "stopped"].token = NoToken
BY DEF NoSocket, SocketWaits, SocketRow, States

LEMMA SomeAnswers ==
    /\ \A token \in Token : /\ [kind |-> "login", token |-> token] \in Answer
                            /\ [kind |-> "renewed", token |-> token] \in Answer
    /\ [kind |-> "cleared", token |-> NoToken] \in Answer
    /\ [kind |-> "unauthorized", token |-> NoToken] \in Answer
    /\ \A a \in Answer : /\ a.token \in Token \cup {NoToken}
                         /\ a.kind \in {"login", "renewed"} => a.token \in Token
BY DEF Answer

LEMMA NeverCurrent == Issued(NoToken) /\ ~IsSessionCurrent(NoToken)
BY NoTokenIsNone DEF Issued, IsSessionCurrent, Rows

\* A token made of a row is one the row's user has.
LEMMA TokenOfRow ==
    ASSUME SInv, NEW id \in Rows
    PROVE  TokenOf(id) \in Token /\ Issued(TokenOf(id))
<1>1. /\ id \in Ids /\ users[id] # Nobody /\ users[id] \in UserRow \cup {Nobody}
      /\ id \in Nat /\ nextId \in Nat
  BY SessionsAssumption DEF Rows, SInv, SessionsTypeOK, Ids
<1>2. users[id].tv \in 0..MaxVersion /\ users[id].tv \in Nat
  BY <1>1, SessionsAssumption DEF UserRow
<1>3. id < nextId
  BY <1>1 DEF SInv, IdsKept
<1>4. TokenOf(id).id = id /\ TokenOf(id).tv = users[id].tv /\ TokenOf(id) \in Token
  BY <1>1, <1>2 DEF TokenOf, Token
<1>5. QED
  BY <1>1, <1>2, <1>3, <1>4 DEF Issued

\* What page t has after a step that changes nothing but page t.
PageTyped(t, c, f, i, q, s) ==
    /\ c \in Token \cup {NoToken} /\ f \in BOOLEAN /\ i \in BOOLEAN
    /\ q \subseteq Answer /\ s \in SocketRow
    /\ Issued(c) /\ Issued(s.token) /\ \A a \in q : Issued(a.token)
    /\ s.state = "open" => IsSessionCurrent(s.token)
    /\ ~i => s.state = "none"
PageFits(c, q, s) ==
    LET given == s.state = "stopped" \/ (s.state = "closing" /\ s.code = 4001) IN
    /\ s.state \in {"connecting", "open"} \/ given => \A a \in q : a.kind # "renewed"
    /\ s.state \in {"connecting", "open"} => c \in {s.token, NoToken}
    /\ given => ~IsSessionCurrent(c)

LEMMA PageIs ==
    ASSUME SInv, NEW t \in Tabs
    PROVE  /\ PageTyped(t, jar[t], flag[t], inside[t], answers[t], socket[t])
           /\ PagesKept => PageFits(jar[t], answers[t], socket[t])
BY DEF SInv, SessionsTypeOK, TokensKept, SocketsAreCurrent, OutsideKept, PageTyped, PagesKept,
       PageFits, GivenUp, SocketRow

\* A step of one page keeps the invariant if the page is as pages are.
LEMMA PageStep ==
    ASSUME SInv, UNCHANGED <<users, nextId>>, NEW t \in Tabs,
           NEW c, NEW f, NEW i, NEW q, NEW s, PageTyped(t, c, f, i, q, s),
           jar' = [jar EXCEPT ![t] = c], flag' = [flag EXCEPT ![t] = f],
           inside' = [inside EXCEPT ![t] = i], answers' = [answers EXCEPT ![t] = q],
           socket' = [socket EXCEPT ![t] = s]
    PROVE  SInv' /\ (PagesKept /\ PageFits(c, q, s) => PagesKept')
<1>1. /\ users \in [Ids -> UserRow \cup {Nobody}]
      /\ jar \in [Tabs -> Token \cup {NoToken}] /\ flag \in [Tabs -> BOOLEAN]
      /\ inside \in [Tabs -> BOOLEAN] /\ answers \in [Tabs -> SUBSET Answer]
      /\ socket \in [Tabs -> SocketRow]
  BY DEF SInv, SessionsTypeOK, SocketRow
<1>2. /\ jar'[t] = c /\ flag'[t] = f /\ inside'[t] = i /\ answers'[t] = q /\ socket'[t] = s
      /\ \A u \in Tabs : u # t => /\ jar'[u] = jar[u] /\ flag'[u] = flag[u]
                                  /\ inside'[u] = inside[u] /\ answers'[u] = answers[u]
                                  /\ socket'[u] = socket[u]
  BY <1>1
<1>3. SessionsTypeOK'
  <2>1. /\ jar' \in [Tabs -> Token \cup {NoToken}] /\ flag' \in [Tabs -> BOOLEAN]
        /\ inside' \in [Tabs -> BOOLEAN]
    BY <1>1 DEF PageTyped
  <2>2. answers' \in [Tabs -> SUBSET Answer] /\ socket' \in [Tabs -> SocketRow]
    BY <1>1 DEF PageTyped
  <2>3. QED
    BY <2>1, <2>2 DEF SInv, SessionsTypeOK, SocketRow
<1>4. IdsKept'
  BY DEF SInv, IdsKept
<1>5. \A token : (Issued(token)' <=> Issued(token)) /\ (IsSessionCurrent(token)' <=> IsSessionCurrent(token))
  BY DEF Issued, IsSessionCurrent, Rows
<1>6. TokensKept'
  <2> SUFFICES ASSUME NEW u \in Tabs
               PROVE  /\ Issued(jar'[u]) /\ Issued(socket'[u].token)
                      /\ \A a \in answers'[u] : Issued(a.token)
    BY DEF TokensKept, Issued
  <2>1. CASE u = t
    BY <1>2, <2>1 DEF PageTyped
  <2>2. CASE u # t
    BY <1>2, <2>2 DEF SInv, TokensKept
  <2>3. QED
    BY <2>1, <2>2
<1>7. SocketsAreCurrent'
  <2> SUFFICES ASSUME NEW u \in Tabs, socket'[u].state = "open"
               PROVE  IsSessionCurrent(socket'[u].token)
    BY DEF SocketsAreCurrent, IsSessionCurrent, Rows
  <2>1. CASE u = t
    BY <1>2, <2>1 DEF PageTyped
  <2>2. CASE u # t
    BY <1>2, <2>2 DEF SInv, SocketsAreCurrent
  <2>3. QED
    BY <2>1, <2>2
<1>8. OutsideKept'
  BY <1>2 DEF SInv, OutsideKept, PageTyped
<1>9. ASSUME PagesKept, PageFits(c, q, s)
      PROVE  PagesKept'
  <2> SUFFICES ASSUME NEW u \in Tabs
               PROVE  PageFits(jar'[u], answers'[u], socket'[u])
    BY DEF PagesKept, PageFits, GivenUp, IsSessionCurrent, Rows
  <2>1. CASE u = t
    BY <1>2, <1>9, <2>1
  <2>2. CASE u # t
    BY <1>2, <1>9, <2>2, PageIs
  <2>3. QED
    BY <2>1, <2>2
<1>10. QED
  BY <1>3, <1>4, <1>6, <1>7, <1>8, <1>9 DEF SInv

-----------------------------------------------------------------------------
(***************************************************************************)
(* What each step of a page leaves behind.                                 *)
(***************************************************************************)
PageKept == SInv' /\ (Timely /\ PagesKept => PagesKept')

\* What a step leaves alone is put back as it was.
LEMMA PutBack ==
    ASSUME SInv, NEW t \in Tabs
    PROVE  /\ jar = [jar EXCEPT ![t] = jar[t]] /\ flag = [flag EXCEPT ![t] = flag[t]]
           /\ inside = [inside EXCEPT ![t] = inside[t]]
           /\ answers = [answers EXCEPT ![t] = answers[t]]
           /\ socket = [socket EXCEPT ![t] = socket[t]]
BY DEF SInv, SessionsTypeOK

\* A page whose socket waits, or that has none, has nothing to keep.
LEMMA IdleFits ==
    ASSUME NEW c, NEW q, NEW s, s.state \in {"none", "waiting"}
    PROVE  PageFits(c, q, s)
BY DEF PageFits

LEMMA EndSessionKeeps ==
    ASSUME SInv, NEW t \in Tabs, NEW others \in SUBSET answers[t], EndSession(t, others),
           UNCHANGED <<users, nextId>>
    PROVE  PageKept
<1>1. PageTyped(t, jar[t], flag[t], inside[t], answers[t], socket[t])
  BY PageIs
<1>2. PICK reached \in BOOLEAN :
          answers' = [answers EXCEPT ![t] = others \cup
                        IF reached THEN {[kind |-> "cleared", token |-> NoToken]} ELSE {}]
  BY DEF EndSession
<1> DEFINE q == others \cup (IF reached THEN {[kind |-> "cleared", token |-> NoToken]} ELSE {})
<1>3. /\ answers' = [answers EXCEPT ![t] = q] /\ jar' = [jar EXCEPT ![t] = jar[t]]
      /\ flag' = [flag EXCEPT ![t] = FALSE] /\ inside' = [inside EXCEPT ![t] = FALSE]
      /\ socket' = [socket EXCEPT ![t] = NoSocket]
  BY <1>2, PutBack DEF EndSession
<1>4. q \subseteq Answer /\ \A a \in q : Issued(a.token)
  BY <1>1, SomeAnswers, NeverCurrent DEF PageTyped
<1> HIDE DEF q
<1>5. PageTyped(t, jar[t], FALSE, FALSE, q, NoSocket)
  BY <1>1, <1>4, SomeSockets, NeverCurrent DEF PageTyped
<1>6. PageFits(jar[t], q, NoSocket)
  BY IdleFits, SomeSockets
<1>7. QED
  BY <1>3, <1>5, <1>6, PageStep DEF PageKept

LEMMA LogoutKeeps ==
    ASSUME SInv, NEW t \in Tabs, Logout(t)
    PROVE  PageKept
BY EndSessionKeeps DEF Logout

\* An answer more on its way, to a page that is outside or is refused.
LEMMA AnswerComes ==
    ASSUME SInv, NEW t \in Tabs, NEW a \in Answer, Issued(a.token), a.kind # "renewed",
           answers' = [answers EXCEPT ![t] = @ \cup {a}],
           UNCHANGED <<users, nextId, jar, flag, inside, socket>>
    PROVE  PageKept
<1> DEFINE q == answers[t] \cup {a}
<1>1. PageTyped(t, jar[t], flag[t], inside[t], answers[t], socket[t])
  BY PageIs
<1>2. q \subseteq Answer /\ \A b \in q : Issued(b.token)
  BY <1>1 DEF PageTyped
<1>3. PageTyped(t, jar[t], flag[t], inside[t], q, socket[t])
  BY <1>1, <1>2 DEF PageTyped
<1>4. PagesKept => PageFits(jar[t], q, socket[t])
  BY PageIs DEF PageFits
<1>5. answers' = [answers EXCEPT ![t] = q]
  BY DEF SInv, SessionsTypeOK
<1>6. /\ jar' = [jar EXCEPT ![t] = jar[t]] /\ flag' = [flag EXCEPT ![t] = flag[t]]
      /\ inside' = [inside EXCEPT ![t] = inside[t]] /\ socket' = [socket EXCEPT ![t] = socket[t]]
  BY PutBack
<1>7. UNCHANGED <<users, nextId>>
  OBVIOUS
<1> HIDE DEF q
<1>8. QED
  <2> DEFINE c == jar[t]
             f == flag[t]
             i == inside[t]
             s == socket[t]
  <2>1. /\ jar' = [jar EXCEPT ![t] = c] /\ flag' = [flag EXCEPT ![t] = f]
        /\ inside' = [inside EXCEPT ![t] = i] /\ socket' = [socket EXCEPT ![t] = s]
        /\ PageTyped(t, c, f, i, q, s) /\ (PagesKept => PageFits(c, q, s))
    BY <1>3, <1>4, <1>6
  <2> HIDE DEF c, f, i, s
  <2>2. SInv' /\ (PagesKept /\ PageFits(c, q, s) => PagesKept')
    BY ONLY SInv, t \in Tabs, <2>1, <1>5, <1>7, PageStep
  <2>3. QED
    BY <2>1, <2>2 DEF PageKept

LEMMA RefuseKeeps ==
    ASSUME SInv, NEW t \in Tabs, Refuse(t)
    PROVE  PageKept
<1> DEFINE a == [kind |-> "unauthorized", token |-> NoToken]
<1>1. a \in Answer /\ Issued(a.token) /\ a.kind # "renewed"
  BY SomeAnswers, NeverCurrent
<1>2. answers' = [answers EXCEPT ![t] = @ \cup {a}]
  BY DEF Refuse
<1> HIDE DEF a
<1>3. QED
  BY <1>1, <1>2, AnswerComes DEF Refuse

LEMMA LoginKeeps ==
    ASSUME SInv, NEW t \in Tabs, NEW id \in Ids, Login(t, id)
    PROVE  PageKept
<1> DEFINE a == [kind |-> "login", token |-> TokenOf(id)]
<1>1. TokenOf(id) \in Token /\ Issued(TokenOf(id))
  BY TokenOfRow DEF Login
<1>2. a \in Answer /\ Issued(a.token) /\ a.kind # "renewed"
  BY <1>1, SomeAnswers
<1>3. answers' = [answers EXCEPT ![t] = @ \cup {a}]
  BY DEF Login
<1> HIDE DEF a
<1>4. QED
  BY <1>2, <1>3, AnswerComes DEF Login

LEMMA HandleKeeps ==
    ASSUME SInv, NEW t \in Tabs, Handle(t)
    PROVE  PageKept
<1>1. PICK a \in answers[t] : HandleLogin(t, a) \/ HandleRenewed(t, a)
                              \/ HandleCleared(t, a) \/ HandleUnauthorized(t, a)
  BY DEF Handle
<1>2. PageTyped(t, jar[t], flag[t], inside[t], answers[t], socket[t])
      /\ UNCHANGED <<users, nextId>>
  BY PageIs DEF Handle
<1>3. /\ a \in Answer /\ Issued(a.token) /\ answers[t] \ {a} \subseteq Answer
      /\ \A b \in answers[t] \ {a} : Issued(b.token)
      /\ a.kind \in {"login", "renewed"} => a.token \in Token
  BY <1>2, SomeAnswers DEF PageTyped
<1> DEFINE q == answers[t] \ {a}
<1>4. CASE HandleLogin(t, a)
  <2>1. /\ jar' = [jar EXCEPT ![t] = a.token] /\ flag' = [flag EXCEPT ![t] = TRUE]
        /\ inside' = [inside EXCEPT ![t] = TRUE] /\ answers' = [answers EXCEPT ![t] = q]
        /\ socket' = [socket EXCEPT ![t] = SocketWaits]
    BY <1>4 DEF HandleLogin, SetCookies
  <2>2. PageTyped(t, a.token, TRUE, TRUE, q, SocketWaits)
    BY <1>3, <1>4, SomeSockets, NeverCurrent DEF PageTyped, HandleLogin
  <2>3. PageFits(a.token, q, SocketWaits)
    BY IdleFits, SomeSockets
  <2> HIDE DEF q
  <2>4. QED
    BY <1>2, <2>1, <2>2, <2>3, PageStep DEF PageKept
<1>5. CASE HandleRenewed(t, a)
  <2>1. /\ jar' = [jar EXCEPT ![t] = a.token] /\ flag' = [flag EXCEPT ![t] = TRUE]
        /\ answers' = [answers EXCEPT ![t] = q]
        /\ inside' = [inside EXCEPT ![t] = inside[t]]
        /\ socket' = [socket EXCEPT ![t] = socket[t]]
    BY <1>5, PutBack DEF HandleRenewed, SetCookies
  <2>2. PageTyped(t, a.token, TRUE, inside[t], q, socket[t])
    BY <1>2, <1>3, <1>5 DEF PageTyped, HandleRenewed
  <2>3. PagesKept => PageFits(a.token, q, socket[t])
    BY <1>5, PageIs DEF PageFits, HandleRenewed
  <2> HIDE DEF q
  <2>4. QED
    BY <1>2, <2>1, <2>2, <2>3, PageStep DEF PageKept
<1>6. CASE HandleCleared(t, a)
  <2>1. /\ jar' = [jar EXCEPT ![t] = NoToken] /\ flag' = [flag EXCEPT ![t] = FALSE]
        /\ answers' = [answers EXCEPT ![t] = q]
        /\ inside' = [inside EXCEPT ![t] = inside[t]]
        /\ socket' = [socket EXCEPT ![t] = socket[t]]
    BY <1>6, PutBack DEF HandleCleared
  <2>2. PageTyped(t, NoToken, FALSE, inside[t], q, socket[t])
    BY <1>2, <1>3, NeverCurrent DEF PageTyped
  <2>3. PagesKept => PageFits(NoToken, q, socket[t])
    BY PageIs, NeverCurrent DEF PageFits
  <2> HIDE DEF q
  <2>4. QED
    BY <1>2, <2>1, <2>2, <2>3, PageStep DEF PageKept
<1>7. CASE HandleUnauthorized(t, a)
  BY <1>2, <1>7, EndSessionKeeps DEF HandleUnauthorized
<1>8. QED
  BY <1>1, <1>4, <1>5, <1>6, <1>7

LEMMA ReloadKeeps ==
    ASSUME SInv, NEW t \in Tabs, Reload(t)
    PROVE  PageKept
<1> DEFINE s == IF flag[t] THEN SocketWaits ELSE NoSocket
<1>1. PageTyped(t, jar[t], flag[t], inside[t], answers[t], socket[t])
  BY PageIs
<1>2. PageTyped(t, jar[t], flag[t], flag[t], answers[t], s) /\ s.state \in {"none", "waiting"}
  <2>1. CASE flag[t]
    BY <1>1, <2>1, SomeSockets, NeverCurrent DEF PageTyped
  <2>2. CASE ~flag[t]
    BY <1>1, <2>2, SomeSockets, NeverCurrent DEF PageTyped
  <2>3. QED
    BY <2>1, <2>2
<1>3. inside' = [inside EXCEPT ![t] = flag[t]] /\ socket' = [socket EXCEPT ![t] = s]
  BY DEF Reload
<1> HIDE DEF s
<1>4. PageFits(jar[t], answers[t], s)
  BY <1>2, IdleFits
<1>5. /\ jar' = [jar EXCEPT ![t] = jar[t]] /\ flag' = [flag EXCEPT ![t] = flag[t]]
      /\ answers' = [answers EXCEPT ![t] = answers[t]] /\ UNCHANGED <<users, nextId>>
  BY PutBack DEF Reload
<1>6. QED
  BY <1>2, <1>3, <1>4, <1>5, PageStep DEF PageKept

LEMMA OidcCallbackKeeps ==
    ASSUME SInv, NEW t \in Tabs, NEW id \in Ids, OidcCallback(t, id)
    PROVE  PageKept
<1>1. PageTyped(t, jar[t], flag[t], inside[t], answers[t], socket[t])
  BY PageIs
<1>2. TokenOf(id) \in Token /\ Issued(TokenOf(id))
  BY TokenOfRow DEF OidcCallback
<1>3. PageTyped(t, TokenOf(id), TRUE, TRUE, answers[t], SocketWaits)
  BY <1>1, <1>2, SomeSockets, NeverCurrent DEF PageTyped
<1>4. PageFits(TokenOf(id), answers[t], SocketWaits)
  BY IdleFits, SomeSockets
<1>5. QED
  BY <1>3, <1>4, PageStep, PutBack DEF PageKept, OidcCallback, SetCookies

\* The socket alone moves.
LEMMA SocketStep ==
    ASSUME SInv, NEW t \in Tabs, NEW s, socket' = [socket EXCEPT ![t] = s],
           UNCHANGED <<users, nextId, jar, flag, inside, answers>>,
           s \in SocketRow, Issued(s.token), socket[t].state # "none",
           s.state = "open" => IsSessionCurrent(s.token),
           Timely /\ PagesKept => PageFits(jar[t], answers[t], s)
    PROVE  PageKept
<1>1. PageTyped(t, jar[t], flag[t], inside[t], answers[t], socket[t])
  BY PageIs
<1>2. PageTyped(t, jar[t], flag[t], inside[t], answers[t], s)
  BY <1>1 DEF PageTyped
<1>3. /\ jar' = [jar EXCEPT ![t] = jar[t]] /\ flag' = [flag EXCEPT ![t] = flag[t]]
      /\ inside' = [inside EXCEPT ![t] = inside[t]]
      /\ answers' = [answers EXCEPT ![t] = answers[t]]
  BY PutBack
<1>4. UNCHANGED <<users, nextId>>
  OBVIOUS
<1>5. QED
  <2> DEFINE c == jar[t]
             f == flag[t]
             i == inside[t]
             q == answers[t]
  <2>1. /\ jar' = [jar EXCEPT ![t] = c] /\ flag' = [flag EXCEPT ![t] = f]
        /\ inside' = [inside EXCEPT ![t] = i] /\ answers' = [answers EXCEPT ![t] = q]
        /\ PageTyped(t, c, f, i, q, s) /\ (Timely /\ PagesKept => PageFits(c, q, s))
    BY <1>2, <1>3
  <2> HIDE DEF c, f, i, q
  <2>2. SInv' /\ (PagesKept /\ PageFits(c, q, s) => PagesKept')
    BY ONLY SInv, t \in Tabs, <2>1, <1>4, socket' = [socket EXCEPT ![t] = s], PageStep
  <2>3. QED
    BY <2>1, <2>2 DEF PageKept

LEMMA ConnectKeeps ==
    ASSUME SInv, NEW t \in Tabs, Connect(t)
    PROVE  PageKept
<1> DEFINE s == [state |-> "connecting", token |-> jar[t], code |-> 0]
<1>1. PageTyped(t, jar[t], flag[t], inside[t], answers[t], socket[t])
  BY PageIs
<1>2. /\ s \in SocketRow /\ s.state = "connecting" /\ s.token = jar[t]
  BY <1>1, SomeSockets DEF PageTyped
<1>3. socket' = [socket EXCEPT ![t] = s]
  BY DEF Connect
<1> HIDE DEF s
<1>4. Timely => PageFits(jar[t], answers[t], s)
  BY <1>2 DEF PageFits, Connect
<1>5. Issued(s.token)
  BY <1>1, <1>2 DEF PageTyped
<1>6. socket[t].state # "none"
  BY DEF Connect
<1>7. QED
  BY <1>2, <1>3, <1>4, <1>5, <1>6, SocketStep DEF Connect

LEMMA HandshakeKeeps ==
    ASSUME SInv, NEW t \in Tabs, Handshake(t)
    PROVE  PageKept
<1> DEFINE now == socket[t]
           s   == IF IsSessionCurrent(now.token) THEN [now EXCEPT !.state = "open"]
                  ELSE Closing(now, 4001)
<1>1. PageTyped(t, jar[t], flag[t], inside[t], answers[t], now)
      /\ (PagesKept => PageFits(jar[t], answers[t], now))
  BY PageIs
<1>2. now \in SocketRow /\ Issued(now.token) /\ now.state = "connecting"
  BY <1>1 DEF PageTyped, Handshake
<1>3. socket' = [socket EXCEPT ![t] = s]
  BY DEF Handshake, SInv, SessionsTypeOK
<1>6. socket[t].state # "none" /\ UNCHANGED <<users, nextId, jar, flag, inside, answers>>
  BY DEF Handshake
<1> HIDE DEF now
<1>4. CASE IsSessionCurrent(now.token)
  <2> DEFINE opened == [now EXCEPT !.state = "open"]
  <2>0. "open" \in States
    BY DEF States
  <2>1. /\ opened \in SocketRow /\ opened.state = "open" /\ opened.token = now.token
    BY <1>2, <2>0, SocketFields
  <2>2. s = opened
    BY <1>4
  <2> HIDE DEF s, opened
  <2>3. s \in SocketRow /\ Issued(s.token) /\ IsSessionCurrent(s.token)
    BY <1>2, <1>4, <2>1, <2>2
  <2>4. PagesKept => PageFits(jar[t], answers[t], s)
    BY <1>1, <1>2, <2>1, <2>2 DEF PageFits
  <2>5. QED
    BY <1>3, <1>6, <2>3, <2>4, SocketStep
<1>5. CASE ~IsSessionCurrent(now.token)
  <2>1. s \in SocketRow /\ s.state = "closing" /\ s.token = now.token /\ s.code = 4001
    BY <1>2, <1>5, SocketFields
  <2> HIDE DEF s
  <2>2. PagesKept => PageFits(jar[t], answers[t], s)
    BY <1>1, <1>2, <1>5, <2>1, NeverCurrent DEF PageFits
  <2>3. s \in SocketRow /\ Issued(s.token) /\ s.state # "open"
    BY <1>2, <2>1
  <2>4. QED
    BY <1>3, <1>6, <2>2, <2>3, SocketStep
<1>7. QED
  BY <1>4, <1>5

LEMMA ClosedKeeps ==
    ASSUME SInv, NEW t \in Tabs, Closed(t)
    PROVE  PageKept
<1> DEFINE s == IF socket[t].code = 4001 THEN [NoSocket EXCEPT !.state = "stopped"]
                ELSE SocketWaits
<1>1. PagesKept => PageFits(jar[t], answers[t], socket[t])
  BY PageIs
<1>2. socket' = [socket EXCEPT ![t] = s]
  BY DEF Closed, SInv, SessionsTypeOK
<1>5. socket[t].state # "none" /\ UNCHANGED <<users, nextId, jar, flag, inside, answers>>
  BY DEF Closed
<1>3. CASE socket[t].code = 4001
  <2>1. s \in SocketRow /\ s.state = "stopped" /\ s.token = NoToken
    BY <1>3, SomeSockets
  <2> HIDE DEF s
  <2>2. PagesKept => PageFits(jar[t], answers[t], s)
    BY <1>1, <1>3, <2>1 DEF PageFits, Closed
  <2>3. s \in SocketRow /\ Issued(s.token) /\ s.state # "open"
    BY <2>1, NeverCurrent
  <2>4. QED
    BY <1>2, <1>5, <2>2, <2>3, SocketStep
<1>4. CASE socket[t].code # 4001
  <2>1. s \in SocketRow /\ s.state = "waiting" /\ s.token = NoToken
    BY <1>4, SomeSockets
  <2> HIDE DEF s
  <2>2. PageFits(jar[t], answers[t], s)
    BY <2>1, IdleFits
  <2>3. s \in SocketRow /\ Issued(s.token) /\ s.state # "open"
    BY <2>1, NeverCurrent
  <2>4. QED
    BY <1>2, <1>5, <2>2, <2>3, SocketStep
<1>6. QED
  BY <1>3, <1>4

LEMMA DropKeeps ==
    ASSUME SInv, NEW t \in Tabs, Drop(t)
    PROVE  PageKept
<1>1. PageFits(jar[t], answers[t], SocketWaits)
  BY IdleFits, SomeSockets
<1>2. socket[t].state # "none"
  BY DEF Drop
<1>3. QED
  BY <1>1, <1>2, SomeSockets, NeverCurrent, SocketStep DEF Drop

-----------------------------------------------------------------------------
(***************************************************************************)
(* The steps that change the users.                                        *)
(***************************************************************************)
\* What a change of the row id comes to: no other row changes, the sockets
\* opened for it are closed, and answers made are for tokens issued.
ChangesUser(id, code) ==
    /\ users' \in [Ids -> UserRow \cup {Nobody}]
    /\ \A j \in Ids : "local" \in users'[j].methods => users'[j].hash
    /\ nextId' \in 1..(MaxUsers + 1)
    /\ \A j \in Ids : j # id => users'[j] = users[j]
    /\ UNCHANGED <<jar, flag, inside>>
    /\ socket' = CloseDashboardSessions(id, code)
    /\ answers' \in [Tabs -> SUBSET Answer]
    /\ \A t \in Tabs : \A a \in answers'[t] \ answers[t] : Issued(a.token)'

\* A socket is closed, or left as it is.
LEMMA ClosesSockets ==
    ASSUME SInv, NEW id \in Ids, NEW code \in {4001, 4002},
           socket' = CloseDashboardSessions(id, code)
    PROVE  /\ socket' \in [Tabs -> SocketRow]
           /\ \A t \in Tabs :
                 /\ socket'[t].token = socket[t].token
                 /\ IF socket[t].state = "open" /\ socket[t].token.id = id
                    THEN socket'[t].state = "closing" /\ socket'[t].code = code
                    ELSE socket'[t] = socket[t]
<1>1. ASSUME NEW t \in Tabs
      PROVE  /\ socket'[t] \in SocketRow /\ socket'[t].token = socket[t].token
             /\ IF socket[t].state = "open" /\ socket[t].token.id = id
                THEN socket'[t].state = "closing" /\ socket'[t].code = code
                ELSE socket'[t] = socket[t]
  <2>1. socket[t] \in SocketRow
    BY DEF SInv, SessionsTypeOK, SocketRow
  <2>2. socket'[t] = IF socket[t].state = "open" /\ socket[t].token.id = id
                     THEN Closing(socket[t], code) ELSE socket[t]
    BY DEF CloseDashboardSessions
  <2>3. /\ Closing(socket[t], code) \in SocketRow /\ Closing(socket[t], code).state = "closing"
        /\ Closing(socket[t], code).token = socket[t].token
        /\ Closing(socket[t], code).code = code
    BY <2>1, SocketFields
  <2>4. QED
    BY <2>1, <2>2, <2>3
<1>2. socket' = [t \in Tabs |-> socket'[t]]
  BY DEF CloseDashboardSessions
<1>3. QED
  BY <1>1, <1>2

LEMMA ChangeKeeps ==
    ASSUME SInv, UsersMove, NEW id \in Ids, NEW code \in {4001, 4002}, ChangesUser(id, code)
    PROVE  SInv'
<1>1. /\ socket' \in [Tabs -> SocketRow]
      /\ \A t \in Tabs :
            /\ socket'[t].token = socket[t].token
            /\ IF socket[t].state = "open" /\ socket[t].token.id = id
               THEN socket'[t].state = "closing" /\ socket'[t].code = code
               ELSE socket'[t] = socket[t]
  BY ClosesSockets DEF ChangesUser
<1>2. SessionsTypeOK'
  BY <1>1 DEF SInv, SessionsTypeOK, ChangesUser, SocketRow
<1>3. IdsKept'
  BY IdsStay DEF SInv
<1>4. ASSUME NEW token \in Token \cup {NoToken}, Issued(token)
      PROVE  Issued(token)'
  BY <1>4, IssuedStays DEF SInv
<1>5. TokensKept'
  <2> SUFFICES ASSUME NEW t \in Tabs, NEW c, c = jar'[t], NEW k, k = socket'[t].token
               PROVE  /\ Issued(c)' /\ Issued(k)'
                      /\ \A a \in answers'[t] : Issued(a.token)'
    BY DEF TokensKept, Issued
  <2>1. PageTyped(t, jar[t], flag[t], inside[t], answers[t], socket[t])
    BY PageIs
  <2>2. c \in Token \cup {NoToken} /\ Issued(c)
    BY <2>1 DEF PageTyped, ChangesUser
  <2>3. k \in Token \cup {NoToken} /\ Issued(k)
    BY <1>1, <2>1 DEF PageTyped, SocketRow
  <2>4. Issued(c)' /\ Issued(k)'
    BY <1>4, <2>2, <2>3
  <2>5. ASSUME NEW a \in answers'[t]
        PROVE  Issued(a.token)'
    <3>1. CASE a \in answers[t]
      <4>1. a.token \in Token \cup {NoToken} /\ Issued(a.token)
        BY <2>1, <3>1, SomeAnswers DEF PageTyped
      <4>2. QED
        BY <1>4, <4>1
    <3>2. CASE a \notin answers[t]
      BY <3>2 DEF ChangesUser
    <3>3. QED
      BY <3>1, <3>2
  <2>6. QED
    BY <2>4, <2>5
<1>6. SocketsAreCurrent'
  <2> SUFFICES ASSUME NEW t \in Tabs, socket'[t].state = "open", NEW k, k = socket'[t].token
               PROVE  IsSessionCurrent(k)'
    BY DEF SocketsAreCurrent, IsSessionCurrent, Rows
  <2>1. socket'[t] = socket[t] /\ k = socket[t].token /\ k.id # id
    BY <1>1
  <2>2. IsSessionCurrent(k)
    BY <2>1 DEF SInv, SocketsAreCurrent
  <2>3. k.id \in Ids /\ users'[k.id] = users[k.id]
    BY <2>1, <2>2 DEF IsSessionCurrent, Rows, ChangesUser
  <2>4. QED
    BY <2>1, <2>2, <2>3 DEF IsSessionCurrent, Rows
<1>7. OutsideKept'
  BY <1>1 DEF SInv, OutsideKept, ChangesUser
<1>8. QED
  BY <1>2, <1>3, <1>5, <1>6, <1>7 DEF SInv

\* The pages stay as pages are when a close for good hits revoked tokens only,
\* and a new cookie is on its way only to a page that is told to come back.
LEMMA ChangeKeepsPages ==
    ASSUME SInv, PagesKept, UsersMove, NEW id \in Ids, NEW code \in {4001, 4002},
           ChangesUser(id, code),
           code = 4001 => \A token \in Token : token.id = id /\ Issued(token)
                                                 => ~IsSessionCurrent(token)',
           \A t \in Tabs :
               \/ \A a \in answers'[t] : a.kind = "renewed" => a \in answers[t]
               \/ /\ socket[t].state # "connecting" /\ ~GivenUp(t)
                  /\ socket[t].state = "open" => socket[t].token.id = id /\ code = 4002
    PROVE  PagesKept'
<1>1. \A t \in Tabs :
          /\ socket'[t].token = socket[t].token
          /\ IF socket[t].state = "open" /\ socket[t].token.id = id
             THEN socket'[t].state = "closing" /\ socket'[t].code = code
             ELSE socket'[t] = socket[t]
  BY ClosesSockets DEF ChangesUser
<1> SUFFICES ASSUME NEW t \in Tabs
             PROVE  /\ socket'[t].state \in {"connecting", "open"} \/ GivenUp(t)' =>
                           \A a \in answers'[t] : a.kind # "renewed"
                    /\ socket'[t].state \in {"connecting", "open"} =>
                           jar'[t] \in {socket'[t].token, NoToken}
                    /\ GivenUp(t)' => ~IsSessionCurrent(jar[t])'
  BY DEF PagesKept, GivenUp, IsSessionCurrent, Rows, ChangesUser
<1>2. /\ jar'[t] = jar[t] /\ jar[t] \in Token \cup {NoToken} /\ Issued(jar[t])
      /\ ~IsSessionCurrent(jar[t]) => ~IsSessionCurrent(jar[t])'
  <2>1. jar'[t] = jar[t] /\ jar[t] \in Token \cup {NoToken} /\ Issued(jar[t])
    BY PageIs DEF PageTyped, ChangesUser
  <2>2. QED
    BY <2>1, IssuedStays DEF SInv
<1>3. CASE socket[t].state = "open" /\ socket[t].token.id = id
  <2>1. socket'[t].state = "closing" /\ socket'[t].code = code
    BY <1>1, <1>3
  <2>2. CASE code = 4002
    BY <2>1, <2>2 DEF GivenUp
  <2>3. CASE code = 4001
    <3>1. \A a \in answers'[t] : a.kind # "renewed"
      BY <1>3, <2>3 DEF PagesKept
    <3>2. jar[t] \in {socket[t].token, NoToken}
      BY <1>3 DEF PagesKept
    <3>3. ~IsSessionCurrent(jar[t])'
      <4>1. CASE jar[t] = NoToken
        BY <1>2, <4>1, NeverCurrent
      <4>2. CASE jar[t] # NoToken
        BY <1>2, <1>3, <2>3, <3>2, <4>2
      <4>3. QED
        BY <4>1, <4>2
    <3>4. QED
      BY <2>1, <3>1, <3>3
  <2>4. QED
    BY <2>2, <2>3
<1>4. CASE ~(socket[t].state = "open" /\ socket[t].token.id = id)
  <2>1. socket'[t] = socket[t]
    BY <1>1, <1>4
  <2>2. GivenUp(t)' <=> GivenUp(t)
    BY <2>1 DEF GivenUp
  <2>3. socket[t].state \in {"connecting", "open"} \/ GivenUp(t) =>
            \A a \in answers'[t] : a.kind # "renewed"
    BY <1>4 DEF PagesKept
  <2>4. QED
    BY <1>2, <2>1, <2>2, <2>3 DEF PagesKept
<1>5. QED
  BY <1>3, <1>4

LEMMA CreateUserKeeps ==
    ASSUME SInv, NEW t \in Tabs, NEW password \in BOOLEAN, NEW methods \in MethodSets,
           CreateUser(t, password, methods)
    PROVE  PageKept /\ UsersMove
<1> DEFINE rec == [hash |-> password, methods |-> methods, tv |-> 0]
<1>1. /\ users \in [Ids -> UserRow \cup {Nobody}] /\ nextId \in Ids /\ nextId \in Nat
      /\ users' = [users EXCEPT ![nextId] = rec] /\ nextId' = nextId + 1
      /\ answers \in [Tabs -> SUBSET Answer] /\ socket \in [Tabs -> SocketRow]
  BY SessionsAssumption DEF SInv, SessionsTypeOK, CreateUser, Ids, SocketRow
<1>2. rec \in UserRow /\ ("local" \in methods => password)
  BY SessionsAssumption DEF UserRow, CreateUser
<1>3. UsersMove
  BY <1>1, <1>2 DEF UsersMove, Comes
<1>4. \A token : Issued(token) => token.id # nextId
  BY <1>1 DEF Issued
<1>5. socket = CloseDashboardSessions(nextId, 4001)
  <2>1. ASSUME NEW u \in Tabs
        PROVE  ~(socket[u].state = "open" /\ socket[u].token.id = nextId)
    BY <1>4 DEF SInv, TokensKept
  <2>2. CloseDashboardSessions(nextId, 4001) = [u \in Tabs |-> socket[u]]
    BY <2>1 DEF CloseDashboardSessions
  <2>3. QED
    BY <1>1, <2>2
<1>6. ChangesUser(nextId, 4001)
  <2>1. users' \in [Ids -> UserRow \cup {Nobody}] /\ \A j \in Ids : j # nextId => users'[j] = users[j]
    BY <1>1, <1>2
  <2>2. \A j \in Ids : "local" \in users'[j].methods => users'[j].hash
    <3>1. users'[nextId] = rec
      BY <1>1
    <3>2. rec.hash = password /\ rec.methods = methods
      OBVIOUS
    <3>3. \A j \in Ids : "local" \in users[j].methods => users[j].hash
      BY DEF SInv, SessionsTypeOK
    <3> HIDE DEF rec
    <3>4. QED
      BY <1>2, <2>1, <3>1, <3>2, <3>3
  <2>3. nextId' \in 1..(MaxUsers + 1)
    BY <1>1, SessionsAssumption DEF Ids
  <2>4. QED
    BY <1>1, <1>5, <2>1, <2>2, <2>3 DEF ChangesUser, CreateUser
<1> HIDE DEF rec
<1>7. SInv'
  BY <1>1, <1>3, <1>6, ChangeKeeps
<1>8. ASSUME PagesKept
      PROVE  PagesKept'
  <2>1. \A u \in Tabs : \A a \in answers'[u] : a.kind = "renewed" => a \in answers[u]
    BY DEF CreateUser
  <2>2. \A token \in Token : token.id = nextId /\ Issued(token) => ~IsSessionCurrent(token)'
    BY <1>4
  <2>3. QED
    BY <1>1, <1>3, <1>6, <1>8, <2>1, <2>2, ChangeKeepsPages
<1>9. QED
  BY <1>3, <1>7, <1>8 DEF PageKept

LEMMA DeleteUserKeeps ==
    ASSUME SInv, NEW t \in Tabs, NEW id \in Ids, DeleteUser(t, id)
    PROVE  PageKept /\ UsersMove
<1>1. /\ users \in [Ids -> UserRow \cup {Nobody}] /\ users' = [users EXCEPT ![id] = Nobody]
      /\ UNCHANGED <<nextId, jar, flag, inside, answers>>
      /\ socket' = CloseDashboardSessions(id, 4001)
  BY DEF SInv, SessionsTypeOK, DeleteUser
<1>2. UsersMove
  BY <1>1 DEF UsersMove, Goes
<1>3. ChangesUser(id, 4001)
  <2>1. /\ users' \in [Ids -> UserRow \cup {Nobody}] /\ users'[id] = Nobody
        /\ \A j \in Ids : j # id => users'[j] = users[j]
    BY <1>1
  <2>2. \A j \in Ids : "local" \in users'[j].methods => users'[j].hash
    BY <2>1 DEF SInv, SessionsTypeOK, Nobody
  <2>3. QED
    BY <1>1, <2>1, <2>2 DEF ChangesUser, SInv, SessionsTypeOK
<1>4. SInv'
  BY <1>2, <1>3, ChangeKeeps
<1>5. ASSUME PagesKept
      PROVE  PagesKept'
  <2>1. \A u \in Tabs : \A a \in answers'[u] : a.kind = "renewed" => a \in answers[u]
    BY <1>1
  <2>2. \A token \in Token : token.id = id => ~IsSessionCurrent(token)'
    BY <1>1 DEF IsSessionCurrent, Rows
  <2>3. QED
    BY <1>2, <1>3, <1>5, <2>1, <2>2, ChangeKeepsPages
<1>6. QED
  BY <1>2, <1>4, <1>5 DEF PageKept

LEMMA UpdatedRow ==
    ASSUME NEW rec \in UserRow, NEW password \in BOOLEAN, NEW methods \in MethodSets,
           IsValidUpdate(rec, password, methods),
           Updated(rec, password, methods).tv \in (rec.tv + 1)..MaxVersion
    PROVE  /\ Updated(rec, password, methods) \in UserRow
           /\ Updated(rec, password, methods).tv > rec.tv
           /\ "local" \in Updated(rec, password, methods).methods
                => Updated(rec, password, methods).hash
<1> DEFINE new == Updated(rec, password, methods)
<1>1. rec.tv \in Nat /\ MaxVersion \in Nat /\ rec.hash \in BOOLEAN
  BY SessionsAssumption DEF UserRow
<1>2. /\ new.hash = (rec.hash \/ password) /\ new.methods = methods
      /\ new = [hash |-> new.hash, methods |-> new.methods, tv |-> new.tv]
  BY DEF Updated
<1>3. new.tv \in 0..MaxVersion /\ new.tv > rec.tv
  BY <1>1
<1> HIDE DEF new
<1>4. new.hash \in BOOLEAN
  BY <1>2
<1>5. [hash |-> new.hash, methods |-> new.methods, tv |-> new.tv] \in UserRow
  BY <1>2, <1>3, <1>4 DEF UserRow
<1>6. "local" \in new.methods => new.hash
  BY <1>2 DEF IsValidUpdate
<1>7. QED
  BY <1>2, <1>3, <1>5, <1>6 DEF new

LEMMA UpdateUserKeeps ==
    ASSUME SInv, NEW t \in Tabs, NEW id \in Ids, NEW password \in BOOLEAN,
           NEW methods \in MethodSets, UpdateUser(t, id, password, methods)
    PROVE  PageKept /\ UsersMove
<1>0. PICK rec : rec = Updated(users[id], password, methods)
  OBVIOUS
<1> DEFINE self  == jar[t].id = id
           code  == IF self THEN 4002 ELSE 4001
           token == [id |-> id, tv |-> rec.tv]
           fresh == [kind |-> "renewed", token |-> token]
<1>1. /\ users \in [Ids -> UserRow \cup {Nobody}] /\ users[id] # Nobody /\ nextId \in Nat
      /\ users' = [users EXCEPT ![id] = rec]
      /\ socket' = CloseDashboardSessions(id, code)
      /\ UNCHANGED <<nextId, jar, flag, inside>> /\ IsSessionCurrent(jar[t])
  BY <1>0, SessionsAssumption DEF SInv, SessionsTypeOK, UpdateUser, Authorised, Rows
<1>2. /\ answers \in [Tabs -> SUBSET Answer]
      /\ answers' = IF self THEN [answers EXCEPT ![t] = @ \cup {fresh}] ELSE answers
      /\ (Timely /\ self) => socket[t].state # "connecting"
  BY <1>0 DEF SInv, SessionsTypeOK, UpdateUser
<1>3. /\ rec \in UserRow /\ rec.tv > users[id].tv /\ ("local" \in rec.methods => rec.hash)
  BY <1>0, <1>1, UpdatedRow DEF UpdateUser
<1>4. UsersMove
  BY <1>1, <1>3 DEF UsersMove, Rises
<1>5. code \in {4001, 4002} /\ (code = 4002 <=> self)
  OBVIOUS
<1>6. fresh \in Answer /\ Issued(token)'
  <2>1. rec.tv \in 0..MaxVersion /\ rec.tv \in Nat
    BY <1>3, SessionsAssumption DEF UserRow
  <2>2. token \in Token /\ token.id = id /\ token.tv = rec.tv
    BY <2>1 DEF Token
  <2>3. id < nextId
    BY <1>1, SessionsAssumption DEF SInv, IdsKept, Ids
  <2>4. users'[id] = rec /\ nextId' = nextId
    BY <1>1
  <2> HIDE DEF token
  <2>5. Issued(token)'
    BY <2>1, <2>2, <2>3, <2>4 DEF Issued
  <2>6. QED
    BY <2>2, <2>5, SomeAnswers
<1>7. ChangesUser(id, code)
  <2>1. /\ users' \in [Ids -> UserRow \cup {Nobody}] /\ users'[id] = rec
        /\ \A j \in Ids : j # id => users'[j] = users[j]
    BY <1>1, <1>3
  <2>2. \A j \in Ids : "local" \in users'[j].methods => users'[j].hash
    BY <1>3, <2>1 DEF SInv, SessionsTypeOK
  <2> HIDE DEF fresh
  <2>3. /\ answers' \in [Tabs -> SUBSET Answer]
        /\ \A u \in Tabs : \A a \in answers'[u] \ answers[u] : a = fresh
    BY <1>2, <1>6
  <2>4. \A u \in Tabs : \A a \in answers'[u] \ answers[u] : Issued(a.token)'
    <3>1. fresh.token = token
      BY DEF fresh
    <3>2. ASSUME NEW u \in Tabs, NEW a \in answers'[u] \ answers[u]
          PROVE  Issued(a.token)'
      <4>1. a.token = token
        BY <2>3, <3>1
      <4>2. QED
        BY <1>6, <4>1
    <3>3. QED
      BY <3>2
  <2>5. QED
    BY <1>1, <2>1, <2>2, <2>3, <2>4 DEF ChangesUser, SInv, SessionsTypeOK
<1>8. SInv'
  BY <1>4, <1>5, <1>7, ChangeKeeps
<1>9. ASSUME Timely, PagesKept
      PROVE  PagesKept'
  <2>1. code = 4001 => \A k \in Token : k.id = id /\ Issued(k) => ~IsSessionCurrent(k)'
    <3> SUFFICES ASSUME NEW k \in Token, k.id = id, Issued(k)
                 PROVE  ~IsSessionCurrent(k)'
      OBVIOUS
    <3>1. k.tv \in Nat /\ users[id].tv \in Nat /\ rec.tv \in Nat
      BY <1>1, <1>3, SessionsAssumption DEF Token, UserRow
    <3>2. k.tv <= users[id].tv
      BY <1>1 DEF Issued
    <3>3. users'[id] = rec /\ k.tv # rec.tv
      BY <1>1, <1>3, <3>1, <3>2
    <3>4. QED
      BY <3>3 DEF IsSessionCurrent
  <2>2. ASSUME NEW u \in Tabs
        PROVE  \/ \A a \in answers'[u] : a.kind = "renewed" => a \in answers[u]
               \/ /\ socket[u].state # "connecting" /\ ~GivenUp(u)
                  /\ socket[u].state = "open" => socket[u].token.id = id /\ code = 4002
    <3>1. CASE ~self \/ u # t
      BY <1>2, <3>1
    <3>2. CASE self /\ u = t
      <4>1. socket[u].state # "connecting" /\ code = 4002
        BY <1>2, <1>9, <3>2
      <4>2. ~GivenUp(u)
        BY <1>1, <1>9, <3>2 DEF PagesKept
      <4>3. socket[u].state = "open" => socket[u].token.id = id
        BY <1>9, <3>2, NoTokenIsNone DEF PagesKept
      <4>4. QED
        BY <4>1, <4>2, <4>3
    <3>3. QED
      BY <3>1, <3>2
  <2> HIDE DEF code
  <2>3. QED
    BY <1>4, <1>5, <1>7, <1>9, <2>1, <2>2, ChangeKeepsPages
<1>10. QED
  BY <1>4, <1>8, <1>9 DEF PageKept

-----------------------------------------------------------------------------
(***************************************************************************)
(* The theorems.                                                           *)
(***************************************************************************)
LEMMA SessionsStart ==
    ASSUME SessionsInit
    PROVE  SInv /\ PagesKept
<1> DEFINE admin == [hash |-> TRUE, methods |-> {"local"}, tv |-> 0]
<1>1. admin \in UserRow /\ admin.hash
  BY SessionsAssumption DEF UserRow
<1>2. /\ users = [id \in Ids |-> IF id = 1 THEN admin ELSE Nobody] /\ nextId = 2
      /\ jar = [t \in Tabs |-> NoToken] /\ flag = [t \in Tabs |-> FALSE]
      /\ inside = [t \in Tabs |-> FALSE] /\ answers = [t \in Tabs |-> {}]
      /\ socket = [t \in Tabs |-> NoSocket]
  BY DEF SessionsInit
<1> HIDE DEF admin
<1>3. SessionsTypeOK
  <2>1. users \in [Ids -> UserRow \cup {Nobody}]
    BY <1>1, <1>2
  <2>2. \A id \in Ids : "local" \in users[id].methods => users[id].hash
    BY <1>1, <1>2 DEF Nobody
  <2>3. nextId \in 1..(MaxUsers + 1)
    BY <1>2, SessionsAssumption
  <2>4. /\ jar \in [Tabs -> Token \cup {NoToken}] /\ flag \in [Tabs -> BOOLEAN]
        /\ inside \in [Tabs -> BOOLEAN] /\ answers \in [Tabs -> SUBSET Answer]
    BY <1>2
  <2>5. socket \in [Tabs -> SocketRow]
    BY <1>2, SomeSockets
  <2>6. QED
    BY <2>1, <2>2, <2>3, <2>4, <2>5 DEF SessionsTypeOK, SocketRow
<1>4. IdsKept
  BY <1>2, SessionsAssumption DEF IdsKept, Ids
<1>5. TokensKept
  BY <1>2, NeverCurrent, SomeSockets DEF TokensKept
<1>6. SocketsAreCurrent /\ OutsideKept /\ PagesKept
  BY <1>2, SomeSockets DEF SocketsAreCurrent, OutsideKept, PagesKept, GivenUp
<1>7. QED
  BY <1>3, <1>4, <1>5, <1>6 DEF SInv

\* Every step keeps the invariant, and moves the users as they may move.
LEMMA SessionsStep ==
    ASSUME SInv, [SessionsNext]_sessionsVars
    PROVE  PageKept /\ UsersMove
<1>1. CASE UNCHANGED sessionsVars
  <2>1. UsersMove
    BY <1>1 DEF sessionsVars, UsersMove
  <2>2. SInv'
    BY <1>1 DEF sessionsVars, SInv, SessionsTypeOK, IdsKept, TokensKept, SocketsAreCurrent,
                OutsideKept, Issued, IsSessionCurrent, Rows
  <2>3. PagesKept => PagesKept'
    BY <1>1 DEF sessionsVars, PagesKept, GivenUp, IsSessionCurrent, Rows
  <2>4. QED
    BY <2>1, <2>2, <2>3 DEF PageKept
<1>2. ASSUME NEW t \in Tabs,
             \/ Logout(t) \/ Refuse(t) \/ Handle(t) \/ Reload(t)
             \/ Connect(t) \/ Handshake(t) \/ Closed(t) \/ Drop(t)
             \/ \E id \in Ids : Login(t, id) \/ OidcCallback(t, id)
      PROVE  PageKept /\ UsersMove
  <2>1. UNCHANGED <<users, nextId>>
    BY <1>2 DEF Logout, Refuse, Handle, Reload, Connect, Handshake, Closed, Drop, Login, OidcCallback
  <2>2. PageKept
    BY <1>2, LogoutKeeps, RefuseKeeps, HandleKeeps, ReloadKeeps, ConnectKeeps, HandshakeKeeps,
       ClosedKeeps, DropKeeps, LoginKeeps, OidcCallbackKeeps
  <2>3. QED
    BY <2>1, <2>2 DEF UsersMove
<1>3. ASSUME NEW t \in Tabs, NEW id \in Ids, DeleteUser(t, id)
      PROVE  PageKept /\ UsersMove
  BY <1>3, DeleteUserKeeps
<1>4. ASSUME NEW t \in Tabs, NEW password \in BOOLEAN, NEW methods \in MethodSets,
             \/ CreateUser(t, password, methods)
             \/ \E id \in Ids : UpdateUser(t, id, password, methods)
      PROVE  PageKept /\ UsersMove
  BY <1>4, CreateUserKeeps, UpdateUserKeeps
<1>5. QED
  BY <1>1, <1>2, <1>3, <1>4 DEF SessionsNext

LEMMA SessionsInductive == SessionsSpec => []SInv
<1>1. SessionsInit => SInv
  BY SessionsStart
<1>2. SInv /\ [SessionsNext]_sessionsVars => SInv'
  BY SessionsStep DEF PageKept
<1>3. QED
  BY <1>1, <1>2, PTL DEF SessionsSpec

\* No dashboard socket stays open past its session, whatever is changed,
\* deleted or dropped in whatever order (closeDashboardSessions,
\* handleDashboardConnection).
THEOREM NoSocketOutlives == SessionsSpec => []SessionsHold
<1>1. SInv => SessionsHold
  BY DEF SInv, SessionsHold
<1>2. QED
  BY <1>1, SessionsInductive, PTL

\* A revoked token never becomes valid again (UserRepository, isSessionCurrent).
THEOREM RevokedTokens == SessionsSpec => RevokedStaysRevoked
<1>1. SInv /\ [SessionsNext]_sessionsVars =>
          \A t \in Tabs : \A token \in {jar[t], socket[t].token} :
              (token # NoToken /\ ~IsSessionCurrent(token)) => ~IsSessionCurrent(token)'
  <2> SUFFICES ASSUME SInv, [SessionsNext]_sessionsVars, NEW t \in Tabs,
                      NEW token \in {jar[t], socket[t].token}, ~IsSessionCurrent(token)
               PROVE  ~IsSessionCurrent(token)'
    OBVIOUS
  <2>1. PageTyped(t, jar[t], flag[t], inside[t], answers[t], socket[t])
    BY PageIs
  <2>2. token \in Token \cup {NoToken} /\ Issued(token)
    BY <2>1 DEF PageTyped, SocketRow
  <2>3. UsersMove
    BY SessionsStep
  <2>4. QED
    BY <2>2, <2>3, IssuedStays DEF SInv
<1>2. QED
  BY <1>1, SessionsInductive, PTL DEF SessionsSpec, RevokedStaysRevoked

\* A page gives up on its socket only when its session is over, so whoever
\* changes their own password keeps working (UserController update, close
\* code 4002), as long as the answer with the new cookie is handled before
\* the page connects again three seconds later.
THEOREM PagesGiveUpRightly == ASSUME Timely PROVE SessionsSpec => []SessionsKept
<1>1. SessionsInit => SInv /\ PagesKept
  BY SessionsStart
<1>2. SInv /\ PagesKept /\ [SessionsNext]_sessionsVars => (SInv /\ PagesKept)'
  BY SessionsStep DEF PageKept
<1>3. SInv /\ PagesKept => SessionsKept
  BY DEF SInv, PagesKept, GivenUp, SessionsKept, SessionsHold, GivesUpOnlyWhenOver
<1>4. QED
  BY <1>1, <1>2, <1>3, PTL DEF SessionsSpec

-----------------------------------------------------------------------------
(***************************************************************************)
(* A tab of the dashboard: what is on its way.  P is a queue of pushes, B  *)
(* those that bear on the entry and A those that say what it should be.    *)
(***************************************************************************)
LastIn(P, B, i) == i \in DOMAIN P /\ P[i] \in B /\ \A k \in DOMAIN P : k > i => P[k] \notin B
HasIn(P, B) == \E i \in DOMAIN P : P[i] \in B
ToldIn(P, B, A) == \E i \in DOMAIN P : LastIn(P, B, i) /\ P[i] \in A
OnlyIn(P, B, A) == \A i \in DOMAIN P : LastIn(P, B, i) => P[i] \in A

LEMMA NothingPending ==
  ASSUME NEW B, NEW A
  PROVE  OnlyIn(<<>>, B, A) /\ ~HasIn(<<>>, B) /\ ~ToldIn(<<>>, B, A)
BY DEF OnlyIn, HasIn, ToldIn

\* A push that bears on the entry is the last to do so.
LEMMA PushTells ==
  ASSUME NEW S, NEW P \in Seq(S), NEW p, NEW B, NEW A, p \in B, p \in A
  PROVE  LET Q == Append(P, p) IN HasIn(Q, B) /\ ToldIn(Q, B, A) /\ OnlyIn(Q, B, A)
<1> DEFINE Q == Append(P, p)
           n == Len(P) + 1
<1>1. DOMAIN Q = 1..n /\ n \in Nat /\ n \in DOMAIN Q /\ Q[n] = p
  OBVIOUS
<1> HIDE DEF Q, n
<1>2. LastIn(Q, B, n)
  BY <1>1 DEF LastIn
<1>3. \A i \in DOMAIN Q : LastIn(Q, B, i) => i = n
  BY <1>1 DEF LastIn
<1>4. HasIn(Q, B) /\ ToldIn(Q, B, A) /\ OnlyIn(Q, B, A)
  BY <1>1, <1>2, <1>3 DEF HasIn, ToldIn, OnlyIn
<1>5. QED
  BY <1>4 DEF Q

\* One that does not changes nothing, if the others mean what they did.
LEMMA PushIsIdle ==
  ASSUME NEW S, NEW P \in Seq(S), NEW p, NEW B, NEW A, NEW B2, NEW A2, p \notin B2,
         \A x \in S : (x \in B2 <=> x \in B) /\ (x \in A2 <=> x \in A)
  PROVE  LET Q == Append(P, p) IN
         /\ HasIn(P, B) => HasIn(Q, B2)
         /\ ToldIn(P, B, A) => ToldIn(Q, B2, A2)
         /\ OnlyIn(P, B, A) => OnlyIn(Q, B2, A2)
<1> DEFINE Q == Append(P, p)
           n == Len(P) + 1
<1>1. /\ DOMAIN Q = 1..n /\ DOMAIN P = 1..Len(P) /\ Len(P) \in Nat /\ Q[n] = p
      /\ \A i \in 1..Len(P) : Q[i] = P[i] /\ P[i] \in S
  OBVIOUS
<1> HIDE DEF Q
<1>2. \A i \in DOMAIN P : LastIn(P, B, i) => LastIn(Q, B2, i)
  BY <1>1 DEF LastIn
<1>3. \A i \in DOMAIN Q : LastIn(Q, B2, i) => i \in DOMAIN P /\ LastIn(P, B, i)
  BY <1>1 DEF LastIn
<1>4. (HasIn(P, B) => HasIn(Q, B2)) /\ (ToldIn(P, B, A) => ToldIn(Q, B2, A2))
  BY <1>1, <1>2 DEF HasIn, ToldIn
<1>5. OnlyIn(P, B, A) => OnlyIn(Q, B2, A2)
  BY <1>1, <1>3 DEF OnlyIn
<1>6. QED
  BY <1>4, <1>5 DEF Q

\* Taking the first leaves the last, unless it was that.
LEMMA PushTaken ==
  ASSUME NEW S, NEW P \in Seq(S), P # <<>>, NEW B, NEW A
  PROVE  LET Q == Tail(P) IN
         /\ OnlyIn(P, B, A) => OnlyIn(Q, B, A)
         /\ HasIn(P, B) => HasIn(Q, B) \/ LastIn(P, B, 1)
         /\ ToldIn(P, B, A) => ToldIn(Q, B, A) \/ (LastIn(P, B, 1) /\ P[1] \in A)
<1> DEFINE Q == Tail(P)
           n == Len(P)
<1>1. /\ n \in Nat \ {0} /\ DOMAIN P = 1..n /\ DOMAIN Q = 1..(n - 1)
      /\ \A i \in 1..(n - 1) : Q[i] = P[i + 1]
  OBVIOUS
<1> HIDE DEF Q, n
<1>2. \A i \in DOMAIN Q : LastIn(Q, B, i) => i + 1 \in DOMAIN P /\ LastIn(P, B, i + 1)
  <2> SUFFICES ASSUME NEW i \in DOMAIN Q, LastIn(Q, B, i)
               PROVE  i + 1 \in DOMAIN P /\ LastIn(P, B, i + 1)
    OBVIOUS
  <2>1. i + 1 \in DOMAIN P /\ P[i + 1] \in B
    BY <1>1 DEF LastIn
  <2>2. ASSUME NEW k \in DOMAIN P, k > i + 1
        PROVE  P[k] \notin B
    <3>1. k - 1 \in DOMAIN Q /\ k - 1 > i /\ Q[k - 1] = P[k]
      BY <1>1, <2>2
    <3>2. QED
      BY <3>1 DEF LastIn
  <2>3. QED
    BY <2>1, <2>2 DEF LastIn
<1>3. \A i \in DOMAIN P : i # 1 => i - 1 \in DOMAIN Q /\ Q[i - 1] = P[i]
  BY <1>1
<1>4. \A i \in DOMAIN P : LastIn(P, B, i) /\ i # 1 => LastIn(Q, B, i - 1)
  <2> SUFFICES ASSUME NEW i \in DOMAIN P, LastIn(P, B, i), i # 1
               PROVE  LastIn(Q, B, i - 1)
    OBVIOUS
  <2>1. i - 1 \in DOMAIN Q /\ Q[i - 1] \in B
    BY <1>3 DEF LastIn
  <2>2. ASSUME NEW k \in DOMAIN Q, k > i - 1
        PROVE  Q[k] \notin B
    <3>1. k + 1 \in DOMAIN P /\ k + 1 > i /\ Q[k] = P[k + 1]
      BY <1>1, <2>2
    <3>2. QED
      BY <3>1 DEF LastIn
  <2>3. QED
    BY <2>1, <2>2 DEF LastIn
<1>5. OnlyIn(P, B, A) => OnlyIn(Q, B, A)
  BY <1>1, <1>2 DEF OnlyIn
<1>6. HasIn(P, B) => HasIn(Q, B) \/ LastIn(P, B, 1)
  <2>1. \A i \in DOMAIN P : i # 1 /\ P[i] \in B => HasIn(Q, B)
    BY <1>3 DEF HasIn
  <2>2. P[1] \in B /\ ~LastIn(P, B, 1) => \E k \in DOMAIN P : k # 1 /\ P[k] \in B
    BY <1>1 DEF LastIn
  <2>3. QED
    BY <2>1, <2>2 DEF HasIn
<1>7. ToldIn(P, B, A) => ToldIn(Q, B, A) \/ (LastIn(P, B, 1) /\ P[1] \in A)
  BY <1>3, <1>4 DEF ToldIn
<1>8. QED
  BY <1>5, <1>6, <1>7 DEF Q

-----------------------------------------------------------------------------
(***************************************************************************)
(* The inductive invariant.  Right is what the entry should hold, by the   *)
(* agent for the newest run.  Nobody was told of a change made while the   *)
(* agent was offline: what would show it is Stale until the sync brings    *)
(* it, and then it is on record as lost.                                   *)
(***************************************************************************)
Started == {r \in Tab!Runs : agent[r] # "none"}
Newest == Cardinality(Started)
Right == IF shown = "latest"
         THEN [run |-> Newest, status |-> IF Newest = 0 THEN "none" ELSE agent[Newest]]
         ELSE Tab!CountUnseen(below, marked)
Stale == shown = "latest" /\ Newest > 0 /\ row[Newest] # agent[Newest] /\ told[Newest] # agent[Newest]

\* A status is one another follows.
Past(s, t) == s = t \/ s = "none" \/ (s = "running" /\ t \in {"success", "failed"})
              \/ (s = "success" /\ t = "failed")
RowsFollow == \A r \in Tab!Runs :
  /\ Past(row[r], agent[r]) /\ Past(told[r], agent[r])
  /\ told[r] = agent[r] /\ agent[r] \in Tab!Final => row[r] = agent[r]

Updates == [type : {"JOB_UPDATE"}, run : 1..Newest, status : Tab!Statuses, gap : {"none", "lost"}]
Counts == [type : {"HISTORY_SEEN"}, count : 0..MaxRuns, gap : {"none", "lost"}]
Pushed == Updates \cup (IF shown = "latest" THEN {} ELSE Counts)

\* The pushes that bear on the entry, and those that make it right.
Bearing == {p \in Pushed : IF shown = "latest" THEN p.run = Newest
                           ELSE p.type = "HISTORY_SEEN" \/ p.status \in Tab!ToBeSeen}
Telling == {p \in Pushed : IF shown = "latest" THEN p.status = agent[Newest]
                           ELSE p.type = "JOB_UPDATE" \/ p.count = Right}
Missed == {p \in Pushed : p.gap = "lost"}

QueueHolds == OnlyIn(pushes, Bearing, Telling \cup Missed) \/ Stale
EntryHolds == gap = "none" => Stale \/ entry = <<Right>> \/ HasIn(pushes, Bearing) \/ fetch.at # "idle"
AnswerHolds(q) == q.at = "answered" /\ q.gap = "none" =>
                    Stale \/ q.value = <<Right>> \/ ToldIn(pushes, Bearing, Telling)
Follows == QueueHolds /\ EntryHolds /\ AnswerHolds(fetch) /\ AnswerHolds(answer)

RunsHold == Newest \in 0..MaxRuns /\ Started = 1..Newest /\ RowsFollow
PushesHold == pushes \in Seq(Pushed) /\ (shown = "latest" => answer.at = "idle")
ToastsHold == (\A x \in toasts : x[1] \in reported) /\ Tab!ToldOnce

\* Nothing later than the newest run is shown, and a gap is that of an answer.
Shows(value) == shown = "latest" /\ value # <<>> => value[1].run <= Newest
Requested(q) == Shows(q.value) /\ (q.at # "answered" => q.gap = "none")
ValuesHold == Shows(entry) /\ Requested(fetch) /\ Requested(answer) /\ (entry = <<>> => fetch.at # "idle")

\* What was missed while the socket was down is read again once it is up.
DownsHold ==
  /\ "down" \in {gap, fetch.gap, answer.gap} => connected
  /\ socketOf = "open" => /\ "down" \notin {fetch.gap, answer.gap}
                          /\ gap = "down" => fetch.at # "idle"

TInv == Tab!TypeOK /\ RunsHold /\ PushesHold /\ ToastsHold /\ ValuesHold /\ DownsHold /\ Follows

-----------------------------------------------------------------------------
(* Helpers.                                                                *)
LEMMA SameCount == \A S : Tab!Cardinality(S) = Cardinality(S)
BY Zenon DEF Tab!Cardinality, Cardinality

LEMMA GreatestIn ==
  ASSUME NEW n \in Nat, NEW S \in SUBSET (1..n), S # {}
  PROVE  \E x \in S : \A y \in S : y <= x
<1> DEFINE R == OpToRel(<, Nat)
           T == {n - x : x \in S}
<1>1. IsWellFoundedOn(R, Nat)
  BY NatLessThanWellFounded
<1>2. \A x, y \in Nat : x < y => <<x, y>> \in R
  BY DEF OpToRel
<1>3. T \subseteq Nat /\ T # {}
  <2>1. \A x \in S : n - x \in Nat
    OBVIOUS
  <2>2. QED
    BY <2>1
<1> HIDE DEF R, T
<1>4. PICK m \in T : \A k \in T : ~(<<k, m>> \in R)
  BY <1>1, <1>3, WFMin
<1>5. PICK x \in S : m = n - x
  BY <1>4 DEF T
<1>6. \A y \in S : n - y \in T
  BY DEF T
<1>7. ASSUME NEW y \in S
      PROVE  y <= x
  <2>1. ~(n - y < n - x)
    BY <1>2, <1>3, <1>4, <1>5, <1>6
  <2>2. QED
    BY <2>1
<1>8. QED
  BY <1>7

LEMMA Worsens ==
  ASSUME NEW a \in Tab!Gaps, NEW b \in Tab!Gaps
  PROVE  /\ Tab!Worse(a, b) \in Tab!Gaps
         /\ Tab!Worse(a, "none") = a /\ Tab!Worse("none", b) = b
         /\ Tab!Worse(a, b) = "none" <=> a = "none" /\ b = "none"
         /\ Tab!Worse(a, b) = "down" => "down" \in {a, b} /\ "lost" \notin {a, b}
BY DEF Tab!Worse, Tab!Gaps

LEMMA Lateness ==
  ASSUME NEW q \in Tab!Requests, NEW why \in Tab!Gaps
  PROVE  LET z == Tab!LateIfAnswered(q, why) IN
         /\ z \in Tab!Requests /\ z.at = q.at /\ z.value = q.value
         /\ z.gap = IF q.at = "answered" THEN Tab!Worse(q.gap, why) ELSE q.gap
         /\ why = "none" => z = q
<1> DEFINE g == Tab!Worse(q.gap, why)
           x == [q EXCEPT !.gap = g]
<1>1. q.gap \in Tab!Gaps
  BY DEF Tab!Requests
<1>2. g \in Tab!Gaps /\ (why = "none" => g = q.gap)
  BY <1>1, Worsens
<1> HIDE DEF g
<1>3. x \in Tab!Requests /\ x.at = q.at /\ x.value = q.value /\ x.gap = g /\ (g = q.gap => x = q)
  BY <1>2 DEF Tab!Requests
<1>4. Tab!LateIfAnswered(q, why) = IF q.at = "answered" THEN x ELSE q
  BY Zenon DEF Tab!LateIfAnswered, Tab!Late, g
<1> HIDE DEF x
<1>5. QED
  BY <1>2, <1>3, <1>4 DEF g

LEMMA AskingTyped == Tab!Asking \in Tab!Requests /\ Tab!Asking.at = "asked" /\ Tab!Asking.value = <<>>
                     /\ Tab!Asking.gap = "none"
                     /\ Tab!Idle \in Tab!Requests /\ Tab!Idle.at = "idle" /\ Tab!Idle.value = <<>>
                     /\ Tab!Idle.gap = "none"
BY DEF Tab!Asking, Tab!Idle, Tab!Requests, Tab!Gaps, Tab!Cached

-----------------------------------------------------------------------------
(***************************************************************************)
(* The runs of the agent.                                                  *)
(***************************************************************************)
Turns(r, s) == \/ r = Newest + 1 /\ r \in Tab!Runs /\ s \in {"running", "missed"}
               \/ r \in 1..Newest /\ agent[r] = "running" /\ s \in {"success", "failed"}
               \/ r \in 1..Newest /\ agent[r] = "success" /\ s = "failed"

LEMMA RunTurns ==
  ASSUME TabAssumption, TInv, NEW r, NEW s, Turns(r, s), agent' = [agent EXCEPT ![r] = s]
  PROVE  /\ r \in Tab!Runs /\ s \in Tab!Statuses /\ s # "none" /\ agent' \in [Tab!Runs -> Tab!Statuses]
         /\ Newest' = (IF r = Newest + 1 THEN r ELSE Newest) /\ Newest' \in 0..MaxRuns
         /\ Newest \in 0..MaxRuns /\ Started' = 1..Newest' /\ r \in 1..Newest'
<1>1. MaxRuns \in Nat /\ Newest \in 0..MaxRuns /\ Started = 1..Newest /\ agent \in [Tab!Runs -> Tab!Statuses]
      /\ Tab!Runs = 1..MaxRuns
  BY DEF TabAssumption, TInv, RunsHold, Tab!TypeOK, Tab!Runs
<1>2. r \in Tab!Runs /\ s \in Tab!Statuses /\ s # "none"
  BY <1>1 DEF Turns, Tab!Statuses, Tab!Final, Tab!ToBeSeen
<1> DEFINE n == IF r = Newest + 1 THEN r ELSE Newest
<1>3. Started' = 1..n /\ n \in 0..MaxRuns /\ r \in 1..n
  <2>1. \A x \in Tab!Runs : agent'[x] # "none" <=> x = r \/ agent[x] # "none"
    BY <1>1, <1>2
  <2>2. \A x \in Tab!Runs : agent'[x] # "none" <=> x \in 1..n
    BY <1>1, <1>2, <2>1 DEF Started, Turns
  <2>3. n \in 0..MaxRuns /\ r \in 1..n
    BY <1>1, <1>2 DEF Turns
  <2> HIDE DEF n
  <2>4. QED
    BY <1>1, <2>2, <2>3 DEF Started
<1> HIDE DEF n
<1>4. Newest' = n
  BY <1>1, <1>3, FS_Interval DEF Newest
<1>5. QED
  BY <1>1, <1>2, <1>3, <1>4 DEF n

LEMMA RowsTurn ==
  ASSUME TabAssumption, TInv, NEW r, NEW s, Turns(r, s), Tab!StatusUpdate(r, s)
  PROVE  /\ RunsHold' /\ {row', told'} \subseteq [Tab!Runs -> Tab!Statuses]
         /\ row[r] # s /\ told[r] # s
         /\ row[r] \in Tab!ToBeSeen => s \in Tab!ToBeSeen
<1>1. agent' = [agent EXCEPT ![r] = s]
  BY DEF Tab!StatusUpdate
<1>2. /\ r \in Tab!Runs /\ s \in Tab!Statuses /\ agent' \in [Tab!Runs -> Tab!Statuses]
      /\ Newest' \in 0..MaxRuns /\ Started' = 1..Newest'
  BY <1>1, RunTurns
<1>3. /\ agent \in [Tab!Runs -> Tab!Statuses] /\ row \in [Tab!Runs -> Tab!Statuses]
      /\ told \in [Tab!Runs -> Tab!Statuses]
  BY DEF TInv, Tab!TypeOK
<1>4. Past(row[r], agent[r]) /\ Past(told[r], agent[r])
  BY <1>2 DEF TInv, RunsHold, RowsFollow
<1>5. \/ agent[r] = "none" /\ s \in {"running", "missed"}
      \/ agent[r] = "running" /\ s \in {"success", "failed"}
      \/ agent[r] = "success" /\ s = "failed"
  <2>1. CASE r = Newest + 1
    <3>1. r \notin Started
      BY <2>1 DEF TInv, RunsHold
    <3>2. QED
      BY <1>2, <2>1, <3>1 DEF Started, Turns, TInv, RunsHold
  <2>2. CASE r # Newest + 1
    BY <2>2 DEF Turns
  <2>3. QED
    BY <2>1, <2>2
<1>6. row[r] # s /\ told[r] # s /\ (row[r] \in Tab!ToBeSeen => s \in Tab!ToBeSeen)
  BY <1>4, <1>5 DEF Past, Tab!ToBeSeen
<1>7. /\ online => /\ row' = (IF s \in Tab!Final THEN [row EXCEPT ![r] = s] ELSE row)
                   /\ told' = [told EXCEPT ![r] = s]
      /\ ~online => row' = row /\ told' = told
  BY DEF Tab!StatusUpdate
<1>8. row' \in [Tab!Runs -> Tab!Statuses] /\ told' \in [Tab!Runs -> Tab!Statuses]
  BY <1>2, <1>3, <1>7
<1>9. RowsFollow'
  <2> SUFFICES ASSUME NEW x \in Tab!Runs
               PROVE  /\ Past(row'[x], agent'[x]) /\ Past(told'[x], agent'[x])
                      /\ told'[x] = agent'[x] /\ agent'[x] \in Tab!Final => row'[x] = agent'[x]
    BY DEF RowsFollow
  <2>1. CASE x # r
    <3>1. agent'[x] = agent[x] /\ row'[x] = row[x] /\ told'[x] = told[x]
      BY <1>1, <1>2, <1>3, <1>7, <2>1
    <3>2. QED
      BY <3>1 DEF TInv, RunsHold, RowsFollow
  <2>2. CASE x = r
    <3>1. agent'[r] = s /\ row'[r] \in {row[r], s} /\ told'[r] \in {told[r], s}
          /\ (told'[r] = s /\ s \in Tab!Final => row'[r] = s)
      BY <1>1, <1>2, <1>3, <1>6, <1>7
    <3>2. Past(row[r], s) /\ Past(told[r], s) /\ Past(s, s)
      BY <1>4, <1>5 DEF Past
    <3>3. QED
      BY <2>2, <3>1, <3>2
  <2>3. QED
    BY <2>1, <2>2
<1>10. QED
  BY <1>2, <1>6, <1>8, <1>9 DEF RunsHold

\* What tells of the turn is right; what does not leaves all as it was.
LEMMA PushOfTurn ==
  ASSUME TabAssumption, TInv, NEW r, NEW s, Turns(r, s), Tab!StatusUpdate(r, s)
  PROVE  LET p == Tab!JobUpdate(r, s) IN
         /\ Pushed \subseteq Pushed' /\ p \in Pushed'
         /\ p \in Bearing' => p \in Telling'
         /\ p \notin Bearing' \/ ~online =>
              \/ Stale'
              \/ /\ Right' = Right /\ (Stale => Stale')
                 /\ \A x \in Pushed : /\ (x \in Bearing' <=> x \in Bearing)
                                     /\ (x \in Telling' <=> x \in Telling)
                                     /\ (x \in Missed' <=> x \in Missed)
<1> DEFINE p == Tab!JobUpdate(r, s)
<1>1. agent' = [agent EXCEPT ![r] = s] /\ shown' = shown /\ below' = below /\ marked' = marked
  BY DEF Tab!StatusUpdate
<1>2. /\ r \in Tab!Runs /\ s \in Tab!Statuses /\ Newest \in 0..MaxRuns /\ Newest' \in 0..MaxRuns
      /\ Newest' = (IF r = Newest + 1 THEN r ELSE Newest) /\ r \in 1..Newest' /\ MaxRuns \in Nat
  BY <1>1, RunTurns DEF TabAssumption
<1>3. p.type = "JOB_UPDATE" /\ p.run = r /\ p.status = s /\ p.gap = "none"
      /\ p \in Updates'
  BY <1>2 DEF Tab!JobUpdate, Updates
<1>4. Newest <= Newest' /\ Pushed \subseteq Pushed' /\ p \in Pushed'
  BY <1>1, <1>2, <1>3 DEF Pushed, Updates, Counts
<1> HIDE DEF p
<1>5. agent \in [Tab!Runs -> Tab!Statuses] /\ row \in [Tab!Runs -> Tab!Statuses]
      /\ told \in [Tab!Runs -> Tab!Statuses] /\ Tab!Runs = 1..MaxRuns
  BY DEF TInv, Tab!TypeOK, Tab!Runs
<1>6. \A x \in Pushed : x \in Pushed' /\ (x \in Missed' <=> x \in Missed)
  BY <1>4 DEF Missed
<1>7. row[r] # s /\ told[r] # s /\ (row[r] \in Tab!ToBeSeen => s \in Tab!ToBeSeen)
  BY RowsTurn
<1>8. CASE shown = "latest"
  <2>1. p \in Bearing' => p \in Telling'
    <3>1. p.run = Newest' => p.status = agent'[Newest']
      BY <1>1, <1>2, <1>3, <1>5
    <3>2. QED
      BY <1>1, <1>4, <1>8, <3>1 DEF Bearing, Telling
  <2>2. CASE r = Newest'
    <3>1. p \in Bearing'
      BY <1>1, <1>3, <1>4, <1>8, <2>2 DEF Bearing
    <3>2. ~online => row' = row /\ told' = told
      BY DEF Tab!StatusUpdate
    <3>3. ~online => Stale'
      BY <1>1, <1>2, <1>5, <1>7, <1>8, <2>2, <3>2 DEF Stale
    <3>4. QED
      BY <1>4, <2>1, <3>1, <3>3 DEF p
  <2>3. CASE r # Newest'
    <3>1. Newest' = Newest /\ r < Newest /\ Newest \in Tab!Runs
      BY <1>2, <1>5, <2>3
    <3>2. agent'[Newest] = agent[Newest] /\ row'[Newest] = row[Newest] /\ told'[Newest] = told[Newest]
      <4>1. row' \in {row, [row EXCEPT ![r] = s]} /\ told' \in {told, [told EXCEPT ![r] = s]}
        BY DEF Tab!StatusUpdate
      <4>2. r # Newest /\ Newest \in Tab!Runs /\ r \in Tab!Runs
        BY <1>2, <3>1
      <4>3. QED
        BY <1>1, <1>5, <4>1, <4>2
    <3>3. Right' = Right /\ (Stale => Stale')
      BY <1>1, <1>8, <3>1, <3>2 DEF Right, Stale
    <3>4. \A x \in Pushed : (x \in Bearing' <=> x \in Bearing) /\ (x \in Telling' <=> x \in Telling)
      BY <1>1, <1>6, <1>8, <3>1, <3>2 DEF Bearing, Telling
    <3>5. QED
      BY <1>4, <1>6, <2>1, <3>3, <3>4 DEF p
  <2>4. QED
    BY <2>2, <2>3
<1>9. CASE shown # "latest"
  <2>1. p \in Telling'
    BY <1>1, <1>3, <1>4, <1>9 DEF Telling
  <2>2. CASE p \notin Bearing' \/ ~online
    <3>1. ASSUME ~online
          PROVE  Right' = Right
      <4>1. row' = row
        BY <3>1 DEF Tab!StatusUpdate
      <4>2. QED
        BY <4>1, <1>1, <1>9 DEF Right, Tab!CountUnseen
    <3>2. ASSUME p \notin Bearing', online
          PROVE  Right' = Right
      <4>1. s \notin Tab!ToBeSeen
        BY <1>1, <1>3, <1>4, <1>9, <3>2 DEF Bearing
      <4>2. row' = row \/ row' = [row EXCEPT ![r] = s]
        BY <3>2 DEF Tab!StatusUpdate
      <4>3. \A x \in Tab!Runs : row'[x] \in Tab!ToBeSeen <=> row[x] \in Tab!ToBeSeen
        BY <4>1, <4>2, <1>2, <1>5, <1>7
      <4>4. QED
        BY <4>3, <1>1, <1>9 DEF Right, Tab!CountUnseen
    <3>3. Right' = Right
      BY <2>2, <3>1, <3>2
    <3>4. \A x \in Pushed : (x \in Bearing' <=> x \in Bearing) /\ (x \in Telling' <=> x \in Telling)
      BY <1>1, <1>6, <1>9, <3>3 DEF Bearing, Telling
    <3>5. QED
      BY <1>1, <1>4, <1>6, <1>9, <2>1, <3>3, <3>4 DEF p, Stale
  <2>3. CASE ~(p \notin Bearing' \/ ~online)
    BY <1>4, <2>1, <2>3 DEF p
  <2>4. QED
    BY <2>2, <2>3
<1>10. QED
  BY <1>8, <1>9

\* A change the server pushes, to a tab with a socket or to one without.
Pushes(p) ==
  /\ pushes' = (IF socketOf # "none" THEN Append(pushes, p) ELSE pushes)
  /\ gap' = Tab!Worse(gap, Tab!WhileDown) /\ fetch' = Tab!LateIfAnswered(fetch, Tab!WhileDown)
  /\ UNCHANGED <<shown, socketOf, connected, entry>>
SameSets == \A x \in Pushed : /\ (x \in Bearing' <=> x \in Bearing)
                             /\ (x \in Telling' <=> x \in Telling)
                             /\ (x \in Missed' <=> x \in Missed)
Unmoved == Stale' \/ (Right' = Right /\ (Stale => Stale') /\ SameSets)

LEMMA ShowsMore ==
  ASSUME Newest \in Nat, Newest' \in Nat, Newest <= Newest', shown' = shown, TabAssumption
  PROVE  \A v \in Tab!Cached : Shows(v) => (shown' = "latest" /\ v # <<>> => v[1].run <= Newest')
<1> SUFFICES ASSUME NEW v \in Tab!Cached, Shows(v), shown = "latest", v # <<>>
             PROVE  v[1].run <= Newest'
  OBVIOUS
<1>1. v[1] \in [run : 0..MaxRuns, status : Tab!Statuses]
  BY DEF Tab!Cached, Tab!Values
<1>2. v[1].run \in Nat /\ v[1].run <= Newest
  BY <1>1 DEF Shows, TabAssumption
<1>3. QED
  BY <1>2

LEMMA PushedFollows ==
  ASSUME pushes \in Seq(Pushed), Pushed \subseteq Pushed', NEW p \in Pushed', pushes' = Append(pushes, p),
         p \in Bearing' => p \in Telling', p \notin Bearing' => Unmoved
  PROVE  /\ QueueHolds => QueueHolds'
         /\ \A v : Stale \/ v = <<Right>> \/ HasIn(pushes, Bearing) =>
                   (Stale' \/ v = <<Right'>> \/ HasIn(pushes', Bearing'))
         /\ \A v : Stale \/ v = <<Right>> \/ ToldIn(pushes, Bearing, Telling) =>
                   (Stale' \/ v = <<Right'>> \/ ToldIn(pushes', Bearing', Telling'))
<1>1. CASE p \in Bearing'
  <2>1. p \in Telling' /\ p \in Telling' \cup Missed'
    BY <1>1
  <2>2. HasIn(pushes', Bearing') /\ ToldIn(pushes', Bearing', Telling')
    BY <1>1, <2>1, PushTells
  <2>3. OnlyIn(pushes', Bearing', Telling' \cup Missed')
    <3> DEFINE A == Telling' \cup Missed'
    <3> HIDE DEF A
    <3>1. p \in A
      BY <2>1 DEF A
    <3>2. OnlyIn(pushes', Bearing', A)
      BY <1>1, <3>1, PushTells
    <3>3. QED
      BY <3>2 DEF A
  <2>4. QED
    BY <2>2, <2>3 DEF QueueHolds
<1>2. CASE p \notin Bearing' /\ Stale'
  BY <1>2 DEF QueueHolds
<1>3. CASE p \notin Bearing' /\ ~Stale'
  <2>1. Right' = Right /\ ~Stale /\ SameSets
    BY <1>3 DEF Unmoved
  <2> DEFINE A == Telling \cup Missed
             A2 == Telling' \cup Missed'
  <2>2. \A x \in Pushed : (x \in Bearing' <=> x \in Bearing) /\ (x \in A2 <=> x \in A)
                          /\ (x \in Telling' <=> x \in Telling)
    BY <2>1 DEF SameSets
  <2> HIDE DEF A, A2
  <2>3. OnlyIn(pushes, Bearing, A) => OnlyIn(pushes', Bearing', A2)
    BY <1>3, <2>2, PushIsIdle
  <2>4. /\ HasIn(pushes, Bearing) => HasIn(pushes', Bearing')
        /\ ToldIn(pushes, Bearing, Telling) => ToldIn(pushes', Bearing', Telling')
    BY <1>3, <2>2, PushIsIdle
  <2>5. QED
    BY <2>1, <2>3, <2>4 DEF QueueHolds, A, A2
<1>4. QED
  BY <1>1, <1>2, <1>3

LEMMA PushedKeeps ==
  ASSUME TabAssumption, TInv, Newest \in Nat, Newest' \in Nat, Newest <= Newest', Pushed \subseteq Pushed',
         NEW p \in Pushed', Pushes(p), p \in Bearing' => p \in Telling', p \notin Bearing' => Unmoved
  PROVE  /\ pushes' \in Seq(Pushed') /\ (socketOf' = "none" => pushes' = <<>>)
         /\ gap' \in Tab!Gaps /\ fetch' \in Tab!Requests /\ ((fetch'.at = "answered") = (fetch'.value # <<>>))
         /\ Shows(entry)' /\ Requested(fetch)' /\ (entry' = <<>> => fetch'.at # "idle")
         /\ QueueHolds' /\ EntryHolds' /\ AnswerHolds(fetch)'
         /\ "down" \in {gap', fetch'.gap} => connected'
         /\ socketOf' = "open" => fetch'.gap # "down" /\ (gap' = "down" => fetch'.at # "idle")
         /\ answer' = Tab!LateIfAnswered(answer, Tab!WhileDown) =>
              /\ answer' \in Tab!Requests /\ ((answer'.at = "answered") = (answer'.value # <<>>))
              /\ answer'.at = answer.at
              /\ Requested(answer)' /\ AnswerHolds(answer)' /\ (answer'.gap = "down" => connected')
              /\ (socketOf' = "open" => answer'.gap # "down")
<1> DEFINE why == Tab!WhileDown
<1>1. /\ why \in Tab!Gaps /\ (socketOf # "none" => why = "none") /\ (socketOf = "none" => why # "none")
      /\ (why = "down" => connected)
  BY DEF Tab!WhileDown, Tab!Gaps
<1>2. /\ gap \in Tab!Gaps /\ fetch \in Tab!Requests /\ answer \in Tab!Requests
      /\ ((fetch.at = "answered") = (fetch.value # <<>>)) /\ ((answer.at = "answered") = (answer.value # <<>>))
      /\ fetch.gap \in Tab!Gaps /\ answer.gap \in Tab!Gaps
  BY DEF TInv, Tab!TypeOK, Tab!Requests
<1>3. /\ gap' = Tab!Worse(gap, why) /\ fetch' = Tab!LateIfAnswered(fetch, why)
      /\ entry' = entry /\ shown' = shown /\ socketOf' = socketOf /\ connected' = connected
      /\ pushes' = (IF socketOf # "none" THEN Append(pushes, p) ELSE pushes)
  BY DEF Pushes
<1> HIDE DEF why
<1>4. /\ fetch' \in Tab!Requests /\ fetch'.at = fetch.at /\ fetch'.value = fetch.value
      /\ fetch'.gap = (IF fetch.at = "answered" THEN Tab!Worse(fetch.gap, why) ELSE fetch.gap)
  BY <1>1, <1>2, <1>3, Lateness
<1>5. gap' \in Tab!Gaps /\ Tab!Worse(fetch.gap, why) \in Tab!Gaps /\ Tab!Worse(answer.gap, why) \in Tab!Gaps
      /\ (why = "none" => /\ gap' = gap /\ Tab!Worse(fetch.gap, why) = fetch.gap
                          /\ Tab!Worse(answer.gap, why) = answer.gap)
      /\ (why # "none" => /\ gap' # "none" /\ Tab!Worse(fetch.gap, why) # "none"
                          /\ Tab!Worse(answer.gap, why) # "none")
      /\ (gap' = "down" => "down" \in {gap, why})
      /\ (Tab!Worse(fetch.gap, why) = "down" => "down" \in {fetch.gap, why})
      /\ (Tab!Worse(answer.gap, why) = "down" => "down" \in {answer.gap, why})
  BY <1>1, <1>2, <1>3, Worsens
<1>6. pushes \in Seq(Pushed) /\ pushes \in Seq(Pushed') /\ (socketOf = "none" => pushes = <<>>)
  BY DEF TInv, PushesHold, Tab!TypeOK
<1>7. pushes' \in Seq(Pushed') /\ (socketOf' = "none" => pushes' = <<>>)
  BY <1>3, <1>6
<1>8. /\ Shows(entry)' /\ Requested(fetch)' /\ (entry' = <<>> => fetch'.at # "idle")
      /\ (shown' = "latest" /\ answer.value # <<>> => answer.value[1].run <= Newest')
  <2>1. fetch.value \in Tab!Cached /\ answer.value \in Tab!Cached /\ entry \in Tab!Cached
    BY <1>2 DEF Tab!Requests, TInv, Tab!TypeOK
  <2>2. \A v \in {fetch.value, answer.value, entry} : shown' = "latest" /\ v # <<>> => v[1].run <= Newest'
    BY <1>3, <2>1, ShowsMore DEF TInv, ValuesHold, Requested
  <2>3. QED
    BY <1>3, <1>4, <2>2 DEF Shows, Requested, TInv, ValuesHold
<1>9. AnswerHolds(fetch) /\ AnswerHolds(answer) /\ EntryHolds /\ QueueHolds
  BY DEF TInv, Follows
<1>10. QueueHolds' /\ EntryHolds' /\ AnswerHolds(fetch)'
  <2>1. CASE socketOf = "none"
    <3>1. gap' # "none" /\ (fetch'.at = "answered" => fetch'.gap # "none") /\ pushes' = <<>>
      BY <1>1, <1>3, <1>4, <1>5, <1>6, <2>1
    <3>2. QED
      BY <3>1, NothingPending DEF QueueHolds, EntryHolds, AnswerHolds
  <2>2. CASE socketOf # "none"
    <3>1. /\ pushes' = Append(pushes, p) /\ gap' = gap /\ fetch'.at = fetch.at /\ fetch'.value = fetch.value
          /\ fetch'.gap = fetch.gap
      BY <1>1, <1>3, <1>4, <1>5, <2>2
    <3>2. QueueHolds'
      BY <1>6, <1>9, <3>1, PushedFollows
    <3>3. EntryHolds'
      BY <1>3, <1>6, <1>9, <3>1, PushedFollows DEF EntryHolds
    <3>4. AnswerHolds(fetch)'
      BY <1>6, <1>9, <3>1, PushedFollows DEF AnswerHolds
    <3>5. QED
      BY <3>2, <3>3, <3>4
  <2>3. QED
    BY <2>1, <2>2
<1>11. /\ "down" \in {gap', fetch'.gap} => connected'
       /\ socketOf' = "open" => fetch'.gap # "down" /\ (gap' = "down" => fetch'.at # "idle")
  BY <1>1, <1>3, <1>4, <1>5 DEF TInv, DownsHold
<1>12. ASSUME answer' = Tab!LateIfAnswered(answer, Tab!WhileDown)
       PROVE  /\ answer' \in Tab!Requests /\ ((answer'.at = "answered") = (answer'.value # <<>>))
              /\ answer'.at = answer.at
              /\ Requested(answer)' /\ AnswerHolds(answer)' /\ (answer'.gap = "down" => connected')
              /\ (socketOf' = "open" => answer'.gap # "down")
  <2>1. /\ answer' \in Tab!Requests /\ answer'.at = answer.at /\ answer'.value = answer.value
        /\ answer'.gap = (IF answer.at = "answered" THEN Tab!Worse(answer.gap, why) ELSE answer.gap)
    BY <1>1, <1>2, <1>12, Lateness DEF why
  <2>2. Requested(answer)'
    BY <1>3, <1>8, <2>1 DEF Requested, Shows, TInv, ValuesHold
  <2>3. AnswerHolds(answer)'
    <3>1. CASE socketOf = "none"
      BY <1>1, <1>5, <2>1, <3>1 DEF AnswerHolds
    <3>2. CASE socketOf # "none"
      <4>1. /\ pushes' = Append(pushes, p) /\ answer'.gap = answer.gap
        BY <1>1, <1>3, <1>5, <2>1, <3>2
      <4>2. QED
        BY <1>6, <1>9, <2>1, <4>1, PushedFollows DEF AnswerHolds
    <3>3. QED
      BY <3>1, <3>2
  <2>4. QED
    BY <1>1, <1>2, <1>3, <1>5, <2>1, <2>2, <2>3 DEF TInv, DownsHold
<1>13. QED
  BY <1>2, <1>4, <1>5, <1>7, <1>8, <1>10, <1>11, <1>12

LEMMA UnmovedFollows ==
  ASSUME TInv, pushes' = pushes, Unmoved
  PROVE  /\ QueueHolds' /\ (gap' = gap /\ entry' = entry /\ fetch' = fetch => EntryHolds')
         /\ fetch' = fetch => AnswerHolds(fetch)'
         /\ answer' = answer => AnswerHolds(answer)'
<1>1. CASE Stale'
  BY <1>1 DEF QueueHolds, EntryHolds, AnswerHolds
<1>2. CASE ~Stale'
  <2>1. Right' = Right /\ ~Stale /\ SameSets
    BY <1>2 DEF Unmoved
  <2>2. \A i \in DOMAIN pushes : pushes[i] \in Pushed
    BY DEF TInv, PushesHold
  <2>3. \A i \in DOMAIN pushes : /\ (pushes[i] \in Bearing' <=> pushes[i] \in Bearing)
                               /\ (pushes[i] \in Telling' <=> pushes[i] \in Telling)
                               /\ (pushes[i] \in Missed' <=> pushes[i] \in Missed)
    BY <2>1, <2>2 DEF SameSets
  <2>4. /\ OnlyIn(pushes, Bearing, Telling \cup Missed) => OnlyIn(pushes, Bearing', Telling' \cup Missed')
        /\ HasIn(pushes, Bearing) => HasIn(pushes, Bearing')
        /\ ToldIn(pushes, Bearing, Telling) => ToldIn(pushes, Bearing', Telling')
    BY <2>3 DEF OnlyIn, HasIn, ToldIn, LastIn
  <2>5. QED
    BY <2>1, <2>4 DEF TInv, Follows, QueueHolds, EntryHolds, AnswerHolds
<1>3. QED
  BY <1>1, <1>2

\* What the queue holds is what may be pushed.
LEMMA PushedTyped ==
  ASSUME TabAssumption, NEW n \in 0..MaxRuns, NEW S, NEW P \in Seq(S),
         S \subseteq [type : {"JOB_UPDATE"}, run : 1..n, status : Tab!Statuses, gap : {"none", "lost"}]
                       \cup Counts
  PROVE  P \in Seq(Tab!Updates)
<1>1. [type : {"JOB_UPDATE"}, run : 1..n, status : Tab!Statuses, gap : {"none", "lost"}] \subseteq Tab!Updates
  BY DEF TabAssumption, Tab!Updates, Tab!Runs, Tab!Gaps
<1>2. Counts \subseteq Tab!Updates
  BY DEF TabAssumption, Tab!Updates, Counts, Tab!Gaps
<1>3. QED
  BY <1>1, <1>2

LEMMA PushesTyped ==
  ASSUME TabAssumption, Newest' \in 0..MaxRuns, pushes' \in Seq(Pushed')
  PROVE  pushes' \in Seq(Tab!Updates)
<1>1. Pushed' \subseteq [type : {"JOB_UPDATE"}, run : 1..Newest', status : Tab!Statuses, gap : {"none", "lost"}]
                      \cup Counts
  BY DEF Pushed, Updates, Counts
<1>2. QED
  BY <1>1, PushedTyped

LEMMA StatusKeeps ==
  ASSUME TabAssumption, TInv, NEW r, NEW s, Turns(r, s), Tab!StatusUpdate(r, s), asked' \in BOOLEAN
  PROVE  TInv'
<1>1. /\ UNCHANGED <<shown, online, below, marked, socketOf, connected, entry, reported, toasts>>
      /\ agent' = [agent EXCEPT ![r] = s]
  BY DEF Tab!StatusUpdate
<1>2. /\ RunsHold' /\ {row', told'} \subseteq [Tab!Runs -> Tab!Statuses]
      /\ agent' \in [Tab!Runs -> Tab!Statuses] /\ Newest' \in 0..MaxRuns /\ Newest \in 0..MaxRuns
      /\ Newest' \in Nat /\ Newest \in Nat /\ Newest <= Newest'
  <2>1. RunsHold' /\ {row', told'} \subseteq [Tab!Runs -> Tab!Statuses]
    BY RowsTurn
  <2>2. /\ agent' \in [Tab!Runs -> Tab!Statuses] /\ Newest' \in 0..MaxRuns /\ Newest \in 0..MaxRuns
        /\ Newest' = (IF r = Newest + 1 THEN r ELSE Newest)
    BY <1>1, RunTurns
  <2>3. MaxRuns \in Nat
    BY DEF TabAssumption
  <2>4. QED
    BY <2>1, <2>2, <2>3
<1>3. PICK p : p = Tab!JobUpdate(r, s)
  OBVIOUS
<1>4. /\ Pushed \subseteq Pushed' /\ p \in Pushed' /\ (p \in Bearing' => p \in Telling')
      /\ (p \notin Bearing' \/ ~online => Unmoved)
  BY <1>3, PushOfTurn DEF Unmoved, SameSets
<1>5. Tab!TypeOK
  BY DEF TInv
<1>6. ToastsHold'
  BY <1>1 DEF TInv, ToastsHold, Tab!ToldOnce
<1>7. /\ pushes' \in Seq(Pushed') /\ (socketOf' = "none" => pushes' = <<>>)
      /\ gap' \in Tab!Gaps /\ fetch' \in Tab!Requests /\ ((fetch'.at = "answered") = (fetch'.value # <<>>))
      /\ answer' \in Tab!Requests /\ ((answer'.at = "answered") = (answer'.value # <<>>))
      /\ (shown' = "latest" => answer'.at = "idle")
      /\ ValuesHold' /\ DownsHold' /\ Follows'
  <2>1. CASE online
    <3>1. Pushes(p) /\ answer' = Tab!LateIfAnswered(answer, Tab!WhileDown)
      BY <1>1, <1>3, <2>1 DEF Tab!StatusUpdate, Tab!Broadcast, Tab!Miss, Pushes
    <3>2. shown = "latest" => answer.at = "idle"
      BY DEF TInv, PushesHold
    <3>3. QED
      BY <1>1, <1>2, <1>4, <3>1, <3>2, PushedKeeps DEF ValuesHold, DownsHold, Follows
  <2>2. CASE ~online
    <3>1. UNCHANGED <<pushes, gap, fetch, answer>>
      BY <2>2 DEF Tab!StatusUpdate
    <3>2. Follows'
      BY <1>1, <1>4, <2>2, <3>1, UnmovedFollows DEF Follows
    <3>3. DownsHold'
      BY <1>1, <3>1 DEF TInv, DownsHold
    <3>4. fetch.value \in Tab!Cached /\ answer.value \in Tab!Cached /\ entry \in Tab!Cached
      BY <1>5 DEF Tab!Requests, Tab!TypeOK
    <3>5. ValuesHold'
      <4>1. \A v \in {fetch.value, answer.value, entry} : shown' = "latest" /\ v # <<>> => v[1].run <= Newest'
        BY <1>1, <1>2, <3>4, ShowsMore DEF TInv, ValuesHold, Requested
      <4>2. QED
        BY <1>1, <3>1, <4>1 DEF Shows, Requested, TInv, ValuesHold
    <3>6. pushes' \in Seq(Pushed')
      BY <1>4, <3>1 DEF TInv, PushesHold
    <3>7. QED
      BY <1>1, <1>5, <3>1, <3>2, <3>3, <3>5, <3>6 DEF Tab!TypeOK, TInv, PushesHold
  <2>3. QED
    BY <2>1, <2>2
<1>8. pushes' \in Seq(Tab!Updates)
  BY <1>2, <1>7, PushesTyped
<1>9. Tab!TypeOK'
  BY <1>1, <1>2, <1>5, <1>7, <1>8 DEF Tab!TypeOK, Tab!Requests, Tab!Cached, Tab!Values
<1>10. QED
  BY <1>2, <1>6, <1>7, <1>9 DEF TInv, PushesHold

LEMMA RunsKeep ==
  ASSUME TabAssumption, TInv,
         Tab!StartRun \/ Tab!MissRun \/ \E r \in Tab!Runs : Tab!EndRun(r) \/ Tab!Downgrade(r)
  PROVE  TInv'
<1>1. Newest \in 0..MaxRuns /\ Started = 1..Newest /\ MaxRuns \in Nat /\ asked \in BOOLEAN /\ online \in BOOLEAN
  BY DEF TInv, RunsHold, TabAssumption, Tab!TypeOK
<1>2. Tab!NextRun = Newest + 1
  <2>1. {r \in Tab!Runs : agent[r] # "none"} = Started
    BY DEF Started
  <2>2. QED
    BY <2>1, SameCount, Zenon DEF Tab!NextRun, Newest
<1>3. CASE Tab!StartRun
  <2>1. Turns(Tab!NextRun, "running")
    BY <1>1, <1>2, <1>3 DEF Tab!StartRun, Turns, Tab!Runs
  <2>2. Tab!StatusUpdate(Tab!NextRun, "running") /\ asked' \in BOOLEAN
    BY <1>1, <1>3 DEF Tab!StartRun
  <2>3. QED
    BY <2>1, <2>2, StatusKeeps
<1>4. CASE Tab!MissRun
  <2>1. Turns(Tab!NextRun, "missed")
    BY <1>1, <1>2, <1>4 DEF Tab!MissRun, Turns, Tab!Runs
  <2>2. Tab!StatusUpdate(Tab!NextRun, "missed") /\ asked' \in BOOLEAN
    BY <1>1, <1>4 DEF Tab!MissRun
  <2>3. QED
    BY <2>1, <2>2, StatusKeeps
<1>5. ASSUME NEW r \in Tab!Runs, Tab!EndRun(r) \/ Tab!Downgrade(r)
      PROVE  TInv'
  <2>1. PICK s \in {"success", "failed"} :
          /\ Tab!StatusUpdate(r, s) /\ (agent[r] = "running" \/ (agent[r] = "success" /\ s = "failed"))
    BY <1>5 DEF Tab!EndRun, Tab!Downgrade
  <2>2. asked' \in BOOLEAN
    BY <1>1, <1>5 DEF Tab!EndRun, Tab!Downgrade
  <2>3. r \in 1..Newest
    BY <1>1, <2>1 DEF Started
  <2>4. Turns(r, s)
    BY <2>1, <2>3 DEF Turns
  <2>5. QED
    BY <2>1, <2>2, <2>4, StatusKeeps
<1>6. QED
  BY <1>3, <1>4, <1>5

-----------------------------------------------------------------------------
(***************************************************************************)
(* The tab's own steps leave the server as it is.                          *)
(***************************************************************************)
ServerStays == UNCHANGED <<shown, agent, row, told, below, marked>>
Formed(q) == q \in Tab!Requests /\ ((q.at = "answered") = (q.value # <<>>))

LEMMA Stays ==
  ASSUME ServerStays
  PROVE  /\ Newest' = Newest /\ Right' = Right /\ (Stale' <=> Stale) /\ (RunsHold' <=> RunsHold)
         /\ Pushed' = Pushed /\ Bearing' = Bearing /\ Telling' = Telling /\ Missed' = Missed
         /\ Tab!Cached' = Tab!Cached /\ Tab!Requests' = Tab!Requests
<1>1. Started' = Started
  BY DEF ServerStays, Started
<1>2. Newest' = Newest
  BY <1>1 DEF Newest
<1>3. Right' = Right
  BY <1>2 DEF ServerStays, Right, Tab!CountUnseen
<1>4. Stale' <=> Stale
  BY <1>2 DEF ServerStays, Stale
<1>5. RunsHold' <=> RunsHold
  BY <1>1, <1>2 DEF ServerStays, RunsHold, RowsFollow
<1>6. Pushed' = Pushed
  BY <1>2 DEF ServerStays, Pushed, Updates, Counts
<1>7. Bearing' = Bearing /\ Telling' = Telling /\ Missed' = Missed
  BY <1>2, <1>3, <1>6 DEF ServerStays, Bearing, Telling, Missed
<1>8. Tab!Cached' = Tab!Cached /\ Tab!Requests' = Tab!Requests
  BY DEF ServerStays, Tab!Cached, Tab!Requests, Tab!Values
<1>9. QED
  BY <1>2, <1>3, <1>4, <1>5, <1>6, <1>7, <1>8

LEMMA TabKept ==
  ASSUME TabAssumption, TInv, ServerStays,
         {online', connected', asked'} \subseteq BOOLEAN, socketOf' \in {"none", "opening", "open"},
         reported' \subseteq Tab!Runs, toasts' \subseteq Tab!Runs \X Tab!Final, ToastsHold',
         pushes' \in Seq(Pushed), socketOf' = "none" => pushes' = <<>>,
         entry' \in Tab!Cached, gap' \in Tab!Gaps, Formed(fetch)', Formed(answer)',
         shown = "latest" => answer'.at = "idle", ValuesHold', DownsHold', Follows'
  PROVE  TInv'
<1>1. /\ Newest' = Newest /\ Pushed' = Pushed /\ RunsHold' /\ Tab!Cached' = Tab!Cached
      /\ Tab!Requests' = Tab!Requests
  BY Stays DEF TInv
<1>2. pushes' \in Seq(Tab!Updates)
  <2>1. pushes' \in Seq(Pushed') /\ Newest' \in 0..MaxRuns
    BY <1>1 DEF TInv, RunsHold
  <2>2. QED
    BY <2>1, PushesTyped
<1>3. PushesHold'
  BY <1>1 DEF PushesHold, ServerStays
<1>4. Tab!TypeOK'
  BY <1>1, <1>2 DEF TInv, Tab!TypeOK, ServerStays, Formed
<1>5. QED
  BY <1>1, <1>3, <1>4 DEF TInv

LEMMA TabStays ==
  ASSUME TInv, UNCHANGED tabVars
  PROVE  TInv'
<1>1. ServerStays /\ UNCHANGED <<online, socketOf, pushes, connected, entry, fetch, answer, reported,
                                 asked, toasts, gap>>
  BY DEF tabVars, ServerStays
<1>2. /\ Newest' = Newest /\ Right' = Right /\ (Stale' <=> Stale) /\ (RunsHold' <=> RunsHold)
      /\ Pushed' = Pushed /\ Bearing' = Bearing /\ Telling' = Telling /\ Missed' = Missed
      /\ Tab!Cached' = Tab!Cached /\ Tab!Requests' = Tab!Requests
  BY <1>1, Stays
<1>3. Tab!TypeOK'
  BY <1>1, <1>2 DEF TInv, Tab!TypeOK, ServerStays
<1>4. ToastsHold' /\ ValuesHold' /\ DownsHold' /\ PushesHold'
  BY <1>1, <1>2 DEF TInv, ToastsHold, Tab!ToldOnce, ValuesHold, Shows, Requested, DownsHold, PushesHold,
                    ServerStays
<1>5. Follows'
  BY <1>1, <1>2 DEF TInv, Follows, QueueHolds, EntryHolds, AnswerHolds
<1>6. QED
  BY <1>2, <1>3, <1>4, <1>5 DEF TInv

\* The entry and what is on its way stay right while the queue stays as it is.
LEMMA FollowsStay ==
  ASSUME TInv, ServerStays, pushes' = pushes
  PROVE  /\ QueueHolds'
         /\ gap' = gap /\ entry' = entry /\ fetch'.at = fetch.at => EntryHolds'
         /\ fetch' = fetch \/ fetch'.at # "answered" \/ fetch'.gap # "none" => AnswerHolds(fetch)'
         /\ answer' = answer \/ answer'.at # "answered" \/ answer'.gap # "none" => AnswerHolds(answer)'
<1>1. /\ Right' = Right /\ (Stale' <=> Stale)
      /\ Bearing' = Bearing /\ Telling' = Telling /\ Missed' = Missed
  BY Stays
<1>2. QED
  BY <1>1 DEF TInv, Follows, QueueHolds, EntryHolds, AnswerHolds

LEMMA OvertakenIs ==
  ASSUME NEW q, Formed(q), q.at # "answered" => q.gap = "none", NEW changed \in BOOLEAN
  PROVE  LET z == Tab!Overtaken(q, changed) IN
         /\ Formed(z) /\ z.at = q.at /\ z.value = q.value /\ z.gap \in {q.gap, "lost"}
         /\ q.at = "answered" /\ changed => z.gap = "lost"
         /\ q.at # "answered" => z.gap = "none"
         /\ ~changed => z = q
<1>1. "lost" \in Tab!Gaps /\ q \in Tab!Requests /\ q.gap \in Tab!Gaps
  BY DEF Tab!Gaps, Formed, Tab!Requests
<1>2. Tab!Worse(q.gap, "lost") = "lost"
  BY DEF Tab!Worse
<1>3. PICK z : z = Tab!LateIfAnswered(q, "lost")
  OBVIOUS
<1>4. /\ z \in Tab!Requests /\ z.at = q.at /\ z.value = q.value
      /\ z.gap = IF q.at = "answered" THEN "lost" ELSE q.gap
  BY <1>1, <1>2, <1>3, Lateness
<1>5. Tab!Overtaken(q, changed) = IF changed THEN z ELSE q
  BY <1>3 DEF Tab!Overtaken
<1>6. QED
  BY <1>1, <1>4, <1>5 DEF Formed

LEMMA ReadIs ==
  ASSUME TInv, NEW cancel \in BOOLEAN
  PROVE  LET z == Tab!Read(cancel) IN
         /\ Formed(z) /\ z.at # "idle" /\ z.gap \in {"none", "lost"}
         /\ z.at = "answered" => z.gap = "lost"
         /\ Requested(z)
<1>1. Formed(fetch) /\ Requested(fetch)
  BY DEF TInv, Tab!TypeOK, Formed, ValuesHold
<1>2. PICK z : z = Tab!LateIfAnswered(fetch, "lost")
  OBVIOUS
<1>3. Tab!Overtaken(fetch, TRUE) = z
  BY <1>2 DEF Tab!Overtaken
<1>4. /\ Formed(z) /\ z.at = fetch.at /\ z.value = fetch.value
      /\ fetch.at = "answered" => z.gap = "lost"
      /\ fetch.at # "answered" => z.gap = "none"
  <2>1. fetch.at # "answered" => fetch.gap = "none"
    BY <1>1 DEF Requested
  <2>2. QED
    BY <1>1, <1>3, <2>1, OvertakenIs
<1>5. PICK a : a = Tab!Asking
  OBVIOUS
<1>6. Formed(a) /\ a.at = "asked" /\ a.value = <<>> /\ a.gap = "none"
  BY <1>5, AskingTyped DEF Formed
<1>7. \/ Tab!Read(cancel) = a
      \/ Tab!Read(cancel) = z /\ fetch.at # "idle"
  BY <1>2, <1>5 DEF Tab!Read
<1>8. Requested(a) /\ (fetch.at # "idle" => Requested(z))
  BY <1>1, <1>4, <1>6 DEF Requested, Shows
<1>9. QED
  BY <1>4, <1>6, <1>7, <1>8

LEMMA TInvParts ==
  ASSUME TInv
  PROVE  /\ Formed(fetch) /\ Formed(answer) /\ Requested(fetch) /\ Requested(answer)
         /\ (fetch.at # "answered" => fetch.gap = "none") /\ (answer.at # "answered" => answer.gap = "none")
         /\ fetch.gap \in Tab!Gaps /\ answer.gap \in Tab!Gaps /\ gap \in Tab!Gaps
         /\ entry \in Tab!Cached /\ fetch.value \in Tab!Cached /\ answer.value \in Tab!Cached
         /\ {online, connected, asked} \subseteq BOOLEAN /\ socketOf \in {"none", "opening", "open"}
         /\ reported \subseteq Tab!Runs /\ toasts \subseteq Tab!Runs \X Tab!Final /\ ToastsHold
         /\ pushes \in Seq(Pushed) /\ (socketOf = "none" => pushes = <<>>)
         /\ (shown = "latest" => answer.at = "idle") /\ ValuesHold /\ DownsHold /\ Follows
<1>1. Formed(fetch) /\ Formed(answer) /\ Requested(fetch) /\ Requested(answer)
  BY DEF TInv, Tab!TypeOK, Formed, ValuesHold
<1>2. /\ (fetch.at # "answered" => fetch.gap = "none") /\ (answer.at # "answered" => answer.gap = "none")
      /\ fetch.gap \in Tab!Gaps /\ answer.gap \in Tab!Gaps
      /\ fetch.value \in Tab!Cached /\ answer.value \in Tab!Cached
  BY <1>1 DEF Formed, Requested, Tab!Requests
<1>3. QED
  BY <1>1, <1>2 DEF TInv, PushesHold, Tab!TypeOK

LEMMA CountIs ==
  ASSUME TabAssumption, NEW mark, NEW single
  PROVE  Tab!CountUnseen(mark, single) \in 0..MaxRuns
<1>1. PICK S : S = {r \in Tab!Runs \ (mark \cup single) : row[r] \in Tab!ToBeSeen}
  OBVIOUS
<1>2. S \subseteq 1..MaxRuns
  BY <1>1 DEF Tab!Runs
<1>3. MaxRuns \in Nat
  BY DEF TabAssumption
<1>4. IsFiniteSet(1..MaxRuns) /\ Cardinality(1..MaxRuns) = MaxRuns
  <2>1. PICK n \in Nat : n = MaxRuns
    BY <1>3
  <2>2. IsFiniteSet(1..n)
    BY FS_Interval
  <2>3. Cardinality(1..n) = n
    BY FS_Interval
  <2>4. QED
    BY <2>1, <2>2, <2>3
<1>5. Cardinality(S) \in Nat /\ Cardinality(S) <= MaxRuns
  BY <1>2, <1>4, FS_Subset, FS_CardinalityType
<1>6. Tab!CountUnseen(mark, single) = Cardinality(S)
  BY <1>1, SameCount, Zenon DEF Tab!CountUnseen
<1>7. QED
  BY <1>3, <1>5, <1>6

\* What the server answers is right where it has what the agent has.
LEMMA CurrentIs ==
  ASSUME TabAssumption, TInv
  PROVE  /\ <<Tab!Current>> \in Tab!Cached /\ Shows(<<Tab!Current>>)
         /\ row = agent => Tab!Current = Right
<1>1. /\ agent \in [Tab!Runs -> Tab!Statuses] /\ row \in [Tab!Runs -> Tab!Statuses]
      /\ Tab!Runs = 1..MaxRuns /\ MaxRuns \in Nat /\ Newest \in 0..MaxRuns /\ Started = 1..Newest
  BY DEF TInv, Tab!TypeOK, Tab!Runs, TabAssumption, RunsHold
<1>2. CASE shown = "latest"
  <2>1. Tab!Stored \subseteq 1..Newest
    <3>1. \A r \in Tab!Runs : row[r] # "none" => agent[r] # "none"
      BY DEF TInv, RunsHold, RowsFollow, Past
    <3>2. QED
      BY <1>1, <3>1 DEF Tab!Stored, Started
  <2>2. CASE Tab!Stored = {}
    <3>1. Tab!Current = [run |-> 0, status |-> "none"]
      BY <1>2, <2>2 DEF Tab!Current, Tab!LatestPerJob
    <3>2. Tab!Current \in [run : 0..MaxRuns, status : Tab!Statuses] /\ Tab!Current.run <= Newest
      BY <1>1, <3>1 DEF Tab!Statuses
    <3>3. ASSUME row = agent
          PROVE  Newest = 0
      <4>1. Tab!Stored = Started
        BY <3>3 DEF Tab!Stored, Started
      <4>2. QED
        BY <1>1, <2>2, <4>1
    <3>4. QED
      BY <1>2, <3>1, <3>2, <3>3 DEF Tab!Cached, Tab!Values, Shows, Right
  <2>3. CASE Tab!Stored # {}
    <3>1. \E x \in Tab!Stored : \A y \in Tab!Stored : y <= x
      <4>1. Newest \in Nat /\ Tab!Stored \in SUBSET (1..Newest)
        BY <1>1, <2>1
      <4>2. QED
        BY <2>3, <4>1, GreatestIn
    <3>2. PICK c : c = CHOOSE r \in Tab!Stored : \A s \in Tab!Stored : s <= r
      OBVIOUS
    <3>3. c \in Tab!Stored /\ \A y \in Tab!Stored : y <= c
      BY <3>1, <3>2
    <3>4. Tab!Current = [run |-> c, status |-> row[c]]
      BY <1>2, <2>3, <3>2, Zenon DEF Tab!Current, Tab!LatestPerJob
    <3>5. c \in 1..Newest /\ c \in Tab!Runs /\ row[c] \in Tab!Statuses
      BY <1>1, <2>1, <3>3
    <3>6. Tab!Current \in [run : 0..MaxRuns, status : Tab!Statuses] /\ Tab!Current.run <= Newest
      BY <1>1, <3>4, <3>5
    <3>7. ASSUME row = agent
          PROVE  Tab!Current = Right
      <4>1. Tab!Stored = 1..Newest
        BY <1>1, <3>7 DEF Tab!Stored, Started
      <4>2. c = Newest /\ Newest # 0
        BY <1>1, <3>3, <3>5, <4>1
      <4>3. QED
        BY <1>2, <3>4, <3>7, <4>2 DEF Right
    <3>8. QED
      BY <1>2, <3>6, <3>7 DEF Tab!Cached, Tab!Values, Shows
  <2>4. QED
    BY <2>2, <2>3
<1>3. CASE shown # "latest"
  <2>1. Tab!Current = Right
    BY <1>3 DEF Tab!Current, Right
  <2>2. \A mark, single : Tab!CountUnseen(mark, single) \in 0..MaxRuns
    BY CountIs
  <2>3. QED
    BY <1>3, <2>1, <2>2 DEF Tab!Cached, Tab!Values, Shows, Tab!Current
<1>4. QED
  BY <1>2, <1>3

-----------------------------------------------------------------------------
(* The steps.                                                              *)
LEMMA OutageKeeps ==
  ASSUME TabAssumption, TInv, Tab!Outage
  PROVE  TInv'
<1>1. /\ ServerStays /\ online' \in BOOLEAN
      /\ UNCHANGED <<socketOf, pushes, connected, entry, fetch, answer, reported, asked, toasts, gap>>
  <2>1. online \in BOOLEAN
    BY TInvParts
  <2>2. QED
    BY <2>1 DEF Tab!Outage, Tab!tab, ServerStays
<1>2. /\ Newest' = Newest /\ Tab!Cached' = Tab!Cached /\ Tab!Requests' = Tab!Requests
  BY <1>1, Stays
<1>3. ToastsHold' /\ ValuesHold' /\ DownsHold'
  BY <1>1, <1>2, TInvParts DEF ToastsHold, Tab!ToldOnce, ValuesHold, Shows, Requested, DownsHold, ServerStays
<1>4. Follows'
  BY <1>1, FollowsStay DEF Follows
<1>5. Formed(fetch)' /\ Formed(answer)'
  BY <1>1, <1>2, TInvParts DEF Formed
<1>6. QED
  BY <1>1, <1>3, <1>4, <1>5, TInvParts, TabKept

LEMMA SocketKeeps ==
  ASSUME TabAssumption, TInv, Tab!Connect
  PROVE  TInv'
<1>1. /\ ServerStays /\ socketOf' = "opening"
      /\ UNCHANGED <<online, pushes, connected, entry, fetch, answer, reported, asked, toasts, gap>>
  BY DEF Tab!Connect, Tab!tab, Tab!server, ServerStays
<1>2. /\ Newest' = Newest /\ Tab!Cached' = Tab!Cached /\ Tab!Requests' = Tab!Requests
  BY <1>1, Stays
<1>3. ToastsHold' /\ ValuesHold' /\ DownsHold'
  BY <1>1, <1>2, TInvParts DEF ToastsHold, Tab!ToldOnce, ValuesHold, Shows, Requested, DownsHold, ServerStays
<1>4. Follows'
  BY <1>1, FollowsStay DEF Follows
<1>5. Formed(fetch)' /\ Formed(answer)'
  BY <1>1, <1>2, TInvParts DEF Formed
<1>6. QED
  BY <1>1, <1>3, <1>4, <1>5, TInvParts, TabKept

LEMMA OnOpenKeeps ==
  ASSUME TabAssumption, TInv, Tab!OnOpen
  PROVE  TInv'
<1>1. /\ ServerStays /\ socketOf' = "open" /\ connected' = TRUE
      /\ fetch' = (IF connected THEN Tab!Read(TRUE) ELSE fetch)
      /\ answer' = Tab!Overtaken(answer, answer.gap # "none")
      /\ UNCHANGED <<online, pushes, entry, reported, asked, toasts, gap>>
  BY DEF Tab!OnOpen, Tab!ReadOnOpen, Tab!server, ServerStays
<1>2. /\ Newest' = Newest /\ Tab!Cached' = Tab!Cached /\ Tab!Requests' = Tab!Requests
  BY <1>1, Stays
<1>3. PICK z : z = Tab!Read(TRUE)
  OBVIOUS
<1>4. /\ Formed(z) /\ z.at # "idle" /\ z.gap \in {"none", "lost"} /\ Requested(z)
      /\ z.at = "answered" => z.gap = "lost"
  BY <1>3, ReadIs
<1>5. /\ Formed(fetch) /\ Requested(fetch) /\ Formed(answer) /\ Requested(answer)
      /\ (answer.at # "answered" => answer.gap = "none") /\ DownsHold /\ ValuesHold
      /\ (shown = "latest" => answer.at = "idle") /\ answer.gap \in Tab!Gaps
  BY TInvParts
<1>6. PICK c \in BOOLEAN : c = (answer.gap # "none")
  OBVIOUS
<1>7. /\ Formed(answer') /\ answer'.at = answer.at /\ answer'.value = answer.value
      /\ answer'.gap \in {answer.gap, "lost"}
      /\ (answer.at = "answered" /\ c => answer'.gap = "lost") /\ (~c => answer' = answer)
      /\ (answer.at # "answered" => answer'.gap = "none")
  BY <1>1, <1>5, <1>6, OvertakenIs
<1>8. DownsHold'
  <2>1. answer'.gap # "down"
    BY <1>5, <1>6, <1>7
  <2>2. CASE connected
    BY <1>1, <1>3, <1>4, <2>1, <2>2 DEF DownsHold
  <2>3. CASE ~connected
    BY <1>1, <1>5, <2>1, <2>3 DEF DownsHold
  <2>4. QED
    BY <2>2, <2>3
<1>9. ValuesHold'
  <2>1. Shows(entry)' /\ Requested(answer)'
    BY <1>1, <1>2, <1>5, <1>7 DEF ValuesHold, Requested, Shows, ServerStays
  <2>2. Requested(fetch)' /\ (entry' = <<>> => fetch'.at # "idle")
    BY <1>1, <1>2, <1>3, <1>4, <1>5 DEF ValuesHold, Requested, Shows, ServerStays
  <2>3. QED
    BY <2>1, <2>2 DEF ValuesHold
<1>10. Follows'
  <2>1. QueueHolds'
    BY <1>1, FollowsStay
  <2>2. AnswerHolds(fetch)'
    BY <1>1, <1>3, <1>4, FollowsStay
  <2>3. AnswerHolds(answer)'
    BY <1>1, <1>5, <1>6, <1>7, FollowsStay
  <2>4. EntryHolds'
    <3>1. CASE connected
      BY <1>1, <1>3, <1>4, <3>1 DEF EntryHolds
    <3>2. CASE ~connected
      BY <1>1, <3>2, FollowsStay
    <3>3. QED
      BY <3>1, <3>2
  <2>5. QED
    BY <2>1, <2>2, <2>3, <2>4 DEF Follows
<1>11. Formed(fetch)' /\ Formed(answer)'
  BY <1>1, <1>2, <1>3, <1>4, <1>5, <1>7 DEF Formed
<1>12. ToastsHold'
  BY <1>1, TInvParts DEF ToastsHold, Tab!ToldOnce
<1>13. QED
  BY <1>1, <1>7, <1>8, <1>9, <1>10, <1>11, <1>12, TInvParts, TabKept

LEMMA SocketDropKeeps ==
  ASSUME TabAssumption, TInv, Tab!Drop
  PROVE  TInv'
<1>1. PICK why : why = IF pushes = <<>> THEN "none" ELSE IF connected THEN "down" ELSE "lost"
  OBVIOUS
<1>2. /\ ServerStays /\ socketOf' = "none" /\ pushes' = <<>>
      /\ gap' = Tab!Worse(gap, why) /\ fetch' = Tab!LateIfAnswered(fetch, why)
      /\ answer' = Tab!LateIfAnswered(answer, why)
      /\ UNCHANGED <<online, connected, entry, reported, asked, toasts>>
  BY <1>1 DEF Tab!Drop, Tab!Miss, Tab!server, ServerStays
<1>3. /\ Newest' = Newest /\ Right' = Right /\ (Stale' <=> Stale) /\ Bearing' = Bearing
      /\ Tab!Cached' = Tab!Cached /\ Tab!Requests' = Tab!Requests
  BY <1>2, Stays
<1>4. why \in Tab!Gaps
  BY <1>1 DEF Tab!Gaps
<1>5. /\ fetch' \in Tab!Requests /\ fetch'.at = fetch.at /\ fetch'.value = fetch.value
      /\ fetch'.gap = IF fetch.at = "answered" THEN Tab!Worse(fetch.gap, why) ELSE fetch.gap
  BY <1>2, <1>4, TInvParts, Lateness DEF Formed
<1>6. /\ answer' \in Tab!Requests /\ answer'.at = answer.at /\ answer'.value = answer.value
      /\ answer'.gap = IF answer.at = "answered" THEN Tab!Worse(answer.gap, why) ELSE answer.gap
  BY <1>2, <1>4, TInvParts, Lateness DEF Formed
<1>7. /\ gap' \in Tab!Gaps
      /\ (why = "none" => gap' = gap /\ fetch'.gap = fetch.gap /\ answer'.gap = answer.gap)
      /\ (why # "none" => /\ gap' # "none" /\ (fetch.at = "answered" => fetch'.gap # "none")
                          /\ (answer.at = "answered" => answer'.gap # "none"))
      /\ ("down" \in {gap', fetch'.gap, answer'.gap} => "down" \in {gap, fetch.gap, answer.gap, why})
  BY <1>2, <1>4, <1>5, <1>6, TInvParts, Worsens
<1>8. DownsHold'
  BY <1>1, <1>2, <1>7, TInvParts DEF DownsHold
<1>9. ValuesHold'
  BY <1>2, <1>3, <1>5, <1>6, TInvParts DEF ValuesHold, Requested, Shows, ServerStays
<1>10. Follows'
  <2>1. QueueHolds'
    BY <1>2, NothingPending DEF QueueHolds
  <2>2. CASE why = "none"
    <3>1. pushes' = pushes /\ pushes = <<>>
      BY <1>1, <1>2, <2>2
    <3>2. EntryHolds'
      BY <1>2, <1>5, <1>7, <2>2, <3>1, FollowsStay
    <3>3. AnswerHolds(fetch)' /\ AnswerHolds(answer)'
      BY <1>3, <1>5, <1>6, <1>7, <2>2, <3>1, NothingPending, TInvParts DEF Follows, AnswerHolds
    <3>4. QED
      BY <2>1, <3>2, <3>3 DEF Follows
  <2>3. CASE why # "none"
    BY <1>5, <1>6, <1>7, <2>1, <2>3 DEF Follows, EntryHolds, AnswerHolds
  <2>4. QED
    BY <2>2, <2>3
<1>11. Formed(fetch)' /\ Formed(answer)'
  BY <1>3, <1>5, <1>6, TInvParts DEF Formed
<1>12. ToastsHold'
  BY <1>2, TInvParts DEF ToastsHold, Tab!ToldOnce
<1>13. QED
  BY <1>2, <1>6, <1>7, <1>8, <1>9, <1>10, <1>11, <1>12, TInvParts, TabKept

LEMMA ReplyKeeps ==
  ASSUME TabAssumption, TInv, Tab!Reply
  PROVE  TInv'
<1>1. PICK g : g = IF row = agent THEN "none" ELSE "lost"
  OBVIOUS
<1>2. PICK v : v = <<Tab!Current>>
  OBVIOUS
<1>3. /\ ServerStays /\ fetch.at = "asked" /\ fetch' = [at |-> "answered", value |-> v, gap |-> g]
      /\ UNCHANGED <<online, socketOf, pushes, connected, entry, answer, reported, asked, toasts, gap>>
  BY <1>1, <1>2 DEF Tab!Reply, Tab!server, ServerStays
<1>4. /\ Newest' = Newest /\ Right' = Right /\ Tab!Cached' = Tab!Cached /\ Tab!Requests' = Tab!Requests
  BY <1>3, Stays
<1>5. v \in Tab!Cached /\ v # <<>> /\ Shows(v) /\ (g = "none" => v = <<Right>>) /\ g \in Tab!Gaps
      /\ g # "down"
  BY <1>1, <1>2, CurrentIs DEF Tab!Gaps
<1>6. fetch'.at = "answered" /\ fetch'.value = v /\ fetch'.gap = g
  BY <1>3
<1>7. Formed(fetch)' /\ Formed(answer)'
  <2>1. fetch' \in Tab!Requests
    BY <1>3, <1>5 DEF Tab!Requests
  <2>2. QED
    BY <1>3, <1>4, <1>5, <1>6, <2>1, TInvParts DEF Formed
<1>8. ValuesHold'
  BY <1>3, <1>4, <1>5, <1>6, TInvParts DEF ValuesHold, Requested, Shows, ServerStays
<1>9. DownsHold'
  BY <1>3, <1>5, <1>6, TInvParts DEF DownsHold
<1>10. Follows'
  <2>1. EntryHolds' /\ AnswerHolds(fetch)'
    BY <1>4, <1>5, <1>6 DEF EntryHolds, AnswerHolds
  <2>2. QED
    BY <1>3, <2>1, FollowsStay DEF Follows
<1>11. ToastsHold'
  BY <1>3, TInvParts DEF ToastsHold, Tab!ToldOnce
<1>12. QED
  BY <1>3, <1>7, <1>8, <1>9, <1>10, <1>11, TInvParts, TabKept

LEMMA ArriveKeeps ==
  ASSUME TabAssumption, TInv, Tab!Arrive
  PROVE  TInv'
<1>1. /\ ServerStays /\ fetch.at = "answered" /\ entry' = fetch.value /\ gap' = fetch.gap /\ fetch' = Tab!Idle
      /\ UNCHANGED <<online, socketOf, pushes, connected, answer, reported, asked, toasts>>
  BY DEF Tab!Arrive, Tab!server, ServerStays
<1>2. /\ Newest' = Newest /\ Right' = Right /\ (Stale' <=> Stale) /\ Bearing' = Bearing
      /\ Tab!Cached' = Tab!Cached /\ Tab!Requests' = Tab!Requests
  BY <1>1, Stays
<1>3. fetch' \in Tab!Requests /\ fetch'.at = "idle" /\ fetch'.value = <<>> /\ fetch'.gap = "none"
  BY <1>1, AskingTyped
<1>4. Formed(fetch)' /\ Formed(answer)'
  BY <1>1, <1>2, <1>3, TInvParts DEF Formed
<1>5. entry' # <<>> /\ entry' \in Tab!Cached
  BY <1>1, TInvParts DEF Formed
<1>6. ValuesHold'
  BY <1>1, <1>2, <1>3, <1>5, TInvParts DEF ValuesHold, Requested, Shows, ServerStays
<1>7. DownsHold'
  BY <1>1, <1>3, TInvParts DEF DownsHold
<1>8. Follows'
  <2>1. EntryHolds'
    <3>1. AnswerHolds(fetch)
      BY TInvParts DEF Follows
    <3>2. ToldIn(pushes, Bearing, Telling) => HasIn(pushes, Bearing)
      BY DEF ToldIn, HasIn, LastIn
    <3>3. QED
      BY <1>1, <1>2, <3>1, <3>2 DEF EntryHolds, AnswerHolds
  <2>2. AnswerHolds(fetch)'
    BY <1>3 DEF AnswerHolds
  <2>3. QED
    BY <1>1, <2>1, <2>2, FollowsStay DEF Follows
<1>9. ToastsHold'
  BY <1>1, TInvParts DEF ToastsHold, Tab!ToldOnce
<1>10. QED
  BY <1>1, <1>4, <1>5, <1>6, <1>7, <1>8, <1>9, TInvParts, TabKept

\* The first push, and what taking it leaves.
LEMMA PushIs ==
  ASSUME TabAssumption, TInv, pushes # <<>>
  PROVE  /\ Tab!Push \in Pushed /\ Tab!Push = pushes[1] /\ Tail(pushes) \in Seq(Pushed)
         /\ Tab!Push.gap \in {"none", "lost"}
         /\ OnlyIn(pushes, Bearing, Telling \cup Missed) => OnlyIn(Tail(pushes), Bearing, Telling \cup Missed)
         /\ HasIn(pushes, Bearing) /\ ~HasIn(Tail(pushes), Bearing) =>
              /\ Tab!Push \in Bearing
              /\ QueueHolds => Stale \/ Tab!Push \in Telling \cup Missed
         /\ ToldIn(pushes, Bearing, Telling) =>
              \/ ToldIn(Tail(pushes), Bearing, Telling)
              \/ Tab!Push \in Bearing /\ Tab!Push \in Telling
         /\ Tab!Push \in Bearing => HasIn(pushes, Bearing)
<1>1. pushes \in Seq(Pushed)
  BY TInvParts
<1>2. /\ Tail(pushes) \in Seq(Pushed) /\ pushes[1] \in Pushed /\ Head(pushes) = pushes[1]
      /\ 1 \in DOMAIN pushes
  BY <1>1
<1>3. Tab!Push = pushes[1]
  BY <1>2 DEF Tab!Push
<1>4. Tab!Push.gap \in {"none", "lost"}
  BY <1>2, <1>3 DEF Pushed, Updates, Counts
<1>5. OnlyIn(pushes, Bearing, Telling \cup Missed) => OnlyIn(Tail(pushes), Bearing, Telling \cup Missed)
  <2>1. PICK A : A = Telling \cup Missed
    OBVIOUS
  <2>2. OnlyIn(pushes, Bearing, A) => OnlyIn(Tail(pushes), Bearing, A)
    BY <1>1, PushTaken
  <2>3. QED
    BY <2>1, <2>2
<1>6. HasIn(pushes, Bearing) => HasIn(Tail(pushes), Bearing) \/ LastIn(pushes, Bearing, 1)
  BY <1>1, PushTaken
<1>7. /\ ToldIn(pushes, Bearing, Telling) =>
           ToldIn(Tail(pushes), Bearing, Telling) \/ (LastIn(pushes, Bearing, 1) /\ pushes[1] \in Telling)
  BY <1>1, PushTaken
<1>8. LastIn(pushes, Bearing, 1) => /\ Tab!Push \in Bearing
                                    /\ QueueHolds => Stale \/ Tab!Push \in Telling \cup Missed
  BY <1>3 DEF LastIn, QueueHolds, OnlyIn
<1>9. Tab!Push \in Bearing => HasIn(pushes, Bearing)
  BY <1>2, <1>3 DEF HasIn
<1>10. QED
  BY <1>2, <1>3, <1>4, <1>5, <1>6, <1>7, <1>8, <1>9

\* What an update does to a newest run that is cached or on its way.
LEMMA Applied ==
  ASSUME TabAssumption, TInv, shown = "latest", NEW v \in Tab!Cached, Shows(v),
         NEW r \in 1..Newest, NEW s \in Tab!Statuses
  PROVE  LET z == Tab!ApplyRunToLatest(v, r, s) IN
         /\ z \in Tab!Cached /\ Shows(z) /\ (z = <<>> <=> v = <<>>)
         /\ r # Newest /\ v = <<Right>> => z = v
         /\ r = Newest /\ s = agent[Newest] /\ v # <<>> => z = <<Right>>
<1>1. Newest \in 0..MaxRuns /\ MaxRuns \in Nat
  BY DEF TInv, RunsHold, TabAssumption
<1>2. PICK w : w = <<[run |-> r, status |-> s]>>
  OBVIOUS
<1>3. w \in Tab!Cached /\ w # <<>> /\ w[1].run = r /\ Shows(w)
  BY <1>1, <1>2 DEF Tab!Cached, Tab!Values, Shows
<1>4. r = Newest /\ s = agent[Newest] => w = <<Right>>
  BY <1>1, <1>2 DEF Right
<1>5. v # <<>> => v[1].run \in Nat /\ v[1].run <= Newest
  BY <1>1 DEF Shows, Tab!Cached, Tab!Values
<1>6. v = <<Right>> => v[1].run = Newest
  BY DEF Right
<1>7. Tab!ApplyRunToLatest(v, r, s) = IF v = <<>> \/ r < v[1].run THEN v ELSE w
  BY <1>2 DEF Tab!ApplyRunToLatest
<1>8. CASE v = <<>> \/ r < v[1].run
  BY <1>1, <1>3, <1>4, <1>5, <1>6, <1>7, <1>8
<1>9. CASE ~(v = <<>> \/ r < v[1].run)
  <2>1. r # Newest /\ v = <<Right>> => r < v[1].run
    BY <1>1, <1>6
  <2>2. Tab!ApplyRunToLatest(v, r, s) = w
    BY <1>7, <1>9, Zenon
  <2>3. QED
    BY <1>3, <1>4, <1>9, <2>1, <2>2
<1>10. QED
  BY <1>8, <1>9

LEMMA TakenIntoLatest ==
  ASSUME TabAssumption, TInv, shown = "latest", pushes # <<>>, Tab!Push.type = "JOB_UPDATE",
         pushes' = Tail(pushes), ServerStays, UNCHANGED <<socketOf, connected>>,
         Tab!TakeIntoLatest(Tab!Push.run, Tab!Push.status)
  PROVE  /\ entry' \in Tab!Cached /\ gap' \in Tab!Gaps /\ Formed(fetch)' /\ Formed(answer)'
         /\ answer'.at = "idle" /\ ValuesHold' /\ DownsHold' /\ Follows'
<1>1. PICK p \in Pushed : p = Tab!Push
  BY PushIs
<1>2. p.run \in 1..Newest /\ p.status \in Tab!Statuses /\ p \in Updates /\ p.gap \in {"none", "lost"}
  BY <1>1 DEF Pushed, Updates
<1>3. PICK x : x = Tab!ApplyRunToLatest(entry, p.run, p.status)
  OBVIOUS
<1>4. PICK y : y = Tab!ApplyRunToLatest(fetch.value, p.run, p.status)
  OBVIOUS
<1>5. PICK c \in BOOLEAN : c = (y # fetch.value)
  OBVIOUS
<1>6. /\ entry' = x /\ fetch' = Tab!Overtaken(fetch, c) /\ gap' = Tab!Worse(gap, p.gap) /\ answer' = answer
  BY <1>1, <1>3, <1>4, <1>5 DEF Tab!TakeIntoLatest
<1>7. /\ Newest' = Newest /\ Right' = Right /\ (Stale' <=> Stale) /\ Bearing' = Bearing
      /\ Telling' = Telling /\ Missed' = Missed
      /\ Tab!Cached' = Tab!Cached /\ Tab!Requests' = Tab!Requests
  BY Stays
<1>8. /\ x \in Tab!Cached /\ Shows(x) /\ (x = <<>> <=> entry = <<>>)
      /\ (p.run # Newest /\ entry = <<Right>> => x = entry)
      /\ (p.run = Newest /\ p.status = agent[Newest] /\ entry # <<>> => x = <<Right>>)
  BY <1>2, <1>3, TInvParts, Applied DEF ValuesHold
<1>9. /\ (p.run = Newest /\ p.status = agent[Newest] /\ fetch.value # <<>> => y = <<Right>>)
  BY <1>2, <1>4, TInvParts, Applied DEF Requested
<1>10. /\ Formed(fetch') /\ fetch'.at = fetch.at /\ fetch'.value = fetch.value
       /\ fetch'.gap \in {fetch.gap, "lost"}
       /\ (fetch.at = "answered" /\ c => fetch'.gap = "lost") /\ (~c => fetch' = fetch)
       /\ (fetch.at # "answered" => fetch'.gap = "none")
  BY <1>6, TInvParts, OvertakenIs
<1>11. gap' \in Tab!Gaps /\ (gap' = "none" => gap = "none" /\ p.gap = "none") /\ (gap' = "down" => gap = "down")
  <2>1. p.gap \in Tab!Gaps
    BY <1>2 DEF Tab!Gaps
  <2>2. QED
    BY <1>2, <1>6, <2>1, TInvParts, Worsens
<1>12. Formed(fetch)' /\ Formed(answer)' /\ answer'.at = "idle"
  BY <1>6, <1>7, <1>10, TInvParts DEF Formed
<1>13. ValuesHold'
  BY <1>6, <1>7, <1>8, <1>10, TInvParts DEF ValuesHold, Requested, Shows, ServerStays
<1>14. DownsHold'
  BY <1>6, <1>10, <1>11, TInvParts DEF DownsHold
<1>15. p \in Bearing <=> p.run = Newest
  BY <1>1 DEF Bearing
<1>16. /\ p \in Telling => p.status = agent[Newest]
       /\ p \in Missed => p.gap = "lost"
  BY <1>1 DEF Telling, Missed
<1>17. QueueHolds /\ EntryHolds /\ AnswerHolds(fetch)
  BY TInvParts DEF Follows
<1>18. QueueHolds'
  BY <1>7, <1>17, PushIs DEF QueueHolds
<1>19. EntryHolds'
  <2> SUFFICES ASSUME gap' = "none", ~Stale, fetch.at = "idle", ~HasIn(Tail(pushes), Bearing)
               PROVE  x = <<Right>>
    BY <1>6, <1>7, <1>10 DEF EntryHolds
  <2>1. entry # <<>>
    BY TInvParts DEF ValuesHold
  <2>2. CASE HasIn(pushes, Bearing)
    <3>1. p \in Bearing /\ p \in Telling \cup Missed
      BY <1>1, <1>17, <2>2, PushIs
    <3>2. QED
      BY <1>8, <1>11, <1>15, <1>16, <2>1, <3>1
  <2>3. CASE ~HasIn(pushes, Bearing)
    <3>1. p \notin Bearing
      BY <1>1, <2>3, PushIs
    <3>2. entry = <<Right>>
      BY <1>11, <1>17, <2>3 DEF EntryHolds
    <3>3. QED
      BY <1>8, <1>15, <3>1, <3>2
  <2>4. QED
    BY <2>2, <2>3
<1>20. AnswerHolds(fetch)'
  <2> SUFFICES ASSUME fetch'.at = "answered", fetch'.gap = "none", ~Stale,
                      ~ToldIn(Tail(pushes), Bearing, Telling)
               PROVE  fetch.value = <<Right>>
    BY <1>7, <1>10 DEF AnswerHolds
  <2>1. fetch.at = "answered" /\ fetch.gap = "none" /\ y = fetch.value /\ fetch.value # <<>>
    BY <1>5, <1>10, TInvParts DEF Formed
  <2>2. CASE ToldIn(pushes, Bearing, Telling)
    <3>1. p \in Bearing /\ p \in Telling
      BY <1>1, <2>2, PushIs
    <3>2. QED
      BY <1>9, <1>15, <1>16, <2>1, <3>1
  <2>3. CASE ~ToldIn(pushes, Bearing, Telling)
    BY <1>17, <2>1, <2>3 DEF AnswerHolds
  <2>4. QED
    BY <2>2, <2>3
<1>21. AnswerHolds(answer)'
  BY <1>12 DEF AnswerHolds
<1>22. QED
  BY <1>6, <1>7, <1>8, <1>11, <1>12, <1>13, <1>14, <1>18, <1>19, <1>20, <1>21 DEF Follows

LEMMA CountedAgain ==
  ASSUME TabAssumption, TInv, shown # "latest", pushes # <<>>, Tab!Push.type = "JOB_UPDATE",
         pushes' = Tail(pushes), ServerStays, UNCHANGED <<socketOf, connected>>,
         NEW ended \in BOOLEAN, NEW wrong \in BOOLEAN, wrong = (Tab!Push.status \in Tab!ToBeSeen),
         Tab!CountAgain(ended, wrong)
  PROVE  /\ entry' \in Tab!Cached /\ gap' \in Tab!Gaps /\ Formed(fetch)' /\ Formed(answer)'
         /\ answer'.at = answer.at /\ ValuesHold' /\ DownsHold' /\ Follows'
<1>1. PICK z : z = Tab!Read(FALSE)
  OBVIOUS
<1>2. PICK o : o = Tab!Overtaken(fetch, wrong)
  OBVIOUS
<1>3. /\ fetch' = (IF ended /\ wrong THEN z ELSE o)
      /\ gap' = (IF wrong /\ ~ended THEN "lost" ELSE gap)
      /\ answer' = Tab!Overtaken(answer, wrong) /\ entry' = entry
  BY <1>1, <1>2 DEF Tab!CountAgain, Tab!RefreshUnseen
<1>4. /\ Formed(z) /\ z.at # "idle" /\ z.gap \in {"none", "lost"} /\ Requested(z)
      /\ (z.at = "answered" => z.gap = "lost")
  BY <1>1, ReadIs
<1>5. /\ Formed(o) /\ o.at = fetch.at /\ o.value = fetch.value
      /\ o.gap \in {fetch.gap, "lost"}
      /\ (fetch.at = "answered" /\ wrong => o.gap = "lost") /\ (~wrong => o = fetch)
      /\ (fetch.at # "answered" => o.gap = "none")
  BY <1>2, TInvParts, OvertakenIs
<1>6. /\ Formed(answer') /\ answer'.at = answer.at /\ answer'.value = answer.value
      /\ answer'.gap \in {answer.gap, "lost"}
      /\ (answer.at = "answered" /\ wrong => answer'.gap = "lost") /\ (~wrong => answer' = answer)
      /\ (answer.at # "answered" => answer'.gap = "none")
  BY <1>3, TInvParts, OvertakenIs
<1>7. /\ Newest' = Newest /\ Right' = Right /\ (Stale' <=> Stale) /\ Bearing' = Bearing
      /\ Telling' = Telling /\ Missed' = Missed
      /\ Tab!Cached' = Tab!Cached /\ Tab!Requests' = Tab!Requests
  BY Stays
<1>8. Formed(fetch)' /\ Formed(answer)' /\ gap' \in Tab!Gaps /\ entry' \in Tab!Cached
  BY <1>3, <1>4, <1>5, <1>6, <1>7, TInvParts DEF Formed, Tab!Gaps
<1>9. ValuesHold'
  <2>1. Requested(fetch)' /\ Shows(entry)'
    BY <1>3, <1>4, <1>5, <1>7, TInvParts DEF ValuesHold, Requested, Shows, ServerStays
  <2>2. Requested(answer)'
    BY <1>6, <1>7, TInvParts DEF Requested, Shows, ServerStays
  <2>3. entry' = <<>> => fetch'.at # "idle"
    BY <1>3, <1>4, <1>5, TInvParts DEF ValuesHold
  <2>4. QED
    BY <2>1, <2>2, <2>3 DEF ValuesHold
<1>10. DownsHold'
  BY <1>3, <1>4, <1>5, <1>6, TInvParts DEF DownsHold
<1>11. ~wrong => Tab!Push \notin Bearing
  BY DEF Bearing
<1>12. QueueHolds /\ EntryHolds /\ AnswerHolds(fetch) /\ AnswerHolds(answer)
  BY TInvParts DEF Follows
<1>13. QueueHolds'
  BY <1>7, <1>12, PushIs DEF QueueHolds
<1>14. EntryHolds'
  <2>1. CASE wrong /\ ended
    BY <1>3, <1>4, <2>1 DEF EntryHolds
  <2>2. CASE wrong /\ ~ended
    BY <1>3, <2>2 DEF EntryHolds
  <2>3. CASE ~wrong
    <3>1. HasIn(pushes, Bearing) => HasIn(Tail(pushes), Bearing)
      BY <1>11, <2>3, PushIs
    <3>2. gap' = gap /\ fetch' = fetch
      BY <1>3, <1>5, <2>3
    <3>3. QED
      BY <1>3, <1>7, <1>12, <3>1, <3>2 DEF EntryHolds
  <2>4. QED
    BY <2>1, <2>2, <2>3
<1>15. ~wrong => (ToldIn(pushes, Bearing, Telling) => ToldIn(Tail(pushes), Bearing, Telling))
  BY <1>11, PushIs
<1>16. AnswerHolds(fetch)'
  <2>1. CASE wrong
    BY <1>3, <1>4, <1>5, <2>1 DEF AnswerHolds
  <2>2. CASE ~wrong
    BY <1>3, <1>5, <1>7, <1>12, <1>15, <2>2 DEF AnswerHolds
  <2>3. QED
    BY <2>1, <2>2
<1>17. AnswerHolds(answer)'
  <2>1. CASE wrong
    BY <1>6, <2>1 DEF AnswerHolds
  <2>2. CASE ~wrong
    BY <1>6, <1>7, <1>12, <1>15, <2>2 DEF AnswerHolds
  <2>3. QED
    BY <2>1, <2>2
<1>18. QED
  BY <1>6, <1>8, <1>9, <1>10, <1>13, <1>14, <1>16, <1>17 DEF Follows

LEMMA OnJobUpdateKeeps ==
  ASSUME TabAssumption, TInv, Tab!OnJobUpdate
  PROVE  TInv'
<1>1. PICK p : p = Tab!Push
  OBVIOUS
<1>2. PICK ended \in BOOLEAN : ended = (p.status \in Tab!Final /\ p.run \notin reported)
  BY Zenon
<1>3. PICK wrong \in BOOLEAN : wrong = (p.status \in Tab!ToBeSeen)
  <2>1. (p.status \in Tab!ToBeSeen) = TRUE \/ (p.status \in Tab!ToBeSeen) = FALSE
    OBVIOUS
  <2>2. QED
    BY <2>1, Zenon
<1>4. PICK mine \in BOOLEAN : mine = (ended /\ p.status # "missed" /\ asked)
  <2>1. asked \in BOOLEAN
    BY TInvParts
  <2>2. QED
    BY <2>1
<1>5. /\ socketOf = "open" /\ pushes # <<>> /\ p.type = "JOB_UPDATE" /\ pushes' = Tail(pushes)
      /\ reported' = (IF ended THEN reported \cup {p.run} ELSE reported)
      /\ asked' = (asked /\ ~mine)
      /\ toasts' = (IF ended /\ (wrong \/ mine) THEN toasts \cup {<<p.run, p.status>>} ELSE toasts)
      /\ UNCHANGED <<online, socketOf, connected>> /\ ServerStays
  BY <1>1, <1>2, <1>3, <1>4 DEF Tab!OnJobUpdate, Tab!Note, Tab!server, ServerStays
<1>6. IF shown = "latest" THEN Tab!TakeIntoLatest(p.run, p.status) ELSE Tab!CountAgain(ended, wrong)
  BY <1>1, <1>2, <1>3 DEF Tab!OnJobUpdate
<1>7. /\ entry' \in Tab!Cached /\ gap' \in Tab!Gaps /\ Formed(fetch)' /\ Formed(answer)'
      /\ answer'.at = answer.at /\ ValuesHold' /\ DownsHold' /\ Follows'
  <2>1. CASE shown = "latest"
    <3>1. Tab!TakeIntoLatest(Tab!Push.run, Tab!Push.status) /\ Tab!Push.type = "JOB_UPDATE"
      BY <1>1, <1>5, <1>6, <2>1
    <3>2. answer.at = "idle"
      BY <2>1, TInvParts
    <3>3. QED
      BY <1>5, <2>1, <3>1, <3>2, TakenIntoLatest
  <2>2. CASE shown # "latest"
    <3>1. /\ Tab!CountAgain(ended, wrong) /\ Tab!Push.type = "JOB_UPDATE"
          /\ wrong = (Tab!Push.status \in Tab!ToBeSeen)
      BY <1>1, <1>3, <1>5, <1>6, <2>2
    <3>2. QED
      BY <1>5, <2>2, <3>1, CountedAgain
  <2>3. QED
    BY <2>1, <2>2
<1>8. p.run \in Tab!Runs /\ p.status \in Tab!Statuses
  <2>1. p \in Pushed
    BY <1>1, <1>5, PushIs
  <2>2. p.run \in 1..Newest /\ p.status \in Tab!Statuses
    BY <1>5, <2>1 DEF Pushed, Updates, Counts
  <2>3. Newest \in 0..MaxRuns /\ MaxRuns \in Nat
    BY DEF TInv, RunsHold, TabAssumption
  <2>4. QED
    BY <2>2, <2>3 DEF Tab!Runs
<1>9. /\ reported' \subseteq Tab!Runs /\ toasts' \subseteq Tab!Runs \X Tab!Final /\ asked' \in BOOLEAN
  <2>1. reported' \subseteq Tab!Runs
    BY <1>5, <1>8, TInvParts
  <2>2. toasts' \subseteq Tab!Runs \X Tab!Final
    <3>1. ended => p.status \in Tab!Final
      BY <1>2
    <3>2. ended => <<p.run, p.status>> \in Tab!Runs \X Tab!Final
      BY <1>8, <3>1
    <3>3. QED
      BY <1>5, <3>2, TInvParts
  <2>3. (asked /\ ~mine) \in BOOLEAN
    OBVIOUS
  <2>4. QED
    BY <1>5, <2>1, <2>2, <2>3
<1>10. ToastsHold'
  <2>1. (\A x \in toasts : x[1] \in reported) /\ \A x, y \in toasts : x[1] = y[1] => x = y
    BY TInvParts DEF ToastsHold, Tab!ToldOnce
  <2>2. PICK t : t = <<p.run, p.status>>
    OBVIOUS
  <2>3. t[1] = p.run
    BY <2>2
  <2>4. CASE ended
    <3>1. \A x \in toasts : x[1] # t[1]
      BY <1>2, <2>1, <2>3, <2>4
    <3>2. toasts' \subseteq toasts \cup {t} /\ reported' = reported \cup {t[1]}
      BY <1>5, <2>2, <2>3, <2>4
    <3>3. QED
      BY <2>1, <3>1, <3>2 DEF ToastsHold, Tab!ToldOnce
  <2>5. CASE ~ended
    BY <1>5, <2>1, <2>5 DEF ToastsHold, Tab!ToldOnce
  <2>6. QED
    BY <2>4, <2>5
<1>11. pushes' \in Seq(Pushed)
  BY <1>5, PushIs
<1>12. QED
  BY <1>5, <1>7, <1>9, <1>10, <1>11, TInvParts, TabKept

LEMMA OnHistorySeenKeeps ==
  ASSUME TabAssumption, TInv, Tab!OnHistorySeen
  PROVE  TInv'
<1>1. PICK p : p = Tab!Push
  OBVIOUS
<1>2. PICK v : v = <<p.count>>
  OBVIOUS
<1>3. PICK c \in BOOLEAN : c = (fetch.value # v)
  OBVIOUS
<1>4. PICK d \in BOOLEAN : d = (answer.value # v)
  OBVIOUS
<1>5. /\ socketOf = "open" /\ pushes # <<>> /\ p.type = "HISTORY_SEEN" /\ pushes' = Tail(pushes)
      /\ entry' = v /\ fetch' = Tab!Overtaken(fetch, c) /\ gap' = Tab!Worse(gap, p.gap)
      /\ answer' = Tab!Overtaken(answer, d)
      /\ UNCHANGED <<online, socketOf, connected, reported, asked, toasts>> /\ ServerStays
  BY <1>1, <1>2, <1>3, <1>4 DEF Tab!OnHistorySeen, Tab!server, ServerStays
<1>6. p \in Pushed /\ p.gap \in {"none", "lost"} /\ Tail(pushes) \in Seq(Pushed)
  BY <1>1, <1>5, PushIs
<1>7. shown # "latest" /\ p.count \in 0..MaxRuns
  BY <1>5, <1>6 DEF Pushed, Updates, Counts
<1>8. p \in Bearing /\ (p \in Telling => v = <<Right>>) /\ (p \in Missed => p.gap = "lost")
  BY <1>2, <1>5, <1>6, <1>7 DEF Bearing, Telling, Missed
<1>9. v \in Tab!Cached /\ v # <<>>
  BY <1>2, <1>7 DEF Tab!Cached, Tab!Values
<1>10. /\ Formed(fetch') /\ fetch'.at = fetch.at /\ fetch'.value = fetch.value
       /\ fetch'.gap \in {fetch.gap, "lost"}
       /\ (fetch.at = "answered" /\ c => fetch'.gap = "lost") /\ (fetch.at # "answered" => fetch'.gap = "none")
       /\ (~c => fetch' = fetch)
  BY <1>5, TInvParts, OvertakenIs
<1>11. /\ Formed(answer') /\ answer'.at = answer.at /\ answer'.value = answer.value
       /\ answer'.gap \in {answer.gap, "lost"}
       /\ (answer.at = "answered" /\ d => answer'.gap = "lost")
       /\ (answer.at # "answered" => answer'.gap = "none")
       /\ (~d => answer' = answer)
  BY <1>5, TInvParts, OvertakenIs
<1>12. /\ Newest' = Newest /\ Right' = Right /\ (Stale' <=> Stale) /\ Bearing' = Bearing
       /\ Telling' = Telling /\ Missed' = Missed
       /\ Tab!Cached' = Tab!Cached /\ Tab!Requests' = Tab!Requests
  BY <1>5, Stays
<1>13. gap' \in Tab!Gaps /\ (gap' = "none" => gap = "none" /\ p.gap = "none") /\ (gap' = "down" => gap = "down")
  <2>1. p.gap \in Tab!Gaps
    BY <1>6 DEF Tab!Gaps
  <2>2. QED
    BY <1>5, <1>6, <2>1, TInvParts, Worsens
<1>14. Formed(fetch)' /\ Formed(answer)'
  BY <1>10, <1>11, <1>12 DEF Formed
<1>15. ValuesHold'
  BY <1>5, <1>7, <1>9, <1>10, <1>11, TInvParts DEF ValuesHold, Requested, Shows, ServerStays
<1>16. DownsHold'
  BY <1>5, <1>10, <1>11, <1>13, TInvParts DEF DownsHold
<1>17. QueueHolds /\ ~Stale /\ AnswerHolds(fetch) /\ AnswerHolds(answer)
  BY <1>7, TInvParts DEF Follows, Stale
<1>18. QueueHolds'
  BY <1>5, <1>12, <1>17, PushIs DEF QueueHolds
<1>19. EntryHolds'
  <2> SUFFICES ASSUME gap' = "none", ~HasIn(Tail(pushes), Bearing)
               PROVE  v = <<Right>>
    BY <1>5, <1>12 DEF EntryHolds
  <2>1. p \in Telling \cup Missed
    BY <1>1, <1>5, <1>8, <1>17, PushIs
  <2>2. QED
    BY <1>8, <1>13, <2>1
<1>20. ToldIn(pushes, Bearing, Telling) => ToldIn(Tail(pushes), Bearing, Telling) \/ v = <<Right>>
  BY <1>1, <1>5, <1>8, PushIs
<1>21. AnswerHolds(fetch)'
  <2>1. fetch'.at = "answered" /\ fetch'.gap = "none" =>
          fetch.at = "answered" /\ fetch.gap = "none" /\ fetch.value = v
    BY <1>3, <1>10
  <2>2. QED
    BY <1>5, <1>10, <1>12, <1>17, <1>20, <2>1 DEF AnswerHolds
<1>22. AnswerHolds(answer)'
  <2>1. answer'.at = "answered" /\ answer'.gap = "none" =>
          answer.at = "answered" /\ answer.gap = "none" /\ answer.value = v
    BY <1>4, <1>11
  <2>2. QED
    BY <1>5, <1>11, <1>12, <1>17, <1>20, <2>1 DEF AnswerHolds
<1>23. ToastsHold'
  BY <1>5, TInvParts DEF ToastsHold, Tab!ToldOnce
<1>24. Follows'
  BY <1>18, <1>19, <1>21, <1>22 DEF Follows
<1>25. QED
  BY <1>5, <1>6, <1>7, <1>9, <1>13, <1>14, <1>15, <1>16, <1>23, <1>24, TInvParts, TabKept

LEMMA SeenChangedKeeps ==
  ASSUME TabAssumption, TInv, Tab!SeenChanged
  PROVE  TInv'
<1>1. PICK c \in BOOLEAN : c = (fetch.value # answer.value)
  OBVIOUS
<1>2. /\ answer.at = "answered" /\ entry' = answer.value /\ gap' = Tab!Worse(gap, answer.gap)
      /\ fetch' = Tab!Overtaken(fetch, c) /\ answer' = Tab!Idle /\ ServerStays
      /\ UNCHANGED <<online, socketOf, pushes, connected, reported, asked, toasts>>
  BY <1>1 DEF Tab!SeenChanged, Tab!server, ServerStays
<1>3. /\ Newest' = Newest /\ Right' = Right /\ (Stale' <=> Stale) /\ Bearing' = Bearing
      /\ Tab!Cached' = Tab!Cached /\ Tab!Requests' = Tab!Requests
  BY <1>2, Stays
<1>4. /\ Formed(fetch') /\ fetch'.at = fetch.at /\ fetch'.value = fetch.value
      /\ fetch'.gap \in {fetch.gap, "lost"}
      /\ (fetch.at = "answered" /\ c => fetch'.gap = "lost") /\ (fetch.at # "answered" => fetch'.gap = "none")
      /\ (~c => fetch' = fetch)
  BY <1>2, TInvParts, OvertakenIs
<1>5. /\ answer' \in Tab!Requests /\ answer'.at = "idle" /\ answer'.value = <<>> /\ answer'.gap = "none"
  BY <1>2, AskingTyped
<1>6. /\ gap' \in Tab!Gaps /\ (gap' = "none" => gap = "none" /\ answer.gap = "none")
      /\ (gap' = "down" => "down" \in {gap, answer.gap})
  BY <1>2, TInvParts, Worsens
<1>7. Formed(fetch)' /\ Formed(answer)'
  BY <1>3, <1>4, <1>5 DEF Formed
<1>8. entry' # <<>> /\ entry' \in Tab!Cached
  BY <1>2, TInvParts DEF Formed
<1>9. ValuesHold'
  BY <1>2, <1>3, <1>4, <1>5, <1>8, TInvParts DEF ValuesHold, Requested, Shows, ServerStays
<1>10. DownsHold'
  BY <1>2, <1>4, <1>5, <1>6, TInvParts DEF DownsHold
<1>11. Follows'
  <2>1. EntryHolds'
    <3>1. AnswerHolds(answer)
      BY TInvParts DEF Follows
    <3>2. ToldIn(pushes, Bearing, Telling) => HasIn(pushes, Bearing)
      BY DEF ToldIn, HasIn, LastIn
    <3>3. QED
      BY <1>2, <1>3, <1>6, <3>1, <3>2 DEF EntryHolds, AnswerHolds
  <2>2. fetch' = fetch \/ fetch'.at # "answered" \/ fetch'.gap # "none"
    BY <1>4
  <2>3. QED
    BY <1>2, <1>5, <2>1, <2>2, FollowsStay DEF Follows
<1>12. ToastsHold'
  BY <1>2, TInvParts DEF ToastsHold, Tab!ToldOnce
<1>13. QED
  BY <1>2, <1>5, <1>6, <1>7, <1>8, <1>9, <1>10, <1>11, <1>12, TInvParts, TabKept

LEMMA MarkKeeps ==
  ASSUME TabAssumption, TInv, NEW mark \in SUBSET Tab!Runs, NEW single \in SUBSET Tab!Runs, NEW own \in BOOLEAN,
         Tab!Mark(mark, single, own)
  PROVE  TInv'
<1>1. PICK n : n = Tab!CountUnseen(mark, single)
  OBVIOUS
<1>2. PICK p : p = Tab!HistorySeen(n)
  OBVIOUS
<1>3. /\ shown # "latest" /\ below' = mark /\ marked' = single
      /\ UNCHANGED <<shown, agent, row, told, online, socketOf, connected, entry, reported, asked, toasts>>
  BY DEF Tab!Mark
<1>4. Pushes(p)
  BY <1>1, <1>2 DEF Tab!Mark, Tab!Broadcast, Pushes
<1>5. /\ own => answer' = [at |-> "answered", value |-> <<n>>, gap |-> "none"]
      /\ ~own => answer' = Tab!LateIfAnswered(answer, Tab!WhileDown)
  BY <1>1 DEF Tab!Mark
<1>6. Started' = Started /\ Newest' = Newest /\ Pushed' = Pushed /\ (RunsHold' <=> RunsHold)
  <2>1. Started' = Started
    BY <1>3 DEF Started
  <2>2. Newest' = Newest
    BY <2>1 DEF Newest
  <2>3. QED
    BY <1>3, <2>1, <2>2 DEF Pushed, Updates, Counts, RunsHold, RowsFollow
<1>7. Tab!Cached' = Tab!Cached /\ Tab!Requests' = Tab!Requests
  BY <1>3 DEF Tab!Cached, Tab!Requests, Tab!Values
<1>8. Right' = n
  BY <1>1, <1>3 DEF Right, Tab!CountUnseen
<1>9. n \in 0..MaxRuns
  BY <1>1, CountIs
<1>10. p.type = "HISTORY_SEEN" /\ p.count = n /\ p \in Counts
  BY <1>2, <1>9 DEF Tab!HistorySeen, Counts
<1>11. p \in Pushed' /\ p \in Bearing' /\ p \in Telling'
  <2>1. p \in Pushed'
    BY <1>3, <1>6, <1>10 DEF Pushed
  <2>2. QED
    BY <1>3, <1>8, <1>10, <2>1 DEF Bearing, Telling
<1>12. Newest \in Nat /\ Newest' \in Nat /\ Newest <= Newest'
  BY <1>6 DEF TInv, RunsHold, TabAssumption
<1>13. /\ pushes' \in Seq(Pushed') /\ (socketOf' = "none" => pushes' = <<>>)
       /\ gap' \in Tab!Gaps /\ fetch' \in Tab!Requests /\ ((fetch'.at = "answered") = (fetch'.value # <<>>))
       /\ Shows(entry)' /\ Requested(fetch)' /\ (entry' = <<>> => fetch'.at # "idle")
       /\ QueueHolds' /\ EntryHolds' /\ AnswerHolds(fetch)'
       /\ "down" \in {gap', fetch'.gap} => connected'
       /\ socketOf' = "open" => fetch'.gap # "down" /\ (gap' = "down" => fetch'.at # "idle")
  BY <1>4, <1>6, <1>11, <1>12, PushedKeeps
<1>14. /\ answer' \in Tab!Requests /\ ((answer'.at = "answered") = (answer'.value # <<>>))
       /\ Requested(answer)' /\ AnswerHolds(answer)' /\ (answer'.gap = "down" => connected')
       /\ (socketOf' = "open" => answer'.gap # "down")
  <2>1. CASE own
    <3>1. PICK v : v = <<n>>
      OBVIOUS
    <3>2. v \in Tab!Cached /\ v # <<>>
      BY <1>3, <1>9, <3>1 DEF Tab!Cached, Tab!Values
    <3>3. answer' = [at |-> "answered", value |-> v, gap |-> "none"]
      BY <1>5, <2>1, <3>1
    <3>4. answer' \in Tab!Requests
      BY <3>2, <3>3 DEF Tab!Requests, Tab!Gaps
    <3>5. answer'.at = "answered" /\ answer'.value = v /\ answer'.gap = "none"
      BY <3>3
    <3>6. Requested(answer)' /\ AnswerHolds(answer)'
      BY <1>3, <1>8, <3>1, <3>5 DEF Requested, Shows, AnswerHolds
    <3>7. QED
      BY <3>2, <3>4, <3>5, <3>6
  <2>2. CASE ~own
    BY <1>4, <1>5, <1>6, <1>11, <1>12, <2>2, PushedKeeps
  <2>3. QED
    BY <2>1, <2>2
<1>15. ValuesHold' /\ DownsHold' /\ Follows'
  BY <1>13, <1>14 DEF ValuesHold, DownsHold, Follows
<1>16. ToastsHold'
  BY <1>3, TInvParts DEF ToastsHold, Tab!ToldOnce
<1>17. PushesHold'
  BY <1>3, <1>13 DEF PushesHold
<1>18. pushes' \in Seq(Tab!Updates)
  <2>1. Newest' \in 0..MaxRuns
    BY <1>6 DEF TInv, RunsHold
  <2>2. QED
    BY <1>13, <2>1, PushesTyped
<1>19. Tab!TypeOK'
  BY <1>3, <1>7, <1>13, <1>14, <1>18 DEF TInv, Tab!TypeOK
<1>20. RunsHold'
  BY <1>6 DEF TInv
<1>21. QED
  BY <1>15, <1>16, <1>17, <1>19, <1>20 DEF TInv

LEMMA LatePush ==
  ASSUME NEW p \in Pushed, NEW why \in {"none", "lost"}
  PROVE  LET z == Tab!Late(p, why) IN
         z \in Pushed /\ (why = "none" => z = p) /\ (why = "lost" => z.gap = "lost")
<1>1. PICK g : g = Tab!Worse(p.gap, why)
  OBVIOUS
<1>2. p.gap \in {"none", "lost"}
  BY DEF Pushed, Updates, Counts
<1>3. g \in {"none", "lost"} /\ (why = "none" => g = p.gap) /\ (why = "lost" => g = "lost")
  BY <1>1, <1>2 DEF Tab!Worse
<1>4. PICK z : z = [p EXCEPT !.gap = g]
  OBVIOUS
<1>5. CASE p \in Updates
  <2>1. z \in Updates /\ z.gap = g /\ (g = p.gap => z = p)
    BY <1>3, <1>4, <1>5 DEF Updates
  <2>2. QED
    BY <1>1, <1>3, <1>4, <2>1 DEF Tab!Late, Pushed
<1>6. CASE p \in Counts /\ shown # "latest"
  <2>1. z \in Counts /\ z.gap = g /\ (g = p.gap => z = p)
    BY <1>3, <1>4, <1>6 DEF Counts
  <2>2. QED
    BY <1>1, <1>3, <1>4, <1>6, <2>1 DEF Tab!Late, Pushed
<1>7. QED
  BY <1>5, <1>6 DEF Pushed

LEMMA SyncKeeps ==
  ASSUME TabAssumption, TInv, NEW r \in Tab!Runs, Tab!SyncHistory(r)
  PROVE  TInv'
<1>1. PICK why : why = IF told[r] = agent[r] THEN "none" ELSE "lost"
  OBVIOUS
<1>2. /\ row[r] # agent[r] /\ row' = [row EXCEPT ![r] = agent[r]]
      /\ gap' = Tab!Worse(gap, why) /\ fetch' = Tab!LateIfAnswered(fetch, why)
      /\ answer' = Tab!LateIfAnswered(answer, why)
      /\ pushes' = [i \in DOMAIN pushes |-> Tab!Late(pushes[i], why)]
      /\ UNCHANGED <<shown, agent, told, online, below, marked, socketOf, connected,
                     entry, reported, asked, toasts>>
  BY <1>1 DEF Tab!SyncHistory, Tab!Miss
<1>3. why \in {"none", "lost"} /\ why \in Tab!Gaps
  BY <1>1 DEF Tab!Gaps
<1>4. /\ agent \in [Tab!Runs -> Tab!Statuses] /\ row \in [Tab!Runs -> Tab!Statuses]
      /\ told \in [Tab!Runs -> Tab!Statuses]
  BY DEF TInv, Tab!TypeOK
<1>5. row' \in [Tab!Runs -> Tab!Statuses] /\ \A x \in Tab!Runs : row'[x] = IF x = r THEN agent[r] ELSE row[x]
  BY <1>2, <1>4
<1>6. Started' = Started /\ Newest' = Newest /\ Pushed' = Pushed
  <2>1. Started' = Started
    BY <1>2 DEF Started
  <2>2. Newest' = Newest
    BY <2>1 DEF Newest
  <2>3. QED
    BY <1>2, <2>1, <2>2 DEF Pushed, Updates, Counts
<1>7. RunsHold'
  <2>1. RowsFollow'
    <3> SUFFICES ASSUME NEW x \in Tab!Runs
                 PROVE  /\ Past(row'[x], agent[x]) /\ Past(told[x], agent[x])
                        /\ told[x] = agent[x] /\ agent[x] \in Tab!Final => row'[x] = agent[x]
      BY <1>2 DEF RowsFollow
    <3>1. /\ Past(row[x], agent[x]) /\ Past(told[x], agent[x])
          /\ (told[x] = agent[x] /\ agent[x] \in Tab!Final => row[x] = agent[x])
      BY DEF TInv, RunsHold, RowsFollow
    <3>2. QED
      BY <1>5, <3>1 DEF Past
  <2>2. QED
    BY <1>2, <1>6, <2>1 DEF TInv, RunsHold
<1>8. Tab!Cached' = Tab!Cached /\ Tab!Requests' = Tab!Requests
  BY <1>2 DEF Tab!Cached, Tab!Requests, Tab!Values
<1>9. /\ fetch' \in Tab!Requests /\ fetch'.at = fetch.at /\ fetch'.value = fetch.value
      /\ fetch'.gap = (IF fetch.at = "answered" THEN Tab!Worse(fetch.gap, why) ELSE fetch.gap)
      /\ (why = "none" => fetch' = fetch)
  BY <1>2, <1>3, TInvParts, Lateness DEF Formed
<1>10. /\ answer' \in Tab!Requests /\ answer'.at = answer.at /\ answer'.value = answer.value
       /\ answer'.gap = (IF answer.at = "answered" THEN Tab!Worse(answer.gap, why) ELSE answer.gap)
       /\ (why = "none" => answer' = answer)
  BY <1>2, <1>3, TInvParts, Lateness DEF Formed
<1>11. /\ gap' \in Tab!Gaps /\ (why = "none" => gap' = gap)
       /\ (why = "lost" => /\ gap' # "none" /\ gap' # "down"
                           /\ (fetch.at = "answered" => fetch'.gap # "none" /\ fetch'.gap # "down")
                           /\ (answer.at = "answered" => answer'.gap # "none" /\ answer'.gap # "down"))
  <2>1. gap' \in Tab!Gaps /\ (why = "none" => gap' = gap)
    BY <1>2, <1>3, TInvParts, Worsens
  <2>2. why = "lost" => /\ gap' = "lost" /\ Tab!Worse(fetch.gap, why) = "lost"
                        /\ Tab!Worse(answer.gap, why) = "lost"
    BY <1>2 DEF Tab!Worse
  <2>3. QED
    BY <1>9, <1>10, <2>1, <2>2
<1>12. /\ pushes' \in Seq(Pushed) /\ (socketOf = "none" => pushes' = <<>>)
       /\ (why = "none" => pushes' = pushes)
       /\ (why = "lost" => \A i \in DOMAIN pushes' : pushes'[i].gap = "lost" /\ pushes'[i] \in Pushed)
  <2>1. pushes \in Seq(Pushed) /\ (socketOf = "none" => pushes = <<>>)
    BY TInvParts
  <2>2. \A i \in DOMAIN pushes : pushes[i] \in Pushed
    BY <2>1
  <2>3. \A i \in DOMAIN pushes : LET z == Tab!Late(pushes[i], why) IN
          z \in Pushed /\ (why = "none" => z = pushes[i]) /\ (why = "lost" => z.gap = "lost")
    BY <1>3, <2>2, LatePush
  <2>4. DOMAIN pushes' = DOMAIN pushes /\ DOMAIN pushes = 1..Len(pushes) /\ Len(pushes) \in Nat
    BY <1>2, <2>1
  <2>5. \A i \in DOMAIN pushes : /\ pushes'[i] \in Pushed
                               /\ (why = "none" => pushes'[i] = pushes[i])
                               /\ (why = "lost" => pushes'[i].gap = "lost")
    BY <1>2, <2>3
  <2>6. pushes' \in Seq(Pushed)
    <3>1. pushes' = [i \in 1..Len(pushes) |-> pushes'[i]]
      BY <1>2, <2>4
    <3>2. \A i \in 1..Len(pushes) : pushes'[i] \in Pushed
      BY <2>4, <2>5
    <3>3. QED
      BY <2>4, <3>1, <3>2
  <2>7. why = "none" => pushes' = pushes
    BY <1>2, <2>1, <2>4, <2>5
  <2>8. pushes = <<>> => pushes' = <<>>
    <3>1. pushes = <<>> => Len(pushes) = 0
      OBVIOUS
    <3>2. DOMAIN pushes' = 1..Len(pushes')
      BY <2>6
    <3>3. pushes = <<>> => Len(pushes') = 0
      BY <2>4, <2>6, <3>1, <3>2
    <3>4. QED
      BY <2>6, <3>3
  <2>9. QED
    BY <2>1, <2>4, <2>5, <2>6, <2>7, <2>8
<1>13. why = "none" => Unmoved
  <2> SUFFICES ASSUME told[r] = agent[r]
               PROVE  Unmoved
    BY <1>1
  <2>1. /\ Past(row[r], agent[r]) /\ agent[r] \notin Tab!Final
    BY <1>2 DEF TInv, RunsHold, RowsFollow
  <2>2. row[r] \notin Tab!ToBeSeen /\ agent[r] \notin Tab!ToBeSeen
    <3>1. agent[r] \in {"none", "running"}
      BY <1>4, <2>1 DEF Tab!Statuses
    <3>2. QED
      BY <2>1, <3>1 DEF Past, Tab!ToBeSeen
  <2>3. Right' = Right
    <3>1. CASE shown = "latest"
      BY <1>2, <1>6, <3>1 DEF Right
    <3>2. CASE shown # "latest"
      <4>1. \A x \in Tab!Runs : row'[x] \in Tab!ToBeSeen <=> row[x] \in Tab!ToBeSeen
        BY <1>5, <2>2
      <4>2. QED
        BY <1>2, <3>2, <4>1 DEF Right, Tab!CountUnseen
    <3>3. QED
      BY <3>1, <3>2
  <2>4. Stale => Stale'
    <3>1. ASSUME Stale
          PROVE  Newest \in Tab!Runs /\ Newest # r
      BY <3>1 DEF Stale, TInv, RunsHold, TabAssumption, Tab!Runs
    <3>2. QED
      BY <1>2, <1>5, <1>6, <3>1 DEF Stale
  <2>5. SameSets
    BY <1>2, <1>6, <2>3 DEF SameSets, Bearing, Telling, Missed
  <2>6. QED
    BY <2>3, <2>4, <2>5 DEF Unmoved
<1>14. ValuesHold'
  <2>1. fetch'.at # "answered" => fetch'.gap = "none"
    BY <1>9, TInvParts
  <2>2. answer'.at # "answered" => answer'.gap = "none"
    BY <1>10, TInvParts
  <2>3. QED
    BY <1>2, <1>6, <1>9, <1>10, <2>1, <2>2, TInvParts DEF ValuesHold, Requested, Shows
<1>15. DownsHold'
  <2>1. CASE why = "none"
    BY <1>2, <1>9, <1>10, <1>11, <2>1, TInvParts DEF DownsHold
  <2>2. CASE why = "lost"
    <3>1. "down" \notin {gap', fetch'.gap, answer'.gap}
      BY <1>9, <1>10, <1>11, <2>2, TInvParts
    <3>2. QED
      BY <3>1 DEF DownsHold
  <2>3. QED
    BY <1>3, <2>1, <2>2
<1>16. Follows'
  <2>1. CASE why = "none"
    BY <1>2, <1>9, <1>10, <1>11, <1>12, <1>13, <2>1, UnmovedFollows DEF Follows
  <2>2. CASE why = "lost"
    <3>1. \A i \in DOMAIN pushes' : pushes'[i] \in Missed'
      BY <1>6, <1>12, <2>2 DEF Missed
    <3>2. QueueHolds'
      BY <3>1 DEF QueueHolds, OnlyIn
    <3>3. EntryHolds' /\ AnswerHolds(fetch)' /\ AnswerHolds(answer)'
      BY <1>9, <1>10, <1>11, <2>2 DEF EntryHolds, AnswerHolds
    <3>4. QED
      BY <3>2, <3>3 DEF Follows
  <2>3. QED
    BY <1>3, <2>1, <2>2
<1>17. ToastsHold'
  BY <1>2, TInvParts DEF ToastsHold, Tab!ToldOnce
<1>18. PushesHold'
  BY <1>2, <1>6, <1>10, <1>12, TInvParts DEF PushesHold
<1>19. pushes' \in Seq(Tab!Updates)
  <2>1. Newest' \in 0..MaxRuns /\ pushes' \in Seq(Pushed')
    BY <1>6, <1>12 DEF TInv, RunsHold
  <2>2. QED
    BY <2>1, PushesTyped
<1>20. /\ ((fetch'.at = "answered") = (fetch'.value # <<>>))
       /\ ((answer'.at = "answered") = (answer'.value # <<>>))
  BY <1>9, <1>10, TInvParts DEF Formed
<1>21. Tab!TypeOK'
  BY <1>2, <1>5, <1>8, <1>9, <1>10, <1>11, <1>12, <1>19, <1>20 DEF TInv, Tab!TypeOK
<1>22. QED
  BY <1>7, <1>14, <1>15, <1>16, <1>17, <1>18, <1>21 DEF TInv

-----------------------------------------------------------------------------
LEMMA TabStarts ==
  ASSUME TabAssumption, Tab!Init
  PROVE  TInv
<1>1. MaxRuns \in Nat /\ Tab!Runs = 1..MaxRuns
  BY DEF TabAssumption, Tab!Runs
<1>2. /\ shown \in {"latest", "unseen"} /\ agent = [x \in Tab!Runs |-> "none"] /\ row = agent /\ told = agent
      /\ online = TRUE /\ below = {} /\ marked = {} /\ socketOf = "none" /\ pushes = <<>> /\ connected = FALSE
      /\ entry = <<>> /\ fetch = Tab!Asking /\ answer = Tab!Idle /\ gap = "none"
      /\ reported = {} /\ asked = FALSE /\ toasts = {}
  BY DEF Tab!Init
<1>3. /\ fetch \in Tab!Requests /\ fetch.at = "asked" /\ fetch.value = <<>> /\ fetch.gap = "none"
      /\ answer \in Tab!Requests /\ answer.at = "idle" /\ answer.value = <<>> /\ answer.gap = "none"
  BY <1>2, AskingTyped
<1>4. Started = {}
  BY <1>2 DEF Started
<1>5. Newest = 0
  BY <1>4, FS_EmptySet DEF Newest
<1>6. RunsHold
  <2>1. RowsFollow
    BY <1>2 DEF RowsFollow, Past, Tab!Final, Tab!ToBeSeen
  <2>2. 1..0 = {} /\ 0 \in 0..MaxRuns
    BY <1>1
  <2>3. QED
    BY <1>4, <1>5, <2>1, <2>2 DEF RunsHold
<1>7. \A S : pushes \in Seq(S)
  BY <1>2
<1>8. PushesHold /\ ToastsHold
  BY <1>2, <1>3, <1>7 DEF PushesHold, ToastsHold, Tab!ToldOnce
<1>9. ValuesHold /\ DownsHold
  BY <1>2, <1>3 DEF ValuesHold, Requested, Shows, DownsHold
<1>10. Follows
  BY <1>2, <1>3, NothingPending DEF Follows, QueueHolds, EntryHolds, AnswerHolds
<1>11. agent \in [Tab!Runs -> Tab!Statuses]
  BY <1>2 DEF Tab!Statuses
<1>12. Tab!TypeOK
  <2>1. entry \in Tab!Cached /\ gap \in Tab!Gaps
    BY <1>2 DEF Tab!Cached, Tab!Gaps
  <2>2. \A q \in {fetch, answer} : (q.at = "answered") = (q.value # <<>>)
    BY <1>3
  <2>3. pushes \in Seq(Tab!Updates)
    BY <1>7
  <2>4. QED
    BY <1>2, <1>3, <1>11, <2>1, <2>2, <2>3 DEF Tab!TypeOK
<1>13. QED
  BY <1>6, <1>8, <1>9, <1>10, <1>12 DEF TInv

LEMMA TabStep ==
  ASSUME TabAssumption, TInv, Tab!Next
  PROVE  TInv'
<1>1. CASE Tab!StartRun \/ Tab!MissRun \/ \E r \in Tab!Runs : Tab!EndRun(r) \/ Tab!Downgrade(r)
  BY <1>1, RunsKeep
<1>2. CASE \E r \in Tab!Runs : Tab!SyncHistory(r)
  BY <1>2, SyncKeeps
<1>3. CASE Tab!Outage \/ Tab!Connect \/ Tab!OnOpen \/ Tab!Drop
  BY <1>3, OutageKeeps, SocketKeeps, OnOpenKeeps, SocketDropKeeps
<1>4. CASE Tab!OnJobUpdate \/ Tab!OnHistorySeen
  BY <1>4, OnJobUpdateKeeps, OnHistorySeenKeeps
<1>5. CASE Tab!Reply \/ Tab!Arrive \/ Tab!SeenChanged
  BY <1>5, ReplyKeeps, ArriveKeeps, SeenChangedKeeps
<1>6. ASSUME NEW own \in BOOLEAN, Tab!MarkAll(own)
      PROVE  TInv'
  <2>1. PICK mark : mark = {r \in Tab!Runs : agent[r] \in Tab!Final}
    OBVIOUS
  <2>2. PICK single : single = {}
    OBVIOUS
  <2>3. mark \in SUBSET Tab!Runs /\ single \in SUBSET Tab!Runs /\ Tab!Mark(mark, single, own)
    BY <1>6, <2>1, <2>2 DEF Tab!MarkAll
  <2>4. QED
    BY <2>3, MarkKeeps
<1>7. ASSUME NEW own \in BOOLEAN, NEW r \in Tab!Runs, Tab!MarkRun(r, own)
      PROVE  TInv'
  <2>1. PICK single : single = marked \cup {r}
    OBVIOUS
  <2>2. single \in SUBSET Tab!Runs /\ below \in SUBSET Tab!Runs
    BY <2>1 DEF TInv, Tab!TypeOK
  <2>3. Tab!Mark(below, single, own)
    BY <1>7, <2>1 DEF Tab!MarkRun
  <2>4. QED
    BY <2>2, <2>3, MarkKeeps
<1>8. QED
  BY <1>1, <1>2, <1>3, <1>4, <1>5, <1>6, <1>7 DEF Tab!Next

\* A tab at rest shows what the server would answer, but for the excuses module
\* Dashboard records; whatever was pushed while its socket was down (onopen,
\* WebSocketProvider.tsx) is not one of them.  No run raises two toasts.
THEOREM TabsShowWhatIsSo == MCSpec => []TabAgrees
<1>1. MCInit => TInv
  BY TabAssumption, TabStarts DEF MCInit
<1>2. TInv /\ [MCNext]_serverVars => TInv'
  <2> SUFFICES ASSUME TInv, [MCNext]_serverVars
               PROVE  TInv'
    OBVIOUS
  <2>1. CASE UNCHANGED tabVars
    BY <2>1, TabStays
  <2>2. CASE Tab!Next
    BY <2>2, TabAssumption, TabStep
  <2>3. QED
    BY <2>1, <2>2 DEF MCNext, serverVars
<1>3. TInv => TabAgrees
  <2> SUFFICES ASSUME TInv
               PROVE  Tab!ShownAgrees /\ Tab!TabHolds
    BY DEF TabAgrees
  <2>1. Tab!TabHolds
    BY DEF TInv, ToastsHold, Tab!TabHolds
  <2>2. ASSUME Tab!Quiet, gap # "lost"
        PROVE  entry = <<Tab!Current>>
    <3>1. socketOf = "open" /\ pushes = <<>> /\ row = agent /\ fetch.at = "idle"
      BY <2>2 DEF Tab!Quiet
    <3>2. gap = "none"
      BY <2>2, <3>1, TInvParts DEF DownsHold, Tab!Gaps
    <3>3. ~Stale
      BY <3>1 DEF Stale
    <3>4. ~HasIn(pushes, Bearing)
      BY <3>1, NothingPending
    <3>5. entry = <<Right>>
      BY <3>1, <3>2, <3>3, <3>4, TInvParts DEF Follows, EntryHolds
    <3>6. Tab!Current = Right
      BY <3>1, TabAssumption, CurrentIs
    <3>7. QED
      BY <3>5, <3>6
  <2>3. QED
    BY <2>1, <2>2 DEF Tab!ShownAgrees
<1>4. QED
  BY <1>1, <1>2, <1>3, PTL DEF MCSpec

=============================================================================
