------------------------------ MODULE Sessions ------------------------------
(***************************************************************************)
(* Who is signed in to the dashboard: the users with the version their     *)
(* session tokens must carry, the browsers with their two cookies, and the *)
(* socket each open page keeps to the server.                              *)
(*                                                                         *)
(* A token stays signed for hours.  What ends it earlier is the user's     *)
(* row: a changed password or changed methods raise its token_version, a   *)
(* deletion removes it.  REST requests compare on every call; a dashboard  *)
(* socket is compared once, at its handshake, so whoever revokes a session *)
(* has to close its sockets too.                                           *)
(*                                                                         *)
(* A browser here has one page, so a cookie has one reader; answers to     *)
(* different requests may be handled in any order.  A user is its id: the  *)
(* table keeps names apart, and a name that is used again belongs to a new *)
(* id.  Passwords are right or not sent, as a refused login changes        *)
(* nothing.  The expiry of a token shows to the page as a Logout.          *)
(***************************************************************************)
EXTENDS Integers, FiniteSets

CONSTANTS
  Tabs,        \* browsers
  MaxUsers,    \* rows ever inserted
  MethodSets,  \* the values of auth_methods
  MaxVersion,  \* the highest token_version
  MaxAnswers,  \* answers on their way to one tab
  Timely       \* the answer to a user's own update is handled before the
               \* page, three seconds after the close, connects again

ASSUME SessionsAssumption ==
  /\ MaxUsers \in Nat \ {0}
  /\ {MaxVersion, MaxAnswers} \subseteq Nat
  /\ {"local"} \in MethodSets
  /\ Timely \in BOOLEAN

VARIABLES
  users,     \* id -> [hash, methods, tv], or Nobody
  nextId,    \* the AUTOINCREMENT of the table
  jar,       \* tab -> the token in its session cookie, or NoToken
  flag,      \* tab -> the readable cookie next to it is there
  inside,    \* tab -> isAuthenticated
  answers,   \* tab -> what the server answered and the page has not handled
  socket     \* tab -> [state, token, code] of its dashboard socket

sessionsVars == <<users, nextId, jar, flag, inside, answers, socket>>

Ids      == 1..MaxUsers
Nobody   == [hash |-> FALSE, methods |-> {}, tv |-> 0]
UserRow  == [hash : BOOLEAN, methods : MethodSets, tv : 0..MaxVersion]
Token    == [id : Ids, tv : 0..MaxVersion]
NoToken  == [id |-> 0, tv |-> 0]
Answer   == [kind : {"login", "renewed"}, token : Token]
            \cup [kind : {"cleared", "unauthorized"}, token : {NoToken}]
NoSocket == [state |-> "none", token |-> NoToken, code |-> 0]
States   == {"none", "waiting", "connecting", "open", "closing", "stopped"}

Rows        == {id \in Ids : users[id] # Nobody}
TokenOf(id) == [id |-> id, tv |-> users[id].tv]

\* AuthService.isSessionCurrent
IsSessionCurrent(token) == token.id \in Rows /\ users[token.id].tv = token.tv

-----------------------------------------------------------------------------
(* The page.                                                               *)

\* A page that is signed in connects shortly after.
SocketWaits == [NoSocket EXCEPT !.state = "waiting"]

SetCookies(t, token) == /\ jar'  = [jar EXCEPT ![t] = token]
                        /\ flag' = [flag EXCEPT ![t] = TRUE]

\* AuthProvider.logout.  The request that clears the cookie is not waited
\* for, and may be lost.
EndSession(t, others) ==
  /\ inside' = [inside EXCEPT ![t] = FALSE]
  /\ flag'   = [flag EXCEPT ![t] = FALSE]
  /\ socket' = [socket EXCEPT ![t] = NoSocket]
  /\ \E reached \in BOOLEAN :
       answers' = [answers EXCEPT ![t] = others \cup
                     IF reached THEN {[kind |-> "cleared", token |-> NoToken]} ELSE {}]
  /\ UNCHANGED jar

\* One more answer may be on its way.
HasRoom(t) == Cardinality(answers[t]) < MaxAnswers

Logout(t) ==
  /\ inside[t] /\ HasRoom(t)
  /\ EndSession(t, answers[t])
  /\ UNCHANGED <<users, nextId>>

\* A login by password: checkLocalAuth, then the cookies with the answer.
Login(t, id) ==
  /\ ~inside[t] /\ HasRoom(t)
  /\ \A a \in answers[t] : a.kind # "login"
  /\ id \in Rows /\ users[id].hash /\ "local" \in users[id].methods
  /\ answers' = [answers EXCEPT ![t] = @ \cup {[kind |-> "login", token |-> TokenOf(id)]}]
  /\ UNCHANGED <<users, nextId, jar, flag, inside, socket>>

\* Any request of a page whose session is over.
Refuse(t) ==
  /\ inside[t] /\ HasRoom(t) /\ ~IsSessionCurrent(jar[t])
  /\ answers' = [answers EXCEPT ![t] = @ \cup {[kind |-> "unauthorized", token |-> NoToken]}]
  /\ UNCHANGED <<users, nextId, jar, flag, inside, socket>>

HandleLogin(t, a) ==
  /\ a.kind = "login"
  /\ SetCookies(t, a.token)
  /\ inside'  = [inside EXCEPT ![t] = TRUE]
  /\ socket'  = [socket EXCEPT ![t] = SocketWaits]
  /\ answers' = [answers EXCEPT ![t] = @ \ {a}]

HandleRenewed(t, a) ==
  /\ a.kind = "renewed"
  /\ SetCookies(t, a.token)
  /\ answers' = [answers EXCEPT ![t] = @ \ {a}]
  /\ UNCHANGED <<inside, socket>>

HandleCleared(t, a) ==
  /\ a.kind = "cleared"
  /\ jar'     = [jar EXCEPT ![t] = NoToken]
  /\ flag'    = [flag EXCEPT ![t] = FALSE]
  /\ answers' = [answers EXCEPT ![t] = @ \ {a}]
  /\ UNCHANGED <<inside, socket>>

\* apiFetch ends the session of the page, whichever it is by now.
HandleUnauthorized(t, a) ==
  /\ a.kind = "unauthorized"
  /\ EndSession(t, answers[t] \ {a})

Handle(t) ==
  /\ \E a \in answers[t] : \/ HandleLogin(t, a)
                           \/ HandleRenewed(t, a)
                           \/ HandleCleared(t, a)
                           \/ HandleUnauthorized(t, a)
  /\ UNCHANGED <<users, nextId>>

\* A page that is loaded again renders the dashboard where it finds the flag.
Reload(t) ==
  /\ answers[t] = {}
  /\ inside' = [inside EXCEPT ![t] = flag[t]]
  /\ socket' = [socket EXCEPT ![t] = IF flag[t] THEN SocketWaits ELSE NoSocket]
  /\ UNCHANGED <<users, nextId, jar, flag, answers>>

-----------------------------------------------------------------------------
(* A sign-in at the identity provider: the browser leaves the page and     *)
(* comes back to /auth/callback.  The state the server keeps for sixty     *)
(* seconds and takes once is the only thing from before that is used after *)
(* it; the user is looked up when the provider has answered, in the step   *)
(* that sets the cookies and sends the browser to the start page.          *)

OidcCallback(t, id) ==
  /\ ~inside[t] /\ answers[t] = {}
  /\ id \in Rows /\ "oidc" \in users[id].methods
  /\ SetCookies(t, TokenOf(id))
  /\ inside' = [inside EXCEPT ![t] = TRUE]
  /\ socket' = [socket EXCEPT ![t] = SocketWaits]
  /\ UNCHANGED <<users, nextId, answers>>

-----------------------------------------------------------------------------
(* The users, changed by a page whose session is current.                  *)

Authorised(t) == inside[t] /\ IsSessionCurrent(jar[t])

CreateUser(t, password, methods) ==
  /\ Authorised(t)
  /\ nextId \in Ids
  /\ "local" \in methods => password
  /\ users'  = [users EXCEPT ![nextId] =
                  [hash |-> password, methods |-> methods, tv |-> 0]]
  /\ nextId' = nextId + 1
  /\ UNCHANGED <<jar, flag, inside, answers, socket>>

\* A socket that is being closed with a code.
Closing(s, code) == [state |-> "closing", token |-> s.token, code |-> code]

\* Mutant: a page that renewed its own session is told to give up as well.
CloseForGood(id, code) ==
  [t \in Tabs |-> IF socket[t].state = "open" /\ socket[t].token.id = id
                  THEN Closing(socket[t], 4001) ELSE socket[t]]

\* Every open socket of the user.
CloseDashboardSessions(id, code) ==
  [t \in Tabs |-> IF socket[t].state = "open" /\ socket[t].token.id = id
                  THEN Closing(socket[t], code) ELSE socket[t]]

\* The row an update leaves behind: a password and changed methods each raise
\* the version.
Updated(row, password, methods) ==
  [hash    |-> row.hash \/ password,
   methods |-> methods,
   tv      |-> row.tv + (IF password THEN 1 ELSE 0) + (IF methods # row.methods THEN 1 ELSE 0)]

\* Only a local user has a password, and each of them has one.
IsValidUpdate(row, password, methods) ==
  /\ password => "local" \in methods
  /\ "local" \in methods => row.hash \/ password

UpdateUser(t, id, password, methods) ==
  LET row  == Updated(users[id], password, methods)
      self == jar[t].id = id
  IN  /\ Authorised(t)
      /\ id \in Rows
      /\ IsValidUpdate(users[id], password, methods)
      /\ row.tv \in (users[id].tv + 1)..MaxVersion
      /\ self => HasRoom(t)
      /\ (Timely /\ self) => socket[t].state # "connecting"
      /\ users'   = [users EXCEPT ![id] = row]
      /\ answers' = IF self
                    THEN [answers EXCEPT ![t] =
                            @ \cup {[kind |-> "renewed", token |-> [id |-> id, tv |-> row.tv]]}]
                    ELSE answers
      /\ socket'  = CloseDashboardSessions(id, IF self THEN 4002 ELSE 4001)
      /\ UNCHANGED <<nextId, jar, flag, inside>>

\* Mutant: the table hands the highest id out again.
DeleteAndReuse(t, id) ==
  /\ Authorised(t)
  /\ id \in Rows /\ jar[t].id # id /\ Cardinality(Rows) > 1
  /\ users'  = [users EXCEPT ![id] = Nobody]
  /\ nextId' = IF id = nextId - 1 THEN id ELSE nextId
  /\ socket' = CloseDashboardSessions(id, 4001)
  /\ UNCHANGED <<jar, flag, inside, answers>>

DeleteUser(t, id) ==
  /\ Authorised(t)
  /\ id \in Rows /\ jar[t].id # id /\ Cardinality(Rows) > 1
  /\ users'  = [users EXCEPT ![id] = Nobody]
  /\ socket' = CloseDashboardSessions(id, 4001)
  /\ UNCHANGED <<nextId, jar, flag, inside, answers>>

-----------------------------------------------------------------------------
(* The dashboard socket.                                                   *)

Connect(t) ==
  /\ socket[t].state = "waiting"
  /\ Timely => \A a \in answers[t] : a.kind # "renewed"
  /\ socket' = [socket EXCEPT ![t] = [state |-> "connecting", token |-> jar[t], code |-> 0]]
  /\ UNCHANGED <<users, nextId, jar, flag, inside, answers>>

Handshake(t) ==
  /\ socket[t].state = "connecting"
  /\ socket' = [socket EXCEPT ![t] =
                  IF IsSessionCurrent(@.token) THEN [@ EXCEPT !.state = "open"]
                  ELSE Closing(@, 4001)]
  /\ UNCHANGED <<users, nextId, jar, flag, inside, answers>>

\* The page learns of the close: 4001 ends it, anything else is tried again.
Closed(t) ==
  /\ socket[t].state = "closing"
  /\ socket' = [socket EXCEPT ![t] =
                  IF @.code = 4001 THEN [NoSocket EXCEPT !.state = "stopped"] ELSE SocketWaits]
  /\ UNCHANGED <<users, nextId, jar, flag, inside, answers>>

\* The network takes the connection.
Drop(t) ==
  /\ socket[t].state \in {"connecting", "open"}
  /\ socket' = [socket EXCEPT ![t] = SocketWaits]
  /\ UNCHANGED <<users, nextId, jar, flag, inside, answers>>

-----------------------------------------------------------------------------

\* AuthService.initializeAdmin, and nobody signed in yet.
SessionsInit ==
  /\ users   = [id \in Ids |-> IF id = 1 THEN [hash |-> TRUE, methods |-> {"local"}, tv |-> 0]
                                         ELSE Nobody]
  /\ nextId  = 2
  /\ jar     = [t \in Tabs |-> NoToken]
  /\ flag    = [t \in Tabs |-> FALSE]
  /\ inside  = [t \in Tabs |-> FALSE]
  /\ answers = [t \in Tabs |-> {}]
  /\ socket  = [t \in Tabs |-> NoSocket]

SessionsNext ==
  \E t \in Tabs :
    \/ Logout(t) \/ Refuse(t) \/ Handle(t) \/ Reload(t)
    \/ Connect(t) \/ Handshake(t) \/ Closed(t) \/ Drop(t)
    \/ \E id \in Ids : Login(t, id) \/ OidcCallback(t, id) \/ DeleteUser(t, id)
    \/ \E password \in BOOLEAN, methods \in MethodSets :
         \/ CreateUser(t, password, methods)
         \/ \E id \in Ids : UpdateUser(t, id, password, methods)

SessionsSpec == SessionsInit /\ [][SessionsNext]_sessionsVars

-----------------------------------------------------------------------------
(* Properties.                                                             *)

\* The shape of the state; a user who may sign in with a password has one.
SessionsTypeOK ==
  /\ users \in [Ids -> UserRow \cup {Nobody}]
  /\ \A id \in Ids : "local" \in users[id].methods => users[id].hash
  /\ nextId \in 1..(MaxUsers + 1)
  /\ jar \in [Tabs -> Token \cup {NoToken}]
  /\ flag \in [Tabs -> BOOLEAN]
  /\ inside \in [Tabs -> BOOLEAN]
  /\ answers \in [Tabs -> SUBSET Answer]
  /\ socket \in [Tabs -> [state : States, token : Token \cup {NoToken}, code : {0, 4001, 4002}]]

\* A dashboard socket is compared with the user's row at its handshake only.
\* Still none stays open after the session it was opened with was revoked:
\* every update and deletion closes the ones it invalidates, and a handshake
\* under way at that moment is refused (UserController, ProxyService
\* closeDashboardSessions, WebSocketController handleDashboardConnection).
SocketsAreCurrent ==
  \A t \in Tabs : socket[t].state = "open" => IsSessionCurrent(socket[t].token)

\* No session reaches past its end.
SessionsHold == SessionsTypeOK /\ SocketsAreCurrent

\* A token that stopped being valid never becomes valid again, whatever users
\* are created, renamed in effect by delete and create, or changed later
\* (UserRepository: the id is never handed out twice, the version only rises).
RevokedStaysRevoked ==
  [][\A t \in Tabs : \A token \in {jar[t], socket[t].token} :
       (token # NoToken /\ ~IsSessionCurrent(token)) => ~IsSessionCurrent(token)']_sessionsVars

\* A page that is signed in gives up on its socket only when its session is
\* over.  In particular it does not when its user changed their own password:
\* whoever does that "keeps working" (UserController update), as the close
\* code 4002 makes the page connect again on the cookie of that answer.
GivesUpOnlyWhenOver ==
  \A t \in Tabs : (inside[t] /\ socket[t].state = "stopped") => ~IsSessionCurrent(jar[t])

\* A session holds what its user may do, to its end and no further.
SessionsKept == SessionsHold /\ GivesUpOnlyWhenOver
=============================================================================
