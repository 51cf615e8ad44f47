------------------------------ MODULE AgentLink ------------------------------
(***************************************************************************)
(* The connection between the server and one agent, in both directions:    *)
(* who dials, how a session is authenticated, replaced and lost, and who   *)
(* tries again (server: ClientConnector, WebSocketController,              *)
(* AgentSession, Heartbeat, ProxyService, ClientConnectionWatch,           *)
(* ClientController; agent: Connection, /ws/agent).                        *)
(*                                                                         *)
(* In "inbound" mode the agent dials the server, in "outbound" mode the    *)
(* server dials the agent; in both the agent sends AUTH.  A socket has an  *)
(* end on each side; an end handles its events one at a time, and a call   *)
(* of close() is followed, some time later, by the end's `close` event.    *)
(* A delay is an action that may come at any time after its timer is set.  *)
(***************************************************************************)
EXTENDS Naturals, FiniteSets

CONSTANTS
    Modes,        \* subset of {"inbound", "outbound"}
    MaxSockets,   \* bound: sockets that are not closed on both sides yet
    MaxFaults,    \* bound: broken connections, time-outs, refusals
    MaxPresses,   \* bound: what operators do
    MaxRestarts   \* bound: restarts of the server and of the agent

ASSUME LinkAssumption ==
    /\ Modes \subseteq {"inbound", "outbound"} /\ Modes # {}
    /\ MaxSockets \in Nat \ {0}
    /\ MaxFaults \in Nat /\ MaxPresses \in Nat /\ MaxRestarts \in Nat

Sockets == 1 .. MaxSockets
NoSocket == 0

VARIABLES
    mode,        \* connection_mode, fixed when the client is created
    row,         \* the client is in the database
    valid,       \* the agent's identity is the one stored in the row
    srv, agt,    \* the two ends of each socket
    authed,      \* sockets whose server end has seen AUTH (`isAuthenticated`)
    wire,        \* messages under way: <<socket, type>>
    cut,         \* sockets whose connection broke
    waiter,      \* whose promise the dial of a socket still has to settle
    registered,  \* connectedClients: the socket of the agent's session
    timer,       \* reconnectTimers: a dial is scheduled
    away,        \* ClientConnectionWatch: "no", "pending", "reported"
    ws,          \* the agent's wsInstance
    agentTimer,  \* the agent's reconnectTimer
    connecting,  \* the socket of the agent's handshake under way
    serverUp, agentUp,
    faults, presses, restarts

link == <<srv, agt, authed, wire, cut, waiter>>
serverVars == <<registered, timer, away>>
agentVars == <<ws, agentTimer, connecting>>
client == <<mode, row, valid>>
up == <<serverUp, agentUp>>
bounds == <<faults, presses, restarts>>
vars == <<client, link, serverVars, agentVars, up, bounds>>

\* "dialing": this side opened the socket and waits for it; "arriving": it has
\* not accepted it yet; "refused": it closed it at once and listens to nothing
\* on it; "closing": close() was called.
EndStates == {"closed", "dialing", "arriving", "refused", "open", "closing"}

ClientType == mode \in Modes /\ row \in BOOLEAN /\ valid \in BOOLEAN
SocketType ==
    /\ srv \in [Sockets -> EndStates] /\ agt \in [Sockets -> EndStates]
    /\ authed \subseteq Sockets /\ cut \subseteq Sockets
    /\ wire \subseteq Sockets \X {"AUTH", "AUTH_SUCCESS"}
    /\ waiter \in [Sockets -> {"nobody", "connectClient", "firstConnect"}]
ServerType ==
    /\ registered \in Sockets \cup {NoSocket} /\ timer \in BOOLEAN
    /\ away \in {"no", "pending", "reported"} /\ serverUp \in BOOLEAN
AgentType ==
    /\ ws \in Sockets \cup {NoSocket} /\ connecting \in Sockets \cup {NoSocket}
    /\ agentTimer \in BOOLEAN /\ agentUp \in BOOLEAN
BoundType ==
    /\ faults \in 0 .. MaxFaults /\ presses \in 0 .. MaxPresses
    /\ restarts \in 0 .. MaxRestarts

TypeOK == ClientType /\ SocketType /\ ServerType /\ AgentType /\ BoundType

\* An outbound client that is not there yet, or either kind, stored and offline.
Init ==
    /\ mode \in Modes /\ row \in (IF mode = "outbound" THEN BOOLEAN ELSE {TRUE})
    /\ valid = TRUE
    /\ srv = [s \in Sockets |-> "closed"] /\ agt = [s \in Sockets |-> "closed"]
    /\ authed = {} /\ wire = {} /\ cut = {}
    /\ waiter = [s \in Sockets |-> "nobody"]
    /\ registered = NoSocket /\ timer = FALSE /\ away = "no"
    /\ ws = NoSocket /\ agentTimer = FALSE /\ connecting = NoSocket
    /\ serverUp = FALSE /\ agentUp = FALSE
    /\ faults = 0 /\ presses = 0 /\ restarts = 0

Free == {s \in Sockets : srv[s] = "closed" /\ agt[s] = "closed"}
Fresh == CHOOSE s \in Free : TRUE

Fault == faults < MaxFaults /\ faults' = faults + 1 /\ UNCHANGED <<presses, restarts>>
Press == presses < MaxPresses /\ presses' = presses + 1 /\ UNCHANGED <<faults, restarts>>
NoFault == UNCHANGED bounds

\* A socket of a dial that starts now; nothing is left on it of an earlier one.
Opened(s) ==
    /\ authed' = authed \ {s} /\ cut' = cut \ {s}
    /\ wire' = {m \in wire : m[1] # s}

-----------------------------------------------------------------------------
(***************************************************************************)
(* The server's side.                                                      *)
(***************************************************************************)
\* connectWithToken, for `who`, with the end states the step leaves otherwise.
Dial(who, ends) ==
    /\ Free # {}
    /\ LET s == Fresh IN
       /\ srv' = [ends EXCEPT ![s] = "dialing"]
       /\ agt' = [agt EXCEPT ![s] = "arriving"]
       /\ waiter' = [waiter EXCEPT ![s] = who]
       /\ Opened(s)

\* connectAll at the start: what was known in memory is gone.
ServerStart ==
    /\ ~serverUp /\ serverUp' = TRUE
    /\ IF mode = "outbound" /\ row
       THEN Dial("connectClient", srv)
       ELSE UNCHANGED link
    /\ UNCHANGED <<client, serverVars, agentVars, agentUp>> /\ NoFault

\* The timer of scheduleReconnect: the row is read again.
ReconnectDue ==
    /\ serverUp /\ timer /\ timer' = FALSE
    /\ IF row THEN Dial("connectClient", srv) ELSE UNCHANGED link
    /\ UNCHANGED <<client, registered, away, agentVars, up>> /\ NoFault

\* POST /clients: the registration went well, the session follows it.
CreateOutbound ==
    /\ serverUp /\ mode = "outbound" /\ ~row /\ Press
    /\ \A s \in Sockets : waiter[s] # "firstConnect"
    /\ Dial("firstConnect", srv)
    /\ UNCHANGED <<client, serverVars, agentVars, up>>

\* POST /clients/:id/reconnect: reconnectNow, connected or not.
Reconnect ==
    /\ serverUp /\ mode = "outbound" /\ row /\ Press
    /\ Dial("connectClient", srv) /\ timer' = FALSE
    /\ UNCHANGED <<client, registered, away, agentVars, up>>

\* close() on the server's end of a socket.
Closing(s) == IF s # NoSocket /\ srv[s] = "open" THEN [srv EXCEPT ![s] = "closing"] ELSE srv

\* The target address changed: disconnectClient, then reconnectNow.
ChangeAddress ==
    /\ serverUp /\ mode = "outbound" /\ row /\ Press
    /\ Dial("connectClient", Closing(registered)) /\ timer' = FALSE
    /\ UNCHANGED <<client, registered, away, agentVars, up>>

\* DELETE /clients/:id: cancelReconnect, forget, the row, then the session.
Delete ==
    /\ serverUp /\ row /\ Press
    /\ row' = FALSE /\ timer' = FALSE /\ away' = "no"
    /\ srv' = Closing(registered) /\ registered' = NoSocket
    /\ UNCHANGED <<mode, valid, agt, authed, wire, cut, waiter, agentVars, up>>

\* An agent registers as this inbound client: another one, or this one again.
Register ==
    /\ serverUp /\ mode = "inbound" /\ row /\ Press
    /\ valid' \in BOOLEAN
    /\ srv' = Closing(registered) /\ registered' = NoSocket
    /\ UNCHANGED <<mode, row, agt, authed, wire, cut, waiter, timer, away, agentVars, up>>

\* The dial is through: from here the session's own time-out watches it.
DialOpens(s) ==
    /\ serverUp /\ srv[s] = "dialing" /\ agt[s] # "arriving"
    /\ srv' = [srv EXCEPT ![s] = "open"]
    /\ UNCHANGED <<client, agt, authed, wire, cut, waiter, serverVars, agentVars, up>> /\ NoFault

\* The promise of a dial answers false: connectClient arms the timer.
Failed(s) ==
    /\ waiter' = [waiter EXCEPT ![s] = "nobody"]
    /\ timer' = (timer \/ waiter[s] = "connectClient")

\* HANDSHAKE_TIMEOUT_MS: terminate.
DialTimesOut(s) ==
    /\ serverUp /\ srv[s] = "dialing" /\ Fault
    /\ srv' = [srv EXCEPT ![s] = "closing"] /\ cut' = cut \cup {s}
    /\ Failed(s)
    /\ UNCHANGED <<client, agt, authed, wire, registered, away, agentVars, up>>

\* /api/v1/ws/agent: the credentials are checked when the agent connects.
AcceptAgent(s) ==
    /\ serverUp /\ srv[s] = "arriving" /\ s \notin cut
    /\ srv' = [srv EXCEPT ![s] = IF row /\ valid THEN "open" ELSE "refused"]
    /\ UNCHANGED <<client, agt, authed, wire, cut, waiter, serverVars, agentVars, up>> /\ NoFault

\* AUTH_TIMEOUT_MS, or a first message that is not a valid AUTH.
AuthFails(s) ==
    /\ serverUp /\ srv[s] = "open" /\ s \notin authed /\ Fault
    /\ srv' = [srv EXCEPT ![s] = "closing"]
    /\ Failed(s)
    /\ UNCHANGED <<client, agt, authed, wire, cut, registered, away, agentVars, up>>

\* AUTH arrives, if need be on a socket that is being closed: the row of a new
\* client is written, the session registered in place of the one there was,
\* and the promise of the dial answers true.
Authenticate(s) ==
    /\ serverUp /\ srv[s] \in {"open", "closing"} /\ s \notin authed /\ <<s, "AUTH">> \in wire
    /\ authed' = authed \cup {s}
    /\ wire' = (wire \ {<<s, "AUTH">>}) \cup {<<s, "AUTH_SUCCESS">>}
    /\ row' = (row \/ waiter[s] = "firstConnect")
    /\ srv' = Closing(registered) /\ registered' = s /\ away' = "no"
    /\ waiter' = [waiter EXCEPT ![s] = "nobody"]
    /\ UNCHANGED <<mode, valid, agt, cut, timer, agentVars, up>> /\ NoFault

\* unregisterClient: was this the agent's session?
WasCurrent(s) == s \in authed /\ s = registered

\* Mutant: the close of a socket that was replaced counts as the agent's.
WatchedAny(s) == s \in authed
\* A close the watch hears of.
Watched(s) == WasCurrent(s)

\* onClose of an outbound session, and connectClient whose dial fails.
Retries(s) == waiter[s] = "connectClient" \/ (mode = "outbound" /\ s \in authed)

\* `resolve(false)`: nothing for a promise that is settled.
Settles(s) == waiter' = [waiter EXCEPT ![s] = "nobody"]

\* What lets an end see its `close`: it called it, the connection broke (the
\* heartbeat tells), or the other end closed it, and what that end sent before
\* has arrived.
ServerSeesClose(s) ==
    \/ srv[s] \in {"closing", "refused"}
    \/ srv[s] \in {"dialing", "open"} /\ s \in cut
    \/ srv[s] = "open" /\ agt[s] \in {"closing", "refused", "closed"} /\ <<s, "AUTH">> \notin wire

\* The `close` event of the server's end.
ServerClose(s) ==
    /\ serverUp /\ ServerSeesClose(s)
    /\ srv' = [srv EXCEPT ![s] = "closed"]
    /\ Settles(s)
    /\ timer' = (timer \/ Retries(s))
    /\ registered' = IF WasCurrent(s) THEN NoSocket ELSE registered
    /\ away' = IF Watched(s) /\ away # "reported" THEN "pending" ELSE away
    /\ UNCHANGED <<client, agt, authed, wire, cut, agentVars, up>> /\ NoFault

\* DISCONNECT_GRACE_MS is over: client.disconnected is dispatched.
GraceOver ==
    /\ serverUp /\ away = "pending" /\ away' = "reported"
    /\ UNCHANGED <<client, link, registered, timer, agentVars, up>> /\ NoFault

-----------------------------------------------------------------------------
(***************************************************************************)
(* The agent's side.                                                       *)
(***************************************************************************)
AgentClosing(s) == IF s # NoSocket /\ agt[s] \in {"dialing", "open"}
                   THEN [agt EXCEPT ![s] = "closing"] ELSE agt

\* connect(), when it is not under way and there is no connection.
Connect ==
    /\ Free # {}
    /\ LET s == Fresh IN
       /\ agt' = [AgentClosing(ws) EXCEPT ![s] = "dialing"]
       /\ srv' = [srv EXCEPT ![s] = "arriving"]
       /\ ws' = s /\ connecting' = s
       /\ Opened(s)
    /\ agentTimer' = FALSE /\ UNCHANGED waiter

IsConnected == ws # NoSocket /\ agt[ws] = "open"

\* Connection.connect: joins the handshake under way, supersedes the timer,
\* and does nothing for an agent that is connected.
ConnectOnce ==
    CASE connecting # NoSocket -> UNCHANGED <<link, agentVars>>
      [] connecting = NoSocket /\ IsConnected ->
            agentTimer' = FALSE /\ UNCHANGED <<link, ws, connecting>>
      [] OTHER -> Connect

AgentStart ==
    /\ ~agentUp /\ agentUp' = TRUE
    /\ IF mode = "inbound" THEN ConnectOnce ELSE UNCHANGED <<link, agentVars>>
    /\ UNCHANGED <<client, serverVars, serverUp>> /\ NoFault

\* The reconnect timer is cleared before it calls connect().
AgentReconnectDue ==
    /\ agentUp /\ agentTimer
    /\ IF connecting # NoSocket
       THEN agentTimer' = FALSE /\ UNCHANGED <<link, ws, connecting>>
       ELSE ConnectOnce
    /\ UNCHANGED <<client, serverVars, up>> /\ NoFault

\* POST /api/connect on the status page.
ConnectPressed ==
    /\ agentUp /\ mode = "inbound" /\ Press
    /\ ConnectOnce
    /\ UNCHANGED <<client, serverVars, up>>

\* /ws/agent: handleIncoming replaces the connection there was, and sends AUTH.
AcceptServer(s) ==
    /\ agentUp /\ agt[s] = "arriving" /\ s \notin cut
    /\ agt' = [AgentClosing(ws) EXCEPT ![s] = "open"] /\ ws' = s
    /\ wire' = wire \cup {<<s, "AUTH">>}
    /\ UNCHANGED <<client, srv, authed, cut, waiter, serverVars, agentTimer, connecting, up>> /\ NoFault

\* /ws/agent refuses: an address, a mode or a credential that does not fit.
RefuseServer(s) ==
    /\ agentUp /\ agt[s] = "arriving" /\ Fault
    /\ agt' = [agt EXCEPT ![s] = "refused"]
    /\ UNCHANGED <<client, srv, authed, wire, cut, waiter, serverVars, agentVars, up>>

\* `open`: AUTH goes out on the agent's current connection.
AgentOpens(s) ==
    /\ agentUp /\ agt[s] = "dialing" /\ srv[s] # "arriving"
    /\ agt' = [agt EXCEPT ![s] = "open"]
    /\ wire' = IF ws = s THEN wire \cup {<<s, "AUTH">>} ELSE wire
    /\ UNCHANGED <<client, srv, authed, cut, waiter, serverVars, agentVars, up>> /\ NoFault

\* AUTH_SUCCESS: the handshake is over.
AgentAuthenticated(s) ==
    /\ agentUp /\ agt[s] \in {"open", "closing"} /\ <<s, "AUTH_SUCCESS">> \in wire
    /\ wire' = wire \ {<<s, "AUTH_SUCCESS">>}
    /\ connecting' = IF connecting = s THEN NoSocket ELSE connecting
    /\ UNCHANGED <<client, srv, agt, authed, cut, waiter, serverVars, ws, agentTimer, up>> /\ NoFault

\* The attempt's 5 s are over: the socket is closed, the caller answered.
AttemptTimesOut ==
    /\ agentUp /\ connecting # NoSocket /\ Fault
    /\ agt' = AgentClosing(connecting) /\ connecting' = NoSocket
    /\ UNCHANGED <<client, srv, authed, wire, cut, waiter, serverVars, ws, agentTimer, up>>

AgentSeesClose(s) ==
    \/ agt[s] \in {"closing", "refused"}
    \/ agt[s] \in {"dialing", "open"} /\ s \in cut
    \/ agt[s] = "open" /\ srv[s] \in {"closing", "refused", "closed"} /\ <<s, "AUTH_SUCCESS">> \notin wire

\* Mutant: the close of a replaced socket clears its successor.
ClearsAny(s) == NoSocket
\* The connection there is, once the close of s was seen.
LeftBy(s) == IF ws = s THEN NoSocket ELSE ws

\* Mutant: no dial follows.
NoAgentRetry == agentTimer
\* Only a connection the agent dialled is dialled again.
AgentRetries == agentTimer \/ mode = "inbound"

\* The `close` event of the agent's end.
AgentClose(s) ==
    /\ agentUp /\ AgentSeesClose(s)
    /\ agt' = [agt EXCEPT ![s] = "closed"]
    /\ ws' = LeftBy(s)
    /\ connecting' = IF connecting = s THEN NoSocket ELSE connecting
    /\ agentTimer' = AgentRetries
    /\ UNCHANGED <<client, srv, authed, wire, cut, waiter, serverVars, up>> /\ NoFault

-----------------------------------------------------------------------------
(***************************************************************************)
(* The network and the processes.                                          *)
(***************************************************************************)
\* A connection breaks, or a peer stops answering its pings.
Break(s) ==
    /\ s \notin Free /\ s \notin cut /\ Fault
    /\ cut' = cut \cup {s}
    /\ UNCHANGED <<client, srv, agt, authed, wire, waiter, serverVars, agentVars, up>>

\* A side that never accepted a socket forgets it without an event.
Forgotten(s) ==
    \/ /\ agt[s] = "arriving" /\ (s \in cut \/ srv[s] = "closed")
       /\ agt' = [agt EXCEPT ![s] = "closed"] /\ UNCHANGED srv
    \/ /\ srv[s] = "arriving" /\ (s \in cut \/ agt[s] = "closed")
       /\ srv' = [srv EXCEPT ![s] = "closed"] /\ UNCHANGED agt
Forget(s) ==
    /\ Forgotten(s)
    /\ UNCHANGED <<client, authed, wire, cut, waiter, serverVars, agentVars, up>> /\ NoFault

ServerCrash ==
    /\ serverUp /\ restarts < MaxRestarts /\ restarts' = restarts + 1
    /\ serverUp' = FALSE
    /\ srv' = [s \in Sockets |-> "closed"]
    /\ waiter' = [s \in Sockets |-> "nobody"]
    /\ registered' = NoSocket /\ timer' = FALSE /\ away' = "no"
    /\ UNCHANGED <<client, agt, authed, wire, cut, agentVars, agentUp, faults, presses>>

AgentCrash ==
    /\ agentUp /\ restarts < MaxRestarts /\ restarts' = restarts + 1
    /\ agentUp' = FALSE
    /\ agt' = [s \in Sockets |-> "closed"]
    /\ ws' = NoSocket /\ agentTimer' = FALSE /\ connecting' = NoSocket
    /\ UNCHANGED <<client, srv, authed, wire, cut, waiter, serverVars, serverUp, faults, presses>>

-----------------------------------------------------------------------------
ServerStep(s) == DialOpens(s) \/ AcceptAgent(s) \/ Authenticate(s) \/ ServerClose(s)
AgentStep(s) == AcceptServer(s) \/ AgentOpens(s) \/ AgentAuthenticated(s) \/ AgentClose(s)
Mishap(s) == DialTimesOut(s) \/ AuthFails(s) \/ RefuseServer(s) \/ Break(s)
Operator == CreateOutbound \/ Reconnect \/ ChangeAddress \/ Delete \/ Register \/ ConnectPressed

Next ==
    \/ ServerStart \/ ReconnectDue \/ GraceOver
    \/ AgentStart \/ AgentReconnectDue \/ AttemptTimesOut
    \/ Operator \/ ServerCrash \/ AgentCrash
    \/ \E s \in Sockets : ServerStep(s) \/ AgentStep(s) \/ Forget(s) \/ Mishap(s)

Spec == Init /\ [][Next]_vars

\* Timers fire, events that are due come, processes are started again; faults,
\* restarts and operators owe nothing.
FairSpec ==
    /\ Spec
    /\ WF_vars(ServerStart) /\ WF_vars(ReconnectDue)
    /\ WF_vars(AgentStart) /\ WF_vars(AgentReconnectDue)
    /\ \A s \in Sockets : /\ WF_vars(DialOpens(s)) /\ WF_vars(AcceptAgent(s))
                          /\ WF_vars(Authenticate(s)) /\ WF_vars(ServerClose(s))
                          /\ WF_vars(AcceptServer(s)) /\ WF_vars(AgentOpens(s))
                          /\ WF_vars(AgentAuthenticated(s)) /\ WF_vars(AgentClose(s))
                          /\ WF_vars(Forget(s))

-----------------------------------------------------------------------------
(***************************************************************************)
(* Properties.                                                             *)
(***************************************************************************)
\* A client has one session: any other socket it authenticated on is being
\* closed (registerClient closes the one it replaces).
OneSession == \A s \in authed : srv[s] = "open" => registered = s

\* The server never gives up on a client it dials: while it is stored, a dial
\* is scheduled, one is under way that will be settled, or there is a session
\* whose close will schedule one (connectClient, onClose of the session).
ServerKeepsTrying ==
    serverUp /\ mode = "outbound" /\ row =>
        \/ timer
        \/ \E s \in Sockets : /\ srv[s] # "closed"
                             /\ (waiter[s] = "connectClient" \/ s \in authed)

\* Nor does an agent that dials the server: its timer is armed, or it has a
\* socket whose close will arm it (Connection.connect, scheduleReconnect).
AgentKeepsTrying ==
    agentUp /\ mode = "inbound" =>
        agentTimer \/ \E s \in Sockets : agt[s] \in {"dialing", "open", "closing"}

\* The agent has one connection: a socket that is open or being opened is the
\* one it sends on, whatever becomes of the sockets it replaced.
OneConnection == \A s \in Sockets : agt[s] \in {"dialing", "open"} => ws = s

\* The watch counts only absence: whoever it may report, or reported, has no
\* session (ClientConnectionWatch, AgentSession's close).
AwayIsOffline == away # "no" => registered = NoSocket

\* The two ends of the link agree on what there is, and neither gives it up.
LinkHolds == TypeOK /\ OneSession /\ OneConnection /\ ServerKeepsTrying
             /\ AgentKeepsTrying /\ AwayIsOffline

\* What was told of the agent's absence, in Presence's words.
Told == CASE away = "no" -> "nothing" [] away = "pending" -> "leaving" [] away = "reported" -> "gone"

\* Reports of disconnects and reconnects are those Presence promises.
Presence == INSTANCE Presence WITH online <- registered # NoSocket, told <- Told
ReportsPresence == Presence!Spec

\* Once faults, restarts and operators let it, an agent the server knows gets
\* its session back, whichever side dials.
Reconnects == (row /\ valid) ~> (registered # NoSocket \/ ~row \/ ~valid)

\* The promise of every dial is answered: no request of a dashboard hangs
\* (performRegistration's and connectWithToken's "every terminal event").
DialsAnswered == \A s \in Sockets : waiter[s] # "nobody" ~> waiter[s] = "nobody"

SameSession == registered' = registered
\* And then it keeps it: with nobody interfering, sessions stop changing.
SessionLasts == <>[][SameSession]_vars

\* The loops that dial for the client: a timer, dials under way, sessions whose
\* close starts the next dial.
Loops == (IF timer THEN {NoSocket} ELSE {})
         \cup {s \in Sockets : srv[s] # "closed" /\ (waiter[s] = "connectClient" \/ s \in authed)}

\* The same, always where the agent dials, and where the server does as long
\* as no second loop was started for the client.
OneLoopLasts == (mode = "inbound" \/ [](Cardinality(Loops) <= 1)) => SessionLasts

\* What was begun is ended: a dial in an answer, an absence in a session that lasts.
Recovers == Reconnects /\ DialsAnswered /\ OneLoopLasts

\* A client that was deleted has no session any more: the server stopped
\* dialing it before its row went (ClientController.delete).
DeletedHasNoSession == registered # NoSocket => row
=============================================================================
