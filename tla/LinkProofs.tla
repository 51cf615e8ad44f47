----------------------------- MODULE LinkProofs -----------------------------
(***************************************************************************)
(* Proofs about module AgentLink, for any number of sockets, faults,       *)
(* restarts and operators, in both connection modes.                       *)
(***************************************************************************)
EXTENDS AgentLink, TLAPS

-----------------------------------------------------------------------------
(***************************************************************************)
(* The inductive invariant.                                                *)
(***************************************************************************)

\* Only an accepted socket has seen AUTH; a socket the server did not dial, or
\* whose end is closed, has no promise to settle.
DialKept ==
    \A s \in Sockets :
        /\ srv[s] \in {"dialing", "arriving", "refused"} => s \notin authed
        /\ srv[s] \in {"closed", "arriving", "refused"} => waiter[s] = "nobody"

\* The handshake under way has a socket whose close ends it; an agent that is
\* not running has none.
HandshakeKept ==
    /\ connecting # NoSocket => agt[connecting] \in {"dialing", "open", "closing"}
    /\ ~agentUp => connecting = NoSocket /\ ws = NoSocket

IInv == LinkHolds /\ DialKept /\ HandshakeKept

-----------------------------------------------------------------------------
LEMMA SocketIsOne == NoSocket \notin Sockets
  BY DEF NoSocket, Sockets

\* A dial and an attempt to connect take a socket nothing is left of.
LEMMA FreshIsFree ==
    ASSUME Free # {}
    PROVE  Fresh \in Sockets /\ srv[Fresh] = "closed" /\ agt[Fresh] = "closed"
  BY DEF Fresh, Free

LEMMA InitInv == ASSUME Init PROVE IInv
<1> USE LinkAssumption, SocketIsOne
<1>1. TypeOK
  <2>1. ClientType
    BY DEF Init, ClientType
  <2>2. SocketType
    BY DEF Init, SocketType, EndStates
  <2>3. ServerType /\ AgentType
    BY DEF Init, ServerType, AgentType
  <2>4. BoundType
    BY DEF Init, BoundType
  <2>5. QED
    BY <2>1, <2>2, <2>3, <2>4 DEF TypeOK
<1>2. OneSession /\ OneConnection /\ ServerKeepsTrying /\ AgentKeepsTrying /\ AwayIsOffline
  BY DEF Init, OneSession, OneConnection, ServerKeepsTrying, AgentKeepsTrying, AwayIsOffline
<1>3. DialKept /\ HandshakeKept
  BY DEF Init, DialKept, HandshakeKept
<1>4. QED
  BY <1>1, <1>2, <1>3 DEF IInv, LinkHolds

LEMMA StutterKeeps == ASSUME IInv, UNCHANGED vars PROVE IInv'
<1> USE DEF vars, client, link, serverVars, agentVars, up, bounds
<1>1. TypeOK'
  BY DEF IInv, LinkHolds, TypeOK, ClientType, SocketType, ServerType, AgentType, BoundType
<1>2. OneSession' /\ OneConnection' /\ ServerKeepsTrying' /\ AgentKeepsTrying' /\ AwayIsOffline'
  BY DEF IInv, LinkHolds, OneSession, OneConnection, ServerKeepsTrying, AgentKeepsTrying,
         AwayIsOffline
<1>3. DialKept' /\ HandshakeKept'
  BY DEF IInv, DialKept, HandshakeKept
<1>4. QED
  BY <1>1, <1>2, <1>3 DEF IInv, LinkHolds

LEMMA ServerStartKeeps == ASSUME IInv, ServerStart PROVE IInv'
<1> USE LinkAssumption, SocketIsOne, FreshIsFree DEF IInv, LinkHolds, ServerStart, Dial, Opened, NoFault, client, link, serverVars, agentVars, up, bounds
<1>1. TypeOK'
  BY DEF TypeOK, ClientType, SocketType, ServerType, AgentType, BoundType, EndStates
<1>2. OneSession' /\ AwayIsOffline' /\ ServerKeepsTrying'
  BY DEF TypeOK, SocketType, ServerType, ClientType, DialKept, OneSession, AwayIsOffline, ServerKeepsTrying
<1>3. OneConnection' /\ AgentKeepsTrying' /\ HandshakeKept'
  BY DEF TypeOK, SocketType, AgentType, OneConnection, AgentKeepsTrying, HandshakeKept
<1>4. DialKept'
  BY DEF TypeOK, SocketType, DialKept, EndStates
<1>5. QED
  BY <1>1, <1>2, <1>3, <1>4

LEMMA ReconnectDueKeeps == ASSUME IInv, ReconnectDue PROVE IInv'
<1> USE LinkAssumption, SocketIsOne, FreshIsFree DEF IInv, LinkHolds, ReconnectDue, Dial, Opened, NoFault, client, link, serverVars, agentVars, up, bounds
<1>1. TypeOK'
  BY DEF TypeOK, ClientType, SocketType, ServerType, AgentType, BoundType, EndStates
<1>2. OneSession' /\ AwayIsOffline' /\ ServerKeepsTrying'
  BY DEF TypeOK, SocketType, ServerType, ClientType, DialKept, OneSession, AwayIsOffline, ServerKeepsTrying
<1>3. OneConnection' /\ AgentKeepsTrying' /\ HandshakeKept'
  BY DEF TypeOK, SocketType, AgentType, OneConnection, AgentKeepsTrying, HandshakeKept
<1>4. DialKept'
  BY DEF TypeOK, SocketType, DialKept, EndStates
<1>5. QED
  BY <1>1, <1>2, <1>3, <1>4

LEMMA CreateOutboundKeeps == ASSUME IInv, CreateOutbound PROVE IInv'
<1> USE LinkAssumption, SocketIsOne, FreshIsFree DEF IInv, LinkHolds, CreateOutbound, Dial, Opened, Press, client, link, serverVars, agentVars, up, bounds
<1>1. TypeOK'
  BY DEF TypeOK, ClientType, SocketType, ServerType, AgentType, BoundType, EndStates
<1>2. OneSession' /\ AwayIsOffline' /\ ServerKeepsTrying'
  BY DEF TypeOK, SocketType, ServerType, ClientType, DialKept, OneSession, AwayIsOffline, ServerKeepsTrying
<1>3. OneConnection' /\ AgentKeepsTrying' /\ HandshakeKept'
  BY DEF TypeOK, SocketType, AgentType, OneConnection, AgentKeepsTrying, HandshakeKept
<1>4. DialKept'
  BY DEF TypeOK, SocketType, DialKept, EndStates
<1>5. QED
  BY <1>1, <1>2, <1>3, <1>4

LEMMA ReconnectKeeps == ASSUME IInv, Reconnect PROVE IInv'
<1> USE LinkAssumption, SocketIsOne, FreshIsFree DEF IInv, LinkHolds, Reconnect, Dial, Opened, Press, client, link, serverVars, agentVars, up, bounds
<1>1. TypeOK'
  <2>1. BoundType'
    BY DEF TypeOK, BoundType
  <2>2. ClientType' /\ SocketType' /\ ServerType' /\ AgentType'
    BY DEF TypeOK, ClientType, SocketType, ServerType, AgentType, EndStates
  <2>3. QED
    BY <2>1, <2>2 DEF TypeOK
<1>2. OneSession' /\ AwayIsOffline' /\ ServerKeepsTrying'
  BY DEF TypeOK, SocketType, ServerType, ClientType, DialKept, OneSession, AwayIsOffline, ServerKeepsTrying
<1>3. OneConnection' /\ AgentKeepsTrying' /\ HandshakeKept'
  BY DEF TypeOK, SocketType, AgentType, OneConnection, AgentKeepsTrying, HandshakeKept
<1>4. DialKept'
  BY DEF TypeOK, SocketType, DialKept, EndStates
<1>5. QED
  BY <1>1, <1>2, <1>3, <1>4

LEMMA ChangeAddressKeeps == ASSUME IInv, ChangeAddress PROVE IInv'
<1> USE LinkAssumption, SocketIsOne, FreshIsFree DEF IInv, LinkHolds, ChangeAddress, Dial, Opened, Closing, Press, client, link, serverVars, agentVars, up, bounds
<1>1. TypeOK'
  <2>1. BoundType'
    BY DEF TypeOK, BoundType
  <2>2. ClientType' /\ SocketType' /\ ServerType' /\ AgentType'
    BY DEF TypeOK, ClientType, SocketType, ServerType, AgentType, EndStates
  <2>3. QED
    BY <2>1, <2>2 DEF TypeOK
<1>2. OneSession' /\ AwayIsOffline' /\ ServerKeepsTrying'
  BY DEF TypeOK, SocketType, ServerType, ClientType, DialKept, OneSession, AwayIsOffline, ServerKeepsTrying
<1>3. OneConnection' /\ AgentKeepsTrying' /\ HandshakeKept'
  BY DEF TypeOK, SocketType, AgentType, OneConnection, AgentKeepsTrying, HandshakeKept
<1>4. DialKept'
  BY DEF TypeOK, SocketType, DialKept, EndStates
<1>5. QED
  BY <1>1, <1>2, <1>3, <1>4

LEMMA DeleteKeeps == ASSUME IInv, Delete PROVE IInv'
<1> USE LinkAssumption, SocketIsOne DEF IInv, LinkHolds, Delete, Closing, Press, client, link, serverVars, agentVars, up, bounds
<1>1. TypeOK'
  <2>1. BoundType'
    BY DEF TypeOK, BoundType
  <2>2. ClientType' /\ SocketType' /\ ServerType' /\ AgentType'
    BY DEF TypeOK, ClientType, SocketType, ServerType, AgentType, EndStates
  <2>3. QED
    BY <2>1, <2>2 DEF TypeOK
<1>2. OneSession' /\ AwayIsOffline' /\ ServerKeepsTrying'
  BY DEF TypeOK, SocketType, ServerType, ClientType, DialKept, OneSession, AwayIsOffline, ServerKeepsTrying
<1>3. OneConnection' /\ AgentKeepsTrying' /\ HandshakeKept'
  BY DEF TypeOK, SocketType, AgentType, OneConnection, AgentKeepsTrying, HandshakeKept
<1>4. DialKept'
  BY DEF TypeOK, SocketType, DialKept, EndStates
<1>5. QED
  BY <1>1, <1>2, <1>3, <1>4

LEMMA RegisterKeeps == ASSUME IInv, Register PROVE IInv'
<1> USE LinkAssumption, SocketIsOne DEF IInv, LinkHolds, Register, Closing, Press, client, link, serverVars, agentVars, up, bounds
<1>1. TypeOK'
  BY DEF TypeOK, ClientType, SocketType, ServerType, AgentType, BoundType, EndStates
<1>2. OneSession' /\ AwayIsOffline' /\ ServerKeepsTrying'
  BY DEF TypeOK, SocketType, ServerType, ClientType, DialKept, OneSession, AwayIsOffline, ServerKeepsTrying
<1>3. OneConnection' /\ AgentKeepsTrying' /\ HandshakeKept'
  BY DEF TypeOK, SocketType, AgentType, OneConnection, AgentKeepsTrying, HandshakeKept
<1>4. DialKept'
  BY DEF TypeOK, SocketType, DialKept, EndStates
<1>5. QED
  BY <1>1, <1>2, <1>3, <1>4

LEMMA DialOpensKeeps == ASSUME IInv, NEW s \in Sockets, DialOpens(s) PROVE IInv'
<1> USE LinkAssumption, SocketIsOne DEF IInv, LinkHolds, DialOpens, NoFault, client, link, serverVars, agentVars, up, bounds
<1>1. TypeOK'
  BY DEF TypeOK, ClientType, SocketType, ServerType, AgentType, BoundType, EndStates
<1>2. OneSession' /\ AwayIsOffline' /\ ServerKeepsTrying'
  BY DEF TypeOK, SocketType, ServerType, ClientType, DialKept, OneSession, AwayIsOffline, ServerKeepsTrying
<1>3. OneConnection' /\ AgentKeepsTrying' /\ HandshakeKept'
  BY DEF TypeOK, SocketType, AgentType, OneConnection, AgentKeepsTrying, HandshakeKept
<1>4. DialKept'
  BY DEF TypeOK, SocketType, DialKept, EndStates
<1>5. QED
  BY <1>1, <1>2, <1>3, <1>4

LEMMA DialTimesOutKeeps == ASSUME IInv, NEW s \in Sockets, DialTimesOut(s) PROVE IInv'
<1> USE LinkAssumption, SocketIsOne DEF IInv, LinkHolds, DialTimesOut, Failed, Fault, client, link, serverVars, agentVars, up, bounds
<1>1. TypeOK'
  BY DEF TypeOK, ClientType, SocketType, ServerType, AgentType, BoundType, EndStates
<1>2. OneSession' /\ AwayIsOffline' /\ ServerKeepsTrying'
  BY DEF TypeOK, SocketType, ServerType, ClientType, DialKept, OneSession, AwayIsOffline, ServerKeepsTrying
<1>3. OneConnection' /\ AgentKeepsTrying' /\ HandshakeKept'
  BY DEF TypeOK, SocketType, AgentType, OneConnection, AgentKeepsTrying, HandshakeKept
<1>4. DialKept'
  BY DEF TypeOK, SocketType, DialKept, EndStates
<1>5. QED
  BY <1>1, <1>2, <1>3, <1>4

LEMMA AcceptAgentKeeps == ASSUME IInv, NEW s \in Sockets, AcceptAgent(s) PROVE IInv'
<1> USE LinkAssumption, SocketIsOne DEF IInv, LinkHolds, AcceptAgent, NoFault, client, link, serverVars, agentVars, up, bounds
<1>1. TypeOK'
  BY DEF TypeOK, ClientType, SocketType, ServerType, AgentType, BoundType, EndStates
<1>2. OneSession' /\ AwayIsOffline' /\ ServerKeepsTrying'
  BY DEF TypeOK, SocketType, ServerType, ClientType, DialKept, OneSession, AwayIsOffline, ServerKeepsTrying
<1>3. OneConnection' /\ AgentKeepsTrying' /\ HandshakeKept'
  BY DEF TypeOK, SocketType, AgentType, OneConnection, AgentKeepsTrying, HandshakeKept
<1>4. DialKept'
  BY DEF TypeOK, SocketType, DialKept, EndStates
<1>5. QED
  BY <1>1, <1>2, <1>3, <1>4

LEMMA AuthFailsKeeps == ASSUME IInv, NEW s \in Sockets, AuthFails(s) PROVE IInv'
<1> USE LinkAssumption, SocketIsOne DEF IInv, LinkHolds, AuthFails, Failed, Fault, client, link, serverVars, agentVars, up, bounds
<1>1. TypeOK'
  BY DEF TypeOK, ClientType, SocketType, ServerType, AgentType, BoundType, EndStates
<1>2. OneSession' /\ AwayIsOffline' /\ ServerKeepsTrying'
  BY DEF TypeOK, SocketType, ServerType, ClientType, DialKept, OneSession, AwayIsOffline, ServerKeepsTrying
<1>3. OneConnection' /\ AgentKeepsTrying' /\ HandshakeKept'
  BY DEF TypeOK, SocketType, AgentType, OneConnection, AgentKeepsTrying, HandshakeKept
<1>4. DialKept'
  BY DEF TypeOK, SocketType, DialKept, EndStates
<1>5. QED
  BY <1>1, <1>2, <1>3, <1>4

LEMMA AuthenticateKeeps == ASSUME IInv, NEW s \in Sockets, Authenticate(s) PROVE IInv'
<1> USE LinkAssumption, SocketIsOne DEF IInv, LinkHolds, Authenticate, Closing, NoFault, client, link, serverVars, agentVars, up, bounds
<1>1. TypeOK'
  BY DEF TypeOK, ClientType, SocketType, ServerType, AgentType, BoundType, EndStates
<1>2. OneSession' /\ AwayIsOffline' /\ ServerKeepsTrying'
  BY DEF TypeOK, SocketType, ServerType, ClientType, DialKept, OneSession, AwayIsOffline, ServerKeepsTrying
<1>3. OneConnection' /\ AgentKeepsTrying' /\ HandshakeKept'
  BY DEF TypeOK, SocketType, AgentType, OneConnection, AgentKeepsTrying, HandshakeKept
<1>4. DialKept'
  BY DEF TypeOK, SocketType, DialKept, EndStates
<1>5. QED
  BY <1>1, <1>2, <1>3, <1>4

LEMMA ServerCloseKeeps == ASSUME IInv, NEW s \in Sockets, ServerClose(s) PROVE IInv'
<1> USE LinkAssumption, SocketIsOne DEF IInv, LinkHolds, ServerClose, ServerSeesClose, Settles, Retries, Watched, WasCurrent, NoFault, client, link, serverVars, agentVars, up, bounds
<1>1. TypeOK'
  BY DEF TypeOK, ClientType, SocketType, ServerType, AgentType, BoundType, EndStates
<1>2. OneSession' /\ AwayIsOffline' /\ ServerKeepsTrying'
  BY DEF TypeOK, SocketType, ServerType, ClientType, DialKept, OneSession, AwayIsOffline, ServerKeepsTrying
<1>3. OneConnection' /\ AgentKeepsTrying' /\ HandshakeKept'
  BY DEF TypeOK, SocketType, AgentType, OneConnection, AgentKeepsTrying, HandshakeKept
<1>4. DialKept'
  BY DEF TypeOK, SocketType, DialKept, EndStates
<1>5. QED
  BY <1>1, <1>2, <1>3, <1>4

LEMMA GraceOverKeeps == ASSUME IInv, GraceOver PROVE IInv'
<1> USE LinkAssumption, SocketIsOne DEF IInv, LinkHolds, GraceOver, NoFault, client, link, serverVars, agentVars, up, bounds
<1>1. TypeOK'
  BY DEF TypeOK, ClientType, SocketType, ServerType, AgentType, BoundType, EndStates
<1>2. OneSession' /\ AwayIsOffline' /\ ServerKeepsTrying'
  BY DEF TypeOK, SocketType, ServerType, ClientType, DialKept, OneSession, AwayIsOffline, ServerKeepsTrying
<1>3. OneConnection' /\ AgentKeepsTrying' /\ HandshakeKept'
  BY DEF TypeOK, SocketType, AgentType, OneConnection, AgentKeepsTrying, HandshakeKept
<1>4. DialKept'
  BY DEF TypeOK, SocketType, DialKept, EndStates
<1>5. QED
  BY <1>1, <1>2, <1>3, <1>4

LEMMA AgentStartKeeps == ASSUME IInv, AgentStart PROVE IInv'
<1> USE LinkAssumption, SocketIsOne, FreshIsFree DEF IInv, LinkHolds, AgentStart, ConnectOnce, IsConnected, Connect, AgentClosing, Opened, NoFault, client, link, serverVars, agentVars, up, bounds
<1>1. TypeOK'
  BY DEF TypeOK, ClientType, SocketType, ServerType, AgentType, BoundType, EndStates
<1>2. OneSession' /\ AwayIsOffline' /\ ServerKeepsTrying'
  BY DEF TypeOK, SocketType, ServerType, ClientType, DialKept, OneSession, AwayIsOffline, ServerKeepsTrying
<1>3. OneConnection' /\ AgentKeepsTrying' /\ HandshakeKept'
  BY DEF TypeOK, SocketType, AgentType, OneConnection, AgentKeepsTrying, HandshakeKept
<1>4. DialKept'
  BY DEF TypeOK, SocketType, DialKept, EndStates
<1>5. QED
  BY <1>1, <1>2, <1>3, <1>4

LEMMA AgentReconnectDueKeeps == ASSUME IInv, AgentReconnectDue PROVE IInv'
<1> USE LinkAssumption, SocketIsOne, FreshIsFree DEF IInv, LinkHolds, AgentReconnectDue, ConnectOnce, IsConnected, Connect, AgentClosing, Opened, NoFault, client, link, serverVars, agentVars, up, bounds
<1>1. TypeOK'
  BY DEF TypeOK, ClientType, SocketType, ServerType, AgentType, BoundType, EndStates
<1>2. OneSession' /\ AwayIsOffline' /\ ServerKeepsTrying'
  BY DEF TypeOK, SocketType, ServerType, ClientType, DialKept, OneSession, AwayIsOffline, ServerKeepsTrying
<1>3. OneConnection' /\ AgentKeepsTrying' /\ HandshakeKept'
  <2>1. CASE connecting # NoSocket \/ IsConnected
    BY <2>1 DEF TypeOK, SocketType, AgentType, OneConnection, AgentKeepsTrying, HandshakeKept
  <2>2. CASE connecting = NoSocket /\ ~IsConnected
    <3>1. Connect
      BY <2>2
    <3>2. OneConnection' /\ HandshakeKept'
      BY <2>2, <3>1 DEF TypeOK, SocketType, AgentType, OneConnection, HandshakeKept
    <3>3. AgentKeepsTrying'
      BY <3>1 DEF TypeOK, SocketType, AgentType, AgentKeepsTrying
    <3>4. QED
      BY <3>2, <3>3
  <2>3. QED
    BY <2>1, <2>2
<1>4. DialKept'
  BY DEF TypeOK, SocketType, DialKept, EndStates
<1>5. QED
  BY <1>1, <1>2, <1>3, <1>4

LEMMA ConnectPressedKeeps == ASSUME IInv, ConnectPressed PROVE IInv'
<1> USE LinkAssumption, SocketIsOne, FreshIsFree DEF IInv, LinkHolds, ConnectPressed, ConnectOnce, IsConnected, Connect, AgentClosing, Opened, Press, client, link, serverVars, agentVars, up, bounds
<1>1. TypeOK'
  <2>1. BoundType'
    BY DEF TypeOK, BoundType
  <2>2. ClientType' /\ SocketType' /\ ServerType' /\ AgentType'
    BY DEF TypeOK, ClientType, SocketType, ServerType, AgentType, EndStates
  <2>3. QED
    BY <2>1, <2>2 DEF TypeOK
<1>2. OneSession' /\ AwayIsOffline' /\ ServerKeepsTrying'
  BY DEF TypeOK, SocketType, ServerType, ClientType, DialKept, OneSession, AwayIsOffline, ServerKeepsTrying
<1>3. OneConnection' /\ AgentKeepsTrying' /\ HandshakeKept'
  BY DEF TypeOK, SocketType, AgentType, OneConnection, AgentKeepsTrying, HandshakeKept
<1>4. DialKept'
  BY DEF TypeOK, SocketType, DialKept, EndStates
<1>5. QED
  BY <1>1, <1>2, <1>3, <1>4

LEMMA AcceptServerKeeps == ASSUME IInv, NEW s \in Sockets, AcceptServer(s) PROVE IInv'
<1> USE LinkAssumption, SocketIsOne DEF IInv, LinkHolds, AcceptServer, AgentClosing, NoFault, client, link, serverVars, agentVars, up, bounds
<1>1. TypeOK'
  BY DEF TypeOK, ClientType, SocketType, ServerType, AgentType, BoundType, EndStates
<1>2. OneSession' /\ AwayIsOffline' /\ ServerKeepsTrying'
  BY DEF TypeOK, SocketType, ServerType, ClientType, DialKept, OneSession, AwayIsOffline, ServerKeepsTrying
<1>3. OneConnection' /\ AgentKeepsTrying' /\ HandshakeKept'
  BY DEF TypeOK, SocketType, AgentType, OneConnection, AgentKeepsTrying, HandshakeKept
<1>4. DialKept'
  BY DEF TypeOK, SocketType, DialKept, EndStates
<1>5. QED
  BY <1>1, <1>2, <1>3, <1>4

LEMMA RefuseServerKeeps == ASSUME IInv, NEW s \in Sockets, RefuseServer(s) PROVE IInv'
<1> USE LinkAssumption, SocketIsOne DEF IInv, LinkHolds, RefuseServer, Fault, client, link, serverVars, agentVars, up, bounds
<1>1. TypeOK'
  BY DEF TypeOK, ClientType, SocketType, ServerType, AgentType, BoundType, EndStates
<1>2. OneSession' /\ AwayIsOffline' /\ ServerKeepsTrying'
  BY DEF TypeOK, SocketType, ServerType, ClientType, DialKept, OneSession, AwayIsOffline, ServerKeepsTrying
<1>3. OneConnection' /\ AgentKeepsTrying' /\ HandshakeKept'
  BY DEF TypeOK, SocketType, AgentType, OneConnection, AgentKeepsTrying, HandshakeKept
<1>4. DialKept'
  BY DEF TypeOK, SocketType, DialKept, EndStates
<1>5. QED
  BY <1>1, <1>2, <1>3, <1>4

LEMMA AgentOpensKeeps == ASSUME IInv, NEW s \in Sockets, AgentOpens(s) PROVE IInv'
<1> USE LinkAssumption, SocketIsOne DEF IInv, LinkHolds, AgentOpens, NoFault, client, link, serverVars, agentVars, up, bounds
<1>1. TypeOK'
  BY DEF TypeOK, ClientType, SocketType, ServerType, AgentType, BoundType, EndStates
<1>2. OneSession' /\ AwayIsOffline' /\ ServerKeepsTrying'
  BY DEF TypeOK, SocketType, ServerType, ClientType, DialKept, OneSession, AwayIsOffline, ServerKeepsTrying
<1>3. OneConnection' /\ AgentKeepsTrying' /\ HandshakeKept'
  BY DEF TypeOK, SocketType, AgentType, OneConnection, AgentKeepsTrying, HandshakeKept
<1>4. DialKept'
  BY DEF TypeOK, SocketType, DialKept, EndStates
<1>5. QED
  BY <1>1, <1>2, <1>3, <1>4

LEMMA AgentAuthenticatedKeeps == ASSUME IInv, NEW s \in Sockets, AgentAuthenticated(s) PROVE IInv'
<1> USE LinkAssumption, SocketIsOne DEF IInv, LinkHolds, AgentAuthenticated, NoFault, client, link, serverVars, agentVars, up, bounds
<1>1. TypeOK'
  BY DEF TypeOK, ClientType, SocketType, ServerType, AgentType, BoundType, EndStates
<1>2. OneSession' /\ AwayIsOffline' /\ ServerKeepsTrying'
  BY DEF TypeOK, SocketType, ServerType, ClientType, DialKept, OneSession, AwayIsOffline, ServerKeepsTrying
<1>3. OneConnection' /\ AgentKeepsTrying' /\ HandshakeKept'
  BY DEF TypeOK, SocketType, AgentType, OneConnection, AgentKeepsTrying, HandshakeKept
<1>4. DialKept'
  BY DEF TypeOK, SocketType, DialKept, EndStates
<1>5. QED
  BY <1>1, <1>2, <1>3, <1>4

LEMMA AttemptTimesOutKeeps == ASSUME IInv, AttemptTimesOut PROVE IInv'
<1> USE LinkAssumption, SocketIsOne DEF IInv, LinkHolds, AttemptTimesOut, AgentClosing, Fault, client, link, serverVars, agentVars, up, bounds
<1>1. TypeOK'
  BY DEF TypeOK, ClientType, SocketType, ServerType, AgentType, BoundType, EndStates
<1>2. OneSession' /\ AwayIsOffline' /\ ServerKeepsTrying'
  BY DEF TypeOK, SocketType, ServerType, ClientType, DialKept, OneSession, AwayIsOffline, ServerKeepsTrying
<1>3. OneConnection' /\ AgentKeepsTrying' /\ HandshakeKept'
  BY DEF TypeOK, SocketType, AgentType, OneConnection, AgentKeepsTrying, HandshakeKept
<1>4. DialKept'
  BY DEF TypeOK, SocketType, DialKept, EndStates
<1>5. QED
  BY <1>1, <1>2, <1>3, <1>4

LEMMA AgentCloseKeeps == ASSUME IInv, NEW s \in Sockets, AgentClose(s) PROVE IInv'
<1> USE LinkAssumption, SocketIsOne DEF IInv, LinkHolds, AgentClose, AgentSeesClose, LeftBy, AgentRetries, NoFault, client, link, serverVars, agentVars, up, bounds
<1>1. TypeOK'
  BY DEF TypeOK, ClientType, SocketType, ServerType, AgentType, BoundType, EndStates
<1>2. OneSession' /\ AwayIsOffline' /\ ServerKeepsTrying'
  BY DEF TypeOK, SocketType, ServerType, ClientType, DialKept, OneSession, AwayIsOffline, ServerKeepsTrying
<1>3. OneConnection' /\ AgentKeepsTrying' /\ HandshakeKept'
  BY DEF TypeOK, SocketType, AgentType, OneConnection, AgentKeepsTrying, HandshakeKept
<1>4. DialKept'
  BY DEF TypeOK, SocketType, DialKept, EndStates
<1>5. QED
  BY <1>1, <1>2, <1>3, <1>4

LEMMA BreakKeeps == ASSUME IInv, NEW s \in Sockets, Break(s) PROVE IInv'
<1> USE LinkAssumption, SocketIsOne DEF IInv, LinkHolds, Break, Fault, client, link, serverVars, agentVars, up, bounds
<1>1. TypeOK'
  BY DEF TypeOK, ClientType, SocketType, ServerType, AgentType, BoundType, EndStates
<1>2. OneSession' /\ AwayIsOffline' /\ ServerKeepsTrying'
  BY DEF TypeOK, SocketType, ServerType, ClientType, DialKept, OneSession, AwayIsOffline, ServerKeepsTrying
<1>3. OneConnection' /\ AgentKeepsTrying' /\ HandshakeKept'
  BY DEF TypeOK, SocketType, AgentType, OneConnection, AgentKeepsTrying, HandshakeKept
<1>4. DialKept'
  BY DEF TypeOK, SocketType, DialKept, EndStates
<1>5. QED
  BY <1>1, <1>2, <1>3, <1>4

LEMMA ForgetKeeps == ASSUME IInv, NEW s \in Sockets, Forget(s) PROVE IInv'
<1> USE LinkAssumption, SocketIsOne DEF IInv, LinkHolds, Forget, Forgotten, NoFault, client, link, serverVars, agentVars, up, bounds
<1>1. TypeOK'
  BY DEF TypeOK, ClientType, SocketType, ServerType, AgentType, BoundType, EndStates
<1>2. OneSession' /\ AwayIsOffline' /\ ServerKeepsTrying'
  BY DEF TypeOK, SocketType, ServerType, ClientType, DialKept, OneSession, AwayIsOffline, ServerKeepsTrying
<1>3. OneConnection' /\ AgentKeepsTrying' /\ HandshakeKept'
  BY DEF TypeOK, SocketType, AgentType, OneConnection, AgentKeepsTrying, HandshakeKept
<1>4. DialKept'
  BY DEF TypeOK, SocketType, DialKept, EndStates
<1>5. QED
  BY <1>1, <1>2, <1>3, <1>4

LEMMA ServerCrashKeeps == ASSUME IInv, ServerCrash PROVE IInv'
<1> USE LinkAssumption, SocketIsOne DEF IInv, LinkHolds, ServerCrash, client, link, serverVars, agentVars, up, bounds
<1>1. TypeOK'
  <2>1. BoundType'
    BY DEF TypeOK, BoundType
  <2>2. ClientType' /\ SocketType' /\ ServerType' /\ AgentType'
    BY DEF TypeOK, ClientType, SocketType, ServerType, AgentType, EndStates
  <2>3. QED
    BY <2>1, <2>2 DEF TypeOK
<1>2. OneSession' /\ AwayIsOffline' /\ ServerKeepsTrying'
  BY DEF TypeOK, SocketType, ServerType, ClientType, DialKept, OneSession, AwayIsOffline, ServerKeepsTrying
<1>3. OneConnection' /\ AgentKeepsTrying' /\ HandshakeKept'
  BY DEF TypeOK, SocketType, AgentType, OneConnection, AgentKeepsTrying, HandshakeKept
<1>4. DialKept'
  BY DEF TypeOK, SocketType, DialKept, EndStates
<1>5. QED
  BY <1>1, <1>2, <1>3, <1>4

LEMMA AgentCrashKeeps == ASSUME IInv, AgentCrash PROVE IInv'
<1> USE LinkAssumption, SocketIsOne DEF IInv, LinkHolds, AgentCrash, client, link, serverVars, agentVars, up, bounds
<1>1. TypeOK'
  <2>1. BoundType'
    BY DEF TypeOK, BoundType
  <2>2. ClientType' /\ SocketType' /\ ServerType' /\ AgentType'
    BY DEF TypeOK, ClientType, SocketType, ServerType, AgentType, EndStates
  <2>3. QED
    BY <2>1, <2>2 DEF TypeOK
<1>2. OneSession' /\ AwayIsOffline' /\ ServerKeepsTrying'
  BY DEF TypeOK, SocketType, ServerType, ClientType, DialKept, OneSession, AwayIsOffline, ServerKeepsTrying
<1>3. OneConnection' /\ AgentKeepsTrying' /\ HandshakeKept'
  BY DEF TypeOK, SocketType, AgentType, OneConnection, AgentKeepsTrying, HandshakeKept
<1>4. DialKept'
  BY DEF TypeOK, SocketType, DialKept, EndStates
<1>5. QED
  BY <1>1, <1>2, <1>3, <1>4
-----------------------------------------------------------------------------
LEMMA NextKeeps == ASSUME IInv, [Next]_vars PROVE IInv'
<1>1. CASE ServerStart \/ ReconnectDue \/ GraceOver
  BY <1>1, ServerStartKeeps, ReconnectDueKeeps, GraceOverKeeps
<1>2. CASE AgentStart \/ AgentReconnectDue \/ AttemptTimesOut
  BY <1>2, AgentStartKeeps, AgentReconnectDueKeeps, AttemptTimesOutKeeps
<1>3. CASE Operator
  BY <1>3, CreateOutboundKeeps, ReconnectKeeps, ChangeAddressKeeps, DeleteKeeps, RegisterKeeps,
     ConnectPressedKeeps DEF Operator
<1>4. CASE ServerCrash \/ AgentCrash
  BY <1>4, ServerCrashKeeps, AgentCrashKeeps
<1>5. ASSUME NEW s \in Sockets, ServerStep(s) PROVE IInv'
  BY <1>5, DialOpensKeeps, AcceptAgentKeeps, AuthenticateKeeps, ServerCloseKeeps DEF ServerStep
<1>6. ASSUME NEW s \in Sockets, AgentStep(s) PROVE IInv'
  BY <1>6, AcceptServerKeeps, AgentOpensKeeps, AgentAuthenticatedKeeps, AgentCloseKeeps DEF AgentStep
<1>7. ASSUME NEW s \in Sockets, Forget(s) \/ Mishap(s) PROVE IInv'
  BY <1>7, ForgetKeeps, DialTimesOutKeeps, AuthFailsKeeps, RefuseServerKeeps, BreakKeeps DEF Mishap
<1>8. CASE UNCHANGED vars
  BY <1>8, StutterKeeps
<1>9. QED
  BY <1>1, <1>2, <1>3, <1>4, <1>5, <1>6, <1>7, <1>8 DEF Next

LEMMA Inductive == Spec => []IInv
<1>1. Init => IInv
  BY InitInv
<1>2. IInv /\ [Next]_vars => IInv'
  BY NextKeeps
<1>3. QED
  BY <1>1, <1>2, PTL DEF Spec

\* A client has one session and an agent one connection, the watch reports only
\* who has none, and neither side ever stops trying: while the server dials a
\* client that is stored, a dial is scheduled or under way or a session's close
\* will schedule one, and so for an agent that dials (ClientConnector, ProxyService,
\* AgentSession, ClientConnectionWatch, the agent's Connection).
THEOREM LinkIsHeld == Spec => []LinkHolds
<1>1. IInv => LinkHolds
  BY DEF IInv
<1>2. QED
  BY <1>1, Inductive, PTL

-----------------------------------------------------------------------------
(***************************************************************************)
(* The reports of who is there implement module Presence.                  *)
(***************************************************************************)
LEMMA InitPresence == ASSUME Init PROVE Presence!Init
<1>1. registered = NoSocket /\ away = "no"
  BY DEF Init
<1>2. QED
  BY <1>1 DEF Presence!Init, Told

\* A step that leaves the session and the watch alone is no step of Presence.
LEMMA Aside == ASSUME UNCHANGED <<registered, away>>
               PROVE  UNCHANGED <<registered # NoSocket, Told>>
  BY DEF Told

LEMMA AuthenticatePresent ==
    ASSUME IInv, NEW s \in Sockets, Authenticate(s)
    PROVE  [Presence!Next]_<<registered # NoSocket, Told>>
<1>1. registered' # NoSocket /\ away' = "no" /\ Told' = "nothing"
  BY SocketIsOne DEF Authenticate, Told
<1>2. CASE registered = NoSocket
  BY <1>1, <1>2 DEF Presence!Next, Presence!Come
<1>3. CASE registered # NoSocket
  <2>1. Told = "nothing"
    BY <1>3 DEF IInv, LinkHolds, AwayIsOffline, Told, TypeOK, ServerType
  <2>2. QED
    BY <1>1, <1>3, <2>1
<1>4. QED
  BY <1>2, <1>3

LEMMA ServerClosePresent ==
    ASSUME IInv, NEW s \in Sockets, ServerClose(s)
    PROVE  [Presence!Next]_<<registered # NoSocket, Told>>
<1>1. CASE WasCurrent(s)
  <2>1. registered # NoSocket /\ registered' = NoSocket /\ away' = "pending"
    BY <1>1, SocketIsOne DEF ServerClose, WasCurrent, Watched, IInv, LinkHolds, AwayIsOffline
  <2>2. QED
    BY <2>1 DEF Told, Presence!Next, Presence!Leave
<1>2. CASE ~WasCurrent(s)
  BY <1>2, Aside DEF ServerClose, Watched
<1>3. QED
  BY <1>1, <1>2

\* The grace time is over for an agent that is still gone.
LEMMA GraceOverPresent ==
    ASSUME IInv, GraceOver
    PROVE  [Presence!Next]_<<registered # NoSocket, Told>>
<1>1. registered = NoSocket /\ registered' = NoSocket /\ away = "pending" /\ away' = "reported"
  BY DEF GraceOver, IInv, LinkHolds, AwayIsOffline
<1>2. QED
  BY <1>1 DEF Told, Presence!Next, Presence!Tell

LEMMA EvictPresent ==
    ASSUME IInv, Delete \/ Register \/ ServerCrash
    PROVE  [Presence!Next]_<<registered # NoSocket, Told>>
<1>1. registered' = NoSocket /\ (away' = "no" \/ away' = away)
  BY DEF Delete, Register, ServerCrash
<1>2. Told' \in {Told, "nothing"}
  BY <1>1 DEF Told
<1>3. QED
  BY <1>1, <1>2 DEF Presence!Next, Presence!Evict

LEMMA OthersAside ==
    ASSUME \/ ServerStart \/ ReconnectDue \/ AgentStart \/ AgentReconnectDue \/ AttemptTimesOut
           \/ CreateOutbound \/ Reconnect \/ ChangeAddress \/ ConnectPressed \/ AgentCrash
           \/ \E s \in Sockets : \/ DialOpens(s) \/ AcceptAgent(s) \/ AgentStep(s)
                                 \/ Forget(s) \/ Mishap(s)
           \/ UNCHANGED vars
    PROVE  UNCHANGED <<registered, away>>
<1> USE DEF serverVars
<1>1. CASE ServerStart \/ ReconnectDue \/ AgentStart \/ AgentReconnectDue \/ AttemptTimesOut
  BY <1>1 DEF ServerStart, ReconnectDue, AgentStart, AgentReconnectDue, AttemptTimesOut
<1>2. CASE CreateOutbound \/ Reconnect \/ ChangeAddress \/ ConnectPressed \/ AgentCrash
  BY <1>2 DEF CreateOutbound, Reconnect, ChangeAddress, ConnectPressed, AgentCrash
<1>3. ASSUME NEW s \in Sockets, DialOpens(s) \/ AcceptAgent(s) \/ AgentStep(s)
      PROVE  UNCHANGED <<registered, away>>
  BY <1>3 DEF DialOpens, AcceptAgent, AgentStep, AcceptServer, AgentOpens, AgentAuthenticated,
              AgentClose
<1>4. ASSUME NEW s \in Sockets, Forget(s) \/ Mishap(s)
      PROVE  UNCHANGED <<registered, away>>
  BY <1>4 DEF Forget, Mishap, DialTimesOut, AuthFails, RefuseServer, Break
<1>5. CASE UNCHANGED vars
  BY <1>5 DEF vars
<1>6. QED
  BY <1>1, <1>2, <1>3, <1>4, <1>5

LEMMA StepPresent ==
    ASSUME IInv, [Next]_vars
    PROVE  [Presence!Next]_<<registered # NoSocket, Told>>
<1>1. CASE \E s \in Sockets : Authenticate(s)
  BY <1>1, AuthenticatePresent
<1>2. CASE \E s \in Sockets : ServerClose(s)
  BY <1>2, ServerClosePresent
<1>3. CASE GraceOver
  BY <1>3, GraceOverPresent
<1>4. CASE Delete \/ Register \/ ServerCrash
  BY <1>4, EvictPresent
<1>5. CASE UNCHANGED <<registered, away>>
  BY <1>5, Aside
<1>6. QED
  BY <1>1, <1>2, <1>3, <1>4, <1>5, OthersAside DEF Next, Operator, ServerStep

\* A disconnect is told only of an agent that left and stayed away, a reconnect only
\* after a disconnect that was told, and replacing a connection tells nothing
\* (ClientConnectionWatch, registerClient and unregisterClient of ProxyService).
THEOREM PresenceImplemented == Spec => ReportsPresence
<1>1. Init => Presence!Init
  BY InitPresence
<1>2. IInv /\ [Next]_vars => [Presence!Next]_<<registered # NoSocket, Told>>
  BY StepPresent
<1>3. QED
  BY <1>1, <1>2, Inductive, PTL DEF Spec, ReportsPresence, Presence!Spec
=============================================================================
