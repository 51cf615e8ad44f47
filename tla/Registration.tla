---------------------------- MODULE Registration ----------------------------
(***************************************************************************)
(* How an agent gets the identity under which the server knows it, in both *)
(* directions.  Inbound, the operator creates a client and types the token *)
(* issued for it into the agent's register page; the agent sends it to the *)
(* server, which answers with a client id and an auth token.  Outbound,    *)
(* the server dials the agent, hands it an id and a token of its own       *)
(* making, and writes the client's row when the first session stands.      *)
(*                                                                         *)
(* Both sides store their half.  The agent keeps the identity and the      *)
(* server's URL in two files, and the pair of them decides at every start  *)
(* which side has to dial: an identity with a URL is an inbound agent, one *)
(* without a URL waits to be dialled.                                      *)
(*                                                                         *)
(* An auth token is the number of the client's registration.  The link of  *)
(* an agent is its socket to the server, "shaking" between the check of    *)
(* its token at the connection and its AUTH, which is not checked again.   *)
(***************************************************************************)
EXTENDS Integers, FiniteSets

CONSTANTS
  Agents,
  Pages,        \* the agents whose register page is enabled
  Secrets,      \* the agents started with PBCM_REGISTRATION_SECRET
  MaxClients,   \* clients ever created or tried
  MaxTokens,    \* registration tokens issued for one client
  MaxRestarts,  \* restarts of all agents
  Unwritable,   \* of {"identity", "url"}: what a write may fail for
  OneAtATime    \* nobody registers an agent while it is being registered

ASSUME RegistrationAssumption ==
  /\ Pages \cup Secrets \subseteq Agents
  /\ {MaxClients, MaxRestarts} \subseteq Nat /\ MaxTokens \in Nat \ {0}
  /\ Unwritable \subseteq {"identity", "url"}
  /\ OneAtATime \in BOOLEAN

VARIABLES
  clients,   \* id -> [mode, auth, open, issued, agent]: the rows
  nextClient, \* ids are random and never drawn twice
  flight,    \* the registrations under way
  memory,    \* agent -> its identity, or Unregistered
  disk,      \* agent -> identity.json
  url,       \* agent -> it has a server URL
  urlDisk,   \* agent -> config.yaml has it
  pin,       \* agent -> there is a setup PIN
  secret,    \* agent -> there is a registration secret
  routes,    \* agent -> /ws/register and /ws/agent are served
  started,   \* agent -> activityStarted
  dialling,  \* agent -> Connection.connect was called
  link,      \* agent -> [state, client, auth, current]
  restarts

agentVars        == <<memory, disk, url, urlDisk, pin, secret, routes, started, dialling>>
registrationVars == <<clients, nextClient, flight, agentVars, link, restarts>>

ClientIds    == 1..MaxClients
Unregistered == [client |-> 0, auth |-> 0]
Identity     == [client : ClientIds, auth : 1..MaxTokens]
Row(mode, auth, open, issued, a) ==
  [mode |-> mode, auth |-> auth, open |-> open, issued |-> issued, agent |-> a]
NoRow        == Row("none", 0, 0, 0, 0)
Link(state, id, current) ==
  [state |-> state, client |-> id.client, auth |-> id.auth, current |-> current]
NoLink       == Link("none", Unregistered, FALSE)

IsRegistered(a) == memory[a] # Unregistered

\* RegistrationState.getAgentMode
Mode(a) == IF ~IsRegistered(a) THEN "unregistered" ELSE IF url[a] THEN "inbound" ELSE "outbound"

\* The server knows the identity.
Known(id) == id # Unregistered /\ clients[id.client].mode \in {"inbound", "outbound"}
                               /\ clients[id.client].auth = id.auth

\* The identity under which an agent's link was opened.
Holder(a) == [client |-> link[a].client, auth |-> link[a].auth]

\* The open sessions of a client end.
CloseSessions(c) ==
  link' = [a \in Agents |-> IF link[a].state = "open" /\ link[a].client = c THEN NoLink ELSE link[a]]

\* A registration under way: the request, and the answer to it.
Sent(a, kind, c, number) ==
  [agent |-> a, kind |-> kind, state |-> "sent", client |-> c, number |-> number]
Granted(r, number) ==
  [agent |-> r.agent, kind |-> r.kind, state |-> "granted", client |-> r.client, number |-> number]

Free(a) == OneAtATime => \A r \in flight : r.agent # a

-----------------------------------------------------------------------------
(* The operator at the server.                                             *)

CreateInbound ==
  LET c == nextClient IN
  /\ c \in ClientIds
  /\ nextClient' = c + 1
  /\ clients' = [clients EXCEPT ![c] = Row("inbound", 0, 1, 1, 0)]
  /\ UNCHANGED <<flight, agentVars, link, restarts>>

IssueRegistrationToken(c) ==
  /\ clients[c].mode = "inbound" /\ clients[c].issued < MaxTokens
  /\ clients' = [clients EXCEPT ![c] =
                   Row("inbound", @.auth, @.issued + 1, @.issued + 1, @.agent)]
  /\ UNCHANGED <<nextClient, flight, agentVars, link, restarts>>

TokenExpires(c) ==
  /\ clients[c].open # 0
  /\ clients' = [clients EXCEPT ![c] = Row(@.mode, @.auth, 0, @.issued, @.agent)]
  /\ UNCHANGED <<nextClient, flight, agentVars, link, restarts>>

DeleteClient(c) ==
  /\ clients[c].mode \in {"inbound", "outbound"}
  /\ clients' = [clients EXCEPT ![c] = Row("deleted", 0, 0, 0, 0)]
  /\ CloseSessions(c)
  /\ UNCHANGED <<nextClient, flight, agentVars, restarts>>

-----------------------------------------------------------------------------
(* What a registration leaves on the agent.                                *)

Stored(what) == IF what \in Unwritable THEN BOOLEAN ELSE {TRUE}

\* Identity.setIdentity: held from now on, whether or not it could be written.
SetIdentity(a, id) ==
  /\ memory' = [memory EXCEPT ![a] = id]
  /\ \E stored \in Stored("identity") : disk' = [disk EXCEPT ![a] = IF stored THEN id ELSE @]

\* RegistrationState.setServerUrl: a value that did not change is not written.
SetServerUrl(a) ==
  /\ url' = [url EXCEPT ![a] = TRUE]
  /\ \E stored \in Stored("url") : urlDisk' = [urlDisk EXCEPT ![a] = @ \/ (~url[a] /\ stored)]

ClearSetupPin(a) == pin' = [pin EXCEPT ![a] = FALSE]

\* Lifecycle.startAgentActivity: once per process.
StartAgentActivity(a, hasUrl) ==
  /\ started'  = [started EXCEPT ![a] = TRUE]
  /\ dialling' = [dialling EXCEPT ![a] = @ \/ (~started[a] /\ hasUrl)]

-----------------------------------------------------------------------------
(* Inbound: the register page.                                             *)

IsRegisterPageOpen(a) == a \in Pages /\ ~IsRegistered(a)

\* POST /api/register with the setup PIN and a token the operator was shown.
WebRegister(a, c, number) ==
  /\ IsRegisterPageOpen(a) /\ pin[a] /\ Free(a)
  /\ number \in 1..clients[c].issued
  /\ flight' = flight \cup {Sent(a, "web", c, number)}
  /\ UNCHANGED <<clients, nextClient, agentVars, link, restarts>>

\* ClientRepository.completeRegistration: a new auth token, the registration
\* token used up.
CompleteRegistration(row) == Row(row.mode, row.auth + 1, 0, row.issued, row.agent)

\* Mutant: the agent that was connected stays.
LeaveSessions(c) == link' = link

\* A client that had an agent loses its session to the registration.
EndSessionsOf(c) == CloseSessions(c)

\* ClientController.register.
Register(r) ==
  /\ r.kind = "web" /\ r.state = "sent"
  /\ clients[r.client].open = r.number /\ clients[r.client].auth < MaxTokens
  /\ clients' = [clients EXCEPT ![r.client] = CompleteRegistration(@)]
  /\ EndSessionsOf(r.client)
  /\ flight' = (flight \ {r}) \cup {Granted(r, clients[r.client].auth + 1)}
  /\ UNCHANGED <<nextClient, agentVars, restarts>>

RegisterRefused(r) ==
  /\ r.kind = "web" /\ r.state = "sent"
  /\ clients[r.client].open # r.number
  /\ flight' = flight \ {r}
  /\ UNCHANGED <<clients, nextClient, agentVars, link, restarts>>

\* The answer.  The page's state was looked at before the request and is not
\* looked at again.
WebRegistered(r) ==
  LET a == r.agent IN
  /\ r.kind = "web" /\ r.state = "granted"
  /\ flight' = flight \ {r}
  /\ SetIdentity(a, [client |-> r.client, auth |-> r.number])
  /\ SetServerUrl(a)
  /\ ClearSetupPin(a)
  /\ StartAgentActivity(a, TRUE)
  /\ UNCHANGED <<clients, nextClient, secret, routes, link, restarts>>

-----------------------------------------------------------------------------
(* Outbound: the server dials.                                             *)

\* The agent lets the registration socket in while it has no identity.
FirstConnect(a) ==
  LET c == nextClient IN
  /\ c \in ClientIds
  /\ nextClient' = c + 1
  /\ routes[a] /\ ~IsRegistered(a) /\ Free(a)
  /\ flight' = flight \cup {Sent(a, "dial", c, 1)}
  /\ UNCHANGED <<clients, agentVars, link, restarts>>

\* REGISTRATION_REQUEST with the secret or the PIN.
AcceptServer(r) ==
  LET a == r.agent IN
  /\ r.kind = "dial" /\ r.state = "sent"
  /\ pin[a] \/ secret[a]
  /\ flight' = (flight \ {r}) \cup {Granted(r, 1)}
  /\ SetIdentity(a, [client |-> r.client, auth |-> 1])
  /\ secret' = [secret EXCEPT ![a] = FALSE]
  /\ ClearSetupPin(a)
  /\ StartAgentActivity(a, url[a])
  /\ UNCHANGED <<clients, nextClient, url, urlDisk, routes, link, restarts>>

\* /ws/agent lets the server in under the identity the agent holds.
TakesServer(a, id) == routes[a] /\ Mode(a) = "outbound" /\ memory[a] = id

\* The first session; with its AUTH the client becomes a row.
FirstSession(r) ==
  LET a  == r.agent
      id == [client |-> r.client, auth |-> 1]
  IN  /\ r.kind = "dial" /\ r.state = "granted"
      /\ TakesServer(a, id)
      /\ flight'  = flight \ {r}
      /\ clients' = [clients EXCEPT ![r.client] = Row("outbound", 1, 0, 0, a)]
      /\ link'    = [link EXCEPT ![a] = Link("open", id, TRUE)]
      /\ UNCHANGED <<nextClient, agentVars, restarts>>

\* Either kind: a PIN that was wrong or is gone, an answer that is lost, a
\* handshake that takes more than ten seconds.
GiveUp(r) ==
  /\ flight' = flight \ {r}
  /\ UNCHANGED <<clients, nextClient, agentVars, link, restarts>>

-----------------------------------------------------------------------------
(* Sessions of registered agents, and restarts.                            *)

Shake(a) == link' = [link EXCEPT ![a] = Link("shaking", memory[a], FALSE)]

\* The agent dials; the server checks the pair it presents.
AgentConnects(a) ==
  /\ link[a].state = "none" /\ dialling[a] /\ url[a]
  /\ Known(memory[a]) /\ clients[memory[a].client].mode = "inbound"
  /\ Shake(a)
  /\ UNCHANGED <<clients, nextClient, flight, agentVars, restarts>>

\* The server dials; the agent checks the pair it presents.
ServerConnects(c) ==
  LET a == clients[c].agent IN
  /\ clients[c].mode = "outbound" /\ link[a].state = "none"
  /\ TakesServer(a, [client |-> c, auth |-> clients[c].auth])
  /\ Shake(a)
  /\ UNCHANGED <<clients, nextClient, flight, agentVars, restarts>>

\* AUTH on the socket; a session the client still has is replaced.
Auth(a) ==
  LET c == link[a].client IN
  /\ link[a].state = "shaking"
  /\ link' = [b \in Agents |->
       IF b = a THEN Link("open", Holder(a), Known(Holder(a)))
       ELSE IF link[b].state = "open" /\ link[b].client = c THEN NoLink ELSE link[b]]
  /\ UNCHANGED <<clients, nextClient, flight, agentVars, restarts>>

Disconnect(a) ==
  /\ link[a].state # "none"
  /\ link' = [link EXCEPT ![a] = NoLink]
  /\ UNCHANGED <<clients, nextClient, flight, agentVars, restarts>>

\* The agent's process starts again; `forget': after the operator removed
\* identity.json to register it anew.
Restart(a, forget) ==
  LET id == IF forget THEN Unregistered ELSE disk[a] IN
  /\ restarts < MaxRestarts
  /\ restarts' = restarts + 1
  /\ disk'     = [disk EXCEPT ![a] = id]
  /\ memory'   = [memory EXCEPT ![a] = id]
  /\ url'      = [url EXCEPT ![a] = urlDisk[a]]
  /\ routes'   = [routes EXCEPT ![a] = ~urlDisk[a]]
  /\ secret'   = [secret EXCEPT ![a] = a \in Secrets]
  /\ pin'      = [pin EXCEPT ![a] = id = Unregistered /\ (a \in Pages \/ (~urlDisk[a] /\ a \notin Secrets))]
  /\ started'  = [started EXCEPT ![a] = id # Unregistered]
  /\ dialling' = [dialling EXCEPT ![a] = id # Unregistered /\ urlDisk[a]]
  /\ link'     = [link EXCEPT ![a] = NoLink]
  /\ flight'   = {r \in flight : r.agent = a => r.kind = "dial" /\ r.state = "granted"}
  /\ UNCHANGED <<clients, nextClient, urlDisk>>

-----------------------------------------------------------------------------

RegistrationInit ==
  /\ clients  = [c \in ClientIds |-> NoRow]
  /\ nextClient = 1
  /\ flight   = {}
  /\ memory   = [a \in Agents |-> Unregistered]
  /\ disk     = [a \in Agents |-> Unregistered]
  /\ url      = [a \in Agents |-> FALSE]
  /\ urlDisk  = [a \in Agents |-> FALSE]
  /\ pin      = [a \in Agents |-> a \in Pages \/ a \notin Secrets]
  /\ secret   = [a \in Agents |-> a \in Secrets]
  /\ routes   = [a \in Agents |-> TRUE]
  /\ started  = [a \in Agents |-> FALSE]
  /\ dialling = [a \in Agents |-> FALSE]
  /\ link     = [a \in Agents |-> NoLink]
  /\ restarts = 0

RegistrationNext ==
  \/ CreateInbound
  \/ \E c \in ClientIds :
       \/ IssueRegistrationToken(c) \/ TokenExpires(c)
       \/ DeleteClient(c) \/ ServerConnects(c)
  \/ \E a \in Agents :
       \/ AgentConnects(a) \/ Auth(a) \/ Disconnect(a)
       \/ \E forget \in BOOLEAN : Restart(a, forget)
       \/ FirstConnect(a)
       \/ \E c \in ClientIds, n \in 1..MaxTokens : WebRegister(a, c, n)
  \/ \E r \in flight :
       \/ Register(r) \/ RegisterRefused(r) \/ WebRegistered(r)
       \/ AcceptServer(r) \/ FirstSession(r)
       \/ GiveUp(r)

RegistrationSpec == RegistrationInit /\ [][RegistrationNext]_registrationVars

-----------------------------------------------------------------------------
(* Properties.                                                             *)

\* The shape of the state.  A registered agent has no setup PIN left, and one
\* that is not does nothing.
RegistrationTypeOK ==
  /\ clients \in [ClientIds -> [mode : {"none", "inbound", "outbound", "deleted"},
                                auth : 0..MaxTokens, open : 0..MaxTokens, issued : 0..MaxTokens,
                                agent : Agents \cup {0}]]
  /\ nextClient \in 1..(MaxClients + 1)
  /\ flight \subseteq [agent : Agents, kind : {"web", "dial"}, state : {"sent", "granted"},
                       client : ClientIds, number : 1..MaxTokens]
  /\ {memory, disk} \subseteq [Agents -> Identity \cup {Unregistered}]
  /\ {url, urlDisk, pin, secret, routes, started, dialling} \subseteq [Agents -> BOOLEAN]
  /\ link \in [Agents -> [state : {"none", "shaking", "open"}, client : 0..MaxClients,
                          auth : 0..MaxTokens, current : BOOLEAN]]
  /\ restarts \in 0..MaxRestarts
  /\ \A a \in Agents : /\ pin[a] => ~IsRegistered(a)
                       /\ started[a] = IsRegistered(a)
                       /\ dialling[a] => started[a]

\* A client changes hands once for each token the operator issued for it, also
\* when two agents send the same token at the same time, or one sends it twice
\* because an answer was lost (completeRegistration: "of two agents racing with
\* one token only the first gets the client").
EachTokenRegistersOnce ==
  \A c \in ClientIds : clients[c].mode = "inbound" => clients[c].auth <= clients[c].issued

\* A session that was opened with the client's auth token does not outlive it:
\* a registration and a deletion end it in the same step that replaces or
\* removes the token (ClientController register and delete).
SessionHoldsToken ==
  \A a \in Agents : (link[a].state = "open" /\ link[a].current) => Known(Holder(a))

\* A client is its latest agent's alone.
RegistrationHolds == RegistrationTypeOK /\ EachTokenRegistersOnce /\ SessionHoldsToken

\* An agent and a server that agree on an identity also agree on who dials:
\* an inbound client's agent does, an outbound client's agent serves the route
\* the server dials and its row names that agent.  The two halves are stored in
\* different files and on different machines, across restarts, lost answers and
\* identities that could not be written.
CanMeet ==
  \A a \in Agents : Known(memory[a]) =>
    LET row == clients[memory[a].client] IN
    \/ row.mode = "inbound" /\ url[a] /\ dialling[a]
    \/ row.mode = "outbound" /\ row.agent = a /\ ~url[a] /\ routes[a]

\* A client is its latest agent's alone, and the two can meet.
ClientsKept == RegistrationHolds /\ CanMeet
=============================================================================
