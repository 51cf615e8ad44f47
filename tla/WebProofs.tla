------------------------------ MODULE WebProofs ------------------------------
(***************************************************************************)
(* Proofs about Registration, Webhooks and Credentials, for any number of  *)
(* agents, clients, tokens, restarts, webhooks, events, edits, secrets and *)
(* certificates: a registration leaves an agent and a server that know     *)
(* each other alone and can meet, a webhook is sent its events in their    *)
(* order, and a job's copies keep their secrets and vouched-for prints.    *)
(***************************************************************************)
EXTENDS MCServerWeb, TLAPS

-----------------------------------------------------------------------------
(***************************************************************************)
(* Registration: the inductive invariant.                                  *)
(***************************************************************************)
ClientRow == [mode : {"none", "inbound", "outbound", "deleted"},
              auth : 0..MaxTokens, open : 0..MaxTokens, issued : 0..MaxTokens,
              agent : Agents \cup {0}]
Flight == [agent : Agents, kind : {"web", "dial"}, state : {"sent", "granted"},
           client : ClientIds, number : 1..MaxTokens]
LinkRow == [state : {"none", "shaking", "open"}, client : 0..MaxClients,
            auth : 0..MaxTokens, current : BOOLEAN]

\* An id that was not drawn has no row, and only an inbound client has tokens:
\* one for each time it changed hands and for the one that is open.
RowsKept ==
    \A c \in ClientIds :
        LET rec == clients[c] IN
        /\ c >= nextClient => rec.mode = "none"
        /\ rec.mode # "inbound" => rec.open = 0 /\ rec.issued = 0
        /\ rec.mode = "inbound" => /\ rec.auth <= rec.issued
                                   /\ rec.open # 0 => rec.auth < rec.issued

\* A registration under way is for a client of its kind, and a dialled one is
\* the only one for its client.
FlightsKept ==
    /\ \A r \in flight :
          /\ r.client < nextClient
          /\ r.kind = "web" => clients[r.client].mode \in {"inbound", "deleted"}
          /\ r.kind = "dial" => clients[r.client].mode = "none"
    /\ \A r, q \in flight :
          r.kind = "dial" /\ q.kind = "dial" /\ r.client = q.client => r = q

\* A link is a client's.
LinksKept ==
    \A a \in Agents : link[a].state # "none" =>
        /\ link[a].client \in ClientIds
        /\ link[a].state = "open" /\ link[a].current => Known(Holder(a))

RInv == RegistrationTypeOK /\ RowsKept /\ FlightsKept /\ LinksKept

\* Nobody registers an agent that is registered, and one that serves the
\* route the server dials has no URL before it is.
TurnsKept ==
    /\ \A r, q \in flight : r.agent = q.agent => r = q
    /\ \A r \in flight : (r.kind = "web" \/ r.state = "sent") => ~IsRegistered(r.agent)
    /\ \A r \in flight : (r.kind = "dial" /\ r.state = "sent") => routes[r.agent]
    /\ \A a \in Agents : (~IsRegistered(a) /\ routes[a]) => ~url[a]

\* The files hold what the process holds, but for an identity that could not
\* be written.
FilesKept ==
    \A a \in Agents : disk[a] \in {memory[a], Unregistered} /\ urlDisk[a] = url[a]

\* A dialled identity is in the hands of one agent, and whoever holds an
\* identity is set up for its kind.
HoldersKept ==
    \A a \in Agents : IsRegistered(a) =>
        LET c == memory[a].client IN
        /\ c < nextClient
        /\ \A r \in flight : r.kind = "dial" /\ r.client = c => r.agent = a /\ r.state = "granted"
        /\ clients[c].mode = "inbound" => url[a] /\ dialling[a]
        /\ clients[c].mode \in {"none", "outbound"} => ~url[a] /\ routes[a]
        /\ clients[c].mode = "outbound" => clients[c].agent = a

RMeets == TurnsKept /\ FilesKept /\ HoldersKept

-----------------------------------------------------------------------------
(***************************************************************************)
(* Rows, registrations under way and links.                                *)
(***************************************************************************)
LEMMA RowIs ==
    ASSUME NEW mode, NEW auth, NEW open, NEW issued, NEW a
    PROVE  LET rec == Row(mode, auth, open, issued, a) IN
           /\ rec.mode = mode /\ rec.auth = auth /\ rec.open = open
           /\ rec.issued = issued /\ rec.agent = a
           /\ (/\ mode \in {"none", "inbound", "outbound", "deleted"}
               /\ auth \in 0..MaxTokens /\ open \in 0..MaxTokens /\ issued \in 0..MaxTokens
               /\ a \in Agents \cup {0}) => rec \in ClientRow
BY DEF Row, ClientRow

LEMMA FlightIs ==
    /\ \A a, kind, c, n :
          LET r == Sent(a, kind, c, n) IN
          /\ r.agent = a /\ r.kind = kind /\ r.state = "sent" /\ r.client = c /\ r.number = n
          /\ (a \in Agents /\ kind \in {"web", "dial"} /\ c \in ClientIds /\ n \in 1..MaxTokens)
                => r \in Flight
    /\ \A r \in Flight : \A n :
          LET g == Granted(r, n) IN
          /\ g.agent = r.agent /\ g.kind = r.kind /\ g.state = "granted"
          /\ g.client = r.client /\ g.number = n
          /\ n \in 1..MaxTokens => g \in Flight
BY DEF Sent, Granted, Flight

LEMMA LinkIs ==
    /\ \A state, id, current :
          LET l == Link(state, id, current) IN
          /\ l.state = state /\ l.client = id.client /\ l.auth = id.auth /\ l.current = current
          /\ (state \in {"none", "shaking", "open"} /\ id \in Identity \cup {Unregistered}
              /\ current \in BOOLEAN) => l \in LinkRow
    /\ NoLink \in LinkRow /\ NoLink.state = "none"
<1>1. ASSUME NEW state \in {"none", "shaking", "open"}, NEW id \in Identity \cup {Unregistered},
             NEW current \in BOOLEAN
      PROVE  Link(state, id, current) \in LinkRow
  <2>1. id.client \in 0..MaxClients /\ id.auth \in 0..MaxTokens
    BY RegistrationAssumption DEF Identity, Unregistered, ClientIds
  <2>2. QED
    BY <2>1 DEF Link, LinkRow
<1>2. NoLink \in LinkRow /\ NoLink.state = "none"
  <2>1. NoLink = Link("none", Unregistered, FALSE)
    BY DEF NoLink
  <2>2. NoLink \in LinkRow
    BY <1>1, <2>1
  <2>3. QED
    BY <2>1, <2>2 DEF Link
<1>3. QED
  BY <1>1, <1>2 DEF Link

LEMMA RTypes ==
    ASSUME RInv
    PROVE  /\ clients \in [ClientIds -> ClientRow] /\ flight \subseteq Flight
           /\ link \in [Agents -> LinkRow]
           /\ nextClient \in 1..(MaxClients + 1) /\ nextClient \in Nat
           /\ \A c \in ClientIds : c \in Nat
           /\ MaxClients \in Nat /\ MaxTokens \in Nat \ {0}
BY RegistrationAssumption DEF RInv, RegistrationTypeOK, ClientRow, Flight, LinkRow, ClientIds

\* A row that changes, or comes with the next id.
RowFits(rec) ==
    /\ rec.mode # "inbound" => rec.open = 0 /\ rec.issued = 0
    /\ rec.mode = "inbound" => /\ rec.auth <= rec.issued
                               /\ rec.open # 0 => rec.auth < rec.issued

LEMMA RowChanges ==
    ASSUME RInv, NEW c \in ClientIds, NEW rec \in ClientRow, RowFits(rec),
           clients' = [clients EXCEPT ![c] = rec],
           nextClient' \in {nextClient, nextClient + 1}, c < nextClient'
    PROVE  /\ clients' \in [ClientIds -> ClientRow] /\ clients'[c] = rec
           /\ \A d \in ClientIds : d # c => clients'[d] = clients[d]
           /\ RowsKept'
<1>1. /\ clients \in [ClientIds -> ClientRow] /\ nextClient \in Nat
      /\ \A d \in ClientIds : d \in Nat
  BY RTypes
<1>2. /\ clients' \in [ClientIds -> ClientRow] /\ clients'[c] = rec
      /\ \A d \in ClientIds : d # c => clients'[d] = clients[d]
  BY <1>1
<1>3. ASSUME NEW d \in ClientIds
      PROVE  /\ d >= nextClient' => clients'[d].mode = "none"
             /\ RowFits(clients'[d])
  <2>1. CASE d = c
    BY <1>1, <1>2, <2>1
  <2>2. CASE d # c
    <3>1. d >= nextClient' => d >= nextClient
      BY <1>1
    <3>2. clients'[d] = clients[d]
      BY <1>2, <2>2
    <3>3. d >= nextClient => clients[d].mode = "none"
      BY DEF RInv, RowsKept
    <3>4. RowFits(clients[d])
      BY DEF RInv, RowsKept, RowFits
    <3>5. QED
      BY <3>1, <3>2, <3>3, <3>4
  <2>3. QED
    BY <2>1, <2>2
<1>4. RowsKept'
  BY <1>3 DEF RowsKept, RowFits
<1>5. QED
  BY <1>2, <1>4

\* While the rows stay, a link that stays, ends or is made for a client is right.
LEMMA LinksStay ==
    ASSUME RInv, UNCHANGED clients,
           \A a \in Agents : \/ link'[a] = link[a]
                             \/ link'[a].state = "none"
                             \/ /\ link'[a].client \in ClientIds
                                /\ link'[a].state = "open" => \/ ~link'[a].current
                                                              \/ Known(Holder(a))'
    PROVE  LinksKept'
<1>1. ASSUME NEW a \in Agents, link'[a] = link[a], link[a].state # "none"
      PROVE  /\ link'[a].client \in ClientIds
             /\ link'[a].state = "open" /\ link'[a].current => Known(Holder(a))'
  BY <1>1 DEF RInv, LinksKept, Holder, Known
<1>2. QED
  BY <1>1 DEF LinksKept

\* A change of the row of c, whose sessions end.
LEMMA SessionsEnd ==
    ASSUME RInv, NEW c \in ClientIds, CloseSessions(c),
           \A d \in ClientIds : d # c => clients'[d] = clients[d]
    PROVE  link' \in [Agents -> LinkRow] /\ LinksKept'
<1>1. link \in [Agents -> LinkRow]
  BY RTypes
<1>2. link' = [a \in Agents |-> IF link[a].state = "open" /\ link[a].client = c
                                THEN NoLink ELSE link[a]]
  BY DEF CloseSessions
<1>3. ASSUME NEW a \in Agents
      PROVE  /\ link'[a] \in LinkRow
             /\ link'[a].state # "none" => link'[a] = link[a]
             /\ link'[a].state = "open" => link[a].client # c
  BY <1>1, <1>2, LinkIs
<1>4. ASSUME NEW a \in Agents, link'[a].state # "none"
      PROVE  /\ link'[a].client \in ClientIds
             /\ link'[a].state = "open" /\ link'[a].current => Known(Holder(a))'
  <2>1. link'[a] = link[a] /\ link[a].client \in ClientIds
    BY <1>3, <1>4 DEF RInv, LinksKept
  <2>2. CASE link'[a].state = "open" /\ link'[a].current
    <3>1. Known(Holder(a)) /\ link[a].client # c
      BY <1>3, <1>4, <2>1, <2>2 DEF RInv, LinksKept
    <3>2. QED
      BY <2>1, <3>1 DEF Known, Holder
  <2>3. QED
    BY <2>1, <2>2
<1>5. QED
  BY <1>2, <1>3, <1>4 DEF LinksKept

\* No id that is taken changes its kind, but it may be deleted.
KindsStay ==
    \A c \in ClientIds : c < nextClient =>
        \/ clients'[c].mode = clients[c].mode /\ clients'[c].agent = clients[c].agent
        \/ clients[c].mode \in {"inbound", "outbound"} /\ clients'[c].mode = "deleted"

LEMMA ServerTypes ==
    ASSUME RInv, UNCHANGED <<agentVars, restarts>>, clients' \in [ClientIds -> ClientRow],
           nextClient' \in 1..(MaxClients + 1), flight' \subseteq Flight,
           link' \in [Agents -> LinkRow]
    PROVE  RegistrationTypeOK'
BY DEF RInv, RegistrationTypeOK, ClientRow, Flight, LinkRow, agentVars, IsRegistered

LEMMA FlightsStay ==
    ASSUME RInv, KindsStay, nextClient' \in {nextClient, nextClient + 1}, flight' \subseteq flight
    PROVE  FlightsKept'
<1>1. /\ flight \subseteq Flight /\ nextClient \in Nat /\ \A c \in ClientIds : c \in Nat
      /\ \A r \in flight : r.client \in ClientIds
  BY RTypes DEF Flight
<1>2. ASSUME NEW r \in flight
      PROVE  /\ r.client < nextClient'
             /\ r.kind = "web" => clients'[r.client].mode \in {"inbound", "deleted"}
             /\ r.kind = "dial" => clients'[r.client].mode = "none"
  <2>1. /\ r.client < nextClient
        /\ r.kind = "web" => clients[r.client].mode \in {"inbound", "deleted"}
        /\ r.kind = "dial" => clients[r.client].mode = "none"
    BY DEF RInv, FlightsKept
  <2>2. r.client < nextClient'
    BY <1>1, <2>1
  <2>3. QED
    BY <1>1, <2>1, <2>2 DEF KindsStay
<1>3. QED
  BY <1>2 DEF RInv, FlightsKept

\* A registration that is granted is for the same client.
LEMMA FlightGoesOn ==
    ASSUME RInv, KindsStay, UNCHANGED nextClient, NEW r \in flight, NEW n \in 1..MaxTokens,
           flight' = (flight \ {r}) \cup {Granted(r, n)}
    PROVE  flight' \subseteq Flight /\ FlightsKept'
<1>1. /\ flight \subseteq Flight /\ r \in Flight /\ \A q \in flight : q.client \in ClientIds
  BY RTypes DEF Flight
<1>2. PICK g \in Flight : g = Granted(r, n) /\ g.kind = r.kind /\ g.client = r.client
  BY <1>1, FlightIs
<1>3. ASSUME NEW q \in flight
      PROVE  /\ q.client < nextClient'
             /\ q.kind = "web" => clients'[q.client].mode \in {"inbound", "deleted"}
             /\ q.kind = "dial" => clients'[q.client].mode = "none"
  BY <1>1 DEF RInv, FlightsKept, KindsStay
<1>4. ASSUME NEW q \in flight', NEW p \in flight',
             q.kind = "dial", p.kind = "dial", q.client = p.client
      PROVE  q = p
  BY <1>2, <1>4 DEF RInv, FlightsKept
<1>5. QED
  BY <1>1, <1>2, <1>3, <1>4 DEF FlightsKept

LEMMA HoldersStay ==
    ASSUME RInv, HoldersKept, KindsStay, nextClient' \in {nextClient, nextClient + 1},
           UNCHANGED <<memory, url, routes, dialling>>,
           \A r \in flight' : r.kind = "dial" /\ r.client < nextClient => r \in flight
    PROVE  HoldersKept'
<1> SUFFICES ASSUME NEW a \in Agents, IsRegistered(a)
             PROVE  LET c == memory[a].client IN
                    /\ c < nextClient'
                    /\ \A r \in flight' : r.kind = "dial" /\ r.client = c
                                             => r.agent = a /\ r.state = "granted"
                    /\ clients'[c].mode = "inbound" => url[a] /\ dialling[a]
                    /\ clients'[c].mode \in {"none", "outbound"} => ~url[a] /\ routes[a]
                    /\ clients'[c].mode = "outbound" => clients'[c].agent = a
  BY DEF HoldersKept, IsRegistered
<1>1. memory[a].client \in ClientIds /\ memory[a].client \in Nat /\ nextClient \in Nat
  BY RTypes DEF RInv, RegistrationTypeOK, IsRegistered, Identity
<1> DEFINE c == memory[a].client
<1>2. /\ c < nextClient
      /\ \A r \in flight : r.kind = "dial" /\ r.client = c => r.agent = a /\ r.state = "granted"
      /\ clients[c].mode = "inbound" => url[a] /\ dialling[a]
      /\ clients[c].mode \in {"none", "outbound"} => ~url[a] /\ routes[a]
      /\ clients[c].mode = "outbound" => clients[c].agent = a
  BY DEF HoldersKept
<1>3. c < nextClient'
  BY <1>1, <1>2
<1>4. \/ clients'[c].mode = clients[c].mode /\ clients'[c].agent = clients[c].agent
      \/ clients'[c].mode = "deleted"
  BY <1>1, <1>2 DEF KindsStay
<1> HIDE DEF c
<1>5. QED
  BY <1>2, <1>3, <1>4 DEF c

\* What an action keeps; the second half in the settings the second theorem
\* is about.
Orderly == OneAtATime /\ "url" \notin Unwritable
RKept == RInv' /\ (Orderly /\ RMeets => RMeets')

\* An action of the operator, or one that ends registrations under way.
LEMMA ServerKeeps ==
    ASSUME RInv, KindsStay, clients' \in [ClientIds -> ClientRow], RowsKept', LinksKept',
           nextClient' \in {nextClient, nextClient + 1}, nextClient' \in 1..(MaxClients + 1),
           link' \in [Agents -> LinkRow], flight' \subseteq flight, UNCHANGED <<agentVars, restarts>>
    PROVE  RKept
<1>1. flight' \subseteq Flight
  BY RTypes
<1>2. RInv'
  BY <1>1, ServerTypes, FlightsStay DEF RInv
<1>3. UNCHANGED <<memory, disk, url, urlDisk, routes, dialling>>
  BY DEF agentVars
<1>4. ASSUME RMeets
      PROVE  RMeets'
  <2>1. TurnsKept' /\ FilesKept'
    BY <1>3, <1>4 DEF RMeets, TurnsKept, FilesKept, IsRegistered
  <2>2. HoldersKept'
    BY <1>3, <1>4, HoldersStay DEF RMeets
  <2>3. QED
    BY <2>1, <2>2 DEF RMeets
<1>5. QED
  BY <1>2, <1>4 DEF RKept

LEMMA CreateInboundKeeps ==
    ASSUME RInv, CreateInbound
    PROVE  RKept
<1> DEFINE rec == Row("inbound", 0, 1, 1, 0)
<1>1. /\ nextClient \in ClientIds /\ nextClient' = nextClient + 1 /\ nextClient \in Nat
      /\ clients' = [clients EXCEPT ![nextClient] = rec]
      /\ MaxTokens \in Nat \ {0} /\ MaxClients \in Nat
      /\ \A c \in ClientIds : c \in Nat
  BY RTypes DEF CreateInbound
<1>2. rec \in ClientRow /\ RowFits(rec)
  BY <1>1, RowIs DEF RowFits
<1> HIDE DEF rec
<1>3. /\ clients' \in [ClientIds -> ClientRow] /\ RowsKept'
      /\ \A c \in ClientIds : c # nextClient => clients'[c] = clients[c]
  <2>1. nextClient' \in {nextClient, nextClient + 1} /\ nextClient < nextClient'
    BY <1>1
  <2>2. QED
    BY <1>1, <1>2, <2>1, RowChanges
<1>4. KindsStay
  BY <1>1, <1>3 DEF KindsStay
<1>5. LinksKept'
  <2>1. clients[nextClient].mode = "none"
    BY <1>1 DEF RInv, RowsKept
  <2>2. UNCHANGED link
    BY DEF CreateInbound
  <2>3. ASSUME NEW a \in Agents, link[a].state = "open", link[a].current
        PROVE  Known(Holder(a))'
    <3>1. Known(Holder(a)) /\ link[a].client \in ClientIds
      BY <2>3 DEF RInv, LinksKept
    <3>2. link[a].client # nextClient
      BY <2>1, <3>1 DEF Known, Holder
    <3>3. QED
      BY <1>3, <2>2, <3>1, <3>2 DEF Known, Holder
  <2>4. QED
    BY <2>2, <2>3 DEF RInv, LinksKept
<1>6. nextClient' \in 1..(MaxClients + 1)
  BY <1>1 DEF ClientIds
<1>7. UNCHANGED <<agentVars, restarts, link, flight>>
  BY DEF CreateInbound
<1>8. QED
  BY <1>1, <1>3, <1>4, <1>5, <1>6, <1>7, RTypes, ServerKeeps

\* A row of a client that is there changes, and its token does not.
LEMMA TokensStay ==
    ASSUME RInv, NEW c \in ClientIds, c < nextClient, NEW rec \in ClientRow, RowFits(rec),
           clients' = [clients EXCEPT ![c] = rec],
           rec.mode = clients[c].mode, rec.auth = clients[c].auth, rec.agent = clients[c].agent,
           UNCHANGED <<nextClient, flight, agentVars, link, restarts>>
    PROVE  RKept
<1>1. /\ clients' \in [ClientIds -> ClientRow] /\ RowsKept' /\ clients'[c] = rec
      /\ \A d \in ClientIds : d # c => clients'[d] = clients[d]
  BY RowChanges
<1>2. KindsStay
  BY <1>1 DEF KindsStay
<1>3. LinksKept'
  <2>1. ASSUME NEW a \in Agents, link[a].state = "open", link[a].current
        PROVE  Known(Holder(a))'
    <3>1. Known(Holder(a)) /\ link[a].client \in ClientIds
      BY <2>1 DEF RInv, LinksKept
    <3>2. QED
      BY <1>1, <3>1 DEF Known, Holder
  <2>2. QED
    BY <2>1 DEF RInv, LinksKept
<1>4. QED
  BY <1>1, <1>2, <1>3, RTypes, ServerKeeps

LEMMA IssueKeeps ==
    ASSUME RInv, NEW c \in ClientIds, IssueRegistrationToken(c)
    PROVE  RKept
<1> DEFINE now == clients[c]
           rec == Row("inbound", now.auth, now.issued + 1, now.issued + 1, now.agent)
<1>1. now \in ClientRow /\ now.mode = "inbound" /\ now.issued < MaxTokens
      /\ MaxTokens \in Nat \ {0} /\ nextClient \in Nat /\ c \in Nat
  BY RTypes DEF IssueRegistrationToken
<1>2. /\ now.auth \in 0..MaxTokens /\ now.issued \in 0..MaxTokens
      /\ now.agent \in Agents \cup {0}
  BY <1>1 DEF ClientRow
<1>3. clients' = [clients EXCEPT ![c] = rec]
  BY RTypes DEF IssueRegistrationToken
<1>4. now.auth <= now.issued /\ c < nextClient
  BY <1>1 DEF RInv, RowsKept
<1> HIDE DEF now
<1>5. now.issued + 1 \in 0..MaxTokens /\ now.auth < now.issued + 1
  BY <1>1, <1>2, <1>4
<1>6. rec \in ClientRow /\ rec.mode = "inbound" /\ rec.auth = now.auth /\ rec.agent = now.agent
      /\ rec.issued = now.issued + 1
  BY <1>2, <1>5, RowIs
<1> HIDE DEF rec
<1>7. RowFits(rec)
  BY <1>2, <1>5, <1>6 DEF RowFits
<1>8. UNCHANGED <<nextClient, flight, agentVars, link, restarts>>
  BY DEF IssueRegistrationToken
<1>9. QED
  BY <1>1, <1>3, <1>4, <1>6, <1>7, <1>8, TokensStay DEF now

LEMMA ExpiresKeeps ==
    ASSUME RInv, NEW c \in ClientIds, TokenExpires(c)
    PROVE  RKept
<1> DEFINE now == clients[c]
           rec == Row(now.mode, now.auth, 0, now.issued, now.agent)
<1>1. now \in ClientRow /\ now.open # 0 /\ MaxTokens \in Nat \ {0} /\ nextClient \in Nat /\ c \in Nat
  BY RTypes DEF TokenExpires
<1>2. /\ now.auth \in 0..MaxTokens /\ now.issued \in 0..MaxTokens
      /\ now.agent \in Agents \cup {0} /\ now.mode \in {"none", "inbound", "outbound", "deleted"}
  BY <1>1 DEF ClientRow
<1>3. clients' = [clients EXCEPT ![c] = rec]
  BY RTypes DEF TokenExpires
<1>4. now.mode = "inbound" /\ now.auth <= now.issued
  BY <1>1 DEF RInv, RowsKept
<1>5. c < nextClient
  BY <1>1, <1>4 DEF RInv, RowsKept
<1> HIDE DEF now
<1>6. rec \in ClientRow /\ rec.mode = now.mode /\ rec.auth = now.auth /\ rec.agent = now.agent
      /\ rec.issued = now.issued /\ rec.open = 0
  BY <1>1, <1>2, RowIs
<1> HIDE DEF rec
<1>7. RowFits(rec)
  BY <1>2, <1>4, <1>6 DEF RowFits
<1>8. UNCHANGED <<nextClient, flight, agentVars, link, restarts>>
  BY DEF TokenExpires
<1>9. QED
  BY <1>1, <1>3, <1>5, <1>6, <1>7, <1>8, TokensStay DEF now

LEMMA DeleteKeeps ==
    ASSUME RInv, NEW c \in ClientIds, DeleteClient(c)
    PROVE  RKept
<1> DEFINE rec == Row("deleted", 0, 0, 0, 0)
<1>1. /\ clients[c].mode \in {"inbound", "outbound"} /\ clients' = [clients EXCEPT ![c] = rec]
      /\ CloseSessions(c) /\ UNCHANGED <<nextClient, flight, agentVars, restarts>>
      /\ MaxTokens \in Nat \ {0} /\ nextClient \in Nat /\ c \in Nat
  BY RTypes DEF DeleteClient
<1>2. c < nextClient
  BY <1>1 DEF RInv, RowsKept
<1>3. rec \in ClientRow /\ RowFits(rec) /\ rec.mode = "deleted"
  BY <1>1, RowIs DEF RowFits
<1> HIDE DEF rec
<1>4. /\ clients' \in [ClientIds -> ClientRow] /\ RowsKept' /\ clients'[c] = rec
      /\ \A d \in ClientIds : d # c => clients'[d] = clients[d]
  BY <1>1, <1>2, <1>3, RowChanges
<1>5. KindsStay
  BY <1>1, <1>3, <1>4 DEF KindsStay
<1>6. link' \in [Agents -> LinkRow] /\ LinksKept'
  BY <1>1, <1>4, SessionsEnd
<1>7. QED
  BY <1>1, <1>4, <1>5, <1>6, RTypes, ServerKeeps

LEMMA GiveUpKeeps ==
    ASSUME RInv, NEW r \in flight, GiveUp(r) \/ RegisterRefused(r)
    PROVE  RKept
<1>1. flight' \subseteq flight /\ UNCHANGED <<clients, nextClient, agentVars, link, restarts>>
  BY DEF GiveUp, RegisterRefused
<1>2. KindsStay /\ RowsKept' /\ LinksKept'
  BY <1>1 DEF KindsStay, RInv, RowsKept, LinksKept, Known, Holder
<1>3. QED
  BY <1>1, <1>2, RTypes, ServerKeeps

-----------------------------------------------------------------------------
(***************************************************************************)
(* The register page and the dialling server.                              *)
(***************************************************************************)
\* Nothing but the registrations under way changes.
OnlyFlights == UNCHANGED <<clients, agentVars, link, restarts>>

LEMMA SameRows ==
    ASSUME RInv, UNCHANGED clients, nextClient' \in {nextClient, nextClient + 1}
    PROVE  KindsStay /\ RowsKept'
<1>1. nextClient \in Nat /\ \A c \in ClientIds : c \in Nat
  BY RTypes
<1>2. \A c \in ClientIds : c >= nextClient' => c >= nextClient
  BY <1>1
<1>3. QED
  BY <1>2 DEF KindsStay, RInv, RowsKept

\* A registration that begins, for an agent and a client of its kind.
LEMMA FlightBegins ==
    ASSUME RInv, OnlyFlights, nextClient' \in {nextClient, nextClient + 1},
           nextClient' \in 1..(MaxClients + 1),
           NEW g \in Flight, flight' = flight \cup {g}, g.client < nextClient',
           g.kind = "web" => clients[g.client].mode \in {"inbound", "deleted"},
           g.kind = "dial" => g.client = nextClient,
           ~IsRegistered(g.agent), Free(g.agent),
           g.kind = "dial" => g.state = "sent" /\ routes[g.agent]
    PROVE  RKept
<1>1. /\ flight \subseteq Flight /\ nextClient \in Nat /\ \A c \in ClientIds : c \in Nat
      /\ \A r \in flight : r.client \in ClientIds
      /\ g.client \in ClientIds /\ g.agent \in Agents
  BY RTypes DEF Flight
<1>2. UNCHANGED <<memory, disk, url, urlDisk, pin, secret, routes, started, dialling, clients, link>>
  BY DEF OnlyFlights, agentVars
<1>3. KindsStay /\ RowsKept'
  BY <1>2, SameRows
<1>4. LinksKept'
  BY <1>2 DEF RInv, LinksKept, Known, Holder
<1>5. RegistrationTypeOK'
  BY <1>1, <1>2, RTypes, ServerTypes DEF OnlyFlights
<1>6. FlightsKept'
  <2>1. \A r \in flight : r.client < nextClient
    BY DEF RInv, FlightsKept
  <2>2. g.kind = "dial" => clients[g.client].mode = "none"
    BY <1>1 DEF RInv, RowsKept
  <2>3. \A r \in flight : r.client < nextClient' /\ (g.kind = "dial" => r.client # g.client)
    BY <1>1, <2>1
  <2>4. QED
    BY <1>2, <2>2, <2>3 DEF RInv, FlightsKept
<1>7. ASSUME Orderly, RMeets
      PROVE  RMeets'
  <2>1. \A r \in flight : r.agent # g.agent
    BY <1>7 DEF Orderly, Free
  <2>2. TurnsKept'
    BY <1>2, <1>7, <2>1 DEF RMeets, TurnsKept, IsRegistered
  <2>3. FilesKept'
    BY <1>2, <1>7 DEF RMeets, FilesKept
  <2>4. HoldersKept'
    BY <1>1, <1>2, <1>3, <1>7, HoldersStay DEF RMeets
  <2>5. QED
    BY <2>2, <2>3, <2>4 DEF RMeets
<1>8. QED
  BY <1>3, <1>4, <1>5, <1>6, <1>7 DEF RKept, RInv

LEMMA WebRegisterKeeps ==
    ASSUME RInv, NEW a \in Agents, NEW c \in ClientIds, NEW n \in 1..MaxTokens, WebRegister(a, c, n)
    PROVE  RKept
<1> DEFINE g == Sent(a, "web", c, n)
<1>1. /\ flight' = flight \cup {g} /\ UNCHANGED nextClient /\ OnlyFlights
      /\ ~IsRegistered(a) /\ Free(a) /\ n \in 1..clients[c].issued
  BY DEF WebRegister, OnlyFlights, IsRegisterPageOpen
<1>2. g \in Flight /\ g.agent = a /\ g.kind = "web" /\ g.client = c
  BY FlightIs
<1> HIDE DEF g
<1>3. /\ nextClient \in Nat /\ c \in Nat /\ nextClient \in 1..(MaxClients + 1)
      /\ clients[c].issued \in Nat
  BY RTypes DEF ClientRow
<1>4. clients[c].mode = "inbound"
  BY <1>1, <1>3 DEF RInv, RowsKept
<1>5. c < nextClient
  BY <1>3, <1>4 DEF RInv, RowsKept
<1>6. QED
  BY <1>1, <1>2, <1>3, <1>4, <1>5, FlightBegins

LEMMA FirstConnectKeeps ==
    ASSUME RInv, NEW a \in Agents, FirstConnect(a)
    PROVE  RKept
<1> DEFINE g == Sent(a, "dial", nextClient, 1)
<1>1. /\ flight' = flight \cup {g} /\ nextClient' = nextClient + 1 /\ OnlyFlights
      /\ ~IsRegistered(a) /\ Free(a) /\ routes[a] /\ nextClient \in ClientIds
  BY DEF FirstConnect, OnlyFlights
<1>2. nextClient \in Nat /\ MaxClients \in Nat /\ 1 \in 1..MaxTokens
  BY RTypes
<1>3. /\ g \in Flight /\ g.agent = a /\ g.kind = "dial" /\ g.state = "sent"
      /\ g.client = nextClient
  BY <1>1, <1>2, FlightIs
<1> HIDE DEF g
<1>4. nextClient' \in 1..(MaxClients + 1) /\ nextClient < nextClient'
  BY <1>1, <1>2 DEF ClientIds
<1>5. QED
  BY <1>1, <1>3, <1>4, FlightBegins

LEMMA RegisterKeeps ==
    ASSUME RInv, NEW r \in flight, Register(r)
    PROVE  RKept
<1> DEFINE c   == r.client
           now == clients[c]
           rec == CompleteRegistration(now)
           n   == now.auth + 1
<1>1. /\ r \in Flight /\ r.kind = "web" /\ r.state = "sent" /\ now.open = r.number
      /\ now.auth < MaxTokens
      /\ clients' = [clients EXCEPT ![c] = rec] /\ CloseSessions(c)
      /\ flight' = (flight \ {r}) \cup {Granted(r, n)}
      /\ UNCHANGED <<nextClient, agentVars, restarts>>
  BY RTypes DEF Register, EndSessionsOf
<1>2. /\ c \in ClientIds /\ now \in ClientRow /\ r.number \in 1..MaxTokens /\ nextClient \in Nat
      /\ MaxTokens \in Nat \ {0} /\ c < nextClient /\ nextClient \in 1..(MaxClients + 1)
  BY <1>1, RTypes DEF Flight, RInv, FlightsKept
<1>3. /\ now.auth \in 0..MaxTokens /\ now.issued \in 0..MaxTokens
      /\ now.agent \in Agents \cup {0} /\ now.mode \in {"none", "inbound", "outbound", "deleted"}
  BY <1>2 DEF ClientRow
<1>4. now.mode = "inbound" /\ now.auth < now.issued
  BY <1>1, <1>2 DEF RInv, RowsKept
<1> HIDE DEF now, c
<1>5. n \in 1..MaxTokens /\ n <= now.issued
  BY <1>1, <1>2, <1>3, <1>4
<1>6. rec \in ClientRow /\ rec.mode = "inbound" /\ rec.auth = n /\ rec.issued = now.issued
      /\ rec.open = 0 /\ rec.agent = now.agent
  <2>1. rec = Row("inbound", n, 0, now.issued, now.agent)
    BY <1>4 DEF CompleteRegistration
  <2>2. n \in 0..MaxTokens /\ 0 \in 0..MaxTokens
    BY <1>2, <1>5
  <2> HIDE DEF rec, n
  <2>3. QED
    BY <1>3, <2>1, <2>2, RowIs
<1> HIDE DEF rec, n
<1>7. RowFits(rec)
  BY <1>5, <1>6 DEF RowFits
<1>8. /\ clients' \in [ClientIds -> ClientRow] /\ RowsKept' /\ clients'[c] = rec
      /\ \A d \in ClientIds : d # c => clients'[d] = clients[d]
  BY <1>1, <1>2, <1>6, <1>7, RowChanges
<1>9. KindsStay
  BY <1>4, <1>6, <1>8 DEF KindsStay, now
<1>10. link' \in [Agents -> LinkRow] /\ LinksKept'
  BY <1>1, <1>2, <1>8, SessionsEnd
<1>11. flight' \subseteq Flight /\ FlightsKept'
  BY <1>1, <1>5, <1>9, FlightGoesOn
<1>12. RInv'
  BY <1>1, <1>2, <1>8, <1>10, <1>11, ServerTypes DEF RInv
<1>13. ASSUME RMeets
       PROVE  RMeets'
  <2>1. UNCHANGED <<memory, disk, url, urlDisk, routes, dialling>>
    BY <1>1 DEF agentVars
  <2>2. PICK g : g = Granted(r, n) /\ g.agent = r.agent /\ g.kind = "web"
    BY <1>1, FlightIs
  <2>3. flight' = (flight \ {r}) \cup {g} /\ ~IsRegistered(r.agent)
    BY <1>1, <1>13, <2>2 DEF RMeets, TurnsKept
  <2>4. TurnsKept'
    <3>1. \A p, q \in flight' : p.agent = q.agent => p = q
      BY <1>13, <2>2, <2>3 DEF RMeets, TurnsKept
    <3>2. \A p \in flight' : /\ (p.kind = "web" \/ p.state = "sent") => ~IsRegistered(p.agent)
                             /\ (p.kind = "dial" /\ p.state = "sent") => routes[p.agent]
      BY <1>13, <2>2, <2>3 DEF RMeets, TurnsKept
    <3>3. QED
      BY <1>13, <2>1, <3>1, <3>2 DEF RMeets, TurnsKept, IsRegistered
  <2>5. FilesKept'
    BY <1>13, <2>1 DEF RMeets, FilesKept
  <2>6. HoldersKept'
    BY <1>1, <1>9, <1>13, <2>1, <2>2, <2>3, HoldersStay DEF RMeets
  <2>7. QED
    BY <2>4, <2>5, <2>6 DEF RMeets
<1>14. QED
  BY <1>12, <1>13 DEF RKept

\* The server's first session with the agent it dialled.
LEMMA FirstSessionKeeps ==
    ASSUME RInv, NEW r \in flight, FirstSession(r)
    PROVE  RKept
<1> DEFINE c   == r.client
           a   == r.agent
           id  == [client |-> c, auth |-> 1]
           rec == Row("outbound", 1, 0, 0, a)
           l   == Link("open", id, TRUE)
<1>1. /\ r \in Flight /\ r.kind = "dial" /\ r.state = "granted" /\ TakesServer(a, id)
      /\ flight' = flight \ {r} /\ clients' = [clients EXCEPT ![c] = rec]
      /\ link' = [link EXCEPT ![a] = l]
      /\ UNCHANGED <<nextClient, agentVars, restarts>>
  BY RTypes DEF FirstSession
<1>2. /\ c \in ClientIds /\ a \in Agents /\ nextClient \in Nat /\ MaxTokens \in Nat \ {0}
      /\ c < nextClient /\ nextClient \in 1..(MaxClients + 1) /\ clients[c].mode = "none"
      /\ c # 0
  BY <1>1, RTypes DEF Flight, RInv, FlightsKept, ClientIds
<1>3. /\ rec \in ClientRow /\ RowFits(rec) /\ rec.mode = "outbound" /\ rec.auth = 1
      /\ rec.agent = a
  BY <1>2, RowIs DEF RowFits
<1>4. /\ id \in Identity /\ id.client = c /\ id.auth = 1 /\ l \in LinkRow /\ l.state = "open"
      /\ l.client = c /\ l.auth = 1
  <2>1. id \in Identity /\ id.client = c /\ id.auth = 1
    BY <1>2 DEF Identity
  <2> HIDE DEF id
  <2>2. l.state = "open" /\ l.client = id.client /\ l.auth = id.auth
    BY DEF Link
  <2>3. l \in LinkRow
    BY <2>1, LinkIs
  <2> HIDE DEF l
  <2>4. QED
    BY <2>1, <2>2, <2>3
<1>5. \A b \in flight : b # r /\ b.kind = "dial" => b.client # c
  BY <1>1 DEF RInv, FlightsKept
<1>6. memory[a] = id /\ routes[a] /\ ~url[a]
  BY <1>1 DEF TakesServer, Mode
<1> HIDE DEF rec, l
<1>7. /\ clients' \in [ClientIds -> ClientRow] /\ RowsKept' /\ clients'[c] = rec
      /\ \A d \in ClientIds : d # c => clients'[d] = clients[d]
  BY <1>1, <1>2, <1>3, RowChanges
<1>8. link' \in [Agents -> LinkRow] /\ link'[a] = l /\ \A b \in Agents : b # a => link'[b] = link[b]
  BY <1>1, <1>2, <1>4, RTypes
<1>9. LinksKept'
  <2>1. ASSUME NEW b \in Agents, link'[b].state # "none"
        PROVE  /\ link'[b].client \in ClientIds
               /\ link'[b].state = "open" /\ link'[b].current => Known(Holder(b))'
    <3>1. CASE b = a
      BY <1>2, <1>3, <1>4, <1>7, <1>8, <3>1 DEF Known, Holder, Unregistered
    <3>2. CASE b # a
      <4>1. link'[b] = link[b] /\ link[b].client \in ClientIds
        BY <1>8, <2>1, <3>2 DEF RInv, LinksKept
      <4>2. ASSUME link[b].state = "open", link[b].current
            PROVE  Known(Holder(b))'
        <5>1. Known(Holder(b)) /\ link[b].client # c
          BY <1>2, <2>1, <4>1, <4>2 DEF RInv, LinksKept, Known, Holder
        <5>2. QED
          BY <1>7, <4>1, <5>1 DEF Known, Holder
      <4>3. QED
        BY <4>1, <4>2
    <3>3. QED
      BY <3>1, <3>2
  <2>2. QED
    BY <2>1 DEF LinksKept
<1>10. flight' \subseteq flight /\ flight' \subseteq Flight
  BY <1>1, RTypes
<1>11. FlightsKept'
  <2>1. ASSUME NEW q \in flight'
        PROVE  /\ q.client < nextClient /\ q.client # c
               /\ q.kind = "web" => clients[q.client].mode \in {"inbound", "deleted"}
               /\ q.kind = "dial" => clients[q.client].mode = "none"
    BY <1>1, <1>2, <1>5, <1>10 DEF RInv, FlightsKept, Flight
  <2>2. \A q \in flight' : clients'[q.client] = clients[q.client]
    BY <1>7, <1>10, <2>1 DEF Flight
  <2>3. QED
    BY <1>1, <1>10, <2>1, <2>2 DEF RInv, FlightsKept
<1>12. RInv'
  BY <1>1, <1>2, <1>7, <1>8, <1>9, <1>10, <1>11, ServerTypes DEF RInv
<1>13. ASSUME RMeets
       PROVE  RMeets'
  <2>1. UNCHANGED <<memory, disk, url, urlDisk, routes, dialling>>
    BY <1>1 DEF agentVars
  <2>2. TurnsKept' /\ FilesKept'
    BY <1>10, <1>13, <2>1 DEF RMeets, TurnsKept, FilesKept, IsRegistered
  <2>3. HoldersKept'
    <3> SUFFICES ASSUME NEW b \in Agents, IsRegistered(b)
                 PROVE  LET d == memory[b].client IN
                        /\ d < nextClient
                        /\ \A q \in flight' : q.kind = "dial" /\ q.client = d
                                                => q.agent = b /\ q.state = "granted"
                        /\ clients'[d].mode = "inbound" => url[b] /\ dialling[b]
                        /\ clients'[d].mode \in {"none", "outbound"} => ~url[b] /\ routes[b]
                        /\ clients'[d].mode = "outbound" => clients'[d].agent = b
      BY <1>1, <2>1 DEF HoldersKept, IsRegistered
    <3> DEFINE d == memory[b].client
    <3>1. /\ d < nextClient /\ d \in ClientIds
          /\ \A q \in flight : q.kind = "dial" /\ q.client = d => q.agent = b /\ q.state = "granted"
          /\ clients[d].mode = "inbound" => url[b] /\ dialling[b]
          /\ clients[d].mode \in {"none", "outbound"} => ~url[b] /\ routes[b]
          /\ clients[d].mode = "outbound" => clients[d].agent = b
      BY <1>13 DEF RMeets, HoldersKept, RInv, RegistrationTypeOK, IsRegistered, Identity
    <3> HIDE DEF d
    <3>2. CASE d = c
      <4>1. b = a
        BY <1>1, <3>1, <3>2
      <4>2. QED
        BY <1>3, <1>6, <1>7, <1>10, <3>1, <3>2, <4>1 DEF d
    <3>3. CASE d # c
      BY <1>7, <1>10, <3>1, <3>3 DEF d
    <3>4. QED
      BY <3>2, <3>3
  <2>4. QED
    BY <2>2, <2>3 DEF RMeets
<1>14. QED
  BY <1>12, <1>13 DEF RKept

-----------------------------------------------------------------------------
(***************************************************************************)
(* Links and restarts.                                                     *)
(***************************************************************************)
\* A link alone changes.
LEMMA LinkMoves ==
    ASSUME RInv, UNCHANGED <<clients, nextClient, flight, agentVars, restarts>>,
           link' \in [Agents -> LinkRow], LinksKept'
    PROVE  RKept
<1>1. KindsStay /\ RowsKept'
  BY SameRows
<1>2. QED
  BY <1>1, RTypes, ServerKeeps

LEMMA ShakeKeeps ==
    ASSUME RInv, NEW a \in Agents, memory[a] \in Identity, Shake(a),
           UNCHANGED <<clients, nextClient, flight, agentVars, restarts>>
    PROVE  RKept
<1> DEFINE l == Link("shaking", memory[a], FALSE)
<1>1. link \in [Agents -> LinkRow] /\ link' = [link EXCEPT ![a] = l]
  BY RTypes DEF Shake
<1>2. l \in LinkRow
  BY LinkIs
<1>3. l.state = "shaking" /\ l.client \in ClientIds /\ l.current = FALSE
  BY DEF Link, Identity
<1> HIDE DEF l
<1>4. link' \in [Agents -> LinkRow] /\ link'[a] = l /\ \A b \in Agents : b # a => link'[b] = link[b]
  BY <1>1, <1>2
<1>5. LinksKept'
  BY <1>3, <1>4, LinksStay
<1>6. QED
  BY <1>4, <1>5, LinkMoves

LEMMA ConnectsKeep ==
    ASSUME RInv, \/ \E a \in Agents : AgentConnects(a)
                 \/ \E c \in ClientIds : ServerConnects(c)
    PROVE  RKept
<1>1. memory \in [Agents -> Identity \cup {Unregistered}]
  BY DEF RInv, RegistrationTypeOK
<1>2. ASSUME NEW a \in Agents, AgentConnects(a)
      PROVE  RKept
  <2>1. memory[a] \in Identity
    BY <1>1, <1>2 DEF AgentConnects, Known
  <2>2. QED
    BY <1>2, <2>1, ShakeKeeps DEF AgentConnects
<1>3. ASSUME NEW c \in ClientIds, ServerConnects(c)
      PROVE  RKept
  <2> DEFINE a  == clients[c].agent
             id == [client |-> c, auth |-> clients[c].auth]
  <2>1. /\ clients[c].mode = "outbound" /\ routes[a] /\ Mode(a) = "outbound" /\ memory[a] = id
        /\ Shake(a) /\ UNCHANGED <<clients, nextClient, flight, agentVars, restarts>>
    BY <1>3 DEF ServerConnects, TakesServer
  <2>2. CASE a \in Agents
    <3>1. memory[a] # Unregistered
      BY <2>1 DEF Mode, IsRegistered
    <3>2. memory[a] \in Identity
      BY <1>1, <2>2, <3>1
    <3>3. QED
      BY <2>1, <2>2, <3>2, ShakeKeeps
  <2>3. CASE a \notin Agents
    <3>1. UNCHANGED link
      <4>1. link' = [link EXCEPT ![a] = Link("shaking", memory[a], FALSE)]
        BY <2>1 DEF Shake
      <4>2. DOMAIN link = Agents /\ link \in [Agents -> LinkRow]
        BY RTypes
      <4> HIDE DEF a
      <4>3. QED
        BY <2>3, <4>1, <4>2
    <3>2. LinksKept'
      BY <2>1, <3>1 DEF RInv, LinksKept, Known, Holder
    <3>3. QED
      BY <2>1, <3>1, <3>2, RTypes, LinkMoves
  <2>4. QED
    BY <2>2, <2>3
<1>4. QED
  BY <1>2, <1>3

LEMMA AuthKeeps ==
    ASSUME RInv, NEW a \in Agents, Auth(a)
    PROVE  RKept
<1> DEFINE id == Holder(a)
           l  == Link("open", id, Known(id))
<1>1. link \in [Agents -> LinkRow] /\ link[a].state = "shaking" /\ link[a].client \in ClientIds
  BY RTypes DEF Auth, RInv, LinksKept
<1>2. /\ link' = [b \in Agents |-> IF b = a THEN l
                     ELSE IF link[b].state = "open" /\ link[b].client = link[a].client
                     THEN NoLink ELSE link[b]]
      /\ UNCHANGED <<clients, nextClient, flight, agentVars, restarts>>
  BY DEF Auth
<1>3. id.client = link[a].client /\ id.auth = link[a].auth /\ id.auth \in 0..MaxTokens
      /\ id = [client |-> id.client, auth |-> id.auth] /\ id.client \in 0..MaxClients
  BY <1>1 DEF Holder, LinkRow
<1>4. l.state = "open" /\ l.client = id.client /\ l.auth = id.auth /\ l.current = Known(id)
  BY DEF Link
<1>5. l \in LinkRow
  <2>1. Known(id) \in BOOLEAN
    BY DEF Known
  <2>2. l = [state |-> "open", client |-> id.client, auth |-> id.auth, current |-> Known(id)]
    BY DEF Link
  <2> HIDE DEF id
  <2>3. QED
    BY <1>3, <2>1, <2>2 DEF LinkRow
<1> HIDE DEF l
<1>6. link' \in [Agents -> LinkRow] /\ link'[a] = l
      /\ \A b \in Agents : b # a => link'[b] = link[b] \/ link'[b].state = "none"
  BY <1>1, <1>2, <1>5, LinkIs
<1>7. Known(Holder(a))' <=> Known(id)
  BY <1>2, <1>3, <1>4, <1>6 DEF Known, Holder
<1>8. LinksKept'
  BY <1>1, <1>2, <1>3, <1>4, <1>6, <1>7, LinksStay
<1>9. QED
  BY <1>2, <1>6, <1>8, LinkMoves

LEMMA DisconnectKeeps ==
    ASSUME RInv, NEW a \in Agents, Disconnect(a)
    PROVE  RKept
<1>1. link' = [link EXCEPT ![a] = NoLink] /\ link \in [Agents -> LinkRow]
      /\ UNCHANGED <<clients, nextClient, flight, agentVars, restarts>>
  BY RTypes DEF Disconnect
<1>2. link' \in [Agents -> LinkRow]
      /\ \A b \in Agents : link'[b] = link[b] \/ link'[b].state = "none"
  BY <1>1, LinkIs
<1>3. LinksKept'
  BY <1>1, <1>2, LinksStay
<1>4. QED
  BY <1>1, <1>2, <1>3, LinkMoves

\* The agent's halves, after a step that changes those of one agent.
AgentTyped(a, m, d, u, ud, p, s, r, st, di) ==
    /\ m \in Identity \cup {Unregistered} /\ d \in Identity \cup {Unregistered}
    /\ {u, ud, p, s, r, st, di} \subseteq BOOLEAN
    /\ p => m = Unregistered
    /\ st = (m # Unregistered)
    /\ di => st

LEMMA AgentTypes ==
    ASSUME RInv, NEW a \in Agents, NEW m, NEW d, NEW u, NEW ud, NEW p, NEW s, NEW r, NEW st, NEW di,
           AgentTyped(a, m, d, u, ud, p, s, r, st, di),
           memory' = [memory EXCEPT ![a] = m], disk' = [disk EXCEPT ![a] = d],
           url' = [url EXCEPT ![a] = u], urlDisk' = [urlDisk EXCEPT ![a] = ud],
           pin' = [pin EXCEPT ![a] = p], secret' = [secret EXCEPT ![a] = s],
           routes' = [routes EXCEPT ![a] = r], started' = [started EXCEPT ![a] = st],
           dialling' = [dialling EXCEPT ![a] = di],
           UNCHANGED <<clients, nextClient>>, flight' \subseteq Flight,
           link' \in [Agents -> LinkRow], restarts' \in 0..MaxRestarts
    PROVE  RegistrationTypeOK'
<1>1. /\ memory \in [Agents -> Identity \cup {Unregistered}]
      /\ disk \in [Agents -> Identity \cup {Unregistered}]
      /\ url \in [Agents -> BOOLEAN] /\ urlDisk \in [Agents -> BOOLEAN]
      /\ pin \in [Agents -> BOOLEAN] /\ secret \in [Agents -> BOOLEAN]
      /\ routes \in [Agents -> BOOLEAN] /\ started \in [Agents -> BOOLEAN]
      /\ dialling \in [Agents -> BOOLEAN]
      /\ \A b \in Agents : /\ pin[b] => ~IsRegistered(b)
                           /\ started[b] = IsRegistered(b)
                           /\ dialling[b] => started[b]
  BY DEF RInv, RegistrationTypeOK
<1>2. /\ m \in Identity \cup {Unregistered} /\ d \in Identity \cup {Unregistered}
      /\ u \in BOOLEAN /\ ud \in BOOLEAN /\ p \in BOOLEAN /\ s \in BOOLEAN /\ r \in BOOLEAN
      /\ st \in BOOLEAN /\ di \in BOOLEAN
  BY DEF AgentTyped
<1>3. memory' \in [Agents -> Identity \cup {Unregistered}]
      /\ disk' \in [Agents -> Identity \cup {Unregistered}]
  BY <1>1, <1>2
<1>4. /\ url' \in [Agents -> BOOLEAN] /\ urlDisk' \in [Agents -> BOOLEAN]
      /\ pin' \in [Agents -> BOOLEAN] /\ secret' \in [Agents -> BOOLEAN]
      /\ routes' \in [Agents -> BOOLEAN] /\ started' \in [Agents -> BOOLEAN]
      /\ dialling' \in [Agents -> BOOLEAN]
  BY <1>1, <1>2
<1>5. ASSUME NEW b \in Agents
      PROVE  /\ pin'[b] => memory'[b] = Unregistered
             /\ started'[b] = (memory'[b] # Unregistered)
             /\ dialling'[b] => started'[b]
  <2>1. CASE b = a
    <3>1. /\ memory'[b] = m /\ pin'[b] = p /\ started'[b] = st /\ dialling'[b] = di
      BY <1>1, <2>1
    <3>2. QED
      BY <3>1 DEF AgentTyped
  <2>2. CASE b # a
    <3>1. /\ memory'[b] = memory[b] /\ pin'[b] = pin[b] /\ started'[b] = started[b]
          /\ dialling'[b] = dialling[b]
      BY <1>1, <2>2
    <3>2. QED
      BY <1>1, <3>1 DEF IsRegistered
  <2>3. QED
    BY <2>1, <2>2
<1>6. \A b \in Agents : /\ pin'[b] => ~IsRegistered(b)'
                        /\ started'[b] = IsRegistered(b)'
                        /\ dialling'[b] => started'[b]
  BY <1>5 DEF IsRegistered
<1>7. QED
  BY <1>3, <1>4, <1>6 DEF RInv, RegistrationTypeOK, Flight, LinkRow

\* The agent and the registrations under way fit each other after it.
AgentFits(a, m, d, u, ud, r, di) ==
    /\ d \in {m, Unregistered} /\ ud = u
    /\ m = Unregistered /\ r => ~u
    /\ m # Unregistered =>
          /\ m.client < nextClient
          /\ clients[m.client].mode = "inbound" => u /\ di
          /\ clients[m.client].mode \in {"none", "outbound"} => ~u /\ r
          /\ clients[m.client].mode = "outbound" => clients[m.client].agent = a
          /\ \A q \in flight' : q.kind = "dial" /\ q.client = m.client
                                  => q.agent = a /\ q.state = "granted"
    /\ \A q \in flight' : q.agent # a => q \in flight
    /\ \A q, p \in flight' : q.agent = a /\ p.agent = a => q = p
    /\ \A q \in flight' : q.agent = a =>
          /\ q.kind = "web" \/ q.state = "sent" => m = Unregistered
          /\ q.kind = "dial" /\ q.state = "sent" => r
          /\ q.kind = "dial" =>
                \E p \in flight : p.agent = a /\ p.kind = "dial" /\ p.client = q.client

LEMMA AgentMeets ==
    ASSUME RInv, RMeets, NEW a \in Agents, NEW m, NEW d, NEW u, NEW ud, NEW r, NEW di,
           AgentFits(a, m, d, u, ud, r, di),
           memory' = [memory EXCEPT ![a] = m], disk' = [disk EXCEPT ![a] = d],
           url' = [url EXCEPT ![a] = u], urlDisk' = [urlDisk EXCEPT ![a] = ud],
           routes' = [routes EXCEPT ![a] = r], dialling' = [dialling EXCEPT ![a] = di],
           UNCHANGED <<clients, nextClient>>
    PROVE  RMeets'
<1>1. /\ memory'[a] = m /\ disk'[a] = d /\ url'[a] = u /\ urlDisk'[a] = ud
      /\ routes'[a] = r /\ dialling'[a] = di
      /\ \A b \in Agents : b # a =>
            /\ memory'[b] = memory[b] /\ disk'[b] = disk[b] /\ url'[b] = url[b]
            /\ urlDisk'[b] = urlDisk[b] /\ routes'[b] = routes[b] /\ dialling'[b] = dialling[b]
  BY DEF RInv, RegistrationTypeOK
<1>2. TurnsKept'
  <2>1. ASSUME NEW q \in flight', NEW p \in flight', q.agent = p.agent
        PROVE  q = p
    <3>1. CASE q.agent = a
      BY <2>1, <3>1 DEF AgentFits
    <3>2. CASE q.agent # a
      <4>1. q \in flight /\ p \in flight
        BY <2>1, <3>2 DEF AgentFits
      <4>2. QED
        BY <2>1, <4>1 DEF RMeets, TurnsKept
    <3>3. QED
      BY <3>1, <3>2
  <2>2. ASSUME NEW q \in flight'
        PROVE  /\ (q.kind = "web" \/ q.state = "sent") => memory'[q.agent] = Unregistered
               /\ (q.kind = "dial" /\ q.state = "sent") => routes'[q.agent]
    <3>1. CASE q.agent = a
      BY <1>1, <3>1 DEF AgentFits
    <3>2. CASE q.agent # a
      <4>1. q \in flight /\ q.agent \in Agents
        BY <3>2, RTypes DEF AgentFits, Flight
      <4>2. QED
        BY <1>1, <3>2, <4>1 DEF RMeets, TurnsKept, IsRegistered
    <3>3. QED
      BY <3>1, <3>2
  <2>3. \A b \in Agents : (memory'[b] = Unregistered /\ routes'[b]) => ~url'[b]
    BY <1>1 DEF RMeets, TurnsKept, IsRegistered, AgentFits
  <2>4. QED
    BY <2>1, <2>2, <2>3 DEF TurnsKept, IsRegistered
<1>3. FilesKept'
  BY <1>1 DEF RMeets, FilesKept, AgentFits
<1>4. ASSUME NEW b \in Agents, memory'[b] # Unregistered
      PROVE  LET c == memory'[b].client IN
             /\ c < nextClient
             /\ \A q \in flight' : q.kind = "dial" /\ q.client = c
                                     => q.agent = b /\ q.state = "granted"
             /\ clients[c].mode = "inbound" => url'[b] /\ dialling'[b]
             /\ clients[c].mode \in {"none", "outbound"} => ~url'[b] /\ routes'[b]
             /\ clients[c].mode = "outbound" => clients[c].agent = b
  <2>1. CASE b = a
    BY <1>1, <1>4, <2>1 DEF AgentFits
  <2>2. CASE b # a
    <3> DEFINE c == memory[b].client
    <3>1. /\ c < nextClient
          /\ \A q \in flight : q.kind = "dial" /\ q.client = c => q.agent = b /\ q.state = "granted"
          /\ clients[c].mode = "inbound" => url[b] /\ dialling[b]
          /\ clients[c].mode \in {"none", "outbound"} => ~url[b] /\ routes[b]
          /\ clients[c].mode = "outbound" => clients[c].agent = b
      BY <1>1, <1>4, <2>2 DEF RMeets, HoldersKept, IsRegistered
    <3> HIDE DEF c
    <3>2. ASSUME NEW q \in flight', q.kind = "dial", q.client = c
          PROVE  q.agent = b /\ q.state = "granted"
      <4>1. CASE q.agent # a
        BY <3>1, <3>2, <4>1 DEF AgentFits
      <4>2. CASE q.agent = a
        <5>1. PICK p \in flight : p.agent = a /\ p.kind = "dial" /\ p.client = q.client
          BY <3>2, <4>2 DEF AgentFits
        <5>2. p.agent = b
          BY <3>1, <3>2, <5>1
        <5>3. QED
          BY <2>2, <5>1, <5>2
      <4>3. QED
        BY <4>1, <4>2
    <3>3. QED
      BY <1>1, <2>2, <3>1, <3>2 DEF c
  <2>3. QED
    BY <2>1, <2>2
<1>5. HoldersKept'
  BY <1>4 DEF HoldersKept, IsRegistered
<1>6. QED
  BY <1>2, <1>3, <1>5 DEF RMeets

\* The agent's fields and what is on its disk, as functions and values.
LEMMA AgentIs ==
    ASSUME RInv, NEW a \in Agents
    PROVE  /\ memory[a] \in Identity \cup {Unregistered} /\ disk[a] \in Identity \cup {Unregistered}
           /\ {url[a], urlDisk[a], pin[a], secret[a], routes[a], started[a], dialling[a]}
                 \subseteq BOOLEAN
           /\ started[a] = (memory[a] # Unregistered) /\ (dialling[a] => started[a])
           /\ (pin[a] => memory[a] = Unregistered)
           /\ url = [url EXCEPT ![a] = url[a]] /\ urlDisk = [urlDisk EXCEPT ![a] = urlDisk[a]]
           /\ secret = [secret EXCEPT ![a] = secret[a]] /\ routes = [routes EXCEPT ![a] = routes[a]]
<1>1. /\ memory \in [Agents -> Identity \cup {Unregistered}]
      /\ disk \in [Agents -> Identity \cup {Unregistered}]
      /\ url \in [Agents -> BOOLEAN] /\ urlDisk \in [Agents -> BOOLEAN]
      /\ pin \in [Agents -> BOOLEAN] /\ secret \in [Agents -> BOOLEAN]
      /\ routes \in [Agents -> BOOLEAN] /\ started \in [Agents -> BOOLEAN]
      /\ dialling \in [Agents -> BOOLEAN]
  BY DEF RInv, RegistrationTypeOK
<1>2. /\ memory[a] \in Identity \cup {Unregistered} /\ disk[a] \in Identity \cup {Unregistered}
      /\ url[a] \in BOOLEAN /\ urlDisk[a] \in BOOLEAN /\ pin[a] \in BOOLEAN
      /\ secret[a] \in BOOLEAN /\ routes[a] \in BOOLEAN /\ started[a] \in BOOLEAN
      /\ dialling[a] \in BOOLEAN
  BY <1>1
<1>3. started[a] = (memory[a] # Unregistered) /\ (dialling[a] => started[a])
      /\ (pin[a] => memory[a] = Unregistered)
  BY DEF RInv, RegistrationTypeOK, IsRegistered
<1>4. /\ url = [url EXCEPT ![a] = url[a]] /\ urlDisk = [urlDisk EXCEPT ![a] = urlDisk[a]]
      /\ secret = [secret EXCEPT ![a] = secret[a]] /\ routes = [routes EXCEPT ![a] = routes[a]]
  BY <1>1
<1>5. QED
  BY <1>2, <1>3, <1>4

\* What SetIdentity writes, and what the file may hold after it.
LEMMA IdentitySet ==
    ASSUME RInv, NEW a \in Agents, NEW id \in Identity, SetIdentity(a, id)
    PROVE  /\ memory' = [memory EXCEPT ![a] = id] /\ id # Unregistered
           /\ \E d \in {id, disk[a]} : disk' = [disk EXCEPT ![a] = d]
<1>1. id # Unregistered
  BY DEF Identity, Unregistered, ClientIds
<1>2. PICK stored \in Stored("identity") :
          disk' = [disk EXCEPT ![a] = IF stored THEN id ELSE disk[a]]
  BY DEF SetIdentity, RInv, RegistrationTypeOK
<1>3. (IF stored THEN id ELSE disk[a]) \in {id, disk[a]}
  OBVIOUS
<1>4. QED
  BY <1>1, <1>2, <1>3 DEF SetIdentity

LEMMA WebRegisteredKeeps ==
    ASSUME RInv, NEW r \in flight, WebRegistered(r)
    PROVE  RKept
<1> DEFINE a  == r.agent
           id == [client |-> r.client, auth |-> r.number]
           di == dialling[a] \/ ~started[a]
<1>1. /\ r \in Flight /\ a \in Agents /\ r.client \in ClientIds /\ r.number \in 1..MaxTokens
      /\ r.kind = "web" /\ SetIdentity(a, id) /\ flight' = flight \ {r}
      /\ UNCHANGED <<clients, nextClient, secret, routes, link, restarts>>
  BY RTypes DEF WebRegistered, Flight
<1>2. id \in Identity /\ id.client = r.client
  BY <1>1 DEF Identity
<1>3. PICK d \in {id, disk[a]} : disk' = [disk EXCEPT ![a] = d]
  BY <1>1, <1>2, IdentitySet
<1>4. memory' = [memory EXCEPT ![a] = id] /\ id # Unregistered
  BY <1>1, <1>2, IdentitySet
<1>5. PICK stored \in Stored("url") :
          urlDisk' = [urlDisk EXCEPT ![a] = urlDisk[a] \/ (~url[a] /\ stored)]
  BY DEF WebRegistered, SetServerUrl, RInv, RegistrationTypeOK
<1> DEFINE ud == urlDisk[a] \/ (~url[a] /\ stored)
<1>6. /\ url' = [url EXCEPT ![a] = TRUE] /\ urlDisk' = [urlDisk EXCEPT ![a] = ud]
      /\ pin' = [pin EXCEPT ![a] = FALSE] /\ started' = [started EXCEPT ![a] = TRUE]
      /\ dialling' = [dialling EXCEPT ![a] = di]
      /\ secret' = [secret EXCEPT ![a] = secret[a]] /\ routes' = [routes EXCEPT ![a] = routes[a]]
  <2>1. dialling' = [dialling EXCEPT ![a] = di]
    BY DEF WebRegistered, StartAgentActivity, RInv, RegistrationTypeOK
  <2>2. /\ secret' = [secret EXCEPT ![a] = secret[a]] /\ routes' = [routes EXCEPT ![a] = routes[a]]
    BY <1>1, AgentIs
  <2>3. QED
    BY <1>5, <2>1, <2>2 DEF WebRegistered, SetServerUrl, ClearSetupPin, StartAgentActivity
<1>7. /\ memory[a] \in Identity \cup {Unregistered} /\ disk[a] \in Identity \cup {Unregistered}
      /\ {url[a], urlDisk[a], pin[a], secret[a], routes[a], started[a], dialling[a]}
            \subseteq BOOLEAN
      /\ started[a] = (memory[a] # Unregistered)
  BY <1>1, AgentIs
<1>8. d \in Identity \cup {Unregistered} /\ ud \in BOOLEAN /\ di \in BOOLEAN
  BY <1>2, <1>3, <1>7
<1>9. flight' \subseteq flight /\ flight' \subseteq Flight
  BY <1>1, RTypes
<1>10. RegistrationTypeOK'
  <2>1. AgentTyped(a, id, d, TRUE, ud, FALSE, secret[a], routes[a], TRUE, di)
    BY <1>2, <1>4, <1>7, <1>8 DEF AgentTyped
  <2>2. link' \in [Agents -> LinkRow] /\ restarts' \in 0..MaxRestarts
    BY <1>1, RTypes DEF RInv, RegistrationTypeOK
  <2> HIDE DEF id, ud, di
  <2>3. QED
    BY <1>1, <1>3, <1>4, <1>6, <1>9, <2>1, <2>2, AgentTypes
<1>11. KindsStay /\ RowsKept'
  BY <1>1, SameRows
<1>12. FlightsKept' /\ LinksKept'
  BY <1>1, <1>9, <1>11, FlightsStay, LinksStay
<1>13. ASSUME Orderly, RMeets
       PROVE  RMeets'
  <2>1. memory[a] = Unregistered /\ \A q \in flight' : q.agent # a
    BY <1>1, <1>13 DEF RMeets, TurnsKept, IsRegistered
  <2>2. disk[a] = Unregistered /\ urlDisk[a] = url[a]
    BY <1>1, <1>13, <2>1 DEF RMeets, FilesKept
  <2>3. stored = TRUE
    BY <1>5, <1>13 DEF Orderly, Stored
  <2>4. ud = TRUE /\ di = TRUE
    BY <1>7, <2>1, <2>2, <2>3
  <2>5. r.client < nextClient /\ clients[r.client].mode \in {"inbound", "deleted"}
        /\ \A q \in flight : q.kind = "dial" => q.client # r.client
    BY <1>1 DEF RInv, FlightsKept
  <2> HIDE DEF id, ud, di
  <2>6. AgentFits(a, id, d, TRUE, ud, routes[a], di)
    BY <1>2, <1>3, <1>4, <1>9, <2>1, <2>2, <2>4, <2>5 DEF AgentFits
  <2>7. QED
    BY <1>1, <1>3, <1>4, <1>6, <1>13, <2>6, AgentMeets
<1>14. QED
  BY <1>10, <1>11, <1>12, <1>13 DEF RKept, RInv

LEMMA AcceptServerKeeps ==
    ASSUME RInv, NEW r \in flight, AcceptServer(r)
    PROVE  RKept
<1> DEFINE a  == r.agent
           id == [client |-> r.client, auth |-> 1]
           di == dialling[a] \/ (~started[a] /\ url[a])
<1>1. /\ r \in Flight /\ a \in Agents /\ r.client \in ClientIds /\ 1 \in 1..MaxTokens
      /\ r.kind = "dial" /\ r.state = "sent" /\ SetIdentity(a, id)
      /\ flight' = (flight \ {r}) \cup {Granted(r, 1)}
      /\ UNCHANGED <<clients, nextClient, url, urlDisk, routes, link, restarts>>
  BY RTypes DEF AcceptServer, Flight
<1>2. id \in Identity /\ id.client = r.client
  BY <1>1 DEF Identity
<1>3. PICK d \in {id, disk[a]} : disk' = [disk EXCEPT ![a] = d]
  BY <1>1, <1>2, IdentitySet
<1>4. memory' = [memory EXCEPT ![a] = id] /\ id # Unregistered
  BY <1>1, <1>2, IdentitySet
<1>5. /\ url' = [url EXCEPT ![a] = url[a]] /\ urlDisk' = [urlDisk EXCEPT ![a] = urlDisk[a]]
      /\ routes' = [routes EXCEPT ![a] = routes[a]]
  BY <1>1, AgentIs
<1>6. /\ pin' = [pin EXCEPT ![a] = FALSE] /\ started' = [started EXCEPT ![a] = TRUE]
      /\ dialling' = [dialling EXCEPT ![a] = di] /\ secret' = [secret EXCEPT ![a] = FALSE]
  <2>1. dialling' = [dialling EXCEPT ![a] = di]
    BY DEF AcceptServer, StartAgentActivity, RInv, RegistrationTypeOK
  <2>2. QED
    BY <2>1 DEF AcceptServer, ClearSetupPin, StartAgentActivity
<1>7. /\ memory[a] \in Identity \cup {Unregistered} /\ disk[a] \in Identity \cup {Unregistered}
      /\ {url[a], urlDisk[a], pin[a], secret[a], routes[a], started[a], dialling[a]}
            \subseteq BOOLEAN
  BY <1>1, AgentIs
<1>8. d \in Identity \cup {Unregistered} /\ di \in BOOLEAN
  BY <1>2, <1>3, <1>7
<1>9. KindsStay /\ RowsKept'
  BY <1>1, SameRows
<1>10. flight' \subseteq Flight /\ FlightsKept'
  BY <1>1, <1>9, FlightGoesOn
<1>10a. a \in Agents
  BY <1>1
<1>11. RegistrationTypeOK'
  <2>1. AgentTyped(a, id, d, url[a], urlDisk[a], FALSE, FALSE, routes[a], TRUE, di)
    BY <1>2, <1>4, <1>7, <1>8 DEF AgentTyped
  <2>2. link' \in [Agents -> LinkRow] /\ restarts' \in 0..MaxRestarts
    BY <1>1, RTypes DEF RInv, RegistrationTypeOK
  <2>3. UNCHANGED <<clients, nextClient>>
    BY <1>1
  <2> HIDE DEF id, di
  <2>4. QED
    BY ONLY RInv, <1>10a, <1>3, <1>4, <1>5, <1>6, <1>10, <2>1, <2>2, <2>3, AgentTypes
<1>12. LinksKept'
  BY <1>1, LinksStay
<1>13. ASSUME Orderly, RMeets
       PROVE  RMeets'
  <2>1. PICK g : /\ g = Granted(r, 1) /\ g.agent = a /\ g.kind = "dial" /\ g.state = "granted"
                 /\ g.client = r.client
    BY <1>1, FlightIs
  <2>2. memory[a] = Unregistered /\ routes[a] /\ \A q \in flight \ {r} : q.agent # a
    BY <1>1, <1>13 DEF RMeets, TurnsKept, IsRegistered
  <2>3. disk[a] = Unregistered /\ urlDisk[a] = url[a] /\ ~url[a]
    BY <1>1, <1>13, <2>2 DEF RMeets, FilesKept, TurnsKept, IsRegistered
  <2>4. r.client < nextClient /\ clients[r.client].mode = "none"
        /\ \A q \in flight \ {r} : q.kind = "dial" => q.client # r.client
    BY <1>1 DEF RInv, FlightsKept
  <2>5. flight' = (flight \ {r}) \cup {g}
    BY <1>1, <2>1
  <2> HIDE DEF id, di
  <2>6. AgentFits(a, id, d, url[a], urlDisk[a], routes[a], di)
    <3>1. /\ d \in {id, Unregistered} /\ urlDisk[a] = url[a] /\ id # Unregistered
      BY <1>3, <1>4, <2>3
    <3>2. /\ id.client < nextClient /\ clients[id.client].mode = "none" /\ ~url[a] /\ routes[a]
          /\ \A q \in flight' : q.kind = "dial" /\ q.client = id.client
                                  => q.agent = a /\ q.state = "granted"
      BY <1>2, <2>1, <2>2, <2>3, <2>4, <2>5
    <3>3. /\ \A q \in flight' : q.agent # a => q \in flight
          /\ \A q, p \in flight' : q.agent = a /\ p.agent = a => q = p
          /\ \A q \in flight' : q.agent = a => q = g
      BY <2>1, <2>2, <2>5
    <3>4. \A q \in flight' : q.agent = a =>
             \E p \in flight : p.agent = a /\ p.kind = "dial" /\ p.client = q.client
      BY <1>1, <2>1, <3>3
    <3>5. QED
      BY <2>1, <3>1, <3>2, <3>3, <3>4 DEF AgentFits
  <2>7. UNCHANGED <<clients, nextClient>>
    BY <1>1
  <2>8. QED
    BY ONLY RInv, <1>10a, <1>3, <1>4, <1>5, <1>6, <1>13, <2>6, <2>7, AgentMeets
<1>14. QED
  BY <1>9, <1>10, <1>11, <1>12, <1>13 DEF RKept, RInv

LEMMA RestartKeeps ==
    ASSUME RInv, NEW a \in Agents, NEW forget \in BOOLEAN, Restart(a, forget)
    PROVE  RKept
<1> DEFINE id == IF forget THEN Unregistered ELSE disk[a]
           st == id # Unregistered
           di == id # Unregistered /\ urlDisk[a]
           p  == id = Unregistered /\ (a \in Pages \/ (~urlDisk[a] /\ a \notin Secrets))
           s  == a \in Secrets
           r  == ~urlDisk[a]
<1>1. /\ memory' = [memory EXCEPT ![a] = id] /\ disk' = [disk EXCEPT ![a] = id]
      /\ url' = [url EXCEPT ![a] = urlDisk[a]] /\ routes' = [routes EXCEPT ![a] = r]
      /\ secret' = [secret EXCEPT ![a] = s] /\ pin' = [pin EXCEPT ![a] = p]
      /\ started' = [started EXCEPT ![a] = st] /\ dialling' = [dialling EXCEPT ![a] = di]
      /\ link' = [link EXCEPT ![a] = NoLink]
      /\ flight' = {q \in flight : q.agent = a => q.kind = "dial" /\ q.state = "granted"}
      /\ UNCHANGED <<clients, nextClient>>
  BY DEF Restart
<1>2. urlDisk' = [urlDisk EXCEPT ![a] = urlDisk[a]] /\ restarts' \in 0..MaxRestarts
  <2>1. UNCHANGED urlDisk /\ restarts < MaxRestarts /\ restarts' = restarts + 1
        /\ restarts \in 0..MaxRestarts /\ MaxRestarts \in Nat
    BY RegistrationAssumption DEF Restart, RInv, RegistrationTypeOK
  <2>2. restarts' \in 0..MaxRestarts
    BY <2>1
  <2>3. QED
    BY <2>1, <2>2, AgentIs
<1>3. /\ memory[a] \in Identity \cup {Unregistered} /\ disk[a] \in Identity \cup {Unregistered}
      /\ urlDisk[a] \in BOOLEAN
  BY AgentIs
<1>4. id \in Identity \cup {Unregistered} /\ id \in {Unregistered, disk[a]}
  BY <1>3
<1>5. flight' \subseteq flight /\ flight' \subseteq Flight
  BY <1>1, RTypes
<1>6. /\ link' \in [Agents -> LinkRow]
      /\ \A b \in Agents : link'[b] = link[b] \/ link'[b].state = "none"
  BY <1>1, RTypes, LinkIs
<1>7. KindsStay /\ RowsKept'
  BY <1>1, SameRows
<1>8. FlightsKept' /\ LinksKept'
  BY <1>1, <1>5, <1>6, <1>7, FlightsStay, LinksStay
<1>9. RegistrationTypeOK'
  <2>1. AgentTyped(a, id, id, urlDisk[a], urlDisk[a], p, s, r, st, di)
    BY <1>3, <1>4 DEF AgentTyped
  <2> HIDE DEF id, st, di, p, s, r
  <2>2. QED
    BY <1>1, <1>2, <1>5, <1>6, <2>1, AgentTypes
<1>10. ASSUME RMeets
       PROVE  RMeets'
  <2>1. disk[a] \in {memory[a], Unregistered} /\ urlDisk[a] = url[a]
    BY <1>10 DEF RMeets, FilesKept
  <2>2. id # Unregistered => id = memory[a] /\ IsRegistered(a)
    BY <1>4, <2>1 DEF IsRegistered
  <2>3. AgentFits(a, id, id, urlDisk[a], urlDisk[a], r, di)
    <3>1. /\ id = Unregistered /\ r => ~urlDisk[a]
          /\ \A q \in flight' : q.agent # a => q \in flight
          /\ \A q, b \in flight' : q.agent = a /\ b.agent = a => q = b
      BY <1>5, <1>10 DEF RMeets, TurnsKept
    <3>2. \A q \in flight' : q.agent = a =>
              /\ q.kind = "dial" /\ q.state = "granted"
              /\ \E b \in flight : b.agent = a /\ b.kind = "dial" /\ b.client = q.client
      BY <1>1
    <3>3. ASSUME id # Unregistered
          PROVE  /\ id.client < nextClient
                 /\ clients[id.client].mode = "inbound" => urlDisk[a] /\ di
                 /\ clients[id.client].mode \in {"none", "outbound"} => ~urlDisk[a] /\ r
                 /\ clients[id.client].mode = "outbound" => clients[id.client].agent = a
                 /\ \A q \in flight' : q.kind = "dial" /\ q.client = id.client
                                         => q.agent = a /\ q.state = "granted"
      <4>1. /\ memory[a].client < nextClient
            /\ \A q \in flight : q.kind = "dial" /\ q.client = memory[a].client
                                   => q.agent = a /\ q.state = "granted"
            /\ clients[memory[a].client].mode = "inbound" => url[a]
            /\ clients[memory[a].client].mode \in {"none", "outbound"} => ~url[a]
            /\ clients[memory[a].client].mode = "outbound" => clients[memory[a].client].agent = a
        BY <1>10, <2>2, <3>3 DEF RMeets, HoldersKept
      <4>2. id = memory[a] /\ (di <=> urlDisk[a])
        BY <2>2, <3>3
      <4> HIDE DEF id, di
      <4>3. QED
        BY <1>5, <2>1, <4>1, <4>2
    <3> HIDE DEF id, di, r
    <3>4. QED
      BY <3>1, <3>2, <3>3 DEF AgentFits
  <2> HIDE DEF id, st, di, p, s, r
  <2>4. QED
    BY <1>1, <1>2, <1>10, <2>3, AgentMeets
<1>11. QED
  BY <1>7, <1>8, <1>9, <1>10 DEF RKept, RInv

-----------------------------------------------------------------------------
(***************************************************************************)
(* Registration: the theorems.                                             *)
(***************************************************************************)
LEMMA RegistrationStarts ==
    ASSUME RegistrationInit
    PROVE  RInv /\ RMeets
<1>1. NoRow \in ClientRow /\ NoRow.mode = "none" /\ NoRow.open = 0 /\ NoRow.issued = 0
  <2>1. 0 \in 0..MaxTokens
    BY RegistrationAssumption
  <2>2. QED
    BY <2>1 DEF NoRow, Row, ClientRow
<1>2. /\ clients = [c \in ClientIds |-> NoRow] /\ nextClient = 1 /\ flight = {}
      /\ link = [a \in Agents |-> NoLink] /\ restarts = 0
      /\ memory = [a \in Agents |-> Unregistered] /\ disk = [a \in Agents |-> Unregistered]
      /\ url = [a \in Agents |-> FALSE] /\ urlDisk = [a \in Agents |-> FALSE]
      /\ pin = [a \in Agents |-> a \in Pages \/ a \notin Secrets]
      /\ secret = [a \in Agents |-> a \in Secrets] /\ routes = [a \in Agents |-> TRUE]
      /\ started = [a \in Agents |-> FALSE] /\ dialling = [a \in Agents |-> FALSE]
  BY DEF RegistrationInit
<1>3. RegistrationTypeOK
  <2>1. clients \in [ClientIds -> ClientRow] /\ link \in [Agents -> LinkRow]
    BY <1>1, <1>2, LinkIs
  <2>2. nextClient \in 1..(MaxClients + 1) /\ restarts \in 0..MaxRestarts
    BY <1>2, RegistrationAssumption
  <2>3. /\ memory \in [Agents -> Identity \cup {Unregistered}]
        /\ disk \in [Agents -> Identity \cup {Unregistered}]
    BY <1>2
  <2>4. /\ url \in [Agents -> BOOLEAN] /\ urlDisk \in [Agents -> BOOLEAN]
        /\ pin \in [Agents -> BOOLEAN] /\ secret \in [Agents -> BOOLEAN]
        /\ routes \in [Agents -> BOOLEAN] /\ started \in [Agents -> BOOLEAN]
        /\ dialling \in [Agents -> BOOLEAN]
    BY <1>2
  <2>5. \A a \in Agents : /\ pin[a] => ~IsRegistered(a)
                          /\ started[a] = IsRegistered(a)
                          /\ dialling[a] => started[a]
    BY <1>2 DEF IsRegistered
  <2>6. QED
    BY <1>2, <2>1, <2>2, <2>3, <2>4, <2>5 DEF RegistrationTypeOK, ClientRow, LinkRow
<1>4. RowsKept /\ FlightsKept /\ LinksKept
  BY <1>1, <1>2, LinkIs DEF RowsKept, FlightsKept, LinksKept
<1>5. RMeets
  BY <1>2 DEF RMeets, TurnsKept, FilesKept, HoldersKept, IsRegistered
<1>6. QED
  BY <1>3, <1>4, <1>5 DEF RInv

LEMMA RegistrationStep ==
    ASSUME RInv, [RegistrationNext]_registrationVars
    PROVE  RKept
<1>1. CASE UNCHANGED registrationVars
  <2>1. UNCHANGED <<clients, nextClient, flight, agentVars, link, restarts>>
    BY <1>1 DEF registrationVars
  <2>2. LinksKept'
    BY <2>1, LinksStay
  <2>3. QED
    BY <2>1, <2>2, RTypes, LinkMoves
<1>2. ASSUME CreateInbound \/ \E c \in ClientIds : \/ IssueRegistrationToken(c) \/ TokenExpires(c)
                                                   \/ DeleteClient(c)
      PROVE  RKept
  BY <1>2, CreateInboundKeeps, IssueKeeps, ExpiresKeeps, DeleteKeeps
<1>3. ASSUME NEW a \in Agents,
             \/ Auth(a) \/ Disconnect(a) \/ FirstConnect(a)
             \/ \E forget \in BOOLEAN : Restart(a, forget)
             \/ \E c \in ClientIds, n \in 1..MaxTokens : WebRegister(a, c, n)
      PROVE  RKept
  BY <1>3, AuthKeeps, DisconnectKeeps, FirstConnectKeeps, RestartKeeps, WebRegisterKeeps
<1>4. ASSUME NEW r \in flight,
             \/ Register(r) \/ RegisterRefused(r) \/ WebRegistered(r)
             \/ AcceptServer(r) \/ FirstSession(r) \/ GiveUp(r)
      PROVE  RKept
  BY <1>4, RegisterKeeps, WebRegisteredKeeps, AcceptServerKeeps, FirstSessionKeeps, GiveUpKeeps
<1>5. QED
  BY <1>1, <1>2, <1>3, <1>4, ConnectsKeep DEF RegistrationNext

LEMMA RInvHolds == RInv => RegistrationHolds
BY DEF RInv, RegistrationHolds, RowsKept, EachTokenRegistersOnce, LinksKept, SessionHoldsToken

\* Whatever is lost, restarted, sent twice or not written, each token an
\* operator issues registers one agent, and no session outlives the auth token
\* it was opened with (completeRegistration, register, delete).
THEOREM TokensRegisterOnce == RegistrationSpec => []RegistrationHolds
<1>1. RegistrationInit => RInv
  BY RegistrationStarts
<1>2. RInv /\ [RegistrationNext]_registrationVars => RInv'
  BY RegistrationStep DEF RKept
<1>3. QED
  BY <1>1, <1>2, RInvHolds, PTL DEF RegistrationSpec

\* Where the server URL can be written and an agent is registered by one
\* operator at a time, an agent and a server that agree on an identity agree on
\* who dials (getAgentMode, registerAgent, connectOutbound).
THEOREM AgentAndServerMeet ==
    ASSUME OneAtATime, "url" \notin Unwritable
    PROVE  RegistrationSpec => []ClientsKept
<1>1. RegistrationInit => RInv /\ RMeets
  BY RegistrationStarts
<1>2. RInv /\ RMeets /\ [RegistrationNext]_registrationVars => (RInv /\ RMeets)'
  BY RegistrationStep DEF RKept, Orderly
<1>3. RInv /\ RMeets => CanMeet
  <2> SUFFICES ASSUME RInv, RMeets, NEW a \in Agents, Known(memory[a])
               PROVE  LET rec == clients[memory[a].client] IN
                      \/ rec.mode = "inbound" /\ url[a] /\ dialling[a]
                      \/ rec.mode = "outbound" /\ rec.agent = a /\ ~url[a] /\ routes[a]
    BY DEF CanMeet
  <2>1. IsRegistered(a) /\ clients[memory[a].client].mode \in {"inbound", "outbound"}
    BY DEF Known, IsRegistered
  <2>2. QED
    BY <2>1 DEF RMeets, HoldersKept
<1>4. RInv /\ RMeets => ClientsKept
  BY <1>3, RInvHolds DEF ClientsKept
<1>5. QED
  BY <1>1, <1>2, <1>4, PTL DEF RegistrationSpec

-----------------------------------------------------------------------------
(***************************************************************************)
(* Webhooks: the inductive invariant.  What waits was dispatched after     *)
(* what arrived, and is numbered in its order.                             *)
(***************************************************************************)
QueueFits(q, last, newest) ==
    /\ q \in Seq(Delivery) /\ Len(q) <= MaxPending
    /\ \A i \in 1..Len(q) : last <= q[i].event /\ q[i].event <= newest
    /\ \A i, j \in 1..Len(q) : i < j => q[i].event < q[j].event

WInv ==
    /\ hooks \in [Hooks -> HookRows]
    /\ events \in 0..MaxEvents
    /\ DOMAIN queue = Hooks /\ queue = [w \in Hooks |-> queue[w]]
    /\ arrived \in [Hooks -> 0..MaxEvents]
    /\ result \in [Hooks -> [event : 0..MaxEvents, ok : BOOLEAN]]
    /\ edits \in 0..MaxEdits
    /\ \A w \in Hooks : arrived[w] <= events /\ QueueFits(queue[w], arrived[w], events)

LEMMA DeliveryIs ==
    \A d \in Delivery : d.event \in 1..MaxEvents /\ d.event \in Nat /\ d.attempts \in 0..2
BY WebhooksAssumption DEF Delivery, MaxAttempts

LEMMA WTypes ==
    ASSUME WInv
    PROVE  /\ MaxEvents \in Nat /\ MaxPending \in Nat /\ MaxEdits \in Nat
           /\ events \in Nat /\ \A w \in Hooks : arrived[w] \in Nat
BY WebhooksAssumption DEF WInv

\* An event that is dispatched is the newest that waits.
LEMMA EnqueueFits ==
    ASSUME NEW q, NEW last \in Nat, NEW newest \in Nat, newest < MaxEvents, last <= newest,
           QueueFits(q, last, newest)
    PROVE  QueueFits(Enqueue(q, newest + 1), last, newest + 1)
<1>1. /\ q \in Seq(Delivery) /\ Len(q) \in Nat /\ MaxPending \in Nat /\ MaxEvents \in Nat
      /\ Len(q) <= MaxPending
      /\ \A i \in 1..Len(q) : q[i] \in Delivery /\ q[i].event \in Nat
  <2>1. q \in Seq(Delivery) /\ Len(q) <= MaxPending
    BY DEF QueueFits
  <2>2. Len(q) \in Nat /\ \A i \in 1..Len(q) : q[i] \in Delivery
    BY <2>1
  <2>3. QED
    BY <2>1, <2>2, DeliveryIs, WebhooksAssumption
<1>2. /\ \A i \in 1..Len(q) : last <= q[i].event /\ q[i].event <= newest
      /\ \A i, j \in 1..Len(q) : i < j => q[i].event < q[j].event
  BY DEF QueueFits
<1>3. CASE Len(q) >= MaxPending
  <2>1. Enqueue(q, newest + 1) = q
    BY <1>3 DEF Enqueue
  <2>2. \A i \in 1..Len(q) : q[i].event <= newest + 1
    BY <1>1, <1>2
  <2>3. QED
    BY <1>1, <1>2, <2>1, <2>2 DEF QueueFits
<1>4. CASE ~(Len(q) >= MaxPending)
  <2> DEFINE d == [event |-> newest + 1, attempts |-> 0]
             p == Append(q, d)
  <2>1. Enqueue(q, newest + 1) = p
    BY <1>4 DEF Enqueue
  <2>2. d \in Delivery /\ d.event = newest + 1
    BY <1>1 DEF Delivery, MaxAttempts
  <2> HIDE DEF d
  <2>3. /\ p \in Seq(Delivery) /\ Len(p) = Len(q) + 1 /\ p[Len(q) + 1] = d
        /\ \A i \in 1..Len(q) : p[i] = q[i]
    BY <1>1, <2>2
  <2> HIDE DEF p
  <2>4. Len(p) <= MaxPending
    BY <1>1, <1>4, <2>3
  <2>5. \A i \in 1..Len(p) : i \in 1..Len(q) \/ i = Len(q) + 1
    BY <1>1, <2>3
  <2>6. \A i \in 1..Len(p) : last <= p[i].event /\ p[i].event <= newest + 1
    <3> SUFFICES ASSUME NEW i \in 1..Len(p)
                 PROVE  last <= p[i].event /\ p[i].event <= newest + 1
      OBVIOUS
    <3>1. CASE i \in 1..Len(q)
      <4>1. p[i] = q[i] /\ last <= q[i].event /\ q[i].event <= newest /\ q[i].event \in Nat
        BY <1>1, <1>2, <2>3, <3>1
      <4>2. QED
        BY <4>1
    <3>2. CASE i = Len(q) + 1
      BY <2>2, <2>3, <3>2
    <3>3. QED
      BY <2>5, <3>1, <3>2
  <2>7. ASSUME NEW i \in 1..Len(p), NEW j \in 1..Len(p), i < j
        PROVE  p[i].event < p[j].event
    <3>1. i \in 1..Len(q)
      BY <1>1, <2>3, <2>7
    <3>2. p[i] = q[i] /\ q[i].event <= newest /\ q[i].event \in Nat
      BY <1>1, <1>2, <2>3, <3>1
    <3>3. CASE j \in 1..Len(q)
      BY <1>2, <2>3, <2>7, <3>1, <3>2, <3>3
    <3>4. CASE j = Len(q) + 1
      <4>1. p[j].event = newest + 1
        BY <2>2, <2>3, <3>4
      <4>2. QED
        BY <3>2, <4>1
    <3>5. QED
      BY <2>5, <3>3, <3>4
  <2>8. QED
    BY <2>1, <2>3, <2>4, <2>6, <2>7 DEF QueueFits
<1>5. QED
  BY <1>3, <1>4

\* The first of a queue may arrive, be settled or be retried.
LEMMA FirstFits ==
    ASSUME NEW q, NEW last \in Nat, NEW newest \in Nat, QueueFits(q, last, newest), q # <<>>
    PROVE  /\ Head(q) \in Delivery /\ Head(q).event \in Nat
           /\ Head(q).event \in 1..MaxEvents /\ Head(q).event <= newest
           /\ \A new \in {last, Head(q).event} :
                 /\ QueueFits(Tail(q), new, newest)
                 /\ ~IsLast(Head(q)) => QueueFits(Retry(q), new, newest)
<1>1. /\ q \in Seq(Delivery) /\ Len(q) \in Nat /\ Len(q) # 0 /\ Head(q) = q[1]
      /\ \A i \in 1..Len(q) : q[i] \in Delivery
  BY DEF QueueFits
<1>2. /\ \A i \in 1..Len(q) : last <= q[i].event /\ q[i].event <= newest
      /\ \A i, j \in 1..Len(q) : i < j => q[i].event < q[j].event
      /\ Len(q) <= MaxPending /\ MaxPending \in Nat
  BY WebhooksAssumption DEF QueueFits
<1>3. \A i \in 1..Len(q) : q[i].event \in Nat /\ q[i].event \in 1..MaxEvents
  BY <1>1, DeliveryIs
<1>4. 1 \in 1..Len(q)
  BY <1>1
<1>5. /\ Head(q) \in Delivery /\ Head(q).event \in Nat
      /\ Head(q).event \in 1..MaxEvents /\ Head(q).event <= newest
  BY <1>1, <1>2, <1>3, <1>4
<1>6. \A i \in 1..Len(q) : Head(q).event <= q[i].event
  <2> SUFFICES ASSUME NEW i \in 1..Len(q)
               PROVE  Head(q).event <= q[i].event
    OBVIOUS
  <2>1. CASE i = 1
    BY <1>1, <1>3, <2>1
  <2>2. CASE i # 1
    <3>1. 1 < i
      BY <1>1, <2>2
    <3>2. q[1].event < q[i].event /\ q[1].event \in Nat /\ q[i].event \in Nat
      BY <1>2, <1>3, <1>4, <3>1
    <3>3. QED
      BY <1>1, <3>2
  <2>3. QED
    BY <2>1, <2>2
<1>7. ASSUME NEW new \in {last, Head(q).event}
      PROVE  QueueFits(Tail(q), new, newest)
  <2> DEFINE p == Tail(q)
  <2>1. /\ p \in Seq(Delivery) /\ Len(p) = Len(q) - 1
        /\ \A i \in 1..Len(p) : p[i] = q[i + 1] /\ i + 1 \in 1..Len(q)
    BY <1>1
  <2> HIDE DEF p
  <2>2. Len(p) <= MaxPending
    BY <1>1, <1>2, <2>1
  <2>3. \A i \in 1..Len(p) : new <= p[i].event /\ p[i].event <= newest
    BY <1>2, <1>6, <2>1
  <2>4. ASSUME NEW i \in 1..Len(p), NEW j \in 1..Len(p), i < j
        PROVE  p[i].event < p[j].event
    <3>1. i + 1 < j + 1
      BY <1>1, <2>1, <2>4
    <3>2. QED
      BY <1>2, <2>1, <3>1
  <2>5. QED
    BY <2>1, <2>2, <2>3, <2>4 DEF QueueFits, p
<1>8. ASSUME NEW new \in {last, Head(q).event}, ~IsLast(Head(q))
      PROVE  QueueFits(Retry(q), new, newest)
  <2> DEFINE d == [q[1] EXCEPT !.attempts = @ + 1]
             p == Retry(q)
  <2>1. q[1].attempts \in 0..2 /\ q[1].attempts # 2 /\ q[1] \in Delivery
    BY <1>1, <1>4, <1>8, DeliveryIs DEF IsLast, MaxAttempts
  <2>2. d = [event |-> q[1].event, attempts |-> q[1].attempts + 1]
    BY <2>1 DEF Delivery
  <2>3. q[1].attempts + 1 \in 0..2 /\ q[1].event \in 1..MaxEvents
    BY <1>3, <1>4, <2>1
  <2>4. d \in Delivery /\ d.event = q[1].event
    BY <2>2, <2>3 DEF Delivery, MaxAttempts
  <2>5. p = [q EXCEPT ![1] = d]
    BY <1>1 DEF Retry
  <2> HIDE DEF d, p
  <2>6. /\ p \in Seq(Delivery) /\ Len(p) = Len(q)
        /\ \A i \in 1..Len(q) : p[i].event = q[i].event
    BY <1>1, <1>4, <2>4, <2>5
  <2>7. QED
    BY <1>2, <1>6, <2>6 DEF QueueFits, p
<1>9. QED
  BY <1>5, <1>7, <1>8

\* A delivery of w that goes on or is over.
LEMMA DeliverKeeps ==
    ASSUME WInv, NEW w \in Hooks, Deliver(w)
    PROVE  WInv'
<1>1. /\ queue[w] # <<>> /\ UNCHANGED <<hooks, events, edits>>
  BY DEF Deliver, Answered, NotRendered, Failed
<1>2. /\ DOMAIN queue = Hooks /\ arrived \in [Hooks -> 0..MaxEvents] /\ events \in Nat
      /\ result \in [Hooks -> [event : 0..MaxEvents, ok : BOOLEAN]]
      /\ arrived[w] \in Nat /\ QueueFits(queue[w], arrived[w], events) /\ arrived[w] <= events
      /\ MaxEvents \in Nat
  BY WTypes DEF WInv
<1> DEFINE first == Head(queue[w])
<1>3. /\ first.event \in Nat /\ first.event \in 1..MaxEvents /\ first.event <= events
      /\ \A new \in {arrived[w], first.event} :
            /\ QueueFits(Tail(queue[w]), new, events)
            /\ ~IsLast(first) => QueueFits(Retry(queue[w]), new, events)
  BY <1>1, <1>2, FirstFits
<1>4. PICK new \in {arrived[w], first.event} : arrived' = [arrived EXCEPT ![w] = new]
  <2>1. arrived = [arrived EXCEPT ![w] = arrived[w]]
    BY <1>2
  <2>2. QED
    BY <2>1 DEF Deliver, Answered, NotRendered, Failed, Arrive
<1>5. PICK rest : /\ queue' = [queue EXCEPT ![w] = rest]
                  /\ QueueFits(rest, new, events)
  <2>1. CASE \E ok \in BOOLEAN : Settle(w, ok)
    <3>1. queue' = [queue EXCEPT ![w] = Tail(queue[w])]
      BY <2>1 DEF Settle
    <3>2. QED
      BY <1>3, <3>1
  <2>2. CASE ~IsLast(first) /\ queue' = [queue EXCEPT ![w] = Retry(@)]
    BY <1>3, <2>2
  <2>3. QED
    BY <2>1, <2>2 DEF Deliver, Answered, NotRendered, Failed
<1>6. result' \in [Hooks -> [event : 0..MaxEvents, ok : BOOLEAN]]
  <2>1. ASSUME NEW ok \in BOOLEAN, Settle(w, ok)
        PROVE  result' \in [Hooks -> [event : 0..MaxEvents, ok : BOOLEAN]]
    <3>1. first.event \in 0..MaxEvents
      BY <1>3
    <3> HIDE DEF first
    <3>2. [event |-> first.event, ok |-> ok] \in [event : 0..MaxEvents, ok : BOOLEAN]
      BY <3>1
    <3>3. result' = result \/ result' = [result EXCEPT ![w] = [event |-> first.event, ok |-> ok]]
      BY <2>1 DEF Settle, first
    <3>4. QED
      BY <1>2, <3>2, <3>3
  <2>2. QED
    BY <1>2, <2>1 DEF Deliver, Answered, NotRendered, Failed
<1> HIDE DEF first
<1>7. new \in 0..MaxEvents /\ new <= events
  BY <1>2, <1>3, <1>4
<1>8. arrived' \in [Hooks -> 0..MaxEvents] /\ arrived'[w] = new
      /\ \A v \in Hooks : v # w => arrived'[v] = arrived[v]
  BY <1>2, <1>4, <1>7
<1>9. DOMAIN queue' = Hooks /\ queue'[w] = rest /\ queue' = [v \in Hooks |-> queue'[v]]
      /\ \A v \in Hooks : v # w => queue'[v] = queue[v]
  BY <1>2, <1>5
<1>10. ASSUME NEW v \in Hooks
       PROVE  arrived'[v] <= events /\ QueueFits(queue'[v], arrived'[v], events)
  <2>1. CASE v = w
    BY <1>5, <1>7, <1>8, <1>9, <2>1
  <2>2. CASE v # w
    BY <1>8, <1>9, <2>2 DEF WInv
  <2>3. QED
    BY <2>1, <2>2
<1>11. QED
  BY <1>1, <1>6, <1>8, <1>9, <1>10 DEF WInv

LEMMA DispatchKeeps ==
    ASSUME WInv, NEW kind \in Kinds, Dispatch(kind)
    PROVE  WInv'
<1>1. /\ events < MaxEvents /\ events' = events + 1
      /\ queue' = [w \in Hooks |-> IF Accepts(w, kind) THEN Enqueue(queue[w], events + 1)
                                   ELSE queue[w]]
      /\ UNCHANGED <<hooks, arrived, result, edits>>
  BY DEF Dispatch
<1>2. events \in Nat /\ MaxEvents \in Nat
  BY WTypes
<1>3. ASSUME NEW w \in Hooks
      PROVE  arrived[w] <= events + 1 /\ QueueFits(queue'[w], arrived[w], events + 1)
  <2>1. arrived[w] \in Nat /\ arrived[w] <= events /\ QueueFits(queue[w], arrived[w], events)
    BY WTypes DEF WInv
  <2>2. CASE Accepts(w, kind)
    <3>1. queue'[w] = Enqueue(queue[w], events + 1)
      BY <1>1, <2>2
    <3>2. QueueFits(Enqueue(queue[w], events + 1), arrived[w], events + 1)
      BY <1>1, <1>2, <2>1, EnqueueFits
    <3>3. QED
      BY <1>2, <2>1, <3>1, <3>2
  <2>3. CASE ~Accepts(w, kind)
    <3>1. queue'[w] = queue[w]
      BY <1>1, <2>3
    <3>2. \A i \in 1..Len(queue[w]) : queue[w][i].event <= events + 1
      <4>1. \A i \in 1..Len(queue[w]) : queue[w][i] \in Delivery /\ queue[w][i].event <= events
        BY <2>1 DEF QueueFits
      <4>2. QED
        BY <1>2, <4>1, DeliveryIs
    <3>3. QED
      BY <1>2, <2>1, <3>1, <3>2 DEF QueueFits
  <2>4. QED
    BY <2>2, <2>3
<1>4. events' \in 0..MaxEvents
  BY <1>1, <1>2
<1>5. DOMAIN queue' = Hooks /\ queue' = [w \in Hooks |-> queue'[w]]
  BY <1>1
<1>6. QED
  BY <1>1, <1>3, <1>4, <1>5 DEF WInv

LEMMA EmptyFits == \A last, newest : QueueFits(<<>>, last, newest)
BY WebhooksAssumption DEF QueueFits

LEMMA EditsKeep ==
    ASSUME WInv, RestartServer \/ \E w \in Hooks, rec \in HookRows : Edit(w, rec)
    PROVE  WInv'
<1>1. edits' \in 0..MaxEdits /\ UNCHANGED <<events, arrived, result>>
  <2>1. edits \in 0..MaxEdits /\ MaxEdits \in Nat
    BY WTypes DEF WInv
  <2>2. edits < MaxEdits /\ edits' = edits + 1 /\ UNCHANGED <<events, arrived, result>>
    BY DEF RestartServer, Edit
  <2>3. QED
    BY <2>1, <2>2
<1>2. CASE RestartServer
  <2>1. queue' = [w \in Hooks |-> <<>>] /\ UNCHANGED hooks
    BY <1>2 DEF RestartServer
  <2>2. DOMAIN queue' = Hooks /\ queue' = [w \in Hooks |-> queue'[w]]
        /\ \A w \in Hooks : queue'[w] = <<>>
    BY <2>1
  <2>3. QED
    BY <1>1, <2>1, <2>2, EmptyFits DEF WInv
<1>3. CASE \E w \in Hooks, rec \in HookRows : Edit(w, rec)
  <2>1. UNCHANGED queue /\ hooks' \in [Hooks -> HookRows]
    BY <1>3 DEF Edit, WInv
  <2>2. QED
    BY <1>1, <2>1 DEF WInv
<1>4. QED
  BY <1>2, <1>3

\* A target is sent its events in the order they were dispatched, and no queue
\* outgrows its limit, however often a delivery is tried and whatever is edited
\* or restarted meanwhile (WebhookService dispatch, drain and deliver).
THEOREM EventsArriveInOrder == WebhooksSpec => []DeliveriesKept
<1>1. WebhooksInit => WInv
  <2> SUFFICES ASSUME WebhooksInit
               PROVE  WInv
    OBVIOUS
  <2>1. hooks \in [Hooks -> HookRows]
    <3>1. [enabled |-> TRUE, kinds |-> Kinds] \in HookRows
      BY WebhooksAssumption DEF HookRows
    <3>2. QED
      BY <3>1 DEF WebhooksInit
  <2>2. /\ events \in 0..MaxEvents /\ edits \in 0..MaxEdits /\ arrived \in [Hooks -> 0..MaxEvents]
    BY WebhooksAssumption DEF WebhooksInit
  <2>3. result \in [Hooks -> [event : 0..MaxEvents, ok : BOOLEAN]]
    BY WebhooksAssumption DEF WebhooksInit, NoResult
  <2>4. DOMAIN queue = Hooks /\ queue = [w \in Hooks |-> queue[w]]
        /\ \A w \in Hooks : queue[w] = <<>> /\ arrived[w] <= events
    BY DEF WebhooksInit
  <2>5. QED
    BY <2>1, <2>2, <2>3, <2>4, EmptyFits DEF WInv
<1>2. WInv /\ [WebhooksNext]_webhooksVars => WInv'
  <2> SUFFICES ASSUME WInv, [WebhooksNext]_webhooksVars
               PROVE  WInv'
    OBVIOUS
  <2>1. CASE UNCHANGED webhooksVars
    BY <2>1 DEF webhooksVars, WInv
  <2>2. CASE WebhooksNext
    BY <2>2, DispatchKeeps, DeliverKeeps, EditsKeep DEF WebhooksNext
  <2>3. QED
    BY <2>1, <2>2
<1>3. WInv => DeliveriesKept
  <2> SUFFICES ASSUME WInv
               PROVE  DeliveriesKept
    OBVIOUS
  <2>1. ASSUME NEW w \in Hooks
        PROVE  queue[w] \in BoundedSeq(Delivery, MaxPending)
    <3>1. queue[w] \in Seq(Delivery) /\ Len(queue[w]) <= MaxPending /\ MaxPending \in Nat
      BY WTypes DEF WInv, QueueFits
    <3>2. Len(queue[w]) \in 0..MaxPending /\ queue[w] \in [1..Len(queue[w]) -> Delivery]
      BY <3>1
    <3>3. QED
      BY <3>2 DEF BoundedSeq, SeqOf
  <2>2. WebhooksTypeOK
    BY <2>1 DEF WInv, WebhooksTypeOK
  <2>3. ArrivesInOrder
    BY DEF WInv, QueueFits, ArrivesInOrder
  <2>4. QED
    BY <2>2, <2>3 DEF DeliveriesKept
<1>4. QED
  BY <1>1, <1>2, <1>3, PTL DEF WebhooksSpec

-----------------------------------------------------------------------------
(***************************************************************************)
(* Credentials: the inductive invariant.  A copy goes round: it is cached, *)
(* patched or completed, sent and stored, so all of them have to hold what *)
(* the stored one does; what comes from a browser does not.                *)
(***************************************************************************)
Confirmed == Trusted \cup confirmed
CopyRow == [login : {"managed", "old"}, print : Confirmed, secret : Nat, enabled : BOOLEAN, key : Nat]

\* A copy has its own login's secret, and a key exactly if it encrypts.
RightSecret(c) == IF c.login = "old" THEN c.secret = Copies!OldSecret ELSE c.secret \in 1..MaxSecrets
Whole(c) == c \in CopyRow /\ RightSecret(c) /\ (c.enabled <=> c.key # Copies!NoKey)

\* What the form holds has no secret, and what it sends has that of the managed
\* repository if any, and no key that it does not use.
Drafted(c) == c \in CopyRow /\ c.secret = Copies!Redacted
Entered(c) == /\ c \in CopyRow
              /\ c.secret # Copies!Redacted => c.login = "managed" /\ c.secret \in 1..MaxSecrets
              /\ ~c.enabled => c.key = Copies!NoKey

Wholes == {c \in CopyRow : Whole(c)}
Drafts == {c \in CopyRow : Drafted(c)}
Entries == {c \in CopyRow : Entered(c)}
AtMost(S) == {<<>>} \cup {<<x>> : x \in S}

CopiesKept == /\ Whole(job) /\ cached \in AtMost(Wholes) /\ rollout \in AtMost(Wholes)
              /\ toAgent \in Seq(Wholes)
FormsKept == /\ form \in [open : BOOLEAN, job : Drafts, held : BOOLEAN, generating : BOOLEAN]
             /\ saving \in AtMost(Entries)
RowKept == repository \in AtMost([print : Confirmed, secret : 1..MaxSecrets])
RunKept == run \in [stage : {"none", "probing", "pinned"}, tunnelled : BOOLEAN, stored : Confirmed, pin : Confirmed]
CInv == NoCert \in confirmed /\ keys \in Nat /\ CopiesKept /\ FormsKept /\ RowKept /\ RunKept

\* What a fingerprint says of a record, field by field.
LEMMA CopyFields ==
  ASSUME NEW c
  PROVE  /\ c \in CopyRow => /\ c = [login |-> c.login, print |-> c.print, secret |-> c.secret,
                                     enabled |-> c.enabled, key |-> c.key]
                             /\ c.login \in {"managed", "old"} /\ c.print \in Confirmed
                             /\ c.secret \in Nat /\ c.enabled \in BOOLEAN /\ c.key \in Nat
         /\ \A l \in {"managed", "old"}, p \in Confirmed, s, k \in Nat, e \in BOOLEAN :
              [login |-> l, print |-> p, secret |-> s, enabled |-> e, key |-> k] \in CopyRow
BY DEF CopyRow

LEMMA CopyMade ==
  ASSUME CredentialsAssumption,
         NEW l \in {"managed", "old"}, NEW p \in Confirmed, NEW s \in Nat, NEW e \in BOOLEAN, NEW k \in Nat,
         IF l = "old" THEN s = Copies!OldSecret ELSE s \in 1..MaxSecrets, e <=> k # 0
  PROVE  Whole([login |-> l, print |-> p, secret |-> s, enabled |-> e, key |-> k])
BY DEF Whole, CopyRow, RightSecret, Copies!NoKey

\* Distributed, a copy stays whole.
LEMMA PatchedWhole ==
  ASSUME CredentialsAssumption, NEW c, Whole(c), NEW r \in [print : Confirmed, secret : 1..MaxSecrets]
  PROVE  Whole(Copies!Patched(c, r))
<1> DEFINE on == c.enabled
           k == c.key
<1>1. c \in CopyRow /\ (on <=> k # 0)
  BY DEF Whole, Copies!NoKey
<1>2. c = [login |-> c.login, print |-> c.print, secret |-> c.secret, enabled |-> on, key |-> k]
      /\ on \in BOOLEAN /\ k \in Nat
  BY <1>1, CopyFields
<1>3. Copies!Patched(c, r) = [login |-> "managed", print |-> r.print, secret |-> r.secret, enabled |-> on, key |-> k]
  <2> DEFINE c1 == [c EXCEPT !.login = "managed"]
             c2 == [c1 EXCEPT !.print = r.print]
             c3 == [c2 EXCEPT !.secret = r.secret]
  <2>1. Copies!Patched(c, r) = c3
    BY Zenon DEF Copies!Patched
  <2> HIDE DEF on, k, c1, c2, c3
  <2>2. c1 = [login |-> "managed", print |-> c.print, secret |-> c.secret, enabled |-> on, key |-> k]
    BY <1>2 DEF c1
  <2>3. c2 = [login |-> "managed", print |-> r.print, secret |-> c.secret, enabled |-> on, key |-> k]
    BY <2>2 DEF c2
  <2>4. c3 = [login |-> "managed", print |-> r.print, secret |-> r.secret, enabled |-> on, key |-> k]
    BY <2>3 DEF c3
  <2>5. QED
    BY <2>1, <2>4
<1>4. r.print \in Confirmed /\ r.secret \in 1..MaxSecrets /\ r.secret \in Nat
  BY DEF CredentialsAssumption
<1> HIDE DEF on, k
<1>5. QED
  BY <1>1, <1>2, <1>3, <1>4, CopyMade

\* What the form sends, with the managed repository's secret.
LEMMA EnteredByForm ==
  ASSUME CredentialsAssumption, RowKept, NEW f, f.job \in CopyRow, Drafted(f.job)
  PROVE  Entered(Copies!WithSecret(Copies!Submitted(f)))
<1> DEFINE j == f.job
           on == j.enabled
           l == j.login
           s == IF l = "managed" /\ repository # <<>> THEN repository[1].secret ELSE 0
           k == IF on THEN j.key ELSE 0
<1>1. /\ j = [login |-> l, print |-> j.print, secret |-> j.secret, enabled |-> on, key |-> j.key]
      /\ l \in {"managed", "old"} /\ j.print \in Confirmed /\ on \in BOOLEAN /\ k \in Nat
  BY CopyFields
<1>2. Copies!WithSecret(Copies!Submitted(f)) =
        [login |-> l, print |-> j.print, secret |-> s, enabled |-> on, key |-> k]
  <2>1. Copies!Submitted(f) = [login |-> l, print |-> j.print, secret |-> j.secret, enabled |-> on, key |-> k]
    <3>1. Copies!Submitted(f) = [j EXCEPT !.key = k]
      BY Zenon DEF Copies!Submitted, Copies!NoKey
    <3> HIDE DEF on, l, k, j
    <3>2. QED
      BY <1>1, <3>1
  <2> HIDE DEF on, l, k
  <2>2. QED
    BY <2>1 DEF Copies!WithSecret, Copies!Redacted
<1>3. s \in Nat /\ (s # 0 => l = "managed" /\ s \in 1..MaxSecrets) /\ (~on => k = 0)
  BY DEF RowKept, AtMost, CredentialsAssumption
<1> HIDE DEF on, l, k, s, j
<1>4. QED
  <2> DEFINE x == [login |-> l, print |-> j.print, secret |-> s, enabled |-> on, key |-> k]
  <2>1. x \in CopyRow
    BY <1>1, <1>3, CopyFields
  <2>2. x.login = l /\ x.secret = s /\ x.key = k /\ x.enabled = on
    OBVIOUS
  <2> HIDE DEF x
  <2>3. Entered(x)
    BY <2>1, <2>2, <1>3 DEF Entered, Copies!Redacted, Copies!NoKey
  <2>4. QED
    BY <2>3, <1>2 DEF x

\* What is sent has its secret and its key, whichever copy they were kept in.
LEMMA CompletedWhole ==
  ASSUME CredentialsAssumption, NEW j, Entered(j), NEW old, Whole(old),
         ~Copies!Refused(Copies!Completed(j, old))
  PROVE  Whole(Copies!Completed(j, old))
<1> DEFINE on == j.enabled
           l == j.login
           s == IF j.secret = 0 /\ old.login = l THEN old.secret ELSE j.secret
           k == IF on /\ j.key = 0 THEN old.key ELSE j.key
           x == Copies!Completed(j, old)
<1>1. /\ j = [login |-> l, print |-> j.print, secret |-> j.secret, enabled |-> on, key |-> j.key]
      /\ l \in {"managed", "old"} /\ j.print \in Confirmed /\ on \in BOOLEAN /\ j.key \in Nat /\ j.secret \in Nat
  BY CopyFields DEF Entered
<1>2. /\ old.login \in {"managed", "old"} /\ old.key \in Nat /\ old.secret \in Nat
  BY CopyFields DEF Whole
<1>3. x = [login |-> l, print |-> j.print, secret |-> s, enabled |-> on, key |-> k]
  <2> DEFINE c1 == [j EXCEPT !.secret = s]
             c2 == [c1 EXCEPT !.key = k]
  <2>1. x = c2
    BY Zenon DEF Copies!Completed, Copies!KeepsSecret, Copies!KeepsKey, Copies!Redacted, Copies!NoKey
  <2> HIDE DEF on, l, s, k, x, c1, c2
  <2>2. c1 = [login |-> l, print |-> j.print, secret |-> s, enabled |-> on, key |-> j.key]
    BY <1>1 DEF c1
  <2>3. c2 = [login |-> l, print |-> j.print, secret |-> s, enabled |-> on, key |-> k]
    BY <2>2 DEF c2
  <2>4. QED
    BY <2>1, <2>3
<1>4. x.secret = s /\ x.key = k /\ x.enabled = on
  <2> HIDE DEF x, s, k, on
  <2>1. QED
    BY <1>3
<1>5. s # 0 /\ ~(on /\ k = 0)
  BY <1>4, Zenon DEF Copies!Refused, Copies!KeepsSecret, Copies!KeepsKey, Copies!Redacted, Copies!NoKey
<1>6. (j.secret # 0 => l = "managed" /\ j.secret \in 1..MaxSecrets) /\ (~on => j.key = 0)
  BY DEF Entered, Copies!Redacted, Copies!NoKey
<1>7. s \in Nat /\ k \in Nat /\ (IF l = "old" THEN s = Copies!OldSecret ELSE s \in 1..MaxSecrets) /\ (on <=> k # 0)
  <2>1. old.login = "old" => old.secret = Copies!OldSecret
    BY DEF Whole, RightSecret
  <2>2. old.login = "managed" => old.secret \in 1..MaxSecrets
    BY DEF Whole, RightSecret
  <2>3. QED
    BY <1>1, <1>2, <1>5, <1>6, <2>1, <2>2
<1> HIDE DEF s, k, on, l, x
<1>8. QED
  BY <1>1, <1>3, <1>7, CopyMade DEF x

\* Unless it lacks something, what was entered is whole as it is.
LEMMA EnteredWhole ==
  ASSUME CredentialsAssumption, NEW j, Entered(j), ~Copies!Refused(j)
  PROVE  Whole(j)
<1> DEFINE on == j.enabled
           k == j.key
<1>1. j \in CopyRow /\ (j.secret # 0 => j.login = "managed" /\ j.secret \in 1..MaxSecrets)
  BY DEF Entered, Copies!Redacted
<1>2. ~on => k = 0
  BY DEF Entered, Copies!NoKey
<1>3. j.secret # 0 /\ ~(on /\ k = 0)
  BY DEF Copies!Refused, Copies!KeepsSecret, Copies!KeepsKey, Copies!Redacted, Copies!NoKey
<1>4. RightSecret(j)
  BY <1>1, <1>3 DEF RightSecret
<1>5. on <=> k # 0
  BY <1>2, <1>3
<1>6. QED
  BY <1>1, <1>4, <1>5 DEF Whole, Copies!NoKey

-----------------------------------------------------------------------------
(***************************************************************************)
(* The steps.  The sets depend on nothing but what is confirmed.           *)
(***************************************************************************)
LEMMA OthersKept ==
  ASSUME CInv, confirmed' = confirmed
  PROVE  /\ UNCHANGED <<job, cached, rollout, toAgent>> => CopiesKept'
         /\ UNCHANGED <<form, saving>> => FormsKept'
         /\ UNCHANGED repository => RowKept'
         /\ UNCHANGED run => RunKept'
         /\ Confirmed' = Confirmed /\ CopyRow' = CopyRow /\ Wholes' = Wholes
         /\ Drafts' = Drafts /\ Entries' = Entries
<1>1. Confirmed' = Confirmed /\ CopyRow' = CopyRow
  BY DEF Confirmed, CopyRow
<1>2. \A c : (Whole(c)' <=> Whole(c)) /\ (Drafted(c)' <=> Drafted(c)) /\ (Entered(c)' <=> Entered(c))
  BY <1>1 DEF Whole, RightSecret, Drafted, Entered, Copies!OldSecret, Copies!NoKey, Copies!Redacted
<1>3. Wholes' = Wholes /\ Drafts' = Drafts /\ Entries' = Entries
  BY <1>1, <1>2 DEF Wholes, Drafts, Entries
<1>4. QED
  BY <1>1, <1>2, <1>3 DEF CInv, CopiesKept, FormsKept, RowKept, RunKept, AtMost

LEMMA SessionKeeps ==
  ASSUME CredentialsAssumption, CInv,
         Copies!Connect \/ Copies!Disconnect \/ Copies!RestartServer \/ Copies!Refresh \/ Copies!AgentSaves
  PROVE  CInv'
<1>1. confirmed' = confirmed /\ UNCHANGED <<form, repository, run, keys>>
  BY DEF Copies!Connect, Copies!Disconnect, Copies!RestartServer, Copies!Refresh, Copies!AgentSaves, Copies!past
<1>2. CopiesKept' /\ saving' \in {<<>>, saving}
  <2>1. CASE Copies!Connect
    BY <2>1, <1>1, OthersKept DEF Copies!Connect
  <2>2. CASE Copies!Disconnect \/ Copies!RestartServer
    <3>1. job' = job /\ cached' = <<>> /\ rollout' = <<>> /\ toAgent' = <<>> /\ saving' = <<>>
      BY <2>2 DEF Copies!Disconnect, Copies!RestartServer
    <3>2. <<>> \in Seq(Wholes) /\ <<>> \in AtMost(Wholes)
      BY DEF AtMost
    <3>3. Whole(job)'
      BY <3>1, <1>1 DEF CInv, CopiesKept, Whole, CopyRow, Confirmed, RightSecret, Copies!OldSecret, Copies!NoKey
    <3>4. QED
      BY <3>1, <3>2, <3>3, <1>1, OthersKept DEF CopiesKept, AtMost
  <2>3. CASE Copies!Refresh
    <3>1. job \in Wholes /\ UNCHANGED <<job, rollout, toAgent, saving>> /\ cached' = <<job>>
      BY <2>3 DEF CInv, CopiesKept, Wholes, Whole, Copies!Refresh
    <3>2. QED
      BY <3>1, <1>1, OthersKept DEF CInv, CopiesKept, AtMost, Wholes
  <2>4. CASE Copies!AgentSaves
    <3>1. Head(toAgent) \in Wholes /\ Tail(toAgent) \in Seq(Wholes)
      BY <2>4 DEF Copies!AgentSaves, CInv, CopiesKept
    <3>2. job' = Head(toAgent) /\ toAgent' = Tail(toAgent) /\ UNCHANGED <<cached, rollout, saving>>
      BY <2>4 DEF Copies!AgentSaves
    <3>3. QED
      BY <3>1, <3>2, <1>1, OthersKept DEF CInv, CopiesKept, AtMost, Wholes
  <2>5. QED
    BY <2>1, <2>2, <2>3, <2>4
<1>3. FormsKept'
  BY <1>1, <1>2, OthersKept DEF CInv, FormsKept, AtMost
<1>4. QED
  BY <1>1, <1>2, <1>3, OthersKept DEF CInv

LEMMA EditorKeeps ==
  ASSUME CInv,
         Copies!Renew \/ Copies!OpenEditor \/ Copies!CheckCertificate \/ Copies!Adopt \/ Copies!CloseEditor
  PROVE  CInv'
<1>1. confirmed' = confirmed
      /\ UNCHANGED <<job, cached, rollout, toAgent, form, saving, repository, run, keys>>
  BY DEF Copies!Renew, Copies!OpenEditor, Copies!CheckCertificate, Copies!Adopt, Copies!CloseEditor
<1>2. QED
  BY <1>1, OthersKept DEF CInv

\* What an operator stores is confirmed from then on.
LEMMA SaveRepositoryKeeps ==
  ASSUME CredentialsAssumption, CInv, Copies!SaveRepository
  PROVE  CInv'
<1>1. /\ confirmed' = confirmed \cup {editor.print}
      /\ UNCHANGED <<job, cached, rollout, toAgent, form, saving, run, keys>>
  BY DEF Copies!SaveRepository
<1>2. PICK typed \in BOOLEAN : /\ repository # <<>> /\ (typed => repository[1].secret < MaxSecrets)
                              /\ repository' = <<Copies!Updated(repository[1], editor.print, typed)>>
  BY DEF Copies!SaveRepository
<1>3. Confirmed \subseteq Confirmed' /\ editor.print \in Confirmed'
  BY <1>1 DEF Confirmed
<1>4. CopyRow \subseteq CopyRow'
  BY <1>3 DEF CopyRow
<1>5. /\ \A c : (Whole(c) => Whole(c)') /\ (Drafted(c) => Drafted(c)') /\ (Entered(c) => Entered(c)')
      /\ Wholes \subseteq Wholes' /\ Drafts \subseteq Drafts' /\ Entries \subseteq Entries'
  <2>1. ASSUME NEW c
        PROVE  (Whole(c) => Whole(c)') /\ (Drafted(c) => Drafted(c)') /\ (Entered(c) => Entered(c)')
    BY <1>4 DEF Whole, RightSecret, Drafted, Entered, Copies!OldSecret, Copies!NoKey, Copies!Redacted
  <2>2. QED
    BY <1>4, <2>1 DEF Wholes, Drafts, Entries
<1>6. CopiesKept'
  <2>1. Whole(job)'
    BY <1>1, <1>5 DEF CInv, CopiesKept
  <2>2. toAgent' \in Seq(Wholes')
    BY <1>1, <1>5 DEF CInv, CopiesKept
  <2>3. QED
    BY <1>1, <1>5, <2>1, <2>2 DEF CInv, CopiesKept, AtMost
<1>7. FormsKept'
  BY <1>1, <1>5 DEF CInv, FormsKept, AtMost
<1>8. RunKept'
  BY <1>1, <1>3 DEF CInv, RunKept
<1>9. RowKept'
  <2> DEFINE s == repository[1].secret
             t == IF typed THEN s + 1 ELSE s
  <2>1. s \in 1..MaxSecrets
    BY <1>2 DEF CInv, RowKept, AtMost
  <2>2. t \in 1..MaxSecrets
    BY <2>1, <1>2 DEF CredentialsAssumption
  <2>3. repository' = <<[print |-> editor.print, secret |-> t]>>
    BY <1>2 DEF Copies!Updated
  <2> HIDE DEF t
  <2>4. QED
    BY <2>2, <2>3, <1>3 DEF RowKept, AtMost
<1>10. QED
  BY <1>1, <1>6, <1>7, <1>8, <1>9 DEF CInv

LEMMA RolloutKeeps ==
  ASSUME CredentialsAssumption, CInv,
         Copies!DeleteRepository \/ Copies!Distribute \/ Copies!RollOut
  PROVE  CInv'
<1>1. /\ confirmed' = confirmed /\ UNCHANGED <<job, cached, form, saving, run, keys>>
      /\ repository' \in {repository, <<>>}
  BY DEF Copies!DeleteRepository, Copies!Distribute, Copies!RollOut, Copies!past
<1>2. CASE Copies!DeleteRepository
  BY <1>1, <1>2, OthersKept DEF CInv, RowKept, AtMost, Copies!DeleteRepository
<1>3. CASE Copies!Distribute
  <2>1. /\ repository' = repository /\ toAgent' = toAgent /\ repository # <<>> /\ cached # <<>>
        /\ rollout' = <<Copies!Patched(cached[1], repository[1])>>
    BY <1>3 DEF Copies!Distribute
  <2>2. Whole(cached[1]) /\ repository[1] \in [print : Confirmed, secret : 1..MaxSecrets]
    BY <2>1 DEF CInv, CopiesKept, RowKept, AtMost, Wholes
  <2>3. Whole(Copies!Patched(cached[1], repository[1]))
    BY <2>2, PatchedWhole
  <2>4. Copies!Patched(cached[1], repository[1]) \in Wholes
    BY <2>3 DEF Wholes, Whole
  <2> DEFINE c == Copies!Patched(cached[1], repository[1])
  <2> HIDE DEF c
  <2>5. Whole(job)' /\ cached' \in AtMost(Wholes') /\ toAgent' \in Seq(Wholes')
    BY <1>1, <2>1, OthersKept DEF CInv, CopiesKept, Wholes, Whole, RightSecret, Copies!OldSecret, Copies!NoKey
  <2>6. rollout' = <<c>> /\ c \in Wholes'
    BY <1>1, <2>1, <2>4, OthersKept DEF c
  <2>7. QED
    BY <1>1, <2>1, <2>5, <2>6, OthersKept DEF CInv, CopiesKept, AtMost
<1>4. CASE Copies!RollOut
  <2>1. /\ rollout' = <<>> /\ rollout # <<>> /\ repository' = repository
        /\ toAgent' = IF agentOnline THEN toAgent \o rollout ELSE toAgent
    BY <1>4 DEF Copies!RollOut
  <2>2. rollout \in Seq(Wholes) /\ toAgent \in Seq(Wholes)
    <3>1. PICK c \in Wholes : rollout = <<c>>
      BY <2>1 DEF CInv, CopiesKept, AtMost
    <3>2. QED
      BY <3>1 DEF CInv, CopiesKept
  <2>3. toAgent' \in Seq(Wholes)
    BY <2>1, <2>2
  <2>4. Whole(job)' /\ cached' \in AtMost(Wholes') /\ toAgent' \in Seq(Wholes')
    BY <1>1, <2>3, OthersKept DEF CInv, CopiesKept, Wholes, Whole, RightSecret, Copies!OldSecret, Copies!NoKey
  <2>5. QED
    BY <1>1, <2>1, <2>4, OthersKept DEF CInv, CopiesKept, AtMost
<1>5. QED
  BY <1>2, <1>3, <1>4

-----------------------------------------------------------------------------
LEMMA EmptyForm ==
  ASSUME NoCert \in confirmed
  PROVE  Copies!NoForm \in [open : BOOLEAN, job : Drafts, held : BOOLEAN, generating : BOOLEAN]
<1> DEFINE j == [login |-> "old", print |-> NoCert, secret |-> 0, enabled |-> FALSE, key |-> 0]
           f == [open |-> TRUE, job |-> j, held |-> FALSE, generating |-> FALSE]
<1>1. j \in CopyRow /\ j.secret = 0
  BY CopyFields DEF Confirmed
<1>2. j \in Drafts
  BY <1>1 DEF Drafts, Drafted, Copies!Redacted
<1>3. Copies!NoForm = [f EXCEPT !.open = FALSE]
  BY Zenon DEF Copies!NoForm, Copies!Form, Copies!Redacted, Copies!NoKey
<1> HIDE DEF j
<1>4. f \in [open : BOOLEAN, job : Drafts, held : BOOLEAN, generating : BOOLEAN]
  BY <1>2
<1> HIDE DEF f
<1>5. QED
  BY <1>3, <1>4

LEMMA FormKeeps ==
  ASSUME CredentialsAssumption, CInv,
         Copies!OpenForm \/ Copies!SelectRepository \/ Copies!SwitchOff \/ Copies!SwitchOn
         \/ Copies!Generated \/ Copies!DropKey \/ Copies!CloseForm
  PROVE  CInv'
<1> DEFINE Forms == [open : BOOLEAN, job : Drafts, held : BOOLEAN, generating : BOOLEAN]
<1>1. /\ confirmed' = confirmed /\ keys' \in Nat
      /\ UNCHANGED <<job, cached, rollout, toAgent, saving, repository, run>>
  BY DEF Copies!OpenForm, Copies!SelectRepository, Copies!SwitchOff, Copies!SwitchOn, Copies!Generated,
         Copies!DropKey, Copies!CloseForm, Copies!Draft, CInv
<1>2. form \in Forms /\ form.job \in Drafts
  BY DEF CInv, FormsKept
<1>3. /\ form.job \in CopyRow /\ form.job.secret = 0
      /\ \A x \in CopyRow : x.secret = 0 => x \in Drafts
  BY <1>2 DEF Drafts, Drafted, Copies!Redacted
<1>4. form' \in Forms
  <2>1. CASE Copies!OpenForm
    <3> DEFINE on == job.enabled
               j == [login |-> job.login, print |-> job.print, secret |-> 0, enabled |-> on, key |-> 0]
               j1 == [job EXCEPT !.secret = 0]
               j2 == [j1 EXCEPT !.key = 0]
    <3>1. form' = [open |-> TRUE, job |-> j2, held |-> on, generating |-> FALSE]
      BY <2>1, Zenon DEF Copies!OpenForm, Copies!Form, Copies!Redact, Copies!Redacted, Copies!NoKey
    <3>2. /\ job = [login |-> job.login, print |-> job.print, secret |-> job.secret, enabled |-> on, key |-> job.key]
          /\ on \in BOOLEAN /\ job.login \in {"managed", "old"} /\ job.print \in Confirmed
      BY CopyFields DEF CInv, CopiesKept, Whole
    <3> HIDE DEF on, j1, j2
    <3>3. j1 = [login |-> job.login, print |-> job.print, secret |-> 0, enabled |-> on, key |-> job.key]
      BY <3>2 DEF j1
    <3>4. j2 = j
      BY <3>3 DEF j2
    <3>5. j \in CopyRow /\ j.secret = 0
      BY <3>2, CopyFields
    <3> HIDE DEF j
    <3>6. QED
      BY <3>1, <3>2, <3>4, <3>5, <1>3
  <2>2. CASE Copies!SelectRepository
    <3> DEFINE p == repository[1].print
               j1 == [form.job EXCEPT !.login = "managed"]
               j2 == [j1 EXCEPT !.print = p]
    <3>1. repository # <<>> /\ form' = [form EXCEPT !.job.login = "managed", !.job.print = p]
      BY <2>2 DEF Copies!SelectRepository, Copies!Draft
    <3>2. p \in Confirmed
      BY <3>1 DEF CInv, RowKept, AtMost
    <3> HIDE DEF p
    <3>3. j1 \in CopyRow /\ j1.secret = 0
      BY <1>3 DEF CopyRow
    <3>4. j2 \in CopyRow /\ j2.secret = 0
      BY <3>2, <3>3 DEF CopyRow
    <3>5. form' = [form EXCEPT !.job = j2]
      BY <3>1, <1>2
    <3> HIDE DEF j2
    <3>6. QED
      BY <3>4, <3>5, <1>2, <1>3
  <2>3. CASE Copies!SwitchOff
    <3> DEFINE j == [form.job EXCEPT !.enabled = FALSE]
    <3>1. form' = [form EXCEPT !.job = j]
      BY <2>3, <1>2 DEF Copies!SwitchOff, Copies!Draft
    <3>2. j \in CopyRow /\ j.secret = 0
      BY <1>3 DEF CopyRow
    <3> HIDE DEF j
    <3>3. QED
      BY <3>1, <3>2, <1>2, <1>3
  <2>4. CASE Copies!SwitchOn
    <3> DEFINE j == [form.job EXCEPT !.enabled = TRUE]
    <3>1. form' \in {[form EXCEPT !.generating = TRUE], [form EXCEPT !.job = j]}
      BY <2>4, <1>2 DEF Copies!SwitchOn, Copies!Draft
    <3>2. j \in CopyRow /\ j.secret = 0
      BY <1>3 DEF CopyRow
    <3> HIDE DEF j
    <3>3. QED
      BY <3>1, <3>2, <1>2, <1>3
  <2>5. CASE Copies!Generated
    <3> DEFINE j1 == [form.job EXCEPT !.enabled = TRUE]
               j2 == [j1 EXCEPT !.key = keys + 1]
               f1 == [form EXCEPT !.generating = FALSE]
    <3>1. form' \in {f1, [f1 EXCEPT !.job = j2]}
      BY <2>5, <1>2 DEF Copies!Generated
    <3>2. j1 \in CopyRow /\ j1.secret = 0
      BY <1>3 DEF CopyRow
    <3>3. j2 \in CopyRow /\ j2.secret = 0
      <4>1. keys + 1 \in Nat
        BY DEF CInv
      <4>2. QED
        BY <3>2, <4>1 DEF CopyRow
    <3>4. f1 \in Forms
      BY <1>2
    <3> HIDE DEF j2, f1
    <3>5. QED
      BY <3>1, <3>3, <3>4, <1>3
  <2>6. CASE Copies!DropKey
    <3> DEFINE j1 == [form.job EXCEPT !.key = 0]
               j2 == [j1 EXCEPT !.enabled = FALSE]
               f1 == [form EXCEPT !.held = FALSE]
    <3>1. form' = [f1 EXCEPT !.job = j2]
      BY <2>6, <1>2 DEF Copies!DropKey, Copies!Draft, Copies!NoKey
    <3>2. j1 \in CopyRow /\ j1.secret = 0
      BY <1>3 DEF CopyRow
    <3>3. j2 \in CopyRow /\ j2.secret = 0
      BY <3>2 DEF CopyRow
    <3>4. f1 \in Forms
      BY <1>2
    <3> HIDE DEF j2, f1
    <3>5. QED
      BY <3>1, <3>3, <3>4, <1>3
  <2>7. CASE Copies!CloseForm
    BY <2>7, EmptyForm DEF Copies!CloseForm, CInv
  <2>8. QED
    BY <2>1, <2>2, <2>3, <2>4, <2>5, <2>6, <2>7
<1>5. FormsKept'
  BY <1>1, <1>4, OthersKept DEF CInv, FormsKept, AtMost
<1>6. QED
  BY <1>1, <1>5, OthersKept DEF CInv

LEMMA SaveKeeps ==
  ASSUME CredentialsAssumption, CInv, Copies!SaveForm \/ Copies!GoOnSaving
  PROVE  CInv'
<1>1. confirmed' = confirmed /\ UNCHANGED <<job, cached, rollout, form, repository, run, keys>>
  BY DEF Copies!SaveForm, Copies!GoOnSaving, Copies!past
<1>2. ASSUME NEW j, Copies!SendSave(j), ~Copies!Refused(j) => Whole(j)
      PROVE  toAgent' \in Seq(Wholes)
  <2>1. toAgent \in Seq(Wholes)
    BY DEF CInv, CopiesKept
  <2>2. CASE Copies!Refused(j)
    BY <1>2, <2>1, <2>2 DEF Copies!SendSave
  <2>3. CASE ~Copies!Refused(j)
    <3>1. j \in Wholes
      BY <1>2, <2>3 DEF Wholes, Whole
    <3>2. toAgent' = Append(toAgent, j)
      BY <1>2, <2>3 DEF Copies!SendSave
    <3>3. QED
      BY <2>1, <3>1, <3>2
  <2>4. QED
    BY <2>2, <2>3
<1>3. toAgent' \in Seq(Wholes) /\ saving' \in AtMost(Entries)
  <2>1. CASE Copies!SaveForm
    <3> DEFINE j == Copies!WithSecret(Copies!Submitted(form))
               k == Copies!Completed(j, cached[1])
    <3>1. IF Copies!Refused(j) /\ cached = <<>> THEN saving' = <<j>> /\ toAgent' = toAgent
          ELSE /\ Copies!SendSave(IF Copies!Refused(j) THEN k ELSE j) /\ saving' = saving
      BY <2>1 DEF Copies!SaveForm
    <3>2. Entered(j)
      BY EnteredByForm DEF CInv, FormsKept, Drafts, Drafted
    <3> HIDE DEF j
    <3>3. j \in Entries
      BY <3>2 DEF Entries, Entered
    <3>4. CASE Copies!Refused(j) /\ cached = <<>>
      BY <3>1, <3>3, <3>4 DEF AtMost, CInv, CopiesKept
    <3>5. CASE ~Copies!Refused(j)
      <4>1. Copies!SendSave(j) /\ saving' = saving /\ Whole(j)
        BY <3>1, <3>2, <3>5, EnteredWhole
      <4>2. QED
        BY <4>1, <1>2 DEF CInv, FormsKept
    <3>6. CASE Copies!Refused(j) /\ cached # <<>>
      <4>1. Whole(cached[1])
        BY <3>6 DEF CInv, CopiesKept, AtMost, Wholes
      <4>2. Copies!SendSave(k) /\ saving' = saving /\ (~Copies!Refused(k) => Whole(k))
        BY <3>1, <3>2, <3>6, <4>1, CompletedWhole
      <4> HIDE DEF k
      <4>3. QED
        BY <4>2, <1>2 DEF CInv, FormsKept
    <3>7. QED
      BY <3>4, <3>5, <3>6
  <2>2. CASE Copies!GoOnSaving
    <3> DEFINE k == Copies!Completed(saving[1], cached[1])
    <3>1. saving # <<>> /\ cached # <<>> /\ Copies!SendSave(k) /\ saving' = <<>>
      BY <2>2 DEF Copies!GoOnSaving
    <3>2. Whole(cached[1]) /\ Entered(saving[1])
      BY <3>1 DEF CInv, CopiesKept, FormsKept, AtMost, Wholes, Entries
    <3>3. ~Copies!Refused(k) => Whole(k)
      BY <3>2, CompletedWhole
    <3> HIDE DEF k
    <3>4. QED
      BY <3>1, <3>3, <1>2 DEF AtMost
  <2>3. QED
    BY <2>1, <2>2
<1>4. CopiesKept' /\ FormsKept'
  <2>1. Whole(job)' /\ cached' \in AtMost(Wholes') /\ rollout' \in AtMost(Wholes')
    BY <1>1, OthersKept DEF CInv, CopiesKept, Wholes, Whole, RightSecret, Copies!OldSecret, Copies!NoKey
  <2>2. QED
    BY <1>1, <1>3, <2>1, OthersKept DEF CInv, CopiesKept, FormsKept, AtMost
<1>5. QED
  BY <1>1, <1>4, OthersKept DEF CInv

-----------------------------------------------------------------------------
LEMMA RunKeeps ==
  ASSUME CredentialsAssumption, CInv,
         Copies!StartRun \/ Copies!Unreachable \/ Copies!MeasuredDirect \/ Copies!MeasuredForLease
         \/ Copies!EndRun
  PROVE  CInv'
<1>1. /\ confirmed' = confirmed
      /\ UNCHANGED <<cached, rollout, toAgent, form, saving, repository, keys>>
  BY DEF Copies!StartRun, Copies!Unreachable, Copies!MeasuredDirect, Copies!MeasuredForLease,
         Copies!EndRun, Copies!past
<1>2. run \in [stage : {"none", "probing", "pinned"}, tunnelled : BOOLEAN, stored : Confirmed, pin : Confirmed]
  BY DEF CInv, RunKept
<1>3. job \in CopyRow /\ job.print \in Confirmed /\ NoCert \in Confirmed
  BY CopyFields DEF CInv, CopiesKept, Whole, Confirmed
<1>4. run' \in [stage : {"none", "probing", "pinned"}, tunnelled : BOOLEAN, stored : Confirmed, pin : Confirmed]
  <2>1. CASE Copies!StartRun
    <3>1. repository # <<>> => repository[1].print \in Confirmed
      BY DEF CInv, RowKept, AtMost
    <3>2. PICK t \in BOOLEAN, p \in Confirmed :
            run' = [stage |-> "probing", tunnelled |-> t, stored |-> p, pin |-> NoCert]
      BY <2>1, <3>1, <1>3, Zenon DEF Copies!StartRun
    <3>3. QED
      BY <3>2, <1>3
  <2>2. CASE Copies!Unreachable
    BY <2>2, <1>2 DEF Copies!Unreachable
  <2>3. CASE Copies!MeasuredDirect
    BY <2>3, <1>2 DEF Copies!MeasuredDirect, Copies!Vouched, Confirmed
  <2>4. CASE Copies!MeasuredForLease
    BY <2>4, <1>2 DEF Copies!MeasuredForLease, Copies!Vouched, Confirmed
  <2>5. CASE Copies!EndRun
    BY <2>5, <1>3 DEF Copies!EndRun, Copies!NoRun
  <2>6. QED
    BY <2>1, <2>2, <2>3, <2>4, <2>5
<1>5. Whole(job)'
  <2>1. CASE job' = job
    BY <2>1, <1>1, OthersKept DEF CInv, CopiesKept, Wholes, Whole, RightSecret, Copies!OldSecret, Copies!NoKey
  <2>2. CASE job' # job
    <3> DEFINE on == job.enabled
    <3>1. job' = [job EXCEPT !.print = served] /\ served \in Confirmed
      BY <2>2 DEF Copies!StartRun, Copies!Unreachable, Copies!MeasuredDirect, Copies!MeasuredForLease,
                  Copies!EndRun, Copies!Vouched, Confirmed
    <3>2. /\ job = [login |-> job.login, print |-> job.print, secret |-> job.secret, enabled |-> on, key |-> job.key]
          /\ job.login \in {"managed", "old"} /\ job.secret \in Nat /\ on \in BOOLEAN /\ job.key \in Nat
      BY <1>3, CopyFields
    <3>3. RightSecret(job) /\ (on <=> job.key # 0)
      BY DEF CInv, CopiesKept, Whole, Copies!NoKey
    <3> HIDE DEF on
    <3>4. job' = [login |-> job.login, print |-> served, secret |-> job.secret, enabled |-> on, key |-> job.key]
      BY <3>1, <3>2
    <3>5. Whole(job')
      BY <3>1, <3>2, <3>3, <3>4, CopyMade DEF RightSecret
    <3>6. QED
      BY <3>5, <1>1, OthersKept DEF Whole, RightSecret, Copies!OldSecret, Copies!NoKey
  <2>3. QED
    BY <2>1, <2>2
<1>6. CopiesKept' /\ RunKept'
  BY <1>1, <1>4, <1>5, OthersKept DEF CInv, CopiesKept, RunKept, AtMost
<1>7. QED
  BY <1>1, <1>6, OthersKept DEF CInv

-----------------------------------------------------------------------------
\* The copies of a job's credentials hold what its runs rely on, however they
\* are cached, distributed, edited, completed and stored: a run pins what an
\* operator stored or a CA vouched for, the agent keeps its secret and sends
\* it to no other login, and no job encrypts without a key (completeJobSecrets,
\* distribute, resolveFingerprint).
THEOREM CredentialsGoRound == MCSpec => []CredentialsKept
<1>1. MCInit => CInv
  <2> SUFFICES ASSUME MCInit
               PROVE  CInv
    OBVIOUS
  <2>1. Copies!Init /\ NoCert \in Confirmed /\ CredentialsAssumption
    BY CredentialsAssumption DEF MCInit, Copies!Init, Confirmed
  <2>2. Whole(job)
    <3>1. PICK l \in {"managed", "old"} :
            job = [login |-> l, print |-> NoCert,
                   secret |-> IF l = "old" THEN Copies!OldSecret ELSE 1, enabled |-> FALSE, key |-> 0]
      BY <2>1 DEF Copies!Init, Copies!NoKey
    <3> DEFINE s == IF l = "old" THEN Copies!OldSecret ELSE 1
               e == FALSE
    <3>2. s \in Nat /\ (IF l = "old" THEN s = Copies!OldSecret ELSE s \in 1..MaxSecrets)
      BY <2>1 DEF CredentialsAssumption, Copies!OldSecret
    <3>3. e \in BOOLEAN /\ (e <=> 0 # 0)
      OBVIOUS
    <3>4. job = [login |-> l, print |-> NoCert, secret |-> s, enabled |-> e, key |-> 0]
      BY <3>1
    <3> HIDE DEF s, e
    <3>5. QED
      BY <2>1, <3>2, <3>3, <3>4, CopyMade
  <2>3. CopiesKept
    BY <2>1, <2>2 DEF CopiesKept, AtMost, Copies!Init
  <2>4. FormsKept
    BY <2>1, EmptyForm DEF FormsKept, AtMost, Copies!Init
  <2>5. RowKept
    BY <2>1 DEF RowKept, AtMost, Copies!Init, CredentialsAssumption
  <2>6. RunKept
    BY <2>1 DEF RunKept, Copies!Init, Copies!NoRun
  <2>7. QED
    BY <2>1, <2>3, <2>4, <2>5, <2>6 DEF CInv, Copies!Init
<1>2. CInv /\ [MCNext]_serverVars => CInv'
  <2> SUFFICES ASSUME CInv, [MCNext]_serverVars
               PROVE  CInv'
    OBVIOUS
  <2>1. CASE UNCHANGED credentialsVars
    BY <2>1, OthersKept DEF CInv, credentialsVars
  <2>2. CASE Copies!Next
    BY <2>2, CredentialsAssumption, SessionKeeps, EditorKeeps, SaveRepositoryKeeps, RolloutKeeps, FormKeeps,
       SaveKeeps, RunKeeps DEF Copies!Next
  <2>3. QED
    BY <2>1, <2>2 DEF MCNext, serverVars
<1>3. CInv => CredentialsKept
  BY DEF CInv, CopiesKept, RunKept, Whole, RightSecret, Confirmed, CredentialsKept, Copies!CredentialsHold,
         Copies!PinsAreVouchedFor, Copies!SecretsSurvive, Copies!EncryptedHasKey
<1>4. QED
  BY <1>1, <1>2, <1>3, PTL DEF MCSpec

=============================================================================
