---------------------------- MODULE TunnelService ----------------------------
(***************************************************************************)
(* The server's SSH connections to its clients, and the leases runs hold   *)
(* on them (server/backend/src/services/TunnelService.ts): the             *)
(* maxConcurrentTunnels slots and their queue, one connection per client   *)
(* and one forward per target shared by any number of requests, lost       *)
(* connections, the idle teardown, and the removal of a client.            *)
(*                                                                         *)
(* A request stands for itself, for the connection it was first to ask     *)
(* for, and for the forward it was first to ask for.  An action is one     *)
(* callback of the server's event loop with the promises it settles, save  *)
(* the waiter a released slot is handed to: that continues right after the *)
(* callback, and before anything else (`woken`).                           *)
(***************************************************************************)
EXTENDS Naturals, Sequences, FiniteSets

CONSTANTS
    Clients, Requests, Targets,
    ClientOf, TargetOf,   \* the client and the PBS of each request
    None,
    MaxTunnels,     \* maxConcurrentTunnels
    LateEvents,     \* TRUE: anything may come before the `close` of a connection
    CloseAnytime,   \* TRUE: also a client that is being connected may be closed
    Refusals,       \* TRUE: an sshd may also refuse the forward of a client without a lease
    MaxCloses,      \* bound: calls of closeClient
    MaxDisconnects  \* bound: agents that lose their WebSocket

ASSUME TunnelAssumption ==
    /\ IsFiniteSet(Clients) /\ None \notin Requests
    /\ ClientOf \in [Requests -> Clients] /\ TargetOf \in [Requests -> Targets]
    /\ MaxTunnels \in Nat \ {0}
    /\ LateEvents \in BOOLEAN /\ CloseAnytime \in BOOLEAN /\ Refusals \in BOOLEAN
    /\ MaxCloses \in Nat /\ MaxDisconnects \in Nat

VARIABLES
    tunnels,          \* clients with an entry in `tunnels`; of each entry:
    ssh,              \*   its connection
    connectPromise,   \*   the connection being opened
    holdsSlot,        \*   clients whose entry holds a slot
    forwards,         \*   the forwards in the entries
    forwardPromises,  \*   the forwards being opened, as far as they are shared
    idleTimer,        \*   clients whose idle timer is armed
    openConnections,  \* slots counted as taken
    waiting,          \* connections waiting for a slot
    woken,            \* the one that was just handed a slot
    conn,             \* each connection, as ssh2 and the server see it
    asked,            \* forwards ssh2 still owes a callback
    on,               \* the connection a forward was asked on
    detached,         \* connections and forwards whose entry was dropped meanwhile
    pc,               \* each request
    via,              \* the connection, then the forward, it waits for or has
    closes, disconnects

entryVars == <<tunnels, ssh, connectPromise, holdsSlot, idleTimer>>
forwardVars == <<forwards, forwardPromises, asked, on>>
slotVars == <<openConnections, waiting, woken>>
requestVars == <<pc, via>>
bounds == <<closes, disconnects>>
vars == <<entryVars, forwardVars, slotVars, conn, detached, requestVars, bounds>>

\* `ended`: both `end` and `close` are due, `closing`: only `close` is; after it,
\* `closed`: ssh2 is about to fail what it still owes an answer.
ConnStates == {"none", "slot", "opening", "up", "ended", "closing", "closed", "gone"}
Places == {"new", "connecting", "forwarding", "leased", "over"}

Of(c) == {q \in Requests : ClientOf[q] = c}
SameForward(q) == {f \in Of(ClientOf[q]) : TargetOf[f] = TargetOf[q]}

Waiters(a) == {q \in Requests : pc[q] = "connecting" /\ via[q] = a}
Sharers(f) == {q \in Requests : pc[q] = "forwarding" /\ via[q] = f}
Leases == {q \in Requests : pc[q] = "leased"}

Answer(S, place) == pc' = [q \in Requests |-> IF q \in S THEN place ELSE pc[q]]

\* A callback of its own: no continuation is due, and where the events of an
\* ended connection come promptly, none of those.
Idle == /\ woken = None
        /\ \A a \in Requests : /\ conn[a] # "closed"
                               /\ LateEvents \/ conn[a] \notin {"ended", "closing"}

-----------------------------------------------------------------------------
(***************************************************************************)
(* Slots.                                                                  *)
(***************************************************************************)

SlotFree == openConnections < MaxTunnels

\* Mutants: the last in the queue goes first; the slot is both handed over and
\* counted free.
ReleaseToLast(c, queue) ==
    IF c \notin holdsSlot THEN waiting' = queue /\ UNCHANGED <<holdsSlot, openConnections, woken>>
    ELSE /\ holdsSlot' = holdsSlot \ {c}
         /\ IF queue = <<>>
            THEN openConnections' = openConnections - 1 /\ waiting' = queue /\ UNCHANGED woken
            ELSE /\ woken' = queue[Len(queue)]
                 /\ waiting' = SubSeq(queue, 1, Len(queue) - 1)
                 /\ UNCHANGED openConnections
ReleaseTwice(c, queue) ==
    IF c \notin holdsSlot THEN waiting' = queue /\ UNCHANGED <<holdsSlot, openConnections, woken>>
    ELSE /\ holdsSlot' = holdsSlot \ {c} /\ openConnections' = openConnections - 1
         /\ IF queue = <<>> THEN waiting' = queue /\ UNCHANGED woken
                            ELSE woken' = Head(queue) /\ waiting' = Tail(queue)

\* `releaseSlot`, with the queue as it is by then: a slot goes to the first
\* waiter, or is free.
ReleaseSlot(c, queue) ==
    IF c \notin holdsSlot THEN waiting' = queue /\ UNCHANGED <<holdsSlot, openConnections, woken>>
    ELSE /\ holdsSlot' = holdsSlot \ {c}
         /\ IF queue = <<>>
            THEN openConnections' = openConnections - 1 /\ waiting' = queue /\ UNCHANGED woken
            ELSE woken' = Head(queue) /\ waiting' = Tail(queue) /\ UNCHANGED openConnections

-----------------------------------------------------------------------------
(***************************************************************************)
(* acquire                                                                 *)
(***************************************************************************)
\* Too soon after the last one, or no credentials: only the entry is there.
Refuse(q) ==
    /\ Idle /\ pc[q] = "new"
    /\ Answer({q}, "over")
    /\ tunnels' = tunnels \cup {ClientOf[q]}
    /\ UNCHANGED <<ssh, connectPromise, holdsSlot, idleTimer, forwardVars, slotVars, conn,
                   detached, via, bounds>>

\* `forwardShared` for the requests of W, over connection a: an open forward is
\* leased at once, one being opened is waited for, and else the first request
\* for a target asks for one.
ForwardShared(W, a) ==
    LET open(q) == forwards \cap SameForward(q)
        fresh == {q \in W : (forwards \cup forwardPromises) \cap SameForward(q) = {}}
        first == {q \in fresh : q = CHOOSE p \in fresh \cap SameForward(q) : TRUE}
        shared(q) == IF open(q) # {} THEN open(q)
                     ELSE (forwardPromises \cup first) \cap SameForward(q)
    IN  /\ pc' = [q \in Requests |-> IF q \notin W THEN pc[q]
                                     ELSE IF open(q) # {} THEN "leased" ELSE "forwarding"]
        /\ via' = [q \in Requests |-> IF q \in W THEN CHOOSE f \in shared(q) : TRUE ELSE via[q]]
        /\ forwardPromises' = forwardPromises \cup first
        /\ asked' = asked \cup first
        /\ on' = [q \in Requests |-> IF q \in first THEN a ELSE on[q]]
        /\ detached' = detached \ first
        /\ UNCHANGED forwards

\* The client has its connection.
AcquireOnOpen(q) ==
    LET c == ClientOf[q] IN
    /\ Idle /\ pc[q] = "new" /\ ssh[c] # None
    /\ idleTimer' = idleTimer \ {c}
    /\ ForwardShared({q}, ssh[c])
    /\ UNCHANGED <<tunnels, ssh, connectPromise, holdsSlot, slotVars, conn, bounds>>

\* The client's connection is being opened.
AcquireOnOpening(q) ==
    LET c == ClientOf[q] IN
    /\ Idle /\ pc[q] = "new" /\ ssh[c] = None /\ connectPromise[c] # None
    /\ idleTimer' = idleTimer \ {c}
    /\ Answer({q}, "connecting") /\ via' = [via EXCEPT ![q] = connectPromise[c]]
    /\ UNCHANGED <<tunnels, ssh, connectPromise, holdsSlot, forwardVars, slotVars, conn,
                   detached, bounds>>

\* `connectShared` with a new connection, up to its slot or its place in the queue.
AcquireNew(q) ==
    LET c == ClientOf[q] IN
    /\ Idle /\ pc[q] = "new" /\ ssh[c] = None /\ connectPromise[c] = None
    /\ tunnels' = tunnels \cup {c} /\ idleTimer' = idleTimer \ {c}
    /\ connectPromise' = [connectPromise EXCEPT ![c] = q]
    /\ Answer({q}, "connecting") /\ via' = [via EXCEPT ![q] = q]
    /\ \/ /\ c \in holdsSlot /\ conn' = [conn EXCEPT ![q] = "opening"]
          /\ UNCHANGED <<holdsSlot, openConnections, waiting>>
       \/ /\ c \notin holdsSlot /\ SlotFree
          /\ openConnections' = openConnections + 1 /\ holdsSlot' = holdsSlot \cup {c}
          /\ conn' = [conn EXCEPT ![q] = "opening"]
          /\ UNCHANGED waiting
       \/ /\ c \notin holdsSlot /\ ~SlotFree
          /\ waiting' = Append(waiting, q) /\ conn' = [conn EXCEPT ![q] = "slot"]
          /\ UNCHANGED <<holdsSlot, openConnections>>
    /\ UNCHANGED <<ssh, forwardVars, woken, detached, bounds>>

-----------------------------------------------------------------------------
(***************************************************************************)
(* The connection being opened.                                            *)
(***************************************************************************)
\* Mutant: only the request that began is answered.
FailFirst(a, queue) ==
    LET c == ClientOf[a] IN
    /\ conn' = [conn EXCEPT ![a] = "gone"]
    /\ Answer({a}, "over")
    /\ connectPromise' = IF a \in detached THEN connectPromise
                         ELSE [connectPromise EXCEPT ![c] = None]
    /\ ReleaseSlot(c, queue)
    /\ tunnels' = tunnels \cup {c}
    /\ UNCHANGED <<ssh, idleTimer, forwardVars, detached, via, bounds>>

\* The `catch` of connectShared: everyone who waits is refused, and whatever
\* slot the client holds is released.
Fail(a, queue) ==
    LET c == ClientOf[a] IN
    /\ conn' = [conn EXCEPT ![a] = "gone"]
    /\ Answer(Waiters(a), "over")
    /\ connectPromise' = IF a \in detached THEN connectPromise
                         ELSE [connectPromise EXCEPT ![c] = None]
    /\ ReleaseSlot(c, queue)
    /\ tunnels' = tunnels \cup {c}
    /\ UNCHANGED <<ssh, idleTimer, forwardVars, detached, via, bounds>>

\* The place of an entry in the queue is that of its timer.
Spliced(queue, i) == [k \in 1..(Len(queue) - 1) |-> queue[IF k < i THEN k ELSE k + 1]]

SlotTimeout(a) ==
    /\ Idle
    /\ \E i \in 1..Len(waiting) : waiting[i] = a /\ Fail(a, Spliced(waiting, i))

\* A waiter goes on with the slot it was handed.  If its client is gone, it
\* counts the slot as free and wakes the next one nevertheless.
SlotHanded ==
    LET a == woken
        c == ClientOf[a]
    IN
    /\ a # None
    /\ \/ /\ c \in tunnels
          /\ holdsSlot' = holdsSlot \cup {c}
          /\ conn' = [conn EXCEPT ![a] = "opening"] /\ woken' = None
          /\ UNCHANGED <<tunnels, openConnections, waiting, pc>>
       \/ /\ c \notin tunnels
          /\ openConnections' = openConnections - 1
          /\ IF waiting = <<>> THEN woken' = None /\ UNCHANGED waiting
                               ELSE woken' = Head(waiting) /\ waiting' = Tail(waiting)
          /\ conn' = [conn EXCEPT ![a] = "gone"]
          /\ Answer(Waiters(a), "over")
          /\ tunnels' = tunnels \cup {c}
          /\ UNCHANGED holdsSlot
    /\ UNCHANGED <<ssh, connectPromise, idleTimer, forwardVars, detached, via, bounds>>

ConnectFails(a) == Idle /\ conn[a] = "opening" /\ Fail(a, waiting)

\* `ready`: the entry has its connection, and the requests go on to their forwards.
Ready(a) ==
    LET c == ClientOf[a] IN
    /\ Idle /\ conn[a] = "opening"
    /\ conn' = [conn EXCEPT ![a] = "up"]
    /\ tunnels' = tunnels \cup {c}
    /\ IF a \in detached
       THEN UNCHANGED <<ssh, connectPromise>>
       ELSE /\ ssh' = [ssh EXCEPT ![c] = a]
            /\ connectPromise' = [connectPromise EXCEPT ![c] = None]
    /\ ForwardShared(Waiters(a), a)
    /\ UNCHANGED <<holdsSlot, idleTimer, slotVars, bounds>>

-----------------------------------------------------------------------------
(***************************************************************************)
(* Forwards and leases.                                                    *)
(***************************************************************************)
\* The promise is settled, and whatever promise its entry has for the target
\* is not shared any longer.
ForwardSettled(f) ==
    /\ asked' = asked \ {f}
    /\ forwardPromises' = IF f \in detached THEN forwardPromises
                          ELSE forwardPromises \ SameForward(f)

ForwardOpened(f) ==
    /\ Idle /\ f \in asked /\ conn[on[f]] \in {"up", "ended"}
    /\ ForwardSettled(f)
    /\ forwards' = IF f \in detached THEN forwards ELSE (forwards \ SameForward(f)) \cup {f}
    /\ Answer(Sharers(f), "leased")
    /\ tunnels' = tunnels \cup {ClientOf[f]}
    /\ UNCHANGED <<ssh, connectPromise, holdsSlot, idleTimer, on, slotVars, conn, detached,
                   via, bounds>>

ForwardRefused(f) ==
    /\ Idle /\ f \in asked /\ conn[on[f]] \in {"up", "ended"}
    /\ Refusals \/ Leases \cap Of(ClientOf[f]) # {}
    /\ ForwardSettled(f)
    /\ Answer(Sharers(f), "over")
    /\ UNCHANGED <<entryVars, forwards, on, slotVars, conn, detached, via, bounds>>

\* `release`, for the agent or for the timer of maxLeaseMs.
Release(q) ==
    /\ Idle /\ pc[q] = "leased"
    /\ Answer({q}, "over")
    /\ idleTimer' = idleTimer \cup ({ClientOf[q]} \cap tunnels)
    /\ UNCHANGED <<tunnels, ssh, connectPromise, holdsSlot, forwardVars, slotVars, conn,
                   detached, via, bounds>>

\* Forwards without a lease are closed, and the connection if none is left.
IdleTeardown(c) ==
    LET kept == {f \in forwards : ClientOf[f] = c => \E q \in Leases : via[q] = f}
        ends == ssh[c] # None /\ kept \cap Of(c) = {}
    IN
    /\ Idle /\ c \in idleTimer
    /\ idleTimer' = idleTimer \ {c}
    /\ forwards' = IF ssh[c] = None THEN forwards ELSE kept
    /\ IF ends THEN /\ ssh' = [ssh EXCEPT ![c] = None]
                    /\ conn' = [conn EXCEPT ![ssh[c]] = "ended"]
                    /\ ReleaseSlot(c, waiting)
               ELSE UNCHANGED <<ssh, conn, holdsSlot, slotVars>>
    /\ UNCHANGED <<tunnels, connectPromise, forwardPromises, asked, on, detached,
                   requestVars, bounds>>

\* `dropClientLeases`
DropLeases(c) == Answer(Leases \cap Of(c), "over")
TimerOnDrop(c) == idleTimer \cup (IF Leases \cap Of(c) = {} THEN {} ELSE {c} \cap tunnels)

\* The agent's WebSocket closed; without a lease nothing comes of it.
Disconnect(c) ==
    /\ Idle /\ Leases \cap Of(c) # {}
    /\ disconnects < MaxDisconnects /\ disconnects' = disconnects + 1
    /\ DropLeases(c) /\ idleTimer' = TimerOnDrop(c)
    /\ UNCHANGED <<tunnels, ssh, connectPromise, holdsSlot, forwardVars, slotVars, conn,
                   detached, via, closes>>

-----------------------------------------------------------------------------
(***************************************************************************)
(* The end of a connection, and of a client.                               *)
(***************************************************************************)
\* Mutant: the leases stay.
LostButLeases(c) ==
    IF ssh[c] = None /\ connectPromise[c] = None
    THEN UNCHANGED <<ssh, forwards, forwardPromises, idleTimer, pc, holdsSlot, slotVars>>
    ELSE /\ ssh' = [ssh EXCEPT ![c] = None]
         /\ forwards' = forwards \ Of(c) /\ forwardPromises' = forwardPromises \ Of(c)
         /\ ReleaseSlot(c, waiting)
         /\ UNCHANGED <<idleTimer, pc>>

\* `handleConnectionLost`, which is told the client and not the connection.
HandleConnectionLost(c) ==
    IF ssh[c] = None /\ connectPromise[c] = None
    THEN UNCHANGED <<ssh, forwards, forwardPromises, idleTimer, pc, holdsSlot, slotVars>>
    ELSE /\ ssh' = [ssh EXCEPT ![c] = None]
         /\ forwards' = forwards \ Of(c) /\ forwardPromises' = forwardPromises \ Of(c)
         /\ DropLeases(c) /\ idleTimer' = TimerOnDrop(c)
         /\ ReleaseSlot(c, waiting)

\* The `end` and the `close` event of connection a; there may be no `end`.
ConnectionEnds(a) ==
    /\ woken = None /\ (conn[a] = "up" => Idle)
    /\ \/ conn[a] \in {"up", "ended"} /\ conn' = [conn EXCEPT ![a] = "closing"]
       \/ conn[a] \in {"up", "ended", "closing"} /\ conn' = [conn EXCEPT ![a] = "closed"]
    /\ HandleConnectionLost(ClientOf[a])
    /\ UNCHANGED <<tunnels, connectPromise, asked, on, detached, via, bounds>>

\* With the `close`, ssh2 fails the forwards the sshd has not answered.
ForwardsFail(a) ==
    LET failed == {f \in asked : on[f] = a}
        settled == UNION {SameForward(f) : f \in failed \ detached}
    IN
    /\ woken = None /\ conn[a] = "closed"
    /\ conn' = [conn EXCEPT ![a] = "gone"]
    /\ asked' = asked \ failed
    /\ forwardPromises' = forwardPromises \ settled
    /\ Answer(UNION {Sharers(f) : f \in failed}, "over")
    /\ UNCHANGED <<entryVars, forwards, on, slotVars, detached, via, bounds>>

\* The client is deleted, or its tunnel changed or removed.
CloseClient(c) ==
    /\ Idle /\ c \in tunnels /\ closes < MaxCloses /\ closes' = closes + 1
    /\ CloseAnytime \/ connectPromise[c] = None
    /\ DropLeases(c)
    /\ tunnels' = tunnels \ {c} /\ idleTimer' = idleTimer \ {c}
    /\ conn' = [a \in Requests |-> IF a = ssh[c] THEN "ended" ELSE conn[a]]
    /\ ssh' = [ssh EXCEPT ![c] = None]
    /\ connectPromise' = [connectPromise EXCEPT ![c] = None]
    /\ forwards' = forwards \ Of(c) /\ forwardPromises' = forwardPromises \ Of(c)
    /\ detached' = detached \cup {q \in Of(c) : conn[q] \in {"slot", "opening"} \/ q \in asked}
    /\ ReleaseSlot(c, waiting)
    /\ UNCHANGED <<asked, on, via, disconnects>>

-----------------------------------------------------------------------------
Init ==
    /\ tunnels = {} /\ holdsSlot = {} /\ idleTimer = {}
    /\ ssh = [c \in Clients |-> None] /\ connectPromise = [c \in Clients |-> None]
    /\ forwards = {} /\ forwardPromises = {} /\ asked = {}
    /\ on = [q \in Requests |-> None]
    /\ openConnections = 0 /\ waiting = <<>> /\ woken = None
    /\ conn = [q \in Requests |-> "none"] /\ detached = {}
    /\ pc = [q \in Requests |-> "new"] /\ via = [q \in Requests |-> None]
    /\ closes = 0 /\ disconnects = 0

Connecting(a) == SlotTimeout(a) \/ ConnectFails(a) \/ Ready(a)
Forwarding(f) == ForwardOpened(f) \/ ForwardRefused(f)

Next ==
    \/ SlotHanded
    \/ \E q \in Requests : \/ Refuse(q)
                           \/ AcquireOnOpen(q) \/ AcquireOnOpening(q) \/ AcquireNew(q)
                           \/ Connecting(q) \/ Forwarding(q)
                           \/ Release(q) \/ ConnectionEnds(q) \/ ForwardsFail(q)
    \/ \E c \in Clients : IdleTeardown(c) \/ Disconnect(c) \/ CloseClient(c)

Spec == Init /\ [][Next]_vars

\* Promises are settled, timers fire (that of the slot, of the connection, of the
\* lease, of the idle grace), the sshd answers, and an ended connection closes.
Fairness ==
    /\ WF_vars(SlotHanded)
    /\ \A q \in Requests :
          /\ WF_vars(Connecting(q)) /\ WF_vars(Forwarding(q)) /\ WF_vars(Release(q))
          /\ WF_vars(conn[q] # "up" /\ ConnectionEnds(q)) /\ WF_vars(ForwardsFail(q))
    /\ \A c \in Clients : WF_vars(IdleTeardown(c))

FairSpec == Spec /\ Fairness

-----------------------------------------------------------------------------
(***************************************************************************)
(* Properties.                                                             *)
(***************************************************************************)
TypeOK ==
    /\ tunnels \subseteq Clients
    /\ holdsSlot \subseteq tunnels /\ idleTimer \subseteq tunnels
    /\ ssh \in [Clients -> Requests \cup {None}]
    /\ connectPromise \in [Clients -> Requests \cup {None}]
    /\ forwards \subseteq Requests /\ forwardPromises \subseteq Requests
    /\ asked \subseteq Requests /\ detached \subseteq Requests
    /\ on \in [Requests -> Requests \cup {None}]
    /\ openConnections \in 0..MaxTunnels
    /\ waiting \in Seq(Requests) /\ woken \in Requests \cup {None}
    /\ conn \in [Requests -> ConnStates]
    /\ pc \in [Requests -> Places] /\ via \in [Requests -> Requests \cup {None}]
    /\ closes \in 0..MaxCloses /\ disconnects \in 0..MaxDisconnects

\* Never more SSH connections are open, or being opened, than maxConcurrentTunnels
\* allows, however connects, losses, teardowns and hand-overs meet.
LimitRespected ==
    Cardinality({a \in Requests : conn[a] \in {"opening", "up"}}) <= MaxTunnels

\* The count of slots is that of the clients which hold one, or are about to:
\* no path gives a slot back twice, and none keeps one.
SlotsAccounted ==
    openConnections = Cardinality(holdsSlot) + (IF woken = None THEN 0 ELSE 1)

\* A client has one connection at a time, and it is that of its entry.
OneConnection ==
    \A a \in Requests : conn[a] \in {"opening", "up"} =>
        a \in {ssh[ClientOf[a]], connectPromise[ClientOf[a]]}

\* A lease is on a forward that is open: its port leads over the client's
\* connection of now, and no teardown closes it while the lease is held.
LeaseIsUsable ==
    \A q \in Leases : /\ via[q] \in forwards
                      /\ on[via[q]] = ssh[ClientOf[q]]

\* Every request is answered, also where it only shares what others asked for.
RequestsAnswered ==
    \A q \in Requests : pc[q] \in {"connecting", "forwarding"} ~> pc[q] \in {"leased", "over"}

\* A slot is given back in the end: no connection without leases stays open.
SlotsReturn == \A c \in Clients : c \in holdsSlot ~> c \notin holdsSlot

\* The limit holds, and the count it is held by is right.
SlotsHold == TypeOK /\ LimitRespected /\ SlotsAccounted

\* What is leased leads over the one connection of its client.
LeasesHold == OneConnection /\ LeaseIsUsable

\* Nobody waits for ever: not a request, and not the next client for a slot.
EveryoneIsServed == RequestsAnswered /\ SlotsReturn

\* The clients with a slot, or about to go on with one, and those in the queue.
Holders == holdsSlot \cup (IF woken = None THEN {} ELSE {ClientOf[woken]})
Line(queue) == [i \in 1..Len(queue) |-> ClientOf[queue[i]]]

SP == INSTANCE SlotPool WITH
          Users <- Clients, Size <- MaxTunnels, holders <- Holders, queue <- Line(waiting)

\* The slots are handed out as module SlotPool says: never too many, never free
\* while somebody waits, first come first served.
ImplementsSlotPool == SP!Spec
=============================================================================
