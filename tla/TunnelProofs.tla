---------------------------- MODULE TunnelProofs ----------------------------
(***************************************************************************)
(* Proofs about module TunnelService, for any number of clients, requests  *)
(* and slots.  They are about the server as ssh2 drives it: the `close` of *)
(* an ended connection follows its `end` (~LateEvents), and a client is    *)
(* closed while no connection is being opened for it (~CloseAnytime).      *)
(***************************************************************************)
EXTENDS TunnelService, FiniteSetTheorems, TLAPS

Prompt == ~LateEvents /\ ~CloseAnytime

-----------------------------------------------------------------------------
(***************************************************************************)
(* The inductive invariant.                                                *)
(***************************************************************************)

\* An entry has its connection, is being given one, or has neither and no slot.
EntryKept ==
    \A c \in Clients :
        /\ ssh[c] # None => /\ ClientOf[ssh[c]] = c /\ conn[ssh[c]] = "up"
                            /\ connectPromise[c] = None
        /\ connectPromise[c] # None => /\ ClientOf[connectPromise[c]] = c /\ c \in tunnels
                                       /\ conn[connectPromise[c]] \in {"slot", "opening"}
        /\ c \in holdsSlot <=> \/ ssh[c] # None
                               \/ connectPromise[c] # None /\ conn[connectPromise[c]] = "opening"

\* A connection is that of its entry until it ends; then its client has none.
ConnKept ==
    \A a \in Requests :
        /\ conn[a] = "up" => ssh[ClientOf[a]] = a
        /\ conn[a] \in {"slot", "opening"} => connectPromise[ClientOf[a]] = a
        /\ conn[a] \in {"ended", "closing", "closed"} =>
              ssh[ClientOf[a]] = None /\ connectPromise[ClientOf[a]] = None

\* Who waits for a slot is in the queue, once, or was just handed one.
QueueKept ==
    /\ \A i, k \in 1..Len(waiting) : waiting[i] = waiting[k] => i = k
    /\ \A i \in 1..Len(waiting) : conn[waiting[i]] = "slot" /\ waiting[i] # woken
    /\ woken # None => conn[woken] = "slot"
    /\ \A a \in Requests : conn[a] = "slot" => a = woken \/ \E i \in 1..Len(waiting) : waiting[i] = a
    /\ waiting # <<>> => openConnections = MaxTunnels

\* A forward leads over the connection of its entry, and a target has one;
\* one being opened is asked for, on a connection that is not gone.
ForwardKept ==
    /\ \A f \in forwards : ssh[ClientOf[f]] # None /\ on[f] = ssh[ClientOf[f]]
    /\ forwardPromises \subseteq asked
    /\ \A f, g \in forwards \cup forwardPromises :
          ClientOf[f] = ClientOf[g] /\ TargetOf[f] = TargetOf[g] => f = g
    /\ forwardPromises \cap (forwards \cup detached) = {}
    /\ \A f \in asked :
          /\ on[f] # None /\ ClientOf[on[f]] = ClientOf[f]
          /\ conn[on[f]] \in {"up", "ended", "closing", "closed"}
          /\ conn[on[f]] = "up" => f \in forwardPromises
    /\ \A a \in detached : conn[a] \notin {"slot", "opening"}

\* What a request waits for is on its way, and what it leases is there.
RequestKept ==
    \A q \in Requests :
        /\ pc[q] = "new" => /\ conn[q] = "none" /\ q \notin asked \cup detached
                            /\ q \notin forwards /\ on[q] = None
        /\ pc[q] = "connecting" => via[q] # None /\ via[q] = connectPromise[ClientOf[q]]
        /\ pc[q] = "forwarding" => via[q] \in asked \cap SameForward(q)
        /\ pc[q] = "leased" => via[q] \in forwards \cap SameForward(q)

IInv == /\ TypeOK /\ SlotsAccounted
        /\ EntryKept /\ ConnKept /\ QueueKept /\ ForwardKept /\ RequestKept

-----------------------------------------------------------------------------
(***************************************************************************)
(* The count of the slots.                                                 *)
(***************************************************************************)

LEMMA HoldersFinite ==
    ASSUME TypeOK
    PROVE  IsFiniteSet(holdsSlot) /\ Cardinality(holdsSlot) \in Nat
<1>1. holdsSlot \in SUBSET Clients
  BY DEF TypeOK
<1>2. QED
  BY <1>1, TunnelAssumption, FS_Subset, FS_CardinalityType

\* Only the holder c is affected, and a slot is handed on as long as somebody waits.
LEMMA SlotReleased ==
    ASSUME TypeOK, SlotsAccounted, woken = None, NEW c \in Clients,
           NEW queue \in Seq(Requests), ReleaseSlot(c, queue)
    PROVE  /\ holdsSlot' = holdsSlot \ {c}
           /\ openConnections' \in 0..MaxTunnels
           /\ SlotsAccounted'
           /\ waiting' \in Seq(Requests) /\ woken' \in Requests \cup {None}
           /\ \/ waiting' = queue /\ woken' = None
              \/ queue # <<>> /\ c \in holdsSlot /\ waiting' = Tail(queue) /\ woken' = Head(queue)
           /\ waiting' # <<>> => openConnections' = openConnections
<1>1. /\ Cardinality(holdsSlot \ {c}) = IF c \in holdsSlot THEN Cardinality(holdsSlot) - 1
                                                          ELSE Cardinality(holdsSlot)
      /\ Cardinality(holdsSlot) \in Nat /\ Cardinality(holdsSlot \ {c}) \in Nat
  BY HoldersFinite, FS_RemoveElement, FS_CardinalityType
<1>2. openConnections = Cardinality(holdsSlot) /\ openConnections \in 0..MaxTunnels
  BY <1>1 DEF SlotsAccounted, TypeOK
<1>3. CASE c \notin holdsSlot
  <2>1. holdsSlot \ {c} = holdsSlot
    BY <1>3
  <2>2. QED
    BY <1>2, <1>3, <2>1 DEF ReleaseSlot, SlotsAccounted
<1>4. CASE c \in holdsSlot /\ queue = <<>>
  <2>1. /\ holdsSlot' = holdsSlot \ {c} /\ openConnections' = openConnections - 1
        /\ waiting' = queue /\ woken' = None
    BY <1>4 DEF ReleaseSlot
  <2>2. SlotsAccounted' /\ openConnections' \in 0..MaxTunnels
    BY <1>1, <1>2, <1>4, <2>1, TunnelAssumption DEF SlotsAccounted
  <2>3. QED
    BY <1>4, <2>1, <2>2
<1>5. CASE c \in holdsSlot /\ queue # <<>>
  <2>1. Head(queue) \in Requests /\ Tail(queue) \in Seq(Requests) /\ Head(queue) # None
    BY <1>5, TunnelAssumption
  <2>2. /\ holdsSlot' = holdsSlot \ {c} /\ openConnections' = openConnections
        /\ waiting' = Tail(queue) /\ woken' = Head(queue)
    BY <1>5 DEF ReleaseSlot
  <2>3. SlotsAccounted'
    BY <1>1, <1>2, <1>5, <2>1, <2>2 DEF SlotsAccounted
  <2>4. QED
    BY <1>2, <1>5, <2>1, <2>2, <2>3
<1>6. QED
  BY <1>3, <1>4, <1>5

-----------------------------------------------------------------------------
LEMMA InitInv == Init => IInv
<1>1. Cardinality({}) = 0
  BY FS_EmptySet
<1>2. ASSUME Init PROVE TypeOK /\ SlotsAccounted
  BY <1>1, <1>2, TunnelAssumption DEF Init, TypeOK, SlotsAccounted, ConnStates, Places
<1>3. ASSUME Init PROVE EntryKept /\ ConnKept /\ QueueKept
  BY <1>3, TunnelAssumption DEF Init, EntryKept, ConnKept, QueueKept
<1>4. ASSUME Init PROVE ForwardKept /\ RequestKept
  BY <1>4, TunnelAssumption DEF Init, ForwardKept, RequestKept
<1>5. QED
  BY <1>2, <1>3, <1>4 DEF IInv

LEMMA RefuseKeeps == ASSUME IInv, Prompt, NEW q \in Requests, Refuse(q) PROVE IInv'
<1> USE TunnelAssumption
<1>1. TypeOK' /\ SlotsAccounted'
  BY DEF IInv, Refuse, TypeOK, SlotsAccounted, Answer, Places, entryVars, forwardVars, slotVars, bounds
<1>2. EntryKept' /\ ConnKept' /\ QueueKept'
  BY DEF IInv, Refuse, EntryKept, ConnKept, QueueKept, forwardVars, slotVars
<1>3. ForwardKept'
  BY DEF IInv, Refuse, ForwardKept, forwardVars
<1>4. RequestKept'
  BY DEF IInv, Refuse, RequestKept, forwardVars, Answer, SameForward, Of, TypeOK
<1>5. QED
  BY <1>1, <1>2, <1>3, <1>4 DEF IInv

-----------------------------------------------------------------------------
(***************************************************************************)
(* Forwards that are shared.                                               *)
(***************************************************************************)

LEMMA SameIsSame ==
    ASSUME NEW f \in Requests, NEW g \in SameForward(f)
    PROVE  g \in Requests /\ SameForward(g) = SameForward(f)
BY DEF SameForward, Of

\* Of the requests W some, the first for a forward there is not, ask for it; each
\* request then waits for its forward or leases it.
Shared(W, a, F) ==
    /\ \A f \in F : (forwards \cup forwardPromises) \cap SameForward(f) = {}
    /\ \A f, g \in F : g \in SameForward(f) => f = g
    /\ forwards' = forwards /\ forwardPromises' = forwardPromises \cup F
    /\ asked' = asked \cup F /\ detached' = detached \ F
    /\ on' = [q \in Requests |-> IF q \in F THEN a ELSE on[q]]
    /\ pc' \in [Requests -> Places] /\ via' \in [Requests -> Requests \cup {None}]
    /\ \A q \in Requests \ W : pc'[q] = pc[q] /\ via'[q] = via[q]
    /\ \A q \in W : \/ pc'[q] = "leased" /\ via'[q] \in forwards \cap SameForward(q)
                    \/ pc'[q] = "forwarding" /\ via'[q] \in forwardPromises' \cap SameForward(q)

LEMMA ForwardsShared ==
    ASSUME TypeOK, NEW W \in SUBSET Requests, NEW a, ForwardShared(W, a)
    PROVE  \E F \in SUBSET W : Shared(W, a, F)
<1> DEFINE open(q) == forwards \cap SameForward(q)
           fresh == {q \in W : (forwards \cup forwardPromises) \cap SameForward(q) = {}}
           first == {q \in fresh : q = CHOOSE p \in fresh \cap SameForward(q) : TRUE}
           shared(q) == IF open(q) # {} THEN open(q)
                        ELSE (forwardPromises \cup first) \cap SameForward(q)
<1>1. /\ pc' = [q \in Requests |-> IF q \notin W THEN pc[q]
                                   ELSE IF open(q) # {} THEN "leased" ELSE "forwarding"]
      /\ via' = [q \in Requests |-> IF q \in W THEN CHOOSE f \in shared(q) : TRUE ELSE via[q]]
      /\ forwardPromises' = forwardPromises \cup first
      /\ asked' = asked \cup first
      /\ on' = [q \in Requests |-> IF q \in first THEN a ELSE on[q]]
      /\ detached' = detached \ first
      /\ forwards' = forwards
  BY DEF ForwardShared
<1>2. first \subseteq W /\ fresh \subseteq Requests
  OBVIOUS
<1>3. \A f \in first : (forwards \cup forwardPromises) \cap SameForward(f) = {}
  OBVIOUS
<1>4. ASSUME NEW f \in first, NEW g \in first, g \in SameForward(f)
      PROVE  f = g
  <2>1. SameForward(f) = SameForward(g)
    BY <1>2, <1>4, SameIsSame
  <2>2. f = (CHOOSE p \in fresh \cap SameForward(f) : TRUE)
    OBVIOUS
  <2>3. g = (CHOOSE p \in fresh \cap SameForward(g) : TRUE)
    OBVIOUS
  <2> HIDE DEF first, fresh
  <2>4. QED
    BY <2>1, <2>2, <2>3
<1>5. ASSUME NEW q \in W, open(q) = {}
      PROVE  (forwardPromises \cup first) \cap SameForward(q) # {}
  <2>1. CASE q \in fresh
    <3> DEFINE p == CHOOSE p \in fresh \cap SameForward(q) : TRUE
    <3>1. q \in fresh \cap SameForward(q)
      BY <2>1 DEF SameForward, Of
    <3>2. p \in fresh \cap SameForward(q)
      BY <3>1
    <3>3. SameForward(p) = SameForward(q)
      BY <1>2, <3>2, SameIsSame
    <3>4. p = (CHOOSE x \in fresh \cap SameForward(p) : TRUE)
      BY <3>3, Zenon
    <3>5. p \in first
      BY <3>2, <3>4, Zenon
    <3> HIDE DEF p, first
    <3>6. QED
      BY <3>2, <3>5
  <2>2. CASE q \notin fresh
    BY <1>5, <2>2
  <2>3. QED
    BY <2>1, <2>2
<1>6. ASSUME NEW q \in W
      PROVE  (CHOOSE f \in shared(q) : TRUE) \in shared(q)
  <2>1. shared(q) # {}
    BY <1>5
  <2> HIDE DEF shared
  <2>2. QED
    BY <2>1
<1>7. \A q \in W : \/ pc'[q] = "leased" /\ via'[q] \in forwards \cap SameForward(q)
                   \/ pc'[q] = "forwarding" /\ via'[q] \in forwardPromises' \cap SameForward(q)
  <2> SUFFICES ASSUME NEW q \in W
               PROVE  \/ pc'[q] = "leased" /\ via'[q] \in forwards \cap SameForward(q)
                      \/ pc'[q] = "forwarding" /\ via'[q] \in forwardPromises' \cap SameForward(q)
    OBVIOUS
  <2> DEFINE chosen == CHOOSE f \in shared(q) : TRUE
  <2>1. via'[q] = chosen /\ chosen \in shared(q)
    BY <1>1, <1>6
  <2>2. pc'[q] = IF open(q) # {} THEN "leased" ELSE "forwarding"
    BY <1>1
  <2> HIDE DEF chosen, first
  <2>3. QED
    BY <1>1, <2>1, <2>2
<1>8. pc' \in [Requests -> Places] /\ via' \in [Requests -> Requests \cup {None}]
  <2>1. \A q \in Requests : via'[q] \in Requests \cup {None}
    BY <1>1, <1>7 DEF TypeOK, SameForward, Of
  <2> HIDE DEF shared, first
  <2>2. QED
    BY <1>1, <2>1 DEF TypeOK, Places
<1>9. \A q \in Requests \ W : pc'[q] = pc[q] /\ via'[q] = via[q]
  BY <1>1
<1> HIDE DEF shared, first, fresh, open
<1>10. Shared(W, a, first)
  <2>1. /\ forwards' = forwards /\ forwardPromises' = forwardPromises \cup first
        /\ asked' = asked \cup first /\ detached' = detached \ first
        /\ on' = [q \in Requests |-> IF q \in first THEN a ELSE on[q]]
    BY <1>1
  <2>2. QED
    BY <2>1, <1>3, <1>4, <1>7, <1>8, <1>9, Zenon DEF Shared
<1>11. QED
  BY <1>2, <1>10

\* The requests W of a client go on to their forwards, over its connection a.
LEMMA SharedKeeps ==
    ASSUME IInv, NEW a \in Requests, NEW W \in SUBSET Of(ClientOf[a]), ForwardShared(W, a),
           ssh'[ClientOf[a]] = a, conn'[a] = "up",
           \A c \in Clients \ {ClientOf[a]} : ssh'[c] = ssh[c],
           ssh[ClientOf[a]] = a \/ forwards \cap Of(ClientOf[a]) = {},
           \A b \in Requests \ {a} : conn'[b] = conn[b],
           conn[a] \in {"up", "opening"},
           \A q \in W : q \notin asked
    PROVE  ForwardKept'
<1> DEFINE c == ClientOf[a]
<1>1. PICK F \in SUBSET W : Shared(W, a, F)
  BY ForwardsShared DEF IInv, Of
<1>2. \A f \in F : f \in Requests /\ ClientOf[f] = c /\ f \notin asked
  BY DEF Of
<1>3. \A f \in forwards' : ssh'[ClientOf[f]] # None /\ on'[f] = ssh'[ClientOf[f]]
  BY <1>1, <1>2, TunnelAssumption DEF Shared, IInv, ForwardKept, TypeOK, Of
<1>4. forwardPromises' \subseteq asked'
  BY <1>1 DEF Shared, IInv, ForwardKept
<1>5. \A f, g \in forwards' \cup forwardPromises' :
          ClientOf[f] = ClientOf[g] /\ TargetOf[f] = TargetOf[g] => f = g
  BY <1>1, <1>2 DEF Shared, IInv, ForwardKept, TypeOK, Of, SameForward
<1>6. forwardPromises' \cap (forwards' \cup detached') = {}
  BY <1>1, <1>2 DEF Shared, IInv, ForwardKept, TypeOK, Of, SameForward
<1>7. ASSUME NEW f \in asked'
      PROVE  /\ on'[f] # None /\ ClientOf[on'[f]] = ClientOf[f]
             /\ conn'[on'[f]] \in {"up", "ended", "closing", "closed"}
             /\ conn'[on'[f]] = "up" => f \in forwardPromises'
  BY <1>1, <1>2, TunnelAssumption DEF Shared, IInv, ForwardKept, TypeOK
<1>8. \A b \in detached' : conn'[b] \notin {"slot", "opening"}
  BY <1>1 DEF Shared, IInv, ForwardKept, TypeOK
<1>9. QED
  BY <1>3, <1>4, <1>5, <1>6, <1>7, <1>8 DEF ForwardKept

LEMMA AcquireOnOpenKeeps == ASSUME IInv, Prompt, NEW q \in Requests, AcquireOnOpen(q) PROVE IInv'
<1> USE TunnelAssumption
<1> DEFINE c == ClientOf[q]
           a == ssh[c]
<1>1. /\ a \in Requests /\ ClientOf[a] = c /\ conn[a] = "up" /\ c \in Clients
      /\ ForwardShared({q}, a) /\ pc[q] = "new"
      /\ UNCHANGED <<tunnels, ssh, connectPromise, holdsSlot, slotVars, conn, bounds>>
      /\ idleTimer' = idleTimer \ {c}
  BY DEF AcquireOnOpen, IInv, EntryKept, TypeOK
<1>2. {q} \in SUBSET Of(ClientOf[a]) /\ q \notin asked
  BY <1>1 DEF Of, IInv, RequestKept
<1>3. PICK F \in SUBSET {q} : Shared({q}, a, F)
  BY <1>1, ForwardsShared DEF IInv
<1>4. TypeOK' /\ SlotsAccounted'
  BY <1>1, <1>3 DEF IInv, TypeOK, SlotsAccounted, Shared, slotVars, bounds
<1>5. EntryKept' /\ ConnKept' /\ QueueKept'
  BY <1>1 DEF IInv, EntryKept, ConnKept, QueueKept, slotVars
<1>6. ForwardKept'
  <2>1. /\ ssh'[ClientOf[a]] = a /\ conn'[a] = "up" /\ ssh[ClientOf[a]] = a
        /\ \A d \in Clients \ {ClientOf[a]} : ssh'[d] = ssh[d]
        /\ \A b \in Requests \ {a} : conn'[b] = conn[b]
    BY <1>1
  <2> HIDE DEF a, c
  <2>2. QED
    BY <1>1, <1>2, <2>1, SharedKeeps
<1>7. RequestKept'
  BY <1>1, <1>3 DEF IInv, RequestKept, ForwardKept, Shared, SameForward, Of
<1>8. QED
  BY <1>4, <1>5, <1>6, <1>7 DEF IInv

LEMMA ReadyKeeps == ASSUME IInv, Prompt, NEW a \in Requests, Ready(a) PROVE IInv'
<1> USE TunnelAssumption
<1> DEFINE c == ClientOf[a]
           W == Waiters(a)
<1>1. /\ c \in Clients /\ conn[a] = "opening" /\ a \notin detached
      /\ connectPromise[c] = a /\ ssh[c] = None /\ c \in tunnels
      /\ tunnels' = tunnels \cup {c}
      /\ conn' = [conn EXCEPT ![a] = "up"] /\ ssh' = [ssh EXCEPT ![c] = a]
      /\ connectPromise' = [connectPromise EXCEPT ![c] = None]
      /\ ForwardShared(W, a) /\ UNCHANGED <<holdsSlot, idleTimer, slotVars, bounds>>
  <2>1. c \in Clients /\ conn[a] = "opening" /\ a \notin detached
    BY DEF Ready, IInv, ForwardKept
  <2>2. connectPromise[c] = a /\ a # None
    BY <2>1 DEF IInv, ConnKept
  <2>3. ssh[c] = None /\ c \in tunnels
    BY <2>1, <2>2 DEF IInv, EntryKept
  <2>4. QED
    BY <2>1, <2>2, <2>3 DEF Ready
<1>2. \A b \in Requests : conn[b] \notin {"ended", "closing", "closed"}
  BY DEF Ready, Idle, Prompt
<1>3. W \in SUBSET Of(c) /\ \A q \in Requests : q \in W <=> pc[q] = "connecting" /\ ClientOf[q] = c
  BY <1>1 DEF Waiters, IInv, RequestKept, EntryKept, Of, TypeOK
<1>4. PICK F \in SUBSET W : Shared(W, a, F)
  BY <1>1, <1>3, ForwardsShared DEF IInv, Of
<1>5. forwards \cap Of(c) = {} /\ \A f \in asked : ClientOf[f] # c
  BY <1>1, <1>2 DEF Of, IInv, ForwardKept, ConnKept, TypeOK
<1>6. TypeOK' /\ SlotsAccounted'
  <2>1. conn' \in [Requests -> ConnStates] /\ ssh' \in [Clients -> Requests \cup {None}]
        /\ connectPromise' \in [Clients -> Requests \cup {None}]
    BY <1>1 DEF IInv, TypeOK, ConnStates
  <2>2. /\ asked' \subseteq Requests /\ detached' \subseteq Requests /\ forwards' \subseteq Requests
        /\ forwardPromises' \subseteq Requests /\ on' \in [Requests -> Requests \cup {None}]
        /\ pc' \in [Requests -> Places] /\ via' \in [Requests -> Requests \cup {None}]
    BY <1>3, <1>4 DEF IInv, TypeOK, Shared, Of
  <2>3. QED
    BY <1>1, <2>1, <2>2 DEF IInv, TypeOK, SlotsAccounted, slotVars, bounds
<1>7. EntryKept'
  BY <1>1 DEF IInv, EntryKept, ConnKept, TypeOK
<1>8. ConnKept'
  BY <1>1 DEF IInv, ConnKept, EntryKept, TypeOK
<1>9. QueueKept'
  BY <1>1 DEF IInv, QueueKept, TypeOK, slotVars
<1>10. ForwardKept'
  <2>1. /\ ssh'[ClientOf[a]] = a /\ conn'[a] = "up" /\ forwards \cap Of(ClientOf[a]) = {}
        /\ \A d \in Clients \ {ClientOf[a]} : ssh'[d] = ssh[d]
        /\ \A b \in Requests \ {a} : conn'[b] = conn[b]
        /\ \A q \in W : q \notin asked
    BY <1>1, <1>3, <1>5 DEF IInv, TypeOK, Of
  <2>2. W \in SUBSET Of(ClientOf[a]) /\ ForwardShared(W, a) /\ conn[a] \in {"up", "opening"}
    BY <1>1, <1>3
  <2> HIDE DEF W, c
  <2>3. QED
    BY <2>1, <2>2, SharedKeeps
<1>11. RequestKept'
  <2> SUFFICES ASSUME NEW q \in Requests
               PROVE  /\ pc'[q] = "new" => /\ conn'[q] = "none" /\ q \notin asked' \cup detached'
                                           /\ q \notin forwards' /\ on'[q] = None
                      /\ pc'[q] = "connecting" => via'[q] # None /\ via'[q] = connectPromise'[ClientOf[q]]
                      /\ pc'[q] = "forwarding" => via'[q] \in asked' \cap SameForward(q)
                      /\ pc'[q] = "leased" => via'[q] \in forwards' \cap SameForward(q)
    BY DEF RequestKept
  <2>1. CASE q \in W
    BY <1>1, <1>4, <2>1 DEF Shared, IInv, ForwardKept
  <2>2. CASE q \notin W
    BY <1>1, <1>3, <1>4, <2>2 DEF Shared, IInv, RequestKept, TypeOK
  <2>3. QED
    BY <2>1, <2>2
<1>12. QED
  BY <1>6, <1>7, <1>8, <1>9, <1>10, <1>11 DEF IInv

LEMMA AcquireOnOpeningKeeps ==
    ASSUME IInv, Prompt, NEW q \in Requests, AcquireOnOpening(q) PROVE IInv'
<1> USE TunnelAssumption
<1>1. TypeOK' /\ SlotsAccounted'
  BY DEF IInv, AcquireOnOpening, TypeOK, SlotsAccounted, Answer, Places, forwardVars, slotVars, bounds
<1>2. EntryKept' /\ ConnKept' /\ QueueKept'
  BY DEF IInv, AcquireOnOpening, EntryKept, ConnKept, QueueKept, slotVars
<1>3. ForwardKept'
  BY DEF IInv, AcquireOnOpening, ForwardKept, forwardVars
<1>4. RequestKept'
  BY DEF IInv, AcquireOnOpening, RequestKept, forwardVars, Answer, TypeOK
<1>5. QED
  BY <1>1, <1>2, <1>3, <1>4 DEF IInv

LEMMA ReleaseKeeps == ASSUME IInv, Prompt, NEW q \in Requests, Release(q) PROVE IInv'
<1> USE TunnelAssumption
<1>1. TypeOK' /\ SlotsAccounted'
  BY DEF IInv, Release, TypeOK, SlotsAccounted, Answer, Places, forwardVars, slotVars, bounds
<1>2. EntryKept' /\ ConnKept' /\ QueueKept'
  BY DEF IInv, Release, EntryKept, ConnKept, QueueKept, slotVars
<1>3. ForwardKept'
  BY DEF IInv, Release, ForwardKept, forwardVars
<1>4. RequestKept'
  BY DEF IInv, Release, RequestKept, forwardVars, Answer, TypeOK
<1>5. QED
  BY <1>1, <1>2, <1>3, <1>4 DEF IInv

LEMMA ForwardOpenedKeeps == ASSUME IInv, Prompt, NEW f \in Requests, ForwardOpened(f) PROVE IInv'
<1> USE TunnelAssumption
<1> DEFINE a == on[f]
           c == ClientOf[f]
<1>1. /\ f \in asked /\ a \in Requests /\ c \in Clients /\ ClientOf[a] = c /\ conn[a] = "up"
      /\ f \in forwardPromises /\ f \notin detached /\ f \notin forwards
      /\ ssh[c] = a /\ c \in tunnels
  BY DEF ForwardOpened, Idle, Prompt, IInv, ForwardKept, ConnKept, EntryKept, TypeOK
<1>2. /\ forwards \cap SameForward(f) = {} /\ forwardPromises \cap SameForward(f) = {f}
  BY <1>1 DEF IInv, ForwardKept, SameForward, Of, TypeOK
<1>3. /\ asked' = asked \ {f} /\ forwardPromises' = forwardPromises \ {f}
      /\ forwards' = forwards \cup {f} /\ tunnels' = tunnels
      /\ Answer(Sharers(f), "leased")
      /\ UNCHANGED <<ssh, connectPromise, holdsSlot, idleTimer, on, slotVars, conn, detached,
                   via, bounds>>
  BY <1>1, <1>2 DEF ForwardOpened, ForwardSettled
<1>4. TypeOK' /\ SlotsAccounted'
  BY <1>3 DEF IInv, TypeOK, SlotsAccounted, Answer, Places, slotVars, bounds
<1>5. EntryKept' /\ ConnKept' /\ QueueKept'
  BY <1>3 DEF IInv, EntryKept, ConnKept, QueueKept, slotVars
<1>6. ForwardKept'
  BY <1>1, <1>2, <1>3 DEF IInv, ForwardKept, SameForward, Of
<1>7. RequestKept'
  BY <1>1, <1>3 DEF IInv, RequestKept, Answer, Sharers, TypeOK
<1>8. QED
  BY <1>4, <1>5, <1>6, <1>7 DEF IInv

LEMMA ForwardRefusedKeeps == ASSUME IInv, Prompt, NEW f \in Requests, ForwardRefused(f) PROVE IInv'
<1> USE TunnelAssumption
<1>1. /\ f \in asked /\ f \in forwardPromises /\ f \notin detached
  BY DEF ForwardRefused, Idle, Prompt, IInv, ForwardKept, TypeOK
<1>2. forwardPromises \cap SameForward(f) = {f}
  BY <1>1 DEF IInv, ForwardKept, SameForward, Of, TypeOK
<1>3. /\ asked' = asked \ {f} /\ forwardPromises' = forwardPromises \ {f}
      /\ Answer(Sharers(f), "over")
      /\ UNCHANGED <<entryVars, forwards, on, slotVars, conn, detached, via, bounds>>
  BY <1>1, <1>2 DEF ForwardRefused, ForwardSettled
<1>4. TypeOK' /\ SlotsAccounted'
  BY <1>3 DEF IInv, TypeOK, SlotsAccounted, Answer, Places, slotVars, bounds, entryVars
<1>5. EntryKept' /\ ConnKept' /\ QueueKept'
  BY <1>3 DEF IInv, EntryKept, ConnKept, QueueKept, slotVars, entryVars
<1>6. ForwardKept'
  BY <1>1, <1>3 DEF IInv, ForwardKept, entryVars
<1>7. RequestKept'
  BY <1>3 DEF IInv, RequestKept, Answer, Sharers, TypeOK, entryVars
<1>8. QED
  BY <1>4, <1>5, <1>6, <1>7 DEF IInv

-----------------------------------------------------------------------------
(***************************************************************************)
(* Connections, and the slots they take.                                   *)
(***************************************************************************)

LEMMA AcquireNewKeeps == ASSUME IInv, Prompt, NEW q \in Requests, AcquireNew(q) PROVE IInv'
<1> USE TunnelAssumption
<1> DEFINE c == ClientOf[q]
<1>1. /\ c \in Clients /\ pc[q] = "new" /\ conn[q] = "none" /\ q \notin asked \cup detached
      /\ ssh[c] = None /\ connectPromise[c] = None /\ c \notin holdsSlot
      /\ q # None /\ woken = None
      /\ \A a \in Requests : conn[a] \notin {"ended", "closing", "closed"}
  BY DEF AcquireNew, Idle, Prompt, IInv, RequestKept, EntryKept
<1>2. /\ tunnels' = tunnels \cup {c} /\ idleTimer' = idleTimer \ {c}
      /\ connectPromise' = [connectPromise EXCEPT ![c] = q]
      /\ Answer({q}, "connecting") /\ via' = [via EXCEPT ![q] = q]
      /\ UNCHANGED <<ssh, forwardVars, woken, detached, bounds>>
      /\ \/ /\ openConnections < MaxTunnels
            /\ openConnections' = openConnections + 1 /\ holdsSlot' = holdsSlot \cup {c}
            /\ conn' = [conn EXCEPT ![q] = "opening"] /\ waiting' = waiting
         \/ /\ ~(openConnections < MaxTunnels)
            /\ waiting' = Append(waiting, q) /\ conn' = [conn EXCEPT ![q] = "slot"]
            /\ UNCHANGED <<holdsSlot, openConnections>>
  BY <1>1 DEF AcquireNew, SlotFree
<1>3. \A i \in 1..Len(waiting) : waiting[i] \in Requests /\ waiting[i] # q
  BY <1>1 DEF IInv, QueueKept, TypeOK
<1>4. TypeOK'
  <2>1. /\ conn' \in [Requests -> ConnStates] /\ waiting' \in Seq(Requests)
        /\ openConnections' \in 0..MaxTunnels
    <3>1. conn \in [Requests -> ConnStates] /\ waiting \in Seq(Requests) /\ openConnections \in 0..MaxTunnels
      BY DEF IInv, TypeOK
    <3>2. conn' \in [Requests -> ConnStates]
      BY <1>2, <3>1 DEF ConnStates
    <3>3. waiting' \in Seq(Requests)
      <4>1. waiting' = waiting \/ waiting' = Append(waiting, q)
        BY <1>2
      <4>2. QED
        BY <3>1, <4>1
    <3>4. openConnections' \in 0..MaxTunnels
      <4>1. \/ openConnections < MaxTunnels /\ openConnections' = openConnections + 1
            \/ openConnections' = openConnections
        BY <1>2
      <4>2. QED
        BY <3>1, <4>1
    <3>5. QED
      BY <3>2, <3>3, <3>4
  <2>4. holdsSlot' \subseteq tunnels' /\ idleTimer' \subseteq tunnels' /\ tunnels' \subseteq Clients
    BY <1>1, <1>2 DEF IInv, TypeOK
  <2>2. /\ connectPromise' \in [Clients -> Requests \cup {None}]
        /\ pc' \in [Requests -> Places] /\ via' \in [Requests -> Requests \cup {None}]
    BY <1>1, <1>2 DEF IInv, TypeOK, Places, Answer
  <2>3. QED
    BY <1>2, <2>1, <2>2, <2>4 DEF IInv, TypeOK, forwardVars, bounds
<1>5. SlotsAccounted'
  <2>1. Cardinality(holdsSlot \cup {c}) = Cardinality(holdsSlot) + 1 /\ Cardinality(holdsSlot) \in Nat
    BY <1>1, HoldersFinite, FS_AddElement DEF IInv
  <2>2. openConnections = Cardinality(holdsSlot) /\ woken' = None
    BY <1>1, <1>2, <2>1 DEF IInv, SlotsAccounted
  <2>3. CASE openConnections' = openConnections + 1 /\ holdsSlot' = holdsSlot \cup {c}
    BY <2>1, <2>2, <2>3 DEF SlotsAccounted
  <2>4. CASE UNCHANGED <<holdsSlot, openConnections>>
    BY <2>1, <2>2, <2>4 DEF SlotsAccounted
  <2>5. QED
    BY <1>2, <2>3, <2>4
<1>6. EntryKept'
  BY <1>1, <1>2 DEF IInv, EntryKept, TypeOK
<1>7. ConnKept'
  BY <1>1, <1>2 DEF IInv, ConnKept, TypeOK
<1>8. QueueKept'
  <2>1. CASE waiting' = waiting /\ conn' = [conn EXCEPT ![q] = "opening"] /\ openConnections < MaxTunnels
    BY <1>1, <1>2, <1>3, <2>1 DEF IInv, QueueKept, TypeOK
  <2>2. CASE /\ waiting' = Append(waiting, q) /\ conn' = [conn EXCEPT ![q] = "slot"]
             /\ ~(openConnections < MaxTunnels) /\ openConnections' = openConnections
    <3>1. /\ Len(waiting') = Len(waiting) + 1 /\ waiting'[Len(waiting) + 1] = q
          /\ \A i \in 1..Len(waiting) : waiting'[i] = waiting[i]
          /\ Len(waiting) \in Nat
      BY <2>2 DEF IInv, TypeOK
    <3>2. openConnections' = MaxTunnels
      BY <2>2 DEF IInv, TypeOK
    <3>3. \A i, k \in 1..Len(waiting') : waiting'[i] = waiting'[k] => i = k
      BY <1>3, <3>1 DEF IInv, QueueKept
    <3>4. \A i \in 1..Len(waiting') : conn'[waiting'[i]] = "slot" /\ waiting'[i] # woken'
      BY <1>1, <1>2, <1>3, <2>2, <3>1 DEF IInv, QueueKept, TypeOK
    <3>5. \A a \in Requests : conn'[a] = "slot" =>
              a = woken' \/ \E i \in 1..Len(waiting') : waiting'[i] = a
      <4> SUFFICES ASSUME NEW a \in Requests, conn'[a] = "slot"
                   PROVE  \E i \in 1..Len(waiting') : waiting'[i] = a
        OBVIOUS
      <4>1. CASE a = q
        BY <3>1, <4>1
      <4>2. CASE a # q
        <5>1. PICK i \in 1..Len(waiting) : waiting[i] = a
          BY <1>1, <2>2, <4>2 DEF IInv, QueueKept, TypeOK
        <5>2. QED
          BY <3>1, <5>1
      <4>3. QED
        BY <4>1, <4>2
    <3>6. QED
      BY <1>1, <1>2, <3>2, <3>3, <3>4, <3>5 DEF QueueKept
  <2>3. QED
    BY <1>2, <2>1, <2>2
<1>9. ForwardKept'
  BY <1>1, <1>2 DEF IInv, ForwardKept, TypeOK, forwardVars
<1>10. RequestKept'
  BY <1>1, <1>2 DEF IInv, RequestKept, TypeOK, Answer, forwardVars, SameForward, Of
<1>11. QED
  BY <1>4, <1>5, <1>6, <1>7, <1>8, <1>9, <1>10 DEF IInv

\* What becomes of the queue when a slot is handed on, or is not.
LEMMA QueueReleased ==
    ASSUME NEW queue \in Seq(Requests),
           \/ waiting' = queue /\ woken' = None
           \/ queue # <<>> /\ waiting' = Tail(queue) /\ woken' = Head(queue),
           waiting' # <<>> => openConnections' = openConnections,
           \A i, k \in 1..Len(queue) : queue[i] = queue[k] => i = k,
           \A i \in 1..Len(queue) : conn'[queue[i]] = "slot",
           \A a \in Requests : conn'[a] = "slot" => \E i \in 1..Len(queue) : queue[i] = a,
           queue # <<>> => openConnections = MaxTunnels
    PROVE  QueueKept'
<1> USE TunnelAssumption
<1>1. CASE waiting' = queue /\ woken' = None
  <2>1. \A i \in 1..Len(queue) : queue[i] \in Requests
    OBVIOUS
  <2>2. QED
    BY <1>1, <2>1 DEF QueueKept
<1>2. CASE queue # <<>> /\ waiting' = Tail(queue) /\ woken' = Head(queue)
  <2>1. /\ woken' = queue[1] /\ woken' \in Requests /\ Len(queue) \in Nat /\ Len(queue) >= 1
        /\ Len(waiting') = Len(queue) - 1
        /\ \A i \in 1..Len(waiting') : waiting'[i] = queue[i + 1] /\ i + 1 \in 1..Len(queue)
    BY <1>2
  <2>2. \A i, k \in 1..Len(waiting') : waiting'[i] = waiting'[k] => i = k
    <3> SUFFICES ASSUME NEW i \in 1..Len(waiting'), NEW k \in 1..Len(waiting'),
                        waiting'[i] = waiting'[k]
                 PROVE  i = k
      OBVIOUS
    <3>1. i + 1 = k + 1
      BY <2>1
    <3>2. QED
      BY <2>1, <3>1
  <2>3. \A i \in 1..Len(waiting') : conn'[waiting'[i]] = "slot" /\ waiting'[i] # woken'
    <3> SUFFICES ASSUME NEW i \in 1..Len(waiting')
                 PROVE  conn'[waiting'[i]] = "slot" /\ waiting'[i] # woken'
      OBVIOUS
    <3>1. i + 1 # 1 /\ 1 \in 1..Len(queue)
      BY <2>1
    <3>2. queue[i + 1] # queue[1] /\ conn'[queue[i + 1]] = "slot"
      BY <2>1, <3>1
    <3>3. QED
      BY <2>1, <3>2
  <2>4. conn'[woken'] = "slot"
    BY <2>1
  <2>5. \A a \in Requests : conn'[a] = "slot" =>
            a = woken' \/ \E i \in 1..Len(waiting') : waiting'[i] = a
    <3> SUFFICES ASSUME NEW a \in Requests, conn'[a] = "slot", a # woken'
                 PROVE  \E i \in 1..Len(waiting') : waiting'[i] = a
      OBVIOUS
    <3>1. PICK i \in 1..Len(queue) : queue[i] = a
      OBVIOUS
    <3>2. i # 1
      BY <2>1, <3>1
    <3>3. i - 1 \in 1..Len(waiting') /\ (i - 1) + 1 = i
      BY <2>1, <3>2
    <3>4. waiting'[i - 1] = a
      BY <2>1, <3>1, <3>3
    <3>5. QED
      BY <3>3, <3>4
  <2>6. waiting' # <<>> => openConnections' = MaxTunnels
    BY <1>2 
  <2>7. QED
    BY <2>2, <2>3, <2>4, <2>5, <2>6 DEF QueueKept
<1>3. QED
  BY <1>1, <1>2

LEMMA SplicedQueue ==
    ASSUME NEW queue \in Seq(Requests), NEW i \in 1..Len(queue),
           \A j, k \in 1..Len(queue) : queue[j] = queue[k] => j = k
    PROVE  LET rest == Spliced(queue, i) IN
           /\ rest \in Seq(Requests)
           /\ \A j, k \in 1..Len(rest) : rest[j] = rest[k] => j = k
           /\ \A a : (\E j \in 1..Len(rest) : rest[j] = a)
                     <=> a # queue[i] /\ \E j \in 1..Len(queue) : queue[j] = a
<1> DEFINE rest == Spliced(queue, i)
           from(k) == IF k < i THEN k ELSE k + 1
<1>1. Len(queue) \in Nat /\ Len(queue) - 1 \in Nat
  OBVIOUS
<1>2. rest = [k \in 1..(Len(queue) - 1) |-> queue[from(k)]]
  BY DEF Spliced
<1>3. \A k \in 1..(Len(queue) - 1) : from(k) \in 1..Len(queue) /\ from(k) # i
  BY <1>1
<1>4. rest \in Seq(Requests) /\ Len(rest) = Len(queue) - 1
  <2>1. \A k \in 1..(Len(queue) - 1) : queue[from(k)] \in Requests
    BY <1>3
  <2> HIDE DEF from
  <2>2. rest \in [1..(Len(queue) - 1) -> Requests]
    BY <1>2, <2>1
  <2> HIDE DEF rest
  <2>3. QED
    BY <1>1, <2>2
<1>5. \A k \in 1..Len(rest) : rest[k] = queue[from(k)]
  <2> HIDE DEF from
  <2>1. QED
    BY <1>2, <1>4
<1>6. \A j, k \in 1..Len(rest) : rest[j] = rest[k] => j = k
  <2> SUFFICES ASSUME NEW j \in 1..Len(rest), NEW k \in 1..Len(rest), rest[j] = rest[k]
               PROVE  j = k
    OBVIOUS
  <2> HIDE DEF rest
  <2>1. from(j) = from(k)
    BY <1>3, <1>4, <1>5
  <2>2. j \in Nat /\ k \in Nat /\ i \in Nat
    BY <1>1, <1>4
  <2>3. QED
    BY <2>1, <2>2
<1>7. ASSUME NEW a
      PROVE  (\E j \in 1..Len(rest) : rest[j] = a)
             <=> a # queue[i] /\ \E j \in 1..Len(queue) : queue[j] = a
  <2> HIDE DEF rest
  <2>1. ASSUME NEW j \in 1..Len(rest), rest[j] = a
        PROVE  a # queue[i] /\ \E k \in 1..Len(queue) : queue[k] = a
    BY <1>3, <1>4, <1>5, <2>1
  <2>2. ASSUME NEW j \in 1..Len(queue), queue[j] = a, a # queue[i]
        PROVE  \E k \in 1..Len(rest) : rest[k] = a
    <3> DEFINE k == IF j < i THEN j ELSE j - 1
    <3>1. j # i
      BY <2>2
    <3>2. k \in 1..Len(rest) /\ from(k) = j
      BY <1>1, <1>4, <3>1
    <3> HIDE DEF k
    <3>3. rest[k] = a
      BY <1>5, <2>2, <3>2
    <3>4. QED
      BY <3>2, <3>3
  <2>3. QED
    BY <2>1, <2>2
<1>8. QED
  BY <1>4, <1>6, <1>7

LEMMA FailKeeps ==
    ASSUME IInv, Prompt, NEW a \in Requests, NEW queue \in Seq(Requests),
           Fail(a, queue), woken = None, conn[a] \in {"slot", "opening"},
           \A i, k \in 1..Len(queue) : queue[i] = queue[k] => i = k,
           \A i \in 1..Len(queue) : conn[queue[i]] = "slot" /\ queue[i] # a,
           \A b \in Requests : conn[b] = "slot" /\ b # a => \E i \in 1..Len(queue) : queue[i] = b,
           queue # <<>> => openConnections = MaxTunnels
    PROVE  IInv'
<1> USE TunnelAssumption
<1> DEFINE c == ClientOf[a]
<1>1. /\ c \in Clients /\ a \notin detached /\ connectPromise[c] = a /\ ssh[c] = None
      /\ c \in tunnels /\ a # None
  BY DEF IInv, ForwardKept, ConnKept, EntryKept
<1>2. /\ conn' = [conn EXCEPT ![a] = "gone"] /\ Answer(Waiters(a), "over")
      /\ connectPromise' = [connectPromise EXCEPT ![c] = None]
      /\ ReleaseSlot(c, queue) /\ tunnels' = tunnels
      /\ UNCHANGED <<ssh, idleTimer, forwardVars, detached, via, bounds>>
  BY <1>1 DEF Fail
<1>3. /\ holdsSlot' = holdsSlot \ {c} /\ openConnections' \in 0..MaxTunnels /\ SlotsAccounted'
      /\ waiting' \in Seq(Requests) /\ woken' \in Requests \cup {None}
      /\ \/ waiting' = queue /\ woken' = None
         \/ queue # <<>> /\ c \in holdsSlot /\ waiting' = Tail(queue) /\ woken' = Head(queue)
      /\ waiting' # <<>> => openConnections' = openConnections
  BY <1>1, <1>2, SlotReleased DEF IInv
<1>4. TypeOK'
  <2>1. /\ conn' \in [Requests -> ConnStates] /\ pc' \in [Requests -> Places]
        /\ connectPromise' \in [Clients -> Requests \cup {None}]
    BY <1>1, <1>2 DEF IInv, TypeOK, Answer, ConnStates, Places
  <2>2. QED
    BY <1>2, <1>3, <2>1 DEF IInv, TypeOK, forwardVars, bounds
<1>5. EntryKept'
  BY <1>1, <1>2, <1>3 DEF IInv, EntryKept, ConnKept, TypeOK
<1>6. ConnKept'
  BY <1>1, <1>2 DEF IInv, ConnKept, TypeOK
<1>7. QueueKept'
  <2>1. \A b \in Requests : conn'[b] = IF b = a THEN "gone" ELSE conn[b]
    BY <1>2 DEF IInv, TypeOK
  <2>2. \A i \in 1..Len(queue) : conn'[queue[i]] = "slot"
    BY <2>1
  <2>3. \A b \in Requests : conn'[b] = "slot" => \E i \in 1..Len(queue) : queue[i] = b
    BY <2>1
  <2>4. QED
    BY <1>3, <2>2, <2>3, QueueReleased
<1>8. ForwardKept'
  BY <1>1, <1>2 DEF IInv, ForwardKept, TypeOK, forwardVars
<1>9. RequestKept'
  BY <1>1, <1>2 DEF IInv, RequestKept, TypeOK, Answer, Waiters, forwardVars
<1>10. QED
  BY <1>3, <1>4, <1>5, <1>6, <1>7, <1>8, <1>9 DEF IInv

LEMMA SlotTimeoutKeeps == ASSUME IInv, Prompt, NEW a \in Requests, SlotTimeout(a) PROVE IInv'
<1>1. PICK i \in 1..Len(waiting) : waiting[i] = a /\ Fail(a, Spliced(waiting, i))
  BY DEF SlotTimeout
<1> DEFINE queue == Spliced(waiting, i)
<1>2. waiting \in Seq(Requests) /\ woken = None /\ conn[a] = "slot"
  BY <1>1 DEF SlotTimeout, Idle, IInv, TypeOK, QueueKept
<1>3. \A j, k \in 1..Len(waiting) : waiting[j] = waiting[k] => j = k
  BY DEF IInv, QueueKept
<1>4. /\ queue \in Seq(Requests)
      /\ \A j, k \in 1..Len(queue) : queue[j] = queue[k] => j = k
      /\ \A b : (\E j \in 1..Len(queue) : queue[j] = b)
                <=> b # waiting[i] /\ \E j \in 1..Len(waiting) : waiting[j] = b
  BY <1>2, <1>3, SplicedQueue
<1> HIDE DEF queue
<1>5. \A j \in 1..Len(queue) : conn[queue[j]] = "slot" /\ queue[j] # a
  <2> SUFFICES ASSUME NEW j \in 1..Len(queue)
               PROVE  conn[queue[j]] = "slot" /\ queue[j] # a
    OBVIOUS
  <2>1. PICK k \in 1..Len(waiting) : queue[j] = waiting[k] /\ queue[j] # waiting[i]
    BY <1>4
  <2>2. QED
    BY <1>1, <2>1 DEF IInv, QueueKept
<1>6. \A b \in Requests : conn[b] = "slot" /\ b # a => \E j \in 1..Len(queue) : queue[j] = b
  BY <1>1, <1>2, <1>4, TunnelAssumption DEF IInv, QueueKept
<1>7. queue # <<>> => openConnections = MaxTunnels
  BY <1>1, <1>2 DEF IInv, QueueKept
<1>8. QED
  BY <1>1, <1>2, <1>4, <1>5, <1>6, <1>7, FailKeeps DEF queue

LEMMA ConnectFailsKeeps == ASSUME IInv, Prompt, NEW a \in Requests, ConnectFails(a) PROVE IInv'
<1>1. /\ Fail(a, waiting) /\ woken = None /\ conn[a] = "opening" /\ waiting \in Seq(Requests)
  BY DEF ConnectFails, Idle, IInv, TypeOK
<1>2. /\ \A i, k \in 1..Len(waiting) : waiting[i] = waiting[k] => i = k
      /\ \A i \in 1..Len(waiting) : conn[waiting[i]] = "slot" /\ waiting[i] # a
      /\ \A b \in Requests : conn[b] = "slot" /\ b # a => \E i \in 1..Len(waiting) : waiting[i] = b
      /\ waiting # <<>> => openConnections = MaxTunnels
  BY <1>1, TunnelAssumption DEF IInv, QueueKept
<1>3. QED
  BY <1>1, <1>2, FailKeeps

LEMMA SlotHandedKeeps == ASSUME IInv, Prompt, SlotHanded PROVE IInv'
<1> USE TunnelAssumption
<1> DEFINE a == woken
           c == ClientOf[a]
<1>1. /\ a \in Requests /\ c \in Clients /\ conn[a] = "slot" /\ connectPromise[c] = a
      /\ c \in tunnels /\ ssh[c] = None /\ c \notin holdsSlot
  BY DEF SlotHanded, IInv, TypeOK, QueueKept, ConnKept, EntryKept
<1>2. /\ holdsSlot' = holdsSlot \cup {c}
      /\ conn' = [conn EXCEPT ![a] = "opening"] /\ woken' = None
      /\ UNCHANGED <<tunnels, openConnections, waiting, pc>>
      /\ UNCHANGED <<ssh, connectPromise, idleTimer, forwardVars, detached, via, bounds>>
  BY <1>1 DEF SlotHanded
<1>3. TypeOK'
  BY <1>1, <1>2 DEF IInv, TypeOK, ConnStates, forwardVars, bounds
<1>4. SlotsAccounted'
  <2>1. Cardinality(holdsSlot \cup {c}) = Cardinality(holdsSlot) + 1 /\ Cardinality(holdsSlot) \in Nat
    BY <1>1, HoldersFinite, FS_AddElement DEF IInv
  <2>2. openConnections = Cardinality(holdsSlot) + 1
    BY <1>1 DEF IInv, SlotsAccounted
  <2>3. QED
    BY <1>2, <2>1, <2>2 DEF SlotsAccounted
<1>5. EntryKept'
  BY <1>1, <1>2 DEF IInv, EntryKept, TypeOK
<1>6. ConnKept'
  BY <1>1, <1>2 DEF IInv, ConnKept, TypeOK
<1>7. QueueKept'
  <2>1. \A i \in 1..Len(waiting) : waiting[i] \in Requests /\ waiting[i] # a
    BY DEF IInv, TypeOK, QueueKept
  <2>2. QED
    BY <1>1, <1>2, <2>1 DEF IInv, QueueKept, TypeOK
<1>8. ForwardKept'
  BY <1>1, <1>2 DEF IInv, ForwardKept, ConnKept, TypeOK, forwardVars
<1>9. RequestKept'
  BY <1>1, <1>2 DEF IInv, RequestKept, TypeOK, forwardVars
<1>10. QED
  BY <1>3, <1>4, <1>5, <1>6, <1>7, <1>8, <1>9 DEF IInv

-----------------------------------------------------------------------------
(***************************************************************************)
(* The end of connections.                                                 *)
(***************************************************************************)

LEMMA DisconnectKeeps == ASSUME IInv, Prompt, NEW c \in Clients, Disconnect(c) PROVE IInv'
<1> USE TunnelAssumption
<1>1. TypeOK' /\ SlotsAccounted'
  BY DEF IInv, Disconnect, DropLeases, TimerOnDrop, TypeOK, SlotsAccounted, Answer, Places,
         forwardVars, slotVars
<1>2. EntryKept' /\ ConnKept' /\ QueueKept'
  BY DEF IInv, Disconnect, EntryKept, ConnKept, QueueKept, slotVars
<1>3. ForwardKept'
  BY DEF IInv, Disconnect, ForwardKept, forwardVars
<1>4. RequestKept'
  BY DEF IInv, Disconnect, DropLeases, RequestKept, forwardVars, Answer, TypeOK
<1>5. QED
  BY <1>1, <1>2, <1>3, <1>4 DEF IInv

LEMMA ForwardsFailKeeps == ASSUME IInv, Prompt, NEW a \in Requests, ForwardsFail(a) PROVE IInv'
<1> USE TunnelAssumption
<1> DEFINE c == ClientOf[a]
           failed == {f \in asked : on[f] = a}
           settled == UNION {SameForward(f) : f \in failed \ detached}
           answered == UNION {Sharers(f) : f \in failed}
<1>1. /\ woken = None /\ conn[a] = "closed" /\ c \in Clients
      /\ ssh[c] = None /\ connectPromise[c] = None
  BY DEF ForwardsFail, IInv, ConnKept
<1>2. /\ conn' = [conn EXCEPT ![a] = "gone"] /\ asked' = asked \ failed
      /\ forwardPromises' = forwardPromises \ settled
      /\ Answer(answered, "over")
      /\ UNCHANGED <<entryVars, forwards, on, slotVars, detached, via, bounds>>
  BY DEF ForwardsFail
<1>3. \A f \in failed \ detached : f \in settled
  BY DEF SameForward, Of, IInv, TypeOK
<1>4. ASSUME NEW f \in settled PROVE f \in Requests /\ ClientOf[f] = c
  BY DEF SameForward, Of, IInv, TypeOK, ForwardKept
<1>5. \A q \in Requests : q \in answered <=> pc[q] = "forwarding" /\ via[q] \in failed
  BY DEF Sharers
<1> HIDE DEF settled, answered
<1>6. TypeOK' /\ SlotsAccounted'
  BY <1>2 DEF IInv, TypeOK, SlotsAccounted, Answer, Places, ConnStates, entryVars, slotVars, bounds
<1>7. EntryKept' /\ ConnKept'
  BY <1>1, <1>2 DEF IInv, EntryKept, ConnKept, TypeOK, entryVars
<1>8. QueueKept'
  BY <1>1, <1>2 DEF IInv, QueueKept, TypeOK, slotVars
<1>9. ForwardKept'
  <2>1. forwardPromises' \subseteq asked'
    BY <1>2, <1>3 DEF IInv, ForwardKept
  <2>2. ASSUME NEW f \in asked'
        PROVE  /\ on'[f] # None /\ ClientOf[on'[f]] = ClientOf[f]
               /\ conn'[on'[f]] \in {"up", "ended", "closing", "closed"}
               /\ conn'[on'[f]] = "up" => f \in forwardPromises'
    <3>1. on[f] \in Requests /\ on[f] # a /\ on' = on /\ f \in asked /\ ClientOf[on[f]] = ClientOf[f]
      BY <1>2 DEF IInv, ForwardKept, TypeOK, entryVars
    <3>2. conn'[on[f]] = conn[on[f]]
      BY <1>2, <3>1 DEF IInv, TypeOK
    <3>3. conn[on[f]] = "up" => f \notin settled
      BY <1>1, <1>4, <3>1 DEF IInv, ConnKept
    <3>4. QED
      BY <1>2, <3>1, <3>2, <3>3 DEF IInv, ForwardKept
  <2>3. \A b \in detached' : conn'[b] \notin {"slot", "opening"}
    BY <1>2 DEF IInv, ForwardKept, TypeOK
  <2>4. QED
    BY <1>2, <2>1, <2>2, <2>3 DEF IInv, ForwardKept, entryVars
<1>10. RequestKept'
  BY <1>1, <1>2, <1>5 DEF IInv, RequestKept, TypeOK, Answer, entryVars
<1>11. QED
  BY <1>6, <1>7, <1>8, <1>9, <1>10 DEF IInv

\* What the end of the connection a of client c does to entry and queue, whichever
\* way it comes.
Ending(c, a, state) ==
    /\ ssh' = [ssh EXCEPT ![c] = None] /\ conn' = [conn EXCEPT ![a] = state]
    /\ connectPromise' = connectPromise
    /\ ReleaseSlot(c, waiting)

LEMMA EndingKeeps ==
    ASSUME IInv, NEW c \in Clients, NEW a \in Requests, ssh[c] = a, woken = None,
           NEW state \in {"ended", "closing", "closed"}, Ending(c, a, state),
           tunnels' \in {tunnels, tunnels \ {c}}
    PROVE  /\ SlotsAccounted' /\ EntryKept' /\ ConnKept' /\ QueueKept'
           /\ ssh' \in [Clients -> Requests \cup {None}] /\ conn' \in [Requests -> ConnStates]
           /\ holdsSlot' = holdsSlot \ {c} /\ openConnections' \in 0..MaxTunnels
           /\ waiting' \in Seq(Requests) /\ woken' \in Requests \cup {None}
           /\ ClientOf[a] = c /\ conn[a] = "up" /\ connectPromise[c] = None
<1> USE TunnelAssumption
<1>1. ClientOf[a] = c /\ conn[a] = "up" /\ connectPromise[c] = None /\ a # None
  BY DEF IInv, EntryKept
<1>2. /\ ssh' = [ssh EXCEPT ![c] = None] /\ conn' = [conn EXCEPT ![a] = state]
      /\ connectPromise' = connectPromise /\ ReleaseSlot(c, waiting)
  BY DEF Ending
<1>3. /\ holdsSlot' = holdsSlot \ {c} /\ openConnections' \in 0..MaxTunnels /\ SlotsAccounted'
      /\ waiting' \in Seq(Requests) /\ woken' \in Requests \cup {None}
      /\ \/ waiting' = waiting /\ woken' = None
         \/ waiting # <<>> /\ c \in holdsSlot /\ waiting' = Tail(waiting) /\ woken' = Head(waiting)
      /\ waiting' # <<>> => openConnections' = openConnections
  BY <1>2, SlotReleased DEF IInv, TypeOK
<1>4. ssh' \in [Clients -> Requests \cup {None}] /\ conn' \in [Requests -> ConnStates]
  BY <1>2 DEF IInv, TypeOK, ConnStates
<1>5. EntryKept'
  BY <1>1, <1>2, <1>3 DEF IInv, EntryKept, TypeOK
<1>6. ConnKept'
  BY <1>1, <1>2 DEF IInv, ConnKept, EntryKept, TypeOK
<1>7. QueueKept'
  <2>1. \A b \in Requests : conn'[b] = IF b = a THEN state ELSE conn[b]
    BY <1>2 DEF IInv, TypeOK
  <2>2. /\ waiting \in Seq(Requests)
        /\ \A i, k \in 1..Len(waiting) : waiting[i] = waiting[k] => i = k
        /\ \A i \in 1..Len(waiting) : conn[waiting[i]] = "slot" /\ waiting[i] \in Requests
        /\ \A b \in Requests : conn[b] = "slot" => \E i \in 1..Len(waiting) : waiting[i] = b
        /\ waiting # <<>> => openConnections = MaxTunnels
    BY DEF IInv, QueueKept, TypeOK
  <2>3. \A i \in 1..Len(waiting) : conn'[waiting[i]] = "slot"
    BY <1>1, <2>1, <2>2
  <2>4. \A b \in Requests : conn'[b] = "slot" => \E i \in 1..Len(waiting) : waiting[i] = b
    BY <1>1, <2>1, <2>2
  <2>5. QED
    BY <1>3, <2>2, <2>3, <2>4, QueueReleased
<1>8. QED
  BY <1>1, <1>3, <1>4, <1>5, <1>6, <1>7

LEMMA IdleTeardownKeeps == ASSUME IInv, Prompt, NEW c \in Clients, IdleTeardown(c) PROVE IInv'
<1> USE TunnelAssumption
<1> DEFINE kept == {f \in forwards : ClientOf[f] = c => \E q \in Leases : via[q] = f}
           a == ssh[c]
<1>1. /\ woken = None /\ c \in idleTimer /\ idleTimer' = idleTimer \ {c}
      /\ UNCHANGED <<tunnels, connectPromise, forwardPromises, asked, on, detached,
                     requestVars, bounds>>
  BY DEF IdleTeardown, Idle
<1>2. forwards' \subseteq forwards /\ \A q \in Leases : via[q] \in forwards'
  <2>1. \A q \in Leases : via[q] \in kept
    BY DEF IInv, RequestKept, Leases
  <2>2. forwards' = kept \/ forwards' = forwards
    BY DEF IdleTeardown
  <2>3. QED
    BY <2>1, <2>2
<1>3. CASE a = None \/ kept \cap Of(c) # {}
  <2>1. UNCHANGED <<ssh, conn, holdsSlot, slotVars>>
    BY <1>3 DEF IdleTeardown
  <2>2. TypeOK' /\ SlotsAccounted'
    BY <1>1, <1>2, <2>1 DEF IInv, TypeOK, SlotsAccounted, slotVars, requestVars, bounds
  <2>3. EntryKept' /\ ConnKept' /\ QueueKept'
    BY <1>1, <2>1 DEF IInv, EntryKept, ConnKept, QueueKept, slotVars
  <2>4. ForwardKept'
    BY <1>1, <1>2, <2>1 DEF IInv, ForwardKept
  <2>5. RequestKept'
    BY <1>1, <1>2, <2>1 DEF IInv, RequestKept, requestVars, Leases
  <2>6. QED
    BY <2>2, <2>3, <2>4, <2>5 DEF IInv
<1>4. CASE a # None /\ kept \cap Of(c) = {}
  <2>1. a \in Requests /\ Ending(c, a, "ended")
    BY <1>1, <1>4 DEF IdleTeardown, Ending, IInv, TypeOK
  <2>2. /\ SlotsAccounted' /\ EntryKept' /\ ConnKept' /\ QueueKept'
        /\ ssh' \in [Clients -> Requests \cup {None}] /\ conn' \in [Requests -> ConnStates]
        /\ holdsSlot' = holdsSlot \ {c} /\ openConnections' \in 0..MaxTunnels
        /\ waiting' \in Seq(Requests) /\ woken' \in Requests \cup {None}
        /\ ClientOf[a] = c /\ conn[a] = "up" /\ connectPromise[c] = None
    BY <1>1, <2>1, EndingKeeps
  <2>3. TypeOK'
    BY <1>1, <1>2, <2>2 DEF IInv, TypeOK, requestVars, bounds
  <2>4. forwards' \cap Of(c) = {} /\ forwards' = kept
    BY <1>4 DEF IdleTeardown
  <2>5. ssh' = [ssh EXCEPT ![c] = None] /\ conn' = [conn EXCEPT ![a] = "ended"]
    BY <2>1 DEF Ending
  <2> HIDE DEF kept
  <2>6. ForwardKept'
    <3>1. \A f \in forwards' : ssh'[ClientOf[f]] # None /\ on'[f] = ssh'[ClientOf[f]]
      BY <1>1, <1>2, <2>4, <2>5 DEF IInv, ForwardKept, TypeOK, Of
    <3>2. \A b \in Requests : conn'[b] = IF b = a THEN "ended" ELSE conn[b]
      BY <2>5 DEF IInv, TypeOK
    <3>3. \A f \in asked' :
            /\ on'[f] # None /\ ClientOf[on'[f]] = ClientOf[f]
            /\ conn'[on'[f]] \in {"up", "ended", "closing", "closed"}
            /\ conn'[on'[f]] = "up" => f \in forwardPromises'
      BY <1>1, <3>2 DEF IInv, ForwardKept, TypeOK
    <3>4. \A b \in detached' : conn'[b] \notin {"slot", "opening"}
      BY <1>1, <3>2 DEF IInv, ForwardKept, TypeOK
    <3>5. QED
      BY <1>1, <1>2, <3>1, <3>3, <3>4 DEF IInv, ForwardKept
  <2>7. RequestKept'
    BY <1>1, <1>2, <2>2, <2>5 DEF IInv, RequestKept, requestVars, Leases, TypeOK
  <2>8. QED
    BY <2>2, <2>3, <2>6, <2>7 DEF IInv
<1>5. QED
  BY <1>3, <1>4

LEMMA ConnectionEndsKeeps == ASSUME IInv, Prompt, NEW a \in Requests, ConnectionEnds(a) PROVE IInv'
<1> USE TunnelAssumption
<1> DEFINE c == ClientOf[a]
<1>1. PICK state \in {"closing", "closed"} : conn' = [conn EXCEPT ![a] = state]
  BY DEF ConnectionEnds
<1>2. /\ woken = None /\ c \in Clients /\ conn[a] \in {"up", "ended", "closing"}
      /\ HandleConnectionLost(c)
      /\ UNCHANGED <<tunnels, connectPromise, asked, on, detached, via, bounds>>
  BY DEF ConnectionEnds
<1>3. \A b \in Requests : conn'[b] = IF b = a THEN state ELSE conn[b]
  BY <1>1 DEF IInv, TypeOK
<1>4. CASE conn[a] = "up"
  <2>1. ssh[c] = a /\ a # None
    BY <1>4 DEF IInv, ConnKept
  <2>2. /\ ssh' = [ssh EXCEPT ![c] = None]
        /\ forwards' = forwards \ Of(c) /\ forwardPromises' = forwardPromises \ Of(c)
        /\ Answer(Leases \cap Of(c), "over") /\ idleTimer' = TimerOnDrop(c)
        /\ ReleaseSlot(c, waiting)
    BY <1>2, <2>1 DEF HandleConnectionLost, DropLeases
  <2>3. Ending(c, a, state)
    BY <1>1, <1>2, <2>2 DEF Ending
  <2>4. /\ SlotsAccounted' /\ EntryKept' /\ ConnKept' /\ QueueKept'
        /\ ssh' \in [Clients -> Requests \cup {None}] /\ conn' \in [Requests -> ConnStates]
        /\ holdsSlot' = holdsSlot \ {c} /\ openConnections' \in 0..MaxTunnels
        /\ waiting' \in Seq(Requests) /\ woken' \in Requests \cup {None}
        /\ ClientOf[a] = c /\ conn[a] = "up" /\ connectPromise[c] = None
    BY <1>2, <2>1, <2>3, EndingKeeps
  <2>5. TypeOK'
    BY <1>2, <2>2, <2>4 DEF IInv, TypeOK, bounds, Answer, Places, TimerOnDrop
  <2>6. ForwardKept'
    <3>1. \A f \in forwards' : ssh'[ClientOf[f]] # None /\ on'[f] = ssh'[ClientOf[f]]
      BY <1>2, <2>2 DEF IInv, ForwardKept, TypeOK, Of
    <3>2. \A f \in asked' :
            /\ on'[f] # None /\ ClientOf[on'[f]] = ClientOf[f]
            /\ conn'[on'[f]] \in {"up", "ended", "closing", "closed"}
            /\ conn'[on'[f]] = "up" => f \in forwardPromises'
      BY <1>2, <1>3, <2>1, <2>2 DEF IInv, ForwardKept, ConnKept, TypeOK, Of
    <3>3. \A b \in detached' : conn'[b] \notin {"slot", "opening"}
      BY <1>2, <1>3 DEF IInv, ForwardKept, TypeOK
    <3>4. QED
      BY <1>2, <2>2, <3>1, <3>2, <3>3 DEF IInv, ForwardKept
  <2>7. RequestKept'
    BY <1>2, <1>3, <2>2, <2>4 DEF IInv, RequestKept, TypeOK, Answer, Leases, Of, SameForward
  <2>8. QED
    BY <2>4, <2>5, <2>6, <2>7 DEF IInv
<1>5. CASE conn[a] \in {"ended", "closing"}
  <2>1. ssh[c] = None /\ connectPromise[c] = None
    BY <1>5 DEF IInv, ConnKept
  <2>2. UNCHANGED <<ssh, forwards, forwardPromises, idleTimer, pc, holdsSlot, slotVars>>
    BY <1>2, <2>1 DEF HandleConnectionLost
  <2>3. TypeOK' /\ SlotsAccounted'
    BY <1>1, <1>2, <2>2 DEF IInv, TypeOK, SlotsAccounted, slotVars, bounds, ConnStates
  <2>4. EntryKept' /\ ConnKept'
    BY <1>2, <1>3, <1>5, <2>1, <2>2 DEF IInv, EntryKept, ConnKept, TypeOK
  <2>5. QueueKept'
    BY <1>2, <1>3, <1>5, <2>2 DEF IInv, QueueKept, TypeOK, slotVars
  <2>6. ForwardKept'
    BY <1>2, <1>3, <1>5, <2>2 DEF IInv, ForwardKept, TypeOK
  <2>7. RequestKept'
    BY <1>2, <1>3, <1>5, <2>2 DEF IInv, RequestKept, TypeOK
  <2>8. QED
    BY <2>3, <2>4, <2>5, <2>6, <2>7 DEF IInv
<1>6. QED
  BY <1>2, <1>4, <1>5

LEMMA CloseClientKeeps == ASSUME IInv, Prompt, NEW c \in Clients, CloseClient(c) PROVE IInv'
<1> USE TunnelAssumption
<1> DEFINE a == ssh[c]
           left == {q \in Of(c) : conn[q] \in {"slot", "opening"} \/ q \in asked}
<1>1. /\ woken = None /\ connectPromise[c] = None
      /\ Answer(Leases \cap Of(c), "over")
      /\ tunnels' = tunnels \ {c} /\ idleTimer' = idleTimer \ {c}
      /\ conn' = [b \in Requests |-> IF b = a THEN "ended" ELSE conn[b]]
      /\ ssh' = [ssh EXCEPT ![c] = None]
      /\ connectPromise' = [connectPromise EXCEPT ![c] = None]
      /\ forwards' = forwards \ Of(c) /\ forwardPromises' = forwardPromises \ Of(c)
      /\ detached' = detached \cup left
      /\ ReleaseSlot(c, waiting)
      /\ UNCHANGED <<asked, on, via, disconnects>>
      /\ closes' \in 0..MaxCloses
  BY DEF CloseClient, Idle, Prompt, DropLeases, IInv, TypeOK
<1>2. connectPromise' = connectPromise
  BY <1>1 DEF IInv, TypeOK
<1>3. /\ SlotsAccounted' /\ EntryKept' /\ ConnKept' /\ QueueKept'
      /\ ssh' \in [Clients -> Requests \cup {None}] /\ conn' \in [Requests -> ConnStates]
      /\ holdsSlot' = holdsSlot \ {c} /\ openConnections' \in 0..MaxTunnels
      /\ waiting' \in Seq(Requests) /\ woken' \in Requests \cup {None}
  <2>1. CASE a \in Requests
    <3>1. conn' = [conn EXCEPT ![a] = "ended"]
      BY <1>1 DEF IInv, TypeOK
    <3>2. Ending(c, a, "ended")
      BY <1>1, <1>2, <3>1 DEF Ending
    <3>3. tunnels' \in {tunnels, tunnels \ {c}}
      BY <1>1
    <3> HIDE DEF a
    <3>4. ssh[c] = a
      BY DEF a
    <3>5. QED
      BY <1>1, <2>1, <3>2, <3>3, <3>4, EndingKeeps
  <2>2. CASE a = None
    <3>1. c \notin holdsSlot /\ conn' = conn /\ ssh' = ssh
      BY <1>1, <2>2 DEF IInv, TypeOK, EntryKept
    <3>2. UNCHANGED <<holdsSlot, slotVars>>
      BY <1>1, <3>1 DEF ReleaseSlot, slotVars
    <3>3. SlotsAccounted' /\ ConnKept' /\ QueueKept'
      BY <1>2, <3>1, <3>2 DEF IInv, SlotsAccounted, ConnKept, QueueKept, slotVars
    <3>4. EntryKept'
      BY <1>1, <1>2, <3>1, <3>2 DEF IInv, EntryKept
    <3>5. QED
      BY <3>1, <3>2, <3>3, <3>4 DEF IInv, TypeOK, slotVars
  <2>3. QED
    BY <2>1, <2>2 DEF IInv, TypeOK
<1>4. TypeOK'
  <2>1. pc' \in [Requests -> Places]
    BY <1>1 DEF IInv, TypeOK, Answer, Places
  <2>2. holdsSlot' \subseteq tunnels' /\ idleTimer' \subseteq tunnels' /\ tunnels' \subseteq Clients
    BY <1>1, <1>3 DEF IInv, TypeOK
  <2>3. detached' \subseteq Requests
    BY <1>1 DEF IInv, TypeOK, Of
  <2> HIDE DEF left, a
  <2>4. QED
    BY <1>1, <1>2, <1>3, <2>1, <2>2, <2>3 DEF IInv, TypeOK
<1>5. \A q \in left : q \in asked /\ ClientOf[q] = c /\ conn[q] \notin {"slot", "opening"}
  BY <1>1 DEF IInv, ConnKept, Of
<1>6. \A b \in Requests : conn'[b] = IF b = a THEN "ended" ELSE conn[b]
  BY <1>1
<1> HIDE DEF left
<1>7. ForwardKept'
  <2>1. \A f \in forwards' : ssh'[ClientOf[f]] # None /\ on'[f] = ssh'[ClientOf[f]]
    BY <1>1 DEF IInv, ForwardKept, TypeOK, Of
  <2>2. \A f \in asked' :
          /\ on'[f] # None /\ ClientOf[on'[f]] = ClientOf[f]
          /\ conn'[on'[f]] \in {"up", "ended", "closing", "closed"}
          /\ conn'[on'[f]] = "up" => f \in forwardPromises'
    BY <1>1, <1>6 DEF IInv, ForwardKept, ConnKept, TypeOK, Of
  <2>3. forwardPromises' \cap (forwards' \cup detached') = {}
    BY <1>1, <1>5 DEF IInv, ForwardKept, TypeOK, Of
  <2>4. \A b \in detached' : conn'[b] \notin {"slot", "opening"}
    BY <1>1, <1>5, <1>6 DEF IInv, ForwardKept, TypeOK
  <2>5. QED
    BY <1>1, <2>1, <2>2, <2>3, <2>4 DEF IInv, ForwardKept
<1>8. RequestKept'
  <2>1. \A q \in Requests : pc[q] = "new" => conn'[q] = "none"
    BY <1>6 DEF IInv, RequestKept, EntryKept
  <2>2. QED
    BY <1>1, <1>2, <1>5, <2>1 DEF IInv, RequestKept, TypeOK, Answer, Leases, Of, SameForward
<1>9. QED
  BY <1>3, <1>4, <1>7, <1>8 DEF IInv

-----------------------------------------------------------------------------
LEMMA NextKeeps == ASSUME Prompt, IInv, [Next]_vars PROVE IInv'
<1>1. CASE UNCHANGED vars
  BY <1>1 DEF IInv, TypeOK, SlotsAccounted, EntryKept, ConnKept, QueueKept, ForwardKept,
              RequestKept, vars, entryVars, forwardVars, slotVars, requestVars, bounds
<1>2. CASE Next
  <2>1. CASE SlotHanded
    BY <2>1, SlotHandedKeeps
  <2>2. CASE \E q \in Requests : Refuse(q) \/ AcquireOnOpen(q) \/ AcquireOnOpening(q) \/ AcquireNew(q)
    BY <2>2, RefuseKeeps, AcquireOnOpenKeeps, AcquireOnOpeningKeeps, AcquireNewKeeps
  <2>3. CASE \E q \in Requests : Connecting(q)
    BY <2>3, SlotTimeoutKeeps, ConnectFailsKeeps, ReadyKeeps DEF Connecting
  <2>4. CASE \E q \in Requests : Forwarding(q) \/ Release(q)
    BY <2>4, ForwardOpenedKeeps, ForwardRefusedKeeps, ReleaseKeeps DEF Forwarding
  <2>5. CASE \E q \in Requests : ConnectionEnds(q) \/ ForwardsFail(q)
    BY <2>5, ConnectionEndsKeeps, ForwardsFailKeeps
  <2>6. CASE \E c \in Clients : IdleTeardown(c) \/ Disconnect(c) \/ CloseClient(c)
    BY <2>6, IdleTeardownKeeps, DisconnectKeeps, CloseClientKeeps
  <2>7. QED
    BY <1>2, <2>1, <2>2, <2>3, <2>4, <2>5, <2>6 DEF Next
<1>3. QED
  BY <1>1, <1>2

LEMMA InvHolds == ASSUME Prompt PROVE Spec => []IInv
<1>1. IInv /\ [Next]_vars => IInv'
  BY NextKeeps
<1>2. QED
  BY <1>1, InitInv, PTL DEF Spec

\* Connections that are open, or being opened, are those of different clients,
\* each of which holds a slot.
LEMMA LimitFollows == ASSUME IInv PROVE LimitRespected
<1> USE TunnelAssumption
<1> DEFINE S == {a \in Requests : conn[a] \in {"opening", "up"}}
           f == [a \in S |-> ClientOf[a]]
<1>1. f \in [S -> holdsSlot]
  BY DEF IInv, TypeOK, ConnKept, EntryKept
<1>2. \A a, b \in S : f[a] = f[b] => a = b
  BY DEF IInv, ConnKept, EntryKept
<1>3. f \in Injection(S, holdsSlot)
  BY <1>1, <1>2 DEF Injection, IsInjective
<1>4. IsFiniteSet(S) /\ Cardinality(S) <= Cardinality(holdsSlot)
  BY <1>3, HoldersFinite, FS_Injection DEF IInv
<1>5. Cardinality(S) \in Nat /\ Cardinality(holdsSlot) \in Nat
  BY <1>4, HoldersFinite, FS_CardinalityType DEF IInv
<1> HIDE DEF S
<1>6. Cardinality(S) <= MaxTunnels
  BY <1>4, <1>5 DEF IInv, TypeOK, SlotsAccounted
<1>7. QED
  BY <1>6 DEF LimitRespected, S

\* Never more than maxConcurrentTunnels SSH connections are open or being opened,
\* and the count of slots is that of the clients which hold one or are about to.
THEOREM LimitIsKept == ASSUME Prompt PROVE Spec => []SlotsHold
<1>1. IInv => SlotsHold
  BY LimitFollows DEF IInv, SlotsHold
<1>2. QED
  BY <1>1, InvHolds, PTL

\* A client has one connection, and what is leased is an open forward over it.
THEOREM LeasesAreUsable == ASSUME Prompt PROVE Spec => []LeasesHold
<1>1. IInv => LeasesHold
  <2>1. IInv => OneConnection
    BY TunnelAssumption DEF IInv, OneConnection, ConnKept
  <2>2. IInv => LeaseIsUsable
    BY TunnelAssumption DEF IInv, LeaseIsUsable, Leases, RequestKept, ForwardKept, SameForward, Of, TypeOK
  <2>3. QED
    BY <2>1, <2>2 DEF LeasesHold
<1>2. QED
  BY <1>1, InvHolds, PTL

-----------------------------------------------------------------------------
(***************************************************************************)
(* The slots implement module SlotPool.                                    *)
(***************************************************************************)

LEMMA LineIsSeq ==
    ASSUME NEW queue \in Seq(Requests)
    PROVE  /\ Line(queue) \in Seq(Clients) /\ Len(Line(queue)) = Len(queue)
           /\ \A i \in 1..Len(queue) : Line(queue)[i] = ClientOf[queue[i]]
           /\ Line(queue) = <<>> <=> queue = <<>>
<1>1. Len(queue) \in Nat /\ \A i \in 1..Len(queue) : ClientOf[queue[i]] \in Clients
  BY TunnelAssumption
<1>2. Line(queue) \in [1..Len(queue) -> Clients]
  BY <1>1 DEF Line
<1>3. Line(queue) \in Seq(Clients) /\ Len(Line(queue)) = Len(queue)
  <2> HIDE DEF Line
  <2>1. QED
    BY <1>1, <1>2
<1>4. \A i \in 1..Len(queue) : Line(queue)[i] = ClientOf[queue[i]]
  BY DEF Line
<1>5. QED
  BY <1>3, <1>4

\* Two lines are the same if they have the same length and the same clients.
LEMMA SameLine ==
    ASSUME NEW s \in Seq(Clients), NEW t \in Seq(Clients), Len(s) = Len(t),
           \A i \in 1..Len(s) : s[i] = t[i]
    PROVE  s = t
  OBVIOUS

LEMMA LineTail ==
    ASSUME NEW queue \in Seq(Requests), queue # <<>>
    PROVE  Line(Tail(queue)) = Tail(Line(queue)) /\ Head(Line(queue)) = ClientOf[Head(queue)]
<1> DEFINE rest == Tail(queue)
           line == Line(queue)
<1>1. /\ rest \in Seq(Requests) /\ Len(queue) \in Nat /\ Len(queue) >= 1 /\ Len(rest) = Len(queue) - 1
      /\ \A i \in 1..Len(rest) : rest[i] = queue[i + 1] /\ i + 1 \in 1..Len(queue)
  OBVIOUS
<1>2. /\ line \in Seq(Clients) /\ Len(line) = Len(queue) /\ line # <<>>
      /\ \A i \in 1..Len(queue) : line[i] = ClientOf[queue[i]]
  BY LineIsSeq
<1>3. /\ Line(rest) \in Seq(Clients) /\ Len(Line(rest)) = Len(rest)
      /\ \A i \in 1..Len(rest) : Line(rest)[i] = ClientOf[rest[i]]
  BY <1>1, LineIsSeq
<1> HIDE DEF rest, line
<1>4. /\ Tail(line) \in Seq(Clients) /\ Len(Tail(line)) = Len(line) - 1
      /\ \A i \in 1..Len(Tail(line)) : Tail(line)[i] = line[i + 1]
      /\ Head(line) = line[1]
  BY <1>2
<1>5. Line(rest) = Tail(line)
  <2>1. \A i \in 1..Len(Line(rest)) : Line(rest)[i] = Tail(line)[i]
    BY <1>1, <1>2, <1>3, <1>4
  <2>2. QED
    BY <1>1, <1>2, <1>3, <1>4, <2>1, SameLine
<1>6. Head(line) = ClientOf[Head(queue)]
  BY <1>1, <1>2, <1>4
<1>7. QED
  BY <1>5, <1>6 DEF rest, line

LEMMA LineAppend ==
    ASSUME NEW queue \in Seq(Requests), NEW q \in Requests
    PROVE  Line(Append(queue, q)) = Append(Line(queue), ClientOf[q])
<1> DEFINE more == Append(queue, q)
           line == Line(queue)
           c == ClientOf[q]
<1>1. /\ more \in Seq(Requests) /\ Len(queue) \in Nat /\ Len(more) = Len(queue) + 1
      /\ more[Len(queue) + 1] = q /\ \A i \in 1..Len(queue) : more[i] = queue[i]
      /\ c \in Clients
  BY TunnelAssumption
<1>2. /\ line \in Seq(Clients) /\ Len(line) = Len(queue)
      /\ \A i \in 1..Len(queue) : line[i] = ClientOf[queue[i]]
  BY LineIsSeq
<1>3. /\ Line(more) \in Seq(Clients) /\ Len(Line(more)) = Len(more)
      /\ \A i \in 1..Len(more) : Line(more)[i] = ClientOf[more[i]]
  BY <1>1, LineIsSeq
<1>4. c = ClientOf[q]
  OBVIOUS
<1> HIDE DEF more, line, c
<1>5. /\ Append(line, c) \in Seq(Clients) /\ Len(Append(line, c)) = Len(line) + 1
      /\ Append(line, c)[Len(line) + 1] = c
      /\ \A i \in 1..Len(line) : Append(line, c)[i] = line[i]
  BY <1>1, <1>2
<1>6. \A i \in 1..Len(Line(more)) : Line(more)[i] = Append(line, c)[i]
  BY <1>1, <1>2, <1>3, <1>4, <1>5
<1>7. Line(more) = Append(line, c)
  BY <1>1, <1>2, <1>3, <1>5, <1>6, SameLine
<1>8. QED
  BY <1>7 DEF more, line, c

LEMMA LineSpliced ==
    ASSUME NEW queue \in Seq(Requests), NEW i \in 1..Len(queue)
    PROVE  Line(Spliced(queue, i)) =
           [k \in 1..(Len(Line(queue)) - 1) |-> Line(queue)[IF k < i THEN k ELSE k + 1]]
<1> DEFINE rest == Spliced(queue, i)
           from(k) == IF k < i THEN k ELSE k + 1
           N == Len(queue) - 1
<1>1. N \in Nat /\ \A k \in 1..N : from(k) \in 1..Len(queue)
  OBVIOUS
<1>2. rest = [k \in 1..N |-> queue[from(k)]]
  BY DEF Spliced
<1>3. Len(rest) = N
  <2>1. \A k \in 1..N : queue[from(k)] \in Requests
    BY <1>1
  <2> HIDE DEF from, N
  <2>2. rest \in [1..N -> Requests]
    BY <1>2, <2>1
  <2> HIDE DEF rest
  <2>3. QED
    BY <1>1, <2>2
<1>4. Len(Line(queue)) - 1 = N /\ \A k \in 1..N : Line(queue)[from(k)] = ClientOf[queue[from(k)]]
  BY <1>1, LineIsSeq
<1> HIDE DEF from, N
<1>5. \A k \in 1..N : rest[k] = queue[from(k)]
  BY <1>2
<1> HIDE DEF rest
<1>6. Line(rest) = [k \in 1..N |-> ClientOf[rest[k]]]
  BY <1>3 DEF Line
<1>7. Line(rest) = [k \in 1..N |-> Line(queue)[from(k)]]
  BY <1>4, <1>5, <1>6
<1>8. QED
  BY <1>4, <1>7 DEF rest, from

\* What a step does to the slots: nothing, or one of the steps of module SlotPool.
PoolStep == SP!Next \/ UNCHANGED <<Holders, Line(waiting)>>

LEMMA SameCardinality == \A S : SP!Cardinality(S) = Cardinality(S)
BY Zenon DEF SP!Cardinality, Cardinality

LEMMA PoolState ==
    ASSUME IInv
    PROVE  /\ Cardinality(Holders) = openConnections /\ Holders \subseteq Clients
           /\ waiting \in Seq(Requests)
           /\ waiting # <<>> => openConnections = MaxTunnels
           /\ openConnections \in 0..MaxTunnels
<1> USE TunnelAssumption
<1>1. CASE woken = None
  <2>1. Holders = holdsSlot
    BY <1>1 DEF Holders
  <2>2. QED
    BY <1>1, <2>1, HoldersFinite DEF IInv, SlotsAccounted, TypeOK, QueueKept
<1>2. CASE woken # None
  <2> DEFINE c == ClientOf[woken]
  <2>1. Holders = holdsSlot \cup {c}
    BY <1>2 DEF Holders
  <2>2. c \notin holdsSlot /\ c \in Clients
    BY <1>2 DEF IInv, TypeOK, QueueKept, ConnKept, EntryKept
  <2>3. Cardinality(Holders) = Cardinality(holdsSlot) + 1
    BY <2>1, <2>2, HoldersFinite, FS_AddElement DEF IInv
  <2>4. openConnections = Cardinality(holdsSlot) + 1
    BY <1>2 DEF IInv, SlotsAccounted
  <2>5. QED
    BY <2>1, <2>2, <2>3, <2>4 DEF IInv, TypeOK, QueueKept
<1>3. QED
  BY <1>1, <1>2

LEMMA PoolStutters ==
    ASSUME UNCHANGED <<holdsSlot, waiting, woken>>
    PROVE  PoolStep
BY DEF PoolStep, Holders, Line

\* A released slot is returned, and goes to the first of the line if there is one.
LEMMA PoolReleases ==
    ASSUME IInv, NEW c \in Clients, woken = None, ReleaseSlot(c, waiting)
    PROVE  PoolStep
<1> USE TunnelAssumption
<1>1. CASE c \notin holdsSlot
  BY <1>1, PoolStutters DEF ReleaseSlot
<1>2. CASE c \in holdsSlot
  <2>1. waiting \in Seq(Requests)
    BY PoolState
  <2>2. Holders = holdsSlot
    BY DEF Holders
  <2>3. CASE waiting = <<>>
    <3>1. Holders' = Holders \ {c} /\ Line(waiting)' = Line(waiting) /\ Line(waiting) = <<>>
      BY <1>2, <2>1, <2>2, <2>3, LineIsSeq DEF ReleaseSlot, Holders, Line
    <3>2. SP!Return(c)
      BY <1>2, <2>2, <3>1 DEF SP!Return
    <3>3. QED
      BY <3>2 DEF PoolStep, SP!Next
  <2>4. CASE waiting # <<>>
    <3>1. /\ holdsSlot' = holdsSlot \ {c} /\ waiting' = Tail(waiting) /\ woken' = Head(waiting)
      BY <1>2, <2>4 DEF ReleaseSlot
    <3>2. Head(waiting) \in Requests
      BY <2>1, <2>4
    <3>3. Line(waiting') = Tail(Line(waiting)) /\ Head(Line(waiting)) = ClientOf[Head(waiting)]
          /\ Line(waiting) # <<>>
      BY <2>1, <2>4, <3>1, LineTail, LineIsSeq
    <3>4. Holders' = (Holders \ {c}) \cup {Head(Line(waiting))}
      BY <2>2, <3>1, <3>2, <3>3 DEF Holders
    <3>5. SP!Return(c)
      BY <1>2, <2>2, <3>3, <3>4 DEF SP!Return
    <3>6. QED
      BY <3>5 DEF PoolStep, SP!Next
  <2>5. QED
    BY <2>3, <2>4
<1>3. QED
  BY <1>1, <1>2

LEMMA PoolAcquires ==
    ASSUME IInv, NEW q \in Requests, AcquireNew(q)
    PROVE  PoolStep
<1> USE TunnelAssumption
<1> DEFINE c == ClientOf[q]
<1>1. /\ c \in Clients /\ ssh[c] = None /\ connectPromise[c] = None /\ c \notin holdsSlot
      /\ woken = None /\ woken' = None
  BY DEF AcquireNew, Idle, IInv, EntryKept
<1>2. /\ Cardinality(Holders) = openConnections /\ waiting \in Seq(Requests)
      /\ waiting # <<>> => openConnections = MaxTunnels
      /\ openConnections \in 0..MaxTunnels
      /\ Holders = holdsSlot
  BY <1>1, PoolState DEF Holders
<1>3. CASE SlotFree /\ holdsSlot' = holdsSlot \cup {c} /\ waiting' = waiting
  <2>1. Cardinality(Holders) < MaxTunnels /\ waiting = <<>>
    BY <1>2, <1>3 DEF SlotFree
  <2>2. Holders' = Holders \cup {c} /\ Line(waiting)' = Line(waiting) /\ Line(waiting) = <<>>
    BY <1>1, <1>2, <1>3, <2>1, LineIsSeq DEF Holders, Line
  <2>3. SP!Take(c)
    BY <1>1, <1>2, <2>1, <2>2, SameCardinality DEF SP!Take
  <2>4. QED
    BY <1>1, <2>3 DEF PoolStep, SP!Next
<1>4. CASE ~SlotFree /\ holdsSlot' = holdsSlot /\ waiting' = Append(waiting, q)
  <2>1. Cardinality(Holders) = MaxTunnels
    BY <1>2, <1>4 DEF SlotFree
  <2>2. /\ Holders' = Holders /\ Line(waiting') = Append(Line(waiting), c)
    BY <1>1, <1>2, <1>4, LineAppend DEF Holders
  <2>3. \A i \in 1..Len(waiting) : ClientOf[waiting[i]] # c
    BY <1>1, <1>2 DEF IInv, QueueKept, ConnKept
  <2>4. \A i \in DOMAIN Line(waiting) : Line(waiting)[i] # c
    BY <2>3 DEF Line
  <2>5. SP!Wait(c)
    BY <1>1, <1>2, <2>1, <2>2, <2>4, SameCardinality DEF SP!Wait, SP!InQueue
  <2>6. QED
    BY <1>1, <2>5 DEF PoolStep, SP!Next
<1>5. QED
  BY <1>1, <1>3, <1>4 DEF AcquireNew

LEMMA PoolGivesUp ==
    ASSUME IInv, NEW a \in Requests, SlotTimeout(a)
    PROVE  PoolStep
<1> USE TunnelAssumption
<1>1. PICK i \in 1..Len(waiting) : waiting[i] = a /\ Fail(a, Spliced(waiting, i))
  BY DEF SlotTimeout
<1>2. ClientOf[a] \in Clients /\ ClientOf[a] \notin holdsSlot /\ woken = None
  BY <1>1 DEF SlotTimeout, Idle, IInv, QueueKept, ConnKept, EntryKept
<1>3. waiting' = Spliced(waiting, i) /\ UNCHANGED <<holdsSlot, woken>>
  BY <1>1, <1>2 DEF Fail, ReleaseSlot
<1>4. Holders' = Holders /\ waiting \in Seq(Requests)
  BY <1>3, PoolState DEF Holders
<1>5. /\ Line(waiting') =
            [k \in 1..(Len(Line(waiting)) - 1) |-> Line(waiting)[IF k < i THEN k ELSE k + 1]]
      /\ i \in 1..Len(Line(waiting))
  BY <1>3, <1>4, LineSpliced, LineIsSeq
<1>6. SP!GiveUp(i)
  BY <1>4, <1>5 DEF SP!GiveUp
<1>7. QED
  BY <1>5, <1>6 DEF PoolStep, SP!Next

LEMMA PoolHandsOver == ASSUME IInv, Prompt, SlotHanded PROVE PoolStep
<1> USE TunnelAssumption
<1>1. /\ woken \in Requests /\ woken # None /\ ClientOf[woken] \in tunnels
  BY DEF SlotHanded, IInv, TypeOK, QueueKept, ConnKept, EntryKept
<1>2. holdsSlot' = holdsSlot \cup {ClientOf[woken]} /\ woken' = None /\ waiting' = waiting
  BY <1>1 DEF SlotHanded
<1>3. QED
  BY <1>1, <1>2 DEF PoolStep, Holders, Line

LEMMA PoolNext == ASSUME Prompt, IInv, [Next]_vars PROVE PoolStep
<1>1. CASE UNCHANGED vars
  BY <1>1, PoolStutters DEF vars, entryVars, slotVars
<1>2. CASE SlotHanded
  BY <1>2, PoolHandsOver
<1>3. ASSUME NEW q \in Requests,
             \/ Refuse(q) \/ AcquireOnOpen(q) \/ AcquireOnOpening(q) \/ Ready(q)
             \/ Forwarding(q) \/ Release(q) \/ ForwardsFail(q)
      PROVE  PoolStep
  BY <1>3, PoolStutters DEF Refuse, AcquireOnOpen, AcquireOnOpening, Ready, Forwarding,
     ForwardOpened, ForwardRefused, Release, ForwardsFail, slotVars, entryVars
<1>4. ASSUME NEW q \in Requests, AcquireNew(q) \/ SlotTimeout(q)
      PROVE  PoolStep
  BY <1>4, PoolAcquires, PoolGivesUp
<1>5. ASSUME NEW q \in Requests, ConnectFails(q)
      PROVE  PoolStep
  BY <1>5, PoolReleases, TunnelAssumption DEF ConnectFails, Fail, Idle
<1>6. ASSUME NEW q \in Requests, ConnectionEnds(q)
      PROVE  PoolStep
  <2>1. woken = None /\ ClientOf[q] \in Clients /\ HandleConnectionLost(ClientOf[q])
    BY <1>6, TunnelAssumption DEF ConnectionEnds
  <2>2. \/ UNCHANGED <<holdsSlot, slotVars>>
        \/ ReleaseSlot(ClientOf[q], waiting)
    BY <2>1 DEF HandleConnectionLost
  <2>3. QED
    BY <2>1, <2>2, PoolReleases, PoolStutters DEF slotVars
<1>7. ASSUME NEW c \in Clients, IdleTeardown(c)
      PROVE  PoolStep
  <2>1. \/ UNCHANGED <<holdsSlot, slotVars>>
        \/ ReleaseSlot(c, waiting)
    BY <1>7 DEF IdleTeardown
  <2>2. woken = None
    BY <1>7 DEF IdleTeardown, Idle
  <2>3. QED
    BY <2>1, <2>2, PoolReleases, PoolStutters DEF slotVars
<1>8. ASSUME NEW c \in Clients, Disconnect(c) \/ CloseClient(c)
      PROVE  PoolStep
  BY <1>8, PoolReleases, PoolStutters DEF Disconnect, CloseClient, Idle, slotVars
<1>9. QED
  BY <1>1, <1>2, <1>3, <1>4, <1>5, <1>6, <1>7, <1>8 DEF Next, Connecting

\* The slots are handed out as SlotPool says: never too many, none free while
\* somebody waits, and in the order in which they were asked for.
THEOREM PoolImplemented == ASSUME Prompt PROVE Spec => ImplementsSlotPool
<1>1. Init => SP!Init
  BY DEF Init, SP!Init, Holders, Line
<1>2. IInv /\ [Next]_vars => [SP!Next]_<<Holders, Line(waiting)>>
  BY PoolNext DEF PoolStep
<1>3. QED
  BY <1>1, <1>2, InvHolds, PTL DEF Spec, ImplementsSlotPool, SP!Spec
=============================================================================
