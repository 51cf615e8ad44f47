---------------------------- MODULE HistoryProofs ----------------------------
(***************************************************************************)
(* Proofs about HistorySync, for any number of runs, sockets, failures and *)
(* restarts, any batch size and retention, with and without late delivery  *)
(* on replaced sockets, malformed rows and runs written anew; and that     *)
(* pruning drops only what the server has, or what is too much to keep.    *)
(* Then about what the server makes of the statuses it is told, whatever   *)
(* is lost, cut short or sent again: the runs the agent no longer offers   *)
(* stand as they ended, each end is reported once, and no run that ended   *)
(* starts again.  These need what HistorySync's findings are about: that a *)
(* run is not written anew (Reinserted) and that a replaced socket is cut  *)
(* (~LateDelivery).                                                        *)
(* Then about the tunnel a client is reached by (TunnelCard): that it was  *)
(* seen to work before it is stored, without these hypotheses.             *)
(* Last, about the findings of the status report (Attention): that they    *)
(* are true and complete, for any jobs, times and age of a check.          *)
(***************************************************************************)
EXTENDS MCServer, FiniteSetTheorems, WellFoundedInduction, TLAPS

-----------------------------------------------------------------------------
(***************************************************************************)
(* The inductive invariant.  Messages are typed by what may be under way   *)
(* in the present state: a batch names revisions the agent has written, an *)
(* acknowledgement revisions the table has.                                *)
(***************************************************************************)
PerRun(S) == UNION {[R -> S] : R \in SUBSET Runs}

Batches(l) == {b \in PerRun(Entry) : \A r \in DOMAIN b : b[r].rev <= l[r]}
Acks(t) == {a \in PerRun(Nat \ {0}) : \A r \in DOMAIN a \ Malformed : a[r] <= t[r].rev}

Sendable(l) == {Auth} \cup [type : {"STATUS_UPDATE"}, id : Runs, status : Terminal]
                      \cup [type : {"SYNC_HISTORY"}, history : Batches(l)]
Answers(t) == {AuthSuccess} \cup [type : {"HISTORY_ACK"}, entries : Acks(t)]

TableRow == [status : Status \cup {"none"}, rev : Nat]

AgentTyped ==
    /\ hist \in PerRun(Row) /\ clock \in Nat
    /\ post \subseteq Runs /\ deferred \subseteq Runs /\ checking \subseteq Runs
    /\ latest \in [Runs -> Nat]
    /\ active \in BOOLEAN /\ flushTimer \in BOOLEAN /\ retryTimer \in BOOLEAN
    /\ restarts \in Nat /\ failures \in Nat

SocketsTyped ==
    /\ conn \in Sockets \cup {NoSocket} /\ registered \in Sockets \cup {NoSocket}
    /\ opened \in 0..MaxSockets
    /\ agentEnds \subseteq Sockets /\ serverEnds \subseteq Sockets
    /\ toServer \in [Sockets -> Seq(Sendable(latest))]
    /\ toAgent \in [Sockets -> Seq(Answers(table))]

ServerTyped == /\ table \in [Runs -> TableRow]
               /\ reports \in [Runs -> Seq(Final)]

Typed == AgentTyped /\ SocketsTyped /\ ServerTyped

HistoryBound == \A r \in DOMAIN hist : hist[r].rev <= latest[r]
TableBound == \A r \in Runs : table[r].rev <= latest[r]

IInv == Typed /\ HistoryBound /\ TableBound /\ AckedRevisionStored

-----------------------------------------------------------------------------
(***************************************************************************)
(* Data: histories, batches and queues.                                    *)
(***************************************************************************)
\* PerRun is what IsPerRun says.
LEMMA PerRunDef ==
    ASSUME NEW S, NEW f
    PROVE  f \in PerRun(S) <=> (DOMAIN f \subseteq Runs /\ f \in [DOMAIN f -> S])
BY DEF PerRun

\* A queue may be taken for one of a larger kind of message.
LEMMA SeqMonotone ==
    ASSUME NEW S, NEW T, S \subseteq T, NEW q \in Seq(S)
    PROVE  q \in Seq(T)
<1>1. /\ Len(q) \in Nat
      /\ q \in [1..Len(q) -> S]
  OBVIOUS
<1>2. q \in [1..Len(q) -> T]
  BY <1>1
<1> QED
  BY <1>1, <1>2

\* Revisions only grow, so what may be under way does not shrink.
LEMMA SendableMonotone ==
    ASSUME NEW l \in [Runs -> Nat], NEW m \in [Runs -> Nat],
           \A r \in Runs : l[r] <= m[r]
    PROVE  Sendable(l) \subseteq Sendable(m)
<1>1. Batches(l) \subseteq Batches(m)
  <2> SUFFICES ASSUME NEW b \in Batches(l)
               PROVE  b \in Batches(m)
    OBVIOUS
  <2>1. b \in PerRun(Entry) /\ DOMAIN b \subseteq Runs /\ b \in [DOMAIN b -> Entry]
    BY PerRunDef DEF Batches
  <2>2. ASSUME NEW r \in DOMAIN b
        PROVE  b[r].rev <= m[r]
    <3>1. b[r].rev <= l[r] /\ l[r] <= m[r] /\ r \in Runs
      BY <2>1, <2>2 DEF Batches
    <3>2. b[r].rev \in Nat
      BY <2>1, <2>2 DEF Entry
    <3> QED
      BY <3>1, <3>2
  <2> QED
    BY <2>1, <2>2 DEF Batches
<1> QED
  BY <1>1 DEF Sendable

LEMMA AnswersMonotone ==
    ASSUME NEW t \in [Runs -> TableRow], NEW u \in [Runs -> TableRow],
           \A r \in Runs : t[r].rev <= u[r].rev
    PROVE  Answers(t) \subseteq Answers(u)
<1>1. Acks(t) \subseteq Acks(u)
  <2> SUFFICES ASSUME NEW a \in Acks(t)
               PROVE  a \in Acks(u)
    OBVIOUS
  <2>1. a \in PerRun(Nat \ {0}) /\ DOMAIN a \subseteq Runs /\ a \in [DOMAIN a -> Nat \ {0}]
    BY PerRunDef DEF Acks
  <2>2. ASSUME NEW r \in DOMAIN a \ Malformed
        PROVE  a[r] <= u[r].rev
    <3>1. a[r] <= t[r].rev /\ t[r].rev <= u[r].rev /\ r \in Runs
      BY <2>1, <2>2 DEF Acks
    <3>2. a[r] \in Nat /\ t[r].rev \in Nat /\ u[r].rev \in Nat
      BY <2>1, <2>2, <3>1 DEF TableRow
    <3> QED
      BY <3>1, <3>2
  <2> QED
    BY <2>1, <2>2 DEF Acks
<1> QED
  BY <1>1 DEF Answers

\* What a handler sends joins the queue, or goes nowhere.
LEMMA SendTyped ==
    ASSUME NEW S, NEW q \in [Sockets -> Seq(S)], NEW c, NEW m \in S
    PROVE  Send(q, c, m) \in [Sockets -> Seq(S)]
<1>1. CASE c \in Sockets
  <2>1. Append(q[c], m) \in Seq(S)
    BY <1>1
  <2> QED
    BY <1>1, <2>1 DEF Send
<1>2. CASE c \notin Sockets
  BY <1>2 DEF Send
<1> QED
  BY <1>1, <1>2

LEMMA AnswerTyped ==
    ASSUME NEW S, toAgent \in [Sockets -> Seq(S)], NEW c \in Sockets, NEW to, NEW m \in S
    PROVE  Answer(c, to, m) \in [Sockets -> Seq(S)]
<1>1. toAgent[c] \in Seq(S)
  OBVIOUS
<1>2. Append(toAgent[c], m) \in Seq(S)
  BY <1>1
<1>3. [toAgent EXCEPT ![c] = Append(toAgent[c], m)] \in [Sockets -> Seq(S)]
  BY <1>2
<1> QED
  BY <1>3 DEF Answer

\* What a handler takes off the head was of the queue's kind, and so is the rest.
LEMMA HeadTyped ==
    ASSUME NEW S, NEW q \in [Sockets -> Seq(S)], NEW c \in Sockets, q[c] # <<>>
    PROVE  Head(q[c]) \in S /\ [q EXCEPT ![c] = Tail(@)] \in [Sockets -> Seq(S)]
<1>1. q[c] \in Seq(S)
  OBVIOUS
<1>2. Head(q[c]) \in S /\ Tail(q[c]) \in Seq(S)
  BY <1>1
<1> QED
  BY <1>2

-----------------------------------------------------------------------------
(***************************************************************************)
(* What the history's operators do to revisions and acknowledgements.      *)
(***************************************************************************)
\* Pruning drops rows and changes none.
LEMMA PruneKeeps ==
    ASSUME NEW h \in PerRun(Row)
    PROVE  /\ Prune(h) \in PerRun(Row)
           /\ DOMAIN Prune(h) \subseteq DOMAIN h
           /\ \A s \in DOMAIN Prune(h) : Prune(h)[s] = h[s]
<1>1. DOMAIN h \subseteq Runs /\ h \in [DOMAIN h -> Row]
  BY PerRunDef
<1>2. DOMAIN Prune(h) \subseteq DOMAIN h
  BY DEF Prune, Needed
<1>3. \A s \in DOMAIN Prune(h) : Prune(h)[s] = h[s]
  BY DEF Prune
<1>4. Prune(h) \in [DOMAIN Prune(h) -> Row]
  BY <1>1, <1>2, <1>3 DEF Prune
<1> QED
  BY <1>1, <1>2, <1>3, <1>4, PerRunDef

\* h is g after a write of run r: the row is new and unacknowledged, or its
\* revision went up by one; every other row is as it was, or dropped.
Rewrites(g, h, r) ==
    /\ h \in PerRun(Row)
    /\ \A s \in DOMAIN h :
          \/ s \in DOMAIN g /\ h[s] = g[s]
          \/ s = r /\ h[s].rev = 1 /\ h[s].synced = 0
          \/ s = r /\ s \in DOMAIN g /\ h[s].rev = g[s].rev + 1 /\ h[s].synced = g[s].synced

LEMMA InsertRewrites ==
    ASSUME NEW g \in PerRun(Row), NEW r \in Runs, NEW s \in Status, NEW t \in Nat
    PROVE  Rewrites(g, Insert(g, r, s, t), r)
<1> DEFINE entered == [status |-> s, rev |-> 1, synced |-> Null,
                       created |-> t, started |-> t, snapshot |-> FALSE]
           h == Put(g, r, entered)
<1>1. DOMAIN g \subseteq Runs /\ g \in [DOMAIN g -> Row]
  BY PerRunDef
<1>2. entered \in Row /\ entered.rev = 1 /\ entered.synced = 0
  BY DEF Row, Null
<1>3. /\ DOMAIN h = DOMAIN g \cup {r}
      /\ \A u \in DOMAIN h : h[u] = IF u = r THEN entered ELSE g[u]
  BY DEF Put
<1> HIDE DEF entered
<1>4. h \in [DOMAIN h -> Row]
  <2>1. \A u \in DOMAIN h : h[u] \in Row
    BY <1>1, <1>2, <1>3
  <2> QED
    BY <2>1 DEF Put
<1> HIDE DEF h
<1>5. h \in PerRun(Row)
  BY <1>1, <1>3, <1>4, PerRunDef
<1>6. Insert(g, r, s, t) = Prune(h)
  BY DEF Insert, h, entered
<1> QED
  BY <1>2, <1>3, <1>5, <1>6, PruneKeeps DEF Rewrites

\* A write to an existing row; without a row it does nothing.
LEMMA UpdateRewrites ==
    ASSUME NEW g \in PerRun(Row), NEW r \in Runs,
           NEW h, NEW entered, h = [g EXCEPT ![r] = entered],
           r \in DOMAIN g => /\ entered \in Row
                             /\ entered.rev = g[r].rev + 1 /\ entered.synced = g[r].synced
    PROVE  Rewrites(g, h, r)
<1>1. DOMAIN g \subseteq Runs /\ g \in [DOMAIN g -> Row]
  BY PerRunDef
<1>2. DOMAIN h = DOMAIN g /\ h \in [DOMAIN h -> Row]
  BY <1>1
<1>3. \A s \in DOMAIN h : s # r => h[s] = g[s]
  BY <1>1
<1>4. r \in DOMAIN h => h[r] = entered
  BY <1>1
<1> QED
  BY <1>1, <1>2, <1>3, <1>4, PerRunDef DEF Rewrites

\* Leaving the history alone is a rewrite of nothing.
LEMMA NothingRewritten ==
    ASSUME NEW g \in PerRun(Row), NEW r
    PROVE  Rewrites(g, g, r)
BY DEF Rewrites

\* A write keeps the row a row, raises its revision and leaves what was
\* acknowledged.
LEMMA RevisedRow ==
    ASSUME NEW x \in Row, NEW s \in Status, NEW t \in Nat
    PROVE  /\ Revised(x, s, t) \in Row
           /\ Revised(x, s, t).rev = x.rev + 1 /\ Revised(x, s, t).synced = x.synced
<1> DEFINE n == x.rev + 1
<1>1. n \in Nat \ {0}
  BY DEF Row
<1>2. Revised(x, s, t) = [x EXCEPT !.status = s, !.started = t, !.rev = n]
  BY DEF Revised
<1> HIDE DEF n
<1>3. Revised(x, s, t) \in Row /\ Revised(x, s, t).rev = n /\ Revised(x, s, t).synced = x.synced
  BY <1>1, <1>2 DEF Row
<1> QED
  BY <1>3 DEF n

LEMMA NamedRow ==
    ASSUME NEW x \in Row
    PROVE  /\ Named(x) \in Row
           /\ Named(x).rev = x.rev + 1 /\ Named(x).synced = x.synced
<1> DEFINE n == x.rev + 1
<1>1. n \in Nat \ {0}
  BY DEF Row
<1>2. Named(x) = [x EXCEPT !.snapshot = TRUE, !.rev = n]
  BY DEF Named
<1> HIDE DEF n
<1>3. Named(x) \in Row /\ Named(x).rev = n /\ Named(x).synced = x.synced
  BY <1>1, <1>2 DEF Row
<1> QED
  BY <1>3 DEF n

LEMMA RunningRewrites ==
    ASSUME NEW g \in PerRun(Row), NEW r \in Runs, NEW s \in Status, NEW t \in Nat
    PROVE  Rewrites(g, Update(g, r, s, t), r)
<1>1. CASE r \in DOMAIN g
  <2>1. g[r] \in Row
    BY <1>1, PerRunDef
  <2>2. Update(g, r, s, t) = [g EXCEPT ![r] = Revised(g[r], s, t)]
    BY <1>1 DEF Update
  <2> QED
    BY <2>1, <2>2, RevisedRow, UpdateRewrites
<1>2. CASE r \notin DOMAIN g
  BY <1>2, NothingRewritten DEF Update
<1> QED
  BY <1>1, <1>2

LEMMA SetStatusRewrites ==
    ASSUME NEW g \in PerRun(Row), NEW r \in Runs, NEW s \in Status
    PROVE  Rewrites(g, SetStatus(g, r, s), r)
<1>1. CASE r \in DOMAIN g
  <2>1. g[r] \in Row
    BY <1>1, PerRunDef
  <2>2. g[r].started \in Nat
    BY <2>1 DEF Row
  <2> QED
    BY <1>1, <2>2, RunningRewrites DEF SetStatus
<1>2. CASE r \notin DOMAIN g
  BY <1>2, NothingRewritten DEF SetStatus
<1> QED
  BY <1>1, <1>2

LEMMA SetSnapshotRewrites ==
    ASSUME NEW g \in PerRun(Row), NEW r \in Runs
    PROVE  Rewrites(g, SetSnapshot(g, r), r)
<1>1. CASE r \in DOMAIN g
  <2>1. g[r] \in Row
    BY <1>1, PerRunDef
  <2>2. SetSnapshot(g, r) = [g EXCEPT ![r] = Named(g[r])]
    BY <1>1 DEF SetSnapshot
  <2> QED
    BY <2>1, <2>2, NamedRow, UpdateRewrites
<1>2. CASE r \notin DOMAIN g
  BY <1>2, NothingRewritten DEF SetSnapshot
<1> QED
  BY <1>1, <1>2

LEMMA StartRunningRewrites ==
    ASSUME NEW g \in PerRun(Row), NEW r \in Runs, NEW t \in Nat
    PROVE  Rewrites(g, StartRunning(g, r, t), r)
<1>1. "running" \in Status
  BY DEF Status, Active
<1> QED
  BY <1>1, RunningRewrites, InsertRewrites DEF StartRunning

LEMMA RecordFailedRewrites ==
    ASSUME NEW g \in PerRun(Row), NEW r \in Runs, NEW t \in Nat
    PROVE  Rewrites(g, RecordFailed(g, r, t), r)
<1>1. "failed" \in Status
  BY DEF Status, Final, Terminal
<1> QED
  BY <1>1, SetStatusRewrites, InsertRewrites DEF RecordFailed

-----------------------------------------------------------------------------
(***************************************************************************)
(* The agent sends only revisions it has written.                          *)
(***************************************************************************)
LEMMA BatchTyped ==
    ASSUME NEW h \in PerRun(Row), NEW l \in [Runs -> Nat],
           \A r \in DOMAIN h : h[r].rev <= l[r]
    PROVE  SyncHistory(BatchOf(h)) \in Sendable(l)
<1> DEFINE b == BatchOf(h)
<1>1. DOMAIN h \subseteq Runs /\ h \in [DOMAIN h -> Row]
  BY PerRunDef
<1>2. /\ DOMAIN b \subseteq DOMAIN h
      /\ b = [r \in DOMAIN b |-> [rev |-> h[r].rev, status |-> h[r].status]]
  BY DEF BatchOf, OldestDue, Due
<1>3. \A r \in DOMAIN b : h[r].rev \in Nat \ {0} /\ h[r].status \in Status
  BY <1>1, <1>2 DEF Row
<1> HIDE DEF b
<1>4. \A r \in DOMAIN b : b[r] = [rev |-> h[r].rev, status |-> h[r].status]
  BY <1>2
<1>5. \A r \in DOMAIN b : b[r] \in Entry /\ b[r].rev <= l[r]
  BY <1>2, <1>3, <1>4 DEF Entry
<1>6. b \in [DOMAIN b -> Entry]
  BY <1>2, <1>5
<1>7. b \in PerRun(Entry)
  BY <1>1, <1>2, <1>6, PerRunDef
<1>8. b \in Batches(l)
  BY <1>5, <1>7 DEF Batches
<1> QED
  BY <1>8 DEF Sendable, SyncHistory, b

LEMMA FlushTyped ==
    ASSUME NEW h \in PerRun(Row), NEW isActive \in BOOLEAN, NEW l \in [Runs -> Nat],
           \A r \in DOMAIN h : h[r].rev <= l[r],
           NEW q \in [Sockets -> Seq(Sendable(l))],
           Flush(h, isActive, q)
    PROVE  /\ toServer' \in [Sockets -> Seq(Sendable(l))]
           /\ flushTimer' \in BOOLEAN /\ retryTimer' \in BOOLEAN
<1>1. Send(q, conn, SyncHistory(BatchOf(h))) \in [Sockets -> Seq(Sendable(l))]
  BY BatchTyped, SendTyped
<1> QED
  BY <1>1 DEF Flush, Connected, Due

-----------------------------------------------------------------------------
(***************************************************************************)
(* What a step does to the three things Delivery speaks of.                *)
(***************************************************************************)
AckedOn(r) == IF r \in DOMAIN hist THEN hist[r].synced ELSE 0

SourceMoves ==
    /\ table' = table
    /\ \A r \in Runs : latest'[r] = latest[r] \/ latest'[r] = latest[r] + 1
    /\ \A r \in Runs \ Malformed :
          AckedOn(r)' = 0 \/ AckedOn(r)' \in AckedOn(r)..table[r].rev

CopyMoves ==
    /\ latest' = latest /\ hist' = hist
    /\ \A r \in Runs : table'[r].rev \in table[r].rev..latest[r]

Moves == SourceMoves \/ CopyMoves

\* A rewritten history stays within what the agent wrote, and takes nothing
\* for acknowledged that was not.
LEMMA RewriteBound ==
    ASSUME IInv, NEW r \in Runs, NEW h, Rewrites(hist, h, r), WriteRun(r, h)
    PROVE  /\ hist' \in PerRun(Row) /\ latest' \in [Runs -> Nat]
           /\ \A s \in Runs : latest'[s] = latest[s] \/ latest'[s] = latest[s] + 1
           /\ HistoryBound'
           /\ \A s \in Runs : AckedOn(s)' = 0 \/ AckedOn(s)' = AckedOn(s)
           /\ \A s \in DOMAIN hist' :
                 \/ hist'[s].synced = 0
                 \/ s \in DOMAIN hist /\ hist'[s].synced = hist[s].synced
<1>1. /\ hist \in PerRun(Row) /\ DOMAIN hist \subseteq Runs /\ hist \in [DOMAIN hist -> Row]
      /\ latest \in [Runs -> Nat]
  BY PerRunDef DEF IInv, Typed, AgentTyped
<1>2. /\ h \in PerRun(Row) /\ DOMAIN h \subseteq Runs /\ h \in [DOMAIN h -> Row]
  BY PerRunDef DEF Rewrites
<1>3. hist' = h
  BY DEF WriteRun
<1>4. \A s \in DOMAIN hist : hist[s].rev \in Nat /\ hist[s].synced \in Nat /\ hist[s].rev <= latest[s]
  BY <1>1 DEF Row, IInv, HistoryBound
<1>5. \A s \in DOMAIN h : h[s].rev \in Nat /\ h[s].rev <= latest[s] + 1 /\ (s # r => h[s].rev <= latest[s])
  <2> TAKE s \in DOMAIN h
  <2>1. h[s].rev \in Nat /\ latest[s] \in Nat
    BY <1>1, <1>2 DEF Row
  <2>2. CASE s \in DOMAIN hist /\ h[s] = hist[s]
    BY <1>4, <2>1, <2>2
  <2>3. CASE s = r /\ h[s].rev = 1
    BY <2>1, <2>3
  <2>4. CASE s = r /\ s \in DOMAIN hist /\ h[s].rev = hist[s].rev + 1
    BY <1>4, <2>1, <2>4
  <2> QED
    BY <2>2, <2>3, <2>4 DEF Rewrites
<1>6. latest' = [latest EXCEPT ![r] = IF r \in DOMAIN h /\ h[r].rev > latest[r]
                                      THEN h[r].rev ELSE latest[r]]
  BY DEF WriteRun
<1>7. \A s \in Runs : s # r => latest'[s] = latest[s]
  BY <1>1, <1>6
<1>8. /\ latest'[r] \in Nat
      /\ latest'[r] = latest[r] \/ latest'[r] = latest[r] + 1
      /\ r \in DOMAIN h => h[r].rev <= latest'[r]
  <2>1. latest'[r] = IF r \in DOMAIN h /\ h[r].rev > latest[r] THEN h[r].rev ELSE latest[r]
    BY <1>1, <1>6
  <2>2. latest[r] \in Nat
    BY <1>1
  <2>3. r \in DOMAIN h => h[r].rev \in Nat /\ h[r].rev <= latest[r] + 1
    BY <1>5
  <2> QED
    BY <2>1, <2>2, <2>3
<1>9. latest' \in [Runs -> Nat]
  BY <1>1, <1>6, <1>8
<1>10. HistoryBound'
  BY <1>2, <1>3, <1>5, <1>7, <1>8 DEF HistoryBound
<1>11. \A s \in DOMAIN hist' :
         \/ hist'[s].synced = 0
         \/ s \in DOMAIN hist /\ hist'[s].synced = hist[s].synced
  BY <1>3 DEF Rewrites
<1>12. \A s \in Runs : AckedOn(s)' = 0 \/ AckedOn(s)' = AckedOn(s)
  BY <1>11 DEF AckedOn
<1> QED
  BY <1>2, <1>3, <1>7, <1>8, <1>9, <1>10, <1>11, <1>12

LEMMA QueueMonotone ==
    ASSUME NEW S, NEW T, S \subseteq T, NEW q \in [Sockets -> Seq(S)]
    PROVE  q \in [Sockets -> Seq(T)]
BY SeqMonotone

\* Revisions and acknowledged revisions are numbers, whatever they are of.
LEMMA Numbers ==
    ASSUME IInv
    PROVE  /\ DOMAIN hist \subseteq Runs
           /\ \A r \in DOMAIN hist : /\ hist[r] \in Row
                                     /\ hist[r].rev \in Nat /\ hist[r].synced \in Nat
           /\ \A r \in Runs : latest[r] \in Nat /\ table[r].rev \in Nat /\ AckedOn(r) \in Nat
<1>1. DOMAIN hist \subseteq Runs /\ hist \in [DOMAIN hist -> Row]
  BY PerRunDef DEF IInv, Typed, AgentTyped
<1>2. \A r \in DOMAIN hist : hist[r] \in Row
  BY <1>1
<1>3. \A r \in DOMAIN hist : hist[r].rev \in Nat /\ hist[r].synced \in Nat
  BY <1>2 DEF Row
<1>4. \A r \in Runs : latest[r] \in Nat /\ table[r].rev \in Nat
  BY DEF IInv, Typed, AgentTyped, ServerTyped, TableRow
<1>5. \A r \in Runs : AckedOn(r) \in Nat
  BY <1>3 DEF AckedOn
<1> QED
  BY <1>1, <1>2, <1>3, <1>4, <1>5

\* Every write of a run, with the live update that follows it, keeps the
\* invariant and moves the source alone.
LEMMA RunWriteStep ==
    ASSUME IInv, NEW r \in Runs, NEW h, Rewrites(hist, h, r), WriteRun(r, h),
           NEW s, Live(r, s),
           clock' \in Nat, post' \subseteq Runs, deferred' \subseteq Runs,
           checking' \subseteq Runs, UNCHANGED agentRest
    PROVE  IInv' /\ SourceMoves
<1>1. /\ hist' \in PerRun(Row) /\ latest' \in [Runs -> Nat]
      /\ \A x \in Runs : latest'[x] = latest[x] \/ latest'[x] = latest[x] + 1
      /\ HistoryBound'
      /\ \A x \in Runs : AckedOn(x)' = 0 \/ AckedOn(x)' = AckedOn(x)
      /\ \A x \in DOMAIN hist' :
            \/ hist'[x].synced = 0
            \/ x \in DOMAIN hist /\ hist'[x].synced = hist[x].synced
  BY RewriteBound
<1>2. /\ conn' = conn /\ opened' = opened /\ agentEnds' = agentEnds
      /\ serverEnds' = serverEnds /\ toAgent' = toAgent /\ registered' = registered
      /\ table' = table /\ reports' = reports
      /\ restarts' = restarts /\ failures' = failures
  BY DEF agentRest, sockets, serverVars, bounds
<1>3. DOMAIN hist' \subseteq Runs
  BY <1>1, PerRunDef
<1>4. \A x \in Runs : latest[x] \in Nat /\ latest[x] <= latest'[x]
  BY <1>1, Numbers
<1>5. toServer' \in [Sockets -> Seq(Sendable(latest))]
  <2>1. toServer \in [Sockets -> Seq(Sendable(latest))]
    BY DEF IInv, Typed, SocketsTyped
  <2>2. s \in Terminal => StatusUpdate(r, s) \in Sendable(latest)
    BY DEF StatusUpdate, Sendable
  <2> QED
    BY <2>1, <2>2, SendTyped DEF Live
<1>6. toServer' \in [Sockets -> Seq(Sendable(latest'))]
  <2>1. Sendable(latest) \subseteq Sendable(latest')
    BY <1>1, <1>4, SendableMonotone DEF IInv, Typed, AgentTyped
  <2> QED
    BY <1>5, <2>1, QueueMonotone
<1>7. AgentTyped'
  BY <1>1, <1>2 DEF IInv, Typed, AgentTyped, WriteRun, ScheduleFlush
<1>8. SocketsTyped'
  BY <1>2, <1>6 DEF IInv, Typed, SocketsTyped
<1>9. ServerTyped'
  BY <1>2 DEF IInv, Typed, ServerTyped
<1>10. TableBound'
  <2>1. \A x \in Runs : table[x].rev \in Nat /\ table[x].rev <= latest[x]
    BY Numbers DEF IInv, TableBound
  <2>2. \A x \in Runs : latest'[x] \in Nat
    BY <1>1
  <2> QED
    BY <1>2, <1>4, <2>1, <2>2 DEF TableBound
<1>11. AckedRevisionStored'
  <2> SUFFICES ASSUME NEW x \in DOMAIN hist' \ Malformed
               PROVE  hist'[x].synced <= table[x].rev
    BY <1>2 DEF AckedRevisionStored
  <2>1. table[x].rev \in Nat
    BY <1>3, Numbers
  <2>2. CASE hist'[x].synced = 0
    BY <2>1, <2>2
  <2>3. CASE x \in DOMAIN hist /\ hist'[x].synced = hist[x].synced
    BY <2>3 DEF IInv, AckedRevisionStored
  <2> QED
    BY <1>1, <2>2, <2>3
<1>12. SourceMoves
  <2> SUFFICES ASSUME NEW x \in Runs \ Malformed, AckedOn(x)' # 0
               PROVE  AckedOn(x)' \in AckedOn(x)..table[x].rev
    BY <1>1, <1>2 DEF SourceMoves
  <2>1. AckedOn(x)' = AckedOn(x)
    BY <1>1
  <2>2. AckedOn(x) \in Nat /\ table[x].rev \in Nat
    BY Numbers
  <2>3. AckedOn(x) <= table[x].rev
    BY <2>2 DEF IInv, AckedRevisionStored, AckedOn
  <2> QED
    BY <2>1, <2>2, <2>3
<1> QED
  BY <1>1, <1>7, <1>8, <1>9, <1>10, <1>11, <1>12 DEF IInv, Typed

\* A step that touches neither the history nor the table keeps the invariant
\* as long as what it sends is of the kind that may be sent.
LEMMA QuietStep ==
    ASSUME IInv, UNCHANGED <<hist, latest, table, reports>>,
           clock' \in Nat, post' \subseteq Runs, deferred' \subseteq Runs,
           checking' \subseteq Runs,
           active' \in BOOLEAN, flushTimer' \in BOOLEAN, retryTimer' \in BOOLEAN,
           restarts' \in Nat, failures' \in Nat,
           conn' \in Sockets \cup {NoSocket}, registered' \in Sockets \cup {NoSocket},
           opened' \in 0..MaxSockets, agentEnds' \subseteq Sockets, serverEnds' \subseteq Sockets,
           toServer' \in [Sockets -> Seq(Sendable(latest))],
           toAgent' \in [Sockets -> Seq(Answers(table))]
    PROVE  IInv' /\ SourceMoves
<1>1. hist' = hist /\ latest' = latest /\ table' = table /\ reports' = reports
  OBVIOUS
<1>2. Typed'
  BY <1>1 DEF IInv, Typed, AgentTyped, SocketsTyped, ServerTyped
<1>3. HistoryBound' /\ TableBound' /\ AckedRevisionStored'
  BY <1>1 DEF IInv, HistoryBound, TableBound, AckedRevisionStored
<1>4. SourceMoves
  <2> SUFFICES ASSUME NEW x \in Runs \ Malformed
               PROVE  AckedOn(x)' = 0 \/ AckedOn(x)' \in AckedOn(x)..table[x].rev
    BY <1>1 DEF SourceMoves
  <2>1. AckedOn(x)' = AckedOn(x)
    BY <1>1 DEF AckedOn
  <2>2. AckedOn(x) \in Nat /\ table[x].rev \in Nat
    BY Numbers
  <2>3. AckedOn(x) <= table[x].rev
    BY <2>2 DEF IInv, AckedRevisionStored, AckedOn
  <2> QED
    BY <2>1, <2>2, <2>3
<1> QED
  BY <1>2, <1>3, <1>4 DEF IInv

\* The writes and live updates of runs.
LEMMA RunStepKeeps ==
    ASSUME IInv, RunStep
    PROVE  IInv' /\ SourceMoves
<1>1. /\ hist \in PerRun(Row) /\ clock \in Nat /\ latest \in [Runs -> Nat]
      /\ post \subseteq Runs /\ deferred \subseteq Runs /\ checking \subseteq Runs
  BY DEF IInv, Typed, AgentTyped
<1>2. {"queued", "running", "abort", "failed", "success", "skipped", "missed"} \subseteq Status
  BY DEF Status, Active, Final, Terminal
<1>3. EndStates \subseteq Status
  BY SyncAssumption DEF Status, Final
<1>4. clock + 1 \in Nat
  BY <1>1
<1> PICK r \in Runs :
      \/ Enqueue(r) \/ Start(r) \/ FailBeforeStart(r) \/ Name(r)
      \/ AbortQueued(r)
      \/ \E s \in EndStates \ Terminal : RecordUnstarted(r, s)
      \/ \E s \in {"queued", "skipped"} : Reinsert(r, s)
      \/ \E s \in EndStates \cap Terminal : Finish(r, s)
      \/ \E s \in {"success", "abort"} : SettleDeferred(r, s)
      \/ \E ok \in BOOLEAN : PostScript(r, ok)
  BY DEF RunStep
<1>5. CASE Enqueue(r)
  <2>1. Rewrites(hist, Insert(hist, r, "queued", clock), r)
    BY <1>1, <1>2, InsertRewrites
  <2> QED
    BY <1>1, <1>4, <1>5, <2>1, RunWriteStep DEF Enqueue, Tick, runVars
<1>6. CASE Start(r)
  <2>1. Rewrites(hist, StartRunning(hist, r, clock), r)
    BY <1>1, StartRunningRewrites
  <2> QED
    BY <1>1, <1>4, <1>6, <2>1, RunWriteStep DEF Start, Tick, runVars
<1>7. CASE FailBeforeStart(r)
  <2>1. Rewrites(hist, RecordFailed(hist, r, clock), r)
    BY <1>1, RecordFailedRewrites
  <2> QED
    BY <1>1, <1>4, <1>7, <2>1, RunWriteStep DEF FailBeforeStart, Tick, runVars
<1>8. CASE Name(r)
  <2>1. Rewrites(hist, SetSnapshot(hist, r), r)
    BY <1>1, SetSnapshotRewrites
  <2> QED
    BY <1>1, <1>8, <2>1, RunWriteStep DEF Name, runVars
<1>9. CASE AbortQueued(r)
  <2>1. Rewrites(hist, SetStatus(hist, r, "abort"), r)
    BY <1>1, <1>2, SetStatusRewrites
  <2> QED
    BY <1>1, <1>9, <2>1, RunWriteStep DEF AbortQueued, runVars
<1>10. CASE \E s \in EndStates \ Terminal : RecordUnstarted(r, s)
  <2> PICK s \in EndStates \ Terminal : RecordUnstarted(r, s)
    BY <1>10
  <2>1. Rewrites(hist, Insert(hist, r, s, clock), r)
    BY <1>1, <1>3, InsertRewrites
  <2> QED
    BY <1>1, <1>4, <2>1, RunWriteStep DEF RecordUnstarted, Tick, runVars
<1>11. CASE \E s \in {"queued", "skipped"} : Reinsert(r, s)
  <2> PICK s \in {"queued", "skipped"} : Reinsert(r, s)
    BY <1>11
  <2>1. Rewrites(hist, Insert(hist, r, s, clock), r)
    BY <1>1, <1>2, InsertRewrites
  <2> QED
    BY <1>1, <1>4, <2>1, RunWriteStep DEF Reinsert, Tick, runVars
<1>12. CASE \E s \in EndStates \cap Terminal : Finish(r, s)
  <2> PICK s \in EndStates \cap Terminal : Finish(r, s)
    BY <1>12
  <2>1. Rewrites(hist, SetStatus(hist, r, s), r)
    BY <1>1, <1>3, SetStatusRewrites
  <2> QED
    BY <1>1, <2>1, RunWriteStep DEF Finish
<1>13. CASE \E s \in {"success", "abort"} : SettleDeferred(r, s)
  <2> PICK s \in {"success", "abort"} : SettleDeferred(r, s)
    BY <1>13
  <2>1. Rewrites(hist, SetStatus(hist, r, s), r)
    BY <1>1, <1>2, SetStatusRewrites
  <2> QED
    BY <1>1, <2>1, RunWriteStep DEF SettleDeferred
<1>14. CASE PostScript(r, FALSE)
  <2>1. Rewrites(hist, SetStatus(hist, r, "failed"), r)
    BY <1>1, <1>2, SetStatusRewrites
  <2> QED
    BY <1>1, <1>14, <2>1, RunWriteStep DEF PostScript
<1>15. CASE PostScript(r, TRUE)
  BY <1>1, <1>15, QuietStep DEF PostScript, agentRest, timers, sockets, serverVars, bounds,
       IInv, Typed, AgentTyped, SocketsTyped
<1> QED
  BY <1>5, <1>6, <1>7, <1>8, <1>9, <1>10, <1>11, <1>12, <1>13, <1>14, <1>15

\* Emptying a queue keeps its kind.
LEMMA EmptiedTyped ==
    ASSUME NEW S, NEW q \in [Sockets -> Seq(S)], NEW c
    PROVE  [q EXCEPT ![c] = <<>>] \in [Sockets -> Seq(S)]
<1>1. <<>> \in Seq(S)
  OBVIOUS
<1> QED
  BY <1>1

\* Sockets opening and closing.
LEMMA SocketStepKeeps ==
    ASSUME IInv, SocketStep
    PROVE  IInv' /\ SourceMoves
<1>1. /\ toServer \in [Sockets -> Seq(Sendable(latest))]
      /\ toAgent \in [Sockets -> Seq(Answers(table))]
      /\ opened \in 0..MaxSockets /\ MaxSockets \in Nat
  BY SyncAssumption DEF IInv, Typed, SocketsTyped
<1>2. CASE Open
  <2>1. opened + 1 \in Sockets /\ opened + 1 \in 0..MaxSockets
    BY <1>1, <1>2 DEF Open, Sockets
  <2>2. <<Auth>> \in Seq(Sendable(latest))
    BY DEF Sendable
  <2>3. toServer' \in [Sockets -> Seq(Sendable(latest))]
    BY <1>1, <1>2, <2>2 DEF Open
  <2> QED
    BY <1>1, <1>2, <2>1, <2>3, QuietStep
    DEF Open, StopSync, agentVars, runVars, serverVars, bounds,
        IInv, Typed, AgentTyped, SocketsTyped
<1>3. ASSUME NEW c \in Sockets, AgentClose(c)
      PROVE  IInv' /\ SourceMoves
  <2>1. toAgent' \in [Sockets -> Seq(Answers(table))]
    BY <1>1, <1>3, EmptiedTyped DEF AgentClose
  <2> QED
    BY <1>1, <1>3, <2>1, QuietStep
    DEF AgentClose, StopSync, agentVars, runVars, timers, serverVars, bounds,
        IInv, Typed, AgentTyped, SocketsTyped
<1>4. ASSUME NEW c \in Sockets, ServerClose(c)
      PROVE  IInv' /\ SourceMoves
  <2>1. toServer' \in [Sockets -> Seq(Sendable(latest))]
    BY <1>1, <1>4, EmptiedTyped DEF ServerClose
  <2> QED
    BY <1>1, <1>4, <2>1, QuietStep
    DEF ServerClose, agentVars, runVars, timers, bounds,
        IInv, Typed, AgentTyped, SocketsTyped
<1> QED
  BY <1>2, <1>3, <1>4 DEF SocketStep

\* The timers.
LEMMA TimerKeeps ==
    ASSUME IInv, Timer
    PROVE  IInv' /\ SourceMoves
<1>1. /\ hist \in PerRun(Row) /\ latest \in [Runs -> Nat] /\ active \in BOOLEAN
      /\ \A r \in DOMAIN hist : hist[r].rev <= latest[r]
      /\ toServer \in [Sockets -> Seq(Sendable(latest))]
  BY DEF IInv, Typed, AgentTyped, SocketsTyped, HistoryBound
<1>2. /\ toServer' \in [Sockets -> Seq(Sendable(latest))]
      /\ flushTimer' \in BOOLEAN /\ retryTimer' \in BOOLEAN
  BY <1>1, FlushTyped DEF Timer
<1> QED
  BY <1>2, QuietStep
  DEF Timer, agentVars, runVars, sockets, serverVars, bounds,
      IInv, Typed, AgentTyped, SocketsTyped

\* AUTH registers the session, and may replace an older one.
LEMMA AuthKeeps ==
    ASSUME IInv, NEW c \in Sockets, HandleAuth(c)
    PROVE  IInv' /\ SourceMoves
<1>1. /\ toServer \in [Sockets -> Seq(Sendable(latest))]
      /\ toAgent \in [Sockets -> Seq(Answers(table))]
  BY DEF IInv, Typed, SocketsTyped
<1>2. Taken(c) \in [Sockets -> Seq(Sendable(latest))]
  BY <1>1, HeadTyped DEF HandleAuth, Arrives, Taken
<1>3. toServer' \in [Sockets -> Seq(Sendable(latest))]
  <2>1. <<>> \in Seq(Sendable(latest)) /\ \A d \in Sockets : Taken(c)[d] \in Seq(Sendable(latest))
    BY <1>2
  <2>2. [d \in Sockets |-> IF d < c THEN <<>> ELSE Taken(c)[d]]
            \in [Sockets -> Seq(Sendable(latest))]
    BY <2>1
  <2> QED
    BY <1>2, <2>2 DEF HandleAuth
<1>4. AuthSuccess \in Answers(table)
  BY DEF Answers
<1>5. Answer(c, c, AuthSuccess) \in [Sockets -> Seq(Answers(table))]
  BY <1>1, <1>4, AnswerTyped
<1>6. toAgent' \in [Sockets -> Seq(Answers(table))]
  BY <1>5 DEF HandleAuth
<1> QED
  BY <1>3, <1>6, QuietStep
  DEF HandleAuth, agentVars, runVars, timers, bounds,
      IInv, Typed, AgentTyped, SocketsTyped

\* AUTH_SUCCESS starts the sync.
LEMMA AuthSuccessKeeps ==
    ASSUME IInv, NEW c \in Sockets, HandleAuthSuccess(c)
    PROVE  IInv' /\ SourceMoves
<1>1. /\ hist \in PerRun(Row) /\ latest \in [Runs -> Nat]
      /\ \A r \in DOMAIN hist : hist[r].rev <= latest[r]
      /\ toServer \in [Sockets -> Seq(Sendable(latest))]
      /\ toAgent \in [Sockets -> Seq(Answers(table))]
  BY DEF IInv, Typed, AgentTyped, SocketsTyped, HistoryBound
<1>2. /\ toServer' \in [Sockets -> Seq(Sendable(latest))]
      /\ flushTimer' \in BOOLEAN /\ retryTimer' \in BOOLEAN
  BY <1>1, FlushTyped DEF HandleAuthSuccess
<1>3. toAgent' \in [Sockets -> Seq(Answers(table))]
  BY <1>1, HeadTyped DEF HandleAuthSuccess, Receives
<1> QED
  BY <1>2, <1>3, QuietStep
  DEF HandleAuthSuccess, sockets, serverVars, bounds,
      IInv, Typed, AgentTyped, SocketsTyped

\* A batch the server takes off the socket, typed.
LEMMA TakenBatch ==
    ASSUME IInv, NEW c \in Sockets, Arrives(c, "SYNC_HISTORY")
    PROVE  /\ Head(toServer[c]).history \in Batches(latest)
           /\ Taken(c) \in [Sockets -> Seq(Sendable(latest))]
<1>1. toServer \in [Sockets -> Seq(Sendable(latest))]
  BY DEF IInv, Typed, SocketsTyped
<1>2. /\ Head(toServer[c]) \in Sendable(latest)
      /\ Taken(c) \in [Sockets -> Seq(Sendable(latest))]
  BY <1>1, HeadTyped DEF Arrives, Taken
<1> QED
  BY <1>2 DEF Arrives, Sendable, Auth

\* Only final states are handed to the webhooks.
LEMMA ReportedTyped ==
    ASSUME reports \in [Runs -> Seq(Final)], NEW r \in Runs, NEW s
    PROVE  Reported(r, s) \in Seq(Final)
<1>1. reports[r] \in Seq(Final)
  OBVIOUS
<1>2. s \in Final => Append(reports[r], s) \in Seq(Final)
  BY <1>1
<1> QED
  BY <1>1, <1>2 DEF Reported

\* A live update changes no revision.
LEMMA StatusUpdateKeeps ==
    ASSUME IInv, NEW c \in Sockets, NEW stored \in BOOLEAN, HandleStatusUpdate(c, stored)
    PROVE  IInv' /\ CopyMoves
<1> DEFINE m == Head(toServer[c])
<1>1. /\ toServer \in [Sockets -> Seq(Sendable(latest))]
      /\ table \in [Runs -> TableRow] /\ reports \in [Runs -> Seq(Final)]
      /\ restarts \in Nat /\ failures \in Nat
  BY DEF IInv, Typed, AgentTyped, SocketsTyped, ServerTyped
<1>2. m \in Sendable(latest) /\ Taken(c) \in [Sockets -> Seq(Sendable(latest))]
  BY <1>1, HeadTyped DEF HandleStatusUpdate, Arrives, Taken
<1>3. m.id \in Runs /\ m.status \in Terminal
  BY <1>2 DEF HandleStatusUpdate, Arrives, Sendable, Auth
<1>4. /\ hist' = hist /\ latest' = latest /\ toServer' = Taken(c)
      /\ failures' \in Nat
  BY <1>1 DEF HandleStatusUpdate, agentVars
<1> HIDE DEF m
<1>5. /\ table' \in [Runs -> TableRow]
      /\ \A r \in Runs : table'[r].rev = table[r].rev
  <2>1. table' = table \/ table' = [table EXCEPT ![m.id].status = m.status]
    BY DEF HandleStatusUpdate, m
  <2>2. CASE table' = table
    BY <1>1, <2>2
  <2>3. CASE table' = [table EXCEPT ![m.id].status = m.status]
    <3>1. table[m.id] \in TableRow /\ m.status \in Status
      BY <1>1, <1>3 DEF Status, Final
    <3>2. /\ [table[m.id] EXCEPT !.status = m.status] \in TableRow
          /\ [table[m.id] EXCEPT !.status = m.status].rev = table[m.id].rev
      BY <3>1 DEF TableRow
    <3>3. table' = [table EXCEPT ![m.id] = [table[m.id] EXCEPT !.status = m.status]]
      BY <2>3
    <3> QED
      BY <1>1, <1>3, <3>2, <3>3
  <2> QED
    BY <2>1, <2>2, <2>3
<1>6. reports' \in [Runs -> Seq(Final)]
  <2>1. m.status \in Final
    BY <1>3 DEF Final
  <2>2. Reported(m.id, m.status) \in Seq(Final)
    BY <1>1, <1>3, <2>1, ReportedTyped
  <2>3. \/ reports' = reports
        \/ reports' = [reports EXCEPT ![m.id] = Reported(m.id, m.status)]
    BY DEF HandleStatusUpdate, m
  <2> QED
    BY <1>1, <2>2, <2>3
<1>7. toAgent' \in [Sockets -> Seq(Answers(table'))]
  <2>1. \A r \in Runs : table[r].rev \in Nat
    BY Numbers
  <2>2. \A r \in Runs : table[r].rev <= table'[r].rev
    BY <1>5, <2>1
  <2>3. Answers(table) \subseteq Answers(table')
    BY <1>1, <1>5, <2>2, AnswersMonotone
  <2>4. toAgent' = toAgent /\ toAgent \in [Sockets -> Seq(Answers(table))]
    BY DEF HandleStatusUpdate, IInv, Typed, SocketsTyped
  <2> QED
    BY <2>3, <2>4, QueueMonotone
<1>8. Typed'
  BY <1>2, <1>4, <1>5, <1>6, <1>7
  DEF HandleStatusUpdate, agentVars, runVars, timers, sockets,
      IInv, Typed, AgentTyped, SocketsTyped, ServerTyped
<1>9. HistoryBound' /\ TableBound'
  BY <1>4, <1>5 DEF IInv, HistoryBound, TableBound
<1>10. AckedRevisionStored'
  BY <1>4, <1>5, Numbers DEF IInv, AckedRevisionStored
<1>11. CopyMoves
  BY <1>4, <1>5, Numbers DEF CopyMoves, IInv, TableBound
<1> QED
  BY <1>8, <1>9, <1>10, <1>11 DEF IInv

\* A stored batch takes the table forward, and no further than its revisions.
LEMMA StoreBatchForward ==
    ASSUME IInv, NEW b \in Batches(latest), StoreBatch(b)
    PROVE  /\ table' \in [Runs -> TableRow] /\ reports' \in [Runs -> Seq(Final)]
           /\ \A r \in Runs : table'[r].rev \in table[r].rev..latest[r]
           /\ \A r \in DOMAIN b \ Malformed : b[r].rev <= table'[r].rev
<1>1. DOMAIN b \subseteq Runs /\ b \in [DOMAIN b -> Entry]
  BY PerRunDef DEF Batches
<1>2. \A r \in DOMAIN b : /\ b[r].rev \in Nat \ {0} /\ b[r].status \in Status
                           /\ b[r].rev <= latest[r]
  <2>1. \A r \in DOMAIN b : b[r] \in Entry
    BY <1>1
  <2> QED
    BY <2>1 DEF Entry, Batches
<1>3. /\ table \in [Runs -> TableRow] /\ reports \in [Runs -> Seq(Final)]
      /\ \A r \in Runs : /\ table[r].rev \in Nat /\ latest[r] \in Nat
                          /\ table[r].rev <= latest[r]
  BY Numbers DEF IInv, Typed, ServerTyped, TableBound
<1> DEFINE T == {r \in DOMAIN b \ Malformed : Applies(b, r)}
<1>4. /\ table' = [r \in Runs |-> IF r \in T THEN [status |-> b[r].status, rev |-> b[r].rev]
                                             ELSE table[r]]
      /\ reports' = [r \in Runs |-> IF r \in T THEN Reported(r, b[r].status) ELSE reports[r]]
  BY DEF StoreBatch
<1>5. \A r \in DOMAIN b \ Malformed : r \in T <=> (table[r].rev = 0 \/ b[r].rev >= table[r].rev)
  BY DEF Applies, Null
<1>6. T \subseteq DOMAIN b \ Malformed
  OBVIOUS
<1> HIDE DEF T
<1>7. \A r \in Runs : r \notin T => table'[r] = table[r]
  BY <1>4
<1>8. \A r \in T : table'[r].status = b[r].status /\ table'[r].rev = b[r].rev
  BY <1>1, <1>4, <1>6
<1>9. table' \in [Runs -> TableRow]
  <2>1. \A r \in T : [status |-> b[r].status, rev |-> b[r].rev] \in TableRow
    BY <1>2, <1>6 DEF TableRow
  <2>2. \A r \in Runs : table[r] \in TableRow
    BY <1>3
  <2> QED
    BY <1>4, <2>1, <2>2
<1>10. reports' \in [Runs -> Seq(Final)]
  <2>1. \A r \in Runs : Reported(r, b[r].status) \in Seq(Final) /\ reports[r] \in Seq(Final)
    BY <1>3, ReportedTyped
  <2> QED
    BY <1>4, <2>1
<1>11. ASSUME NEW r \in Runs
       PROVE  table'[r].rev \in table[r].rev..latest[r]
  <2>1. table[r].rev \in Nat /\ latest[r] \in Nat /\ table[r].rev <= latest[r]
    BY <1>3
  <2>2. CASE r \in T
    <3>1. table'[r].rev = b[r].rev /\ b[r].rev \in Nat /\ b[r].rev <= latest[r]
      BY <1>2, <1>6, <1>8, <2>2
    <3>2. table[r].rev = 0 \/ b[r].rev >= table[r].rev
      BY <1>5, <1>6, <2>2
    <3> QED
      BY <2>1, <3>1, <3>2
  <2>3. CASE r \notin T
    BY <1>7, <2>1, <2>3
  <2> QED
    BY <2>2, <2>3
<1>12. ASSUME NEW r \in DOMAIN b \ Malformed
       PROVE  b[r].rev <= table'[r].rev
  <2>1. r \in Runs /\ b[r].rev \in Nat /\ table[r].rev \in Nat
    BY <1>1, <1>2, <1>3
  <2>2. CASE r \in T
    BY <1>8, <2>1, <2>2
  <2>3. CASE r \notin T
    BY <1>5, <1>7, <2>1, <2>3
  <2> QED
    BY <2>2, <2>3
<1> QED
  BY <1>9, <1>10, <1>11, <1>12

\* What a batch is answered with is in the table: a failed transaction answers
\* for malformed rows alone.
LEMMA SyncHistoryKeeps ==
    ASSUME IInv, NEW c \in Sockets, NEW stored \in BOOLEAN, HandleSyncHistory(c, stored)
    PROVE  IInv' /\ CopyMoves
<1> DEFINE b == Head(toServer[c]).history
           acked == AckedOf(b, stored)
           a == [r \in acked |-> b[r].rev]
<1>1. b \in Batches(latest) /\ Taken(c) \in [Sockets -> Seq(Sendable(latest))]
  BY TakenBatch DEF HandleSyncHistory
<1>2. DOMAIN b \subseteq Runs /\ b \in [DOMAIN b -> Entry]
  BY <1>1, PerRunDef DEF Batches
<1>3. /\ hist' = hist /\ latest' = latest /\ toServer' = Taken(c)
      /\ failures' \in Nat
      /\ stored => StoreBatch(b)
      /\ ~stored => table' = table /\ reports' = reports
      /\ toAgent' = IF acked = {} THEN toAgent ELSE Answer(c, registered, HistoryAck(a))
  BY DEF HandleSyncHistory, agentVars, IInv, Typed, AgentTyped
<1>4. acked \subseteq DOMAIN b /\ (~stored => acked \subseteq Malformed)
  BY DEF AckedOf
<1>5. \A r \in DOMAIN b : b[r].rev \in Nat \ {0}
  BY <1>2 DEF Entry
<1> HIDE DEF b, acked
<1>6. \A r \in Runs : /\ table[r].rev \in Nat /\ latest[r] \in Nat
                      /\ table[r].rev <= latest[r]
  BY Numbers DEF IInv, TableBound
<1>7. /\ table' \in [Runs -> TableRow] /\ reports' \in [Runs -> Seq(Final)]
      /\ \A r \in Runs : table'[r].rev \in table[r].rev..latest[r]
  <2>1. CASE stored
    BY <1>1, <1>3, <2>1, StoreBatchForward
  <2>2. CASE ~stored
    BY <1>3, <1>6, <2>2 DEF IInv, Typed, ServerTyped
  <2> QED
    BY <2>1, <2>2
<1>8. \A r \in Runs : table[r].rev <= table'[r].rev /\ table'[r].rev \in Nat
  BY <1>6, <1>7
<1>9. a \in Acks(table')
  <2>1. DOMAIN a \subseteq Runs /\ a \in [DOMAIN a -> Nat \ {0}]
    BY <1>2, <1>4, <1>5
  <2>2. ASSUME NEW r \in DOMAIN a \ Malformed
        PROVE  a[r] <= table'[r].rev
    BY <1>1, <1>3, <1>4, StoreBatchForward
  <2> QED
    BY <2>1, <2>2, PerRunDef DEF Acks
<1>10. toAgent' \in [Sockets -> Seq(Answers(table'))]
  <2>1. Answers(table) \subseteq Answers(table')
    BY <1>7, <1>8, AnswersMonotone DEF IInv, Typed, ServerTyped
  <2>2. toAgent \in [Sockets -> Seq(Answers(table'))]
    BY <2>1, QueueMonotone DEF IInv, Typed, SocketsTyped
  <2>3. HistoryAck(a) \in Answers(table')
    BY <1>9 DEF HistoryAck, Answers
  <2>4. Answer(c, registered, HistoryAck(a)) \in [Sockets -> Seq(Answers(table'))]
    BY <2>2, <2>3, AnswerTyped
  <2> QED
    BY <1>3, <2>2, <2>4
<1>11. Typed'
  BY <1>1, <1>3, <1>7, <1>10
  DEF HandleSyncHistory, agentVars, runVars, timers, sockets,
      IInv, Typed, AgentTyped, SocketsTyped, ServerTyped
<1>12. HistoryBound' /\ TableBound'
  BY <1>3, <1>6, <1>7 DEF IInv, HistoryBound, TableBound
<1>13. AckedRevisionStored'
  <2> SUFFICES ASSUME NEW r \in DOMAIN hist \ Malformed
               PROVE  hist[r].synced <= table'[r].rev
    BY <1>3 DEF AckedRevisionStored
  <2>1. /\ hist[r].synced \in Nat /\ table[r].rev \in Nat /\ table'[r].rev \in Nat
        /\ table[r].rev <= table'[r].rev
    BY <1>6, <1>8, Numbers
  <2>2. hist[r].synced <= table[r].rev
    BY DEF IInv, AckedRevisionStored
  <2> QED
    BY <2>1, <2>2
<1>14. CopyMoves
  BY <1>3, <1>7 DEF CopyMoves
<1> QED
  BY <1>11, <1>12, <1>13, <1>14 DEF IInv

\* An acknowledgement moves rows forward to the revisions it names, no further.
LEMMA MarkSyncedForward ==
    ASSUME NEW h \in PerRun(Row), NEW acked \in PerRun(Nat \ {0}),
           NEW stored, stored \subseteq Moved(h, acked)
    PROVE  LET g == MarkSynced(h, acked, stored)
           IN  /\ g \in PerRun(Row) /\ DOMAIN g \subseteq DOMAIN h
               /\ \A r \in DOMAIN g :
                     /\ g[r].rev = h[r].rev
                     /\ \/ g[r].synced = h[r].synced
                        \/ r \in DOMAIN acked /\ h[r].synced < acked[r] /\ g[r].synced = acked[r]
<1> DEFINE m == [r \in DOMAIN h |-> IF r \in stored THEN [h[r] EXCEPT !.synced = acked[r]]
                                                    ELSE h[r]]
<1>1. /\ DOMAIN h \subseteq Runs /\ h \in [DOMAIN h -> Row]
      /\ acked \in [DOMAIN acked -> Nat \ {0}]
  BY PerRunDef
<1>2. \A r \in stored : r \in DOMAIN h \cap DOMAIN acked /\ h[r].synced < acked[r]
  BY DEF Moved
<1>3. \A r \in stored : /\ [h[r] EXCEPT !.synced = acked[r]] \in Row
                        /\ [h[r] EXCEPT !.synced = acked[r]].rev = h[r].rev
                        /\ [h[r] EXCEPT !.synced = acked[r]].synced = acked[r]
  <2> TAKE r \in stored
  <2>1. h[r] \in Row /\ acked[r] \in Nat
    BY <1>1, <1>2
  <2> QED
    BY <2>1 DEF Row
<1>4. /\ DOMAIN m = DOMAIN h
      /\ \A r \in DOMAIN h : /\ r \in stored => m[r] = [h[r] EXCEPT !.synced = acked[r]]
                             /\ r \notin stored => m[r] = h[r]
  OBVIOUS
<1>5. m \in [DOMAIN h -> Row]
  BY <1>1, <1>3
<1> HIDE DEF m
<1>6. m \in PerRun(Row)
  BY <1>1, <1>4, <1>5, PerRunDef
<1>7. \A r \in DOMAIN m :
         /\ m[r].rev = h[r].rev
         /\ \/ m[r].synced = h[r].synced
            \/ r \in DOMAIN acked /\ h[r].synced < acked[r] /\ m[r].synced = acked[r]
  BY <1>2, <1>3, <1>4
<1>8. CASE stored = {}
  <2>1. MarkSynced(h, acked, stored) = h
    BY <1>8 DEF MarkSynced
  <2> QED
    BY <2>1
<1>9. CASE stored # {}
  <2>1. MarkSynced(h, acked, stored) = Prune(m)
    BY <1>9 DEF MarkSynced, m
  <2>2. /\ Prune(m) \in PerRun(Row) /\ DOMAIN Prune(m) \subseteq DOMAIN m
        /\ \A r \in DOMAIN Prune(m) : Prune(m)[r] = m[r]
    BY <1>6, PruneKeeps
  <2> QED
    BY <1>4, <1>7, <2>1, <2>2
<1> QED
  BY <1>8, <1>9

\* HISTORY_ACK marks rows and sends the next batch.
LEMMA HistoryAckKeeps ==
    ASSUME IInv, NEW c \in Sockets, NEW stored, HandleHistoryAck(c, stored)
    PROVE  IInv' /\ SourceMoves
<1> DEFINE acked == Head(toAgent[c]).entries
<1>1. /\ hist \in PerRun(Row) /\ active \in BOOLEAN /\ latest \in [Runs -> Nat]
      /\ toServer \in [Sockets -> Seq(Sendable(latest))]
      /\ toAgent \in [Sockets -> Seq(Answers(table))]
      /\ flushTimer \in BOOLEAN /\ retryTimer \in BOOLEAN /\ failures \in Nat
  BY DEF IInv, Typed, AgentTyped, SocketsTyped
<1>2. Head(toAgent[c]) \in Answers(table) /\ toAgent' \in [Sockets -> Seq(Answers(table))]
  BY <1>1, HeadTyped DEF HandleHistoryAck, Receives
<1>3. acked \in Acks(table)
  BY <1>2 DEF HandleHistoryAck, Receives, Answers, AuthSuccess
<1>4. /\ acked \in PerRun(Nat \ {0})
      /\ \A r \in DOMAIN acked \ Malformed : acked[r] <= table[r].rev
      /\ \A r \in DOMAIN acked : acked[r] \in Nat
  BY <1>3, PerRunDef DEF Acks
<1>5. /\ stored \subseteq Moved(hist, acked)
      /\ hist' = MarkSynced(hist, acked, stored)
      /\ latest' = latest /\ table' = table /\ reports' = reports /\ active' = active
      /\ failures' \in Nat
      /\ stored # {} => Flush(hist', active, toServer)
      /\ stored = {} => UNCHANGED <<flushTimer, retryTimer, toServer>>
  BY <1>1 DEF HandleHistoryAck, serverVars
<1> HIDE DEF acked
<1>6. /\ hist' \in PerRun(Row) /\ DOMAIN hist' \subseteq DOMAIN hist
      /\ \A r \in DOMAIN hist' :
            /\ hist'[r].rev = hist[r].rev
            /\ \/ hist'[r].synced = hist[r].synced
               \/ r \in DOMAIN acked /\ hist[r].synced < acked[r] /\ hist'[r].synced = acked[r]
  BY <1>1, <1>4, <1>5, MarkSyncedForward
<1>7. \A r \in DOMAIN hist' : hist'[r].rev <= latest[r]
  BY <1>6 DEF IInv, HistoryBound
<1>8. /\ toServer' \in [Sockets -> Seq(Sendable(latest))]
      /\ flushTimer' \in BOOLEAN /\ retryTimer' \in BOOLEAN
  <2>1. CASE stored = {}
    BY <1>1, <1>5, <2>1
  <2>2. CASE stored # {}
    BY <1>1, <1>5, <1>6, <1>7, <2>2, FlushTyped
  <2> QED
    BY <2>1, <2>2
<1>9. Typed'
  BY <1>2, <1>5, <1>6, <1>8
  DEF HandleHistoryAck, runVars, sockets, serverVars,
      IInv, Typed, AgentTyped, SocketsTyped, ServerTyped
<1>10. HistoryBound' /\ TableBound'
  BY <1>5, <1>7 DEF IInv, HistoryBound, TableBound
<1>11. \A r \in DOMAIN hist' \ Malformed :
          hist[r].synced <= hist'[r].synced /\ hist'[r].synced <= table[r].rev
  <2> TAKE r \in DOMAIN hist' \ Malformed
  <2>1. hist[r].synced \in Nat /\ table[r].rev \in Nat /\ hist[r].synced <= table[r].rev
    BY <1>6, Numbers DEF IInv, AckedRevisionStored
  <2>2. CASE hist'[r].synced = hist[r].synced
    BY <2>1, <2>2
  <2>3. CASE r \in DOMAIN acked /\ hist[r].synced < acked[r] /\ hist'[r].synced = acked[r]
    BY <1>4, <2>1, <2>3
  <2> QED
    BY <1>6, <2>2, <2>3
<1>12. AckedRevisionStored'
  BY <1>5, <1>11 DEF AckedRevisionStored
<1>13. SourceMoves
  <2> SUFFICES ASSUME NEW r \in Runs \ Malformed, r \in DOMAIN hist'
               PROVE  hist'[r].synced \in AckedOn(r)..table[r].rev
    BY <1>5 DEF SourceMoves, AckedOn
  <2>1. r \in DOMAIN hist /\ AckedOn(r) = hist[r].synced
    BY <1>6 DEF AckedOn
  <2>2. hist'[r].synced \in Nat /\ hist[r].synced \in Nat /\ table[r].rev \in Nat
    <3>1. hist'[r] \in Row
      BY <1>6, PerRunDef
    <3> QED
      BY <2>1, <3>1, Numbers DEF Row
  <2> QED
    BY <1>11, <2>1, <2>2
<1> QED
  BY <1>9, <1>10, <1>12, <1>13 DEF IInv

\* A restart drops what pruning drops and raises the runs it settles by one.
LEMMA RestartKeeps ==
    ASSUME IInv, NEW held, NEW found, Restart(held, found)
    PROVE  IInv' /\ SourceMoves
<1> DEFINE stale == {r \in DOMAIN hist : hist[r].status = "running"} \ held
           end(r) == IF r \in found THEN "success" ELSE "abort"
           loaded == DOMAIN Prune(hist)
<1>1. /\ hist \in PerRun(Row) /\ DOMAIN hist \subseteq Runs /\ latest \in [Runs -> Nat]
      /\ toServer \in [Sockets -> Seq(Sendable(latest))]
      /\ loaded \subseteq DOMAIN hist
  BY PruneKeeps, PerRunDef DEF IInv, Typed, AgentTyped, SocketsTyped
<1>2. \A r \in DOMAIN hist : /\ hist[r] \in Row
                             /\ hist[r].rev \in Nat /\ hist[r].rev <= latest[r]
  BY Numbers DEF IInv, HistoryBound
<1>3. /\ hist' = [r \in loaded |-> IF r \notin stale THEN hist[r]
                                   ELSE Revised(hist[r], end(r), hist[r].started)]
      /\ latest' = [r \in Runs |-> IF r \in stale /\ hist[r].rev = latest[r]
                                   THEN latest[r] + 1 ELSE latest[r]]
      /\ toAgent' = [c \in Sockets |-> <<>>]
      /\ table' = table /\ reports' = reports /\ toServer' = toServer
  <2>1. \A r \in loaded : r \in DOMAIN hist
    BY <1>1
  <2> QED
    BY <2>1 DEF Restart, serverVars
<1>4. stale \subseteq DOMAIN hist /\ \A r : end(r) \in Status
  BY DEF Status, Final, Terminal
<1> HIDE DEF stale, end, loaded
<1>5. \A r \in stale : LET x == Revised(hist[r], end(r), hist[r].started)
                       IN  x \in Row /\ x.rev = hist[r].rev + 1 /\ x.synced = hist[r].synced
  <2> TAKE r \in stale
  <2>1. hist[r] \in Row /\ end(r) \in Status
    BY <1>2, <1>4
  <2>2. hist[r].started \in Nat
    BY <2>1 DEF Row
  <2> QED
    BY <2>1, <2>2, RevisedRow
<1>6. /\ DOMAIN hist' = loaded
      /\ \A r \in loaded : /\ hist'[r] \in Row /\ hist'[r].synced = hist[r].synced
                           /\ r \in stale => hist'[r].rev = hist[r].rev + 1
                           /\ r \notin stale => hist'[r].rev = hist[r].rev
  BY <1>1, <1>2, <1>3, <1>5
<1>7. hist' \in PerRun(Row)
  <2>1. hist' \in [loaded -> Row]
    BY <1>3, <1>6
  <2> QED
    BY <1>1, <1>6, <2>1, PerRunDef
<1>8. \A r \in Runs : /\ latest[r] \in Nat /\ latest'[r] \in Nat /\ latest[r] <= latest'[r]
                      /\ latest'[r] = latest[r] \/ latest'[r] = latest[r] + 1
                      /\ (r \in stale /\ hist[r].rev = latest[r]) => latest'[r] = latest[r] + 1
  <2> TAKE r \in Runs
  <2>1. latest[r] \in Nat
    BY <1>1
  <2> QED
    BY <1>3, <2>1
<1>9. latest' \in [Runs -> Nat]
  BY <1>3, <1>8
<1>10. HistoryBound'
  <2> SUFFICES ASSUME NEW r \in loaded
               PROVE  hist'[r].rev <= latest'[r]
    BY <1>6 DEF HistoryBound
  <2>1. r \in DOMAIN hist /\ r \in Runs
    BY <1>1
  <2>2. /\ hist[r].rev \in Nat /\ hist[r].rev <= latest[r] /\ latest[r] \in Nat
        /\ latest'[r] \in Nat /\ latest[r] <= latest'[r]
        /\ (r \in stale /\ hist[r].rev = latest[r]) => latest'[r] = latest[r] + 1
    BY <1>2, <1>8, <2>1
  <2>3. \/ r \in stale /\ hist'[r].rev = hist[r].rev + 1
        \/ hist'[r].rev = hist[r].rev
    BY <1>6
  <2> QED
    BY <2>2, <2>3
<1>11. toServer' \in [Sockets -> Seq(Sendable(latest'))]
  <2>1. Sendable(latest) \subseteq Sendable(latest')
    BY <1>1, <1>8, <1>9, SendableMonotone
  <2> QED
    BY <1>1, <1>3, <2>1, QueueMonotone
<1>12. toAgent' \in [Sockets -> Seq(Answers(table))]
  <2>1. <<>> \in Seq(Answers(table))
    OBVIOUS
  <2> QED
    BY <1>3, <2>1
<1>13. Typed'
  <2>1. /\ post' = {} /\ deferred' = held /\ checking' = {} /\ restarts' = restarts + 1
        /\ held \subseteq DOMAIN hist /\ conn' = NoSocket /\ agentEnds' = {}
        /\ active' = FALSE /\ flushTimer' = FALSE /\ retryTimer' = FALSE
        /\ UNCHANGED <<clock, opened, serverEnds, registered, failures>>
    BY DEF Restart, StopSync, Interrupted, serverVars
  <2>2. /\ post' \subseteq Runs /\ deferred' \subseteq Runs /\ checking' \subseteq Runs
        /\ clock' \in Nat /\ restarts' \in Nat /\ failures' \in Nat
        /\ active' \in BOOLEAN /\ flushTimer' \in BOOLEAN /\ retryTimer' \in BOOLEAN
    <3>1. clock \in Nat /\ restarts \in Nat /\ failures \in Nat
      BY DEF IInv, Typed, AgentTyped
    <3>2. held \subseteq Runs
      BY <1>1, <2>1
    <3>3. restarts' \in Nat
      BY <2>1, <3>1
    <3>4. active' \in BOOLEAN /\ flushTimer' \in BOOLEAN /\ retryTimer' \in BOOLEAN
      BY <2>1
    <3> QED
      BY <2>1, <3>1, <3>2, <3>3, <3>4
  <2>3. SocketsTyped'
    BY <1>3, <1>11, <1>12, <2>1 DEF IInv, Typed, SocketsTyped
  <2>4. ServerTyped'
    BY <1>3 DEF IInv, Typed, ServerTyped
  <2> QED
    BY <1>7, <1>9, <2>2, <2>3, <2>4 DEF Typed, AgentTyped
<1>14. TableBound'
  <2>1. \A r \in Runs : table[r].rev \in Nat /\ table[r].rev <= latest[r]
    BY Numbers DEF IInv, TableBound
  <2> QED
    BY <1>3, <1>8, <2>1 DEF TableBound
<1>15. AckedRevisionStored'
  BY <1>1, <1>3, <1>6 DEF IInv, AckedRevisionStored
<1>16. SourceMoves
  <2> SUFFICES ASSUME NEW r \in Runs \ Malformed, r \in loaded
               PROVE  hist'[r].synced \in AckedOn(r)..table[r].rev
    BY <1>3, <1>6, <1>8 DEF SourceMoves, AckedOn
  <2>1. r \in DOMAIN hist /\ AckedOn(r) = hist[r].synced /\ hist'[r].synced = hist[r].synced
    BY <1>1, <1>6 DEF AckedOn
  <2>2. /\ hist[r].synced \in Nat /\ table[r].rev \in Nat
        /\ hist[r].synced <= table[r].rev
    BY <2>1, Numbers DEF IInv, AckedRevisionStored
  <2> QED
    BY <2>1, <2>2
<1> QED
  BY <1>10, <1>13, <1>14, <1>15, <1>16 DEF IInv

-----------------------------------------------------------------------------
(***************************************************************************)
(* The theorems.                                                           *)
(***************************************************************************)
LEMMA InitEstablishes ==
    ASSUME Init
    PROVE  IInv
<1>1. hist \in PerRun(Row) /\ DOMAIN hist = {}
  <2>1. DOMAIN hist = {} /\ hist \in [{} -> Row]
    BY DEF Init
  <2> QED
    BY <2>1, PerRunDef
<1>2. /\ <<>> \in Seq(Sendable(latest)) /\ <<>> \in Seq(Answers(table))
      /\ <<>> \in Seq(Final)
  OBVIOUS
<1>3. Typed
  <2>1. AgentTyped
    BY <1>1 DEF Init, AgentTyped
  <2>2. SocketsTyped
    BY <1>2, SyncAssumption DEF Init, SocketsTyped
  <2>3. ServerTyped
    BY <1>2 DEF Init, ServerTyped, TableRow, NoRow, Null
  <2> QED
    BY <2>1, <2>2, <2>3 DEF Typed
<1>4. HistoryBound /\ AckedRevisionStored
  BY <1>1 DEF HistoryBound, AckedRevisionStored
<1>5. TableBound
  BY DEF Init, TableBound, NoRow, Null
<1> QED
  BY <1>3, <1>4, <1>5 DEF IInv

LEMMA NextKeeps ==
    ASSUME IInv, [Next]_vars
    PROVE  IInv' /\ Moves
<1>1. CASE RunStep
  BY <1>1, RunStepKeeps DEF Moves
<1>2. CASE SocketStep
  BY <1>2, SocketStepKeeps DEF Moves
<1>3. CASE Timer
  BY <1>3, TimerKeeps DEF Moves
<1>4. CASE RestartStep
  BY <1>4, RestartKeeps DEF Moves, RestartStep
<1>5. CASE MessageStep
  <2> PICK c \in Sockets : ServerHandles(c) \/ AgentHandles(c)
    BY <1>5 DEF MessageStep
  <2>1. CASE ServerHandles(c)
    BY <2>1, AuthKeeps, StatusUpdateKeeps, SyncHistoryKeeps DEF Moves, ServerHandles
  <2>2. CASE AgentHandles(c)
    BY <2>2, AuthSuccessKeeps, HistoryAckKeeps DEF Moves, AgentHandles
  <2> QED
    BY <2>1, <2>2
<1>6. CASE UNCHANGED vars
  <2>1. /\ UNCHANGED <<hist, clock, post, deferred, checking, latest, conn>>
        /\ UNCHANGED <<active, flushTimer, retryTimer>>
        /\ UNCHANGED <<opened, agentEnds, serverEnds, toServer, toAgent>>
        /\ UNCHANGED <<registered, table, reports, restarts, failures>>
    BY <1>6 DEF vars, agentVars, runVars, timers, sockets, serverVars, bounds
  <2> QED
    BY <2>1, QuietStep DEF Moves, IInv, Typed, AgentTyped, SocketsTyped
<1> QED
  BY <1>1, <1>2, <1>3, <1>4, <1>5, <1>6 DEF Next

LEMMA Inductive == Spec => []IInv
<1>1. Init => IInv
  BY InitEstablishes
<1>2. IInv /\ [Next]_vars => IInv'
  BY NextKeeps
<1> QED
  BY <1>1, <1>2, PTL DEF Spec

\* Agent, server and everything under way between them keep their types: an
\* acknowledged revision is a number, a batch names runs there are, and so on.
THEOREM TypeCorrect == Spec => []TypeOK
<1>1. IInv => TypeOK
  <2> SUFFICES ASSUME IInv
               PROVE  TypeOK
    OBVIOUS
  <2>1. IsHistory(hist)
    BY PerRunDef DEF IInv, Typed, AgentTyped, IsHistory, IsPerRun
  <2>2. ASSUME NEW c \in Sockets, NEW i \in 1..Len(toServer[c])
        PROVE  IsAgentMessage(toServer[c][i])
    <3>1. toServer[c][i] \in Sendable(latest)
      BY <2>2 DEF IInv, Typed, SocketsTyped
    <3>2. \A b \in Batches(latest) : IsPerRun(b, Entry)
      BY PerRunDef DEF Batches, IsPerRun
    <3> QED
      BY <3>1, <3>2 DEF Sendable, IsAgentMessage, StatusUpdate, SyncHistory
  <2>3. ASSUME NEW c \in Sockets, NEW i \in 1..Len(toAgent[c])
        PROVE  IsServerMessage(toAgent[c][i])
    <3>1. toAgent[c][i] \in Answers(table)
      BY <2>3 DEF IInv, Typed, SocketsTyped
    <3>2. \A a \in Acks(table) : IsPerRun(a, Nat \ {0})
      BY PerRunDef DEF Acks, IsPerRun
    <3> QED
      BY <3>1, <3>2 DEF Answers, IsServerMessage, HistoryAck
  <2>4. DOMAIN toServer = Sockets /\ DOMAIN toAgent = Sockets
    BY DEF IInv, Typed, SocketsTyped
  <2> QED
    BY <2>1, <2>2, <2>3, <2>4
    DEF IInv, Typed, AgentTyped, SocketsTyped, ServerTyped, TypeOK, TableRow
<1> QED
  BY <1>1, Inductive, PTL

\* The agent takes no revision for acknowledged that the server does not have,
\* through failed transactions, lost sockets, late deliveries and restarts.
THEOREM AckedIsStored == Spec => []AckedRevisionStored
<1>1. IInv => AckedRevisionStored
  BY DEF IInv
<1> QED
  BY <1>1, Inductive, PTL

\* What an acknowledgement means to the agent is true of the server.
THEOREM AcksMean == Spec => []AcksAreTrue
  BY TypeCorrect, AckedIsStored, PTL DEF AcksAreTrue

\* The server never puts an older revision back, whatever order batches and
\* live updates arrive in.
THEOREM RevisionsRise == Spec => RevisionNeverFalls
<1>1. IInv /\ [Next]_vars => [\A r \in Runs : table'[r].rev >= table[r].rev]_vars
  <2> SUFFICES ASSUME IInv, [Next]_vars
               PROVE  \A r \in Runs : table'[r].rev >= table[r].rev
    OBVIOUS
  <2>1. Moves
    BY NextKeeps
  <2> QED
    BY <2>1, Numbers DEF Moves, SourceMoves, CopyMoves
<1> QED
  BY <1>1, Inductive, PTL DEF Spec, RevisionNeverFalls

\* The history sync implements the promise of module Delivery.
THEOREM Refinement == Spec => DeliversHistory
<1>1. Init => D!Init
  BY DEF Init, D!Init, D!Zero, NoRow, Null
<1>2. IInv /\ [Next]_vars => [D!Next]_D!vars
  <2> SUFFICES ASSUME IInv, [Next]_vars
               PROVE  D!Next
    OBVIOUS
  <2>1. \A r \in Runs : latest[r] \in Nat /\ table[r].rev \in Nat /\ AckedOn(r) \in Nat
    BY Numbers
  <2>2. CASE SourceMoves
    <3>1. D!SourceStep
      BY <2>1, <2>2 DEF SourceMoves, D!SourceStep, AckedOn
    <3> QED
      BY <3>1 DEF D!Next
  <2>3. CASE CopyMoves
    <3>1. D!CopyStep
      BY <2>1, <2>3 DEF CopyMoves, D!CopyStep
    <3> QED
      BY <3>1 DEF D!Next
  <2> QED
    BY <2>2, <2>3, NextKeeps DEF Moves
<1> QED
  BY <1>1, <1>2, Inductive, PTL DEF Spec, DeliversHistory, D!Spec

-----------------------------------------------------------------------------
(***************************************************************************)
(* Pruning: what is dropped is acknowledged, or MaxUnsynced younger rows   *)
(* are left.                                                               *)
(***************************************************************************)
LEMMA Least ==
    ASSUME NEW T \in SUBSET Nat, T # {}
    PROVE  \E x \in T : \A y \in T : x <= y
<1> DEFINE R == {n \in Nat \X Nat : n[1] < n[2]}
<1>1. IsWellFoundedOn(R, Nat)
  BY NatLessThanWellFounded DEF OpToRel
<1> HIDE DEF R
<1>2. PICK x \in T : \A y \in T : <<y, x>> \notin R
  BY <1>1, WFMin
<1>3. \A y \in T : ~(y < x)
  BY <1>2 DEF R
<1>4. QED
  BY <1>2, <1>3

\* The rows waiting that are younger than a row.
Younger(h, r) == {s \in Waiting(h) : h[s].created > h[r].created}
Staying(h, r) == {s \in Younger(h, r) : s \notin Overflow(h)}

LEMMA YoungerAre ==
    ASSUME NEW h \in PerRun(Row), IsFiniteSet(DOMAIN h), NEW r \in DOMAIN h
    PROVE  /\ Younger(h, r) \subseteq DOMAIN h /\ IsFiniteSet(Younger(h, r))
           /\ Cardinality(Younger(h, r)) \in Nat
           /\ h[r].created \in Nat
<1>1. Younger(h, r) \subseteq DOMAIN h
  BY DEF Younger, Waiting
<1>2. IsFiniteSet(Younger(h, r))
  BY <1>1, FS_Subset
<1>3. h[r] \in Row
  BY PerRunDef
<1>4. QED
  BY <1>1, <1>2, <1>3, FS_CardinalityType DEF Row

\* A younger row has fewer that are younger still.
LEMMA FewerAreYounger ==
    ASSUME NEW h \in PerRun(Row), IsFiniteSet(DOMAIN h), NEW r \in DOMAIN h, NEW s \in Younger(h, r)
    PROVE  /\ s \in DOMAIN h /\ Younger(h, s) \subseteq Younger(h, r)
           /\ Cardinality(Younger(h, s)) < Cardinality(Younger(h, r))
<1>1. s \in DOMAIN h /\ s \in Waiting(h) /\ h[s].created > h[r].created
  BY DEF Younger, Waiting
<1>2. h[s].created \in Nat /\ h[r].created \in Nat
  BY <1>1, YoungerAre
<1>3. Younger(h, s) \subseteq Younger(h, r)
  <2> SUFFICES ASSUME NEW x \in Younger(h, s) PROVE x \in Younger(h, r)
    OBVIOUS
  <2>1. x \in Waiting(h) /\ x \in DOMAIN h /\ h[x].created > h[s].created
    BY DEF Younger, Waiting
  <2>2. h[x].created \in Nat
    BY <2>1, YoungerAre
  <2>3. QED
    BY <1>1, <1>2, <2>1, <2>2 DEF Younger
<1>4. s \notin Younger(h, s)
  BY <1>2 DEF Younger
<1>5. IsFiniteSet(Younger(h, r)) /\ Cardinality(Younger(h, r)) \in Nat
      /\ Cardinality(Younger(h, s)) \in Nat
  BY <1>1, YoungerAre
<1>6. Cardinality(Younger(h, s)) <= Cardinality(Younger(h, r))
      /\ Cardinality(Younger(h, s)) # Cardinality(Younger(h, r))
  BY <1>3, <1>4, <1>5, FS_Subset
<1>7. QED
  BY <1>1, <1>3, <1>5, <1>6

\* The youngest MaxUnsynced stay: of those that overflow, the one that has the
\* fewest that are younger has enough of them, and none of these overflows.
LEMMA EnoughStay ==
    ASSUME NEW h \in PerRun(Row), IsFiniteSet(DOMAIN h), NEW r \in Overflow(h)
    PROVE  Cardinality(Staying(h, r)) >= MaxUnsynced
<1>1. r \in DOMAIN h /\ Cardinality(Younger(h, r)) >= MaxUnsynced
  BY DEF Overflow, Waiting, Younger
<1>2. MaxUnsynced \in Nat
  BY StoreAssumption
<1> DEFINE O == {s \in Younger(h, r) : s \in Overflow(h)}
           C == {Cardinality(Younger(h, s)) : s \in O}
<1>3. \A s \in O : /\ s \in DOMAIN h /\ Younger(h, s) \subseteq Younger(h, r)
                   /\ Cardinality(Younger(h, s)) \in Nat /\ Cardinality(Younger(h, s)) >= MaxUnsynced
  <2> TAKE s \in O
  <2>1. s \in Younger(h, r) /\ s \in Overflow(h)
    OBVIOUS
  <2>2. s \in DOMAIN h /\ Younger(h, s) \subseteq Younger(h, r)
    BY <1>1, <2>1, FewerAreYounger
  <2>3. Cardinality(Younger(h, s)) >= MaxUnsynced
    BY <2>1 DEF Overflow, Younger
  <2>4. QED
    BY <2>2, <2>3, YoungerAre
<1>4. IsFiniteSet(Staying(h, r)) /\ Cardinality(Staying(h, r)) \in Nat
  <2>1. Staying(h, r) \subseteq Younger(h, r) /\ IsFiniteSet(Younger(h, r))
    BY <1>1, YoungerAre DEF Staying
  <2>2. QED
    BY <2>1, FS_Subset, FS_CardinalityType
<1>5. CASE O = {}
  <2>1. Staying(h, r) = Younger(h, r)
    BY <1>5 DEF Staying
  <2>2. QED
    BY <1>1, <2>1
<1>6. CASE O # {}
  <2>1. C \in SUBSET Nat /\ C # {}
    BY <1>3, <1>6
  <2>2. PICK c \in C : \A d \in C : c <= d
    <3> HIDE DEF C
    <3>1. QED
      BY <2>1, Least
  <2>3. PICK s \in O : c = Cardinality(Younger(h, s))
    BY <2>2
  <2>4. \A x \in O : Cardinality(Younger(h, s)) <= Cardinality(Younger(h, x))
    BY <2>2, <2>3
  <2>5. Younger(h, s) \subseteq Staying(h, r)
    <3> SUFFICES ASSUME NEW x \in Younger(h, s) PROVE x \in Staying(h, r)
      OBVIOUS
    <3>1. x \in Younger(h, r)
      BY <1>3, <2>3
    <3>2. Cardinality(Younger(h, x)) < Cardinality(Younger(h, s)) /\ x \in DOMAIN h
      BY <1>3, <2>3, FewerAreYounger
    <3>3. Cardinality(Younger(h, x)) \in Nat /\ Cardinality(Younger(h, s)) \in Nat
      BY <1>3, <2>3, <3>2, YoungerAre
    <3>4. x \notin O
      BY <2>4, <3>2, <3>3
    <3>5. QED
      BY <3>1, <3>4 DEF Staying
  <2>6. Cardinality(Younger(h, s)) <= Cardinality(Staying(h, r))
    BY <1>4, <2>5, FS_Subset
  <2>7. QED
    BY <1>2, <1>3, <1>4, <2>3, <2>6
<1>7. QED
  BY <1>5, <1>6

LEMMA DroppedAre ==
    ASSUME NEW h \in PerRun(Row), IsFiniteSet(DOMAIN h), NEW r \in DOMAIN h \ DOMAIN Prune(h)
    PROVE  /\ ~IsActive(h[r])
           /\ ~IsUnsynced(h[r]) \/ Cardinality(Staying(h, r)) >= MaxUnsynced
           /\ Staying(h, r) \subseteq DOMAIN Prune(h)
<1>1. DOMAIN Prune(h) = Needed(h) \ Overflow(h)
  BY DEF Prune
<1>2. Staying(h, r) \subseteq Needed(h) \ Overflow(h)
  BY DEF Staying, Younger, Waiting, Needed
<1>3. CASE r \in Overflow(h)
  BY <1>1, <1>2, <1>3, EnoughStay DEF Overflow, Waiting
<1>4. CASE r \notin Needed(h)
  BY <1>1, <1>2, <1>4 DEF Needed
<1>5. QED
  BY <1>1, <1>3, <1>4

\* What stays of a history is counted in any that holds it as it was.
LEMMA StayersAreCounted ==
    ASSUME NEW h \in PerRun(Row), NEW r \in DOMAIN h, Cardinality(Staying(h, r)) >= MaxUnsynced,
           NEW g \in PerRun(Row), IsFiniteSet(DOMAIN g),
           \A s \in Staying(h, r) : s \in DOMAIN g /\ g[s] = h[s]
    PROVE  Cardinality({s \in Waiting(g) : g[s].created > h[r].created}) >= MaxUnsynced
<1> DEFINE G == {s \in Waiting(g) : g[s].created > h[r].created}
<1>1. Staying(h, r) \subseteq G
  BY DEF Staying, Younger, Waiting
<1>2. G \subseteq DOMAIN g
  BY DEF Waiting
<1> HIDE DEF G
<1>3. IsFiniteSet(G) /\ Cardinality(G) \in Nat
  BY <1>2, FS_Subset, FS_CardinalityType
<1>4. Cardinality(Staying(h, r)) <= Cardinality(G) /\ Cardinality(Staying(h, r)) \in Nat
  BY <1>1, <1>3, FS_Subset, FS_CardinalityType
<1>5. Cardinality(G) >= MaxUnsynced
  BY <1>3, <1>4, StoreAssumption
<1>6. QED
  BY <1>5 DEF G

\* Rows can be counted, and a new one is younger than all of them.
Counted == /\ IsFiniteSet(DOMAIN hist)
           /\ \A r \in DOMAIN hist : hist[r].created <= clock
\* What DroppedOnlyWhenFull says of a step.
KeptRightly ==
    \A r \in (DOMAIN hist \ DOMAIN hist') \ Malformed :
          /\ ~IsActive(hist[r])
          /\ \/ table[r].rev >= hist[r].rev
             \/ Cardinality({s \in Waiting(hist') : hist'[s].created > hist[r].created})
                   >= MaxUnsynced

\* A row that enters drops none that it may not drop, and is not dropped.
LEMMA InsertKeeps ==
    ASSUME IInv, Counted, NEW r \in Runs, NEW s \in Status,
           hist' = Insert(hist, r, s, clock), clock' = clock + 1, table' = table
    PROVE  Counted' /\ KeptRightly
<1> DEFINE entered == [status |-> s, rev |-> 1, synced |-> Null,
                       created |-> clock, started |-> clock, snapshot |-> FALSE]
           h == Put(hist, r, entered)
<1>1. hist \in PerRun(Row) /\ clock \in Nat /\ DOMAIN hist \subseteq Runs /\ hist \in [DOMAIN hist -> Row]
  BY PerRunDef DEF IInv, Typed, AgentTyped
<1>2. entered \in Row /\ entered.created = clock /\ entered.synced < entered.rev
  BY <1>1 DEF Row, Null
<1>3. /\ DOMAIN h = DOMAIN hist \cup {r}
      /\ \A u \in DOMAIN h : h[u] = IF u = r THEN entered ELSE hist[u]
  BY DEF Put
<1>4. hist' = Prune(h)
  BY DEF Insert
<1> HIDE DEF entered
<1>5. h \in [DOMAIN h -> Row]
  <2>1. \A u \in DOMAIN h : h[u] \in Row
    BY <1>1, <1>2, <1>3
  <2>2. QED
    BY <2>1 DEF Put
<1> HIDE DEF h
<1>6. h \in PerRun(Row) /\ IsFiniteSet(DOMAIN h)
  <2>1. h \in PerRun(Row)
    BY <1>1, <1>3, <1>5, PerRunDef
  <2>2. QED
    BY <1>3, <2>1, FS_AddElement DEF Counted
<1>7. \A u \in DOMAIN h : h[u].created \in Nat /\ h[u].created <= clock
  <2> TAKE u \in DOMAIN h
  <2>1. h[u].created \in Nat
    BY <1>5 DEF Row
  <2>2. CASE u = r
    BY <1>1, <1>2, <1>3, <2>2
  <2>3. CASE u # r
    BY <1>3, <2>1, <2>3 DEF Counted
  <2>4. QED
    BY <2>1, <2>2, <2>3
<1>8. /\ hist' \in PerRun(Row) /\ DOMAIN hist' \subseteq DOMAIN h
      /\ \A u \in DOMAIN hist' : hist'[u] = h[u]
  BY <1>4, <1>6, PruneKeeps
<1>9. IsFiniteSet(DOMAIN hist')
  BY <1>6, <1>8, FS_Subset
<1>10. Counted'
  <2>1. \A u \in DOMAIN hist' : hist'[u].created <= clock'
    <3> TAKE u \in DOMAIN hist'
    <3>1. hist'[u].created \in Nat /\ hist'[u].created <= clock
      BY <1>7, <1>8
    <3>2. QED
      BY <1>1, <3>1
  <2>2. QED
    BY <1>9, <2>1 DEF Counted
<1>11. r \in DOMAIN hist'
  <2> SUFFICES ASSUME r \notin DOMAIN hist' PROVE FALSE
    OBVIOUS
  <2>1. r \in DOMAIN h \ DOMAIN Prune(h)
    BY <1>3, <1>4
  <2>2. Cardinality(Staying(h, r)) >= MaxUnsynced
    BY <1>2, <1>3, <1>6, <2>1, DroppedAre DEF IsUnsynced
  <2>3. Staying(h, r) = {}
    <3> SUFFICES ASSUME NEW x \in Staying(h, r) PROVE FALSE
      OBVIOUS
    <3>1. x \in DOMAIN h /\ h[x].created > h[r].created
      BY DEF Staying, Younger, Waiting
    <3>2. h[r].created = clock
      BY <1>2, <1>3
    <3>3. QED
      BY <1>1, <1>7, <3>1, <3>2
  <2>4. Cardinality(Staying(h, r)) = 0
    BY <2>3, FS_EmptySet
  <2>5. QED
    BY <2>2, <2>4, StoreAssumption
<1>12. ASSUME NEW x \in (DOMAIN hist \ DOMAIN hist') \ Malformed
       PROVE  /\ ~IsActive(hist[x])
              /\ \/ table[x].rev >= hist[x].rev
                 \/ Cardinality({u \in Waiting(hist') : hist'[u].created > hist[x].created})
                       >= MaxUnsynced
  <2>1. x # r /\ x \in DOMAIN h \ DOMAIN Prune(h) /\ h[x] = hist[x]
    BY <1>3, <1>4, <1>11
  <2>2. /\ ~IsActive(h[x])
        /\ ~IsUnsynced(h[x]) \/ Cardinality(Staying(h, x)) >= MaxUnsynced
        /\ Staying(h, x) \subseteq DOMAIN hist'
    BY <1>4, <1>6, <2>1, DroppedAre
  <2>3. CASE ~IsUnsynced(h[x])
    <3>1. hist[x].synced <= table[x].rev /\ x \in Runs /\ hist[x] \in Row
      BY <1>1 DEF IInv, AckedRevisionStored
    <3>2. hist[x].synced \in Nat /\ hist[x].rev \in Nat /\ table[x].rev \in Nat
      BY <3>1 DEF Row, IInv, Typed, ServerTyped, TableRow
    <3>3. table[x].rev >= hist[x].rev
      BY <2>1, <2>3, <3>1, <3>2 DEF IsUnsynced
    <3>4. QED
      BY <2>1, <2>2, <3>3
  <2>4. CASE Cardinality(Staying(h, x)) >= MaxUnsynced
    <3>1. \A u \in Staying(h, x) : u \in DOMAIN hist' /\ hist'[u] = h[u]
      BY <1>8, <2>2
    <3>2. PICK g \in PerRun(Row) : g = hist'
      BY <1>8
    <3>3. Cardinality({u \in Waiting(g) : g[u].created > h[x].created}) >= MaxUnsynced
      BY <1>6, <1>9, <2>1, <2>4, <3>1, <3>2, StayersAreCounted
    <3>4. QED
      BY <2>1, <2>2, <3>2, <3>3
  <2>5. QED
    BY <2>2, <2>3, <2>4
<1>13. QED
  BY <1>10, <1>12 DEF KeptRightly

\* Other writes of a run, which drop none.
LEMMA RewrittenKeeps ==
    ASSUME IInv, Counted, DOMAIN hist' = DOMAIN hist,
           \A r \in DOMAIN hist : hist'[r].created = hist[r].created,
           clock' = clock \/ clock' = clock + 1
    PROVE  Counted' /\ KeptRightly
<1>1. \A r \in DOMAIN hist : hist[r].created \in Nat
  <2>1. hist \in PerRun(Row)
    BY DEF IInv, Typed, AgentTyped
  <2>2. hist \in [DOMAIN hist -> Row]
    BY <2>1, PerRunDef
  <2>3. QED
    BY <2>2 DEF Row
<1>2. clock \in Nat
  BY DEF IInv, Typed, AgentTyped
<1>3. \A r \in DOMAIN hist' : hist'[r].created <= clock'
  <2> TAKE r \in DOMAIN hist'
  <2>1. hist'[r].created = hist[r].created /\ hist[r].created \in Nat /\ hist[r].created <= clock
    BY <1>1 DEF Counted
  <2>2. QED
    BY <1>2, <2>1
<1>4. QED
  BY <1>3 DEF Counted, KeptRightly

\* An update leaves the rows there are, and when each was created.
LEMMA UpdateSame ==
    ASSUME NEW h \in PerRun(Row), NEW r, NEW s, NEW t
    PROVE  /\ DOMAIN Update(h, r, s, t) = DOMAIN h
           /\ \A x \in DOMAIN h : Update(h, r, s, t)[x].created = h[x].created
           /\ DOMAIN SetSnapshot(h, r) = DOMAIN h
           /\ \A x \in DOMAIN h : SetSnapshot(h, r)[x].created = h[x].created
<1>1. h \in [DOMAIN h -> Row]
  BY PerRunDef
<1>2. \A x \in Row : \A q, u : Revised(x, q, u).created = x.created /\ Named(x).created = x.created
  BY DEF Revised, Named, Row
<1>3. \A q, u : /\ DOMAIN Update(h, r, q, u) = DOMAIN h
                /\ \A x \in DOMAIN h : Update(h, r, q, u)[x].created = h[x].created
  <2> TAKE q, u
  <2>1. CASE r \in DOMAIN h
    <3>1. Update(h, r, q, u) = [h EXCEPT ![r] = Revised(h[r], q, u)]
      BY <2>1 DEF Update
    <3>2. h[r] \in Row
      BY <1>1, <2>1
    <3>3. QED
      BY <1>2, <3>1, <3>2
  <2>2. CASE r \notin DOMAIN h
    BY <2>2 DEF Update
  <2>3. QED
    BY <2>1, <2>2
<1>4. /\ DOMAIN SetSnapshot(h, r) = DOMAIN h
      /\ \A x \in DOMAIN h : SetSnapshot(h, r)[x].created = h[x].created
  <2>1. CASE r \in DOMAIN h
    <3>1. SetSnapshot(h, r) = [h EXCEPT ![r] = Named(h[r])] /\ h[r] \in Row
      BY <1>1, <2>1 DEF SetSnapshot
    <3>2. QED
      BY <1>2, <3>1
  <2>2. CASE r \notin DOMAIN h
    BY <2>2 DEF SetSnapshot
  <2>3. QED
    BY <2>1, <2>2
<1>5. QED
  BY <1>3, <1>4

\* What pruning drops of a history h, seen in one that holds what it keeps.
LEMMA DropCounts ==
    ASSUME NEW h \in PerRun(Row), IsFiniteSet(DOMAIN h), NEW r \in DOMAIN h \ DOMAIN Prune(h),
           NEW g \in PerRun(Row), DOMAIN g = DOMAIN Prune(h),
           \A s \in DOMAIN g : ~IsActive(h[s]) => g[s] = h[s]
    PROVE  /\ ~IsActive(h[r])
           /\ \/ ~IsUnsynced(h[r])
              \/ Cardinality({s \in Waiting(g) : g[s].created > h[r].created}) >= MaxUnsynced
<1>1. /\ ~IsActive(h[r])
      /\ ~IsUnsynced(h[r]) \/ Cardinality(Staying(h, r)) >= MaxUnsynced
      /\ Staying(h, r) \subseteq DOMAIN Prune(h)
  BY DroppedAre
<1>2. IsFiniteSet(DOMAIN g)
  <2>1. DOMAIN g \subseteq DOMAIN h
    BY PruneKeeps
  <2>2. QED
    BY <2>1, FS_Subset
<1>3. \A s \in Staying(h, r) : s \in DOMAIN g /\ g[s] = h[s]
  <2> TAKE s \in Staying(h, r)
  <2>1. s \in DOMAIN g
    BY <1>1
  <2>2. ~IsActive(h[s])
    BY DEF Staying, Younger, Waiting
  <2>3. QED
    BY <2>1, <2>2
<1>4. CASE Cardinality(Staying(h, r)) >= MaxUnsynced
  <2>1. Cardinality({s \in Waiting(g) : g[s].created > h[r].created}) >= MaxUnsynced
    BY <1>2, <1>3, <1>4, StayersAreCounted
  <2>2. QED
    BY <1>1, <2>1
<1>5. QED
  BY <1>1, <1>4

\* A write to a row there is.
LEMMA TouchedKeeps ==
    ASSUME IInv, Counted, NEW r, NEW s, NEW t, clock' = clock \/ clock' = clock + 1,
           hist' = hist \/ hist' = Update(hist, r, s, t) \/ hist' = SetStatus(hist, r, s)
                        \/ hist' = SetSnapshot(hist, r)
    PROVE  Counted' /\ KeptRightly
<1>1. hist \in PerRun(Row)
  BY DEF IInv, Typed, AgentTyped
<1>2. DOMAIN hist' = DOMAIN hist /\ \A x \in DOMAIN hist : hist'[x].created = hist[x].created
  <2>1. CASE hist' = hist
    BY <2>1
  <2>2. CASE hist' = Update(hist, r, s, t)
    BY <1>1, <2>2, UpdateSame
  <2>3. CASE hist' = SetStatus(hist, r, s)
    <3>1. SetStatus(hist, r, s) = hist \/ SetStatus(hist, r, s) = Update(hist, r, s, hist[r].started)
      BY DEF SetStatus
    <3>2. QED
      BY <1>1, <2>3, <3>1, UpdateSame
  <2>4. CASE hist' = SetSnapshot(hist, r)
    BY <1>1, <2>4, UpdateSame
  <2>5. QED
    BY <2>1, <2>2, <2>3, <2>4
<1>3. QED
  BY <1>2, RewrittenKeeps

\* The writes of runs.
LEMMA RunStepDrops ==
    ASSUME IInv, Counted, RunStep
    PROVE  Counted' /\ KeptRightly
<1>1. /\ hist \in PerRun(Row) /\ clock \in Nat
  BY DEF IInv, Typed, AgentTyped
<1>2. {"queued", "running", "abort", "failed", "success", "skipped", "missed"} \subseteq Status
  BY DEF Status, Active, Final, Terminal
<1>3. EndStates \subseteq Status
  BY SyncAssumption DEF Status, Final
<1> PICK r \in Runs :
      \/ Enqueue(r) \/ Start(r) \/ FailBeforeStart(r) \/ Name(r)
      \/ AbortQueued(r)
      \/ \E s \in EndStates \ Terminal : RecordUnstarted(r, s)
      \/ \E s \in {"queued", "skipped"} : Reinsert(r, s)
      \/ \E s \in EndStates \cap Terminal : Finish(r, s)
      \/ \E s \in {"success", "abort"} : SettleDeferred(r, s)
      \/ \E ok \in BOOLEAN : PostScript(r, ok)
  BY DEF RunStep
<1>4. ASSUME NEW s \in Status, hist' = Insert(hist, r, s, clock), clock' = clock + 1, table' = table
      PROVE  Counted' /\ KeptRightly
  BY <1>4, InsertKeeps
<1>5. ASSUME NEW s, NEW t, clock' = clock \/ clock' = clock + 1,
             hist' = hist \/ hist' = Update(hist, r, s, t) \/ hist' = SetStatus(hist, r, s)
                          \/ hist' = SetSnapshot(hist, r)
      PROVE  Counted' /\ KeptRightly
  BY <1>5, TouchedKeeps
<1>6. CASE Enqueue(r)
  BY <1>2, <1>4, <1>6 DEF Enqueue, WriteRun, Tick, agentRest, serverVars
<1>7. CASE Start(r)
  <2>1. /\ hist' = StartRunning(hist, r, clock) /\ clock' = clock + 1 /\ table' = table
    BY <1>7 DEF Start, WriteRun, Tick, agentRest, serverVars
  <2>2. CASE r \in DOMAIN hist
    <3>1. hist' = Update(hist, r, "running", clock)
      BY <2>1, <2>2 DEF StartRunning
    <3>2. QED
      BY <1>5, <2>1, <3>1
  <2>3. CASE r \notin DOMAIN hist
    <3>1. hist' = Insert(hist, r, "running", clock)
      BY <2>1, <2>3 DEF StartRunning
    <3>2. QED
      BY <1>2, <1>4, <2>1, <3>1
  <2>4. QED
    BY <2>2, <2>3
<1>8. CASE FailBeforeStart(r)
  <2>1. /\ hist' = RecordFailed(hist, r, clock) /\ clock' = clock + 1 /\ table' = table
    BY <1>8 DEF FailBeforeStart, WriteRun, Tick, agentRest, serverVars
  <2>2. CASE r \in DOMAIN hist
    <3>1. hist' = SetStatus(hist, r, "failed")
      BY <2>1, <2>2 DEF RecordFailed
    <3>2. QED
      BY <1>5, <2>1, <3>1
  <2>3. CASE r \notin DOMAIN hist
    <3>1. hist' = Insert(hist, r, "failed", clock)
      BY <2>1, <2>3 DEF RecordFailed
    <3>2. QED
      BY <1>2, <1>4, <2>1, <3>1
  <2>4. QED
    BY <2>2, <2>3
<1>9. CASE Name(r)
  BY <1>5, <1>9 DEF Name, WriteRun
<1>10. CASE AbortQueued(r)
  BY <1>5, <1>10 DEF AbortQueued, WriteRun
<1>11. CASE \E s \in EndStates \ Terminal : RecordUnstarted(r, s)
  BY <1>3, <1>4, <1>11 DEF RecordUnstarted, WriteRun, Tick, agentRest, serverVars
<1>12. CASE \E s \in {"queued", "skipped"} : Reinsert(r, s)
  BY <1>2, <1>4, <1>12 DEF Reinsert, WriteRun, Tick, agentRest, serverVars
<1>13. CASE \E s \in EndStates \cap Terminal : Finish(r, s)
  BY <1>5, <1>13 DEF Finish, WriteRun
<1>14. CASE \E s \in {"success", "abort"} : SettleDeferred(r, s)
  BY <1>5, <1>14 DEF SettleDeferred, WriteRun
<1>15. CASE \E ok \in BOOLEAN : PostScript(r, ok)
  BY <1>5, <1>15 DEF PostScript, WriteRun
<1>16. QED
  BY <1>6, <1>7, <1>8, <1>9, <1>10, <1>11, <1>12, <1>13, <1>14, <1>15

\* An acknowledgement lets pruning drop the rows it is about, which the table has.
LEMMA HistoryAckDrops ==
    ASSUME IInv, Counted, NEW c \in Sockets, NEW stored, HandleHistoryAck(c, stored)
    PROVE  Counted' /\ KeptRightly
<1> DEFINE acked == Head(toAgent[c]).entries
           m == [r \in DOMAIN hist |-> IF r \in stored THEN [hist[r] EXCEPT !.synced = acked[r]]
                                                       ELSE hist[r]]
<1>1. /\ hist \in PerRun(Row) /\ toAgent \in [Sockets -> Seq(Answers(table))] /\ clock \in Nat
  BY DEF IInv, Typed, AgentTyped, SocketsTyped
<1>2. Head(toAgent[c]) \in Answers(table)
  BY <1>1, HeadTyped DEF HandleHistoryAck, Receives
<1>3. acked \in Acks(table)
  BY <1>2 DEF HandleHistoryAck, Receives, Answers, AuthSuccess
<1>4. /\ acked \in PerRun(Nat \ {0})
      /\ \A r \in DOMAIN acked \ Malformed : acked[r] <= table[r].rev
  BY <1>3 DEF Acks
<1>5. /\ stored \subseteq Moved(hist, acked) /\ hist' = MarkSynced(hist, acked, stored)
      /\ clock' = clock
  BY DEF HandleHistoryAck
<1> HIDE DEF acked
<1>6. CASE stored = {}
  <2>1. hist' = hist
    BY <1>5, <1>6 DEF MarkSynced
  <2>2. QED
    BY <1>5, <2>1, RewrittenKeeps
<1>7. CASE stored # {}
  <2>1. hist' = Prune(m)
    BY <1>5, <1>7 DEF MarkSynced
  <2>2. DOMAIN m = DOMAIN hist
    OBVIOUS
  <2>3. DOMAIN hist \subseteq Runs /\ hist \in [DOMAIN hist -> Row]
        /\ acked \in [DOMAIN acked -> Nat \ {0}]
    BY <1>1, <1>4, PerRunDef
  <2>4. ASSUME NEW r \in DOMAIN hist
        PROVE  /\ m[r] \in Row /\ m[r].created = hist[r].created
               /\ m[r].status = hist[r].status /\ m[r].rev = hist[r].rev
               /\ r \notin Malformed => m[r].synced <= table[r].rev
    <3>1. hist[r] \in Row
      BY <2>3
    <3>2. CASE r \in stored
      <4>1. r \in DOMAIN acked /\ acked[r] \in Nat
        BY <1>5, <2>3, <3>2 DEF Moved
      <4>2. m[r] = [hist[r] EXCEPT !.synced = acked[r]]
        BY <3>2
      <4> HIDE DEF m
      <4>3. /\ m[r] \in Row /\ m[r].created = hist[r].created /\ m[r].synced = acked[r]
            /\ m[r].status = hist[r].status /\ m[r].rev = hist[r].rev
        BY <3>1, <4>1, <4>2 DEF Row
      <4>4. QED
        BY <1>4, <4>1, <4>3
    <3>3. CASE r \notin stored
      <4>1. m[r] = hist[r]
        BY <3>3
      <4>2. QED
        BY <3>1, <4>1 DEF IInv, AckedRevisionStored
    <3>4. QED
      BY <3>2, <3>3
  <2>5. m \in [DOMAIN m -> Row]
    BY <2>4
  <2> HIDE DEF m
  <2>6. m \in PerRun(Row) /\ IsFiniteSet(DOMAIN m)
    BY <2>2, <2>3, <2>5, PerRunDef DEF Counted
  <2>7. /\ hist' \in PerRun(Row) /\ DOMAIN hist' \subseteq DOMAIN m
        /\ \A u \in DOMAIN hist' : hist'[u] = m[u]
    BY <2>1, <2>6, PruneKeeps
  <2>8. Counted'
    <3>1. IsFiniteSet(DOMAIN hist')
      BY <2>6, <2>7, FS_Subset
    <3>2. \A u \in DOMAIN hist' : hist'[u].created <= clock'
      BY <1>5, <2>2, <2>4, <2>7 DEF Counted
    <3>3. QED
      BY <3>1, <3>2 DEF Counted
  <2>9. ASSUME NEW x \in (DOMAIN hist \ DOMAIN hist') \ Malformed
        PROVE  /\ ~IsActive(hist[x])
               /\ \/ table[x].rev >= hist[x].rev
                  \/ Cardinality({u \in Waiting(hist') : hist'[u].created > hist[x].created})
                        >= MaxUnsynced
    <3>1. PICK g \in PerRun(Row) : g = hist'
      BY <2>7
    <3>2. x \in DOMAIN m \ DOMAIN Prune(m) /\ DOMAIN g = DOMAIN Prune(m)
      BY <2>1, <2>2, <3>1
    <3>3. /\ ~IsActive(m[x])
          /\ \/ ~IsUnsynced(m[x])
             \/ Cardinality({u \in Waiting(g) : g[u].created > m[x].created}) >= MaxUnsynced
      BY <2>6, <2>7, <3>1, <3>2, DropCounts
    <3>4. ~IsActive(hist[x]) /\ m[x].created = hist[x].created
      BY <2>4, <3>3 DEF IsActive
    <3>5. CASE ~IsUnsynced(m[x])
      <4>1. /\ m[x].rev = hist[x].rev /\ m[x].synced <= table[x].rev
            /\ m[x] \in Row /\ x \in Runs
        BY <2>3, <2>4
      <4>2. m[x].synced \in Nat /\ m[x].rev \in Nat /\ table[x].rev \in Nat
        BY <4>1 DEF Row, IInv, Typed, ServerTyped, TableRow
      <4>3. table[x].rev >= hist[x].rev
        BY <3>5, <4>1, <4>2 DEF IsUnsynced
      <4>4. QED
        BY <3>4, <4>3
    <3>6. QED
      BY <3>1, <3>3, <3>4, <3>5
  <2>10. QED
    BY <2>8, <2>9 DEF KeptRightly
<1>8. QED
  BY <1>6, <1>7

\* A restart prunes what it loads before it settles the runs it finds running,
\* which are none of those that wait.
LEMMA RestartDrops ==
    ASSUME IInv, Counted, NEW held, NEW found, Restart(held, found)
    PROVE  Counted' /\ KeptRightly
<1> DEFINE stale == {r \in DOMAIN hist : hist[r].status = "running"} \ held
           end(r) == IF r \in found THEN "success" ELSE "abort"
           loaded == DOMAIN Prune(hist)
<1>1. /\ hist \in PerRun(Row) /\ DOMAIN hist \subseteq Runs /\ loaded \subseteq DOMAIN hist
      /\ hist \in [DOMAIN hist -> Row]
  BY PruneKeeps, PerRunDef DEF IInv, Typed, AgentTyped
<1>2. /\ hist' = [r \in loaded |-> IF r \notin stale THEN hist[r]
                                   ELSE Revised(hist[r], end(r), hist[r].started)]
      /\ clock' = clock /\ table' = table
  <2>1. \A r \in loaded : r \in DOMAIN hist
    BY <1>1
  <2>2. QED
    BY <2>1 DEF Restart, serverVars
<1>3. \A r \in loaded : r \in stale => IsActive(hist[r])
  BY DEF IsActive, Active
<1>4. DOMAIN hist' = loaded
  BY <1>2
<1>5. \A r \in loaded : ~IsActive(hist[r]) => hist'[r] = hist[r]
  BY <1>2, <1>3
<1>6. \A r \in loaded : hist'[r].created = hist[r].created
  <2>1. \A x \in Row : \A q, u : Revised(x, q, u).created = x.created
    BY DEF Revised, Row
  <2> HIDE DEF stale, end, loaded
  <2>2. QED
    BY <1>1, <1>2, <2>1
<1>7. hist' \in PerRun(Row)
  <2>1. IInv'
    BY RestartKeeps
  <2>2. QED
    BY <2>1 DEF IInv, Typed, AgentTyped
<1> HIDE DEF stale, end
<1>8. Counted'
  <2>1. IsFiniteSet(DOMAIN hist')
    BY <1>1, <1>4, FS_Subset DEF Counted
  <2>2. \A u \in DOMAIN hist' : hist'[u].created <= clock'
    BY <1>1, <1>2, <1>4, <1>6 DEF Counted
  <2>3. QED
    BY <2>1, <2>2 DEF Counted
<1>9. ASSUME NEW x \in (DOMAIN hist \ DOMAIN hist') \ Malformed
      PROVE  /\ ~IsActive(hist[x])
             /\ \/ table[x].rev >= hist[x].rev
                \/ Cardinality({u \in Waiting(hist') : hist'[u].created > hist[x].created})
                      >= MaxUnsynced
  <2>1. PICK g \in PerRun(Row) : g = hist'
    BY <1>7
  <2>2. x \in DOMAIN hist \ DOMAIN Prune(hist) /\ DOMAIN g = DOMAIN Prune(hist)
    BY <1>4, <2>1
  <2>3. /\ ~IsActive(hist[x])
        /\ \/ ~IsUnsynced(hist[x])
           \/ Cardinality({u \in Waiting(g) : g[u].created > hist[x].created}) >= MaxUnsynced
    BY <1>1, <1>5, <2>1, <2>2, DropCounts DEF Counted
  <2>4. CASE ~IsUnsynced(hist[x])
    <3>1. /\ hist[x].synced <= table[x].rev /\ hist[x] \in Row /\ x \in Runs
      BY <1>1 DEF IInv, AckedRevisionStored
    <3>2. hist[x].synced \in Nat /\ hist[x].rev \in Nat /\ table[x].rev \in Nat
      BY <3>1 DEF Row, IInv, Typed, ServerTyped, TableRow
    <3>3. table[x].rev >= hist[x].rev
      BY <2>4, <3>1, <3>2 DEF IsUnsynced
    <3>4. QED
      BY <2>3, <3>3
  <2>5. QED
    BY <2>1, <2>3, <2>4
<1>10. QED
  BY <1>8, <1>9 DEF KeptRightly

\* Every step.
LEMMA NextDrops ==
    ASSUME IInv, Counted, [Next]_vars
    PROVE  Counted' /\ KeptRightly
<1>1. CASE hist' = hist /\ clock' = clock
  BY <1>1, RewrittenKeeps
<1>2. CASE RunStep
  BY <1>2, RunStepDrops
<1>3. CASE SocketStep
  <2>1. hist' = hist /\ clock' = clock
    BY <1>3 DEF SocketStep, Open, AgentClose, ServerClose, agentVars
  <2>2. QED
    BY <1>1, <2>1
<1>4. CASE Timer
  BY <1>1, <1>4 DEF Timer, agentVars
<1>5. CASE RestartStep
  BY <1>5, RestartDrops DEF RestartStep
<1>6. CASE MessageStep
  <2> PICK c \in Sockets : ServerHandles(c) \/ AgentHandles(c)
    BY <1>6 DEF MessageStep
  <2>1. CASE ServerHandles(c)
    <3>1. hist' = hist /\ clock' = clock
      BY <2>1 DEF ServerHandles, HandleAuth, HandleStatusUpdate, HandleSyncHistory, agentVars
    <3>2. QED
      BY <1>1, <3>1
  <2>2. CASE HandleAuthSuccess(c)
    BY <1>1, <2>2 DEF HandleAuthSuccess
  <2>3. CASE \E stored \in SUBSET Runs : HandleHistoryAck(c, stored)
    BY <2>3, HistoryAckDrops
  <2>4. QED
    BY <2>1, <2>2, <2>3 DEF AgentHandles
<1>7. CASE UNCHANGED vars
  BY <1>1, <1>7 DEF vars, agentVars
<1>8. QED
  BY <1>2, <1>3, <1>4, <1>5, <1>6, <1>7 DEF Next

\* A run the agent deletes is over, and the server has it as it ended, unless
\* MaxUnsynced younger finished runs wait: whatever was written, acknowledged,
\* refused or loaded after a restart, in every order.
THEOREM DroppedRightly == Spec => DroppedOnlyWhenFull
<1>1. Init => Counted
  <2>1. ASSUME Init PROVE DOMAIN hist = {}
    BY <2>1 DEF Init
  <2>2. QED
    BY <2>1, FS_EmptySet DEF Counted
<1>2. IInv /\ Counted /\ [Next]_vars => Counted'
  BY NextDrops
<1>3. Spec => []Counted
  BY <1>1, <1>2, Inductive, PTL DEF Spec
<1>4. IInv /\ Counted /\ [Next]_vars =>
        [\A r \in (DOMAIN hist \ DOMAIN hist') \ Malformed :
          /\ ~IsActive(hist[r])
          /\ \/ table[r].rev >= hist[r].rev
             \/ Cardinality({s \in Waiting(hist') : hist'[s].created > hist[r].created})
                   >= MaxUnsynced]_vars
  BY NextDrops DEF KeptRightly
<1>5. QED
  BY <1>3, <1>4, Inductive, PTL DEF Spec, DroppedOnlyWhenFull

-----------------------------------------------------------------------------
(***************************************************************************)
(* What the server makes of the statuses it is told, under the two         *)
(* hypotheses named above.                                                 *)
(***************************************************************************)
Sound == Reinserted = {} /\ ~LateDelivery

-----------------------------------------------------------------------------
(***************************************************************************)
(* The inductive invariant.  Live updates carry no revision, so what keeps *)
(* them from putting an older status over a newer one is the order they    *)
(* are told in: along each queue, and from each socket to the next, what   *)
(* is told of a run only moves the way runs move.                          *)
(***************************************************************************)
\* A run goes from s to t, in any number of steps: a run that ended stays as it
\* is, but for a success its post-script takes back.
Leads(s, t) == s = t \/ s \notin Final \/ (s = "success" /\ t = "failed")

Tells(m, r) == \/ m.type = "STATUS_UPDATE" /\ m.id = r
               \/ m.type = "SYNC_HISTORY" /\ r \in DOMAIN m.history
Told(m, r) == IF m.type = "STATUS_UPDATE" THEN m.status ELSE m.history[r].status

\* All that is under way on q of run r: comes before s, after s, is nothing.
Before(q, r, s) ==
    \A c \in Sockets : \A i \in 1..Len(q[c]) : Tells(q[c][i], r) => Leads(Told(q[c][i], r), s)
After(q, r, s) ==
    \A c \in Sockets : \A i \in 1..Len(q[c]) : Tells(q[c][i], r) => Leads(s, Told(q[c][i], r))
Silent(q, r) == \A c \in Sockets : \A i \in 1..Len(q[c]) : ~Tells(q[c][i], r)

Ordered(q) ==
    \A c, d \in Sockets : \A i \in 1..Len(q[c]), k \in 1..Len(q[d]) : \A r \in Runs :
        /\ c < d \/ (c = d /\ i < k)
        /\ Tells(q[c][i], r) /\ Tells(q[d][k], r)
        => Leads(Told(q[c][i], r), Told(q[d][k], r))

\* A row the agent has is the latest it wrote; who is to write it next, the
\* post-script or the check of an interrupted backup, finds it as it was left.
RowsKept ==
    /\ \A r \in DOMAIN hist : hist[r].rev = latest[r] /\ hist[r].created <= clock
    /\ \A r \in post : latest[r] > 0 /\ (r \in DOMAIN hist => hist[r].status = "success")
    /\ \A r \in deferred \cup checking : r \in DOMAIN hist /\ hist[r].status = "running"
    /\ deferred \cap checking = {}

\* What the table has of a run and what is under way lead to where the run is.
OrderKept ==
    /\ Ordered(toServer)
    /\ \A r \in Runs :
          /\ After(toServer, r, table[r].status)
          /\ r \in DOMAIN hist => /\ Before(toServer, r, hist[r].status)
                                  /\ Leads(table[r].status, hist[r].status)
          /\ r \in post => Before(toServer, r, "success") /\ Leads(table[r].status, "success")
          /\ latest[r] = 0 => Silent(toServer, r) /\ table[r].status = "none"

\* A batch on q that has a row's revision has its status.
Agreeing(q, h) ==
    \A c \in Sockets : \A i \in 1..Len(q[c]) : \A r \in DOMAIN h :
        /\ q[c][i].type = "SYNC_HISTORY" /\ r \in DOMAIN q[c][i].history
        /\ q[c][i].history[r].rev = h[r].rev
        => q[c][i].history[r].status = h[r].status

\* The revision a row has stands for one status, on the way and in the table.
RevisionKept ==
    /\ Agreeing(toServer, hist)
    /\ \A r \in DOMAIN hist : table[r].rev = hist[r].rev => table[r].status = hist[r].status

\* The agent sends on the newest socket; the server reads from a socket only
\* when the older ones are cut, having read its AUTH first.
SocketsKept ==
    /\ conn \in {NoSocket, opened}
    /\ \A c \in Sockets : /\ c \notin serverEnds => toServer[c] = <<>>
                          /\ c > opened => c \notin serverEnds
    /\ \A c \in serverEnds :
          (toServer[c] = <<>> \/ Head(toServer[c]) # Auth) => \A d \in serverEnds : d >= c

\* The table's final states were reported, and what was reported led there.
ReportsKept ==
    \A r \in Runs :
        /\ table[r].status \in Final => \E i \in 1..Len(reports[r]) : reports[r][i] = table[r].status
        /\ \A i \in 1..Len(reports[r]) : Leads(reports[r][i], table[r].status)
        /\ \A i, j \in 1..Len(reports[r]) : reports[r][i] = reports[r][j] => i = j

OInv == RowsKept /\ OrderKept /\ RevisionKept /\ SocketsKept /\ ReportsKept

-----------------------------------------------------------------------------
(***************************************************************************)
(* Statuses.                                                               *)
(***************************************************************************)
LEMMA LeadsOn ==
    ASSUME NEW s, NEW t, NEW u, Leads(s, t), Leads(t, u)
    PROVE  Leads(s, u)
BY DEF Leads, Final, Terminal

\* What ended stays ended, and no two final states lead to each other.
LEMMA LeadsFinal ==
    ASSUME NEW s, NEW t, Leads(s, t), s \in Final
    PROVE  t \in Final /\ (Leads(t, s) => s = t)
BY DEF Leads, Final, Terminal

-----------------------------------------------------------------------------
(***************************************************************************)
(* Queues: what is under way when messages are taken, lost or sent.        *)
(***************************************************************************)
\* p is q less the heads of some queues and all of others.
Shrunk(q, p) ==
    \A c \in Sockets : \/ p[c] = q[c] \/ p[c] = <<>>
                       \/ q[c] # <<>> /\ p[c] = Tail(q[c])

\* p is q with m sent on c.
Sent(q, c, m, p) == p = [q EXCEPT ![c] = Append(@, m)]

LEMMA TailIndex ==
    ASSUME NEW S, NEW s \in Seq(S), s # <<>>
    PROVE  /\ Tail(s) \in Seq(S)
           /\ \A i \in 1..Len(Tail(s)) : i + 1 \in 1..Len(s) /\ Tail(s)[i] = s[i + 1]
OBVIOUS

\* What is left on a queue was on it, in the same order.
LEMMA ShrunkKeeps ==
    ASSUME NEW S, NEW q \in [Sockets -> Seq(S)], NEW p, Shrunk(q, p)
    PROVE  /\ Ordered(q) => Ordered(p)
           /\ \A r, s : Before(q, r, s) => Before(p, r, s)
           /\ \A r, s : After(q, r, s) => After(p, r, s)
           /\ \A r : Silent(q, r) => Silent(p, r)
           /\ \A h : Agreeing(q, h) => Agreeing(p, h)
<1>1. ASSUME NEW c \in Sockets
      PROVE  \E n \in {0, 1} : \A i \in 1..Len(p[c]) :
                i + n \in 1..Len(q[c]) /\ p[c][i] = q[c][i + n]
  <2>1. q[c] \in Seq(S)
    OBVIOUS
  <2>2. CASE p[c] = q[c]
    <3>1. \A i \in 1..Len(p[c]) : i + 0 \in 1..Len(q[c]) /\ p[c][i] = q[c][i + 0]
      BY <2>1, <2>2
    <3>2. QED
      BY <3>1
  <2>3. CASE p[c] = <<>>
    <3>1. 1..Len(p[c]) = {}
      BY <2>3
    <3>2. QED
      BY <3>1
  <2>4. CASE q[c] # <<>> /\ p[c] = Tail(q[c])
    <3>1. \A i \in 1..Len(p[c]) : i + 1 \in 1..Len(q[c]) /\ p[c][i] = q[c][i + 1]
      BY <2>1, <2>4, TailIndex
    <3>2. QED
      BY <3>1
  <2>5. QED
    BY <2>2, <2>3, <2>4 DEF Shrunk
<1>2. ASSUME NEW c \in Sockets, NEW i \in 1..Len(p[c])
      PROVE  \E k \in 1..Len(q[c]) : p[c][i] = q[c][k]
  BY <1>1
<1>3. \A r, s : Before(q, r, s) => Before(p, r, s)
  BY <1>2 DEF Before
<1>4. \A r, s : After(q, r, s) => After(p, r, s)
  BY <1>2 DEF After
<1>5. \A r : Silent(q, r) => Silent(p, r)
  BY <1>2 DEF Silent
<1>6. ASSUME NEW h, Agreeing(q, h)
      PROVE  Agreeing(p, h)
  <2> SUFFICES ASSUME NEW c \in Sockets, NEW i \in 1..Len(p[c]), NEW r \in DOMAIN h,
                      p[c][i].type = "SYNC_HISTORY", r \in DOMAIN p[c][i].history,
                      p[c][i].history[r].rev = h[r].rev
               PROVE  p[c][i].history[r].status = h[r].status
    BY DEF Agreeing
  <2>1. PICK k \in 1..Len(q[c]) : p[c][i] = q[c][k]
    BY <1>2
  <2>2. QED
    BY <1>6, <2>1 DEF Agreeing
<1>7. ASSUME Ordered(q), NEW c \in Sockets, NEW d \in Sockets,
             NEW i \in 1..Len(p[c]), NEW k \in 1..Len(p[d]), NEW r \in Runs,
             c < d \/ (c = d /\ i < k), Tells(p[c][i], r), Tells(p[d][k], r)
      PROVE  Leads(Told(p[c][i], r), Told(p[d][k], r))
  <2>1. PICK n \in {0, 1} : \A x \in 1..Len(p[c]) :
            x + n \in 1..Len(q[c]) /\ p[c][x] = q[c][x + n]
    BY <1>1
  <2>2. PICK m \in {0, 1} : \A x \in 1..Len(p[d]) :
            x + m \in 1..Len(q[d]) /\ p[d][x] = q[d][x + m]
    BY <1>1
  <2>3. CASE c < d
    <3>1. /\ i + n \in 1..Len(q[c]) /\ p[c][i] = q[c][i + n]
          /\ k + m \in 1..Len(q[d]) /\ p[d][k] = q[d][k + m]
      BY <2>1, <2>2
    <3>2. QED
      BY <1>7, <2>3, <3>1 DEF Ordered
  <2>4. CASE c = d /\ i < k
    <3>1. /\ i + n \in 1..Len(q[c]) /\ p[c][i] = q[c][i + n]
          /\ k + n \in 1..Len(q[c]) /\ p[c][k] = q[c][k + n]
      BY <2>1, <2>4
    <3>2. i + n < k + n
      BY <2>4
    <3>3. QED
      BY <1>7, <2>4, <3>1, <3>2 DEF Ordered
  <2>5. QED
    BY <1>7, <2>3, <2>4
<1>8. Ordered(q) => Ordered(p)
  BY <1>7 DEF Ordered
<1>9. QED
  BY <1>3, <1>4, <1>5, <1>6, <1>8

LEMMA SentIndex ==
    ASSUME NEW S, NEW q \in [Sockets -> Seq(S)], NEW c \in Sockets, NEW m \in S,
           NEW p, Sent(q, c, m, p), NEW d \in Sockets, NEW i \in 1..Len(p[d])
    PROVE  \/ i \in 1..Len(q[d]) /\ p[d][i] = q[d][i]
           \/ d = c /\ i = Len(q[c]) + 1 /\ p[d][i] = m
<1>1. q[c] \in Seq(S) /\ q[d] \in Seq(S)
  OBVIOUS
<1>2. CASE d = c
  <2>1. p[d] = Append(q[c], m)
    BY <1>2 DEF Sent
  <2>2. QED
    BY <1>1, <1>2, <2>1
<1>3. CASE d # c
  BY <1>3 DEF Sent
<1>4. QED
  BY <1>2, <1>3

\* A message joins the end of the newest queue, after all that is under way.
LEMMA SentKeeps ==
    ASSUME NEW S, NEW q \in [Sockets -> Seq(S)], NEW c \in Sockets, NEW m \in S,
           NEW p, Sent(q, c, m, p)
    PROVE  /\ \A r, s : Before(q, r, s) /\ (Tells(m, r) => Leads(Told(m, r), s)) => Before(p, r, s)
           /\ \A r, s : After(q, r, s) /\ (Tells(m, r) => Leads(s, Told(m, r))) => After(p, r, s)
           /\ \A r : Silent(q, r) /\ ~Tells(m, r) => Silent(p, r)
           /\ \A h : /\ Agreeing(q, h)
                     /\ \A r \in DOMAIN h : /\ m.type = "SYNC_HISTORY" /\ r \in DOMAIN m.history
                                            /\ m.history[r].rev = h[r].rev
                                            => m.history[r].status = h[r].status
                     => Agreeing(p, h)
           /\ /\ Ordered(q) /\ \A d \in Sockets : d > c => q[d] = <<>>
              /\ \A r \in Runs : Tells(m, r) => Before(q, r, Told(m, r))
              => Ordered(p)
<1>1. ASSUME NEW d \in Sockets, NEW i \in 1..Len(p[d])
      PROVE  \/ i \in 1..Len(q[d]) /\ p[d][i] = q[d][i]
             \/ d = c /\ i = Len(q[c]) + 1 /\ p[d][i] = m
  BY SentIndex
<1>2. \A r, s : Before(q, r, s) /\ (Tells(m, r) => Leads(Told(m, r), s)) => Before(p, r, s)
  BY <1>1 DEF Before
<1>3. \A r, s : After(q, r, s) /\ (Tells(m, r) => Leads(s, Told(m, r))) => After(p, r, s)
  BY <1>1 DEF After
<1>4. \A r : Silent(q, r) /\ ~Tells(m, r) => Silent(p, r)
  BY <1>1 DEF Silent
<1>5. ASSUME NEW h, Agreeing(q, h),
             \A r \in DOMAIN h : /\ m.type = "SYNC_HISTORY" /\ r \in DOMAIN m.history
                                 /\ m.history[r].rev = h[r].rev
                                 => m.history[r].status = h[r].status
      PROVE  Agreeing(p, h)
  <2> SUFFICES ASSUME NEW d \in Sockets, NEW i \in 1..Len(p[d]), NEW r \in DOMAIN h,
                      p[d][i].type = "SYNC_HISTORY", r \in DOMAIN p[d][i].history,
                      p[d][i].history[r].rev = h[r].rev
               PROVE  p[d][i].history[r].status = h[r].status
    BY DEF Agreeing
  <2>1. CASE i \in 1..Len(q[d]) /\ p[d][i] = q[d][i]
    BY <1>5, <2>1 DEF Agreeing
  <2>2. CASE p[d][i] = m
    BY <1>5, <2>2
  <2>3. QED
    BY <1>1, <2>1, <2>2
<1>6. ASSUME Ordered(q), \A d \in Sockets : d > c => q[d] = <<>>,
             \A r \in Runs : Tells(m, r) => Before(q, r, Told(m, r)),
             NEW a \in Sockets, NEW d \in Sockets,
             NEW i \in 1..Len(p[a]), NEW k \in 1..Len(p[d]), NEW r \in Runs,
             a < d \/ (a = d /\ i < k), Tells(p[a][i], r), Tells(p[d][k], r)
      PROVE  Leads(Told(p[a][i], r), Told(p[d][k], r))
  <2>1. CASE i \in 1..Len(q[a]) /\ p[a][i] = q[a][i] /\ k \in 1..Len(q[d]) /\ p[d][k] = q[d][k]
    BY <1>6, <2>1 DEF Ordered
  <2>2. CASE i \in 1..Len(q[a]) /\ p[a][i] = q[a][i] /\ p[d][k] = m
    BY <1>6, <2>2 DEF Before
  <2>3. CASE a = c /\ i = Len(q[c]) + 1 /\ k \in 1..Len(q[d])
    <3>1. CASE a < d
      <4>1. q[d] = <<>>
        BY <1>6, <2>3, <3>1 DEF Sockets
      <4>2. QED
        BY <2>3, <4>1
    <3>2. CASE a = d /\ i < k
      <4>1. Len(q[c]) \in Nat
        OBVIOUS
      <4>2. QED
        BY <2>3, <3>2, <4>1
    <3>3. QED
      BY <1>6, <3>1, <3>2
  <2>4. CASE a = c /\ i = Len(q[c]) + 1 /\ d = c /\ k = Len(q[c]) + 1
    <3>1. Len(q[c]) \in Nat /\ c \in Nat
      BY DEF Sockets
    <3>2. QED
      BY <1>6, <2>4, <3>1
  <2>5. QED
    BY <1>1, <2>1, <2>2, <2>3, <2>4
<1>7. QED
  BY <1>2, <1>3, <1>4, <1>5, <1>6 DEF Ordered

-----------------------------------------------------------------------------
(***************************************************************************)
(* What the agent sends.                                                   *)
(***************************************************************************)
LEMMA QueueTypes ==
    ASSUME IInv
    PROVE  /\ toServer \in [Sockets -> Seq(Sendable(latest))]
           /\ hist \in PerRun(Row) /\ DOMAIN hist \subseteq Runs
           /\ \A r \in DOMAIN hist : /\ hist[r] \in Row /\ hist[r].rev \in Nat \ {0}
                                     /\ hist[r].status \in Status /\ hist[r].created \in Nat
           /\ latest \in [Runs -> Nat] /\ clock \in Nat
           /\ serverEnds \subseteq Sockets
<1>1. \A r \in DOMAIN hist : hist[r] \in Row
  BY Numbers
<1>2. QED
  BY <1>1, Numbers DEF IInv, Typed, AgentTyped, SocketsTyped, Row

\* It goes out on the newest socket, or nowhere.
LEMMA SendIs ==
    ASSUME IInv, SocketsKept, NEW q, NEW m
    PROVE  \/ Send(q, conn, m) = q
           \/ /\ conn \in serverEnds /\ conn = opened
              /\ Sent(q, conn, m, Send(q, conn, m))
<1>1. conn \in Sockets => conn # NoSocket
  BY DEF Sockets, NoSocket
<1>2. conn \in serverEnds => conn = opened
  BY <1>1, QueueTypes DEF SocketsKept
<1>3. QED
  BY <1>2 DEF Send, Sent

\* Nothing is under way on sockets newer than the agent's.
LEMMA NewestIsLast ==
    ASSUME SocketsKept, conn \in serverEnds, conn = opened
    PROVE  \A d \in Sockets : d > conn => toServer[d] = <<>>
BY DEF SocketsKept

LEMMA AppendHead ==
    ASSUME NEW S, NEW s \in Seq(S), NEW m
    PROVE  Append(s, m) # <<>> /\ (s # <<>> => Head(Append(s, m)) = Head(s))
<1>1. Len(s) \in Nat /\ Len(Append(s, m)) = Len(s) + 1
  OBVIOUS
<1>2. Append(s, m) # <<>>
  BY <1>1
<1>3. ASSUME s # <<>> PROVE Head(Append(s, m)) = Head(s)
  <2>1. Len(s) > 0 /\ Append(s, m)[1] = s[1]
    BY <1>1, <1>3
  <2>2. QED
    BY <1>2, <1>3, <2>1
<1>4. QED
  BY <1>2, <1>3

\* Sending changes none of what is known of the sockets.
LEMMA SendKeepsSockets ==
    ASSUME IInv, SocketsKept, UNCHANGED <<conn, opened, serverEnds>>, NEW m \in Sendable(latest),
           \/ toServer' = toServer
           \/ conn \in serverEnds /\ Sent(toServer, conn, m, toServer')
    PROVE  SocketsKept'
<1>1. CASE toServer' = toServer
  BY <1>1 DEF SocketsKept
<1>2. CASE conn \in serverEnds /\ Sent(toServer, conn, m, toServer')
  <2>1. /\ toServer \in [Sockets -> Seq(Sendable(latest))]
        /\ serverEnds \subseteq Sockets
    BY QueueTypes
  <2>2. /\ toServer'[conn] = Append(toServer[conn], m) /\ toServer[conn] \in Seq(Sendable(latest))
        /\ \A c \in Sockets : c # conn => toServer'[c] = toServer[c]
    BY <1>2, <2>1 DEF Sent
  <2>3. \A c \in Sockets : c \notin serverEnds => toServer'[c] = <<>>
    BY <1>2, <2>2 DEF SocketsKept
  <2>4. /\ toServer'[conn] # <<>>
        /\ toServer[conn] # <<>> => Head(toServer'[conn]) = Head(toServer[conn])
    BY <2>2, AppendHead
  <2>5. \A c \in serverEnds :
            (toServer'[c] = <<>> \/ Head(toServer'[c]) # Auth) =>
                (toServer[c] = <<>> \/ Head(toServer[c]) # Auth)
    BY <2>1, <2>2, <2>4
  <2>6. QED
    BY <2>3, <2>5 DEF SocketsKept
<1>3. QED
  BY <1>1, <1>2

LEMMA UpdateTells ==
    ASSUME NEW r \in Runs, NEW s, NEW x
    PROVE  /\ Tells(StatusUpdate(r, s), x) <=> x = r
           /\ Told(StatusUpdate(r, s), x) = s
           /\ StatusUpdate(r, s).type # "SYNC_HISTORY"
BY DEF Tells, Told, StatusUpdate

\* A live update of run r follows all that was told of it.
LEMMA LiveOrder ==
    ASSUME IInv, SocketsKept, Ordered(toServer), NEW r \in Runs, NEW s, Live(r, s),
           UNCHANGED <<conn, opened, serverEnds>>,
           Before(toServer, r, s)
    PROVE  /\ SocketsKept' /\ Ordered(toServer') /\ Before(toServer', r, s)
           /\ \A x, t : x # r /\ Before(toServer, x, t) => Before(toServer', x, t)
           /\ \A t : Before(toServer, r, t) /\ Leads(s, t) => Before(toServer', r, t)
           /\ \A x, t : After(toServer, x, t) /\ (x = r => Leads(t, s)) => After(toServer', x, t)
           /\ \A x : Silent(toServer, x) /\ x # r => Silent(toServer', x)
           /\ \A h : Agreeing(toServer, h) => Agreeing(toServer', h)
<1> DEFINE m == StatusUpdate(r, s)
<1>1. toServer \in [Sockets -> Seq(Sendable(latest))] /\ Leads(s, s)
  BY QueueTypes DEF Leads
<1>2. CASE toServer' = toServer
  <2>1. SocketsKept'
    BY <1>2 DEF SocketsKept
  <2>2. QED
    BY <1>2, <2>1
<1>3. CASE toServer' # toServer
  <2>1. s \in Terminal /\ toServer' = Send(toServer, conn, m)
    BY <1>3 DEF Live
  <2>2. m \in Sendable(latest)
    BY <2>1 DEF StatusUpdate, Sendable
  <2>3. conn \in serverEnds /\ conn = opened /\ Sent(toServer, conn, m, toServer')
    BY <1>3, <2>1, SendIs
  <2>4. conn \in Sockets /\ \A d \in Sockets : d > conn => toServer[d] = <<>>
    BY <2>3, NewestIsLast, QueueTypes
  <2>5. /\ \A x : Tells(m, x) <=> x = r
        /\ \A x : Told(m, x) = s
        /\ m.type # "SYNC_HISTORY"
    BY UpdateTells
  <2>6. SocketsKept'
    BY <2>2, <2>3, SendKeepsSockets
  <2> HIDE DEF m
  <2>7. Ordered(toServer')
    BY <1>1, <2>2, <2>3, <2>4, <2>5, SentKeeps
  <2>8. /\ \A x, t : Before(toServer, x, t) /\ (x = r => Leads(s, t)) => Before(toServer', x, t)
        /\ \A x, t : After(toServer, x, t) /\ (x = r => Leads(t, s)) => After(toServer', x, t)
        /\ \A x : Silent(toServer, x) /\ x # r => Silent(toServer', x)
    BY <1>1, <2>2, <2>3, <2>4, <2>5, SentKeeps
  <2>9. \A h : Agreeing(toServer, h) => Agreeing(toServer', h)
    BY <1>1, <2>2, <2>3, <2>4, <2>5, SentKeeps
  <2>10. QED
    BY <1>1, <2>6, <2>7, <2>8, <2>9
<1>4. QED
  BY <1>2, <1>3

\* What a batch of rows of the history tells is where these runs are.
LEMMA BatchTells ==
    ASSUME NEW h, NEW x, Tells(SyncHistory(BatchOf(h)), x)
    PROVE  /\ x \in DOMAIN h
           /\ Told(SyncHistory(BatchOf(h)), x) = h[x].status
           /\ SyncHistory(BatchOf(h)).history[x].rev = h[x].rev
           /\ SyncHistory(BatchOf(h)).history[x].status = h[x].status
<1> DEFINE b == BatchOf(h)
<1>1. /\ DOMAIN b = OldestDue(h, BatchSize) /\ OldestDue(h, BatchSize) \subseteq DOMAIN h
      /\ \A r \in DOMAIN b : b[r] = [rev |-> h[r].rev, status |-> h[r].status]
  BY DEF BatchOf, OldestDue, Due
<1> HIDE DEF b
<1>2. /\ SyncHistory(b).type = "SYNC_HISTORY" /\ SyncHistory(b).history = b
  BY DEF SyncHistory
<1>3. x \in DOMAIN b
  BY <1>2 DEF Tells, b
<1>4. b[x].rev = h[x].rev /\ b[x].status = h[x].status
  BY <1>1, <1>3
<1>5. QED
  BY <1>1, <1>2, <1>3, <1>4 DEF Told, b

\* A flush sends rows as they stand, after all that was told of them.
LEMMA FlushOrder ==
    ASSUME IInv, SocketsKept, OrderKept, NEW h \in PerRun(Row), DOMAIN h \subseteq DOMAIN hist,
           \A x \in DOMAIN h : h[x].status = hist[x].status /\ h[x].rev = hist[x].rev,
           RowsKept, Agreeing(toServer, hist),
           NEW isActive \in BOOLEAN, Flush(h, isActive, toServer),
           UNCHANGED <<conn, opened, serverEnds>>
    PROVE  /\ SocketsKept' /\ Ordered(toServer')
           /\ \A r \in Runs :
                 /\ After(toServer', r, table[r].status)
                 /\ r \in DOMAIN hist => Before(toServer', r, hist[r].status)
                 /\ r \in post => Before(toServer', r, "success")
                 /\ latest[r] = 0 => Silent(toServer', r)
           /\ Agreeing(toServer', hist)
<1> DEFINE m == SyncHistory(BatchOf(h))
<1>1. /\ toServer \in [Sockets -> Seq(Sendable(latest))] /\ latest \in [Runs -> Nat]
      /\ DOMAIN hist \subseteq Runs /\ \A x \in DOMAIN hist : hist[x].rev \in Nat \ {0}
  BY QueueTypes
<1>2. CASE toServer' = toServer
  <2>1. SocketsKept'
    BY <1>2 DEF SocketsKept
  <2>2. QED
    BY <1>2, <2>1 DEF OrderKept
<1>3. CASE toServer' # toServer
  <2>1. toServer' = Send(toServer, conn, m)
    BY <1>3 DEF Flush
  <2>2. m \in Sendable(latest)
    BY <1>1, BatchTyped DEF IInv, HistoryBound
  <2>3. conn \in serverEnds /\ conn = opened /\ Sent(toServer, conn, m, toServer')
    BY <1>3, <2>1, SendIs
  <2>4. conn \in Sockets /\ \A d \in Sockets : d > conn => toServer[d] = <<>>
    BY <2>3, NewestIsLast, QueueTypes
  <2>5. \A x : Tells(m, x) =>
            /\ x \in DOMAIN hist /\ Told(m, x) = hist[x].status
            /\ m.history[x].rev = hist[x].rev /\ m.history[x].status = hist[x].status
    BY BatchTells
  <2>6. SocketsKept'
    BY <2>2, <2>3, SendKeepsSockets
  <2>7. \A x : m.type = "SYNC_HISTORY" /\ x \in DOMAIN m.history => Tells(m, x)
    BY DEF Tells
  <2> HIDE DEF m
  <2>8. \A r \in Runs : Tells(m, r) => Before(toServer, r, Told(m, r))
    BY <2>5 DEF OrderKept
  <2>9. Ordered(toServer')
    BY <1>1, <2>2, <2>3, <2>4, <2>8, SentKeeps DEF OrderKept
  <2>10. ASSUME NEW r \in Runs
         PROVE  /\ After(toServer', r, table[r].status)
                /\ r \in DOMAIN hist => Before(toServer', r, hist[r].status)
                /\ r \in post => Before(toServer', r, "success")
                /\ latest[r] = 0 => Silent(toServer', r)
    <3>1. Tells(m, r) => /\ r \in DOMAIN hist /\ Told(m, r) = hist[r].status
                         /\ Leads(table[r].status, Told(m, r))
      BY <2>5 DEF OrderKept
    <3>2. Tells(m, r) /\ r \in post => Leads(Told(m, r), "success")
      BY <3>1 DEF RowsKept, Leads
    <3>3. Tells(m, r) => Leads(Told(m, r), hist[r].status)
      BY <3>1 DEF Leads
    <3>4. Tells(m, r) => latest[r] # 0
      BY <1>1, <3>1 DEF RowsKept
    <3>5. After(toServer', r, table[r].status)
      BY <1>1, <2>2, <2>3, <2>4, <3>1, SentKeeps DEF OrderKept
    <3>6. r \in DOMAIN hist => Before(toServer', r, hist[r].status)
      BY <1>1, <2>2, <2>3, <2>4, <3>3, SentKeeps DEF OrderKept
    <3>7. r \in post => Before(toServer', r, "success")
      BY <1>1, <2>2, <2>3, <2>4, <3>2, SentKeeps DEF OrderKept
    <3>8. latest[r] = 0 => Silent(toServer', r)
      BY <1>1, <2>2, <2>3, <2>4, <3>4, SentKeeps DEF OrderKept
    <3>9. QED
      BY <3>5, <3>6, <3>7, <3>8
  <2>11. \A r \in DOMAIN hist : /\ m.type = "SYNC_HISTORY" /\ r \in DOMAIN m.history
                                /\ m.history[r].rev = hist[r].rev
                                => m.history[r].status = hist[r].status
    BY <2>5, <2>7
  <2>12. Agreeing(toServer', hist)
    BY <1>1, <2>2, <2>3, <2>4, <2>11, SentKeeps
  <2>13. QED
    BY <2>6, <2>9, <2>10, <2>12
<1>4. QED
  BY <1>2, <1>3

-----------------------------------------------------------------------------
(***************************************************************************)
(* The writes of runs.                                                     *)
(***************************************************************************)
\* Pruning keeps the runs that are not over.
LEMMA PruneKeepsActive ==
    ASSUME NEW h, NEW r \in DOMAIN h, h[r].status \in Active
    PROVE  r \in DOMAIN Prune(h)
BY DEF Prune, Needed, Overflow, Waiting, IsActive

\* h is the history once run r, new or where it was, has status s; a post-script
\* may also end after its run's row was dropped.
Wrote(h, r, s) ==
    /\ h \in PerRun(Row)
    /\ \A x \in DOMAIN h : x # r => x \in DOMAIN hist /\ h[x] = hist[x]
    /\ \A x \in DOMAIN hist : x # r /\ hist[x].status = "running" => x \in DOMAIN h
    /\ \/ /\ latest[r] = 0 /\ r \in DOMAIN h
          /\ h[r].rev = 1 /\ h[r].status = s /\ h[r].created = clock
       \/ /\ r \in DOMAIN hist /\ r \in DOMAIN h
          /\ h[r].rev = hist[r].rev + 1 /\ h[r].status = s /\ h[r].created = hist[r].created
          /\ Leads(hist[r].status, s)
       \/ r \notin DOMAIN hist /\ r \notin DOMAIN h /\ r \in post /\ Leads("success", s)

\* The row of a new run outlives the pruning that follows its insert.
LEMMA InsertWrote ==
    ASSUME IInv, RowsKept, NEW r \in Runs, NEW s \in Status, latest[r] = 0
    PROVE  Wrote(Insert(hist, r, s, clock), r, s)
<1> DEFINE rec == [status |-> s, rev |-> 1, synced |-> Null,
                   created |-> clock, started |-> clock, snapshot |-> FALSE]
           p == Put(hist, r, rec)
           h == Insert(hist, r, s, clock)
<1>1. /\ hist \in PerRun(Row) /\ clock \in Nat
      /\ \A x \in DOMAIN hist : hist[x].created \in Nat /\ hist[x].created <= clock
  BY QueueTypes DEF RowsKept
<1>2. /\ rec.status = s /\ rec.rev = 1 /\ rec.synced = 0 /\ rec.created = clock
  BY DEF Null
<1>3. /\ DOMAIN p = DOMAIN hist \cup {r}
      /\ \A x \in DOMAIN p : p[x] = IF x = r THEN rec ELSE hist[x]
  BY DEF Put
<1>4. h = Prune(p)
  BY DEF Insert
<1> HIDE DEF rec, p
<1>5. h \in PerRun(Row)
  BY <1>1, InsertRewrites DEF Rewrites
<1>6. DOMAIN h \subseteq DOMAIN p /\ \A x \in DOMAIN h : h[x] = p[x]
  BY <1>4 DEF Prune, Needed
<1>7. r \in DOMAIN h
  <2>1. r \in DOMAIN p /\ p[r] = rec
    BY <1>3
  <2>2. {x \in Waiting(p) : p[x].created > p[r].created} = {}
    <3> SUFFICES ASSUME NEW x \in Waiting(p) PROVE ~(p[x].created > p[r].created)
      OBVIOUS
    <3>1. x \in DOMAIN p
      BY DEF Waiting
    <3>2. p[x].created \in Nat /\ p[x].created <= clock
      BY <1>1, <1>2, <1>3, <3>1
    <3>3. QED
      BY <1>1, <1>2, <2>1, <3>2
  <2>3. Cardinality({x \in Waiting(p) : p[x].created > p[r].created}) = 0
    BY <2>2, FS_EmptySet
  <2>4. r \notin Overflow(p)
    BY <2>3, StoreAssumption DEF Overflow
  <2>5. r \in Needed(p)
    BY <1>2, <2>1 DEF Needed, IsUnsynced
  <2>6. QED
    BY <1>4, <2>4, <2>5 DEF Prune
<1>8. \A x \in DOMAIN hist : x # r /\ hist[x].status = "running" => x \in DOMAIN h
  BY <1>3, <1>4, PruneKeepsActive DEF Active
<1>9. \A x \in DOMAIN h : x # r => x \in DOMAIN hist /\ h[x] = hist[x]
  BY <1>3, <1>6
<1>10. h[r].rev = 1 /\ h[r].status = s /\ h[r].created = clock
  BY <1>2, <1>3, <1>6, <1>7
<1> HIDE DEF h
<1>11. Wrote(h, r, s)
  BY <1>5, <1>7, <1>8, <1>9, <1>10 DEF Wrote
<1>12. QED
  BY <1>11 DEF h

\* A row that changes in place.
LEMMA UpdateWrote ==
    ASSUME IInv, NEW r \in DOMAIN hist, NEW s \in Status, NEW t \in Nat, Leads(hist[r].status, s)
    PROVE  Wrote(Update(hist, r, s, t), r, s)
<1> DEFINE rec == Revised(hist[r], s, t)
           h == Update(hist, r, s, t)
<1>1. hist \in PerRun(Row) /\ hist[r] \in Row /\ r \in Runs
  BY QueueTypes
<1>2. h = [hist EXCEPT ![r] = rec]
  BY DEF Update
<1>3. rec.rev = hist[r].rev + 1 /\ rec.status = s /\ rec.created = hist[r].created
  <2>1. hist[r].rev \in Nat
    BY <1>1 DEF Row
  <2>2. QED
    BY <1>1, <2>1 DEF Revised, Row
<1>4. h \in PerRun(Row)
  BY <1>1, RunningRewrites DEF Rewrites
<1> HIDE DEF rec, h
<1>5. DOMAIN h = DOMAIN hist /\ h[r] = rec /\ \A x \in DOMAIN hist : x # r => h[x] = hist[x]
  BY <1>2
<1>6. Wrote(h, r, s)
  BY <1>3, <1>4, <1>5 DEF Wrote
<1>7. QED
  BY <1>6 DEF h

LEMMA SetStatusWrote ==
    ASSUME IInv, NEW r \in DOMAIN hist, NEW s \in Status, Leads(hist[r].status, s)
    PROVE  Wrote(SetStatus(hist, r, s), r, s)
<1>1. hist[r].started \in Nat
  BY QueueTypes DEF Row
<1>2. QED
  BY <1>1, UpdateWrote DEF SetStatus

LEMMA SetSnapshotWrote ==
    ASSUME IInv, NEW r \in DOMAIN hist
    PROVE  Wrote(SetSnapshot(hist, r), r, hist[r].status)
<1> DEFINE rec == Named(hist[r])
           h == SetSnapshot(hist, r)
<1>1. hist \in PerRun(Row) /\ hist[r] \in Row /\ r \in Runs
  BY QueueTypes
<1>2. h = [hist EXCEPT ![r] = rec]
  BY DEF SetSnapshot
<1>3. rec.rev = hist[r].rev + 1 /\ rec.status = hist[r].status /\ rec.created = hist[r].created
  <2>1. hist[r].rev \in Nat
    BY <1>1 DEF Row
  <2>2. QED
    BY <1>1, <2>1 DEF Named, Row
<1>4. h \in PerRun(Row)
  BY <1>1, SetSnapshotRewrites DEF Rewrites
<1> HIDE DEF rec, h
<1>5. DOMAIN h = DOMAIN hist /\ h[r] = rec /\ \A x \in DOMAIN hist : x # r => h[x] = hist[x]
  BY <1>2
<1>6. Wrote(h, r, hist[r].status)
  BY <1>3, <1>4, <1>5 DEF Wrote, Leads
<1>7. QED
  BY <1>6 DEF h

-----------------------------------------------------------------------------
(***************************************************************************)
(* Every write of a run keeps the invariant.                               *)
(***************************************************************************)
\* What is under way of the history names revisions the agent wrote.
LEMMA QueuedBatch ==
    ASSUME IInv, NEW c \in Sockets, NEW i \in 1..Len(toServer[c]),
           toServer[c][i].type = "SYNC_HISTORY"
    PROVE  LET b == toServer[c][i].history
           IN  /\ DOMAIN b \subseteq Runs
               /\ \A r \in DOMAIN b : /\ b[r].rev \in Nat \ {0} /\ b[r].status \in Status
                                      /\ b[r].rev <= latest[r]
<1> DEFINE b == toServer[c][i].history
<1>1. toServer[c] \in Seq(Sendable(latest))
  BY QueueTypes
<1>2. toServer[c][i] \in Sendable(latest)
  BY <1>1
<1>3. b \in Batches(latest)
  BY <1>2 DEF Sendable, Auth
<1> HIDE DEF b
<1>4. DOMAIN b \subseteq Runs /\ b \in [DOMAIN b -> Entry] /\ \A r \in DOMAIN b : b[r].rev <= latest[r]
  BY <1>3, PerRunDef DEF Batches
<1>5. \A r \in DOMAIN b : b[r].rev \in Nat \ {0} /\ b[r].status \in Status
  BY <1>4 DEF Entry
<1>6. QED
  BY <1>4, <1>5 DEF b

\* What the write of run r in status s finds.
LEMMA WriteFinds ==
    ASSUME IInv, OInv, NEW r \in Runs, NEW s \in Status, NEW h, Wrote(h, r, s), WriteRun(r, h)
    PROVE  /\ Before(toServer, r, s) /\ Leads(table[r].status, s)
           /\ latest'[r] \in Nat \ {0} /\ \A x \in Runs : x # r => latest'[x] = latest[x]
           /\ r \in DOMAIN h => /\ h[r].status = s /\ h[r].rev = latest'[r]
                                /\ latest[r] < latest'[r]
                                /\ h[r].created \in Nat /\ h[r].created <= clock
<1>1. /\ latest \in [Runs -> Nat] /\ latest[r] \in Nat
      /\ clock \in Nat
      /\ latest' = [latest EXCEPT ![r] = IF r \in DOMAIN h /\ h[r].rev > latest[r]
                                         THEN h[r].rev ELSE latest[r]]
  BY QueueTypes DEF WriteRun
<1>2. /\ \A x \in Runs : x # r => latest'[x] = latest[x]
      /\ latest'[r] = IF r \in DOMAIN h /\ h[r].rev > latest[r] THEN h[r].rev ELSE latest[r]
  BY <1>1
<1>3. CASE latest[r] = 0 /\ r \in DOMAIN h /\ h[r].rev = 1 /\ h[r].status = s /\ h[r].created = clock
  <2>1. Silent(toServer, r) /\ table[r].status = "none"
    BY <1>3 DEF OInv, OrderKept
  <2>2. Before(toServer, r, s)
    BY <2>1 DEF Before, Silent
  <2>3. Leads(table[r].status, s)
    BY <2>1 DEF Leads, Final, Terminal
  <2>4. latest'[r] = 1
    BY <1>2, <1>3
  <2>5. QED
    BY <1>1, <1>2, <1>3, <2>2, <2>3, <2>4
<1>4. CASE /\ r \in DOMAIN hist /\ r \in DOMAIN h
           /\ h[r].rev = hist[r].rev + 1 /\ h[r].status = s /\ h[r].created = hist[r].created
           /\ Leads(hist[r].status, s)
  <2>1. /\ Before(toServer, r, hist[r].status) /\ Leads(table[r].status, hist[r].status)
        /\ hist[r].rev = latest[r] /\ hist[r].created <= clock
    BY <1>4 DEF OInv, OrderKept, RowsKept
  <2>2. Before(toServer, r, s)
    BY <1>4, <2>1, LeadsOn DEF Before
  <2>3. Leads(table[r].status, s)
    BY <1>4, <2>1, LeadsOn
  <2>4. latest'[r] = latest[r] + 1 /\ h[r].rev = latest[r] + 1
    BY <1>1, <1>2, <1>4, <2>1
  <2>5. hist[r].created \in Nat
    BY <1>4, QueueTypes
  <2>6. QED
    BY <1>1, <1>2, <1>4, <2>1, <2>2, <2>3, <2>4, <2>5
<1>5. CASE r \notin DOMAIN hist /\ r \notin DOMAIN h /\ r \in post /\ Leads("success", s)
  <2>1. /\ Before(toServer, r, "success") /\ Leads(table[r].status, "success")
        /\ latest[r] > 0
    BY <1>5 DEF OInv, OrderKept, RowsKept
  <2>2. Before(toServer, r, s)
    BY <1>5, <2>1, LeadsOn DEF Before
  <2>3. Leads(table[r].status, s)
    BY <1>5, <2>1, LeadsOn
  <2>4. latest'[r] = latest[r]
    BY <1>2, <1>5
  <2>5. QED
    BY <1>1, <1>2, <1>5, <2>1, <2>2, <2>3, <2>4
<1>6. QED
  BY <1>3, <1>4, <1>5 DEF Wrote

LEMMA RunWriteOrder ==
    ASSUME IInv, OInv, NEW r \in Runs, NEW s \in Status, NEW h, Wrote(h, r, s),
           WriteRun(r, h), Live(r, s), UNCHANGED agentRest,
           clock' \in Nat, clock <= clock',
           \A x \in post' : (x # r /\ x \in post) \/ (x = r /\ s = "success"),
           deferred' \subseteq deferred, checking' \subseteq checking,
           r \in deferred' \cup checking' => s = "running" /\ r \in DOMAIN h
    PROVE  OInv'
<1>1. /\ hist' = h /\ DOMAIN h \subseteq Runs
      /\ UNCHANGED <<conn, opened, serverEnds>> /\ table' = table /\ reports' = reports
  BY PerRunDef DEF WriteRun, agentRest, sockets, serverVars, Wrote
<1>2. /\ latest \in [Runs -> Nat] /\ DOMAIN hist \subseteq Runs /\ clock \in Nat
      /\ \A x \in DOMAIN hist : hist[x].created \in Nat
  BY QueueTypes
<1>3. /\ Before(toServer, r, s) /\ Leads(table[r].status, s)
      /\ latest'[r] \in Nat \ {0} /\ \A x \in Runs : x # r => latest'[x] = latest[x]
      /\ r \in DOMAIN h => /\ h[r].status = s /\ h[r].rev = latest'[r]
                           /\ latest[r] < latest'[r]
                           /\ h[r].created \in Nat /\ h[r].created <= clock
  BY WriteFinds
<1>4. /\ \A x \in DOMAIN h : x # r => x \in DOMAIN hist /\ h[x] = hist[x]
      /\ \A x \in DOMAIN hist : x # r /\ hist[x].status = "running" => x \in DOMAIN h
  BY DEF Wrote
<1>5. /\ SocketsKept' /\ Ordered(toServer') /\ Before(toServer', r, s)
      /\ \A x, t : x # r /\ Before(toServer, x, t) => Before(toServer', x, t)
      /\ \A x, t : After(toServer, x, t) /\ (x = r => Leads(t, s)) => After(toServer', x, t)
      /\ \A x : Silent(toServer, x) /\ x # r => Silent(toServer', x)
      /\ Agreeing(toServer, h) => Agreeing(toServer', h)
  BY <1>1, <1>3, LiveOrder DEF OInv, OrderKept
<1>6. RowsKept'
  <2>1. \A x \in DOMAIN h : h[x].rev = latest'[x] /\ h[x].created <= clock'
    <3> TAKE x \in DOMAIN h
    <3>1. CASE x = r
      BY <1>2, <1>3, <3>1
    <3>2. CASE x # r
      <4>1. /\ x \in DOMAIN hist /\ h[x] = hist[x] /\ x \in Runs
            /\ hist[x].created \in Nat /\ hist[x].created <= clock /\ hist[x].rev = latest[x]
        BY <1>2, <1>4, <3>2 DEF OInv, RowsKept
      <4>2. h[x].created <= clock'
        BY <1>2, <4>1
      <4>3. QED
        BY <1>3, <3>2, <4>1, <4>2
    <3>3. QED
      BY <3>1, <3>2
  <2>2. \A x \in post' : latest'[x] > 0 /\ (x \in DOMAIN h => h[x].status = "success")
    <3> TAKE x \in post'
    <3>1. CASE x = r /\ s = "success"
      BY <1>3, <3>1
    <3>2. CASE x # r /\ x \in post
      <4>1. x \in Runs /\ latest[x] > 0 /\ (x \in DOMAIN hist => hist[x].status = "success")
        BY <3>2 DEF OInv, RowsKept, IInv, Typed, AgentTyped
      <4>2. QED
        BY <1>3, <1>4, <3>2, <4>1
    <3>3. QED
      BY <3>1, <3>2
  <2>3. \A x \in deferred' \cup checking' : x \in DOMAIN h /\ h[x].status = "running"
    <3> TAKE x \in deferred' \cup checking'
    <3>1. CASE x = r
      BY <1>3, <3>1
    <3>2. CASE x # r
      <4>1. x \in DOMAIN hist /\ hist[x].status = "running"
        BY <3>2 DEF OInv, RowsKept
      <4>2. QED
        BY <1>4, <3>2, <4>1
    <3>3. QED
      BY <3>1, <3>2
  <2>4. deferred' \cap checking' = {}
    BY DEF OInv, RowsKept
  <2>5. QED
    BY <1>1, <2>1, <2>2, <2>3, <2>4 DEF RowsKept
<1>7. ASSUME NEW x \in Runs
      PROVE  /\ After(toServer', x, table[x].status)
             /\ x \in DOMAIN h => /\ Before(toServer', x, h[x].status)
                                  /\ Leads(table[x].status, h[x].status)
             /\ x \in post' => Before(toServer', x, "success") /\ Leads(table[x].status, "success")
             /\ latest'[x] = 0 => Silent(toServer', x) /\ table[x].status = "none"
  <2>1. CASE x = r
    <3>1. After(toServer, x, table[x].status)
      BY DEF OInv, OrderKept
    <3>2. After(toServer', x, table[x].status)
      BY <1>3, <1>5, <2>1, <3>1
    <3>3. QED
      BY <1>3, <1>5, <2>1, <3>2
  <2>2. CASE x # r
    <3>1. /\ After(toServer, x, table[x].status)
          /\ x \in DOMAIN hist => /\ Before(toServer, x, hist[x].status)
                                  /\ Leads(table[x].status, hist[x].status)
          /\ x \in post => Before(toServer, x, "success") /\ Leads(table[x].status, "success")
          /\ latest[x] = 0 => Silent(toServer, x) /\ table[x].status = "none"
      BY DEF OInv, OrderKept
    <3>2. After(toServer', x, table[x].status)
      BY <1>5, <2>2, <3>1
    <3>3. x \in DOMAIN h => /\ Before(toServer', x, h[x].status)
                            /\ Leads(table[x].status, h[x].status)
      BY <1>4, <1>5, <2>2, <3>1
    <3>4. x \in post' => Before(toServer', x, "success") /\ Leads(table[x].status, "success")
      BY <1>5, <2>2, <3>1
    <3>5. latest'[x] = 0 => Silent(toServer', x) /\ table[x].status = "none"
      BY <1>3, <1>5, <2>2, <3>1
    <3>6. QED
      BY <3>2, <3>3, <3>4, <3>5
  <2>3. QED
    BY <2>1, <2>2
<1>8. OrderKept'
  BY <1>1, <1>5, <1>7 DEF OrderKept
<1>9. Agreeing(toServer, h)
  <2> SUFFICES ASSUME NEW c \in Sockets, NEW i \in 1..Len(toServer[c]), NEW x \in DOMAIN h,
                      toServer[c][i].type = "SYNC_HISTORY", x \in DOMAIN toServer[c][i].history,
                      toServer[c][i].history[x].rev = h[x].rev
               PROVE  toServer[c][i].history[x].status = h[x].status
    BY DEF Agreeing
  <2>1. CASE x = r
    <3>1. toServer[c][i].history[r].rev \in Nat /\ toServer[c][i].history[r].rev <= latest[r]
      BY <2>1, QueuedBatch
    <3>2. latest[r] \in Nat
      BY <1>2
    <3>3. QED
      BY <1>3, <2>1, <3>1, <3>2
  <2>2. CASE x # r
    BY <1>4, <2>2 DEF OInv, RevisionKept, Agreeing
  <2>3. QED
    BY <2>1, <2>2
<1>10. \A x \in DOMAIN h : table[x].rev = h[x].rev => table[x].status = h[x].status
  <2> TAKE x \in DOMAIN h
  <2>1. CASE x = r
    <3>1. table[r].rev \in Nat /\ latest[r] \in Nat /\ table[r].rev <= latest[r]
      BY Numbers DEF IInv, TableBound
    <3>2. QED
      BY <1>3, <2>1, <3>1
  <2>2. CASE x # r
    BY <1>4, <2>2 DEF OInv, RevisionKept
  <2>3. QED
    BY <2>1, <2>2
<1>11. RevisionKept'
  BY <1>1, <1>5, <1>9, <1>10 DEF RevisionKept
<1>12. ReportsKept'
  BY <1>1 DEF OInv, ReportsKept
<1>13. QED
  BY <1>5, <1>6, <1>8, <1>11, <1>12 DEF OInv

\* A write on the disk of a run nobody is to write besides: none of those that
\* wait for a post-script, or for the PBS, is anywhere but where it was left.
LEMMA NobodysRun ==
    ASSUME IInv, OInv, NEW r \in Runs, IsNew(r) \/ InStatus(r, "queued")
    PROVE  r \notin post /\ r \notin deferred \cup checking /\ latest[r] \in Nat
<1>1. latest[r] \in Nat /\ \A x \in DOMAIN hist : hist[x].rev \in Nat \ {0}
  BY QueueTypes
<1>2. CASE IsNew(r)
  <2>1. r \notin DOMAIN hist
    BY <1>1, <1>2 DEF IsNew, OInv, RowsKept
  <2>2. r \notin post
    BY <1>1, <1>2 DEF IsNew, OInv, RowsKept
  <2>3. QED
    BY <1>1, <2>1, <2>2 DEF OInv, RowsKept
<1>3. CASE InStatus(r, "queued")
  BY <1>1, <1>3 DEF InStatus, OInv, RowsKept
<1>4. QED
  BY <1>2, <1>3

\* The two operators that write a first row, or the row there is.
LEMMA FirstOrNext ==
    ASSUME IInv, OInv, NEW r \in Runs, IsNew(r) \/ InStatus(r, "queued")
    PROVE  /\ Wrote(StartRunning(hist, r, clock), r, "running")
           /\ Wrote(RecordFailed(hist, r, clock), r, "failed")
<1>1. clock \in Nat /\ "running" \in Status /\ "failed" \in Status
  BY QueueTypes DEF Status, Active, Final, Terminal
<1>2. CASE r \in DOMAIN hist
  <2>1. hist[r].status = "queued"
    BY <1>2, QueueTypes DEF InStatus, IsNew, OInv, RowsKept
  <2>2. Leads(hist[r].status, "running") /\ Leads(hist[r].status, "failed")
    BY <2>1 DEF Leads, Final, Terminal
  <2>3. Wrote(Update(hist, r, "running", clock), r, "running")
    BY <1>1, <1>2, <2>2, UpdateWrote
  <2>4. Wrote(SetStatus(hist, r, "failed"), r, "failed")
    BY <1>1, <1>2, <2>2, SetStatusWrote
  <2>5. QED
    BY <1>2, <2>3, <2>4 DEF StartRunning, RecordFailed
<1>3. CASE r \notin DOMAIN hist
  <2>1. latest[r] = 0
    BY <1>3 DEF InStatus, IsNew
  <2>2. /\ Wrote(Insert(hist, r, "running", clock), r, "running")
        /\ Wrote(Insert(hist, r, "failed", clock), r, "failed")
    BY <1>1, <2>1, InsertWrote DEF OInv
  <2>3. QED
    BY <1>3, <2>2 DEF StartRunning, RecordFailed
<1>4. QED
  BY <1>2, <1>3

\* A step that loses or takes what is under way, and leaves the runs as they are.
LEMMA QuietOrder ==
    ASSUME IInv, OInv, UNCHANGED <<hist, clock, latest, table, reports>>,
           post' \subseteq post, deferred' \cup checking' \subseteq deferred \cup checking,
           deferred' \cap checking' = {},
           Shrunk(toServer, toServer'), SocketsKept'
    PROVE  OInv'
<1>1. toServer \in [Sockets -> Seq(Sendable(latest))]
  BY QueueTypes
<1>2. /\ Ordered(toServer) => Ordered(toServer')
      /\ \A r, s : Before(toServer, r, s) => Before(toServer', r, s)
      /\ \A r, s : After(toServer, r, s) => After(toServer', r, s)
      /\ \A r : Silent(toServer, r) => Silent(toServer', r)
      /\ \A h : Agreeing(toServer, h) => Agreeing(toServer', h)
  BY <1>1, ShrunkKeeps
<1>3. RowsKept'
  BY DEF OInv, RowsKept
<1>4. OrderKept'
  BY <1>2 DEF OInv, OrderKept
<1>5. RevisionKept'
  BY <1>2 DEF OInv, RevisionKept
<1>6. ReportsKept'
  BY DEF OInv, ReportsKept
<1>7. QED
  BY <1>3, <1>4, <1>5, <1>6 DEF OInv

LEMMA RunStepOrder ==
    ASSUME IInv, OInv, Sound, RunStep
    PROVE  OInv'
<1>1. /\ clock \in Nat /\ clock + 1 \in Nat /\ clock <= clock /\ clock <= clock + 1
      /\ \A s \in EndStates : s \in Status
      /\ {"queued", "running", "success", "failed", "abort"} \subseteq Status
  BY QueueTypes, SyncAssumption DEF Status, Active, Final, Terminal
<1>2. PICK r \in Runs :
          \/ Enqueue(r) \/ Start(r) \/ FailBeforeStart(r) \/ Name(r) \/ AbortQueued(r)
          \/ \E s \in EndStates \ Terminal : RecordUnstarted(r, s)
          \/ \E s \in {"queued", "skipped"} : Reinsert(r, s)
          \/ \E s \in EndStates \cap Terminal : Finish(r, s)
          \/ \E s \in {"success", "abort"} : SettleDeferred(r, s)
          \/ \E ok \in BOOLEAN : PostScript(r, ok)
  BY DEF RunStep
<1>3. CASE Enqueue(r)
  <2>1. r \notin post /\ r \notin deferred \cup checking
    BY <1>3, NobodysRun DEF Enqueue
  <2>2. Wrote(Insert(hist, r, "queued", clock), r, "queued")
    BY <1>1, <1>3, InsertWrote DEF Enqueue, IsNew, OInv
  <2>3. QED
    BY <1>1, <1>3, <2>1, <2>2, RunWriteOrder DEF Enqueue, Tick, runVars
<1>4. ASSUME NEW s \in EndStates, RecordUnstarted(r, s)
      PROVE  OInv'
  <2>1. r \notin post /\ r \notin deferred \cup checking
    BY <1>4, NobodysRun DEF RecordUnstarted
  <2>2. Wrote(Insert(hist, r, s, clock), r, s)
    BY <1>1, <1>4, InsertWrote DEF RecordUnstarted, IsNew, OInv
  <2>3. QED
    BY <1>1, <1>4, <2>1, <2>2, RunWriteOrder DEF RecordUnstarted, Tick, runVars
<1>5. CASE Start(r)
  <2>1. r \notin post /\ r \notin deferred \cup checking
    BY <1>5, NobodysRun DEF Start
  <2>2. Wrote(StartRunning(hist, r, clock), r, "running")
    BY <1>5, FirstOrNext DEF Start
  <2>3. QED
    BY <1>1, <1>5, <2>1, <2>2, RunWriteOrder DEF Start, Tick, runVars
<1>6. CASE FailBeforeStart(r)
  <2>1. r \notin post /\ r \notin deferred \cup checking
    BY <1>6, NobodysRun DEF FailBeforeStart
  <2>2. Wrote(RecordFailed(hist, r, clock), r, "failed")
    BY <1>6, FirstOrNext DEF FailBeforeStart
  <2>3. QED
    BY <1>1, <1>6, <2>1, <2>2, RunWriteOrder DEF FailBeforeStart, Tick, runVars
<1>7. CASE Name(r)
  <2>1. r \in DOMAIN hist /\ hist[r].status = "running" /\ r \notin post
    BY <1>7 DEF Name, InStatus, OInv, RowsKept
  <2>2. Wrote(SetSnapshot(hist, r), r, "running")
    BY <2>1, SetSnapshotWrote
  <2>3. r \in DOMAIN SetSnapshot(hist, r)
    BY <2>1 DEF SetSnapshot
  <2>4. QED
    BY <1>1, <1>7, <2>1, <2>2, <2>3, RunWriteOrder DEF Name, runVars
<1>8. CASE AbortQueued(r)
  <2>1. r \in DOMAIN hist /\ Leads(hist[r].status, "abort")
    BY <1>8 DEF AbortQueued, InStatus, Leads, Final, Terminal
  <2>2. r \notin post /\ r \notin deferred \cup checking
    BY <1>8, NobodysRun DEF AbortQueued
  <2>3. Wrote(SetStatus(hist, r, "abort"), r, "abort")
    BY <1>1, <2>1, SetStatusWrote
  <2>4. QED
    BY <1>1, <1>8, <2>2, <2>3, RunWriteOrder DEF AbortQueued, runVars
<1>9. ASSUME NEW s \in EndStates, Finish(r, s)
      PROVE  OInv'
  <2>1. /\ r \in DOMAIN hist /\ hist[r].status = "running" /\ Leads(hist[r].status, s)
        /\ r \notin post /\ r \notin deferred \cup checking
    BY <1>9 DEF Finish, InStatus, Leads, Final, Terminal, OInv, RowsKept
  <2>2. Wrote(SetStatus(hist, r, s), r, s)
    BY <1>1, <2>1, SetStatusWrote
  <2>3. \A x \in post' : (x # r /\ x \in post) \/ (x = r /\ s = "success")
    BY <1>9, <2>1 DEF Finish
  <2>4. QED
    BY <1>1, <1>9, <2>1, <2>2, <2>3, RunWriteOrder DEF Finish
<1>10. ASSUME NEW s \in {"success", "abort"}, SettleDeferred(r, s)
       PROVE  OInv'
  <2>1. /\ r \in DOMAIN hist /\ hist[r].status = "running" /\ Leads(hist[r].status, s)
        /\ r \notin post
    BY <1>10 DEF SettleDeferred, Leads, Final, Terminal, OInv, RowsKept
  <2>2. Wrote(SetStatus(hist, r, s), r, s)
    BY <1>1, <2>1, SetStatusWrote
  <2>3. r \notin deferred' \cup checking'
    BY <1>10 DEF SettleDeferred, OInv, RowsKept
  <2>4. QED
    BY <1>1, <1>10, <2>1, <2>2, <2>3, RunWriteOrder DEF SettleDeferred
<1>11. ASSUME NEW ok \in BOOLEAN, PostScript(r, ok)
       PROVE  OInv'
  <2>1. /\ r \in post /\ (r \in DOMAIN hist => hist[r].status = "success")
        /\ r \notin deferred \cup checking
    BY <1>11 DEF PostScript, OInv, RowsKept
  <2>2. CASE ok
    <3>1. Shrunk(toServer, toServer')
      BY <1>11, <2>2 DEF PostScript, Shrunk
    <3>2. SocketsKept'
      BY <1>11, <2>2 DEF PostScript, agentRest, sockets, OInv, SocketsKept
    <3>3. deferred' \cap checking' = {}
      BY <1>11 DEF PostScript, OInv, RowsKept
    <3>4. QED
      BY <1>11, <2>2, <3>1, <3>2, <3>3, QuietOrder DEF PostScript, agentRest, serverVars
  <2>3. CASE ~ok
    <3>1. Wrote(SetStatus(hist, r, "failed"), r, "failed")
      <4>1. CASE r \in DOMAIN hist
        <5>1. Leads(hist[r].status, "failed")
          BY <2>1, <4>1 DEF Leads
        <5>2. QED
          BY <1>1, <4>1, <5>1, SetStatusWrote
      <4>2. CASE r \notin DOMAIN hist
        <5>1. SetStatus(hist, r, "failed") = hist
          BY <4>2 DEF SetStatus
        <5>2. Leads("success", "failed")
          BY DEF Leads
        <5>3. hist \in PerRun(Row)
          BY QueueTypes
        <5>4. Wrote(hist, r, "failed")
          BY <2>1, <4>2, <5>2, <5>3 DEF Wrote
        <5>5. QED
          BY <5>1, <5>4
      <4>3. QED
        BY <4>1, <4>2
    <3>2. QED
      BY <1>1, <1>11, <2>1, <2>3, <3>1, RunWriteOrder DEF PostScript
  <2>4. QED
    BY <2>2, <2>3
<1>12. ASSUME NEW s, Reinsert(r, s)
       PROVE  FALSE
  BY <1>12 DEF Reinsert, Sound
<1>13. QED
  BY <1>2, <1>3, <1>4, <1>5, <1>6, <1>7, <1>8, <1>9, <1>10, <1>11, <1>12

-----------------------------------------------------------------------------
(***************************************************************************)
(* Sockets, timers and acknowledgements.                                   *)
(***************************************************************************)
LEMMA Emptied ==
    ASSUME NEW S, NEW q \in [Sockets -> Seq(S)], NEW c \in Sockets
    PROVE  /\ Shrunk(q, [q EXCEPT ![c] = <<>>])
           /\ q[c] # <<>> => Shrunk(q, [q EXCEPT ![c] = Tail(@)])
<1>1. Shrunk(q, [q EXCEPT ![c] = <<>>])
  BY DEF Shrunk
<1>2. q[c] # <<>> => Shrunk(q, [q EXCEPT ![c] = Tail(@)])
  BY DEF Shrunk
<1>3. QED
  BY <1>1, <1>2

\* Taking a message that is not the AUTH of its socket: the older sockets are cut.
LEMMA TakenKeepsSockets ==
    ASSUME IInv, SocketsKept, NEW c \in serverEnds, toServer[c] # <<>>,
           Head(toServer[c]) # Auth, toServer' = Taken(c),
           UNCHANGED <<conn, opened, serverEnds>>
    PROVE  SocketsKept' /\ Shrunk(toServer, toServer') /\ \A d \in Sockets : d < c => toServer[d] = <<>>
<1>1. toServer \in [Sockets -> Seq(Sendable(latest))] /\ serverEnds \subseteq Sockets
  BY QueueTypes
<1>2. /\ \A d \in Sockets : d # c => toServer'[d] = toServer[d]
      /\ toServer'[c] = Tail(toServer[c])
  BY <1>1 DEF Taken
<1>3. Shrunk(toServer, toServer')
  BY <1>1, <1>2 DEF Shrunk
<1>4. \A d \in serverEnds : d >= c
  BY DEF SocketsKept
<1>5. SocketsKept'
  BY <1>1, <1>2, <1>4 DEF SocketsKept
<1>6. \A d \in Sockets : d < c => toServer[d] = <<>>
  <2> SUFFICES ASSUME NEW d \in Sockets, d < c
               PROVE  d \notin serverEnds
    BY DEF SocketsKept
  <2>1. c \in Nat /\ d \in Nat
    BY <1>1 DEF Sockets
  <2>2. QED
    BY <1>4, <2>1
<1>7. QED
  BY <1>3, <1>5, <1>6

LEMMA SocketStepOrder ==
    ASSUME IInv, OInv, SocketStep
    PROVE  OInv'
<1>1. /\ toServer \in [Sockets -> Seq(Sendable(latest))] /\ serverEnds \subseteq Sockets
      /\ opened \in Nat
  BY QueueTypes DEF IInv, Typed, SocketsTyped
<1>2. deferred \cap checking = {}
  BY DEF OInv, RowsKept
<1>3. CASE Open
  <2> DEFINE c == opened + 1
  <2>1. /\ c \in Sockets /\ c > opened /\ c # NoSocket
        /\ opened' = c /\ conn' = c /\ serverEnds' = serverEnds \cup {c}
        /\ toServer' = [toServer EXCEPT ![c] = <<Auth>>]
    BY <1>1, <1>3, SyncAssumption DEF Open, Sockets, NoSocket
  <2>2. toServer[c] = <<>> /\ c \notin serverEnds
    BY <2>1 DEF OInv, SocketsKept
  <2>3. \A d \in Sockets : d > c => d > opened /\ d # c
    BY <1>1 DEF Sockets
  <2>4. Auth \in Sendable(latest)
    BY DEF Sendable
  <2> HIDE DEF c
  <2>5. /\ \A d \in Sockets : d # c => toServer'[d] = toServer[d]
        /\ toServer'[c] = <<Auth>> /\ Sent(toServer, c, Auth, toServer')
    <3>1. Append(toServer[c], Auth) = <<Auth>>
      BY <2>2
    <3>2. QED
      BY <1>1, <2>1, <3>1 DEF Sent
  <2>6. toServer'[c] # <<>> /\ Head(toServer'[c]) = Auth
    BY <2>5
  <2>7. SocketsKept'
    <3>1. \A d \in Sockets : /\ d \notin serverEnds' => toServer'[d] = <<>>
                             /\ d > opened' => d \notin serverEnds'
      BY <2>1, <2>3, <2>5 DEF OInv, SocketsKept
    <3>2. ASSUME NEW d \in serverEnds', toServer'[d] = <<>> \/ Head(toServer'[d]) # Auth,
                 NEW e \in serverEnds'
          PROVE  e >= d
      <4>1. d # c /\ d \in serverEnds /\ (toServer[d] = <<>> \/ Head(toServer[d]) # Auth)
        BY <1>1, <2>1, <2>5, <2>6, <3>2
      <4>2. CASE e \in serverEnds
        BY <4>1, <4>2 DEF OInv, SocketsKept
      <4>3. CASE e = c
        <5>1. ~(d > opened) /\ d \in Nat
          BY <1>1, <4>1 DEF OInv, SocketsKept, Sockets
        <5>2. QED
          BY <1>1, <4>3, <5>1 DEF c
      <4>4. QED
        BY <2>1, <4>2, <4>3
    <3>3. QED
      BY <2>1, <3>1, <3>2 DEF SocketsKept
  <2>8. \A r : ~Tells(Auth, r)
    BY DEF Tells, Auth
  <2>9. \A d \in Sockets : d > c => toServer[d] = <<>>
    BY <2>3 DEF OInv, SocketsKept
  <2>10. Auth.type # "SYNC_HISTORY"
    BY DEF Auth
  <2>11. /\ \A r, s : Before(toServer, r, s) => Before(toServer', r, s)
         /\ \A r, s : After(toServer, r, s) => After(toServer', r, s)
         /\ \A r : Silent(toServer, r) => Silent(toServer', r)
         /\ Ordered(toServer) => Ordered(toServer')
    <3>1. \A r, s : Before(toServer, r, s) => Before(toServer', r, s)
      BY <1>1, <2>1, <2>4, <2>5, <2>8, SentKeeps
    <3>2. \A r, s : After(toServer, r, s) => After(toServer', r, s)
      BY <1>1, <2>1, <2>4, <2>5, <2>8, SentKeeps
    <3>3. \A r : Silent(toServer, r) => Silent(toServer', r)
      BY <1>1, <2>1, <2>4, <2>5, <2>8, SentKeeps
    <3>4. Ordered(toServer) => Ordered(toServer')
      BY <1>1, <2>1, <2>4, <2>5, <2>8, <2>9, SentKeeps
    <3>5. QED
      BY <3>1, <3>2, <3>3, <3>4
  <2>12. \A h : Agreeing(toServer, h) => Agreeing(toServer', h)
    BY <1>1, <2>1, <2>4, <2>5, <2>10, SentKeeps
  <2>13. UNCHANGED <<hist, clock, post, deferred, checking, latest, table, reports>>
    BY <1>3 DEF Open, agentVars, runVars, serverVars
  <2>14. RowsKept' /\ ReportsKept'
    BY <2>13 DEF OInv, RowsKept, ReportsKept
  <2>15. OrderKept'
    BY <2>11, <2>13 DEF OInv, OrderKept
  <2>16. RevisionKept'
    BY <2>12, <2>13 DEF OInv, RevisionKept
  <2>17. QED
    BY <2>7, <2>14, <2>15, <2>16 DEF OInv
<1>4. ASSUME NEW c \in Sockets, AgentClose(c)
      PROVE  OInv'
  <2>1. /\ UNCHANGED <<hist, clock, post, deferred, checking, latest, table, reports>>
        /\ UNCHANGED <<opened, serverEnds, toServer>> /\ conn' \in {conn, NoSocket}
    BY <1>4 DEF AgentClose, agentVars, runVars, serverVars
  <2>2. SocketsKept'
    BY <2>1 DEF OInv, SocketsKept
  <2>3. Shrunk(toServer, toServer')
    BY <2>1 DEF Shrunk
  <2>4. QED
    BY <1>2, <2>1, <2>2, <2>3, QuietOrder
<1>5. ASSUME NEW c \in Sockets, ServerClose(c)
      PROVE  OInv'
  <2>1. /\ UNCHANGED <<hist, clock, post, deferred, checking, latest, table, reports>>
        /\ UNCHANGED <<opened, conn>> /\ serverEnds' = serverEnds \ {c}
        /\ toServer' = [toServer EXCEPT ![c] = <<>>]
    BY <1>5 DEF ServerClose, agentVars, runVars, serverVars
  <2>2. /\ \A d \in Sockets : d # c => toServer'[d] = toServer[d]
        /\ toServer'[c] = <<>>
    BY <1>1, <2>1
  <2>3. SocketsKept'
    BY <1>1, <2>1, <2>2 DEF OInv, SocketsKept
  <2>4. Shrunk(toServer, toServer')
    BY <1>1, <2>1, Emptied
  <2>5. QED
    BY <1>2, <2>1, <2>3, <2>4, QuietOrder
<1>6. QED
  BY <1>3, <1>4, <1>5 DEF SocketStep

\* The server hears from a new socket: the older ones are cut.
LEMMA AuthOrder ==
    ASSUME IInv, OInv, Sound, NEW c \in Sockets, HandleAuth(c)
    PROVE  OInv'
<1>1. toServer \in [Sockets -> Seq(Sendable(latest))] /\ serverEnds \subseteq Sockets
  BY QueueTypes
<1>2. /\ UNCHANGED <<hist, clock, post, deferred, checking, latest, table, reports>>
      /\ UNCHANGED <<opened, conn>>
      /\ c \in serverEnds /\ toServer[c] # <<>>
      /\ serverEnds' = {d \in serverEnds : d >= c}
      /\ toServer' = [d \in Sockets |-> IF d < c THEN <<>> ELSE Taken(c)[d]]
  BY DEF HandleAuth, Arrives, Sound, agentVars, runVars
<1>3. /\ \A d \in Sockets : d < c => toServer'[d] = <<>>
      /\ \A d \in Sockets : ~(d < c) /\ d # c => toServer'[d] = toServer[d]
      /\ toServer'[c] = Tail(toServer[c])
  <2>1. ~(c < c)
    BY DEF Sockets
  <2>2. QED
    BY <1>1, <1>2, <2>1 DEF Taken
<1>4. Shrunk(toServer, toServer')
  BY <1>2, <1>3 DEF Shrunk
<1>5. SocketsKept'
  <2>1. \A d \in Sockets : /\ d \notin serverEnds' => toServer'[d] = <<>>
                           /\ d > opened' => d \notin serverEnds'
    <3> TAKE d \in Sockets
    <3>1. c \in Nat /\ d \in Nat
      BY DEF Sockets
    <3>2. CASE d < c
      BY <1>2, <1>3, <3>1, <3>2 DEF OInv, SocketsKept
    <3>3. CASE ~(d < c)
      BY <1>2, <1>3, <3>1, <3>3 DEF OInv, SocketsKept
    <3>4. QED
      BY <3>2, <3>3
  <2>2. ASSUME NEW d \in serverEnds', toServer'[d] = <<>> \/ Head(toServer'[d]) # Auth,
               NEW e \in serverEnds'
        PROVE  e >= d
    <3>1. d >= c /\ e >= c /\ e \in serverEnds /\ d \in serverEnds
      BY <1>2, <2>2
    <3>2. CASE d = c
      BY <3>1, <3>2
    <3>3. CASE d # c
      <4>1. toServer'[d] = toServer[d]
        <5>1. c \in Nat /\ d \in Nat /\ d \in Sockets
          BY <1>1, <3>1 DEF Sockets
        <5>2. ~(d < c)
          BY <3>1, <5>1
        <5>3. QED
          BY <1>3, <3>3, <5>1, <5>2
      <4>2. QED
        BY <2>2, <3>1, <4>1 DEF OInv, SocketsKept
    <3>4. QED
      BY <3>2, <3>3
  <2>3. QED
    BY <1>2, <2>1, <2>2 DEF OInv, SocketsKept
<1>6. deferred' \cap checking' = {}
  BY <1>2 DEF OInv, RowsKept
<1>7. QED
  BY <1>2, <1>4, <1>5, <1>6, QuietOrder

\* A flush, from rows that were acknowledged at most, keeps the invariant.
LEMMA FlushedOrder ==
    ASSUME IInv, OInv, hist' \in PerRun(Row), DOMAIN hist' \subseteq DOMAIN hist,
           \A x \in DOMAIN hist' : /\ hist'[x].status = hist[x].status
                                   /\ hist'[x].rev = hist[x].rev
                                   /\ hist'[x].created = hist[x].created,
           \A x \in DOMAIN hist : hist[x].status = "running" => x \in DOMAIN hist',
           NEW isActive \in BOOLEAN,
           Flush(hist', isActive, toServer) \/ toServer' = toServer,
           UNCHANGED <<clock, post, latest, conn, opened, serverEnds, table, reports>>,
           deferred' \cup checking' \subseteq deferred \cup checking, deferred' \cap checking' = {}
    PROVE  OInv'
<1>1. /\ SocketsKept' /\ Ordered(toServer')
      /\ \A r \in Runs :
            /\ After(toServer', r, table[r].status)
            /\ r \in DOMAIN hist => Before(toServer', r, hist[r].status)
            /\ r \in post => Before(toServer', r, "success")
            /\ latest[r] = 0 => Silent(toServer', r)
      /\ Agreeing(toServer', hist)
  <2>1. CASE Flush(hist', isActive, toServer)
    <3> DEFINE h == hist'
    <3>1. /\ h \in PerRun(Row) /\ DOMAIN h \subseteq DOMAIN hist
          /\ \A x \in DOMAIN h : h[x].status = hist[x].status /\ h[x].rev = hist[x].rev
          /\ Flush(h, isActive, toServer)
      BY <2>1
    <3>2. UNCHANGED <<conn, opened, serverEnds>> /\ UNCHANGED <<table, latest, post>>
      OBVIOUS
    <3> HIDE DEF h
    <3>3. SocketsKept /\ OrderKept /\ RowsKept /\ Agreeing(toServer, hist)
      BY DEF OInv, RevisionKept
    <3>4. QED
      BY <3>1, <3>2, <3>3, FlushOrder
  <2>2. CASE toServer' = toServer
    <3>1. SocketsKept'
      BY <2>2 DEF OInv, SocketsKept
    <3>2. QED
      BY <2>2, <3>1 DEF OInv, OrderKept, RevisionKept
  <2>3. QED
    BY <2>1, <2>2
<1>2. RowsKept'
  <2>1. \A r \in DOMAIN hist' : hist'[r].rev = latest[r] /\ hist'[r].created <= clock
    BY DEF OInv, RowsKept
  <2>2. \A r \in post : latest[r] > 0 /\ (r \in DOMAIN hist' => hist'[r].status = "success")
    BY DEF OInv, RowsKept
  <2>3. \A r \in deferred' \cup checking' : r \in DOMAIN hist' /\ hist'[r].status = "running"
    BY DEF OInv, RowsKept
  <2>4. QED
    BY <2>1, <2>2, <2>3 DEF RowsKept
<1>3. OrderKept'
  BY <1>1 DEF OInv, OrderKept
<1>4. Agreeing(toServer', hist')
  <2> SUFFICES ASSUME NEW c \in Sockets, NEW i \in 1..Len(toServer'[c]), NEW x \in DOMAIN hist',
                      toServer'[c][i].type = "SYNC_HISTORY", x \in DOMAIN toServer'[c][i].history,
                      toServer'[c][i].history[x].rev = hist'[x].rev
               PROVE  toServer'[c][i].history[x].status = hist'[x].status
    BY DEF Agreeing
  <2>1. x \in DOMAIN hist /\ hist'[x].rev = hist[x].rev /\ hist'[x].status = hist[x].status
    OBVIOUS
  <2>2. QED
    BY <1>1, <2>1 DEF Agreeing
<1>5. RevisionKept'
  BY <1>4 DEF OInv, RevisionKept
<1>6. ReportsKept'
  BY DEF OInv, ReportsKept
<1>7. QED
  BY <1>1, <1>2, <1>3, <1>5, <1>6 DEF OInv

LEMMA TimerOrder ==
    ASSUME IInv, OInv, Timer
    PROVE  OInv'
<1>1. hist \in PerRun(Row) /\ active \in BOOLEAN
  BY DEF IInv, Typed, AgentTyped
<1>2. /\ UNCHANGED <<hist, clock, post, deferred, checking, latest, conn, opened,
                     serverEnds, table, reports>>
      /\ Flush(hist', active, toServer)
  BY DEF Timer, agentVars, runVars, sockets, serverVars
<1>3. deferred' \cap checking' = {}
  BY <1>2 DEF OInv, RowsKept
<1>4. QED
  BY <1>1, <1>2, <1>3, FlushedOrder

LEMMA AuthSuccessOrder ==
    ASSUME IInv, OInv, NEW c \in Sockets, HandleAuthSuccess(c)
    PROVE  OInv'
<1>1. hist \in PerRun(Row)
  BY DEF IInv, Typed, AgentTyped
<1>2. /\ UNCHANGED <<hist, clock, post, latest, conn, opened, serverEnds, table, reports>>
      /\ deferred' = {} /\ checking' = checking \cup deferred
      /\ Flush(hist', TRUE, toServer)
  BY DEF HandleAuthSuccess, sockets, serverVars
<1>3. QED
  BY <1>1, <1>2, FlushedOrder

\* An acknowledgement leaves the rows as they are, and keeps those not over.
LEMMA MarkSyncedSame ==
    ASSUME NEW h \in PerRun(Row), NEW acked, NEW stored
    PROVE  LET g == MarkSynced(h, acked, stored)
           IN  /\ \A r \in DOMAIN g : /\ r \in DOMAIN h /\ g[r].status = h[r].status
                                      /\ g[r].created = h[r].created
               /\ \A r \in DOMAIN h : h[r].status = "running" => r \in DOMAIN g
<1> DEFINE m == [r \in DOMAIN h |-> IF r \in stored THEN [h[r] EXCEPT !.synced = acked[r]]
                                                    ELSE h[r]]
<1>1. \A r \in DOMAIN h : h[r] \in Row
  BY PerRunDef
<1>2. /\ DOMAIN m = DOMAIN h
      /\ \A r \in DOMAIN h : /\ r \in stored => m[r] = [h[r] EXCEPT !.synced = acked[r]]
                             /\ r \notin stored => m[r] = h[r]
  OBVIOUS
<1>3. \A r \in DOMAIN h : m[r].status = h[r].status /\ m[r].created = h[r].created
  BY <1>1, <1>2 DEF Row
<1> HIDE DEF m
<1>4. CASE stored = {}
  BY <1>4 DEF MarkSynced
<1>5. CASE stored # {}
  <2>1. MarkSynced(h, acked, stored) = Prune(m)
    BY <1>5 DEF MarkSynced, m
  <2>2. DOMAIN Prune(m) \subseteq DOMAIN m /\ \A r \in DOMAIN Prune(m) : Prune(m)[r] = m[r]
    BY DEF Prune, Needed
  <2>3. \A r \in DOMAIN h : h[r].status = "running" => r \in DOMAIN Prune(m)
    BY <1>2, <1>3, PruneKeepsActive DEF Active
  <2>4. QED
    BY <1>2, <1>3, <2>1, <2>2, <2>3
<1>6. QED
  BY <1>4, <1>5

LEMMA HistoryAckOrder ==
    ASSUME IInv, OInv, NEW c \in Sockets, NEW stored, HandleHistoryAck(c, stored)
    PROVE  OInv'
<1> DEFINE acked == Head(toAgent[c]).entries
<1>1. /\ hist \in PerRun(Row) /\ active \in BOOLEAN
      /\ toAgent \in [Sockets -> Seq(Answers(table))]
  BY DEF IInv, Typed, AgentTyped, SocketsTyped
<1>2. Head(toAgent[c]) \in Answers(table)
  BY <1>1, HeadTyped DEF HandleHistoryAck, Receives
<1>3. acked \in PerRun(Nat \ {0})
  BY <1>2 DEF HandleHistoryAck, Receives, Answers, AuthSuccess, Acks
<1>4. /\ stored \subseteq Moved(hist, acked)
      /\ hist' = MarkSynced(hist, acked, stored)
      /\ UNCHANGED <<clock, post, deferred, checking, latest, conn, opened, serverEnds,
                     table, reports>>
      /\ Flush(hist', active, toServer) \/ toServer' = toServer
  BY DEF HandleHistoryAck, runVars, sockets, serverVars
<1> HIDE DEF acked
<1>5. /\ hist' \in PerRun(Row) /\ DOMAIN hist' \subseteq DOMAIN hist
      /\ \A r \in DOMAIN hist' : hist'[r].rev = hist[r].rev
  BY <1>1, <1>3, <1>4, MarkSyncedForward
<1>6. /\ \A r \in DOMAIN hist' : /\ hist'[r].status = hist[r].status
                                 /\ hist'[r].created = hist[r].created
      /\ \A r \in DOMAIN hist : hist[r].status = "running" => r \in DOMAIN hist'
  BY <1>1, <1>4, MarkSyncedSame
<1>7. deferred' \cap checking' = {}
  BY <1>4 DEF OInv, RowsKept
<1>8. QED
  BY <1>1, <1>4, <1>5, <1>6, <1>7, FlushedOrder

-----------------------------------------------------------------------------
(***************************************************************************)
(* What the server makes of a message.                                     *)
(***************************************************************************)
\* Every row of the table goes the way its run does.
Forward == \A r \in Runs : Leads(table[r].status, table'[r].status)

LEMMA HeadIndex ==
    ASSUME NEW S, NEW s \in Seq(S), s # <<>>
    PROVE  1 \in 1..Len(s) /\ s[1] = Head(s)
OBVIOUS

\* All else that is under way of a run comes after the message taken.
LEMMA TakenFirst ==
    ASSUME IInv, OInv, NEW c \in serverEnds, toServer[c] # <<>>, Head(toServer[c]) # Auth,
           NEW r \in Runs, Tells(Head(toServer[c]), r)
    PROVE  After(Taken(c), r, Told(Head(toServer[c]), r))
<1>1. toServer \in [Sockets -> Seq(Sendable(latest))] /\ serverEnds \subseteq Sockets
  BY QueueTypes
<1>2. \A d \in serverEnds : d >= c
  BY DEF OInv, SocketsKept
<1>3. /\ \A d \in Sockets : d # c => Taken(c)[d] = toServer[d]
      /\ Taken(c)[c] = Tail(toServer[c])
  BY <1>1 DEF Taken
<1>4. 1 \in 1..Len(toServer[c]) /\ toServer[c][1] = Head(toServer[c])
  BY <1>1, HeadIndex
<1> SUFFICES ASSUME NEW d \in Sockets, NEW i \in 1..Len(Taken(c)[d]), Tells(Taken(c)[d][i], r)
             PROVE  Leads(Told(Head(toServer[c]), r), Told(Taken(c)[d][i], r))
  BY DEF After
<1>5. CASE d = c
  <2>1. toServer[c] \in Seq(Sendable(latest))
    BY <1>1
  <2>2. i + 1 \in 1..Len(toServer[c]) /\ Taken(c)[d][i] = toServer[c][i + 1] /\ 1 < i + 1
    <3>1. i \in 1..Len(Tail(toServer[c]))
      BY <1>3, <1>5
    <3>2. i + 1 \in 1..Len(toServer[c]) /\ Tail(toServer[c])[i] = toServer[c][i + 1]
      BY <2>1, <3>1, TailIndex
    <3>3. i \in Nat /\ i >= 1
      BY <3>1
    <3>4. 1 < i + 1
      BY <3>3
    <3>5. Taken(c)[d][i] = Tail(toServer[c])[i]
      BY <1>3, <1>5
    <3>6. QED
      BY <3>2, <3>4, <3>5
  <2>3. QED
    BY <1>1, <1>4, <2>2 DEF OInv, OrderKept, Ordered
<1>6. CASE d # c
  <2>1. Taken(c)[d] = toServer[d]
    BY <1>3, <1>6
  <2>2. toServer[d] # <<>>
    BY <2>1
  <2>3. d \in serverEnds
    BY <2>2 DEF OInv, SocketsKept
  <2>4. c < d
    <3>1. c \in Nat /\ d \in Nat
      BY <1>1 DEF Sockets
    <3>2. QED
      BY <1>2, <1>6, <2>3, <3>1
  <2>5. QED
    BY <1>1, <1>4, <2>1, <2>4 DEF OInv, OrderKept, Ordered
<1>7. QED
  BY <1>5, <1>6

\* A final state that follows what was reported is reported once.
LEMMA ReportGrows ==
    ASSUME IInv, OInv, NEW r \in Runs, NEW s, Leads(table[r].status, s)
    PROVE  LET p == Reported(r, s)
           IN  /\ s \in Final => \E i \in 1..Len(p) : p[i] = s
               /\ \A i \in 1..Len(p) : Leads(p[i], s)
               /\ \A i, j \in 1..Len(p) : p[i] = p[j] => i = j
<1> DEFINE q == reports[r]
           t == table[r].status
<1>1. q \in Seq(Final)
  BY DEF IInv, Typed, ServerTyped
<1>2. /\ t \in Final => \E i \in 1..Len(q) : q[i] = t
      /\ \A i \in 1..Len(q) : Leads(q[i], t)
      /\ \A i, j \in 1..Len(q) : q[i] = q[j] => i = j
  BY DEF OInv, ReportsKept
<1>3. Leads(t, s)
  OBVIOUS
<1>4. /\ s \in Final /\ s # t => Reported(r, s) = Append(q, s)
      /\ ~(s \in Final /\ s # t) => Reported(r, s) = q
  BY DEF Reported
<1> HIDE DEF q, t
<1>5. CASE s \in Final /\ s # t
  <2>1. /\ Len(q) \in Nat /\ Len(Append(q, s)) = Len(q) + 1
        /\ Append(q, s)[Len(q) + 1] = s
        /\ \A i \in 1..Len(q) : Append(q, s)[i] = q[i]
    BY <1>1, <1>5
  <2>2. \A i \in 1..(Len(q) + 1) : i \in 1..Len(q) \/ i = Len(q) + 1
    BY <2>1
  <2>3. \A i \in 1..Len(q) : q[i] # s
    <3> SUFFICES ASSUME NEW i \in 1..Len(q), q[i] = s PROVE FALSE
      OBVIOUS
    <3>1. Leads(s, t)
      BY <1>2
    <3>2. QED
      BY <1>3, <1>5, <3>1, LeadsFinal
  <2>4. Len(q) + 1 \in 1..(Len(q) + 1)
    BY <2>1
  <2>5. \A i \in 1..(Len(q) + 1) : Leads(Append(q, s)[i], s)
    <3> TAKE i \in 1..(Len(q) + 1)
    <3>1. CASE i \in 1..Len(q)
      BY <1>2, <1>3, <2>1, <3>1, LeadsOn
    <3>2. CASE i = Len(q) + 1
      BY <2>1, <3>2 DEF Leads
    <3>3. QED
      BY <2>2, <3>1, <3>2
  <2>6. \A i, j \in 1..(Len(q) + 1) : Append(q, s)[i] = Append(q, s)[j] => i = j
    BY <1>2, <2>1, <2>2, <2>3
  <2>7. QED
    BY <1>4, <1>5, <2>1, <2>4, <2>5, <2>6
<1>6. CASE ~(s \in Final /\ s # t)
  <2>1. \A i \in 1..Len(q) : Leads(q[i], s)
    BY <1>2, <1>3, LeadsOn
  <2>2. s \in Final => \E i \in 1..Len(q) : q[i] = s
    BY <1>2, <1>6
  <2>3. QED
    BY <1>2, <1>4, <1>6, <2>1, <2>2
<1>7. QED
  BY <1>5, <1>6

\* The server takes a message and stores, for some of the runs it tells of,
\* what it tells.
LEMMA StoreOrder ==
    ASSUME IInv, OInv, NEW c \in serverEnds, toServer[c] # <<>>, Head(toServer[c]) # Auth,
           toServer' = Taken(c),
           UNCHANGED <<hist, clock, post, deferred, checking, latest, conn, opened, serverEnds>>,
           \A r \in Runs :
               \/ table'[r] = table[r] /\ reports'[r] = reports[r]
               \/ LET m == Head(toServer[c])
                  IN  /\ Tells(m, r)
                      /\ table'[r].status = Told(m, r) /\ reports'[r] = Reported(r, Told(m, r))
                      /\ \/ m.type = "STATUS_UPDATE" /\ table'[r].rev = table[r].rev
                         \/ /\ m.type = "SYNC_HISTORY" /\ r \in DOMAIN m.history
                            /\ table'[r].rev = m.history[r].rev
    PROVE  OInv' /\ Forward
<1> DEFINE m == Head(toServer[c])
           Stores(r) == /\ Tells(m, r)
                        /\ table'[r].status = Told(m, r) /\ reports'[r] = Reported(r, Told(m, r))
                        /\ \/ m.type = "STATUS_UPDATE" /\ table'[r].rev = table[r].rev
                           \/ /\ m.type = "SYNC_HISTORY" /\ r \in DOMAIN m.history
                              /\ table'[r].rev = m.history[r].rev
<1>1. \A r \in Runs : (table'[r] = table[r] /\ reports'[r] = reports[r]) \/ Stores(r)
  OBVIOUS
<1>2. /\ toServer \in [Sockets -> Seq(Sendable(latest))] /\ serverEnds \subseteq Sockets
      /\ c \in Sockets
  BY QueueTypes
<1>3. SocketsKept' /\ Shrunk(toServer, toServer')
  BY TakenKeepsSockets DEF OInv
<1>4. /\ Ordered(toServer) => Ordered(toServer')
      /\ \A r, s : Before(toServer, r, s) => Before(toServer', r, s)
      /\ \A r, s : After(toServer, r, s) => After(toServer', r, s)
      /\ \A r : Silent(toServer, r) => Silent(toServer', r)
      /\ \A h : Agreeing(toServer, h) => Agreeing(toServer', h)
  BY <1>2, <1>3, ShrunkKeeps
<1>5. 1 \in 1..Len(toServer[c]) /\ toServer[c][1] = m
  BY <1>2, HeadIndex
<1>6. \A r \in Runs : Tells(m, r) => After(toServer', r, Told(m, r))
  BY TakenFirst
<1>7. RowsKept'
  BY DEF OInv, RowsKept
<1> HIDE DEF m
<1>8. ASSUME NEW r \in Runs, Tells(m, r)
      PROVE  /\ Leads(table[r].status, Told(m, r)) /\ ~Silent(toServer, r)
             /\ \A s : Before(toServer, r, s) => Leads(Told(m, r), s)
  BY <1>2, <1>5, <1>8 DEF OInv, OrderKept, Before, After, Silent
<1>9. ASSUME NEW r \in Runs
      PROVE  /\ After(toServer', r, table'[r].status)
             /\ r \in DOMAIN hist => /\ Before(toServer', r, hist[r].status)
                                     /\ Leads(table'[r].status, hist[r].status)
             /\ r \in post => Before(toServer', r, "success") /\ Leads(table'[r].status, "success")
             /\ latest[r] = 0 => Silent(toServer', r) /\ table'[r].status = "none"
  <2>1. /\ After(toServer, r, table[r].status)
        /\ r \in DOMAIN hist => /\ Before(toServer, r, hist[r].status)
                                /\ Leads(table[r].status, hist[r].status)
        /\ r \in post => Before(toServer, r, "success") /\ Leads(table[r].status, "success")
        /\ latest[r] = 0 => Silent(toServer, r) /\ table[r].status = "none"
    BY DEF OInv, OrderKept
  <2>2. CASE table'[r] = table[r]
    BY <1>4, <2>1, <2>2
  <2>3. CASE Stores(r)
    BY <1>4, <1>6, <1>8, <2>1, <2>3
  <2>4. QED
    BY <1>1, <2>2, <2>3
<1>10. OrderKept'
  BY <1>4, <1>9 DEF OInv, OrderKept
<1>11. ASSUME NEW r \in DOMAIN hist, table'[r].rev = hist[r].rev
       PROVE  table'[r].status = hist[r].status
  <2>1. r \in Runs /\ Before(toServer, r, hist[r].status) /\ After(toServer, r, table[r].status)
    BY QueueTypes DEF OInv, OrderKept
  <2>2. CASE table'[r] = table[r]
    BY <1>11, <2>2 DEF OInv, RevisionKept
  <2>3. CASE Stores(r) /\ table'[r].rev = table[r].rev /\ m.type = "STATUS_UPDATE"
    <3>1. table[r].status = hist[r].status
      BY <1>11, <2>3 DEF OInv, RevisionKept
    <3>2. Leads(Told(m, r), hist[r].status) /\ Leads(hist[r].status, Told(m, r))
      BY <1>8, <2>1, <2>3, <3>1
    <3>3. Told(m, r) \in Final
      <4>1. toServer[c] \in Seq(Sendable(latest))
        BY <1>2
      <4>2. m \in Sendable(latest)
        BY <1>5, <4>1
      <4>3. QED
        BY <2>3, <4>2 DEF Sendable, Auth, Told, Final
    <3>4. QED
      BY <2>3, <3>2, <3>3, LeadsFinal
  <2>4. CASE Stores(r) /\ m.type = "SYNC_HISTORY"
    <3>1. m.type # "STATUS_UPDATE"
      BY <2>4
    <3>2. r \in DOMAIN m.history /\ table'[r].rev = m.history[r].rev /\ Told(m, r) = m.history[r].status
      BY <2>4, <3>1 DEF Told
    <3>3. m.history[r].status = hist[r].status
      BY <1>2, <1>5, <1>11, <2>4, <3>2 DEF OInv, RevisionKept, Agreeing
    <3>4. QED
      BY <2>4, <3>2, <3>3
  <2>5. QED
    BY <1>1, <2>1, <2>2, <2>3, <2>4 DEF Tells
<1>12. RevisionKept'
  BY <1>4, <1>11 DEF OInv, RevisionKept
<1>13. ReportsKept'
  <2> SUFFICES ASSUME NEW r \in Runs
               PROVE  LET p == reports'[r]
                          s == table'[r].status
                      IN  /\ s \in Final => \E i \in 1..Len(p) : p[i] = s
                          /\ \A i \in 1..Len(p) : Leads(p[i], s)
                          /\ \A i, j \in 1..Len(p) : p[i] = p[j] => i = j
    BY DEF ReportsKept
  <2>1. CASE table'[r] = table[r] /\ reports'[r] = reports[r]
    BY <2>1 DEF OInv, ReportsKept
  <2>2. CASE Stores(r)
    BY <1>8, <2>2, ReportGrows
  <2>3. QED
    BY <1>1, <2>1, <2>2
<1>14. Forward
  <2> SUFFICES ASSUME NEW r \in Runs PROVE Leads(table[r].status, table'[r].status)
    BY DEF Forward
  <2>1. CASE table'[r] = table[r]
    BY <2>1 DEF Leads
  <2>2. CASE Stores(r)
    BY <1>8, <2>2
  <2>3. QED
    BY <1>1, <2>1, <2>2
<1>15. QED
  BY <1>3, <1>7, <1>10, <1>12, <1>13, <1>14 DEF OInv

LEMMA StatusUpdateOrder ==
    ASSUME IInv, OInv, NEW c \in Sockets, NEW stored \in BOOLEAN, HandleStatusUpdate(c, stored)
    PROVE  OInv' /\ Forward
<1> DEFINE m == Head(toServer[c])
<1>1. /\ toServer \in [Sockets -> Seq(Sendable(latest))]
      /\ table \in [Runs -> TableRow] /\ reports \in [Runs -> Seq(Final)]
  BY DEF IInv, Typed, SocketsTyped, ServerTyped
<1>2. /\ c \in serverEnds /\ toServer[c] # <<>> /\ m.type = "STATUS_UPDATE"
      /\ toServer' = Taken(c)
      /\ UNCHANGED <<hist, clock, post, deferred, checking, latest, conn, opened, serverEnds>>
  BY DEF HandleStatusUpdate, Arrives, agentVars, runVars, sockets
<1>3. m \in Sendable(latest)
  BY <1>1, <1>2, HeadTyped
<1>4. m # Auth /\ m.id \in Runs
  BY <1>2, <1>3 DEF Sendable, Auth
<1>5. \A r : Told(m, r) = m.status /\ (Tells(m, r) <=> m.id = r)
  BY <1>2 DEF Told, Tells
<1>6. CASE stored
  <2>1. /\ table' = [table EXCEPT ![m.id].status = m.status]
        /\ reports' = [reports EXCEPT ![m.id] = Reported(m.id, m.status)]
    BY <1>6 DEF HandleStatusUpdate
  <2> HIDE DEF m
  <2>2. /\ \A r \in Runs : r # m.id => table'[r] = table[r] /\ reports'[r] = reports[r]
        /\ reports'[m.id] = Reported(m.id, m.status)
    BY <1>1, <1>4, <2>1
  <2>3. table'[m.id].status = m.status /\ table'[m.id].rev = table[m.id].rev
    <3>1. table[m.id] \in TableRow
      BY <1>1, <1>4
    <3>2. table'[m.id] = [table[m.id] EXCEPT !.status = m.status]
      BY <1>1, <1>4, <2>1
    <3>3. QED
      BY <3>1, <3>2 DEF TableRow
  <2>4. \A r \in Runs :
            \/ table'[r] = table[r] /\ reports'[r] = reports[r]
            \/ /\ Tells(m, r)
               /\ table'[r].status = Told(m, r) /\ reports'[r] = Reported(r, Told(m, r))
               /\ m.type = "STATUS_UPDATE" /\ table'[r].rev = table[r].rev
    BY <1>2, <1>5, <2>2, <2>3
  <2>5. QED
    BY <1>2, <1>4, <2>4, StoreOrder DEF m
<1>7. CASE ~stored
  <2>1. table' = table /\ reports' = reports
    BY <1>7 DEF HandleStatusUpdate
  <2>2. QED
    BY <1>2, <1>4, <2>1, StoreOrder
<1>8. QED
  BY <1>6, <1>7

LEMMA SyncHistoryOrder ==
    ASSUME IInv, OInv, NEW c \in Sockets, NEW stored \in BOOLEAN, HandleSyncHistory(c, stored)
    PROVE  OInv' /\ Forward
<1> DEFINE m == Head(toServer[c])
           b == m.history
<1>1. /\ c \in serverEnds /\ toServer[c] # <<>> /\ m.type = "SYNC_HISTORY"
      /\ toServer' = Taken(c)
      /\ UNCHANGED <<hist, clock, post, deferred, checking, latest, conn, opened, serverEnds>>
  BY DEF HandleSyncHistory, Arrives, agentVars, runVars, sockets
<1>2. m # Auth
  BY <1>1 DEF Auth
<1>3. DOMAIN b \subseteq Runs
  BY <1>1, TakenBatch, PerRunDef DEF HandleSyncHistory, Batches
<1>4. \A r \in DOMAIN b : Tells(m, r) /\ Told(m, r) = b[r].status
  BY <1>1 DEF Told, Tells
<1>5. CASE stored
  <2>1. StoreBatch(b)
    BY <1>5 DEF HandleSyncHistory
  <2> HIDE DEF b
  <2>2. ASSUME NEW r \in Runs
        PROVE  \/ table'[r] = table[r] /\ reports'[r] = reports[r]
               \/ /\ Tells(m, r)
                  /\ table'[r].status = Told(m, r) /\ reports'[r] = Reported(r, Told(m, r))
                  /\ m.type = "SYNC_HISTORY" /\ r \in DOMAIN b /\ table'[r].rev = b[r].rev
    <3>1. CASE r \in DOMAIN b \ Malformed /\ Applies(b, r)
      <4>1. table'[r] = [status |-> b[r].status, rev |-> b[r].rev]
        BY <2>1, <3>1 DEF StoreBatch
      <4>2. reports'[r] = Reported(r, b[r].status)
        BY <2>1, <3>1 DEF StoreBatch
      <4>3. table'[r].status = b[r].status /\ table'[r].rev = b[r].rev
        BY <4>1
      <4>4. QED
        BY <1>1, <1>4, <3>1, <4>2, <4>3
    <3>2. CASE ~(r \in DOMAIN b \ Malformed /\ Applies(b, r))
      BY <2>1, <3>2 DEF StoreBatch
    <3>3. QED
      BY <3>1, <3>2
  <2>3. QED
    BY <1>1, <1>2, <2>2, StoreOrder DEF b
<1>6. CASE ~stored
  <2>1. table' = table /\ reports' = reports
    BY <1>6 DEF HandleSyncHistory
  <2>2. QED
    BY <1>1, <1>2, <2>1, StoreOrder
<1>7. QED
  BY <1>5, <1>6

-----------------------------------------------------------------------------
(***************************************************************************)
(* A restart of the agent.                                                 *)
(***************************************************************************)
LEMMA RestartOrder ==
    ASSUME IInv, OInv, NEW held, NEW found, Restart(held, found)
    PROVE  OInv'
<1> DEFINE stale == {r \in DOMAIN hist : hist[r].status = "running"} \ held
           end(r) == IF r \in found THEN "success" ELSE "abort"
           loaded == DOMAIN Prune(hist)
<1>1. /\ hist \in PerRun(Row) /\ DOMAIN hist \subseteq Runs /\ latest \in [Runs -> Nat]
      /\ loaded \subseteq DOMAIN hist
  BY PruneKeeps, QueueTypes
<1>2. \A r \in DOMAIN hist : /\ hist[r] \in Row /\ hist[r].rev = latest[r]
                             /\ hist[r].created <= clock
  BY QueueTypes DEF OInv, RowsKept
<1>3. /\ hist' = [r \in loaded |-> IF r \notin stale THEN hist[r]
                                   ELSE Revised(hist[r], end(r), hist[r].started)]
      /\ latest' = [r \in Runs |-> IF r \in stale /\ hist[r].rev = latest[r]
                                   THEN latest[r] + 1 ELSE latest[r]]
      /\ UNCHANGED <<table, reports, toServer, clock, opened, serverEnds>>
      /\ post' = {} /\ deferred' = held /\ checking' = {} /\ conn' = NoSocket
  <2>1. \A r \in loaded : r \in DOMAIN hist
    BY <1>1
  <2>2. QED
    BY <2>1 DEF Restart, serverVars
<1>4. \A r \in held : r \in DOMAIN hist /\ hist[r].status = "running"
  BY DEF Restart, Interrupted
<1>5. \A r \in DOMAIN hist : hist[r].status = "running" => r \in loaded
  BY PruneKeepsActive DEF Active
<1>6. \A r : Leads("running", end(r))
  BY DEF Leads, Final, Terminal
<1>7. \A r \in stale : r \in DOMAIN hist /\ hist[r].status = "running" /\ r \notin held
  OBVIOUS
<1> HIDE DEF stale, end, loaded
<1>8. ASSUME NEW r \in loaded
      PROVE  /\ r \in stale => /\ hist'[r].rev = latest[r] + 1 /\ hist'[r].status = end(r)
                               /\ hist'[r].created = hist[r].created
                               /\ latest'[r] = latest[r] + 1
             /\ r \notin stale => hist'[r] = hist[r] /\ latest'[r] = latest[r]
  <2>1. r \in DOMAIN hist /\ r \in Runs /\ hist[r] \in Row
    BY <1>1, <1>2
  <2>2. CASE r \in stale
    <3>1. hist'[r] = Revised(hist[r], end(r), hist[r].started) /\ latest'[r] = latest[r] + 1
      BY <1>2, <1>3, <2>1, <2>2
    <3>2. /\ hist'[r].rev = hist[r].rev + 1 /\ hist'[r].status = end(r)
          /\ hist'[r].created = hist[r].created
      BY <2>1, <3>1 DEF Revised, Row
    <3>3. QED
      BY <1>2, <2>1, <2>2, <3>1, <3>2
  <2>3. CASE r \notin stale
    BY <1>3, <2>1, <2>3
  <2>4. QED
    BY <2>2, <2>3
<1>9. DOMAIN hist' = loaded
  BY <1>3
<1>10. \A r \in Runs : latest[r] \in Nat /\ (latest'[r] = 0 => latest[r] = 0)
  <2> TAKE r \in Runs
  <2>1. latest[r] \in Nat /\ (latest'[r] = latest[r] \/ latest'[r] = latest[r] + 1)
    BY <1>1, <1>3
  <2>2. QED
    BY <2>1
<1>11. RowsKept'
  <2>1. \A r \in loaded : hist'[r].rev = latest'[r] /\ hist'[r].created <= clock
    BY <1>1, <1>2, <1>8
  <2>2. \A r \in held : r \in loaded /\ hist'[r].status = "running"
    BY <1>4, <1>5, <1>7, <1>8
  <2>3. QED
    BY <1>3, <1>9, <2>1, <2>2 DEF RowsKept
<1>12. ASSUME NEW r \in loaded
       PROVE  Before(toServer, r, hist'[r].status) /\ Leads(table[r].status, hist'[r].status)
  <2>1. Before(toServer, r, hist[r].status) /\ Leads(table[r].status, hist[r].status)
    BY <1>1 DEF OInv, OrderKept
  <2>2. CASE r \in stale
    <3>1. hist[r].status = "running" /\ hist'[r].status = end(r) /\ Leads("running", end(r))
      BY <1>6, <1>7, <1>8, <2>2
    <3>2. Before(toServer, r, end(r))
      BY <2>1, <3>1, LeadsOn DEF Before
    <3>3. Leads(table[r].status, end(r))
      BY <2>1, <3>1, LeadsOn
    <3>4. QED
      BY <3>1, <3>2, <3>3
  <2>3. CASE r \notin stale
    BY <1>8, <2>1, <2>3
  <2>4. QED
    BY <2>2, <2>3
<1>13. OrderKept'
  BY <1>3, <1>9, <1>10, <1>12 DEF OInv, OrderKept
<1>14. Agreeing(toServer, hist')
  <2> SUFFICES ASSUME NEW c \in Sockets, NEW i \in 1..Len(toServer[c]), NEW r \in loaded,
                      toServer[c][i].type = "SYNC_HISTORY", r \in DOMAIN toServer[c][i].history,
                      toServer[c][i].history[r].rev = hist'[r].rev
               PROVE  toServer[c][i].history[r].status = hist'[r].status
    BY <1>9 DEF Agreeing
  <2>1. CASE r \in stale
    <3>1. /\ toServer[c][i].history[r].rev \in Nat /\ latest[r] \in Nat
          /\ toServer[c][i].history[r].rev <= latest[r]
      BY <1>1, <1>10, QueuedBatch
    <3>2. QED
      BY <1>8, <2>1, <3>1
  <2>2. CASE r \notin stale
    BY <1>1, <1>8, <2>2 DEF OInv, RevisionKept, Agreeing
  <2>3. QED
    BY <2>1, <2>2
<1>15. \A r \in loaded : table[r].rev = hist'[r].rev => table[r].status = hist'[r].status
  <2> TAKE r \in loaded
  <2>1. CASE r \in stale
    <3>1. table[r].rev \in Nat /\ latest[r] \in Nat /\ table[r].rev <= latest[r]
      BY <1>1, Numbers DEF IInv, TableBound
    <3>2. QED
      BY <1>8, <2>1, <3>1
  <2>2. CASE r \notin stale
    BY <1>1, <1>8, <2>2 DEF OInv, RevisionKept
  <2>3. QED
    BY <2>1, <2>2
<1>16. RevisionKept'
  BY <1>3, <1>9, <1>14, <1>15 DEF RevisionKept
<1>17. SocketsKept' /\ ReportsKept'
  BY <1>3 DEF OInv, SocketsKept, ReportsKept
<1>18. QED
  BY <1>11, <1>13, <1>16, <1>17 DEF OInv

-----------------------------------------------------------------------------
(***************************************************************************)
(* The theorems.                                                           *)
(***************************************************************************)
LEMMA InitOrder ==
    ASSUME Init
    PROVE  OInv
<1>1. /\ DOMAIN hist = {} /\ post = {} /\ deferred = {} /\ checking = {}
      /\ conn = NoSocket /\ serverEnds = {}
      /\ \A c \in Sockets : toServer[c] = <<>>
      /\ \A r \in Runs : table[r].status = "none" /\ reports[r] = <<>>
  BY DEF Init, NoRow
<1>2. \A c \in Sockets : 1..Len(toServer[c]) = {}
  BY <1>1
<1>3. RowsKept
  BY <1>1 DEF RowsKept
<1>4. OrderKept
  BY <1>1, <1>2 DEF OrderKept, Ordered, After, Silent
<1>5. RevisionKept
  BY <1>1 DEF RevisionKept, Agreeing
<1>6. SocketsKept
  BY <1>1 DEF SocketsKept
<1>7. \A r \in Runs : 1..Len(reports[r]) = {} /\ table[r].status \notin Final
  BY <1>1 DEF Final, Terminal
<1>8. ReportsKept
  BY <1>7 DEF ReportsKept
<1>9. QED
  BY <1>3, <1>4, <1>5, <1>6, <1>8 DEF OInv

LEMMA NextOrder ==
    ASSUME IInv, OInv, Sound, [Next]_vars
    PROVE  OInv' /\ Forward
<1>1. table' = table => Forward
  BY DEF Forward, Leads
<1>2. CASE RunStep
  <2>1. table' = table
    BY <1>2 DEF RunStep, Enqueue, Start, FailBeforeStart, Name, AbortQueued, RecordUnstarted,
                Reinsert, Finish, SettleDeferred, PostScript, agentRest, serverVars
  <2>2. QED
    BY <1>1, <1>2, <2>1, RunStepOrder
<1>3. CASE SocketStep
  <2>1. table' = table
    BY <1>3 DEF SocketStep, Open, AgentClose, ServerClose, serverVars
  <2>2. QED
    BY <1>1, <1>3, <2>1, SocketStepOrder
<1>4. CASE Timer
  BY <1>1, <1>4, TimerOrder DEF Timer, serverVars
<1>5. CASE RestartStep
  <2>1. PICK held, found \in SUBSET Runs : Restart(held, found)
    BY <1>5 DEF RestartStep
  <2>2. table' = table
    BY <2>1 DEF Restart, serverVars
  <2>3. QED
    BY <1>1, <2>1, <2>2, RestartOrder
<1>6. CASE MessageStep
  <2>1. PICK c \in Sockets : ServerHandles(c) \/ AgentHandles(c)
    BY <1>6 DEF MessageStep
  <2>2. CASE HandleAuth(c)
    BY <1>1, <2>2, AuthOrder DEF HandleAuth
  <2>3. ASSUME NEW stored \in BOOLEAN, HandleStatusUpdate(c, stored)
        PROVE  OInv' /\ Forward
    BY <2>3, StatusUpdateOrder
  <2>4. ASSUME NEW stored \in BOOLEAN, HandleSyncHistory(c, stored)
        PROVE  OInv' /\ Forward
    BY <2>4, SyncHistoryOrder
  <2>5. CASE HandleAuthSuccess(c)
    BY <1>1, <2>5, AuthSuccessOrder DEF HandleAuthSuccess, serverVars
  <2>6. ASSUME NEW stored \in SUBSET Runs, HandleHistoryAck(c, stored)
        PROVE  OInv' /\ Forward
    <3>1. table' = table
      BY <2>6 DEF HandleHistoryAck, serverVars
    <3>2. QED
      BY <1>1, <2>6, <3>1, HistoryAckOrder
  <2>7. QED
    BY <2>1, <2>2, <2>3, <2>4, <2>5, <2>6 DEF ServerHandles, AgentHandles
<1>7. CASE UNCHANGED vars
  <2>1. UNCHANGED <<hist, clock, post, deferred, checking, latest, conn, opened, serverEnds,
                    toServer, table, reports>>
    BY <1>7 DEF vars, agentVars, runVars, sockets, serverVars
  <2>2. /\ Shrunk(toServer, toServer') /\ SocketsKept'
        /\ deferred' \cap checking' = {}
    BY <2>1 DEF Shrunk, OInv, SocketsKept, RowsKept
  <2>3. QED
    BY <1>1, <2>1, <2>2, QuietOrder
<1>8. QED
  BY <1>2, <1>3, <1>4, <1>5, <1>6, <1>7 DEF Next

LEMMA OrderInductive ==
    ASSUME Sound
    PROVE  Spec => [](IInv /\ OInv)
<1>1. Init => IInv /\ OInv
  BY InitEstablishes, InitOrder
<1>2. IInv /\ OInv /\ [Next]_vars => (IInv /\ OInv)'
  BY NextKeeps, NextOrder
<1>3. QED
  BY <1>1, <1>2, PTL DEF Spec

\* What is acknowledged is in the table, and the table has no more than the last.
LEMMA AgreeNow == IInv /\ OInv => AckedRunAgrees
<1> SUFFICES ASSUME IInv, OInv, NEW r \in DOMAIN hist \ Malformed, ~IsUnsynced(hist[r])
             PROVE  table[r].status = hist[r].status
  BY DEF AckedRunAgrees
<1>1. /\ r \in Runs
      /\ hist[r].rev \in Nat /\ hist[r].synced \in Nat /\ table[r].rev \in Nat
      /\ hist[r].synced <= table[r].rev /\ table[r].rev <= hist[r].rev
  BY Numbers DEF IInv, AckedRevisionStored, TableBound, OInv, RowsKept
<1>2. table[r].rev = hist[r].rev
  BY <1>1 DEF IsUnsynced
<1>3. QED
  BY <1>2 DEF OInv, RevisionKept

\* A run whose last revision is acknowledged has the same status on both sides,
\* although live updates overwrite the server's without a revision (upsertStatus).
THEOREM RunsAgree ==
    ASSUME Sound
    PROVE  Spec => []AckedRunAgrees
BY AgreeNow, OrderInductive, PTL

\* A final state the agent no longer offers was handed to the webhooks, and no
\* state of a run twice: by the live update, the batch or a retry of it.
THEOREM EndsAreReported ==
    ASSUME Sound
    PROVE  Spec => []EndReportedOnce
<1>1. IInv /\ OInv => EndReportedOnce
  <2> SUFFICES ASSUME IInv, OInv PROVE EndReportedOnce
    OBVIOUS
  <2>1. AckedRunAgrees /\ DOMAIN hist \subseteq Runs
    BY AgreeNow, Numbers
  <2>2. AckedRunReported
    BY <2>1 DEF AckedRunReported, AckedRunAgrees, OInv, ReportsKept
  <2>3. ReportedOnce
    BY DEF ReportedOnce, OInv, ReportsKept
  <2>4. QED
    BY <2>2, <2>3 DEF EndReportedOnce
<1>2. QED
  BY <1>1, OrderInductive, PTL

\* A run that ended does not start again in the server's table, whatever order
\* live updates, batches and retries come in over the sockets there were.
THEOREM EndsStay ==
    ASSUME Sound
    PROVE  Spec => EndedStaysEnded
<1>1. IInv /\ OInv /\ [Next]_vars =>
         [\A r \in Runs : table[r].status \in Final => table'[r].status \in Final]_vars
  BY NextOrder, LeadsFinal DEF Forward
<1>2. QED
  BY <1>1, OrderInductive, PTL DEF Spec, EndedStaysEnded

-----------------------------------------------------------------------------
(***************************************************************************)
(* The tunnel of a client: the inductive invariant.  What was reported     *)
(* cannot be taken back, so a row, and a request to store one, may pin     *)
(* what was.  A request is about the host that is shown, and only a new    *)
(* row needs to be seen to work: an existing one is proved for good.       *)
(***************************************************************************)
HostKeys == Hosts \X Nat
Keys == {Card!Nothing, Plain, Locked}
TunnelRows == [host : Hosts, key : Keys, pass : Card!Passphrases, pin : shown]
Unpinned == [host : Hosts, key : Keys, pass : Card!Passphrases, pin : {Card!NoKey}]
Edits == [host : Hosts, key : Keys, pass : Card!Passphrases] \cup [host : Hosts]
None(S) == {<<>>} \cup {<<x>> : x \in S}

RowHolds == /\ row \in None(TunnelRows) /\ (row # <<>> => proved)
            /\ entry \in None([up : BOOLEAN, creds : TunnelRows])
            /\ entry # <<>> => row = <<entry[1].creds>>
HostsHold == shown \subseteq HostKeys /\ installed \in [Hosts -> Nat]

DraftHolds ==
  draft \in [host : Hosts \cup {Card!Nothing}, mode : Card!KeyModes, key : Keys, pass : Card!Passphrases]
SaysTrue(f) ==
  /\ f = [says |-> f.says, of |-> f.of, unknown |-> f.unknown]
  /\ f.of # Card!Nothing => f.of = draft.host
  /\ f.unknown # Card!NoKey => f.unknown \in shown /\ f.unknown[1] = draft.host

\* What the card waits for is about the host it shows.
CallFits(c) ==
  /\ c = [op |-> c.op, creds |-> c.creds, told |-> c.told, touched |-> c.touched]
  /\ c.op \in {"test", "measure", "create", "save"}
  /\ c.creds.host = draft.host /\ draft.host \in Hosts
  /\ c.op = "measure" => c.creds \in Unpinned
  /\ c.op = "create" => c.creds \in TunnelRows
  /\ c.op = "save" => c.creds \in Edits
CallHolds == call # <<>> => open /\ call = <<call[1]>> /\ CallFits(call[1])

CardInv == RowHolds /\ HostsHold /\ DraftHolds /\ SaysTrue(feedback) /\ CallHolds

-----------------------------------------------------------------------------
(* What a test says.                                                       *)
LEMMA TestSays ==
  ASSUME CardAssumption, HostsHold, NEW c, c.host \in Hosts, NEW outcome, NEW r,
         r = Card!TestConnection(c, outcome), Card!Note(r)
  PROVE  /\ shown \subseteq shown' /\ shown' \subseteq HostKeys
         /\ r.hostKey # Card!NoKey => r.hostKey \in shown' /\ r.hostKey[1] = c.host
         /\ r.ok => r.hostKey # Card!NoKey /\ (c.pin = Card!NoKey \/ c.pin = r.hostKey)
<1>1. Card!Presented(c.host) \in HostKeys /\ Card!Presented(c.host)[1] = c.host
  BY DEF HostsHold, HostKeys, Card!Presented
<1>2. Card!NoKey \notin HostKeys
  BY DEF CardAssumption, HostKeys, Card!NoKey, Card!Nothing
<1> DEFINE p == Card!Presented(c.host)
           ok == outcome = "accepted" /\ Card!Usable(c)
                 /\ (c.pin = Card!NoKey \/ c.pin = IF outcome = "unreachable" THEN Card!NoKey ELSE p)
<1>3. r = [hostKey |-> IF outcome = "unreachable" THEN Card!NoKey ELSE p, ok |-> ok]
  BY Zenon DEF Card!TestConnection
<1> HIDE DEF ok
<1>4. r.hostKey = (IF outcome = "unreachable" THEN Card!NoKey ELSE p) /\ r.ok = ok
  BY <1>3
<1>5. shown' = shown \cup ({r.hostKey} \ {Card!NoKey})
  BY DEF Card!Note
<1>6. r.ok => outcome = "accepted" /\ (c.pin = Card!NoKey \/ c.pin = p)
  BY <1>4 DEF ok
<1> HIDE DEF p
<1>7. QED
  BY <1>1, <1>2, <1>4, <1>5, <1>6 DEF HostsHold, p

\* What the card says, and that a request that changes nothing keeps all.
LEMMA Feedbacks ==
  ASSUME NEW w, NEW h, NEW k
  PROVE  /\ Card!Silent = [says |-> Card!Nothing, of |-> Card!Nothing, unknown |-> Card!NoKey]
         /\ [Card!Silent EXCEPT !.says = w, !.of = h] = [says |-> w, of |-> h, unknown |-> Card!NoKey]
         /\ [Card!Silent EXCEPT !.says = w, !.unknown = k] = [says |-> w, of |-> Card!Nothing, unknown |-> k]
<1> DEFINE f1 == [Card!Silent EXCEPT !.says = w]
           f2 == [f1 EXCEPT !.of = h]
           f3 == [f1 EXCEPT !.unknown = k]
<1>1. f1 = [says |-> w, of |-> Card!Nothing, unknown |-> Card!NoKey]
  BY DEF Card!Silent
<1>2. f2 = [says |-> w, of |-> h, unknown |-> Card!NoKey]
      /\ f3 = [says |-> w, of |-> Card!Nothing, unknown |-> k]
  <2> HIDE DEF f1
  <2>1. QED
    BY <1>1
<1>3. /\ [Card!Silent EXCEPT !.says = w, !.of = h] = f2
      /\ [Card!Silent EXCEPT !.says = w, !.unknown = k] = f3
  BY Zenon
<1> HIDE DEF f2, f3
<1>4. QED
  BY <1>2, <1>3 DEF Card!Silent

LEMMA SaysNothing ==
  ASSUME feedback' = Card!Silent
  PROVE  SaysTrue(feedback)'
<1> DEFINE f == [says |-> Card!Nothing, of |-> Card!Nothing, unknown |-> Card!NoKey]
<1>1. f.says = Card!Nothing /\ f.of = Card!Nothing /\ f.unknown = Card!NoKey
      /\ f = [says |-> f.says, of |-> f.of, unknown |-> f.unknown]
  OBVIOUS
<1>2. feedback' = f
  BY Feedbacks
<1> HIDE DEF f
<1>3. QED
  BY <1>1, <1>2 DEF SaysTrue

LEMMA SaysOf ==
  ASSUME NEW w, NEW h, h # Card!Nothing => h = draft'.host, Card!Says(w, h)
  PROVE  SaysTrue(feedback)'
<1> DEFINE f == [says |-> w, of |-> h, unknown |-> Card!NoKey]
<1>1. f.of = h /\ f.unknown = Card!NoKey
      /\ f = [says |-> f.says, of |-> f.of, unknown |-> f.unknown]
  OBVIOUS
<1>2. feedback' = f
  BY Feedbacks DEF Card!Says
<1> HIDE DEF f
<1>3. QED
  BY <1>1, <1>2 DEF SaysTrue

LEMMA CardSame ==
  ASSUME CardInv, shown \subseteq shown', shown' \subseteq HostKeys
  PROVE  /\ TunnelRows \subseteq TunnelRows'
         /\ UNCHANGED <<row, proved, entry>> => RowHolds'
         /\ UNCHANGED installed => HostsHold'
         /\ UNCHANGED draft => DraftHolds'
         /\ draft'.host = draft.host /\ UNCHANGED feedback => SaysTrue(feedback)'
         /\ draft'.host = draft.host /\ UNCHANGED <<open, call>> => CallHolds'
         /\ call' = <<>> => CallHolds'
<1>1. TunnelRows \subseteq TunnelRows'
  BY DEF TunnelRows
<1>2. UNCHANGED <<row, proved, entry>> => RowHolds'
  BY <1>1 DEF CardInv, RowHolds, None
<1>3. UNCHANGED installed => HostsHold'
  BY DEF CardInv, HostsHold
<1>4. draft'.host = draft.host /\ UNCHANGED feedback => SaysTrue(feedback)'
  BY DEF CardInv, SaysTrue
<1>5. draft'.host = draft.host /\ UNCHANGED <<open, call>> => CallHolds'
  BY <1>1 DEF CardInv, CallHolds, CallFits
<1>6. QED
  BY <1>1, <1>2, <1>3, <1>4, <1>5 DEF CardInv, DraftHolds, CallHolds

-----------------------------------------------------------------------------
(***************************************************************************)
(* The steps.  First, what is typed.                                       *)
(***************************************************************************)
LEMMA TypingKeeps ==
  ASSUME CardInv,
         (\E h \in Hosts : Card!TypeHost(h)) \/ (\E m \in Card!KeyModes : Card!ChooseKey(m))
         \/ (\E p \in Card!Passphrases : Card!TypeKey(p)) \/ Card!Generate \/ Card!Generated
         \/ Card!Open \/ Card!Close \/ Card!Refetch
  PROVE  CardInv'
<1>1. UNCHANGED <<row, proved, entry, installed, shown>>
  BY DEF Card!TypeHost, Card!ChooseKey, Card!TypeKey, Card!Generate, Card!Generated, Card!Open,
         Card!Close, Card!Refetch, Card!serverVars
<1>2. shown \subseteq shown' /\ shown' \subseteq HostKeys
  BY <1>1 DEF CardInv, HostsHold
<1>3. RowHolds' /\ HostsHold'
  BY <1>1, <1>2, CardSame
<1>4. /\ draft \in [host : Hosts \cup {Card!Nothing}, mode : Card!KeyModes, key : Keys, pass : Card!Passphrases]
      /\ Card!Nothing \in Keys /\ Plain \in Keys /\ Locked \in Keys /\ Card!Nothing \in Card!Passphrases
  BY DEF CardInv, DraftHolds, Keys, Card!Passphrases
<1>5. CASE \E h \in Hosts : Card!TypeHost(h)
  <2>1. PICK h \in Hosts : Card!TypeHost(h)
    BY <1>5
  <2>2. call = <<>> /\ call' = <<>> /\ draft' = [draft EXCEPT !.host = h] /\ feedback' = Card!Silent
    BY <2>1 DEF Card!TypeHost
  <2>3. DraftHolds'
    BY <2>2, <1>4 DEF DraftHolds
  <2>4. SaysTrue(feedback)'
    BY <2>2, SaysNothing
  <2>5. QED
    BY <2>2, <2>3, <2>4, <1>2, <1>3, CardSame DEF CardInv
<1>6. CASE (\E m \in Card!KeyModes : Card!ChooseKey(m)) \/ (\E p \in Card!Passphrases : Card!TypeKey(p))
           \/ Card!Generated
  <2>1. Card!Touched /\ open' = open /\ feedback' \in {feedback, Card!Silent}
    BY <1>6 DEF Card!ChooseKey, Card!TypeKey, Card!Generated
  <2>2. draft' \in [host : {draft.host}, mode : Card!KeyModes, key : Keys, pass : Card!Passphrases]
    <3>1. CASE \E m \in Card!KeyModes : Card!ChooseKey(m)
      BY <3>1, <1>4 DEF Card!ChooseKey
    <3>2. CASE \E p \in Card!Passphrases : Card!TypeKey(p)
      BY <3>2, <1>4 DEF Card!TypeKey
    <3>3. CASE Card!Generated
      BY <3>3, <1>4 DEF Card!Generated
    <3>4. QED
      BY <1>6, <3>1, <3>2, <3>3
  <2>3. DraftHolds' /\ draft'.host = draft.host
    BY <2>2, <1>4 DEF DraftHolds
  <2>4. SaysTrue(feedback)'
    <3>1. CASE feedback' = feedback
      BY <2>3, <3>1, <1>2, CardSame
    <3>2. CASE feedback' = Card!Silent
      BY <3>2, SaysNothing
    <3>3. QED
      BY <2>1, <3>1, <3>2
  <2>5. CallHolds'
    <3>1. CASE call' = call
      BY <2>1, <2>3, <3>1, <1>2, CardSame
    <3>2. CASE call' # call
      <4>1. call # <<>> /\ call' = <<[call[1] EXCEPT !.touched = TRUE]>>
        BY <2>1, <3>2 DEF Card!Touched
      <4>2. open /\ CallFits(call[1])
        BY <4>1 DEF CardInv, CallHolds
      <4>3. PICK c : c = call[1]
        OBVIOUS
      <4>4. PICK t : t = TRUE
        OBVIOUS
      <4>5. PICK d : d = [c EXCEPT !.touched = t]
        OBVIOUS
      <4>6. c = [op |-> c.op, creds |-> c.creds, told |-> c.told, touched |-> c.touched] /\ CallFits(c)
        BY <4>2, <4>3 DEF CallFits
      <4>7. d = [op |-> c.op, creds |-> c.creds, told |-> c.told, touched |-> t]
        BY <4>5, <4>6
      <4>8. d.op = c.op /\ d.creds = c.creds
            /\ d = [op |-> d.op, creds |-> d.creds, told |-> d.told, touched |-> d.touched]
        BY <4>7
      <4>9. TunnelRows \subseteq TunnelRows' /\ Unpinned' = Unpinned /\ Edits' = Edits
        BY <1>2, CardSame DEF Unpinned, Edits
      <4>10. CallFits(d)'
        BY <4>6, <4>8, <4>9, <2>3 DEF CallFits
      <4>11. call' = <<d>> /\ open'
        BY <4>1, <4>2, <4>3, <4>4, <4>5, <2>1
      <4>12. QED
        BY <4>10, <4>11 DEF CallHolds
    <3>3. QED
      BY <3>1, <3>2
  <2>6. QED
    BY <2>3, <2>4, <2>5, <1>3 DEF CardInv
<1>7. CASE Card!Open \/ Card!Close
  <2>1. /\ call' = <<>> /\ feedback' = Card!Silent
        /\ \E t : draft' = Card!DraftFrom(t) /\ (t = <<>> \/ t = Card!View(row))
    BY <1>7 DEF Card!Open, Card!Close, CardInv, CallHolds
  <2>2. PICK t : draft' = Card!DraftFrom(t) /\ (t = <<>> \/ t = Card!View(row))
    BY <2>1
  <2>3. t # <<>> => t[1].host \in Hosts
    BY <2>2 DEF Card!View, CardInv, RowHolds, None, TunnelRows
  <2>4. DraftHolds'
    BY <2>2, <2>3, <1>4 DEF DraftHolds, Card!DraftFrom, Card!KeyModes
  <2>5. SaysTrue(feedback)'
    BY <2>1, SaysNothing
  <2>6. QED
    BY <2>1, <2>4, <2>5, <1>2, <1>3, CardSame DEF CardInv
<1>8. CASE Card!Generate \/ Card!Refetch
  <2>1. UNCHANGED <<draft, feedback, open, call>>
    BY <1>8 DEF Card!Generate, Card!Refetch
  <2>2. QED
    BY <2>1, <1>2, <1>3, CardSame DEF CardInv
<1>9. QED
  BY <1>5, <1>6, <1>7, <1>8

\* What is asked is about the host shown; what is stored for good was tested.
LEMMA AskKeeps ==
  ASSUME CardInv, Card!HandleTest \/ Card!HandleCreate \/ Card!HandleSave
  PROVE  CardInv'
<1>1. UNCHANGED <<row, proved, entry, installed, shown, draft, open>>
  BY DEF Card!HandleTest, Card!HandleCreate, Card!HandleSave, Card!serverVars
<1>2. shown \subseteq shown' /\ shown' \subseteq HostKeys
  BY <1>1 DEF CardInv, HostsHold
<1>3. open /\ call = <<>> /\ draft.host \in Hosts
  BY DEF Card!HandleTest, Card!HandleCreate, Card!HandleSave, Card!CanSave, Card!IsValid, CardInv, DraftHolds
<1>4. draft.key \in Keys /\ Card!PassphraseOf(draft) \in Card!Passphrases
  BY DEF CardInv, DraftHolds, Card!PassphraseOf, Card!Passphrases
<1>5. SaysTrue(feedback)'
  <2>1. feedback' = Card!Silent \/ Card!Says("failed", Card!Nothing)
    BY DEF Card!HandleTest, Card!HandleCreate, Card!HandleSave, Card!Fails
  <2>2. QED
    BY <2>1, SaysNothing, SaysOf
<1>6. ASSUME NEW op \in {"test", "measure", "save"}, NEW c, Card!Ask(op, c), c.host = draft.host,
             op = "measure" => c \in Unpinned, op = "save" => c \in Edits
      PROVE  CallHolds'
  <2>1. PICK t : call' = <<[op |-> op, creds |-> c, told |-> t, touched |-> FALSE]>>
    BY <1>6 DEF Card!Ask
  <2>2. PICK f : f = FALSE
    OBVIOUS
  <2>3. PICK d : d = [op |-> op, creds |-> c, told |-> t, touched |-> f]
    OBVIOUS
  <2>4. d.op = op /\ d.creds = c /\ d = [op |-> d.op, creds |-> d.creds, told |-> d.told, touched |-> d.touched]
    BY <2>3
  <2>5. Unpinned' = Unpinned /\ Edits' = Edits
    BY DEF Unpinned, Edits
  <2>6. CallFits(d)'
    BY <1>1, <1>3, <1>6, <2>4, <2>5 DEF CallFits
  <2>7. call' = <<d>>
    BY <2>1, <2>2, <2>3
  <2>8. QED
    BY <1>1, <1>3, <2>6, <2>7 DEF CallHolds
<1>7. Card!NewTunnelInput(draft) \in Unpinned /\ Card!NewTunnelInput(draft).host = draft.host
  BY <1>3, <1>4 DEF Card!NewTunnelInput, Unpinned
<1>8. CallHolds'
  <2>1. CASE Card!HandleTest
    <3>1. CASE call' = call
      BY <1>1, <1>2, <3>1, CardSame
    <3>2. CASE call' # call
      <4>1. Card!Ask("test", Card!Tested) /\ (Card!CarriesNewKey(draft) \/ row # <<>>)
        BY <2>1, <3>2 DEF Card!HandleTest
      <4>2. Card!Tested.host = draft.host
        <5>1. CASE Card!CarriesNewKey(draft)
          BY <5>1, <1>7 DEF Card!Tested, Unpinned
        <5>2. CASE ~Card!CarriesNewKey(draft)
          <6>1. row[1] \in TunnelRows
            BY <4>1, <5>2 DEF CardInv, RowHolds, None
          <6>2. QED
            BY <5>2, <6>1 DEF Card!Tested, TunnelRows
        <5>3. QED
          BY <5>1, <5>2
      <4> DEFINE x == Card!Tested
      <4> HIDE DEF x
      <4>3. QED
        BY <4>1, <4>2, <1>6 DEF x
    <3>3. QED
      BY <3>1, <3>2
  <2>2. CASE Card!HandleCreate
    BY <2>2, <1>6, <1>7 DEF Card!HandleCreate
  <2>3. CASE Card!HandleSave
    <3>1. Card!UpdateInput(draft) \in Edits /\ Card!UpdateInput(draft).host = draft.host
      BY <1>3, <1>4 DEF Card!UpdateInput, Edits
    <3>2. QED
      BY <2>3, <3>1, <1>6 DEF Card!HandleSave
  <2>4. QED
    BY <2>1, <2>2, <2>3
<1>9. QED
  BY <1>1, <1>2, <1>5, <1>8, CardSame DEF CardInv

-----------------------------------------------------------------------------
(***************************************************************************)
(* What a request comes to.                                                *)
(***************************************************************************)
LEMMA RowStored ==
  ASSUME CardInv, shown \subseteq shown',
         \/ row' = <<>> /\ entry' = <<>>
         \/ /\ \E r \in TunnelRows' : row' = <<r>>
            /\ proved' /\ entry' = <<>>
  PROVE  RowHolds'
BY DEF RowHolds, None

\* An update leaves a row that is like a row, and proved.
LEMMA UpdateKeeps ==
  ASSUME CardInv, shown \subseteq shown', row # <<>>, NEW c, Card!Update(c),
         c \in Edits \/ (\E h \in Hosts : c = [host |-> h]) \/ (\E p \in shown : c = [pin |-> p])
  PROVE  RowHolds'
<1>1. row[1] \in TunnelRows /\ proved
  BY DEF CardInv, RowHolds, None
<1>2. row' = <<Card!Changed(row[1], c)>> /\ entry' = <<>> /\ proved' = proved
  BY DEF Card!Update, Card!CloseClient
<1> DEFINE r == row[1]
           d == Card!Changed(r, c)
<1>3. DOMAIN r = {"host", "key", "pass", "pin"} /\ r.host \in Hosts /\ r.key \in Keys
      /\ r.pass \in Card!Passphrases /\ r.pin \in shown
  BY <1>1 DEF TunnelRows
<1> HIDE DEF r
<1>4. d = [host |-> d.host, key |-> d.key, pass |-> d.pass, pin |-> d.pin]
  BY <1>3 DEF Card!Changed
<1>5. /\ d.host = (IF "host" \in DOMAIN c THEN c.host ELSE r.host)
      /\ d.key = (IF "key" \in DOMAIN c THEN c.key ELSE r.key)
      /\ d.pass = (IF "pass" \in DOMAIN c THEN c.pass ELSE r.pass)
      /\ d.pin = (IF "pin" \in DOMAIN c THEN c.pin ELSE r.pin)
  BY <1>3 DEF Card!Changed
<1> HIDE DEF d
<1>6. /\ ("host" \in DOMAIN c => c.host \in Hosts) /\ ("key" \in DOMAIN c => c.key \in Keys)
      /\ ("pass" \in DOMAIN c => c.pass \in Card!Passphrases) /\ ("pin" \in DOMAIN c => c.pin \in shown)
  <2>1. CASE c \in [host : Hosts, key : Keys, pass : Card!Passphrases]
    BY <2>1
  <2>2. CASE c \in [host : Hosts]
    BY <2>2
  <2>3. CASE \E h \in Hosts : c = [host |-> h]
    BY <2>3
  <2>4. CASE \E p \in shown : c = [pin |-> p]
    BY <2>4
  <2>5. QED
    BY <2>1, <2>2, <2>3, <2>4 DEF Edits
<1>7. d.host \in Hosts /\ d.key \in Keys /\ d.pass \in Card!Passphrases /\ d.pin \in shown
  BY <1>3, <1>5, <1>6
<1>8. d \in TunnelRows'
  BY <1>4, <1>7 DEF TunnelRows
<1>9. row' = <<d>>
  BY <1>2 DEF d, r
<1>10. QED
  BY <1>1, <1>2, <1>8, <1>9, RowStored

LEMMA RebaseKeeps ==
  ASSUME CardInv, Card!Rebase
  PROVE  DraftHolds' /\ draft'.host = draft.host
<1>1. draft \in [host : Hosts \cup {Card!Nothing}, mode : Card!KeyModes, key : Keys, pass : Card!Passphrases]
      /\ Card!Nothing \in Keys /\ Card!Nothing \in Card!Passphrases /\ "keep" \in Card!KeyModes
  BY DEF CardInv, DraftHolds, Keys, Card!Passphrases, Card!KeyModes
<1>2. draft' \in [host : {draft.host}, mode : Card!KeyModes, key : Keys, pass : Card!Passphrases]
  BY <1>1 DEF Card!Rebase
<1>3. QED
  BY <1>1, <1>2 DEF DraftHolds

LEMMA EndTestKeeps ==
  ASSUME CardAssumption, CardInv, NEW outcome, Card!EndTest(outcome)
  PROVE  CardInv'
<1>1. PICK c : c = call[1] /\ call # <<>> /\ CallFits(c)
  BY DEF Card!EndTest, CardInv, CallHolds
<1>2. PICK r : r = Card!TestConnection(c.creds, outcome)
  OBVIOUS
<1>3. /\ Card!Note(r) /\ call' = <<>>
      /\ UNCHANGED <<row, proved, entry, installed, draft>>
      /\ \/ feedback' = [Card!Silent EXCEPT !.says = "works", !.of = c.creds.host]
         \/ feedback' = [Card!Silent EXCEPT !.says = "failed", !.unknown = Card!NoKey]
         \/ feedback' = [Card!Silent EXCEPT !.says = "failed", !.unknown = r.hostKey]
  BY <1>1, <1>2 DEF Card!EndTest, Card!serverVars
<1>4. c.creds.host = draft.host /\ draft.host \in Hosts
  BY <1>1 DEF CallFits
<1>5. /\ shown \subseteq shown' /\ shown' \subseteq HostKeys
      /\ r.hostKey # Card!NoKey => r.hostKey \in shown' /\ r.hostKey[1] = draft.host
  BY <1>2, <1>3, <1>4, TestSays DEF CardInv
<1>6. SaysTrue(feedback)'
  <2>1. CASE feedback' = [Card!Silent EXCEPT !.says = "works", !.of = c.creds.host]
    BY <2>1, <1>3, <1>4, SaysOf DEF Card!Says
  <2>2. ASSUME NEW k, k # Card!NoKey => k \in shown' /\ k[1] = draft.host,
               feedback' = [Card!Silent EXCEPT !.says = "failed", !.unknown = k]
        PROVE  SaysTrue(feedback)'
    <3>1. PICK f : f = [says |-> "failed", of |-> Card!Nothing, unknown |-> k]
      OBVIOUS
    <3>2. f.of = Card!Nothing /\ f.unknown = k /\ f = [says |-> f.says, of |-> f.of, unknown |-> f.unknown]
      BY <3>1
    <3>3. feedback' = f
      BY <2>2, <3>1, Feedbacks
    <3>4. QED
      BY <3>2, <3>3, <2>2, <1>3 DEF SaysTrue
  <2>3. QED
    BY <1>3, <1>5, <2>1, <2>2
<1>7. QED
  BY <1>3, <1>5, <1>6, CardSame DEF CardInv

LEMMA EndMeasureKeeps ==
  ASSUME CardAssumption, CardInv, NEW outcome, Card!EndMeasure(outcome)
  PROVE  CardInv'
<1>1. PICK c : c = call[1] /\ call # <<>> /\ open /\ CallFits(c) /\ c.op = "measure"
  BY DEF Card!EndMeasure, CardInv, CallHolds
<1>2. PICK r : r = Card!TestConnection(c.creds, outcome)
  OBVIOUS
<1>3. /\ Card!Note(r) /\ UNCHANGED <<row, proved, entry, installed, draft, open>>
      /\ \/ /\ r.ok /\ call' = <<[c EXCEPT !.op = "create", !.creds.pin = r.hostKey]>>
            /\ feedback' = feedback
         \/ call' = <<>> /\ Card!Fails
  BY <1>1, <1>2 DEF Card!EndMeasure, Card!serverVars
<1>4. c.creds.host = draft.host /\ draft.host \in Hosts /\ c.creds \in Unpinned
      /\ c = [op |-> c.op, creds |-> c.creds, told |-> c.told, touched |-> c.touched]
  BY <1>1 DEF CallFits
<1>5. /\ shown \subseteq shown' /\ shown' \subseteq HostKeys
      /\ r.ok => r.hostKey \in shown'
  BY <1>2, <1>3, <1>4, TestSays DEF CardInv
<1>6. SaysTrue(feedback)'
  BY <1>3, <1>5, CardSame, SaysOf DEF Card!Fails
<1>7. CallHolds'
  <2>1. CASE call' = <<>>
    BY <2>1 DEF CallHolds
  <2>2. CASE call' # <<>>
    <3>1. PICK x : x = [c.creds EXCEPT !.pin = r.hostKey]
      OBVIOUS
    <3>2. x \in TunnelRows' /\ x.host = draft.host
      BY <2>2, <3>1, <1>3, <1>4, <1>5 DEF Unpinned, TunnelRows
    <3>3. PICK d1 : d1 = [c EXCEPT !.op = "create"]
      OBVIOUS
    <3>4. d1 = [op |-> "create", creds |-> c.creds, told |-> c.told, touched |-> c.touched]
      BY <3>3, <1>4
    <3>5. PICK d : d = [d1 EXCEPT !.creds = x]
      OBVIOUS
    <3>6. d = [op |-> "create", creds |-> x, told |-> c.told, touched |-> c.touched]
      BY <3>4, <3>5
    <3>7. [c EXCEPT !.op = "create", !.creds.pin = r.hostKey] = d
      <4>1. d1.creds = c.creds
        BY <3>4
      <4>2. QED
        BY <3>1, <3>3, <3>5, <4>1, Zenon
    <3>8. d.op = "create" /\ d.creds = x
          /\ d = [op |-> d.op, creds |-> d.creds, told |-> d.told, touched |-> d.touched]
      BY <3>6
    <3>9. CallFits(d)'
      BY <3>2, <3>8, <1>3, <1>4 DEF CallFits
    <3>10. call' = <<d>>
      BY <2>2, <3>7, <1>3
    <3>11. QED
      BY <3>9, <3>10, <1>1, <1>3 DEF CallHolds
  <2>3. QED
    BY <2>1, <2>2
<1>8. QED
  BY <1>3, <1>5, <1>6, <1>7, CardSame DEF CardInv

LEMMA EndCreateKeeps ==
  ASSUME CardAssumption, CardInv, NEW outcome, Card!EndCreate(outcome)
  PROVE  CardInv'
<1>1. PICK c : c = call[1] /\ call # <<>> /\ CallFits(c) /\ c.op = "create"
  BY DEF Card!EndCreate, CardInv, CallHolds
<1>2. PICK r : r = Card!TestConnection(c.creds, outcome)
  OBVIOUS
<1>3. /\ Card!Note(r) /\ call' = <<>> /\ UNCHANGED installed
      /\ \/ /\ r.ok /\ row = <<>> /\ Card!Insert(c.creds, r) /\ Card!Rebase
            /\ Card!Says("set up", c.creds.host)
         \/ Card!Fails /\ UNCHANGED <<row, proved, entry, draft>>
  BY <1>1, <1>2 DEF Card!EndCreate, Card!serverVars
<1>4. c.creds.host = draft.host /\ draft.host \in Hosts /\ c.creds \in TunnelRows
  BY <1>1 DEF CallFits
<1>5. /\ shown \subseteq shown' /\ shown' \subseteq HostKeys
      /\ r.ok => c.creds.pin = Card!NoKey \/ c.creds.pin = r.hostKey
  BY <1>2, <1>3, <1>4, TestSays DEF CardInv
<1>6. CASE r.ok /\ row = <<>> /\ Card!Insert(c.creds, r) /\ Card!Rebase /\ Card!Says("set up", c.creds.host)
  <2>1. c.creds.pin # Card!NoKey
    BY <1>4 DEF TunnelRows, CardInv, HostsHold, HostKeys, CardAssumption, Card!NoKey, Card!Nothing
  <2>2. proved' /\ row' = <<c.creds>> /\ entry' = <<>>
    BY <1>5, <1>6, <2>1 DEF Card!Insert, CardInv, RowHolds
  <2>3. RowHolds'
    BY <1>4, <1>5, <2>2, CardSame, RowStored
  <2>4. DraftHolds' /\ draft'.host = draft.host
    BY <1>6, RebaseKeeps
  <2>5. SaysTrue(feedback)'
    BY <1>4, <1>6, <2>4, SaysOf
  <2>6. QED
    BY <1>3, <1>5, <2>3, <2>4, <2>5, CardSame DEF CardInv
<1>7. CASE Card!Fails /\ UNCHANGED <<row, proved, entry, draft>>
  BY <1>3, <1>5, <1>7, CardSame, SaysOf DEF CardInv, Card!Fails
<1>8. QED
  BY <1>3, <1>6, <1>7

LEMMA StoreKeeps ==
  ASSUME CardInv, Card!EndSave \/ Card!HandleTrustHostKey \/ Card!RemoveTunnel
  PROVE  CardInv'
<1>1. UNCHANGED <<installed, shown>> /\ call' = <<>>
  BY DEF Card!EndSave, Card!HandleTrustHostKey, Card!RemoveTunnel
<1>2. shown \subseteq shown' /\ shown' \subseteq HostKeys
  BY <1>1 DEF CardInv, HostsHold
<1>3. HostsHold' /\ CallHolds'
  BY <1>1, <1>2, CardSame
<1>4. CASE Card!EndSave
  <2>1. PICK c : c = call[1] /\ CallFits(c) /\ c.op = "save"
    BY <1>4 DEF Card!EndSave, CardInv, CallHolds
  <2>2. c.creds.host = draft.host /\ c.creds \in Edits
    BY <2>1 DEF CallFits
  <2>3. CASE row # <<>>
    <3>1. Card!Update(c.creds) /\ Card!Rebase /\ Card!Says("saved", c.creds.host)
      BY <1>4, <2>1, <2>3 DEF Card!EndSave
    <3>2. RowHolds'
      BY <3>1, <2>2, <2>3, <1>2, UpdateKeeps
    <3>3. QED
      BY <3>1, <3>2, <2>2, <1>3, RebaseKeeps, SaysOf DEF CardInv
  <2>4. CASE row = <<>>
    <3>1. Card!Fails /\ UNCHANGED <<row, proved, entry, draft>>
      BY <1>4, <2>4 DEF Card!EndSave, Card!serverVars
    <3>2. QED
      BY <3>1, <1>2, <1>3, CardSame, SaysOf DEF CardInv, Card!Fails
  <2>5. QED
    BY <2>3, <2>4
<1>5. CASE Card!HandleTrustHostKey
  <2>1. draft' = draft /\ feedback.unknown # Card!NoKey
    BY <1>5 DEF Card!HandleTrustHostKey
  <2>2. feedback.unknown \in shown
    BY <2>1 DEF CardInv, SaysTrue
  <2>3. CASE row # <<>>
    <3>1. Card!Update([pin |-> feedback.unknown]) /\ Card!Says("pinned", Card!Nothing)
      BY <1>5, <2>3 DEF Card!HandleTrustHostKey
    <3>2. RowHolds'
      BY <3>1, <2>2, <2>3, <1>2, UpdateKeeps
    <3>3. QED
      BY <3>1, <3>2, <2>1, <1>2, <1>3, CardSame, SaysOf DEF CardInv
  <2>4. CASE row = <<>>
    <3>1. feedback' = [feedback EXCEPT !.says = "failed"] /\ UNCHANGED <<row, proved, entry>>
      BY <1>5, <2>4 DEF Card!HandleTrustHostKey, Card!serverVars
    <3>2. feedback = [says |-> feedback.says, of |-> feedback.of, unknown |-> feedback.unknown]
      BY DEF CardInv, SaysTrue
    <3>3. PICK f : f = [says |-> "failed", of |-> feedback.of, unknown |-> feedback.unknown]
      OBVIOUS
    <3>4. f.of = feedback.of /\ f.unknown = feedback.unknown
          /\ f = [says |-> f.says, of |-> f.of, unknown |-> f.unknown]
      BY <3>3
    <3>5. feedback' = f
      BY <3>1, <3>2, <3>3
    <3>6. SaysTrue(feedback)'
      BY <3>4, <3>5, <2>1, <1>1 DEF SaysTrue, CardInv
    <3>7. QED
      BY <3>1, <3>6, <2>1, <1>2, <1>3, CardSame DEF CardInv
  <2>5. QED
    BY <2>3, <2>4
<1>6. CASE Card!RemoveTunnel
  <2>1. CASE row # <<>>
    <3>1. /\ row' = <<>> /\ entry' = <<>> /\ Card!Says("removed", Card!Nothing)
          /\ draft' = Card!DraftFrom(<<>>)
      BY <1>6, <2>1 DEF Card!RemoveTunnel, Card!Remove, Card!CloseClient
    <3>2. DraftHolds'
      BY <3>1 DEF DraftHolds, Card!DraftFrom, Card!KeyModes, Card!Passphrases, Keys
    <3>3. QED
      BY <3>1, <3>2, <1>2, <1>3, RowStored, SaysOf DEF CardInv
  <2>2. CASE row = <<>>
    <3>1. feedback' = Card!Silent /\ UNCHANGED <<row, proved, entry, draft>>
      BY <1>6, <2>2 DEF Card!RemoveTunnel, Card!serverVars
    <3>2. QED
      BY <3>1, <1>2, <1>3, CardSame, SaysNothing DEF CardInv
  <2>3. QED
    BY <2>1, <2>2
<1>7. QED
  BY <1>4, <1>5, <1>6

-----------------------------------------------------------------------------
(***************************************************************************)
(* Everyone else leaves the card alone.                                    *)
(***************************************************************************)
LEMMA OthersKeep ==
  ASSUME CardAssumption, CardInv,
         (\E h \in Hosts : Card!OtherCreates(h) \/ Card!OtherUpdates(h) \/ Card!Reinstall(h))
         \/ Card!OtherRemoves \/ Card!DeleteClient \/ Card!Acquire
         \/ (\E outcome \in Card!Outcomes : Card!OpenSsh(outcome))
  PROVE  CardInv'
<1>1. UNCHANGED <<open, info, draft, base, feedback, making, call>>
  BY DEF Card!OtherCreates, Card!OtherUpdates, Card!Reinstall, Card!OtherRemoves, Card!DeleteClient,
         Card!Acquire, Card!OpenSsh, Card!cardVars, Card!formVars
<1>2. CASE \E h \in Hosts : Card!OtherCreates(h)
  <2>1. PICK h \in Hosts : Card!OtherCreates(h)
    BY <1>2
  <2>2. PICK p : p = Card!Presented(h)
    OBVIOUS
  <2>3. PICK c : c = [host |-> h, key |-> Plain, pass |-> Card!Nothing, pin |-> p]
    OBVIOUS
  <2>4. PICK r : r = Card!TestConnection(c, "accepted")
    OBVIOUS
  <2>5. row = <<>> /\ Card!Insert(c, r) /\ Card!Note(r) /\ UNCHANGED installed
    BY <2>1, <2>2, <2>3, <2>4 DEF Card!OtherCreates
  <2>6. c.host = h /\ c.key = Plain /\ c.pin = p
    BY <2>3
  <2>7. shown \subseteq shown' /\ shown' \subseteq HostKeys
    BY <2>4, <2>5, <2>6, TestSays DEF CardInv
  <2>8. r.hostKey = p /\ r.ok
    <3>1. Card!Usable(c)
      BY <2>6 DEF Card!Usable, CardAssumption
    <3> DEFINE x == Card!Presented(c.host)
    <3>2. r = [hostKey |-> x, ok |-> Card!Usable(c) /\ (c.pin = Card!NoKey \/ c.pin = x)]
      BY <2>4, Zenon DEF Card!TestConnection
    <3>3. x = p
      BY <2>2, <2>6
    <3> HIDE DEF x
    <3>4. r.hostKey = x /\ r.ok = (Card!Usable(c) /\ (c.pin = Card!NoKey \/ c.pin = x))
      BY <3>2
    <3>5. QED
      BY <3>1, <3>3, <3>4, <2>6
  <2>9. p \in shown' /\ p \in HostKeys
    <3>1. p \in HostKeys
      BY <2>2 DEF Card!Presented, HostKeys, CardInv, HostsHold
    <3>2. p # Card!NoKey
      BY <3>1 DEF HostKeys, CardAssumption, Card!NoKey, Card!Nothing
    <3>3. QED
      BY <3>1, <3>2, <2>5, <2>8 DEF Card!Note
  <2>10. c \in TunnelRows'
    BY <2>3, <2>9 DEF TunnelRows, Keys, Card!Passphrases
  <2>11. proved' /\ row' = <<c>> /\ entry' = <<>>
    BY <2>5, <2>6, <2>8 DEF Card!Insert, CardInv, RowHolds
  <2>12. RowHolds'
    BY <2>7, <2>10, <2>11, RowStored
  <2>13. QED
    BY <1>1, <2>5, <2>7, <2>12, CardSame DEF CardInv
<1>3. CASE \E h \in Hosts : Card!OtherUpdates(h)
  <2>1. PICK h \in Hosts : row # <<>> /\ Card!Update([host |-> h]) /\ UNCHANGED <<installed, shown>>
    BY <1>3 DEF Card!OtherUpdates
  <2>2. shown \subseteq shown' /\ shown' \subseteq HostKeys
    BY <2>1 DEF CardInv, HostsHold
  <2>3. RowHolds'
    BY <2>1, <2>2, UpdateKeeps
  <2>4. QED
    BY <1>1, <2>1, <2>2, <2>3, CardSame DEF CardInv
<1>4. CASE \E h \in Hosts : Card!Reinstall(h)
  <2>1. PICK h \in Hosts : installed' = [installed EXCEPT ![h] = @ + 1] /\ UNCHANGED <<row, proved, entry, shown>>
    BY <1>4 DEF Card!Reinstall, Card!serverVars
  <2>2. shown \subseteq shown' /\ shown' \subseteq HostKeys
    BY <2>1 DEF CardInv, HostsHold
  <2>3. installed' \in [Hosts -> Nat]
    BY <2>1 DEF CardInv, HostsHold
  <2>4. QED
    BY <1>1, <2>1, <2>2, <2>3, CardSame DEF CardInv, HostsHold
<1>5. CASE \/ Card!OtherRemoves \/ Card!DeleteClient \/ Card!Acquire
           \/ \E outcome \in Card!Outcomes : Card!OpenSsh(outcome)
  <2>1. UNCHANGED <<installed, shown>>
    BY <1>5 DEF Card!OtherRemoves, Card!DeleteClient, Card!Acquire, Card!OpenSsh
  <2>2. shown \subseteq shown' /\ shown' \subseteq HostKeys
    BY <2>1 DEF CardInv, HostsHold
  <2>3. RowHolds'
    <3>1. CASE Card!OtherRemoves \/ Card!DeleteClient
      <4>1. row' = <<>> /\ entry' = <<>>
        BY <3>1 DEF Card!OtherRemoves, Card!DeleteClient, Card!Remove, Card!CloseClient
      <4>2. QED
        BY <4>1, <2>2, RowStored
    <3>2. CASE Card!Acquire
      <4>1. PICK e : e = [up |-> FALSE, creds |-> row[1]]
        OBVIOUS
      <4>2. row # <<>> /\ UNCHANGED <<row, proved>> /\ entry' = <<e>>
        BY <3>2, <4>1 DEF Card!Acquire
      <4>3. row = <<row[1]>> /\ row[1] \in TunnelRows
        BY <4>2 DEF CardInv, RowHolds, None
      <4>4. e.creds = row[1] /\ e \in [up : BOOLEAN, creds : TunnelRows]
        BY <4>1, <4>3
      <4>5. TunnelRows' = TunnelRows
        BY <2>1 DEF TunnelRows
      <4>6. QED
        BY <4>2, <4>3, <4>4, <4>5 DEF CardInv, RowHolds, None
    <3>3. CASE \E outcome \in Card!Outcomes : Card!OpenSsh(outcome)
      <4>1. entry # <<>> /\ UNCHANGED <<row, proved>> /\ entry' \in {<<>>, <<[entry[1] EXCEPT !.up = TRUE]>>}
        BY <3>3 DEF Card!OpenSsh
      <4>2. entry[1] \in [up : BOOLEAN, creds : TunnelRows] /\ row = <<entry[1].creds>>
        BY <4>1 DEF CardInv, RowHolds, None
      <4>3. PICK e : e = [entry[1] EXCEPT !.up = TRUE]
        OBVIOUS
      <4>4. e \in [up : BOOLEAN, creds : TunnelRows] /\ e.creds = entry[1].creds
        BY <4>2, <4>3
      <4>5. TunnelRows' = TunnelRows
        BY <2>1 DEF TunnelRows
      <4>6. row' \in None(TunnelRows') /\ (row' # <<>> => proved')
        BY <4>1, <4>5 DEF CardInv, RowHolds
      <4>7. CASE entry' = <<>>
        BY <4>5, <4>6, <4>7 DEF RowHolds, None
      <4>8. CASE entry' = <<e>>
        BY <4>1, <4>2, <4>4, <4>5, <4>6, <4>8 DEF RowHolds, None
      <4>9. QED
        BY <4>1, <4>3, <4>7, <4>8
    <3>4. QED
      BY <1>5, <3>1, <3>2, <3>3
  <2>4. QED
    BY <1>1, <2>1, <2>2, <2>3, CardSame DEF CardInv
<1>6. QED
  BY <1>2, <1>3, <1>4, <1>5

\* A client's tunnel has credentials somebody saw work, pins a host key somebody
\* was shown, and is used with what is stored, whatever is typed, tested, stored
\* and reinstalled meanwhile; what the card says is about the host it shows
\* (TunnelController create and update, ClientTunnelCard).
THEOREM TunnelsAreSeenToWork == MCSpec => []TunnelKept
<1>1. MCInit => CardInv
  <2> SUFFICES ASSUME MCInit
               PROVE  CardInv
    OBVIOUS
  <2>1. Card!Init
    BY DEF MCInit
  <2>2. SaysTrue(feedback)
    <3>1. PICK f : f = [says |-> Card!Nothing, of |-> Card!Nothing, unknown |-> Card!NoKey]
      OBVIOUS
    <3>2. f.of = Card!Nothing /\ f.unknown = Card!NoKey /\ f = [says |-> f.says, of |-> f.of, unknown |-> f.unknown]
      BY <3>1
    <3>3. feedback = f
      BY <2>1, <3>1 DEF Card!Init, Card!Silent
    <3>4. QED
      BY <3>2, <3>3 DEF SaysTrue
  <2>3. DraftHolds
    BY <2>1 DEF Card!Init, DraftHolds, Card!DraftFrom, Card!KeyModes, Card!Passphrases, Keys
  <2>4. QED
    BY <2>1, <2>2, <2>3 DEF Card!Init, CardInv, RowHolds, None, HostsHold, CallHolds
<1>2. CardInv /\ [MCNext]_<<part, vars, attentionVars, cardVars>> => CardInv'
  <2> SUFFICES ASSUME CardInv, [MCNext]_<<part, vars, attentionVars, cardVars>>
               PROVE  CardInv'
    OBVIOUS
  <2>1. CASE UNCHANGED cardVars
    <3>1. shown \subseteq shown' /\ shown' \subseteq HostKeys
      BY <2>1 DEF CardInv, HostsHold, cardVars
    <3>2. QED
      BY <2>1, <3>1, CardSame DEF CardInv, cardVars
  <2>2. CASE Card!Next
    BY <2>2, CardAssumption, TypingKeeps, AskKeeps, EndTestKeeps, EndMeasureKeeps, EndCreateKeeps, StoreKeeps,
       OthersKeep DEF Card!Next
  <2>3. QED
    BY <2>1, <2>2 DEF MCNext
<1>3. CardInv => TunnelKept
  <2> SUFFICES ASSUME CardInv
               PROVE  Card!TunnelHolds
    BY DEF TunnelKept
  <2>1. Card!CreatedWorks /\ Card!PinWasShown /\ Card!ConnectionIsCurrent
    BY DEF CardInv, RowHolds, None, TunnelRows, Card!CreatedWorks, Card!PinWasShown, Card!ConnectionIsCurrent
  <2>2. Card!CardSaysTrue
    BY DEF CardInv, SaysTrue, Card!CardSaysTrue
  <2>3. QED
    BY <2>1, <2>2 DEF Card!TunnelHolds
<1>4. QED
  BY <1>1, <1>2, <1>3, PTL DEF MCSpec

-----------------------------------------------------------------------------
(***************************************************************************)
(* What needs a look (Attention): the inductive invariant.  While a client *)
(* is connected, what the server has of its jobs is what they are, or a    *)
(* list that says so is under way; the times the repository was last up    *)
(* and down bound what a check may say.  What a reader has read before it  *)
(* waits was so then, and stays what it was.                               *)
(***************************************************************************)
Dues == {Findings!Off} \cup Nat
Lists == UNION {[S -> Dues] : S \in SUBSET Jobs}

NewsHold ==
  /\ news \in Seq(Lists) /\ jobs \in Lists
  /\ ~online => news = <<>> /\ cache = <<>>
  /\ online /\ news = <<>> => cache = <<jobs>>
  /\ online /\ news # <<>> => news[Len(news)] = jobs

\* A job is past its time only because nobody looked.
TimesHold ==
  /\ now \in Nat /\ now <= MaxTime /\ stalled \in Int
  /\ \A j \in DOMAIN jobs : jobs[j] # Findings!Off /\ jobs[j] < now => stalled >= now - 1

ChecksHold ==
  /\ answering \in BOOLEAN /\ downUntil \in Int /\ upUntil \in Int
  /\ answering => upUntil = now
  /\ ~answering => downUntil = now
  /\ \/ checked = <<>>
     \/ \E a \in BOOLEAN, t \in Nat :
          /\ checked = <<[answers |-> a, at |-> t]>> /\ t <= now
          /\ a => upUntil >= t
          /\ ~a => downUntil >= t

\* What was read fits together, and with what was so.
Fitting(in) ==
  /\ in.at \in Nat /\ in.fact.jobs \in Lists
  /\ ~in.online => in.cache = <<>>
  /\ in.online /\ in.fact.told => in.cache = <<in.fact.jobs>>
  /\ \A j \in DOMAIN in.fact.jobs :
       in.fact.jobs[j] # Findings!Off /\ in.fact.jobs[j] < in.at => in.fact.stalled >= in.at - 1

ReadsHold == asking = <<>> \/ (Fitting(asking[1]) /\ asking[1].at <= now)

AInv == NewsHold /\ TimesHold /\ ChecksHold /\ ReadsHold

LEMMA ListsDef ==
  ASSUME NEW f
  PROVE  f \in Lists <=> DOMAIN f \subseteq Jobs /\ f \in [DOMAIN f -> Dues]
BY DEF Lists

LEMMA NoList == <<>> \in Lists
<1>1. <<>> \in [{} -> Dues]
  OBVIOUS
<1> QED
  BY <1>1 DEF Lists

LEMMA EmptyList == ASSUME NEW f \in Lists, DOMAIN f = {} PROVE f = <<>>
<1>1. f \in [{} -> Dues]
  BY ListsDef
<1>2. <<>> \in [{} -> Dues]
  OBVIOUS
<1> QED
  BY <1>1, <1>2

LEMMA AttentionStarts == Findings!Init => AInv
<1> SUFFICES ASSUME Findings!Init PROVE AInv
  OBVIOUS
<1>1. NewsHold
  <2>1. <<>> \in Seq(Lists)
    OBVIOUS
  <2> QED
    BY <2>1, NoList DEF NewsHold, Findings!Init
<1>2. TimesHold
  <2>1. DOMAIN jobs = {}
    BY DEF Findings!Init
  <2> QED
    BY <2>1, AttentionAssumption DEF TimesHold, Findings!Init, Findings!Off
<1>3. ChecksHold /\ ReadsHold
  BY DEF ChecksHold, ReadsHold, Findings!Init, Findings!Off
<1> QED
  BY <1>1, <1>2, <1>3 DEF AInv

LEMMA ReadsFit == AInv => Fitting(Findings!Inputs)
<1> SUFFICES ASSUME AInv PROVE Fitting(Findings!Inputs)
  OBVIOUS
<1>1. /\ Findings!Inputs.at = now /\ Findings!Inputs.online = online /\ Findings!Inputs.cache = cache
      /\ Findings!Inputs.fact.jobs = jobs /\ Findings!Inputs.fact.stalled = stalled
      /\ Findings!Inputs.fact.told = (news = <<>>)
  BY DEF Findings!Inputs
<1> QED
  BY <1>1 DEF AInv, NewsHold, TimesHold, Fitting

\* Time that passes takes nothing from what was read.
LEMMA ReadsStay ==
  ASSUME AInv, asking' = asking, now' \in Nat, now' >= now
  PROVE  ReadsHold'
<1>1. CASE asking = <<>>
  BY <1>1 DEF ReadsHold
<1>2. CASE asking # <<>>
  <2>1. Fitting(asking[1]) /\ asking[1].at \in Nat /\ asking[1].at <= now /\ now \in Nat
    BY <1>2 DEF AInv, ReadsHold, TimesHold, Fitting
  <2>2. asking[1].at <= now'
    BY <2>1
  <2> QED
    BY <2>1, <2>2 DEF ReadsHold, Fitting
<1> QED
  BY <1>1, <1>2

\* A change of the jobs is told at once to a server that is there.
LEMMA TellKeeps ==
  ASSUME AInv, NEW list \in Lists, jobs' = list, Findings!Tell(list), UNCHANGED <<online, cache>>
  PROVE  NewsHold'
<1>1. CASE online
  <2>1. news \in Seq(Lists) /\ news' = Append(news, list)
    BY <1>1 DEF AInv, NewsHold, Findings!Tell
  <2>2. news' \in Seq(Lists) /\ Len(news') = Len(news) + 1 /\ news'[Len(news) + 1] = list
    BY <2>1
  <2>3. news' # <<>> /\ news'[Len(news')] = list
    BY <2>1, <2>2
  <2> QED
    BY <1>1, <2>2, <2>3 DEF NewsHold
<1>2. CASE ~online
  BY <1>2 DEF AInv, NewsHold, Findings!Tell
<1> QED
  BY <1>1, <1>2

LEMMA ConnectKeeps == AInv /\ Findings!Connect => AInv'
<1> SUFFICES ASSUME AInv, Findings!Connect PROVE AInv'
  OBVIOUS
<1> USE DEF Findings!Connect, Findings!agentVars, Findings!repository, Findings!checkVars
<1>1. NewsHold'
  <2>1. jobs \in Lists
    BY DEF AInv, NewsHold
  <2>2. <<jobs>> \in Seq(Lists) /\ Len(<<jobs>>) = 1 /\ <<jobs>>[1] = jobs /\ <<jobs>> # <<>>
    BY <2>1
  <2> QED
    BY <2>1, <2>2 DEF NewsHold
<1>2. TimesHold' /\ ChecksHold'
  BY DEF AInv, TimesHold, ChecksHold
<1>3. ReadsHold'
  BY DEF AInv, ReadsHold, Fitting
<1> QED
  BY <1>1, <1>2, <1>3 DEF AInv

LEMMA DisconnectKeeps == AInv /\ Findings!Disconnect => AInv'
<1> SUFFICES ASSUME AInv, Findings!Disconnect PROVE AInv'
  OBVIOUS
<1> USE DEF Findings!Disconnect, Findings!agentVars, Findings!repository, Findings!checkVars
<1>1. NewsHold'
  <2>1. <<>> \in Seq(Lists)
    OBVIOUS
  <2> QED
    BY <2>1 DEF AInv, NewsHold
<1>2. TimesHold' /\ ChecksHold'
  BY DEF AInv, TimesHold, ChecksHold
<1>3. ReadsHold'
  BY DEF AInv, ReadsHold, Fitting
<1> QED
  BY <1>1, <1>2, <1>3 DEF AInv

LEMMA TakeListKeeps == AInv /\ Findings!TakeList => AInv'
<1> SUFFICES ASSUME AInv, Findings!TakeList PROVE AInv'
  OBVIOUS
<1> USE DEF Findings!TakeList, Findings!agentVars, Findings!repository, Findings!checkVars
<1>1. NewsHold'
  <2>1. news \in Seq(Lists) /\ news # <<>> /\ online /\ news[Len(news)] = jobs
    BY DEF AInv, NewsHold
  <2>2. Tail(news) \in Seq(Lists) /\ Len(Tail(news)) = Len(news) - 1 /\ Len(news) \in Nat \ {0}
    BY <2>1
  <2>3. CASE Tail(news) = <<>>
    <3>1. Len(news) = 1
      <4>1. Len(Tail(news)) = 0
        BY <2>3
      <4> QED
        BY <2>2, <4>1
    <3>2. cache' = <<jobs>> /\ news' = <<>>
      BY <2>1, <2>3, <3>1
    <3> QED
      BY <2>1, <2>2, <3>2 DEF AInv, NewsHold
  <2>4. CASE Tail(news) # <<>>
    <3>1. Len(Tail(news)) # 0
      BY <2>2, <2>4
    <3>2. Tail(news)[Len(news) - 1] = news[Len(news)]
      BY <2>1, <2>2, <3>1
    <3>3. news'[Len(news')] = jobs
      BY <2>1, <2>2, <3>2
    <3> QED
      BY <2>1, <2>2, <2>4, <3>3 DEF AInv, NewsHold
  <2> QED
    BY <2>3, <2>4
<1>2. TimesHold' /\ ChecksHold'
  BY DEF AInv, TimesHold, ChecksHold
<1>3. ReadsHold'
  BY DEF AInv, ReadsHold, Fitting
<1> QED
  BY <1>1, <1>2, <1>3 DEF AInv

LEMMA SaveJobKeepsFindings ==
  ASSUME AInv, NEW j \in Jobs, NEW due \in {Findings!Off, now, now + 1}, Findings!SaveJob(j, due)
  PROVE  AInv'
<1> USE DEF Findings!SaveJob, Findings!repository, Findings!checkVars
<1>1. jobs \in Lists /\ now \in Nat /\ due \in Dues /\ (due # Findings!Off => due >= now)
  BY DEF AInv, NewsHold, TimesHold, Dues
<1>2. /\ DOMAIN jobs' = DOMAIN jobs \cup {j}
      /\ \A k \in DOMAIN jobs' : jobs'[k] = IF k = j THEN due ELSE jobs[k]
      /\ jobs' \in Lists
  <2>1. DOMAIN jobs \subseteq Jobs /\ jobs \in [DOMAIN jobs -> Dues]
    BY <1>1, ListsDef
  <2>2. jobs' \in [DOMAIN jobs \cup {j} -> Dues]
    BY <1>1, <2>1
  <2> QED
    BY <2>1, <2>2 DEF Lists
<1>3. NewsHold'
  BY <1>2, TellKeeps
<1>4. TimesHold'
  BY <1>1, <1>2 DEF AInv, TimesHold
<1>5. ChecksHold'
  BY DEF AInv, ChecksHold
<1>6. ReadsHold'
  BY DEF AInv, ReadsHold, Fitting
<1> QED
  BY <1>3, <1>4, <1>5, <1>6 DEF AInv

LEMMA DeleteJobKeepsFindings == ASSUME AInv, NEW j, Findings!DeleteJob(j) PROVE AInv'
<1> USE DEF Findings!DeleteJob, Findings!repository, Findings!checkVars
<1>1. jobs \in Lists
  BY DEF AInv, NewsHold
<1>2. /\ DOMAIN jobs' = DOMAIN jobs \ {j}
      /\ \A k \in DOMAIN jobs' : jobs'[k] = jobs[k]
      /\ jobs' \in Lists
  <2>1. DOMAIN jobs \subseteq Jobs /\ jobs \in [DOMAIN jobs -> Dues]
    BY <1>1, ListsDef
  <2>2. jobs' \in [DOMAIN jobs \ {j} -> Dues]
    BY <2>1
  <2> QED
    BY <2>1, <2>2 DEF Lists
<1>3. NewsHold'
  BY <1>2, TellKeeps
<1>4. TimesHold'
  BY <1>1, <1>2 DEF AInv, TimesHold
<1>5. ChecksHold'
  BY DEF AInv, ChecksHold
<1>6. ReadsHold'
  BY DEF AInv, ReadsHold, Fitting
<1> QED
  BY <1>3, <1>4, <1>5, <1>6 DEF AInv

\* What was due is put past the end of the clock.
LEMMA LookKeepsFindings == AInv /\ Findings!Look => AInv'
<1> SUFFICES ASSUME AInv, Findings!Look PROVE AInv'
  OBVIOUS
<1> USE DEF Findings!Look, Findings!repository, Findings!checkVars
<1>1. jobs \in Lists /\ now \in Nat /\ now <= MaxTime /\ MaxTime \in Nat
  BY AttentionAssumption DEF AInv, NewsHold, TimesHold
<1>2. /\ DOMAIN jobs' = DOMAIN jobs
      /\ \A k \in DOMAIN jobs' : jobs'[k] = jobs[k] \/ jobs'[k] = MaxTime + 1
      /\ jobs' \in Lists
  <2>1. DOMAIN jobs \subseteq Jobs /\ jobs \in [DOMAIN jobs -> Dues]
    BY <1>1, ListsDef
  <2>2. MaxTime + 1 \in Dues
    BY <1>1 DEF Dues
  <2>3. jobs' \in [DOMAIN jobs -> Dues]
    BY <2>1, <2>2
  <2> QED
    BY <2>1, <2>3 DEF Lists
<1>3. NewsHold'
  BY <1>2, TellKeeps
<1>4. TimesHold'
  BY <1>1, <1>2 DEF AInv, TimesHold
<1>5. ChecksHold'
  BY DEF AInv, ChecksHold
<1>6. ReadsHold'
  BY DEF AInv, ReadsHold, Fitting
<1> QED
  BY <1>3, <1>4, <1>5, <1>6 DEF AInv

LEMMA StallKeeps == AInv /\ Findings!Stall => AInv'
<1> SUFFICES ASSUME AInv, Findings!Stall PROVE AInv'
  OBVIOUS
<1> USE DEF Findings!Stall, Findings!clientVars, Findings!repository, Findings!checkVars
<1>1. NewsHold'
  BY DEF AInv, NewsHold
<1>2. TimesHold'
  BY DEF AInv, TimesHold
<1>3. ChecksHold'
  BY DEF AInv, ChecksHold
<1>4. ReadsHold'
  BY DEF AInv, ReadsHold, Fitting
<1> QED
  BY <1>1, <1>2, <1>3, <1>4 DEF AInv

LEMMA AskKeepsFindings == AInv /\ Findings!Ask => AInv'
<1> SUFFICES ASSUME AInv, Findings!Ask PROVE AInv'
  OBVIOUS
<1> USE DEF Findings!Ask, Findings!agentVars, Findings!clientVars, Findings!repository
<1>1. NewsHold'
  BY DEF AInv, NewsHold
<1>2. TimesHold'
  BY DEF AInv, TimesHold
<1>3. ChecksHold'
  BY DEF AInv, ChecksHold
<1>4. ReadsHold'
  <2>1. CASE asking' = <<>>
    BY <2>1 DEF ReadsHold
  <2>2. CASE asking' = <<Findings!Inputs>>
    <3>1. asking'[1] = Findings!Inputs /\ now' = now
      BY <2>2
    <3>2. Findings!Inputs.at = now /\ now \in Nat
      BY DEF Findings!Inputs, AInv, TimesHold
    <3> QED
      BY <3>1, <3>2, ReadsFit DEF ReadsHold, Fitting
  <2> QED
    BY <2>1, <2>2
<1> QED
  BY <1>1, <1>2, <1>3, <1>4 DEF AInv

LEMMA AnswerKeeps == AInv /\ Findings!Answer => AInv'
<1> SUFFICES ASSUME AInv, Findings!Answer PROVE AInv'
  OBVIOUS
<1> USE DEF Findings!Answer, Findings!agentVars, Findings!clientVars, Findings!repository
<1>1. NewsHold'
  BY DEF AInv, NewsHold
<1>2. TimesHold'
  BY DEF AInv, TimesHold
<1>3. ChecksHold'
  BY DEF AInv, ChecksHold, TimesHold
<1>4. ReadsHold'
  BY DEF ReadsHold
<1> QED
  BY <1>1, <1>2, <1>3, <1>4 DEF AInv

LEMMA RepositoryTurnsKeeps == AInv /\ Findings!RepositoryTurns => AInv'
<1> SUFFICES ASSUME AInv, Findings!RepositoryTurns PROVE AInv'
  OBVIOUS
<1> USE DEF Findings!RepositoryTurns, Findings!agentVars, Findings!clientVars, Findings!checkVars
<1>1. NewsHold'
  BY DEF AInv, NewsHold
<1>2. TimesHold'
  BY DEF AInv, TimesHold
<1>3. ChecksHold'
  BY DEF AInv, ChecksHold, TimesHold
<1>4. ReadsHold'
  BY DEF AInv, ReadsHold, Fitting
<1> QED
  BY <1>1, <1>2, <1>3, <1>4 DEF AInv

LEMMA TickKeeps == AInv /\ Findings!Tick => AInv'
<1> SUFFICES ASSUME AInv, Findings!Tick PROVE AInv'
  OBVIOUS
<1>0. /\ now \in Nat /\ now' = now + 1 /\ now' \in Nat /\ now' <= MaxTime /\ jobs' = jobs
      /\ checked' = checked /\ asking' = asking /\ answering' = answering
      /\ looping => Findings!DueJobs = {}
      /\ downUntil' = (IF answering THEN downUntil ELSE now')
      /\ upUntil' = (IF answering THEN now' ELSE upUntil)
      /\ stalled' = (IF looping THEN stalled ELSE now')
  BY AttentionAssumption DEF Findings!Tick, Findings!checkVars, AInv, TimesHold
<1>1. NewsHold'
  BY DEF AInv, NewsHold, Findings!Tick, Findings!clientVars
<1>2. TimesHold'
  <2>1. CASE looping
    <3>1. \A j \in DOMAIN jobs : jobs[j] = Findings!Off \/ jobs[j] > now
      <4>1. \A j \in DOMAIN jobs : jobs[j] \in Dues
        BY ListsDef DEF AInv, NewsHold
      <4> QED
        BY <1>0, <2>1, <4>1 DEF Findings!DueJobs, Dues, Findings!Off
    <3>2. \A j \in DOMAIN jobs' : ~(jobs'[j] # Findings!Off /\ jobs'[j] < now')
      <4>1. \A j \in DOMAIN jobs : jobs[j] \in Dues
        BY ListsDef DEF AInv, NewsHold
      <4> QED
        BY <1>0, <3>1, <4>1 DEF Dues, Findings!Off
    <3> QED
      BY <1>0, <2>1, <3>2 DEF AInv, TimesHold
  <2>2. CASE ~looping
    BY <1>0, <2>2 DEF TimesHold
  <2> QED
    BY <2>1, <2>2
<1>3. ChecksHold'
  BY <1>0 DEF AInv, ChecksHold
<1>4. ReadsHold'
  BY <1>0, ReadsStay
<1> QED
  BY <1>1, <1>2, <1>3, <1>4 DEF AInv

LEMMA OthersKeepFindings ==
  AInv /\ (Findings!TunnelTurns \/ (\E j \in Jobs : Findings!TakeRun(j)) \/
           (\E j \in Jobs, s \in {"success", "failed", "aborted"} : Findings!EndRun(j, s))) => AInv'
<1> SUFFICES ASSUME AInv, UNCHANGED <<now, jobs, stalled, online, news, cache,
                                      answering, downUntil, upUntil, checked, asking>>
             PROVE  AInv'
  BY DEF Findings!TunnelTurns, Findings!TakeRun, Findings!EndRun, Findings!agentVars, Findings!clientVars,
         Findings!repository, Findings!checkVars
<1>1. NewsHold'
  BY DEF AInv, NewsHold
<1>2. TimesHold'
  BY DEF AInv, TimesHold
<1>3. ChecksHold'
  BY DEF AInv, ChecksHold
<1>4. ReadsHold'
  BY DEF AInv, ReadsHold, Fitting
<1> QED
  BY <1>1, <1>2, <1>3, <1>4 DEF AInv

LEMMA FindingsStep == AInv /\ Findings!Next => AInv'
<1> SUFFICES ASSUME AInv, Findings!Next PROVE AInv'
  OBVIOUS
<1>1. CASE Findings!Connect \/ Findings!Disconnect \/ Findings!TakeList \/ Findings!Look \/ Findings!Stall
  BY <1>1, ConnectKeeps, DisconnectKeeps, TakeListKeeps, LookKeepsFindings, StallKeeps
<1>2. ASSUME NEW j \in Jobs,
             \/ Findings!DeleteJob(j)
             \/ \E due \in {Findings!Off, now, now + 1} : Findings!SaveJob(j, due)
      PROVE  AInv'
  BY <1>2, DeleteJobKeepsFindings, SaveJobKeepsFindings
<1>3. CASE \/ Findings!TunnelTurns \/ (\E j \in Jobs : Findings!TakeRun(j))
           \/ (\E j \in Jobs, s \in {"success", "failed", "aborted"} : Findings!EndRun(j, s))
  BY <1>3, OthersKeepFindings
<1>4. CASE Findings!Ask \/ Findings!Answer \/ Findings!RepositoryTurns \/ Findings!Tick
  BY <1>4, AskKeepsFindings, AnswerKeeps, RepositoryTurnsKeeps, TickKeeps
<1> QED
  BY <1>1, <1>2, <1>3, <1>4 DEF Findings!Next

-----------------------------------------------------------------------------
(***************************************************************************)
(* What a report says.                                                     *)
(***************************************************************************)
\* Everything a report may find, and when it does.
LEMMA WhatIsFound ==
  ASSUME NEW in, NEW answers \in BOOLEAN
  PROVE  \A f : f \in Findings!BuildFindings(in, answers) <=>
           \/ ~answers /\ f = Findings!Finding("repository-offline", "error", "repository")
           \/ /\ in.seen /\ \E j \in Findings!ExistingJobRuns(in) :
                   /\ in.latest[j] \in DOMAIN Findings!RunFinding
                   /\ f = Findings!Finding(in.latest[j], Findings!RunFinding[in.latest[j]], j)
           \/ in.seen /\ in.online /\ f \in Findings!ClientFindings(in)
           \/ in.seen /\ in.online /\ f \in Findings!OverdueRuns(in)
           \/ in.seen /\ ~in.online /\ f = Findings!Finding("client-offline", "error", "client")
BY DEF Findings!BuildFindings, Findings!When, Findings!RunFindings

\* The jobs a list says should have run by now.
Late(in) ==
  {j \in DOMAIN in.cache[1] :
     /\ ~(j \in Findings!ExistingJobRuns(in) /\ in.latest[j] \in Findings!UnderWay)
     /\ in.cache[1][j] # Findings!Off /\ in.at - in.cache[1][j] > MissedAfter}

LEMMA OverdueAreLate ==
  ASSUME NEW in
  PROVE  \A f : f \in Findings!OverdueRuns(in) <=>
                  in.cache # <<>> /\ \E j \in Late(in) : f = Findings!Finding("run-overdue", "warning", j)
<1>1. CASE in.cache = <<>>
  <2>1. DOMAIN <<>> = {}
    OBVIOUS
  <2> QED
    BY <1>1, <2>1 DEF Findings!OverdueRuns
<1>2. CASE in.cache # <<>>
  BY <1>2 DEF Findings!OverdueRuns, Late
<1> QED
  BY <1>1, <1>2

LEMMA WhatTypesMean ==
  ASSUME NEW in, NEW answers \in BOOLEAN, NEW f \in Findings!BuildFindings(in, answers)
  PROVE  /\ f.type = "repository-offline" => ~answers
         /\ f.type = "client-without-jobs" =>
              in.seen /\ in.online /\ in.cache # <<>> /\ DOMAIN in.cache[1] = {}
         /\ f.type = "run-overdue" => in.seen /\ in.online /\ in.cache # <<>> /\ f.about \in Late(in)
         /\ f.type = "failed" =>
              in.seen /\ f.about \in Findings!ExistingJobRuns(in) /\ in.latest[f.about] = "failed"
<1> USE DEF Findings!Finding
<1>1. CASE ~answers /\ f = Findings!Finding("repository-offline", "error", "repository")
  BY <1>1
<1>2. CASE in.seen /\ \E j \in Findings!ExistingJobRuns(in) :
             /\ in.latest[j] \in DOMAIN Findings!RunFinding
             /\ f = Findings!Finding(in.latest[j], Findings!RunFinding[in.latest[j]], j)
  <2>1. PICK j \in Findings!ExistingJobRuns(in) :
             /\ in.latest[j] \in DOMAIN Findings!RunFinding
             /\ f = Findings!Finding(in.latest[j], Findings!RunFinding[in.latest[j]], j)
    BY <1>2
  <2>2. in.latest[j] \in {"failed", "aborted", "missed"}
    BY <2>1 DEF Findings!RunFinding
  <2>3. f.type = in.latest[j] /\ f.about = j
    BY <2>1
  <2> QED
    BY <1>2, <2>2, <2>3
<1>3. CASE in.seen /\ in.online /\ f \in Findings!ClientFindings(in)
  BY <1>3 DEF Findings!ClientFindings, Findings!When
<1>4. CASE in.seen /\ in.online /\ f \in Findings!OverdueRuns(in)
  BY <1>4, OverdueAreLate
<1>5. CASE in.seen /\ ~in.online /\ f = Findings!Finding("client-offline", "error", "client")
  BY <1>5
<1> QED
  BY <1>1, <1>2, <1>3, <1>4, <1>5, WhatIsFound

LEMMA FailureIsFound ==
  ASSUME NEW in, NEW answers \in BOOLEAN, NEW j \in Findings!ExistingJobRuns(in), in.seen, in.latest[j] = "failed"
  PROVE  Findings!Finding("failed", "error", j) \in Findings!BuildFindings(in, answers)
<1>1. "failed" \in DOMAIN Findings!RunFinding /\ Findings!RunFinding["failed"] = "error"
  BY DEF Findings!RunFinding
<1> QED
  BY <1>1, WhatIsFound

\* What a reader is told of what fits together: no alarm is false ...
LEMMA ReportIsTrue ==
  ASSUME NEW in, Fitting(in), NEW answers \in BOOLEAN
  PROVE  LET report == Findings!Report(in, answers)  fact == in.fact IN
    /\ "client-without-jobs" \in Findings!Types(report) /\ fact.told => fact.jobs = <<>>
    /\ \A j \in Jobs :
         /\ Findings!Has(report, "run-overdue", j) =>
              /\ fact.told => j \in DOMAIN fact.jobs /\ fact.jobs[j] \in 0 .. in.at - MissedAfter - 1
              /\ fact.told => fact.stalled >= in.at - 1
         /\ Findings!Has(report, "failed", j) =>
              /\ in.online /\ fact.told => j \in DOMAIN fact.jobs
              /\ fact.last[j] = "failed" \/ ~in.online \/ fact.last[j] # in.latest[j]
    /\ in.online /\ fact.told => report.active = Findings!Cardinality(DOMAIN fact.jobs)
    /\ "repository-offline" \in Findings!Types(report) => ~answers
<1> DEFINE report == Findings!Report(in, answers)
           F == Findings!BuildFindings(in, answers)
<1>1. report.findings = F /\ report.in = in
  BY DEF Findings!Report
<1>2. \A y : y \in Findings!Types(report) => \E f \in F : f.type = y
  BY <1>1 DEF Findings!Types
<1>3. \A y, j : Findings!Has(report, y, j) => \E f \in F : f.type = y /\ f.about = j
  BY <1>1 DEF Findings!Has
<1> HIDE DEF report, F
<1>4. "client-without-jobs" \in Findings!Types(report) /\ in.fact.told => in.fact.jobs = <<>>
  <2> SUFFICES ASSUME "client-without-jobs" \in Findings!Types(report), in.fact.told
               PROVE  in.fact.jobs = <<>>
    OBVIOUS
  <2>1. in.online /\ DOMAIN in.cache[1] = {}
    BY <1>2, WhatTypesMean DEF F
  <2>2. in.fact.jobs \in Lists /\ in.cache[1] = in.fact.jobs
    BY <2>1 DEF Fitting
  <2> QED
    BY <2>1, <2>2, EmptyList
<1>5. ASSUME NEW j, Findings!Has(report, "run-overdue", j), in.fact.told
      PROVE  /\ j \in DOMAIN in.fact.jobs /\ in.fact.jobs[j] \in 0 .. in.at - MissedAfter - 1
             /\ in.fact.stalled >= in.at - 1
  <2>1. in.online /\ j \in Late(in)
    BY <1>3, <1>5, WhatTypesMean DEF F
  <2>2. in.fact.jobs \in Lists /\ in.cache[1] = in.fact.jobs
    BY <1>5, <2>1 DEF Fitting
  <2>3. /\ j \in DOMAIN in.fact.jobs /\ in.fact.jobs[j] # Findings!Off
        /\ in.at - in.fact.jobs[j] > MissedAfter
    BY <2>1, <2>2 DEF Late
  <2>4. in.fact.jobs[j] \in Nat
    BY <2>2, <2>3, ListsDef DEF Dues
  <2>5. in.at \in Nat /\ MissedAfter \in Nat
    BY AttentionAssumption DEF Fitting
  <2>6. in.fact.jobs[j] < in.at /\ in.fact.jobs[j] \in 0 .. in.at - MissedAfter - 1
    BY <2>3, <2>4, <2>5
  <2> QED
    BY <2>3, <2>6 DEF Fitting
<1>6. ASSUME NEW j, Findings!Has(report, "failed", j)
      PROVE  /\ in.online /\ in.fact.told => j \in DOMAIN in.fact.jobs
             /\ in.latest[j] = "failed"
  <2>1. j \in Findings!ExistingJobRuns(in) /\ in.latest[j] = "failed"
    BY <1>3, <1>6, WhatTypesMean DEF F
  <2>2. in.online /\ in.fact.told => in.cache # <<>> /\ in.cache[1] = in.fact.jobs
    BY DEF Fitting
  <2> QED
    BY <2>1, <2>2 DEF Findings!ExistingJobRuns
<1>7. in.online /\ in.fact.told => report.active = Findings!Cardinality(DOMAIN in.fact.jobs)
  <2>1. in.online /\ in.fact.told => in.cache # <<>> /\ in.cache[1] = in.fact.jobs
    BY DEF Fitting
  <2>2. report.active = Findings!ActiveJobCount(in)
    BY DEF report, Findings!Report
  <2> QED
    BY <2>1, <2>2 DEF Findings!ActiveJobCount
<1>8. "repository-offline" \in Findings!Types(report) => ~answers
  BY <1>2, WhatTypesMean DEF F
<1> QED
  BY <1>4, <1>5, <1>6, <1>7, <1>8 DEF report

\* ... and no trouble is left out.
LEMMA ReportIsComplete ==
  ASSUME NEW in, Fitting(in), NEW answers \in BOOLEAN, in.seen
  PROVE  LET report == Findings!Report(in, answers)  fact == in.fact IN
    /\ ~in.online => "client-offline" \in Findings!Types(report)
    /\ \A j \in DOMAIN fact.jobs :
         /\ in.latest[j] = "failed" /\ (in.online => fact.told) => Findings!Has(report, "failed", j)
         /\ /\ in.online /\ fact.told /\ in.latest[j] \notin Findings!UnderWay
            /\ fact.jobs[j] # Findings!Off /\ in.at - fact.jobs[j] > MissedAfter
            => Findings!Has(report, "run-overdue", j)
    /\ ~answers => "repository-offline" \in Findings!Types(report)
    /\ report.status = "healthy" =>
         /\ in.online /\ report.answers
         /\ fact.told => \A j \in DOMAIN fact.jobs : in.latest[j] # "failed"
<1> DEFINE report == Findings!Report(in, answers)
           F == Findings!BuildFindings(in, answers)
<1>1. report.findings = F /\ report.answers = answers /\ report.status = Findings!BackupStatus(in, F)
  BY DEF Findings!Report
<1>2. \A f \in F : f.type \in Findings!Types(report) /\ Findings!Has(report, f.type, f.about)
  BY <1>1 DEF Findings!Types, Findings!Has
<1> HIDE DEF report, F
<1>3. ~in.online => Findings!Finding("client-offline", "error", "client") \in F
  BY WhatIsFound DEF F
<1>4. ASSUME NEW j \in DOMAIN in.fact.jobs, in.latest[j] = "failed", in.online => in.fact.told
      PROVE  Findings!Finding("failed", "error", j) \in F
  <2>1. in.cache = <<>> \/ in.cache = <<in.fact.jobs>>
    BY <1>4 DEF Fitting
  <2>2. j \in Jobs
    BY ListsDef DEF Fitting
  <2>3. j \in Findings!ExistingJobRuns(in)
    BY <1>4, <2>1, <2>2 DEF Findings!ExistingJobRuns
  <2> QED
    BY <1>4, <2>3, FailureIsFound DEF F
<1>5. ASSUME NEW j \in DOMAIN in.fact.jobs, in.online, in.fact.told, in.latest[j] \notin Findings!UnderWay,
             in.fact.jobs[j] # Findings!Off, in.at - in.fact.jobs[j] > MissedAfter
      PROVE  Findings!Finding("run-overdue", "warning", j) \in F
  <2>1. in.cache # <<>> /\ in.cache[1] = in.fact.jobs
    BY <1>5 DEF Fitting
  <2>2. j \in Late(in)
    BY <1>5, <2>1 DEF Late
  <2> QED
    BY <1>5, <2>1, <2>2, OverdueAreLate, WhatIsFound DEF F
<1>6. ~answers => Findings!Finding("repository-offline", "error", "repository") \in F
  BY WhatIsFound DEF F
<1>7. report.status = "healthy" => F = {}
  BY <1>1 DEF Findings!BackupStatus
<1>8. \A y, s, j : /\ Findings!Finding(y, s, j).type = y
                   /\ Findings!Finding(y, s, j).about = j
  BY DEF Findings!Finding
<1>9. ~in.online => "client-offline" \in Findings!Types(report)
  BY <1>2, <1>3, <1>8
<1>10. \A j \in DOMAIN in.fact.jobs :
         /\ in.latest[j] = "failed" /\ (in.online => in.fact.told) => Findings!Has(report, "failed", j)
         /\ /\ in.online /\ in.fact.told /\ in.latest[j] \notin Findings!UnderWay
            /\ in.fact.jobs[j] # Findings!Off /\ in.at - in.fact.jobs[j] > MissedAfter
            => Findings!Has(report, "run-overdue", j)
  BY <1>2, <1>4, <1>5, <1>8
<1>11. ~answers => "repository-offline" \in Findings!Types(report)
  BY <1>2, <1>6, <1>8
<1>12. report.status = "healthy" =>
         /\ in.online /\ report.answers
         /\ in.fact.told => \A j \in DOMAIN in.fact.jobs : in.latest[j] # "failed"
  BY <1>1, <1>3, <1>4, <1>6, <1>7
<1> QED
  BY <1>9, <1>10, <1>11, <1>12 DEF report

\* A reader gets a report of now under a check that is fresh, or the one he waits
\* for; either way what it says of the repository is not older than a check.
LEMMA EveryReport ==
  ASSUME AInv, NEW report \in Findings!Reports
  PROVE  \E in : \E answers \in BOOLEAN :
           /\ report = Findings!Report(in, answers) /\ Fitting(in)
           /\ ~answers => downUntil >= in.at - CacheFor - 1
           /\ (~answering /\ upUntil < in.at - CacheFor - 1) => ~answers
<1>1. /\ now \in Nat /\ CacheFor \in Nat /\ answering \in BOOLEAN /\ downUntil \in Int /\ upUntil \in Int
      /\ answering => upUntil = now
      /\ ~answering => downUntil = now
  BY AttentionAssumption DEF AInv, TimesHold, ChecksHold
<1>2. CASE Findings!Fresh /\ report = Findings!Report(Findings!Inputs, checked[1].answers)
  <2>1. PICK a \in BOOLEAN, t \in Nat :
          /\ checked = <<[answers |-> a, at |-> t]>>
          /\ a => upUntil >= t
          /\ ~a => downUntil >= t
    BY <1>2 DEF AInv, ChecksHold, Findings!Fresh
  <2>2. checked[1].answers = a /\ checked[1].at = t
    BY <2>1
  <2>3. now - t < CacheFor
    BY <1>2, <2>2 DEF Findings!Fresh
  <2>4. Findings!Inputs.at = now
    BY DEF Findings!Inputs
  <2>5. ~a => downUntil >= now - CacheFor - 1
    BY <1>1, <2>1, <2>3
  <2>6. upUntil < now - CacheFor - 1 => ~a
    BY <1>1, <2>1, <2>3
  <2>7. /\ report = Findings!Report(Findings!Inputs, a) /\ Fitting(Findings!Inputs)
        /\ ~a => downUntil >= Findings!Inputs.at - CacheFor - 1
        /\ (~answering /\ upUntil < Findings!Inputs.at - CacheFor - 1) => ~a
    BY <1>2, <2>2, <2>4, <2>5, <2>6, ReadsFit
  <2> QED
    BY <2>7
<1>3. CASE asking # <<>> /\ report = Findings!Report(asking[1], answering)
  <2>1. Fitting(asking[1]) /\ asking[1].at \in Nat /\ asking[1].at <= now
    BY <1>3 DEF AInv, ReadsHold, Fitting
  <2>2. ~answering => downUntil >= asking[1].at - CacheFor - 1
    BY <1>1, <2>1
  <2>3. /\ report = Findings!Report(asking[1], answering) /\ Fitting(asking[1])
        /\ ~answering => downUntil >= asking[1].at - CacheFor - 1
        /\ (~answering /\ upUntil < asking[1].at - CacheFor - 1) => ~answering
    BY <1>3, <2>1, <2>2
  <2> QED
    BY <1>1, <2>3
<1> QED
  BY <1>2, <1>3 DEF Findings!Reports

LEMMA FindingsShow == AInv => Findings!AttentionHolds
<1> SUFFICES ASSUME AInv PROVE Findings!AttentionHolds
  OBVIOUS
<1>1. ASSUME NEW in, NEW answers PROVE Findings!Report(in, answers).in = in
  BY DEF Findings!Report
<1>2. Findings!AlarmsAreTrue
  <2> SUFFICES ASSUME NEW report \in Findings!Reports
               PROVE  LET in == report.in  fact == in.fact IN
    /\ "client-without-jobs" \in Findings!Types(report) /\ fact.told => fact.jobs = <<>>
    /\ \A j \in Jobs :
         /\ Findings!Has(report, "run-overdue", j) =>
              /\ fact.told => j \in DOMAIN fact.jobs /\ fact.jobs[j] \in 0 .. in.at - MissedAfter - 1
              /\ fact.told => fact.stalled >= in.at - 1
         /\ Findings!Has(report, "failed", j) =>
              /\ in.online /\ fact.told => j \in DOMAIN fact.jobs
              /\ fact.last[j] = "failed" \/ ~in.online \/ fact.last[j] # in.latest[j]
    /\ in.online /\ fact.told => report.active = Findings!Cardinality(DOMAIN fact.jobs)
    /\ "repository-offline" \in Findings!Types(report) => downUntil >= in.at - CacheFor - 1
    BY DEF Findings!AlarmsAreTrue
  <2>1. PICK in : \E answers \in BOOLEAN :
           /\ report = Findings!Report(in, answers) /\ Fitting(in)
           /\ ~answers => downUntil >= in.at - CacheFor - 1
    BY EveryReport
  <2>2. report.in = in
    BY <1>1, <2>1
  <2> QED
    BY <2>1, <2>2, ReportIsTrue
<1>3. Findings!ProblemsAreTold
  <2> SUFFICES ASSUME NEW report \in Findings!Reports, report.in.seen
               PROVE  LET in == report.in  fact == in.fact IN
      /\ ~in.online => "client-offline" \in Findings!Types(report)
      /\ \A j \in DOMAIN fact.jobs :
           /\ in.latest[j] = "failed" /\ (in.online => fact.told) => Findings!Has(report, "failed", j)
           /\ /\ in.online /\ fact.told /\ in.latest[j] \notin Findings!UnderWay
              /\ fact.jobs[j] # Findings!Off /\ in.at - fact.jobs[j] > MissedAfter
              => Findings!Has(report, "run-overdue", j)
      /\ (~answering /\ upUntil < in.at - CacheFor - 1) => "repository-offline" \in Findings!Types(report)
      /\ report.status = "healthy" =>
           /\ in.online /\ report.answers
           /\ fact.told => \A j \in DOMAIN fact.jobs : in.latest[j] # "failed"
    BY DEF Findings!ProblemsAreTold
  <2>1. PICK in : \E answers \in BOOLEAN :
           /\ report = Findings!Report(in, answers) /\ Fitting(in)
           /\ (~answering /\ upUntil < in.at - CacheFor - 1) => ~answers
    BY EveryReport
  <2>2. report.in = in
    BY <1>1, <2>1
  <2> QED
    BY <2>1, <2>2, ReportIsComplete
<1> QED
  BY <1>2, <1>3 DEF Findings!AttentionHolds

\* The report tells of what is wrong and of nothing else, as far as the server can
\* know it: no job is called missing or late because its news has not come, and no
\* host, failed job or repository that is in trouble is passed over, whether the
\* report is made of a check that is fresh or waits for one (StatusService.report,
\* RepositoryStatusService, backupFindings).
THEOREM ReportsAreTrueAndComplete == MCSpec => []AttentionKept
<1> DEFINE Inv == part = "attention" => AInv
<1>1. MCInit => Inv
  BY AttentionStarts DEF MCInit
<1>2. Inv /\ [MCNext]_<<part, vars, attentionVars, cardVars>> => Inv'
  <2> SUFFICES ASSUME Inv, [MCNext]_<<part, vars, attentionVars, cardVars>> PROVE Inv'
    OBVIOUS
  <2>1. CASE part = "sync" /\ Next /\ UNCHANGED <<part, attentionVars, cardVars>>
    BY <2>1
  <2>2. CASE part = "attention" /\ Findings!Next /\ UNCHANGED <<part, vars, cardVars>>
    BY <2>2, FindingsStep
  <2>3. CASE part = "tunnel" /\ Card!Next /\ UNCHANGED <<part, vars, attentionVars>>
    BY <2>3
  <2>4. CASE UNCHANGED <<part, vars, attentionVars, cardVars>>
    <3>1. part' = part /\ UNCHANGED <<now, jobs, stalled, online, news, cache,
                                      answering, downUntil, upUntil, checked, asking>>
      BY <2>4 DEF attentionVars
    <3>2. AInv => AInv'
      <4> SUFFICES ASSUME AInv PROVE AInv'
        OBVIOUS
      <4>1. NewsHold' /\ TimesHold'
        BY <3>1 DEF AInv, NewsHold, TimesHold
      <4>2. ChecksHold' /\ ReadsHold'
        BY <3>1 DEF AInv, ChecksHold, ReadsHold, Fitting
      <4> QED
        BY <4>1, <4>2 DEF AInv
    <3> QED
      BY <3>1, <3>2
  <2> QED
    BY <2>1, <2>2, <2>3, <2>4 DEF MCNext
<1>3. Inv => AttentionKept
  BY FindingsShow DEF AttentionKept
<1> QED
  BY <1>1, <1>2, <1>3, PTL DEF MCSpec

=============================================================================
