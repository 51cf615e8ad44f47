----------------------------- MODULE HistorySync -----------------------------
(***************************************************************************)
(* How the runs of one agent reach the server's job_history table: the     *)
(* agent's HistorySync and the live STATUS_UPDATEs of its runs on one side *)
(* (client/src/features/HistorySync.ts, core/Connection.ts), the server's  *)
(* AgentSession, AgentMessageRouter and JobHistoryRepository on the other. *)
(*                                                                         *)
(* Agent and server talk over sockets 1, 2, ... opened one after another.  *)
(* A socket is FIFO in each direction, its two ends close independently,   *)
(* and what is under way when an end closes is lost.  Both sides handle    *)
(* every message in one run-to-completion step.                            *)
(***************************************************************************)
EXTENDS HistoryStore, Sequences

CONSTANTS
    BatchSize,     \* BATCH_SIZE: rows per SYNC_HISTORY
    Malformed,     \* runs whose entry the server's schema refuses
    Reinserted,    \* runs the executor may write as new while their row exists
    EndStates,     \* bound: the final states runs take in an instance
    LateDelivery,  \* TRUE: a replaced socket may still deliver to the server
    MaxSockets,    \* bound: sockets opened; the last one stays up
    MaxQueue,      \* bound: messages under way on the socket a timer sends on
    MaxFailures,   \* bound: failed writes, on either side
    MaxRestarts,   \* bound: restarts of the agent
    MaxRequeues    \* bound: clock up to which a run is written anew

ASSUME SyncAssumption ==
    /\ Malformed \subseteq Runs /\ Reinserted \subseteq Runs
    /\ EndStates \subseteq Final /\ LateDelivery \in BOOLEAN
    /\ BatchSize \in Nat \ {0} /\ MaxSockets \in Nat \ {0}
    /\ MaxQueue \in Nat /\ MaxFailures \in Nat
    /\ MaxRestarts \in Nat /\ MaxRequeues \in Nat

VARIABLES
    hist,        \* the agent's history, on disk and indexed
    clock,       \* the agent's clock, as the rows' timestamps use it
    post,        \* runs whose post-script has not ended
    deferred,    \* Executor.deferredChecks: interrupted runs to be looked up
    checking,    \* those being looked up
    conn,        \* Connection.wsInstance, NoSocket while there is none
    active,      \* HistorySync.active
    flushTimer,  \* HistorySync.flushTimer is armed
    retryTimer,  \* HistorySync.retryTimer is armed
    opened,      \* sockets opened so far
    agentEnds,   \* sockets the agent still has handlers on
    serverEnds,  \* sockets the server still has handlers on
    toServer,    \* messages under way, per socket
    toAgent,
    registered,  \* the socket ProxyService holds for the agent
    table,       \* job_history: status and revision per run
    reports,     \* history variable: final states handed to the webhooks
    latest,      \* history variable: highest revision the agent ever wrote
    restarts, failures

runVars == <<post, deferred, checking>>
agentVars == <<hist, clock, runVars, latest>>
timers == <<active, flushTimer, retryTimer>>
sockets == <<opened, agentEnds, serverEnds>>
serverVars == <<registered, table, reports>>
bounds == <<restarts, failures>>
vars == <<agentVars, conn, timers, sockets, toServer, toAgent, serverVars, bounds>>

NoSocket == 0
Sockets == 1..MaxSockets
NoRow == [status |-> "none", rev |-> Null]

Entry == [rev : Nat \ {0}, status : Status]

Auth == [type |-> "AUTH"]
AuthSuccess == [type |-> "AUTH_SUCCESS"]
StatusUpdate(r, s) == [type |-> "STATUS_UPDATE", id |-> r, status |-> s]
SyncHistory(b) == [type |-> "SYNC_HISTORY", history |-> b]
HistoryAck(a) == [type |-> "HISTORY_ACK", entries |-> a]

IsAgentMessage(m) ==
    \/ m = Auth
    \/ \E r \in Runs, s \in Terminal : m = StatusUpdate(r, s)
    \/ m.type = "SYNC_HISTORY" /\ IsPerRun(m.history, Entry) /\ m = SyncHistory(m.history)

IsServerMessage(m) ==
    \/ m = AuthSuccess
    \/ m.type = "HISTORY_ACK" /\ IsPerRun(m.entries, Nat \ {0}) /\ m = HistoryAck(m.entries)

-----------------------------------------------------------------------------
(***************************************************************************)
(* The agent's end.  An operator takes the queues it appends to, so that   *)
(* one handler can send more than one message.                             *)
(***************************************************************************)

\* `Connection.send`: goes out over the current socket, or nowhere.
Send(q, c, m) == IF c \in serverEnds THEN [q EXCEPT ![c] = Append(@, m)] ELSE q

Connected == conn # NoSocket

BatchOf(h) == [r \in OldestDue(h, BatchSize) |->
                  [rev |-> h[r].rev, status |-> h[r].status]]

\* Mutant: no retry is armed for what goes out.
FlushWithoutRetry(h, isActive, q) ==
    LET sends == isActive /\ Connected /\ Due(h) # {}
    IN  /\ flushTimer' = FALSE
        /\ retryTimer' = FALSE
        /\ toServer' = IF sends THEN Send(q, conn, SyncHistory(BatchOf(h))) ELSE q

\* `HistorySync.flush` on history h, once `active` and q are what they are then.
Flush(h, isActive, q) ==
    LET sends == isActive /\ Connected /\ Due(h) # {}
    IN  /\ flushTimer' = FALSE
        /\ retryTimer' = sends
        /\ toServer' = IF sends THEN Send(q, conn, SyncHistory(BatchOf(h))) ELSE q

\* `HistorySync.stop`
StopSync == active' = FALSE /\ flushTimer' = FALSE /\ retryTimer' = FALSE

\* `HistorySync.schedule`, called by the repository after a write.
ScheduleFlush == /\ flushTimer' = (flushTimer \/ active)
                 /\ UNCHANGED <<active, retryTimer>>

\* A write of run r followed by a live update, which a socket only carries
\* while there is one.  Updates of a state that is not terminal change nothing
\* the server stores and are left out.
WriteRun(r, h) ==
    /\ hist' = h
    /\ latest' = [latest EXCEPT ![r] = IF r \in DOMAIN h /\ h[r].rev > @
                                       THEN h[r].rev ELSE @]
    /\ ScheduleFlush

Live(r, s) == toServer' = IF s \in Terminal
                          THEN Send(toServer, conn, StatusUpdate(r, s))
                          ELSE toServer

Tick == clock' = clock + 1

\* Run ids are fresh: a run is new while the agent never wrote it.
IsNew(r) == latest[r] = 0
InStatus(r, s) == r \in DOMAIN hist /\ hist[r].status = s

agentRest == <<conn, sockets, toAgent, serverVars, bounds>>

-----------------------------------------------------------------------------
(***************************************************************************)
(* The writes a run makes in the agent's history, and what it tells the    *)
(* server live (Executor, ProcessRunner, Scheduler).                       *)
(***************************************************************************)
\* Triggered while its job is busy: queued.
Enqueue(r) ==
    /\ IsNew(r)
    /\ WriteRun(r, Insert(hist, r, "queued", clock))
    /\ Live(r, "queued") /\ Tick
    /\ UNCHANGED <<runVars, agentRest>>

\* Triggered with the queue full, or found to have missed its schedule.
RecordUnstarted(r, s) ==
    /\ IsNew(r)
    /\ WriteRun(r, Insert(hist, r, s, clock))
    /\ Live(r, s) /\ Tick
    /\ UNCHANGED <<runVars, agentRest>>

\* A queued run whose slot was taken again during its delay is written anew.
Reinsert(r, s) ==
    /\ r \in Reinserted /\ InStatus(r, "queued") /\ clock < MaxRequeues
    /\ WriteRun(r, Insert(hist, r, s, clock))
    /\ Live(r, s) /\ Tick
    /\ UNCHANGED <<runVars, agentRest>>

Start(r) ==
    /\ IsNew(r) \/ InStatus(r, "queued")
    /\ WriteRun(r, StartRunning(hist, r, clock))
    /\ Live(r, "running") /\ Tick
    /\ UNCHANGED <<runVars, agentRest>>

\* A config that does not resolve, a failed pre-script: no process was started.
FailBeforeStart(r) ==
    /\ IsNew(r) \/ InStatus(r, "queued")
    /\ WriteRun(r, RecordFailed(hist, r, clock))
    /\ Live(r, "failed") /\ Tick
    /\ UNCHANGED <<runVars, agentRest>>

\* The operator aborts a run in the queue.
AbortQueued(r) ==
    /\ "abort" \in EndStates /\ InStatus(r, "queued")
    /\ WriteRun(r, SetStatus(hist, r, "abort"))
    /\ Live(r, "abort")
    /\ UNCHANGED <<clock, runVars, agentRest>>

\* A backup about to start its process records the snapshot it will create.
Name(r) ==
    /\ InStatus(r, "running") /\ ~hist[r].snapshot
    /\ WriteRun(r, SetSnapshot(hist, r))
    /\ Live(r, "running")
    /\ UNCHANGED <<clock, runVars, agentRest>>

\* The process ended.
Finish(r, s) ==
    /\ InStatus(r, "running") /\ r \notin deferred \cup checking
    /\ WriteRun(r, SetStatus(hist, r, s))
    /\ Live(r, s)
    /\ post' = IF s = "success" THEN post \cup {r} ELSE post
    /\ UNCHANGED <<clock, deferred, checking, agentRest>>

\* The post-script ended; if it failed, a recorded success becomes a failure.
PostScript(r, ok) ==
    /\ r \in post
    /\ post' = post \ {r}
    /\ IF ok THEN UNCHANGED <<hist, latest, timers, toServer>>
             ELSE /\ WriteRun(r, SetStatus(hist, r, "failed"))
                  /\ Live(r, "failed")
    /\ UNCHANGED <<clock, deferred, checking, agentRest>>

\* The PBS told, or could not be asked, whether an interrupted backup got through.
SettleDeferred(r, s) ==
    /\ r \in checking
    /\ checking' = checking \ {r}
    /\ WriteRun(r, SetStatus(hist, r, s))
    /\ Live(r, s)
    /\ UNCHANGED <<clock, post, deferred, agentRest>>

\* The agent's process dies and comes back: the history is loaded (and pruned),
\* and the runs it finds `running` are settled before it connects -- backups by
\* the snapshots `found` on the PBS -- save the tunnel backups, `held` back.
Restart(held, found) ==
    LET stale == {r \in DOMAIN hist : hist[r].status = "running"} \ held
        settled == [r \in DOMAIN hist |->
                       IF r \notin stale THEN hist[r]
                       ELSE Revised(hist[r],
                                    IF r \in found THEN "success" ELSE "abort",
                                    hist[r].started)]
        loaded == DOMAIN Prune(hist)
    IN  /\ restarts < MaxRestarts /\ opened < MaxSockets
        /\ held \subseteq Interrupted(hist)
        /\ found \subseteq Interrupted(hist) \ held
        /\ restarts' = restarts + 1
        /\ hist' = [r \in loaded |-> settled[r]]
        /\ latest' = [r \in Runs |-> IF r \in stale /\ hist[r].rev = latest[r]
                                     THEN latest[r] + 1 ELSE latest[r]]
        /\ post' = {} /\ deferred' = held /\ checking' = {}
        /\ conn' = NoSocket /\ StopSync
        /\ agentEnds' = {}
        /\ toAgent' = [c \in Sockets |-> <<>>]
        /\ UNCHANGED <<clock, opened, serverEnds, toServer, serverVars, failures>>

-----------------------------------------------------------------------------
(***************************************************************************)
(* The connection.  The agent dials (inbound mode) or is dialled (outbound *)
(* mode); either way it has the new socket at once and sends AUTH on it.   *)
(***************************************************************************)
Open ==
    /\ opened < MaxSockets
    /\ LET c == opened + 1 IN
        /\ opened' = c /\ conn' = c
        /\ agentEnds' = agentEnds \cup {c} /\ serverEnds' = serverEnds \cup {c}
        /\ toServer' = [toServer EXCEPT ![c] = <<Auth>>]
    /\ StopSync
    /\ UNCHANGED <<agentVars, toAgent, serverVars, bounds>>

\* The agent's `close` handler.  A replaced socket does not stop the sync.
AgentClose(c) ==
    /\ c \in agentEnds
    /\ c < MaxSockets \/ c \notin serverEnds
    /\ agentEnds' = agentEnds \ {c}
    /\ toAgent' = [toAgent EXCEPT ![c] = <<>>]
    /\ IF conn = c THEN conn' = NoSocket /\ StopSync ELSE UNCHANGED <<conn, timers>>
    /\ UNCHANGED <<agentVars, opened, serverEnds, toServer, serverVars, bounds>>

\* The server's `close` handler, and the end of what the socket still carried.
ServerClose(c) ==
    /\ c \in serverEnds /\ c < MaxSockets
    /\ serverEnds' = serverEnds \ {c}
    /\ toServer' = [toServer EXCEPT ![c] = <<>>]
    /\ registered' = IF registered = c THEN NoSocket ELSE registered
    /\ UNCHANGED <<agentVars, conn, timers, opened, agentEnds, toAgent,
                   table, reports, bounds>>

-----------------------------------------------------------------------------
(***************************************************************************)
(* The server's handlers.                                                  *)
(***************************************************************************)
Arrives(c, type) == /\ c \in serverEnds /\ toServer[c] # <<>>
                    /\ Head(toServer[c]).type = type

Taken(c) == [toServer EXCEPT ![c] = Tail(@)]

\* `socket.send`: a socket the server has replaced is closing and takes nothing.
Answer(c, to, m) == IF c = to /\ c \in agentEnds
                    THEN [toAgent EXCEPT ![c] = Append(@, m)] ELSE toAgent

\* AUTH: the session is registered, an older socket of the agent is closed.
HandleAuth(c) ==
    /\ Arrives(c, "AUTH")
    /\ registered' = c
    /\ toAgent' = Answer(c, c, AuthSuccess)
    /\ IF LateDelivery
       THEN toServer' = Taken(c) /\ UNCHANGED serverEnds
       ELSE /\ serverEnds' = {d \in serverEnds : d >= c}
            /\ toServer' = [d \in Sockets |-> IF d < c THEN <<>> ELSE Taken(c)[d]]
    /\ UNCHANGED <<agentVars, conn, timers, opened, agentEnds, table, reports, bounds>>

\* Mutant: only the first final state is reported.
ReportedFirst(r, s) == IF s \in Final /\ table[r].status \notin Final
                       THEN Append(reports[r], s) ELSE reports[r]

\* `finishedRun`: what a write of status s reports to the webhooks.
Reported(r, s) == IF s \in Final /\ s # table[r].status
                  THEN Append(reports[r], s) ELSE reports[r]

\* `upsertStatus`: a live update overwrites the status and has no revision.
HandleStatusUpdate(c, stored) ==
    /\ Arrives(c, "STATUS_UPDATE")
    /\ stored \/ failures < MaxFailures
    /\ LET m == Head(toServer[c]) IN
        IF stored
        THEN /\ table' = [table EXCEPT ![m.id].status = m.status]
             /\ reports' = [reports EXCEPT ![m.id] = Reported(m.id, m.status)]
             /\ UNCHANGED failures
        ELSE failures' = failures + 1 /\ UNCHANGED <<table, reports>>
    /\ toServer' = Taken(c)
    /\ UNCHANGED <<agentVars, conn, timers, sockets, toAgent, registered, restarts>>

\* The condition a synced row is written under.
Applies(b, r) == table[r].rev = Null \/ b[r].rev >= table[r].rev

\* `upsertHistoryBatch`: one transaction over the well-formed entries.
StoreBatch(b) ==
    /\ table' = [r \in Runs |->
           IF r \in DOMAIN b \ Malformed /\ Applies(b, r)
           THEN [status |-> b[r].status, rev |-> b[r].rev] ELSE table[r]]
    /\ reports' = [r \in Runs |->
           IF r \in DOMAIN b \ Malformed /\ Applies(b, r)
           THEN Reported(r, b[r].status) ELSE reports[r]]

\* Mutant: a failed transaction is acknowledged too.
AckedRegardless(b, stored) == DOMAIN b

\* Rows a batch is answered with: those stored, and those that can never be.
AckedOf(b, stored) == IF stored THEN DOMAIN b ELSE DOMAIN b \cap Malformed

\* SYNC_HISTORY
HandleSyncHistory(c, stored) ==
    /\ Arrives(c, "SYNC_HISTORY")
    /\ stored \/ failures < MaxFailures
    /\ LET b == Head(toServer[c]).history
           acked == AckedOf(b, stored)
       IN  /\ IF stored THEN StoreBatch(b) /\ UNCHANGED failures
                        ELSE failures' = failures + 1 /\ UNCHANGED <<table, reports>>
           /\ toAgent' = IF acked = {} THEN toAgent
                         ELSE Answer(c, registered, HistoryAck([r \in acked |-> b[r].rev]))
    /\ toServer' = Taken(c)
    /\ UNCHANGED <<agentVars, conn, timers, sockets, registered, restarts>>

-----------------------------------------------------------------------------
(***************************************************************************)
(* The agent's handlers and timers.                                        *)
(***************************************************************************)
Receives(c, type) == /\ c \in agentEnds /\ toAgent[c] # <<>>
                     /\ Head(toAgent[c]).type = type
                     /\ toAgent' = [toAgent EXCEPT ![c] = Tail(@)]

\* AUTH_SUCCESS: `HistorySync.start` and `checkDeferredBackups`.
HandleAuthSuccess(c) ==
    /\ Receives(c, "AUTH_SUCCESS")
    /\ active' = TRUE
    /\ Flush(hist, TRUE, toServer)
    /\ deferred' = {} /\ checking' = checking \cup deferred
    /\ UNCHANGED <<hist, clock, post, latest, conn, sockets, serverVars, bounds>>

\* HISTORY_ACK: `acknowledge`, which sends the next batch if rows moved.
HandleHistoryAck(c, stored) ==
    /\ Receives(c, "HISTORY_ACK")
    /\ LET acked == Head(toAgent[c]).entries
           moved == Moved(hist, acked)
       IN  /\ stored \subseteq moved
           /\ stored = moved \/ failures < MaxFailures
           /\ failures' = IF stored = moved THEN failures ELSE failures + 1
           /\ hist' = MarkSynced(hist, acked, stored)
           /\ IF stored = {} THEN UNCHANGED <<flushTimer, retryTimer, toServer>>
                             ELSE Flush(hist', active, toServer)
    /\ UNCHANGED <<clock, runVars, latest, active, conn, sockets, serverVars, restarts>>

\* The one-second timer that coalesces writes, and the retry for a batch
\* nobody acknowledged.
Timer ==
    /\ flushTimer \/ retryTimer
    /\ Connected => Len(toServer[conn]) + Len(toAgent[conn]) < MaxQueue
    /\ Flush(hist, active, toServer)
    /\ UNCHANGED <<agentVars, active, conn, sockets, toAgent, serverVars, bounds>>

-----------------------------------------------------------------------------
Init ==
    /\ hist = [r \in {} |-> NoRow] /\ clock = 0
    /\ post = {} /\ deferred = {} /\ checking = {}
    /\ latest = [r \in Runs |-> 0]
    /\ conn = NoSocket /\ active = FALSE /\ flushTimer = FALSE /\ retryTimer = FALSE
    /\ opened = 0 /\ agentEnds = {} /\ serverEnds = {}
    /\ toServer = [c \in Sockets |-> <<>>] /\ toAgent = [c \in Sockets |-> <<>>]
    /\ registered = NoSocket
    /\ table = [r \in Runs |-> NoRow] /\ reports = [r \in Runs |-> <<>>]
    /\ restarts = 0 /\ failures = 0

RunStep == \E r \in Runs :
    \/ Enqueue(r) \/ Start(r) \/ FailBeforeStart(r) \/ Name(r) \/ AbortQueued(r)
    \/ \E s \in EndStates \ Terminal : RecordUnstarted(r, s)
    \/ \E s \in {"queued", "skipped"} : Reinsert(r, s)
    \/ \E s \in EndStates \cap Terminal : Finish(r, s)
    \/ \E s \in {"success", "abort"} : SettleDeferred(r, s)
    \/ \E ok \in BOOLEAN : PostScript(r, ok)

SocketStep == \/ Open
              \/ \E c \in Sockets : AgentClose(c) \/ ServerClose(c)

ServerHandles(c) ==
    \/ HandleAuth(c)
    \/ \E stored \in BOOLEAN : HandleStatusUpdate(c, stored) \/ HandleSyncHistory(c, stored)

AgentHandles(c) ==
    \/ HandleAuthSuccess(c)
    \/ \E stored \in SUBSET Runs : HandleHistoryAck(c, stored)

MessageStep == \E c \in Sockets : ServerHandles(c) \/ AgentHandles(c)

RestartStep == \E held, found \in SUBSET Runs : Restart(held, found)

Next == RunStep \/ SocketStep \/ MessageStep \/ Timer \/ RestartStep

Spec == Init /\ [][Next]_vars

\* Handlers run when their message is there, a dead end is noticed (heartbeat,
\* TCP), an armed timer fires, and the agent, or the server for it, dials again.
Reconnect == conn = NoSocket /\ Open
NoticeEnd(c) == \/ c \notin serverEnds /\ AgentClose(c)
                \/ c \notin agentEnds /\ ServerClose(c)

Fairness ==
    /\ WF_vars(Reconnect) /\ WF_vars(Timer)
    /\ \A c \in Sockets : WF_vars(ServerHandles(c)) /\ WF_vars(AgentHandles(c))
                         /\ WF_vars(NoticeEnd(c))

FairSpec == Spec /\ Fairness

-----------------------------------------------------------------------------
(***************************************************************************)
(* Properties.                                                             *)
(***************************************************************************)
\* Type invariant of agent, server and everything under way between them.
TypeOK ==
    /\ IsHistory(hist) /\ clock \in Nat
    /\ post \subseteq Runs /\ deferred \subseteq Runs /\ checking \subseteq Runs
    /\ latest \in [Runs -> Nat]
    /\ conn \in Sockets \cup {NoSocket}
    /\ active \in BOOLEAN /\ flushTimer \in BOOLEAN /\ retryTimer \in BOOLEAN
    /\ opened \in 0..MaxSockets
    /\ agentEnds \subseteq Sockets /\ serverEnds \subseteq Sockets
    /\ DOMAIN toServer = Sockets /\ DOMAIN toAgent = Sockets
    /\ \A c \in Sockets : \A i \in 1..Len(toServer[c]) : IsAgentMessage(toServer[c][i])
    /\ \A c \in Sockets : \A i \in 1..Len(toAgent[c]) : IsServerMessage(toAgent[c][i])
    /\ registered \in Sockets \cup {NoSocket}
    /\ table \in [Runs -> [status : Status \cup {"none"}, rev : Nat]]
    /\ reports \in [Runs -> Seq(Final)]
    /\ restarts \in Nat /\ failures \in Nat

\* What the agent holds for acknowledged is in the server's table: no failed
\* transaction, lost socket, retry or restart on the way makes it forget a
\* revision the server does not have.  A malformed run is the one exception.
AckedRevisionStored ==
    \A r \in DOMAIN hist \ Malformed : hist[r].synced <= table[r].rev

\* A finished run the agent no longer offers has been handed to the webhooks
\* in the state it ended in.
AckedRunReported ==
    \A r \in DOMAIN hist \ Malformed :
        (~IsUnsynced(hist[r]) /\ hist[r].status \in Final) =>
            \E i \in 1..Len(reports[r]) : reports[r][i] = hist[r].status

\* A run the agent no longer offers stands in the server's table as it stands
\* on the agent, although live updates overwrite it without a revision.
AckedRunAgrees ==
    \A r \in DOMAIN hist \ Malformed :
        ~IsUnsynced(hist[r]) => table[r].status = hist[r].status

\* A final state of a run is reported once, whether it arrives live, with the
\* history sync, or both.
ReportedOnce ==
    \A r \in Runs : \A i, j \in 1..Len(reports[r]) :
        reports[r][i] = reports[r][j] => i = j

\* The server never puts an older revision back over a newer one.
RevisionNeverFalls == [][\A r \in Runs : table'[r].rev >= table[r].rev]_vars

\* A run that ended does not go back to queued or running in the server's table.
EndedStaysEnded ==
    [][\A r \in Runs : table[r].status \in Final => table'[r].status \in Final]_vars

\* A run the agent deletes is over, and the server has it as it ended -- unless
\* MaxUnsynced younger finished runs are waiting, which is when history is given up.
DroppedOnlyWhenFull ==
    [][\A r \in (DOMAIN hist \ DOMAIN hist') \ Malformed :
          /\ ~IsActive(hist[r])
          /\ \/ table[r].rev >= hist[r].rev
             \/ Cardinality({s \in Waiting(hist') : hist'[s].created > hist[r].created})
                   >= MaxUnsynced]_vars

\* Every revision is acknowledged in the end, whatever was lost, refused or cut
\* short on the way.
EverythingSynced ==
    \A r \in Runs : []<>(r \in DOMAIN hist => ~IsUnsynced(hist[r]))

\* The state a run ends in reaches the webhooks, unless it does not stay or the
\* server cannot read it.
FinishedIsReported ==
    \A r \in Runs \ Malformed, s \in Final :
        InStatus(r, s) ~> (~InStatus(r, s) \/ \E i \in 1..Len(reports[r]) : reports[r][i] = s)

\* What an acknowledgement means to the agent: types, and nothing held for
\* acknowledged that the server does not have.
AcksAreTrue == TypeOK /\ AckedRevisionStored

\* A final state the agent no longer offers was reported, and no state twice:
\* live updates, batches and their retries raise each event exactly once.
EndReportedOnce == AckedRunReported /\ ReportedOnce

\* Nothing is left behind for good: every revision is acknowledged and every
\* lasting end reported in the end.
SyncedAndReported == EverythingSynced /\ FinishedIsReported

\* A bounded history loses nothing it could keep, and a run the server refuses
\* holds nothing up: what is dropped was delivered, and what is kept will be.
PrunedAndSynced == EverythingSynced /\ DroppedOnlyWhenFull

\* All of this is the delivery the agent and the server promise together.
D == INSTANCE Delivery WITH
        Records <- Runs \ Malformed,
        written <- [r \in Runs \ Malformed |-> latest[r]],
        stored <- [r \in Runs \ Malformed |-> table[r].rev],
        acked <- [r \in Runs \ Malformed |->
                     IF r \in DOMAIN hist THEN hist[r].synced ELSE 0]

\* The history sync implements the promise of module Delivery: at-least-once,
\* forward only, never acknowledged ahead of the server.
DeliversHistory == D!Spec
=============================================================================
