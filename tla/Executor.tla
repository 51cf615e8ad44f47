------------------------------ MODULE Executor ------------------------------
(***************************************************************************)
(* The runs of one agent, from the request to the final status             *)
(* (client/src/features/Executor.ts, execution/ProcessRunner.ts): the slot *)
(* and the one place in the queue every job has, the delay before a queued *)
(* run starts, preparation and pre-script, tunnel lease, CLI process,      *)
(* snapshot query and post-script, aborts, and what a restart of the agent *)
(* settles and resumes.                                                    *)
(*                                                                         *)
(* The agent runs on one event loop.  An action is what happens between    *)
(* two awaits, callbacks or timers, so that everything else may come       *)
(* between any two actions of a run.                                       *)
(***************************************************************************)
EXTENDS RunStatus, Naturals

CONSTANTS
    Runs,           \* run ids
    JobOf,          \* the job of each run; NoJob for a restore
    NoJob, NoRun,
    Tunnelled,      \* runs whose job reaches its PBS through a tunnel
    SpawnOutcomes,  \* what `spawn` may come to: where it leaves the run
    Outbound,       \* TRUE: the server dials the agent
    MaxRestarts     \* bound: restarts of the agent

Jobs == {JobOf[r] : r \in Runs} \ {NoJob}
Backups == {r \in Runs : JobOf[r] # NoJob}

\* Where `executeBackup` or `executeRestore` is with a run: waiting for the
\* repository environment or the pre-script, for the lease, for the CLI, or
\* for the snapshot query.
Executing == {"preparing", "tunnel", "cli", "erring", "query"}
\* `erring`: the CLI did not start, and `error` is still to be emitted;
\* `errored`: it was, and `close` may follow; `stuck`: `spawn` threw, and the
\* promise of the run is rejected; `off`: nothing of the run is under way.
Places == Executing \cup {"new", "off", "errored", "stuck"}

ASSUME ExecutorAssumption ==
    /\ NoRun \notin Runs
    /\ JobOf \in [Runs -> Jobs \cup {NoJob}]
    /\ Tunnelled \subseteq Runs
    /\ SpawnOutcomes \subseteq {"cli", "erring", "stuck"}
    /\ Outbound \in BOOLEAN
    /\ MaxRestarts \in Nat

VARIABLES
    runningJobs,  \* Executor.runningJobs: jobs whose slot is taken
    pendingJobs,  \* Executor.pendingJobs: the run queued per job
    timers,       \* delay timers armed, per run
    live,         \* ProcessRunner.live: runs an abort can reach ...
    aborting,     \* ... and those with `abortRequested`
    pc,           \* where each run is
    row,          \* its status in the history, "none" without a row
    named,        \* runs whose row names the snapshot they create
    leases,       \* runs that hold a tunnel lease
    keyfiles,     \* runs whose temporary keyfile exists
    post,         \* successful runs whose post-script has not ended
    started,      \* FALSE while a restarted agent settles what it found
    deferred,     \* Executor.deferredChecks
    checking,     \* interrupted runs about to be looked up on the PBS
    told,         \* history variable: runs whose abort this process granted
    restarts

slotVars == <<runningJobs, pendingJobs, timers>>
liveVars == <<live, aborting>>
heldVars == <<leases, keyfiles>>
startVars == <<started, deferred, checking, restarts>>
vars == <<slotVars, liveVars, heldVars, pc, row, named, post, startVars, told>>

-----------------------------------------------------------------------------
SetRow(r, s) == row' = [row EXCEPT ![r] = s]
Goto(r, place) == pc' = [pc EXCEPT ![r] = place]

\* A call of executeBackup that starts nothing leaves the run where it is.
Asked(r) == Goto(r, IF pc[r] = "new" THEN "off" ELSE pc[r])

\* `releaseJobSlot`: the slot is free, and the queued run gets its timer.  A
\* restore has no slot.
ReleaseJobSlot(r) ==
    IF r \in Backups
    THEN LET j == JobOf[r]
             queued == pendingJobs[j]
         IN  /\ runningJobs' = runningJobs \ {j}
             /\ pendingJobs' = [pendingJobs EXCEPT ![j] = NoRun]
             /\ timers' = IF queued = NoRun THEN timers
                          ELSE [timers EXCEPT ![queued] = timers[queued] + 1]
    ELSE UNCHANGED slotVars

\* `forget`
Forget(r) == live' = live \ {r} /\ aborting' = aborting \ {r}

\* What every way out of a run gives back.
GiveBack(r) ==
    /\ Forget(r)
    /\ leases' = leases \ {r}
    /\ keyfiles' = keyfiles \ {r}
    /\ ReleaseJobSlot(r)

EndRun(r, s) == /\ Goto(r, "off")
                /\ SetRow(r, s)
                /\ GiveBack(r)
                /\ UNCHANGED <<named, startVars, told>>

-----------------------------------------------------------------------------
(***************************************************************************)
(* executeBackup, called with `ts` as the timers that are left.            *)
(***************************************************************************)

\* No identity, no job under that id, or -- with the slot free, and given back
\* at once -- no key for an encrypted job: the run fails.
Refuse(r, ts) ==
    /\ Asked(r) /\ SetRow(r, "failed") /\ timers' = ts
    /\ UNCHANGED <<runningJobs, pendingJobs, liveVars, heldVars, named, post, startVars, told>>

Skip(r, ts) ==
    /\ JobOf[r] \in runningJobs /\ pendingJobs[JobOf[r]] # NoRun
    /\ Asked(r) /\ SetRow(r, "skipped") /\ timers' = ts
    /\ named' = named \ {r}
    /\ UNCHANGED <<runningJobs, pendingJobs, liveVars, heldVars, post, startVars, told>>

\* The row is written anew, also where there is one.
Enqueue(r, ts) ==
    /\ JobOf[r] \in runningJobs /\ pendingJobs[JobOf[r]] = NoRun
    /\ pendingJobs' = [pendingJobs EXCEPT ![JobOf[r]] = r]
    /\ Asked(r) /\ SetRow(r, "queued") /\ timers' = ts
    /\ named' = named \ {r}
    /\ UNCHANGED <<runningJobs, liveVars, heldVars, post, startVars, told>>

\* Mutant: the slot is not looked at.
TakeRegardless(r, ts) ==
    /\ runningJobs' = runningJobs \cup {JobOf[r]} /\ timers' = ts
    /\ live' = live \cup {r} /\ keyfiles' = keyfiles \cup {r}
    /\ Goto(r, "preparing")
    /\ UNCHANGED <<pendingJobs, aborting, row, named, leases, post, startVars, told>>

\* The slot is taken, `expect` and the keyfile included, up to the first await.
Take(r, ts) ==
    /\ JobOf[r] \notin runningJobs
    /\ runningJobs' = runningJobs \cup {JobOf[r]} /\ timers' = ts
    /\ live' = live \cup {r} /\ keyfiles' = keyfiles \cup {r}
    /\ Goto(r, "preparing")
    /\ UNCHANGED <<pendingJobs, aborting, row, named, leases, post, startVars, told>>

ExecuteBackup(r, ts) == Refuse(r, ts) \/ Skip(r, ts) \/ Enqueue(r, ts) \/ Take(r, ts)

\* Scheduler and connection start once a restarted agent has settled its
\* history.  A server that dials the agent is served from the start, and gets
\* in while a lookup is under way.
Accepting == started \/ (Outbound /\ checking # {})

\* RUN_JOB from the server, or the scheduler.
RunJob(r) == /\ r \in Backups /\ pc[r] = "new"
             /\ Accepting
             /\ ExecuteBackup(r, timers)

DelayOver(r) == /\ timers[r] > 0
                /\ ExecuteBackup(r, [timers EXCEPT ![r] = timers[r] - 1])

\* RESTORE_SNAPSHOT: no slot, and not known to an abort yet.
RestoreSnapshot(r) ==
    /\ r \notin Backups /\ pc[r] = "new"
    /\ Accepting
    /\ Goto(r, "preparing") /\ keyfiles' = keyfiles \cup {r}
    /\ UNCHANGED <<slotVars, liveVars, row, named, leases, post, startVars, told>>

-----------------------------------------------------------------------------
(***************************************************************************)
(* runProxmoxClient                                                        *)
(***************************************************************************)

\* Mutant: the slot stays taken.
PrepareFailsSilently(r) ==
    /\ pc[r] = "preparing" /\ Goto(r, "off") /\ SetRow(r, "failed")
    /\ Forget(r) /\ keyfiles' = keyfiles \ {r}
    /\ UNCHANGED <<slotVars, leases, named, post, startVars, told>>

\* The command line cannot be built, or the pre-script fails.
PrepareFails(r) == pc[r] = "preparing" /\ EndRun(r, "failed") /\ UNCHANGED post

\* `spawn`, with the leases held by then; a backup names its snapshot first.
Spawn(r, held) ==
    /\ SetRow(r, "running") /\ live' = live \cup {r} /\ leases' = held
    /\ named' = named \cup ({r} \cap Backups)
    /\ \E place \in SpawnOutcomes : Goto(r, place)
    /\ UNCHANGED <<slotVars, aborting, keyfiles, post, startVars, told>>

AwaitTunnel(r) ==
    /\ SetRow(r, "running") /\ live' = live \cup {r} /\ Goto(r, "tunnel")
    /\ UNCHANGED <<slotVars, aborting, heldVars, named, post, startVars, told>>

\* Mutant: an abort is not looked for once the lease is there.
TunnelGrantedRegardless(r) == pc[r] = "tunnel" /\ Spawn(r, leases \cup {r})

StartClient(r) ==
    /\ pc[r] = "preparing"
    /\ \/ r \in aborting /\ EndRun(r, "abort") /\ UNCHANGED post
       \/ r \notin aborting /\ r \in Tunnelled /\ AwaitTunnel(r)
       \/ r \notin aborting /\ r \notin Tunnelled /\ Spawn(r, leases)

TunnelRefused(r) == pc[r] = "tunnel" /\ EndRun(r, "failed") /\ UNCHANGED post

TunnelGranted(r) ==
    /\ pc[r] = "tunnel"
    /\ \/ r \in aborting /\ EndRun(r, "abort") /\ UNCHANGED post
       \/ r \notin aborting /\ Spawn(r, leases \cup {r})

\* The end of a run whose process is gone.  A post-script may be configured;
\* it changes something only after a success.
Finish(r, s) == /\ EndRun(r, s)
                /\ \/ UNCHANGED post
                   \/ s = "success" /\ post' = post \cup {r}

\* `runEndStatus`
EndStatus(r, ok) == CASE ok -> "success"
                      [] ~ok /\ r \in aborting -> "abort"
                      [] OTHER -> "failed"

\* `close`: a backup that exited with 0 reads back its snapshot first, and
\* cannot be aborted any more.
Close(r, ok) ==
    /\ pc[r] = "cli"
    /\ \/ ok /\ r \in Backups
          /\ Goto(r, "query") /\ Forget(r) /\ keyfiles' = keyfiles \ {r}
          /\ UNCHANGED <<slotVars, row, named, leases, post, startVars, told>>
       \/ ~(ok /\ r \in Backups) /\ Finish(r, EndStatus(r, ok))

SnapshotRead(r) == pc[r] = "query" /\ Finish(r, "success")

\* `error`, and the `close` that may follow it: the run ends in both.
SpawnError(r) ==
    /\ pc[r] = "erring"
    /\ Goto(r, "errored") /\ SetRow(r, "failed") /\ GiveBack(r)
    /\ UNCHANGED <<named, post, startVars, told>>

CloseAfterError(r) == pc[r] = "errored" /\ Finish(r, "failed")

\* A failed post-script turns the success into a failure.
PostScriptEnds(r, ok) ==
    /\ r \in post /\ post' = post \ {r}
    /\ IF ok THEN UNCHANGED row ELSE SetRow(r, "failed")
    /\ UNCHANGED <<slotVars, liveVars, heldVars, pc, named, startVars, told>>

-----------------------------------------------------------------------------
\* Mutant: the aborted run stays queued.
AbortRunInQueue(r) ==
    /\ told' = told \cup {r}
    /\ \/ r \in live /\ aborting' = aborting \cup {r} /\ UNCHANGED row
       \/ /\ r \notin live /\ \E j \in Jobs : pendingJobs[j] = r
          /\ SetRow(r, "abort") /\ UNCHANGED aborting
    /\ UNCHANGED <<slotVars, live, heldVars, pc, named, post, startVars>>

\* `abortRun`: a live run is marked, and ends when it gets there; a queued one
\* ends here; any other is refused, which changes nothing.
AbortRun(r) ==
    /\ told' = told \cup {r}
    /\ \/ /\ r \in live
          /\ aborting' = aborting \cup {r}
          /\ UNCHANGED <<pendingJobs, row>>
       \/ /\ r \notin live
          /\ \E j \in Jobs : /\ pendingJobs[j] = r
                             /\ pendingJobs' = [pendingJobs EXCEPT ![j] = NoRun]
          /\ SetRow(r, "abort")
          /\ UNCHANGED aborting
    /\ UNCHANGED <<runningJobs, timers, live, heldVars, pc, named, post, startVars>>

-----------------------------------------------------------------------------
(***************************************************************************)
(* A restart.  The CLI ends with the agent, whose container or unit it is  *)
(* part of; the server frees the leases of an agent that is gone, and      *)
(* `removeStaleKeyfiles` deletes the keyfiles.                             *)
(***************************************************************************)

\* `findInterruptedBackups`
Interrupted == {r \in Backups : row[r] = "running" /\ r \in named}

\* Mutant: what waits for the server is a provisional `abort` meanwhile.
RestartProvisional ==
    /\ restarts < MaxRestarts /\ restarts' = restarts + 1
    /\ \E held \in SUBSET (Interrupted \cap Tunnelled) :
          /\ deferred' = held /\ checking' = Interrupted \ held
          /\ row' = [r \in Runs |-> IF r \in held THEN "abort" ELSE row[r]]
    /\ started' = FALSE
    /\ runningJobs' = {} /\ pendingJobs' = [j \in Jobs |-> NoRun]
    /\ timers' = [r \in Runs |-> 0]
    /\ live' = {} /\ aborting' = {} /\ leases' = {} /\ keyfiles' = {} /\ post' = {}
    /\ pc' = [r \in Runs |-> IF pc[r] = "new" THEN "new" ELSE "off"]
    /\ told' = {}
    /\ UNCHANGED named

\* cleanupRunningJobs begins: tunnel backups wait for the server, the others
\* are looked up one after the other.
Restart ==
    /\ restarts < MaxRestarts /\ restarts' = restarts + 1
    /\ \E held \in SUBSET (Interrupted \cap Tunnelled) :
          deferred' = held /\ checking' = Interrupted \ held
    /\ started' = FALSE
    /\ runningJobs' = {} /\ pendingJobs' = [j \in Jobs |-> NoRun]
    /\ timers' = [r \in Runs |-> 0]
    /\ live' = {} /\ aborting' = {} /\ leases' = {} /\ keyfiles' = {} /\ post' = {}
    /\ pc' = [r \in Runs |-> IF pc[r] = "new" THEN "new" ELSE "off"]
    /\ told' = {}
    /\ UNCHANGED <<row, named>>

\* `checkInterruptedBackup`, with the lease it takes and gives back: the
\* snapshot is there, or the run was cut short.
Settle(r, s) ==
    /\ r \in checking /\ checking' = checking \ {r}
    /\ SetRow(r, s)
    /\ UNCHANGED <<slotVars, liveVars, heldVars, pc, named, post, started, deferred, restarts, told>>

\* Mutant: queued rows are left alone at startup.
FinishStartOnly ==
    /\ ~started /\ checking = {}
    /\ started' = TRUE
    /\ row' = [r \in Runs |-> IF row[r] = "running" /\ r \notin deferred
                              THEN "abort" ELSE row[r]]
    /\ UNCHANGED <<slotVars, liveVars, heldVars, pc, named, post, deferred, checking, restarts, told>>

\* `cleanUpRunningJobs` on what is left, then resumeQueuedJobs.
FinishStart ==
    /\ ~started /\ checking = {}
    /\ started' = TRUE
    /\ row' = [r \in Runs |-> IF row[r] = "running" /\ r \notin deferred
                              THEN "abort" ELSE row[r]]
    /\ timers' = [r \in Runs |-> IF row[r] = "queued" THEN timers[r] + 1 ELSE timers[r]]
    /\ UNCHANGED <<runningJobs, pendingJobs, liveVars, heldVars, pc, named, post,
                   deferred, checking, restarts, told>>

\* checkDeferredBackups, on an authenticated connection.
CheckDeferred ==
    /\ started /\ deferred # {}
    /\ deferred' = {} /\ checking' = checking \cup deferred
    /\ UNCHANGED <<slotVars, liveVars, heldVars, pc, row, named, post, started, restarts, told>>

-----------------------------------------------------------------------------
Init ==
    /\ runningJobs = {} /\ pendingJobs = [j \in Jobs |-> NoRun]
    /\ timers = [r \in Runs |-> 0]
    /\ live = {} /\ aborting = {} /\ leases = {} /\ keyfiles = {}
    /\ pc = [r \in Runs |-> "new"] /\ row = [r \in Runs |-> "none"]
    /\ named = {} /\ post = {} /\ told = {}
    /\ started = TRUE /\ deferred = {} /\ checking = {} /\ restarts = 0

\* A step of run r that comes about by itself.
Progress(r) ==
    \/ DelayOver(r)
    \/ PrepareFails(r) \/ StartClient(r)
    \/ TunnelRefused(r) \/ TunnelGranted(r)
    \/ \E ok \in BOOLEAN : Close(r, ok) \/ PostScriptEnds(r, ok)
    \/ SnapshotRead(r) \/ SpawnError(r)
    \/ \E s \in {"success", "abort"} : Settle(r, s)

Next ==
    \/ \E r \in Runs : \/ RunJob(r) \/ RestoreSnapshot(r) \/ AbortRun(r)
                       \/ Progress(r) \/ CloseAfterError(r)
    \/ Restart \/ FinishStart \/ CheckDeferred

Spec == Init /\ [][Next]_vars

\* Timers fire, scripts, queries and processes end, the tunnel is granted or
\* refused, and the server comes back.
Fairness == /\ WF_vars(FinishStart) /\ WF_vars(CheckDeferred)
            /\ \A r \in Runs : WF_vars(Progress(r))

FairSpec == Spec /\ Fairness

-----------------------------------------------------------------------------
TypeOK ==
    /\ runningJobs \subseteq Jobs
    /\ pendingJobs \in [Jobs -> Backups \cup {NoRun}]
    /\ timers \in [Runs -> Nat]
    /\ live \subseteq Runs /\ aborting \subseteq live
    /\ pc \in [Runs -> Places] /\ row \in [Runs -> Status \cup {"none"}]
    /\ named \subseteq Runs /\ leases \subseteq Runs /\ keyfiles \subseteq Runs
    /\ post \subseteq Runs /\ told \subseteq Runs
    /\ started \in BOOLEAN /\ deferred \subseteq Backups /\ checking \subseteq Backups
    /\ restarts \in 0..MaxRestarts

\* Two runs of a job never have their CLI running at the same time
\* (runningJobs in executeBackup).
OneProcessPerJob == \A r, s \in Backups :
    pc[r] = "cli" /\ pc[s] = "cli" /\ JobOf[r] = JobOf[s] => r = s

\* The slot of a job stays taken as long as a run of it is under way: no other
\* exit gives it back (onSlotRelease, which every exit path calls once).
SlotIsHeld == \A r \in Backups : pc[r] \in Executing => JobOf[r] \in runningJobs

\* A run waits behind another one only while that one has the slot, whose
\* release will start it (releaseJobSlot's comment).
PendingHasHolder == \A j \in Jobs : pendingJobs[j] # NoRun => j \in runningJobs

\* A row that says `queued` is a run that will start: it is queued, waits out
\* its delay, or is being prepared; or the agent has yet to resume it.
QueuedIsKept == \A r \in Backups : row[r] = "queued" =>
    \/ pendingJobs[JobOf[r]] = r \/ timers[r] > 0
    \/ pc[r] = "preparing" \/ ~started

\* A row that says `running` is a run something will end: its own execution,
\* the lookup after a restart, or the cleanup -- unless `spawn` threw.
RunningIsOwned == \A r \in Runs : row[r] = "running" =>
    \/ pc[r] \in Executing \cup {"stuck"}
    \/ r \in deferred \cup checking \/ ~started

\* Nothing a run held outlives it, whichever of its exits it took: its entry
\* for aborts, its lease, its keyfile, its slot.
GivenBack ==
    /\ \A r \in live \cup leases \cup keyfiles : pc[r] \in Executing \cup {"stuck"}
    /\ \A j \in runningJobs : \E r \in Backups :
           JobOf[r] = j /\ pc[r] \in Executing \cup {"stuck"}

\* Every run is accounted for: what says it waits will start, what says it runs
\* will end, and nothing is held for one that is over.
RunsAccounted ==
    TypeOK /\ QueuedIsKept /\ RunningIsOwned /\ PendingHasHolder /\ GivenBack

\* A final status is final, except that a failed post-script turns a success
\* into a failure.
EndedStaysEnded == [][\A r \in Runs : row[r] \in Final =>
    \/ row'[r] = row[r]
    \/ row[r] = "success" /\ row'[r] = "failed" /\ r \in post]_vars

\* A run whose abort was granted before its CLI ran never gets one, wherever the
\* abort met it -- as long as the agent that granted it runs.
AbortedNeverStarts == [][\A r \in told : pc'[r] = "cli" => pc[r] = "cli"]_vars

\* Every run with a row comes to a final status.
RunsEnd == \A r \in Runs : row[r] \in Active ~> row[r] \in Final

\* A job's slot does not stay taken.
SlotsAreFreed == \A j \in Jobs : j \in runningJobs ~> j \notin runningJobs

\* Nothing goes on for ever: neither a run nor the hold of a slot.
EverythingEnds == RunsEnd /\ SlotsAreFreed

\* The runs as module JobQueue sees them.
State(r) == CASE pc[r] = "new" -> "new"
              [] pc[r] \in Executing \cup {"stuck"} -> "active"
              [] pc[r] \in {"off", "errored"} -> IF row[r] = "queued" THEN "waiting" ELSE "over"

JQ == INSTANCE JobQueue WITH state <- [r \in Runs |-> State(r)]

\* The executor keeps the promise of module JobQueue.
ImplementsJobQueue == JQ!Spec
=============================================================================
