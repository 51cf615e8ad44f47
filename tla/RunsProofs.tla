----------------------------- MODULE RunsProofs -----------------------------
(***************************************************************************)
(* Proofs about the runs of an agent, for every set of runs, jobs and      *)
(* hosts, and about the history they leave: the runs of module Executor,   *)
(* the leases of module LeaseRequest, and the server's cleanup (Cleanup).  *)
(***************************************************************************)
EXTENDS MCRuns, FiniteSetTheorems, TLAPS

-----------------------------------------------------------------------------
(***************************************************************************)
(* The kinds of steps there are: the ways out of a run all come down to    *)
(* EndRun, and the ways to its process to Spawn.                           *)
(***************************************************************************)

\* The timers a call of executeBackup leaves.
TimersLeft(r) == {timers} \cup
    (IF timers[r] > 0 THEN {[timers EXCEPT ![r] = timers[r] - 1]} ELSE {})

\* A run is asked for: for the first time, or after its delay.
AskedFor(r, ts) == \/ r \in Backups /\ pc[r] = "new" /\ Accepting /\ ts = timers
                   \/ timers[r] > 0 /\ ts = [timers EXCEPT ![r] = timers[r] - 1]

Calls(r, ts) == AskedFor(r, ts) /\ ExecuteBackup(r, ts)

Ends(r, s) == /\ pc[r] \in Executing \cup {"errored"}
              /\ s \in Terminal /\ (pc[r] = "errored" => s = "failed")
              /\ EndRun(r, s)
              /\ post' = post \/ (s = "success" /\ post' = post \cup {r})

Spawns(r, held) == /\ pc[r] \in {"preparing", "tunnel"} /\ r \notin aborting
                   /\ held \in {leases, leases \cup {r}}
                   /\ Spawn(r, held)

Waits(r) == pc[r] = "preparing" /\ AwaitTunnel(r)

ReadsBack(r) ==
    /\ pc[r] = "cli"
    /\ Goto(r, "query") /\ Forget(r) /\ keyfiles' = keyfiles \ {r}
    /\ UNCHANGED <<slotVars, row, named, leases, post, startVars, told>>

RunStep(r) ==
    \/ \E ts \in TimersLeft(r) : Calls(r, ts)
    \/ RestoreSnapshot(r)
    \/ \E s \in Terminal : Ends(r, s)
    \/ \E held \in SUBSET Runs : Spawns(r, held)
    \/ Waits(r)
    \/ ReadsBack(r)
    \/ SpawnError(r)
    \/ \E ok \in BOOLEAN : PostScriptEnds(r, ok)
    \/ AbortRun(r)
    \/ \E s \in {"success", "abort"} : Settle(r, s)

LEMMA Kinds ==
    ASSUME TypeOK, Next
    PROVE  \/ \E r \in Runs : RunStep(r)
           \/ Restart \/ FinishStart \/ CheckDeferred
<1>1. SUFFICES ASSUME NEW r \in Runs,
                      \/ RunJob(r) \/ RestoreSnapshot(r) \/ AbortRun(r)
                      \/ Progress(r) \/ CloseAfterError(r)
               PROVE  RunStep(r)
  BY DEF Next
<1>2. leases \subseteq Runs
  BY DEF TypeOK
<1>3. \A ok : EndStatus(r, ok) \in Terminal
  BY DEF EndStatus, Terminal
<1>4. CASE RunJob(r)
  BY <1>4 DEF RunJob, RunStep, Calls, AskedFor, TimersLeft
<1>5. CASE DelayOver(r)
  BY <1>5 DEF DelayOver, RunStep, Calls, AskedFor, TimersLeft
<1>6. CASE RestoreSnapshot(r) \/ AbortRun(r) \/ SpawnError(r)
  BY <1>6 DEF RunStep
<1>7. CASE PrepareFails(r) \/ TunnelRefused(r)
  BY <1>7 DEF PrepareFails, TunnelRefused, RunStep, Ends, Executing, Terminal
<1>8. CASE SnapshotRead(r) \/ CloseAfterError(r)
  BY <1>8 DEF SnapshotRead, CloseAfterError, Finish, RunStep, Ends, Executing, Terminal
<1>9. CASE StartClient(r) \/ TunnelGranted(r)
  <2>1. CASE EndRun(r, "abort") /\ UNCHANGED post /\ pc[r] \in {"preparing", "tunnel"}
    BY <2>1 DEF RunStep, Ends, Executing, Terminal
  <2>2. CASE Spawn(r, leases) /\ pc[r] \in {"preparing", "tunnel"} /\ r \notin aborting
    BY <1>2, <2>2 DEF RunStep, Spawns
  <2>3. CASE Spawn(r, leases \cup {r}) /\ pc[r] \in {"preparing", "tunnel"} /\ r \notin aborting
    BY <1>2, <2>3 DEF RunStep, Spawns
  <2>4. CASE AwaitTunnel(r) /\ pc[r] = "preparing"
    BY <2>4 DEF RunStep, Waits
  <2>5. QED
    BY <1>9, <2>1, <2>2, <2>3, <2>4 DEF StartClient, TunnelGranted
<1>10. ASSUME NEW ok \in BOOLEAN, Close(r, ok)
       PROVE  RunStep(r)
  <2>1. CASE ok /\ r \in Backups
    BY <1>10, <2>1 DEF Close, RunStep, ReadsBack
  <2>2. CASE ~(ok /\ r \in Backups)
    BY <1>3, <1>10, <2>2 DEF Close, Finish, RunStep, Ends, Executing
  <2>3. QED
    BY <2>1, <2>2
<1>11. CASE \E ok \in BOOLEAN : PostScriptEnds(r, ok)
  BY <1>11 DEF RunStep
<1>12. CASE \E s \in {"success", "abort"} : Settle(r, s)
  BY <1>12 DEF RunStep
<1>13. QED
  BY <1>1, <1>4, <1>5, <1>6, <1>7, <1>8, <1>9, <1>10, <1>11, <1>12 DEF Progress

-----------------------------------------------------------------------------
(***************************************************************************)
(* Type correctness, with what only backups have.                          *)
(***************************************************************************)

OnlyBackups == \A r \in Runs : timers[r] > 0 \/ row[r] = "queued" => r \in Backups

Typed == TypeOK /\ OnlyBackups

LEMMA BackupHasJob == ASSUME NEW r \in Backups PROVE JobOf[r] \in Jobs /\ r \in Runs
BY DEF Backups, Jobs

LEMMA InitTyped == Init => Typed
BY ExecutorAssumption DEF Init, Typed, TypeOK, OnlyBackups, Backups, Places, Executing,
                          Status, Active, Final, Terminal

LEMMA ReleaseTyped ==
    ASSUME Typed, NEW r \in Runs, ReleaseJobSlot(r)
    PROVE  /\ runningJobs' \subseteq runningJobs
           /\ pendingJobs' \in [Jobs -> Backups \cup {NoRun}]
           /\ timers' \in [Runs -> Nat]
           /\ \A s \in Runs : timers'[s] > 0 => s \in Backups
<1>1. CASE r \notin Backups
  BY <1>1 DEF ReleaseJobSlot, slotVars, Typed, TypeOK, OnlyBackups
<1>2. CASE r \in Backups
  <2> DEFINE j == JobOf[r]
             q == pendingJobs[j]
  <2>1. j \in Jobs
    BY <1>2, BackupHasJob
  <2>2. q \in Backups \cup {NoRun}
    BY <2>1 DEF Typed, TypeOK
  <2>3. /\ runningJobs' = runningJobs \ {j}
        /\ pendingJobs' = [pendingJobs EXCEPT ![j] = NoRun]
        /\ timers' = IF q = NoRun THEN timers ELSE [timers EXCEPT ![q] = timers[q] + 1]
    BY <1>2 DEF ReleaseJobSlot
  <2>4. pendingJobs' \in [Jobs -> Backups \cup {NoRun}]
    BY <2>3 DEF Typed, TypeOK
  <2>5. q # NoRun => q \in Runs /\ q \in Backups
    BY <2>2 DEF Backups
  <2> HIDE DEF q, j
  <2>6. timers \in [Runs -> Nat] /\ \A s \in Runs : timers[s] > 0 => s \in Backups
    BY DEF Typed, TypeOK, OnlyBackups
  <2>7. QED
    BY <2>3, <2>4, <2>5, <2>6
<1>3. QED
  BY <1>1, <1>2

LEMMA StepTyped == Typed /\ [Next]_vars => Typed'
<1>1. SUFFICES ASSUME Typed, [Next]_vars PROVE Typed'
  OBVIOUS
<1> USE DEF Typed, Places, Executing, Status, Active, Final, Terminal
<1>2. ASSUME NEW r \in Runs, NEW ts, Calls(r, ts)
      PROVE  Typed'
  <2>1. r \in Backups /\ JobOf[r] \in Jobs
    BY <1>1, <1>2, BackupHasJob DEF Calls, AskedFor, OnlyBackups
  <2>2. ts \in [Runs -> Nat] /\ \A s \in Runs : ts[s] > 0 => s \in Backups
    BY <1>1, <1>2 DEF Calls, AskedFor, TypeOK, OnlyBackups
  <2>3. CASE Refuse(r, ts)
    BY <1>1, <2>1, <2>2, <2>3
       DEF Refuse, Asked, Goto, SetRow, TypeOK, OnlyBackups, liveVars, heldVars, startVars
  <2>4. CASE Skip(r, ts)
    BY <1>1, <2>1, <2>2, <2>4
       DEF Skip, Asked, Goto, SetRow, TypeOK, OnlyBackups, liveVars, heldVars, startVars
  <2>5. CASE Enqueue(r, ts)
    BY <1>1, <2>1, <2>2, <2>5
       DEF Enqueue, Asked, Goto, SetRow, TypeOK, OnlyBackups, liveVars, heldVars, startVars
  <2>6. CASE Take(r, ts)
    BY <1>1, <2>1, <2>2, <2>6
       DEF Take, Goto, TypeOK, OnlyBackups, liveVars, heldVars, startVars
  <2>7. QED
    BY <1>2, <2>3, <2>4, <2>5, <2>6 DEF Calls, ExecuteBackup
<1>3. ASSUME NEW r \in Runs, RestoreSnapshot(r)
      PROVE  Typed'
  BY <1>1, <1>3 DEF RestoreSnapshot, Goto, TypeOK, OnlyBackups, slotVars, liveVars, startVars
<1>4. ASSUME NEW r \in Runs, NEW s \in Terminal, Ends(r, s)
      PROVE  Typed'
  <2>1. ReleaseJobSlot(r)
    BY <1>4 DEF Ends, EndRun, GiveBack
  <2>2. /\ runningJobs' \subseteq runningJobs
        /\ pendingJobs' \in [Jobs -> Backups \cup {NoRun}]
        /\ timers' \in [Runs -> Nat]
        /\ \A t \in Runs : timers'[t] > 0 => t \in Backups
    BY <1>1, <2>1, ReleaseTyped
  <2>3. QED
    BY <1>1, <1>4, <2>2
       DEF Ends, EndRun, Goto, SetRow, GiveBack, Forget, TypeOK, OnlyBackups, startVars
<1>5. ASSUME NEW r \in Runs, NEW held, Spawns(r, held)
      PROVE  Typed'
  <2>1. \A place \in SpawnOutcomes : place \in Places
    BY ExecutorAssumption
  <2>2. QED
    BY <1>1, <1>5, <2>1
       DEF Spawns, Spawn, Goto, SetRow, TypeOK, OnlyBackups, slotVars, startVars, Backups
<1>6. ASSUME NEW r \in Runs, Waits(r) \/ ReadsBack(r)
      PROVE  Typed'
  BY <1>1, <1>6 DEF Waits, AwaitTunnel, ReadsBack, Goto, SetRow, Forget, TypeOK, OnlyBackups,
                    slotVars, heldVars, startVars
<1>7. ASSUME NEW r \in Runs, SpawnError(r)
      PROVE  Typed'
  <2>1. ReleaseJobSlot(r)
    BY <1>7 DEF SpawnError, GiveBack
  <2>2. /\ runningJobs' \subseteq runningJobs
        /\ pendingJobs' \in [Jobs -> Backups \cup {NoRun}]
        /\ timers' \in [Runs -> Nat]
        /\ \A t \in Runs : timers'[t] > 0 => t \in Backups
    BY <1>1, <2>1, ReleaseTyped
  <2>3. QED
    BY <1>1, <1>7, <2>2
       DEF SpawnError, Goto, SetRow, GiveBack, Forget, TypeOK, OnlyBackups, startVars
<1>8. ASSUME NEW r \in Runs, NEW ok \in BOOLEAN, PostScriptEnds(r, ok)
      PROVE  Typed'
  BY <1>1, <1>8 DEF PostScriptEnds, SetRow, TypeOK, OnlyBackups, slotVars, liveVars,
                    heldVars, startVars
<1>9. ASSUME NEW r \in Runs, AbortRun(r)
      PROVE  Typed'
  BY <1>1, <1>9 DEF AbortRun, SetRow, TypeOK, OnlyBackups, heldVars, startVars
<1>10. ASSUME NEW r \in Runs, NEW s \in {"success", "abort"}, Settle(r, s)
       PROVE  Typed'
  BY <1>1, <1>10 DEF Settle, SetRow, TypeOK, OnlyBackups, slotVars, liveVars, heldVars
<1>11. CASE Restart
  <2>1. restarts' \in 0..MaxRestarts
    BY <1>1, <1>11, ExecutorAssumption DEF Restart, TypeOK
  <2>2. deferred' \subseteq Backups /\ checking' \subseteq Backups
    BY <1>11 DEF Restart, Interrupted
  <2>3. timers' \in [Runs -> Nat] /\ \A r \in Runs : ~(timers'[r] > 0)
    BY <1>11 DEF Restart
  <2>4. pc' \in [Runs -> Places] /\ pendingJobs' \in [Jobs -> Backups \cup {NoRun}]
    BY <1>11 DEF Restart
  <2>5. row' = row /\ started' = FALSE /\ named' = named /\ told' = {}
    BY <1>11 DEF Restart
  <2>6. /\ runningJobs' = {} /\ live' = {} /\ aborting' = {}
        /\ leases' = {} /\ keyfiles' = {} /\ post' = {}
    BY <1>11 DEF Restart
  <2>7. OnlyBackups'
    BY <1>1, <2>3, <2>5 DEF OnlyBackups
  <2>8. QED
    BY <1>1, <2>1, <2>2, <2>3, <2>4, <2>5, <2>6, <2>7 DEF TypeOK
<1>12. CASE FinishStart
  <2>1. timers' \in [Runs -> Nat] /\ \A r \in Runs : timers'[r] > 0 => r \in Backups
    BY <1>1, <1>12 DEF FinishStart, TypeOK, OnlyBackups
  <2>2. QED
    BY <1>1, <1>12, <2>1 DEF FinishStart, TypeOK, OnlyBackups, liveVars, heldVars
<1>13. CASE CheckDeferred
  BY <1>1, <1>13 DEF CheckDeferred, TypeOK, OnlyBackups, slotVars, liveVars, heldVars
<1>14. CASE UNCHANGED vars
  BY <1>1, <1>14 DEF vars, TypeOK, OnlyBackups, slotVars, liveVars, heldVars, startVars
<1>15. ASSUME NEW r \in Runs, RunStep(r)
       PROVE  Typed'
  BY <1>2, <1>3, <1>4, <1>5, <1>6, <1>7, <1>8, <1>9, <1>10, <1>15 DEF RunStep
<1>16. QED
  BY <1>1, <1>11, <1>12, <1>13, <1>14, <1>15, Kinds

\* The variables of the executor stay in their types.
THEOREM TypeCorrect == Spec => []TypeOK
<1>1. Init => Typed
  BY InitTyped
<1>2. Typed /\ [Next]_vars => Typed'
  BY StepTyped
<1>3. Typed => TypeOK
  BY DEF Typed
<1>4. QED
  BY <1>1, <1>2, <1>3, PTL DEF Spec

-----------------------------------------------------------------------------
(***************************************************************************)
(* The queue: a queued run waits for a slot that is taken, and is not lost *)
(* on any way to its start.                                                *)
(***************************************************************************)

\* What waits for the slot of a job is a run of that job.
PendingIsOwn == \A j \in Jobs : pendingJobs[j] # NoRun => JobOf[pendingJobs[j]] = j

Queue == PendingHasHolder /\ PendingIsOwn /\ QueuedIsKept

\* releaseJobSlot turns the queued run into one that waits out its delay.
LEMMA ReleaseEffect ==
    ASSUME Typed, NEW r \in Runs, ReleaseJobSlot(r)
    PROVE  /\ runningJobs' = IF r \in Backups THEN runningJobs \ {JobOf[r]} ELSE runningJobs
           /\ \A j \in Jobs : pendingJobs'[j] = IF r \in Backups /\ j = JobOf[r]
                                                THEN NoRun ELSE pendingJobs[j]
           /\ \A s \in Runs : timers[s] > 0 => timers'[s] > 0
           /\ \A s \in Runs, j \in Jobs :
                  pendingJobs[j] = s => pendingJobs'[j] = s \/ timers'[s] > 0
<1>1. CASE r \notin Backups
  BY <1>1 DEF ReleaseJobSlot, slotVars
<1>2. CASE r \in Backups
  <2> DEFINE j == JobOf[r]
             q == pendingJobs[j]
  <2>1. j \in Jobs /\ NoRun \notin Runs
    BY <1>2, BackupHasJob, ExecutorAssumption
  <2>2. /\ runningJobs' = runningJobs \ {j}
        /\ pendingJobs' = [pendingJobs EXCEPT ![j] = NoRun]
        /\ timers' = IF q = NoRun THEN timers ELSE [timers EXCEPT ![q] = timers[q] + 1]
    BY <1>2 DEF ReleaseJobSlot
  <2>3. \A i \in Jobs : pendingJobs'[i] = IF i = j THEN NoRun ELSE pendingJobs[i]
    BY <2>2 DEF Typed, TypeOK
  <2>4. timers \in [Runs -> Nat]
    BY DEF Typed, TypeOK
  <2>5. \A s \in Runs : timers[s] > 0 \/ s = q => timers'[s] > 0
    <3> HIDE DEF q, j
    <3>1. QED
      BY <2>1, <2>2, <2>4
  <2>6. \A s \in Runs, i \in Jobs :
            pendingJobs[i] = s => pendingJobs'[i] = s \/ timers'[s] > 0
    BY <2>3, <2>5
  <2>7. QED
    BY <1>2, <2>2, <2>3, <2>5, <2>6
<1>3. QED
  BY <1>1, <1>2

LEMMA InitQueue == Init => Queue
BY DEF Init, Queue, PendingHasHolder, PendingIsOwn, QueuedIsKept, Backups

LEMMA QueueAfterRelease ==
    ASSUME Typed, Queue, NEW r \in Runs, ReleaseJobSlot(r), started' = started,
           row'[r] # "queued",
           \A s \in Runs \ {r} : row'[s] = row[s] /\ pc'[s] = pc[s]
    PROVE  Queue'
<1>1. /\ runningJobs' = IF r \in Backups THEN runningJobs \ {JobOf[r]} ELSE runningJobs
      /\ \A j \in Jobs : pendingJobs'[j] = IF r \in Backups /\ j = JobOf[r]
                                           THEN NoRun ELSE pendingJobs[j]
      /\ \A s \in Runs : timers[s] > 0 => timers'[s] > 0
      /\ \A s \in Runs, j \in Jobs :
             pendingJobs[j] = s => pendingJobs'[j] = s \/ timers'[s] > 0
  BY ReleaseEffect
<1>2. PendingHasHolder' /\ PendingIsOwn'
  BY <1>1 DEF Queue, PendingHasHolder, PendingIsOwn
<1>3. QueuedIsKept'
  <2>1. SUFFICES ASSUME NEW s \in Backups, row'[s] = "queued"
                 PROVE  \/ pendingJobs'[JobOf[s]] = s \/ timers'[s] > 0
                        \/ pc'[s] = "preparing" \/ ~started'
    BY DEF QueuedIsKept
  <2>2. s # r /\ s \in Runs /\ JobOf[s] \in Jobs
    BY <2>1, BackupHasJob
  <2>3. \/ pendingJobs[JobOf[s]] = s \/ timers[s] > 0
        \/ pc[s] = "preparing" \/ ~started
    BY <2>1, <2>2 DEF Queue, QueuedIsKept
  <2>4. QED
    BY <1>1, <2>2, <2>3
<1>4. QED
  BY <1>2, <1>3 DEF Queue

LEMMA StepQueue == Typed /\ Queue /\ [Next]_vars => Queue'
<1>1. SUFFICES ASSUME Typed, Queue, [Next]_vars PROVE Queue'
  OBVIOUS
<1>2. ASSUME NEW r \in Runs, NEW ts, Calls(r, ts)
      PROVE  Queue'
  <2>1. r \in Backups /\ JobOf[r] \in Jobs
    BY <1>1, <1>2, BackupHasJob DEF Calls, AskedFor, Typed, OnlyBackups
  <2>2. \A s \in Runs \ {r} : ts[s] = timers[s]
    BY <1>1, <1>2 DEF Calls, AskedFor, Typed, TypeOK
  <2>3. \A s \in Backups : s \in Runs /\ JobOf[s] \in Jobs
    BY BackupHasJob
  <2>4. CASE Refuse(r, ts)
    BY <1>1, <2>1, <2>2, <2>3, <2>4
       DEF Refuse, Asked, Goto, SetRow, Typed, TypeOK, startVars,
           Queue, PendingHasHolder, PendingIsOwn, QueuedIsKept
  <2>5. CASE Skip(r, ts)
    BY <1>1, <2>1, <2>2, <2>3, <2>5
       DEF Skip, Asked, Goto, SetRow, Typed, TypeOK, startVars,
           Queue, PendingHasHolder, PendingIsOwn, QueuedIsKept
  <2>6. CASE Enqueue(r, ts)
    BY <1>1, <2>1, <2>2, <2>3, <2>6, ExecutorAssumption
       DEF Enqueue, Asked, Goto, SetRow, Typed, TypeOK, startVars,
           Queue, PendingHasHolder, PendingIsOwn, QueuedIsKept
  <2>7. CASE Take(r, ts)
    BY <1>1, <2>1, <2>2, <2>3, <2>7
       DEF Take, Goto, Typed, TypeOK, startVars,
           Queue, PendingHasHolder, PendingIsOwn, QueuedIsKept
  <2>8. QED
    BY <1>2, <2>4, <2>5, <2>6, <2>7 DEF Calls, ExecuteBackup
<1>3. ASSUME NEW r \in Runs, RestoreSnapshot(r)
      PROVE  Queue'
  BY <1>1, <1>3 DEF RestoreSnapshot, Goto, Typed, TypeOK, slotVars, startVars,
                    Queue, PendingHasHolder, PendingIsOwn, QueuedIsKept
<1>4. ASSUME NEW r \in Runs, NEW s \in Terminal, Ends(r, s)
      PROVE  Queue'
  <2>1. s # "queued"
    BY DEF Terminal
  <2>2. ReleaseJobSlot(r) /\ started' = started
    BY <1>4 DEF Ends, EndRun, GiveBack, startVars
  <2>3. /\ row'[r] # "queued"
        /\ \A t \in Runs \ {r} : row'[t] = row[t] /\ pc'[t] = pc[t]
    BY <1>1, <1>4, <2>1 DEF Ends, EndRun, SetRow, Goto, Typed, TypeOK
  <2>4. QED
    BY <1>1, <2>2, <2>3, QueueAfterRelease
<1>5. ASSUME NEW r \in Runs, NEW held, Spawns(r, held)
      PROVE  Queue'
  BY <1>1, <1>5 DEF Spawns, Spawn, Goto, SetRow, Typed, TypeOK, slotVars, startVars,
                    Queue, PendingHasHolder, PendingIsOwn, QueuedIsKept
<1>6. ASSUME NEW r \in Runs, Waits(r)
      PROVE  Queue'
  BY <1>1, <1>6 DEF Waits, AwaitTunnel, Goto, SetRow, Typed, TypeOK, slotVars, startVars,
                    Queue, PendingHasHolder, PendingIsOwn, QueuedIsKept
<1>7. ASSUME NEW r \in Runs, ReadsBack(r)
      PROVE  Queue'
  BY <1>1, <1>7 DEF ReadsBack, Goto, Typed, TypeOK, slotVars, startVars,
                    Queue, PendingHasHolder, PendingIsOwn, QueuedIsKept
<1>8. ASSUME NEW r \in Runs, SpawnError(r)
      PROVE  Queue'
  <2>1. ReleaseJobSlot(r) /\ started' = started
    BY <1>8 DEF SpawnError, GiveBack, startVars
  <2>2. /\ row'[r] # "queued"
        /\ \A t \in Runs \ {r} : row'[t] = row[t] /\ pc'[t] = pc[t]
    BY <1>1, <1>8 DEF SpawnError, SetRow, Goto, Typed, TypeOK
  <2>3. QED
    BY <1>1, <2>1, <2>2, QueueAfterRelease
<1>9. ASSUME NEW r \in Runs, NEW ok \in BOOLEAN, PostScriptEnds(r, ok)
      PROVE  Queue'
  <2>1. \A s \in Runs : row'[s] = "queued" => row[s] = "queued"
    BY <1>1, <1>9 DEF PostScriptEnds, SetRow, Typed, TypeOK
  <2>2. UNCHANGED <<runningJobs, pendingJobs, timers, pc, started>>
    BY <1>9 DEF PostScriptEnds, slotVars, startVars
  <2>3. QED
    BY <1>1, <2>1, <2>2 DEF Queue, PendingHasHolder, PendingIsOwn, QueuedIsKept, Backups
<1>10. ASSUME NEW r \in Runs, AbortRun(r)
       PROVE  Queue'
  <2>1. \A s \in Backups : s \in Runs /\ JobOf[s] \in Jobs
    BY BackupHasJob
  <2>2. CASE r \in live
    BY <1>1, <1>10, <2>2 DEF AbortRun, startVars,
                    Queue, PendingHasHolder, PendingIsOwn, QueuedIsKept
  <2>3. CASE r \notin live
    BY <1>1, <1>10, <2>1, <2>3 DEF AbortRun, SetRow, Typed, TypeOK, startVars,
                    Queue, PendingHasHolder, PendingIsOwn, QueuedIsKept
  <2>4. QED
    BY <2>2, <2>3
<1>11. ASSUME NEW r \in Runs, NEW s \in {"success", "abort"}, Settle(r, s)
       PROVE  Queue'
  BY <1>1, <1>11 DEF Settle, SetRow, Typed, TypeOK, slotVars, startVars,
                     Queue, PendingHasHolder, PendingIsOwn, QueuedIsKept
<1>12. CASE Restart
  BY <1>1, <1>12 DEF Restart, Queue, PendingHasHolder, PendingIsOwn, QueuedIsKept
<1>13. CASE FinishStart
  <2>1. \A r \in Backups : row'[r] = "queued" => timers'[r] > 0
    <3>1. \A r \in Runs : row'[r] = "queued" => row[r] = "queued"
      BY <1>13 DEF FinishStart
    <3>2. \A r \in Runs : row[r] = "queued" => timers'[r] > 0
      BY <1>1, <1>13 DEF FinishStart, Typed, TypeOK
    <3>3. QED
      BY <3>1, <3>2 DEF Backups
  <2>2. QED
    BY <1>1, <1>13, <2>1
       DEF FinishStart, Queue, PendingHasHolder, PendingIsOwn, QueuedIsKept
<1>14. CASE CheckDeferred
  BY <1>1, <1>14 DEF CheckDeferred, slotVars, Queue, PendingHasHolder, PendingIsOwn, QueuedIsKept
<1>15. CASE UNCHANGED vars
  BY <1>1, <1>15 DEF vars, slotVars, startVars, Queue, PendingHasHolder, PendingIsOwn, QueuedIsKept
<1>16. ASSUME NEW r \in Runs, RunStep(r)
       PROVE  Queue'
  BY <1>2, <1>3, <1>4, <1>5, <1>6, <1>7, <1>8, <1>9, <1>10, <1>11, <1>16 DEF RunStep
<1>17. TypeOK
  BY <1>1 DEF Typed
<1>18. QED
  BY <1>1, <1>12, <1>13, <1>14, <1>15, <1>16, <1>17, Kinds

-----------------------------------------------------------------------------
(***************************************************************************)
(* Rows that say `running`, and what a run holds.                          *)
(***************************************************************************)

LEMMA InitOwned == Init => RunningIsOwned
BY DEF Init, RunningIsOwned

LEMMA StepOwned == Typed /\ RunningIsOwned /\ [Next]_vars => RunningIsOwned'
<1>1. SUFFICES ASSUME Typed, RunningIsOwned, [Next]_vars PROVE RunningIsOwned'
  OBVIOUS
<1> USE DEF RunningIsOwned, Executing
<1>2. ASSUME NEW r \in Runs, NEW ts, Calls(r, ts)
      PROVE  RunningIsOwned'
  <2>1. CASE Take(r, ts)
    BY <1>1, <2>1 DEF Take, Goto, Typed, TypeOK, startVars
  <2>2. CASE Refuse(r, ts) \/ Skip(r, ts) \/ Enqueue(r, ts)
    <3>1. row'[r] # "running" /\ UNCHANGED <<deferred, checking, started>>
      BY <1>1, <2>2 DEF Refuse, Skip, Enqueue, SetRow, Typed, TypeOK, startVars
    <3>2. \A s \in Runs \ {r} : row'[s] = row[s] /\ pc'[s] = pc[s]
      BY <1>1, <2>2 DEF Refuse, Skip, Enqueue, SetRow, Asked, Goto, Typed, TypeOK
    <3>3. QED
      BY <1>1, <3>1, <3>2
  <2>3. QED
    BY <1>2, <2>1, <2>2 DEF Calls, ExecuteBackup
<1>3. ASSUME NEW r \in Runs, RestoreSnapshot(r)
      PROVE  RunningIsOwned'
  BY <1>1, <1>3 DEF RestoreSnapshot, Goto, Typed, TypeOK, startVars
<1>4. ASSUME NEW r \in Runs, NEW s \in Terminal, Ends(r, s)
      PROVE  RunningIsOwned'
  <2>1. s # "running"
    BY DEF Terminal
  <2>2. QED
    BY <1>1, <1>4, <2>1 DEF Ends, EndRun, Goto, SetRow, Typed, TypeOK, startVars
<1>5. ASSUME NEW r \in Runs, NEW held, Spawns(r, held)
      PROVE  RunningIsOwned'
  BY <1>1, <1>5, ExecutorAssumption
     DEF Spawns, Spawn, Goto, SetRow, Typed, TypeOK, startVars
<1>6. ASSUME NEW r \in Runs, Waits(r) \/ ReadsBack(r)
      PROVE  RunningIsOwned'
  BY <1>1, <1>6 DEF Waits, AwaitTunnel, ReadsBack, Goto, SetRow, Typed, TypeOK, startVars
<1>7. ASSUME NEW r \in Runs, SpawnError(r)
      PROVE  RunningIsOwned'
  BY <1>1, <1>7 DEF SpawnError, Goto, SetRow, Typed, TypeOK, startVars
<1>8. ASSUME NEW r \in Runs, NEW ok \in BOOLEAN, PostScriptEnds(r, ok)
      PROVE  RunningIsOwned'
  <2>1. \A s \in Runs : row'[s] = "running" => row[s] = "running"
    BY <1>1, <1>8 DEF PostScriptEnds, SetRow, Typed, TypeOK
  <2>2. UNCHANGED <<pc, deferred, checking, started>>
    BY <1>8 DEF PostScriptEnds, startVars
  <2>3. QED
    BY <1>1, <2>1, <2>2
<1>9. ASSUME NEW r \in Runs, AbortRun(r)
      PROVE  RunningIsOwned'
  <2>1. \A s \in Runs : row'[s] = "running" => row[s] = "running"
    BY <1>1, <1>9 DEF AbortRun, SetRow, Typed, TypeOK
  <2>2. UNCHANGED <<pc, deferred, checking, started>>
    BY <1>9 DEF AbortRun, startVars
  <2>3. QED
    BY <1>1, <2>1, <2>2
<1>10. ASSUME NEW r \in Runs, NEW s \in {"success", "abort"}, Settle(r, s)
       PROVE  RunningIsOwned'
  BY <1>1, <1>10 DEF Settle, SetRow, Typed, TypeOK
<1>11. CASE Restart
  BY <1>11 DEF Restart
<1>12. CASE FinishStart
  BY <1>1, <1>12 DEF FinishStart
<1>13. CASE CheckDeferred
  BY <1>1, <1>13 DEF CheckDeferred
<1>14. CASE UNCHANGED vars
  BY <1>1, <1>14 DEF vars, startVars
<1>15. ASSUME NEW r \in Runs, RunStep(r)
       PROVE  RunningIsOwned'
  BY <1>2, <1>3, <1>4, <1>5, <1>6, <1>7, <1>8, <1>9, <1>10, <1>15 DEF RunStep
<1>16. TypeOK
  BY <1>1 DEF Typed
<1>17. QED
  BY <1>1, <1>11, <1>12, <1>13, <1>14, <1>15, <1>16, Kinds

LEMMA InitGivenBack == Init => GivenBack
BY DEF Init, GivenBack

\* Whoever leaves, what it held is given back with the slot of its job.
LEMMA GivenBackAfter ==
    ASSUME Typed, GivenBack, NEW r \in Runs, GiveBack(r),
           \A s \in Runs \ {r} : pc'[s] = pc[s]
    PROVE  GivenBack'
<1>1. /\ live' = live \ {r} /\ leases' = leases \ {r} /\ keyfiles' = keyfiles \ {r}
      /\ ReleaseJobSlot(r)
  BY DEF GiveBack, Forget
<1>2. runningJobs' = IF r \in Backups THEN runningJobs \ {JobOf[r]} ELSE runningJobs
  BY <1>1, ReleaseEffect
<1>3. \A s \in live' \cup leases' \cup keyfiles' : pc'[s] \in Executing \cup {"stuck"}
  BY <1>1 DEF GivenBack, Typed, TypeOK
<1>4. ASSUME NEW j \in runningJobs'
      PROVE  \E s \in Backups : JobOf[s] = j /\ pc'[s] \in Executing \cup {"stuck"}
  <2>1. PICK s \in Backups : JobOf[s] = j /\ pc[s] \in Executing \cup {"stuck"}
    BY <1>2, <1>4 DEF GivenBack
  <2>2. s # r /\ s \in Runs
    BY <1>2, <1>4, <2>1 DEF Backups
  <2>3. QED
    BY <2>1, <2>2
<1>5. QED
  BY <1>3, <1>4 DEF GivenBack

LEMMA StepGivenBack == Typed /\ GivenBack /\ [Next]_vars => GivenBack'
<1>1. SUFFICES ASSUME Typed, GivenBack, [Next]_vars PROVE GivenBack'
  OBVIOUS
<1> USE DEF Executing
<1>2. ASSUME NEW r \in Runs, NEW ts, Calls(r, ts)
      PROVE  GivenBack'
  <2>1. r \in Backups
    BY <1>1, <1>2 DEF Calls, AskedFor, Typed, OnlyBackups
  <2>2. CASE Take(r, ts)
    BY <1>1, <2>1, <2>2 DEF Take, Goto, GivenBack, Typed, TypeOK, Backups
  <2>3. CASE Refuse(r, ts) \/ Skip(r, ts) \/ Enqueue(r, ts)
    <3>1. UNCHANGED <<runningJobs, live, leases, keyfiles>>
      BY <2>3 DEF Refuse, Skip, Enqueue, liveVars, heldVars
    <3>2. \A s \in Runs : pc[s] \in Executing \cup {"stuck"} => pc'[s] = pc[s]
      BY <1>1, <2>3 DEF Refuse, Skip, Enqueue, Asked, Goto, Typed, TypeOK
    <3>3. QED
      BY <1>1, <3>1, <3>2 DEF GivenBack, Backups, Typed, TypeOK
  <2>4. QED
    BY <1>2, <2>2, <2>3 DEF Calls, ExecuteBackup
<1>3. ASSUME NEW r \in Runs, RestoreSnapshot(r)
      PROVE  GivenBack'
  BY <1>1, <1>3 DEF RestoreSnapshot, Goto, GivenBack, Typed, TypeOK, Backups, slotVars, liveVars
<1>4. ASSUME NEW r \in Runs, NEW s \in Terminal, Ends(r, s)
      PROVE  GivenBack'
  <2>1. GiveBack(r) /\ \A t \in Runs \ {r} : pc'[t] = pc[t]
    BY <1>1, <1>4 DEF Ends, EndRun, Goto, Typed, TypeOK
  <2>2. QED
    BY <1>1, <2>1, GivenBackAfter
<1>5. ASSUME NEW r \in Runs, NEW held, Spawns(r, held)
      PROVE  GivenBack'
  <2>1. SpawnOutcomes \subseteq Executing \cup {"stuck"}
    BY ExecutorAssumption
  <2>2. QED
    BY <1>1, <1>5, <2>1
       DEF Spawns, Spawn, Goto, GivenBack, Typed, TypeOK, Backups, slotVars
<1>6. ASSUME NEW r \in Runs, Waits(r) \/ ReadsBack(r)
      PROVE  GivenBack'
  BY <1>1, <1>6 DEF Waits, AwaitTunnel, ReadsBack, Forget, Goto, GivenBack, Typed, TypeOK,
                    Backups, slotVars, heldVars
<1>7. ASSUME NEW r \in Runs, SpawnError(r)
      PROVE  GivenBack'
  <2>1. GiveBack(r) /\ \A t \in Runs \ {r} : pc'[t] = pc[t]
    BY <1>1, <1>7 DEF SpawnError, Goto, Typed, TypeOK
  <2>2. QED
    BY <1>1, <2>1, GivenBackAfter
<1>8. ASSUME NEW r \in Runs,
             \/ \E ok \in BOOLEAN : PostScriptEnds(r, ok)
             \/ \E s \in {"success", "abort"} : Settle(r, s)
             \/ AbortRun(r)
      PROVE  GivenBack'
  BY <1>1, <1>8 DEF PostScriptEnds, Settle, AbortRun, GivenBack, slotVars, liveVars, heldVars
<1>9. CASE Restart
  BY <1>9 DEF Restart, GivenBack
<1>10. CASE FinishStart \/ CheckDeferred
  BY <1>1, <1>10 DEF FinishStart, CheckDeferred, GivenBack, slotVars, liveVars, heldVars
<1>11. CASE UNCHANGED vars
  BY <1>1, <1>11 DEF vars, GivenBack, slotVars, liveVars, heldVars
<1>12. ASSUME NEW r \in Runs, RunStep(r)
       PROVE  GivenBack'
  BY <1>2, <1>3, <1>4, <1>5, <1>6, <1>7, <1>8, <1>12 DEF RunStep
<1>13. TypeOK
  BY <1>1 DEF Typed
<1>14. QED
  BY <1>1, <1>9, <1>10, <1>11, <1>12, <1>13, Kinds

\* The invariant that holds whatever `spawn` comes to and whoever dials.
Kept == Typed /\ Queue /\ RunningIsOwned /\ GivenBack

LEMMA AlwaysKept == Spec => []Kept
<1>1. Init => Kept
  BY InitTyped, InitQueue, InitOwned, InitGivenBack DEF Kept
<1>2. Kept /\ [Next]_vars => Kept'
  BY StepTyped, StepQueue, StepOwned, StepGivenBack DEF Kept
<1>3. QED
  BY <1>1, <1>2, PTL DEF Spec

\* A run that waits in the queue waits for a slot that is taken.
THEOREM PendingWaitsForSlot == Spec => []PendingHasHolder
<1>1. Kept => PendingHasHolder
  BY DEF Kept, Queue
<1>2. QED
  BY <1>1, AlwaysKept, PTL

\* A queued row is never left without something that will start the run.
THEOREM QueuedRunsAreKept == Spec => []QueuedIsKept
<1>1. Kept => QueuedIsKept
  BY DEF Kept, Queue
<1>2. QED
  BY <1>1, AlwaysKept, PTL

\* A running row is never left without something that will end the run.
THEOREM RunningRunsAreOwned == Spec => []RunningIsOwned
<1>1. Kept => RunningIsOwned
  BY DEF Kept
<1>2. QED
  BY <1>1, AlwaysKept, PTL

\* Whatever a run held is given back on every way out.
THEOREM EverythingIsGivenBack == Spec => []GivenBack
<1>1. Kept => GivenBack
  BY DEF Kept
<1>2. QED
  BY <1>1, AlwaysKept, PTL

\* All of it together: every run that waits or runs is accounted for, and
\* nothing is held for one that is over.
THEOREM RunsAreAccountedFor == Spec => []RunsAccounted
  BY TypeCorrect, QueuedRunsAreKept, RunningRunsAreOwned, PendingWaitsForSlot,
     EverythingIsGivenBack, PTL DEF RunsAccounted

-----------------------------------------------------------------------------
(***************************************************************************)
(* The slot.  Where `spawn` never makes the process emit an error, a slot  *)
(* is given back by its one holder only, and two runs of a job never have  *)
(* their process at the same time.                                         *)
(***************************************************************************)

Holding == Executing \cup {"stuck"}

SlotInv ==
    /\ \A r \in Runs : pc[r] \notin {"erring", "errored"}
    /\ \A r \in Backups : pc[r] \in Holding => JobOf[r] \in runningJobs
    /\ \A r, s \in Backups :
           pc[r] \in Holding /\ pc[s] \in Holding /\ JobOf[r] = JobOf[s] => r = s

LEMMA StepSlot ==
    ASSUME "erring" \notin SpawnOutcomes, Typed, SlotInv, [Next]_vars
    PROVE  SlotInv'
<1> USE DEF Executing, Holding
<1>1. \A s \in Backups : s \in Runs
  BY DEF Backups
<1>2. ASSUME NEW r \in Runs, NEW ts, Calls(r, ts)
      PROVE  SlotInv'
  <2>1. CASE Take(r, ts)
    BY <1>1, <2>1 DEF Take, Goto, SlotInv, Typed, TypeOK
  <2>2. CASE Refuse(r, ts) \/ Skip(r, ts) \/ Enqueue(r, ts)
    <3>1. runningJobs' = runningJobs
      BY <2>2 DEF Refuse, Skip, Enqueue
    <3>2. \A s \in Runs : pc'[s] = pc[s] \/ pc'[s] = "off"
      BY <2>2 DEF Refuse, Skip, Enqueue, Asked, Goto, Typed, TypeOK
    <3>3. QED
      BY <1>1, <3>1, <3>2 DEF SlotInv
  <2>3. QED
    BY <1>2, <2>1, <2>2 DEF Calls, ExecuteBackup
<1>3. ASSUME NEW r \in Runs, RestoreSnapshot(r)
      PROVE  SlotInv'
  BY <1>1, <1>3 DEF RestoreSnapshot, Goto, slotVars, SlotInv, Typed, TypeOK
<1>4. ASSUME NEW r \in Runs, NEW s \in Terminal, Ends(r, s)
      PROVE  SlotInv'
  <2>1. ReleaseJobSlot(r) /\ pc' = [pc EXCEPT ![r] = "off"] /\ pc[r] \in Executing
    BY <1>4 DEF Ends, EndRun, GiveBack, Goto, SlotInv
  <2>2. runningJobs' = IF r \in Backups THEN runningJobs \ {JobOf[r]} ELSE runningJobs
    BY <2>1, ReleaseEffect
  <2>3. QED
    BY <1>1, <2>1, <2>2 DEF SlotInv, Typed, TypeOK
<1>5. ASSUME NEW r \in Runs, NEW held, Spawns(r, held)
      PROVE  SlotInv'
  <2>1. \A place \in SpawnOutcomes : place \in {"cli", "stuck"}
    BY ExecutorAssumption
  <2>2. QED
    BY <1>1, <1>5, <2>1 DEF Spawns, Spawn, Goto, slotVars, SlotInv, Typed, TypeOK
<1>6. ASSUME NEW r \in Runs, Waits(r) \/ ReadsBack(r)
      PROVE  SlotInv'
  BY <1>1, <1>6 DEF Waits, AwaitTunnel, ReadsBack, Goto, slotVars, SlotInv, Typed, TypeOK
<1>7. ASSUME NEW r \in Runs, SpawnError(r)
      PROVE  SlotInv'
  BY <1>7 DEF SpawnError, SlotInv
<1>8. ASSUME NEW r \in Runs,
             \/ \E ok \in BOOLEAN : PostScriptEnds(r, ok)
             \/ \E s \in {"success", "abort"} : Settle(r, s)
             \/ AbortRun(r)
      PROVE  SlotInv'
  BY <1>8 DEF PostScriptEnds, Settle, AbortRun, slotVars, SlotInv
<1>9. CASE Restart
  BY <1>1, <1>9 DEF Restart, SlotInv
<1>10. CASE FinishStart \/ CheckDeferred
  BY <1>10 DEF FinishStart, CheckDeferred, slotVars, SlotInv
<1>11. CASE UNCHANGED vars
  BY <1>11 DEF vars, slotVars, SlotInv
<1>12. ASSUME NEW r \in Runs, RunStep(r)
       PROVE  SlotInv'
  BY <1>2, <1>3, <1>4, <1>5, <1>6, <1>7, <1>8, <1>12 DEF RunStep
<1>13. TypeOK
  BY DEF Typed
<1>14. QED
  BY <1>9, <1>10, <1>11, <1>12, <1>13, Kinds

LEMMA InitSlot == Init => SlotInv
BY DEF Init, SlotInv, Holding, Executing, Backups

LEMMA SlotAlways ==
    ASSUME "erring" \notin SpawnOutcomes
    PROVE  Spec => [](Typed /\ SlotInv)
<1>1. Init => Typed /\ SlotInv
  BY InitTyped, InitSlot
<1>2. Typed /\ SlotInv /\ [Next]_vars => Typed' /\ SlotInv'
  BY StepTyped, StepSlot
<1>3. QED
  BY <1>1, <1>2, PTL DEF Spec

\* One process per job, whoever dials and however often the agent restarts,
\* as long as no process emits an error.
THEOREM MutualExclusion ==
    ASSUME "erring" \notin SpawnOutcomes
    PROVE  Spec => []OneProcessPerJob
<1>1. SlotInv => OneProcessPerJob
  BY DEF SlotInv, OneProcessPerJob, Holding, Executing
<1>2. QED
  BY <1>1, SlotAlways, PTL

-----------------------------------------------------------------------------
(***************************************************************************)
(* Where the agent dials: nothing of a new run starts before the history   *)
(* is settled, so a run is in one place at a time.                         *)
(***************************************************************************)

IsPending(r) == \E j \in Jobs : pendingJobs[j] = r

LineInv ==
    /\ \A r \in Runs : timers[r] \in {0, 1}
    /\ \A r \in Runs : timers[r] = 1 => row[r] = "queued" /\ pc[r] = "off" /\ ~IsPending(r)
    /\ \A r \in Runs : IsPending(r) => row[r] = "queued" /\ pc[r] = "off"
    /\ \A r \in Runs : pc[r] = "new" => row[r] = "none"
    /\ \A r \in Runs : pc[r] = "errored" => row[r] = "failed"
    /\ \A r \in Runs : row[r] \in Final => pc[r] \in {"off", "errored"}
    /\ \A r \in post : row[r] = "success" /\ pc[r] = "off"
    /\ \A r \in deferred \cup checking : row[r] = "running" /\ pc[r] = "off"
    /\ deferred \cap checking = {}
    /\ ~started => \A r \in Runs : pc[r] \in {"new", "off"} /\ timers[r] = 0 /\ ~IsPending(r)

LEMMA InitLine == Init => LineInv
BY ExecutorAssumption DEF Init, LineInv, IsPending, Final, Terminal

LEMMA StepLine ==
    ASSUME Outbound = FALSE, Typed, Queue, LineInv, [Next]_vars
    PROVE  LineInv'
<1> USE DEF Executing, Final, Terminal
<1>1. ASSUME NEW r \in Backups PROVE r \in Runs /\ JobOf[r] \in Jobs
  BY <1>1, BackupHasJob
<1>2. \A j \in Jobs, r \in Runs : pendingJobs[j] = r => JobOf[r] = j
  BY ExecutorAssumption DEF Queue, PendingIsOwn
<1>3. ASSUME NEW r \in Runs, NEW ts, Calls(r, ts)
      PROVE  LineInv'
  <2>1. r \in Backups /\ JobOf[r] \in Jobs /\ started
    <3>1. r \in Backups
      BY <1>3 DEF Calls, AskedFor, Typed, OnlyBackups
    <3>2. started
      BY <1>3 DEF Calls, AskedFor, Accepting, LineInv
    <3>3. QED
      BY <1>1, <3>1, <3>2
  <2>2. /\ pc[r] \in {"new", "off"} /\ ~IsPending(r) /\ ts[r] = 0
        /\ row[r] \in {"none", "queued"}
        /\ ts \in [Runs -> Nat]
        /\ \A s \in Runs \ {r} : ts[s] = timers[s]
    <3>1. CASE pc[r] = "new" /\ ts = timers
      BY <3>1 DEF LineInv, Typed, TypeOK
    <3>2. CASE timers[r] > 0 /\ ts = [timers EXCEPT ![r] = timers[r] - 1]
      <4>1. timers[r] = 1 /\ timers \in [Runs -> Nat]
        BY <3>2 DEF LineInv, Typed, TypeOK
      <4>2. ts[r] = 0 /\ ts \in [Runs -> Nat] /\ \A s \in Runs \ {r} : ts[s] = timers[s]
        BY <3>2, <4>1
      <4>3. QED
        BY <4>1, <4>2 DEF LineInv
    <3>3. QED
      BY <1>3, <3>1, <3>2 DEF Calls, AskedFor
  <2>3. r \notin post \cup deferred \cup checking
    BY <2>2 DEF LineInv
  <2>4. CASE Refuse(r, ts)
    BY <2>1, <2>2, <2>3, <2>4
       DEF Refuse, Asked, Goto, SetRow, LineInv, IsPending, Typed, TypeOK, startVars
  <2>5. CASE Skip(r, ts)
    BY <2>1, <2>2, <2>3, <2>5
       DEF Skip, Asked, Goto, SetRow, LineInv, IsPending, Typed, TypeOK, startVars
  <2>6. CASE Enqueue(r, ts)
    <3>1. /\ row' = [row EXCEPT ![r] = "queued"] /\ timers' = ts
          /\ pendingJobs' = [pendingJobs EXCEPT ![JobOf[r]] = r]
          /\ UNCHANGED <<post, deferred, checking, started>>
      BY <2>6 DEF Enqueue, SetRow, startVars
    <3>2. pc' = [pc EXCEPT ![r] = "off"]
      BY <2>2, <2>6 DEF Enqueue, Asked, Goto
    <3>3. \A s \in Runs \ {r} : IsPending(s)' => IsPending(s)
      BY <2>1, <3>1 DEF IsPending, Typed, TypeOK
    <3>4. QED
      BY <2>1, <2>2, <2>3, <3>1, <3>2, <3>3 DEF LineInv, Typed, TypeOK
  <2>7. CASE Take(r, ts)
    BY <2>1, <2>2, <2>3, <2>7
       DEF Take, Goto, LineInv, IsPending, Typed, TypeOK, startVars
  <2>8. QED
    BY <1>3, <2>4, <2>5, <2>6, <2>7 DEF Calls, ExecuteBackup
<1>4. ASSUME NEW r \in Runs, RestoreSnapshot(r)
      PROVE  LineInv'
  BY <1>4 DEF RestoreSnapshot, Goto, Accepting, LineInv, IsPending, Typed, TypeOK,
              slotVars, startVars
<1>5. ASSUME NEW r \in Runs, pc[r] \in Executing \cup {"errored"}, ReleaseJobSlot(r)
      PROVE  /\ timers'[r] = 0 /\ ~IsPending(r)'
             /\ \A s \in Runs : timers'[s] \in {0, 1}
             /\ \A s \in Runs \ {r} :
                    /\ timers'[s] = 1 => ~IsPending(s)' /\ (timers[s] = 1 \/ IsPending(s))
                    /\ IsPending(s)' => IsPending(s)
  <2>1. timers[r] = 0 /\ ~IsPending(r)
    BY <1>5 DEF LineInv
  <2>2. CASE r \notin Backups
    BY <1>5, <2>1, <2>2 DEF LineInv, IsPending, ReleaseJobSlot, slotVars
  <2>3. CASE r \in Backups
    <3> DEFINE j == JobOf[r]
               q == pendingJobs[j]
    <3>1. j \in Jobs /\ NoRun \notin Runs /\ q \in Runs \cup {NoRun}
      BY <1>1, <2>3, ExecutorAssumption DEF Typed, TypeOK, Backups
    <3>2. /\ pendingJobs' = [pendingJobs EXCEPT ![j] = NoRun]
          /\ timers' = IF q = NoRun THEN timers ELSE [timers EXCEPT ![q] = timers[q] + 1]
      BY <1>5, <2>3 DEF ReleaseJobSlot
    <3>3. q # NoRun => IsPending(q) /\ q # r /\ timers[q] = 0
      BY <2>1, <3>1 DEF IsPending, LineInv
    <3>4. \A i \in Jobs : pendingJobs'[i] = IF i = j THEN NoRun ELSE pendingJobs[i]
      BY <3>2 DEF Typed, TypeOK
    <3>5. \A s \in Runs : IsPending(s)' <=> IsPending(s) /\ s # q
      BY <1>2, <3>1, <3>4 DEF IsPending
    <3>6. \A s \in Runs : timers'[s] = IF s = q THEN 1 ELSE timers[s]
      <4>1. timers \in [Runs -> Nat]
        BY DEF Typed, TypeOK
      <4> HIDE DEF q, j
      <4>2. QED
        BY <3>1, <3>2, <3>3, <4>1
    <3>7. \A s \in Runs : timers[s] \in {0, 1} /\ (timers[s] = 1 => ~IsPending(s))
      BY DEF LineInv
    <3> HIDE DEF q, j
    <3>8. QED
      BY <2>1, <3>1, <3>3, <3>5, <3>6, <3>7
  <2>4. QED
    BY <2>2, <2>3
<1>6. ASSUME NEW r \in Runs, pc[r] \in Executing \cup {"errored"}, ReleaseJobSlot(r),
             NEW s \in Terminal, NEW place \in {"off", "errored"},
             place = "errored" => s = "failed",
             row' = [row EXCEPT ![r] = s], pc' = [pc EXCEPT ![r] = place],
             UNCHANGED <<deferred, checking, started>>,
             post' = post \/ (s = "success" /\ place = "off" /\ post' = post \cup {r})
      PROVE  LineInv'
  <2>1. /\ timers'[r] = 0 /\ ~IsPending(r)'
        /\ \A t \in Runs : timers'[t] \in {0, 1}
        /\ \A t \in Runs \ {r} :
               /\ timers'[t] = 1 => ~IsPending(t)' /\ (timers[t] = 1 \/ IsPending(t))
               /\ IsPending(t)' => IsPending(t)
    BY <1>5, <1>6
  <2>2. r \notin post \cup deferred \cup checking /\ started
    <3>1. started
      BY <1>6 DEF LineInv
    <3>2. r \in post => pc[r] = "off"
      BY DEF LineInv
    <3>3. r \in deferred \cup checking => pc[r] = "off"
      BY DEF LineInv
    <3>4. QED
      BY <1>6, <3>1, <3>2, <3>3
  <2>3. \A t \in Runs \ {r} : row'[t] = row[t] /\ pc'[t] = pc[t]
    BY <1>6 DEF Typed, TypeOK
  <2>4. row'[r] = s /\ pc'[r] = place
    BY <1>6 DEF Typed, TypeOK
  <2>5. \A t \in post' : row'[t] = "success" /\ pc'[t] = "off"
    BY <1>6, <2>2, <2>3, <2>4 DEF LineInv, Typed, TypeOK
  <2>6. \A t \in deferred' \cup checking' : row'[t] = "running" /\ pc'[t] = "off"
    BY <1>6, <2>2, <2>3 DEF LineInv, Typed, TypeOK, Backups
  <2>7. QED
    BY <1>6, <2>1, <2>2, <2>3, <2>4, <2>5, <2>6 DEF LineInv
<1>7. ASSUME NEW r \in Runs, NEW s \in Terminal, Ends(r, s)
      PROVE  LineInv'
  BY <1>6, <1>7 DEF Ends, EndRun, GiveBack, Goto, SetRow, startVars
<1>8. ASSUME NEW r \in Runs, SpawnError(r)
      PROVE  LineInv'
  BY <1>6, <1>8 DEF SpawnError, GiveBack, Goto, SetRow, startVars
<1>9. ASSUME NEW r \in Runs, NEW place \in {"tunnel", "cli", "erring", "stuck", "query"},
             pc[r] \in {"preparing", "tunnel", "cli"},
             pc' = [pc EXCEPT ![r] = place],
             row' = [row EXCEPT ![r] = "running"] \/ row' = row,
             UNCHANGED <<slotVars, startVars, post>>
      PROVE  LineInv'
  <2>1. timers[r] = 0 /\ ~IsPending(r) /\ started /\ r \notin post \cup deferred \cup checking
    BY <1>9 DEF LineInv
  <2>2. \A t \in Runs \ {r} : row'[t] = row[t] /\ pc'[t] = pc[t]
    BY <1>9 DEF Typed, TypeOK
  <2>3. row'[r] \notin Final /\ pc'[r] = place
    BY <1>9 DEF LineInv, Typed, TypeOK
  <2>4. \A t \in Runs : IsPending(t)' <=> IsPending(t)
    BY <1>9 DEF IsPending, slotVars
  <2>5. UNCHANGED <<timers, post, deferred, checking, started>>
    BY <1>9 DEF slotVars, startVars
  <2>6. \A t \in post : t \in Runs \ {r}
    BY <2>1 DEF Typed, TypeOK
  <2>7. \A t \in deferred \cup checking : t \in Runs \ {r}
    BY <2>1 DEF Typed, TypeOK, Backups
  <2>8. QED
    BY <1>9, <2>1, <2>2, <2>3, <2>4, <2>5, <2>6, <2>7 DEF LineInv
<1>10. ASSUME NEW r \in Runs, NEW held, Spawns(r, held)
       PROVE  LineInv'
  <2>1. PICK place \in SpawnOutcomes : Goto(r, place)
    BY <1>10 DEF Spawns, Spawn
  <2>2. place \in {"cli", "erring", "stuck"}
    BY ExecutorAssumption
  <2>3. QED
    BY <1>9, <1>10, <2>1, <2>2 DEF Spawns, Spawn, Goto, SetRow
<1>11. ASSUME NEW r \in Runs, Waits(r) \/ ReadsBack(r)
       PROVE  LineInv'
  BY <1>9, <1>11 DEF Waits, AwaitTunnel, ReadsBack, Goto, SetRow
<1>12. ASSUME NEW r \in Runs, NEW ok \in BOOLEAN, PostScriptEnds(r, ok)
       PROVE  LineInv'
  <2>1. /\ r \in post /\ post' = post \ {r}
        /\ UNCHANGED <<pendingJobs, timers, pc, deferred, checking, started>>
    BY <1>12 DEF PostScriptEnds, slotVars, startVars
  <2>2. row' = row \/ row' = [row EXCEPT ![r] = "failed"]
    BY <1>12 DEF PostScriptEnds, SetRow
  <2>3. row[r] = "success" /\ pc[r] = "off" /\ timers[r] = 0 /\ ~IsPending(r)
    BY <2>1 DEF LineInv
  <2>4. \A s \in Runs : IsPending(s)' <=> IsPending(s)
    BY <2>1 DEF IsPending
  <2>5. CASE row' = row
    BY <2>1, <2>4, <2>5 DEF LineInv
  <2>6. CASE row' = [row EXCEPT ![r] = "failed"]
    <3>1. r \notin deferred \cup checking
      BY <2>3 DEF LineInv
    <3>2. \A s \in Runs : row'[s] = IF s = r THEN "failed" ELSE row[s]
      BY <2>6 DEF Typed, TypeOK
    <3>3. \A s \in deferred \cup checking : s \in Runs
      BY DEF Typed, TypeOK, Backups
    <3>4. \A s \in post : s \in Runs
      BY DEF Typed, TypeOK
    <3>5. QED
      BY <2>1, <2>3, <2>4, <3>1, <3>2, <3>3, <3>4 DEF LineInv
  <2>7. QED
    BY <2>2, <2>5, <2>6
<1>13. ASSUME NEW r \in Runs, AbortRun(r)
       PROVE  LineInv'
  <2>1. CASE r \in live
    BY <1>13, <2>1 DEF AbortRun, LineInv, IsPending, startVars
  <2>2. CASE r \notin live
    <3>1. PICK j \in Jobs : pendingJobs[j] = r /\ pendingJobs' = [pendingJobs EXCEPT ![j] = NoRun]
      BY <1>13, <2>2 DEF AbortRun
    <3>2. /\ row' = [row EXCEPT ![r] = "abort"]
          /\ UNCHANGED <<timers, pc, post, deferred, checking, started>>
      BY <1>13, <2>2 DEF AbortRun, SetRow, startVars
    <3>3. IsPending(r) /\ row[r] = "queued" /\ pc[r] = "off" /\ timers[r] = 0
      BY <3>1 DEF IsPending, LineInv
    <3>4. ~IsPending(r)' /\ \A s \in Runs : IsPending(s)' => IsPending(s)
      BY <1>2, <3>1, ExecutorAssumption DEF IsPending, Typed, TypeOK
    <3>5. r \notin post \cup deferred \cup checking
      BY <3>3 DEF LineInv
    <3>6. \A s \in Runs : row'[s] = IF s = r THEN "abort" ELSE row[s]
      BY <3>2 DEF Typed, TypeOK
    <3>7. post \subseteq Runs /\ deferred \cup checking \subseteq Runs
      BY DEF Typed, TypeOK, Backups
    <3>8. QED
      BY <3>2, <3>3, <3>4, <3>5, <3>6, <3>7 DEF LineInv
  <2>3. QED
    BY <2>1, <2>2
<1>14. ASSUME NEW r \in Runs, NEW s \in {"success", "abort"}, Settle(r, s)
       PROVE  LineInv'
  <2>1. /\ r \in checking /\ checking' = checking \ {r}
        /\ row' = [row EXCEPT ![r] = s]
        /\ UNCHANGED <<pendingJobs, timers, pc, post, deferred, started>>
    BY <1>14 DEF Settle, SetRow, slotVars
  <2>2. row[r] = "running" /\ pc[r] = "off" /\ timers[r] = 0 /\ ~IsPending(r) /\ r \notin post
    BY <2>1 DEF LineInv
  <2>3. \A t \in Runs : IsPending(t)' <=> IsPending(t)
    BY <2>1 DEF IsPending
  <2>4. r \notin deferred \cup checking' /\ deferred \cap checking' = {}
    BY <2>1 DEF LineInv
  <2>5. \A t \in Runs : row'[t] = IF t = r THEN s ELSE row[t]
    BY <2>1 DEF Typed, TypeOK
  <2>6. post \subseteq Runs /\ deferred \cup checking \subseteq Runs
    BY DEF Typed, TypeOK, Backups
  <2>7. QED
    BY <2>1, <2>2, <2>3, <2>4, <2>5, <2>6 DEF LineInv
<1>15. CASE Restart
  <2>1. \A r \in Runs : timers'[r] = 0
    BY <1>15 DEF Restart
  <2>2. \A r \in Runs : ~IsPending(r)'
    BY <1>15, ExecutorAssumption DEF Restart, IsPending
  <2>3. /\ \A r \in Runs : pc'[r] = IF pc[r] = "new" THEN "new" ELSE "off"
        /\ row' = row /\ post' = {}
    BY <1>15 DEF Restart
  <2>4. \A r \in deferred' \cup checking' : r \in Runs /\ row[r] = "running"
    BY <1>15 DEF Restart, Interrupted, Backups
  <2>5. deferred' \cap checking' = {}
    BY <1>15 DEF Restart
  <2>6. QED
    BY <2>1, <2>2, <2>3, <2>4, <2>5 DEF LineInv
<1>16. CASE FinishStart
  BY <1>16 DEF FinishStart, LineInv, IsPending, Typed, TypeOK, Backups
<1>17. CASE CheckDeferred
  BY <1>17 DEF CheckDeferred, LineInv, IsPending, slotVars
<1>18. CASE UNCHANGED vars
  BY <1>18 DEF vars, LineInv, IsPending, slotVars, startVars
<1>19. ASSUME NEW r \in Runs, RunStep(r)
       PROVE  LineInv'
  BY <1>3, <1>4, <1>7, <1>8, <1>10, <1>11, <1>12, <1>13, <1>14, <1>19 DEF RunStep
<1>20. TypeOK
  BY DEF Typed
<1>21. QED
  BY <1>15, <1>16, <1>17, <1>18, <1>19, <1>20, Kinds

\* The invariant of an agent that dials.
DialInv == Kept /\ LineInv

LEMMA DialAlways ==
    ASSUME Outbound = FALSE
    PROVE  Spec => []DialInv
<1>1. Init => DialInv
  BY InitTyped, InitQueue, InitOwned, InitGivenBack, InitLine DEF DialInv, Kept
<1>2. DialInv /\ [Next]_vars => DialInv'
  BY StepTyped, StepQueue, StepOwned, StepGivenBack, StepLine DEF DialInv, Kept
<1>3. QED
  BY <1>1, <1>2, PTL DEF Spec

\* What a step leaves of a final status.
StaysFinal == \A r \in Runs : row[r] \in Final =>
    \/ row'[r] = row[r]
    \/ row[r] = "success" /\ row'[r] = "failed" /\ r \in post

LEMMA StepFinal ==
    ASSUME DialInv, [Next]_vars
    PROVE  StaysFinal
<1> USE DEF Final, Terminal
<1>1. Typed /\ LineInv /\ TypeOK
  BY DEF DialInv, Kept, Typed
<1>2. ASSUME NEW r \in Runs, NEW s, row' = [row EXCEPT ![r] = s],
             row[r] \notin Final \/ s = row[r]
      PROVE  StaysFinal
  BY <1>1, <1>2 DEF TypeOK, StaysFinal
<1>3. ASSUME row' = row PROVE StaysFinal
  BY <1>3 DEF StaysFinal
<1>4. ASSUME NEW r \in Runs, NEW ts, Calls(r, ts)
      PROVE  StaysFinal
  <2>1. row[r] \notin Final
    BY <1>1, <1>4 DEF Calls, AskedFor, LineInv
  <2>2. row' = row \/ \E s : row' = [row EXCEPT ![r] = s]
    BY <1>4 DEF Calls, ExecuteBackup, Refuse, Skip, Enqueue, Take, SetRow
  <2>3. QED
    BY <1>2, <1>3, <2>1, <2>2
<1>5. ASSUME NEW r \in Runs, NEW s \in Terminal, Ends(r, s)
      PROVE  StaysFinal
  <2>1. row' = [row EXCEPT ![r] = s]
    BY <1>5 DEF Ends, EndRun, SetRow
  <2>2. CASE pc[r] \in Executing
    <3>1. row[r] \notin Final
      BY <1>1, <2>2 DEF LineInv, Executing
    <3>2. QED
      BY <1>2, <2>1, <3>1
  <2>3. CASE pc[r] = "errored"
    <3>1. row[r] = "failed"
      BY <1>1, <2>3 DEF LineInv
    <3>2. s = "failed"
      BY <1>5, <2>3 DEF Ends
    <3>3. QED
      BY <1>2, <2>1, <3>1, <3>2
  <2>4. QED
    BY <1>5, <2>2, <2>3 DEF Ends
<1>6. ASSUME NEW r \in Runs, NEW held, Spawns(r, held)
      PROVE  StaysFinal
  <2>1. row[r] \notin Final /\ row' = [row EXCEPT ![r] = "running"]
    BY <1>1, <1>6 DEF Spawns, Spawn, SetRow, LineInv
  <2>2. QED
    BY <1>2, <2>1
<1>7. ASSUME NEW r \in Runs, Waits(r)
      PROVE  StaysFinal
  <2>1. row[r] \notin Final /\ row' = [row EXCEPT ![r] = "running"]
    BY <1>1, <1>7 DEF Waits, AwaitTunnel, SetRow, LineInv
  <2>2. QED
    BY <1>2, <2>1
<1>8. ASSUME NEW r \in Runs, SpawnError(r)
      PROVE  StaysFinal
  <2>1. row[r] \notin Final /\ row' = [row EXCEPT ![r] = "failed"]
    BY <1>1, <1>8 DEF SpawnError, SetRow, LineInv
  <2>2. QED
    BY <1>2, <2>1
<1>9. ASSUME NEW r \in Runs, NEW ok \in BOOLEAN, PostScriptEnds(r, ok)
      PROVE  StaysFinal
  <2>1. /\ r \in post /\ row[r] = "success"
        /\ row' = row \/ row' = [row EXCEPT ![r] = "failed"]
    BY <1>1, <1>9 DEF PostScriptEnds, SetRow, LineInv
  <2>2. QED
    BY <1>1, <2>1 DEF TypeOK, StaysFinal
<1>10. ASSUME NEW r \in Runs, AbortRun(r)
       PROVE  StaysFinal
  <2>1. row' = row \/ (row[r] \notin Final /\ row' = [row EXCEPT ![r] = "abort"])
    BY <1>1, <1>10 DEF AbortRun, SetRow, LineInv, IsPending
  <2>2. QED
    BY <1>2, <1>3, <2>1
<1>11. ASSUME NEW r \in Runs, NEW s \in {"success", "abort"}, Settle(r, s)
       PROVE  StaysFinal
  <2>1. row[r] \notin Final /\ row' = [row EXCEPT ![r] = s]
    BY <1>1, <1>11 DEF Settle, SetRow, LineInv
  <2>2. QED
    BY <1>2, <2>1
<1>12. ASSUME NEW r \in Runs, RestoreSnapshot(r) \/ ReadsBack(r)
       PROVE  StaysFinal
  BY <1>3, <1>12 DEF RestoreSnapshot, ReadsBack
<1>13. CASE Restart \/ CheckDeferred \/ UNCHANGED vars
  BY <1>3, <1>13 DEF Restart, CheckDeferred, vars
<1>14. CASE FinishStart
  BY <1>14 DEF FinishStart, StaysFinal
<1>15. ASSUME NEW r \in Runs, RunStep(r)
       PROVE  StaysFinal
  BY <1>4, <1>5, <1>6, <1>7, <1>8, <1>9, <1>10, <1>11, <1>12, <1>15 DEF RunStep
<1>16. QED
  BY <1>1, <1>13, <1>14, <1>15, Kinds

\* Where the agent dials, a final status stays, but for the post-script.
THEOREM FinalStays ==
    ASSUME Outbound = FALSE
    PROVE  Spec => EndedStaysEnded
<1>1. DialInv /\ [Next]_vars =>
        \A r \in Runs : row[r] \in Final =>
            \/ row'[r] = row[r]
            \/ row[r] = "success" /\ row'[r] = "failed" /\ r \in post
  BY StepFinal DEF StaysFinal
<1>2. QED
  BY <1>1, DialAlways, PTL DEF Spec, EndedStaysEnded

-----------------------------------------------------------------------------
(***************************************************************************)
(* Aborts, where the agent dials: a run whose abort was granted is marked  *)
(* until it comes to the check, has its process already, or is over, and   *)
(* what is over is in no place from which it would be started again.       *)
(***************************************************************************)
AbortInv == \A r \in told :
    \/ pc[r] \in {"preparing", "tunnel"} /\ r \in aborting
    \/ pc[r] \in {"cli", "erring", "query", "stuck"}
    \/ row[r] \in Final

StartsNoneTold == \A r \in told : pc'[r] = "cli" => pc[r] = "cli"

LEMMA InitAbort == Init => AbortInv
BY DEF Init, AbortInv

LEMMA StepAbort ==
    ASSUME DialInv, AbortInv, [Next]_vars
    PROVE  AbortInv' /\ StartsNoneTold
<1> USE DEF Executing, Final, Terminal
<1>1. Typed /\ LineInv /\ TypeOK /\ GivenBack
  BY DEF DialInv, Kept, Typed
<1>2. \A r \in told : \/ pc[r] \in {"preparing", "tunnel"} /\ r \in aborting
                      \/ pc[r] \in {"cli", "erring", "query", "stuck"}
                      \/ pc[r] \in {"off", "errored"} /\ row[r] \in Final
  BY <1>1 DEF AbortInv, LineInv, TypeOK
<1>3. \* A step of a run whose abort was not granted.
      ASSUME NEW r \in Runs, r \notin told, told' = told,
             \A t \in told : pc'[t] = pc[t] /\ row'[t] = row[t],
             \A t \in told : t \in aborting => t \in aborting'
      PROVE  AbortInv' /\ StartsNoneTold
  BY <1>3 DEF AbortInv, StartsNoneTold
<1>4. \* A step that leaves the run where no process starts.
      ASSUME NEW r \in Runs, told' \subseteq told \cup {r},
             \A t \in told \ {r} : /\ pc'[t] = pc[t] /\ row'[t] = row[t]
                                   /\ t \in aborting => t \in aborting',
             \/ row'[r] \in Final /\ pc'[r] # "cli"
             \/ row'[r] \in Final /\ pc'[r] = pc[r]
             \/ pc'[r] \in {"erring", "query", "stuck"}
             \/ pc'[r] \in {"preparing", "tunnel"} /\ r \in aborting'
             \/ pc'[r] = pc[r] /\ pc[r] = "cli"
      PROVE  AbortInv' /\ StartsNoneTold
  BY <1>4 DEF AbortInv, StartsNoneTold
<1>5. ASSUME NEW r \in Runs, NEW ts, Calls(r, ts)
      PROVE  AbortInv' /\ StartsNoneTold
  <2>1. r \notin told
    BY <1>1, <1>2, <1>5 DEF Calls, AskedFor, LineInv, TypeOK
  <2>2. /\ told' = told /\ aborting' = aborting
        /\ \E place : pc' = [pc EXCEPT ![r] = place]
        /\ row' = row \/ \E st : row' = [row EXCEPT ![r] = st]
    BY <1>5 DEF Calls, ExecuteBackup, Refuse, Skip, Enqueue, Take, SetRow, Asked, Goto, liveVars
  <2>3. \A t \in told : pc'[t] = pc[t] /\ row'[t] = row[t]
    BY <1>1, <2>1, <2>2 DEF TypeOK
  <2>4. QED
    BY <1>3, <2>1, <2>2, <2>3
<1>6. ASSUME NEW r \in Runs, RestoreSnapshot(r)
      PROVE  AbortInv' /\ StartsNoneTold
  <2>1. r \notin told
    BY <1>1, <1>2, <1>6 DEF RestoreSnapshot
  <2>2. /\ told' = told /\ aborting' = aborting /\ row' = row
        /\ pc' = [pc EXCEPT ![r] = "preparing"]
    BY <1>6 DEF RestoreSnapshot, Goto, liveVars
  <2>3. \A t \in told : pc'[t] = pc[t] /\ row'[t] = row[t]
    BY <1>1, <2>1, <2>2 DEF TypeOK
  <2>4. QED
    BY <1>3, <2>1, <2>2, <2>3
<1>7. \* A run comes to an end.
      ASSUME NEW r \in Runs, NEW s \in Terminal, NEW place \in {"off", "errored"},
             row' = [row EXCEPT ![r] = s], pc' = [pc EXCEPT ![r] = place],
             aborting' = aborting \ {r}, told' = told
      PROVE  AbortInv' /\ StartsNoneTold
  <2>1. row'[r] = s /\ pc'[r] = place
    BY <1>1, <1>7 DEF TypeOK
  <2>2. \A t \in told \ {r} : pc'[t] = pc[t] /\ row'[t] = row[t]
    BY <1>1, <1>7 DEF TypeOK
  <2>3. QED
    BY <1>4, <1>7, <2>1, <2>2
<1>8. ASSUME NEW r \in Runs, NEW s \in Terminal, Ends(r, s)
      PROVE  AbortInv' /\ StartsNoneTold
  BY <1>7, <1>8 DEF Ends, EndRun, GiveBack, Forget, Goto, SetRow
<1>9. ASSUME NEW r \in Runs, SpawnError(r)
      PROVE  AbortInv' /\ StartsNoneTold
  BY <1>7, <1>9 DEF SpawnError, GiveBack, Forget, Goto, SetRow
<1>10. ASSUME NEW r \in Runs, NEW held, Spawns(r, held)
       PROVE  AbortInv' /\ StartsNoneTold
  <2>1. r \notin told
    BY <1>2, <1>10 DEF Spawns
  <2>2. /\ told' = told /\ aborting' = aborting
        /\ row' = [row EXCEPT ![r] = "running"]
        /\ \E place : pc' = [pc EXCEPT ![r] = place]
    BY <1>10 DEF Spawns, Spawn, SetRow, Goto
  <2>3. \A t \in told : pc'[t] = pc[t] /\ row'[t] = row[t]
    BY <1>1, <2>1, <2>2 DEF TypeOK
  <2>4. QED
    BY <1>3, <2>1, <2>2, <2>3
<1>11. ASSUME NEW r \in Runs, Waits(r)
       PROVE  AbortInv' /\ StartsNoneTold
  <2>1. /\ pc[r] = "preparing" /\ told' = told /\ aborting' = aborting
        /\ row' = [row EXCEPT ![r] = "running"] /\ pc' = [pc EXCEPT ![r] = "tunnel"]
    BY <1>11 DEF Waits, AwaitTunnel, SetRow, Goto
  <2>2. pc'[r] = "tunnel" /\ \A t \in told \ {r} : pc'[t] = pc[t] /\ row'[t] = row[t]
    BY <1>1, <2>1 DEF TypeOK
  <2>3. CASE r \in told
    <3>1. r \in aborting'
      BY <1>2, <2>1, <2>3
    <3>2. QED
      BY <1>4, <2>1, <2>2, <3>1
  <2>4. CASE r \notin told
    BY <1>3, <2>1, <2>2, <2>4
  <2>5. QED
    BY <2>3, <2>4
<1>12. ASSUME NEW r \in Runs, ReadsBack(r)
       PROVE  AbortInv' /\ StartsNoneTold
  <2>1. /\ told' = told /\ row' = row /\ aborting' = aborting \ {r}
        /\ pc' = [pc EXCEPT ![r] = "query"]
    BY <1>12 DEF ReadsBack, Forget, Goto
  <2>2. pc'[r] = "query" /\ \A t \in told \ {r} : pc'[t] = pc[t] /\ row'[t] = row[t]
    BY <1>1, <2>1 DEF TypeOK
  <2>3. QED
    BY <1>4, <2>1, <2>2
<1>13. ASSUME NEW r \in Runs, NEW ok \in BOOLEAN, PostScriptEnds(r, ok)
       PROVE  AbortInv' /\ StartsNoneTold
  <2>1. /\ told' = told /\ pc' = pc /\ aborting' = aborting
        /\ row' = row \/ row' = [row EXCEPT ![r] = "failed"]
    BY <1>13 DEF PostScriptEnds, SetRow, liveVars
  <2>2. \A t \in told : row[t] \in Final => row'[t] \in Final
    BY <1>1, <2>1 DEF TypeOK
  <2>3. QED
    BY <2>1, <2>2 DEF AbortInv, StartsNoneTold
<1>14. ASSUME NEW r \in Runs, AbortRun(r)
       PROVE  AbortInv' /\ StartsNoneTold
  <2>1. told' = told \cup {r} /\ pc' = pc
    BY <1>14 DEF AbortRun
  <2>2. CASE r \in live
    <3>1. pc[r] \in Executing \cup {"stuck"}
      BY <1>1, <2>2 DEF GivenBack
    <3>2. aborting' = aborting \cup {r} /\ row' = row
      BY <1>14, <2>2 DEF AbortRun
    <3>3. QED
      BY <2>1, <3>1, <3>2 DEF AbortInv, StartsNoneTold
  <2>3. CASE r \notin live
    <3>1. row' = [row EXCEPT ![r] = "abort"] /\ aborting' = aborting
      BY <1>14, <2>3 DEF AbortRun, SetRow
    <3>2. row'[r] = "abort" /\ \A t \in told : row[t] \in Final => row'[t] \in Final
      BY <1>1, <3>1 DEF TypeOK
    <3>3. QED
      BY <2>1, <3>1, <3>2 DEF AbortInv, StartsNoneTold
  <2>4. QED
    BY <2>2, <2>3
<1>15. ASSUME NEW r \in Runs, NEW s \in {"success", "abort"}, Settle(r, s)
       PROVE  AbortInv' /\ StartsNoneTold
  <2>1. /\ told' = told /\ pc' = pc /\ aborting' = aborting
        /\ row' = [row EXCEPT ![r] = s]
    BY <1>15 DEF Settle, SetRow, liveVars
  <2>2. \A t \in told : row[t] \in Final => row'[t] \in Final
    BY <1>1, <2>1 DEF TypeOK
  <2>3. QED
    BY <2>1, <2>2 DEF AbortInv, StartsNoneTold
<1>16. CASE Restart
  <2>1. told' = {} /\ pc' = [r \in Runs |-> IF pc[r] = "new" THEN "new" ELSE "off"]
    BY <1>16 DEF Restart
  <2>2. \A r \in told : pc'[r] # "cli"
    BY <1>1, <2>1 DEF TypeOK
  <2>3. QED
    BY <2>1, <2>2 DEF AbortInv, StartsNoneTold
<1>17. CASE FinishStart
  <2>1. /\ told' = told /\ pc' = pc /\ aborting' = aborting
        /\ row' = [r \in Runs |-> IF row[r] = "running" /\ r \notin deferred
                                  THEN "abort" ELSE row[r]]
    BY <1>17 DEF FinishStart, liveVars
  <2>2. \A t \in told : row[t] \in Final => row'[t] \in Final
    BY <1>1, <2>1 DEF TypeOK
  <2>3. QED
    BY <2>1, <2>2 DEF AbortInv, StartsNoneTold
<1>18. CASE CheckDeferred \/ UNCHANGED vars
  BY <1>18 DEF CheckDeferred, vars, liveVars, AbortInv, StartsNoneTold
<1>19. ASSUME NEW r \in Runs, RunStep(r)
       PROVE  AbortInv' /\ StartsNoneTold
  BY <1>5, <1>6, <1>8, <1>9, <1>10, <1>11, <1>12, <1>13, <1>14, <1>15, <1>19 DEF RunStep
<1>20. QED
  BY <1>1, <1>16, <1>17, <1>18, <1>19, Kinds

\* Where the agent dials, a run whose abort was granted before its CLI ran never
\* gets one: the abort is looked for before each spawn (runProxmoxClient), and a
\* queued run that is aborted leaves the queue (abortRun).
THEOREM AbortsHold ==
    ASSUME Outbound = FALSE
    PROVE  Spec => AbortedNeverStarts
<1>1. Init => AbortInv
  BY InitAbort
<1>2. DialInv /\ AbortInv /\ [Next]_vars => AbortInv'
  BY StepAbort
<1>3. DialInv /\ AbortInv /\ [Next]_vars => \A r \in told : pc'[r] = "cli" => pc[r] = "cli"
  BY StepAbort DEF StartsNoneTold
<1>4. QED
  BY <1>1, <1>2, <1>3, DialAlways, PTL DEF Spec, AbortedNeverStarts

-----------------------------------------------------------------------------
(***************************************************************************)
(* The executor implements JobQueue where the agent dials and no process   *)
(* reports the failure of its start: every step of a run is one of its     *)
(* steps there, or none.                                                   *)
(***************************************************************************)
Seen == [r \in Runs |-> State(r)]

Step == JQ!Next \/ Seen' = Seen

\* What one run does, the others being where they were.
Allowed(r) ==
    \/ State(r)' = State(r)
    \/ State(r) = "new" /\ State(r)' = "waiting"
    \/ State(r) # "over" /\ State(r)' = "over"
    \/ /\ State(r) \in {"new", "waiting"} /\ State(r)' = "active"
       /\ \A s \in Runs \ {r} :
              JobOf[r] # NoJob /\ JobOf[s] = JobOf[r] => State(s) # "active"

LEMMA OneRunMoves ==
    ASSUME NEW r \in Runs,
           \A s \in Runs \ {r} : State(s)' = State(s),
           Allowed(r)
    PROVE  Step
<1> HIDE DEF State
<1>1. Seen' = [Seen EXCEPT ![r] = State(r)']
  BY DEF Seen
<1>2. CASE State(r)' = State(r)
  BY <1>2 DEF Step, Seen
<1>3. CASE State(r) = "new" /\ State(r)' = "waiting"
  <2>1. JQ!Wait(r)
    BY <1>1, <1>3 DEF JQ!Wait, Seen
  <2>2. QED
    BY <2>1 DEF Step, JQ!Next
<1>4. CASE State(r) # "over" /\ State(r)' = "over"
  <2>1. JQ!End(r)
    BY <1>1, <1>4 DEF JQ!End, Seen
  <2>2. QED
    BY <2>1 DEF Step, JQ!Next
<1>5. CASE /\ State(r) \in {"new", "waiting"} /\ State(r)' = "active"
           /\ \A s \in Runs \ {r} :
                  JobOf[r] # NoJob /\ JobOf[s] = JobOf[r] => State(s) # "active"
  <2>1. JQ!Begin(r)
    BY <1>1, <1>5 DEF JQ!Begin, JQ!Excluded, Seen
  <2>2. QED
    BY <2>1 DEF Step, JQ!Next
<1>6. QED
  BY <1>2, <1>3, <1>4, <1>5 DEF Allowed

LEMMA StepAbstract ==
    ASSUME "erring" \notin SpawnOutcomes, DialInv, SlotInv, [Next]_vars
    PROVE  Step
<1> USE DEF Executing
<1>1. Typed /\ TypeOK /\ OnlyBackups /\ LineInv
  BY DEF DialInv, Kept, Typed
<1>2. ASSUME NEW r \in Runs, NEW p, NEW s,
             pc' = pc \/ pc' = [pc EXCEPT ![r] = p],
             row' = row \/ row' = [row EXCEPT ![r] = s]
      PROVE  \A q \in Runs \ {r} : State(q)' = State(q)
  BY <1>1, <1>2 DEF TypeOK, State
<1>3. ASSUME NEW r \in Runs, NEW ts, Calls(r, ts)
      PROVE  Step
  <2>1. State(r) \in {"new", "waiting"} /\ r \in Backups
    BY <1>1, <1>3 DEF Calls, AskedFor, LineInv, State, OnlyBackups, TypeOK
  <2>2. pc[r] \in {"new", "off"}
    BY <1>1, <1>3 DEF Calls, AskedFor, LineInv, TypeOK
  <2>3. CASE Refuse(r, ts) \/ Skip(r, ts)
    <3>1. pc'[r] = "off" /\ row'[r] \in {"failed", "skipped"}
      BY <1>1, <2>2, <2>3 DEF Refuse, Skip, Asked, Goto, SetRow, TypeOK
    <3>2. \A q \in Runs \ {r} : State(q)' = State(q)
      BY <1>2, <2>3 DEF Refuse, Skip, Asked, Goto, SetRow
    <3>3. State(r)' = "over"
      BY <3>1 DEF State
    <3>4. QED
      BY <2>1, <3>2, <3>3, OneRunMoves DEF Allowed
  <2>4. CASE Enqueue(r, ts)
    <3>1. pc'[r] = "off" /\ row'[r] = "queued"
      BY <1>1, <2>2, <2>4 DEF Enqueue, Asked, Goto, SetRow, TypeOK
    <3>2. \A q \in Runs \ {r} : State(q)' = State(q)
      BY <1>2, <2>4 DEF Enqueue, Asked, Goto, SetRow
    <3>3. State(r)' = "waiting"
      BY <3>1 DEF State
    <3>4. QED
      BY <2>1, <3>2, <3>3, OneRunMoves DEF Allowed
  <2>5. CASE Take(r, ts)
    <3>1. \A q \in Runs \ {r} : State(q)' = State(q)
      BY <1>2, <2>5 DEF Take, Goto
    <3>2. State(r)' = "active"
      BY <1>1, <2>5 DEF Take, Goto, State, TypeOK
    <3>3. \A q \in Runs : State(q) = "active" => pc[q] \in Holding
      BY <1>1 DEF State, Holding, TypeOK, Places
    <3>4. \A q \in Runs \ {r} :
              JobOf[r] # NoJob /\ JobOf[q] = JobOf[r] => State(q) # "active"
      BY <2>5, <3>3 DEF Take, SlotInv, Backups
    <3>5. QED
      BY <2>1, <3>1, <3>2, <3>4, OneRunMoves DEF Allowed
  <2>6. QED
    BY <1>3, <2>3, <2>4, <2>5 DEF Calls, ExecuteBackup
<1>4. ASSUME NEW r \in Runs, RestoreSnapshot(r)
      PROVE  Step
  <2>1. \A q \in Runs \ {r} : State(q)' = State(q)
    BY <1>2, <1>4 DEF RestoreSnapshot, Goto
  <2>2. State(r) = "new" /\ State(r)' = "active"
    BY <1>1, <1>4 DEF RestoreSnapshot, Goto, State, TypeOK
  <2>3. JobOf[r] = NoJob
    BY <1>4 DEF RestoreSnapshot, Backups
  <2>4. QED
    BY <2>1, <2>2, <2>3, OneRunMoves DEF Allowed
<1>5. ASSUME NEW r \in Runs, NEW s \in Terminal, Ends(r, s)
      PROVE  Step
  <2>1. pc[r] \in Executing
    BY <1>5 DEF Ends, SlotInv
  <2>2. pc'[r] = "off" /\ row'[r] = s
    BY <1>1, <1>5 DEF Ends, EndRun, Goto, SetRow, TypeOK
  <2>3. \A q \in Runs \ {r} : State(q)' = State(q)
    BY <1>2, <1>5 DEF Ends, EndRun, Goto, SetRow
  <2>4. State(r) = "active" /\ State(r)' = "over"
    BY <2>1, <2>2 DEF State, Terminal
  <2>5. QED
    BY <2>3, <2>4, OneRunMoves DEF Allowed
<1>6. ASSUME NEW r \in Runs, NEW held, Spawns(r, held)
      PROVE  Step
  <2>1. PICK p \in SpawnOutcomes : Goto(r, p)
    BY <1>6 DEF Spawns, Spawn
  <2>2. p \in {"cli", "stuck"}
    BY <2>1, ExecutorAssumption
  <2>3. \A q \in Runs \ {r} : State(q)' = State(q)
    BY <1>2, <1>6, <2>1 DEF Spawns, Spawn, Goto, SetRow
  <2>4. State(r) = "active" /\ State(r)' = "active"
    BY <1>1, <1>6, <2>1, <2>2 DEF Spawns, Goto, State, TypeOK
  <2>5. QED
    BY <2>3, <2>4, OneRunMoves DEF Allowed
<1>7. ASSUME NEW r \in Runs, Waits(r) \/ ReadsBack(r)
      PROVE  Step
  <2>1. \A q \in Runs \ {r} : State(q)' = State(q)
    BY <1>2, <1>7 DEF Waits, AwaitTunnel, ReadsBack, Goto, SetRow
  <2>2. State(r) = "active" /\ State(r)' = "active"
    BY <1>1, <1>7 DEF Waits, AwaitTunnel, ReadsBack, Goto, State, TypeOK
  <2>3. QED
    BY <2>1, <2>2, OneRunMoves DEF Allowed
<1>8. ASSUME NEW r \in Runs, SpawnError(r)
      PROVE  FALSE
  BY <1>8 DEF SpawnError, SlotInv
<1>9. ASSUME NEW r \in Runs, NEW ok \in BOOLEAN, PostScriptEnds(r, ok)
      PROVE  Step
  <2>1. \A q \in Runs \ {r} : State(q)' = State(q)
    BY <1>2, <1>9 DEF PostScriptEnds, SetRow
  <2>2. pc[r] = "off" /\ pc' = pc /\ row[r] # "queued" /\ row'[r] # "queued"
    BY <1>1, <1>9 DEF PostScriptEnds, SetRow, LineInv, TypeOK
  <2>3. State(r) = "over" /\ State(r)' = "over"
    BY <2>2 DEF State
  <2>4. QED
    BY <2>1, <2>3, OneRunMoves DEF Allowed
<1>10. ASSUME NEW r \in Runs, AbortRun(r)
       PROVE  Step
  <2>1. CASE UNCHANGED row
    BY <1>10, <2>1 DEF AbortRun, Step, Seen, State
  <2>2. CASE IsPending(r) /\ SetRow(r, "abort")
    <3>1. \A q \in Runs \ {r} : State(q)' = State(q)
      BY <1>2, <1>10, <2>2 DEF AbortRun, SetRow
    <3>2. pc[r] = "off" /\ pc' = pc /\ row[r] = "queued" /\ row'[r] = "abort"
      BY <1>1, <1>10, <2>2 DEF AbortRun, SetRow, LineInv, TypeOK
    <3>3. State(r) = "waiting" /\ State(r)' = "over"
      BY <3>2 DEF State
    <3>4. QED
      BY <3>1, <3>3, OneRunMoves DEF Allowed
  <2>3. QED
    BY <1>10, <2>1, <2>2 DEF AbortRun, IsPending
<1>11. ASSUME NEW r \in Runs, NEW s \in {"success", "abort"}, Settle(r, s)
       PROVE  Step
  <2>1. \A q \in Runs \ {r} : State(q)' = State(q)
    BY <1>2, <1>11 DEF Settle, SetRow
  <2>2. pc[r] = "off" /\ pc' = pc /\ row[r] # "queued" /\ row'[r] # "queued"
    BY <1>1, <1>11 DEF Settle, SetRow, LineInv, TypeOK
  <2>3. State(r) = "over" /\ State(r)' = "over"
    BY <2>2 DEF State
  <2>4. QED
    BY <2>1, <2>3, OneRunMoves DEF Allowed
<1>12. CASE Restart
  <2>1. \A r \in Runs : \/ State(r)' = State(r)
                        \/ State(r) = "active" /\ State(r)' \in {"waiting", "over"}
    BY <1>1, <1>12 DEF Restart, State, TypeOK, Places
  <2>2. \A r \in Runs : State(r)' \in JQ!States
    <3>1. \A r \in Runs : pc'[r] \in {"new", "off"}
      BY <1>12 DEF Restart
    <3>2. QED
      BY <3>1 DEF State, JQ!States
  <2>3. JQ!Crash
    BY <2>1, <2>2 DEF JQ!Crash, Seen
  <2>4. QED
    BY <2>3 DEF Step, JQ!Next
<1>13. CASE FinishStart
  <2>1. \A r \in Runs : State(r)' = State(r)
    BY <1>1, <1>13 DEF FinishStart, State, TypeOK, Places
  <2>2. QED
    BY <2>1 DEF Step, Seen
<1>14. CASE CheckDeferred \/ UNCHANGED vars
  <2>1. pc' = pc /\ row' = row
    BY <1>14 DEF CheckDeferred, vars
  <2>2. \A r \in Runs : State(r)' = State(r)
    BY <2>1 DEF State
  <2>3. QED
    BY <2>2 DEF Step, Seen
<1>15. ASSUME NEW r \in Runs, RunStep(r)
       PROVE  Step
  BY <1>3, <1>4, <1>5, <1>6, <1>7, <1>8, <1>9, <1>10, <1>11, <1>15 DEF RunStep
<1>16. CASE Next
  <2>1. CASE \E r \in Runs : RunStep(r)
    BY <1>15, <2>1
  <2>2. QED
    BY <1>1, <1>12, <1>13, <1>14, <1>16, <2>1, Kinds
<1>17. QED
  BY <1>14, <1>16

\* The executor implements the queue of jobs (JobQueue): at most one run of a
\* job is under way, and what is over does not come back.
THEOREM QueueImplemented ==
    ASSUME Outbound = FALSE, "erring" \notin SpawnOutcomes
    PROVE  Spec => ImplementsJobQueue
<1>1. Init => JQ!Init
  <2> SUFFICES ASSUME Init PROVE JQ!Init
    OBVIOUS
  <2>1. \A r \in Runs : pc[r] = "new"
    BY DEF Init
  <2>2. \A r \in Runs : State(r) = "new"
    BY <2>1 DEF State, Executing
  <2>3. QED
    BY <2>2 DEF JQ!Init
<1>2. DialInv /\ SlotInv /\ [Next]_vars => [JQ!Next]_Seen
  BY StepAbstract DEF Step
<1>3. Spec => []DialInv /\ []SlotInv
  BY DialAlways, SlotAlways
<1>4. QED
  BY <1>1, <1>2, <1>3, PTL DEF Spec, ImplementsJobQueue, JQ!Spec, Seen
-----------------------------------------------------------------------------
(***************************************************************************)
(* Leases (LeaseRequest).  A run asks once: what is under way of it, on    *)
(* either side of its socket, is one request, one answer or one release,   *)
(* and says how far the run is, unless it was cut off (`adrift').          *)
(***************************************************************************)
LeaseTyped ==
    /\ base \in Hosts \cup {Nowhere} /\ entered \subseteq Hosts
    /\ authorised \in [Restores -> Hosts \cup {Nowhere}]
    /\ meant \in [Restores -> Hosts \cup {Nowhere}]
    /\ stages \in [Leased -> {"new", "jitter", "asking", "probing", "using", "over"}]
    /\ session \in Nat /\ agentOn \in 0..session /\ serverOn \in 0..session
    /\ requests \subseteq [run : Leased, session : 1..session, target : Hosts \cup {Nowhere},
                           at : {"sent", "resolving", "measuring", "acquiring"}]
    /\ answers \subseteq [run : Leased, session : 1..session, granted : BOOLEAN]
    /\ releases \subseteq [run : Leased, session : 1..session]
    /\ granted \subseteq [run : Leased, target : Hosts \cup {Nowhere}]
    /\ adrift \subseteq Leased /\ dropped \subseteq Leased

\* Wherever a target is on its way to a lease, an operator entered it, and for a
\* restore it is the one it was started for.
TargetsKept ==
    /\ base = Nowhere \/ base \in entered
    /\ \A r \in Restores : authorised[r] # Nowhere =>
           authorised[r] = meant[r] /\ authorised[r] \in entered
    /\ \A q \in requests : q.at = "resolving" => q.run \notin Restores
    /\ \A q \in requests : q.at \in {"measuring", "acquiring"} =>
           q.target \in entered /\ (q.run \in Restores => q.target = meant[q.run])
    /\ \A l \in granted : l.target \in entered /\ (l.run \in Restores => l.target = meant[l.run])

\* A run that waits for its answer, or does not any more and is cut off.
Waiting(r) == stages[r] = "asking" \/ (stages[r] = "over" /\ r \in adrift)

AsksOnce ==
    /\ \A r \in Leased : stages[r] \in {"new", "jitter"} =>
           /\ \A q \in requests : q.run # r
           /\ \A a \in answers : a.run # r
           /\ \A m \in releases : m.run # r
           /\ \A l \in granted : l.run # r
    /\ \A q \in requests :
           /\ Waiting(q.run) /\ (stages[q.run] = "asking" => q.session = agentOn)
           /\ \A p \in requests : p.run = q.run => p = q
           /\ \A a \in answers : a.run # q.run
           /\ \A m \in releases : m.run # q.run
           /\ \A l \in granted : l.run # q.run
    /\ \A a \in answers :
           /\ Waiting(a.run) /\ a.session = agentOn
           /\ \A b \in answers : b.run = a.run => b = a
           /\ \A m \in releases : m.run # a.run
    /\ \A m \in releases : stages[m.run] = "over"

\* An answer says what there is, and what there is belongs to somebody.
LeasesFit ==
    /\ \A a \in answers : a.granted => a.run \in dropped \/ \E l \in granted : l.run = a.run
    /\ \A a \in answers : ~a.granted => \A l \in granted : l.run # a.run
    /\ \A l \in granted :
           \/ stages[l.run] \in {"probing", "using"} \/ l.run \in adrift
           \/ \E a \in answers : a.run = l.run /\ a.granted
           \/ \E m \in releases : m.run = l.run
    /\ \A r \in Leased : stages[r] \in {"probing", "using"} =>
           r \in dropped \/ \E l \in granted : l.run = r

LeaseInv == LeaseTyped /\ TargetsKept /\ AsksOnce /\ LeasesFit

Steady == UNCHANGED <<base, tunnelled, entered, known, authorised, meant, dropped, session, serverOn>>

LEMMA InitLease == MCInit => LeaseInv
<1> SUFFICES ASSUME MCInit PROVE LeaseInv
  OBVIOUS
<1>1. Lease!Init /\ Restores \subseteq Leased
  BY LeasesAssumption DEF MCInit
<1>2. QED
  BY <1>1 DEF Lease!Init, LeaseInv, LeaseTyped, TargetsKept, AsksOnce, LeasesFit

\* The agent moves a run on: nothing of it is under way, or only its stage matters.
LEMMA StartBackupKeeps ==
    ASSUME LeaseInv, NEW r \in Leased, Lease!StartBackup(r)
    PROVE  LeaseInv'
<1>1. /\ stages[r] = "new" /\ stages' = [stages EXCEPT ![r] = "jitter"]
      /\ Steady /\ UNCHANGED <<agentOn, requests, answers, releases, granted, adrift>>
  BY DEF Lease!StartBackup, Lease!Goes, Lease!config, Lease!link, Lease!past, Steady
<1>2. \A x \in Leased : stages'[x] = IF x = r THEN "jitter" ELSE stages[x]
  BY <1>1 DEF LeaseInv, LeaseTyped
<1>3. LeaseTyped'
  BY <1>1 DEF LeaseInv, LeaseTyped, Steady
<1>4. TargetsKept'
  BY <1>1 DEF LeaseInv, TargetsKept, Steady
<1>5. AsksOnce'
  BY <1>1, <1>2 DEF LeaseInv, LeaseTyped, AsksOnce, Waiting
<1>6. LeasesFit'
  BY <1>1, <1>2 DEF LeaseInv, LeaseTyped, AsksOnce, LeasesFit, Steady
<1>7. QED
  BY <1>3, <1>4, <1>5, <1>6 DEF LeaseInv

LEMMA TriggerRestoreKeeps ==
    ASSUME LeaseInv, NEW r \in Leased, Lease!TriggerRestore(r)
    PROVE  LeaseInv'
<1> DEFINE place == IF agentOn = serverOn THEN "jitter" ELSE "over"
<1>1. /\ r \in Restores /\ stages[r] = "new" /\ base # Nowhere
      /\ authorised' = [authorised EXCEPT ![r] = base] /\ meant' = [meant EXCEPT ![r] = base]
      /\ stages' = [stages EXCEPT ![r] = place]
      /\ UNCHANGED <<base, tunnelled, entered, known, dropped, session, serverOn>>
      /\ UNCHANGED <<agentOn, requests, answers, releases, granted, adrift>>
  BY DEF Lease!TriggerRestore, Lease!config, Lease!link
<1>2. \A x \in Leased : stages'[x] = IF x = r THEN place ELSE stages[x]
  BY <1>1 DEF LeaseInv, LeaseTyped
<1>3. \A x \in Restores : /\ authorised'[x] = IF x = r THEN base ELSE authorised[x]
                          /\ meant'[x] = IF x = r THEN base ELSE meant[x]
  BY <1>1 DEF LeaseInv, LeaseTyped
<1>4. /\ \A q \in requests : q.run # r
      /\ \A a \in answers : a.run # r
      /\ \A m \in releases : m.run # r
      /\ \A l \in granted : l.run # r
  BY <1>1 DEF LeaseInv, AsksOnce
<1>5. LeaseTyped'
  BY <1>1 DEF LeaseInv, LeaseTyped
<1>6. TargetsKept'
  BY <1>1, <1>3, <1>4 DEF LeaseInv, TargetsKept
<1> HIDE DEF place
<1>7. place \in {"jitter", "over"}
  BY DEF place
<1>8. AsksOnce'
  BY <1>1, <1>2, <1>4, <1>7 DEF LeaseInv, LeaseTyped, AsksOnce, Waiting
<1>9. LeasesFit'
  BY <1>1, <1>2, <1>4, <1>7 DEF LeaseInv, LeaseTyped, LeasesFit
<1>10. QED
  BY <1>5, <1>6, <1>8, <1>9 DEF LeaseInv

LEMMA AskKeeps ==
    ASSUME LeaseInv, NEW r \in Leased, Lease!Ask(r)
    PROVE  LeaseInv'
<1> DEFINE place == IF agentOn = 0 THEN "over" ELSE "asking"
           q == [run |-> r, session |-> agentOn, at |-> "sent", target |-> Nowhere]
<1>1. /\ stages[r] = "jitter" /\ stages' = [stages EXCEPT ![r] = place]
      /\ requests' = IF agentOn = 0 THEN requests ELSE requests \cup {q}
      /\ Steady /\ UNCHANGED <<agentOn, answers, releases, granted, adrift>>
  BY DEF Lease!Ask, Lease!Goes, Lease!config, Lease!link, Lease!past, Steady
<1>2. \A x \in Leased : stages'[x] = IF x = r THEN place ELSE stages[x]
  BY <1>1 DEF LeaseInv, LeaseTyped
<1>3. /\ \A p \in requests : p.run # r
      /\ \A a \in answers : a.run # r
      /\ \A m \in releases : m.run # r
      /\ \A l \in granted : l.run # r
  BY <1>1 DEF LeaseInv, AsksOnce
<1>4. agentOn # 0 => agentOn \in 1..session
  BY DEF LeaseInv, LeaseTyped
<1>5. LeaseTyped'
  BY <1>1, <1>4 DEF LeaseInv, LeaseTyped, Steady
<1>6. TargetsKept'
  BY <1>1 DEF LeaseInv, TargetsKept, Steady
<1>7. AsksOnce'
  BY <1>1, <1>2, <1>3 DEF LeaseInv, LeaseTyped, AsksOnce, Waiting
<1>8. LeasesFit'
  BY <1>1, <1>2, <1>3 DEF LeaseInv, LeaseTyped, LeasesFit, Steady
<1>9. QED
  BY <1>5, <1>6, <1>7, <1>8 DEF LeaseInv

LEMMA TimeOutKeeps ==
    ASSUME LeaseInv, NEW r \in Leased, Lease!TimeOut(r)
    PROVE  LeaseInv'
<1>1. /\ stages[r] = "asking" /\ stages' = [stages EXCEPT ![r] = "over"]
      /\ adrift' = adrift \cup {r}
      /\ Steady /\ UNCHANGED <<agentOn, requests, answers, releases, granted>>
  BY DEF Lease!TimeOut, Lease!Goes, Lease!config, Lease!link, Steady
<1>2. \A x \in Leased : stages'[x] = IF x = r THEN "over" ELSE stages[x]
  BY <1>1 DEF LeaseInv, LeaseTyped
<1>3. LeaseTyped'
  BY <1>1 DEF LeaseInv, LeaseTyped, Steady
<1>4. TargetsKept'
  BY <1>1 DEF LeaseInv, TargetsKept, Steady
<1>5. AsksOnce'
  BY <1>1, <1>2 DEF LeaseInv, LeaseTyped, AsksOnce, Waiting
<1>6. LeasesFit'
  BY <1>1, <1>2 DEF LeaseInv, LeaseTyped, LeasesFit, Steady
<1>7. QED
  BY <1>3, <1>4, <1>5, <1>6 DEF LeaseInv

LEMMA AnsweredKeeps ==
    ASSUME LeaseInv, NEW a \in answers, Lease!Answered(a)
    PROVE  LeaseInv'
<1> DEFINE r == a.run
           place == IF stages[r] # "asking" THEN stages[r]
                    ELSE IF a.granted THEN "probing" ELSE "over"
<1>1. /\ answers' = answers \ {a} /\ r \in Leased
      /\ stages' = IF stages[r] # "asking" THEN stages ELSE [stages EXCEPT ![r] = place]
      /\ Steady /\ UNCHANGED <<agentOn, requests, releases, granted, adrift>>
  BY DEF Lease!Answered, Lease!config, Lease!link, Lease!past, Steady, LeaseInv, LeaseTyped
<1>2. \A x \in Leased : stages'[x] = IF x = r THEN place ELSE stages[x]
  BY <1>1 DEF LeaseInv, LeaseTyped
<1>3. /\ \A b \in answers' : b.run # r
      /\ \A q \in requests : q.run # r
      /\ \A m \in releases : m.run # r
  BY <1>1 DEF LeaseInv, AsksOnce
<1>4. stages[r] \in {"asking", "over"} /\ (stages[r] = "over" => r \in adrift)
  BY DEF LeaseInv, AsksOnce, Waiting
<1>5. place \in {"probing", "over"} /\ (place = "over" => r \in adrift \/ ~a.granted)
  BY <1>4
<1>6. a.granted => r \in dropped \/ \E l \in granted : l.run = r
  BY DEF LeaseInv, LeasesFit
<1>7. ~a.granted => \A l \in granted : l.run # r
  BY DEF LeaseInv, LeasesFit
<1>8. place = "probing" => a.granted
  BY <1>4
<1>9. LeaseTyped'
  BY <1>1, <1>5 DEF LeaseInv, LeaseTyped, Steady
<1>10. TargetsKept'
  BY <1>1 DEF LeaseInv, TargetsKept, Steady
<1> HIDE DEF place, r
<1>11. AsksOnce'
  BY <1>1, <1>2, <1>3, <1>5 DEF LeaseInv, LeaseTyped, AsksOnce, Waiting
<1>12. LeasesFit'
  BY <1>1, <1>2, <1>3, <1>5, <1>6, <1>7, <1>8 DEF r, LeaseInv, LeaseTyped, LeasesFit, Steady
<1>13. QED
  BY <1>9, <1>10, <1>11, <1>12 DEF LeaseInv

LEMMA ReachableKeeps ==
    ASSUME LeaseInv, NEW r \in Leased, Lease!Reachable(r)
    PROVE  LeaseInv'
<1>1. /\ stages[r] = "probing" /\ stages' = [stages EXCEPT ![r] = "using"]
      /\ Steady /\ UNCHANGED <<agentOn, requests, answers, releases, granted, adrift>>
  BY DEF Lease!Reachable, Lease!Goes, Lease!config, Lease!link, Lease!past, Steady
<1>2. \A x \in Leased : stages'[x] = IF x = r THEN "using" ELSE stages[x]
  BY <1>1 DEF LeaseInv, LeaseTyped
<1>3. LeaseTyped'
  BY <1>1 DEF LeaseInv, LeaseTyped, Steady
<1>4. TargetsKept'
  BY <1>1 DEF LeaseInv, TargetsKept, Steady
<1>5. AsksOnce'
  BY <1>1, <1>2 DEF LeaseInv, LeaseTyped, AsksOnce, Waiting
<1>6. LeasesFit'
  BY <1>1, <1>2 DEF LeaseInv, LeaseTyped, LeasesFit, Steady
<1>7. QED
  BY <1>3, <1>4, <1>5, <1>6 DEF LeaseInv

LEMMA EndKeeps ==
    ASSUME LeaseInv, NEW r \in Leased, Lease!End(r)
    PROVE  LeaseInv'
<1> DEFINE m == [run |-> r, session |-> agentOn]
<1>1. /\ stages[r] \in {"probing", "using"} /\ stages' = [stages EXCEPT ![r] = "over"]
      /\ releases' = IF agentOn = 0 THEN releases ELSE releases \cup {m}
      /\ adrift' = IF agentOn = 0 THEN adrift \cup {r} ELSE adrift
      /\ Steady /\ UNCHANGED <<agentOn, requests, answers, granted>>
  BY DEF Lease!End, Lease!SendRelease, Lease!config, Lease!link, Steady
<1>2. \A x \in Leased : stages'[x] = IF x = r THEN "over" ELSE stages[x]
  BY <1>1 DEF LeaseInv, LeaseTyped
<1>3. agentOn # 0 => agentOn \in 1..session
  BY DEF LeaseInv, LeaseTyped
<1>4. /\ \A q \in requests : q.run # r
      /\ \A a \in answers : a.run # r
  BY <1>1 DEF LeaseInv, AsksOnce, Waiting
<1>5. LeaseTyped'
  BY <1>1, <1>3 DEF LeaseInv, LeaseTyped, Steady
<1>6. TargetsKept'
  BY <1>1 DEF LeaseInv, TargetsKept, Steady
<1>7. AsksOnce'
  BY <1>1, <1>2, <1>4 DEF LeaseInv, LeaseTyped, AsksOnce, Waiting
<1>8. m.run = r /\ (r \in adrift' \/ m \in releases')
  BY <1>1 DEF LeaseInv, LeaseTyped
<1>9. releases \subseteq releases' /\ adrift \subseteq adrift'
  BY <1>1
<1> HIDE DEF m
<1>10. LeasesFit'
  <2>1. ASSUME NEW l \in granted
        PROVE  \/ stages'[l.run] \in {"probing", "using"} \/ l.run \in adrift'
               \/ \E a \in answers : a.run = l.run /\ a.granted
               \/ \E x \in releases' : x.run = l.run
    <3>1. l.run \in Leased
      BY DEF LeaseInv, LeaseTyped
    <3>2. CASE l.run = r
      BY <1>8, <3>2
    <3>3. CASE l.run # r
      <4>1. stages'[l.run] = stages[l.run]
        BY <1>2, <3>1, <3>3
      <4>2. \/ stages[l.run] \in {"probing", "using"} \/ l.run \in adrift
            \/ \E a \in answers : a.run = l.run /\ a.granted
            \/ \E x \in releases : x.run = l.run
        BY DEF LeaseInv, LeasesFit
      <4>3. QED
        BY <1>9, <4>1, <4>2
    <3>4. QED
      BY <3>2, <3>3
  <2>2. \A x \in Leased : stages'[x] \in {"probing", "using"} =>
            x \in dropped \/ \E l \in granted : l.run = x
    BY <1>2 DEF LeaseInv, LeasesFit
  <2>3. answers' = answers /\ granted' = granted /\ dropped' = dropped
    BY <1>1 DEF Steady
  <2>4. QED
    BY <2>1, <2>2, <2>3 DEF LeaseInv, LeasesFit
<1>11. QED
  BY <1>5, <1>6, <1>7, <1>10 DEF LeaseInv

\* Who waits when the socket breaks is cut off.
LEMMA BreakKeeps ==
    ASSUME LeaseInv, Lease!Break
    PROVE  LeaseInv'
<1>1. /\ agentOn' = 0 /\ answers' = {}
      /\ stages' = [r \in Leased |-> IF stages[r] = "asking" THEN "over" ELSE stages[r]]
      /\ adrift' = adrift \cup {r \in Leased : stages[r] = "asking"}
      /\ Steady /\ UNCHANGED <<requests, releases, granted>>
  BY DEF Lease!Break, Lease!config, Steady
<1>2. \A r \in Leased : stages'[r] = IF stages[r] = "asking" THEN "over" ELSE stages[r]
  BY <1>1
<1>3. \A a \in answers : a.run \in adrift'
  BY <1>1 DEF LeaseInv, LeaseTyped, AsksOnce, Waiting
<1>4. LeaseTyped'
  BY <1>1 DEF LeaseInv, LeaseTyped, Steady
<1>5. TargetsKept'
  BY <1>1 DEF LeaseInv, TargetsKept, Steady
<1>6. AsksOnce'
  BY <1>1, <1>2 DEF LeaseInv, LeaseTyped, AsksOnce, Waiting
<1>7. LeasesFit'
  BY <1>1, <1>2, <1>3 DEF LeaseInv, LeaseTyped, LeasesFit, Steady
<1>8. QED
  BY <1>4, <1>5, <1>6, <1>7 DEF LeaseInv

\* Nothing answers for a socket that is gone; what was to be released over it is
\* adrift.
LEMMA ReconnectKeeps ==
    ASSUME LeaseInv, Lease!Reconnect
    PROVE  LeaseInv'
<1>1. /\ agentOn = 0 /\ session' = session + 1 /\ agentOn' = session' /\ serverOn' = session'
      /\ requests' \subseteq requests /\ releases' \subseteq releases
      /\ adrift' = adrift \cup {m.run : m \in {x \in releases : x.session = serverOn}}
      /\ releases' = {m \in releases : m.session # serverOn}
      /\ UNCHANGED <<base, tunnelled, entered, known, authorised, meant, dropped>>
      /\ UNCHANGED <<stages, answers, granted>>
  BY DEF Lease!Reconnect, Lease!Lose, Lease!OfRuns, Lease!config
<1>2. answers = {} /\ \A q \in requests : stages[q.run] # "asking"
  BY <1>1 DEF LeaseInv, LeaseTyped, AsksOnce
<1>3. adrift \subseteq adrift' /\ adrift' \subseteq Leased
      /\ \A m \in releases : m \in releases' \/ m.run \in adrift'
  BY <1>1 DEF LeaseInv, LeaseTyped
<1>4. session' \in Nat /\ session' \in 0..session' /\ 1..session \subseteq 1..session'
  BY <1>1 DEF LeaseInv, LeaseTyped
<1>5. LeaseTyped'
  <2>1. requests' \subseteq [run : Leased, session : 1..session', target : Hosts \cup {Nowhere},
                             at : {"sent", "resolving", "measuring", "acquiring"}]
    BY <1>1, <1>4 DEF LeaseInv, LeaseTyped
  <2>2. answers' = {} /\ releases' \subseteq [run : Leased, session : 1..session']
    BY <1>1, <1>2, <1>4 DEF LeaseInv, LeaseTyped
  <2>3. QED
    BY <1>1, <1>3, <1>4, <2>1, <2>2 DEF LeaseInv, LeaseTyped
<1>6. TargetsKept'
  BY <1>1 DEF LeaseInv, TargetsKept
<1>7. AsksOnce'
  BY <1>1, <1>2, <1>3 DEF LeaseInv, LeaseTyped, AsksOnce, Waiting
<1>8. LeasesFit'
  BY <1>1, <1>2, <1>3 DEF LeaseInv, LeaseTyped, LeasesFit
<1>9. QED
  BY <1>5, <1>6, <1>7, <1>8 DEF LeaseInv

LEMMA NoticeBreakKeeps ==
    ASSUME LeaseInv, NEW s \in 1..MaxSessions, Lease!NoticeBreak(s)
    PROVE  LeaseInv'
<1>1. /\ serverOn' = 0 /\ releases' = {} /\ granted' = {} /\ requests' \subseteq requests
      /\ adrift' = adrift \cup {m.run : m \in releases}
      /\ dropped' = dropped \cup {l.run : l \in granted}
      /\ UNCHANGED <<base, tunnelled, entered, authorised, meant, session>>
      /\ UNCHANGED <<stages, agentOn, answers>>
  BY DEF Lease!NoticeBreak, Lease!IsCurrent, Lease!OfRuns, Lease!config
<1>2. /\ adrift \subseteq adrift' /\ adrift' \subseteq Leased
      /\ dropped \subseteq dropped' /\ dropped' \subseteq Leased
      /\ \A l \in granted : l.run \in dropped'
  BY <1>1 DEF LeaseInv, LeaseTyped
<1>3. LeaseTyped'
  BY <1>1, <1>2 DEF LeaseInv, LeaseTyped
<1>4. TargetsKept'
  BY <1>1 DEF LeaseInv, TargetsKept
<1>5. AsksOnce'
  BY <1>1, <1>2 DEF LeaseInv, LeaseTyped, AsksOnce, Waiting
<1>6. LeasesFit'
  BY <1>1, <1>2 DEF LeaseInv, LeaseTyped, LeasesFit
<1>7. QED
  BY <1>3, <1>4, <1>5, <1>6 DEF LeaseInv

-----------------------------------------------------------------------------
\* The server refuses a request.
LEMMA DenyKeeps ==
    ASSUME LeaseInv, NEW q \in requests, Lease!Deny(q), Steady,
           UNCHANGED <<agentOn, stages, releases, granted, adrift>>
    PROVE  LeaseInv'
<1> DEFINE a == [run |-> q.run, session |-> q.session, granted |-> FALSE]
<1>1. /\ requests' = requests \ {q}
      /\ answers' = IF q.session = agentOn THEN answers \cup {a} ELSE answers
  BY DEF Lease!Deny, Lease!Answer
<1>2. q.run \in Leased /\ q.session \in 1..session
  BY DEF LeaseInv, LeaseTyped
<1>3. /\ \A l \in granted : l.run # q.run
      /\ \A p \in requests' : p.run # q.run
      /\ \A b \in answers : b.run # q.run
      /\ \A m \in releases : m.run # q.run
      /\ Waiting(q.run)
  BY <1>1 DEF LeaseInv, AsksOnce
<1>4. stages[q.run] \notin {"new", "jitter"}
  BY <1>3 DEF Waiting
<1>5. a.run = q.run /\ a.session = q.session /\ a.granted = FALSE
      /\ a \in [run : Leased, session : 1..session, granted : BOOLEAN]
  BY <1>2
<1> HIDE DEF a
<1>6. answers' \subseteq answers \cup {a} /\ (a \in answers' => q.session = agentOn)
      /\ answers \subseteq answers'
  <2>1. a \notin answers
    BY <1>3, <1>5
  <2>2. QED
    BY <1>1, <2>1
<1>7. LeaseTyped'
  <2>1. answers' \subseteq [run : Leased, session : 1..session, granted : BOOLEAN]
    BY <1>5, <1>6 DEF LeaseInv, LeaseTyped
  <2>2. requests' \subseteq requests
    BY <1>1
  <2>3. QED
    BY <2>1, <2>2 DEF LeaseInv, LeaseTyped, Steady
<1>8. TargetsKept'
  BY <1>1 DEF LeaseInv, TargetsKept, Steady
<1>9. AsksOnce'
  <2>1. \A r \in Leased : stages[r] \in {"new", "jitter"} => \A b \in answers' : b.run # r
    BY <1>4, <1>5, <1>6 DEF LeaseInv, AsksOnce
  <2>2. \A p \in requests' : \A b \in answers' : b.run # p.run
    BY <1>1, <1>3, <1>5, <1>6 DEF LeaseInv, AsksOnce
  <2>3. \A b \in answers' :
            /\ Waiting(b.run) /\ b.session = agentOn
            /\ \A c \in answers' : c.run = b.run => c = b
            /\ \A m \in releases : m.run # b.run
    BY <1>3, <1>5, <1>6 DEF LeaseInv, AsksOnce
  <2>4. requests' \subseteq requests
    BY <1>1
  <2>5. QED
    BY <2>1, <2>2, <2>3, <2>4 DEF LeaseInv, AsksOnce, Waiting
<1>10. LeasesFit'
  BY <1>3, <1>5, <1>6 DEF LeaseInv, LeaseTyped, LeasesFit, Steady
<1>11. QED
  BY <1>7, <1>8, <1>9, <1>10 DEF LeaseInv

\* The server goes on with one, to a target that may be one.
LEMMA AdvanceKeeps ==
    ASSUME LeaseInv, NEW q \in requests, NEW at, NEW target, Lease!Advance(q, at, target), Steady,
           UNCHANGED <<agentOn, stages, releases, granted, adrift>>,
           at \in {"resolving", "measuring", "acquiring"}, target \in Hosts \cup {Nowhere},
           at = "resolving" => q.run \notin Restores,
           at # "resolving" =>
               target \in entered /\ (q.run \in Restores => target = meant[q.run])
    PROVE  LeaseInv'
<1> DEFINE p == [run |-> q.run, session |-> q.session, at |-> at, target |-> target]
<1>1. requests' = (requests \ {q}) \cup {p} /\ answers' = answers
  BY DEF Lease!Advance
<1>2. p.run = q.run /\ p.session = q.session /\ p.at = at /\ p.target = target
  OBVIOUS
<1>3. q.run \in Leased /\ q.session \in 1..session
  BY DEF LeaseInv, LeaseTyped
<1>4. LeaseTyped'
  BY <1>1, <1>3 DEF LeaseInv, LeaseTyped, Steady
<1> HIDE DEF p
<1>5. TargetsKept'
  BY <1>1, <1>2 DEF LeaseInv, TargetsKept, Steady
<1>6. AsksOnce'
  BY <1>1, <1>2, <1>3 DEF LeaseInv, LeaseTyped, AsksOnce, Waiting
<1>7. LeasesFit'
  BY <1>1 DEF LeaseInv, LeasesFit, Steady
<1>8. QED
  BY <1>4, <1>5, <1>6, <1>7 DEF LeaseInv

\* A job leads nowhere but to the repository there is.
LEMMA DecideKeeps ==
    ASSUME LeaseInv, NEW q \in requests, NEW job, Lease!Decide(q, job), Steady,
           UNCHANGED <<agentOn, stages, releases, granted, adrift>>,
           q.run \notin Restores
    PROVE  LeaseInv'
<1> DEFINE target == Lease!ConfiguredTarget(job)
<1>1. target \in {base, Nowhere} /\ base \in Hosts \cup {Nowhere}
      /\ (base = Nowhere \/ base \in entered)
  BY DEF Lease!ConfiguredTarget, LeaseInv, LeaseTyped, TargetsKept
<1>2. \/ target # Nowhere /\ Lease!Advance(q, "measuring", target)
      \/ Lease!Deny(q)
  BY DEF Lease!Decide
<1> HIDE DEF target
<1>3. CASE target # Nowhere /\ Lease!Advance(q, "measuring", target)
  BY <1>1, <1>3, AdvanceKeeps
<1>4. CASE Lease!Deny(q)
  BY <1>4, DenyKeeps
<1>5. QED
  BY <1>2, <1>3, <1>4

LEMMA ReceiveKeeps ==
    ASSUME LeaseInv, NEW q \in requests, Lease!Receive(q)
    PROVE  LeaseInv'
<1>1. Steady /\ UNCHANGED <<agentOn, stages, releases, granted, adrift>>
  BY DEF Lease!Receive, Lease!config, Lease!link, Lease!past, Steady
<1>2. \/ Lease!Deny(q)
      \/ /\ q.run \in Restores /\ authorised[q.run] # Nowhere
         /\ Lease!Advance(q, "measuring", authorised[q.run])
      \/ q.run \notin Restores /\ Lease!Advance(q, "resolving", Nowhere)
      \/ q.run \notin Restores /\ Lease!Decide(q, known[1])
  BY DEF Lease!Receive
<1>3. CASE Lease!Deny(q)
  BY <1>1, <1>3, DenyKeeps
<1>4. CASE /\ q.run \in Restores /\ authorised[q.run] # Nowhere
           /\ Lease!Advance(q, "measuring", authorised[q.run])
  <2>1. authorised[q.run] \in Hosts \cup {Nowhere} /\ authorised[q.run] \in entered
        /\ authorised[q.run] = meant[q.run]
    BY <1>4 DEF LeaseInv, LeaseTyped, TargetsKept
  <2>2. QED
    BY <1>1, <1>4, <2>1, AdvanceKeeps
<1>5. CASE q.run \notin Restores /\ Lease!Advance(q, "resolving", Nowhere)
  BY <1>1, <1>5, AdvanceKeeps
<1>6. CASE q.run \notin Restores /\ Lease!Decide(q, known[1])
  BY <1>1, <1>6, DecideKeeps
<1>7. QED
  BY <1>2, <1>3, <1>4, <1>5, <1>6

LEMMA GoOnKeeps ==
    ASSUME LeaseInv, NEW q \in requests, Lease!GoOn(q)
    PROVE  LeaseInv'
<1>1. Steady /\ UNCHANGED <<agentOn, stages, releases, granted, adrift>>
  BY DEF Lease!GoOn, Lease!config, Lease!link, Lease!past, Steady
<1>2. q.run \notin Restores /\ (Lease!Decide(q, known[1]) \/ Lease!Deny(q))
  BY DEF Lease!GoOn, LeaseInv, TargetsKept
<1>3. QED
  BY <1>1, <1>2, DecideKeeps, DenyKeeps

LEMMA MeasuredKeeps ==
    ASSUME LeaseInv, NEW q \in requests, Lease!Measured(q)
    PROVE  LeaseInv'
<1>1. Steady /\ UNCHANGED <<agentOn, stages, releases, granted, adrift>>
  BY DEF Lease!Measured, Lease!config, Lease!link, Lease!past, Steady
<1>2. /\ q.at = "measuring" /\ q.target \in Hosts \cup {Nowhere} /\ q.target \in entered
      /\ (q.run \in Restores => q.target = meant[q.run])
  BY DEF Lease!Measured, LeaseInv, LeaseTyped, TargetsKept
<1>3. Lease!Advance(q, "acquiring", q.target) \/ Lease!Deny(q)
  BY DEF Lease!Measured
<1>4. QED
  BY <1>1, <1>2, <1>3, AdvanceKeeps, DenyKeeps

LEMMA RefreshJobCacheKeeps ==
    ASSUME LeaseInv, Lease!RefreshJobCache
    PROVE  LeaseInv'
<1>1. /\ UNCHANGED <<base, tunnelled, entered, authorised, meant, dropped, session, serverOn>>
      /\ UNCHANGED <<agentOn, stages, requests, answers, releases, granted, adrift>>
  BY DEF Lease!RefreshJobCache, Lease!config, Lease!link, Lease!past
<1>2. LeaseTyped'
  BY <1>1 DEF LeaseInv, LeaseTyped
<1>3. TargetsKept' /\ AsksOnce' /\ LeasesFit'
  BY <1>1 DEF LeaseInv, TargetsKept, AsksOnce, Waiting, LeasesFit
<1>4. QED
  BY <1>2, <1>3 DEF LeaseInv

\* The lease and its answer come at once; without the answer the run is adrift.
LEMMA GrantedKeeps ==
    ASSUME LeaseInv, NEW q \in requests, Lease!Granted(q)
    PROVE  LeaseInv'
<1> DEFINE l == [run |-> q.run, target |-> q.target]
           a == [run |-> q.run, session |-> q.session, granted |-> TRUE]
<1>1. Steady /\ UNCHANGED <<agentOn, stages, releases, adrift>> /\ q.at = "acquiring"
  BY DEF Lease!Granted, Lease!config, Lease!link, Lease!past, Steady
<1>2. CASE Lease!Deny(q) /\ UNCHANGED granted
  BY <1>1, <1>2, DenyKeeps
<1>3. CASE /\ granted' = granted \cup {l} /\ requests' = requests \ {q}
           /\ Lease!Answer(q, TRUE)
  <2>1. answers' = IF q.session = agentOn THEN answers \cup {a} ELSE answers
    BY <1>3 DEF Lease!Answer
  <2>2. /\ q.run \in Leased /\ q.session \in 1..session /\ q.target \in Hosts \cup {Nowhere}
        /\ q.target \in entered /\ (q.run \in Restores => q.target = meant[q.run])
    BY <1>1 DEF LeaseInv, LeaseTyped, TargetsKept
  <2>3. /\ \A x \in granted : x.run # q.run
        /\ \A p \in requests' : p.run # q.run
        /\ \A b \in answers : b.run # q.run
        /\ \A m \in releases : m.run # q.run
        /\ Waiting(q.run) /\ (stages[q.run] = "asking" => q.session = agentOn)
    BY <1>3 DEF LeaseInv, AsksOnce
  <2>4. stages[q.run] \notin {"new", "jitter"}
    BY <2>3 DEF Waiting
  <2>5. q.session # agentOn => q.run \in adrift
    BY <2>3 DEF Waiting
  <2>6. a.run = q.run /\ a.session = q.session /\ a.granted = TRUE
        /\ a \in [run : Leased, session : 1..session, granted : BOOLEAN]
    BY <2>2
  <2>7. l.run = q.run /\ l.target = q.target
        /\ l \in [run : Leased, target : Hosts \cup {Nowhere}]
    BY <2>2
  <2>8. granted' = granted \cup {l} /\ requests' \subseteq requests
    BY <1>3
  <2> HIDE DEF a, l
  <2>9. /\ answers' \subseteq answers \cup {a} /\ (a \in answers' => q.session = agentOn)
        /\ answers \subseteq answers' /\ (q.session = agentOn => a \in answers')
    <3>1. a \notin answers
      BY <2>3, <2>6
    <3>2. QED
      BY <2>1, <3>1
  <2>10. LeaseTyped'
    <3>1. answers' \subseteq [run : Leased, session : 1..session, granted : BOOLEAN]
      BY <2>6, <2>9 DEF LeaseInv, LeaseTyped
    <3>2. QED
      BY <1>1, <2>7, <2>8, <3>1 DEF LeaseInv, LeaseTyped, Steady
  <2>11. TargetsKept'
    BY <1>1, <2>2, <2>7, <2>8 DEF LeaseInv, TargetsKept, Steady
  <2>12. AsksOnce'
    <3>1. \A r \in Leased : stages[r] \in {"new", "jitter"} =>
              /\ \A b \in answers' : b.run # r
              /\ \A x \in granted' : x.run # r
      BY <2>4, <2>6, <2>7, <2>8, <2>9 DEF LeaseInv, AsksOnce
    <3>2. \A p \in requests' : /\ \A b \in answers' : b.run # p.run
                               /\ \A x \in granted' : x.run # p.run
      BY <2>3, <2>6, <2>7, <2>8, <2>9 DEF LeaseInv, AsksOnce
    <3>3. \A b \in answers' :
              /\ Waiting(b.run) /\ b.session = agentOn
              /\ \A c \in answers' : c.run = b.run => c = b
              /\ \A m \in releases : m.run # b.run
      BY <2>3, <2>6, <2>9 DEF LeaseInv, AsksOnce
    <3>4. QED
      BY <1>1, <2>8, <3>1, <3>2, <3>3 DEF LeaseInv, AsksOnce, Waiting
  <2>13. LeasesFit'
    <3>1. \A b \in answers' : b.granted => b.run \in dropped \/ \E x \in granted' : x.run = b.run
      BY <2>6, <2>7, <2>8, <2>9 DEF LeaseInv, LeasesFit
    <3>2. \A b \in answers' : ~b.granted => \A x \in granted' : x.run # b.run
      <4>1. \A b \in answers' : ~b.granted => b \in answers /\ b.run # q.run
        BY <2>3, <2>6, <2>9
      <4>2. QED
        BY <2>7, <2>8, <4>1 DEF LeaseInv, LeasesFit
    <3>3. \A x \in granted' :
              \/ stages[x.run] \in {"probing", "using"} \/ x.run \in adrift
              \/ \E b \in answers' : b.run = x.run /\ b.granted
              \/ \E m \in releases : m.run = x.run
      <4>1. l.run \in adrift \/ (a \in answers' /\ a.run = l.run /\ a.granted)
        BY <2>5, <2>6, <2>7, <2>9
      <4>2. QED
        BY <2>8, <2>9, <4>1 DEF LeaseInv, LeasesFit
    <3>4. \A r \in Leased : stages[r] \in {"probing", "using"} =>
              r \in dropped \/ \E x \in granted' : x.run = r
      BY <2>8 DEF LeaseInv, LeasesFit
    <3>5. QED
      BY <1>1, <3>1, <3>2, <3>3, <3>4 DEF LeasesFit, Steady
  <2>14. QED
    BY <2>10, <2>11, <2>12, <2>13 DEF LeaseInv
<1>4. QED
  BY <1>2, <1>3 DEF Lease!Granted

-----------------------------------------------------------------------------
\* A lease goes, and with it the target a restore was allowed.
LEMMA WithoutKeeps ==
    ASSUME LeaseInv, NEW r \in Leased, Lease!Without(r)
    PROVE  /\ granted' = {l \in granted : l.run # r}
           /\ \A x \in Restores : authorised'[x] \in {authorised[x], Nowhere}
           /\ authorised' \in [Restores -> Hosts \cup {Nowhere}]
<1>1. /\ granted' = {l \in granted : l.run # r}
      /\ authorised' = [x \in Restores |-> IF x = r /\ granted' # granted THEN Nowhere
                                           ELSE authorised[x]]
  BY DEF Lease!Without
<1>2. \A x \in Restores : authorised[x] \in Hosts \cup {Nowhere}
  BY DEF LeaseInv, LeaseTyped
<1>3. QED
  BY <1>1, <1>2

LEMMA ReleaseKeeps ==
    ASSUME LeaseInv, NEW m \in releases, Lease!Release(m)
    PROVE  LeaseInv'
<1>1. /\ releases' = releases \ {m} /\ Lease!Without(m.run)
      /\ UNCHANGED <<base, tunnelled, entered, meant, dropped, session, serverOn>>
      /\ UNCHANGED <<agentOn, stages, requests, answers, adrift>>
  BY DEF Lease!Release, Lease!config, Lease!link, Lease!past
<1>2. m.run \in Leased
  BY DEF LeaseInv, LeaseTyped
<1>3. /\ granted' = {l \in granted : l.run # m.run}
      /\ \A x \in Restores : authorised'[x] \in {authorised[x], Nowhere}
      /\ authorised' \in [Restores -> Hosts \cup {Nowhere}]
  BY <1>1, <1>2, WithoutKeeps
<1>4. stages[m.run] = "over" /\ \A a \in answers : a.run # m.run
  BY DEF LeaseInv, AsksOnce
<1>5. LeaseTyped'
  BY <1>1, <1>3 DEF LeaseInv, LeaseTyped
<1>6. TargetsKept'
  BY <1>1, <1>3 DEF LeaseInv, TargetsKept
<1>7. AsksOnce'
  BY <1>1, <1>3 DEF LeaseInv, AsksOnce, Waiting
<1>8. LeasesFit'
  BY <1>1, <1>2, <1>3, <1>4 DEF LeaseInv, LeasesFit
<1>9. QED
  BY <1>5, <1>6, <1>7, <1>8 DEF LeaseInv

LEMMA ExpireKeeps ==
    ASSUME LeaseInv, NEW l \in granted, Lease!Expire(l)
    PROVE  LeaseInv'
<1>1. /\ dropped' = dropped \cup {l.run} /\ Lease!Without(l.run)
      /\ UNCHANGED <<base, tunnelled, entered, meant, session, serverOn>>
      /\ UNCHANGED <<agentOn, stages, requests, answers, releases, adrift>>
  BY DEF Lease!Expire, Lease!link
<1>2. l.run \in Leased
  BY DEF LeaseInv, LeaseTyped
<1>3. /\ granted' = {x \in granted : x.run # l.run}
      /\ \A x \in Restores : authorised'[x] \in {authorised[x], Nowhere}
      /\ authorised' \in [Restores -> Hosts \cup {Nowhere}]
  BY <1>1, <1>2, WithoutKeeps
<1>4. LeaseTyped'
  BY <1>1, <1>2, <1>3 DEF LeaseInv, LeaseTyped
<1>5. TargetsKept'
  BY <1>1, <1>3 DEF LeaseInv, TargetsKept
<1>6. AsksOnce'
  BY <1>1, <1>3 DEF LeaseInv, AsksOnce, Waiting
<1>7. LeasesFit'
  BY <1>1, <1>2, <1>3 DEF LeaseInv, LeasesFit
<1>8. QED
  BY <1>4, <1>5, <1>6, <1>7 DEF LeaseInv

LEMMA CloseClientKeeps ==
    ASSUME LeaseInv, Lease!CloseClient
    PROVE  LeaseInv'
<1>1. /\ granted' = {} /\ dropped' = dropped \cup {l.run : l \in granted}
      /\ UNCHANGED <<base, entered, authorised, meant, session, serverOn>>
      /\ UNCHANGED <<agentOn, stages, requests, answers, releases, adrift>>
  BY DEF Lease!CloseClient, Lease!OfRuns, Lease!link
<1>2. /\ dropped \subseteq dropped' /\ dropped' \subseteq Leased
      /\ \A l \in granted : l.run \in dropped'
  BY <1>1 DEF LeaseInv, LeaseTyped
<1>3. LeaseTyped'
  BY <1>1, <1>2 DEF LeaseInv, LeaseTyped
<1>4. TargetsKept' /\ AsksOnce'
  BY <1>1 DEF LeaseInv, TargetsKept, AsksOnce, Waiting
<1>5. LeasesFit'
  BY <1>1, <1>2 DEF LeaseInv, LeasesFit
<1>6. QED
  BY <1>3, <1>4, <1>5 DEF LeaseInv

\* What was allowed stays allowed: an operator entered it, before.
LEMMA EditRepositoryKeeps ==
    ASSUME LeaseInv, Lease!EditRepository
    PROVE  LeaseInv'
<1>1. /\ base' \in Hosts \cup {Nowhere} /\ entered' = entered \cup ({base'} \ {Nowhere})
      /\ UNCHANGED <<authorised, meant, dropped, session, serverOn>>
      /\ UNCHANGED <<agentOn, stages, requests, answers, releases, granted, adrift>>
  BY DEF Lease!EditRepository, Lease!link, Lease!past
<1>2. entered \subseteq entered' /\ entered' \subseteq Hosts /\ (base' = Nowhere \/ base' \in entered')
  BY <1>1 DEF LeaseInv, LeaseTyped
<1>3. LeaseTyped'
  BY <1>1, <1>2 DEF LeaseInv, LeaseTyped
<1>4. TargetsKept'
  BY <1>1, <1>2 DEF LeaseInv, TargetsKept
<1>5. AsksOnce' /\ LeasesFit'
  BY <1>1 DEF LeaseInv, AsksOnce, Waiting, LeasesFit
<1>6. QED
  BY <1>3, <1>4, <1>5 DEF LeaseInv

LEMMA RestartServerKeeps ==
    ASSUME LeaseInv, Lease!RestartServer
    PROVE  LeaseInv'
<1>1. /\ agentOn = 0 /\ serverOn' = 0 /\ authorised' = [r \in Restores |-> Nowhere]
      /\ requests' = {} /\ releases' = {} /\ granted' = {}
      /\ dropped' = dropped \cup {l.run : l \in granted}
      /\ UNCHANGED <<base, entered, stages, agentOn, session, answers, meant, adrift>>
  BY DEF Lease!RestartServer, Lease!OfRuns
<1>2. answers = {}
  BY <1>1 DEF LeaseInv, LeaseTyped, AsksOnce
<1>3. dropped \subseteq dropped' /\ dropped' \subseteq Leased /\ \A l \in granted : l.run \in dropped'
  BY <1>1 DEF LeaseInv, LeaseTyped
<1>4. LeaseTyped'
  BY <1>1, <1>3 DEF LeaseInv, LeaseTyped
<1>5. TargetsKept'
  BY <1>1 DEF LeaseInv, TargetsKept
<1>6. AsksOnce' /\ LeasesFit'
  BY <1>1, <1>2, <1>3 DEF LeaseInv, AsksOnce, Waiting, LeasesFit
<1>7. QED
  BY <1>4, <1>5, <1>6 DEF LeaseInv

LEMMA StepLease == LeaseInv /\ Lease!Next => LeaseInv'
<1> SUFFICES ASSUME LeaseInv, Lease!Next PROVE LeaseInv'
  OBVIOUS
<1>1. ASSUME NEW r \in Leased, Lease!StartBackup(r) PROVE LeaseInv'
  BY <1>1, StartBackupKeeps
<1>2. ASSUME NEW r \in Leased, Lease!TriggerRestore(r) PROVE LeaseInv'
  BY <1>2, TriggerRestoreKeeps
<1>3. ASSUME NEW r \in Leased, Lease!Ask(r) PROVE LeaseInv'
  BY <1>3, AskKeeps
<1>4. ASSUME NEW r \in Leased, Lease!TimeOut(r) PROVE LeaseInv'
  BY <1>4, TimeOutKeeps
<1>5. ASSUME NEW r \in Leased, Lease!Reachable(r) PROVE LeaseInv'
  BY <1>5, ReachableKeeps
<1>6. ASSUME NEW r \in Leased, Lease!End(r) PROVE LeaseInv'
  BY <1>6, EndKeeps
<1>7. ASSUME NEW a \in answers, Lease!Answered(a) PROVE LeaseInv'
  BY <1>7, AnsweredKeeps
<1>8. ASSUME NEW s \in 1..MaxSessions, Lease!NoticeBreak(s) PROVE LeaseInv'
  BY <1>8, NoticeBreakKeeps
<1>9. ASSUME NEW q \in requests, Lease!Receive(q) PROVE LeaseInv'
  BY <1>9, ReceiveKeeps
<1>10. ASSUME NEW q \in requests, Lease!GoOn(q) PROVE LeaseInv'
  BY <1>10, GoOnKeeps
<1>11. ASSUME NEW q \in requests, Lease!Measured(q) PROVE LeaseInv'
  BY <1>11, MeasuredKeeps
<1>12. ASSUME NEW q \in requests, Lease!Granted(q) PROVE LeaseInv'
  BY <1>12, GrantedKeeps
<1>13. ASSUME NEW m \in releases, Lease!Release(m) PROVE LeaseInv'
  BY <1>13, ReleaseKeeps
<1>14. ASSUME NEW l \in granted, Lease!Expire(l) PROVE LeaseInv'
  BY <1>14, ExpireKeeps
<1>15. QED
  BY <1>1, <1>2, <1>3, <1>4, <1>5, <1>6, <1>7, <1>8, <1>9, <1>10, <1>11, <1>12, <1>13, <1>14,
     BreakKeeps, ReconnectKeeps, RefreshJobCacheKeeps, CloseClientKeeps, EditRepositoryKeeps,
     RestartServerKeeps DEF Lease!Next

LEMMA LeasesFollow == LeaseInv => Lease!LeasesHold
<1> SUFFICES ASSUME LeaseInv PROVE Lease!LeasesHold
  OBVIOUS
<1>1. Lease!LeadsWhereMeant
  BY DEF LeaseInv, TargetsKept, Lease!LeadsWhereMeant
<1>2. Lease!LeasesAreWanted
  <2> SUFFICES ASSUME NEW l \in granted,
                      ~(stages[l.run] \in {"probing", "using"}),
                      l.run \notin {m.run : m \in releases} \cup adrift
               PROVE  [run |-> l.run, session |-> agentOn, granted |-> TRUE] \in answers
    BY DEF Lease!LeasesAreWanted, Lease!OfRuns
  <2>1. PICK a \in answers : a.run = l.run /\ a.granted
    BY DEF LeaseInv, LeasesFit
  <2>2. a \in [run : Leased, session : 1..session, granted : BOOLEAN] /\ a.session = agentOn
    BY DEF LeaseInv, LeaseTyped, AsksOnce
  <2>3. a = [run |-> l.run, session |-> agentOn, granted |-> TRUE]
    BY <2>1, <2>2
  <2>4. QED
    BY <2>3
<1>3. Lease!RunsHaveTheirLease
  BY DEF LeaseInv, LeasesFit, Lease!RunsHaveTheirLease, Lease!OfRuns
<1>4. QED
  BY <1>1, <1>2, <1>3 DEF Lease!LeasesHold

\* LeasesKept: a lease leads to a host an operator entered, and a restore's to the
\* one it was started for; what the server holds open is held by a run, on its way
\* back, or cut off, and a run that got its tunnel has it until it was taken away.
\* Whatever the number of runs, hosts, sessions and edits, and however late the
\* messages are.
THEOREM RunsAndLeasesAgree == MCSpec => []LeasesKept
<1> DEFINE Inv == part = "lease" => LeaseInv
<1>1. MCInit => Inv
  BY InitLease
<1>2. Inv /\ [MCNext]_<<part, vars, leaseVars, cleanupVars>> => Inv'
  <2> SUFFICES ASSUME Inv, [MCNext]_<<part, vars, leaseVars, cleanupVars>>, part' = "lease"
               PROVE  LeaseInv'
    OBVIOUS
  <2>1. CASE part = "lease" /\ Lease!Next
    BY <2>1, StepLease
  <2>2. CASE UNCHANGED <<part, leaseVars>>
    <3>1. LeaseInv /\ UNCHANGED leaseVars
      BY <2>2
    <3>2. LeaseTyped' /\ TargetsKept'
      BY <3>1 DEF leaseVars, LeaseInv, LeaseTyped, TargetsKept
    <3>3. AsksOnce' /\ LeasesFit'
      BY <3>1 DEF leaseVars, LeaseInv, AsksOnce, Waiting, LeasesFit
    <3>4. QED
      BY <3>2, <3>3 DEF LeaseInv
  <2>3. QED
    BY <2>1, <2>2 DEF MCNext
<1>3. Inv => LeasesKept
  BY LeasesFollow DEF LeasesKept
<1>4. QED
  BY <1>1, <1>2, <1>3, PTL DEF MCSpec
-----------------------------------------------------------------------------
(***************************************************************************)
(* The cleanup of the history (Cleanup).                                   *)
(***************************************************************************)
Moment == Nat \cup {History!Never}
Marks == {"read", "never written", "saved", "changed elsewhere"}
SettingsPage == [saved : Offered, draft : Offered, since : Marks]
PageIsOne == page = <<>> \/ \E p \in SettingsPage : page = <<p>>

CleanupTyped ==
    /\ now \in Nat /\ waiting \in Nat /\ waiting <= now
    /\ settings \in Offered /\ stored \in Offered
    /\ timer \in Moment /\ planned \in Moment /\ running \in Moment /\ last.started \in Moment
    /\ newest \in Moment /\ rows \subseteq Nat
    /\ PageIsOne

\* Runs and the settings they were planned with are counted from `waiting`.
CountedFrom ==
    /\ running # History!Never => running <= waiting
    /\ last.started # History!Never => last.started <= waiting
    /\ ~unwritten =>
         /\ settings = stored
         /\ planned # History!Never => planned <= History!Later(now, waiting + settings.interval)

\* The timer of a server whose settings were written.
TimerRuns ==
    up /\ ~unwritten =>
        /\ planned = timer
        /\ settings.interval > 0 => timer # History!Never
        /\ timer # History!Never /\ last.trigger = "schedule" /\ last.started # History!Never
             => timer >= last.started + settings.interval

NewestKept ==
    /\ \A r \in rows : r <= newest
    /\ newest # History!Never => newest \in rows /\ newest <= now

PageKept == page # <<>> /\ page[1].since \in {"read", "saved"} => page[1].saved = stored

CleanupInv == CleanupTyped /\ CountedFrom /\ TimerRuns /\ ~hasty /\ NewestKept /\ PageKept

LEMMA OfferedIs ==
    \A s \in Offered : s.days \in Nat /\ s.count \in Nat /\ s.interval \in Nat
  BY DEF Offered

LEMMA LaterIs ==
    ASSUME NEW a \in Int, NEW b \in Int
    PROVE  /\ History!Later(a, b) \in {a, b}
           /\ History!Later(a, b) >= a /\ History!Later(a, b) >= b
  BY DEF History!Later

LEMMA InitCleanup == MCInit => CleanupInv
<1> SUFFICES ASSUME MCInit PROVE CleanupInv
  OBVIOUS
<1>1. History!Init
  BY DEF MCInit
<1>2. CleanupTyped
  BY <1>1 DEF History!Init, CleanupTyped, PageIsOne, Moment
<1>3. CountedFrom /\ TimerRuns /\ ~hasty /\ NewestKept /\ PageKept
  BY <1>1 DEF History!Init, CountedFrom, TimerRuns, NewestKept, PageKept, History!Never
<1>4. QED
  BY <1>2, <1>3 DEF CleanupInv

\* The newest of the runs is the only one of its rank, and at least one is kept.
LEMMA NewestIsKept ==
    ASSUME CleanupTyped, NewestKept, NEW s \in Offered, newest # History!Never
    PROVE  newest \notin History!Old(s)
<1>1. {r \in rows : r >= newest} = {newest}
  <2>1. newest \in rows /\ newest \in Nat
    BY DEF CleanupTyped, NewestKept
  <2>2. \A r \in rows : r >= newest <=> r = newest
    BY <2>1 DEF CleanupTyped, NewestKept
  <2>3. QED
    BY <2>1, <2>2
<1>2. History!Rank(newest) = 1
  <2>1. History!Rank(newest) = Cardinality({newest})
    BY <1>1, Zenon DEF History!Rank, History!Cardinality, Cardinality
  <2>2. Cardinality({newest}) = 1
    BY FS_Singleton
  <2>3. QED
    BY <2>1, <2>2
<1>3. History!MinKeep(s) >= 1
  BY OfferedIs, LaterIs DEF History!MinKeep
<1>4. ~(History!Rank(newest) > History!MinKeep(s))
  <2>1. History!MinKeep(s) \in Int
    BY OfferedIs, LaterIs DEF History!MinKeep
  <2>2. QED
    BY <1>2, <1>3, <2>1
<1>5. QED
  BY <1>4 DEF History!Old

\* A deletion, or none.
LEMMA RowsKeep ==
    ASSUME CleanupInv, rows' = rows \/ rows' = rows \ History!Old(settings),
           UNCHANGED <<newest, now>>
    PROVE  NewestKept' /\ rows' \subseteq Nat
<1>1. newest # History!Never => newest \notin History!Old(settings)
  BY NewestIsKept DEF CleanupInv, CleanupTyped
<1>2. QED
  BY <1>1 DEF CleanupInv, CleanupTyped, NewestKept

\* The first run of a timer comes at once, or one interval after the last, or after it was
\* chosen, and then the wait is counted from now.
LEMMA FirstRunIs ==
    ASSUME CleanupInv, NEW i \in Nat
    PROVE  LET first == History!FirstRun(i)
           IN  /\ first \in Nat /\ first >= now
               /\ last.started # History!Never => first >= last.started + i
               /\ \/ first = now
                  \/ last.started # History!Never /\ first <= waiting + i
                  \/ /\ last.started = History!Never /\ planned # History!Never
                     /\ planned <= now + i /\ first = planned
                  \/ /\ last.started = History!Never /\ first = now + i
                     /\ planned = History!Never \/ planned > now + i
<1> DEFINE s == last.started
<1>1. s \in Moment /\ planned \in Moment /\ now \in Nat /\ waiting \in Nat
      /\ (s # History!Never => s \in Nat /\ s <= waiting) /\ (planned # History!Never => planned \in Nat)
  BY DEF CleanupInv, CleanupTyped, CountedFrom, Moment
<1> HIDE DEF s
<1>2. CASE s # History!Never
  <2>1. History!FirstRun(i) = History!Later(now, s + i)
    BY <1>2 DEF History!FirstRun, s
  <2>2. QED
    BY <1>1, <1>2, <2>1, LaterIs DEF s
<1>3. CASE s = History!Never /\ planned # History!Never /\ planned <= now + i
  <2>1. History!FirstRun(i) = History!Later(now, planned)
    BY <1>3 DEF History!FirstRun, s
  <2>2. QED
    BY <1>1, <1>3, <2>1, LaterIs DEF s
<1>4. CASE s = History!Never /\ ~(planned # History!Never /\ planned <= now + i)
  <2>1. History!FirstRun(i) = now + i
    BY <1>4 DEF History!FirstRun, s
  <2>2. QED
    BY <1>1, <1>4, <2>1 DEF s
<1>5. QED
  BY <1>2, <1>3, <1>4

LEMMA CompletesKeeps ==
    ASSUME CleanupInv, NEW trigger, History!Completes(trigger),
           UNCHANGED <<now, stored, settings, page, newest, unwritten>>, hasty' = FALSE,
           timer' \in Moment, planned' \in Moment,
           TimerRuns',
           ~unwritten /\ planned' # History!Never
             => planned' <= History!Later(now, now + settings.interval)
    PROVE  CleanupInv'
<1>1. running' = History!Never /\ waiting' = now
      /\ last' = [started |-> now, trigger |-> trigger]
      /\ (rows' = rows \/ rows' = rows \ History!Old(settings))
  BY DEF History!Completes, History!Finished
<1>2. NewestKept' /\ rows' \subseteq Nat
  BY <1>1, RowsKeep
<1>3. CleanupTyped'
  BY <1>1, <1>2 DEF CleanupInv, CleanupTyped, PageIsOne, Moment
<1>4. CountedFrom'
  <2>1. now \in Nat
    BY DEF CleanupInv, CleanupTyped
  <2>2. last'.started <= waiting'
    BY <1>1, <2>1
  <2>3. ~unwritten' => settings' = stored'
    BY DEF CleanupInv, CountedFrom
  <2>4. ~unwritten' /\ planned' # History!Never
           => planned' <= History!Later(now', waiting' + settings'.interval)
    BY <1>1
  <2>5. QED
    BY <1>1, <2>2, <2>3, <2>4 DEF CountedFrom
<1>5. PageKept'
  BY DEF CleanupInv, PageKept
<1>6. QED
  BY <1>2, <1>3, <1>4, <1>5 DEF CleanupInv

LEMMA FireKeeps == CleanupInv /\ History!Fire => CleanupInv'
<1> SUFFICES ASSUME CleanupInv, History!Fire PROVE CleanupInv'
  OBVIOUS
<1>1. up /\ timer # History!Never /\ timer <= now
      /\ UNCHANGED <<now, stored, settings, page, newest, unwritten>>
  BY DEF History!Fire
<1>2. hasty' = FALSE
  <2>1. timer \in Nat /\ now \in Nat /\ settings.interval \in Nat
    BY <1>1, OfferedIs DEF CleanupInv, CleanupTyped, Moment
  <2>2. last.started # History!Never => last.started \in Nat
    BY DEF CleanupInv, CleanupTyped, Moment
  <2>3. ~(~unwritten /\ last.trigger = "schedule" /\ last.started # History!Never
          /\ now < last.started + settings.interval)
    BY <1>1, <2>1, <2>2 DEF CleanupInv, TimerRuns
  <2>4. QED
    BY <2>3 DEF History!Fire, CleanupInv
<1>3. now \in Nat /\ settings.interval \in Nat
  BY OfferedIs DEF CleanupInv, CleanupTyped
<1>4. CASE /\ History!Completes("schedule") /\ UNCHANGED up
           /\ IF settings.interval = 0 THEN History!Disable
              ELSE timer' = now + settings.interval /\ planned' = timer'
  <2>1. /\ planned' = timer' /\ timer' \in Moment
        /\ settings.interval > 0 => timer' = now + settings.interval
        /\ settings.interval = 0 => timer' = History!Never
    BY <1>3, <1>4 DEF History!Disable, Moment
  <2>2. last'.started = now
    BY <1>4 DEF History!Completes, History!Finished
  <2>3. settings.interval > 0 => timer' # History!Never
    BY <1>3, <2>1 DEF History!Never
  <2>4. TimerRuns'
    BY <1>1, <1>3, <2>1, <2>2, <2>3 DEF TimerRuns
  <2>5. planned' # History!Never => planned' <= History!Later(now, now + settings.interval)
    BY <1>3, <2>1, LaterIs
  <2>6. QED
    BY <1>1, <1>2, <1>4, <2>1, <2>4, <2>5, CompletesKeeps
<1>5. CASE /\ History!Die /\ running' = now /\ waiting' = now /\ UNCHANGED <<planned, last, rows>>
  <2>1. ~up' /\ timer' = History!Never
    BY <1>5 DEF History!Die
  <2>2. CleanupTyped'
    BY <1>1, <1>5, <2>1 DEF CleanupInv, CleanupTyped, PageIsOne, Moment
  <2>3. last.started # History!Never => last.started <= now
    BY DEF CleanupInv, CleanupTyped, CountedFrom, Moment
  <2>4. ~unwritten /\ planned # History!Never => planned <= History!Later(now, now + settings.interval)
    <3> SUFFICES ASSUME ~unwritten, planned # History!Never
                 PROVE  planned <= History!Later(now, now + settings.interval)
      OBVIOUS
    <3>1. planned \in Nat /\ waiting \in Nat /\ waiting <= now
          /\ planned <= History!Later(now, waiting + settings.interval)
      BY DEF CleanupInv, CleanupTyped, CountedFrom, Moment
    <3>2. QED
      BY <1>3, <3>1, LaterIs
  <2>5. CountedFrom'
    BY <1>1, <1>3, <1>5, <2>3, <2>4 DEF CleanupInv, CountedFrom
  <2>6. TimerRuns' /\ NewestKept' /\ PageKept'
    BY <1>1, <1>5, <2>1 DEF CleanupInv, TimerRuns, NewestKept, PageKept
  <2>7. QED
    BY <1>2, <2>2, <2>5, <2>6 DEF CleanupInv
<1>6. QED
  BY <1>4, <1>5 DEF History!Fire

LEMMA RunNowKeeps == CleanupInv /\ History!RunNow => CleanupInv'
<1> SUFFICES ASSUME CleanupInv, History!RunNow PROVE CleanupInv'
  OBVIOUS
<1>1. /\ History!Completes("manual") /\ up
      /\ UNCHANGED <<now, stored, settings, up, timer, planned, page, hasty, newest, unwritten>>
  BY DEF History!RunNow
<1>2. last'.trigger # "schedule"
  BY <1>1 DEF History!Completes, History!Finished
<1>3. TimerRuns'
  BY <1>1, <1>2 DEF CleanupInv, TimerRuns
<1>4. ~unwritten /\ planned # History!Never => planned <= History!Later(now, now + settings.interval)
  <2> SUFFICES ASSUME ~unwritten, planned # History!Never
               PROVE  planned <= History!Later(now, now + settings.interval)
    OBVIOUS
  <2>1. planned \in Nat /\ waiting \in Nat /\ waiting <= now /\ now \in Nat
        /\ planned <= History!Later(now, waiting + settings.interval)
    BY DEF CleanupInv, CleanupTyped, CountedFrom, Moment
  <2>2. settings.interval \in Nat
    BY OfferedIs DEF CleanupInv, CleanupTyped
  <2>3. QED
    BY <2>1, <2>2, LaterIs
<1>5. timer' \in Moment /\ planned' \in Moment /\ hasty' = FALSE
  BY <1>1 DEF CleanupInv, CleanupTyped
<1>6. QED
  BY <1>1, <1>3, <1>4, <1>5, CompletesKeeps

\* A timer that is started: it comes in time and not before, whenever the wait began.
LEMMA StartedTimer ==
    ASSUME CleanupInv, NEW i \in Nat, NEW w \in Nat, w <= now, w = waiting \/ w = now,
           /\ last.started = History!Never /\ w # now
                => ~unwritten /\ i = settings.interval /\ planned # History!Never
    PROVE  History!FirstRun(i) <= History!Later(now, w + i)
<1>1. History!FirstRun(i) \in Nat
  BY FirstRunIs
<1>2. now \in Nat /\ waiting \in Nat /\ waiting <= now
  BY DEF CleanupInv, CleanupTyped
<1>3. CASE History!FirstRun(i) = now
  BY <1>2, <1>3, LaterIs
<1>4. CASE last.started # History!Never /\ History!FirstRun(i) <= waiting + i
  <2>1. waiting + i <= w + i
    BY <1>2
  <2>2. History!Later(now, w + i) \in Int /\ History!Later(now, w + i) >= w + i
    BY <1>2, LaterIs
  <2>3. QED
    BY <1>1, <1>2, <1>4, <2>1, <2>2
<1>5. CASE last.started = History!Never /\ w = now /\ History!FirstRun(i) <= now + i
  <2>1. History!Later(now, w + i) \in Int /\ History!Later(now, w + i) >= w + i
    BY <1>2, LaterIs
  <2>2. QED
    BY <1>1, <1>2, <1>5, <2>1
<1>6. CASE last.started = History!Never /\ w # now
  <2>1. planned \in Nat /\ planned <= History!Later(now, w + i)
    BY <1>6 DEF CleanupInv, CleanupTyped, CountedFrom, Moment
  <2>2. History!Later(now, w + i) <= now + i /\ History!Later(now, w + i) \in Int
    BY <1>2 DEF History!Later
  <2>3. planned <= now + i
    BY <1>2, <2>1, <2>2
  <2>4. History!FirstRun(i) = now \/ History!FirstRun(i) = planned
    BY <1>6, <2>1, <2>3, FirstRunIs
  <2>5. QED
    BY <1>3, <2>1, <2>4
<1>7. QED
  BY <1>1, <1>2, <1>3, <1>4, <1>5, <1>6, FirstRunIs

LEMMA StartServerKeeps == CleanupInv /\ History!StartServer => CleanupInv'
<1> SUFFICES ASSUME CleanupInv, History!StartServer PROVE CleanupInv'
  OBVIOUS
<1> DEFINE i == stored.interval
           first == IF running # History!Never THEN History!Later(now, running + i)
                    ELSE History!FirstRun(i)
<1>1. /\ up' /\ settings' = stored /\ ~unwritten'
      /\ UNCHANGED <<now, stored, rows, page, hasty, newest>>
  BY DEF History!StartServer
<1>2. /\ running' = History!Never
      /\ running # History!Never => last' = [started |-> running, trigger |-> "schedule"]
      /\ running = History!Never => last' = last
  BY DEF History!StartServer, History!Interrupted
<1>3. /\ i = 0 => timer' = History!Never /\ planned' = History!Never
      /\ i # 0 => timer' = first /\ planned' = first
  BY DEF History!StartServer, History!Disable
<1>4. waiting' = IF last.started = History!Never /\ (planned = History!Never \/ unwritten) THEN now
                 ELSE waiting
  BY DEF History!StartServer
<1>5. /\ now \in Nat /\ waiting \in Nat /\ waiting <= now /\ i \in Nat
      /\ running # History!Never => running \in Nat /\ running <= waiting
      /\ last.started # History!Never => last.started \in Nat /\ last.started <= waiting
  BY OfferedIs DEF CleanupInv, CleanupTyped, CountedFrom, Moment
<1>6. waiting' \in Nat /\ waiting' <= now /\ (waiting' = waiting \/ waiting' = now)
  BY <1>4, <1>5
<1>7. first \in Nat /\ first <= History!Later(now, waiting' + i)
      /\ (last'.started # History!Never => first >= last'.started + i)
  <2>1. CASE running # History!Never
    <3>1. first = History!Later(now, running + i) /\ last'.started = running
      BY <1>2, <2>1
    <3>2. first \in {now, running + i} /\ first >= running + i
      BY <1>5, <2>1, <3>1, LaterIs
    <3>3. History!Later(now, waiting' + i) \in Int /\ History!Later(now, waiting' + i) >= now
          /\ History!Later(now, waiting' + i) >= waiting' + i
      BY <1>5, <1>6, LaterIs
    <3>4. running <= waiting'
      BY <1>4, <1>5, <2>1
    <3>5. QED
      BY <1>5, <1>6, <2>1, <3>1, <3>2, <3>3, <3>4
  <2>2. CASE running = History!Never
    <3>1. first = History!FirstRun(i) /\ last' = last
      BY <1>2, <2>2
    <3>2. last.started = History!Never /\ waiting' # now
            => ~unwritten /\ i = settings.interval /\ planned # History!Never
      BY <1>4 DEF CleanupInv, CountedFrom
    <3> HIDE DEF i
    <3>3. History!FirstRun(i) <= History!Later(now, waiting' + i)
      BY <1>5, <1>6, <3>2, StartedTimer
    <3>4. QED
      BY <1>5, <3>1, <3>3, FirstRunIs
  <2>3. QED
    BY <2>1, <2>2
<1> HIDE DEF first
<1>8. History!Never \notin Nat
  BY DEF History!Never
<1>9. CleanupTyped'
  BY <1>1, <1>2, <1>3, <1>6, <1>7 DEF CleanupInv, CleanupTyped, PageIsOne, Moment
<1>10. CountedFrom'
  <2>1. last'.started # History!Never => last'.started <= waiting'
    BY <1>2, <1>4, <1>5
  <2>2. planned' # History!Never => planned' <= History!Later(now, waiting' + i)
    BY <1>3, <1>7
  <2>3. QED
    BY <1>1, <1>2, <2>1, <2>2 DEF CountedFrom
<1>11. TimerRuns'
  BY <1>1, <1>3, <1>5, <1>7, <1>8 DEF TimerRuns
<1>12. NewestKept' /\ PageKept'
  BY <1>1 DEF CleanupInv, NewestKept, PageKept
<1>13. QED
  BY <1>1, <1>9, <1>10, <1>11, <1>12 DEF CleanupInv

LEMMA StopServerKeeps == CleanupInv /\ History!StopServer => CleanupInv'
<1> SUFFICES ASSUME CleanupInv, History!StopServer PROVE CleanupInv'
  OBVIOUS
<1>1. /\ ~up' /\ timer' = History!Never
      /\ UNCHANGED <<now, stored, settings, planned, running, last, rows, page, waiting, hasty,
                     newest, unwritten>>
  BY DEF History!StopServer, History!Die
<1>2. CleanupTyped' /\ CountedFrom' /\ TimerRuns' /\ ~hasty' /\ NewestKept' /\ PageKept'
  BY <1>1 DEF CleanupInv, CleanupTyped, PageIsOne, CountedFrom, TimerRuns, NewestKept, PageKept, Moment
<1>3. QED
  BY <1>2 DEF CleanupInv

\* The settings are changed, on either page.
LEMMA UpdateKeeps ==
    ASSUME CleanupInv, NEW new \in Offered, History!Update(new), up, PageKept', PageIsOne'
    PROVE  CleanupInv'
<1> DEFINE i == new.interval
<1>1. settings' = new /\ UNCHANGED <<now, up, running, last, rows, hasty, newest>>
  BY DEF History!Update
<1>2. NewestKept' /\ ~hasty'
  BY <1>1 DEF CleanupInv, NewestKept
<1>3. /\ now \in Nat /\ waiting \in Nat /\ waiting <= now /\ i \in Nat
      /\ running # History!Never => running \in Nat /\ running <= waiting
      /\ last.started # History!Never => last.started \in Nat /\ last.started <= waiting
  BY OfferedIs DEF CleanupInv, CleanupTyped, CountedFrom, Moment
<1>4. CASE /\ stored' = new /\ UNCHANGED unwritten
           /\ IF new # settings THEN History!Start(i) ELSE UNCHANGED <<timer, planned>>
           /\ waiting' = History!WaitingAfter(stored.interval, i)
  <2>1. waiting' = IF last.started = History!Never /\ stored.interval # i THEN now ELSE waiting
    BY <1>4 DEF History!WaitingAfter
  <2>2. waiting' \in Nat /\ waiting' <= now /\ (waiting' = waiting \/ waiting' = now)
        /\ waiting <= waiting'
    BY <1>3, <2>1
  <2>3. last.started # History!Never => last.started <= waiting'
    BY <1>3, <2>1
  <2>4. running # History!Never => running <= waiting'
    BY <1>3, <2>2
  <2>5. CASE new = settings
    <3>1. UNCHANGED <<timer, planned>>
      BY <1>4, <2>5
    <3>2. ~unwritten => waiting' = waiting
      BY <2>1, <2>5 DEF CleanupInv, CountedFrom
    <3>3. CleanupTyped'
      BY <1>1, <1>4, <2>2, <3>1 DEF CleanupInv, CleanupTyped
    <3>4. CountedFrom'
      BY <1>1, <1>4, <2>3, <2>4, <2>5, <3>1, <3>2 DEF CleanupInv, CountedFrom
    <3>5. TimerRuns'
      BY <1>1, <1>4, <2>5, <3>1 DEF CleanupInv, TimerRuns
    <3>6. QED
      BY <1>2, <3>3, <3>4, <3>5 DEF CleanupInv
  <2>6. CASE new # settings
    <3> DEFINE first == History!FirstRun(i)
    <3>1. /\ i = 0 => timer' = History!Never /\ planned' = History!Never
          /\ i # 0 => timer' = first /\ planned' = first
      BY <1>4, <2>6 DEF History!Start, History!Disable
    <3>2. first \in Nat /\ (last.started # History!Never => first >= last.started + i)
      BY <1>3, FirstRunIs
    <3>3. ~unwritten /\ i # 0 => first <= History!Later(now, waiting' + i)
      <4> SUFFICES ASSUME ~unwritten, i # 0 PROVE first <= History!Later(now, waiting' + i)
        OBVIOUS
      <4>1. last.started = History!Never /\ waiting' # now => i = settings.interval
        BY <2>1 DEF CleanupInv, CountedFrom
      <4>2. i = settings.interval => planned # History!Never
        BY <1>3 DEF CleanupInv, TimerRuns
      <4> HIDE DEF i
      <4>3. QED
        BY <1>3, <2>2, <4>1, <4>2, StartedTimer
    <3> HIDE DEF first
    <3>4. History!Never \notin Nat
      BY DEF History!Never
    <3>5. CleanupTyped'
      BY <1>1, <1>4, <2>2, <3>1, <3>2 DEF CleanupInv, CleanupTyped, Moment
    <3>6. CountedFrom'
      <4>1. ~unwritten /\ planned' # History!Never
              => planned' <= History!Later(now, waiting' + i)
        BY <3>1, <3>3
      <4>2. QED
        BY <1>1, <1>4, <2>3, <2>4, <4>1 DEF CountedFrom
    <3>7. TimerRuns'
      BY <1>1, <1>3, <1>4, <3>1, <3>2, <3>4 DEF TimerRuns
    <3>8. QED
      BY <1>2, <3>5, <3>6, <3>7 DEF CleanupInv
  <2>7. QED
    BY <2>5, <2>6
<1>5. CASE unwritten' = TRUE /\ UNCHANGED <<stored, timer, planned, waiting>>
  <2>1. CleanupTyped'
    BY <1>1, <1>5 DEF CleanupInv, CleanupTyped
  <2>2. CountedFrom' /\ TimerRuns'
    BY <1>1, <1>5 DEF CleanupInv, CountedFrom, TimerRuns
  <2>3. QED
    BY <1>2, <2>1, <2>2 DEF CleanupInv
<1>6. QED
  BY <1>4, <1>5 DEF History!Update

LEMMA OtherSavesKeeps ==
    ASSUME CleanupInv, NEW new \in Offered, History!OtherSaves(new)
    PROVE  CleanupInv'
<1>1. CASE page = <<>>
  <2>1. page' = <<>>
    BY <1>1 DEF History!OtherSaves
  <2>2. PageKept' /\ PageIsOne'
    BY <2>1 DEF PageKept, PageIsOne
  <2>3. QED
    BY <2>2, UpdateKeeps DEF History!OtherSaves
<1>2. CASE page # <<>>
  <2>1. PICK p \in SettingsPage : page = <<p>>
    BY <1>2 DEF CleanupInv, CleanupTyped, PageIsOne
  <2> DEFINE q == [p EXCEPT !.since = "changed elsewhere"]
  <2>2. page[1] = p
    BY <2>1
  <2>3. page' = <<q>>
    BY <1>2, <2>2 DEF History!OtherSaves
  <2>4. q \in SettingsPage /\ q.since = "changed elsewhere"
    BY DEF SettingsPage, Marks
  <2> HIDE DEF q
  <2>5. page'[1] = q
    BY <2>3
  <2>6. PageKept' /\ PageIsOne'
    BY <2>3, <2>4, <2>5 DEF PageKept, PageIsOne
  <2>7. QED
    BY <2>6, UpdateKeeps DEF History!OtherSaves
<1>3. QED
  BY <1>1, <1>2

LEMMA SaveKeeps == CleanupInv /\ History!Save => CleanupInv'
<1> SUFFICES ASSUME CleanupInv, History!Save PROVE CleanupInv'
  OBVIOUS
<1>1. PICK p \in SettingsPage : page = <<p>>
  BY DEF History!Save, CleanupInv, CleanupTyped, PageIsOne
<1> DEFINE d == p.draft
           e == [p EXCEPT !.saved = d]
<1>2. page[1] = p /\ d \in Offered
  BY <1>1 DEF SettingsPage
<1>3. /\ up /\ History!Update(d)
      /\ page' = IF History!Accepted THEN <<[p EXCEPT !.saved = d, !.since = "saved"]>>
                 ELSE page
  BY <1>2 DEF History!Save
<1>4. /\ e \in SettingsPage /\ e.saved = d
  BY <1>2 DEF SettingsPage
<1>5. [p EXCEPT !.saved = d, !.since = "saved"] = [e EXCEPT !.since = "saved"]
  BY Zenon
<1> HIDE DEF e
<1>6. /\ [e EXCEPT !.since = "saved"] \in SettingsPage
      /\ [e EXCEPT !.since = "saved"].saved = d
  BY <1>4 DEF SettingsPage, Marks
<1>7. CASE page' = page /\ ~History!Accepted
  <2>1. stored' = stored
    BY <1>3, <1>7 DEF History!Update, History!Accepted
  <2>2. PageKept'
    BY <1>7, <2>1 DEF CleanupInv, PageKept
  <2>3. PageIsOne'
    BY <1>1, <1>7 DEF PageIsOne
  <2>4. QED
    BY <1>2, <1>3, <2>2, <2>3, UpdateKeeps
<1>8. CASE page' = <<[e EXCEPT !.since = "saved"]>> /\ History!Accepted
  <2>1. stored' = d
    BY <1>3, <1>8 DEF History!Update, History!Accepted
  <2>2. page'[1].saved = d
    BY <1>6, <1>8
  <2>3. PageKept'
    BY <2>1, <2>2 DEF PageKept
  <2>4. PageIsOne'
    BY <1>6, <1>8 DEF PageIsOne
  <2>5. QED
    BY <1>2, <1>3, <2>3, <2>4, UpdateKeeps
<1>9. QED
  BY <1>3, <1>5, <1>7, <1>8

\* The page is opened, closed or typed in.
LEMMA PageKeeps ==
    ASSUME CleanupInv,
           History!OpenPage \/ History!ClosePage \/ \E new \in Offered : History!Type(new)
    PROVE  CleanupInv'
<1>1. UNCHANGED <<now, stored, settings, up, timer, planned, running, last, rows, waiting, hasty,
                  newest, unwritten>>
  BY DEF History!OpenPage, History!ClosePage, History!Type
<1>2. PageIsOne' /\ PageKept'
  <2>1. CASE History!OpenPage
    <3> DEFINE since == IF settings = stored THEN "read" ELSE "never written"
               p == [saved |-> settings, draft |-> settings, since |-> since]
    <3>1. since \in Marks /\ (since \in {"read", "saved"} => settings = stored)
      BY DEF Marks
    <3>2. page' = <<p>>
      BY <2>1 DEF History!OpenPage
    <3> HIDE DEF since
    <3>3. p \in SettingsPage /\ p.saved = settings /\ p.since = since
      BY <3>1 DEF CleanupInv, CleanupTyped, SettingsPage
    <3> HIDE DEF p
    <3>4. page'[1] = p
      BY <3>2
    <3>5. PageKept'
      BY <1>1, <3>1, <3>3, <3>4 DEF PageKept
    <3>6. QED
      BY <3>2, <3>3, <3>5 DEF PageIsOne
  <2>2. CASE History!ClosePage
    BY <2>2 DEF History!ClosePage, PageKept, PageIsOne
  <2>3. ASSUME NEW new \in Offered, History!Type(new)
        PROVE  PageIsOne' /\ PageKept'
    <3>1. PICK p \in SettingsPage : page = <<p>>
      BY <2>3 DEF History!Type, CleanupInv, CleanupTyped, PageIsOne
    <3> DEFINE q == [p EXCEPT !.draft = new]
    <3>2. q \in SettingsPage /\ q.saved = p.saved /\ q.since = p.since
      BY <2>3 DEF SettingsPage
    <3>3. page[1] = p
      BY <3>1
    <3>4. page' = <<q>>
      BY <2>3, <3>3 DEF History!Type
    <3> HIDE DEF q
    <3>5. page'[1] = q
      BY <3>4
    <3>6. page # <<>>
      BY <3>1
    <3>7. PageKept'
      BY <1>1, <3>2, <3>3, <3>5, <3>6 DEF CleanupInv, PageKept
    <3>8. QED
      BY <3>2, <3>4, <3>7 DEF PageIsOne
  <2>4. QED
    BY <2>1, <2>2, <2>3
<1>3. CleanupTyped'
  BY <1>1, <1>2 DEF CleanupInv, CleanupTyped
<1>4. CountedFrom' /\ TimerRuns' /\ ~hasty' /\ NewestKept'
  BY <1>1 DEF CleanupInv, CountedFrom, TimerRuns, NewestKept
<1>5. QED
  BY <1>2, <1>3, <1>4 DEF CleanupInv

LEMMA RunStartsKeeps == CleanupInv /\ History!RunStarts => CleanupInv'
<1> SUFFICES ASSUME CleanupInv, History!RunStarts PROVE CleanupInv'
  OBVIOUS
<1>1. /\ rows' = rows \cup {now} /\ newest' = now
      /\ UNCHANGED <<now, stored, settings, up, timer, planned, running, last, page, waiting,
                     hasty, unwritten>>
  BY DEF History!RunStarts
<1>2. now \in Nat /\ newest \in Moment /\ rows \subseteq Nat
  BY DEF CleanupInv, CleanupTyped
<1>3. \A r \in rows : r <= now
  <2>1. CASE newest = History!Never
    BY <1>2, <2>1 DEF CleanupInv, NewestKept, History!Never
  <2>2. CASE newest # History!Never
    BY <1>2, <2>2 DEF CleanupInv, NewestKept, Moment
  <2>3. QED
    BY <2>1, <2>2
<1>4. NewestKept'
  BY <1>1, <1>2, <1>3 DEF NewestKept
<1>5. CleanupTyped'
  BY <1>1, <1>2 DEF CleanupInv, CleanupTyped, PageIsOne, Moment
<1>6. CountedFrom' /\ TimerRuns' /\ ~hasty' /\ PageKept'
  BY <1>1 DEF CleanupInv, CountedFrom, TimerRuns, PageKept
<1>7. QED
  BY <1>4, <1>5, <1>6 DEF CleanupInv

LEMMA PassesKeeps == CleanupInv /\ History!Passes => CleanupInv'
<1> SUFFICES ASSUME CleanupInv, History!Passes PROVE CleanupInv'
  OBVIOUS
<1>1. /\ now' = now + 1
      /\ UNCHANGED <<stored, settings, up, timer, planned, running, last, rows, page, waiting,
                     hasty, newest, unwritten>>
  BY DEF History!Passes
<1>2. now \in Nat /\ waiting \in Nat /\ waiting <= now /\ settings.interval \in Nat
  BY OfferedIs DEF CleanupInv, CleanupTyped
<1>3. CleanupTyped'
  BY <1>1, <1>2 DEF CleanupInv, CleanupTyped, PageIsOne
<1>4. CountedFrom'
  <2>1. ~unwritten /\ planned # History!Never
          => planned <= History!Later(now + 1, waiting + settings.interval)
    <3> SUFFICES ASSUME ~unwritten, planned # History!Never
                 PROVE  planned <= History!Later(now + 1, waiting + settings.interval)
      OBVIOUS
    <3>1. planned \in Nat /\ planned <= History!Later(now, waiting + settings.interval)
      BY DEF CleanupInv, CleanupTyped, CountedFrom, Moment
    <3>2. QED
      BY <1>2, <3>1 DEF History!Later
  <2>2. QED
    BY <1>1, <2>1 DEF CleanupInv, CountedFrom
<1>5. NewestKept'
  <2>1. newest # History!Never => newest \in Nat
    BY DEF CleanupInv, CleanupTyped, Moment
  <2>2. QED
    BY <1>1, <1>2, <2>1 DEF CleanupInv, NewestKept
<1>6. TimerRuns' /\ ~hasty' /\ PageKept'
  BY <1>1 DEF CleanupInv, TimerRuns, PageKept
<1>7. QED
  BY <1>3, <1>4, <1>5, <1>6 DEF CleanupInv

\* CleanupKept: a cleanup that is switched on comes one interval after the last one, or
\* after it was chosen, never later and never before, however often the server stops or
\* dies in it; it leaves a client its last run, whatever the settings; and the page of the
\* settings shows those that a restart finds.  Whatever the times, runs, edits and faults.
THEOREM CleanupComesAndKeeps == MCSpec => []CleanupKept
<1> DEFINE Inv == part = "cleanup" => CleanupInv
<1>1. MCInit => Inv
  BY InitCleanup
<1>2. Inv /\ [MCNext]_<<part, vars, leaseVars, cleanupVars>> => Inv'
  <2> SUFFICES ASSUME Inv, [MCNext]_<<part, vars, leaseVars, cleanupVars>>, part' = "cleanup"
               PROVE  CleanupInv'
    OBVIOUS
  <2>1. CASE part = "cleanup" /\ History!Next
    BY <2>1, FireKeeps, RunNowKeeps, StartServerKeeps, StopServerKeeps, SaveKeeps,
       OtherSavesKeeps, PageKeeps, RunStartsKeeps, PassesKeeps DEF History!Next
  <2>2. CASE UNCHANGED <<part, cleanupVars>>
    <3>1. CleanupInv /\ UNCHANGED cleanupVars
      BY <2>2
    <3>2. CleanupTyped'
      BY <3>1 DEF cleanupVars, CleanupInv, CleanupTyped, PageIsOne
    <3>3. CountedFrom' /\ TimerRuns' /\ ~hasty' /\ NewestKept' /\ PageKept'
      BY <3>1 DEF cleanupVars, CleanupInv, CountedFrom, TimerRuns, NewestKept, PageKept
    <3>4. QED
      BY <3>2, <3>3 DEF CleanupInv
  <2>3. QED
    BY <2>1, <2>2 DEF MCNext
<1>3. Inv => CleanupKept
  <2> SUFFICES ASSUME CleanupInv PROVE History!CleanupHolds
    BY DEF CleanupKept
  <2>1. History!ComesOnTime
    <3> SUFFICES ASSUME up, ~unwritten, settings.interval > 0
                 PROVE  /\ timer # History!Never
                        /\ timer <= History!Later(now, waiting + settings.interval)
      BY DEF History!ComesOnTime
    <3>1. QED
      BY DEF CleanupInv, CountedFrom, TimerRuns
  <2>2. History!PageShowsStored
    BY DEF CleanupInv, PageKept, History!PageShowsStored, History!IsDirty
  <2>3. newest # History!Never => newest \in rows
    BY DEF CleanupInv, NewestKept
  <2>4. QED
    BY <2>1, <2>2, <2>3 DEF CleanupInv, History!CleanupHolds
<1>4. QED
  BY <1>1, <1>2, <1>3, PTL DEF MCSpec
=============================================================================
