# Specifications of the Proxmox Backup Client Manager

TLA+ modules, TLC models and TLAPS proofs of the parts of this repository in
which something other than a single function can go wrong: an agent on each
backed-up host, a server, the sockets between them, and the dashboard that
shows and changes what both hold.

## The system

| Component | State it keeps | Operations | Hard because |
|---|---|---|---|
| Agent history (`client/src/repositories/JobHistoryRepository.ts`) | one file per run, an index in memory: status, revision, acknowledged revision | insert, update, prune, findUnsynced, markSynced, load | pruned by two bounds, acknowledged late, restarted at any point |
| History sync (`client/src/features/HistorySync.ts`) | active, flush timer, retry timer | start, stop, schedule, flush, acknowledge | at-least-once over sockets that close, while runs change |
| Connection (`client/src/core/Connection.ts`) | current socket, reconnect timer, pending requests | connect, attach, send, request, close | a replaced socket's handlers outlive it |
| Executor, process runner (`client/src/features/Executor.ts`, `execution/ProcessRunner.ts`) | running jobs, one pending run per job, live processes, aborts asked for, deferred checks | execute, queue, skip, abort, restore, restart | every exit path must free the slot exactly once; awaits in between |
| Scheduler (`client/src/features/Scheduler.ts`, `shared/src/schedule.ts`) | next and last run per job | tick, catch up, report missed | days of 23 and 25 hours, a crash between starting and storing |
| Tunnel client (`client/src/features/TunnelClient.ts`) | requests for a lease | acquire, release | gives up on a lease granted later |
| Agent files (`client/src/core/DataStore.ts`, `ConfigFile.ts`, `LegacyImport.ts`) | jobs, schedule states, identity | write, quarantine, import | kills and power cuts between two steps of a write |
| Registration (`Identity.ts`, `RegistrationState.ts`, `SetupPin.ts`; server `ClientRegistry`) | identity, mode, PIN, registration tokens | register, re-register, delete | two halves of one fact, stored by two processes |
| Agent session, client connector, connection watch (server) | the registered socket, dialled sockets, retry and grace timers | dial, attach, replace, close, report | a replaced socket closes after its successor opened |
| Message router, job history (server) | `job_history` | live update, history batch, acknowledge | two writers of a row, only one with a revision |
| Proxy service, job controllers | cached job lists, pending requests | list, save, delete, backfill, distribute | whole jobs written back from copies of different age |
| Repositories and credentials | rows, the copies of secrets and fingerprints in jobs and caches | edit, renew, distribute, measure | redacted copies that are completed on the way back |
| Tunnel service, lease | slots, SSH connections, forwards, leases | acquire, release, tear down, close | a slot given back on every path once |
| Webhook service | a queue per webhook | dispatch, retry, drop | bounded, lost on restart |
| Users and sessions | users, token versions, cookies, dashboard sockets | log in, change, delete, refresh | a socket is checked once, a token every time |
| Scheduled jobs, cleanup, settings | planned, running and last run; settings in memory and on disk | run, save, restart | a kill at any point, a write that fails |
| Secrets, migrations | the key in `config.yaml`, encrypted rows, the log of migrations | start, generate, migrate | kills between a commit and its log, hand edits |
| Status report | a cached check per repository | find, report | stale observations |
| Dashboard (`server/frontend`) | a cache of server data, forms, a socket | read, push, change optimistically, ask, save | answers, pushes and navigation in any order |

Components interact by calls inside a process, by messages over one WebSocket
per agent (`STATUS_UPDATE`, `SYNC_HISTORY`, `HISTORY_ACK`, `AUTH`, requests with
correlation ids), by timers, by files (agent) and SQLite (server), and between
server and dashboard by REST and pushes. All of it is single-threaded
JavaScript: a handler runs to its next `await`, which is the grain of the
actions here.

`PROJECT.json` lists under `hazards`, at the line where each bites, what is hard
to test in this code, and which property would notice it going wrong.

### What makes each part correct

- History and sync: nothing acknowledged that is not stored; nothing dropped
  that the server lacks, unless the bound forces it; every revision is stored in
  the end; agent and server agree; an end is reported once, and stays.
- Executor: one process per job at a time; a queued run starts or ends; every
  run with a row ends; nothing a run holds outlives it.
- Scheduler: no due run is passed over untold, none is started twice.
- Tunnel service: slots in use equal connections that exist; a lease leads over
  the connection its client has; slots are handed out in order.
- Link: one session per client; a lasting disconnect is reported once, a short
  one not at all; neither side stops trying.
- Jobs: what an operator saved lasts; a time is run once; the list shown
  converges to the agent's; a copy written back loses no secret.
- Registration: an agent and a server that share an identity agree on who dials.
- Sessions: no socket outlives its session, no revoked token comes back.
- Webhooks: a target gets its events in the order they were dispatched.
- Stores: what was stored can be read after any kill; no migration runs on what
  it has already changed.
- Dashboard: it shows what the server would answer, or the reason is a named
  one; unsaved work goes only by the operator's answer.

## Modules

| Module | Models | Proofs |
|---|---|---|
| `RunStatus`, `HistoryStore`, `HistorySync` | the agent's history, and how its runs reach `job_history` and the webhooks | `HistoryProofs` |
| `Delivery` | the promise of `HistorySync` | `HistoryProofs` |
| `Executor` | the runs of one agent from the request to the final status | `RunsProofs` |
| `JobQueue` | the promise of `Executor` | `RunsProofs` |
| `TunnelService` | the server's SSH connections, slots, forwards and leases | `TunnelProofs` |
| `SlotPool` | the promise of its slots | `TunnelProofs` |
| `AgentLink` | the connection of an agent: who dials, authenticates, replaces, tries again | `LinkProofs` |
| `Presence` | the promise of the reports about it | `LinkProofs` |
| `LeaseRequest` | what a run's lease leads to, from the job's configuration to the release | `RunsProofs` |
| `Schedule`, `Scheduler` | the calendar as functions; the agent's loop over them | `AgentProofs` |
| `AgentFiles` | the agent's files, write by write | `AgentProofs` |
| `JobConfig` | the jobs of an agent and every copy of them | `StoresProofs` |
| `Credentials` | secrets, keys and fingerprints in repositories, jobs, caches and forms | `WebProofs` |
| `Registration` | identities, tokens, and who dials | `WebProofs` |
| `Webhooks` | queues, attempts, drops | `WebProofs` |
| `Sessions` | users, cookies, dashboard sockets | `DashboardProofs` |
| `Attention` | the findings of the status report | `HistoryProofs` |
| `Cleanup` | the cleanup of the server's history, its timer and its settings | `RunsProofs` |
| `Secrets` | the server's key, the stored secrets, the migrations | `StoresProofs` |
| `Dashboard` | the newest run and the unseen count of a tab | `DashboardProofs` |
| `QueryCache` | one list of a tab | `StoresProofs` |
| `TunnelCard` | the form of a client's tunnel | `HistoryProofs` |
| `Editors`, `RestoreForm` | the editors and the restore form of the dashboard | `StoresProofs` |

Parts that share no state are checked in one run: an MC module (`MCRuns`,
`MCServer`, `MCServerWeb`, `MCAgent`, `MCStores`) has a variable `part` that says
which of them a behaviour is about, so that the others do not multiply its
states. `MCExecutor`, `MCHistorySync` and `MCTunnelService` only give values to
constants.

How the modules meet: what `Executor` does to a row is what `HistorySync` takes
as its input (`Enqueue`, `Start`, `Name`, `Finish`, ...), in every order
`Executor` can produce and a few more. `TunnelGranted` and `TunnelRefused` of
`Executor` are the two answers a request of `TunnelService` comes to, and
`LeaseRequest` is what lies between them on both sides. `AgentLink` says which
sockets there are, `HistorySync` what they carry. `Scheduler` decides when
`Executor` is asked to start; `JobConfig` has the schedule as one number and the
traffic around it. `HistorySync` hands the end of a run to `Webhooks`, and the
rows it writes are what `Dashboard`, `Attention` and `Cleanup` read.

In every module, definitions marked *Mutant* are variants of the definition
below them with a plausible mistake. No specification uses them; `PROJECT.json`
says which property notices which.

## How the modules correspond to the code

### HistorySync

| In the module | In the code |
|---|---|
| `hist` | `JobHistoryRepository` of the agent: the index and the files, written together |
| `conn`, `opened`, `agentEnds` | `Connection.wsInstance`, and sockets whose handlers still run |
| `active`, `flushTimer`, `retryTimer` | the fields of `HistorySync` |
| `toServer`, `toAgent` | what a socket carries, in order, until its end closes |
| `registered` | the socket `ProxyService` holds for the agent |
| `table` | `job_history`: `status` and `revision` |
| `reports` | what `finishedRun` handed to the webhooks (history variable) |
| `post`, `deferred`, `checking` | runs the executor will still write to |
| `Enqueue`, `RecordUnstarted`, `Reinsert`, `Start`, `FailBeforeStart`, `AbortQueued`, `Name`, `Finish`, `PostScript`, `SettleDeferred` | the writes of a run with the live update each sends |
| `Restart` | a new process: `load`, which prunes, and `cleanupRunningJobs` |
| `Open`, `AgentClose`, `ServerClose` | a socket, and the `close` handlers of its two ends |
| `HandleAuth`, `HandleStatusUpdate`, `HandleSyncHistory` | `AgentSession`, `AgentMessageRouter` with `upsertStatus` and `upsertHistoryBatch` |
| `HandleAuthSuccess`, `HandleHistoryAck`, `Timer` | `HistorySync.start`, `acknowledge`, `flush` |

A handler is one step, for neither side awaits between reading and writing.
Times are a clock that ticks with each write that stamps a row. Live updates of
states that are not terminal are left out, for the server stores none of them.
A row the server's schema refuses is a member of `Malformed`.

### Executor

| In the module | In the code |
|---|---|
| `runningJobs`, `pendingJobs`, `deferred` | the fields of `Executor` |
| `timers` | the `setTimeout`s of `releaseJobSlot` and `resumeQueuedJobs` |
| `live`, `aborting` | `ProcessRunner.live` and `abortRequested` |
| `pc` | the await at which `executeBackup` or `executeRestore` is |
| `row`, `named` | the row in the history, and whether it names a snapshot |
| `leases`, `keyfiles` | what a run holds outside the process |
| `told` | runs whose abort was granted (history variable) |
| `Refuse`, `Skip`, `Enqueue`, `Take` | the ways through `executeBackup` up to its first await |
| `PrepareFails`, `StartClient`, `TunnelGranted`, `TunnelRefused` | `runProxmoxClient` up to `spawn` |
| `Close`, `SnapshotRead`, `SpawnError`, `CloseAfterError`, `PostScriptEnds` | the handlers of the process, the snapshot query and the post-script |
| `AbortRun` | `Executor.abortRun`, with `ProcessRunner.abort` |
| `Restart`, `Settle`, `FinishStart`, `CheckDeferred` | a new process, `cleanupRunningJobs`, `resumeQueuedJobs`, `checkDeferredBackups` |

`SpawnOutcomes` says what `spawn` may come to: `cli` (the process runs),
`erring` (it cannot be started and raises `error`, then `close`), `stuck` (it
throws). `Outbound` says who dials: an agent that dials does so once it has
settled its history; one that is dialled is served from the start.

### TunnelService and LeaseRequest

| In the module | In the code |
|---|---|
| `tunnels`, `ssh`, `connectPromise`, `holdsSlot`, `idleTimer` | the map and the fields of its `ClientTunnel`s |
| `forwards`, `forwardPromises` | the maps of a `ClientTunnel`, by target |
| `openConnections`, `waiting`, `woken` | the count of slots, its queue, the waiter whose promise was resolved just now |
| `conn`, `asked`, `on` | `ssh2`'s own state: each connection, the forwards it owes an answer |
| `detached` | connections and forwards whose `ClientTunnel` was removed from the map |
| `pc`, `via` | each `acquire`, and the shared promise it waits for |
| `Refuse`, `AcquireOnOpen`, `AcquireOnOpening`, `AcquireNew` | `acquire` up to what it waits for |
| `SlotTimeout`, `SlotHanded`, `ConnectFails`, `Ready` | `acquireSlot` and `connectShared` |
| `ForwardOpened`, `ForwardRefused` | `forwardShared` |
| `Release`, `Disconnect`, `IdleTeardown`, `CloseClient` | `release` and the timer of `maxLeaseMs`, the agent's disconnect, the idle timer, `closeClient` |
| `ConnectionEnds`, `ForwardsFail` | the `end` and `close` events with `handleConnectionLost`, and what ssh2 fails with them |

A request names the connection and the forward it was the first to ask for, so
that neither needs identities of its own. `ssh2` is external: of it the model
takes that a connection raises `ready` or an error once, that `close` comes
after `end`, and that a forward is answered once, at the latest after `close`.
`LateEvents`, `CloseAnytime` and `Refusals` are the settings under which the
properties fail; what they stand for is said under *Findings*.

`LeaseRequest` is the way of a run to such a lease: jitter, request, what
`handleAcquire` does between its awaits (the job refresh, the certificate
probe, `acquire`), time-out, preflight, release. `adrift` are leases whose
answer or release got lost: the comment at `TunnelClient.ts:20-23` compares its
25 s with the server's queue alone, so an agent may give up first, and the
lease then lasts until `maxLeaseMs`.

### AgentLink

A socket has an end on either side, each with its events in order: `ServerStep`,
`AgentStep`, and `Mishap` for a break the other end learns of later. The
operator's part is `Operator` (reconnect, address change, deletion,
registration anew); delays are actions that may come at any time after their
timer is set (`ReconnectDue`, `GraceOver`, `AttemptTimesOut`,
`AgentReconnectDue`). What a socket carries is `HistorySync`'s and `JobConfig`'s.

### The others

| Module | Variables and actions in the code |
|---|---|
| `Schedule` | `NextRunAfter`, `NextRunPast`, `UpcomingRuns` and their helpers are the functions of `schedule.ts`, over a calendar with a day of one hour less and one of one hour more |
| `Scheduler` | `Look` is `Scheduler.tick` for one job, `SaveOn`/`Toggle` what `handleJobSave` does to its schedule state, `Stop`/`Start` the process |
| `AgentFiles` | `SyncTemporary`, `RenameTemporary`, `EndWrite` are the steps of `writeJsonFile`; `ReadIdentity` to `Load` those of a start; `Kill`, `LosePower`, `Damage` what may come between |
| `JobConfig` | a request of the server is a process that awaits one answer (`procs`); `ServerReceive`, `TimesOut` and the end of a session run the rest of it; `toAgent`, `toServer` are the messages on the session; `AgentReceive` is the agent's handler with its write |
| `Credentials` | `repository` (the row), `job` (the agent's), `cached` (the server's copy), `served` (what the browser has), `editor` and `form` (what operators edit); `RollOut` distributes, `GoOnSaving` is the half of a save after its await |
| `Registration` | per agent the identity in memory and in the file, URL, mode; per client its row; `flight` are registrations whose answer is under way, in the order of their awaits |
| `Webhooks` | `Dispatch`, `Deliver` (an attempt with its retry or drop), `Edit`, `RestartServer`; a queue carries the webhook as it was at dispatch |
| `Sessions` | users with `token_version`, browsers with their cookies, an answer under way per request; `Handshake` checks the cookie once, `Closed` is the page's reaction to the close code |
| `Attention` | `backupFindings` over the server's cached list and history against what is so on the agent; `Ask`/`Answer` are a reader that shares the cached check |
| `Cleanup` | `Fire`, `RunNow`, `StartServer` of `ScheduledJob`; `Save`, `OtherSaves` of `SettingsService` with its write; the history of one client |
| `Secrets` | `Load` to `Up` are a start of the server; `Rebuild`, `Rebuilt`, `ProtectSecrets` migrations 3, 4 and 18 |
| `Dashboard` | `entry` is the cache entry `shown` names; `OnJobUpdate`, `OnHistorySeen` the pushes, `Arrive` a REST answer, `MarkAll`, `MarkRun` the marks |
| `QueryCache` | one entry of the query cache, for each of the lists: how it is read, told of, changed at once and put back (`Ways`, `Ops`) |
| `TunnelCard` | the draft, the test, and the row in `client_tunnels`, with the answers between |
| `Editors` | `useEntityForm` and `useUnsavedChangesGuard` under the five editors, which differ in whether another entity starts the form over (`keyed`), a save stays on the page (`stays`) and locks the fields (`locked`) |
| `RestoreForm` | `SnapshotRestoreEditor`: the draft, the file browser and its listings, the question, and the message of the answer |

External code is modelled from its use: `ssh2` in `TunnelService`, TanStack
Query in `QueryCache`, the browser's cookie jar in `Sessions`, the file system
in `AgentFiles`, an OIDC provider as one step.

## The runs

TLC checks each exhaustively. Deadlock is not checked: the sockets, restarts
and requests of an instance are bounded, so every instance comes to rest.

| Run | Question | Instance |
|---|---|---|
| `sync_delivery` | Is what the agent takes for acknowledged stored, and does nothing go back, even when a replaced socket delivers late? Is this `Delivery`? | one run that may be written anew, two sockets, one failed write, one restart |
| `server_parts` | Do agent and server agree on an acknowledged run, was its end reported, once, and does it stay ended? Are findings no false alarm, and is what is wrong found? Were a tunnel's stored credentials seen to work? | one run in all its final states; one job, four events, four units of time; two hosts, two events of others |
| `sync_prune` | Does a bounded history drop only what may be dropped, and does a row the server refuses hold up the others? | two runs, one refused; a history of one; batches of one |
| `sync_live` | Does everything get there in the end? | one run, two sockets, one failed write, one restart |
| `executor_runs` | One process per job, no run forgotten as queued or running, no end undone, no abort ignored? Is this `JobQueue`? Do leases lead where an operator said, while they are wanted? Does the cleanup do what the settings say? | three runs of one job, a restore, a restart at any point, `spawn` may throw; a backup and a restore over two sessions; two rows, two edits, two faults |
| `executor_live` | Is everything given back and every run ended? | two runs of a job, a restore, a restart, processes that do not start |
| `tunnel_slots` | Is the limit kept, the count right, every lease usable? Is this `SlotPool`? Is every request answered and every slot given back? | four requests of three clients for one slot, one disconnect, one `closeClient` |
| `link_sessions` | One session and one connection; is absence reported as `Presence` says; does nobody stop trying, and does a session that is not dialled twice last? | both modes, two sockets, a fault, two operator actions, a restart of either side |
| `agent_parts` | Are the runs those the schedule was entered for, and the late ones told? Do the files survive the end of a process at any step? | five schedules over both odd days, two saves, an outage, a fault; an old and a new job, two identities, two ends, a failed write, a damaged file |
| `server_web` | Does a socket outlive its session? Can agents and server meet? Do events arrive in order? Does a tab show what the server would answer? Do runs pin what somebody vouched for, and do saves keep secrets apart? | two browsers, two users; two agents, two clients, two tokens; two webhooks, three events; two runs and one trouble; two certificates, two secrets, five changes |
| `job_lists` | Does the server's list converge to the agent's, do saves last, are times run once? Does a list on screen show every change, are stored secrets readable after any kill, is unsaved work kept, does a restore run as it was confirmed? | one job, two requests at a time; two changes of a list; three keys, kills and hand edits; two forms, a save, a deletion; two clients, two directories |
| `executor_error` | A promise in a comment that the code breaks; see *Findings* | three runs of a job |

Why the bounds are enough for what they are meant to show:

- *One run* in the sync runs: the server's statements and the agent's
  acknowledgement treat rows independently; rows meet only in pruning and in
  the limit of a batch, which `sync_prune` has two rows and limits of one for.
- *Two sockets*: a replaced one and its successor. All that a third could do is
  be replaced too. The last one stays up, as a network that fails for ever
  delivers nothing.
- *`MaxQueue` 2*: timers send only while fewer messages are under way, so a
  batch and a copy of it with a higher revision are under way together.
- *One failed write and one restart*, at any point: both return to states an
  instance starts from, and a second one meets what a first one met.
- *Three runs of a job*: one holds the slot, one is queued, one is skipped. A
  restore is the run that has no slot and shares everything else.
- *One slot, three clients*: a holder, a queue of two, and two requests that
  share a connection. `TunnelProofs` has no such bound.
- *One job, two processes* in `job_lists`: a read that is answered late is
  raced by one write, and a save by the backfill or the distribution. Jobs meet
  only in whole lists; what two backfills do to each other takes more of them,
  and was looked at with two jobs, two edits and two faults (see *Findings*).
- *Three of everything* in the store of secrets: a key that is lost, its
  successor, and one entered by hand.
- *Two of each actor* elsewhere: what the properties speak of is one actor's
  state against another's message; the bounds on changes are the numbers at
  which the states no longer show anything new while the run stays small.

### Fairness

Only what the event loop, timers and the operating system bring about is fair,
always weakly: a step that stays possible is taken. In `HistorySync`: handlers
run when a message is there, an armed timer fires, a dead end is noticed (the
server's heartbeat, the agent's `close` event), and the agent dials again after
a `close` (or the server does, whose connector retries for ever). In
`Executor`: delays pass, scripts, queries and processes end, the server answers
a lease request or the agent's time-out does, and after a restart the connection
comes up. In `TunnelService`: promises settle, the timers of slot, connection
(`readyTimeout`), lease (`maxLeaseMs`) and idle grace fire, the sshd answers a
forward, and a connection that was ended closes. In `AgentLink`: ends handle
their events, and the timers of reconnects, attempts and grace fire. In
`JobConfig`: both ends handle their messages and a request that is not answered
times out. No fairness is assumed of requests, operators, aborts, restarts,
closes of a healthy socket, disconnects, or of an abort's kill succeeding: a
process ends because processes end.

## What is proved

Modules of proofs, for every value of the constants the `ASSUME`s allow: any
number of runs, jobs, sockets, clients, users, restarts and failures, any batch
size, retention and limit. `PROJECT.json` lists the theorems with the
hypotheses each has.

### HistoryProofs

| Theorem | States |
|---|---|
| `TypeCorrect` | `Spec => []TypeOK` |
| `AckedIsStored`, `AcksMean` | `AckedRevisionStored`, `AcksAreTrue` |
| `RevisionsRise` | `Spec => RevisionNeverFalls` |
| `DroppedRightly` | `Spec => DroppedOnlyWhenFull` |
| `Refinement` | `Spec => DeliversHistory`: `HistorySync` implements `Delivery` |
| `RunsAgree` | `AckedRunAgrees` |
| `EndsAreReported` | `EndReportedOnce` |
| `EndsStay` | `EndedStaysEnded` |
| `TunnelsAreSeenToWork` | `TunnelKept` |
| `ReportsAreTrueAndComplete` | `AttentionKept` |

`AckedRevisionStored` is not inductive: an acknowledgement that is under way
could name any revision. The invariant `IInv` therefore types a message by what
may be under way *now*: a batch names revisions the agent has written at some
time (`Batches(latest)`), an acknowledgement revisions the table has
(`Acks(table)`). Both sets only grow, as `latest` and the table's revisions
do, which is what keeps messages typed while others step
(`SendableMonotone`, `AnswersMonotone`). The other two conjuncts,
`HistoryBound` and `TableBound`, say that nobody is ahead of `latest`.
`latest` and not the row's revision is the bound because a run written anew
starts at revision 1 again: it is the highest revision ever written, and the
acknowledgement may be ahead of the row. The lemmas about `HistoryStore` say of
each write that it adds, rewrites or drops rows and moves revisions forward;
there is one lemma per action after them.

`DroppedRightly` is about the two bounds of the agent's history. What pruning
gives up has `MaxUnsynced` younger rows that wait, but those may be given up in
the same step. `EnoughStay` shows that enough of them stay: of those given up
that are younger, the one with the fewest younger still (`Least`, a set of
naturals has a least element) has `MaxUnsynced` of them, and none of these is
given up. Besides `IInv` the invariant says that there are finitely many rows and
none is newer than the clock (`Counted`), so that a row is never given up by the
step that writes it; a row pruned because it was acknowledged is in the table by
`AckedRevisionStored`.

`RunsAgree`, `EndsAreReported` and `EndsStay` are about the *status* in the server's table, which a live update
writes without a revision. What protects it is the order in which things are
sent, so the invariant says of everything under way of a run, on the current
socket, in which order its states are told, and that the table together with
what is under way leads to what the agent has. Hypotheses: `Reinserted = {}`
and `~LateDelivery` (a replaced socket is cut), without which TLC shows the
properties violated, see *Findings*, and `MaxUnsynced > 0` (a run's row outlives
the pruning that follows its insertion).

`TunnelsAreSeenToWork` is about the other part of `MCServer` that stores what was told,
`TunnelCard`. Fingerprints that were reported cannot be taken back, so a row, a
request to store one and what the card says may pin what was (`CallHolds`,
`SaysTrue`); a row that is written anew needs to be proved, and a row that
changes has been. Its one assumption (`CardAssumption`) is that a host has an
address and a locked key differs from a plain one.

`ReportsAreTrueAndComplete` is about `Attention`. `AttentionHolds` compares a
report with what was so when its reader asked, which may be some time ago, so
the invariant (`AInv`) says of the present and of what a reader has read alike
that it fits together (`Fitting`): the server's list is the agent's, or a list is
under way whose last is (`NewsHold`), and a job is past its time only because
nobody looked (`TimesHold`). When the repository was last up and last down bound
what the last check may have said (`ChecksHold`).

### RunsProofs

| Theorem | States | Assumes |
|---|---|---|
| `TypeCorrect` | `TypeOK` | |
| `PendingWaitsForSlot`, `QueuedRunsAreKept`, `RunningRunsAreOwned`, `EverythingIsGivenBack`, `RunsAreAccountedFor` | the parts of `RunsAccounted`, and all of it | |
| `MutualExclusion` | `OneProcessPerJob` | no process raises `error` |
| `FinalStays` | `EndedStaysEnded` | the agent dials |
| `QueueImplemented` | `ImplementsJobQueue` | both |
| `AbortsHold` | `AbortedNeverStarts` | the agent dials |
| `RunsAndLeasesAgree` | `LeasesKept` | |
| `CleanupComesAndKeeps` | `CleanupKept` | |

`Kinds` first reduces the steps to eight kinds and the three of a restart:
whatever the reason, a run ends through `EndRun` and reaches its process
through `Spawn`. `Kept` is the invariant of all settings. In it,
`PendingHasHolder` and `QueuedIsKept` need each other (`Queue`): a queued row is
kept because it is pending, and it stays kept when the slot is released only
because the same step arms its timer. `MutualExclusion` rests on `SlotInv`: a
run between `Take` and its exit holds the slot, *and* no two runs of a job are
there, without which a release could free the slot under the other one. It is
the invariant `executor_error` violates when a process raises `error` and
`close`, hence the assumption. `FinalStays` rests on `LineInv`, that a run is in
one place at a time: it has one timer, or is pending, or executes, and a run
with a final status is nowhere. An agent that is dialled during its cleanup
violates it, see *Findings*. The refinement then maps each step to a step of
`JobQueue` or to a stutter, `Restart` to `Crash`.
`AbortsHold` keeps of every granted abort that its run is marked and has yet to
come to the check, has its process already, or is over (`AbortInv`).

`LeaseInv` is about a lease that may be asked for, granted, answered, released
and cut off by messages that are all under way at once. `AsksOnce` says that a
run has one request or one answer or one lease under way and none before it
asks, `LeasesFit` that an answer tells what there is and that whatever is held
is held for somebody, `TargetsKept` which hosts may be named in them.

`CleanupInv` counts everything from the moment the interval began to run, at
the start, a run or a choice: what is planned is at most one interval after it
(`CountedFrom`), and a timer that runs is the one planned (`TimerRuns`).

### TunnelProofs

| Theorem | States |
|---|---|
| `LimitIsKept` | `SlotsHold` |
| `LeasesAreUsable` | `LeasesHold` |
| `PoolImplemented` | `ImplementsSlotPool` |

One invariant carries all three: the count of slots is the number of tunnels
that hold one, a tunnel that is being opened or open holds one, whoever waits
is a request that has none, and what `ssh2` has of a connection is what the
entry in the map says of it. Hypotheses: `~LateEvents` (the `close` of an ended
connection comes before the next one is opened) and `~CloseAnytime` (nobody
closes a client that is being connected). Without them the limit fails, see
*Findings*; the number of clients, requests, slots and targets is arbitrary.
`LeasesAreUsable` holds with and without `Refusals`.

### LinkProofs

| Theorem | States |
|---|---|
| `LinkIsHeld` | `LinkHolds` |
| `PresenceImplemented` | `ReportsPresence` |

`HandshakeKept` says which ends of a socket may be in which stage together, so
that a session belongs to a socket both sides know; `DialKept` that a dial under
way has a timer or an answer coming, so that nobody stops trying. The
refinement maps a session to `online` and the grace timer to `told`; swapping
one socket for another changes neither.

### DashboardProofs

| Theorem | States |
|---|---|
| `RevokedTokens` | `RevokedStaysRevoked` |
| `NoSocketOutlives` | no socket is open past its session |
| `PagesGiveUpRightly` | `SessionsKept`, under `Timely` |
| `TabsShowWhatIsSo` | `TabAgrees` |

`Issued` bounds every token under way, in a cookie or on a socket by its user's
row: an id below `nextId`, a version at most the row's. As ids are handed out
once and versions only rise, what is not valid stays so. A page that gives up
on its socket must have a cookie that is over: `PagesKept` follows which cookie
the socket carried and which newer one may be on its way. It needs `Timely`, an
answer to a user's own change is handled before the page connects again (3 s)
and not in the middle of a handshake; without it a page may stay dead although
its cookie was renewed.

`TInv` is about a tab. `Right` is what its entry should hold by the agent, and
the invariant says of the entry, of each answer under way (`EntryHolds`,
`AnswerHolds`) and of the pushes on their way (`QueueHolds`) that they hold or
bring it, or are on record as having missed it. Of the pushes only the last
that bears on the entry counts, so a change is a push that bears and tells, or
one that leaves all of them meaning what they did (`PushedKeeps`,
`UnmovedFollows`). `Stale` is a change nobody was told of yet, made while the
agent was offline; the sync that brings it puts it on record. `DownsHold` is
why the re-read of the reconnect is enough.

### WebProofs

| Theorem | States | Assumes |
|---|---|---|
| `TokensRegisterOnce` | a token registers one agent, and no session outlives its auth token | |
| `AgentAndServerMeet` | `ClientsKept` | the URL can be written; an agent is registered by one operator at a time |
| `EventsArriveInOrder` | `DeliveriesKept` | |
| `CredentialsGoRound` | `CredentialsKept` | |

For registration the invariant relates the two halves of each fact: ids that
are dialled have one holder, an agent that is dialled has no URL, and files hold
what the process holds except an identity that could not be written
(`RowsKept`, `FlightsKept`, `LinksKept`, then `TurnsKept`, `FilesKept`,
`HoldersKept`). Both hypotheses are needed: `server.ts:226-228` lets two
registrations of one agent overlap, and a URL that cannot be written is only
warned of. For webhooks, what waits was dispatched after what arrived, in order.
For credentials (`CInv`), a copy goes round: the agent's, the cached one, one in
a form and one on its way each come from another, so all of them must have the
secret of the repository they name, a fingerprint somebody vouched for and a key
if they encrypt (`CopiesKept`); what a form sends has less, and
`Completed` makes it whole (`FormsKept`).

### StoresProofs

| Theorem | States |
|---|---|
| `RestoresRunAsConfirmed` | `RestoreKept` |
| `EditorsKeepWhatIsTyped` | `EditorsKept` |
| `SecretsCanBeRead` | `SecretsStored` |
| `PagesShowEveryChange` | `ListsKept` |
| `SavesLastAndRunOnce` | `EditsHold` |
| `CacheIsTheAgents` | `CacheFollowsAgent` |

The parts of `MCStores` share no state, and each has its own invariant.
`RestoreInv` follows a request from the form over the dialog to the server:
requests are told apart by their number, none gets further than the one before
it, and what this page asks is its draft unless a later change is on record.
`EditorsInv` does so for forms and their calls, and keeps what every entity ever
held, as a late answer may come to a form opened anew. `SecretsInv` says when
the key in memory is the file's (`KeyFollowsFile`, which is where a kill between
two writes matters) and which migration may be on record (`Protected`).
`ListInv` says of every change of a list that the cached entry has it, or a push,
a read or an answer under way brings it, or it is on record as overlooked; a list
that is pushed whole is followed by all that is later (`ToldInOrder`), without
which taking it could lose a change.
`JobsInv` is in two halves. The agent's says that file and memory agree, that a
version on disk is the one saved last or the job is on record as copied over,
and that every time a job started for is past (`SavesLast`, `TimesKept`). The
server's says of whatever is under way that a message waits for one process, a
list is told only to one that asked for it (`Fits`), what a process has yet to
go through is in its list (`TodoOf`), and every copy of a job has one of its
known times: those it started for and one it has not (`OneStart`), unless it was
set back.
`CacheInv` is about a session in which nothing timed out. A list is asked for,
or will be (`ListComing`), or of what is on its way to the server the last list
is right (`TrueJob`), the last message with a job's time has the one the agent
has (`TrueTime`), and without any of them the cache is right already (`LastIs`).
A stamp is the one write no list follows. It is harmless as it is a copy: if it
is not an older one, it changes nothing of the job but the id, and by `OneStart`
its time is the job's or one that puts it on record as set back.

### AgentProofs

| Theorem | States |
|---|---|
| `FilesSurvive` | `FilesAreKept` |
| `ScheduleStays` | `ScheduleKept` |
| `RunsStandForTimes` | `RunsAreTold` |

A power cut leaves of each file any content in `safe`, so the invariant (`FInv`)
says of all of these what it says of the file a process reads. A content *keeps*
the jobs when every job the agent owes is in it, in a file set aside or still in
the legacy database (`Keeps`), damaged or not; in a file nobody damaged it is
also right: it has all of them itself and none that was deleted (`Fits`).
`JobsFit` says what a missing jobs.json may mean, a fresh installation or one not
imported yet, `StatesFit` that jobs never come without the times they are due at,
as these are imported first, `IdentityFits` that until the identity is stored
config.yaml has it. `Belongs` ties a write to the stage of the process it is
part of.

The two theorems about `Scheduler` hold for any day of more than two hours, any
two days on which the clocks change, any schedules, starts, outages and length
of time; they assume only `CalendarAssumption` and `SchedulerAssumption`.
`Paced` is the invariant of the first. It says of the row in memory and of the
one on disk that their next run has the time of day that was entered
(`RowHolds`), and of a schedule nobody touched that the runs made so far and the
next one are those that were announced (`OnTime`). `AsEntered` adds for the
second that no time the schedule was entered for lies between the last run and
the next (each of these is one of `AllTimes`), and that what was told of a run
is the times since the run before it. A schedule that was switched on again loses
only the last part.

Underneath are facts about `Schedule`. `TimesFollow`: from one of its times,
`NextRunAfter` goes to the next of them, over short and long days, for plain
schedules of hours, days and weeks. `PastIsCounted`: the number of missed runs
`NextRunPast` returns is the number of those times that are past.
`RunsAreTold` speaks of plain schedules only (`IsPlain`: without weekdays, or
daily), as with weekdays and longer intervals the code's runs drift. `Schedule`
climbs with recursive functions; that these exist and what each step of them is
follows from the least-element principle again (`Ascend`, `StepsExist`), not from
an induction rule.

### Only model-checked

- Liveness under fairness (`EverythingSynced`, `FinishedIsReported`,
  `RunsEnd`, `SlotsAreFreed`, `RequestsAnswered`, `SlotsReturn`, `Reconnects`,
  `DialsAnswered`, `AskedIsSettled`), which the prover cannot do.

## Findings

One run ends in a violation of something the repository says of itself;
`PROJECT.json` quotes it. `executor_error`: a process that cannot be started
raises `error` and then `close`; both handlers release the slot, the second one
that of the run which was queued behind it (`ProcessRunner.ts:598`, against
the comment at 277-280).

Others show when a setting of a run is changed, or another definition is
checked. They have no run of their own:

| Setting | Then fails | What happens |
|---|---|---|
| `server_parts` with `Reinserted = {r1}` | `AckedRunAgrees` | A queued run that is triggered again while its job is busy is written as a new row at revision 1. An acknowledgement of the *first* revision 1 that is under way marks the new row as synced, and what it says is not sent |
| `server_parts` with `LateDelivery = TRUE` | `EndedStaysEnded`, `EndReportedOnce` | A live update has no revision, so a batch of an older revision that a replaced socket still delivers reopens an ended run in the table until the next batch (`JobHistoryRepository.ts:352`, server) |
| `executor_runs` with `Outbound = TRUE` | `EndedStaysEnded` | A server that dials the agent during its cleanup starts runs the cleanup then takes for leftovers (`Executor.ts:85`) |
| `executor_live` with `stuck` in `SpawnOutcomes` | `EverythingEnds` | If `spawn` throws, nothing gives back the slot before a restart (`ProcessRunner.ts:428`) |
| `tunnel_slots` with `LateEvents = TRUE` | `SlotsHold`, `LeasesHold` | `handleConnectionLost` is told the client, not the connection. The `close` of a connection that is over, arriving when the next one of the client is being opened, gives away the slot of that one, and later drops its forwards |
| `tunnel_slots` with `CloseAnytime = TRUE` | `SlotsHold`, `LeasesHold` | `closeClient` while a connection is being opened: it comes up on an entry that is no longer in the map, and a lease is granted over it; a waiter that was handed a slot just then both frees it and hands it on |
| `tunnel_slots` with `Refusals = TRUE` | `EveryoneIsServed` | `acquire` stops the idle timer; if the forward is refused then, nothing arms it again, and the connection keeps its slot |
| `link_sessions` with `SessionLasts` | `SessionLasts` | The ladder of reconnects starts over when a socket opens, not when it is authenticated (`ClientConnector.ts:302`), against `docs/client.md:79`; a manual dial and one of the ladder may replace each other (`ClientConnector.ts:306`) |
| `link_sessions` with `DeletedHasNoSession` | `DeletedHasNoSession` | An `AUTH` that arrives on a socket closed with 4001 still registers a session |
| `job_lists` with `AwayIsUnknown` | `AwayIsUnknown` | An answer that is handled after the session ended fills the cache of an agent that is away (`ProxyService.ts:126`) |
| `job_lists` with `MaxEdits = 2`, `MaxFaults = 2` and `CacheIsTheList` | `CacheIsTheList` | Two reads of the list under way at a time start two backfills. The older one stamps a job in a list that was replaced, the save of the newer one is refused: the job has its id, and is listed without it until it is read again (`ProxyService.ts:202`). With two jobs the older one may also write its copy over an edit the newer one had read |
| `job_lists` with `NothingCopiedOver` | `NothingCopiedOver` | Backfill and distribution write whole jobs from the cached list, over an edit made meanwhile |
| `job_lists` with `TimesRunOnce` | `TimesRunOnce` | An editor opened before a run sends the run time it was opened with, and the agent runs that time again |
| `server_web` with `Unwritable = {"url"}` or `OneAtATime = FALSE` | `ClientsKept` | The agent restarts as one that waits to be dialled, while the server waits for it (`client/src/web/server.ts:57-67`, `226-228`) |
| `server_web` with `FailureIsShown` | `FailureIsShown` | A failure that ended while the tab's socket was down is never told as a toast (`useJobResultToasts.ts:59`, against the comment at 46) |

Read in the code and visible in the modules, but contradicting no property:

- *Runs.* A run whose delay is over can find slot and queue taken again, and is
  then skipped although it was queued (`Executor.ts:381`). An abort is a mark in
  memory: one granted just before the agent dies is forgotten
  (`ProcessRunner.ts:94`), and the run is started again if its row still says
  `queued`. A run that is being prepared has no row yet (`Executor.ts:442`).
- *Leases.* The agent waits 25 s, the server up to 20 s for a slot and more for
  the job refresh, the probe and the connection: a lease can be granted that
  nobody waits for. Two repositories on one host and port share a measured
  fingerprint (`TunnelLease.ts:240`).
- *Schedules.* A crash between `executeBackup` (`Scheduler.ts:147`) and the
  write after it repeats the run. With weekdays and intervals of several days,
  runs drift.
- *Jobs.* A list that was asked for first and timed out leaves the cache cold;
  errors of `handleJobList` and `handleJobDelete` are not answered. A rotation
  that races a distribution can put an older secret back, and so can a save
  that keeps "the key" from a stale cache.
- *Files.* A file that cannot be quarantined is overwritten all the same;
  quarantined `jobs.json` with an old `client.db` still there imports the old
  jobs again. The server's `config.yaml` is written in place: a kill in between
  leaves it empty, a new key is generated, and stored secrets are unreadable
  (`torn`). Migration 18 killed between commit and log runs twice (`Twice`);
  3 and 4 cut short refuse every later start.
- *Dashboard.* History the sync brings is stored and pushed to nobody, although
  the newest run and the unseen count are never stale by age; a REST answer
  overwrites a newer push. A refused optimistic change puts an older list over
  newer pushes. These are the reasons `gap` and `overlooked` name.
- *Forms.* `ClientEditRoute` has no key: after a jump in the browser's history,
  one client's draft is on screen for another and can be saved there. Editors
  of webhooks and of new jobs leave after a save without locking the fields:
  what is typed meanwhile is lost unasked. A late save navigates away from
  wherever the operator is. A retry after a lost answer creates a second entity.
  A restore's form is not locked while it starts, so its message may name a
  selection that was not restored (`SnapshotRestoreEditor.tsx:65-69`).
- *Sessions.* Several tabs of one browser share a cookie jar; a late logout can
  clear a newer login.
- *Cleanup.* A write of settings that fails changes memory only and does not
  restart the timer; the same values saved again do not either. The newest run
  is kept per client, not per job.

## Not modelled

- *Executor*: failing writes of the history (they are logged, the row waits for
  the next restart), what a run prints, and a CLI that outlives its agent: both
  live in one container or systemd unit. A lookup's own failure counts as `abort`.
- *HistorySync*: reads of the history that fail, the columns other than status
  and revision; *job history*: the paged queries.
- *TunnelService*: key and host checks, the status for the dashboard, shutdown.
- *Registration*: the rate limits of PIN and secret. *Link*: the heartbeat's
  clock; a broken connection is noticed at some time.
- *Scheduler*: a clock that is set back; the browser's own time zone.
- *AgentFiles*: a directory's `fsync` that fails; the text of `config.yaml`.
- *Credentials*: edits of a repository's URL, more than one PBS.
- Of the dashboard, views that only show what the queries hold. Of `shared`,
  schemas, wherever they do not refuse a message: they are types and validation.
