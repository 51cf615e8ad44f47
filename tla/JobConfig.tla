------------------------------ MODULE JobConfig ------------------------------
(***************************************************************************)
(* The jobs of one agent: its own file of them, which is the only copy,    *)
(* the state of their schedules, the list the server caches while the      *)
(* agent is connected, what the dashboards show of it, and everybody who   *)
(* writes a whole job back: an operator's editor, the backfill of          *)
(* repository ids and the distribution of a repository's credentials       *)
(* (server: ProxyService, JobController, JobSecrets, RepositoryController, *)
(* AgentMessageRouter; agent: Handlers, JobRepository, Scheduler,          *)
(* JobScheduleStateRepository).                                            *)
(*                                                                         *)
(* A job is a number that tells its versions apart, whether its repository *)
(* has an id, and when it runs next.  A request of the server is a process *)
(* that awaits one answer; the rest of it runs in the step the answer, the *)
(* time-out or the end of the session comes in.                            *)
(***************************************************************************)
EXTENDS Naturals, Sequences, FiniteSets, SequencesExt

CONSTANTS
    Jobs,         \* the jobs the agent has at the start
    Unlinked,     \* those among them without a repository id
    Matched,      \* those exactly one managed repository matches
    Interval,     \* of every schedule
    Processes,    \* bound: requests of the server under way at a time
    MaxTime,      \* bound: the clock
    MaxEdits,     \* bound: saves and deletions by operators
    MaxRolls,     \* bound: distributions
    MaxDrops,     \* bound: sessions that end, are replaced or die with the agent
    MaxFaults     \* bound: failed writes and requests that time out

ASSUME JobAssumption ==
    /\ IsFiniteSet(Jobs) /\ Unlinked \subseteq Jobs /\ Matched \subseteq Jobs
    /\ Interval \in Nat \ {0} /\ Processes \subseteq Nat \ {0}
    /\ MaxTime \in Nat /\ MaxEdits \in Nat /\ MaxRolls \in Nat
    /\ MaxDrops \in Nat /\ MaxFaults \in Nat

Nobody == 0
Never == MaxTime + Interval + 1     \* a job without schedule state

Starts == 0 .. MaxTime + Interval
Job == [edit : 0 .. MaxEdits, linked : BOOLEAN]
Copy == [edit : 0 .. MaxEdits, linked : BOOLEAN, next : Starts \cup {Never}]
Pending == [job : Jobs, copy : Copy]

VARIABLES
    jobs, jobsFile,      \* JobRepository: in memory and on disk
    next, nextFile,      \* JobScheduleStateRepository's `nextRun`
    now,
    up,                  \* the agent's session
    toAgent, toServer,   \* what is under way on it
    cache,               \* jobCache's entry of this client
    procs,               \* requests under way
    shown,               \* the list a dashboard that missed nothing shows
    editor,              \* {} or the job an operator has open
    wanted,              \* history: the versions operators saved last
    copied,              \* history: jobs an older copy was written over
    started, repeated,   \* history: times jobs started for, and those that did twice
    rewound,             \* history: jobs set back to a time they started for
    lapsed,              \* history: a request timed out in this session
    edits, rolls, drops, faults

agent == <<jobs, jobsFile, next, nextFile, now>>
wire == <<up, toAgent, toServer>>
server == <<cache, procs, shown>>
past == <<wanted, copied, started, repeated, rewound, lapsed>>
bounds == <<edits, rolls, drops, faults>>
vars == <<agent, wire, server, editor, past, bounds>>

NoList == [known |-> FALSE, list |-> <<>>]
Idle == [kind |-> "idle"]

IsSome(f, S) == DOMAIN f \subseteq Jobs /\ \A j \in DOMAIN f : f[j] \in S
IsList(l) == l.known \in BOOLEAN /\ IsSome(l.list, Copy)
IsProcess(p) ==
    \/ p = Idle
    \/ p.kind = "list" /\ p.then \subseteq Pending
    \/ p.kind \in {"save", "delete"}
    \/ /\ p.kind \in {"backfill", "distribute"}
       /\ p.job \in Jobs /\ p.todo \subseteq Jobs /\ IsSome(p.list, Copy)
       /\ p.live \in BOOLEAN

TypeOK ==
    /\ IsSome(jobs, Job) /\ IsSome(jobsFile, Job)
    /\ IsSome(next, Starts) /\ IsSome(nextFile, Starts)
    /\ now \in 0 .. MaxTime /\ up \in BOOLEAN
    /\ \A i \in DOMAIN toAgent : toAgent[i].proc \in Processes \cup {Nobody}
    /\ \A i \in DOMAIN toServer : toServer[i].proc \in Processes \cup {Nobody}
    /\ IsList(cache) /\ IsList(shown)
    /\ \A p \in Processes : IsProcess(procs[p])
    /\ editor \subseteq Pending /\ Cardinality(editor) <= 1
    /\ IsSome(wanted, 0 .. MaxEdits)
    /\ copied \subseteq Jobs /\ rewound \subseteq Jobs /\ repeated \subseteq Jobs
    /\ started \in [Jobs -> SUBSET Starts] /\ lapsed \in BOOLEAN

Init ==
    /\ jobs = [j \in Jobs |-> [edit |-> 0, linked |-> j \notin Unlinked]]
    /\ next = [j \in Jobs |-> 1] /\ now = 0
    /\ jobsFile = jobs /\ nextFile = next
    /\ up = FALSE /\ toAgent = <<>> /\ toServer = <<>>
    /\ cache = NoList /\ shown = NoList /\ procs = [p \in Processes |-> Idle]
    /\ editor = {}
    /\ wanted = [j \in Jobs |-> 0] /\ copied = {}
    /\ started = [j \in Jobs |-> {}] /\ repeated = {} /\ rewound = {} /\ lapsed = FALSE
    /\ edits = 0 /\ rolls = 0 /\ drops = 0 /\ faults = 0

-----------------------------------------------------------------------------
(***************************************************************************)
(* Requests of the server.                                                 *)
(***************************************************************************)
Without(f, j) == [k \in DOMAIN f \ {j} |-> f[k]]
With(f, j, v) == [k \in DOMAIN f \cup {j} |-> IF k = j THEN v ELSE f[k]]

\* What a request that is sent adds to: the processes and the messages before it.
Here == [procs |-> procs, sent |-> toAgent]

\* sendRequest to a connected agent, by process p, which goes on as `as`.
Ask(p, m, as, at) ==
    /\ toAgent' = Append(at.sent, m)
    /\ procs' = [at.procs EXCEPT ![p] = as]

AskList(p, then, at) ==
    Ask(p, [type |-> "list", proc |-> p], [kind |-> "list", then |-> then], at)

AskSave(p, by, job, copy, as, at) ==
    Ask(p, [type |-> "save", proc |-> p, by |-> by, job |-> job, copy |-> copy], as, at)

Finish(p, at) == toAgent' = at.sent /\ procs' = [at.procs EXCEPT ![p] = Idle]

\* The end of refreshJobCache, which a save may have waited for: with nothing
\* stored there is no secret to complete the job with, and it is refused.
EndRefresh(p, then, at) ==
    IF \E s \in then : s.job \in DOMAIN cache'.list
    THEN LET s == CHOOSE s \in then : TRUE IN
         AskSave(p, "operator", s.job, s.copy, [kind |-> "save"], at)
    ELSE Finish(p, at)

\* The next job of backfillRepositoryIds, or the broadcast that follows it.
GoBackfill(p, b, at) ==
    IF b.todo = {}
    THEN shown' = [known |-> TRUE, list |-> cache'.list] /\ EndRefresh(p, b.then, at)
    ELSE /\ \E j \in b.todo :
              AskSave(p, "server", j, [b.list[j] EXCEPT !.linked = TRUE],
                      [b EXCEPT !.job = j, !.todo = @ \ {j}], at)
         /\ UNCHANGED shown

\* The next job of `distribute`, whose copy is the cached one of that moment
\* unless the list was replaced meanwhile; the cache is read anew at the end.
GoDistribute(p, d, at) ==
    IF d.todo = {}
    THEN IF d.done THEN AskList(p, {}, at) ELSE Finish(p, at)
    ELSE \E j \in d.todo :
           LET from == IF d.live THEN cache'.list ELSE d.list IN
           AskSave(p, "server", j, [from[j] EXCEPT !.linked = TRUE],
                   [d EXCEPT !.job = j, !.todo = @ \ {j}], at)

\* Processes that iterate over the cached list keep it when it is replaced.
LetGo ==
    [p \in Processes |->
        IF procs[p].kind = "distribute" /\ procs[p].live
        THEN [procs[p] EXCEPT !.list = cache.list, !.live = FALSE]
        ELSE IF procs[p].kind = "backfill" THEN [procs[p] EXCEPT !.live = FALSE]
        ELSE procs[p]]

\* The listed jobs that predate the id and whose repository is unambiguous.
ToStamp(list) == {j \in DOMAIN list : ~list[j].linked} \cap Matched

\* refreshJobCache with the list that was asked for.
TakeList(p, list) ==
    /\ cache' = [known |-> TRUE, list |-> list]
    /\ GoBackfill(p, [kind |-> "backfill", job |-> CHOOSE j \in Jobs : TRUE,
                      todo |-> ToStamp(list),
                      list |-> list, live |-> TRUE, then |-> procs[p].then],
                  [Here EXCEPT !.procs = LetGo])

\* A process goes on after its request was answered, or failed.  What was
\* stamped is stamped in the list it was read from.
GoOn(p, ok, at) ==
    LET q == procs[p] IN
    \/ /\ q.kind = "list"
       /\ UNCHANGED <<cache, shown>>
       /\ EndRefresh(p, q.then, at)
    \/ /\ q.kind = "backfill"
       /\ cache' = IF ok /\ q.live THEN [cache EXCEPT !.list[q.job].linked = TRUE] ELSE cache
       /\ GoBackfill(p, q, at)
    \/ /\ q.kind = "distribute"
       /\ UNCHANGED <<cache, shown>>
       /\ GoDistribute(p, [q EXCEPT !.done = @ \/ ok], at)
    \/ /\ q.kind \in {"save", "delete"}
       /\ UNCHANGED <<cache, shown>>
       /\ IF ok THEN AskList(p, {}, at) ELSE Finish(p, at)

\* Mutant: a moved run reaches the dashboards only.
TakeNextShown(j, at) ==
    /\ shown' = IF j \in DOMAIN shown.list THEN [shown EXCEPT !.list[j].next = at] ELSE shown
    /\ UNCHANGED <<cache, toAgent, procs>>

\* updateJobNextRun.
Moved(l, j, at) == IF j \in DOMAIN l.list THEN [l EXCEPT !.list[j].next = at] ELSE l
TakeNext(j, at) ==
    /\ cache' = Moved(cache, j, at) /\ shown' = Moved(shown, j, at)
    /\ UNCHANGED <<toAgent, procs>>

\* An answer nobody waits for any more: resolvePending drops it.
Unasked(m) == m.proc = Nobody

\* routeAgentMessage.
ServerReceive ==
    /\ up /\ toServer # <<>> /\ toServer' = Tail(toServer)
    /\ LET m == Head(toServer) IN
       \/ m.type = "next" /\ TakeNext(m.job, m.at)
       \/ m.type # "next" /\ Unasked(m) /\ UNCHANGED <<toAgent, server>>
       \/ m.type = "list" /\ ~Unasked(m) /\ TakeList(m.proc, m.list)
       \/ m.type = "done" /\ ~Unasked(m) /\ GoOn(m.proc, m.ok, Here)
    /\ UNCHANGED <<agent, up, editor, past, bounds>>

Fault == faults < MaxFaults /\ faults' = faults + 1 /\ UNCHANGED <<edits, rolls, drops>>
Drop == drops < MaxDrops /\ drops' = drops + 1 /\ UNCHANGED <<edits, rolls, faults>>

\* What asked is no longer known when the answer comes.
Anonymous(s, p) ==
    [i \in DOMAIN s |-> IF s[i].proc = p THEN [s[i] EXCEPT !.proc = Nobody] ELSE s[i]]
OnTheWay(p) ==
    \E s \in {toAgent, toServer} : \E i \in DOMAIN s : s[i].proc = p

\* The timer of sendRequest; no fault where nothing will ever answer.
TimesOut(p) ==
    /\ up /\ procs[p] # Idle
    /\ IF OnTheWay(p) THEN Fault ELSE UNCHANGED bounds
    /\ toServer' = Anonymous(toServer, p) /\ lapsed' = TRUE
    /\ GoOn(p, FALSE, [Here EXCEPT !.sent = Anonymous(toAgent, p)])
    /\ UNCHANGED <<agent, up, editor, wanted, copied, started, repeated, rewound>>

-----------------------------------------------------------------------------
(***************************************************************************)
(* The session.                                                            *)
(***************************************************************************)
Free(p) == procs[p] = Idle

\* Mutant: the list is not asked for when the agent connects.
ConnectCold ==
    /\ ~up /\ up' = TRUE /\ lapsed' = FALSE
    /\ UNCHANGED <<agent, toAgent, toServer, server, editor, bounds>>
    /\ UNCHANGED <<wanted, copied, started, repeated, rewound>>

\* registerClient.
Connect ==
    /\ ~up /\ up' = TRUE /\ lapsed' = FALSE
    /\ \E p \in Processes : Free(p) /\ AskList(p, {}, Here)
    /\ UNCHANGED <<agent, toServer, cache, shown, editor, bounds>>
    /\ UNCHANGED <<wanted, copied, started, repeated, rewound>>

\* registerClient over a session whose loss the server had not noticed: what
\* was under way on it is lost, and what waits for it waits for its time-out.
Replace ==
    /\ up /\ Drop /\ toServer' = <<>> /\ lapsed' = TRUE
    /\ \E p \in Processes : Free(p) /\ AskList(p, {}, [Here EXCEPT !.sent = <<>>])
    /\ UNCHANGED <<agent, up, cache, shown, editor>>
    /\ UNCHANGED <<wanted, copied, started, repeated, rewound>>

\* unregisterClient, and what is left of every process that is rejected: all
\* it asks for now fails at once.
LostSession ==
    /\ up' = FALSE /\ toAgent' = <<>> /\ toServer' = <<>>
    /\ cache' = NoList /\ procs' = [p \in Processes |-> Idle]
    /\ shown' = [known |-> \E p \in Processes : procs[p].kind = "backfill", list |-> <<>>]

Disconnect ==
    /\ up /\ Drop /\ LostSession
    /\ UNCHANGED <<agent, editor, past>>

\* The state of jobs that no longer exist is dropped once the jobs are loaded.
WithoutOrphans(state, js) == [j \in DOMAIN state \cap DOMAIN js |-> state[j]]

\* The agent starts anew from its files.
Restart ==
    /\ Drop /\ LostSession
    /\ jobs' = jobsFile
    /\ next' = WithoutOrphans(nextFile, jobsFile)
    /\ nextFile' = next'
    /\ rewound' = rewound \cup {j \in DOMAIN next' : next'[j] \in started[j]}
    /\ UNCHANGED <<jobsFile, now, editor, wanted, copied, started, repeated, lapsed>>

-----------------------------------------------------------------------------
(***************************************************************************)
(* Operators.                                                              *)
(***************************************************************************)
Edit == edits < MaxEdits /\ edits' = edits + 1 /\ UNCHANGED <<rolls, drops, faults>>

OpenEditor(j) ==
    /\ j \in DOMAIN shown.list /\ editor' = {[job |-> j, copy |-> shown.list[j]]}
    /\ editor' # editor
    /\ UNCHANGED <<agent, wire, server, past, bounds>>

\* What the editor sends: its start with everything else.
Draft(e, n) == [e.copy EXCEPT !.edit = n]

\* A job with a repository id takes its secret from the repository, one
\* without from the stored job.
SecretAtHand(j, copy) == copy.linked \/ j \in DOMAIN cache.list

\* JobController.save; the stored job is asked for first when it is not cached.
SaveJob ==
    /\ up /\ Edit
    /\ \E e \in editor, p \in Processes :
         LET copy == Draft(e, edits') IN
         /\ Free(p)
         /\ IF SecretAtHand(e.job, copy)
            THEN AskSave(p, "operator", e.job, copy, [kind |-> "save"], Here)
            ELSE AskList(p, {[job |-> e.job, copy |-> copy]}, Here)
    /\ UNCHANGED <<agent, up, toServer, cache, shown, editor, past>>

DeleteJob(j) ==
    /\ up /\ Edit /\ j \in DOMAIN shown.list
    /\ \E p \in Processes :
         /\ Free(p)
         /\ Ask(p, [type |-> "delete", proc |-> p, job |-> j], [kind |-> "delete"], Here)
    /\ UNCHANGED <<agent, up, toServer, cache, shown, editor, past>>

\* RepositoryController.distribute, with credentials no cached job has.
Distribute ==
    /\ up /\ rolls < MaxRolls /\ rolls' = rolls + 1 /\ UNCHANGED <<edits, drops, faults>>
    /\ UNCHANGED <<cache, shown>> /\ DOMAIN cache.list # {}
    /\ \E p \in Processes :
         /\ Free(p)
         /\ GoDistribute(p, [kind |-> "distribute", job |-> CHOOSE j \in Jobs : TRUE,
                             todo |-> DOMAIN cache.list, list |-> cache.list,
                             live |-> TRUE, done |-> FALSE], Here)
    /\ UNCHANGED <<agent, up, toServer, editor, past>>

-----------------------------------------------------------------------------
(***************************************************************************)
(* The agent.                                                              *)
(***************************************************************************)
Reply(m) == toServer' = Append(toServer, m)

\* getAllWithScheduleState.
Listing ==
    [j \in DOMAIN jobs |->
        [edit |-> jobs[j].edit, linked |-> jobs[j].linked,
         next |-> IF j \in DOMAIN next THEN next[j] ELSE Never]]

HandleJobList(m) ==
    /\ Reply([type |-> "list", proc |-> m.proc, list |-> Listing])
    /\ UNCHANGED <<jobs, jobsFile, next, nextFile, wanted, copied, rewound, bounds>>

\* Mutant: adopted although it is not on disk.
CommitUnwritten(js) == jobs' = js /\ UNCHANGED jobsFile

\* commit: adopted once it is on disk.
Commit(js) == jobsFile' = js /\ jobs' = js

\* A save that cannot be written is answered with an error.
Refuse(m) ==
    /\ Fault /\ Reply([type |-> "done", proc |-> m.proc, ok |-> FALSE])
    /\ UNCHANGED <<jobs, jobsFile, next, nextFile, wanted, copied, rewound>>

\* The start that came with a job becomes its next run.
SetNext(m) == IF m.copy.next # Never THEN With(next, m.job, m.copy.next) ELSE next

\* handleJobSave.
HandleJobSave(m) ==
    \/ Refuse(m)
    \/ LET at == SetNext(m) IN
       /\ Commit(With(jobs, m.job, [edit |-> m.copy.edit, linked |-> m.copy.linked]))
       /\ next' = at /\ nextFile' = at
       /\ Reply([type |-> "done", proc |-> m.proc, ok |-> TRUE])
       /\ rewound' = rewound \cup ({m.job} \cap {j \in DOMAIN at : at[j] \in started[j]})
       /\ IF m.by = "operator"
          THEN wanted' = With(wanted, m.job, m.copy.edit) /\ copied' = copied \ {m.job}
          ELSE /\ copied' = IF m.job \in DOMAIN wanted /\ wanted[m.job] = m.copy.edit
                            THEN copied ELSE copied \cup {m.job}
               /\ UNCHANGED wanted
       /\ UNCHANGED bounds

\* handleJobDelete; one that cannot be written is not answered.
HandleJobDelete(m) ==
    \/ Fault /\ UNCHANGED <<jobs, jobsFile, next, nextFile, toServer, wanted, copied, rewound>>
    \/ /\ Commit(Without(jobs, m.job))
       /\ next' = Without(next, m.job) /\ nextFile' = next'
       /\ Reply([type |-> "done", proc |-> m.proc, ok |-> TRUE])
       /\ wanted' = Without(wanted, m.job) /\ copied' = copied \ {m.job}
       /\ UNCHANGED <<rewound, bounds>>

AgentReceive ==
    /\ up /\ toAgent # <<>> /\ toAgent' = Tail(toAgent)
    /\ LET m == Head(toAgent) IN
       \/ m.type = "list" /\ HandleJobList(m)
       \/ m.type = "save" /\ HandleJobSave(m)
       \/ m.type = "delete" /\ HandleJobDelete(m)
    /\ UNCHANGED <<now, up, server, editor, started, repeated, lapsed>>

Passes == now < MaxTime /\ now' = now + 1
          /\ UNCHANGED <<jobs, jobsFile, next, nextFile, wire, server, editor, past, bounds>>

\* The scheduler's tick: jobs without state are due from now on, due ones run
\* and move on to their first time after now.
Due == {j \in DOMAIN jobs \cap DOMAIN next : next[j] <= now}
New == DOMAIN jobs \ DOMAIN next
FirstAfterNow(from) == from + Interval * ((now - from) \div Interval + 1)

NextOf(j) == IF j \in New THEN now ELSE FirstAfterNow(next[j])

Tick ==
    /\ Due \cup New # {}
    /\ next' = [j \in DOMAIN next \cup New |-> IF j \in Due \cup New THEN NextOf(j) ELSE next[j]]
    /\ \/ nextFile' = next' /\ UNCHANGED bounds
       \/ Fault /\ UNCHANGED nextFile
    /\ started' = [j \in Jobs |-> IF j \in Due THEN started[j] \cup {next[j]} ELSE started[j]]
    /\ repeated' = repeated \cup {j \in Due : next[j] \in started[j]}
    /\ toServer' = IF up THEN toServer \o SetToSeq({[type |-> "next", proc |-> Nobody, job |-> j, at |-> NextOf(j)] : j \in Due \cup New})
                   ELSE toServer
    /\ UNCHANGED <<jobs, jobsFile, now, up, toAgent, server, editor, wanted, copied, rewound, lapsed>>

-----------------------------------------------------------------------------
Next ==
    \/ Connect \/ Replace \/ Disconnect \/ Restart
    \/ ServerReceive \/ \E p \in Processes : TimesOut(p)
    \/ \E j \in Jobs : OpenEditor(j) \/ DeleteJob(j)
    \/ SaveJob \/ Distribute
    \/ AgentReceive \/ Passes \/ Tick

Spec == Init /\ [][Next]_vars

\* Both event loops run, timers fire, and the agent connects again.
Fairness ==
    /\ WF_vars(AgentReceive) /\ WF_vars(ServerReceive) /\ WF_vars(Connect) /\ WF_vars(Tick)
    /\ \A p \in Processes : WF_vars(TimesOut(p) /\ ~OnTheWay(p))

FairSpec == Spec /\ Fairness

-----------------------------------------------------------------------------
(***************************************************************************)
(* Properties.                                                             *)
(***************************************************************************)
Quiet ==
    /\ up /\ toAgent = <<>> /\ toServer = <<>> /\ ~lapsed /\ Due \cup New = {}
    /\ \A p \in Processes : procs[p] = Idle

\* A job is listed as it is at the agent.  Its start may be one that was set
\* back; an id it is listed with, it has, and one it has is listed unless a
\* write failed: a stamp another refresh had made already may be refused.
ListedAsItIs(j) ==
    /\ j \in DOMAIN cache.list <=> j \in DOMAIN jobs
    /\ j \in DOMAIN jobs =>
         /\ cache.list[j].edit = jobs[j].edit
         /\ j \in rewound \/ cache.list[j].next = Listing[j].next
         /\ cache.list[j].linked => jobs[j].linked
         /\ jobs[j].linked => cache.list[j].linked \/ faults # 0

\* The server has a list only of an agent that is connected; once nothing is
\* under way it is the agent's own, for every job no older copy was written
\* over, and the dashboards were sent the same.
CacheFollowsAgent ==
    /\ TypeOK
    /\ cache.known => up
    /\ Quiet => cache.known /\ shown = cache /\ \A j \in Jobs \ copied : ListedAsItIs(j)

\* ... for every job: an older backfill may write its copy after the list was read.
CacheIsTheList == Quiet => cache.list = Listing

\* An agent that is away has jobs, but they are not known.
AwayIsUnknown == ~up => ~shown.known

\* What an operator saved or deleted last is what a restart finds, for every
\* job no older copy was written over.
SavesLast ==
    \A j \in Jobs \ copied :
        /\ j \in DOMAIN jobsFile <=> j \in DOMAIN wanted
        /\ j \in DOMAIN wanted => jobsFile[j].edit = wanted[j]

\* ... for every job.
NothingCopiedOver == copied = {}

\* A scheduled time starts one run, unless a save or a restart set the next
\* run back to it.
OneRunPerTime == repeated \subseteq rewound

\* Jobs and their times move only forward, whoever writes them.
EditsHold == SavesLast /\ OneRunPerTime

\* ... whatever is saved.
TimesRunOnce == repeated = {}

\* A connected agent's list arrives, unless asking for it timed out.
ListArrives == []<>(~up \/ cache.known \/ lapsed)

\* The backfill goes idle, and so does everything else that asks.
ProcessesEnd == \A p \in Processes : []<>(procs[p] = Idle)

\* Whatever is asked of an agent is settled.
AskedIsSettled == ListArrives /\ ProcessesEnd
=============================================================================
