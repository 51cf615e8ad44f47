------------------------------ MODULE Attention ------------------------------
(***************************************************************************)
(* What needs a look: the findings of the status report and of the         *)
(* dashboard (shared: backupFindings; server: StatusService,               *)
(* RepositoryStatusService), against what is really so on the agent and on *)
(* the repository.                                                         *)
(*                                                                         *)
(* One client that registers its agent itself, and one repository.  The    *)
(* agent's news travel as whole lists, in order.  A unit of the clock is   *)
(* longer than a message or a check takes.  `fact' is what was true when a *)
(* reader asked.                                                           *)
(***************************************************************************)
EXTENDS Integers, Sequences, FiniteSets

CONSTANTS
  Jobs,
  CacheFor,      \* CACHE_MS
  MissedAfter,   \* MISSED_AFTER_MS
  MaxTime,       \* bound: the clock
  MaxEvents      \* bound: what happens to the agent and its jobs

VARIABLES
  now,
  seen, online,     \* the client's last_seen, its session
  jobs,             \* on the agent: job -> the time it is due, Off without a schedule
  last,             \* on the agent: job -> the status of its newest run
  looping, stalled, \* whether the agent's scheduler runs, and when it last did not
  news,             \* lists on their way to the server
  cache,            \* <<>> or <<the list the server holds>>
  latest,           \* the server's history: job -> the status of its newest run
  tunnelFails,      \* the client's tunnel is in error
  answering,        \* the repository
  checked,          \* <<>> or <<the last check>>
  probe,            \* the time of the check under way, or Off
  asking,           \* <<>> or <<what a reader that waits for it has read>>
  downUntil, upUntil,  \* histories: when the repository was last down, last up
  events

agentVars == <<jobs, last, looping, stalled>>
clientVars == <<seen, online, news, cache, latest, tunnelFails>>
checkVars == <<checked, probe, asking>>
repository == <<answering, downUntil, upUntil>>
attentionVars == <<now, agentVars, clientVars, repository, checkVars, events>>

Off == -1
UnderWay == {"queued", "running"}

Init ==
  /\ now = 0 /\ seen = FALSE /\ online = FALSE
  /\ jobs = <<>> /\ last = [j \in Jobs |-> "none"] /\ looping = TRUE /\ stalled = Off
  /\ news = <<>> /\ cache = <<>> /\ latest = last /\ tunnelFails = FALSE
  /\ answering = TRUE /\ downUntil = Off /\ upUntil = 0
  /\ checked = <<>> /\ probe = Off /\ asking = <<>>
  /\ events = 0

Happens == events < MaxEvents /\ events' = events + 1

-----------------------------------------------------------------------------
(***************************************************************************)
(* The agent and its session.                                              *)
(***************************************************************************)
Tell(list) == news' = IF online THEN Append(news, list) ELSE news

\* registerClient, and the list it asks for.
Connect ==
  /\ ~online /\ Happens
  /\ online' = TRUE /\ seen' = TRUE /\ news' = <<jobs>>
  /\ UNCHANGED <<now, agentVars, cache, latest, tunnelFails, repository, checkVars>>

\* unregisterClient.
Disconnect ==
  /\ online /\ Happens
  /\ online' = FALSE /\ news' = <<>> /\ cache' = <<>>
  /\ UNCHANGED <<now, agentVars, seen, latest, tunnelFails, repository, checkVars>>

TakeList ==
  /\ news # <<>> /\ cache' = <<Head(news)>> /\ news' = Tail(news)
  /\ UNCHANGED <<now, agentVars, seen, online, latest, tunnelFails, repository, checkVars, events>>

\* STATUS_UPDATE and SYNC_HISTORY.
TakeRun(j) ==
  /\ online /\ latest[j] # last[j]
  /\ latest' = [latest EXCEPT ![j] = last[j]]
  /\ UNCHANGED <<now, agentVars, seen, online, news, cache, tunnelFails, repository, checkVars, events>>

\* An operator saves a job with a time or without, or deletes one.
SaveJob(j, due) ==
  /\ online /\ Happens
  /\ jobs' = [k \in DOMAIN jobs \cup {j} |-> IF k = j THEN due ELSE jobs[k]]
  /\ Tell(jobs')
  /\ UNCHANGED <<now, last, looping, stalled, seen, online, cache, latest, tunnelFails, repository, checkVars>>

DeleteJob(j) ==
  /\ online /\ j \in DOMAIN jobs /\ Happens
  /\ jobs' = [k \in DOMAIN jobs \ {j} |-> jobs[k]] /\ Tell(jobs')
  /\ UNCHANGED <<now, last, looping, stalled, seen, online, cache, latest, tunnelFails, repository, checkVars>>

DueJobs == {j \in DOMAIN jobs : jobs[j] # Off /\ jobs[j] <= now}

\* The scheduler triggers what is due and moves it on, past the end of the clock.
Look ==
  /\ looping /\ DueJobs # {}
  /\ last' = [j \in Jobs |-> IF j \in DueJobs THEN "queued" ELSE last[j]]
  /\ jobs' = [j \in DOMAIN jobs |-> IF j \in DueJobs THEN MaxTime + 1 ELSE jobs[j]]
  /\ Tell(jobs')
  /\ UNCHANGED <<now, looping, stalled, seen, online, cache, latest, tunnelFails, repository, checkVars, events>>

EndRun(j, status) ==
  /\ last[j] \in UnderWay /\ Happens
  /\ last' = [last EXCEPT ![j] = status]
  /\ UNCHANGED <<now, jobs, looping, stalled, clientVars, repository, checkVars>>

\* The scheduler's loop stops while the session lives on, or comes back.
Stall ==
  /\ Happens /\ looping' = ~looping /\ stalled' = now
  /\ UNCHANGED <<now, jobs, last, clientVars, repository, checkVars>>

TunnelTurns ==
  /\ Happens /\ tunnelFails' = ~tunnelFails
  /\ UNCHANGED <<now, agentVars, seen, online, news, cache, latest, repository, checkVars>>

-----------------------------------------------------------------------------
(***************************************************************************)
(* The report.                                                             *)
(***************************************************************************)
\* Mutant: a job that no list names has been deleted.
ExistingByList(in) ==
  {j \in Jobs : in.latest[j] # "none" /\ in.cache # <<>> /\ j \in DOMAIN in.cache[1]}

\* existingJobRuns: "not in the list" means deleted only while the list is known.
ExistingJobRuns(in) ==
  {j \in Jobs : in.latest[j] # "none" /\ (in.cache = <<>> \/ j \in DOMAIN in.cache[1])}

Finding(type, severity, about) == [type |-> type, severity |-> severity, about |-> about]
When(condition, finding) == IF condition THEN {finding} ELSE {}

\* clientFindings: a list that has not come yet is not an empty one.
ClientFindings(in) ==
  When(in.tunnelFails, Finding("tunnel-error", "warning", "client"))
  \cup When(in.cache # <<>> /\ DOMAIN in.cache[1] = {},
            Finding("client-without-jobs", "warning", "client"))

\* A run under way has started, whatever the time says; so has one that is not listed.
OverdueRuns(in) ==
  LET listed == IF in.cache = <<>> THEN <<>> ELSE in.cache[1]
      started == {j \in ExistingJobRuns(in) : in.latest[j] \in UnderWay}
  IN {Finding("run-overdue", "warning", j) :
        j \in {k \in DOMAIN listed \ started : listed[k] # Off /\ in.at - listed[k] > MissedAfter}}

RunFinding == [failed |-> "error", aborted |-> "warning", missed |-> "warning"]
RunFindings(in) ==
  {Finding(in.latest[j], RunFinding[in.latest[j]], j) :
     j \in {k \in ExistingJobRuns(in) : in.latest[k] \in DOMAIN RunFinding}}

\* A client that waits for its agent counts for nothing, and one that is offline has
\* that one finding, but its runs are judged all the same.
BuildFindings(in, answers) ==
  When(~answers, Finding("repository-offline", "error", "repository"))
  \cup IF ~in.seen THEN {}
       ELSE RunFindings(in)
            \cup IF in.online THEN ClientFindings(in) \cup OverdueRuns(in)
                 ELSE {Finding("client-offline", "error", "client")}

BackupStatus(in, findings) ==
  CASE ~in.seen -> "unknown"
    [] in.seen /\ \E f \in findings : f.severity = "error" -> "critical"
    [] in.seen /\ findings # {} /\ \A f \in findings : f.severity # "error" -> "degraded"
    [] OTHER -> "healthy"

\* The jobs of clients that are online.
ActiveJobCount(in) ==
  IF in.online /\ in.cache # <<>> THEN Cardinality(DOMAIN in.cache[1]) ELSE 0

Report(in, answers) ==
  LET findings == BuildFindings(in, answers) IN
  [findings |-> findings, status |-> BackupStatus(in, findings), active |-> ActiveJobCount(in),
   answers |-> answers, in |-> in]

\* What StatusService.report reads before it waits, with what is true on the agent.
Inputs ==
  [at |-> now, seen |-> seen, online |-> online, cache |-> cache, latest |-> latest,
   tunnelFails |-> tunnelFails,
   fact |-> [jobs |-> jobs, last |-> last, stalled |-> stalled, told |-> news = <<>>,
             downUntil |-> downUntil, upUntil |-> upUntil]]

\* RepositoryStatusService.cached: the last check while it is fresh, otherwise the one
\* under way, or a new one.
Fresh == checked # <<>> /\ now - checked[1].at < CacheFor

Ask ==
  /\ ~Fresh /\ asking = <<>>
  /\ asking' \in {<<>>, <<Inputs>>}  \* one of several readers is followed
  /\ probe' = IF probe = Off THEN now ELSE probe
  /\ asking' # asking \/ probe' # probe
  /\ UNCHANGED <<now, agentVars, clientVars, repository, checked, events>>

\* The check answers everybody who waits for it.
Answer ==
  /\ probe # Off /\ probe' = Off /\ asking' = <<>>
  /\ checked' = <<[answers |-> answering, at |-> now]>>
  /\ UNCHANGED <<now, agentVars, clientVars, repository, events>>

\* The reports a reader may be given now.
Reports ==
  (IF Fresh THEN {Report(Inputs, checked[1].answers)} ELSE {})
  \cup (IF asking # <<>> THEN {Report(asking[1], answering)} ELSE {})

RepositoryTurns ==
  /\ Happens /\ answering' = ~answering
  /\ downUntil' = now /\ upUntil' = now
  /\ UNCHANGED <<now, agentVars, clientVars, checkVars>>

\* TIMEOUT_MS is shorter than a unit, and so is the way of a message.
Tick ==
  /\ now < MaxTime /\ now' = now + 1
  /\ probe # Off => probe = now
  /\ news = <<>> /\ (online => latest = last)
  /\ looping => DueJobs = {}
  /\ downUntil' = IF answering THEN downUntil ELSE now'
  /\ upUntil' = IF answering THEN now' ELSE upUntil
  /\ stalled' = IF looping THEN stalled ELSE now'
  /\ UNCHANGED <<jobs, last, looping, clientVars, answering, checkVars, events>>

Next ==
  \/ Connect \/ Disconnect \/ TakeList \/ Look \/ Stall \/ TunnelTurns
  \/ \E j \in Jobs :
       \/ TakeRun(j) \/ DeleteJob(j)
       \/ \E due \in {Off, now, now + 1} : SaveJob(j, due)
       \/ \E status \in {"success", "failed", "aborted"} : EndRun(j, status)
  \/ Ask \/ Answer \/ RepositoryTurns \/ Tick

-----------------------------------------------------------------------------
Types(report) == {f.type : f \in report.findings}
Has(report, type, about) == \E f \in report.findings : f.type = type /\ f.about = about

\* "The server knows a client's jobs only while its agent is connected": no job is
\* missing or overdue only because the news of it has not come, a deleted job is told
\* of no longer than its agent is away, and a repository not longer than a check is good.
AlarmsAreTrue ==
  \A report \in Reports :
    LET in == report.in  fact == in.fact IN
    /\ "client-without-jobs" \in Types(report) /\ fact.told => fact.jobs = <<>>
    /\ \A j \in Jobs :
         /\ Has(report, "run-overdue", j) =>
              /\ fact.told => j \in DOMAIN fact.jobs /\ fact.jobs[j] \in 0 .. in.at - MissedAfter - 1
              /\ fact.told => fact.stalled >= in.at - 1
         /\ Has(report, "failed", j) =>
              /\ in.online /\ fact.told => j \in DOMAIN fact.jobs
              /\ fact.last[j] = "failed" \/ ~in.online \/ fact.last[j] # in.latest[j]
    /\ in.online /\ fact.told => report.active = Cardinality(DOMAIN fact.jobs)
    /\ "repository-offline" \in Types(report) => downUntil >= in.at - CacheFor - 1

\* What is wrong is told: a host that is away, a job of it that failed whether it is
\* there or not, one that has not started for too long although the server has heard
\* everything, and a repository that was down all the time.
ProblemsAreTold ==
  \A report \in Reports :
    LET in == report.in  fact == in.fact IN
    in.seen =>
      /\ ~in.online => "client-offline" \in Types(report)
      /\ \A j \in DOMAIN fact.jobs :
           /\ in.latest[j] = "failed" /\ (in.online => fact.told) => Has(report, "failed", j)
           /\ /\ in.online /\ fact.told /\ in.latest[j] \notin UnderWay
              /\ fact.jobs[j] # Off /\ in.at - fact.jobs[j] > MissedAfter
              => Has(report, "run-overdue", j)
      /\ (~answering /\ upUntil < in.at - CacheFor - 1) => "repository-offline" \in Types(report)
      /\ report.status = "healthy" =>
           /\ in.online /\ report.answers
           /\ fact.told => \A j \in DOMAIN fact.jobs : in.latest[j] # "failed"

\* The report says what is so, as far as the server can know it.
AttentionHolds == AlarmsAreTrue /\ ProblemsAreTold
=============================================================================
