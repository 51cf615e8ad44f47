---------------------------- MODULE LeaseRequest ----------------------------
(***************************************************************************)
(* How a run of an agent comes by its tunnel and gives it back: the        *)
(* agent's request with its time-out and preflight (TunnelClient), what    *)
(* the server makes of it between its awaits (TunnelLease.handleAcquire),  *)
(* and the lease until it is released, expires, or is dropped with the     *)
(* session or the tunnel.  The SSH side is in TunnelService.               *)
(*                                                                         *)
(* One client and one managed repository.  What the server knows of the    *)
(* job is the agent's word, which may name any host.  A run asks once, so  *)
(* its lease goes by its name.  `entered', `meant', `adrift' and `dropped' *)
(* are histories: the hosts an operator entered, the one a restore was     *)
(* started for, the runs whose answer or release got lost, and those whose *)
(* lease was taken away.                                                   *)
(***************************************************************************)
EXTENDS Naturals, FiniteSets

CONSTANTS
  Runs, Restores,  \* Restores \subseteq Runs; the others are backups of one job
  Hosts, Nowhere,
  MaxSessions,     \* sessions of the agent
  MaxEdits         \* edits of the repository and of the tunnel, and time-outs of leases

VARIABLES
  base,        \* the host of the repository, or Nowhere once it is deleted
  tunnelled,   \* credentials of a tunnel are stored
  known,       \* <<>> or <<the cached job>>
  authorised,  \* pendingRunTargets: run -> host or Nowhere
  stages,      \* run -> its stage on the agent
  agentOn,     \* the agent's session, or 0
  serverOn,    \* the one the server has
  session,     \* the last one
  requests,    \* requests on their way to the server and those it is working on
  answers, releases,  \* on their way
  leases,
  entered, meant, adrift, dropped,
  edits

link == <<agentOn, serverOn, session>>
config == <<base, tunnelled, entered, edits>>
past == <<meant, adrift, dropped>>
leaseVars == <<config, known, authorised, stages, link, requests, answers, releases, leases, past>>

\* What the agent may say of its job.
Claims == [required : BOOLEAN, byId : BOOLEAN, host : Hosts]

Init ==
  /\ base \in Hosts /\ entered = {base} /\ tunnelled = TRUE
  /\ known = <<>> /\ authorised = [r \in Restores |-> Nowhere]
  /\ stages = [r \in Runs |-> "new"]
  /\ agentOn = 1 /\ serverOn = 1 /\ session = 1
  /\ requests = {} /\ answers = {} /\ releases = {} /\ leases = {}
  /\ meant = authorised /\ adrift = {} /\ dropped = {} /\ edits = 0

Goes(r, from, to) == stages[r] = from /\ stages' = [stages EXCEPT ![r] = to]

-----------------------------------------------------------------------------
(***************************************************************************)
(* The agent.                                                              *)
(***************************************************************************)
\* A backup starts by itself, and waits for its jitter.
StartBackup(r) ==
  /\ r \notin Restores /\ Goes(r, "new", "jitter")
  /\ UNCHANGED <<config, known, authorised, link, requests, answers, releases, leases, past>>

\* triggerRestore: the target is authorised, and the order sent, which may be lost.
TriggerRestore(r) ==
  /\ r \in Restores /\ stages[r] = "new"
  /\ tunnelled /\ base # Nowhere /\ serverOn # 0
  /\ authorised' = [authorised EXCEPT ![r] = base] /\ meant' = [meant EXCEPT ![r] = base]
  /\ stages' = [stages EXCEPT ![r] = IF agentOn = serverOn THEN "jitter" ELSE "over"]
  /\ UNCHANGED <<config, known, link, requests, answers, releases, leases, adrift, dropped>>

Ask(r) ==
  /\ Goes(r, "jitter", IF agentOn = 0 THEN "over" ELSE "asking")
  /\ requests' = IF agentOn = 0 THEN requests
                 ELSE requests \cup {[run |-> r, session |-> agentOn, at |-> "sent", target |-> Nowhere]}
  /\ UNCHANGED <<config, known, authorised, link, answers, releases, leases, past>>

\* ACQUIRE_TIMEOUT_MS: whatever the server answers later, nobody waits for it.
TimeOut(r) ==
  /\ Goes(r, "asking", "over")
  /\ adrift' = adrift \cup {r}
  /\ UNCHANGED <<config, known, authorised, link, requests, answers, releases, leases,
                 meant, dropped>>

\* resolvePending: an answer for which no request is pending is nothing.
Answered(a) ==
  /\ a \in answers /\ a.session = agentOn
  /\ answers' = answers \ {a}
  /\ stages' = IF stages[a.run] # "asking" THEN stages
               ELSE [stages EXCEPT ![a.run] = IF a.granted THEN "probing" ELSE "over"]
  /\ UNCHANGED <<config, known, authorised, link, requests, releases, leases, past>>

Reachable(r) ==
  /\ Goes(r, "probing", "using")
  /\ UNCHANGED <<config, known, authorised, link, requests, answers, releases, leases, past>>

\* release: without a connection nothing is sent.
SendRelease(r) ==
  releases' = IF agentOn = 0 THEN releases ELSE releases \cup {[run |-> r, session |-> agentOn]}

\* The run ends, or its preflight fails, or it was aborted.
End(r) ==
  /\ stages[r] \in {"probing", "using"} /\ SendRelease(r)
  /\ stages' = [stages EXCEPT ![r] = "over"]
  /\ adrift' = IF agentOn = 0 THEN adrift \cup {r} ELSE adrift
  /\ UNCHANGED <<config, known, authorised, link, requests, answers, leases, meant, dropped>>

-----------------------------------------------------------------------------
(***************************************************************************)
(* The session.                                                            *)
(***************************************************************************)
OfRuns(S) == {m.run : m \in S}

\* rejectPending: the runs that wait for an answer fail.
Break ==
  /\ agentOn # 0 /\ agentOn' = 0
  /\ stages' = [r \in Runs |-> IF stages[r] = "asking" THEN "over" ELSE stages[r]]
  /\ adrift' = adrift \cup {r \in Runs : stages[r] = "asking"}
  /\ answers' = {}
  /\ UNCHANGED <<config, known, authorised, serverOn, session, requests, releases, leases,
                 meant, dropped>>

\* What the agent sent on a socket that is gone.
Lose(s) ==
  /\ requests' = {q \in requests : q.at # "sent" \/ q.session # s}
  /\ releases' = {m \in releases : m.session # s}
  /\ adrift' = adrift \cup OfRuns({m \in releases : m.session = s})

\* registerClient: the socket before, if the server still has it, is closed with
\* 4000, and its leases stay.
Reconnect ==
  /\ agentOn = 0 /\ session < MaxSessions
  /\ session' = session + 1 /\ agentOn' = session' /\ serverOn' = session'
  /\ Lose(serverOn)
  /\ UNCHANGED <<config, known, authorised, stages, answers, leases, meant, dropped>>

\* Mutant: the agent is gone if any socket of it is.
IsCurrentOrOld(s) == s \in 1..session

IsCurrent(s) == s = serverOn /\ s # 0

\* unregisterClient on the close of a socket that broke: if it is still the
\* client's, the leases are dropped, and a refresh that waits is rejected.
NoticeBreak(s) ==
  /\ IsCurrent(s) /\ s # agentOn
  /\ serverOn' = 0 /\ known' = <<>>
  /\ requests' = {q \in requests : q.at \notin {"sent", "resolving"}}
  /\ releases' = {} /\ adrift' = adrift \cup OfRuns(releases)
  /\ leases' = {} /\ dropped' = dropped \cup IF serverOn = agentOn THEN {} ELSE OfRuns(leases)
  /\ UNCHANGED <<config, authorised, stages, agentOn, session, answers, meant>>

-----------------------------------------------------------------------------
(***************************************************************************)
(* The server.                                                             *)
(***************************************************************************)
Answer(q, granted) ==
  answers' = IF q.session = agentOn
             THEN answers \cup {[run |-> q.run, session |-> q.session, granted |-> granted]}
             ELSE answers

Deny(q) == requests' = requests \ {q} /\ Answer(q, FALSE)

Advance(q, at, target) ==
  /\ requests' = (requests \ {q})
       \cup {[run |-> q.run, session |-> q.session, at |-> at, target |-> target]}
  /\ UNCHANGED answers

\* configuredTarget: by its id, or by a host that a repository has.
ConfiguredTarget(job) ==
  IF job.byId \/ job.host = base THEN base ELSE Nowhere

\* resolveTarget, with a job it knows.
Decide(q, job) ==
  LET target == ConfiguredTarget(job) IN
  IF job.required /\ target # Nowhere THEN Advance(q, "measuring", target) ELSE Deny(q)

Receive(q) ==
  /\ q \in requests /\ q.at = "sent" /\ q.session = serverOn
  /\ IF ~tunnelled THEN Deny(q)
     ELSE IF q.run \in Restores
     THEN IF authorised[q.run] = Nowhere THEN Deny(q)
          ELSE Advance(q, "measuring", authorised[q.run])
     ELSE IF known = <<>> THEN Advance(q, "resolving", Nowhere)
     ELSE Decide(q, known[1])
  /\ UNCHANGED <<config, known, authorised, stages, link, releases, leases, past>>

\* The agent answers for its job, whoever asked.
RefreshJobCache ==
  /\ serverOn # 0 /\ serverOn = agentOn
  /\ \E claim \in Claims : known' = <<claim>>
  /\ known' # known
  /\ UNCHANGED <<config, authorised, stages, link, requests, answers, releases, leases, past>>

\* The refresh came, or failed.
GoOn(q) ==
  /\ q \in requests /\ q.at = "resolving"
  /\ \/ known # <<>> /\ Decide(q, known[1])
     \/ Deny(q)
  /\ UNCHANGED <<config, known, authorised, stages, link, releases, leases, past>>

\* The certificate is measured or not; acquire looks for the credentials again,
\* and refuses a client that asks too often.
Measured(q) ==
  /\ q \in requests /\ q.at = "measuring"
  /\ \/ tunnelled /\ Advance(q, "acquiring", q.target)
     \/ Deny(q)
  /\ UNCHANGED <<config, known, authorised, stages, link, releases, leases, past>>

\* The connection and the forward are there, or are not.
Granted(q) ==
  /\ q \in requests /\ q.at = "acquiring"
  /\ \/ /\ leases' = leases \cup {[run |-> q.run, target |-> q.target]}
        /\ requests' = requests \ {q} /\ Answer(q, TRUE)
     \/ Deny(q) /\ UNCHANGED leases
  /\ UNCHANGED <<config, known, authorised, stages, link, releases, past>>

Without(r) ==
  /\ leases' = {l \in leases : l.run # r}
  /\ authorised' = [x \in Restores |-> IF x = r /\ leases' # leases THEN Nowhere ELSE authorised[x]]

\* TUNNEL_RELEASE, of this client's leases only.
Release(m) ==
  /\ m \in releases /\ m.session = serverOn
  /\ releases' = releases \ {m} /\ Without(m.run)
  /\ UNCHANGED <<config, known, stages, link, requests, answers, past>>

Change == edits < MaxEdits /\ edits' = edits + 1

\* maxLeaseMs.
Expire(l) ==
  /\ l \in leases /\ Change /\ Without(l.run)
  /\ dropped' = dropped \cup {l.run}
  /\ UNCHANGED <<base, tunnelled, entered, known, stages, link, requests, answers, releases,
                 meant, adrift>>

\* The SSH connection is lost, or the tunnel is edited or removed: closeClient.
CloseClient ==
  /\ Change /\ tunnelled' \in BOOLEAN
  /\ leases' = {} /\ dropped' = dropped \cup OfRuns(leases)
  /\ UNCHANGED <<base, entered, known, authorised, stages, link, requests, answers, releases,
                 meant, adrift>>

EditRepository ==
  /\ base # Nowhere /\ Change
  /\ base' \in (Hosts \cup {Nowhere}) \ {base}
  /\ entered' = entered \cup ({base'} \ {Nowhere})
  /\ UNCHANGED <<tunnelled, known, authorised, stages, link, requests, answers, releases, leases,
                 past>>

\* A restart of the server: it keeps nothing of all this.
RestartServer ==
  /\ Change /\ agentOn = 0
  /\ serverOn' = 0 /\ known' = <<>> /\ authorised' = [r \in Restores |-> Nowhere]
  /\ requests' = {} /\ releases' = {} /\ leases' = {}
  /\ dropped' = dropped \cup OfRuns(leases)
  /\ UNCHANGED <<base, tunnelled, entered, stages, agentOn, session, answers, meant, adrift>>

Next ==
  \/ \E r \in Runs : \/ StartBackup(r) \/ TriggerRestore(r) \/ Ask(r) \/ TimeOut(r)
                     \/ Reachable(r) \/ End(r)
  \/ \E a \in answers : Answered(a)
  \/ Break \/ Reconnect \/ \E s \in 1..MaxSessions : NoticeBreak(s)
  \/ \E q \in requests : Receive(q) \/ GoOn(q) \/ Measured(q) \/ Granted(q)
  \/ RefreshJobCache
  \/ \E m \in releases : Release(m)
  \/ \E l \in leases : Expire(l)
  \/ CloseClient \/ EditRepository \/ RestartServer

-----------------------------------------------------------------------------
\* "The tunnel only ever leads to a repository configured on this server": to a
\* host an operator entered, and for a restore to the one it was started for.
LeadsWhereMeant ==
  \A l \in leases :
    /\ l.target \in entered
    /\ l.run \in Restores => l.target = meant[l.run]

\* A lease on the server is held by a run, or its answer or its release is on
\* the way, or one of them got lost.
LeasesAreWanted ==
  \A l \in leases :
    \/ stages[l.run] \in {"probing", "using"}
    \/ [run |-> l.run, session |-> agentOn, granted |-> TRUE] \in answers
    \/ l.run \in OfRuns(releases) \cup adrift

\* A run that got its tunnel has a lease until the session of its agent breaks,
\* its time is up, or the tunnel itself is lost; a socket that was replaced takes
\* no lease with it.
RunsHaveTheirLease ==
  \A r \in Runs : stages[r] \in {"probing", "using"} => r \in OfRuns(leases) \cup dropped

\* Runs and leases agree.
LeasesHold == LeadsWhereMeant /\ LeasesAreWanted /\ RunsHaveTheirLease
=============================================================================
