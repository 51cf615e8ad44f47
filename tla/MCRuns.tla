------------------------------- MODULE MCRuns -------------------------------
(***************************************************************************)
(* Three parts of the life of runs that share no state here, one to a      *)
(* behaviour: their way through the executor, their leases of the tunnel,  *)
(* with the server that grants them, and the cleanup of their history.     *)
(***************************************************************************)
EXTENDS MCExecutor

CONSTANTS Leased, Restores, Hosts, Nowhere, MaxSessions, MaxEdits,
          MaxTime, MaxRuns, MaxChanges, MaxFaults

VARIABLES
  part,  \* the one this behaviour is about
  base, tunnelled, known, authorised, stages, agentOn, serverOn, session, requests, answers,
  releases, granted, entered, meant, adrift, dropped, edits,
  now, stored, settings, up, timer, planned, running, last, rows, page, waiting, hasty, newest,
  unwritten, changes, faults

ASSUME LeasesAssumption ==
  /\ {MaxSessions, MaxEdits} \subseteq Nat
  /\ Restores \subseteq Leased /\ Nowhere \notin Hosts

ASSUME CleanupAssumption == {MaxTime, MaxRuns, MaxChanges, MaxFaults} \subseteq Nat

\* With an age limit, by number alone, and switched off.
Offered == {[days |-> 1, count |-> 1, interval |-> 2],
            [days |-> 0, count |-> 0, interval |-> 1],
            [days |-> 2, count |-> 1, interval |-> 0]}

Lease == INSTANCE LeaseRequest WITH Runs <- Leased, leases <- granted
History == INSTANCE Cleanup WITH edits <- changes, MaxEdits <- MaxChanges

leaseVars == <<base, tunnelled, known, authorised, stages, agentOn, serverOn, session, requests,
               answers, releases, granted, entered, meant, adrift, dropped, edits>>
cleanupVars == <<now, stored, settings, up, timer, planned, running, last, rows, page, waiting,
                 hasty, newest, unwritten, changes, faults>>

MCInit ==
  /\ part \in {"executor", "lease", "cleanup"}
  /\ Init /\ Lease!Init /\ History!Init
  /\ base = CHOOSE h \in Hosts : TRUE  \* they are alike
  /\ part # "cleanup" => settings = CHOOSE s \in Offered : TRUE

MCNext ==
  \/ part = "executor" /\ Next /\ UNCHANGED <<part, leaseVars, cleanupVars>>
  \/ part = "lease" /\ Lease!Next /\ UNCHANGED <<part, vars, cleanupVars>>
  \/ part = "cleanup" /\ History!Next /\ UNCHANGED <<part, vars, leaseVars>>

MCSpec == MCInit /\ [][MCNext]_<<part, vars, leaseVars, cleanupVars>>

\* The leases of an agent's runs lead where they should, and go with the runs
\* (LeaseRequest).
LeasesKept == part = "lease" => Lease!LeasesHold

\* The cleanup of the history comes in time and keeps what the settings keep
\* (Cleanup).
CleanupKept == part = "cleanup" => History!CleanupHolds
=============================================================================
