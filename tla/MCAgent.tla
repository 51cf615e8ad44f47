------------------------------- MODULE MCAgent -------------------------------
(***************************************************************************)
(* Two parts of the agent that share no state here, one to a behaviour:    *)
(* its scheduler and the files it keeps.                                   *)
(***************************************************************************)
EXTENDS Scheduler, FiniteSets

CONSTANTS OldJobs, NewJobs, MaxIdentities, MaxFileFaults, MaxEnds, MaxDamages

VARIABLES
  part,  \* the one this behaviour is about
  files, safe, aside, database, stage, write, jobs, states, identity,
  confirmed, unwanted, deleted, identified, damaged, fileFaults, ends

ASSUME FilesAssumption ==
  /\ {MaxIdentities, MaxFileFaults, MaxEnds, MaxDamages} \subseteq Nat
  /\ OldJobs \cap NewJobs = {}

Files == INSTANCE AgentFiles WITH told <- confirmed, faults <- fileFaults, MaxFaults <- MaxFileFaults

schedulerVars == vars
filesVars == <<files, safe, aside, database, stage, write, jobs, states, identity,
               confirmed, unwanted, deleted, identified, damaged, fileFaults, ends>>
\* Every unit, a weekday left out, and a short interval that falls behind.
SomeSchedules ==
    {[unit |-> "days", interval |-> 1, weekdays |-> {}],
     [unit |-> "days", interval |-> 1, weekdays |-> {0, 2}],
     [unit |-> "weeks", interval |-> 1, weekdays |-> {}],
     [unit |-> "hours", interval |-> 2, weekdays |-> {}],
     [unit |-> "hours", interval |-> 3, weekdays |-> {1}]}
SomeStarts == {-2, 1, 2}

MCInit ==
  /\ part \in {"scheduler", "files"}
  /\ Init /\ Files!Init
  /\ part # "scheduler" => state.next = 1 /\ job.schedule = CHOOSE s \in Schedules : TRUE
  /\ part # "files" => database = "none" /\ identified = 0

MCNext ==
  \/ part = "scheduler" /\ Next /\ UNCHANGED <<part, filesVars>>
  \/ part = "files" /\ Files!Next /\ UNCHANGED <<part, schedulerVars>>

MCSpec == MCInit /\ [][MCNext]_<<part, schedulerVars, filesVars>>

\* A schedule keeps its hour and its pace, and the dashboard announces its runs.
ScheduleKept == part = "scheduler" => ScheduleHolds /\ PreviewHolds

\* A schedule's runs stand for its times, and those that were missed are told.
RunsAreTold == part = "scheduler" => RunsAsScheduled /\ MissedIsTold

\* An agent's files survive whatever ends its process (AgentFiles).
FilesAreKept == part = "files" => Files!FilesHold
=============================================================================
