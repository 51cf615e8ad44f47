----------------------------- MODULE JobQueue ------------------------------
(***************************************************************************)
(* What the agent promises about the runs of its jobs, without slots,      *)
(* queues, processes or timers: at most one run of a job is under way, a   *)
(* run that is over never comes back, and a crash ends or puts back in     *)
(* line what was under way.                                                *)
(***************************************************************************)
CONSTANTS
    Runs,   \* requested runs
    JobOf,  \* the job each of them is a run of
    NoJob   \* "job" of a restore, which excludes no other run

VARIABLE state   \* where each run is

States == {"new", "waiting", "active", "over"}

Init == state = [r \in Runs |-> "new"]

Excluded(r) == JobOf[r] # NoJob /\ \E s \in Runs \ {r} :
                   JobOf[s] = JobOf[r] /\ state[s] = "active"

Wait(r) == state[r] = "new" /\ state' = [state EXCEPT ![r] = "waiting"]

Begin(r) == /\ state[r] \in {"new", "waiting"}
            /\ ~Excluded(r)
            /\ state' = [state EXCEPT ![r] = "active"]

\* A run ends, also one that was refused or taken out of the line.
End(r) == state[r] # "over" /\ state' = [state EXCEPT ![r] = "over"]

Crash == /\ state' \in [Runs -> States]
         /\ \A r \in Runs : \/ state'[r] = state[r]
                            \/ state[r] = "active" /\ state'[r] \in {"waiting", "over"}

Next == Crash \/ \E r \in Runs : Wait(r) \/ Begin(r) \/ End(r)

Spec == Init /\ [][Next]_state
=============================================================================
