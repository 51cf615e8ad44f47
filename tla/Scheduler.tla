----------------------------- MODULE Scheduler -----------------------------
(***************************************************************************)
(* The agent's scheduler and the schedule state of one job (agent:         *)
(* Scheduler, SchedulePlan, JobScheduleStateRepository, handleJobSave).    *)
(* The loop treats each job by itself.  It looks once in every unit of the *)
(* clock while the agent is up; an agent that is down, or asleep, does not *)
(* look at all.                                                            *)
(***************************************************************************)
EXTENDS Schedule, SequencesExt

CONSTANTS
    Schedules,     \* those an operator may enter
    Starts,        \* when a schedule may start, counted from the save
    MissedAfter,   \* MISSED_AFTER_MS
    MaxTime,       \* bound: the clock
    MaxSaves,      \* bound: saves
    MaxOutages,    \* bound: times the agent is down
    MaxFaults      \* bound: writes that fail and states that cannot be read

ASSUME SchedulerAssumption ==
    /\ Schedules \subseteq ScheduleConfig /\ Starts \subseteq Int
    /\ MissedAfter \in Nat /\ MaxTime \in Nat
    /\ MaxSaves \in Nat /\ MaxOutages \in Nat /\ MaxFaults \in Nat

VARIABLES
    job,           \* JobRepository: the job's schedule and whether it is on
    state, file,   \* its ScheduleState, in memory and on disk
    now, up,
    looked,        \* run() was called in this unit
    entered,       \* history: what the operator entered last, while it tells all
    made, missed,  \* history: runs and missed entries since then
    undisturbed,   \* history: nobody saved, switched or stopped anything since
    saves, outages, faults

bounds == <<saves, outages, faults>>
told == <<entered, made, missed, undisturbed>>
vars == <<job, state, file, now, up, looked, told, bounds>>

NoState == [next |-> None, anchor |-> None, enteredAt |-> None]
Nothing == [start |-> None, at |-> None]

Times == {None} \cup Nat
StateRow == [next : Times, anchor : Times, enteredAt : Times]

TypeOK ==
    /\ job \in [schedule : Schedules, on : BOOLEAN]
    /\ state \in StateRow /\ file \in StateRow
    /\ now \in 0 .. MaxTime /\ up \in BOOLEAN /\ looked \in BOOLEAN
    /\ entered \in [start : Times, at : Times]
    /\ \A i \in DOMAIN made : made[i] \in 0 .. MaxTime
    /\ \A m \in missed : m.at \in 0 .. MaxTime /\ m.due \in Nat \ {0}
    /\ undisturbed \in BOOLEAN

Init ==
    /\ \E s \in Schedules : job = [schedule |-> s, on |-> TRUE]
    /\ \E offset \in Starts \cap Nat : state = [next |-> offset, anchor |-> offset, enteredAt |-> 0]
    /\ file = state
    /\ now = 0 /\ up = TRUE /\ looked = FALSE
    /\ entered = [start |-> state.anchor, at |-> 0]
    /\ made = <<>> /\ missed = {} /\ undisturbed = TRUE
    /\ saves = 0 /\ outages = 0 /\ faults = 0

-----------------------------------------------------------------------------
Fault == faults < MaxFaults /\ faults' = faults + 1 /\ UNCHANGED <<saves, outages>>

\* persist: a write that fails is shrugged off.
Persist(s) == state' = s /\ file' = s /\ UNCHANGED bounds
PersistOrNot(s) == Persist(s) \/ (state' = s /\ Fault /\ UNCHANGED file)

Forget == entered' = Nothing /\ made' = <<>> /\ missed' = {} /\ undisturbed' = FALSE

\* insert: a job without state is due from now on.
Initialise ==
    /\ PersistOrNot([next |-> now, anchor |-> None, enteredAt |-> None])
    /\ Forget

\* isMissedRun.
IsMissed(scheduled, enteredAt) ==
    /\ now - scheduled > MissedAfter
    /\ ~(enteredAt # None /\ scheduled <= enteredAt)

\* planDueRun and what run() makes of it.  A schedule that was anchored on
\* `now` no longer keeps the times that were entered.
RunDue ==
    LET plan == NextRunPast(job.schedule, state.next, now, state.anchor) IN
    /\ PersistOrNot([state EXCEPT !.next = plan.next])
    /\ IF entered = Nothing \/ plan.resynced THEN Forget
       ELSE /\ made' = Append(made, now)
            /\ missed' = IF IsMissed(state.next, state.enteredAt)
                         THEN missed \cup {[at |-> now, since |-> state.next, due |-> plan.due]}
                         ELSE missed
            /\ UNCHANGED <<entered, undisturbed>>

\* Scheduler.run.
Look ==
    /\ up /\ ~looked /\ looked' = TRUE
    /\ \/ ~job.on /\ UNCHANGED <<state, file, told, bounds>>
       \/ job.on /\ state = NoState /\ Initialise
       \/ job.on /\ state # NoState /\ now >= state.next /\ RunDue
       \/ /\ job.on /\ state # NoState /\ now < state.next
          /\ UNCHANGED <<state, file, told, bounds>>
    /\ UNCHANGED <<job, now, up>>

Passes ==
    /\ now < MaxTime /\ now' = now + 1
    /\ up => looked
    /\ looked' = FALSE
    /\ UNCHANGED <<job, state, file, up, told, bounds>>

Saves == saves < MaxSaves /\ saves' = saves + 1

\* updateNextRun or insert, and markEntered.
SetStart(start) == [next |-> start, anchor |-> start, enteredAt |-> now]

\* handleJobSave of a schedule that is on, with its start.
SaveOn(s, offset) ==
    /\ up /\ Saves /\ UNCHANGED <<outages, faults>>
    /\ now + offset >= 0
    /\ job' = [schedule |-> s, on |-> TRUE]
    /\ state' = SetStart(now + offset) /\ file' = state'
    /\ entered' = [start |-> now + offset, at |-> now]
    /\ made' = <<>> /\ missed' = {}
    /\ undisturbed' = ~looked
    /\ UNCHANGED <<now, up, looked>>

\* handleJobSave of a schedule that is off, or on again with the time it was
\* switched off at.
Toggle ==
    /\ up /\ Saves /\ UNCHANGED <<outages, faults>>
    /\ job' = [job EXCEPT !.on = ~@]
    /\ state' = IF job'.on /\ state # NoState THEN [state EXCEPT !.enteredAt = now] ELSE state
    /\ file' = IF state' = state THEN file ELSE state'
    /\ undisturbed' = FALSE
    /\ UNCHANGED <<now, up, looked, entered, made, missed>>

Stop ==
    /\ up /\ outages < MaxOutages /\ outages' = outages + 1
    /\ up' = FALSE /\ undisturbed' = FALSE
    /\ UNCHANGED <<job, state, file, now, looked, entered, made, missed, saves, faults>>

\* The agent starts anew: what is on disk is what there is, and an entry that
\* does not parse is left out (parseScheduleStates).
Start ==
    /\ ~up /\ up' = TRUE /\ looked' = FALSE
    /\ \/ state' = file /\ UNCHANGED bounds
       \/ state' = NoState /\ state # NoState /\ Fault
    /\ IF state' = state THEN UNCHANGED told ELSE Forget
    /\ UNCHANGED <<job, file, now>>

Next ==
    \/ Look \/ Passes \/ Toggle \/ Stop \/ Start
    \/ \E s \in Schedules, offset \in Starts : SaveOn(s, offset)

Spec == Init /\ [][Next]_vars

-----------------------------------------------------------------------------
(***************************************************************************)
(* Properties.                                                             *)
(***************************************************************************)
\* Days and weeks keep the time of day that was entered, for good: a run that
\* had to move because its hour did not exist does not move those after it.
KeepsTimeOfDay ==
    IsCalendar(job.schedule) /\ state.anchor # None =>
        \/ HourOf(state.next) = HourOf(state.anchor)
        \/ (DayOf(state.next) = GapDay /\ HourOf(state.anchor) = ChangeHour)

\* Once the scheduler has looked, the next run lies ahead, or it is the first
\* of a job that had no state: no schedule runs at every look.
NextLiesAhead ==
    up /\ looked /\ job.on /\ state # NoState =>
        \/ state.next > now \/ state.enteredAt = now
        \/ (state.anchor = None /\ state.next = now)

\* A schedule keeps its hour and its pace.
ScheduleHolds == TypeOK /\ KeepsTimeOfDay /\ NextLiesAhead

\* The times a schedule was entered for, said without stepping from one to the
\* next; none for those whose weekdays shift a longer interval.
IsPlain(s) == s.weekdays = {} \/ (s.unit = "days" /\ s.interval = 1)
TimesOf(s, start) ==
    {start} \cup
    (IF IsCalendar(s)
     THEN {At(d, HourOf(start)) :
              d \in {d \in DayOf(start) + 1 .. DayOf(MaxTime) :
                        /\ (d - DayOf(start)) % (s.interval * UnitDays[s.unit]) = 0
                        /\ s.weekdays = {} \/ d % Week \in s.weekdays}}
     ELSE {t \in start + 1 .. MaxTime : (t - start) % s.interval = 0})

Scheduled == TimesOf(job.schedule, entered.start)
Between(times, a, b) == {t \in times : a < t /\ t <= b}
LastRun(i) == IF i = 1 THEN None ELSE made[i - 1]
CountsOn == entered # Nothing /\ IsPlain(job.schedule)

\* Every run stands for at least one time since the run before it, and no time
\* is passed by without a run.
RunsAsScheduled ==
    CountsOn => LET times == Scheduled IN
        /\ \A i \in DOMAIN made : Between(times, LastRun(i), made[i]) # {}
        /\ up /\ looked /\ job.on /\ state.enteredAt # now =>
               Between(times, LastRun(Len(made) + 1), now) = {}

\* A run is told to have been missed exactly if the first time it stands for
\* was longer ago than the grace and had not passed when the schedule was saved
\* or switched on, and the entry counts the times it stands for.
MissedIsTold ==
    CountsOn /\ state.enteredAt = entered.at =>
        LET all == Scheduled IN \A i \in DOMAIN made :
            LET times == Between(all, LastRun(i), made[i])
                first == Min(times)
                late == made[i] - first > MissedAfter /\ first > entered.at
            IN  {m \in missed : m.at = made[i]} =
                    IF late THEN {[at |-> made[i], since |-> first, due |-> Cardinality(times)]}
                    ELSE {}

\* What the dashboard announces is what the agent does, as long as nobody
\* saves, switches or stops anything.
PreviewHolds ==
    undisturbed =>
        IsPrefix(made, UpcomingRuns(job.schedule, entered.start, entered.at, Len(made)))
=============================================================================
