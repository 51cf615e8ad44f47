------------------------------ MODULE Cleanup ------------------------------
(***************************************************************************)
(* The server's cleanup of its history: the timer that survives restarts,  *)
(* the row it keeps in the database (server: ScheduledJob,                 *)
(* SchedulerStateRepository, JobHistoryCleanupService), the settings it    *)
(* reads, in memory and in config.yaml (SettingsService), and the page an  *)
(* operator changes them on (frontend: Settings), while another one may.   *)
(*                                                                         *)
(* The history is that of one client: a run is the time it started at.  A  *)
(* run of the cleanup takes no time, but the server may die in it.         *)
(***************************************************************************)
EXTENDS Integers, FiniteSets

CONSTANTS
  Offered,    \* the settings operators choose from
  MaxTime, MaxRuns, MaxEdits, MaxFaults  \* bounds

VARIABLES
  now,
  stored,   \* the settings in config.yaml
  settings, \* those in memory
  up,
  timer,    \* when it fires
  planned, running, last, \* the scheduler's row: `next_run_at`, `running_*`, `last_*`
  rows,     \* the client's history
  page,     \* <<>> or <<the open settings page>>
  waiting,  \* history: since when the cleanup has been due to run once more
  hasty,    \* history: the timer started a run before its interval was over
  newest,   \* history: the last run that started
  unwritten, \* history: a write of the settings failed since the start: the same settings,
             \* saved again, do not differ from those in memory and restart no timer
  edits, faults

cleanupVars == <<now, stored, settings, up, timer, planned, running, last, rows, page, waiting,
                 hasty, newest, unwritten, edits, faults>>

Never == -1

Init ==
  /\ now = 0 /\ settings \in Offered /\ stored = settings
  /\ up = FALSE /\ timer = Never /\ planned = Never
  /\ running = Never /\ last = [started |-> Never, trigger |-> "schedule"]
  /\ rows = {} /\ page = <<>>
  /\ waiting = 0 /\ hasty = FALSE /\ newest = Never /\ unwritten = FALSE
  /\ edits = 0 /\ faults = 0

Later(a, b) == IF a > b THEN a ELSE b
Faulty == faults < MaxFaults /\ faults' = faults + 1

-----------------------------------------------------------------------------
(***************************************************************************)
(* The timer.  A run that was begun counts as the last one, however it     *)
(* ended: the next one comes one interval after it.                        *)
(***************************************************************************)
\* Mutant: a restart does not look at what was planned.
FromNow(interval) == now + interval

FirstRun(interval) ==
  CASE last.started # Never -> Later(now, last.started + interval)
    [] last.started = Never /\ planned # Never /\ planned <= now + interval -> Later(now, planned)
    [] OTHER -> now + interval

Disable == timer' = Never /\ planned' = Never
Start(interval) ==
  IF interval = 0 THEN Disable
  ELSE timer' = FirstRun(interval) /\ planned' = timer'

\* Only before its first run is an interval counted from when it was chosen.
WaitingAfter(before, after) ==
  IF last.started = Never /\ before # after THEN now ELSE waiting

-----------------------------------------------------------------------------
(***************************************************************************)
(* A run: it deletes what is older than so many days, but of every client  *)
(* keeps the newest.  Without an age limit the number alone decides.       *)
(***************************************************************************)
MinKeep(s) == Later(1, s.count)
Rank(row) == Cardinality({r \in rows : r >= row})
Old(s) == {row \in rows : Rank(row) > MinKeep(s) /\ (row < now - s.days \/ s.days = 0)}

Finished(trigger) == last' = [started |-> now, trigger |-> trigger]

\* It went through, or the deletion failed.
Completes(trigger) ==
  /\ running' = Never /\ waiting' = now
  /\ Finished(trigger)
  /\ \/ rows' = rows \ Old(settings) /\ UNCHANGED faults
     \/ Faulty /\ UNCHANGED rows

\* The server dies in it: only its beginning was written.
Die == up' = FALSE /\ timer' = Never

Fire ==
  /\ up /\ timer # Never /\ timer <= now
  /\ hasty' = (hasty \/ (~unwritten /\ last.trigger = "schedule" /\ last.started # Never
                         /\ now < last.started + settings.interval))
  /\ \/ /\ Completes("schedule")
        /\ IF settings.interval = 0 THEN Disable
           ELSE timer' = now + settings.interval /\ planned' = timer'
        /\ UNCHANGED up
     \/ /\ Faulty /\ Die /\ running' = now /\ waiting' = now
        /\ UNCHANGED <<planned, last, rows>>
  /\ UNCHANGED <<now, stored, settings, page, newest, unwritten, edits>>

\* An operator's run moves the timer only by the next start.
RunNow ==
  /\ up /\ Completes("manual")
  /\ UNCHANGED <<now, stored, settings, up, timer, planned, page, hasty, newest, unwritten,
                 edits>>

-----------------------------------------------------------------------------
(***************************************************************************)
(* The server starts and stops.                                            *)
(***************************************************************************)
Interrupted == IF running = Never THEN last
               ELSE [started |-> running, trigger |-> "schedule"]

StartServer ==
  /\ ~up /\ up' = TRUE /\ settings' = stored
  /\ IF running # Never
     THEN last' = Interrupted /\ running' = Never
     ELSE UNCHANGED <<last, running>>
  /\ LET interval == stored.interval
         first == IF running # Never THEN Later(now, running + interval) ELSE FirstRun(interval)
     IN IF interval = 0 THEN Disable ELSE timer' = first /\ planned' = first
  /\ waiting' = IF last.started = Never /\ (planned = Never \/ unwritten) THEN now
                ELSE waiting
  /\ unwritten' = FALSE
  /\ UNCHANGED <<now, stored, rows, page, hasty, newest, edits, faults>>

StopServer ==
  /\ up /\ Faulty /\ Die
  /\ UNCHANGED <<now, stored, settings, planned, running, last, rows, page, waiting, hasty, newest, unwritten,
                 edits>>

-----------------------------------------------------------------------------
(***************************************************************************)
(* Settings are changed in memory, then written; the timer starts over     *)
(* once they were.                                                         *)
(***************************************************************************)
Update(new) ==
  /\ edits < MaxEdits /\ edits' = edits + 1
  /\ settings' = new
  /\ \/ /\ stored' = new
        /\ IF new # settings THEN Start(new.interval) ELSE UNCHANGED <<timer, planned>>
        /\ waiting' = WaitingAfter(stored.interval, new.interval)
        /\ UNCHANGED <<faults, unwritten>>
     \/ Faulty /\ unwritten' = TRUE /\ UNCHANGED <<stored, timer, planned, waiting>>
  /\ UNCHANGED <<now, up, running, last, rows, hasty, newest>>

Accepted == stored' = settings'

\* The page is read once, and sends its fields, whatever was changed since.
OpenPage ==
  /\ up /\ page = <<>>
  /\ page' = <<[saved |-> settings, draft |-> settings,
              since |-> IF settings = stored THEN "read" ELSE "never written"]>>
  /\ UNCHANGED <<now, stored, settings, up, timer, planned, running, last, rows, waiting, hasty,
                 newest, unwritten, edits, faults>>

ClosePage ==
  /\ page # <<>> /\ page' = <<>>
  /\ UNCHANGED <<now, stored, settings, up, timer, planned, running, last, rows, waiting, hasty,
                 newest, unwritten, edits, faults>>

Type(new) ==
  /\ page # <<>> /\ new # page[1].draft /\ page' = <<[page[1] EXCEPT !.draft = new]>>
  /\ UNCHANGED <<now, stored, settings, up, timer, planned, running, last, rows, waiting, hasty,
                 newest, unwritten, edits, faults>>

IsDirty == page[1].draft # page[1].saved

Save ==
  /\ up /\ page # <<>> /\ IsDirty /\ Update(page[1].draft)
  /\ page' = IF Accepted THEN <<[page[1] EXCEPT !.saved = page[1].draft, !.since = "saved"]>>
             ELSE page

OtherSaves(new) ==
  /\ up /\ Update(new)
  /\ page' = IF page = <<>> THEN <<>> ELSE <<[page[1] EXCEPT !.since = "changed elsewhere"]>>

-----------------------------------------------------------------------------
RunStarts ==
  /\ Cardinality(rows) < MaxRuns /\ now \notin rows /\ rows' = rows \cup {now} /\ newest' = now
  /\ UNCHANGED <<now, stored, settings, up, timer, planned, running, last, page, waiting, hasty,
                 unwritten, edits, faults>>

\* A timer that is due fires before more time passes.
Passes ==
  /\ now < MaxTime /\ (up /\ timer # Never => timer > now) /\ now' = now + 1
  /\ UNCHANGED <<stored, settings, up, timer, planned, running, last, rows, page, waiting, hasty,
                 newest, unwritten, edits, faults>>

Next ==
  \/ Fire \/ RunNow \/ StartServer \/ StopServer
  \/ OpenPage \/ ClosePage \/ Save \/ \E new \in Offered : Type(new) \/ OtherSaves(new)
  \/ RunStarts \/ Passes

-----------------------------------------------------------------------------
\* As long as no write of the settings failed: while the cleanup is switched
\* on, it comes one interval after its last run, or after it was chosen, or at
\* once, but never later, however often the server is restarted or dies in a
\* run, and whatever else is edited.
ComesOnTime ==
  up /\ ~unwritten /\ settings.interval > 0
    => timer # Never /\ timer <= Later(now, waiting + settings.interval)

\* A page without unsaved fields shows what a restart would find, unless they
\* were changed elsewhere.
PageShowsStored ==
  page # <<>> /\ ~IsDirty /\ page[1].since \in {"read", "saved"} /\ ~unwritten
    => page[1].draft = stored

\* The cleanup runs in time and not before, leaves a client its last run, and
\* its page shows the settings.
CleanupHolds == ComesOnTime /\ ~hasty /\ (newest # Never => newest \in rows) /\ PageShowsStored
=============================================================================
