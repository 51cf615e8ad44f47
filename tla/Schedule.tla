------------------------------ MODULE Schedule ------------------------------
(***************************************************************************)
(* When a schedule runs next (shared/src/schedule.ts): pure functions of   *)
(* the schedule, the run they count from and the clock.                    *)
(*                                                                         *)
(* Time is counted in hours of a scaled-down calendar: a day has Day       *)
(* hours, a week Week days, and the clocks change twice.  On GapDay the    *)
(* hour ChangeHour does not exist, on FoldDay it comes twice.              *)
(***************************************************************************)
EXTENDS Integers, Sequences, FiniteSets, FiniteSetsExt

CONSTANTS Day, Week, GapDay, FoldDay, ChangeHour,
          MaxCatchup    \* MAX_CATCHUP_STEPS

ASSUME CalendarAssumption ==
    /\ Day \in Nat /\ Day > 2 /\ Week \in Nat \ {0}
    /\ GapDay \in Nat /\ FoldDay \in Nat /\ GapDay # FoldDay
    /\ ChangeHour \in 0 .. Day - 2 /\ MaxCatchup \in Nat

None == -1      \* null where a time is expected

Units == {"hours", "days", "weeks"}
ScheduleConfig == [unit : Units, interval : Nat \ {0}, weekdays : SUBSET (0 .. Week - 1)]

-----------------------------------------------------------------------------
(***************************************************************************)
(* The local clock.                                                        *)
(***************************************************************************)
DayStart(d) ==
    d * Day - (IF GapDay < d THEN 1 ELSE 0) + (IF FoldDay < d THEN 1 ELSE 0)

DayOf(t) ==
    CHOOSE d \in (t \div Day) - 1 .. (t \div Day) + 1 :
        d >= 0 /\ DayStart(d) <= t /\ t < DayStart(d + 1)

\* getHours.
HourOf(t) ==
    LET day == DayOf(t)
        passed == t - DayStart(day) IN
    CASE day = GapDay /\ passed >= ChangeHour -> passed + 1
      [] day = FoldDay /\ passed > ChangeHour -> passed - 1
      [] OTHER -> passed

\* setDate and setHours: an hour that does not exist is the one after it, one
\* that comes twice is the first of them.
At(d, h) ==
    CASE d = GapDay /\ h > ChangeHour -> DayStart(d) + h - 1
      [] d = FoldDay /\ h > ChangeHour -> DayStart(d) + h + 1
      [] OTHER -> DayStart(d) + h

WeekdayOf(t) == DayOf(t) % Week

-----------------------------------------------------------------------------
(***************************************************************************)
(* The next run.                                                           *)
(***************************************************************************)
\* UNIT_DAYS; a schedule without it counts hours (UNIT_MULTIPLIERS).
UnitDays == [days |-> 1, weeks |-> Week]
IsCalendar(s) == s.unit \in DOMAIN UnitDays

\* Mutant: the time of day of the run before, moved as it may be.
AddCalendarDaysOfDate(date, days, clock) == At(DayOf(date) + days, HourOf(date))

AddCalendarDays(date, days, clock) ==
    At(DayOf(date) + days, HourOf(IF clock # None THEN clock ELSE date))

Allowed(s, t) == s.weekdays = {} \/ WeekdayOf(t) \in s.weekdays

\* Mutant: the weekdays are not looked at.
NextRunAfterAnyDay(s, from, anchor) ==
    IF IsCalendar(s) THEN AddCalendarDays(from, s.interval * UnitDays[s.unit], anchor)
    ELSE from + s.interval

NextRunAfter(s, from, anchor) ==
    LET clock == IF IsCalendar(s) THEN anchor ELSE None
        first == IF IsCalendar(s) THEN AddCalendarDays(from, s.interval * UnitDays[s.unit], clock)
                 ELSE from + s.interval
        day[k \in 0 .. 2 * Week] == IF k = 0 THEN first ELSE AddCalendarDays(day[k - 1], 1, clock)
        fits == {k \in 0 .. 2 * Week : Allowed(s, day[k])}
    IN  IF Allowed(s, first) THEN first ELSE day[IF fits = {} THEN 2 * Week ELSE Min(fits)]

\* The first run after `now`, and how many times have come by then.
NextRunPast(s, from, now, anchor) ==
    LET run[i \in 0 .. MaxCatchup] ==
            NextRunAfter(s, IF i = 0 THEN from ELSE run[i - 1], anchor)
        past == {i \in 0 .. MaxCatchup : run[i] > now}
    IN  IF past # {}
        THEN [next |-> run[Min(past)], due |-> Min(past) + 1, resynced |-> FALSE]
        ELSE [next |-> NextRunAfter(s, now, anchor), due |-> MaxCatchup + 1, resynced |-> TRUE]

\* The next `count` runs of a schedule that starts at `start`.
UpcomingRuns(s, start, now, count) ==
    LET run[i \in 1 .. count] ==
            IF i = 1 THEN IF start <= now THEN now ELSE start
            ELSE IF i = 2 /\ start <= now THEN NextRunPast(s, start, now, start).next
            ELSE NextRunAfter(s, run[i - 1], start)
    IN  run
=============================================================================
