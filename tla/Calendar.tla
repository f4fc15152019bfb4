------------------------------ MODULE Calendar ------------------------------
(***************************************************************************)
(* modules/recurring/schedule.ts on a calendar of months and leap years,   *)
(* and what a series' requests make of it: saving one, the worker's run,   *)
(* an edit from the form's own start, a pause and a resumption.            *)
(*                                                                         *)
(* A date is a number of days, 0 being Friday, 1 January 2027; months      *)
(* count from the same day, and the clock counts half days, as in          *)
(* Schedule.  Recurring has the interleavings, the counts and the          *)
(* failures, and the cap on the entries of one run; here each request is   *)
(* one step, and what is asked is on which dates the entries are.          *)
(***************************************************************************)
EXTENDS Schedule, FiniteSets, FiniteSetsExt

CONSTANTS
  Forms,    \* the rules that people fill in, without their start
  Visits    \* bound: the days on which anything happens

ASSUME VisitsAssumption == IsFiniteSet(Visits) /\ Visits # {} /\ Visits \subseteq Nat

VARIABLES
  now,      \* half days
  rule,     \* the template's schedule, or None before it is saved
  next,     \* the day of next_run_at
  last,     \* the latest recurring_occurrences.occurrence_date
  paused,
  settled   \* up to which day every date has been made, or is skipped

calendarVars == <<now, rule, next, last, paused, settled>>

LastDay == Max(Visits)

-----------------------------------------------------------------------------
(* The civil calendar. *)

Year(m) == 2027 + (m \div 12)
MonthOfYear(m) == (m % 12) + 1
IsLeap(y) == (y % 4 = 0 /\ y % 100 # 0) \/ y % 400 = 0

\* far enough ahead for any step from LastDay
LastMonth == (LastDay \div 28) + 26
DaysBefore == <<0, 31, 59, 90, 120, 151, 181, 212, 243, 273, 304, 334>>
LeapDays(m) == Cardinality({n \in 0..(m - 1) : MonthOfYear(n) = 2 /\ IsLeap(Year(n))})
MonthStart == [m \in 0..(LastMonth + 1) |->
                 (365 * (m \div 12)) + DaysBefore[MonthOfYear(m)] + LeapDays(m)]
DaysInMonth(m) == MonthStart[m + 1] - MonthStart[m]
MonthEnd(m) == MonthStart[m + 1] - 1
MonthOfDay == [d \in 0..MonthEnd(LastMonth) |->
                 CHOOSE m \in 0..LastMonth : MonthStart[m] <= d /\ d <= MonthEnd(m)]
MonthOf(d) == MonthOfDay[d]
Weekday(d) == ((d + 4) % 7) + 1
WeekStart(d) == d - (Weekday(d) - 1)

-----------------------------------------------------------------------------
(* The dates of a rule, as schedule.ts walks them. *)

Earlier(d, e) == IF d < e THEN d ELSE e
Later(d, e) == IF d < e THEN e ELSE d

\* Mutant: the day as it is, which a short month carries over into the next.
WithDayUnclamped(m, day) == MonthStart[m] + day - 1
WithDayOfMonth(m, day) == MonthStart[m] + Earlier(day, DaysInMonth(m)) - 1

LastWeek == 0  \* weekOfMonth "last"; 1 to 4 are themselves
WithWeekdayOfMonth(m, weekday, week) ==
  LET nth == MonthStart[m] + ((weekday - Weekday(MonthStart[m])) % 7) + (7 * (week - 1))
  IN  IF week = LastWeek THEN MonthEnd(m) - ((Weekday(MonthEnd(m)) - weekday) % 7)
      ELSE IF nth <= MonthEnd(m) THEN nth ELSE nth - 7

MonthlyDayIn(m, r) ==
  IF r.week # None THEN WithWeekdayOfMonth(m, r.weekday, r.week)
  ELSE WithDayOfMonth(m, r.day)

CivilWithinRange(r, d) ==
  IF d < r.start \/ (r.end # None /\ d > r.end) THEN None ELSE d

\* the month a yearly rule falls in, in the year of month m
MonthIn(m, r) ==
  m - MonthOfYear(m) + (IF r.month = None THEN MonthOfYear(MonthOf(r.start)) ELSE r.month)

CivilFirstOccurrence(r) ==
  LET m == MonthOf(r.start)
      OnOrAfter(d, e) == IF d < r.start THEN e ELSE d
  IN  CivilWithinRange(r,
        CASE r.frequency = "daily" -> r.start
          [] r.frequency = "weekly" -> r.start + ((r.weekday - Weekday(r.start)) % 7)
          [] r.frequency = "monthly" ->
               OnOrAfter(MonthlyDayIn(m, r), MonthlyDayIn(m + 1, r))
          [] r.frequency = "yearly" ->
               OnOrAfter(WithDayOfMonth(MonthIn(m, r), r.day),
                         WithDayOfMonth(MonthIn(m + 12, r), r.day)))

NextOccurrence(r, previous) ==
  CivilWithinRange(r,
    CASE r.frequency = "daily" -> previous + r.interval
      [] r.frequency = "weekly" -> previous + (7 * r.interval)
      [] r.frequency = "monthly" -> MonthlyDayIn(MonthOf(previous) + r.interval, r)
      [] r.frequency = "yearly" ->
           WithDayOfMonth(MonthOf(previous) + (12 * r.interval), r.day))

OccurrenceAfter(r, previous) ==
  IF previous = None \/ previous < r.start THEN CivilFirstOccurrence(r)
  ELSE NextOccurrence(r, previous)

\* the first date of the walk from current that is past day
WalkPast(r, current, day) ==
  LET Walk[d \in Int \cup {None}] ==
        IF d = None \/ d > day THEN d ELSE Walk[NextOccurrence(r, d)]
  IN  Walk[current]

\* where a resumed series picks up: firstOccurrenceDueAfter
FirstOccurrenceDueAfter(r, day, from) == WalkPast(r, OccurrenceAfter(r, from), day)

OccurrencesFrom(r, current, until, floor) ==
  LET Walk[d \in Int \cup {None}] ==
        IF d = None \/ d > until THEN {}
        ELSE {e \in {d} : floor = None \/ e >= floor} \cup Walk[NextOccurrence(r, d)]
  IN  Walk[current]

OccurrencesUpTo(r, until, from, floor) ==
  OccurrencesFrom(r, OccurrenceAfter(r, from), until, floor)

-----------------------------------------------------------------------------
(* Where an edit starts. *)

PeriodStart(frequency, d) ==
  CASE frequency = "daily" -> d
    [] frequency = "weekly" -> WeekStart(d)
    [] frequency \in {"monthly", "yearly"} -> MonthStart[MonthOf(d)]

EarliestStart == IF last = None THEN Today(now) ELSE Later(last + 1, Today(now))

\* Mutant: the first day an edit may start on, whatever the next date is.
EditFromEarliest == EarliestStart
\* what the form offers: editWindow(...).from
EditFrom ==
  Later(PeriodStart(rule.frequency, IF next = None THEN EarliestStart ELSE next),
        EarliestStart)

-----------------------------------------------------------------------------
(* Requests and runs.  A run ends with the marker on the first date past   *)
(* the last it has made that is not before the one it started from.        *)

CalendarInit ==
  /\ now \in {2 * d : d \in Visits}
  /\ rule = None /\ next = None /\ last = None /\ paused = FALSE /\ settled = None

\* nine o'clock, or the next of the days on which anything happens
TimePasses ==
  /\ rule # None /\ now < (2 * LastDay) + 1
  /\ now' = IF now % 2 = 0 THEN now + 1 ELSE 2 * Min({d \in Visits : d > Today(now)})
  /\ UNCHANGED <<rule, next, last, paused, settled>>

RunTo(r, due, from, floor) ==
  LET dates == OccurrencesUpTo(r, due, from, floor)
      latest == IF dates = {} THEN from ELSE Max(dates)
  IN  /\ last' = latest
      /\ next' = LET upcoming == OccurrenceAfter(r, latest)
                 IN  IF floor = None THEN upcoming ELSE WalkPast(r, upcoming, floor - 1)

\* setUpRecurringExpense: dates that have come are made at once, whatever the hour
Save ==
  /\ rule = None
  /\ \E form \in Forms, start \in Visits :
       LET r == [form EXCEPT !.start = start]
           first == CivilFirstOccurrence(r)
       IN  /\ first # None
           /\ rule' = r
           /\ IF first <= Today(now) THEN RunTo(r, Today(now), None, first)
              ELSE next' = first /\ last' = None
           /\ settled' = Later(start - 1, Today(now))
  /\ UNCHANGED <<now, paused>>

Run ==
  /\ rule # None /\ ~paused
  /\ ~(next # None /\ next > DueThrough(now))
  /\ RunTo(rule, DueThrough(now), last, next)
  /\ settled' = Later(settled, DueThrough(now))
  /\ UNCHANGED <<now, rule, paused>>

\* updateRecurringExpense with the start the form offered
EditSeries ==
  /\ rule # None
  /\ \E form \in Forms :
       LET r == [form EXCEPT !.start = Later(EditFrom, EarliestStart)]
       IN  /\ ~(r.end # None /\ r.end < r.start)
           /\ rule' = r
           /\ next' = CivilFirstOccurrence(r)
           /\ settled' = r.start - 1
  /\ UNCHANGED <<now, last, paused>>

PauseSeries ==
  /\ rule # None /\ ~paused
  /\ paused' = TRUE
  /\ UNCHANGED <<now, rule, next, last, settled>>

ResumeSeries ==
  /\ paused
  /\ paused' = FALSE
  /\ next' = FirstOccurrenceDueAfter(rule, DueThrough(now), last)
  /\ settled' = Later(settled, DueThrough(now))
  /\ UNCHANGED <<now, rule, last>>

CalendarNext == TimePasses \/ Save \/ Run \/ EditSeries \/ PauseSeries \/ ResumeSeries
CalendarSpec == CalendarInit /\ [][CalendarNext]_calendarVars

-----------------------------------------------------------------------------
(* What a rule says, without walking: the days that fit it, one in every   *)
(* `interval` of its periods counted from the first of them.               *)

DayOfMonth(d) == d - MonthStart[MonthOf(d)] + 1

FitsDay(r, d) ==
  DayOfMonth(d) = r.day \/ (DayOfMonth(d) < r.day /\ d = MonthEnd(MonthOf(d)))
FitsWeekday(r, d) ==
  /\ Weekday(d) = r.weekday
  /\ IF r.week = LastWeek THEN MonthOf(d + 7) # MonthOf(d)
     ELSE (DayOfMonth(d) + 6) \div 7 = r.week

Fits(r, d) ==
  CASE r.frequency = "daily" -> TRUE
    [] r.frequency = "weekly" -> Weekday(d) = r.weekday
    [] r.frequency = "monthly" -> IF r.week = None THEN FitsDay(r, d) ELSE FitsWeekday(r, d)
    [] r.frequency = "yearly" -> MonthOf(d) = MonthIn(MonthOf(d), r) /\ FitsDay(r, d)

Period(r, d) ==
  CASE r.frequency = "daily" -> d
    [] r.frequency = "weekly" -> WeekStart(d) \div 7
    [] r.frequency = "monthly" -> MonthOf(d)
    [] r.frequency = "yearly" -> Year(MonthOf(d))

\* the period of the first
Anchor(r) ==
  Period(r, CHOOSE d \in r.start..MonthEnd(LastMonth) :
              Fits(r, d) /\ \A e \in r.start..(d - 1) : ~Fits(r, e))

Named(r, d) ==
  /\ d >= r.start /\ (r.end = None \/ d <= r.end) /\ Fits(r, d)
  /\ r.interval = 1 \/ (Period(r, d) - Anchor(r)) % r.interval = 0

-----------------------------------------------------------------------------
(* Properties. *)

CalendarTypeOK ==
  /\ now \in 0..((2 * LastDay) + 1) /\ paused \in BOOLEAN
  /\ {next, last, settled} \subseteq Int \cup {None}

(* The series' next date is the first its rule names after what is         *)
(* settled, however many short months, leap days, outages, pauses and      *)
(* edits lie between: the walk of schedule.ts, one date from the date      *)
(* before, neither drifts, loses a date nor takes one twice.               *)
NextIsNamed ==
  rule # None =>
    LET until == IF next = None THEN rule.end ELSE next
    IN  {d \in (settled + 1)..until : Named(rule, d)} = {next} \ {None}
NextAsNamed == [][next' # next \/ settled' # settled => NextIsNamed']_calendarVars

(* An edit that is submitted as the form offers it, while the next date is *)
(* still to come, leaves that date where it is if it leaves the schedule   *)
(* alone, and never gives the period of the last entry a second one        *)
(* ("not twice in October": schedule.ts:494).                              *)
SameSchedule == [rule' EXCEPT !.start = 0] = [rule EXCEPT !.start = 0]
SamePeriod(d, e) == PeriodStart(rule.frequency, d) = PeriodStart(rule.frequency, e)
EditInTime == rule # None /\ rule' # rule /\ next # None /\ next >= Today(now)
MovesDay == rule'.frequency = rule.frequency /\ next' # None /\ last # None
EditKeepsDates ==
  [][EditInTime =>
       /\ SameSchedule => next' = next
       /\ MovesDay /\ SamePeriod(last, next') => SamePeriod(last, next)]_calendarVars

(* "A series whose schedule did not change keeps its next date"            *)
(* (service.ts:633), or, when that has gone by, one of its dates.  This    *)
(* fails: an edit of a paused series starts in the month or week of the    *)
(* edit, so that a rule of every second month takes the other months, and  *)
(* a yearly one that names no month takes the month of the edit.           *)
CadenceKept ==
  [][rule # None /\ rule' # rule /\ SameSchedule /\ next # None =>
       next' = None \/ Named(rule, next')]_calendarVars
=============================================================================
