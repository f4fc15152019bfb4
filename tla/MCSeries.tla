------------------------------ MODULE MCSeries ------------------------------
(***************************************************************************)
(* RecurringHistory and Calendar for TLC: which dates of a series are made *)
(* when it stands still, changes or loses people, and which dates those    *)
(* are on a calendar.  They share no state, so a behaviour is one of one   *)
(* of them: `side` says whose, and the other stays in an initial state.    *)
(***************************************************************************)
EXTENDS RecurringHistory, Calendar, TLC

\* a day or a week at a time without an end, and twice
OpenEnded ==
  {[start |-> 1, unit |-> 1, interval |-> 1, weekday |-> 0, end |-> None, count |-> None],
   [start |-> 1, unit |-> 2, interval |-> 1, weekday |-> 0, end |-> None, count |-> None],
   [start |-> 1, unit |-> 1, interval |-> 1, weekday |-> 0, end |-> None, count |-> 2]}

Form(frequency, interval, weekday, week, day, month, end) ==
  [frequency |-> frequency, interval |-> interval, weekday |-> weekday, week |-> week,
   day |-> day, month |-> month, start |-> 0, end |-> end]

\* the 31st, every second 5th, the last Friday, the fourth Monday until 19 July,
\* every second Wednesday, 30 February, the 30th of the month it starts in, and
\* every third day until 10 April
AllSorts ==
  {Form("monthly", 1, None, None, 31, None, None),
   Form("monthly", 2, None, None, 5, None, None),
   Form("monthly", 1, 5, LastWeek, None, None, None),
   Form("monthly", 1, 1, 4, None, None, 199),
   Form("weekly", 2, 3, None, None, None, None),
   Form("yearly", 1, None, None, 30, 2, None),
   Form("yearly", 1, None, None, 30, None, None),
   Form("daily", 3, None, None, None, None, 99)}

VARIABLE side

seriesVars == <<calendarVars, historyVars, side>>

SeriesInit ==
  /\ HistoryInit /\ CalendarInit
  /\ side \in {"history", "calendar"}
  /\ side = "history" => now = 2 * Min(Visits)

SeriesNext ==
  \/ /\ side = "history" /\ HistoryNext /\ Undisturbed
     /\ UNCHANGED <<calendarVars, side>>
  \/ /\ side = "calendar" /\ CalendarNext
     /\ UNCHANGED <<historyVars, side>>

SeriesSpec == SeriesInit /\ [][SeriesNext]_seriesVars
=============================================================================
