-------------------------- MODULE RecurringHistory --------------------------
(***************************************************************************)
(* Recurring with two history variables: the dates whose nine o'clock came *)
(* while the template was paused or its group archived, and the dates that *)
(* a run passed over because somebody named had left.                      *)
(***************************************************************************)
EXTENDS Recurring

VARIABLES missed, skipped

historyVars == <<vars, missed, skipped>>

(* An edit starts the series again: from its start on, dates count anew.   *)
StoodStill == Exists /\ (template.paused \/ archived)
CameDue == {d \in {DueThrough(clock')} : clock' = OccurrenceInstant(d)}
Before(dates, rule) == {d \in dates : d < rule.start}
TrackMissed ==
  missed' =
    IF clock' # clock /\ StoodStill THEN missed \cup CameDue
    ELSE IF Edit THEN Before(missed, template'.rule) ELSE missed

PassedOver ==
  {NextDate(a) : a \in {b \in Actors : Skip(b) /\ Unclaimed(NextDate(b))}}
TrackSkipped ==
  skipped' = IF Edit THEN Before(skipped, template'.rule)
             ELSE skipped \cup PassedOver

HistoryInit == Init /\ missed = {} /\ skipped = {}
HistoryNext == Next /\ TrackMissed /\ TrackSkipped
HistorySpec == HistoryInit /\ [][HistoryNext]_historyVars

(* The same where nothing else happens while a run or a request is under   *)
(* way: every step then is its own.                                        *)
Undisturbed == \A a \in Actors : ~At(a, "idle") => act'[a] # act[a]
AloneSpec == HistoryInit /\ [][HistoryNext /\ Undisturbed]_historyVars

(* A series keeps its count, and its marker a date of its rule.            *)
SeriesKept == CountKept /\ MarkerOfRule

NewDates == Dates(added') \ Dates(added)

(* What fell due while the template was paused, or its group archived, is  *)
(* skipped and not made later.                                             *)
NoBackfill == [][NewDates \cap missed = {}]_historyVars

(* A date passed over because somebody on it had left stays passed over.   *)
SkippedStaySkipped == [][NewDates \cap skipped = {}]_historyVars
=============================================================================
