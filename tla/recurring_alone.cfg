SPECIFICATION SeriesSpec
CONSTANTS
  None = None
  Actors = {a1}
  Rules <- OpenEnded
  Ops = {"create", "edit", "pause", "archive", "leave"}
  Batch = 2
  MaxClock = 9
  Forms <- AllSorts
  Visits = {30, 58, 60, 100, 424}
INVARIANTS SeriesKept
PROPERTIES NoBackfill SkippedStaySkipped NextAsNamed EditKeepsDates
