SPECIFICATION BackupSpec
CONSTANTS
  Runs = {r1, r2}
  BackupWorkers = {w1, w2}
  KeepLast = 1
  MaxCopies = 2
  NoRun = NoRun
INVARIANTS PausedStays
CHECK_DEADLOCK FALSE
