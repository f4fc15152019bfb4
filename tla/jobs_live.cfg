SPECIFICATION JobsSpec
CONSTANTS
  None = None
  Actors = {w1}
  Rules <- Bounded
  Ops = {"create", "fail", "pause", "archive", "leave"}
  Batch = 1
  MaxClock = 6
  Runs = {r1, r2}
  BackupWorkers = {w1}
  KeepLast = 1
  NoRun = NoRun
  MaxCopies = 1
  Notices = {r1, r2}
  Devices = {d1}
  Pushers = {p1}
  Sweeper = sweeper
  MaxFailures = 1
  Files = {r1, r2}
  GroupLock = GroupLock
  NoLock = NoLock
  MaxFiles = 1
  MaxFaults = 2
  line1 = line1
  line2 = line2
  file1 = file1
  file2 = file2
  Lines = {line1, line2}
  ImportRuns = {file1, file2}
  FileOf <- SameLines
  Commits = {w1}
  NoImport = NoImport
  Bosses = {b1, b2, b3}
  Publishers = {w1}
  NoBoss = NoBoss
  MaxRefusals = 2
PROPERTIES DatesGetMade RowsGetSettled WorkerGetsUp
CHECK_DEADLOCK FALSE
