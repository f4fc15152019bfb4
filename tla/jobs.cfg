SPECIFICATION JobsSpec
CONSTANTS
  None = None
  Actors = {w1, w2}
  Rules <- Ends
  Ops = {"create", "edit", "delete", "fail"}
  Batch = 1
  MaxClock = 4
  Runs = {r1, r2}
  BackupWorkers = {w1, w2}
  KeepLast = 1
  NoRun = NoRun
  MaxCopies = 2
  Notices = {r1, r2}
  Devices = {d1}
  Pushers = {p1}
  Sweeper = sweeper
  MaxFailures = 2
  Files = {r1, r2}
  GroupLock = GroupLock
  NoLock = NoLock
  MaxFiles = 1
  MaxFaults = 2
  line1 = line1
  line2 = line2
  file1 = file1
  file2 = file2
  Lines = {line1, line2}
  ImportRuns = {file1, file2}
  FileOf <- SameLines
  Commits = {w1, w2}
  NoImport = NoImport
  Bosses = {b1, b2, b3}
  Publishers = {w1, w2}
  NoBoss = NoBoss
  MaxRefusals = 2
INVARIANTS OneExpensePerDate BackupSafety PushedOnce AttachmentSafety ImportSafety HostSafety
PROPERTIES NothingEarly DroppedForCause
SYMMETRY JobsSymmetry
CHECK_DEADLOCK FALSE
