SPECIFICATION FairSpec
CONSTANTS
  olga = olga
  ann = ann
  None = None
  Owner = olga
  People = {olga, ann}
  Keys = {k1}
  Requests = {r1, r2}
  Contents <- Few
  MaxEntries = 3
  MaxVersion = 1
  Versioned = {TRUE}
  Ops = {"create", "convert", "delete", "remove", "restore"}
INVARIANTS OneEntryPerKey ReplacedOnce
PROPERTIES RemovedWhenSquare RepaymentClears CallsEnd
