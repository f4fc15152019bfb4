SPECIFICATION HistorySpec
SYMMETRY CallSymmetry
CONSTANTS
  olga = olga
  ann = ann
  None = None
  Owner = olga
  People = {olga, ann}
  Keys = {}
  Requests = {r1, r2}
  Contents <- Torn
  MaxEntries = 2
  MaxVersion = 2
  Versioned = {TRUE}
  Ops = {"create", "edit", "remove"}
PROPERTIES RemovedOnceSquare
