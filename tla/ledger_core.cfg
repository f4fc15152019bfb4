SPECIFICATION Spec
SYMMETRY CallSymmetry
CONSTANTS
  olga = olga
  ann = ann
  None = None
  Owner = olga
  People = {olga, ann}
  Keys = {}
  Requests = {r1, r2, r3}
  Contents <- Debts
  MaxEntries = 1
  MaxVersion = 4
  Versioned = {TRUE}
  Ops = {"create", "edit", "delete", "undelete", "remove", "restore"}
PROPERTIES RemovalShutsOut ImplementsBook EditOverwritesWhatItSaw
