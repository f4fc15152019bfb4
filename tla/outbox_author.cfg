SPECIFICATION Spec
CONSTANTS
  Tabs = {left, right}
  People = {ada, ben}
  NoOne = NoOne
  MaxEntries = 1
  MaxChanges = 1
INVARIANT DrainedAsTyped
CHECK_DEADLOCK FALSE
