SPECIFICATION FairSpec
CONSTANTS
  Tabs = {tab}
  People = {ada, ben}
  NoOne = NoOne
  MaxEntries = 2
  MaxChanges = 2
PROPERTIES OthersUntouched EntryGoesOut
CHECK_DEADLOCK FALSE
