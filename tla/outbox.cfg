SPECIFICATION TypedSpec
CONSTANTS
  Tabs = {left, right}
  People = {ada}
  NoOne = NoOne
  MaxEntries = 2
  MaxChanges = 1
  Headcount = 4
  Amounts = {5}
  MaxWeight = 2
  Rates <- TwoRates
  MaxCredit = 1
  MaxDebt = 3
  MaxBefore = 0
INVARIANTS WrittenOnce RowsFair SuggestionsClear
PROPERTIES NothingLost
CHECK_DEADLOCK FALSE
SYMMETRY Symmetry
