\* Outside the runs: TLC reports that NestedToo does not hold.
SPECIFICATION Spec
CONSTANTS
  HistoryLimit = 1
  Tasks = {t1}
  Buffers = {1, 2}
  Exiting = {1}
  Remain = {}
  MaxNode = 4
  MaxSession = 1
  MaxFloat = 1
  Weights = {2}
  Places <- AllPlaces
  AfterNesting = TRUE
INVARIANT NestedToo
CHECK_DEADLOCK FALSE
