\* What `validate` demands, with the zoom and the focus of windows not shown.
SPECIFICATION Spec
CONSTANTS
  HistoryLimit = 1
  Tasks = {t1}
  Buffers = {1, 2}
  Exiting = {}
  Remain = {}
  MaxNode = 4
  MaxSession = 1
  MaxFloat = 0
  Weights = {2}
  Places <- AllPlaces
  AfterNesting = FALSE
INVARIANT Valid
CHECK_DEADLOCK FALSE
