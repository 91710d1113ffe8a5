\* Two tasks, two sessions, a popup, one command that exits.
SPECIFICATION Spec
CONSTANTS
  HistoryLimit = 1
  Tasks = {t1, t2}
  Buffers = {1, 2}
  Exiting = {1}
  Remain = {}
  MaxNode = 4
  MaxSession = 2
  MaxFloat = 1
  Weights = {2}
  Places <- AllPlaces
  AfterNesting = FALSE
SYMMETRY TaskSymmetry
INVARIANTS LayoutSound PanesEverywhere FocusAgrees
PROPERTIES RefusedChangesNothing CleanupDetachesNothing
CHECK_DEADLOCK FALSE
