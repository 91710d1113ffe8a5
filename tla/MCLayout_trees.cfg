\* One task, three panes, no popups: containers inside containers.
SPECIFICATION Spec
CONSTANTS
  HistoryLimit = 0
  Tasks = {t1}
  Buffers = {1, 2, 3}
  Exiting = {}
  Remain = {}
  MaxNode = 6
  MaxSession = 1
  MaxFloat = 0
  Weights = {2}
  Places <- AllPlaces
  AfterNesting = FALSE
INVARIANTS LayoutSound ReorderShowsTheSame
CHECK_DEADLOCK FALSE
