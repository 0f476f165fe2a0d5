SPECIFICATION Spec
CONSTANTS
  Programs <- MCPrograms
  MaxDepth = 3
  MaxIterations = 4
  MaxEmitted = 4
INVARIANTS ExpandedAsRead RefusedWhenUnknown
CHECK_DEADLOCK FALSE
