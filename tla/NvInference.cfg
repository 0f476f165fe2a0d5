SPECIFICATION Spec
CONSTANTS
  Sources <- MCSources
  Ambient <- V
  Ground <- Nested
  MaxStatements = 5
INVARIANTS Sound Complete Principal
CHECK_DEADLOCK FALSE
