\* An unknown that becomes a map of itself.
SPECIFICATION Spec
CONSTANTS
  Sources <- MCMapSources
  Ambient <- V
  Ground <- Nested
  MaxStatements = 5
INVARIANT
  TypesFinite
CHECK_DEADLOCK FALSE
