\* A try inside a catch body.
SPECIFICATION Spec
CONSTANTS
  Type = {"A", "B"}
  MaxErrors = 2
  MaxFrames = 3
  MaxArms = 1
  MaxDepth = 3
  MaxHandlers = 4
  FeatureSets = {{"try_in_handler"}}
INVARIANTS
  HandlerOwnsItsError
\* A program that has reported an error stops.
CHECK_DEADLOCK FALSE
