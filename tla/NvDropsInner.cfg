\* A break in a loop inside another loop.
SPECIFICATION DropsSpec
CONSTANTS
  Programs <- MCInnerExits
  MaxLuck = 5
  MaxObjects = 16
INVARIANT
  ExitsLeaveInnermost
CHECK_DEADLOCK FALSE
