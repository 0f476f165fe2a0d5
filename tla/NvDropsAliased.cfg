\* A name keeps the object it shares with the variable a loop changes.
SPECIFICATION DropsSpec
CONSTANTS
  Programs <- MCAliased
  MaxLuck = 3
  MaxObjects = 12
INVARIANT
  NeverReadsFreed
CHECK_DEADLOCK FALSE
