\* Four spawn calls, two slots, two closures; bodies spawn and wait as well.
SPECIFICATION FairSpec
CONSTANTS
  Closure = {c1, c2}
  NoClosure = NoClosure
  MaxThreads = 2
  MaxSpawns = 4
INVARIANTS
  RefCountExact
  SlotsAccounted
  SlotBelongsToBody
PROPERTIES
  ImplementsFutures
  WaitReturns
