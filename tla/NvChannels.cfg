\* Three threads, two channels, two objects, two messages in flight.
SPECIFICATION FairSpec
CONSTANTS
  Thread = {t1, t2, t3}
  Reg = {r1}
  Value = {v1, v2}
  Cell = {m1, m2}
  MaxChannels = 2
  NoThread = NoThread
  NoCell = NoCell
  NoValue = NoValue
INVARIANTS
  RefCountExact
  NodesAccounted
  PointersMatchFifo
PROPERTIES
  ImplementsFifo
  NoLostWakeup
