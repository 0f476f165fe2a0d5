\* A buffer of one byte behind a terminator of one byte, and a request for more.
SPECIFICATION FairSpec
CONSTANTS
  Conn = {c1}
  NoConn = NoConn
  MaxSlots = 1
  PendMax = 1
  DelimLen = 1
  RecvSizes = {1}
  UntilSizes = {4}
  ExactSizes = {2}
  MaxSent = 4
  Talker = {c1}
INVARIANTS
  PastDelimiterKept
CHECK_DEADLOCK FALSE
