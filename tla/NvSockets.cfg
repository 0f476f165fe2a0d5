\* One table slot too few for two connections and a listener; and one stream
\* whose requests leave nothing, what fits and more than fits past a delimiter.
SPECIFICATION SettingSpec
CONSTANTS
  Conn = {c1, c2}
  NoConn = NoConn
  MaxSlots = 2
  PendMax = 4
  DelimLen = 2
  RecvSizes = {1}
  UntilSizes = {3, 6, 7}
  ExactSizes = {2}
  MaxSent = 7
  Talker = {c1}
  FewSent = 3
  FewWanted = 3
INVARIANTS
  BytesAccounted ClosedMeansDrained FramesAsWritten
PROPERTIES
  ReadReturns
\* A read without a timeout waits for ever for a silent peer.
CHECK_DEADLOCK FALSE
