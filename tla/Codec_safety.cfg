SPECIFICATION FairSpec
CONSTANTS
  Half = 3
  Types = {2, 5}
  Lists = {5}
  Size <- MCSize
  Payload = {0, 5}
  Eof = 1
  MaxCount = 2
  Buffer = 2
CHECK_DEADLOCK FALSE
INVARIANTS
  TypeOK
  NoHalfRead
PROPERTIES
  ImplementsChannel
  ConnectionDrained
