SPECIFICATION FairSpec
CONSTANTS
  HeadLen = 2
  FootLen = 2
  LastLen = 2
  MaxBody = 4
  ChunkSize = 2
  SinkFaults = {"broken", "zero"}
INVARIANTS
  TypeOK
  WireWellFormed
  NothingLost
  EndOnlyAfterEnd
  OkMeansDelivered
  NoMisuse
PROPERTIES
  LatchedAfterError
  ImplementsBodyCopy
  Settles
