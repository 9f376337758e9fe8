SPECIFICATION FairSpec
CONSTANTS
  HeadLen = 2
  FootLen = 2
  LastLen = 2
  MaxBody = 2
  ChunkSize = 2
  SinkFaults = {"zero"}
PROPERTY
  WorkingMakesProgress
