SPECIFICATION FairSpec
CONSTANTS
  Framings = {"none", "cl", "te", "eof"}
  MaxBody = 2
  Longest = 3
  NetMax = 4
  MaxHead = 2
  MaxLine = 2
  FillLen = 2
  MaxRead = 2
INVARIANTS
  TypeOK
  NextHeadIsNext
  BodyInOrder
  JunkIsFatal
  EofMeansWhatItSays
  BufferBounded
PROPERTIES
  ImplementsMessageStream
  CloseIsNoticed
