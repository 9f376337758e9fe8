SPECIFICATION Spec
CONSTANTS
  Framings = {"none", "cl", "te", "eof"}
  MaxBody = 2
  Longest = 3
  NetMax = 5
  MaxHead = 2
  MaxLine = 2
  FillLen = 3
  MaxRead = 2
INVARIANT
  DrainedMeansDrained
