SPECIFICATION FairSpec
CONSTANTS
  Cap = 1
  MaxBody = 1
  Lengths = {0, 1}
  MaxInfo = 0
  MaxTries = 1
  Patient = {"te"}
  Blocking = {}
  Persist = {TRUE}
  Faults = {}
CHECK_DEADLOCK FALSE
PROPERTY
  RequestReachesOrigin
