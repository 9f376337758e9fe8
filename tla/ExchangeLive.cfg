SPECIFICATION FairSpec
CONSTANTS
  Cap = 1
  MaxBody = 2
  Lengths = {0, 2}
  MaxInfo = 1
  MaxTries = 1
  Patient = {"cl"}
  Blocking = {"client", "origin"}
  Persist = {TRUE}
  Faults = {"client", "origin"}
PROPERTIES
  ResponseDelivered
  ExchangeEnds
