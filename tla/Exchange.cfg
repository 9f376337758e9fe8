SPECIFICATION Spec
CONSTANTS
  Cap = 1
  MaxBody = 1
  Lengths = {0, 1}
  MaxInfo = 1
  MaxTries = 2
  Patient = {"none", "cl"}
  Blocking = {}
  Persist = {TRUE, FALSE}
  Faults = {"client", "origin", "head", "reject"}
INVARIANTS
  TypeOK
  ReuseClean
  DoneMeansBoth
  OneAnswer
PROPERTY
  BothAreCopies
