SPECIFICATION Spec
CONSTANTS
  HeadLen = 3
  FootLen = 2
  LastLen = 2
  MaxBody = 4
  MaxU64 = 6
INVARIANTS
  TypeOK
  WireDecodable
  HandedBackWhole
  NoFalseEnd
  RemainingIsDue
PROPERTY
  ImplementsDelivery
