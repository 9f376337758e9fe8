SPECIFICATION Spec
CONSTANTS
  FieldSet <- MCFieldSet
  Lengths <- MCLengths
  Heads <- MCHeads
  Edits <- MCEdits
  MaxEdits = 1
  Sections <- MCSections
INVARIANTS
  TypeOK
  OneReading
  BackendAgrees
  ScopedStays
  RestGoesOn
  FoldingIsHarmless
