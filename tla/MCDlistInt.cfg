SPECIFICATION Spec
CONSTANTS
  Workers = {w1, w2}
  MaxFds = 4
  MaxNodes = 3
  Serial = TRUE
INVARIANTS
  TypeOK
  LinksMutual
  LengthIsNodeCount
  LastIsAccepted
  NeverUndefined
PROPERTIES
  ImplementsFdList
