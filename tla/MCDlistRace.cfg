SPECIFICATION Spec
CONSTANTS
  Workers = {w1, w2}
  MaxFds = 4
  MaxNodes = 3
  Serial = FALSE
INVARIANTS
  LengthIsNodeCount
