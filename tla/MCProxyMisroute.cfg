SPECIFICATION Spec
CONSTANTS
  Workers = {w1, w2}
  MaxConns = 2
  MaxFd = 3
  Requests = 1
  MayFail = FALSE
  DstMayClose = FALSE
INVARIANTS
  OwnResponses
