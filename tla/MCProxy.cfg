SPECIFICATION Spec
CONSTANTS
  Workers = {w1, w2}
  MaxConns = 3
  MaxFd = 3
  Requests = 2
  MayFail = TRUE
  DstMayClose = TRUE
SYMMETRY Symmetry
CONSTRAINT ThreeOrTraffic
INVARIANTS
  TypeOK
  RegistryExact
  NoneForgotten
  AnsweredOnce
