SPECIFICATION Spec
CONSTANTS
  Clients = {1, 2}
  MSG_HEADER_LEN = 4
  SND_CAP = 20
  BUF_MAX_LEN = 20
  BodyLens = {0, 2}
  MaxRequests = 2
  FdRoom = 3
INVARIANTS
  ServesItsClient
