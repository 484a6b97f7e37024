SPECIFICATION FairSpec
CONSTANTS
  Clients = {1, 2}
  MSG_HEADER_LEN = 4
  SND_CAP = 5
  BUF_MAX_LEN = 5
  BodyLens = {0, 1, 2}
  MaxRequests = 2
  FdRoom = 3
INVARIANTS
  TypeOK
  EchoFaithful
  BytesHeld
  StaleOnlyAfterBreak
  DestroyedOnce
PROPERTIES
  Answered
  ServerStops
