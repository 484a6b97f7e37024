SPECIFICATION FairSpec
CONSTANTS
  MSG_HEADER_LEN = 4
  ENDIAN = 1
  PEER_ENDIAN = 1
  MsgLengths = {4, 5, 7, 8}
  MaxMsgs = 2
  PIPE_CAP = 3
  SND_CAP = 5
  ShortHeaderWrite = FALSE
  PeersMayFail = TRUE
  DstFdMayClose = TRUE
INVARIANTS
  TypeOK
  NoUnknownError
  BytesAccounted
  Conservation
  StoreAndForward
  DecodedLength
  ClosedForReason
PROPERTIES
  FlushedByInput
  ImplementsMessageRelay
