SPECIFICATION Spec
CONSTANTS
  MSG_HEADER_LEN = 4
  ENDIAN = 1
  PEER_ENDIAN = 0
  MsgLengths = {6}
  MaxMsgs = 2
  PIPE_CAP = 3
  SND_CAP = 5
  ShortHeaderWrite = FALSE
  PeersMayFail = FALSE
  DstFdMayClose = FALSE
INVARIANTS
  DecodedLength
