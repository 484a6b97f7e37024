SPECIFICATION Spec
CONSTANTS
  MSG_HEADER_LEN = 4
  ENDIAN = 1
  PEER_ENDIAN = 1
  MsgLengths = {6}
  MaxMsgs = 1
  PIPE_CAP = 3
  SND_CAP = 12
  ShortHeaderWrite = FALSE
  PeersMayFail = FALSE
  DstFdMayClose = FALSE
INVARIANTS
  MessagesWhole
