CONSTANTS
  Requests <- AllRequests
  Followed <- Usual
  Sends <- TwoFrames
  Len7 = 1
  Len16 = 8
  MaxControl = 3
  Replies <- ThreeReplies
  NotText <- NoText
  PacketSize = 20
  AnyCut = FALSE
SPECIFICATION Spec
INVARIANTS
  TypeOK
  MessagesIntact
  RepliesIntact
  HandshakeExact
CHECK_DEADLOCK FALSE
