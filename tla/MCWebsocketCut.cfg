CONSTANTS
  Requests <- Usual
  Followed <- Usual
  Sends <- TwoFrames
  Len7 = 1
  Len16 = 8
  MaxControl = 3
  Replies <- ThreeReplies
  NotText <- NoText
  PacketSize = 20
  AnyCut = TRUE
SPECIFICATION Spec
INVARIANTS
  MessagesIntact
CHECK_DEADLOCK FALSE
