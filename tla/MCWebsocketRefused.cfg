CONSTANTS
  Requests <- Usual
  Followed <- None
  Sends <- TwoFrames
  Len7 = 1
  Len16 = 8
  MaxControl = 3
  Replies <- ThreeReplies
  NotText <- NoText
  PacketSize = 20
  AnyCut = FALSE
SPECIFICATION Spec
INVARIANTS
  RefusedRightly
CHECK_DEADLOCK FALSE
