CONSTANTS
  Callers = {c1}
  FrameLens = {0, 2}
  ReplyLen = 2
  PacketSize = 3
  SndCap = 1
  MaxIn = 4
  MaxCalls = 2
SPECIFICATION Spec
INVARIANTS
  TypeOK
  OutputIntact
  InputIntact
  InterestMatches
  ClosedOnce
PROPERTIES
  ClosedIsFinal
  OutputDrains
  PeerEndNoticed
  WriteBufLenCatchesUp
CHECK_DEADLOCK FALSE
