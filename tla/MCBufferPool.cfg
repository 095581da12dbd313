CONSTANTS
  Users = {u1, u2}
  Bufs = {b1, b2, b3}
  Steps = 3
  Threshold = 1
  PctNum = 2
  PctDen = 3
  MaxPuts = 6
SPECIFICATION Spec
SYMMETRY Symmetry
INVARIANTS
  TypeOK
  EachPutCounted
  CalibratedRight
CHECK_DEADLOCK FALSE
