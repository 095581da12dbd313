CONSTANTS
  Byte = {0, 1}
  MaxLen = 2
  MaxSize = 4
  AnyCall = FALSE
SPECIFICATION Spec
INVARIANTS
  TypeOK
PROPERTIES
  ImplementsByteQueue
