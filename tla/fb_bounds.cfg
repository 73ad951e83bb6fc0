SPECIFICATION Spec
CONSTANTS
  ByteBase = 4
  MaxDint = 127
  PidLimit = 5
  MaxStack = 6
  MaxCallDepth = 4
  Budget = 300
  MaxArrayElems = 8
  MaxLoopDefault = 8
  Projects <- OnlyBlockWithAnd
INVARIANT VerifiedInBounds
CHECK_DEADLOCK FALSE
