CONSTANTS
  a = a
  b = b
  c = c
  z = z
  Programs = {a, b, c, z}
  NoProgram = NoProgram
  Boot = a
  Size <- Sizes
  FlushErrors = FALSE
  MaxStores = 2
  MaxChanges = 3
SPECIFICATION Spec
CHECK_DEADLOCK FALSE
INVARIANT
  NeverForeign
