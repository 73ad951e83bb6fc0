CONSTANTS
  a = a
  b = b
  c = c
  z = z
  Programs = {a, b, c, z}
  NoProgram = NoProgram
  Boot = a
  Size <- Sizes
  FlushErrors = TRUE
  MaxStores = 2
  MaxChanges = 3
SPECIFICATION FairSpec
CHECK_DEADLOCK FALSE
INVARIANTS
  OwnImages
  ExitLeavesImage
PROPERTY
  DirtyReachesDisk
