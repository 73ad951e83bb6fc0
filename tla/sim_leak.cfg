SPECIFICATION Spec
CONSTANTS
  WordBase = 4
  WordBits = 2
  TableSize = 5
  MaxLines = 4
  Maps <- SimMaps
  Limits <- MCLimits
  TidBase = 2
  DeviceWords = {0, 1}
  Programmed = {1}
  Injected = {1}
  MaxFaults <- MCMaxFaults
  MaxChanges <- MCMaxChanges
INVARIANT SimOffField
CHECK_DEADLOCK FALSE
