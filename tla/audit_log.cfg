SPECIFICATION Spec
CONSTANTS
  MaxBytes = 2
  MaxFiles = 3
  MaxEvents = 9
  MaxFaults = 3
  MaxCrashes = 3
INVARIANTS TypeOK PagesInOrder AckedKept
CHECK_DEADLOCK FALSE
