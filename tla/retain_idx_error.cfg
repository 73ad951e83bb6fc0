CONSTANTS
  Flushers = {t5}
  MaxFlushes = 4
  IoErrors = {"write_idx"}
  EntrySync = TRUE
  Absent = Absent
  Torn = Torn
SPECIFICATION Spec
CHECK_DEADLOCK FALSE
INVARIANT
  NeverLost
