CONSTANTS
  Flushers = {t5, main}
  MaxFlushes = 3
  IoErrors = {}
  EntrySync = TRUE
  Absent = Absent
  Torn = Torn
SPECIFICATION Spec
CHECK_DEADLOCK FALSE
PROPERTY
  LastFlushWins
