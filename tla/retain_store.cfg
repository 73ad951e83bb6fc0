CONSTANTS
  Flushers = {t5}
  MaxFlushes = 6
  IoErrors <- AllErrors
  EntrySync = TRUE
  Absent = Absent
  Torn = Torn
SPECIFICATION Spec
CHECK_DEADLOCK FALSE
INVARIANTS
  AckedSurvives
PROPERTIES
  ImplementsRegister
