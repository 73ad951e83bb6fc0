SPECIFICATION Spec
CONSTANTS
  Slots <- MCSlots
  Analog = {"level"}
  Values = {0, 1}
  Catalogs <- MCCatalogs
  AnalogPeriod = 1
  DigitalCos = 1
  RingCap = 2
  ChanCap = 3
  SeqBase = 4
  MaxDrops = 1
  MaxScans = 2
  MaxChanges = 1
  MaxFailures = 1
INVARIANTS NoSilentLoss GaplessIsCurrent SessionsNumbered
PROPERTIES ComesOnline
