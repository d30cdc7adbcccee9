SPECIFICATION FairSpec
CONSTANTS
  Windows = {}
  LoginWindows = {}
  NoWindow = NoWindow
  PersistRaw = TRUE
  MayPanic = {"envelope", "hints", "compression", "snapshot"}
  SourceMayClose = TRUE
  MaxEvents = 0
  MaxIdleTicks = 1
  MaxTimeouts = 1
INVARIANTS
  OnlyCompressionIsLate
PROPERTIES
  Terminates
CHECK_DEADLOCK FALSE
