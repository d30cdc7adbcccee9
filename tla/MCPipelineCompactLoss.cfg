SPECIFICATION Spec
CONSTANTS
  Windows = {}
  LoginWindows = {}
  NoWindow = NoWindow
  PersistRaw = FALSE
  MayPanic = {}
  SourceMayClose = FALSE
  MaxEvents = 1
  MaxIdleTicks = 0
  MaxTimeouts = 0
INVARIANTS
  CompactEventsPersisted
CHECK_DEADLOCK FALSE
