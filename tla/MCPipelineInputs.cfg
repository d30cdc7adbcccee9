SPECIFICATION Spec
CONSTANTS
  Windows = {}
  LoginWindows = {}
  NoWindow = NoWindow
  PersistRaw = FALSE
  MayPanic = {}
  SourceMayClose = TRUE
  MaxEvents = 2
  MaxIdleTicks = 0
  MaxTimeouts = 0
INVARIANTS
  ShutdownIsLossless
CHECK_DEADLOCK FALSE
