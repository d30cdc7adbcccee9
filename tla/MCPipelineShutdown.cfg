SPECIFICATION Spec
CONSTANTS
  Windows = {w, lw}
  LoginWindows = {lw}
  NoWindow = NoWindow
  PersistRaw = TRUE
  MayPanic = {}
  SourceMayClose = FALSE
  MaxEvents = 1
  MaxIdleTicks = 0
  MaxTimeouts = 0
INVARIANTS
  TypeOK
  ShutdownIsLossless
  StoredInOrder
  ViewsAgree
CHECK_DEADLOCK FALSE
