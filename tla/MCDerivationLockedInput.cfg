SPECIFICATION Spec
CONSTANTS
  Windows = {lw}
  LoginWindows = {lw}
  NoWindow = NoWindow
  ActiveGrace = 1
  IdleThreshold = 2
  MaxEvents = 2
  LastEvent = 0
  MaxClock = 0
INVARIANTS
  LockedInputSuppressed
CHECK_DEADLOCK FALSE
