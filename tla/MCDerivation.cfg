SPECIFICATION FairSpec
CONSTANTS
  Windows = {w, lw}
  LoginWindows = {lw}
  NoWindow = NoWindow
  ActiveGrace = 0
  IdleThreshold = 1
  MaxEvents = 3
  LastEvent = 2
  MaxClock = 4
INVARIANTS
  TypeOK
  StateFollowsUser
  TicksDemote
  LocksAgree
PROPERTIES
  GoesIdle
CHECK_DEADLOCK FALSE
