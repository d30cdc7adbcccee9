SPECIFICATION FairSpec
CONSTANTS
  Proc = {p1, p2}
  Client = {c}
  None = None
  FollowRaces = FALSE
INVARIANTS
  TypeOK
  OneDaemon
  StaleFilesRecovered
  RestartKeepsRun
  
PROPERTIES
  StartsAndStopsEnd
CHECK_DEADLOCK FALSE
