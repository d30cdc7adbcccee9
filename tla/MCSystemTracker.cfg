SPECIFICATION FairSpec
CONSTANTS
  r1 = r1
  r2 = r2
  Request <- MCRequest
  Backends = {"duckdb", "sqlite"}
  BatchSize = 2
  Limit <- MCLimit
  MaxSamples = 2
  MaxFaults = 1
INVARIANTS
  TypeOK
  
  AckMeansStored
  ReplyIsFresh
PROPERTIES
  RequestsAnswered
  StopEnds
CHECK_DEADLOCK FALSE
