SPECIFICATION FairSpec
CONSTANTS
  Backends = {"duckdb", "sqlite"}
  CommitEvery = 2
  Modulus = 8
  MaxCommands = 4
  MaxFaults = 2
INVARIANTS
  TypeOK
  BacklogAccounts
  ClosedMetricsFinal
  LossIsAccounted
  CrashLosesOneBatch
PROPERTIES
  ImplementsLog
  CloseReturns
CHECK_DEADLOCK FALSE
