SPECIFICATION Spec
CONSTANTS
  Backends = {"duckdb"}
  CommitEvery = 3
  Modulus = 8
  MaxCommands = 2
  MaxFaults = 1
INVARIANT
  AbortedIsCleared
CHECK_DEADLOCK FALSE
