SPECIFICATION Spec
CONSTANTS
  editor = editor
  doc = doc
  Doc = Doc
  other = other
  TitleKey <- MCTitleKey
  Focus <- MCFocus
  NoFocus = NoFocus
  NoTitle = NoTitle
  None = None
  State = {Active, Idle}
  Inactive = Idle
  Run = {r1, r2}
  ShortThresh = 2
  EphMin = 2
  TemporalGap = 1
  MaxWindows = 1
  AppShortMax = 1
  AppShortMin = 2
  Retention = 3
  HydrateLimit = 2
  BusCap = 2
  RecentLimit = 2
  MaxTime = 4
  MaxChanges = 6
  StateCost = 2
  FocusCost = 3
  MaxStarts = 2
  MaxFailures = 1
INVARIANTS
  TypeOK
  RecordIdsUnique
  
PROPERTIES
  PublishesRetention
  PublishesNewest
SYMMETRY RunSymmetry
CHECK_DEADLOCK FALSE
