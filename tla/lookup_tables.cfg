CONSTANTS
  CurveAddresses <- Curve
  SwapAddresses <- Swap
  OldTables <- Old
  KeyLists <- Lists
  ChunkSize = 2
  Capacity = 4
  Attempts = 2
  CoolDown = 1
  MaxRuns = 2
  MaxSlot = 3
SPECIFICATION Spec
INVARIANTS
  SnapshotsResolve
  ReadyMeansUsable
  NoDuplicates
PROPERTIES
  RefreshKeepsTables
CHECK_DEADLOCK FALSE
