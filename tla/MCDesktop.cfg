SPECIFICATION MCSpec
CONSTANTS
  None = None
  MaxFresh = 5
  MaxFaults = 3
  Prefix = 2
  MaxLen = 2
  MaxSent = 3
  MaxBatteryChanges = 3
  ReadFaults = 1
  Bins = {b1, b2}
  Shown = {d1}
  MaxOps = 3
  Texts = {t1, t2}
  MaxCopies = 2
  ClipFaults = 1
  Ids = {d1, d2}
  Window = 2
  MaxRecords = 1
  MaxChanges = 2
  Calls = {g1, g2}
  Names = {n1}
CHECK_DEADLOCK FALSE
INVARIANTS
  StableIdentity
  FramesAreWhole
  WatchersAreCurrent
  ReportIsTrue
PROPERTIES
  UserActionsKept
  ComesBack
  BatteryIsReported
  StopsWhenTold
