SPECIFICATION MCSpec
CONSTANTS
  MaxTransfers = 2
  Names = {a, b}
  Sizes = {0, 3}
  SourceSizes = {0, 2}
  Unknown = Unknown
  NoFile = NoFile
  Chunk = 2
  MaxBytes = 1
  MaxLen = 3
  MaxCopies = 2
  SaveTargets = {"local", "uri"}
  Faults = {"write", "rename", "copy", "remove", "crash"}
INVARIANTS
  StagedBytes
  NothingLeftBehind
  FinishedMeansAll
  OneVerdict
PROPERTIES
  DeliveredStays
  TransferEnds
CHECK_DEADLOCK FALSE
