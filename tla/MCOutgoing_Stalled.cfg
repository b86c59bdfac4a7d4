SPECIFICATION FairSpec
CONSTANTS
  MaxTransfers = 1
  Sizes = {2}
  Chunk = 2
  MaxLen = 2
  Faults = {}
PROPERTIES
  SendEnds
CHECK_DEADLOCK FALSE
