SPECIFICATION Spec
CONSTANTS
  Calls = {g1}
  Names = {n1}
  OneShot = {}
  None = None
  BaseBackoff = 1
  MaxBackoff = 1
  MaxFailures = 0
  MaxRestarts = 0
CHECK_DEADLOCK FALSE
INVARIANTS
  ShutdownStopsChildren
