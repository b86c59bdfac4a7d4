SPECIFICATION FairSpec
CONSTANTS
  Calls = {g1}
  Names = {devices}
  OneShot = {devices}
  None = None
  BaseBackoff = 1
  MaxBackoff = 1
  MaxFailures = 0
  MaxRestarts = 0
CHECK_DEADLOCK FALSE
PROPERTIES
  PanicIsSurvived
