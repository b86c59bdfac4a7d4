SPECIFICATION Spec
CONSTANTS
  Calls = {g1, g2}
  Names = {n1, n2}
  OneShot = {n1}
  None = None
  BaseBackoff = 1
  MaxBackoff = 1
  MaxFailures = 2
  MaxRestarts = 1
CHECK_DEADLOCK FALSE
SYMMETRY Symmetry
INVARIANTS
  NoStrayWatcher
  HandleIsTransient
  ShutdownAwaitsWatchers
PROPERTIES
  RestartPolicy
