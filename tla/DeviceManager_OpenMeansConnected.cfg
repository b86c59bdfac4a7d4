SPECIFICATION Spec
CONSTANTS
  Devices = {d1}
  Conns = {c1, c2}
  Certs = {f1, f2}
  Callers = {k1, k2}
  None = None
  EmptyCert = EmptyCert
  Orphan = Orphan
  OutCap = 1
  PairingTimeout = 1
  IncomingPairTimeout = 1
  AutoAcceptReads = {TRUE, FALSE}
  MaxTimers = 2
  MaxDials = 1
CHECK_DEADLOCK FALSE
INVARIANT
  OpenMeansConnected
