SPECIFICATION Spec
CONSTANTS
  None = None
  EmptyCert = EmptyCert
  Orphan = Orphan
  Players = {p1, p2}
  Names = {m1, m2}
  Notes = {o1}
  MaxPackets = 3
  MaxConnects = 2
  n1 = n1
  n2 = n2
  f = f
  x1 = x1
  x2 = x2
  x3 = x3
  x4 = x4
  Conns = {c1, c2, c3, c4}
  Devices = {d1}
  Certs = {f1}
  Wires = {w1}
  Callers = {k1, k2}
  PairingTimeout = 1
  IncomingPairTimeout = 1
  AutoAcceptReads = {TRUE, FALSE}
  MaxTimers = 2
INVARIANTS
  CommandIsListed
  LinkIsHonest
  NeverDeadlocks
PROPERTIES
  Rejoin
  NobodyWaitsForever
CHECK_DEADLOCK FALSE
