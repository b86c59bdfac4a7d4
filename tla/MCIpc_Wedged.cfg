SPECIFICATION ClientSpec
CONSTANTS
  Reqs = {r1, r2}
  None = None
  Failed = Failed
  MaxEvents = 0
  BusCapacity = 1
  WireCap = 1
PROPERTIES
  WedgedSurfaces
CHECK_DEADLOCK FALSE
