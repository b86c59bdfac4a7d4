SPECIFICATION ClientSpec
CONSTANTS
  Reqs = {r1, r2}
  None = None
  Failed = Failed
  MaxEvents = 3
  BusCapacity = 2
  WireCap = 1
INVARIANTS
  QueueIsWireOrder
  EventsInOrder
PROPERTIES
  ImplementsRequestReply
  RequestReturns
CHECK_DEADLOCK FALSE
