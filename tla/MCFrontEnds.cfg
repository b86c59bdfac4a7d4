SPECIFICATION MCSpec
CONSTANTS
  Devices = {d1, d2}
  d1 = d1
  KnownDevices = {d1}
  Transfers = {t1}
  Notes = {n1, n2}
  Plugins = {p1}
  None = None
  NotificationCap = 1
  LogCap = 1
  MaxEvents = 2
  MaxKeys = 6
  MaxTasks = 2
  MaxGuiEvents = 3
  MaxClicks = 4
  MaxFaults = 1
INVARIANTS
  ScreenIsCurrent
  ShownIsTarget
  CardsAreTable
PROPERTIES
  ClientsSettle
CHECK_DEADLOCK FALSE
