\* Recording stops at MaxEvents, as it may in the device.
SPECIFICATION Spec
CONSTANTS
  CAPACITY = 3
  MAX_LIMIT = 2
  Tasks = {"control", "can"}
  MaxEvents = 7
  MaxUptime = 2
INVARIANTS
  LogIsRecentHistory
  ViewIsMostRecent
CHECK_DEADLOCK FALSE
