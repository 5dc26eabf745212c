SPECIFICATION Spec
CONSTANTS
  MIN_PERIOD = 1
  MAX_PERIOD = 3
  DEFAULT_PERIOD = 1
  SOC_POLL_PERIOD = 2
  STALE = 4
  Consoles = {"uart", "ble"}
  Values = {0, 1, 2, 3, 4}
  MaxTime = 9
INVARIANTS
  IntervalInRange
  AcceptedIsRestored
  NewIntervalSoon
  SocNotStale
