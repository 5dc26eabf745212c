\* Two consoles: a cancel that overtakes the last step of end.
SPECIFICATION Spec
CONSTANTS
  uart = uart
  ble = ble
  Consoles <- TwoConsoles
  Chunks = {"a", "b"}
  Images <- MCImages
  Factory <- MCFactory
  PartitionSize = 2
  MaxSessions = 2
INVARIANT CancelHonoured
