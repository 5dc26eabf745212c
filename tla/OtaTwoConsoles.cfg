\* Two consoles interleaving on the unlocked session, restarts and crashes at any step.
SPECIFICATION Spec
CONSTANTS
  uart = uart
  ble = ble
  Consoles <- TwoConsoles
  Chunks = {"a", "b"}
  Images <- MCImages
  Factory <- MCFactory
  PartitionSize = 2
  MaxSessions = 2
INVARIANT RunningImageIntact
