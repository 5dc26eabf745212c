\* Commands from one console, restarts and crashes at any step.
SPECIFICATION Spec
CONSTANTS
  uart = uart
  ble = ble
  Consoles <- OneConsole
  Chunks = {"a", "b"}
  Images <- MCImages
  Factory <- MCFactory
  PartitionSize = 3
  MaxSessions = 3
INVARIANTS
  BootImageComplete
  ResumePointAgrees
  NoHandleLeaks
PROPERTY ImplementsSession
