SPECIFICATION Spec
CONSTANTS
  Tasks = {"control", "telemetry"}
  MAX_CONNECTIONS = 1
  Handles = {0, 1}
  UART_PIECES = 2
  CHUNKS = 2
  MaxMessages = 3
  MaxLogs = 1
  MaxLinks = 2
INVARIANTS
  UartLinesWhole
  ClientLinesWhole
  PeersMatchLinks
  Reachable
PROPERTY UartLockReleased
CHECK_DEADLOCK FALSE
