SPECIFICATION InputSpec
CONSTANTS
  CMD_RX_BUF_SIZE = 4
  HOST_UART_RX_BUF_SIZE = 4
  BLE_CMD_QUEUE_DEPTH = 1
  Requests <- MCMixed
  MaxChunk = 3
  MaxLines = 3
INVARIANTS
  DamageContained
  PatientHostServed
PROPERTY QueuedCommandsRun
CHECK_DEADLOCK FALSE
