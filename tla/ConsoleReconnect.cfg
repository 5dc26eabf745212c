SPECIFICATION InputSpec
CONSTANTS
  CMD_RX_BUF_SIZE = 4
  HOST_UART_RX_BUF_SIZE = 8
  BLE_CMD_QUEUE_DEPTH = 1
  Requests <- MCShort
  MaxChunk = 3
  MaxLines = 2
INVARIANT WholeCommands
CHECK_DEADLOCK FALSE
