\* Behaviours end when no more clients are started.
SPECIFICATION Spec
CONSTANTS
  UINT32_MAX = 255
  JSONRPC_ID_BUF_SIZE = 6
  JSONRPC_METHOD_BUF_SIZE = 48
  MAX_BASE64_CHARS = 8
  Consoles = {"uart", "ble"}
  Lossy = {"ble"}
  Images <- MCImages
  PartitionSize = 2
  Requests <- MCRequests
  TriedLines <- MCTriedLines
  MaxProcesses = 3
  MaxRequests = 8
INVARIANTS
  ScanAgrees
  DecodeAgrees
  FinalizedMeansInstalled
  UndisturbedUpdateProceeds
CHECK_DEADLOCK FALSE
