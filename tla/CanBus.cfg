SPECIFICATION BusSpec
CONSTANTS
  TX_SLOT_COUNT = 2
  Tasks = {"control", "telemetry"}
  Payloads = {"heat_request", "bms_soc"}
  PayloadsOf <- MCPayloadsOf
  RX_QUEUE_DEPTH = 1
  WORD = 3
  Scenarios <- MCScenarios
  Flags = {"bit", "ack"}
  NodeStates = {"bus_off", "passive"}
  TxTasks = {"control", "telemetry"}
INVARIANTS
  SlotsOwnedOnce
  CountsAddUp
  FlagLossOnlyByRace
  EntryLossOnlyByRace
  DropsExactUnlessOverlapped
PROPERTIES
  SlotsComeBack
  EventsReported
