------------------------------ MODULE MCCanBus ------------------------------
(* A small instance of CanBus: two tasks compete for two slots with the    *)
(* driver, and the counters wrap after a few events.  No code relates two  *)
(* counters, so few are followed at a time.                                *)
EXTENDS CanBus

MCScenarios == {{"rx_queue_overflow"}, {"error_event"}, {"state_change"},
                {"transmit", "tx_slot_exhaustion"}, {"transmit", "tx_failure"}}

MCPayloadsOf == [control |-> {"heat_request"}, telemetry |-> {"bms_soc"}]
=============================================================================
