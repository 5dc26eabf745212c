-------------------------- MODULE MCHeatingControl --------------------------
(* Small instances of HeatingControl for TLC.  A minute is two ticks, so   *)
(* that the user timer, the safety limit and signal staleness all expire   *)
(* before and after one another within MaxTime.                            *)
EXTENDS HeatingControl

MCSignals == {"temperature_status_charge", "bms_soc_percent"}
=============================================================================
