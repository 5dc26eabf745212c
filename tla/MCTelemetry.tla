---------------------------- MODULE MCTelemetry -----------------------------
(* Small instances of Telemetry.  The longest interval and the poll period *)
(* together exceed STALE, the shorter intervals do not.                    *)
EXTENDS Telemetry
=============================================================================
