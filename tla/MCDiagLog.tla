----------------------------- MODULE MCDiagLog ------------------------------
(* A ring of three events written by two tasks, filled and lapped twice.   *)
EXTENDS DiagLog
=============================================================================
