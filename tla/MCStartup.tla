----------------------------- MODULE MCStartup ------------------------------
(* A small instance of Startup: one abort, of start-up or much later, so   *)
(* that the second life can meet any colour left by the first.             *)
EXTENDS Startup
=============================================================================
