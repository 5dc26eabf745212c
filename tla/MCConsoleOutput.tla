-------------------------- MODULE MCConsoleOutput ---------------------------
(* Small instances of ConsoleOutput: lines of two pieces, so that another  *)
(* task, or a connection event, can come between them.                     *)
EXTENDS ConsoleOutput
=============================================================================
