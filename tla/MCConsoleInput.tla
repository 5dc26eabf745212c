--------------------------- MODULE MCConsoleInput ---------------------------
(* Small instances of ConsoleInput.  With a buffer of 4 bytes a line of 3  *)
(* just fits, and the rest of a longer one can look like a command.        *)
EXTENDS ConsoleInput

MCShort == {<<"{", "x">>, <<"{", "{", "x">>}
MCMixed == MCShort \cup {<<"{", "x", "x", "x", "{", "x">>}
=============================================================================
