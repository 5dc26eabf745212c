---------------------------- MODULE MCOtaUpdate -----------------------------
(* Small instances of OtaUpdate: images of one to three chunks, some a     *)
(* prefix of another, so that announced sizes and digests can disagree     *)
(* with each other and with what arrives.                                  *)
EXTENDS OtaUpdate

CONSTANTS uart, ble
MCFactory == <<"a">>
MCImages  == {<<"a">>, <<"a", "b">>, <<"a", "b", "a">>}
OneConsole  == {uart}
TwoConsoles == {uart, ble}
=============================================================================
