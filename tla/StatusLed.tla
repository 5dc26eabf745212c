------------------------------ MODULE StatusLed -----------------------------
(***************************************************************************)
(* main/status_led.c: led_task shows the switch and the reported heating   *)
(* as one of four colours, and writes to the LED only when the colour      *)
(* differs from the one it showed last.  A write that fails aborts the     *)
(* program.  Of the shared state the LED reads two signals, which consoles *)
(* and the CAN receive task change at any time; AppState has the rest.     *)
(***************************************************************************)
EXTENDS Integers

Dark == "dark"   (* no colour yet: ~has_last_color, or a cleared LED *)

VARIABLES
  led,               (* where led_task is: "off" before it is created      *)
  color,             (* its local                                          *)
  last_color,        (* its local, Dark while has_last_color is FALSE      *)
  shown,             (* external: what the LED shows                       *)
  heating_enabled,   (* of the shared state                                *)
  active             (* its heating_status is valid and not 0              *)

ledVars == <<led, color, last_color, shown, heating_enabled, active>>

LedInit ==
  /\ led = "off" /\ color = Dark /\ last_color = Dark
  /\ shown = Dark
  /\ heating_enabled = FALSE /\ active = FALSE

(* A reset; the LED goes on showing what it shows.                         *)
LedReset ==
  /\ led' = "off" /\ color' = Dark /\ last_color' = Dark
  /\ heating_enabled' = FALSE /\ active' = FALSE
  /\ UNCHANGED shown

-----------------------------------------------------------------------------
status_color ==
  CASE heating_enabled /\ active   -> "red"
    [] heating_enabled /\ ~active  -> "yellow"
    [] ~heating_enabled /\ active  -> "blue"
    [] ~heating_enabled /\ ~active -> "green"

(* configure_led clears the LED, ...                                       *)
configure_led ==
  /\ shown' = Dark
  /\ UNCHANGED <<led, color, last_color, heating_enabled, active>>

(* ... and meb_status_led_start starts the task.                           *)
StartLed ==
  /\ led' = "loop"
  /\ UNCHANGED <<color, last_color, shown, heating_enabled, active>>

LedSnapshot ==
  /\ led = "loop"
  /\ color' = status_color
  /\ led' = "show"
  /\ UNCHANGED <<last_color, shown, heating_enabled, active>>

(* Mutant: only the first colour is remembered.                            *)
ShowColor_FirstRemembered ==
  /\ led = "show"
  /\ shown' = IF color = last_color THEN shown ELSE color
  /\ last_color' = IF last_color = Dark THEN color ELSE last_color
  /\ led' = "delay"
  /\ UNCHANGED <<color, heating_enabled, active>>

show_color ==
  /\ led = "show"
  /\ shown' = IF color = last_color THEN shown ELSE color
  /\ last_color' = color
  /\ led' = "delay"
  /\ UNCHANGED <<color, heating_enabled, active>>

(* The LED driver fails: ESP_ERROR_CHECK.                                  *)
ShowFails == led = "show" /\ color # last_color

LedDelayEnds ==
  /\ led = "delay"
  /\ led' = "loop"
  /\ UNCHANGED <<color, last_color, shown, heating_enabled, active>>

(* A console or the auto-off moves the switch.                             *)
SwitchMoves ==
  /\ heating_enabled' = ~heating_enabled
  /\ UNCHANGED <<led, color, last_color, shown, active>>

(* A report of the heater comes, or has grown stale.                       *)
ReportChanges ==
  /\ active' = ~active
  /\ UNCHANGED <<led, color, last_color, shown, heating_enabled>>

LedTask == LedSnapshot \/ show_color \/ LedDelayEnds
=============================================================================
