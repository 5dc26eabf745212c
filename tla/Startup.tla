------------------------------ MODULE Startup -------------------------------
(***************************************************************************)
(* app_main of main/meb-preheat.c, with the two tasks that depend on       *)
(* little else, those of PowerManagement and StatusLed.  The init          *)
(* functions run in order.  Each makes the locks, queues and handles of    *)
(* its component and then starts tasks, which run while the later ones are *)
(* still to come.  Any failure aborts: the device resets and begins again. *)
(*                                                                         *)
(* Locks are taken only "if (s_..._lock)": a task that is started before   *)
(* its lock exists would work unprotected and not fail.                    *)
(***************************************************************************)
EXTENDS PowerManagement, StatusLed, Sequences

CONSTANT
  MaxAborts     (* bound: aborts, of start-up or by a failing LED          *)

ASSUME StartupConstants == MaxAborts \in Nat

VARIABLES
  step,            (* the next step of app_main                            *)
  made,            (* objects that exist                                   *)
  tasks,           (* tasks and interrupts that run                        *)
  s_ble_started,   (* set by on_sync in the NimBLE host task               *)
  aborts           (* how often the program has aborted                    *)

bootVars == <<step, made, tasks, s_ble_started, aborts>>
vars == <<bootVars, pmVars, ledVars>>

Make(object) == <<"make", object>>
Start(task)  == <<"start", task>>

(* What each init function makes and starts, in its order.                 *)
meb_diag_init             == <<Make("s_diag_lock")>>
meb_settings_init         == <<Make("nvs")>>
meb_state_init            == <<Make("s_state_lock")>>
meb_power_management_init == <<Make("s_debug_pm_lock"), Make("debug_pm_hold"), Start("debug_pm")>>
meb_serial_console_init   == <<Make("s_uart_write_lock"), Make("uart_driver"), Start("uart_cmd")>>
meb_ble_console_init      == <<Make("s_command_queue"), Make("s_notify_lock"), Make("gatt"),
                               Start("ble_cmd"), Start("ble_host")>>
meb_status_led_start      == <<Make("s_led_strip"), Start("status_led")>>
meb_can_init              == <<Make("s_rx_queue"), Make("s_twai_node"), Start("twai_isr"), Start("can_rx")>>
meb_control_start         == <<Make("telemetry_interval"), Start("control"), Start("telemetry")>>

(* Mutant: the shared state is initialised after the consoles.             *)
AppMain_StateLate ==
  meb_diag_init \o meb_settings_init \o meb_power_management_init
    \o meb_serial_console_init \o meb_ble_console_init \o meb_state_init
    \o meb_status_led_start \o meb_can_init \o meb_control_start

(* meb_can_start_test_tx does nothing unless a build asks for test frames. *)
app_main ==
  meb_diag_init \o meb_settings_init \o meb_state_init \o meb_power_management_init
    \o meb_serial_console_init \o meb_ble_console_init
    \o meb_status_led_start \o meb_can_init \o meb_control_start

(* What the handlers of a command use, whichever console it came from; the *)
(* CAN node and BLE are asked for only if they are there.                  *)
CommandUses == {"s_state_lock", "s_diag_lock", "nvs", "s_uart_write_lock", "uart_driver"}

Uses ==
  [debug_pm   |-> {"s_debug_pm_lock"},
   uart_cmd   |-> CommandUses,
   ble_cmd    |-> CommandUses \cup {"s_command_queue"},
   ble_host   |-> {"s_command_queue", "s_diag_lock", "gatt"},
   status_led |-> {"s_state_lock", "s_led_strip"},
   twai_isr   |-> {"s_rx_queue"},
   can_rx     |-> {"s_rx_queue", "s_state_lock", "s_diag_lock"},
   control    |-> {"s_state_lock", "s_diag_lock", "s_twai_node", "s_uart_write_lock"},
   telemetry  |-> {"s_state_lock", "s_diag_lock", "s_twai_node", "s_uart_write_lock", "telemetry_interval"}]

(* What meb_ble_console_write uses once BLE is started.                    *)
BleWriteUses == {"s_notify_lock", "gatt"}

Init ==
  /\ step = 1 /\ made = {} /\ tasks = {}
  /\ s_ble_started = FALSE
  /\ aborts = 0
  /\ PmInit /\ LedInit

-----------------------------------------------------------------------------
Does(kind, name) == step <= Len(app_main) /\ app_main[step] = <<kind, name>>

PmStep ==
  \/ Does("make", "debug_pm_hold") /\ HoldForGrace
  \/ Does("start", "debug_pm") /\ StartMonitor
  \/ ~Does("make", "debug_pm_hold") /\ ~Does("start", "debug_pm") /\ UNCHANGED pmVars

LedStep ==
  \/ Does("make", "s_led_strip") /\ configure_led
  \/ Does("start", "status_led") /\ StartLed
  \/ ~Does("make", "s_led_strip") /\ ~Does("start", "status_led") /\ UNCHANGED ledVars

(* The next step succeeds ...                                              *)
InitStep ==
  /\ step <= Len(app_main)
  /\ LET kind == app_main[step][1]
         name == app_main[step][2]
     IN  /\ made' = IF kind = "make" THEN made \cup {name} ELSE made
         /\ tasks' = IF kind = "start" THEN tasks \cup {name} ELSE tasks
  /\ step' = step + 1
  /\ PmStep /\ LedStep
  /\ UNCHANGED <<s_ble_started, aborts>>

(* ... or fails, or the LED does: ESP_ERROR_CHECK aborts and the device    *)
(* resets.                                                                 *)
Abort ==
  /\ step <= Len(app_main) \/ ShowFails
  /\ aborts < MaxAborts
  /\ aborts' = aborts + 1
  /\ step' = 1 /\ made' = {} /\ tasks' = {}
  /\ s_ble_started' = FALSE
  /\ PmReset /\ LedReset

on_sync ==
  /\ "ble_host" \in tasks
  /\ ~s_ble_started
  /\ s_ble_started' = TRUE
  /\ UNCHANGED <<step, made, tasks, aborts, pmVars, ledVars>>

RunDebugPm  == DebugPmTask /\ UNCHANGED <<bootVars, ledVars>>
RunLed      == LedTask /\ UNCHANGED <<bootVars, pmVars>>
GraceOver   == GraceEnds /\ UNCHANGED <<bootVars, ledVars>>
Environment ==
  \/ DebuggerMoves /\ UNCHANGED <<bootVars, ledVars>>
  \/ "uart_cmd" \in tasks /\ SwitchMoves /\ UNCHANGED <<bootVars, pmVars>>
  \/ "can_rx" \in tasks /\ ReportChanges /\ UNCHANGED <<bootVars, pmVars>>

Next == InitStep \/ Abort \/ on_sync \/ RunDebugPm \/ RunLed \/ GraceOver \/ Environment

(* app_main and the tasks run on and time passes, for aborts are finitely  *)
(* many; ESP-IDF does not refuse the lock for ever.                        *)
Spec ==
  /\ Init /\ [][Next]_vars
  /\ WF_vars(InitStep) /\ WF_vars(RunLed) /\ WF_vars(RunDebugPm) /\ WF_vars(GraceOver)
  /\ SF_vars(UpdateLock(TRUE) /\ UNCHANGED <<bootVars, ledVars>>)

-----------------------------------------------------------------------------
(* No task runs before the locks, queues and handles that it uses exist,   *)
(* at no moment of start-up and after no abort; and once BLE is started    *)
(* the console's output has all it needs there.                            *)
ReadyBeforeUse ==
  /\ \A t \in tasks : Uses[t] \subseteq made
  /\ s_ble_started => BleWriteUses \subseteq made

(* With the debugger attached for good the chip stays out of light sleep,  *)
(* and with none it may sleep again: through failing calls and aborts the  *)
(* lock is neither lost nor left taken.                                    *)
LockFollowsDebugger ==
  /\ <>[]attached => <>[](lock_count > 0)
  /\ <>[]~attached => <>[](lock_count = 0)

(* Whatever the state settles at, the LED ends up showing it, although it  *)
(* is written only on change and keeps its colour through an abort.        *)
LedShowsState ==
  \A c \in {"red", "yellow", "blue", "green"} : <>[](status_color = c) => <>[](shown = c)
=============================================================================
