--------------------------- MODULE StartupProofs ----------------------------
(***************************************************************************)
(* However often start-up aborts, and wherever, no task of app_main runs   *)
(* before what it uses exists, and the lock against light sleep is taken   *)
(* once or not at all.                                                     *)
(***************************************************************************)
EXTENDS Startup, TLAPS

(* The steps of app_main by their numbers, as the concatenation of the     *)
(* init functions' own steps gives them.                                   *)
LEMMA AppMainSteps ==
  /\ Len(app_main) = 23
  /\ app_main[1]  = Make("s_diag_lock")        /\ app_main[2]  = Make("nvs")
  /\ app_main[3]  = Make("s_state_lock")
  /\ app_main[4]  = Make("s_debug_pm_lock")    /\ app_main[5]  = Make("debug_pm_hold")
  /\ app_main[6]  = Start("debug_pm")
  /\ app_main[7]  = Make("s_uart_write_lock")  /\ app_main[8]  = Make("uart_driver")
  /\ app_main[9]  = Start("uart_cmd")
  /\ app_main[10] = Make("s_command_queue")    /\ app_main[11] = Make("s_notify_lock")
  /\ app_main[12] = Make("gatt")
  /\ app_main[13] = Start("ble_cmd")           /\ app_main[14] = Start("ble_host")
  /\ app_main[15] = Make("s_led_strip")        /\ app_main[16] = Start("status_led")
  /\ app_main[17] = Make("s_rx_queue")         /\ app_main[18] = Make("s_twai_node")
  /\ app_main[19] = Start("twai_isr")          /\ app_main[20] = Start("can_rx")
  /\ app_main[21] = Make("telemetry_interval")
  /\ app_main[22] = Start("control")           /\ app_main[23] = Start("telemetry")
BY DEF app_main, meb_diag_init, meb_settings_init, meb_state_init, meb_power_management_init,
       meb_serial_console_init, meb_ble_console_init, meb_status_led_start, meb_can_init,
       meb_control_start

(* What the steps before step i have made.                                 *)
MadeBefore(i) == {app_main[j][2] : j \in {k \in 1 .. i - 1 : app_main[k][1] = "make"}}

(* The order of app_main: a task is started only after all that it uses,   *)
(* and the host task only after what the output over BLE uses.             *)
LEMMA OrderOfInit ==
  ASSUME NEW i \in 1 .. Len(app_main), app_main[i][1] = "start"
  PROVE  /\ app_main[i][2] \in DOMAIN Uses
         /\ Uses[app_main[i][2]] \subseteq MadeBefore(i)
         /\ app_main[i][2] = "ble_host" => BleWriteUses \subseteq MadeBefore(i)
<1>1. ASSUME NEW j \in 1 .. i - 1, app_main[j][1] = "make"
      PROVE  app_main[j][2] \in MadeBefore(i)
  BY <1>1 DEF MadeBefore
<1>2. /\ 1 < i  => "s_diag_lock" \in MadeBefore(i)
      /\ 2 < i  => "nvs" \in MadeBefore(i)
      /\ 3 < i  => "s_state_lock" \in MadeBefore(i)
      /\ 4 < i  => "s_debug_pm_lock" \in MadeBefore(i)
      /\ 7 < i  => "s_uart_write_lock" \in MadeBefore(i)
      /\ 8 < i  => "uart_driver" \in MadeBefore(i)
      /\ 10 < i => "s_command_queue" \in MadeBefore(i)
      /\ 11 < i => "s_notify_lock" \in MadeBefore(i)
      /\ 12 < i => "gatt" \in MadeBefore(i)
      /\ 15 < i => "s_led_strip" \in MadeBefore(i)
      /\ 17 < i => "s_rx_queue" \in MadeBefore(i)
      /\ 18 < i => "s_twai_node" \in MadeBefore(i)
      /\ 21 < i => "telemetry_interval" \in MadeBefore(i)
  BY <1>1, AppMainSteps DEF Make
<1>3. i \in {6, 9, 13, 14, 16, 19, 20, 22, 23}
  BY AppMainSteps DEF Make, Start
<1> QED
  BY <1>2, <1>3, AppMainSteps DEF Start, Uses, CommandUses, BleWriteUses

(* ReadyBeforeUse with what it needs: everything before the current step   *)
(* has been made, and BLE is started by its host task.                     *)
BootInv ==
  /\ step \in 1 .. Len(app_main) + 1
  /\ MadeBefore(step) \subseteq made
  /\ tasks \subseteq DOMAIN Uses
  /\ \A t \in tasks : Uses[t] \subseteq made
  /\ "ble_host" \in tasks => BleWriteUses \subseteq made
  /\ s_ble_started => "ble_host" \in tasks

(* A step of app_main keeps BootInv.                                       *)
LEMMA InitStepBoot == BootInv /\ InitStep => BootInv'
<1> SUFFICES ASSUME BootInv, InitStep PROVE BootInv'
  OBVIOUS
<1> DEFINE name == app_main[step][2]
<1> USE DEF BootInv
<1>0. step \in 1 .. Len(app_main) /\ step' = step + 1 /\ step' \in 1 .. Len(app_main) + 1
  BY AppMainSteps DEF InitStep
<1>1. app_main[step][1] = "make" \/ app_main[step][1] = "start"
  BY <1>0, AppMainSteps DEF Make, Start
<1>2. CASE app_main[step][1] = "make"
  <2>1. made' = made \cup {name} /\ tasks' = tasks /\ s_ble_started' = s_ble_started
    BY <1>2 DEF InitStep
  <2>2. MadeBefore(step') \subseteq MadeBefore(step) \cup {name}
    BY <1>0 DEF MadeBefore
  <2> QED
    BY <1>0, <2>1, <2>2
<1>3. CASE app_main[step][1] = "start"
  <2>1. made' = made /\ tasks' = tasks \cup {name} /\ s_ble_started' = s_ble_started
    BY <1>3 DEF InitStep
  <2>2. MadeBefore(step') = MadeBefore(step)
    BY <1>0, <1>3 DEF MadeBefore
  <2>3. /\ name \in DOMAIN Uses
        /\ Uses[name] \subseteq MadeBefore(step)
        /\ name = "ble_host" => BleWriteUses \subseteq MadeBefore(step)
    BY <1>0, <1>3, OrderOfInit
  <2> QED
    BY <1>0, <2>1, <2>2, <2>3
<1> QED
  BY <1>1, <1>2, <1>3

(* Every step keeps BootInv.                                               *)
LEMMA StepBoot == BootInv /\ [Next]_vars => BootInv'
<1> SUFFICES ASSUME BootInv, [Next]_vars PROVE BootInv'
  OBVIOUS
<1>1. CASE InitStep
  BY <1>1, InitStepBoot
<1>2. CASE Abort
  BY <1>2, AppMainSteps DEF Abort, BootInv, MadeBefore
<1>3. CASE on_sync
  BY <1>3 DEF on_sync, BootInv
<1>4. CASE RunDebugPm \/ RunLed \/ GraceOver \/ Environment \/ UNCHANGED vars
  BY <1>4 DEF RunDebugPm, RunLed, GraceOver, Environment, bootVars, vars, BootInv
<1> QED
  BY <1>1, <1>2, <1>3, <1>4 DEF Next

(* At no moment of app_main, and after no abort, does a task run without   *)
(* the locks, queues and handles it uses, or BLE output without its own.   *)
THEOREM ReadyFirst == Spec => []ReadyBeforeUse
<1>1. Init => BootInv
  BY AppMainSteps DEF Init, BootInv, MadeBefore
<1>2. BootInv /\ [Next]_vars => BootInv'
  BY StepBoot
<1>3. BootInv => ReadyBeforeUse
  BY DEF BootInv, ReadyBeforeUse
<1> QED
  BY <1>1, <1>2, <1>3, PTL DEF Spec

-----------------------------------------------------------------------------
(* The lock of power_management.c counts.  debug_pm_task keeps its own     *)
(* note of it, and goes by the note through every refused call: the lock   *)
(* is taken at most once, never given back when it is not held, and        *)
(* s_debug_pm_lock_held says which.                                        *)
LockCounted == lock_count = IF s_debug_pm_lock_held THEN 1 ELSE 0

(* LockCounted as SMT can use it: a note is TRUE or FALSE.                 *)
LockInv ==
  /\ s_debug_pm_lock_held \in BOOLEAN /\ hold \in BOOLEAN
  /\ attached \in BOOLEAN /\ in_boot_grace \in BOOLEAN
  /\ s_debug_pm_lock_held = TRUE => lock_count = 1
  /\ s_debug_pm_lock_held = FALSE => lock_count = 0

(* Taking or giving back the lock keeps the count with the note.           *)
LEMMA SetLock ==
  ASSUME LockInv, NEW want \in BOOLEAN, NEW ok \in BOOLEAN, set_debug_pm_lock(want, ok)
  PROVE  /\ s_debug_pm_lock_held' \in BOOLEAN
         /\ s_debug_pm_lock_held' = TRUE => lock_count' = 1
         /\ s_debug_pm_lock_held' = FALSE => lock_count' = 0
BY DEF LockInv, set_debug_pm_lock

(* Every step keeps LockInv.                                               *)
LEMMA StepLock == LockInv /\ [Next]_vars => LockInv'
<1> SUFFICES ASSUME LockInv, [Next]_vars PROVE LockInv'
  OBVIOUS
<1>1. CASE HoldForGrace
  BY <1>1, SetLock DEF HoldForGrace, LockInv
<1>2. CASE PollDebugger
  BY <1>2, Zenon DEF PollDebugger, LockInv
<1>3. ASSUME NEW ok \in BOOLEAN, UpdateLock(ok) PROVE LockInv'
  BY <1>3, SetLock DEF UpdateLock, LockInv
<1>4. CASE PmReset
  BY <1>4 DEF PmReset, LockInv
<1>5. CASE GraceEnds \/ StartMonitor \/ PollDelayEnds \/ UNCHANGED pmVars
  BY <1>5 DEF GraceEnds, StartMonitor, PollDelayEnds, pmVars, LockInv
<1>6. CASE DebuggerMoves
  BY <1>6 DEF DebuggerMoves, LockInv
<1>7. CASE InitStep
  BY <1>1, <1>5, <1>7 DEF InitStep, PmStep
<1>8. CASE RunDebugPm
  BY <1>2, <1>3, <1>5, <1>8 DEF RunDebugPm, DebugPmTask
<1> QED
  BY <1>4, <1>5, <1>6, <1>7, <1>8
  DEF Next, Abort, on_sync, RunLed, GraceOver, Environment, vars

(* The safety half of LockFollowsDebugger, for any number of aborts and of *)
(* refused calls: the lock of power_management.c never counts beyond one   *)
(* nor below zero, and its flag knows.                                     *)
THEOREM LockOnce == Spec => []LockCounted
<1>1. Init => LockInv
  BY DEF Init, PmInit, LockInv
<1>2. LockInv /\ [Next]_vars => LockInv'
  BY StepLock
<1>3. LockInv => LockCounted
  BY DEF LockInv, LockCounted
<1> QED
  BY <1>1, <1>2, <1>3, PTL DEF Spec
=============================================================================
