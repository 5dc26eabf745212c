--------------------------- MODULE PowerManagement --------------------------
(***************************************************************************)
(* main/power_management.c, as the production build has it.  ESP-IDF puts  *)
(* the chip to light sleep whenever it idles and nobody holds a lock of    *)
(* the kind ESP_PM_NO_LIGHT_SLEEP, which cuts a JTAG debugger off.  So     *)
(* start_debug_pm_monitor takes such a lock, and debug_pm_task keeps it    *)
(* for a grace time after boot and while a debugger is attached.           *)
(*                                                                         *)
(* The lock counts: taken twice, it must be given back twice.              *)
(***************************************************************************)
EXTENDS Integers

VARIABLES
  s_debug_pm_lock_held,
  monitor,         (* where debug_pm_task is: "off" before it is created   *)
  hold,            (* what it is about to ask for                          *)
  in_boot_grace,   (* esp_timer_get_time() < grace_until_us                *)
  lock_count,      (* external: the count of s_debug_pm_lock               *)
  attached         (* external: esp_cpu_dbgr_is_attached()                 *)

pmVars == <<s_debug_pm_lock_held, monitor, hold, in_boot_grace, lock_count, attached>>

PmInit ==
  /\ s_debug_pm_lock_held = FALSE
  /\ monitor = "off" /\ hold = FALSE
  /\ in_boot_grace = TRUE
  /\ lock_count = 0
  /\ attached \in BOOLEAN

(* A reset; the debugger stays where it is.                                *)
PmReset ==
  /\ s_debug_pm_lock_held' = FALSE
  /\ monitor' = "off" /\ hold' = FALSE
  /\ in_boot_grace' = TRUE
  /\ lock_count' = 0
  /\ UNCHANGED attached

-----------------------------------------------------------------------------
(* esp_pm_lock_acquire or esp_pm_lock_release, unless the lock is already  *)
(* as wanted; ok says whether ESP-IDF does it.                             *)
set_debug_pm_lock(want, ok) ==
  IF want = s_debug_pm_lock_held \/ ~ok
    THEN UNCHANGED <<lock_count, s_debug_pm_lock_held>>
    ELSE /\ lock_count' = IF want THEN lock_count + 1 ELSE lock_count - 1
         /\ s_debug_pm_lock_held' = want

(* start_debug_pm_monitor after it has created the lock: takes it, ...     *)
HoldForGrace ==
  /\ set_debug_pm_lock(TRUE, TRUE)
  /\ UNCHANGED <<monitor, hold, in_boot_grace, attached>>

(* ... and starts the task.                                                *)
StartMonitor ==
  /\ monitor' = "poll"
  /\ UNCHANGED <<s_debug_pm_lock_held, hold, in_boot_grace, lock_count, attached>>

(* debug_pm_task                                                           *)
PollDebugger ==
  /\ monitor = "poll"
  /\ hold' = (attached \/ in_boot_grace)
  /\ monitor' = "update"
  /\ UNCHANGED <<s_debug_pm_lock_held, in_boot_grace, lock_count, attached>>

(* Mutant: the task ends at the first error.                               *)
UpdateLock_GivesUp(ok) ==
  /\ monitor = "update"
  /\ set_debug_pm_lock(hold, ok)
  /\ monitor' = IF ok THEN "delay" ELSE "ended"
  /\ UNCHANGED <<hold, in_boot_grace, attached>>

(* An error is only logged: the next poll tries again.                     *)
UpdateLock(ok) ==
  /\ monitor = "update"
  /\ set_debug_pm_lock(hold, ok)
  /\ monitor' = "delay"
  /\ UNCHANGED <<hold, in_boot_grace, attached>>

PollDelayEnds ==
  /\ monitor = "delay"
  /\ monitor' = "poll"
  /\ UNCHANGED <<s_debug_pm_lock_held, hold, in_boot_grace, lock_count, attached>>

(* Time passes: MEB_PM_JTAG_BOOT_GRACE_MS since the task started.          *)
GraceEnds ==
  /\ monitor # "off" /\ in_boot_grace
  /\ in_boot_grace' = FALSE
  /\ UNCHANGED <<s_debug_pm_lock_held, monitor, hold, lock_count, attached>>

(* External: a debugger is attached or detached.                           *)
DebuggerMoves ==
  /\ attached' = ~attached
  /\ UNCHANGED <<s_debug_pm_lock_held, monitor, hold, in_boot_grace, lock_count>>

DebugPmTask == PollDebugger \/ (\E ok \in BOOLEAN : UpdateLock(ok)) \/ PollDelayEnds
=============================================================================
