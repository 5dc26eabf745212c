------------------------------ MODULE AppState ------------------------------
(***************************************************************************)
(* The shared controller state of main/app_state.c: the heating switch     *)
(* with its two auto-off deadlines, the "session error" latch and the CAN  *)
(* signals with the time each was last seen.                               *)
(*                                                                         *)
(* Every function of app_state.c does its work between lock_state() and    *)
(* unlock_state(), so each is one atomic action here.  Several of them     *)
(* read the clock BEFORE taking the lock; those take that earlier reading  *)
(* as a parameter t, and the modules that use them decide how old t is.    *)
(***************************************************************************)
EXTENDS Integers

CONSTANTS
  Signals,          (* the CAN-derived fields of meb_state_snapshot_t      *)
  Values,           (* abstract decoded values of a field                  *)
  US_PER_MINUTE,    (* clock ticks in one minute                           *)
  STALE,            (* MEB_CAN_SIGNAL_STALE_US                             *)
  SAFETY_ENABLED,   (* MEB_SAFETY_AUTO_OFF_ENABLED                         *)
  SAFETY_MINUTES    (* MEB_SAFETY_AUTO_OFF_MINUTES                         *)

ASSUME AppStateConstants ==
  /\ {"temperature_status_charge", "bms_soc_percent"} \subseteq Signals
  /\ {0, 1} \subseteq Values
  /\ US_PER_MINUTE \in Nat \ {0}
  /\ STALE \in Nat \ {0}
  /\ SAFETY_ENABLED \in BOOLEAN
  /\ SAFETY_MINUTES \in Nat

VARIABLES
  now,                    (* esp_timer_get_time()                          *)
  heating_enabled,        (* s_state.heating_enabled                       *)
  auto_off_timer_minutes, (* s_state.auto_off_timer_minutes                *)
  enabled_since,          (* s_heating_enabled_since_us, 0 when off        *)
  user_deadline,          (* s_user_auto_off_deadline_us, 0 when none      *)
  session_error,          (* s_state.session_error                         *)
  signal                  (* value, valid flag and seen_us of each signal  *)

switchVars == <<heating_enabled, auto_off_timer_minutes, enabled_since, user_deadline>>
stateVars  == <<switchVars, session_error, signal>>

UNDER_OPTIMAL == 1   (* MEB_TEMPERATURE_STATUS_UNDER_OPTIMAL *)

SignalRecord == [valid : BOOLEAN, value : Values, seen : Nat]

AppStateTypeOK ==
  /\ now \in Nat
  /\ heating_enabled \in BOOLEAN
  /\ auto_off_timer_minutes \in Nat
  /\ enabled_since \in Nat
  /\ user_deadline \in Nat
  /\ session_error \in BOOLEAN
  /\ signal \in [Signals -> SignalRecord]

(* The state after meb_state_init: memset to zero.                         *)
meb_state_init ==
  /\ heating_enabled = FALSE
  /\ auto_off_timer_minutes = 0
  /\ enabled_since = 0
  /\ user_deadline = 0
  /\ session_error = FALSE
  /\ signal = [s \in Signals |-> [valid |-> FALSE, value |-> 0, seen |-> 0]]

-----------------------------------------------------------------------------
minutes_to_us(minutes) == minutes * US_PER_MINUTE

(* Mutant: off by one at the limit.                                        *)
SignalFresh_OneTooLong(t, last_seen) == last_seen > 0 /\ t - last_seen <= STALE

can_signal_is_fresh(t, last_seen) == last_seen > 0 /\ t - last_seen < STALE

invalidate_stale_can_signals(t) ==
  [s \in Signals |->
     [signal[s] EXCEPT !.valid = @ /\ can_signal_is_fresh(t, signal[s].seen)]]

(* Mutant: rounds down.                                                    *)
RemainingMinutes_Floor(remaining) == IF remaining <= 0 THEN 0 ELSE remaining \div US_PER_MINUTE

remaining_minutes_ceil(remaining) ==
  IF remaining <= 0 THEN 0
  ELSE (remaining + US_PER_MINUTE - 1) \div US_PER_MINUTE

safety_auto_off_deadline ==
  IF SAFETY_ENABLED /\ enabled_since > 0 /\ SAFETY_MINUTES > 0
  THEN enabled_since + minutes_to_us(SAFETY_MINUTES)
  ELSE 0

(* Mutant: the safety deadline hides the user's.                           *)
EffectiveDeadline_SafetyFirst ==
  IF safety_auto_off_deadline > 0 THEN safety_auto_off_deadline ELSE user_deadline

(* The earlier of the two deadlines, where 0 means "no deadline".          *)
effective_auto_off_deadline ==
  IF safety_auto_off_deadline > 0
     /\ (user_deadline = 0 \/ safety_auto_off_deadline < user_deadline)
  THEN safety_auto_off_deadline
  ELSE user_deadline

(* What meb_state_get_snapshot hands out when it read the clock at t.      *)
meb_state_get_snapshot(t) ==
  LET counting == heating_enabled /\ effective_auto_off_deadline > 0
  IN [heating_enabled        |-> heating_enabled,
      signal                 |-> invalidate_stale_can_signals(t),
      auto_off_timer_minutes |-> auto_off_timer_minutes,
      auto_off_timer_enabled |-> auto_off_timer_minutes > 0,
      auto_off_remaining     |->
        [valid |-> counting,
         value |-> IF counting
                   THEN remaining_minutes_ceil(effective_auto_off_deadline - t)
                   ELSE 0]]

-----------------------------------------------------------------------------
(* Mutant: enabling again restarts the safety limit.                       *)
SetHeating_Restarts(enabled) ==
  /\ heating_enabled' = enabled
  /\ enabled_since' = IF enabled THEN now ELSE 0
  /\ user_deadline' = IF enabled /\ auto_off_timer_minutes > 0
                      THEN now + minutes_to_us(auto_off_timer_minutes)
                      ELSE 0
  /\ UNCHANGED <<auto_off_timer_minutes, session_error, signal>>

(* heating.set.  Enabling an enabled heater keeps the running deadlines.   *)
meb_state_set_heating_enabled(enabled) ==
  /\ heating_enabled' = enabled
  /\ \/ /\ enabled /\ ~heating_enabled
        /\ enabled_since' = now
        /\ user_deadline' = IF auto_off_timer_minutes > 0
                            THEN now + minutes_to_us(auto_off_timer_minutes)
                            ELSE 0
     \/ /\ enabled /\ heating_enabled
        /\ UNCHANGED <<enabled_since, user_deadline>>
     \/ /\ ~enabled
        /\ enabled_since' = 0
        /\ user_deadline' = 0
  /\ UNCHANGED <<auto_off_timer_minutes, session_error, signal>>

(* Mutant: a deadline that is already running is kept.                     *)
SetAutoOffTimer_KeepsDeadline(minutes) ==
  /\ auto_off_timer_minutes' = minutes
  /\ user_deadline' = IF heating_enabled /\ minutes > 0
                      THEN IF user_deadline > 0 THEN user_deadline
                           ELSE now + minutes_to_us(minutes)
                      ELSE 0
  /\ UNCHANGED <<heating_enabled, enabled_since, session_error, signal>>

(* heating.set_auto_off_timer.                                             *)
meb_state_set_auto_off_timer_minutes(minutes) ==
  /\ auto_off_timer_minutes' = minutes
  /\ user_deadline' = IF heating_enabled /\ minutes > 0
                      THEN now + minutes_to_us(minutes)
                      ELSE 0
  /\ UNCHANGED <<heating_enabled, enabled_since, session_error, signal>>

(* The verdict of meb_state_apply_auto_off for a clock reading t.          *)
auto_off_reason(t) ==
  LET deadline == effective_auto_off_deadline IN
  IF ~(heating_enabled /\ deadline > 0 /\ t >= deadline) THEN "none"
  ELSE IF user_deadline > 0 /\ user_deadline <= deadline THEN "timer"
  ELSE "safety"

meb_state_apply_auto_off(t) ==
  /\ \/ /\ auto_off_reason(t) # "none"
        /\ heating_enabled' = FALSE
        /\ enabled_since' = 0
        /\ user_deadline' = 0
     \/ /\ auto_off_reason(t) = "none"
        /\ UNCHANGED <<heating_enabled, enabled_since, user_deadline>>
  /\ UNCHANGED <<auto_off_timer_minutes, session_error, signal>>

(* Mutant: the latch is read but not cleared.                              *)
TakeSessionError_NotCleared == UNCHANGED stateVars

meb_state_take_session_error ==
  /\ session_error' = FALSE
  /\ UNCHANGED <<switchVars, signal>>

-----------------------------------------------------------------------------
(* CAN frames.  The meb_state_update_* functions for the heating status,   *)
(* charging optimization, dynamic and temperature frames differ only in    *)
(* the field they decode: a frame that is long enough stores its decoded   *)
(* value v and the clock reading t taken before the lock.                  *)
meb_state_update(s, v, t) ==
  /\ signal' = [signal EXCEPT ![s] = [valid |-> TRUE, value |-> v, seen |-> t]]
  /\ UNCHANGED <<switchVars, session_error>>

(* 04 62 02 8C xx carries the state of charge, 03 7F 2F 7F is the rejected *)
(* routine, which latches session_error; anything else is ignored.         *)
DiagResponses == {"soc", "rejected", "other"}

meb_state_update_diag_response(response, v, t) ==
  \/ response = "soc" /\ meb_state_update("bms_soc_percent", v, t)
  \/ /\ response = "rejected"
     /\ session_error' = TRUE
     /\ UNCHANGED <<switchVars, signal>>
  \/ response = "other" /\ UNCHANGED stateVars
=============================================================================
