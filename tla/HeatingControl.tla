--------------------------- MODULE HeatingControl ---------------------------
(***************************************************************************)
(* The control task of main/control.c on top of the shared state: every    *)
(* MEB_CONTROL_PERIOD_MS it applies the auto-off deadlines, takes a        *)
(* snapshot and, when heating is wanted and the car reports a battery      *)
(* below its optimal temperature, sends a heat request, or a diagnostic    *)
(* session request when the last one was rejected.                         *)
(*                                                                         *)
(* The console tasks change the switch and the timer, and the CAN receive  *)
(* task stores signals, between any two steps of the control task.  Time   *)
(* passes between the steps too: one cycle prints to the UART and to BLE   *)
(* and waits up to 500 ms in twai_node_transmit.  MAX_CYCLE names the      *)
(* longest a cycle may take; the bounds below are stated in terms of it.   *)
(***************************************************************************)
EXTENDS AppState

CONSTANTS
  INITIAL_DELAY,   (* MEB_CONTROL_INITIAL_DELAY_MS                         *)
  PERIOD,          (* MEB_CONTROL_PERIOD_MS                                *)
  MAX_CYCLE,       (* longest time from waking up to sleeping again        *)
  MinuteChoices,   (* timer settings the user tries                        *)
  Frames,          (* signals the car broadcasts                           *)
  Responses,       (* diagnostic responses the car sends                   *)
  MaxTime,         (* bound: the clock stops here                          *)
  MaxRejections    (* bound: rejected routines received                    *)

ASSUME HeatingControlConstants ==
  /\ INITIAL_DELAY \in Nat
  /\ PERIOD \in Nat
  /\ INITIAL_DELAY <= PERIOD
  /\ MAX_CYCLE \in Nat
  /\ MinuteChoices \subseteq Nat
  /\ Frames \subseteq Signals
  /\ Responses \subseteq DiagResponses
  /\ MaxTime \in Nat
  /\ MaxRejections \in Nat

VARIABLES
  pc,       (* where the control task is                                   *)
  wake,     (* when its vTaskDelay ends, kept during the cycle             *)
  cnow,     (* the last clock reading of this cycle                        *)
  reason    (* the auto-off event reported in this cycle                   *)

(* History, read by the properties only.                                   *)
VARIABLES
  on_at,        (* when heating was switched from off to on, 0 while off   *)
  armed_at,     (* when the user timer started to count, 0 while off       *)
  decided,      (* the snapshot facts this cycle's transmission rests on   *)
  late,         (* heat requests sent since heating was switched off       *)
  rejections,   (* rejected routines received                              *)
  sessions      (* diagnostic sessions requested                           *)

taskVars == <<pc, wake, cnow, reason>>
history  == <<on_at, armed_at, decided, late, rejections, sessions>>
vars     == <<now, stateVars, taskVars, history>>

NoDecision == [on_at |-> 0, seen |-> 0]

Init ==
  /\ now = 1
  /\ meb_state_init
  /\ pc = "sleep"
  /\ wake = 1 + INITIAL_DELAY
  /\ cnow = 0
  /\ reason = "none"
  /\ on_at = 0
  /\ armed_at = 0
  /\ decided = NoDecision
  /\ late = 0
  /\ rejections = 0
  /\ sessions = 0

-----------------------------------------------------------------------------
(* The console commands heating.set and heating.set_auto_off_timer.        *)

SetHeating(enabled) ==
  /\ meb_state_set_heating_enabled(enabled)
  /\ IF enabled = heating_enabled
     THEN UNCHANGED <<on_at, armed_at, late>>
     ELSE /\ on_at' = IF enabled THEN now ELSE 0
          /\ armed_at' = IF enabled THEN now ELSE 0
          /\ late' = 0
  /\ UNCHANGED <<now, taskVars, decided, rejections, sessions>>

SetAutoOffTimer(minutes) ==
  /\ meb_state_set_auto_off_timer_minutes(minutes)
  /\ armed_at' = IF heating_enabled THEN now ELSE 0
  /\ UNCHANGED <<now, taskVars, on_at, decided, late, rejections, sessions>>

-----------------------------------------------------------------------------
(* The CAN receive task.  It read the clock at t, no earlier than for the  *)
(* frame before.                                                           *)

ReceiveSignal(s, v) ==
  /\ \E t \in signal[s].seen .. now : t > 0 /\ meb_state_update(s, v, t)
  /\ UNCHANGED <<now, taskVars, history>>

ReceiveDiagResponse(response, v) ==
  /\ meb_state_update_diag_response(response, v, now)
  /\ response = "rejected" => rejections < MaxRejections
  /\ rejections' = IF response = "rejected" THEN rejections + 1 ELSE rejections
  /\ UNCHANGED <<now, taskVars, on_at, armed_at, decided, late, sessions>>

-----------------------------------------------------------------------------
(* One cycle of control_task.                                              *)

(* meb_state_apply_auto_off: the clock is read on the way to the lock.     *)
ApplyAutoOff ==
  /\ pc = "sleep" /\ now >= wake
  /\ \E t \in wake .. now :
       /\ meb_state_apply_auto_off(t)
       /\ reason' = auto_off_reason(t)
       /\ cnow' = t
       /\ IF auto_off_reason(t) = "none"
          THEN UNCHANGED <<on_at, armed_at, late>>
          ELSE on_at' = 0 /\ armed_at' = 0 /\ late' = 0
  /\ pc' = "snapshot"
  /\ UNCHANGED <<now, wake, decided, rejections, sessions>>

(* The end of a cycle: what its local variables held is gone.              *)
vTaskDelay ==
  /\ pc' = "sleep"
  /\ wake' = now + PERIOD
  /\ cnow' = 0
  /\ reason' = "none"
  /\ decided' = NoDecision

(* Mutant: the switch is not asked.                                        *)
WantsHeat_IgnoresSwitch(state) ==
  /\ state.signal["temperature_status_charge"].valid
  /\ state.signal["temperature_status_charge"].value = UNDER_OPTIMAL

wants_heat(state) ==
  /\ state.heating_enabled
  /\ state.signal["temperature_status_charge"].valid
  /\ state.signal["temperature_status_charge"].value = UNDER_OPTIMAL

TakeSnapshot ==
  /\ pc = "snapshot"
  /\ \E t \in cnow .. now :
       LET state == meb_state_get_snapshot(t) IN
       \/ /\ wants_heat(state)
          /\ pc' = "session_error"
          /\ cnow' = t
          /\ decided' = [on_at |-> on_at,
                         seen  |-> signal["temperature_status_charge"].seen]
          /\ UNCHANGED <<wake, reason>>
       \/ ~wants_heat(state) /\ vTaskDelay
  /\ UNCHANGED <<now, stateVars, on_at, armed_at, late, rejections, sessions>>

TakeSessionError ==
  /\ pc = "session_error"
  /\ meb_state_take_session_error
  /\ pc' = IF session_error THEN "diag_session" ELSE "heat_request"
  /\ UNCHANGED <<now, wake, cnow, reason, history>>

(* The outcome of either transmission is ignored, so they always end.      *)
RequestDiagSession ==
  /\ pc = "diag_session"
  /\ vTaskDelay
  /\ sessions' = sessions + 1
  /\ UNCHANGED <<now, stateVars, on_at, armed_at, late, rejections>>

SendHeatRequest ==
  /\ pc = "heat_request"
  /\ vTaskDelay
  /\ late' = IF heating_enabled THEN late ELSE late + 1
  /\ UNCHANGED <<now, stateVars, on_at, armed_at, rejections, sessions>>

-----------------------------------------------------------------------------
(* Time: a cycle that began at wake is over by wake + MAX_CYCLE.           *)
Tick ==
  /\ now < MaxTime
  /\ now < wake + MAX_CYCLE
  /\ now' = now + 1
  /\ UNCHANGED <<stateVars, taskVars, history>>

ControlTask ==
  ApplyAutoOff \/ TakeSnapshot \/ TakeSessionError \/ RequestDiagSession \/ SendHeatRequest

Next ==
  \/ \E enabled \in BOOLEAN : SetHeating(enabled)
  \/ \E minutes \in MinuteChoices : SetAutoOffTimer(minutes)
  \/ \E s \in Frames, v \in Values : ReceiveSignal(s, v)
  \/ \E response \in Responses, v \in Values : ReceiveDiagResponse(response, v)
  \/ ControlTask
  \/ Tick

Spec == Init /\ [][Next]_vars

-----------------------------------------------------------------------------
(* The longest the switch may outlive a deadline: one sleep, and the       *)
(* cycles on either side of it.                                            *)
SLACK == PERIOD + 2 * MAX_CYCLE

(* Every variable keeps its type, the deadlines and clock readings of      *)
(* app_state.c among them.                                                 *)
TypeOK ==
  /\ AppStateTypeOK
  /\ pc \in {"sleep", "snapshot", "session_error", "diag_session", "heat_request"}
  /\ wake \in Nat
  /\ cnow \in Nat
  /\ reason \in {"none", "timer", "safety"}
  /\ on_at \in Nat
  /\ armed_at \in Nat
  /\ decided \in [on_at : Nat, seen : Nat]
  /\ late \in Nat
  /\ rejections \in Nat
  /\ sessions \in Nat

(* Kconfig calls MEB_SAFETY_AUTO_OFF_MINUTES the maximum time heating may  *)
(* stay enabled after a user enables it.  Whatever the user does with the  *)
(* timer and however often enable is repeated, the switch is off that long *)
(* after it went from off to on, up to one control period and two cycles.  *)
SafetyLimitHolds ==
  heating_enabled /\ SAFETY_ENABLED /\ SAFETY_MINUTES > 0
    => now <= on_at + minutes_to_us(SAFETY_MINUTES) + SLACK

(* A user timer that is set switches heating off that many minutes after   *)
(* it was last set or heating was last enabled, with the same slack.       *)
UserTimerHolds ==
  heating_enabled /\ auto_off_timer_minutes > 0
    => now <= armed_at + minutes_to_us(auto_off_timer_minutes) + SLACK

(* A heat request goes out only for a temperature report less than         *)
(* MEB_CAN_SIGNAL_STALE_MS old and a heating period within the safety      *)
(* limit, both up to the length of the cycle that took the snapshot.       *)
HeatRequestTimely ==
  pc = "heat_request" =>
    /\ now < decided.seen + STALE + MAX_CYCLE
    /\ SAFETY_ENABLED /\ SAFETY_MINUTES > 0
         => now <= decided.on_at + minutes_to_us(SAFETY_MINUTES) + MAX_CYCLE

(* Switching heating off can overtake at most one heat request: the one    *)
(* whose snapshot was taken before.                                        *)
AtMostOneLateRequest == late <= 1

(* Every diagnostic session answers a rejection of its own: the latch is   *)
(* consumed by the cycle that sends the session request.                   *)
SessionsAnswerRejections ==
  sessions + (IF session_error THEN 1 ELSE 0)
           + (IF pc = "diag_session" THEN 1 ELSE 0) <= rejections

AutoOffStep ==
  heating_enabled /\ ~heating_enabled' /\ pc' # pc =>
    \/ /\ reason' = "timer"
       /\ auto_off_timer_minutes > 0
       /\ now >= armed_at + minutes_to_us(auto_off_timer_minutes)
    \/ /\ reason' = "safety"
       /\ SAFETY_ENABLED
       /\ now >= on_at + minutes_to_us(SAFETY_MINUTES)

(* The control task switches heating off only for an elapsed deadline, and *)
(* reports the deadline that elapsed.                                      *)
AutoOffNotEarly == [][AutoOffStep]_vars

(* The reported remaining minutes are the time to the deadline rounded up, *)
(* and 0 only when the deadline has passed and the control task is about   *)
(* to act on it.                                                           *)
RemainingHonest ==
  \A t \in 1 .. now :
    LET r    == meb_state_get_snapshot(t).auto_off_remaining
        rest == effective_auto_off_deadline - t
    IN r.valid => /\ rest <= minutes_to_us(r.value)
                  /\ IF r.value = 0 THEN now <= t + rest + SLACK
                                    ELSE rest > minutes_to_us(r.value - 1)

-----------------------------------------------------------------------------
(* The inductive invariant behind the properties above.                    *)

InFlight == pc \in {"session_error", "diag_session", "heat_request"}

(* How far past a deadline a wake-up that has not seen it may lie.         *)
Overshoot == IF pc = "sleep" THEN PERIOD + MAX_CYCLE ELSE 0

(* The deadlines in app_state.c are those of the running heating period.   *)
DeadlinesMatchHistory ==
  /\ now > 0
  /\ on_at <= now /\ armed_at <= now
  /\ heating_enabled => on_at > 0 /\ armed_at > 0 /\ enabled_since = on_at
  /\ heating_enabled =>
       user_deadline = IF auto_off_timer_minutes > 0
                       THEN armed_at + minutes_to_us(auto_off_timer_minutes)
                       ELSE 0

(* The control task is never late, and its clock readings lie in its cycle.*)
CycleOnTime ==
  /\ now <= wake + MAX_CYCLE
  /\ IF pc = "sleep" THEN wake <= now + PERIOD
                     ELSE wake <= cnow /\ cnow <= now

(* A cycle that left heating on began before either deadline.              *)
WakeBeforeDeadlines ==
  heating_enabled =>
    /\ SAFETY_ENABLED /\ SAFETY_MINUTES > 0
         => wake <= on_at + minutes_to_us(SAFETY_MINUTES) + Overshoot
    /\ auto_off_timer_minutes > 0
         => wake <= armed_at + minutes_to_us(auto_off_timer_minutes) + Overshoot

(* What the snapshot established when it chose to transmit.                *)
DecisionSound ==
  InFlight =>
    /\ cnow < decided.seen + STALE
    /\ SAFETY_ENABLED /\ SAFETY_MINUTES > 0
         => wake <= decided.on_at + minutes_to_us(SAFETY_MINUTES)
    /\ ~heating_enabled => late = 0

IInv ==
  /\ TypeOK
  /\ DeadlinesMatchHistory
  /\ CycleOnTime
  /\ WakeBeforeDeadlines
  /\ DecisionSound
  /\ AtMostOneLateRequest
  /\ SessionsAnswerRejections
=============================================================================
