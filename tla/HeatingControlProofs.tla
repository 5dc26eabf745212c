------------------------ MODULE HeatingControlProofs ------------------------
(***************************************************************************)
(* IInv is an invariant of HeatingControl for every value of the           *)
(* constants, and the deadline properties follow from it.                  *)
(***************************************************************************)
EXTENDS HeatingControl, TLAPS

USE AppStateConstants, HeatingControlConstants

(* A number of minutes is a number of ticks.                               *)
LEMMA MinutesToUsNat ==
  ASSUME NEW m \in Nat
  PROVE  minutes_to_us(m) \in Nat
BY DEF minutes_to_us

(* The initial state of the shared state and the control task satisfies    *)
(* the inductive invariant.                                                *)
LEMMA InitIInv == Init => IInv
<1> SUFFICES ASSUME Init PROVE IInv
  OBVIOUS
<1> USE DEF Init, meb_state_init
<1>1. TypeOK
  <2>1. [valid |-> FALSE, value |-> 0, seen |-> 0] \in SignalRecord
    BY DEF SignalRecord
  <2>2. signal \in [Signals -> SignalRecord]
    BY <2>1
  <2>3. AppStateTypeOK
    BY <2>2 DEF AppStateTypeOK
  <2>4. wake \in Nat /\ decided \in [on_at : Nat, seen : Nat]
    BY DEF NoDecision
  <2> QED
    BY <2>3, <2>4 DEF TypeOK
<1>2. DeadlinesMatchHistory
  BY DEF DeadlinesMatchHistory
<1>3. CycleOnTime
  BY DEF CycleOnTime
<1>4. WakeBeforeDeadlines /\ DecisionSound
  BY DEF WakeBeforeDeadlines, DecisionSound, InFlight
<1>5. AtMostOneLateRequest /\ SessionsAnswerRejections
  BY DEF AtMostOneLateRequest, SessionsAnswerRejections
<1> QED
  BY <1>1, <1>2, <1>3, <1>4, <1>5 DEF IInv

-----------------------------------------------------------------------------
(* Each action preserves the invariant.                                    *)

(* heating.set: enabling starts both deadlines at the present time, which  *)
(* no wake-up lies far behind.                                             *)
LEMMA SetHeatingIInv ==
  ASSUME IInv, NEW enabled \in BOOLEAN, SetHeating(enabled)
  PROVE  IInv'
<1> USE DEF IInv, SetHeating, meb_state_set_heating_enabled, taskVars
<1>0. /\ minutes_to_us(auto_off_timer_minutes) \in Nat
      /\ minutes_to_us(SAFETY_MINUTES) \in Nat
  BY MinutesToUsNat DEF TypeOK, AppStateTypeOK
<1>1. TypeOK'
  BY <1>0 DEF TypeOK, AppStateTypeOK
<1>2. DeadlinesMatchHistory'
  BY <1>0 DEF DeadlinesMatchHistory, TypeOK, AppStateTypeOK
<1>3. CycleOnTime'
  BY DEF CycleOnTime
<1>4. WakeBeforeDeadlines'
  <2>1. UNCHANGED <<pc, wake, now, auto_off_timer_minutes>>
    OBVIOUS
  <2>2. CASE enabled /\ ~heating_enabled
    <3>1. on_at' = now /\ armed_at' = now
      BY <2>2
    <3> QED
      BY <2>1, <3>1, <1>0 DEF WakeBeforeDeadlines, CycleOnTime, Overshoot, TypeOK, AppStateTypeOK
  <2>3. CASE enabled /\ heating_enabled
    <3>1. UNCHANGED <<on_at, armed_at>>
      BY <2>3 DEF TypeOK, AppStateTypeOK
    <3> QED
      BY <2>1, <2>3, <3>1 DEF WakeBeforeDeadlines, Overshoot
  <2>4. CASE ~enabled
    BY <2>4 DEF WakeBeforeDeadlines
  <2> QED
    BY <2>2, <2>3, <2>4
<1>5. DecisionSound'
  <2>1. UNCHANGED <<pc, wake, cnow, decided>>
    OBVIOUS
  <2>2. ~heating_enabled' => late' = 0 \/ (late' = late /\ ~heating_enabled)
    BY DEF TypeOK, AppStateTypeOK
  <2> QED
    BY <2>1, <2>2 DEF DecisionSound, InFlight
<1>6. AtMostOneLateRequest' /\ SessionsAnswerRejections'
  BY DEF AtMostOneLateRequest, SessionsAnswerRejections
<1> QED
  BY <1>1, <1>2, <1>3, <1>4, <1>5, <1>6 DEF IInv

(* heating.set_auto_off_timer: a new user deadline counts from now.        *)
LEMMA SetAutoOffTimerIInv ==
  ASSUME IInv, NEW minutes \in MinuteChoices, SetAutoOffTimer(minutes)
  PROVE  IInv'
<1> USE DEF IInv, SetAutoOffTimer, meb_state_set_auto_off_timer_minutes, taskVars
<1>0. /\ minutes_to_us(minutes) \in Nat
      /\ minutes_to_us(SAFETY_MINUTES) \in Nat
      /\ minutes \in Nat
  BY MinutesToUsNat
<1>1. TypeOK'
  BY <1>0 DEF TypeOK, AppStateTypeOK
<1>2. DeadlinesMatchHistory'
  BY <1>0 DEF DeadlinesMatchHistory, TypeOK, AppStateTypeOK
<1>3. CycleOnTime'
  BY DEF CycleOnTime
<1>4. WakeBeforeDeadlines'
  BY <1>0 DEF WakeBeforeDeadlines, CycleOnTime, Overshoot, TypeOK, AppStateTypeOK
<1>5. DecisionSound'
  BY DEF DecisionSound, InFlight
<1>6. AtMostOneLateRequest' /\ SessionsAnswerRejections'
  BY DEF AtMostOneLateRequest, SessionsAnswerRejections
<1> QED
  BY <1>1, <1>2, <1>3, <1>4, <1>5, <1>6 DEF IInv

(* A received signal touches neither the switch nor the control task.      *)
LEMMA ReceiveSignalIInv ==
  ASSUME IInv, NEW s \in Frames, NEW v \in Values, ReceiveSignal(s, v)
  PROVE  IInv'
<1> USE DEF IInv, ReceiveSignal, meb_state_update, switchVars, taskVars, history
<1>1. TypeOK'
  <2>1. PICK t \in signal[s].seen .. now : meb_state_update(s, v, t)
    OBVIOUS
  <2>2. signal[s].seen \in Nat /\ now \in Nat
    BY DEF TypeOK, AppStateTypeOK, SignalRecord
  <2>3. t \in Nat
    BY <2>2
  <2>4. signal' \in [Signals -> SignalRecord]
    BY <2>1, <2>3 DEF TypeOK, AppStateTypeOK, SignalRecord
  <2> QED
    BY <2>4 DEF TypeOK, AppStateTypeOK
<1>2. DeadlinesMatchHistory' /\ CycleOnTime' /\ WakeBeforeDeadlines' /\ DecisionSound'
  BY DEF DeadlinesMatchHistory, CycleOnTime, WakeBeforeDeadlines, Overshoot,
         DecisionSound, InFlight
<1>3. AtMostOneLateRequest' /\ SessionsAnswerRejections'
  BY DEF AtMostOneLateRequest, SessionsAnswerRejections
<1> QED
  BY <1>1, <1>2, <1>3 DEF IInv

(* A diagnostic response stores a signal or counts one more rejection.     *)
LEMMA ReceiveDiagResponseIInv ==
  ASSUME IInv, NEW response \in Responses, NEW v \in Values,
         ReceiveDiagResponse(response, v)
  PROVE  IInv'
<1> USE DEF IInv, ReceiveDiagResponse, meb_state_update_diag_response,
            meb_state_update, stateVars, switchVars, taskVars
<1>1. TypeOK'
  <2>0. /\ [valid |-> TRUE, value |-> v, seen |-> now] \in SignalRecord
        /\ signal \in [Signals -> SignalRecord]
        /\ "bms_soc_percent" \in Signals
    BY DEF TypeOK, AppStateTypeOK, SignalRecord
  <2>1. signal' \in [Signals -> SignalRecord] /\ session_error' \in BOOLEAN
    BY <2>0 DEF TypeOK, AppStateTypeOK
  <2>2. UNCHANGED switchVars
    OBVIOUS
  <2>3. rejections' \in Nat
    BY DEF TypeOK
  <2> QED
    BY <2>1, <2>2, <2>3 DEF TypeOK, AppStateTypeOK
<1>2. DeadlinesMatchHistory' /\ CycleOnTime' /\ WakeBeforeDeadlines' /\ DecisionSound'
  BY DEF DeadlinesMatchHistory, CycleOnTime, WakeBeforeDeadlines, Overshoot,
         DecisionSound, InFlight
<1>3. AtMostOneLateRequest' /\ SessionsAnswerRejections'
  BY DEF AtMostOneLateRequest, SessionsAnswerRejections, TypeOK, AppStateTypeOK
<1> QED
  BY <1>1, <1>2, <1>3 DEF IInv

(* meb_state_apply_auto_off: what it leaves on has both deadlines ahead of *)
(* the clock reading, and the cycle began no later than that.              *)
LEMMA ApplyAutoOffIInv ==
  ASSUME IInv, ApplyAutoOff
  PROVE  IInv'
<1> USE DEF IInv, ApplyAutoOff, meb_state_apply_auto_off
<1>0. /\ minutes_to_us(auto_off_timer_minutes) \in Nat
      /\ minutes_to_us(SAFETY_MINUTES) \in Nat
      /\ now \in Nat /\ wake \in Nat
  BY MinutesToUsNat DEF TypeOK, AppStateTypeOK
<1> PICK t \in wake .. now :
       /\ meb_state_apply_auto_off(t)
       /\ reason' = auto_off_reason(t)
       /\ cnow' = t
       /\ IF auto_off_reason(t) = "none"
          THEN UNCHANGED <<on_at, armed_at, late>>
          ELSE on_at' = 0 /\ armed_at' = 0 /\ late' = 0
  OBVIOUS
<1>t. t \in Nat /\ wake <= t /\ t <= now
  BY <1>0
<1>1. TypeOK'
  <2>1. AppStateTypeOK'
    <3>1. UNCHANGED <<now, auto_off_timer_minutes, session_error, signal>>
      OBVIOUS
    <3>2. \/ heating_enabled' = FALSE /\ enabled_since' = 0 /\ user_deadline' = 0
          \/ UNCHANGED <<heating_enabled, enabled_since, user_deadline>>
      OBVIOUS
    <3>3. heating_enabled' \in BOOLEAN
      BY <3>2, Zenon DEF TypeOK, AppStateTypeOK
    <3>4. enabled_since' \in Nat /\ user_deadline' \in Nat
      BY <3>2, SMT DEF TypeOK, AppStateTypeOK
    <3> QED
      BY <3>1, <3>3, <3>4, Zenon DEF TypeOK, AppStateTypeOK
  <2>2. reason' \in {"none", "timer", "safety"}
    BY DEF auto_off_reason
  <2>3. late' \in Nat /\ on_at' \in Nat /\ armed_at' \in Nat
    BY DEF TypeOK
  <2> QED
    BY <2>1, <2>2, <2>3, <1>t DEF TypeOK
<1>2. DeadlinesMatchHistory'
  BY DEF DeadlinesMatchHistory, TypeOK, AppStateTypeOK
<1>3. CycleOnTime'
  BY <1>t DEF CycleOnTime
<1>4. WakeBeforeDeadlines'
  <2> SUFFICES ASSUME heating_enabled' PROVE WakeBeforeDeadlines'
    BY DEF WakeBeforeDeadlines
  <2>1. auto_off_reason(t) = "none" /\ heating_enabled
    BY DEF auto_off_reason
  <2>2. ~(effective_auto_off_deadline > 0 /\ t >= effective_auto_off_deadline)
    BY <2>1 DEF auto_off_reason
  <2>3. enabled_since = on_at /\ on_at > 0 /\ armed_at > 0
    BY <2>1 DEF DeadlinesMatchHistory
  <2>4. SAFETY_ENABLED /\ SAFETY_MINUTES > 0 => t <= on_at + minutes_to_us(SAFETY_MINUTES)
    BY <2>2, <2>3, <1>0, <1>t
    DEF effective_auto_off_deadline, safety_auto_off_deadline, TypeOK, AppStateTypeOK
  <2>5. auto_off_timer_minutes > 0
          => t <= armed_at + minutes_to_us(auto_off_timer_minutes)
    <3> SUFFICES ASSUME auto_off_timer_minutes > 0
                 PROVE  t <= armed_at + minutes_to_us(auto_off_timer_minutes)
      OBVIOUS
    <3>1. user_deadline = armed_at + minutes_to_us(auto_off_timer_minutes)
      BY <2>1 DEF DeadlinesMatchHistory
    <3> QED
      BY <3>1, <2>2, <2>3, <1>0, <1>t
      DEF effective_auto_off_deadline, safety_auto_off_deadline, TypeOK, AppStateTypeOK
  <2> QED
    BY <2>4, <2>5, <1>0, <1>t DEF WakeBeforeDeadlines, Overshoot, TypeOK, AppStateTypeOK
<1>5. DecisionSound'
  BY DEF DecisionSound, InFlight
<1>6. AtMostOneLateRequest' /\ SessionsAnswerRejections'
  BY DEF AtMostOneLateRequest, SessionsAnswerRejections
<1> QED
  BY <1>1, <1>2, <1>3, <1>4, <1>5, <1>6 DEF IInv

(* meb_state_get_snapshot and the decision: heating is on and the          *)
(* temperature is fresh at the clock reading, or the task goes to sleep.   *)
LEMMA TakeSnapshotIInv ==
  ASSUME IInv, TakeSnapshot
  PROVE  IInv'
<1> USE DEF IInv, TakeSnapshot, stateVars, switchVars
<1>0. /\ minutes_to_us(auto_off_timer_minutes) \in Nat
      /\ minutes_to_us(SAFETY_MINUTES) \in Nat
      /\ now \in Nat /\ cnow \in Nat /\ wake \in Nat
      /\ wake <= cnow
  BY MinutesToUsNat DEF TypeOK, AppStateTypeOK, CycleOnTime
<1> DEFINE temp == signal["temperature_status_charge"]
<1> PICK t \in cnow .. now :
       \/ /\ wants_heat(meb_state_get_snapshot(t))
          /\ pc' = "session_error"
          /\ cnow' = t
          /\ decided' = [on_at |-> on_at, seen |-> temp.seen]
          /\ UNCHANGED <<wake, reason>>
       \/ ~wants_heat(meb_state_get_snapshot(t)) /\ vTaskDelay
  OBVIOUS
<1>t. t \in Nat /\ wake <= t /\ t <= now
  BY <1>0
<1>s. temp.seen \in Nat
  BY DEF TypeOK, AppStateTypeOK, SignalRecord
<1>1. CASE ~wants_heat(meb_state_get_snapshot(t))
  <2>0. /\ pc' = "sleep" /\ wake' = now + PERIOD
        /\ cnow' = 0 /\ reason' = "none" /\ decided' = [on_at |-> 0, seen |-> 0]
    BY <1>1 DEF vTaskDelay, NoDecision
  <2>1. TypeOK' /\ DeadlinesMatchHistory' /\ CycleOnTime' /\ DecisionSound'
    BY <2>0, <1>0, <1>t DEF TypeOK, AppStateTypeOK, DeadlinesMatchHistory, CycleOnTime,
                            DecisionSound, InFlight
  <2>2. WakeBeforeDeadlines'
    BY <2>0, <1>0 DEF WakeBeforeDeadlines, CycleOnTime, Overshoot, TypeOK, AppStateTypeOK
  <2> QED
    BY <2>0, <2>1, <2>2 DEF IInv, AtMostOneLateRequest, SessionsAnswerRejections
<1>2. CASE wants_heat(meb_state_get_snapshot(t))
  <2>0. pc' = "session_error" /\ wake' = wake /\ cnow' = t
        /\ decided' = [on_at |-> on_at, seen |-> temp.seen] /\ reason' = reason
    BY <1>2
  <2>1. heating_enabled
    BY <1>2 DEF wants_heat, meb_state_get_snapshot
  <2>2. t < temp.seen + STALE
    <3>1. meb_state_get_snapshot(t).signal["temperature_status_charge"].valid
      BY <1>2 DEF wants_heat
    <3>2. meb_state_get_snapshot(t).signal = invalidate_stale_can_signals(t)
      BY DEF meb_state_get_snapshot
    <3>3. temp \in SignalRecord
      BY DEF TypeOK, AppStateTypeOK
    <3>4. invalidate_stale_can_signals(t)["temperature_status_charge"]
            = [temp EXCEPT !.valid = @ /\ can_signal_is_fresh(t, temp.seen)]
      BY DEF invalidate_stale_can_signals
    <3>5. [temp EXCEPT !.valid = @ /\ can_signal_is_fresh(t, temp.seen)].valid
      BY <3>1, <3>2, <3>4
    <3>6. can_signal_is_fresh(t, temp.seen)
      BY <3>3, <3>5 DEF SignalRecord
    <3> QED
      BY <3>6, <1>s, <1>t DEF can_signal_is_fresh
  <2>3. TypeOK' /\ DeadlinesMatchHistory' /\ CycleOnTime'
    BY <2>0, <1>0, <1>t, <1>s DEF TypeOK, AppStateTypeOK, DeadlinesMatchHistory, CycleOnTime
  <2>4. WakeBeforeDeadlines' /\ DecisionSound'
    BY <2>0, <2>1, <2>2, <1>0 DEF WakeBeforeDeadlines, DecisionSound, InFlight, Overshoot,
                                  TypeOK, AppStateTypeOK
  <2> QED
    BY <2>0, <2>3, <2>4 DEF IInv, AtMostOneLateRequest, SessionsAnswerRejections
<1> QED
  BY <1>1, <1>2

(* meb_state_take_session_error moves the pending rejection into the       *)
(* session request the task is about to send.                              *)
LEMMA TakeSessionErrorIInv ==
  ASSUME IInv, TakeSessionError
  PROVE  IInv'
<1> USE DEF IInv, TakeSessionError, meb_state_take_session_error, switchVars, history
<1>1. TypeOK'
  BY DEF TypeOK, AppStateTypeOK
<1>2. DeadlinesMatchHistory' /\ CycleOnTime'
  BY DEF DeadlinesMatchHistory, CycleOnTime
<1>3. WakeBeforeDeadlines' /\ DecisionSound'
  BY DEF WakeBeforeDeadlines, DecisionSound, InFlight, Overshoot
<1>4. AtMostOneLateRequest' /\ SessionsAnswerRejections'
  BY DEF AtMostOneLateRequest, SessionsAnswerRejections, TypeOK, AppStateTypeOK
<1> QED
  BY <1>1, <1>2, <1>3, <1>4 DEF IInv

(* Either transmission ends the cycle.                                     *)
LEMMA TransmitIInv ==
  ASSUME IInv, RequestDiagSession \/ SendHeatRequest
  PROVE  IInv'
<1> USE DEF IInv, RequestDiagSession, SendHeatRequest, vTaskDelay, NoDecision, stateVars, switchVars
<1>0. /\ minutes_to_us(auto_off_timer_minutes) \in Nat
      /\ minutes_to_us(SAFETY_MINUTES) \in Nat
  BY MinutesToUsNat DEF TypeOK, AppStateTypeOK
<1>1. TypeOK'
  BY DEF TypeOK, AppStateTypeOK
<1>2. DeadlinesMatchHistory' /\ CycleOnTime' /\ DecisionSound'
  BY DEF DeadlinesMatchHistory, CycleOnTime, DecisionSound, InFlight, TypeOK, AppStateTypeOK
<1>3. WakeBeforeDeadlines'
  <2>1. /\ pc # "sleep" /\ pc' = "sleep"
        /\ wake' = now + PERIOD /\ now <= wake + MAX_CYCLE
    BY DEF CycleOnTime
  <2>2. UNCHANGED <<heating_enabled, auto_off_timer_minutes, on_at, armed_at>>
    OBVIOUS
  <2> QED
    BY <2>1, <2>2, <1>0 DEF WakeBeforeDeadlines, Overshoot, TypeOK, AppStateTypeOK
<1>4. AtMostOneLateRequest'
  BY DEF AtMostOneLateRequest, DecisionSound, InFlight
<1>5. SessionsAnswerRejections'
  BY DEF SessionsAnswerRejections, TypeOK, AppStateTypeOK
<1> QED
  BY <1>1, <1>2, <1>3, <1>4, <1>5 DEF IInv

(* Time passes only while the cycle is within its bound.                   *)
LEMMA TickIInv ==
  ASSUME IInv, Tick
  PROVE  IInv'
<1> USE DEF IInv, Tick, stateVars, switchVars, taskVars, history
<1>1. TypeOK' /\ CycleOnTime'
  BY DEF TypeOK, AppStateTypeOK, CycleOnTime
<1>2. DeadlinesMatchHistory'
  BY DEF DeadlinesMatchHistory, TypeOK, AppStateTypeOK
<1>3. WakeBeforeDeadlines' /\ DecisionSound'
  BY DEF WakeBeforeDeadlines, DecisionSound, InFlight, Overshoot
<1>4. AtMostOneLateRequest' /\ SessionsAnswerRejections'
  BY DEF AtMostOneLateRequest, SessionsAnswerRejections
<1> QED
  BY <1>1, <1>2, <1>3, <1>4 DEF IInv

-----------------------------------------------------------------------------
(* Every step of the console, receive and control tasks, and of time,      *)
(* preserves the inductive invariant.                                      *)
LEMMA StepIInv == IInv /\ [Next]_vars => IInv'
<1> SUFFICES ASSUME IInv, [Next]_vars PROVE IInv'
  OBVIOUS
<1>1. CASE \E enabled \in BOOLEAN : SetHeating(enabled)
  BY <1>1, SetHeatingIInv
<1>2. CASE \E minutes \in MinuteChoices : SetAutoOffTimer(minutes)
  BY <1>2, SetAutoOffTimerIInv
<1>3. CASE \E s \in Frames, v \in Values : ReceiveSignal(s, v)
  BY <1>3, ReceiveSignalIInv
<1>4. CASE \E response \in Responses, v \in Values : ReceiveDiagResponse(response, v)
  BY <1>4, ReceiveDiagResponseIInv
<1>5. CASE ControlTask
  BY <1>5, ApplyAutoOffIInv, TakeSnapshotIInv, TakeSessionErrorIInv, TransmitIInv
  DEF ControlTask
<1>6. CASE Tick
  BY <1>6, TickIInv
<1>7. CASE UNCHANGED vars
  BY <1>7 DEF IInv, vars, stateVars, switchVars, taskVars, history, TypeOK, AppStateTypeOK,
              DeadlinesMatchHistory, CycleOnTime, WakeBeforeDeadlines, Overshoot,
              DecisionSound, InFlight, AtMostOneLateRequest, SessionsAnswerRejections
<1> QED
  BY <1>1, <1>2, <1>3, <1>4, <1>5, <1>6, <1>7 DEF Next

(* The inductive invariant holds in every reachable state.                 *)
THEOREM Invariance == Spec => []IInv
<1>1. Init => IInv
  BY InitIInv
<1>2. IInv /\ [Next]_vars => IInv'
  BY StepIInv
<1> QED
  BY <1>1, <1>2, PTL DEF Spec

(* Type correctness of the shared state and the control task.              *)
THEOREM TypeCorrect == Spec => []TypeOK
<1>1. IInv => TypeOK
  BY DEF IInv
<1> QED
  BY <1>1, Invariance, PTL

(* The safety limit of app_state.c: for every period, cycle length and     *)
(* limit, heating is off SLACK after the limit at the latest.              *)
THEOREM SafetyLimit == Spec => []SafetyLimitHolds
<1>1. IInv => SafetyLimitHolds
  <2> SUFFICES ASSUME IInv, heating_enabled, SAFETY_ENABLED, SAFETY_MINUTES > 0
               PROVE  now <= on_at + minutes_to_us(SAFETY_MINUTES) + SLACK
    BY DEF SafetyLimitHolds
  <2>1. minutes_to_us(SAFETY_MINUTES) \in Nat
    BY MinutesToUsNat
  <2> QED
    BY <2>1 DEF IInv, CycleOnTime, WakeBeforeDeadlines, Overshoot, SLACK, TypeOK, AppStateTypeOK
<1> QED
  BY <1>1, Invariance, PTL

(* The same for the timer the user set, counted from when it was set or    *)
(* heating was switched on.                                                *)
THEOREM UserTimer == Spec => []UserTimerHolds
<1>1. IInv => UserTimerHolds
  <2> SUFFICES ASSUME IInv, heating_enabled, auto_off_timer_minutes > 0
               PROVE  now <= armed_at + minutes_to_us(auto_off_timer_minutes) + SLACK
    BY DEF UserTimerHolds
  <2>1. minutes_to_us(auto_off_timer_minutes) \in Nat
    BY MinutesToUsNat DEF IInv, TypeOK, AppStateTypeOK
  <2> QED
    BY <2>1 DEF IInv, CycleOnTime, WakeBeforeDeadlines, Overshoot, SLACK, TypeOK, AppStateTypeOK
<1> QED
  BY <1>1, Invariance, PTL

(* No heat request rests on a temperature report or a heating period that  *)
(* is out of date by more than one control cycle.                          *)
THEOREM HeatRequests == Spec => []HeatRequestTimely
<1>1. IInv => HeatRequestTimely
  <2> SUFFICES ASSUME IInv, pc = "heat_request" PROVE HeatRequestTimely
    BY DEF HeatRequestTimely
  <2>1. minutes_to_us(SAFETY_MINUTES) \in Nat
    BY MinutesToUsNat
  <2> QED
    BY <2>1 DEF HeatRequestTimely, IInv, CycleOnTime, DecisionSound, InFlight,
                TypeOK, AppStateTypeOK
<1> QED
  BY <1>1, Invariance, PTL

(* Switching heating off overtakes at most one heat request.               *)
THEOREM LateRequests == Spec => []AtMostOneLateRequest
<1>1. IInv => AtMostOneLateRequest
  BY DEF IInv
<1> QED
  BY <1>1, Invariance, PTL

(* Diagnostic sessions never outnumber the rejections they answer.         *)
THEOREM Sessions == Spec => []SessionsAnswerRejections
<1>1. IInv => SessionsAnswerRejections
  BY DEF IInv
<1> QED
  BY <1>1, Invariance, PTL

(* Auto-off is never early and names the deadline that elapsed.            *)
THEOREM AutoOff == Spec => AutoOffNotEarly
<1>1. IInv /\ [Next]_vars => [AutoOffStep]_vars
  <2> SUFFICES ASSUME IInv, Next, heating_enabled, ~heating_enabled', pc' # pc
               PROVE  AutoOffStep
    BY DEF AutoOffStep
  <2>1. ApplyAutoOff
    BY DEF Next, SetHeating, SetAutoOffTimer, ReceiveSignal, ReceiveDiagResponse, ControlTask,
           TakeSnapshot, TakeSessionError, meb_state_take_session_error,
           RequestDiagSession, SendHeatRequest, Tick, stateVars, switchVars, taskVars
  <2>2. PICK t \in wake .. now : meb_state_apply_auto_off(t) /\ reason' = auto_off_reason(t)
    BY <2>1 DEF ApplyAutoOff
  <2>3. /\ now \in Nat /\ wake \in Nat /\ t \in Nat /\ t <= now
        /\ on_at \in Nat /\ armed_at \in Nat /\ user_deadline \in Nat
        /\ enabled_since = on_at
        /\ minutes_to_us(SAFETY_MINUTES) \in Nat
        /\ minutes_to_us(auto_off_timer_minutes) \in Nat
        /\ auto_off_timer_minutes \in Nat
    BY MinutesToUsNat DEF IInv, TypeOK, AppStateTypeOK, DeadlinesMatchHistory
  <2>4. user_deadline > 0 => /\ auto_off_timer_minutes > 0
                             /\ user_deadline = armed_at + minutes_to_us(auto_off_timer_minutes)
    BY <2>3 DEF IInv, DeadlinesMatchHistory
  <2>5. auto_off_reason(t) # "none"
    BY <2>2 DEF meb_state_apply_auto_off
  <2>6. t >= effective_auto_off_deadline /\ effective_auto_off_deadline > 0
    BY <2>5 DEF auto_off_reason
  <2>7. CASE user_deadline > 0 /\ user_deadline <= effective_auto_off_deadline
    <3>1. reason' = "timer"
      BY <2>2, <2>5, <2>7 DEF auto_off_reason
    <3>2. now >= user_deadline
      BY <2>3, <2>6, <2>7 DEF effective_auto_off_deadline, safety_auto_off_deadline
    <3> QED
      BY <3>1, <3>2, <2>3, <2>4, <2>7 DEF AutoOffStep
  <2>8. CASE ~(user_deadline > 0 /\ user_deadline <= effective_auto_off_deadline)
    <3>1. reason' = "safety"
      BY <2>2, <2>5, <2>8 DEF auto_off_reason
    <3>2. /\ SAFETY_ENABLED
          /\ effective_auto_off_deadline = on_at + minutes_to_us(SAFETY_MINUTES)
      BY <2>3, <2>6, <2>8 DEF effective_auto_off_deadline, safety_auto_off_deadline
    <3> QED
      BY <3>1, <3>2, <2>3, <2>6 DEF AutoOffStep
  <2> QED
    BY <2>7, <2>8
<1> QED
  BY <1>1, Invariance, PTL DEF Spec, AutoOffNotEarly

(* Rounding up: the minutes cover the remaining time, one fewer do not.    *)
LEMMA CeilBounds ==
  ASSUME NEW rest \in Int
  PROVE  /\ remaining_minutes_ceil(rest) \in Nat
         /\ rest <= minutes_to_us(remaining_minutes_ceil(rest))
         /\ remaining_minutes_ceil(rest) = 0 <=> rest <= 0
         /\ remaining_minutes_ceil(rest) # 0 =>
              rest > minutes_to_us(remaining_minutes_ceil(rest) - 1)
<1>1. CASE rest <= 0
  BY <1>1 DEF remaining_minutes_ceil, minutes_to_us
<1>2. CASE rest > 0
  <2> DEFINE n == rest + US_PER_MINUTE - 1
             q == n \div US_PER_MINUTE
  <2>1. n \in Nat /\ US_PER_MINUTE \in Nat /\ US_PER_MINUTE > 0
    BY <1>2
  <2>2. q \in Int /\ q * US_PER_MINUTE <= n /\ n < q * US_PER_MINUTE + US_PER_MINUTE
    <3> HIDE DEF n
    <3> QED
      BY <2>1
  <2>3. remaining_minutes_ceil(rest) = q
    BY <1>2 DEF remaining_minutes_ceil
  <2> HIDE DEF q
  <2>4. rest <= q * US_PER_MINUTE /\ rest > q * US_PER_MINUTE - US_PER_MINUTE
    BY <2>1, <2>2
  <2>5. (q - 1) * US_PER_MINUTE = q * US_PER_MINUTE - US_PER_MINUTE
    BY <2>1, <2>2
  <2>6. q > 0
    <3>1. q <= 0 => q * US_PER_MINUTE <= 0
      BY <2>1, <2>2
    <3> QED
      BY <1>2, <2>1, <2>2, <2>4, <3>1
  <2> QED
    BY <1>2, <2>2, <2>3, <2>4, <2>5, <2>6 DEF minutes_to_us
<1> QED
  BY <1>1, <1>2

(* What the console reports as remaining is the time to the deadline       *)
(* rounded up, and 0 only within SLACK of the switch-off, for every length *)
(* of a minute, period and cycle.                                          *)
THEOREM Remaining == Spec => []RemainingHonest
<1>1. IInv => RemainingHonest
  <2> SUFFICES ASSUME IInv, NEW t \in 1 .. now,
                      meb_state_get_snapshot(t).auto_off_remaining.valid
               PROVE  LET r    == meb_state_get_snapshot(t).auto_off_remaining
                          rest == effective_auto_off_deadline - t
                      IN /\ rest <= minutes_to_us(r.value)
                         /\ IF r.value = 0 THEN now <= t + rest + SLACK
                                           ELSE rest > minutes_to_us(r.value - 1)
    BY DEF RemainingHonest
  <2> DEFINE rest == effective_auto_off_deadline - t
             value == meb_state_get_snapshot(t).auto_off_remaining.value
  <2>1. heating_enabled /\ effective_auto_off_deadline > 0
    BY DEF meb_state_get_snapshot
  <2>2. value = remaining_minutes_ceil(rest)
    BY <2>1 DEF meb_state_get_snapshot
  <2>3. /\ now \in Nat /\ t \in Nat /\ user_deadline \in Nat /\ enabled_since \in Nat
        /\ on_at \in Nat /\ armed_at \in Nat /\ wake \in Nat
        /\ enabled_since = on_at
        /\ auto_off_timer_minutes \in Nat
        /\ minutes_to_us(SAFETY_MINUTES) \in Nat
        /\ minutes_to_us(auto_off_timer_minutes) \in Nat
    BY <2>1, MinutesToUsNat DEF IInv, TypeOK, AppStateTypeOK, DeadlinesMatchHistory
  <2>4. effective_auto_off_deadline \in Int /\ rest \in Int
    BY <2>3 DEF effective_auto_off_deadline, safety_auto_off_deadline
  <2>5. now <= effective_auto_off_deadline + SLACK
    <3>1. now <= wake + MAX_CYCLE /\ Overshoot <= PERIOD + MAX_CYCLE /\ Overshoot \in Nat
      BY DEF IInv, CycleOnTime, Overshoot
    <3>2. CASE effective_auto_off_deadline = user_deadline
      <4>1. auto_off_timer_minutes > 0
            /\ user_deadline = armed_at + minutes_to_us(auto_off_timer_minutes)
        BY <2>1, <2>3, <3>2 DEF IInv, DeadlinesMatchHistory
      <4>2. wake <= user_deadline + Overshoot
        BY <2>1, <4>1 DEF IInv, WakeBeforeDeadlines
      <4> QED
        BY <2>3, <3>1, <3>2, <4>2 DEF SLACK
    <3>3. CASE effective_auto_off_deadline # user_deadline
      <4>1. SAFETY_ENABLED /\ SAFETY_MINUTES > 0
            /\ effective_auto_off_deadline = on_at + minutes_to_us(SAFETY_MINUTES)
        BY <2>1, <2>3, <3>3 DEF effective_auto_off_deadline, safety_auto_off_deadline
      <4>2. wake <= effective_auto_off_deadline + Overshoot
        BY <2>1, <4>1 DEF IInv, WakeBeforeDeadlines
      <4> QED
        BY <2>3, <2>4, <3>1, <4>2 DEF SLACK
    <3> QED
      BY <3>2, <3>3
  <2>6. t + rest = effective_auto_off_deadline
    BY <2>3, <2>4
  <2>7. rest <= minutes_to_us(value) /\ (value # 0 => rest > minutes_to_us(value - 1))
    BY <2>2, <2>4, CeilBounds
  <2> HIDE DEF rest, value
  <2>8. /\ rest <= minutes_to_us(value)
        /\ IF value = 0 THEN now <= t + rest + SLACK ELSE rest > minutes_to_us(value - 1)
    BY <2>5, <2>6, <2>7
  <2> QED
    BY <2>8 DEF rest, value
<1> QED
  BY <1>1, Invariance, PTL
=============================================================================
