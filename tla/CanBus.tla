------------------------------- MODULE CanBus -------------------------------
(***************************************************************************)
(* main/can_bus.c as a whole: the transmit slots of TxSlots and the        *)
(* interrupts and counters of CanDiagnostics, in the handlers that touch   *)
(* both.  A task that finds no slot counts that before it returns; the     *)
(* transmit-done interrupt frees the slot and counts the failure; a node   *)
(* that goes off the bus tells by a change of state.                       *)
(***************************************************************************)
EXTENDS TxSlots, CanDiagnostics

CONSTANT
  PayloadsOf       (* the payloads each task sends                         *)

ASSUME CanBusConstants ==
  /\ TxTasks = Tasks
  /\ PayloadsOf \in [Tasks -> SUBSET Payloads]
  /\ "bus_off" \in NodeStates

busVars == <<vars, diagVars>>

BusInit == Init /\ DiagInit

(* A source that is not active in this behaviour is not followed.          *)
IfActive(source, Count) == IF source \in active THEN Count ELSE UNCHANGED diagVars

-----------------------------------------------------------------------------
StartTransmit(t, p) ==
  /\ "transmit" \in active
  /\ loaded[t] = Nil          (* back from the last call *)
  /\ transmit_fd_frame(t, p)
  /\ UNCHANGED diagVars

FindNoSlot(t) == AllocFails(t) /\ IfActive("tx_slot_exhaustion", LoadExhaustion(t))

CountNoSlot(t) == StoreExhaustion(t) /\ UNCHANGED vars

TransmitStep(t) ==
  \/ (alloc_tx_slot(t) \/ Accept(t) \/ Refuse(t) \/ release_tx_slot(t)) /\ UNCHANGED diagVars
  \/ FindNoSlot(t)
  \/ CountNoSlot(t)

TransmitDone(i, is_tx_success) ==
  /\ twai_tx_done_callback(i)
  /\ IF is_tx_success THEN UNCHANGED diagVars ELSE IfActive("tx_failure", twai_tx_done_failed)

LeaveBus == GoBusOff /\ IfActive("state_change", twai_state_change_callback("bus_off"))

(* The interrupts that leave the slots alone.                              *)
OtherInterrupt ==
  /\ \/ "rx_queue_overflow" \in active /\ twai_rx_done_callback
     \/ \E flags \in (SUBSET Flags) \ {{}} : twai_error_callback(flags)
     \/ \E s \in NodeStates \ {"bus_off"} : twai_state_change_callback(s)
  /\ UNCHANGED vars

Report == RxTask /\ UNCHANGED vars

ReportDue == PeriodElapses /\ UNCHANGED vars

BusNext ==
  \/ \E t \in Tasks : (\E p \in PayloadsOf[t] : StartTransmit(t, p)) \/ TransmitStep(t)
  \/ \E i \in Slots, ok \in BOOLEAN : TransmitDone(i, ok)
  \/ LeaveBus
  \/ OtherInterrupt
  \/ Report
  \/ ReportDue

(* A task that has begun to transmit goes on, and a node on the bus ends   *)
(* every transmission: it retries a frame three times and then fails it.   *)
(* can_rx_task has the highest priority of the application's tasks, and    *)
(* time passes.  Nothing makes frames or errors arrive, or stop.           *)
BusSpec ==
  /\ BusInit /\ [][BusNext]_busVars
  /\ \A t \in Tasks : WF_busVars(TransmitStep(t))
  /\ \A i \in Slots : WF_busVars(\E ok \in BOOLEAN : TransmitDone(i, ok))
  /\ WF_busVars(Report) /\ WF_busVars(ReportDue)
=============================================================================
