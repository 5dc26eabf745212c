------------------------------ MODULE TxSlots -------------------------------
(***************************************************************************)
(* The transmit slots of main/can_bus.c.  twai_node_transmit keeps a       *)
(* pointer to the frame until the transmit-done interrupt, so each frame   *)
(* lives in one of TX_SLOT_COUNT static slots: a task takes a free slot,   *)
(* hands it to the driver, and either the driver refuses it and the task   *)
(* gives it back, or the interrupt does.                                   *)
(*                                                                         *)
(* The firmware never asks the driver to recover, so a node that is off    *)
(* the bus stays off and keeps the frames it has.  The counters the tasks  *)
(* and the interrupt maintain on the way are in CanDiagnostics.            *)
(***************************************************************************)
EXTENDS Integers

CONSTANTS
  TX_SLOT_COUNT,   (* MEB_TWAI_TX_QUEUE_DEPTH                              *)
  Tasks,           (* tasks that transmit: control and telemetry           *)
  Payloads         (* diag_session, heat_request, bms_soc                  *)

ASSUME TxSlotsConstants == TX_SLOT_COUNT \in Nat \ {0}

Slots  == 1 .. TX_SLOT_COUNT
NoSlot == 0

NoPayload == "zeroed"   (* s_tx_slots before its first use *)

VARIABLES
  in_use,       (* s_tx_slots[i].in_use                                    *)
  data,         (* s_tx_slots[i].data, .id and .frame                      *)
  pc,           (* where each task is in transmit_fd_frame                 *)
  slot,         (* its local variable slot                                 *)
  want,         (* the payload it was called with                          *)
  driver,       (* external: slots the driver holds a pointer to           *)
  bus_off       (* external: the node is off the bus                       *)

(* History, read by the properties only.                                   *)
VARIABLE
  submitted     (* the payload each slot was submitted with                *)

taskVars   == <<pc, slot, want>>
driverVars == <<driver, bus_off>>
vars == <<in_use, data, taskVars, driverVars, submitted>>

Init ==
  /\ in_use = [i \in Slots |-> FALSE]
  /\ data = [i \in Slots |-> NoPayload]
  /\ pc = [t \in Tasks |-> "idle"]
  /\ slot = [t \in Tasks |-> NoSlot]
  /\ want = [t \in Tasks |-> NoPayload]
  /\ driver = {}
  /\ bus_off = FALSE
  /\ submitted = data

-----------------------------------------------------------------------------
(* meb_can_request_diag_session, meb_can_send_heat_request and             *)
(* meb_can_request_bms_soc only choose the payload.                        *)
transmit_fd_frame(t, p) ==
  /\ pc[t] = "idle"
  /\ pc' = [pc EXCEPT ![t] = "alloc"]
  /\ want' = [want EXCEPT ![t] = p]
  /\ UNCHANGED <<in_use, data, slot, driverVars, submitted>>

(* The first slot the loop of alloc_tx_slot finds.                         *)
FirstFree(i) == i \in Slots /\ ~in_use[i] /\ \A j \in 1 .. i - 1 : in_use[j]

(* Mutant: the loop does not look at in_use.                               *)
AllocTxSlot_AnySlot(t) ==
  /\ pc[t] = "alloc"
  /\ \E i \in Slots :
       /\ in_use' = [in_use EXCEPT ![i] = TRUE]
       /\ data' = [data EXCEPT ![i] = want[t]]
       /\ slot' = [slot EXCEPT ![t] = i]
  /\ pc' = [pc EXCEPT ![t] = "submit"]
  /\ UNCHANGED <<want, driverVars, submitted>>

alloc_tx_slot(t) ==
  /\ pc[t] = "alloc"
  /\ \E i \in Slots :
       /\ FirstFree(i)
       /\ in_use' = [in_use EXCEPT ![i] = TRUE]
       /\ data' = [data EXCEPT ![i] = want[t]]
       /\ slot' = [slot EXCEPT ![t] = i]
  /\ pc' = [pc EXCEPT ![t] = "submit"]
  /\ UNCHANGED <<want, driverVars, submitted>>

(* alloc_tx_slot found nothing: the frame is dropped.                      *)
AllocFails(t) ==
  /\ pc[t] = "alloc"
  /\ \A i \in Slots : in_use[i]
  /\ pc' = [pc EXCEPT ![t] = "idle"]
  /\ UNCHANGED <<in_use, data, slot, want, driverVars, submitted>>

(* Mutant: the slot is freed once the frame is queued.                     *)
Accept_Frees(t) ==
  /\ pc[t] = "submit" /\ ~bus_off
  /\ driver' = driver \cup {slot[t]}
  /\ submitted' = [submitted EXCEPT ![slot[t]] = data[slot[t]]]
  /\ in_use' = [in_use EXCEPT ![slot[t]] = FALSE]
  /\ pc' = [pc EXCEPT ![t] = "idle"]
  /\ slot' = [slot EXCEPT ![t] = NoSlot]
  /\ UNCHANGED <<data, want, bus_off>>

(* twai_node_transmit takes the frame.                                     *)
Accept(t) ==
  /\ pc[t] = "submit" /\ ~bus_off
  /\ driver' = driver \cup {slot[t]}
  /\ submitted' = [submitted EXCEPT ![slot[t]] = data[slot[t]]]
  /\ pc' = [pc EXCEPT ![t] = "idle"]
  /\ slot' = [slot EXCEPT ![t] = NoSlot]
  /\ UNCHANGED <<in_use, data, want, bus_off>>

(* twai_node_transmit returns an error: off the bus, or timed out.         *)
Refuse(t) ==
  /\ pc[t] = "submit"
  /\ pc' = [pc EXCEPT ![t] = "release"]
  /\ UNCHANGED <<in_use, data, slot, want, driverVars, submitted>>

(* Mutant: a refused frame keeps its slot.                                 *)
ReleaseTxSlot_Leaks(t) ==
  /\ pc[t] = "release"
  /\ pc' = [pc EXCEPT ![t] = "idle"]
  /\ slot' = [slot EXCEPT ![t] = NoSlot]
  /\ UNCHANGED <<in_use, data, want, driverVars, submitted>>

release_tx_slot(t) ==
  /\ pc[t] = "release"
  /\ in_use' = [in_use EXCEPT ![slot[t]] = FALSE]
  /\ pc' = [pc EXCEPT ![t] = "idle"]
  /\ slot' = [slot EXCEPT ![t] = NoSlot]
  /\ UNCHANGED <<data, want, driverVars, submitted>>

(* The transmit-done interrupt, for a frame sent or given up on.           *)
twai_tx_done_callback(i) ==
  /\ i \in driver /\ ~bus_off
  /\ driver' = driver \ {i}
  /\ in_use' = [in_use EXCEPT ![i] = FALSE]
  /\ UNCHANGED <<data, taskVars, bus_off, submitted>>

(* External: too many errors take the node off the bus, for good.          *)
GoBusOff ==
  /\ ~bus_off
  /\ bus_off' = TRUE
  /\ UNCHANGED <<in_use, data, taskVars, driver, submitted>>

-----------------------------------------------------------------------------
TaskStep(t) ==
  \/ alloc_tx_slot(t) \/ AllocFails(t)
  \/ Accept(t) \/ Refuse(t) \/ release_tx_slot(t)

Next ==
  \/ \E t \in Tasks : (\E p \in Payloads : transmit_fd_frame(t, p)) \/ TaskStep(t)
  \/ \E i \in Slots : twai_tx_done_callback(i)
  \/ GoBusOff

Spec == Init /\ [][Next]_vars

-----------------------------------------------------------------------------
(* Every variable keeps its type.                                          *)
TypeOK ==
  /\ in_use \in [Slots -> BOOLEAN]
  /\ data \in [Slots -> Payloads \cup {NoPayload}]
  /\ pc \in [Tasks -> {"idle", "alloc", "submit", "release"}]
  /\ slot \in [Tasks -> Slots \cup {NoSlot}]
  /\ want \in [Tasks -> Payloads \cup {NoPayload}]
  /\ driver \subseteq Slots
  /\ bus_off \in BOOLEAN
  /\ submitted \in [Slots -> Payloads \cup {NoPayload}]

Holds(t) == pc[t] \in {"submit", "release"}

(* A slot is marked in use exactly when a task inside transmit_fd_frame or *)
(* the driver has it.                                                      *)
InUseMeansOwned ==
  \A i \in Slots : in_use[i] <=> (i \in driver \/ \E t \in Tasks : Holds(t) /\ slot[t] = i)

(* No slot has two owners: not two tasks, and not a task and the driver.   *)
OneOwner ==
  \A t \in Tasks : Holds(t) =>
    /\ slot[t] \in Slots \ driver
    /\ \A u \in Tasks \ {t} : Holds(u) => slot[u] # slot[t]

(* The frame the driver still points to is the frame it was given.         *)
DriverFramesIntact == \A i \in driver : data[i] = submitted[i]

(* Slots are never leaked, freed early or handed out twice: a slot in use  *)
(* belongs to exactly one of the tasks and the driver, a free one to none, *)
(* and the driver sends the frame it was given, whatever tasks and the     *)
(* transmit-done interrupt do meanwhile.                                   *)
SlotsOwnedOnce == InUseMeansOwned /\ OneOwner /\ DriverFramesIntact

(* A node on the bus gives every slot back.                                *)
SlotsComeBack == \A i \in Slots : in_use[i] ~> (~in_use[i] \/ bus_off)

(* The inductive invariant: the ownership facts support one another.       *)
IInv ==
  /\ TypeOK
  /\ InUseMeansOwned
  /\ OneOwner
  /\ DriverFramesIntact
=============================================================================
