------------------------------ MODULE DiagLog -------------------------------
(***************************************************************************)
(* The in-RAM event log of main/diagnostics.c: a ring of                   *)
(* MEB_DIAG_EVENT_CAPACITY events that any task appends to, and the views  *)
(* of it that device.events and device.diagnostics return.                 *)
(*                                                                         *)
(* A task fills in the event, its uptime included, before it takes the     *)
(* lock; the sequence number is given under the lock.                      *)
(***************************************************************************)
EXTENDS Integers, Sequences

CONSTANTS
  CAPACITY,        (* MEB_DIAG_EVENT_CAPACITY                              *)
  MAX_LIMIT,       (* DIAG_EVENTS_MAX_LIMIT                                *)
  Tasks,           (* tasks that record events                             *)
  MaxEvents,       (* bound: events recorded                               *)
  MaxUptime        (* bound: the clock stops here                          *)

ASSUME DiagLogConstants ==
  /\ CAPACITY \in Nat \ {0}
  /\ MAX_LIMIT \in Nat
  /\ MaxEvents \in Nat
  /\ MaxUptime \in Nat

VARIABLES
  s_events,        (* the ring, indexed from 0                             *)
  s_event_count,
  s_next_index,
  s_next_seq,
  s_overwritten,
  item,            (* per task: the event it is recording, NoEvent if none *)
  uptime           (* uptime_ms()                                          *)

(* History, read by the properties only.                                   *)
VARIABLE recorded  (* every event ever stored, in order                    *)

ring == <<s_events, s_event_count, s_next_index, s_next_seq, s_overwritten>>
vars == <<ring, item, uptime, recorded>>

NoEvent == [seq |-> 0, uptime_ms |-> 0, component |-> "zeroed"]

(* meb_diag_init: an empty ring.  The boot event follows as the first.     *)
Init ==
  /\ s_events = [i \in 0 .. CAPACITY - 1 |-> NoEvent]
  /\ s_event_count = 0
  /\ s_next_index = 0
  /\ s_next_seq = 1
  /\ s_overwritten = 0
  /\ item = [t \in Tasks |-> NoEvent]
  /\ uptime = 0
  /\ recorded = <<>>

(* meb_diag_record_event up to lock_diag.                                  *)
FillEvent(t) ==
  /\ item[t] = NoEvent
  /\ item' = [item EXCEPT ![t] = [seq |-> 0, uptime_ms |-> uptime, component |-> t]]
  /\ UNCHANGED <<ring, uptime, recorded>>

(* Mutant: an overwritten event is not counted.                            *)
RecordEvent_LossNotCounted(t) ==
  /\ item[t] # NoEvent
  /\ s_next_seq <= MaxEvents
  /\ LET event == [item[t] EXCEPT !.seq = s_next_seq] IN
       /\ s_events' = [s_events EXCEPT ![s_next_index] = event]
       /\ recorded' = Append(recorded, event)
  /\ s_next_seq' = s_next_seq + 1
  /\ s_next_index' = (s_next_index + 1) % CAPACITY
  /\ s_event_count' = IF s_event_count < CAPACITY THEN s_event_count + 1 ELSE CAPACITY
  /\ item' = [item EXCEPT ![t] = NoEvent]
  /\ UNCHANGED <<s_overwritten, uptime>>

(* The rest of it, between lock_diag and unlock_diag.                      *)
meb_diag_record_event(t) ==
  /\ item[t] # NoEvent
  /\ s_next_seq <= MaxEvents
  /\ LET event == [item[t] EXCEPT !.seq = s_next_seq] IN
       /\ s_events' = [s_events EXCEPT ![s_next_index] = event]
       /\ recorded' = Append(recorded, event)
  /\ s_next_seq' = s_next_seq + 1
  /\ s_next_index' = (s_next_index + 1) % CAPACITY
  /\ \/ /\ s_event_count < CAPACITY
        /\ s_event_count' = s_event_count + 1
        /\ UNCHANGED s_overwritten
     \/ /\ s_event_count >= CAPACITY
        /\ s_overwritten' = s_overwritten + 1
        /\ UNCHANGED s_event_count
  /\ item' = [item EXCEPT ![t] = NoEvent]
  /\ UNCHANGED uptime

Tick ==
  /\ uptime < MaxUptime
  /\ uptime' = uptime + 1
  /\ UNCHANGED <<ring, item, recorded>>

Next ==
  \/ \E t \in Tasks : FillEvent(t) \/ meb_diag_record_event(t)
  \/ Tick

Spec == Init /\ [][Next]_vars

-----------------------------------------------------------------------------
(* What device.events and device.diagnostics return.  Both copy the ring   *)
(* under the lock and change nothing.                                      *)

(* meb_diag_get_events: the ring read from its oldest event on.            *)
meb_diag_get_events ==
  LET first == (s_next_index + CAPACITY - s_event_count) % CAPACITY IN
  [i \in 1 .. s_event_count |-> s_events[(first + i - 1) % CAPACITY]]

(* Mutant: the oldest events are returned.                                 *)
FormatEventLog_Oldest(limit) ==
  LET capped   == IF limit > MAX_LIMIT THEN MAX_LIMIT ELSE limit
      returned == IF capped > s_event_count THEN s_event_count ELSE capped
  IN SubSeq(meb_diag_get_events, 1, returned)

(* format_event_log_json: the newest limit events of that.                 *)
format_event_log_json(limit) ==
  LET events   == meb_diag_get_events
      capped   == IF limit > MAX_LIMIT THEN MAX_LIMIT ELSE limit
      returned == IF capped > s_event_count THEN s_event_count ELSE capped
  IN SubSeq(events, s_event_count - returned + 1, s_event_count)

-----------------------------------------------------------------------------
EventRecord == [seq : Nat, uptime_ms : Nat, component : Tasks \cup {"zeroed"}]

(* Every variable keeps its type.                                          *)
TypeOK ==
  /\ s_events \in [0 .. CAPACITY - 1 -> EventRecord]
  /\ s_event_count \in 0 .. CAPACITY
  /\ s_next_index \in 0 .. CAPACITY - 1
  /\ s_next_seq \in Nat \ {0}
  /\ s_overwritten \in Nat
  /\ item \in [Tasks -> EventRecord]
  /\ uptime \in Nat
  /\ recorded \in Seq(EventRecord)

(* The log is the newest events ever recorded, oldest first, and counts    *)
(* exactly the ones it has lost.                                           *)
LogIsRecentHistory ==
  /\ s_event_count + s_overwritten = Len(recorded)
  /\ meb_diag_get_events = SubSeq(recorded, s_overwritten + 1, Len(recorded))

(* README: device.events and device.diagnostics return the most recent     *)
(* events, no more than asked for and no more than the cap.                *)
ViewIsMostRecent ==
  \A limit \in 0 .. MAX_LIMIT + 1 :
    LET n == Len(format_event_log_json(limit)) IN
    /\ n <= limit /\ n <= MAX_LIMIT
    /\ n < limit /\ n < MAX_LIMIT => n = s_event_count
    /\ format_event_log_json(limit) = SubSeq(recorded, Len(recorded) - n + 1, Len(recorded))

-----------------------------------------------------------------------------
(* The ring slot by slot: the slots below s_next_index were written in     *)
(* this lap, the others in the last one, or never.                         *)
SlotContent ==
  /\ s_event_count < CAPACITY => s_next_index = s_event_count /\ s_overwritten = 0
  /\ s_next_seq = s_event_count + s_overwritten + 1
  /\ Len(recorded) = s_next_seq - 1
  /\ \A j \in 0 .. CAPACITY - 1 :
       s_events[j] = IF j < s_next_index THEN recorded[s_next_seq - s_next_index + j]
                     ELSE IF s_event_count = CAPACITY
                          THEN recorded[s_next_seq - s_next_index + j - CAPACITY]
                          ELSE NoEvent

IInv == TypeOK /\ SlotContent
=============================================================================
