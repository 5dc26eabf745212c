--------------------------- MODULE CanDiagnostics ---------------------------
(***************************************************************************)
(* The receive side of main/can_bus.c: the TWAI interrupts, the receive    *)
(* queue, and can_rx_task, which drains the queue and every                *)
(* DIAG_REPORT_PERIOD_MS turns what the interrupts counted into events of  *)
(* the diagnostic log.                                                     *)
(*                                                                         *)
(* The counters are volatile words without a lock.  An interrupt is atomic *)
(* for the tasks, but it can come between any two accesses of the report,  *)
(* so the report is split between them.                                    *)
(* s_tx_slot_exhaustion_count is incremented by tasks, a load and a store, *)
(* and wraps as the code lets it: a task that finds no slot never waits.   *)
(***************************************************************************)
EXTENDS Integers, FiniteSetsExt

CONSTANTS
  RX_QUEUE_DEPTH,   (* RX_QUEUE_DEPTH                                      *)
  WORD,             (* 2^32: the counters are uint32_t                     *)
  Scenarios,        (* combinations of sources that are active together    *)
  Flags,            (* error flags                                         *)
  NodeStates,       (* twai_error_state_t                                  *)
  TxTasks           (* tasks that call transmit_fd_frame                   *)

(* The sources of counts: interrupts, and tasks that find no slot.         *)
CounterNames == {"rx_queue_overflow", "error_event", "state_change", "tx_failure"}

ASSUME CanDiagnosticsConstants ==
  /\ RX_QUEUE_DEPTH \in Nat \ {0}
  /\ WORD \in Nat /\ WORD > 1
  /\ Scenarios \subseteq SUBSET (CounterNames \cup {"tx_slot_exhaustion", "transmit"})

VARIABLES
  active,           (* the sources active in this behaviour                *)
  queued,           (* messages in s_rx_queue                              *)
  count,            (* the s_..._count words of CounterNames               *)
  last,             (* the static last_..._count words of the report       *)
  flags_seen,       (* s_error_flags_seen                                  *)
  entry_count,      (* s_state_entry_count                                 *)
  last_entry,       (* last_state_entry_count                              *)
  exhaustion,       (* s_tx_slot_exhaustion_count                          *)
  last_exhaustion,  (* last_tx_slot_exhaustion_count                       *)
  loaded,           (* per task: the value it is about to increment, or Nil*)
  rx_pc,            (* where can_rx_task is                                *)
  flags_read,       (* its local flags_seen                                *)
  due               (* DIAG_REPORT_PERIOD_MS have passed                   *)

(* History, read by the properties only.                                   *)
VARIABLES
  unreported,       (* occurrences of each interrupt not in any report yet *)
  unreported_entry, (* the same for entries into each node state           *)
  owed,             (* flags raised and not in any report yet              *)
  raced,            (* those of them raised between the read and the clear *)
  dropped_since     (* frames without a slot since the last report, modulo *)
                    (* 2^32 as its number is; Nil once two tasks have been *)
                    (* inside the increment at once                        *)

wordVars   == <<count, last>>
flagVars   == <<flags_seen, flags_read, owed, raced>>
entryVars  == <<entry_count, last_entry, unreported_entry>>
noSlotVars == <<exhaustion, last_exhaustion, loaded, dropped_since>>
diagVars   == <<active, queued, wordVars, unreported, flagVars, entryVars, noSlotVars, rx_pc, due>>

(* The order in which report_isr_diagnostics looks at the counts.  One     *)
(* whose source is not active never differs from the last reading: the     *)
(* report passes it by.                                                    *)
ReportOrder == <<"rx_queue_overflow", "error_event", "state_change", "tx_failure", "tx_slot_exhaustion">>

FirstActive(from) ==
  LET left == {i \in from .. 5 : ReportOrder[i] \in active}
  IN  IF left = {} THEN "receive" ELSE ReportOrder[Min(left)]

Nil == -1
Inc(word)        == (word + 1) % WORD
Minus(word, old) == (word - old) % WORD   (* unsigned subtraction *)

DiagInit ==
  /\ active \in Scenarios
  /\ queued = 0
  /\ count = [k \in CounterNames |-> 0]
  /\ last = [k \in CounterNames |-> 0]
  /\ unreported = [k \in CounterNames |-> 0]
  /\ flags_seen = {} /\ flags_read = {} /\ owed = {} /\ raced = {}
  /\ entry_count = [s \in NodeStates |-> 0]
  /\ last_entry = [s \in NodeStates |-> 0]
  /\ unreported_entry = [s \in NodeStates |-> 0]
  /\ exhaustion = 0 /\ last_exhaustion = 0
  /\ loaded = [t \in TxTasks |-> Nil]
  /\ dropped_since = 0
  /\ rx_pc = "receive"
  /\ due = FALSE

-----------------------------------------------------------------------------
(* The interrupts.  Fewer than 2^32 of a kind come between two reports.    *)

CountInterrupt(k) ==
  /\ k \in active
  /\ unreported[k] < WORD - 1
  /\ count' = [count EXCEPT ![k] = Inc(@)]
  /\ unreported' = [unreported EXCEPT ![k] = @ + 1]
  /\ UNCHANGED last

(* A frame goes into the queue, or is dropped and counted.                 *)
twai_rx_done_callback ==
  /\ \/ /\ queued < RX_QUEUE_DEPTH
        /\ queued' = queued + 1
        /\ UNCHANGED <<wordVars, unreported>>
     \/ /\ queued = RX_QUEUE_DEPTH
        /\ CountInterrupt("rx_queue_overflow")
        /\ UNCHANGED queued
  /\ UNCHANGED <<flagVars, entryVars, noSlotVars, rx_pc, due, active>>

twai_tx_done_failed ==
  /\ CountInterrupt("tx_failure")
  /\ UNCHANGED <<queued, flagVars, entryVars, noSlotVars, rx_pc, due, active>>

(* Mutant: the flags are assigned, not collected.                          *)
ErrorCallback_Assigns(flags) ==
  /\ CountInterrupt("error_event")
  /\ flags_seen' = flags
  /\ owed' = owed \cup flags
  /\ raced' = IF rx_pc = "flags_clear" THEN raced \cup flags ELSE raced
  /\ UNCHANGED <<queued, flags_read, entryVars, noSlotVars, rx_pc, due, active>>

twai_error_callback(flags) ==
  /\ CountInterrupt("error_event")
  /\ flags_seen' = flags_seen \cup flags
  /\ owed' = owed \cup flags
  /\ raced' = IF rx_pc = "flags_clear" THEN raced \cup flags ELSE raced
  /\ UNCHANGED <<queued, flags_read, entryVars, noSlotVars, rx_pc, due, active>>

twai_state_change_callback(new) ==
  /\ CountInterrupt("state_change")
  /\ unreported_entry[new] < WORD - 1
  /\ entry_count' = [entry_count EXCEPT ![new] = Inc(@)]
  /\ unreported_entry' = [unreported_entry EXCEPT ![new] = @ + 1]
  /\ UNCHANGED <<queued, flagVars, last_entry, noSlotVars, rx_pc, due, active>>

-----------------------------------------------------------------------------
(* transmit_fd_frame without a free slot: s_tx_slot_exhaustion_count++.    *)

LoadExhaustion(t) ==
  /\ "tx_slot_exhaustion" \in active
  /\ loaded[t] = Nil
  /\ loaded' = [loaded EXCEPT ![t] = exhaustion]
  /\ UNCHANGED <<queued, wordVars, unreported, flagVars, entryVars>>
  /\ UNCHANGED <<exhaustion, last_exhaustion, dropped_since, rx_pc, due, active>>

(* What another task has loaded is out of date from here on.               *)
StoreExhaustion(t) ==
  /\ loaded[t] # Nil
  /\ exhaustion' = Inc(loaded[t])
  /\ loaded' = [loaded EXCEPT ![t] = Nil]
  /\ dropped_since' = IF dropped_since = Nil \/ \E u \in TxTasks \ {t} : loaded[u] # Nil
                      THEN Nil ELSE Inc(dropped_since)
  /\ UNCHANGED <<queued, wordVars, unreported, flagVars, entryVars, last_exhaustion, rx_pc, due, active>>

-----------------------------------------------------------------------------
(* can_rx_task                                                             *)

(* xQueueReceive returns a message, which is dispatched, or times out.     *)
Receive ==
  /\ rx_pc = "receive"
  /\ queued' = IF queued > 0 THEN queued - 1 ELSE 0
  /\ rx_pc' = "check"
  /\ UNCHANGED <<wordVars, unreported, flagVars, entryVars, noSlotVars, due, active>>

(* Mutant: frames go before the report.                                    *)
CheckReport_WhenEmpty ==
  /\ rx_pc = "check"
  /\ rx_pc' = IF due /\ queued = 0 THEN FirstActive(1) ELSE "receive"
  /\ due' = (due /\ queued > 0)
  /\ UNCHANGED <<queued, wordVars, unreported, flagVars, entryVars, noSlotVars, active>>

CheckReport ==
  /\ rx_pc = "check"
  /\ rx_pc' = IF due THEN FirstActive(1) ELSE "receive"
  /\ due' = FALSE
  /\ UNCHANGED <<queued, wordVars, unreported, flagVars, entryVars, noSlotVars, active>>

(* Mutant: the reading is not remembered.                                  *)
ReportCounter_LastKept(k) ==
  /\ unreported' = [unreported EXCEPT ![k] = @ - Minus(count[k], last[k])]
  /\ UNCHANGED <<count, last>>

(* One counter of report_isr_diagnostics: it is read once, and the         *)
(* difference to the last reading is reported.                             *)
ReportCounter(k) ==
  /\ last' = [last EXCEPT ![k] = count[k]]
  /\ unreported' = [unreported EXCEPT ![k] = @ - Minus(count[k], last[k])]
  /\ UNCHANGED count

ReportOverflow ==
  /\ rx_pc = "rx_queue_overflow"
  /\ ReportCounter("rx_queue_overflow")
  /\ rx_pc' = FirstActive(2)
  /\ UNCHANGED <<queued, flagVars, entryVars, noSlotVars, due, active>>

(* With the errors go the flags collected since the last report: they are  *)
(* read, ...                                                               *)
ReportErrors ==
  /\ rx_pc = "error_event"
  /\ ReportCounter("error_event")
  /\ rx_pc' = IF count["error_event"] # last["error_event"] THEN "flags_read" ELSE FirstActive(3)
  /\ UNCHANGED <<queued, flagVars, entryVars, noSlotVars, due, active>>

ReadFlags ==
  /\ rx_pc = "flags_read"
  /\ flags_read' = flags_seen
  /\ rx_pc' = "flags_clear"
  /\ UNCHANGED <<queued, wordVars, unreported, flags_seen, owed, raced, entryVars, noSlotVars, due, active>>

(* ... and then cleared.                                                   *)
ClearFlags ==
  /\ rx_pc = "flags_clear"
  /\ flags_seen' = {}
  /\ owed' = owed \ flags_read
  /\ raced' = raced \ flags_read
  /\ flags_read' = {}
  /\ rx_pc' = FirstActive(3)
  /\ UNCHANGED <<queued, wordVars, unreported, entryVars, noSlotVars, due, active>>

(* With the state changes go the entries into each state: the difference   *)
(* is taken ...                                                            *)
ReportStateChanges ==
  /\ rx_pc = "state_change"
  /\ ReportCounter("state_change")
  /\ rx_pc' = IF count["state_change"] # last["state_change"] THEN "entries_read" ELSE FirstActive(4)
  /\ UNCHANGED <<queued, flagVars, entryVars, noSlotVars, due, active>>

ReadEntries ==
  /\ rx_pc = "entries_read"
  /\ unreported_entry' = [s \in NodeStates |->
       unreported_entry[s] - Minus(entry_count[s], last_entry[s])]
  /\ rx_pc' = "entries_save"
  /\ UNCHANGED <<queued, wordVars, unreported, flagVars, entry_count, last_entry, noSlotVars, due, active>>

(* Mutant: the counts are not remembered.                                  *)
SaveEntries_Forgotten ==
  /\ rx_pc = "entries_save"
  /\ unreported_entry' = [s \in NodeStates |-> 0]
  /\ rx_pc' = FirstActive(4)
  /\ UNCHANGED <<queued, wordVars, unreported, flagVars, entry_count, last_entry, noSlotVars, due, active>>

(* ... and the counts are read again to be remembered: an entry since the  *)
(* first reading will be in no report, and is no longer waited for.        *)
SaveEntries ==
  /\ rx_pc = "entries_save"
  /\ last_entry' = entry_count
  /\ unreported_entry' = [s \in NodeStates |-> 0]
  /\ rx_pc' = FirstActive(4)
  /\ UNCHANGED <<queued, wordVars, unreported, flagVars, entry_count, noSlotVars, due, active>>

ReportTxFailures ==
  /\ rx_pc = "tx_failure"
  /\ ReportCounter("tx_failure")
  /\ rx_pc' = FirstActive(5)
  /\ UNCHANGED <<queued, flagVars, entryVars, noSlotVars, due, active>>

(* Mutant: the word is cleared instead of remembered.                      *)
ReportExhaustion_Clears ==
  /\ rx_pc = "tx_slot_exhaustion"
  /\ exhaustion' = 0
  /\ dropped_since' = IF dropped_since = Nil /\ \E t \in TxTasks : loaded[t] # Nil THEN Nil ELSE 0
  /\ rx_pc' = "receive"
  /\ UNCHANGED <<queued, wordVars, unreported, flagVars, entryVars, last_exhaustion, loaded, due, active>>

(* With no task inside the increment, counting starts afresh.              *)
ReportExhaustion ==
  /\ rx_pc = "tx_slot_exhaustion"
  /\ last_exhaustion' = exhaustion
  /\ dropped_since' = IF dropped_since = Nil /\ \E t \in TxTasks : loaded[t] # Nil THEN Nil ELSE 0
  /\ rx_pc' = "receive"
  /\ UNCHANGED <<queued, wordVars, unreported, flagVars, entryVars, exhaustion, loaded, due, active>>

RxTask ==
  \/ Receive \/ CheckReport
  \/ ReportOverflow \/ ReportErrors \/ ReadFlags \/ ClearFlags
  \/ ReportStateChanges \/ ReadEntries \/ SaveEntries
  \/ ReportTxFailures \/ ReportExhaustion

(* Time: the report is due again.                                          *)
PeriodElapses ==
  /\ ~due
  /\ due' = TRUE
  /\ UNCHANGED <<queued, wordVars, unreported, flagVars, entryVars, noSlotVars, rx_pc, active>>

-----------------------------------------------------------------------------
(* The counts in the event log add up: whenever interrupts come relative   *)
(* to the report, and across wrap-around of the words, each is in exactly  *)
(* one report or still to be reported.                                     *)
CountsAddUp == \A k \in CounterNames : unreported[k] = Minus(count[k], last[k])

(* The entries per node state are not that exact: one between the two      *)
(* readings of its word is in no report.  No other is lost, and none is    *)
(* reported twice: what the next report will say is what came since the    *)
(* second reading of the last one.                                         *)
EntryLossOnlyByRace ==
  \A s \in NodeStates :
    rx_pc # "entries_save" => unreported_entry[s] = Minus(entry_count[s], last_entry[s])

(* An error flag is missing from the reports only when it was raised       *)
(* between the read and the clear of s_error_flags_seen.                   *)
FlagLossOnlyByRace == owed \subseteq flags_seen \cup raced

(* Tasks that run out of slots one after the other are counted exactly,    *)
(* also when the report comes between the load and the store of one.  Two  *)
(* inside the increment at once spoil the count (a late store may even     *)
(* take it back below the last reading, and the report says 2^32 - 1), but *)
(* only until a report has found no task inside it.                        *)
DropsExactUnlessOverlapped ==
  dropped_since \in {Nil, Minus(exhaustion, last_exhaustion)}

(* Whatever an interrupt counted gets into the event log, under any load   *)
(* of frames: the report does not wait for the queue to run empty.         *)
EventsReported == \A k \in CounterNames : (unreported[k] > 0) ~> (unreported[k] = 0)
=============================================================================
