---------------------------- MODULE CanBusProofs ----------------------------
(***************************************************************************)
(* main/can_bus.c as a whole, for any number of slots, tasks, flags and    *)
(* node states, any depth of the receive queue, counters of any width and  *)
(* any combination of active sources: slots are owned once, and the        *)
(* reports of can_rx_task account for what interrupts and tasks counted.   *)
(***************************************************************************)
EXTENDS CanBus, TLAPS

USE TxSlotsConstants, CanDiagnosticsConstants

-----------------------------------------------------------------------------
(* The slots, as TxSlots has them.                                         *)

(* Nothing is owned at start-up.                                           *)
LEMMA InitIInv == Init => IInv
<1> SUFFICES ASSUME Init PROVE IInv
  OBVIOUS
<1> USE DEF Init
<1>1. TypeOK
  BY DEF TypeOK
<1>2. InUseMeansOwned /\ OneOwner /\ DriverFramesIntact
  BY DEF InUseMeansOwned, OneOwner, DriverFramesIntact, Holds
<1> QED
  BY <1>1, <1>2 DEF IInv

(* Entering transmit_fd_frame, finding no slot, and a refusal move no slot.*)
LEMMA NoSlotMovesIInv ==
  ASSUME IInv, NEW t \in Tasks,
         (\E p \in Payloads : transmit_fd_frame(t, p)) \/ AllocFails(t) \/ Refuse(t)
  PROVE  IInv'
<1> USE DEF IInv, transmit_fd_frame, AllocFails, Refuse, driverVars
<1>1. TypeOK'
  BY DEF TypeOK
<1>2. /\ UNCHANGED <<in_use, data, slot, driver, submitted>>
      /\ \A u \in Tasks : Holds(u)' <=> Holds(u)
  BY DEF TypeOK, Holds
<1>3. InUseMeansOwned' /\ OneOwner' /\ DriverFramesIntact'
  BY <1>2 DEF InUseMeansOwned, OneOwner, DriverFramesIntact
<1> QED
  BY <1>1, <1>3 DEF IInv

(* alloc_tx_slot: a slot that nobody owned becomes the task's.             *)
LEMMA AllocIInv ==
  ASSUME IInv, NEW t \in Tasks, alloc_tx_slot(t)
  PROVE  IInv'
<1> USE DEF IInv, alloc_tx_slot, driverVars
<1> PICK i \in Slots :
      /\ FirstFree(i)
      /\ in_use' = [in_use EXCEPT ![i] = TRUE]
      /\ data' = [data EXCEPT ![i] = want[t]]
      /\ slot' = [slot EXCEPT ![t] = i]
  OBVIOUS
<1>1. TypeOK'
  BY DEF TypeOK
<1>2. /\ ~in_use[i] /\ i \notin driver
      /\ \A u \in Tasks : Holds(u) => slot[u] # i
  BY DEF FirstFree, InUseMeansOwned
<1>3. /\ Holds(t)' /\ ~Holds(t) /\ slot'[t] = i
      /\ \A u \in Tasks \ {t} : (Holds(u)' <=> Holds(u)) /\ slot'[u] = slot[u]
      /\ \A j \in Slots \ {i} : in_use'[j] = in_use[j] /\ data'[j] = data[j]
      /\ in_use'[i]
  BY DEF Holds, TypeOK
<1>4. InUseMeansOwned'
  BY <1>2, <1>3 DEF InUseMeansOwned
<1>5. OneOwner'
  BY <1>2, <1>3 DEF OneOwner
<1>6. DriverFramesIntact'
  BY <1>2, <1>3 DEF DriverFramesIntact, TypeOK
<1> QED
  BY <1>1, <1>4, <1>5, <1>6 DEF IInv

(* twai_node_transmit: the task's slot becomes the driver's.               *)
LEMMA AcceptIInv ==
  ASSUME IInv, NEW t \in Tasks, Accept(t)
  PROVE  IInv'
<1> USE DEF IInv, Accept
<1>0. Holds(t) /\ slot[t] \in Slots \ driver
  BY DEF Holds, OneOwner
<1>1. TypeOK'
  BY <1>0 DEF TypeOK
<1>2. /\ ~Holds(t)' /\ slot[t] \in driver'
      /\ \A u \in Tasks \ {t} : /\ (Holds(u)' <=> Holds(u)) /\ slot'[u] = slot[u]
                                /\ Holds(u) => slot[u] # slot[t]
  BY <1>0 DEF Holds, OneOwner, TypeOK
<1>3. InUseMeansOwned'
  BY <1>0, <1>2 DEF InUseMeansOwned
<1>4. OneOwner'
  BY <1>0, <1>2 DEF OneOwner
<1>5. DriverFramesIntact'
  BY <1>0 DEF DriverFramesIntact, TypeOK
<1> QED
  BY <1>1, <1>3, <1>4, <1>5 DEF IInv

(* release_tx_slot: the refused slot becomes nobody's.                     *)
LEMMA ReleaseIInv ==
  ASSUME IInv, NEW t \in Tasks, release_tx_slot(t)
  PROVE  IInv'
<1> USE DEF IInv, release_tx_slot, driverVars
<1>0. Holds(t) /\ slot[t] \in Slots \ driver
  BY DEF Holds, OneOwner
<1>1. TypeOK'
  BY <1>0 DEF TypeOK
<1>2. /\ ~Holds(t)' /\ ~in_use'[slot[t]]
      /\ \A j \in Slots \ {slot[t]} : in_use'[j] = in_use[j]
      /\ \A u \in Tasks \ {t} : /\ (Holds(u)' <=> Holds(u)) /\ slot'[u] = slot[u]
                                /\ Holds(u) => slot[u] # slot[t]
  BY <1>0 DEF Holds, OneOwner, TypeOK
<1>3. InUseMeansOwned'
  BY <1>0, <1>2 DEF InUseMeansOwned
<1>4. OneOwner'
  BY <1>0, <1>2 DEF OneOwner
<1>5. DriverFramesIntact'
  BY DEF DriverFramesIntact
<1> QED
  BY <1>1, <1>3, <1>4, <1>5 DEF IInv

(* The transmit-done interrupt frees a slot no task has.                   *)
LEMMA TxDoneIInv ==
  ASSUME IInv, NEW i \in Slots, twai_tx_done_callback(i)
  PROVE  IInv'
<1> USE DEF IInv, twai_tx_done_callback, taskVars
<1>1. TypeOK'
  BY DEF TypeOK
<1>2. /\ ~in_use'[i] /\ i \notin driver'
      /\ \A j \in Slots \ {i} : /\ in_use'[j] = in_use[j]
                                /\ j \in driver' <=> j \in driver
      /\ \A u \in Tasks : /\ (Holds(u)' <=> Holds(u)) /\ slot'[u] = slot[u]
                          /\ Holds(u) => slot[u] # i
  BY DEF Holds, OneOwner, TypeOK
<1>3. InUseMeansOwned'
  BY <1>2 DEF InUseMeansOwned
<1>4. OneOwner'
  BY <1>2 DEF OneOwner
<1>5. DriverFramesIntact'
  BY DEF DriverFramesIntact
<1> QED
  BY <1>1, <1>3, <1>4, <1>5 DEF IInv

(* Every step of the tasks, the interrupt and the bus preserves ownership. *)
LEMMA StepIInv == IInv /\ [Next]_vars => IInv'
<1> SUFFICES ASSUME IInv, [Next]_vars PROVE IInv'
  OBVIOUS
<1>1. CASE \E t \in Tasks : (\E p \in Payloads : transmit_fd_frame(t, p)) \/ TaskStep(t)
  BY <1>1, NoSlotMovesIInv, AllocIInv, AcceptIInv, ReleaseIInv DEF TaskStep
<1>2. CASE \E i \in Slots : twai_tx_done_callback(i)
  BY <1>2, TxDoneIInv
<1>3. CASE GoBusOff \/ UNCHANGED vars
  <2>1. UNCHANGED <<in_use, data, pc, slot, want, driver, submitted>>
    BY <1>3 DEF GoBusOff, vars, taskVars, driverVars
  <2>2. bus_off' \in BOOLEAN
    BY <1>3 DEF GoBusOff, vars, driverVars, IInv, TypeOK
  <2>3. TypeOK'
    BY <2>1, <2>2 DEF IInv, TypeOK
  <2>4. InUseMeansOwned' /\ OneOwner' /\ DriverFramesIntact'
    BY <2>1 DEF IInv, InUseMeansOwned, OneOwner, DriverFramesIntact, Holds
  <2> QED
    BY <2>3, <2>4 DEF IInv
<1> QED
  BY <1>1, <1>2, <1>3 DEF Next

(* For every number of slots and tasks: a slot is in use exactly while it  *)
(* has an owner, never has two, and the driver's frames stay as submitted. *)
THEOREM SlotOwnership ==
  Spec => [](TypeOK /\ SlotsOwnedOnce)
<1>1. Init => IInv
  BY InitIInv
<1>2. IInv /\ [Next]_vars => IInv'
  BY StepIInv
<1>3. IInv => TypeOK /\ SlotsOwnedOnce
  BY DEF IInv, SlotsOwnedOnce
<1> QED
  BY <1>1, <1>2, <1>3, PTL DEF Spec

-----------------------------------------------------------------------------
(* can_bus.c does to the slots what TxSlots says, and nothing else: the    *)
(* counting in between leaves them alone.                                  *)
THEOREM BusRefinesSlots == BusSpec => Spec
<1>1. BusInit => Init
  BY DEF BusInit
<1>2. [BusNext]_busVars => [Next]_vars
  <2> SUFFICES ASSUME [BusNext]_busVars PROVE [Next]_vars
    OBVIOUS
  <2>1. ASSUME NEW t \in Tasks, NEW p \in PayloadsOf[t], StartTransmit(t, p) PROVE Next
    BY <2>1, CanBusConstants DEF StartTransmit, Next
  <2>2. ASSUME NEW t \in Tasks, TransmitStep(t) PROVE Next \/ UNCHANGED vars
    BY <2>2 DEF TransmitStep, FindNoSlot, CountNoSlot, Next, TaskStep
  <2>3. ASSUME NEW i \in Slots, NEW ok \in BOOLEAN, TransmitDone(i, ok) PROVE Next
    BY <2>3 DEF TransmitDone, Next
  <2>4. CASE LeaveBus
    BY <2>4 DEF LeaveBus, Next
  <2>5. CASE OtherInterrupt \/ Report \/ ReportDue \/ UNCHANGED busVars
    BY <2>5 DEF OtherInterrupt, Report, ReportDue, busVars
  <2> QED
    BY <2>1, <2>2, <2>3, <2>4, <2>5 DEF BusNext
<1> QED
  BY <1>1, <1>2, PTL DEF BusSpec, Spec

(* So slots of can_bus.c are never leaked, freed early or handed out twice *)
(* while the tasks and interrupts count what happens.                      *)
THEOREM BusSlotOwnership == BusSpec => []SlotsOwnedOnce
BY BusRefinesSlots, SlotOwnership, PTL

-----------------------------------------------------------------------------
(* Arithmetic of the uint32_t words, for any width.                        *)

Word == 0 .. WORD - 1

(* A word is its own residue, and one below zero wraps around.             *)
LEMMA Residue ==
  ASSUME NEW x \in Int, -WORD < x, x <= WORD
  PROVE  x % WORD = IF x = WORD THEN 0 ELSE IF x < 0 THEN x + WORD ELSE x
OBVIOUS

(* Incrementing stays within the word.                                     *)
LEMMA IncWord ==
  ASSUME NEW c \in Word
  PROVE  Inc(c) = (IF c = WORD - 1 THEN 0 ELSE c + 1) /\ Inc(c) \in Word
BY Residue DEF Inc, Word

(* The unsigned difference of two words is a word, 0 when they are equal.  *)
LEMMA MinusWord ==
  ASSUME NEW c \in Word, NEW l \in Word
  PROVE  /\ Minus(c, l) = (IF c < l THEN c - l + WORD ELSE c - l)
         /\ Minus(c, l) \in Word
         /\ Minus(c, c) = 0
BY Residue DEF Minus, Word

(* One more event adds one to the difference, until that wraps too.        *)
LEMMA MinusInc ==
  ASSUME NEW c \in Word, NEW l \in Word
  PROVE  Minus(Inc(c), l) = IF Minus(c, l) = WORD - 1 THEN 0 ELSE Minus(c, l) + 1
<1> DEFINE d == Inc(c)
<1>1. d \in Word /\ d = (IF c = WORD - 1 THEN 0 ELSE c + 1)
  BY IncWord
<1>2. Minus(c, l) = (IF c < l THEN c - l + WORD ELSE c - l)
  BY MinusWord
<1> HIDE DEF d
<1>3. Minus(d, l) = (IF d < l THEN d - l + WORD ELSE d - l)
  BY <1>1, MinusWord
<1>4. Minus(d, l) = IF Minus(c, l) = WORD - 1 THEN 0 ELSE Minus(c, l) + 1
  BY <1>1, <1>2, <1>3 DEF Word
<1> QED
  BY <1>4 DEF d

-----------------------------------------------------------------------------
(* The places of the report that FirstActive can name.                     *)
Places == {"rx_queue_overflow", "error_event", "state_change", "tx_failure",
           "tx_slot_exhaustion", "receive"}

(* The least of some positions in ReportOrder is one of them.              *)
LEMMA MinPosition ==
  ASSUME NEW S \in SUBSET (1 .. 5), S # {}
  PROVE  Min(S) \in S
<1>1. \E x \in S : \A y \in S : x <= y
  <2>1. CASE 1 \in S
    BY <2>1
  <2>2. CASE 1 \notin S /\ 2 \in S
    BY <2>2
  <2>3. CASE 1 \notin S /\ 2 \notin S /\ 3 \in S
    BY <2>3
  <2>4. CASE 1 \notin S /\ 2 \notin S /\ 3 \notin S /\ 4 \in S
    BY <2>4
  <2>5. CASE \A y \in S : y = 5
    <3>1. PICK x \in S : TRUE
      OBVIOUS
    <3>2. x = 5
      BY <2>5
    <3> QED
      BY <2>5, <3>2
  <2> QED
    BY <2>1, <2>2, <2>3, <2>4, <2>5
<1> QED
  BY <1>1 DEF Min

(* The report goes on at a counter or is over.                             *)
LEMMA NextPlace ==
  ASSUME NEW n \in 1 .. 5
  PROVE  FirstActive(n) \in Places
<1> DEFINE left == {i \in n .. 5 : ReportOrder[i] \in active}
<1>1. left # {} => Min(left) \in 1 .. 5
  BY MinPosition
<1>2. FirstActive(n) = IF left = {} THEN "receive" ELSE ReportOrder[Min(left)]
  BY DEF FirstActive
<1>3. \A i \in 1 .. 5 : ReportOrder[i] \in Places
  BY DEF ReportOrder, Places
<1> HIDE DEF left
<1> QED
  BY <1>1, <1>2, <1>3 DEF Places

-----------------------------------------------------------------------------
(* The counters.                                                           *)

CountInv ==
  /\ count \in [CounterNames -> Word] /\ last \in [CounterNames -> Word]
  /\ unreported \in [CounterNames -> Word]
  /\ CountsAddUp

(* An interrupt that counts keeps the sums.                                *)
LEMMA InterruptCounts ==
  ASSUME CountInv, NEW k \in CounterNames, CountInterrupt(k)
  PROVE  CountInv'
<1>1. unreported[k] \in Word /\ unreported[k] < WORD - 1 /\ unreported[k] + 1 \in Word
  BY DEF CountInv, CountInterrupt, Word
<1>2. count[k] \in Word /\ last[k] \in Word /\ Inc(count[k]) \in Word
  BY IncWord DEF CountInv
<1>3. Minus(Inc(count[k]), last[k]) = unreported[k] + 1
  BY <1>1, <1>2, MinusInc DEF CountInv, CountsAddUp
<1> QED
  BY <1>1, <1>2, <1>3 DEF CountInv, CountsAddUp, CountInterrupt

(* A report of one counter keeps the sums.                                 *)
LEMMA ReportCounts ==
  ASSUME CountInv, NEW k \in CounterNames, ReportCounter(k)
  PROVE  CountInv'
<1>1. count[k] \in Word /\ 0 \in Word
  BY DEF CountInv, Word
<1>2. Minus(count[k], count[k]) = 0
  BY <1>1, MinusWord
<1>3. unreported[k] - Minus(count[k], last[k]) = 0
  BY DEF CountInv, CountsAddUp, Word
<1> QED
  BY <1>1, <1>2, <1>3 DEF CountInv, CountsAddUp, ReportCounter

-----------------------------------------------------------------------------
(* Flags, entries and the exhaustion counter.                              *)

(* Whatever is in s_error_flags_seen when it is cleared has been read, or  *)
(* was raised since.                                                       *)
FlagInv ==
  /\ FlagLossOnlyByRace
  /\ rx_pc = "flags_clear" => flags_seen \subseteq flags_read \cup raced

EntryInv ==
  /\ entry_count \in [NodeStates -> Word] /\ last_entry \in [NodeStates -> Word]
  /\ unreported_entry \in [NodeStates -> Word]
  /\ EntryLossOnlyByRace

(* Until two tasks are inside the increment at once, what a task has       *)
(* loaded is still the value of the word.                                  *)
NoSlotInv ==
  /\ exhaustion \in Word /\ last_exhaustion \in Word
  /\ loaded \in [TxTasks -> Word \cup {Nil}]
  /\ dropped_since \in Word \cup {Nil}
  /\ dropped_since = Nil \/ \A t \in TxTasks : loaded[t] \in {Nil, exhaustion}
  /\ DropsExactUnlessOverlapped

DiagInv == CountInv /\ FlagInv /\ EntryInv /\ NoSlotInv

(* The state after boot: all counters are 0.                               *)
LEMMA InitDiag == DiagInit => DiagInv
<1> SUFFICES ASSUME DiagInit PROVE DiagInv
  OBVIOUS
<1> USE DEF DiagInit
<1>0. 0 \in Word /\ Minus(0, 0) = 0
  BY MinusWord DEF Word
<1>1. CountInv
  BY <1>0 DEF CountInv, CountsAddUp
<1>2. FlagInv
  BY DEF FlagInv, FlagLossOnlyByRace
<1>3. EntryInv
  BY <1>0 DEF EntryInv, EntryLossOnlyByRace
<1>4. NoSlotInv
  BY <1>0 DEF NoSlotInv, DropsExactUnlessOverlapped
<1> QED
  BY <1>1, <1>2, <1>3, <1>4 DEF DiagInv

(* A step that leaves the counters alone keeps their invariant, ...        *)
LEMMA KeepCounts == CountInv /\ UNCHANGED <<wordVars, unreported>> => CountInv'
BY DEF CountInv, CountsAddUp, wordVars

(* ... one that leaves the flags alone and does not go on to clear them,   *)
(* theirs, ...                                                             *)
LEMMA KeepFlags ==
  FlagInv /\ UNCHANGED flagVars /\ (rx_pc' = rx_pc \/ rx_pc' # "flags_clear") => FlagInv'
BY DEF FlagInv, FlagLossOnlyByRace, flagVars

(* ... one that leaves the entries alone and does not end their report,    *)
(* theirs, ...                                                             *)
LEMMA KeepEntries ==
  EntryInv /\ UNCHANGED entryVars /\ (rx_pc' = rx_pc \/ rx_pc # "entries_save") => EntryInv'
BY DEF EntryInv, EntryLossOnlyByRace, entryVars

(* ... and one that counts no missing slot, the last.                      *)
LEMMA KeepNoSlot == NoSlotInv /\ UNCHANGED noSlotVars => NoSlotInv'
BY DEF NoSlotInv, DropsExactUnlessOverlapped, noSlotVars

(* The interrupts keep DiagInv.                                            *)
LEMMA InterruptDiag ==
  ASSUME DiagInv,
         \/ twai_rx_done_callback
         \/ twai_tx_done_failed
         \/ \E flags \in SUBSET Flags : twai_error_callback(flags)
         \/ \E s \in NodeStates : twai_state_change_callback(s)
  PROVE  DiagInv'
<1> USE DEF DiagInv
<1>1. CASE twai_rx_done_callback \/ twai_tx_done_failed
  <2>1. CountInv'
    BY <1>1, InterruptCounts, KeepCounts DEF twai_rx_done_callback, twai_tx_done_failed, CounterNames
  <2> QED
    BY <1>1, <2>1, KeepFlags, KeepEntries, KeepNoSlot DEF twai_rx_done_callback, twai_tx_done_failed
<1>2. ASSUME NEW flags \in SUBSET Flags, twai_error_callback(flags) PROVE DiagInv'
  <2>1. CountInv'
    BY <1>2, InterruptCounts DEF twai_error_callback, CounterNames
  <2>2. FlagInv'
    BY <1>2 DEF twai_error_callback, FlagInv, FlagLossOnlyByRace
  <2> QED
    BY <1>2, <2>1, <2>2, KeepEntries, KeepNoSlot DEF twai_error_callback
<1>3. ASSUME NEW s \in NodeStates, twai_state_change_callback(s) PROVE DiagInv'
  <2>1. CountInv'
    BY <1>3, InterruptCounts DEF twai_state_change_callback, CounterNames
  <2>2. EntryInv'
    <3>1. /\ entry_count[s] \in Word /\ last_entry[s] \in Word /\ Inc(entry_count[s]) \in Word
          /\ unreported_entry[s] \in Word
      BY IncWord DEF EntryInv
    <3>2. /\ unreported_entry[s] < WORD - 1
          /\ entry_count' = [entry_count EXCEPT ![s] = Inc(entry_count[s])]
          /\ unreported_entry' = [unreported_entry EXCEPT ![s] = unreported_entry[s] + 1]
          /\ last_entry' = last_entry /\ rx_pc' = rx_pc
      BY <1>3 DEF twai_state_change_callback
    <3>3. unreported_entry[s] + 1 \in Word
      BY <3>1, <3>2 DEF Word
    <3>4. entry_count' \in [NodeStates -> Word] /\ unreported_entry' \in [NodeStates -> Word]
      BY <3>1, <3>2, <3>3 DEF EntryInv
    <3>5. rx_pc # "entries_save" =>
            Minus(Inc(entry_count[s]), last_entry[s]) = unreported_entry[s] + 1
      BY <3>1, <3>2, MinusInc DEF EntryInv, EntryLossOnlyByRace, Word
    <3> QED
      BY <3>2, <3>4, <3>5 DEF EntryInv, EntryLossOnlyByRace
  <2> QED
    BY <1>3, <2>1, <2>2, KeepFlags, KeepNoSlot DEF twai_state_change_callback
<1> QED
  BY <1>1, <1>2, <1>3

(* A task that finds no slot keeps DiagInv.                                *)
LEMMA NoSlotDiag ==
  ASSUME DiagInv, NEW t \in TxTasks, LoadExhaustion(t) \/ StoreExhaustion(t)
  PROVE  DiagInv'
<1> USE DEF DiagInv
<1>1. NoSlotInv'
  <2>1. CASE LoadExhaustion(t)
    <3>1. /\ loaded' = [loaded EXCEPT ![t] = exhaustion]
          /\ UNCHANGED <<exhaustion, last_exhaustion, dropped_since>>
      BY <2>1 DEF LoadExhaustion
    <3> QED
      BY <3>1 DEF NoSlotInv, DropsExactUnlessOverlapped
  <2>2. CASE StoreExhaustion(t)
    <3> DEFINE others == \E u \in TxTasks \ {t} : loaded[u] # Nil
    <3>1. /\ loaded[t] \in Word
          /\ exhaustion' = Inc(loaded[t]) /\ last_exhaustion' = last_exhaustion
          /\ loaded' = [loaded EXCEPT ![t] = Nil]
          /\ dropped_since' = IF dropped_since = Nil \/ others THEN Nil ELSE Inc(dropped_since)
      BY <2>2 DEF StoreExhaustion, NoSlotInv
    <3>2. Inc(loaded[t]) \in Word
      BY <3>1, IncWord
    <3>3. dropped_since # Nil =>
            /\ loaded[t] = exhaustion
            /\ dropped_since \in Word /\ Inc(dropped_since) \in Word
            /\ dropped_since = Minus(exhaustion, last_exhaustion)
      BY <3>1, IncWord DEF NoSlotInv, DropsExactUnlessOverlapped, Word, Nil
    <3>4. dropped_since # Nil => Minus(Inc(loaded[t]), last_exhaustion) = Inc(dropped_since)
      <4>1. exhaustion \in Word /\ last_exhaustion \in Word
        BY DEF NoSlotInv
      <4> QED
        BY <3>3, <4>1, MinusInc, IncWord
    <3>5. ~others => \A u \in TxTasks : loaded'[u] = Nil
      BY <3>1 DEF NoSlotInv
    <3>6. loaded' \in [TxTasks -> Word \cup {Nil}]
      BY <3>1 DEF NoSlotInv
    <3> HIDE DEF others
    <3>7. /\ dropped_since' \in Word \cup {Nil}
          /\ dropped_since' = Nil \/ \A u \in TxTasks : loaded'[u] \in {Nil, exhaustion'}
          /\ dropped_since' \in {Nil, Minus(exhaustion', last_exhaustion')}
      <4>1. CASE dropped_since = Nil \/ others
        BY <3>1, <4>1
      <4>2. CASE dropped_since # Nil /\ ~others
        BY <3>1, <3>3, <3>4, <3>5, <4>2
      <4> QED
        BY <4>1, <4>2
    <3> QED
      BY <3>1, <3>2, <3>6, <3>7 DEF NoSlotInv, DropsExactUnlessOverlapped
  <2> QED
    BY <2>1, <2>2
<1> QED
  BY <1>1, KeepCounts, KeepFlags, KeepEntries DEF LoadExhaustion, StoreExhaustion

(* can_rx_task keeps DiagInv.                                              *)
LEMMA RxTaskDiag ==
  ASSUME DiagInv, RxTask
  PROVE  DiagInv'
<1> USE DEF DiagInv
<1>0. \A n \in 1 .. 5 : FirstActive(n) \in Places
  BY NextPlace
<1>1. CASE Receive
  BY <1>1, KeepCounts, KeepFlags, KeepEntries, KeepNoSlot DEF Receive
<1>2. CASE CheckReport
  BY <1>0, <1>2, KeepCounts, KeepFlags, KeepEntries, KeepNoSlot DEF CheckReport, Places
<1>3. CASE ReportOverflow
  <2>1. CountInv'
    BY <1>3, ReportCounts DEF ReportOverflow, CounterNames
  <2> QED
    BY <1>0, <1>3, <2>1, KeepFlags, KeepEntries, KeepNoSlot DEF ReportOverflow, Places
<1>4. CASE ReportErrors
  <2>1. CountInv'
    BY <1>4, ReportCounts DEF ReportErrors, CounterNames
  <2> QED
    BY <1>0, <1>4, <2>1, KeepFlags, KeepEntries, KeepNoSlot DEF ReportErrors, Places
<1>5. CASE ReadFlags
  <2>1. FlagInv'
    BY <1>5 DEF ReadFlags, FlagInv, FlagLossOnlyByRace
  <2> QED
    BY <1>5, <2>1, KeepCounts, KeepEntries, KeepNoSlot DEF ReadFlags
<1>6. CASE ClearFlags
  <2>1. FlagInv'
    BY <1>0, <1>6 DEF ClearFlags, FlagInv, FlagLossOnlyByRace, Places
  <2> QED
    BY <1>6, <2>1, KeepCounts, KeepEntries, KeepNoSlot DEF ClearFlags
<1>7. CASE ReportStateChanges
  <2>1. CountInv'
    BY <1>7, ReportCounts DEF ReportStateChanges, CounterNames
  <2> QED
    BY <1>0, <1>7, <2>1, KeepFlags, KeepEntries, KeepNoSlot DEF ReportStateChanges, Places
<1>8. CASE ReadEntries
  <2>1. ASSUME NEW s \in NodeStates
        PROVE  unreported_entry[s] - Minus(entry_count[s], last_entry[s]) = 0
    BY <1>8 DEF ReadEntries, EntryInv, EntryLossOnlyByRace, Word
  <2>2. EntryInv'
    BY <1>8, <2>1 DEF ReadEntries, EntryInv, EntryLossOnlyByRace, Word
  <2> QED
    BY <1>8, <2>2, KeepCounts, KeepFlags, KeepNoSlot DEF ReadEntries
<1>9. CASE SaveEntries
  <2>1. \A s \in NodeStates : Minus(entry_count[s], entry_count[s]) = 0
    BY MinusWord DEF EntryInv
  <2>2. EntryInv'
    BY <1>9, <2>1 DEF SaveEntries, EntryInv, EntryLossOnlyByRace, Word
  <2> QED
    BY <1>0, <1>9, <2>2, KeepCounts, KeepFlags, KeepNoSlot DEF SaveEntries, Places
<1>10. CASE ReportTxFailures
  <2>1. CountInv'
    BY <1>10, ReportCounts DEF ReportTxFailures, CounterNames
  <2> QED
    BY <1>0, <1>10, <2>1, KeepFlags, KeepEntries, KeepNoSlot DEF ReportTxFailures, Places
<1>11. CASE ReportExhaustion
  <2>1. NoSlotInv'
    <3>1. exhaustion \in Word /\ Minus(exhaustion, exhaustion) = 0 /\ 0 \in Word
      BY MinusWord DEF NoSlotInv, Word
    <3>2. /\ last_exhaustion' = exhaustion /\ UNCHANGED <<exhaustion, loaded>>
          /\ dropped_since' = IF dropped_since = Nil /\ \E t \in TxTasks : loaded[t] # Nil
                              THEN Nil ELSE 0
      BY <1>11 DEF ReportExhaustion
    <3> QED
      BY <3>1, <3>2 DEF NoSlotInv, DropsExactUnlessOverlapped
  <2> QED
    BY <1>11, <2>1, KeepCounts, KeepFlags, KeepEntries DEF ReportExhaustion
<1> QED
  BY <1>1, <1>2, <1>3, <1>4, <1>5, <1>6, <1>7, <1>8, <1>9, <1>10, <1>11 DEF RxTask

(* Every step of can_bus.c keeps DiagInv.                                  *)
LEMMA StepDiag == DiagInv /\ [BusNext]_busVars => DiagInv'
<1> SUFFICES ASSUME DiagInv, [BusNext]_busVars PROVE DiagInv'
  OBVIOUS
<1>0. ASSUME UNCHANGED diagVars PROVE DiagInv'
  BY <1>0, KeepCounts, KeepFlags, KeepEntries, KeepNoSlot DEF DiagInv, diagVars
<1>1. ASSUME NEW t \in Tasks, NEW p \in PayloadsOf[t], StartTransmit(t, p) PROVE DiagInv'
  BY <1>0, <1>1 DEF StartTransmit
<1>2. ASSUME NEW t \in Tasks, TransmitStep(t) PROVE DiagInv'
  BY <1>0, <1>2, NoSlotDiag, CanBusConstants DEF TransmitStep, FindNoSlot, CountNoSlot, IfActive
<1>3. ASSUME NEW i \in Slots, NEW ok \in BOOLEAN, TransmitDone(i, ok) PROVE DiagInv'
  BY <1>0, <1>3, InterruptDiag DEF TransmitDone, IfActive
<1>4. CASE LeaveBus
  BY <1>0, <1>4, InterruptDiag, CanBusConstants DEF LeaveBus, IfActive
<1>5. CASE OtherInterrupt
  BY <1>5, InterruptDiag DEF OtherInterrupt
<1>6. CASE Report
  BY <1>6, RxTaskDiag DEF Report
<1>7. CASE ReportDue
  BY <1>7, KeepCounts, KeepFlags, KeepEntries, KeepNoSlot DEF ReportDue, PeriodElapses, DiagInv
<1>8. CASE UNCHANGED busVars
  BY <1>0, <1>8 DEF busVars
<1> QED
  BY <1>1, <1>2, <1>3, <1>4, <1>5, <1>6, <1>7, <1>8 DEF BusNext

(* All of DiagInv holds always.                                            *)
LEMMA DiagAlways == BusSpec => []DiagInv
<1>1. BusInit => DiagInv
  BY InitDiag DEF BusInit
<1> QED
  BY <1>1, StepDiag, PTL DEF BusSpec

(* report_isr_diagnostics loses and repeats no count, with any word width, *)
(* wherever interrupts come between its accesses.                          *)
THEOREM CountsExact == BusSpec => []CountsAddUp
<1>1. DiagInv => CountsAddUp
  BY DEF DiagInv, CountInv
<1> QED
  BY <1>1, DiagAlways, PTL

(* It loses an error flag only to an interrupt between the read and the    *)
(* clear of s_error_flags_seen, whatever flags the driver has.             *)
THEOREM FlagLoss == BusSpec => []FlagLossOnlyByRace
<1>1. DiagInv => FlagLossOnlyByRace
  BY DEF DiagInv, FlagInv
<1> QED
  BY <1>1, DiagAlways, PTL

(* It loses an entry into a node state only between its two readings of    *)
(* the word in s_state_entry_count, and reports none twice.                *)
THEOREM EntryLoss == BusSpec => []EntryLossOnlyByRace
<1>1. DiagInv => EntryLossOnlyByRace
  BY DEF DiagInv, EntryInv
<1> QED
  BY <1>1, DiagAlways, PTL

(* However many tasks run out of slots, s_tx_slot_exhaustion_count is      *)
(* exact until two of them are inside the increment at once, and again     *)
(* once a report has found none inside it.                                 *)
THEOREM DropsCounted == BusSpec => []DropsExactUnlessOverlapped
<1>1. DiagInv => DropsExactUnlessOverlapped
  BY DEF DiagInv, NoSlotInv
<1> QED
  BY <1>1, DiagAlways, PTL
=============================================================================
