--------------------------- MODULE DiagLogProofs ----------------------------
(***************************************************************************)
(* The ring of DiagLog holds the newest events for every capacity, and a     *)
(* view of it the newest of those for every limit.                         *)
(***************************************************************************)
EXTENDS DiagLog, SequenceTheorems, TLAPS

USE DiagLogConstants

(* A ring index in its first lap.                                          *)
LEMMA ModSmall ==
  ASSUME NEW a \in Nat, a < CAPACITY
  PROVE  a % CAPACITY = a
OBVIOUS

(* A ring index in its second lap.                                         *)
LEMMA ModWrap ==
  ASSUME NEW a \in Nat, CAPACITY <= a, a < CAPACITY + CAPACITY
  PROVE  a % CAPACITY = a - CAPACITY
OBVIOUS

(* The empty ring.                                                         *)
LEMMA InitIInv == Init => IInv
<1> SUFFICES ASSUME Init PROVE IInv
  OBVIOUS
<1>1. NoEvent \in EventRecord
  BY DEF NoEvent, EventRecord
<1>2. TypeOK
  BY <1>1 DEF Init, TypeOK
<1>3. SlotContent
  BY DEF Init, SlotContent
<1> QED
  BY <1>2, <1>3 DEF IInv

(* Recording an event: the ring forgets its oldest event, if it is full,   *)
(* and nothing else.                                                       *)
LEMMA RecordIInv ==
  ASSUME IInv, NEW t \in Tasks, meb_diag_record_event(t)
  PROVE  IInv'
<1> DEFINE event == [item[t] EXCEPT !.seq = s_next_seq]
<1> USE DEF IInv
<1>0. /\ s_events' = [s_events EXCEPT ![s_next_index] = event]
      /\ recorded' = Append(recorded, event)
      /\ item' = [item EXCEPT ![t] = NoEvent]
  BY DEF meb_diag_record_event
<1>n. s_next_seq' = s_next_seq + 1 /\ uptime' = uptime
  BY DEF meb_diag_record_event
<1>m. s_next_index' = (s_next_index + 1) % CAPACITY
  BY DEF meb_diag_record_event
<1>t. /\ s_next_seq \in Nat \ {0} /\ s_event_count \in 0 .. CAPACITY
      /\ s_overwritten \in Nat /\ s_next_index \in 0 .. CAPACITY - 1
      /\ uptime \in Nat
      /\ s_events \in [0 .. CAPACITY - 1 -> EventRecord] /\ recorded \in Seq(EventRecord)
      /\ item \in [Tasks -> EventRecord]
  BY DEF TypeOK
<1>s. /\ s_event_count < CAPACITY => s_next_index = s_event_count /\ s_overwritten = 0
      /\ s_next_seq = s_event_count + s_overwritten + 1
      /\ Len(recorded) = s_next_seq - 1
  BY DEF SlotContent
<1>1. \/ /\ s_event_count < CAPACITY
         /\ s_event_count' = s_event_count + 1 /\ s_overwritten' = s_overwritten
      \/ /\ s_event_count = CAPACITY
         /\ s_event_count' = s_event_count /\ s_overwritten' = s_overwritten + 1
  BY <1>t DEF meb_diag_record_event
<1>2. event \in EventRecord /\ NoEvent \in EventRecord
  BY <1>t DEF EventRecord, NoEvent
<1> HIDE DEF event
<1>3. s_next_index' = IF s_next_index + 1 = CAPACITY THEN 0 ELSE s_next_index + 1
  <2>1. CASE s_next_index + 1 = CAPACITY
    BY <2>1, <1>m, <1>t, ModWrap
  <2>2. CASE s_next_index + 1 # CAPACITY
    BY <2>2, <1>m, <1>t, ModSmall
  <2> QED
    BY <2>1, <2>2
<1>4. TypeOK'
  <2>1. s_events' \in [0 .. CAPACITY - 1 -> EventRecord] /\ recorded' \in Seq(EventRecord)
    BY <1>0, <1>2, <1>t
  <2>2. item' \in [Tasks -> EventRecord]
    BY <1>0, <1>2, <1>t
  <2>3. /\ s_event_count' \in 0 .. CAPACITY /\ s_next_index' \in 0 .. CAPACITY - 1
        /\ s_next_seq' \in Nat \ {0} /\ s_overwritten' \in Nat /\ uptime' \in Nat
    BY <1>n, <1>1, <1>3, <1>t
  <2> QED
    BY <2>1, <2>2, <2>3 DEF TypeOK
<1>5. /\ Len(recorded') = Len(recorded) + 1
      /\ recorded'[s_next_seq] = event
      /\ \A k \in 1 .. s_next_seq - 1 : recorded'[k] = recorded[k]
  <2>1. /\ Len(recorded) \in Nat
        /\ Len(Append(recorded, event)) = Len(recorded) + 1
        /\ Append(recorded, event)[Len(recorded) + 1] = event
        /\ \A k \in 1 .. Len(recorded) : Append(recorded, event)[k] = recorded[k]
    BY <1>2, <1>t
  <2>2. s_next_seq = Len(recorded) + 1
    BY <1>s, <1>t, <2>1
  <2> QED
    BY <2>1, <2>2, <1>0
<1>6. ASSUME NEW j \in 0 .. CAPACITY - 1
      PROVE  s_events'[j] = IF j < s_next_index' THEN recorded'[s_next_seq' - s_next_index' + j]
                            ELSE IF s_event_count' = CAPACITY
                                 THEN recorded'[s_next_seq' - s_next_index' + j - CAPACITY]
                                 ELSE NoEvent
  <2>1. s_events'[j] = IF j = s_next_index THEN event ELSE s_events[j]
    BY <1>0, <1>t
  <2>2. s_events[j] = IF j < s_next_index THEN recorded[s_next_seq - s_next_index + j]
                      ELSE IF s_event_count = CAPACITY
                           THEN recorded[s_next_seq - s_next_index + j - CAPACITY]
                           ELSE NoEvent
    BY DEF SlotContent
  <2>3. s_next_seq' = s_next_seq + 1
    BY <1>n
  <2>4. CASE s_next_index + 1 = CAPACITY
    <3>1. s_next_index' = 0 /\ s_event_count' = CAPACITY
      BY <2>4, <1>1, <1>3, <1>s, <1>t
    <3>2. s_next_seq' - s_next_index' + j - CAPACITY = s_next_seq - s_next_index + j
      BY <2>3, <2>4, <3>1, <1>t
    <3>3. s_events'[j] = recorded'[s_next_seq - s_next_index + j]
      BY <2>1, <2>2, <2>4, <1>5, <1>s, <1>t, SMTT(60)
    <3> QED
      BY <3>1, <3>2, <3>3
  <2>5. CASE s_next_index + 1 # CAPACITY
    <3>1. s_next_index' = s_next_index + 1
      BY <2>5, <1>3
    <3>2. s_next_seq' - s_next_index' + j = s_next_seq - s_next_index + j
      BY <2>3, <3>1, <1>t
    <3>3. CASE j <= s_next_index
      <4>1. CASE j = s_next_index
        <5>1. s_next_seq - s_next_index + j = s_next_seq
          BY <4>1, <1>t
        <5> QED
          BY <4>1, <5>1, <3>1, <3>2, <2>1, <1>5, <1>t
      <4>2. CASE j < s_next_index
        <5>1. s_next_seq - s_next_index + j \in 1 .. s_next_seq - 1
          BY <4>2, <1>s, <1>t
        <5> QED
          BY <4>2, <5>1, <3>1, <3>2, <2>1, <2>2, <1>5, <1>t
      <4> QED
        BY <4>1, <4>2, <3>3, <1>t
    <3>4. CASE j > s_next_index
      <4>1. (s_event_count' = CAPACITY) <=> (s_event_count = CAPACITY)
        BY <2>5, <1>1, <1>s, <1>t
      <4>2. s_event_count = CAPACITY =>
              recorded'[s_next_seq - s_next_index + j - CAPACITY]
                = recorded[s_next_seq - s_next_index + j - CAPACITY]
        BY <3>4, <1>5, <1>s, <1>t
      <4>3. s_events'[j] = s_events[j]
        BY <3>4, <2>1, <1>t
      <4>4. ~(j < s_next_index) /\ ~(j < s_next_index')
        BY <3>1, <3>4, <1>t
      <4>5. s_next_seq' - s_next_index' + j - CAPACITY = s_next_seq - s_next_index + j - CAPACITY
        BY <3>1, <2>3, <1>t
      <4>6. CASE s_event_count = CAPACITY
        <5>1. s_events[j] = recorded[s_next_seq - s_next_index + j - CAPACITY]
          BY <4>4, <4>6, <2>2
        <5>2. s_events'[j] = recorded'[s_next_seq' - s_next_index' + j - CAPACITY]
          BY <5>1, <4>2, <4>3, <4>5, <4>6
        <5> QED
          BY <5>2, <4>1, <4>4, <4>6
      <4>7. CASE s_event_count # CAPACITY
        <5>1. s_events'[j] = NoEvent
          BY <4>3, <4>4, <4>7, <2>2
        <5> QED
          BY <5>1, <4>1, <4>4, <4>7
      <4> QED
        BY <4>6, <4>7
    <3> QED
      BY <3>3, <3>4, <1>t
  <2> QED
    BY <2>4, <2>5
<1>7. SlotContent'
  <2>1. /\ s_event_count' < CAPACITY => s_next_index' = s_event_count' /\ s_overwritten' = 0
        /\ s_next_seq' = s_event_count' + s_overwritten' + 1
        /\ Len(recorded') = s_next_seq' - 1
    <3>1. Len(recorded') = Len(recorded) + 1
      BY <1>5
    <3> QED
      BY <3>1, <1>n, <1>1, <1>3, <1>s, <1>t
  <2> QED
    BY <2>1, <1>6 DEF SlotContent
<1> QED
  BY <1>4, <1>7 DEF IInv

(* Every step keeps the ring in order.                                     *)
LEMMA StepIInv == IInv /\ [Next]_vars => IInv'
<1> SUFFICES ASSUME IInv, [Next]_vars PROVE IInv'
  OBVIOUS
<1>1. CASE \E t \in Tasks : meb_diag_record_event(t)
  BY <1>1, RecordIInv
<1>2. CASE (\E t \in Tasks : FillEvent(t)) \/ Tick
  <2>1. UNCHANGED <<s_events, s_event_count, s_next_index, s_next_seq, s_overwritten, recorded>>
    BY <1>2 DEF FillEvent, Tick, ring
  <2>2. item' \in [Tasks -> EventRecord] /\ uptime' \in Nat
    <3>1. uptime \in Nat /\ item \in [Tasks -> EventRecord]
      BY DEF IInv, TypeOK
    <3>2. \A t \in Tasks : [seq |-> 0, uptime_ms |-> uptime, component |-> t] \in EventRecord
      BY <3>1 DEF EventRecord
    <3> QED
      BY <1>2, <3>1, <3>2 DEF FillEvent, Tick
  <2>3. TypeOK'
    BY <2>1, <2>2 DEF IInv, TypeOK
  <2>4. SlotContent'
    BY <2>1 DEF IInv, SlotContent
  <2> QED
    BY <2>3, <2>4 DEF IInv
<1>3. CASE UNCHANGED vars
  BY <1>3 DEF vars, ring, IInv, TypeOK, SlotContent
<1> QED
  BY <1>1, <1>2, <1>3 DEF Next

(* What a reader of the ring gets.                                         *)
LEMMA ReadsRecentHistory == IInv => LogIsRecentHistory
<1> SUFFICES ASSUME IInv PROVE LogIsRecentHistory
  OBVIOUS
<1> USE DEF IInv
<1> DEFINE first == (s_next_index + CAPACITY - s_event_count) % CAPACITY
<1>0. /\ s_event_count \in 0 .. CAPACITY /\ s_overwritten \in Nat
      /\ s_next_index \in 0 .. CAPACITY - 1
      /\ s_event_count < CAPACITY => s_next_index = s_event_count /\ s_overwritten = 0
      /\ s_next_seq = s_event_count + s_overwritten + 1
      /\ Len(recorded) = s_event_count + s_overwritten
      /\ recorded \in Seq(EventRecord)
  BY DEF SlotContent, TypeOK
<1>1. first = IF s_event_count < CAPACITY THEN 0 ELSE s_next_index
  BY <1>0, ModSmall, ModWrap
<1>2. ASSUME NEW i \in 1 .. s_event_count
      PROVE  s_events[(first + i - 1) % CAPACITY] = recorded[s_overwritten + i]
  <2> DEFINE k == first + i - 1
  <2>1. k \in Nat /\ k < CAPACITY + CAPACITY
    BY <1>0, <1>1
  <2>2. CASE k < CAPACITY
    <3>1. k % CAPACITY = k
      BY <2>1, <2>2, ModSmall
    <3>2. k \in 0 .. CAPACITY - 1
      BY <2>1, <2>2
    <3> HIDE DEF k
    <3>3. s_events[k] = IF k < s_next_index THEN recorded[s_next_seq - s_next_index + k]
                        ELSE IF s_event_count = CAPACITY
                             THEN recorded[s_next_seq - s_next_index + k - CAPACITY]
                             ELSE NoEvent
      BY <3>2 DEF SlotContent
    <3> USE DEF k
    <3> QED
      BY <3>1, <3>3, <1>0, <1>1
  <2>3. CASE k >= CAPACITY
    <3>1. k % CAPACITY = k - CAPACITY
      BY <2>1, <2>3, ModWrap
    <3>2. k - CAPACITY \in 0 .. CAPACITY - 1 /\ k - CAPACITY < s_next_index
      BY <2>1, <2>3, <1>0, <1>1
    <3>3. s_events[k - CAPACITY] = recorded[s_next_seq - s_next_index + (k - CAPACITY)]
      BY <3>2 DEF SlotContent
    <3>4. s_event_count = CAPACITY /\ first = s_next_index
      BY <2>3, <1>0, <1>1
    <3>5. s_next_seq - s_next_index + (k - CAPACITY) = s_overwritten + i
      BY <3>4, <1>0
    <3> QED
      BY <3>1, <3>3, <3>5
  <2> QED
    BY <2>1, <2>2, <2>3
<1>3. meb_diag_get_events = [i \in 1 .. s_event_count |-> recorded[s_overwritten + i]]
  BY <1>2 DEF meb_diag_get_events
<1>4. SubSeq(recorded, s_overwritten + 1, Len(recorded))
        = [i \in 1 .. s_event_count |-> recorded[s_overwritten + i]]
  BY <1>0
<1> QED
  BY <1>0, <1>3, <1>4 DEF LogIsRecentHistory

(* For every capacity the log is the newest events ever recorded, in order,*)
(* and counts what it lost.                                                *)
THEOREM RecentHistory == Spec => []LogIsRecentHistory
<1>1. Init => IInv
  BY InitIInv
<1>2. IInv /\ [Next]_vars => IInv'
  BY StepIInv
<1> QED
  BY <1>1, <1>2, ReadsRecentHistory, PTL DEF Spec

(* A part of a sequence: the k elements after the first a.                 *)
LEMMA Part ==
  ASSUME NEW S, NEW s \in Seq(S), NEW a \in Nat, NEW k \in Nat, a + k <= Len(s)
  PROVE  /\ SubSeq(s, a + 1, a + k) \in Seq(S)
         /\ Len(SubSeq(s, a + 1, a + k)) = k
         /\ \A i \in 1 .. k : SubSeq(s, a + 1, a + k)[i] = s[a + i]
<1>1. Len(s) \in Nat /\ \A i \in 1 .. Len(s) : s[i] \in S
  OBVIOUS
<1>2. SubSeq(s, a + 1, a + k) = [i \in 1 .. k |-> s[a + i]]
  OBVIOUS
<1>3. \A i \in 1 .. k : s[a + i] \in S
  BY <1>1
<1>4. [i \in 1 .. k |-> s[a + i]] \in Seq(S) /\ Len([i \in 1 .. k |-> s[a + i]]) = k
  BY <1>3
<1> QED
  BY <1>2, <1>4

(* The end of the end of a sequence.                                       *)
LEMMA EndOfEnd ==
  ASSUME NEW S, NEW s \in Seq(S), NEW o \in Nat, NEW m \in Nat, o + m = Len(s),
         NEW n \in 0 .. m
  PROVE  /\ Len(SubSeq(SubSeq(s, o + 1, Len(s)), m - n + 1, m)) = n
         /\ SubSeq(SubSeq(s, o + 1, Len(s)), m - n + 1, m) = SubSeq(s, Len(s) - n + 1, Len(s))
<1> DEFINE end == SubSeq(s, o + 1, o + m)
           d == m - n
           x == SubSeq(end, d + 1, d + n)
           y == SubSeq(s, (o + d) + 1, (o + d) + n)
<1>1. n \in Nat /\ d \in Nat /\ d + n = m /\ o + d \in Nat /\ (o + d) + n = Len(s)
  OBVIOUS
<1>2. Len(s) - n + 1 = (o + d) + 1
  OBVIOUS
<1> HIDE DEF d
<1>3. end \in Seq(S) /\ Len(end) = m /\ \A i \in 1 .. m : end[i] = s[o + i]
  BY Part
<1> HIDE DEF end
<1>4. x \in Seq(S) /\ Len(x) = n /\ \A i \in 1 .. n : x[i] = end[d + i]
  BY <1>1, <1>3, Part, SMTT(60)
<1>5. y \in Seq(S) /\ Len(y) = n /\ \A i \in 1 .. n : y[i] = s[(o + d) + i]
  BY <1>1, Part
<1> HIDE DEF x, y
<1>6. \A i \in 1 .. n : x[i] = y[i]
  <2> TAKE i \in 1 .. n
  <2>1. d + i \in 1 .. m /\ o + (d + i) = (o + d) + i
    BY <1>1
  <2> QED
    BY <1>3, <1>4, <1>5, <2>1
<1>7. x = y
  BY <1>4, <1>5, <1>6, SeqEqual
<1> QED
  BY <1>1, <1>2, <1>4, <1>7 DEF x, y, end, d

(* device.events and device.diagnostics return the newest events, as many  *)
(* as asked for and available up to the cap, for every limit, cap and      *)
(* capacity.                                                               *)
THEOREM RecentView == Spec => []ViewIsMostRecent
<1>1. IInv => ViewIsMostRecent
  <2> SUFFICES ASSUME IInv, NEW limit \in 0 .. MAX_LIMIT + 1
               PROVE  LET n == Len(format_event_log_json(limit)) IN
                      /\ n <= limit /\ n <= MAX_LIMIT
                      /\ n < limit /\ n < MAX_LIMIT => n = s_event_count
                      /\ format_event_log_json(limit)
                           = SubSeq(recorded, Len(recorded) - n + 1, Len(recorded))
    BY DEF ViewIsMostRecent
  <2> DEFINE capped == IF limit > MAX_LIMIT THEN MAX_LIMIT ELSE limit
             returned == IF capped > s_event_count THEN s_event_count ELSE capped
  <2>1. /\ s_event_count \in Nat /\ s_overwritten \in Nat /\ recorded \in Seq(EventRecord)
    BY DEF IInv, TypeOK
  <2>2. /\ s_overwritten + s_event_count = Len(recorded)
        /\ meb_diag_get_events = SubSeq(recorded, s_overwritten + 1, Len(recorded))
    BY <2>1, ReadsRecentHistory DEF LogIsRecentHistory
  <2>3. /\ returned \in 0 .. s_event_count /\ returned <= limit /\ returned <= MAX_LIMIT
        /\ returned < limit /\ returned < MAX_LIMIT => returned = s_event_count
    BY <2>1
  <2> DEFINE view == SubSeq(SubSeq(recorded, s_overwritten + 1, Len(recorded)),
                            s_event_count - returned + 1, s_event_count)
  <2>4. format_event_log_json(limit) = view
    BY <2>2 DEF format_event_log_json
  <2> HIDE DEF returned
  <2>5. Len(view) = returned /\ view = SubSeq(recorded, Len(recorded) - returned + 1, Len(recorded))
    <3>1. returned \in 0 .. s_event_count
      BY <2>3
    <3> QED
      BY <2>1, <2>2, <3>1, EndOfEnd, SMTT(60)
  <2> HIDE DEF view
  <2>6. view = SubSeq(recorded, Len(recorded) - Len(view) + 1, Len(recorded))
    BY <2>5
  <2> QED
    BY <2>3, <2>4, <2>5, <2>6
<1>2. Init => IInv
  BY InitIInv
<1>3. IInv /\ [Next]_vars => IInv'
  BY StepIInv
<1> QED
  BY <1>1, <1>2, <1>3, PTL DEF Spec
=============================================================================
