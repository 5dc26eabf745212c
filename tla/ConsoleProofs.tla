--------------------------- MODULE ConsoleProofs ----------------------------
(***************************************************************************)
(* The consoles, for any sizes of their buffers, queues and tables.        *)
(*                                                                         *)
(* Input: a patient host's lines are processed exactly, and a damaged line *)
(* harms nothing but itself and the line after it.                         *)
(*                                                                         *)
(* Output, for lines of any number of pieces: the peer table has exactly   *)
(* the live connections, the device stays reachable, lines do not mix on   *)
(* the UART, and a BLE client gets whole lines but for those a             *)
(* notification failed for and those begun before it came.                 *)
(***************************************************************************)
EXTENDS ConsoleInput, ConsoleOutput, FiniteSetTheorems, TLAPS

-----------------------------------------------------------------------------
(* The bytes of the lines sent, in the order they were sent.               *)
Char == {"{", "x", "\n"}
Byte == [line : Nat, at : Nat, c : Char]
ByteAt(n, p) ==
  [line |-> n, at |-> p, c |-> IF p <= Len(sent[n]) THEN sent[n][p] ELSE "\n"]
Valid(b) ==
  /\ b.line \in 1 .. Len(sent) /\ b.at \in 1 .. Len(sent[b.line]) + 1
  /\ b = ByteAt(b.line, b.at)
Before(x, y) == x.line < y.line \/ (x.line = y.line /\ x.at < y.at)

InputTypes ==
  /\ console \in {"uart", "ble"} /\ patient \in BOOLEAN
  /\ wire \in Seq(Byte) /\ ring \in Seq(Byte) /\ data \in Seq(Byte) /\ line \in Seq(Byte)
  /\ s_command_queue \in Seq(Seq(Byte)) /\ processed \in Seq(Seq(Byte))
  /\ refused \in SUBSET Seq(Byte)
  /\ seen \in Byte /\ sent \in Seq(Requests)
  /\ Len(ring) <= HOST_UART_RX_BUF_SIZE /\ (console = "ble" => ring = <<>>)

(* What is in flight comes after what was looked at, in order, and what is *)
(* missing was lost.                                                       *)
Ordered(s) == \A i, j \in DOMAIN s : i < j => Before(s[i], s[j])
AllBefore(X, Y) == \A x \in X, y \in Y : Before(x, y)
InFlight == ToSet(data) \cup ToSet(ring) \cup ToSet(wire)

StreamInv ==
  /\ seen = Origin \/ Valid(seen)
  /\ Ordered(data) /\ Ordered(ring) /\ Ordered(wire)
  /\ \A b \in InFlight : Valid(b) /\ Before(seen, b)
  /\ AllBefore(ToSet(data), ToSet(ring)) /\ AllBefore(ToSet(data), ToSet(wire))
  /\ AllBefore(ToSet(ring), ToSet(wire))
  /\ \A b \in ToSet(wire) : b.line = Len(sent)

LossInv ==
  \A n \in 1 .. Len(sent) : \A p \in 1 .. Len(sent[n]) + 1 :
    Before(seen, ByteAt(n, p)) => Torn(n) \/ ByteAt(n, p) \in InFlight

(* A buffer that is not the beginning of a line holds spoilt lines only.   *)
Beginning(s, n) == Len(s) <= Len(sent[n]) /\ \A i \in 1 .. Len(s) : s[i] = ByteAt(n, i)
AllSpoilt(s) == \A i \in DOMAIN s : Spoilt(s[i].line)
LineInv ==
  line # <<>> =>
    /\ seen = line[Len(line)] /\ seen.c # "\n" /\ \A i \in DOMAIN line : Valid(line[i])
    /\ Beginning(line, seen.line) \/ AllSpoilt(line)

(* Lines that are not spoilt get through.                                  *)
Taken == ToSet(processed) \cup ToSet(s_command_queue) \cup refused
Passed(n) == seen.line > n \/ (seen.line = n /\ seen.at = Len(sent[n]) + 1)
GoodInv ==
  \A n \in 1 .. Len(sent) : ~Spoilt(n) =>
    /\ seen.line = n /\ seen.at <= Len(sent[n]) => line # <<>> /\ Beginning(line, n)
    /\ Passed(n) => Command(n) \in Taken

TakenInv ==
  \A c \in Taken :
    /\ c # <<>> /\ \A i \in DOMAIN c : Valid(c[i])
    /\ c = Command(Last(c).line) \/ AllSpoilt(c)

InputInv == InputTypes /\ StreamInv /\ LossInv /\ LineInv /\ GoodInv /\ TakenInv

(* With a patient host, the last line is under way, or it waits, or it has *)
(* been processed.                                                         *)
Idle == line = <<>> /\ data = <<>> /\ ring = <<>> /\ wire = <<>>
Placed(s, o, n) == \A i \in 1 .. Len(s) : s[i] = ByteAt(n, o + i)
Segments(l, x, y, z, n) ==
  /\ Len(l) + Len(x) + Len(y) + Len(z) = Len(sent[n]) + 1 /\ Len(l) <= Len(sent[n])
  /\ Placed(l, 0, n) /\ Placed(x, Len(l), n) /\ Placed(y, Len(l) + Len(x), n)
  /\ Placed(z, Len(l) + Len(x) + Len(y), n)
UnderWay(n) == Segments(line, data, ring, wire, n)
PatientInv ==
  patient =>
    /\ refused = {} /\ overrun = {} /\ cut = {}
    /\ \A i \in DOMAIN processed : processed[i] = Command(i)
    /\ \A n \in DOMAIN sent : Len(sent[n]) < CMD_RX_BUF_SIZE
    /\ \/ Len(processed) = Len(sent) /\ Idle /\ s_command_queue = <<>>
       \/ /\ Len(sent) > 0 /\ Len(processed) = Len(sent) - 1
          /\ \/ s_command_queue = <<>> /\ UnderWay(Len(sent))
             \/ s_command_queue = <<Command(Len(sent))>> /\ Idle

-----------------------------------------------------------------------------
(* A sequence in two parts.                                                *)
LEMMA Parts ==
  ASSUME NEW S, NEW s \in Seq(S), NEW n \in 0 .. Len(s)
  PROVE  /\ SubSeq(s, 1, n) \in Seq(S) /\ Len(SubSeq(s, 1, n)) = n
         /\ \A i \in 1 .. n : SubSeq(s, 1, n)[i] = s[i]
         /\ SubSeq(s, n + 1, Len(s)) \in Seq(S) /\ Len(SubSeq(s, n + 1, Len(s))) = Len(s) - n
         /\ \A i \in 1 .. Len(s) - n : SubSeq(s, n + 1, Len(s))[i] = s[n + i]
OBVIOUS

(* Sequences that agree everywhere are the same.                           *)
LEMMA SameElements ==
  ASSUME NEW S, NEW s \in Seq(S), NEW t \in Seq(S), Len(s) = Len(t),
         \A i \in 1 .. Len(s) : s[i] = t[i]
  PROVE  s = t
OBVIOUS

(* Two sequences in one.                                                   *)
LEMMA Joined ==
  ASSUME NEW S, NEW s \in Seq(S), NEW t \in Seq(S)
  PROVE  /\ s \o t \in Seq(S) /\ Len(s \o t) = Len(s) + Len(t)
         /\ \A i \in 1 .. Len(s) : (s \o t)[i] = s[i]
         /\ \A i \in 1 .. Len(t) : (s \o t)[Len(s) + i] = t[i]
         /\ \A i \in DOMAIN (s \o t) :
              \/ i \in DOMAIN s /\ (s \o t)[i] = s[i]
              \/ i - Len(s) \in DOMAIN t /\ (s \o t)[i] = t[i - Len(s)]
OBVIOUS

(* A sequence and one more.                                                *)
LEMMA OneMore ==
  ASSUME NEW S, NEW s \in Seq(S), NEW x \in S
  PROVE  /\ Append(s, x) \in Seq(S) /\ Len(Append(s, x)) = Len(s) + 1
         /\ Append(s, x)[Len(s) + 1] = x
         /\ \A i \in 1 .. Len(s) : Append(s, x)[i] = s[i]
OBVIOUS

(* A sequence without its first element.                                   *)
LEMMA OneLess ==
  ASSUME NEW S, NEW s \in Seq(S), s # <<>>
  PROVE  /\ Head(s) = s[1] /\ Head(s) \in S /\ 1 \in DOMAIN s
         /\ Tail(s) \in Seq(S) /\ Len(Tail(s)) = Len(s) - 1
         /\ \A i \in 1 .. Len(s) - 1 : Tail(s)[i] = s[i + 1]
OBVIOUS

(* Requests are never empty, and have no newline.                          *)
LEMMA RequestFacts ==
  ASSUME NEW r \in Requests
  PROVE  /\ r \in Seq(Char) /\ Len(r) \in Nat \ {0}
         /\ r[1] = "{"
         /\ \A i \in 1 .. Len(r) : r[i] \in Char
         /\ \A i \in 1 .. Len(r) : r[i] # "\n"
<1>1. PICK S, C : S = {"{", "x"} /\ C = Char
  OBVIOUS
<1>2. r \in Seq(S)
  BY <1>1, ConsoleInputConstants
<1>3. Len(r) > 0
  BY ConsoleInputConstants
<1>4. r[1] = "{"
  BY ConsoleInputConstants
<1>5. \A i \in 1 .. Len(r) : r[i] \in S
  BY <1>2
<1>6. Len(r) \in Nat \ {0}
  BY <1>2, <1>3
<1>7. \A i \in 1 .. Len(r) : r[i] \in C
  BY <1>1, <1>5 DEF Char
<1>8. \A i \in 1 .. Len(r) : r[i] # "\n"
  BY <1>1, <1>5
<1>9. r \in Seq(C)
  BY <1>2, <1>7
<1> QED
  BY <1>1, <1>4, <1>6, <1>7, <1>8, <1>9

(* The bytes of a line.                                                    *)
LEMMA ByteFacts ==
  ASSUME sent \in Seq(Requests), NEW n \in 1 .. Len(sent)
  PROVE  /\ sent[n] \in Requests /\ Len(sent[n]) \in Nat \ {0}
         /\ \A p \in 1 .. Len(sent[n]) + 1 :
              /\ ByteAt(n, p) \in Byte /\ Valid(ByteAt(n, p))
              /\ ByteAt(n, p).line = n /\ ByteAt(n, p).at = p
              /\ (ByteAt(n, p).c = "\n") <=> (p = Len(sent[n]) + 1)
         /\ ByteAt(n, 1).c = "{"
<1>1. sent[n] \in Requests
  OBVIOUS
<1>2. PICK r \in Requests : r = sent[n]
  BY <1>1
<1>3. r \in Seq(Char) /\ Len(r) \in Nat \ {0}
  BY RequestFacts
<1>4. ASSUME NEW p \in 1 .. Len(r) + 1
      PROVE  /\ ByteAt(n, p) \in Byte /\ Valid(ByteAt(n, p))
             /\ ByteAt(n, p).line = n /\ ByteAt(n, p).at = p
             /\ (ByteAt(n, p).c = "\n") <=> (p = Len(r) + 1)
  <2>1. PICK c : c = IF p <= Len(r) THEN r[p] ELSE "\n"
    OBVIOUS
  <2>2. ByteAt(n, p) = [line |-> n, at |-> p, c |-> c]
    BY <1>2, <2>1 DEF ByteAt
  <2>3. n \in Nat /\ p \in Nat
    BY <1>3
  <2>4. /\ p <= Len(r) => c \in Char /\ c # "\n"
        /\ p = Len(r) + 1 => c = "\n"
        /\ p <= Len(r) \/ p = Len(r) + 1
    <3>1. CASE p <= Len(r)
      <4>1. p \in 1 .. Len(r) /\ c = r[p] /\ p # Len(r) + 1
        BY <1>3, <2>1, <3>1
      <4> QED
        BY <3>1, <4>1, RequestFacts
    <3>2. CASE p = Len(r) + 1
      <4>1. ~(p <= Len(r)) /\ c = "\n"
        BY <1>3, <2>1, <3>2
      <4> QED
        BY <3>2, <4>1
    <3> QED
      BY <1>3, <3>1, <3>2
  <2>5. c \in Char /\ ((c = "\n") <=> (p = Len(r) + 1))
    BY <1>3, <2>4 DEF Char
  <2>6. ByteAt(n, p).line = n /\ ByteAt(n, p).at = p /\ ByteAt(n, p).c = c
    BY <2>2
  <2>7. ByteAt(n, p) \in Byte
    BY <2>2, <2>3, <2>5 DEF Byte
  <2>8. Valid(ByteAt(n, p))
    BY <1>2, <2>6 DEF Valid
  <2> QED
    BY <2>5, <2>6, <2>7, <2>8
<1>5. ByteAt(n, 1).c = "{"
  <2>1. 1 <= Len(sent[n])
    BY <1>2, <1>3
  <2>2. ByteAt(n, 1).c = sent[n][1]
    BY <2>1 DEF ByteAt
  <2> QED
    BY <1>2, <2>2, RequestFacts
<1> QED
  BY <1>2, <1>3, <1>4, <1>5

(* A line sent leaves those before it alone.                               *)
LEMMA MoreLines ==
  ASSUME InputTypes, NEW r \in Requests, sent' = Append(sent, r)
  PROVE  /\ sent' \in Seq(Requests) /\ Len(sent') = Len(sent) + 1 /\ sent'[Len(sent')] = r
         /\ \A n \in 1 .. Len(sent) : sent'[n] = sent[n]
         /\ \A n \in 1 .. Len(sent) : \A p : ByteAt(n, p)' = ByteAt(n, p)
         /\ \A b : Valid(b) => Valid(b)'
<1>1. sent \in Seq(Requests)
  BY DEF InputTypes
<1>2. /\ sent' \in Seq(Requests) /\ Len(sent') = Len(sent) + 1 /\ sent'[Len(sent')] = r
      /\ \A n \in 1 .. Len(sent) : sent'[n] = sent[n]
  BY <1>1, OneMore
<1>3. \A n \in 1 .. Len(sent) : \A p : ByteAt(n, p)' = ByteAt(n, p)
  BY <1>2 DEF ByteAt
<1>4. ASSUME NEW b, Valid(b) PROVE Valid(b)'
  <2>1. /\ b.line \in 1 .. Len(sent) /\ b.at \in 1 .. Len(sent[b.line]) + 1
        /\ b = ByteAt(b.line, b.at)
    BY <1>4 DEF Valid
  <2>2. b.line \in 1 .. Len(sent') /\ sent'[b.line] = sent[b.line]
    BY <1>1, <1>2, <2>1
  <2> QED
    BY <1>3, <2>1, <2>2 DEF Valid
<1> QED
  BY <1>2, <1>3, <1>4

(* The bytes of a new line.                                                *)
LEMMA NewLine ==
  ASSUME InputTypes, NEW r \in Requests, Send(r)
  PROVE  /\ wire' \in Seq(Byte) /\ Len(wire') = Len(r) + 1
         /\ \A i \in 1 .. Len(r) + 1 : wire'[i] = ByteAt(Len(sent), i)'
<1>1. r \in Seq(Char) /\ Len(r) \in Nat \ {0}
  BY RequestFacts
<1>2. /\ Append(r, "\n") \in Seq(Char) /\ Len(Append(r, "\n")) = Len(r) + 1
      /\ Append(r, "\n")[Len(r) + 1] = "\n"
      /\ \A i \in 1 .. Len(r) : Append(r, "\n")[i] = r[i]
  <2>1. "\n" \in Char
    BY DEF Char
  <2> QED
    BY <1>1, <2>1, OneMore
<1>3. PICK n \in Nat : n = Len(sent) + 1
  BY DEF InputTypes
<1>4. sent' = Append(sent, r) /\ wire' = Bytes(n, Append(r, "\n"))
  BY <1>3 DEF Send
<1>5. n = Len(sent') /\ sent'[n] = r
  BY <1>3, <1>4, MoreLines
<1>6. wire' = [i \in 1 .. Len(r) + 1 |-> [line |-> n, at |-> i, c |-> Append(r, "\n")[i]]]
  BY <1>2, <1>4 DEF Bytes
<1>7. ASSUME NEW i \in 1 .. Len(r) + 1
      PROVE  wire'[i] \in Byte /\ wire'[i] = ByteAt(n, i)'
  <2>1. wire'[i] = [line |-> n, at |-> i, c |-> Append(r, "\n")[i]]
    BY <1>6
  <2>2. Append(r, "\n")[i] = (IF i <= Len(r) THEN r[i] ELSE "\n") /\ Append(r, "\n")[i] \in Char
    BY <1>1, <1>2
  <2> QED
    BY <1>5, <2>1, <2>2 DEF ByteAt, Byte
<1>8. wire' \in Seq(Byte) /\ Len(wire') = Len(r) + 1
  BY <1>1, <1>6, <1>7
<1> QED
  BY <1>5, <1>7, <1>8

(* The sizes of buffers.                                                   *)
LEMMA Sizes ==
  /\ CMD_RX_BUF_SIZE \in Nat /\ CMD_RX_BUF_SIZE > 1
  /\ HOST_UART_RX_BUF_SIZE \in Nat /\ HOST_UART_RX_BUF_SIZE >= CMD_RX_BUF_SIZE
  /\ BLE_CMD_QUEUE_DEPTH \in Nat \ {0}
  /\ MaxChunk \in Nat \ {0} /\ MaxLines \in Nat \ {0}
BY ConsoleInputConstants

(* What the UART driver keeps of what the interrupt brings.                *)
Kept(n) ==
  IF n < HOST_UART_RX_BUF_SIZE - Len(ring) THEN n ELSE HOST_UART_RX_BUF_SIZE - Len(ring)

(* It keeps as many as there is room for; the lines of the rest are overrun.*)
LEMMA KeptFacts ==
  ASSUME InputTypes, NEW n \in 1 .. MaxChunk, UartInterrupt(n)
  PROVE  /\ Kept(n) \in 0 .. n /\ n \in 1 .. Len(wire) /\ Len(ring) + Kept(n) <= HOST_UART_RX_BUF_SIZE
         /\ Len(ring) + n <= HOST_UART_RX_BUF_SIZE => Kept(n) = n
         /\ wire' = SubSeq(wire, n + 1, Len(wire))
         /\ ring' = ring \o SubSeq(wire, 1, Kept(n))
         /\ overrun' = overrun \cup {wire[i].line : i \in Kept(n) + 1 .. n}
<1>1. /\ wire' = SubSeq(wire, n + 1, Len(wire)) /\ n <= Len(wire)
      /\ ring' = ring \o SubSeq(wire, 1, Kept(n))
      /\ overrun' = overrun \cup {wire[i].line : i \in Kept(n) + 1 .. n}
  BY DEF UartInterrupt, Deliver, Kept
<1>2. /\ Len(ring) \in Nat /\ Len(wire) \in Nat /\ n \in Nat /\ n > 0
      /\ HOST_UART_RX_BUF_SIZE \in Nat /\ Len(ring) <= HOST_UART_RX_BUF_SIZE
  BY Sizes DEF InputTypes
<1>3. /\ Kept(n) \in 0 .. n /\ Len(ring) + Kept(n) <= HOST_UART_RX_BUF_SIZE
      /\ Len(ring) + n <= HOST_UART_RX_BUF_SIZE => Kept(n) = n
  BY <1>2 DEF Kept
<1>4. n \in 1 .. Len(wire)
  BY <1>1, <1>2
<1> QED
  BY <1>1, <1>3, <1>4

(* A command yielded goes to one place.                                    *)
LEMMA YieldTypes ==
  ASSUME InputTypes, Yield(line)
  PROVE  /\ s_command_queue' \in Seq(Seq(Byte)) /\ processed' \in Seq(Seq(Byte))
         /\ refused' \in SUBSET Seq(Byte)
<1>1. PICK S : S = Seq(Byte)
  OBVIOUS
<1>2. line \in S /\ s_command_queue \in Seq(S) /\ processed \in Seq(S) /\ refused \in SUBSET S
  BY <1>1 DEF InputTypes
<1>3. s_command_queue' \in Seq(S) /\ processed' \in Seq(S) /\ refused' \in SUBSET S
  <2>1. /\ s_command_queue' = s_command_queue \/ s_command_queue' = Append(s_command_queue, line)
        /\ processed' = processed \/ processed' = Append(processed, line)
        /\ refused' = refused \/ refused' = refused \cup {line}
    BY DEF Yield, queue_line
  <2>2. Append(s_command_queue, line) \in Seq(S) /\ Append(processed, line) \in Seq(S)
    BY <1>2
  <2> QED
    BY <1>2, <2>1, <2>2
<1> QED
  BY <1>1, <1>3

(* Types are kept.                                                         *)
LEMMA TypesKept == InputTypes /\ [InputNext]_inputVars => InputTypes'
<1> SUFFICES ASSUME InputTypes, [InputNext]_inputVars PROVE InputTypes'
  OBVIOUS
<1> PICK B : B = Byte
  OBVIOUS
<1>0. /\ wire \in Seq(B) /\ ring \in Seq(B) /\ data \in Seq(B) /\ line \in Seq(B)
      /\ Len(wire) \in Nat /\ Len(ring) \in Nat /\ MaxChunk \in Nat
  BY Sizes DEF InputTypes
<1>1. ASSUME NEW r \in Requests, Send(r) PROVE InputTypes'
  <2>1. wire' \in Seq(Byte)
    BY <1>1, NewLine
  <2>2. sent' \in Seq(Requests)
    BY <1>1, MoreLines DEF Send
  <2> QED
    BY <1>1, <2>1, <2>2 DEF InputTypes, Send
<1>2. ASSUME NEW n \in 1 .. MaxChunk, UartInterrupt(n) PROVE InputTypes'
  <2>1. PICK k \in 0 .. n : k = Kept(n)
    BY <1>2, KeptFacts
  <2>2. /\ n \in 1 .. Len(wire) /\ Len(ring) + k <= HOST_UART_RX_BUF_SIZE
        /\ wire' = SubSeq(wire, n + 1, Len(wire)) /\ ring' = ring \o SubSeq(wire, 1, k)
    BY <1>2, <2>1, KeptFacts
  <2>3. k \in 0 .. Len(wire) /\ n \in 0 .. Len(wire)
    BY <1>0, <2>2
  <2>4. wire' \in Seq(B) /\ SubSeq(wire, 1, k) \in Seq(B) /\ Len(SubSeq(wire, 1, k)) = k
    BY <1>0, <2>2, <2>3, Parts
  <2>5. ring' \in Seq(B) /\ Len(ring') = Len(ring) + k
    BY <1>0, <2>2, <2>4, Joined
  <2> QED
    BY <1>2, <2>2, <2>4, <2>5 DEF InputTypes, UartInterrupt
<1>3. ASSUME NEW n \in 1 .. MaxChunk, gatt_access_cb(n) PROVE InputTypes'
  <2>1. /\ n \in 0 .. Len(wire) /\ wire' = SubSeq(wire, n + 1, Len(wire)) /\ data' = SubSeq(wire, 1, n)
    BY <1>0, <1>3 DEF gatt_access_cb, Deliver
  <2>2. wire' \in Seq(B) /\ data' \in Seq(B)
    BY <1>0, <2>1, Parts
  <2> QED
    BY <1>3, <2>2 DEF InputTypes, gatt_access_cb
<1>4. CASE uart_command_task
  <2>1. PICK n : n = IF Len(ring) < MaxChunk THEN Len(ring) ELSE MaxChunk
    OBVIOUS
  <2>2. n \in 0 .. Len(ring) /\ data' = SubSeq(ring, 1, n) /\ ring' = SubSeq(ring, n + 1, Len(ring))
    BY <1>0, <1>4, <2>1 DEF uart_command_task
  <2>3. ring' \in Seq(B) /\ data' \in Seq(B) /\ Len(ring') <= Len(ring)
    BY <1>0, <2>2, Parts
  <2>4. Len(ring') <= HOST_UART_RX_BUF_SIZE
    BY <1>0, <2>3, Sizes DEF InputTypes
  <2> QED
    BY <1>4, <2>3, <2>4 DEF InputTypes, uart_command_task
<1>5. CASE feed_rx_bytes
  <2>1. data' \in Seq(B) /\ seen' \in B
    BY <1>0, <1>5, OneLess DEF feed_rx_bytes
  <2>2. Head(data) \in B
    BY <1>0, <1>5, OneLess DEF feed_rx_bytes
  <2>3. line' \in Seq(B)
    <3>1. \/ line' = line \/ line' = <<>> \/ line' = <<Head(data)>> \/ line' = Append(line, Head(data))
      BY <1>5 DEF feed_rx_bytes, TakeByte
    <3>2. Append(line, Head(data)) \in Seq(B) /\ <<Head(data)>> \in Seq(B) /\ <<>> \in Seq(B)
      BY <1>0, <2>2
    <3> QED
      BY <1>0, <3>1, <3>2
  <2>4. /\ s_command_queue' \in Seq(Seq(Byte)) /\ processed' \in Seq(Seq(Byte))
        /\ refused' \in SUBSET Seq(Byte)
    <3>1. Yield(line) \/ NoCommand
      BY <1>5 DEF feed_rx_bytes, TakeByte
    <3> QED
      BY <3>1, YieldTypes DEF NoCommand, InputTypes
  <2> QED
    BY <1>5, <2>1, <2>3, <2>4 DEF InputTypes, feed_rx_bytes
<1>6. CASE command_task
  <2>1. PICK S : S = Seq(Byte)
    OBVIOUS
  <2>2. s_command_queue \in Seq(S) /\ processed \in Seq(S)
    BY <2>1 DEF InputTypes
  <2>3. s_command_queue' \in Seq(S) /\ processed' \in Seq(S)
    BY <1>6, <2>2, OneMore, OneLess DEF command_task
  <2> QED
    BY <1>6, <2>1, <2>3 DEF InputTypes, command_task
<1>7. CASE LineCut
  <2>1. wire' \in Seq(Byte)
    BY <1>7 DEF LineCut
  <2> QED
    BY <1>7, <2>1 DEF InputTypes, LineCut
<1>8. CASE UNCHANGED inputVars
  BY <1>8 DEF InputTypes, inputVars
<1> QED
  BY <1>1, <1>2, <1>3, <1>4, <1>5, <1>6, <1>7, <1>8 DEF InputNext

-----------------------------------------------------------------------------
(* A command as a buffer holds it.                                         *)
LEMMA CommandFacts ==
  ASSUME InputTypes, NEW n \in 1 .. Len(sent)
  PROVE  /\ Command(n) \in Seq(Byte) /\ Len(Command(n)) = Len(sent[n])
         /\ \A i \in 1 .. Len(sent[n]) : Command(n)[i] = ByteAt(n, i)
         /\ Last(Command(n)) = ByteAt(n, Len(sent[n])) /\ Last(Command(n)).line = n
<1>1. sent \in Seq(Requests)
  BY DEF InputTypes
<1>2. PICK k \in Nat \ {0} : k = Len(sent[n])
  BY <1>1, ByteFacts
<1>3. Command(n) = [i \in 1 .. k |-> [line |-> n, at |-> i, c |-> sent[n][i]]]
  BY <1>2 DEF Command, Bytes
<1>4. ASSUME NEW i \in 1 .. k
      PROVE  Command(n)[i] = ByteAt(n, i) /\ ByteAt(n, i) \in Byte /\ ByteAt(n, i).line = n
  <2>1. i <= Len(sent[n]) /\ i \in 1 .. Len(sent[n]) + 1
    BY <1>2
  <2>2. Command(n)[i] = [line |-> n, at |-> i, c |-> sent[n][i]]
    BY <1>3
  <2>3. Command(n)[i] = ByteAt(n, i)
    BY <2>1, <2>2 DEF ByteAt
  <2> QED
    BY <1>1, <2>1, <2>3, ByteFacts
<1>5. PICK c : c = Command(n)
  OBVIOUS
<1>6. c = [i \in 1 .. k |-> c[i]] /\ \A i \in 1 .. k : c[i] \in Byte
  BY <1>3, <1>4, <1>5
<1>7. c \in Seq(Byte) /\ Len(c) = k
  BY <1>6
<1>8. Last(c) = c[k]
  BY <1>7 DEF Last
<1> QED
  BY <1>2, <1>4, <1>5, <1>7, <1>8

(* A buffer with the bytes of a line is the command.                       *)
LEMMA CommandIs ==
  ASSUME InputTypes, NEW n \in 1 .. Len(sent), NEW s \in Seq(Byte), Len(s) = Len(sent[n]),
         \A i \in 1 .. Len(s) : s[i] = ByteAt(n, i)
  PROVE  s = Command(n)
<1>1. PICK c, k : c = Command(n) /\ k = Len(sent[n])
  OBVIOUS
<1>2. c \in Seq(Byte) /\ Len(c) = k /\ \A i \in 1 .. k : c[i] = ByteAt(n, i)
  BY <1>1, CommandFacts
<1>3. \A i \in 1 .. k : s[i] = c[i]
  BY <1>1, <1>2
<1>4. s = c
  BY <1>1, <1>2, <1>3
<1> QED
  BY <1>1, <1>4

(* Steps that leave what was sent leave what it means.                     *)
LEMMA SameLines ==
  ASSUME sent' = sent
  PROVE  /\ \A n, p : ByteAt(n, p)' = ByteAt(n, p)
         /\ \A n : Command(n)' = Command(n)
         /\ \A b : Valid(b)' <=> Valid(b)
         /\ \A s, n : Beginning(s, n)' <=> Beginning(s, n)
         /\ \A s, o, n : Placed(s, o, n)' <=> Placed(s, o, n)
BY DEF ByteAt, Command, Valid, Beginning, Placed

(* A patient host's line is under way from the wire to the buffer.         *)
LEMMA PatientSend ==
  ASSUME InputTypes, PatientInv, NEW r \in Requests, Send(r)
  PROVE  PatientInv'
<1> SUFFICES ASSUME patient PROVE PatientInv'
  BY DEF PatientInv, Send
<1>1. sent \in Seq(Requests) /\ sent' = Append(sent, r) /\ wire = <<>> /\ processed \in Seq(Seq(Byte))
  BY DEF Send, InputTypes
<1>2. /\ sent' \in Seq(Requests) /\ Len(sent') = Len(sent) + 1 /\ sent'[Len(sent')] = r
      /\ \A n \in 1 .. Len(sent) : sent'[n] = sent[n]
  BY <1>1, MoreLines
<1>3. \A i \in DOMAIN processed : processed[i] = Command(i)
  BY DEF PatientInv
<1>4. Len(processed) = Len(sent) /\ Idle /\ s_command_queue = <<>>
  <2>1. SUFFICES ASSUME Len(sent) > 0, Len(processed) = Len(sent) - 1 PROVE FALSE
    BY DEF PatientInv
  <2>2. sent # <<>> /\ Answered
    BY <1>1, <2>1 DEF Send
  <2>3. PICK i \in DOMAIN processed : Last(processed[i]).line = Len(sent)
    BY <2>2 DEF Answered
  <2>4. i \in 1 .. Len(sent) /\ i # Len(sent)
    BY <1>1, <2>1
  <2>5. Last(Command(i)).line = i
    BY <2>4, CommandFacts
  <2> QED
    BY <1>3, <2>3, <2>4, <2>5
<1>5. \A i \in DOMAIN processed' : processed'[i] = Command(i)'
  BY <1>1, <1>2, <1>3, <1>4 DEF Send, Command
<1>6. \A n \in DOMAIN sent' : Len(sent'[n]) < CMD_RX_BUF_SIZE
  BY <1>1, <1>2 DEF Send, PatientInv
<1>7. UnderWay(Len(sent))'
  <2>1. line' = <<>> /\ data' = <<>> /\ ring' = <<>>
    BY <1>4 DEF Send, Idle
  <2>2. Len(wire') = Len(r) + 1 /\ \A i \in 1 .. Len(r) + 1 : wire'[i] = ByteAt(Len(sent), i)'
    BY NewLine
  <2>3. Len(r) \in Nat
    BY RequestFacts
  <2>4. PICK n : n = Len(sent')
    OBVIOUS
  <2>5. sent'[n] = r /\ \A i \in 1 .. Len(wire') : wire'[i] = ByteAt(n, i)'
    BY <1>2, <2>2, <2>4
  <2>6. /\ Len(line') + Len(data') + Len(ring') = 0 /\ Len(line') + Len(data') = 0 /\ Len(line') = 0
        /\ 1 .. Len(line') = {} /\ 1 .. Len(data') = {} /\ 1 .. Len(ring') = {}
    BY <2>1
  <2>7. \A i \in 1 .. Len(wire') : wire'[i] = ByteAt(n, 0 + i)'
    BY <2>2, <2>3, <2>5
  <2>8. UnderWay(n)'
    BY <2>2, <2>3, <2>5, <2>6, <2>7 DEF UnderWay, Segments, Placed
  <2> QED
    BY <2>4, <2>8
<1> QED
  BY <1>1, <1>2, <1>4, <1>5, <1>6, <1>7 DEF PatientInv, Send

(* The parts of a segment are segments, and what follows a segment joins   *)
(* it.                                                                     *)
LEMMA PlacedParts ==
  ASSUME NEW s \in Seq(Byte), NEW q \in 0 .. Len(s), NEW o \in Nat, NEW n, Placed(s, o, n)
  PROVE  Placed(SubSeq(s, 1, q), o, n) /\ Placed(SubSeq(s, q + 1, Len(s)), o + q, n)
<1>1. PICK t, u : t = SubSeq(s, 1, q) /\ u = SubSeq(s, q + 1, Len(s))
  OBVIOUS
<1>2. /\ Len(t) = q /\ \A i \in 1 .. q : t[i] = s[i]
      /\ Len(u) = Len(s) - q /\ \A i \in 1 .. Len(s) - q : u[i] = s[q + i]
  BY <1>1, Parts
<1>3. \A i \in 1 .. Len(s) : s[i] = ByteAt(n, o + i)
  BY DEF Placed
<1>4. Placed(t, o, n)
  <2>1. \A i \in 1 .. q : i \in 1 .. Len(s)
    OBVIOUS
  <2> QED
    BY <1>2, <1>3, <2>1 DEF Placed
<1>5. ASSUME NEW i \in 1 .. Len(u) PROVE u[i] = ByteAt(n, (o + q) + i)
  <2>1. PICK j \in 1 .. Len(s) : j = q + i
    BY <1>2
  <2>2. u[i] = s[j] /\ o + j = (o + q) + i
    BY <1>2, <2>1
  <2>3. s[j] = ByteAt(n, o + j)
    BY <1>3
  <2> QED
    BY <2>2, <2>3, Zenon
<1>6. Placed(u, o + q, n)
  BY <1>5 DEF Placed
<1> QED
  BY <1>1, <1>4, <1>6

(* Stretches of one line, the second where the first ends, make one.       *)
LEMMA PlacedJoined ==
  ASSUME NEW s \in Seq(Byte), NEW t \in Seq(Byte), NEW o \in Nat, NEW n,
         Placed(s, o, n), Placed(t, o + Len(s), n)
  PROVE  Placed(s \o t, o, n)
<1>1. PICK u : u = s \o t
  OBVIOUS
<1>2. /\ Len(u) = Len(s) + Len(t) /\ \A i \in 1 .. Len(s) : u[i] = s[i]
      /\ \A i \in 1 .. Len(t) : u[Len(s) + i] = t[i]
  BY <1>1, Joined
<1>3. ASSUME NEW i \in 1 .. Len(u) PROVE u[i] = ByteAt(n, o + i)
  <2>1. CASE i <= Len(s)
    <3>1. i \in 1 .. Len(s)
      BY <2>1
    <3> QED
      BY <1>2, <3>1 DEF Placed
  <2>2. CASE i > Len(s)
    <3>1. i - Len(s) \in 1 .. Len(t)
      BY <1>2, <2>2
    <3>2. PICK j \in 1 .. Len(t) : j = i - Len(s)
      BY <3>1
    <3>3. i = Len(s) + j /\ o + Len(s) + j = o + i
      BY <3>2
    <3>4. u[i] = t[j]
      BY <1>2, <3>3
    <3>5. t[j] = ByteAt(n, o + Len(s) + j)
      BY DEF Placed
    <3> QED
      BY <3>3, <3>4, <3>5, Zenon
  <2> QED
    BY <2>1, <2>2
<1> QED
  BY <1>1, <1>3 DEF Placed

(* Where the bytes are after a step.                                       *)
LEMMA UnderWayNext ==
  ASSUME sent' = sent, NEW n, NEW l, NEW x, NEW y, NEW z,
         line' = l, data' = x, ring' = y, wire' = z, Segments(l, x, y, z, n)
  PROVE  UnderWay(n)'
<1>1. Segments(l, x, y, z, n)'
  BY DEF Segments, Placed, ByteAt
<1> QED
  BY <1>1 DEF UnderWay

(* Bytes that move on stay in their places.                                *)
LEMMA PatientMoves ==
  ASSUME InputTypes, PatientInv, patient, Len(sent) > 0, UnderWay(Len(sent)),
         \/ \E n \in 1 .. MaxChunk : UartInterrupt(n) \/ gatt_access_cb(n)
         \/ uart_command_task
  PROVE  UnderWay(Len(sent))' /\ overrun' = {}
<1>1. PICK m, k : m = Len(sent) /\ k = Len(sent[m])
  OBVIOUS
<1>2. m \in 1 .. Len(sent) /\ k \in Nat \ {0} /\ k < CMD_RX_BUF_SIZE
  <2>1. sent \in Seq(Requests) /\ m \in 1 .. Len(sent)
    BY <1>1 DEF InputTypes
  <2>2. k \in Nat \ {0}
    BY <1>1, <2>1, ByteFacts
  <2>3. k < CMD_RX_BUF_SIZE
    BY <1>1, <2>1 DEF PatientInv
  <2> QED
    BY <2>1, <2>2, <2>3
<1>3. PICK l, x, y, z \in Seq(Byte) : l = line /\ x = data /\ y = ring /\ z = wire
  BY DEF InputTypes
<1>4. PICK a, b, d, w \in Nat : a = Len(l) /\ b = Len(x) /\ d = Len(y) /\ w = Len(z)
  OBVIOUS
<1>5. PICK p, q \in Nat : p = a + b /\ q = a + b + d
  OBVIOUS
<1>6. /\ q + w = k + 1 /\ a <= k
      /\ Placed(l, 0, m) /\ Placed(x, a, m) /\ Placed(y, p, m) /\ Placed(z, q, m)
  BY <1>1, <1>3, <1>4, <1>5 DEF UnderWay, Segments
<1>7. sent' = sent /\ line' = l /\ overrun = {}
  BY <1>3 DEF UartInterrupt, gatt_access_cb, uart_command_task, PatientInv
<1>8. SUFFICES UnderWay(m)' /\ overrun' = {}
  BY <1>1, <1>7
<1>9. ASSUME NEW n \in 1 .. MaxChunk, UartInterrupt(n)
      PROVE  UnderWay(m)' /\ overrun' = {}
  <2>1. n \in 1 .. w /\ n \in 0 .. Len(z)
    <3>1. n \in 1 .. Len(wire)
      BY <1>9, KeptFacts
    <3> QED
      BY <1>3, <1>4, <3>1
  <2>2. Kept(n) = n
    <3>1. Len(ring) + n <= HOST_UART_RX_BUF_SIZE
      BY <1>2, <1>3, <1>4, <1>5, <1>6, <2>1, Sizes
    <3> QED
      BY <1>9, <3>1, KeptFacts
  <2>3. overrun' = {}
    <3>1. n + 1 .. n = {}
      BY <2>1
    <3>2. overrun' = overrun \cup {wire[i].line : i \in Kept(n) + 1 .. n}
      BY <1>9, KeptFacts
    <3> QED
      BY <1>7, <2>2, <3>1, <3>2
  <2>4. PICK t, v, u : t = SubSeq(z, 1, n) /\ v = SubSeq(z, n + 1, Len(z)) /\ u = y \o t
    OBVIOUS
  <2>5. wire' = v /\ ring' = u /\ data' = x
    <3>1. wire' = SubSeq(wire, n + 1, Len(wire)) /\ ring' = ring \o SubSeq(wire, 1, Kept(n))
      BY <1>9, KeptFacts
    <3>2. data' = data
      BY <1>9 DEF UartInterrupt
    <3> QED
      BY <1>3, <2>2, <2>4, <3>1, <3>2
  <2>6. t \in Seq(Byte) /\ Len(t) = n /\ v \in Seq(Byte) /\ Len(v) = w - n
    BY <1>4, <2>1, <2>4, Parts
  <2>7. PICK e, f, r \in Nat : e = d + n /\ f = w - n /\ r = q + n
    BY <2>1
  <2>8. Placed(t, q, m) /\ Placed(v, r, m)
    BY <1>6, <2>1, <2>4, <2>7, PlacedParts
  <2>9. Placed(u, p, m)
    <3>1. q = p + Len(y)
      BY <1>4, <1>5
    <3>2. Placed(t, p + Len(y), m)
      BY <2>8, <3>1
    <3> QED
      BY <1>6, <2>4, <2>6, <3>2, PlacedJoined
  <2>10. Len(u) = e
    BY <1>4, <2>4, <2>6, <2>7, Joined
  <2>11. r = a + b + e /\ r + f = k + 1 /\ Len(v) = f
    BY <1>2, <1>5, <1>6, <2>1, <2>6, <2>7
  <2>12. UnderWay(m)'
    <3>1. /\ p = Len(l) + Len(x) /\ r = Len(l) + Len(x) + Len(u) /\ a = Len(l)
          /\ Len(l) + Len(x) + Len(u) + Len(v) = k + 1 /\ Len(l) <= k
      BY <1>4, <1>5, <1>6, <2>7, <2>10, <2>11
    <3>2. /\ Placed(l, 0, m) /\ Placed(x, Len(l), m) /\ Placed(u, Len(l) + Len(x), m)
          /\ Placed(v, Len(l) + Len(x) + Len(u), m)
      BY <1>6, <2>8, <2>9, <3>1, Zenon
    <3>3. Segments(l, x, u, v, m)
      BY <1>1, <3>1, <3>2, Zenon DEF Segments
    <3> QED
      BY <1>7, <2>5, <3>3, UnderWayNext
  <2> QED
    BY <2>3, <2>12
<1>10. ASSUME NEW n \in 1 .. MaxChunk, gatt_access_cb(n)
       PROVE  UnderWay(m)' /\ overrun' = {}
  <2>1. /\ n \in 1 .. w /\ n \in 0 .. Len(z) /\ x = <<>> /\ y = <<>> /\ overrun' = {} /\ ring' = y
        /\ wire' = SubSeq(z, n + 1, Len(z)) /\ data' = SubSeq(z, 1, n)
    BY <1>3, <1>4, <1>7, <1>10 DEF gatt_access_cb, Deliver, InputTypes
  <2>2. b = 0 /\ d = 0
    BY <1>4, <2>1
  <2>3. PICK t, v : t = SubSeq(z, 1, n) /\ v = SubSeq(z, n + 1, Len(z))
    OBVIOUS
  <2>4. t \in Seq(Byte) /\ Len(t) = n /\ v \in Seq(Byte) /\ Len(v) = w - n
    BY <1>4, <2>1, <2>3, Parts
  <2>5. PICK f, r \in Nat : f = w - n /\ r = q + n
    BY <2>1
  <2>6. Placed(t, q, m) /\ Placed(v, r, m)
    BY <1>6, <2>1, <2>3, <2>5, PlacedParts
  <2>7. q = a /\ r = a + n /\ r = a + n + d /\ r + f = k + 1 /\ n \in Nat /\ Len(v) = f
    BY <1>2, <1>5, <1>6, <2>1, <2>2, <2>4, <2>5
  <2>8. Placed(y, r, m)
    BY <2>1 DEF Placed
  <2>9. wire' = v /\ data' = t /\ ring' = y
    BY <2>1, <2>3
  <2>10. Placed(t, a, m)
    BY <2>6, <2>7
  <2>11. UnderWay(m)'
    <3>1. /\ r = Len(l) + Len(t) /\ r = Len(l) + Len(t) + Len(y) /\ a = Len(l)
          /\ Len(l) + Len(t) + Len(y) + Len(v) = k + 1 /\ Len(l) <= k
      BY <1>4, <1>6, <2>2, <2>4, <2>5, <2>7
    <3>2. /\ Placed(l, 0, m) /\ Placed(t, Len(l), m) /\ Placed(y, Len(l) + Len(t), m)
          /\ Placed(v, Len(l) + Len(t) + Len(y), m)
      BY <1>6, <2>6, <2>8, <2>10, <3>1, Zenon
    <3>3. Segments(l, t, y, v, m)
      BY <1>1, <3>1, <3>2, Zenon DEF Segments
    <3> QED
      BY <1>7, <2>9, <3>3, UnderWayNext
  <2> QED
    BY <2>1, <2>11
<1>11. ASSUME uart_command_task
       PROVE  UnderWay(m)' /\ overrun' = {}
  <2>1. PICK n : n = IF Len(ring) < MaxChunk THEN Len(ring) ELSE MaxChunk
    OBVIOUS
  <2>2. /\ n \in 0 .. Len(y) /\ x = <<>> /\ overrun' = {} /\ wire' = z
        /\ ring' = SubSeq(y, n + 1, Len(y)) /\ data' = SubSeq(y, 1, n)
    BY <1>3, <1>4, <1>7, <1>11, <2>1, Sizes DEF uart_command_task
  <2>3. b = 0
    BY <1>4, <2>2
  <2>4. PICK t, v : t = SubSeq(y, 1, n) /\ v = SubSeq(y, n + 1, Len(y))
    OBVIOUS
  <2>5. t \in Seq(Byte) /\ Len(t) = n /\ v \in Seq(Byte) /\ Len(v) = d - n
    BY <1>4, <2>2, <2>4, Parts
  <2>6. PICK f, r \in Nat : f = d - n /\ r = p + n
    <3>1. d - n \in Nat /\ p + n \in Nat
      BY <1>4, <2>2
    <3> QED
      BY <3>1
  <2>7. Placed(t, p, m) /\ Placed(v, r, m)
    BY <1>6, <2>2, <2>4, <2>6, PlacedParts
  <2>8. p = a /\ r = a + n /\ q = a + n + f /\ n \in Nat /\ Len(v) = f
    BY <1>4, <1>5, <2>2, <2>3, <2>5, <2>6
  <2>9. wire' = z /\ data' = t /\ ring' = v
    BY <2>2, <2>4
  <2>10. Placed(t, a, m)
    BY <2>7, <2>8
  <2>11. UnderWay(m)'
    <3>1. /\ r = Len(l) + Len(t) /\ q = Len(l) + Len(t) + Len(v) /\ a = Len(l)
          /\ Len(l) + Len(t) + Len(v) + Len(z) = k + 1 /\ Len(l) <= k
      BY <1>4, <1>6, <2>5, <2>8
    <3>2. /\ Placed(l, 0, m) /\ Placed(t, Len(l), m) /\ Placed(v, Len(l) + Len(t), m)
          /\ Placed(z, Len(l) + Len(t) + Len(v), m)
      BY <1>6, <2>7, <2>10, <3>1, Zenon
    <3>3. Segments(l, t, v, z, m)
      BY <1>1, <3>1, <3>2, Zenon DEF Segments
    <3> QED
      BY <1>7, <2>9, <3>3, UnderWayNext
  <2> QED
    BY <2>2, <2>11
<1> QED
  BY <1>9, <1>10, <1>11

(* The next byte of a patient host's line goes into the buffer; the last   *)
(* one, its newline, turns the buffer into the command.                    *)
LEMMA PatientTakes ==
  ASSUME InputTypes, PatientInv, patient, Len(sent) > 0, UnderWay(Len(sent)),
         s_command_queue = <<>>, Len(processed) = Len(sent) - 1, feed_rx_bytes
  PROVE  PatientInv'
<1>1. PICK m, k : m = Len(sent) /\ k = Len(sent[m])
  OBVIOUS
<1>2. sent \in Seq(Requests) /\ m \in 1 .. Len(sent) /\ k \in Nat \ {0} /\ k < CMD_RX_BUF_SIZE
  <2>1. sent \in Seq(Requests) /\ m \in 1 .. Len(sent)
    BY <1>1 DEF InputTypes
  <2>2. k \in Nat \ {0}
    BY <1>1, <2>1, ByteFacts
  <2>3. k < CMD_RX_BUF_SIZE
    BY <1>1, <2>1 DEF PatientInv
  <2> QED
    BY <2>1, <2>2, <2>3
<1>3. PICK l, x, y, z \in Seq(Byte) : l = line /\ x = data /\ y = ring /\ z = wire
  BY DEF InputTypes
<1>4. PICK a, b, d, w \in Nat : a = Len(l) /\ b = Len(x) /\ d = Len(y) /\ w = Len(z)
  OBVIOUS
<1>5. PICK p, q \in Nat : p = a + b /\ q = a + b + d
  OBVIOUS
<1>6. /\ q + w = k + 1 /\ a <= k
      /\ Placed(l, 0, m) /\ Placed(x, a, m) /\ Placed(y, p, m) /\ Placed(z, q, m)
  BY <1>1, <1>3, <1>4, <1>5 DEF UnderWay, Segments
<1>7. PICK t, c : t = Tail(x) /\ c = Head(x)
  OBVIOUS
<1>8. /\ x # <<>> /\ data' = t /\ TakeByte(c)
      /\ ring' = y /\ wire' = z /\ sent' = sent /\ patient' /\ overrun' = {} /\ cut' = {}
  BY <1>3, <1>7 DEF feed_rx_bytes, PatientInv
<1>9. c = x[1] /\ t \in Seq(Byte) /\ Len(t) = b - 1 /\ b > 0 /\ c \in Byte
      /\ \A i \in 1 .. b - 1 : t[i] = x[i + 1]
  BY <1>4, <1>7, <1>8, OneLess
<1>10. c = ByteAt(m, a + 1) /\ a + 1 \in 1 .. k + 1
  BY <1>2, <1>4, <1>5, <1>6, <1>9 DEF Placed
<1>11. PICK e \in 1 .. k + 1 : e = a + 1
  BY <1>10
<1>12. (c.c = "\n") <=> (e = k + 1)
  <2>1. c = ByteAt(m, e)
    BY <1>10, <1>11, Zenon
  <2>2. (ByteAt(m, e).c = "\n") <=> (e = Len(sent[m]) + 1)
    <3>1. e \in 1 .. Len(sent[m]) + 1
      BY <1>1
    <3>2. \A i \in 1 .. Len(sent[m]) + 1 : (ByteAt(m, i).c = "\n") <=> (i = Len(sent[m]) + 1)
      BY <1>2, ByteFacts
    <3> QED
      BY <3>1, <3>2
  <2> QED
    BY <1>1, <2>1, <2>2
<1>13. /\ \A i \in DOMAIN processed : processed[i] = Command(i)'
       /\ \A n \in DOMAIN sent' : Len(sent'[n]) < CMD_RX_BUF_SIZE
       /\ refused = {}
  <2>1. \A n : Command(n)' = Command(n)
    BY <1>8, SameLines
  <2> QED
    BY <1>8, <2>1 DEF PatientInv
<1>14. CASE e = k + 1
  <2>1. a = k /\ b = 1 /\ d = 0 /\ w = 0 /\ line # <<>>
    <3>1. q + w = k + 1 /\ b > 0
      BY <1>6, <1>9
    <3>2. a = k /\ b = 1 /\ d = 0 /\ w = 0
      BY <1>2, <1>5, <1>11, <1>14, <3>1
    <3>3. Len(line) # 0
      BY <1>2, <1>3, <1>4, <3>2
    <3> QED
      BY <3>2, <3>3
  <2>2. Yield(line) /\ line' = <<>>
    BY <1>8, <1>12, <1>14, <2>1 DEF TakeByte
  <2>3. Idle'
    <3>1. Len(t) = 0 /\ Len(y) = 0 /\ Len(z) = 0
      BY <1>4, <1>9, <2>1
    <3>2. t = <<>> /\ y = <<>> /\ z = <<>>
      BY <1>9, <3>1
    <3> QED
      BY <1>8, <2>2, <3>2 DEF Idle
  <2>4. line = Command(m)
    <3>1. Len(l) = Len(sent[m]) /\ \A i \in 1 .. Len(l) : l[i] = ByteAt(m, 0 + i)
      BY <1>1, <1>4, <1>6, <2>1 DEF Placed
    <3>2. \A i \in 1 .. Len(l) : l[i] = ByteAt(m, i)
      <4>1. ASSUME NEW i \in 1 .. Len(l) PROVE l[i] = ByteAt(m, i)
        <5>1. 0 + i = i
          OBVIOUS
        <5> QED
          BY <3>1, <5>1, Zenon
      <4> QED
        BY <4>1
    <3> QED
      BY <1>2, <1>3, <3>1, <3>2, CommandIs
  <2>5. PICK v : v = Command(m) /\ v = Command(m)'
    BY <1>8, SameLines
  <2>6. CASE console = "uart"
    <3>1. processed' = Append(processed, v) /\ s_command_queue' = <<>> /\ refused' = {}
      BY <1>13, <2>2, <2>4, <2>5, <2>6 DEF Yield
    <3>2. processed \in Seq(Seq(Byte)) /\ v \in Seq(Byte)
      BY <1>3, <2>4, <2>5 DEF InputTypes
    <3>3. /\ Len(processed') = m /\ DOMAIN processed' = 1 .. m /\ processed'[m] = v
          /\ \A i \in 1 .. m - 1 : processed'[i] = processed[i] /\ i \in DOMAIN processed
      BY <1>1, <1>2, <3>1, <3>2
    <3>4. ASSUME NEW i \in DOMAIN processed' PROVE processed'[i] = Command(i)'
      <4>1. CASE i = m
        BY <2>5, <3>3, <4>1
      <4>2. CASE i # m
        BY <1>2, <1>13, <3>3, <4>2
      <4> QED
        BY <4>1, <4>2
    <3>5. Len(processed') = Len(sent')
      BY <1>1, <1>8, <3>3
    <3> QED
      BY <1>8, <1>13, <2>3, <3>1, <3>4, <3>5 DEF PatientInv
  <2>7. CASE console = "ble"
    <3>1. Len(s_command_queue) = 0 /\ BLE_CMD_QUEUE_DEPTH # 0
      BY Sizes
    <3>2. processed' = processed /\ s_command_queue' = Append(<<>>, v) /\ refused' = {}
      BY <1>13, <2>2, <2>4, <2>5, <2>7, <3>1 DEF Yield, queue_line
    <3>3. Append(<<>>, v) = <<v>>
      OBVIOUS
    <3>4. s_command_queue' = <<Command(m)'>>
      BY <2>5, <3>2, <3>3
    <3>5. s_command_queue' = <<Command(Len(sent))>>'
      BY <1>1, <1>8, <3>4
    <3>6. Len(sent') > 0 /\ Len(processed') = Len(sent') - 1
      BY <1>8, <3>2
    <3> QED
      BY <1>8, <1>13, <2>3, <3>2, <3>5, <3>6 DEF PatientInv
  <2> QED
    BY <2>6, <2>7 DEF InputTypes
<1>15. CASE e # k + 1
  <2>1. a < k /\ c.c # "\n"
    BY <1>2, <1>10, <1>11, <1>12, <1>15
  <2>2. Len(line) < CMD_RX_BUF_SIZE - 1 /\ ~(Len(line) >= CMD_RX_BUF_SIZE - 1)
    BY <1>2, <1>3, <1>4, <2>1, Sizes
  <2>3. line' = Append(l, c) /\ NoCommand
    <3>1. CASE line = <<>>
      <4>1. a = 0 /\ c = ByteAt(m, 1)
        BY <1>3, <1>4, <1>10, <3>1
      <4>2. c.c = "{"
        BY <1>2, <4>1, ByteFacts
      <4>3. Append(l, c) = <<c>>
        BY <1>3, <3>1
      <4> QED
        BY <1>8, <2>1, <2>2, <3>1, <4>2, <4>3, Zenon DEF TakeByte
    <3>2. CASE line # <<>>
      BY <1>3, <1>8, <2>1, <2>2, <3>2, Zenon DEF TakeByte
    <3> QED
      BY <3>1, <3>2
  <2>4. PICK u \in Seq(Byte) : u = Append(l, c)
    BY <1>9, OneMore
  <2>5. Len(u) = e /\ u[e] = c /\ \A i \in 1 .. a : u[i] = l[i]
    BY <1>4, <1>9, <1>11, <2>4, OneMore
  <2>6. Placed(u, 0, m)
    <3>1. ASSUME NEW i \in 1 .. Len(u) PROVE u[i] = ByteAt(m, 0 + i)
      <4>1. CASE i = e
        <5>1. 0 + i = a + 1
          BY <1>11, <4>1
        <5>2. u[i] = ByteAt(m, a + 1)
          BY <1>10, <2>5, <4>1
        <5> QED
          BY <5>1, <5>2, Zenon
      <4>2. CASE i # e
        <5>1. i \in 1 .. a
          BY <1>11, <2>5, <4>2
        <5> QED
          BY <1>4, <1>6, <2>5, <5>1 DEF Placed
      <4> QED
        BY <4>1, <4>2
    <3> QED
      BY <3>1 DEF Placed
  <2>7. Placed(t, e, m)
    <3>1. ASSUME NEW i \in 1 .. Len(t) PROVE t[i] = ByteAt(m, e + i)
      <4>1. PICK j \in 1 .. b : j = i + 1
        BY <1>9
      <4>2. t[i] = x[j] /\ a + j = e + i
        BY <1>9, <1>11, <4>1
      <4>3. x[j] = ByteAt(m, a + j)
        BY <1>4, <1>6 DEF Placed
      <4> QED
        BY <4>2, <4>3, Zenon
    <3> QED
      BY <3>1 DEF Placed
  <2>8. UnderWay(m)'
    <3>1. /\ p = Len(u) + Len(t) /\ q = Len(u) + Len(t) + Len(y) /\ e = Len(u)
          /\ Len(u) + Len(t) + Len(y) + Len(z) = k + 1 /\ Len(u) <= k
      <4>1. q + w = k + 1 /\ Len(t) = b - 1 /\ Len(u) = e
        BY <1>6, <1>9, <2>5
      <4> QED
        BY <1>2, <1>4, <1>5, <1>11, <2>1, <4>1, SMTT(60)
    <3>2. /\ Placed(u, 0, m) /\ Placed(t, Len(u), m) /\ Placed(y, Len(u) + Len(t), m)
          /\ Placed(z, Len(u) + Len(t) + Len(y), m)
      BY <1>6, <2>6, <2>7, <3>1, Zenon
    <3>3. Segments(u, t, y, z, m)
      BY <1>1, <3>1, <3>2, Zenon DEF Segments
    <3> QED
      BY <1>8, <2>3, <2>4, <3>3, UnderWayNext
  <2>9. /\ UnderWay(Len(sent))' /\ Len(sent') > 0 /\ Len(processed') = Len(sent') - 1
        /\ s_command_queue' = <<>> /\ refused' = {} /\ processed' = processed
    BY <1>1, <1>8, <1>13, <2>3, <2>8 DEF NoCommand
  <2> QED
    BY <1>8, <1>13, <2>9 DEF PatientInv
<1> QED
  BY <1>14, <1>15

(* A patient host's lines stay as they should.                             *)
LEMMA PatientKept == InputTypes /\ PatientInv /\ [InputNext]_inputVars => PatientInv'
<1> SUFFICES ASSUME InputTypes, PatientInv, [InputNext]_inputVars PROVE PatientInv'
  OBVIOUS
<1>1. ASSUME NEW r \in Requests, Send(r) PROVE PatientInv'
  BY <1>1, PatientSend
<1>2. CASE UNCHANGED inputVars
  <2>1. /\ sent' = sent /\ processed' = processed /\ s_command_queue' = s_command_queue
        /\ refused' = refused /\ cut' = cut /\ overrun' = overrun /\ patient' = patient
        /\ line' = line /\ data' = data /\ ring' = ring /\ wire' = wire
    BY <1>2 DEF inputVars
  <2>2. (UnderWay(Len(sent))' <=> UnderWay(Len(sent))) /\ (Idle' <=> Idle)
    BY <2>1 DEF Idle, UnderWay, Segments, Placed, ByteAt
  <2>3. \A n : Command(n)' = Command(n)
    BY <2>1, SameLines
  <2>4. Command(Len(sent))' = Command(Len(sent))
    BY <2>1 DEF Command
  <2> QED
    BY <2>1, <2>2, <2>3, <2>4 DEF PatientInv
<1>3. CASE LineCut
  BY <1>3 DEF LineCut, PatientInv
<1>4. patient' = patient \/ \E r \in Requests : Send(r)
  BY DEF InputNext, inputVars, UartInterrupt, gatt_access_cb, uart_command_task, feed_rx_bytes,
         command_task, LineCut
<1>5. ASSUME patient, \/ \E n \in 1 .. MaxChunk : UartInterrupt(n) \/ gatt_access_cb(n)
                      \/ uart_command_task
      PROVE  PatientInv'
  <2>1. /\ sent' = sent /\ processed' = processed /\ s_command_queue' = s_command_queue
        /\ refused' = refused /\ cut' = cut
    BY <1>5 DEF UartInterrupt, gatt_access_cb, uart_command_task
  <2>2. wire # <<>> \/ ring # <<>>
    <3>1. CASE uart_command_task
      BY <3>1 DEF uart_command_task
    <3>2. ASSUME NEW n \in 1 .. MaxChunk, UartInterrupt(n) \/ gatt_access_cb(n) PROVE wire # <<>>
      <4>1. n <= Len(wire) /\ n >= 1 /\ n \in Nat /\ MaxChunk \in Nat
        BY <3>2, Sizes DEF UartInterrupt, gatt_access_cb, Deliver
      <4> QED
        BY <4>1
    <3> QED
      BY <1>5, <3>1, <3>2
  <2>3. Len(sent) > 0 /\ Len(processed) = Len(sent) - 1 /\ s_command_queue = <<>> /\ UnderWay(Len(sent))
    BY <1>5, <2>2 DEF PatientInv, Idle
  <2>4. UnderWay(Len(sent))' /\ overrun' = {}
    BY <1>5, <2>3, PatientMoves
  <2>5. \A n : Command(n)' = Command(n)
    BY <2>1, SameLines
  <2> QED
    BY <1>5, <2>1, <2>3, <2>4, <2>5 DEF PatientInv
<1>6. ASSUME patient, feed_rx_bytes PROVE PatientInv'
  <2>1. Len(sent) > 0 /\ Len(processed) = Len(sent) - 1 /\ s_command_queue = <<>> /\ UnderWay(Len(sent))
    BY <1>6 DEF PatientInv, Idle, feed_rx_bytes
  <2> QED
    BY <1>6, <2>1, PatientTakes
<1>7. ASSUME patient, command_task PROVE PatientInv'
  <2>1. /\ sent' = sent /\ line' = line /\ data' = data /\ ring' = ring /\ wire' = wire
        /\ refused' = refused /\ cut' = cut /\ overrun' = overrun /\ patient' = patient
    BY <1>7 DEF command_task
  <2>2. PICK m, v : m = Len(sent) /\ v = Command(m)
    OBVIOUS
  <2>3. m > 0 /\ Len(processed) = m - 1 /\ s_command_queue = <<v>> /\ Idle
    BY <1>7, <2>2 DEF PatientInv, command_task
  <2>4. Head(<<v>>) = v /\ Tail(<<v>>) = <<>>
    OBVIOUS
  <2>5. processed' = Append(processed, v) /\ s_command_queue' = <<>>
    BY <1>7, <2>3, <2>4 DEF command_task
  <2>6. processed \in Seq(Seq(Byte)) /\ m \in Nat
    BY <2>2 DEF InputTypes
  <2>7. v \in Seq(Byte)
    BY <2>2, <2>3, <2>6, CommandFacts
  <2>8. /\ Len(processed') = m /\ DOMAIN processed' = 1 .. m /\ processed'[m] = v
        /\ \A i \in 1 .. m - 1 : processed'[i] = processed[i] /\ i \in DOMAIN processed
    BY <2>3, <2>5, <2>6, <2>7
  <2>9. \A n : Command(n)' = Command(n)
    BY <2>1, SameLines
  <2>10. \A i \in DOMAIN processed : processed[i] = Command(i)
    BY <1>7 DEF PatientInv
  <2>11. ASSUME NEW i \in DOMAIN processed' PROVE processed'[i] = Command(i)'
    <3>1. CASE i = m
      BY <2>2, <2>8, <2>9, <3>1
    <3>2. CASE i # m
      BY <2>6, <2>8, <2>9, <2>10, <3>2
    <3> QED
      BY <3>1, <3>2
  <2>12. Idle' /\ Len(processed') = Len(sent')
    BY <2>1, <2>2, <2>3, <2>8 DEF Idle
  <2> QED
    BY <1>7, <2>1, <2>5, <2>11, <2>12 DEF PatientInv
<1>8. CASE ~patient
  BY <1>1, <1>4, <1>8 DEF PatientInv
<1> QED
  BY <1>1, <1>2, <1>3, <1>5, <1>6, <1>7, <1>8 DEF InputNext

(* The start.                                                              *)
LEMMA PatientStart == InputInit => InputTypes /\ PatientInv
<1> SUFFICES ASSUME InputInit PROVE InputTypes /\ PatientInv
  OBVIOUS
<1>1. Origin \in Byte
  BY DEF Origin, Byte, Char
<1>2. InputTypes
  BY <1>1, Sizes DEF InputInit, InputTypes
<1>3. PatientInv
  BY DEF InputInit, PatientInv, Idle
<1> QED
  BY <1>2, <1>3

(* uart_command_task, feed_rx_bytes and command_task: a host that keeps    *)
(* its lines short and waits for each answer has every line processed,     *)
(* once, whole and in order, whatever the sizes of the buffers and however *)
(* late the tasks come to it.                                              *)
THEOREM PatientServed == InputSpec => []PatientHostServed
<1>1. InputTypes /\ PatientInv => PatientHostServed
  <2> SUFFICES ASSUME InputTypes, PatientInv, patient PROVE PatientHostServed
    BY DEF PatientHostServed
  <2>1. Len(processed) = Len(sent) \/ Len(processed) = Len(sent) - 1
    BY DEF PatientInv
  <2> QED
    BY <2>1 DEF PatientInv, PatientHostServed
<1> QED
  BY <1>1, PatientStart, TypesKept, PatientKept, PTL DEF InputSpec

-----------------------------------------------------------------------------
(* What sequences hold.                                                    *)
LEMMA HeldParts ==
  ASSUME NEW S, NEW s \in Seq(S), NEW n \in 0 .. Len(s)
  PROVE  ToSet(s) = ToSet(SubSeq(s, 1, n)) \cup ToSet(SubSeq(s, n + 1, Len(s)))
<1>1. PICK t, u : t = SubSeq(s, 1, n) /\ u = SubSeq(s, n + 1, Len(s))
  OBVIOUS
<1>2. /\ t \in Seq(S) /\ Len(t) = n /\ \A i \in 1 .. n : t[i] = s[i]
      /\ u \in Seq(S) /\ Len(u) = Len(s) - n /\ \A i \in 1 .. Len(s) - n : u[i] = s[n + i]
  BY <1>1, Parts
<1>3. DOMAIN s = 1 .. Len(s) /\ DOMAIN t = 1 .. n /\ DOMAIN u = 1 .. Len(s) - n
  BY <1>2
<1>4. ASSUME NEW i \in 1 .. Len(s) PROVE s[i] \in ToSet(t) \cup ToSet(u)
  <2>1. CASE i <= n
    BY <1>2, <1>3, <2>1 DEF ToSet
  <2>2. CASE i > n
    <3>1. i - n \in 1 .. Len(s) - n
      BY <2>2
    <3>2. PICK j \in 1 .. Len(s) - n : j = i - n
      BY <3>1
    <3>3. n + j = i
      BY <3>2
    <3> QED
      BY <1>2, <1>3, <3>3 DEF ToSet
  <2> QED
    BY <2>1, <2>2
<1>5. ASSUME NEW i \in 1 .. n PROVE t[i] \in ToSet(s)
  BY <1>2, <1>3 DEF ToSet
<1>6. ASSUME NEW i \in 1 .. Len(s) - n PROVE u[i] \in ToSet(s)
  <2>1. n + i \in 1 .. Len(s)
    OBVIOUS
  <2> QED
    BY <1>2, <1>3, <2>1 DEF ToSet
<1>7. ToSet(s) \subseteq ToSet(t) \cup ToSet(u)
  BY <1>3, <1>4 DEF ToSet
<1>8. ToSet(t) \subseteq ToSet(s) /\ ToSet(u) \subseteq ToSet(s)
  BY <1>3, <1>5, <1>6 DEF ToSet
<1> QED
  BY <1>1, <1>7, <1>8

(* ... joined ...                                                          *)
LEMMA HeldJoined ==
  ASSUME NEW S, NEW s \in Seq(S), NEW t \in Seq(S)
  PROVE  ToSet(s \o t) = ToSet(s) \cup ToSet(t)
<1>1. PICK u : u = s \o t
  OBVIOUS
<1>2. u \in Seq(S) /\ Len(u) = Len(s) + Len(t)
  BY <1>1, Joined
<1>3. PICK a, b \in Nat : a = Len(s) /\ b = Len(t)
  OBVIOUS
<1>4. DOMAIN u = 1 .. a + b /\ DOMAIN s = 1 .. a /\ DOMAIN t = 1 .. b
  BY <1>2, <1>3
<1>5. (\A i \in 1 .. a : u[i] = s[i]) /\ (\A j \in 1 .. b : u[a + j] = t[j])
  BY <1>1, <1>3, Joined
<1>6. ASSUME NEW i \in 1 .. a + b PROVE u[i] \in ToSet(s) \cup ToSet(t)
  <2>1. CASE i <= a
    <3>1. i \in 1 .. a
      BY <2>1
    <3> QED
      BY <1>4, <1>5, <3>1 DEF ToSet
  <2>2. CASE i > a
    <3>1. i - a \in 1 .. b
      BY <2>2
    <3>2. PICK j \in 1 .. b : j = i - a
      BY <3>1
    <3>3. a + j = i
      BY <3>2
    <3> QED
      BY <1>4, <1>5, <3>3 DEF ToSet
  <2> QED
    BY <2>1, <2>2
<1>7. ASSUME NEW i \in 1 .. a PROVE s[i] \in ToSet(u)
  <2>1. i \in 1 .. a + b
    OBVIOUS
  <2> QED
    BY <1>4, <1>5, <2>1 DEF ToSet
<1>8. ASSUME NEW j \in 1 .. b PROVE t[j] \in ToSet(u)
  <2>1. a + j \in 1 .. a + b
    OBVIOUS
  <2> QED
    BY <1>4, <1>5, <2>1 DEF ToSet
<1>9. ToSet(u) \subseteq ToSet(s) \cup ToSet(t)
  BY <1>4, <1>6 DEF ToSet
<1>10. ToSet(s) \subseteq ToSet(u) /\ ToSet(t) \subseteq ToSet(u)
  BY <1>4, <1>7, <1>8 DEF ToSet
<1> QED
  BY <1>1, <1>9, <1>10

(* ... without the first ...                                               *)
LEMMA HeldOneLess ==
  ASSUME NEW S, NEW s \in Seq(S), s # <<>>
  PROVE  ToSet(s) = {Head(s)} \cup ToSet(Tail(s))
<1>1. PICK t, h : t = Tail(s) /\ h = Head(s)
  OBVIOUS
<1>2. PICK n \in Nat : n = Len(s)
  OBVIOUS
<1>3. /\ n > 0 /\ h = s[1] /\ t \in Seq(S) /\ Len(t) = n - 1 /\ \A i \in 1 .. n - 1 : t[i] = s[i + 1]
  BY <1>1, <1>2, OneLess
<1>4. DOMAIN s = 1 .. n /\ DOMAIN t = 1 .. n - 1
  BY <1>2, <1>3
<1>5. ASSUME NEW i \in 1 .. n PROVE s[i] \in {h} \cup ToSet(t)
  <2>1. CASE i = 1
    BY <1>3, <2>1
  <2>2. CASE i # 1
    <3>1. i - 1 \in 1 .. n - 1
      BY <2>2
    <3>2. PICK j \in 1 .. n - 1 : j = i - 1
      BY <3>1
    <3>3. j + 1 = i
      BY <3>2
    <3> QED
      BY <1>3, <1>4, <3>3 DEF ToSet
  <2> QED
    BY <2>1, <2>2
<1>6. ASSUME NEW i \in 1 .. n - 1 PROVE t[i] \in ToSet(s)
  <2>1. i + 1 \in 1 .. n
    OBVIOUS
  <2> QED
    BY <1>3, <1>4, <2>1 DEF ToSet
<1>7. h \in ToSet(s)
  BY <1>3, <1>4 DEF ToSet
<1>8. ToSet(s) \subseteq {h} \cup ToSet(t)
  BY <1>4, <1>5 DEF ToSet
<1>9. ToSet(t) \subseteq ToSet(s)
  BY <1>4, <1>6 DEF ToSet
<1> QED
  BY <1>1, <1>7, <1>8, <1>9

(* ... and with one more.                                                  *)
LEMMA HeldOneMore ==
  ASSUME NEW S, NEW s \in Seq(S), NEW x \in S
  PROVE  ToSet(Append(s, x)) = ToSet(s) \cup {x}
<1>1. PICK t : t = Append(s, x)
  OBVIOUS
<1>2. PICK n \in Nat : n = Len(s)
  OBVIOUS
<1>3. t \in Seq(S) /\ Len(t) = n + 1 /\ t[n + 1] = x /\ \A i \in 1 .. n : t[i] = s[i]
  BY <1>1, <1>2, OneMore
<1>4. DOMAIN s = 1 .. n /\ DOMAIN t = 1 .. n + 1
  BY <1>2, <1>3
<1>5. ASSUME NEW i \in 1 .. n + 1 PROVE t[i] \in ToSet(s) \cup {x}
  <2>1. CASE i = n + 1
    BY <1>3, <2>1
  <2>2. CASE i # n + 1
    <3>1. i \in 1 .. n
      BY <2>2
    <3> QED
      BY <1>3, <1>4, <3>1 DEF ToSet
  <2> QED
    BY <2>1, <2>2
<1>6. ASSUME NEW i \in 1 .. n PROVE s[i] \in ToSet(t)
  <2>1. i \in 1 .. n + 1
    OBVIOUS
  <2> QED
    BY <1>3, <1>4, <2>1 DEF ToSet
<1>7. x \in ToSet(t)
  <2>1. n + 1 \in 1 .. n + 1
    OBVIOUS
  <2> QED
    BY <1>3, <1>4, <2>1 DEF ToSet
<1>8. ToSet(t) \subseteq ToSet(s) \cup {x}
  BY <1>4, <1>5 DEF ToSet
<1>9. ToSet(s) \subseteq ToSet(t)
  BY <1>4, <1>6 DEF ToSet
<1> QED
  BY <1>1, <1>7, <1>8, <1>9

(* The order of bytes.                                                     *)
LEMMA BeforeFacts ==
  ASSUME NEW x \in Byte, NEW y \in Byte
  PROVE  /\ ~(Before(x, y) /\ Before(y, x)) /\ ~Before(x, x)
         /\ Before(x, y) \/ Before(y, x) \/ (x.line = y.line /\ x.at = y.at)
         /\ \A z \in Byte : Before(x, y) /\ Before(y, z) => Before(x, z)
<1>1. x.line \in Nat /\ x.at \in Nat /\ y.line \in Nat /\ y.at \in Nat
  BY DEF Byte
<1>2. ASSUME NEW z \in Byte, Before(x, y), Before(y, z) PROVE Before(x, z)
  <2>1. z.line \in Nat /\ z.at \in Nat
    BY DEF Byte
  <2> QED
    BY <1>1, <1>2, <2>1 DEF Before
<1>3. ~(Before(x, y) /\ Before(y, x)) /\ ~Before(x, x)
  BY <1>1 DEF Before
<1>4. Before(x, y) \/ Before(y, x) \/ (x.line = y.line /\ x.at = y.at)
  BY <1>1 DEF Before
<1> QED
  BY <1>2, <1>3, <1>4

(* Ordered sequences, in parts ...                                         *)
LEMMA OrderedParts ==
  ASSUME NEW S, NEW s \in Seq(S), NEW n \in 0 .. Len(s), Ordered(s)
  PROVE  /\ Ordered(SubSeq(s, 1, n)) /\ Ordered(SubSeq(s, n + 1, Len(s)))
         /\ AllBefore(ToSet(SubSeq(s, 1, n)), ToSet(SubSeq(s, n + 1, Len(s))))
<1>1. PICK t, u : t = SubSeq(s, 1, n) /\ u = SubSeq(s, n + 1, Len(s))
  OBVIOUS
<1>2. /\ t \in Seq(S) /\ Len(t) = n /\ u \in Seq(S) /\ Len(u) = Len(s) - n
      /\ \A i \in 1 .. n : t[i] = s[i]
      /\ \A i \in 1 .. Len(s) - n : u[i] = s[n + i]
  BY <1>1, Parts
<1>3. DOMAIN s = 1 .. Len(s) /\ DOMAIN t = 1 .. n /\ DOMAIN u = 1 .. Len(s) - n /\ Len(s) \in Nat
  BY <1>2
<1>4. \A i, j \in 1 .. Len(s) : i < j => Before(s[i], s[j])
  BY <1>3 DEF Ordered
<1>5. ASSUME NEW i \in 1 .. n, NEW j \in 1 .. n, i < j PROVE Before(t[i], t[j])
  <2>1. i \in 1 .. Len(s) /\ j \in 1 .. Len(s)
    BY <1>3
  <2> QED
    BY <1>2, <1>4, <1>5, <2>1
<1>6. ASSUME NEW i \in 1 .. Len(s) - n, NEW j \in 1 .. Len(s) - n, i < j PROVE Before(u[i], u[j])
  <2>1. n + i \in 1 .. Len(s) /\ n + j \in 1 .. Len(s) /\ n + i < n + j
    BY <1>3, <1>6
  <2>2. Before(s[n + i], s[n + j])
    BY <1>4, <2>1
  <2> QED
    BY <1>2, <2>2
<1>7. ASSUME NEW i \in 1 .. n, NEW j \in 1 .. Len(s) - n PROVE Before(t[i], u[j])
  <2>1. i \in 1 .. Len(s) /\ n + j \in 1 .. Len(s) /\ i < n + j
    BY <1>3
  <2>2. Before(s[i], s[n + j])
    BY <1>4, <2>1
  <2> QED
    BY <1>2, <2>2
<1>8. Ordered(t) /\ Ordered(u)
  BY <1>3, <1>5, <1>6 DEF Ordered
<1>9. AllBefore(ToSet(t), ToSet(u))
  BY <1>3, <1>7 DEF AllBefore, ToSet
<1> QED
  BY <1>1, <1>8, <1>9

(* ... joined ...                                                          *)
LEMMA OrderedJoined ==
  ASSUME NEW S, NEW s \in Seq(S), NEW t \in Seq(S), Ordered(s), Ordered(t),
         AllBefore(ToSet(s), ToSet(t))
  PROVE  Ordered(s \o t)
<1>1. PICK u : u = s \o t
  OBVIOUS
<1>2. PICK a, b \in Nat : a = Len(s) /\ b = Len(t)
  OBVIOUS
<1>3. u \in Seq(S) /\ Len(u) = a + b
  BY <1>1, <1>2, Joined
<1>4. (\A i \in 1 .. a : u[i] = s[i]) /\ (\A j \in 1 .. b : u[a + j] = t[j])
  BY <1>1, <1>2, Joined
<1>5. DOMAIN s = 1 .. a /\ DOMAIN t = 1 .. b /\ DOMAIN u = 1 .. a + b
  BY <1>2, <1>3
<1>6. ASSUME NEW i \in 1 .. a + b, NEW j \in 1 .. a + b, i < j PROVE Before(u[i], u[j])
  <2>1. CASE j <= a
    <3>1. i \in 1 .. a /\ j \in 1 .. a
      BY <1>6, <2>1
    <3> QED
      BY <1>4, <1>5, <1>6, <3>1 DEF Ordered
  <2>2. CASE i <= a /\ j > a
    <3>1. i \in 1 .. a /\ j - a \in 1 .. b
      BY <2>2
    <3>2. PICK q \in 1 .. b : q = j - a
      BY <3>1
    <3>3. a + q = j
      BY <3>2
    <3>4. u[i] = s[i] /\ u[j] = t[q] /\ s[i] \in ToSet(s) /\ t[q] \in ToSet(t)
      BY <1>4, <1>5, <3>1, <3>3 DEF ToSet
    <3> QED
      BY <3>4 DEF AllBefore
  <2>3. CASE i > a
    <3>1. i - a \in 1 .. b /\ j - a \in 1 .. b /\ i - a < j - a
      BY <1>6, <2>3
    <3>2. PICK p, q \in 1 .. b : p = i - a /\ q = j - a /\ p < q
      BY <3>1
    <3>3. a + p = i /\ a + q = j
      BY <3>2
    <3>4. u[i] = t[p] /\ u[j] = t[q]
      BY <1>4, <3>3
    <3> QED
      BY <1>5, <3>2, <3>4 DEF Ordered
  <2> QED
    BY <2>1, <2>2, <2>3
<1> QED
  BY <1>1, <1>5, <1>6 DEF Ordered

(* ... and without the first.                                              *)
LEMMA OrderedOneLess ==
  ASSUME NEW S, NEW s \in Seq(S), s # <<>>, Ordered(s)
  PROVE  Ordered(Tail(s)) /\ AllBefore({Head(s)}, ToSet(Tail(s)))
<1>1. PICK t, h : t = Tail(s) /\ h = Head(s)
  OBVIOUS
<1>2. PICK n \in Nat : n = Len(s)
  OBVIOUS
<1>3. /\ n > 0 /\ h = s[1] /\ t \in Seq(S) /\ Len(t) = n - 1 /\ \A i \in 1 .. n - 1 : t[i] = s[i + 1]
  BY <1>1, <1>2, OneLess
<1>4. DOMAIN s = 1 .. n /\ DOMAIN t = 1 .. n - 1
  BY <1>2, <1>3
<1>5. \A i, j \in 1 .. n : i < j => Before(s[i], s[j])
  BY <1>4 DEF Ordered
<1>6. ASSUME NEW i \in 1 .. n - 1, NEW j \in 1 .. n - 1, i < j PROVE Before(t[i], t[j])
  <2>1. i + 1 \in 1 .. n /\ j + 1 \in 1 .. n /\ i + 1 < j + 1
    BY <1>6
  <2>2. Before(s[i + 1], s[j + 1])
    BY <1>5, <2>1
  <2> QED
    BY <1>3, <2>2
<1>7. ASSUME NEW i \in 1 .. n - 1 PROVE Before(h, t[i])
  <2>1. i + 1 \in 1 .. n /\ 1 \in 1 .. n /\ 1 < i + 1
    BY <1>3
  <2>2. Before(s[1], s[i + 1])
    BY <1>5, <2>1
  <2> QED
    BY <1>3, <2>2
<1>8. Ordered(t)
  BY <1>4, <1>6 DEF Ordered
<1>9. AllBefore({h}, ToSet(t))
  BY <1>4, <1>7 DEF AllBefore, ToSet
<1> QED
  BY <1>1, <1>8, <1>9

-----------------------------------------------------------------------------
(* The bytes in flight.                                                    *)
LEMMA Held == ASSUME NEW S, NEW s \in Seq(S) PROVE ToSet(s) \subseteq S
<1>1. \A i \in DOMAIN s : s[i] \in S
  OBVIOUS
<1> QED
  BY <1>1 DEF ToSet

(* Bytes move on, or are lost with their line; the order is kept.          *)
LEMMA LossKept ==
  ASSUME LossInv, sent' = sent, seen' = seen, cut \subseteq cut', overrun \subseteq overrun',
         \A b \in InFlight : b \in InFlight' \/ b.line \in cut' \cup overrun'
  PROVE  LossInv'
<1> SUFFICES ASSUME NEW n \in 1 .. Len(sent'), NEW p \in 1 .. Len(sent'[n]) + 1,
                    Before(seen', ByteAt(n, p))
             PROVE  Torn(n)' \/ ByteAt(n, p) \in InFlight'
  <2>1. \A n, p : ByteAt(n, p)' = ByteAt(n, p)
    BY SameLines
  <2> QED
    BY <2>1 DEF LossInv, Before
<1>1. Torn(n) \/ ByteAt(n, p) \in InFlight
  BY DEF LossInv
<1>2. ByteAt(n, p).line = n
  BY DEF ByteAt
<1> QED
  BY <1>1, <1>2 DEF Torn

(* More damage takes nothing away from what was got right.                 *)
LEMMA DamageGrows ==
  ASSUME LineInv, GoodInv, TakenInv, sent' = sent, seen' = seen, line' = line,
         cut \subseteq cut', overrun \subseteq overrun', Taken' = Taken
  PROVE  LineInv' /\ GoodInv' /\ TakenInv'
<1>1. \A n : Spoilt(n) => Spoilt(n)'
  BY DEF Spoilt, Torn
<1>2. /\ \A n : Command(n)' = Command(n)
      /\ \A b : Valid(b)' <=> Valid(b)
      /\ \A s, n : Beginning(s, n)' <=> Beginning(s, n)
  BY SameLines
<1>3. \A s : AllSpoilt(s) => AllSpoilt(s)'
  BY <1>1 DEF AllSpoilt
<1>4. PICK l, m : l = line /\ m = seen.line
  OBVIOUS
<1>5. LineInv'
  <2>1. l # <<>> => /\ seen = l[Len(l)] /\ seen.c # "\n" /\ \A i \in DOMAIN l : Valid(l[i])
                    /\ Beginning(l, m) \/ AllSpoilt(l)
    BY <1>4 DEF LineInv
  <2>2. l # <<>> => /\ seen' = l[Len(l)] /\ seen'.c # "\n" /\ \A i \in DOMAIN l : Valid(l[i])'
                    /\ Beginning(l, m)' \/ AllSpoilt(l)'
    BY <1>2, <1>3, <2>1
  <2>3. l = line' /\ m = seen'.line
    BY <1>4
  <2> QED
    BY <2>2, <2>3 DEF LineInv, Beginning, AllSpoilt
<1>6. GoodInv'
  <2>1. ASSUME NEW n \in 1 .. Len(sent), ~Spoilt(n)'
        PROVE  /\ seen'.line = n /\ seen'.at <= Len(sent[n]) => line' # <<>> /\ Beginning(l, n)'
               /\ Passed(n)' => Command(n)' \in Taken'
    <3>1. ~Spoilt(n)
      BY <1>1, <2>1
    <3>2. /\ seen.line = n /\ seen.at <= Len(sent[n]) => line # <<>> /\ Beginning(l, n)
          /\ Passed(n) => Command(n) \in Taken
      BY <1>4, <3>1 DEF GoodInv
    <3>3. Passed(n)' <=> Passed(n)
      BY DEF Passed
    <3> QED
      BY <1>2, <3>2, <3>3
  <2>2. \A n : Beginning(l, n)' => Beginning(line, n)'
    BY <1>4 DEF Beginning
  <2> QED
    BY <2>1, <2>2 DEF GoodInv
<1>7. TakenInv'
  <2>1. ASSUME NEW c \in Taken
        PROVE  /\ c # <<>> /\ \A i \in DOMAIN c : Valid(c[i])'
               /\ c = Command(Last(c).line)' \/ AllSpoilt(c)'
    <3>1. /\ c # <<>> /\ \A i \in DOMAIN c : Valid(c[i])
          /\ c = Command(Last(c).line) \/ AllSpoilt(c)
      BY DEF TakenInv
    <3> QED
      BY <1>2, <1>3, <3>1
  <2> QED
    BY <2>1 DEF TakenInv
<1> QED
  BY <1>5, <1>6, <1>7

(* The interrupt and the reads.                                            *)
LEMMA UartInterruptStep ==
  ASSUME InputTypes, StreamInv, NEW n \in 1 .. MaxChunk, UartInterrupt(n)
  PROVE  StreamInv' /\ \A b \in InFlight : b \in InFlight' \/ b.line \in cut' \cup overrun'
<1>1. PICK k : k = Kept(n)
  OBVIOUS
<1>2. PICK x, y, z \in Seq(Byte) : x = data /\ y = ring /\ z = wire
  BY DEF InputTypes
<1>3. PICK t, u, v, o : /\ t = SubSeq(z, 1, k) /\ u = SubSeq(z, n + 1, Len(z)) /\ v = SubSeq(z, 1, n)
                        /\ o = SubSeq(v, k + 1, Len(v))
  OBVIOUS
<1>4. n \in 0 .. Len(z) /\ k \in 0 .. n /\ k \in 0 .. Len(z)
  BY <1>1, <1>2, KeptFacts
<1>5. /\ wire' = u /\ ring' = y \o t /\ data' = x /\ sent' = sent /\ seen' = seen /\ cut' = cut
      /\ overrun' = overrun \cup {z[i].line : i \in k + 1 .. n}
  <2>1. /\ wire' = SubSeq(wire, n + 1, Len(wire)) /\ ring' = ring \o SubSeq(wire, 1, Kept(n))
        /\ overrun' = overrun \cup {wire[i].line : i \in Kept(n) + 1 .. n}
    BY KeptFacts
  <2> QED
    BY <1>1, <1>2, <1>3, <2>1 DEF UartInterrupt
<1>6. v \in Seq(Byte) /\ Len(v) = n /\ u \in Seq(Byte) /\ t \in Seq(Byte) /\ Len(t) = k
      /\ \A i \in 1 .. n : v[i] = z[i]
  BY <1>3, <1>4, Parts
<1>7. t = SubSeq(v, 1, k)
  <2>1. k \in 0 .. Len(v)
    BY <1>4, <1>6
  <2>2. PICK s : s = SubSeq(v, 1, k)
    OBVIOUS
  <2>3. s \in Seq(Byte) /\ Len(s) = k /\ \A i \in 1 .. k : s[i] = v[i]
    BY <1>6, <2>1, <2>2, Parts
  <2>4. \A i \in 1 .. k : t[i] = z[i]
    BY <1>3, <1>4, Parts
  <2>5. \A i \in 1 .. k : i \in 1 .. n
    BY <1>4
  <2>6. \A i \in 1 .. k : t[i] = s[i]
    BY <1>6, <2>3, <2>4, <2>5
  <2>7. t = s
    BY <1>6, <2>3, <2>6, SameElements
  <2> QED
    BY <2>2, <2>7
<1>8. ToSet(z) = ToSet(v) \cup ToSet(u) /\ ToSet(v) = ToSet(t) \cup ToSet(o) /\ ToSet(ring') = ToSet(y) \cup ToSet(t)
  <2>1. k \in 0 .. Len(v)
    BY <1>4, <1>6
  <2>2. ToSet(z) = ToSet(v) \cup ToSet(u)
    BY <1>3, <1>4, HeldParts
  <2>3. ToSet(v) = ToSet(t) \cup ToSet(o)
    BY <1>3, <1>6, <1>7, <2>1, HeldParts
  <2>4. ToSet(ring') = ToSet(y) \cup ToSet(t)
    BY <1>5, <1>6, HeldJoined
  <2> QED
    BY <2>2, <2>3, <2>4
<1>9. \A b \in ToSet(o) : b.line \in overrun'
  <2>1. k \in 0 .. Len(v)
    BY <1>4, <1>6
  <2>2. o \in Seq(Byte) /\ Len(o) = n - k /\ \A i \in 1 .. n - k : o[i] = v[k + i]
    BY <1>3, <1>6, <2>1, Parts
  <2>3. ASSUME NEW i \in 1 .. n - k PROVE o[i].line \in overrun'
    <3>1. k + i \in k + 1 .. n /\ k + i \in 1 .. n
      BY <1>4
    <3>2. PICK j \in k + 1 .. n : j = k + i
      BY <3>1
    <3>3. o[i] = z[j]
      BY <1>6, <2>2, <3>1, <3>2
    <3> QED
      BY <1>5, <3>3
  <2>4. DOMAIN o = 1 .. n - k
    BY <1>4, <2>2
  <2> QED
    BY <2>3, <2>4 DEF ToSet
<1>10. /\ Ordered(x) /\ Ordered(y) /\ Ordered(z)
       /\ AllBefore(ToSet(x), ToSet(y)) /\ AllBefore(ToSet(x), ToSet(z)) /\ AllBefore(ToSet(y), ToSet(z))
       /\ \A b \in ToSet(z) : b.line = Len(sent)
       /\ \A b \in ToSet(x) \cup ToSet(y) \cup ToSet(z) : Valid(b) /\ Before(seen, b)
  BY <1>2 DEF StreamInv, InFlight
<1>11. Ordered(v) /\ Ordered(u) /\ AllBefore(ToSet(v), ToSet(u))
  BY <1>3, <1>4, <1>10, OrderedParts
<1>12. Ordered(t)
  <2>1. k \in 0 .. Len(v)
    BY <1>4, <1>6
  <2> QED
    BY <1>6, <1>7, <1>11, <2>1, OrderedParts
<1>13. Ordered(ring')
  <2>1. AllBefore(ToSet(y), ToSet(t))
    BY <1>8, <1>10 DEF AllBefore
  <2> QED
    BY <1>5, <1>6, <1>10, <1>12, <2>1, OrderedJoined
<1>14. /\ ToSet(data') = ToSet(x) /\ ToSet(wire') = ToSet(u)
       /\ InFlight' = ToSet(x) \cup ToSet(ring') \cup ToSet(u)
       /\ InFlight = ToSet(x) \cup ToSet(y) \cup ToSet(z)
  BY <1>2, <1>5 DEF InFlight
<1>15. \A b : Valid(b)' <=> Valid(b)
  BY <1>5, SameLines
<1>16. /\ AllBefore(ToSet(x), ToSet(ring')) /\ AllBefore(ToSet(x), ToSet(u))
       /\ AllBefore(ToSet(ring'), ToSet(u)) /\ \A b \in ToSet(u) : b.line = Len(sent')
  BY <1>5, <1>8, <1>10, <1>11 DEF AllBefore
<1>17. \A b \in InFlight' : Valid(b)' /\ Before(seen', b)
  BY <1>5, <1>8, <1>10, <1>14, <1>15 DEF Before
<1>18. seen' = Origin \/ Valid(seen)'
  BY <1>5 DEF StreamInv, Valid, ByteAt
<1>19. StreamInv'
  BY <1>5, <1>10, <1>11, <1>13, <1>14, <1>16, <1>17, <1>18 DEF StreamInv, Ordered, AllBefore, Before
<1> QED
  BY <1>8, <1>9, <1>14, <1>19

(* A chunk is read once the one before has been looked at.                 *)
LEMMA ReadStep ==
  ASSUME InputTypes, StreamInv, uart_command_task
  PROVE  StreamInv' /\ \A b \in InFlight : b \in InFlight'
<1>1. PICK y, z \in Seq(Byte) : y = ring /\ z = wire
  BY DEF InputTypes
<1>2. PICK n : n = IF Len(y) < MaxChunk THEN Len(y) ELSE MaxChunk
  OBVIOUS
<1>3. PICK t, u : t = SubSeq(y, 1, n) /\ u = SubSeq(y, n + 1, Len(y))
  OBVIOUS
<1>4. /\ data = <<>> /\ data' = t /\ ring' = u /\ wire' = z /\ sent' = sent /\ seen' = seen
      /\ n \in 0 .. Len(y)
  BY <1>1, <1>2, <1>3, Sizes DEF uart_command_task
<1>5. ToSet(y) = ToSet(t) \cup ToSet(u) /\ ToSet(data) = {}
  <2>1. ToSet(y) = ToSet(t) \cup ToSet(u)
    BY <1>3, <1>4, HeldParts
  <2>2. ToSet(data) = {}
    BY <1>4 DEF ToSet
  <2> QED
    BY <2>1, <2>2
<1>6. /\ Ordered(y) /\ Ordered(z) /\ AllBefore(ToSet(y), ToSet(z))
      /\ \A b \in ToSet(z) : b.line = Len(sent)
      /\ \A b \in ToSet(y) \cup ToSet(z) : Valid(b) /\ Before(seen, b)
  BY <1>1 DEF StreamInv, InFlight
<1>7. Ordered(t) /\ Ordered(u) /\ AllBefore(ToSet(t), ToSet(u))
  BY <1>3, <1>4, <1>6, OrderedParts
<1>8. InFlight' = ToSet(y) \cup ToSet(z) /\ InFlight = ToSet(y) \cup ToSet(z)
  BY <1>1, <1>4, <1>5 DEF InFlight
<1>9. \A b : Valid(b)' <=> Valid(b)
  BY <1>4, SameLines
<1>10. AllBefore(ToSet(t), ToSet(z)) /\ AllBefore(ToSet(u), ToSet(z))
  BY <1>5, <1>6 DEF AllBefore
<1>11. \A b \in InFlight' : Valid(b)' /\ Before(seen', b)
  BY <1>4, <1>6, <1>8, <1>9 DEF Before
<1>12. seen' = Origin \/ Valid(seen)'
  BY <1>4 DEF StreamInv, Valid, ByteAt
<1>13. StreamInv'
  BY <1>4, <1>6, <1>7, <1>10, <1>11, <1>12 DEF StreamInv, Ordered, AllBefore, Before
<1> QED
  BY <1>8, <1>13

(* A write brings a chunk off the wire.                                    *)
LEMMA WriteStep ==
  ASSUME InputTypes, StreamInv, NEW n \in 1 .. MaxChunk, gatt_access_cb(n)
  PROVE  StreamInv' /\ \A b \in InFlight : b \in InFlight'
<1>1. PICK z \in Seq(Byte) : z = wire
  BY DEF InputTypes
<1>2. PICK t, u : t = SubSeq(z, 1, n) /\ u = SubSeq(z, n + 1, Len(z))
  OBVIOUS
<1>3. /\ data = <<>> /\ ring = <<>> /\ data' = t /\ ring' = <<>> /\ wire' = u /\ sent' = sent
      /\ seen' = seen /\ n \in 0 .. Len(z)
  BY <1>1, <1>2, Sizes DEF gatt_access_cb, Deliver, InputTypes
<1>4. ToSet(z) = ToSet(t) \cup ToSet(u) /\ ToSet(data) = {} /\ ToSet(ring) = {} /\ ToSet(ring') = {}
  <2>1. ToSet(z) = ToSet(t) \cup ToSet(u)
    BY <1>2, <1>3, HeldParts
  <2>2. ToSet(data) = {} /\ ToSet(ring) = {} /\ ToSet(ring') = {}
    BY <1>3 DEF ToSet
  <2> QED
    BY <2>1, <2>2
<1>5. /\ Ordered(z) /\ \A b \in ToSet(z) : b.line = Len(sent) /\ Valid(b) /\ Before(seen, b)
  BY <1>1 DEF StreamInv, InFlight
<1>6. Ordered(t) /\ Ordered(u) /\ AllBefore(ToSet(t), ToSet(u))
  BY <1>2, <1>3, <1>5, OrderedParts
<1>7. InFlight' = ToSet(z) /\ InFlight = ToSet(z)
  BY <1>1, <1>3, <1>4 DEF InFlight
<1>8. \A b : Valid(b)' <=> Valid(b)
  BY <1>3, SameLines
<1>9. \A b \in InFlight' : Valid(b)' /\ Before(seen', b)
  BY <1>3, <1>5, <1>7, <1>8 DEF Before
<1>10. seen' = Origin \/ Valid(seen)'
  BY <1>3 DEF StreamInv, Valid, ByteAt
<1>11. Ordered(<<>>)
  BY DEF Ordered
<1>12. /\ Ordered(data)' /\ Ordered(ring)' /\ Ordered(wire)'
       /\ AllBefore(ToSet(data'), ToSet(ring')) /\ AllBefore(ToSet(data'), ToSet(wire'))
       /\ AllBefore(ToSet(ring'), ToSet(wire')) /\ \A b \in ToSet(wire') : b.line = Len(sent')
  BY <1>3, <1>4, <1>5, <1>6, <1>11 DEF AllBefore, Ordered, Before
<1>13. StreamInv'
  BY <1>9, <1>10, <1>12 DEF StreamInv, AllBefore, Before
<1> QED
  BY <1>7, <1>13

(* A client that goes away takes the rest of its line with it.             *)
LEMMA CutStep ==
  ASSUME InputTypes, StreamInv, LineCut
  PROVE  StreamInv' /\ \A b \in InFlight : b \in InFlight' \/ b.line \in cut' \cup overrun'
<1>1. /\ wire' = <<>> /\ data' = data /\ ring' = ring /\ sent' = sent /\ seen' = seen
      /\ cut' = cut \cup {Len(sent)}
  BY DEF LineCut
<1>2. ToSet(wire') = {}
  BY <1>1 DEF ToSet
<1>3. InFlight' = ToSet(data) \cup ToSet(ring) /\ InFlight = ToSet(data) \cup ToSet(ring) \cup ToSet(wire)
  BY <1>1, <1>2 DEF InFlight
<1>4. \A b : Valid(b)' <=> Valid(b)
  BY <1>1, SameLines
<1>5. \A b \in InFlight' : Valid(b)' /\ Before(seen', b)
  BY <1>1, <1>3, <1>4 DEF Before, StreamInv
<1>6. seen' = Origin \/ Valid(seen)'
  BY <1>1 DEF StreamInv, Valid, ByteAt
<1>7. StreamInv'
  BY <1>1, <1>2, <1>5, <1>6 DEF StreamInv, Ordered, AllBefore, Before
<1>8. \A b \in ToSet(wire) : b.line \in cut'
  BY <1>1 DEF StreamInv
<1> QED
  BY <1>3, <1>7, <1>8

(* A command that waited is processed.                                     *)
LEMMA TaskKeepsTaken == ASSUME InputTypes, command_task PROVE Taken' = Taken
<1>1. PICK S : S = Seq(Byte)
  OBVIOUS
<1>2. PICK q, p \in Seq(S) : q = s_command_queue /\ p = processed
  BY <1>1 DEF InputTypes
<1>3. q # <<>> /\ s_command_queue' = Tail(q) /\ processed' = Append(p, Head(q)) /\ refused' = refused
  BY <1>2 DEF command_task
<1>4. ToSet(q) = {Head(q)} \cup ToSet(Tail(q)) /\ Head(q) \in S
  BY <1>3, HeldOneLess, OneLess
<1>5. ToSet(Append(p, Head(q))) = ToSet(p) \cup {Head(q)}
  BY <1>4, HeldOneMore
<1> QED
  BY <1>2, <1>3, <1>4, <1>5 DEF Taken

(* A new line comes after all that is in flight, and nothing of it is lost *)
(* or spoilt yet.                                                          *)
LEMMA SendStep ==
  ASSUME InputTypes, StreamInv, LossInv, LineInv, GoodInv, TakenInv, NEW r \in Requests, Send(r)
  PROVE  StreamInv' /\ LossInv' /\ LineInv' /\ GoodInv' /\ TakenInv'
<1>1. /\ wire = <<>> /\ sent' = Append(sent, r) /\ seen' = seen /\ data' = data /\ ring' = ring
      /\ line' = line /\ cut' = cut /\ overrun' = overrun /\ Taken' = Taken
  BY DEF Send, Taken
<1>2. PICK m : m = Len(sent')
  OBVIOUS
<1>3. /\ sent' \in Seq(Requests) /\ m = Len(sent) + 1 /\ sent'[m] = r /\ Len(sent) \in Nat
      /\ m \in Nat /\ \A n \in 1 .. Len(sent) : sent'[n] = sent[n]
  BY <1>1, <1>2, MoreLines DEF InputTypes
<1>4. /\ \A n \in 1 .. Len(sent) : \A p : ByteAt(n, p)' = ByteAt(n, p)
      /\ \A b : Valid(b) => Valid(b)'
  BY <1>1, MoreLines
<1>5. PICK k \in Nat \ {0} : k = Len(r)
  BY RequestFacts
<1>6. PICK z : z = wire'
  OBVIOUS
<1>7. z \in Seq(Byte) /\ Len(z) = k + 1 /\ \A i \in 1 .. k + 1 : z[i] = ByteAt(m, i)'
  BY <1>2, <1>5, <1>6, NewLine
<1>8. DOMAIN z = 1 .. k + 1
  BY <1>7
<1>9. \A p \in 1 .. k + 1 : ByteAt(m, p)'.line = m /\ ByteAt(m, p)'.at = p /\ Valid(ByteAt(m, p))'
  <2>1. ASSUME NEW p \in 1 .. k + 1
        PROVE  ByteAt(m, p)'.line = m /\ ByteAt(m, p)'.at = p /\ Valid(ByteAt(m, p))'
    <3>1. ByteAt(m, p)'.line = m /\ ByteAt(m, p)'.at = p
      BY DEF ByteAt
    <3>2. m \in 1 .. Len(sent') /\ p \in 1 .. Len(sent'[m]) + 1
      BY <1>2, <1>3, <1>5
    <3> QED
      BY <3>1, <3>2 DEF Valid
  <2> QED
    BY <2>1
<1>10. /\ \A b : Valid(b) => b.line \in 1 .. Len(sent)
       /\ seen.line \in 0 .. Len(sent)
  BY <1>3 DEF Valid, StreamInv, Origin
<1>11. \A b \in ToSet(z) : b.line = m /\ Valid(b)'
  BY <1>7, <1>8, <1>9 DEF ToSet
<1>12. Ordered(z)
  <2>1. ASSUME NEW i \in 1 .. k + 1, NEW j \in 1 .. k + 1, i < j PROVE Before(z[i], z[j])
    BY <1>7, <1>9, <2>1 DEF Before
  <2> QED
    BY <1>8, <2>1 DEF Ordered
<1>13. ToSet(wire) = {}
  BY <1>1 DEF ToSet
<1>14. InFlight = ToSet(data) \cup ToSet(ring) /\ InFlight' = InFlight \cup ToSet(z)
  BY <1>1, <1>6, <1>13 DEF InFlight
<1>15. \A b \in InFlight, c \in ToSet(z) : Before(b, c)
  BY <1>3, <1>10, <1>11 DEF StreamInv, Before
<1>16. \A c \in ToSet(z) : Before(seen, c)
  BY <1>3, <1>10, <1>11 DEF Before
<1>17. StreamInv'
  <2>1. \A b \in InFlight' : Valid(b)' /\ Before(seen', b)
    BY <1>1, <1>4, <1>11, <1>14, <1>16 DEF StreamInv, Before
  <2>2. seen' = Origin \/ Valid(seen)'
    <3>1. PICK b : b = seen
      OBVIOUS
    <3>2. b = Origin \/ Valid(b)'
      BY <1>4, <3>1 DEF StreamInv
    <3> QED
      BY <1>1, <3>1, <3>2
  <2>3. /\ AllBefore(ToSet(data), ToSet(z)) /\ AllBefore(ToSet(ring), ToSet(z))
    BY <1>14, <1>15 DEF AllBefore
  <2>4. \A b \in ToSet(wire') : b.line = Len(sent')
    BY <1>2, <1>6, <1>11
  <2>5. /\ Ordered(data)' /\ Ordered(ring)' /\ Ordered(wire)'
    BY <1>1, <1>6, <1>12 DEF StreamInv, Ordered, Before
  <2>6. /\ AllBefore(ToSet(data'), ToSet(ring')) /\ AllBefore(ToSet(data'), ToSet(wire'))
        /\ AllBefore(ToSet(ring'), ToSet(wire'))
    BY <1>1, <1>6, <2>3 DEF StreamInv
  <2> QED
    BY <2>1, <2>2, <2>4, <2>5, <2>6 DEF StreamInv, AllBefore, Before
<1>18. LossInv'
  <2>1. ASSUME NEW n \in 1 .. m, NEW p \in 1 .. Len(sent'[n]) + 1, Before(seen', ByteAt(n, p)')
        PROVE  Torn(n)' \/ ByteAt(n, p)' \in InFlight'
    <3>1. CASE n = m
      <4>1. p \in 1 .. k + 1
        BY <1>3, <1>5, <3>1
      <4>2. ByteAt(n, p)' \in ToSet(z)
        BY <1>7, <1>8, <3>1, <4>1 DEF ToSet
      <4> QED
        BY <1>14, <4>2
    <3>2. CASE n # m
      <4>1. n \in 1 .. Len(sent) /\ p \in 1 .. Len(sent[n]) + 1
        BY <1>3, <3>2
      <4>2. ByteAt(n, p)' = ByteAt(n, p)
        BY <1>4, <4>1
      <4>3. Torn(n) \/ ByteAt(n, p) \in InFlight
        BY <1>1, <2>1, <4>1, <4>2 DEF LossInv
      <4> QED
        BY <1>1, <1>14, <4>2, <4>3 DEF Torn
    <3> QED
      BY <3>1, <3>2
  <2> QED
    BY <1>2, <2>1 DEF LossInv, Before
<1>19. \A n \in 1 .. Len(sent) : Spoilt(n)' <=> Spoilt(n)
  BY <1>1, <1>3 DEF Spoilt, Torn
<1>20. \A n \in 1 .. Len(sent) : Command(n)' = Command(n)
  BY <1>3 DEF Command
<1>21. \A s : (\A i \in DOMAIN s : Valid(s[i])) /\ AllSpoilt(s) => AllSpoilt(s)'
  BY <1>10, <1>19 DEF AllSpoilt
<1>22. \A s : \A n \in 1 .. Len(sent) : Beginning(s, n)' <=> Beginning(s, n)
  BY <1>3, <1>4 DEF Beginning
<1>23. PICK l, h : l = line /\ h = seen
  OBVIOUS
<1>24. LineInv'
  <2>1. l # <<>> => /\ h = l[Len(l)] /\ h.c # "\n" /\ \A i \in DOMAIN l : Valid(l[i])
                    /\ Beginning(l, h.line) \/ AllSpoilt(l)
    BY <1>23 DEF LineInv
  <2>2. l # <<>> => h.line \in 1 .. Len(sent)
    <3>1. l # <<>> => Valid(h)
      <4>1. h # Origin => Valid(h)
        BY <1>23 DEF StreamInv
      <4>2. l # <<>> => h # Origin
        BY <2>1 DEF Origin
      <4> QED
        BY <4>1, <4>2
    <3> QED
      BY <1>10, <3>1
  <2>3. l # <<>> => /\ h = l[Len(l)] /\ h.c # "\n" /\ \A i \in DOMAIN l : Valid(l[i])'
                    /\ Beginning(l, h.line)' \/ AllSpoilt(l)'
    BY <1>4, <1>21, <1>22, <2>1, <2>2
  <2>4. line' = l /\ seen' = h
    BY <1>1, <1>23
  <2> QED
    BY <2>3, <2>4 DEF LineInv, Beginning, AllSpoilt
<1>25. GoodInv'
  <2>1. ASSUME NEW n \in 1 .. m, ~Spoilt(n)'
        PROVE  /\ h.line = n /\ h.at <= Len(sent'[n]) => l # <<>> /\ Beginning(l, n)'
               /\ Passed(n)' => Command(n)' \in Taken'
    <3>1. CASE n = m
      BY <1>1, <1>3, <1>10, <1>23, <3>1 DEF Passed
    <3>2. CASE n # m
      <4>1. n \in 1 .. Len(sent)
        BY <1>3, <3>2
      <4>2. /\ h.line = n /\ h.at <= Len(sent[n]) => l # <<>> /\ Beginning(l, n)
            /\ Passed(n) => Command(n) \in Taken
        BY <1>19, <1>23, <2>1, <4>1 DEF GoodInv
      <4>3. Passed(n)' <=> Passed(n)
        BY <1>1, <1>3, <4>1 DEF Passed
      <4> QED
        BY <1>1, <1>3, <1>20, <1>22, <4>1, <4>2, <4>3
    <3> QED
      BY <3>1, <3>2
  <2>2. line' = l /\ seen' = h
    BY <1>1, <1>23
  <2> QED
    BY <1>2, <2>1, <2>2 DEF GoodInv, Beginning
<1>26. TakenInv'
  <2>1. ASSUME NEW c \in Taken
        PROVE  /\ c # <<>> /\ \A i \in DOMAIN c : Valid(c[i])'
               /\ c = Command(Last(c).line)' \/ AllSpoilt(c)'
    <3>1. /\ c # <<>> /\ \A i \in DOMAIN c : Valid(c[i])
          /\ c = Command(Last(c).line) \/ AllSpoilt(c)
      BY DEF TakenInv
    <3>2. Last(c).line \in 1 .. Len(sent)
      <4>1. c \in Seq(Byte)
        BY Held DEF Taken, InputTypes
      <4>2. Len(c) \in DOMAIN c
        BY <3>1, <4>1
      <4> QED
        BY <1>10, <3>1, <4>2 DEF Last
    <3> QED
      BY <1>4, <1>20, <1>21, <3>1, <3>2
  <2> QED
    BY <1>1, <2>1 DEF TakenInv
<1> QED
  BY <1>17, <1>18, <1>24, <1>25, <1>26

-----------------------------------------------------------------------------
(* What was looked at, and what comes next.                                *)
LEMMA SeenFacts ==
  ASSUME InputTypes, StreamInv, feed_rx_bytes, NEW b, b = Head(data)
  PROVE  /\ b \in Byte /\ seen \in Byte /\ Valid(b) /\ Before(seen, b)
         /\ b \in InFlight /\ InFlight = {b} \cup InFlight'
         /\ \A c \in InFlight' : Before(b, c) /\ Valid(c) /\ c \in Byte
         /\ seen' = b /\ sent' = sent /\ cut' = cut /\ overrun' = overrun /\ console' = console
         /\ StreamInv'
<1>1. PICK x, y, z \in Seq(Byte) : x = data /\ y = ring /\ z = wire
  BY DEF InputTypes
<1>2. PICK t : t = Tail(x)
  OBVIOUS
<1>3. /\ x # <<>> /\ data' = t /\ ring' = y /\ wire' = z /\ b = Head(x)
      /\ seen' = b /\ sent' = sent /\ cut' = cut /\ overrun' = overrun /\ console' = console
  BY <1>1, <1>2 DEF feed_rx_bytes
<1>4. ToSet(x) = {b} \cup ToSet(t) /\ b \in Byte
  BY <1>2, <1>3, HeldOneLess, OneLess
<1>5. /\ Ordered(x) /\ Ordered(y) /\ Ordered(z)
      /\ AllBefore(ToSet(x), ToSet(y)) /\ AllBefore(ToSet(x), ToSet(z)) /\ AllBefore(ToSet(y), ToSet(z))
      /\ \A c \in ToSet(z) : c.line = Len(sent)
      /\ \A c \in ToSet(x) \cup ToSet(y) \cup ToSet(z) : Valid(c) /\ Before(seen, c)
  BY <1>1 DEF StreamInv, InFlight
<1>6. Ordered(t) /\ AllBefore({b}, ToSet(t))
  BY <1>2, <1>3, <1>5, OrderedOneLess
<1>7. /\ InFlight = ToSet(x) \cup ToSet(y) \cup ToSet(z)
      /\ InFlight' = ToSet(t) \cup ToSet(y) \cup ToSet(z)
  BY <1>1, <1>3 DEF InFlight
<1>8. \A c \in InFlight' : Before(b, c) /\ Valid(c)
  BY <1>4, <1>5, <1>6, <1>7 DEF AllBefore
<1>9. InFlight' \subseteq Byte
  <2>1. ToSet(x) \subseteq Byte /\ ToSet(y) \subseteq Byte /\ ToSet(z) \subseteq Byte
    BY Held
  <2> QED
    BY <1>4, <1>7, <2>1
<1>10. \A c : Valid(c)' <=> Valid(c)
  BY <1>3, SameLines
<1>11. Valid(b) /\ Before(seen, b) /\ seen \in Byte
  BY <1>4, <1>5 DEF InputTypes
<1>12. StreamInv'
  <2>1. \A c \in InFlight' : Valid(c)' /\ Before(seen', c)
    BY <1>3, <1>8, <1>10 DEF Before
  <2>2. seen' = Origin \/ Valid(seen)'
    <3>1. Valid(b)'
      BY <1>10, <1>11
    <3> QED
      BY <1>3, <3>1
  <2>3. AllBefore(ToSet(t), ToSet(y)) /\ AllBefore(ToSet(t), ToSet(z))
    BY <1>4, <1>5 DEF AllBefore
  <2> QED
    BY <1>3, <1>5, <1>6, <2>1, <2>2, <2>3 DEF StreamInv, Ordered, AllBefore, Before
<1> QED
  BY <1>3, <1>4, <1>7, <1>8, <1>9, <1>11, <1>12

(* A byte between what was looked at and what comes next was lost.         *)
LEMMA GapTorn ==
  ASSUME InputTypes, StreamInv, LossInv, feed_rx_bytes, NEW b, b = Head(data),
         NEW n \in 1 .. Len(sent), NEW p \in 1 .. Len(sent[n]) + 1,
         Before(seen, ByteAt(n, p)), Before(ByteAt(n, p), b)
  PROVE  Torn(n)
<1>1. /\ b \in Byte /\ InFlight = {b} \cup InFlight'
      /\ \A c \in InFlight' : Before(b, c) /\ c \in Byte
  BY SeenFacts
<1>2. PICK x : x = ByteAt(n, p)
  OBVIOUS
<1>3. x \in Byte
  BY <1>2, ByteFacts DEF InputTypes
<1>4. x # b /\ ~Before(b, x)
  BY <1>1, <1>2, <1>3, BeforeFacts
<1>5. x \notin InFlight
  BY <1>1, <1>4
<1> QED
  BY <1>2, <1>5 DEF LossInv

(* The byte of a line that comes next, unless the line was torn.           *)
LEMMA ByteParts ==
  ASSUME InputTypes, NEW b, Valid(b)
  PROVE  /\ b \in Byte /\ b.line \in 1 .. Len(sent) /\ b.at \in 1 .. Len(sent[b.line]) + 1
         /\ b = ByteAt(b.line, b.at) /\ Len(sent[b.line]) \in Nat \ {0}
         /\ (b.c = "\n") <=> (b.at = Len(sent[b.line]) + 1)
         /\ (b.at = 1 => b.c = "{")
<1>1. PICK n, p : n = b.line /\ p = b.at
  OBVIOUS
<1>2. n \in 1 .. Len(sent) /\ p \in 1 .. Len(sent[n]) + 1 /\ b = ByteAt(n, p)
  BY <1>1 DEF Valid
<1>3. /\ ByteAt(n, p) \in Byte /\ Len(sent[n]) \in Nat \ {0} /\ ByteAt(n, 1).c = "{"
      /\ ((ByteAt(n, p).c = "\n") <=> (p = Len(sent[n]) + 1))
  BY <1>2, ByteFacts DEF InputTypes
<1> QED
  BY <1>1, <1>2, <1>3

(* A byte that is not the next of its line means that the line was torn.   *)
LEMMA NextOrTorn ==
  ASSUME InputTypes, StreamInv, LossInv, feed_rx_bytes, NEW b, b = Head(data),
         Valid(seen), seen.c # "\n", ~(b.line = seen.line /\ b.at = seen.at + 1)
  PROVE  Torn(seen.line) /\ (b.line # seen.line => Torn(b.line - 1))
<1>1. PICK n, p : n = seen.line /\ p = seen.at
  OBVIOUS
<1>2. /\ n \in 1 .. Len(sent) /\ p \in 1 .. Len(sent[n]) + 1 /\ p # Len(sent[n]) + 1
      /\ Len(sent[n]) \in Nat \ {0}
  BY <1>1, ByteParts
<1>3. Valid(b) /\ Before(seen, b)
  BY SeenFacts
<1>4. PICK m, q : m = b.line /\ q = b.at
  OBVIOUS
<1>5. m \in 1 .. Len(sent) /\ q \in 1 .. Len(sent[m]) + 1 /\ Len(sent[m]) \in Nat \ {0}
  BY <1>3, <1>4, ByteParts
<1>6. n < m \/ (n = m /\ p < q)
  BY <1>1, <1>3, <1>4 DEF Before
<1>7. Torn(n)
  <2>1. PICK o \in 1 .. Len(sent[n]) + 1 : o = p + 1
    BY <1>2
  <2>2. ByteAt(n, o).line = n /\ ByteAt(n, o).at = o
    BY DEF ByteAt
  <2>3. Before(seen, ByteAt(n, o))
    BY <1>1, <1>2, <2>1, <2>2 DEF Before
  <2>4. n < m \/ (n = m /\ o < q)
    BY <1>1, <1>2, <1>4, <1>5, <1>6, <2>1
  <2>5. Before(ByteAt(n, o), b)
    BY <1>4, <2>2, <2>4 DEF Before
  <2> QED
    BY <1>2, <2>3, <2>5, GapTorn
<1>8. ASSUME m # n PROVE Torn(m - 1)
  <2>1. CASE m - 1 = n
    BY <1>7, <2>1
  <2>2. CASE m - 1 # n
    <3>0. Len(sent) \in Nat
      BY DEF InputTypes
    <3>1. PICK k \in 1 .. Len(sent) : k = m - 1
      <4>1. n < m
        BY <1>6, <1>8
      <4>2. m - 1 \in 1 .. Len(sent)
        BY <1>2, <1>5, <3>0, <4>1
      <4> QED
        BY <4>2
    <3>2. n < k /\ k < m
      <4>1. n < m
        BY <1>6, <1>8
      <4> QED
        BY <1>2, <1>5, <2>2, <3>0, <3>1, <4>1
    <3>3. 1 \in 1 .. Len(sent[k]) + 1
      <4>1. Len(sent[k]) \in Nat \ {0}
        BY ByteFacts DEF InputTypes
      <4> QED
        BY <4>1
    <3>4. ByteAt(k, 1).line = k
      BY DEF ByteAt
    <3>5. Before(seen, ByteAt(k, 1)) /\ Before(ByteAt(k, 1), b)
      BY <1>1, <1>4, <3>2, <3>4 DEF Before
    <3>6. Torn(k)
      BY <3>3, <3>5, GapTorn
    <3> QED
      BY <3>1, <3>6
  <2> QED
    BY <2>1, <2>2
<1> QED
  BY <1>1, <1>4, <1>7, <1>8

(* What came before the next byte of a line that is not torn.              *)
LEMMA WholeSoFar ==
  ASSUME InputTypes, StreamInv, LossInv, feed_rx_bytes, NEW b, b = Head(data), ~Torn(b.line)
  PROVE  /\ b.at > 1 => Valid(seen) /\ seen.line = b.line /\ seen.at = b.at - 1
         /\ b.at = 1 /\ ~Torn(b.line - 1) => seen.c = "\n"
<1>1. Valid(b) /\ Before(seen, b) /\ seen \in Byte
  BY SeenFacts
<1>2. PICK m, q : m = b.line /\ q = b.at
  OBVIOUS
<1>3. m \in 1 .. Len(sent) /\ q \in 1 .. Len(sent[m]) + 1 /\ Len(sent[m]) \in Nat \ {0}
  BY <1>1, <1>2, ByteParts
<1>4. PICK n, p : n = seen.line /\ p = seen.at
  OBVIOUS
<1>5. n \in Nat /\ p \in Nat /\ (n < m \/ (n = m /\ p < q))
  BY <1>1, <1>2, <1>4 DEF Before, Byte
<1>6. seen = Origin => n = 0 /\ seen.c = "\n"
  BY <1>4 DEF Origin
<1>7. ASSUME q > 1 PROVE Valid(seen) /\ n = m /\ p = q - 1
  <2>1. PICK o \in 1 .. Len(sent[m]) + 1 : o = q - 1
    BY <1>3, <1>7
  <2>2. ByteAt(m, o).line = m /\ ByteAt(m, o).at = o
    BY DEF ByteAt
  <2>3. Before(ByteAt(m, o), b)
    BY <1>2, <1>3, <2>1, <2>2 DEF Before
  <2>4. ~Before(seen, ByteAt(m, o))
    BY <1>2, <1>3, <2>3, GapTorn
  <2>5. ~(n < m \/ (n = m /\ p < o))
    BY <1>4, <2>2, <2>4 DEF Before
  <2>6. n = m /\ p = o
    BY <1>3, <1>5, <2>1, <2>5
  <2> QED
    BY <1>3, <1>6, <2>1, <2>6 DEF StreamInv
<1>8. ASSUME q = 1, ~Torn(m - 1) PROVE seen.c = "\n"
  <2>1. n < m
    <3>1. CASE seen = Origin
      BY <1>3, <1>6, <3>1
    <3>2. CASE Valid(seen)
      <4>1. p \in 1 .. Len(sent[n]) + 1 /\ Len(sent[n]) \in Nat
        BY <1>4, <3>2, ByteParts
      <4> QED
        BY <1>5, <1>8, <4>1
    <3> QED
      BY <3>1, <3>2 DEF StreamInv
  <2>2. CASE n = 0
    <3>1. ~Valid(seen)
      BY <1>4, <2>2 DEF Valid
    <3> QED
      BY <1>6, <3>1 DEF StreamInv
  <2>3. CASE n # 0
    <3>1. PICK k \in 1 .. Len(sent) : k = m - 1
      BY <1>3, <1>5, <2>1, <2>3
    <3>2. Len(sent[k]) \in Nat \ {0}
      BY ByteFacts DEF InputTypes
    <3>3. PICK o \in 1 .. Len(sent[k]) + 1 : o = Len(sent[k]) + 1
      BY <3>2
    <3>4. ByteAt(k, o).line = k /\ ByteAt(k, o).at = o
      BY DEF ByteAt
    <3>5. Before(ByteAt(k, o), b)
      BY <1>2, <1>3, <3>1, <3>4 DEF Before
    <3>6. ~Before(seen, ByteAt(k, o))
      BY <1>8, <3>1, <3>5, GapTorn
    <3>7. ~(n < k \/ (n = k /\ p < o))
      BY <1>4, <3>4, <3>6 DEF Before
    <3>8. n = k /\ p >= o
      BY <1>3, <1>5, <2>1, <3>1, <3>2, <3>3, <3>7
    <3>9. Valid(seen)
      BY <1>6, <2>3 DEF StreamInv
    <3>10. p \in 1 .. Len(sent[k]) + 1 /\ (seen.c = "\n" <=> p = Len(sent[k]) + 1)
      BY <1>4, <3>8, <3>9, ByteParts
    <3> QED
      BY <3>2, <3>3, <3>8, <3>10
  <2> QED
    BY <2>2, <2>3
<1> QED
  BY <1>2, <1>4, <1>7, <1>8

(* The buffer, when it holds something.                                    *)
LEMMA LineFacts ==
  ASSUME InputTypes, StreamInv, LineInv, line # <<>>
  PROVE  /\ Valid(seen) /\ seen.c # "\n" /\ Len(line) \in Nat \ {0} /\ line[Len(line)] = seen
         /\ Beginning(line, seen.line) =>
              Len(line) = seen.at /\ \A i \in DOMAIN line : line[i].line = seen.line
<1>1. /\ seen = line[Len(line)] /\ seen.c # "\n"
  BY DEF LineInv
<1>2. Valid(seen)
  <2>1. seen # Origin
    BY <1>1 DEF Origin
  <2> QED
    BY <2>1 DEF StreamInv
<1>3. Len(line) \in Nat \ {0} /\ DOMAIN line = 1 .. Len(line)
  BY DEF InputTypes
<1>4. PICK n, k : n = seen.line /\ k = Len(line)
  OBVIOUS
<1>5. ASSUME Beginning(line, n)
      PROVE  k = seen.at /\ \A i \in DOMAIN line : line[i].line = n
  <2>1. \A i \in 1 .. k : line[i] = ByteAt(n, i)
    BY <1>4, <1>5 DEF Beginning
  <2>2. \A i : ByteAt(n, i).line = n /\ ByteAt(n, i).at = i
    BY DEF ByteAt
  <2>3. k \in 1 .. k
    BY <1>3, <1>4
  <2>4. seen = ByteAt(n, k)
    BY <1>1, <1>4, <2>1, <2>3
  <2> QED
    BY <1>3, <1>4, <2>1, <2>2, <2>4
<1> QED
  BY <1>1, <1>2, <1>3, <1>4, <1>5

(* A buffer whose line does not go on holds spoilt lines only, and what    *)
(* goes on instead is spoilt as well.                                      *)
LEMMA BrokenOff ==
  ASSUME InputTypes, StreamInv, LossInv, LineInv, feed_rx_bytes, NEW b, b = Head(data),
         line # <<>>, ~(b.line = seen.line /\ b.at = seen.at + 1)
  PROVE  AllSpoilt(line) /\ Spoilt(b.line)
<1>1. Valid(seen) /\ seen.c # "\n"
  BY LineFacts
<1>2. Torn(seen.line) /\ (b.line # seen.line => Torn(b.line - 1))
  BY <1>1, NextOrTorn
<1>3. Spoilt(seen.line) /\ Spoilt(b.line)
  BY <1>2 DEF Spoilt
<1>4. CASE AllSpoilt(line)
  BY <1>3, <1>4
<1>5. CASE Beginning(line, seen.line)
  <2>1. \A i \in DOMAIN line : line[i].line = seen.line
    BY <1>5, LineFacts
  <2> QED
    BY <1>3, <2>1 DEF AllSpoilt
<1> QED
  BY <1>3, <1>4, <1>5 DEF LineInv

(* What a command yielded adds.                                            *)
LEMMA YieldTaken ==
  ASSUME InputTypes
  PROVE  /\ Yield(line) => Taken' = Taken \cup {line}
         /\ NoCommand => Taken' = Taken
<1>1. PICK S : S = Seq(Byte)
  OBVIOUS
<1>2. PICK q, p \in Seq(S) : q = s_command_queue /\ p = processed
  BY <1>1 DEF InputTypes
<1>3. line \in S
  BY <1>1 DEF InputTypes
<1>4. PICK l \in S : l = line
  BY <1>3
<1>5. ToSet(Append(q, l)) = ToSet(q) \cup {l} /\ ToSet(Append(p, l)) = ToSet(p) \cup {l}
  BY HeldOneMore
<1>6. ASSUME Yield(line) PROVE Taken' = Taken \cup {line}
  <2>1. \/ processed' = Append(p, l) /\ s_command_queue' = q /\ refused' = refused
        \/ processed' = p /\ s_command_queue' = Append(q, l) /\ refused' = refused
        \/ processed' = p /\ s_command_queue' = q /\ refused' = refused \cup {l}
    BY <1>2, <1>4, <1>6 DEF Yield, queue_line
  <2> QED
    BY <1>2, <1>4, <1>5, <2>1 DEF Taken
<1>7. ASSUME NoCommand PROVE Taken' = Taken
  BY <1>7 DEF NoCommand, Taken
<1> QED
  BY <1>6, <1>7

(* What the byte does to the buffer.                                       *)
LEMMA TakeCases ==
  ASSUME InputTypes, feed_rx_bytes, NEW b, b = Head(data)
  PROVE  \/ b.c = "\n" /\ line # <<>> /\ line' = <<>> /\ Taken' = Taken \cup {line}
         \/ b.c = "\n" /\ line = <<>> /\ line' = <<>> /\ Taken' = Taken
         \/ b.c = "{" /\ line = <<>> /\ line' = <<b>> /\ Taken' = Taken
         \/ b.c \notin {"\n", "{"} /\ line = <<>> /\ line' = <<>> /\ Taken' = Taken
         \/ /\ b.c # "\n" /\ line # <<>> /\ Len(line) < CMD_RX_BUF_SIZE - 1
            /\ line' = Append(line, b) /\ Taken' = Taken
         \/ /\ b.c # "\n" /\ line # <<>> /\ Len(line) >= CMD_RX_BUF_SIZE - 1
            /\ line' = <<>> /\ (Taken' = Taken \cup {line} \/ Taken' = Taken)
<1>1. TakeByte(b)
  BY DEF feed_rx_bytes
<1>2. Len(line) >= CMD_RX_BUF_SIZE - 1 => line # <<>>
  <2>1. line = <<>> => Len(line) = 0
    OBVIOUS
  <2> QED
    BY <2>1, Sizes
<1>3. CASE b.c = "\n"
  BY <1>1, <1>3, YieldTaken DEF TakeByte
<1>4. CASE b.c # "\n" /\ line = <<>>
  BY <1>1, <1>2, <1>4, YieldTaken DEF TakeByte
<1>5. CASE b.c # "\n" /\ line # <<>>
  BY <1>1, <1>5, YieldTaken DEF TakeByte
<1> QED
  BY <1>3, <1>4, <1>5

(* Bytes that stay in flight are not lost.                                 *)
LEMMA FeedLoss ==
  ASSUME InputTypes, StreamInv, LossInv, feed_rx_bytes
  PROVE  LossInv'
<1>1. PICK b : b = Head(data)
  OBVIOUS
<1>2. /\ b \in Byte /\ seen \in Byte /\ Before(seen, b) /\ InFlight = {b} \cup InFlight'
      /\ seen' = b /\ sent' = sent /\ cut' = cut /\ overrun' = overrun
  BY <1>1, SeenFacts
<1>3. ASSUME NEW n \in 1 .. Len(sent), NEW p \in 1 .. Len(sent[n]) + 1, Before(b, ByteAt(n, p))
      PROVE  Torn(n)' \/ ByteAt(n, p) \in InFlight'
  <2>1. PICK x : x = ByteAt(n, p)
    OBVIOUS
  <2>2. x \in Byte
    BY <2>1, ByteFacts DEF InputTypes
  <2>3. Before(seen, x) /\ x # b
    BY <1>2, <1>3, <2>1, <2>2, BeforeFacts
  <2>4. Torn(n) \/ x \in InFlight
    BY <2>1, <2>3 DEF LossInv
  <2> QED
    BY <1>2, <2>1, <2>3, <2>4 DEF Torn
<1>4. \A n, p : ByteAt(n, p)' = ByteAt(n, p)
  BY <1>2, SameLines
<1> QED
  BY <1>2, <1>3, <1>4 DEF LossInv, Before

(* The next byte of the line in the buffer makes a longer beginning of it. *)
LEMMA Longer ==
  ASSUME InputTypes, StreamInv, LineInv, line # <<>>, NEW b, Valid(b), b.c # "\n",
         b.line = seen.line, b.at = seen.at + 1, Beginning(line, seen.line)
  PROVE  Beginning(Append(line, b), b.line)
<1>1. PICK n, k : n = seen.line /\ k = Len(line)
  OBVIOUS
<1>2. k \in Nat \ {0} /\ k = seen.at
  BY <1>1, LineFacts
<1>3. b = ByteAt(n, k + 1) /\ k + 1 <= Len(sent[n]) /\ b \in Byte
  <2>1. /\ b.at \in 1 .. Len(sent[n]) + 1 /\ b.at # Len(sent[n]) + 1 /\ b \in Byte
        /\ b = ByteAt(n, b.at) /\ Len(sent[n]) \in Nat
    BY <1>1, ByteParts
  <2> QED
    BY <1>2, <2>1
<1>4. PICK u : u = Append(line, b)
  OBVIOUS
<1>5. Len(u) = k + 1 /\ u[k + 1] = b /\ \A i \in 1 .. k : u[i] = line[i]
  BY <1>1, <1>3, <1>4, OneMore DEF InputTypes
<1>6. \A i \in 1 .. k : line[i] = ByteAt(n, i)
  BY <1>1 DEF Beginning
<1>7. ASSUME NEW i \in 1 .. k + 1 PROVE u[i] = ByteAt(n, i)
  <2>1. CASE i = k + 1
    BY <1>3, <1>5, <2>1
  <2>2. CASE i # k + 1
    <3>1. i \in 1 .. k
      BY <1>2, <2>2
    <3> QED
      BY <1>5, <1>6, <3>1
  <2> QED
    BY <2>1, <2>2
<1> QED
  BY <1>1, <1>3, <1>4, <1>5, <1>7 DEF Beginning

(* A beginning with one byte is the first byte of its line.                *)
LEMMA FirstByte ==
  ASSUME InputTypes, NEW b, Valid(b), b.at = 1
  PROVE  Beginning(<<b>>, b.line) /\ b.c = "{"
<1>1. /\ b = ByteAt(b.line, 1) /\ Len(sent[b.line]) \in Nat \ {0} /\ b.c = "{"
  BY ByteParts
<1>2. PICK s, n : s = <<b>> /\ n = b.line
  OBVIOUS
<1>3. Len(s) = 1 /\ s[1] = b /\ \A i \in 1 .. 1 : i = 1
  <2>1. Len(s) = 1 /\ s[1] = b
    BY <1>2
  <2>2. \A i \in 1 .. 1 : i = 1
    OBVIOUS
  <2> QED
    BY <2>1, <2>2
<1>4. 1 <= Len(sent[n]) /\ \A i \in 1 .. 1 : s[i] = ByteAt(n, i)
  <2>1. 1 <= Len(sent[n])
    <3>1. Len(sent[n]) \in Nat \ {0}
      BY <1>1, <1>2, Zenon
    <3> QED
      BY <3>1
  <2>2. ASSUME NEW i \in 1 .. 1 PROVE s[i] = ByteAt(n, i)
    <3>1. i = 1 /\ s[1] = ByteAt(n, 1)
      BY <1>1, <1>2, <1>3, Zenon
    <3> QED
      BY <3>1, Zenon
  <2> QED
    BY <2>1, <2>2
<1>5. Beginning(s, n)
  BY <1>3, <1>4 DEF Beginning
<1> QED
  BY <1>1, <1>2, <1>5

(* The buffer after a byte.                                                *)
LEMMA FeedLine ==
  ASSUME InputTypes, StreamInv, LossInv, LineInv, GoodInv, feed_rx_bytes
  PROVE  LineInv'
<1>1. PICK b, l, u : b = Head(data) /\ l = line /\ u = line'
  OBVIOUS
<1>2. /\ Valid(b) /\ Before(seen, b) /\ b \in Byte
      /\ seen' = b /\ sent' = sent /\ cut' = cut /\ overrun' = overrun
  BY <1>1, SeenFacts
<1>3. SUFFICES ASSUME u # <<>>
               PROVE  /\ b = u[Len(u)] /\ b.c # "\n" /\ \A i \in DOMAIN u : Valid(u[i])
                      /\ Beginning(u, b.line) \/ AllSpoilt(u)
  BY <1>1, <1>2 DEF LineInv, Valid, Beginning, AllSpoilt, Spoilt, Torn, ByteAt
<1>4. CASE l = <<>>
  <2>1. b.c = "{" /\ u = <<b>>
    BY <1>1, <1>3, <1>4, TakeCases
  <2>2. Len(<<b>>) = 1 /\ <<b>>[1] = b /\ DOMAIN <<b>> = {1}
    OBVIOUS
  <2>3. CASE b.at = 1
    BY <1>2, <2>1, <2>2, <2>3, FirstByte
  <2>4. CASE b.at # 1
    <3>1. SUFFICES ASSUME ~Spoilt(b.line) PROVE FALSE
      BY <1>2, <2>1, <2>2 DEF AllSpoilt
    <3>2. b.at > 1 /\ b.at - 1 <= Len(sent[b.line]) /\ b.line \in 1 .. Len(sent)
      <4>1. /\ b.line \in 1 .. Len(sent) /\ b.at \in 1 .. Len(sent[b.line]) + 1
            /\ Len(sent[b.line]) \in Nat
        BY <1>2, ByteParts
      <4> QED
        BY <2>4, <4>1
    <3>3. ~Torn(b.line)
      BY <3>1 DEF Spoilt
    <3>4. seen.line = b.line /\ seen.at = b.at - 1
      BY <1>1, <3>2, <3>3, WholeSoFar
    <3> QED
      BY <1>1, <1>4, <3>1, <3>2, <3>4 DEF GoodInv
  <2> QED
    BY <1>2, <2>1, <2>2, <2>3, <2>4
<1>5. CASE l # <<>>
  <2>1. b.c # "\n" /\ u = Append(l, b)
    BY <1>1, <1>3, <1>5, TakeCases
  <2>2. PICK k \in Nat : k = Len(l)
    BY <1>1 DEF InputTypes
  <2>3. /\ DOMAIN u = 1 .. k + 1 /\ Len(u) = k + 1 /\ u[k + 1] = b /\ \A i \in 1 .. k : u[i] = l[i]
    BY <1>1, <1>2, <2>1, <2>2 DEF InputTypes
  <2>4. DOMAIN l = 1 .. k /\ \A i \in 1 .. k : Valid(l[i])
    <3>1. DOMAIN l = 1 .. k
      BY <1>1, <2>2 DEF InputTypes
    <3>2. \A i \in DOMAIN l : Valid(l[i])
      BY <1>1, <1>5 DEF LineInv
    <3> QED
      BY <3>1, <3>2
  <2>5. \A i \in 1 .. k + 1 : i = k + 1 \/ i \in 1 .. k
    OBVIOUS
  <2>6. \A i \in DOMAIN u : Valid(u[i])
    BY <1>2, <2>3, <2>4, <2>5
  <2>7. AllSpoilt(l) /\ Spoilt(b.line) => AllSpoilt(u)
    BY <2>3, <2>4, <2>5 DEF AllSpoilt
  <2>8. CASE ~(b.line = seen.line /\ b.at = seen.at + 1)
    BY <1>1, <1>5, <2>1, <2>3, <2>6, <2>7, <2>8, BrokenOff
  <2>9. CASE b.line = seen.line /\ b.at = seen.at + 1
    <3>1. CASE Beginning(l, seen.line)
      BY <1>1, <1>2, <1>5, <2>1, <2>3, <2>6, <2>9, <3>1, Longer
    <3>2. CASE AllSpoilt(l)
      <4>1. l[k] = seen /\ k \in DOMAIN l
        BY <1>1, <1>5, <2>2, <2>4, LineFacts
      <4>2. Spoilt(b.line)
        BY <2>9, <3>2, <4>1 DEF AllSpoilt
      <4> QED
        BY <2>1, <2>3, <2>6, <2>7, <3>2, <4>2
    <3> QED
      BY <1>1, <1>5, <3>1, <3>2 DEF LineInv
  <2> QED
    BY <2>8, <2>9
<1> QED
  BY <1>4, <1>5

(* The whole line is in the buffer when its newline comes.                 *)
LEMMA WholeLine ==
  ASSUME InputTypes, StreamInv, LineInv, line # <<>>, NEW b, Valid(b), b.c = "\n",
         b.line = seen.line, b.at = seen.at + 1, Beginning(line, seen.line)
  PROVE  line = Command(b.line) /\ Last(line).line = b.line
<1>1. PICK n : n = b.line
  OBVIOUS
<1>2. n \in 1 .. Len(sent) /\ b.at = Len(sent[n]) + 1 /\ Len(sent[n]) \in Nat \ {0}
  BY <1>1, ByteParts
<1>3. Len(line) = seen.at /\ seen.at \in Nat /\ line[Len(line)] = seen
  BY LineFacts DEF InputTypes, Byte
<1>4. Len(line) = Len(sent[n])
  BY <1>2, <1>3
<1>5. line \in Seq(Byte) /\ \A i \in 1 .. Len(line) : line[i] = ByteAt(n, i)
  BY <1>1 DEF Beginning, InputTypes
<1>6. line = Command(n)
  BY <1>2, <1>4, <1>5, CommandIs
<1>7. Last(line) = seen
  BY <1>3 DEF Last
<1> QED
  BY <1>1, <1>6, <1>7

(* Lines that are not spoilt get into the buffer, and through.             *)
LEMMA FeedGood ==
  ASSUME InputTypes, StreamInv, LossInv, LineInv, GoodInv, feed_rx_bytes
  PROVE  GoodInv'
<1>1. PICK b, l, u : b = Head(data) /\ l = line /\ u = line'
  OBVIOUS
<1>2. /\ Valid(b) /\ Before(seen, b) /\ b \in Byte /\ seen \in Byte
      /\ seen' = b /\ sent' = sent /\ cut' = cut /\ overrun' = overrun
  BY <1>1, SeenFacts
<1>3. Taken \subseteq Taken'
  BY <1>1, TakeCases
<1>4. SUFFICES ASSUME NEW n \in 1 .. Len(sent), ~Spoilt(n)
               PROVE  /\ b.line = n /\ b.at <= Len(sent[n]) => u # <<>> /\ Beginning(u, n)
                      /\ b.line > n \/ (b.line = n /\ b.at = Len(sent[n]) + 1) => Command(n) \in Taken'
  BY <1>1, <1>2 DEF GoodInv, Beginning, Spoilt, Torn, ByteAt, Command, Passed
<1>5. PICK k \in Nat \ {0} : k = Len(sent[n])
  BY ByteFacts DEF InputTypes
<1>6. ~Torn(n) /\ ~Torn(n - 1) /\ k < CMD_RX_BUF_SIZE
  <2>1. ~Torn(n) /\ ~Torn(n - 1) /\ ~(Len(sent[n]) >= CMD_RX_BUF_SIZE)
    BY <1>4 DEF Spoilt
  <2> QED
    BY <1>5, <2>1, Sizes
<1>7. /\ b.line \in 1 .. Len(sent) /\ b.at \in 1 .. Len(sent[b.line]) + 1
      /\ Len(sent[b.line]) \in Nat /\ (b.c = "\n" <=> b.at = Len(sent[b.line]) + 1)
  BY <1>2, ByteParts
<1>8. ASSUME b.line = n, b.at > 1
      PROVE  /\ l # <<>> /\ Beginning(l, n) /\ Len(l) = b.at - 1
             /\ seen.line = n /\ b.at = seen.at + 1
  <2>1. seen.line = n /\ seen.at = b.at - 1
    BY <1>1, <1>6, <1>8, WholeSoFar
  <2>2. seen.at <= Len(sent[n]) /\ b.at = seen.at + 1
    BY <1>5, <1>7, <1>8, <2>1
  <2>3. l # <<>> /\ Beginning(l, n)
    BY <1>1, <1>4, <2>1, <2>2 DEF GoodInv
  <2>4. Len(l) = seen.at
    BY <1>1, <2>1, <2>3, LineFacts
  <2> QED
    BY <2>1, <2>2, <2>3, <2>4
<1>9. ASSUME b.line = n, b.at <= Len(sent[n]) PROVE u # <<>> /\ Beginning(u, n)
  <2>1. b.c # "\n"
    BY <1>5, <1>7, <1>9
  <2>2. CASE b.at = 1
    <3>1. seen.c = "\n"
      BY <1>1, <1>6, <1>9, <2>2, WholeSoFar
    <3>2. l = <<>>
      BY <1>1, <3>1 DEF LineInv
    <3>3. Beginning(<<b>>, n) /\ b.c = "{"
      BY <1>2, <1>9, <2>2, FirstByte
    <3>4. u = <<b>>
      BY <1>1, <3>2, <3>3, TakeCases
    <3> QED
      BY <3>3, <3>4
  <2>3. CASE b.at # 1
    <3>1. b.at > 1
      BY <1>7, <2>3
    <3>2. /\ l # <<>> /\ Beginning(l, n) /\ Len(l) = b.at - 1 /\ seen.line = n /\ b.at = seen.at + 1
      BY <1>8, <1>9, <3>1
    <3>3. ~(Len(l) >= CMD_RX_BUF_SIZE - 1)
      BY <1>5, <1>6, <1>7, <1>9, <3>2, Sizes
    <3>4. u = Append(l, b)
      BY <1>1, <2>1, <3>2, <3>3, TakeCases
    <3>5. Beginning(u, n)
      BY <1>1, <1>2, <1>9, <2>1, <3>2, <3>4, Longer
    <3>6. u # <<>>
      <4>1. Len(u) = Len(l) + 1 /\ Len(l) \in Nat
        BY <1>1, <1>2, <3>4, OneMore DEF InputTypes
      <4> QED
        BY <4>1
    <3> QED
      BY <3>5, <3>6
  <2> QED
    BY <2>2, <2>3
<1>10. ASSUME b.line > n \/ (b.line = n /\ b.at = k + 1)
       PROVE  Command(n) \in Taken'
  <2>1. CASE Passed(n)
    BY <1>3, <1>4, <2>1 DEF GoodInv
  <2>2. CASE ~Passed(n)
    <3>1. PICK o \in 1 .. Len(sent[n]) + 1 : o = k + 1
      BY <1>5
    <3>2. ByteAt(n, o).line = n /\ ByteAt(n, o).at = o
      BY DEF ByteAt
    <3>3. Before(seen, ByteAt(n, o))
      <4>1. seen.line \in Nat /\ seen.at \in Nat /\ ~(seen.line > n) /\ ~(seen.line = n /\ seen.at = k + 1)
        BY <1>2, <1>5, <2>2 DEF Passed, Byte
      <4>2. seen.line = n => seen.at <= k + 1
        <5>1. seen.line = n => Valid(seen)
          BY DEF StreamInv, Origin
        <5>2. ASSUME seen.line = n PROVE seen.at \in 1 .. Len(sent[n]) + 1
          BY <5>1, <5>2, ByteParts
        <5> QED
          BY <1>5, <5>2
      <4> QED
        BY <3>1, <3>2, <4>1, <4>2 DEF Before
    <3>4. ~Before(ByteAt(n, o), b)
      BY <1>1, <1>6, <3>3, GapTorn
    <3>5. b.line = n /\ b.at = k + 1
      BY <1>10, <3>2, <3>4 DEF Before
    <3>6. b.c = "\n" /\ b.at > 1
      BY <1>5, <1>7, <3>5
    <3>7. l # <<>> /\ Beginning(l, n) /\ seen.line = n /\ b.at = seen.at + 1
      BY <1>8, <3>5, <3>6
    <3>8. l = Command(n)
      BY <1>1, <1>2, <3>5, <3>6, <3>7, WholeLine
    <3>9. Taken' = Taken \cup {l}
      BY <1>1, <3>6, <3>7, TakeCases
    <3> QED
      BY <3>8, <3>9
  <2> QED
    BY <2>1, <2>2
<1> QED
  BY <1>5, <1>9, <1>10

(* What is yielded is a whole line, or spoilt.                             *)
LEMMA FeedTaken ==
  ASSUME InputTypes, StreamInv, LossInv, LineInv, TakenInv, feed_rx_bytes
  PROVE  TakenInv'
<1>1. PICK b, l : b = Head(data) /\ l = line
  OBVIOUS
<1>2. /\ Valid(b) /\ Before(seen, b) /\ b \in Byte
      /\ seen' = b /\ sent' = sent /\ cut' = cut /\ overrun' = overrun
  BY <1>1, SeenFacts
<1>3. SUFFICES ASSUME NEW c \in Taken'
               PROVE  /\ c # <<>> /\ \A i \in DOMAIN c : Valid(c[i])
                      /\ c = Command(Last(c).line) \/ AllSpoilt(c)
  BY <1>2 DEF TakenInv, Valid, AllSpoilt, Spoilt, Torn, ByteAt, Command
<1>4. CASE c \in Taken
  BY <1>4 DEF TakenInv
<1>5. CASE c \notin Taken
  <2>1. c = l /\ l # <<>> /\ (b.c = "\n" \/ Len(l) >= CMD_RX_BUF_SIZE - 1)
    BY <1>1, <1>3, <1>5, TakeCases
  <2>2. /\ \A i \in DOMAIN l : Valid(l[i])
        /\ Beginning(l, seen.line) \/ AllSpoilt(l)
    BY <1>1, <2>1 DEF LineInv
  <2>3. CASE ~(b.line = seen.line /\ b.at = seen.at + 1)
    BY <1>1, <2>1, <2>2, <2>3, BrokenOff
  <2>4. CASE AllSpoilt(l)
    BY <2>1, <2>2, <2>4
  <2>5. CASE b.line = seen.line /\ b.at = seen.at + 1 /\ Beginning(l, seen.line)
    <3>1. CASE b.c = "\n"
      BY <1>1, <1>2, <2>1, <2>2, <2>5, <3>1, WholeLine
    <3>2. CASE b.c # "\n"
      <4>1. /\ Len(l) \in Nat /\ Len(l) = seen.at /\ \A i \in DOMAIN l : l[i].line = b.line
        BY <1>1, <2>1, <2>5, LineFacts
      <4>2. /\ b.at \in 1 .. Len(sent[b.line]) + 1 /\ b.at # Len(sent[b.line]) + 1
            /\ Len(sent[b.line]) \in Nat
        BY <1>2, <3>2, ByteParts
      <4>3. Len(sent[b.line]) >= CMD_RX_BUF_SIZE
        BY <2>1, <2>5, <3>2, <4>1, <4>2, Sizes
      <4>4. AllSpoilt(l)
        BY <4>1, <4>3 DEF AllSpoilt, Spoilt
      <4> QED
        BY <2>1, <2>2, <4>4
    <3> QED
      BY <3>1, <3>2
  <2> QED
    BY <2>2, <2>3, <2>4, <2>5
<1> QED
  BY <1>4, <1>5

(* What the buffers hold and what was taken stays right.                   *)
LEMMA InputKept == InputInv /\ [InputNext]_inputVars => InputInv'
<1> SUFFICES ASSUME InputInv, [InputNext]_inputVars PROVE InputInv'
  OBVIOUS
<1>1. InputTypes /\ StreamInv /\ LossInv /\ LineInv /\ GoodInv /\ TakenInv
  BY DEF InputInv
<1>2. InputTypes'
  BY <1>1, TypesKept
<1>3. SUFFICES StreamInv' /\ LossInv' /\ LineInv' /\ GoodInv' /\ TakenInv'
  BY <1>2 DEF InputInv
<1>4. ASSUME NEW r \in Requests, Send(r)
      PROVE  StreamInv' /\ LossInv' /\ LineInv' /\ GoodInv' /\ TakenInv'
  BY <1>1, <1>4, SendStep
<1>5. CASE feed_rx_bytes
  <2>1. StreamInv'
    BY <1>1, <1>5, SeenFacts
  <2> QED
    BY <1>1, <1>5, <2>1, FeedLoss, FeedLine, FeedGood, FeedTaken
<1>6. ASSUME NEW n \in 1 .. MaxChunk, UartInterrupt(n)
      PROVE  StreamInv' /\ LossInv' /\ LineInv' /\ GoodInv' /\ TakenInv'
  <2>1. StreamInv' /\ \A b \in InFlight : b \in InFlight' \/ b.line \in cut' \cup overrun'
    BY <1>1, <1>6, UartInterruptStep
  <2>2. /\ sent' = sent /\ seen' = seen /\ line' = line /\ cut \subseteq cut'
        /\ overrun \subseteq overrun' /\ Taken' = Taken
    BY <1>6 DEF UartInterrupt, Taken
  <2> QED
    BY <1>1, <2>1, <2>2, LossKept, DamageGrows
<1>7. ASSUME NEW n \in 1 .. MaxChunk, gatt_access_cb(n)
      PROVE  StreamInv' /\ LossInv' /\ LineInv' /\ GoodInv' /\ TakenInv'
  <2>1. StreamInv' /\ \A b \in InFlight : b \in InFlight'
    BY <1>1, <1>7, WriteStep
  <2>2. /\ sent' = sent /\ seen' = seen /\ line' = line /\ cut \subseteq cut'
        /\ overrun \subseteq overrun' /\ Taken' = Taken
    BY <1>7 DEF gatt_access_cb, Taken
  <2> QED
    BY <1>1, <2>1, <2>2, LossKept, DamageGrows
<1>8. CASE uart_command_task
  <2>1. StreamInv' /\ \A b \in InFlight : b \in InFlight'
    BY <1>1, <1>8, ReadStep
  <2>2. /\ sent' = sent /\ seen' = seen /\ line' = line /\ cut \subseteq cut'
        /\ overrun \subseteq overrun' /\ Taken' = Taken
    BY <1>8 DEF uart_command_task, Taken
  <2> QED
    BY <1>1, <2>1, <2>2, LossKept, DamageGrows
<1>9. CASE LineCut
  <2>1. StreamInv' /\ \A b \in InFlight : b \in InFlight' \/ b.line \in cut' \cup overrun'
    BY <1>1, <1>9, CutStep
  <2>2. /\ sent' = sent /\ seen' = seen /\ line' = line /\ cut \subseteq cut'
        /\ overrun \subseteq overrun' /\ Taken' = Taken
    BY <1>9 DEF LineCut, Taken
  <2> QED
    BY <1>1, <2>1, <2>2, LossKept, DamageGrows
<1>10. CASE command_task \/ UNCHANGED inputVars
  <2>1. /\ sent' = sent /\ seen' = seen /\ line' = line /\ cut' = cut /\ overrun' = overrun
        /\ data' = data /\ ring' = ring /\ wire' = wire
    BY <1>10 DEF command_task, inputVars
  <2>2. Taken' = Taken
    BY <1>1, <1>10, TaskKeepsTaken DEF inputVars, Taken
  <2>3. InFlight' = InFlight
    BY <2>1 DEF InFlight
  <2>4. StreamInv'
    BY <1>1, <2>1, <2>3 DEF StreamInv, Valid, ByteAt, Ordered, AllBefore, Before
  <2> QED
    BY <1>1, <2>1, <2>2, <2>3, <2>4, LossKept, DamageGrows
<1> QED
  BY <1>4, <1>5, <1>6, <1>7, <1>8, <1>9, <1>10 DEF InputNext

(* The start.                                                              *)
LEMMA InputStart == InputInit => InputInv
<1> SUFFICES ASSUME InputInit PROVE InputInv
  OBVIOUS
<1>1. InputTypes
  BY PatientStart
<1>2. /\ wire = <<>> /\ ring = <<>> /\ data = <<>> /\ line = <<>> /\ seen = Origin /\ sent = <<>>
      /\ processed = <<>> /\ s_command_queue = <<>> /\ refused = {}
  BY DEF InputInit
<1>3. InFlight = {} /\ Taken = {} /\ 1 .. Len(sent) = {}
  BY <1>2 DEF InFlight, Taken, ToSet
<1>4. StreamInv
  <2>1. ToSet(wire) = {} /\ ToSet(ring) = {} /\ ToSet(data) = {}
    BY <1>2 DEF ToSet
  <2>2. Ordered(data) /\ Ordered(ring) /\ Ordered(wire)
    BY <1>2 DEF Ordered
  <2> QED
    BY <1>2, <1>3, <2>1, <2>2 DEF StreamInv, AllBefore
<1>5. LossInv /\ LineInv /\ GoodInv /\ TakenInv
  BY <1>2, <1>3 DEF LossInv, LineInv, GoodInv, TakenInv
<1> QED
  BY <1>1, <1>4, <1>5 DEF InputInv

(* uart_command_task, feed_rx_bytes and queue_line: whatever hosts send    *)
(* and however their lines are damaged, every line that is not damaged and *)
(* does not follow a damaged one is taken whole, and what else is taken    *)
(* has no byte of such a line, for any sizes of buffers, queue and chunks. *)
THEOREM Contained == InputSpec => []DamageContained
<1>1. InputInv => DamageContained
  <2> SUFFICES ASSUME InputInv PROVE DamageContained
    OBVIOUS
  <2>1. InputTypes /\ StreamInv /\ LossInv /\ GoodInv /\ TakenInv
    BY DEF InputInv
  <2>2. ASSUME NEW n \in DOMAIN sent, Complete(n), ~Spoilt(n) PROVE Command(n) \in Taken
    <3>1. n \in 1 .. Len(sent)
      BY <2>1 DEF InputTypes
    <3>2. SUFFICES ASSUME ~Passed(n) PROVE FALSE
      BY <2>1, <2>2, <3>1 DEF GoodInv
    <3>3. PICK k \in Nat \ {0} : k = Len(sent[n])
      BY <2>1, <3>1, ByteFacts DEF InputTypes
    <3>4. PICK o \in 1 .. Len(sent[n]) + 1 : o = k + 1
      BY <3>3
    <3>5. ByteAt(n, o).line = n /\ ByteAt(n, o).at = o
      BY DEF ByteAt
    <3>6. Before(seen, ByteAt(n, o))
      <4>1. seen.line \in Nat /\ seen.at \in Nat /\ ~(seen.line > n) /\ ~(seen.line = n /\ seen.at = k + 1)
        BY <2>1, <3>2, <3>3 DEF Passed, Byte, InputTypes
      <4>2. seen.line = n => seen.at <= k + 1
        <5>1. seen.line = n => Valid(seen)
          BY <2>1, <3>1 DEF StreamInv, Origin
        <5>2. ASSUME seen.line = n PROVE seen.at \in 1 .. Len(sent[n]) + 1
          BY <2>1, <5>1, <5>2, ByteParts
        <5> QED
          BY <3>3, <5>2
      <4> QED
        BY <3>1, <3>4, <3>5, <4>1, <4>2 DEF Before
    <3>7. ByteAt(n, o) \in InFlight
      BY <2>1, <2>2, <3>1, <3>6 DEF LossInv, Spoilt
    <3>8. ByteAt(n, o) \notin ToSet(data) /\ ByteAt(n, o) \notin ToSet(ring)
      BY <2>2, <3>5 DEF Complete, ToSet
    <3>9. ByteAt(n, o) \in ToSet(wire)
      BY <3>7, <3>8 DEF InFlight
    <3>10. n = Len(sent)
      BY <2>1, <3>5, <3>9 DEF StreamInv
    <3>11. wire # <<>>
      BY <3>9 DEF ToSet
    <3> QED
      BY <2>2, <3>1, <3>10, <3>11 DEF Complete
  <2>3. \A c \in Taken : c = Command(Last(c).line) \/ \A i \in DOMAIN c : Spoilt(c[i].line)
    BY <2>1 DEF TakenInv, AllSpoilt
  <2> QED
    BY <2>2, <2>3 DEF DamageContained, Taken
<1> QED
  BY <1>1, InputStart, InputKept, PTL DEF InputSpec

-----------------------------------------------------------------------------
USE ConsoleOutputConstants

-----------------------------------------------------------------------------
(* The host task: s_peers against the live connections.  Connecting ends   *)
(* advertising and only a disconnect starts it again, so there is never    *)
(* more than one connection, and it has the first place of the table.      *)
Peer == [in_use : BOOLEAN, notify_enabled : BOOLEAN, conn_handle : Nat]

InUse(i) == s_peers[i].in_use = TRUE

LinkInv ==
  /\ s_peers \in [Slots -> Peer]
  /\ up \subseteq Handles
  /\ \A g, h \in up : g = h
  /\ advertising \in BOOLEAN /\ synced \in BOOLEAN /\ adv_failed \in BOOLEAN
  /\ advertising = TRUE => up = {} /\ synced = TRUE
  /\ synced = FALSE => up = {}
  /\ \A i \in Slots : InUse(i) => i = 1 /\ s_peers[i].conn_handle \in up
  /\ up # {} => InUse(1)

(* A slot in use is known by the handle of the one connection.             *)
LEMMA FindPeer ==
  ASSUME LinkInv, NEW h \in Handles
  PROVE  find_peer(h) = IF h \in up THEN {1} ELSE {}
BY DEF LinkInv, find_peer, InUse, Slots, Peer

(* alloc_peer finds the slot of a live connection, ...                     *)
LEMMA AllocKnown ==
  ASSUME LinkInv, NEW h \in up
  PROVE  alloc_peer(h) = s_peers
BY FindPeer DEF LinkInv, alloc_peer

(* ... and gives the first slot to the only new one.                       *)
LEMMA AllocNew ==
  ASSUME LinkInv, up = {}, NEW h \in Handles
  PROVE  alloc_peer(h) = [s_peers EXCEPT ![1] =
           [in_use |-> TRUE, notify_enabled |-> FALSE, conn_handle |-> h]]
<1>1. find_peer(h) = {}
  BY FindPeer
<1>2. free_peers = Slots
  BY DEF free_peers, LinkInv, InUse, Peer
<1>3. 1 \in Slots /\ \A j \in Slots : 1 <= j
  BY DEF Slots
<1>4. First(Slots) = 1
  BY <1>3 DEF First, Slots
<1> QED
  BY <1>1, <1>2, <1>3, <1>4 DEF alloc_peer

(* Losing the connection leaves the table empty.                           *)
LEMMA RemoveLast ==
  ASSUME LinkInv, NEW h \in up
  PROVE  /\ remove_peer(h) \in [Slots -> Peer]
         /\ \A i \in Slots : remove_peer(h)[i].in_use = FALSE
<1>1. find_peer(h) = {1}
  BY FindPeer DEF LinkInv
<1> QED
  BY <1>1 DEF LinkInv, remove_peer, NoPeer, Peer, InUse, Slots

(* Every step keeps LinkInv.                                               *)
LEMMA StepLink == LinkInv /\ [Next]_vars => LinkInv'
<1> SUFFICES ASSUME LinkInv, [Next]_vars PROVE LinkInv'
  OBVIOUS
<1> USE DEF LinkInv, InUse
<1>1. ASSUME NEW t \in Tasks, TakeUartLock(t) \/ Holder(t) PROVE LinkInv'
  BY <1>1 DEF TakeUartLock, Holder, uart_write_bytes, TakeNotifyLock, NextPeer, NotifyChunk,
              GiveUartLock, linkVars
<1>2. ASSUME NEW h \in Handles, Connect(h) PROVE LinkInv'
  <2>1. advertising = TRUE /\ up = {} /\ synced = TRUE
    BY <1>2, Zenon DEF Connect
  <2>2. s_peers' = [s_peers EXCEPT ![1] =
          [in_use |-> TRUE, notify_enabled |-> FALSE, conn_handle |-> h]]
    BY <1>2, <2>1, AllocNew DEF Connect
  <2>3. /\ 1 \in Slots /\ h \in Nat
        /\ s_peers' \in [Slots -> Peer]
        /\ s_peers'[1].in_use = TRUE /\ s_peers'[1].conn_handle = h
        /\ \A i \in Slots \ {1} : s_peers'[i] = s_peers[i]
    BY <2>2 DEF Slots, Peer
  <2>4. /\ up' = {h} /\ advertising' = FALSE
        /\ synced' = synced /\ adv_failed' = adv_failed
    BY <1>2, <2>1 DEF Connect
  <2> QED
    BY <2>1, <2>3, <2>4
<1>3. ASSUME NEW h \in Handles, Disconnect(h) PROVE LinkInv'
  <2>1. /\ up' = {} /\ s_peers' = remove_peer(h)
        /\ synced' = synced /\ synced = TRUE
    BY <1>3 DEF Disconnect
  <2>2. advertising' \in BOOLEAN /\ adv_failed' \in BOOLEAN
    BY <1>3, Zenon DEF Disconnect, advertise
  <2> QED
    BY <1>3, <2>1, <2>2, RemoveLast, ZenonT(60) DEF Disconnect
<1>4. ASSUME NEW h \in Handles, NEW on \in BOOLEAN, Subscribe(h, on) PROVE LinkInv'
  <2>1. s_peers' = [i \in Slots |->
          IF s_peers[i].in_use /\ s_peers[i].conn_handle = h
          THEN [s_peers[i] EXCEPT !.notify_enabled = on] ELSE s_peers[i]]
    BY <1>4, AllocKnown DEF Subscribe
  <2>2. \A i \in Slots : /\ s_peers'[i] \in Peer
                         /\ s_peers'[i].in_use = s_peers[i].in_use
                         /\ s_peers'[i].conn_handle = s_peers[i].conn_handle
    BY <2>1 DEF Peer
  <2>3. UNCHANGED <<up, advertising, adv_failed, synced>>
    BY <1>4 DEF Subscribe
  <2> QED
    BY <2>1, <2>2, <2>3
<1>5. CASE AdvertisingEnds
  BY <1>5 DEF AdvertisingEnds, advertise
<1>6. CASE on_reset
  BY <1>6, RemoveLast DEF on_reset
<1>7. CASE on_sync
  BY <1>7 DEF on_sync, advertise
<1>8. CASE UNCHANGED vars \/ esp_log_write
  BY <1>8 DEF vars, linkVars, esp_log_write
<1> QED
  BY <1>1, <1>2, <1>3, <1>4, <1>5, <1>6, <1>7, <1>8 DEF Next

(* The state after boot: no connection and an empty table.                 *)
LEMMA InitLink == Init => LinkInv
<1> SUFFICES ASSUME Init PROVE LinkInv
  OBVIOUS
<1>1. s_peers \in [Slots -> Peer] /\ \A i \in Slots : ~InUse(i)
  BY DEF Init, NoPeer, Peer, InUse
<1>2. /\ up = {}
      /\ advertising = FALSE /\ adv_failed = FALSE /\ synced = FALSE
  BY DEF Init
<1> QED
  BY <1>1, <1>2 DEF LinkInv

(* Whatever order the stack reports connections, subscriptions, losses and *)
(* resets in, gap_event_cb keeps every live connection in s_peers, once,   *)
(* and nothing else, whatever the size of the table.                       *)
THEOREM PeerTable == Spec => []PeersMatchLinks
<1>1. LinkInv => PeersMatchLinks
  <2> SUFFICES ASSUME LinkInv PROVE PeersMatchLinks
    OBVIOUS
  <2>1. ASSUME NEW h \in Handles
        PROVE  Cardinality(find_peer(h)) = (IF h \in up THEN 1 ELSE 0)
    BY FindPeer, FS_EmptySet, FS_Singleton
  <2>2. Cardinality(up) <= 1
    <3>1. CASE up = {}
      BY <3>1, FS_EmptySet
    <3>2. CASE up # {}
      <4>1. PICK h \in up : TRUE
        BY <3>2
      <4>2. \A g \in up : g = h
        BY DEF LinkInv
      <4>3. up = {h}
        BY <4>2
      <4>4. Cardinality({h}) = 1
        BY FS_Singleton
      <4> QED
        BY <4>3, <4>4
    <3> QED
      BY <3>1, <3>2
  <2> QED
    BY <2>1, <2>2 DEF PeersMatchLinks
<1> QED
  BY <1>1, InitLink, StepLink, PTL DEF Spec

(* Every step keeps Reachable.                                             *)
LEMMA StepReachable == Reachable /\ [Next]_vars => Reachable'
<1> SUFFICES ASSUME Reachable, [Next]_vars PROVE Reachable'
  OBVIOUS
<1>1. ASSUME NEW t \in Tasks, TakeUartLock(t) \/ Holder(t) PROVE Reachable'
  BY <1>1 DEF TakeUartLock, Holder, uart_write_bytes, TakeNotifyLock, NextPeer, NotifyChunk,
              GiveUartLock, linkVars, Reachable
<1>2. ASSUME NEW h \in Handles, Connect(h) PROVE Reachable'
  <2>1. up' # {}
    BY <1>2 DEF Connect
  <2> QED
    BY <2>1 DEF Reachable
<1>3. CASE advertise
  <2>1. advertising' \/ adv_failed'
    BY <1>3, Zenon DEF advertise
  <2> QED
    BY <2>1 DEF Reachable
<1>4. ASSUME NEW h \in Handles, NEW on \in BOOLEAN, Subscribe(h, on) PROVE Reachable'
  BY <1>4 DEF Subscribe, Reachable
<1>5. CASE on_reset
  BY <1>5 DEF on_reset, Reachable
<1>6. CASE on_sync
  BY <1>3, <1>6 DEF on_sync, Reachable
<1>7. CASE UNCHANGED vars \/ esp_log_write
  BY <1>7 DEF vars, linkVars, esp_log_write, Reachable
<1> QED
  BY <1>1, <1>2, <1>3, <1>4, <1>5, <1>6, <1>7 DEF Next, Disconnect, AdvertisingEnds

(* In sync, the device has a client or invites one, unless the stack       *)
(* refused: every path of gap_event_cb and on_sync ends in advertise.      *)
THEOREM DeviceReachable == Spec => []Reachable
<1>1. Init => Reachable
  BY DEF Init, Reachable
<1> QED
  BY <1>1, StepReachable, PTL DEF Spec

-----------------------------------------------------------------------------
(* The writers.  Only the holder of s_uart_write_lock is anywhere but at   *)
(* the start of meb_serial_printf, and its line is the newest.             *)
Piece == [msg : Nat, piece : Nat]

WriterInv ==
  /\ messages \in Nat
  /\ pc \in [Tasks -> {"idle", "uart", "ble", "peer", "chunk", "give"}]
  /\ msg \in [Tasks -> Nat] /\ offset \in [Tasks -> Nat] /\ slot \in [Tasks -> Nat]
  /\ \A t \in Tasks : pc[t] # "idle" => s_uart_write_lock = t /\ msg[t] = messages
  /\ \A t \in Tasks : pc[t] = "uart" => offset[t] < UART_PIECES
  /\ \A t \in Tasks : pc[t] = "chunk" => offset[t] < CHUNKS

(* The parts of a piece in a stream of them.                               *)
LEMMA PieceTypes ==
  ASSUME NEW s \in Seq(Piece), NEW i \in DOMAIN s
  PROVE  s[i].msg \in Nat /\ s[i].piece \in Nat
<1>1. s[i] \in Piece
  OBVIOUS
<1> QED
  BY <1>1 DEF Piece

(* Following a stream by one more piece.                                   *)
LEMMA MorePieces ==
  ASSUME NEW s \in Seq(Piece), NEW p \in Piece, NEW r, r = Append(s, p)
  PROVE  /\ r \in Seq(Piece) /\ Len(r) = Len(s) + 1 /\ Len(s) \in Nat
         /\ r # <<>> /\ r[Len(r)] = p
         /\ \A i \in DOMAIN s : r[i] = s[i]
         /\ DOMAIN s = 1 .. Len(s) /\ DOMAIN r = 1 .. Len(s) + 1
         /\ s = <<>> <=> Len(s) = 0
OBVIOUS

(* Where the UART stands, log text aside: inside the holder's line, or     *)
(* between lines.                                                          *)
LastPrinted(i) == i \in Printed /\ \A k \in Printed : k <= i

UartInv ==
  /\ uart \in Seq(Piece)
  /\ \A i \in Printed : uart[i].msg <= messages
  /\ \A t \in Tasks : pc[t] = "uart" /\ offset[t] > 0 =>
       \E i \in Printed : LastPrinted(i) /\ uart[i].msg = msg[t] /\ uart[i].piece = offset[t]
  /\ (\A t \in Tasks : pc[t] = "uart" => offset[t] = 0) =>
       Printed = {} \/ \E i \in Printed : LastPrinted(i) /\ uart[i].piece = UART_PIECES
  /\ \A t \in Tasks : pc[t] = "uart" /\ offset[t] = 0 =>
       \A i \in Printed : uart[i].msg < msg[t]
  /\ UartLinesWhole

(* NextPeer finds the one connection, in the first slot, or nobody.        *)
LEMMA NextPeerStep ==
  ASSUME LinkInv, WriterInv, NEW t \in Tasks, NextPeer(t)
  PROVE  /\ \/ /\ slot[t] <= 1
               /\ pc' = [pc EXCEPT ![t] = "chunk"]
               /\ slot' = [slot EXCEPT ![t] = 1]
               /\ offset' = [offset EXCEPT ![t] = 0]
            \/ /\ pc' = [pc EXCEPT ![t] = "give"]
               /\ UNCHANGED <<slot, offset>>
         /\ pc[t] = "peer"
         /\ UNCHANGED <<msg, messages, s_uart_write_lock, s_peers, uart, got, lost, linkVars>>
<1> DEFINE S == {i \in Slots : i >= slot[t] /\ s_peers[i].in_use /\ s_peers[i].notify_enabled}
<1> DEFINE f == CHOOSE i \in S : \A j \in S : i <= j
<1>1. \A i \in S : i = 1 /\ slot[t] <= 1
  BY DEF LinkInv, InUse, Peer, Slots, WriterInv
<1>2. S # {} => f = 1
  <2> SUFFICES ASSUME S # {} PROVE f = 1
    OBVIOUS
  <2>1. S = {1}
    BY <1>1
  <2> HIDE DEF S
  <2> QED
    BY <2>1
<1>3. \/ /\ S # {}
         /\ slot' = [slot EXCEPT ![t] = f]
         /\ offset' = [offset EXCEPT ![t] = 0]
         /\ pc' = [pc EXCEPT ![t] = "chunk"]
      \/ /\ S = {}
         /\ pc' = [pc EXCEPT ![t] = "give"]
         /\ UNCHANGED <<slot, offset>>
  BY DEF NextPeer, Goto
<1>4. pc[t] = "peer" /\ UNCHANGED <<msg, messages, s_uart_write_lock, s_peers, uart, got, lost, linkVars>>
  BY DEF NextPeer
<1> HIDE DEF S, f
<1> QED
  BY <1>1, <1>2, <1>3, <1>4

(* What one notification does, sent or failed.                             *)
LEMMA ChunkStep ==
  ASSUME NEW t \in Tasks, NotifyChunk(t),
         NEW h, h = s_peers[slot[t]].conn_handle
  PROVE  /\ \/ /\ h \in up
               /\ got' = [got EXCEPT ![h] = Append(@, [msg |-> msg[t], piece |-> offset[t] + 1])]
               /\ offset' = [offset EXCEPT ![t] = offset[t] + 1]
               /\ \/ offset[t] + 1 < CHUNKS /\ pc' = pc /\ slot' = slot
                  \/ /\ ~(offset[t] + 1 < CHUNKS)
                     /\ pc' = [pc EXCEPT ![t] = "peer"]
                     /\ slot' = [slot EXCEPT ![t] = slot[t] + 1]
               /\ lost' = lost
            \/ /\ lost' = [lost EXCEPT ![h] = @ \cup {msg[t]}]
               /\ pc' = [pc EXCEPT ![t] = "peer"]
               /\ slot' = [slot EXCEPT ![t] = slot[t] + 1]
               /\ got' = got /\ offset' = offset
         /\ pc[t] = "chunk"
         /\ UNCHANGED <<msg, messages, s_uart_write_lock, s_peers, uart, linkVars>>
BY DEF NotifyChunk, Goto, lockVars

(* Every step keeps WriterInv.                                             *)
LEMMA StepWriter == LinkInv /\ WriterInv /\ [Next]_vars => WriterInv'
<1> SUFFICES ASSUME LinkInv, WriterInv, [Next]_vars PROVE WriterInv'
  OBVIOUS
<1> USE DEF WriterInv, Goto, lockVars
<1>1. ASSUME NEW t \in Tasks, TakeUartLock(t) PROVE WriterInv'
  BY <1>1 DEF TakeUartLock
<1>2. ASSUME NEW t \in Tasks, uart_write_bytes(t) PROVE WriterInv'
  BY <1>2 DEF uart_write_bytes
<1>3. ASSUME NEW t \in Tasks, TakeNotifyLock(t) PROVE WriterInv'
  BY <1>3 DEF TakeNotifyLock
<1>4. ASSUME NEW t \in Tasks, NextPeer(t) PROVE WriterInv'
  BY <1>4, NextPeerStep
<1>5. ASSUME NEW t \in Tasks, NotifyChunk(t) PROVE WriterInv'
  <2> DEFINE h == s_peers[slot[t]].conn_handle
  <2>1. /\ pc[t] = "chunk"
        /\ pc' \in {pc, [pc EXCEPT ![t] = "peer"]}
        /\ slot' \in {slot, [slot EXCEPT ![t] = slot[t] + 1]}
        /\ \/ offset' = offset
           \/ /\ offset' = [offset EXCEPT ![t] = offset[t] + 1]
              /\ offset[t] + 1 < CHUNKS \/ pc' = [pc EXCEPT ![t] = "peer"]
        /\ UNCHANGED <<msg, messages, s_uart_write_lock>>
    BY <1>5, ChunkStep
  <2> QED
    BY <2>1
<1>6. ASSUME NEW t \in Tasks, GiveUartLock(t) PROVE WriterInv'
  BY <1>6 DEF GiveUartLock
<1>7. ASSUME UNCHANGED <<taskVars, lockVars>> PROVE WriterInv'
  BY <1>7 DEF taskVars
<1> QED
  BY <1>1, <1>2, <1>3, <1>4, <1>5, <1>6, <1>7
  DEF Next, Holder, Connect, Disconnect, Subscribe, AdvertisingEnds, on_reset, on_sync,
      esp_log_write, vars

(* Steps that leave the UART alone leave its lines alone.                  *)
LEMMA SameUart ==
  ASSUME UNCHANGED uart
  PROVE  /\ Printed' = Printed /\ UartLinesWhole' <=> UartLinesWhole
         /\ \A i \in Printed : LastPrinted(i)' <=> LastPrinted(i)
BY DEF Printed, UartLinesWhole, LastPrinted

(* What one more piece on the UART does, of a line or of log text.         *)
LEMMA OnePieceMore ==
  ASSUME uart \in Seq(Piece), NEW p \in Piece, uart' = Append(uart, p)
  PROVE  /\ uart' \in Seq(Piece)
         /\ Printed \subseteq 1 .. Len(uart) /\ Len(uart) \in Nat
         /\ \A i \in Printed : uart'[i] = uart[i]
         /\ uart'[Len(uart) + 1] = p
         /\ Printed' = IF p = LogText THEN Printed ELSE Printed \cup {Len(uart) + 1}
<1>1. /\ uart' \in Seq(Piece) /\ Len(uart) \in Nat
      /\ DOMAIN uart = 1 .. Len(uart) /\ DOMAIN uart' = 1 .. Len(uart) + 1
      /\ \A i \in DOMAIN uart : uart'[i] = uart[i]
      /\ uart'[Len(uart) + 1] = p
  BY MorePieces
<1>2. Printed \subseteq DOMAIN uart
  BY DEF Printed
<1>3. Printed' = {i \in DOMAIN uart' : uart'[i] # LogText}
  BY DEF Printed, LogText
<1>4. DOMAIN uart' = DOMAIN uart \cup {Len(uart) + 1} /\ Len(uart) + 1 \notin DOMAIN uart
  BY <1>1
<1>5. Printed' = IF p = LogText THEN Printed ELSE Printed \cup {Len(uart) + 1}
  BY <1>1, <1>3, <1>4 DEF Printed
<1> QED
  BY <1>1, <1>2, <1>5

(* The lines printed so far stay as they are, whatever is sent after them. *)
LEMMA OldLines ==
  ASSUME UartLinesWhole, NEW n \in Nat, Printed \subseteq 1 .. n,
         \A i \in Printed : uart'[i] = uart[i],
         Printed' \in {Printed, Printed \cup {n + 1}},
         NEW j \in Printed
  PROVE  \/ uart'[j].piece = 1 /\ \A k \in Printed' : j <= k
         \/ \E i \in Printed' :
              /\ i < j /\ \A k \in Printed' : k <= i \/ j <= k
              /\ Follows(uart'[i], uart'[j], UART_PIECES, FALSE)
<1>1. \A k \in Printed' : k \in Printed \/ j <= k
  OBVIOUS
<1>2. CASE uart[j].piece = 1 /\ \A k \in Printed : j <= k
  BY <1>1, <1>2
<1>3. CASE \E i \in Printed :
             /\ i < j /\ \A k \in Printed : k <= i \/ j <= k
             /\ Follows(uart[i], uart[j], UART_PIECES, FALSE)
  <2>1. PICK i \in Printed :
          /\ i < j /\ \A k \in Printed : k <= i \/ j <= k
          /\ Follows(uart[i], uart[j], UART_PIECES, FALSE)
    BY <1>3
  <2>2. i \in Printed' /\ \A k \in Printed' : k <= i \/ j <= k
    BY <1>1, <2>1
  <2>3. Follows(uart'[i], uart'[j], UART_PIECES, FALSE)
    BY <2>1
  <2> QED
    BY <2>1, <2>2, <2>3
<1> QED
  BY <1>2, <1>3 DEF UartLinesWhole

(* Every step keeps UartInv.                                               *)
LEMMA StepUart == LinkInv /\ WriterInv /\ UartInv /\ [Next]_vars => UartInv'
<1> SUFFICES ASSUME LinkInv, WriterInv, UartInv, [Next]_vars PROVE UartInv'
  OBVIOUS
<1> USE DEF WriterInv, UartInv
<1>0. \A i \in Printed : uart[i].msg \in Nat /\ uart[i].piece \in Nat
  BY PieceTypes DEF Printed
<1>1. ASSUME NEW t \in Tasks, TakeUartLock(t) PROVE UartInv'
  <2>1. \A u \in Tasks : pc[u] = "idle"
    BY <1>1 DEF TakeUartLock
  <2>2. /\ pc' = [pc EXCEPT ![t] = "uart"] /\ offset' = [offset EXCEPT ![t] = 0]
        /\ msg' = [msg EXCEPT ![t] = messages + 1] /\ messages' = messages + 1
        /\ uart' = uart
    BY <1>1 DEF TakeUartLock, Goto
  <2>3. /\ Printed' = Printed /\ UartLinesWhole'
        /\ \A i \in Printed : LastPrinted(i)' <=> LastPrinted(i)
    BY <2>2, SameUart
  <2>4. \A i \in Printed : uart[i].msg < messages + 1
    BY <1>0
  <2>5. \A u \in Tasks : pc'[u] = "uart" => u = t /\ offset'[u] = 0 /\ msg'[u] = messages + 1
    BY <2>1, <2>2
  <2>6. Printed = {} \/ \E i \in Printed : LastPrinted(i) /\ uart[i].piece = UART_PIECES
    BY <2>1
  <2> QED
    BY <1>0, <2>2, <2>3, <2>4, <2>5, <2>6
<1>2. ASSUME NEW t \in Tasks, uart_write_bytes(t) PROVE UartInv'
  <2> DEFINE p == [msg |-> msg[t], piece |-> offset[t] + 1]
             n == Len(uart)
  <2>1. /\ pc[t] = "uart" /\ uart' = Append(uart, p)
        /\ offset' = [offset EXCEPT ![t] = offset[t] + 1]
        /\ pc' = [pc EXCEPT ![t] = IF offset[t] + 1 = UART_PIECES THEN "ble" ELSE "uart"]
        /\ msg' = msg /\ messages' = messages
    BY <1>2 DEF uart_write_bytes, Goto
  <2>2. /\ p \in Piece /\ p.msg = messages /\ p.piece = offset[t] + 1 /\ p.msg = msg[t]
        /\ p # LogText
    BY <2>1 DEF Piece, LogText
  <2> HIDE DEF p
  <2>3. \A u \in Tasks : pc[u] = "uart" => u = t
    BY <2>1
  <2>4. /\ uart' \in Seq(Piece) /\ n \in Nat /\ Printed \subseteq 1 .. n
        /\ \A i \in Printed : uart'[i] = uart[i]
        /\ uart'[n + 1] = p /\ Printed' = Printed \cup {n + 1}
    BY <2>1, <2>2, OnePieceMore
  <2> HIDE DEF n
  <2>5. \A i \in Printed' : uart'[i].msg <= messages'
    <3>1. \A i \in Printed : uart[i].msg <= messages
      OBVIOUS
    <3>2. messages \in Nat /\ messages' = messages /\ uart'[n + 1].msg = messages
      BY <2>1, <2>2, <2>4
    <3> HIDE DEF WriterInv, UartInv
    <3>3. ASSUME NEW i \in Printed' PROVE uart'[i].msg <= messages'
      <4>1. CASE i \in Printed
        BY <2>4, <3>1, <3>2, <4>1
      <4>2. CASE i = n + 1
        BY <3>2, <4>2
      <4> QED
        BY <2>4, <4>1, <4>2
    <3> QED
      BY <3>3
  <2>6. \/ Printed = {} /\ p.piece = 1
        \/ \E i \in Printed : LastPrinted(i) /\ Follows(uart[i], p, UART_PIECES, FALSE)
    <3>1. CASE offset[t] = 0
      <4>1. Printed = {} \/ \E i \in Printed : LastPrinted(i) /\ uart[i].piece = UART_PIECES
        BY <2>1, <2>3, <3>1
      <4>2. \A i \in Printed : uart[i].msg < msg[t]
        BY <2>1, <3>1
      <4>3. p.piece = 1 /\ \A i \in Printed : p.msg > uart[i].msg
        BY <1>0, <2>2, <3>1, <4>2
      <4> QED
        BY <4>1, <4>3 DEF Follows
    <3>2. CASE offset[t] > 0
      <4>1. PICK i \in Printed : LastPrinted(i) /\ uart[i].msg = msg[t] /\ uart[i].piece = offset[t]
        BY <2>1, <3>2
      <4> QED
        BY <2>2, <4>1 DEF Follows
    <3>3. offset[t] = 0 \/ offset[t] > 0
      OBVIOUS
    <3> HIDE DEF WriterInv, UartInv
    <3> QED
      BY <3>1, <3>2, <3>3, Zenon
  <2>7. UartLinesWhole'
    <3> HIDE DEF WriterInv
    <3>1. \/ p.piece = 1 /\ \A k \in Printed' : n + 1 <= k
          \/ \E i \in Printed' :
               /\ i < n + 1 /\ \A k \in Printed' : k <= i \/ n + 1 <= k
               /\ Follows(uart'[i], p, UART_PIECES, FALSE)
      <4>1. CASE Printed = {} /\ p.piece = 1
        <5> HIDE DEF UartInv
        <5>1. Printed' = {n + 1}
          BY <2>4, <4>1
        <5>2. n + 1 \in Nat
          BY <2>4
        <5>3. \A k \in Printed' : n + 1 <= k
          BY <5>1, <5>2
        <5> QED
          BY <4>1, <5>3
      <4>2. ASSUME NEW i \in Printed, LastPrinted(i), Follows(uart[i], p, UART_PIECES, FALSE)
            PROVE  \E m \in Printed' :
                     /\ m < n + 1 /\ \A k \in Printed' : k <= m \/ n + 1 <= k
                     /\ Follows(uart'[m], p, UART_PIECES, FALSE)
        <5>1. i \in Printed' /\ i < n + 1 /\ \A k \in Printed' : k <= i \/ n + 1 <= k
          BY <2>4, <4>2 DEF LastPrinted
        <5>2. uart'[i] = uart[i]
          BY <2>4
        <5> QED
          BY <4>2, <5>1, <5>2
      <4> QED
        BY <2>6, <4>1, <4>2
    <3>2. ASSUME NEW j \in Printed'
          PROVE  \/ uart'[j].piece = 1 /\ \A k \in Printed' : j <= k
                 \/ \E i \in Printed' :
                      /\ i < j /\ \A k \in Printed' : k <= i \/ j <= k
                      /\ Follows(uart'[i], uart'[j], UART_PIECES, FALSE)
      <4>1. CASE j \in Printed
        BY <2>4, <4>1, OldLines
      <4>2. CASE j = n + 1
        BY <2>4, <3>1, <4>2
      <4> QED
        BY <2>4, <4>1, <4>2
    <3> QED
      BY <3>2 DEF UartLinesWhole
  <2>8. \A u \in Tasks : pc'[u] = "uart" =>
          u = t /\ offset'[u] = offset[t] + 1 /\ offset[t] + 1 # UART_PIECES
    BY <2>1, <2>3
  <2>9. n + 1 \in Printed' /\ uart'[n + 1] = p /\ \A k \in Printed' : k <= n + 1
    <3> HIDE DEF WriterInv, UartInv
    <3>1. n \in Nat /\ Printed' = Printed \cup {n + 1} /\ \A k \in Printed : k \in 1 .. n
      BY <2>4
    <3>2. \A k \in Printed : k <= n + 1
      BY <3>1
    <3>3. \A k \in Printed' : k <= n + 1
      BY <3>1, <3>2
    <3> QED
      BY <2>4, <3>1, <3>3
  <2>10. (\A u \in Tasks : pc'[u] = "uart" => offset'[u] = 0) => p.piece = UART_PIECES
    BY <2>1, <2>2
  <2> QED
    <3>1. \A u \in Tasks : pc'[u] = "uart" =>
            offset'[u] # 0 /\ p.msg = msg'[u] /\ p.piece = offset'[u]
      BY <2>1, <2>2, <2>8
    <3> HIDE DEF WriterInv, UartInv
    <3> QED
      BY <2>4, <2>5, <2>7, <2>9, <2>10, <3>1 DEF UartInv, LastPrinted
<1>3. ASSUME NEW t \in Tasks, pc[t] # "uart", pc'[t] # "uart",
             \A u \in Tasks \ {t} : pc'[u] = pc[u] /\ offset'[u] = offset[u] /\ msg'[u] = msg[u],
             UNCHANGED <<uart, messages>>
      PROVE  UartInv'
  <2>1. /\ Printed' = Printed /\ UartLinesWhole'
        /\ \A i \in Printed : LastPrinted(i)' <=> LastPrinted(i)
    BY <1>3, SameUart
  <2> QED
    <3>1. \A u \in Tasks : pc'[u] = "uart" =>
            u # t /\ pc[u] = "uart" /\ offset'[u] = offset[u] /\ msg'[u] = msg[u]
      BY <1>3
    <3>2. (\A u \in Tasks : pc'[u] = "uart" => offset'[u] = 0)
            => \A u \in Tasks : pc[u] = "uart" => offset[u] = 0
      BY <1>3
    <3>3. UNCHANGED <<uart, messages>>
      BY <1>3
    <3> HIDE DEF WriterInv
    <3>4. \A u \in Tasks : pc'[u] = "uart" /\ offset'[u] > 0 =>
            \E i \in Printed : /\ \A k \in Printed : k <= i
                              /\ uart[i].msg = msg'[u] /\ uart[i].piece = offset'[u]
      BY <3>1 DEF LastPrinted
    <3>5. (\A u \in Tasks : pc'[u] = "uart" => offset'[u] = 0) =>
            Printed = {} \/ \E i \in Printed : /\ \A k \in Printed : k <= i
                                              /\ uart[i].piece = UART_PIECES
      BY <3>2 DEF LastPrinted
    <3>6. \A u \in Tasks : pc'[u] = "uart" /\ offset'[u] = 0 =>
            \A i \in Printed : uart[i].msg < msg'[u]
      BY <3>1
    <3> QED
      BY <2>1, <3>3, <3>4, <3>5, <3>6 DEF LastPrinted
<1>4. ASSUME NEW t \in Tasks, TakeNotifyLock(t) PROVE UartInv'
  BY <1>3, <1>4 DEF TakeNotifyLock, Goto
<1>5. ASSUME NEW t \in Tasks, NextPeer(t) PROVE UartInv'
  <2>1. /\ pc[t] = "peer"
        /\ pc' \in {[pc EXCEPT ![t] = "chunk"], [pc EXCEPT ![t] = "give"]}
        /\ offset' \in {offset, [offset EXCEPT ![t] = 0]}
        /\ UNCHANGED <<msg, messages, uart>>
    BY <1>5, NextPeerStep
  <2> QED
    BY <1>3, <2>1
<1>6. ASSUME NEW t \in Tasks, NotifyChunk(t) PROVE UartInv'
  <2>1. /\ pc[t] = "chunk"
        /\ pc' \in {pc, [pc EXCEPT ![t] = "peer"]}
        /\ offset' \in {offset, [offset EXCEPT ![t] = offset[t] + 1]}
        /\ UNCHANGED <<msg, messages, uart>>
    BY <1>6, ChunkStep
  <2> QED
    BY <1>3, <2>1
<1>7. ASSUME NEW t \in Tasks, GiveUartLock(t) PROVE UartInv'
  BY <1>3, <1>7 DEF GiveUartLock, Goto
<1>8. CASE esp_log_write
  <2>1. uart' = Append(uart, LogText) /\ UNCHANGED <<pc, msg, offset, messages>>
    BY <1>8 DEF esp_log_write, taskVars
  <2>2. LogText \in Piece
    BY DEF LogText, Piece
  <2>3. /\ uart' \in Seq(Piece) /\ Printed' = Printed
        /\ Printed \subseteq 1 .. Len(uart) /\ Len(uart) \in Nat
        /\ \A i \in Printed : uart'[i] = uart[i]
    BY <2>1, <2>2, OnePieceMore
  <2>4. UartLinesWhole'
    <3>1. ASSUME NEW j \in Printed'
          PROVE  \/ uart'[j].piece = 1 /\ \A k \in Printed' : j <= k
                 \/ \E i \in Printed' :
                      /\ i < j /\ \A k \in Printed' : k <= i \/ j <= k
                      /\ Follows(uart'[i], uart'[j], UART_PIECES, FALSE)
      BY <2>3, OldLines
    <3> QED
      BY <3>1 DEF UartLinesWhole
  <2>5. \A i \in Printed : LastPrinted(i)' <=> LastPrinted(i)
    BY <2>3 DEF LastPrinted
  <2> QED
    BY <2>1, <2>3, <2>4, <2>5 DEF LastPrinted
<1>9. ASSUME UNCHANGED <<taskVars, uart>> PROVE UartInv'
  <2>1. /\ Printed' = Printed /\ UartLinesWhole'
        /\ \A i \in Printed : LastPrinted(i)' <=> LastPrinted(i)
    BY <1>9, SameUart
  <2> QED
    BY <1>9, <2>1 DEF taskVars
<1> QED
  BY <1>1, <1>2, <1>4, <1>5, <1>6, <1>7, <1>8, <1>9
  DEF Next, Holder, Connect, Disconnect, Subscribe, AdvertisingEnds, on_reset, on_sync, vars

(* The state after boot: nobody prints, nothing has been printed.          *)
LEMMA InitWriter == Init => WriterInv /\ UartInv
<1> SUFFICES ASSUME Init PROVE WriterInv /\ UartInv
  OBVIOUS
<1>1. Printed = {}
  BY DEF Init, Printed
<1> QED
  BY <1>1 DEF Init, WriterInv, UartInv, UartLinesWhole

(* However many tasks call meb_serial_printf, in how many pieces the UART  *)
(* takes a line, and whatever ESP_LOG* puts between them, lines come out   *)
(* whole and one after the other once the log text is taken out.           *)
THEOREM UartWhole == Spec => []UartLinesWhole
<1>1. Init => LinkInv /\ WriterInv /\ UartInv
  BY InitLink, InitWriter
<1>2. LinkInv /\ WriterInv /\ UartInv /\ [Next]_vars => (LinkInv /\ WriterInv /\ UartInv)'
  BY StepLink, StepWriter, StepUart
<1>3. UartInv => UartLinesWhole
  BY DEF UartInv
<1> QED
  BY <1>1, <1>2, <1>3, PTL DEF Spec

-----------------------------------------------------------------------------
(* A BLE client.  The holder of the lock has sent it nothing of its line   *)
(* yet, or is inside it, or is done with it; a line that a failure cut     *)
(* short is in lost.                                                       *)
Fresh(t) ==
  \/ pc[t] \in {"uart", "ble"}
  \/ pc[t] = "peer" /\ slot[t] <= 1
  \/ pc[t] = "chunk" /\ offset[t] = 0

Inside(t) == pc[t] = "chunk" /\ offset[t] > 0

(* ClientLinesWhole for one client.                                        *)
LinesOf(h) ==
  \A i \in DOMAIN got[h] :
    IF i = 1 THEN got[h][1].piece = 1 \/ got[h][1].msg <= joined[h]
    ELSE Follows(got[h][i - 1], got[h][i], CHUNKS, got[h][i - 1].msg \in lost[h])

Latest(h) == got[h][Len(got[h])]

Stream(h) ==
  /\ \A i \in DOMAIN got[h] : got[h][i].msg <= messages
  /\ \A t \in Tasks : Fresh(t) => \A i \in DOMAIN got[h] : got[h][i].msg < messages
  /\ \A t \in Tasks : Inside(t) =>
       IF got[h] = <<>> THEN messages <= joined[h]
       ELSE Latest(h).msg = messages /\ Latest(h).piece = offset[t]
  /\ (\A t \in Tasks : ~Inside(t)) /\ got[h] # <<>> =>
       Latest(h).piece = CHUNKS \/ Latest(h).msg \in lost[h]
  /\ LinesOf(h)

ClientInv ==
  /\ got \in [Handles -> Seq(Piece)] /\ joined \in [Handles -> Nat]
  /\ lost \in [Handles -> SUBSET Nat]
  /\ \A t \in Tasks : pc[t] = "chunk" => slot[t] = 1
  /\ \A h \in up : Stream(h)

(* What a step leaves alone that neither starts a line nor sends of one.   *)
NothingBegun ==
  \A t \in Tasks :
    /\ Fresh(t)' => Fresh(t)
    /\ Inside(t)' <=> Inside(t)
    /\ Inside(t) => offset'[t] = offset[t]
    /\ pc'[t] = "chunk" => slot'[t] = 1

(* Such a step keeps ClientInv.                                            *)
LEMMA KeepStream ==
  ASSUME LinkInv, ClientInv, up' \subseteq up, UNCHANGED <<got, lost, joined, messages>>,
         NothingBegun
  PROVE  ClientInv'
<1>1. ASSUME NEW h \in up' PROVE Stream(h)'
  <2>1. Stream(h) /\ got'[h] = got[h] /\ Latest(h)' = Latest(h)
    BY DEF ClientInv, Latest
  <2>2. LinesOf(h)'
    BY <2>1 DEF Stream, LinesOf
  <2> QED
    BY <2>1, <2>2 DEF Stream, NothingBegun
<1> QED
  BY <1>1 DEF ClientInv, NothingBegun

(* A notification that is sent keeps ClientInv.                            *)
LEMMA ChunkSent ==
  ASSUME LinkInv, WriterInv, ClientInv, NEW t \in Tasks, NEW h \in up, pc[t] = "chunk",
         got' = [got EXCEPT ![h] = Append(@, [msg |-> msg[t], piece |-> offset[t] + 1])],
         offset' = [offset EXCEPT ![t] = offset[t] + 1],
         \/ offset[t] + 1 < CHUNKS /\ pc' = pc /\ slot' = slot
         \/ /\ ~(offset[t] + 1 < CHUNKS)
            /\ pc' = [pc EXCEPT ![t] = "peer"]
            /\ slot' = [slot EXCEPT ![t] = slot[t] + 1],
         UNCHANGED <<lost, up, joined, messages>>
  PROVE  ClientInv'
<1> DEFINE p == [msg |-> msg[t], piece |-> offset[t] + 1]
<1>0. h \in Handles /\ \A g \in up : g = h
  BY DEF LinkInv
<1>1. /\ p \in Piece /\ p.msg = messages /\ p.piece = offset[t] + 1
      /\ offset[t] \in Nat /\ offset[t] < CHUNKS /\ slot[t] = 1 /\ messages \in Nat
  BY DEF WriterInv, Piece, ClientInv
<1>2. got[h] \in Seq(Piece) /\ got'[h] = Append(got[h], p)
  BY <1>0 DEF ClientInv
<1> HIDE DEF p
<1>3. /\ got'[h] \in Seq(Piece) /\ Len(got'[h]) = Len(got[h]) + 1 /\ Len(got[h]) \in Nat
      /\ got'[h] # <<>> /\ got'[h][Len(got'[h])] = p
      /\ \A i \in DOMAIN got[h] : got'[h][i] = got[h][i]
      /\ DOMAIN got[h] = 1 .. Len(got[h]) /\ DOMAIN got'[h] = 1 .. Len(got[h]) + 1
      /\ got[h] = <<>> <=> Len(got[h]) = 0
  <2> DEFINE s == got[h]
             r == got'[h]
  <2>1. s \in Seq(Piece) /\ p \in Piece /\ r = Append(s, p)
    BY <1>1, <1>2
  <2> HIDE DEF s, r
  <2>2. /\ r \in Seq(Piece) /\ Len(r) = Len(s) + 1 /\ Len(s) \in Nat
        /\ r # <<>> /\ r[Len(r)] = p
        /\ \A i \in DOMAIN s : r[i] = s[i]
        /\ DOMAIN s = 1 .. Len(s) /\ DOMAIN r = 1 .. Len(s) + 1
        /\ s = <<>> <=> Len(s) = 0
    BY <2>1, MorePieces
  <2> QED
    BY <2>2 DEF s, r
<1>4. \A u \in Tasks \ {t} : pc[u] = "idle" /\ pc'[u] = "idle"
  BY DEF WriterInv
<1>5. \A u \in Tasks : ~Fresh(u)' /\ (Inside(u)' => u = t /\ offset'[u] = offset[t] + 1)
  <2>1. offset'[t] = offset[t] + 1
    BY DEF WriterInv
  <2>2. pc'[t] = "chunk" \/ (pc'[t] = "peer" /\ slot'[t] = 2)
    BY <1>1 DEF WriterInv
  <2> QED
    BY <1>1, <1>4, <2>1, <2>2 DEF Fresh, Inside
<1>6. (\A u \in Tasks : ~Inside(u)') => p.piece = CHUNKS
  BY <1>1 DEF Inside, WriterInv
<1>7. Stream(h)
  BY DEF ClientInv
<1>8. IF got[h] = <<>> THEN p.piece = 1 \/ p.msg <= joined[h]
      ELSE Follows(Latest(h), p, CHUNKS, Latest(h).msg \in lost[h])
  <2>1. CASE offset[t] = 0
    <3>1. Fresh(t) /\ \A u \in Tasks : ~Inside(u)
      BY <1>4, <2>1 DEF Fresh, Inside
    <3>2. got[h] # <<>> => /\ Latest(h).piece = CHUNKS \/ Latest(h).msg \in lost[h]
                           /\ Latest(h).msg < messages /\ Latest(h).msg \in Nat
      BY <1>2, <1>3, <1>7, <3>1, PieceTypes DEF Stream, Latest
    <3> QED
      BY <1>1, <2>1, <3>2 DEF Follows
  <2>2. CASE offset[t] > 0
    <3>1. Inside(t)
      BY <2>2 DEF Inside
    <3>2. IF got[h] = <<>> THEN messages <= joined[h]
          ELSE Latest(h).msg = messages /\ Latest(h).piece = offset[t]
      BY <1>7, <3>1 DEF Stream
    <3> QED
      BY <1>1, <3>2 DEF Follows
  <2>3. offset[t] = 0 \/ offset[t] > 0
    BY <1>1
  <2> QED
    BY <2>1, <2>2, <2>3
<1>9. LinesOf(h)'
  <2> SUFFICES ASSUME NEW i \in DOMAIN got'[h]
               PROVE  IF i = 1 THEN got'[h][1].piece = 1 \/ got'[h][1].msg <= joined[h]
                      ELSE Follows(got'[h][i - 1], got'[h][i], CHUNKS, got'[h][i - 1].msg \in lost[h])
    BY DEF LinesOf
  <2>1. CASE i \in DOMAIN got[h]
    <3>1. got'[h][i] = got[h][i] /\ (i # 1 => got'[h][i - 1] = got[h][i - 1])
      BY <1>3, <2>1
    <3> QED
      BY <1>7, <2>1, <3>1 DEF Stream, LinesOf
  <2>2. CASE i = Len(got[h]) + 1
    <3>1. got'[h][i] = p /\ (i = 1 <=> got[h] = <<>>)
      BY <1>3, <2>2
    <3>2. i # 1 => got'[h][i - 1] = Latest(h)
      BY <1>3, <2>2 DEF Latest
    <3> QED
      BY <1>8, <3>1, <3>2
  <2> QED
    BY <1>3, <2>1, <2>2
<1>10. Stream(h)'
  <2>1. \A i \in DOMAIN got'[h] : got'[h][i].msg <= messages
    BY <1>1, <1>3, <1>7 DEF Stream
  <2>2. Latest(h)' = p
    BY <1>3 DEF Latest
  <2> QED
    BY <1>1, <1>3, <1>5, <1>6, <1>9, <2>1, <2>2 DEF Stream
<1>11. \A u \in Tasks : pc'[u] = "chunk" => slot'[u] = 1
  BY <1>1, <1>4 DEF WriterInv
<1>12. got' \in [Handles -> Seq(Piece)]
  BY <1>0, <1>2, <1>3 DEF ClientInv
<1> QED
  BY <1>0, <1>10, <1>11, <1>12 DEF ClientInv

(* A notification that fails keeps ClientInv.                              *)
LEMMA ChunkFailed ==
  ASSUME LinkInv, WriterInv, ClientInv, NEW t \in Tasks, pc[t] = "chunk",
         NEW h, h = s_peers[slot[t]].conn_handle,
         lost' = [lost EXCEPT ![h] = @ \cup {msg[t]}],
         pc' = [pc EXCEPT ![t] = "peer"],
         slot' = [slot EXCEPT ![t] = slot[t] + 1],
         UNCHANGED <<got, offset, up, joined, messages>>
  PROVE  ClientInv'
<1>1. slot[t] = 1 /\ msg[t] = messages /\ messages \in Nat
  BY DEF WriterInv, ClientInv
<1>2. \A u \in Tasks \ {t} : pc[u] = "idle" /\ pc'[u] = "idle"
  BY DEF WriterInv
<1>3. \A u \in Tasks : ~Fresh(u)' /\ ~Inside(u)'
  BY <1>1, <1>2 DEF Fresh, Inside, WriterInv
<1>4. ASSUME NEW g \in up PROVE Stream(g)'
  <2>1. g = h /\ g \in Handles
    BY <1>1 DEF LinkInv, Slots
  <2>2. Stream(g) /\ got'[g] = got[g] /\ Latest(g)' = Latest(g)
    BY DEF ClientInv, Latest
  <2>3. lost'[g] = lost[g] \cup {messages}
    BY <1>1, <2>1 DEF ClientInv
  <2>4. LinesOf(g)'
    BY <2>2, <2>3 DEF Stream, LinesOf, Follows
  <2>5. got[g] # <<>> => Latest(g).piece = CHUNKS \/ Latest(g).msg \in lost'[g]
    <3>1. CASE Inside(t)
      BY <2>2, <2>3, <3>1 DEF Stream
    <3>2. CASE ~Inside(t)
      <4>1. \A u \in Tasks : ~Inside(u)
        BY <1>2, <3>2 DEF Inside
      <4> QED
        BY <2>2, <2>3, <4>1 DEF Stream
    <3> QED
      BY <3>1, <3>2
  <2> QED
    BY <1>3, <2>2, <2>4, <2>5 DEF Stream
<1>5. \A u \in Tasks : pc'[u] = "chunk" => slot'[u] = 1
  BY <1>2 DEF WriterInv
<1>6. lost' \in [Handles -> SUBSET Nat]
  BY <1>1 DEF ClientInv
<1> QED
  BY <1>4, <1>5, <1>6 DEF ClientInv

(* Every step keeps ClientInv.                                             *)
LEMMA StepClient == LinkInv /\ WriterInv /\ ClientInv /\ [Next]_vars => ClientInv'
<1> SUFFICES ASSUME LinkInv, WriterInv, ClientInv, [Next]_vars PROVE ClientInv'
  OBVIOUS
<1>1. ASSUME NEW t \in Tasks, TakeUartLock(t) PROVE ClientInv'
  <2>1. \A u \in Tasks : pc[u] = "idle"
    BY <1>1 DEF TakeUartLock, WriterInv
  <2>2. /\ pc' = [pc EXCEPT ![t] = "uart"]
        /\ messages' = messages + 1 /\ messages \in Nat
        /\ UNCHANGED <<got, lost, joined, up>>
    BY <1>1 DEF TakeUartLock, Goto, linkVars, WriterInv
  <2>3. \A u \in Tasks : ~Inside(u) /\ ~Inside(u)' /\ pc'[u] # "chunk"
    BY <2>1, <2>2 DEF Inside, WriterInv
  <2>4. ASSUME NEW h \in up PROVE Stream(h)'
    <3>1. Stream(h) /\ got'[h] = got[h] /\ Latest(h)' = Latest(h) /\ got[h] \in Seq(Piece)
      BY <2>2 DEF ClientInv, Latest, LinkInv
    <3>2. LinesOf(h)'
      BY <2>2, <3>1 DEF Stream, LinesOf
    <3>3. \A i \in DOMAIN got[h] : got[h][i].msg < messages' /\ got[h][i].msg <= messages'
      <4>1. \A i \in DOMAIN got[h] : got[h][i].msg \in Nat
        BY <3>1, PieceTypes
      <4>2. \A i \in DOMAIN got[h] : got[h][i].msg <= messages
        BY <3>1 DEF Stream
      <4> QED
        BY <2>2, <4>1, <4>2
    <3> QED
      BY <2>2, <2>3, <3>1, <3>2, <3>3 DEF Stream
  <2> QED
    BY <2>2, <2>3, <2>4 DEF ClientInv
<1>2. ASSUME NEW t \in Tasks, uart_write_bytes(t) PROVE ClientInv'
  <2>1. /\ pc[t] = "uart" /\ pc' \in {[pc EXCEPT ![t] = "uart"], [pc EXCEPT ![t] = "ble"]}
        /\ offset' = [offset EXCEPT ![t] = offset[t] + 1] /\ slot' = slot
        /\ UNCHANGED <<up, got, lost, joined, messages>>
    BY <1>2 DEF uart_write_bytes, Goto, linkVars
  <2>2. NothingBegun
    BY <2>1 DEF NothingBegun, Fresh, Inside, WriterInv, ClientInv
  <2> QED
    BY <2>1, <2>2, KeepStream
<1>3. ASSUME NEW t \in Tasks, TakeNotifyLock(t) PROVE ClientInv'
  <2>1. /\ pc[t] = "ble" /\ offset' = offset
        /\ \/ pc' = [pc EXCEPT ![t] = "give"] /\ slot' = slot
           \/ pc' = [pc EXCEPT ![t] = "peer"] /\ slot' = [slot EXCEPT ![t] = 1]
        /\ UNCHANGED <<up, got, lost, joined, messages>>
    BY <1>3 DEF TakeNotifyLock, Goto, linkVars
  <2>2. NothingBegun
    BY <2>1 DEF NothingBegun, Fresh, Inside, WriterInv, ClientInv
  <2> QED
    BY <2>1, <2>2, KeepStream
<1>4. ASSUME NEW t \in Tasks, NextPeer(t) PROVE ClientInv'
  <2>1. /\ \/ /\ slot[t] <= 1
              /\ pc' = [pc EXCEPT ![t] = "chunk"]
              /\ slot' = [slot EXCEPT ![t] = 1]
              /\ offset' = [offset EXCEPT ![t] = 0]
           \/ /\ pc' = [pc EXCEPT ![t] = "give"]
              /\ slot' = slot /\ offset' = offset
        /\ pc[t] = "peer"
        /\ UNCHANGED <<up, got, lost, joined, messages>>
    BY <1>4, NextPeerStep DEF linkVars
  <2>2. NothingBegun
    BY <2>1 DEF NothingBegun, Fresh, Inside, WriterInv, ClientInv
  <2> QED
    BY <2>1, <2>2, KeepStream
<1>5. ASSUME NEW t \in Tasks, NotifyChunk(t) PROVE ClientInv'
  <2>1. UNCHANGED <<up, joined>>
    BY <1>5 DEF NotifyChunk, linkVars
  <2> DEFINE h == s_peers[slot[t]].conn_handle
  <2>2. CASE /\ h \in up
             /\ got' = [got EXCEPT ![h] = Append(@, [msg |-> msg[t], piece |-> offset[t] + 1])]
             /\ offset' = [offset EXCEPT ![t] = offset[t] + 1]
             /\ \/ offset[t] + 1 < CHUNKS /\ pc' = pc /\ slot' = slot
                \/ /\ ~(offset[t] + 1 < CHUNKS)
                   /\ pc' = [pc EXCEPT ![t] = "peer"]
                   /\ slot' = [slot EXCEPT ![t] = slot[t] + 1]
             /\ lost' = lost
    <3>1. pc[t] = "chunk" /\ UNCHANGED messages
      BY <1>5 DEF NotifyChunk
    <3> HIDE DEF h
    <3> QED
      BY <2>1, <2>2, <3>1, ChunkSent
  <2>3. CASE /\ lost' = [lost EXCEPT ![h] = @ \cup {msg[t]}]
             /\ pc' = [pc EXCEPT ![t] = "peer"]
             /\ slot' = [slot EXCEPT ![t] = slot[t] + 1]
             /\ got' = got /\ offset' = offset
    <3>1. pc[t] = "chunk" /\ UNCHANGED messages
      BY <1>5 DEF NotifyChunk
    <3> QED
      BY <2>1, <2>3, <3>1, ChunkFailed
  <2> QED
    BY <1>5, <2>2, <2>3, ChunkStep
<1>6. ASSUME NEW t \in Tasks, GiveUartLock(t) PROVE ClientInv'
  <2>1. /\ pc[t] = "give" /\ pc' = [pc EXCEPT ![t] = "idle"]
        /\ offset' = [offset EXCEPT ![t] = 0] /\ slot' = [slot EXCEPT ![t] = 1]
        /\ UNCHANGED <<up, got, lost, joined, messages>>
    BY <1>6 DEF GiveUartLock, Goto, linkVars
  <2>2. NothingBegun
    BY <2>1 DEF NothingBegun, Fresh, Inside, WriterInv, ClientInv
  <2> QED
    BY <2>1, <2>2, KeepStream
<1>7. ASSUME NEW h \in Handles, Connect(h) PROVE ClientInv'
  <2>1. advertising = TRUE /\ up = {}
    BY <1>7, Zenon DEF Connect, LinkInv
  <2>2. /\ up' = {h} /\ UNCHANGED taskVars
        /\ got' = [got EXCEPT ![h] = <<>>] /\ lost' = [lost EXCEPT ![h] = {}]
        /\ joined' = [joined EXCEPT ![h] = messages]
    BY <1>7, <2>1 DEF Connect
  <2>3. got'[h] = <<>> /\ joined'[h] = messages /\ messages \in Nat
    BY <2>2 DEF ClientInv, WriterInv
  <2>4. /\ got' \in [Handles -> Seq(Piece)] /\ joined' \in [Handles -> Nat]
        /\ lost' \in [Handles -> SUBSET Nat]
    BY <2>2, <2>3 DEF ClientInv
  <2>5. messages' = messages /\ pc' = pc /\ slot' = slot
    BY <2>2 DEF taskVars
  <2>6. DOMAIN got'[h] = {} /\ LinesOf(h)'
    BY <2>3 DEF LinesOf
  <2>7. Stream(h)'
    BY <2>3, <2>5, <2>6 DEF Stream
  <2> QED
    BY <2>2, <2>4, <2>5, <2>7 DEF ClientInv
<1>8. ASSUME up' \subseteq up, UNCHANGED <<taskVars, got, lost, joined>> PROVE ClientInv'
  <2>1. pc' = pc /\ offset' = offset /\ slot' = slot /\ messages' = messages
    BY <1>8 DEF taskVars
  <2>2. NothingBegun
    BY <2>1 DEF NothingBegun, Fresh, Inside, ClientInv
  <2> QED
    BY <1>8, <2>1, <2>2, KeepStream
<1>9. ASSUME NEW h \in Handles, Disconnect(h) PROVE ClientInv'
  BY <1>8, <1>9 DEF Disconnect
<1>10. ASSUME NEW h \in Handles, NEW on \in BOOLEAN, Subscribe(h, on) PROVE ClientInv'
  BY <1>8, <1>10 DEF Subscribe
<1>11. CASE AdvertisingEnds
  BY <1>8, <1>11 DEF AdvertisingEnds
<1>12. CASE on_reset
  BY <1>8, <1>12 DEF on_reset
<1>13. CASE on_sync
  BY <1>8, <1>13 DEF on_sync
<1>14. CASE UNCHANGED vars \/ esp_log_write
  BY <1>8, <1>14 DEF vars, linkVars, esp_log_write
<1> QED
  BY <1>1, <1>2, <1>3, <1>4, <1>5, <1>6, <1>7, <1>9, <1>10, <1>11, <1>12, <1>13, <1>14
  DEF Next, Holder

(* README's advice to collect notifications up to a newline gives a client *)
(* whole lines in order, but for those that meb_ble_console_write failed   *)
(* to send and the rest of one begun for the client before: however many   *)
(* tasks print, clients come and go, and pieces a line takes.              *)
THEOREM ClientWhole == Spec => []ClientLinesWhole
<1>1. Init => LinkInv /\ WriterInv /\ ClientInv
  BY InitLink, InitWriter DEF Init, ClientInv
<1>2. LinkInv /\ WriterInv /\ ClientInv /\ [Next]_vars => (LinkInv /\ WriterInv /\ ClientInv)'
  BY StepLink, StepWriter, StepClient
<1>3. ClientInv => ClientLinesWhole
  BY DEF ClientInv, Stream, LinesOf, ClientLinesWhole
<1> QED
  BY <1>1, <1>2, <1>3, PTL DEF Spec
=============================================================================
