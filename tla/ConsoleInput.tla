---------------------------- MODULE ConsoleInput ----------------------------
(***************************************************************************)
(* How bytes become commands: uart_command_task of main/serial_console.c,  *)
(* and feed_rx_bytes, queue_line and command_task of main/ble_console.c.   *)
(*                                                                         *)
(* A byte is '{', newline or "x", any other, with the number of the line   *)
(* it belongs to and its place there.  The UART task runs a command as     *)
(* soon as it has it.  The BLE host task queues it for command_task, and   *)
(* keeps the bytes of an unfinished line from one connection to the next.  *)
(* Each looks at a chunk byte by byte, while the others go on.             *)
(*                                                                         *)
(* The UART driver's interrupt puts bytes into a ring that the task reads  *)
(* when it gets to it; what finds the ring full is lost, for there is no   *)
(* flow control.                                                           *)
(*                                                                         *)
(* The two consoles share nothing on this side, so the model has one of    *)
(* them at a time, with a patient host or another one.                     *)
(***************************************************************************)
EXTENDS Integers, Sequences, SequencesExt

CONSTANTS
  CMD_RX_BUF_SIZE,       (* CMD_RX_BUF_SIZE = BLE_CMD_RX_BUF_SIZE          *)
  HOST_UART_RX_BUF_SIZE, (* HOST_UART_RX_BUF_SIZE                          *)
  BLE_CMD_QUEUE_DEPTH,   (* BLE_CMD_QUEUE_DEPTH                            *)
  Requests,              (* what hosts send, without the newline           *)
  MaxChunk,              (* bytes per uart_read_bytes or GATT write        *)
  MaxLines               (* bound: lines sent                              *)

ASSUME ConsoleInputConstants ==
  /\ CMD_RX_BUF_SIZE \in Nat /\ CMD_RX_BUF_SIZE > 1
  /\ HOST_UART_RX_BUF_SIZE \in Nat /\ HOST_UART_RX_BUF_SIZE >= CMD_RX_BUF_SIZE
  /\ BLE_CMD_QUEUE_DEPTH \in Nat \ {0}
  /\ \A r \in Requests :
       r \in Seq({"{", "x"}) /\ Len(r) > 0 /\ r[1] = "{"
  /\ MaxChunk \in Nat \ {0} /\ MaxLines \in Nat \ {0}

VARIABLES
  console,          (* "uart" or "ble"                                     *)
  patient,          (* the host keeps lines short, finishes them and waits *)
                    (* for the answer before the next                      *)
  wire,             (* the bytes of a line not yet delivered               *)
  ring,             (* external: bytes in the UART driver                  *)
  data,             (* the chunk read, as far as not yet looked at         *)
  line,             (* cmd_buf of the UART task, s_rx_line of the BLE host *)
  s_command_queue,  (* commands for command_task                           *)
  processed         (* what process_command was called with                *)

(* History.                                                                *)
VARIABLES
  seen,             (* the byte looked at last                             *)
  sent,             (* the lines hosts started                             *)
  cut,              (* BLE lines whose client went away before their end   *)
  overrun,          (* lines of which the UART driver lost bytes           *)
  refused           (* commands dropped because the queue was full         *)

inputVars ==
  <<console, patient, wire, ring, data, line, s_command_queue, processed, seen, sent, cut, overrun,
    refused>>

(* What comes before the first line.                                       *)
Origin == [line |-> 0, at |-> 1, c |-> "\n"]

InputInit ==
  /\ console \in {"uart", "ble"}
  /\ patient \in BOOLEAN
  /\ wire = <<>> /\ ring = <<>> /\ data = <<>>
  /\ line = <<>>
  /\ s_command_queue = <<>>
  /\ processed = <<>>
  /\ seen = Origin /\ sent = <<>>
  /\ cut = {} /\ overrun = {} /\ refused = {}

(* The n-th line, byte by byte.                                            *)
Bytes(n, request) == [i \in 1 .. Len(request) |-> [line |-> n, at |-> i, c |-> request[i]]]

-----------------------------------------------------------------------------
(* Mutant: a command that finds the queue full replaces what waits.        *)
QueueLine_Overwrites(command) ==
  s_command_queue' = <<command>> /\ UNCHANGED refused

queue_line(command) ==
  \/ /\ Len(s_command_queue) < BLE_CMD_QUEUE_DEPTH
     /\ s_command_queue' = Append(s_command_queue, command)
     /\ UNCHANGED refused
  \/ /\ Len(s_command_queue) = BLE_CMD_QUEUE_DEPTH
     /\ refused' = refused \cup {command}
     /\ UNCHANGED s_command_queue

(* meb_serial_console_process_command, in place or by way of the queue.    *)
Yield(command) ==
  \/ /\ console = "uart"
     /\ processed' = Append(processed, command)
     /\ UNCHANGED <<s_command_queue, refused>>
  \/ console = "ble" /\ queue_line(command) /\ UNCHANGED processed

NoCommand == UNCHANGED <<processed, s_command_queue, refused>>

(* Mutant: the line is yielded but stays in the buffer.                    *)
TakeByte_LineKept(b) ==
  \/ b.c = "\n" /\ line # <<>> /\ Yield(line) /\ UNCHANGED line
  \/ b.c # "\n" /\ line = <<>> /\ line' = (IF b.c = "{" THEN <<b>> ELSE <<>>) /\ NoCommand
  \/ b.c # "\n" /\ line # <<>> /\ line' = Append(line, b) /\ NoCommand

(* The body of the byte loop both consoles have.  They differ in what      *)
(* becomes of an overlong line: the UART task runs the part it has, the    *)
(* BLE host drops it.                                                      *)
TakeByte(b) ==
  \/ b.c = "\n" /\ line # <<>> /\ Yield(line) /\ line' = <<>>
  \/ b.c = "\n" /\ line = <<>> /\ NoCommand /\ UNCHANGED line
  \/ b.c # "\n" /\ line = <<>> /\ line' = (IF b.c = "{" THEN <<b>> ELSE <<>>) /\ NoCommand
  \/ /\ b.c # "\n" /\ line # <<>> /\ Len(line) < CMD_RX_BUF_SIZE - 1
     /\ line' = Append(line, b) /\ NoCommand
  \/ /\ b.c # "\n" /\ Len(line) >= CMD_RX_BUF_SIZE - 1
     /\ line' = <<>>
     /\ IF console = "uart" THEN Yield(line) ELSE NoCommand

feed_rx_bytes ==
  /\ data # <<>>
  /\ data' = Tail(data) /\ seen' = Head(data)
  /\ TakeByte(Head(data))
  /\ UNCHANGED <<console, patient, wire, ring, sent, cut, overrun>>

(* The next n bytes off the wire, in one chunk.                            *)
Deliver(n) == n <= Len(wire) /\ wire' = SubSeq(wire, n + 1, Len(wire))

-----------------------------------------------------------------------------
(* External: the UART interrupt empties the receive FIFO into the ring.    *)
UartInterrupt(n) ==
  LET room == HOST_UART_RX_BUF_SIZE - Len(ring)
      kept == IF n < room THEN n ELSE room
  IN /\ console = "uart"
     /\ Deliver(n)
     /\ ring' = ring \o SubSeq(wire, 1, kept)
     /\ overrun' = overrun \cup {wire[i].line : i \in kept + 1 .. n}
     /\ UNCHANGED <<console, patient, data, line, s_command_queue, processed, seen, sent, cut,
                    refused>>

(* uart_command_task reads what is there, at most a chunk, once it is done *)
(* with the chunk before.                                                  *)
uart_command_task ==
  LET n == IF Len(ring) < MaxChunk THEN Len(ring) ELSE MaxChunk
  IN /\ console = "uart" /\ ring # <<>> /\ data = <<>>
     /\ data' = SubSeq(ring, 1, n)
     /\ ring' = SubSeq(ring, n + 1, Len(ring))
     /\ UNCHANGED <<console, patient, wire, line, s_command_queue, processed, seen, sent, cut,
                    overrun, refused>>

(* A write to the RX characteristic.                                       *)
gatt_access_cb(n) ==
  /\ console = "ble" /\ data = <<>>
  /\ Deliver(n)
  /\ data' = SubSeq(wire, 1, n)
  /\ UNCHANGED <<console, patient, ring, line, s_command_queue, processed, seen, sent, cut, overrun,
                 refused>>

(* Mutant: a command is not run while a line is being received.            *)
CommandTask_DropsWhenBusy ==
  /\ s_command_queue # <<>>
  /\ processed' = IF line = <<>> THEN Append(processed, Head(s_command_queue))
                                 ELSE processed
  /\ s_command_queue' = Tail(s_command_queue)
  /\ UNCHANGED <<console, patient, wire, ring, data, line, seen, sent, cut, overrun, refused>>

command_task ==
  /\ s_command_queue # <<>>
  /\ processed' = Append(processed, Head(s_command_queue))
  /\ s_command_queue' = Tail(s_command_queue)
  /\ UNCHANGED <<console, patient, wire, ring, data, line, seen, sent, cut, overrun, refused>>

-----------------------------------------------------------------------------
(* The hosts.                                                              *)

(* An answer goes out for every command that is processed.                 *)
Answered ==
  \/ sent = <<>>
  \/ \E i \in DOMAIN processed : Last(processed[i]).line = Len(sent)

Send(request) ==
  /\ wire = <<>> /\ Len(sent) < MaxLines
  /\ patient => Answered /\ Len(request) < CMD_RX_BUF_SIZE
  /\ sent' = Append(sent, request)
  /\ wire' = Bytes(Len(sent) + 1, Append(request, "\n"))
  /\ UNCHANGED <<console, patient, ring, data, line, s_command_queue, processed, seen, cut, overrun,
                 refused>>

(* BLE_GAP_EVENT_DISCONNECT: the rest of the line never comes.  The next   *)
(* client's first line follows what s_rx_line holds.  The host task has    *)
(* looked at the last write by then.                                       *)
LineCut ==
  /\ console = "ble" /\ ~patient
  /\ wire # <<>> /\ data = <<>>
  /\ wire' = <<>>
  /\ cut' = cut \cup {Len(sent)}
  /\ UNCHANGED <<console, patient, ring, data, line, s_command_queue, processed, seen, sent, overrun,
                 refused>>

InputNext ==
  \/ \E r \in Requests : Send(r)
  \/ \E n \in 1 .. MaxChunk : UartInterrupt(n) \/ gatt_access_cb(n)
  \/ uart_command_task
  \/ feed_rx_bytes
  \/ command_task
  \/ LineCut

(* command_task blocks on the queue alone, and processing a command ends.  *)
InputSpec == InputInit /\ [][InputNext]_inputVars /\ WF_inputVars(command_task)

-----------------------------------------------------------------------------
Command(n)  == Bytes(n, sent[n])
Complete(n) ==
  /\ n < Len(sent) \/ wire = <<>>
  /\ n \notin cut
  /\ \A i \in DOMAIN ring : ring[i].line # n
  /\ \A i \in DOMAIN data : data[i].line # n
Torn(n)     == n \in cut \cup overrun
Spoilt(n)   == Len(sent[n]) >= CMD_RX_BUF_SIZE \/ Torn(n) \/ Torn(n - 1)

(* README: one newline-terminated JSON object per line.  Nothing else is   *)
(* processed as a command, whatever hosts send.                            *)
WholeCommands ==
  \A i \in DOMAIN processed :
    LET n == Last(processed[i]).line IN Complete(n) /\ processed[i] = Command(n)

(* What a patient host sends is processed exactly: each of its lines once, *)
(* whole and in order, the last one perhaps not yet; and it never meets a  *)
(* full queue (README: wait for each response before sending the next      *)
(* chunk; this avoids overrunning the command queues), nor loses a byte in *)
(* the UART driver, however late the task reads: the ring takes any line   *)
(* that cmd_buf takes.                                                     *)
PatientHostServed ==
  patient =>
    /\ refused = {} /\ overrun = {}
    /\ Len(processed) \in {Len(sent), Len(sent) - 1}
    /\ \A i \in DOMAIN processed : processed[i] = Command(i)

(* A line that is too long, that the UART driver lost bytes of, or whose   *)
(* client went away harms nothing but itself and the line after it: every  *)
(* other line is processed, waits in the queue or was refused for lack of  *)
(* room, whole, and what is not a whole line has no byte of such a line.   *)
DamageContained ==
  LET taken == ToSet(processed) \cup ToSet(s_command_queue) \cup refused
  IN /\ \A n \in DOMAIN sent :
          Complete(n) /\ ~Spoilt(n) => Command(n) \in taken
     /\ \A c \in taken :
          c = Command(Last(c).line) \/ \A i \in DOMAIN c : Spoilt(c[i].line)

(* What got into the queue is processed.                                   *)
QueuedCommandsRun ==
  \A n \in 1 .. MaxLines :
    (\E i \in DOMAIN s_command_queue : Last(s_command_queue[i]).line = n)
      ~> (\E i \in DOMAIN processed : Last(processed[i]).line = n)
=============================================================================
