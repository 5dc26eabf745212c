----------------------------- MODULE RpcClients -----------------------------
(***************************************************************************)
(* The device and its clients.  Commands come in over two consoles, each   *)
(* in order; an answer goes out over both, so every client hears the       *)
(* answers to all, and knows its own only by the id it chose.  Every       *)
(* client process numbers its requests from 1.                             *)
(*                                                                         *)
(* The device reads lines as JsonRpc and Base64 say and, one command at a  *)
(* time, drives the session of OtaSession, which OtaUpdate implements.     *)
(* The client is scripts/meb_ota_update.py: begin, the chunks one by one,  *)
(* end, and a reboot if asked for; the first error or timeout ends it.  It *)
(* neither resumes nor cancels what an earlier process left.  Others, such *)
(* as scripts/meb_ble_client.py, send single requests.                     *)
(*                                                                         *)
(* Commands of two consoles that overlap are the subject of OtaUpdate, the *)
(* bytes of lines that of ConsoleInput and ConsoleOutput.                  *)
(***************************************************************************)
EXTENDS JsonRpc, Base64

CONSTANTS
  Consoles,        (* UART and BLE                                         *)
  Lossy,           (* those that may lose an answer: BLE                   *)
  Images,          (* what is announced to the device: sequences of bytes  *)
  PartitionSize,   (* bytes that fit in an OTA partition                   *)
  Requests,        (* single requests of others: <<id, method>>            *)
  TriedLines,      (* <<object, gap>>: lines sent to see how they are read *)
  MaxProcesses,    (* bound: updaters and single requests in a behaviour   *)
  MaxRequests      (* bound: requests of an updater, and so its ids        *)

ASSUME RpcClientsConstants ==
  /\ Consoles # {} /\ Lossy \subseteq Consoles
  /\ \A image \in Images : image \in Seq(0 .. 255) /\ image # <<>>
  /\ PartitionSize \in Nat /\ MaxProcesses \in Nat /\ MaxRequests \in Nat \ {0}

VARIABLES
  phase, size, digest, received, target,   (* the session, see OtaSession  *)
  rebooting,     (* a reboot_task is waiting                               *)
  toDevice,      (* requests on their way, and in the command queues       *)
  toHost,        (* answers on their way to a live process                 *)
  client,        (* the updater process on each console                    *)
  processes,     (* clients started so far                                 *)
  tried          (* the object under trial, with its spacing; or None      *)

(* History, read by the properties only.                                   *)
VARIABLES
  opener,        (* the process whose begin opened the session last        *)
  disturbed      (* something kept the device to itself no longer: another *)
                 (* client, a lost answer, a timeout, a failing driver     *)

Device == INSTANCE OtaSession WITH Chunks <- 0 .. 255

session == <<phase, size, digest, received, target>>
hostVars == <<client, processes, tried>>
vars == <<session, rebooting, toDevice, toHost, hostVars, opener, disturbed>>

(* foreign: where it took the answer to a request that was not its own.    *)
(* booted: what the device would boot when the answer to end was given,    *)
(* opener: whose session that was.                                         *)
NoProcess ==
  [at |-> "none", number |-> 0, id |-> 0, image |-> <<>>, written |-> 0,
   foreign |-> {}, booted |-> <<>>, opener |-> 0]

Live(c) == client[c].at \in {"begin", "write", "end", "reboot"}

Init ==
  /\ Device!Init
  /\ rebooting = FALSE
  /\ toDevice = [c \in Consoles |-> <<>>]
  /\ toHost = [c \in Consoles |-> <<>>]
  /\ client = [c \in Consoles |-> NoProcess]
  /\ processes = 0
  /\ tried = None
  /\ opener = 0 /\ disturbed = FALSE

-----------------------------------------------------------------------------
(* The device.                                                             *)

(* meb_serial_printf: an answer goes to every console, and may be lost on  *)
(* the way.  Where no process listens, it is gone.                         *)
Broadcast(answer) ==
  \E lost \in SUBSET {c \in Lossy : Live(c)} :
    /\ toHost' = [c \in Consoles |-> IF Live(c) /\ c \notin lost
                                     THEN Append(toHost[c], answer) ELSE toHost[c]]
    /\ disturbed' = (disturbed \/ lost # {})

Answer(request, outcome, ok, written) ==
  [id |-> outcome.id, ok |-> ok, written |-> written, number |-> request.number,
   boots |-> IF target' = "update" THEN received' ELSE <<>>, opener |-> opener]

(* send_rpc_result, with the field "written" if the result has one: a      *)
(* request without an id gets none.                                        *)
send_rpc_result(request, outcome, written) ==
  IF outcome.has_id
  THEN Broadcast(Answer(request, outcome, TRUE, written))
  ELSE UNCHANGED <<toHost, disturbed>>

(* send_rpc_error: always, with id null if there was none.                 *)
send_rpc_error(request, outcome) == Broadcast(Answer(request, outcome, FALSE, None))

(* A command the device should have been able to carry out fails.          *)
DriverFails(request, outcome) ==
  /\ toHost' = [c \in Consoles |-> IF Live(c)
                                   THEN Append(toHost[c], Answer(request, outcome, FALSE, None))
                                   ELSE toHost[c]]
  /\ disturbed' = TRUE

(* parse_sha256: 64 hexadecimal digits.                                    *)
parse_sha256(token) == IF token[1] = "hex" THEN Some(token[2]) ELSE None

handle_firmware_begin(request, outcome) ==
  LET announced == outcome.args[1][1]
      sha256    == parse_sha256(outcome.args[1][2])
      accepted  == /\ phase = "idle" /\ announced > 0 /\ sha256 # None
                   /\ announced <= PartitionSize
  IN /\ \/ /\ accepted
           /\ size' = announced /\ digest' = sha256[1] /\ Device!Begin
           /\ send_rpc_result(request, outcome, Some(0))
        \/ accepted /\ UNCHANGED session /\ DriverFails(request, outcome)
        \/ ~accepted /\ UNCHANGED session /\ send_rpc_error(request, outcome)
     /\ UNCHANGED rebooting

(* Mutant: the answer does not say how much has been written.              *)
HandleFirmwareWrite_NoOffset(request, outcome) ==
  LET offset   == outcome.args[1][1]
      decoded  == decode_base64(outcome.args[1][2][2], (MAX_BASE64_CHARS \div 4) * 3)
      accepted == /\ phase = "receiving" /\ offset = Len(received) /\ decoded.err = "ok"
                  /\ Len(received) + Len(decoded.bytes) <= size
  IN /\ \/ /\ accepted
           /\ received' = received \o decoded.bytes /\ Device!Receive
           /\ send_rpc_result(request, outcome, None)
        \/ ~accepted /\ UNCHANGED session /\ send_rpc_error(request, outcome)
     /\ UNCHANGED rebooting

handle_firmware_write(request, outcome) ==
  LET offset   == outcome.args[1][1]
      decoded  == decode_base64(outcome.args[1][2][2], (MAX_BASE64_CHARS \div 4) * 3)
      accepted == /\ phase = "receiving" /\ offset = Len(received) /\ decoded.err = "ok"
                  /\ Len(received) + Len(decoded.bytes) <= size
  IN /\ \/ /\ accepted
           /\ received' = received \o decoded.bytes /\ Device!Receive
           /\ send_rpc_result(request, outcome, Some(Len(received')))
        \/ accepted /\ UNCHANGED session /\ DriverFails(request, outcome)
        \/ ~accepted /\ UNCHANGED session /\ send_rpc_error(request, outcome)
     /\ UNCHANGED rebooting

(* Mutant: the number of bytes is all that is compared.                    *)
HandleFirmwareEnd_SizeOnly(request, outcome) ==
  LET complete == phase = "receiving" /\ Len(received) = size
  IN /\ \/ /\ complete
           /\ phase' = "ready" /\ target' = "update"
           /\ UNCHANGED <<size, digest, received>>
           /\ send_rpc_result(request, outcome, Some(Len(received)))
        \/ ~complete /\ UNCHANGED session /\ send_rpc_error(request, outcome)
     /\ UNCHANGED rebooting

handle_firmware_end(request, outcome) ==
  LET complete == phase = "receiving" /\ Len(received) = size
  IN /\ \/ /\ complete /\ received = digest
           /\ Device!Finish
           /\ send_rpc_result(request, outcome, Some(Len(received)))
        \/ complete /\ received = digest /\ Device!Discard /\ DriverFails(request, outcome)
        \/ complete /\ received # digest /\ Device!Discard /\ send_rpc_error(request, outcome)
        \/ ~complete /\ UNCHANGED session /\ send_rpc_error(request, outcome)
     /\ UNCHANGED rebooting

handle_firmware_cancel(request, outcome) ==
  /\ \/ Device!Discard /\ send_rpc_result(request, outcome, Some(0))
     \/ phase = "ready" /\ UNCHANGED session /\ DriverFails(request, outcome)
     \/ phase = "idle" /\ UNCHANGED session /\ send_rpc_error(request, outcome)
  /\ UNCHANGED rebooting

(* firmware.reboot wants a finished update, device.reset does not.         *)
handle_reboot(request, outcome) ==
  LET accepted == outcome.method = "device.reset" \/ phase = "ready"
  IN /\ UNCHANGED session
     /\ \/ accepted /\ rebooting' = TRUE /\ send_rpc_result(request, outcome, None)
        \/ accepted /\ UNCHANGED rebooting /\ DriverFails(request, outcome)
        \/ ~accepted /\ UNCHANGED rebooting /\ send_rpc_error(request, outcome)

(* The handlers whose effect is on other modules' state.  A value outside  *)
(* the allowed range, or NVS, or a log too long may refuse some of them.   *)
handle_other(request, outcome) ==
  /\ UNCHANGED <<session, rebooting>>
  /\ \/ send_rpc_result(request, outcome,
          IF outcome.method = "firmware.status" THEN Some(Len(received)) ELSE None)
     \/ /\ outcome.method \in {"heating.set_auto_off_timer", "telemetry.set_interval",
                               "device.events", "device.diagnostics"}
        /\ send_rpc_error(request, outcome)

(* meb_serial_console_process_command, on the next line of a console.      *)
(* Both consoles drop what comes before a brace, so no line is ignored.    *)
ProcessCommand(c) ==
  /\ toDevice[c] # <<>>
  /\ \E request \in {Head(toDevice[c])}, outcome \in {process_command(Head(toDevice[c]).line)} :
     LET calls(S) == outcome.kind = "call" /\ outcome.method \in S
     IN \/ calls({"firmware.begin"}) /\ handle_firmware_begin(request, outcome)
        \/ calls({"firmware.write"}) /\ handle_firmware_write(request, outcome)
        \/ calls({"firmware.end"}) /\ handle_firmware_end(request, outcome)
        \/ calls({"firmware.cancel"}) /\ handle_firmware_cancel(request, outcome)
        \/ calls({"firmware.reboot", "device.reset"}) /\ handle_reboot(request, outcome)
        \/ /\ calls(Methods \ {"firmware.begin", "firmware.write", "firmware.end",
                               "firmware.cancel", "firmware.reboot", "device.reset"})
           /\ handle_other(request, outcome)
        \/ /\ outcome.kind # "call"
           /\ IF outcome = Ignored THEN UNCHANGED <<toHost, disturbed>>
                                   ELSE send_rpc_error(request, outcome)
           /\ UNCHANGED <<session, rebooting>>
  /\ toDevice' = [toDevice EXCEPT ![c] = Tail(@)]
  /\ opener' = IF phase = "idle" /\ phase' = "receiving" THEN Head(toDevice[c]).number ELSE opener
  /\ UNCHANGED hostVars

(* esp_restart: what the consoles had queued is lost with the session.     *)
Restart ==
  /\ rebooting
  /\ Device!Restart
  /\ rebooting' = FALSE
  /\ toDevice' = [c \in Consoles |-> <<>>]
  /\ disturbed' = TRUE
  /\ UNCHANGED <<toHost, hostVars, opener>>

-----------------------------------------------------------------------------
(* The clients.                                                            *)

Request(id, method, params) ==
  LineOf(<< <<"jsonrpc", Scalar(<<Str("2.0")>>)>>, <<"id", Scalar(Decimal[id])>>,
            <<"method", Scalar(<<Str(method)>>)>> >> \o params, <<>>)

Params(members) == << <<"params", Object(members)>> >>

(* The updater's requests.  sha256 and data are those of the image.        *)
BeginLine(image) ==
  Request(1, "firmware.begin", Params(<< <<"size", Scalar(Decimal[Len(image)])>>,
                                         <<"sha256", Scalar(<<Hex(image)>>)>> >>))
WriteLine(id, image, written) ==
  Request(id, "firmware.write",
          Params(<< <<"offset", Scalar(Decimal[written])>>,
                    <<"data", Scalar(<<Data(b64encode(<<image[written + 1]>>))>>)>> >>))
EndLine(id)    == Request(id, "firmware.end", <<>>)
RebootLine(id) == Request(id, "firmware.reboot", <<>>)

(* What the updater may rely on, and TLC evaluates for the instance it     *)
(* checks: its ids are told apart, the device reads each of its requests   *)
(* as it was meant, and decodes what was encoded.                          *)
ASSUME UpdaterUnderstood ==
  LET ids == 1 .. MaxRequests
      reads(line, id, method, args) ==
        process_command(line) = Outcome("call", [has_id |-> TRUE, id |-> Decimal[id]], method, args)
  IN /\ \A i, j \in ids : Decimal[i] = Decimal[j] => i = j
     /\ \A image \in Images :
          reads(BeginLine(image), 1, "firmware.begin", Some(<<Len(image), Hex(image)>>))
     /\ \A id \in ids, image \in Images : \A written \in 0 .. Len(image) - 1 :
          LET text == b64encode(<<image[written + 1]>>) IN
          /\ reads(WriteLine(id, image, written), id, "firmware.write", Some(<<written, Data(text)>>))
          /\ decode_base64(text, (MAX_BASE64_CHARS \div 4) * 3) = Decoded("ok", <<image[written + 1]>>)
     /\ \A id \in ids : /\ reads(EndLine(id), id, "firmware.end", Some(NULL))
                        /\ reads(RebootLine(id), id, "firmware.reboot", Some(NULL))

(* Images has every image that a line tried announces.                     *)
ASSUME TriedAnnounceImages ==
  \A line \in TriedLines :
    LET outcome == process_command(LineOf(line[1], line[2])) IN
    outcome.kind = "call" /\ outcome.method = "firmware.begin" =>
      parse_sha256(outcome.args[1][2]) \in {None} \cup {Some(image) : image \in Images}

Send(c, number, line) ==
  toDevice' = [toDevice EXCEPT ![c] = Append(@, [line |-> line, number |-> number])]

(* update_firmware begins.  A serial port is emptied when it is opened,    *)
(* and a new BLE connection starts empty; what an earlier process sent is  *)
(* still on its way to the device.  Nobody runs two updaters at once.      *)
StartUpdater(c, image) ==
  /\ \A d \in Consoles : ~Live(d)
  /\ processes < MaxProcesses /\ tried = None
  /\ processes' = processes + 1
  /\ client' = [client EXCEPT ![c] =
       [NoProcess EXCEPT !.at = "begin", !.number = processes + 1, !.id = 1, !.image = image]]
  /\ toHost' = [toHost EXCEPT ![c] = <<>>]
  /\ Send(c, processes + 1, BeginLine(image))
  /\ disturbed' = (disturbed \/ processes > 0)
  /\ UNCHANGED <<session, rebooting, tried, opener>>

(* The loop of update_firmware, at a new value of written.                 *)
NextRequest(c, p, written) ==
  LET id   == p.id + 1
      more == written < Len(p.image)
  IN /\ p.id < MaxRequests
     /\ client' = [client EXCEPT ![c] = [p EXCEPT !.at = IF more THEN "write" ELSE "end",
                                                  !.id = id, !.written = written]]
     /\ Send(c, p.number, IF more THEN WriteLine(id, p.image, written) ELSE EndLine(id))

(* rpc returns the first answer with the id it waits for; check_rpc_...    *)
TakeAnswer(c) ==
  /\ Live(c) /\ toHost[c] # <<>>
  /\ LET m    == Head(toHost[c])
         mine == m.number = client[c].number
         p    == [client[c] EXCEPT !.foreign = IF mine THEN @ ELSE @ \cup {client[c].at}]
         stop(at) == client' = [client EXCEPT ![c] = [p EXCEPT !.at = at]] /\ UNCHANGED toDevice
     IN \/ /\ m.id # Decimal[client[c].id]
           /\ UNCHANGED <<client, toDevice>>
        \/ /\ m.id = Decimal[client[c].id]
           /\ \/ (~m.ok \/ (p.at = "write" /\ m.written = None)) /\ stop("failed")
              \/ /\ m.ok /\ p.at = "begin"
                 /\ NextRequest(c, p, IF m.written = None THEN 0 ELSE m.written[1])
              \/ m.ok /\ p.at = "write" /\ m.written # None /\ NextRequest(c, p, m.written[1])
              \/ /\ m.ok /\ p.at = "end"
                 /\ \/ /\ client' = [client EXCEPT ![c] =
                            [p EXCEPT !.at = "finished", !.booted = m.boots, !.opener = m.opener]]
                       /\ UNCHANGED toDevice
                    \/ /\ p.id < MaxRequests
                       /\ client' = [client EXCEPT ![c] =
                            [p EXCEPT !.at = "reboot", !.id = @ + 1, !.booted = m.boots,
                                      !.opener = m.opener]]
                       /\ Send(c, p.number, RebootLine(p.id + 1))
              \/ m.ok /\ p.at = "reboot" /\ stop("finished")
  /\ toHost' = [toHost EXCEPT ![c] = Tail(@)]
  /\ UNCHANGED <<session, rebooting, processes, tried, opener, disturbed>>

(* No answer in time: the updater gives up.  The answer may still come.    *)
Timeout(c) ==
  /\ Live(c)
  /\ client' = [client EXCEPT ![c].at = "failed"]
  /\ disturbed' = TRUE
  /\ UNCHANGED <<session, rebooting, toDevice, toHost, processes, tried, opener>>

(* Another client's request, on a console no updater occupies.             *)
SendRequest(c, r) ==
  /\ ~Live(c) /\ processes < MaxProcesses /\ tried = None
  /\ processes' = processes + 1
  /\ Send(c, processes + 1, Request(r[1], r[2], <<>>))
  /\ disturbed' = TRUE
  /\ UNCHANGED <<session, rebooting, toHost, client, tried, opener>>

(* A line of its own, to see how it is read.                               *)
TryLine(c) ==
  /\ processes = 0 /\ tried = None
  /\ \E line \in TriedLines :
       /\ tried' = Some(line)
       /\ Send(c, 0, LineOf(line[1], line[2]))
  /\ UNCHANGED <<session, rebooting, toHost, client, processes, opener, disturbed>>

-----------------------------------------------------------------------------
ClientStep(c) ==
  \/ \E image \in Images : StartUpdater(c, image)
  \/ TakeAnswer(c) \/ Timeout(c)
  \/ \E r \in Requests : SendRequest(c, r)

Next ==
  \/ \E c \in Consoles : ProcessCommand(c) \/ ClientStep(c)
  \/ TryLine(CHOOSE c \in Consoles : TRUE)   (* both read alike *)
  \/ Restart

Spec == Init /\ [][Next]_vars

-----------------------------------------------------------------------------
(* Scanning for keys reads a request as the JSON it is, whatever the order *)
(* of its members and the spaces between them, and though string values    *)
(* may look like keys or have escaped quotes, as long as no key shadows    *)
(* another, for find_key_value does not know where objects begin and end,  *)
(* and the strings it reads have no escapes such as \n and \u002e, which   *)
(* parse_string_value takes for n and u002e.  Keys are written without     *)
(* escapes.                                                                *)
ScanAgrees == tried # None => ReadRight(tried[1][1], tried[1][2])

(* decode_base64 accepts exactly the base64 texts, and yields the bytes    *)
(* they stand for; its buffer is large enough for any text that is let in. *)
DecodeAgrees ==
  tried # None =>
    LET params == Value(tried[1][1], "params")
        data   == IF params[1] = "object" THEN Value(params[2], "data") ELSE Missing
        text   == Meaning(data[2][1])[2]
    IN data # Missing /\ Len(text) <= MAX_BASE64_CHARS =>
         DecodesRight(text, (MAX_BASE64_CHARS \div 4) * 3)

(* An updater that reports success leaves the device with a whole image    *)
(* that an updater announced, whatever late answers and answers to others  *)
(* it took for its own, and whatever earlier updaters left behind: the     *)
(* digest catches the rest.  It is its own image if the session that was   *)
(* finished is the one it opened.  An updater cannot tell: the answer to   *)
(* begin that it took may not be meant for it, and an earlier updater's    *)
(* begin, still under way, may replace a session that was cancelled.  That *)
(* the answer to end was not meant for it is excluded.                     *)
FinalizedMeansInstalled ==
  \A c \in Consoles :
    client[c].at \in {"reboot", "finished"} /\ "end" \notin client[c].foreign =>
      /\ client[c].booted \in Images
      /\ client[c].opener = client[c].number => client[c].booted = client[c].image

(* An updater that nothing disturbs goes on to the end, if its image fits: *)
(* each of its requests is read as it was meant, accepted, and answered in *)
(* a way that lets it continue, and it never waits for an answer that will *)
(* not come.                                                               *)
UndisturbedUpdateProceeds ==
  ~disturbed =>
    \A c \in Consoles : Len(client[c].image) <= PartitionSize =>
      /\ client[c].at # "failed"
      /\ Live(c) => Len(toDevice[c]) + Len(toHost[c]) = 1
=============================================================================
