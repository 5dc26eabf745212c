-------------------------- MODULE RpcClientsProofs --------------------------
(***************************************************************************)
(* What an updater may conclude from the answers it takes, for any number  *)
(* of consoles, clients and images.  How lines are read enters only        *)
(* through UpdaterUnderstood.                                              *)
(***************************************************************************)
EXTENDS RpcClients, TLAPS

RequestIds == 1 .. MaxRequests

(* Everything that is sent, and what it can be answered.                   *)
Lines ==
  {BeginLine(image) : image \in Images}
  \cup (UNION {{WriteLine(id, image, written) : id \in RequestIds, written \in 0 .. Len(image) - 1} :
                image \in Images})
  \cup {EndLine(id) : id \in RequestIds} \cup {RebootLine(id) : id \in RequestIds}
  \cup {Request(r[1], r[2], <<>>) : r \in Requests}
  \cup {LineOf(line[1], line[2]) : line \in TriedLines}
Sent == [line : Lines, number : Nat]

Offsets == {offset \in Seq(Nat) : Len(offset) <= 1}   (* None, or Some(n) *)
Answers ==
  [id : {process_command(line).id : line \in Lines}, ok : BOOLEAN, written : Offsets,
   number : Nat, boots : Images \cup {<<>>}, opener : Nat]

Places == {"begin", "write", "end", "reboot"}
Process ==
  [at : Places \cup {"none", "failed", "finished"}, number : Nat, id : 0 .. MaxRequests,
   image : Images \cup {<<>>}, written : Nat, foreign : SUBSET Places,
   booted : Images \cup {<<>>}, opener : Nat]

SessionTypes ==
  /\ phase \in {"idle", "receiving", "ready"} /\ target \in {"running", "update"}
  /\ size \in Nat /\ received \in Seq(0 .. 255) /\ digest \in Images \cup {<<>>}
  /\ phase = "receiving" \/ target = "update" => digest \in Images
  /\ target = "update" => phase = "ready" /\ received = digest

ChannelTypes ==
  /\ toDevice \in [Consoles -> Seq(Sent)]
  /\ toHost \in [Consoles -> Seq(Answers)]
  /\ client \in [Consoles -> Process]
  /\ processes \in Nat /\ opener \in Nat

TypeInv == SessionTypes /\ ChannelTypes

-----------------------------------------------------------------------------
(* A step of the session: none, a begin with the digest the request names, *)
(* or another one of OtaSession.                                           *)
SessionStep(outcome) ==
  \/ UNCHANGED session
  \/ /\ outcome.kind = "call" /\ outcome.method = "firmware.begin"
     /\ Device!Begin /\ digest' = parse_sha256(outcome.args[1][2])[1]
  \/ Device!Receive \/ Device!Finish \/ Device!Discard

(* What live processes are told; that an end was carried out, only of one  *)
(* that was.  What was disturbed stays so.                                 *)
Tells(request, outcome, ok, written) ==
  /\ ok /\ outcome.kind = "call" /\ outcome.method = "firmware.end" => Device!Finish
  /\ toHost' = [d \in Consoles |-> toHost'[d]]
  /\ \A d \in Consoles :
       \/ toHost'[d] = toHost[d]
       \/ Live(d) /\ toHost'[d] = Append(toHost[d], Answer(request, outcome, ok, written))
  /\ disturbed => disturbed'

Told(request, outcome) ==
  \E ok \in BOOLEAN, written \in Offsets : Tells(request, outcome, ok, written)

(* The sending functions tell what they are given.                         *)
LEMMA Telling ==
  ASSUME ChannelTypes, NEW request, NEW outcome, NEW written \in Offsets
  PROVE  /\ /\ send_rpc_result(request, outcome, written)
            /\ outcome.kind = "call" /\ outcome.method = "firmware.end" => Device!Finish
            => Told(request, outcome)
         /\ send_rpc_error(request, outcome) => Told(request, outcome)
         /\ DriverFails(request, outcome) => Told(request, outcome)
         /\ UNCHANGED <<toHost, disturbed>> => Told(request, outcome)
<1> DEFINE a(ok, w) == Answer(request, outcome, ok, w)
<1>0. None \in Offsets
  BY DEF Offsets, None
<1>1. ASSUME NEW ok \in BOOLEAN, NEW w \in Offsets, Broadcast(a(ok, w)),
             ok /\ outcome.kind = "call" /\ outcome.method = "firmware.end" => Device!Finish
      PROVE  Told(request, outcome)
  <2>1. /\ toHost' = [d \in Consoles |-> toHost'[d]]
        /\ \A d \in Consoles : \/ toHost'[d] = toHost[d]
                               \/ Live(d) /\ toHost'[d] = Append(toHost[d], a(ok, w))
    BY <1>1 DEF Broadcast
  <2>2. disturbed => disturbed'
    BY <1>1 DEF Broadcast
  <2>3. Tells(request, outcome, ok, w)
    BY <1>1, <2>1, <2>2 DEF Tells, a
  <2> QED
    BY <2>3 DEF Told
<1>2. ASSUME UNCHANGED <<toHost, disturbed>> PROVE Told(request, outcome)
  <2>1. toHost' = [d \in Consoles |-> toHost'[d]] /\ \A d \in Consoles : toHost'[d] = toHost[d]
    BY <1>2 DEF ChannelTypes
  <2>2. Tells(request, outcome, FALSE, None)
    BY <1>2, <2>1 DEF Tells
  <2> QED
    BY <1>0, <2>2 DEF Told
<1>3. ASSUME DriverFails(request, outcome) PROVE Told(request, outcome)
  <2>1. /\ toHost' = [d \in Consoles |-> toHost'[d]]
        /\ \A d \in Consoles : \/ toHost'[d] = toHost[d]
                               \/ Live(d) /\ toHost'[d] = Append(toHost[d], a(FALSE, None))
    BY <1>3 DEF DriverFails
  <2>2. Tells(request, outcome, FALSE, None)
    BY <1>3, <2>1 DEF Tells, a, DriverFails
  <2> QED
    BY <1>0, <2>2 DEF Told
<1>4. ASSUME send_rpc_error(request, outcome) PROVE Told(request, outcome)
  BY <1>0, <1>1, <1>4 DEF send_rpc_error
<1>5. ASSUME send_rpc_result(request, outcome, written),
             outcome.kind = "call" /\ outcome.method = "firmware.end" => Device!Finish
      PROVE  Told(request, outcome)
  <2>1. CASE outcome.has_id
    BY <1>1, <1>5, <2>1 DEF send_rpc_result
  <2>2. CASE ~outcome.has_id
    BY <1>2, <1>5, <2>2 DEF send_rpc_result
  <2> QED
    BY <2>1, <2>2
<1> QED
  BY <1>2, <1>3, <1>4, <1>5

(* What was received is counted by a number.                               *)
LEMMA OffsetTypes ==
  ASSUME SessionTypes
  PROVE  /\ None \in Offsets /\ Some(0) \in Offsets /\ Some(Len(received)) \in Offsets
         /\ SessionTypes' => Some(Len(received')) \in Offsets
<1>1. Len(received) \in Nat /\ (SessionTypes' => Len(received') \in Nat)
  BY DEF SessionTypes
<1> QED
  BY <1>1 DEF Offsets, None, Some

(* Steps of the session keep its types.                                    *)
LEMMA SessionStepTypes ==
  ASSUME SessionTypes, NEW outcome, SessionStep(outcome)
  PROVE  SessionTypes'
<1> USE DEF SessionTypes, session
<1>1. CASE UNCHANGED session
  BY <1>1
<1>2. CASE Device!Begin
  BY <1>2 DEF Device!Begin
<1>3. CASE Device!Receive
  BY <1>3 DEF Device!Receive
<1>4. CASE Device!Finish
  BY <1>4 DEF Device!Finish
<1>5. CASE Device!Discard
  BY <1>5 DEF Device!Discard, Device!Cleared
<1> QED
  BY <1>1, <1>2, <1>3, <1>4, <1>5 DEF SessionStep

(* Every handler is a step of the session, and tells of it.                *)
Handled(request, outcome) == SessionStep(outcome) /\ Told(request, outcome)

(* firmware.begin.                                                         *)
LEMMA HandleBegin ==
  ASSUME TypeInv, NEW request, NEW outcome, outcome.kind = "call",
         outcome.method = "firmware.begin", handle_firmware_begin(request, outcome)
  PROVE  Handled(request, outcome)
<1> USE DEF TypeInv, Handled
<1>0. Some(0) \in Offsets /\ None \in Offsets
  BY OffsetTypes
<1>1. SessionStep(outcome)
  BY DEF handle_firmware_begin, SessionStep
<1>2. \/ send_rpc_result(request, outcome, Some(0)) \/ DriverFails(request, outcome)
      \/ send_rpc_error(request, outcome)
  BY DEF handle_firmware_begin
<1>3. Told(request, outcome)
  BY <1>0, <1>2, Telling
<1> QED
  BY <1>1, <1>3

(* firmware.write.                                                         *)
LEMMA HandleWrite ==
  ASSUME TypeInv, NEW request, NEW outcome, outcome.kind = "call",
         outcome.method = "firmware.write", handle_firmware_write(request, outcome)
  PROVE  Handled(request, outcome)
<1> USE DEF TypeInv, Handled
<1>1. SessionStep(outcome)
  BY DEF handle_firmware_write, SessionStep
<1>2. Some(Len(received')) \in Offsets /\ None \in Offsets
  BY <1>1, OffsetTypes, SessionStepTypes
<1>3. \/ send_rpc_result(request, outcome, Some(Len(received'))) \/ DriverFails(request, outcome)
      \/ send_rpc_error(request, outcome)
  BY DEF handle_firmware_write
<1>4. Told(request, outcome)
  <2>1. PICK written \in Offsets : written = Some(Len(received'))
    BY <1>2
  <2> QED
    BY <1>3, <2>1, Telling
<1> QED
  BY <1>1, <1>4

(* firmware.end, which says so only of a session it finished.              *)
LEMMA HandleEnd ==
  ASSUME TypeInv, NEW request, NEW outcome, outcome.kind = "call",
         outcome.method = "firmware.end", handle_firmware_end(request, outcome)
  PROVE  Handled(request, outcome)
<1> USE DEF TypeInv, Handled
<1>1. SessionStep(outcome)
  BY DEF handle_firmware_end, SessionStep
<1>2. PICK written \in Offsets : written = Some(Len(received))
  BY OffsetTypes
<1>3. \/ send_rpc_result(request, outcome, written) /\ Device!Finish
      \/ DriverFails(request, outcome) \/ send_rpc_error(request, outcome)
  BY <1>2 DEF handle_firmware_end
<1>4. Told(request, outcome)
  BY <1>3, Telling
<1> QED
  BY <1>1, <1>4

(* firmware.cancel.                                                        *)
LEMMA HandleCancel ==
  ASSUME TypeInv, NEW request, NEW outcome, outcome.kind = "call",
         outcome.method = "firmware.cancel", handle_firmware_cancel(request, outcome)
  PROVE  Handled(request, outcome)
<1> USE DEF TypeInv, Handled
<1>0. Some(0) \in Offsets /\ None \in Offsets
  BY OffsetTypes
<1>1. SessionStep(outcome)
  BY DEF handle_firmware_cancel, SessionStep
<1>2. \/ send_rpc_result(request, outcome, Some(0)) \/ DriverFails(request, outcome)
      \/ send_rpc_error(request, outcome)
  BY DEF handle_firmware_cancel
<1>3. Told(request, outcome)
  BY <1>0, <1>2, Telling
<1> QED
  BY <1>1, <1>3

(* firmware.reboot and device.reset.                                       *)
LEMMA HandleReboot ==
  ASSUME TypeInv, NEW request, NEW outcome, outcome.kind = "call",
         outcome.method \in {"firmware.reboot", "device.reset"}, handle_reboot(request, outcome)
  PROVE  Handled(request, outcome)
<1> USE DEF TypeInv, Handled
<1>0. None \in Offsets
  BY OffsetTypes
<1>1. SessionStep(outcome)
  BY DEF handle_reboot, SessionStep
<1>2. \/ send_rpc_result(request, outcome, None) \/ DriverFails(request, outcome)
      \/ send_rpc_error(request, outcome)
  BY DEF handle_reboot
<1>3. Told(request, outcome)
  BY <1>0, <1>2, Telling
<1> QED
  BY <1>1, <1>3

(* The commands that leave the session alone.                              *)
LEMMA HandleOther ==
  ASSUME TypeInv, NEW request, NEW outcome, outcome.kind = "call",
         outcome.method # "firmware.end", handle_other(request, outcome)
  PROVE  Handled(request, outcome)
<1> USE DEF TypeInv, Handled
<1>1. SessionStep(outcome)
  BY DEF handle_other, SessionStep
<1>2. PICK written \in Offsets :
        written = IF outcome.method = "firmware.status" THEN Some(Len(received)) ELSE None
  BY OffsetTypes
<1>3. send_rpc_result(request, outcome, written) \/ send_rpc_error(request, outcome)
  BY <1>2 DEF handle_other
<1>4. Told(request, outcome)
  BY <1>3, Telling
<1> QED
  BY <1>1, <1>4

(* So is every command.                                                    *)
LEMMA Processed ==
  ASSUME TypeInv, NEW c \in Consoles, ProcessCommand(c)
  PROVE  \E request \in {Head(toDevice[c])}, outcome \in {process_command(Head(toDevice[c]).line)} :
           Handled(request, outcome)
<1>1. PICK request \in {Head(toDevice[c])}, outcome \in {process_command(Head(toDevice[c]).line)} :
        LET calls(S) == outcome.kind = "call" /\ outcome.method \in S
        IN \/ calls({"firmware.begin"}) /\ handle_firmware_begin(request, outcome)
           \/ calls({"firmware.write"}) /\ handle_firmware_write(request, outcome)
           \/ calls({"firmware.end"}) /\ handle_firmware_end(request, outcome)
           \/ calls({"firmware.cancel"}) /\ handle_firmware_cancel(request, outcome)
           \/ calls({"firmware.reboot", "device.reset"}) /\ handle_reboot(request, outcome)
           \/ /\ calls(Methods \ {"firmware.begin", "firmware.write", "firmware.end",
                                  "firmware.cancel", "firmware.reboot", "device.reset"})
              /\ handle_other(request, outcome)
           \/ /\ outcome.kind # "call"
              /\ IF outcome = Ignored THEN UNCHANGED <<toHost, disturbed>>
                                      ELSE send_rpc_error(request, outcome)
              /\ UNCHANGED <<session, rebooting>>
  BY DEF ProcessCommand
<1>2. None \in Offsets
  BY OffsetTypes DEF TypeInv
<1>3. CASE outcome.kind # "call"
  <2>1. UNCHANGED session /\ (UNCHANGED <<toHost, disturbed>> \/ send_rpc_error(request, outcome))
    BY <1>1, <1>3
  <2>2. SessionStep(outcome)
    BY <2>1 DEF SessionStep
  <2>3. Told(request, outcome)
    BY <1>2, <2>1, Telling DEF TypeInv
  <2> QED
    BY <2>2, <2>3 DEF Handled
<1>4. CASE outcome.kind = "call"
  BY <1>1, <1>4, HandleBegin, HandleWrite, HandleEnd, HandleCancel, HandleReboot, HandleOther
<1> QED
  BY <1>3, <1>4

-----------------------------------------------------------------------------
(* The requests and answers of a process p.  Its last request is the one   *)
(* it waits for, and no answer to its end says that it was carried out but *)
(* to one that finished a session.                                         *)
OwnLine(p, line) ==
  \/ line = BeginLine(p.image)
  \/ \E id \in 1 .. p.id, written \in 0 .. Len(p.image) - 1 :
       line = WriteLine(id, p.image, written) /\ (id = p.id => p.at = "write")
  \/ \E id \in 1 .. p.id : line = EndLine(id)
  \/ \E id \in 1 .. p.id : line = RebootLine(id) /\ (id = p.id => p.at = "reboot")

Installed(p, boots, whose) == boots \in Images /\ (whose = p.number => boots = p.image)

OwnAnswer(p, m) ==
  \E id \in 1 .. p.id :
    /\ m.id = Decimal[id]
    /\ id = p.id /\ p.at = "end" /\ m.ok => Installed(p, m.boots, m.opener)

(* A live process, and what is under way in its name.                      *)
LiveInv(p) ==
  /\ p.number > 0 /\ p.id \in RequestIds /\ p.image \in Images
  /\ p.at # "begin" => p.id > 1
  /\ \A d \in Consoles : \A i \in DOMAIN toDevice[d] :
       toDevice[d][i].number = p.number => OwnLine(p, toDevice[d][i].line)
  /\ \A d \in Consoles : \A i \in DOMAIN toHost[d] :
       toHost[d][i].number = p.number => OwnAnswer(p, toHost[d][i])
  /\ opener = p.number /\ phase # "idle" => digest = p.image

NumberInv ==
  /\ opener <= processes
  /\ \A c \in Consoles :
       /\ client[c].number <= processes
       /\ \A i \in DOMAIN toDevice[c] : toDevice[c][i].number <= processes
       /\ \A i \in DOMAIN toHost[c] : toHost[c][i].number <= processes

UpdaterInv ==
  /\ TypeInv
  /\ NumberInv
  /\ \A c, d \in Consoles : Live(c) /\ Live(d) => c = d
  /\ \A c \in Consoles : Live(c) => LiveInv(client[c])
  /\ FinalizedMeansInstalled

(* UpdaterUnderstood, request by request.                                  *)
ReadAs(line, id, method) ==
  LET outcome == process_command(line) IN
  /\ outcome.kind = "call" /\ outcome.method = method
  /\ outcome.has_id = TRUE /\ outcome.id = Decimal[id]

(* The ids of an updater are told apart.                                   *)
LEMMA DistinctIds ==
  ASSUME NEW i \in RequestIds, NEW j \in RequestIds, Decimal[i] = Decimal[j] PROVE i = j
BY UpdaterUnderstood DEF RequestIds

(* How its begin is read.                                                  *)
LEMMA ReadsBegin ==
  ASSUME NEW image \in Images
  PROVE  /\ ReadAs(BeginLine(image), 1, "firmware.begin")
         /\ process_command(BeginLine(image)).args = Some(<<Len(image), Hex(image)>>)
BY UpdaterUnderstood DEF ReadAs, Outcome

(* How its writes are read, and what they decode to.                       *)
LEMMA ReadsWrite ==
  ASSUME NEW id \in RequestIds, NEW image \in Images, NEW written \in 0 .. Len(image) - 1
  PROVE  LET text == b64encode(<<image[written + 1]>>) IN
         /\ ReadAs(WriteLine(id, image, written), id, "firmware.write")
         /\ process_command(WriteLine(id, image, written)).args = Some(<<written, Data(text)>>)
         /\ decode_base64(text, (MAX_BASE64_CHARS \div 4) * 3) = Decoded("ok", <<image[written + 1]>>)
BY UpdaterUnderstood DEF ReadAs, Outcome, RequestIds

(* How its end and its reboot are read.                                    *)
LEMMA ReadsEnd ==
  ASSUME NEW id \in RequestIds
  PROVE  /\ ReadAs(EndLine(id), id, "firmware.end")
         /\ ReadAs(RebootLine(id), id, "firmware.reboot")
BY UpdaterUnderstood DEF ReadAs, Outcome, RequestIds

(* How the device reads what a live process sent.                          *)
LEMMA OwnRead ==
  ASSUME NEW p, p.id \in RequestIds, p.image \in Images, p.at # "begin" => p.id > 1,
         NEW line, OwnLine(p, line)
  PROVE  LET outcome == process_command(line) IN
         /\ \E id \in 1 .. p.id :
              /\ outcome.id = Decimal[id]
              /\ id = p.id /\ p.at = "end" =>
                   outcome.kind = "call" /\ outcome.method = "firmware.end"
         /\ outcome.method = "firmware.begin" =>
              outcome.args = Some(<<Len(p.image), Hex(p.image)>>)
<1> DEFINE outcome == process_command(line)
<1>0. 1 .. p.id \subseteq RequestIds /\ 1 \in 1 .. p.id
  BY RpcClientsConstants DEF RequestIds
<1>1. CASE line = BeginLine(p.image)
  <2>1. /\ outcome.id = Decimal[1]
        /\ outcome.args = Some(<<Len(p.image), Hex(p.image)>>)
    BY <1>1, ReadsBegin DEF ReadAs
  <2>2. 1 = p.id => p.at # "end"
    OBVIOUS
  <2> HIDE DEF outcome
  <2> QED
    BY <1>0, <2>1, <2>2 DEF outcome
<1>2. CASE \E id \in 1 .. p.id, written \in 0 .. Len(p.image) - 1 :
             line = WriteLine(id, p.image, written) /\ (id = p.id => p.at = "write")
  <2>1. PICK id \in 1 .. p.id, written \in 0 .. Len(p.image) - 1 :
          line = WriteLine(id, p.image, written) /\ (id = p.id => p.at = "write")
    BY <1>2
  <2>2. id \in RequestIds
    BY <1>0
  <2>3. outcome.id = Decimal[id] /\ outcome.method = "firmware.write"
    BY <2>1, <2>2, ReadsWrite, ZenonT(60) DEF ReadAs
  <2> QED
    BY <2>1, <2>3
<1>3. CASE \E id \in 1 .. p.id : line = EndLine(id)
  <2>1. PICK id \in 1 .. p.id : line = EndLine(id)
    BY <1>3
  <2>2. id \in RequestIds
    BY <1>0
  <2>3. outcome.id = Decimal[id] /\ outcome.kind = "call" /\ outcome.method = "firmware.end"
    BY <2>1, <2>2, ReadsEnd DEF ReadAs
  <2> QED
    BY <2>1, <2>3
<1>4. CASE \E id \in 1 .. p.id : line = RebootLine(id) /\ (id = p.id => p.at = "reboot")
  BY <1>0, <1>4, ReadsEnd, ZenonT(60) DEF ReadAs
<1> QED
  BY <1>1, <1>2, <1>3, <1>4 DEF OwnLine

-----------------------------------------------------------------------------
(* The state after power-up.                                               *)
LEMMA InitUpdater == Init => UpdaterInv
<1> SUFFICES ASSUME Init PROVE UpdaterInv
  OBVIOUS
<1>1. TypeInv
  BY RpcClientsConstants
  DEF Init, Device!Init, TypeInv, SessionTypes, ChannelTypes, NoProcess, Process
<1>2. \A c \in Consoles : client[c] = NoProcess /\ toDevice[c] = <<>> /\ toHost[c] = <<>>
  BY DEF Init
<1>3. \A c \in Consoles : ~Live(c)
  BY <1>2 DEF Live, NoProcess
<1>4. NumberInv
  BY <1>2 DEF NumberInv, Init, NoProcess
<1>5. FinalizedMeansInstalled
  BY <1>2 DEF FinalizedMeansInstalled, NoProcess
<1> QED
  BY <1>1, <1>3, <1>4, <1>5 DEF UpdaterInv

(* An answer is one of Answers.                                            *)
LEMMA AnswerTypes ==
  ASSUME SessionTypes', opener \in Nat, NEW request \in Sent, NEW ok \in BOOLEAN,
         NEW written \in Offsets
  PROVE  Answer(request, process_command(request.line), ok, written) \in Answers
<1>1. (IF target' = "update" THEN received' ELSE <<>>) \in Images \cup {<<>>}
  BY DEF SessionTypes
<1> QED
  BY <1>1 DEF Answer, Answers, Sent

(* A queue without its head has no other elements.                         *)
LEMMA TailElements ==
  ASSUME NEW S, NEW q \in Seq(S), q # <<>>
  PROVE  /\ Tail(q) \in Seq(S) /\ Head(q) \in S /\ Head(q) = q[1] /\ 1 \in DOMAIN q
         /\ \A i \in DOMAIN Tail(q) : i + 1 \in DOMAIN q /\ Tail(q)[i] = q[i + 1]
OBVIOUS

(* A queue with one more has no other elements.                            *)
LEMMA AppendElements ==
  ASSUME NEW S, NEW q \in Seq(S), NEW x \in S
  PROVE  /\ Append(q, x) \in Seq(S)
         /\ \A i \in DOMAIN Append(q, x) :
              \/ i \in DOMAIN q /\ Append(q, x)[i] = q[i]
              \/ Append(q, x)[i] = x
OBVIOUS

(* A command keeps the types, and takes one request off a queue.           *)
LEMMA ProcessTypes ==
  ASSUME TypeInv, NEW c \in Consoles, ProcessCommand(c)
  PROVE  /\ TypeInv'
         /\ \A d \in Consoles : \A i \in DOMAIN toDevice'[d] :
              \E j \in DOMAIN toDevice[d] : toDevice'[d][i] = toDevice[d][j]
<1>1. PICK request \in {Head(toDevice[c])}, outcome \in {process_command(Head(toDevice[c]).line)} :
        Handled(request, outcome)
  BY Processed
<1>2. SessionTypes'
  BY <1>1, SessionStepTypes DEF Handled, TypeInv
<1>3. toDevice[c] \in Seq(Sent) /\ toDevice[c] # <<>> /\ toDevice' = [toDevice EXCEPT ![c] = Tail(@)]
  BY DEF ProcessCommand, TypeInv, ChannelTypes
<1>4. request \in Sent /\ outcome = process_command(request.line) /\ request.number \in Nat
  <2>1. Head(toDevice[c]) \in Sent
    BY <1>3, TailElements
  <2> QED
    BY <1>1, <2>1 DEF Sent
<1>5. toDevice' \in [Consoles -> Seq(Sent)]
  BY <1>3, TailElements DEF TypeInv, ChannelTypes
<1>6. toHost' \in [Consoles -> Seq(Answers)]
  <2>1. PICK ok \in BOOLEAN, written \in Offsets : Tells(request, outcome, ok, written)
    BY <1>1 DEF Handled, Told
  <2>2. Answer(request, outcome, ok, written) \in Answers
    BY <1>2, <1>4, AnswerTypes DEF TypeInv, ChannelTypes
  <2>3. ASSUME NEW d \in Consoles PROVE toHost'[d] \in Seq(Answers)
    <3>1. toHost[d] \in Seq(Answers)
      BY DEF TypeInv, ChannelTypes
    <3>2. PICK a \in Answers : toHost'[d] = toHost[d] \/ toHost'[d] = Append(toHost[d], a)
      BY <2>1, <2>2, Zenon DEF Tells
    <3> QED
      BY <3>1, <3>2, AppendElements
  <2>4. toHost' = [d \in Consoles |-> toHost'[d]]
    BY <2>1 DEF Tells
  <2> QED
    BY <2>3, <2>4
<1>7. opener' \in Nat
  BY <1>1, <1>4 DEF ProcessCommand, TypeInv, ChannelTypes
<1>8. UNCHANGED <<client, processes>>
  BY DEF ProcessCommand, hostVars
<1>9. TypeInv'
  BY <1>2, <1>5, <1>6, <1>7, <1>8 DEF TypeInv, ChannelTypes
<1>10. ASSUME NEW d \in Consoles, NEW i \in DOMAIN toDevice'[d]
       PROVE  \E j \in DOMAIN toDevice[d] : toDevice'[d][i] = toDevice[d][j]
  <2>1. CASE d = c
    BY <1>3, <2>1, <1>10, TailElements DEF TypeInv, ChannelTypes
  <2>2. CASE d # c
    BY <1>3, <2>2 DEF TypeInv, ChannelTypes
  <2> QED
    BY <2>1, <2>2
<1> QED
  BY <1>9, <1>10

(* A command keeps UpdaterInv.                                             *)
LEMMA ProcessUpdater ==
  ASSUME UpdaterInv, NEW c \in Consoles, ProcessCommand(c)
  PROVE  UpdaterInv'
<1>0. TypeInv /\ TypeInv' /\ client' = client /\ processes' = processes
  BY ProcessTypes DEF UpdaterInv, ProcessCommand, hostVars
<1>1. PICK request \in {Head(toDevice[c])}, outcome \in {process_command(Head(toDevice[c]).line)} :
        Handled(request, outcome)
  BY <1>0, Processed
<1>2. PICK ok \in BOOLEAN, written \in Offsets : Tells(request, outcome, ok, written)
  BY <1>1 DEF Handled, Told
<1>3. /\ request = toDevice[c][1] /\ 1 \in DOMAIN toDevice[c]
      /\ request \in Sent /\ outcome = process_command(request.line)
  BY <1>0, <1>1, TailElements DEF ProcessCommand, TypeInv, ChannelTypes
<1>4. opener' = IF phase = "idle" /\ phase' = "receiving" THEN request.number ELSE opener
  BY <1>1 DEF ProcessCommand
<1> DEFINE a == Answer(request, outcome, ok, written)
<1>5. ASSUME NEW d \in Consoles, NEW i \in DOMAIN toHost'[d]
      PROVE  toHost'[d][i] = a \/ (i \in DOMAIN toHost[d] /\ toHost'[d][i] = toHost[d][i])
  <2>1. toHost[d] \in Seq(Answers)
    BY <1>0 DEF TypeInv, ChannelTypes
  <2>2. a \in Answers
    BY <1>0, <1>3, AnswerTypes DEF TypeInv, ChannelTypes
  <2> HIDE DEF a
  <2>3. toHost'[d] = toHost[d] \/ toHost'[d] = Append(toHost[d], a)
    BY <1>2 DEF Tells, a
  <2> QED
    BY <1>5, <2>1, <2>2, <2>3, AppendElements
<1>6. NumberInv'
  <2>1. request.number <= processes /\ a.number = request.number
    BY <1>3 DEF UpdaterInv, NumberInv, Answer
  <2>2. \A d \in Consoles : \A i \in DOMAIN toHost'[d] : toHost'[d][i].number <= processes
    BY <1>5, <2>1 DEF UpdaterInv, NumberInv
  <2>3. \A d \in Consoles : \A i \in DOMAIN toDevice'[d] : toDevice'[d][i].number <= processes
    BY <1>0, ProcessTypes DEF UpdaterInv, NumberInv
  <2> QED
    BY <1>0, <1>4, <2>1, <2>2, <2>3 DEF UpdaterInv, NumberInv
<1>7. ASSUME NEW e \in Consoles, Live(e) PROVE LiveInv(client[e])'
  <2> DEFINE p == client[e]
  <2>0. LiveInv(p) /\ p' = p
    BY <1>0, <1>7 DEF UpdaterInv
  <2>1. \A d \in Consoles : \A i \in DOMAIN toDevice'[d] :
          toDevice'[d][i].number = p.number => OwnLine(p, toDevice'[d][i].line)
    BY <1>0, <2>0, ProcessTypes DEF LiveInv
  <2>2. request.number = p.number => OwnLine(p, request.line)
    BY <1>3, <2>0 DEF LiveInv
  <2>3. ASSUME request.number = p.number
        PROVE  /\ \E id \in 1 .. p.id :
                    /\ outcome.id = Decimal[id]
                    /\ id = p.id /\ p.at = "end" =>
                         outcome.kind = "call" /\ outcome.method = "firmware.end"
               /\ outcome.method = "firmware.begin" =>
                    outcome.args = Some(<<Len(p.image), Hex(p.image)>>)
    <3> HIDE DEF p
    <3> QED
      BY <1>3, <2>0, <2>2, <2>3, OwnRead DEF LiveInv
  <2>4. a.number = p.number => OwnAnswer(p, a)
    <3> SUFFICES ASSUME a.number = p.number PROVE OwnAnswer(p, a)
      OBVIOUS
    <3>1. /\ request.number = p.number /\ a.id = outcome.id /\ a.ok = ok /\ a.opener = opener
          /\ a.boots = IF target' = "update" THEN received' ELSE <<>>
      BY DEF Answer
    <3>2. PICK id \in 1 .. p.id :
            /\ outcome.id = Decimal[id]
            /\ id = p.id /\ p.at = "end" => outcome.kind = "call" /\ outcome.method = "firmware.end"
      BY <2>3, <3>1
    <3>3. ASSUME id = p.id, p.at = "end", ok = TRUE PROVE Installed(p, a.boots, a.opener)
      <4>1. Device!Finish
        BY <1>2, <3>2, <3>3 DEF Tells
      <4>2. a.boots = digest /\ digest \in Images /\ phase # "idle"
        BY <1>0, <3>1, <4>1 DEF Device!Finish, TypeInv, SessionTypes
      <4> HIDE DEF p, a
      <4> QED
        BY <2>0, <3>1, <4>2 DEF Installed, LiveInv
    <3> HIDE DEF p, a
    <3> QED
      BY <3>1, <3>2, <3>3 DEF OwnAnswer
  <2>5. \A d \in Consoles : \A i \in DOMAIN toHost'[d] :
          toHost'[d][i].number = p.number => OwnAnswer(p, toHost'[d][i])
    <3> HIDE DEF p, a
    <3> QED
      BY <1>5, <2>0, <2>4 DEF LiveInv
  <2>6. opener' = p.number /\ phase' # "idle" => digest' = p.image
    <3> SUFFICES ASSUME opener' = p.number, phase' # "idle" PROVE digest' = p.image
      OBVIOUS
    <3> HIDE DEF p
    <3>1. CASE UNCHANGED session \/ Device!Receive \/ Device!Finish
      BY <1>4, <2>0, <3>1 DEF session, Device!Receive, Device!Finish, LiveInv
    <3>2. CASE Device!Discard
      BY <3>2 DEF Device!Discard, Device!Cleared
    <3>3. CASE /\ outcome.kind = "call" /\ outcome.method = "firmware.begin"
               /\ Device!Begin /\ digest' = parse_sha256(outcome.args[1][2])[1]
      <4>1. request.number = p.number
        BY <1>4, <3>3 DEF Device!Begin
      <4>2. outcome.args = Some(<<Len(p.image), Hex(p.image)>>)
        BY <2>3, <3>3, <4>1
      <4> QED
        BY <3>3, <4>2 DEF parse_sha256, Some, Hex
    <3> QED
      BY <1>1, <3>1, <3>2, <3>3 DEF Handled, SessionStep
  <2> HIDE DEF p
  <2>7. LiveInv(p)'
    BY <2>0, <2>1, <2>5, <2>6 DEF LiveInv, OwnLine, OwnAnswer, Installed
  <2> QED
    BY <2>7 DEF p
<1> QED
  BY <1>0, <1>6, <1>7 DEF UpdaterInv, Live, FinalizedMeansInstalled

(* So does a restart, which loses what the consoles had queued.            *)
LEMMA RestartUpdater == UpdaterInv /\ Restart => UpdaterInv'
<1> SUFFICES ASSUME UpdaterInv, Restart PROVE UpdaterInv'
  OBVIOUS
<1>1. /\ client' = client /\ processes' = processes /\ toHost' = toHost /\ opener' = opener
      /\ phase' = "idle" /\ toDevice' = [c \in Consoles |-> <<>>]
  BY DEF Restart, hostVars, Device!Restart, Device!Cleared
<1>2. TypeInv'
  BY <1>1 DEF UpdaterInv, TypeInv, SessionTypes, ChannelTypes, Restart, Device!Restart,
              Device!Cleared
<1>3. NumberInv'
  BY <1>1 DEF UpdaterInv, NumberInv
<1>4. ASSUME NEW e \in Consoles, Live(e) PROVE LiveInv(client[e])'
  BY <1>1, <1>4 DEF UpdaterInv, LiveInv, OwnAnswer, Installed
<1> QED
  BY <1>1, <1>2, <1>3, <1>4 DEF UpdaterInv, Live, FinalizedMeansInstalled

(* A client that sends a request, and nothing else.                        *)
LEMMA SendTypes ==
  ASSUME ChannelTypes, NEW c \in Consoles, NEW number \in Nat, NEW line \in Lines,
         Send(c, number, line)
  PROVE  /\ toDevice' \in [Consoles -> Seq(Sent)]
         /\ \A d \in Consoles : \A i \in DOMAIN toDevice'[d] :
              \/ i \in DOMAIN toDevice[d] /\ toDevice'[d][i] = toDevice[d][i]
              \/ toDevice'[d][i] = [line |-> line, number |-> number]
<1> DEFINE x == [line |-> line, number |-> number]
<1>1. x \in Sent
  BY DEF Sent
<1> HIDE DEF x
<1>2. toDevice' = [toDevice EXCEPT ![c] = Append(@, x)] /\ toDevice[c] \in Seq(Sent)
  BY DEF Send, x, ChannelTypes
<1>3. toDevice' \in [Consoles -> Seq(Sent)]
  BY <1>1, <1>2, AppendElements DEF ChannelTypes
<1>4. ASSUME NEW d \in Consoles, NEW i \in DOMAIN toDevice'[d]
      PROVE  \/ i \in DOMAIN toDevice[d] /\ toDevice'[d][i] = toDevice[d][i]
             \/ toDevice'[d][i] = x
  <2>1. CASE d = c
    BY <1>1, <1>2, <1>4, <2>1, AppendElements DEF ChannelTypes
  <2>2. CASE d # c
    BY <1>2, <1>4, <2>2 DEF ChannelTypes
  <2> QED
    BY <2>1, <2>2
<1> QED
  BY <1>3, <1>4 DEF x

(* A single request has a number of its own, a line tried has none.        *)
LEMMA OtherUpdater ==
  ASSUME UpdaterInv, NEW c \in Consoles, NEW number \in Nat, NEW line \in Lines,
         Send(c, number, line), number <= processes',
         \A d \in Consoles : Live(d) => number # client[d].number,
         processes' \in Nat, processes <= processes',
         UNCHANGED <<session, toHost, client, opener>>
  PROVE  UpdaterInv'
<1>1. TypeInv'
  BY SendTypes DEF UpdaterInv, TypeInv, ChannelTypes, SessionTypes, session
<1>2. \A d \in Consoles : \A i \in DOMAIN toDevice'[d] :
        \/ i \in DOMAIN toDevice[d] /\ toDevice'[d][i] = toDevice[d][i]
        \/ toDevice'[d][i].number = number
  <2>1. \A d \in Consoles : \A i \in DOMAIN toDevice'[d] :
          \/ i \in DOMAIN toDevice[d] /\ toDevice'[d][i] = toDevice[d][i]
          \/ toDevice'[d][i] = [line |-> line, number |-> number]
    BY SendTypes DEF UpdaterInv, TypeInv
  <2> QED
    BY <2>1
<1>3. NumberInv'
  <2>1. processes \in Nat /\ opener \in Nat
    BY DEF UpdaterInv, TypeInv, ChannelTypes
  <2>2. opener' <= processes'
    BY <2>1 DEF UpdaterInv, NumberInv
  <2>3. ASSUME NEW d \in Consoles PROVE client'[d].number <= processes'
    <3>1. client[d].number \in Nat
      BY DEF UpdaterInv, TypeInv, ChannelTypes, Process
    <3> QED
      BY <2>1, <3>1 DEF UpdaterInv, NumberInv
  <2>4. ASSUME NEW d \in Consoles, NEW i \in DOMAIN toHost[d] PROVE toHost[d][i].number <= processes'
    <3>1. toHost[d][i] \in Answers
      BY <2>4 DEF UpdaterInv, TypeInv, ChannelTypes
    <3>2. toHost[d][i].number \in Nat
      BY <3>1 DEF Answers
    <3> QED
      BY <2>1, <3>2 DEF UpdaterInv, NumberInv
  <2>5. ASSUME NEW d \in Consoles, NEW i \in DOMAIN toDevice[d] PROVE toDevice[d][i].number <= processes'
    <3>1. toDevice[d][i] \in Sent
      BY <2>5 DEF UpdaterInv, TypeInv, ChannelTypes
    <3>2. toDevice[d][i].number \in Nat
      BY <3>1 DEF Sent
    <3> QED
      BY <2>1, <3>2 DEF UpdaterInv, NumberInv
  <2> QED
    BY <1>2, <2>2, <2>3, <2>4, <2>5 DEF NumberInv
<1>4. ASSUME NEW e \in Consoles, Live(e) PROVE LiveInv(client[e])'
  <2>1. LiveInv(client[e]) /\ number # client[e].number
    BY <1>4 DEF UpdaterInv
  <2> QED
    BY <1>2, <2>1 DEF LiveInv, OwnLine, OwnAnswer, Installed, session
<1> QED
  BY <1>1, <1>3, <1>4 DEF UpdaterInv, Live, FinalizedMeansInstalled

(* A client that sends a single request, or tries a line.                  *)
LEMMA RequestUpdater ==
  ASSUME UpdaterInv, NEW c \in Consoles,
         (\E r \in Requests : SendRequest(c, r)) \/ TryLine(c)
  PROVE  UpdaterInv'
<1>0. processes \in Nat /\ \A d \in Consoles : client[d].number \in Nat
  BY DEF UpdaterInv, TypeInv, ChannelTypes, Process
<1>1. ASSUME NEW r \in Requests, SendRequest(c, r) PROVE UpdaterInv'
  <2>1. Request(r[1], r[2], <<>>) \in Lines
    BY DEF Lines
  <2>2. \A d \in Consoles : processes + 1 # client[d].number
    BY <1>0 DEF UpdaterInv, NumberInv
  <2>3. /\ processes + 1 \in Nat /\ processes' = processes + 1
        /\ Send(c, processes + 1, Request(r[1], r[2], <<>>))
        /\ UNCHANGED <<session, toHost, client, opener>>
    BY <1>0, <1>1 DEF SendRequest
  <2>4. processes' \in Nat /\ processes <= processes' /\ processes + 1 <= processes'
    BY <1>0, <2>3
  <2> HIDE DEF Request
  <2> DEFINE number == processes + 1
             line   == Request(r[1], r[2], <<>>)
  <2>5. number \in Nat /\ line \in Lines /\ Send(c, number, line) /\ number <= processes'
    BY <2>1, <2>3, <2>4
  <2>6. \A d \in Consoles : Live(d) => number # client[d].number
    BY <2>2
  <2> HIDE DEF number, line
  <2> QED
    BY <2>3, <2>4, <2>5, <2>6, OtherUpdater
<1>2. ASSUME TryLine(c) PROVE UpdaterInv'
  <2>1. PICK line \in TriedLines : Send(c, 0, LineOf(line[1], line[2]))
    BY <1>2 DEF TryLine
  <2>2. LineOf(line[1], line[2]) \in Lines
    BY DEF Lines
  <2>3. \A d \in Consoles : Live(d) => 0 # client[d].number
    BY <1>0 DEF UpdaterInv, LiveInv
  <2>4. processes' = processes /\ UNCHANGED <<session, toHost, client, opener>>
    BY <1>2 DEF TryLine
  <2> DEFINE sent == LineOf(line[1], line[2])
  <2>5. /\ sent \in Lines /\ Send(c, 0, sent) /\ 0 <= processes'
        /\ processes' \in Nat /\ processes <= processes'
    BY <1>0, <2>1, <2>2, <2>4
  <2> HIDE DEF sent
  <2> QED
    BY <2>3, <2>4, <2>5, OtherUpdater
<1> QED
  BY <1>1, <1>2

(* What is under way for a process stays so when it goes on.               *)
LEMMA OwnGrows ==
  ASSUME NEW p, NEW q, p.id \in Nat, q.id = p.id + 1, q.image = p.image, q.number = p.number
  PROVE  /\ \A line : OwnLine(p, line) => OwnLine(q, line)
         /\ \A m : OwnAnswer(p, m) => OwnAnswer(q, m)
<1>1. \A id \in 1 .. p.id : id \in 1 .. q.id /\ id # q.id
  OBVIOUS
<1> QED
  BY <1>1 DEF OwnLine, OwnAnswer

(* A new updater.                                                          *)
LEMMA StartUpdaterInv ==
  ASSUME UpdaterInv, NEW c \in Consoles, NEW image \in Images, StartUpdater(c, image)
  PROVE  UpdaterInv'
<1> DEFINE n == processes + 1
           p == [NoProcess EXCEPT !.at = "begin", !.number = n, !.id = 1, !.image = image]
<1>0. /\ processes \in Nat /\ processes' = n /\ opener \in Nat
      /\ \A d \in Consoles : client[d].number \in Nat
  BY DEF UpdaterInv, TypeInv, ChannelTypes, Process, StartUpdater
<1>1. /\ p \in Process /\ p.number = n /\ p.id = 1 /\ p.image = image /\ p.at = "begin"
      /\ client' = [client EXCEPT ![c] = p] /\ toHost' = [toHost EXCEPT ![c] = <<>>]
      /\ Send(c, n, BeginLine(image)) /\ opener' = opener /\ UNCHANGED session
  <2>1. p.number = n /\ p.id = 1 /\ p.image = image /\ p.at = "begin"
    BY DEF NoProcess
  <2>2. p \in Process
    <3>1. 1 \in 0 .. MaxRequests /\ n \in Nat
      BY <1>0, RpcClientsConstants
    <3> HIDE DEF n
    <3> QED
      BY <3>1 DEF NoProcess, Process, Places
  <2>3. /\ client' = [client EXCEPT ![c] = p] /\ toHost' = [toHost EXCEPT ![c] = <<>>]
        /\ Send(c, n, BeginLine(image)) /\ opener' = opener /\ UNCHANGED session
    BY DEF StartUpdater
  <2> QED
    BY <2>1, <2>2, <2>3
<1>2. BeginLine(image) \in Lines /\ n \in Nat
  BY <1>0 DEF Lines
<1>3. /\ toDevice' \in [Consoles -> Seq(Sent)]
      /\ \A d \in Consoles : \A i \in DOMAIN toDevice'[d] :
           \/ i \in DOMAIN toDevice[d] /\ toDevice'[d][i] = toDevice[d][i]
           \/ toDevice'[d][i] = [line |-> BeginLine(image), number |-> n]
  BY <1>1, <1>2, SendTypes DEF UpdaterInv, TypeInv
<1> HIDE DEF p, n
<1>4. TypeInv'
  <2>1. client' \in [Consoles -> Process]
    BY <1>1 DEF UpdaterInv, TypeInv, ChannelTypes
  <2>2. toHost' \in [Consoles -> Seq(Answers)]
    BY <1>1 DEF UpdaterInv, TypeInv, ChannelTypes
  <2>3. SessionTypes'
    BY <1>1 DEF UpdaterInv, TypeInv, SessionTypes, session
  <2> QED
    BY <1>0, <1>1, <1>2, <1>3, <2>1, <2>2, <2>3 DEF TypeInv, ChannelTypes
<1>5. /\ \A d \in Consoles : \A i \in DOMAIN toDevice[d] :
           toDevice[d][i].number \in Nat /\ toDevice[d][i].number < n
      /\ \A d \in Consoles : \A i \in DOMAIN toHost[d] :
           toHost[d][i].number \in Nat /\ toHost[d][i].number < n
  <2>1. ASSUME NEW d \in Consoles, NEW i \in DOMAIN toDevice[d]
        PROVE  toDevice[d][i].number \in Nat /\ toDevice[d][i].number < n
    <3>1. toDevice[d][i] \in Sent
      BY <2>1 DEF UpdaterInv, TypeInv, ChannelTypes
    <3>2. toDevice[d][i].number \in Nat
      BY <3>1 DEF Sent
    <3> QED
      BY <1>0, <3>2 DEF UpdaterInv, NumberInv, n
  <2>2. ASSUME NEW d \in Consoles, NEW i \in DOMAIN toHost[d]
        PROVE  toHost[d][i].number \in Nat /\ toHost[d][i].number < n
    <3>1. toHost[d][i] \in Answers
      BY <2>2 DEF UpdaterInv, TypeInv, ChannelTypes
    <3>2. toHost[d][i].number \in Nat
      BY <3>1 DEF Answers
    <3> QED
      BY <1>0, <3>2 DEF UpdaterInv, NumberInv, n
  <2> QED
    BY <2>1, <2>2
<1>6. \A d \in Consoles : \A i \in DOMAIN toHost'[d] :
        i \in DOMAIN toHost[d] /\ toHost'[d][i] = toHost[d][i]
  BY <1>1 DEF UpdaterInv, TypeInv, ChannelTypes
<1>7. \A d \in Consoles : d # c => client'[d] = client[d]
  BY <1>1 DEF UpdaterInv, TypeInv, ChannelTypes
<1>8. client'[c] = p
  BY <1>1 DEF UpdaterInv, TypeInv, ChannelTypes
<1>9. NumberInv'
  <2>1. opener' <= processes'
    BY <1>0, <1>1, <1>2 DEF UpdaterInv, NumberInv, n
  <2>2. \A d \in Consoles : client'[d].number <= processes'
    BY <1>0, <1>1, <1>7, <1>8 DEF UpdaterInv, NumberInv, n
  <2>3. \A d \in Consoles : \A i \in DOMAIN toDevice'[d] : toDevice'[d][i].number <= processes'
    BY <1>0, <1>2, <1>3, <1>5
  <2>4. \A d \in Consoles : \A i \in DOMAIN toHost'[d] : toHost'[d][i].number <= processes'
    BY <1>0, <1>2, <1>5, <1>6
  <2> QED
    BY <2>1, <2>2, <2>3, <2>4 DEF NumberInv
<1>10. \A d \in Consoles : Live(d)' => d = c
  BY <1>7 DEF StartUpdater, Live
<1>11. LiveInv(client[c])'
  <2>1. p.number > 0 /\ p.id \in RequestIds /\ p.image \in Images
    BY <1>0, <1>1, RpcClientsConstants DEF RequestIds, n
  <2>2. \A d \in Consoles : \A i \in DOMAIN toDevice'[d] :
          toDevice'[d][i].number = p.number => OwnLine(p, toDevice'[d][i].line)
    BY <1>1, <1>2, <1>3, <1>5 DEF OwnLine
  <2>3. \A d \in Consoles : \A i \in DOMAIN toHost'[d] : toHost'[d][i].number # p.number
    BY <1>1, <1>2, <1>5, <1>6
  <2>4. opener' # p.number
    BY <1>0, <1>1 DEF UpdaterInv, NumberInv, n
  <2> QED
    BY <1>1, <1>8, <2>1, <2>2, <2>3, <2>4 DEF LiveInv, OwnLine
<1>12. FinalizedMeansInstalled'
  BY <1>1, <1>7, <1>8 DEF UpdaterInv, FinalizedMeansInstalled
<1> QED
  BY <1>4, <1>9, <1>10, <1>11, <1>12 DEF UpdaterInv

(* A live process that goes on as q: what is under way for it stays so,    *)
(* and it may claim success if q may.                                      *)
GoesOn(p, q) ==
  /\ q.id \in RequestIds /\ q.image = p.image /\ (q.at # "begin" => q.id > 1)
  /\ \A line : OwnLine(p, line) => OwnLine(q, line)
  /\ \A m : OwnAnswer(p, m) => OwnAnswer(q, m)

MayClaim(q) ==
  q.at \in {"reboot", "finished"} /\ "end" \notin q.foreign => Installed(q, q.booted, q.opener)

(* A process that goes on, or stops, keeps UpdaterInv.                     *)
LEMMA ProcessGoesOn ==
  ASSUME UpdaterInv, NEW c \in Consoles, Live(c), NEW q \in Process,
         client' = [client EXCEPT ![c] = q], q.number = client[c].number,
         UNCHANGED <<session, processes, opener>>,
         toHost' \in [Consoles -> Seq(Answers)],
         \A d \in Consoles : \A i \in DOMAIN toHost'[d] :
           \E j \in DOMAIN toHost[d] : toHost'[d][i] = toHost[d][j],
         \/ UNCHANGED toDevice
         \/ \E line \in Lines : Send(c, q.number, line) /\ OwnLine(q, line),
         q.at \in Places => GoesOn(client[c], q),
         MayClaim(q)
  PROVE  UpdaterInv'
<1>0. /\ TypeInv /\ ChannelTypes /\ LiveInv(client[c]) /\ client[c] \in Process
      /\ client'[c] = q /\ \A d \in Consoles \ {c} : client'[d] = client[d]
  BY DEF UpdaterInv, TypeInv, ChannelTypes
<1>1. q.number \in Nat
  BY DEF Process
<1>2. /\ toDevice' \in [Consoles -> Seq(Sent)]
      /\ \A d \in Consoles : \A i \in DOMAIN toDevice'[d] :
           \/ i \in DOMAIN toDevice[d] /\ toDevice'[d][i] = toDevice[d][i]
           \/ toDevice'[d][i].number = q.number /\ OwnLine(q, toDevice'[d][i].line)
  <2>1. CASE UNCHANGED toDevice
    BY <1>0, <2>1 DEF ChannelTypes
  <2>2. CASE \E line \in Lines : Send(c, q.number, line) /\ OwnLine(q, line)
    <3>1. PICK line \in Lines : Send(c, q.number, line) /\ OwnLine(q, line)
      BY <2>2
    <3>2. /\ toDevice' \in [Consoles -> Seq(Sent)]
          /\ \A d \in Consoles : \A i \in DOMAIN toDevice'[d] :
               \/ i \in DOMAIN toDevice[d] /\ toDevice'[d][i] = toDevice[d][i]
               \/ toDevice'[d][i] = [line |-> line, number |-> q.number]
      BY <1>0, <1>1, <3>1, SendTypes
    <3> QED
      BY <3>1, <3>2
  <2> QED
    BY <2>1, <2>2
<1>3. TypeInv'
  <2>1. client' \in [Consoles -> Process]
    BY <1>0 DEF ChannelTypes
  <2>2. SessionTypes'
    BY <1>0 DEF TypeInv, SessionTypes, session
  <2> QED
    BY <1>0, <1>2, <2>1, <2>2 DEF TypeInv, ChannelTypes
<1>4. NumberInv'
  <2>0. q.number <= processes /\ NumberInv /\ processes' = processes /\ opener' = opener
    BY DEF UpdaterInv, NumberInv
  <2>1. ASSUME NEW d \in Consoles PROVE client'[d].number <= processes
    BY <1>0, <2>0 DEF NumberInv
  <2>2. ASSUME NEW d \in Consoles, NEW i \in DOMAIN toDevice'[d]
        PROVE  toDevice'[d][i].number <= processes
    BY <1>2, <2>0, <2>2 DEF NumberInv
  <2>3. ASSUME NEW d \in Consoles, NEW i \in DOMAIN toHost'[d]
        PROVE  toHost'[d][i].number <= processes
    <3>1. PICK j \in DOMAIN toHost[d] : toHost'[d][i] = toHost[d][j]
      BY <2>3
    <3> QED
      BY <2>0, <3>1 DEF NumberInv
  <2> QED
    BY <2>0, <2>1, <2>2, <2>3 DEF NumberInv
<1>5. \A d \in Consoles : Live(d)' => d = c
  <2>1. \A d \in Consoles : Live(d) => d = c
    BY DEF UpdaterInv
  <2> QED
    BY <1>0, <2>1 DEF Live
<1>6. ASSUME q.at \in Places PROVE LiveInv(client[c])'
  <2>0. GoesOn(client[c], q)
    BY <1>6
  <2>1. q.number > 0 /\ q.id \in RequestIds /\ q.image \in Images /\ (q.at # "begin" => q.id > 1)
    BY <1>0, <2>0 DEF LiveInv, GoesOn
  <2>2. \A d \in Consoles : \A i \in DOMAIN toDevice'[d] :
          toDevice'[d][i].number = q.number => OwnLine(q, toDevice'[d][i].line)
    <3> SUFFICES ASSUME NEW d \in Consoles, NEW i \in DOMAIN toDevice'[d],
                        toDevice'[d][i].number = q.number
                 PROVE  OwnLine(q, toDevice'[d][i].line)
      OBVIOUS
    <3>1. CASE i \in DOMAIN toDevice[d] /\ toDevice'[d][i] = toDevice[d][i]
      BY <1>0, <2>0, <3>1 DEF LiveInv, GoesOn
    <3> QED
      BY <1>2, <3>1
  <2>3. \A d \in Consoles : \A i \in DOMAIN toHost'[d] :
          toHost'[d][i].number = q.number => OwnAnswer(q, toHost'[d][i])
    <3> SUFFICES ASSUME NEW d \in Consoles, NEW i \in DOMAIN toHost'[d],
                        toHost'[d][i].number = q.number
                 PROVE  OwnAnswer(q, toHost'[d][i])
      OBVIOUS
    <3>1. PICK j \in DOMAIN toHost[d] : toHost'[d][i] = toHost[d][j]
      OBVIOUS
    <3> QED
      BY <1>0, <2>0, <3>1 DEF LiveInv, GoesOn
  <2>4. opener' = q.number /\ phase' # "idle" => digest' = q.image
    BY <1>0, <2>0 DEF LiveInv, GoesOn, session
  <2> QED
    BY <1>0, <2>1, <2>2, <2>3, <2>4 DEF LiveInv, OwnLine, OwnAnswer, Installed
<1>7. \A d \in Consoles : Live(d)' => LiveInv(client[d])'
  BY <1>0, <1>5, <1>6 DEF Live, Places
<1>8. FinalizedMeansInstalled'
  BY <1>0 DEF UpdaterInv, FinalizedMeansInstalled, MayClaim, Installed
<1> QED
  BY <1>3, <1>4, <1>5, <1>7, <1>8 DEF UpdaterInv

(* An updater that goes on to its next request.                            *)
LEMMA NextRequestGoesOn ==
  ASSUME NEW r \in Process, r.at \in Places, r.id \in RequestIds, r.image \in Images,
         NEW f \in SUBSET Places, NEW written \in Nat, NEW c, r.id < MaxRequests,
         NextRequest(c, [r EXCEPT !.foreign = f], written)
  PROVE  \E q \in Process :
           /\ client' = [client EXCEPT ![c] = q] /\ q.number = r.number
           /\ q.at \in {"write", "end"} /\ GoesOn(r, q)
           /\ \E line \in Lines : Send(c, q.number, line) /\ OwnLine(q, line)
<1> DEFINE p    == [r EXCEPT !.foreign = f]
           more == written < Len(r.image)
           q    == [p EXCEPT !.at = IF more THEN "write" ELSE "end", !.id = r.id + 1,
                             !.written = written]
           line == IF more THEN WriteLine(r.id + 1, r.image, written) ELSE EndLine(r.id + 1)
<1>0. /\ r.id + 1 \in RequestIds /\ r.id + 1 \in 0 .. MaxRequests /\ r.id \in Nat
      /\ r.id + 1 > 1 /\ r.id + 1 \in 1 .. r.id + 1
  BY RpcClientsConstants DEF RequestIds
<1>1. p \in Process /\ p.id = r.id /\ p.image = r.image /\ p.number = r.number
  BY DEF Process
<1>2. /\ q \in Process /\ q.id = r.id + 1 /\ q.image = r.image /\ q.number = r.number
      /\ q.at = IF more THEN "write" ELSE "end"
  <2>1. (IF more THEN "write" ELSE "end") \in Places
    BY DEF Places
  <2> HIDE DEF more
  <2> QED
    BY <1>0, <1>1, <2>1 DEF Process
<1>3. client' = [client EXCEPT ![c] = q] /\ Send(c, q.number, line)
  <2>1. NextRequest(c, p, written)
    OBVIOUS
  <2> HIDE DEF p
  <2>2. client' = [client EXCEPT ![c] = q]
    BY <1>1, <2>1 DEF NextRequest
  <2>3. Send(c, r.number, line)
    BY <1>1, <2>1 DEF NextRequest
  <2> HIDE DEF q
  <2> QED
    BY <1>2, <2>2, <2>3
<1>4. more => written \in 0 .. Len(r.image) - 1
  BY RpcClientsConstants
<1>5. line \in Lines
  <2>1. CASE more
    <3>1. WriteLine(r.id + 1, r.image, written) \in
            {WriteLine(id, r.image, w) : id \in RequestIds, w \in 0 .. Len(r.image) - 1}
      BY <1>0, <1>4, <2>1
    <3> QED
      BY <2>1, <3>1 DEF Lines
  <2>2. CASE ~more
    <3>1. EndLine(r.id + 1) \in {EndLine(id) : id \in RequestIds}
      BY <1>0
    <3> QED
      BY <2>2, <3>1 DEF Lines
  <2> QED
    BY <2>1, <2>2
<1> HIDE DEF q
<1>6. OwnLine(q, line)
  <2>1. CASE more
    BY <1>0, <1>2, <1>4, <2>1 DEF OwnLine
  <2>2. CASE ~more
    BY <1>0, <1>2, <2>2 DEF OwnLine
  <2> QED
    BY <2>1, <2>2
<1>7. GoesOn(r, q)
  BY <1>0, <1>2, OwnGrows DEF GoesOn
<1> QED
  BY <1>2, <1>3, <1>5, <1>6, <1>7

(* An updater that takes an answer.                                        *)
LEMMA TakeUpdater ==
  ASSUME UpdaterInv, NEW c \in Consoles, TakeAnswer(c)
  PROVE  UpdaterInv'
<1> DEFINE r == client[c]
           m == Head(toHost[c])
           f == IF m.number = r.number THEN r.foreign ELSE r.foreign \cup {r.at}
           p == [r EXCEPT !.foreign = f]
<1>0. /\ TypeInv /\ ChannelTypes /\ r \in Process /\ r.at \in Places /\ Live(c) /\ LiveInv(r)
      /\ toHost[c] \in Seq(Answers) /\ toHost[c] # <<>>
  BY DEF UpdaterInv, TypeInv, ChannelTypes, TakeAnswer, Live, Places
<1>1. /\ m \in Answers /\ (m.number = r.number => OwnAnswer(r, m))
      /\ UNCHANGED <<session, processes, opener>>
  <2>1. m \in Answers /\ m = toHost[c][1] /\ 1 \in DOMAIN toHost[c]
    BY <1>0, TailElements
  <2> QED
    BY <1>0, <2>1 DEF LiveInv, TakeAnswer
<1>2. /\ toHost' \in [Consoles -> Seq(Answers)]
      /\ \A d \in Consoles : \A i \in DOMAIN toHost'[d] :
           \E j \in DOMAIN toHost[d] : toHost'[d][i] = toHost[d][j]
  <2>1. toHost' = [toHost EXCEPT ![c] = Tail(@)] /\ toHost \in [Consoles -> Seq(Answers)]
    BY <1>0 DEF TakeAnswer, ChannelTypes
  <2>2. toHost' \in [Consoles -> Seq(Answers)]
    BY <1>0, <2>1, TailElements
  <2>3. ASSUME NEW d \in Consoles, NEW i \in DOMAIN toHost'[d]
        PROVE  \E j \in DOMAIN toHost[d] : toHost'[d][i] = toHost[d][j]
    <3>1. CASE d = c
      BY <1>0, <2>1, <2>3, <3>1, TailElements
    <3>2. CASE d # c
      BY <2>1, <3>2
    <3> QED
      BY <3>1, <3>2
  <2> QED
    BY <2>2, <2>3
<1>3. f \in SUBSET Places /\ r.foreign \subseteq f
  BY <1>0 DEF Process
<1>4. /\ p \in Process /\ p.at = r.at /\ p.number = r.number /\ p.id = r.id /\ p.image = r.image
      /\ p.booted = r.booted /\ p.opener = r.opener /\ p.foreign = f
  <2> HIDE DEF f, r
  <2> QED
    BY <1>0, <1>3 DEF Process
<1>5. /\ r.number \in Nat /\ r.id \in RequestIds /\ r.id \in Nat /\ r.image \in Images
      /\ (r.at # "begin" => r.id > 1)
  BY <1>0, RpcClientsConstants DEF Process, LiveInv, RequestIds
<1>6. MayClaim(r)
  BY <1>0 DEF UpdaterInv, FinalizedMeansInstalled, MayClaim, Installed
<1>7. ASSUME m.id = Decimal[r.id], m.ok, r.at = "end", "end" \notin f
      PROVE  Installed(r, m.boots, m.opener)
  <2>1. m.number = r.number
    BY <1>7
  <2>2. PICK id \in 1 .. r.id :
          /\ m.id = Decimal[id]
          /\ id = r.id /\ r.at = "end" /\ m.ok => Installed(r, m.boots, m.opener)
    <3> HIDE DEF m, r
    <3> QED
      BY <1>1, <2>1 DEF OwnAnswer
  <2>3. id \in RequestIds
    BY <1>5, RpcClientsConstants DEF RequestIds
  <2>4. id = r.id
    BY <1>5, <1>7, <2>2, <2>3, DistinctIds
  <2> QED
    BY <1>7, <2>2, <2>4
<1>8. m.boots \in Images \cup {<<>>} /\ m.opener \in Nat /\ m.written \in Offsets
  BY <1>1 DEF Answers
<1>9. ASSUME NEW q \in Process, client' = [client EXCEPT ![c] = q], q.number = r.number,
             \/ UNCHANGED toDevice
             \/ \E line \in Lines : Send(c, q.number, line) /\ OwnLine(q, line),
             q.at \in Places => GoesOn(r, q), MayClaim(q)
      PROVE  UpdaterInv'
  BY <1>0, <1>1, <1>2, <1>9, ProcessGoesOn
<1>10. ASSUME client' = client, UNCHANGED toDevice PROVE UpdaterInv'
  <2>1. client' = [client EXCEPT ![c] = r]
    BY <1>0, <1>10 DEF ChannelTypes
  <2>2. GoesOn(r, r)
    BY <1>5 DEF GoesOn
  <2> HIDE DEF r
  <2> QED
    BY <1>0, <1>6, <1>9, <1>10, <2>1, <2>2
<1> HIDE DEF f, m, r
<1>11. ASSUME client' = [client EXCEPT ![c] = [p EXCEPT !.at = "failed"]], UNCHANGED toDevice
       PROVE  UpdaterInv'
  <2> DEFINE q == [p EXCEPT !.at = "failed"]
  <2>1. q \in Process /\ q.number = r.number /\ q.at = "failed" /\ q.at \notin Places
    BY <1>4 DEF Process, Places
  <2> HIDE DEF q
  <2> QED
    BY <1>9, <1>11, <2>1 DEF MayClaim, q
<1>12. ASSUME NEW written \in Nat, NextRequest(c, p, written) PROVE UpdaterInv'
  <2>1. r.id < MaxRequests
    BY <1>4, <1>12 DEF NextRequest
  <2>2. PICK q \in Process :
          /\ client' = [client EXCEPT ![c] = q] /\ q.number = r.number
          /\ q.at \in {"write", "end"} /\ GoesOn(r, q)
          /\ \E line \in Lines : Send(c, q.number, line) /\ OwnLine(q, line)
    BY <1>0, <1>3, <1>5, <1>12, <2>1, NextRequestGoesOn
  <2>3. MayClaim(q)
    BY <2>2 DEF MayClaim
  <2> QED
    BY <1>9, <2>2, <2>3
<1>13. ASSUME m.id = Decimal[r.id], m.ok, r.at = "end", UNCHANGED toDevice,
              client' = [client EXCEPT ![c] =
                [p EXCEPT !.at = "finished", !.booted = m.boots, !.opener = m.opener]]
       PROVE  UpdaterInv'
  <2> DEFINE q == [p EXCEPT !.at = "finished", !.booted = m.boots, !.opener = m.opener]
  <2>1. /\ q \in Process /\ q.number = r.number /\ q.image = r.image /\ q.at \notin Places
        /\ q.foreign = f /\ q.booted = m.boots /\ q.opener = m.opener
    BY <1>4, <1>8 DEF Process, Places
  <2> HIDE DEF q
  <2>2. MayClaim(q)
    BY <1>7, <1>13, <2>1 DEF MayClaim, Installed
  <2> QED
    BY <1>9, <1>13, <2>1, <2>2 DEF q
<1>14. ASSUME m.id = Decimal[r.id], m.ok, r.at = "end", r.id < MaxRequests,
              Send(c, p.number, RebootLine(p.id + 1)),
              client' = [client EXCEPT ![c] =
                [p EXCEPT !.at = "reboot", !.id = @ + 1, !.booted = m.boots, !.opener = m.opener]]
       PROVE  UpdaterInv'
  <2> DEFINE q == [p EXCEPT !.at = "reboot", !.id = @ + 1, !.booted = m.boots, !.opener = m.opener]
  <2>0. /\ r.id + 1 \in RequestIds /\ r.id + 1 \in 0 .. MaxRequests /\ r.id + 1 > 1
        /\ r.id + 1 \in 1 .. r.id + 1
    BY <1>5, <1>14, RpcClientsConstants DEF RequestIds
  <2>1. /\ q \in Process /\ q.number = r.number /\ q.image = r.image /\ q.at = "reboot"
        /\ q.id = r.id + 1 /\ q.foreign = f /\ q.booted = m.boots /\ q.opener = m.opener
    BY <1>4, <1>8, <2>0 DEF Process, Places
  <2> HIDE DEF q
  <2>2. MayClaim(q)
    BY <1>7, <1>14, <2>1 DEF MayClaim, Installed
  <2>3. GoesOn(r, q)
    BY <1>5, <2>0, <2>1, OwnGrows DEF GoesOn
  <2>4. RebootLine(q.id) \in {RebootLine(id) : id \in RequestIds}
    BY <2>0, <2>1
  <2>5. RebootLine(q.id) \in Lines
    BY <2>4 DEF Lines
  <2>6. OwnLine(q, RebootLine(q.id))
    BY <2>0, <2>1 DEF OwnLine
  <2>7. Send(c, q.number, RebootLine(q.id))
    BY <1>4, <1>14, <2>1
  <2>8. \E line \in Lines : Send(c, q.number, line) /\ OwnLine(q, line)
    BY <2>5, <2>6, <2>7
  <2> QED
    BY <1>9, <1>14, <2>1, <2>2, <2>3, <2>8 DEF q
<1>15. ASSUME r.at = "reboot", UNCHANGED toDevice,
              client' = [client EXCEPT ![c] = [p EXCEPT !.at = "finished"]]
       PROVE  UpdaterInv'
  <2> DEFINE q == [p EXCEPT !.at = "finished"]
  <2>1. /\ q \in Process /\ q.number = r.number /\ q.image = r.image /\ q.at \notin Places
        /\ q.foreign = f /\ q.booted = r.booted /\ q.opener = r.opener
    BY <1>4 DEF Process, Places
  <2> HIDE DEF q
  <2>2. MayClaim(q)
    BY <1>3, <1>6, <1>15, <2>1 DEF MayClaim, Installed
  <2> QED
    BY <1>9, <1>15, <2>1, <2>2 DEF q
<1>16. \A written \in Offsets : written # None => written[1] \in Nat
  BY DEF Offsets, None
<1>17. (IF m.written = None THEN 0 ELSE m.written[1]) \in Nat
  BY <1>8, <1>16
<1>18. \/ m.id # Decimal[r.id] /\ UNCHANGED <<client, toDevice>>
       \/ client' = [client EXCEPT ![c] = [p EXCEPT !.at = "failed"]] /\ UNCHANGED toDevice
       \/ NextRequest(c, p, IF m.written = None THEN 0 ELSE m.written[1])
       \/ m.written # None /\ NextRequest(c, p, m.written[1])
       \/ /\ m.id = Decimal[r.id] /\ m.ok /\ p.at = "end" /\ UNCHANGED toDevice
          /\ client' = [client EXCEPT ![c] =
               [p EXCEPT !.at = "finished", !.booted = m.boots, !.opener = m.opener]]
       \/ /\ m.id = Decimal[r.id] /\ m.ok /\ p.at = "end" /\ p.id < MaxRequests
          /\ client' = [client EXCEPT ![c] =
               [p EXCEPT !.at = "reboot", !.id = @ + 1, !.booted = m.boots, !.opener = m.opener]]
          /\ Send(c, p.number, RebootLine(p.id + 1))
       \/ /\ p.at = "reboot" /\ UNCHANGED toDevice
          /\ client' = [client EXCEPT ![c] = [p EXCEPT !.at = "finished"]]
  BY DEF TakeAnswer, p, f, m, r
<1> HIDE DEF p
<1> QED
  BY <1>4, <1>8, <1>10, <1>11, <1>12, <1>13, <1>14, <1>15, <1>16, <1>17, <1>18

(* An updater that gives up.                                               *)
LEMMA TimeoutUpdater ==
  ASSUME UpdaterInv, NEW c \in Consoles, Timeout(c)
  PROVE  UpdaterInv'
<1> DEFINE q == [client[c] EXCEPT !.at = "failed"]
<1>1. /\ client[c] \in Process /\ client \in [Consoles -> Process] /\ Live(c)
      /\ toHost \in [Consoles -> Seq(Answers)]
  BY DEF UpdaterInv, TypeInv, ChannelTypes, Timeout
<1>2. /\ client' = [client EXCEPT ![c] = q] /\ toHost' = toHost /\ toDevice' = toDevice
      /\ UNCHANGED <<session, processes, opener>>
  BY <1>1 DEF Timeout
<1>3. q \in Process /\ q.number = client[c].number /\ q.at = "failed" /\ q.at \notin Places
  BY <1>1 DEF Process, Places
<1> HIDE DEF q
<1>4. MayClaim(q)
  BY <1>3 DEF MayClaim
<1> QED
  BY <1>1, <1>2, <1>3, <1>4, ProcessGoesOn

(* Every step keeps UpdaterInv.                                            *)
LEMMA StepUpdater == UpdaterInv /\ [Next]_vars => UpdaterInv'
<1> SUFFICES ASSUME UpdaterInv, [Next]_vars PROVE UpdaterInv'
  OBVIOUS
<1>1. CASE UNCHANGED vars
  <2>1. UNCHANGED <<session, toDevice, toHost, client, processes, opener>>
    BY <1>1 DEF vars, hostVars
  <2>2. TypeInv'
    BY <2>1 DEF UpdaterInv, TypeInv, session, SessionTypes, ChannelTypes
  <2>3. NumberInv' /\ FinalizedMeansInstalled'
    BY <2>1 DEF UpdaterInv, NumberInv, FinalizedMeansInstalled
  <2>4. /\ \A c, d \in Consoles : Live(c)' /\ Live(d)' => c = d
        /\ \A c \in Consoles : Live(c)' => LiveInv(client[c])'
    BY <2>1 DEF UpdaterInv, session, Live, LiveInv
  <2> QED
    BY <2>2, <2>3, <2>4 DEF UpdaterInv
<1>2. ASSUME NEW c \in Consoles, ProcessCommand(c) PROVE UpdaterInv'
  BY <1>2, ProcessUpdater
<1>3. ASSUME NEW c \in Consoles, ClientStep(c) PROVE UpdaterInv'
  BY <1>3, StartUpdaterInv, TakeUpdater, TimeoutUpdater, RequestUpdater DEF ClientStep
<1> DEFINE first == CHOOSE c \in Consoles : TRUE
<1>4. CASE TryLine(first)
  <2>1. first \in Consoles
    BY RpcClientsConstants
  <2> HIDE DEF first
  <2> QED
    BY <1>4, <2>1, RequestUpdater
<1>5. CASE Restart
  BY <1>5, RestartUpdater
<1> HIDE DEF first
<1>6. \/ \E c \in Consoles : ProcessCommand(c) \/ ClientStep(c)
      \/ TryLine(first) \/ Restart \/ UNCHANGED vars
  BY DEF Next, first
<1> QED
  BY <1>1, <1>2, <1>3, <1>4, <1>5, <1>6

(* For any consoles, images and clients: an updater that reports success   *)
(* on the answer to its own end leaves the device with a whole image that  *)
(* an updater announced, and with its own if the session was its own.      *)
THEOREM Finalized == Spec => []FinalizedMeansInstalled
<1>1. UpdaterInv => FinalizedMeansInstalled
  BY DEF UpdaterInv
<1> QED
  BY <1>1, InitUpdater, StepUpdater, PTL DEF Spec

-----------------------------------------------------------------------------
(* An updater that nothing disturbs, in step with the device: one request  *)
(* or its answer is under way, and the session has what it sent so far.    *)
Underway(u, line) ==
  toDevice[u] = <<[line |-> line, number |-> client[u].number]>> /\ toHost[u] = <<>>
Accepted(u) ==
  /\ toDevice[u] = <<>> /\ Len(toHost[u]) = 1
  /\ toHost[u][1].id = Decimal[client[u].id] /\ toHost[u][1].ok = TRUE
AcceptedUpTo(u, n) == Accepted(u) /\ toHost[u][1].written = Some(n)
Has(image, n) ==
  /\ phase = "receiving" /\ size = Len(image) /\ digest = image
  /\ Len(received) = n /\ \A i \in 1 .. n : received[i] = image[i]

InStep(u) ==
  LET p == client[u] IN
  /\ \A d \in Consoles \ {u} : toDevice[d] = <<>>
  /\ \/ /\ p.at = "begin" /\ p.id = 1
        /\ \/ Underway(u, BeginLine(p.image)) /\ phase = "idle"
           \/ AcceptedUpTo(u, 0) /\ Has(p.image, 0)
     \/ /\ p.at = "write" /\ p.written < Len(p.image)
        /\ \/ Underway(u, WriteLine(p.id, p.image, p.written)) /\ Has(p.image, p.written)
           \/ AcceptedUpTo(u, p.written + 1) /\ Has(p.image, p.written + 1)
     \/ /\ p.at = "end"
        /\ \/ Underway(u, EndLine(p.id)) /\ Has(p.image, Len(p.image))
           \/ phase = "ready" /\ Accepted(u)
     \/ /\ p.at = "reboot"
        /\ \/ Underway(u, RebootLine(p.id)) /\ phase = "ready"
           \/ Accepted(u)
     \/ p.at = "finished"

SoloInv ==
  ~disturbed =>
    \/ /\ processes = 0 /\ \A c \in Consoles : client[c] = NoProcess
       /\ tried = None => phase = "idle" /\ \A c \in Consoles : toDevice[c] = <<>>
    \/ /\ processes = 1
       /\ \E u \in Consoles :
            /\ \A d \in Consoles \ {u} : client[d] = NoProcess
            /\ Len(client[u].image) <= PartitionSize => InStep(u)

(* Sequences with the same elements are the same.                          *)
LEMMA SameElements ==
  ASSUME NEW S, NEW s \in Seq(S), NEW t \in Seq(S), Len(s) = Len(t),
         \A i \in 1 .. Len(s) : s[i] = t[i]
  PROVE  s = t
OBVIOUS

(* What has been received, and one byte more.                              *)
Grown(s, b) == s \o <<b>>

(* It has that byte at its end, and is otherwise the same.                 *)
LEMMA OneMoreByte ==
  ASSUME NEW s \in Seq(0 .. 255), NEW b \in 0 .. 255
  PROVE  /\ Len(Grown(s, b)) = Len(s) + 1 /\ Grown(s, b)[Len(s) + 1] = b
         /\ \A i \in 1 .. Len(s) : Grown(s, b)[i] = s[i]
BY DEF Grown

(* There is a byte to send until all have been written.                    *)
LEMMA NextByte ==
  ASSUME NEW s \in Seq(0 .. 255), NEW n \in Nat, n < Len(s)
  PROVE  n \in 0 .. Len(s) - 1 /\ Len(s) \in Nat /\ s[n + 1] \in 0 .. 255
<1>1. Len(s) \in Nat /\ n + 1 \in 1 .. Len(s)
  OBVIOUS
<1>2. PICK Bytes : Bytes = 0 .. 255
  OBVIOUS
<1>3. s \in Seq(Bytes)
  BY <1>2
<1>4. s[n + 1] \in Bytes
  BY <1>1, <1>3
<1> QED
  BY <1>1, <1>2, <1>4

(* A request alone in its queue is dispatched by its method.               *)
LEMMA Dispatch ==
  ASSUME UpdaterInv, NEW u \in Consoles, ProcessCommand(u), NEW line,
         toDevice[u] = <<[line |-> line, number |-> client[u].number]>>,
         process_command(line).kind = "call"
  PROVE  LET request == [line |-> line, number |-> client[u].number]
             outcome == process_command(line)
         IN /\ outcome.method = "firmware.begin" => handle_firmware_begin(request, outcome)
            /\ outcome.method = "firmware.write" => handle_firmware_write(request, outcome)
            /\ outcome.method = "firmware.end" => handle_firmware_end(request, outcome)
            /\ outcome.method = "firmware.reboot" => handle_reboot(request, outcome)
<1> DEFINE request == [line |-> line, number |-> client[u].number]
<1>1. Head(toDevice[u]) = request /\ request.line = line
  OBVIOUS
<1> HIDE DEF request
<1> QED
  BY <1>1 DEF ProcessCommand, request

(* u hears of a success.                                                   *)
Heard(u, id, written) ==
  /\ Len(toHost'[u]) = 1 /\ toHost'[u][1].id = id
  /\ toHost'[u][1].ok = TRUE /\ toHost'[u][1].written = written

(* The updater hears of an undisturbed success, and no driver fails.       *)
LEMMA SuccessHeard ==
  ASSUME UpdaterInv, ~disturbed', NEW u \in Consoles, Live(u), toHost[u] = <<>>,
         NEW request, NEW outcome, NEW written, NEW id, outcome.has_id = TRUE, outcome.id = id,
         send_rpc_result(request, outcome, written)
  PROVE  Heard(u, id, written)
<1> DEFINE a == Answer(request, outcome, TRUE, written)
<1>1. a.id = id /\ a.ok = TRUE /\ a.written = written
  BY DEF Answer
<1>2. Broadcast(a)
  BY DEF send_rpc_result
<1> HIDE DEF a
<1>3. toHost'[u] = Append(toHost[u], a)
  BY <1>2 DEF Broadcast
<1>4. toHost'[u] = <<a>>
  BY <1>3
<1> QED
  BY <1>1, <1>4 DEF Heard

(* The device accepts each request of an updater it is in step with.       *)
LEMMA DeviceInStep ==
  ASSUME UpdaterInv, NEW u \in Consoles, InStep(u), Len(client[u].image) <= PartitionSize,
         ProcessCommand(u), ~disturbed'
  PROVE  InStep(u)'
<1> DEFINE p == client[u]
<1>0. /\ client' = client /\ toDevice'[u] = Tail(toDevice[u]) /\ toDevice[u] # <<>>
      /\ \A d \in Consoles \ {u} : toDevice'[d] = toDevice[d]
  BY DEF ProcessCommand, hostVars, UpdaterInv, TypeInv, ChannelTypes
<1>1. \A d \in Consoles \ {u} : toDevice'[d] = <<>>
  BY <1>0 DEF InStep
<1>2. p \in Process /\ received \in Seq(0 .. 255)
  BY DEF UpdaterInv, TypeInv, ChannelTypes, SessionTypes
<1>3. Live(u) => p.id \in RequestIds /\ p.image \in Images
  BY DEF UpdaterInv, LiveInv
<1>4. ASSUME NEW line, Underway(u, line)
      PROVE  /\ toDevice'[u] = <<>> /\ toHost[u] = <<>>
             /\ toDevice[u] = <<[line |-> line, number |-> client[u].number]>>
  BY <1>0, <1>4 DEF Underway
<1>5. CASE p.at = "begin" /\ p.id = 1 /\ Underway(u, BeginLine(p.image)) /\ phase = "idle"
  <2> DEFINE line == BeginLine(p.image)
             req  == [line |-> line, number |-> client[u].number]
             out  == process_command(line)
  <2>0. Live(u) /\ p.image \in Images
    BY <1>3, <1>5 DEF Live
  <2>1. /\ out.kind = "call" /\ out.method = "firmware.begin" /\ out.has_id = TRUE
        /\ out.id = Decimal[1] /\ out.args = Some(<<Len(p.image), Hex(p.image)>>)
    BY <2>0, ReadsBegin DEF ReadAs
  <2>2. handle_firmware_begin(req, out)
    <3> HIDE DEF line
    <3> QED
      BY <1>4, <1>5, <2>1, Dispatch DEF line
  <2>3. parse_sha256(out.args[1][2]) = Some(p.image) /\ out.args[1][1] = Len(p.image)
    BY <2>1 DEF Some, parse_sha256, Hex
  <2>4. Len(p.image) \in Nat /\ Len(p.image) > 0
    BY <2>0, RpcClientsConstants
  <2> HIDE DEF out, req, line
  <2>5. Some(p.image) # None /\ Some(p.image)[1] = p.image
    BY DEF Some, None
  <2>6. /\ size' = Len(p.image) /\ digest' = p.image /\ Device!Begin
        /\ send_rpc_result(req, out, Some(0))
    BY <1>5, <2>2, <2>3, <2>4, <2>5 DEF handle_firmware_begin, DriverFails
  <2>7. Has(p.image, 0)'
    BY <1>0, <2>6 DEF Has, Device!Begin
  <2>8. Heard(u, Decimal[1], Some(0))
    <3>1. PICK o, r, w, i : o = out /\ r = req /\ w = Some(0) /\ i = out.id
      OBVIOUS
    <3>2. o.has_id = TRUE /\ o.id = i /\ toHost[u] = <<>> /\ send_rpc_result(r, o, w)
      BY <1>4, <1>5, <3>1, <2>1, <2>6
    <3>3. Heard(u, i, w)
      BY <2>0, <3>2, SuccessHeard
    <3> QED
      BY <2>1, <3>1, <3>3
  <2>9. AcceptedUpTo(u, 0)'
    BY <1>0, <1>4, <1>5, <2>8 DEF AcceptedUpTo, Accepted, Heard
  <2> QED
    BY <1>0, <1>1, <1>5, <2>7, <2>9 DEF InStep
<1>6. CASE /\ p.at = "write" /\ p.written < Len(p.image)
           /\ Underway(u, WriteLine(p.id, p.image, p.written)) /\ Has(p.image, p.written)
  <2> DEFINE line == WriteLine(p.id, p.image, p.written)
             req  == [line |-> line, number |-> client[u].number]
             out  == process_command(line)
             text == b64encode(<<p.image[p.written + 1]>>)
             byte == p.image[p.written + 1]
  <2>0. Live(u) /\ p.image \in Images /\ p.id \in RequestIds
    BY <1>3, <1>6 DEF Live
  <2>00. /\ p.written \in 0 .. Len(p.image) - 1 /\ p.written \in Nat /\ Len(p.image) \in Nat
         /\ byte \in 0 .. 255
    <3>1. p.written \in Nat /\ p.image \in Seq(0 .. 255) /\ p.written < Len(p.image)
      BY <1>2, <1>6, <2>0, RpcClientsConstants DEF Process
    <3>2. PICK n \in Nat, image \in Seq(0 .. 255) : n = p.written /\ image = p.image
      BY <3>1
    <3>3. n < Len(image)
      BY <3>1, <3>2
    <3>4. n \in 0 .. Len(image) - 1 /\ Len(image) \in Nat /\ image[n + 1] \in 0 .. 255
      BY <3>3, NextByte
    <3> QED
      BY <3>1, <3>2, <3>4
  <2>1. /\ out.kind = "call" /\ out.method = "firmware.write" /\ out.has_id = TRUE
        /\ out.id = Decimal[p.id] /\ out.args = Some(<<p.written, Data(text)>>)
        /\ decode_base64(text, (MAX_BASE64_CHARS \div 4) * 3) = Decoded("ok", <<byte>>)
    <3> HIDE DEF p
    <3>1. PICK id \in RequestIds, image \in Images, w \in Nat :
            id = p.id /\ image = p.image /\ w = p.written
      BY <2>0, <2>00
    <3>2. w \in 0 .. Len(image) - 1
      BY <2>00, <3>1
    <3>3. /\ ReadAs(WriteLine(id, image, w), id, "firmware.write")
          /\ process_command(WriteLine(id, image, w)).args =
               Some(<<w, Data(b64encode(<<image[w + 1]>>))>>)
          /\ decode_base64(b64encode(<<image[w + 1]>>), (MAX_BASE64_CHARS \div 4) * 3) =
               Decoded("ok", <<image[w + 1]>>)
      BY <3>2, ReadsWrite
    <3> QED
      BY <3>1, <3>3 DEF ReadAs
  <2>2. handle_firmware_write(req, out)
    <3> HIDE DEF line
    <3> QED
      BY <1>4, <1>6, <2>1, Dispatch DEF line
  <2> HIDE DEF text
  <2>3. out.args[1][1] = p.written /\ out.args[1][2][2] = text
    BY <2>1 DEF Some, Data
  <2> HIDE DEF out, req, line, byte
  <2>4. /\ Decoded("ok", <<byte>>).err = "ok" /\ Decoded("ok", <<byte>>).bytes = <<byte>>
        /\ phase = "receiving" /\ p.written = Len(received) /\ Len(received) + Len(<<byte>>) <= size
    BY <1>2, <1>6, <2>00 DEF Decoded, Has
  <2>5. /\ received' = received \o <<byte>> /\ Device!Receive
        /\ send_rpc_result(req, out, Some(Len(received')))
    BY <2>1, <2>2, <2>3, <2>4 DEF handle_firmware_write, DriverFails
  <2>6. Len(received') = p.written + 1 /\ \A i \in 1 .. p.written + 1 : received'[i] = p.image[i]
    <3>1. PICK n \in Nat : n = p.written
      BY <2>00
    <3>2. Len(received) = n /\ (\A i \in 1 .. n : received[i] = p.image[i]) /\ byte = p.image[n + 1]
      BY <1>6, <3>1 DEF Has, byte
    <3>3. Grown(received, byte) = received' /\ byte \in 0 .. 255
      BY <2>00, <2>5 DEF Grown
    <3>4. /\ Len(received') = n + 1 /\ received'[n + 1] = byte
          /\ \A i \in 1 .. n : received'[i] = received[i]
      <4>1. /\ Len(Grown(received, byte)) = Len(received) + 1
            /\ Grown(received, byte)[Len(received) + 1] = byte
            /\ \A i \in 1 .. Len(received) : Grown(received, byte)[i] = received[i]
        BY <1>2, <3>3, OneMoreByte, Zenon
      <4>2. Len(received) = n
        BY <3>2
      <4> QED
        BY <3>3, <4>1, <4>2, Zenon
    <3>5. \A i \in 1 .. n + 1 : i \in 1 .. n \/ i = n + 1
      OBVIOUS
    <3>6. \A i \in 1 .. n + 1 : received'[i] = p.image[i]
      BY <3>2, <3>4, <3>5, Zenon
    <3> QED
      BY <3>1, <3>4, <3>6
  <2>7. Has(p.image, p.written + 1)'
    BY <1>0, <1>6, <2>5, <2>6 DEF Has, Device!Receive
  <2>8. Heard(u, Decimal[p.id], Some(p.written + 1))
    <3>1. PICK o, r, w, i : o = out /\ r = req /\ w = Some(p.written + 1) /\ i = out.id
      OBVIOUS
    <3>2. o.has_id = TRUE /\ o.id = i /\ toHost[u] = <<>> /\ send_rpc_result(r, o, w)
      BY <1>4, <1>6, <3>1, <2>1, <2>5, <2>6
    <3>3. Heard(u, i, w)
      BY <2>0, <3>2, SuccessHeard
    <3> QED
      BY <2>1, <3>1, <3>3
  <2>9. AcceptedUpTo(u, p.written + 1)'
    BY <1>0, <1>4, <1>6, <2>8 DEF AcceptedUpTo, Accepted, Heard
  <2> QED
    BY <1>0, <1>1, <1>6, <2>7, <2>9 DEF InStep
<1>7. CASE p.at = "end" /\ Underway(u, EndLine(p.id)) /\ Has(p.image, Len(p.image))
  <2> DEFINE line == EndLine(p.id)
             req  == [line |-> line, number |-> client[u].number]
             out  == process_command(line)
  <2>0. Live(u) /\ p.image \in Images /\ p.id \in RequestIds
    BY <1>3, <1>7 DEF Live
  <2>1. out.kind = "call" /\ out.method = "firmware.end" /\ out.has_id = TRUE /\ out.id = Decimal[p.id]
    BY <2>0, ReadsEnd DEF ReadAs
  <2>2. handle_firmware_end(req, out)
    <3> HIDE DEF line
    <3> QED
      BY <1>4, <1>7, <2>1, Dispatch DEF line
  <2> HIDE DEF out, req, line
  <2>3. received = p.image
    BY <1>2, <1>7, <2>0, RpcClientsConstants, SameElements DEF Has
  <2>4. Device!Finish /\ send_rpc_result(req, out, Some(Len(received)))
    BY <1>7, <2>2, <2>3 DEF handle_firmware_end, DriverFails, Has
  <2>5. phase' = "ready"
    BY <2>4 DEF Device!Finish
  <2>6. Heard(u, Decimal[p.id], Some(Len(received)))
    <3>1. PICK o, r, w, i : o = out /\ r = req /\ w = Some(Len(received)) /\ i = out.id
      OBVIOUS
    <3>2. o.has_id = TRUE /\ o.id = i /\ toHost[u] = <<>> /\ send_rpc_result(r, o, w)
      BY <1>4, <1>7, <3>1, <2>1, <2>4
    <3>3. Heard(u, i, w)
      BY <2>0, <3>2, SuccessHeard
    <3> QED
      BY <2>1, <3>1, <3>3
  <2>7. Accepted(u)'
    BY <1>0, <1>4, <1>7, <2>6 DEF Accepted, Heard
  <2> QED
    BY <1>0, <1>1, <1>7, <2>5, <2>7 DEF InStep
<1>8. CASE p.at = "reboot" /\ Underway(u, RebootLine(p.id)) /\ phase = "ready"
  <2> DEFINE line == RebootLine(p.id)
             req  == [line |-> line, number |-> client[u].number]
             out  == process_command(line)
  <2>0. Live(u) /\ p.id \in RequestIds
    BY <1>3, <1>8 DEF Live
  <2>1. out.kind = "call" /\ out.method = "firmware.reboot" /\ out.has_id = TRUE /\ out.id = Decimal[p.id]
    BY <2>0, ReadsEnd DEF ReadAs
  <2>2. handle_reboot(req, out)
    <3> HIDE DEF line
    <3> QED
      BY <1>4, <1>8, <2>1, Dispatch DEF line
  <2> HIDE DEF out, req, line
  <2>3. send_rpc_result(req, out, None)
    BY <1>8, <2>2 DEF handle_reboot, DriverFails
  <2>4. Heard(u, Decimal[p.id], None)
    <3>1. PICK o, r, w, i : o = out /\ r = req /\ w = None /\ i = out.id
      OBVIOUS
    <3>2. o.has_id = TRUE /\ o.id = i /\ toHost[u] = <<>> /\ send_rpc_result(r, o, w)
      BY <1>4, <1>8, <3>1, <2>1, <2>3
    <3>3. Heard(u, i, w)
      BY <2>0, <3>2, SuccessHeard
    <3> QED
      BY <2>1, <3>1, <3>3
  <2>5. Accepted(u)'
    BY <1>0, <1>4, <1>8, <2>4 DEF Accepted, Heard
  <2> QED
    BY <1>0, <1>1, <1>8, <2>5 DEF InStep
<1>9. CASE p.at = "finished"
  BY <1>0, <1>1, <1>9 DEF InStep
<1>10. ~Accepted(u)
  BY <1>0 DEF Accepted
<1> QED
  BY <1>5, <1>6, <1>7, <1>8, <1>9, <1>10 DEF InStep, AcceptedUpTo

(* An updater that takes the answer to its request goes on with the next.  *)
LEMMA UpdaterInStep ==
  ASSUME UpdaterInv, NEW u \in Consoles, InStep(u), TakeAnswer(u)
  PROVE  InStep(u)'
<1> DEFINE r == client[u]
           m == Head(toHost[u])
           p == [r EXCEPT !.foreign = IF m.number = r.number THEN @ ELSE @ \cup {r.at}]
<1>0. /\ Live(u) /\ toHost[u] # <<>> /\ r \in Process /\ r.image \in Images /\ r.id \in RequestIds
      /\ client \in [Consoles -> Process] /\ toHost \in [Consoles -> Seq(Answers)]
      /\ toDevice \in [Consoles -> Seq(Sent)] /\ m = toHost[u][1]
  BY DEF TakeAnswer, UpdaterInv, LiveInv, TypeInv, ChannelTypes
<1>1. \A line : ~Underway(u, line)
  BY <1>0 DEF Underway
<1>2. /\ Accepted(u) /\ toDevice[u] = <<>> /\ m.ok = TRUE /\ m.id = Decimal[r.id]
      /\ \A d \in Consoles \ {u} : toDevice[d] = <<>>
  BY <1>0, <1>1 DEF InStep, AcceptedUpTo, Accepted, Live
<1>3. toHost'[u] = <<>> /\ UNCHANGED session
  BY <1>0, <1>2 DEF TakeAnswer, Accepted
<1>4. /\ p.at = r.at /\ p.number = r.number /\ p.id = r.id /\ p.image = r.image
      /\ p.written = r.written
  BY <1>0 DEF Process
<1>5. r.image \in Seq(0 .. 255) /\ Len(r.image) \in Nat /\ Len(r.image) > 0 /\ r.written \in Nat
  BY <1>0, RpcClientsConstants DEF Process
<1>6. ASSUME NEW q, client' = [client EXCEPT ![u] = q], UNCHANGED toDevice, q.at = "finished"
      PROVE  InStep(u)'
  BY <1>0, <1>2, <1>6 DEF InStep
<1>7. ASSUME NEW line, NEW q, client' = [client EXCEPT ![u] = q], Send(u, q.number, line)
      PROVE  /\ client'[u] = q /\ Underway(u, line)'
             /\ \A d \in Consoles \ {u} : toDevice'[d] = <<>>
  <2>1. client'[u] = q /\ \A d \in Consoles \ {u} : toDevice'[d] = <<>>
    BY <1>0, <1>2, <1>7 DEF Send
  <2>2. toDevice'[u] = <<[line |-> line, number |-> q.number]>>
    BY <1>0, <1>2, <1>7 DEF Send
  <2> QED
    BY <1>3, <2>1, <2>2 DEF Underway
<1>8. PICK image \in Images, id \in RequestIds : image = r.image /\ id = r.id
  BY <1>0
<1>9. ASSUME NEW written \in Nat, written <= Len(image), Has(image, written),
             NextRequest(u, p, written)
      PROVE  InStep(u)'
  <2> DEFINE more == written < Len(image)
  <2>1. PICK q : q = [p EXCEPT !.at = IF more THEN "write" ELSE "end", !.id = id + 1,
                               !.written = written]
    OBVIOUS
  <2>2. /\ q.number = r.number /\ q.image = image /\ q.id = id + 1 /\ q.written = written
        /\ q.at = IF more THEN "write" ELSE "end"
    <3>1. p \in [at : {p.at}, number : {p.number}, id : {p.id}, image : {p.image},
                 written : {p.written}, foreign : {p.foreign}, booted : {p.booted},
                 opener : {p.opener}]
      BY <1>0 DEF Process
    <3> HIDE DEF p, more
    <3> QED
      BY <1>4, <1>8, <2>1, <3>1
  <2>3. /\ client' = [client EXCEPT ![u] = q]
        /\ more => Send(u, q.number, WriteLine(id + 1, image, written))
        /\ ~more => Send(u, q.number, EndLine(id + 1))
    <3> HIDE DEF p, r
    <3> QED
      BY <1>4, <1>8, <1>9, <2>1, <2>2 DEF NextRequest
  <2>4. Has(image, written)'
    BY <1>3, <1>9 DEF Has, session
  <2>5. CASE more
    <3>1. /\ client'[u] = q /\ Underway(u, WriteLine(id + 1, image, written))'
          /\ \A d \in Consoles \ {u} : toDevice'[d] = <<>>
      BY <1>7, <2>3, <2>5
    <3>2. q.at = "write" /\ written < Len(image)
      BY <2>2, <2>5
    <3> QED
      BY <2>2, <2>4, <3>1, <3>2 DEF InStep
  <2>6. CASE ~more
    <3>1. /\ client'[u] = q /\ Underway(u, EndLine(id + 1))'
          /\ \A d \in Consoles \ {u} : toDevice'[d] = <<>>
      BY <1>7, <2>3, <2>6
    <3>2. q.at = "end" /\ written = Len(image)
      BY <1>5, <1>8, <1>9, <2>2, <2>6
    <3> QED
      BY <2>2, <2>4, <3>1, <3>2 DEF InStep
  <2> QED
    BY <2>5, <2>6
<1>10. \/ p.at = "write" /\ m.written = None
       \/ p.at = "begin" /\ NextRequest(u, p, IF m.written = None THEN 0 ELSE m.written[1])
       \/ p.at = "write" /\ m.written # None /\ NextRequest(u, p, m.written[1])
       \/ /\ p.at = "end" /\ UNCHANGED toDevice
          /\ client' = [client EXCEPT ![u] =
               [p EXCEPT !.at = "finished", !.booted = m.boots, !.opener = m.opener]]
       \/ /\ p.at = "end" /\ Send(u, p.number, RebootLine(p.id + 1))
          /\ client' = [client EXCEPT ![u] =
               [p EXCEPT !.at = "reboot", !.id = @ + 1, !.booted = m.boots, !.opener = m.opener]]
       \/ /\ p.at = "reboot" /\ UNCHANGED toDevice
          /\ client' = [client EXCEPT ![u] = [p EXCEPT !.at = "finished"]]
  BY <1>2 DEF TakeAnswer
<1>11. p \in [at : {p.at}, number : {p.number}, id : {p.id}, image : {p.image},
              written : {p.written}, foreign : {p.foreign}, booted : {p.booted},
              opener : {p.opener}]
  BY <1>0 DEF Process
<1>12. \A n : Some(n) # None /\ Some(n)[1] = n
  BY DEF Some, None
<1>13. CASE r.at = "begin"
  <2>1. m.written = Some(0) /\ Has(image, 0)
    BY <1>0, <1>1, <1>8, <1>13 DEF InStep, AcceptedUpTo
  <2>2. NextRequest(u, p, 0)
    <3> HIDE DEF p, m, r
    <3> QED
      BY <1>4, <1>10, <1>12, <1>13, <2>1
  <2> QED
    BY <1>5, <1>8, <1>9, <2>1, <2>2
<1>14. CASE r.at = "write"
  <2>1. PICK n \in Nat : n = r.written + 1
    BY <1>5
  <2>2. m.written = Some(n) /\ Has(image, n) /\ n <= Len(image)
    BY <1>0, <1>1, <1>5, <1>8, <1>14, <2>1 DEF InStep, AcceptedUpTo
  <2>3. NextRequest(u, p, n)
    <3> HIDE DEF p, m, r
    <3> QED
      BY <1>4, <1>10, <1>12, <1>14, <2>2
  <2> QED
    BY <1>9, <2>2, <2>3
<1>15. CASE r.at = "end"
  <2>0. phase' = "ready"
    BY <1>1, <1>3, <1>15 DEF InStep, session
  <2>1. CASE /\ UNCHANGED toDevice
             /\ client' = [client EXCEPT ![u] =
                  [p EXCEPT !.at = "finished", !.booted = m.boots, !.opener = m.opener]]
    <3>1. PICK q : q = [p EXCEPT !.at = "finished", !.booted = m.boots, !.opener = m.opener]
      OBVIOUS
    <3>2. q.at = "finished"
      <4> HIDE DEF p
      <4> QED
        BY <1>11, <3>1
    <3> QED
      BY <1>6, <2>1, <3>1, <3>2
  <2>2. CASE /\ Send(u, p.number, RebootLine(p.id + 1))
             /\ client' = [client EXCEPT ![u] =
                  [p EXCEPT !.at = "reboot", !.id = @ + 1, !.booted = m.boots, !.opener = m.opener]]
    <3>1. PICK q : q = [p EXCEPT !.at = "reboot", !.id = @ + 1, !.booted = m.boots,
                                 !.opener = m.opener]
      OBVIOUS
    <3>2. q.at = "reboot" /\ q.number = p.number /\ q.id = id + 1
      <4> HIDE DEF p
      <4> QED
        BY <1>4, <1>8, <1>11, <3>1
    <3>3. Send(u, q.number, RebootLine(id + 1)) /\ client' = [client EXCEPT ![u] = q]
      BY <1>4, <1>8, <2>2, <3>1, <3>2
    <3>4. /\ client'[u] = q /\ Underway(u, RebootLine(id + 1))'
          /\ \A d \in Consoles \ {u} : toDevice'[d] = <<>>
      BY <1>7, <3>3
    <3> QED
      BY <2>0, <3>2, <3>4 DEF InStep
  <2> HIDE DEF p, m, r
  <2> QED
    BY <1>4, <1>10, <1>15, <2>1, <2>2
<1>16. CASE r.at = "reboot"
  <2>1. PICK q : q = [p EXCEPT !.at = "finished"]
    OBVIOUS
  <2>2. q.at = "finished"
    <3> HIDE DEF p
    <3> QED
      BY <1>11, <2>1
  <2>3. UNCHANGED toDevice /\ client' = [client EXCEPT ![u] = q]
    <3> HIDE DEF p, m, r
    <3> QED
      BY <1>4, <1>10, <1>16, <2>1
  <2> QED
    BY <1>6, <2>2, <2>3
<1> QED
  BY <1>0, <1>13, <1>14, <1>15, <1>16 DEF Live

(* The image of an updater stays the same.                                 *)
LEMMA SameImage ==
  ASSUME UpdaterInv, NEW c \in Consoles, TakeAnswer(c)
  PROVE  client'[c].image = client[c].image
<1>1. client \in [Consoles -> Process] /\ client[c] \in Process
  BY DEF UpdaterInv, TypeInv, ChannelTypes
<1>2. PICK p : p = [client[c] EXCEPT !.foreign =
                     IF Head(toHost[c]).number = client[c].number THEN @ ELSE @ \cup {client[c].at}]
  OBVIOUS
<1>3. /\ p.image = client[c].image
      /\ p \in [at : {p.at}, number : {p.number}, id : {p.id}, image : {p.image},
                 written : {p.written}, foreign : {p.foreign}, booted : {p.booted},
                 opener : {p.opener}]
  BY <1>1, <1>2 DEF Process
<1>4. ASSUME NEW q, q.image = p.image, client' = [client EXCEPT ![c] = q]
      PROVE  client'[c].image = client[c].image
  BY <1>1, <1>3, <1>4
<1>5. ASSUME NEW written, NextRequest(c, p, written) PROVE client'[c].image = client[c].image
  BY <1>3, <1>4, <1>5 DEF NextRequest
<1>6. ASSUME NEW at, client' = [client EXCEPT ![c] = [p EXCEPT !.at = at]]
      PROVE  client'[c].image = client[c].image
  BY <1>3, <1>4, <1>6
<1>7. ASSUME NEW at, NEW id, NEW boots, NEW whose,
             client' = [client EXCEPT ![c] =
               [p EXCEPT !.at = at, !.id = id, !.booted = boots, !.opener = whose]]
      PROVE  client'[c].image = client[c].image
  BY <1>3, <1>4, <1>7
<1>8. ASSUME NEW at, NEW boots, NEW whose,
             client' = [client EXCEPT ![c] =
               [p EXCEPT !.at = at, !.booted = boots, !.opener = whose]]
      PROVE  client'[c].image = client[c].image
  BY <1>3, <1>4, <1>8
<1>9. CASE UNCHANGED client
  BY <1>9
<1>10. PICK m \in {Head(toHost[c])} :
         \/ UNCHANGED client
         \/ \E at \in {"failed", "finished"} : client' = [client EXCEPT ![c] = [p EXCEPT !.at = at]]
         \/ NextRequest(c, p, IF m.written = None THEN 0 ELSE m.written[1])
         \/ NextRequest(c, p, m.written[1])
         \/ client' = [client EXCEPT ![c] =
              [p EXCEPT !.at = "finished", !.booted = m.boots, !.opener = m.opener]]
         \/ client' = [client EXCEPT ![c] =
              [p EXCEPT !.at = "reboot", !.id = @ + 1, !.booted = m.boots, !.opener = m.opener]]
  BY <1>2 DEF TakeAnswer
<1>11. CASE client' = [client EXCEPT ![c] =
              [p EXCEPT !.at = "reboot", !.id = @ + 1, !.booted = m.boots, !.opener = m.opener]]
  BY <1>7, <1>11
<1>12. CASE client' = [client EXCEPT ![c] =
              [p EXCEPT !.at = "finished", !.booted = m.boots, !.opener = m.opener]]
  BY <1>8, <1>12
<1> QED
  BY <1>5, <1>6, <1>9, <1>10, <1>11, <1>12

(* Every step keeps SoloInv.                                               *)
LEMMA StepSolo == UpdaterInv /\ SoloInv /\ [Next]_vars => SoloInv'
<1> SUFFICES ASSUME UpdaterInv, SoloInv, [Next]_vars, ~disturbed' PROVE SoloInv'
  BY DEF SoloInv
<1> DEFINE first == CHOOSE c \in Consoles : TRUE
<1>0. first \in Consoles
  BY RpcClientsConstants
<1> HIDE DEF first
<1>1. /\ ~disturbed
      /\ \/ \E c \in Consoles : ProcessCommand(c) \/ TakeAnswer(c)
         \/ \E c \in Consoles, image \in Images : StartUpdater(c, image)
         \/ TryLine(first)
         \/ UNCHANGED vars
  <2>1. ASSUME NEW c \in Consoles, ClientStep(c)
        PROVE  TakeAnswer(c) \/ \E image \in Images : StartUpdater(c, image)
    BY <2>1 DEF ClientStep, Timeout, SendRequest
  <2>2. ~Restart
    BY DEF Restart
  <2>3. \/ \E c \in Consoles : ProcessCommand(c) \/ TakeAnswer(c)
        \/ \E c \in Consoles, image \in Images : StartUpdater(c, image)
        \/ TryLine(first)
        \/ UNCHANGED vars
    BY <2>1, <2>2 DEF Next, first
  <2>4. ASSUME NEW c \in Consoles, ProcessCommand(c) PROVE ~disturbed
    <3>1. PICK request \in {Head(toDevice[c])},
               outcome \in {process_command(Head(toDevice[c]).line)} : Handled(request, outcome)
      BY <2>4, Processed DEF UpdaterInv
    <3> QED
      BY <3>1 DEF Handled, Told, Tells
  <2>5. ASSUME NEW c \in Consoles, TakeAnswer(c) PROVE ~disturbed
    BY <2>5 DEF TakeAnswer
  <2>6. ASSUME NEW c \in Consoles, NEW image \in Images, StartUpdater(c, image) PROVE ~disturbed
    BY <2>6 DEF StartUpdater
  <2>7. TryLine(first) => ~disturbed
    BY DEF TryLine
  <2>8. UNCHANGED vars => ~disturbed
    BY DEF vars
  <2> QED
    BY <2>3, <2>4, <2>5, <2>6, <2>7, <2>8
<1>2. /\ client \in [Consoles -> Process] /\ toDevice \in [Consoles -> Seq(Sent)]
      /\ toHost \in [Consoles -> Seq(Answers)]
  BY DEF UpdaterInv, TypeInv, ChannelTypes
<1>3. CASE UNCHANGED vars
  BY <1>1, <1>3, ZenonT(60) DEF vars, hostVars, session, SoloInv, InStep, Underway, AcceptedUpTo, Accepted, Has
<1>4. CASE /\ processes = 0 /\ \A c \in Consoles : client[c] = NoProcess
           /\ tried = None => phase = "idle" /\ \A c \in Consoles : toDevice[c] = <<>>
  <2>1. \A c \in Consoles : ~Live(c) /\ ~TakeAnswer(c)
    BY <1>4 DEF Live, NoProcess, TakeAnswer
  <2>2. ASSUME NEW c \in Consoles, ProcessCommand(c) PROVE SoloInv'
    BY <1>4, <2>2 DEF ProcessCommand, hostVars, SoloInv
  <2>3. ASSUME NEW c \in Consoles, NEW image \in Images, StartUpdater(c, image) PROVE SoloInv'
    <3>1. PICK q : q = [NoProcess EXCEPT !.at = "begin", !.number = 1, !.id = 1, !.image = image]
      OBVIOUS
    <3>2. q.at = "begin" /\ q.number = 1 /\ q.id = 1 /\ q.image = image
      BY <3>1 DEF NoProcess
    <3>3. /\ client' = [client EXCEPT ![c] = q] /\ Send(c, 1, BeginLine(image))
          /\ toHost' = [toHost EXCEPT ![c] = <<>>] /\ processes' = 1 /\ phase' = "idle"
          /\ \A d \in Consoles : toDevice[d] = <<>>
      BY <1>4, <2>3, <3>1 DEF StartUpdater, session
    <3>4. client'[c] = q /\ \A d \in Consoles \ {c} : client'[d] = NoProcess
      BY <1>2, <1>4, <3>3
    <3>5. /\ toDevice'[c] = <<[line |-> BeginLine(image), number |-> 1]>> /\ toHost'[c] = <<>>
          /\ \A d \in Consoles \ {c} : toDevice'[d] = <<>>
      <4>1. PICK x : x = [line |-> BeginLine(image), number |-> 1]
        OBVIOUS
      <4>2. toDevice' = [toDevice EXCEPT ![c] = Append(@, x)]
        BY <3>3, <4>1 DEF Send
      <4>3. toDevice'[c] = Append(<<>>, x) /\ \A d \in Consoles \ {c} : toDevice'[d] = <<>>
        BY <1>2, <3>3, <4>2
      <4>4. Append(<<>>, x) = <<x>>
        OBVIOUS
      <4> QED
        BY <1>2, <3>3, <4>1, <4>3, <4>4
    <3>6. Underway(c, BeginLine(image))'
      BY <3>2, <3>4, <3>5 DEF Underway
    <3>7. InStep(c)'
      BY <3>2, <3>3, <3>4, <3>5, <3>6 DEF InStep
    <3> QED
      BY <3>3, <3>4, <3>7 DEF SoloInv
  <2>4. ASSUME TryLine(first) PROVE SoloInv'
    <3>1. tried' # None /\ processes' = 0 /\ client' = client
      BY <1>4, <2>4 DEF TryLine, Some, None
    <3> QED
      BY <1>4, <3>1 DEF SoloInv
  <2> QED
    BY <1>1, <1>3, <2>1, <2>2, <2>3, <2>4
<1>5. ASSUME processes = 1, NEW u \in Consoles, \A d \in Consoles \ {u} : client[d] = NoProcess,
             Len(client[u].image) <= PartitionSize => InStep(u)
      PROVE  SoloInv'
  <2>0. \A d \in Consoles \ {u} : ~Live(d) /\ ~TakeAnswer(d)
    BY <1>5 DEF Live, NoProcess, TakeAnswer
  <2>1. ASSUME NEW c \in Consoles, ProcessCommand(c) PROVE SoloInv'
    <3>1. client' = client /\ processes' = 1
      BY <1>5, <2>1 DEF ProcessCommand, hostVars
    <3>2. ASSUME Len(client[u].image) <= PartitionSize PROVE InStep(u)'
      <4>1. InStep(u)
        BY <1>5, <3>2
      <4>2. c = u
        BY <2>1, <4>1 DEF InStep, ProcessCommand
      <4> QED
        BY <2>1, <3>2, <4>1, <4>2, DeviceInStep
    <3> QED
      BY <1>5, <3>1, <3>2 DEF SoloInv
  <2>2. ASSUME TakeAnswer(u) PROVE SoloInv'
    <3>1. /\ processes' = 1 /\ client'[u].image = client[u].image
          /\ \A d \in Consoles \ {u} : client'[d] = client[d]
      <4>1. processes' = 1
        BY <1>5, <2>2 DEF TakeAnswer
      <4>2. \A d \in Consoles \ {u} : client'[d] = client[d]
        BY <1>2, <2>2 DEF TakeAnswer, NextRequest
      <4>3. client'[u].image = client[u].image
        BY <2>2, SameImage
      <4> QED
        BY <4>1, <4>2, <4>3
    <3>2. Len(client[u].image) <= PartitionSize => InStep(u)'
      BY <1>5, <2>2, UpdaterInStep
    <3> QED
      BY <1>5, <3>1, <3>2 DEF SoloInv
  <2>3. ASSUME NEW c \in Consoles, NEW image \in Images, StartUpdater(c, image) PROVE FALSE
    <3>1. processes > 0
      BY <1>5
    <3> QED
      BY <2>3, <3>1 DEF StartUpdater
  <2>4. ~TryLine(first)
    BY <1>5 DEF TryLine
  <2> QED
    BY <1>1, <1>3, <2>0, <2>1, <2>2, <2>3, <2>4
<1> QED
  BY <1>1, <1>4, <1>5 DEF SoloInv

(* For any consoles and images: an updater that nothing disturbs, and      *)
(* whose image fits, never fails, and never waits in vain.                 *)
THEOREM Undisturbed == Spec => []UndisturbedUpdateProceeds
<1>1. Init => SoloInv
  BY DEF Init, SoloInv, Device!Init
<1>2. UpdaterInv /\ SoloInv => UndisturbedUpdateProceeds
  <2> SUFFICES ASSUME SoloInv, ~disturbed, NEW c \in Consoles,
                      Len(client[c].image) <= PartitionSize
               PROVE  /\ client[c].at # "failed"
                      /\ Live(c) => Len(toDevice[c]) + Len(toHost[c]) = 1
    BY DEF UndisturbedUpdateProceeds
  <2>1. CASE client[c] = NoProcess
    BY <2>1 DEF NoProcess, Live
  <2>2. CASE InStep(c)
    <3>1. ASSUME NEW line, Underway(c, line) PROVE Len(toDevice[c]) + Len(toHost[c]) = 1
      BY <3>1 DEF Underway
    <3>2. ASSUME Accepted(c) PROVE Len(toDevice[c]) + Len(toHost[c]) = 1
      BY <3>2 DEF Accepted
    <3> QED
      BY <2>2, <3>1, <3>2 DEF InStep, Live, AcceptedUpTo
  <2> QED
    BY <2>1, <2>2 DEF SoloInv
<1> QED
  BY <1>1, <1>2, InitUpdater, StepUpdater, StepSolo, PTL DEF Spec
=============================================================================
