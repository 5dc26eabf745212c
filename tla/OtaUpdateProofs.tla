--------------------------- MODULE OtaUpdateProofs --------------------------
(* For any number of consoles, interleaved in any way on the unlocked      *)
(* s_ota, any images and any restarts: the running firmware is not touched.*)
(* For one console: no incomplete image is ever booted, a failed chunk can *)
(* be resumed, no handle leaks, a cancel is honoured, and the steps        *)
(* implement OtaSession.                                                   *)
EXTENDS OtaUpdate, SequenceTheorems, TLAPS

USE OtaUpdateConstants

(* RunningImageIntact with what it needs.  The boot partition need not     *)
(* hold a complete image here: two consoles can see to that; but then the  *)
(* bootloader falls back to the one that runs.                             *)
IInv ==
  /\ running \in Partitions /\ boot \in Partitions
  /\ DOMAIN flash = Partitions
  /\ flash = [p \in Partitions |-> flash[p]]
  /\ s_ota = [f \in DOMAIN Zeroed |-> s_ota[f]]
  /\ s_ota.partition \in Partitions \cup {"none"}
  /\ RunningImageIntact

(* The factory image runs.                                                 *)
LEMMA InitIInv == Init => IInv
BY DEF Init, RamInit, IInv, RunningImageIntact, Partitions, Zeroed

(* The driver hands out the partition that does not run.                   *)
LEMMA NextPartitionIdle ==
  ASSUME running \in Partitions
  PROVE  /\ esp_ota_get_next_update_partition \in Partitions
         /\ esp_ota_get_next_update_partition # running
BY DEF esp_ota_get_next_update_partition, Partitions

(* Steps that leave flash and boot data alone.                             *)
LEMMA QuietIInv ==
  ASSUME IInv, UNCHANGED <<flash, running, boot>>,
         \/ UNCHANGED s_ota
         \/ s_ota' = Zeroed
         \/ s_ota' = [f \in DOMAIN Zeroed |-> s_ota'[f]]
            /\ s_ota'.partition \in Partitions \cup {"none"}
  PROVE  IInv'
BY DEF IInv, RunningImageIntact, Zeroed

(* The checks and the driver calls of begin.                               *)
LEMMA BeginIInv ==
  ASSUME IInv, NEW c \in Consoles,
         \/ \E size \in 1 .. PartitionSize, sha256 \in Images : Begin(c, size, sha256)
         \/ OtaBegin(c) \/ BeginStore(c)
  PROVE  IInv'
<1>1. CASE \E size \in 1 .. PartitionSize, sha256 \in Images : Begin(c, size, sha256)
  BY <1>1, QuietIInv DEF Begin, flashVars
<1>2. CASE OtaBegin(c)
  BY <1>2, QuietIInv DEF OtaBegin
<1>3. CASE BeginStore(c)
  <2>1. esp_ota_get_next_update_partition \in Partitions
    BY NextPartitionIdle DEF IInv
  <2>2. /\ s_ota' = [f \in DOMAIN Zeroed |-> s_ota'[f]]
        /\ s_ota'.partition \in Partitions \cup {"none"}
    BY <1>3, <2>1 DEF BeginStore, Zeroed
  <2> QED
    BY <1>3, <2>2, QuietIInv DEF BeginStore, flashVars
<1> QED
  BY <1>1, <1>2, <1>3

(* Writing goes to the partition that does not run.                        *)
LEMMA WriteIInv ==
  ASSUME IInv, NEW c \in Consoles,
         \/ \E offset \in 0 .. PartitionSize, chunk \in Chunks : Write(c, offset, chunk)
         \/ OtaWrite(c) \/ WriteCount(c)
  PROVE  IInv'
<1>1. CASE \E offset \in 0 .. PartitionSize, chunk \in Chunks : Write(c, offset, chunk)
  BY <1>1, QuietIInv DEF Write, flashVars
<1>2. CASE OtaWrite(c)
  <2>1. CASE UNCHANGED flash
    BY <1>2, <2>1, QuietIInv DEF OtaWrite
  <2>2. CASE esp_ota_write(s_ota.handle, arg[c].chunk)
    <3> DEFINE p == esp_ota_get_next_update_partition
    <3>1. p \in Partitions /\ p # running
      BY NextPartitionIdle DEF IInv
    <3>2. PICK content : flash' = [flash EXCEPT ![p] = content]
      BY <2>2 DEF esp_ota_write
    <3> HIDE DEF p
    <3>3. flash'[running] = flash[running] /\ DOMAIN flash' = Partitions
          /\ flash' = [q \in Partitions |-> flash'[q]]
      BY <3>1, <3>2 DEF IInv
    <3> QED
      BY <1>2, <3>3 DEF OtaWrite, IInv, RunningImageIntact
  <2> QED
    BY <1>2, <2>1, <2>2 DEF OtaWrite
<1>3. CASE WriteCount(c)
  <2>1. /\ s_ota' = [f \in DOMAIN Zeroed |-> s_ota'[f]]
        /\ s_ota'.partition \in Partitions \cup {"none"}
    BY <1>3 DEF WriteCount, IInv, Zeroed
  <2> QED
    BY <1>3, <2>1, QuietIInv DEF WriteCount, flashVars
<1> QED
  BY <1>1, <1>2, <1>3

(* Finishing may switch the boot partition, to one of the two.             *)
LEMMA EndIInv ==
  ASSUME IInv, NEW c \in Consoles,
         End(c) \/ EndSha256(c) \/ OtaEnd(c) \/ SetBootPartition(c) \/ EndDone(c)
  PROVE  IInv'
<1>1. CASE End(c)
  BY <1>1, QuietIInv DEF End, flashVars
<1>2. CASE EndSha256(c)
  <2>1. CASE s_ota' = [s_ota EXCEPT !.sha256_ctx = <<>>]
    <3>1. /\ s_ota' = [f \in DOMAIN Zeroed |-> s_ota'[f]]
          /\ s_ota'.partition \in Partitions \cup {"none"}
      BY <2>1 DEF IInv, Zeroed
    <3> QED
      BY <1>2, <3>1, QuietIInv DEF EndSha256
  <2>2. CASE s_ota' = Zeroed
    BY <1>2, <2>2, QuietIInv DEF EndSha256
  <2> QED
    BY <1>2, <2>1, <2>2 DEF EndSha256, AbortActiveUpdate
<1>3. CASE OtaEnd(c)
  BY <1>3, QuietIInv DEF OtaEnd, AbortActiveUpdate
<1>4. CASE SetBootPartition(c)
  BY <1>4 DEF SetBootPartition, IInv, RunningImageIntact, Zeroed
<1>5. CASE EndDone(c)
  <2>1. /\ s_ota' = [f \in DOMAIN Zeroed |-> s_ota'[f]]
        /\ s_ota'.partition \in Partitions \cup {"none"}
    BY <1>5 DEF EndDone, IInv, Zeroed
  <2> QED
    BY <1>5, <2>1, QuietIInv DEF EndDone, flashVars
<1> QED
  BY <1>1, <1>2, <1>3, <1>4, <1>5

(* Cancelling and asking for a reboot.                                     *)
LEMMA CancelIInv ==
  ASSUME IInv, NEW c \in Consoles,
         CancelActive(c) \/ CancelPending(c) \/ CancelDone(c) \/ Reboot(c) \/ DeviceReset(c)
  PROVE  IInv'
<1>1. CASE CancelActive(c)
  BY <1>1, QuietIInv DEF CancelActive, AbortActiveUpdate
<1>2. CASE CancelPending(c)
  BY <1>2 DEF CancelPending, IInv, RunningImageIntact
<1>3. CASE CancelDone(c)
  BY <1>3, QuietIInv DEF CancelDone, flashVars
<1>4. CASE Reboot(c)
  BY <1>4, QuietIInv DEF Reboot, flashVars
<1>5. CASE DeviceReset(c)
  BY <1>5, QuietIInv DEF DeviceReset, flashVars
<1> QED
  BY <1>1, <1>2, <1>3, <1>4, <1>5

(* A restart boots a complete image: the boot partition's, or else that of *)
(* the other partition, which is then the one that ran.                    *)
LEMMA RestartIInv ==
  ASSUME IInv, Restart
  PROVE  IInv'
<1> DEFINE fallback == CHOOSE p \in Partitions : p # boot
           booted   == IF flash[boot] \in Images THEN boot ELSE fallback
<1>1. fallback \in Partitions /\ fallback # boot
  BY DEF Partitions, IInv
<1>2. flash[boot] \notin Images => fallback = running
  BY <1>1 DEF IInv, RunningImageIntact, Partitions
<1>3. booted \in Partitions /\ flash[booted] \in Images
  BY <1>1, <1>2 DEF IInv, RunningImageIntact
<1>4. running' = booted /\ boot' = booted /\ s_ota' = Zeroed /\ flash' = flash
  BY DEF Restart
<1> QED
  BY <1>3, <1>4 DEF IInv, RunningImageIntact, Zeroed

(* Every step keeps the invariant.                                         *)
LEMMA StepIInv == IInv /\ [Next]_vars => IInv'
<1> SUFFICES ASSUME IInv, [Next]_vars PROVE IInv'
  OBVIOUS
<1>1. CASE Next
  BY <1>1, BeginIInv, WriteIInv, EndIInv, CancelIInv, RestartIInv DEF Next
<1>2. CASE UNCHANGED vars
  BY <1>2, QuietIInv DEF vars, flashVars
<1> QED
  BY <1>1, <1>2

(* However many consoles run firmware commands at once on the unlocked     *)
(* s_ota, and wherever the device restarts, the firmware that is running   *)
(* stays a complete image.                                                 *)
THEOREM RunningImage == Spec => []RunningImageIntact
<1>1. Init => IInv
  BY InitIInv
<1>2. IInv /\ [Next]_vars => IInv'
  BY StepIInv
<1>3. IInv => RunningImageIntact
  BY DEF IInv
<1> QED
  BY <1>1, <1>2, <1>3, PTL DEF Spec

-----------------------------------------------------------------------------
(* One console.  Other is the partition an update goes to.                 *)
Other == esp_ota_get_next_update_partition

Sessions ==
  [active : BOOLEAN, pending_reboot : BOOLEAN, handle : Nat,
   partition : Partitions \cup {"none"}, expected_size : Nat, written : Nat,
   expected_sha256 : Seq(Chunks), sha256_ctx : Seq(Chunks)]

Args == [size : Nat, sha256 : Seq(Chunks), chunk : Seq(Chunks), handle : Nat]

Beginning == {"ota_begin", "begin_store"}
Writing   == {"ota_write", "write_count"}
Ending    == {"end_sha256", "ota_end", "set_boot", "end_done"}
Labels    == {"idle", "cancel_done"} \cup Beginning \cup Writing \cup Ending

SessionTypes ==
  /\ s_ota \in Sessions
  /\ pc \in [Consoles -> Labels]
  /\ arg \in [Consoles -> Args]
  /\ flash \in [Partitions -> Seq(Chunks)]
  /\ wrote \in Seq(Nat \cup {Closed})
  /\ running \in Partitions /\ boot \in Partitions
  /\ flash[running] \in Images

(* Which session each step of a command finds, when nobody else runs one.  *)
PlaceInv(c) ==
  /\ pc[c] \in Beginning =>
       ~s_ota.active /\ ~s_ota.pending_reboot /\ arg[c].size > 0 /\ arg[c].sha256 \in Images
  /\ pc[c] \in Writing =>
       Len(arg[c].chunk) = 1 /\ s_ota.active /\ s_ota.written < s_ota.expected_size
  /\ pc[c] \in Ending => s_ota.active /\ s_ota.written = s_ota.expected_size
  /\ pc[c] = "cancel_done" => s_ota.pending_reboot
  /\ s_ota.active => ~s_ota.pending_reboot

(* Chunks that reached the flash through the session's handle.             *)
Stored(c) == s_ota.written + (IF pc[c] = "write_count" THEN 1 ELSE 0)

(* The open handle is the session's, or is about to become it.             *)
HandleInv(c) ==
  /\ s_ota.active /\ pc[c] \notin {"set_boot", "end_done"} =>
       s_ota.handle \in DOMAIN wrote /\ wrote[s_ota.handle] = Stored(c)
  /\ pc[c] = "begin_store" => arg[c].handle \in DOMAIN wrote /\ wrote[arg[c].handle] = 0
  /\ \A h \in DOMAIN wrote :
       wrote[h] # Closed =>
         \/ s_ota.active /\ pc[c] \notin {"set_boot", "end_done"} /\ s_ota.handle = h
         \/ pc[c] = "begin_store" /\ arg[c].handle = h

(* The digest's input is what lies in the flash, until the digest matched; *)
(* from then on the whole image does.                                      *)
Checked(c) == s_ota.pending_reboot \/ pc[c] \in {"ota_end", "set_boot", "end_done"}

ContentInv(c) ==
  /\ s_ota.active \/ s_ota.pending_reboot =>
       /\ s_ota.partition = Other
       /\ s_ota.expected_sha256 \in Images
       /\ s_ota.expected_size > 0
       /\ s_ota.written <= s_ota.expected_size
  /\ s_ota.active /\ ~Checked(c) =>
       /\ Len(s_ota.sha256_ctx) = s_ota.written
       /\ Stored(c) <= Len(flash[Other])
       /\ Stored(c) > 0 => Len(flash[Other]) = Stored(c)
       /\ \A i \in 1 .. s_ota.written : flash[Other][i] = s_ota.sha256_ctx[i]
       /\ pc[c] = "write_count" => flash[Other][Stored(c)] = arg[c].chunk[1]
  /\ Checked(c) =>
       flash[Other] = s_ota.expected_sha256 /\ Len(flash[Other]) = s_ota.written

(* The next boot changes only with a finished update.                      *)
BootInv(c) ==
  /\ boot # running <=> \/ s_ota.pending_reboot /\ pc[c] # "cancel_done"
                        \/ pc[c] = "end_done"
  /\ cancelled => ~s_ota.active /\ ~s_ota.pending_reboot

(* The invariant, for the one console there is.                            *)
OneInv(c) == SessionTypes /\ PlaceInv(c) /\ HandleInv(c) /\ ContentInv(c) /\ BootInv(c)

(* Nothing announced and nothing begun are an argument and a session.      *)
LEMMA EmptyTypes ==
  /\ NoArg \in Args
  /\ Zeroed \in Sessions /\ Zeroed.active = FALSE /\ Zeroed.pending_reboot = FALSE
  /\ Zeroed.written = 0 /\ Zeroed.sha256_ctx = <<>>
BY DEF NoArg, Args, NoHandle, Zeroed, Sessions

(* A device that has just started, with what lies in its flash.            *)
LEMMA FreshOneInv ==
  ASSUME NEW c, Consoles = {c},
         s_ota = Zeroed, pc = [d \in Consoles |-> "idle"], arg = [d \in Consoles |-> NoArg],
         wrote = <<>>, flash \in [Partitions -> Seq(Chunks)],
         running \in Partitions, boot = running, flash[running] \in Images, cancelled = FALSE
  PROVE  OneInv(c)
<1>1. SessionTypes
  BY DEF SessionTypes, Zeroed, NoArg, Sessions, Args, Labels, NoHandle
<1>2. pc[c] = "idle" /\ ~s_ota.active /\ ~s_ota.pending_reboot /\ DOMAIN wrote = {}
  BY DEF Zeroed
<1>3. PlaceInv(c) /\ HandleInv(c) /\ ContentInv(c) /\ BootInv(c)
  BY <1>2 DEF PlaceInv, HandleInv, ContentInv, BootInv, Checked, Beginning, Writing, Ending
<1> QED
  BY <1>1, <1>3 DEF OneInv

(* Factory firmware and an empty second partition.                         *)
LEMMA InitOneInv ==
  ASSUME NEW c, Consoles = {c}, Init
  PROVE  OneInv(c)
<1>1. flash \in [Partitions -> Seq(Chunks)] /\ flash[running] \in Images
      /\ running \in Partitions /\ boot = running
  BY DEF Init, Partitions
<1> QED
  BY <1>1, FreshOneInv DEF Init, RamInit

(* A command that passes its checks has touched nothing but pc and arg.    *)
LEMMA ChecksOneInv ==
  ASSUME NEW c, Consoles = {c}, OneInv(c),
         \/ \E size \in 1 .. PartitionSize, sha256 \in Images : Begin(c, size, sha256)
         \/ \E offset \in 0 .. PartitionSize, chunk \in Chunks : Write(c, offset, chunk)
         \/ End(c) \/ Reboot(c) \/ DeviceReset(c)
  PROVE  OneInv(c)'
<1> USE DEF OneInv
<1>1. CASE \E size \in 1 .. PartitionSize, sha256 \in Images : Begin(c, size, sha256)
  <2>1. PICK size \in 1 .. PartitionSize, sha256 \in Images : Begin(c, size, sha256)
    BY <1>1
  <2>2. /\ pc[c] = "idle" /\ pc'[c] = "ota_begin" /\ pc' \in [Consoles -> Labels]
        /\ arg'[c].size = size /\ arg'[c].sha256 = sha256 /\ arg' \in [Consoles -> Args]
        /\ ~s_ota.active /\ ~s_ota.pending_reboot
        /\ UNCHANGED <<s_ota, flash, wrote, running, boot, cancelled>>
    <3>0. size \in Nat /\ sha256 \in Seq(Chunks)
      OBVIOUS
    <3>1. [NoArg EXCEPT !.size = size, !.sha256 = sha256] \in Args
      BY <3>0, EmptyTypes DEF Args
    <3>2. /\ [NoArg EXCEPT !.size = size, !.sha256 = sha256].size = size
          /\ [NoArg EXCEPT !.size = size, !.sha256 = sha256].sha256 = sha256
      BY EmptyTypes DEF Args
    <3> QED
      BY <2>1, <3>1, <3>2 DEF Begin, Goto, SessionTypes, Labels, Beginning, flashVars
  <2>3. SessionTypes'
    BY <2>2 DEF SessionTypes
  <2>4. PlaceInv(c)' /\ BootInv(c)'
    BY <2>2 DEF PlaceInv, BootInv, Beginning, Writing, Ending
  <2>5. HandleInv(c)'
    BY <2>2 DEF HandleInv
  <2>6. ContentInv(c)'
    BY <2>2 DEF ContentInv, Checked
  <2> QED
    BY <2>3, <2>4, <2>5, <2>6
<1>2. CASE \E offset \in 0 .. PartitionSize, chunk \in Chunks : Write(c, offset, chunk)
  <2>1. PICK offset \in 0 .. PartitionSize, chunk \in Chunks : Write(c, offset, chunk)
    BY <1>2
  <2>2. /\ pc[c] = "idle" /\ pc'[c] = "ota_write" /\ pc' \in [Consoles -> Labels]
        /\ Len(arg'[c].chunk) = 1 /\ arg' \in [Consoles -> Args]
        /\ s_ota.active /\ s_ota.written < s_ota.expected_size
        /\ UNCHANGED <<s_ota, flash, wrote, running, boot, cancelled>>
    <3> DEFINE piece == <<chunk>>
    <3>1. piece \in Seq(Chunks) /\ Len(piece) = 1
      OBVIOUS
    <3>2. arg' = [arg EXCEPT ![c] = [NoArg EXCEPT !.chunk = piece]]
      BY <2>1 DEF Write
    <3> HIDE DEF piece
    <3>3. [NoArg EXCEPT !.chunk = piece] \in Args /\ [NoArg EXCEPT !.chunk = piece].chunk = piece
      BY <3>1, EmptyTypes DEF Args
    <3>4. s_ota.written \in Nat /\ s_ota.expected_size \in Nat
      BY DEF SessionTypes, Sessions
    <3>5. Len(arg'[c].chunk) = 1 /\ arg' \in [Consoles -> Args]
      BY <3>1, <3>2, <3>3 DEF SessionTypes
    <3> QED
      BY <2>1, <3>4, <3>5 DEF Write, Goto, SessionTypes, Labels, Writing, flashVars
  <2>3. SessionTypes'
    BY <2>2 DEF SessionTypes
  <2>4. PlaceInv(c)' /\ BootInv(c)'
    BY <2>2 DEF PlaceInv, BootInv, Beginning, Writing, Ending
  <2>5. HandleInv(c)'
    BY <2>2 DEF HandleInv, Stored
  <2>6. ContentInv(c)'
    BY <2>2 DEF ContentInv, Checked, Stored, Other, esp_ota_get_next_update_partition
  <2> QED
    BY <2>3, <2>4, <2>5, <2>6
<1>3. CASE End(c)
  <2>2. /\ pc[c] = "idle" /\ pc'[c] = "end_sha256" /\ pc' \in [Consoles -> Labels]
        /\ s_ota.active /\ s_ota.written = s_ota.expected_size
        /\ UNCHANGED <<s_ota, arg, flash, wrote, running, boot, cancelled>>
    BY <1>3 DEF End, Goto, SessionTypes, Labels, Ending, flashVars
  <2>3. SessionTypes'
    BY <2>2 DEF SessionTypes
  <2>4. PlaceInv(c)' /\ BootInv(c)'
    BY <2>2 DEF PlaceInv, BootInv, Beginning, Writing, Ending
  <2>5. HandleInv(c)'
    BY <2>2 DEF HandleInv, Stored
  <2>6. ContentInv(c)'
    BY <2>2 DEF ContentInv, Checked, Stored, Other, esp_ota_get_next_update_partition
  <2> QED
    BY <2>3, <2>4, <2>5, <2>6
<1>4. CASE Reboot(c) \/ DeviceReset(c)
  <2>1. UNCHANGED <<s_ota, pc, arg, flash, wrote, running, boot, cancelled>>
    BY <1>4 DEF Reboot, DeviceReset, flashVars
  <2>2. SessionTypes' /\ PlaceInv(c)' /\ BootInv(c)'
    BY <2>1 DEF SessionTypes, PlaceInv, BootInv
  <2>3. HandleInv(c)'
    BY <2>1 DEF HandleInv, Stored
  <2>4. ContentInv(c)'
    BY <2>1 DEF ContentInv, Checked, Stored, Other, esp_ota_get_next_update_partition
  <2> QED
    BY <2>2, <2>3, <2>4
<1> QED
  BY <1>1, <1>2, <1>3, <1>4

(* A restart boots a complete image, so its session starts afresh.         *)
LEMMA RestartOneInv ==
  ASSUME NEW c, Consoles = {c}, OneInv(c), Restart
  PROVE  OneInv(c)'
<1> DEFINE fallback == CHOOSE p \in Partitions : p # boot
           booted   == IF flash[boot] \in Images THEN boot ELSE fallback
<1>1. fallback \in Partitions /\ fallback # boot
  BY DEF Partitions, OneInv, SessionTypes
<1>2. flash[boot] \notin Images => fallback = running
  BY <1>1 DEF OneInv, SessionTypes, Partitions
<1>3. booted \in Partitions /\ flash[booted] \in Images
  BY <1>1, <1>2 DEF OneInv, SessionTypes
<1>4. /\ running' = booted /\ boot' = booted /\ s_ota' = Zeroed /\ flash' = flash
      /\ pc' = [d \in Consoles |-> "idle"] /\ arg' = [d \in Consoles |-> NoArg]
      /\ wrote' = <<>> /\ cancelled' = FALSE
  BY DEF Restart
<1> HIDE DEF booted
<1>5. SessionTypes'
  BY <1>3, <1>4, EmptyTypes DEF OneInv, SessionTypes, Labels
<1>6. pc'[c] = "idle" /\ ~s_ota'.active /\ ~s_ota'.pending_reboot /\ DOMAIN wrote' = {}
      /\ boot' = running' /\ cancelled' = FALSE
  BY <1>4, EmptyTypes
<1>7. PlaceInv(c)' /\ HandleInv(c)' /\ ContentInv(c)' /\ BootInv(c)'
  BY <1>6 DEF PlaceInv, HandleInv, ContentInv, BootInv, Checked, Beginning, Writing, Ending
<1> QED
  BY <1>5, <1>7 DEF OneInv

(* A command returns with no session: every handle must be closed and the  *)
(* device boot what it runs.                                               *)
LEMMA ForgottenOneInv ==
  ASSUME NEW c, Consoles = {c}, OneInv(c),
         s_ota' = Zeroed, pc'[c] = "idle", pc' \in [Consoles -> Labels],
         arg' \in [Consoles -> Args], UNCHANGED <<flash, running>>, boot' = running,
         wrote' \in Seq(Nat \cup {Closed}), \A h \in DOMAIN wrote' : wrote'[h] = Closed
  PROVE  OneInv(c)'
<1>1. SessionTypes'
  BY EmptyTypes DEF OneInv, SessionTypes
<1>2. ~s_ota'.active /\ ~s_ota'.pending_reboot
  BY EmptyTypes
<1>3. PlaceInv(c)' /\ HandleInv(c)' /\ ContentInv(c)' /\ BootInv(c)'
  BY <1>2 DEF PlaceInv, HandleInv, ContentInv, BootInv, Checked, Beginning, Writing, Ending
<1> QED
  BY <1>1, <1>3 DEF OneInv

(* A command returns.                                                      *)
LEMMA Returned ==
  ASSUME NEW c, Consoles = {c}, SessionTypes, Return(c)
  PROVE  /\ pc'[c] = "idle" /\ pc' \in [Consoles -> Labels]
         /\ arg'[c] = NoArg /\ arg' \in [Consoles -> Args]
BY EmptyTypes DEF Return, Goto, SessionTypes, Labels

(* Aborting closes the only handle that can be open.                       *)
LEMMA AbortCloses ==
  ASSUME NEW c, OneInv(c), s_ota.active, AbortActiveUpdate
  PROVE  /\ s_ota' = Zeroed
         /\ wrote' \in Seq(Nat \cup {Closed})
         /\ \A h \in DOMAIN wrote' : wrote'[h] = Closed
<1>1. s_ota' = Zeroed /\ wrote' = Close(s_ota.handle)
  BY DEF AbortActiveUpdate
<1>2. wrote \in Seq(Nat \cup {Closed}) /\ Closed \in Nat \cup {Closed}
  BY DEF OneInv, SessionTypes
<1>3. pc[c] # "begin_store"
  BY DEF OneInv, PlaceInv, Beginning
<1>4. \A h \in DOMAIN wrote : wrote[h] # Closed => s_ota.handle = h
  BY <1>3 DEF OneInv, HandleInv
<1>5. CASE s_ota.handle \in DOMAIN wrote
  <2>1. wrote' = [wrote EXCEPT ![s_ota.handle] = Closed]
    BY <1>1, <1>5 DEF Close
  <2>2. wrote' \in Seq(Nat \cup {Closed}) /\ DOMAIN wrote' = DOMAIN wrote
    BY <1>2, <1>5, <2>1
  <2> QED
    BY <1>1, <1>4, <2>1, <2>2
<1>6. CASE s_ota.handle \notin DOMAIN wrote
  BY <1>1, <1>2, <1>4, <1>6 DEF Close
<1> QED
  BY <1>5, <1>6

(* Whatever gives an update up before the boot partition is set, or takes  *)
(* a finished one back.                                                    *)
LEMMA DiscardOneInv ==
  ASSUME NEW c, Consoles = {c}, OneInv(c),
         \/ CancelActive(c) \/ CancelDone(c)
         \/ EndSha256(c) /\ s_ota.sha256_ctx # s_ota.expected_sha256
         \/ OtaEnd(c) /\ AbortActiveUpdate /\ Return(c)
         \/ SetBootPartition(c) /\ s_ota' = Zeroed /\ Return(c) /\ UNCHANGED boot
  PROVE  OneInv(c)'
<1> USE DEF OneInv
<1>1. CASE CancelActive(c)
  <2>1. /\ s_ota.active /\ pc[c] = "idle" /\ AbortActiveUpdate
        /\ UNCHANGED <<pc, arg, flash, running, boot>>
    BY <1>1 DEF CancelActive
  <2>2. boot = running
    BY <2>1 DEF PlaceInv, BootInv
  <2> QED
    BY <2>1, <2>2, AbortCloses, ForgottenOneInv DEF SessionTypes
<1>2. CASE CancelDone(c)
  <2>1. /\ s_ota.pending_reboot /\ pc[c] = "cancel_done" /\ s_ota' = Zeroed /\ Return(c)
        /\ UNCHANGED <<flash, wrote, running, boot>>
    BY <1>2 DEF CancelDone, PlaceInv, flashVars
  <2>2. boot = running /\ ~s_ota.active
    BY <2>1 DEF PlaceInv, BootInv
  <2>3. \A h \in DOMAIN wrote : wrote[h] = Closed
    BY <2>1, <2>2 DEF HandleInv
  <2> QED
    BY <2>1, <2>2, <2>3, Returned, ForgottenOneInv DEF SessionTypes
<1>3. CASE EndSha256(c) /\ s_ota.sha256_ctx # s_ota.expected_sha256
  <2>1. /\ pc[c] = "end_sha256" /\ AbortActiveUpdate /\ Return(c)
        /\ UNCHANGED <<flash, running, boot>>
    BY <1>3 DEF EndSha256
  <2>2. boot = running /\ s_ota.active
    BY <2>1 DEF PlaceInv, BootInv, Ending
  <2> QED
    BY <2>1, <2>2, AbortCloses, Returned, ForgottenOneInv
<1>4. CASE OtaEnd(c) /\ AbortActiveUpdate /\ Return(c)
  <2>1. pc[c] = "ota_end" /\ UNCHANGED <<flash, running, boot>>
    BY <1>4 DEF OtaEnd
  <2>2. boot = running /\ s_ota.active
    BY <2>1 DEF PlaceInv, BootInv, Ending
  <2> QED
    BY <1>4, <2>1, <2>2, AbortCloses, Returned, ForgottenOneInv
<1>5. CASE SetBootPartition(c) /\ s_ota' = Zeroed /\ Return(c) /\ UNCHANGED boot
  <2>1. pc[c] = "set_boot" /\ UNCHANGED <<flash, wrote, running, boot>>
    BY <1>5 DEF SetBootPartition
  <2>2. boot = running
    BY <2>1 DEF PlaceInv, BootInv, Ending
  <2>3. \A h \in DOMAIN wrote : wrote[h] = Closed
    BY <2>1 DEF HandleInv
  <2> QED
    BY <1>5, <2>1, <2>2, <2>3, Returned, ForgottenOneInv DEF SessionTypes
<1> QED
  BY <1>1, <1>2, <1>3, <1>4, <1>5

(* The driver gives begin a handle, or begin fails.                        *)
LEMMA OtaBeginOneInv ==
  ASSUME NEW c, Consoles = {c}, OneInv(c), OtaBegin(c)
  PROVE  OneInv(c)'
<1> USE DEF OneInv
<1>1. /\ pc[c] = "ota_begin" /\ UNCHANGED <<s_ota, flash, running, boot, cancelled>>
      /\ ~s_ota.active /\ ~s_ota.pending_reboot
  BY DEF OtaBegin, PlaceInv, Beginning
<1>2. \A h \in DOMAIN wrote : wrote[h] = Closed
  BY <1>1 DEF HandleInv
<1>3. CASE UNCHANGED wrote /\ Return(c)
  <2>1. /\ pc'[c] = "idle" /\ pc' \in [Consoles -> Labels] /\ arg' \in [Consoles -> Args]
    BY <1>3, Returned
  <2>2. SessionTypes'
    BY <1>1, <1>3, <2>1 DEF SessionTypes
  <2>3. PlaceInv(c)' /\ BootInv(c)'
    BY <1>1, <2>1 DEF PlaceInv, BootInv, Beginning, Writing, Ending
  <2>4. HandleInv(c)' /\ ContentInv(c)'
    BY <1>1, <1>2, <1>3, <2>1 DEF HandleInv, ContentInv, Checked
  <2> QED
    BY <2>2, <2>3, <2>4
<1>4. CASE wrote' = Append(wrote, 0) /\ Goto(c, "begin_store")
           /\ arg' = [arg EXCEPT ![c].handle = Len(wrote) + 1]
  <2>1. /\ wrote \in Seq(Nat \cup {Closed}) /\ Len(wrote) + 1 \in Nat
        /\ 0 \in Nat \cup {Closed}
    BY DEF SessionTypes
  <2>2. /\ wrote' \in Seq(Nat \cup {Closed}) /\ Len(wrote') = Len(wrote) + 1
        /\ wrote'[Len(wrote) + 1] = 0
        /\ \A h \in 1 .. Len(wrote) : wrote'[h] = wrote[h]
    BY <1>4, <2>1
  <2>3. /\ pc'[c] = "begin_store" /\ pc' \in [Consoles -> Labels]
        /\ arg' \in [Consoles -> Args] /\ arg'[c].handle = Len(wrote) + 1
        /\ arg'[c].size = arg[c].size /\ arg'[c].sha256 = arg[c].sha256
    BY <1>4, <2>1 DEF Goto, SessionTypes, Labels, Beginning, Args
  <2>4. SessionTypes'
    BY <1>1, <2>2, <2>3 DEF SessionTypes
  <2>5. PlaceInv(c)' /\ BootInv(c)'
    BY <1>1, <2>3 DEF PlaceInv, BootInv, Beginning, Writing, Ending
  <2>6. DOMAIN wrote = 1 .. Len(wrote) /\ DOMAIN wrote' = 1 .. Len(wrote) + 1
        /\ Len(wrote) \in Nat
    BY <2>1, <2>2
  <2>7. \A h \in DOMAIN wrote' : wrote'[h] # Closed => h = Len(wrote) + 1
    BY <1>2, <2>2, <2>6
  <2>8. HandleInv(c)'
    BY <1>1, <2>2, <2>3, <2>6, <2>7 DEF HandleInv
  <2>9. ContentInv(c)'
    BY <1>1, <2>3 DEF ContentInv, Checked
  <2> QED
    BY <2>4, <2>5, <2>8, <2>9
<1> QED
  BY <1>3, <1>4 DEF OtaBegin

(* The new session takes the handle over, with nothing written.            *)
LEMMA BeginStoreOneInv ==
  ASSUME NEW c, Consoles = {c}, OneInv(c), BeginStore(c)
  PROVE  OneInv(c)'
<1> USE DEF OneInv
<1>1. /\ pc[c] = "begin_store" /\ UNCHANGED <<flash, wrote, running, boot>> /\ Return(c)
      /\ ~s_ota.active /\ ~s_ota.pending_reboot /\ cancelled' = FALSE
      /\ arg[c].size > 0 /\ arg[c].sha256 \in Images
  BY DEF BeginStore, PlaceInv, Beginning, flashVars
<1>2. arg[c] \in Args /\ arg[c].handle \in Nat /\ arg[c].size \in Nat
      /\ arg[c].sha256 \in Seq(Chunks)
  BY DEF SessionTypes, Args
<1>3. Other \in Partitions
  BY NextPartitionIdle DEF SessionTypes, Other
<1>4. s_ota' = [active |-> TRUE, pending_reboot |-> FALSE, handle |-> arg[c].handle,
                partition |-> Other, expected_size |-> arg[c].size, written |-> 0,
                expected_sha256 |-> arg[c].sha256, sha256_ctx |-> <<>>]
  BY DEF BeginStore, Zeroed, Other
<1>5. /\ s_ota' \in Sessions /\ s_ota'.active /\ ~s_ota'.pending_reboot
      /\ s_ota'.handle = arg[c].handle /\ s_ota'.partition = Other
      /\ s_ota'.expected_size = arg[c].size /\ s_ota'.written = 0
      /\ s_ota'.expected_sha256 = arg[c].sha256 /\ Len(s_ota'.sha256_ctx) = 0
  BY <1>2, <1>3, <1>4 DEF Sessions
<1>6. pc'[c] = "idle" /\ pc' \in [Consoles -> Labels] /\ arg' \in [Consoles -> Args]
  BY <1>1, Returned
<1>7. SessionTypes'
  BY <1>1, <1>5, <1>6 DEF SessionTypes
<1>8. PlaceInv(c)' /\ BootInv(c)'
  BY <1>1, <1>5, <1>6 DEF PlaceInv, BootInv, Beginning, Writing, Ending
<1>9. HandleInv(c)'
  BY <1>1, <1>5, <1>6 DEF HandleInv, Stored
<1>10. ContentInv(c)'
  <2>1. Other' = Other
    BY <1>1 DEF Other, esp_ota_get_next_update_partition
  <2>2. flash[Other] \in Seq(Chunks) /\ Len(flash[Other]) \in Nat
    BY <1>3 DEF SessionTypes
  <2> QED
    BY <1>1, <1>2, <1>5, <1>6, <2>1, <2>2 DEF ContentInv, Checked, Stored
<1> QED
  BY <1>7, <1>8, <1>9, <1>10

(* One chunk behind others.                                                *)
LEMMA OneMore ==
  ASSUME NEW s \in Seq(Chunks), NEW t \in Seq(Chunks), Len(t) = 1
  PROVE  /\ s \o t \in Seq(Chunks) /\ Len(s \o t) = Len(s) + 1
         /\ \A i \in 1 .. Len(s) : (s \o t)[i] = s[i]
         /\ (s \o t)[Len(s) + 1] = t[1]
<1>1. Len(s) \in Nat
  OBVIOUS
<1>2. /\ s \o t \in Seq(Chunks) /\ Len(s \o t) = Len(s) + Len(t)
      /\ \A i \in 1 .. Len(s) + Len(t) :
           (s \o t)[i] = IF i <= Len(s) THEN s[i] ELSE t[i - Len(s)]
  BY ConcatProperties
<1>3. Len(s) + 1 \in 1 .. Len(s) + Len(t) /\ Len(s) + 1 - Len(s) = 1
      /\ ~(Len(s) + 1 <= Len(s))
  BY <1>1
<1>4. (s \o t)[Len(s) + 1] = t[1]
  BY <1>2, <1>3
<1> QED
  BY <1>1, <1>2, <1>4

(* A chunk goes behind the chunks counted so far, or nothing changes.      *)
LEMMA OtaWriteOneInv ==
  ASSUME NEW c, Consoles = {c}, OneInv(c), OtaWrite(c)
  PROVE  OneInv(c)'
<1> USE DEF OneInv
<1>1. /\ pc[c] = "ota_write" /\ UNCHANGED <<s_ota, running, boot, cancelled>>
      /\ s_ota.active /\ ~s_ota.pending_reboot
      /\ s_ota.written < s_ota.expected_size /\ Len(arg[c].chunk) = 1
  BY DEF OtaWrite, PlaceInv, Writing
<1>2. Other' = Other /\ Other \in Partitions /\ Other # running
  BY <1>1, NextPartitionIdle DEF Other, esp_ota_get_next_update_partition, SessionTypes
<1>3. CASE UNCHANGED <<flash, wrote>> /\ Return(c)
  <2>1. pc'[c] = "idle" /\ pc' \in [Consoles -> Labels] /\ arg' \in [Consoles -> Args]
    BY <1>3, Returned
  <2>2. SessionTypes'
    BY <1>1, <1>3, <2>1 DEF SessionTypes
  <2>3. PlaceInv(c)' /\ BootInv(c)'
    BY <1>1, <2>1 DEF PlaceInv, BootInv, Beginning, Writing, Ending
  <2>4. HandleInv(c)'
    BY <1>1, <1>3, <2>1 DEF HandleInv, Stored
  <2>5. ContentInv(c)'
    BY <1>1, <1>2, <1>3, <2>1 DEF ContentInv, Checked, Stored
  <2> QED
    BY <2>2, <2>3, <2>4, <2>5
<1>4. CASE esp_ota_write(s_ota.handle, arg[c].chunk) /\ Goto(c, "write_count")
           /\ UNCHANGED arg
  <2> DEFINE n == s_ota.written
             h == s_ota.handle
             old == flash[Other]
  <2>1. /\ n \in Nat /\ h \in DOMAIN wrote /\ wrote[h] = n
        /\ wrote \in Seq(Nat \cup {Closed})
    BY <1>1 DEF SessionTypes, Sessions, HandleInv, Stored
  <2>2. /\ old \in Seq(Chunks) /\ Len(old) \in Nat /\ n <= Len(old)
        /\ Len(s_ota.sha256_ctx) = n
        /\ \A i \in 1 .. n : old[i] = s_ota.sha256_ctx[i]
    BY <1>1, <1>2, <2>1 DEF SessionTypes, ContentInv, Checked, Stored
  <2>3. arg[c].chunk \in Seq(Chunks)
    BY DEF SessionTypes, Args
  <2>4. (IF wrote[h] < Len(old) THEN wrote[h] ELSE Len(old)) = n
    BY <2>1, <2>2
  <2>5. /\ flash' = [flash EXCEPT ![Other] = SubSeq(old, 1, n) \o arg[c].chunk]
        /\ wrote' = [wrote EXCEPT ![h] = wrote[h] + 1]
    BY <1>4, <2>4 DEF esp_ota_write, Other
  <2> DEFINE piece == arg[c].chunk
             kept == SubSeq(old, 1, n)
             new == kept \o piece
  <2> HIDE DEF n, h, old, piece
  <2>6. /\ kept \in Seq(Chunks) /\ Len(kept) = n
        /\ \A i \in 1 .. n : kept[i] = old[i]
    BY <2>1, <2>2
  <2> HIDE DEF kept
  <2>7. /\ new \in Seq(Chunks) /\ Len(new) = n + 1
        /\ \A i \in 1 .. n : new[i] = old[i]
        /\ new[n + 1] = piece[1]
    <3>1. piece \in Seq(Chunks) /\ Len(piece) = 1
      BY <1>1, <2>3 DEF piece
    <3> QED
      BY <2>6, <3>1, OneMore
  <2> HIDE DEF new
  <2>8. /\ flash' \in [Partitions -> Seq(Chunks)] /\ flash'[Other] = new
        /\ flash'[running] = flash[running]
    BY <1>2, <2>5, <2>7 DEF SessionTypes, new, kept, piece, n, old
  <2>9. /\ wrote' \in Seq(Nat \cup {Closed}) /\ DOMAIN wrote' = DOMAIN wrote
        /\ wrote'[h] = n + 1
        /\ \A k \in DOMAIN wrote : k # h => wrote'[k] = wrote[k]
    BY <2>1, <2>5
  <2>10. pc'[c] = "write_count" /\ pc' \in [Consoles -> Labels] /\ arg' = arg
    BY <1>4 DEF Goto, SessionTypes, Labels, Writing
  <2>11. SessionTypes'
    BY <1>1, <2>8, <2>9, <2>10 DEF SessionTypes
  <2>12. PlaceInv(c)' /\ BootInv(c)'
    BY <1>1, <2>10 DEF PlaceInv, BootInv, Beginning, Writing, Ending
  <2>13. HandleInv(c)'
    BY <1>1, <2>1, <2>9, <2>10 DEF HandleInv, Stored, h, n
  <2>14. ContentInv(c)'
    <3>1. Stored(c)' = n + 1 /\ ~Checked(c)' /\ Len(flash'[Other]) = n + 1
      BY <1>1, <2>7, <2>8, <2>10 DEF Stored, Checked, n
    <3>2. /\ flash'[Other][n + 1] = arg'[c].chunk[1]
          /\ \A i \in 1 .. n : flash'[Other][i] = s_ota'.sha256_ctx[i]
      BY <1>1, <2>2, <2>7, <2>8, <2>10 DEF piece
    <3>3. /\ s_ota'.partition = Other /\ s_ota'.expected_sha256 \in Images
          /\ s_ota'.expected_size > 0 /\ s_ota'.written <= s_ota'.expected_size
      BY <1>1 DEF ContentInv
    <3> QED
      <4>1. s_ota'.written = n /\ Len(s_ota'.sha256_ctx) = n /\ n + 1 > 0 /\ n + 1 <= n + 1
        BY <1>1, <2>1, <2>2 DEF n
      <4> HIDE DEF n
      <4> QED
        BY <1>2, <3>1, <3>2, <3>3, <4>1 DEF ContentInv
  <2> QED
    BY <2>11, <2>12, <2>13, <2>14
<1> QED
  BY <1>3, <1>4 DEF OtaWrite

(* Count and digest follow the flash.                                      *)
LEMMA WriteCountOneInv ==
  ASSUME NEW c, Consoles = {c}, OneInv(c), WriteCount(c)
  PROVE  OneInv(c)'
<1> USE DEF OneInv
<1> DEFINE n == s_ota.written
           ctx == s_ota.sha256_ctx
           piece == arg[c].chunk
<1>1. /\ pc[c] = "write_count" /\ UNCHANGED <<flash, wrote, running, boot, cancelled>>
      /\ s_ota.active /\ ~s_ota.pending_reboot /\ n < s_ota.expected_size /\ Len(piece) = 1
      /\ Return(c)
  BY DEF WriteCount, PlaceInv, Writing, flashVars
<1>2. Other' = Other
  BY <1>1 DEF Other, esp_ota_get_next_update_partition
<1>3. /\ s_ota \in Sessions /\ n \in Nat /\ s_ota.expected_size \in Nat
      /\ ctx \in Seq(Chunks) /\ piece \in Seq(Chunks)
  BY DEF SessionTypes, Sessions, Args
<1>4. pc'[c] = "idle" /\ pc' \in [Consoles -> Labels] /\ arg' \in [Consoles -> Args]
  BY <1>1, Returned
<1>5. /\ Len(ctx) = n /\ Len(flash[Other]) = n + 1
      /\ \A i \in 1 .. n : flash[Other][i] = ctx[i]
      /\ flash[Other][n + 1] = piece[1]
      /\ s_ota.partition = Other /\ s_ota.expected_sha256 \in Images
      /\ s_ota.expected_size > 0
  BY <1>1, <1>3 DEF ContentInv, Checked, Stored
<1> DEFINE more == ctx \o piece
<1>6. /\ more \in Seq(Chunks) /\ Len(more) = n + 1
      /\ \A i \in 1 .. n : more[i] = ctx[i]
      /\ more[n + 1] = piece[1]
  <2> HIDE DEF ctx, piece, n
  <2> QED
    BY <1>1, <1>3, <1>5, OneMore
<1>7. s_ota' = [s_ota EXCEPT !.sha256_ctx = more, !.written = n + 1]
  BY DEF WriteCount
<1>0. n + 1 \in Nat
  BY <1>3
<1> HIDE DEF more, piece, ctx, n
<1>8. /\ s_ota' \in Sessions /\ s_ota'.sha256_ctx = more /\ s_ota'.written = n + 1
      /\ s_ota'.active /\ ~s_ota'.pending_reboot
      /\ s_ota'.handle = s_ota.handle /\ s_ota'.partition = s_ota.partition
      /\ s_ota'.expected_size = s_ota.expected_size
      /\ s_ota'.expected_sha256 = s_ota.expected_sha256
  BY <1>0, <1>1, <1>3, <1>6, <1>7 DEF Sessions
<1>9. SessionTypes'
  BY <1>1, <1>4, <1>8 DEF SessionTypes
<1>10. PlaceInv(c)' /\ BootInv(c)'
  BY <1>1, <1>4, <1>8 DEF PlaceInv, BootInv, Beginning, Writing, Ending
<1>11. HandleInv(c)'
  BY <1>1, <1>3, <1>4, <1>8 DEF HandleInv, Stored, n
<1>12. ContentInv(c)'
  <2>1. Stored(c)' = n + 1 /\ ~Checked(c)'
    BY <1>3, <1>4, <1>8 DEF Stored, Checked
  <2>2. \A i \in 1 .. n + 1 : flash[Other][i] = more[i]
    BY <1>3, <1>5, <1>6, SMTT(60)
  <2> QED
    BY <1>1, <1>2, <1>3, <1>4, <1>5, <1>6, <1>8, <2>1, <2>2 DEF ContentInv
<1> QED
  BY <1>9, <1>10, <1>11, <1>12

(* The digest matches: what lies in the flash is the announced image.      *)
LEMMA EndSha256OneInv ==
  ASSUME NEW c, Consoles = {c}, OneInv(c), EndSha256(c),
         s_ota.sha256_ctx = s_ota.expected_sha256
  PROVE  OneInv(c)'
<1> USE DEF OneInv
<1>1. /\ pc[c] = "end_sha256" /\ s_ota.active /\ ~s_ota.pending_reboot
      /\ s_ota.written = s_ota.expected_size
      /\ s_ota' = [s_ota EXCEPT !.sha256_ctx = <<>>] /\ Goto(c, "ota_end")
      /\ UNCHANGED <<arg, flash, wrote, running, boot, cancelled>>
  BY DEF EndSha256, PlaceInv, Ending
<1>2. Other' = Other /\ Other \in Partitions
  BY <1>1, NextPartitionIdle DEF Other, esp_ota_get_next_update_partition, SessionTypes
<1>3. pc'[c] = "ota_end" /\ pc' \in [Consoles -> Labels]
  BY <1>1 DEF Goto, SessionTypes, Labels, Ending
<1>4. /\ s_ota \in Sessions /\ s_ota.written \in Nat
      /\ s_ota.sha256_ctx \in Seq(Chunks) /\ flash[Other] \in Seq(Chunks)
  BY <1>2 DEF SessionTypes, Sessions
<1>5. /\ s_ota' \in Sessions /\ s_ota'.active /\ ~s_ota'.pending_reboot
      /\ s_ota'.handle = s_ota.handle /\ s_ota'.partition = s_ota.partition
      /\ s_ota'.written = s_ota.written /\ s_ota'.expected_size = s_ota.expected_size
      /\ s_ota'.expected_sha256 = s_ota.expected_sha256
  <2> DEFINE none == <<>>
  <2>1. none \in Seq(Chunks) /\ s_ota' = [s_ota EXCEPT !.sha256_ctx = none]
    BY <1>1
  <2> HIDE DEF none
  <2> QED
    BY <1>1, <1>4, <2>1 DEF Sessions
<1>6. /\ Len(s_ota.sha256_ctx) = s_ota.written /\ Len(flash[Other]) = s_ota.written
      /\ \A i \in 1 .. s_ota.written : flash[Other][i] = s_ota.sha256_ctx[i]
      /\ s_ota.partition = Other /\ s_ota.expected_sha256 \in Images
      /\ s_ota.expected_size > 0 /\ s_ota.written <= s_ota.expected_size
  BY <1>1, <1>4 DEF ContentInv, Checked, Stored
<1>7. flash[Other] = s_ota.expected_sha256
  <2>1. flash[Other] = s_ota.sha256_ctx
    BY <1>4, <1>6, SeqEqual
  <2> QED
    BY <2>1
<1>8. SessionTypes'
  BY <1>1, <1>3, <1>5 DEF SessionTypes
<1>9. PlaceInv(c)' /\ BootInv(c)'
  BY <1>1, <1>3, <1>5 DEF PlaceInv, BootInv, Beginning, Writing, Ending
<1>10. HandleInv(c)'
  BY <1>1, <1>3, <1>5 DEF HandleInv, Stored
<1>11. ContentInv(c)'
  BY <1>1, <1>2, <1>3, <1>5, <1>6, <1>7 DEF ContentInv, Checked
<1> QED
  BY <1>8, <1>9, <1>10, <1>11

(* ESP-IDF accepts the image and closes the handle.                        *)
LEMMA OtaEndOneInv ==
  ASSUME NEW c, Consoles = {c}, OneInv(c), OtaEnd(c),
         wrote' = Close(s_ota.handle), Goto(c, "set_boot"), UNCHANGED <<s_ota, arg>>
  PROVE  OneInv(c)'
<1> USE DEF OneInv
<1>1. /\ pc[c] = "ota_end" /\ s_ota.active /\ ~s_ota.pending_reboot
      /\ UNCHANGED <<flash, running, boot, cancelled>>
  BY DEF OtaEnd, PlaceInv, Ending
<1>2. Other' = Other
  BY <1>1 DEF Other, esp_ota_get_next_update_partition
<1>3. pc'[c] = "set_boot" /\ pc' \in [Consoles -> Labels]
  BY DEF Goto, SessionTypes, Labels, Ending
<1>4. wrote \in Seq(Nat \cup {Closed}) /\ s_ota.handle \in DOMAIN wrote
      /\ Closed \in Nat \cup {Closed}
  BY <1>1 DEF HandleInv, SessionTypes
<1>5. wrote' = [wrote EXCEPT ![s_ota.handle] = Closed]
  BY <1>4 DEF Close
<1>6. wrote' \in Seq(Nat \cup {Closed}) /\ DOMAIN wrote' = DOMAIN wrote
  BY <1>4, <1>5
<1>7. \A h \in DOMAIN wrote' : wrote'[h] = Closed
  BY <1>1, <1>5, <1>6 DEF HandleInv
<1>8. SessionTypes'
  BY <1>1, <1>3, <1>6 DEF SessionTypes
<1>9. PlaceInv(c)' /\ BootInv(c)'
  BY <1>1, <1>3 DEF PlaceInv, BootInv, Beginning, Writing, Ending
<1>10. HandleInv(c)'
  BY <1>3, <1>7 DEF HandleInv
<1>11. ContentInv(c)'
  BY <1>1, <1>2, <1>3 DEF ContentInv, Checked
<1> QED
  BY <1>8, <1>9, <1>10, <1>11

(* The next boot is the update, which is complete.                         *)
LEMMA SetBootOneInv ==
  ASSUME NEW c, Consoles = {c}, OneInv(c), SetBootPartition(c),
         boot' = s_ota.partition, Goto(c, "end_done"), UNCHANGED <<s_ota, arg>>
  PROVE  OneInv(c)'
<1> USE DEF OneInv
<1>1. /\ pc[c] = "set_boot" /\ s_ota.active /\ ~s_ota.pending_reboot
      /\ UNCHANGED <<flash, wrote, running, cancelled>> /\ s_ota.partition = Other
  BY DEF SetBootPartition, PlaceInv, Ending, ContentInv
<1>2. Other' = Other /\ Other \in Partitions /\ Other # running
  BY <1>1, NextPartitionIdle DEF Other, esp_ota_get_next_update_partition, SessionTypes
<1>3. pc'[c] = "end_done" /\ pc' \in [Consoles -> Labels]
  BY DEF Goto, SessionTypes, Labels, Ending
<1>4. SessionTypes'
  BY <1>1, <1>2, <1>3 DEF SessionTypes
<1>5. PlaceInv(c)' /\ BootInv(c)'
  BY <1>1, <1>2, <1>3 DEF PlaceInv, BootInv, Beginning, Writing, Ending
<1>6. HandleInv(c)'
  BY <1>1, <1>3 DEF HandleInv
<1>7. ContentInv(c)'
  BY <1>1, <1>2, <1>3 DEF ContentInv, Checked
<1> QED
  BY <1>4, <1>5, <1>6, <1>7

(* The update waits for its reboot.                                        *)
LEMMA EndDoneOneInv ==
  ASSUME NEW c, Consoles = {c}, OneInv(c), EndDone(c)
  PROVE  OneInv(c)'
<1> USE DEF OneInv
<1>1. /\ pc[c] = "end_done" /\ s_ota.active /\ ~s_ota.pending_reboot /\ Return(c)
      /\ UNCHANGED <<flash, wrote, running, boot, cancelled>>
      /\ s_ota' = [s_ota EXCEPT !.pending_reboot = TRUE, !.active = FALSE]
  BY DEF EndDone, PlaceInv, Ending, flashVars
<1>2. Other' = Other
  BY <1>1 DEF Other, esp_ota_get_next_update_partition
<1>3. pc'[c] = "idle" /\ pc' \in [Consoles -> Labels] /\ arg' \in [Consoles -> Args]
  BY <1>1, Returned
<1>4. /\ s_ota' \in Sessions /\ ~s_ota'.active /\ s_ota'.pending_reboot
      /\ s_ota'.partition = s_ota.partition
      /\ s_ota'.written = s_ota.written /\ s_ota'.expected_size = s_ota.expected_size
      /\ s_ota'.expected_sha256 = s_ota.expected_sha256
  BY <1>1 DEF SessionTypes, Sessions
<1>5. SessionTypes'
  BY <1>1, <1>3, <1>4 DEF SessionTypes
<1>6. PlaceInv(c)' /\ BootInv(c)'
  BY <1>1, <1>3, <1>4 DEF PlaceInv, BootInv, Beginning, Writing, Ending
<1>7. HandleInv(c)'
  BY <1>1, <1>3, <1>4 DEF HandleInv
<1>8. ContentInv(c)'
  BY <1>1, <1>2, <1>3, <1>4 DEF ContentInv, Checked
<1> QED
  BY <1>5, <1>6, <1>7, <1>8

(* Taking a finished update back begins with the boot partition.           *)
LEMMA CancelPendingOneInv ==
  ASSUME NEW c, Consoles = {c}, OneInv(c), CancelPending(c)
  PROVE  OneInv(c)'
<1> USE DEF OneInv
<1>1. /\ pc[c] = "idle" /\ ~s_ota.active /\ s_ota.pending_reboot /\ boot' = running
      /\ UNCHANGED <<s_ota, arg, flash, wrote, running, cancelled>>
      /\ pc'[c] = "cancel_done" /\ pc' \in [Consoles -> Labels]
  BY DEF CancelPending, Goto, SessionTypes, Labels
<1>2. Other' = Other
  BY <1>1 DEF Other, esp_ota_get_next_update_partition
<1>3. SessionTypes'
  BY <1>1 DEF SessionTypes
<1>4. PlaceInv(c)' /\ BootInv(c)'
  BY <1>1 DEF PlaceInv, BootInv, Beginning, Writing, Ending
<1>5. HandleInv(c)'
  BY <1>1 DEF HandleInv
<1>6. ContentInv(c)'
  BY <1>1, <1>2 DEF ContentInv, Checked
<1> QED
  BY <1>3, <1>4, <1>5, <1>6

(* Every step of a device with one console keeps the invariant.            *)
LEMMA StepOneInv ==
  ASSUME NEW c, Consoles = {c}, OneInv(c), [Next]_vars
  PROVE  OneInv(c)'
<1>1. CASE UNCHANGED vars
  <2>1. UNCHANGED <<s_ota, pc, arg, flash, wrote, running, boot, cancelled>>
    BY <1>1 DEF vars, flashVars
  <2>2. SessionTypes' /\ PlaceInv(c)' /\ BootInv(c)'
    BY <2>1 DEF OneInv, SessionTypes, PlaceInv, BootInv
  <2>3. HandleInv(c)'
    BY <2>1 DEF OneInv, HandleInv, Stored
  <2>4. ContentInv(c)'
    BY <2>1 DEF OneInv, ContentInv, Checked, Stored, Other, esp_ota_get_next_update_partition
  <2> QED
    BY <2>2, <2>3, <2>4 DEF OneInv
<1>2. CASE Restart
  BY <1>2, RestartOneInv
<1>3. ASSUME NEW d \in Consoles, 
             \/ \E size \in 1 .. PartitionSize, sha256 \in Images : Begin(d, size, sha256)
             \/ \E offset \in 0 .. PartitionSize, chunk \in Chunks : Write(d, offset, chunk)
             \/ End(d) \/ Reboot(d) \/ DeviceReset(d)
      PROVE  OneInv(c)'
  BY <1>3, ChecksOneInv
<1>4. ASSUME NEW d \in Consoles,
             OtaBegin(d) \/ BeginStore(d) \/ OtaWrite(d) \/ WriteCount(d) \/ EndDone(d)
             \/ CancelPending(d)
      PROVE  OneInv(c)'
  BY <1>4, OtaBeginOneInv, BeginStoreOneInv, OtaWriteOneInv, WriteCountOneInv, EndDoneOneInv,
     CancelPendingOneInv
<1>5. ASSUME NEW d \in Consoles, CancelActive(d) \/ CancelDone(d)
      PROVE  OneInv(c)'
  BY <1>5, DiscardOneInv
<1>6. ASSUME NEW d \in Consoles, EndSha256(d)
      PROVE  OneInv(c)'
  BY <1>6, DiscardOneInv, EndSha256OneInv
<1>7. ASSUME NEW d \in Consoles, OtaEnd(d)
      PROVE  OneInv(c)'
  BY <1>7, DiscardOneInv, OtaEndOneInv DEF OtaEnd
<1>8. ASSUME NEW d \in Consoles, SetBootPartition(d)
      PROVE  OneInv(c)'
  BY <1>8, DiscardOneInv, SetBootOneInv DEF SetBootPartition
<1> QED
  BY <1>1, <1>2, <1>3, <1>4, <1>5, <1>6, <1>7, <1>8 DEF Next

(* The invariant holds throughout.                                         *)
LEMMA OneAlways ==
  ASSUME NEW c, Consoles = {c}
  PROVE  Spec => []OneInv(c)
<1>1. Init => OneInv(c)
  BY InitOneInv
<1>2. OneInv(c) /\ [Next]_vars => OneInv(c)'
  BY StepOneInv
<1> QED
  BY <1>1, <1>2, PTL DEF Spec

(* A restart at any point finds a complete image in the boot partition: it *)
(* is switched only after the digest matched, and meb_ota_update_begin     *)
(* refuses until a finished update has been booted or taken back.          *)
THEOREM BootImage ==
  ASSUME NEW c, Consoles = {c}
  PROVE  Spec => []BootImageComplete
<1>1. OneInv(c) => BootImageComplete
  <2> SUFFICES ASSUME OneInv(c) PROVE flash[boot] \in Images
    BY DEF BootImageComplete
  <2>1. CASE boot = running
    BY <2>1 DEF OneInv, SessionTypes
  <2>2. CASE boot # running
    <3>1. boot = Other
      BY <2>2, NextPartitionIdle DEF OneInv, SessionTypes, Partitions, Other
    <3>2. Checked(c) /\ (s_ota.active \/ s_ota.pending_reboot)
      BY <2>2 DEF OneInv, BootInv, Checked, PlaceInv, Ending
    <3> QED
      BY <3>1, <3>2 DEF OneInv, ContentInv
  <2> QED
    BY <2>1, <2>2
<1> QED
  BY <1>1, OneAlways, PTL

(* A beginning of the flash content that agrees with what was hashed.      *)
LEMMA HashedPrefix ==
  ASSUME NEW f \in Seq(Chunks), NEW x \in Seq(Chunks), NEW n \in Nat, Len(x) = n,
         n <= Len(f), \A i \in 1 .. n : f[i] = x[i]
  PROVE  SubSeq(f, 1, n) = x
<1>1. /\ SubSeq(f, 1, n) \in Seq(Chunks) /\ Len(SubSeq(f, 1, n)) = n
      /\ \A i \in 1 .. n : SubSeq(f, 1, n)[i] = f[i]
  OBVIOUS
<1> QED
  BY <1>1, SeqEqual

(* Between commands an active update's flash, digest and count agree, so   *)
(* that resuming at the returned written offset is right whatever failed.  *)
THEOREM ResumePoint ==
  ASSUME NEW c, Consoles = {c}
  PROVE  Spec => []ResumePointAgrees
<1>1. OneInv(c) => ResumePointAgrees
  <2> SUFFICES ASSUME OneInv(c), s_ota.active, pc[c] = "idle"
               PROVE  /\ Open(s_ota.handle)
                      /\ wrote[s_ota.handle] = s_ota.written
                      /\ s_ota.written <= s_ota.expected_size
                      /\ s_ota.sha256_ctx = SubSeq(flash[s_ota.partition], 1, s_ota.written)
    BY DEF ResumePointAgrees
  <2>1. /\ s_ota.written \in Nat /\ s_ota.sha256_ctx \in Seq(Chunks)
        /\ flash \in [Partitions -> Seq(Chunks)] /\ Other \in Partitions
    BY NextPartitionIdle DEF OneInv, SessionTypes, Sessions, Other
  <2>2. s_ota.handle \in DOMAIN wrote /\ wrote[s_ota.handle] = s_ota.written
    BY <2>1 DEF OneInv, HandleInv, Stored
  <2>3. ~Checked(c) /\ Stored(c) = s_ota.written
    BY <2>1 DEF OneInv, PlaceInv, Checked, Stored
  <2>4. /\ s_ota.partition = Other /\ s_ota.written <= s_ota.expected_size
        /\ Len(s_ota.sha256_ctx) = s_ota.written /\ s_ota.written <= Len(flash[Other])
        /\ \A i \in 1 .. s_ota.written : flash[Other][i] = s_ota.sha256_ctx[i]
    BY <2>3 DEF OneInv, ContentInv
  <2>5. SubSeq(flash[Other], 1, s_ota.written) = s_ota.sha256_ctx
    BY <2>1, <2>4, HashedPrefix
  <2> QED
    BY <2>1, <2>2, <2>4, <2>5 DEF Open, Closed
<1> QED
  BY <1>1, OneAlways, PTL

(* No path through begin, end and cancel, failed driver calls included,    *)
(* forgets a handle the driver has given out.                              *)
THEOREM HandlesReturned ==
  ASSUME NEW c, Consoles = {c}
  PROVE  Spec => []NoHandleLeaks
<1>1. OneInv(c) => NoHandleLeaks
  BY DEF OneInv, HandleInv, NoHandleLeaks
<1> QED
  BY <1>1, OneAlways, PTL

(* What two consoles break, one keeps: after a firmware.cancel and until   *)
(* the next firmware.begin the device boots what it runs.                  *)
THEOREM CancelKept ==
  ASSUME NEW c, Consoles = {c}
  PROVE  Spec => []CancelHonoured
<1>1. OneInv(c) => CancelHonoured
  BY DEF OneInv, BootInv, PlaceInv, Ending, CancelHonoured
<1> QED
  BY <1>1, OneAlways, PTL

-----------------------------------------------------------------------------
(* One console implements OtaSession.                                      *)

(* The mapping, for the one console there is.                              *)
LEMMA Mapped ==
  ASSUME NEW c, Consoles = {c}
  PROVE  /\ InSession <=> (s_ota.active \/ s_ota.pending_reboot) /\ pc[c] # "cancel_done"
         /\ Finishing <=> pc[c] = "end_done"
BY DEF InSession, Finishing, TakingBack

(* The same after a step.                                                  *)
LEMMA MappedNext ==
  ASSUME NEW c, Consoles = {c}
  PROVE  /\ InSession' <=> (s_ota'.active \/ s_ota'.pending_reboot) /\ pc'[c] # "cancel_done"
         /\ Finishing' <=> pc'[c] = "end_done"
BY DEF InSession, Finishing, TakingBack

(* With no session before and none after, nothing is seen but the target.  *)
LEMMA OutsideStutters ==
  ASSUME ~InSession, ~InSession', (boot = running) <=> (boot' = running')
  PROVE  UNCHANGED Session!vars
BY DEF Session!vars, Phase, Size, Digest, Received, Target

(* Within a session, a step that is not seen.                              *)
LEMMA InsideStutters ==
  ASSUME InSession, InSession',
         s_ota'.pending_reboot \/ Finishing' <=> s_ota.pending_reboot \/ Finishing,
         s_ota'.expected_size = s_ota.expected_size,
         s_ota'.expected_sha256 = s_ota.expected_sha256,
         SubSeq(flash'[s_ota'.partition], 1, s_ota'.written)
           = SubSeq(flash[s_ota.partition], 1, s_ota.written),
         UNCHANGED <<boot, running>>
  PROVE  UNCHANGED Session!vars
BY DEF Session!vars, Phase, Size, Digest, Received, Target

(* A session is given up or taken back.                                    *)
LEMMA Discards ==
  ASSUME InSession, ~InSession', boot' = running'
  PROVE  Session!Discard
BY DEF Session!Discard, Session!Cleared, Phase, Size, Digest, Received, Target

(* Checks and the driver's begin: nothing to be seen.                      *)
LEMMA QuietSession ==
  ASSUME NEW c, Consoles = {c}, OneInv(c),
         \/ \E size \in 1 .. PartitionSize, sha256 \in Images : Begin(c, size, sha256)
         \/ \E offset \in 0 .. PartitionSize, chunk \in Chunks : Write(c, offset, chunk)
         \/ End(c) \/ Reboot(c) \/ DeviceReset(c) \/ OtaBegin(c)
  PROVE  UNCHANGED Session!vars
<1>1. /\ UNCHANGED <<s_ota, flash, boot, running>>
      /\ pc[c] \in {"idle", "ota_begin"}
      /\ pc'[c] \in {"idle", "ota_begin", "ota_write", "end_sha256", "begin_store"}
  BY DEF Begin, Write, End, Reboot, DeviceReset, OtaBegin, Goto, Return, flashVars, OneInv,
         SessionTypes
<1>2. (InSession' <=> InSession) /\ ~Finishing /\ ~Finishing'
  BY <1>1, Mapped, MappedNext
<1>3. CASE InSession
  BY <1>1, <1>2, <1>3, InsideStutters
<1>4. CASE ~InSession
  BY <1>1, <1>2, <1>4, OutsideStutters
<1> QED
  BY <1>3, <1>4

(* The session is announced.                                               *)
LEMMA BeginStoreSession ==
  ASSUME NEW c, Consoles = {c}, OneInv(c), OneInv(c)', BeginStore(c)
  PROVE  Session!Begin
<1>1. /\ pc[c] = "begin_store" /\ ~s_ota.active /\ ~s_ota.pending_reboot
      /\ UNCHANGED <<flash, boot, running>> /\ Return(c)
  BY DEF BeginStore, OneInv, PlaceInv, Beginning, flashVars
<1>2. s_ota'.active /\ s_ota'.written = 0
  BY DEF BeginStore, Zeroed
<1>3. pc'[c] = "idle"
  BY <1>1, Returned DEF OneInv
<1>4. ~InSession /\ InSession' /\ ~Finishing' /\ ~s_ota'.pending_reboot
  BY <1>1, <1>2, <1>3, Mapped, MappedNext DEF OneInv, PlaceInv
<1>5. /\ s_ota'.expected_size \in Nat \ {0} /\ s_ota'.expected_sha256 \in Images
      /\ s_ota'.partition \in Partitions /\ flash' \in [Partitions -> Seq(Chunks)]
  <2>1. running' \in Partitions /\ s_ota' \in Sessions /\ flash' \in [Partitions -> Seq(Chunks)]
    BY DEF OneInv, SessionTypes
  <2>2. Other' \in Partitions
    BY <2>1 DEF Other, esp_ota_get_next_update_partition, Partitions
  <2>3. /\ s_ota'.partition = Other' /\ s_ota'.expected_sha256 \in Images
        /\ s_ota'.expected_size > 0
    BY <1>2 DEF OneInv, ContentInv
  <2>4. s_ota'.expected_size \in Nat
    BY <2>1 DEF Sessions
  <2> QED
    BY <2>1, <2>2, <2>3, <2>4
<1>6. SubSeq(flash'[s_ota'.partition], 1, s_ota'.written) = <<>>
  BY <1>2, <1>5
<1> QED
  BY <1>1, <1>4, <1>5, <1>6 DEF Session!Begin, Phase, Size, Digest, Received, Target

(* What was hashed is what the session received.                           *)
LEMMA HashedReceived ==
  ASSUME NEW c, OneInv(c), s_ota.active, ~Checked(c)
  PROVE  SubSeq(flash[s_ota.partition], 1, s_ota.written) = s_ota.sha256_ctx
<1>1. /\ s_ota.written \in Nat /\ s_ota.sha256_ctx \in Seq(Chunks)
      /\ flash[Other] \in Seq(Chunks)
  BY NextPartitionIdle DEF OneInv, SessionTypes, Sessions, Other
<1>2. /\ s_ota.partition = Other /\ Len(s_ota.sha256_ctx) = s_ota.written
      /\ s_ota.written <= Len(flash[Other])
      /\ \A i \in 1 .. s_ota.written : flash[Other][i] = s_ota.sha256_ctx[i]
  BY <1>1 DEF OneInv, ContentInv, Stored
<1> QED
  BY <1>1, <1>2, HashedPrefix

(* The same after a step.                                                  *)
LEMMA HashedReceivedNext ==
  ASSUME NEW c, OneInv(c)', s_ota'.active, ~Checked(c)'
  PROVE  SubSeq(flash'[s_ota'.partition], 1, s_ota'.written) = s_ota'.sha256_ctx
<1>1. running' \in Partitions
  BY DEF OneInv, SessionTypes
<1>2. Other' \in Partitions
  BY <1>1 DEF Other, esp_ota_get_next_update_partition, Partitions
<1>3. /\ s_ota'.written \in Nat /\ s_ota'.sha256_ctx \in Seq(Chunks)
      /\ flash'[Other'] \in Seq(Chunks)
  BY <1>2 DEF OneInv, SessionTypes, Sessions
<1>4. /\ s_ota'.partition = Other' /\ Len(s_ota'.sha256_ctx) = s_ota'.written
      /\ s_ota'.written <= Len(flash'[Other'])
      /\ \A i \in 1 .. s_ota'.written : flash'[Other'][i] = s_ota'.sha256_ctx[i]
  BY <1>3 DEF OneInv, ContentInv, Stored
<1> QED
  BY <1>3, <1>4, HashedPrefix

(* A chunk in the flash is not yet received, ...                           *)
LEMMA OtaWriteSession ==
  ASSUME NEW c, Consoles = {c}, OneInv(c), OneInv(c)', OtaWrite(c)
  PROVE  UNCHANGED Session!vars
<1>1. /\ pc[c] = "ota_write" /\ s_ota.active /\ ~s_ota.pending_reboot
      /\ UNCHANGED <<s_ota, boot, running>> /\ pc'[c] \in {"idle", "write_count"}
  BY DEF OtaWrite, OneInv, PlaceInv, Writing, Goto, Return, SessionTypes
<1>2. InSession /\ InSession' /\ ~Finishing /\ ~Finishing' /\ ~Checked(c) /\ ~Checked(c)'
  BY <1>1, Mapped, MappedNext DEF Checked
<1>3. SubSeq(flash'[s_ota'.partition], 1, s_ota'.written)
        = SubSeq(flash[s_ota.partition], 1, s_ota.written)
  BY <1>1, <1>2, HashedReceived, HashedReceivedNext
<1> QED
  BY <1>1, <1>2, <1>3, InsideStutters

(* ... it is when it has been counted.                                     *)
LEMMA WriteCountSession ==
  ASSUME NEW c, Consoles = {c}, OneInv(c), OneInv(c)', WriteCount(c)
  PROVE  Session!Receive
<1> DEFINE ctx == s_ota.sha256_ctx
           piece == arg[c].chunk
<1>1. /\ pc[c] = "write_count" /\ s_ota.active /\ ~s_ota.pending_reboot
      /\ s_ota.written < s_ota.expected_size /\ Len(piece) = 1 /\ Return(c)
      /\ UNCHANGED <<flash, boot, running>>
      /\ s_ota' = [s_ota EXCEPT !.sha256_ctx = @ \o piece, !.written = @ + 1]
  BY DEF WriteCount, OneInv, PlaceInv, Writing, flashVars
<1>2. pc'[c] = "idle"
  BY <1>1, Returned DEF OneInv
<1>3. s_ota \in Sessions /\ ctx \in Seq(Chunks) /\ piece \in Seq(Chunks)
  BY DEF OneInv, SessionTypes, Sessions, Args
<1>4. /\ s_ota'.active /\ ~s_ota'.pending_reboot
      /\ s_ota'.expected_size = s_ota.expected_size
      /\ s_ota'.expected_sha256 = s_ota.expected_sha256
      /\ s_ota'.sha256_ctx = ctx \o piece
  BY <1>1, <1>3 DEF Sessions
<1>5. InSession /\ InSession' /\ ~Finishing /\ ~Finishing' /\ ~Checked(c) /\ ~Checked(c)'
  BY <1>1, <1>2, <1>4, Mapped, MappedNext DEF Checked
<1>6. Received = ctx /\ Received' = ctx \o piece
  BY <1>1, <1>4, <1>5, HashedReceived, HashedReceivedNext DEF Received
<1>7. Len(ctx) = s_ota.written /\ Len(piece) = 1
  BY <1>1, <1>5 DEF OneInv, ContentInv
<1> HIDE DEF ctx, piece
<1>8. PICK k \in Chunks : k = piece[1]
  <2>1. 1 \in 1 .. Len(piece)
    BY <1>7
  <2>2. piece[1] \in Chunks
    BY <1>3, <2>1, ElementOfSeq
  <2> QED
    BY <2>2
<1>9. ctx \o piece = Append(ctx, k)
  <2>1. /\ ctx \o piece \in Seq(Chunks) /\ Len(ctx \o piece) = Len(ctx) + 1
        /\ \A i \in 1 .. Len(ctx) : (ctx \o piece)[i] = ctx[i]
        /\ (ctx \o piece)[Len(ctx) + 1] = piece[1]
    BY <1>1, <1>3, OneMore
  <2> DEFINE s == ctx \o piece
             t == Append(ctx, k)
  <2>2. /\ t \in Seq(Chunks) /\ Len(t) = Len(ctx) + 1
        /\ \A i \in 1 .. Len(ctx) : t[i] = ctx[i]
        /\ t[Len(ctx) + 1] = k /\ Len(ctx) \in Nat
    BY <1>3
  <2> HIDE DEF s, t
  <2>3. \A i \in 1 .. Len(s) : s[i] = t[i]
    BY <1>8, <2>1, <2>2 DEF s
  <2>4. s = t
    BY <2>1, <2>2, <2>3, SeqEqual DEF s
  <2> QED
    BY <2>4 DEF s, t
<1>10. Received' = Append(Received, k) /\ Len(Received) < Size
  BY <1>1, <1>5, <1>6, <1>7, <1>9 DEF Size
<1> QED
  BY <1>1, <1>4, <1>5, <1>8, <1>10 DEF Session!Receive, Phase, Size, Digest, Target

(* The steps of end: the digest and ESP-IDF's validation are not seen, ... *)
LEMMA EndStepSession ==
  ASSUME NEW c, Consoles = {c}, OneInv(c), OneInv(c)',
         \/ EndSha256(c) /\ s_ota.sha256_ctx = s_ota.expected_sha256
         \/ OtaEnd(c) /\ Goto(c, "set_boot") /\ UNCHANGED <<s_ota, arg>>
         \/ EndDone(c)
  PROVE  UNCHANGED Session!vars
<1>1. /\ pc[c] \in {"end_sha256", "ota_end", "end_done"} /\ s_ota.active
      /\ UNCHANGED <<flash, boot, running>>
  BY DEF EndSha256, OtaEnd, EndDone, OneInv, PlaceInv, Ending, flashVars
<1>2. s_ota \in Sessions
  BY DEF OneInv, SessionTypes
<1>3. /\ s_ota'.expected_size = s_ota.expected_size
      /\ s_ota'.expected_sha256 = s_ota.expected_sha256
      /\ s_ota'.written = s_ota.written /\ s_ota'.partition = s_ota.partition
  BY <1>2 DEF EndSha256, OtaEnd, EndDone, Sessions
<1>4. CASE EndDone(c)
  <2>1. pc[c] = "end_done" /\ s_ota'.pending_reboot /\ pc'[c] = "idle"
    BY <1>2, <1>4, Returned DEF EndDone, OneInv, Sessions
  <2> QED
    BY <1>1, <1>3, <2>1, Mapped, MappedNext, InsideStutters
<1>5. CASE ~EndDone(c)
  <2>1. /\ pc[c] # "end_done" /\ pc'[c] \in {"ota_end", "set_boot"}
        /\ ~s_ota.pending_reboot
    BY <1>1, <1>5 DEF EndSha256, OtaEnd, Goto, OneInv, SessionTypes, PlaceInv
  <2>2. s_ota'.active /\ ~s_ota'.pending_reboot
    BY <2>1 DEF OneInv, PlaceInv, Ending
  <2> QED
    BY <1>1, <1>3, <2>1, <2>2, Mapped, MappedNext, InsideStutters
<1> QED
  BY <1>4, <1>5

(* ... setting the boot partition finishes the update.                     *)
LEMMA SetBootSession ==
  ASSUME NEW c, Consoles = {c}, OneInv(c), OneInv(c)', SetBootPartition(c),
         boot' = s_ota.partition, Goto(c, "end_done"), UNCHANGED <<s_ota, arg>>
  PROVE  Session!Finish
<1>1. /\ pc[c] = "set_boot" /\ s_ota.active /\ ~s_ota.pending_reboot
      /\ s_ota.written = s_ota.expected_size /\ UNCHANGED <<flash, running>>
      /\ pc'[c] = "end_done"
  BY DEF SetBootPartition, OneInv, PlaceInv, Ending, Goto, SessionTypes
<1>2. InSession /\ InSession' /\ ~Finishing /\ Finishing'
  BY <1>1, Mapped, MappedNext
<1>3. /\ s_ota.partition = Other /\ flash[Other] = s_ota.expected_sha256
      /\ Len(flash[Other]) = s_ota.written /\ flash[Other] \in Seq(Chunks)
  BY <1>1, NextPartitionIdle DEF OneInv, ContentInv, Checked, SessionTypes, Other
<1>4. Received = s_ota.expected_sha256
  <2>1. SubSeq(flash[Other], 1, Len(flash[Other])) = flash[Other]
    BY <1>3, HashedPrefix
  <2> QED
    BY <1>2, <1>3, <2>1 DEF Received
<1>5. boot' # running'
  BY <1>1 DEF OneInv, BootInv
<1>6. boot = running
  BY <1>1 DEF OneInv, BootInv
<1> QED
  BY <1>1, <1>2, <1>3, <1>4, <1>5, <1>6
     DEF Session!Finish, Phase, Size, Digest, Received, Target

(* What gives up a session, and what takes a finished one back.            *)
LEMMA DiscardSession ==
  ASSUME NEW c, Consoles = {c}, OneInv(c), OneInv(c)',
         \/ CancelActive(c) \/ CancelPending(c)
         \/ EndSha256(c) /\ s_ota.sha256_ctx # s_ota.expected_sha256
         \/ OtaEnd(c) /\ AbortActiveUpdate /\ Return(c)
         \/ SetBootPartition(c) /\ s_ota' = Zeroed /\ Return(c) /\ UNCHANGED boot
  PROVE  Session!Discard
<1>1. (s_ota.active \/ s_ota.pending_reboot) /\ pc[c] # "cancel_done"
  BY DEF CancelActive, CancelPending, EndSha256, OtaEnd, SetBootPartition, OneInv, PlaceInv,
         Ending
<1>2. s_ota' = Zeroed \/ pc'[c] = "cancel_done"
  BY DEF CancelActive, CancelPending, EndSha256, OtaEnd, SetBootPartition, AbortActiveUpdate,
         Goto, OneInv, SessionTypes
<1>3. ~((s_ota'.active \/ s_ota'.pending_reboot) /\ pc'[c] # "cancel_done")
  BY <1>2, EmptyTypes
<1>4. InSession /\ ~InSession'
  BY <1>1, <1>3, Mapped, MappedNext
<1>5. pc'[c] # "end_done"
  BY <1>3 DEF OneInv, PlaceInv, Ending
<1>6. boot' = running'
  BY <1>3, <1>5 DEF OneInv, BootInv
<1> QED
  BY <1>4, <1>6, Discards

(* A step of one console's device is a step of the session, or unseen.     *)
LEMMA StepSession ==
  ASSUME NEW c, Consoles = {c}, OneInv(c), OneInv(c)', [Next]_vars
  PROVE  [Session!Next]_(Session!vars)
<1>1. CASE UNCHANGED vars
  BY <1>1 DEF vars, flashVars, Session!vars, Phase, Size, Digest, Received, Target, InSession,
              Finishing, TakingBack
<1>2. CASE Restart
  <2>1. ~s_ota'.active /\ ~s_ota'.pending_reboot /\ boot' = running'
    BY <1>2, EmptyTypes DEF Restart
  <2>2. ~InSession'
    BY <2>1, MappedNext
  <2> QED
    BY <2>1, <2>2 DEF Session!Next, Session!Restart, Session!Cleared, Phase, Size, Digest,
                      Received, Target
<1>3. ASSUME NEW d \in Consoles,
             \/ \E size \in 1 .. PartitionSize, sha256 \in Images : Begin(d, size, sha256)
             \/ \E offset \in 0 .. PartitionSize, chunk \in Chunks : Write(d, offset, chunk)
             \/ End(d) \/ Reboot(d) \/ DeviceReset(d) \/ OtaBegin(d)
      PROVE  [Session!Next]_(Session!vars)
  BY <1>3, QuietSession
<1>4. ASSUME NEW d \in Consoles, BeginStore(d) \/ WriteCount(d)
      PROVE  [Session!Next]_(Session!vars)
  BY <1>4, BeginStoreSession, WriteCountSession DEF Session!Next
<1>5. ASSUME NEW d \in Consoles, OtaWrite(d) \/ EndDone(d)
      PROVE  [Session!Next]_(Session!vars)
  BY <1>5, OtaWriteSession, EndStepSession
<1>6. ASSUME NEW d \in Consoles, CancelActive(d) \/ CancelPending(d)
      PROVE  [Session!Next]_(Session!vars)
  BY <1>6, DiscardSession DEF Session!Next
<1>7. ASSUME NEW d \in Consoles, EndSha256(d)
      PROVE  [Session!Next]_(Session!vars)
  BY <1>7, DiscardSession, EndStepSession DEF Session!Next
<1>8. ASSUME NEW d \in Consoles, OtaEnd(d)
      PROVE  [Session!Next]_(Session!vars)
  BY <1>8, DiscardSession, EndStepSession DEF Session!Next, OtaEnd
<1>9. ASSUME NEW d \in Consoles, SetBootPartition(d)
      PROVE  [Session!Next]_(Session!vars)
  BY <1>9, DiscardSession, SetBootSession DEF Session!Next, SetBootPartition
<1>10. ASSUME NEW d \in Consoles, CancelDone(d)
       PROVE  [Session!Next]_(Session!vars)
  <2>1. /\ pc[c] = "cancel_done" /\ s_ota' = Zeroed /\ UNCHANGED <<boot, running>>
    BY <1>10 DEF CancelDone, flashVars
  <2>2. ~InSession /\ ~InSession'
    BY <2>1, EmptyTypes, Mapped, MappedNext
  <2> QED
    BY <2>1, <2>2, OutsideStutters
<1> QED
  BY <1>1, <1>2, <1>3, <1>4, <1>5, <1>6, <1>7, <1>8, <1>9, <1>10 DEF Next

(* With one console the firmware commands, split at every call into the    *)
(* flash driver, with failures and restarts anywhere, implement the        *)
(* session that OtaSession promises.                                       *)
THEOREM SessionImplemented ==
  ASSUME NEW c, Consoles = {c}
  PROVE  Spec => ImplementsSession
<1>1. Init => Session!Init
  <2> SUFFICES ASSUME Init PROVE Session!Init
    OBVIOUS
  <2>1. ~s_ota.active /\ ~s_ota.pending_reboot /\ boot = running
    BY EmptyTypes DEF Init, RamInit
  <2> QED
    BY <2>1, Mapped DEF Session!Init, Phase, Size, Digest, Received, Target
<1>2. OneInv(c) /\ OneInv(c)' /\ [Next]_vars => [Session!Next]_(Session!vars)
  BY StepSession
<1>3. Spec => []OneInv(c)
  BY OneAlways
<1> QED
  BY <1>1, <1>2, <1>3, PTL DEF Spec, ImplementsSession, Session!Spec
=============================================================================
