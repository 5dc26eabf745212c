------------------------------ MODULE OtaUpdate -----------------------------
(***************************************************************************)
(* The firmware update state machine of main/ota_update.c, driven by the   *)
(* firmware.* commands of main/serial_console.c.                           *)
(*                                                                         *)
(* s_ota has no lock, and the UART and the BLE command tasks both execute  *)
(* commands, so each function is split at its calls into the flash driver: *)
(* between two steps of one console, another console may run, and the      *)
(* device may restart.  A chunk is one unit long.  A digest is modelled by *)
(* the content it is the digest of, that is, SHA-256 is taken as free of   *)
(* collisions.                                                             *)
(***************************************************************************)
EXTENDS Integers, Sequences

CONSTANTS
  Consoles,        (* tasks that execute commands                          *)
  Chunks,          (* chunk contents                                       *)
  Images,          (* firmware images: sequences of chunks                 *)
  Factory,         (* the image flashed over USB, a member of Images       *)
  PartitionSize,   (* chunks that fit in an OTA partition                  *)
  MaxSessions      (* bound: updates begun between two restarts            *)

ASSUME OtaUpdateConstants ==
  /\ Images \subseteq Seq(Chunks)
  /\ Factory \in Images
  /\ PartitionSize \in Nat
  /\ MaxSessions \in Nat

Partitions == {"ota_0", "ota_1"}

VARIABLES
  s_ota,       (* the update in progress, zeroed when there is none        *)
  pc,          (* where each console is in its command                     *)
  arg,         (* the parameters of that command                           *)
  reboot       (* a reboot_task is waiting to call esp_restart             *)

(* External: the flash, the OTA driver's open handles and the boot data.   *)
VARIABLES
  flash,       (* content of each partition                                *)
  wrote,       (* chunks written through each open handle; the last handle *)
               (* given out is Len(wrote), Closed when ended or aborted    *)
  running,     (* the partition this boot runs from                        *)
  boot         (* the partition the next boot runs from                    *)

(* History, read by the properties only.                                   *)
VARIABLE cancelled  (* the last firmware.cancel succeeded, no begin since  *)

flashVars == <<flash, wrote, running, boot>>
vars == <<s_ota, pc, arg, reboot, flashVars, cancelled>>

Closed == -1
NoHandle == 0

(* memset(&s_ota, 0, sizeof(s_ota))                                        *)
Zeroed ==
  [active |-> FALSE, pending_reboot |-> FALSE, handle |-> NoHandle, partition |-> "none",
   expected_size |-> 0, written |-> 0, expected_sha256 |-> <<>>, sha256_ctx |-> <<>>]

NoArg == [size |-> 0, sha256 |-> <<>>, chunk |-> <<>>, handle |-> NoHandle]

RamInit ==
  /\ s_ota = Zeroed
  /\ pc = [c \in Consoles |-> "idle"]
  /\ arg = [c \in Consoles |-> NoArg]
  /\ reboot = FALSE
  /\ wrote = <<>>

Init ==
  /\ RamInit
  /\ flash = [p \in Partitions |-> IF p = "ota_0" THEN Factory ELSE <<>>]
  /\ running = "ota_0"
  /\ boot = "ota_0"
  /\ cancelled = FALSE

Goto(c, label)   == pc' = [pc EXCEPT ![c] = label]
Return(c)        == Goto(c, "idle") /\ arg' = [arg EXCEPT ![c] = NoArg]

-----------------------------------------------------------------------------
(* The OTA driver (external).                                              *)

(* Mutant: esp_ota_get_running_partition in its place.                     *)
NextPartition_Running == running

esp_ota_get_next_update_partition == CHOOSE p \in Partitions : p # running

Open(h) == h \in DOMAIN wrote /\ wrote[h] # Closed
Close(h) == IF h \in DOMAIN wrote THEN [wrote EXCEPT ![h] = Closed] ELSE wrote

(* A chunk goes behind what was written through this handle; what was      *)
(* there is erased sector by sector on the way.                            *)
esp_ota_write(h, chunk) ==
  LET p == esp_ota_get_next_update_partition IN
  /\ flash' = [flash EXCEPT ![p] =
                 SubSeq(@, 1, IF wrote[h] < Len(@) THEN wrote[h] ELSE Len(@)) \o chunk]
  /\ wrote' = [wrote EXCEPT ![h] = @ + 1]

-----------------------------------------------------------------------------
(* Mutant: a finished update does not keep a new one from beginning.       *)
Begin_IgnoresPending(c, size, sha256) ==
  /\ pc[c] = "idle"
  /\ ~s_ota.active
  /\ size > 0 /\ size <= PartitionSize
  /\ Goto(c, "ota_begin")
  /\ arg' = [arg EXCEPT ![c] = [NoArg EXCEPT !.size = size, !.sha256 = sha256]]
  /\ UNCHANGED <<s_ota, reboot, flashVars, cancelled>>

(* meb_ota_update_begin: the checks, ...                                   *)
Begin(c, size, sha256) ==
  /\ pc[c] = "idle"
  /\ ~s_ota.active /\ ~s_ota.pending_reboot
  /\ size > 0 /\ size <= PartitionSize
  /\ Goto(c, "ota_begin")
  /\ arg' = [arg EXCEPT ![c] = [NoArg EXCEPT !.size = size, !.sha256 = sha256]]
  /\ UNCHANGED <<s_ota, reboot, flashVars, cancelled>>

(* ... esp_ota_begin, which may fail, ...                                  *)
OtaBegin(c) ==
  /\ pc[c] = "ota_begin"
  /\ \/ /\ Len(wrote) < MaxSessions
        /\ wrote' = Append(wrote, 0)
        /\ arg' = [arg EXCEPT ![c].handle = Len(wrote) + 1]
        /\ Goto(c, "begin_store")
     \/ UNCHANGED wrote /\ Return(c)
  /\ UNCHANGED <<s_ota, reboot, flash, running, boot, cancelled>>

(* ... and the new session.                                                *)
BeginStore(c) ==
  /\ pc[c] = "begin_store"
  /\ s_ota' = [Zeroed EXCEPT !.active = TRUE,
                             !.handle = arg[c].handle,
                             !.partition = esp_ota_get_next_update_partition,
                             !.expected_size = arg[c].size,
                             !.expected_sha256 = arg[c].sha256]
  /\ cancelled' = FALSE
  /\ Return(c)
  /\ UNCHANGED <<reboot, flashVars>>

-----------------------------------------------------------------------------
(* meb_ota_update_write: the chunk decodes and fits at the right offset.   *)
Write(c, offset, chunk) ==
  /\ pc[c] = "idle"
  /\ s_ota.active /\ offset = s_ota.written
  /\ s_ota.written + 1 <= s_ota.expected_size
  /\ Goto(c, "ota_write")
  /\ arg' = [arg EXCEPT ![c] = [NoArg EXCEPT !.chunk = <<chunk>>]]
  /\ UNCHANGED <<s_ota, reboot, flashVars, cancelled>>

(* Mutant: a chunk is counted although its write failed.                   *)
OtaWrite_ErrorIgnored(c) ==
  /\ pc[c] = "ota_write"
  /\ \/ Open(s_ota.handle) /\ esp_ota_write(s_ota.handle, arg[c].chunk)
     \/ UNCHANGED <<flash, wrote>>
  /\ Goto(c, "write_count")
  /\ UNCHANGED <<arg, s_ota, reboot, running, boot, cancelled>>

OtaWrite(c) ==
  /\ pc[c] = "ota_write"
  /\ \/ /\ Open(s_ota.handle)
        /\ esp_ota_write(s_ota.handle, arg[c].chunk)
        /\ Goto(c, "write_count")
        /\ UNCHANGED arg
     \/ UNCHANGED <<flash, wrote>> /\ Return(c)
  /\ UNCHANGED <<s_ota, reboot, running, boot, cancelled>>

WriteCount(c) ==
  /\ pc[c] = "write_count"
  /\ s_ota' = [s_ota EXCEPT !.sha256_ctx = @ \o arg[c].chunk, !.written = @ + 1]
  /\ Return(c)
  /\ UNCHANGED <<reboot, flashVars, cancelled>>

-----------------------------------------------------------------------------
(* Mutant: the driver's handle is forgotten, not aborted.                  *)
AbortActiveUpdate_Leaks == s_ota' = Zeroed /\ UNCHANGED wrote

(* abort_active_update                                                     *)
AbortActiveUpdate ==
  /\ wrote' = IF s_ota.active THEN Close(s_ota.handle) ELSE wrote
  /\ s_ota' = Zeroed

(* meb_ota_update_end: byte count, ...                                     *)
End(c) ==
  /\ pc[c] = "idle"
  /\ s_ota.active /\ s_ota.written = s_ota.expected_size
  /\ Goto(c, "end_sha256")
  /\ UNCHANGED <<s_ota, arg, reboot, flashVars, cancelled>>

(* Mutant: the digest is computed but not compared.                        *)
EndSha256_NotCompared(c) ==
  /\ pc[c] = "end_sha256"
  /\ s_ota' = [s_ota EXCEPT !.sha256_ctx = <<>>]
  /\ Goto(c, "ota_end")
  /\ UNCHANGED <<arg, wrote, reboot, flash, running, boot, cancelled>>

(* ... digest, which also empties the hash context, ...                    *)
EndSha256(c) ==
  /\ pc[c] = "end_sha256"
  /\ \/ /\ s_ota.sha256_ctx = s_ota.expected_sha256
        /\ s_ota' = [s_ota EXCEPT !.sha256_ctx = <<>>]
        /\ Goto(c, "ota_end")
        /\ UNCHANGED <<arg, wrote>>
     \/ /\ s_ota.sha256_ctx # s_ota.expected_sha256
        /\ AbortActiveUpdate
        /\ Return(c)
  /\ UNCHANGED <<reboot, flash, running, boot, cancelled>>

(* ... ESP-IDF's own validation, which closes the handle, ...              *)
OtaEnd(c) ==
  /\ pc[c] = "ota_end"
  /\ \/ /\ Open(s_ota.handle)
        /\ wrote' = Close(s_ota.handle)
        /\ Goto(c, "set_boot")
        /\ UNCHANGED <<s_ota, arg>>
     \/ AbortActiveUpdate /\ Return(c)
  /\ UNCHANGED <<reboot, flash, running, boot, cancelled>>

(* ... the boot partition (a zeroed s_ota has none) ...                    *)
SetBootPartition(c) ==
  /\ pc[c] = "set_boot"
  /\ \/ /\ s_ota.partition # "none"
        /\ boot' = s_ota.partition
        /\ Goto(c, "end_done")
        /\ UNCHANGED <<s_ota, arg>>
     \/ s_ota' = Zeroed /\ Return(c) /\ UNCHANGED boot
  /\ UNCHANGED <<reboot, flash, wrote, running, cancelled>>

(* ... and the result.                                                     *)
EndDone(c) ==
  /\ pc[c] = "end_done"
  /\ s_ota' = [s_ota EXCEPT !.pending_reboot = TRUE, !.active = FALSE]
  /\ Return(c)
  /\ UNCHANGED <<reboot, flashVars, cancelled>>

-----------------------------------------------------------------------------
(* meb_ota_update_cancel of an active update, ...                          *)
CancelActive(c) ==
  /\ pc[c] = "idle"
  /\ s_ota.active
  /\ AbortActiveUpdate
  /\ cancelled' = TRUE
  /\ UNCHANGED <<pc, arg, reboot, flash, running, boot>>

(* ... of a finished one: restore the boot partition, which may fail ...   *)
CancelPending(c) ==
  /\ pc[c] = "idle"
  /\ ~s_ota.active /\ s_ota.pending_reboot
  /\ boot' = running
  /\ Goto(c, "cancel_done")
  /\ UNCHANGED <<s_ota, arg, reboot, flash, wrote, running, cancelled>>

(* ... and forget the update.                                              *)
CancelDone(c) ==
  /\ pc[c] = "cancel_done"
  /\ s_ota' = Zeroed
  /\ cancelled' = TRUE
  /\ Return(c)
  /\ UNCHANGED <<reboot, flashVars>>

-----------------------------------------------------------------------------
(* firmware.reboot, which wants a finished update, and device.reset, which *)
(* does not, both leave the restart to a task of its own.                  *)
Reboot(c) ==
  /\ pc[c] = "idle"
  /\ s_ota.pending_reboot
  /\ reboot' = TRUE
  /\ UNCHANGED <<s_ota, pc, arg, flashVars, cancelled>>

DeviceReset(c) ==
  /\ pc[c] = "idle"
  /\ reboot' = TRUE
  /\ UNCHANGED <<s_ota, pc, arg, flashVars, cancelled>>

(* esp_restart, or a crash or power loss at any other time.  The           *)
(* bootloader falls back to the other partition when the one it should     *)
(* boot holds no complete image.                                           *)
Restart ==
  LET fallback == CHOOSE p \in Partitions : p # boot
      booted   == IF flash[boot] \in Images THEN boot ELSE fallback
  IN /\ running' = booted
     /\ boot' = booted
     /\ s_ota' = Zeroed
     /\ pc' = [c \in Consoles |-> "idle"]
     /\ arg' = [c \in Consoles |-> NoArg]
     /\ reboot' = FALSE
     /\ wrote' = <<>>
     /\ cancelled' = FALSE
     /\ UNCHANGED flash

Next ==
  \/ \E c \in Consoles :
       \/ \E size \in 1 .. PartitionSize, sha256 \in Images : Begin(c, size, sha256)
       \/ \E offset \in 0 .. PartitionSize, chunk \in Chunks : Write(c, offset, chunk)
       \/ OtaBegin(c) \/ BeginStore(c) \/ OtaWrite(c) \/ WriteCount(c)
       \/ End(c) \/ EndSha256(c) \/ OtaEnd(c) \/ SetBootPartition(c) \/ EndDone(c)
       \/ CancelActive(c) \/ CancelPending(c) \/ CancelDone(c)
       \/ Reboot(c) \/ DeviceReset(c)
  \/ Restart

Spec == Init /\ [][Next]_vars

-----------------------------------------------------------------------------
(* Nothing two consoles do to s_ota, in any interleaving, touches the      *)
(* firmware that is running.  They can leave an incomplete boot partition  *)
(* behind: a restart then still finds this image to fall back to.          *)
RunningImageIntact == flash[running] \in Images

(* With one console: whenever the device could restart, the boot partition *)
(* holds a complete image.  begin must refuse while a finished update      *)
(* waits for its reboot, and end must not switch before all checks passed. *)
BootImageComplete == flash[boot] \in Images

(* README: firmware.cancel returns after aborting an active update, or     *)
(* clearing a pending reboot.  Once it has succeeded, and until the next   *)
(* firmware.begin, the device boots what it runs.                          *)
CancelHonoured == cancelled => boot = running

(* README: if a chunk fails, resume at the returned written offset.        *)
(* Between commands the flash driver, the digest and the byte count of an  *)
(* active update agree, whatever failed before, so resuming there is right.*)
ResumePointAgrees ==
  s_ota.active /\ (\A c \in Consoles : pc[c] = "idle") =>
    /\ Open(s_ota.handle)
    /\ wrote[s_ota.handle] = s_ota.written
    /\ s_ota.written <= s_ota.expected_size
    /\ s_ota.written > 0 =>
         s_ota.sha256_ctx = SubSeq(flash[s_ota.partition], 1, s_ota.written)

(* With one console no handle outlives its session.                        *)
NoHandleLeaks ==
  \A h \in DOMAIN wrote :
    wrote[h] # Closed => \/ s_ota.active /\ s_ota.handle = h
                         \/ \E c \in Consoles : arg[c].handle = h

-----------------------------------------------------------------------------
(* With one console the steps implement the session it promises: a command *)
(* takes effect at the step after which it can no longer fail.             *)
Finishing   == \E c \in Consoles : pc[c] = "end_done"
TakingBack  == \E c \in Consoles : pc[c] = "cancel_done"
InSession   == (s_ota.active \/ s_ota.pending_reboot) /\ ~TakingBack

Phase    == IF ~InSession THEN "idle"
            ELSE IF s_ota.pending_reboot \/ Finishing THEN "ready" ELSE "receiving"
Size     == IF InSession THEN s_ota.expected_size ELSE 0
Digest   == IF InSession THEN s_ota.expected_sha256 ELSE <<>>
Received == IF InSession THEN SubSeq(flash[s_ota.partition], 1, s_ota.written) ELSE <<>>
Target   == IF boot = running THEN "running" ELSE "update"

Session == INSTANCE OtaSession WITH
  phase <- Phase, size <- Size, digest <- Digest, received <- Received, target <- Target

(* The fine-grained update implements OtaSession.                          *)
ImplementsSession == Session!Spec
=============================================================================
