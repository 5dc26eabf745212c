----------------------------- MODULE OtaSession -----------------------------
(***************************************************************************)
(* What the firmware update promises, one command at a time: an update is  *)
(* announced with its size and digest, its chunks arrive in order, and it  *)
(* becomes the boot target only when everything announced has arrived and  *)
(* matches.  Until the next restart it can be taken back.                  *)
(***************************************************************************)
EXTENDS Integers, Sequences

CONSTANTS
  Images,    (* digests that may be announced, each as the content it is of *)
  Chunks     (* chunk contents                                              *)

VARIABLES
  phase,      (* "idle", "receiving" or "ready"                             *)
  size,       (* announced size                                             *)
  digest,     (* announced digest                                           *)
  received,   (* what has arrived                                           *)
  target      (* what boots next: "running" or "update"                     *)

vars == <<phase, size, digest, received, target>>

Init ==
  /\ phase = "idle"
  /\ size = 0
  /\ digest = <<>>
  /\ received = <<>>
  /\ target = "running"

Cleared == phase' = "idle" /\ size' = 0 /\ digest' = <<>> /\ received' = <<>>

Begin ==
  /\ phase = "idle"
  /\ phase' = "receiving"
  /\ size' \in Nat \ {0}
  /\ digest' \in Images
  /\ received' = <<>>
  /\ UNCHANGED target

Receive ==
  /\ phase = "receiving"
  /\ Len(received) < size
  /\ \E c \in Chunks : received' = Append(received, c)
  /\ UNCHANGED <<phase, size, digest, target>>

Finish ==
  /\ phase = "receiving"
  /\ Len(received) = size /\ received = digest
  /\ phase' = "ready"
  /\ target' = "update"
  /\ UNCHANGED <<size, digest, received>>

(* Taken back, or given up.                                                *)
Discard == phase # "idle" /\ Cleared /\ target' = "running"

Restart == Cleared /\ target' = "running"

Next == Begin \/ Receive \/ Finish \/ Discard \/ Restart

Spec == Init /\ [][Next]_vars
=============================================================================
