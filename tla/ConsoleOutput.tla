--------------------------- MODULE ConsoleOutput ----------------------------
(***************************************************************************)
(* How lines leave the device: meb_serial_printf of main/serial_console.c, *)
(* called by every task, and meb_ble_console_write of main/ble_console.c,  *)
(* with the connections the NimBLE host task reports to gap_event_cb.      *)
(*                                                                         *)
(* A line is a number.  The UART takes it in UART_PIECES pieces, a BLE     *)
(* client in CHUNKS notifications, the last of which has the newline.  The *)
(* host task changes s_peers without the lock the writers hold.  UART0 is  *)
(* ESP-IDF's console too: the text of ESP_LOG* calls goes out on it at any *)
(* time, without the lock, also between the pieces of a line.              *)
(***************************************************************************)
EXTENDS Integers, Sequences, FiniteSets

CONSTANTS
  Tasks,            (* tasks that print                                    *)
  MAX_CONNECTIONS,  (* CONFIG_BT_NIMBLE_MAX_CONNECTIONS                    *)
  Handles,          (* connection handles of the host stack, 0 among them  *)
  UART_PIECES,
  CHUNKS,
  MaxMessages,      (* bound: lines printed                                *)
  MaxLogs,          (* bound: pieces of log text                           *)
  MaxLinks          (* bound: connections made                             *)

Nil == "nil"      (* no task *)

ASSUME ConsoleOutputConstants ==
  /\ Nil \notin Tasks
  /\ MAX_CONNECTIONS \in Nat \ {0}
  /\ Handles \subseteq Nat /\ 0 \in Handles
  /\ UART_PIECES \in Nat \ {0} /\ CHUNKS \in Nat \ {0}
  /\ MaxMessages \in Nat /\ MaxLogs \in Nat /\ MaxLinks \in Nat

VARIABLES
  pc, msg, offset, slot,    (* per task: its place in meb_serial_printf    *)
  s_uart_write_lock,        (* holder or Nil                               *)
  s_notify_lock,            (* holder or Nil                               *)
  s_peers,                  (* the peer table                              *)
  s_ble_started,
  uart,                     (* pieces on the UART                          *)
  up,                       (* handles of the live connections             *)
  got,                      (* per handle: notifications of its connection *)
  advertising, synced       (* what the host stack is doing                *)

(* History.                                                                *)
VARIABLES
  messages,                 (* lines printed so far                        *)
  links,                    (* connections made so far                     *)
  joined,                   (* per handle: lines begun when it connected   *)
  lost,                     (* per handle: lines a notification failed for *)
  adv_failed                (* the last call of advertise failed           *)

taskVars == <<pc, msg, offset, slot, messages>>
lockVars == <<s_uart_write_lock, s_notify_lock>>
linkVars == <<up, advertising, adv_failed, synced, links, joined>>
vars == <<taskVars, lockVars, s_peers, s_ble_started, uart, got, lost, linkVars>>

Slots == 1 .. MAX_CONNECTIONS
NoPeer == [in_use |-> FALSE, notify_enabled |-> FALSE, conn_handle |-> 0]

LogText == [msg |-> 0, piece |-> 0]
Printed == {i \in DOMAIN uart : uart[i] # LogText}   (* what is not log text *)

Init ==
  /\ pc = [t \in Tasks |-> "idle"]
  /\ msg = [t \in Tasks |-> 0] /\ offset = [t \in Tasks |-> 0] /\ slot = [t \in Tasks |-> 1]
  /\ s_uart_write_lock = Nil /\ s_notify_lock = Nil
  /\ s_peers = [i \in Slots |-> NoPeer]
  /\ s_ble_started = FALSE
  /\ uart = <<>>
  /\ up = {} /\ got = [h \in Handles |-> <<>>]
  /\ advertising = FALSE /\ adv_failed = FALSE /\ synced = FALSE
  /\ messages = 0 /\ links = 0
  /\ joined = [h \in Handles |-> 0]
  /\ lost = [h \in Handles |-> {}]

-----------------------------------------------------------------------------
(* meb_serial_printf                                                       *)

Goto(t, place) == pc' = [pc EXCEPT ![t] = place]

(* Mutant: the lock is not waited for.                                     *)
TakeUartLock_NotWaited(t) ==
  /\ pc[t] = "idle" /\ messages < MaxMessages
  /\ s_uart_write_lock' = t
  /\ messages' = messages + 1
  /\ msg' = [msg EXCEPT ![t] = messages + 1]
  /\ offset' = [offset EXCEPT ![t] = 0]
  /\ Goto(t, "uart")
  /\ UNCHANGED <<slot, s_notify_lock, s_peers, s_ble_started, uart, got, lost, linkVars>>

TakeUartLock(t) ==
  /\ pc[t] = "idle" /\ messages < MaxMessages
  /\ s_uart_write_lock = Nil
  /\ s_uart_write_lock' = t
  /\ messages' = messages + 1
  /\ msg' = [msg EXCEPT ![t] = messages + 1]
  /\ offset' = [offset EXCEPT ![t] = 0]
  /\ Goto(t, "uart")
  /\ UNCHANGED <<slot, s_notify_lock, s_peers, s_ble_started, uart, got, lost, linkVars>>

uart_write_bytes(t) ==
  /\ pc[t] = "uart"
  /\ uart' = Append(uart, [msg |-> msg[t], piece |-> offset[t] + 1])
  /\ offset' = [offset EXCEPT ![t] = @ + 1]
  /\ Goto(t, IF offset[t] + 1 = UART_PIECES THEN "ble" ELSE "uart")
  /\ UNCHANGED <<msg, slot, messages, lockVars, s_peers, s_ble_started, got, lost, linkVars>>

(* Mutant: the early return goes past the give.                            *)
TakeNotifyLock_EarlyReturn(t) ==
  /\ pc[t] = "ble"
  /\ \/ ~s_ble_started /\ Goto(t, "idle") /\ UNCHANGED <<slot, s_notify_lock>>
     \/ /\ s_ble_started /\ s_notify_lock = Nil
        /\ s_notify_lock' = t
        /\ slot' = [slot EXCEPT ![t] = 1]
        /\ Goto(t, "peer")
  /\ UNCHANGED <<msg, offset, messages, s_uart_write_lock, s_peers, s_ble_started>>
  /\ UNCHANGED <<uart, got, lost, linkVars>>

(* meb_ble_console_write returns at once before the first on_sync.         *)
TakeNotifyLock(t) ==
  /\ pc[t] = "ble"
  /\ \/ ~s_ble_started /\ Goto(t, "give") /\ UNCHANGED <<slot, s_notify_lock>>
     \/ /\ s_ble_started /\ s_notify_lock = Nil
        /\ s_notify_lock' = t
        /\ slot' = [slot EXCEPT ![t] = 1]
        /\ Goto(t, "peer")
  /\ UNCHANGED <<msg, offset, messages, s_uart_write_lock, s_peers, s_ble_started>>
  /\ UNCHANGED <<uart, got, lost, linkVars>>

(* The next peer that wants notifications, or none: the lock is given back.*)
NextPeer(t) ==
  /\ pc[t] = "peer"
  /\ LET rest == {i \in Slots : i >= slot[t] /\ s_peers[i].in_use /\ s_peers[i].notify_enabled}
     IN \/ /\ rest # {}
           /\ slot' = [slot EXCEPT ![t] = CHOOSE i \in rest : \A j \in rest : i <= j]
           /\ offset' = [offset EXCEPT ![t] = 0]
           /\ Goto(t, "chunk")
           /\ UNCHANGED s_notify_lock
        \/ /\ rest = {}
           /\ s_notify_lock' = Nil
           /\ Goto(t, "give")
           /\ UNCHANGED <<slot, offset>>
  /\ UNCHANGED <<msg, messages, s_uart_write_lock, s_peers, s_ble_started, uart, got, lost, linkVars>>

(* Mutant: a failed notification is skipped, not the end of the line.      *)
NotifyChunk_GoesOn(t) ==
  LET h == s_peers[slot[t]].conn_handle
  IN /\ pc[t] = "chunk"
     /\ \/ /\ h \in up
           /\ got' = [got EXCEPT ![h] = Append(@, [msg |-> msg[t], piece |-> offset[t] + 1])]
           /\ UNCHANGED lost
        \/ /\ lost' = [lost EXCEPT ![h] = @ \cup {msg[t]}]
           /\ UNCHANGED got
     /\ offset' = [offset EXCEPT ![t] = @ + 1]
     /\ IF offset[t] + 1 < CHUNKS
          THEN UNCHANGED <<pc, slot>>
          ELSE Goto(t, "peer") /\ slot' = [slot EXCEPT ![t] = @ + 1]
     /\ UNCHANGED <<msg, messages, lockVars, s_peers, s_ble_started, uart, linkVars>>

(* One notification.  The handle is read from the table each time.  It     *)
(* fails when the connection is gone, and may fail for lack of buffers;    *)
(* that ends the line for this peer.                                       *)
NotifyChunk(t) ==
  LET h == s_peers[slot[t]].conn_handle
  IN /\ pc[t] = "chunk"
     /\ \/ /\ h \in up
           /\ got' = [got EXCEPT ![h] = Append(@, [msg |-> msg[t], piece |-> offset[t] + 1])]
           /\ offset' = [offset EXCEPT ![t] = @ + 1]
           /\ IF offset[t] + 1 < CHUNKS
                THEN UNCHANGED <<pc, slot>>
                ELSE Goto(t, "peer") /\ slot' = [slot EXCEPT ![t] = @ + 1]
           /\ UNCHANGED lost
        \/ /\ lost' = [lost EXCEPT ![h] = @ \cup {msg[t]}]
           /\ Goto(t, "peer")
           /\ slot' = [slot EXCEPT ![t] = @ + 1]
           /\ UNCHANGED <<got, offset>>
     /\ UNCHANGED <<msg, messages, lockVars, s_peers, s_ble_started, uart, linkVars>>

(* The call returns, and its local variables are gone.                     *)
GiveUartLock(t) ==
  /\ pc[t] = "give"
  /\ s_uart_write_lock' = Nil
  /\ msg' = [msg EXCEPT ![t] = 0]
  /\ offset' = [offset EXCEPT ![t] = 0]
  /\ slot' = [slot EXCEPT ![t] = 1]
  /\ Goto(t, "idle")
  /\ UNCHANGED <<messages, s_notify_lock, s_peers, s_ble_started, uart, got, lost, linkVars>>

Holder(t) ==
  \/ uart_write_bytes(t) \/ TakeNotifyLock(t) \/ NextPeer(t) \/ NotifyChunk(t)
  \/ GiveUartLock(t)

(* External: ESP_LOG* of any task, or a part of it.                        *)
esp_log_write ==
  /\ Cardinality(DOMAIN uart \ Printed) < MaxLogs
  /\ uart' = Append(uart, LogText)
  /\ UNCHANGED <<taskVars, lockVars, s_peers, s_ble_started, got, lost, linkVars>>

-----------------------------------------------------------------------------
(* The host task.                                                          *)

find_peer(h) == {i \in Slots : s_peers[i].in_use /\ s_peers[i].conn_handle = h}
free_peers   == {i \in Slots : ~s_peers[i].in_use}
First(S)     == CHOOSE i \in S : \A j \in S : i <= j

(* The table after alloc_peer(h), with notifications as alloc_peer leaves  *)
(* them.                                                                   *)
alloc_peer(h) ==
  IF find_peer(h) # {} \/ free_peers = {} THEN s_peers
  ELSE [s_peers EXCEPT ![First(free_peers)] =
          [in_use |-> TRUE, notify_enabled |-> FALSE, conn_handle |-> h]]

(* Mutant: the peer stays in the table.                                    *)
RemovePeer_Kept(h) == s_peers

remove_peer(h) == [i \in Slots |-> IF i \in find_peer(h) THEN NoPeer ELSE s_peers[i]]

(* The fields are set and the stack starts to advertise; where it refuses, *)
(* that is logged and nothing tries again.                                 *)
advertise ==
  /\ advertising' \in BOOLEAN
  /\ adv_failed' = ~advertising'

(* BLE_GAP_EVENT_CONNECT: the stack has stopped advertising.               *)
Connect(h) ==
  /\ advertising /\ h \notin up /\ links < MaxLinks
  /\ up' = up \cup {h}
  /\ got' = [got EXCEPT ![h] = <<>>]
  /\ lost' = [lost EXCEPT ![h] = {}]
  /\ links' = links + 1
  /\ joined' = [joined EXCEPT ![h] = messages]
  /\ advertising' = FALSE
  /\ s_peers' = alloc_peer(h)
  /\ UNCHANGED <<taskVars, lockVars, s_ble_started, uart, adv_failed, synced>>

(* BLE_GAP_EVENT_CONNECT for a connection that failed, and                 *)
(* BLE_GAP_EVENT_ADV_COMPLETE.                                             *)
AdvertisingEnds ==
  /\ advertising
  /\ advertise
  /\ UNCHANGED <<taskVars, lockVars, s_peers, s_ble_started, uart, got, lost, up, synced, links, joined>>

(* BLE_GAP_EVENT_SUBSCRIBE                                                 *)
Subscribe(h, cur_notify) ==
  /\ h \in up
  /\ s_peers' = [i \in Slots |->
       IF alloc_peer(h)[i].in_use /\ alloc_peer(h)[i].conn_handle = h
       THEN [alloc_peer(h)[i] EXCEPT !.notify_enabled = cur_notify]
       ELSE alloc_peer(h)[i]]
  /\ UNCHANGED <<taskVars, lockVars, s_ble_started, uart, got, lost>>
  /\ UNCHANGED <<up, advertising, adv_failed, synced, links, joined>>

(* Mutant: advertising is not started again.                               *)
Disconnect_Silent(h) ==
  /\ h \in up
  /\ up' = up \ {h}
  /\ s_peers' = remove_peer(h)
  /\ UNCHANGED <<taskVars, lockVars, s_ble_started, uart, got, lost>>
  /\ UNCHANGED <<advertising, adv_failed, synced, links, joined>>

(* BLE_GAP_EVENT_DISCONNECT                                                *)
Disconnect(h) ==
  /\ h \in up
  /\ up' = up \ {h}
  /\ s_peers' = remove_peer(h)
  /\ advertise
  /\ UNCHANGED <<taskVars, lockVars, s_ble_started, uart, got, lost>>
  /\ UNCHANGED <<synced, links, joined>>

(* A host reset breaks every connection, with an event for each; nothing   *)
(* can be advertised until the host is in sync again.                      *)
on_reset ==
  /\ synced /\ Cardinality(up) <= 1
  /\ synced' = FALSE
  /\ up' = {}
  /\ s_peers' = IF up = {} THEN s_peers ELSE remove_peer(CHOOSE h \in up : TRUE)
  /\ advertising' = FALSE /\ adv_failed' = FALSE
  /\ UNCHANGED <<taskVars, lockVars, s_ble_started, uart, got, lost, links, joined>>

(* Without an address of its own the device does not come as far as        *)
(* advertising.                                                            *)
on_sync ==
  /\ ~synced
  /\ synced' = TRUE
  /\ \/ s_ble_started' = TRUE /\ advertise
     \/ advertising' = FALSE /\ adv_failed' = TRUE /\ UNCHANGED s_ble_started
  /\ UNCHANGED <<taskVars, lockVars, s_peers, uart, got, lost, up, links, joined>>

-----------------------------------------------------------------------------
Next ==
  \/ \E t \in Tasks : TakeUartLock(t) \/ Holder(t)
  \/ esp_log_write
  \/ \E h \in Handles : Connect(h) \/ Disconnect(h)
  \/ \E h \in Handles, on \in BOOLEAN : Subscribe(h, on)
  \/ AdvertisingEnds \/ on_reset \/ on_sync

(* A task that holds the lock keeps running: no step of it waits for       *)
(* anything but the UART and the other lock.                               *)
Spec == Init /\ [][Next]_vars /\ \A t \in Tasks : WF_vars(Holder(t))

-----------------------------------------------------------------------------
(* Piece b follows piece a of a line of n pieces, or starts another line,  *)
(* which it may do early when the first is torn.                           *)
Follows(a, b, n, torn) ==
  \/ b.msg = a.msg /\ b.piece = a.piece + 1
  \/ b.msg > a.msg /\ b.piece = 1 /\ (a.piece = n \/ torn)

(* Lines of meb_serial_printf do not mix on the UART, and none is torn by  *)
(* another: log text may come between its pieces, as the README warns, but *)
(* nothing else does.                                                      *)
UartLinesWhole ==
  \A j \in Printed :
    \/ uart[j].piece = 1 /\ \A k \in Printed : j <= k
    \/ \E i \in Printed :
         /\ i < j /\ \A k \in Printed : k <= i \/ j <= k
         /\ Follows(uart[i], uart[j], UART_PIECES, FALSE)

(* README: concatenate notification payloads until a newline.  For every   *)
(* client that gives whole lines, in order, except that a notification     *)
(* that failed costs the rest of its line, and so the line it runs into;   *)
(* and that a client may be sent the end of a line begun for the client    *)
(* before it.                                                              *)
ClientLinesWhole ==
  \A h \in up : \A i \in DOMAIN got[h] :
    IF i = 1 THEN got[h][1].piece = 1 \/ got[h][1].msg <= joined[h]
    ELSE Follows(got[h][i - 1], got[h][i], CHUNKS, got[h][i - 1].msg \in lost[h])

(* The peer table has exactly the live connections, each once.             *)
PeersMatchLinks ==
  /\ \A h \in Handles : Cardinality(find_peer(h)) = (IF h \in up THEN 1 ELSE 0)
  /\ Cardinality(up) <= 1

(* While the host is in sync, a client is connected or one can connect,    *)
(* unless the stack itself refused to advertise: no order of connects,     *)
(* failed connects, disconnects and host resets leaves the device silent.  *)
Reachable == synced => up # {} \/ advertising \/ adv_failed

(* Whoever has the UART lock gives it back.                                *)
UartLockReleased == (s_uart_write_lock # Nil) ~> (s_uart_write_lock = Nil)
=============================================================================
