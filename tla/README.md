# meb-commander: TLA+ models, checks and proofs

This directory specifies the firmware of the MEB preheat controller (`src/main`, an
ESP-IDF/FreeRTOS application) in TLA+: modules that follow the C code function by
function, TLC configurations that check them on small instances, and TLAPS proofs of
the results that should hold for every instance.

Run a check with `tlc -config X.cfg M`, a proof with `tlapm M.tla`; `PROJECT.json` lists
the runs, and for every definition the source lines it models.

## The system

The device sits on a car's CAN bus and asks the battery to heat itself. Its parts:

| Part | State | Operations | Talks to |
| --- | --- | --- | --- |
| shared state (`app_state.c`) | heating switch, user timer, deadlines, received signals with their age, session-error latch; one lock | set switch, set timer, apply auto-off, snapshot, take session error, store signals | everybody |
| control task (`control.c`) | local snapshot | each period: auto-off, snapshot, session or heat request | shared state, CAN, consoles |
| telemetry task (`control.c`), settings (`settings.c`) | interval in memory and in NVS, time of the last SoC request | set and load the interval; poll the SoC, print, sleep | NVS, CAN, consoles |
| CAN transmit (`can_bus.c`) | array of frame slots | allocate, hand to the driver, release on refusal or from the transmit-done interrupt | tasks, TWAI driver |
| CAN receive and diagnostics (`can_bus.c`) | bounded queue, interrupt counters and flags, baselines of the last report | interrupt callbacks, receive loop, periodic report | shared state, event log |
| event log (`diagnostics.c`) | ring of events | record, read | every task |
| firmware update (`ota_update.c`) | `s_ota`, no lock | begin, write, end, cancel, reboot | both consoles, flash |
| console input (`serial_console.c`, `ble_console.c`) | the UART driver's ring, line buffers, BLE command queue | assemble lines, queue, process | hosts |
| console output (same files) | two locks, BLE peer table | print a line to the UART and, in notifications, to BLE clients; connect, subscribe, disconnect, reset, sync | hosts |
| JSON-RPC (`serial_console.c`) | none | find method and parameters, call, answer | all of the above |
| status LED (`status_led.c`) | last colour shown | snapshot, show | shared state |
| power management (`power_management.c`) | whether the no-light-sleep lock is held | hold for the grace time and for a debugger | ESP-IDF |
| start-up (`meb-preheat.c`) | none | make each component's objects, start its tasks, abort on failure | all of the above |
| host tools, packaging (`scripts/`) | transfer offset, request numbers | OTA upload, single requests, publishing | consoles |

What makes the code hard: two console tasks execute commands concurrently with the
control, telemetry, CAN and NimBLE host tasks and with interrupts; only some of the state
has a lock; clocks are read before locks are taken; snapshots are used after they are
taken; counters wrap; rings and queues fill up; the device can lose power between any two
steps of an update or a setting; BLE clients vanish in the middle of a line; answers go to
every client, and clients number their requests alike; tasks run while later components
are still being initialised. The list of
hazards, each with its line and the properties that would catch it, is in `PROJECT.json`.

## Modules

| Module | Models | One step is |
| --- | --- | --- |
| `AppState` | the functions of `app_state.c` as operators on the shared variables | a critical section |
| `HeatingControl` (extends `AppState`) | `control_task` with console and CAN tasks | what lies between two points where another task can run |
| `Telemetry` | `telemetry_task`, the interval command, loading it at boot, NVS | one access to NVS, memory or the clock |
| `TxSlots` | transmit slots | a critical section, a driver call, an interrupt |
| `CanDiagnostics` | interrupts, receive task, report | one access to a counter or flag word |
| `CanBus` (extends both) | `can_bus.c` as a whole | as above, where handlers touch both: jointly |
| `DiagLog` | event ring | preparing an event; storing it under the lock |
| `OtaUpdate` | `ota_update.c` from several consoles | what lies between two calls into ESP-IDF |
| `OtaSession` | what the update promises: the abstract session | a whole command |
| `ConsoleInput` | line assembly, BLE queue, command task | one chunk received, one byte looked at |
| `ConsoleOutput` | `meb_serial_printf`, notifications, peer table | one piece of a line, one host event |
| `JsonRpc` | key scanning, value parsing, dispatch, as operators; the JSON a line is, as reference | |
| `Base64` | `decode_base64` as an operator; base64 as bits, as reference | |
| `RpcClients` (extends both, drives `OtaSession`) | the device's commands and answers, the updater, other clients | one command, one answer taken, one timeout |
| `PowerManagement`, `StatusLed` | the debug sleep lock; the LED task | a call into ESP-IDF; a snapshot |
| `Startup` (extends both) | `app_main` with what each init function makes and starts | one object made or task started |

Definitions carry the names of the C functions and variables. Names ending in a phrase
after an underscore, such as `SetHeating_Restarts`, are mutants: plausible bugs, each
marked as such, that a property must detect. No behaviour uses them.

### AppState and HeatingControl

Time is a counter; a minute is `US_PER_MINUTE` ticks. The functions of `app_state.c` run
under `s_lock` and are atomic, except that some read the clock before they take it: those
take a reading `t` between the last known reading and now. The control task is split at
each function it calls. `MAX_CYCLE` names how long one cycle may take, since it prints and
waits for the CAN driver; every bound is stated in terms of it. Signals that are stored
and aged alike are members of a set; the one that decides is `temperature_status_charge`.
History variables (`on_at`, `armed_at`, `decided`, `late`, `rejections`, `sessions`) are
read by the properties only.

### Telemetry

Setting the interval is two steps, NVS and memory, taken by either console, and the
consoles run before `app_main` loads the setting; a write can fail before or after the
value is stored, and the device can be reset anywhere. The telemetry task reads the interval, may send
the SoC request (which may fail), prints and sleeps. A BMS answers before the next tick.

### TxSlots, CanDiagnostics and CanBus

`transmit_fd_frame` is split into allocation, the driver call and the release on refusal;
the transmit-done interrupt may come at any time after the driver took the frame. Once the
node is bus-off the driver completes nothing; the code never recovers it.
`CanDiagnostics` has the words the interrupts count in, modulo `WORD`, and the report,
split at each access. `CanBus` puts them together where one handler touches both: a task
that finds no slot loads, increments and stores the exhaustion counter without a lock
before it returns, the
transmit-done interrupt frees the slot and counts the failure, and leaving the bus is a
change of state. `Scenarios` says which sources are followed together in a behaviour; the
code relates no two of the counters.

### OtaUpdate and OtaSession

Each function is split at its calls into ESP-IDF, any of which may fail; commands come from
every member of `Consoles`. Flash, handles, boot data and the bootloader's fallback are
external and modelled from their use. A digest is the content it is taken of, that is,
SHA-256 is taken to be free of collisions. `OtaSession` has four operations on a session
(phase, size, digest, received, target); the refinement mapping lets a command take effect
at the step after which it can no longer fail.

### ConsoleInput and ConsoleOutput

A byte is `{`, newline or another, with the number of its line and its place there. A
chunk is read in one step and looked at byte by byte, `data` being what is left of it,
while the interrupt, `command_task` and the host go on. The consoles share nothing
on the input side, so a behaviour has one, with a patient host (short lines, finished, one
at a time) or any other. Bytes on the UART go through the driver's ring, which drops what
finds it full. On the output side a line is a number in `UART_PIECES` pieces or
`CHUNKS` notifications. UART0 is ESP-IDF's console too (README of the repository, "UART USB
Protocol"): `esp_log_write` puts log text on it at any time, without the lock, also between
the pieces of a line. The NimBLE host task changes the peer table while a writer walks
it, and starting to advertise may fail, which only the log shows.

### JsonRpc, Base64 and RpcClients

A line is a sequence of tokens, so that scanning for a key meets exactly the strings of
the line; the text of a base64 chunk is a sequence of character codes, since `decode_base64`
is about those. A string with backslashes comes in parts: `parse_string_value` drops the
backslash and keeps what follows, `parse_id_token` keeps both, and `strstr` can find a key
at the end of a string that has an escaped quote before it (`Spells`). Both modules hold the code's operators and, below a line, what they are
compared with: the JSON object the line was made of, and base64 as a matter of bits. Lines
are tried in a step of their own (`TryLine`), which also sends them to the device.

`RpcClients` closes the loop: consoles deliver requests in order, answers go to every
console and may be lost on BLE, `meb_ota_update.py` begins, writes chunk by chunk, ends,
maybe reboots, and stops at the first error or timeout. A timed-out updater leaves its
session, its requests on the way and its late answers to the next one, which numbers its
requests from 1 again. Every command may fail in ESP-IDF (`DriverFails`). The device's
session is `OtaSession`, which `OtaUpdate` implements for one command at a time; commands
of two consoles that overlap are `OtaUpdate`'s subject. Nobody runs two updaters at once.
What the device must read right for an updater to work, its own four kinds of request, is
the assumption `UpdaterUnderstood`, which TLC evaluates by scanning and decoding every one
of them; the history variable `opener` says whose begin opened the session. `Images` has
every image that is announced, which TLC evaluates for the lines tried
(`TriedAnnounceImages`), so that the condition on the digest in `OtaSession` refuses none.
Both consoles drop what comes before a brace, so that the test for it in
`meb_serial_console_process_command` never fails.

### PowerManagement, StatusLed and Startup

`app_main` is the concatenation of what the init functions do, each step making an object
or starting a task, and each may fail, which aborts and begins again. `Uses` says, task by
task, which objects the code of the task touches without asking whether they exist; the
locks are among them, since the code skips a lock that does not exist. The sleep lock of
ESP-IDF counts its holders, next to the flag the code keeps, and its calls may fail. The
monitor and its lock exist in builds with light sleep (`MEB_PM_LIGHT_SLEEP_RUNTIME_ENABLED`).
Of the shared state the LED sees two Booleans, which change at any time.

## Runs

| Run | Shows | Bounds and why they suffice |
| --- | --- | --- |
| `heating_control` | `SafetyLimitHolds`, `UserTimerHolds`, `AutoOffNotEarly`, `RemainingHonest`, `HeatRequestTimely`, `AtMostOneLateRequest`, `SessionsAnswerRejections` | 2 ticks a minute, limit 2 minutes, timers of 0, 1 and 3, staleness 2, one rejection, 9 ticks: the timer is off, before and after the limit, heating runs out and is enabled again, reports grow stale before, during and after a cycle, all in one behaviour |
| `can_bus` | `SlotsOwnedOnce`, `SlotsComeBack`, `CountsAddUp`, `FlagLossOnlyByRace`, `EntryLossOnlyByRace`, `DropsExactUnlessOverlapped`, `EventsReported` | 2 tasks, 2 slots: both tasks and the driver compete, and none may be left; words wrap at 3, queue of 1, two node states, of which passive is entered any number of times around a report; five combinations of sources |
| `diag_log` | `LogIsRecentHistory`, `ViewIsMostRecent` | ring of 3, 7 events, 2 tasks: two full laps |
| `ota_update` | `BootImageComplete`, `ResumePointAgrees`, `NoHandleLeaks`, `ImplementsSession` | images of 1 to 3 chunks, prefixes of each other, 3 sessions per boot, one console |
| `ota_two_consoles` | `RunningImageIntact` | two consoles whose commands interleave at every call into ESP-IDF, partitions of 2 chunks, 2 sessions per boot: one console begins, writes, ends or cancels within the other's command, and restarts come between |
| `ota_cancel_race` | `CancelHonoured` is violated | two consoles |
| `console_input` | `DamageContained`, `PatientHostServed`, `QueuedCommandsRun` | buffer and UART ring of 4, queue of 1, 3 lines of 2, 3 and 6 bytes, chunks up to 3: lines are cut, run into each other and lose bytes |
| `console_reconnect` | `WholeCommands` is violated | two short lines |
| `console_output` | `UartLinesWhole`, `ClientLinesWhole`, `PeersMatchLinks`, `Reachable`, `UartLockReleased` | 2 tasks, 3 lines of 2 pieces, one piece of log text anywhere between them, 2 connections, one peer slot as configured |
| `telemetry` | `IntervalInRange`, `AcceptedIsRestored`, `NewIntervalSoon`, `SocNotStale` | two consoles, intervals 1 to 3 and two out of range, 9 ticks between restarts |
| `rpc_clients` | `ScanAgrees`, `DecodeAgrees`, `FinalizedMeansInstalled`, `UndisturbedUpdateProceeds` | two images of 2 bytes, 3 client processes of at most 8 requests: an updater fails, another client interferes, a second updater follows, and a foreign answer makes it repeat chunks; numbers up to 255 and short buffers, so that both sides of every limit are tried; 1,588 requests, with and without spaces, that vary one part at a time or the order of the members, with escapes among them, and 887 base64 texts, among them all of 4 characters out of 5 kinds |
| `startup` | `ReadyBeforeUse`, `LockFollowsDebugger`, `LedShowsState` | the whole of `app_main`; one abort, at any step or by the LED: after it everything begins anew, so a second adds no state |

`CHECK_DEADLOCK FALSE` stands where a bound on lines, events or connections ends every
behaviour, as hosts and tasks may stop.

### Fairness

- `CanBus`: tasks finish `transmit_fd_frame` (it waits at most 500 ms), and while the
  node is on the bus the driver completes frames it has taken (`fail_retry_cnt` is 3).
  `SlotsComeBack` claims nothing after bus-off. The receive task, whose priority is the
  highest, runs, and time passes. Nothing makes frames or errors arrive or stop, so the
  report must be reached under a steady load.
- `ConsoleInput`: `command_task` runs while its queue is not empty.
- `ConsoleOutput`: a task that holds the UART lock keeps running.
- `Startup`: `app_main` and the two tasks keep running and the grace time ends. ESP-IDF may
  refuse the lock again and again but not for ever: strong fairness of the successful call,
  since the task comes by only once in a period. Aborts are bounded by `MaxAborts`;
  a device that never stops aborting shows nothing.

The other modules state no fairness; their properties are safety properties. In
`RpcClients`, where an answer may always be lost, progress is stated as safety: an
undisturbed updater has not failed, and exactly one request or answer is on its way.

### Findings

- `ota_cancel_race`: `meb_ota_update_end` switches the boot partition before it marks the
  update as finished. A cancel from the other console in between succeeds, and the
  cancelled image boots all the same.
- `console_reconnect`: the BLE line buffer survives a disconnect, so an unfinished line is
  put before the first line of the next client.

Known limits, visible in the properties that hold: an overlong UART line is processed in
parts (`DamageContained` bounds the harm); a failed notification tears a line at that
client (`ClientLinesWhole`); two consoles that set the telemetry interval at the same time
can leave different values in NVS and memory (`AcceptedIsRestored`); error flags and state
entries between two accesses are not reported (`FlagLossOnlyByRace`,
`EntryLossOnlyByRace`); frames dropped by two tasks inside `s_tx_slot_exhaustion_count++`
at once are miscounted, and a report may even say 2^32 - 1, until a report finds no task
there (`DropsExactUnlessOverlapped`); log text can come between the pieces of a line on the
UART (`UartLinesWhole` is about lines among themselves); intervals longer than the staleness limit less the poll period show
no state of charge (`SocNotStale`); one heat request can follow the switch-off
(`AtMostOneLateRequest`); `firmware.*` commands from two consoles at once can spoil the
update and leave an incomplete image to boot, from which the bootloader falls back, but
they never touch the running image (`RunningImageIntact`); bytes that the UART driver
drops go unnoticed and can join two lines (`DamageContained`); when advertising cannot be
started nothing tries again by itself (`Reachable`); a key that occurs twice, or in a
nested object before its place, is taken where it stands first, and the escapes that do not
stand for the character after the backslash are misread: `heating\u002eget` is an unknown
method, and a name with `\n` in it is read with an n (`ScanAgrees` excludes both, by
`Unshadowed` and `PlainEscapes`, and keys written with escapes); an updater that takes a foreign answer for that to end can report a success that
is not its own (`FinalizedMeansInstalled` excludes it); one that follows a dead updater whose
begin and writes are still queued on the other console can, after a cancel, finish that
updater's session and install its image, whole but not its own (four processes in all; the
property promises the own image only in the own session); an updater that died
leaves the session active, and later ones are refused until `firmware.cancel` or a reset;
errors are answered even to requests without an id, with id null.

## Proofs

An invariance proof has `Init => IInv`, `IInv /\ [Next]_vars => IInv'` by one lemma per
action or group of actions, and `IInv => property`. Two theorems are refinements:
`BusRefinesSlots` and `SessionImplemented`. Every inductive invariant named here was
checked with TLC on the instance of the component's run before it was proved.

- `HeatingControlProofs`, for all periods, limits, timers and signals, under
  `AppStateConstants` and `HeatingControlConstants` (the only restrictive one is
  `INITIAL_DELAY <= PERIOD`, true in `app_config.h`). `SafetyLimitHolds` is not inductive:
  that heating is off in time depends on when the control task last woke up. `IInv` adds
  that the deadlines in `app_state.c` are those of the running heating period
  (`DeadlinesMatchHistory`), that a cycle is over by `wake + MAX_CYCLE` and its clock
  readings lie in it (`CycleOnTime`), that a cycle that left heating on began before both
  deadlines (`WakeBeforeDeadlines`), and what the snapshot established when it decided to
  transmit (`DecisionSound`). Theorems `TypeCorrect`, `SafetyLimit`, `UserTimer`,
  `HeatRequests`, `LateRequests`, `Sessions`, and for the action property `AutoOff`.
  `Remaining` (the minutes shown are the time left rounded up, and 0 only when the control
  task is about to act) rests on the lemma `CeilBounds` about the rounding in
  `app_state.c`.
- `CanBusProofs`, for any tasks, slots, payloads, queue and word size. `SlotOwnership` is
  about `TxSlots` alone: the invariant relates `in_use` to the tasks' places and to the
  driver's slots. `BusRefinesSlots`: every step of the
  bus as a whole is a step of `TxSlots` or leaves the slots alone, which carries
  `SlotOwnership` over (`BusSlotOwnership`). `DiagInv` has one part per counter family.
  `CountInv` gives `CountsExact`: a report's difference modulo the word size is the number
  of interrupts since the last one (`MinusInc`). `FlagInv` says what the receive task has
  read when it is about to clear the flags, and gives `FlagLoss`. `EntryInv` gives
  `EntryLoss`: nothing but what comes between the two readings of a word is missing.
  `NoSlotInv` says that while no two tasks have been inside the increment at once, the one
  inside has read the present value, and gives `DropsCounted`. Assumption: bus-off is one
  of the node's states.
- `DiagLogProofs`, for any capacity and tasks: `RecentHistory` and `RecentView`. The
  invariant says slot by slot which event of the history it holds, in this lap or the last
  (`SlotContent`); the rest is arithmetic modulo the capacity.
- `OtaUpdateProofs`, for any number of consoles: `RunningImage`. It covers every
  interleaving on the unlocked `s_ota`. The invariant adds that the boot partition is one
  of the two, so that the bootloader's fallback from an incomplete image is the one that
  ran. For one console, and any images, power losses and refusals by ESP-IDF: `BootImage`,
  `ResumePoint`, `HandlesReturned`, `CancelKept`, and `SessionImplemented`, that each step
  is one of `OtaSession` or a stutter. The restriction is the code's, since two consoles
  refute `CancelHonoured` (run `ota_cancel_race`). `OneInv` is needed because a command
  checks `s_ota` in one step and uses it in later ones: it says which session each place
  of a command finds (`PlaceInv`), whose the open handle is and how much went through it
  (`HandleInv`), that the digest's input is what lies in flash, and that the whole image
  does once the digest matched (`ContentInv`), and when the boot partition is the new one
  (`BootInv`).
- `TelemetryProofs`, for any consoles, limits and NVS content. `IntervalRange`: values on
  their way into memory have been checked. `NewInterval` (`DelayInv`): a sleep that began
  with another interval than the present one ends at most that interval after the change.
  `SocFresh` (`SocInv`) relates the time of the last request to the wake-up that sent it
  and to the sleep before. `AcceptedRestored` (`AcceptInv`): a value accepted last is in
  NVS unless commands overlapped (`NvsAgrees`), and on its way from there to memory after
  a reset (`MemoryAgrees`).
- `StartupProofs`: `ReadyFirst`, for every order in which the tasks run after each step of
  `app_main`. `BootInv` says that what the steps so far make has been made, and that a
  started task finds all it uses. `LockOnce`: the no-light-sleep lock is held once or not
  at all, as `s_debug_pm_lock_held` says, whatever ESP-IDF refuses.
- `ConsoleProofs`, output, for any tasks, peer slots, connections and line lengths, assuming
  that `Nil`, the holder of a free lock, is no task. `LinkInv`: at most one connection, in
  the first slot, and none while advertising; it gives `PeerTable` and `DeviceReachable`.
  `UartWhole` and `ClientWhole` need `WriterInv` (who is inside a line holds
  the lock, and its line is the newest) and, for each stream, that it ends at the piece
  the writer sent last, or at a whole line when nobody is inside one (`UartInv`,
  `ClientInv`); on the UART the log text is left out (`Printed`, `LastPrinted`).
- `ConsoleProofs`, input, for any lines and any sizes of buffer, UART ring, queue and chunk;
  the one restrictive assumption is that the ring holds a line that the buffer holds, true
  of the sizes in the code. `PatientServed` (`PatientInv`): the line under way is cut
  into four consecutive stretches, in the line buffer, in the chunk, in the ring and on the
  wire, so that together they fit the ring and the newline finds the whole line in the
  buffer; a waiting command excludes bytes under way, so the queue has room. `Contained`
  (`InputInv`) has no such equality to rest on, since bytes vanish. Instead, bytes not yet
  looked at come after the byte `seen` last, in order (`StreamInv`); a byte of a sent line
  that comes after `seen` and is no longer under way belongs to a torn line (`LossInv`);
  hence a buffer that is not the beginning of the line of `seen`, gapless up to `seen`,
  consists of bytes of spoilt lines (`LineInv`), and a sound line whose end has been seen has
  been taken (`GoodInv`); what was taken keeps satisfying the property since damage only
  grows (`TakenInv`).
- `RpcClientsProofs`, for any consoles, images, other requests, lines tried, number of
  processes and of requests, under `UpdaterUnderstood`: the proofs never look into the scan
  or the decoder. `Finalized` is not inductive: an answer in flight must already say the
  right thing. `UpdaterInv` says of the
  live updater (`LiveInv`) that a request under way with its number is one of its lines, and
  only the latest has the id it waits for; that an answer with its number has one of its
  ids, and one that reports its end carried out found a whole image installed, its own if
  it opened the session; and that the session it opened announces its image. What is
  installed is what was received: `SessionTypes` says that it equals the announced digest
  whenever the update is the boot target, which rests on the comparison in
  `meb_ota_update_end`. `NumberInv`
  bounds the numbers in use, so that a new process is mistaken for no earlier one.
  `Undisturbed` (`SoloInv`): as long as nothing disturbed the
  updater, it is the only client there was, and for each of its places the session is where
  the updater believes (`InStep`), with the one request or answer under way spelled out.

Only model-checked:

- the liveness properties `SlotsComeBack`, `EventsReported`, `QueuedCommandsRun`,
  `UartLockReleased`, `LockFollowsDebugger` and `LedShowsState`: fairness is outside the
  prover's reach (`LockOnce` proves the safety half of `LockFollowsDebugger`);
- `ScanAgrees` and `DecodeAgrees` of `RpcClients`: what scans of a line and base64 compute,
  by recursion over the line, needs induction over data.

## Not modelled

- Bit layouts of CAN frames: which signal a frame carries is kept, its bits are not. The
  state keeps every field alike, and no property tells the fields apart.
- Bit timing, acceptance filters, GPIO and CPU frequency settings, the GATT table: written
  to ESP-IDF once at start-up. That it happens before use is `Startup`'s.
- The texts of events and answers, with `meb_diag_json_escape`: formatting. Every result
  fits the buffers by their sizes, but for the event log, whose refusal is a case of
  `handle_other`.
- Refusals that change nothing and no property tells from a write that was never made: the
  error returns of `gatt_access_cb` (`ble_console.c:190-204`), for a wrong attribute, an
  empty or too long write, or a buffer that cannot be flattened. The host task is told, and
  the line is as if not sent.
- Failures of tinycrypt's SHA-256 (`ota_update.c:183-186`, `224-226`, `245-248`), which
  needs a null pointer to fail. `esp_ota_abort` and the clearing of `s_ota` after it
  (`ota_update.c:143-146`) are one step.
- `meb_diag_get_status` and `meb_can_get_diagnostics`, which only copy values.
- `can_test_tx_task`, which no regular build contains; it would be another transmitting
  task of `CanBus`.
- Packaging and publishing scripts: file and network I/O on a developer's machine.

## Plan

Done: heating, transmit slots, firmware update, event log, CAN diagnostics, consoles,
telemetry; then the CAN bus as a whole, the UART ring, the clients with request parsing
and base64, start-up with the LED and the power lock.

Proved: every safety property of these but `ScanAgrees` and `DecodeAgrees`, and both
refinements.

Left: the concurrent commands of `OtaUpdate` under the clients of `RpcClients`, that is,
updaters on both consoles at once; today the first module has the overlap and the second
the clients.
