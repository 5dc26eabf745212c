-------------------------- MODULE TelemetryProofs ---------------------------
(***************************************************************************)
(* What the interval setting and the telemetry task promise, for any       *)
(* number of consoles, any values in NVS and any limits: the task sleeps   *)
(* no less and no more than the documented range, a new interval is in use *)
(* after one delay, an accepted one is in NVS and in force, and an event   *)
(* goes without a state of charge only when it must.                       *)
(***************************************************************************)
EXTENDS Telemetry, TLAPS

USE DEF None
USE TelemetryConstants

(* IntervalInRange with what it needs: types, and that the values on their *)
(* way into memory have been checked.                                      *)
ArgsChecked ==
  \A c \in Consoles : pc[c] # "idle" => arg[c] \in Nat /\ telemetry_interval_is_valid(arg[c])

IInv ==
  /\ s_telemetry_interval_ms \in Nat /\ interval_ms \in Nat
  /\ wake \in Nat /\ now \in Nat
  /\ nvs \in Nat \cup {None} /\ loaded \in Nat \cup {None}
  /\ pc \in [Consoles -> {"idle", "store", "memory"}]
  /\ arg \in [Consoles -> Nat \cup {None}]
  /\ ArgsChecked
  /\ IntervalInRange

(* The state after boot is safe: the default lies in the range.            *)
LEMMA InitIInv == Init => IInv
BY DEF Init, IInv, ArgsChecked, IntervalInRange, telemetry_interval_is_valid

(* A console command puts a value into memory only after checking it.      *)
LEMMA CommandIInv ==
  ASSUME IInv, NEW c \in Consoles,
         (\E v \in Values : SetInterval(c, v)) \/ StoreInNvs(c) \/ SetInMemory(c)
  PROVE  IInv'
<1> USE DEF IInv, ArgsChecked, IntervalInRange, telemetry_interval_is_valid, Goto,
            settingVars, mainVars, telVars, socVars
<1>1. CASE \E v \in Values : SetInterval(c, v)
  BY <1>1 DEF SetInterval
<1>2. CASE StoreInNvs(c)
  BY <1>2 DEF StoreInNvs
<1>3. CASE SetInMemory(c)
  BY <1>3 DEF SetInMemory, set_telemetry_interval_in_memory
<1> QED
  BY <1>1, <1>2, <1>3

(* Loading the setting checks it too; the task then sleeps by it.          *)
LEMMA TaskIInv ==
  ASSUME IInv, LoadRead \/ LoadStore \/ PollSoc \/ PrintEvent \/ SocAnswer \/ Tick \/ Restart
  PROVE  IInv'
<1> USE DEF IInv, ArgsChecked, IntervalInRange, telemetry_interval_is_valid,
            settingVars, cmdVars, mainVars, telVars, socVars
<1>1. CASE LoadRead
  BY <1>1 DEF LoadRead
<1>2. CASE LoadStore
  BY <1>2 DEF LoadStore, set_telemetry_interval_in_memory
<1>3. CASE PollSoc
  BY <1>3 DEF PollSoc
<1>4. CASE PrintEvent
  BY <1>4 DEF PrintEvent
<1>5. CASE SocAnswer
  BY <1>5 DEF SocAnswer
<1>6. CASE Tick
  BY <1>6 DEF Tick
<1>7. CASE Restart
  BY <1>7 DEF Restart
<1> QED
  BY <1>1, <1>2, <1>3, <1>4, <1>5, <1>6, <1>7

(* Every step keeps the invariant.                                         *)
LEMMA StepIInv == IInv /\ [Next]_vars => IInv'
<1> SUFFICES ASSUME IInv, [Next]_vars PROVE IInv'
  OBVIOUS
<1>1. CASE Next
  BY <1>1, CommandIInv, TaskIInv DEF Next
<1>2. CASE UNCHANGED vars
  BY <1>2 DEF IInv, ArgsChecked, IntervalInRange, telemetry_interval_is_valid, vars,
              settingVars, cmdVars, mainVars, telVars, socVars
<1> QED
  BY <1>1, <1>2

(* However many consoles race, whatever an older firmware left in NVS and  *)
(* wherever the device is reset, the interval in memory and the sleep of   *)
(* telemetry_task stay in the range that telemetry_interval_is_valid sets. *)
THEOREM IntervalRange == Spec => []IntervalInRange
<1>1. Init => IInv
  BY InitIInv
<1>2. IInv /\ [Next]_vars => IInv'
  BY StepIInv
<1>3. IInv => IntervalInRange
  BY DEF IInv
<1> QED
  BY <1>1, <1>2, <1>3, PTL DEF Spec
-----------------------------------------------------------------------------
(* NewIntervalSoon.  The task loops without time passing between reading   *)
(* the interval and starting its delay, so an interval other than the one  *)
(* in memory was overtaken after the delay began.                          *)
DelayInv ==
  /\ changed \in Nat /\ changed <= now
  /\ tel = "loop" => wake <= now + interval_ms
  /\ tel = "print" /\ interval_ms # s_telemetry_interval_ms => changed = now
  /\ tel = "loop" /\ wake > now /\ interval_ms # s_telemetry_interval_ms =>
       wake <= changed + interval_ms

(* Every step keeps DelayInv.                                              *)
LEMMA StepDelay == IInv /\ DelayInv /\ [Next]_vars => DelayInv'
<1> SUFFICES ASSUME IInv, DelayInv, [Next]_vars PROVE DelayInv'
  OBVIOUS
<1> USE DEF IInv, DelayInv, settingVars, cmdVars, mainVars, telVars, socVars
<1>1. ASSUME NEW c \in Consoles, NEW v \in Values, SetInterval(c, v) PROVE DelayInv'
  BY <1>1 DEF SetInterval
<1>2. ASSUME NEW c \in Consoles, StoreInNvs(c) PROVE DelayInv'
  BY <1>2 DEF StoreInNvs
<1>3. ASSUME NEW c \in Consoles, SetInMemory(c) PROVE DelayInv'
  BY <1>3 DEF SetInMemory, set_telemetry_interval_in_memory, ArgsChecked
<1>4. CASE LoadRead
  BY <1>4 DEF LoadRead
<1>5. CASE LoadStore
  BY <1>5 DEF LoadStore, set_telemetry_interval_in_memory
<1>6. CASE PollSoc
  BY <1>6 DEF PollSoc
<1>7. CASE PrintEvent
  BY <1>7 DEF PrintEvent
<1>8. CASE SocAnswer
  BY <1>8 DEF SocAnswer
<1>9. CASE Tick
  BY <1>9 DEF Tick
<1>10. CASE Restart
  BY <1>10 DEF Restart
<1>11. CASE UNCHANGED vars
  BY <1>11 DEF vars
<1> QED
  BY <1>1, <1>2, <1>3, <1>4, <1>5, <1>6, <1>7, <1>8, <1>9, <1>10, <1>11 DEF Next

(* Whoever sets the interval, and whenever the setting is loaded, the task *)
(* of telemetry_task uses the new value once its running delay is over.    *)
THEOREM NewInterval == Spec => []NewIntervalSoon
<1>1. Init => IInv /\ DelayInv
  BY InitIInv DEF Init, DelayInv
<1>2. IInv /\ DelayInv /\ [Next]_vars => (IInv /\ DelayInv)'
  BY StepIInv, StepDelay
<1>3. IInv /\ DelayInv => NewIntervalSoon
  BY DEF IInv, DelayInv, NewIntervalSoon
<1> QED
  BY <1>1, <1>2, <1>3, PTL DEF Spec

-----------------------------------------------------------------------------
(* SocNotStale.  While no request is unsent, the last one is younger than  *)
(* the poll period at each loop, and a loop follows the one before it      *)
(* after the delay in slept; an answer comes at the time of its request.   *)
SocInv ==
  /\ soc \in Nat \cup {None} /\ last_soc_request \in Int /\ slept \in Nat /\ blank \in Nat
  /\ main # "done" => tel = "off" /\ slept = 0 /\ soc = None /\ ~asked
  /\ asked => last_soc_request = now
  /\ soc # None /\ ~asked => soc = last_soc_request
  /\ tel = "loop" =>
       /\ now <= wake /\ wake <= now + slept
       /\ asked => now < wake
       /\ soc # None /\ ~unsent => wake - slept < last_soc_request + SOC_POLL_PERIOD
  /\ tel = "print" /\ ~unsent => now < last_soc_request + SOC_POLL_PERIOD
  /\ tel = "print" /\ ~unsent /\ soc # None => now < soc + SOC_POLL_PERIOD + slept
  /\ SocNotStale

(* Every step keeps SocInv.                                                *)
LEMMA StepSoc == IInv /\ SocInv /\ [Next]_vars => SocInv'
<1> SUFFICES ASSUME IInv, SocInv, [Next]_vars PROVE SocInv'
  OBVIOUS
<1> USE DEF SocInv, SocNotStale, settingVars, cmdVars, mainVars, telVars, socVars
<1>1. ASSUME NEW c \in Consoles, NEW v \in Values, SetInterval(c, v) PROVE SocInv'
  BY <1>1 DEF SetInterval
<1>2. ASSUME NEW c \in Consoles, StoreInNvs(c) PROVE SocInv'
  BY <1>2 DEF StoreInNvs
<1>3. ASSUME NEW c \in Consoles, SetInMemory(c) PROVE SocInv'
  BY <1>3 DEF SetInMemory
<1>4. CASE LoadRead
  BY <1>4 DEF LoadRead
<1>5. CASE LoadStore
  BY <1>5 DEF LoadStore, IInv
<1>6. CASE PollSoc
  BY <1>6 DEF PollSoc, IInv
<1>7. CASE PrintEvent
  BY <1>7 DEF PrintEvent, IInv, IntervalInRange, telemetry_interval_is_valid
<1>8. CASE SocAnswer
  BY <1>8 DEF SocAnswer, IInv
<1>9. CASE Tick
  BY <1>9 DEF Tick, IInv
<1>10. CASE Restart
  BY <1>10 DEF Restart
<1>11. CASE UNCHANGED vars
  BY <1>11 DEF vars
<1> QED
  BY <1>1, <1>2, <1>3, <1>4, <1>5, <1>6, <1>7, <1>8, <1>9, <1>10, <1>11 DEF Next

(* With any poll period, limits and intervals, an event of telemetry_task  *)
(* says null for a state of charge that has been read only if a request    *)
(* failed or the delay before it is longer than the rest of STALE.         *)
THEOREM SocFresh == Spec => []SocNotStale
<1>1. Init => IInv /\ SocInv
  BY InitIInv DEF Init, SocInv, SocNotStale
<1>2. IInv /\ SocInv /\ [Next]_vars => (IInv /\ SocInv)'
  BY StepIInv, StepSoc
<1>3. SocInv => SocNotStale
  BY DEF SocInv
<1> QED
  BY <1>1, <1>2, <1>3, PTL DEF Spec

-----------------------------------------------------------------------------
(* AcceptedIsRestored.  Between a successful write to NVS and the write to *)
(* memory the two differ; whoever is there will put that right, or a reset *)
(* takes the value back.                                                   *)
NoneInMemory == \A c \in Consoles : pc[c] # "memory"
AllIdle      == \A c \in Consoles : pc[c] = "idle"

(* NVS: unless commands overlap, the only one under way has stored its     *)
(* value, and without one NVS has the value accepted last.                 *)
NvsAgrees ==
  ~overlapped =>
    /\ \A c, d \in Consoles : pc[c] # "idle" /\ pc[d] # "idle" => c = d
    /\ \A c \in Consoles : pc[c] = "memory" => nvs = arg[c]
    /\ AllIdle /\ accepted # None => nvs = accepted

(* Memory: a value accepted in an earlier life is on its way from NVS to   *)
(* memory, or there.                                                       *)
MemoryAgrees ==
  ~early /\ accepted # None /\ NoneInMemory =>
    /\ main \in {"read", "store"} => nvs = accepted
    /\ main = "store" => loaded = accepted
    /\ main = "done" => s_telemetry_interval_ms = accepted

AcceptInv ==
  /\ main \in {"read", "store", "done"}
  /\ accepted # None => accepted \in Nat /\ telemetry_interval_is_valid(accepted)
  /\ early \in BOOLEAN /\ overlapped \in BOOLEAN
  /\ NvsAgrees
  /\ MemoryAgrees

(* A command keeps AcceptInv.                                              *)
LEMMA CommandAccept ==
  ASSUME IInv, AcceptInv, NEW c \in Consoles,
         (\E v \in Values : SetInterval(c, v)) \/ StoreInNvs(c) \/ SetInMemory(c)
  PROVE  AcceptInv'
<1> USE DEF IInv, AcceptInv, NvsAgrees, MemoryAgrees, NoneInMemory, AllIdle, Goto,
            settingVars, mainVars, telVars, socVars
<1>1. CASE \E v \in Values : SetInterval(c, v)
  BY <1>1 DEF SetInterval
<1>2. CASE StoreInNvs(c)
  BY <1>2 DEF StoreInNvs
<1>3. CASE SetInMemory(c)
  BY <1>3 DEF SetInMemory, set_telemetry_interval_in_memory, ArgsChecked
<1> QED
  BY <1>1, <1>2, <1>3

(* Every step keeps AcceptInv.                                             *)
LEMMA StepAccept == IInv /\ AcceptInv /\ [Next]_vars => AcceptInv'
<1> SUFFICES ASSUME IInv, AcceptInv, [Next]_vars PROVE AcceptInv'
  OBVIOUS
<1> USE DEF AcceptInv, NvsAgrees, MemoryAgrees, NoneInMemory, AllIdle,
            settingVars, cmdVars, mainVars, telVars, socVars
<1>1. CASE LoadRead
  BY <1>1 DEF LoadRead
<1>2. CASE LoadStore
  BY <1>2 DEF LoadStore, set_telemetry_interval_in_memory
<1>3. CASE PollSoc
  BY <1>3 DEF PollSoc
<1>4. CASE PrintEvent
  BY <1>4 DEF PrintEvent
<1>5. CASE SocAnswer
  BY <1>5 DEF SocAnswer
<1>6. CASE Tick
  BY <1>6 DEF Tick
<1>7. CASE Restart
  BY <1>7 DEF Restart
<1>8. CASE UNCHANGED vars
  BY <1>8 DEF vars
<1> QED
  BY <1>1, <1>2, <1>3, <1>4, <1>5, <1>6, <1>7, <1>8, CommandAccept DEF Next

(* README's promise for any number of consoles and any failures of NVS: an *)
(* accepted interval is in NVS and in force when commands are over, unless *)
(* meb_control_set_telemetry_interval_ms ran in two tasks at once.         *)
THEOREM AcceptedRestored == Spec => []AcceptedIsRestored
<1>1. Init => IInv /\ AcceptInv
  BY InitIInv DEF Init, AcceptInv, NvsAgrees, MemoryAgrees
<1>2. IInv /\ AcceptInv /\ [Next]_vars => (IInv /\ AcceptInv)'
  BY StepIInv, StepAccept
<1>3. AcceptInv => AcceptedIsRestored
  BY DEF AcceptInv, NvsAgrees, MemoryAgrees, NoneInMemory, AllIdle, AcceptedIsRestored, Quiet
<1> QED
  BY <1>1, <1>2, <1>3, PTL DEF Spec
=============================================================================
