----------------------------- MODULE Telemetry ------------------------------
(***************************************************************************)
(* The telemetry task of main/control.c and its interval, a setting that   *)
(* main/settings.c keeps in NVS.                                           *)
(*                                                                         *)
(* telemetry.set_interval stores the value in NVS and then in memory, from *)
(* the task of either console, and the consoles run before app_main gets   *)
(* to meb_control_start, which loads the setting.  Every loop of the task  *)
(* reads the interval once, requests the BMS state of charge when it is    *)
(* due, prints an event and sleeps.  Time is in steps of the smallest      *)
(* interval; a task that is ready runs before the next step.               *)
(***************************************************************************)
EXTENDS Integers

CONSTANTS
  MIN_PERIOD,        (* MEB_TELEMETRY_MIN_PERIOD_MS                        *)
  MAX_PERIOD,        (* MEB_TELEMETRY_MAX_PERIOD_MS                        *)
  DEFAULT_PERIOD,    (* MEB_TELEMETRY_PERIOD_MS                            *)
  SOC_POLL_PERIOD,   (* MEB_BMS_SOC_POLL_PERIOD_MS                         *)
  STALE,             (* MEB_CAN_SIGNAL_STALE_MS                            *)
  Consoles,
  Values,            (* intervals hosts ask for, or an old firmware stored *)
  MaxTime            (* bound: uptime                                      *)

ASSUME TelemetryConstants ==
  /\ MIN_PERIOD \in Nat \ {0} /\ MAX_PERIOD \in Nat
  /\ DEFAULT_PERIOD \in MIN_PERIOD .. MAX_PERIOD
  /\ SOC_POLL_PERIOD \in Nat \ {0} /\ STALE \in Nat \ {0}
  /\ Values \subseteq Nat
  /\ MaxTime \in Nat

VARIABLES
  nvs,                    (* "tel_ms" in NVS, or None                      *)
  s_telemetry_interval_ms,
  pc, arg,                (* per console: its place in the set command     *)
  main,                   (* app_main's place in load_telemetry_interval   *)
  loaded,                 (* the value it read                             *)
  now,                    (* uptime                                        *)
  tel,                    (* the telemetry task: "off", "loop" or "print"  *)
  wake,                   (* when its delay ends                           *)
  interval_ms,            (* its local                                     *)
  last_soc_request,       (* its local                                     *)
  soc,                    (* time of the last SoC answer, or None          *)
  asked                   (* a request has not been answered yet           *)

(* History.                                                                *)
VARIABLES
  accepted,      (* the value last accepted, None when NVS is in doubt     *)
  early,         (* it was accepted before the setting was loaded          *)
  overlapped,    (* the last commands to set it were run at the same time  *)
  changed,       (* when s_telemetry_interval_ms last changed              *)
  slept,         (* the delay before the current loop                      *)
  unsent,        (* a SoC request has failed since the last answer         *)
  blank          (* the delay before the last event if it had no SoC       *)
                 (* although none was unsent, otherwise 0                  *)

settingVars == <<nvs, s_telemetry_interval_ms, changed>>
cmdVars     == <<pc, arg, accepted, early, overlapped>>
mainVars    == <<main, loaded>>
telVars     == <<tel, wake, interval_ms, last_soc_request, slept, blank>>
socVars     == <<soc, asked, unsent>>
vars == <<settingVars, cmdVars, mainVars, telVars, socVars, now>>

None == -1

telemetry_interval_is_valid(v) == v >= MIN_PERIOD /\ v <= MAX_PERIOD

Init ==
  /\ nvs \in Values \cup {None} /\ accepted = None
  /\ s_telemetry_interval_ms = DEFAULT_PERIOD
  /\ pc = [c \in Consoles |-> "idle"]
  /\ arg = [c \in Consoles |-> None]
  /\ main = "read" /\ loaded = None
  /\ now = 0
  /\ tel = "off" /\ wake = 0 /\ interval_ms = DEFAULT_PERIOD
  /\ last_soc_request = 0 - SOC_POLL_PERIOD
  /\ soc = None /\ asked = FALSE
  /\ changed = 0 /\ slept = 0 /\ blank = 0
  /\ early = FALSE /\ overlapped = FALSE /\ unsent = FALSE

-----------------------------------------------------------------------------
(* meb_control_set_telemetry_interval_ms                                   *)

Goto(c, place) == pc' = [pc EXCEPT ![c] = place]

set_telemetry_interval_in_memory(v) ==
  /\ s_telemetry_interval_ms' = v
  /\ changed' = IF v = s_telemetry_interval_ms THEN changed ELSE now

(* An invalid value is refused without any effect.                         *)
SetInterval(c, v) ==
  /\ pc[c] = "idle"
  /\ telemetry_interval_is_valid(v)
  /\ arg' = [arg EXCEPT ![c] = v]
  /\ Goto(c, "store")
  /\ overlapped' = (\E d \in Consoles : pc[d] # "idle")
  /\ UNCHANGED <<settingVars, accepted, early, mainVars, telVars, socVars, now>>

(* Mutant: a failed write is taken for a success.                          *)
StoreInNvs_ErrorIgnored(c) ==
  /\ pc[c] = "store"
  /\ nvs' \in {nvs, arg[c]}
  /\ Goto(c, "memory")
  /\ UNCHANGED <<arg, accepted>>
  /\ UNCHANGED <<s_telemetry_interval_ms, changed, early, overlapped>>
  /\ UNCHANGED <<mainVars, telVars, socVars, now>>

(* meb_settings_set_telemetry_interval_ms: success, or a failure before or *)
(* after the value is in NVS.                                              *)
StoreInNvs(c) ==
  /\ pc[c] = "store"
  /\ \/ /\ nvs' = arg[c]
        /\ Goto(c, "memory")
        /\ UNCHANGED <<arg, accepted>>
     \/ /\ nvs' \in {nvs, arg[c]}
        /\ accepted' = IF nvs' = accepted THEN accepted ELSE None
        /\ arg' = [arg EXCEPT ![c] = None]
        /\ Goto(c, "idle")
  /\ UNCHANGED <<s_telemetry_interval_ms, changed, early, overlapped>>
  /\ UNCHANGED <<mainVars, telVars, socVars, now>>

SetInMemory(c) ==
  /\ pc[c] = "memory"
  /\ set_telemetry_interval_in_memory(arg[c])
  /\ accepted' = arg[c]
  /\ early' = (main # "done")
  /\ arg' = [arg EXCEPT ![c] = None]
  /\ Goto(c, "idle")
  /\ UNCHANGED <<nvs, overlapped, mainVars, telVars, socVars, now>>

-----------------------------------------------------------------------------
(* load_telemetry_interval_setting, and the start of the task.             *)
LoadRead ==
  /\ main = "read"
  /\ loaded' = nvs
  /\ main' = "store"
  /\ UNCHANGED <<settingVars, cmdVars, telVars, socVars, now>>

(* Mutant: the stored value is not checked.                                *)
LoadStore_Unchecked ==
  /\ main = "store"
  /\ IF loaded # None
       THEN set_telemetry_interval_in_memory(loaded)
       ELSE UNCHANGED <<s_telemetry_interval_ms, changed>>
  /\ main' = "done"
  /\ loaded' = None
  /\ tel' = "loop"
  /\ wake' = now
  /\ UNCHANGED <<nvs, cmdVars, interval_ms, last_soc_request, slept, blank, socVars, now>>

LoadStore ==
  /\ main = "store"
  /\ IF loaded # None /\ telemetry_interval_is_valid(loaded)
       THEN set_telemetry_interval_in_memory(loaded)
       ELSE UNCHANGED <<s_telemetry_interval_ms, changed>>
  /\ main' = "done"
  /\ loaded' = None
  /\ tel' = "loop"
  /\ wake' = now
  /\ UNCHANGED <<nvs, cmdVars, interval_ms, last_soc_request, slept, blank, socVars, now>>

-----------------------------------------------------------------------------
(* Mutant: the interval is read once, when the task starts.                *)
PollSoc_IntervalKept ==
  /\ tel = "loop" /\ wake <= now
  /\ \/ /\ now - last_soc_request >= SOC_POLL_PERIOD
        /\ \/ last_soc_request' = now /\ asked' = TRUE /\ UNCHANGED unsent
           \/ unsent' = TRUE /\ UNCHANGED <<last_soc_request, asked>>
     \/ /\ now - last_soc_request < SOC_POLL_PERIOD
        /\ UNCHANGED <<last_soc_request, asked, unsent>>
  /\ tel' = "print"
  /\ UNCHANGED <<settingVars, cmdVars, mainVars, wake, interval_ms, slept, blank, soc, now>>

(* Mutant: the poll period starts at the first loop that finds it over.    *)
PollSoc_OneLate ==
  /\ tel = "loop" /\ wake <= now
  /\ interval_ms' = s_telemetry_interval_ms
  /\ \/ /\ now - last_soc_request > SOC_POLL_PERIOD
        /\ \/ last_soc_request' = now /\ asked' = TRUE /\ UNCHANGED unsent
           \/ unsent' = TRUE /\ UNCHANGED <<last_soc_request, asked>>
     \/ /\ now - last_soc_request <= SOC_POLL_PERIOD
        /\ UNCHANGED <<last_soc_request, asked, unsent>>
  /\ tel' = "print"
  /\ UNCHANGED <<settingVars, cmdVars, mainVars, wake, slept, blank, soc, now>>

(* telemetry_task: the interval and the SoC request, which may fail, ...   *)
PollSoc ==
  /\ tel = "loop" /\ wake <= now
  /\ interval_ms' = s_telemetry_interval_ms
  /\ \/ /\ now - last_soc_request >= SOC_POLL_PERIOD
        /\ \/ last_soc_request' = now /\ asked' = TRUE /\ UNCHANGED unsent
           \/ unsent' = TRUE /\ UNCHANGED <<last_soc_request, asked>>
     \/ /\ now - last_soc_request < SOC_POLL_PERIOD
        /\ UNCHANGED <<last_soc_request, asked, unsent>>
  /\ tel' = "print"
  /\ UNCHANGED <<settingVars, cmdVars, mainVars, wake, slept, blank, soc, now>>

(* ... the snapshot and the event, and the delay.                          *)
PrintEvent ==
  /\ tel = "print"
  /\ blank' = IF soc # None /\ ~(now - soc < STALE) /\ ~unsent THEN slept ELSE 0
  /\ wake' = now + interval_ms
  /\ slept' = interval_ms
  /\ tel' = "loop"
  /\ UNCHANGED <<settingVars, cmdVars, mainVars, interval_ms, last_soc_request, socVars, now>>

(* The BMS answers a request at once, which is before the next loop.       *)
SocAnswer ==
  /\ asked
  /\ soc' = now
  /\ asked' = FALSE
  /\ unsent' = FALSE
  /\ UNCHANGED <<settingVars, cmdVars, mainVars, telVars, now>>

Tick ==
  /\ now < MaxTime
  /\ main = "done"
  /\ tel = "loop" /\ wake > now
  /\ ~asked
  /\ now' = now + 1
  /\ UNCHANGED <<settingVars, cmdVars, mainVars, telVars, socVars>>

(* A reset at any time.  meb_settings_init may have to erase NVS.          *)
Restart ==
  /\ s_telemetry_interval_ms' = DEFAULT_PERIOD
  /\ pc' = [c \in Consoles |-> "idle"]
  /\ arg' = [c \in Consoles |-> None]
  /\ main' = "read" /\ loaded' = None
  /\ now' = 0
  /\ tel' = "off" /\ wake' = 0 /\ interval_ms' = DEFAULT_PERIOD
  /\ last_soc_request' = 0 - SOC_POLL_PERIOD
  /\ soc' = None /\ asked' = FALSE
  /\ changed' = 0 /\ slept' = 0 /\ blank' = 0
  /\ early' = FALSE /\ overlapped' = FALSE /\ unsent' = FALSE
  /\ nvs' \in {nvs, None}
  /\ accepted' = IF nvs' = accepted /\ \A c \in Consoles : pc[c] # "memory"
                 THEN accepted ELSE None

Next ==
  \/ \E c \in Consoles :
       (\E v \in Values : SetInterval(c, v)) \/ StoreInNvs(c) \/ SetInMemory(c)
  \/ LoadRead \/ LoadStore
  \/ PollSoc \/ PrintEvent \/ SocAnswer
  \/ Tick \/ Restart

Spec == Init /\ [][Next]_vars

-----------------------------------------------------------------------------
(* Whatever an earlier firmware left in NVS, and whichever write failed,   *)
(* the task never sleeps for less or more than the documented range.       *)
IntervalInRange ==
  /\ telemetry_interval_is_valid(s_telemetry_interval_ms)
  /\ telemetry_interval_is_valid(interval_ms)
  /\ wake <= now + MAX_PERIOD

Quiet == main = "done" /\ \A c \in Consoles : pc[c] = "idle"

(* README: accepted values are stored in NVS and restored on the next      *)
(* boot.  When no command is under way, the value accepted last is in NVS, *)
(* through resets and failed writes, and it is in force unless it was      *)
(* accepted while the setting was being loaded.  Only consoles that set    *)
(* the interval at the same time can leave one value in memory and another *)
(* in NVS.                                                                 *)
AcceptedIsRestored ==
  Quiet /\ ~overlapped /\ accepted # None =>
    nvs = accepted /\ (s_telemetry_interval_ms = accepted \/ early)

(* A new interval is in use once the delay that was running has ended.     *)
NewIntervalSoon ==
  tel = "loop" /\ wake > now /\ interval_ms # s_telemetry_interval_ms =>
    now - changed < interval_ms

(* An event says null for a state of charge that has been read only when   *)
(* requests failed, or the interval is longer than STALE allows for.       *)
SocNotStale == blank > 0 => blank + SOC_POLL_PERIOD > STALE
=============================================================================
