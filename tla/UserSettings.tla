---------------------------- MODULE UserSettings ----------------------------
(***************************************************************************)
(* Settings on their way from UserSettings to its listeners, of which      *)
(* Telemetry is one.  UserSettings keeps them in PersistentStore and hears *)
(* of every change from there by a job of the store; a job of its own then *)
(* tells the listeners.  A later job may overtake an earlier one, as the   *)
(* pool has several threads.  Telemetry passes the privacy mode on to the  *)
(* telemetry daemon T2 over rbus, and reads it when it is activated.       *)
(*                                                                         *)
(* A set, a get and Dispatch hold _adminLock from beginning to end, so     *)
(* each is one step.  Nobody else writes the keys.  Of the valid values of *)
(* a setting, the default and one other stand for all; anything else is    *)
(* refused.                                                                *)
(***************************************************************************)
EXTENDS Naturals, Sequences

CONSTANTS
    Settings,           \* the settings
    PrivacyMode,        \* the one that Telemetry is interested in
    SettingsPoolThreads,    \* threads of the worker pool
    SettingsFaults,     \* what may go wrong
    MaxChanges          \* bound: calls that set

ASSUME SettingsAssumption ==
    /\ PrivacyMode \in Settings
    /\ SettingsPoolThreads \in Nat \ {0}
    /\ SettingsFaults \subseteq {"set", "get", "rbus"}
    /\ MaxChanges \in Nat

VARIABLES
    stored,         \* the keys in PersistentStore
    storeJobs,      \* jobs of the store
    settingsJobs,   \* jobs of UserSettings
    heard,          \* per setting, what a listener was told last
    telemetry,      \* Telemetry's activation, and the mode it has read
    listening,      \* Telemetry is registered with UserSettings
    t2Mode,         \* external: the privacy mode T2 was told last
    overtaken,      \* history: settings of which a newer job overtook an older one
    missed,         \* history: the last telling of T2 failed, or a job overtook it
    changes         \* counter for the bound

telemetryVars == <<telemetry, listening>>
settingsVars == <<stored, storeJobs, settingsJobs, heard, telemetryVars, t2Mode, overtaken, missed, changes>>

Values == {"default", "other"}
NoValue == "none"
Phase(pc, mode) == [pc |-> pc, mode |-> mode]

SettingsInit ==
    /\ stored \in [Settings -> Values \cup {NoValue}]
    /\ storeJobs = <<>> /\ settingsJobs = <<>>
    /\ heard = [s \in Settings |-> NoValue]
    /\ telemetry = Phase("off", NoValue)
    /\ listening = FALSE
    /\ t2Mode = NoValue
    /\ overtaken = {}
    /\ missed = FALSE
    /\ changes = 0

-----------------------------------------------------------------------------
(* The jobs. *)

LeftChanges(q, k) == SubSeq(q, 1, k - 1) \o SubSeq(q, k + 1, Len(q))
About(q, s) == \E k \in DOMAIN q : q[k].key = s

\* A thread of the pool carries out the kth job, before those that others
\* have taken and not carried out yet.
Overtakes(q, k) ==
    overtaken' = IF \E j \in 1..(k - 1) : q[j].key = q[k].key THEN overtaken \cup {q[k].key}
                 ELSE overtaken

\* What came in the wrong order is past when a setting changes that has no
\* job left.
StartsAnew(s) ==
    overtaken' = IF About(storeJobs, s) \/ About(settingsJobs, s) THEN overtaken ELSE overtaken \ {s}

-----------------------------------------------------------------------------
(* UserSettings *)

\* The store tells of every write.  Only the privacy mode is compared first.
SetUserSettingsValue(s, value) ==
    /\ changes < MaxChanges
    /\ s = PrivacyMode => stored[s] # value
    /\ changes' = changes + 1
    /\ \/ /\ stored' = [stored EXCEPT ![s] = value]
          /\ storeJobs' = Append(storeJobs, [key |-> s, value |-> value])
          /\ StartsAnew(s)
       \/ /\ "set" \in SettingsFaults
          /\ UNCHANGED <<stored, storeJobs, overtaken>>
    /\ UNCHANGED <<settingsJobs, heard, telemetryVars, t2Mode, missed>>

GetUserSettingsValue(s) == IF stored[s] = NoValue THEN "default" ELSE stored[s]

\* That the store has failed goes unnoticed here, and looks like the default.
GetPrivacyMode ==
    {GetUserSettingsValue(PrivacyMode)} \cup (IF "get" \in SettingsFaults THEN {"default"} ELSE {})

ValueChanged(k) ==
    /\ k \in DOMAIN storeJobs
    /\ storeJobs' = LeftChanges(storeJobs, k)
    /\ settingsJobs' = Append(settingsJobs, storeJobs[k])
    /\ Overtakes(storeJobs, k)
    /\ UNCHANGED <<stored, heard, telemetryVars, t2Mode, missed, changes>>

\* notifyT2PrivacyMode: a failure of rbus is only logged.
NotifyT2(mode, outdated) ==
    \/ t2Mode' = mode /\ missed' = outdated
    \/ "rbus" \in SettingsFaults /\ missed' = TRUE /\ UNCHANGED t2Mode

Dispatch(k) ==
    /\ k \in DOMAIN settingsJobs
    /\ settingsJobs' = LeftChanges(settingsJobs, k)
    /\ Overtakes(settingsJobs, k)
    /\ LET e == settingsJobs[k]
           tellT2 == listening /\ e.key = PrivacyMode
       IN  /\ heard' = [heard EXCEPT ![e.key] = e.value]
           /\ IF tellT2 THEN NotifyT2(e.value, FALSE) ELSE UNCHANGED <<t2Mode, missed>>
           /\ telemetry' = IF tellT2 /\ telemetry.pc = "read" THEN [telemetry EXCEPT !.pc = "late"]
                           ELSE telemetry
    /\ UNCHANGED <<stored, storeJobs, listening, changes>>

-----------------------------------------------------------------------------
(* Telemetry *)

unchangedByTelemetry == <<stored, storeJobs, settingsJobs, heard, overtaken, changes>>

RegisterWithSettings ==
    /\ telemetry.pc # "active" /\ ~listening
    /\ listening' = TRUE
    /\ UNCHANGED <<telemetry, t2Mode, missed, unchangedByTelemetry>>

AnyOrder == TRUE
MayRead  == listening

ReadPrivacyMode ==
    /\ telemetry.pc = "off" /\ MayRead
    /\ \E mode \in GetPrivacyMode : telemetry' = Phase("read", mode)
    /\ UNCHANGED <<listening, t2Mode, missed, unchangedByTelemetry>>

\* The mode that was read, even if a job has told a newer one meanwhile.
TellPrivacyMode ==
    /\ telemetry.pc \in {"read", "late"} /\ listening
    /\ NotifyT2(telemetry.mode, telemetry.pc = "late")
    /\ telemetry' = Phase("active", NoValue)
    /\ UNCHANGED <<listening, unchangedByTelemetry>>

TelemetryStops ==
    /\ telemetry.pc = "active"
    /\ telemetry' = Phase("off", NoValue)
    /\ listening' = FALSE
    /\ UNCHANGED <<t2Mode, missed, unchangedByTelemetry>>

-----------------------------------------------------------------------------
SettingsNext ==
    \/ \E s \in Settings, value \in Values : SetUserSettingsValue(s, value)
    \/ \E k \in 1..SettingsPoolThreads : ValueChanged(k) \/ Dispatch(k)
    \/ RegisterWithSettings \/ ReadPrivacyMode \/ TellPrivacyMode \/ TelemetryStops

SettingsSpec == SettingsInit /\ [][SettingsNext]_settingsVars

-----------------------------------------------------------------------------
(* What is claimed. *)

\* When everything under way is done, a listener that has heard of a setting
\* knows its value, and T2 has the privacy mode that UserSettings reports,
\* however changes, the threads of the pool and Telemetry's activation
\* interleave, unless news of that very setting overtook each other, or the
\* last telling of T2 failed or came late.
SettingsFollow ==
    storeJobs = <<>> /\ settingsJobs = <<>> =>
        /\ \A s \in Settings \ overtaken : heard[s] \in {NoValue, stored[s]}
        /\ telemetry.pc = "active" /\ ~missed /\ PrivacyMode \notin overtaken =>
               t2Mode = GetUserSettingsValue(PrivacyMode)
=============================================================================
