------------------------------ MODULE ConfigStore ------------------------------
(***************************************************************************)
(* ConfigManager and its FolderWatcher.  The configuration is loaded once  *)
(* at the start and again 200 ms after the last change of settings.json    *)
(* that the watcher saw, the program's own saves included.  It is saved    *)
(* to settings.tmp, which then takes the place of settings.json.           *)
(*                                                                         *)
(* The main thread runs these operations one at a time: completions of the *)
(* watch and of the timer are APCs, delivered where Application::Run       *)
(* waits.  Editors and crashes come between any two calls of the file      *)
(* system.                                                                 *)
(***************************************************************************)
EXTENDS Naturals

CONSTANTS
  Configs,      \* configurations: records with look and saving
  Default,      \* Config { }
  NoFile, Broken,
  DiskCanFill,
  MaxEdits,     \* changes of the file by others
  MaxMenus,     \* changes of the configuration from the menu
  MaxRuns       \* times the program is started

VARIABLES
  settings,     \* settings.json
  temp,         \* settings.tmp
  config,       \* m_Config
  loaded,       \* what settings.json held when it was last loaded
  watch,        \* the folder handle: "armed", "idle" (no read pending), "ended"
  changes,      \* names of changed files the system keeps for the watch
  timer,        \* m_ReloadTimer: "none" (not created), "off", "set", "due"
  step,         \* where the main thread is
  edits, menus, runs

storeVars == <<settings, temp, config, loaded, watch,
               changes, timer, step, edits, menus, runs>>

memory == <<config, loaded>>
watching == <<watch, changes, timer>>
counters == <<edits, menus, runs>>

(* ACCENT_ENABLE_BLURBEHIND becomes ACCENT_ENABLE_ACRYLICBLURBEHIND. *)
Upgraded(c) == IF c.look = "blur" THEN [c EXCEPT !.look = "acrylic"] ELSE c

ASSUME ConfigsAssumption ==
  /\ Default \in Configs
  /\ NoFile \notin Configs /\ Broken \notin Configs /\ NoFile # Broken
  /\ DiskCanFill \in BOOLEAN
  /\ \A c \in Configs : Upgraded(c) \in Configs

Contents == Configs \cup {NoFile, Broken}
Parsed(content) == IF content \in Configs THEN content ELSE Default

Alive == step \notin {"dead", "watch", "load"}

-----------------------------------------------------------------------------
(* The watch.                                                              *)

(* The system records that a file of the folder has changed; it keeps the  *)
(* names while there is room, and else only that there was a change.       *)
Touch(name) ==
  changes' \in IF watch = "ended" \/ "overflow" \in changes THEN {changes}
               ELSE {changes \cup {name}, {"overflow"}}

(* FolderWatcher::rearm *)
Rearm == watch' \in {"armed", "ended"}

(* Load, of a file that may be in any state. *)
Load ==
  /\ loaded' = settings
  /\ config' = Parsed(settings)

(* ScheduleReload fails when there is no timer or it cannot be set, and    *)
(* the file is then loaded at once.                                        *)
WatcherCallback ==
  \/ timer # "none" /\ timer' = "set" /\ UNCHANGED memory
  \/ Load /\ UNCHANGED timer

(* OverlappedCallback: the pending read ends with the names kept, or with  *)
(* the news that there were too many.  Slips: that news is not acted upon; *)
(* it is, but the next read is forgotten.                                  *)
OverflowIgnored ==
  /\ step = "run" /\ watch = "armed" /\ changes # {}
  /\ IF "settings" \in changes THEN WatcherCallback ELSE UNCHANGED <<memory, timer>>
  /\ changes' = {}
  /\ Rearm
  /\ UNCHANGED <<settings, temp, step, counters>>

OverflowNotRearmed ==
  /\ step = "run" /\ watch = "armed" /\ changes # {}
  /\ IF changes \cap {"settings", "overflow"} # {}
     THEN WatcherCallback
     ELSE UNCHANGED <<memory, timer>>
  /\ changes' = {}
  /\ IF "overflow" \in changes THEN watch' = "idle" ELSE Rearm
  /\ UNCHANGED <<settings, temp, step, counters>>

OverlappedCallback ==
  /\ step = "run" /\ watch = "armed" /\ changes # {}
  /\ IF changes \cap {"settings", "overflow"} # {}
     THEN WatcherCallback
     ELSE UNCHANGED <<memory, timer>>
  /\ changes' = {}
  /\ Rearm
  /\ UNCHANGED <<settings, temp, step, counters>>

(* The read fails: the folder is not watched any more. *)
WatchFails ==
  /\ step = "run" /\ watch = "armed"
  /\ watch' = "ended" /\ changes' = {}
  /\ UNCHANGED <<settings, temp, memory, timer, step, counters>>

TimeIsUp ==
  /\ timer = "set"
  /\ timer' = "due"
  /\ UNCHANGED <<settings, temp, memory, watch, changes, step, counters>>

TimerCallback ==
  /\ step = "run" /\ timer = "due"
  /\ timer' = "off"
  /\ Load
  /\ UNCHANGED <<settings, temp, watch, changes, step, counters>>

-----------------------------------------------------------------------------
(* Starting: the watch is there before the file is read.                   *)

Start ==
  /\ step = "dead" /\ runs < MaxRuns
  /\ step' = "watch" /\ runs' = runs + 1
  /\ UNCHANGED <<settings, temp, memory, watching, edits, menus>>

StartWatching ==
  /\ step = "watch"
  /\ watch' \in {"armed", "ended"} /\ changes' = {}
  /\ timer' \in {"off", "none"}
  /\ step' = "load"
  /\ UNCHANGED <<settings, temp, memory, counters>>

FirstLoad ==
  /\ step = "load"
  /\ Load
  /\ step' = "run"
  /\ UNCHANGED <<settings, temp, watching, counters>>

(* The process ends: by itself, killed or with the machine. *)
Ends ==
  /\ step # "dead"
  /\ step' = "dead"
  /\ watch' = "ended" /\ changes' = {} /\ timer' = "none"
  /\ UNCHANGED <<settings, temp, memory, counters>>

-----------------------------------------------------------------------------
(* Operations on the configuration.                                        *)

(* TaskbarSettingsChanged, ResetSettingsRequested, a colour picked, saving *)
(* disabled or enabled.  Slip: they do not wait for the end of a save.     *)
MenuAtAnyTime ==
  /\ step # "dead" /\ menus < MaxMenus
  /\ config' \in Configs
  /\ menus' = menus + 1
  /\ UNCHANGED <<settings, temp, loaded, watching, step, edits, runs>>

MenuChanges ==
  /\ step = "run" /\ menus < MaxMenus
  /\ config' \in Configs
  /\ menus' = menus + 1
  /\ UNCHANGED <<settings, temp, loaded, watching, step, edits, runs>>

(* The worker resets on a taskbar that has no blur. *)
UpgradeBlur ==
  /\ step = "run"
  /\ config' = Upgraded(config)
  /\ UNCHANGED <<settings, temp, loaded, watching, step, counters>>

(* EditConfigFile, LicenseApproved and Exit.  SaveConfig does nothing when *)
(* saving is disabled or settings.tmp cannot be opened.                    *)
SaveConfig ==
  /\ step = "run" /\ config.saving
  /\ step' = "save"
  /\ temp' = Broken /\ Touch("temp")
  /\ UNCHANGED <<settings, memory, watch, timer, counters>>

(* SaveToFile does not look at what its writes return. *)
SaveToFile ==
  /\ step = "save"
  /\ temp' \in {config} \cup (IF DiskCanFill THEN {Broken} ELSE {})
  /\ Touch("temp")
  /\ step' = "replace"
  /\ UNCHANGED <<settings, memory, watch, timer, counters>>

(* ReplaceFile, without a backup name: when it cannot rename the new file  *)
(* the old one no longer exists.                                           *)
Replaces ==
  /\ step = "replace" /\ settings # NoFile
  /\ settings' = temp /\ temp' = NoFile
  /\ Touch("settings") /\ step' = "run"
  /\ UNCHANGED <<memory, watch, timer, counters>>

ReplaceFails ==
  /\ step = "replace" /\ settings # NoFile
  /\ step' = "run"
  /\ UNCHANGED <<settings, temp, memory, watching, counters>>

ReplaceLoses ==
  /\ step = "replace" /\ settings # NoFile
  /\ settings' = NoFile
  /\ Touch("settings") /\ step' = "run"
  /\ UNCHANGED <<temp, memory, watch, timer, counters>>

NothingToReplace ==
  /\ step = "replace" /\ settings = NoFile
  /\ step' = "move"
  /\ UNCHANGED <<settings, temp, memory, watching, counters>>

(* MoveFileEx does not overwrite a file that has appeared meanwhile. *)
Moves ==
  /\ step = "move" /\ settings = NoFile
  /\ settings' = temp /\ temp' = NoFile
  /\ Touch("settings") /\ step' = "run"
  /\ UNCHANGED <<memory, watch, timer, counters>>

MoveFails ==
  /\ step = "move"
  /\ step' = "run"
  /\ UNCHANGED <<settings, temp, memory, watching, counters>>

(* Application::Shutdown, while the welcome page is open. *)
DeleteConfigFile ==
  /\ step = "run"
  /\ settings # NoFile
  /\ settings' = NoFile
  /\ Touch("settings")
  /\ UNCHANGED <<temp, memory, watch, timer, step, counters>>

-----------------------------------------------------------------------------
(* An editor writes the file in one go or in pieces, leaves it mistyped,   *)
(* or the user deletes it.                                                 *)
Edit ==
  /\ edits < MaxEdits
  /\ settings' \in Contents
  /\ edits' = edits + 1
  /\ Touch("settings")
  /\ UNCHANGED <<temp, memory, watch, timer, step, menus, runs>>

-----------------------------------------------------------------------------
StoreInit ==
  /\ settings \in Contents /\ temp = NoFile
  /\ config = Default /\ loaded = NoFile
  /\ watch = "ended" /\ changes = {} /\ timer = "none"
  /\ step = "dead"
  /\ edits = 0 /\ menus = 0 /\ runs = 0

StoreNext ==
  \/ OverlappedCallback \/ WatchFails \/ TimeIsUp \/ TimerCallback
  \/ Start \/ StartWatching \/ FirstLoad \/ Ends
  \/ MenuChanges \/ UpgradeBlur
  \/ SaveConfig \/ SaveToFile \/ Replaces \/ ReplaceFails \/ ReplaceLoses
  \/ NothingToReplace \/ Moves \/ MoveFails \/ DeleteConfigFile
  \/ Edit

(* The timer runs out and a save comes to its end.  Between two operations *)
(* the main thread waits alertably, and every such wait delivers the APCs  *)
(* queued: strong fairness, for other operations come in between.          *)
StoreFairness ==
  /\ SF_storeVars(OverlappedCallback)
  /\ WF_storeVars(TimeIsUp)
  /\ SF_storeVars(TimerCallback)
  /\ WF_storeVars(FirstLoad)
  /\ WF_storeVars(SaveToFile)
  /\ WF_storeVars(Replaces \/ ReplaceFails \/ ReplaceLoses \/ NothingToReplace)
  /\ WF_storeVars(Moves \/ MoveFails)

StoreSpec == StoreInit /\ [][StoreNext]_storeVars /\ StoreFairness

-----------------------------------------------------------------------------
(* Properties.                                                             *)

(* Every variable has its type, and the temporary file is complete, but    *)
(* for a full disk, when it is about to take the place of settings.json    *)
(* (configmanager.cpp:312).                                                *)
StoreTypeOK ==
  /\ settings \in Contents /\ temp \in Contents /\ config \in Configs
  /\ loaded \in Contents
  /\ watch \in {"armed", "idle", "ended"}
  /\ changes \in SUBSET {"settings", "temp", "overflow"}
  /\ timer \in {"none", "off", "set", "due"}
  /\ step \in {"dead", "watch", "load", "run", "save", "replace", "move"}
  /\ edits \in Nat
  /\ step \in {"replace", "move"} /\ temp # config => DiskCanFill /\ temp = Broken

(* A settings.json other than the one in use is never overlooked: as long  *)
(* as the folder is watched, a running program has a notification or a     *)
(* timer on its way that will load it, however its changes fall between    *)
(* the watch, the first load, the saves, the reloads and the re-arming     *)
(* (folderwatcher.cpp:12, configmanager.cpp:46).                           *)
ChangeIsNoticed ==
  Alive /\ watch # "ended" /\ loaded # settings =>
    \/ changes \cap {"settings", "overflow"} # {}
    \/ timer \in {"set", "due"}

(* A change of settings.json is eventually loaded by the running program,  *)
(* unless the folder can no longer be watched (configmanager.cpp:209).     *)
FileIsFollowed ==
  Alive /\ watch # "ended" /\ loaded # settings
    ~> loaded = settings \/ watch = "ended" \/ ~Alive

(* To whoever reads settings.json, the program included when it starts     *)
(* again after a crash at any point of a save, it changes all at once      *)
(* (configmanager.cpp:312).                                                *)
File == INSTANCE SettingsFile WITH alive <- Alive
FileChangesAtOnce == File!FileSpec
=============================================================================
