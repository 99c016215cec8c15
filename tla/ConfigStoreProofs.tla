--------------------------- MODULE ConfigStoreProofs ---------------------------
(***************************************************************************)
(* Proofs about ConfigStore, for any set of configurations, any disk and   *)
(* any number of edits, menu choices and restarts: its invariants, each of *)
(* which is inductive once the types are known, and that what the program  *)
(* does to settings.json implements SettingsFile.                          *)
(***************************************************************************)
EXTENDS ConfigStore, TLAPS

(* How a file is loaded: into memory, or by way of the timer. *)
LEMMA LoadType ==
  ASSUME settings \in Contents, Load
  PROVE  loaded' \in Contents /\ config' \in Configs
BY ConfigsAssumption DEF Load, Parsed, Contents

LEMMA CallbackType ==
  ASSUME settings \in Contents, config \in Configs, loaded \in Contents,
         timer \in {"none", "off", "set", "due"}, WatcherCallback
  PROVE  loaded' \in Contents /\ config' \in Configs /\ timer' \in {"none", "off", "set", "due"}
BY LoadType DEF WatcherCallback, memory

LEMMA TouchType ==
  ASSUME NEW name \in {"settings", "temp"},
         changes \in SUBSET {"settings", "temp", "overflow"}, Touch(name)
  PROVE  changes' \in SUBSET {"settings", "temp", "overflow"}
BY DEF Touch

LEMMA UpgradedType ==
  ASSUME config \in Configs
  PROVE  Upgraded(config) \in Configs
BY ConfigsAssumption

-----------------------------------------------------------------------------
(* Every variable keeps its type, and what is about to take the place of   *)
(* settings.json is the configuration, or a file cut short by a full disk. *)
THEOREM StoreTypeCorrect == StoreSpec => []StoreTypeOK
<1>1. StoreInit => StoreTypeOK
  BY ConfigsAssumption DEF StoreInit, StoreTypeOK, Contents
<1>2. StoreTypeOK /\ [StoreNext]_storeVars => StoreTypeOK'
  <2> SUFFICES ASSUME StoreTypeOK, [StoreNext]_storeVars
               PROVE  StoreTypeOK'
    OBVIOUS
  <2> USE DEF StoreTypeOK, memory, watching, counters
  <2>1. CASE OverlappedCallback
    <3>1. loaded' \in Contents /\ config' \in Configs /\ timer' \in {"none", "off", "set", "due"}
      BY <2>1, CallbackType DEF OverlappedCallback
    <3> QED
      BY <2>1, <3>1 DEF OverlappedCallback, Rearm
  <2>2. CASE WatchFails
    BY <2>2 DEF WatchFails
  <2>3. CASE TimeIsUp
    BY <2>3 DEF TimeIsUp
  <2>4. CASE TimerCallback
    <3>1. loaded' \in Contents /\ config' \in Configs
      BY <2>4, LoadType DEF TimerCallback
    <3> QED
      BY <2>4, <3>1 DEF TimerCallback
  <2>5. CASE Start
    BY <2>5 DEF Start
  <2>6. CASE StartWatching
    BY <2>6 DEF StartWatching
  <2>7. CASE FirstLoad
    <3>1. loaded' \in Contents /\ config' \in Configs
      BY <2>7, LoadType DEF FirstLoad
    <3> QED
      BY <2>7, <3>1 DEF FirstLoad
  <2>8. CASE Ends
    BY <2>8 DEF Ends
  <2>9. CASE MenuChanges
    BY <2>9 DEF MenuChanges
  <2>10. CASE UpgradeBlur
    BY <2>10, UpgradedType DEF UpgradeBlur
  <2>11. CASE SaveConfig
    <3>1. changes' \in SUBSET {"settings", "temp", "overflow"}
      BY <2>11, TouchType DEF SaveConfig
    <3> QED
      BY <2>11, <3>1 DEF SaveConfig, Contents
  <2>12. CASE SaveToFile
    <3>1. changes' \in SUBSET {"settings", "temp", "overflow"}
      BY <2>12, TouchType DEF SaveToFile
    <3> QED
      BY <2>12, <3>1 DEF SaveToFile, Contents
  <2>13. CASE Replaces
    <3>1. changes' \in SUBSET {"settings", "temp", "overflow"}
      BY <2>13, TouchType DEF Replaces
    <3> QED
      BY <2>13, <3>1 DEF Replaces, Contents
  <2>14. CASE ReplaceFails
    BY <2>14 DEF ReplaceFails
  <2>15. CASE ReplaceLoses
    <3>1. changes' \in SUBSET {"settings", "temp", "overflow"}
      BY <2>15, TouchType DEF ReplaceLoses
    <3> QED
      BY <2>15, <3>1 DEF ReplaceLoses, Contents
  <2>16. CASE NothingToReplace
    BY <2>16 DEF NothingToReplace
  <2>17. CASE Moves
    <3>1. changes' \in SUBSET {"settings", "temp", "overflow"}
      BY <2>17, TouchType DEF Moves
    <3> QED
      BY <2>17, <3>1 DEF Moves, Contents
  <2>18. CASE MoveFails
    BY <2>18 DEF MoveFails
  <2>19. CASE DeleteConfigFile
    <3>1. changes' \in SUBSET {"settings", "temp", "overflow"}
      BY <2>19, TouchType DEF DeleteConfigFile
    <3> QED
      BY <2>19, <3>1 DEF DeleteConfigFile, Contents
  <2>20. CASE Edit
    <3>1. changes' \in SUBSET {"settings", "temp", "overflow"}
      BY <2>20, TouchType DEF Edit
    <3> QED
      BY <2>20, <3>1 DEF Edit, Contents
  <2>21. CASE UNCHANGED storeVars
    BY <2>21 DEF storeVars
  <2> QED
    BY <2>1, <2>2, <2>3, <2>4, <2>5, <2>6, <2>7, <2>8, <2>9, <2>10, <2>11, <2>12,
       <2>13, <2>14, <2>15, <2>16, <2>17, <2>18, <2>19, <2>20, <2>21 DEF StoreNext
<1> QED
  BY <1>1, <1>2, PTL DEF StoreSpec

-----------------------------------------------------------------------------
(* A change that the watch sees is news of settings.json, if it is one. *)
LEMMA TouchTells ==
  ASSUME watch # "ended", Touch("settings")
  PROVE  changes' \cap {"settings", "overflow"} # {}
BY DEF Touch

LEMMA TouchKeeps ==
  ASSUME NEW name, Touch(name), changes \cap {"settings", "overflow"} # {}, watch # "ended"
  PROVE  changes' \cap {"settings", "overflow"} # {}
BY DEF Touch

(* Whatever the order of edits, saves, reloads and re-arming, a watched    *)
(* settings.json that is not the one in use is about to be loaded.         *)
THEOREM ChangesAreNoticed == StoreSpec => []ChangeIsNoticed
<1>1. StoreInit => ChangeIsNoticed
  BY DEF StoreInit, ChangeIsNoticed, Alive
<1>2. StoreTypeOK /\ ChangeIsNoticed /\ [StoreNext]_storeVars => ChangeIsNoticed'
  <2> SUFFICES ASSUME StoreTypeOK, ChangeIsNoticed, [StoreNext]_storeVars,
                      Alive', watch' # "ended", loaded' # settings'
               PROVE  \/ changes' \cap {"settings", "overflow"} # {}
                      \/ timer' \in {"set", "due"}
    BY DEF ChangeIsNoticed
  <2> USE DEF ChangeIsNoticed, Alive, memory, watching, counters
  <2>1. CASE OverlappedCallback
    <3>1. CASE changes \cap {"settings", "overflow"} # {}
      BY <2>1, <3>1 DEF OverlappedCallback, WatcherCallback, Load
    <3>2. CASE changes \cap {"settings", "overflow"} = {}
      BY <2>1, <3>2 DEF OverlappedCallback
    <3> QED
      BY <3>1, <3>2
  <2>2. CASE TimerCallback \/ FirstLoad
    BY <2>2 DEF TimerCallback, FirstLoad, Load
  <2>3. CASE WatchFails \/ Start \/ StartWatching \/ Ends
    BY <2>3 DEF WatchFails, Start, StartWatching, Ends
  <2>4. CASE TimeIsUp
    BY <2>4 DEF TimeIsUp
  <2>5. CASE MenuChanges \/ UpgradeBlur \/ ReplaceFails \/ NothingToReplace \/ MoveFails
    BY <2>5 DEF MenuChanges, UpgradeBlur, ReplaceFails, NothingToReplace, MoveFails
  <2>6. CASE SaveConfig
    BY <2>6, TouchKeeps DEF SaveConfig
  <2>7. CASE SaveToFile
    BY <2>7, TouchKeeps DEF SaveToFile
  <2>8. CASE Replaces \/ ReplaceLoses \/ Moves
    BY <2>8, TouchTells DEF Replaces, ReplaceLoses, Moves
  <2>9. CASE DeleteConfigFile
    BY <2>9, TouchTells DEF DeleteConfigFile
  <2>10. CASE Edit
    BY <2>10, TouchTells DEF Edit
  <2>11. CASE UNCHANGED storeVars
    BY <2>11 DEF storeVars
  <2> QED
    BY <2>1, <2>2, <2>3, <2>4, <2>5, <2>6, <2>7, <2>8, <2>9, <2>10, <2>11 DEF StoreNext
<1> QED
  BY <1>1, <1>2, StoreTypeCorrect, PTL DEF StoreSpec

-----------------------------------------------------------------------------
(* Each step of the program is a step of the file or leaves it alone. *)
LEMMA SavingRefines ==
  ASSUME StoreTypeOK, Replaces \/ Moves
  PROVE  File!Saved \/ File!CutShort
<1> USE DEF Alive, Contents, counters, memory
<1>1. CASE temp = config
  <2>1. settings' = config /\ UNCHANGED <<config, Alive, edits>>
    BY <1>1 DEF Replaces, Moves
  <2> QED
    BY <2>1 DEF File!Saved
<1>2. CASE temp # config
  <2>1. DiskCanFill /\ temp = Broken
    BY <1>2 DEF StoreTypeOK, Replaces, Moves
  <2>2. settings' = Broken /\ UNCHANGED <<config, Alive, edits>>
    BY <2>1 DEF Replaces, Moves
  <2> QED
    BY <2>1, <2>2 DEF File!CutShort
<1> QED
  BY <1>1, <1>2

LEMMA LoadingRefines ==
  ASSUME StoreTypeOK, OverlappedCallback \/ TimerCallback \/ MenuChanges \/ UpgradeBlur
  PROVE  File!Held
<1> USE DEF Alive, counters, memory
<1>1. config' \in Configs
  <2>1. CASE OverlappedCallback
    BY <2>1, CallbackType DEF OverlappedCallback, StoreTypeOK
  <2>2. CASE TimerCallback
    BY <2>2, LoadType DEF TimerCallback, StoreTypeOK
  <2>3. CASE MenuChanges
    BY <2>3 DEF MenuChanges
  <2>4. CASE UpgradeBlur
    BY <2>4, UpgradedType DEF UpgradeBlur, StoreTypeOK
  <2> QED
    BY <2>1, <2>2, <2>3, <2>4
<1>2. Alive /\ UNCHANGED <<settings, Alive, edits>>
  BY DEF OverlappedCallback, TimerCallback, MenuChanges, UpgradeBlur
<1> QED
  BY <1>1, <1>2 DEF File!Held

(* Seen through settings.json, the configuration in memory and whether the *)
(* program runs, ConfigStore implements SettingsFile: a crash between any  *)
(* two calls of a save leaves the old file or the new one.                 *)
THEOREM StoreImplementsFile == StoreSpec => FileChangesAtOnce
<1> USE DEF File!fileVars, Alive, counters, memory, watching
<1>1. StoreInit => File!FileInit
  BY DEF StoreInit, File!FileInit, File!Contents, Contents
<1>2. StoreTypeOK /\ [StoreNext]_storeVars => [File!FileNext]_(File!fileVars)
  <2> SUFFICES ASSUME StoreTypeOK, [StoreNext]_storeVars
               PROVE  File!FileNext \/ UNCHANGED File!fileVars
    OBVIOUS
  <2>1. CASE Replaces \/ Moves
    BY <2>1, SavingRefines DEF File!FileNext
  <2>2. CASE OverlappedCallback \/ TimerCallback \/ MenuChanges \/ UpgradeBlur
    BY <2>2, LoadingRefines DEF File!FileNext
  <2>3. CASE ReplaceLoses \/ DeleteConfigFile
    <3>1. settings' = NoFile /\ UNCHANGED <<config, Alive, edits>>
      BY <2>3 DEF ReplaceLoses, DeleteConfigFile
    <3> QED
      BY <3>1 DEF File!FileNext, File!Lost
  <2>4. CASE Edit
    <3>1. settings' \in Contents /\ edits' = edits + 1 /\ UNCHANGED <<config, Alive>>
      BY <2>4 DEF Edit
    <3> QED
      BY <3>1 DEF File!FileNext, File!ByOthers, File!Contents, Contents
  <2>5. CASE FirstLoad
    <3>1. ~Alive /\ Alive' = TRUE /\ config' = Parsed(settings) /\ UNCHANGED <<settings, edits>>
      BY <2>5 DEF FirstLoad, Load
    <3> QED
      BY <3>1 DEF File!FileNext, File!Started, File!Parsed, Parsed
  <2>6. CASE Ends
    <3>1. Alive' = FALSE /\ UNCHANGED <<settings, config, edits>>
      BY <2>6 DEF Ends
    <3>2. CASE Alive
      BY <3>1, <3>2 DEF File!FileNext, File!Stopped
    <3>3. CASE ~Alive
      BY <3>1, <3>3
    <3> QED
      BY <3>2, <3>3
  <2>7. CASE \/ WatchFails \/ TimeIsUp \/ Start \/ StartWatching \/ SaveConfig
             \/ SaveToFile \/ ReplaceFails \/ NothingToReplace \/ MoveFails
             \/ UNCHANGED storeVars
    BY <2>7 DEF WatchFails, TimeIsUp, Start, StartWatching, SaveConfig,
       SaveToFile, ReplaceFails, NothingToReplace, MoveFails, storeVars
  <2> QED
    BY <2>1, <2>2, <2>3, <2>4, <2>5, <2>6, <2>7 DEF StoreNext
<1> QED
  BY <1>1, <1>2, StoreTypeCorrect, PTL DEF StoreSpec, FileChangesAtOnce, File!FileSpec
=============================================================================
