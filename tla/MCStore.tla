--------------------------------- MODULE MCStore ---------------------------------
(***************************************************************************)
(* The configuration and its file, with four configurations: a look the    *)
(* worker upgrades, two it does not, and one with saving disabled; and the *)
(* menu that shows the configuration and changes it.  The file is taken in *)
(* by ConfigStore whatever a click has changed (MenuChanges), and the menu *)
(* takes any reload of the file (Reloaded), so a behaviour follows one of  *)
(* the two, chosen at the start.                                           *)
(***************************************************************************)
EXTENDS ConfigStore, TrayMenu

VARIABLE part

MCDefault == [look |-> "clear", saving |-> TRUE]
MCConfigs == {MCDefault, [look |-> "blur", saving |-> TRUE],
              [look |-> "acrylic", saving |-> TRUE], [look |-> "clear", saving |-> FALSE]}

MCvars == <<storeVars, menuVars, part>>

MCInit ==
  /\ part \in {"file", "menu"}
  /\ StoreInit /\ MenuInit
  /\ part = "file" \/ settings = NoFile
  /\ part = "menu" \/ taskbar = "XAML"

MCNext ==
  /\ UNCHANGED part
  /\ \/ part = "file" /\ StoreNext /\ UNCHANGED menuVars
     \/ part = "menu" /\ MenuNext /\ UNCHANGED storeVars

MCSpec == MCInit /\ [][MCNext]_MCvars /\ StoreFairness
=============================================================================
