-------------------------------- MODULE TrayIcon --------------------------------
(***************************************************************************)
(* The tray icon and its idea of whether it is shown.  The icon lives in   *)
(* Explorer and is gone when Explorer is; a new Explorer says              *)
(* "TaskbarCreated", but so does a change of the DPI, when the icon is     *)
(* still there (issue 417).  Whether the icon is wanted is up to the       *)
(* configuration and, until the welcome page is approved, an override.     *)
(*                                                                         *)
(* Shell_NotifyIcon is external: NIM_ADD works when Explorer runs and the  *)
(* icon is not there, NIM_MODIFY and NIM_DELETE when it is, and an answer  *)
(* is true.                                                                *)
(***************************************************************************)
EXTENDS Naturals

CONSTANTS
  MaxBroadcasts  \* "TaskbarCreated" messages waiting at once

ASSUME TrayAssumption == MaxBroadcasts \in Nat

VARIABLES
  explorer,     \* Explorer has a taskbar
  icon,         \* the icon is in it
  broadcasts,   \* "TaskbarCreated" messages not handled yet
  preference,   \* m_ShowPreference
  showing,      \* m_CurrentlyShowing
  override,     \* m_HideIconOverride
  hideTray,     \* Config::HideTray
  told          \* the window has been told of the configuration

trayVars == <<explorer, icon, broadcasts, preference, showing, override, hideTray, told>>

(* TrayIcon::Show and Hide, from what m_CurrentlyShowing then is. *)
ShowWhen(shown) ==
  /\ preference' = TRUE
  /\ showing' = (shown \/ (explorer /\ ~icon))
  /\ icon' = (icon \/ (~shown /\ explorer))

Hide ==
  /\ preference' = FALSE
  /\ showing' = (showing /\ ~icon)
  /\ icon' = (icon /\ ~showing)

UpdateTrayVisibility(visible) ==
  IF visible THEN ShowWhen(showing) ELSE Hide

(* The configuration is reloaded or reset; the window learns of it through *)
(* ConfigurationChanged.                                                   *)
ReloadConfig ==
  /\ \E hide \in BOOLEAN \ {hideTray} : hideTray' = hide
  /\ told' = FALSE
  /\ UNCHANGED <<explorer, icon, broadcasts, preference, showing, override>>

ConfigurationChanged ==
  /\ ~told
  /\ told' = TRUE
  /\ UpdateTrayVisibility(~override /\ ~hideTray)
  /\ UNCHANGED <<explorer, broadcasts, override, hideTray>>

RemoveHideTrayIconOverride ==
  /\ override
  /\ override' = FALSE
  /\ UpdateTrayVisibility(~hideTray)
  /\ told' = TRUE
  /\ UNCHANGED <<explorer, broadcasts, hideTray>>

(* A NIM_MODIFY that works tells the same Explorer from a new one.  Slips: *)
(* every message is taken for a new Explorer (issue 417); the message is   *)
(* posted again.                                                           *)
TaskbarIsNew ==
  /\ broadcasts > 0
  /\ broadcasts' = broadcasts - 1
  /\ IF preference THEN ShowWhen(FALSE) ELSE showing' = FALSE /\ UNCHANGED <<icon, preference>>
  /\ UNCHANGED <<explorer, override, hideTray, told>>

PostedAgain ==
  /\ broadcasts > 0
  /\ broadcasts' = broadcasts + 1
  /\ IF preference THEN ShowWhen(explorer /\ icon) ELSE UNCHANGED <<icon, preference, showing>>
  /\ UNCHANGED <<explorer, override, hideTray, told>>

TaskbarCreated ==
  /\ broadcasts > 0
  /\ broadcasts' = broadcasts - 1
  /\ LET modified == explorer /\ icon IN
     IF preference
     THEN ShowWhen(modified)
     ELSE showing' = modified /\ UNCHANGED <<icon, preference>>
  /\ UNCHANGED <<explorer, override, hideTray, told>>

(* External: Explorer ends, starts, or answers a change of the DPI. *)
ExplorerEnds ==
  /\ explorer
  /\ explorer' = FALSE /\ icon' = FALSE
  /\ UNCHANGED <<broadcasts, preference, showing, override, hideTray, told>>

ExplorerStarts ==
  /\ ~explorer /\ broadcasts < MaxBroadcasts
  /\ explorer' = TRUE
  /\ broadcasts' = broadcasts + 1
  /\ UNCHANGED <<icon, preference, showing, override, hideTray, told>>

DpiChanges ==
  /\ explorer /\ broadcasts < MaxBroadcasts
  /\ broadcasts' = broadcasts + 1
  /\ UNCHANGED <<explorer, icon, preference, showing, override, hideTray, told>>

TrayInit ==
  /\ explorer \in BOOLEAN /\ icon = FALSE /\ broadcasts = 0
  /\ preference = FALSE /\ showing = FALSE
  /\ override \in BOOLEAN /\ hideTray \in BOOLEAN
  /\ told = FALSE

TrayNext ==
  \/ ReloadConfig \/ ConfigurationChanged \/ RemoveHideTrayIconOverride \/ TaskbarCreated
  \/ ExplorerEnds \/ ExplorerStarts \/ DpiChanges

TraySpec == TrayInit /\ [][TrayNext]_trayVars

-----------------------------------------------------------------------------
TrayTypeOK ==
  /\ explorer \in BOOLEAN /\ icon \in BOOLEAN
  /\ preference \in BOOLEAN /\ showing \in BOOLEAN
  /\ override \in BOOLEAN /\ hideTray \in BOOLEAN /\ told \in BOOLEAN
  /\ broadcasts \in 0 .. MaxBroadcasts

(* Once every "TaskbarCreated" is handled and the window is told of the    *)
(* configuration, a running Explorer has the icon exactly when the         *)
(* configuration and the override want it, and the window knows: neither a *)
(* restart of Explorer, whenever it falls among the changes of the         *)
(* configuration, nor a change of the DPI loses the icon or leaves one     *)
(* that cannot be hidden.                                                  *)
IconFollowsConfig ==
  explorer /\ broadcasts = 0 /\ told => icon = (~override /\ ~hideTray) /\ showing = icon
=============================================================================
