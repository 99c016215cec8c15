------------------------------- MODULE TrayMenu -------------------------------
(***************************************************************************)
(* The menu of the tray icon.  Its items keep a state of their own: they   *)
(* are brought up to date when the menu is shown, and a click sends what   *)
(* the items of the submenu say, whole, to the configuration.              *)
(*                                                                         *)
(* The menu is a XAML flyout, beside which the program goes on, or a       *)
(* classic menu, which Windows tracks in a loop of its own: sent and       *)
(* posted messages are handled there, another click on the icon too, but   *)
(* no APC is, so that the configuration is not reloaded.                   *)
(*                                                                         *)
(* Of the seven submenus there are that of the desktop, which cannot be    *)
(* disabled, and that of visible windows, which can; of the five accents,  *)
(* three, and a classic taskbar is one that cannot blur.                   *)
(***************************************************************************)
EXTENDS Naturals, Sequences

CONSTANTS
  Shades,           \* colours
  DefaultShade,     \* the colour of an appearance by default
  XamlMenuWorks,    \* whether this version of Windows has XAML flyouts that work
  IdBits,           \* width of the identifiers of classic items, 32 in the code
  MaxBuilt,         \* bound: classic menus built
  MaxChanges        \* bound: clicks, and changes from outside

Accents == {"Normal", "Clear", "Blur"}
Radii == {9, 20}
Appearances == [accent : Accents, color : Shades, peek : BOOLEAN, line : BOOLEAN,
                radius : Radii, enabled : BOOLEAN]
StartupStates == {"None", "Disabled", "DisabledByUser", "DisabledByPolicy", "Enabled", "EnabledByPolicy"}

\* There are more identifiers than items.  That powers are numbers is said
\* for the prover, which knows nothing of them.
ASSUME MenuAssumption ==
  /\ DefaultShade \in Shades
  /\ XamlMenuWorks \in BOOLEAN
  /\ IdBits \in Nat /\ 2 ^ IdBits \in Nat /\ 2 ^ IdBits > 16
  /\ MaxBuilt \in Nat /\ MaxChanges \in Nat

VARIABLES
  userConfig,   \* the configuration
  page,       \* the state of the items
  menu,       \* "closed", "xaml" or "classic"
  classic,    \* m_ContextMenu: the identifiers and items of the classic menu
  tracked,    \* the classic menu that Windows shows
  nextId,     \* m_ContextMenuClickableId
  built,      \* classic menus built so far
  taskbar,    \* the type of the taskbar
  startup,    \* the state of the startup task, which Windows keeps; "None" until
              \* there is an m_StartupTask
  asking,     \* RequestEnableAsync is under way
  outdated,   \* the configuration was reloaded since the menu was shown
  count       \* clicks and changes from outside so far

menuVars == <<userConfig, page, menu, classic, tracked, nextId, built, taskbar, startup, asking,
              outdated, count>>

-----------------------------------------------------------------------------
(* The configuration.                                                      *)

DefaultLook(s) ==
  [accent |-> "Clear", color |-> DefaultShade, peek |-> (s = "Visible"), line |-> FALSE,
   radius |-> 9, enabled |-> (s = "Desktop")]

DefaultSettings ==
  [looks |-> [s \in {"Desktop", "Visible"} |-> DefaultLook(s)], disableSaving |-> FALSE, xamlMenu |-> {}]

(* SetXamlContextMenuOverride is called whenever the configuration changes. *)
ShouldUseXamlMenu == IF userConfig.xamlMenu = {} THEN XamlMenuWorks ELSE TRUE \in userConfig.xamlMenu

-----------------------------------------------------------------------------
(* The page and its items, each in a submenu or of the menu itself.        *)

Entries ==
  <<<<"Desktop", "ShowPeek">>, <<"Desktop", "ShowLine">>, <<"Desktop", "Color">>,
    <<"Desktop", "Normal">>, <<"Desktop", "Clear">>, <<"Desktop", "Blur">>,
    <<"Visible", "Enabled">>, <<"Visible", "ShowPeek">>, <<"Visible", "ShowLine">>,
    <<"Visible", "Color">>, <<"Visible", "Normal">>, <<"Visible", "Clear">>,
    <<"Visible", "Blur">>,
    <<"Menu", "ResetSettings">>, <<"Menu", "DisableSaving">>, <<"Menu", "Startup">>>>

Items == {Entries[n] : n \in DOMAIN Entries}

(* SetTaskbarSettings: the checked items of a submenu, and whether they    *)
(* are enabled.                                                            *)
SetTaskbarSettings(look) ==
  [checked |-> look.accent, peek |-> look.peek, line |-> look.line, enabled |-> look.enabled,
   usable |-> look.enabled, colored |-> look.enabled /\ look.accent # "Normal"]

StartupUsable(state) == state \in {"Disabled", "DisabledByUser", "Enabled"}

RefreshMenu ==
  [subs |-> [s \in {"Desktop", "Visible"} |-> SetTaskbarSettings(userConfig.looks[s])],
   type |-> taskbar, blur |-> taskbar = "XAML",
   disableSaving |-> userConfig.disableSaving,
   startup |-> startup \in {"Enabled", "EnabledByPolicy"}, startupUsable |-> StartupUsable(startup)]

Visible(p, item) ==
  CASE item[2] = "ShowPeek" -> p.type = "Classic"
    [] item[2] = "ShowLine" -> p.type = "XAML"
    [] item[2] = "Blur" -> p.blur
    [] OTHER -> TRUE

Usable(p, item) ==
  CASE item[2] = "Startup" -> p.startupUsable
    [] item[2] \in {"Enabled", "ResetSettings", "DisableSaving"} -> TRUE
    [] item[2] = "Color" -> p.subs[item[1]].colored
    [] OTHER -> p.subs[item[1]].usable

(* XAML checks the item that is clicked: one of the radio items, or the    *)
(* other state of a toggle.                                                *)
Toggle(p, item) ==
  CASE item[2] \in Accents -> [p EXCEPT !.subs[item[1]].checked = item[2]]
    [] item[2] = "ShowPeek" -> [p EXCEPT !.subs[item[1]].peek = ~@]
    [] item[2] = "ShowLine" -> [p EXCEPT !.subs[item[1]].line = ~@]
    [] item[2] = "Enabled" -> [p EXCEPT !.subs[item[1]].enabled = ~@]
    [] item[2] = "DisableSaving" -> [p EXCEPT !.disableSaving = ~@]
    [] item[2] = "Startup" -> [p EXCEPT !.startup = ~@]
    [] OTHER -> p

(* The menu transmits neither the colour nor the blur radius.              *)
BuildAppearanceFromSubMenu(sub) ==
  [accent |-> sub.checked, color |-> DefaultShade, peek |-> sub.peek, line |-> sub.line,
   radius |-> 9, enabled |-> sub.enabled]

-----------------------------------------------------------------------------
(* What a click does.                                                      *)

(* Slip: the colour is not restored. *)
KeepNoColor(s, look) == [userConfig EXCEPT !.looks[s] = look]

TaskbarSettingsChanged(s, look) ==
  [userConfig EXCEPT !.looks[s] = [look EXCEPT !.color = userConfig.looks[s].color]]

(* StartupStateChanged asks for the state anew.                            *)
StartupStateChanged ==
  /\ asking' = (asking \/ startup = "Disabled")
  /\ startup' = IF startup = "Enabled" THEN "Disabled" ELSE startup

Trigger(item) ==
  LET p == Toggle(page, item)
  IN  /\ page' = p
      /\ userConfig' =
           CASE item[2] \in Accents \cup {"ShowPeek", "ShowLine", "Enabled"} ->
                  TaskbarSettingsChanged(item[1], BuildAppearanceFromSubMenu(p.subs[item[1]]))
             [] item[2] = "DisableSaving" -> [userConfig EXCEPT !.disableSaving = p.disableSaving]
             [] item[2] = "ResetSettings" -> DefaultSettings
             [] OTHER -> userConfig
      /\ IF item[2] = "Startup" THEN StartupStateChanged ELSE UNCHANGED <<asking, startup>>

-----------------------------------------------------------------------------
(* The classic menu.                                                       *)

(* Slip: zero, which Windows returns when the menu is dismissed, is given. *)
AnyClickableId(id) == id

GetNextClickableId(id) == IF id = 0 THEN 1 ELSE id

(* The counter after the items up to the k-th, of which those that are     *)
(* visible have been given an identifier.                                  *)
IdsUpTo(p, id) ==
  LET after[k \in 0 .. Len(Entries)] ==
        IF k = 0 THEN id
        ELSE IF Visible(p, Entries[k]) THEN (GetNextClickableId(after[k - 1]) + 1) % 2 ^ IdBits
        ELSE after[k - 1]
  IN  after

(* The visible items, by their place in the page.                          *)
BuildContextMenuInner(p) ==
  [n \in {k \in DOMAIN Entries : Visible(p, Entries[k])} |->
     [id |-> GetNextClickableId(IdsUpTo(p, nextId)[n - 1]), item |-> Entries[n]]]

-----------------------------------------------------------------------------
(* The steps.                                                              *)

MenuInit ==
  /\ userConfig = DefaultSettings
  /\ taskbar \in {"Classic", "XAML"}
  /\ startup = "None"
  /\ page = RefreshMenu
  /\ menu = "closed"
  /\ classic = <<>> /\ tracked = <<>> /\ nextId = 0 /\ built = 0
  /\ asking = FALSE /\ outdated = FALSE /\ count = 0

(* TRAY_CALLBACK: the icon is clicked.  A classic menu asked for while one *)
(* is shown takes its place in m_ContextMenu, cannot be tracked, and is    *)
(* destroyed.                                                              *)
ShowAt ==
  /\ page' = RefreshMenu
  /\ outdated' = FALSE
  /\ IF ShouldUseXamlMenu
     THEN menu' = (IF menu = "classic" THEN menu ELSE "xaml") /\ UNCHANGED <<classic, tracked, nextId, built>>
     ELSE LET items == BuildContextMenuInner(page')
          IN  /\ built < MaxBuilt /\ built' = built + 1
              /\ menu' = "classic"
              /\ nextId' = IdsUpTo(page', nextId)[Len(Entries)]
              /\ classic' = IF menu = "classic" THEN <<>> ELSE items
              /\ tracked' = IF menu = "classic" THEN tracked ELSE items
  /\ UNCHANGED <<userConfig, taskbar, startup, asking, count>>

ItemClicked(item) ==
  /\ menu = "xaml" /\ count < MaxChanges
  /\ Visible(page, item) /\ Usable(page, item)
  /\ Trigger(item)
  /\ menu' = "closed" /\ count' = count + 1
  /\ UNCHANGED <<classic, tracked, nextId, built, taskbar, outdated>>

CleanupClassicContextMenu == classic' = <<>> /\ tracked' = <<>>

(* TrackPopupMenu returns the identifier of an item, or zero, and the menu *)
(* is looked up for it.                                                    *)
Returned(id, item) ==
  /\ menu = "classic" /\ count < MaxChanges
  /\ IF \E n \in DOMAIN classic : id # 0 /\ classic[n] = [id |-> id, item |-> item]
     THEN Trigger(item) /\ count' = count + 1
     ELSE UNCHANGED <<page, userConfig, asking, startup, count>>
  /\ menu' = "closed"
  /\ CleanupClassicContextMenu
  /\ UNCHANGED <<nextId, built, taskbar, outdated>>

ClassicItemClicked(item) ==
  \E n \in DOMAIN tracked :
    tracked[n].item = item /\ Usable(page, item) /\ Returned(tracked[n].id, item)

Dismissed ==
  \/ /\ menu = "xaml"
     /\ menu' = "closed"
     /\ UNCHANGED <<userConfig, page, classic, tracked, nextId, built, taskbar, startup, asking, outdated, count>>
  \/ Returned(0, <<"Menu", "ResetSettings">>)

(* The colour picker commits its colour, whatever menu is shown.           *)
ColorCommitted(s, c) ==
  /\ count < MaxChanges /\ count' = count + 1
  /\ userConfig' = [userConfig EXCEPT !.looks[s].color = c]
  /\ UNCHANGED <<page, menu, classic, tracked, nextId, built, taskbar, startup, asking, outdated>>

Edits(look) ==
  {[look EXCEPT !.accent = a] : a \in Accents} \cup {[look EXCEPT !.radius = r] : r \in Radii}
    \cup {[look EXCEPT !.color = c] : c \in Shades}
    \cup {[look EXCEPT !.peek = ~@], [look EXCEPT !.line = ~@], [look EXCEPT !.enabled = ~@]}

(* The file is reloaded: someone has edited an appearance, the saving or   *)
(* the kind of menu.                                                       *)
Reloaded ==
  /\ menu # "classic" /\ count < MaxChanges
  /\ \/ \E s \in DOMAIN userConfig.looks : \E look \in Edits(userConfig.looks[s]) :
          /\ s = "Desktop" => look.enabled
          /\ userConfig' = [userConfig EXCEPT !.looks[s] = look]
     \/ \E b \in BOOLEAN, x \in {{}, {TRUE}, {FALSE}} :
          userConfig' = [userConfig EXCEPT !.disableSaving = b, !.xamlMenu = x]
  /\ outdated' = (menu # "closed") /\ count' = count + 1
  /\ UNCHANGED <<page, menu, classic, tracked, nextId, built, taskbar, startup, asking>>

(* The user answers Windows, or changes the task in its Settings.          *)
EnableAnswered ==
  /\ asking /\ asking' = FALSE
  /\ IF startup = "Disabled" THEN startup' \in {"Enabled", "DisabledByUser"} ELSE UNCHANGED startup
  /\ UNCHANGED <<userConfig, page, menu, classic, tracked, nextId, built, taskbar, outdated, count>>

StartupChanges ==
  /\ startup # "None"
  /\ count < MaxChanges /\ count' = count + 1
  /\ startup' \in StartupStates \ {"None", startup}
  /\ UNCHANGED <<userConfig, page, menu, classic, tracked, nextId, built, taskbar, asking, outdated>>

(* The task that StartupTask.GetAsync gives, when it does.                 *)
AcquireTask ==
  /\ startup = "None" /\ startup' = "Disabled"
  /\ UNCHANGED <<userConfig, page, menu, classic, tracked, nextId, built, taskbar, asking, outdated, count>>

(* Explorer restarts with the other taskbar.                               *)
TaskbarChanges ==
  /\ count < MaxChanges /\ count' = count + 1
  /\ taskbar' \in {"Classic", "XAML"} \ {taskbar}
  /\ UNCHANGED <<userConfig, page, menu, classic, tracked, nextId, built, startup, asking, outdated>>

MenuNext ==
  \/ ShowAt
  \/ \E item \in Items : ItemClicked(item)
  \/ \E item \in Items : ClassicItemClicked(item)
  \/ Dismissed
  \/ \E s \in {"Desktop", "Visible"}, c \in Shades : ColorCommitted(s, c)
  \/ Reloaded \/ AcquireTask \/ EnableAnswered \/ StartupChanges \/ TaskbarChanges

MenuSpec == MenuInit /\ [][MenuNext]_menuVars

-----------------------------------------------------------------------------
(* Everything has its type, and the identifiers of a classic menu are of   *)
(* one item each and never zero, however often menus have been built and   *)
(* the counter has wrapped around, which is what lets a dismissal be told  *)
(* from a click (basecontextmenu.cpp:13).                                  *)
MenuTypeOK ==
  /\ userConfig \in [looks : [{"Desktop", "Visible"} -> Appearances], disableSaving : BOOLEAN,
                   xamlMenu : SUBSET BOOLEAN]
  /\ userConfig.looks["Desktop"].enabled
  /\ menu \in {"closed", "xaml", "classic"}
  /\ taskbar \in {"Classic", "XAML"} /\ startup \in StartupStates
  /\ {asking, outdated} \subseteq BOOLEAN
  /\ nextId \in 0 .. 2 ^ IdBits - 1 /\ built \in 0 .. MaxBuilt
  /\ menu # "classic" => classic = <<>> /\ tracked = <<>>
  /\ classic \in {<<>>, tracked}
  /\ \A m, n \in DOMAIN tracked :
       tracked[m].id # 0 /\ (tracked[m].id = tracked[n].id => m = n)

(* What the user asks for with a click on an item.                         *)
Wanted(item, look) ==
  CASE item[2] \in Accents -> [look EXCEPT !.accent = item[2]]
    [] item[2] = "ShowPeek" -> [look EXCEPT !.peek = ~@]
    [] item[2] = "ShowLine" -> [look EXCEPT !.line = ~@]
    [] item[2] = "Enabled" -> [look EXCEPT !.enabled = ~@]
    [] OTHER -> look

(* Unless the configuration was reloaded while the menu was shown, a click *)
(* on an item of a submenu changes what the item is about, and nothing     *)
(* else but the blur radius, which the code does not keep: not the colour, *)
(* even if a picker has just committed it, not what hidden or unusable     *)
(* items stand for, and not another appearance (mainappwindow.cpp:119).    *)
ClickChangesOneThing ==
  [][userConfig' # userConfig /\ ~outdated =>
       \A item \in Items :
         item[1] # "Menu" /\ (ItemClicked(item) \/ ClassicItemClicked(item))
           => \E r \in Radii : userConfig' =
                [userConfig EXCEPT !.looks[item[1]] = [Wanted(item, @) EXCEPT !.radius = r]]]_menuVars
=============================================================================
