----------------------------- MODULE TrayProofs -----------------------------
(***************************************************************************)
(* Proofs about the tray: TrayIcon, for any number of "TaskbarCreated"     *)
(* messages waiting at once, and TrayMenu, for any colours and width of    *)
(* identifiers.                                                            *)
(***************************************************************************)
EXTENDS TrayIcon, TrayMenu, WellFoundedInduction, TLAPS

(* The number of messages, then the flags. *)
LEMMA BroadcastsInit == TrayInit => broadcasts \in 0 .. MaxBroadcasts
BY TrayAssumption DEF TrayInit

LEMMA BroadcastsStep ==
  ASSUME broadcasts \in 0 .. MaxBroadcasts, [TrayNext]_trayVars
  PROVE  broadcasts' \in 0 .. MaxBroadcasts
<1>1. \/ broadcasts' = broadcasts
      \/ broadcasts > 0 /\ broadcasts' = broadcasts - 1
      \/ broadcasts < MaxBroadcasts /\ broadcasts' = broadcasts + 1
  BY DEF TrayNext, ReloadConfig, ConfigurationChanged, RemoveHideTrayIconOverride, TaskbarCreated,
     ExplorerEnds, ExplorerStarts, DpiChanges, trayVars
<1> QED
  BY <1>1, TrayAssumption

Flags ==
  /\ explorer \in BOOLEAN /\ icon \in BOOLEAN
  /\ preference \in BOOLEAN /\ showing \in BOOLEAN
  /\ override \in BOOLEAN /\ hideTray \in BOOLEAN /\ told \in BOOLEAN

LEMMA FlagsInit == TrayInit => Flags
BY Zenon DEF TrayInit, Flags

LEMMA FlagsStep ==
  ASSUME Flags, [TrayNext]_trayVars
  PROVE  Flags'
<1> USE DEF Flags
<1>1. CASE ReloadConfig
  BY <1>1, Zenon DEF ReloadConfig
<1>2. CASE ConfigurationChanged
  BY <1>2, Zenon DEF ConfigurationChanged, UpdateTrayVisibility, ShowWhen, Hide
<1>3. CASE RemoveHideTrayIconOverride
  BY <1>3, Zenon DEF RemoveHideTrayIconOverride, UpdateTrayVisibility, ShowWhen, Hide
<1>4. CASE TaskbarCreated
  BY <1>4, Zenon DEF TaskbarCreated, ShowWhen
<1>5. CASE ExplorerEnds \/ ExplorerStarts \/ DpiChanges
  BY <1>5, Zenon DEF ExplorerEnds, ExplorerStarts, DpiChanges
<1>6. CASE UNCHANGED trayVars
  BY <1>6, Zenon DEF trayVars
<1> QED
  BY <1>1, <1>2, <1>3, <1>4, <1>5, <1>6 DEF TrayNext

LEMMA TrayTypeIs == TrayTypeOK <=> Flags /\ broadcasts \in 0 .. MaxBroadcasts
BY Zenon DEF TrayTypeOK, Flags

(* Every flag of the icon is a flag, and the messages that wait are no     *)
(* more than the bound.                                                    *)
THEOREM TrayTypeCorrect == TraySpec => []TrayTypeOK
<1>1. TrayInit => TrayTypeOK
  BY BroadcastsInit, FlagsInit, TrayTypeIs
<1>2. TrayTypeOK /\ [TrayNext]_trayVars => TrayTypeOK'
  <2> SUFFICES ASSUME Flags, broadcasts \in 0 .. MaxBroadcasts, [TrayNext]_trayVars
               PROVE  TrayTypeOK'
    BY TrayTypeIs
  <2>1. Flags' /\ broadcasts' \in 0 .. MaxBroadcasts
    BY BroadcastsStep, FlagsStep
  <2> QED
    BY <2>1, Zenon DEF TrayTypeOK, Flags
<1> QED
  BY <1>1, <1>2, PTL DEF TraySpec

-----------------------------------------------------------------------------
(* IconFollowsConfig says nothing while a message waits or the window has  *)
(* not been told.  What holds all the time: an icon is one the window      *)
(* wanted and believes shown, in a running Explorer, so that it can be     *)
(* hidden; what the window wants is what it was last told; and they agree  *)
(* as soon as no message is left, told or not.                             *)
IconIsHeld == icon => explorer /\ showing /\ preference
PreferenceAsTold == told => preference = (~override /\ ~hideTray)
SettledIcon == explorer /\ broadcasts = 0 => icon = preference /\ showing = icon

TrayInv == TrayTypeOK /\ IconIsHeld /\ PreferenceAsTold /\ SettledIcon

(* Neither restarts of Explorer nor changes of the DPI lose the icon or    *)
(* leave one that cannot be hidden.                                        *)
THEOREM IconIsRight == TraySpec => []IconFollowsConfig
<1>1. TrayInit => TrayInv
  <2>1. TrayInit => TrayTypeOK
    BY BroadcastsInit, FlagsInit, TrayTypeIs
  <2>2. TrayInit => IconIsHeld /\ PreferenceAsTold /\ SettledIcon
    BY Zenon DEF TrayInit, IconIsHeld, PreferenceAsTold, SettledIcon
  <2> QED
    BY <2>1, <2>2 DEF TrayInv
<1>2. TrayInv /\ TrayTypeOK' /\ [TrayNext]_trayVars => TrayInv'
  <2> SUFFICES ASSUME TrayInv, TrayTypeOK', [TrayNext]_trayVars
               PROVE  (IconIsHeld /\ PreferenceAsTold /\ SettledIcon)'
    BY DEF TrayInv
  <2> USE TrayAssumption DEF TrayInv, TrayTypeOK, IconIsHeld, PreferenceAsTold, SettledIcon
  <2>1. CASE ReloadConfig
    BY <2>1 DEF ReloadConfig
  <2>2. CASE ConfigurationChanged
    <3>1. CASE ~override /\ ~hideTray
      BY <2>2, <3>1 DEF ConfigurationChanged, UpdateTrayVisibility, ShowWhen
    <3>2. CASE ~(~override /\ ~hideTray)
      BY <2>2, <3>2 DEF ConfigurationChanged, UpdateTrayVisibility, Hide
    <3> QED
      BY <3>1, <3>2
  <2>3. CASE RemoveHideTrayIconOverride
    <3>1. CASE ~hideTray
      BY <2>3, <3>1 DEF RemoveHideTrayIconOverride, UpdateTrayVisibility, ShowWhen
    <3>2. CASE hideTray
      BY <2>3, <3>2 DEF RemoveHideTrayIconOverride, UpdateTrayVisibility, Hide
    <3> QED
      BY <3>1, <3>2
  <2>4. CASE TaskbarCreated
    <3>1. CASE preference
      BY <2>4, <3>1 DEF TaskbarCreated, ShowWhen
    <3>2. CASE ~preference
      BY <2>4, <3>2 DEF TaskbarCreated
    <3> QED
      BY <3>1, <3>2
  <2>5. CASE ExplorerEnds
    BY <2>5 DEF ExplorerEnds
  <2>6. CASE ExplorerStarts \/ DpiChanges
    BY <2>6 DEF ExplorerStarts, DpiChanges
  <2>7. CASE UNCHANGED trayVars
    BY <2>7 DEF trayVars
  <2> QED
    BY <2>1, <2>2, <2>3, <2>4, <2>5, <2>6, <2>7 DEF TrayNext
<1>3. TrayInv => IconFollowsConfig
  BY DEF TrayInv, PreferenceAsTold, SettledIcon, IconFollowsConfig
<1> QED
  BY <1>1, <1>2, <1>3, TrayTypeCorrect, PTL DEF TraySpec

-----------------------------------------------------------------------------
(***************************************************************************)
(* The menu.  While it is shown its submenus say what the configuration    *)
(* does, unless that was reloaded since.                                   *)
(***************************************************************************)
Submenus == {"Desktop", "Visible"}
SubItems == {"ShowPeek", "ShowLine", "Enabled"}
Settings == [looks : [Submenus -> Appearances], disableSaving : BOOLEAN, xamlMenu : SUBSET BOOLEAN]
States == [checked : Accents, peek : BOOLEAN, line : BOOLEAN, enabled : BOOLEAN, usable : BOOLEAN, colored : BOOLEAN]
Pages == [subs : [Submenus -> States], type : {"Classic", "XAML"}, blur : BOOLEAN, disableSaving : BOOLEAN,
          startup : BOOLEAN, startupUsable : BOOLEAN]
Shown == [s \in Submenus |-> SetTaskbarSettings(userConfig.looks[s])]

MenuInv ==
  /\ userConfig \in Settings /\ page \in Pages /\ taskbar \in {"Classic", "XAML"}
  /\ menu # "closed" /\ ~outdated => page.subs = Shown

LEMMA ItemKinds ==
  ASSUME NEW item \in Items, item[1] # "Menu"
  PROVE  item[1] \in Submenus /\ item[2] \in Accents \cup SubItems \cup {"Color"} /\ item = <<item[1], item[2]>>
<1>1. PICK n \in DOMAIN Entries : item = Entries[n]
  BY DEF Items
<1>2. n \in 1 .. 16
  BY <1>1 DEF Entries
<1> QED
  BY <1>1, <1>2 DEF Entries, Submenus, SubItems, Accents

LEMMA LookStates ==
  ASSUME NEW look \in Appearances
  PROVE  SetTaskbarSettings(look) \in States
BY DEF SetTaskbarSettings, States, Appearances

LEMMA PagesAre ==
  ASSUME userConfig \in Settings, taskbar \in {"Classic", "XAML"}
  PROVE  RefreshMenu \in Pages /\ RefreshMenu.subs = Shown
<1>1. Shown \in [Submenus -> States]
  BY LookStates DEF Shown, Settings
<1>2. RefreshMenu.subs = Shown
  BY DEF RefreshMenu, Shown, Submenus
<1>3. StartupUsable(startup) \in BOOLEAN
  BY DEF StartupUsable
<1> DEFINE b == taskbar = "XAML"
           o == startup \in {"Enabled", "EnabledByPolicy"}
           u == StartupUsable(startup)
<1>4. b \in BOOLEAN /\ o \in BOOLEAN /\ u \in BOOLEAN
  BY <1>3
<1>5. RefreshMenu = [subs |-> Shown, type |-> taskbar, blur |-> b, disableSaving |-> userConfig.disableSaving,
                     startup |-> o, startupUsable |-> u]
  BY DEF RefreshMenu, Shown, Submenus
<1>6. userConfig.disableSaving \in BOOLEAN
  BY DEF Settings
<1> HIDE DEF b, o, u, Shown
<1> QED
  BY <1>1, <1>2, <1>4, <1>5, <1>6 DEF Pages

(* A click on an item of a submenu changes what that item is about. *)
LEMMA ToggledStates ==
  ASSUME NEW p \in Pages, NEW s \in Submenus, NEW kind \in Accents \cup SubItems \cup {"Color"}
  PROVE  LET q == Toggle(p, <<s, kind>>)
         IN  /\ q \in Pages
             /\ q.subs[s].checked = IF kind \in Accents THEN kind ELSE p.subs[s].checked
             /\ q.subs[s].peek = IF kind = "ShowPeek" THEN ~p.subs[s].peek ELSE p.subs[s].peek
             /\ q.subs[s].line = IF kind = "ShowLine" THEN ~p.subs[s].line ELSE p.subs[s].line
             /\ q.subs[s].enabled = IF kind = "Enabled" THEN ~p.subs[s].enabled ELSE p.subs[s].enabled
<1>1. p.subs \in [Submenus -> States] /\ p.subs[s] \in States
  BY DEF Pages
<1>2. CASE kind \in Accents
  <2>1. Toggle(p, <<s, kind>>) = [p EXCEPT !.subs[s].checked = kind]
    BY <1>2 DEF Toggle, Accents
  <2> QED
    BY <1>1, <1>2, <2>1 DEF Pages, States, Accents
<1>3. CASE kind = "ShowPeek"
  <2> DEFINE b == ~p.subs[s].peek
             q == Toggle(p, <<s, kind>>)
  <2>1. q = [p EXCEPT !.subs[s].peek = b]
    BY <1>3 DEF Toggle, Accents
  <2>2. b \in BOOLEAN /\ (b <=> ~p.subs[s].peek)
    OBVIOUS
  <2> HIDE DEF b, q
  <2>3. q \in Pages /\ q.subs[s].peek = b /\ q.subs[s].checked = p.subs[s].checked /\ q.subs[s].line = p.subs[s].line /\ q.subs[s].enabled = p.subs[s].enabled
    BY <1>1, <2>1, <2>2 DEF Pages, States
  <2>4. p.subs[s].peek \in BOOLEAN
    BY <1>1 DEF States
  <2> QED
    BY <1>3, <2>2, <2>3, <2>4 DEF Accents, q, b
<1>4. CASE kind = "ShowLine"
  <2> DEFINE b == ~p.subs[s].line
             q == Toggle(p, <<s, kind>>)
  <2>1. q = [p EXCEPT !.subs[s].line = b]
    BY <1>4 DEF Toggle, Accents
  <2>2. b \in BOOLEAN /\ (b <=> ~p.subs[s].line)
    OBVIOUS
  <2> HIDE DEF b, q
  <2>3. q \in Pages /\ q.subs[s].line = b /\ q.subs[s].checked = p.subs[s].checked /\ q.subs[s].peek = p.subs[s].peek /\ q.subs[s].enabled = p.subs[s].enabled
    BY <1>1, <2>1, <2>2 DEF Pages, States
  <2>4. p.subs[s].line \in BOOLEAN
    BY <1>1 DEF States
  <2> QED
    BY <1>4, <2>2, <2>3, <2>4 DEF Accents, q, b
<1>5. CASE kind = "Enabled"
  <2> DEFINE b == ~p.subs[s].enabled
             q == Toggle(p, <<s, kind>>)
  <2>1. q = [p EXCEPT !.subs[s].enabled = b]
    BY <1>5 DEF Toggle, Accents
  <2>2. b \in BOOLEAN /\ (b <=> ~p.subs[s].enabled)
    OBVIOUS
  <2> HIDE DEF b, q
  <2>3. q \in Pages /\ q.subs[s].enabled = b /\ q.subs[s].checked = p.subs[s].checked /\ q.subs[s].peek = p.subs[s].peek /\ q.subs[s].line = p.subs[s].line
    BY <1>1, <2>1, <2>2 DEF Pages, States
  <2>4. p.subs[s].enabled \in BOOLEAN
    BY <1>1 DEF States
  <2> QED
    BY <1>5, <2>2, <2>3, <2>4 DEF Accents, q, b
<1>6. CASE kind = "Color"
  <2>1. Toggle(p, <<s, kind>>) = p
    BY <1>6 DEF Toggle, Accents
  <2> QED
    BY <1>6, <2>1 DEF Accents
<1> QED
  BY <1>2, <1>3, <1>4, <1>5, <1>6 DEF SubItems

(* The appearance a click sends, but for the colour. *)
LEMMA BuiltLook ==
  ASSUME NEW look \in Appearances, NEW kind \in Accents \cup SubItems, NEW p \in Pages, NEW s \in Submenus,
         p.subs[s] = SetTaskbarSettings(look)
  PROVE  LET became == [BuildAppearanceFromSubMenu(Toggle(p, <<s, kind>>).subs[s]) EXCEPT !.color = look.color]
         IN  became \in Appearances /\ became = [Wanted(<<s, kind>>, look) EXCEPT !.radius = 9]
<1> DEFINE q == Toggle(p, <<s, kind>>)
           st == q.subs[s]
           w == Wanted(<<s, kind>>, look)
           v == [w EXCEPT !.radius = 9]
           b == [BuildAppearanceFromSubMenu(st) EXCEPT !.color = look.color]
<1>1. /\ q \in Pages
      /\ st.checked = IF kind \in Accents THEN kind ELSE look.accent
      /\ st.peek = IF kind = "ShowPeek" THEN ~look.peek ELSE look.peek
      /\ st.line = IF kind = "ShowLine" THEN ~look.line ELSE look.line
      /\ st.enabled = IF kind = "Enabled" THEN ~look.enabled ELSE look.enabled
  BY ToggledStates DEF SetTaskbarSettings
<1> HIDE DEF q
<1>2. st \in States
  BY <1>1 DEF Pages
<1> HIDE DEF st
<1>3. b = [accent |-> st.checked, color |-> look.color, peek |-> st.peek, line |-> st.line, radius |-> 9, enabled |-> st.enabled]
  BY DEF BuildAppearanceFromSubMenu
<1>4. b \in Appearances
  BY <1>2, <1>3 DEF States, Appearances, Radii
<1> HIDE DEF b
<1>5. w \in Appearances /\ w.color = look.color /\ w.accent = st.checked
      /\ w.peek = st.peek /\ w.line = st.line /\ w.enabled = st.enabled
  <2>1. CASE kind \in Accents
    <3>1. w = [look EXCEPT !.accent = kind]
      BY <2>1 DEF Wanted, Accents
    <3> HIDE DEF w
    <3>2. w \in Appearances /\ w.color = look.color /\ w.accent = kind /\ w.peek = look.peek /\ w.line = look.line
          /\ w.enabled = look.enabled
      BY <2>1, <3>1 DEF Appearances
    <3> QED
      BY <1>1, <2>1, <3>2 DEF Accents
  <2>2. CASE kind = "ShowPeek"
    <3> DEFINE c == ~look.peek
    <3>1. w = [look EXCEPT !.peek = c]
      BY <2>2 DEF Wanted, Accents
    <3>2. c \in BOOLEAN /\ st.peek = c
      BY <1>1, <2>2
    <3> HIDE DEF w, c
    <3>3. w \in Appearances /\ w.color = look.color /\ w.accent = look.accent /\ w.peek = c
          /\ w.line = look.line /\ w.enabled = look.enabled
      BY <3>1, <3>2 DEF Appearances
    <3> QED
      BY <1>1, <2>2, <3>2, <3>3 DEF Accents
  <2>3. CASE kind = "ShowLine"
    <3> DEFINE c == ~look.line
    <3>1. w = [look EXCEPT !.line = c]
      BY <2>3 DEF Wanted, Accents
    <3>2. c \in BOOLEAN /\ st.line = c
      BY <1>1, <2>3
    <3> HIDE DEF w, c
    <3>3. w \in Appearances /\ w.color = look.color /\ w.accent = look.accent /\ w.line = c
          /\ w.peek = look.peek /\ w.enabled = look.enabled
      BY <3>1, <3>2 DEF Appearances
    <3> QED
      BY <1>1, <2>3, <3>2, <3>3 DEF Accents
  <2>4. CASE kind = "Enabled"
    <3> DEFINE c == ~look.enabled
    <3>1. w = [look EXCEPT !.enabled = c]
      BY <2>4 DEF Wanted, Accents
    <3>2. c \in BOOLEAN /\ st.enabled = c
      BY <1>1, <2>4
    <3> HIDE DEF w, c
    <3>3. w \in Appearances /\ w.color = look.color /\ w.accent = look.accent /\ w.enabled = c
          /\ w.peek = look.peek /\ w.line = look.line
      BY <3>1, <3>2 DEF Appearances
    <3> QED
      BY <1>1, <2>4, <3>2, <3>3 DEF Accents
  <2> QED
    BY <2>1, <2>2, <2>3, <2>4 DEF SubItems
<1> HIDE DEF w
<1>6. v = [accent |-> w.accent, color |-> w.color, peek |-> w.peek, line |-> w.line, radius |-> 9, enabled |-> w.enabled]
  BY <1>5 DEF Appearances
<1> HIDE DEF v
<1>7. b = v
  BY <1>3, <1>5, <1>6
<1> QED
  BY <1>4, <1>7 DEF b, v, w, st, q

LEMMA DefaultsAre == DefaultSettings \in Settings
<1>1. ASSUME NEW s \in Submenus PROVE DefaultLook(s) \in Appearances
  <2> DEFINE p == s = "Visible"
             d == s = "Desktop"
  <2>1. DefaultLook(s) = [accent |-> "Clear", color |-> DefaultShade, peek |-> p, line |-> FALSE, radius |-> 9, enabled |-> d]
    BY DEF DefaultLook
  <2>2. p \in BOOLEAN /\ d \in BOOLEAN
    OBVIOUS
  <2> HIDE DEF p, d
  <2> QED
    BY <2>1, <2>2, MenuAssumption DEF Appearances, Accents, Radii
<1> QED
  BY <1>1 DEF DefaultSettings, Settings, Submenus

LEMMA EditsAre ==
  ASSUME NEW look \in Appearances
  PROVE  Edits(look) \subseteq Appearances
<1>1. ASSUME NEW b \in BOOLEAN
      PROVE  /\ [look EXCEPT !.peek = b] \in Appearances /\ [look EXCEPT !.line = b] \in Appearances
             /\ [look EXCEPT !.enabled = b] \in Appearances
  BY DEF Appearances
<1>2. /\ \A a \in Accents : [look EXCEPT !.accent = a] \in Appearances
      /\ \A r \in Radii : [look EXCEPT !.radius = r] \in Appearances
      /\ \A c \in Shades : [look EXCEPT !.color = c] \in Appearances
  BY DEF Appearances
<1> QED
  BY <1>1, <1>2 DEF Edits

LEMMA TriggerSends ==
  ASSUME NEW item, item[2] \in Accents \cup SubItems, Trigger(item)
  PROVE  userConfig' = TaskbarSettingsChanged(item[1], BuildAppearanceFromSubMenu(Toggle(page, item).subs[item[1]]))
BY DEF Trigger, Accents, SubItems

LEMMA TriggerFields ==
  ASSUME userConfig \in Settings, page \in Pages, NEW item \in Items, Trigger(item)
  PROVE  /\ userConfig' \in Settings /\ page' \in Pages
         /\ page.subs = Shown /\ item[1] # "Menu" /\ userConfig' # userConfig =>
              userConfig' = [userConfig EXCEPT !.looks[item[1]] = [Wanted(item, @) EXCEPT !.radius = 9]]
<1> DEFINE s == item[1]
           kind == item[2]
<1>1. CASE s # "Menu"
  <2>1. s \in Submenus /\ kind \in Accents \cup SubItems \cup {"Color"} /\ item = <<s, kind>>
    BY <1>1, ItemKinds
  <2> DEFINE q == Toggle(page, <<s, kind>>)
             became == [BuildAppearanceFromSubMenu(q.subs[s]) EXCEPT !.color = userConfig.looks[s].color]
             look == userConfig.looks[s]
  <2>2. q \in Pages /\ page' = q
    BY <2>1, ToggledStates DEF Trigger
  <2>3. look \in Appearances
    BY <2>1 DEF Settings
  <2>4. CASE kind = "Color"
    <3>1. UNCHANGED userConfig
      BY <2>1, <2>4 DEF Trigger, Accents
    <3> HIDE DEF q
    <3>2. page' \in Pages
      BY <2>2
    <3> QED
      BY <3>1, <3>2
  <2>5. CASE kind \in Accents \cup SubItems
    <3>1. userConfig' = [userConfig EXCEPT !.looks[s] = became]
      <4>1. userConfig' = TaskbarSettingsChanged(s, BuildAppearanceFromSubMenu(Toggle(page, item).subs[s]))
        BY <2>5, TriggerSends
      <4> QED
        BY <2>1, <4>1, Zenon DEF TaskbarSettingsChanged
    <3>2. became \in Appearances
      <4>1. q.subs[s] \in States
        BY <2>1, <2>2 DEF Pages
      <4> HIDE DEF q
      <4>2. became = [accent |-> q.subs[s].checked, color |-> look.color, peek |-> q.subs[s].peek, line |-> q.subs[s].line,
                      radius |-> 9, enabled |-> q.subs[s].enabled]
        BY DEF BuildAppearanceFromSubMenu
      <4> QED
        BY <2>3, <4>1, <4>2 DEF States, Appearances, Radii
    <3>3. page.subs = Shown => became = [Wanted(<<s, kind>>, look) EXCEPT !.radius = 9]
      <4>1. page.subs = Shown => page.subs[s] = SetTaskbarSettings(look)
        BY <2>1 DEF Shown
      <4> QED
        BY <2>1, <2>3, <2>5, <4>1, BuiltLook
    <3> HIDE DEF became, q
    <3>4. userConfig' \in Settings
      BY <2>1, <3>1, <3>2 DEF Settings
    <3>5. page.subs = Shown => userConfig' = [userConfig EXCEPT !.looks[s] = [Wanted(<<s, kind>>, look) EXCEPT !.radius = 9]]
      BY <3>1, <3>3
    <3> QED
      BY <2>1, <2>2, <3>4, <3>5
  <2> QED
    BY <2>1, <2>4, <2>5
<1>2. CASE s = "Menu"
  <2>1. PICK n \in DOMAIN Entries : item = Entries[n]
    BY DEF Items
  <2>2. n \in 1 .. 16
    BY <2>1 DEF Entries
  <2>3. kind \in {"ResetSettings", "DisableSaving", "Startup"}
    BY <1>2, <2>1, <2>2 DEF Entries
  <2>4. CASE kind = "DisableSaving"
    <3> DEFINE b == ~page.disableSaving
               q == [page EXCEPT !.disableSaving = b]
    <3>1. page' = q /\ userConfig' = [userConfig EXCEPT !.disableSaving = q.disableSaving]
      BY <2>4 DEF Trigger, Toggle, Accents
    <3>2. b \in BOOLEAN
      OBVIOUS
    <3> HIDE DEF b
    <3>3. q \in Pages /\ q.disableSaving \in BOOLEAN
      BY <3>2 DEF Pages
    <3> HIDE DEF q
    <3> QED
      BY <1>2, <3>1, <3>3 DEF Settings
  <2>5. CASE kind = "Startup"
    <3> DEFINE b == ~page.startup
    <3>1. page' = [page EXCEPT !.startup = b] /\ UNCHANGED userConfig
      BY <2>5 DEF Trigger, Toggle, Accents
    <3>2. b \in BOOLEAN
      OBVIOUS
    <3> HIDE DEF b
    <3> QED
      BY <1>2, <3>1, <3>2 DEF Pages
  <2>6. CASE kind = "ResetSettings"
    <3>1. page' = page /\ userConfig' = DefaultSettings
      BY <2>6 DEF Trigger, Toggle, Accents
    <3> QED
      BY <1>2, <3>1, DefaultsAre
  <2> QED
    BY <2>3, <2>4, <2>5, <2>6
<1> QED
  BY <1>1, <1>2

LEMMA MenuInvStep == MenuInv /\ [MenuNext]_menuVars => MenuInv'
<1> SUFFICES ASSUME MenuInv, MenuNext \/ UNCHANGED menuVars PROVE MenuInv'
  OBVIOUS
<1>1. userConfig \in Settings /\ page \in Pages /\ taskbar \in {"Classic", "XAML"}
  BY DEF MenuInv
<1>2. CASE ShowAt
  <2>1. page' = RefreshMenu' /\ UNCHANGED <<userConfig, taskbar>>
    BY <1>2 DEF ShowAt, RefreshMenu, StartupUsable
  <2>2. page' = RefreshMenu /\ Shown' = Shown
    BY <1>2, <2>1 DEF ShowAt, Shown
  <2> QED
    BY <1>1, <2>1, <2>2, PagesAre DEF MenuInv
<1>3. ASSUME NEW item \in Items, ItemClicked(item) PROVE MenuInv'
  BY <1>1, <1>3, TriggerFields DEF MenuInv, ItemClicked
<1>4. ASSUME NEW item \in Items, NEW id, Returned(id, item) PROVE MenuInv'
  <2>1. menu' = "closed" /\ UNCHANGED taskbar /\ (Trigger(item) \/ UNCHANGED <<page, userConfig>>)
    BY <1>4 DEF Returned
  <2> QED
    BY <1>1, <2>1, TriggerFields DEF MenuInv
<1>5. ASSUME NEW item \in Items, ClassicItemClicked(item) PROVE MenuInv'
  BY <1>4, <1>5 DEF ClassicItemClicked
<1>6. CASE Dismissed
  <2>1. <<"Menu", "ResetSettings">> \in Items
    <3>1. Entries[14] = <<"Menu", "ResetSettings">> /\ 14 \in DOMAIN Entries
      BY DEF Entries
    <3> QED
      BY <3>1 DEF Items
  <2>2. Returned(0, <<"Menu", "ResetSettings">>) \/ (menu' = "closed" /\ UNCHANGED <<userConfig, page, taskbar>>)
    BY <1>6 DEF Dismissed
  <2> QED
    BY <1>1, <1>4, <2>1, <2>2 DEF MenuInv
<1>7. ASSUME NEW s \in Submenus, NEW c \in Shades, ColorCommitted(s, c) PROVE MenuInv'
  <2>1. userConfig' = [userConfig EXCEPT !.looks[s].color = c] /\ UNCHANGED <<page, menu, taskbar, outdated>>
    BY <1>7 DEF ColorCommitted
  <2>2. userConfig' \in Settings
    BY <1>1, <2>1 DEF Settings, Appearances
  <2>3. ASSUME NEW r \in Submenus PROVE SetTaskbarSettings(userConfig'.looks[r]) = SetTaskbarSettings(userConfig.looks[r])
    <3> DEFINE look == userConfig.looks[r]
    <3>1. userConfig'.looks[r] \in {look, [look EXCEPT !.color = c]} /\ look \in Appearances
      BY <1>1, <2>1 DEF Settings
    <3> HIDE DEF look
    <3> DEFINE new == [look EXCEPT !.color = c]
    <3>2. /\ new.accent = look.accent /\ new.peek = look.peek /\ new.line = look.line /\ new.enabled = look.enabled
      BY <3>1 DEF Appearances
    <3> HIDE DEF new
    <3>3. SetTaskbarSettings(new) = SetTaskbarSettings(look)
      BY <3>2 DEF SetTaskbarSettings
    <3> QED
      BY <3>1, <3>3 DEF new, look
  <2>4. Shown' = Shown
    BY <2>3 DEF Shown
  <2> QED
    BY <1>1, <2>1, <2>2, <2>4 DEF MenuInv
<1>8. CASE Reloaded
  <2>1. UNCHANGED <<page, menu, taskbar>> /\ (menu # "closed" => outdated')
    BY <1>8 DEF Reloaded
  <2>2. userConfig' \in Settings
    <3>1. ASSUME NEW s \in Submenus, NEW look \in Edits(userConfig.looks[s]), userConfig' = [userConfig EXCEPT !.looks[s] = look]
          PROVE  userConfig' \in Settings
      <4>1. look \in Appearances
        BY <1>1, <3>1, EditsAre DEF Settings
      <4> QED
        BY <1>1, <3>1, <4>1 DEF Settings
    <3>2. ASSUME NEW b \in BOOLEAN, NEW x \in {{}, {TRUE}, {FALSE}},
                 userConfig' = [userConfig EXCEPT !.disableSaving = b, !.xamlMenu = x]
          PROVE  userConfig' \in Settings
      <4>1. userConfig' = [looks |-> userConfig.looks, disableSaving |-> b, xamlMenu |-> x]
        BY <1>1, <3>2 DEF Settings
      <4>2. {} \subseteq BOOLEAN /\ {TRUE} \subseteq BOOLEAN /\ {FALSE} \subseteq BOOLEAN
        OBVIOUS
      <4>3. x = {} \/ x = {TRUE} \/ x = {FALSE}
        BY Zenon
      <4>4. x \subseteq BOOLEAN
        <5>1. CASE x = {}
          BY <4>2, <5>1
        <5>2. CASE x = {TRUE}
          BY <5>2, Zenon
        <5>3. CASE x = {FALSE}
          BY <5>3, Zenon
        <5> QED
          BY <4>3, <5>1, <5>2, <5>3
      <4> QED
        BY <1>1, <4>1, <4>4 DEF Settings
    <3>3. DOMAIN userConfig.looks = Submenus
      BY <1>1 DEF Settings
    <3> QED
      BY <1>8, <3>1, <3>2, <3>3 DEF Reloaded
  <2> QED
    BY <1>1, <2>1, <2>2 DEF MenuInv
<1>9. CASE AcquireTask \/ EnableAnswered \/ StartupChanges \/ UNCHANGED menuVars
  <2>1. UNCHANGED <<userConfig, page, menu, outdated, taskbar>>
    BY <1>9 DEF AcquireTask, EnableAnswered, StartupChanges, menuVars
  <2> QED
    BY <1>1, <2>1 DEF MenuInv, Shown
<1>10. CASE TaskbarChanges
  <2>1. UNCHANGED <<userConfig, page, menu, outdated>> /\ taskbar' \in {"Classic", "XAML"}
    BY <1>10 DEF TaskbarChanges
  <2> QED
    BY <1>1, <2>1 DEF MenuInv, Shown
<1> QED
  BY <1>2, <1>3, <1>5, <1>6, <1>7, <1>8, <1>9, <1>10 DEF MenuNext, Submenus

LEMMA MenuInvInit == MenuInit => MenuInv
<1> SUFFICES ASSUME MenuInit PROVE MenuInv
  OBVIOUS
<1>1. userConfig \in Settings /\ taskbar \in {"Classic", "XAML"}
  BY DefaultsAre DEF MenuInit
<1> QED
  BY <1>1, PagesAre DEF MenuInit, MenuInv

(* Unless the configuration was reloaded while the menu was shown, a click *)
(* on an item of a submenu changes what the item is about, and nothing     *)
(* else but the blur radius, which becomes that of a new appearance.       *)
THEOREM ClicksChangeOneThing == MenuSpec => ClickChangesOneThing
<1> DEFINE One == userConfig' # userConfig /\ ~outdated =>
                    \A item \in Items :
                      item[1] # "Menu" /\ (ItemClicked(item) \/ ClassicItemClicked(item))
                        => \E r \in Radii : userConfig' =
                             [userConfig EXCEPT !.looks[item[1]] = [Wanted(item, @) EXCEPT !.radius = r]]
<1>1. ASSUME MenuInv PROVE One
  <2> SUFFICES ASSUME userConfig' # userConfig, ~outdated, NEW item \in Items, item[1] # "Menu",
                      ItemClicked(item) \/ ClassicItemClicked(item)
               PROVE  \E r \in Radii : userConfig' = [userConfig EXCEPT !.looks[item[1]] = [Wanted(item, @) EXCEPT !.radius = r]]
    OBVIOUS
  <2>1. menu # "closed" /\ Trigger(item)
    BY DEF ItemClicked, ClassicItemClicked, Returned
  <2>2. userConfig \in Settings /\ page \in Pages /\ page.subs = Shown
    BY <1>1, <2>1 DEF MenuInv
  <2>3. userConfig' = [userConfig EXCEPT !.looks[item[1]] = [Wanted(item, @) EXCEPT !.radius = 9]]
    BY <2>1, <2>2, TriggerFields
  <2> QED
    BY <2>3 DEF Radii
<1>2. MenuInv => [One]_menuVars
  BY <1>1
<1> HIDE DEF MenuInv
<1> QED
  BY <1>2, MenuInvInit, MenuInvStep, PTL DEF MenuSpec, ClickChangesOneThing

-----------------------------------------------------------------------------
(***************************************************************************)
(* The identifiers of the items of a classic menu.  The counter is a       *)
(* recursive function; that there is one is shown by its first argument    *)
(* for which there would not be.                                           *)
(***************************************************************************)
Top == 2 ^ IdBits

(* A set of numbers that is not empty has a first.                        *)
LEMMA FirstOf ==
  ASSUME NEW T, T \subseteq Nat, T # {}
  PROVE  \E x \in T : \A y \in T : x <= y
<1> DEFINE R == OpToRel(<, Nat)
<1>1. IsWellFoundedOn(R, Nat)
  BY NatLessThanWellFounded
<1>2. \A x, y \in Nat : x < y => <<x, y>> \in R
  BY DEF OpToRel
<1> HIDE DEF R
<1>3. PICK x \in T : \A y \in T : ~(<<y, x>> \in R)
  BY <1>1, WFMin
<1>4. ASSUME NEW y \in T PROVE x <= y
  <2>1. x \in Nat /\ y \in Nat /\ ~(<<y, x>> \in R)
    BY <1>3
  <2>2. ~(y < x)
    BY <1>2, <2>1
  <2> QED
    BY <2>1, <2>2
<1> QED
  BY <1>4

(* The page has sixteen items.                                             *)
LEMMA SixteenEntries == DOMAIN Entries = 1 .. 16 /\ Len(Entries) = 16
BY DEF Entries

(* The width is used only through the number of identifiers. *)
LEMMA TopIs == Top \in Nat /\ Top > 16
BY MenuAssumption DEF Top

(* The remainder of a number that is at most the divisor.                  *)
LEMMA Remainders ==
  ASSUME NEW L \in Nat, L > 0, NEW a \in 0 .. L
  PROVE  a % L = IF a = L THEN 0 ELSE a
BY SMTT(30)

(* The counter after an identifier is given, and the one given next: they  *)
(* go from one to the largest and back to one.                             *)
Counted(p, k, v) == IF Visible(p, Entries[k]) THEN (GetNextClickableId(v) + 1) % 2 ^ IdBits ELSE v

LEMMA NextIds ==
  ASSUME NEW p, NEW k \in 1 .. 16, NEW v \in 0 .. Top - 1
  PROVE  /\ GetNextClickableId(v) \in 1 .. Top - 1
         /\ Counted(p, k, v) \in 0 .. Top - 1
         /\ ~Visible(p, Entries[k]) => Counted(p, k, v) = v
         /\ Visible(p, Entries[k]) =>
              GetNextClickableId(Counted(p, k, v)) =
                IF GetNextClickableId(v) = Top - 1 THEN 1 ELSE GetNextClickableId(v) + 1
<1> DEFINE g == GetNextClickableId(v)
<1>1. g \in 1 .. Top - 1
  BY TopIs DEF GetNextClickableId
<1>2. (g + 1) % Top = IF g + 1 = Top THEN 0 ELSE g + 1
  BY <1>1, TopIs, Remainders
<1>3. Counted(p, k, v) = IF Visible(p, Entries[k]) THEN (g + 1) % Top ELSE v
  BY DEF Counted, Top
<1> HIDE DEF g
<1>4. CASE Visible(p, Entries[k])
  <2>1. Counted(p, k, v) = IF g = Top - 1 THEN 0 ELSE g + 1
    BY <1>1, <1>2, <1>3, <1>4, TopIs
  <2>2. GetNextClickableId(0) = 1 /\ (g # Top - 1 => GetNextClickableId(g + 1) = g + 1)
    BY <1>1, TopIs DEF GetNextClickableId
  <2> QED
    BY <1>1, <1>4, <2>1, <2>2, TopIs DEF g
<1>5. CASE ~Visible(p, Entries[k])
  BY <1>1, <1>3, <1>5 DEF g
<1> QED
  BY <1>4, <1>5

(* The counter exists: each of its values is that before it, counted on.   *)
LEMMA IdsExist ==
  ASSUME NEW p, NEW id \in 0 .. Top - 1
  PROVE  \E f \in [0 .. 16 -> 0 .. Top - 1] : f[0] = id /\ \A k \in 1 .. 16 : f[k] = Counted(p, k, f[k - 1])
<1> DEFINE Upto(n) == \E f \in [0 .. n -> 0 .. Top - 1] : f[0] = id /\ \A k \in 1 .. n : f[k] = Counted(p, k, f[k - 1])
           T == {n \in 0 .. 16 : ~Upto(n)}
<1>1. Upto(0)
  <2> DEFINE f == [k \in 0 .. 0 |-> id]
  <2>1. f \in [0 .. 0 -> 0 .. Top - 1] /\ f[0] = id /\ 1 .. 0 = {}
    BY TopIs
  <2> QED
    BY <2>1
<1>2. ASSUME NEW n \in 1 .. 16, Upto(n - 1) PROVE Upto(n)
  <2>1. PICK f \in [0 .. n - 1 -> 0 .. Top - 1] : f[0] = id /\ \A k \in 1 .. n - 1 : f[k] = Counted(p, k, f[k - 1])
    BY <1>2
  <2> DEFINE c == Counted(p, n, f[n - 1])
             g == [k \in 0 .. n |-> IF k = n THEN c ELSE f[k]]
  <2>2. c \in 0 .. Top - 1
    <3>1. n - 1 \in 0 .. n - 1
      OBVIOUS
    <3>2. f[n - 1] \in 0 .. Top - 1
      BY <3>1
    <3> QED
      BY <3>2, NextIds
  <2> HIDE DEF c
  <2>3. g \in [0 .. n -> 0 .. Top - 1] /\ g[0] = id /\ g[n] = c
    BY <2>1, <2>2
  <2>4. ASSUME NEW k \in 1 .. n PROVE g[k] = Counted(p, k, g[k - 1])
    <3>1. g[k - 1] = f[k - 1]
      OBVIOUS
    <3>2. CASE k = n
      BY <2>3, <3>1, <3>2 DEF c
    <3>3. CASE k # n
      <4>1. k \in 1 .. n - 1 /\ g[k] = f[k]
        BY <3>3
      <4> QED
        BY <2>1, <3>1, <4>1
    <3> QED
      BY <3>2, <3>3
  <2> HIDE DEF g
  <2> QED
    BY <2>3, <2>4
<1> HIDE DEF Upto
<1>3. T = {}
  <2> SUFFICES ASSUME T # {} PROVE FALSE
    OBVIOUS
  <2>1. PICK x \in T : \A y \in T : x <= y
    BY FirstOf
  <2>2. x \in 1 .. 16 /\ ~Upto(x)
    BY <1>1, <2>1
  <2>3. x - 1 \notin T /\ x - 1 \in 0 .. 16
    BY <2>1, <2>2
  <2> QED
    BY <1>2, <2>2, <2>3
<1>4. Upto(16)
  BY <1>3
<1> QED
  BY <1>4 DEF Upto

(* So the counter is that function.                                        *)
LEMMA IdsAre ==
  ASSUME NEW p, NEW id \in 0 .. Top - 1
  PROVE  /\ IdsUpTo(p, id) \in [0 .. 16 -> 0 .. Top - 1]
         /\ \A k \in 1 .. 16 : IdsUpTo(p, id)[k] = Counted(p, k, IdsUpTo(p, id)[k - 1])
<1> DEFINE Is(f) == f = [k \in 0 .. Len(Entries) |->
                           IF k = 0 THEN id
                           ELSE IF Visible(p, Entries[k]) THEN (GetNextClickableId(f[k - 1]) + 1) % 2 ^ IdBits
                           ELSE f[k - 1]]
<1>1. PICK f \in [0 .. 16 -> 0 .. Top - 1] : f[0] = id /\ \A k \in 1 .. 16 : f[k] = Counted(p, k, f[k - 1])
  BY IdsExist
<1>2. Is(f)
  <2> DEFINE e(k) == IF k = 0 THEN id
                     ELSE IF Visible(p, Entries[k]) THEN (GetNextClickableId(f[k - 1]) + 1) % 2 ^ IdBits
                     ELSE f[k - 1]
  <2>1. ASSUME NEW k \in 0 .. 16 PROVE f[k] = e(k)
    <3>1. CASE k = 0
      BY <1>1, <3>1
    <3>2. CASE k # 0
      <4>1. k \in 1 .. 16
        BY <3>2
      <4> QED
        BY <1>1, <3>2, <4>1 DEF Counted
    <3> QED
      BY <3>1, <3>2
  <2> HIDE DEF e
  <2>2. f = [k \in 0 .. 16 |-> e(k)]
    BY <1>1, <2>1
  <2> QED
    BY <2>2, SixteenEntries DEF e
<1> DEFINE i == IdsUpTo(p, id)
<1>3. i = CHOOSE g : Is(g)
  BY DEF IdsUpTo
<1>4. Is(i)
  BY <1>2, <1>3
<1>5. i = [k \in 0 .. 16 |-> i[k]] /\ i[0] = id /\ \A k \in 1 .. 16 : i[k] = Counted(p, k, i[k - 1])
  BY <1>4, SixteenEntries DEF Counted
<1> HIDE DEF i, Is
<1> DEFINE T == {k \in 0 .. 16 : i[k] \notin 0 .. Top - 1}
<1>6. T = {}
  <2> SUFFICES ASSUME T # {} PROVE FALSE
    OBVIOUS
  <2>0. T \subseteq Nat
    OBVIOUS
  <2>1. PICK x \in T : \A y \in T : x <= y
    <3> HIDE DEF T
    <3> QED
      BY <2>0, FirstOf
  <2>2. x \in 1 .. 16 /\ i[x] \notin 0 .. Top - 1
    BY <1>5, <2>1
  <2>3. i[x - 1] \in 0 .. Top - 1
    BY <2>1, <2>2
  <2> QED
    BY <1>5, <2>2, <2>3, NextIds
<1>7. i \in [0 .. 16 -> 0 .. Top - 1]
  BY <1>5, <1>6
<1> QED
  BY <1>5, <1>7 DEF i

(* From one visible item on, the identifiers given go round, and have not  *)
(* come back to its own after the others.                                  *)
LEMMA IdsGoRound ==
  ASSUME NEW p, NEW id \in 0 .. Top - 1, NEW m \in 1 .. 16, Visible(p, Entries[m]), NEW k \in m .. 15
  PROVE  GetNextClickableId(IdsUpTo(p, id)[k]) # GetNextClickableId(IdsUpTo(p, id)[m - 1])
<1> DEFINE i == IdsUpTo(p, id)
           g(n) == GetNextClickableId(i[n])
           Gone(n) == \E d \in 1 .. n - m + 1 : g(n) = g(m - 1) + d \/ g(n) = g(m - 1) + d - (Top - 1)
           T == {n \in m .. 15 : ~Gone(n)}
<1>1. ASSUME NEW n \in 0 .. 16 PROVE g(n) \in 1 .. Top - 1
  <2>1. i[n] \in 0 .. Top - 1 /\ 1 \in 1 .. 16
    BY IdsAre
  <2> QED
    BY <2>1, NextIds
<1>2. ASSUME NEW n \in 1 .. 16
      PROVE  IF Visible(p, Entries[n]) THEN g(n) = (IF g(n - 1) = Top - 1 THEN 1 ELSE g(n - 1) + 1) ELSE g(n) = g(n - 1)
  <2>1. i[n] = Counted(p, n, i[n - 1])
    BY IdsAre
  <2>2. i[n - 1] \in 0 .. Top - 1
    <3>1. i \in [0 .. 16 -> 0 .. Top - 1] /\ n - 1 \in 0 .. 16
      BY IdsAre
    <3> QED
      BY <3>1
  <2> HIDE DEF i
  <2>3. PICK v \in 0 .. Top - 1 : v = i[n - 1]
    BY <2>2
  <2>4. /\ ~Visible(p, Entries[n]) => i[n] = v
        /\ Visible(p, Entries[n]) =>
             GetNextClickableId(i[n]) = IF GetNextClickableId(v) = Top - 1 THEN 1 ELSE GetNextClickableId(v) + 1
    <3> DEFINE c == Counted(p, n, v)
    <3>1. /\ ~Visible(p, Entries[n]) => c = v
          /\ Visible(p, Entries[n]) =>
               GetNextClickableId(c) = IF GetNextClickableId(v) = Top - 1 THEN 1 ELSE GetNextClickableId(v) + 1
      BY NextIds
    <3>2. i[n] = c
      BY <2>1, <2>3
    <3> HIDE DEF c
    <3> QED
      BY <3>1, <3>2
  <2> QED
    BY <2>3, <2>4
<1> HIDE DEF g
<1>3. Gone(m)
  <2>1. g(m) = (IF g(m - 1) = Top - 1 THEN 1 ELSE g(m - 1) + 1) /\ g(m - 1) \in 1 .. Top - 1
    BY <1>1, <1>2
  <2>2. g(m) = g(m - 1) + 1 \/ g(m) = g(m - 1) + 1 - (Top - 1)
    BY <2>1, TopIs
  <2> QED
    BY <2>2
<1>4. ASSUME NEW n \in m + 1 .. 15, Gone(n - 1) PROVE Gone(n)
  <2>1. PICK d \in 1 .. (n - 1) - m + 1 : g(n - 1) = g(m - 1) + d \/ g(n - 1) = g(m - 1) + d - (Top - 1)
    BY <1>4
  <2>2. g(n - 1) \in 1 .. Top - 1 /\ g(m - 1) \in 1 .. Top - 1 /\ g(n) \in 1 .. Top - 1
    BY <1>1
  <2>3. g(n) = g(n - 1) \/ g(n) = (IF g(n - 1) = Top - 1 THEN 1 ELSE g(n - 1) + 1)
    BY <1>2
  <2>4. CASE g(n) = g(n - 1)
    <3>1. d \in 1 .. n - m + 1
      OBVIOUS
    <3> QED
      BY <2>1, <2>4, <3>1
  <2>5. CASE g(n) = (IF g(n - 1) = Top - 1 THEN 1 ELSE g(n - 1) + 1)
    <3>1. d + 1 \in 1 .. n - m + 1 /\ d < 16
      OBVIOUS
    <3>2. g(n) = g(m - 1) + (d + 1) \/ g(n) = g(m - 1) + (d + 1) - (Top - 1)
      BY <2>1, <2>2, <2>5, <3>1, TopIs
    <3> QED
      BY <3>1, <3>2
  <2> QED
    BY <2>3, <2>4, <2>5
<1> HIDE DEF Gone
<1>5. T = {}
  <2> SUFFICES ASSUME T # {} PROVE FALSE
    OBVIOUS
  <2>1. PICK x \in T : \A y \in T : x <= y
    BY FirstOf
  <2>2. x \in m + 1 .. 15 /\ ~Gone(x)
    BY <1>3, <2>1
  <2>3. x - 1 \notin T /\ x - 1 \in m .. 15
    BY <2>1, <2>2
  <2> QED
    BY <1>4, <2>2, <2>3
<1>6. Gone(k)
  BY <1>5
<1>7. g(k) # g(m - 1)
  <2>1. PICK d \in 1 .. k - m + 1 : g(k) = g(m - 1) + d \/ g(k) = g(m - 1) + d - (Top - 1)
    BY <1>6 DEF Gone
  <2>2. g(k) \in 1 .. Top - 1 /\ g(m - 1) \in 1 .. Top - 1 /\ d \in 1 .. 15
    BY <1>1
  <2> QED
    BY <2>1, <2>2, TopIs
<1> QED
  BY <1>7 DEF g

(* The identifiers of a menu are of one item each, and never zero.         *)
Clickable(items) ==
  \A m, n \in DOMAIN items : items[m].id # 0 /\ (items[m].id = items[n].id => m = n)

(* Whatever page it is built from, and from whatever identifier on.        *)
LEMMA BuiltIsClickable ==
  ASSUME NEW p, nextId \in 0 .. Top - 1
  PROVE  Clickable(BuildContextMenuInner(p))
<1> DEFINE items == BuildContextMenuInner(p)
           i == IdsUpTo(p, nextId)
<1>1. ASSUME NEW m \in DOMAIN items
      PROVE  m \in 1 .. 16 /\ Visible(p, Entries[m]) /\ items[m].id = GetNextClickableId(i[m - 1])
  BY SixteenEntries DEF BuildContextMenuInner
<1>2. ASSUME NEW m \in DOMAIN items, NEW n \in DOMAIN items, m < n PROVE items[m].id # items[n].id
  <2>1. m \in 1 .. 16 /\ Visible(p, Entries[m]) /\ n - 1 \in m .. 15
    BY <1>1, <1>2
  <2>2. GetNextClickableId(i[n - 1]) # GetNextClickableId(i[m - 1])
    BY <2>1, IdsGoRound
  <2> QED
    BY <1>1, <2>2
<1>3. ASSUME NEW m \in DOMAIN items PROVE items[m].id # 0
  <2>1. m \in 1 .. 16 /\ m - 1 \in 0 .. 16 /\ items[m].id = GetNextClickableId(i[m - 1])
    BY <1>1
  <2>2. i[m - 1] \in 0 .. Top - 1
    BY <2>1, IdsAre
  <2>3. GetNextClickableId(i[m - 1]) \in 1 .. Top - 1
    BY <2>1, <2>2, NextIds
  <2> QED
    BY <2>1, <2>3
<1>4. ASSUME NEW m \in DOMAIN items, NEW n \in DOMAIN items, items[m].id = items[n].id PROVE m = n
  <2>1. m \in 1 .. 16 /\ n \in 1 .. 16
    BY <1>1
  <2>2. ~(m < n) /\ ~(n < m)
    BY <1>2, <1>4
  <2> QED
    BY <2>1, <2>2
<1> HIDE DEF items
<1>5. Clickable(items)
  BY <1>3, <1>4 DEF Clickable
<1> QED
  BY <1>5 DEF items

(* The appearance of the desktop is enabled, and so its submenu says: no   *)
(* item of it disables it.                                                 *)
DesktopOn(c, p) == c.looks["Desktop"].enabled /\ p.subs["Desktop"].enabled

(* The menu that is not shown is empty, and the one that is can be told    *)
(* from a dismissal.                                                       *)
MenuShape ==
  /\ menu \in {"closed", "xaml", "classic"} /\ startup \in StartupStates
  /\ asking \in BOOLEAN /\ outdated \in BOOLEAN
  /\ nextId \in 0 .. Top - 1 /\ built \in 0 .. MaxBuilt
  /\ menu # "classic" => classic = <<>> /\ tracked = <<>>
  /\ classic \in {<<>>, tracked}
  /\ Clickable(tracked)

(* No menu at all is one with proper identifiers.                          *)
LEMMA NothingIsClickable == Clickable(<<>>)
BY DEF Clickable

(* What a step leaves of the menu, its identifiers and the startup task.   *)
LEMMA ShapeStep == ASSUME MenuShape, [MenuNext]_menuVars PROVE MenuShape'
<1>1. CASE ShowAt
  <2>1. CASE ShouldUseXamlMenu
    <3>1. /\ menu' = (IF menu = "classic" THEN menu ELSE "xaml")
          /\ UNCHANGED <<classic, tracked, nextId, built, startup, asking>> /\ outdated' = FALSE
      BY <1>1, <2>1 DEF ShowAt
    <3> QED
      BY <3>1 DEF MenuShape
  <2>2. CASE ~ShouldUseXamlMenu
    <3> DEFINE items == BuildContextMenuInner(page')
    <3>1. /\ built < MaxBuilt /\ built' = built + 1 /\ menu' = "classic"
          /\ nextId' = IdsUpTo(page', nextId)[16]
          /\ classic' = (IF menu = "classic" THEN <<>> ELSE items)
          /\ tracked' = (IF menu = "classic" THEN tracked ELSE items)
          /\ UNCHANGED <<startup, asking>> /\ outdated' = FALSE
      BY <1>1, <2>2, SixteenEntries DEF ShowAt
    <3>2. nextId \in 0 .. Top - 1 /\ Clickable(tracked) /\ built \in 0 .. MaxBuilt
      BY DEF MenuShape
    <3>3. Clickable(items) /\ IdsUpTo(page', nextId)[16] \in 0 .. Top - 1
      BY <3>2, BuiltIsClickable, IdsAre
    <3> HIDE DEF items
    <3>4. built' \in 0 .. MaxBuilt
      BY <3>1, <3>2, MenuAssumption
    <3>5. Clickable(tracked') /\ classic' \in {<<>>, tracked'}
      BY <3>1, <3>2, <3>3
    <3>6. Clickable(tracked)'
      BY <3>5 DEF Clickable
    <3>7. nextId' \in 0 .. Top' - 1 /\ (menu \in {"closed", "xaml", "classic"})'
      BY <3>1, <3>3 DEF Top
    <3> QED
      BY <3>1, <3>4, <3>5, <3>6, <3>7 DEF MenuShape
  <2> QED
    BY <2>1, <2>2
<1>2. ASSUME NEW item, Trigger(item) PROVE startup' \in StartupStates /\ asking' \in BOOLEAN
  <2>1. UNCHANGED <<asking, startup>> \/ StartupStateChanged
    BY <1>2 DEF Trigger
  <2> QED
    BY <2>1 DEF MenuShape, StartupStateChanged, StartupStates
<1>3. ASSUME NEW item \in Items, ItemClicked(item) PROVE MenuShape'
  <2>1. Trigger(item) /\ menu' = "closed" /\ menu = "xaml" /\ UNCHANGED <<classic, tracked, nextId, built, outdated>>
    BY <1>3 DEF ItemClicked
  <2> QED
    BY <1>2, <2>1, NothingIsClickable DEF MenuShape, Top, Clickable
<1>4. ASSUME NEW id, NEW item, Returned(id, item) PROVE MenuShape'
  <2>1. Trigger(item) \/ UNCHANGED <<asking, startup>>
    BY <1>4 DEF Returned
  <2>2. menu' = "closed" /\ classic' = <<>> /\ tracked' = <<>> /\ UNCHANGED <<nextId, built, outdated>>
    BY <1>4 DEF Returned, CleanupClassicContextMenu
  <2>3. startup' \in StartupStates /\ asking' \in BOOLEAN
    BY <1>2, <2>1 DEF MenuShape
  <2>4. Clickable(tracked)'
    BY <2>2, NothingIsClickable DEF Clickable
  <2> QED
    BY <2>2, <2>3, <2>4 DEF MenuShape, Top
<1>5. CASE \E item \in Items : ClassicItemClicked(item)
  BY <1>4, <1>5 DEF ClassicItemClicked
<1>6. CASE Dismissed
  <2>1. CASE menu = "xaml" /\ menu' = "closed" /\ UNCHANGED <<classic, tracked, nextId, built, startup, asking, outdated>>
    BY <2>1 DEF MenuShape, Top, Clickable
  <2> QED
    BY <1>4, <1>6, <2>1 DEF Dismissed
<1>7. CASE \/ \E s \in {"Desktop", "Visible"}, c \in Shades : ColorCommitted(s, c)
           \/ TaskbarChanges \/ UNCHANGED menuVars
  <2>1. UNCHANGED <<menu, classic, tracked, nextId, built, startup, asking, outdated>>
    BY <1>7 DEF ColorCommitted, TaskbarChanges, menuVars
  <2> QED
    BY <2>1 DEF MenuShape, Top, Clickable
<1>8. CASE Reloaded
  <2>1. UNCHANGED <<menu, classic, tracked, nextId, built, startup, asking>> /\ outdated' \in BOOLEAN
    BY <1>8 DEF Reloaded
  <2> QED
    BY <2>1 DEF MenuShape, Top, Clickable
<1>9. CASE AcquireTask \/ EnableAnswered \/ StartupChanges
  <2>1. UNCHANGED <<menu, classic, tracked, nextId, built, outdated>> /\ startup' \in StartupStates /\ asking' \in BOOLEAN
    BY <1>9 DEF AcquireTask, EnableAnswered, StartupChanges, MenuShape, StartupStates
  <2> QED
    BY <2>1 DEF MenuShape, Top, Clickable
<1> QED
  BY <1>1, <1>3, <1>5, <1>6, <1>7, <1>8, <1>9 DEF MenuNext

LEMMA ShapeInit == MenuInit => MenuShape
<1> SUFFICES ASSUME MenuInit PROVE MenuShape
  OBVIOUS
<1>1. nextId = 0 /\ built = 0 /\ startup = "None" /\ menu = "closed" /\ classic = <<>> /\ tracked = <<>>
      /\ asking = FALSE /\ outdated = FALSE
  BY DEF MenuInit
<1>2. nextId \in 0 .. Top - 1 /\ built \in 0 .. MaxBuilt
  BY <1>1, TopIs, MenuAssumption
<1>3. Clickable(tracked)
  BY <1>1, NothingIsClickable
<1> QED
  BY <1>1, <1>2, <1>3 DEF MenuShape, StartupStates

(* No click disables the appearance of the desktop.                        *)
LEMMA TriggerKeepsOn ==
  ASSUME userConfig \in Settings, page \in Pages, NEW item \in Items, Trigger(item), DesktopOn(userConfig, page)
  PROVE  DesktopOn(userConfig, page)'
<1> DEFINE q == Toggle(page, item)
<1>1. page' = q /\ page.subs \in [Submenus -> States] /\ page.subs["Desktop"].enabled
  BY DEF Trigger, Pages, Submenus, DesktopOn
<1>2. ~(item[1] = "Desktop" /\ item[2] = "Enabled")
  <2>1. PICK n \in 1 .. 16 : item = Entries[n]
    BY SixteenEntries DEF Items
  <2> QED
    BY <2>1 DEF Entries
<1>3. q.subs["Desktop"].enabled
  <2>1. CASE item[1] # "Menu"
    <3>1. item[1] \in Submenus /\ item[2] \in Accents \cup SubItems \cup {"Color"} /\ item = <<item[1], item[2]>>
      BY <2>1, ItemKinds
    <3>2. CASE item[1] = "Desktop"
      <4>1. q = Toggle(page, <<"Desktop", item[2]>>) /\ "Desktop" \in Submenus
        BY <3>1, <3>2 DEF Submenus
      <4> HIDE DEF q
      <4> QED
        BY <1>1, <1>2, <3>1, <3>2, <4>1, ToggledStates
    <3>3. CASE item[1] = "Visible"
      <4>1. q.subs["Desktop"] = page.subs["Desktop"]
        BY <1>1, <3>1, <3>3 DEF Toggle, Pages, Submenus, Accents, SubItems
      <4> QED
        BY <1>1, <4>1
    <3> QED
      BY <3>1, <3>2, <3>3 DEF Submenus
  <2>2. CASE item[1] = "Menu"
    <3>1. item[2] \in {"ResetSettings", "DisableSaving", "Startup"}
      <4>1. PICK n \in 1 .. 16 : item = Entries[n]
        BY SixteenEntries DEF Items
      <4> QED
        BY <2>2, <4>1 DEF Entries
    <3>2. q.subs = page.subs
      BY <3>1 DEF Toggle, Accents, Pages
    <3> QED
      BY <1>1, <3>2
  <2> QED
    BY <2>1, <2>2
<1>4. userConfig'.looks["Desktop"].enabled
  <2>1. userConfig.looks \in [Submenus -> Appearances] /\ userConfig.looks["Desktop"].enabled
    BY DEF Settings, DesktopOn
  <2>2. CASE item[2] \in Accents \cup SubItems
    <3>1. userConfig' = [userConfig EXCEPT !.looks[item[1]] =
                          [BuildAppearanceFromSubMenu(q.subs[item[1]]) EXCEPT !.color = userConfig.looks[item[1]].color]]
      BY <2>2, TriggerSends DEF TaskbarSettingsChanged
    <3> HIDE DEF q
    <3>2. BuildAppearanceFromSubMenu(q.subs[item[1]]).enabled = q.subs[item[1]].enabled
      BY DEF BuildAppearanceFromSubMenu
    <3>3. [BuildAppearanceFromSubMenu(q.subs[item[1]]) EXCEPT !.color = userConfig.looks[item[1]].color].enabled
            = q.subs[item[1]].enabled
      BY <3>2 DEF BuildAppearanceFromSubMenu
    <3> DEFINE new == [BuildAppearanceFromSubMenu(q.subs[item[1]]) EXCEPT !.color = userConfig.looks[item[1]].color]
    <3>4. userConfig' = [userConfig EXCEPT !.looks[item[1]] = new] /\ new.enabled = q.subs[item[1]].enabled
      BY <3>1, <3>3
    <3> HIDE DEF new
    <3>5. CASE item[1] = "Desktop"
      <4>1. userConfig'.looks["Desktop"] = new
        BY <2>1, <3>4, <3>5 DEF Settings, Submenus
      <4> QED
        BY <1>3, <3>4, <3>5, <4>1
    <3>6. CASE item[1] # "Desktop"
      <4>1. userConfig'.looks["Desktop"] = userConfig.looks["Desktop"]
        BY <2>1, <3>4, <3>6 DEF Settings, Submenus
      <4> QED
        BY <2>1, <4>1
    <3> QED
      BY <3>5, <3>6
  <2>3. CASE item[2] \notin Accents \cup SubItems
    <3>1. userConfig'.looks = userConfig.looks \/ userConfig' = DefaultSettings
      BY <2>3 DEF Trigger, Accents, SubItems, Settings
    <3>2. DefaultSettings.looks["Desktop"].enabled
      BY DEF DefaultSettings, DefaultLook
    <3> QED
      BY <2>1, <3>1, <3>2
  <2> QED
    BY <2>2, <2>3
<1> QED
  BY <1>1, <1>3, <1>4 DEF DesktopOn

(* Nor does anything else.                                                 *)
LEMMA DesktopStep ==
  ASSUME MenuInv, DesktopOn(userConfig, page), [MenuNext]_menuVars
  PROVE  DesktopOn(userConfig, page)'
<1>1. userConfig \in Settings /\ page \in Pages /\ taskbar \in {"Classic", "XAML"}
      /\ userConfig.looks["Desktop"].enabled /\ page.subs["Desktop"].enabled
  BY DEF MenuInv, DesktopOn
<1>2. CASE ShowAt
  <2>1. page' = RefreshMenu /\ userConfig' = userConfig
    BY <1>2 DEF ShowAt
  <2>2. RefreshMenu.subs["Desktop"].enabled = userConfig.looks["Desktop"].enabled
    BY DEF RefreshMenu, SetTaskbarSettings
  <2> QED
    BY <1>1, <2>1, <2>2 DEF DesktopOn
<1>3. ASSUME NEW item \in Items, ItemClicked(item) PROVE DesktopOn(userConfig, page)'
  BY <1>1, <1>3, TriggerKeepsOn DEF ItemClicked
<1>4. ASSUME NEW item \in Items, NEW id, Returned(id, item) PROVE DesktopOn(userConfig, page)'
  <2>1. Trigger(item) \/ UNCHANGED <<page, userConfig>>
    BY <1>4 DEF Returned
  <2> QED
    BY <1>1, <2>1, TriggerKeepsOn DEF DesktopOn
<1>5. ASSUME NEW item \in Items, ClassicItemClicked(item) PROVE DesktopOn(userConfig, page)'
  BY <1>4, <1>5 DEF ClassicItemClicked
<1>6. CASE Dismissed
  <2>1. <<"Menu", "ResetSettings">> \in Items
    <3>1. Entries[14] = <<"Menu", "ResetSettings">> /\ 14 \in DOMAIN Entries
      BY DEF Entries
    <3> QED
      BY <3>1 DEF Items
  <2>2. Returned(0, <<"Menu", "ResetSettings">>) \/ UNCHANGED <<userConfig, page>>
    BY <1>6 DEF Dismissed
  <2> QED
    BY <1>1, <1>4, <2>1, <2>2 DEF DesktopOn
<1>7. ASSUME NEW s \in Submenus, NEW c \in Shades, ColorCommitted(s, c) PROVE DesktopOn(userConfig, page)'
  <2>1. userConfig' = [userConfig EXCEPT !.looks[s].color = c] /\ UNCHANGED page
    BY <1>7 DEF ColorCommitted
  <2>2. userConfig'.looks["Desktop"].enabled = userConfig.looks["Desktop"].enabled
    BY <1>1, <2>1 DEF Settings, Appearances, Submenus
  <2> QED
    BY <1>1, <2>1, <2>2 DEF DesktopOn
<1>8. CASE Reloaded
  <2>1. UNCHANGED page /\ DOMAIN userConfig.looks = Submenus
    BY <1>1, <1>8 DEF Reloaded, Settings
  <2>2. ASSUME NEW s \in Submenus, NEW look, s = "Desktop" => look.enabled,
               userConfig' = [userConfig EXCEPT !.looks[s] = look]
        PROVE  userConfig'.looks["Desktop"].enabled
    <3>1. CASE s = "Desktop"
      <4>1. userConfig'.looks["Desktop"] = look
        BY <1>1, <2>2, <3>1 DEF Settings, Submenus
      <4> QED
        BY <2>2, <3>1, <4>1
    <3>2. CASE s # "Desktop"
      <4>1. userConfig'.looks["Desktop"] = userConfig.looks["Desktop"]
        BY <1>1, <2>2, <3>2 DEF Settings, Submenus
      <4> QED
        BY <1>1, <4>1
    <3> QED
      BY <3>1, <3>2
  <2>3. ASSUME NEW b, NEW x, userConfig' = [userConfig EXCEPT !.disableSaving = b, !.xamlMenu = x]
        PROVE  userConfig'.looks["Desktop"].enabled
    <3>1. userConfig'.looks = userConfig.looks
      BY <1>1, <2>3 DEF Settings
    <3> QED
      BY <1>1, <3>1
  <2>4. userConfig'.looks["Desktop"].enabled
    BY <1>8, <2>1, <2>2, <2>3 DEF Reloaded
  <2> QED
    BY <1>1, <2>1, <2>4 DEF DesktopOn
<1>9. CASE AcquireTask \/ EnableAnswered \/ StartupChanges \/ TaskbarChanges \/ UNCHANGED menuVars
  <2>1. UNCHANGED <<userConfig, page>>
    BY <1>9 DEF AcquireTask, EnableAnswered, StartupChanges, TaskbarChanges, menuVars
  <2> QED
    BY <1>1, <2>1 DEF DesktopOn
<1> QED
  BY <1>2, <1>3, <1>5, <1>6, <1>7, <1>8, <1>9 DEF MenuNext, Submenus

(* Everything has its type, the desktop's appearance is never disabled,    *)
(* and the identifiers of a classic menu are of one item each and never    *)
(* zero, however often menus have been built and whatever the width of the *)
(* counter, if there are more identifiers than items.                      *)
THEOREM MenuTypeCorrect == MenuSpec => []MenuTypeOK
<1> DEFINE On == DesktopOn(userConfig, page)
<1>1. MenuInit => On
  <2> SUFFICES ASSUME MenuInit PROVE On
    OBVIOUS
  <2>1. userConfig.looks["Desktop"].enabled
    <3>1. userConfig.looks["Desktop"] = DefaultLook("Desktop")
      BY DEF MenuInit, DefaultSettings
    <3> DEFINE d == "Desktop" = "Desktop"
               v == "Desktop" = "Visible"
    <3>2. DefaultLook("Desktop") = [accent |-> "Clear", color |-> DefaultShade, peek |-> v, line |-> FALSE,
                                    radius |-> 9, enabled |-> d]
      BY DEF DefaultLook
    <3>3. d
      OBVIOUS
    <3> HIDE DEF d, v
    <3> QED
      BY <3>1, <3>2, <3>3
  <2>2. page.subs["Desktop"].enabled = userConfig.looks["Desktop"].enabled
    BY DEF MenuInit, RefreshMenu, SetTaskbarSettings
  <2> QED
    BY <2>1, <2>2 DEF DesktopOn
<1>2. MenuInv /\ On /\ [MenuNext]_menuVars => On'
  BY DesktopStep
<1>3. MenuShape /\ [MenuNext]_menuVars => MenuShape'
  BY ShapeStep
<1>4. MenuInv /\ On /\ MenuShape => MenuTypeOK
  <2> SUFFICES ASSUME MenuInv, On, MenuShape PROVE MenuTypeOK
    OBVIOUS
  <2>1. userConfig \in Settings /\ taskbar \in {"Classic", "XAML"} /\ userConfig.looks["Desktop"].enabled
    BY DEF MenuInv, DesktopOn
  <2>2. {asking, outdated} \subseteq BOOLEAN
    <3>1. asking \in BOOLEAN /\ outdated \in BOOLEAN
      BY DEF MenuShape
    <3> QED
      BY <3>1, Zenon
  <2> QED
    BY <2>1, <2>2 DEF MenuTypeOK, MenuShape, Settings, Submenus, Clickable, Top
<1> HIDE DEF On, MenuInv, MenuShape, MenuTypeOK
<1> QED
  BY <1>1, <1>2, <1>3, <1>4, MenuInvInit, MenuInvStep, ShapeInit, PTL DEF MenuSpec
=============================================================================
