---------------------------- MODULE DynamicModes ----------------------------
(***************************************************************************)
(* Which appearance a taskbar should have: the priority of the dynamic     *)
(* modes, the window rules and the colour previews, as                     *)
(* TaskbarAttributeWorker::GetConfig computes them from the members of the *)
(* worker.  Nothing here has state.                                        *)
(***************************************************************************)
EXTENDS Integers, FiniteSets

CONSTANTS
  Windows,        \* top-level windows of the user's session
  Monitors,       \* HMONITORs
  NoWindow,       \* Window::NullWindow
  NoMonitor,      \* a null HMONITOR
  Flyout,         \* the Windows.UI.Core.CoreWindow of the shell's flyouts
  Colours,        \* the colours the configuration uses
  PreviewColour,  \* the colour an open colour picker asks to preview
  NoRule,         \* an empty std::optional<TaskbarAppearance> or rule
  IsWindows11     \* m_IsWindows11

ASSUME NamesAssumption ==
  /\ NoWindow \notin Windows /\ Flyout \notin Windows /\ Flyout # NoWindow
  /\ NoMonitor \notin Monitors
  /\ PreviewColour \in Colours
  /\ IsWindows11 \in BOOLEAN

(* txmp::TaskbarState: every state of the taskbar one can configure. *)
Modes == {"Desktop", "VisibleWindow", "MaximisedWindow", "StartOpened",
          "SearchOpened", "TaskViewOpened", "BatterySaver"}

Flyouts == {"start", "search", "find"}

(* TaskbarAppearance: accents other than ACCENT_NORMAL all go through the  *)
(* same calls, so two of them tell them apart; extra is ShowLine on        *)
(* Windows 11 and ShowPeek on Windows 10.                                  *)
Looks == [accent : {"normal", "tinted"}, colour : Colours, extra : BOOLEAN]

(* ActiveInactiveTaskbarAppearance: a rule may say how the taskbar looks   *)
(* when its window is not the active one.                                  *)
Rules == [look : Looks, inactive : Looks \cup {NoRule}]

ASSUME NoRuleAssumption == NoRule \notin Looks \cup Rules

(* The part of Config the worker reads.  Rules are found by the class, the *)
(* file or the title of a window: here, by the window.                     *)
ConfigType ==
  [enabled       : SUBSET Modes,
   look          : [Modes -> Looks],
   maximisedRule : [Windows -> Rules \cup {NoRule}],
   visibleRule   : [Windows -> Rules \cup {NoRule}],
   ignored       : SUBSET Windows]

(* The members of the worker that say what the shell is doing. *)
ShellType ==
  [powerSaver : BOOLEAN,
   taskView   : BOOLEAN,
   peek       : BOOLEAN,
   where      : [Flyouts -> Monitors \cup {NoMonitor}],
   foreground : Windows \cup {Flyout, NoWindow}]

(* MaximisedWindows and NormalWindows of a MonitorInfo. *)
SetsType == [max : SUBSET Windows, normal : SUBSET Windows]

(* Member function: config's look for mode, its colour replaced by the     *)
(* previewed one if there is a preview.                                    *)
WithPreview(config, previews, mode) ==
  IF mode \in previews
  THEN [config.look[mode] EXCEPT !.colour = PreviewColour]
  ELSE config.look[mode]

(* On Windows 11 the search monitors say where Start is, if there is one.  *)
SearchOn(shell, m) == m \in {shell.where["search"], shell.where["find"]}

StartOpened(shell, m) ==
  IF IsWindows11 /\ \E f \in {"search", "find"} : shell.where[f] # NoMonitor
  THEN shell.where["start"] # NoMonitor /\ SearchOn(shell, m)
  ELSE shell.where["start"] = m

HasRule(rules, w) == w \in Windows /\ rules[w] # NoRule

(* RuledTaskbarAppearance::FindRule: whether w is active is asked there and *)
(* then, not taken from m_ForegroundWindow.                                *)
FindRule(rules, w, active) ==
  IF w # active /\ rules[w].inactive # NoRule THEN rules[w].inactive ELSE rules[w].look

(* The rule of the highest maximised window, the only one considered.      *)
MaximisedLook(config, previews, view) ==
  IF HasRule(config.maximisedRule, view.top)
  THEN FindRule(config.maximisedRule, view.top, view.active)
  ELSE WithPreview(config, previews, "MaximisedWindow")

(* The rule of the foreground window counts when it is on this monitor and *)
(* nothing is maximised there.                                             *)
VisibleLook(config, previews, shell, sets, view) ==
  IF sets.max = {} /\ view.foregroundHere /\ HasRule(config.visibleRule, shell.foreground)
  THEN FindRule(config.visibleRule, shell.foreground, view.active)
  ELSE WithPreview(config, previews, "VisibleWindow")

(* TaskbarAttributeWorker::GetConfig for the taskbar of monitor m, whose   *)
(* tracked windows are sets; view is what it asks of the desktop: the      *)
(* highest maximised window, the active window, and whether the foreground *)
(* window it knows is on m.                                                *)
ModeLook(config, previews, shell, sets, m, view) ==
  LET On(mode) == mode \in config.enabled
      Show(mode) == WithPreview(config, previews, mode)
  IN  IF On("BatterySaver") /\ shell.powerSaver THEN Show("BatterySaver")
      ELSE IF On("TaskViewOpened") /\ shell.taskView THEN Show("TaskViewOpened")
      ELSE IF shell.peek THEN Show("Desktop")
      ELSE IF On("StartOpened") /\ StartOpened(shell, m) THEN Show("StartOpened")
      ELSE IF On("SearchOpened") /\ ~StartOpened(shell, m) /\ SearchOn(shell, m)
        THEN Show("SearchOpened")
      ELSE IF On("MaximisedWindow") /\ sets.max # {}
        THEN MaximisedLook(config, previews, view)
      ELSE IF On("VisibleWindow") /\ sets.max \cup sets.normal # {}
        THEN VisibleLook(config, previews, shell, sets, view)
      ELSE Show("Desktop")
=============================================================================
