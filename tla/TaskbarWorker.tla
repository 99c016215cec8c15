---------------------------- MODULE TaskbarWorker ----------------------------
(***************************************************************************)
(* TaskbarAttributeWorker: it keeps, for every taskbar, the windows that   *)
(* are maximised or open on its monitor, follows what the shell is doing,  *)
(* and gives every taskbar the appearance its dynamic modes ask for.       *)
(*                                                                         *)
(* The worker is single threaded, but it is re-entrant.  A call that waits *)
(* for another apartment or thread (COM, SendMessage) runs a message loop, *)
(* and whatever is queued for the worker is handled inside it, before the  *)
(* call returns.  The variable stack is the call stack: one frame per      *)
(* function that is waiting in such a call, the innermost first.  A step   *)
(* of the module runs from one wait to the next.                           *)
(***************************************************************************)
EXTENDS Desktop

CONSTANTS
  TaskbarKind,   \* what GetTaskbarType finds once Explorer is ready
  Configs,       \* the configurations the user switches between
  InitialConfig,
  JustBooted,    \* whether the worker starts within 30 seconds of boot
  MaxDepth       \* bound: frames on the stack when a message is handled

Stock == "stock"   \* Explorer's own appearance
NotExited == "running"

ASSUME WorkerAssumption ==
  /\ TaskbarKind \in {"Classic", "Mixed", "XAML"}
  /\ Configs \subseteq ConfigType /\ InitialConfig \in Configs
  /\ JustBooted \in BOOLEAN
  /\ MaxDepth \in Nat
  /\ Stock \notin Colours

VARIABLES
  \* members of the worker
  shell,           \* m_PowerSaver, m_TaskViewActive, m_PeekActive, m_Current*Monitor, m_ForegroundWindow
  taskbars,        \* m_Taskbars: the taskbar window known on each monitor
  tracked,         \* m_Taskbars: MaximisedWindows and NormalWindows
  normalTaskbars,  \* m_NormalTaskbars
  service,         \* whether m_TaskbarService is set
  resetting,       \* m_ResettingState
  reentered,       \* m_ResetStateReentered
  config,          \* m_ConfigManager.GetConfig()
  previews,        \* m_ColorPreviews that are set
  lastPid,         \* m_LastExplorerPid
  recentRestart,   \* whether m_LastExplorerRestart is less than 30 seconds ago
  exit,            \* why the process has exited, if it has
  stack,           \* the calls in progress
  \* what Explorer shows
  shown,           \* the appearance of the taskbar on each monitor
  extras           \* whether its line (or peek button) is visible

members == <<shell, taskbars, tracked, normalTaskbars, service, resetting, reentered, config, previews, lastPid, recentRestart>>
screen == <<shown, extras>>
vars == <<desktopVars, members, exit, stack, screen>>

(* Where a function of the worker waits, with its local variables:         *)
(*   inserting     InsertWindow, in Window::on_current_desktop             *)
(*   refreshing    ~AttributeRefresher, between two taskbars (no wait)     *)
(*   attribute     RefreshAttribute, in SetAttribute                       *)
(*   line          RefreshAttribute, in the call for the line or button    *)
(* and, of ResetState,                                                     *)
(*   clearing      releasing m_TaskbarService                              *)
(*   injecting     InjectExplorerTAP for the main taskbar                  *)
(*   arming        RestoreAllTaskbarsToDefaultWhenProcessDies and          *)
(*                 KillExplorerWhenPackageUninstalls                       *)
(*   coordinating  CreateSearchManager, CreateTaskViewManager              *)
(*   asking        asking whether Task View or a flyout is opened          *)
(*   enumerating   between two windows of the loop (no wait)               *)
(*   applying      nothing left but RefreshAllAttributes                   *)
ResetPlaces == {"clearing", "injecting", "arming", "coordinating", "asking", "enumerating", "applying"}
Questions == {"taskView"} \cup Flyouts

Frame ==
       [at : {"inserting"}, win : Windows, refresh : BOOLEAN]
  \cup [at : {"clearing"}, manual : BOOLEAN, waits : BOOLEAN]
  \cup [at : {"refreshing", "line"}, todo : SUBSET Monitors]
  \cup [at : {"attribute"}, todo : SUBSET Monitors, mon : Monitors, bar : Bars, look : Looks, waits : BOOLEAN]
  \cup [at : {"coordinating", "applying"}, manual : BOOLEAN]
  \cup [at : {"injecting", "arming"}, manual : BOOLEAN, main : Bars \cup {NoBar}]
  \cup [at : {"asking"}, manual : BOOLEAN, about : Questions, opened : BOOLEAN]
  \cup [at : {"enumerating"}, manual : BOOLEAN, last : Windows \cup {NoWindow}]

WorkerTypeOK ==
  /\ shell \in ShellType
  /\ taskbars \in [Monitors -> Bars \cup {NoBar}]
  /\ tracked \in [Monitors -> SetsType]
  /\ normalTaskbars \subseteq Bars
  /\ service \in BOOLEAN /\ resetting \in BOOLEAN /\ reentered \in BOOLEAN
  /\ config \in Configs
  /\ previews \subseteq Modes
  /\ lastPid \in Nat /\ recentRestart \in BOOLEAN
  /\ exit \in {NotExited, "restarts", "injection"}
  /\ stack \in Seq(Frame)
  /\ shown \in [Monitors -> Colours \cup {Stock}]
  /\ extras \in [Monitors -> BOOLEAN]

(* Every variable has its type; in particular every call in progress only  *)
(* holds monitors to refresh that exist, and no dead handle.               *)
TypeOK == DesktopTypeOK /\ WorkerTypeOK

-----------------------------------------------------------------------------
Top == Head(stack)
At(place) == exit = NotExited /\ stack # <<>> /\ Top.at = place

(* The calls that wait run a message loop: a COM call receives WinEvents   *)
(* as well as sent messages, SendMessage only the latter.  On Windows 10   *)
(* Task View is asked about by a message, and nobody about Find in Start.  *)
Within(places) == stack # <<>> /\ Top.at \in places
ComWait ==
  \/ Within({"inserting", "coordinating"})
  \/ Within({"clearing"}) /\ Top.waits
  \/ Within({"injecting"}) /\ TaskbarKind = "XAML" /\ Top.main # NoBar
  \/ Within({"arming", "attribute", "line"}) /\ service
  \/ Within({"asking"}) /\ (Top.about \in {"taskView", "find"} => IsWindows11)
SendWait ==
  \/ Within({"attribute"}) /\ Top.waits
  \/ Within({"line"})
  \/ Within({"asking"}) /\ Top.about = "taskView"

MainLoop == exit = NotExited /\ stack = <<>>
Pumping == exit = NotExited /\ Len(stack) < MaxDepth /\ (stack = <<>> \/ ComWait \/ SendWait)
PumpingEvents == exit = NotExited /\ Len(stack) < MaxDepth /\ (stack = <<>> \/ ComWait)

-----------------------------------------------------------------------------
(* AttributeRefresher: its destructor refreshes the monitors in todo. *)
Refreshing(todo) == IF todo = {} THEN <<>> ELSE <<[at |-> "refreshing", todo |-> todo]>>

Known == {m \in Monitors : taskbars[m] # NoBar}

RefreshAllAttributes(base) ==
  /\ stack' = Refreshing(Known) \o base

GetConfig(m) ==
  ModeLook(config, previews, shell, tracked[m], m,
           [top |-> HighestOf(tracked[m].max), active |-> front,
            foregroundHere |-> MonitorOf(shell.foreground) = m])

(* m_TaskbarService is a proxy to the Explorer it was injected into.  Once *)
(* that one has died, calls to it fail.                                    *)
Reachable == service => explorer.pid = lastPid

(* What taskbar b of monitor m looks like after a call asking for colour:  *)
(* nothing changes on screen when that taskbar no longer exists.           *)
Painted(m, b, colour) == IF bars[m] = b /\ Reachable THEN [shown EXCEPT ![m] = colour] ELSE shown

(* SetAttribute.  On a classic taskbar a normal appearance is asked for by *)
(* a message, and only the first time.                                     *)
SetAttribute(m, look) ==
  LET b == taskbars[m] IN
  \/ /\ look.accent = "normal" /\ (service \/ b \notin normalTaskbars)
     /\ normalTaskbars' = IF service THEN normalTaskbars ELSE normalTaskbars \cup {b}
     /\ shown' = Painted(m, b, Stock)
  \/ /\ look.accent = "normal" /\ ~service /\ b \in normalTaskbars
     /\ UNCHANGED <<normalTaskbars, shown>>
  \/ /\ look.accent # "normal"
     /\ normalTaskbars' = IF service THEN normalTaskbars ELSE normalTaskbars \ {b}
     /\ shown' = Painted(m, b, look.colour)

(* RefreshAttribute up to the return of SetAttribute: the configuration    *)
(* is computed once, for both calls.                                       *)
RefreshAttribute(m, todo, base) ==
  LET look == GetConfig(m)
      waits == service \/ (look.accent = "normal" /\ taskbars[m] \notin normalTaskbars)
  IN  /\ SetAttribute(m, look)
      /\ stack' = <<[at |-> "attribute", todo |-> todo, mon |-> m, bar |-> taskbars[m],
                     look |-> look, waits |-> waits]>> \o base
      /\ UNCHANGED extras

(* ~AttributeRefresher looks every monitor up again before refreshing it. *)
RefreshNext ==
  /\ At("refreshing")
  /\ \E m \in Top.todo :
       IF m \in Known
       THEN RefreshAttribute(m, Top.todo \ {m}, Tail(stack))
       ELSE /\ stack' = Refreshing(Top.todo \ {m}) \o Tail(stack)
            /\ UNCHANGED <<normalTaskbars, screen>>
  /\ UNCHANGED <<desktopVars, shell, taskbars, tracked, service, resetting, reentered,
                 config, previews, lastPid, recentRestart, exit>>

(* RefreshAttribute after SetAttribute: the border, the line or the peek   *)
(* button, which is left alone while peek is active.                       *)
RefreshLine ==
  /\ At("attribute")
  /\ extras' = IF bars[Top.mon] = Top.bar /\ Reachable /\ ~(TaskbarKind = "Classic" /\ shell.peek)
               THEN [extras EXCEPT ![Top.mon] = Top.look.extra] ELSE extras
  /\ stack' = <<[at |-> "line", todo |-> Top.todo]>> \o Tail(stack)
  /\ UNCHANGED <<desktopVars, members, exit, shown>>

RefreshDone ==
  /\ At("line")
  /\ stack' = Refreshing(Top.todo) \o Tail(stack)
  /\ UNCHANGED <<desktopVars, members, exit, screen>>

-----------------------------------------------------------------------------
(* The loop of InsertWindow over m_Taskbars, once its checks are done.     *)
(* Slip: the loop stops at the window's monitor.                           *)
UpdateTrackedHere(w, matches, refresh, base) ==
  LET m == MonitorOf(w) IN
  /\ tracked' = IF m \notin Known \/ ~matches \/ desk[w].size = "min" THEN tracked
                ELSE [tracked EXCEPT ![m] =
                        [max    |-> IF desk[w].size = "max" THEN @.max \cup {w} ELSE @.max \ {w},
                         normal |-> IF desk[w].size = "normal" THEN @.normal \cup {w} ELSE @.normal \ {w}]]
  /\ stack' = Refreshing(IF refresh THEN Known \cap {m} ELSE {}) \o base

UpdateTracked(w, matches, refresh, base) ==
  LET here(m) == m \in Known /\ MonitorOf(w) = m /\ matches
      sets(m) ==
        [max    |-> IF here(m) /\ desk[w].size = "max"
                    THEN tracked[m].max \cup {w} ELSE tracked[m].max \ {w},
         normal |-> IF here(m) /\ desk[w].size = "normal"
                    THEN tracked[m].normal \cup {w} ELSE tracked[m].normal \ {w}]
      touched == {m \in Known : \/ here(m) /\ desk[w].size # "min"
                                \/ w \in tracked[m].max \cup tracked[m].normal}
  IN  /\ tracked' = [m \in Monitors |-> sets(m)]
      /\ stack' = Refreshing(IF refresh THEN touched ELSE {}) \o base

(* InsertWindow up to the question to the virtual desktop manager, which   *)
(* is asked only about what looks like a user window.  The shell's own     *)
(* windows are skipped.                                                    *)
InsertWindow(w, refresh, base) ==
  IF w = Flyout THEN stack' = base /\ UNCHANGED tracked
  ELSE IF LooksLikeUserWindow(w)
  THEN /\ stack' = <<[at |-> "inserting", win |-> w, refresh |-> refresh]>> \o base
       /\ UNCHANGED tracked
  ELSE UpdateTracked(w, FALSE, refresh, base)

(* InsertWindow after it: the filter, then the size and the monitor of the *)
(* window are read anew; that it looked like a user window is not.         *)
InsertWindowDone ==
  /\ At("inserting")
  /\ UpdateTracked(Top.win, Top.win \notin config.ignored, Top.refresh, Tail(stack))
  /\ UNCHANGED <<desktopVars, shell, taskbars, normalTaskbars, service, resetting, reentered,
                 config, previews, lastPid, recentRestart, exit, screen>>

(* RemoveWindow on every taskbar.  Slip: maximised windows are forgotten.  *)
RemoveWindowFromNormal(w) ==
  /\ tracked' = [m \in Monitors |-> [tracked[m] EXCEPT !.normal = @ \ {w}]]
  /\ stack' = Refreshing({m \in Known : w \in tracked[m].normal}) \o stack

RemoveWindow(w) ==
  /\ tracked' = [m \in Monitors |-> [max |-> tracked[m].max \ {w}, normal |-> tracked[m].normal \ {w}]]
  /\ stack' = Refreshing({m \in Known : w \in tracked[m].max \cup tracked[m].normal}) \o stack

-----------------------------------------------------------------------------
(* ResetState. *)

NoSets == [max |-> {}, normal |-> {}]
ClearedShell == [powerSaver |-> FALSE, taskView |-> FALSE, peek |-> FALSE,
                 where |-> [f \in Flyouts |-> NoMonitor], foreground |-> NoWindow]

(* ResetState(manual) up to the release of m_TaskbarService, a proxy that  *)
(* lives in Explorer.                                                      *)
BeginReset(manual, base) ==
  /\ resetting' = TRUE
  /\ reentered' = FALSE
  /\ shell' = ClearedShell
  /\ taskbars' = [m \in Monitors |-> NoBar]
  /\ tracked' = [m \in Monitors |-> NoSets]
  /\ normalTaskbars' = {}
  /\ service' = FALSE
  /\ stack' = <<[at |-> "clearing", manual |-> manual, waits |-> service]>> \o base

(* A call of ResetState: inside another one it is only noted.  Slip: it is *)
(* not guarded by m_ResettingState.                                        *)
ResetStateUnguarded(manual) ==
  /\ BeginReset(manual, stack)
  /\ UNCHANGED <<config, previews, lastPid, recentRestart>>

ResetState(manual) ==
  /\ IF resetting
     THEN reentered' = TRUE /\ UNCHANGED <<resetting, shell, taskbars, tracked, normalTaskbars, service, stack>>
     ELSE BeginReset(manual, stack)
  /\ UNCHANGED <<config, previews, lastPid, recentRestart>>

(* The guard's destructor, when ResetState returns. *)
EndReset ==
  /\ resetting' = FALSE
  /\ reentered' = FALSE
  /\ stack' = Tail(stack)

(* The process of the main taskbar is not the one known.  Slip: every     *)
(* reset that was not asked for by the program is taken for a restart.     *)
IsRestartIfAutomatic(manual) == bars[Primary] # NoBar /\ ~manual /\ lastPid # 0
IsRestart(manual) == bars[Primary] # NoBar /\ ~manual /\ lastPid \notin {0, explorer.pid}

(* The kind is told by what Explorer has loaded into its taskbar so far.   *)
GetTaskbarType == IF explorer.ready THEN TaskbarKind ELSE "Unknown"

(* The search for the main taskbar.  A new Explorer process is a restart;  *)
(* one less than 30 seconds after m_LastExplorerRestart ends the program.  *)
(* While Explorer's taskbar is of no known kind, ResetState returns.       *)
DetectTaskbar ==
  /\ At("clearing")
  /\ LET found == bars[Primary] # NoBar
         restart == IsRestart(Top.manual)
     IN
     \/ /\ restart /\ recentRestart
        /\ exit' = "restarts"
        /\ UNCHANGED <<resetting, reentered, stack, lastPid, recentRestart>>
     \/ /\ ~(restart /\ recentRestart)
        /\ recentRestart' = (recentRestart \/ restart)
        /\ lastPid' = IF found THEN explorer.pid ELSE lastPid
        /\ IF found /\ GetTaskbarType = "Unknown"
           THEN EndReset
           ELSE /\ stack' = <<[at |-> "injecting", manual |-> Top.manual, main |-> bars[Primary]]>> \o Tail(stack)
                /\ UNCHANGED <<resetting, reentered>>
        /\ UNCHANGED exit
  /\ UNCHANGED <<desktopVars, shell, taskbars, tracked, normalTaskbars, service, config, previews, screen>>

(* Failing to inject into Explorer is critical, which ends the program.    *)
InjectExplorerTAP ==
  /\ At("injecting")
  /\ IF Top.main # NoBar /\ Top.main # bars[Primary]
     THEN exit' = "injection" /\ UNCHANGED <<service, stack>>
     ELSE /\ service' = (TaskbarKind = "XAML" /\ Top.main # NoBar)
          /\ stack' = <<[at |-> "arming", manual |-> Top.manual, main |-> Top.main]>> \o Tail(stack)
          /\ UNCHANGED exit
  /\ UNCHANGED <<desktopVars, shell, taskbars, tracked, normalTaskbars, resetting, reentered,
                 config, previews, lastPid, recentRestart, screen>>

(* Each taskbar starts with no windows and Explorer's own appearance.  A   *)
(* main taskbar that has died is on no monitor: it is in m_Taskbars under  *)
(* a null one, where nothing it is asked for has an effect.                *)
InsertTaskbar(found, main) ==
  /\ taskbars' = found
  /\ tracked' = [m \in Monitors |-> NoSets]
  /\ normalTaskbars' = {b \in Bars : b = main \/ \E m \in Monitors : found[m] = b}

OnNoMonitor == {b \in normalTaskbars : \A m \in Monitors : taskbars[m] # b}

(* The calls that arm the service may fail: that is only a warning.  Then  *)
(* InsertTaskbar, for the main then the secondary taskbars.  Without the   *)
(* service it installs a hook, and failing to is critical.                 *)
InsertTaskbars ==
  /\ At("arming")
  /\ IF ~service /\ Top.main # NoBar /\ Top.main # bars[Primary]
     THEN exit' = "injection" /\ UNCHANGED <<taskbars, tracked, normalTaskbars, stack>>
     ELSE /\ InsertTaskbar([m \in Monitors |-> IF m = Primary /\ Top.main # bars[m] THEN NoBar ELSE bars[m]], Top.main)
          /\ stack' = <<[at |-> "coordinating", manual |-> Top.manual]>> \o Tail(stack)
          /\ UNCHANGED exit
  /\ UNCHANGED <<desktopVars, shell, service, resetting, reentered, config, previews, lastPid, recentRestart, screen>>

(* Visibility of the view coordinators, IsStartMenuOpened, IsSearchOpened  *)
(* and IsFindInStartOpened, which Windows 10 has nobody to ask about.      *)
IsOpened(question) ==
  IF question = "taskView" THEN taskView
  ELSE question \in open /\ (question = "find" => IsWindows11)

(* One question at a time: the call that asks it, and what follows. *)
Ask(manual, question) ==
  [at |-> "asking", manual |-> manual, about |-> question, opened |-> IsOpened(question)]
NextQuestion == [start |-> "search", search |-> "find"]

(* Battery saver is read, and the shell is asked about Task View. *)
AskShell ==
  /\ At("coordinating")
  /\ shell' = [shell EXCEPT !.powerSaver = saver]
  /\ stack' = <<Ask(Top.manual, "taskView")>> \o Tail(stack)
  /\ UNCHANGED <<desktopVars, taskbars, tracked, normalTaskbars, service, resetting, reentered,
                 config, previews, lastPid, recentRestart, exit, screen>>

(* The answer is recorded, then the foreground window.  Slip: the answer   *)
(* is dropped.                                                             *)
ForgetTaskView ==
  /\ At("asking") /\ Top.about = "taskView"
  /\ shell' = [shell EXCEPT !.foreground = front]
  /\ stack' = <<Ask(Top.manual, "start")>> \o Tail(stack)
  /\ UNCHANGED <<desktopVars, taskbars, tracked, normalTaskbars, service, resetting, reentered,
                 config, previews, lastPid, recentRestart, exit, screen>>

RecordTaskView ==
  /\ At("asking") /\ Top.about = "taskView"
  /\ shell' = [shell EXCEPT !.taskView = Top.opened, !.foreground = front]
  /\ stack' = <<Ask(Top.manual, "start")>> \o Tail(stack)
  /\ UNCHANGED <<desktopVars, taskbars, tracked, normalTaskbars, service, resetting, reentered,
                 config, previews, lastPid, recentRestart, exit, screen>>

(* What is opened is assumed to be on the monitor of the foreground window *)
(* (GetStartMenuMonitor, GetSearchMonitor, GetFindInStartMonitor).         *)
LocateFlyout ==
  /\ At("asking") /\ Top.about \in Flyouts
  /\ shell' = IF Top.opened THEN [shell EXCEPT !.where[Top.about] = MonitorOf(front)] ELSE shell
  /\ stack' = <<IF Top.about = "find"
                THEN [at |-> "enumerating", manual |-> Top.manual, last |-> NoWindow]
                ELSE Ask(Top.manual, NextQuestion[Top.about])>> \o Tail(stack)
  /\ UNCHANGED <<desktopVars, taskbars, tracked, normalTaskbars, service, resetting, reentered,
                 config, previews, lastPid, recentRestart, exit, screen>>

(* The loop over Window::FindEnum(), which asks for the window below the   *)
(* last one as the z-order is now.                                         *)
InsertNextWindow ==
  /\ At("enumerating")
  /\ LET w == NextWindow(Top.last) IN
       /\ w # NoWindow
       /\ InsertWindow(w, FALSE, <<[Top EXCEPT !.last = w]>> \o Tail(stack))
  /\ UNCHANGED <<desktopVars, shell, taskbars, normalTaskbars, service, resetting, reentered,
                 config, previews, lastPid, recentRestart, exit, screen>>

(* Nothing left to insert: the effects are applied, with m_ResettingState  *)
(* still set, or everything is done again if ResetState was re-entered.    *)
(* Slip: it is not done again.                                             *)
ApplyAnyway ==
  /\ At("enumerating")
  /\ NextWindow(Top.last) = NoWindow
  /\ RefreshAllAttributes(<<[at |-> "applying", manual |-> Top.manual]>> \o Tail(stack))
  /\ UNCHANGED <<desktopVars, members, exit, screen>>

ApplyOrRetry ==
  /\ At("enumerating")
  /\ NextWindow(Top.last) = NoWindow
  /\ IF reentered
     THEN BeginReset(Top.manual, Tail(stack))
     ELSE /\ RefreshAllAttributes(<<[at |-> "applying", manual |-> Top.manual]>> \o Tail(stack))
          /\ UNCHANGED <<shell, taskbars, tracked, normalTaskbars, service, resetting, reentered>>
  /\ UNCHANGED <<desktopVars, config, previews, lastPid, recentRestart, exit, screen>>

FinishReset ==
  /\ At("applying")
  /\ EndReset
  /\ UNCHANGED <<desktopVars, shell, taskbars, tracked, normalTaskbars, service,
                 config, previews, lastPid, recentRestart, exit, screen>>

-----------------------------------------------------------------------------
(* Handlers.  Each takes its message off its queue, and is called on top   *)
(* of whatever the worker is waiting in.                                   *)

NoReset == UNCHANGED <<taskbars, normalTaskbars, service, resetting, reentered,
                       config, previews, lastPid, recentRestart, screen>>

NextEvent(kinds) ==
  /\ PumpingEvents /\ events # <<>> /\ Head(events).kind \in kinds
  /\ events' = Tail(events)
  /\ UNCHANGED <<world, sent, posted, changes, exit>>

NextSent(kinds) ==
  /\ Pumping /\ sent # <<>> /\ Head(sent).kind \in kinds
  /\ sent' = Tail(sent)
  /\ UNCHANGED <<world, events, changes, exit>>

NextPosted(kinds) ==
  /\ MainLoop /\ posted # <<>> /\ Head(posted).kind \in kinds
  /\ posted' = Tail(posted)
  /\ UNCHANGED <<world, sent, events, changes, exit>>

(* EVENT_OBJECT_LOCATIONCHANGE, _SHOW, _UNCLOAKED, _CREATE...  Slip: the   *)
(* taskbars are not refreshed.                                             *)
OnWindowStateChangeQuietly ==
  /\ NextEvent({"changed"})
  /\ LET w == Head(events).win IN
       IF Valid(w) THEN InsertWindow(w, FALSE, stack) ELSE UNCHANGED <<tracked, stack>>
  /\ UNCHANGED shell /\ NoReset

OnWindowStateChange ==
  /\ NextEvent({"changed"})
  /\ LET w == Head(events).win IN
       IF Valid(w) THEN InsertWindow(w, TRUE, stack) ELSE UNCHANGED <<tracked, stack>>
  /\ UNCHANGED shell /\ NoReset

(* EVENT_OBJECT_HIDE, _CLOAKED, EVENT_SYSTEM_MINIMIZESTART, and DESTROY of *)
(* what is not a known taskbar: the window's state is not looked at.       *)
WindowRemove ==
  /\ NextEvent({"hidden", "destroyed"})
  /\ RemoveWindow(Head(events).win)
  /\ UNCHANGED shell /\ NoReset

(* EVENT_OBJECT_CREATE or _DESTROY of a taskbar: one that exists, or one   *)
(* of m_Taskbars.                                                          *)
OnTaskbarCreateDestroy ==
  /\ NextEvent({"barCreated", "barDestroyed"})
  /\ LET b == Head(events).bar
         concerns == IF Head(events).kind = "barCreated" THEN \E m \in Monitors : bars[m] = b
                     ELSE b \in OnNoMonitor \/ \E m \in Monitors : taskbars[m] = b
     IN
       IF concerns THEN ResetState(FALSE)
       ELSE UNCHANGED <<members, stack>>
  /\ UNCHANGED screen

OnAeroPeekEnterExit ==
  /\ NextEvent({"peek"})
  /\ shell' = [shell EXCEPT !.peek = Head(events).on]
  /\ RefreshAllAttributes(stack)
  /\ UNCHANGED tracked /\ NoReset

(* The taskbars of the old and of the new foreground window's monitors.    *)
(* Slip: they are not looked up.                                           *)
OnForegroundWindowChangeAnywhere ==
  /\ NextEvent({"foreground"})
  /\ LET w == Head(events).win
         new == IF Valid(w) THEN w ELSE NoWindow
     IN  /\ shell' = [shell EXCEPT !.foreground = new]
         /\ stack' = Refreshing({MonitorOf(shell.foreground), MonitorOf(new)}) \o stack
  /\ UNCHANGED tracked /\ NoReset

OnForegroundWindowChange ==
  /\ NextEvent({"foreground"})
  /\ LET w == Head(events).win
         new == IF Valid(w) THEN w ELSE NoWindow
     IN  /\ shell' = [shell EXCEPT !.foreground = new]
         /\ stack' = Refreshing(Known \cap {MonitorOf(shell.foreground), MonitorOf(new)}) \o stack
  /\ UNCHANGED tracked /\ NoReset

(* The taskbar of the window's monitor. *)
OnWindowOrderChange ==
  /\ NextEvent({"reorder"})
  /\ stack' = Refreshing(Known \cap {MonitorOf(Head(events).win)}) \o stack
  /\ UNCHANGED <<shell, tracked>> /\ NoReset

(* WM_DISPLAYCHANGE, TaskbarCreated *)
OnDisplayChange ==
  /\ NextSent({"displayChange"})
  /\ ResetState(FALSE)
  /\ UNCHANGED <<posted, screen>>

(* WM_SETTINGCHANGE is posted back, to be handled outside of SendMessage. *)
OnSettingChangeSent ==
  /\ NextSent({"settingChange"})
  /\ posted' = Append(posted, [kind |-> "settingChange"])
  /\ UNCHANGED <<shell, tracked, stack>> /\ NoReset

(* Slip: it is posted back whatever it comes from. *)
OnSystemSettingsChangePosted ==
  /\ MainLoop /\ posted # <<>> /\ Head(posted).kind = "settingChange"
  /\ posted' = Append(Tail(posted), Head(posted))
  /\ UNCHANGED <<world, sent, events, changes, exit, members, stack, screen>>

OnSystemSettingsChange ==
  /\ NextPosted({"settingChange"})
  /\ ResetState(FALSE)
  /\ UNCHANGED screen

OnPowerBroadcast ==
  /\ NextSent({"power"})
  /\ shell' = [shell EXCEPT !.powerSaver = Head(sent).on]
  /\ RefreshAllAttributes(stack)
  /\ UNCHANGED <<posted, tracked>> /\ NoReset

(* The hook asks before Explorer paints a classic taskbar itself: unless   *)
(* the worker answers that it painted it, Explorer does.                   *)
OnRequestAttributeRefresh ==
  /\ NextSent({"requestRefresh"})
  /\ LET b == Head(sent).bar IN
     \/ \E m \in Known :
          /\ taskbars[m] = b /\ bars[m] = b /\ ~service
          /\ GetConfig(m).accent # "normal"
          /\ SetAttribute(m, GetConfig(m))
     \/ /\ \A m \in Known : service \/ taskbars[m] # b \/ bars[m] # b \/ GetConfig(m).accent = "normal"
        /\ shown' = [m \in Monitors |-> IF bars[m] = b /\ TaskbarKind # "XAML" THEN Stock ELSE shown[m]]
        /\ UNCHANGED normalTaskbars
  /\ UNCHANGED <<posted, shell, taskbars, tracked, service, resetting, reentered,
                 config, previews, lastPid, recentRestart, stack, extras>>

OnApplyColorPreview ==
  /\ NextSent({"preview"})
  /\ previews' = previews \cup {Head(sent).mode}
  /\ RefreshAllAttributes(stack)
  /\ UNCHANGED <<posted, shell, taskbars, tracked, normalTaskbars, service, resetting, reentered,
                 config, lastPid, recentRestart, screen>>

OnTaskViewVisibilityChange ==
  /\ NextPosted({"taskView"})
  /\ shell' = [shell EXCEPT !.taskView = Head(posted).on]
  /\ RefreshAllAttributes(stack)
  /\ UNCHANGED tracked /\ NoReset

(* OnStartVisibilityChange, OnSearchVisibilityChange and                   *)
(* OnFindInStartVisibilityChange: opened where the foreground window is    *)
(* now, closed where it was recorded.                                      *)
OnFlyoutVisibilityChange ==
  /\ NextPosted({"flyout"})
  /\ LET f == Head(posted).flyout
         mon == IF Head(posted).on THEN MonitorOf(front) ELSE shell.where[f]
     IN  /\ shell' = [shell EXCEPT !.where[f] = IF Head(posted).on THEN mon ELSE NoMonitor]
         /\ stack' = Refreshing(Known \cap {mon}) \o stack
  /\ UNCHANGED tracked /\ NoReset

(* What the rest of the application calls, from the main loop. *)
ConfigurationChanged(c) ==
  /\ Change("config") /\ MainLoop
  /\ c # config
  /\ config' = c
  /\ RefreshAllAttributes(stack)
  /\ UNCHANGED <<world, queues, shell, taskbars, tracked, normalTaskbars, service, resetting,
                 reentered, previews, lastPid, recentRestart, exit, screen>>

RemoveColorPreview(mode) ==
  /\ Change("preview") /\ MainLoop
  /\ previews' = previews \ {mode}
  /\ RefreshAllAttributes(stack)
  /\ UNCHANGED <<world, queues, shell, taskbars, tracked, normalTaskbars, service, resetting,
                 reentered, config, lastPid, recentRestart, exit, screen>>

ManualReset ==
  /\ Change("manual") /\ MainLoop
  /\ ResetState(TRUE)
  /\ UNCHANGED <<world, queues, exit, screen>>

-----------------------------------------------------------------------------
(* The constructor ends with ResetState(true). *)
Init ==
  /\ DesktopInit
  /\ shell = ClearedShell
  /\ taskbars = [m \in Monitors |-> NoBar]
  /\ tracked = [m \in Monitors |-> NoSets]
  /\ normalTaskbars = {}
  /\ service = FALSE
  /\ resetting = TRUE /\ reentered = FALSE
  /\ config = InitialConfig
  /\ previews = {}
  /\ lastPid = 0 /\ recentRestart = JustBooted
  /\ exit = NotExited
  /\ stack = <<[at |-> "clearing", manual |-> TRUE, waits |-> FALSE]>>
  /\ shown = [m \in Monitors |-> Stock]
  /\ extras = [m \in Monitors |-> TRUE]

Resume ==
  \/ RefreshNext \/ RefreshLine \/ RefreshDone
  \/ InsertWindowDone
  \/ DetectTaskbar \/ InjectExplorerTAP \/ InsertTaskbars
  \/ AskShell \/ RecordTaskView \/ LocateFlyout
  \/ InsertNextWindow \/ ApplyOrRetry \/ FinishReset

Handle ==
  \/ OnWindowStateChange \/ WindowRemove \/ OnTaskbarCreateDestroy
  \/ OnAeroPeekEnterExit \/ OnForegroundWindowChange \/ OnWindowOrderChange
  \/ OnDisplayChange \/ OnSettingChangeSent \/ OnSystemSettingsChange
  \/ OnPowerBroadcast \/ OnRequestAttributeRefresh \/ OnApplyColorPreview
  \/ OnTaskViewVisibilityChange \/ OnFlyoutVisibilityChange

Call ==
  \/ \E c \in Configs : ConfigurationChanged(c)
  \/ \E mode \in PickedModes : RemoveColorPreview(mode)
  \/ ManualReset

(* m_LastExplorerRestart starts as the epoch of the steady clock, which is *)
(* the boot of the machine; 30 seconds after it, or after what was written *)
(* to it since, a restart is no longer one too many.                       *)
TimePasses ==
  /\ exit = NotExited /\ recentRestart
  /\ recentRestart' = FALSE
  /\ UNCHANGED <<desktopVars, shell, taskbars, tracked, normalTaskbars, service, resetting,
                 reentered, config, previews, lastPid, exit, stack, screen>>

(* A taskbar that comes or goes takes what it showed with it. *)
NewScreen ==
  /\ shown' = [m \in Monitors |-> IF bars'[m] = bars[m] THEN shown[m] ELSE Stock]
  /\ extras' = [m \in Monitors |-> IF bars'[m] = bars[m] THEN extras[m] ELSE TRUE]

(* The worker holds no handle of taskbar b. *)
Unknown(b) ==
  /\ b \notin normalTaskbars
  /\ b # NoBar => /\ \A m \in Monitors : taskbars[m] # b
                  /\ \A i \in DOMAIN stack : stack[i].at \in {"injecting", "arming"} => stack[i].main # b

Environment ==
  /\ exit = NotExited
  /\ \/ \E w \in Windows :
          \/ \E m \in Monitors, size \in {"max", "normal"} : PlaceWindow(w, m, size)
          \/ MinimiseWindow(w)
          \/ ShowWindow(w)
          \/ HideWindow(w)
          \/ \E m \in Monitors : CreateWindow(w, m)
          \/ DestroyWindow(w)
          \/ ActivateWindow(w)
     \/ \E f \in Flyouts :
          \/ \E m \in Monitors : OpenFlyout(f, m)
          \/ \E w \in present \cup {NoWindow} : CloseFlyout(f, w)
     \/ ToggleBatterySaver
     \/ \E on \in BOOLEAN : SwitchTaskView(on) \/ AeroPeek(on)
     \/ \E m \in Monitors, b \in Bars \cup {NoBar} : Unknown(b) /\ ChangeDisplays(m, b)
     \/ ChangeWorkArea
     \/ \E mode \in PickedModes : PreviewFromOutside(mode)
     \/ \E b \in Bars : RepaintTaskbar(b)
     \/ ExplorerDies
     \/ \E b \in Bars, ready \in BOOLEAN : Unknown(b) /\ ExplorerStarts(b, ready)
     \/ ExplorerReady
  /\ NewScreen
  /\ UNCHANGED <<members, exit, stack>>

Next == Resume \/ Handle \/ Call \/ TimePasses \/ Environment

(* The worker's thread keeps running: a wait ends, and what is queued is   *)
(* handled.  Nothing is assumed of the desktop or of the user.             *)
Spec == Init /\ [][Next]_vars /\ WF_vars(Resume) /\ WF_vars(Handle)

-----------------------------------------------------------------------------
(* Properties.  Quiet: nothing is in progress and nothing is queued, so    *)
(* the worker will not act again until the desktop changes.                *)
Quiet ==
  /\ exit = NotExited /\ stack = <<>>
  /\ sent = <<>> /\ events = <<>> /\ posted = <<>>

Holds(m, w) == w \in tracked[m].max \cup tracked[m].normal

(* However handlers nest in the waits of ResetState, there is one          *)
(* ResetState in progress when m_ResettingState is set and none when it is *)
(* not, and a re-entrant call is on record only while one is.              *)
OneReset ==
  /\ \A i, j \in DOMAIN stack :
       stack[i].at \in ResetPlaces /\ stack[j].at \in ResetPlaces => i = j
  /\ resetting <=> \E i \in DOMAIN stack : stack[i].at \in ResetPlaces
  /\ reentered => resetting

(* A window counts for one taskbar, as maximised or as normal, although    *)
(* InsertWindow calls for the same window overlap.                         *)
TrackedOnce ==
  \A w \in Windows, m, n \in Monitors :
    /\ Holds(m, w) /\ Holds(n, w) => m = n
    /\ Holds(m, w) => m \in Known
    /\ ~(w \in tracked[m].max /\ w \in tracked[m].normal)

(* Once everything is handled, a tracked window exists and is where and as *)
(* large as the worker thinks, whatever happened to it while InsertWindow  *)
(* waited for the virtual desktop manager.                                 *)
TrackedWindowsAreThere ==
  Quiet => \A m \in Monitors, w \in Windows :
             Holds(m, w) => /\ w \in present /\ desk[w].mon = m
                            /\ desk[w].size = IF w \in tracked[m].max THEN "max" ELSE "normal"

(* Once everything is handled, every taskbar has the appearance GetConfig  *)
(* gives for the state of the worker as it is then: no refresh was missed, *)
(* and none that was computed earlier was applied later.  Left out is the  *)
(* rule of a window that is not tracked, because it was ignored or because *)
(* ResetState missed it: GetConfig uses it while that window is in the     *)
(* foreground, but what happens to the window refreshes no taskbar.  So is *)
(* a service that went with its Explorer while the worker was applying the *)
(* effects: that reset is lost (ResetsAreServed), and calls fail.          *)
Colour(look) == IF look.accent = "normal" THEN Stock ELSE look.colour
LooksOfUntracked ==
  LET ruled == {w \in Windows : HasRule(config.visibleRule, w) /\ \A m \in Monitors : ~Holds(m, w)}
  IN  (UNION {{config.visibleRule[w].look, config.visibleRule[w].inactive} : w \in ruled}) \ {NoRule}
AppearanceFollowsState ==
  Quiet => \A m \in Known :
    \/ taskbars[m] # bars[m] \/ ~Reachable
    \/ shown[m] = Colour(GetConfig(m))
    \/ {shown[m], Colour(GetConfig(m))} \cap {Colour(look) : look \in LooksOfUntracked} # {}

(* Once everything is handled, the worker's idea of the shell is right:    *)
(* what ResetState asked and what notifications said agree.                *)
ShellIsFollowed ==
  Quiet /\ Known # {} =>
    /\ shell.powerSaver = saver
    /\ shell.taskView = taskView
    /\ shell.foreground = front
    /\ \A f \in Flyouts : shell.where[f] # NoMonitor <=> f \in open

(* When a reset starts to apply its effects, it knows the taskbars there   *)
(* are, or a notification that will tell otherwise is still queued: one    *)
(* received while the reset waited made it start over.  The main taskbar   *)
(* may have died unnoticed, while the service was being armed and nothing  *)
(* was known of it yet; but then Explorer has not started again, and when  *)
(* it does that is told.                                                   *)
ResetPending ==
  \/ \E i \in DOMAIN sent : sent[i].kind = "displayChange"
  \/ \E i \in DOMAIN events : events[i].kind \in {"barCreated", "barDestroyed"}
Applying == \E i \in DOMAIN stack : stack[i].at = "applying"
TaskbarsAreCurrent == taskbars = bars /\ (OnNoMonitor # {} => bars[Primary] = NoBar)
EffectsOnCurrentTaskbars ==
  [][Applying' /\ ~Applying => TaskbarsAreCurrent \/ ResetPending]_vars

(* The program gives up only after Explorer restarted twice: one restart,  *)
(* however many resets and notifications it brings, does not end it.       *)
OneRestartIsTolerated == exit = "restarts" => explorer.pid >= 3

(* What re-entrancy was recorded for is done: once everything is handled,  *)
(* the worker knows the taskbars there are.                                *)
ResetsAreServed == Quiet /\ explorer.ready => taskbars = bars

(* The line or the peek button follows the active mode.                    *)
LineFollowsMode ==
  Quiet => \A m \in Known : taskbars[m] = bars[m] => extras[m] = GetConfig(m).extra

(* A window that is open on a monitor counts for its taskbar. *)
OpenWindowsCount ==
  Quiet => \A w \in present :
    /\ desk[w].shown /\ desk[w].size # "min" /\ desk[w].mon \in Known /\ w \notin config.ignored
    => Holds(desk[w].mon, w)

(* Everything queued is eventually handled and every call returns. *)
Settles == []<>(Quiet \/ exit # NotExited)
=============================================================================
