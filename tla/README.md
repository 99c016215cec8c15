# TranslucentTB: verification project

TLA+ modules of TranslucentTB's core, TLC configurations that check them on
small instances, and TLAPS proofs of what matters most. Every definition is
translated from the source; `PROJECT.json` maps it to its lines. Paths below
are relative to the repository.

- [The system](#the-system)
- [The modules](#the-modules)
- [The runs](#the-runs)
- [The proofs](#the-proofs)
- [What is not modelled](#what-is-not-modelled)
- [Plan](#plan)

## The system

TranslucentTB changes the appearance of the Windows taskbar according to what
is on screen. It is one process with a main thread (the worker, the tray icon,
the configuration), a few XAML threads (windows and menus), and two DLLs it
puts into Explorer.

| Component | State | Operations | Hard behaviour | Module |
|---|---|---|---|---|
| `TaskbarAttributeWorker` (`TranslucentTB/taskbar`) | per monitor: the taskbar and its maximised and normal windows; where Start, Search and Find in Start are; Task View, peek, battery saver, foreground window; previews; reset flags; the last Explorer process | handlers of WinEvents and messages, `InsertWindow`, `RemoveWindow`, `RefreshAttribute`, `ResetState`, `GetConfig` | single threaded but re-entrant: COM calls and `SendMessage` run a message loop, so any handler may run in the middle of any other | `TaskbarWorker`, `SwcaDetour` |
| Dynamic modes and rules (`Common/config`) | the configuration | `GetConfig`, `FindRule`, previews | priority of seven modes, rules of the highest maximised or of the foreground window | `DynamicModes` |
| Window queries (`TranslucentTB/windows`) | none | `valid`, `monitor`, `is_user_window`, `FindEnum` | the answers change between two calls | `Desktop` |
| ExplorerTAP | the taskbars found in Explorer's XAML tree, their brushes, the process it watches | be injected, register taskbars, set or restore an appearance, watch a process | Explorer's XAML thread, a retrying thread, a thread-pool thread that tells that the program died | `AppearanceService` |
| ExplorerHooks: SWCA detour | none | asks the worker before Explorer repaints | gives up after 100 ms, while the worker may still answer | `SwcaDetour` |
| ExplorerHooks: Task View monitor | a thread, its window and sink, a clean-up event | install, uninstall, notify | uninstalling while the thread starts or retries | `TaskViewMonitor` |
| `ConfigManager`, `FolderWatcher` | the configuration, a reload timer, a watch | load, save, reload | its own saves come back as changes; files read while written; steps of a save that fail | `ConfigStore`, `SettingsFile` |
| Application, `MainAppWindow`, XAML threads | welcome page, colour pickers, a pool of threads with a lock each, shutdown | open, close and delete windows, pick a colour, shut down, end with the session | locks held across awaits, callbacks on other threads, requests in any order | `Application` |
| Tray icon | whether it is shown and wanted | show, hide, add again when Explorer restarts | order of `TaskbarCreated` and the rest | `TrayIcon` |
| Tray menu | the items' own state, identifiers of a classic menu, the startup task | show, click | the items are older than the configuration; a menu within a menu | `TrayMenu` |
| Page hosts (`TranslucentTB/uwp`) | the window of a page, its drag region, one queued work item | place, resize, be dragged | layout passes, drags and work items in any order | `PageHost` |
| Colour picker (`Xaml/Controls`) | an RGB colour, the HSV colour beside it, what was asked for | edit, apply 30 ms later | controls that raise events when they are set | `ColorPicker` |

The worker is told of windows by out-of-context WinEvents, of displays, power
and colour previews by sent messages, of Start, Search and Task View by
messages its sinks post from other threads, and of a new configuration by a
call. It acts on the taskbars through `SetWindowCompositionAttribute`, through
messages, or through ExplorerTAP's service, a COM proxy. The main thread also
runs the tray icon, its menu and the configuration; each window has a XAML
thread, which dispatches what it wants of the program to the main thread. What
makes each component correct:

- the worker: every taskbar ends up with the appearance its state asks for;
  that state ends up right; resets do not nest and are not lost;
- ExplorerTAP: a taskbar the program painted can always be given its own
  brushes back, and is when the program dies;
- SWCA detour: Explorer keeps quiet only when the worker has painted, and a
  late answer does not leave the wrong accent unless it is known to be missed;
- Task View monitor: after uninstalling, no code of the DLL runs, and
  uninstalling ends;
- configuration: what is in memory is what is in the file, or was saved later;
  the file changes all at once;
- application: it shuts down once, drops no change of the user, leaves no
  preview behind, and waits for nothing that never comes;
- icon, menu, pages, picker: what is shown is what is configured, and what the
  user asks for is what changes.

`PROJECT.json` lists the hazards of this code with the properties that cover
them, and for the rest says why none does.

## The modules

`DynamicModes` has no state: it says which appearance a taskbar should have,
as `GetConfig` computes it from the configuration, the shell's state and the
windows tracked. A colour stands for itself; two accents are told apart
(normal, and the ones that go through the same calls). A rule belongs to a
window, and may give another look for when the window is not the active one.

`Desktop` is external: the windows and their z-order, the foreground, the
flyouts, Task View, the monitors and their taskbars, Explorer's process. Each
change is an action that queues the notifications Windows raises for it, in
three queues that reach the worker at different places:

| Queue | What | Received in |
|---|---|---|
| `sent` | `WM_DISPLAYCHANGE`, `WM_SETTINGCHANGE`, `WM_POWERBROADCAST`, `TaskbarCreated`, refresh requests, previews | every wait |
| `events` | WinEvents | waits in COM calls, and the main loop |
| `posted` | flyouts, Task View, the posted-back `WM_SETTINGCHANGE` | the main loop |

`TaskbarWorker` is the worker. The variable `stack` is its call stack: one
frame for each function that is in a call that waits, with the local variables
it will use afterwards. An action is what the code does from one wait to the
next. A handler (`NextEvent`, `NextSent`, `NextPosted`) may run whenever
nothing is in progress or the innermost frame waits in a call that receives
its queue, and pushes its own frames on the others. So re-entrancy is not a
separate mechanism of the model: it is what the stack allows.

| Code | Actions |
|---|---|
| `InsertWindow` | `InsertWindow` up to `on_current_desktop`, `InsertWindowDone` after it |
| `RemoveWindow` | `RemoveWindow` |
| `~AttributeRefresher`, `RefreshAllAttributes` | `Refreshing`, `RefreshNext` |
| `RefreshAttribute` | `RefreshNext` to the wait in `SetAttribute`, `RefreshLine`, `RefreshDone` |
| `ResetState` | `ResetState` (the guard, and `BeginReset`: clearing), `DetectTaskbar`, `InjectExplorerTAP`, `InsertTaskbars`, `AskShell`, `RecordTaskView`, `LocateFlyout`, `InsertNextWindow`, `ApplyOrRetry`, `FinishReset` |
| WinEvent handlers | `OnWindowStateChange`, `WindowRemove`, `OnTaskbarCreateDestroy`, `OnAeroPeekEnterExit`, `OnForegroundWindowChange`, `OnWindowOrderChange` |
| message handlers | `OnDisplayChange`, `OnSettingChangeSent`, `OnSystemSettingsChange`, `OnPowerBroadcast`, `OnRequestAttributeRefresh`, `OnApplyColorPreview`, `OnTaskViewVisibilityChange`, `OnFlyoutVisibilityChange` |
| calls of the application | `ConfigurationChanged`, `RemoveColorPreview`, `ManualReset` |

Each call of a reset that handles messages is a wait of its own. A failing
injection is critical.
The two calls that arm the service afterwards (`RestoreAllTaskbarsToDefault...`,
`KillExplorer...`) handle messages too, and if they fail there is only a
warning: a main taskbar that dies in them is not in `m_Taskbars` yet, so its
destruction records nothing, and it is inserted nevertheless. It is then in
`normalTaskbars` and belongs to no monitor (`OnNoMonitor`), because
`MonitorFromWindow` answers null for it. `m_TaskbarService` is a proxy to one
Explorer: once that has died its calls fail and nothing is painted
(`Reachable`). The questions to the shell (Task View, Start, search, and find in
Start on Windows 11) are asked one by one, and any notification may be handled
between two of them.

`m_LastExplorerRestart` is kept as one fact, whether it is less than 30 seconds
ago, that `TimePasses` may end at any time. `JustBooted` says whether the
program starts in the first 30 seconds of the clock the value-initialised time
point is compared with.

`MCTaskbarWorker` has the configurations and the desks of the instances.

### Inside Explorer

`AppearanceService` is the library ExplorerTAP, from its injection to the death
of the program that injected it. A frame of a taskbar is at the same time the
window, the XAML source and the element of the code, which match them by
address; a brush stands for whoever made it. Runs of the program follow one
another, Explorer restarts, and a taskbar comes, changes and goes in the XAML
tree whatever the program does.

| Code | Actions |
|---|---|
| `InjectExplorerTAP` (`api.cpp`) | `Inject`, `Ready`, `GiveUp`, `Activate` |
| `DllMain`, `TAPSite::Install` | `Attach`, `Accepted`, `Refused`, `HalfSecond`, `InstallReturns`, `Unmap`, `UnmapUnderInstaller` |
| `VisualTreeWatcher` | `Advise`, `AddSource`, `AddFrame`, `AddRectangle`, `Remove` |
| `TaskbarAppearanceService` | `SetBrush`, `ReturnToDefault`, `RestoreAllTaskbarsToDefault`, `Watch`, `WatchPackage`, `PackageGoes`; the callbacks on a `Fill` are part of every action that changes one (`FillWith`) |
| `OnProcessDied` | `OnProcessDied`, `ForgetProcess` on the pool, `RestoreAfterDeath` on the XAML thread |

`TaskViewMonitor` has two threads of Explorer and the worker. The GUI thread is
in `Uninstall` from `Uninstall` to `Terminate`; the monitor's thread goes
through `Begin`, `SetRunning`, `CoInitialize`, `LoadViewService`, `GetQuit` and
`DestroyLocals`, which says in which order the locals of `ThreadMain` go. What
the sink posts (`ViewChanges`, `Receive`) and what the window answers (`Ask`)
reach the worker independently.

`SwcaDetour` is who paints a classic taskbar: `FunctionDetour` and its timeout
in Explorer, and `OnRequestAttributeRefresh`, `OnForceRefreshTaskbar`,
`RefreshAllAttributes`, `ResetState` and the destructor in the worker, whose
calls in progress are a stack as in `TaskbarWorker`. The waits of a reset are
left to that module. An iterator over `m_Taskbars` that a reset has invalidated
is used nevertheless: `DanglingIterator` is that outcome.

In the code these three share the Explorer process and nothing else, so a
behaviour of `MCExplorer` follows one of them, chosen at the start.

### The configuration

`SettingsFile` is the abstract specification: one configuration in memory, one
file, which changes all at once. `ConfigStore` is `ConfigManager` with
`FolderWatcher` and the calls of the file system, between any two of which
another program may change the file or the process may end; its variables
`temp`, `loaded`, `watch`, `changes`, `timer` and `step` are not seen by the
abstract one, and `alive` is `Alive`.

| Code | Actions |
|---|---|
| `FolderWatcher` | `StartWatching`, `OverlappedCallback`, `WatchFails` |
| `ConfigManager::WatcherCallback`, `ScheduleReload`, `TimerCallback`, `Load` | part of `OverlappedCallback`; `TimeIsUp`, `TimerCallback`, `FirstLoad` |
| `SaveConfig`, `SaveToFile` | `SaveConfig`, `SaveToFile`, then `Replaces`, `ReplaceFails`, `ReplaceLoses` or `NothingToReplace`, `Moves`, `MoveFails` |
| callers | `MenuChanges`, `UpgradeBlur`, `DeleteConfigFile` |

`TrayMenu` is the menu that changes the configuration: the page's items with
their own state, `RefreshMenu` that brings them up to date when the menu is
shown, and what a click sends. It has the XAML flyout and the classic menu
(`BuildContextMenuInner`, `GetNextClickableId`, `TrackPopupMenu`), which a
second click on the icon can build while the first is tracked, and the startup
task, whose state is Windows' own. A behaviour of `MCStore` follows the file or
the menu: the file is taken in whatever a click has changed, and the menu takes
any reload.

### Windows of the program

`Application` has the main thread (`main`, what it is in the middle of, and
`mainQueue`, the tasks dispatched to it), the XAML threads with their lock,
window and dispatcher queues, the colour pickers and the coroutine `Shutdown`,
which runs now on one thread, now on another.

| Code | Actions |
|---|---|
| `MainAppWindow::ColorRequested`, `XamlThreadPool` | `ColorRequested`, `FocusPicker`, `LookForThread`, `TryThread`, `NewThread`, `ThreadInit`, `ThreadReady` |
| `XamlThread::CreateXamlWindow`, `DeletedCallback` | `StartCreating`, `Create`, `StartDeleting`, `DeletedCallback` |
| `XamlPageHost` and its pages | `LayoutUpdated`, `Measure`, `UserCloses`, `PickColor`, `CommitColor`, `DiscardColor`, `KeepEditing`, `Approve`, `EditFromWelcome` |
| tasks for the main thread | `ApplyColorPreview`, `RemoveColorPreview`, `ForgetPicker`, `WelcomeTask`, `WelcomeClosed`, `Finish` |
| `Application::Shutdown` | `Shutdown`, `LockThread`, `SwitchThread`, `AskToClose`, `AllAsked` |
| end of `Run`, `~XamlThreadPool`, `~XamlThread` | `RunReturns`, `ThreadDeinit`, `PoolIsGone` |
| end of the session | `SessionAsks`, `QueryEndSession`, `EndSession`, `Killed` |

Where the code uses what another thread may have freed, the action has the
crash as an outcome: `FocusPicker` (a host that is gone), `Measure` (a page
that is closed), `LockThread` (a vector that has grown), `DispatchTooLate` (the
main dispatcher after it is destroyed).

`TrayIcon` is the icon with what Explorer really shows of it. `PageHost` is
where the windows of the pages are and the one work item that resizes them, in
coordinates. `ColorPicker` is the control: `picker` is a record, and the
members of the class are operators from a record to a record, because setting a
control raises its event within the call. It has two values for a channel, no
green and no saturation: what matters is that black has no hue, so that the HSV
colour beside the RGB one must be kept. A behaviour of `MCApplication` follows
one of the four, for they change nothing of each other but what their own
modules take from outside.

A few operators of each module are introduced as a *slip*: the form a plausible
mistake would give the operator that follows. They are not part of the
specification; substituting one for its operator must break a property.

## The runs

All bounds are constants. In `TaskbarWorker`: `MaxChanges` changes of the
desktop or calls of the application in a behaviour, `MaxQueue` notifications in
a queue, `MaxDepth` frames on the stack when a message is handled. Three frames
are enough for a handler that waits in a handler that waits in a reset.

| Run | Instance | Shows |
|---|---|---|
| `windows` | XAML taskbar, 2 windows with rules, 3 changes, queues of 2, depth 3 | `TypeOK`, `TrackedWindowsAreThere`, `AppearanceFollowsState` |
| `displays` | XAML taskbar, 2 windows, 2 monitors, 3 taskbar handles, 2 changes of eight kinds, queues of 2, depth 4 | `OneReset`, `TrackedOnce`, `EffectsOnCurrentTaskbars` |
| `shell` | classic taskbar, 1 window, 2 monitors, 2 changes of thirteen kinds, queues of 2, depth 4 | `ShellIsFollowed`, `OneRestartIsTolerated`, `Settles` |
| `explorer` | two runs of the program, one taskbar frame, two Explorers; two loads of the monitor; two classic taskbars | `TapTypeOK`, `BrushesCanBeTakenBack`, `WatchIsArmed`, `WaitOutlastsTries`, `WatchedDeathIsUndone`, `InjectionEnds`; `QuitThreadIsCleanWhenTerminated`, `WorkerFollowsTaskView`, `UninstallReturns`; `AccentSettles`, `StockAfterExit`, `SwallowedMeansPainted` |
| `store` | four configurations, two edits by others, one change from the menu, two starts; a menu with two changes | `StoreTypeOK`, `ChangeIsNoticed`, `FileIsFollowed`, `FileChangesAtOnce`; `MenuTypeOK`, `ClickChangesOneThing` |
| `application` | one state with a picker, four threads, three acts; two broadcasts; two work areas and two sizes of a page; a picker with alpha | `AppTypeOK`, `OneWindowPerThread`, `OnePickerPerState`, `PreviewEnds`, `NoChangeIsDropped`, `MainThreadReturns`; `TrayTypeOK`, `IconFollowsConfig`; `PickerTypeOK`, `HsvIsKept`, `WhatIsAskedIsApplied`; `SettledWindowIsRight`, `WindowsAreInReach` |
| `lost_reset` | display changes | violates `ResetsAreServed` |
| `line` | windows change | violates `LineFollowsMode` |
| `missed_window` | windows are destroyed | violates `OpenWindowsCount` |
| `flyout_race` | flyouts during a reset | violates `AppearanceFollowsState` |
| `boot` | `JustBooted` | violates `OneRestartIsTolerated` |
| `welcome` | the windows of `application`, with a first start | violates `WelcomeAgain` |

Two windows and two monitors let a window move from one taskbar to another
while a second one stays, is below it, or is met by the enumeration after it.
The third handle is for a taskbar that comes when two have been, one of which
is gone but still in `m_NormalTaskbars`.
One change starts something, a second disturbs it in a wait, a third disturbs
what the second started. Larger bounds were tried too, and take longer than a
routine check should: `shell` passes with three changes and depth 3 when its
liveness property is left out (4.6 million states), and all the properties of
`windows` and `displays` together pass with moves, destructions, activations
and display changes, three changes and depth 4 (4.1 million states). Deadlock is
not checked in any run: a desktop on which nothing happens any more, or a
program that has exited, is a state in which this system stops. Taskbar handles
are symmetric where no liveness is checked.

The bounds of the other runs:

- `explorer`: two runs of the program are the one that dies and the one that
  comes while it is being mourned. `MaxAttempts` and `ReadyTimeout` are 60 tries
  and a little over half a minute in the code, 2 and 3 here: only which is
  longer matters. `LoadAttempts` is 20 in the code, 3 here: a first try, one
  that is neither first nor last, and the last. Two loads of the monitor let
  messages of the first reach the worker during the second. Two classic taskbars
  are what a loop over taskbars needs to be disturbed in its middle; `MaxDepth`
  3, `MaxRequests` 1 and `MaxOutside` 3 allow a handler within a handler within
  the exit, with a late answer for one of them.
- `store`: the four configurations are one that the worker upgrades, two it does
  not, and one with saving disabled. One edit makes the file other than what was
  loaded, the second comes during the reload, the save or the crash that
  follows; the second start finds what the first left behind. Two changes around
  a menu are one click and what came before it. Of the seven submenus there are
  one that can be disabled and one that cannot, of the five accents three, of
  which one is not there on a classic taskbar. `IdBits` is 5, not 32, so that
  identifiers wrap around within the third of the three classic menus that may
  be built (`MaxBuilt`).
- `application`: one picker state is enough for two requests of the same picker,
  two windows on one thread one after the other, and a picker beside the welcome
  page; an act is a picker or an edit asked for, a colour tried, an exit or an
  end of the session, and there is a thread for each window, the pool being
  unbounded. Two broadcasts are a restart of Explorer not handled yet when the
  DPI changes. The two work areas overlap without either holding the other, so
  that a window that was right is not any more; one page size is larger than the
  width of one of them, so that it does not fit there. There is a page that
  expands into its title bar (the welcome page) and one that does not (the
  picker), which differ in their drag regions, and `GetMonitorInfo` may fail
  whenever a page is measured.
- `welcome`: the bounds of `application`, for `Application` alone.

The passing properties of `TaskbarWorker` speak of quiet states, with
nothing queued and nothing in progress, because that is when the worker will not
act until something else happens: what is wrong then stays wrong.

What the code does other than a reader might expect, and a property
therefore leaves out, the property says. The cases are these.

`AppearanceFollowsState` leaves two cases out. A service that went with its
Explorer while a reset applied its effects can no longer be called, and the
reset asked for meanwhile is lost, as `ResetsAreServed` shows. And `GetConfig`
uses the rule of the foreground window even if that window is not tracked (it
is ignored, or the enumeration of a reset missed it), but such a window
refreshes nothing when it moves or goes away. With three changes TLC finds a
taskbar that keeps the rule of a window that is gone.

`EffectsOnCurrentTaskbars` allows a main taskbar that died while the service
was armed to be among those that are painted, but only as long as Explorer has
no other main taskbar; when it has one, `TaskbarCreated` is queued or has
re-entered the reset.

`AccentSettles` and `StockAfterExit` leave out taskbars that Explorer painted
because an answer came late or was disabled (`missed`), those a reset took for
normal though they were not (`presumed`: `InsertTaskbar` always puts them in
`m_NormalTaskbars`), and for the second an exit that others' messages disturb.
`WatchIsArmed` and `WatchedDeathIsUndone` are about accepted watches: the
service refuses a second one while it mourns the first, and the program only
logs that. `MainThreadReturns` leaves out a thread that waits for its own lock
(`Stuck`): the shutdown takes the lock, and the page closes before the switch to
its thread. `ClickChangesOneThing` leaves out the blur radius, which the
menu does not keep, and a click after a reload of the file behind an open menu,
which sends the older items. `SettledWindowIsRight` asks nothing of the width of
the drag region from right to left, where the buttons do not move and the region
is not made anew, and neither it nor `WindowsAreInReach` asks anything of a page
that was measured while `GetMonitorInfo` did not know its monitor: its window
shrinks to nothing. `NoChangeIsDropped` leaves out the windows asked for after
the shutdown had begun (`late`), which it may not have counted.

The runs that end in a violation are disagreements between the code and what
the repository says of it, listed under "findings" in `PROJECT.json`:

- **`lost_reset`**: a reset asked for while the last `RefreshAllAttributes` of
  a reset waits sets a flag that was already tested and is then cleared.
- **`line`**: `RefreshAttribute` uses one configuration before and after a
  wait. The refresh nested in that wait set the line according to a newer one,
  which is overwritten.
- **`missed_window`**: the enumeration asks for the window below the last one
  it met. If that one is destroyed, it ends.
- **`flyout_race`**: `ResetState` and the notification record different
  monitors for the same Start menu; the second overwrites the first without
  refreshing its taskbar.
- **`boot`**: the initial value of `m_LastExplorerRestart` is the boot of the
  machine, so the first restart soon after boot counts as the second.
- **`welcome`**: the shutdown that follows a welcome page closed without an
  approval deletes `settings.json`; `WM_CLOSE` or the end of the session before
  the program has left its loop saves it again.

Fairness: a thread that can go on does, and nothing else is assumed; not of the
user, the desktop, Explorer or time.

- `TaskbarWorker`: a wait that can end does (`WF_vars(Resume)`), a message that
  can be handled is (`WF_vars(Handle)`). Both are one thread, which resumes or
  handles as long as there is either. `Settles` says that everything queued is
  handled and every call returns; it needs the desktop to stop changing, which
  `MaxChanges` imposes.
- `AppearanceService`: the program's waits and their limit, the installing
  thread, the pool and the XAML thread go on. That XAML Diagnostics accepts the
  library is not assumed: `Accepted \/ Refused` is fair, neither alone.
- `TaskViewMonitor`: the two threads of Explorer go on, whatever COM answers the
  one of them.
- `ConfigStore`: a save and the timer come to their end. The callbacks of the
  watch and of the timer are APCs, which the main thread's alertable wait
  delivers between other operations, so their fairness is strong.
- `Application`: the main thread, the coroutine and each XAML thread go on. Not
  assumed is that the program leaves its loop, or that the user closes a window.

## The proofs

TLAPS checks these theorems for every value of the constants that meets the
named assumptions of the modules; TLC evaluates the assumptions in every run.

| Theorem | Module | Says |
|---|---|---|
| `TypeCorrect` | `TaskbarWorkerProofs` | `Spec => []TypeOK` |
| `ResetsDoNotNest` | `TaskbarWorkerSafety` | `Spec => []OneReset` |
| `WindowsAreTrackedOnce` | `TaskbarWorkerSafety` | `Spec => []TrackedOnce` |
| `RestartTolerated` | `TaskbarWorkerSafety` | `~JustBooted => (Spec => []OneRestartIsTolerated)` |
| `EffectsAreCurrent` | `TaskbarWorkerSafety` | `Spec => EffectsOnCurrentTaskbars` |
| `TrackedWindowsExist` | `TaskbarWorkerSafety` | `Spec => []TrackedWindowsAreThere` |
| `ShellFollowed` | `TaskbarWorkerSafety` | `Spec => []ShellIsFollowed` |
| `AppearanceIsRight` | `TaskbarWorkerAppearance` | `NoFlyouts /\ (OneTaskbar \/ WithoutVisibleRules) /\ NormalIsSent => (Spec => []AppearanceFollowsState)` |
| `StoreTypeCorrect` | `ConfigStoreProofs` | `StoreSpec => []StoreTypeOK` |
| `ChangesAreNoticed` | `ConfigStoreProofs` | `StoreSpec => []ChangeIsNoticed` |
| `StoreImplementsFile` | `ConfigStoreProofs` | `StoreSpec => FileChangesAtOnce`: the refinement |
| `TrayTypeCorrect` | `TrayProofs` | `TraySpec => []TrayTypeOK` |
| `IconIsRight` | `TrayProofs` | `TraySpec => []IconFollowsConfig` |
| `MenuTypeCorrect` | `TrayProofs` | `MenuSpec => []MenuTypeOK` |
| `ClicksChangeOneThing` | `TrayProofs` | `MenuSpec => ClickChangesOneThing` |
| `TapTypeCorrect` | `ExplorerProofs` | `TapSpec => []TapTypeOK` |
| `BrushesAreSaved` | `ExplorerProofs` | `TapSpec => []BrushesCanBeTakenBack` |
| `DeathIsAwaited` | `ExplorerProofs` | `TapSpec => []WatchIsArmed` |
| `WaitIsLongEnough` | `ExplorerProofs` | `TapSpec => []WaitOutlastsTries` |
| `QuitThreadIsLetGo` | `ExplorerProofs` | `MonitorSpec => []QuitThreadIsCleanWhenTerminated` |
| `TaskViewIsFollowed` | `ExplorerProofs` | `MonitorSpec => []WorkerFollowsTaskView` |
| `AccentIsRight` | `ExplorerProofs` | `DetourSpec => []AccentSettles` |
| `ExitLeavesStock` | `ExplorerProofs` | `DetourSpec => []StockAfterExit` |
| `PaintedIsSeen` | `ExplorerProofs` | `DetourSpec => SwallowedMeansPainted` |
| `WindowsSettle` | `PagesProofs` | `HostSpec => []SettledWindowIsRight` |
| `WindowsStayInReach` | `PagesProofs` | `HostSpec => WindowsAreInReach` |
| `PickerIsTyped` | `PagesProofs` | `PickerSpec => []PickerTypeOK` |
| `HsvStaysAsEdited` | `PagesProofs` | `PickerSpec => HsvIsKept` |
| `AskedIsApplied` | `PagesProofs` | `PickerSpec => WhatIsAskedIsApplied` |
| `AppIsTyped` | `ApplicationProofs` | `AppSpec => []AppTypeOK` |
| `OneWindow` | `ApplicationProofs` | `AppSpec => []OneWindowPerThread` |
| `OnePicker` | `ApplicationProofs` | `AppSpec => []OnePickerPerState` |
| `PreviewIsEnded` | `ApplicationProofs` | `AppSpec => []PreviewEnds` |
| `ChangesAreAskedAbout` | `ApplicationProofs` | `AppSpec => []NoChangeIsDropped` |

**The worker.** `TypeOK` is inductive as it stands. Its proof has a lemma for
each group of actions; those on the stack rest on lemmas of what pushing and
popping a frame do, and those on the queues on what appending and taking a
message do. `OneReset` and `TrackedOnce` are inductive together with `TypeOK`.
What has to be shown of the first is that every other action keeps the frames of
`ResetState` as they are: actions only replace the innermost frame or push
frames that are none of its own (`SameKeeps`, `ReplaceKeeps`), a reset begins
only when the flag is clear (`BeginKeeps`), and ends with its frame
(`EndKeeps`). For the second, `TrackedSteps` says what any step may do to the
sets: leave them, clear them, take a window out of all of them, or move it into
one of the one monitor it is on now. `OneRestartIsTolerated` is not inductive:
it says nothing of what was recorded before the program exits. `RestartInv` adds
that the process the worker knows is not newer than Explorer's, and that a
restart on record implies the worker has known a second process; without
`~JustBooted` the second part is false initially, which is the run `boot`.

The next three are about the queues: a change in the world is known to the
worker, or something that will tell it is queued.

- `EffectsOnCurrentTaskbars` follows from `BarsInv`: from when a reset looks for
  the taskbars until it applies its effects, what it has found is what there is,
  or it will start over: because it was re-entered, because `WM_DISPLAYCHANGE`
  or `TaskbarCreated` is queued, or because the loss of a taskbar it has found
  is (`BarsAreFound`). The step that takes such a message re-enters the reset.
  Nothing of this holds of the main taskbar it found first until it is inserted,
  for its loss goes unnoticed then: what does hold is that it is the present one,
  or there is none, or the reset will start over (`MainIsCurrent`); and what was
  inserted on no monitor keeps that (`MainIsLost`).
- `TrackedWindowsAreThere` follows from `PlacesInv`: a tracked window is where
  and as large as the worker thinks, or `InsertWindow` is in progress for it, or
  an event is queued that will look at it again or forget it.
- `ShellIsFollowed` follows from `FollowInv`: for each thing the worker records
  of the shell, the last message about it in the queue tells what is the case,
  and without one what is recorded is the case, once the worker has an answer
  about it (`Answered`). The reset asks one thing after the other: `UpTo` says
  which question its frame is at, `Unanswered` which frames still have to ask or
  to record. Until a flyout is located it is nowhere (`EarlyInv`), and an answer on
  its way to be recorded is right unless a message is queued (`OpenedInv`).

The lemmas about `On` (an element is in a sequence), `LastIsIn` (the last element
of a kind) and `Still` (what a step may do to a queue) say what appending and
taking do to these once and for all.

`AppearanceIsRight` is what these are for: once everything is handled, each
taskbar shows what `GetConfig` answers for it. It rests on the invariants above
and three more.

- `Covered` is about the call stack: below an `InsertWindow` that was not asked to
  refresh there is a reset that has not applied its effects yet. A window that
  is inserted without a refresh is therefore refreshed later, however many
  waits, resets and nested messages come between.
- `ScreenInv` is about the taskbars during a reset: none is known until they are
  inserted, none is painted after a reset has found no main taskbar (`Mainless`)
  or no service (`Unserved`), those of Explorer in `m_NormalTaskbars` show its own
  look until the service is there, and two taskbars are not the same window.
- `FreshInv` is about every taskbar the worker knows, that exists and whose
  service can be reached (`Live`): it shows
  the colour that `Demand` gives for some window of the trail, or a look that
  `AppearanceFollowsState` leaves out, or a refresh is `Due`. The trail is the
  recorded foreground window and those that a queued event will announce, and
  `Demand(m, a)` is what `GetConfig` would answer were `a` in the foreground and
  every window on the monitor it is tracked on. Due is a reset in progress, a
  refresh that still has the taskbar to do, a tracked window about to be looked
  at again, or the reorder event of a maximised one.

When nothing is queued or in progress the trail is the foreground window and
nothing is due (`FreshWhenQuiet`). A step that changes what is demanded of a
taskbar makes a refresh due or extends the trail, and a refresh is over only
with the colour shown. The three hypotheses are all needed:

- `NoFlyouts`: the run `flyout_race` violates the property.
- `OneTaskbar \/ WithoutVisibleRules`: `GetConfig` applies the rule for visible
  windows to the foreground window on whichever monitor it is, `InsertWindow`
  refreshes the taskbar it is tracked on. With two taskbars, a window that moves
  to the other one, which is then refreshed for another reason, and back before
  its first move is handled, leaves the other taskbar with its rule. TLC finds
  this, and the same with a reload that stops ignoring the foreground window.
- `NormalIsSent`: a reset puts every classic taskbar in `m_NormalTaskbars`,
  although it may still show a colour applied before. Asked to look normal, it
  is believed to be, and nothing is sent. TLC finds this on a classic taskbar.

The run `windows` meets all three. So does any XAML taskbar without flyouts and with
one monitor, whatever its configurations and however often they are loaded again,
with resets, restarts of Explorer, previews, Task View and peek. With any number
of monitors the theorem asks that no configuration has a rule for visible windows.

**The store.** `StoreTypeOK` carries with it that a complete temporary file
stays so until it takes the place of the other. `ChangeIsNoticed` is inductive:
whatever changes `settings.json` leaves news of it (`TouchTells`), and news
only goes when the file is loaded or a timer is set for it. The refinement
needs both facts: `Replaces` and `Moves` are `Saved` because what they put
there is the configuration, or `CutShort` because it is not; the other steps of
a save, the watch and the timer are stutters, and a crash is `Stopped`. The
abstract specification has no liveness, so fairness plays no part.

**The icon.** `IconFollowsConfig` says nothing while a message waits or the
window is yet to be told. What holds all the time is `TrayInv`: an icon is
one the window wants and believes shown, in a running Explorer, so that it can
be hidden; what the window wants is what it was last told; and they agree as
soon as no message is left, told or not.

**The menu.** `MenuTypeOK` says that no item of a classic menu has identifier
zero and no two have the same. The counter is a recursive function of the items:
`IdsExist` shows that there is one, by the first place for which there would not
be, and `IdsAre` that its values are identifiers. `IdsGoRound` is the argument:
from one item on, the identifiers have advanced by no more than there are items,
and come round only after all identifiers but zero, of which `MenuAssumption`
has more. The rest is that the submenu of the desktop, and with it the
configuration, is never disabled.

A click is sent for the items the menu was built with. `ClickChangesOneThing`
rests on `MenuInv`: the items of an open menu say what the configuration does,
unless it was loaded again behind the menu. The rest is about the tables: which
item an entry stands for, and which one field its handler writes.

**The service.** For `BrushesCanBeTakenBack` to be inductive, `TapInv` adds that
the library is installed once in an Explorer and pinned from then on, so that
there is one watcher; that before it is advised nothing is registered; and that
only rectangles that exist are registered, with a saved brush that is
Explorer's or none yet. `FillWithInv` shows it for any change of brushes, by
whomever, and the callbacks it raises. `WatchIsArmed` is inductive by itself.
`WaitOutlastsTries` compares two clocks. `TriesTakeTheWait` says that whoever
waits has waited no longer since the installing thread began (`since`) than its
tries have taken, so the wait cannot run out first.

**The Task View monitor.** `QuitInv` relates the GUI thread to the thread of the
monitor: the thread that was asked to quit is the one waited for, and the one
that says it is clean has no sink left. `FollowInv` is about messages again: of
the load whose sink is registered, the last message in the inbox tells what is
the case, and with an empty inbox so does what the worker believes; before its
sink a load has said nothing, so an older load cannot have the last word.

**The detour.** Explorer's calls nest, and a request may be answered within
another. `DetourInv` says that at most one request is live, made for a call on
the stack that is for that taskbar; that each taskbar has its accent, or is still
in the list of a walk in progress, or is asked about; that a taskbar taken for
normal is, or will be; and that an undisturbed exit is alone on the stack, with
every taskbar returned to stock or still on its way. `SwallowedMeansPainted` needs of it
that what the worker has just painted stays so until it has answered.

**The application.** `AppInv` says who holds what: the lock of a thread is held
by exactly one task, which will release it; there is one shutdown, on the thread
that runs or awaits it; the lock of the pickers is held by the one creation in
progress; an open window's host is known to the program and forgotten once; a
preview that has begun or is queued is followed by its end, in a queue or from a
window still open; and where the shutdown has been, a window that is open or on
its way was asked for since, unless one would not close. Each property is one
of these parts read at the moment the property speaks of. The types of
`AppTypeOK` are a part of it too: that the loops over the pool's threads stay
within them (`ShutdownInThreads`) rests on threads being only added while the
program runs, and on who holds which lock.

**Page hosts.** The geometry first: `AdjustFits`, `CenteredIs` and
`ExtendedMeets` are about any integers, so they cover monitors left of or above
the primary one, and sizes of which TLC has two. `HostInv` adds to the type that
a window that is shown is subscribed to the layout of its page, without which a
layout pass would be lost; that the drag region is as wide as it was when the
buttons were where they are recorded to be, or has none recorded (`MadeRegion`);
and that a window whose page was measured on a known monitor, with no layout
pending, has the size and the drag region of the page (`Follows`).

**The picker.** The member functions call each other through the events of the
controls. `Sound` is what every one of them keeps, one lemma each: handlers are
connected exactly when the template is applied; the saved HSV and the colour it
stands for are there together; the box shows the colour, with or without its
alpha; and a colour is asked for only then. `HsvStays` and `AskedStays` are what
none of them may do, so that their compositions do not either.

Only model-checked is liveness under fairness (`Settles`,
`WatchedDeathIsUndone`, `InjectionEnds`, `UninstallReturns`, `FileIsFollowed`,
`MainThreadReturns`), which is out of the prover's reach. What the theorem
`AppearanceIsRight` leaves out of `AppearanceFollowsState` by its hypotheses is not
true, as said above.

## What is not modelled

- Of the worker: corrections of alpha and of blur radii, `DumpState`, failures
  of system calls that are only logged, and the search for an auto-hidden
  taskbar in `GetTaskbarMonitor`: its result is not used, because
  `EnumDisplayMonitors` returns false when its callback stops it.
- Of windows: names, styles, owners, and why a window is or is not a user
  window. Of rules: how a class, file or title matches; a rule belongs to a
  window here.
- Of ExplorerTAP: which address belongs to which taskbar, colours, and the
  offsets of the acrylic brushes. Of the detour: how it is written into the
  import table of Explorer.
- Of the tray: which icon fits the theme, notifications, and the menu items that
  only open something. `Shell_NotifyIcon` answers truthfully. While
  `TrackPopupMenu` runs, no APC is delivered.
- Of the application: a second instance, `main.cpp` and the start of the
  process. A confirmation dialog opens at once. `settings.json` can be opened
  when it is there. The picker's timer of 30 milliseconds is stopped in the
  destructor of the control (`ColorPicker.cpp:63`), which runs when XAML lets go
  of the page; when that is, after the host has let go of it (`Cleanup`), the
  sources do not say, and a tick in between is not modelled.
- Of the pages: the frame, the background, keyboard and mouse messages passed
  on; `UniformGrid` and the other layout controls, bitmaps of sliders and
  checkers, the conversions of colours with fractions.
- `ProgramLog`, `Localization`, window classes and message windows, dynamic
  loading and dependencies, parsing and formatting of configurations and
  colours, packaging, vendored code and unit tests: data, presentation, or
  calls of the operating system without state of their own.

`PROJECT.json` has the status of each component.

## Plan

Done: the worker with the desktop and the dynamic modes, its teardown and
requests, the two libraries in Explorer, the configuration with its abstract
specification, the application with its threads, the icon, the menu, the pages
and the picker.

Worth doing next, in this order:

1. From the proof of `AppearanceFollowsState`, an abstract specification of the
   worker and its refinement.
2. The second instance of the program and what the first does with its request.
3. The composition of `Application` with `ConfigStore`, which share the file and
   the main thread; today each has the other as its environment.
