--------------------------- MODULE AppearanceService ---------------------------
(***************************************************************************)
(* ExplorerTAP: a library the program injects in Explorer, where it finds  *)
(* the XAML elements that draw the taskbars and offers a service that      *)
(* changes their brushes.                                                  *)
(*                                                                         *)
(* Runs of the program (Instances) come one after the other: each injects  *)
(* the library (InjectExplorerTAP), asks the service to be watched, and    *)
(* changes brushes until it exits or is killed.  In Explorer, the thread   *)
(* started by DllMain retries until XAML Diagnostics accepts the library;  *)
(* the watcher and the service then live on the XAML thread, and the death *)
(* of a watched process is noticed on a thread of the pool.                *)
(***************************************************************************)
EXTENDS Naturals, FiniteSets

CONSTANTS
  Instances,     \* runs of the program
  Version,       \* TAP_API_VERSION each of them was built with
  Frames,        \* the frames of the taskbars
  MaxAttempts,   \* tries of InitializeXamlDiagnosticsEx, half a second apart
  ReadyTimeout,  \* READY_TIMEOUT, in half seconds
  NoInstance,
  MaxExplorers   \* bound: Explorer processes

ASSUME AppearanceAssumption ==
  /\ NoInstance \notin Instances
  /\ DOMAIN Version = Instances
  /\ {"absent", "unset", "explorer"} \cap Instances = {}
  /\ MaxAttempts \in Nat \ {0}
  /\ ReadyTimeout \in Nat /\ ReadyTimeout > MaxAttempts
  /\ MaxExplorers \in Nat

Parts == {"background", "border"}
Absent == "absent"       \* there is no such rectangle yet
Unset == "unset"         \* its Fill is still null
Explorers == "explorer"  \* the brush Explorer gave the element
Fills == {Absent, Unset, Explorers} \cup Instances

VARIABLES
  \* the program
  at,        \* what each instance is doing
  waited,    \* how long the one that injects has waited
  \* the library in Explorer
  explorers, \* Explorer processes started so far
  library,   \* whether the DLL is mapped, and pinned, and who injected it
  hooked,    \* instances whose hook keeps it mapped
  installer, \* TAPSite::Install: its place and the number of tries; since is
             \* history: how long an instance had waited when it began
  ready,     \* whether the ready event is set
  watcher,   \* the VisualTreeWatcher: none, created, or advised of changes
  \* the taskbars
  tree,      \* what exists of each frame in the visual tree
  fill,      \* the Fill of its two rectangles
  unmatched, \* m_NonMatchingXamlSources
  known,     \* m_Taskbars: the frames registered
  control,   \* their rectangles that are registered
  original,  \* originalFill of those
  \* the watch on the program
  process,   \* m_Process
  wait,      \* m_WaitHandle: the process whose death is waited for
  pool,      \* the process whose death OnProcessDied is handling
  restores,  \* continuations of OnProcessDied in the XAML thread's queue
  catalog    \* whether m_PackageCatalog is set

programVars == <<at, waited>>
libraryVars == <<explorers, library, hooked, installer, ready, watcher>>
treeVars == <<tree, fill>>
taskbarVars == <<unmatched, known, control, original>>
watchVars == <<process, wait, pool, restores, catalog>>
tapVars == <<programVars, libraryVars, treeVars, taskbarVars, watchVars>>

NoInstaller == [place |-> "none", attempts |-> 0, since |-> 0]
NotMapped == [state |-> "out", from |-> NoInstance]

(* What DllMain, TAPSite, VisualTreeWatcher and the service keep in an     *)
(* Explorer process, and its taskbars.                                     *)
NewExplorer ==
  /\ library' = NotMapped /\ hooked' = {} /\ installer' = NoInstaller
  /\ watcher' = "none"
  /\ tree' = [f \in Frames |-> "none"]
  /\ fill' = [f \in Frames |-> [p \in Parts |-> Absent]]
  /\ unmatched' = {} /\ known' = {} /\ control' = [f \in Frames |-> {}]
  /\ original' = [f \in Frames |-> [p \in Parts |-> Unset]]
  /\ process' = NoInstance /\ wait' = NoInstance /\ pool' = NoInstance
  /\ restores' = 0 /\ catalog' = FALSE

TapInit ==
  /\ at = [i \in Instances |-> "notRun"] /\ waited = 0
  /\ explorers = 1
  /\ library = NotMapped /\ hooked = {} /\ installer = NoInstaller
  /\ ready = FALSE
  /\ watcher = "none"
  /\ tree = [f \in Frames |-> "none"]
  /\ fill = [f \in Frames |-> [p \in Parts |-> Absent]]
  /\ unmatched = {} /\ known = {} /\ control = [f \in Frames |-> {}]
  /\ original = [f \in Frames |-> [p \in Parts |-> Unset]]
  /\ process = NoInstance /\ wait = NoInstance /\ pool = NoInstance
  /\ restores = 0 /\ catalog = FALSE

TapTypeOK ==
  /\ at \in [Instances -> {"notRun", "waiting", "activating", "watching", "packaging", "running", "lost", "dead"}]
  /\ waited \in 0..ReadyTimeout
  /\ explorers \in Nat
  /\ library \in [state : {"out", "in", "pinned"}, from : Instances \cup {NoInstance}]
  /\ hooked \subseteq Instances
  /\ installer \in [place : {"none", "trying", "sleeping", "ending"}, attempts : 0..MaxAttempts + 1, since : 0..ReadyTimeout]
  /\ ready \in BOOLEAN
  /\ watcher \in {"none", "created", "advised"}
  /\ tree \in [Frames -> {"none", "source", "frame"}]
  /\ fill \in [Frames -> [Parts -> Fills]]
  /\ unmatched \subseteq Frames /\ known \subseteq Frames
  /\ control \in [Frames -> SUBSET Parts]
  /\ original \in [Frames -> [Parts -> Fills]]
  /\ process \in Instances \cup {NoInstance}
  /\ wait \in Instances \cup {NoInstance}
  /\ pool \in Instances \cup {NoInstance}
  /\ restores \in Nat /\ catalog \in BOOLEAN

-----------------------------------------------------------------------------
(* The ready event is a named object: it lives, and stays set, for as long *)
(* as an injector, the installing thread or the watcher holds it.          *)
EventHeld ==
  \/ \E i \in Instances : at'[i] = "waiting"
  \/ installer'.place # "none"
  \/ watcher' # "none"

KeepEvent == ready' = (ready /\ EventHeld)
SetReady == ready' = EventHeld

Alive(i) == at[i] \notin {"notRun", "dead"}

(* A run of the program starts once the last one is gone, and             *)
(* InjectExplorerTAP hooks the thread of the main taskbar.  A run that has *)
(* lost Explorer injects again (ResetState, after TaskbarCreated).         *)
Inject(i) ==
  /\ \/ at[i] = "notRun" /\ \A j \in Instances : ~Alive(j)
     \/ at[i] = "lost"
  /\ at' = [at EXCEPT ![i] = "waiting"]
  /\ waited' = 0
  /\ hooked' = hooked \cup {i}
  /\ UNCHANGED <<explorers, library, installer, ready, watcher, treeVars, taskbarVars, watchVars>>

(* The wait for the ready event is over; hook and event are let go. *)
Ready(i) ==
  /\ at[i] = "waiting" /\ ready
  /\ at' = [at EXCEPT ![i] = "activating"]
  /\ hooked' = hooked \ {i}
  /\ UNCHANGED <<waited, explorers, library, installer, watcher, treeVars, taskbarVars, watchVars>>
  /\ KeepEvent

(* Nobody answers within READY_TIMEOUT: a failed injection is critical and *)
(* ends the program.  Slip: the wait has no limit, as in debug builds.     *)
WaitForEver(i) == FALSE

GiveUp(i) ==
  /\ at[i] = "waiting" /\ ~ready /\ waited = ReadyTimeout
  /\ at' = [at EXCEPT ![i] = "dead"]
  /\ hooked' = hooked \ {i}
  /\ UNCHANGED <<waited, explorers, library, installer, watcher, treeVars, taskbarVars, watchVars>>
  /\ KeepEvent

(* GetActiveObject finds the service, of the library that was injected     *)
(* first; one of another version, or none, ends the program.               *)
Activate(i) ==
  /\ at[i] = "activating"
  /\ at' = [at EXCEPT ![i] =
       IF watcher # "none" /\ Version[library.from] = Version[i] THEN "watching" ELSE "dead"]
  /\ UNCHANGED <<waited, libraryVars, treeVars, taskbarVars, watchVars>>

(* The program ends: ReturnToStock and the end of the process, or a crash. *)
(* The system lets go of its hook.                                         *)
Crash(i) ==
  /\ Alive(i)
  /\ at' = [at EXCEPT ![i] = "dead"]
  /\ hooked' = hooked \ {i}
  /\ UNCHANGED <<waited, explorers, library, installer, watcher, treeVars, taskbarVars, watchVars>>
  /\ KeepEvent

-----------------------------------------------------------------------------
(* DllMain in Explorer, once the hook maps the library. *)
Attach ==
  /\ library = NotMapped
  /\ \E i \in hooked : library' = [state |-> "in", from |-> i]
  /\ installer' = [place |-> "trying", attempts |-> 1, since |-> waited]
  /\ UNCHANGED <<programVars, explorers, hooked, ready, watcher, treeVars, taskbarVars, watchVars>>

(* InitializeXamlDiagnosticsEx accepts the library: it is pinned, and      *)
(* SetSite creates the watcher and the service.                            *)
Accepted ==
  /\ installer.place = "trying"
  /\ installer' = [installer EXCEPT !.place = "ending"]
  /\ library' = [library EXCEPT !.state = "pinned"]
  /\ watcher' = "created"
  /\ UNCHANGED <<programVars, explorers, hooked, ready, treeVars, taskbarVars, watchVars>>

(* It refuses.  Install sleeps half a second after every try, the last one *)
(* included.                                                               *)
Refused ==
  /\ installer.place = "trying"
  /\ installer' = [place |-> "sleeping", attempts |-> installer.attempts + 1, since |-> installer.since]
  /\ UNCHANGED <<programVars, explorers, library, hooked, ready, watcher, treeVars, taskbarVars, watchVars>>

(* Half a second passes.  A try takes no time of its own.  After the last  *)
(* Install gives up, and says so by the event.  Slip: no limit to the      *)
(* tries.                                                                  *)
HalfSecondUnlimited ==
  /\ installer.place = "sleeping" \/ \E i \in Instances : at[i] = "waiting"
  /\ installer.place # "trying"
  /\ \A i \in Instances : at[i] = "waiting" => ~ready /\ waited < ReadyTimeout
  /\ waited' = IF \E i \in Instances : at[i] = "waiting" THEN waited + 1 ELSE waited
  /\ installer' = IF installer.place # "sleeping" THEN installer
                  ELSE [installer EXCEPT !.place = "trying"]
  /\ UNCHANGED <<at, explorers, library, hooked, ready, watcher, treeVars, taskbarVars, watchVars>>

HalfSecond ==
  /\ installer.place = "sleeping" \/ \E i \in Instances : at[i] = "waiting"
  /\ installer.place # "trying"
  /\ \A i \in Instances : at[i] = "waiting" => ~ready /\ waited < ReadyTimeout
  /\ waited' = IF \E i \in Instances : at[i] = "waiting" THEN waited + 1 ELSE waited
  /\ LET givesUp == installer.place = "sleeping" /\ installer.attempts > MaxAttempts
     IN  /\ installer' = IF installer.place # "sleeping" THEN installer
                         ELSE [installer EXCEPT !.place = IF givesUp THEN "ending" ELSE "trying"]
         /\ UNCHANGED <<at, explorers, library, hooked, watcher, treeVars, taskbarVars, watchVars>>
         /\ IF givesUp THEN SetReady ELSE UNCHANGED ready

(* The installing thread returns, and lets go of the event. *)
InstallReturns ==
  /\ installer.place = "ending"
  /\ installer' = NoInstaller
  /\ UNCHANGED <<programVars, explorers, library, hooked, watcher, treeVars, taskbarVars, watchVars>>
  /\ KeepEvent

(* With no hook left the library is unmapped, unless it is pinned.  If the *)
(* installing thread is still in it, Explorer falls.                       *)
Unmap ==
  /\ library.state = "in" /\ hooked = {} /\ installer.place = "none"
  /\ library' = NotMapped
  /\ UNCHANGED <<programVars, explorers, hooked, installer, ready, watcher, treeVars, taskbarVars, watchVars>>

(* Another Explorer takes the place of this one. *)
ExplorerRestarts ==
  /\ explorers < MaxExplorers
  /\ explorers' = explorers + 1
  /\ NewExplorer
  /\ at' = [i \in Instances |-> IF at[i] \in {"watching", "packaging", "running"} THEN "lost" ELSE at[i]]
  /\ UNCHANGED waited
  /\ KeepEvent

UnmapUnderInstaller ==
  /\ library.state = "in" /\ hooked = {} /\ installer.place # "none"
  /\ ExplorerRestarts

(* OnPackageUninstalling, OnPackageUpdating: Explorer is made to restart. *)
PackageGoes ==
  /\ catalog
  /\ ExplorerRestarts

-----------------------------------------------------------------------------
(* The Fill of a rectangle changes, whoever changes it.  The callback on a *)
(* registered one keeps the first brush that is not null                   *)
(* (OnTaskbarBackgroundUpdated, OnTaskbarBorderUpdated).                   *)
FillWith(changes) ==
  /\ fill' = [f \in Frames |-> [p \in Parts |->
                IF <<f, p>> \in DOMAIN changes THEN changes[<<f, p>>] ELSE fill[f][p]]]
  /\ original' = [f \in Frames |-> [p \in Parts |->
                IF p \in control[f] /\ original[f][p] = Unset THEN fill'[f][p] ELSE original[f][p]]]

(* RestoreDefaultControlFill on the registered rectangles of elements. *)
Elements == Frames \X Parts

(* Slip: that their own brush is not known does not matter. *)
RegisteredElements(elements) == {e \in elements : e[1] \in known /\ e[2] \in control[e[1]]}
Restorable(elements) == {e \in RegisteredElements(elements) : original[e[1]][e[2]] # Unset}

RestoreDefaultControlFill(elements) ==
  FillWith([e \in Restorable(elements) |-> original[e[1]][e[2]]])

(* SetTaskbarAppearance, SetTaskbarBlur, and SetTaskbarBorderVisibility    *)
(* when it hides: a brush of the program on a rectangle of a taskbar, once *)
(* Explorer's own is known.                                                *)
SetBrush(i, f, p) ==
  /\ at[i] = "running"
  /\ <<f, p>> \in Restorable(Elements)
  /\ FillWith([e \in {<<f, p>>} |-> i])
  /\ UNCHANGED <<programVars, libraryVars, tree, unmatched, known, control, watchVars>>

(* ReturnTaskbarToDefaultAppearance, and SetTaskbarBorderVisibility when   *)
(* it shows.                                                               *)
ReturnToDefault(i, f, p) ==
  /\ at[i] = "running" /\ f \in known
  /\ RestoreDefaultControlFill({<<f, p>>})
  /\ UNCHANGED <<programVars, libraryVars, tree, unmatched, known, control, watchVars>>

(* RestoreAllTaskbarsToDefault, called by the program before it exits. *)
RestoreAllTaskbarsToDefault(i) ==
  /\ at[i] = "running"
  /\ RestoreDefaultControlFill(Elements)
  /\ UNCHANGED <<programVars, libraryVars, tree, unmatched, known, control, watchVars>>

-----------------------------------------------------------------------------
(* RestoreAllTaskbarsToDefaultWhenProcessDies.  While another process is   *)
(* watched the call fails, which is only logged.                           *)
Watch(i) ==
  /\ at[i] = "watching"
  /\ at' = [at EXCEPT ![i] = "packaging"]
  /\ IF process = NoInstance THEN process' = i /\ wait' = i ELSE UNCHANGED <<process, wait>>
  /\ UNCHANGED <<waited, libraryVars, treeVars, taskbarVars, pool, restores, catalog>>

(* KillExplorerWhenPackageUninstalls, if the program runs from a package. *)
WatchPackage(i) ==
  /\ at[i] = "packaging"
  /\ at' = [at EXCEPT ![i] = "running"]
  /\ catalog' \in {catalog, TRUE}
  /\ UNCHANGED <<waited, libraryVars, treeVars, taskbarVars, process, wait, pool, restores>>

(* OnProcessDied, on a thread of the pool: the wait handle is let go of,   *)
(* then the process, and the rest is left to the XAML thread.              *)
OnProcessDied ==
  /\ wait # NoInstance /\ pool = NoInstance /\ at[wait] = "dead"
  /\ pool' = wait /\ wait' = NoInstance
  /\ UNCHANGED <<programVars, libraryVars, treeVars, taskbarVars, process, restores, catalog>>

(* Slip: the process is not let go of. *)
KeepProcess ==
  /\ pool # NoInstance
  /\ restores' = restores + 1
  /\ pool' = NoInstance
  /\ UNCHANGED <<programVars, libraryVars, treeVars, taskbarVars, process, wait, catalog>>

ForgetProcess ==
  /\ pool # NoInstance
  /\ process' = NoInstance
  /\ restores' = restores + 1
  /\ pool' = NoInstance
  /\ UNCHANGED <<programVars, libraryVars, treeVars, taskbarVars, wait, catalog>>

(* Its continuation.  Slip: only the backgrounds are restored. *)
RestoreBackgrounds ==
  /\ restores > 0
  /\ restores' = restores - 1
  /\ RestoreDefaultControlFill(Frames \X {"background"})
  /\ UNCHANGED <<programVars, libraryVars, tree, unmatched, known, control, process, wait, pool, catalog>>

RestoreAfterDeath ==
  /\ restores > 0
  /\ restores' = restores - 1
  /\ RestoreDefaultControlFill(Elements)
  /\ UNCHANGED <<programVars, libraryVars, tree, unmatched, known, control, process, wait, pool, catalog>>

-----------------------------------------------------------------------------
(* OnVisualTreeChange, which XAML calls for every change once the watcher  *)
(* is advised.  A new taskbar is a source, then a frame in it, then the    *)
(* two rectangles of the frame, whose Fill may not be set yet.             *)
AddSource(f) ==
  /\ tree[f] = "none"
  /\ tree' = [tree EXCEPT ![f] = "source"]
  /\ unmatched' = IF watcher = "advised" THEN unmatched \cup {f} ELSE unmatched
  /\ UNCHANGED <<programVars, libraryVars, fill, known, control, original, watchVars>>

AddFrame(f) ==
  /\ tree[f] = "source"
  /\ tree' = [tree EXCEPT ![f] = "frame"]
  /\ known' = known \cup (unmatched \cap {f})
  /\ unmatched' = unmatched \ {f}
  /\ control' = [control EXCEPT ![f] = {}]
  /\ UNCHANGED <<programVars, libraryVars, fill, original, watchVars>>

(* RegisterTaskbarBackground, RegisterTaskbarBorder *)
Register(f, p, brush) ==
  IF f \in known
  THEN /\ control' = [control EXCEPT ![f] = @ \cup {p}]
       /\ original' = [original EXCEPT ![f][p] = brush]
  ELSE UNCHANGED <<control, original>>

(* A rectangle under the frame, also when Explorer replaces one by another. *)
AddRectangle(f, p, brush) ==
  /\ tree[f] = "frame"
  /\ fill' = [fill EXCEPT ![f][p] = brush]
  /\ Register(f, p, brush)
  /\ UNCHANGED <<programVars, libraryVars, tree, unmatched, known, watchVars>>

UnregisterTaskbar(f) ==
  /\ known' = known \ {f}
  /\ control' = [control EXCEPT ![f] = {}]
  /\ original' = [original EXCEPT ![f] = [p \in Parts |-> Unset]]

(* The frame is unregistered, or the source forgotten. *)
Remove(f) ==
  /\ tree[f] # "none"
  /\ tree' = [tree EXCEPT ![f] = "none"]
  /\ fill' = [fill EXCEPT ![f] = [p \in Parts |-> Absent]]
  /\ unmatched' = unmatched \ {f}
  /\ UnregisterTaskbar(f)
  /\ UNCHANGED <<programVars, libraryVars, watchVars>>

(* AdviseVisualTreeChange, on a thread of its own, tells of all there is,  *)
(* and the ready event is set.                                             *)
Advise ==
  /\ watcher = "created"
  /\ watcher' = "advised"
  /\ unmatched' = {f \in Frames : tree[f] = "source"}
  /\ known' = {f \in Frames : tree[f] = "frame"}
  /\ control' = [f \in Frames |-> {p \in Parts : fill[f][p] # Absent}]
  /\ original' = [f \in Frames |-> [p \in Parts |-> IF fill[f][p] = Absent THEN Unset ELSE fill[f][p]]]
  /\ UNCHANGED <<programVars, explorers, library, hooked, installer, treeVars, watchVars>>
  /\ SetReady

(* Explorer gives a rectangle its own brush (again). *)
ExplorerPaints(f, p) ==
  /\ fill[f][p] \notin {Absent, Explorers}
  /\ FillWith([e \in {<<f, p>>} |-> Explorers])
  /\ UNCHANGED <<programVars, libraryVars, tree, unmatched, known, control, watchVars>>

-----------------------------------------------------------------------------
InstanceStep(i) == Inject(i) \/ Ready(i) \/ GiveUp(i) \/ Activate(i) \/ Watch(i) \/ WatchPackage(i) \/ Crash(i)
BrushStep(i) ==
  \/ \E f \in Frames, p \in Parts : SetBrush(i, f, p) \/ ReturnToDefault(i, f, p)
  \/ RestoreAllTaskbarsToDefault(i)
LibraryStep ==
  \/ Attach \/ Accepted \/ Refused \/ HalfSecond \/ InstallReturns \/ Unmap
  \/ Advise
ExplorerStep == UnmapUnderInstaller \/ ExplorerRestarts \/ PackageGoes
TreeStep ==
  \E f \in Frames :
    \/ AddSource(f) \/ AddFrame(f) \/ Remove(f)
    \/ \E p \in Parts : ExplorerPaints(f, p) \/ \E brush \in {Unset, Explorers} : AddRectangle(f, p, brush)
WatchStep == OnProcessDied \/ ForgetProcess \/ RestoreAfterDeath

TapNext ==
  \/ \E i \in Instances : InstanceStep(i) \/ BrushStep(i)
  \/ LibraryStep \/ ExplorerStep \/ TreeStep \/ WatchStep

(* The threads of the program and of Explorer run: neither the user, nor   *)
(* XAML accepting the library, nor Explorer's painting is relied upon.     *)
TapFairness ==
  /\ \A i \in Instances : WF_tapVars(Ready(i)) /\ WF_tapVars(GiveUp(i))
  /\ WF_tapVars(HalfSecond) /\ WF_tapVars(Accepted \/ Refused)
  /\ WF_tapVars(OnProcessDied) /\ WF_tapVars(ForgetProcess) /\ WF_tapVars(RestoreAfterDeath)

TapSpec == TapInit /\ [][TapNext]_tapVars /\ TapFairness

-----------------------------------------------------------------------------
(* A brush of the program is only ever on a registered rectangle whose own *)
(* brush was saved, and what was saved is Explorer's: whatever the order   *)
(* of registrations, of Fills that are set late and of runs of the program *)
(* (RegisterTaskbarBackground, OnTaskbarBackgroundUpdated), restoring      *)
(* always brings Explorer's brush back.                                    *)
BrushesCanBeTakenBack ==
  \A f \in Frames, p \in Parts :
    /\ original[f][p] \notin Instances
    /\ fill[f][p] \in Instances => f \in known /\ p \in control[f] /\ original[f][p] = Explorers

(* The process that the service watches is really waited for, or its death *)
(* is being handled: m_Process is read on the XAML thread while a thread   *)
(* of the pool resets it and m_WaitHandle (OnProcessDied).                 *)
WatchIsArmed == process # NoInstance => process \in {wait, pool}

(* The wait of InjectExplorerTAP does not run out while TAPSite::Install   *)
(* is still trying, if Explorer mapped the library with as much of the     *)
(* wait left as the tries take at most: when it does, the hook goes, the   *)
(* library is unmapped and the trying thread with it.                      *)
WaitOutlastsTries ==
  \A i \in Instances :
    at[i] = "waiting" /\ waited = ReadyTimeout /\ installer.since <= ReadyTimeout - MaxAttempts
    => installer.place \notin {"trying", "sleeping"}

(* When a watched run of the program dies, however it dies, none of its    *)
(* brushes stays on a taskbar                                              *)
(* (RestoreAllTaskbarsToDefaultWhenProcessDies).                           *)
WatchedDeathIsUndone ==
  \A i \in Instances :
    process = i /\ at[i] = "dead" ~> \A f \in Frames, p \in Parts : fill[f][p] # i

(* InjectExplorerTAP returns, whatever happens to Explorer or to the       *)
(* library in it.                                                          *)
InjectionEnds == \A i \in Instances : at[i] = "waiting" ~> at[i] # "waiting"
=============================================================================
