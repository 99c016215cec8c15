---------------------------- MODULE TaskViewMonitor ----------------------------
(***************************************************************************)
(* TaskViewVisibilityMonitor: a thread that the library ExplorerHooks runs *)
(* in Explorer, between DllMain's DLL_PROCESS_ATTACH and its               *)
(* DLL_PROCESS_DETACH.  Its sink posts to the worker when Task View is     *)
(* shown and dismissed, and its window answers the worker that asks.       *)
(*                                                                         *)
(* The library is mapped while the worker's hook exists.  It is unmapped   *)
(* on Explorer's GUI thread, which first stops the thread: if that has     *)
(* begun by WM_QUIT and a wait without limit, then by TerminateThread.     *)
(***************************************************************************)
EXTENDS Naturals, Sequences

CONSTANTS
  LoadAttempts,   \* tries of CoCreateInstance, and of QueryService
  MaxLoads,       \* bound: times the library is mapped
  MaxChanges      \* bound: times Task View is shown or dismissed

ASSUME MonitorAssumption ==
  LoadAttempts \in Nat \ {0} /\ MaxLoads \in Nat /\ MaxChanges \in Nat

VARIABLES
  \* Explorer
  loads,        \* times the library was mapped
  gui,          \* what the GUI thread does: "free", or where it is in Uninstall
  thread,       \* where the monitor's thread is
  tries,        \* attempts of the loop it is in
  quit,         \* whether WM_QUIT is in its queue
  cleanup,      \* s_ThreadCleanupEvent
  sink,         \* whether its sink is registered
  visible,      \* whether Task View is shown
  shows,        \* times it changed
  \* the program
  hooking,      \* whether the worker's hook exists
  inbox,        \* TTBHook_TaskViewVisibilityChange messages posted, and by which load
  believed,     \* m_TaskViewActive
  informed      \* whether what the worker last heard came from this load

guiVars == <<loads, gui, hooking>>
threadVars == <<thread, tries, quit, cleanup, sink>>
viewVars == <<visible, shows, inbox, believed, informed>>
monitorVars == <<guiVars, threadVars, viewVars>>

(* The places of the thread: none, or created by CreateThread (which waits *)
(* for the loader lock), begun (not yet s_ThreadRunning), running (no      *)
(* message queue yet), creating and querying (LoadViewService), serving    *)
(* (its window exists), cleaning (ThreadMain returns), clean (the event is *)
(* set and s_ThreadRunning is not), killed (TerminateThread).              *)
Places == {"none", "created", "begun", "running", "creating", "querying", "serving", "cleaning", "clean", "killed"}
ThreadRunning == thread \in {"running", "creating", "querying", "serving", "cleaning"}

MonitorInit ==
  /\ loads = 0 /\ gui = "free" /\ hooking = FALSE
  /\ thread = "none" /\ tries = 0 /\ quit = FALSE /\ cleanup = FALSE /\ sink = FALSE
  /\ visible \in BOOLEAN /\ shows = 0 /\ inbox = <<>> /\ believed = FALSE /\ informed = FALSE

MonitorTypeOK ==
  /\ loads \in 0..MaxLoads /\ gui \in {"free", "checking", "waiting", "terminating", "failed"} /\ hooking \in BOOLEAN
  /\ thread \in Places /\ tries \in 0..LoadAttempts
  /\ quit \in BOOLEAN /\ cleanup \in BOOLEAN /\ sink \in BOOLEAN
  /\ visible \in BOOLEAN /\ shows \in 0..MaxChanges
  /\ inbox \in Seq([load : 0..MaxLoads, shown : BOOLEAN]) /\ believed \in BOOLEAN /\ informed \in BOOLEAN

-----------------------------------------------------------------------------
(* A failed call ends Explorer (FAIL_FAST), and all that lives in it. *)
FailFast ==
  /\ gui' = "failed" /\ thread' = "none" /\ sink' = FALSE
  /\ UNCHANGED <<loads, hooking, tries, quit, cleanup, viewVars>>

(* InjectExplorerHook, and the end of the program, however it ends. *)
Hook ==
  /\ ~hooking /\ gui # "failed"
  /\ hooking' = TRUE
  /\ UNCHANGED <<loads, gui, threadVars, viewVars>>

Unhook ==
  /\ hooking /\ hooking' = FALSE
  /\ inbox' = <<>> /\ believed' = FALSE /\ informed' = FALSE
  /\ UNCHANGED <<loads, gui, threadVars, visible, shows>>

(* DllMain when the library is mapped: Install creates the event and the   *)
(* thread.                                                                 *)
Install ==
  /\ gui = "free" /\ thread = "none" /\ hooking /\ loads < MaxLoads
  /\ loads' = loads + 1
  /\ thread' = "created" /\ tries' = 0 /\ quit' = FALSE /\ cleanup' = FALSE
  /\ UNCHANGED <<gui, hooking, sink, viewVars>>

(* Uninstall, when the library is about to be unmapped. *)
Uninstall ==
  /\ gui = "free" /\ thread # "none" /\ ~hooking
  /\ gui' = "checking"
  /\ UNCHANGED <<loads, hooking, threadVars, viewVars>>

(* EndWatcherThread: a thread that runs is sent WM_QUIT, which fails while *)
(* it has no message queue.                                                *)
PostQuit ==
  /\ gui = "checking" /\ ThreadRunning
  /\ IF thread = "running" THEN FailFast
     ELSE /\ quit' = TRUE /\ gui' = "waiting"
          /\ UNCHANGED <<loads, hooking, thread, tries, cleanup, sink, viewVars>>

NotBegun ==
  /\ gui = "checking" /\ ~ThreadRunning
  /\ gui' = "terminating"
  /\ UNCHANGED <<loads, hooking, threadVars, viewVars>>

CleanedUp ==
  /\ gui = "waiting" /\ cleanup
  /\ gui' = "terminating"
  /\ UNCHANGED <<loads, hooking, threadVars, viewVars>>

(* TerminateThread, and the library is unmapped with all its statics.  If  *)
(* the thread began after it was seen not to have, its sink may be left    *)
(* behind: Explorer falls when it calls it.                                *)
Terminate ==
  /\ gui = "terminating"
  /\ gui' = (IF sink THEN "failed" ELSE "free") /\ thread' = "none" /\ sink' = FALSE
  /\ informed' = FALSE
  /\ UNCHANGED <<loads, hooking, tries, quit, cleanup, visible, shows, inbox, believed>>

-----------------------------------------------------------------------------
ThreadKeeps == UNCHANGED <<guiVars, viewVars>>

(* The new thread passes DLL_THREAD_ATTACH, for which the GUI thread must  *)
(* not be in DllMain.                                                      *)
Begin ==
  /\ thread = "created" /\ gui = "free"
  /\ thread' = "begun" /\ UNCHANGED <<tries, quit, cleanup, sink>> /\ ThreadKeeps

SetRunning ==
  /\ thread = "begun"
  /\ thread' = "running" /\ UNCHANGED <<tries, quit, cleanup, sink>> /\ ThreadKeeps

CoInitialize ==
  /\ thread = "running"
  /\ thread' = "creating" /\ UNCHANGED <<tries, quit, cleanup, sink>> /\ ThreadKeeps

(* LoadViewService: the immersive shell may not be ready, first to create  *)
(* its class, then to give the service.  Any other failure is fatal, and   *)
(* so is the last.  Slip: it is tried for ever.                            *)
LoadForEver ==
  /\ thread \in {"creating", "querying"}
  /\ \/ /\ thread' = IF thread = "creating" THEN "querying" ELSE "serving"
        /\ tries' = 0
        /\ sink' = (thread = "querying")
     \/ tries' = (tries + 1) % LoadAttempts /\ UNCHANGED <<thread, sink>>
  /\ UNCHANGED <<quit, cleanup>> /\ ThreadKeeps

LoadViewService ==
  /\ thread \in {"creating", "querying"}
  /\ \/ /\ thread' = IF thread = "creating" THEN "querying" ELSE "serving"
        /\ tries' = 0
        /\ sink' = (thread = "querying")   \* RegisterSink
        /\ UNCHANGED <<quit, cleanup>> /\ ThreadKeeps
     \/ /\ tries + 1 < LoadAttempts
        /\ tries' = tries + 1
        /\ UNCHANGED <<thread, sink, quit, cleanup>> /\ ThreadKeeps
     \/ FailFast

(* The message loop ends with WM_QUIT.  ThreadMain destroys its locals:    *)
(* the window, the token of the sink and the service, and the guard last.  *)
(* Slip: the guard is declared last, and destroyed first.                  *)
GetQuit ==
  /\ thread = "serving" /\ quit
  /\ thread' = "cleaning"
  /\ UNCHANGED <<tries, quit, cleanup, sink>> /\ ThreadKeeps

GuardFirst ==
  /\ thread = "cleaning"
  /\ IF ~cleanup THEN cleanup' = TRUE /\ UNCHANGED <<sink, thread>>
     ELSE sink' = FALSE /\ thread' = "clean" /\ UNCHANGED cleanup
  /\ UNCHANGED <<tries, quit>> /\ ThreadKeeps

DestroyLocals ==
  /\ thread = "cleaning"
  /\ IF sink THEN sink' = FALSE /\ UNCHANGED <<cleanup, thread>>
     ELSE cleanup' = TRUE /\ thread' = "clean" /\ UNCHANGED sink
  /\ UNCHANGED <<tries, quit>> /\ ThreadKeeps

-----------------------------------------------------------------------------
(* Task View is shown or dismissed: MultitaskingViewVisibilitySink posts   *)
(* to the worker, if its window is found.  Slip: only when it is shown.    *)
NotifiedShown == sink /\ hooking /\ ~visible
Notified == sink /\ hooking
ViewChanges ==
  /\ gui # "failed" /\ shows < MaxChanges
  /\ shows' = shows + 1
  /\ visible' = ~visible
  /\ inbox' = IF Notified THEN Append(inbox, [load |-> loads, shown |-> ~visible]) ELSE inbox
  /\ UNCHANGED <<guiVars, threadVars, believed, informed>>

(* OnTaskViewVisibilityChange. *)
Receive ==
  /\ hooking /\ inbox # <<>>
  /\ believed' = Head(inbox).shown
  /\ informed' = (sink /\ Head(inbox).load = loads)
  /\ inbox' = Tail(inbox)
  /\ UNCHANGED <<guiVars, threadVars, visible, shows>>

(* ResetState: the worker forgets, and asks the monitor's window           *)
(* (TTBHook_IsTaskViewOpened) if there is one.  What was posted before the *)
(* answer is still to be received.                                         *)
Ask ==
  /\ hooking
  /\ believed' = (thread = "serving" /\ visible)
  /\ informed' = (thread = "serving")
  /\ UNCHANGED <<guiVars, threadVars, visible, shows, inbox>>

GuiStep == Install \/ Uninstall \/ PostQuit \/ NotBegun \/ CleanedUp \/ Terminate
ThreadStep == Begin \/ SetRunning \/ CoInitialize \/ LoadViewService \/ GetQuit \/ DestroyLocals
MonitorNext == GuiStep \/ ThreadStep \/ Hook \/ Unhook \/ ViewChanges \/ Receive \/ Ask

(* Both threads of Explorer run. *)
MonitorFairness == WF_monitorVars(GuiStep) /\ WF_monitorVars(ThreadStep)
MonitorSpec == MonitorInit /\ [][MonitorNext]_monitorVars /\ MonitorFairness

-----------------------------------------------------------------------------
(* Explorer's GUI thread does not stay in Uninstall, though it waits there *)
(* without limit, whatever the monitor's thread was doing when it was told *)
(* to quit (EndWatcherThread).                                             *)
UninstallReturns == gui \in {"checking", "waiting", "terminating"} ~> gui \in {"free", "failed"}

(* A thread that was told to quit is only terminated after it has let go   *)
(* of everything, its sink first of all: Explorer never calls a sink in a  *)
(* library that is gone, and no lock is abandoned (ThreadMain, ThreadProc).*)
QuitThreadIsCleanWhenTerminated ==
  gui = "terminating" /\ quit => thread = "clean" /\ ~sink

(* With nothing in its queue the worker believes of Task View what is the  *)
(* case, if it last heard of it from the monitor that is registered now:   *)
(* whether it asked or was told, in whatever order answers and messages    *)
(* came.                                                                   *)
WorkerFollowsTaskView ==
  hooking /\ informed /\ inbox = <<>> /\ sink /\ gui = "free" => believed = visible
=============================================================================
