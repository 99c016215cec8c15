------------------------------ MODULE Application ------------------------------
(***************************************************************************)
(* The program around the worker: the main thread, which runs the tray     *)
(* menu, the tasks other threads dispatch to it and the shutdown, and the  *)
(* pool of XAML threads, each with at most one window: the welcome page or *)
(* the colour picker of a taskbar state.                                   *)
(*                                                                         *)
(* A thread has a dispatcher queue of two priorities.  Each has a lock     *)
(* that protects its window: whoever gives it a window holds the lock      *)
(* until the window is there, the shutdown holds it while the window is    *)
(* asked to close, and the callback for a closed window takes it to delete *)
(* the window.  A second lock protects the table of colour pickers.        *)
(***************************************************************************)
EXTENDS Naturals, Sequences, FiniteSets

CONSTANTS
  States,       \* taskbar states that have a colour picker
  MaxThreads,   \* XAML threads
  MaxActs       \* pickers and edits asked for, colours tried, exits and session ends

VARIABLES
  life,         \* "running", "ended", "killed" or "crashed"
  main,         \* what the main thread is in the middle of
  mainQueue,    \* tasks dispatched to the main thread
  threads,      \* m_Threads.size()
  lock,         \* m_CurrentWindowLock of each thread: who holds it
  window,       \* m_CurrentWindow of each thread
  normal, low,  \* dispatcher queue of each thread, by priority
  busy,         \* what each thread is in the middle of
  pickers,      \* m_ColorPickers: the thread of the host, or 0
  pickerMutex,  \* m_PickerMutex is held
  preview,      \* states whose colour preview is on
  welcome,      \* m_WelcomePage is set
  firstStart,   \* there was no settings.json
  approved,     \* the user has gone through the welcome page
  fileExists,   \* there is a settings.json
  shuttingDown, \* m_ShuttingDown
  shutdown,     \* the coroutine Application::Shutdown
  quit,         \* PostQuitMessage was called
  session,      \* the Windows session: "on", "asked" to end, "ending"
  acts          \* how many of those there have been

poolVars == <<threads, lock, normal, low>>
pickerVars == <<pickers, pickerMutex, preview>>
welcomeVars == <<welcome, firstStart, approved, fileExists>>
exitVars == <<shuttingDown, shutdown, quit, session>>
appVars == <<life, main, mainQueue, poolVars, window, busy, pickerVars,
             welcomeVars, exitVars, acts>>

ASSUME AppAssumption ==
  /\ MaxThreads \in Nat \ {0} /\ MaxActs \in Nat
  /\ States \cap {"none", "welcome"} = {}
  /\ MaxThreads > MaxActs  \* a thread for each window

Threads == 1 .. MaxThreads
Kinds == States \cup {"welcome"}

Idle == [at |-> "idle"]

(* A host: the page it shows, whether the page is still there, and of a    *)
(* colour picker, whether its colour was changed and its dialog is open.   *)
(* late is history: it was asked for after the shutdown had begun.         *)
NoWindow == [of |-> "none", open |-> FALSE, laidOut |-> FALSE,
             dirty |-> FALSE, dialog |-> FALSE, late |-> FALSE]

(* The coroutine is on the main thread (0) or on a XAML thread, before the *)
(* i-th of the n threads there were when it started.                       *)
NoShutdown == [at |-> "none", on |-> 0, i |-> 0, n |-> 0, canExit |-> TRUE, hasWelcome |-> FALSE]

Task(what, s) == [what |-> what, s |-> s]
Dispatch(task) == mainQueue' = Append(mainQueue, task)

Running == life = "running"
Act == acts < MaxActs /\ acts' = acts + 1
Responsive(t) == Running /\ busy[t] = "idle"
Usable(t) == Responsive(t) /\ main.at # "joining"
MainIdle == Running /\ main = Idle

-----------------------------------------------------------------------------
(* Opening a window.                                                       *)

(* XamlThreadPool::CreateXamlWindow and XamlThread::CreateXamlWindow up to *)
(* the switch to the thread, with the lock of the thread held.             *)
StartCreating(t, kind) ==
  /\ lock' = [lock EXCEPT ![t] = "creation"]
  /\ window' = [window EXCEPT ![t].late = shuttingDown]
  /\ normal' = [normal EXCEPT ![t] = Append(@, Task("create", kind))]

(* ColorRequested, from the menu: first the lock of the pickers. *)
ColorRequested(s) ==
  /\ MainIdle /\ (firstStart => approved) /\ Act
  /\ main' = [at |-> "pickers", s |-> s]
  /\ UNCHANGED <<life, mainQueue, poolVars, window, busy, pickerVars,
                 welcomeVars, exitVars>>

(* The picker there is gets the focus.  Its host is not protected: when    *)
(* its thread has deleted it, what is read is no host any more.            *)
FocusPicker ==
  /\ Running /\ main.at = "pickers" /\ ~pickerMutex
  /\ pickers[main.s] # 0
  /\ life' \in IF window[pickers[main.s]].of = main.s THEN {life} ELSE {life, "crashed"}
  /\ main' = Idle
  /\ UNCHANGED <<mainQueue, poolVars, window, busy, pickerVars,
                 welcomeVars, exitVars, acts>>

(* The lock of the pickers is kept until the new host is known.  Slip: it  *)
(* is only held for the look.                                              *)
OnlyLook ==
  /\ Running /\ main.at = "pickers" /\ ~pickerMutex
  /\ pickers[main.s] = 0
  /\ main' = [at |-> "pool", s |-> main.s, i |-> 1]
  /\ UNCHANGED <<life, mainQueue, poolVars, window, busy, pickerVars,
                 welcomeVars, exitVars, acts>>

LookForThread ==
  /\ Running /\ main.at = "pickers" /\ ~pickerMutex
  /\ pickers[main.s] = 0
  /\ pickerMutex' = TRUE
  /\ main' = [at |-> "pool", s |-> main.s, i |-> 1]
  /\ UNCHANGED <<life, mainQueue, poolVars, window, busy, pickers, preview,
                 welcomeVars, exitVars, acts>>

(* GetAvailableThread: each thread in turn, under its lock.  Slip: a       *)
(* thread whose window is closed, not yet deleted, will do.                *)
ClosedIsAvailable ==
  /\ Running /\ main.at = "pool" /\ main.i <= threads
  /\ lock[main.i] = "free"
  /\ IF ~window[main.i].open
     THEN StartCreating(main.i, main.s) /\ main' = Idle
     ELSE main' = [main EXCEPT !.i = @ + 1] /\ UNCHANGED <<lock, window, normal>>
  /\ UNCHANGED <<life, mainQueue, threads, low, busy, pickerVars,
                 welcomeVars, exitVars, acts>>

TryThread ==
  /\ Running /\ main.at = "pool" /\ main.i <= threads
  /\ lock[main.i] = "free"
  /\ IF window[main.i].of = "none"
     THEN StartCreating(main.i, main.s) /\ main' = Idle
     ELSE main' = [main EXCEPT !.i = @ + 1] /\ UNCHANGED <<lock, window, normal>>
  /\ UNCHANGED <<life, mainQueue, threads, low, busy, pickerVars,
                 welcomeVars, exitVars, acts>>

(* None is available: a thread is made, which gets its apartment, XAML     *)
(* manager and dispatcher queue while the constructor waits for m_Ready.   *)
NewThread ==
  /\ Running /\ main.at = "pool" /\ main.i > threads
  /\ threads < MaxThreads
  /\ busy' = [busy EXCEPT ![main.i] = "starting"]
  /\ main' = [main EXCEPT !.at = "starting"]
  /\ UNCHANGED <<life, mainQueue, poolVars, window, pickerVars, welcomeVars, exitVars, acts>>

ThreadInit(t) ==
  /\ Running /\ busy[t] = "starting"
  /\ busy' = [busy EXCEPT ![t] = "idle"]
  /\ UNCHANGED <<life, main, mainQueue, poolVars, window, pickerVars, welcomeVars, exitVars, acts>>

ThreadReady ==
  /\ Running /\ main.at = "starting" /\ busy[main.i] # "starting"
  /\ threads' = main.i
  /\ StartCreating(main.i, main.s)
  /\ main' = Idle
  /\ UNCHANGED <<life, mainQueue, low, busy, pickerVars, welcomeVars, exitVars, acts>>

(* The rest of CreateXamlWindow, on the thread: the host, the callback     *)
(* that makes it known, and the release of the lock.  Slip: the callback   *)
(* keeps the lock of the pickers.                                          *)
KeepPickerMutex(t) ==
  /\ Responsive(t) /\ normal[t] # <<>> /\ Head(normal[t]).what = "create"
  /\ LET kind == Head(normal[t]).s IN
     /\ window' = [window EXCEPT ![t].of = kind, ![t].open = TRUE]
     /\ IF kind = "welcome"
        THEN Dispatch(Task("welcome", kind)) /\ UNCHANGED pickers
        ELSE pickers' = [pickers EXCEPT ![kind] = t] /\ UNCHANGED mainQueue
  /\ lock' = [lock EXCEPT ![t] = "free"]
  /\ normal' = [normal EXCEPT ![t] = Tail(@)]
  /\ UNCHANGED <<life, main, threads, low, busy, preview, pickerMutex, welcomeVars, exitVars,
                 acts>>

Create(t) ==
  /\ Responsive(t) /\ normal[t] # <<>> /\ Head(normal[t]).what = "create"
  /\ LET kind == Head(normal[t]).s IN
     /\ window' = [window EXCEPT ![t].of = kind, ![t].open = TRUE]
     /\ IF kind = "welcome"
        THEN Dispatch(Task("welcome", kind)) /\ UNCHANGED <<pickers, pickerMutex>>
        ELSE /\ pickers' = [pickers EXCEPT ![kind] = t]
             /\ pickerMutex' = FALSE
             /\ UNCHANGED mainQueue
  /\ lock' = [lock EXCEPT ![t] = "free"]
  /\ normal' = [normal EXCEPT ![t] = Tail(@)]
  /\ UNCHANGED <<life, main, threads, low, busy, preview, welcomeVars, exitVars, acts>>

(* InitialXamlLayoutChanged continues at low priority... *)
LayoutUpdated(t) ==
  /\ Responsive(t) /\ window[t].open /\ ~window[t].laidOut
  /\ window' = [window EXCEPT ![t].laidOut = TRUE]
  /\ low' = [low EXCEPT ![t] = Append(@, "layout")]
  /\ UNCHANGED <<life, main, mainQueue, threads, lock, normal, busy, pickerVars,
                 welcomeVars, exitVars, acts>>

(* ... and measures the page, which may have been closed meanwhile. *)
Measure(t) ==
  /\ Responsive(t) /\ normal[t] = <<>> /\ low[t] # <<>> /\ Head(low[t]) = "layout"
  /\ low' = [low EXCEPT ![t] = Tail(@)]
  /\ life' = IF window[t].open THEN life ELSE "crashed"
  /\ UNCHANGED <<main, mainQueue, threads, lock, normal, window, busy, pickerVars,
                 welcomeVars, exitVars, acts>>

-----------------------------------------------------------------------------
(* Using and closing a window.                                             *)

PickerOn(t) == window[t].open /\ window[t].of \in States

(* The page closes: OnClose cleans it up and leaves the deletion of the    *)
(* host for later; who opened the page has asked for a task, if any.       *)
Closed(t, tasks) ==
  /\ window' = [window EXCEPT ![t].open = FALSE]
  /\ low' = [low EXCEPT ![t] = Append(@, "delete")]
  /\ mainQueue' = mainQueue \o tasks

ClosedTask(kind) == IF kind = "welcome" THEN Task("shutdown", kind) ELSE Task("close", kind)

(* RequestClose: a picker whose colour was changed asks first. *)
Refuses(t) == window[t].dialog \/ window[t].dirty
RequestClose(t) ==
  IF Refuses(t)
  THEN window' = [window EXCEPT ![t].dialog = TRUE] /\ UNCHANGED <<low, mainQueue>>
  ELSE Closed(t, <<ClosedTask(window[t].of)>>)

UserCloses(t) ==
  /\ Usable(t) /\ window[t].open
  /\ RequestClose(t)
  /\ UNCHANGED <<life, main, threads, lock, normal, busy, pickerVars,
                 welcomeVars, exitVars, acts>>

(* A colour is tried, and the tick of the picker's timer that shows it.    *)
(* The timer is stopped only when the control is destroyed                 *)
(* (ColorPicker.cpp:63), which is up to XAML once the host has let go of   *)
(* the page (Cleanup): a tick after that is not modelled.                  *)
PickColor(t) ==
  /\ Usable(t) /\ PickerOn(t) /\ ~window[t].dialog /\ Act
  /\ \E dirty \in BOOLEAN : window' = [window EXCEPT ![t].dirty = dirty]
  /\ Dispatch(Task("preview", window[t].of))
  /\ UNCHANGED <<life, main, poolVars, busy, pickerVars, welcomeVars, exitVars>>

(* OK, or "save" in the dialog: the page's Closed is not listened to any   *)
(* more.                                                                   *)
CommitColor(t) ==
  /\ Usable(t) /\ PickerOn(t)
  /\ Closed(t, <<Task("commit", window[t].of)>>)
  /\ UNCHANGED <<life, main, threads, lock, normal, busy, pickerVars,
                 welcomeVars, exitVars, acts>>

(* Cancel, or "discard" in the dialog. *)
DiscardColor(t) ==
  /\ Usable(t) /\ PickerOn(t)
  /\ Closed(t, <<Task("close", window[t].of)>>)
  /\ UNCHANGED <<life, main, threads, lock, normal, busy, pickerVars,
                 welcomeVars, exitVars, acts>>

KeepEditing(t) ==
  /\ Responsive(t) /\ window[t].dialog
  /\ window' = [window EXCEPT ![t].dialog = FALSE]
  /\ UNCHANGED <<life, main, mainQueue, poolVars, busy, pickerVars,
                 welcomeVars, exitVars, acts>>

Approve(t) ==
  /\ Usable(t) /\ window[t].open /\ window[t].of = "welcome"
  /\ Closed(t, <<Task("approved", "welcome")>>)
  /\ approved' = TRUE
  /\ UNCHANGED <<life, main, threads, lock, normal, busy, pickerVars,
                 welcome, firstStart, fileExists, exitVars, acts>>

EditFromWelcome(t) ==
  /\ Usable(t) /\ window[t].open /\ window[t].of = "welcome" /\ Act
  /\ Dispatch(Task("edit", "welcome"))
  /\ UNCHANGED <<life, main, poolVars, window, busy, pickerVars, welcomeVars,
                 exitVars>>

(* DeletedCallback waits for the lock on the thread itself. *)
StartDeleting(t) ==
  /\ Responsive(t) /\ normal[t] = <<>> /\ low[t] # <<>> /\ Head(low[t]) = "delete"
  /\ low' = [low EXCEPT ![t] = Tail(@)]
  /\ busy' = [busy EXCEPT ![t] = "deleting"]
  /\ UNCHANGED <<life, main, mainQueue, threads, lock, normal, window, pickerVars,
                 welcomeVars, exitVars, acts>>

DeletedCallback(t) ==
  /\ Running /\ busy[t] = "deleting" /\ lock[t] = "free"
  /\ window' = [window EXCEPT ![t] = NoWindow]
  /\ busy' = [busy EXCEPT ![t] = "idle"]
  /\ UNCHANGED <<life, main, mainQueue, poolVars, pickerVars,
                 welcomeVars, exitVars, acts>>
-----------------------------------------------------------------------------
(* What the main thread does for the others.                               *)

NextTask(what) == MainIdle /\ mainQueue # <<>> /\ Head(mainQueue).what = what

ApplyColorPreview ==
  /\ NextTask("preview")
  /\ preview' = preview \cup {Head(mainQueue).s}
  /\ mainQueue' = Tail(mainQueue)
  /\ UNCHANGED <<life, main, poolVars, window, busy, pickers, pickerMutex,
                 welcomeVars, exitVars, acts>>

(* A picker was closed or its colour committed: the preview ends, and then *)
(* the host is forgotten, under the lock of the pickers.  Slip: a          *)
(* committed colour is taken for the end of its preview.                   *)
KeepCommittedPreview ==
  /\ NextTask("close") \/ NextTask("commit")
  /\ preview' = IF Head(mainQueue).what = "close" THEN preview \ {Head(mainQueue).s} ELSE preview
  /\ main' = [at |-> "forget", s |-> Head(mainQueue).s]
  /\ mainQueue' = Tail(mainQueue)
  /\ UNCHANGED <<life, poolVars, window, busy, pickers, pickerMutex,
                 welcomeVars, exitVars, acts>>

RemoveColorPreview ==
  /\ NextTask("close") \/ NextTask("commit")
  /\ preview' = preview \ {Head(mainQueue).s}
  /\ main' = [at |-> "forget", s |-> Head(mainQueue).s]
  /\ mainQueue' = Tail(mainQueue)
  /\ UNCHANGED <<life, poolVars, window, busy, pickers, pickerMutex,
                 welcomeVars, exitVars, acts>>

ForgetPicker ==
  /\ Running /\ main.at = "forget" /\ ~pickerMutex
  /\ pickers' = [pickers EXCEPT ![main.s] = 0]
  /\ main' = Idle
  /\ UNCHANGED <<life, mainQueue, poolVars, window, busy, pickerMutex, preview,
                 welcomeVars, exitVars, acts>>

(* The welcome page is there, has been approved (which creates the file),  *)
(* or has the file opened in an editor (which creates it too).             *)
WelcomeTask ==
  /\ NextTask("welcome") \/ NextTask("approved") \/ NextTask("edit")
  /\ LET what == Head(mainQueue).what IN
     /\ welcome' = CASE what = "welcome" -> TRUE [] what = "approved" -> FALSE [] OTHER -> welcome
     /\ fileExists' = (fileExists \/ what # "welcome")
  /\ mainQueue' = Tail(mainQueue)
  /\ UNCHANGED <<life, main, poolVars, window, busy, pickerVars, firstStart, approved,
                 exitVars, acts>>

-----------------------------------------------------------------------------
(* Leaving.                                                                *)

(* Application::Shutdown, on the main thread, once at a time. *)
Shutdown ==
  IF shuttingDown
  THEN UNCHANGED <<shuttingDown, shutdown, main, window>>
  ELSE /\ shuttingDown' = TRUE
       /\ window' = [t \in Threads |-> [window[t] EXCEPT !.late = FALSE]]
       /\ shutdown' = [at |-> "lock", on |-> 0, i |-> 1, n |-> threads,
                       canExit |-> TRUE, hasWelcome |-> welcome]
       /\ main' = [at |-> "shutdown"]

(* MainAppWindow::Exit. *)
Exit ==
  /\ fileExists' = TRUE
  /\ Shutdown

(* The menu, which is there when the tray icon is, or WM_CLOSE. *)
AskedToExit ==
  /\ MainIdle /\ Act
  /\ Exit
  /\ UNCHANGED <<life, mainQueue, poolVars, busy, pickerVars, welcome, firstStart,
                 approved, quit, session>>

WelcomeClosed ==
  /\ NextTask("shutdown")
  /\ Shutdown
  /\ mainQueue' = Tail(mainQueue)
  /\ UNCHANGED <<life, poolVars, busy, pickerVars, welcomeVars,
                 quit, session, acts>>

(* Whoever runs the coroutine leaves it. *)
Leave(on) ==
  IF on = 0
  THEN main' = Idle /\ UNCHANGED busy
  ELSE busy' = [busy EXCEPT ![on] = "idle"] /\ UNCHANGED main

(* The next thread, under its lock.  The vector of threads may have moved  *)
(* since the loop over it began.                                           *)
LockThread ==
  /\ Running /\ shutdown.at = "lock" /\ shutdown.i <= shutdown.n
  /\ lock[shutdown.i] = "free"
  /\ IF window[shutdown.i].open
     THEN /\ lock' = [lock EXCEPT ![shutdown.i] = "shutdown"]
          /\ shutdown' = [shutdown EXCEPT !.at = "switch"]
     ELSE /\ shutdown' = [shutdown EXCEPT !.i = @ + 1]
          /\ UNCHANGED lock
  /\ life' \in IF threads = shutdown.n THEN {life} ELSE {life, "crashed"}
  /\ UNCHANGED <<main, mainQueue, threads, normal, low, window, busy, pickerVars,
                 welcomeVars, shuttingDown, quit, session, acts>>

(* A window can only be asked on its own thread: resume_foreground. *)
SwitchThread ==
  /\ Running /\ shutdown.at = "switch"
  /\ normal' = [normal EXCEPT ![shutdown.i] = Append(@, Task("ask", "welcome"))]
  /\ shutdown' = [shutdown EXCEPT !.at = "asked"]
  /\ Leave(shutdown.on)
  /\ UNCHANGED <<life, mainQueue, threads, lock, low, window, pickerVars,
                 welcomeVars, shuttingDown, quit, session, acts>>

(* TryClose; the coroutine goes on from here, without the lock.  Slip: the *)
(* answer is not looked at.                                                *)
AnswerIgnored(t) ==
  /\ Responsive(t) /\ normal[t] # <<>> /\ Head(normal[t]).what = "ask"
  /\ normal' = [normal EXCEPT ![t] = Tail(@)]
  /\ IF window[t].open THEN RequestClose(t) ELSE UNCHANGED <<window, low, mainQueue>>
  /\ shutdown' = [shutdown EXCEPT !.at = "lock", !.on = t, !.i = @ + 1]
  /\ lock' = [lock EXCEPT ![t] = "free"]
  /\ busy' = [busy EXCEPT ![t] = "shutdown"]
  /\ UNCHANGED <<life, main, threads, pickerVars, welcomeVars, shuttingDown, quit, session,
                 acts>>

AskToClose(t) ==
  /\ Responsive(t) /\ normal[t] # <<>> /\ Head(normal[t]).what = "ask"
  /\ normal' = [normal EXCEPT ![t] = Tail(@)]
  /\ IF window[t].open THEN RequestClose(t) ELSE UNCHANGED <<window, low, mainQueue>>
  /\ shutdown' = [shutdown EXCEPT !.at = "lock", !.on = t, !.i = @ + 1,
                                  !.canExit = @ /\ ~(window[t].open /\ Refuses(t))]
  /\ lock' = [lock EXCEPT ![t] = "free"]
  /\ busy' = [busy EXCEPT ![t] = "shutdown"]
  /\ UNCHANGED <<life, main, threads, pickerVars, welcomeVars, shuttingDown, quit, session,
                 acts>>

(* Slip: m_ShuttingDown stays set when a window would not close. *)
StaysShuttingDown ==
  /\ Running /\ shutdown.at = "lock" /\ shutdown.i > shutdown.n
  /\ IF shutdown.canExit
     THEN Dispatch(Task("finish", "welcome")) /\ shutdown' = [shutdown EXCEPT !.at = "finish"]
     ELSE shutdown' = NoShutdown /\ UNCHANGED mainQueue
  /\ Leave(shutdown.on)
  /\ UNCHANGED <<life, poolVars, window, pickerVars, welcomeVars, shuttingDown, quit, session,
                 acts>>

AllAsked ==
  /\ Running /\ shutdown.at = "lock" /\ shutdown.i > shutdown.n
  /\ IF shutdown.canExit
     THEN /\ Dispatch(Task("finish", "welcome"))
          /\ shutdown' = [shutdown EXCEPT !.at = "finish"]
          /\ UNCHANGED shuttingDown
     ELSE /\ shuttingDown' = FALSE
          /\ shutdown' = NoShutdown
          /\ UNCHANGED mainQueue
  /\ Leave(shutdown.on)
  /\ UNCHANGED <<life, poolVars, window, pickerVars, welcomeVars, quit, session, acts>>

(* DeleteConfigFile, if the welcome page was there, and PostQuitMessage. *)
Finish ==
  /\ NextTask("finish")
  /\ fileExists' = (fileExists /\ ~shutdown.hasWelcome)
  /\ quit' = TRUE
  /\ shutdown' = NoShutdown
  /\ mainQueue' = Tail(mainQueue)
  /\ UNCHANGED <<life, main, poolVars, window, busy, pickerVars, welcome, firstStart,
                 approved, shuttingDown, session, acts>>

(* Application::Run returns when there is nothing left to do, and the      *)
(* members of the Application are destroyed, m_Dispatcher before the pool, *)
(* which asks each thread to end and waits for all of them.                *)
RunReturns ==
  /\ MainIdle /\ quit /\ mainQueue = <<>>
  /\ main' = [at |-> "joining"]
  /\ low' = [t \in Threads |-> IF t <= threads THEN Append(low[t], "deinit") ELSE low[t]]
  /\ UNCHANGED <<life, mainQueue, threads, lock, normal, window, busy, pickerVars,
                 welcomeVars, exitVars, acts>>

(* The window goes without its lock, whether it was closed or not, and the *)
(* thread leaves its loop.                                                 *)
ThreadDeinit(t) ==
  /\ Responsive(t) /\ normal[t] = <<>> /\ low[t] # <<>> /\ Head(low[t]) = "deinit"
  /\ low' = [low EXCEPT ![t] = Tail(@)]
  /\ window' = [window EXCEPT ![t] = NoWindow]
  /\ busy' = [busy EXCEPT ![t] = "gone"]
  /\ UNCHANGED <<life, main, mainQueue, threads, lock, normal, pickerVars, welcomeVars,
                 exitVars, acts>>

(* A page that is closed or used meanwhile dispatches to the main thread   *)
(* through m_Dispatcher, which is gone.                                    *)
DispatchTooLate(t) ==
  /\ Responsive(t) /\ main.at = "joining" /\ window[t].open
  /\ life' = "crashed"
  /\ UNCHANGED <<main, mainQueue, poolVars, window, busy, pickerVars, welcomeVars, exitVars,
                 acts>>

PoolIsGone ==
  /\ Running /\ main.at = "joining" /\ \A t \in 1 .. threads : busy[t] = "gone"
  /\ life' = "ended"
  /\ UNCHANGED <<main, mainQueue, poolVars, window, busy, pickerVars,
                 welcomeVars, exitVars, acts>>

(* The Windows session ends: every window is asked, a page answers as it   *)
(* does when it is closed, the main window agrees...                       *)
SessionAsks ==
  /\ Running /\ session = "on" /\ Act
  /\ session' = "asked"
  /\ UNCHANGED <<life, main, mainQueue, poolVars, window, busy, pickerVars, welcomeVars,
                 shuttingDown, shutdown, quit>>

QueryEndSession(t) ==
  /\ Usable(t) /\ session = "asked" /\ window[t].open
  /\ RequestClose(t)
  /\ session' = IF Refuses(t) THEN "on" ELSE session
  /\ UNCHANGED <<life, main, threads, lock, normal, busy, pickerVars, welcomeVars,
                 shuttingDown, shutdown, quit, acts>>

(* ... and is then told to exit, after which the program may be killed. *)
EndSession ==
  /\ MainIdle /\ session = "asked"
  /\ session' = "ending"
  /\ Exit
  /\ UNCHANGED <<life, mainQueue, poolVars, busy, pickerVars, welcome, firstStart,
                 approved, quit, acts>>

Killed ==
  /\ Running /\ session = "ending" /\ main.at # "shutdown"
  /\ life' = "killed"
  /\ UNCHANGED <<main, mainQueue, poolVars, window, busy, pickerVars, welcomeVars,
                 exitVars, acts>>

-----------------------------------------------------------------------------
AppInit ==
  /\ life = "running" /\ main = Idle /\ mainQueue = <<>>
  /\ firstStart \in BOOLEAN
  /\ fileExists = ~firstStart
  /\ threads = IF firstStart THEN 1 ELSE 0
  /\ lock = [t \in Threads |-> IF firstStart /\ t = 1 THEN "creation" ELSE "free"]
  /\ normal = [t \in Threads |-> IF firstStart /\ t = 1 THEN <<Task("create", "welcome")>> ELSE <<>>]
  /\ low = [t \in Threads |-> <<>>]
  /\ window = [t \in Threads |-> NoWindow]
  /\ busy = [t \in Threads |-> "idle"]
  /\ pickers = [s \in States |-> 0] /\ pickerMutex = FALSE /\ preview = {}
  /\ welcome = FALSE /\ approved = FALSE
  /\ shuttingDown = FALSE /\ shutdown = NoShutdown /\ quit = FALSE /\ session = "on"
  /\ acts = 0

(* What a thread does by itself, and what is done to it from outside. *)
MainStep ==
  \/ FocusPicker \/ LookForThread \/ TryThread \/ NewThread \/ ThreadReady
  \/ ApplyColorPreview \/ RemoveColorPreview \/ ForgetPicker \/ WelcomeTask \/ WelcomeClosed
  \/ Finish \/ PoolIsGone
ShutdownStep == LockThread \/ SwitchThread \/ AllAsked
ThreadStep(t) ==
  \/ ThreadInit(t) \/ Create(t) \/ Measure(t) \/ StartDeleting(t) \/ DeletedCallback(t)
  \/ AskToClose(t) \/ ThreadDeinit(t)

Outside ==
  \/ \E s \in States : ColorRequested(s)
  \/ \E t \in Threads : LayoutUpdated(t) \/ UserCloses(t) \/ PickColor(t) \/ CommitColor(t)
                        \/ DiscardColor(t) \/ KeepEditing(t) \/ Approve(t) \/ EditFromWelcome(t)
                        \/ DispatchTooLate(t)
  \/ AskedToExit \/ RunReturns
  \/ SessionAsks \/ (\E t \in Threads : QueryEndSession(t)) \/ EndSession \/ Killed

AppNext == MainStep \/ ShutdownStep \/ (\E t \in Threads : ThreadStep(t)) \/ Outside

(* Threads run, and their queues are served.                               *)
AppFairness ==
  /\ WF_appVars(MainStep)
  /\ WF_appVars(ShutdownStep)
  /\ \A t \in Threads : WF_appVars(ThreadStep(t))

AppSpec == AppInit /\ [][AppNext]_appVars /\ AppFairness
-----------------------------------------------------------------------------
(* Properties.                                                             *)

TaskKinds == {"preview", "close", "commit", "welcome", "approved", "edit", "shutdown", "finish"}

MainTask == [what : TaskKinds, s : Kinds]
ThreadTask == [what : {"create", "ask"}, s : Kinds]
Window == [of : Kinds \cup {"none"}, open : BOOLEAN, laidOut : BOOLEAN,
           dirty : BOOLEAN, dialog : BOOLEAN, late : BOOLEAN]
PickerTasks == {"preview", "close", "commit"}

(* What the main thread is in the middle of: one past the last thread when *)
(* none is available.                                                      *)
MainType ==
  \/ main \in [at : {"idle", "shutdown", "joining"}]
  \/ main \in [at : {"pickers", "forget"}, s : States]
  \/ main \in [at : {"pool"}, s : States, i : 1 .. threads + 1]
  \/ main \in [at : {"starting"}, s : States, i : {threads + 1}] /\ threads < MaxThreads

QueueType ==
  /\ mainQueue \in Seq(MainTask)
  /\ \A k \in DOMAIN mainQueue : mainQueue[k].what \in PickerTasks => mainQueue[k].s \in States

AppTypes ==
  /\ life \in {"running", "ended", "killed", "crashed"}
  /\ MainType /\ QueueType
  /\ threads \in 0 .. MaxThreads
  /\ lock \in [Threads -> {"free", "creation", "shutdown"}]
  /\ window \in [Threads -> Window]
  /\ normal \in [Threads -> Seq(ThreadTask)]
  /\ low \in [Threads -> Seq({"layout", "delete", "deinit"})]
  /\ busy \in [Threads -> {"starting", "idle", "deleting", "shutdown", "gone"}]
  /\ pickers \in [States -> 0 .. MaxThreads] /\ pickerMutex \in BOOLEAN /\ preview \subseteq States
  /\ shuttingDown \in BOOLEAN /\ quit \in BOOLEAN
  /\ shutdown \in [at : {"none", "lock", "switch", "asked", "finish"}, on : 0 .. MaxThreads,
                   i : 0 .. MaxThreads + 1, n : 0 .. MaxThreads, canExit : BOOLEAN, hasWelcome : BOOLEAN]

StartTypes ==
  /\ welcome \in BOOLEAN /\ firstStart \in BOOLEAN /\ approved \in BOOLEAN /\ fileExists \in BOOLEAN
  /\ session \in {"on", "asked", "ending"} /\ acts \in 0 .. MaxActs

(* The loop of the shutdown is at one of the threads it has counted, or    *)
(* past the last of them, and all of them are there.                       *)
ShutdownInThreads ==
  /\ shutdown.n <= threads /\ shutdown.on <= threads
  /\ shutdown.at = "lock" => shutdown.i \in 1 .. shutdown.n + 1
  /\ shutdown.at \in {"switch", "asked"} => shutdown.i \in 1 .. shutdown.n

(* Every variable has its type, with the queues, windows and what each     *)
(* thread is in the middle of: each lock has at most one holder; the       *)
(* main thread's look for a thread and the shutdown's loop over them are   *)
(* at a thread of the pool, or one past the last, the one that a new       *)
(* thread is given; a picker's task and preview are of a taskbar state; a  *)
(* window that is open has a page; and m_ShuttingDown is set exactly while *)
(* the coroutine is somewhere, or after it has ended in PostQuitMessage.   *)
AppTypeOK ==
  /\ AppTypes /\ StartTypes /\ ShutdownInThreads
  /\ \A t \in Threads : window[t].open => window[t].of # "none"
  /\ shuttingDown <=> (shutdown.at # "none" \/ quit)

(* A thread that is being given a window has none, which is what           *)
(* CreateXamlWindow asserts: GetAvailableThread looks under the lock, and  *)
(* the lock is kept until the window is there (xamlthread.hpp).            *)
OneWindowPerThread ==
  \A t \in Threads : lock[t] = "creation" => window[t].of = "none"

(* A taskbar state never has two colour pickers open: m_PickerMutex is     *)
(* held from the look at m_ColorPickers to the new host's being in it, and *)
(* a host is forgotten only once it is closed (ColorRequested).            *)
OnePickerPerState ==
  \A t, u \in Threads :
    window[t].open /\ window[u].open /\ window[t].of = window[u].of => t = u

(* A colour preview does not outlive its picker: however it is closed, by  *)
(* the user, by the shutdown or by the session, the preview is on its way  *)
(* out, behind every colour the picker has asked for; or the program ends, *)
(* and the worker with it.                                                 *)
PreviewEnds ==
  \A s \in preview :
    \/ main.at = "joining"
    \/ \E t \in Threads : window[t].open /\ window[t].of = s
    \/ \E k \in DOMAIN mainQueue : mainQueue[k] \in {Task("close", s), Task("commit", s)}

(* The program does not quit over a window that would not close: what is   *)
(* still open then was asked for after the shutdown had begun.             *)
NoChangeIsDropped ==
  quit => \A t \in Threads : window[t].open => window[t].late

(* The thread waits for its own lock, which the shutdown gives back only   *)
(* on that thread: page() is looked at on another thread than the one that *)
(* closes it, and the switch to that thread comes after the look.          *)
Stuck(t) ==
  /\ busy[t] = "deleting"
  /\ shutdown.at \in {"switch", "asked"} /\ shutdown.i = t

(* The main thread comes back from opening a colour picker, and from the   *)
(* destructor of the pool, whatever the threads, the shutdown and the      *)
(* pickers that close are doing, except when the shutdown has locked a     *)
(* thread out of its own lock: both wait for locks and threads without a   *)
(* time limit (xamlthread.cpp:119, xamlthreadpool.cpp:38).                 *)
MainThreadReturns ==
  main.at \in {"pickers", "pool", "starting", "joining"} ~>
    \/ main.at \notin {"pickers", "pool", "starting", "joining"}
    \/ ~Running
    \/ \E t \in Threads : Stuck(t)

(* Violated.  "delete the config file if the user hasn't went through the  *)
(* welcome page to make them go through it again next startup"             *)
(* (application.cpp): a program that exits without the approval leaves no  *)
(* settings.json behind.                                                   *)
WelcomeAgain ==
  life = "ended" /\ firstStart /\ ~approved => ~fileExists
=============================================================================
