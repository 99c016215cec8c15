------------------------------- MODULE Desktop -------------------------------
(***************************************************************************)
(* What the worker lives in: windows, the shell's flyouts, Explorer and    *)
(* its taskbars, and the notifications Windows queues for the worker when  *)
(* they change.  None of it is code of the repository; it is modelled from *)
(* how TaskbarAttributeWorker subscribes to it and queries it.             *)
(*                                                                         *)
(* Notifications reach the worker through three queues:                    *)
(*   sent    messages sent to its window (received whenever its thread     *)
(*           waits in SendMessage or in a call to another apartment);      *)
(*   events  out-of-context WinEvents (received whenever it pumps);        *)
(*   posted  posted messages (received by the main message loop only).     *)
(***************************************************************************)
EXTENDS DynamicModes, Sequences

CONSTANTS
  Bars,          \* HWNDs of taskbars, over time
  NoBar,
  Primary,       \* the monitor of the main taskbar
  Inputs,        \* the kinds of change this instance explores
  MaxChanges,    \* bound: changes of the desktop in a behaviour
  MaxQueue,      \* bound: length of each queue
  PickedModes,   \* bound: the modes whose colour is previewed
  InitialDesks   \* where the windows may be when the worker starts

Placements == [mon : Monitors, size : {"max", "normal", "min"}, shown : BOOLEAN]

ASSUME DesktopAssumption ==
  /\ NoBar \notin Bars
  /\ Primary \in Monitors
  /\ MaxChanges \in Nat /\ MaxQueue \in Nat
  /\ PickedModes \subseteq Modes
  /\ InitialDesks \subseteq [Windows -> Placements]

VARIABLES
  desk,       \* placement of every window
  present,    \* the windows that exist
  above,      \* z-order: <<v, w>> is in it when v is above w
  front,      \* the foreground window
  open,       \* the flyouts the shell shows
  taskView,   \* whether Task View is on screen
  flyoutMon,  \* the monitor the flyout's window is on
  saver,      \* whether battery saver is on
  bars,       \* the taskbar on each monitor, if any
  explorer,   \* [pid, ready]: Explorer's process, and whether it has loaded
              \* enough to tell which kind of taskbar it has
  sent, events, posted,
  changes     \* how many changes have been made (bounded by MaxChanges)

world == <<desk, present, above, front, open, taskView, flyoutMon, saver, bars, explorer>>
queues == <<sent, events, posted>>
desktopVars == <<desk, present, above, front, open, taskView, flyoutMon, saver, bars, explorer, sent, events, posted, changes>>

SentMessage ==
       [kind : {"displayChange", "settingChange"}]
  \cup [kind : {"power"}, on : BOOLEAN]
  \cup [kind : {"requestRefresh"}, bar : Bars]
  \cup [kind : {"preview"}, mode : Modes]

WinEvent ==
       [kind : {"changed", "hidden", "destroyed", "reorder"}, win : Windows]
  \cup [kind : {"foreground"}, win : Windows \cup {Flyout, NoWindow}]
  \cup [kind : {"barCreated", "barDestroyed"}, bar : Bars]
  \cup [kind : {"peek"}, on : BOOLEAN]

PostedMessage ==
       [kind : {"flyout"}, flyout : Flyouts, on : BOOLEAN]
  \cup [kind : {"taskView"}, on : BOOLEAN]
  \cup [kind : {"settingChange"}]

DesktopTypeOK ==
  /\ desk \in [Windows -> Placements]
  /\ present \subseteq Windows
  /\ above \subseteq Windows \X Windows
  /\ front \in Windows \cup {Flyout, NoWindow}
  /\ open \subseteq Flyouts
  /\ taskView \in BOOLEAN
  /\ flyoutMon \in Monitors
  /\ saver \in BOOLEAN
  /\ bars \in [Monitors -> Bars \cup {NoBar}]
  /\ explorer \in [pid : Nat, ready : BOOLEAN]
  /\ sent \in Seq(SentMessage)
  /\ events \in Seq(WinEvent)
  /\ posted \in Seq(PostedMessage)
  /\ changes \in Nat

-----------------------------------------------------------------------------
(* What the worker can ask about the desktop. *)

(* Window::valid *)
Valid(w) == w \in present \cup {Flyout}

(* Window::monitor: MONITOR_DEFAULTTONULL, so a dead window is nowhere. *)
MonitorOf(w) == IF w = Flyout THEN flyoutMon
                ELSE IF w \in present THEN desk[w].mon ELSE NoMonitor

(* The part of Window::is_user_window that is computed before asking the   *)
(* virtual desktop manager: valid, visible, not cloaked, top-level.        *)
LooksLikeUserWindow(w) == w \in present /\ desk[w].shown

(* The highest window of S in the z-order: what walking                    *)
(* DesktopWindow().get_ordered_childrens() meets first.                    *)
Highest(S) == {w \in S \cap present : \A v \in (S \cap present) \ {w} : <<w, v>> \in above}
HighestOf(S) == IF Highest(S) = {} THEN NoWindow ELSE CHOOSE w \in Highest(S) : TRUE

(* FindWindowIterator::operator ++ over all top-level windows: what        *)
(* FindWindowEx finds below w; nothing when w no longer exists.            *)
NextWindow(w) ==
  IF w = NoWindow THEN HighestOf(present)
  ELSE IF w \in present THEN HighestOf({v \in present : <<w, v>> \in above})
  ELSE NoWindow

-----------------------------------------------------------------------------
(* The worker starts on a desktop where nothing is queued for it. *)
DesktopInit ==
  /\ desk \in InitialDesks
  /\ present = {w \in Windows : desk[w].shown}
  /\ above \in {order \in SUBSET (present \X present) :
       \A v, w \in present :
         /\ <<v, w>> \in order <=> (v # w /\ <<w, v>> \notin order)
         /\ \A u \in present : <<u, v>> \in order /\ <<v, w>> \in order => <<u, w>> \in order}
  /\ front = NoWindow
  /\ open = {}
  /\ taskView = FALSE
  /\ flyoutMon = Primary
  /\ saver = FALSE
  /\ \E b \in Bars : bars = [m \in Monitors |-> IF m = Primary THEN b ELSE NoBar]
  /\ explorer = [pid |-> 1, ready |-> TRUE]
  /\ sent = <<>> /\ events = <<>> /\ posted = <<>>
  /\ changes = 0

-----------------------------------------------------------------------------
(* The desktop changes.  Each change queues the notifications Windows      *)
(* raises for it.                                                          *)

Queue(s, messages) == s \o messages

Change(input) == input \in Inputs /\ changes < MaxChanges /\ changes' = changes + 1

Raise(w) == {p \in above : p[2] # w} \cup {<<w, v>> : v \in present \ {w}}

RaiseEvents(messages) ==
  /\ Len(events) + Len(messages) <= MaxQueue
  /\ events' = Queue(events, messages)
  /\ UNCHANGED <<sent, posted>>

Send(message) ==
  /\ Len(sent) < MaxQueue
  /\ sent' = Queue(sent, <<message>>)
  /\ UNCHANGED <<events, posted>>

(* A window that goes away is no longer the foreground window: the event   *)
(* it raises itself is followed by that of the change of foreground.       *)
GoAway(w, event) ==
  /\ front' = IF front = w THEN NoWindow ELSE front
  /\ RaiseEvents(<<event>> \o IF front = w THEN <<[kind |-> "foreground", win |-> NoWindow]>> ELSE <<>>)

(* A window is moved, resized, maximised or restored. *)
PlaceWindow(w, mon, size) ==
  /\ Change("place")
  /\ w \in present /\ <<desk[w].mon, desk[w].size>> # <<mon, size>>
  /\ desk' = [desk EXCEPT ![w].mon = mon, ![w].size = size]
  /\ RaiseEvents(<<[kind |-> "changed", win |-> w]>>)
  /\ UNCHANGED <<present, above, front, open, taskView, flyoutMon, saver, bars, explorer>>

MinimiseWindow(w) ==
  /\ Change("place")
  /\ w \in present /\ desk[w].size # "min"
  /\ desk' = [desk EXCEPT ![w].size = "min"]
  /\ GoAway(w, [kind |-> "hidden", win |-> w])
  /\ UNCHANGED <<present, above, open, taskView, flyoutMon, saver, bars, explorer>>

(* A window is shown or uncloaked, hidden or cloaked. *)
ShowWindow(w) ==
  /\ Change("show")
  /\ w \in present /\ ~desk[w].shown
  /\ desk' = [desk EXCEPT ![w].shown = TRUE]
  /\ RaiseEvents(<<[kind |-> "changed", win |-> w]>>)
  /\ UNCHANGED <<present, above, front, open, taskView, flyoutMon, saver, bars, explorer>>

HideWindow(w) ==
  /\ Change("show")
  /\ w \in present /\ desk[w].shown
  /\ desk' = [desk EXCEPT ![w].shown = FALSE]
  /\ GoAway(w, [kind |-> "hidden", win |-> w])
  /\ UNCHANGED <<present, above, open, taskView, flyoutMon, saver, bars, explorer>>

(* A handle is not reused: of a window that does not exist, desk only      *)
(* tells whether it ever did.                                              *)
CreateWindow(w, mon) ==
  /\ Change("create")
  /\ w \notin present /\ ~desk[w].shown
  /\ present' = present \cup {w}
  /\ above' = above \cup {<<w, v>> : v \in present}
  /\ desk' = [desk EXCEPT ![w] = [mon |-> mon, size |-> "normal", shown |-> TRUE]]
  /\ RaiseEvents(<<[kind |-> "changed", win |-> w]>>)
  /\ UNCHANGED <<front, open, taskView, flyoutMon, saver, bars, explorer>>

DestroyWindow(w) ==
  /\ Change("destroy")
  /\ w \in present
  /\ present' = present \ {w}
  /\ desk' = [desk EXCEPT ![w].shown = TRUE]
  /\ above' = {p \in above : w \notin {p[1], p[2]}}
  /\ GoAway(w, [kind |-> "destroyed", win |-> w])
  /\ UNCHANGED <<open, taskView, flyoutMon, saver, bars, explorer>>

(* The user clicks on a window: it comes to the top and to the foreground. *)
ActivateWindow(w) ==
  /\ Change("activate")
  /\ w \in present /\ front # w /\ open = {}
  /\ desk[w].shown /\ desk[w].size # "min"
  /\ above' = Raise(w)
  /\ front' = w
  /\ RaiseEvents(<<[kind |-> "foreground", win |-> w], [kind |-> "reorder", win |-> w]>>)
  /\ UNCHANGED <<desk, present, open, taskView, flyoutMon, saver, bars, explorer>>

(* Start, Search or Find in Start (which Windows 10 does not have) opens   *)
(* on a monitor, and is then the foreground window until it closes.        *)
OpenFlyout(f, mon) ==
  /\ Change("flyout")
  /\ f = "find" => IsWindows11
  /\ f \notin open /\ (open # {} => mon = flyoutMon)
  /\ Len(posted) < MaxQueue /\ Len(events) < MaxQueue
  /\ open' = open \cup {f}
  /\ front' = Flyout
  /\ flyoutMon' = mon
  /\ posted' = Queue(posted, <<[kind |-> "flyout", flyout |-> f, on |-> TRUE]>>)
  /\ events' = IF front = Flyout THEN events
               ELSE Queue(events, <<[kind |-> "foreground", win |-> Flyout]>>)
  /\ UNCHANGED <<desk, present, above, taskView, saver, bars, explorer, sent>>

(* When the last flyout closes another window becomes the foreground. *)
CloseFlyout(f, w) ==
  /\ Change("flyout")
  /\ f \in open
  /\ w # NoWindow => desk[w].shown /\ desk[w].size # "min"
  /\ Len(posted) < MaxQueue /\ Len(events) < MaxQueue
  /\ open' = open \ {f}
  /\ front' = IF open' = {} THEN w ELSE front
  /\ posted' = Queue(posted, <<[kind |-> "flyout", flyout |-> f, on |-> FALSE]>>)
  /\ events' = IF open' = {}
               THEN Queue(events, <<[kind |-> "foreground", win |-> w]>>) ELSE events
  /\ UNCHANGED <<desk, present, above, taskView, flyoutMon, saver, bars, explorer, sent>>

SwitchTaskView(on) ==
  /\ Change("taskView")
  /\ Len(posted) < MaxQueue
  /\ on # taskView
  /\ taskView' = on
  /\ posted' = Queue(posted, <<[kind |-> "taskView", on |-> on]>>)
  /\ UNCHANGED <<desk, present, above, front, open, flyoutMon, saver, bars, explorer, sent, events>>

ToggleBatterySaver ==
  /\ Change("saver")
  /\ saver' = ~saver
  /\ Send([kind |-> "power", on |-> saver'])
  /\ UNCHANGED <<desk, present, above, front, open, taskView, flyoutMon, bars, explorer>>

AeroPeek(on) ==
  /\ Change("peek")
  /\ RaiseEvents(<<[kind |-> "peek", on |-> on]>>)
  /\ UNCHANGED world

(* Taskbar handles are not reused while anybody may still mean the old     *)
(* taskbar by them (the worker's side of this is in TaskbarWorker).        *)
Fresh(b) ==
  /\ \A n \in Monitors : bars[n] # b
  /\ \A i \in DOMAIN events : "bar" \in DOMAIN events[i] => events[i].bar # b
  /\ \A i \in DOMAIN sent : "bar" \in DOMAIN sent[i] => sent[i].bar # b

(* A secondary monitor is plugged in or out: its taskbar comes or goes. *)
ChangeDisplays(m, b) ==
  /\ Change("display")
  /\ m # Primary /\ bars[Primary] # NoBar
  /\ (bars[m] = NoBar) # (b = NoBar)
  /\ b # NoBar => Fresh(b)
  /\ Len(sent) < MaxQueue /\ Len(events) < MaxQueue
  /\ bars' = [bars EXCEPT ![m] = b]
  /\ sent' = Queue(sent, <<[kind |-> "displayChange"]>>)
  /\ events' = Queue(events, <<IF b = NoBar THEN [kind |-> "barDestroyed", bar |-> bars[m]]
                                           ELSE [kind |-> "barCreated", bar |-> b]>>)
  /\ UNCHANGED <<desk, present, above, front, open, taskView, flyoutMon, saver, explorer, posted>>

(* WM_SETTINGCHANGE with SPI_SETWORKAREA. *)
ChangeWorkArea ==
  /\ Change("workArea")
  /\ Send([kind |-> "settingChange"])
  /\ UNCHANGED world

(* TTB_ApplyColorPreview sent by another process. *)
PreviewFromOutside(mode) ==
  /\ Change("preview")
  /\ Send([kind |-> "preview", mode |-> mode])
  /\ UNCHANGED world

(* Explorer repaints a taskbar; the hook in it asks the worker first. *)
RepaintTaskbar(b) ==
  /\ Change("repaint")
  /\ b \in {bars[n] : n \in Monitors} \ {NoBar}
  /\ Send([kind |-> "requestRefresh", bar |-> b])
  /\ UNCHANGED world

(* Its taskbars go with it; the events of the secondary ones, which repeat *)
(* that of the main one, are left out.                                     *)
ExplorerDies ==
  /\ Change("explorer")
  /\ bars[Primary] # NoBar
  /\ Len(events) < MaxQueue
  /\ bars' = [m \in Monitors |-> NoBar]
  /\ explorer' = [explorer EXCEPT !.ready = FALSE]
  /\ events' = Queue(events, <<[kind |-> "barDestroyed", bar |-> bars[Primary]]>>)
  /\ UNCHANGED <<desk, present, above, front, open, taskView, flyoutMon, saver, sent, posted>>

(* The new Explorer creates its taskbar and broadcasts TaskbarCreated,     *)
(* possibly before it has loaded enough for its kind to be seen.  It       *)
(* counts as one change with the death of the old one.                     *)
ExplorerStarts(b, ready) ==
  /\ bars[Primary] = NoBar /\ Fresh(b)
  /\ Len(sent) < MaxQueue /\ Len(events) < MaxQueue
  /\ bars' = [bars EXCEPT ![Primary] = b]
  /\ explorer' = [pid |-> explorer.pid + 1, ready |-> ready]
  /\ events' = Queue(events, <<[kind |-> "barCreated", bar |-> b]>>)
  /\ sent' = Queue(sent, <<[kind |-> "displayChange"]>>)
  /\ UNCHANGED <<desk, present, above, front, open, taskView, flyoutMon, saver, posted, changes>>

(* The rest of Explorer loads; the work area changes as it does. *)
ExplorerReady ==
  /\ bars[Primary] # NoBar /\ ~explorer.ready
  /\ explorer' = [explorer EXCEPT !.ready = TRUE]
  /\ Send([kind |-> "settingChange"])
  /\ UNCHANGED <<desk, present, above, front, open, taskView, flyoutMon, saver, bars, changes>>
=============================================================================
