------------------------- MODULE TaskbarWorkerProofs -------------------------
(***************************************************************************)
(* Theorems about TaskbarWorker, for any number of windows, monitors,      *)
(* taskbars and changes, and any depth of the call stack.                  *)
(***************************************************************************)
EXTENDS TaskbarWorker, SequenceTheorems, TLAPS

-----------------------------------------------------------------------------
(* The call stack. *)

LEMMA PushType ==
  ASSUME NEW s \in Seq(Frame), NEW f \in Frame
  PROVE  <<f>> \o s \in Seq(Frame)
<1>1. <<f>> \in Seq(Frame)
  OBVIOUS
<1> QED
  BY <1>1, ConcatProperties

LEMMA RefreshingType ==
  ASSUME NEW s \in Seq(Frame), NEW todo \in SUBSET Monitors
  PROVE  Refreshing(todo) \o s \in Seq(Frame)
<1>1. [at |-> "refreshing", todo |-> todo] \in Frame
  BY DEF Frame
<1>2. Refreshing(todo) \in Seq(Frame)
  BY <1>1 DEF Refreshing
<1> QED
  BY <1>2, ConcatProperties

LEMMA TopType ==
  ASSUME stack \in Seq(Frame), stack # <<>>
  PROVE  Top \in Frame /\ Tail(stack) \in Seq(Frame)
BY HeadTailProperties DEF Top

(* What a frame holds, by the place it waits in. *)
LEMMA FrameFields ==
  ASSUME NEW f \in Frame
  PROVE  /\ f.at = "inserting" => f.win \in Windows /\ f.refresh \in BOOLEAN
         /\ f.at \in {"refreshing", "line", "attribute"} => f.todo \subseteq Monitors
         /\ f.at = "attribute" => f.mon \in Monitors /\ f.bar \in Bars /\ f.look \in Looks
         /\ f.at \in ResetPlaces => f.manual \in BOOLEAN
         /\ f.at \in {"injecting", "arming"} => f.main \in Bars \cup {NoBar}
         /\ f.at = "asking" => f.about \in Questions /\ f.opened \in BOOLEAN
         /\ f.at = "enumerating" => f.last \in Windows \cup {NoWindow}
BY DEF Frame, ResetPlaces

-----------------------------------------------------------------------------
(* The operators the actions are built from. *)

LEMMA MonitorOfType ==
  ASSUME DesktopTypeOK, NEW w
  PROVE  MonitorOf(w) \in Monitors \cup {NoMonitor}
BY DEF DesktopTypeOK, MonitorOf, Placements

LEMMA HighestOfType ==
  ASSUME DesktopTypeOK, NEW S
  PROVE  HighestOf(S) \in Windows \cup {NoWindow}
BY DEF DesktopTypeOK, HighestOf, Highest

LEMMA NextWindowType ==
  ASSUME DesktopTypeOK, NEW w
  PROVE  NextWindow(w) \in Windows \cup {NoWindow}
BY HighestOfType DEF NextWindow

LEMMA WithPreviewType ==
  ASSUME NEW c \in ConfigType, NEW p, NEW mode \in Modes
  PROVE  WithPreview(c, p, mode) \in Looks
<1>1. c.look[mode] \in Looks
  BY DEF ConfigType
<1>2. [c.look[mode] EXCEPT !.colour = PreviewColour] \in Looks
  BY <1>1, NamesAssumption DEF Looks
<1> QED
  BY <1>1, <1>2 DEF WithPreview

(* Whatever the dynamic modes and the rules say, the outcome is a look one *)
(* can configure.                                                          *)
LEMMA ModeLookType ==
  ASSUME NEW c \in ConfigType, NEW p, NEW sh \in ShellType, NEW sets \in SetsType,
         NEW m, NEW view
  PROVE  ModeLook(c, p, sh, sets, m, view) \in Looks
<1>1. \A mode \in Modes : WithPreview(c, p, mode) \in Looks
  BY WithPreviewType
<1>2. {"Desktop", "VisibleWindow", "MaximisedWindow", "StartOpened",
       "SearchOpened", "TaskViewOpened", "BatterySaver"} \subseteq Modes
  BY DEF Modes
<1>3. ASSUME NEW rules \in [Windows -> Rules \cup {NoRule}], NEW w, HasRule(rules, w), NEW active
      PROVE  FindRule(rules, w, active) \in Looks
  BY <1>3 DEF FindRule, HasRule, Rules
<1>4. MaximisedLook(c, p, view) \in Looks
  BY <1>1, <1>2, <1>3 DEF MaximisedLook, ConfigType
<1>5. VisibleLook(c, p, sh, sets, view) \in Looks
  BY <1>1, <1>2, <1>3 DEF VisibleLook, ConfigType
<1> QED
  BY <1>1, <1>2, <1>4, <1>5 DEF ModeLook

LEMMA GetConfigType ==
  ASSUME TypeOK, NEW m \in Monitors
  PROVE  GetConfig(m) \in Looks
<1>1. config \in ConfigType /\ shell \in ShellType /\ tracked[m] \in SetsType
  BY WorkerAssumption DEF TypeOK, WorkerTypeOK
<1> QED
  BY <1>1, ModeLookType DEF GetConfig

LEMMA PaintedType ==
  ASSUME TypeOK, NEW m \in Monitors, NEW b, NEW c \in Colours \cup {Stock}
  PROVE  Painted(m, b, c) \in [Monitors -> Colours \cup {Stock}]
BY DEF Painted, TypeOK, WorkerTypeOK

LEMMA AskType ==
  ASSUME TypeOK, NEW manual \in BOOLEAN, NEW q \in Questions
  PROVE  Ask(manual, q) \in Frame /\ Ask(manual, q).at = "asking"
<1> DEFINE answer == IsOpened(q)
<1>1. answer \in BOOLEAN
  BY DEF IsOpened, TypeOK, DesktopTypeOK
<1> HIDE DEF answer
<1>2. [at |-> "asking", manual |-> manual, about |-> q, opened |-> answer] \in Frame
  BY <1>1 DEF Frame
<1> QED
  BY <1>2 DEF Ask, answer

LEMMA SetAttributeType ==
  ASSUME TypeOK, NEW m \in Known, NEW look \in Looks, SetAttribute(m, look)
  PROVE  /\ normalTaskbars' \subseteq Bars
         /\ shown' \in [Monitors -> Colours \cup {Stock}]
<1>1. m \in Monitors /\ taskbars[m] \in Bars
  BY DEF Known, TypeOK, WorkerTypeOK
<1>2. look.colour \in Colours
  BY DEF Looks
<1> QED
  BY <1>1, <1>2, PaintedType DEF SetAttribute, TypeOK, WorkerTypeOK

LEMMA UpdateTrackedType ==
  ASSUME TypeOK, NEW w \in Windows, NEW matches, NEW refresh, NEW base \in Seq(Frame),
         UpdateTracked(w, matches, refresh, base)
  PROVE  tracked' \in [Monitors -> SetsType] /\ stack' \in Seq(Frame)
<1>1. \A m \in Monitors : tracked[m].max \subseteq Windows /\ tracked[m].normal \subseteq Windows
  BY DEF TypeOK, WorkerTypeOK, SetsType
<1>2. tracked' \in [Monitors -> SetsType]
  BY <1>1 DEF UpdateTracked, SetsType
<1>3. Known \subseteq Monitors
  BY DEF Known
<1>4. PICK todo \in SUBSET Monitors : stack' = Refreshing(todo) \o base
  BY <1>3 DEF UpdateTracked
<1> QED
  BY <1>2, <1>4, RefreshingType

LEMMA InsertWindowType ==
  ASSUME TypeOK, NEW w \in Windows \cup {Flyout}, NEW refresh \in BOOLEAN, NEW base \in Seq(Frame),
         InsertWindow(w, refresh, base)
  PROVE  tracked' \in [Monitors -> SetsType] /\ stack' \in Seq(Frame)
<1>1. CASE w = Flyout
  BY <1>1 DEF InsertWindow, TypeOK, WorkerTypeOK
<1>2. CASE w # Flyout /\ LooksLikeUserWindow(w)
  <2>1. [at |-> "inserting", win |-> w, refresh |-> refresh] \in Frame
    BY <1>2 DEF Frame
  <2> QED
    BY <1>2, <2>1, PushType DEF InsertWindow, TypeOK, WorkerTypeOK
<1>3. CASE w # Flyout /\ ~LooksLikeUserWindow(w)
  BY <1>3, UpdateTrackedType DEF InsertWindow
<1> QED
  BY <1>1, <1>2, <1>3

LEMMA BeginResetType ==
  ASSUME NEW manual \in BOOLEAN, NEW base \in Seq(Frame), service \in BOOLEAN,
         BeginReset(manual, base)
  PROVE  /\ shell' \in ShellType
         /\ taskbars' \in [Monitors -> Bars \cup {NoBar}]
         /\ tracked' \in [Monitors -> SetsType]
         /\ normalTaskbars' \subseteq Bars
         /\ service' \in BOOLEAN /\ resetting' \in BOOLEAN /\ reentered' \in BOOLEAN
         /\ stack' \in Seq(Frame)
<1>1. [at |-> "clearing", manual |-> manual, waits |-> service] \in Frame
  BY DEF Frame
<1>2. ClearedShell \in ShellType
  BY DEF ClearedShell, ShellType
<1>3. NoSets \in SetsType
  BY DEF NoSets, SetsType
<1> QED
  BY <1>1, <1>2, <1>3, PushType DEF BeginReset

LEMMA ResetStateType ==
  ASSUME TypeOK, NEW manual \in BOOLEAN, ResetState(manual), UNCHANGED <<exit, screen>>
  PROVE  WorkerTypeOK'
<1>1. stack \in Seq(Frame)
  BY DEF TypeOK, WorkerTypeOK
<1>2. CASE resetting
  BY <1>2 DEF ResetState, TypeOK, WorkerTypeOK, screen
<1>3. CASE ~resetting
  <2>1. BeginReset(manual, stack)
    BY <1>3 DEF ResetState
  <2> QED
    BY <1>1, <2>1, BeginResetType DEF ResetState, TypeOK, WorkerTypeOK, screen
<1> QED
  BY <1>2, <1>3

-----------------------------------------------------------------------------
(* The queues. *)

LEMMA MessageFields ==
  ASSUME DesktopTypeOK
  PROVE  /\ events # <<>> => Head(events) \in WinEvent /\ Tail(events) \in Seq(WinEvent)
         /\ sent # <<>> => Head(sent) \in SentMessage /\ Tail(sent) \in Seq(SentMessage)
         /\ posted # <<>> => Head(posted) \in PostedMessage /\ Tail(posted) \in Seq(PostedMessage)
BY HeadTailProperties DEF DesktopTypeOK

LEMMA EventFields ==
  ASSUME NEW e \in WinEvent
  PROVE  /\ e.kind \in {"changed", "hidden", "destroyed", "reorder"} => e.win \in Windows
         /\ e.kind = "foreground" => e.win \in Windows \cup {Flyout, NoWindow}
         /\ e.kind \in {"barCreated", "barDestroyed"} => e.bar \in Bars
         /\ e.kind = "peek" => e.on \in BOOLEAN
BY DEF WinEvent

LEMMA SentFields ==
  ASSUME NEW e \in SentMessage
  PROVE  /\ e.kind = "power" => e.on \in BOOLEAN
         /\ e.kind = "requestRefresh" => e.bar \in Bars
         /\ e.kind = "preview" => e.mode \in Modes
BY DEF SentMessage

LEMMA PostedFields ==
  ASSUME NEW e \in PostedMessage
  PROVE  /\ e.kind = "flyout" => e.flyout \in Flyouts /\ e.on \in BOOLEAN
         /\ e.kind = "taskView" => e.on \in BOOLEAN
BY DEF PostedMessage

(* Taking a message off its queue leaves a typed desktop. *)
LEMMA NextEventType ==
  ASSUME DesktopTypeOK, NEW kinds, NextEvent(kinds)
  PROVE  DesktopTypeOK' /\ Head(events) \in WinEvent
BY MessageFields DEF DesktopTypeOK, NextEvent, world

LEMMA NextSentType ==
  ASSUME DesktopTypeOK, NEW kinds, NextSent(kinds), posted' \in Seq(PostedMessage)
  PROVE  DesktopTypeOK' /\ Head(sent) \in SentMessage
BY MessageFields DEF DesktopTypeOK, NextSent, world

LEMMA NextPostedType ==
  ASSUME DesktopTypeOK, NEW kinds, NextPosted(kinds)
  PROVE  DesktopTypeOK' /\ Head(posted) \in PostedMessage
BY MessageFields DEF DesktopTypeOK, NextPosted, world

LEMMA RaiseEventsType ==
  ASSUME DesktopTypeOK, NEW messages \in Seq(WinEvent), RaiseEvents(messages)
  PROVE  events' \in Seq(WinEvent) /\ UNCHANGED <<sent, posted>>
BY ConcatProperties DEF DesktopTypeOK, RaiseEvents, Queue

LEMMA SendType ==
  ASSUME DesktopTypeOK, NEW message \in SentMessage, Send(message)
  PROVE  sent' \in Seq(SentMessage) /\ UNCHANGED <<events, posted>>
<1>1. <<message>> \in Seq(SentMessage)
  OBVIOUS
<1> QED
  BY <1>1, ConcatProperties DEF DesktopTypeOK, Send, Queue

LEMMA QueueEventType ==
  ASSUME DesktopTypeOK, NEW e \in WinEvent
  PROVE  Queue(events, <<e>>) \in Seq(WinEvent)
<1>1. <<e>> \in Seq(WinEvent)
  OBVIOUS
<1> QED
  BY <1>1, ConcatProperties DEF DesktopTypeOK, Queue

LEMMA QueueSentType ==
  ASSUME DesktopTypeOK, NEW e \in SentMessage
  PROVE  Queue(sent, <<e>>) \in Seq(SentMessage)
<1>1. <<e>> \in Seq(SentMessage)
  OBVIOUS
<1> QED
  BY <1>1, ConcatProperties DEF DesktopTypeOK, Queue

LEMMA QueuePostedType ==
  ASSUME DesktopTypeOK, NEW e \in PostedMessage
  PROVE  Queue(posted, <<e>>) \in Seq(PostedMessage)
<1>1. <<e>> \in Seq(PostedMessage)
  OBVIOUS
<1> QED
  BY <1>1, ConcatProperties DEF DesktopTypeOK, Queue

-----------------------------------------------------------------------------
(* The desktop's own changes. *)

LEMMA ChangeType ==
  ASSUME DesktopTypeOK, NEW input, Change(input)
  PROVE  changes' \in Nat
BY DEF DesktopTypeOK, Change

LEMMA GoAwayType ==
  ASSUME DesktopTypeOK, NEW w \in Windows, NEW k \in {"hidden", "destroyed"},
         GoAway(w, [kind |-> k, win |-> w])
  PROVE  /\ events' \in Seq(WinEvent) /\ UNCHANGED <<sent, posted>>
         /\ front' \in Windows \cup {Flyout, NoWindow}
<1>1. <<[kind |-> k, win |-> w]>> \in Seq(WinEvent)
  BY DEF WinEvent
<1>2. <<[kind |-> "foreground", win |-> NoWindow]>> \in Seq(WinEvent)
  BY DEF WinEvent
<1>3. <<[kind |-> k, win |-> w]>>
      \o (IF front = w THEN <<[kind |-> "foreground", win |-> NoWindow]>> ELSE <<>>) \in Seq(WinEvent)
  BY <1>1, <1>2, ConcatProperties
<1>4. events' \in Seq(WinEvent) /\ UNCHANGED <<sent, posted>>
  BY <1>3, RaiseEventsType DEF GoAway
<1> QED
  BY <1>4 DEF GoAway, DesktopTypeOK

LEMMA WindowChangesType ==
  ASSUME DesktopTypeOK, NEW w \in Windows,
         \/ \E m \in Monitors, size \in {"max", "normal"} : PlaceWindow(w, m, size)
         \/ MinimiseWindow(w) \/ ShowWindow(w) \/ HideWindow(w)
         \/ \E m \in Monitors : CreateWindow(w, m)
         \/ DestroyWindow(w)
         \/ ActivateWindow(w)
  PROVE  DesktopTypeOK'
<1>1. \A k \in {"changed", "hidden", "destroyed", "reorder"} :
        /\ [kind |-> k, win |-> w] \in WinEvent
        /\ <<[kind |-> k, win |-> w]>> \in Seq(WinEvent)
  BY DEF WinEvent
<1>2. \A v \in {w, NoWindow} :
        /\ [kind |-> "foreground", win |-> v] \in WinEvent
        /\ <<[kind |-> "foreground", win |-> v]>> \in Seq(WinEvent)
  BY DEF WinEvent
<1>3. changes \in Nat /\ desk \in [Windows -> Placements] /\ desk[w] \in Placements
  BY DEF DesktopTypeOK
<1>4. ASSUME NEW m \in Monitors, NEW size \in {"max", "normal"}, PlaceWindow(w, m, size)
      PROVE  DesktopTypeOK'
  <2>1. desk' \in [Windows -> Placements]
    BY <1>3, <1>4 DEF PlaceWindow, Placements
  <2>2. events' \in Seq(WinEvent) /\ UNCHANGED <<sent, posted>>
    BY <1>1, <1>4, RaiseEventsType DEF PlaceWindow
  <2>3. changes' \in Nat
    BY <1>4, ChangeType DEF PlaceWindow
  <2>4. UNCHANGED <<present, above, front, open, taskView, flyoutMon, saver, bars, explorer>>
    BY <1>4 DEF PlaceWindow
  <2> QED
    BY <2>1, <2>2, <2>3, <2>4 DEF DesktopTypeOK
<1>5. CASE MinimiseWindow(w) \/ HideWindow(w)
  <2>1. desk' \in [Windows -> Placements]
    <3>1. CASE MinimiseWindow(w)
      BY <1>3, <3>1 DEF MinimiseWindow, Placements
    <3>2. CASE HideWindow(w)
      BY <1>3, <3>2 DEF HideWindow, Placements
    <3> QED
      BY <1>5, <3>1, <3>2
  <2>2. /\ events' \in Seq(WinEvent) /\ UNCHANGED <<sent, posted>>
        /\ front' \in Windows \cup {Flyout, NoWindow}
    BY <1>5, GoAwayType DEF MinimiseWindow, HideWindow
  <2> QED
    BY <1>3, <1>5, <2>1, <2>2 DEF MinimiseWindow, HideWindow, Change, DesktopTypeOK
<1>9. CASE ShowWindow(w)
  <2>1. desk' \in [Windows -> Placements]
    BY <1>3, <1>9 DEF ShowWindow, Placements
  <2>2. events' \in Seq(WinEvent) /\ UNCHANGED <<sent, posted>>
    BY <1>1, <1>9, RaiseEventsType DEF ShowWindow
  <2> QED
    BY <1>3, <1>9, <2>1, <2>2 DEF ShowWindow, Change, DesktopTypeOK
<1>6. ASSUME NEW m \in Monitors, CreateWindow(w, m)
      PROVE  DesktopTypeOK'
  <2>1. desk' \in [Windows -> Placements]
    BY <1>3, <1>6 DEF CreateWindow, Placements
  <2>2. events' \in Seq(WinEvent) /\ UNCHANGED <<sent, posted>>
    BY <1>1, <1>6, RaiseEventsType DEF CreateWindow
  <2> QED
    BY <1>3, <1>6, <2>1, <2>2 DEF CreateWindow, Change, DesktopTypeOK
<1>7. CASE DestroyWindow(w)
  <2>1. desk' \in [Windows -> Placements]
    BY <1>3, <1>7 DEF DestroyWindow, Placements
  <2>2. /\ events' \in Seq(WinEvent) /\ UNCHANGED <<sent, posted>>
        /\ front' \in Windows \cup {Flyout, NoWindow}
    BY <1>7, GoAwayType DEF DestroyWindow
  <2> QED
    BY <1>3, <1>7, <2>1, <2>2 DEF DestroyWindow, Change, DesktopTypeOK
<1>8. CASE ActivateWindow(w)
  <2>1. <<[kind |-> "foreground", win |-> w], [kind |-> "reorder", win |-> w]>> \in Seq(WinEvent)
    BY <1>1, <1>2
  <2>2. events' \in Seq(WinEvent) /\ UNCHANGED <<sent, posted>>
    BY <1>8, <2>1, RaiseEventsType DEF ActivateWindow
  <2>3. above' \subseteq Windows \X Windows
    BY <1>8 DEF ActivateWindow, Raise, DesktopTypeOK
  <2> QED
    BY <1>3, <1>8, <2>2, <2>3 DEF ActivateWindow, Change, DesktopTypeOK
<1> QED
  BY <1>4, <1>5, <1>6, <1>7, <1>8, <1>9

LEMMA ShellChangesType ==
  ASSUME DesktopTypeOK,
         \/ \E f \in Flyouts : \/ \E m \in Monitors : OpenFlyout(f, m)
                              \/ \E w \in present \cup {NoWindow} : CloseFlyout(f, w)
         \/ ToggleBatterySaver
         \/ \E on \in BOOLEAN : SwitchTaskView(on) \/ AeroPeek(on)
  PROVE  DesktopTypeOK'
<1>1. \A w \in Windows \cup {Flyout, NoWindow} : [kind |-> "foreground", win |-> w] \in WinEvent
  BY DEF WinEvent
<1>2. \A f \in Flyouts, on \in BOOLEAN : [kind |-> "flyout", flyout |-> f, on |-> on] \in PostedMessage
  BY DEF PostedMessage
<1>3. changes \in Nat
  BY DEF DesktopTypeOK
<1>4. ASSUME NEW f \in Flyouts, NEW m \in Monitors, OpenFlyout(f, m)
      PROVE  DesktopTypeOK'
  <2>1. posted' \in Seq(PostedMessage)
    BY <1>2, <1>4, QueuePostedType DEF OpenFlyout
  <2>2. events' \in Seq(WinEvent)
    BY <1>1, <1>4, QueueEventType DEF OpenFlyout, DesktopTypeOK
  <2> QED
    BY <1>3, <1>4, <2>1, <2>2 DEF OpenFlyout, Change, DesktopTypeOK
<1>5. ASSUME NEW f \in Flyouts, NEW w \in present \cup {NoWindow}, CloseFlyout(f, w)
      PROVE  DesktopTypeOK'
  <2>1. posted' \in Seq(PostedMessage)
    BY <1>2, <1>5, QueuePostedType DEF CloseFlyout
  <2>2. w \in Windows \cup {Flyout, NoWindow}
    BY DEF DesktopTypeOK
  <2>3. events' \in Seq(WinEvent)
    BY <1>1, <1>5, <2>2, QueueEventType DEF CloseFlyout, DesktopTypeOK
  <2> QED
    BY <1>3, <1>5, <2>1, <2>2, <2>3 DEF CloseFlyout, Change, DesktopTypeOK
<1>6. ASSUME NEW on \in BOOLEAN, SwitchTaskView(on)
      PROVE  DesktopTypeOK'
  <2>1. [kind |-> "taskView", on |-> on] \in PostedMessage
    BY DEF PostedMessage
  <2>2. posted' \in Seq(PostedMessage)
    BY <1>6, <2>1, QueuePostedType DEF SwitchTaskView
  <2> QED
    BY <1>3, <1>6, <2>2 DEF SwitchTaskView, Change, DesktopTypeOK
<1>7. CASE ToggleBatterySaver
  <2>1. saver' \in BOOLEAN
    BY <1>7 DEF ToggleBatterySaver, DesktopTypeOK
  <2>2. [kind |-> "power", on |-> saver'] \in SentMessage
    BY <2>1 DEF SentMessage
  <2>3. sent' \in Seq(SentMessage) /\ UNCHANGED <<events, posted>>
    BY <1>7, <2>2, SendType DEF ToggleBatterySaver
  <2> QED
    BY <1>3, <1>7, <2>1, <2>3 DEF ToggleBatterySaver, Change, DesktopTypeOK
<1>8. ASSUME NEW on \in BOOLEAN, AeroPeek(on)
      PROVE  DesktopTypeOK'
  <2>1. <<[kind |-> "peek", on |-> on]>> \in Seq(WinEvent)
    BY DEF WinEvent
  <2>2. events' \in Seq(WinEvent) /\ UNCHANGED <<sent, posted>>
    BY <1>8, <2>1, RaiseEventsType DEF AeroPeek
  <2> QED
    BY <1>3, <1>8, <2>2 DEF AeroPeek, Change, DesktopTypeOK, world
<1> QED
  BY <1>4, <1>5, <1>6, <1>7, <1>8

LEMMA SystemChangesType ==
  ASSUME DesktopTypeOK,
         \/ \E m \in Monitors, b \in Bars \cup {NoBar} : ChangeDisplays(m, b)
         \/ ChangeWorkArea
         \/ \E mode \in PickedModes : PreviewFromOutside(mode)
         \/ \E b \in Bars : RepaintTaskbar(b)
         \/ ExplorerDies
         \/ \E b \in Bars, ready \in BOOLEAN : ExplorerStarts(b, ready)
         \/ ExplorerReady
  PROVE  DesktopTypeOK'
<1>1. \A k \in {"displayChange", "settingChange"} : [kind |-> k] \in SentMessage
  BY DEF SentMessage
<1>2. \A k \in {"barCreated", "barDestroyed"}, b \in Bars : [kind |-> k, bar |-> b] \in WinEvent
  BY DEF WinEvent
<1>3. changes \in Nat /\ bars \in [Monitors -> Bars \cup {NoBar}] /\ explorer \in [pid : Nat, ready : BOOLEAN]
  BY DEF DesktopTypeOK
<1>4. ASSUME NEW m \in Monitors, NEW b \in Bars \cup {NoBar}, ChangeDisplays(m, b)
      PROVE  DesktopTypeOK'
  <2>1. sent' \in Seq(SentMessage)
    BY <1>1, <1>4, QueueSentType DEF ChangeDisplays
  <2>2. events' \in Seq(WinEvent)
    BY <1>2, <1>3, <1>4, QueueEventType DEF ChangeDisplays
  <2>3. bars' \in [Monitors -> Bars \cup {NoBar}]
    BY <1>3, <1>4 DEF ChangeDisplays
  <2> QED
    BY <1>3, <1>4, <2>1, <2>2, <2>3 DEF ChangeDisplays, Change, DesktopTypeOK
<1>5. CASE ChangeWorkArea
  BY <1>1, <1>3, <1>5, SendType DEF ChangeWorkArea, Change, DesktopTypeOK, world
<1>6. ASSUME NEW mode \in PickedModes, PreviewFromOutside(mode)
      PROVE  DesktopTypeOK'
  <2>1. [kind |-> "preview", mode |-> mode] \in SentMessage
    BY DesktopAssumption DEF SentMessage
  <2> QED
    BY <1>3, <1>6, <2>1, SendType DEF PreviewFromOutside, Change, DesktopTypeOK, world
<1>7. ASSUME NEW b \in Bars, RepaintTaskbar(b)
      PROVE  DesktopTypeOK'
  <2>1. [kind |-> "requestRefresh", bar |-> b] \in SentMessage
    BY DEF SentMessage
  <2> QED
    BY <1>3, <1>7, <2>1, SendType DEF RepaintTaskbar, Change, DesktopTypeOK, world
<1>8. CASE ExplorerDies
  <2>1. bars[Primary] \in Bars
    BY <1>3, <1>8, DesktopAssumption DEF ExplorerDies
  <2>2. events' \in Seq(WinEvent)
    BY <1>2, <1>8, <2>1, QueueEventType DEF ExplorerDies
  <2>3. explorer' \in [pid : Nat, ready : BOOLEAN]
    BY <1>3, <1>8 DEF ExplorerDies
  <2> QED
    BY <1>3, <1>8, <2>2, <2>3 DEF ExplorerDies, Change, DesktopTypeOK
<1>9. ASSUME NEW b \in Bars, NEW ready \in BOOLEAN, ExplorerStarts(b, ready)
      PROVE  DesktopTypeOK'
  <2>1. events' \in Seq(WinEvent)
    BY <1>2, <1>9, QueueEventType DEF ExplorerStarts
  <2>2. sent' \in Seq(SentMessage)
    BY <1>1, <1>9, QueueSentType DEF ExplorerStarts
  <2>3. explorer' \in [pid : Nat, ready : BOOLEAN]
    BY <1>3, <1>9 DEF ExplorerStarts
  <2>4. bars' \in [Monitors -> Bars \cup {NoBar}]
    BY <1>3, <1>9 DEF ExplorerStarts
  <2> QED
    BY <1>3, <1>9, <2>1, <2>2, <2>3, <2>4 DEF ExplorerStarts, DesktopTypeOK
<1>10. CASE ExplorerReady
  <2>1. sent' \in Seq(SentMessage) /\ UNCHANGED <<events, posted>>
    BY <1>1, <1>10, SendType DEF ExplorerReady
  <2>2. explorer' \in [pid : Nat, ready : BOOLEAN]
    BY <1>3, <1>10 DEF ExplorerReady
  <2> QED
    BY <1>10, <2>1, <2>2 DEF ExplorerReady, DesktopTypeOK
<1> QED
  BY <1>4, <1>5, <1>6, <1>7, <1>8, <1>9, <1>10

-----------------------------------------------------------------------------
(* Type correctness, one lemma for each group of actions. *)

LEMMA InitType == Init => TypeOK
<1> SUFFICES ASSUME Init PROVE TypeOK
  OBVIOUS
<1>1. DesktopTypeOK
  <2>1. desk \in [Windows -> Placements]
    BY DesktopAssumption DEF Init, DesktopInit
  <2>2. present \subseteq Windows /\ above \subseteq Windows \X Windows
    BY DEF Init, DesktopInit
  <2>3. bars \in [Monitors -> Bars \cup {NoBar}]
    BY DEF Init, DesktopInit
  <2>4. /\ front = NoWindow /\ open = {} /\ taskView = FALSE /\ flyoutMon = Primary /\ saver = FALSE
        /\ explorer = [pid |-> 1, ready |-> TRUE]
        /\ sent = <<>> /\ events = <<>> /\ posted = <<>> /\ changes = 0
    BY DEF Init, DesktopInit
  <2>5. flyoutMon \in Monitors /\ explorer \in [pid : Nat, ready : BOOLEAN]
    BY <2>4, DesktopAssumption
  <2>6. sent \in Seq(SentMessage) /\ events \in Seq(WinEvent) /\ posted \in Seq(PostedMessage)
    BY <2>4, EmptySeq
  <2> QED
    BY <2>1, <2>2, <2>3, <2>4, <2>5, <2>6 DEF DesktopTypeOK
<1>2. [at |-> "clearing", manual |-> TRUE, waits |-> FALSE] \in Frame
  BY DEF Frame
<1>3. ClearedShell \in ShellType /\ NoSets \in SetsType
  BY DEF ClearedShell, ShellType, NoSets, SetsType
<1>4. WorkerTypeOK
  <2>1. stack \in Seq(Frame)
    BY <1>2 DEF Init
  <2>2. /\ taskbars \in [Monitors -> Bars \cup {NoBar}] /\ tracked \in [Monitors -> SetsType]
        /\ shown \in [Monitors -> Colours \cup {Stock}] /\ extras \in [Monitors -> BOOLEAN]
    BY <1>3 DEF Init
  <2> QED
    BY <1>3, <2>1, <2>2, WorkerAssumption DEF Init, WorkerTypeOK
<1> QED
  BY <1>1, <1>4 DEF TypeOK

LEMMA RefreshType ==
  ASSUME TypeOK, RefreshNext \/ RefreshLine \/ RefreshDone
  PROVE  TypeOK'
<1>1. /\ stack # <<>> /\ Top \in Frame /\ Tail(stack) \in Seq(Frame)
  BY TopType DEF TypeOK, WorkerTypeOK, RefreshNext, RefreshLine, RefreshDone, At
<1>2. CASE RefreshNext
  <2>1. PICK m \in Top.todo :
          IF m \in Known
          THEN RefreshAttribute(m, Top.todo \ {m}, Tail(stack))
          ELSE /\ stack' = Refreshing(Top.todo \ {m}) \o Tail(stack)
               /\ UNCHANGED <<normalTaskbars, screen>>
    BY <1>2 DEF RefreshNext
  <2>2. Top.todo \subseteq Monitors
    BY <1>1, <1>2, FrameFields DEF RefreshNext, At
  <2>3. CASE m \in Known
    <3>1. m \in Monitors /\ taskbars[m] \in Bars /\ GetConfig(m) \in Looks
      BY <2>2, <2>3, GetConfigType DEF Known, TypeOK, WorkerTypeOK
    <3>2. SetAttribute(m, GetConfig(m)) /\ UNCHANGED extras
      BY <2>1, <2>3 DEF RefreshAttribute
    <3>3. PICK waits \in BOOLEAN :
            stack' = <<[at |-> "attribute", todo |-> Top.todo \ {m}, mon |-> m, bar |-> taskbars[m],
                        look |-> GetConfig(m), waits |-> waits]>> \o Tail(stack)
      BY <2>1, <2>3 DEF RefreshAttribute
    <3>4. [at |-> "attribute", todo |-> Top.todo \ {m}, mon |-> m, bar |-> taskbars[m],
           look |-> GetConfig(m), waits |-> waits] \in Frame
      BY <2>2, <3>1 DEF Frame
    <3>5. stack' \in Seq(Frame)
      BY <1>1, <3>3, <3>4, PushType
    <3>6. normalTaskbars' \subseteq Bars /\ shown' \in [Monitors -> Colours \cup {Stock}]
      BY <2>3, <3>1, <3>2, SetAttributeType
    <3> QED
      BY <1>2, <3>2, <3>5, <3>6 DEF RefreshNext, TypeOK, DesktopTypeOK, WorkerTypeOK, desktopVars
  <2>4. CASE m \notin Known
    <3>1. stack' \in Seq(Frame)
      BY <1>1, <2>1, <2>2, <2>4, RefreshingType
    <3> QED
      BY <1>2, <2>1, <2>4, <3>1 DEF RefreshNext, TypeOK, DesktopTypeOK, WorkerTypeOK, desktopVars, screen
  <2> QED
    BY <2>3, <2>4
<1>3. CASE RefreshLine
  <2>1. Top.todo \subseteq Monitors /\ Top.mon \in Monitors /\ Top.look.extra \in BOOLEAN
    BY <1>1, <1>3, FrameFields DEF RefreshLine, At, Looks
  <2>2. [at |-> "line", todo |-> Top.todo] \in Frame
    BY <2>1 DEF Frame
  <2>3. stack' \in Seq(Frame)
    BY <1>1, <1>3, <2>2, PushType DEF RefreshLine
  <2>4. extras' \in [Monitors -> BOOLEAN]
    BY <1>3, <2>1 DEF RefreshLine, TypeOK, WorkerTypeOK
  <2> QED
    BY <1>3, <2>3, <2>4 DEF RefreshLine, TypeOK, DesktopTypeOK, WorkerTypeOK, desktopVars, members
<1>4. CASE RefreshDone
  <2>1. Top.todo \subseteq Monitors
    BY <1>1, <1>4, FrameFields DEF RefreshDone, At
  <2>2. stack' \in Seq(Frame)
    BY <1>1, <1>4, <2>1, RefreshingType DEF RefreshDone
  <2> QED
    BY <1>4, <2>2 DEF RefreshDone, TypeOK, DesktopTypeOK, WorkerTypeOK, desktopVars, members, screen
<1> QED
  BY <1>2, <1>3, <1>4

LEMMA ResetStepType ==
  ASSUME TypeOK,
         \/ InsertWindowDone \/ DetectTaskbar \/ InjectExplorerTAP \/ InsertTaskbars
         \/ AskShell \/ RecordTaskView \/ LocateFlyout
         \/ InsertNextWindow \/ ApplyOrRetry \/ FinishReset
  PROVE  TypeOK'
<1>1. stack # <<>> /\ Top \in Frame /\ Tail(stack) \in Seq(Frame)
  BY TopType DEF TypeOK, WorkerTypeOK, InsertWindowDone, DetectTaskbar, InjectExplorerTAP, InsertTaskbars,
                 AskShell, RecordTaskView, LocateFlyout, InsertNextWindow, ApplyOrRetry, FinishReset, At
<1>2. CASE InsertWindowDone
  <2>1. Top.win \in Windows
    BY <1>1, <1>2, FrameFields DEF InsertWindowDone, At
  <2>2. tracked' \in [Monitors -> SetsType] /\ stack' \in Seq(Frame)
    BY <1>1, <1>2, <2>1, UpdateTrackedType DEF InsertWindowDone
  <2> QED
    BY <1>2, <2>2 DEF InsertWindowDone, TypeOK, DesktopTypeOK, WorkerTypeOK, desktopVars, screen
<1>3. CASE DetectTaskbar
  <2>1. Top.manual \in BOOLEAN
    BY <1>1, <1>3, FrameFields DEF DetectTaskbar, At, ResetPlaces
  <2>2. bars[Primary] \in Bars \cup {NoBar} /\ explorer.pid \in Nat
    BY DesktopAssumption DEF TypeOK, DesktopTypeOK
  <2>3. [at |-> "injecting", manual |-> Top.manual, main |-> bars[Primary]] \in Frame
    BY <2>1, <2>2 DEF Frame
  <2>4. stack' \in Seq(Frame)
    BY <1>1, <1>3, <2>3, PushType DEF DetectTaskbar, EndReset, TypeOK, WorkerTypeOK
  <2>5. lastPid' \in Nat /\ recentRestart' \in BOOLEAN
    BY <1>3, <2>2 DEF DetectTaskbar, IsRestart, TypeOK, WorkerTypeOK
  <2>6. /\ resetting' \in BOOLEAN /\ reentered' \in BOOLEAN
        /\ exit' \in {NotExited, "restarts", "injection"}
    BY <1>3 DEF DetectTaskbar, EndReset, TypeOK, WorkerTypeOK
  <2> QED
    BY <1>3, <2>4, <2>5, <2>6 DEF DetectTaskbar, TypeOK, DesktopTypeOK, WorkerTypeOK, desktopVars, screen
<1>4. CASE InsertTaskbars
  <2>1. Top.manual \in BOOLEAN /\ Top.main \in Bars \cup {NoBar}
    BY <1>1, <1>4, FrameFields DEF InsertTaskbars, At, ResetPlaces
  <2>2. [at |-> "coordinating", manual |-> Top.manual] \in Frame /\ NoSets \in SetsType
    BY <2>1 DEF Frame, NoSets, SetsType
  <2>3. stack' \in Seq(Frame)
    BY <1>1, <1>4, <2>2, PushType DEF InsertTaskbars, TypeOK, WorkerTypeOK
  <2>4. taskbars' \in [Monitors -> Bars \cup {NoBar}] /\ tracked' \in [Monitors -> SetsType]
    BY <1>4, <2>1, <2>2 DEF InsertTaskbars, InsertTaskbar, TypeOK, DesktopTypeOK, WorkerTypeOK
  <2>5. normalTaskbars' \subseteq Bars
    BY <1>4, <2>4 DEF InsertTaskbars, InsertTaskbar, TypeOK, WorkerTypeOK
  <2>6. exit' \in {NotExited, "restarts", "injection"}
    BY <1>4 DEF InsertTaskbars, InsertTaskbar, TypeOK, WorkerTypeOK
  <2> QED
    BY <1>4, <2>3, <2>4, <2>5, <2>6
    DEF InsertTaskbars, InsertTaskbar, TypeOK, DesktopTypeOK, WorkerTypeOK, desktopVars, screen
<1>5. CASE InjectExplorerTAP
  <2>1. Top.manual \in BOOLEAN /\ Top.main \in Bars \cup {NoBar}
    BY <1>1, <1>5, FrameFields DEF InjectExplorerTAP, At, ResetPlaces
  <2>2. [at |-> "arming", manual |-> Top.manual, main |-> Top.main] \in Frame
    BY <2>1 DEF Frame
  <2>3. stack' \in Seq(Frame)
    BY <1>1, <1>5, <2>2, PushType DEF InjectExplorerTAP, TypeOK, WorkerTypeOK
  <2>4. service' \in BOOLEAN /\ exit' \in {NotExited, "restarts", "injection"}
    BY <1>5 DEF InjectExplorerTAP, TypeOK, WorkerTypeOK
  <2> QED
    BY <1>5, <2>3, <2>4 DEF InjectExplorerTAP, TypeOK, DesktopTypeOK, WorkerTypeOK, desktopVars, screen
<1>6. CASE AskShell \/ RecordTaskView \/ LocateFlyout
  <2>1. Top.manual \in BOOLEAN
    BY <1>1, <1>6, FrameFields DEF AskShell, RecordTaskView, LocateFlyout, At, ResetPlaces
  <2>2. At("asking") => Top.about \in Questions /\ Top.opened \in BOOLEAN
    BY <1>1, FrameFields DEF At
  <2>3. [at |-> "enumerating", manual |-> Top.manual, last |-> NoWindow] \in Frame
    BY <2>1 DEF Frame
  <2>4. PICK f \in Frame : stack' = <<f>> \o Tail(stack)
    <3>1. CASE AskShell
      BY <2>1, <3>1, AskType DEF AskShell, Questions
    <3>2. CASE RecordTaskView
      BY <2>1, <3>2, AskType DEF RecordTaskView, Questions, Flyouts
    <3>3. CASE LocateFlyout
      <4>1. Top.about = "find" \/ NextQuestion[Top.about] \in Questions
        BY <3>3 DEF LocateFlyout, NextQuestion, Questions, Flyouts
      <4> QED
        BY <2>1, <2>3, <3>3, <4>1, AskType DEF LocateFlyout
    <3> QED
      BY <1>6, <3>1, <3>2, <3>3
  <2>5. stack' \in Seq(Frame)
    BY <1>1, <2>4, PushType
  <2>6. MonitorOf(front) \in Monitors \cup {NoMonitor}
    BY MonitorOfType DEF TypeOK
  <2>7. shell' \in ShellType
    <3>1. CASE AskShell
      BY <3>1 DEF AskShell, TypeOK, DesktopTypeOK, WorkerTypeOK, ShellType
    <3>2. CASE RecordTaskView
      BY <2>2, <3>2 DEF RecordTaskView, TypeOK, DesktopTypeOK, WorkerTypeOK, ShellType
    <3>3. CASE LocateFlyout
      BY <2>6, <3>3 DEF LocateFlyout, TypeOK, WorkerTypeOK, ShellType
    <3> QED
      BY <1>6, <3>1, <3>2, <3>3
  <2> QED
    BY <1>6, <2>5, <2>7
    DEF AskShell, RecordTaskView, LocateFlyout, TypeOK, DesktopTypeOK, WorkerTypeOK, desktopVars, screen
<1>7. CASE InsertNextWindow
  <2> DEFINE w == NextWindow(Top.last)
             base == <<[Top EXCEPT !.last = w]>> \o Tail(stack)
  <2>1. w \in Windows /\ InsertWindow(w, FALSE, base)
    BY <1>7, NextWindowType DEF InsertNextWindow, TypeOK
  <2>2. [Top EXCEPT !.last = w] \in Frame
    BY <1>1, <1>7, <2>1 DEF InsertNextWindow, At, Frame
  <2>3. base \in Seq(Frame)
    BY <1>1, <2>2, PushType
  <2> HIDE DEF w, base
  <2>4. tracked' \in [Monitors -> SetsType] /\ stack' \in Seq(Frame)
    BY <2>1, <2>3, InsertWindowType
  <2> QED
    BY <1>7, <2>4 DEF InsertNextWindow, TypeOK, DesktopTypeOK, WorkerTypeOK, desktopVars, screen
<1>8. CASE ApplyOrRetry
  <2>1. Top.manual \in BOOLEAN
    BY <1>1, <1>8, FrameFields DEF ApplyOrRetry, At, ResetPlaces
  <2>2. CASE reentered
    <3>1. BeginReset(Top.manual, Tail(stack))
      BY <1>8, <2>2 DEF ApplyOrRetry
    <3> QED
      BY <1>1, <1>8, <2>1, <3>1, BeginResetType
      DEF ApplyOrRetry, TypeOK, DesktopTypeOK, WorkerTypeOK, desktopVars, screen
  <2>3. CASE ~reentered
    <3>1. [at |-> "applying", manual |-> Top.manual] \in Frame
      BY <2>1 DEF Frame
    <3>2. stack' = Refreshing(Known) \o (<<[at |-> "applying", manual |-> Top.manual]>> \o Tail(stack))
      BY <1>8, <2>3 DEF ApplyOrRetry, RefreshAllAttributes
    <3>3. stack' \in Seq(Frame)
      BY <1>1, <3>1, <3>2, PushType, RefreshingType DEF Known
    <3> QED
      BY <1>8, <2>3, <3>3 DEF ApplyOrRetry, TypeOK, DesktopTypeOK, WorkerTypeOK, desktopVars, screen
  <2> QED
    BY <2>2, <2>3
<1>9. CASE FinishReset
  BY <1>1, <1>9 DEF FinishReset, EndReset, TypeOK, DesktopTypeOK, WorkerTypeOK, desktopVars, screen
<1> QED
  BY <1>2, <1>3, <1>4, <1>5, <1>6, <1>7, <1>8, <1>9

LEMMA WindowHandlersType ==
  ASSUME TypeOK,
         \/ OnWindowStateChange \/ WindowRemove \/ OnForegroundWindowChange \/ OnWindowOrderChange
         \/ OnTaskbarCreateDestroy \/ OnAeroPeekEnterExit
  PROVE  TypeOK'
<1>1. DesktopTypeOK' /\ Head(events) \in WinEvent
  BY NextEventType DEF TypeOK, OnWindowStateChange, WindowRemove, OnForegroundWindowChange,
     OnWindowOrderChange, OnTaskbarCreateDestroy, OnAeroPeekEnterExit
<1>2. stack \in Seq(Frame) /\ Known \subseteq Monitors
  BY DEF TypeOK, WorkerTypeOK, Known
<1>3. CASE OnWindowStateChange
  <2>1. Head(events).win \in Windows
    BY <1>1, <1>3, EventFields DEF OnWindowStateChange, NextEvent
  <2>2. tracked' \in [Monitors -> SetsType] /\ stack' \in Seq(Frame)
    <3>1. CASE Valid(Head(events).win)
      BY <1>2, <1>3, <2>1, <3>1, InsertWindowType DEF OnWindowStateChange
    <3>2. CASE ~Valid(Head(events).win)
      BY <1>3, <3>2 DEF OnWindowStateChange, TypeOK, WorkerTypeOK
    <3> QED
      BY <3>1, <3>2
  <2> QED
    BY <1>1, <1>3, <2>2 DEF OnWindowStateChange, NextEvent, NoReset, TypeOK, WorkerTypeOK, screen
<1>4. CASE WindowRemove
  <2>1. \A m \in Monitors : tracked[m].max \subseteq Windows /\ tracked[m].normal \subseteq Windows
    BY DEF TypeOK, WorkerTypeOK, SetsType
  <2>2. tracked' \in [Monitors -> SetsType]
    BY <1>4, <2>1 DEF WindowRemove, RemoveWindow, SetsType
  <2>3. stack' \in Seq(Frame)
    <3>1. PICK todo \in SUBSET Monitors : stack' = Refreshing(todo) \o stack
      BY <1>2, <1>4 DEF WindowRemove, RemoveWindow
    <3> QED
      BY <1>2, <3>1, RefreshingType
  <2> QED
    BY <1>1, <1>4, <2>2, <2>3 DEF WindowRemove, NextEvent, NoReset, TypeOK, WorkerTypeOK, screen
<1>5. CASE OnForegroundWindowChange
  <2>1. Head(events).win \in Windows \cup {Flyout, NoWindow}
    BY <1>1, <1>5, EventFields DEF OnForegroundWindowChange, NextEvent
  <2>2. shell' \in ShellType
    BY <1>5, <2>1 DEF OnForegroundWindowChange, TypeOK, WorkerTypeOK, ShellType
  <2>3. PICK todo \in SUBSET Monitors : stack' = Refreshing(todo) \o stack
    BY <1>2, <1>5 DEF OnForegroundWindowChange
  <2>4. stack' \in Seq(Frame)
    BY <1>2, <2>3, RefreshingType
  <2> QED
    BY <1>1, <1>5, <2>2, <2>4 DEF OnForegroundWindowChange, NextEvent, NoReset, TypeOK, WorkerTypeOK, screen
<1>6. CASE OnWindowOrderChange
  <2>1. stack' \in Seq(Frame)
    BY <1>2, <1>6, RefreshingType DEF OnWindowOrderChange
  <2> QED
    BY <1>1, <1>6, <2>1 DEF OnWindowOrderChange, NextEvent, NoReset, TypeOK, WorkerTypeOK, screen
<1>7. CASE OnTaskbarCreateDestroy
  <2>1. CASE ResetState(FALSE)
    BY <1>1, <1>7, <2>1, ResetStateType DEF OnTaskbarCreateDestroy, NextEvent, TypeOK
  <2>2. CASE UNCHANGED <<members, stack>>
    BY <1>1, <1>7, <2>2 DEF OnTaskbarCreateDestroy, NextEvent, TypeOK, WorkerTypeOK, members, screen
  <2> QED
    BY <1>7, <2>1, <2>2 DEF OnTaskbarCreateDestroy
<1>8. CASE OnAeroPeekEnterExit
  <2>1. Head(events).on \in BOOLEAN
    BY <1>1, <1>8, EventFields DEF OnAeroPeekEnterExit, NextEvent
  <2>2. shell' \in ShellType
    BY <1>8, <2>1 DEF OnAeroPeekEnterExit, TypeOK, WorkerTypeOK, ShellType
  <2>3. stack' \in Seq(Frame)
    BY <1>2, <1>8, RefreshingType DEF OnAeroPeekEnterExit, RefreshAllAttributes
  <2> QED
    BY <1>1, <1>8, <2>2, <2>3 DEF OnAeroPeekEnterExit, NextEvent, NoReset, TypeOK, WorkerTypeOK, screen
<1> QED
  BY <1>3, <1>4, <1>5, <1>6, <1>7, <1>8

LEMMA SentHandlersType ==
  ASSUME TypeOK,
         \/ OnDisplayChange \/ OnSettingChangeSent \/ OnPowerBroadcast
         \/ OnRequestAttributeRefresh \/ OnApplyColorPreview
  PROVE  TypeOK'
<1>1. posted' \in Seq(PostedMessage)
  <2>1. posted \in Seq(PostedMessage) /\ [kind |-> "settingChange"] \in PostedMessage
    BY DEF TypeOK, DesktopTypeOK, PostedMessage
  <2> QED
    BY <2>1, AppendProperties DEF OnDisplayChange, OnSettingChangeSent, OnPowerBroadcast,
       OnRequestAttributeRefresh, OnApplyColorPreview
<1>2. DesktopTypeOK' /\ Head(sent) \in SentMessage
  BY <1>1, NextSentType DEF TypeOK, OnDisplayChange, OnSettingChangeSent, OnPowerBroadcast,
     OnRequestAttributeRefresh, OnApplyColorPreview
<1>3. stack \in Seq(Frame) /\ Known \in SUBSET Monitors
  BY DEF TypeOK, WorkerTypeOK, Known
<1>4. CASE OnDisplayChange
  BY <1>2, <1>4, ResetStateType DEF OnDisplayChange, NextSent, TypeOK
<1>5. CASE OnSettingChangeSent
  BY <1>2, <1>5 DEF OnSettingChangeSent, NextSent, NoReset, TypeOK, WorkerTypeOK, screen
<1>6. CASE OnPowerBroadcast
  <2>1. Head(sent).on \in BOOLEAN
    BY <1>2, <1>6, SentFields DEF OnPowerBroadcast, NextSent
  <2>2. shell' \in ShellType
    BY <1>6, <2>1 DEF OnPowerBroadcast, TypeOK, WorkerTypeOK, ShellType
  <2>3. stack' \in Seq(Frame)
    BY <1>3, <1>6, RefreshingType DEF OnPowerBroadcast, RefreshAllAttributes
  <2> QED
    BY <1>2, <1>6, <2>2, <2>3 DEF OnPowerBroadcast, NextSent, NoReset, TypeOK, WorkerTypeOK, screen
<1>7. CASE OnRequestAttributeRefresh
  <2>1. normalTaskbars' \subseteq Bars /\ shown' \in [Monitors -> Colours \cup {Stock}]
    <3>1. CASE \E m \in Known : SetAttribute(m, GetConfig(m))
      BY <1>3, <3>1, GetConfigType, SetAttributeType
    <3>2. CASE /\ shown' = [m \in Monitors |-> IF bars[m] = Head(sent).bar /\ TaskbarKind # "XAML"
                                              THEN Stock ELSE shown[m]]
               /\ UNCHANGED normalTaskbars
      BY <3>2 DEF TypeOK, WorkerTypeOK
    <3> QED
      BY <1>7, <3>1, <3>2 DEF OnRequestAttributeRefresh
  <2> QED
    BY <1>2, <1>7, <2>1 DEF OnRequestAttributeRefresh, NextSent, TypeOK, WorkerTypeOK
<1>8. CASE OnApplyColorPreview
  <2>1. Head(sent).mode \in Modes
    BY <1>2, <1>8, SentFields DEF OnApplyColorPreview, NextSent
  <2>2. stack' \in Seq(Frame)
    BY <1>3, <1>8, RefreshingType DEF OnApplyColorPreview, RefreshAllAttributes
  <2> QED
    BY <1>2, <1>8, <2>1, <2>2 DEF OnApplyColorPreview, NextSent, TypeOK, WorkerTypeOK, screen
<1> QED
  BY <1>4, <1>5, <1>6, <1>7, <1>8

LEMMA PostedHandlersType ==
  ASSUME TypeOK,
         OnSystemSettingsChange \/ OnTaskViewVisibilityChange \/ OnFlyoutVisibilityChange
  PROVE  TypeOK'
<1>1. DesktopTypeOK' /\ Head(posted) \in PostedMessage
  BY NextPostedType DEF TypeOK, OnSystemSettingsChange, OnTaskViewVisibilityChange, OnFlyoutVisibilityChange
<1>2. stack \in Seq(Frame) /\ Known \in SUBSET Monitors
  BY DEF TypeOK, WorkerTypeOK, Known
<1>3. CASE OnSystemSettingsChange
  BY <1>1, <1>3, ResetStateType DEF OnSystemSettingsChange, NextPosted, TypeOK
<1>4. CASE OnTaskViewVisibilityChange
  <2>1. Head(posted).on \in BOOLEAN
    BY <1>1, <1>4, PostedFields DEF OnTaskViewVisibilityChange, NextPosted
  <2>2. shell' \in ShellType
    BY <1>4, <2>1 DEF OnTaskViewVisibilityChange, TypeOK, WorkerTypeOK, ShellType
  <2>3. stack' \in Seq(Frame)
    BY <1>2, <1>4, RefreshingType DEF OnTaskViewVisibilityChange, RefreshAllAttributes
  <2> QED
    BY <1>1, <1>4, <2>2, <2>3 DEF OnTaskViewVisibilityChange, NextPosted, NoReset, TypeOK, WorkerTypeOK, screen
<1>5. CASE OnFlyoutVisibilityChange
  <2>1. Head(posted).flyout \in Flyouts
    BY <1>1, <1>5, PostedFields DEF OnFlyoutVisibilityChange, NextPosted
  <2>2. MonitorOf(front) \in Monitors \cup {NoMonitor}
    BY MonitorOfType DEF TypeOK
  <2>3. shell' \in ShellType
    BY <1>5, <2>1, <2>2 DEF OnFlyoutVisibilityChange, TypeOK, WorkerTypeOK, ShellType
  <2>4. PICK todo \in SUBSET Monitors : stack' = Refreshing(todo) \o stack
    BY <1>2, <1>5 DEF OnFlyoutVisibilityChange
  <2>5. stack' \in Seq(Frame)
    BY <1>2, <2>4, RefreshingType
  <2> QED
    BY <1>1, <1>5, <2>3, <2>5 DEF OnFlyoutVisibilityChange, NextPosted, NoReset, TypeOK, WorkerTypeOK, screen
<1> QED
  BY <1>3, <1>4, <1>5

LEMMA CallType ==
  ASSUME TypeOK, Call
  PROVE  TypeOK'
<1>1. stack \in Seq(Frame) /\ Known \in SUBSET Monitors
  BY DEF TypeOK, WorkerTypeOK, Known
<1>2. DesktopTypeOK'
  <2>1. UNCHANGED <<world, queues>>
    BY DEF Call, ConfigurationChanged, RemoveColorPreview, ManualReset
  <2>2. \E input : Change(input)
    BY DEF Call, ConfigurationChanged, RemoveColorPreview, ManualReset
  <2>3. changes' \in Nat
    BY <2>2, ChangeType DEF TypeOK
  <2> QED
    BY <2>1, <2>3 DEF TypeOK, DesktopTypeOK, world, queues
<1>3. ASSUME NEW c \in Configs, ConfigurationChanged(c)
      PROVE  WorkerTypeOK'
  <2>1. stack' \in Seq(Frame)
    BY <1>1, <1>3, RefreshingType DEF ConfigurationChanged, RefreshAllAttributes
  <2> QED
    BY <1>3, <2>1 DEF ConfigurationChanged, TypeOK, WorkerTypeOK, screen
<1>4. ASSUME NEW mode \in PickedModes, RemoveColorPreview(mode)
      PROVE  WorkerTypeOK'
  <2>1. stack' \in Seq(Frame)
    BY <1>1, <1>4, RefreshingType DEF RemoveColorPreview, RefreshAllAttributes
  <2> QED
    BY <1>4, <2>1 DEF RemoveColorPreview, TypeOK, WorkerTypeOK, screen
<1>5. ASSUME ManualReset
      PROVE  WorkerTypeOK'
  BY <1>5, ResetStateType DEF ManualReset
<1> QED
  BY <1>2, <1>3, <1>4, <1>5 DEF Call, TypeOK

LEMMA EnvironmentType ==
  ASSUME TypeOK, Environment
  PROVE  TypeOK'
<1> USE DEF TypeOK
<1>1. DesktopTypeOK'
  <2>1. ASSUME NEW w \in Windows,
               \/ \E m \in Monitors, size \in {"max", "normal"} : PlaceWindow(w, m, size)
               \/ MinimiseWindow(w) \/ ShowWindow(w) \/ HideWindow(w)
               \/ \E m \in Monitors : CreateWindow(w, m)
               \/ DestroyWindow(w)
               \/ ActivateWindow(w)
        PROVE  DesktopTypeOK'
    BY <2>1, WindowChangesType
  <2>2. CASE \/ \E f \in Flyouts : \/ \E m \in Monitors : OpenFlyout(f, m)
                                  \/ \E w \in present \cup {NoWindow} : CloseFlyout(f, w)
             \/ ToggleBatterySaver
             \/ \E on \in BOOLEAN : SwitchTaskView(on) \/ AeroPeek(on)
    BY <2>2, ShellChangesType
  <2>3. CASE \/ \E m \in Monitors, b \in Bars \cup {NoBar} : ChangeDisplays(m, b)
             \/ ChangeWorkArea
             \/ \E mode \in PickedModes : PreviewFromOutside(mode)
             \/ \E b \in Bars : RepaintTaskbar(b)
             \/ ExplorerDies
             \/ \E b \in Bars, ready \in BOOLEAN : ExplorerStarts(b, ready)
             \/ ExplorerReady
    BY <2>3, SystemChangesType
  <2> QED
    BY <2>1, <2>2, <2>3 DEF Environment
<1>2. shown' \in [Monitors -> Colours \cup {Stock}] /\ extras' \in [Monitors -> BOOLEAN]
  BY DEF Environment, NewScreen, TypeOK, WorkerTypeOK
<1>3. WorkerTypeOK'
  BY <1>2 DEF Environment, TypeOK, WorkerTypeOK, members
<1> QED
  BY <1>1, <1>3 DEF TypeOK

LEMMA StepType == TypeOK /\ [Next]_vars => TypeOK'
<1> SUFFICES ASSUME TypeOK, [Next]_vars PROVE TypeOK'
  OBVIOUS
<1>1. CASE Resume
  BY <1>1, RefreshType, ResetStepType DEF Resume
<1>2. CASE Handle
  BY <1>2, WindowHandlersType, SentHandlersType, PostedHandlersType DEF Handle
<1>3. CASE Call
  BY <1>3, CallType
<1>4. CASE Environment
  BY <1>4, EnvironmentType
<1>5. CASE UNCHANGED vars
  BY <1>5 DEF vars, desktopVars, members, screen, TypeOK, DesktopTypeOK, WorkerTypeOK
<1>6. CASE TimePasses
  BY <1>6 DEF TimePasses, desktopVars, screen, TypeOK, DesktopTypeOK, WorkerTypeOK
<1> QED
  BY <1>1, <1>2, <1>3, <1>4, <1>5, <1>6 DEF Next

(* Every variable always has its type: whatever runs inside whatever wait, *)
(* a call in progress never holds a taskbar, a monitor or a look that does *)
(* not exist.                                                              *)
THEOREM TypeCorrect == Spec => []TypeOK
<1> QED
  BY InitType, StepType, PTL DEF Spec
=============================================================================
