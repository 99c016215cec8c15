--------------------------- MODULE ApplicationProofs ---------------------------
(***************************************************************************)
(* Proofs about the windows of the program and its shutdown, for any       *)
(* number of threads and any taskbar states.                               *)
(***************************************************************************)
EXTENDS Application, SequenceTheorems, TLAPS

-----------------------------------------------------------------------------
(* The locks.  Whoever holds the lock of a thread has exactly one task     *)
(* there; a thread beyond those of the pool is free and has nothing to do. *)
Creating(t, kind) == lock[t] = "creation" /\ normal[t] = <<Task("create", kind)>>
LockOf(t) ==
  /\ window[t].open => window[t].of # "none"
  /\ lock[t] = "free" => normal[t] = <<>>
  /\ lock[t] = "creation" => window[t].of = "none" /\ \E kind \in Kinds : Creating(t, kind)
  /\ lock[t] = "shutdown" =>
       /\ shutdown.i = t
       /\ \/ shutdown.at = "switch" /\ normal[t] = <<>>
          \/ shutdown.at = "asked" /\ normal[t] = <<Task("ask", "welcome")>>
  /\ t > threads => lock[t] = "free" /\ window[t].of = "none" /\ busy[t] \in {"idle", "starting"} /\ low[t] = <<>>
LocksHaveTasks == \A t \in Threads : LockOf(t)

(* The coroutine of the shutdown: where it is on the main thread this      *)
(* waits for it, as does a thread of the pool; where it has locked a       *)
(* thread it holds the lock, and its last task is in the queue once.       *)
ShutdownIsKnown ==
  /\ shuttingDown <=> (shutdown.at # "none" \/ quit)
  /\ quit => shutdown.at = "none"
ShutdownIsAwaited ==
  /\ shutdown.on <= threads /\ (shutdown.at = "lock" => shutdown.i # 0)
  /\ shutdown.at \in {"lock", "switch"} => IF shutdown.on = 0 THEN main.at = "shutdown" ELSE busy[shutdown.on] = "shutdown"
ShutdownHasLock == shutdown.at \in {"switch", "asked"} => shutdown.i \in Threads /\ lock[shutdown.i] = "shutdown"
FinishIsOne ==
  /\ \A k \in DOMAIN mainQueue : mainQueue[k].what = "finish" => shutdown.at = "finish"
  /\ \A k, l \in DOMAIN mainQueue : mainQueue[k].what = "finish" /\ mainQueue[l].what = "finish" => k = l
ShutdownIsOne == ShutdownIsKnown /\ ShutdownIsAwaited /\ ShutdownHasLock /\ FinishIsOne

-----------------------------------------------------------------------------
(* The pickers.  The host of a picker that is open is known; the lock of   *)
(* the pickers is held by the one creation in progress; a picker that is   *)
(* to be forgotten is known and closed, and is to be forgotten once.       *)
OpenIsKnown ==
  \A t \in Threads : window[t].open => IF window[t].of \in States THEN pickers[window[t].of] = t ELSE t = 1
WelcomeIsFirst == \A t \in Threads : Creating(t, "welcome") => t = 1
CreationHoldsMutex ==
  /\ main.at \in {"pool", "starting"} =>
       pickerMutex /\ pickers[main.s] = 0 /\ \A t \in Threads, s \in States : ~Creating(t, s)
  /\ \A t \in Threads, s \in States : Creating(t, s) => pickerMutex /\ pickers[s] = 0
  /\ \A t, u \in Threads, r, s \in States : Creating(t, r) /\ Creating(u, s) => t = u
Ending(k, s) == mainQueue[k] \in {Task("close", s), Task("commit", s)}
Forgetting(s) == main.at = "forget" /\ main.s = s
ForgottenOnce ==
  /\ \A s \in States : \A k \in DOMAIN mainQueue :
       Ending(k, s) => /\ pickers[s] # 0 /\ ~Forgetting(s)
                       /\ \A t \in Threads : ~(window[t].open /\ window[t].of = s)
                       /\ \A l \in DOMAIN mainQueue : Ending(l, s) => l = k
  /\ \A s \in States : Forgetting(s) =>
       pickers[s] # 0 /\ \A t \in Threads : ~(window[t].open /\ window[t].of = s)
PickersInv == OpenIsKnown /\ WelcomeIsFirst /\ CreationHoldsMutex /\ ForgottenOnce

-----------------------------------------------------------------------------
(* Previews.  A host is deleted once, after its page has closed; before    *)
(* the program ends the end of a preview is behind whatever begins it.     *)
DeletedOf(t) ==
  busy[t] # "gone" =>
    /\ \A k \in DOMAIN low[t] : low[t][k] = "delete" =>
         /\ ~window[t].open /\ window[t].of # "none" /\ busy[t] # "deleting"
         /\ \A l \in DOMAIN low[t] : low[t][l] = "delete" => l = k
    /\ busy[t] = "deleting" => ~window[t].open /\ window[t].of # "none"
DeletedOnce == \A t \in Threads : DeletedOf(t)
DeinitIsLast == \A t \in Threads : \A k \in DOMAIN low[t] : low[t][k] = "deinit" => main.at = "joining"
EndsAfter(k, s) ==
  \/ main.at = "joining"
  \/ \E t \in Threads : window[t].open /\ window[t].of = s
  \/ \E l \in DOMAIN mainQueue : l > k /\ Ending(l, s)
PreviewIsFollowed ==
  /\ \A s \in preview : EndsAfter(0, s)
  /\ \A k \in DOMAIN mainQueue : mainQueue[k].what = "preview" => EndsAfter(k, mainQueue[k].s)
PreviewInv == DeletedOnce /\ DeinitIsLast /\ PreviewIsFollowed

-----------------------------------------------------------------------------
(* The shutdown.  Of the threads it has been to, and of those there were   *)
(* not when it began, a window that is open or on its way was asked for    *)
(* since, unless one would not close.                                      *)
Opens(t) == window[t].open \/ lock[t] = "creation"
Passed(t) == t < shutdown.i \/ t > shutdown.n
AskedIsLate ==
  /\ shutdown.at \in {"lock", "switch", "asked"} /\ shutdown.canExit =>
       \A t \in Threads : Passed(t) /\ Opens(t) => window[t].late
  /\ shutdown.at = "finish" \/ quit => \A t \in Threads : Opens(t) => window[t].late

AppInv ==
  /\ AppTypes /\ StartTypes /\ ShutdownInThreads /\ LocksHaveTasks /\ ShutdownIsOne
  /\ PickersInv /\ PreviewInv /\ AskedIsLate

-----------------------------------------------------------------------------
(* Changes of one window.                                                  *)
Same(w, t) == w[t].of = window[t].of /\ w[t].open = window[t].open /\ w[t].late = window[t].late
Others(w, t) == w \in [Threads -> Window] /\ \A u \in Threads : u # t => w[u] = window[u]

LEMMA WindowLate ==
  ASSUME window \in [Threads -> Window], NEW t \in Threads, NEW b \in BOOLEAN, NEW w, w = [window EXCEPT ![t].late = b]
  PROVE  Others(w, t) /\ w[t].of = window[t].of /\ w[t].open = window[t].open /\ w[t].late = b
<1>1. window[t] \in Window
  OBVIOUS
<1> DEFINE x == [window[t] EXCEPT !.late = b]
<1>2. x \in Window /\ x.of = window[t].of /\ x.open = window[t].open /\ x.late = b
  BY <1>1 DEF Window
<1> HIDE DEF x
<1>3. w = [window EXCEPT ![t] = x]
  BY DEF x
<1> QED
  BY <1>2, <1>3 DEF Others

LEMMA WindowOpens ==
  ASSUME window \in [Threads -> Window], NEW t \in Threads, NEW kind \in Kinds
  PROVE  LET w == [window EXCEPT ![t].of = kind, ![t].open = TRUE]
         IN  Others(w, t) /\ w[t].of = kind /\ w[t].open = TRUE /\ w[t].late = window[t].late
<1>1. window[t] \in Window
  OBVIOUS
<1> DEFINE x == [window[t] EXCEPT !.of = kind, !.open = TRUE]
           w == [window EXCEPT ![t].of = kind, ![t].open = TRUE]
<1>2. x \in Window /\ x.of = kind /\ x.open = TRUE /\ x.late = window[t].late
  BY <1>1 DEF Window
<1>3. \A f : [f EXCEPT ![t].of = kind, ![t].open = TRUE] = [f EXCEPT ![t] = [f[t] EXCEPT !.of = kind, !.open = TRUE]]
  OBVIOUS
<1>4. w = [window EXCEPT ![t] = x]
  BY <1>3
<1> HIDE DEF x, w
<1>5. Others(w, t) /\ w[t] = x
  BY <1>2, <1>4 DEF Others
<1>6. Others(w, t) /\ w[t].of = kind /\ w[t].open = TRUE /\ w[t].late = window[t].late
  BY <1>2, <1>5
<1> QED
  BY <1>6 DEF w

LEMMA WindowCloses ==
  ASSUME window \in [Threads -> Window], NEW t \in Threads, NEW w, w = [window EXCEPT ![t].open = FALSE]
  PROVE  Others(w, t) /\ w[t].of = window[t].of /\ w[t].open = FALSE /\ w[t].late = window[t].late
<1>1. window[t] \in Window
  OBVIOUS
<1> DEFINE x == [window[t] EXCEPT !.open = FALSE]
<1>2. x \in Window /\ x.of = window[t].of /\ x.open = FALSE /\ x.late = window[t].late
  BY <1>1 DEF Window
<1> HIDE DEF x
<1>3. w = [window EXCEPT ![t] = x]
  BY DEF x
<1> QED
  BY <1>2, <1>3 DEF Others

(* What is laid out, changed or asked in it is inside the window.          *)
LEMMA WindowInside ==
  ASSUME window \in [Threads -> Window], NEW t \in Threads, NEW b \in BOOLEAN, NEW w,
         \/ w = [window EXCEPT ![t].laidOut = b]
         \/ w = [window EXCEPT ![t].dirty = b]
         \/ w = [window EXCEPT ![t].dialog = b]
  PROVE  w \in [Threads -> Window] /\ \A u \in Threads : Same(w, u)
<1>1. window[t] \in Window
  OBVIOUS
<1>2. CASE w = [window EXCEPT ![t].laidOut = b]
  <2> DEFINE x == [window[t] EXCEPT !.laidOut = b]
  <2>1. x \in Window /\ x.of = window[t].of /\ x.open = window[t].open /\ x.late = window[t].late
    BY <1>1 DEF Window
  <2> HIDE DEF x
  <2>2. w = [window EXCEPT ![t] = x]
    BY <1>2 DEF x
  <2> QED
    BY <2>1, <2>2 DEF Same
<1>3. CASE w = [window EXCEPT ![t].dirty = b]
  <2> DEFINE x == [window[t] EXCEPT !.dirty = b]
  <2>1. x \in Window /\ x.of = window[t].of /\ x.open = window[t].open /\ x.late = window[t].late
    BY <1>1 DEF Window
  <2> HIDE DEF x
  <2>2. w = [window EXCEPT ![t] = x]
    BY <1>3 DEF x
  <2> QED
    BY <2>1, <2>2 DEF Same
<1>4. CASE w = [window EXCEPT ![t].dialog = b]
  <2> DEFINE x == [window[t] EXCEPT !.dialog = b]
  <2>1. x \in Window /\ x.of = window[t].of /\ x.open = window[t].open /\ x.late = window[t].late
    BY <1>1 DEF Window
  <2> HIDE DEF x
  <2>2. w = [window EXCEPT ![t] = x]
    BY <1>4 DEF x
  <2> QED
    BY <2>1, <2>2 DEF Same
<1> QED
  BY <1>2, <1>3, <1>4

LEMMA NoWindowType == NoWindow \in Window /\ NoWindow.of = "none" /\ NoWindow.open = FALSE
BY DEF NoWindow, Window

(* The shutdown begins: no window was asked for since.                     *)
LEMMA WindowsEarly ==
  ASSUME window \in [Threads -> Window], NEW w, w = [t \in Threads |-> [window[t] EXCEPT !.late = FALSE]]
  PROVE  /\ w \in [Threads -> Window]
         /\ \A t \in Threads : w[t].of = window[t].of /\ w[t].open = window[t].open
<1>1. ASSUME NEW t \in Threads
      PROVE  /\ [window[t] EXCEPT !.late = FALSE] \in Window
             /\ [window[t] EXCEPT !.late = FALSE].of = window[t].of /\ [window[t] EXCEPT !.late = FALSE].open = window[t].open
  <2>1. window[t] \in Window
    OBVIOUS
  <2> QED
    BY <2>1 DEF Window
<1> QED
  BY <1>1

-----------------------------------------------------------------------------
(* Queues.                                                                 *)
LEMMA QueueAppend ==
  ASSUME NEW S, NEW q \in Seq(S), NEW x \in S
  PROVE  /\ Append(q, x) \in Seq(S) /\ q \o <<x>> = Append(q, x)
         /\ DOMAIN q = 1 .. Len(q) /\ Len(q) \in Nat /\ DOMAIN Append(q, x) = 1 .. Len(q) + 1
         /\ \A k \in 1 .. Len(q) : Append(q, x)[k] = q[k]
         /\ Append(q, x)[Len(q) + 1] = x
         /\ \A k \in DOMAIN Append(q, x) : (k \in DOMAIN q /\ Append(q, x)[k] = q[k]) \/ k = Len(q) + 1
<1>1. /\ Append(q, x) \in Seq(S) /\ Len(Append(q, x)) = Len(q) + 1
      /\ \A k \in 1 .. Len(q) : Append(q, x)[k] = q[k]
      /\ Append(q, x)[Len(q) + 1] = x
  BY AppendProperties
<1>2. DOMAIN q = 1 .. Len(q) /\ Len(q) \in Nat /\ DOMAIN Append(q, x) = 1 .. Len(q) + 1
  BY <1>1, LenProperties
<1>3. q \o <<x>> = Append(q, x)
  BY AppendIsConcat
<1>4. \A k \in 1 .. Len(q) + 1 : k \in 1 .. Len(q) \/ k = Len(q) + 1
  BY <1>2
<1> QED
  BY <1>1, <1>2, <1>3, <1>4

LEMMA QueueTail ==
  ASSUME NEW S, NEW q \in Seq(S), q # <<>>
  PROVE  /\ Tail(q) \in Seq(S) /\ Head(q) = q[1] /\ Head(q) \in S
         /\ 1 \in DOMAIN q /\ DOMAIN q \subseteq Nat
         /\ \A k \in DOMAIN Tail(q) : k + 1 \in DOMAIN q /\ k \in Nat /\ Tail(q)[k] = q[k + 1]
         /\ \A k \in DOMAIN q : k # 1 => k - 1 \in DOMAIN Tail(q) /\ Tail(q)[k - 1] = q[k]
<1>1. /\ Head(q) \in S /\ Tail(q) \in Seq(S) /\ Len(Tail(q)) = Len(q) - 1
      /\ \A k \in 1 .. Len(Tail(q)) : Tail(q)[k] = q[k + 1]
  BY HeadTailProperties
<1>2. DOMAIN q = 1 .. Len(q) /\ Len(q) \in Nat \ {0} /\ DOMAIN Tail(q) = 1 .. Len(q) - 1
  BY <1>1, LenProperties, EmptySeq
<1> QED
  BY <1>1, <1>2

-----------------------------------------------------------------------------
(* The steps, told by what they change.                                    *)

(* The page of thread t closes, and whoever opened it asks for a task.     *)
Closes(t) ==
  /\ window[t].open /\ Others(window', t)
  /\ window'[t].of = window[t].of /\ window'[t].open = FALSE /\ window'[t].late = window[t].late
  /\ low' = [low EXCEPT ![t] = Append(@, "delete")]
  /\ \E task \in MainTask :
       /\ mainQueue' = Append(mainQueue, task)
       /\ task.what \notin {"preview", "finish"}
       /\ window[t].of \in States => task \in {Task("close", window[t].of), Task("commit", window[t].of)}
       /\ window[t].of \notin States => task.what \in {"shutdown", "approved"}
NoneCloses == window' \in [Threads -> Window] /\ \A u \in Threads : Same(window', u)

Around == <<main, threads, lock, normal, busy, pickers, pickerMutex, preview, shuttingDown, shutdown, quit>>

PageCloses(t) == UNCHANGED Around /\ Closes(t) /\ main.at # "joining" /\ busy[t] = "idle" /\ life' \in {"running", "crashed", "killed"}

(* What happens inside windows, and outside the program.                   *)
PageStays ==
  /\ UNCHANGED Around /\ NoneCloses /\ life' \in {"running", "ended", "killed", "crashed"}
  /\ \/ UNCHANGED low
     \/ \E t \in Threads : window[t].open /\ low' = [low EXCEPT ![t] = Append(@, "layout")]
  /\ \/ UNCHANGED mainQueue
     \/ mainQueue' = Append(mainQueue, Task("edit", "welcome"))
     \/ \E t \in Threads : PickerOn(t) /\ mainQueue' = Append(mainQueue, Task("preview", window[t].of))

LEMMA TaskParts ==
  ASSUME NEW what, NEW s
  PROVE  Task(what, s).what = what /\ Task(what, s).s = s
BY DEF Task

LEMMA TaskTypes ==
  ASSUME NEW what, NEW s
  PROVE  /\ what \in TaskKinds /\ s \in Kinds => Task(what, s) \in MainTask
         /\ what \in {"create", "ask"} /\ s \in Kinds => Task(what, s) \in ThreadTask
BY DEF Task, MainTask, ThreadTask

LEMMA KindsParts ==
  /\ "welcome" \in Kinds /\ States \subseteq Kinds /\ "welcome" \notin States /\ "none" \notin Kinds
  /\ \A kind \in Kinds : kind \in States \/ kind = "welcome"
BY AppAssumption DEF Kinds

LEMMA NoneClosesWhenSame ==
  ASSUME AppTypes, UNCHANGED window
  PROVE  NoneCloses
BY DEF NoneCloses, Same, AppTypes

LEMMA ClosedCloses ==
  ASSUME AppTypes, NEW t \in Threads, window[t].open, window[t].of # "none",
         NEW task \in MainTask, Closed(t, <<task>>), task.what \notin {"preview", "finish"},
         window[t].of \in States => task \in {Task("close", window[t].of), Task("commit", window[t].of)},
         window[t].of \notin States => task.what \in {"shutdown", "approved"}
  PROVE  Closes(t)
<1>1. window' = [window EXCEPT ![t].open = FALSE]
      /\ low' = [low EXCEPT ![t] = Append(@, "delete")]
      /\ mainQueue' = mainQueue \o <<task>>
  BY Zenon DEF Closed
<1>2. mainQueue' = Append(mainQueue, task)
  BY <1>1, QueueAppend DEF AppTypes, QueueType
<1>3. Others(window', t) /\ window'[t].of = window[t].of /\ window'[t].open = FALSE /\ window'[t].late = window[t].late
  BY <1>1, WindowCloses DEF AppTypes
<1> QED
  BY <1>1, <1>2, <1>3, Zenon DEF Closes

LEMMA RequestCases ==
  ASSUME AppTypes, LocksHaveTasks, NEW t \in Threads, window[t].open, RequestClose(t)
  PROVE  Closes(t) \/ (NoneCloses /\ UNCHANGED <<low, mainQueue>> /\ Refuses(t))
<1>1. CASE Refuses(t)
  <2>1. window' = [window EXCEPT ![t].dialog = TRUE] /\ UNCHANGED <<low, mainQueue>>
    BY <1>1, Zenon DEF RequestClose
  <2> QED
    BY <1>1, <2>1, WindowInside DEF NoneCloses, AppTypes
<1>2. CASE ~Refuses(t)
  <2> DEFINE task == ClosedTask(window[t].of)
  <2>1. Closed(t, <<task>>)
    BY <1>2, Zenon DEF RequestClose
  <2>2. window[t].of \in Kinds /\ window[t].of # "none"
    BY DEF AppTypes, LocksHaveTasks, LockOf, Window
  <2>3. task = IF window[t].of = "welcome" THEN Task("shutdown", "welcome") ELSE Task("close", window[t].of)
    BY DEF ClosedTask
  <2>4. task \in MainTask /\ task.what \notin {"preview", "finish"}
    BY <2>2, <2>3, TaskTypes, TaskParts, KindsParts DEF TaskKinds
  <2>5. /\ window[t].of \in States => task = Task("close", window[t].of)
        /\ window[t].of \notin States => task.what = "shutdown"
    BY <2>2, <2>3, TaskParts, KindsParts
  <2> HIDE DEF task
  <2> QED
    BY <2>1, <2>2, <2>4, <2>5, ClosedCloses
<1> QED
  BY <1>1, <1>2

LEMMA PageCases ==
  ASSUME AppTypes, LocksHaveTasks, NEW t \in Threads,
         \/ UserCloses(t) \/ CommitColor(t) \/ DiscardColor(t) \/ Approve(t) \/ QueryEndSession(t)
         \/ LayoutUpdated(t) \/ PickColor(t) \/ KeepEditing(t) \/ EditFromWelcome(t) \/ DispatchTooLate(t)
  PROVE  PageCloses(t) \/ PageStays
<1> USE DEF Usable, Responsive, Running
<1>1. window[t] \in Window /\ (window[t].open => window[t].of \in Kinds /\ window[t].of # "none")
  BY DEF AppTypes, LocksHaveTasks, LockOf, Window
<1>2. CASE UserCloses(t) \/ QueryEndSession(t)
  <2>1. /\ busy[t] = "idle" /\ main.at # "joining" /\ life = "running" /\ window[t].open /\ RequestClose(t)
        /\ UNCHANGED <<life, main, threads, lock, normal, busy, pickerVars, shuttingDown, shutdown, quit>>
    BY <1>2, Zenon DEF UserCloses, QueryEndSession, exitVars
  <2>2. UNCHANGED Around
    BY <2>1 DEF Around, pickerVars
  <2>3. CASE Closes(t)
    BY <2>1, <2>2, <2>3 DEF PageCloses
  <2>4. CASE NoneCloses /\ UNCHANGED <<low, mainQueue>>
    BY <2>1, <2>2, <2>4 DEF PageStays
  <2> QED
    BY <2>1, <2>3, <2>4, RequestCases
<1>3. CASE CommitColor(t) \/ DiscardColor(t) \/ Approve(t)
  <2>1. /\ busy[t] = "idle" /\ main.at # "joining" /\ life = "running" /\ window[t].open
        /\ UNCHANGED <<life, main, threads, lock, normal, busy, pickerVars, exitVars>>
    BY <1>3, Zenon DEF CommitColor, DiscardColor, Approve, PickerOn
  <2>2. UNCHANGED Around
    BY <2>1 DEF Around, pickerVars, exitVars
  <2>3. Closes(t)
    <3>1. CASE CommitColor(t)
      <4>1. window[t].of \in States /\ Closed(t, <<Task("commit", window[t].of)>>)
        BY <3>1, Zenon DEF CommitColor, PickerOn
      <4>2. Task("commit", window[t].of) \in MainTask /\ Task("commit", window[t].of).what = "commit"
        BY <4>1, TaskTypes, TaskParts, KindsParts DEF TaskKinds
      <4> QED
        BY <1>1, <2>1, <4>1, <4>2, ClosedCloses
    <3>2. CASE DiscardColor(t)
      <4>1. window[t].of \in States /\ Closed(t, <<Task("close", window[t].of)>>)
        BY <3>2, Zenon DEF DiscardColor, PickerOn
      <4>2. Task("close", window[t].of) \in MainTask /\ Task("close", window[t].of).what = "close"
        BY <4>1, TaskTypes, TaskParts, KindsParts DEF TaskKinds
      <4> QED
        BY <1>1, <2>1, <4>1, <4>2, ClosedCloses
    <3>3. CASE Approve(t)
      <4>1. window[t].of = "welcome" /\ Closed(t, <<Task("approved", "welcome")>>)
        BY <3>3, Zenon DEF Approve
      <4>2. Task("approved", "welcome") \in MainTask /\ Task("approved", "welcome").what = "approved"
        BY TaskTypes, TaskParts, KindsParts DEF TaskKinds
      <4> QED
        BY <1>1, <2>1, <4>1, <4>2, KindsParts, ClosedCloses
    <3> QED
      BY <1>3, <3>1, <3>2, <3>3
  <2> QED
    BY <2>1, <2>2, <2>3 DEF PageCloses
<1>4. CASE LayoutUpdated(t) \/ PickColor(t) \/ KeepEditing(t)
  <2>1. busy[t] = "idle" /\ life = "running" /\ UNCHANGED <<life, main, threads, lock, normal, busy, pickerVars, exitVars>>
    BY <1>4, Zenon DEF LayoutUpdated, PickColor, KeepEditing, poolVars
  <2>2. UNCHANGED Around
    BY <2>1 DEF Around, pickerVars, exitVars
  <2>3. \E b \in BOOLEAN : \/ window' = [window EXCEPT ![t].laidOut = b]
                           \/ window' = [window EXCEPT ![t].dirty = b]
                           \/ window' = [window EXCEPT ![t].dialog = b]
    BY <1>4, Zenon DEF LayoutUpdated, PickColor, KeepEditing
  <2>4. NoneCloses
    BY <2>3, WindowInside DEF NoneCloses, AppTypes
  <2>5. \/ window[t].open /\ low' = [low EXCEPT ![t] = Append(@, "layout")] /\ UNCHANGED mainQueue
        \/ PickerOn(t) /\ mainQueue' = Append(mainQueue, Task("preview", window[t].of)) /\ UNCHANGED low
        \/ UNCHANGED <<low, mainQueue>>
    BY <1>4, Zenon DEF LayoutUpdated, PickColor, KeepEditing, poolVars, Dispatch
  <2> QED
    BY <2>1, <2>2, <2>4, <2>5, Zenon DEF PageStays
<1>5. CASE EditFromWelcome(t) \/ DispatchTooLate(t)
  <2>1. UNCHANGED <<main, threads, lock, normal, busy, pickerVars, exitVars, window, low>>
    BY <1>5, Zenon DEF EditFromWelcome, DispatchTooLate, poolVars
  <2>2. life' \in {"running", "crashed"} /\ (mainQueue' = Append(mainQueue, Task("edit", "welcome")) \/ UNCHANGED mainQueue)
    BY <1>5, Zenon DEF EditFromWelcome, DispatchTooLate, Dispatch
  <2>3. UNCHANGED Around
    BY <2>1 DEF Around, pickerVars, exitVars
  <2>4. NoneCloses
    BY <2>1, NoneClosesWhenSame
  <2> QED
    BY <2>1, <2>2, <2>3, <2>4, Zenon DEF PageStays
<1> QED
  BY <1>2, <1>3, <1>4, <1>5

(* Steps of the main thread that reach no queue and no window.             *)
MainMoves ==
  /\ UNCHANGED <<mainQueue, threads, lock, normal, low, window, pickers, preview, shuttingDown, shutdown, quit>>
  /\ life' \in {"running", "crashed", "ended"}
  /\ \/ UNCHANGED <<main, busy, pickerMutex>>
     \/ \E s \in States : main = Idle /\ main' = [at |-> "pickers", s |-> s] /\ UNCHANGED <<busy, pickerMutex>>
     \/ main.at = "pickers" /\ main' = Idle /\ UNCHANGED <<busy, pickerMutex>>
     \/ /\ main.at = "pickers" /\ ~pickerMutex /\ pickers[main.s] = 0
        /\ pickerMutex' = TRUE /\ main' = [at |-> "pool", s |-> main.s, i |-> 1] /\ UNCHANGED busy
     \/ /\ main.at = "pool" /\ main.i <= threads
        /\ main' = [main EXCEPT !.i = @ + 1] /\ UNCHANGED <<busy, pickerMutex>>
     \/ /\ main.at = "pool" /\ main.i > threads /\ threads < MaxThreads
        /\ main' = [main EXCEPT !.at = "starting"]
        /\ busy' = [busy EXCEPT ![main.i] = "starting"] /\ UNCHANGED pickerMutex
     \/ \E t \in Threads : busy[t] = "starting" /\ busy' = [busy EXCEPT ![t] = "idle"] /\ UNCHANGED <<main, pickerMutex>>

(* Thread t is given a window.                                             *)
StartsCreating(t) ==
  /\ StartCreating(t, main.s) /\ main' = Idle
  /\ \/ main.at = "pool" /\ t = main.i /\ t \in 1 .. threads /\ UNCHANGED threads /\ lock[t] = "free" /\ window[t].of = "none"
     \/ main.at = "starting" /\ t = main.i /\ threads' = t
  /\ UNCHANGED <<life, mainQueue, low, busy, pickers, pickerMutex, preview, shuttingDown, shutdown, quit>>

LEMMA MainParts ==
  ASSUME MainType
  PROVE  /\ main.at \in {"idle", "pickers", "pool", "starting", "forget", "shutdown", "joining"}
         /\ main.at \in {"pickers", "forget", "pool", "starting"} => main.s \in States
         /\ main.at = "pickers" => main \in [at : {"pickers"}, s : States]
         /\ main.at = "pool" => main \in [at : {"pool"}, s : States, i : 1 .. threads + 1]
         /\ main.at = "starting" => main.i = threads + 1 /\ threads < MaxThreads
<1>1. CASE main \in [at : {"idle", "shutdown", "joining"}]
  BY <1>1
<1>2. CASE main \in [at : {"pickers", "forget"}, s : States]
  BY <1>2
<1>3. CASE main \in [at : {"pool"}, s : States, i : 1 .. threads + 1]
  BY <1>3
<1>4. CASE main \in [at : {"starting"}, s : States, i : {threads + 1}] /\ threads < MaxThreads
  BY <1>4
<1> QED
  BY <1>1, <1>2, <1>3, <1>4 DEF MainType

LEMMA MainCases ==
  ASSUME AppTypes,
         \/ (\E s \in States : ColorRequested(s)) \/ FocusPicker \/ LookForThread \/ TryThread \/ NewThread
         \/ ThreadReady \/ PoolIsGone \/ \E t \in Threads : ThreadInit(t)
  PROVE  MainMoves \/ \E t \in Threads : StartsCreating(t)
<1> USE DEF Running, MainIdle
<1>1. /\ main.at = "pool" => main.i \in 1 .. threads + 1
      /\ main.at = "starting" => main.i = threads + 1 /\ threads < MaxThreads
      /\ threads \in 0 .. MaxThreads /\ MaxThreads \in Nat
  BY MainParts, AppAssumption DEF AppTypes
<1>2. CASE \E s \in States : ColorRequested(s)
  BY <1>2, Zenon DEF ColorRequested, MainMoves, poolVars, pickerVars, exitVars
<1>3. CASE FocusPicker
  <2>1. life' \in {"running", "crashed"}
    BY <1>3 DEF FocusPicker
  <2> QED
    BY <1>3, <2>1, Zenon DEF FocusPicker, MainMoves, poolVars, pickerVars, exitVars
<1>4. CASE LookForThread \/ NewThread \/ PoolIsGone
  BY <1>4, Zenon DEF LookForThread, NewThread, PoolIsGone, MainMoves, poolVars, pickerVars, exitVars
<1>5. CASE \E t \in Threads : ThreadInit(t)
  BY <1>5, Zenon DEF ThreadInit, MainMoves, poolVars, pickerVars, exitVars
<1>6. CASE TryThread
  <2>1. CASE window[main.i].of = "none"
    <3>1. main.i \in 1 .. threads /\ main.i \in Threads
      <4>1. main.at = "pool" /\ main.i <= threads
        BY <1>6, Zenon DEF TryThread
      <4> QED
        BY <1>1, <4>1 DEF Threads
    <3>2. /\ StartCreating(main.i, main.s) /\ main' = Idle /\ main.at = "pool" /\ lock[main.i] = "free"
          /\ UNCHANGED <<life, mainQueue, threads, low, busy, pickerVars, exitVars>>
      BY <1>6, <2>1, Zenon DEF TryThread
    <3>3. UNCHANGED <<life, mainQueue, threads, low, busy, pickers, pickerMutex, preview, shuttingDown, shutdown, quit>>
      BY <3>2, Zenon DEF pickerVars, exitVars
    <3>4. StartsCreating(main.i)
      BY <2>1, <3>1, <3>2, <3>3, Zenon DEF StartsCreating
    <3> QED
      BY <3>1, <3>4
  <2>2. CASE window[main.i].of # "none"
    BY <1>6, <2>2, Zenon DEF TryThread, MainMoves, pickerVars, exitVars
  <2> QED
    BY <2>1, <2>2
<1>7. CASE ThreadReady
  <2>1. main.i \in Threads
    <3>1. main.at = "starting"
      BY <1>7, Zenon DEF ThreadReady
    <3> QED
      BY <1>1, <3>1 DEF Threads
  <2>2. /\ StartCreating(main.i, main.s) /\ main' = Idle /\ main.at = "starting" /\ threads' = main.i
        /\ UNCHANGED <<life, mainQueue, low, busy, pickerVars, exitVars>>
    BY <1>7, Zenon DEF ThreadReady
  <2>3. UNCHANGED <<life, mainQueue, low, busy, pickers, pickerMutex, preview, shuttingDown, shutdown, quit>>
    BY <2>2, Zenon DEF pickerVars, exitVars
  <2>4. StartsCreating(main.i)
    BY <2>2, <2>3, Zenon DEF StartsCreating
  <2> QED
    BY <2>1, <2>4
<1> QED
  BY <1>2, <1>3, <1>4, <1>5, <1>6, <1>7

(* A task of the main thread.                                              *)
Begins ==
  /\ main = Idle /\ ~shuttingDown /\ shuttingDown' = TRUE
  /\ window' = [t \in Threads |-> [window[t] EXCEPT !.late = FALSE]]
  /\ shutdown' = [at |-> "lock", on |-> 0, i |-> 1, n |-> threads, canExit |-> TRUE, hasWelcome |-> welcome]
  /\ main' = [at |-> "shutdown"]

TakesTask ==
  /\ main = Idle /\ mainQueue # <<>> /\ mainQueue' = Tail(mainQueue)
  /\ UNCHANGED <<life, threads, lock, normal, low, busy, pickers, pickerMutex>>
  /\ LET task == Head(mainQueue) IN
     \/ /\ task.what = "preview" /\ preview' = preview \cup {task.s}
        /\ UNCHANGED <<main, window, shuttingDown, shutdown, quit>>
     \/ /\ task.what \in {"close", "commit"} /\ preview' = preview \ {task.s}
        /\ main' = [at |-> "forget", s |-> task.s] /\ UNCHANGED <<window, shuttingDown, shutdown, quit>>
     \/ /\ task.what \in {"welcome", "approved", "edit", "shutdown"}
        /\ UNCHANGED <<main, window, shuttingDown, shutdown, quit, preview>>
     \/ task.what = "shutdown" /\ Begins /\ UNCHANGED <<quit, preview>>
     \/ /\ task.what = "finish" /\ quit' = TRUE /\ shutdown' = NoShutdown
        /\ UNCHANGED <<main, window, shuttingDown, preview>>

LEMMA TaskCases ==
  ASSUME ApplyColorPreview \/ RemoveColorPreview \/ WelcomeTask \/ WelcomeClosed \/ Finish
  PROVE  TakesTask
<1> USE DEF NextTask, MainIdle
<1>1. CASE ApplyColorPreview
  BY <1>1, Zenon DEF ApplyColorPreview, TakesTask, poolVars, exitVars
<1>2. CASE RemoveColorPreview
  BY <1>2, Zenon DEF RemoveColorPreview, TakesTask, poolVars, exitVars
<1>3. CASE WelcomeTask
  BY <1>3, Zenon DEF WelcomeTask, TakesTask, poolVars, pickerVars, exitVars
<1>4. CASE WelcomeClosed
  <2>1. CASE shuttingDown
    BY <1>4, <2>1, Zenon DEF WelcomeClosed, Shutdown, TakesTask, poolVars, pickerVars
  <2>2. CASE ~shuttingDown
    BY <1>4, <2>2, Zenon DEF WelcomeClosed, Shutdown, TakesTask, Begins, poolVars, pickerVars
  <2> QED
    BY <2>1, <2>2
<1>5. CASE Finish
  BY <1>5, Zenon DEF Finish, TakesTask, poolVars, pickerVars
<1> QED
  BY <1>1, <1>2, <1>3, <1>4, <1>5

(* The shutdown is asked for, or something that changes none of this.      *)
Elsewhere == PageStays \/ (Begins /\ UNCHANGED <<life, mainQueue, threads, lock, normal, low, busy, pickers, pickerMutex, preview, quit>>)

LEMMA ElsewhereCases ==
  ASSUME AppTypes, AskedToExit \/ EndSession \/ SessionAsks \/ Killed
  PROVE  Elsewhere
<1>1. CASE AskedToExit \/ EndSession
  <2>1. main = Idle /\ life = "running" /\ Shutdown
        /\ UNCHANGED <<life, mainQueue, threads, lock, normal, low, busy, pickers, pickerMutex, preview, quit>>
    BY <1>1, Zenon DEF AskedToExit, EndSession, MainIdle, Running, Exit, poolVars, pickerVars
  <2>2. CASE shuttingDown
    <3>1. UNCHANGED <<shuttingDown, shutdown, main, window>>
      BY <2>1, <2>2, Zenon DEF Shutdown
    <3>2. UNCHANGED Around /\ NoneCloses
      BY <2>1, <3>1, NoneClosesWhenSame DEF Around
    <3> QED
      BY <2>1, <3>2, Zenon DEF PageStays, Elsewhere
  <2>3. CASE ~shuttingDown
    BY <2>1, <2>3, Zenon DEF Shutdown, Begins, Elsewhere
  <2> QED
    BY <2>2, <2>3
<1>2. CASE SessionAsks \/ Killed
  <2>1. UNCHANGED <<main, mainQueue, poolVars, window, busy, pickerVars, shuttingDown, shutdown, quit>>
        /\ life' \in {"running", "killed"}
    BY <1>2, Zenon DEF SessionAsks, Killed, Running, exitVars
  <2>2. UNCHANGED Around /\ UNCHANGED low /\ UNCHANGED window
    BY <2>1 DEF Around, poolVars, pickerVars
  <2> QED
    BY <2>1, <2>2, NoneClosesWhenSame, Zenon DEF PageStays, Elsewhere
<1> QED
  BY <1>1, <1>2

(* A thread makes its host, takes what is next at low priority, or answers *)
(* the shutdown.                                                           *)
HasCreated(t, kind) ==
  /\ Creating(t, kind) /\ busy[t] = "idle"
  /\ Others(window', t) /\ window'[t].of = kind /\ window'[t].open = TRUE /\ window'[t].late = window[t].late
  /\ lock' = [lock EXCEPT ![t] = "free"] /\ normal' = [normal EXCEPT ![t] = <<>>]
  /\ \/ /\ kind = "welcome" /\ mainQueue' = Append(mainQueue, Task("welcome", "welcome"))
        /\ UNCHANGED <<pickers, pickerMutex>>
     \/ /\ kind \in States /\ pickers' = [pickers EXCEPT ![kind] = t] /\ pickerMutex' = FALSE
        /\ UNCHANGED mainQueue
  /\ UNCHANGED <<life, main, threads, low, busy, preview, shuttingDown, shutdown, quit>>

Serves(t) ==
  /\ UNCHANGED <<main, mainQueue, threads, lock, normal, pickers, pickerMutex, preview, shuttingDown, shutdown, quit>>
  /\ \/ /\ busy[t] = "idle" /\ low[t] # <<>> /\ low' = [low EXCEPT ![t] = Tail(@)] /\ life' \in {"running", "crashed"}
        /\ \/ UNCHANGED <<window, busy>>
           \/ Head(low[t]) = "delete" /\ busy' = [busy EXCEPT ![t] = "deleting"] /\ UNCHANGED window
           \/ /\ Head(low[t]) = "deinit" /\ busy' = [busy EXCEPT ![t] = "gone"]
              /\ normal[t] = <<>> /\ window' = [window EXCEPT ![t] = NoWindow]
     \/ /\ busy[t] = "deleting" /\ lock[t] = "free" /\ window' = [window EXCEPT ![t] = NoWindow]
        /\ busy' = [busy EXCEPT ![t] = "idle"] /\ UNCHANGED <<life, low>>

HasAsked(t) ==
  /\ lock[t] = "shutdown" /\ shutdown.at = "asked" /\ shutdown.i = t /\ busy[t] = "idle"
  /\ lock' = [lock EXCEPT ![t] = "free"] /\ normal' = [normal EXCEPT ![t] = <<>>]
  /\ busy' = [busy EXCEPT ![t] = "shutdown"]
  /\ Closes(t) \/ (NoneCloses /\ UNCHANGED <<low, mainQueue>>)
  /\ \E can \in BOOLEAN :
       /\ shutdown' = [shutdown EXCEPT !.at = "lock", !.on = t, !.i = @ + 1, !.canExit = can]
       /\ can => shutdown.canExit /\ ~window'[t].open
  /\ UNCHANGED <<life, main, threads, pickers, pickerMutex, preview, shuttingDown, quit>>

LEMMA SingleQueue ==
  ASSUME NEW x
  PROVE  <<x>> # <<>> /\ Head(<<x>>) = x /\ Tail(<<x>>) = <<>> /\ Append(<<>>, x) = <<x>>
OBVIOUS

LEMMA CreateCases ==
  ASSUME AppTypes, LocksHaveTasks, NEW t \in Threads, Create(t)
  PROVE  \E kind \in Kinds : HasCreated(t, kind)
<1>1. /\ life = "running" /\ busy[t] = "idle" /\ normal[t] # <<>> /\ Head(normal[t]).what = "create"
      /\ lock' = [lock EXCEPT ![t] = "free"] /\ normal' = [normal EXCEPT ![t] = Tail(@)]
      /\ UNCHANGED <<life, main, threads, low, busy, preview, exitVars>>
  BY Zenon DEF Create, Responsive, Running
<1>2. PICK kind \in Kinds : Creating(t, kind)
  <2>1. lock[t] \in {"free", "creation", "shutdown"}
    BY DEF AppTypes
  <2>2. lock[t] # "free"
    BY <1>1 DEF LocksHaveTasks, LockOf
  <2>3. lock[t] # "shutdown"
    BY <1>1, SingleQueue, TaskParts DEF LocksHaveTasks, LockOf
  <2> QED
    BY <2>1, <2>2, <2>3 DEF LocksHaveTasks, LockOf
<1>3. Head(normal[t]) = Task("create", kind) /\ Tail(normal[t]) = <<>>
  BY <1>2, SingleQueue DEF Creating
<1>4. Head(normal[t]).s = kind
  BY <1>3, TaskParts
<1>5. /\ window' = [window EXCEPT ![t].of = kind, ![t].open = TRUE]
      /\ IF kind = "welcome"
         THEN Dispatch(Task("welcome", kind)) /\ UNCHANGED <<pickers, pickerMutex>>
         ELSE /\ pickers' = [pickers EXCEPT ![kind] = t]
              /\ pickerMutex' = FALSE
              /\ UNCHANGED mainQueue
  BY <1>4, Zenon DEF Create
<1>6. Others(window', t) /\ window'[t].of = kind /\ window'[t].open = TRUE /\ window'[t].late = window[t].late
  <2> DEFINE w == [window EXCEPT ![t].of = kind, ![t].open = TRUE]
  <2>1. Others(w, t) /\ w[t].of = kind /\ w[t].open = TRUE /\ w[t].late = window[t].late
    BY WindowOpens, Zenon DEF AppTypes
  <2>2. window' = w
    BY <1>5
  <2> HIDE DEF w
  <2> QED
    BY <2>1, <2>2
<1>7. \/ /\ kind = "welcome" /\ mainQueue' = Append(mainQueue, Task("welcome", "welcome"))
         /\ UNCHANGED <<pickers, pickerMutex>>
      \/ /\ kind \in States /\ pickers' = [pickers EXCEPT ![kind] = t] /\ pickerMutex' = FALSE
         /\ UNCHANGED mainQueue
  BY <1>5, KindsParts, Zenon DEF Dispatch
<1>8. normal' = [normal EXCEPT ![t] = <<>>]
  BY <1>1, <1>3
<1>9. UNCHANGED <<life, main, threads, low, busy, preview, shuttingDown, shutdown, quit>>
  BY <1>1, Zenon DEF exitVars
<1> QED
  BY <1>1, <1>2, <1>6, <1>7, <1>8, <1>9, Zenon DEF HasCreated

LEMMA ServesCases ==
  ASSUME NEW t \in Threads, Measure(t) \/ StartDeleting(t) \/ DeletedCallback(t) \/ ThreadDeinit(t)
  PROVE  Serves(t)
<1> USE DEF Responsive, Running
<1>1. CASE Measure(t)
  <2>1. life' \in {"running", "crashed"}
    BY <1>1 DEF Measure
  <2> QED
    BY <1>1, <2>1, Zenon DEF Measure, Serves, pickerVars, exitVars
<1>2. CASE StartDeleting(t)
  BY <1>2, Zenon DEF StartDeleting, Serves, pickerVars, exitVars
<1>3. CASE DeletedCallback(t)
  BY <1>3, Zenon DEF DeletedCallback, Serves, poolVars, pickerVars, exitVars
<1>4. CASE ThreadDeinit(t)
  BY <1>4, Zenon DEF ThreadDeinit, Serves, pickerVars, exitVars
<1> QED
  BY <1>1, <1>2, <1>3, <1>4

LEMMA AskCases ==
  ASSUME AppTypes, LocksHaveTasks, NEW t \in Threads, AskToClose(t)
  PROVE  HasAsked(t)
<1> DEFINE can == shutdown.canExit /\ ~(window[t].open /\ Refuses(t))
<1>1. /\ life = "running" /\ busy[t] = "idle" /\ normal[t] # <<>> /\ Head(normal[t]).what = "ask"
      /\ lock' = [lock EXCEPT ![t] = "free"] /\ normal' = [normal EXCEPT ![t] = Tail(@)]
      /\ busy' = [busy EXCEPT ![t] = "shutdown"]
      /\ IF window[t].open THEN RequestClose(t) ELSE UNCHANGED <<window, low, mainQueue>>
      /\ shutdown' = [shutdown EXCEPT !.at = "lock", !.on = t, !.i = @ + 1, !.canExit = @ /\ ~(window[t].open /\ Refuses(t))]
      /\ UNCHANGED <<life, main, threads, pickerVars, shuttingDown, quit>>
  BY Zenon DEF AskToClose, Responsive, Running
<1>2. lock[t] = "shutdown" /\ shutdown.at = "asked" /\ shutdown.i = t /\ normal[t] = <<Task("ask", "welcome")>>
  <2>1. lock[t] \in {"free", "creation", "shutdown"}
    BY DEF AppTypes
  <2>2. lock[t] # "free"
    BY <1>1 DEF LocksHaveTasks, LockOf
  <2>3. lock[t] # "creation"
    BY <1>1, SingleQueue, TaskParts DEF LocksHaveTasks, LockOf, Creating
  <2> QED
    BY <1>1, <2>1, <2>2, <2>3 DEF LocksHaveTasks, LockOf
<1>3. normal' = [normal EXCEPT ![t] = <<>>]
  BY <1>1, <1>2, SingleQueue
<1>4. shutdown' = [shutdown EXCEPT !.at = "lock", !.on = t, !.i = @ + 1, !.canExit = can]
  BY <1>1
<1>5. can \in BOOLEAN
  OBVIOUS
<1>6. (Closes(t) \/ (NoneCloses /\ UNCHANGED <<low, mainQueue>>)) /\ (can => shutdown.canExit /\ ~window'[t].open)
  <2>1. window \in [Threads -> Window]
    BY DEF AppTypes
  <2>2. CASE window[t].open
    <3>1. Closes(t) \/ (NoneCloses /\ UNCHANGED <<low, mainQueue>> /\ Refuses(t))
      BY <1>1, <2>2, RequestCases
    <3>2. Closes(t) => ~window'[t].open
      BY DEF Closes
    <3> QED
      BY <2>2, <3>1, <3>2, Zenon
  <2>3. CASE ~window[t].open
    <3>1. UNCHANGED <<window, low, mainQueue>> /\ NoneCloses
      BY <1>1, <2>3, NoneClosesWhenSame
    <3> QED
      BY <2>3, <3>1, Zenon
  <2> QED
    BY <2>2, <2>3
<1>7. UNCHANGED <<life, main, threads, pickers, pickerMutex, preview, shuttingDown, quit>>
  BY <1>1, Zenon DEF pickerVars
<1> HIDE DEF can
<1> QED
  BY <1>1, <1>2, <1>3, <1>4, <1>5, <1>6, <1>7, Zenon DEF HasAsked

(* The shutdown goes on, on the main thread or on a thread of the pool.    *)
Locks ==
  /\ shutdown.at = "lock" /\ shutdown.i <= shutdown.n /\ lock[shutdown.i] = "free"
  /\ \/ /\ window[shutdown.i].open /\ lock' = [lock EXCEPT ![shutdown.i] = "shutdown"]
        /\ shutdown' = [shutdown EXCEPT !.at = "switch"]
     \/ ~window[shutdown.i].open /\ shutdown' = [shutdown EXCEPT !.i = @ + 1] /\ UNCHANGED lock
  /\ life' \in {"running", "crashed"}
  /\ UNCHANGED <<main, mainQueue, threads, normal, low, window, busy, pickers, pickerMutex, preview, shuttingDown, quit>>

Switches ==
  /\ shutdown.at = "switch" /\ shutdown' = [shutdown EXCEPT !.at = "asked"] /\ Leave(shutdown.on)
  /\ normal' = [normal EXCEPT ![shutdown.i] = Append(@, Task("ask", "welcome"))]
  /\ UNCHANGED <<life, mainQueue, threads, lock, low, window, pickers, pickerMutex, preview, shuttingDown, quit>>

HasAskedAll ==
  /\ shutdown.at = "lock" /\ shutdown.i > shutdown.n /\ Leave(shutdown.on)
  /\ \/ /\ shutdown.canExit /\ mainQueue' = Append(mainQueue, Task("finish", "welcome"))
        /\ shutdown' = [shutdown EXCEPT !.at = "finish"] /\ UNCHANGED shuttingDown
     \/ shuttingDown' = FALSE /\ shutdown' = NoShutdown /\ UNCHANGED mainQueue
  /\ UNCHANGED <<life, threads, lock, normal, low, window, pickers, pickerMutex, preview, quit>>

Forgets ==
  /\ main.at = "forget" /\ pickers' = [pickers EXCEPT ![main.s] = 0] /\ main' = Idle
  /\ UNCHANGED <<life, mainQueue, threads, lock, normal, low, window, busy, pickerMutex, preview, shuttingDown, shutdown, quit>>

Returns ==
  /\ main = Idle /\ main' = [at |-> "joining"]
  /\ low' = [t \in Threads |-> IF t <= threads THEN Append(low[t], "deinit") ELSE low[t]]
  /\ UNCHANGED <<life, mainQueue, threads, lock, normal, window, busy, pickers, pickerMutex, preview, shuttingDown, shutdown, quit>>

OfThread(t) ==
  PageCloses(t) \/ StartsCreating(t) \/ (\E kind \in Kinds : HasCreated(t, kind)) \/ Serves(t) \/ HasAsked(t)
OfMain == MainMoves \/ TakesTask \/ Forgets \/ Elsewhere \/ Returns
OfShutdown == Locks \/ Switches \/ HasAskedAll

LEMMA ShutdownCases ==
  ASSUME ForgetPicker \/ RunReturns \/ LockThread \/ SwitchThread \/ AllAsked
  PROVE  OfMain \/ OfShutdown
<1> USE DEF Running, MainIdle
<1>1. CASE ForgetPicker
  BY <1>1, Zenon DEF ForgetPicker, Forgets, OfMain, poolVars, exitVars
<1>2. CASE RunReturns
  BY <1>2, Zenon DEF RunReturns, Returns, OfMain, pickerVars, exitVars
<1>3. CASE LockThread
  <2>1. life' \in {"running", "crashed"}
    BY <1>3 DEF LockThread
  <2> QED
    BY <1>3, <2>1, Zenon DEF LockThread, Locks, OfShutdown, pickerVars
<1>4. CASE SwitchThread
  BY <1>4, Zenon DEF SwitchThread, Switches, OfShutdown, pickerVars
<1>5. CASE AllAsked
  BY <1>5, Zenon DEF AllAsked, HasAskedAll, OfShutdown, Dispatch, poolVars, pickerVars
<1> QED
  BY <1>1, <1>2, <1>3, <1>4, <1>5

LEMMA StepCases ==
  ASSUME AppTypes, LocksHaveTasks, [AppNext]_appVars
  PROVE  (\E t \in Threads : OfThread(t)) \/ OfMain \/ OfShutdown
<1>1. CASE UNCHANGED appVars
  <2>1. UNCHANGED Around /\ UNCHANGED low /\ UNCHANGED mainQueue /\ UNCHANGED window /\ UNCHANGED life
    BY <1>1 DEF appVars, Around, poolVars, pickerVars, exitVars
  <2>2. NoneCloses /\ life' \in {"running", "ended", "killed", "crashed"}
    BY <2>1, NoneClosesWhenSame DEF AppTypes
  <2> QED
    BY <2>1, <2>2, Zenon DEF PageStays, Elsewhere, OfMain
<1>2. CASE \/ (\E s \in States : ColorRequested(s)) \/ FocusPicker \/ LookForThread \/ TryThread \/ NewThread
           \/ ThreadReady \/ PoolIsGone \/ \E t \in Threads : ThreadInit(t)
  BY <1>2, MainCases, Zenon DEF OfThread, OfMain
<1>3. CASE ApplyColorPreview \/ RemoveColorPreview \/ WelcomeTask \/ WelcomeClosed \/ Finish
  BY <1>3, TaskCases, Zenon DEF OfMain
<1>4. CASE ForgetPicker \/ RunReturns \/ LockThread \/ SwitchThread \/ AllAsked
  BY <1>4, ShutdownCases
<1>5. CASE AskedToExit \/ EndSession \/ SessionAsks \/ Killed
  BY <1>5, ElsewhereCases, Zenon DEF OfMain
<1>6. ASSUME NEW t \in Threads,
             \/ UserCloses(t) \/ CommitColor(t) \/ DiscardColor(t) \/ Approve(t) \/ QueryEndSession(t)
             \/ LayoutUpdated(t) \/ PickColor(t) \/ KeepEditing(t) \/ EditFromWelcome(t) \/ DispatchTooLate(t)
      PROVE  OfThread(t) \/ OfMain
  BY <1>6, PageCases, Zenon DEF OfThread, OfMain, Elsewhere
<1>7. ASSUME NEW t \in Threads, Create(t) \/ AskToClose(t)
      PROVE  OfThread(t)
  BY <1>7, CreateCases, AskCases, Zenon DEF OfThread
<1>8. ASSUME NEW t \in Threads, Measure(t) \/ StartDeleting(t) \/ DeletedCallback(t) \/ ThreadDeinit(t)
      PROVE  OfThread(t)
  BY <1>8, ServesCases, Zenon DEF OfThread
<1>9. CASE AppNext
  BY <1>2, <1>3, <1>4, <1>5, <1>6, <1>7, <1>8, <1>9, Zenon DEF AppNext, MainStep, ShutdownStep, ThreadStep, Outside
<1> QED
  BY <1>1, <1>9

-----------------------------------------------------------------------------
(* Types.                                                                  *)
LEMMA OneTask ==
  ASSUME QueueType, NEW task \in MainTask, task.what \in PickerTasks => task.s \in States,
         mainQueue' = Append(mainQueue, task)
  PROVE  QueueType'
BY QueueAppend DEF QueueType

LEMMA ClosingTypes ==
  ASSUME AppTypes, LocksHaveTasks, NEW t \in Threads, Closes(t)
  PROVE  window' \in [Threads -> Window] /\ QueueType' /\ low' \in [Threads -> Seq({"layout", "delete", "deinit"})]
<1>1. window' \in [Threads -> Window]
  BY Zenon DEF Closes, Others
<1>2. low' \in [Threads -> Seq({"layout", "delete", "deinit"})]
  <2>1. low' = [low EXCEPT ![t] = Append(low[t], "delete")]
    BY DEF Closes
  <2>2. Append(low[t], "delete") \in Seq({"layout", "delete", "deinit"})
    BY QueueAppend DEF AppTypes
  <2> QED
    BY <2>1, <2>2 DEF AppTypes
<1>3. PICK task \in MainTask :
        /\ mainQueue' = Append(mainQueue, task)
        /\ window[t].of \in States => task \in {Task("close", window[t].of), Task("commit", window[t].of)}
        /\ window[t].of \notin States => task.what \in {"shutdown", "approved"}
  BY Zenon DEF Closes
<1>4. task.what \in PickerTasks => task.s \in States
  BY <1>3, TaskParts DEF PickerTasks
<1>5. QueueType'
  BY <1>3, <1>4, OneTask DEF AppTypes
<1> QED
  BY <1>1, <1>2, <1>5

LEMMA TypesOfThread ==
  ASSUME AppInv, NEW t \in Threads, OfThread(t)
  PROVE  AppTypes'
<1> USE DEF AppTypes, AppInv
<1>1. t \in 1 .. MaxThreads /\ MaxThreads \in Nat \ {0}
  BY AppAssumption DEF Threads
<1>2. CASE PageCloses(t)
  <2>1. UNCHANGED Around /\ Closes(t) /\ life' \in {"running", "crashed", "killed"}
    BY <1>2, Zenon DEF PageCloses
  <2>2. window' \in [Threads -> Window] /\ QueueType' /\ low' \in [Threads -> Seq({"layout", "delete", "deinit"})]
    BY <2>1, ClosingTypes
  <2> QED
    BY <2>1, <2>2 DEF Around, MainType
<1>3. CASE StartsCreating(t)
  <2>1. main.at \in {"pool", "starting"} /\ main.s \in States /\ threads' \in 0 .. MaxThreads
    <3>1. main.at \in {"pool", "starting"} /\ t = main.i /\ threads' \in {threads, t}
      BY <1>3, Zenon DEF StartsCreating
    <3> QED
      BY <1>1, <3>1, MainParts
  <2>2. /\ lock' = [lock EXCEPT ![t] = "creation"]
        /\ window' = [window EXCEPT ![t].late = shuttingDown]
        /\ normal' = [normal EXCEPT ![t] = Append(normal[t], Task("create", main.s))] /\ main' = Idle
        /\ UNCHANGED <<life, mainQueue, low, busy, pickers, pickerMutex, preview, shuttingDown, shutdown, quit>>
    BY <1>3, Zenon DEF StartsCreating, StartCreating
  <2>3. window' \in [Threads -> Window]
    BY <2>2, WindowLate DEF Others
  <2>4. Append(normal[t], Task("create", main.s)) \in Seq(ThreadTask)
    BY <2>1, TaskTypes, KindsParts, QueueAppend
  <2>5. MainType' /\ QueueType'
    BY <2>2 DEF MainType, QueueType, Idle
  <2> QED
    BY <2>1, <2>2, <2>3, <2>4, <2>5
<1>4. ASSUME NEW kind \in Kinds, HasCreated(t, kind)
      PROVE  AppTypes'
  <2>1. /\ lock' = [lock EXCEPT ![t] = "free"] /\ normal' = [normal EXCEPT ![t] = <<>>]
        /\ window' \in [Threads -> Window]
        /\ UNCHANGED <<life, main, threads, low, busy, preview, shuttingDown, shutdown, quit>>
    BY <1>4, Zenon DEF HasCreated, Others
  <2>2. QueueType' /\ pickers' \in [States -> 0 .. MaxThreads] /\ pickerMutex' \in BOOLEAN
    <3>1. CASE mainQueue' = Append(mainQueue, Task("welcome", "welcome")) /\ UNCHANGED <<pickers, pickerMutex>>
      <4>1. Task("welcome", "welcome") \in MainTask /\ Task("welcome", "welcome").what \notin PickerTasks
        BY TaskTypes, TaskParts, KindsParts DEF TaskKinds, PickerTasks
      <4> QED
        BY <3>1, <4>1, OneTask
    <3>2. CASE kind \in States /\ pickers' = [pickers EXCEPT ![kind] = t] /\ pickerMutex' = FALSE /\ UNCHANGED mainQueue
      <4>1. QueueType'
        BY <3>2 DEF QueueType
      <4>2. t \in 0 .. MaxThreads
        BY <1>1
      <4>3. pickers' \in [States -> 0 .. MaxThreads]
        BY <3>2, <4>2
      <4> QED
        BY <3>2, <4>1, <4>3
    <3> QED
      BY <1>4, <3>1, <3>2, Zenon DEF HasCreated
  <2>3. <<>> \in Seq(ThreadTask)
    OBVIOUS
  <2> QED
    BY <2>1, <2>2, <2>3 DEF MainType
<1>5. CASE Serves(t)
  <2>1. UNCHANGED <<main, mainQueue, threads, lock, normal, pickers, pickerMutex, preview, shuttingDown, shutdown, quit>>
    BY <1>5, Zenon DEF Serves
  <2>2. window' \in [Threads -> Window]
    <3>1. window' = window \/ window' = [window EXCEPT ![t] = NoWindow]
      BY <1>5, Zenon DEF Serves
    <3> QED
      BY <3>1, NoWindowType
  <2>3. low' \in [Threads -> Seq({"layout", "delete", "deinit"})]
    <3>1. UNCHANGED low \/ (low[t] # <<>> /\ low' = [low EXCEPT ![t] = Tail(low[t])])
      BY <1>5 DEF Serves
    <3>2. low[t] # <<>> => Tail(low[t]) \in Seq({"layout", "delete", "deinit"})
      BY QueueTail
    <3> QED
      BY <3>1, <3>2
  <2>4. \E b \in {"idle", "deleting", "gone"} : busy' \in {busy, [busy EXCEPT ![t] = b]}
    BY <1>5, Zenon DEF Serves
  <2>5. life' \in {"running", "crashed", life}
    BY <1>5, Zenon DEF Serves
  <2>6. busy' \in [Threads -> {"starting", "idle", "deleting", "shutdown", "gone"}]
    BY <2>4
  <2>7. life' \in {"running", "ended", "killed", "crashed"}
    BY <2>5
  <2>8. MainType' /\ QueueType'
    BY <2>1 DEF MainType, QueueType
  <2> QED
    BY <2>1, <2>2, <2>3, <2>6, <2>7, <2>8
<1>6. CASE HasAsked(t)
  <2>1. /\ lock' = [lock EXCEPT ![t] = "free"] /\ normal' = [normal EXCEPT ![t] = <<>>]
        /\ busy' = [busy EXCEPT ![t] = "shutdown"] /\ shutdown.i = t
        /\ UNCHANGED <<life, main, threads, pickers, pickerMutex, preview, shuttingDown, quit>>
    BY <1>6, Zenon DEF HasAsked
  <2>2. PICK can \in BOOLEAN : shutdown' = [shutdown EXCEPT !.at = "lock", !.on = t, !.i = @ + 1, !.canExit = can]
    BY <1>6, Zenon DEF HasAsked
  <2>3. window' \in [Threads -> Window] /\ QueueType' /\ low' \in [Threads -> Seq({"layout", "delete", "deinit"})]
    <3>1. CASE Closes(t)
      BY <3>1, ClosingTypes
    <3>2. CASE NoneCloses /\ UNCHANGED <<low, mainQueue>>
      BY <3>2 DEF NoneCloses, QueueType
    <3> QED
      BY <1>6, <3>1, <3>2, Zenon DEF HasAsked
  <2>4. shutdown' \in [at : {"none", "lock", "switch", "asked", "finish"}, on : 0 .. MaxThreads,
                       i : 0 .. MaxThreads + 1, n : 0 .. MaxThreads, canExit : BOOLEAN, hasWelcome : BOOLEAN]
    <3>1. t \in 0 .. MaxThreads /\ t + 1 \in 0 .. MaxThreads + 1
      BY <1>1
    <3>2. shutdown' = [shutdown EXCEPT !.at = "lock", !.on = t, !.i = t + 1, !.canExit = can]
      BY <2>1, <2>2
    <3> QED
      BY <2>2, <3>1, <3>2
  <2>5. <<>> \in Seq(ThreadTask)
    OBVIOUS
  <2> QED
    BY <2>1, <2>3, <2>4, <2>5 DEF MainType
<1> QED
  BY <1>2, <1>3, <1>4, <1>5, <1>6, Zenon DEF OfThread

LEMMA BeginsTypes ==
  ASSUME AppInv, Begins
  PROVE  /\ main' \in [at : {"idle", "shutdown", "joining"}] /\ window' \in [Threads -> Window] /\ shuttingDown' \in BOOLEAN
         /\ shutdown' \in [at : {"none", "lock", "switch", "asked", "finish"}, on : 0 .. MaxThreads,
                           i : 0 .. MaxThreads + 1, n : 0 .. MaxThreads, canExit : BOOLEAN, hasWelcome : BOOLEAN]
<1>1. window' \in [Threads -> Window]
  BY WindowsEarly DEF AppInv, AppTypes, Begins
<1>2. main' \in [at : {"idle", "shutdown", "joining"}] /\ shuttingDown' \in BOOLEAN
  BY DEF Begins
<1>3. 0 \in 0 .. MaxThreads /\ 1 \in 0 .. MaxThreads + 1 /\ threads \in 0 .. MaxThreads /\ welcome \in BOOLEAN
  BY AppAssumption DEF AppInv, AppTypes, StartTypes
<1>4. shutdown' = [at |-> "lock", on |-> 0, i |-> 1, n |-> threads, canExit |-> TRUE, hasWelcome |-> welcome]
  BY Zenon DEF Begins
<1> QED
  BY <1>1, <1>2, <1>3, <1>4

LEMMA TypesOfMain ==
  ASSUME AppInv, OfMain
  PROVE  AppTypes'
<1> USE DEF AppTypes, AppInv
<1>1. MaxThreads \in Nat \ {0} /\ threads \in Nat
  BY AppAssumption
<1>2. CASE MainMoves
  <2>1. UNCHANGED <<mainQueue, threads, lock, normal, low, window, pickers, preview, shuttingDown, shutdown, quit>>
        /\ life' \in {"running", "crashed", "ended"}
    BY <1>2, Zenon DEF MainMoves
  <2>2. QueueType'
    BY <2>1 DEF QueueType
  <2>3. MainType' /\ busy' \in [Threads -> {"starting", "idle", "deleting", "shutdown", "gone"}] /\ pickerMutex' \in BOOLEAN
    <3>1. CASE UNCHANGED <<main, busy, pickerMutex>>
      BY <2>1, <3>1 DEF MainType
    <3>2. CASE \E s \in States : main = Idle /\ main' = [at |-> "pickers", s |-> s] /\ UNCHANGED <<busy, pickerMutex>>
      <4>1. main' \in [at : {"pickers", "forget"}, s : States] /\ UNCHANGED <<busy, pickerMutex>>
        BY <3>2
      <4> QED
        BY <4>1 DEF MainType
    <3>3. CASE main.at = "pickers" /\ main' = Idle /\ UNCHANGED <<busy, pickerMutex>>
      BY <3>3 DEF MainType, Idle
    <3>4. CASE pickerMutex' = TRUE /\ main' = [at |-> "pool", s |-> main.s, i |-> 1] /\ UNCHANGED busy /\ main.at = "pickers"
      <4>1. main.s \in States /\ 1 \in 1 .. threads + 1
        BY <1>1, <3>4, MainParts
      <4>2. main' \in [at : {"pool"}, s : States, i : 1 .. threads + 1]
        BY <3>4, <4>1
      <4> QED
        BY <2>1, <3>4, <4>2 DEF MainType
    <3>5. CASE main.at = "pool" /\ main.i <= threads /\ main' = [main EXCEPT !.i = @ + 1] /\ UNCHANGED <<busy, pickerMutex>>
      <4>1. main \in [at : {"pool"}, s : States, i : 1 .. threads + 1]
        BY <3>5, MainParts
      <4>2. main.i + 1 \in 1 .. threads + 1
        BY <1>1, <3>5, <4>1
      <4>3. main' \in [at : {"pool"}, s : States, i : 1 .. threads + 1]
        BY <3>5, <4>1, <4>2
      <4> QED
        BY <2>1, <3>5, <4>3 DEF MainType
    <3>6. CASE /\ main.at = "pool" /\ main.i > threads /\ threads < MaxThreads
               /\ main' = [main EXCEPT !.at = "starting"]
               /\ busy' = [busy EXCEPT ![main.i] = "starting"] /\ UNCHANGED pickerMutex
      <4>1. main \in [at : {"pool"}, s : States, i : 1 .. threads + 1]
        BY <3>6, MainParts
      <4>2. main.i = threads + 1
        BY <1>1, <3>6, <4>1
      <4>3. main' \in [at : {"starting"}, s : States, i : {threads + 1}]
        BY <3>6, <4>1, <4>2
      <4>4. busy' \in [Threads -> {"starting", "idle", "deleting", "shutdown", "gone"}]
        BY <3>6
      <4> QED
        BY <2>1, <3>6, <4>3, <4>4 DEF MainType
    <3>7. CASE \E t \in Threads : busy[t] = "starting" /\ busy' = [busy EXCEPT ![t] = "idle"] /\ UNCHANGED <<main, pickerMutex>>
      <4>1. MainType'
        BY <2>1, <3>7 DEF MainType
      <4>2. busy' \in [Threads -> {"starting", "idle", "deleting", "shutdown", "gone"}]
        BY <3>7
      <4> QED
        BY <3>7, <4>1, <4>2
    <3> QED
      BY <1>2, <3>1, <3>2, <3>3, <3>4, <3>5, <3>6, <3>7, Zenon DEF MainMoves
  <2> QED
    BY <2>1, <2>2, <2>3
<1>3. CASE TakesTask
  <2>1. mainQueue # <<>> /\ mainQueue' = Tail(mainQueue) /\ UNCHANGED <<life, threads, lock, normal, low, busy, pickers, pickerMutex>>
    BY <1>3, Zenon DEF TakesTask
  <2>2. Head(mainQueue) \in MainTask /\ Head(mainQueue) = mainQueue[1] /\ 1 \in DOMAIN mainQueue
    BY <2>1, QueueTail DEF QueueType
  <2>3. Head(mainQueue).what \in PickerTasks => Head(mainQueue).s \in States
    BY <2>2 DEF QueueType
  <2>4. QueueType'
    BY <2>1, QueueTail DEF QueueType
  <2>5. MainType'
    <3>1. CASE UNCHANGED main
      BY <2>1, <3>1 DEF MainType
    <3>2. CASE Head(mainQueue).what \in {"close", "commit"} /\ main' = [at |-> "forget", s |-> Head(mainQueue).s]
      <4>1. main' \in [at : {"pickers", "forget"}, s : States]
        BY <2>3, <3>2 DEF PickerTasks
      <4> QED
        BY <4>1 DEF MainType
    <3>3. CASE Begins
      BY <3>3 DEF Begins, MainType
    <3> QED
      BY <1>3, <3>1, <3>2, <3>3, Zenon DEF TakesTask
  <2>6. window' \in [Threads -> Window] /\ shuttingDown' \in BOOLEAN
    BY <1>3, BeginsTypes, Zenon DEF TakesTask
  <2>7. preview' \subseteq States
    <3>1. \/ UNCHANGED preview
          \/ Head(mainQueue).what = "preview" /\ preview' = preview \cup {Head(mainQueue).s}
          \/ preview' = preview \ {Head(mainQueue).s}
      BY <1>3, Zenon DEF TakesTask
    <3> QED
      BY <2>3, <3>1 DEF PickerTasks
  <2>8. quit' \in BOOLEAN
    BY <1>3, Zenon DEF TakesTask
  <2>9. shutdown' \in [at : {"none", "lock", "switch", "asked", "finish"}, on : 0 .. MaxThreads,
                       i : 0 .. MaxThreads + 1, n : 0 .. MaxThreads, canExit : BOOLEAN, hasWelcome : BOOLEAN]
    <3>1. UNCHANGED shutdown \/ Begins \/ shutdown' = NoShutdown
      BY <1>3, Zenon DEF TakesTask
    <3>2. CASE Begins
      BY <3>2, BeginsTypes
    <3>3. CASE shutdown' = NoShutdown
      <4>1. 0 \in 0 .. MaxThreads /\ 0 \in 0 .. MaxThreads + 1
        BY <1>1
      <4> QED
        BY <3>3, <4>1 DEF NoShutdown
    <3> QED
      BY <3>1, <3>2, <3>3
  <2> QED
    BY <2>1, <2>4, <2>5, <2>6, <2>7, <2>8, <2>9
<1>4. CASE Forgets
  <2>1. /\ main.s \in States /\ pickers' = [pickers EXCEPT ![main.s] = 0] /\ main' = Idle
        /\ UNCHANGED <<life, mainQueue, threads, lock, normal, low, window, busy, pickerMutex, preview, shuttingDown, shutdown, quit>>
    BY <1>4, MainParts DEF Forgets
  <2>2. MainType' /\ QueueType'
    BY <2>1 DEF MainType, QueueType, Idle
  <2>3. pickers' \in [States -> 0 .. MaxThreads]
    BY <1>1, <2>1
  <2> QED
    BY <2>1, <2>2, <2>3
<1>5. CASE PageStays
  <2>1. UNCHANGED Around /\ NoneCloses /\ life' \in {"running", "ended", "killed", "crashed"}
    BY <1>5, Zenon DEF PageStays
  <2>2. low' \in [Threads -> Seq({"layout", "delete", "deinit"})]
    <3>1. CASE UNCHANGED low
      BY <3>1
    <3>2. ASSUME NEW t \in Threads, low' = [low EXCEPT ![t] = Append(low[t], "layout")]
          PROVE  low' \in [Threads -> Seq({"layout", "delete", "deinit"})]
      BY <3>2, QueueAppend
    <3> QED
      BY <1>5, <3>1, <3>2, Zenon DEF PageStays
  <2>3. QueueType'
    <3>1. CASE UNCHANGED mainQueue
      BY <3>1 DEF QueueType
    <3>2. CASE mainQueue' = Append(mainQueue, Task("edit", "welcome"))
      <4>1. Task("edit", "welcome") \in MainTask /\ Task("edit", "welcome").what \notin PickerTasks
        BY TaskTypes, TaskParts, KindsParts DEF TaskKinds, PickerTasks
      <4> QED
        BY <3>2, <4>1, OneTask
    <3>3. ASSUME NEW t \in Threads, PickerOn(t), mainQueue' = Append(mainQueue, Task("preview", window[t].of))
          PROVE  QueueType'
      <4>1. Task("preview", window[t].of) \in MainTask /\ Task("preview", window[t].of).s \in States
        BY <3>3, TaskTypes, TaskParts, KindsParts DEF TaskKinds, PickerOn
      <4> QED
        BY <3>3, <4>1, OneTask
    <3> QED
      BY <1>5, <3>1, <3>2, <3>3, Zenon DEF PageStays
  <2> QED
    BY <2>1, <2>2, <2>3 DEF Around, NoneCloses, MainType
<1>6. CASE Begins /\ UNCHANGED <<life, mainQueue, threads, lock, normal, low, busy, pickers, pickerMutex, preview, quit>>
  <2>1. QueueType'
    BY <1>6 DEF QueueType
  <2>2. MainType'
    BY <1>6, BeginsTypes DEF MainType
  <2> QED
    BY <1>6, <2>1, <2>2, BeginsTypes
<1>7. CASE Returns
  <2>1. /\ main' = [at |-> "joining"]
        /\ low' = [t \in Threads |-> IF t <= threads THEN Append(low[t], "deinit") ELSE low[t]]
        /\ UNCHANGED <<life, mainQueue, threads, lock, normal, window, busy, pickers, pickerMutex, preview, shuttingDown, shutdown, quit>>
    BY <1>7, Zenon DEF Returns
  <2>2. MainType' /\ QueueType'
    BY <2>1 DEF MainType, QueueType
  <2>3. low' \in [Threads -> Seq({"layout", "delete", "deinit"})]
    <3>1. \A t \in Threads : low[t] \in Seq({"layout", "delete", "deinit"}) /\ Append(low[t], "deinit") \in Seq({"layout", "delete", "deinit"})
      BY QueueAppend
    <3> QED
      BY <2>1, <3>1
  <2> QED
    BY <2>1, <2>2, <2>3
<1> QED
  BY <1>2, <1>3, <1>4, <1>5, <1>6, <1>7, Zenon DEF OfMain, Elsewhere

LEMMA LeaveParts ==
  ASSUME AppTypes, NEW on, Leave(on)
  PROVE  /\ MainType' \/ threads' # threads
         /\ busy' \in [Threads -> {"starting", "idle", "deleting", "shutdown", "gone"}]
         /\ on = 0 => UNCHANGED busy /\ main' = Idle
         /\ on # 0 => UNCHANGED main /\ busy' = [busy EXCEPT ![on] = "idle"]
<1>1. CASE on = 0
  <2>1. main' = Idle /\ UNCHANGED busy
    BY <1>1, Zenon DEF Leave
  <2>2. MainType'
    BY <2>1 DEF MainType, Idle
  <2> QED
    BY <1>1, <2>1, <2>2 DEF AppTypes
<1>2. CASE on # 0
  <2>1. UNCHANGED main /\ busy' = [busy EXCEPT ![on] = "idle"]
    BY <1>2, Zenon DEF Leave
  <2>2. MainType' \/ threads' # threads
    BY <2>1 DEF MainType, AppTypes
  <2> QED
    BY <1>2, <2>1, <2>2 DEF AppTypes
<1> QED
  BY <1>1, <1>2

LEMMA TypesOfShutdown ==
  ASSUME AppInv, OfShutdown
  PROVE  AppTypes'
<1> USE DEF AppTypes, AppInv
<1>1. MaxThreads \in Nat \ {0} /\ threads \in Nat
  BY AppAssumption
<1>2. CASE Locks
  <2>1. /\ UNCHANGED <<main, mainQueue, threads, normal, low, window, busy, pickers, pickerMutex, preview, shuttingDown, quit>>
        /\ life' \in {"running", "crashed"} /\ shutdown.i <= shutdown.n
        /\ \/ lock' = [lock EXCEPT ![shutdown.i] = "shutdown"] /\ shutdown' = [shutdown EXCEPT !.at = "switch"]
           \/ shutdown' = [shutdown EXCEPT !.i = @ + 1] /\ UNCHANGED lock
    BY <1>2, Zenon DEF Locks
  <2>2. MainType' /\ QueueType'
    BY <2>1 DEF MainType, QueueType
  <2>3. shutdown.i + 1 \in 0 .. MaxThreads + 1
    BY <1>1, <2>1
  <2>4. /\ lock' \in [Threads -> {"free", "creation", "shutdown"}]
        /\ shutdown' \in [at : {"none", "lock", "switch", "asked", "finish"}, on : 0 .. MaxThreads,
                          i : 0 .. MaxThreads + 1, n : 0 .. MaxThreads, canExit : BOOLEAN, hasWelcome : BOOLEAN]
    BY <2>1, <2>3
  <2> QED
    BY <2>1, <2>2, <2>4
<1>3. CASE Switches
  <2>1. /\ shutdown' = [shutdown EXCEPT !.at = "asked"] /\ Leave(shutdown.on)
        /\ normal' = [normal EXCEPT ![shutdown.i] = Append(@, Task("ask", "welcome"))]
        /\ UNCHANGED <<life, mainQueue, threads, lock, low, window, pickers, pickerMutex, preview, shuttingDown, quit>>
    BY <1>3, Zenon DEF Switches
  <2>2. normal' \in [Threads -> Seq(ThreadTask)]
    <3>1. \A t \in Threads : Append(normal[t], Task("ask", "welcome")) \in Seq(ThreadTask)
      BY TaskTypes, KindsParts, QueueAppend
    <3> QED
      BY <2>1, <3>1
  <2>3. QueueType' /\ MainType'
    BY <2>1, LeaveParts DEF QueueType
  <2>4. shutdown' \in [at : {"none", "lock", "switch", "asked", "finish"}, on : 0 .. MaxThreads,
                       i : 0 .. MaxThreads + 1, n : 0 .. MaxThreads, canExit : BOOLEAN, hasWelcome : BOOLEAN]
    BY <2>1
  <2> QED
    BY <2>1, <2>2, <2>3, <2>4, LeaveParts
<1>4. CASE HasAskedAll
  <2>1. /\ Leave(shutdown.on)
        /\ UNCHANGED <<life, threads, lock, normal, low, window, pickers, pickerMutex, preview, quit>>
        /\ \/ /\ mainQueue' = Append(mainQueue, Task("finish", "welcome"))
              /\ shutdown' = [shutdown EXCEPT !.at = "finish"] /\ UNCHANGED shuttingDown
           \/ shuttingDown' = FALSE /\ shutdown' = NoShutdown /\ UNCHANGED mainQueue
    BY <1>4, Zenon DEF HasAskedAll
  <2>2. QueueType'
    <3>1. Task("finish", "welcome") \in MainTask /\ Task("finish", "welcome").what \notin PickerTasks
      BY TaskTypes, TaskParts, KindsParts DEF TaskKinds, PickerTasks
    <3>2. CASE mainQueue' = Append(mainQueue, Task("finish", "welcome"))
      BY <3>1, <3>2, OneTask
    <3>3. CASE UNCHANGED mainQueue
      BY <3>3 DEF QueueType
    <3> QED
      BY <2>1, <3>2, <3>3
  <2>3. shuttingDown' \in BOOLEAN
    BY <2>1
  <2>4. shutdown' \in [at : {"none", "lock", "switch", "asked", "finish"}, on : 0 .. MaxThreads,
                       i : 0 .. MaxThreads + 1, n : 0 .. MaxThreads, canExit : BOOLEAN, hasWelcome : BOOLEAN]
    <3>1. 0 \in 0 .. MaxThreads /\ 0 \in 0 .. MaxThreads + 1
      BY <1>1
    <3>2. CASE shutdown' = [shutdown EXCEPT !.at = "finish"]
      BY <3>2
    <3>3. CASE shutdown' = NoShutdown
      BY <3>1, <3>3 DEF NoShutdown
    <3> QED
      BY <2>1, <3>2, <3>3
  <2> QED
    BY <2>1, <2>2, <2>3, <2>4, LeaveParts
<1> QED
  BY <1>2, <1>3, <1>4, Zenon DEF OfShutdown

(* What a step does with the welcome page, the settings, the session and   *)
(* the number of things asked for.                                         *)
StartMoves ==
  /\ UNCHANGED firstStart
  /\ WelcomeTask \/ UNCHANGED welcome
  /\ approved' = TRUE \/ UNCHANGED approved
  /\ WelcomeTask \/ Exit \/ Finish \/ UNCHANGED fileExists
  /\ session' \in {"on", "asked", "ending"} \/ UNCHANGED session
  /\ Act \/ UNCHANGED acts

LEMMA StartCases ==
  ASSUME [AppNext]_appVars
  PROVE  StartMoves
<1> USE DEF StartMoves, welcomeVars, exitVars
<1>1. CASE UNCHANGED appVars
  BY <1>1, Zenon DEF appVars
<1>2. CASE MainStep
  BY <1>2, Zenon DEF MainStep, FocusPicker, LookForThread, TryThread, NewThread, ThreadReady, ApplyColorPreview,
       RemoveColorPreview, ForgetPicker, WelcomeTask, WelcomeClosed, Finish, PoolIsGone
<1>3. CASE ShutdownStep
  BY <1>3, Zenon DEF ShutdownStep, LockThread, SwitchThread, AllAsked
<1>4. CASE \E t \in Threads : ThreadStep(t)
  BY <1>4, Zenon DEF ThreadStep, ThreadInit, Create, Measure, StartDeleting, DeletedCallback, AskToClose, ThreadDeinit
<1>5. CASE \E t \in Threads : QueryEndSession(t)
  <2>1. PICK t \in Threads : QueryEndSession(t)
    BY <1>5
  <2>2. session' \in {"on", "asked", "ending"}
    BY <2>1 DEF QueryEndSession
  <2> QED
    BY <2>1, <2>2, Zenon DEF QueryEndSession
<1>6. CASE SessionAsks \/ EndSession
  <2>1. session' \in {"on", "asked", "ending"}
    BY <1>6 DEF SessionAsks, EndSession
  <2> QED
    BY <1>6, <2>1, Zenon DEF SessionAsks, EndSession
<1>7. CASE Outside /\ ~(\E t \in Threads : QueryEndSession(t)) /\ ~SessionAsks /\ ~EndSession
  BY <1>7, Zenon DEF Outside, ColorRequested, LayoutUpdated, UserCloses, PickColor, CommitColor, DiscardColor, KeepEditing,
       Approve, EditFromWelcome, DispatchTooLate, AskedToExit, RunReturns, Killed
<1> QED
  BY <1>1, <1>2, <1>3, <1>4, <1>5, <1>6, <1>7 DEF AppNext

LEMMA StartTypesStep ==
  ASSUME StartTypes, [AppNext]_appVars
  PROVE  StartTypes'
<1>1. StartMoves
  BY StartCases
<1>2. firstStart' \in BOOLEAN /\ approved' \in BOOLEAN
  BY <1>1 DEF StartTypes, StartMoves
<1>3. welcome' \in BOOLEAN
  <2>1. CASE WelcomeTask
    BY <2>1 DEF WelcomeTask, StartTypes
  <2> QED
    BY <1>1, <2>1 DEF StartTypes, StartMoves
<1>4. fileExists' \in BOOLEAN
  <2>1. CASE WelcomeTask
    BY <2>1 DEF WelcomeTask
  <2>2. CASE Finish
    BY <2>2 DEF Finish
  <2>3. CASE Exit
    BY <2>3 DEF Exit
  <2> QED
    BY <1>1, <2>1, <2>2, <2>3 DEF StartTypes, StartMoves
<1>5. session' \in {"on", "asked", "ending"}
  BY <1>1 DEF StartTypes, StartMoves
<1>6. acts' \in 0 .. MaxActs
  BY <1>1, AppAssumption DEF StartTypes, StartMoves, Act
<1> QED
  BY <1>2, <1>3, <1>4, <1>5, <1>6 DEF StartTypes

LEMMA ThreadNumbers ==
  ASSUME AppTypes
  PROVE  MaxThreads \in Nat /\ threads \in Nat /\ threads <= MaxThreads /\ Threads \subseteq Nat \ {0}
         /\ \A u \in Nat \ {0} : u <= threads => u \in Threads
BY AppAssumption DEF AppTypes, Threads

(* The loop of the shutdown keeps to the threads it has counted, and a     *)
(* thread never leaves the pool.                                           *)
LEMMA InThreadsKept ==
  ASSUME ShutdownInThreads, AppTypes, threads' \in Nat, threads' >= threads, UNCHANGED shutdown
  PROVE  ShutdownInThreads'
BY DEF ShutdownInThreads, AppTypes

LEMMA BeginsInThreads ==
  ASSUME AppTypes, Begins, UNCHANGED threads
  PROVE  ShutdownInThreads'
<1>1. /\ shutdown'.at = "lock" /\ shutdown'.on = 0 /\ shutdown'.i = 1 /\ shutdown'.n = threads
  BY DEF Begins
<1>2. threads \in Nat
  BY AppAssumption DEF AppTypes
<1> QED
  BY <1>1, <1>2 DEF ShutdownInThreads

LEMMA NoneInThreads ==
  ASSUME threads \in Nat, UNCHANGED threads, shutdown' = NoShutdown
  PROVE  ShutdownInThreads'
BY DEF ShutdownInThreads, NoShutdown

LEMMA InThreadsOfThread ==
  ASSUME AppInv, NEW t \in Threads, OfThread(t)
  PROVE  ShutdownInThreads'
<1>1. AppTypes /\ ShutdownInThreads /\ threads \in Nat /\ t \in Nat \ {0}
  BY ThreadNumbers DEF AppInv
<1>2. CASE PageCloses(t) \/ (\E kind \in Kinds : HasCreated(t, kind)) \/ Serves(t)
  <2>1. UNCHANGED <<threads, shutdown>>
    BY <1>2, Zenon DEF PageCloses, Around, HasCreated, Serves
  <2> QED
    BY <1>1, <2>1, InThreadsKept
<1>3. CASE StartsCreating(t)
  <2>1. UNCHANGED shutdown /\ t = main.i /\ (UNCHANGED threads \/ (main.at = "starting" /\ threads' = t))
    BY <1>3 DEF StartsCreating
  <2>2. main.at = "starting" => main.i = threads + 1
    BY <1>1 DEF AppTypes, MainType
  <2>3. threads' \in Nat /\ threads' >= threads
    BY <1>1, <2>1, <2>2
  <2> QED
    BY <1>1, <2>1, <2>3, InThreadsKept
<1>4. CASE HasAsked(t)
  <2>1. PICK can \in BOOLEAN : shutdown' = [shutdown EXCEPT !.at = "lock", !.on = t, !.i = @ + 1, !.canExit = can]
    BY <1>4, Zenon DEF HasAsked
  <2>2. shutdown.at = "asked" /\ shutdown.i = t /\ UNCHANGED threads
    BY <1>4, Zenon DEF HasAsked
  <2>3. shutdown'.at = "lock" /\ shutdown'.on = t /\ shutdown'.i = t + 1 /\ shutdown'.n = shutdown.n /\ shutdown.n \in Nat
    BY <1>1, <2>1, <2>2 DEF AppTypes
  <2>4. t <= shutdown.n /\ shutdown.n <= threads
    BY <1>1, <2>2, <2>3 DEF ShutdownInThreads
  <2> QED
    BY <1>1, <2>2, <2>3, <2>4 DEF ShutdownInThreads
<1> QED
  BY <1>2, <1>3, <1>4, Zenon DEF OfThread

LEMMA InThreadsOfMain ==
  ASSUME AppInv, OfMain
  PROVE  ShutdownInThreads'
<1>1. AppTypes /\ ShutdownInThreads /\ threads \in Nat
  BY ThreadNumbers DEF AppInv
<1>2. UNCHANGED threads
  BY Zenon DEF OfMain, MainMoves, TakesTask, Forgets, Elsewhere, PageStays, Around, Returns
<1>3. UNCHANGED shutdown \/ Begins \/ shutdown' = NoShutdown
  BY Zenon DEF OfMain, MainMoves, TakesTask, Forgets, Elsewhere, PageStays, Around, Returns
<1>4. threads' \in Nat /\ threads' >= threads
  BY <1>1, <1>2
<1> QED
  BY <1>1, <1>2, <1>3, <1>4, InThreadsKept, BeginsInThreads, NoneInThreads

LEMMA InThreadsOfShutdown ==
  ASSUME AppInv, OfShutdown
  PROVE  ShutdownInThreads'
<1>1. AppTypes /\ ShutdownInThreads /\ threads \in Nat
  BY ThreadNumbers DEF AppInv
<1>2. UNCHANGED threads
  BY Zenon DEF OfShutdown, Locks, Switches, HasAskedAll
<1>3. shutdown.i \in Nat /\ shutdown.n \in Nat
  BY <1>1, AppAssumption DEF AppTypes
<1>4. CASE Locks
  <2>1. /\ shutdown.at = "lock" /\ shutdown.i <= shutdown.n
        /\ \/ shutdown' = [shutdown EXCEPT !.at = "switch"]
           \/ shutdown' = [shutdown EXCEPT !.i = @ + 1]
    BY <1>4, Zenon DEF Locks
  <2>2. shutdown.i \in 1 .. shutdown.n + 1 /\ shutdown.n <= threads /\ shutdown.on <= threads
    BY <1>1, <2>1 DEF ShutdownInThreads
  <2>3. /\ shutdown'.n = shutdown.n /\ shutdown'.on = shutdown.on
        /\ \/ shutdown'.at = "switch" /\ shutdown'.i = shutdown.i
           \/ shutdown'.at = "lock" /\ shutdown'.i = shutdown.i + 1
    BY <1>1, <2>1 DEF AppTypes
  <2> QED
    BY <1>1, <1>2, <1>3, <2>1, <2>2, <2>3 DEF ShutdownInThreads
<1>5. CASE Switches
  <2>1. shutdown.at = "switch" /\ shutdown' = [shutdown EXCEPT !.at = "asked"]
    BY <1>5, Zenon DEF Switches
  <2>2. shutdown'.at = "asked" /\ shutdown'.i = shutdown.i /\ shutdown'.n = shutdown.n /\ shutdown'.on = shutdown.on
    BY <1>1, <2>1 DEF AppTypes
  <2> QED
    BY <1>1, <1>2, <2>1, <2>2 DEF ShutdownInThreads
<1>6. CASE HasAskedAll
  <2>1. shutdown' = [shutdown EXCEPT !.at = "finish"] \/ shutdown' = NoShutdown
    BY <1>6, Zenon DEF HasAskedAll
  <2>2. CASE shutdown' = [shutdown EXCEPT !.at = "finish"]
    <3>1. shutdown'.at = "finish" /\ shutdown'.n = shutdown.n /\ shutdown'.on = shutdown.on
      BY <1>1, <2>2 DEF AppTypes
    <3> QED
      BY <1>1, <1>2, <3>1 DEF ShutdownInThreads
  <2> QED
    BY <1>1, <1>2, <2>1, <2>2, NoneInThreads
<1> QED
  BY <1>4, <1>5, <1>6, Zenon DEF OfShutdown

-----------------------------------------------------------------------------
(* Locks.                                                                  *)
NoNewWindow(u) == IF window'[u].open THEN window[u].open /\ window'[u].of = window[u].of
                                     ELSE window'[u].of \in {window[u].of, "none"}

LEMMA LockKept ==
  ASSUME AppInv, NEW u \in Threads, NoNewWindow(u), lock'[u] = lock[u], normal'[u] = normal[u],
         threads' \in Nat, threads' >= threads, lock[u] = "shutdown" => shutdown'.at = shutdown.at /\ shutdown'.i = shutdown.i,
         u > threads => busy'[u] \in {"idle", "starting"} /\ low'[u] = <<>>
  PROVE  LockOf(u)'
<1>1. LockOf(u) /\ u \in Nat /\ threads \in Nat /\ (u > threads' => u > threads)
  BY AppAssumption DEF AppInv, AppTypes, LocksHaveTasks, Threads
<1>2. \A kind : Creating(u, kind)' <=> Creating(u, kind)
  BY DEF Creating
<1> QED
  BY <1>1, <1>2 DEF LockOf, NoNewWindow

LEMMA ShutdownLocks ==
  ASSUME AppInv, shutdown.at \notin {"switch", "asked"}
  PROVE  \A u \in Threads : lock[u] # "shutdown"
BY DEF AppInv, LocksHaveTasks, LockOf

LEMMA LocksOfThread ==
  ASSUME AppInv, NEW t \in Threads, OfThread(t)
  PROVE  LocksHaveTasks'
<1>1. AppTypes /\ LockOf(t) /\ threads \in Nat /\ t \in Nat \ {0}
  BY ThreadNumbers DEF AppInv, LocksHaveTasks
<1>2. ASSUME NEW u \in Threads, u # t
      PROVE  LockOf(u)'
  <2>1. CASE PageCloses(t)
    <3>1. NoNewWindow(u) /\ low'[u] = low[u]
      BY <1>1, <1>2, <2>1 DEF PageCloses, Closes, Others, NoNewWindow, AppTypes
    <3>2. UNCHANGED <<threads, lock, normal, busy, shutdown>>
      BY <2>1, Zenon DEF PageCloses, Around
    <3>3. LockOf(u)
      BY DEF AppInv, LocksHaveTasks
    <3> QED
      BY <1>1, <3>1, <3>2, <3>3, LockKept DEF LockOf
  <2>2. CASE StartsCreating(t)
    <3>1. /\ lock' = [lock EXCEPT ![t] = "creation"]
          /\ window' = [window EXCEPT ![t].late = shuttingDown]
          /\ normal' = [normal EXCEPT ![t] = Append(normal[t], Task("create", main.s))]
          /\ UNCHANGED <<low, busy, shutdown>>
      BY <2>2, Zenon DEF StartsCreating, StartCreating
    <3>2. NoNewWindow(u) /\ lock'[u] = lock[u] /\ normal'[u] = normal[u]
      BY <1>1, <1>2, <3>1 DEF NoNewWindow, AppTypes
    <3>3. threads' \in Nat /\ threads' >= threads
      <4>1. (main.at = "pool" /\ threads' = threads) \/ (main.at = "starting" /\ t = main.i /\ threads' = t)
        BY <2>2, Zenon DEF StartsCreating
      <4> QED
        BY <1>1, <4>1, MainParts DEF AppTypes
    <3>4. LockOf(u)
      BY DEF AppInv, LocksHaveTasks
    <3> QED
      BY <3>1, <3>2, <3>3, <3>4, LockKept DEF LockOf
  <2>3. ASSUME NEW kind \in Kinds, HasCreated(t, kind)
        PROVE  LockOf(u)'
    <3>1. /\ Others(window', t) /\ lock' = [lock EXCEPT ![t] = "free"] /\ normal' = [normal EXCEPT ![t] = <<>>]
          /\ UNCHANGED <<threads, low, busy, shutdown>>
      BY <2>3, Zenon DEF HasCreated
    <3>2. NoNewWindow(u) /\ lock'[u] = lock[u] /\ normal'[u] = normal[u]
      BY <1>1, <1>2, <3>1 DEF NoNewWindow, AppTypes, Others
    <3>3. LockOf(u)
      BY DEF AppInv, LocksHaveTasks
    <3> QED
      BY <1>1, <3>1, <3>2, <3>3, LockKept DEF LockOf
  <2>4. CASE Serves(t)
    <3>1. UNCHANGED <<threads, lock, normal, shutdown>>
      BY <2>4, Zenon DEF Serves
    <3>2. /\ UNCHANGED low \/ low' = [low EXCEPT ![t] = Tail(low[t])]
          /\ UNCHANGED window \/ window' = [window EXCEPT ![t] = NoWindow]
          /\ \E b : busy' \in {busy, [busy EXCEPT ![t] = b]}
      BY <2>4 DEF Serves
    <3>3. NoNewWindow(u) /\ low'[u] = low[u] /\ busy'[u] = busy[u]
      BY <1>1, <1>2, <3>2 DEF NoNewWindow, AppTypes
    <3>4. LockOf(u)
      BY DEF AppInv, LocksHaveTasks
    <3> QED
      BY <1>1, <3>1, <3>3, <3>4, LockKept DEF LockOf
  <2>5. CASE HasAsked(t)
    <3>1. /\ lock' = [lock EXCEPT ![t] = "free"] /\ normal' = [normal EXCEPT ![t] = <<>>]
          /\ busy' = [busy EXCEPT ![t] = "shutdown"] /\ shutdown.i = t /\ UNCHANGED threads
      BY <2>5, Zenon DEF HasAsked
    <3>2. NoNewWindow(u) /\ low'[u] = low[u]
      <4>1. CASE Closes(t)
        BY <1>1, <1>2, <4>1 DEF Closes, Others, NoNewWindow, AppTypes
      <4>2. CASE NoneCloses /\ UNCHANGED <<low, mainQueue>>
        BY <4>2 DEF NoneCloses, Same, NoNewWindow
      <4> QED
        BY <2>5, <4>1, <4>2, Zenon DEF HasAsked
    <3>3. LockOf(u) /\ lock'[u] = lock[u] /\ normal'[u] = normal[u] /\ busy'[u] = busy[u]
      BY <1>1, <1>2, <3>1 DEF AppInv, LocksHaveTasks, AppTypes
    <3>4. lock[u] # "shutdown"
      BY <1>2, <3>1, <3>3 DEF LockOf
    <3> QED
      BY <1>1, <3>1, <3>2, <3>3, <3>4, LockKept DEF LockOf
  <2> QED
    BY <2>1, <2>2, <2>3, <2>4, <2>5, Zenon DEF OfThread
<1>3. LockOf(t)'
  <2>1. CASE PageCloses(t)
    <3>1. window[t].open /\ NoNewWindow(t)
      BY <2>1 DEF PageCloses, Closes, NoNewWindow
    <3>2. UNCHANGED <<threads, lock, normal, busy, shutdown>>
      BY <2>1, Zenon DEF PageCloses, Around
    <3> QED
      BY <1>1, <3>1, <3>2, LockKept DEF LockOf
  <2>2. CASE StartsCreating(t)
    <3>1. /\ lock' = [lock EXCEPT ![t] = "creation"]
          /\ window' = [window EXCEPT ![t].late = shuttingDown]
          /\ normal' = [normal EXCEPT ![t] = Append(normal[t], Task("create", main.s))]
      BY <2>2, Zenon DEF StartsCreating, StartCreating
    <3>2. \/ main.at = "pool" /\ t \in 1 .. threads /\ threads' = threads /\ lock[t] = "free" /\ window[t].of = "none"
          \/ main.at = "starting" /\ t = main.i /\ threads' = t
      BY <2>2, Zenon DEF StartsCreating
    <3>3. lock[t] = "free" /\ window[t].of = "none" /\ t <= threads' /\ main.s \in Kinds
      BY <1>1, <3>2, MainParts, KindsParts DEF AppTypes, LockOf
    <3>4. normal[t] = <<>> /\ ~window[t].open
      BY <1>1, <3>3 DEF LockOf, AppTypes, Window
    <3>5. lock'[t] = "creation" /\ normal'[t] = <<Task("create", main.s)>>
      BY <3>1, <3>4, SingleQueue DEF AppInv, AppTypes
    <3>6. window'[t].of = "none" /\ ~window'[t].open
      BY <3>1, <3>3, <3>4, WindowLate DEF AppInv, AppTypes
    <3>7. threads' \in Nat
      BY <1>1, <3>2
    <3> QED
      BY <1>1, <3>3, <3>5, <3>6, <3>7 DEF LockOf, Creating
  <2>3. ASSUME NEW kind \in Kinds, HasCreated(t, kind)
        PROVE  LockOf(t)'
    <3>1. /\ lock[t] = "creation" /\ window'[t].of = kind
          /\ lock' = [lock EXCEPT ![t] = "free"] /\ normal' = [normal EXCEPT ![t] = <<>>] /\ UNCHANGED threads
      BY <2>3, Zenon DEF HasCreated, Creating
    <3>2. lock'[t] = "free" /\ normal'[t] = <<>> /\ ~(t > threads) /\ kind # "none"
      BY <1>1, <3>1, KindsParts DEF LockOf, AppTypes
    <3> QED
      BY <3>1, <3>2 DEF LockOf
  <2>4. CASE Serves(t)
    <3>1. UNCHANGED <<threads, lock, normal, shutdown>>
      BY <2>4, Zenon DEF Serves
    <3>2. ~(t > threads)
      BY <1>1, <2>4 DEF Serves, LockOf
    <3>3. UNCHANGED window \/ window' = [window EXCEPT ![t] = NoWindow]
      BY <2>4 DEF Serves
    <3>4. NoNewWindow(t)
      BY <1>1, <3>3, NoWindowType DEF NoNewWindow, AppTypes
    <3> QED
      BY <1>1, <3>1, <3>2, <3>4, LockKept
  <2>5. CASE HasAsked(t)
    <3>1. /\ lock[t] = "shutdown" /\ UNCHANGED threads
          /\ lock' = [lock EXCEPT ![t] = "free"] /\ normal' = [normal EXCEPT ![t] = <<>>]
      BY <2>5, Zenon DEF HasAsked
    <3>2. lock'[t] = "free" /\ normal'[t] = <<>> /\ ~(t > threads)
      BY <1>1, <3>1 DEF LockOf, AppTypes
    <3>3. NoNewWindow(t)
      <4>1. CASE Closes(t)
        BY <4>1 DEF Closes, NoNewWindow
      <4>2. CASE NoneCloses
        BY <4>2 DEF NoneCloses, Same, NoNewWindow
      <4> QED
        BY <2>5, <4>1, <4>2, Zenon DEF HasAsked
    <3> QED
      BY <1>1, <3>1, <3>2, <3>3 DEF LockOf, NoNewWindow
  <2> QED
    BY <2>1, <2>2, <2>3, <2>4, <2>5, Zenon DEF OfThread
<1> QED
  BY <1>2, <1>3, Zenon DEF LocksHaveTasks

LEMMA LocksOfMain ==
  ASSUME AppInv, OfMain
  PROVE  LocksHaveTasks'
<1>1. AppTypes /\ threads \in Nat
  BY ThreadNumbers DEF AppInv
<1>2. SUFFICES ASSUME NEW u \in Threads
               PROVE  LockOf(u)'
  BY Zenon DEF LocksHaveTasks
<1>3. LockOf(u) /\ u \in Nat \ {0}
  BY <1>1, ThreadNumbers DEF AppInv, LocksHaveTasks
<1>4. CASE MainMoves
  <2>1. UNCHANGED <<threads, lock, normal, low, window, shutdown>>
    BY <1>4, Zenon DEF MainMoves
  <2>2. NoNewWindow(u)
    BY <2>1 DEF NoNewWindow
  <2>3. u > threads => busy'[u] \in {"idle", "starting"}
    <3>1. \/ UNCHANGED busy \/ busy' = [busy EXCEPT ![main.i] = "starting"]
          \/ \E t \in Threads : busy' = [busy EXCEPT ![t] = "idle"]
      BY <1>4, Zenon DEF MainMoves
    <3> QED
      BY <1>1, <1>3, <3>1 DEF AppTypes, LockOf
  <2> QED
    BY <1>1, <1>3, <2>1, <2>2, <2>3, LockKept DEF LockOf
<1>5. CASE TakesTask
  <2>1. UNCHANGED <<threads, lock, normal, low, busy>>
    BY <1>5, Zenon DEF TakesTask
  <2>2. UNCHANGED window \/ Begins
    BY <1>5, Zenon DEF TakesTask
  <2>3. NoNewWindow(u)
    BY <1>1, <2>2, WindowsEarly DEF NoNewWindow, Begins, AppTypes
  <2>4. UNCHANGED shutdown \/ shutdown.at \notin {"switch", "asked"}
    <3>1. \/ UNCHANGED shutdown \/ ~shuttingDown
          \/ mainQueue # <<>> /\ Head(mainQueue).what = "finish"
      BY <1>5, Zenon DEF TakesTask, Begins
    <3>2. CASE mainQueue # <<>> /\ Head(mainQueue).what = "finish"
      <4>1. 1 \in DOMAIN mainQueue /\ mainQueue[1].what = "finish"
        BY <1>1, <3>2, QueueTail DEF AppTypes, QueueType
      <4> QED
        BY <4>1 DEF AppInv, ShutdownIsOne, ShutdownIsKnown, FinishIsOne
    <3> QED
      BY <3>1, <3>2 DEF AppInv, ShutdownIsOne, ShutdownIsKnown, FinishIsOne
  <2> QED
    BY <1>1, <1>3, <2>1, <2>3, <2>4, ShutdownLocks, LockKept DEF LockOf
<1>6. CASE Forgets \/ Returns
  <2>1. UNCHANGED <<threads, lock, normal, window, busy, shutdown>>
    BY <1>6, Zenon DEF Forgets, Returns
  <2>2. UNCHANGED low \/ low' = [t \in Threads |-> IF t <= threads THEN Append(low[t], "deinit") ELSE low[t]]
    BY <1>6, Zenon DEF Forgets, Returns
  <2>3. u > threads => low'[u] = low[u]
    BY <1>1, <1>3, <2>2
  <2>4. NoNewWindow(u)
    BY <2>1 DEF NoNewWindow
  <2> QED
    BY <1>1, <1>3, <2>1, <2>3, <2>4, LockKept DEF LockOf
<1>7. CASE PageStays
  <2>1. UNCHANGED <<threads, lock, normal, busy, shutdown>> /\ NoneCloses
    BY <1>7, Zenon DEF PageStays, Around
  <2>2. UNCHANGED low \/ \E t \in Threads : window[t].open /\ low' = [low EXCEPT ![t] = Append(low[t], "layout")]
    BY <1>7 DEF PageStays
  <2>3. u > threads => low'[u] = low[u]
    BY <1>1, <1>3, <2>2 DEF AppTypes, LockOf
  <2>4. NoNewWindow(u)
    BY <2>1 DEF NoNewWindow, NoneCloses, Same
  <2> QED
    BY <1>1, <1>3, <2>1, <2>3, <2>4, LockKept DEF LockOf
<1>8. CASE Begins /\ UNCHANGED <<life, mainQueue, threads, lock, normal, low, busy, pickers, pickerMutex, preview, quit>>
  <2>1. NoNewWindow(u)
    BY <1>1, <1>8, WindowsEarly DEF NoNewWindow, Begins, AppTypes
  <2>2. shutdown.at \notin {"switch", "asked"}
    BY <1>8 DEF Begins, AppInv, ShutdownIsOne, ShutdownIsKnown
  <2> QED
    BY <1>1, <1>3, <1>8, <2>1, <2>2, ShutdownLocks, LockKept DEF LockOf
<1> QED
  BY <1>4, <1>5, <1>6, <1>7, <1>8, Zenon DEF OfMain, Elsewhere

LEMMA LocksOfShutdown ==
  ASSUME AppInv, OfShutdown
  PROVE  LocksHaveTasks'
<1>1. AppTypes /\ threads \in Nat
  BY ThreadNumbers DEF AppInv
<1>2. SUFFICES ASSUME NEW u \in Threads
               PROVE  LockOf(u)'
  BY Zenon DEF LocksHaveTasks
<1>3. LockOf(u) /\ u \in Nat \ {0}
  BY <1>1, ThreadNumbers DEF AppInv, LocksHaveTasks
<1>4. CASE Locks
  <2>1. /\ shutdown.at = "lock" /\ shutdown.i <= shutdown.n /\ lock[shutdown.i] = "free"
        /\ UNCHANGED <<threads, normal, low, window, busy>>
        /\ \/ /\ window[shutdown.i].open /\ lock' = [lock EXCEPT ![shutdown.i] = "shutdown"]
              /\ shutdown' = [shutdown EXCEPT !.at = "switch"]
           \/ UNCHANGED lock
    BY <1>4, Zenon DEF Locks
  <2>2. NoNewWindow(u) /\ lock[u] # "shutdown"
    BY <2>1, ShutdownLocks DEF NoNewWindow
  <2>3. CASE lock'[u] = lock[u]
    BY <1>1, <1>3, <2>1, <2>2, <2>3, LockKept DEF LockOf
  <2>4. CASE lock'[u] # lock[u]
    <3>1. /\ shutdown.i = u /\ lock'[u] = "shutdown" /\ window[u].open /\ normal[u] = <<>>
          /\ shutdown'.at = "switch" /\ shutdown'.i = u
      BY <1>1, <1>3, <2>1, <2>4 DEF AppTypes, LockOf
    <3>2. window[u].of # "none" /\ ~(u > threads)
      BY <1>3, <3>1 DEF LockOf
    <3> QED
      BY <2>1, <3>1, <3>2 DEF LockOf
  <2> QED
    BY <2>3, <2>4
<1>5. CASE Switches
  <2>1. /\ shutdown.at = "switch" /\ shutdown' = [shutdown EXCEPT !.at = "asked"] /\ Leave(shutdown.on)
        /\ normal' = [normal EXCEPT ![shutdown.i] = Append(@, Task("ask", "welcome"))]
        /\ UNCHANGED <<threads, lock, low, window>>
    BY <1>5, Zenon DEF Switches
  <2>2. shutdown'.at = "asked" /\ shutdown'.i = shutdown.i /\ lock[shutdown.i] = "shutdown"
    BY <1>1, <2>1 DEF AppTypes, AppInv, ShutdownIsOne, ShutdownHasLock
  <2>3. NoNewWindow(u)
    BY <2>1 DEF NoNewWindow
  <2>4. u > threads => busy'[u] \in {"idle", "starting"}
    BY <1>1, <1>3, <2>1, LeaveParts DEF AppTypes, LockOf
  <2>5. CASE u = shutdown.i
    <3>1. normal[u] = <<>> /\ ~(u > threads)
      BY <1>3, <2>1, <2>2, <2>5 DEF LockOf
    <3>2. normal'[u] = <<Task("ask", "welcome")>>
      BY <1>1, <2>1, <2>5, <3>1, SingleQueue DEF AppTypes
    <3> QED
      BY <1>3, <2>1, <2>2, <2>5, <3>1, <3>2 DEF LockOf
  <2>6. CASE u # shutdown.i
    <3>1. normal'[u] = normal[u] /\ lock[u] # "shutdown"
      BY <1>1, <1>3, <2>1, <2>6 DEF AppTypes, LockOf
    <3> QED
      BY <1>1, <1>3, <2>1, <2>3, <2>4, <3>1, LockKept DEF LockOf
  <2> QED
    BY <2>5, <2>6
<1>6. CASE HasAskedAll
  <2>1. shutdown.at = "lock" /\ Leave(shutdown.on) /\ UNCHANGED <<threads, lock, normal, low, window>>
    BY <1>6, Zenon DEF HasAskedAll
  <2>2. NoNewWindow(u) /\ lock[u] # "shutdown"
    BY <2>1, ShutdownLocks DEF NoNewWindow
  <2>3. u > threads => busy'[u] \in {"idle", "starting"}
    BY <1>1, <1>3, <2>1, LeaveParts DEF AppTypes, LockOf
  <2> QED
    BY <1>1, <1>3, <2>1, <2>2, <2>3, LockKept DEF LockOf
<1> QED
  BY <1>4, <1>5, <1>6, Zenon DEF OfShutdown

-----------------------------------------------------------------------------
(* The shutdown is one.                                                    *)
LEMMA QueueGrows ==
  ASSUME AppTypes, NEW task \in MainTask, mainQueue' = Append(mainQueue, task)
  PROVE  \E n \in Nat :
           /\ n \in DOMAIN mainQueue' /\ mainQueue'[n] = task /\ n # 0
           /\ \A k \in DOMAIN mainQueue : k \in Nat /\ k < n /\ k \in DOMAIN mainQueue' /\ mainQueue'[k] = mainQueue[k]
           /\ \A k \in DOMAIN mainQueue' : k = n \/ k \in DOMAIN mainQueue
<1>1. mainQueue \in Seq(MainTask)
  BY DEF AppTypes, QueueType
<1> DEFINE n == Len(mainQueue) + 1
<1>2. /\ DOMAIN mainQueue = 1 .. Len(mainQueue) /\ Len(mainQueue) \in Nat /\ DOMAIN mainQueue' = 1 .. n
      /\ \A k \in 1 .. Len(mainQueue) : mainQueue'[k] = mainQueue[k]
      /\ mainQueue'[n] = task
  BY <1>1, QueueAppend
<1>3. n \in Nat /\ n \in DOMAIN mainQueue' /\ mainQueue'[n] = task /\ n # 0
  BY <1>2
<1>4. \A k \in DOMAIN mainQueue : k \in Nat /\ k < n /\ k \in DOMAIN mainQueue' /\ mainQueue'[k] = mainQueue[k]
  BY <1>2
<1>5. \A k \in DOMAIN mainQueue' : k = n \/ k \in DOMAIN mainQueue
  BY <1>2
<1> HIDE DEF n
<1> QED
  BY <1>3, <1>4, <1>5

LEMMA QueueShrinks ==
  ASSUME AppTypes, mainQueue # <<>>, mainQueue' = Tail(mainQueue)
  PROVE  /\ 1 \in DOMAIN mainQueue /\ Head(mainQueue) = mainQueue[1]
         /\ \A k \in DOMAIN mainQueue' : k \in Nat \ {0} /\ k + 1 \in DOMAIN mainQueue /\ mainQueue'[k] = mainQueue[k + 1]
         /\ \A k \in DOMAIN mainQueue : k \in Nat /\ (k # 1 => k - 1 \in DOMAIN mainQueue' /\ mainQueue'[k - 1] = mainQueue[k])
<1>1. mainQueue \in Seq(MainTask)
  BY DEF AppTypes, QueueType
<1>2. /\ Tail(mainQueue) \in Seq(MainTask) /\ Head(mainQueue) = mainQueue[1]
      /\ 1 \in DOMAIN mainQueue /\ DOMAIN mainQueue \subseteq Nat
      /\ \A k \in DOMAIN mainQueue' : k + 1 \in DOMAIN mainQueue /\ mainQueue'[k] = mainQueue[k + 1]
      /\ \A k \in DOMAIN mainQueue : k # 1 => k - 1 \in DOMAIN mainQueue' /\ mainQueue'[k - 1] = mainQueue[k]
  BY <1>1, QueueTail
<1>3. DOMAIN mainQueue' = 1 .. Len(mainQueue') /\ Len(mainQueue') \in Nat
  BY <1>2, LenProperties
<1>4. \A k \in DOMAIN mainQueue' : k \in Nat \ {0}
  BY <1>3
<1> QED
  BY <1>2, <1>4

LEMMA FinishKept ==
  ASSUME AppTypes, FinishIsOne,
         \/ UNCHANGED mainQueue
         \/ \E task \in MainTask : mainQueue' = Append(mainQueue, task) /\ task.what # "finish"
         \/ mainQueue # <<>> /\ mainQueue' = Tail(mainQueue),
         UNCHANGED shutdown
  PROVE  FinishIsOne'
<1>1. CASE UNCHANGED mainQueue
  BY <1>1 DEF FinishIsOne
<1>2. ASSUME NEW task \in MainTask, mainQueue' = Append(mainQueue, task), task.what # "finish"
      PROVE  FinishIsOne'
  <2>1. \A k \in DOMAIN mainQueue' : mainQueue'[k].what = "finish" => k \in DOMAIN mainQueue /\ mainQueue'[k] = mainQueue[k]
    BY <1>2, QueueAppend DEF AppTypes, QueueType
  <2> QED
    BY <2>1 DEF FinishIsOne
<1>3. CASE mainQueue # <<>> /\ mainQueue' = Tail(mainQueue)
  <2>1. /\ \A k \in DOMAIN mainQueue' : k + 1 \in DOMAIN mainQueue /\ mainQueue'[k] = mainQueue[k + 1]
        /\ \A k \in DOMAIN mainQueue' : k \in Nat
    BY <1>3, QueueTail DEF AppTypes, QueueType
  <2>2. \A k, l \in DOMAIN mainQueue' : k + 1 = l + 1 => k = l
    BY <2>1
  <2> QED
    BY <2>1, <2>2 DEF FinishIsOne
<1> QED
  BY <1>1, <1>2, <1>3

LEMMA FinishNone ==
  ASSUME FinishIsOne, shutdown.at # "finish"
  PROVE  \A k \in DOMAIN mainQueue : mainQueue[k].what # "finish"
BY DEF FinishIsOne

LEMMA OneOfThread ==
  ASSUME AppInv, NEW t \in Threads, OfThread(t)
  PROVE  ShutdownIsOne'
<1>1. AppTypes /\ LockOf(t) /\ threads \in Nat /\ t \in Nat \ {0}
  BY ThreadNumbers DEF AppInv, LocksHaveTasks
<1>2. ShutdownIsKnown /\ ShutdownIsAwaited /\ ShutdownHasLock /\ FinishIsOne
  BY DEF AppInv, ShutdownIsOne
<1>3. CASE PageCloses(t)
  <2>1. UNCHANGED Around /\ \E task \in MainTask : mainQueue' = Append(mainQueue, task) /\ task.what # "finish"
    BY <1>3 DEF PageCloses, Closes
  <2>2. FinishIsOne'
    BY <1>1, <1>2, <2>1, FinishKept DEF Around
  <2> QED
    BY <1>2, <2>1, <2>2 DEF ShutdownIsOne, ShutdownIsKnown, ShutdownIsAwaited, ShutdownHasLock, Around
<1>4. CASE StartsCreating(t)
  <2>1. /\ lock' = [lock EXCEPT ![t] = "creation"] /\ main' = Idle
        /\ UNCHANGED <<mainQueue, busy, shuttingDown, shutdown, quit>>
    BY <1>4, Zenon DEF StartsCreating, StartCreating
  <2>2. \/ main.at = "pool" /\ threads' = threads /\ lock[t] = "free"
        \/ main.at = "starting" /\ t = main.i /\ threads' = t
    BY <1>4, Zenon DEF StartsCreating
  <2>3. main.at \in {"pool", "starting"} /\ lock[t] = "free" /\ threads' \in Nat /\ threads' >= threads
    BY <1>1, <2>2, MainParts DEF AppTypes, LockOf
  <2>4. FinishIsOne' /\ ShutdownIsKnown'
    BY <1>1, <1>2, <2>1, FinishKept DEF ShutdownIsKnown
  <2>5. ShutdownHasLock'
    BY <1>1, <1>2, <2>1, <2>3 DEF ShutdownHasLock, AppTypes
  <2>6. ShutdownIsAwaited'
    <3>1. shutdown.on <= threads' /\ shutdown.on \in Nat
      BY <1>1, <1>2, <2>3, ThreadNumbers DEF ShutdownIsAwaited, AppTypes
    <3>2. shutdown.at \in {"lock", "switch"} => shutdown.on # 0 /\ busy[shutdown.on] = "shutdown"
      BY <1>2, <2>3 DEF ShutdownIsAwaited
    <3>3. shutdown.at = "lock" => shutdown.i # 0
      BY <1>2 DEF ShutdownIsAwaited
    <3> QED
      BY <2>1, <3>1, <3>2, <3>3 DEF ShutdownIsAwaited
  <2> QED
    BY <2>4, <2>5, <2>6 DEF ShutdownIsOne
<1>5. ASSUME NEW kind \in Kinds, HasCreated(t, kind)
      PROVE  ShutdownIsOne'
  <2>1. /\ lock[t] = "creation" /\ lock' = [lock EXCEPT ![t] = "free"]
        /\ mainQueue' = Append(mainQueue, Task("welcome", "welcome")) \/ UNCHANGED mainQueue
        /\ UNCHANGED <<main, threads, busy, shuttingDown, shutdown, quit>>
    BY <1>5, Zenon DEF HasCreated, Creating
  <2>2. Task("welcome", "welcome") \in MainTask /\ Task("welcome", "welcome").what # "finish"
    BY TaskTypes, TaskParts, KindsParts DEF TaskKinds
  <2>3. FinishIsOne'
    BY <1>1, <1>2, <2>1, <2>2, FinishKept
  <2> QED
    BY <1>1, <1>2, <2>1, <2>3 DEF ShutdownIsOne, ShutdownIsKnown, ShutdownIsAwaited, ShutdownHasLock, AppTypes
<1>6. CASE Serves(t)
  <2>1. UNCHANGED <<main, mainQueue, threads, lock, shuttingDown, shutdown, quit>>
    BY <1>6, Zenon DEF Serves
  <2>2. busy[t] # "shutdown" /\ \E b : busy' \in {busy, [busy EXCEPT ![t] = b]}
    BY <1>6 DEF Serves
  <2>3. shutdown.on # t => busy'[shutdown.on] = busy[shutdown.on] \/ shutdown.on = 0
    BY <1>1, <1>2, <2>2, ThreadNumbers DEF ShutdownIsAwaited, AppTypes
  <2>4. ShutdownIsAwaited'
    BY <1>2, <2>1, <2>2, <2>3 DEF ShutdownIsAwaited
  <2>5. FinishIsOne'
    BY <1>1, <1>2, <2>1, FinishKept
  <2> QED
    BY <1>2, <2>1, <2>4, <2>5 DEF ShutdownIsOne, ShutdownIsKnown, ShutdownHasLock
<1>7. CASE HasAsked(t)
  <2>1. /\ lock[t] = "shutdown" /\ shutdown.at = "asked" /\ shutdown.i = t
        /\ busy' = [busy EXCEPT ![t] = "shutdown"]
        /\ UNCHANGED <<main, threads, shuttingDown, quit>>
    BY <1>7, Zenon DEF HasAsked
  <2>2. shutdown'.at = "lock" /\ shutdown'.on = t /\ shutdown'.i = t + 1
    BY <1>1, <1>7, <2>1 DEF HasAsked, AppTypes
  <2>3. UNCHANGED mainQueue \/ \E task \in MainTask : mainQueue' = Append(mainQueue, task) /\ task.what # "finish"
    BY <1>7 DEF HasAsked, Closes
  <2>4. \A k \in DOMAIN mainQueue' : mainQueue'[k].what # "finish"
    <3>1. \A k \in DOMAIN mainQueue : mainQueue[k].what # "finish"
      BY <1>2, <2>1, FinishNone
    <3>2. CASE UNCHANGED mainQueue
      BY <3>1, <3>2
    <3>3. ASSUME NEW task \in MainTask, mainQueue' = Append(mainQueue, task), task.what # "finish"
          PROVE  \A k \in DOMAIN mainQueue' : mainQueue'[k].what # "finish"
      BY <1>1, <3>1, <3>3, QueueGrows
    <3> QED
      BY <2>3, <3>2, <3>3
  <2>5. ~(t > threads) /\ busy'[t] = "shutdown" /\ t + 1 # 0
    BY <1>1, <2>1 DEF LockOf, AppTypes
  <2>6. ShutdownIsKnown'
    BY <1>2, <2>1, <2>2 DEF ShutdownIsKnown
  <2>7. ShutdownIsAwaited'
    BY <1>1, <2>1, <2>2, <2>5 DEF ShutdownIsAwaited
  <2>8. ShutdownHasLock' /\ FinishIsOne'
    BY <2>2, <2>4 DEF ShutdownHasLock, FinishIsOne
  <2> QED
    BY <2>6, <2>7, <2>8 DEF ShutdownIsOne
<1> QED
  BY <1>3, <1>4, <1>5, <1>6, <1>7, Zenon DEF OfThread

LEMMA BeginsOne ==
  ASSUME AppInv, Begins, mainQueue' \in {mainQueue, Tail(mainQueue)}, mainQueue' # mainQueue => mainQueue # <<>>, UNCHANGED <<threads, quit>>
  PROVE  ShutdownIsOne'
<1>1. AppTypes /\ threads \in Nat /\ ShutdownIsKnown /\ FinishIsOne
  BY ThreadNumbers DEF AppInv, ShutdownIsOne
<1>2. /\ ~shuttingDown /\ shuttingDown' = TRUE /\ main'.at = "shutdown"
      /\ shutdown'.at = "lock" /\ shutdown'.on = 0 /\ shutdown'.i = 1
  BY DEF Begins
<1>3. ~quit /\ shutdown.at = "none"
  BY <1>1, <1>2 DEF ShutdownIsKnown
<1>4. \A k \in DOMAIN mainQueue : mainQueue[k].what # "finish"
  BY <1>1, <1>3, FinishNone
<1>5. \A k \in DOMAIN mainQueue' : mainQueue'[k].what # "finish"
  <2>1. CASE mainQueue' = mainQueue
    BY <1>4, <2>1
  <2>2. CASE mainQueue # <<>> /\ mainQueue' = Tail(mainQueue)
    BY <1>1, <1>4, <2>2, QueueShrinks
  <2> QED
    BY <2>1, <2>2
<1> QED
  BY <1>1, <1>2, <1>3, <1>5 DEF ShutdownIsOne, ShutdownIsKnown, ShutdownIsAwaited, ShutdownHasLock, FinishIsOne

LEMMA OneOfMain ==
  ASSUME AppInv, OfMain
  PROVE  ShutdownIsOne'
<1>1. AppTypes /\ threads \in Nat
  BY ThreadNumbers DEF AppInv
<1>2. ShutdownIsKnown /\ ShutdownIsAwaited /\ ShutdownHasLock /\ FinishIsOne
  BY DEF AppInv, ShutdownIsOne
<1>3. CASE MainMoves
  <2>1. UNCHANGED <<mainQueue, threads, lock, shuttingDown, shutdown, quit>>
    BY <1>3, Zenon DEF MainMoves
  <2>2. UNCHANGED main \/ main.at # "shutdown"
    BY <1>3 DEF MainMoves, Idle
  <2>3. shutdown.on # 0 /\ busy[shutdown.on] = "shutdown" => busy'[shutdown.on] = "shutdown"
    <3>1. \/ UNCHANGED busy
          \/ main.at = "pool" /\ main.i > threads /\ busy' = [busy EXCEPT ![main.i] = "starting"]
          \/ \E t \in Threads : busy[t] = "starting" /\ busy' = [busy EXCEPT ![t] = "idle"]
      BY <1>3, Zenon DEF MainMoves
    <3>2. main.at = "pool" /\ main.i > threads => main.i # shutdown.on
      BY <1>1, <1>2, MainParts DEF AppTypes, ShutdownIsAwaited
    <3>3. shutdown.on # 0 => shutdown.on \in Threads
      BY <1>1, ThreadNumbers DEF AppTypes, Threads
    <3>4. CASE \E t \in Threads : busy[t] = "starting" /\ busy' = [busy EXCEPT ![t] = "idle"]
      BY <1>1, <3>3, <3>4 DEF AppTypes
    <3>5. CASE main.at = "pool" /\ main.i > threads /\ busy' = [busy EXCEPT ![main.i] = "starting"]
      BY <1>1, <3>2, <3>3, <3>5 DEF AppTypes
    <3> QED
      BY <3>1, <3>4, <3>5
  <2>4. ShutdownIsAwaited'
    <3>1. shutdown.on <= threads /\ (shutdown.at = "lock" => shutdown.i # 0)
      BY <1>2 DEF ShutdownIsAwaited
    <3>2. CASE shutdown.at \in {"lock", "switch"} /\ shutdown.on = 0
      BY <1>2, <2>1, <2>2, <3>1, <3>2 DEF ShutdownIsAwaited
    <3>3. CASE shutdown.at \in {"lock", "switch"} /\ shutdown.on # 0
      BY <1>2, <2>1, <2>3, <3>1, <3>3 DEF ShutdownIsAwaited
    <3>4. CASE shutdown.at \notin {"lock", "switch"}
      BY <2>1, <3>1, <3>4 DEF ShutdownIsAwaited
    <3> QED
      BY <3>2, <3>3, <3>4
  <2>5. FinishIsOne'
    BY <1>1, <1>2, <2>1, FinishKept
  <2> QED
    BY <1>2, <2>1, <2>4, <2>5 DEF ShutdownIsOne, ShutdownIsKnown, ShutdownHasLock
<1>4. CASE TakesTask
  <2>1. /\ main = Idle /\ mainQueue # <<>> /\ mainQueue' = Tail(mainQueue)
        /\ UNCHANGED <<threads, lock, busy>>
    BY <1>4, Zenon DEF TakesTask
  <2>2. \/ UNCHANGED <<shuttingDown, shutdown, quit>>
        \/ Begins /\ UNCHANGED quit
        \/ Head(mainQueue).what = "finish" /\ quit' = TRUE /\ shutdown' = NoShutdown /\ UNCHANGED shuttingDown
    BY <1>4, Zenon DEF TakesTask
  <2>3. main.at = "idle"
    BY <2>1 DEF Idle
  <2>4. CASE UNCHANGED <<shuttingDown, shutdown, quit>>
    <3>1. FinishIsOne'
      BY <1>1, <1>2, <2>1, <2>4, FinishKept
    <3>2. ShutdownIsAwaited'
      BY <1>2, <2>1, <2>3, <2>4 DEF ShutdownIsAwaited
    <3> QED
      BY <1>2, <2>1, <2>4, <3>1, <3>2 DEF ShutdownIsOne, ShutdownIsKnown, ShutdownHasLock
  <2>5. CASE Begins /\ UNCHANGED quit
    BY <2>1, <2>5, BeginsOne
  <2>6. CASE Head(mainQueue).what = "finish" /\ quit' = TRUE /\ shutdown' = NoShutdown /\ UNCHANGED shuttingDown
    <3>1. 1 \in DOMAIN mainQueue /\ mainQueue[1].what = "finish"
      BY <1>1, <2>1, <2>6, QueueTail DEF AppTypes, QueueType
    <3>2. shutdown.at = "finish" /\ shuttingDown = TRUE
      BY <1>1, <1>2, <3>1 DEF FinishIsOne, ShutdownIsKnown, AppTypes
    <3>3. shutdown'.at = "none" /\ shutdown'.on = 0
      BY <2>6 DEF NoShutdown
    <3>4. \A k \in DOMAIN mainQueue' : mainQueue'[k].what # "finish"
      <4>1. \A k \in DOMAIN mainQueue' : k + 1 \in DOMAIN mainQueue /\ k + 1 # 1 /\ mainQueue'[k] = mainQueue[k + 1]
        <5>1. \A k \in DOMAIN mainQueue' : k + 1 \in DOMAIN mainQueue /\ k \in Nat /\ mainQueue'[k] = mainQueue[k + 1] /\ k # 0
          BY <1>1, <2>1, QueueTail, LenProperties DEF AppTypes, QueueType
        <5> QED
          BY <5>1
      <4> QED
        BY <1>2, <3>1, <4>1 DEF FinishIsOne
    <3> QED
      BY <1>1, <2>1, <2>6, <3>2, <3>3, <3>4 DEF ShutdownIsOne, ShutdownIsKnown, ShutdownIsAwaited, ShutdownHasLock, FinishIsOne
  <2> QED
    BY <2>2, <2>4, <2>5, <2>6
<1>5. CASE Forgets \/ Returns
  <2>1. /\ main.at \in {"forget", "idle"}
        /\ UNCHANGED <<mainQueue, threads, lock, busy, shuttingDown, shutdown, quit>>
    BY <1>5 DEF Forgets, Returns, Idle
  <2>2. FinishIsOne'
    BY <1>1, <1>2, <2>1, FinishKept
  <2>3. ShutdownIsAwaited'
    BY <1>2, <2>1 DEF ShutdownIsAwaited
  <2> QED
    BY <1>2, <2>1, <2>2, <2>3 DEF ShutdownIsOne, ShutdownIsKnown, ShutdownHasLock
<1>6. CASE PageStays
  <2>1. UNCHANGED <<main, threads, lock, busy, shuttingDown, shutdown, quit>>
    BY <1>6, Zenon DEF PageStays, Around
  <2>2. \/ UNCHANGED mainQueue
        \/ \E task \in MainTask : mainQueue' = Append(mainQueue, task) /\ task.what # "finish"
    <3>1. CASE mainQueue' = Append(mainQueue, Task("edit", "welcome"))
      <4>1. Task("edit", "welcome") \in MainTask /\ Task("edit", "welcome").what # "finish"
        BY TaskTypes, TaskParts, KindsParts DEF TaskKinds
      <4> QED
        BY <3>1, <4>1
    <3>2. ASSUME NEW t \in Threads, PickerOn(t), mainQueue' = Append(mainQueue, Task("preview", window[t].of))
          PROVE  \E task \in MainTask : mainQueue' = Append(mainQueue, task) /\ task.what # "finish"
      <4>1. Task("preview", window[t].of) \in MainTask /\ Task("preview", window[t].of).what # "finish"
        BY <3>2, TaskTypes, TaskParts, KindsParts DEF TaskKinds, PickerOn
      <4> QED
        BY <3>2, <4>1
    <3> QED
      BY <1>6, <3>1, <3>2, Zenon DEF PageStays
  <2>3. FinishIsOne'
    BY <1>1, <1>2, <2>1, <2>2, FinishKept
  <2> QED
    BY <1>2, <2>1, <2>3 DEF ShutdownIsOne, ShutdownIsKnown, ShutdownIsAwaited, ShutdownHasLock
<1>7. CASE Begins /\ UNCHANGED <<life, mainQueue, threads, lock, normal, low, busy, pickers, pickerMutex, preview, quit>>
  BY <1>7, BeginsOne
<1> QED
  BY <1>3, <1>4, <1>5, <1>6, <1>7, Zenon DEF OfMain, Elsewhere

LEMMA OneOfShutdown ==
  ASSUME AppInv, OfShutdown
  PROVE  ShutdownIsOne'
<1>1. AppTypes /\ threads \in Nat
  BY ThreadNumbers DEF AppInv
<1>2. ShutdownIsKnown /\ ShutdownIsAwaited /\ ShutdownHasLock /\ FinishIsOne
  BY DEF AppInv, ShutdownIsOne
<1>3. CASE Locks
  <2>1. /\ shutdown.at = "lock" /\ shutdown.i <= shutdown.n
        /\ UNCHANGED <<main, mainQueue, threads, busy, shuttingDown, quit>>
        /\ \/ lock' = [lock EXCEPT ![shutdown.i] = "shutdown"] /\ shutdown' = [shutdown EXCEPT !.at = "switch"]
           \/ shutdown' = [shutdown EXCEPT !.i = @ + 1] /\ UNCHANGED lock
    BY <1>3, Zenon DEF Locks
  <2>2. shutdown.i # 0 /\ shutdown.i \in Nat /\ shutdown.n \in 0 .. MaxThreads
    BY <1>1, <1>2, <2>1, ThreadNumbers DEF AppTypes, ShutdownIsAwaited
  <2>3. shutdown'.on = shutdown.on /\ (shutdown'.at = "switch" \/ (shutdown'.at = "lock" /\ shutdown'.i # 0))
    BY <1>1, <2>1, <2>2 DEF AppTypes
  <2>4. ShutdownHasLock'
    <3>1. CASE lock' = [lock EXCEPT ![shutdown.i] = "shutdown"] /\ shutdown' = [shutdown EXCEPT !.at = "switch"]
      <4>1. shutdown.i \in Threads /\ shutdown'.i = shutdown.i
        BY <1>1, <2>1, <2>2, <3>1, ThreadNumbers DEF AppTypes, Threads
      <4> QED
        BY <1>1, <3>1, <4>1 DEF ShutdownHasLock, AppTypes
    <3>2. CASE shutdown' = [shutdown EXCEPT !.i = @ + 1]
      <4>1. shutdown'.at = "lock"
        BY <1>1, <2>1, <3>2 DEF AppTypes
      <4> QED
        BY <4>1 DEF ShutdownHasLock
    <3> QED
      BY <2>1, <3>1, <3>2
  <2>5. \A k \in DOMAIN mainQueue : mainQueue[k].what # "finish"
    BY <1>2, <2>1, FinishNone
  <2> QED
    BY <1>2, <2>1, <2>3, <2>4, <2>5 DEF ShutdownIsOne, ShutdownIsKnown, ShutdownIsAwaited, FinishIsOne
<1>4. CASE Switches
  <2>1. /\ shutdown.at = "switch" /\ shutdown' = [shutdown EXCEPT !.at = "asked"]
        /\ UNCHANGED <<mainQueue, threads, lock, shuttingDown, quit>>
    BY <1>4, Zenon DEF Switches
  <2>2. shutdown'.at = "asked" /\ shutdown'.on = shutdown.on /\ shutdown'.i = shutdown.i
    BY <1>1, <2>1 DEF AppTypes
  <2>3. \A k \in DOMAIN mainQueue : mainQueue[k].what # "finish"
    BY <1>2, <2>1, FinishNone
  <2> QED
    BY <1>2, <2>1, <2>2, <2>3 DEF ShutdownIsOne, ShutdownIsKnown, ShutdownIsAwaited, ShutdownHasLock, FinishIsOne
<1>5. CASE HasAskedAll
  <2>1. /\ shutdown.at = "lock" /\ UNCHANGED <<threads, lock, quit>>
        /\ \/ /\ mainQueue' = Append(mainQueue, Task("finish", "welcome"))
              /\ shutdown' = [shutdown EXCEPT !.at = "finish"] /\ UNCHANGED shuttingDown
           \/ shuttingDown' = FALSE /\ shutdown' = NoShutdown /\ UNCHANGED mainQueue
    BY <1>5, Zenon DEF HasAskedAll
  <2>2. \A k \in DOMAIN mainQueue : mainQueue[k].what # "finish"
    BY <1>2, <2>1, FinishNone
  <2>3. ~quit /\ shuttingDown
    BY <1>2, <2>1 DEF ShutdownIsKnown
  <2>4. CASE /\ mainQueue' = Append(mainQueue, Task("finish", "welcome"))
             /\ shutdown' = [shutdown EXCEPT !.at = "finish"] /\ UNCHANGED shuttingDown
    <3>1. shutdown'.at = "finish" /\ shutdown'.on = shutdown.on
      BY <1>1, <2>4 DEF AppTypes
    <3>2. Task("finish", "welcome") \in MainTask
      BY TaskTypes, KindsParts DEF TaskKinds
    <3>3. \A k \in DOMAIN mainQueue' : mainQueue'[k].what = "finish" => k = Len(mainQueue) + 1
      BY <1>1, <2>2, <2>4, <3>2, QueueAppend DEF AppTypes, QueueType
    <3>4. FinishIsOne'
      BY <3>1, <3>3 DEF FinishIsOne
    <3> QED
      BY <1>2, <2>1, <2>3, <2>4, <3>1, <3>4 DEF ShutdownIsOne, ShutdownIsKnown, ShutdownIsAwaited, ShutdownHasLock
  <2>5. CASE shuttingDown' = FALSE /\ shutdown' = NoShutdown /\ UNCHANGED mainQueue
    <3>1. shutdown'.at = "none" /\ shutdown'.on = 0
      BY <2>5 DEF NoShutdown
    <3> QED
      BY <1>1, <2>1, <2>2, <2>3, <2>5, <3>1 DEF ShutdownIsOne, ShutdownIsKnown, ShutdownIsAwaited, ShutdownHasLock, FinishIsOne
  <2> QED
    BY <2>1, <2>4, <2>5
<1> QED
  BY <1>3, <1>4, <1>5, Zenon DEF OfShutdown

-----------------------------------------------------------------------------
(* Pickers.                                                                *)
LEMMA NoNewWindows ==
  ASSUME AppInv,
         \/ OfMain \/ OfShutdown
         \/ \E t \in Threads : PageCloses(t) \/ StartsCreating(t) \/ Serves(t) \/ HasAsked(t)
  PROVE  \A u \in Threads : NoNewWindow(u)
<1>1. AppTypes
  BY DEF AppInv
<1>2. ASSUME UNCHANGED window \/ NoneCloses \/ Begins
      PROVE  \A u \in Threads : NoNewWindow(u)
  <2>1. \A u \in Threads : window'[u].of = window[u].of /\ window'[u].open = window[u].open
    BY <1>1, <1>2, WindowsEarly DEF NoneCloses, Same, Begins, AppTypes
  <2>2. \A u \in Threads : window[u].open \in BOOLEAN
    BY <1>1 DEF AppTypes, Window
  <2> QED
    BY <2>1, <2>2 DEF NoNewWindow
<1>3. ASSUME NEW t \in Threads, Closes(t)
      PROVE  \A u \in Threads : NoNewWindow(u)
  <2>1. \A u \in Threads : u # t => window'[u] = window[u]
    BY <1>3 DEF Closes, Others
  <2>2. NoNewWindow(t)
    BY <1>3 DEF Closes, NoNewWindow
  <2> QED
    BY <2>1, <2>2 DEF NoNewWindow
<1>4. CASE OfMain
  <2>1. UNCHANGED window \/ NoneCloses \/ Begins
    BY <1>4, Zenon DEF OfMain, MainMoves, TakesTask, Forgets, Elsewhere, PageStays, Returns
  <2> QED
    BY <1>2, <2>1
<1>5. CASE OfShutdown
  <2>1. UNCHANGED window
    BY <1>5, Zenon DEF OfShutdown, Locks, Switches, HasAskedAll
  <2> QED
    BY <1>2, <2>1
<1>6. ASSUME NEW t \in Threads, PageCloses(t) \/ HasAsked(t)
      PROVE  \A u \in Threads : NoNewWindow(u)
  <2>1. Closes(t) \/ NoneCloses
    BY <1>6, Zenon DEF PageCloses, HasAsked
  <2> QED
    BY <1>2, <1>3, <2>1
<1>7. ASSUME NEW t \in Threads, StartsCreating(t)
      PROVE  \A u \in Threads : NoNewWindow(u)
  <2>1. window' = [window EXCEPT ![t].late = shuttingDown]
    BY <1>7, Zenon DEF StartsCreating, StartCreating
  <2>2. \A u \in Threads : window'[u].of = window[u].of /\ window'[u].open = window[u].open
    BY <1>1, <2>1, WindowLate DEF Others, AppTypes
  <2>3. \A u \in Threads : window[u].open \in BOOLEAN
    BY <1>1 DEF AppTypes, Window
  <2> QED
    BY <2>2, <2>3 DEF NoNewWindow
<1>8. ASSUME NEW t \in Threads, Serves(t)
      PROVE  \A u \in Threads : NoNewWindow(u)
  <2>1. UNCHANGED window \/ window' = [window EXCEPT ![t] = NoWindow]
    BY <1>8, Zenon DEF Serves
  <2> QED
    BY <1>1, <1>2, <2>1, NoWindowType DEF NoNewWindow, AppTypes
<1> QED
  BY <1>4, <1>5, <1>6, <1>7, <1>8

LEMMA NoNewCreating ==
  ASSUME AppInv,
         \/ OfMain \/ OfShutdown
         \/ \E t \in Threads : PageCloses(t) \/ Serves(t) \/ HasAsked(t) \/ \E kind \in Kinds : HasCreated(t, kind)
  PROVE  \A u \in Threads : \A kind : Creating(u, kind)' => Creating(u, kind)
<1>1. AppTypes
  BY DEF AppInv
<1>2. ASSUME UNCHANGED <<lock, normal>>
      PROVE  \A u \in Threads : \A kind : Creating(u, kind)' => Creating(u, kind)
  BY <1>2 DEF Creating
<1>3. ASSUME NEW t \in Threads, lock' = [lock EXCEPT ![t] = "free"], normal' = [normal EXCEPT ![t] = <<>>]
      PROVE  \A u \in Threads : \A kind : Creating(u, kind)' => Creating(u, kind)
  BY <1>1, <1>3 DEF Creating, AppTypes
<1>4. CASE OfMain
  <2>1. UNCHANGED <<lock, normal>>
    BY <1>4, Zenon DEF OfMain, MainMoves, TakesTask, Forgets, Elsewhere, PageStays, Around, Returns
  <2> QED
    BY <1>2, <2>1
<1>5. CASE OfShutdown
  <2>1. CASE Locks
    <3>1. UNCHANGED normal /\ (UNCHANGED lock \/ lock' = [lock EXCEPT ![shutdown.i] = "shutdown"])
      BY <2>1, Zenon DEF Locks
    <3> QED
      BY <1>1, <3>1 DEF Creating, AppTypes
  <2>2. CASE Switches
    <3>1. shutdown.at = "switch" /\ UNCHANGED lock /\ normal' = [normal EXCEPT ![shutdown.i] = Append(@, Task("ask", "welcome"))]
      BY <2>2, Zenon DEF Switches
    <3>2. lock[shutdown.i] = "shutdown"
      BY <3>1 DEF AppInv, ShutdownIsOne, ShutdownHasLock
    <3> QED
      BY <1>1, <3>1, <3>2 DEF Creating, AppTypes
  <2>3. CASE HasAskedAll
    <3>1. UNCHANGED <<lock, normal>>
      BY <2>3, Zenon DEF HasAskedAll
    <3> QED
      BY <1>2, <3>1
  <2> QED
    BY <1>5, <2>1, <2>2, <2>3, Zenon DEF OfShutdown
<1>6. ASSUME NEW t \in Threads, PageCloses(t) \/ Serves(t)
      PROVE  \A u \in Threads : \A kind : Creating(u, kind)' => Creating(u, kind)
  <2>1. UNCHANGED <<lock, normal>>
    BY <1>6, Zenon DEF PageCloses, Around, Serves
  <2> QED
    BY <1>2, <2>1
<1>7. ASSUME NEW t \in Threads, HasAsked(t) \/ \E kind \in Kinds : HasCreated(t, kind)
      PROVE  \A u \in Threads : \A kind : Creating(u, kind)' => Creating(u, kind)
  <2>1. lock' = [lock EXCEPT ![t] = "free"] /\ normal' = [normal EXCEPT ![t] = <<>>]
    BY <1>7, Zenon DEF HasAsked, HasCreated
  <2> QED
    BY <1>3, <2>1
<1> QED
  BY <1>4, <1>5, <1>6, <1>7

(* What a thread is being given when its creation starts.                  *)
LEMMA CreatingStarts ==
  ASSUME AppInv, NEW t \in Threads, StartsCreating(t)
  PROVE  /\ \A u \in Threads : \A kind : Creating(u, kind)' => IF u = t THEN kind = main.s ELSE Creating(u, kind)
         /\ main.at \in {"pool", "starting"} /\ main.s \in States /\ pickerMutex /\ pickers[main.s] = 0
         /\ \A u \in Threads, s \in States : ~Creating(u, s)
<1>1. /\ lock' = [lock EXCEPT ![t] = "creation"]
      /\ normal' = [normal EXCEPT ![t] = Append(normal[t], Task("create", main.s))]
      /\ main.at \in {"pool", "starting"}
  BY Zenon DEF StartsCreating, StartCreating
<1>2. main.s \in States
  BY <1>1, MainParts DEF AppInv, AppTypes
<1>3. lock[t] = "free"
  <2>1. lock[t] = "free" \/ (main.at = "starting" /\ t = main.i)
    BY Zenon DEF StartsCreating
  <2>2. main.at = "starting" /\ t = main.i => t > threads
    BY MainParts, ThreadNumbers DEF AppInv, AppTypes
  <2> QED
    BY <2>1, <2>2 DEF AppInv, LocksHaveTasks, LockOf
<1>4. normal[t] = <<>>
  BY <1>3 DEF AppInv, LocksHaveTasks, LockOf
<1>5. normal'[t] = <<Task("create", main.s)>>
  BY <1>1, <1>4, SingleQueue DEF AppInv, AppTypes
<1>6. \A kind : <<Task("create", main.s)>> = <<Task("create", kind)>> => kind = main.s
  <2> TAKE kind
  <2> HAVE <<Task("create", main.s)>> = <<Task("create", kind)>>
  <2>1. Task("create", main.s) = Task("create", kind)
    BY SingleQueue
  <2> QED
    BY <2>1, TaskParts
<1>7. \A u \in Threads : \A kind : Creating(u, kind)' => IF u = t THEN kind = main.s ELSE Creating(u, kind)
  BY <1>1, <1>5, <1>6 DEF Creating, AppInv, AppTypes
<1>8. pickerMutex /\ pickers[main.s] = 0 /\ \A u \in Threads, s \in States : ~Creating(u, s)
  BY <1>1 DEF AppInv, PickersInv, CreationHoldsMutex
<1> QED
  BY <1>1, <1>2, <1>7, <1>8

Step == (\E t \in Threads : OfThread(t)) \/ OfMain \/ OfShutdown

(* The steps but the creation of a host, which alone opens a window.       *)
StepHere ==
  OfMain \/ OfShutdown \/ \E t \in Threads : PageCloses(t) \/ StartsCreating(t) \/ Serves(t) \/ HasAsked(t)

LEMMA StepHasCreated ==
  ASSUME Step
  PROVE  StepHere \/ \E t \in Threads, kind \in Kinds : HasCreated(t, kind)
BY Zenon DEF Step, StepHere, OfThread

LEMMA CreatedWindows ==
  ASSUME AppInv, NEW t \in Threads, NEW kind \in Kinds, HasCreated(t, kind)
  PROVE  /\ \A u \in Threads : u # t => window'[u] = window[u]
         /\ window'[t].of = kind /\ window'[t].open = TRUE /\ window'[t].late = window[t].late
         /\ window[t].of = "none" /\ ~window[t].open /\ Creating(t, kind)
         /\ kind \in States => pickerMutex /\ pickers[kind] = 0
<1>1. /\ Creating(t, kind) /\ Others(window', t)
      /\ window'[t].of = kind /\ window'[t].open = TRUE /\ window'[t].late = window[t].late
  BY Zenon DEF HasCreated
<1>2. window[t].of = "none" /\ ~window[t].open
  BY <1>1 DEF AppInv, AppTypes, LocksHaveTasks, LockOf, Creating, Window
<1>3. kind \in States => pickerMutex /\ pickers[kind] = 0
  BY <1>1 DEF AppInv, PickersInv, CreationHoldsMutex
<1> QED
  BY <1>1, <1>2, <1>3 DEF Others

LEMMA PickersChange ==
  ASSUME AppInv, StepHere
  PROVE  UNCHANGED pickers \/ (Forgets /\ main.s \in States /\ pickers' = [pickers EXCEPT ![main.s] = 0])
<1>1. UNCHANGED pickers \/ Forgets
  BY Zenon DEF StepHere, OfMain, OfShutdown, MainMoves, TakesTask, Elsewhere, PageStays, Around, Returns, Locks, Switches,
     HasAskedAll, PageCloses, StartsCreating, Serves, HasAsked
<1>2. Forgets => main.s \in States
  BY MainParts DEF Forgets, AppInv, AppTypes
<1>3. Forgets => pickers' = [pickers EXCEPT ![main.s] = 0]
  BY Zenon DEF Forgets
<1> QED
  BY <1>1, <1>2, <1>3, Zenon

LEMMA OpenIsKnownStep ==
  ASSUME AppInv, Step
  PROVE  OpenIsKnown'
<1>1. AppTypes /\ OpenIsKnown /\ WelcomeIsFirst /\ ForgottenOnce /\ pickers \in [States -> 0 .. MaxThreads]
  BY DEF AppInv, PickersInv, AppTypes
<1>2. CASE StepHere
  <2>1. \A u \in Threads : NoNewWindow(u)
    BY <1>2, NoNewWindows DEF StepHere
  <2>2. CASE UNCHANGED pickers
    BY <1>1, <2>1, <2>2 DEF OpenIsKnown, NoNewWindow
  <2>3. CASE Forgets /\ main.s \in States /\ pickers' = [pickers EXCEPT ![main.s] = 0]
    <3>1. \A u \in Threads : ~(window[u].open /\ window[u].of = main.s)
      BY <1>1, <2>3 DEF ForgottenOnce, Forgetting, Forgets
    <3> QED
      BY <1>1, <2>1, <2>3, <3>1 DEF OpenIsKnown, NoNewWindow
  <2> QED
    BY <1>2, <2>2, <2>3, PickersChange
<1>3. ASSUME NEW t \in Threads, NEW kind \in Kinds, HasCreated(t, kind)
      PROVE  OpenIsKnown'
  <2>1. /\ \A u \in Threads : u # t => window'[u] = window[u]
        /\ window'[t].of = kind /\ Creating(t, kind) /\ (kind \in States => pickers[kind] = 0)
    BY <1>3, CreatedWindows
  <2>2. \/ kind = "welcome" /\ UNCHANGED pickers
        \/ kind \in States /\ pickers' = [pickers EXCEPT ![kind] = t]
    BY <1>3, Zenon DEF HasCreated
  <2>3. kind = "welcome" => t = 1
    BY <1>1, <2>1 DEF WelcomeIsFirst
  <2>4. \A u \in Threads : u # 0
    BY <1>1, ThreadNumbers
  <2> QED
    BY <1>1, <2>1, <2>2, <2>3, <2>4, KindsParts DEF OpenIsKnown
<1> QED
  BY <1>2, <1>3, StepHasCreated

LEMMA WelcomeIsFirstStep ==
  ASSUME AppInv, Step
  PROVE  WelcomeIsFirst'
<1>1. WelcomeIsFirst
  BY DEF AppInv, PickersInv
<1>2. CASE \E t \in Threads : StartsCreating(t)
  <2>1. \A u \in Threads : Creating(u, "welcome")' => Creating(u, "welcome")
    BY <1>2, CreatingStarts, KindsParts
  <2> QED
    BY <1>1, <2>1 DEF WelcomeIsFirst
<1>3. CASE ~\E t \in Threads : StartsCreating(t)
  <2>1. \A u \in Threads : \A kind : Creating(u, kind)' => Creating(u, kind)
    <3>1. \/ OfMain \/ OfShutdown
          \/ \E t \in Threads : PageCloses(t) \/ Serves(t) \/ HasAsked(t) \/ \E kind \in Kinds : HasCreated(t, kind)
      BY <1>3, Zenon DEF Step, OfThread
    <3> QED
      BY <3>1, NoNewCreating
  <2> QED
    BY <1>1, <2>1 DEF WelcomeIsFirst
<1> QED
  BY <1>2, <1>3

(* A step that is neither of the main thread's look for a thread nor the   *)
(* start or the end of a creation.                                         *)
LEMMA MutexElsewhere ==
  ASSUME AppInv, Step, ~MainMoves, ~\E t \in Threads : StartsCreating(t) \/ \E kind \in Kinds : HasCreated(t, kind)
  PROVE  /\ UNCHANGED pickerMutex /\ (UNCHANGED main \/ main'.at \notin {"pool", "starting"})
         /\ \A s \in States : pickers'[s] \in {pickers[s], 0}
         /\ \A u \in Threads : \A kind : Creating(u, kind)' => Creating(u, kind)
<1>1. \/ OfMain \/ OfShutdown
      \/ \E t \in Threads : PageCloses(t) \/ Serves(t) \/ HasAsked(t)
  BY Zenon DEF Step, OfThread
<1>2. \A u \in Threads : \A kind : Creating(u, kind)' => Creating(u, kind)
  BY <1>1, NoNewCreating
<1>3. UNCHANGED pickerMutex
  BY <1>1, Zenon DEF OfMain, OfShutdown, TakesTask, Forgets, Elsewhere, PageStays, Around, Returns, Locks, Switches,
     HasAskedAll, PageCloses, Serves, HasAsked
<1>4. \A s \in States : pickers'[s] \in {pickers[s], 0}
  <2>1. StepHere
    BY <1>1, Zenon DEF StepHere
  <2>2. pickers \in [States -> 0 .. MaxThreads]
    BY DEF AppInv, AppTypes
  <2> QED
    BY <2>1, <2>2, PickersChange
<1>5. UNCHANGED main \/ main'.at \notin {"pool", "starting"}
  <2>1. CASE OfMain
    <3>1. CASE TakesTask
      <4>1. UNCHANGED main \/ main' = [at |-> "forget", s |-> Head(mainQueue).s] \/ Begins
        BY <3>1, Zenon DEF TakesTask
      <4> QED
        BY <4>1 DEF Begins
    <3>2. CASE Forgets \/ Returns
      BY <3>2 DEF Forgets, Returns, Idle
    <3>3. CASE Elsewhere
      <4>1. UNCHANGED main \/ Begins
        BY <3>3, Zenon DEF Elsewhere, PageStays, Around
      <4> QED
        BY <4>1 DEF Begins
    <3> QED
      BY <2>1, <3>1, <3>2, <3>3, Zenon DEF OfMain
  <2>2. CASE OfShutdown
    <3>1. UNCHANGED main \/ Leave(shutdown.on)
      BY <2>2, Zenon DEF OfShutdown, Locks, Switches, HasAskedAll
    <3> QED
      BY <3>1 DEF Leave, Idle
  <2>3. CASE \E t \in Threads : PageCloses(t) \/ Serves(t) \/ HasAsked(t)
    BY <2>3, Zenon DEF PageCloses, Around, Serves, HasAsked
  <2> QED
    BY <1>1, <2>1, <2>2, <2>3
<1> QED
  BY <1>2, <1>3, <1>4, <1>5

LEMMA CreationHoldsMutexStep ==
  ASSUME AppInv, Step
  PROVE  CreationHoldsMutex'
<1>1. AppTypes /\ CreationHoldsMutex
  BY DEF AppInv, PickersInv
<1>2. CASE MainMoves
  <2>1. UNCHANGED pickers /\ \A u \in Threads : \A kind : Creating(u, kind)' => Creating(u, kind)
    BY <1>2, NoNewCreating, Zenon DEF OfMain, MainMoves
  <2>2. \/ UNCHANGED <<main, pickerMutex>>
        \/ main'.at \notin {"pool", "starting"} /\ UNCHANGED pickerMutex
        \/ ~pickerMutex /\ pickers[main.s] = 0 /\ pickerMutex' = TRUE /\ main'.s = main.s
        \/ main.at = "pool" /\ main'.s = main.s /\ UNCHANGED pickerMutex
    <3>1. \/ UNCHANGED <<main, pickerMutex>>
          \/ \E s \in States : main' = [at |-> "pickers", s |-> s] /\ UNCHANGED pickerMutex
          \/ main' = Idle /\ UNCHANGED pickerMutex
          \/ /\ ~pickerMutex /\ pickers[main.s] = 0
             /\ pickerMutex' = TRUE /\ main' = [at |-> "pool", s |-> main.s, i |-> 1]
          \/ main.at = "pool" /\ main' = [main EXCEPT !.i = @ + 1] /\ UNCHANGED pickerMutex
          \/ main.at = "pool" /\ main' = [main EXCEPT !.at = "starting"] /\ UNCHANGED pickerMutex
      BY <1>2, Zenon DEF MainMoves
    <3>2. main.at = "pool" => main \in [at : {"pool"}, s : States, i : 1 .. threads + 1]
      BY <1>1, MainParts DEF AppTypes
    <3>3. CASE \E s \in States : main' = [at |-> "pickers", s |-> s] /\ UNCHANGED pickerMutex
      BY <3>3
    <3>4. CASE main' = Idle /\ UNCHANGED pickerMutex
      BY <3>4 DEF Idle
    <3>5. CASE pickerMutex' = TRUE /\ main' = [at |-> "pool", s |-> main.s, i |-> 1] /\ ~pickerMutex /\ pickers[main.s] = 0
      <4>1. main'.s = main.s
        BY <3>5
      <4> QED
        BY <3>5, <4>1
    <3>6. CASE main.at = "pool" /\ main' = [main EXCEPT !.i = @ + 1] /\ UNCHANGED pickerMutex
      BY <3>2, <3>6
    <3>7. CASE main.at = "pool" /\ main' = [main EXCEPT !.at = "starting"] /\ UNCHANGED pickerMutex
      BY <3>2, <3>7
    <3> QED
      BY <3>1, <3>3, <3>4, <3>5, <3>6, <3>7
  <2>3. CASE UNCHANGED <<main, pickerMutex>>
    BY <1>1, <2>1, <2>3, Zenon DEF CreationHoldsMutex
  <2>4. CASE main'.at \notin {"pool", "starting"} /\ UNCHANGED pickerMutex
    BY <1>1, <2>1, <2>4, Zenon DEF CreationHoldsMutex
  <2>5. CASE ~pickerMutex /\ pickers[main.s] = 0 /\ pickerMutex' = TRUE /\ main'.s = main.s
    <3>1. \A t \in Threads, s \in States : ~Creating(t, s)
      BY <1>1, <2>5 DEF CreationHoldsMutex
    <3>2. \A t \in Threads, s \in States : ~Creating(t, s)'
      BY <2>1, <3>1
    <3> QED
      BY <2>1, <2>5, <3>2 DEF CreationHoldsMutex
  <2>6. CASE main.at = "pool" /\ main'.s = main.s /\ UNCHANGED pickerMutex
    <3>1. pickerMutex /\ pickers[main.s] = 0 /\ \A t \in Threads, s \in States : ~Creating(t, s)
      BY <1>1, <2>6 DEF CreationHoldsMutex
    <3>2. \A t \in Threads, s \in States : ~Creating(t, s)'
      BY <2>1, <3>1
    <3> QED
      BY <2>1, <2>6, <3>1, <3>2 DEF CreationHoldsMutex
  <2> QED
    BY <2>2, <2>3, <2>4, <2>5, <2>6
<1>3. ASSUME NEW t \in Threads, StartsCreating(t)
      PROVE  CreationHoldsMutex'
  <2>1. /\ \A u \in Threads : \A kind : Creating(u, kind)' => IF u = t THEN kind = main.s ELSE Creating(u, kind)
        /\ main.s \in States /\ pickerMutex /\ pickers[main.s] = 0
        /\ \A u \in Threads, s \in States : ~Creating(u, s)
    BY <1>3, CreatingStarts
  <2>2. UNCHANGED <<pickers, pickerMutex>> /\ main' = Idle
    BY <1>3, Zenon DEF StartsCreating
  <2>3. main'.at = "idle"
    BY <2>2 DEF Idle
  <2>4. \A u \in Threads, s \in States : Creating(u, s)' => u = t /\ s = main.s
    BY <2>1
  <2> QED
    BY <2>1, <2>2, <2>3, <2>4 DEF CreationHoldsMutex
<1>4. ASSUME NEW t \in Threads, NEW kind \in Kinds, HasCreated(t, kind)
      PROVE  CreationHoldsMutex'
  <2>1. \A u \in Threads : \A k : Creating(u, k)' => Creating(u, k)
    BY <1>4, NoNewCreating
  <2>2. Creating(t, kind) /\ lock'[t] = "free" /\ UNCHANGED main
    BY <1>1, <1>4 DEF HasCreated, AppTypes
  <2>3. \A k : ~Creating(t, k)'
    BY <2>2 DEF Creating
  <2>4. CASE kind = "welcome" /\ UNCHANGED <<pickers, pickerMutex>>
    BY <1>1, <2>1, <2>2, <2>4, Zenon DEF CreationHoldsMutex
  <2>5. CASE kind \in States
    <3>1. \A u \in Threads, s \in States : ~Creating(u, s)'
      BY <1>1, <2>1, <2>2, <2>3, <2>5 DEF CreationHoldsMutex
    <3>2. main.at \notin {"pool", "starting"}
      BY <1>1, <2>2, <2>5 DEF CreationHoldsMutex
    <3> QED
      BY <2>2, <3>1, <3>2 DEF CreationHoldsMutex
  <2> QED
    BY <1>4, <2>4, <2>5, Zenon DEF HasCreated
<1>5. CASE ~MainMoves /\ ~\E t \in Threads : StartsCreating(t) \/ \E kind \in Kinds : HasCreated(t, kind)
  <2>1. /\ UNCHANGED pickerMutex /\ (UNCHANGED main \/ main'.at \notin {"pool", "starting"})
        /\ \A s \in States : pickers'[s] \in {pickers[s], 0}
        /\ \A u \in Threads : \A kind : Creating(u, kind)' => Creating(u, kind)
    BY <1>5, MutexElsewhere, Zenon
  <2>2. main.at \in {"pool", "starting"} => main.s \in States
    BY <1>1, MainParts DEF AppTypes
  <2>3. \A s \in States : pickers[s] = 0 => pickers'[s] = 0
    BY <2>1
  <2>4. CASE UNCHANGED main
    BY <1>1, <2>1, <2>2, <2>3, <2>4, Zenon DEF CreationHoldsMutex
  <2>5. CASE main'.at \notin {"pool", "starting"}
    BY <1>1, <2>1, <2>3, <2>5, Zenon DEF CreationHoldsMutex
  <2> QED
    BY <2>1, <2>4, <2>5
<1> QED
  BY <1>2, <1>3, <1>4, <1>5

LEMMA EndingIs ==
  ASSUME NEW x \in MainTask, NEW s
  PROVE  x \in {Task("close", s), Task("commit", s)} <=> x.what \in {"close", "commit"} /\ x.s = s
BY DEF Task, MainTask

(* How the queue of the main thread changes.                               *)
Plain(task) == task.what \notin {"close", "commit"}
AddsPlain == \E task \in MainTask : mainQueue' = Append(mainQueue, task) /\ Plain(task)

LEMMA QueueCases ==
  ASSUME AppInv, Step
  PROVE  \/ UNCHANGED mainQueue \/ AddsPlain \/ TakesTask
         \/ \E t \in Threads : Closes(t) /\ (PageCloses(t) \/ HasAsked(t))
<1>1. AppTypes
  BY DEF AppInv
<1>2. ASSUME NEW what \in {"welcome", "edit", "preview", "finish"}, NEW s \in Kinds, mainQueue' = Append(mainQueue, Task(what, s))
      PROVE  AddsPlain
  <2>1. Task(what, s) \in MainTask /\ Plain(Task(what, s))
    BY TaskTypes, TaskParts DEF TaskKinds, Plain
  <2> QED
    BY <1>2, <2>1 DEF AddsPlain
<1>3. CASE OfMain
  <2>1. CASE PageStays
    <3>1. \/ UNCHANGED mainQueue
          \/ mainQueue' = Append(mainQueue, Task("edit", "welcome"))
          \/ \E t \in Threads : window[t].of \in States /\ mainQueue' = Append(mainQueue, Task("preview", window[t].of))
      BY <2>1, Zenon DEF PageStays, PickerOn
    <3> QED
      BY <1>2, <3>1, KindsParts
  <2> QED
    BY <1>3, <2>1, Zenon DEF OfMain, MainMoves, Forgets, Elsewhere, Returns
<1>4. CASE OfShutdown
  <2>1. UNCHANGED mainQueue \/ mainQueue' = Append(mainQueue, Task("finish", "welcome"))
    BY <1>4, Zenon DEF OfShutdown, Locks, Switches, HasAskedAll
  <2> QED
    BY <1>2, <2>1, KindsParts
<1>5. ASSUME NEW t \in Threads, OfThread(t)
      PROVE  \/ UNCHANGED mainQueue \/ AddsPlain \/ (Closes(t) /\ (PageCloses(t) \/ HasAsked(t)))
  <2>1. \/ UNCHANGED mainQueue \/ mainQueue' = Append(mainQueue, Task("welcome", "welcome"))
        \/ (Closes(t) /\ (PageCloses(t) \/ HasAsked(t)))
    BY <1>5, Zenon DEF OfThread, PageCloses, StartsCreating, HasCreated, Serves, HasAsked
  <2> QED
    BY <1>2, <2>1, KindsParts
<1> QED
  BY <1>3, <1>4, <1>5, Zenon DEF Step

LEMMA AddedEndings ==
  ASSUME AppTypes, UNCHANGED mainQueue \/ AddsPlain
  PROVE  \A s : \A k \in DOMAIN mainQueue' : Ending(k, s)' => k \in DOMAIN mainQueue /\ Ending(k, s)
<1>1. CASE UNCHANGED mainQueue
  BY <1>1 DEF Ending
<1>2. ASSUME NEW task \in MainTask, mainQueue' = Append(mainQueue, task), Plain(task)
      PROVE  \A s : \A k \in DOMAIN mainQueue' : Ending(k, s)' => k \in DOMAIN mainQueue /\ Ending(k, s)
  <2>1. PICK n \in Nat : /\ mainQueue'[n] = task
                         /\ \A k \in DOMAIN mainQueue' : k = n \/ k \in DOMAIN mainQueue
                         /\ \A k \in DOMAIN mainQueue : mainQueue'[k] = mainQueue[k]
    BY <1>2, QueueGrows
  <2>2. \A s : ~Ending(n, s)'
    BY <1>2, <2>1, EndingIs DEF Ending, Plain
  <2> QED
    BY <2>1, <2>2 DEF Ending
<1> QED
  BY <1>1, <1>2 DEF AddsPlain

LEMMA ForgottenKept ==
  ASSUME AppInv, \A u \in Threads : NoNewWindow(u), UNCHANGED pickers, \A s \in States : Forgetting(s)' => Forgetting(s),
         UNCHANGED mainQueue \/ AddsPlain
  PROVE  ForgottenOnce'
<1>1. AppTypes /\ ForgottenOnce
  BY DEF AppInv, PickersInv
<1>2. \A s : \A k \in DOMAIN mainQueue' : Ending(k, s)' => k \in DOMAIN mainQueue /\ Ending(k, s)
  BY <1>1, AddedEndings
<1>3. \A s, u : u \in Threads /\ window'[u].open /\ window'[u].of = s => window[u].open /\ window[u].of = s
  BY DEF NoNewWindow
<1> QED
  BY <1>1, <1>2, <1>3, Zenon DEF ForgottenOnce

LEMMA ForgottenWhenClosed ==
  ASSUME AppInv, NEW t \in Threads, Closes(t), UNCHANGED <<pickers, main>>
  PROVE  ForgottenOnce'
<1>1. AppTypes /\ ForgottenOnce /\ OpenIsKnown /\ t # 0
  BY ThreadNumbers DEF AppInv, PickersInv
<1>2. /\ window[t].open /\ ~window'[t].open /\ window'[t].of = window[t].of
      /\ \A u \in Threads : u # t => window'[u] = window[u]
  BY DEF Closes, Others
<1>3. \A u \in Threads : NoNewWindow(u)
  BY <1>2 DEF NoNewWindow
<1>4. \A s : Forgetting(s)' <=> Forgetting(s)
  BY DEF Forgetting
<1>5. PICK task \in MainTask :
        /\ mainQueue' = Append(mainQueue, task)
        /\ window[t].of \in States => task \in {Task("close", window[t].of), Task("commit", window[t].of)}
        /\ window[t].of \notin States => task.what \in {"shutdown", "approved"}
  BY Zenon DEF Closes
<1>6. CASE window[t].of \notin States
  <2>1. AddsPlain
    BY <1>5, <1>6 DEF AddsPlain, Plain
  <2> QED
    BY <1>3, <1>4, <2>1, ForgottenKept
<1>7. CASE window[t].of \in States
  <2> DEFINE s0 == window[t].of
  <2>1. PICK n \in Nat : /\ n \in DOMAIN mainQueue' /\ mainQueue'[n] = task
                         /\ \A k \in DOMAIN mainQueue : k \in DOMAIN mainQueue' /\ mainQueue'[k] = mainQueue[k]
                         /\ \A k \in DOMAIN mainQueue' : k = n \/ k \in DOMAIN mainQueue
    BY <1>1, <1>5, QueueGrows
  <2>2. \A s : Ending(n, s)' => s = s0
    BY <1>5, <1>7, <2>1, EndingIs, TaskParts DEF Ending
  <2>3. \A s : \A k \in DOMAIN mainQueue : Ending(k, s)' <=> Ending(k, s)
    BY <2>1 DEF Ending
  <2>4. pickers[s0] = t /\ s0 \in States
    BY <1>1, <1>2, <1>7 DEF OpenIsKnown
  <2>5. ~Forgetting(s0) /\ \A k \in DOMAIN mainQueue : ~Ending(k, s0)
    BY <1>1, <1>2, <1>7 DEF ForgottenOnce
  <2>6. \A u \in Threads : ~(window'[u].open /\ window'[u].of = s0)
    BY <1>1, <1>2, <1>7, <2>4 DEF OpenIsKnown
  <2>7. \A u \in Threads : window'[u].open => window[u].open /\ window[u].of = window'[u].of
    BY <1>3 DEF NoNewWindow
  <2> HIDE DEF s0
  <2>8. \A k \in DOMAIN mainQueue', s \in States : Ending(k, s)' =>
          /\ s = s0 => k = n
          /\ s # s0 => k \in DOMAIN mainQueue /\ Ending(k, s)
    BY <2>1, <2>2, <2>3, <2>5
  <2>9. ASSUME NEW s \in States, NEW k \in DOMAIN mainQueue', Ending(k, s)'
        PROVE  /\ pickers'[s] # 0 /\ ~Forgetting(s)'
               /\ \A u \in Threads : ~(window'[u].open /\ window'[u].of = s)
               /\ \A l \in DOMAIN mainQueue' : Ending(l, s)' => l = k
    <3>1. CASE s = s0
      BY <1>1, <1>4, <2>4, <2>5, <2>6, <2>8, <2>9, <3>1
    <3>2. CASE s # s0
      <4>1. k \in DOMAIN mainQueue /\ Ending(k, s)
        BY <2>8, <2>9, <3>2
      <4>2. /\ pickers[s] # 0 /\ ~Forgetting(s)
            /\ \A u \in Threads : ~(window[u].open /\ window[u].of = s)
            /\ \A l \in DOMAIN mainQueue : Ending(l, s) => l = k
        BY <1>1, <4>1 DEF ForgottenOnce
      <4> QED
        BY <1>4, <2>7, <2>8, <3>2, <4>2
    <3> QED
      BY <3>1, <3>2
  <2>10. ASSUME NEW s \in States, Forgetting(s)'
         PROVE  pickers'[s] # 0 /\ \A u \in Threads : ~(window'[u].open /\ window'[u].of = s)
    BY <1>1, <1>4, <2>7, <2>10 DEF ForgottenOnce
  <2> QED
    BY <2>9, <2>10, Zenon DEF ForgottenOnce
<1> QED
  BY <1>6, <1>7

LEMMA ForgettingKept ==
  ASSUME AppInv, Step, ~TakesTask
  PROVE  UNCHANGED main \/ main'.at # "forget"
<1>1. CASE OfMain
  <2>1. CASE MainMoves
    <3>1. main.at = "pool" => main \in [at : {"pool"}, s : States, i : 1 .. threads + 1]
      BY MainParts DEF AppInv, AppTypes
    <3>2. \/ UNCHANGED main
          \/ \E s \in States : main' = [at |-> "pickers", s |-> s]
          \/ main' = Idle
          \/ main' = [at |-> "pool", s |-> main.s, i |-> 1]
          \/ main.at = "pool" /\ main' = [main EXCEPT !.i = @ + 1]
          \/ main.at = "pool" /\ main' = [main EXCEPT !.at = "starting"]
      BY <2>1, Zenon DEF MainMoves
    <3>3. CASE main.at = "pool" /\ main' = [main EXCEPT !.i = @ + 1]
      BY <3>1, <3>3
    <3>4. CASE main.at = "pool" /\ main' = [main EXCEPT !.at = "starting"]
      BY <3>1, <3>4
    <3>5. CASE \E s \in States : main' = [at |-> "pickers", s |-> s]
      BY <3>5
    <3>6. CASE main' = Idle
      BY <3>6 DEF Idle
    <3>7. CASE main' = [at |-> "pool", s |-> main.s, i |-> 1]
      BY <3>7
    <3> QED
      BY <3>2, <3>3, <3>4, <3>5, <3>6, <3>7
  <2>2. CASE Forgets \/ Returns
    BY <2>2 DEF Forgets, Returns, Idle
  <2>3. CASE Elsewhere
    <3>1. UNCHANGED main \/ Begins
      BY <2>3, Zenon DEF Elsewhere, PageStays, Around
    <3> QED
      BY <3>1 DEF Begins
  <2> QED
    BY <1>1, <2>1, <2>2, <2>3, Zenon DEF OfMain
<1>2. CASE OfShutdown
  <2>1. UNCHANGED main \/ Leave(shutdown.on)
    BY <1>2, Zenon DEF OfShutdown, Locks, Switches, HasAskedAll
  <2> QED
    BY <2>1 DEF Leave, Idle
<1>3. CASE \E t \in Threads : OfThread(t)
  <2>1. UNCHANGED main \/ main' = Idle
    BY <1>3, Zenon DEF OfThread, PageCloses, Around, StartsCreating, HasCreated, Serves, HasAsked
  <2> QED
    BY <2>1 DEF Idle
<1> QED
  BY <1>1, <1>2, <1>3 DEF Step

LEMMA ForgottenOnceStep ==
  ASSUME AppInv, Step
  PROVE  ForgottenOnce'
<1>1. AppTypes /\ ForgottenOnce /\ pickers \in [States -> 0 .. MaxThreads]
  BY DEF AppInv, PickersInv, AppTypes
<1>2. CASE TakesTask
  <2>1. StepHere /\ UNCHANGED pickers /\ mainQueue # <<>> /\ mainQueue' = Tail(mainQueue) /\ main = Idle
    BY <1>2, Zenon DEF TakesTask, StepHere, OfMain
  <2>2. \A u \in Threads : window'[u].open => window[u].open /\ window[u].of = window'[u].of
    BY <2>1, NoNewWindows DEF StepHere, NoNewWindow
  <2>3. /\ 1 \in DOMAIN mainQueue /\ Head(mainQueue) = mainQueue[1]
        /\ \A k \in DOMAIN mainQueue' : k \in Nat \ {0} /\ k + 1 \in DOMAIN mainQueue /\ mainQueue'[k] = mainQueue[k + 1]
    BY <1>1, <2>1, QueueShrinks
  <2>4. \A s : \A k \in DOMAIN mainQueue' : Ending(k, s)' => Ending(k + 1, s)
    BY <2>3 DEF Ending
  <2>5. ASSUME NEW s \in States, Forgetting(s)'
        PROVE  Ending(1, s)
    <3>1. \/ UNCHANGED main \/ Begins
          \/ Head(mainQueue).what \in {"close", "commit"} /\ main' = [at |-> "forget", s |-> Head(mainQueue).s]
      BY <1>2, Zenon DEF TakesTask
    <3>2. main'.at # "idle" /\ main'.at # "shutdown"
      BY <2>5 DEF Forgetting
    <3>3. Head(mainQueue).what \in {"close", "commit"} /\ Head(mainQueue).s = s
      BY <2>1, <2>5, <3>1, <3>2 DEF Forgetting, Begins, Idle
    <3>4. mainQueue[1] \in MainTask
      BY <1>1, <2>3 DEF AppTypes, QueueType
    <3> QED
      BY <2>3, <3>3, <3>4, EndingIs DEF Ending
  <2>6. ASSUME NEW s \in States, NEW k \in DOMAIN mainQueue', Ending(k, s)'
        PROVE  /\ pickers'[s] # 0 /\ ~Forgetting(s)'
               /\ \A u \in Threads : ~(window'[u].open /\ window'[u].of = s)
               /\ \A l \in DOMAIN mainQueue' : Ending(l, s)' => l = k
    <3>1. Ending(k + 1, s) /\ k + 1 \in DOMAIN mainQueue /\ k \in Nat \ {0}
      BY <2>3, <2>4, <2>6
    <3>2. /\ pickers[s] # 0
          /\ \A u \in Threads : ~(window[u].open /\ window[u].of = s)
          /\ \A l \in DOMAIN mainQueue : Ending(l, s) => l = k + 1
      BY <1>1, <3>1 DEF ForgottenOnce
    <3>3. ~Ending(1, s)
      BY <2>3, <3>1, <3>2
    <3>4. \A l \in DOMAIN mainQueue' : Ending(l, s)' => l = k
      BY <2>3, <2>4, <3>1, <3>2
    <3> QED
      BY <2>1, <2>2, <2>5, <3>2, <3>3, <3>4
  <2>7. ASSUME NEW s \in States, Forgetting(s)'
        PROVE  pickers'[s] # 0 /\ \A u \in Threads : ~(window'[u].open /\ window'[u].of = s)
    <3>1. Ending(1, s)
      BY <2>5, <2>7
    <3> QED
      BY <1>1, <2>1, <2>2, <2>3, <3>1 DEF ForgottenOnce
  <2> QED
    BY <2>6, <2>7, Zenon DEF ForgottenOnce
<1>3. ASSUME NEW t \in Threads, Closes(t), PageCloses(t) \/ HasAsked(t)
      PROVE  ForgottenOnce'
  <2>1. UNCHANGED <<pickers, main>>
    BY <1>3, Zenon DEF PageCloses, Around, HasAsked
  <2> QED
    BY <1>3, <2>1, ForgottenWhenClosed
<1>4. CASE ~TakesTask /\ (UNCHANGED mainQueue \/ AddsPlain)
  <2>1. \A s : \A k \in DOMAIN mainQueue' : Ending(k, s)' => k \in DOMAIN mainQueue /\ Ending(k, s)
    BY <1>1, <1>4, AddedEndings
  <2>2. \A s \in States : Forgetting(s)' => Forgetting(s)
    BY <1>4, ForgettingKept DEF Forgetting
  <2>3. CASE StepHere /\ UNCHANGED pickers
    <3>1. \A u \in Threads : NoNewWindow(u)
      BY <2>3, NoNewWindows DEF StepHere
    <3> QED
      BY <1>4, <2>2, <2>3, <3>1, ForgottenKept
  <2>4. CASE Forgets
    <3>1. main.at = "forget" /\ main' = Idle /\ pickers' = [pickers EXCEPT ![main.s] = 0] /\ UNCHANGED <<mainQueue, window>>
      BY <2>4, Zenon DEF Forgets
    <3>2. \A s \in States : ~Forgetting(s)'
      BY <3>1 DEF Forgetting, Idle
    <3>3. \A s \in States : s # main.s => pickers'[s] = pickers[s]
      BY <1>1, <3>1
    <3>4. Forgetting(main.s)
      BY <3>1 DEF Forgetting
    <3>5. ASSUME NEW s \in States, NEW k \in DOMAIN mainQueue', Ending(k, s)'
          PROVE  /\ pickers'[s] # 0
                 /\ \A u \in Threads : ~(window'[u].open /\ window'[u].of = s)
                 /\ \A l \in DOMAIN mainQueue' : Ending(l, s)' => l = k
      <4>1. k \in DOMAIN mainQueue /\ Ending(k, s)
        BY <2>1, <3>5
      <4>2. /\ pickers[s] # 0 /\ ~Forgetting(s)
            /\ \A u \in Threads : ~(window[u].open /\ window[u].of = s)
            /\ \A l \in DOMAIN mainQueue : Ending(l, s) => l = k
        BY <1>1, <4>1 DEF ForgottenOnce
      <4> QED
        BY <2>1, <3>1, <3>3, <3>4, <4>2
    <3> QED
      BY <3>2, <3>5, Zenon DEF ForgottenOnce
  <2>5. ASSUME NEW t \in Threads, NEW kind \in Kinds, HasCreated(t, kind)
        PROVE  ForgottenOnce'
    <3>1. /\ \A u \in Threads : u # t => window'[u] = window[u]
          /\ window'[t].of = kind /\ (kind \in States => pickers[kind] = 0)
      BY <2>5, CreatedWindows
    <3>2. UNCHANGED pickers \/ (kind \in States /\ pickers' = [pickers EXCEPT ![kind] = t])
      BY <2>5, Zenon DEF HasCreated
    <3>3. \A s \in States : s # kind => pickers'[s] = pickers[s]
      BY <1>1, <3>2
    <3>4. kind \in States => ~Forgetting(kind) /\ \A k \in DOMAIN mainQueue : ~Ending(k, kind)
      BY <1>1, <3>1 DEF ForgottenOnce
    <3>5. \A s \in States, u \in Threads : s # kind /\ window'[u].open /\ window'[u].of = s => window[u].open /\ window[u].of = s
      BY <3>1
    <3>6. ASSUME NEW s \in States, NEW k \in DOMAIN mainQueue', Ending(k, s)'
          PROVE  /\ pickers'[s] # 0 /\ ~Forgetting(s)'
                 /\ \A u \in Threads : ~(window'[u].open /\ window'[u].of = s)
                 /\ \A l \in DOMAIN mainQueue' : Ending(l, s)' => l = k
      <4>1. k \in DOMAIN mainQueue /\ Ending(k, s) /\ s # kind
        BY <2>1, <3>4, <3>6
      <4>2. /\ pickers[s] # 0 /\ ~Forgetting(s)
            /\ \A u \in Threads : ~(window[u].open /\ window[u].of = s)
            /\ \A l \in DOMAIN mainQueue : Ending(l, s) => l = k
        BY <1>1, <4>1 DEF ForgottenOnce
      <4> QED
        BY <2>1, <2>2, <3>3, <3>5, <4>1, <4>2
    <3>7. ASSUME NEW s \in States, Forgetting(s)'
          PROVE  pickers'[s] # 0 /\ \A u \in Threads : ~(window'[u].open /\ window'[u].of = s)
      <4>1. Forgetting(s) /\ s # kind
        BY <2>2, <3>4, <3>7
      <4> QED
        BY <1>1, <3>3, <3>5, <4>1 DEF ForgottenOnce
    <3> QED
      BY <3>6, <3>7, Zenon DEF ForgottenOnce
  <2>6. StepHere /\ ~Forgets => UNCHANGED pickers
    BY PickersChange, Zenon
  <2> QED
    BY <2>3, <2>4, <2>5, <2>6, StepHasCreated
<1> QED
  BY <1>2, <1>3, <1>4, QueueCases

-----------------------------------------------------------------------------
(* Hosts.  What a step does to the thread u.                               *)
BusyKept(u) == busy'[u] = busy[u] \/ (busy[u] # "gone" /\ busy'[u] \notin {"deleting", "gone"})
Quiet(u) ==
  /\ window'[u].of = window[u].of /\ window'[u].open = window[u].open /\ BusyKept(u)
  /\ \/ low'[u] \in {low[u], Append(low[u], "layout")}
     \/ low'[u] = Append(low[u], "deinit") /\ main'.at = "joining"
HostSteps(u) ==
  \/ Quiet(u) \/ Serves(u) \/ (\E kind \in Kinds : HasCreated(u, kind))
  \/ Closes(u) /\ busy[u] = "idle" /\ busy'[u] \in {"idle", "shutdown"}

LEMMA HostsOfThread ==
  ASSUME AppInv, NEW t \in Threads, OfThread(t), NEW u \in Threads
  PROVE  HostSteps(u)
<1>1. AppTypes
  BY DEF AppInv
<1>2. CASE u = t
  <2>1. CASE PageCloses(t)
    <3>1. Closes(t) /\ busy[t] = "idle" /\ UNCHANGED busy
      BY <2>1, Zenon DEF PageCloses, Around
    <3> QED
      BY <1>2, <3>1 DEF HostSteps
  <2>2. CASE StartsCreating(t)
    <3>1. window' = [window EXCEPT ![t].late = shuttingDown] /\ UNCHANGED <<low, busy>>
      BY <2>2, Zenon DEF StartsCreating, StartCreating
    <3>2. window'[t].of = window[t].of /\ window'[t].open = window[t].open
      BY <1>1, <3>1, WindowLate DEF AppTypes
    <3> QED
      BY <1>2, <3>1, <3>2 DEF HostSteps, Quiet, BusyKept
  <2>3. CASE HasAsked(t)
    <3>1. busy[t] = "idle" /\ busy' = [busy EXCEPT ![t] = "shutdown"] /\ (Closes(t) \/ (NoneCloses /\ UNCHANGED low))
      BY <2>3, Zenon DEF HasAsked
    <3>2. busy'[t] = "shutdown"
      BY <1>1, <3>1 DEF AppTypes
    <3>3. CASE Closes(t)
      BY <1>2, <3>1, <3>2, <3>3 DEF HostSteps
    <3>4. CASE NoneCloses /\ UNCHANGED low
      BY <1>2, <3>1, <3>2, <3>4 DEF HostSteps, Quiet, BusyKept, NoneCloses, Same
    <3> QED
      BY <3>1, <3>3, <3>4
  <2> QED
    BY <1>2, <2>1, <2>2, <2>3, Zenon DEF OfThread, HostSteps
<1>3. CASE u # t
  <2>1. Quiet(u)
    <3>1. CASE PageCloses(t)
      <4>1. Closes(t) /\ UNCHANGED busy
        BY <3>1, Zenon DEF PageCloses, Around
      <4> QED
        BY <1>1, <1>3, <4>1 DEF Closes, Others, Quiet, BusyKept, AppTypes
    <3>2. CASE StartsCreating(t)
      <4>1. window' = [window EXCEPT ![t].late = shuttingDown] /\ UNCHANGED <<low, busy>>
        BY <3>2, Zenon DEF StartsCreating, StartCreating
      <4> QED
        BY <1>1, <1>3, <4>1 DEF Quiet, BusyKept, AppTypes
    <3>3. ASSUME NEW kind \in Kinds, HasCreated(t, kind)
          PROVE  Quiet(u)
      <4>1. Others(window', t) /\ UNCHANGED <<low, busy>>
        BY <3>3, Zenon DEF HasCreated
      <4> QED
        BY <1>3, <4>1 DEF Others, Quiet, BusyKept
    <3>4. CASE Serves(t)
      <4>1. /\ UNCHANGED low \/ low' = [low EXCEPT ![t] = Tail(low[t])]
            /\ UNCHANGED window \/ window' = [window EXCEPT ![t] = NoWindow]
            /\ \E b : busy' \in {busy, [busy EXCEPT ![t] = b]}
        BY <3>4 DEF Serves
      <4> QED
        BY <1>1, <1>3, <4>1 DEF Quiet, BusyKept, AppTypes
    <3>5. CASE HasAsked(t)
      <4>1. busy' = [busy EXCEPT ![t] = "shutdown"] /\ (Closes(t) \/ (NoneCloses /\ UNCHANGED low))
        BY <3>5, Zenon DEF HasAsked
      <4>2. busy'[u] = busy[u]
        BY <1>1, <1>3, <4>1 DEF AppTypes
      <4>3. CASE Closes(t)
        BY <1>1, <1>3, <4>2, <4>3 DEF Closes, Others, Quiet, BusyKept, AppTypes
      <4>4. CASE NoneCloses /\ UNCHANGED low
        BY <4>2, <4>4 DEF Quiet, BusyKept, NoneCloses, Same
      <4> QED
        BY <4>1, <4>3, <4>4
    <3> QED
      BY <3>1, <3>2, <3>3, <3>4, <3>5, Zenon DEF OfThread
  <2> QED
    BY <2>1 DEF HostSteps
<1> QED
  BY <1>2, <1>3

LEMMA HostsElsewhere ==
  ASSUME AppInv, OfMain \/ OfShutdown, NEW u \in Threads
  PROVE  Quiet(u)
<1>1. AppTypes /\ LockOf(u) /\ threads \in Nat /\ u \in Nat \ {0}
  BY ThreadNumbers DEF AppInv, LocksHaveTasks
<1>2. window'[u].of = window[u].of /\ window'[u].open = window[u].open
  <2>1. UNCHANGED window \/ NoneCloses \/ Begins
    BY Zenon DEF OfMain, MainMoves, TakesTask, Forgets, Elsewhere, PageStays, Returns, OfShutdown, Locks, Switches, HasAskedAll
  <2> QED
    BY <1>1, <2>1, WindowsEarly DEF NoneCloses, Same, Begins, AppTypes
<1>3. BusyKept(u)
  <2>1. \/ UNCHANGED busy
        \/ main.at = "pool" /\ main.i > threads /\ busy' = [busy EXCEPT ![main.i] = "starting"]
        \/ \E t \in Threads : busy[t] = "starting" /\ busy' = [busy EXCEPT ![t] = "idle"]
        \/ shutdown.at \in {"lock", "switch"} /\ Leave(shutdown.on)
    BY Zenon DEF OfMain, MainMoves, TakesTask, Forgets, Elsewhere, PageStays, Around, Returns, OfShutdown, Locks, Switches, HasAskedAll
  <2>2. CASE UNCHANGED busy
    BY <2>2 DEF BusyKept
  <2>3. CASE main.at = "pool" /\ main.i > threads /\ busy' = [busy EXCEPT ![main.i] = "starting"]
    <3>1. CASE u = main.i
      <4>1. busy[u] # "gone" /\ busy'[u] = "starting"
        BY <1>1, <2>3, <3>1 DEF LockOf, AppTypes
      <4> QED
        BY <4>1 DEF BusyKept
    <3>2. CASE u # main.i
      BY <1>1, <2>3, <3>2 DEF BusyKept, AppTypes
    <3> QED
      BY <3>1, <3>2
  <2>4. ASSUME NEW t \in Threads, busy[t] = "starting", busy' = [busy EXCEPT ![t] = "idle"]
        PROVE  BusyKept(u)
    BY <1>1, <2>4 DEF BusyKept, AppTypes
  <2>5. CASE shutdown.at \in {"lock", "switch"} /\ Leave(shutdown.on)
    <3>1. CASE shutdown.on = 0
      BY <2>5, <3>1 DEF Leave, BusyKept
    <3>2. CASE shutdown.on # 0
      <4>1. busy[shutdown.on] = "shutdown" /\ busy' = [busy EXCEPT ![shutdown.on] = "idle"]
        BY <2>5, <3>2 DEF Leave, AppInv, ShutdownIsOne, ShutdownIsAwaited
      <4> QED
        BY <1>1, <4>1 DEF BusyKept, AppTypes
    <3> QED
      BY <3>1, <3>2
  <2> QED
    BY <2>1, <2>2, <2>3, <2>4, <2>5
<1>4. \/ low'[u] \in {low[u], Append(low[u], "layout")}
      \/ low'[u] = Append(low[u], "deinit") /\ main'.at = "joining"
  <2>1. \/ UNCHANGED low
        \/ \E t \in Threads : low' = [low EXCEPT ![t] = Append(@, "layout")]
        \/ Returns
    BY Zenon DEF OfMain, MainMoves, TakesTask, Forgets, Elsewhere, PageStays, OfShutdown, Locks, Switches, HasAskedAll
  <2>2. Returns => main'.at = "joining" /\ low'[u] \in {low[u], Append(low[u], "deinit")}
    BY DEF Returns
  <2> QED
    BY <1>1, <2>1, <2>2 DEF AppTypes
<1> QED
  BY <1>2, <1>3, <1>4 DEF Quiet

LEMMA HostsStep ==
  ASSUME AppInv, Step
  PROVE  \A u \in Threads : HostSteps(u)
BY HostsOfThread, HostsElsewhere DEF Step, HostSteps

LEMMA LowGrows ==
  ASSUME NEW q \in Seq({"layout", "delete", "deinit"}), NEW x \in {"layout", "delete", "deinit"}, NEW r, r = Append(q, x)
  PROVE  \A k \in DOMAIN r : r[k] = x \/ (k \in DOMAIN q /\ r[k] = q[k])
BY QueueAppend

LEMMA DeletedOnceStep ==
  ASSUME AppInv, Step
  PROVE  DeletedOnce'
<1>1. SUFFICES ASSUME NEW u \in Threads
               PROVE  DeletedOf(u)'
  BY Zenon DEF DeletedOnce
<1>2. /\ AppTypes /\ DeletedOf(u) /\ low[u] \in Seq({"layout", "delete", "deinit"})
      /\ busy \in [Threads -> {"starting", "idle", "deleting", "shutdown", "gone"}]
      /\ window \in [Threads -> Window] /\ low \in [Threads -> Seq({"layout", "delete", "deinit"})]
  BY DEF AppInv, AppTypes, PreviewInv, DeletedOnce
<1>3. CASE Quiet(u)
  <2>1. \A k \in DOMAIN low'[u] : low'[u][k] = "delete" => k \in DOMAIN low[u] /\ low[u][k] = "delete"
    <3>1. low'[u] \in {low[u], Append(low[u], "layout"), Append(low[u], "deinit")}
      BY <1>3 DEF Quiet
    <3>2. CASE low'[u] = Append(low[u], "layout")
      BY <1>2, <3>2, LowGrows
    <3>3. CASE low'[u] = Append(low[u], "deinit")
      BY <1>2, <3>3, LowGrows
    <3> QED
      BY <3>1, <3>2, <3>3
  <2>2. window'[u].of = window[u].of /\ window'[u].open = window[u].open /\ BusyKept(u)
    BY <1>3 DEF Quiet
  <2>3. busy'[u] # "gone" => busy[u] # "gone" /\ (busy'[u] = "deleting" => busy[u] = "deleting")
    BY <2>2 DEF BusyKept
  <2> QED
    BY <1>2, <2>1, <2>2, <2>3 DEF DeletedOf
<1>4. CASE Closes(u) /\ busy[u] = "idle" /\ busy'[u] \in {"idle", "shutdown"}
  <2>1. /\ window[u].open /\ window'[u].of = window[u].of /\ window'[u].open = FALSE
        /\ low' = [low EXCEPT ![u] = Append(@, "delete")]
    BY <1>4, Zenon DEF Closes
  <2>2. low'[u] = Append(low[u], "delete")
    BY <1>2, <2>1
  <2>3. \A k \in DOMAIN low[u] : low[u][k] # "delete"
    BY <1>2, <1>4, <2>1 DEF DeletedOf
  <2>4. \A k \in DOMAIN low'[u] : low'[u][k] = "delete" => k = Len(low[u]) + 1
    BY <1>2, <2>2, <2>3, QueueAppend
  <2>5. window[u].of # "none"
    BY <2>1 DEF AppInv, LocksHaveTasks, LockOf
  <2> QED
    BY <1>4, <2>1, <2>4, <2>5 DEF DeletedOf
<1>5. CASE Serves(u)
  <2>1. \/ /\ busy[u] = "idle" /\ low[u] # <<>> /\ low' = [low EXCEPT ![u] = Tail(@)] /\ UNCHANGED <<window, busy>>
        \/ /\ busy[u] = "idle" /\ low[u] # <<>> /\ low' = [low EXCEPT ![u] = Tail(@)]
           /\ Head(low[u]) = "delete" /\ busy' = [busy EXCEPT ![u] = "deleting"] /\ UNCHANGED window
        \/ busy' = [busy EXCEPT ![u] = "gone"]
        \/ /\ busy[u] = "deleting" /\ busy' = [busy EXCEPT ![u] = "idle"] /\ UNCHANGED low
    BY <1>5, Zenon DEF Serves
  <2>2. ASSUME low[u] # <<>>, low' = [low EXCEPT ![u] = Tail(@)]
        PROVE  /\ \A k \in DOMAIN low'[u] : k + 1 \in DOMAIN low[u] /\ k \in Nat \ {0} /\ low'[u][k] = low[u][k + 1]
               /\ 1 \in DOMAIN low[u] /\ Head(low[u]) = low[u][1]
    <3>1. low'[u] = Tail(low[u]) /\ Tail(low[u]) \in Seq({"layout", "delete", "deinit"})
      BY <1>2, <2>2, QueueTail
    <3>2. DOMAIN Tail(low[u]) = 1 .. Len(Tail(low[u])) /\ Len(Tail(low[u])) \in Nat
      BY <3>1, LenProperties
    <3>3. \A k \in DOMAIN Tail(low[u]) : k \in Nat \ {0}
      BY <3>2
    <3> QED
      BY <1>2, <2>2, <3>1, <3>3, QueueTail
  <2>3. CASE busy[u] = "idle" /\ low[u] # <<>> /\ low' = [low EXCEPT ![u] = Tail(@)] /\ UNCHANGED <<window, busy>>
    <3>1. \A k \in DOMAIN low'[u] : k + 1 \in DOMAIN low[u] /\ k \in Nat \ {0} /\ low'[u][k] = low[u][k + 1]
      BY <2>2, <2>3
    <3>2. \A k, l \in DOMAIN low'[u] : k + 1 = l + 1 => k = l
      BY <3>1
    <3> QED
      BY <1>2, <2>3, <3>1, <3>2 DEF DeletedOf
  <2>4. CASE /\ busy[u] = "idle" /\ low[u] # <<>> /\ low' = [low EXCEPT ![u] = Tail(@)]
             /\ Head(low[u]) = "delete" /\ busy' = [busy EXCEPT ![u] = "deleting"] /\ UNCHANGED window
    <3>1. /\ \A k \in DOMAIN low'[u] : k + 1 \in DOMAIN low[u] /\ k \in Nat \ {0} /\ low'[u][k] = low[u][k + 1]
          /\ 1 \in DOMAIN low[u] /\ low[u][1] = "delete"
      BY <2>2, <2>4
    <3>2. /\ ~window[u].open /\ window[u].of # "none"
          /\ \A l \in DOMAIN low[u] : low[u][l] = "delete" => l = 1
      BY <1>2, <2>4, <3>1 DEF DeletedOf
    <3>3. \A k \in DOMAIN low'[u] : low'[u][k] # "delete"
      BY <3>1, <3>2
    <3> QED
      BY <2>4, <3>2, <3>3 DEF DeletedOf
  <2>5. CASE busy' = [busy EXCEPT ![u] = "gone"]
    BY <1>2, <2>5 DEF DeletedOf
  <2>6. CASE busy[u] = "deleting" /\ busy' = [busy EXCEPT ![u] = "idle"] /\ UNCHANGED low
    <3>1. \A k \in DOMAIN low[u] : low[u][k] # "delete"
      BY <1>2, <2>6 DEF DeletedOf
    <3>2. busy'[u] = "idle"
      BY <1>2, <2>6
    <3> QED
      BY <2>6, <3>1, <3>2 DEF DeletedOf
  <2> QED
    BY <2>1, <2>3, <2>4, <2>5, <2>6
<1>6. ASSUME NEW kind \in Kinds, HasCreated(u, kind)
      PROVE  DeletedOf(u)'
  <2>1. window[u].of = "none"
    BY <1>6, CreatedWindows
  <2>2. busy[u] = "idle" /\ UNCHANGED <<low, busy>>
    BY <1>6, Zenon DEF HasCreated
  <2>3. \A k \in DOMAIN low[u] : low[u][k] # "delete"
    BY <1>2, <2>1, <2>2 DEF DeletedOf
  <2> QED
    BY <2>2, <2>3 DEF DeletedOf
<1> QED
  BY <1>3, <1>4, <1>5, <1>6, HostsStep DEF HostSteps

LEMMA JoiningKept ==
  ASSUME AppInv, Step, main.at = "joining"
  PROVE  main'.at = "joining"
<1>1. main # Idle
  BY DEF Idle
<1>2. CASE OfMain
  BY <1>1, <1>2, Zenon DEF OfMain, MainMoves, TakesTask, Forgets, Elsewhere, PageStays, Around, Begins, Returns
<1>3. CASE OfShutdown
  <2>1. UNCHANGED main \/ (shutdown.at \in {"lock", "switch"} /\ shutdown.on = 0)
    BY <1>3, Zenon DEF OfShutdown, Locks, Switches, HasAskedAll, Leave
  <2>2. ~(shutdown.at \in {"lock", "switch"} /\ shutdown.on = 0)
    BY DEF AppInv, ShutdownIsOne, ShutdownIsAwaited
  <2> QED
    BY <2>1, <2>2
<1>4. CASE \E t \in Threads : OfThread(t)
  <2>1. UNCHANGED main \/ main.at \in {"pool", "starting"}
    BY <1>4, Zenon DEF OfThread, PageCloses, Around, StartsCreating, HasCreated, Serves, HasAsked
  <2> QED
    BY <2>1
<1> QED
  BY <1>2, <1>3, <1>4 DEF Step

LEMMA DeinitIsLastStep ==
  ASSUME AppInv, Step
  PROVE  DeinitIsLast'
<1>1. AppTypes /\ DeinitIsLast /\ low \in [Threads -> Seq({"layout", "delete", "deinit"})]
  BY DEF AppInv, AppTypes, PreviewInv
<1>2. SUFFICES ASSUME NEW u \in Threads, main'.at # "joining"
               PROVE  \A k \in DOMAIN low'[u] : low'[u][k] # "deinit"
  BY DEF DeinitIsLast
<1>3. \A k \in DOMAIN low[u] : low[u][k] # "deinit"
  BY <1>1, <1>2, JoiningKept DEF DeinitIsLast
<1>4. CASE low'[u] \in {low[u], Append(low[u], "layout"), Append(low[u], "delete")}
  <2>1. CASE low'[u] = Append(low[u], "layout")
    BY <1>1, <1>3, <2>1, LowGrows
  <2>2. CASE low'[u] = Append(low[u], "delete")
    BY <1>1, <1>3, <2>2, LowGrows
  <2> QED
    BY <1>3, <1>4, <2>1, <2>2
<1>5. CASE low[u] # <<>> /\ low'[u] = Tail(low[u])
  BY <1>1, <1>3, <1>5, QueueTail
<1>6. \/ low'[u] \in {low[u], Append(low[u], "layout"), Append(low[u], "delete")}
      \/ low[u] # <<>> /\ low'[u] = Tail(low[u])
  <2>1. CASE Quiet(u)
    BY <1>2, <2>1 DEF Quiet
  <2>2. CASE Closes(u)
    BY <1>1, <2>2 DEF Closes
  <2>3. CASE Serves(u)
    BY <1>1, <2>3 DEF Serves
  <2>4. ASSUME NEW kind \in Kinds, HasCreated(u, kind)
        PROVE  low'[u] = low[u]
    BY <2>4, Zenon DEF HasCreated
  <2> QED
    BY <2>1, <2>2, <2>3, <2>4, HostsStep DEF HostSteps
<1> QED
  BY <1>4, <1>5, <1>6

-----------------------------------------------------------------------------
(* Previews.                                                               *)
LEMMA OpenEnds ==
  ASSUME AppInv, Step, ~TakesTask, NEW s \in States, NEW t \in Threads, window[t].open, window[t].of = s,
         NEW k \in DOMAIN mainQueue \cup {0}
  PROVE  EndsAfter(k, s)'
<1>1. AppTypes /\ HostSteps(t)
  BY HostsStep DEF AppInv
<1>2. CASE window'[t].open /\ window'[t].of = s
  BY <1>2 DEF EndsAfter
<1>3. CASE Quiet(t)
  BY <1>2, <1>3 DEF Quiet
<1>4. CASE Closes(t)
  <2>1. PICK task \in MainTask : /\ mainQueue' = Append(mainQueue, task)
                                 /\ task \in {Task("close", s), Task("commit", s)}
    BY <1>4, Zenon DEF Closes
  <2>2. PICK n \in Nat : /\ n \in DOMAIN mainQueue' /\ mainQueue'[n] = task /\ n # 0
                         /\ \A l \in DOMAIN mainQueue : l < n
    BY <1>1, <2>1, QueueGrows
  <2>3. n > k
    BY <2>2
  <2>4. Ending(n, s)'
    BY <2>1, <2>2 DEF Ending
  <2> QED
    BY <2>2, <2>3, <2>4 DEF EndsAfter
<1>5. CASE Serves(t)
  <2>1. \/ UNCHANGED window \/ busy[t] = "deleting"
        \/ low[t] # <<>> /\ Head(low[t]) = "deinit" /\ UNCHANGED main /\ busy[t] = "idle"
    BY <1>5, Zenon DEF Serves
  <2>2. busy[t] # "deleting"
    BY DEF AppInv, PreviewInv, DeletedOnce, DeletedOf
  <2>3. CASE low[t] # <<>> /\ Head(low[t]) = "deinit" /\ UNCHANGED main
    <3>1. 1 \in DOMAIN low[t] /\ low[t][1] = "deinit"
      BY <1>1, <2>3, QueueTail DEF AppTypes
    <3>2. main'.at = "joining"
      BY <2>3, <3>1 DEF AppInv, PreviewInv, DeinitIsLast
    <3> QED
      BY <3>2 DEF EndsAfter
  <2> QED
    BY <1>2, <2>1, <2>2, <2>3
<1>6. ASSUME NEW kind \in Kinds, HasCreated(t, kind)
      PROVE  FALSE
  BY <1>6, CreatedWindows
<1> QED
  BY <1>1, <1>3, <1>4, <1>5, <1>6 DEF HostSteps

LEMMA EndsAfterKept ==
  ASSUME AppInv, Step, ~TakesTask, NEW s \in States, NEW k \in DOMAIN mainQueue \cup {0}, EndsAfter(k, s)
  PROVE  EndsAfter(k, s)'
<1>1. AppTypes
  BY DEF AppInv
<1>2. CASE main.at = "joining"
  BY <1>2, JoiningKept DEF EndsAfter
<1>3. CASE \E t \in Threads : window[t].open /\ window[t].of = s
  BY <1>3, OpenEnds
<1>4. ASSUME NEW l \in DOMAIN mainQueue, l > k, Ending(l, s)
      PROVE  l \in DOMAIN mainQueue' /\ Ending(l, s)'
  <2>1. UNCHANGED mainQueue \/ \E task \in MainTask : mainQueue' = Append(mainQueue, task)
    BY QueueCases DEF AddsPlain, Closes
  <2>2. CASE UNCHANGED mainQueue
    BY <1>4, <2>2 DEF Ending
  <2>3. ASSUME NEW task \in MainTask, mainQueue' = Append(mainQueue, task)
        PROVE  l \in DOMAIN mainQueue' /\ mainQueue'[l] = mainQueue[l]
    BY <1>1, <2>3, QueueGrows
  <2> QED
    BY <1>4, <2>1, <2>2, <2>3 DEF Ending
<1> QED
  BY <1>2, <1>3, <1>4 DEF EndsAfter

LEMMA NewPreview ==
  ASSUME AppInv, Step, ~TakesTask, NEW k \in DOMAIN mainQueue', mainQueue'[k].what = "preview"
  PROVE  \/ k \in DOMAIN mainQueue /\ mainQueue'[k] = mainQueue[k]
         \/ \E t \in Threads : window'[t].open /\ window'[t].of = mainQueue'[k].s
<1>1. AppTypes
  BY DEF AppInv
<1>2. CASE UNCHANGED mainQueue
  BY <1>2
<1>3. ASSUME NEW task \in MainTask, mainQueue' = Append(mainQueue, task)
      PROVE  \/ k \in DOMAIN mainQueue /\ mainQueue'[k] = mainQueue[k]
             \/ mainQueue'[k] = task
  BY <1>1, <1>3, QueueGrows
<1>4. ASSUME NEW task \in MainTask, mainQueue' = Append(mainQueue, task), task.what # "preview"
      PROVE  k \in DOMAIN mainQueue /\ mainQueue'[k] = mainQueue[k]
  BY <1>3, <1>4
<1>5. ASSUME NEW what \in {"welcome", "edit", "finish"}, mainQueue' = Append(mainQueue, Task(what, "welcome"))
      PROVE  k \in DOMAIN mainQueue /\ mainQueue'[k] = mainQueue[k]
  <2>1. Task(what, "welcome") \in MainTask /\ Task(what, "welcome").what # "preview"
    BY TaskTypes, TaskParts, KindsParts DEF TaskKinds
  <2> QED
    BY <1>4, <1>5, <2>1
<1>6. ASSUME NEW t \in Threads, PickerOn(t), NoneCloses, mainQueue' = Append(mainQueue, Task("preview", window[t].of))
      PROVE  \/ k \in DOMAIN mainQueue /\ mainQueue'[k] = mainQueue[k]
             \/ \E u \in Threads : window'[u].open /\ window'[u].of = mainQueue'[k].s
  <2>1. /\ window[t].open /\ window'[t].open = window[t].open /\ window'[t].of = window[t].of
        /\ Task("preview", window[t].of) \in MainTask /\ Task("preview", window[t].of).s = window[t].of
    BY <1>6, TaskTypes, TaskParts, KindsParts DEF TaskKinds, PickerOn, NoneCloses, Same
  <2>2. \/ k \in DOMAIN mainQueue /\ mainQueue'[k] = mainQueue[k]
        \/ mainQueue'[k] = Task("preview", window[t].of)
    BY <1>3, <1>6, <2>1
  <2>3. CASE mainQueue'[k] = Task("preview", window[t].of)
    BY <2>1, <2>3
  <2> QED
    BY <2>2, <2>3
<1>7. \/ UNCHANGED mainQueue
      \/ \E what \in {"welcome", "edit", "finish"} : mainQueue' = Append(mainQueue, Task(what, "welcome"))
      \/ \E t \in Threads : PickerOn(t) /\ NoneCloses /\ mainQueue' = Append(mainQueue, Task("preview", window[t].of))
      \/ \E t \in Threads : Closes(t)
  <2>1. CASE OfMain
    BY <2>1, Zenon DEF OfMain, MainMoves, Forgets, Elsewhere, PageStays, Returns
  <2>2. CASE OfShutdown
    BY <2>2, Zenon DEF OfShutdown, Locks, Switches, HasAskedAll
  <2>3. CASE \E t \in Threads : OfThread(t)
    BY <2>3, Zenon DEF OfThread, PageCloses, StartsCreating, HasCreated, Serves, HasAsked
  <2> QED
    BY <2>1, <2>2, <2>3 DEF Step
<1>8. (\E t \in Threads : Closes(t)) => \E task \in MainTask : mainQueue' = Append(mainQueue, task) /\ task.what # "preview"
  BY DEF Closes
<1> QED
  BY <1>2, <1>4, <1>5, <1>6, <1>7, <1>8

LEMMA PreviewIsFollowedStep ==
  ASSUME AppInv, Step
  PROVE  PreviewIsFollowed'
<1>1. AppTypes /\ AppTypes' /\ PreviewIsFollowed
  BY TypesOfThread, TypesOfMain, TypesOfShutdown DEF AppInv, PreviewInv, Step
<1>2. preview \subseteq States
      /\ \A k \in DOMAIN mainQueue : mainQueue[k].what \in PickerTasks => mainQueue[k].s \in States
  BY <1>1 DEF AppTypes, QueueType
<1>3. CASE ~TakesTask
  <2>1. UNCHANGED preview
    BY <1>3, Zenon DEF Step, OfThread, PageCloses, Around, StartsCreating, HasCreated, Serves, HasAsked, OfMain, MainMoves,
       Forgets, Elsewhere, PageStays, Returns, OfShutdown, Locks, Switches, HasAskedAll
  <2>2. ASSUME NEW s \in preview'
        PROVE  EndsAfter(0, s)'
    <3>1. s \in States /\ EndsAfter(0, s)
      BY <1>1, <1>2, <2>1, <2>2 DEF PreviewIsFollowed
    <3> QED
      BY <1>3, <3>1, EndsAfterKept
  <2>3. ASSUME NEW k \in DOMAIN mainQueue', mainQueue'[k].what = "preview", NEW s, s = mainQueue'[k].s
        PROVE  EndsAfter(k, s)'
    <3>1. CASE k \in DOMAIN mainQueue /\ mainQueue'[k] = mainQueue[k]
      <4>1. s \in States /\ EndsAfter(k, s)
        BY <1>1, <1>2, <2>3, <3>1 DEF PreviewIsFollowed, PickerTasks
      <4> QED
        BY <1>3, <3>1, <4>1, EndsAfterKept
    <3>2. CASE \E t \in Threads : window'[t].open /\ window'[t].of = mainQueue'[k].s
      BY <2>3, <3>2 DEF EndsAfter
    <3> QED
      BY <1>3, <2>3, <3>1, <3>2, NewPreview
  <2> QED
    BY <2>2, <2>3 DEF PreviewIsFollowed
<1>4. CASE TakesTask
  <2>1. mainQueue # <<>> /\ mainQueue' = Tail(mainQueue) /\ main = Idle /\ (UNCHANGED window \/ Begins)
    BY <1>4, Zenon DEF TakesTask
  <2>2. /\ 1 \in DOMAIN mainQueue /\ Head(mainQueue) = mainQueue[1]
        /\ \A k \in DOMAIN mainQueue' : k \in Nat \ {0} /\ k + 1 \in DOMAIN mainQueue /\ mainQueue'[k] = mainQueue[k + 1]
        /\ \A k \in DOMAIN mainQueue : k \in Nat /\ (k # 1 => k - 1 \in DOMAIN mainQueue' /\ mainQueue'[k - 1] = mainQueue[k])
    BY <1>1, <2>1, QueueShrinks
  <2>3. main.at # "joining" /\ \A t \in Threads : window'[t].of = window[t].of /\ window'[t].open = window[t].open
    BY <1>1, <2>1, WindowsEarly DEF Begins, Idle, AppTypes
  <2>4. ASSUME NEW s \in States, NEW k \in Nat, EndsAfter(k + 1, s) \/ (k = 0 /\ EndsAfter(0, s) /\ ~Ending(1, s))
        PROVE  EndsAfter(k, s)'
    <3>1. CASE \E t \in Threads : window[t].open /\ window[t].of = s
      BY <2>3, <3>1 DEF EndsAfter
    <3>2. CASE \E l \in DOMAIN mainQueue : l > k + 1 /\ Ending(l, s)
      <4>1. PICK l \in DOMAIN mainQueue : l > k + 1 /\ Ending(l, s)
        BY <3>2
      <4>2. l - 1 \in DOMAIN mainQueue' /\ mainQueue'[l - 1] = mainQueue[l] /\ l - 1 > k
        BY <2>2, <2>4, <4>1
      <4> QED
        BY <4>1, <4>2 DEF EndsAfter, Ending
    <3>3. CASE k = 0 /\ \E l \in DOMAIN mainQueue : l > 0 /\ l # 1 /\ Ending(l, s)
      <4>1. \E l \in DOMAIN mainQueue : l > k + 1 /\ Ending(l, s)
        BY <2>2, <3>3
      <4> QED
        BY <3>2, <4>1
    <3> QED
      BY <2>3, <2>4, <3>1, <3>2, <3>3 DEF EndsAfter
  <2>5. ASSUME NEW s \in preview'
        PROVE  EndsAfter(0, s)'
    <3>1. CASE Head(mainQueue).what = "preview" /\ preview' = preview \cup {Head(mainQueue).s} /\ s \notin preview
      <4>1. mainQueue[1].what = "preview" /\ mainQueue[1].s = s
        BY <2>2, <2>5, <3>1
      <4>2. s \in States /\ EndsAfter(1, s)
        BY <1>1, <1>2, <2>2, <4>1 DEF PreviewIsFollowed, PickerTasks
      <4> QED
        BY <2>4, <4>2
    <3>2. CASE s \in preview /\ ~Ending(1, s)
      <4>1. s \in States /\ EndsAfter(0, s)
        BY <1>1, <1>2, <3>2 DEF PreviewIsFollowed
      <4> QED
        BY <2>4, <3>2, <4>1
    <3>3. Ending(1, s) => Head(mainQueue).what \in {"close", "commit"} /\ Head(mainQueue).s = s
      <4>1. mainQueue[1] \in MainTask
        BY <1>1, <2>2 DEF AppTypes, QueueType
      <4> QED
        BY <2>2, <4>1, EndingIs DEF Ending
    <3>4. \/ Head(mainQueue).what = "preview" /\ preview' = preview \cup {Head(mainQueue).s}
          \/ Head(mainQueue).what \in {"close", "commit"} /\ preview' = preview \ {Head(mainQueue).s}
          \/ Head(mainQueue).what \notin {"close", "commit"} /\ UNCHANGED preview
      <4>1. \/ Head(mainQueue).what = "preview" /\ preview' = preview \cup {Head(mainQueue).s}
            \/ Head(mainQueue).what \in {"close", "commit"} /\ preview' = preview \ {Head(mainQueue).s}
            \/ Head(mainQueue).what \in {"welcome", "approved", "edit", "shutdown"} /\ UNCHANGED preview
            \/ Head(mainQueue).what = "shutdown" /\ UNCHANGED preview
            \/ Head(mainQueue).what = "finish" /\ UNCHANGED preview
        BY <1>4, Zenon DEF TakesTask
      <4> QED
        BY <4>1
    <3> QED
      BY <2>5, <3>1, <3>2, <3>3, <3>4
  <2>6. ASSUME NEW k \in DOMAIN mainQueue', mainQueue'[k].what = "preview", NEW s, s = mainQueue'[k].s
        PROVE  EndsAfter(k, s)'
    <3>1. k + 1 \in DOMAIN mainQueue /\ mainQueue[k + 1].what = "preview" /\ mainQueue[k + 1].s = s /\ k \in Nat
      BY <2>2, <2>6
    <3>2. s \in States /\ EndsAfter(k + 1, s)
      BY <1>1, <1>2, <3>1 DEF PreviewIsFollowed, PickerTasks
    <3> QED
      BY <2>4, <3>1, <3>2
  <2> QED
    BY <2>5, <2>6 DEF PreviewIsFollowed
<1> QED
  BY <1>3, <1>4

-----------------------------------------------------------------------------
(* The shutdown asks every window.                                         *)
LateStays(u) == Opens(u)' => window'[u].late \/ (Opens(u) /\ window'[u].late = window[u].late)

LEMMA LateOfThread ==
  ASSUME AppInv, NEW t \in Threads, OfThread(t), shutdown.at # "none" \/ quit
  PROVE  \A u \in Threads : LateStays(u)
<1>1. AppTypes /\ window \in [Threads -> Window] /\ lock \in [Threads -> {"free", "creation", "shutdown"}]
  BY DEF AppInv, AppTypes
<1>2. ASSUME Closes(t) \/ NoneCloses, UNCHANGED lock \/ lock' = [lock EXCEPT ![t] = "free"]
      PROVE  \A u \in Threads : LateStays(u)
  <2>1. \A u \in Threads : lock'[u] = "creation" => lock[u] = "creation"
    BY <1>1, <1>2
  <2>2. \A u \in Threads : (window'[u].open => window[u].open) /\ window'[u].late = window[u].late
    BY <1>2 DEF Closes, Others, NoneCloses, Same
  <2> QED
    BY <2>1, <2>2 DEF LateStays, Opens
<1>3. CASE PageCloses(t)
  BY <1>2, <1>3, Zenon DEF PageCloses, Around
<1>4. CASE HasAsked(t)
  BY <1>2, <1>4, Zenon DEF HasAsked
<1>5. CASE StartsCreating(t)
  <2>1. window' = [window EXCEPT ![t].late = shuttingDown] /\ lock' = [lock EXCEPT ![t] = "creation"]
    BY <1>5, Zenon DEF StartsCreating, StartCreating
  <2>2. shuttingDown = TRUE
    BY DEF AppInv, AppTypes, ShutdownIsOne, ShutdownIsKnown
  <2>3. Others(window', t) /\ window'[t].late = TRUE
    BY <1>1, <2>1, <2>2, WindowLate
  <2> QED
    BY <1>1, <2>1, <2>3 DEF Others, LateStays, Opens
<1>6. ASSUME NEW kind \in Kinds, HasCreated(t, kind)
      PROVE  \A u \in Threads : LateStays(u)
  <2>1. lock' = [lock EXCEPT ![t] = "free"]
    BY <1>6, Zenon DEF HasCreated
  <2>2. /\ \A u \in Threads : u # t => window'[u] = window[u]
        /\ window'[t].late = window[t].late /\ lock[t] = "creation"
    BY <1>6, CreatedWindows DEF Creating
  <2> QED
    BY <1>1, <2>1, <2>2 DEF LateStays, Opens
<1>7. CASE Serves(t)
  <2>1. UNCHANGED lock
    BY <1>7, Zenon DEF Serves
  <2>2. \/ UNCHANGED window
        \/ window' = [window EXCEPT ![t] = NoWindow] /\ lock[t] # "creation"
    <3>1. normal[t] = <<>> => lock[t] # "creation"
      BY SingleQueue DEF AppInv, LocksHaveTasks, LockOf, Creating
    <3>2. UNCHANGED window \/ (window' = [window EXCEPT ![t] = NoWindow] /\ (normal[t] = <<>> \/ lock[t] = "free"))
      BY <1>7, Zenon DEF Serves
    <3> QED
      BY <3>1, <3>2
  <2> QED
    BY <1>1, <2>1, <2>2, NoWindowType DEF LateStays, Opens
<1> QED
  BY <1>3, <1>4, <1>5, <1>6, <1>7, Zenon DEF OfThread

(* Where the shutdown stays where it is.                                   *)
LEMMA LateKept ==
  ASSUME AppInv, UNCHANGED quit, shutdown'.canExit => shutdown.canExit, shutdown'.i = shutdown.i, shutdown'.n = shutdown.n,
         shutdown'.at = shutdown.at \/ (shutdown.at \in {"lock", "switch"} /\ shutdown'.at \in {"switch", "asked"}),
         shutdown.at # "none" \/ quit => \A u \in Threads : LateStays(u)
  PROVE  AskedIsLate'
<1>1. AskedIsLate
  BY DEF AppInv
<1>2. \A u \in Threads : Passed(u)' <=> Passed(u)
  BY DEF Passed
<1> QED
  BY <1>1, <1>2 DEF AskedIsLate, LateStays

LEMMA BeginsLate ==
  ASSUME AppInv, Begins, UNCHANGED <<quit, lock>>
  PROVE  AskedIsLate'
<1>1. AppTypes /\ threads \in Nat /\ Threads \subseteq Nat \ {0}
  BY ThreadNumbers DEF AppInv
<1>2. shutdown'.at = "lock" /\ shutdown'.i = 1 /\ shutdown'.n = threads
  BY DEF Begins
<1>3. ~quit
  BY DEF AppInv, Begins, ShutdownIsOne, ShutdownIsKnown
<1>4. \A u \in Threads : Passed(u)' => u > threads
  BY <1>1, <1>2 DEF Passed
<1>5. \A u \in Threads : window'[u].open = window[u].open
  BY <1>1, WindowsEarly DEF Begins, AppTypes
<1>6. \A u \in Threads : u > threads => lock[u] = "free" /\ ~window[u].open
  BY <1>1 DEF AppInv, LocksHaveTasks, LockOf, AppTypes, Window
<1> QED
  BY <1>2, <1>3, <1>4, <1>5, <1>6 DEF AskedIsLate, Opens

LEMMA LateOfMain ==
  ASSUME AppInv, OfMain
  PROVE  AskedIsLate'
<1>1. AppTypes
  BY DEF AppInv
<1>2. ASSUME UNCHANGED <<shutdown, quit, lock>>, UNCHANGED window \/ NoneCloses
      PROVE  AskedIsLate'
  <2>1. \A u \in Threads : LateStays(u)
    BY <1>2 DEF LateStays, Opens, NoneCloses, Same
  <2> QED
    BY <1>2, <2>1, LateKept
<1>3. CASE MainMoves \/ Forgets \/ Returns \/ PageStays
  BY <1>2, <1>3, Zenon DEF MainMoves, Forgets, Returns, PageStays, Around
<1>4. CASE Elsewhere
  <2>1. CASE Begins /\ UNCHANGED <<life, mainQueue, threads, lock, normal, low, busy, pickers, pickerMutex, preview, quit>>
    BY <2>1, BeginsLate
  <2> QED
    BY <1>3, <1>4, <2>1 DEF Elsewhere
<1>5. CASE TakesTask
  <2>1. UNCHANGED lock /\ mainQueue # <<>>
    BY <1>5, Zenon DEF TakesTask
  <2>2. \/ UNCHANGED <<shutdown, quit, window>>
        \/ Begins /\ UNCHANGED quit
        \/ Head(mainQueue).what = "finish" /\ quit' = TRUE /\ shutdown' = NoShutdown /\ UNCHANGED window
    BY <1>5, Zenon DEF TakesTask
  <2>3. CASE Head(mainQueue).what = "finish" /\ quit' = TRUE /\ shutdown' = NoShutdown /\ UNCHANGED window
    <3>1. 1 \in DOMAIN mainQueue /\ mainQueue[1].what = "finish"
      BY <1>1, <2>1, <2>3, QueueTail DEF AppTypes, QueueType
    <3>2. shutdown.at = "finish"
      BY <3>1 DEF AppInv, ShutdownIsOne, FinishIsOne
    <3>3. \A u \in Threads : Opens(u) => window[u].late
      BY <3>2 DEF AppInv, AskedIsLate
    <3>4. shutdown'.at = "none"
      BY <2>3 DEF NoShutdown
    <3> QED
      BY <2>1, <2>3, <3>3, <3>4 DEF AskedIsLate, Opens
  <2> QED
    BY <1>2, <2>1, <2>2, <2>3, BeginsLate
<1> QED
  BY <1>3, <1>4, <1>5, Zenon DEF OfMain

LEMMA LateOfShutdown ==
  ASSUME AppInv, OfShutdown
  PROVE  AskedIsLate'
<1>1. AppTypes /\ threads \in Nat /\ Threads \subseteq Nat \ {0} /\ MaxThreads \in Nat
  BY ThreadNumbers DEF AppInv
<1>2. UNCHANGED <<window, quit>>
  BY Zenon DEF OfShutdown, Locks, Switches, HasAskedAll
<1>3. \A u \in Threads : lock'[u] = "creation" => lock[u] = "creation"
  <2>1. UNCHANGED lock \/ lock' = [lock EXCEPT ![shutdown.i] = "shutdown"]
    BY Zenon DEF OfShutdown, Locks, Switches, HasAskedAll
  <2> QED
    BY <1>1, <2>1 DEF AppTypes
<1>4. \A u \in Threads : LateStays(u) /\ (Opens(u)' => Opens(u))
  BY <1>2, <1>3 DEF LateStays, Opens
<1>5. CASE Locks
  <2>1. /\ shutdown.at = "lock" /\ lock[shutdown.i] = "free"
        /\ \/ shutdown' = [shutdown EXCEPT !.at = "switch"]
           \/ ~window[shutdown.i].open /\ shutdown' = [shutdown EXCEPT !.i = @ + 1] /\ UNCHANGED lock
    BY <1>5, Zenon DEF Locks
  <2>2. CASE shutdown' = [shutdown EXCEPT !.at = "switch"]
    <3>1. /\ shutdown'.at = "switch" /\ shutdown'.i = shutdown.i /\ shutdown'.n = shutdown.n
          /\ shutdown'.canExit = shutdown.canExit
      BY <1>1, <2>2 DEF AppTypes
    <3> QED
      BY <1>2, <1>4, <2>1, <3>1, LateKept
  <2>3. CASE ~window[shutdown.i].open /\ shutdown' = [shutdown EXCEPT !.i = @ + 1] /\ UNCHANGED lock
    <3>1. /\ shutdown'.at = "lock" /\ shutdown'.i = shutdown.i + 1 /\ shutdown'.n = shutdown.n
          /\ shutdown'.canExit = shutdown.canExit /\ shutdown.i \in Nat
      BY <1>1, <2>1, <2>3 DEF AppTypes
    <3>2. \A u \in Threads : Passed(u)' => Passed(u) \/ u = shutdown.i
      BY <1>1, <3>1 DEF Passed
    <3>3. \A u \in Threads : u = shutdown.i => ~Opens(u)
      BY <2>1, <2>3 DEF Opens
    <3>4. ~quit
      BY <2>1 DEF AppInv, ShutdownIsOne, ShutdownIsKnown
    <3>5. shutdown.canExit => \A u \in Threads : Passed(u) /\ Opens(u) => window[u].late
      BY <2>1 DEF AppInv, AskedIsLate
    <3> QED
      BY <1>2, <1>4, <3>1, <3>2, <3>3, <3>4, <3>5 DEF AskedIsLate
  <2> QED
    BY <2>1, <2>2, <2>3
<1>6. CASE Switches
  <2>1. shutdown.at = "switch" /\ shutdown' = [shutdown EXCEPT !.at = "asked"]
    BY <1>6, Zenon DEF Switches
  <2>2. /\ shutdown'.at = "asked" /\ shutdown'.i = shutdown.i /\ shutdown'.n = shutdown.n
        /\ shutdown'.canExit = shutdown.canExit
    BY <1>1, <2>1 DEF AppTypes
  <2> QED
    BY <1>2, <1>4, <2>1, <2>2, LateKept
<1>7. CASE HasAskedAll
  <2>1. /\ shutdown.at = "lock" /\ shutdown.i > shutdown.n
        /\ \/ shutdown.canExit /\ shutdown' = [shutdown EXCEPT !.at = "finish"]
           \/ shutdown' = NoShutdown
    BY <1>7, Zenon DEF HasAskedAll
  <2>2. ~quit
    BY <2>1 DEF AppInv, ShutdownIsOne, ShutdownIsKnown
  <2>3. CASE shutdown' = NoShutdown
    <3>1. shutdown'.at = "none"
      BY <2>3 DEF NoShutdown
    <3> QED
      BY <1>2, <2>2, <3>1 DEF AskedIsLate
  <2>4. CASE shutdown.canExit /\ shutdown' = [shutdown EXCEPT !.at = "finish"]
    <3>1. shutdown'.at = "finish" /\ shutdown.i \in Nat /\ shutdown.n \in Nat
      BY <1>1, <2>4 DEF AppTypes
    <3>2. \A u \in Threads : Passed(u)
      BY <1>1, <2>1, <3>1 DEF Passed
    <3>3. \A u \in Threads : Opens(u) => window[u].late
      BY <2>1, <2>4, <3>2 DEF AppInv, AskedIsLate
    <3> QED
      BY <1>2, <1>4, <3>1, <3>3 DEF AskedIsLate
  <2> QED
    BY <2>1, <2>3, <2>4
<1> QED
  BY <1>5, <1>6, <1>7 DEF OfShutdown

LEMMA LateOfThreads ==
  ASSUME AppInv, NEW t \in Threads, OfThread(t)
  PROVE  AskedIsLate'
<1>1. AppTypes /\ Threads \subseteq Nat \ {0}
  BY ThreadNumbers DEF AppInv
<1>2. CASE ~HasAsked(t)
  <2>1. UNCHANGED <<shutdown, quit>>
    BY <1>2, Zenon DEF OfThread, PageCloses, Around, StartsCreating, HasCreated, Serves
  <2> QED
    BY <2>1, LateOfThread, LateKept
<1>3. CASE HasAsked(t)
  <2>1. /\ lock[t] = "shutdown" /\ shutdown.at = "asked" /\ shutdown.i = t
        /\ lock' = [lock EXCEPT ![t] = "free"] /\ UNCHANGED quit
    BY <1>3, Zenon DEF HasAsked
  <2>2. PICK can \in BOOLEAN :
          /\ shutdown' = [shutdown EXCEPT !.at = "lock", !.on = t, !.i = @ + 1, !.canExit = can]
          /\ can => shutdown.canExit /\ ~window'[t].open
    BY <1>3, Zenon DEF HasAsked
  <2>3. shutdown'.at = "lock" /\ shutdown'.i = t + 1 /\ shutdown'.n = shutdown.n /\ shutdown'.canExit = can
    BY <1>1, <2>1, <2>2 DEF AppTypes
  <2>4. ~quit
    BY <2>1 DEF AppInv, ShutdownIsOne, ShutdownIsKnown
  <2>5. \A u \in Threads : LateStays(u)
    BY <2>1, LateOfThread
  <2>6. \A u \in Threads : Passed(u)' => Passed(u) \/ u = t
    BY <1>1, <2>1, <2>3 DEF Passed
  <2>7. lock'[t] = "free"
    BY <1>1, <2>1 DEF AppTypes
  <2>8. shutdown.canExit => \A u \in Threads : Passed(u) /\ Opens(u) => window[u].late
    BY <2>1 DEF AppInv, AskedIsLate
  <2>9. can => ~Opens(t)'
    BY <2>2, <2>7 DEF Opens
  <2> QED
    BY <2>1, <2>2, <2>3, <2>4, <2>5, <2>6, <2>8, <2>9 DEF AskedIsLate, LateStays
<1> QED
  BY <1>2, <1>3

-----------------------------------------------------------------------------
(* The invariant.                                                          *)
LEMMA AppInvStep ==
  ASSUME AppInv, [AppNext]_appVars
  PROVE  AppInv'
<1>1. Step
  BY StepCases DEF AppInv, Step
<1>2. AppTypes'
  BY <1>1, TypesOfThread, TypesOfMain, TypesOfShutdown DEF Step
<1>3. StartTypes'
  BY StartTypesStep DEF AppInv
<1>4. LocksHaveTasks'
  BY <1>1, LocksOfThread, LocksOfMain, LocksOfShutdown DEF Step
<1>5. ShutdownIsOne'
  BY <1>1, OneOfThread, OneOfMain, OneOfShutdown DEF Step
<1>6. PickersInv'
  BY <1>1, OpenIsKnownStep, WelcomeIsFirstStep, CreationHoldsMutexStep, ForgottenOnceStep DEF PickersInv
<1>7. PreviewInv'
  BY <1>1, DeletedOnceStep, DeinitIsLastStep, PreviewIsFollowedStep DEF PreviewInv
<1>8. AskedIsLate'
  BY <1>1, LateOfThreads, LateOfMain, LateOfShutdown DEF Step
<1>9. ShutdownInThreads'
  BY <1>1, InThreadsOfThread, InThreadsOfMain, InThreadsOfShutdown DEF Step
<1> QED
  BY <1>2, <1>3, <1>4, <1>5, <1>6, <1>7, <1>8, <1>9 DEF AppInv

LEMMA InitTypes ==
  ASSUME AppInit
  PROVE  AppTypes /\ StartTypes /\ ShutdownInThreads
<1>1. MaxThreads \in Nat \ {0} /\ 0 \in 0 .. MaxThreads /\ 0 \in 0 .. MaxThreads + 1 /\ 1 \in 0 .. MaxThreads
  BY AppAssumption
<1>2. MainType
  BY DEF AppInit, MainType, Idle
<1>3. QueueType
  BY EmptySeq DEF AppInit, QueueType
<1>4. window \in [Threads -> Window]
  BY NoWindowType DEF AppInit
<1>5. normal \in [Threads -> Seq(ThreadTask)]
  <2>1. Task("create", "welcome") \in ThreadTask
    BY TaskTypes, KindsParts
  <2>2. <<Task("create", "welcome")>> \in Seq(ThreadTask) /\ <<>> \in Seq(ThreadTask)
    BY <2>1, EmptySeq
  <2> QED
    BY <2>2 DEF AppInit
<1>6. low \in [Threads -> Seq({"layout", "delete", "deinit"})]
  BY EmptySeq DEF AppInit
<1>7. shutdown \in [at : {"none", "lock", "switch", "asked", "finish"}, on : 0 .. MaxThreads,
                    i : 0 .. MaxThreads + 1, n : 0 .. MaxThreads, canExit : BOOLEAN, hasWelcome : BOOLEAN]
  BY <1>1 DEF AppInit, NoShutdown
<1>8. threads \in 0 .. MaxThreads /\ pickers \in [States -> 0 .. MaxThreads]
  BY <1>1 DEF AppInit
<1>9. lock \in [Threads -> {"free", "creation", "shutdown"}] /\ busy \in [Threads -> {"starting", "idle", "deleting", "shutdown", "gone"}]
  BY DEF AppInit
<1>10. /\ life \in {"running", "ended", "killed", "crashed"} /\ pickerMutex \in BOOLEAN /\ preview \subseteq States
       /\ shuttingDown \in BOOLEAN /\ quit \in BOOLEAN
  BY DEF AppInit
<1>11. StartTypes
  <2>1. acts \in 0 .. MaxActs /\ session \in {"on", "asked", "ending"}
    BY AppAssumption DEF AppInit
  <2>2. welcome \in BOOLEAN /\ firstStart \in BOOLEAN /\ approved \in BOOLEAN
    BY DEF AppInit
  <2>3. fileExists \in BOOLEAN
    BY Zenon DEF AppInit
  <2> QED
    BY <2>1, <2>2, <2>3 DEF StartTypes
<1>12. ShutdownInThreads
  BY DEF AppInit, ShutdownInThreads, NoShutdown
<1> QED
  BY <1>2, <1>3, <1>4, <1>5, <1>6, <1>7, <1>8, <1>9, <1>10, <1>11, <1>12 DEF AppTypes

LEMMA AppInvInit == AppInit => AppInv
<1> SUFFICES ASSUME AppInit
             PROVE  AppInv
  OBVIOUS
<1>1. /\ \A t \in Threads : window[t].of = "none" /\ window[t].open = FALSE /\ low[t] = <<>> /\ busy[t] = "idle"
      /\ mainQueue = <<>> /\ DOMAIN mainQueue = {} /\ main.at = "idle" /\ shutdown.at = "none" /\ shutdown.on = 0
      /\ \A s \in States : pickers[s] = 0
      /\ preview = {} /\ ~shuttingDown /\ ~quit
  BY DEF AppInit, NoWindow, Idle, NoShutdown
<1>2. /\ Threads \subseteq Nat \ {0}
      /\ \A t \in Threads : t # 1 => lock[t] = "free" /\ normal[t] = <<>>
      /\ \A t \in Threads : \/ lock[t] = "free" /\ normal[t] = <<>>
                            \/ lock[t] = "creation" /\ normal[t] = <<Task("create", "welcome")>> /\ threads = 1
  BY DEF AppInit, Threads
<1>3. ASSUME NEW t \in Threads, NEW kind, Creating(t, kind)
      PROVE  kind = "welcome" /\ t = 1
  <2>1. normal[t] = <<Task("create", "welcome")>> /\ normal[t] = <<Task("create", kind)>> /\ t = 1
    BY <1>2, <1>3 DEF Creating
  <2>2. Task("create", "welcome") = Task("create", kind)
    BY <2>1
  <2>3. Task("create", "welcome").s = "welcome" /\ Task("create", kind).s = kind
    BY TaskParts
  <2> QED
    BY <2>1, <2>2, <2>3
<1>4. LocksHaveTasks
  <2> SUFFICES ASSUME NEW t \in Threads
               PROVE  LockOf(t)
    BY DEF LocksHaveTasks
  <2>1. threads \in {0, 1}
    BY DEF AppInit
  <2>2. t > threads => lock[t] = "free"
    BY <1>2, <2>1
  <2>3. lock[t] = "creation" => \E kind \in Kinds : Creating(t, kind)
    BY <1>2, KindsParts DEF Creating
  <2> QED
    BY <1>1, <1>2, <2>2, <2>3 DEF LockOf
<1>5. ShutdownIsOne
  BY <1>1 DEF AppInit, NoShutdown, ShutdownIsOne, ShutdownIsKnown, ShutdownIsAwaited, ShutdownHasLock, FinishIsOne
<1>6. PickersInv
  <2>1. \A t \in Threads, s \in States : ~Creating(t, s)
    BY <1>3, KindsParts
  <2> QED
    BY <1>1, <1>3, <2>1 DEF PickersInv, OpenIsKnown, WelcomeIsFirst, CreationHoldsMutex, ForgottenOnce, Forgetting, Ending
<1>7. PreviewInv
  <2>1. DOMAIN <<>> = {}
    OBVIOUS
  <2> QED
    BY <1>1, <2>1 DEF PreviewInv, DeletedOnce, DeletedOf, DeinitIsLast, PreviewIsFollowed
<1>8. AskedIsLate
  BY <1>1 DEF AskedIsLate
<1> QED
  BY <1>4, <1>5, <1>6, <1>7, <1>8, InitTypes DEF AppInv

LEMMA AppInvariant == AppSpec => []AppInv
<1> HIDE DEF AppInv
<1> QED
  BY AppInvInit, AppInvStep, PTL DEF AppSpec

-----------------------------------------------------------------------------
(* What it comes to.                                                       *)

(* Every variable has its type, whatever the number of threads: no look of *)
(* the main thread and no loop of the shutdown goes past the threads there *)
(* are, or, where it looks for one that is available, one past the last;   *)
(* the loop of the shutdown asks only threads that it has counted and that *)
(* are there; a window that is open has a page; and the program is         *)
(* shutting down exactly while the coroutine is somewhere, or has ended in *)
(* PostQuitMessage.                                                        *)
THEOREM AppIsTyped == AppSpec => []AppTypeOK
<1>1. AppInv => AppTypeOK
  BY DEF AppInv, LocksHaveTasks, LockOf, ShutdownIsOne, ShutdownIsKnown, AppTypeOK
<1> QED
  BY <1>1, AppInvariant, PTL

(* A thread that is being given a window has none.                         *)
THEOREM OneWindow == AppSpec => []OneWindowPerThread
<1>1. AppInv => OneWindowPerThread
  BY DEF AppInv, LocksHaveTasks, LockOf, OneWindowPerThread
<1> QED
  BY <1>1, AppInvariant, PTL

(* A taskbar state never has two colour pickers open, nor is there a       *)
(* second welcome page.                                                    *)
THEOREM OnePicker == AppSpec => []OnePickerPerState
<1>1. AppInv => OnePickerPerState
  <2> SUFFICES ASSUME AppInv, NEW t \in Threads, NEW u \in Threads,
                      window[t].open, window[u].open, window[t].of = window[u].of
               PROVE  t = u
    BY DEF OnePickerPerState
  <2> QED
    BY DEF AppInv, PickersInv, OpenIsKnown
<1> QED
  BY <1>1, AppInvariant, PTL

(* A colour preview does not outlive its picker.                           *)
THEOREM PreviewIsEnded == AppSpec => []PreviewEnds
<1>1. AppInv => PreviewEnds
  BY DEF AppInv, PreviewInv, PreviewIsFollowed, EndsAfter, Ending, PreviewEnds
<1> QED
  BY <1>1, AppInvariant, PTL

(* The program does not quit over a window that would not close: of the    *)
(* windows that are open when it quits, each was asked for after the       *)
(* shutdown had begun.                                                     *)
THEOREM ChangesAreAskedAbout == AppSpec => []NoChangeIsDropped
<1>1. AppInv => NoChangeIsDropped
  BY DEF AppInv, AskedIsLate, Opens, NoChangeIsDropped
<1> QED
  BY <1>1, AppInvariant, PTL
================================================================================
