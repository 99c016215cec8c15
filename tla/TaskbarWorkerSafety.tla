------------------------- MODULE TaskbarWorkerSafety -------------------------
(***************************************************************************)
(* Safety of TaskbarWorker for every value of its constants: resets do not *)
(* nest, a window is tracked once, one restart of Explorer is tolerated, a *)
(* reset applies its effects to the taskbars there are, and once all is    *)
(* handled the tracked windows are there and the shell is followed.        *)
(* Each invariant is inductive together with TypeOK and, from the fourth   *)
(* on, with the first of them, OneReset.                                   *)
(***************************************************************************)
EXTENDS TaskbarWorkerProofs

-----------------------------------------------------------------------------
(* Resets do not nest.  Has and One are the two halves of OneReset, for an *)
(* arbitrary stack.                                                        *)

Has(s) == \E i \in DOMAIN s : s[i].at \in ResetPlaces
One(s) == \A i, j \in DOMAIN s : s[i].at \in ResetPlaces /\ s[j].at \in ResetPlaces => i = j

(* s has as many resets in progress as t: none, or one. *)
Same(s, t) == (Has(s) <=> Has(t)) /\ (One(t) => One(s))

LEMMA PushElements ==
  ASSUME NEW s \in Seq(Frame), NEW f \in Frame
  PROVE  /\ DOMAIN (<<f>> \o s) = 1 .. Len(s) + 1 /\ DOMAIN s = 1 .. Len(s) /\ Len(s) \in Nat
         /\ (<<f>> \o s)[1] = f
         /\ \A i \in 1 .. Len(s) : (<<f>> \o s)[i + 1] = s[i]
         /\ \A i \in 2 .. Len(s) + 1 : (<<f>> \o s)[i] = s[i - 1]
<1>1. <<f>> \in Seq(Frame) /\ Len(<<f>>) = 1 /\ <<f>>[1] = f
  OBVIOUS
<1>2. <<f>> \o s \in Seq(Frame) /\ Len(<<f>> \o s) = 1 + Len(s)
  BY <1>1, ConcatProperties
<1>3. \A i \in 1 .. 1 + Len(s) : (<<f>> \o s)[i] = IF i <= 1 THEN <<f>>[i] ELSE s[i - 1]
  BY <1>1, ConcatProperties
<1>4. DOMAIN s = 1 .. Len(s) /\ Len(s) \in Nat /\ DOMAIN (<<f>> \o s) = 1 .. Len(<<f>> \o s)
  BY <1>2, LenProperties
<1> QED
  BY <1>1, <1>2, <1>3, <1>4

LEMMA PushOther ==
  ASSUME NEW s \in Seq(Frame), NEW f \in Frame, f.at \notin ResetPlaces
  PROVE  Same(<<f>> \o s, s)
<1> DEFINE t == <<f>> \o s
<1>1. /\ DOMAIN t = 1 .. Len(s) + 1 /\ DOMAIN s = 1 .. Len(s) /\ Len(s) \in Nat
      /\ t[1] = f
      /\ \A i \in 1 .. Len(s) : t[i + 1] = s[i]
      /\ \A i \in 2 .. Len(s) + 1 : t[i] = s[i - 1]
  BY PushElements
<1> HIDE DEF t
<1>2. \A i \in DOMAIN t : t[i].at \in ResetPlaces => i - 1 \in DOMAIN s /\ t[i] = s[i - 1]
  BY <1>1
<1>3. Has(t) <=> Has(s)
  <2>1. Has(t) => Has(s)
    BY <1>1, <1>2 DEF Has
  <2>2. Has(s) => Has(t)
    <3> SUFFICES ASSUME Has(s) PROVE Has(t)
      OBVIOUS
    <3>1. PICK i \in 1 .. Len(s) : s[i].at \in ResetPlaces
      BY <1>1 DEF Has
    <3>2. i + 1 \in DOMAIN t /\ t[i + 1] = s[i]
      BY <1>1
    <3> QED
      BY <3>1, <3>2 DEF Has
  <2> QED
    BY <2>1, <2>2
<1>4. One(s) => One(t)
  <2> SUFFICES ASSUME One(s), NEW i \in DOMAIN t, NEW j \in DOMAIN t,
                      t[i].at \in ResetPlaces, t[j].at \in ResetPlaces
               PROVE  i = j
    BY DEF One
  <2>1. i - 1 = j - 1
    BY <1>2 DEF One
  <2> QED
    BY <1>1, <2>1
<1> QED
  BY <1>3, <1>4 DEF Same, t

LEMMA PushReset ==
  ASSUME NEW s \in Seq(Frame), NEW f \in Frame, f.at \in ResetPlaces, ~Has(s)
  PROVE  Has(<<f>> \o s) /\ One(<<f>> \o s)
<1> DEFINE t == <<f>> \o s
<1>1. /\ DOMAIN t = 1 .. Len(s) + 1 /\ DOMAIN s = 1 .. Len(s) /\ Len(s) \in Nat
      /\ t[1] = f
      /\ \A i \in 2 .. Len(s) + 1 : t[i] = s[i - 1]
  BY PushElements
<1> HIDE DEF t
<1>2. \A i \in DOMAIN t : t[i].at \in ResetPlaces => i = 1
  <2> SUFFICES ASSUME NEW i \in DOMAIN t, i # 1 PROVE t[i].at \notin ResetPlaces
    OBVIOUS
  <2>1. i - 1 \in DOMAIN s /\ t[i] = s[i - 1]
    BY <1>1
  <2> QED
    BY <2>1 DEF Has
<1>3. 1 \in DOMAIN t /\ t[1].at \in ResetPlaces
  BY <1>1
<1> QED
  BY <1>2, <1>3 DEF Has, One, t

LEMMA PushRefreshing ==
  ASSUME NEW s \in Seq(Frame), NEW todo \in SUBSET Monitors
  PROVE  Same(Refreshing(todo) \o s, s)
<1>1. CASE todo = {}
  <2>1. Refreshing(todo) \o s = s
    BY <1>1, ConcatEmptySeq DEF Refreshing
  <2> QED
    BY <2>1 DEF Same
<1>2. CASE todo # {}
  <2>1. [at |-> "refreshing", todo |-> todo] \in Frame
    BY DEF Frame
  <2>2. Refreshing(todo) = <<[at |-> "refreshing", todo |-> todo]>>
    BY <1>2 DEF Refreshing
  <2>3. [at |-> "refreshing", todo |-> todo].at \notin ResetPlaces
    BY DEF ResetPlaces
  <2> QED
    BY <2>1, <2>2, <2>3, PushOther
<1> QED
  BY <1>1, <1>2

(* Returning from the innermost call. *)
LEMMA PopElements ==
  ASSUME stack \in Seq(Frame), stack # <<>>
  PROVE  stack = <<Top>> \o Tail(stack)
<1>1. Top \in Frame /\ Tail(stack) \in Seq(Frame) /\ Len(stack) \in Nat \ {0}
  BY TopType, EmptySeq
<1>2. Len(Tail(stack)) = Len(stack) - 1 /\ \A i \in 1 .. Len(Tail(stack)) : Tail(stack)[i] = stack[i + 1]
  BY HeadTailProperties
<1>3. DOMAIN stack = 1 .. Len(stack) /\ Top = stack[1]
  BY <1>1, LenProperties DEF Top
<1> DEFINE t == <<Top>> \o Tail(stack)
<1>4. /\ t \in Seq(Frame) /\ DOMAIN t = 1 .. Len(Tail(stack)) + 1
      /\ t[1] = Top
      /\ \A i \in 2 .. Len(Tail(stack)) + 1 : t[i] = Tail(stack)[i - 1]
  BY <1>1, PushElements, PushType
<1> HIDE DEF t
<1>5. Len(t) = Len(stack)
  BY <1>1, <1>2, <1>4, LenProperties
<1>6. \A i \in 1 .. Len(stack) : stack[i] = t[i]
  <2> SUFFICES ASSUME NEW i \in 1 .. Len(stack) PROVE stack[i] = t[i]
    OBVIOUS
  <2>1. CASE i = 1
    BY <1>3, <1>4, <2>1
  <2>2. CASE i # 1
    BY <1>1, <1>2, <1>4, <2>2
  <2> QED
    BY <2>1, <2>2
<1>7. stack = t
  BY <1>4, <1>5, <1>6, SeqEqual
<1> QED
  BY <1>7 DEF t

LEMMA PopOther ==
  ASSUME stack \in Seq(Frame), stack # <<>>, Top.at \notin ResetPlaces
  PROVE  Same(stack, Tail(stack)) /\ Same(Tail(stack), stack)
<1>1. Top \in Frame /\ Tail(stack) \in Seq(Frame) /\ stack = <<Top>> \o Tail(stack)
  BY TopType, PopElements
<1>2. Same(stack, Tail(stack))
  BY <1>1, PushOther
<1>3. One(stack) => One(Tail(stack))
  <2> SUFFICES ASSUME One(stack), NEW i \in DOMAIN Tail(stack), NEW j \in DOMAIN Tail(stack),
                      Tail(stack)[i].at \in ResetPlaces, Tail(stack)[j].at \in ResetPlaces
               PROVE  i = j
    BY DEF One
  <2>1. /\ DOMAIN Tail(stack) = 1 .. Len(Tail(stack)) /\ Len(Tail(stack)) \in Nat
        /\ DOMAIN stack = 1 .. Len(Tail(stack)) + 1
        /\ \A k \in 1 .. Len(Tail(stack)) : stack[k + 1] = Tail(stack)[k]
    BY <1>1, PushElements
  <2>2. i + 1 = j + 1
    BY <2>1 DEF One
  <2> QED
    BY <2>1, <2>2
<1> QED
  BY <1>2, <1>3 DEF Same

LEMMA PopReset ==
  ASSUME stack \in Seq(Frame), stack # <<>>, Top.at \in ResetPlaces, One(stack)
  PROVE  ~Has(Tail(stack)) /\ Has(stack) /\ One(Tail(stack))
<1>1. Top \in Frame /\ Tail(stack) \in Seq(Frame) /\ stack = <<Top>> \o Tail(stack)
  BY TopType, PopElements
<1>2. /\ DOMAIN Tail(stack) = 1 .. Len(Tail(stack)) /\ Len(Tail(stack)) \in Nat
      /\ DOMAIN stack = 1 .. Len(Tail(stack)) + 1
      /\ stack[1] = Top
      /\ \A k \in 1 .. Len(Tail(stack)) : stack[k + 1] = Tail(stack)[k]
  BY <1>1, PushElements
<1>3. \A k \in DOMAIN Tail(stack) : Tail(stack)[k].at \notin ResetPlaces
  <2> SUFFICES ASSUME NEW k \in DOMAIN Tail(stack), Tail(stack)[k].at \in ResetPlaces PROVE FALSE
    OBVIOUS
  <2>1. k + 1 \in DOMAIN stack /\ 1 \in DOMAIN stack /\ stack[k + 1].at \in ResetPlaces
    BY <1>2
  <2>2. k + 1 = 1
    BY <1>2, <2>1 DEF One
  <2> QED
    BY <1>2, <2>2
<1>4. 1 \in DOMAIN stack
  BY <1>2
<1> QED
  BY <1>2, <1>3, <1>4 DEF Has, One

-----------------------------------------------------------------------------
(* What the building blocks do to the stack. *)

ResetFlags == (resetting <=> Has(stack)) /\ (reentered => resetting)

LEMMA OneResetParts == OneReset <=> One(stack) /\ ResetFlags
BY DEF OneReset, One, Has, ResetFlags

(* A step that only pushes and pops other frames, and leaves the flags. *)
LEMMA SameKeeps ==
  ASSUME OneReset, Same(stack', stack), UNCHANGED <<resetting, reentered>>
  PROVE  OneReset'
BY OneResetParts DEF Same, OneReset, Has, One

(* A step that replaces a frame of ResetState by another. *)
LEMMA ReplaceKeeps ==
  ASSUME OneReset, stack \in Seq(Frame), stack # <<>>, Top.at \in ResetPlaces,
         NEW f \in Frame, f.at \in ResetPlaces,
         Same(stack', <<f>> \o Tail(stack)), resetting' = TRUE, reentered' \in BOOLEAN
  PROVE  OneReset'
<1>1. One(stack) /\ Tail(stack) \in Seq(Frame) /\ ~Has(Tail(stack))
  BY OneResetParts, TopType, PopReset
<1>2. Has(<<f>> \o Tail(stack)) /\ One(<<f>> \o Tail(stack))
  BY <1>1, PushReset
<1> QED
  BY <1>2 DEF Same, OneReset, Has, One

LEMMA EndKeeps ==
  ASSUME OneReset, stack \in Seq(Frame), stack # <<>>, Top.at \in ResetPlaces, EndReset
  PROVE  OneReset'
<1>1. One(stack)
  BY OneResetParts
<1>2. ~Has(Tail(stack)) /\ One(Tail(stack))
  BY <1>1, PopReset
<1> QED
  BY <1>2 DEF EndReset, OneReset, Has, One

LEMMA BeginKeeps ==
  ASSUME NEW base \in Seq(Frame), ~Has(base), NEW manual \in BOOLEAN, service \in BOOLEAN,
         BeginReset(manual, base)
  PROVE  OneReset'
<1>1. [at |-> "clearing", manual |-> manual, waits |-> service] \in Frame
  BY DEF Frame
<1>2. [at |-> "clearing", manual |-> manual, waits |-> service].at \in ResetPlaces
  BY DEF ResetPlaces
<1>3. stack' = <<[at |-> "clearing", manual |-> manual, waits |-> service]>> \o base /\ resetting' = TRUE /\ reentered' = FALSE
  BY DEF BeginReset
<1>4. Has(stack') /\ One(stack')
  BY <1>1, <1>2, <1>3, PushReset
<1> QED
  BY <1>3, <1>4 DEF OneReset, Has, One

(* ResetState starts only when none is in progress. *)
LEMMA ResetStateKeeps ==
  ASSUME TypeOK, OneReset, NEW manual \in BOOLEAN, ResetState(manual)
  PROVE  OneReset'
<1>1. CASE resetting
  <2>1. stack' = stack /\ resetting' = resetting /\ reentered' = TRUE
    BY <1>1 DEF ResetState
  <2> QED
    BY <1>1, <2>1 DEF OneReset
<1>2. CASE ~resetting
  <2>1. BeginReset(manual, stack) /\ ~Has(stack) /\ stack \in Seq(Frame) /\ service \in BOOLEAN
    BY <1>2, OneResetParts DEF ResetState, ResetFlags, TypeOK, WorkerTypeOK
  <2> QED
    BY <2>1, BeginKeeps
<1> QED
  BY <1>1, <1>2

LEMMA SameTransitive ==
  ASSUME NEW r, NEW s, NEW t, Same(r, s), Same(s, t)
  PROVE  Same(r, t)
BY DEF Same

LEMMA InsertWindowSame ==
  ASSUME TypeOK, NEW w \in Windows \cup {Flyout}, NEW refresh \in BOOLEAN, NEW base \in Seq(Frame),
         InsertWindow(w, refresh, base)
  PROVE  Same(stack', base)
<1>1. CASE w = Flyout
  BY <1>1 DEF InsertWindow, Same
<1>2. CASE w # Flyout /\ LooksLikeUserWindow(w)
  <2>1. [at |-> "inserting", win |-> w, refresh |-> refresh] \in Frame
    BY <1>2 DEF Frame
  <2>2. [at |-> "inserting", win |-> w, refresh |-> refresh].at \notin ResetPlaces
    BY DEF ResetPlaces
  <2> QED
    BY <1>2, <2>1, <2>2, PushOther DEF InsertWindow
<1>3. CASE w # Flyout /\ ~LooksLikeUserWindow(w)
  <2>1. PICK todo \in SUBSET Monitors : stack' = Refreshing(todo) \o base
    BY <1>3 DEF InsertWindow, UpdateTracked, Known
  <2> QED
    BY <2>1, PushRefreshing
<1> QED
  BY <1>1, <1>2, <1>3

LEMMA ResumeKeepsOneReset ==
  ASSUME TypeOK, OneReset, Resume
  PROVE  OneReset'
<1>1. stack \in Seq(Frame) /\ stack # <<>> /\ Top \in Frame /\ Tail(stack) \in Seq(Frame)
  BY TopType DEF TypeOK, WorkerTypeOK, Resume, RefreshNext, RefreshLine, RefreshDone, InsertWindowDone,
     DetectTaskbar, InjectExplorerTAP, InsertTaskbars, AskShell, RecordTaskView, LocateFlyout, InsertNextWindow, ApplyOrRetry, FinishReset, At
<1>2. CASE RefreshNext \/ RefreshLine \/ RefreshDone \/ InsertWindowDone
  <2>1. Top.at \notin ResetPlaces
    BY <1>2 DEF RefreshNext, RefreshLine, RefreshDone, InsertWindowDone, At, ResetPlaces
  <2>2. UNCHANGED <<resetting, reentered>>
    BY <1>2 DEF RefreshNext, RefreshLine, RefreshDone, InsertWindowDone, members
  <2>3. Same(stack', Tail(stack))
    <3>1. CASE RefreshNext
      <4>1. Top.todo \subseteq Monitors
        BY <1>1, <3>1, FrameFields DEF RefreshNext, At
      <4>2. PICK m \in Top.todo :
              IF m \in Known
              THEN RefreshAttribute(m, Top.todo \ {m}, Tail(stack))
              ELSE stack' = Refreshing(Top.todo \ {m}) \o Tail(stack)
        BY <3>1 DEF RefreshNext
      <4>3. CASE m \in Known
        <5>1. taskbars[m] \in Bars /\ GetConfig(m) \in Looks
          BY <4>1, <4>3, GetConfigType DEF Known, TypeOK, WorkerTypeOK
        <5>2. PICK waits \in BOOLEAN :
                stack' = <<[at |-> "attribute", todo |-> Top.todo \ {m}, mon |-> m, bar |-> taskbars[m],
                            look |-> GetConfig(m), waits |-> waits]>> \o Tail(stack)
          BY <4>2, <4>3 DEF RefreshAttribute
        <5> DEFINE f == [at |-> "attribute", todo |-> Top.todo \ {m}, mon |-> m, bar |-> taskbars[m],
                         look |-> GetConfig(m), waits |-> waits]
        <5>3. f \in Frame /\ f.at \notin ResetPlaces
          BY <4>1, <5>1 DEF Frame, ResetPlaces
        <5> HIDE DEF f
        <5>4. Same(<<f>> \o Tail(stack), Tail(stack))
          BY <1>1, <5>3, PushOther
        <5> QED
          BY <5>2, <5>4 DEF f
      <4>4. CASE m \notin Known
        BY <1>1, <4>1, <4>2, <4>4, PushRefreshing
      <4> QED
        BY <4>3, <4>4
    <3>2. CASE RefreshLine
      <4>1. Top.todo \subseteq Monitors
        BY <1>1, <3>2, FrameFields DEF RefreshLine, At
      <4>2. [at |-> "line", todo |-> Top.todo] \in Frame
        BY <4>1 DEF Frame
      <4>3. [at |-> "line", todo |-> Top.todo].at \notin ResetPlaces
        BY DEF ResetPlaces
      <4> QED
        BY <1>1, <3>2, <4>2, <4>3, PushOther DEF RefreshLine
    <3>3. CASE RefreshDone
      <4>1. Top.todo \subseteq Monitors
        BY <1>1, <3>3, FrameFields DEF RefreshDone, At
      <4> QED
        BY <1>1, <3>3, <4>1, PushRefreshing DEF RefreshDone
    <3>4. CASE InsertWindowDone
      <4>1. PICK todo \in SUBSET Monitors : stack' = Refreshing(todo) \o Tail(stack)
        BY <3>4 DEF InsertWindowDone, UpdateTracked, Known
      <4> QED
        BY <1>1, <4>1, PushRefreshing
    <3> QED
      BY <1>2, <3>1, <3>2, <3>3, <3>4
  <2>4. Same(stack', stack)
    BY <1>1, <2>1, <2>3, PopOther, SameTransitive
  <2> QED
    BY <2>2, <2>4, SameKeeps
<1>3. CASE \/ DetectTaskbar \/ InjectExplorerTAP \/ InsertTaskbars \/ AskShell \/ RecordTaskView \/ LocateFlyout
           \/ InsertNextWindow \/ ApplyOrRetry \/ FinishReset
  <2>1. Top.at \in ResetPlaces
    BY <1>3 DEF DetectTaskbar, InjectExplorerTAP, InsertTaskbars, AskShell, RecordTaskView, LocateFlyout, InsertNextWindow, ApplyOrRetry,
       FinishReset, At, ResetPlaces
  <2>2. Top.manual \in BOOLEAN
    BY <1>1, <2>1, FrameFields
  <2>3. resetting = TRUE
    <3>1. One(stack) /\ ResetFlags
      BY OneResetParts
    <3> QED
      BY <1>1, <2>1, <3>1, PopReset DEF ResetFlags, TypeOK, WorkerTypeOK
  <2>4. reentered \in BOOLEAN
    BY DEF TypeOK, WorkerTypeOK
  (* A frame replaces the one on top, and something may be pushed on it. *)
  <2> DEFINE Replaced(f) == /\ f \in Frame /\ f.at \in ResetPlaces
                            /\ Same(stack', <<f>> \o Tail(stack))
                            /\ UNCHANGED <<resetting, reentered>>
  <2>5. ASSUME NEW f, Replaced(f) PROVE OneReset'
    BY <1>1, <2>1, <2>3, <2>4, <2>5, ReplaceKeeps
  <2>6. CASE DetectTaskbar
    <3>1. CASE UNCHANGED <<resetting, reentered, stack>>
      BY <3>1 DEF OneReset
    <3>2. CASE EndReset
      BY <1>1, <2>1, <3>2, EndKeeps
    <3>3. CASE /\ stack' = <<[at |-> "injecting", manual |-> Top.manual, main |-> bars[Primary]]>> \o Tail(stack)
               /\ UNCHANGED <<resetting, reentered>>
      <4>1. bars[Primary] \in Bars \cup {NoBar}
        BY DesktopAssumption DEF TypeOK, DesktopTypeOK
      <4>2. Replaced([at |-> "injecting", manual |-> Top.manual, main |-> bars[Primary]])
        BY <2>2, <3>3, <4>1 DEF Frame, ResetPlaces, Same
      <4> QED
        BY <2>5, <4>2
    <3> QED
      BY <2>6, <3>1, <3>2, <3>3 DEF DetectTaskbar
  <2>7. CASE InjectExplorerTAP \/ InsertTaskbars
    <3>1. CASE UNCHANGED stack
      BY <2>7, <3>1 DEF InjectExplorerTAP, InsertTaskbars, OneReset
    <3>2. CASE InjectExplorerTAP /\ stack' = <<[at |-> "arming", manual |-> Top.manual, main |-> Top.main]>> \o Tail(stack)
      <4>1. Top.main \in Bars \cup {NoBar}
        BY <1>1, <3>2, FrameFields DEF InjectExplorerTAP, At
      <4>2. Replaced([at |-> "arming", manual |-> Top.manual, main |-> Top.main])
        BY <2>2, <3>2, <4>1 DEF InjectExplorerTAP, Frame, ResetPlaces, Same
      <4> QED
        BY <2>5, <4>2
    <3>3. CASE InsertTaskbars /\ stack' = <<[at |-> "coordinating", manual |-> Top.manual]>> \o Tail(stack)
      <4>1. Replaced([at |-> "coordinating", manual |-> Top.manual])
        BY <2>2, <3>3 DEF InsertTaskbars, Frame, ResetPlaces, Same
      <4> QED
        BY <2>5, <4>1
    <3> QED
      BY <2>7, <3>1, <3>2, <3>3 DEF InjectExplorerTAP, InsertTaskbars
  <2>8. ASSUME NEW q \in Questions, stack' = <<Ask(Top.manual, q)>> \o Tail(stack), UNCHANGED <<resetting, reentered>>
        PROVE  OneReset'
    <3>1. Ask(Top.manual, q) \in Frame /\ Ask(Top.manual, q).at \in ResetPlaces
      BY <2>2, AskType DEF ResetPlaces
    <3>2. Replaced(Ask(Top.manual, q))
      BY <2>8, <3>1 DEF Same
    <3> QED
      BY <2>5, <3>2
  <2>9. CASE AskShell \/ RecordTaskView \/ LocateFlyout
    <3>1. CASE AskShell
      BY <2>8, <3>1 DEF AskShell, Questions
    <3>2. CASE RecordTaskView
      BY <2>8, <3>2 DEF RecordTaskView, Questions, Flyouts
    <3>3. CASE LocateFlyout /\ Top.about # "find"
      <4>1. NextQuestion[Top.about] \in Questions
        BY <3>3 DEF LocateFlyout, NextQuestion, Questions, Flyouts
      <4> QED
        BY <2>8, <3>3, <4>1 DEF LocateFlyout
    <3>4. CASE LocateFlyout /\ Top.about = "find"
      <4>1. Replaced([at |-> "enumerating", manual |-> Top.manual, last |-> NoWindow])
        BY <2>2, <3>4 DEF LocateFlyout, Frame, ResetPlaces, Same
      <4> QED
        BY <2>5, <4>1
    <3> QED
      BY <2>9, <3>1, <3>2, <3>3, <3>4
  <2>10. CASE InsertNextWindow
    <3> DEFINE w == NextWindow(Top.last)
               f == [Top EXCEPT !.last = w]
    <3>1. w \in Windows /\ InsertWindow(w, FALSE, <<f>> \o Tail(stack))
      BY <2>10, NextWindowType DEF InsertNextWindow, TypeOK
    <3>2. f \in Frame /\ f.at \in ResetPlaces
      BY <1>1, <2>10, <3>1 DEF InsertNextWindow, At, Frame, ResetPlaces
    <3> HIDE DEF w, f
    <3>3. <<f>> \o Tail(stack) \in Seq(Frame)
      BY <1>1, <3>2, PushType
    <3>4. Same(stack', <<f>> \o Tail(stack))
      BY <3>1, <3>3, InsertWindowSame
    <3>5. Replaced(f)
      BY <2>10, <3>2, <3>4 DEF InsertNextWindow
    <3> QED
      BY <2>5, <3>5
  <2>11. CASE ApplyOrRetry
    <3>1. CASE reentered
      <4>1. BeginReset(Top.manual, Tail(stack))
        BY <2>11, <3>1 DEF ApplyOrRetry
      <4>2. ~Has(Tail(stack)) /\ service \in BOOLEAN
        BY <1>1, <2>1, OneResetParts, PopReset DEF TypeOK, WorkerTypeOK
      <4> QED
        BY <1>1, <2>2, <4>1, <4>2, BeginKeeps
    <3>2. CASE ~reentered
      <4> DEFINE f == [at |-> "applying", manual |-> Top.manual]
      <4>1. f \in Frame /\ f.at \in ResetPlaces
        BY <2>2 DEF Frame, ResetPlaces
      <4>2. stack' = Refreshing(Known) \o (<<f>> \o Tail(stack)) /\ UNCHANGED <<resetting, reentered>>
        BY <2>11, <3>2 DEF ApplyOrRetry, RefreshAllAttributes
      <4> HIDE DEF f
      <4>3. Same(stack', <<f>> \o Tail(stack))
        BY <1>1, <4>1, <4>2, PushType, PushRefreshing DEF Known
      <4>4. Replaced(f)
        BY <4>1, <4>2, <4>3
      <4> QED
        BY <2>5, <4>4
    <3> QED
      BY <3>1, <3>2
  <2>12. CASE FinishReset
    BY <1>1, <2>1, <2>12, EndKeeps DEF FinishReset
  <2> QED
    BY <1>3, <2>6, <2>7, <2>9, <2>10, <2>11, <2>12
<1> QED
  BY <1>2, <1>3 DEF Resume

LEMMA HandleKeepsOneReset ==
  ASSUME TypeOK, OneReset, Handle
  PROVE  OneReset'
<1>1. stack \in Seq(Frame) /\ Known \in SUBSET Monitors
  BY DEF TypeOK, WorkerTypeOK, Known
<1>2. Same(stack, stack)
  BY DEF Same
<1>3. CASE OnDisplayChange \/ OnSystemSettingsChange
  BY <1>3, ResetStateKeeps DEF OnDisplayChange, OnSystemSettingsChange
<1>4. CASE OnTaskbarCreateDestroy
  <2>1. CASE ResetState(FALSE)
    BY <2>1, ResetStateKeeps
  <2>2. CASE UNCHANGED <<members, stack>>
    BY <2>2 DEF members, OneReset
  <2> QED
    BY <1>4, <2>1, <2>2 DEF OnTaskbarCreateDestroy
<1>5. CASE \/ OnWindowStateChange \/ WindowRemove \/ OnAeroPeekEnterExit \/ OnForegroundWindowChange
           \/ OnWindowOrderChange \/ OnSettingChangeSent \/ OnPowerBroadcast \/ OnRequestAttributeRefresh
           \/ OnApplyColorPreview \/ OnTaskViewVisibilityChange \/ OnFlyoutVisibilityChange
  <2>1. UNCHANGED <<resetting, reentered>>
    BY <1>5 DEF OnWindowStateChange, WindowRemove, OnAeroPeekEnterExit, OnForegroundWindowChange,
       OnWindowOrderChange, OnSettingChangeSent, OnPowerBroadcast, OnRequestAttributeRefresh,
       OnApplyColorPreview, OnTaskViewVisibilityChange, OnFlyoutVisibilityChange, NoReset
  <2>2. Same(stack', stack)
    <3>1. CASE OnWindowStateChange
      <4>1. Head(events).win \in Windows
        BY <3>1, NextEventType, EventFields DEF OnWindowStateChange, NextEvent, TypeOK
      <4>2. CASE Valid(Head(events).win)
        BY <1>1, <3>1, <4>1, <4>2, InsertWindowSame DEF OnWindowStateChange
      <4>3. CASE ~Valid(Head(events).win)
        BY <1>2, <3>1, <4>3 DEF OnWindowStateChange
      <4> QED
        BY <4>2, <4>3
    <3>2. CASE OnSettingChangeSent \/ OnRequestAttributeRefresh
      BY <1>2, <3>2 DEF OnSettingChangeSent, OnRequestAttributeRefresh
    <3>3. CASE \/ WindowRemove \/ OnAeroPeekEnterExit \/ OnForegroundWindowChange
               \/ OnWindowOrderChange \/ OnPowerBroadcast
               \/ OnApplyColorPreview \/ OnTaskViewVisibilityChange \/ OnFlyoutVisibilityChange
      <4>1. PICK todo \in SUBSET Monitors : stack' = Refreshing(todo) \o stack
        <5>1. CASE WindowRemove
          BY <1>1, <5>1 DEF WindowRemove, RemoveWindow
        <5>2. CASE OnAeroPeekEnterExit \/ OnPowerBroadcast \/ OnApplyColorPreview \/ OnTaskViewVisibilityChange
          BY <1>1, <5>2 DEF OnAeroPeekEnterExit, OnPowerBroadcast, OnApplyColorPreview,
             OnTaskViewVisibilityChange, RefreshAllAttributes
        <5>3. CASE OnForegroundWindowChange
          BY <1>1, <5>3 DEF OnForegroundWindowChange
        <5>4. CASE OnWindowOrderChange
          BY <1>1, <5>4 DEF OnWindowOrderChange
        <5>5. CASE OnFlyoutVisibilityChange
          BY <1>1, <5>5 DEF OnFlyoutVisibilityChange
        <5> QED
          BY <3>3, <5>1, <5>2, <5>3, <5>4, <5>5
      <4> QED
        BY <1>1, <4>1, PushRefreshing
    <3> QED
      BY <1>5, <3>1, <3>2, <3>3
  <2> QED
    BY <2>1, <2>2, SameKeeps
<1> QED
  BY <1>3, <1>4, <1>5 DEF Handle

LEMMA OneResetInit == Init => OneReset
<1> SUFFICES ASSUME Init PROVE OneReset
  OBVIOUS
<1>1. stack = <<[at |-> "clearing", manual |-> TRUE, waits |-> FALSE]>> /\ resetting = TRUE /\ reentered = FALSE
  BY DEF Init
<1>2. DOMAIN stack = {1} /\ stack[1].at \in ResetPlaces
  BY <1>1 DEF ResetPlaces
<1> QED
  BY <1>1, <1>2 DEF OneReset

LEMMA OneResetStep == TypeOK /\ OneReset /\ [Next]_vars => OneReset'
<1> SUFFICES ASSUME TypeOK, OneReset, [Next]_vars PROVE OneReset'
  OBVIOUS
<1>1. CASE Resume
  BY <1>1, ResumeKeepsOneReset
<1>2. CASE Handle
  BY <1>2, HandleKeepsOneReset
<1>3. CASE Call
  <2>1. stack \in Seq(Frame) /\ Known \in SUBSET Monitors
    BY DEF TypeOK, WorkerTypeOK, Known
  <2>2. ASSUME NEW c \in Configs, ConfigurationChanged(c) PROVE OneReset'
    BY <2>1, <2>2, PushRefreshing, SameKeeps DEF ConfigurationChanged, RefreshAllAttributes
  <2>3. ASSUME NEW mode \in PickedModes, RemoveColorPreview(mode) PROVE OneReset'
    BY <2>1, <2>3, PushRefreshing, SameKeeps DEF RemoveColorPreview, RefreshAllAttributes
  <2>4. ASSUME ManualReset PROVE OneReset'
    BY <2>4, ResetStateKeeps DEF ManualReset
  <2> QED
    BY <1>3, <2>2, <2>3, <2>4 DEF Call
<1>4. CASE TimePasses \/ Environment \/ UNCHANGED vars
  <2>1. UNCHANGED <<stack, resetting, reentered>>
    BY <1>4 DEF TimePasses, Environment, vars, members
  <2> QED
    BY <2>1 DEF OneReset
<1> QED
  BY <1>1, <1>2, <1>3, <1>4 DEF Next

(* m_ResettingState is set exactly while one ResetState is in progress,    *)
(* and never two, however deep handlers nest in the waits of one another.  *)
THEOREM ResetsDoNotNest == Spec => []OneReset
<1> QED
  BY TypeCorrect, OneResetInit, OneResetStep, PTL DEF Spec

-----------------------------------------------------------------------------
(* A window is tracked once. *)

(* All a step can do to the tracked windows: nothing, forget all of them   *)
(* (in ResetState), or run the loop of InsertWindow or that of RemoveWindow*)
(* to its end.                                                             *)
LEMMA TrackedSteps ==
  ASSUME TypeOK, [Next]_vars
  PROVE  \/ UNCHANGED <<taskbars, tracked>>
         \/ tracked' = [m \in Monitors |-> NoSets]
         \/ /\ UNCHANGED taskbars
            /\ \E w \in Windows, matches, refresh \in BOOLEAN : \E base : UpdateTracked(w, matches, refresh, base)
         \/ UNCHANGED taskbars /\ \E w \in Windows : RemoveWindow(w)
<1> DEFINE Goal == \/ UNCHANGED <<taskbars, tracked>>
                   \/ tracked' = [m \in Monitors |-> NoSets]
                   \/ /\ UNCHANGED taskbars
                      /\ \E w \in Windows, matches, refresh \in BOOLEAN : \E base : UpdateTracked(w, matches, refresh, base)
                   \/ UNCHANGED taskbars /\ \E w \in Windows : RemoveWindow(w)
<1>1. ASSUME NEW manual, ResetState(manual) PROVE Goal
  BY <1>1 DEF ResetState, BeginReset
<1>2. ASSUME NEW w \in Windows \cup {Flyout}, NEW refresh \in BOOLEAN, NEW base,
             InsertWindow(w, refresh, base), UNCHANGED taskbars
      PROVE  Goal
  <2>1. CASE UNCHANGED tracked
    BY <1>2, <2>1
  <2>2. CASE w # Flyout /\ UpdateTracked(w, FALSE, refresh, base)
    BY <1>2, <2>2
  <2> QED
    BY <1>2, <2>1, <2>2 DEF InsertWindow
<1>3. CASE Resume
  <2>1. CASE \/ RefreshNext \/ RefreshLine \/ RefreshDone \/ DetectTaskbar \/ InjectExplorerTAP
             \/ AskShell \/ RecordTaskView \/ LocateFlyout \/ FinishReset
    BY <2>1 DEF RefreshNext, RefreshLine, RefreshDone, DetectTaskbar, InjectExplorerTAP, AskShell, RecordTaskView,
       LocateFlyout, FinishReset, members
  <2>2. CASE InsertTaskbars \/ ApplyOrRetry
    BY <2>2 DEF InsertTaskbars, InsertTaskbar, ApplyOrRetry, BeginReset
  <2>3. CASE InsertWindowDone
    <3>1. stack # <<>> /\ Top \in Frame /\ Top.at = "inserting"
      BY <2>3, TopType DEF InsertWindowDone, At, TypeOK, WorkerTypeOK
    <3>2. Top.win \in Windows /\ Top.refresh \in BOOLEAN
      BY <3>1, FrameFields
    <3>3. \E matches \in {Top.win \notin config.ignored} :
            UpdateTracked(Top.win, matches, Top.refresh, Tail(stack))
      BY <2>3 DEF InsertWindowDone
    <3> QED
      BY <2>3, <3>2, <3>3 DEF InsertWindowDone
  <2>4. CASE InsertNextWindow
    <3>1. PICK base : /\ NextWindow(Top.last) # NoWindow
                      /\ InsertWindow(NextWindow(Top.last), FALSE, base)
                      /\ UNCHANGED taskbars
      BY <2>4 DEF InsertNextWindow
    <3> QED
      BY <1>2, <3>1, NextWindowType DEF TypeOK
  <2> QED
    BY <1>3, <2>1, <2>2, <2>3, <2>4 DEF Resume
<1>4. CASE Handle
  <2>1. CASE OnWindowStateChange
    <3>1. Head(events).win \in Windows
      BY <2>1, NextEventType, EventFields DEF OnWindowStateChange, NextEvent, TypeOK
    <3> QED
      BY <1>2, <2>1, <3>1 DEF OnWindowStateChange, NoReset
  <2>2. CASE WindowRemove
    <3>1. Head(events).win \in Windows
      BY <2>2, NextEventType, EventFields DEF WindowRemove, NextEvent, TypeOK
    <3> QED
      BY <2>2, <3>1 DEF WindowRemove, NoReset
  <2>3. CASE OnTaskbarCreateDestroy \/ OnDisplayChange \/ OnSystemSettingsChange
    BY <1>1, <2>3 DEF OnTaskbarCreateDestroy, OnDisplayChange, OnSystemSettingsChange, members
  <2>4. CASE \/ OnAeroPeekEnterExit \/ OnForegroundWindowChange \/ OnWindowOrderChange \/ OnSettingChangeSent
             \/ OnPowerBroadcast \/ OnRequestAttributeRefresh \/ OnApplyColorPreview
             \/ OnTaskViewVisibilityChange \/ OnFlyoutVisibilityChange
    BY <2>4 DEF OnAeroPeekEnterExit, OnForegroundWindowChange, OnWindowOrderChange, OnSettingChangeSent,
       OnPowerBroadcast, OnRequestAttributeRefresh, OnApplyColorPreview,
       OnTaskViewVisibilityChange, OnFlyoutVisibilityChange, NoReset
  <2> QED
    BY <1>4, <2>1, <2>2, <2>3, <2>4 DEF Handle
<1>5. CASE Call \/ TimePasses \/ Environment \/ UNCHANGED vars
  BY <1>1, <1>5 DEF Call, ConfigurationChanged, RemoveColorPreview, ManualReset, TimePasses, Environment,
     vars, members
<1> QED
  BY <1>3, <1>4, <1>5 DEF Next

LEMMA TrackedOnceStep == TypeOK /\ TrackedOnce /\ [Next]_vars => TrackedOnce'
<1> SUFFICES ASSUME TypeOK, TrackedOnce, [Next]_vars PROVE TrackedOnce'
  OBVIOUS
<1> USE DEF Holds, Known
<1>1. CASE UNCHANGED <<taskbars, tracked>>
  BY <1>1 DEF TrackedOnce
<1>2. CASE tracked' = [m \in Monitors |-> NoSets]
  BY <1>2 DEF TrackedOnce, NoSets
<1>3. ASSUME UNCHANGED taskbars, NEW w \in Windows, NEW matches, NEW refresh, NEW base,
             UpdateTracked(w, matches, refresh, base)
      PROVE  TrackedOnce'
  <2>1. \A v \in Windows \ {w}, m \in Monitors :
          /\ v \in tracked'[m].max <=> v \in tracked[m].max
          /\ v \in tracked'[m].normal <=> v \in tracked[m].normal
    BY <1>3 DEF UpdateTracked
  <2>2. \A m \in Monitors :
          /\ w \in tracked'[m].max => desk[w].size = "max"
          /\ w \in tracked'[m].normal => desk[w].size = "normal"
          /\ w \in tracked'[m].max \cup tracked'[m].normal => m \in Known /\ MonitorOf(w) = m
    BY <1>3 DEF UpdateTracked
  <2> QED
    BY <1>3, <2>1, <2>2 DEF TrackedOnce
<1>4. ASSUME UNCHANGED taskbars, NEW w \in Windows, RemoveWindow(w)
      PROVE  TrackedOnce'
  BY <1>4 DEF TrackedOnce, RemoveWindow
<1> QED
  BY <1>1, <1>2, <1>3, <1>4, TrackedSteps

LEMMA TrackedOnceInit == Init => TrackedOnce
BY DEF Init, TrackedOnce, Holds, NoSets

(* A window counts for one taskbar, as maximised or as normal, although    *)
(* InsertWindow calls for the same window overlap and resets come between. *)
THEOREM WindowsAreTrackedOnce == Spec => []TrackedOnce
<1> QED
  BY TypeCorrect, TrackedOnceInit, TrackedOnceStep, PTL DEF Spec

-----------------------------------------------------------------------------
(* One restart of Explorer is tolerated.  The process the worker knows is  *)
(* not newer than the one there is; unless the machine has just booted, a  *)
(* restart is on record only if it knew one process, then another.         *)
RestartInv ==
  /\ lastPid <= explorer.pid
  /\ recentRestart => lastPid >= 2
  /\ OneRestartIsTolerated

LEMMA RestartStep == TypeOK /\ RestartInv /\ [Next]_vars => RestartInv'
<1> SUFFICES ASSUME TypeOK, RestartInv, [Next]_vars PROVE RestartInv'
  OBVIOUS
<1>1. lastPid \in Nat /\ explorer \in [pid : Nat, ready : BOOLEAN] /\ recentRestart \in BOOLEAN
  BY DEF TypeOK, DesktopTypeOK, WorkerTypeOK
<1>2. CASE DetectTaskbar
  <2>1. explorer' = explorer
    BY <1>2 DEF DetectTaskbar, desktopVars
  <2>2. exit = NotExited
    BY <1>2 DEF DetectTaskbar, At
  <2>3. CASE IsRestart(Top.manual) /\ recentRestart /\ UNCHANGED <<lastPid, recentRestart>>
    BY <1>1, <2>1, <2>3 DEF RestartInv, OneRestartIsTolerated, IsRestart
  <2>4. CASE /\ recentRestart' = (recentRestart \/ IsRestart(Top.manual))
             /\ lastPid' = IF bars[Primary] # NoBar THEN explorer.pid ELSE lastPid
             /\ UNCHANGED exit
    <3>1. recentRestart' => recentRestart \/ IsRestart(Top.manual)
      BY <2>4
    <3>2. exit' # "restarts"
      BY <2>2, <2>4 DEF NotExited
    <3>3. lastPid' = explorer.pid \/ (lastPid' = lastPid /\ ~IsRestart(Top.manual))
      BY <2>4 DEF IsRestart
    <3> QED
      BY <1>1, <2>1, <3>1, <3>2, <3>3 DEF RestartInv, OneRestartIsTolerated, IsRestart
  <2> QED
    BY <1>2, <2>3, <2>4 DEF DetectTaskbar
<1>3. CASE InjectExplorerTAP \/ InsertTaskbars
  <2>1. UNCHANGED <<explorer, lastPid, recentRestart>> /\ exit = NotExited
    BY <1>3 DEF InjectExplorerTAP, InsertTaskbars, At, desktopVars
  <2>2. exit' # "restarts"
    BY <1>3, <2>1 DEF InjectExplorerTAP, InsertTaskbars, NotExited
  <2> QED
    BY <2>1, <2>2 DEF RestartInv, OneRestartIsTolerated
<1>4. CASE Environment
  <2>1. UNCHANGED <<lastPid, recentRestart, exit>>
    BY <1>4 DEF Environment, members
  <2>2. explorer'.pid \in Nat /\ explorer'.pid >= explorer.pid
    <3>5. explorer.pid \in Nat
      BY <1>1
    <3>1. CASE ExplorerDies \/ ExplorerReady
      <4>1. explorer' = [explorer EXCEPT !.ready = FALSE] \/ explorer' = [explorer EXCEPT !.ready = TRUE]
        BY <3>1 DEF ExplorerDies, ExplorerReady
      <4>2. explorer'.pid = explorer.pid
        BY <1>1, <4>1
      <4> QED
        BY <3>5, <4>2
    <3>4. ASSUME NEW b \in Bars, NEW ready \in BOOLEAN, ExplorerStarts(b, ready)
          PROVE  explorer'.pid \in Nat /\ explorer'.pid >= explorer.pid
      <4>1. explorer' = [pid |-> explorer.pid + 1, ready |-> ready]
        BY <3>4 DEF ExplorerStarts
      <4> QED
        BY <3>5, <4>1
    <3>2. CASE UNCHANGED explorer
      BY <3>5, <3>2
    <3>3. \/ UNCHANGED explorer \/ ExplorerDies \/ ExplorerReady
          \/ \E b \in Bars, ready \in BOOLEAN : ExplorerStarts(b, ready)
      BY <1>4 DEF Environment, PlaceWindow, MinimiseWindow, ShowWindow, HideWindow, CreateWindow, DestroyWindow, ActivateWindow,
         OpenFlyout, CloseFlyout, ToggleBatterySaver, SwitchTaskView, AeroPeek, ChangeDisplays,
         ChangeWorkArea, PreviewFromOutside, RepaintTaskbar, world
    <3> QED
      BY <3>1, <3>2, <3>3, <3>4
  <2> QED
    BY <1>1, <2>1, <2>2 DEF RestartInv, OneRestartIsTolerated
<1>5. CASE UNCHANGED <<explorer, lastPid, exit>> /\ (recentRestart' => recentRestart)
  BY <1>5 DEF RestartInv, OneRestartIsTolerated
<1>6. CASE TimePasses
  BY <1>5, <1>6 DEF TimePasses, desktopVars
<1>7. \/ DetectTaskbar \/ InjectExplorerTAP \/ InsertTaskbars \/ TimePasses \/ Environment
      \/ UNCHANGED <<explorer, lastPid, recentRestart, exit>>
  <2>1. ASSUME Resume PROVE DetectTaskbar \/ InjectExplorerTAP \/ InsertTaskbars \/ UNCHANGED <<explorer, lastPid, recentRestart, exit>>
    BY <2>1 DEF Resume, RefreshNext, RefreshLine, RefreshDone, InsertWindowDone, AskShell, RecordTaskView, LocateFlyout,
       InsertNextWindow, ApplyOrRetry, FinishReset, desktopVars, members
  <2>2. ASSUME NEW manual, ResetState(manual) PROVE UNCHANGED <<lastPid, recentRestart>>
    BY <2>2 DEF ResetState
  <2>3. ASSUME Handle PROVE UNCHANGED <<lastPid, recentRestart>>
    BY <2>2, <2>3 DEF Handle, OnWindowStateChange, WindowRemove, OnTaskbarCreateDestroy, OnAeroPeekEnterExit,
       OnForegroundWindowChange, OnWindowOrderChange, OnDisplayChange, OnSettingChangeSent,
       OnSystemSettingsChange, OnPowerBroadcast, OnRequestAttributeRefresh, OnApplyColorPreview,
       OnTaskViewVisibilityChange, OnFlyoutVisibilityChange, NoReset, members
  <2>4. ASSUME Handle PROVE UNCHANGED <<explorer, exit>>
    <3>1. ASSUME NEW kinds, NextEvent(kinds) \/ NextSent(kinds) \/ NextPosted(kinds)
          PROVE  UNCHANGED <<explorer, exit>>
      BY <3>1 DEF NextEvent, NextSent, NextPosted, world
    <3>2. \E kinds : NextEvent(kinds) \/ NextSent(kinds) \/ NextPosted(kinds)
      BY <2>4 DEF Handle, OnWindowStateChange, WindowRemove, OnTaskbarCreateDestroy, OnAeroPeekEnterExit,
         OnForegroundWindowChange, OnWindowOrderChange, OnDisplayChange, OnSettingChangeSent,
         OnSystemSettingsChange, OnPowerBroadcast, OnRequestAttributeRefresh, OnApplyColorPreview,
         OnTaskViewVisibilityChange, OnFlyoutVisibilityChange
    <3> QED
      BY <3>1, <3>2
  <2>5. ASSUME Call \/ UNCHANGED vars PROVE UNCHANGED <<explorer, lastPid, recentRestart, exit>>
    BY <2>2, <2>5 DEF Call, ConfigurationChanged, RemoveColorPreview, ManualReset, vars, desktopVars,
       members, world
  <2> QED
    BY <2>1, <2>3, <2>4, <2>5 DEF Next
<1> QED
  BY <1>2, <1>3, <1>4, <1>5, <1>6, <1>7

LEMMA RestartInit == ~JustBooted /\ Init => RestartInv
BY DEF Init, DesktopInit, RestartInv, OneRestartIsTolerated, NotExited

(* Unless the machine has just booted, the program never gives up after    *)
(* the first restart of Explorer: it does so only when a third Explorer    *)
(* process has been started.                                               *)
THEOREM RestartTolerated == ~JustBooted => (Spec => []OneRestartIsTolerated)
<1>1. RestartInv => OneRestartIsTolerated
  BY DEF RestartInv
<1>2. SUFFICES ASSUME ~JustBooted PROVE Spec => []OneRestartIsTolerated
  OBVIOUS
<1>3. Init => RestartInv
  BY <1>2, RestartInit
<1> QED
  BY <1>1, <1>3, TypeCorrect, RestartStep, PTL DEF Spec

-----------------------------------------------------------------------------
(* What is in a sequence, be it the stack or a queue: a member of F, and   *)
(* whether the last one that is in K is in G.                              *)
On(s, F) == \E i \in DOMAIN s : s[i] \in F
LastIsIn(s, K, G) == \A i \in DOMAIN s : s[i] \in K /\ (\A j \in DOMAIN s : j > i => s[j] \notin K) => s[i] \in G

LEMMA ConcatElements ==
  ASSUME NEW S, NEW s \in Seq(S), NEW t \in Seq(S)
  PROVE  /\ DOMAIN s = 1 .. Len(s) /\ DOMAIN t = 1 .. Len(t) /\ Len(s) \in Nat /\ Len(t) \in Nat
         /\ DOMAIN (s \o t) = 1 .. Len(s) + Len(t)
         /\ \A i \in 1 .. Len(s) : (s \o t)[i] = s[i]
         /\ \A i \in 1 .. Len(t) : (s \o t)[Len(s) + i] = t[i]
         /\ \A i \in 1 .. Len(s) + Len(t) : i > Len(s) => i - Len(s) \in 1 .. Len(t) /\ (s \o t)[i] = t[i - Len(s)]
<1>1. s \o t \in Seq(S) /\ Len(s \o t) = Len(s) + Len(t)
      /\ \A i \in 1 .. Len(s) + Len(t) : (s \o t)[i] = IF i <= Len(s) THEN s[i] ELSE t[i - Len(s)]
  BY ConcatProperties
<1>2. DOMAIN s = 1 .. Len(s) /\ DOMAIN t = 1 .. Len(t) /\ Len(s) \in Nat /\ Len(t) \in Nat
      /\ DOMAIN (s \o t) = 1 .. Len(s \o t)
  BY <1>1, LenProperties
<1> DEFINE u == s \o t
<1> HIDE DEF u
<1> QED
  BY <1>1, <1>2 DEF u

LEMMA OnConcat ==
  ASSUME NEW S, NEW s \in Seq(S), NEW t \in Seq(S), NEW F
  PROVE  On(s \o t, F) <=> On(s, F) \/ On(t, F)
<1> DEFINE u == s \o t
<1>1. /\ DOMAIN s = 1 .. Len(s) /\ DOMAIN t = 1 .. Len(t) /\ Len(s) \in Nat /\ Len(t) \in Nat
      /\ DOMAIN u = 1 .. Len(s) + Len(t)
      /\ \A i \in 1 .. Len(s) : u[i] = s[i]
      /\ \A i \in 1 .. Len(t) : u[Len(s) + i] = t[i]
      /\ \A i \in 1 .. Len(s) + Len(t) : i > Len(s) => i - Len(s) \in 1 .. Len(t) /\ u[i] = t[i - Len(s)]
  BY ConcatElements
<1> HIDE DEF u
<1>2. ASSUME NEW i \in DOMAIN u, u[i] \in F PROVE On(s, F) \/ On(t, F)
  <2>1. CASE i <= Len(s)
    <3>1. i \in DOMAIN s /\ s[i] \in F
      BY <1>1, <1>2, <2>1
    <3> QED
      BY <3>1 DEF On
  <2>2. CASE i > Len(s)
    <3>1. i - Len(s) \in DOMAIN t /\ t[i - Len(s)] \in F
      BY <1>1, <1>2, <2>2
    <3> QED
      BY <3>1 DEF On
  <2> QED
    BY <1>1, <2>1, <2>2
<1>3. ASSUME NEW i \in DOMAIN s, s[i] \in F PROVE On(u, F)
  <2>1. i \in DOMAIN u /\ u[i] \in F
    BY <1>1, <1>3
  <2> QED
    BY <2>1 DEF On
<1>4. ASSUME NEW i \in DOMAIN t, t[i] \in F PROVE On(u, F)
  <2>1. Len(s) + i \in DOMAIN u /\ u[Len(s) + i] \in F
    BY <1>1, <1>4
  <2> QED
    BY <2>1 DEF On
<1>5. On(u, F) => On(s, F) \/ On(t, F)
  BY <1>2 DEF On
<1>6. On(s, F) \/ On(t, F) => On(u, F)
  BY <1>3, <1>4 DEF On
<1> QED
  BY <1>5, <1>6 DEF u

LEMMA LastConcat ==
  ASSUME NEW S, NEW s \in Seq(S), NEW t \in Seq(S), NEW K, NEW G,
         LastIsIn(t, K, G), On(t, K) \/ LastIsIn(s, K, G)
  PROVE  LastIsIn(s \o t, K, G)
<1> DEFINE u == s \o t
<1>1. /\ DOMAIN s = 1 .. Len(s) /\ DOMAIN t = 1 .. Len(t) /\ Len(s) \in Nat /\ Len(t) \in Nat
      /\ DOMAIN u = 1 .. Len(s) + Len(t)
      /\ \A i \in 1 .. Len(s) : u[i] = s[i]
      /\ \A i \in 1 .. Len(t) : u[Len(s) + i] = t[i]
      /\ \A i \in 1 .. Len(s) + Len(t) : i > Len(s) => i - Len(s) \in 1 .. Len(t) /\ u[i] = t[i - Len(s)]
  BY ConcatElements
<1> HIDE DEF u
<1> SUFFICES ASSUME NEW i \in DOMAIN u, u[i] \in K, \A j \in DOMAIN u : j > i => u[j] \notin K
             PROVE  u[i] \in G
  BY DEF LastIsIn, u
<1>2. CASE i > Len(s)
  <2>1. i - Len(s) \in DOMAIN t /\ u[i] = t[i - Len(s)]
    BY <1>1, <1>2
  <2>2. \A j \in DOMAIN t : j > i - Len(s) => t[j] \notin K
    <3> SUFFICES ASSUME NEW j \in DOMAIN t, j > i - Len(s) PROVE t[j] \notin K
      OBVIOUS
    <3>1. Len(s) + j \in DOMAIN u /\ Len(s) + j > i /\ u[Len(s) + j] = t[j]
      BY <1>1
    <3> QED
      BY <3>1
  <2> QED
    BY <2>1, <2>2 DEF LastIsIn
<1>3. CASE i <= Len(s)
  <2>1. i \in DOMAIN s /\ u[i] = s[i]
    BY <1>1, <1>3
  <2>2. ~On(t, K)
    <3> SUFFICES ASSUME NEW j \in DOMAIN t, t[j] \in K PROVE FALSE
      BY DEF On
    <3>1. Len(s) + j \in DOMAIN u /\ Len(s) + j > i /\ u[Len(s) + j] = t[j]
      BY <1>1, <1>3
    <3> QED
      BY <3>1
  <2>3. \A j \in DOMAIN s : j > i => s[j] \notin K
    <3> SUFFICES ASSUME NEW j \in DOMAIN s, j > i PROVE s[j] \notin K
      OBVIOUS
    <3>1. j \in DOMAIN u /\ u[j] = s[j]
      BY <1>1
    <3> QED
      BY <3>1
  <2> QED
    BY <2>1, <2>2, <2>3 DEF LastIsIn
<1> QED
  BY <1>1, <1>2, <1>3

LEMMA OnFew ==
  ASSUME NEW F
  PROVE  /\ ~On(<<>>, F)
         /\ \A e : On(<<e>>, F) <=> e \in F
         /\ \A d, e : On(<<d, e>>, F) <=> d \in F \/ e \in F
<1>1. ~On(<<>>, F)
  BY DEF On
<1>2. \A e : On(<<e>>, F) <=> e \in F
  BY DEF On
<1>3. ASSUME NEW d, NEW e PROVE On(<<d, e>>, F) <=> d \in F \/ e \in F
  BY DEF On
<1> QED
  BY <1>1, <1>2, <1>3

LEMMA LastFew ==
  ASSUME NEW K, NEW G
  PROVE  /\ LastIsIn(<<>>, K, G)
         /\ \A e : (e \in K => e \in G) => LastIsIn(<<e>>, K, G)
         /\ \A d, e : (d \in K => d \in G) /\ (e \in K => e \in G) => LastIsIn(<<d, e>>, K, G)
BY DEF LastIsIn

(* A sequence that is not empty: its first element, and the rest. *)
LEMMA HeadElements ==
  ASSUME NEW S, NEW s \in Seq(S), s # <<>>
  PROVE  Head(s) \in S /\ Tail(s) \in Seq(S) /\ <<Head(s)>> \in Seq(S) /\ s = <<Head(s)>> \o Tail(s)
<1> DEFINE h == Head(s)
           t == Tail(s)
           u == <<h>> \o t
<1>1. h \in S /\ t \in Seq(S) /\ Len(s) \in Nat \ {0} /\ h = s[1]
      /\ Len(t) = Len(s) - 1 /\ \A i \in 1 .. Len(t) : t[i] = s[i + 1]
  BY HeadTailProperties, EmptySeq, LenProperties
<1> HIDE DEF h, t
<1>2. <<h>> \in Seq(S) /\ Len(<<h>>) = 1 /\ <<h>>[1] = h
  BY <1>1
<1>3. u \in Seq(S) /\ Len(u) = 1 + Len(t) /\ \A i \in 1 .. 1 + Len(t) : u[i] = IF i <= 1 THEN <<h>>[i] ELSE t[i - 1]
  BY <1>1, <1>2, ConcatProperties
<1> HIDE DEF u
<1>4. \A i \in 1 .. Len(s) : s[i] = u[i]
  <2> SUFFICES ASSUME NEW i \in 1 .. Len(s) PROVE s[i] = u[i]
    OBVIOUS
  <2>1. CASE i = 1
    BY <1>1, <1>2, <1>3, <2>1
  <2>2. CASE i # 1
    BY <1>1, <1>3, <2>2
  <2> QED
    BY <2>1, <2>2
<1>5. s = u
  BY <1>1, <1>3, <1>4, SeqEqual
<1> QED
  BY <1>1, <1>2, <1>5 DEF u, h, t

LEMMA OnHead ==
  ASSUME NEW S, NEW s \in Seq(S), s # <<>>, NEW F
  PROVE  On(s, F) <=> Head(s) \in F \/ On(Tail(s), F)
<1>1. Head(s) \in S /\ Tail(s) \in Seq(S) /\ <<Head(s)>> \in Seq(S) /\ s = <<Head(s)>> \o Tail(s)
  BY HeadElements
<1>2. On(<<Head(s)>> \o Tail(s), F) <=> On(<<Head(s)>>, F) \/ On(Tail(s), F)
  BY <1>1, OnConcat
<1>3. On(<<Head(s)>>, F) <=> Head(s) \in F
  BY OnFew
<1> QED
  BY <1>1, <1>2, <1>3

LEMMA LastHead ==
  ASSUME NEW S, NEW s \in Seq(S), s # <<>>, NEW K, NEW G, LastIsIn(s, K, G)
  PROVE  LastIsIn(Tail(s), K, G) /\ (Head(s) \in K /\ ~On(Tail(s), K) => Head(s) \in G)
<1> DEFINE h == Head(s)
           t == Tail(s)
<1>1. h \in S /\ t \in Seq(S) /\ Len(s) \in Nat \ {0} /\ h = s[1] /\ DOMAIN s = 1 .. Len(s) /\ DOMAIN t = 1 .. Len(t)
      /\ Len(t) = Len(s) - 1 /\ \A i \in 1 .. Len(t) : t[i] = s[i + 1]
  BY HeadTailProperties, EmptySeq, LenProperties
<1> HIDE DEF h, t
<1>2. ASSUME NEW i \in DOMAIN t, t[i] \in K, \A j \in DOMAIN t : j > i => t[j] \notin K
      PROVE  t[i] \in G
  <2>1. i + 1 \in DOMAIN s /\ s[i + 1] = t[i]
    BY <1>1
  <2>2. \A j \in DOMAIN s : j > i + 1 => s[j] \notin K
    <3> SUFFICES ASSUME NEW j \in DOMAIN s, j > i + 1 PROVE s[j] \notin K
      OBVIOUS
    <3>1. j - 1 \in DOMAIN t /\ j - 1 > i /\ t[j - 1] = s[j]
      BY <1>1
    <3> QED
      BY <1>2, <3>1
  <2> QED
    BY <1>2, <2>1, <2>2 DEF LastIsIn
<1>3. ASSUME h \in K, ~On(t, K) PROVE h \in G
  <2>1. \A j \in DOMAIN s : j > 1 => s[j] \notin K
    <3> SUFFICES ASSUME NEW j \in DOMAIN s, j > 1 PROVE s[j] \notin K
      OBVIOUS
    <3>1. j - 1 \in DOMAIN t /\ t[j - 1] = s[j]
      BY <1>1
    <3> QED
      BY <1>3, <3>1 DEF On
  <2>2. 1 \in DOMAIN s
    BY <1>1
  <2> QED
    BY <1>1, <1>3, <2>1, <2>2 DEF LastIsIn
<1> QED
  BY <1>2, <1>3 DEF LastIsIn, h, t

-----------------------------------------------------------------------------
(* The frames on the stack.  Refreshes come and go; what matters of the    *)
(* stack below is which other frames, Waits, it has.                       *)
Waits == {f \in Frame : f.at \notin {"refreshing", "attribute", "line"}}
Keeps(s, t) == \A F \in SUBSET Waits : On(s, F) <=> On(t, F)

LEMMA PushFrame ==
  ASSUME NEW s \in Seq(Frame), NEW f \in Frame, NEW F
  PROVE  On(<<f>> \o s, F) <=> f \in F \/ On(s, F)
<1>1. <<f>> \in Seq(Frame)
  OBVIOUS
<1>2. On(<<f>>, F) <=> f \in F
  BY OnFew
<1> QED
  BY <1>1, <1>2, OnConcat

LEMMA PushedRefresh ==
  ASSUME NEW s \in Seq(Frame), NEW f \in Frame, f \notin Waits
  PROVE  Keeps(<<f>> \o s, s)
BY PushFrame DEF Keeps

LEMMA PushedRefreshing ==
  ASSUME NEW s \in Seq(Frame), NEW todo \in SUBSET Monitors
  PROVE  Keeps(Refreshing(todo) \o s, s)
<1>1. CASE todo = {}
  <2>1. Refreshing(todo) \o s = s
    BY <1>1, ConcatEmptySeq DEF Refreshing
  <2> QED
    BY <2>1 DEF Keeps
<1>2. CASE todo # {}
  <2>1. [at |-> "refreshing", todo |-> todo] \in Frame \ Waits
    BY DEF Frame, Waits
  <2>2. Refreshing(todo) = <<[at |-> "refreshing", todo |-> todo]>>
    BY <1>2 DEF Refreshing
  <2> QED
    BY <2>1, <2>2, PushedRefresh
<1> QED
  BY <1>1, <1>2

LEMMA PopFrame ==
  ASSUME TypeOK, stack # <<>>, NEW F
  PROVE  On(stack, F) <=> Top \in F \/ On(Tail(stack), F)
BY OnHead DEF TypeOK, WorkerTypeOK, Top

(* The steps of a refresh in progress. *)
LEMMA RefreshKeeps ==
  ASSUME TypeOK, RefreshNext \/ RefreshLine \/ RefreshDone
  PROVE  Keeps(stack', stack)
<1>1. /\ stack \in Seq(Frame) /\ stack # <<>> /\ Top \in Frame /\ Tail(stack) \in Seq(Frame)
      /\ Top.at \in {"refreshing", "attribute", "line"} /\ Top.todo \subseteq Monitors
  BY TopType, FrameFields DEF TypeOK, WorkerTypeOK, RefreshNext, RefreshLine, RefreshDone, At
<1>2. Keeps(stack, Tail(stack))
  BY <1>1, PopFrame DEF Keeps, Waits
<1>3. CASE RefreshNext
  <2>1. PICK m \in Top.todo :
          IF m \in Known
          THEN RefreshAttribute(m, Top.todo \ {m}, Tail(stack))
          ELSE stack' = Refreshing(Top.todo \ {m}) \o Tail(stack)
    BY <1>3 DEF RefreshNext
  <2>2. CASE m \in Known
    <3>1. taskbars[m] \in Bars /\ GetConfig(m) \in Looks
      BY <1>1, <2>2, GetConfigType DEF Known, TypeOK, WorkerTypeOK
    <3>2. PICK waits \in BOOLEAN :
            stack' = <<[at |-> "attribute", todo |-> Top.todo \ {m}, mon |-> m, bar |-> taskbars[m],
                        look |-> GetConfig(m), waits |-> waits]>> \o Tail(stack)
      BY <2>1, <2>2 DEF RefreshAttribute
    <3> DEFINE f == [at |-> "attribute", todo |-> Top.todo \ {m}, mon |-> m, bar |-> taskbars[m],
                     look |-> GetConfig(m), waits |-> waits]
    <3>3. f \in Frame /\ f \notin Waits
      BY <1>1, <3>1 DEF Frame, Waits
    <3> HIDE DEF f
    <3>4. Keeps(<<f>> \o Tail(stack), Tail(stack))
      BY <1>1, <3>3, PushedRefresh
    <3> QED
      BY <1>2, <3>2, <3>4 DEF f, Keeps
  <2>3. CASE m \notin Known
    <3>1. Keeps(Refreshing(Top.todo \ {m}) \o Tail(stack), Tail(stack))
      BY <1>1, PushedRefreshing
    <3> QED
      BY <1>2, <2>1, <2>3, <3>1 DEF Keeps
  <2> QED
    BY <2>2, <2>3
<1>4. CASE RefreshLine
  <2> DEFINE f == [at |-> "line", todo |-> Top.todo]
  <2>1. f \in Frame /\ f \notin Waits /\ stack' = <<f>> \o Tail(stack)
    BY <1>1, <1>4 DEF Frame, Waits, RefreshLine
  <2> HIDE DEF f
  <2>2. Keeps(<<f>> \o Tail(stack), Tail(stack))
    BY <1>1, <2>1, PushedRefresh
  <2> QED
    BY <1>2, <2>1, <2>2 DEF Keeps
<1>5. CASE RefreshDone
  <2>1. Keeps(Refreshing(Top.todo) \o Tail(stack), Tail(stack))
    BY <1>1, PushedRefreshing
  <2> QED
    BY <1>2, <1>5, <2>1 DEF Keeps, RefreshDone
<1> QED
  BY <1>3, <1>4, <1>5

(* InsertWindow: it waits, or it has updated what is tracked. *)
Inserting(w) == {f \in Frame : f.at = "inserting" /\ f.win = w}
LEMMA InsertFrames ==
  ASSUME TypeOK, NEW w \in Windows \cup {Flyout}, NEW refresh \in BOOLEAN, NEW base \in Seq(Frame),
         InsertWindow(w, refresh, base)
  PROVE  \/ UNCHANGED tracked /\ w \in Windows
            /\ \E f \in Inserting(w) : stack' = <<f>> \o base
         \/ UNCHANGED tracked /\ w = Flyout /\ Keeps(stack', base)
         \/ w \in Windows /\ UpdateTracked(w, FALSE, refresh, base) /\ Keeps(stack', base)
<1>1. CASE w = Flyout
  BY <1>1 DEF InsertWindow, Keeps
<1>2. CASE w # Flyout /\ LooksLikeUserWindow(w)
  <2>1. [at |-> "inserting", win |-> w, refresh |-> refresh] \in Inserting(w)
    BY <1>2 DEF Frame, Inserting
  <2>2. stack' = <<[at |-> "inserting", win |-> w, refresh |-> refresh]>> \o base /\ UNCHANGED tracked /\ w \in Windows
    BY <1>2 DEF InsertWindow
  <2> QED
    BY <2>1, <2>2
<1>3. CASE w # Flyout /\ ~LooksLikeUserWindow(w)
  <2>1. UpdateTracked(w, FALSE, refresh, base) /\ w \in Windows
    BY <1>3 DEF InsertWindow
  <2>2. PICK todo \in SUBSET Monitors : stack' = Refreshing(todo) \o base
    BY <2>1 DEF UpdateTracked, Known
  <2> QED
    BY <2>1, <2>2, PushedRefreshing
<1> QED
  BY <1>1, <1>2, <1>3

(* A call or a handler: it inserts or removes a window, begins a reset or  *)
(* tells the one in progress, or only refreshes.                           *)
Notes == resetting /\ reentered' = TRUE /\ UNCHANGED <<taskbars, tracked, shell, stack>>
LEMMA ResetStateCases ==
  ASSUME NEW manual, ResetState(manual)
  PROVE  Notes \/ (~resetting /\ BeginReset(manual, stack))
BY DEF ResetState, Notes

LEMMA HandlerCases ==
  ASSUME TypeOK, Handle \/ Call
  PROVE  \/ Notes
         \/ ~resetting /\ \E manual \in BOOLEAN : BeginReset(manual, stack)
         \/ OnWindowStateChange /\ UNCHANGED <<taskbars, shell, reentered>>
         \/ UNCHANGED <<taskbars, reentered>> /\ Keeps(stack', stack)
<1>1. stack \in Seq(Frame) /\ Known \in SUBSET Monitors
  BY DEF TypeOK, WorkerTypeOK, Known
<1>2. Keeps(stack, stack)
  BY DEF Keeps
<1>3. CASE OnDisplayChange \/ OnSystemSettingsChange \/ ManualReset
  BY <1>3, ResetStateCases DEF OnDisplayChange, OnSystemSettingsChange, ManualReset
<1>4. CASE OnTaskbarCreateDestroy
  BY <1>2, <1>4, ResetStateCases DEF OnTaskbarCreateDestroy, members
<1>5. CASE OnWindowStateChange
  BY <1>5 DEF OnWindowStateChange, NoReset
<1>6. CASE OnSettingChangeSent \/ OnRequestAttributeRefresh
  BY <1>2, <1>6 DEF OnSettingChangeSent, OnRequestAttributeRefresh, NoReset
<1>7. CASE \/ WindowRemove \/ OnAeroPeekEnterExit \/ OnForegroundWindowChange
           \/ OnWindowOrderChange \/ OnPowerBroadcast
           \/ OnApplyColorPreview \/ OnTaskViewVisibilityChange \/ OnFlyoutVisibilityChange
           \/ (\E c \in Configs : ConfigurationChanged(c)) \/ (\E mode \in PickedModes : RemoveColorPreview(mode))
  <2>1. PICK todo \in SUBSET Monitors : stack' = Refreshing(todo) \o stack
    <3>1. CASE WindowRemove
      BY <1>1, <3>1 DEF WindowRemove, RemoveWindow
    <3>2. CASE \/ OnAeroPeekEnterExit \/ OnPowerBroadcast \/ OnApplyColorPreview \/ OnTaskViewVisibilityChange
               \/ (\E c \in Configs : ConfigurationChanged(c)) \/ (\E mode \in PickedModes : RemoveColorPreview(mode))
      BY <1>1, <3>2 DEF OnAeroPeekEnterExit, OnPowerBroadcast, OnApplyColorPreview,
         OnTaskViewVisibilityChange, ConfigurationChanged, RemoveColorPreview, RefreshAllAttributes
    <3>3. CASE OnForegroundWindowChange
      BY <1>1, <3>3 DEF OnForegroundWindowChange
    <3>4. CASE OnWindowOrderChange
      BY <1>1, <3>4 DEF OnWindowOrderChange
    <3>5. CASE OnFlyoutVisibilityChange
      BY <1>1, <3>5 DEF OnFlyoutVisibilityChange
    <3> QED
      BY <1>7, <3>1, <3>2, <3>3, <3>4, <3>5
  <2>2. UNCHANGED <<taskbars, reentered>>
    BY <1>7 DEF WindowRemove, OnAeroPeekEnterExit, OnForegroundWindowChange, OnWindowOrderChange, OnPowerBroadcast,
       OnApplyColorPreview, OnTaskViewVisibilityChange, OnFlyoutVisibilityChange, ConfigurationChanged,
       RemoveColorPreview, NoReset
  <2> QED
    BY <1>1, <2>1, <2>2, PushedRefreshing
<1> QED
  BY <1>3, <1>4, <1>5, <1>6, <1>7 DEF Handle, Call

-----------------------------------------------------------------------------
(* The frames of the reset in progress. *)
ResetFrames == {f \in Frame : f.at \in ResetPlaces}

LEMMA NoResetFrames ==
  ASSUME NEW s \in Seq(Frame), ~Has(s), NEW F \in SUBSET ResetFrames
  PROVE  ~On(s, F)
BY DEF On, Has, ResetFrames

ResetStep ==
  \/ DetectTaskbar \/ InjectExplorerTAP \/ InsertTaskbars
  \/ AskShell \/ RecordTaskView \/ LocateFlyout
  \/ InsertNextWindow \/ ApplyOrRetry \/ FinishReset
LEMMA ResetOnTop ==
  ASSUME TypeOK, OneReset, ResetStep
  PROVE  /\ stack \in Seq(Frame) /\ stack # <<>> /\ Tail(stack) \in Seq(Frame) /\ ~Has(Tail(stack))
         /\ Top \in Frame /\ Top.at \in ResetPlaces /\ Top.manual \in BOOLEAN /\ resetting
<1>1. stack \in Seq(Frame) /\ stack # <<>> /\ Top.at \in ResetPlaces
  BY DEF TypeOK, WorkerTypeOK, ResetStep, DetectTaskbar, InjectExplorerTAP, InsertTaskbars, AskShell, RecordTaskView, LocateFlyout,
     InsertNextWindow, ApplyOrRetry, FinishReset, At, ResetPlaces
<1>2. Top \in Frame /\ Tail(stack) \in Seq(Frame)
  BY <1>1, TopType
<1>3. One(stack) /\ ResetFlags
  BY OneResetParts
<1> QED
  BY <1>1, <1>2, <1>3, PopReset, FrameFields DEF ResetFlags

(* A reset that begins has cleared everything. *)
LEMMA BeginFrames ==
  ASSUME NEW manual \in BOOLEAN, NEW base \in Seq(Frame), service \in BOOLEAN, ~Has(base), BeginReset(manual, base)
  PROVE  /\ \E f \in Frame : f.at = "clearing" /\ stack' = <<f>> \o base
         /\ \A F \in SUBSET ResetFrames : (\A f \in F : f.at # "clearing") => ~On(stack', F)
<1> DEFINE f == [at |-> "clearing", manual |-> manual, waits |-> service]
<1>1. f \in Frame /\ f.at = "clearing" /\ stack' = <<f>> \o base
  BY DEF BeginReset, Frame
<1> HIDE DEF f
<1>2. ASSUME NEW F \in SUBSET ResetFrames, \A g \in F : g.at # "clearing" PROVE ~On(stack', F)
  BY <1>1, <1>2, PushFrame, NoResetFrames
<1> QED
  BY <1>1, <1>2

(* What the steps of a reset do to its frame. *)
Becomes(place) == \E f \in Frame : f.at = place /\ stack' = <<f>> \o Tail(stack)
LEMMA ResetFrameSteps ==
  ASSUME TypeOK, OneReset, ResetStep
  PROVE  \/ /\ DetectTaskbar \/ InjectExplorerTAP \/ InsertTaskbars
            /\ UNCHANGED <<taskbars, tracked, reentered, stack>>
         \/ (DetectTaskbar \/ FinishReset) /\ UNCHANGED <<taskbars, tracked>> /\ stack' = Tail(stack)
         \/ DetectTaskbar /\ UNCHANGED <<taskbars, tracked, reentered>>
            /\ [at |-> "injecting", manual |-> Top.manual, main |-> bars[Primary]] \in Frame
            /\ stack' = <<[at |-> "injecting", manual |-> Top.manual, main |-> bars[Primary]]>> \o Tail(stack)
         \/ InjectExplorerTAP /\ UNCHANGED <<taskbars, tracked, reentered>>
            /\ \E f \in Frame : f.at = "arming" /\ f.main = Top.main /\ stack' = <<f>> \o Tail(stack)
         \/ InsertTaskbars /\ UNCHANGED reentered /\ Becomes("coordinating")
            /\ InsertTaskbar([m \in Monitors |-> IF m = Primary /\ Top.main # bars[m] THEN NoBar ELSE bars[m]], Top.main)
         \/ (AskShell \/ RecordTaskView \/ LocateFlyout) /\ UNCHANGED <<taskbars, tracked, reentered>> /\ Becomes("asking")
         \/ LocateFlyout /\ UNCHANGED <<taskbars, tracked, reentered>> /\ Becomes("enumerating")
         \/ InsertNextWindow /\ UNCHANGED <<taskbars, reentered>>
            /\ \E f \in Frame : /\ f.at = "enumerating"
                                /\ InsertWindow(NextWindow(Top.last), FALSE, <<f>> \o Tail(stack))
         \/ ApplyOrRetry /\ reentered /\ BeginReset(Top.manual, Tail(stack))
         \/ ApplyOrRetry /\ ~reentered /\ UNCHANGED <<taskbars, tracked, reentered>>
            /\ \E f \in Frame : f.at = "applying" /\ Keeps(stack', <<f>> \o Tail(stack))
<1>1. /\ stack \in Seq(Frame) /\ Tail(stack) \in Seq(Frame) /\ Top \in Frame
      /\ Top.at \in ResetPlaces /\ Top.manual \in BOOLEAN
  BY ResetOnTop
<1>2. CASE DetectTaskbar
  <2>1. bars[Primary] \in Bars \cup {NoBar}
    BY DesktopAssumption DEF TypeOK, DesktopTypeOK
  <2>2. [at |-> "injecting", manual |-> Top.manual, main |-> bars[Primary]] \in Frame
    BY <1>1, <2>1 DEF Frame
  <2>3. UNCHANGED <<taskbars, tracked>>
    BY <1>2 DEF DetectTaskbar
  <2>4. \/ UNCHANGED <<reentered, stack>> \/ stack' = Tail(stack)
        \/ UNCHANGED reentered
           /\ stack' = <<[at |-> "injecting", manual |-> Top.manual, main |-> bars[Primary]]>> \o Tail(stack)
    BY <1>2, Zenon DEF DetectTaskbar, EndReset
  <2> QED
    BY <1>2, <2>2, <2>3, <2>4
<1>3. CASE InjectExplorerTAP
  <2>1. UNCHANGED <<taskbars, tracked, reentered>>
    BY <1>3 DEF InjectExplorerTAP
  <2>2. CASE UNCHANGED stack
    BY <1>3, <2>1, <2>2
  <2>3. CASE stack' = <<[at |-> "arming", manual |-> Top.manual, main |-> Top.main]>> \o Tail(stack)
    <3> DEFINE f == [at |-> "arming", manual |-> Top.manual, main |-> Top.main]
    <3>1. Top.main \in Bars \cup {NoBar}
      BY <1>1, <1>3, FrameFields DEF InjectExplorerTAP, At
    <3>2. f \in Frame /\ f.at = "arming" /\ f.main = Top.main
      BY <1>1, <3>1 DEF Frame
    <3> HIDE DEF f
    <3> QED
      BY <1>3, <2>1, <2>3, <3>2 DEF f
  <2> QED
    BY <1>3, <2>2, <2>3 DEF InjectExplorerTAP
<1>4. CASE InsertTaskbars
  <2> DEFINE f == [at |-> "coordinating", manual |-> Top.manual]
             found == [m \in Monitors |-> IF m = Primary /\ Top.main # bars[m] THEN NoBar ELSE bars[m]]
  <2>1. f \in Frame /\ f.at = "coordinating"
    BY <1>1 DEF Frame
  <2>2. UNCHANGED reentered /\ (UNCHANGED <<taskbars, tracked, stack>> \/ (InsertTaskbar(found, Top.main) /\ stack' = <<f>> \o Tail(stack)))
    BY <1>4, Zenon DEF InsertTaskbars
  <2> HIDE DEF f, found
  <2>3. UNCHANGED <<taskbars, tracked, reentered, stack>> \/ (UNCHANGED reentered /\ InsertTaskbar(found, Top.main) /\ Becomes("coordinating"))
    BY <2>1, <2>2 DEF Becomes
  <2> QED
    BY <1>4, <2>3, Zenon DEF found
<1>5. CASE AskShell \/ RecordTaskView \/ LocateFlyout
  <2>1. UNCHANGED <<taskbars, tracked, reentered>>
    BY <1>5 DEF AskShell, RecordTaskView, LocateFlyout
  <2>2. ASSUME NEW q \in Questions, stack' = <<Ask(Top.manual, q)>> \o Tail(stack) PROVE Becomes("asking")
    BY <1>1, <2>2, AskType DEF Becomes
  <2>3. CASE AskShell
    BY <2>1, <2>2, <2>3 DEF AskShell, Questions
  <2>4. CASE RecordTaskView
    BY <2>1, <2>2, <2>4 DEF RecordTaskView, Questions, Flyouts
  <2>5. CASE LocateFlyout /\ Top.about # "find"
    <3>1. NextQuestion[Top.about] \in Questions
      BY <2>5 DEF LocateFlyout, NextQuestion, Questions, Flyouts
    <3> QED
      BY <2>1, <2>2, <2>5, <3>1 DEF LocateFlyout
  <2>6. CASE LocateFlyout /\ Top.about = "find"
    <3> DEFINE f == [at |-> "enumerating", manual |-> Top.manual, last |-> NoWindow]
    <3>1. f \in Frame /\ f.at = "enumerating"
      BY <1>1 DEF Frame
    <3>2. stack' = <<f>> \o Tail(stack)
      BY <2>6 DEF LocateFlyout
    <3> HIDE DEF f
    <3>3. Becomes("enumerating")
      BY <3>1, <3>2 DEF Becomes
    <3> QED
      BY <2>1, <2>6, <3>3
  <2> QED
    BY <1>5, <2>3, <2>4, <2>5, <2>6
<1>6. CASE InsertNextWindow
  <2> DEFINE w == NextWindow(Top.last)
             f == [Top EXCEPT !.last = w]
  <2>1. w \in Windows /\ InsertWindow(w, FALSE, <<f>> \o Tail(stack)) /\ UNCHANGED <<taskbars, reentered>>
    BY <1>6, NextWindowType DEF InsertNextWindow, TypeOK
  <2>2. f \in Frame /\ f.at = "enumerating"
    BY <1>1, <1>6, <2>1 DEF InsertNextWindow, At, Frame, ResetPlaces
  <2> HIDE DEF f
  <2> QED
    BY <1>6, <2>1, <2>2
<1>7. CASE ApplyOrRetry
  <2>1. CASE reentered
    BY <1>7, <2>1 DEF ApplyOrRetry
  <2>2. CASE ~reentered
    <3> DEFINE f == [at |-> "applying", manual |-> Top.manual]
    <3>1. f \in Frame /\ f.at = "applying"
      BY <1>1 DEF Frame
    <3>2. stack' = Refreshing(Known) \o (<<f>> \o Tail(stack)) /\ UNCHANGED <<taskbars, tracked, reentered>>
      BY <1>7, <2>2 DEF ApplyOrRetry, RefreshAllAttributes
    <3> HIDE DEF f
    <3>3. Keeps(stack', <<f>> \o Tail(stack))
      BY <1>1, <3>1, <3>2, PushType, PushedRefreshing DEF Known
    <3> QED
      BY <1>7, <2>2, <3>1, <3>2, <3>3
  <2> QED
    BY <2>1, <2>2
<1>8. CASE FinishReset
  BY <1>8 DEF FinishReset, EndReset
<1> QED
  BY <1>2, <1>3, <1>4, <1>5, <1>6, <1>7, <1>8 DEF ResetStep

-----------------------------------------------------------------------------
(* The taskbars a reset has found.  Until it applies its effects they are  *)
(* the ones there are, or it will start over: because it was re-entered,   *)
(* because WM_DISPLAYCHANGE or TaskbarCreated is queued, or because a      *)
(* taskbar it has found is reported as destroyed.  The main taskbar it     *)
(* found first is in the way of no notification until all are inserted: it *)
(* is the one there is, or there is none, or the reset will start over.    *)
Dated == {f \in ResetFrames : f.at \in {"injecting", "arming"} /\ f.main # bars[Primary]}
Filled == {f \in ResetFrames : f.at \in {"coordinating", "asking", "enumerating"}}
WillRestart == reentered \/ On(sent, {[kind |-> "displayChange"]})
LossIsQueued == On(events, {[kind |-> "barDestroyed", bar |-> taskbars[m]] : m \in Monitors})
MainIsCurrent == On(stack, Dated) => bars[Primary] = NoBar \/ WillRestart
MainIsLost == On(stack, Filled) /\ OnNoMonitor # {} => bars[Primary] = NoBar \/ WillRestart
BarsAreFound == On(stack, Filled) => taskbars = bars \/ WillRestart \/ LossIsQueued
BarsInv == MainIsCurrent /\ MainIsLost /\ BarsAreFound

LEMMA PlacesOfReset ==
  /\ Dated \in SUBSET ResetFrames /\ Filled \in SUBSET ResetFrames
  /\ Dated \in SUBSET Waits /\ Filled \in SUBSET Waits
  /\ \A f \in Frame :
       /\ f \in Dated <=> f.at \in {"injecting", "arming"} /\ f.main # bars[Primary]
       /\ f \in Filled <=> f.at \in {"coordinating", "asking", "enumerating"}
BY DEF Dated, Filled, ResetFrames, ResetPlaces, Waits

(* What InsertTaskbars leaves on no monitor gets no company: a taskbar is  *)
(* in m_NormalTaskbars because it was there, or is that of a monitor.      *)
LEMMA OrphansStay ==
  ASSUME TypeOK, (Resume /\ ~InsertTaskbars) \/ Handle \/ Call \/ TimePasses \/ Environment \/ UNCHANGED vars
  PROVE  OnNoMonitor' \subseteq OnNoMonitor
<1>1. CASE UNCHANGED <<taskbars, normalTaskbars>>
  BY <1>1 DEF OnNoMonitor
<1>2. ASSUME NEW manual, NEW base, BeginReset(manual, base) PROVE OnNoMonitor' = {}
  BY <1>2 DEF OnNoMonitor, BeginReset
<1>3. ASSUME NEW manual, ResetState(manual) PROVE OnNoMonitor' \subseteq OnNoMonitor
  BY <1>1, <1>2, <1>3 DEF ResetState
<1>4. ASSUME NEW m \in Monitors, NEW look, SetAttribute(m, look), UNCHANGED taskbars
      PROVE  OnNoMonitor' \subseteq OnNoMonitor
  <2>1. normalTaskbars' \subseteq normalTaskbars \cup {taskbars[m]}
    BY <1>4 DEF SetAttribute
  <2> QED
    BY <1>4, <2>1 DEF OnNoMonitor
<1>5. CASE RefreshNext
  <2>1. Top.todo \subseteq Monitors
    BY <1>5, TopType, FrameFields DEF RefreshNext, At, TypeOK, WorkerTypeOK
  <2>2. UNCHANGED taskbars /\ (UNCHANGED normalTaskbars \/ \E m \in Top.todo : SetAttribute(m, GetConfig(m)))
    BY <1>5 DEF RefreshNext, RefreshAttribute
  <2> QED
    BY <1>1, <1>4, <2>1, <2>2
<1>6. CASE ApplyOrRetry
  BY <1>1, <1>2, <1>6 DEF ApplyOrRetry, members
<1>7. CASE \/ RefreshLine \/ RefreshDone \/ InsertWindowDone \/ DetectTaskbar \/ InjectExplorerTAP
           \/ AskShell \/ RecordTaskView \/ LocateFlyout \/ InsertNextWindow \/ FinishReset
  BY <1>1, <1>7 DEF RefreshLine, RefreshDone, InsertWindowDone, DetectTaskbar, InjectExplorerTAP, AskShell,
     RecordTaskView, LocateFlyout, InsertNextWindow, FinishReset, members
<1>8. CASE OnTaskbarCreateDestroy \/ OnDisplayChange \/ OnSystemSettingsChange \/ ManualReset
  BY <1>1, <1>3, <1>8 DEF OnTaskbarCreateDestroy, OnDisplayChange, OnSystemSettingsChange, ManualReset, members
<1>9. CASE OnRequestAttributeRefresh
  <2>1. UNCHANGED taskbars /\ (UNCHANGED normalTaskbars \/ \E m \in Known : SetAttribute(m, GetConfig(m)))
    BY <1>9 DEF OnRequestAttributeRefresh
  <2> QED
    BY <1>1, <1>4, <2>1 DEF Known
<1>10. CASE \/ OnWindowStateChange \/ WindowRemove \/ OnAeroPeekEnterExit \/ OnForegroundWindowChange
            \/ OnWindowOrderChange \/ OnSettingChangeSent \/ OnPowerBroadcast \/ OnApplyColorPreview
            \/ OnTaskViewVisibilityChange \/ OnFlyoutVisibilityChange
            \/ (\E c \in Configs : ConfigurationChanged(c)) \/ (\E mode \in PickedModes : RemoveColorPreview(mode))
            \/ TimePasses \/ Environment \/ UNCHANGED vars
  BY <1>1, <1>10 DEF OnWindowStateChange, WindowRemove, OnAeroPeekEnterExit, OnForegroundWindowChange,
     OnWindowOrderChange, OnSettingChangeSent, OnPowerBroadcast, OnApplyColorPreview, OnTaskViewVisibilityChange,
     OnFlyoutVisibilityChange, NoReset, ConfigurationChanged, RemoveColorPreview, TimePasses, Environment, vars, members
<1> QED
  BY <1>5, <1>6, <1>7, <1>8, <1>9, <1>10 DEF Resume, Handle, Call

LEMMA ResetStepBars ==
  ASSUME TypeOK, OneReset, BarsInv, ResetStep
  PROVE  BarsInv'
<1>1. /\ stack \in Seq(Frame) /\ stack # <<>> /\ Tail(stack) \in Seq(Frame) /\ ~Has(Tail(stack))
      /\ Top \in Frame /\ Top.at \in ResetPlaces /\ Top.manual \in BOOLEAN
  BY ResetOnTop
<1>2. UNCHANGED desktopVars
  BY DEF ResetStep, DetectTaskbar, InjectExplorerTAP, InsertTaskbars, AskShell, RecordTaskView, LocateFlyout,
     InsertNextWindow, ApplyOrRetry, FinishReset
<1>3. UNCHANGED <<bars, sent, events>> /\ Dated' = Dated
  BY <1>2 DEF desktopVars, Dated
<1>4. ~On(Tail(stack), Dated) /\ ~On(Tail(stack), Filled)
  BY <1>1, NoResetFrames, PlacesOfReset
<1>5. /\ On(stack, Dated) <=> Top \in Dated
      /\ On(stack, Filled) <=> Top \in Filled
  BY <1>1, <1>4, PopFrame
<1>6. ASSUME NEW f \in Frame, stack' = <<f>> \o Tail(stack)
      PROVE  (On(stack', Dated) <=> f \in Dated) /\ (On(stack', Filled) <=> f \in Filled)
  BY <1>1, <1>4, <1>6, PushFrame
<1>7. CASE ~On(stack', Dated) /\ ~On(stack', Filled)
  BY <1>3, <1>7 DEF BarsInv, MainIsCurrent, MainIsLost, BarsAreFound
<1>8. ASSUME ~InsertTaskbars, UNCHANGED <<taskbars, reentered>>,
             On(stack', Dated) => On(stack, Dated), On(stack', Filled) => On(stack, Filled)
      PROVE  BarsInv'
  <2>1. OnNoMonitor' \subseteq OnNoMonitor
    BY <1>8, OrphansStay DEF Resume, ResetStep
  <2> QED
    BY <1>3, <1>8, <2>1 DEF BarsInv, MainIsCurrent, MainIsLost, BarsAreFound, WillRestart, LossIsQueued
<1>9. CASE UNCHANGED <<taskbars, reentered, stack>>
  <2>1. CASE InsertTaskbars
    <3>1. Top \notin Filled
      BY <1>1, <2>1, PlacesOfReset DEF InsertTaskbars, At
    <3> QED
      BY <1>3, <1>5, <1>9, <3>1 DEF BarsInv, MainIsCurrent, MainIsLost, BarsAreFound, WillRestart
  <2>2. CASE ~InsertTaskbars
    BY <1>8, <1>9, <2>2
  <2> QED
    BY <2>1, <2>2
<1>10. CASE stack' = Tail(stack)
  BY <1>4, <1>7, <1>10
<1>11. CASE /\ [at |-> "injecting", manual |-> Top.manual, main |-> bars[Primary]] \in Frame
            /\ stack' = <<[at |-> "injecting", manual |-> Top.manual, main |-> bars[Primary]]>> \o Tail(stack)
  <2> DEFINE f == [at |-> "injecting", manual |-> Top.manual, main |-> bars[Primary]]
  <2>1. f \in Frame /\ f.at = "injecting" /\ f.main = bars[Primary] /\ stack' = <<f>> \o Tail(stack)
    BY <1>11
  <2> HIDE DEF f
  <2>2. f \notin Dated /\ f \notin Filled
    BY <2>1, PlacesOfReset
  <2> QED
    BY <1>6, <1>7, <2>1, <2>2
<1>12. ASSUME InjectExplorerTAP, UNCHANGED <<taskbars, reentered>>,
              NEW f \in Frame, f.at = "arming", f.main = Top.main, stack' = <<f>> \o Tail(stack)
       PROVE  BarsInv'
  <2>1. Top.at = "injecting" /\ ~InsertTaskbars
    BY <1>12 DEF InjectExplorerTAP, InsertTaskbars, At
  <2>2. f \notin Filled /\ (f \in Dated => Top \in Dated)
    BY <1>1, <1>12, <2>1, PlacesOfReset
  <2> QED
    BY <1>5, <1>6, <1>8, <1>12, <2>1, <2>2
<1>13. ASSUME InsertTaskbars, Becomes("coordinating"), UNCHANGED reentered,
              InsertTaskbar([m \in Monitors |-> IF m = Primary /\ Top.main # bars[m] THEN NoBar ELSE bars[m]], Top.main)
       PROVE  BarsInv'
  <2>1. ~On(stack', Dated)
    BY <1>6, <1>13, PlacesOfReset DEF Becomes
  <2>2. /\ taskbars' = [m \in Monitors |-> IF m = Primary /\ Top.main # bars[m] THEN NoBar ELSE bars[m]]
        /\ normalTaskbars' = {b \in Bars : b = Top.main \/ \E m \in Monitors : taskbars'[m] = b}
    BY <1>13 DEF InsertTaskbar
  <2>3. bars \in [Monitors -> Bars \cup {NoBar}] /\ Primary \in Monitors
    BY DesktopAssumption DEF TypeOK, DesktopTypeOK
  <2>4. CASE Top.main = bars[Primary]
    <3>1. taskbars' = bars
      BY <2>2, <2>3, <2>4
    <3>2. OnNoMonitor' = {}
      BY <2>2, <2>3, <2>4, <3>1 DEF OnNoMonitor
    <3> QED
      BY <1>3, <2>1, <3>1, <3>2 DEF BarsInv, MainIsCurrent, MainIsLost, BarsAreFound
  <2>5. CASE Top.main # bars[Primary] /\ bars[Primary] = NoBar
    <3>1. taskbars' = bars
      BY <2>2, <2>3, <2>5
    <3> QED
      BY <1>3, <2>1, <2>5, <3>1 DEF BarsInv, MainIsCurrent, MainIsLost, BarsAreFound
  <2>6. CASE Top.main # bars[Primary] /\ bars[Primary] # NoBar
    <3>1. Top \in Dated
      BY <1>1, <1>13, <2>6, PlacesOfReset DEF InsertTaskbars, At
    <3>2. WillRestart
      BY <1>5, <2>6, <3>1 DEF BarsInv, MainIsCurrent
    <3>3. WillRestart'
      BY <1>3, <1>13, <3>2 DEF WillRestart
    <3> QED
      BY <3>3 DEF BarsInv, MainIsCurrent, MainIsLost, BarsAreFound
  <2> QED
    BY <2>4, <2>5, <2>6
<1>14. ASSUME UNCHANGED <<taskbars, reentered>>, Top.at \in {"coordinating", "asking", "enumerating"}, ~On(stack', Dated)
       PROVE  BarsInv'
  <2>1. On(stack, Filled)
    BY <1>1, <1>5, <1>14, PlacesOfReset
  <2>2. ~InsertTaskbars
    BY <1>14 DEF InsertTaskbars, At
  <2> QED
    BY <1>8, <1>14, <2>1, <2>2
<1>15. CASE /\ AskShell \/ RecordTaskView \/ LocateFlyout
            /\ UNCHANGED <<taskbars, reentered>> /\ (Becomes("asking") \/ Becomes("enumerating"))
  <2>1. ~On(stack', Dated)
    BY <1>6, <1>15, PlacesOfReset DEF Becomes
  <2>2. Top.at \in {"coordinating", "asking", "enumerating"}
    BY <1>15 DEF AskShell, RecordTaskView, LocateFlyout, At
  <2> QED
    BY <1>14, <1>15, <2>1, <2>2
<1>16. CASE /\ InsertNextWindow /\ UNCHANGED <<taskbars, reentered>>
            /\ \E f \in Frame : f.at = "enumerating" /\ InsertWindow(NextWindow(Top.last), FALSE, <<f>> \o Tail(stack))
  <2>1. PICK f \in Frame : f.at = "enumerating" /\ InsertWindow(NextWindow(Top.last), FALSE, <<f>> \o Tail(stack))
    BY <1>16
  <2>2. <<f>> \o Tail(stack) \in Seq(Frame) /\ ~On(<<f>> \o Tail(stack), Dated)
    BY <1>1, <1>4, <2>1, PushType, PushFrame, PlacesOfReset
  <2>3. NextWindow(Top.last) \in Windows
    BY <1>16, NextWindowType DEF InsertNextWindow, TypeOK
  <2>4. ~On(stack', Dated)
    <3>1. CASE Keeps(stack', <<f>> \o Tail(stack))
      BY <2>1, <2>2, <3>1, PlacesOfReset DEF Keeps
    <3>2. ASSUME NEW g \in Inserting(NextWindow(Top.last)), stack' = <<g>> \o (<<f>> \o Tail(stack)) PROVE ~On(stack', Dated)
      <4>1. g \in Frame /\ g \notin Dated
        BY DEF Inserting, Dated
      <4> QED
        BY <2>2, <3>2, <4>1, PushFrame
    <3> QED
      BY <2>1, <2>2, <2>3, <3>1, <3>2, InsertFrames
  <2>5. Top.at = "enumerating"
    BY <1>16 DEF InsertNextWindow, At
  <2> QED
    BY <1>14, <1>16, <2>4, <2>5
<1>17. CASE BeginReset(Top.manual, Tail(stack))
  <2>1. ~On(stack', Dated) /\ ~On(stack', Filled)
    BY <1>1, <1>17, BeginFrames, PlacesOfReset DEF Dated, Filled, TypeOK, WorkerTypeOK
  <2> QED
    BY <1>7, <2>1
<1>18. CASE \E f \in Frame : f.at = "applying" /\ Keeps(stack', <<f>> \o Tail(stack))
  <2>1. PICK f \in Frame : f.at = "applying" /\ Keeps(stack', <<f>> \o Tail(stack))
    BY <1>18
  <2>2. ~On(<<f>> \o Tail(stack), Dated) /\ ~On(<<f>> \o Tail(stack), Filled)
    BY <1>1, <1>4, <2>1, PushFrame, PlacesOfReset
  <2>3. ~On(stack', Dated) /\ ~On(stack', Filled)
    BY <2>1, <2>2, PlacesOfReset DEF Keeps
  <2> QED
    BY <1>7, <2>3
<1> QED
  BY <1>9, <1>10, <1>11, <1>12, <1>13, <1>15, <1>16, <1>17, <1>18, ResetFrameSteps

(* Whoever takes such a message off its queue resets, or notes it. *)
Resets == Notes \/ (~resetting /\ \E manual \in BOOLEAN : BeginReset(manual, stack))
LEMMA HandlersTell ==
  ASSUME TypeOK, Handle \/ Call
  PROVE  /\ UNCHANGED world
         /\ Resets \/ (UNCHANGED <<taskbars, reentered>> => (WillRestart => WillRestart') /\ (LossIsQueued => LossIsQueued'))
<1> DEFINE DisplayChanges == {[kind |-> "displayChange"]}
           Losses == {[kind |-> "barDestroyed", bar |-> taskbars[m]] : m \in Monitors}
<1>1. sent \in Seq(SentMessage) /\ events \in Seq(WinEvent)
  BY DEF TypeOK, DesktopTypeOK
<1>2. ASSUME UNCHANGED sent \/ (sent # <<>> /\ Head(sent).kind # "displayChange" /\ sent' = Tail(sent)),
             UNCHANGED events \/ (events # <<>> /\ Head(events) \notin Losses /\ events' = Tail(events))
      PROVE  (UNCHANGED <<taskbars, reentered>> => (WillRestart => WillRestart') /\ (LossIsQueued => LossIsQueued'))
  <2>1. On(sent, DisplayChanges) => On(sent', DisplayChanges)
    <3>1. CASE UNCHANGED sent
      BY <3>1
    <3>2. CASE sent # <<>> /\ Head(sent).kind # "displayChange" /\ sent' = Tail(sent)
      <4>1. Head(sent) \notin DisplayChanges
        BY <3>2
      <4> HIDE DEF DisplayChanges
      <4> QED
        BY <1>1, <3>2, <4>1, OnHead
    <3> QED
      BY <1>2, <3>1, <3>2
  <2>2. On(events, Losses) => On(events', Losses)
    <3> HIDE DEF Losses
    <3> QED
      BY <1>1, <1>2, OnHead
  <2>3. ASSUME UNCHANGED reentered PROVE WillRestart => WillRestart'
    BY <2>1, <2>3 DEF WillRestart
  <2>4. ASSUME UNCHANGED taskbars, LossIsQueued PROVE LossIsQueued'
    <3>1. On(events', Losses)
      BY <2>2, <2>4 DEF LossIsQueued
    <3>2. Losses = {[kind |-> "barDestroyed", bar |-> taskbars'[m]] : m \in Monitors}
      BY <2>4
    <3> HIDE DEF Losses
    <3> QED
      BY <3>1, <3>2 DEF LossIsQueued
  <2> QED
    BY <2>3, <2>4
<1>3. \A e : e.kind # "barDestroyed" => e \notin Losses
  OBVIOUS
<1> HIDE DEF Losses
<1>4. CASE \/ OnWindowStateChange \/ WindowRemove \/ OnAeroPeekEnterExit \/ OnForegroundWindowChange \/ OnWindowOrderChange
  <2>1. PICK kinds \in SUBSET {"changed", "hidden", "destroyed", "peek", "foreground", "reorder"} : NextEvent(kinds)
    BY <1>4 DEF OnWindowStateChange, WindowRemove, OnAeroPeekEnterExit, OnForegroundWindowChange, OnWindowOrderChange
  <2>2. UNCHANGED <<world, sent>> /\ events # <<>> /\ events' = Tail(events) /\ Head(events).kind # "barDestroyed"
    BY <2>1 DEF NextEvent
  <2> QED
    BY <1>2, <1>3, <2>2
<1>5. CASE OnSettingChangeSent \/ OnPowerBroadcast \/ OnRequestAttributeRefresh \/ OnApplyColorPreview
  <2>1. PICK kinds \in SUBSET {"settingChange", "power", "requestRefresh", "preview"} : NextSent(kinds)
    BY <1>5 DEF OnSettingChangeSent, OnPowerBroadcast, OnRequestAttributeRefresh, OnApplyColorPreview
  <2>2. UNCHANGED <<world, events>> /\ sent # <<>> /\ sent' = Tail(sent) /\ Head(sent).kind # "displayChange"
    BY <2>1 DEF NextSent
  <2> QED
    BY <1>2, <2>2
<1>6. CASE OnTaskViewVisibilityChange \/ OnFlyoutVisibilityChange \/ OnSystemSettingsChange
  <2>1. UNCHANGED <<world, sent, events>>
    BY <1>6 DEF OnTaskViewVisibilityChange, OnFlyoutVisibilityChange, OnSystemSettingsChange, NextPosted
  <2> QED
    BY <1>2, <2>1
<1>7. CASE OnDisplayChange
  <2>1. UNCHANGED world
    BY <1>7 DEF OnDisplayChange, NextSent
  <2> QED
    BY <1>7, <2>1, ResetStateCases DEF OnDisplayChange, Resets
<1>8. CASE OnTaskbarCreateDestroy
  <2>1. UNCHANGED <<world, sent>> /\ events # <<>> /\ events' = Tail(events)
    BY <1>8 DEF OnTaskbarCreateDestroy, NextEvent
  <2>2. CASE ResetState(FALSE)
    BY <2>1, <2>2, ResetStateCases DEF Resets
  <2>3. CASE Head(events).kind = "barDestroyed" => ~(\E m \in Monitors : taskbars[m] = Head(events).bar)
    <3>1. Head(events) \notin Losses
      BY <2>3 DEF Losses
    <3> QED
      BY <1>2, <2>1, <3>1
  <2>4. ResetState(FALSE) \/ (Head(events).kind = "barDestroyed" => ~(\E m \in Monitors : taskbars[m] = Head(events).bar))
    BY <1>8, Zenon DEF OnTaskbarCreateDestroy
  <2> QED
    BY <2>2, <2>3, <2>4
<1>9. CASE Call
  <2>1. UNCHANGED <<world, sent, events>>
    BY <1>9 DEF Call, ConfigurationChanged, RemoveColorPreview, ManualReset, queues
  <2> QED
    BY <1>2, <2>1
<1> QED
  BY <1>4, <1>5, <1>6, <1>7, <1>8, <1>9 DEF Handle

LEMMA HandlerBars ==
  ASSUME TypeOK, OneReset, BarsInv, Handle \/ Call
  PROVE  BarsInv'
<1>1. stack \in Seq(Frame) /\ service \in BOOLEAN /\ resetting \in BOOLEAN
  BY DEF TypeOK, WorkerTypeOK
<1>2. UNCHANGED bars /\ Dated' = Dated
  BY HandlersTell DEF world, Dated
<1>3. CASE Notes
  BY <1>2, <1>3 DEF Notes, BarsInv, MainIsCurrent, MainIsLost, BarsAreFound, WillRestart
<1>4. ASSUME ~resetting, NEW manual \in BOOLEAN, BeginReset(manual, stack)
      PROVE  BarsInv'
  <2>1. ~Has(stack)
    BY <1>4, OneResetParts DEF ResetFlags
  <2>2. ~On(stack', Dated) /\ ~On(stack', Filled)
    BY <1>1, <1>4, <2>1, BeginFrames, PlacesOfReset DEF Dated, Filled
  <2> QED
    BY <1>2, <2>2 DEF BarsInv, MainIsCurrent, MainIsLost, BarsAreFound
<1>5. ASSUME ~Resets, UNCHANGED <<taskbars, reentered>>,
             On(stack', Dated) => On(stack, Dated), On(stack', Filled) => On(stack, Filled)
      PROVE  BarsInv'
  <2>1. (WillRestart => WillRestart') /\ (LossIsQueued => LossIsQueued')
    BY <1>5, HandlersTell
  <2>2. OnNoMonitor' \subseteq OnNoMonitor
    BY OrphansStay
  <2> QED
    BY <1>2, <1>5, <2>1, <2>2 DEF BarsInv, MainIsCurrent, MainIsLost, BarsAreFound
<1>6. CASE ~Resets /\ UNCHANGED <<taskbars, reentered>> /\ Keeps(stack', stack)
  BY <1>5, <1>6, PlacesOfReset DEF Keeps
<1>7. CASE ~Resets /\ UNCHANGED <<taskbars, reentered>> /\ OnWindowStateChange
  <2>1. Head(events).win \in Windows
    BY <1>7, NextEventType, EventFields DEF OnWindowStateChange, NextEvent, TypeOK
  <2>2. CASE UNCHANGED stack
    BY <1>5, <1>7, <2>2
  <2>3. CASE InsertWindow(Head(events).win, TRUE, stack)
    <3>1. CASE Keeps(stack', stack)
      BY <1>6, <1>7, <3>1
    <3>2. ASSUME NEW f \in Inserting(Head(events).win), stack' = <<f>> \o stack PROVE BarsInv'
      <4>1. f \in Frame /\ f \notin Dated /\ f \notin Filled
        BY DEF Inserting, Dated, Filled
      <4>2. (On(stack', Dated) => On(stack, Dated)) /\ (On(stack', Filled) => On(stack, Filled))
        BY <1>1, <3>2, <4>1, PushFrame
      <4> QED
        BY <1>5, <1>7, <4>2
    <3> QED
      BY <1>1, <2>1, <2>3, <3>1, <3>2, InsertFrames
  <2> QED
    BY <1>7, <2>2, <2>3 DEF OnWindowStateChange
<1> QED
  BY <1>3, <1>4, <1>6, <1>7, HandlerCases DEF Resets

LEMMA TwoElements ==
  ASSUME NEW S, NEW d \in S, NEW e \in S
  PROVE  <<d>> \o <<e>> = <<d, e>>
<1>1. <<d>> \in Seq(S) /\ <<e>> \in Seq(S) /\ <<d, e>> \in Seq(S) /\ Len(<<d>>) = 1 /\ Len(<<e>>) = 1 /\ Len(<<d, e>>) = 2
  OBVIOUS
<1> DEFINE u == <<d>> \o <<e>>
<1>2. u \in Seq(S) /\ Len(u) = 2 /\ \A i \in 1 .. 2 : u[i] = IF i <= 1 THEN <<d>>[i] ELSE <<e>>[i - 1]
  BY <1>1, ConcatProperties
<1> HIDE DEF u
<1>3. u[1] = d /\ u[2] = e
  BY <1>2
<1>4. \A i \in 1 .. Len(u) : u[i] = <<d, e>>[i]
  <2> SUFFICES ASSUME NEW i \in 1 .. 2 PROVE u[i] = <<d, e>>[i]
    BY <1>2
  <2>1. i = 1 \/ i = 2
    OBVIOUS
  <2> QED
    BY <1>3, <2>1
<1>5. u = <<d, e>>
  BY <1>1, <1>2, <1>4, SeqEqual
<1> QED
  BY <1>5 DEF u

(* What the desktop queues is queued behind what is there. *)
WentAway(w, event) ==
  IF front = w THEN <<event, [kind |-> "foreground", win |-> NoWindow]>> ELSE <<event>>
LEMMA GoAwayQueues ==
  ASSUME NEW w \in Windows, NEW event \in WinEvent, GoAway(w, event)
  PROVE  /\ UNCHANGED <<sent, posted>> /\ events' = events \o WentAway(w, event)
         /\ WentAway(w, event) \in Seq(WinEvent)
         /\ front' = IF front = w THEN NoWindow ELSE front
<1>1. [kind |-> "foreground", win |-> NoWindow] \in WinEvent
  BY DEF WinEvent
<1> DEFINE away == [kind |-> "foreground", win |-> NoWindow]
<1> HIDE DEF away
<1>2. <<event>> \o <<>> = <<event>> /\ (away \in WinEvent => <<event>> \o <<away>> = <<event, away>>)
  <2>1. <<event>> \in Seq(WinEvent)
    OBVIOUS
  <2> QED
    BY <2>1, TwoElements, ConcatEmptySeq
<1>3. <<event>> \in Seq(WinEvent) /\ (away \in WinEvent => <<event, away>> \in Seq(WinEvent))
  OBVIOUS
<1>4. UNCHANGED <<sent, posted>> /\ events' = events \o (<<event>> \o IF front = w THEN <<away>> ELSE <<>>)
  BY DEF GoAway, RaiseEvents, Queue, away
<1>5. front' = IF front = w THEN NoWindow ELSE front
  BY DEF GoAway
<1>6. CASE front = w
  BY <1>1, <1>2, <1>3, <1>4, <1>5, <1>6 DEF WentAway, away
<1>7. CASE front # w
  BY <1>2, <1>3, <1>4, <1>5, <1>7 DEF WentAway
<1> QED
  BY <1>6, <1>7

LEMMA MessageTypes ==
  /\ \A k \in {"changed", "hidden", "destroyed", "reorder"}, w \in Windows : [kind |-> k, win |-> w] \in WinEvent
  /\ \A w \in Windows \cup {Flyout, NoWindow} : [kind |-> "foreground", win |-> w] \in WinEvent
  /\ \A k \in {"barCreated", "barDestroyed"}, b \in Bars : [kind |-> k, bar |-> b] \in WinEvent
  /\ \A on \in BOOLEAN : [kind |-> "peek", on |-> on] \in WinEvent /\ [kind |-> "power", on |-> on] \in SentMessage
                         /\ [kind |-> "taskView", on |-> on] \in PostedMessage
  /\ \A k \in {"displayChange", "settingChange"} : [kind |-> k] \in SentMessage
  /\ \A b \in Bars : [kind |-> "requestRefresh", bar |-> b] \in SentMessage
  /\ \A mode \in Modes : [kind |-> "preview", mode |-> mode] \in SentMessage
  /\ \A f \in Flyouts, on \in BOOLEAN : [kind |-> "flyout", flyout |-> f, on |-> on] \in PostedMessage
BY DEF WinEvent, SentMessage, PostedMessage

(* A change of the windows: what it queues is about the window. *)
OfWindow(w) ==
  \/ \E m \in Monitors, size \in {"max", "normal"} : PlaceWindow(w, m, size)
  \/ MinimiseWindow(w) \/ ShowWindow(w) \/ HideWindow(w)
  \/ \E m \in Monitors : CreateWindow(w, m)
  \/ DestroyWindow(w)
  \/ ActivateWindow(w)
Told(w) ==
  {<<[kind |-> "changed", win |-> w]>>,
   WentAway(w, [kind |-> "hidden", win |-> w]), WentAway(w, [kind |-> "destroyed", win |-> w]),
   <<[kind |-> "foreground", win |-> w], [kind |-> "reorder", win |-> w]>>}
LEMMA WindowQueues ==
  ASSUME NEW w \in Windows, OfWindow(w)
  PROVE  /\ UNCHANGED <<sent, posted, bars, open, taskView, flyoutMon, saver, explorer>>
         /\ \E told \in Told(w) : told \in Seq(WinEvent) /\ events' = events \o told
<1>1. \A k \in {"changed", "hidden", "destroyed", "reorder", "foreground"} : [kind |-> k, win |-> w] \in WinEvent
  BY MessageTypes
<1>2. CASE MinimiseWindow(w) \/ HideWindow(w) \/ DestroyWindow(w)
  <2>1. PICK k \in {"hidden", "destroyed"} : GoAway(w, [kind |-> k, win |-> w])
    BY <1>2 DEF MinimiseWindow, HideWindow, DestroyWindow
  <2>2. /\ UNCHANGED <<sent, posted>> /\ events' = events \o WentAway(w, [kind |-> k, win |-> w])
        /\ WentAway(w, [kind |-> k, win |-> w]) \in Seq(WinEvent)
    BY <1>1, <2>1, GoAwayQueues
  <2>3. UNCHANGED <<bars, open, taskView, flyoutMon, saver, explorer>>
    BY <1>2 DEF MinimiseWindow, HideWindow, DestroyWindow
  <2> QED
    BY <2>2, <2>3 DEF Told
<1>3. CASE (\E m \in Monitors, size \in {"max", "normal"} : PlaceWindow(w, m, size))
           \/ ShowWindow(w) \/ (\E m \in Monitors : CreateWindow(w, m))
  <2> DEFINE e == [kind |-> "changed", win |-> w]
  <2>1. UNCHANGED <<sent, posted, bars, open, taskView, flyoutMon, saver, explorer>> /\ events' = events \o <<e>>
    BY <1>3 DEF PlaceWindow, ShowWindow, CreateWindow, RaiseEvents, Queue
  <2>2. e \in WinEvent
    BY <1>1
  <2>3. <<e>> \in Told(w)
    BY DEF Told
  <2> HIDE DEF e
  <2>4. <<e>> \in Seq(WinEvent)
    BY <2>2
  <2> QED
    BY <2>1, <2>3, <2>4
<1>4. CASE ActivateWindow(w)
  <2> DEFINE d == [kind |-> "foreground", win |-> w]
             e == [kind |-> "reorder", win |-> w]
  <2>1. UNCHANGED <<sent, posted, bars, open, taskView, flyoutMon, saver, explorer>> /\ events' = events \o <<d, e>>
    BY <1>4 DEF ActivateWindow, RaiseEvents, Queue
  <2>2. d \in WinEvent /\ e \in WinEvent /\ <<d, e>> \in Told(w)
    BY <1>1 DEF Told
  <2> HIDE DEF d, e
  <2>3. <<d, e>> \in Seq(WinEvent)
    BY <2>2
  <2> QED
    BY <2>1, <2>2, <2>3
<1> QED
  BY <1>2, <1>3, <1>4 DEF OfWindow

(* What is queued stays queued, whatever the desktop does. *)
Grows(q, r) == \A F : On(q, F) => On(r, F)
LEMMA GrowsBy ==
  ASSUME NEW S, NEW q \in Seq(S), NEW e \in S
  PROVE  Grows(q, q \o <<e>>) /\ \A F : e \in F => On(q \o <<e>>, F)
<1>1. <<e>> \in Seq(S)
  OBVIOUS
<1> QED
  BY <1>1, OnConcat, OnFew DEF Grows

LEMMA QueuesGrow ==
  ASSUME TypeOK, Environment
  PROVE  Grows(sent, sent') /\ Grows(events, events') /\ Grows(posted, posted')
<1> USE DEF Queue
<1>1. sent \in Seq(SentMessage) /\ events \in Seq(WinEvent) /\ posted \in Seq(PostedMessage)
      /\ bars \in [Monitors -> Bars \cup {NoBar}]
  BY DEF TypeOK, DesktopTypeOK
<1>2. Grows(sent, sent) /\ Grows(events, events) /\ Grows(posted, posted)
  BY DEF Grows
<1>3. ASSUME NEW w \in Windows, OfWindow(w) PROVE Grows(sent, sent') /\ Grows(events, events') /\ Grows(posted, posted')
  <2>1. UNCHANGED <<sent, posted>> /\ \E told \in Told(w) : told \in Seq(WinEvent) /\ events' = events \o told
    BY <1>3, WindowQueues
  <2>2. Grows(events, events')
    BY <1>1, <2>1, OnConcat DEF Grows
  <2> QED
    BY <1>2, <2>1, <2>2
<1>4. ASSUME NEW message \in SentMessage, Send(message)
      PROVE  Grows(sent, sent') /\ Grows(events, events') /\ Grows(posted, posted')
  BY <1>1, <1>2, <1>4, GrowsBy DEF Send
<1>5. CASE ToggleBatterySaver \/ ChangeWorkArea \/ (\E mode \in PickedModes : PreviewFromOutside(mode))
           \/ (\E b \in Bars : RepaintTaskbar(b)) \/ ExplorerReady
  <2>1. \E message \in SentMessage : Send(message)
    <3>1. CASE ToggleBatterySaver
      <4>1. saver' \in BOOLEAN
        BY <3>1 DEF ToggleBatterySaver, TypeOK, DesktopTypeOK
      <4> QED
        BY <3>1, <4>1, MessageTypes DEF ToggleBatterySaver
    <3>2. CASE ChangeWorkArea \/ ExplorerReady
      BY <3>2, MessageTypes DEF ChangeWorkArea, ExplorerReady
    <3>3. CASE \E mode \in PickedModes : PreviewFromOutside(mode)
      BY <3>3, MessageTypes, DesktopAssumption DEF PreviewFromOutside
    <3>4. CASE \E b \in Bars : RepaintTaskbar(b)
      BY <3>4, MessageTypes DEF RepaintTaskbar
    <3> QED
      BY <1>5, <3>1, <3>2, <3>3, <3>4
  <2> QED
    BY <1>4, <2>1
<1>6. ASSUME NEW f \in Flyouts, NEW on \in BOOLEAN, NEW w \in Windows \cup {Flyout, NoWindow},
             posted' = posted \o <<[kind |-> "flyout", flyout |-> f, on |-> on]>>, UNCHANGED sent,
             UNCHANGED events \/ events' = events \o <<[kind |-> "foreground", win |-> w]>>
      PROVE  Grows(sent, sent') /\ Grows(events, events') /\ Grows(posted, posted')
  <2>1. Grows(posted, posted')
    BY <1>1, <1>6, GrowsBy, MessageTypes
  <2>2. Grows(events, events \o <<[kind |-> "foreground", win |-> w]>>)
    BY <1>1, GrowsBy, MessageTypes
  <2> QED
    BY <1>2, <1>6, <2>1, <2>2
<1>7. CASE \E f \in Flyouts : \/ \E m \in Monitors : OpenFlyout(f, m)
                              \/ \E w \in present \cup {NoWindow} : CloseFlyout(f, w)
  <2>1. PICK f \in Flyouts : \/ \E m \in Monitors : OpenFlyout(f, m)
                             \/ \E w \in present \cup {NoWindow} : CloseFlyout(f, w)
    BY <1>7
  <2>2. CASE \E m \in Monitors : OpenFlyout(f, m)
    BY <1>6, <2>2 DEF OpenFlyout
  <2>3. CASE \E w \in present \cup {NoWindow} : CloseFlyout(f, w)
    <3>1. PICK w \in Windows \cup {NoWindow} : CloseFlyout(f, w)
      BY <2>3 DEF TypeOK, DesktopTypeOK
    <3> QED
      BY <1>6, <3>1 DEF CloseFlyout
  <2> QED
    BY <2>1, <2>2, <2>3
<1>8. ASSUME NEW on \in BOOLEAN, SwitchTaskView(on) PROVE Grows(sent, sent') /\ Grows(events, events') /\ Grows(posted, posted')
  BY <1>1, <1>2, <1>8, GrowsBy, MessageTypes DEF SwitchTaskView
<1>9. ASSUME NEW on \in BOOLEAN, AeroPeek(on) PROVE Grows(sent, sent') /\ Grows(events, events') /\ Grows(posted, posted')
  BY <1>1, <1>2, <1>9, GrowsBy, MessageTypes DEF AeroPeek, RaiseEvents
<1>10. ASSUME NEW k \in {"barCreated", "barDestroyed"}, NEW b \in Bars, events' = events \o <<[kind |-> k, bar |-> b]>>,
              UNCHANGED sent \/ sent' = sent \o <<[kind |-> "displayChange"]>>, UNCHANGED posted
       PROVE  Grows(sent, sent') /\ Grows(events, events') /\ Grows(posted, posted')
  <2>1. Grows(events, events')
    BY <1>1, <1>10, GrowsBy, MessageTypes
  <2>2. Grows(sent, sent \o <<[kind |-> "displayChange"]>>)
    BY <1>1, GrowsBy, MessageTypes
  <2> QED
    BY <1>2, <1>10, <2>1, <2>2
<1>11. ASSUME NEW m \in Monitors, NEW b \in Bars \cup {NoBar}, ChangeDisplays(m, b)
       PROVE  Grows(sent, sent') /\ Grows(events, events') /\ Grows(posted, posted')
  BY <1>1, <1>10, <1>11 DEF ChangeDisplays
<1>12. CASE ExplorerDies
  <2>1. bars[Primary] \in Bars
    BY <1>1, <1>12, DesktopAssumption DEF ExplorerDies
  <2> QED
    BY <1>10, <1>12, <2>1 DEF ExplorerDies
<1>13. ASSUME NEW b \in Bars, NEW ready \in BOOLEAN, ExplorerStarts(b, ready)
       PROVE  Grows(sent, sent') /\ Grows(events, events') /\ Grows(posted, posted')
  BY <1>10, <1>13 DEF ExplorerStarts
<1> QED
  BY <1>3, <1>5, <1>7, <1>8, <1>9, <1>11, <1>12, <1>13, Zenon DEF Environment, OfWindow

LEMMA EnvironmentBars ==
  ASSUME TypeOK, BarsInv, Environment
  PROVE  BarsInv'
<1> USE DEF Queue
<1>1. sent \in Seq(SentMessage) /\ events \in Seq(WinEvent) /\ bars \in [Monitors -> Bars \cup {NoBar}]
  BY DEF TypeOK, DesktopTypeOK
<1>2. UNCHANGED <<taskbars, reentered, stack>>
  BY DEF Environment, members
<1>3. (WillRestart => WillRestart') /\ (LossIsQueued => LossIsQueued')
  BY <1>2, QueuesGrow DEF Grows, WillRestart, LossIsQueued
<1>4. OnNoMonitor' \subseteq OnNoMonitor
  BY DEF Environment, members, OnNoMonitor
<1>5. CASE UNCHANGED bars
  <2>1. Dated' = Dated
    BY <1>5 DEF Dated
  <2> QED
    BY <1>2, <1>3, <1>5, <1>4, <2>1 DEF BarsInv, MainIsCurrent, MainIsLost, BarsAreFound
<1>6. CASE sent' = sent \o <<[kind |-> "displayChange"]>>
  <2>1. On(sent', {[kind |-> "displayChange"]})
    BY <1>1, <1>6, GrowsBy, MessageTypes
  <2> QED
    BY <2>1 DEF BarsInv, MainIsCurrent, MainIsLost, BarsAreFound, WillRestart
<1>7. CASE ExplorerDies
  <2>1. bars[Primary] \in Bars /\ Primary \in Monitors /\ bars'[Primary] = NoBar
    BY <1>1, <1>7, DesktopAssumption DEF ExplorerDies
  <2>2. On(events', {[kind |-> "barDestroyed", bar |-> bars[Primary]]})
    BY <1>1, <1>7, <2>1, GrowsBy, MessageTypes DEF ExplorerDies
  <2>3. taskbars = bars => LossIsQueued'
    <3> SUFFICES ASSUME taskbars = bars PROVE LossIsQueued'
      OBVIOUS
    <3>1. [kind |-> "barDestroyed", bar |-> bars[Primary]] \in {[kind |-> "barDestroyed", bar |-> taskbars'[m]] : m \in Monitors}
      BY <1>2, <2>1
    <3> QED
      BY <2>2, <3>1 DEF LossIsQueued, On
  <2> QED
    BY <1>2, <1>3, <2>1, <2>3 DEF BarsInv, MainIsCurrent, MainIsLost, BarsAreFound
<1>8. UNCHANGED bars \/ sent' = sent \o <<[kind |-> "displayChange"]>> \/ ExplorerDies
  <2>1. ASSUME NEW w \in Windows, OfWindow(w) PROVE UNCHANGED bars
    BY <2>1, WindowQueues
  <2> QED
    BY <2>1 DEF Environment, OfWindow, OpenFlyout, CloseFlyout, ToggleBatterySaver, SwitchTaskView, AeroPeek, ChangeDisplays,
       ChangeWorkArea, PreviewFromOutside, RepaintTaskbar, ExplorerStarts, ExplorerReady, world
<1> QED
  BY <1>5, <1>6, <1>7, <1>8

LEMMA BarsStep == TypeOK /\ OneReset /\ BarsInv /\ [Next]_vars => BarsInv'
<1> SUFFICES ASSUME TypeOK, OneReset, BarsInv, [Next]_vars PROVE BarsInv'
  OBVIOUS
<1>1. CASE RefreshNext \/ RefreshLine \/ RefreshDone
  <2>1. Keeps(stack', stack)
    BY <1>1, RefreshKeeps
  <2>2. UNCHANGED <<bars, sent, events, taskbars, reentered>>
    BY <1>1 DEF RefreshNext, RefreshLine, RefreshDone, desktopVars, members
  <2>3. (On(stack', Dated) <=> On(stack, Dated)) /\ (On(stack', Filled) <=> On(stack, Filled))
    BY <2>1, PlacesOfReset DEF Keeps
  <2>4. OnNoMonitor' \subseteq OnNoMonitor /\ Dated' = Dated
    <3>1. ~InsertTaskbars
      BY <1>1 DEF RefreshNext, RefreshLine, RefreshDone, InsertTaskbars, At
    <3> QED
      BY <1>1, <2>2, <3>1, OrphansStay DEF Dated, Resume
  <2> QED
    BY <2>2, <2>3, <2>4 DEF BarsInv, MainIsCurrent, MainIsLost, BarsAreFound, WillRestart, LossIsQueued
<1>2. CASE InsertWindowDone
  <2>1. stack \in Seq(Frame) /\ stack # <<>> /\ Tail(stack) \in Seq(Frame) /\ Top.at = "inserting"
    BY <1>2, TopType DEF InsertWindowDone, At, TypeOK, WorkerTypeOK
  <2>2. PICK todo \in SUBSET Monitors : stack' = Refreshing(todo) \o Tail(stack)
    BY <1>2 DEF InsertWindowDone, UpdateTracked, Known
  <2>3. Keeps(stack', Tail(stack))
    BY <2>1, <2>2, PushedRefreshing
  <2>4. (On(stack', Dated) => On(stack, Dated)) /\ (On(stack', Filled) => On(stack, Filled))
    BY <2>1, <2>3, PopFrame, PlacesOfReset DEF Keeps
  <2>5. UNCHANGED <<bars, sent, events, taskbars, normalTaskbars, reentered>>
    BY <1>2 DEF InsertWindowDone, desktopVars
  <2> QED
    BY <2>4, <2>5 DEF BarsInv, MainIsCurrent, MainIsLost, BarsAreFound, WillRestart, LossIsQueued, Dated, OnNoMonitor
<1>3. CASE ResetStep
  BY <1>3, ResetStepBars
<1>4. CASE Handle \/ Call
  BY <1>4, HandlerBars
<1>5. CASE Environment
  BY <1>5, EnvironmentBars
<1>6. CASE TimePasses \/ UNCHANGED vars
  <2>1. UNCHANGED <<bars, sent, events, taskbars, normalTaskbars, reentered, stack>>
    BY <1>6 DEF TimePasses, vars, desktopVars, members
  <2> QED
    BY <2>1 DEF BarsInv, MainIsCurrent, MainIsLost, BarsAreFound, WillRestart, LossIsQueued, Dated, OnNoMonitor
<1> QED
  BY <1>1, <1>2, <1>3, <1>4, <1>5, <1>6 DEF Next, Resume, ResetStep

LEMMA BarsInit == Init => BarsInv
<1> SUFFICES ASSUME Init PROVE BarsInv
  OBVIOUS
<1> DEFINE f == [at |-> "clearing", manual |-> TRUE, waits |-> FALSE]
<1>1. stack = <<f>> /\ f.at = "clearing"
  BY DEF Init
<1> HIDE DEF f
<1>2. ~On(stack, Dated) /\ ~On(stack, Filled)
  BY <1>1, OnFew DEF Dated, Filled
<1> QED
  BY <1>2 DEF BarsInv, MainIsCurrent, MainIsLost, BarsAreFound

(* Only a reset itself gets on: whatever else happens, its frame is the    *)
(* one it was, or that of a reset that begins.                             *)
LEMMA ResetFramesStand ==
  ASSUME TypeOK, OneReset, Next, ~ResetStep, NEW F \in SUBSET ResetFrames
  PROVE  \/ On(stack', F) <=> On(stack, F)
         \/ ~resetting /\ \E manual \in BOOLEAN : BeginReset(manual, stack)
<1>1. stack \in Seq(Frame) /\ service \in BOOLEAN /\ F \in SUBSET Waits
  BY DEF TypeOK, WorkerTypeOK, ResetFrames, ResetPlaces, Waits
<1>2. CASE RefreshNext \/ RefreshLine \/ RefreshDone
  BY <1>1, <1>2, RefreshKeeps DEF Keeps
<1>3. CASE InsertWindowDone
  <2>1. stack # <<>> /\ Tail(stack) \in Seq(Frame) /\ Top \notin F
    BY <1>1, <1>3, TopType DEF InsertWindowDone, At, ResetFrames, ResetPlaces
  <2>2. PICK todo \in SUBSET Monitors : stack' = Refreshing(todo) \o Tail(stack)
    BY <1>3 DEF InsertWindowDone, UpdateTracked, Known
  <2> QED
    BY <1>1, <2>1, <2>2, PushedRefreshing, PopFrame DEF Keeps
<1>4. CASE Keeps(stack', stack) \/ UNCHANGED stack
  BY <1>1, <1>4 DEF Keeps
<1>5. CASE OnWindowStateChange
  <2>1. Head(events).win \in Windows
    BY <1>5, NextEventType, EventFields DEF OnWindowStateChange, NextEvent, TypeOK
  <2>2. CASE InsertWindow(Head(events).win, TRUE, stack)
    <3>1. ASSUME NEW f \in Inserting(Head(events).win), stack' = <<f>> \o stack PROVE On(stack', F) <=> On(stack, F)
      <4>1. f \in Frame /\ f \notin F
        BY DEF Inserting, ResetFrames, ResetPlaces
      <4> QED
        BY <1>1, <3>1, <4>1, PushFrame
    <3> QED
      BY <1>1, <1>4, <2>1, <2>2, <3>1, InsertFrames
  <2> QED
    BY <1>4, <1>5, <2>2 DEF OnWindowStateChange
<1>6. CASE Handle \/ Call
  BY <1>4, <1>5, <1>6, HandlerCases DEF Notes
<1>7. CASE TimePasses \/ Environment
  BY <1>4, <1>7 DEF TimePasses, Environment
<1> QED
  BY <1>2, <1>3, <1>6, <1>7 DEF Next, Resume, ResetStep

LEMMA ResetStands ==
  ASSUME TypeOK, OneReset, Next, ~ResetStep, NEW F \in SUBSET ResetFrames, \A f \in F : f.at # "clearing"
  PROVE  On(stack', F) => On(stack, F)
<1>1. ASSUME ~resetting, NEW manual \in BOOLEAN, BeginReset(manual, stack)
      PROVE  ~On(stack', F)
  <2>1. ~Has(stack) /\ stack \in Seq(Frame) /\ service \in BOOLEAN
    BY <1>1, OneResetParts DEF ResetFlags, TypeOK, WorkerTypeOK
  <2> QED
    BY <1>1, <2>1, BeginFrames
<1> QED
  BY <1>1, ResetFramesStand

Applies == {f \in Frame : f.at = "applying"}
LEMMA AppliesOnce ==
  ASSUME TypeOK, OneReset, Next, On(stack', Applies), ~On(stack, Applies)
  PROVE  On(stack, Filled) /\ ~reentered
<1>1. Applies \in SUBSET ResetFrames /\ Applies \in SUBSET Waits /\ (\A f \in Applies : f.at = "applying")
  BY DEF Applies, ResetFrames, ResetPlaces, Waits
<1>2. ResetStep
  BY <1>1, ResetStands
<1>3. /\ stack \in Seq(Frame) /\ stack # <<>> /\ Tail(stack) \in Seq(Frame) /\ ~Has(Tail(stack))
      /\ Top \in Frame /\ Top.manual \in BOOLEAN /\ service \in BOOLEAN
  BY <1>2, ResetOnTop DEF TypeOK, WorkerTypeOK
<1>4. ~On(Tail(stack), Applies)
  BY <1>1, <1>3, NoResetFrames
<1>5. ASSUME NEW f \in Frame, f.at # "applying" PROVE ~On(<<f>> \o Tail(stack), Applies)
  BY <1>1, <1>3, <1>4, <1>5, PushFrame
<1>6. ~(\E f \in Frame : f.at # "applying" /\ stack' = <<f>> \o Tail(stack)) /\ stack' # Tail(stack) /\ stack' # stack
  BY <1>4, <1>5
<1>7. ~(DetectTaskbar /\ stack' = <<[at |-> "injecting", manual |-> Top.manual, main |-> bars[Primary]]>> \o Tail(stack)
        /\ [at |-> "injecting", manual |-> Top.manual, main |-> bars[Primary]] \in Frame)
  <2> DEFINE f == [at |-> "injecting", manual |-> Top.manual, main |-> bars[Primary]]
  <2>1. f.at # "applying"
    OBVIOUS
  <2> HIDE DEF f
  <2> QED
    BY <1>6, <2>1 DEF f
<1>8. ~(\E f \in Frame : f.at = "arming" /\ f.main = Top.main /\ stack' = <<f>> \o Tail(stack))
      /\ ~Becomes("coordinating") /\ ~Becomes("asking") /\ ~Becomes("enumerating")
  BY <1>6 DEF Becomes
<1>9. ~BeginReset(Top.manual, Tail(stack))
  BY <1>1, <1>3, BeginFrames
<1>10. ASSUME InsertNextWindow, NEW f \in Frame, f.at = "enumerating",
              InsertWindow(NextWindow(Top.last), FALSE, <<f>> \o Tail(stack))
       PROVE  FALSE
  <2>1. <<f>> \o Tail(stack) \in Seq(Frame) /\ ~On(<<f>> \o Tail(stack), Applies)
    BY <1>3, <1>5, <1>10, PushType
  <2>2. NextWindow(Top.last) \in Windows
    BY <1>10, NextWindowType DEF InsertNextWindow, TypeOK
  <2>3. ~Keeps(stack', <<f>> \o Tail(stack))
    BY <1>1, <2>1 DEF Keeps
  <2>4. ASSUME NEW g \in Inserting(NextWindow(Top.last)), stack' = <<g>> \o (<<f>> \o Tail(stack)) PROVE FALSE
    <3>1. g \in Frame /\ g \notin Applies
      BY DEF Inserting, Applies
    <3> QED
      BY <2>1, <2>4, <3>1, PushFrame
  <2> QED
    BY <1>10, <2>1, <2>2, <2>3, <2>4, InsertFrames
<1>11. ApplyOrRetry /\ ~reentered
  BY <1>2, <1>6, <1>7, <1>8, <1>9, <1>10, ResetFrameSteps
<1>12. Top \in Filled
  BY <1>3, <1>11, PlacesOfReset DEF ApplyOrRetry, At
<1> QED
  BY <1>3, <1>11, <1>12, PopFrame

(* A reset applies its effects to the taskbars there are, or a notification*)
(* that will tell otherwise is still queued: one that came while the reset *)
(* waited has made it start over.  A main taskbar that died unnoticed,     *)
(* while the service was being armed, is left among them on no monitor,    *)
(* but only while Explorer has not put another in its place.               *)
THEOREM EffectsAreCurrent == Spec => EffectsOnCurrentTaskbars
<1>1. TypeOK /\ TypeOK' /\ OneReset /\ BarsInv /\ [Next]_vars
        => [Applying' /\ ~Applying => TaskbarsAreCurrent \/ ResetPending]_vars
  <2>1. ASSUME TypeOK, TypeOK', OneReset, BarsInv, Next, Applying', ~Applying
        PROVE  TaskbarsAreCurrent \/ ResetPending
    <3>1. stack \in Seq(Frame) /\ stack' \in Seq(Frame)
      BY <2>1 DEF TypeOK, WorkerTypeOK
    <3>2. Len(stack) \in Nat /\ Len(stack') \in Nat
          /\ DOMAIN stack = 1 .. Len(stack) /\ DOMAIN stack' = 1 .. Len(stack')
          /\ (\A i \in DOMAIN stack : stack[i] \in Frame) /\ (\A i \in DOMAIN stack' : stack'[i] \in Frame)
      BY <3>1, LenProperties, ElementOfSeq
    <3>3. On(stack', Applies) /\ ~On(stack, Applies)
      BY <2>1, <3>2 DEF Applying, On, Applies
    <3>4. TaskbarsAreCurrent \/ WillRestart \/ LossIsQueued
      BY <2>1, <3>3, AppliesOnce DEF BarsInv, MainIsLost, BarsAreFound, TaskbarsAreCurrent
    <3>5. WillRestart /\ ~reentered => ResetPending
      BY DEF WillRestart, On, ResetPending
    <3>6. LossIsQueued => ResetPending
      BY DEF LossIsQueued, On, ResetPending
    <3> QED
      BY <2>1, <3>3, <3>4, <3>5, <3>6, AppliesOnce
  <2> QED
    BY <2>1, Zenon
<1>2. TypeOK /\ OneReset /\ BarsInv /\ [Next]_vars => BarsInv'
  BY BarsStep
<1> HIDE DEF BarsInv, OneReset, TypeOK
<1> QED
  BY <1>1, <1>2, TypeCorrect, ResetsDoNotNest, BarsInit, PTL DEF Spec, EffectsOnCurrentTaskbars

-----------------------------------------------------------------------------
(* Where the tracked windows are.  A window is where and as large as the   *)
(* worker thinks, or it will be looked at again or forgotten: InsertWindow *)
(* is in progress for it, or an event about it is queued.                  *)
Gone(w) == {[kind |-> k, win |-> w] : k \in {"hidden", "destroyed"}}
Changed(w) == {[kind |-> "changed", win |-> w]}
IsFixed(w) ==
  \/ On(stack, Inserting(w))
  \/ On(events, Gone(w))
  \/ w \in present /\ On(events, Changed(w))
IsRight(m, w) ==
  /\ w \in present /\ desk[w].mon = m
  /\ desk[w].size = IF w \in tracked[m].max THEN "max" ELSE "normal"
PlacesInv == \A m \in Monitors, w \in Windows : Holds(m, w) => IsRight(m, w) \/ IsFixed(w)

LEMMA PlacesKept ==
  ASSUME PlacesInv, UNCHANGED <<tracked, desk, present>>, \A w \in Windows : IsFixed(w) => IsFixed(w)'
  PROVE  PlacesInv'
BY DEF PlacesInv, Holds, IsRight

LEMMA PlacesForgotten ==
  ASSUME tracked' = [m \in Monitors |-> NoSets]
  PROVE  PlacesInv'
BY DEF PlacesInv, Holds, NoSets

(* The loops of InsertWindow and RemoveWindow leave the window right.      *)
LEMMA PlacesUpdated ==
  ASSUME TypeOK, PlacesInv, UNCHANGED <<desk, present>>, NEW w \in Windows,
         (\E matches, refresh \in BOOLEAN : \E base : UpdateTracked(w, matches, refresh, base)) \/ RemoveWindow(w),
         \A v \in Windows : v # w => (IsFixed(v) => IsFixed(v)')
  PROVE  PlacesInv'
<1>1. \A m \in Monitors, v \in Windows : v # w =>
        /\ v \in tracked'[m].max <=> v \in tracked[m].max
        /\ v \in tracked'[m].normal <=> v \in tracked[m].normal
  <2>1. CASE RemoveWindow(w)
    BY <2>1 DEF RemoveWindow
  <2>2. CASE \E matches, refresh \in BOOLEAN : \E base : UpdateTracked(w, matches, refresh, base)
    <3>1. PICK matches \in BOOLEAN, refresh \in BOOLEAN : \E base : UpdateTracked(w, matches, refresh, base)
      BY <2>2
    <3>2. PICK base : UpdateTracked(w, matches, refresh, base)
      BY <3>1
    <3> QED
      BY <3>2 DEF UpdateTracked
  <2> QED
    BY <2>1, <2>2
<1>2. ASSUME NEW m \in Monitors, w \in tracked'[m].max \cup tracked'[m].normal
      PROVE  /\ MonitorOf(w) = m
             /\ desk[w].size = IF w \in tracked'[m].max THEN "max" ELSE "normal"
  <2>1. ~RemoveWindow(w)
    BY <1>2 DEF RemoveWindow
  <2>2. PICK matches \in BOOLEAN, refresh \in BOOLEAN : \E base : UpdateTracked(w, matches, refresh, base)
    BY <2>1
  <2>3. PICK base : UpdateTracked(w, matches, refresh, base)
    BY <2>2
  <2>4. /\ w \in tracked'[m].max => desk[w].size = "max" /\ MonitorOf(w) = m
        /\ w \in tracked'[m].normal => desk[w].size = "normal" /\ MonitorOf(w) = m
    BY <2>3 DEF UpdateTracked
  <2> QED
    BY <1>2, <2>4
<1>3. ASSUME NEW m \in Monitors, MonitorOf(w) = m PROVE w \in present /\ desk[w].mon = m
  BY <1>3, NamesAssumption DEF MonitorOf
<1> QED
  BY <1>1, <1>2, <1>3 DEF PlacesInv, Holds, IsRight

(* A wait of InsertWindow ends only with InsertWindow. *)
LEMMA InsertingStands ==
  ASSUME TypeOK, OneReset, Next, NEW w \in Windows, On(stack, Inserting(w)), ~(InsertWindowDone /\ Top.win = w)
  PROVE  On(stack', Inserting(w))
<1>1. stack \in Seq(Frame) /\ service \in BOOLEAN /\ Inserting(w) \in SUBSET Waits
  BY DEF TypeOK, WorkerTypeOK, Inserting, Waits
<1>2. CASE RefreshNext \/ RefreshLine \/ RefreshDone
  BY <1>1, <1>2, RefreshKeeps DEF Keeps
<1>3. CASE InsertWindowDone
  <2>1. stack # <<>> /\ Tail(stack) \in Seq(Frame) /\ Top \notin Inserting(w)
    BY <1>1, <1>3, TopType DEF InsertWindowDone, At, Inserting
  <2>2. PICK todo \in SUBSET Monitors : stack' = Refreshing(todo) \o Tail(stack)
    BY <1>3 DEF InsertWindowDone, UpdateTracked, Known
  <2>3. On(Tail(stack), Inserting(w))
    BY <2>1, PopFrame
  <2> QED
    BY <1>1, <2>1, <2>2, <2>3, PushedRefreshing DEF Keeps
<1>4. CASE Keeps(stack', stack) \/ UNCHANGED stack
  BY <1>1, <1>4 DEF Keeps
<1>5. ASSUME NEW s \in Seq(Frame), On(s, Inserting(w)), NEW f \in Frame
      PROVE  <<f>> \o s \in Seq(Frame) /\ On(<<f>> \o s, Inserting(w))
  BY <1>5, PushFrame, PushType
<1>6. ASSUME NEW s \in Seq(Frame), On(s, Inserting(w)), NEW manual \in BOOLEAN, BeginReset(manual, s)
      PROVE  On(stack', Inserting(w))
  <2>1. PICK f \in Frame : stack' = <<f>> \o s
    <3>1. [at |-> "clearing", manual |-> manual, waits |-> service] \in Frame
      BY <1>1 DEF Frame
    <3> QED
      BY <1>6, <3>1 DEF BeginReset
  <2> QED
    BY <1>5, <1>6, <2>1
<1>7. ASSUME NEW s \in Seq(Frame), On(s, Inserting(w)), NEW v \in Windows \cup {Flyout}, NEW refresh \in BOOLEAN, InsertWindow(v, refresh, s)
      PROVE  On(stack', Inserting(w))
  <2>1. CASE Keeps(stack', s)
    BY <1>1, <1>7, <2>1 DEF Keeps
  <2>2. ASSUME NEW f \in Inserting(v), stack' = <<f>> \o s PROVE On(stack', Inserting(w))
    BY <1>5, <1>7, <2>2 DEF Inserting
  <2> QED
    BY <1>7, <2>1, <2>2, InsertFrames
<1>8. CASE Handle \/ Call
  <2>1. CASE OnWindowStateChange
    <3>1. Head(events).win \in Windows
      BY <2>1, NextEventType, EventFields DEF OnWindowStateChange, NextEvent, TypeOK
    <3> QED
      BY <1>1, <1>7, <2>1, <3>1 DEF OnWindowStateChange
  <2> QED
    BY <1>1, <1>4, <1>6, <1>8, <2>1, HandlerCases DEF Notes
<1>9. CASE ResetStep
  <2>1. /\ stack # <<>> /\ Tail(stack) \in Seq(Frame) /\ Top \in Frame /\ Top.at \in ResetPlaces /\ Top.manual \in BOOLEAN
    BY <1>9, ResetOnTop
  <2>2. On(Tail(stack), Inserting(w))
    <3>1. Top \notin Inserting(w)
      BY <2>1 DEF Inserting, ResetPlaces
    <3> QED
      BY <2>1, <3>1, PopFrame
  <2>3. ASSUME NEW f \in Frame, stack' = <<f>> \o Tail(stack) PROVE On(stack', Inserting(w))
    BY <1>5, <2>1, <2>2, <2>3
  <2>4. CASE /\ [at |-> "injecting", manual |-> Top.manual, main |-> bars[Primary]] \in Frame
             /\ stack' = <<[at |-> "injecting", manual |-> Top.manual, main |-> bars[Primary]]>> \o Tail(stack)
    BY <2>3, <2>4
  <2>5. CASE \/ Becomes("coordinating") \/ Becomes("asking") \/ Becomes("enumerating")
             \/ \E f \in Frame : f.at = "arming" /\ f.main = Top.main /\ stack' = <<f>> \o Tail(stack)
    BY <2>3, <2>5 DEF Becomes
  <2>6. CASE InsertNextWindow /\ \E f \in Frame : InsertWindow(NextWindow(Top.last), FALSE, <<f>> \o Tail(stack))
    <3>1. NextWindow(Top.last) \in Windows
      BY <2>6, NextWindowType DEF InsertNextWindow, TypeOK
    <3> QED
      BY <1>5, <1>7, <2>1, <2>2, <2>6, <3>1
  <2>7. CASE BeginReset(Top.manual, Tail(stack))
    BY <1>6, <2>1, <2>2, <2>7
  <2>8. CASE \E f \in Frame : Keeps(stack', <<f>> \o Tail(stack))
    BY <1>1, <1>5, <2>1, <2>2, <2>8 DEF Keeps
  <2>9. CASE stack' = stack \/ stack' = Tail(stack)
    BY <2>2, <2>9
  <2> QED
    BY <1>9, <2>4, <2>5, <2>6, <2>7, <2>8, <2>9, ResetFrameSteps
<1>10. CASE TimePasses \/ Environment
  BY <1>10 DEF TimePasses, Environment
<1> QED
  BY <1>2, <1>3, <1>8, <1>9, <1>10 DEF Next, Resume, ResetStep

(* An event leaves its queue only to be handled. *)
LEMMA EventsStand ==
  ASSUME TypeOK, Next, NEW F, On(events, F)
  PROVE  \/ On(events', F)
         \/ Head(events) \in F /\ (OnWindowStateChange \/ WindowRemove)
         \/ Head(events) \in F /\ Head(events).kind \notin {"changed", "hidden", "destroyed"}
<1>1. events \in Seq(WinEvent)
  BY DEF TypeOK, DesktopTypeOK
<1>2. CASE UNCHANGED events
  BY <1>2
<1>3. CASE Environment
  BY <1>3, QueuesGrow DEF Grows
<1>4. ASSUME NEW kinds, NextEvent(kinds) PROVE (On(events', F) \/ Head(events) \in F) /\ Head(events).kind \in kinds
  BY <1>1, <1>4, OnHead DEF NextEvent
<1>5. CASE OnWindowStateChange \/ WindowRemove
  BY <1>4, <1>5 DEF OnWindowStateChange, WindowRemove
<1>6. CASE OnTaskbarCreateDestroy \/ OnAeroPeekEnterExit \/ OnForegroundWindowChange \/ OnWindowOrderChange
  <2>1. NextEvent({"barCreated", "barDestroyed"}) \/ NextEvent({"peek"}) \/ NextEvent({"foreground"}) \/ NextEvent({"reorder"})
    BY <1>6 DEF OnTaskbarCreateDestroy, OnAeroPeekEnterExit, OnForegroundWindowChange, OnWindowOrderChange
  <2> QED
    BY <1>4, <2>1
<1>7. CASE \/ OnDisplayChange \/ OnSettingChangeSent \/ OnSystemSettingsChange \/ OnPowerBroadcast \/ OnRequestAttributeRefresh
           \/ OnApplyColorPreview \/ OnTaskViewVisibilityChange \/ OnFlyoutVisibilityChange
  <2>1. UNCHANGED events
    BY <1>7 DEF OnDisplayChange, OnSettingChangeSent, OnSystemSettingsChange, OnPowerBroadcast, OnRequestAttributeRefresh,
       OnApplyColorPreview, OnTaskViewVisibilityChange, OnFlyoutVisibilityChange, NextSent, NextPosted
  <2> QED
    BY <1>2, <2>1
<1>8. CASE Resume \/ Call \/ TimePasses
  <2>1. UNCHANGED events
    BY <1>8 DEF Resume, RefreshNext, RefreshLine, RefreshDone, InsertWindowDone, DetectTaskbar, InjectExplorerTAP, InsertTaskbars, AskShell, RecordTaskView,
       LocateFlyout, InsertNextWindow, ApplyOrRetry, FinishReset, Call, ConfigurationChanged, RemoveColorPreview,
       ManualReset, TimePasses, desktopVars, queues
  <2> QED
    BY <1>2, <2>1
<1> QED
  BY <1>3, <1>5, <1>6, <1>7, <1>8 DEF Next, Handle

LEMMA FixedStands ==
  ASSUME TypeOK, OneReset, Next, NEW w \in Windows, IsFixed(w), w \in present => w \in present',
         ~(InsertWindowDone /\ Top.win = w), ~((OnWindowStateChange \/ WindowRemove) /\ Head(events).win = w)
  PROVE  IsFixed(w)'
<1>1. \A e \in Gone(w) \cup Changed(w) : e.kind \in {"changed", "hidden", "destroyed"} /\ e.win = w
  BY DEF Gone, Changed
<1>2. CASE On(stack, Inserting(w))
  <2>1. On(stack', Inserting(w))
    BY <1>2, InsertingStands
  <2> QED
    BY <2>1 DEF IsFixed, Inserting
<1>3. CASE On(events, Gone(w))
  <2>1. On(events', Gone(w))
    BY <1>1, <1>3, EventsStand
  <2> QED
    BY <2>1 DEF IsFixed, Gone
<1>4. CASE w \in present /\ On(events, Changed(w))
  <2>1. On(events', Changed(w))
    BY <1>1, <1>4, EventsStand
  <2> QED
    BY <1>4, <2>1 DEF IsFixed, Changed
<1> QED
  BY <1>2, <1>3, <1>4 DEF IsFixed

LEMMA WorkerLeavesWorld ==
  ASSUME TypeOK, Resume \/ Handle \/ Call \/ TimePasses
  PROVE  UNCHANGED world
<1>1. CASE Resume \/ TimePasses
  BY <1>1 DEF Resume, RefreshNext, RefreshLine, RefreshDone, InsertWindowDone, DetectTaskbar, InjectExplorerTAP, InsertTaskbars, AskShell, RecordTaskView,
     LocateFlyout, InsertNextWindow, ApplyOrRetry, FinishReset, TimePasses, desktopVars, world
<1> QED
  BY <1>1, HandlersTell

(* A window that changes raises an event that makes the worker forget it,  *)
(* or one that makes it look at the window again; one that only comes to   *)
(* the top raises that of the z-order.                                     *)
Raised(w) == {[kind |-> "reorder", win |-> w]}
LEMMA WindowChanges ==
  ASSUME TypeOK, NEW w \in Windows, OfWindow(w)
  PROVE  /\ \A v \in Windows : v # w => desk'[v] = desk[v] /\ (v \in present <=> v \in present')
         /\ \/ UNCHANGED <<desk, present>> /\ On(events', Raised(w))
            \/ On(events', Gone(w))
            \/ w \in present' /\ On(events', Changed(w))
<1>1. desk \in [Windows -> Placements] /\ present \subseteq Windows /\ events \in Seq(WinEvent)
  BY DEF TypeOK, DesktopTypeOK
<1>2. \A v \in Windows : v # w => desk'[v] = desk[v] /\ (v \in present <=> v \in present')
  BY <1>1 DEF OfWindow, PlaceWindow, MinimiseWindow, ShowWindow, HideWindow, CreateWindow, DestroyWindow, ActivateWindow
<1>3. CASE ActivateWindow(w)
  <2> DEFINE e == [kind |-> "foreground", win |-> w]
             g == [kind |-> "reorder", win |-> w]
  <2>1. UNCHANGED <<desk, present>> /\ events' = events \o <<e, g>>
    BY <1>3 DEF ActivateWindow, RaiseEvents, Queue
  <2>2. e \in WinEvent /\ g \in WinEvent /\ g \in Raised(w)
    BY MessageTypes DEF Raised
  <2> HIDE DEF e, g
  <2>3. <<e, g>> \in Seq(WinEvent) /\ On(<<e, g>>, Raised(w))
    BY <2>2, OnFew
  <2>4. On(events', Raised(w))
    BY <1>1, <2>1, <2>3, OnConcat
  <2> QED
    BY <1>2, <2>1, <2>4
<1>4. CASE (\E m \in Monitors, size \in {"max", "normal"} : PlaceWindow(w, m, size))
           \/ ShowWindow(w) \/ (\E m \in Monitors : CreateWindow(w, m))
  <2>1. events' = events \o <<[kind |-> "changed", win |-> w]>> /\ w \in present'
    BY <1>4 DEF PlaceWindow, ShowWindow, CreateWindow, RaiseEvents, Queue
  <2>2. [kind |-> "changed", win |-> w] \in WinEvent
    BY MessageTypes
  <2>3. On(events', Changed(w))
    BY <1>1, <2>1, <2>2, GrowsBy DEF Changed
  <2> QED
    BY <1>2, <2>1, <2>3
<1>5. CASE MinimiseWindow(w) \/ HideWindow(w) \/ DestroyWindow(w)
  <2>1. PICK k \in {"hidden", "destroyed"} : GoAway(w, [kind |-> k, win |-> w])
    BY <1>5 DEF MinimiseWindow, HideWindow, DestroyWindow
  <2> DEFINE e == [kind |-> k, win |-> w]
  <2>2. e \in WinEvent /\ e \in Gone(w)
    BY MessageTypes DEF Gone
  <2>3. events' = events \o WentAway(w, e) /\ WentAway(w, e) \in Seq(WinEvent)
    BY <2>1, <2>2, GoAwayQueues
  <2> HIDE DEF e
  <2>4. On(WentAway(w, e), Gone(w))
    BY <2>2, OnFew DEF WentAway
  <2>5. On(events', Gone(w))
    BY <1>1, <2>3, <2>4, OnConcat
  <2> QED
    BY <1>2, <2>5
<1> QED
  BY <1>2, <1>3, <1>4, <1>5 DEF OfWindow

LEMMA EnvironmentPlaces ==
  ASSUME TypeOK, PlacesInv, Environment
  PROVE  PlacesInv'
<1>1. UNCHANGED <<tracked, stack>> /\ Grows(events, events')
  BY QueuesGrow DEF Environment, members
<1>2. ASSUME NEW v \in Windows, IsFixed(v), v \in present => v \in present'
      PROVE  IsFixed(v)'
  <2>1. CASE On(stack, Inserting(v))
    BY <1>1, <2>1 DEF IsFixed, Inserting
  <2>2. CASE On(events, Gone(v))
    BY <1>1, <2>2 DEF IsFixed, Gone, Grows
  <2>3. CASE v \in present /\ On(events, Changed(v))
    BY <1>1, <1>2, <2>3 DEF IsFixed, Changed, Grows
  <2> QED
    BY <1>2, <2>1, <2>2, <2>3 DEF IsFixed
<1>3. CASE UNCHANGED <<desk, present>>
  BY <1>1, <1>2, <1>3, PlacesKept
<1>4. ASSUME NEW w \in Windows, OfWindow(w)
      PROVE  PlacesInv'
  <2>1. \A v \in Windows : v # w => desk'[v] = desk[v] /\ (v \in present <=> v \in present')
    BY <1>4, WindowChanges
  <2>2. CASE On(events', Gone(w)) \/ (w \in present' /\ On(events', Changed(w)))
    <3>1. IsFixed(w)'
      BY <2>2 DEF IsFixed, Gone, Changed
    <3>2. ASSUME NEW m \in Monitors, NEW v \in Windows, v # w, IsRight(m, v)
          PROVE  IsRight(m, v)'
      BY <1>1, <2>1, <3>2 DEF IsRight
    <3> QED
      BY <1>1, <1>2, <2>1, <3>1, <3>2 DEF PlacesInv, Holds
  <2> QED
    BY <1>3, <1>4, <2>2, WindowChanges
<1>5. UNCHANGED <<desk, present>> \/ \E w \in Windows : OfWindow(w)
  BY DEF Environment, OfWindow, OpenFlyout, CloseFlyout, ToggleBatterySaver, SwitchTaskView, AeroPeek, ChangeDisplays,
     ChangeWorkArea, PreviewFromOutside, RepaintTaskbar, ExplorerDies, ExplorerStarts, ExplorerReady, world
<1> QED
  BY <1>3, <1>4, <1>5

LEMMA PlacesStep == TypeOK /\ OneReset /\ PlacesInv /\ [Next]_vars => PlacesInv'
<1> SUFFICES ASSUME TypeOK, OneReset, PlacesInv, [Next]_vars PROVE PlacesInv'
  OBVIOUS
<1>1. CASE UNCHANGED vars
  <2>1. UNCHANGED <<tracked, desk, present, stack, events>>
    BY <1>1 DEF vars, desktopVars, members
  <2> QED
    BY <2>1 DEF PlacesInv, Holds, IsRight, IsFixed, Inserting, Gone, Changed
<1>2. CASE Environment
  BY <1>2, EnvironmentPlaces
<1>3. CASE Resume \/ Handle \/ Call \/ TimePasses
  <2>1. Next /\ UNCHANGED <<desk, present>>
    BY <1>3, WorkerLeavesWorld DEF world, Next
  <2>2. CASE InsertWindowDone
    <3>1. Top.win \in Windows /\ Top.refresh \in BOOLEAN
      BY <2>2, TopType, FrameFields DEF InsertWindowDone, At, TypeOK, WorkerTypeOK
    <3>2. \E matches \in {Top.win \notin config.ignored} : UpdateTracked(Top.win, matches, Top.refresh, Tail(stack))
      BY <2>2 DEF InsertWindowDone
    <3>3. \A v \in Windows : v # Top.win => (IsFixed(v) => IsFixed(v)')
      <4>1. UNCHANGED events
        BY <2>2 DEF InsertWindowDone, desktopVars
      <4>2. \A v \in Windows : v # Top.win => (On(stack, Inserting(v)) => On(stack', Inserting(v)))
        BY <2>1, InsertingStands
      <4> QED
        BY <2>1, <4>1, <4>2 DEF IsFixed, Inserting, Gone, Changed
    <3> QED
      BY <2>1, <3>1, <3>2, <3>3, PlacesUpdated
  <2>3. CASE OnWindowStateChange /\ ~InsertWindowDone
    <3>0. Head(events).win \in Windows /\ Head(events).kind = "changed" /\ stack \in Seq(Frame)
      BY <2>3, NextEventType, EventFields DEF OnWindowStateChange, NextEvent, TypeOK, WorkerTypeOK
    <3>1. PICK w \in Windows : w = Head(events).win
      BY <3>0
    <3>2. \A v \in Windows : v # w => (IsFixed(v) => IsFixed(v)')
      BY <2>1, <2>3, <3>1, FixedStands
    <3>3. CASE ~Valid(w)
      <4>1. UNCHANGED tracked
        BY <2>3, <3>1, <3>3 DEF OnWindowStateChange
      <4>2. IsFixed(w) => On(stack, Inserting(w)) \/ On(events, Gone(w))
        BY <3>3 DEF IsFixed, Valid
      <4>3. Head(events) \notin Gone(w)
        BY <3>0 DEF Gone
      <4>4. On(events, Gone(w)) => On(events', Gone(w))
        BY <2>1, <3>0, <4>3, EventsStand
      <4>5. On(stack, Inserting(w)) => On(stack', Inserting(w))
        BY <2>1, <2>3, <3>1, InsertingStands
      <4>6. IsFixed(w) => IsFixed(w)'
        BY <4>2, <4>4, <4>5 DEF IsFixed, Gone, Inserting
      <4> QED
        BY <2>1, <3>2, <4>1, <4>6, PlacesKept
    <3>4. CASE Valid(w)
      <4>1. InsertWindow(w, TRUE, stack)
        BY <2>3, <3>1, <3>4 DEF OnWindowStateChange
      <4>2. ASSUME UNCHANGED tracked, NEW f \in Inserting(w), stack' = <<f>> \o stack
            PROVE  PlacesInv'
        <5>1. On(stack', Inserting(w))
          BY <3>0, <4>2, PushFrame DEF Inserting
        <5>2. IsFixed(w)'
          BY <5>1 DEF IsFixed, Inserting
        <5> QED
          BY <2>1, <3>2, <4>2, <5>2, PlacesKept
      <4>3. CASE \E matches \in {FALSE} : UpdateTracked(w, matches, TRUE, stack)
        BY <2>1, <3>1, <3>2, <4>3, PlacesUpdated
      <4>4. w # Flyout
        BY <3>1, NamesAssumption
      <4> QED
        BY <3>0, <4>1, <4>2, <4>3, <4>4, InsertFrames
    <3> QED
      BY <3>3, <3>4
  <2>4. CASE WindowRemove /\ ~InsertWindowDone
    <3>1. Head(events).win \in Windows /\ RemoveWindow(Head(events).win)
      BY <2>4, NextEventType, EventFields DEF WindowRemove, NextEvent, TypeOK
    <3>2. \A v \in Windows : v # Head(events).win => (IsFixed(v) => IsFixed(v)')
      BY <2>1, <2>4, FixedStands
    <3> QED
      BY <2>1, <3>1, <3>2, PlacesUpdated
  <2>5. CASE ~InsertWindowDone /\ ~OnWindowStateChange /\ ~WindowRemove
    <3>1. \A v \in Windows : IsFixed(v) => IsFixed(v)'
      BY <2>1, <2>5, FixedStands
    <3>2. CASE UNCHANGED tracked
      BY <2>1, <3>1, <3>2, PlacesKept
    <3>3. ASSUME NEW w \in Windows,
                 (\E matches, refresh \in BOOLEAN : \E base : UpdateTracked(w, matches, refresh, base)) \/ RemoveWindow(w)
          PROVE  PlacesInv'
      BY <2>1, <3>1, <3>3, PlacesUpdated
    <3> QED
      BY <2>1, <3>2, <3>3, PlacesForgotten, TrackedSteps
  <2> QED
    BY <2>2, <2>3, <2>4, <2>5
<1> QED
  BY <1>1, <1>2, <1>3 DEF Next

LEMMA PlacesInit == Init => PlacesInv
BY DEF Init, PlacesInv, Holds, NoSets

(* Once everything is handled, a tracked window exists and is where and as *)
(* large as the worker thinks, whatever happened to it while InsertWindow  *)
(* waited for the virtual desktop manager.                                 *)
THEOREM TrackedWindowsExist == Spec => []TrackedWindowsAreThere
<1>1. PlacesInv => TrackedWindowsAreThere
  <2> SUFFICES ASSUME PlacesInv, Quiet PROVE \A w \in Windows : ~IsFixed(w)
    BY DEF PlacesInv, IsRight, TrackedWindowsAreThere
  <2> QED
    BY OnFew DEF Quiet, IsFixed
<1>2. TypeOK /\ OneReset /\ PlacesInv /\ [Next]_vars => PlacesInv'
  BY PlacesStep
<1> HIDE DEF PlacesInv, OneReset, TypeOK, TrackedWindowsAreThere
<1> QED
  BY <1>1, <1>2, TypeCorrect, ResetsDoNotNest, PlacesInit, PTL DEF Spec

-----------------------------------------------------------------------------
(* What the worker knows of the shell.  On a queue nothing has happened to *)
(* the messages in K; the last of them says what it said.                  *)
Still(q, r, K) == (On(r, K) <=> On(q, K)) /\ \A G : LastIsIn(q, K, G) => LastIsIn(r, K, G)

LEMMA StillConcat ==
  ASSUME NEW S, NEW q \in Seq(S), NEW t \in Seq(S), NEW K, ~On(t, K)
  PROVE  Still(q, q \o t, K)
<1>1. \A G : LastIsIn(t, K, G)
  BY DEF LastIsIn, On
<1> QED
  BY <1>1, OnConcat, LastConcat DEF Still

LEMMA StillFew ==
  ASSUME NEW S, NEW q \in Seq(S), NEW K
  PROVE  /\ Still(q, q, K)
         /\ \A e \in S : e \notin K => Still(q, q \o <<e>>, K)
         /\ q # <<>> /\ Head(q) \notin K => Still(q, Tail(q), K)
<1>1. Still(q, q, K)
  BY DEF Still
<1>2. ASSUME NEW e \in S, e \notin K PROVE Still(q, q \o <<e>>, K)
  <2>1. <<e>> \in Seq(S)
    OBVIOUS
  <2>2. ~On(<<e>>, K)
    BY <1>2, OnFew
  <2> QED
    BY <2>1, <2>2, StillConcat
<1>3. ASSUME q # <<>>, Head(q) \notin K PROVE Still(q, Tail(q), K)
  BY <1>3, OnHead, LastHead DEF Still
<1> QED
  BY <1>1, <1>2, <1>3

(* A message is queued: it is the last. *)
LEMMA LastQueued ==
  ASSUME NEW S, NEW q \in Seq(S), NEW K, NEW e \in S, e \in K
  PROVE  LastIsIn(q \o <<e>>, K, {e}) /\ On(q \o <<e>>, K)
<1>1. <<e>> \in Seq(S)
  OBVIOUS
<1>2. On(<<e>>, K)
  BY OnFew
<1>3. LastIsIn(<<e>>, K, {e})
  BY LastFew
<1> QED
  BY <1>1, <1>2, <1>3, OnConcat, LastConcat

-----------------------------------------------------------------------------
(* What the shell is asked about, in the order ResetState asks, and the    *)
(* resets that have still to get an answer: those that have yet to ask, or *)
(* are waiting for an answer to this question or to one before it.         *)
Subjects == {"power"} \cup Questions
UpTo(q) ==
  {p \in Questions : \/ p = q
                     \/ p = "taskView" /\ q \in Flyouts
                     \/ p = "start" /\ q \in {"search", "find"}
                     \/ p = "search" /\ q = "find"}
Unanswered(q) ==
  {f \in ResetFrames : f.at = "coordinating" \/ (f.at = "asking" /\ f.about \in UpTo(q))}
Answered(q) == Known # {} /\ ~On(stack, Unanswered(q))
Answers(q) ==
  IF q = "power" THEN AskShell ELSE (RecordTaskView \/ LocateFlyout) /\ Top.about = q

(* A frame of the reset in progress is replaced by the next. *)
LEMMA ReplacedFrame ==
  ASSUME TypeOK, OneReset, ResetStep, NEW F \in SUBSET ResetFrames
  PROVE  /\ On(stack, F) <=> Top \in F
         /\ \A f \in Frame : stack' = <<f>> \o Tail(stack) => (On(stack', F) <=> f \in F)
<1>1. stack \in Seq(Frame) /\ stack # <<>> /\ Tail(stack) \in Seq(Frame) /\ ~Has(Tail(stack))
  BY ResetOnTop
<1>2. ~On(Tail(stack), F)
  BY <1>1, NoResetFrames
<1> QED
  BY <1>1, <1>2, PopFrame, PushFrame

Follows(f) ==
  \/ /\ UNCHANGED taskbars
     /\ \/ Top.at = "clearing" /\ DetectTaskbar /\ f.at = "injecting" /\ f.main = bars[Primary]
        \/ Top.at = "injecting" /\ InjectExplorerTAP /\ f.at = "arming" /\ f.main = Top.main
        \/ Top.at = "coordinating" /\ AskShell /\ f = Ask(Top.manual, "taskView")
        \/ /\ Top.at = "asking" /\ Top.about = "taskView" /\ RecordTaskView
           /\ f = Ask(Top.manual, "start")
        \/ /\ Top.at = "asking" /\ Top.about = "start" /\ LocateFlyout
           /\ f = Ask(Top.manual, "search")
        \/ /\ Top.at = "asking" /\ Top.about = "search" /\ LocateFlyout
           /\ f = Ask(Top.manual, "find")
        \/ /\ Top.at = "asking" /\ Top.about = "find" /\ LocateFlyout
           /\ f.at = "enumerating"
        \/ Top.at = "enumerating" /\ f.at \in {"enumerating", "applying"}
  \/ Top.at = "arming" /\ f.at = "coordinating"

(* The steps of a reset, as what they do to its frame: it starts over, has *)
(* nothing to wait for, is done, or goes on to what follows.               *)
LEMMA ResetMoves ==
  ASSUME TypeOK, OneReset, ResetStep, NEW F \in SUBSET ResetFrames
  PROVE  \/ BeginReset(Top.manual, Tail(stack))
         \/ Top.at \in {"clearing", "injecting", "arming"} /\ UNCHANGED <<taskbars, stack>>
         \/ Top.at \in {"clearing", "applying"} /\ UNCHANGED taskbars /\ ~On(stack', F)
         \/ \E f \in Frame : (On(stack', F) <=> f \in F) /\ Follows(f)
<1>1. /\ stack \in Seq(Frame) /\ stack # <<>> /\ Tail(stack) \in Seq(Frame) /\ ~Has(Tail(stack))
      /\ Top \in Frame /\ Top.at \in ResetPlaces /\ Top.manual \in BOOLEAN
  BY ResetOnTop
<1>2. ~On(Tail(stack), F) /\ F \in SUBSET Waits
  BY <1>1, NoResetFrames DEF ResetFrames, ResetPlaces, Waits
<1>3. ASSUME NEW f \in Frame, stack' = <<f>> \o Tail(stack), Follows(f)
      PROVE  \E g \in Frame : (On(stack', F) <=> g \in F) /\ Follows(g)
  BY <1>3, ReplacedFrame
<1>4. CASE AskShell
  <2>1. Ask(Top.manual, "taskView") \in Frame
    BY <1>1, AskType DEF Questions
  <2>2. Top.at = "coordinating" /\ stack' = <<Ask(Top.manual, "taskView")>> \o Tail(stack) /\ UNCHANGED taskbars
    BY <1>4 DEF AskShell, At
  <2> QED
    BY <1>3, <1>4, <2>1, <2>2 DEF Follows
<1>5. CASE RecordTaskView
  <2>1. Ask(Top.manual, "start") \in Frame
    BY <1>1, AskType DEF Questions, Flyouts
  <2>2. Top.at = "asking" /\ Top.about = "taskView" /\ stack' = <<Ask(Top.manual, "start")>> \o Tail(stack) /\ UNCHANGED taskbars
    BY <1>5 DEF RecordTaskView, At
  <2> QED
    BY <1>3, <1>5, <2>1, <2>2 DEF Follows
<1>6. CASE LocateFlyout
  <2>1. Ask(Top.manual, "search") \in Frame /\ Ask(Top.manual, "find") \in Frame
    BY <1>1, AskType DEF Questions, Flyouts
  <2>2. Top.at = "asking" /\ Top.about \in {"start", "search", "find"} /\ UNCHANGED taskbars
    BY <1>6 DEF LocateFlyout, At, Flyouts
  <2>3. CASE Top.about = "start"
    <3>1. stack' = <<Ask(Top.manual, "search")>> \o Tail(stack)
      BY <1>6, <2>3 DEF LocateFlyout, NextQuestion
    <3> QED
      BY <1>3, <1>6, <2>1, <2>2, <2>3, <3>1 DEF Follows
  <2>4. CASE Top.about = "search"
    <3>1. stack' = <<Ask(Top.manual, "find")>> \o Tail(stack)
      BY <1>6, <2>4 DEF LocateFlyout, NextQuestion
    <3> QED
      BY <1>3, <1>6, <2>1, <2>2, <2>4, <3>1 DEF Follows
  <2>5. CASE Top.about = "find"
    <3> DEFINE f == [at |-> "enumerating", manual |-> Top.manual, last |-> NoWindow]
    <3>1. f \in Frame /\ f.at = "enumerating" /\ stack' = <<f>> \o Tail(stack)
      BY <1>1, <1>6, <2>5 DEF LocateFlyout, Frame
    <3> HIDE DEF f
    <3> QED
      BY <1>3, <1>6, <2>2, <2>5, <3>1 DEF Follows
  <2> QED
    BY <2>2, <2>3, <2>4, <2>5
<1>7. CASE DetectTaskbar \/ InjectExplorerTAP \/ InsertTaskbars
  <2>1. /\ DetectTaskbar => Top.at = "clearing" /\ ~InjectExplorerTAP /\ ~InsertTaskbars
        /\ InjectExplorerTAP => Top.at = "injecting" /\ ~DetectTaskbar /\ ~InsertTaskbars
        /\ InsertTaskbars => Top.at = "arming" /\ ~DetectTaskbar /\ ~InjectExplorerTAP
        /\ ~(AskShell \/ RecordTaskView \/ LocateFlyout \/ InsertNextWindow \/ ApplyOrRetry \/ FinishReset)
    BY <1>7 DEF DetectTaskbar, InjectExplorerTAP, InsertTaskbars, AskShell, RecordTaskView, LocateFlyout, InsertNextWindow,
       ApplyOrRetry, FinishReset, At
  <2>2. \/ UNCHANGED <<taskbars, stack>>
        \/ DetectTaskbar /\ UNCHANGED taskbars /\ stack' = Tail(stack)
        \/ /\ DetectTaskbar /\ UNCHANGED taskbars
           /\ \E f \in Frame : f.at = "injecting" /\ f.main = bars[Primary] /\ stack' = <<f>> \o Tail(stack)
        \/ /\ InjectExplorerTAP /\ UNCHANGED taskbars
           /\ \E f \in Frame : f.at = "arming" /\ f.main = Top.main /\ stack' = <<f>> \o Tail(stack)
        \/ InsertTaskbars /\ \E f \in Frame : f.at = "coordinating" /\ stack' = <<f>> \o Tail(stack)
    BY <2>1, ResetFrameSteps DEF Becomes
  <2> QED
    BY <1>2, <1>3, <1>7, <2>1, <2>2 DEF Follows
<1>8. CASE InsertNextWindow \/ ApplyOrRetry \/ FinishReset
  <2>1. /\ Top.at \in {"enumerating", "applying"} /\ (Top.at = "applying" <=> FinishReset)
        /\ ~(DetectTaskbar \/ InjectExplorerTAP \/ InsertTaskbars \/ AskShell \/ RecordTaskView \/ LocateFlyout)
    BY <1>8 DEF DetectTaskbar, InjectExplorerTAP, InsertTaskbars, AskShell, RecordTaskView, LocateFlyout, InsertNextWindow,
       ApplyOrRetry, FinishReset, At
  <2>2. CASE FinishReset
    <3>1. stack' = Tail(stack) /\ UNCHANGED taskbars
      BY <2>2 DEF FinishReset, EndReset
    <3> QED
      BY <1>2, <2>1, <2>2, <3>1
  <2>3. CASE InsertNextWindow
    <3>1. NextWindow(Top.last) \in Windows \cup {Flyout} /\ Top.at = "enumerating" /\ UNCHANGED taskbars
      BY <2>3, NextWindowType DEF InsertNextWindow, At, TypeOK
    <3>2. PICK f \in Frame : f.at = "enumerating" /\ InsertWindow(NextWindow(Top.last), FALSE, <<f>> \o Tail(stack))
      <4>1. ~FinishReset /\ (ApplyOrRetry => NextWindow(Top.last) = NoWindow) /\ NextWindow(Top.last) # NoWindow
        BY <2>3 DEF InsertNextWindow, FinishReset, ApplyOrRetry, At
      <4> QED
        BY <2>1, <4>1, ResetFrameSteps
    <3>3. <<f>> \o Tail(stack) \in Seq(Frame) /\ (On(<<f>> \o Tail(stack), F) <=> f \in F)
      BY <1>1, <1>2, <3>2, PushType, PushFrame
    <3>4. On(stack', F) <=> On(<<f>> \o Tail(stack), F)
      <4>1. ASSUME NEW g \in Inserting(NextWindow(Top.last)), stack' = <<g>> \o (<<f>> \o Tail(stack))
            PROVE  On(stack', F) <=> On(<<f>> \o Tail(stack), F)
        <5>1. g \in Frame /\ g \notin F
          BY DEF Inserting, ResetFrames, ResetPlaces
        <5> QED
          BY <3>3, <4>1, <5>1, PushFrame
      <4>2. ASSUME Keeps(stack', <<f>> \o Tail(stack)) PROVE On(stack', F) <=> On(<<f>> \o Tail(stack), F)
        BY <1>2, <4>2 DEF Keeps
      <4> QED
        BY <3>1, <3>2, <3>3, <4>1, <4>2, InsertFrames
    <3> QED
      BY <3>1, <3>2, <3>3, <3>4 DEF Follows
  <2>4. CASE ApplyOrRetry
    <3>1. Top.at = "enumerating" /\ ~FinishReset /\ (InsertNextWindow => NextWindow(Top.last) # NoWindow) /\ NextWindow(Top.last) = NoWindow
      BY <2>4 DEF InsertNextWindow, FinishReset, ApplyOrRetry, At
    <3>2. \/ BeginReset(Top.manual, Tail(stack))
          \/ UNCHANGED taskbars /\ \E f \in Frame : f.at = "applying" /\ Keeps(stack', <<f>> \o Tail(stack))
      BY <2>1, <3>1, ResetFrameSteps
    <3>3. ASSUME NEW f \in Frame, Keeps(stack', <<f>> \o Tail(stack)) PROVE On(stack', F) <=> f \in F
      BY <1>1, <1>2, <3>3, PushFrame DEF Keeps
    <3> QED
      BY <3>1, <3>2, <3>3 DEF Follows
  <2> QED
    BY <1>8, <2>2, <2>3, <2>4
<1> QED
  BY <1>4, <1>5, <1>6, <1>7, <1>8 DEF ResetStep

(* What a reset asks about. *)
LEMMA AskedFrames ==
  /\ \A f \in Frame : f.at = "asking" => f.about \in {"taskView", "start", "search", "find"} /\ f.opened \in BOOLEAN
  /\ \A manual, q : /\ Ask(manual, q).at = "asking" /\ Ask(manual, q).about = q
                    /\ Ask(manual, q).opened = IsOpened(q)
BY DEF Frame, Questions, Flyouts, Ask

(* Only an answer makes something known. *)
LEMMA AnsweredStep ==
  ASSUME TypeOK, OneReset, Next, NEW q \in Subjects, Answered(q)'
  PROVE  Answered(q) \/ Answers(q)
<1> DEFINE F == Unanswered(q)
<1>1. F \in SUBSET ResetFrames /\ Known' # {} /\ ~On(stack', F)
  BY DEF Answered, Unanswered
<1>2. \A f \in Frame : f \in F <=> \/ f.at = "coordinating"
                                   \/ f.at = "asking" /\ f.about \in UpTo(q)
  BY DEF Unanswered, ResetFrames, ResetPlaces
<1>3. ASSUME NEW manual, NEW base, BeginReset(manual, base) PROVE FALSE
  BY <1>1, <1>3 DEF BeginReset, Known
<1>4. \/ Answered(q)
      \/ On(stack, F) \/ ~(UNCHANGED taskbars)
  BY <1>1 DEF Answered, Known
<1> HIDE DEF F
<1>5. CASE ResetStep
  <2>1. Top \in Frame /\ (On(stack, F) <=> Top \in F)
    BY <1>1, <1>5, ReplacedFrame, ResetOnTop
  <2>2. CASE UNCHANGED <<taskbars, stack>>
    BY <1>1, <1>4, <2>2
  <2>3. CASE Top.at \in {"clearing", "applying"} /\ UNCHANGED taskbars
    BY <1>2, <1>4, <2>1, <2>3
  <2>4. ASSUME NEW f \in Frame, On(stack', F) <=> f \in F, Follows(f) PROVE Answered(q) \/ Answers(q)
    <3>1. f \notin F
      BY <1>1, <2>4
    <3>2. ~(Top.at = "arming" /\ f.at = "coordinating")
      BY <1>2, <3>1
    <3>3. UNCHANGED taskbars
      BY <2>4, <3>2 DEF Follows
    <3>4. SUFFICES ASSUME Top \in F PROVE Answers(q)
      BY <1>4, <2>1, <3>3
    <3>5. Top.at = "coordinating" \/ (Top.at = "asking" /\ Top.about \in UpTo(q))
      BY <1>2, <2>1, <3>4
    <3>6. ASSUME NEW p \in Questions, f = Ask(Top.manual, p) PROVE p \notin UpTo(q)
      BY <1>2, <3>1, <3>6, AskedFrames
    <3> QED
      BY <2>4, <3>5, <3>6 DEF Follows, Answers, UpTo, Questions, Flyouts, Subjects
  <2> QED
    BY <1>1, <1>3, <1>5, <2>2, <2>3, <2>4, ResetMoves
<1>6. CASE ~ResetStep
  <2>1. ~On(stack, F)
    BY <1>1, <1>3, <1>6, ResetFramesStand
  <2>2. UNCHANGED taskbars
    <3>1. CASE Handle \/ Call
      BY <1>3, <3>1, HandlerCases DEF Notes
    <3>2. CASE Resume \/ TimePasses \/ Environment
      BY <1>6, <3>2 DEF ResetStep, Resume, RefreshNext, RefreshLine, RefreshDone, InsertWindowDone, TimePasses, Environment, members
    <3> QED
      BY <3>1, <3>2 DEF Next
  <2> QED
    BY <1>4, <2>1, <2>2
<1> QED
  BY <1>5, <1>6

-----------------------------------------------------------------------------
(* What tells the worker: of each thing it follows, the messages about it. *)
Power == [kind : {"power"}, on : BOOLEAN]
View == [kind : {"taskView"}, on : BOOLEAN]
Foreground == [kind : {"foreground"}, win : Windows \cup {Flyout, NoWindow}]
OfFlyout(f) == [kind : {"flyout"}, flyout : {f}, on : BOOLEAN]

(* What the worker takes off the queues: a message about the shell is      *)
(* taken by the handler that follows it, a posted one on an empty stack.   *)
LEMMA WorkerQueues ==
  ASSUME TypeOK, Resume \/ Handle \/ Call \/ TimePasses
  PROVE  /\ \/ UNCHANGED sent
            \/ sent # <<>> /\ sent' = Tail(sent) /\ (Head(sent).kind # "power" \/ OnPowerBroadcast)
         /\ \/ UNCHANGED events
            \/ events # <<>> /\ events' = Tail(events) /\ (Head(events).kind # "foreground" \/ OnForegroundWindowChange)
         /\ \/ UNCHANGED posted
            \/ posted' = posted \o <<[kind |-> "settingChange"]>>
            \/ /\ posted # <<>> /\ posted' = Tail(posted) /\ stack = <<>>
               /\ \/ Head(posted).kind = "settingChange"
                  \/ Head(posted).kind = "taskView" /\ OnTaskViewVisibilityChange
                  \/ Head(posted).kind = "flyout" /\ OnFlyoutVisibilityChange
<1>1. CASE Resume \/ Call \/ TimePasses
  <2>1. UNCHANGED <<sent, events, posted>>
    <3>1. CASE Resume \/ TimePasses
      <4>1. UNCHANGED desktopVars
        BY <3>1 DEF Resume, RefreshNext, RefreshLine, RefreshDone, InsertWindowDone, DetectTaskbar, InjectExplorerTAP, InsertTaskbars,
           AskShell, RecordTaskView, LocateFlyout, InsertNextWindow, ApplyOrRetry, FinishReset, TimePasses
      <4> QED
        BY <4>1 DEF desktopVars, queues
    <3>2. CASE Call
      BY <3>2 DEF Call, ConfigurationChanged, RemoveColorPreview, ManualReset, queues
    <3> QED
      BY <1>1, <3>1, <3>2
  <2> QED
    BY <2>1
<1>2. CASE OnForegroundWindowChange
  BY <1>2 DEF OnForegroundWindowChange, NextEvent
<1>3. CASE OnWindowStateChange \/ WindowRemove \/ OnTaskbarCreateDestroy \/ OnAeroPeekEnterExit \/ OnWindowOrderChange
  <2>1. PICK kinds \in SUBSET {"changed", "hidden", "destroyed", "barCreated", "barDestroyed", "peek", "reorder"} : NextEvent(kinds)
    BY <1>3 DEF OnWindowStateChange, WindowRemove, OnTaskbarCreateDestroy, OnAeroPeekEnterExit, OnWindowOrderChange
  <2> QED
    BY <2>1 DEF NextEvent
<1>4. CASE OnPowerBroadcast
  BY <1>4 DEF OnPowerBroadcast, NextSent
<1>5. CASE OnDisplayChange \/ OnRequestAttributeRefresh \/ OnApplyColorPreview
  <2>1. (\E kinds \in SUBSET {"displayChange", "requestRefresh", "preview"} : NextSent(kinds)) /\ UNCHANGED posted
    BY <1>5 DEF OnDisplayChange, OnRequestAttributeRefresh, OnApplyColorPreview
  <2> QED
    BY <2>1 DEF NextSent
<1>6. CASE OnSettingChangeSent
  <2>1. [kind |-> "settingChange"] \in PostedMessage /\ posted \in Seq(PostedMessage)
    BY DEF PostedMessage, TypeOK, DesktopTypeOK
  <2>2. posted' = posted \o <<[kind |-> "settingChange"]>>
    BY <1>6, <2>1, AppendIsConcat DEF OnSettingChangeSent
  <2> QED
    BY <1>6, <2>2 DEF OnSettingChangeSent, NextSent
<1>7. CASE OnSystemSettingsChange
  BY <1>7 DEF OnSystemSettingsChange, NextPosted, MainLoop
<1>8. CASE OnTaskViewVisibilityChange
  BY <1>8 DEF OnTaskViewVisibilityChange, NextPosted, MainLoop
<1>9. CASE OnFlyoutVisibilityChange
  BY <1>9 DEF OnFlyoutVisibilityChange, NextPosted, MainLoop
<1> QED
  BY <1>1, <1>2, <1>3, <1>4, <1>5, <1>6, <1>7, <1>8, <1>9 DEF Handle

(* Each of them: nothing has been said and nothing has happened; or what   *)
(* has happened has been said; or the worker has taken a message.          *)
LEMMA PowerSteps ==
  ASSUME TypeOK, Next, ~OnPowerBroadcast
  PROVE  \/ UNCHANGED saver /\ Still(sent, sent', Power)
         \/ LastIsIn(sent', Power, {[kind |-> "power", on |-> saver']}) /\ On(sent', Power)
<1>1. sent \in Seq(SentMessage) /\ saver \in BOOLEAN
  BY DEF TypeOK, DesktopTypeOK
<1>2. \A e : e.kind # "power" => e \notin Power
  BY DEF Power
<1>3. CASE Resume \/ Handle \/ Call \/ TimePasses
  <2>1. UNCHANGED saver
    BY <1>3, WorkerLeavesWorld DEF world
  <2>2. Still(sent, sent', Power)
    BY <1>1, <1>2, <1>3, WorkerQueues, StillFew
  <2> QED
    BY <2>1, <2>2
<1>4. CASE ToggleBatterySaver
  <2> DEFINE e == [kind |-> "power", on |-> saver']
  <2>1. e \in SentMessage /\ e \in Power
    BY <1>1, <1>4, MessageTypes DEF ToggleBatterySaver, Power
  <2>2. sent' = sent \o <<e>>
    BY <1>4 DEF ToggleBatterySaver, Send, Queue
  <2> HIDE DEF e
  <2>3. LastIsIn(sent', Power, {e}) /\ On(sent', Power)
    BY <1>1, <2>1, <2>2, LastQueued
  <2> QED
    BY <2>3 DEF e
<1>5. CASE Environment /\ ~ToggleBatterySaver
  <2>1. UNCHANGED saver /\ (UNCHANGED sent \/ \E e \in SentMessage : e.kind # "power" /\ sent' = sent \o <<e>>)
    <3>1. ASSUME NEW w \in Windows, OfWindow(w) PROVE UNCHANGED <<saver, sent>>
      BY <3>1, WindowQueues
    <3>2. CASE \E w \in Windows : OfWindow(w)
      BY <3>1, <3>2
    <3>3. CASE \/ ChangeWorkArea \/ (\E mode \in PickedModes : PreviewFromOutside(mode)) \/ (\E b \in Bars : RepaintTaskbar(b))
               \/ ExplorerReady
      <4>1. UNCHANGED saver
        BY <3>3 DEF ChangeWorkArea, PreviewFromOutside, RepaintTaskbar, ExplorerReady, world
      <4>2. \E e \in SentMessage : e.kind # "power" /\ sent' = sent \o <<e>>
        BY <3>3, MessageTypes, DesktopAssumption DEF ChangeWorkArea, PreviewFromOutside, RepaintTaskbar, ExplorerReady, Send, Queue
      <4> QED
        BY <4>1, <4>2
    <3>4. CASE \/ \E m \in Monitors, b \in Bars \cup {NoBar} : ChangeDisplays(m, b)
               \/ \E b \in Bars, ready \in BOOLEAN : ExplorerStarts(b, ready)
      <4>1. UNCHANGED saver /\ sent' = sent \o <<[kind |-> "displayChange"]>>
        BY <3>4 DEF ChangeDisplays, ExplorerStarts, Queue
      <4> QED
        BY <4>1, MessageTypes
    <3>5. CASE \/ \E f \in Flyouts : \/ \E m \in Monitors : OpenFlyout(f, m)
                                     \/ \E w \in present \cup {NoWindow} : CloseFlyout(f, w)
               \/ \E on \in BOOLEAN : SwitchTaskView(on) \/ AeroPeek(on)
               \/ ExplorerDies
      BY <3>5 DEF OpenFlyout, CloseFlyout, SwitchTaskView, AeroPeek, ExplorerDies, RaiseEvents, world
    <3> QED
      BY <1>5, <3>2, <3>3, <3>4, <3>5 DEF Environment, OfWindow
  <2>2. Still(sent, sent', Power)
    BY <1>1, <1>2, <2>1, StillFew
  <2> QED
    BY <2>1, <2>2
<1> QED
  BY <1>3, <1>4, <1>5 DEF Next

LEMMA ViewSteps ==
  ASSUME TypeOK, Next, ~OnTaskViewVisibilityChange
  PROVE  \/ UNCHANGED taskView /\ Still(posted, posted', View)
         \/ LastIsIn(posted', View, {[kind |-> "taskView", on |-> taskView']}) /\ On(posted', View)
<1>1. posted \in Seq(PostedMessage) /\ taskView \in BOOLEAN
  BY DEF TypeOK, DesktopTypeOK
<1>2. (\A e : e.kind # "taskView" => e \notin View) /\ [kind |-> "settingChange"] \in PostedMessage
  BY DEF View, PostedMessage
<1>3. CASE Resume \/ Handle \/ Call \/ TimePasses
  <2>1. UNCHANGED taskView
    BY <1>3, WorkerLeavesWorld DEF world
  <2>2. Still(posted, posted', View)
    BY <1>1, <1>2, <1>3, WorkerQueues, StillFew
  <2> QED
    BY <2>1, <2>2
<1>4. ASSUME NEW on \in BOOLEAN, SwitchTaskView(on)
      PROVE  LastIsIn(posted', View, {[kind |-> "taskView", on |-> taskView']}) /\ On(posted', View)
  <2> DEFINE e == [kind |-> "taskView", on |-> on]
  <2>1. e \in PostedMessage /\ e \in View
    BY MessageTypes DEF View
  <2>2. posted' = posted \o <<e>> /\ taskView' = on
    BY <1>4 DEF SwitchTaskView, Queue
  <2> HIDE DEF e
  <2>3. LastIsIn(posted', View, {e}) /\ On(posted', View)
    BY <1>1, <2>1, <2>2, LastQueued
  <2> QED
    BY <2>2, <2>3 DEF e
<1>5. ASSUME NEW f \in Flyouts, \/ \E m \in Monitors : OpenFlyout(f, m)
                                \/ \E w \in present \cup {NoWindow} : CloseFlyout(f, w)
      PROVE  UNCHANGED taskView /\ Still(posted, posted', View)
  <2>1. UNCHANGED taskView /\ \E on \in BOOLEAN : posted' = posted \o <<[kind |-> "flyout", flyout |-> f, on |-> on]>>
    BY <1>5 DEF OpenFlyout, CloseFlyout, Queue
  <2> QED
    BY <1>1, <1>2, <2>1, MessageTypes, StillFew
<1>6. CASE \/ \E w \in Windows : OfWindow(w)
           \/ ToggleBatterySaver \/ (\E on \in BOOLEAN : AeroPeek(on))
           \/ (\E m \in Monitors, b \in Bars \cup {NoBar} : ChangeDisplays(m, b))
           \/ ChangeWorkArea \/ (\E mode \in PickedModes : PreviewFromOutside(mode)) \/ (\E b \in Bars : RepaintTaskbar(b))
           \/ ExplorerDies \/ (\E b \in Bars, ready \in BOOLEAN : ExplorerStarts(b, ready)) \/ ExplorerReady
  <2>1. UNCHANGED <<taskView, posted>>
    BY <1>6, WindowQueues DEF ToggleBatterySaver, AeroPeek, ChangeDisplays, ChangeWorkArea, PreviewFromOutside, RepaintTaskbar,
       ExplorerDies, ExplorerStarts, ExplorerReady, Send, RaiseEvents, world
  <2> QED
    BY <1>1, <2>1, StillFew
<1> QED
  BY <1>3, <1>4, <1>5, <1>6 DEF Next, Environment, OfWindow

(* The foreground window is a flyout exactly while one is opened.          *)
FrontInv ==
  /\ front \in present \cup {Flyout, NoWindow}
  /\ front = Flyout <=> open # {}
  /\ "find" \in open => IsWindows11

LEMMA FrontStep ==
  ASSUME TypeOK, FrontInv, [Next]_vars
  PROVE  FrontInv'
<1>1. Flyout \notin Windows /\ Flyout # NoWindow /\ NoWindow \notin Windows
  BY NamesAssumption
<1>2. present \subseteq Windows /\ front \in Windows \cup {Flyout, NoWindow} /\ open \subseteq Flyouts
  BY DEF TypeOK, DesktopTypeOK
<1>3. CASE UNCHANGED <<present, front, open>>
  BY <1>3 DEF FrontInv
<1>4. ASSUME NEW w \in Windows, OfWindow(w) PROVE FrontInv'
  <2>1. CASE \/ \E m \in Monitors, size \in {"max", "normal"} : PlaceWindow(w, m, size)
             \/ ShowWindow(w)
    BY <1>3, <2>1 DEF PlaceWindow, ShowWindow
  <2>2. CASE \E m \in Monitors : CreateWindow(w, m)
    BY <2>2 DEF FrontInv, CreateWindow
  <2>3. CASE MinimiseWindow(w) \/ HideWindow(w) \/ DestroyWindow(w)
    <3>1. front' = (IF front = w THEN NoWindow ELSE front) /\ UNCHANGED open
      BY <2>3 DEF MinimiseWindow, HideWindow, DestroyWindow, GoAway
    <3>2. present' = present \/ present' = present \ {w}
      BY <2>3 DEF MinimiseWindow, HideWindow, DestroyWindow
    <3> QED
      BY <1>1, <1>4, <3>1, <3>2 DEF FrontInv
  <2>4. CASE ActivateWindow(w)
    <3>1. open = {} /\ UNCHANGED <<open, present>> /\ front' = w /\ w \in present
      BY <2>4 DEF ActivateWindow
    <3> QED
      BY <1>1, <1>4, <3>1 DEF FrontInv
  <2> QED
    BY <1>4, <2>1, <2>2, <2>3, <2>4 DEF OfWindow
<1>5. ASSUME NEW f \in Flyouts, NEW m, OpenFlyout(f, m) PROVE FrontInv'
  BY <1>5 DEF FrontInv, OpenFlyout
<1>6. ASSUME NEW f \in Flyouts, NEW w \in present \cup {NoWindow}, CloseFlyout(f, w) PROVE FrontInv'
  <2>1. UNCHANGED present /\ open' = open \ {f} /\ f \in open /\ front' = IF open' = {} THEN w ELSE front
    BY <1>6 DEF CloseFlyout
  <2> QED
    BY <1>1, <1>2, <2>1 DEF FrontInv
<1>7. CASE Resume \/ Handle \/ Call \/ TimePasses \/ UNCHANGED vars
  BY <1>3, <1>7, WorkerLeavesWorld DEF world, vars, desktopVars
<1>8. CASE \/ ToggleBatterySaver \/ (\E on \in BOOLEAN : SwitchTaskView(on) \/ AeroPeek(on))
           \/ (\E m \in Monitors, b \in Bars \cup {NoBar} : ChangeDisplays(m, b))
           \/ ChangeWorkArea \/ (\E mode \in PickedModes : PreviewFromOutside(mode)) \/ (\E b \in Bars : RepaintTaskbar(b))
           \/ ExplorerDies \/ (\E b \in Bars, ready \in BOOLEAN : ExplorerStarts(b, ready)) \/ ExplorerReady
  BY <1>3, <1>8 DEF ToggleBatterySaver, SwitchTaskView, AeroPeek, ChangeDisplays, ChangeWorkArea, PreviewFromOutside, RepaintTaskbar,
     ExplorerDies, ExplorerStarts, ExplorerReady, world
<1> QED
  BY <1>4, <1>5, <1>6, <1>7, <1>8 DEF Next, Environment, OfWindow

LEMMA ForegroundSteps ==
  ASSUME TypeOK, FrontInv, Next, ~OnForegroundWindowChange
  PROVE  \/ UNCHANGED front /\ Still(events, events', Foreground)
         \/ LastIsIn(events', Foreground, {[kind |-> "foreground", win |-> front']}) /\ On(events', Foreground)
<1> DEFINE Told1 == LastIsIn(events', Foreground, {[kind |-> "foreground", win |-> front']}) /\ On(events', Foreground)
<1>1. events \in Seq(WinEvent) /\ front \in Windows \cup {Flyout, NoWindow}
  BY DEF TypeOK, DesktopTypeOK
<1>2. \A e : e.kind # "foreground" => e \notin Foreground
  BY DEF Foreground
<1>3. CASE Resume \/ Handle \/ Call \/ TimePasses
  <2>1. UNCHANGED front
    BY <1>3, WorkerLeavesWorld DEF world
  <2>2. Still(events, events', Foreground)
    BY <1>1, <1>2, <1>3, WorkerQueues, StillFew
  <2> QED
    BY <2>1, <2>2
<1>4. ASSUME NEW w \in Windows \cup {Flyout, NoWindow}, front' = w, events' = events \o <<[kind |-> "foreground", win |-> w]>>
      PROVE  Told1
  <2> DEFINE e == [kind |-> "foreground", win |-> w]
  <2>1. e \in WinEvent /\ e \in Foreground
    BY MessageTypes DEF Foreground
  <2> HIDE DEF e
  <2>2. LastIsIn(events', Foreground, {e}) /\ On(events', Foreground)
    BY <1>1, <1>4, <2>1, LastQueued DEF e
  <2> QED
    BY <1>4, <2>2 DEF e
<1>5. ASSUME NEW d \in WinEvent, NEW e \in WinEvent, d \in Foreground \/ e \in Foreground,
             d \in Foreground => d = [kind |-> "foreground", win |-> front'],
             e \in Foreground => e = [kind |-> "foreground", win |-> front'],
             events' = events \o <<d, e>>
      PROVE  Told1
  <2> DEFINE G == {[kind |-> "foreground", win |-> front']}
  <2>1. (d \in Foreground => d \in G) /\ (e \in Foreground => e \in G)
    BY <1>5
  <2> HIDE DEF G
  <2>2. <<d, e>> \in Seq(WinEvent)
    OBVIOUS
  <2>3. On(<<d, e>>, Foreground)
    BY <1>5, OnFew
  <2>4. LastIsIn(<<d, e>>, Foreground, G)
    BY <2>1, LastFew
  <2>5. LastIsIn(events', Foreground, G) /\ On(events', Foreground)
    BY <1>1, <1>5, <2>2, <2>3, <2>4, OnConcat, LastConcat
  <2> QED
    BY <2>5 DEF G
<1>6. ASSUME NEW e \in WinEvent, e.kind # "foreground", events' = events \o <<e>>
      PROVE  Still(events, events', Foreground)
  BY <1>1, <1>2, <1>6, StillFew
<1>7. ASSUME NEW w \in Windows, OfWindow(w)
      PROVE  (UNCHANGED front /\ Still(events, events', Foreground)) \/ Told1
  <2>1. CASE (\E m \in Monitors, size \in {"max", "normal"} : PlaceWindow(w, m, size))
             \/ ShowWindow(w) \/ (\E m \in Monitors : CreateWindow(w, m))
    <3>1. UNCHANGED front /\ events' = events \o <<[kind |-> "changed", win |-> w]>>
      BY <2>1 DEF PlaceWindow, ShowWindow, CreateWindow, RaiseEvents, Queue
    <3>2. [kind |-> "changed", win |-> w] \in WinEvent
      BY MessageTypes
    <3> QED
      BY <1>6, <3>1, <3>2
  <2>2. CASE MinimiseWindow(w) \/ HideWindow(w) \/ DestroyWindow(w)
    <3>1. PICK k \in {"hidden", "destroyed"} : GoAway(w, [kind |-> k, win |-> w])
      BY <2>2 DEF MinimiseWindow, HideWindow, DestroyWindow
    <3> DEFINE e == [kind |-> k, win |-> w]
               d == [kind |-> "foreground", win |-> NoWindow]
    <3>2. e \in WinEvent /\ e.kind # "foreground" /\ d \in WinEvent /\ d \in Foreground
      BY MessageTypes DEF Foreground
    <3>3. events' = events \o WentAway(w, e) /\ front' = IF front = w THEN NoWindow ELSE front
      BY <3>1, <3>2, GoAwayQueues
    <3>4. CASE front = w
      <4>1. events' = events \o <<e, d>> /\ d = [kind |-> "foreground", win |-> front'] /\ e \notin Foreground
        BY <1>2, <3>2, <3>3, <3>4 DEF WentAway
      <4> HIDE DEF e, d
      <4> QED
        BY <1>5, <3>2, <4>1
    <3>5. CASE front # w
      <4>1. events' = events \o <<e>> /\ UNCHANGED front
        BY <3>3, <3>5 DEF WentAway
      <4> HIDE DEF e
      <4> QED
        BY <1>6, <3>2, <4>1
    <3> QED
      BY <3>4, <3>5
  <2>3. CASE ActivateWindow(w)
    <3> DEFINE d == [kind |-> "foreground", win |-> w]
               e == [kind |-> "reorder", win |-> w]
    <3>1. front' = w /\ events' = events \o <<d, e>>
      BY <2>3 DEF ActivateWindow, RaiseEvents, Queue
    <3>2. d \in WinEvent /\ e \in WinEvent /\ d \in Foreground /\ e \notin Foreground /\ d = [kind |-> "foreground", win |-> front']
      BY <3>1, MessageTypes DEF Foreground
    <3> HIDE DEF d, e
    <3> QED
      BY <1>5, <3>1, <3>2
  <2> QED
    BY <1>7, <2>1, <2>2, <2>3 DEF OfWindow
<1>8. ASSUME NEW f \in Flyouts, NEW m, OpenFlyout(f, m)
      PROVE  (UNCHANGED front /\ Still(events, events', Foreground)) \/ Told1
  <2>1. front' = Flyout /\ events' = IF front = Flyout THEN events ELSE events \o <<[kind |-> "foreground", win |-> Flyout]>>
    BY <1>8 DEF OpenFlyout, Queue
  <2> QED
    BY <1>1, <1>4, <2>1, StillFew
<1>9. ASSUME NEW f \in Flyouts, NEW w \in present \cup {NoWindow}, CloseFlyout(f, w)
      PROVE  (UNCHANGED front /\ Still(events, events', Foreground)) \/ Told1
  <2>1. /\ front' = IF open' = {} THEN w ELSE front
        /\ events' = IF open' = {} THEN events \o <<[kind |-> "foreground", win |-> w]>> ELSE events
    BY <1>9 DEF CloseFlyout, Queue
  <2>2. w \in Windows \cup {NoWindow}
    BY <1>9 DEF TypeOK, DesktopTypeOK
  <2> QED
    BY <1>1, <1>4, <2>1, <2>2, StillFew
<1>10. CASE \/ \E on \in BOOLEAN : AeroPeek(on)
            \/ (\E m \in Monitors, b \in Bars \cup {NoBar} : ChangeDisplays(m, b))
            \/ ExplorerDies \/ (\E b \in Bars, ready \in BOOLEAN : ExplorerStarts(b, ready))
  <2>1. UNCHANGED front
    BY <1>10 DEF AeroPeek, ChangeDisplays, ExplorerDies, ExplorerStarts, world
  <2>2. \E e \in WinEvent : e.kind # "foreground" /\ events' = events \o <<e>>
    <3>1. CASE \E on \in BOOLEAN : AeroPeek(on)
      BY <3>1, MessageTypes DEF AeroPeek, RaiseEvents, Queue
    <3>2. ASSUME NEW b \in Bars, NEW k \in {"barCreated", "barDestroyed"}, events' = events \o <<[kind |-> k, bar |-> b]>>
          PROVE  \E e \in WinEvent : e.kind # "foreground" /\ events' = events \o <<e>>
      BY <3>2, MessageTypes
    <3>3. bars \in [Monitors -> Bars \cup {NoBar}] /\ Primary \in Monitors
      BY DesktopAssumption DEF TypeOK, DesktopTypeOK
    <3>4. CASE \E m \in Monitors, b \in Bars \cup {NoBar} : ChangeDisplays(m, b)
      BY <3>2, <3>3, <3>4 DEF ChangeDisplays, Queue
    <3>5. CASE ExplorerDies
      BY <3>2, <3>3, <3>5 DEF ExplorerDies, Queue
    <3>6. CASE \E b \in Bars, ready \in BOOLEAN : ExplorerStarts(b, ready)
      BY <3>2, <3>6 DEF ExplorerStarts, Queue
    <3> QED
      BY <1>10, <3>1, <3>4, <3>5, <3>6
  <2> QED
    BY <1>6, <2>1, <2>2
<1>11. CASE \/ ToggleBatterySaver \/ (\E on \in BOOLEAN : SwitchTaskView(on)) \/ ChangeWorkArea
            \/ (\E mode \in PickedModes : PreviewFromOutside(mode)) \/ (\E b \in Bars : RepaintTaskbar(b)) \/ ExplorerReady
  <2>1. UNCHANGED <<front, events>>
    BY <1>11 DEF ToggleBatterySaver, SwitchTaskView, ChangeWorkArea, PreviewFromOutside, RepaintTaskbar, ExplorerReady, Send, world
  <2> QED
    BY <1>1, <2>1, StillFew
<1> QED
  BY <1>3, <1>7, <1>8, <1>9, <1>10, <1>11, Zenon DEF Next, Environment, OfWindow

LEMMA FlyoutSteps ==
  ASSUME TypeOK, Next, NEW f \in Flyouts, ~(OnFlyoutVisibilityChange /\ Head(posted).flyout = f)
  PROVE  \/ (f \in open' <=> f \in open) /\ Still(posted, posted', OfFlyout(f))
         \/ LastIsIn(posted', OfFlyout(f), {[kind |-> "flyout", flyout |-> f, on |-> f \in open']}) /\ On(posted', OfFlyout(f))
<1>1. posted \in Seq(PostedMessage)
  BY DEF TypeOK, DesktopTypeOK
<1>2. (\A e : e.kind # "flyout" \/ e.flyout # f => e \notin OfFlyout(f)) /\ [kind |-> "settingChange"] \in PostedMessage
  BY DEF OfFlyout, PostedMessage
<1>3. CASE Resume \/ Handle \/ Call \/ TimePasses
  <2>1. UNCHANGED open
    BY <1>3, WorkerLeavesWorld DEF world
  <2>2. Still(posted, posted', OfFlyout(f))
    BY <1>1, <1>2, <1>3, WorkerQueues, StillFew
  <2> QED
    BY <2>1, <2>2
<1>4. ASSUME NEW g \in Flyouts, NEW on \in BOOLEAN, posted' = posted \o <<[kind |-> "flyout", flyout |-> g, on |-> on]>>,
             open' = IF on THEN open \cup {g} ELSE open \ {g}
      PROVE  \/ (f \in open' <=> f \in open) /\ Still(posted, posted', OfFlyout(f))
             \/ LastIsIn(posted', OfFlyout(f), {[kind |-> "flyout", flyout |-> f, on |-> f \in open']}) /\ On(posted', OfFlyout(f))
  <2> DEFINE e == [kind |-> "flyout", flyout |-> g, on |-> on]
  <2>1. e \in PostedMessage
    BY MessageTypes
  <2>2. CASE g # f
    <3>1. (f \in open' <=> f \in open) /\ e \notin OfFlyout(f)
      BY <1>2, <1>4, <2>2
    <3> HIDE DEF e
    <3>2. Still(posted, posted', OfFlyout(f))
      BY <1>1, <1>4, <2>1, <3>1, StillFew DEF e
    <3> QED
      BY <3>1, <3>2
  <2>3. CASE g = f
    <3>1. on = (f \in open')
      BY <1>4, <2>3
    <3>2. e = [kind |-> "flyout", flyout |-> f, on |-> f \in open'] /\ e \in OfFlyout(f) /\ posted' = posted \o <<e>>
      BY <1>4, <2>3, <3>1 DEF OfFlyout
    <3> HIDE DEF e
    <3>3. LastIsIn(posted', OfFlyout(f), {e}) /\ On(posted', OfFlyout(f))
      BY <1>1, <2>1, <3>2, LastQueued
    <3> QED
      BY <3>2, <3>3
  <2> QED
    BY <2>2, <2>3
<1>5. ASSUME NEW g \in Flyouts, \/ \E m \in Monitors : OpenFlyout(g, m)
                                \/ \E w \in present \cup {NoWindow} : CloseFlyout(g, w)
      PROVE  \E on \in BOOLEAN : /\ posted' = posted \o <<[kind |-> "flyout", flyout |-> g, on |-> on]>>
                                 /\ open' = IF on THEN open \cup {g} ELSE open \ {g}
  BY <1>5 DEF OpenFlyout, CloseFlyout, Queue
<1>6. CASE \E on \in BOOLEAN : SwitchTaskView(on)
  <2>1. UNCHANGED open /\ \E on \in BOOLEAN : posted' = posted \o <<[kind |-> "taskView", on |-> on]>>
    BY <1>6 DEF SwitchTaskView, Queue
  <2> QED
    BY <1>1, <1>2, <2>1, MessageTypes, StillFew
<1>7. CASE \/ \E w \in Windows : OfWindow(w)
           \/ ToggleBatterySaver \/ (\E on \in BOOLEAN : AeroPeek(on))
           \/ (\E m \in Monitors, b \in Bars \cup {NoBar} : ChangeDisplays(m, b))
           \/ ChangeWorkArea \/ (\E mode \in PickedModes : PreviewFromOutside(mode)) \/ (\E b \in Bars : RepaintTaskbar(b))
           \/ ExplorerDies \/ (\E b \in Bars, ready \in BOOLEAN : ExplorerStarts(b, ready)) \/ ExplorerReady
  <2>1. UNCHANGED <<open, posted>>
    BY <1>7, WindowQueues DEF ToggleBatterySaver, AeroPeek, ChangeDisplays, ChangeWorkArea, PreviewFromOutside, RepaintTaskbar,
       ExplorerDies, ExplorerStarts, ExplorerReady, Send, RaiseEvents, world
  <2> QED
    BY <1>1, <2>1, StillFew
<1> QED
  BY <1>3, <1>4, <1>5, <1>6, <1>7 DEF Next, Environment, OfWindow

-----------------------------------------------------------------------------
(* What the worker has recorded is what was said last, once the shell has  *)
(* answered.  Until it locates a flyout that is nowhere, and what has been *)
(* found opened still is, unless the worker will be told otherwise.        *)
PowerInv ==
  /\ LastIsIn(sent, Power, {[kind |-> "power", on |-> saver]})
  /\ Answered("power") /\ ~On(sent, Power) => shell.powerSaver = saver
ViewInv ==
  /\ LastIsIn(posted, View, {[kind |-> "taskView", on |-> taskView]})
  /\ Answered("taskView") /\ ~On(posted, View) => shell.taskView = taskView
ForegroundInv ==
  /\ LastIsIn(events, Foreground, {[kind |-> "foreground", win |-> front]})
  /\ Answered("taskView") /\ ~On(events, Foreground) => shell.foreground = front
FlyoutIsFollowed(f) ==
  /\ LastIsIn(posted, OfFlyout(f), {[kind |-> "flyout", flyout |-> f, on |-> f \in open]})
  /\ Answered(f) /\ ~On(posted, OfFlyout(f)) => (shell.where[f] # NoMonitor <=> f \in open)
Early(q) ==
  {f \in ResetFrames : \/ f.at \in {"clearing", "injecting", "arming", "coordinating"}
                       \/ f.at = "asking" /\ f.about \in UpTo(q)}
EarlyInv == \A f \in Flyouts : On(stack, Early(f)) => shell.where[f] = NoMonitor
Asking == {f \in ResetFrames : f.at = "asking"}
Tells(q) == IF q = "taskView" THEN View ELSE OfFlyout(q)
OpenedInv ==
  \A frame \in Asking :
    On(stack, {frame}) /\ ~On(posted, Tells(frame.about)) => (frame.opened <=> IsOpened(frame.about))
FollowInv ==
  /\ FrontInv /\ PowerInv /\ ViewInv /\ ForegroundInv
  /\ \A f \in Flyouts : FlyoutIsFollowed(f)
  /\ EarlyInv /\ OpenedInv

(* What a step records, unless it clears everything. *)
LEMMA ShellSteps ==
  ASSUME TypeOK, Next, \A manual, base : ~BeginReset(manual, base)
  PROVE  /\ shell'.powerSaver = shell.powerSaver \/ AskShell \/ OnPowerBroadcast
         /\ shell'.taskView = shell.taskView \/ RecordTaskView \/ OnTaskViewVisibilityChange
         /\ shell'.foreground = shell.foreground \/ RecordTaskView \/ OnForegroundWindowChange
         /\ \A f \in Flyouts : \/ shell'.where[f] = shell.where[f]
                               \/ LocateFlyout /\ Top.about = f
                               \/ OnFlyoutVisibilityChange /\ Head(posted).flyout = f
<1>1. shell \in ShellType
  BY DEF TypeOK, WorkerTypeOK
<1>2. CASE UNCHANGED shell
  BY <1>2
<1>3. CASE Resume \/ TimePasses \/ Environment
  <2>1. UNCHANGED shell \/ AskShell \/ RecordTaskView \/ LocateFlyout
    BY <1>3 DEF Resume, RefreshNext, RefreshLine, RefreshDone, InsertWindowDone, DetectTaskbar, InjectExplorerTAP, InsertTaskbars,
       InsertNextWindow, ApplyOrRetry, FinishReset, TimePasses, Environment, members
  <2>2. CASE AskShell
    BY <1>1, <2>2 DEF AskShell, ShellType
  <2>3. CASE RecordTaskView
    BY <1>1, <2>3 DEF RecordTaskView, ShellType
  <2>4. CASE LocateFlyout
    <3>1. PICK mon : shell' = shell \/ shell' = [shell EXCEPT !.where[Top.about] = mon]
      BY <2>4 DEF LocateFlyout
    <3> QED
      BY <1>1, <2>4, <3>1 DEF ShellType
  <2> QED
    BY <1>2, <2>1, <2>2, <2>3, <2>4
<1>4. CASE \/ OnWindowStateChange \/ WindowRemove \/ OnWindowOrderChange \/ OnSettingChangeSent \/ OnRequestAttributeRefresh
           \/ OnApplyColorPreview \/ (\E c \in Configs : ConfigurationChanged(c)) \/ (\E mode \in PickedModes : RemoveColorPreview(mode))
  BY <1>2, <1>4 DEF OnWindowStateChange, WindowRemove, OnWindowOrderChange, OnSettingChangeSent, OnRequestAttributeRefresh,
     OnApplyColorPreview, ConfigurationChanged, RemoveColorPreview
<1>5. CASE OnTaskbarCreateDestroy \/ OnDisplayChange \/ OnSystemSettingsChange \/ ManualReset
  BY <1>2, <1>5 DEF OnTaskbarCreateDestroy, OnDisplayChange, OnSystemSettingsChange, ManualReset, ResetState, members
<1>6. CASE OnAeroPeekEnterExit
  BY <1>1, <1>6 DEF OnAeroPeekEnterExit, ShellType
<1>7. CASE OnForegroundWindowChange
  BY <1>1, <1>7 DEF OnForegroundWindowChange, ShellType
<1>8. CASE OnPowerBroadcast
  BY <1>1, <1>8 DEF OnPowerBroadcast, ShellType
<1>9. CASE OnTaskViewVisibilityChange
  BY <1>1, <1>9 DEF OnTaskViewVisibilityChange, ShellType
<1>10. CASE OnFlyoutVisibilityChange
  <2>1. PICK mon : shell' = [shell EXCEPT !.where[Head(posted).flyout] = mon]
    BY <1>10 DEF OnFlyoutVisibilityChange
  <2> QED
    BY <1>1, <1>10, <2>1 DEF ShellType
<1> QED
  BY <1>3, <1>4, <1>5, <1>6, <1>7, <1>8, <1>9, <1>10 DEF Next, Handle, Call

LEMMA AnswerRecorded ==
  ASSUME TypeOK
  PROVE  /\ AskShell => shell'.powerSaver = saver'
         /\ RecordTaskView => /\ shell'.taskView = Top.opened /\ shell'.foreground = front'
                              /\ At("asking") /\ Top.about = "taskView" /\ UNCHANGED <<taskView, posted>>
         /\ LocateFlyout => /\ At("asking") /\ Top.about \in Flyouts /\ UNCHANGED <<open, posted>>
                            /\ shell'.where[Top.about] = IF Top.opened THEN MonitorOf(front) ELSE shell.where[Top.about]
<1>1. shell \in ShellType
  BY DEF TypeOK, WorkerTypeOK
<1>2. CASE AskShell
  BY <1>1, <1>2 DEF AskShell, RecordTaskView, LocateFlyout, At, desktopVars, world, ShellType
<1>3. CASE RecordTaskView
  <2>1. At("asking") /\ Top.about = "taskView" /\ UNCHANGED <<taskView, front, posted>>
        /\ shell' = [shell EXCEPT !.taskView = Top.opened, !.foreground = front]
    BY <1>3 DEF RecordTaskView, desktopVars, world, queues
  <2>2. ~AskShell /\ ~LocateFlyout
    BY <2>1 DEF AskShell, LocateFlyout, At, Flyouts
  <2> QED
    BY <1>1, <2>1, <2>2 DEF ShellType
<1>4. CASE LocateFlyout
  <2>1. At("asking") /\ Top.about \in Flyouts /\ UNCHANGED <<open, posted>>
        /\ shell' = IF Top.opened THEN [shell EXCEPT !.where[Top.about] = MonitorOf(front)] ELSE shell
    BY <1>4 DEF LocateFlyout, desktopVars, world, queues
  <2>2. ~AskShell /\ ~RecordTaskView
    BY <2>1 DEF AskShell, RecordTaskView, At, Flyouts
  <2>3. shell'.where[Top.about] = IF Top.opened THEN MonitorOf(front) ELSE shell.where[Top.about]
    BY <1>1, <2>1 DEF ShellType
  <2> QED
    BY <2>1, <2>2, <2>3
<1> QED
  BY <1>2, <1>3, <1>4

LEMMA AnsweredNotBegun ==
  ASSUME NEW q, Answered(q)'
  PROVE  \A manual, base : ~BeginReset(manual, base)
BY DEF Answered, Known, BeginReset

(* The frame of the question being answered. *)
LEMMA AnsweredFrame ==
  ASSUME TypeOK, OneReset, RecordTaskView \/ LocateFlyout
  PROVE  /\ Top \in Asking /\ Top.about \in Questions /\ Top.opened \in BOOLEAN
         /\ On(stack, {Top}) /\ \A f \in Flyouts : Top.about = f => On(stack, Early(f))
<1>1. ResetStep /\ Top.at = "asking"
  BY DEF ResetStep, RecordTaskView, LocateFlyout, At
<1>2. Top \in ResetFrames /\ Top.about \in Questions /\ Top.opened \in BOOLEAN
  BY <1>1, ResetOnTop, AskedFrames DEF ResetFrames, Questions, Flyouts
<1>3. PICK frame \in ResetFrames : frame = Top
  BY <1>2
<1>4. On(stack, {Top})
  <2>1. {frame} \in SUBSET ResetFrames
    OBVIOUS
  <2> QED
    BY <1>1, <1>3, <2>1, ReplacedFrame
<1>5. ASSUME NEW f \in Flyouts, Top.about = f PROVE On(stack, Early(f))
  <2>1. Early(f) \in SUBSET ResetFrames /\ Top \in Early(f)
    BY <1>1, <1>2, <1>5 DEF Early, UpTo
  <2> QED
    BY <1>1, <2>1, ReplacedFrame
<1> QED
  BY <1>1, <1>2, <1>4, <1>5 DEF Asking

LEMMA PowerStep ==
  ASSUME TypeOK, OneReset, PowerInv, Next
  PROVE  PowerInv'
<1>1. CASE OnPowerBroadcast
  <2>1. /\ sent \in Seq(SentMessage) /\ sent # <<>> /\ sent' = Tail(sent) /\ Head(sent).kind = "power" /\ UNCHANGED saver
        /\ shell'.powerSaver = Head(sent).on
    BY <1>1 DEF OnPowerBroadcast, NextSent, world, TypeOK, DesktopTypeOK, WorkerTypeOK, ShellType
  <2>2. Head(sent) \in SentMessage
    BY <2>1, HeadElements
  <2>3. Head(sent) \in Power
    BY <2>1, <2>2 DEF SentMessage, Power
  <2> DEFINE G == {[kind |-> "power", on |-> saver]}
  <2>4. LastIsIn(sent, Power, G) /\ (Head(sent) \in G => Head(sent).on = saver)
    BY DEF PowerInv
  <2> HIDE DEF G
  <2>5. LastIsIn(sent', Power, G) /\ (~On(sent', Power) => Head(sent) \in G)
    BY <2>1, <2>3, <2>4, LastHead
  <2> QED
    BY <2>1, <2>4, <2>5 DEF PowerInv, G, Power
<1>2. CASE ~OnPowerBroadcast
  <2>1. CASE UNCHANGED saver /\ Still(sent, sent', Power)
    <3>1. LastIsIn(sent', Power, {[kind |-> "power", on |-> saver']})
      BY <2>1 DEF PowerInv, Still
    <3>2. ASSUME Answered("power")', ~On(sent', Power) PROVE shell'.powerSaver = saver'
      <4>1. CASE AskShell
        BY <4>1, AnswerRecorded
      <4>2. CASE ~AskShell
        <5>1. Answered("power")
          BY <3>2, <4>2, AnsweredStep DEF Answers, Subjects
        <5>2. shell'.powerSaver = shell.powerSaver
          BY <1>2, <3>2, <4>2, AnsweredNotBegun, ShellSteps
        <5> QED
          BY <2>1, <3>2, <5>1, <5>2 DEF PowerInv, Still
      <4> QED
        BY <4>1, <4>2
    <3> QED
      BY <3>1, <3>2 DEF PowerInv, Power
  <2>2. CASE LastIsIn(sent', Power, {[kind |-> "power", on |-> saver']}) /\ On(sent', Power)
    BY <2>2 DEF PowerInv, Power
  <2> QED
    BY <1>2, <2>1, <2>2, PowerSteps
<1> QED
  BY <1>1, <1>2

LEMMA ViewStep ==
  ASSUME TypeOK, OneReset, ViewInv, OpenedInv, Next
  PROVE  ViewInv'
<1>1. CASE OnTaskViewVisibilityChange
  <2>1. /\ posted \in Seq(PostedMessage) /\ posted # <<>> /\ posted' = Tail(posted) /\ Head(posted).kind = "taskView" /\ UNCHANGED taskView
        /\ shell'.taskView = Head(posted).on
    BY <1>1 DEF OnTaskViewVisibilityChange, NextPosted, world, TypeOK, DesktopTypeOK, WorkerTypeOK, ShellType
  <2>2. Head(posted) \in PostedMessage
    BY <2>1, HeadElements
  <2>3. Head(posted) \in View
    BY <2>1, <2>2 DEF PostedMessage, View
  <2> DEFINE G == {[kind |-> "taskView", on |-> taskView]}
  <2>4. LastIsIn(posted, View, G) /\ (Head(posted) \in G => Head(posted).on = taskView)
    BY DEF ViewInv
  <2> HIDE DEF G
  <2>5. LastIsIn(posted', View, G) /\ (~On(posted', View) => Head(posted) \in G)
    BY <2>1, <2>3, <2>4, LastHead
  <2> QED
    BY <2>1, <2>4, <2>5 DEF ViewInv, G, View
<1>2. CASE ~OnTaskViewVisibilityChange
  <2>1. CASE UNCHANGED taskView /\ Still(posted, posted', View)
    <3>1. LastIsIn(posted', View, {[kind |-> "taskView", on |-> taskView']})
      BY <2>1 DEF ViewInv, Still
    <3>2. ASSUME Answered("taskView")', ~On(posted', View) PROVE shell'.taskView = taskView'
      <4>1. CASE RecordTaskView
        <5>1. /\ shell'.taskView = Top.opened /\ Top.about = "taskView" /\ UNCHANGED <<taskView, posted>>
              /\ Top \in Asking /\ Top.opened \in BOOLEAN /\ On(stack, {Top})
          BY <4>1, AnswerRecorded, AnsweredFrame
        <5>2. ~On(posted, Tells(Top.about))
          BY <3>2, <5>1 DEF Tells
        <5>3. Top.opened <=> IsOpened(Top.about)
          BY <5>1, <5>2 DEF OpenedInv
        <5>4. taskView \in BOOLEAN /\ (Top.opened <=> taskView)
          BY <5>1, <5>3 DEF IsOpened, TypeOK, DesktopTypeOK
        <5> QED
          BY <5>1, <5>4
      <4>2. CASE ~RecordTaskView
        <5>1. Answered("taskView")
          <6>1. ~Answers("taskView")
            BY <4>2, AnswerRecorded DEF Answers, Flyouts
          <6> QED
            BY <3>2, <6>1, AnsweredStep DEF Subjects, Questions
        <5>2. shell'.taskView = shell.taskView
          BY <1>2, <3>2, <4>2, AnsweredNotBegun, ShellSteps
        <5> QED
          BY <2>1, <3>2, <5>1, <5>2 DEF ViewInv, Still
      <4> QED
        BY <4>1, <4>2
    <3> QED
      BY <3>1, <3>2 DEF ViewInv, View
  <2>2. CASE LastIsIn(posted', View, {[kind |-> "taskView", on |-> taskView']}) /\ On(posted', View)
    BY <2>2 DEF ViewInv, View
  <2> QED
    BY <1>2, <2>1, <2>2, ViewSteps
<1> QED
  BY <1>1, <1>2

LEMMA ForegroundStep ==
  ASSUME TypeOK, OneReset, FrontInv, ForegroundInv, Next
  PROVE  ForegroundInv'
<1>1. CASE OnForegroundWindowChange
  <2>1. /\ events \in Seq(WinEvent) /\ events # <<>> /\ events' = Tail(events) /\ Head(events).kind = "foreground" /\ UNCHANGED front
        /\ shell'.foreground = IF Valid(Head(events).win) THEN Head(events).win ELSE NoWindow
    BY <1>1 DEF OnForegroundWindowChange, NextEvent, world, TypeOK, DesktopTypeOK, WorkerTypeOK, ShellType
  <2>2. Head(events) \in WinEvent
    BY <2>1, HeadElements
  <2>3. Head(events) \in Foreground
    BY <2>1, <2>2 DEF WinEvent, Foreground
  <2> DEFINE G == {[kind |-> "foreground", win |-> front]}
  <2>4. LastIsIn(events, Foreground, G) /\ (Head(events) \in G => Head(events).win = front)
    BY DEF ForegroundInv
  <2> HIDE DEF G
  <2>5. LastIsIn(events', Foreground, G) /\ (~On(events', Foreground) => Head(events) \in G)
    BY <2>1, <2>3, <2>4, LastHead
  <2>6. (IF Valid(front) THEN front ELSE NoWindow) = front
    BY DEF FrontInv, Valid
  <2>7. ~On(events', Foreground) => shell'.foreground = front
    BY <2>1, <2>4, <2>5, <2>6
  <2> QED
    BY <2>1, <2>5, <2>7 DEF ForegroundInv, G, Foreground
<1>2. CASE ~OnForegroundWindowChange
  <2>1. CASE UNCHANGED front /\ Still(events, events', Foreground)
    <3>1. LastIsIn(events', Foreground, {[kind |-> "foreground", win |-> front']})
      BY <2>1 DEF ForegroundInv, Still
    <3>2. ASSUME Answered("taskView")', ~On(events', Foreground) PROVE shell'.foreground = front'
      <4>1. CASE RecordTaskView
        BY <4>1, AnswerRecorded
      <4>2. CASE ~RecordTaskView
        <5>1. Answered("taskView")
          <6>1. ~Answers("taskView")
            BY <4>2, AnswerRecorded DEF Answers, Flyouts
          <6> QED
            BY <3>2, <6>1, AnsweredStep DEF Subjects, Questions
        <5>2. shell'.foreground = shell.foreground
          BY <1>2, <3>2, <4>2, AnsweredNotBegun, ShellSteps
        <5> QED
          BY <2>1, <3>2, <5>1, <5>2 DEF ForegroundInv, Still
      <4> QED
        BY <4>1, <4>2
    <3> QED
      BY <3>1, <3>2 DEF ForegroundInv, Foreground
  <2>2. CASE LastIsIn(events', Foreground, {[kind |-> "foreground", win |-> front']}) /\ On(events', Foreground)
    BY <2>2 DEF ForegroundInv, Foreground
  <2> QED
    BY <1>2, <2>1, <2>2, ForegroundSteps
<1> QED
  BY <1>1, <1>2

LEMMA FlyoutStep ==
  ASSUME TypeOK, OneReset, FrontInv, EarlyInv, OpenedInv, NEW f \in Flyouts, FlyoutIsFollowed(f), Next
  PROVE  FlyoutIsFollowed(f)'
<1>1. ASSUME f \in open PROVE MonitorOf(front) # NoMonitor
  BY <1>1, NamesAssumption DEF FrontInv, MonitorOf, TypeOK, DesktopTypeOK
<1>2. CASE OnFlyoutVisibilityChange /\ Head(posted).flyout = f
  <2>1. /\ posted \in Seq(PostedMessage) /\ posted # <<>> /\ posted' = Tail(posted) /\ Head(posted).kind = "flyout" /\ UNCHANGED open
        /\ shell'.where[f] = IF Head(posted).on THEN MonitorOf(front) ELSE NoMonitor
    BY <1>2 DEF OnFlyoutVisibilityChange, NextPosted, world, TypeOK, DesktopTypeOK, WorkerTypeOK, ShellType
  <2>2. Head(posted) \in PostedMessage
    BY <2>1, HeadElements
  <2>3. Head(posted) \in OfFlyout(f)
    BY <1>2, <2>1, <2>2 DEF PostedMessage, OfFlyout
  <2> DEFINE G == {[kind |-> "flyout", flyout |-> f, on |-> f \in open]}
  <2>4. LastIsIn(posted, OfFlyout(f), G) /\ (Head(posted) \in G => Head(posted).on = (f \in open))
    BY DEF FlyoutIsFollowed
  <2> HIDE DEF G
  <2>5. LastIsIn(posted', OfFlyout(f), G) /\ (~On(posted', OfFlyout(f)) => Head(posted) \in G)
    BY <2>1, <2>3, <2>4, LastHead
  <2>6. ~On(posted', OfFlyout(f)) => (shell'.where[f] # NoMonitor <=> f \in open)
    BY <1>1, <2>1, <2>4, <2>5
  <2> QED
    BY <2>1, <2>5, <2>6 DEF FlyoutIsFollowed, G, OfFlyout
<1>3. CASE ~(OnFlyoutVisibilityChange /\ Head(posted).flyout = f)
  <2>1. CASE (f \in open' <=> f \in open) /\ Still(posted, posted', OfFlyout(f))
    <3>1. LastIsIn(posted', OfFlyout(f), {[kind |-> "flyout", flyout |-> f, on |-> f \in open']})
      <4>1. [kind |-> "flyout", flyout |-> f, on |-> f \in open'] = [kind |-> "flyout", flyout |-> f, on |-> f \in open]
        BY <2>1
      <4> QED
        BY <2>1, <4>1 DEF FlyoutIsFollowed, Still
    <3>2. ASSUME Answered(f)', ~On(posted', OfFlyout(f)) PROVE shell'.where[f] # NoMonitor <=> f \in open'
      <4>1. CASE LocateFlyout /\ Top.about = f
        <5>1. /\ shell'.where[f] = IF Top.opened THEN MonitorOf(front) ELSE shell.where[f]
              /\ Top \in Asking /\ On(stack, {Top}) /\ On(stack, Early(f)) /\ UNCHANGED <<open, posted>>
          BY <4>1, AnswerRecorded, AnsweredFrame
        <5>2. ~On(posted, Tells(Top.about))
          BY <3>2, <4>1, <5>1 DEF Tells, Flyouts
        <5>3. Top.opened <=> IsOpened(f)
          BY <4>1, <5>1, <5>2 DEF OpenedInv
        <5>4. Top.opened <=> f \in open
          BY <5>3 DEF IsOpened, FrontInv, Flyouts
        <5>5. shell.where[f] = NoMonitor
          BY <5>1 DEF EarlyInv
        <5> QED
          BY <1>1, <2>1, <5>1, <5>4, <5>5
      <4>2. CASE ~(LocateFlyout /\ Top.about = f)
        <5>1. Answered(f)
          <6>1. ~Answers(f)
            BY <4>2, AnswerRecorded DEF Answers, Flyouts
          <6> QED
            BY <3>2, <6>1, AnsweredStep DEF Subjects, Questions
        <5>2. shell'.where[f] = shell.where[f]
          BY <1>3, <3>2, <4>2, AnsweredNotBegun, ShellSteps
        <5> QED
          BY <2>1, <3>2, <5>1, <5>2 DEF FlyoutIsFollowed, Still
      <4> QED
        BY <4>1, <4>2
    <3> QED
      BY <3>1, <3>2 DEF FlyoutIsFollowed, OfFlyout
  <2>2. CASE /\ LastIsIn(posted', OfFlyout(f), {[kind |-> "flyout", flyout |-> f, on |-> f \in open']})
             /\ On(posted', OfFlyout(f))
    BY <2>2 DEF FlyoutIsFollowed, OfFlyout
  <2> QED
    BY <1>3, <2>1, <2>2, FlyoutSteps
<1> QED
  BY <1>2, <1>3

(* Messages are posted: they are not handled while a reset is in progress. *)
LEMMA PostedOnEmptyStack ==
  ASSUME OnFlyoutVisibilityChange \/ OnTaskViewVisibilityChange, NEW F
  PROVE  ~On(stack, F)
BY OnFew DEF OnFlyoutVisibilityChange, OnTaskViewVisibilityChange, NextPosted, MainLoop

LEMMA EarlyStep ==
  ASSUME TypeOK, OneReset, EarlyInv, Next
  PROVE  EarlyInv'
<1>1. ASSUME NEW manual, NEW base, BeginReset(manual, base) PROVE EarlyInv'
  BY <1>1 DEF EarlyInv, BeginReset, ClearedShell
<1>2. ASSUME NEW f \in Flyouts, On(stack', Early(f)), \A manual, base : ~BeginReset(manual, base)
      PROVE  shell'.where[f] = NoMonitor
  <2> DEFINE F == Early(f)
  <2>1. F \in SUBSET ResetFrames /\ On(stack', F)
    BY <1>2 DEF Early
  <2>2. \A g \in Frame : g \in F <=> \/ g.at \in {"clearing", "injecting", "arming", "coordinating"}
                                     \/ g.at = "asking" /\ g.about \in UpTo(f)
    BY DEF Early, ResetFrames, ResetPlaces
  <2>3. On(stack, F) => shell.where[f] = NoMonitor
    BY DEF EarlyInv
  <2> HIDE DEF F
  <2>4. CASE ~ResetStep
    <3>1. On(stack, F) /\ ~LocateFlyout
      BY <1>2, <2>1, <2>4, ResetFramesStand DEF ResetStep
    <3> QED
      BY <1>2, <2>3, <3>1, PostedOnEmptyStack, ShellSteps
  <2>5. CASE ResetStep
    <3>1. Top \in Frame /\ (On(stack, F) <=> Top \in F) /\ stack # <<>>
      BY <2>1, <2>5, ReplacedFrame, ResetOnTop
    <3>2. Top \in F /\ ~(LocateFlyout /\ Top.about = f)
      <4>1. CASE Top.at \in {"clearing", "injecting", "arming"} /\ UNCHANGED stack
        BY <2>2, <3>1, <4>1 DEF LocateFlyout, At
      <4>2. ASSUME NEW g \in Frame, g \in F, Follows(g) PROVE Top \in F /\ ~(LocateFlyout /\ Top.about = f)
        <5>1. \/ g.at \in {"clearing", "injecting", "arming", "coordinating"}
              \/ g.at = "asking" /\ g.about \in UpTo(f)
          BY <2>2, <4>2
        <5>2. CASE Top.at \in {"clearing", "injecting", "arming", "coordinating"}
          BY <2>2, <3>1, <5>2 DEF LocateFlyout, At
        <5>3. ASSUME NEW q \in {"start", "search", "find"}, NEW p \in {"taskView", "start", "search"},
                     g = Ask(Top.manual, q), Top.at = "asking", Top.about = p,
                     <<p, q>> \in {<<"taskView", "start">>, <<"start", "search">>, <<"search", "find">>}
              PROVE  Top \in F /\ Top.about # f
          <6>1. q \in UpTo(f)
            BY <5>1, <5>3, AskedFrames
          <6>2. p \in UpTo(f) /\ p # f
            BY <5>3, <6>1 DEF UpTo, Questions, Flyouts
          <6> QED
            BY <2>2, <3>1, <5>3, <6>2
        <5>4. ~(Top.at = "enumerating" \/ (Top.at = "asking" /\ Top.about = "find"))
          BY <4>2, <5>1 DEF Follows
        <5> QED
          BY <4>2, <5>2, <5>3, <5>4 DEF Follows
      <4> QED
        BY <1>2, <2>1, <2>5, <4>1, <4>2, ResetMoves
    <3> QED
      BY <1>2, <2>3, <3>1, <3>2, PostedOnEmptyStack, ShellSteps
  <2> QED
    BY <2>4, <2>5
<1>3. CASE \A manual, base : ~BeginReset(manual, base)
  BY <1>2, <1>3 DEF EarlyInv, Early
<1> QED
  BY <1>1, <1>3

(* An answer on its way stays right unless a notification is, too. *)
LEMMA OpenedStep ==
  ASSUME TypeOK, OneReset, FrontInv, OpenedInv, Next
  PROVE  OpenedInv'
<1> SUFFICES ASSUME NEW frame \in Asking, On(stack', {frame}), ~On(posted', Tells(frame.about))
             PROVE  frame.opened <=> IsOpened(frame.about)'
  BY DEF OpenedInv, Asking, Tells, View, OfFlyout
<1> DEFINE F == {frame}
<1>1. /\ F \in SUBSET ResetFrames /\ frame \in Frame /\ frame.at = "asking" /\ On(stack', F)
      /\ \A f \in F : f.at # "clearing"
  BY DEF Asking, ResetFrames
<1>2. frame.about \in Questions
  BY <1>1, AskedFrames DEF Questions, Flyouts
<1>3. CASE On(stack, F)
  <2>1. /\ (IsOpened(frame.about)' <=> IsOpened(frame.about))
        /\ Still(posted, posted', Tells(frame.about))
    <3>1. CASE frame.about = "taskView"
      BY <1>3, <3>1, PostedOnEmptyStack, ViewSteps DEF IsOpened, Tells
    <3>2. CASE frame.about \in Flyouts
      <4>1. frame.about # "taskView"
        BY <3>2 DEF Flyouts
      <4> QED
        BY <1>3, <3>2, <4>1, PostedOnEmptyStack, FlyoutSteps DEF IsOpened, Tells
    <3> QED
      BY <1>2, <3>1, <3>2 DEF Questions
  <2> QED
    BY <1>3, <2>1 DEF OpenedInv, Still
<1>4. CASE ~On(stack, F)
  <2> HIDE DEF F
  <2>1. ResetStep
    BY <1>1, <1>4, ResetStands
  <2>2. ~BeginReset(Top.manual, Tail(stack))
    BY <1>1, <2>1, BeginFrames, ResetOnTop DEF TypeOK, WorkerTypeOK
  <2>3. PICK f \in Frame : f \in F /\ Follows(f)
    BY <1>1, <1>4, <2>1, <2>2, ResetMoves
  <2>4. f = frame
    BY <2>3 DEF F
  <2>5. PICK q : f = Ask(Top.manual, q)
    BY <1>1, <2>3, <2>4 DEF Follows
  <2>6. UNCHANGED world
    BY <2>1, WorkerLeavesWorld DEF ResetStep, Resume
  <2>7. IsOpened(q)' <=> IsOpened(q)
    BY <2>6 DEF world, IsOpened
  <2> QED
    BY <2>4, <2>5, <2>7, AskedFrames
<1> QED
  BY <1>3, <1>4

LEMMA FollowStep == TypeOK /\ OneReset /\ FollowInv /\ [Next]_vars => FollowInv'
<1>1. ASSUME TypeOK, OneReset, FollowInv, Next PROVE FollowInv'
  <2>1. FrontInv'
    BY <1>1, FrontStep DEF FollowInv
  <2>2. PowerInv' /\ ViewInv' /\ ForegroundInv'
    BY <1>1, PowerStep, ViewStep, ForegroundStep DEF FollowInv
  <2>3. \A f \in Flyouts : FlyoutIsFollowed(f)'
    BY <1>1, FlyoutStep DEF FollowInv
  <2>4. EarlyInv' /\ OpenedInv'
    BY <1>1, EarlyStep, OpenedStep DEF FollowInv
  <2> QED
    BY <2>1, <2>2, <2>3, <2>4 DEF FollowInv
<1>2. ASSUME FollowInv, UNCHANGED vars PROVE FollowInv'
  <2>1. UNCHANGED <<sent, events, posted, saver, taskView, front, open, present, shell, taskbars, stack>>
    BY <1>2 DEF vars, desktopVars, world, queues, members
  <2> QED
    BY <1>2, <2>1 DEF FollowInv, FrontInv, PowerInv, ViewInv, ForegroundInv, FlyoutIsFollowed, EarlyInv, OpenedInv,
       Answered, Known, IsOpened
<1> QED
  BY <1>1, <1>2

LEMMA FollowInit == Init => FollowInv
<1> SUFFICES ASSUME Init PROVE FollowInv
  OBVIOUS
<1>1. \A q : ~Answered(q)
  BY DEF Init, Known, Answered
<1>2. sent = <<>> /\ events = <<>> /\ posted = <<>>
  BY DEF Init, DesktopInit
<1>3. \A K, G : LastIsIn(<<>>, K, G)
  BY DEF LastIsIn
<1>4. FrontInv
  BY NamesAssumption DEF Init, DesktopInit, FrontInv
<1>5. PowerInv /\ ViewInv /\ ForegroundInv /\ \A f \in Flyouts : FlyoutIsFollowed(f)
  BY <1>1, <1>2, <1>3 DEF PowerInv, ViewInv, ForegroundInv, FlyoutIsFollowed
<1>6. EarlyInv
  BY DEF EarlyInv, Init, ClearedShell
<1>7. ASSUME NEW frame \in Asking PROVE ~On(stack, {frame})
  <2>1. frame.at = "asking"
    BY DEF Asking
  <2> DEFINE first == [at |-> "clearing", manual |-> TRUE, waits |-> FALSE]
  <2>2. stack = <<first>> /\ first \notin {frame}
    BY <2>1 DEF Init
  <2> HIDE DEF first
  <2> QED
    BY <2>2, OnFew
<1> QED
  BY <1>4, <1>5, <1>6, <1>7 DEF FollowInv, OpenedInv

(* Once everything is handled, the worker's idea of the shell is right:    *)
(* what ResetState asked and what notifications said agree, also when the  *)
(* shell changed between a question and its answer being recorded.         *)
THEOREM ShellFollowed == Spec => []ShellIsFollowed
<1>1. FollowInv => ShellIsFollowed
  <2> SUFFICES ASSUME FollowInv, Quiet, Known # {}
               PROVE  /\ shell.powerSaver = saver /\ shell.taskView = taskView /\ shell.foreground = front
                      /\ \A f \in Flyouts : shell.where[f] # NoMonitor <=> f \in open
    BY DEF ShellIsFollowed
  <2>1. \A F : ~On(stack, F) /\ ~On(sent, F) /\ ~On(events, F) /\ ~On(posted, F)
    BY OnFew DEF Quiet
  <2>2. \A q : Answered(q)
    BY <2>1 DEF Answered
  <2> QED
    BY <2>1, <2>2 DEF FollowInv, PowerInv, ViewInv, ForegroundInv, FlyoutIsFollowed
<1>2. TypeOK /\ OneReset /\ FollowInv /\ [Next]_vars => FollowInv'
  BY FollowStep
<1> HIDE DEF FollowInv, OneReset, TypeOK, ShellIsFollowed
<1> QED
  BY <1>1, <1>2, TypeCorrect, ResetsDoNotNest, FollowInit, PTL DEF Spec
=============================================================================
