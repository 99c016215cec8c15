----------------------- MODULE TaskbarWorkerAppearance -----------------------
(***************************************************************************)
(* The proof that the taskbars end up with the appearance the state asks   *)
(* for: of the discipline of the call stack, of what the taskbars show     *)
(* during a reset, and of what is demanded of a taskbar while windows,     *)
(* events and refreshes are on their way.                                  *)
(***************************************************************************)
EXTENDS TaskbarWorkerSafety, WellFoundedInduction

-----------------------------------------------------------------------------
(* Sequences again: if some element of s is in K, one is the last.         *)
LEMMA Least ==
  ASSUME NEW T, T \subseteq Nat, T # {}
  PROVE  \E x \in T : \A y \in T : x <= y
<1> DEFINE R == OpToRel(<, Nat)
<1>1. IsWellFoundedOn(R, Nat)
  BY NatLessThanWellFounded
<1>2. \A x, y \in Nat : x < y => <<x, y>> \in R
  BY DEF OpToRel
<1> HIDE DEF R
<1>3. PICK x \in T : \A y \in T : ~(<<y, x>> \in R)
  BY <1>1, WFMin
<1>4. ASSUME NEW y \in T PROVE x <= y
  <2>1. x \in Nat /\ y \in Nat /\ ~(<<y, x>> \in R)
    BY <1>3
  <2>2. ~(y < x)
    BY <1>2, <2>1
  <2> QED
    BY <2>1, <2>2
<1> QED
  BY <1>4

(* If K occurs and the last element of K is in G, G occurs.                *)
LEMMA LastOn ==
  ASSUME NEW S, NEW s \in Seq(S), NEW K, NEW G, On(s, K), LastIsIn(s, K, G)
  PROVE  On(s, G)
<1>1. DOMAIN s = 1 .. Len(s) /\ Len(s) \in Nat
  BY LenProperties
<1> DEFINE T == {n \in Nat : \E i \in 1 .. Len(s) : s[i] \in K /\ n = Len(s) - i}
<1>2. ASSUME NEW i \in 1 .. Len(s), s[i] \in K PROVE Len(s) - i \in T
  BY <1>1, <1>2
<1>3. T \subseteq Nat /\ T # {}
  BY <1>1, <1>2 DEF On
<1>4. PICK x \in T : \A y \in T : x <= y
  BY <1>3, Least
<1>5. PICK i \in 1 .. Len(s) : s[i] \in K /\ x = Len(s) - i
  OBVIOUS
<1> HIDE DEF T
<1>6. ASSUME NEW j \in 1 .. Len(s), j > i, s[j] \in K PROVE FALSE
  <2>1. x <= Len(s) - j
    BY <1>2, <1>4, <1>6
  <2> QED
    BY <1>1, <1>5, <1>6, <2>1
<1> QED
  BY <1>1, <1>5, <1>6 DEF On, LastIsIn

-----------------------------------------------------------------------------
(* The call stack.  Hot are the frames of a reset that has not applied its *)
(* effects yet; Quietly those of InsertWindow when it was not asked to     *)
(* refresh the taskbars, which only a reset does; Repainting(m) those of a *)
(* refresh that has still to come to monitor m.                            *)
Hot == {f \in ResetFrames : f.at # "applying"}
Quietly == {f \in Frame : f.at = "inserting" /\ f.refresh = FALSE}
Repainting(m) == {f \in Frame : f.at \in {"refreshing", "attribute", "line"} /\ m \in f.todo}

(* Below the calls of InsertWindow that do not refresh is a reset.         *)
Covered(s) == LastIsIn(s, Quietly \cup Hot, Hot)

(* Which frames are hot, and which return quietly.                         *)
LEMMA FrameKinds ==
  ASSUME NEW f \in Frame
  PROVE  /\ f.at \in {"clearing", "injecting", "arming", "coordinating", "asking", "enumerating"} => f \in Hot
         /\ f \in Hot => f.at \in {"clearing", "injecting", "arming", "coordinating", "asking", "enumerating"} /\ f \in ResetFrames /\ f \notin Quietly
         /\ f.at \in {"refreshing", "attribute", "line", "applying"} => f \notin Quietly \cup Hot
         /\ f.at = "inserting" => f \notin Hot
BY DEF Hot, Quietly, ResetFrames, ResetPlaces

(* Calls are made and return one at a time: r is s with some frames pushed *)
(* on it.                                                                  *)
Pushed(r, s) == \E p \in Seq(Frame) : Covered(p) /\ r = p \o s

(* A step that leaves the stack alone, pushes one frame, or pushes         *)
(* refreshes.                                                              *)
LEMMA PushedNone ==
  ASSUME NEW s \in Seq(Frame)
  PROVE  Pushed(s, s)
<1>1. <<>> \in Seq(Frame) /\ <<>> \o s = s
  BY ConcatEmptySeq
<1>2. Covered(<<>>)
  BY LastFew DEF Covered
<1> QED
  BY <1>1, <1>2 DEF Pushed

LEMMA PushedOne ==
  ASSUME NEW s \in Seq(Frame), NEW f \in Frame, f \notin Quietly
  PROVE  Pushed(<<f>> \o s, s) /\ Covered(<<f>>)
<1>1. <<f>> \in Seq(Frame)
  OBVIOUS
<1>2. Covered(<<f>>)
  BY LastFew DEF Covered
<1> QED
  BY <1>1, <1>2 DEF Pushed

LEMMA PushedRefreshes ==
  ASSUME NEW s \in Seq(Frame), NEW todo \in SUBSET Monitors
  PROVE  /\ Pushed(Refreshing(todo) \o s, s)
         /\ \A m \in todo : On(Refreshing(todo) \o s, Repainting(m))
<1> DEFINE f == [at |-> "refreshing", todo |-> todo]
<1>1. f \in Frame /\ f \notin Quietly /\ f.at = "refreshing" /\ f.todo = todo
  BY DEF Frame, Quietly
<1>2. CASE todo = {}
  <2>1. Refreshing(todo) \o s = s
    BY <1>2, ConcatEmptySeq DEF Refreshing
  <2> QED
    BY <1>2, <2>1, PushedNone
<1>3. CASE todo # {}
  <2>1. Refreshing(todo) = <<f>>
    BY <1>3 DEF Refreshing
  <2> HIDE DEF f
  <2>2. \A m \in todo : f \in Repainting(m)
    BY <1>1 DEF Repainting
  <2> QED
    BY <1>1, <2>1, <2>2, PushedOne, PushFrame
<1> QED
  BY <1>2, <1>3

(* Whatever is pushed on a frame of a reset is covered by it.              *)
LEMMA PushedOnHot ==
  ASSUME NEW s \in Seq(Frame), NEW f \in Hot, NEW p \in Seq(Frame)
  PROVE  Pushed(p \o (<<f>> \o s), s) /\ On(p \o (<<f>> \o s), Hot)
<1>1. f \in Frame /\ f \notin Quietly
  BY DEF Hot, ResetFrames, Quietly, ResetPlaces
<1>2. <<f>> \in Seq(Frame) /\ Covered(<<f>>) /\ On(<<f>>, Quietly \cup Hot)
  <2>1. <<f>> \in Seq(Frame)
    BY <1>1
  <2>2. Covered(<<f>>)
    BY <1>1, PushedOne
  <2>3. On(<<f>>, Quietly \cup Hot)
    BY OnFew
  <2> QED
    BY <2>1, <2>2, <2>3
<1>3. Covered(p \o <<f>>)
  <2> DEFINE K == Quietly \cup Hot
             t == <<f>>
  <2>1. t \in Seq(Frame) /\ LastIsIn(t, K, Hot) /\ On(t, K)
    BY <1>2 DEF Covered
  <2> HIDE DEF K, t
  <2>2. LastIsIn(p \o t, K, Hot)
    BY <2>1, LastConcat
  <2> QED
    BY <2>2 DEF Covered, K, t
<1>4. p \o <<f>> \in Seq(Frame) /\ (p \o <<f>>) \o s = p \o (<<f>> \o s)
  BY <1>2, ConcatProperties, ConcatAssociative
<1>5. <<f>> \o s \in Seq(Frame) /\ On(<<f>> \o s, Hot)
  BY <1>1, PushType, PushFrame
<1>6. On(p \o (<<f>> \o s), Hot)
  BY <1>5, OnConcat
<1>7. Pushed(p \o (<<f>> \o s), s)
  BY <1>3, <1>4 DEF Pushed
<1> QED
  BY <1>6, <1>7

(* A reset that begins pushes a hot frame, and no taskbar is known.        *)
LEMMA PushedBegun ==
  ASSUME NEW base \in Seq(Frame), NEW manual \in BOOLEAN, service \in BOOLEAN, BeginReset(manual, base)
  PROVE  Pushed(stack', base) /\ On(stack', Hot) /\ Known' = {}
<1> DEFINE f == [at |-> "clearing", manual |-> manual, waits |-> service]
<1>1. f \in Frame /\ f.at = "clearing"
  BY DEF Frame
<1>2. stack' = <<f>> \o base /\ Known' = {}
  BY DEF BeginReset, Known
<1> HIDE DEF f
<1>3. f \in Hot
  BY <1>1, FrameKinds
<1>4. Pushed(stack', base)
  BY <1>1, <1>2, <1>3, FrameKinds, PushedOne
<1>5. On(stack', Hot)
  BY <1>1, <1>2, <1>3, PushFrame
<1> QED
  BY <1>2, <1>4, <1>5

(* InsertWindow that refreshes never returns quietly.                      *)
LEMMA PushedInsert ==
  ASSUME TypeOK, NEW w \in Windows \cup {Flyout}, NEW base \in Seq(Frame), InsertWindow(w, TRUE, base)
  PROVE  Pushed(stack', base)
<1>1. CASE w = Flyout
  BY <1>1, PushedNone DEF InsertWindow
<1>2. CASE w # Flyout /\ LooksLikeUserWindow(w)
  <2> DEFINE f == [at |-> "inserting", win |-> w, refresh |-> TRUE]
  <2>1. f \in Frame /\ f \notin Quietly
    BY <1>2 DEF Frame, Quietly
  <2>2. stack' = <<f>> \o base
    BY <1>2 DEF InsertWindow
  <2> HIDE DEF f
  <2> QED
    BY <2>1, <2>2, PushedOne
<1>3. CASE w # Flyout /\ ~LooksLikeUserWindow(w)
  <2>1. PICK todo \in SUBSET Monitors : stack' = Refreshing(todo) \o base
    BY <1>3 DEF InsertWindow, UpdateTracked, Known
  <2> QED
    BY <2>1, PushedRefreshes
<1> QED
  BY <1>1, <1>2, <1>3

(* In ResetState, InsertWindow leaves the frame of the reset below.        *)
LEMMA PushedQuietly ==
  ASSUME TypeOK, NEW w \in Windows, NEW s \in Seq(Frame), NEW f \in Hot, InsertWindow(w, FALSE, <<f>> \o s)
  PROVE  Pushed(stack', s) /\ On(stack', Hot)
<1>1. CASE LooksLikeUserWindow(w)
  <2> DEFINE g == [at |-> "inserting", win |-> w, refresh |-> FALSE]
  <2>1. g \in Frame
    BY DEF Frame
  <2>2. stack' = <<g>> \o (<<f>> \o s)
    BY <1>1, NamesAssumption DEF InsertWindow
  <2> HIDE DEF g
  <2>3. <<g>> \in Seq(Frame)
    BY <2>1
  <2> QED
    BY <2>2, <2>3, PushedOnHot
<1>2. CASE ~LooksLikeUserWindow(w)
  <2>1. stack' = Refreshing({}) \o (<<f>> \o s)
    BY <1>2, NamesAssumption DEF InsertWindow, UpdateTracked
  <2>2. Refreshing({}) = <<>> /\ <<>> \in Seq(Frame)
    BY DEF Refreshing
  <2>3. Pushed(<<>> \o (<<f>> \o s), s) /\ On(<<>> \o (<<f>> \o s), Hot)
    BY <2>2, PushedOnHot
  <2> QED
    BY <2>1, <2>2, <2>3
<1> QED
  BY <1>1, <1>2

(* A call or a handler, and what it pushes.                                *)
LEMMA HandlerStacks ==
  ASSUME TypeOK, Handle \/ Call
  PROVE  \/ Notes
         \/ ~resetting /\ (\E manual \in BOOLEAN : BeginReset(manual, stack))
         \/ OnWindowStateChange
         \/ \E todo \in SUBSET Monitors : stack' = Refreshing(todo) \o stack
<1>1. stack \in Seq(Frame) /\ Known \in SUBSET Monitors
  BY DEF TypeOK, WorkerTypeOK, Known
<1>2. Refreshing({}) \o stack = stack
  BY <1>1, ConcatEmptySeq DEF Refreshing
<1>3. CASE OnDisplayChange \/ OnSystemSettingsChange \/ ManualReset
  BY <1>3, ResetStateCases DEF OnDisplayChange, OnSystemSettingsChange, ManualReset
<1>4. CASE OnTaskbarCreateDestroy
  BY <1>2, <1>4, ResetStateCases DEF OnTaskbarCreateDestroy, members
<1>5. CASE OnSettingChangeSent \/ OnRequestAttributeRefresh
  BY <1>2, <1>5 DEF OnSettingChangeSent, OnRequestAttributeRefresh, NoReset
<1>6. CASE WindowRemove
  BY <1>1, <1>6 DEF WindowRemove, RemoveWindow
<1>7. CASE \/ OnAeroPeekEnterExit \/ OnPowerBroadcast \/ OnApplyColorPreview \/ OnTaskViewVisibilityChange
           \/ (\E c \in Configs : ConfigurationChanged(c)) \/ (\E mode \in PickedModes : RemoveColorPreview(mode))
  BY <1>1, <1>7 DEF OnAeroPeekEnterExit, OnPowerBroadcast, OnApplyColorPreview,
     OnTaskViewVisibilityChange, ConfigurationChanged, RemoveColorPreview, RefreshAllAttributes
<1>8. CASE OnForegroundWindowChange
  BY <1>1, <1>8 DEF OnForegroundWindowChange
<1>9. CASE OnWindowOrderChange
  BY <1>1, <1>9 DEF OnWindowOrderChange
<1>10. CASE OnFlyoutVisibilityChange
  BY <1>1, <1>10 DEF OnFlyoutVisibilityChange
<1> QED
  BY <1>3, <1>4, <1>5, <1>6, <1>7, <1>8, <1>9, <1>10 DEF Handle, Call

(* A step of the reset in progress: its frame is still hot, or it has      *)
(* applied its effects, or it has ended.                                   *)
LEMMA ResetStacks ==
  ASSUME TypeOK, OneReset, ResetStep
  PROVE  /\ stack # <<>> /\ (Pushed(stack', stack) \/ Pushed(stack', Tail(stack)))
         /\ \/ On(stack', Hot)
            \/ (DetectTaskbar \/ FinishReset) /\ UNCHANGED <<taskbars, tracked>> /\ stack' = Tail(stack)
            \/ ApplyOrRetry /\ \A m \in Known : On(stack', Repainting(m))
            \/ (DetectTaskbar \/ InjectExplorerTAP \/ InsertTaskbars) /\ UNCHANGED <<taskbars, tracked, stack>>
<1>1. /\ stack \in Seq(Frame) /\ stack # <<>> /\ Tail(stack) \in Seq(Frame)
      /\ Top \in Frame /\ Top.manual \in BOOLEAN /\ service \in BOOLEAN /\ Known \in SUBSET Monitors
  BY ResetOnTop DEF TypeOK, WorkerTypeOK, Known
<1>2. ASSUME NEW f \in Frame, f.at \in {"clearing", "injecting", "arming", "coordinating", "asking", "enumerating"}, stack' = <<f>> \o Tail(stack)
      PROVE  Pushed(stack', Tail(stack)) /\ On(stack', Hot)
  BY <1>1, <1>2, FrameKinds, PushedOne, PushFrame
<1>3. CASE (DetectTaskbar \/ InjectExplorerTAP \/ InsertTaskbars) /\ UNCHANGED <<taskbars, tracked, reentered, stack>>
  BY <1>1, <1>3, PushedNone
<1>4. CASE (DetectTaskbar \/ FinishReset) /\ UNCHANGED <<taskbars, tracked>> /\ stack' = Tail(stack)
  BY <1>1, <1>4, PushedNone
<1>5. CASE /\ [at |-> "injecting", manual |-> Top.manual, main |-> bars[Primary]] \in Frame
           /\ stack' = <<[at |-> "injecting", manual |-> Top.manual, main |-> bars[Primary]]>> \o Tail(stack)
  <2> DEFINE f == [at |-> "injecting", manual |-> Top.manual, main |-> bars[Primary]]
  <2>1. f \in Frame /\ f.at = "injecting" /\ stack' = <<f>> \o Tail(stack)
    BY <1>5
  <2> HIDE DEF f
  <2> QED
    BY <1>1, <1>2, <2>1
<1>6. CASE \/ Becomes("coordinating") \/ Becomes("asking") \/ Becomes("enumerating")
           \/ \E f \in Frame : f.at = "arming" /\ stack' = <<f>> \o Tail(stack)
  BY <1>1, <1>2, <1>6 DEF Becomes
<1>7. CASE InsertNextWindow /\ \E f \in Frame : f.at = "enumerating" /\ InsertWindow(NextWindow(Top.last), FALSE, <<f>> \o Tail(stack))
  <2>1. NextWindow(Top.last) \in Windows
    BY <1>7, NextWindowType DEF InsertNextWindow, TypeOK
  <2> QED
    BY <1>1, <1>7, <2>1, FrameKinds, PushedQuietly
<1>8. CASE BeginReset(Top.manual, Tail(stack))
  BY <1>1, <1>8, PushedBegun
<1>9. CASE ApplyOrRetry /\ ~reentered
  <2> DEFINE f == [at |-> "applying", manual |-> Top.manual]
             r == Refreshing(Known)
  <2>1. f \in Frame /\ f.at = "applying"
    BY <1>1 DEF Frame
  <2>2. stack' = r \o (<<f>> \o Tail(stack))
    BY <1>9 DEF ApplyOrRetry, RefreshAllAttributes
  <2> HIDE DEF f
  <2>3. <<f>> \in Seq(Frame) /\ f \notin Quietly \cup Hot /\ Covered(<<f>>)
    <3>1. f \notin Quietly \cup Hot
      BY <2>1, FrameKinds
    <3>2. <<f>> \in Seq(Frame)
      BY <2>1
    <3> QED
      BY <1>1, <2>1, <3>1, <3>2, PushedOne
  <2>4. Pushed(r \o <<f>>, <<f>>)
    BY <1>1, <2>3, PushedRefreshes
  <2>5. PICK p \in Seq(Frame) : Covered(p) /\ r \o <<f>> = p \o <<f>>
    BY <2>4 DEF Pushed
  <2>6. Covered(r \o <<f>>)
    <3> DEFINE t == <<f>>
               K == Quietly \cup Hot
    <3>1. t \in Seq(Frame) /\ LastIsIn(t, K, Hot) /\ LastIsIn(p, K, Hot) /\ r \o t = p \o t
      BY <2>3, <2>5 DEF Covered
    <3> HIDE DEF t, K, r
    <3>2. LastIsIn(p \o t, K, Hot)
      BY <3>1, LastConcat
    <3>3. LastIsIn(r \o t, K, Hot)
      BY <3>1, <3>2
    <3> QED
      BY <3>3 DEF Covered, t, K
  <2>7. r \in Seq(Frame)
    <3>1. CASE Known = {}
      <4>1. r = <<>>
        BY <3>1 DEF Refreshing
      <4> QED
        BY <4>1
    <3>2. CASE Known # {}
      <4>1. r = <<[at |-> "refreshing", todo |-> Known]>>
        BY <3>2 DEF Refreshing
      <4>2. [at |-> "refreshing", todo |-> Known] \in Frame
        BY <1>1 DEF Frame
      <4> QED
        BY <4>1, <4>2
    <3> QED
      BY <3>1, <3>2
  <2> HIDE DEF r
  <2>8. r \o <<f>> \in Seq(Frame) /\ (r \o <<f>>) \o Tail(stack) = r \o (<<f>> \o Tail(stack))
    BY <1>1, <2>3, <2>7, ConcatProperties, ConcatAssociative
  <2>9. Pushed(stack', Tail(stack))
    BY <2>2, <2>6, <2>8 DEF Pushed
  <2>10. \A m \in Known : On(stack', Repainting(m))
    <3>1. <<f>> \o Tail(stack) \in Seq(Frame)
      BY <1>1, <2>1, PushType
    <3> QED
      BY <1>1, <2>2, <3>1, PushedRefreshes DEF r
  <2> QED
    BY <1>1, <1>9, <2>9, <2>10
<1> QED
  BY <1>3, <1>4, <1>5, <1>6, <1>7, <1>8, <1>9, ResetFrameSteps

(* Calls are made and return one at a time.                                *)
LEMMA StackSteps ==
  ASSUME TypeOK, OneReset, Next
  PROVE  Pushed(stack', stack) \/ (stack # <<>> /\ Pushed(stack', Tail(stack)))
<1>1. stack \in Seq(Frame) /\ service \in BOOLEAN
  BY DEF TypeOK, WorkerTypeOK
<1>2. CASE RefreshNext \/ RefreshLine \/ RefreshDone \/ InsertWindowDone
  <2>1. stack # <<>> /\ Top \in Frame /\ Tail(stack) \in Seq(Frame)
    BY <1>1, <1>2, TopType DEF RefreshNext, RefreshLine, RefreshDone, InsertWindowDone, At
  <2>2. ASSUME NEW f \in Frame, f.at \in {"attribute", "line"}, stack' = <<f>> \o Tail(stack)
        PROVE  Pushed(stack', Tail(stack))
    BY <2>1, <2>2, FrameKinds, PushedOne
  <2>3. ASSUME NEW todo \in SUBSET Monitors, stack' = Refreshing(todo) \o Tail(stack)
        PROVE  Pushed(stack', Tail(stack))
    BY <2>1, <2>3, PushedRefreshes
  <2>4. CASE RefreshNext
    <3>1. Top.todo \subseteq Monitors
      BY <2>1, <2>4, FrameFields DEF RefreshNext, At
    <3>2. PICK m \in Top.todo :
            IF m \in Known
            THEN RefreshAttribute(m, Top.todo \ {m}, Tail(stack))
            ELSE stack' = Refreshing(Top.todo \ {m}) \o Tail(stack)
      BY <2>4 DEF RefreshNext
    <3>3. CASE m \in Known
      <4>1. taskbars[m] \in Bars /\ GetConfig(m) \in Looks
        BY <3>1, <3>3, GetConfigType DEF Known, TypeOK, WorkerTypeOK
      <4>2. PICK waits \in BOOLEAN :
              stack' = <<[at |-> "attribute", todo |-> Top.todo \ {m}, mon |-> m, bar |-> taskbars[m],
                          look |-> GetConfig(m), waits |-> waits]>> \o Tail(stack)
        BY <3>2, <3>3 DEF RefreshAttribute
      <4> DEFINE f == [at |-> "attribute", todo |-> Top.todo \ {m}, mon |-> m, bar |-> taskbars[m],
                       look |-> GetConfig(m), waits |-> waits]
      <4>3. f \in Frame /\ f.at = "attribute"
        BY <3>1, <4>1 DEF Frame
      <4> HIDE DEF f
      <4> QED
        BY <2>1, <2>2, <4>2, <4>3 DEF f
    <3>4. CASE m \notin Known
      BY <2>1, <2>3, <3>1, <3>2, <3>4
    <3> QED
      BY <3>3, <3>4
  <2>5. CASE RefreshLine
    <3> DEFINE f == [at |-> "line", todo |-> Top.todo]
    <3>1. f \in Frame /\ f.at = "line"
      BY <2>1, <2>5, FrameFields DEF RefreshLine, At, Frame
    <3>2. stack' = <<f>> \o Tail(stack)
      BY <2>5 DEF RefreshLine
    <3> HIDE DEF f
    <3> QED
      BY <2>1, <2>2, <3>1, <3>2
  <2>6. CASE RefreshDone
    <3>1. Top.todo \subseteq Monitors
      BY <2>1, <2>6, FrameFields DEF RefreshDone, At
    <3> QED
      BY <2>1, <2>3, <2>6, <3>1 DEF RefreshDone
  <2>7. CASE InsertWindowDone
    <3>1. PICK todo \in SUBSET Monitors : stack' = Refreshing(todo) \o Tail(stack)
      BY <2>7 DEF InsertWindowDone, UpdateTracked, Known
    <3> QED
      BY <2>1, <2>3, <3>1
  <2> QED
    BY <1>2, <2>1, <2>4, <2>5, <2>6, <2>7
<1>3. CASE ResetStep
  BY <1>3, ResetStacks
<1>4. CASE OnWindowStateChange
  <2>1. Head(events).win \in Windows
    BY <1>4, NextEventType, EventFields DEF OnWindowStateChange, NextEvent, TypeOK
  <2> QED
    BY <1>1, <1>4, <2>1, PushedInsert, PushedNone DEF OnWindowStateChange
<1>5. CASE Handle \/ Call
  BY <1>1, <1>4, <1>5, HandlerStacks, PushedBegun, PushedRefreshes, PushedNone DEF Notes
<1>6. CASE TimePasses \/ Environment
  BY <1>1, <1>6, PushedNone DEF TimePasses, Environment
<1> QED
  BY <1>2, <1>3, <1>5, <1>6 DEF Next, Resume, ResetStep

(* Below every quiet InsertWindow there is a reset that has not applied    *)
(* its effects.                                                            *)
LEMMA CoveredStep ==
  ASSUME TypeOK, OneReset, Next, Covered(stack)
  PROVE  Covered(stack')
<1> DEFINE K == Quietly \cup Hot
<1>1. stack \in Seq(Frame) /\ LastIsIn(stack, K, Hot)
  BY DEF TypeOK, WorkerTypeOK, Covered
<1> HIDE DEF K
<1>2. ASSUME NEW s \in Seq(Frame), LastIsIn(s, K, Hot), Pushed(stack', s) PROVE Covered(stack')
  <2>1. PICK p \in Seq(Frame) : LastIsIn(p, K, Hot) /\ stack' = p \o s
    BY <1>2 DEF Pushed, Covered, K
  <2>2. LastIsIn(p \o s, K, Hot)
    BY <1>2, <2>1, LastConcat
  <2> QED
    BY <2>1, <2>2 DEF Covered, K
<1>3. CASE stack # <<>>
  <2>1. Tail(stack) \in Seq(Frame) /\ LastIsIn(Tail(stack), K, Hot)
    BY <1>1, <1>3, TopType, LastHead
  <2> QED
    BY <1>1, <1>2, <2>1, StackSteps
<1> QED
  BY <1>1, <1>2, <1>3, StackSteps

(* InsertWindow that was not asked to refresh returns to a reset.          *)
LEMMA QuietlyReturns ==
  ASSUME TypeOK, Covered(stack), stack # <<>>, Top \in Quietly
  PROVE  On(Tail(stack), Hot)
<1> DEFINE K == Quietly \cup Hot
<1>1. stack \in Seq(Frame) /\ LastIsIn(stack, K, Hot) /\ Top \in K /\ Top \notin Hot
  BY FrameKinds DEF TypeOK, WorkerTypeOK, Covered, Quietly
<1> HIDE DEF K
<1>2. Tail(stack) \in Seq(Frame) /\ LastIsIn(Tail(stack), K, Hot) /\ On(Tail(stack), K)
  BY <1>1, TopType, LastHead DEF Top
<1> QED
  BY <1>2, LastOn

-----------------------------------------------------------------------------
(* What the theorem asks of the instance.  No flyout opens; there is one   *)
(* taskbar, or no configuration has a rule for visible windows; and a      *)
(* normal appearance is always asked for: every time on a XAML taskbar,    *)
(* never where no look is normal.                                          *)
NoFlyouts == "flyout" \notin Inputs
OneTaskbar == "display" \notin Inputs
WithoutVisibleRules == \A c \in Configs, w \in Windows : c.visibleRule[w] = NoRule
NotNormal(look) == look # NoRule => look.accent # "normal"
NoNormalLooks ==
  \A c \in Configs :
    /\ \A mode \in Modes : NotNormal(c.look[mode])
    /\ \A w \in Windows : \A rule \in {c.maximisedRule[w], c.visibleRule[w]} \ {NoRule} :
         NotNormal(rule.look) /\ NotNormal(rule.inactive)
NormalIsSent == TaskbarKind = "XAML" \/ NoNormalLooks

(* The taskbars, and what is on screen before the first effect.            *)
Opening == {f \in ResetFrames : f.at \in {"clearing", "injecting", "arming"}}
Mainless == {f \in ResetFrames : f.at = "injecting" /\ f.main = NoBar}
Arming == {f \in ResetFrames : f.at = "arming"}
MainInv == bars[Primary] = NoBar => \A m \in Monitors : bars[m] = NoBar
SingleInv == OneTaskbar => \A m \in Monitors \ {Primary} : bars[m] = NoBar /\ taskbars[m] = NoBar
ApartInv ==
  \A m, n \in Monitors :
    /\ m # n /\ bars[m] = bars[n] => bars[m] = NoBar
    /\ m # n /\ taskbars[m] = taskbars[n] => taskbars[m] = NoBar
ServiceInv == service => TaskbarKind = "XAML"
BlankInv == On(stack, Opening) => Known = {}
Unserved == TaskbarKind = "XAML" /\ ~service /\ On(stack, Arming)
UnpaintedInv == On(stack, Mainless) \/ Unserved => \A m \in Monitors : bars[m] # NoBar => shown[m] = Stock
NormalInv ==
  TaskbarKind = "XAML" /\ ~service =>
    \A m \in Known : taskbars[m] \in normalTaskbars /\ taskbars[m] = bars[m] => shown[m] = Stock
UnaskedInv == NoFlyouts => \A f \in Flyouts : ~On(posted, OfFlyout(f))
ScreenInv == MainInv /\ SingleInv /\ ApartInv /\ ServiceInv /\ BlankInv /\ UnpaintedInv /\ NormalInv /\ UnaskedInv

(* A reset starts by forgetting the taskbars and the service.              *)
LEMMA BegunReset ==
  ASSUME NEW manual, NEW base, BeginReset(manual, base)
  PROVE  Known' = {} /\ (\A m \in Monitors : taskbars'[m] = NoBar) /\ service' = FALSE
BY DEF BeginReset, Known

(* What the worker does outside of those two steps of a reset.             *)
LEMMA WorkerData ==
  ASSUME TypeOK, Next, ~Environment, ~InsertTaskbars,
         (\A manual, base : ~BeginReset(manual, base)) \/ (resetting /\ ~ApplyOrRetry)
  PROVE  /\ UNCHANGED taskbars
         /\ UNCHANGED service \/ InjectExplorerTAP
         /\ UNCHANGED lastPid \/ DetectTaskbar
         /\ UNCHANGED <<shown, normalTaskbars>> \/ RefreshNext \/ OnRequestAttributeRefresh
<1>1. CASE RefreshNext \/ RefreshLine \/ RefreshDone \/ InsertWindowDone
  BY <1>1 DEF RefreshNext, RefreshLine, RefreshDone, InsertWindowDone, members, screen
<1>2. CASE \/ DetectTaskbar \/ InjectExplorerTAP \/ AskShell \/ RecordTaskView \/ LocateFlyout
           \/ InsertNextWindow \/ ApplyOrRetry \/ FinishReset
  BY <1>2 DEF DetectTaskbar, InjectExplorerTAP, AskShell, RecordTaskView, LocateFlyout,
     InsertNextWindow, ApplyOrRetry, FinishReset, screen
<1>3. CASE OnTaskbarCreateDestroy \/ OnDisplayChange \/ OnSystemSettingsChange \/ ManualReset
  BY <1>3 DEF OnTaskbarCreateDestroy, OnDisplayChange, OnSystemSettingsChange, ManualReset, ResetState, members, screen
<1>4. CASE \/ OnWindowStateChange \/ WindowRemove \/ OnAeroPeekEnterExit \/ OnForegroundWindowChange \/ OnWindowOrderChange
           \/ OnSettingChangeSent \/ OnPowerBroadcast \/ OnTaskViewVisibilityChange \/ OnFlyoutVisibilityChange
  BY <1>4 DEF OnWindowStateChange, WindowRemove, OnAeroPeekEnterExit, OnForegroundWindowChange, OnWindowOrderChange,
     OnSettingChangeSent, OnPowerBroadcast, OnTaskViewVisibilityChange, OnFlyoutVisibilityChange, NoReset, screen
<1>5. CASE OnRequestAttributeRefresh
  BY <1>5 DEF OnRequestAttributeRefresh
<1>6. CASE \/ OnApplyColorPreview \/ (\E c \in Configs : ConfigurationChanged(c))
           \/ (\E mode \in PickedModes : RemoveColorPreview(mode)) \/ TimePasses
  BY <1>6 DEF OnApplyColorPreview, ConfigurationChanged, RemoveColorPreview, TimePasses, screen
<1> QED
  BY <1>1, <1>2, <1>3, <1>4, <1>5, <1>6 DEF Next, Resume, Handle, Call

NewBar(b) == Unknown(b) /\ (b # NoBar => \A n \in Monitors : bars[n] # b)

(* The bars: as ExplorerDies, ExplorerStarts and ChangeDisplays leave them. *)
LEMMA BarsSteps ==
  ASSUME TypeOK, Next
  PROVE  \/ UNCHANGED bars
         \/ \A m \in Monitors : bars'[m] = NoBar
         \/ \E b \in Bars : NewBar(b) /\ bars' = [bars EXCEPT ![Primary] = b]
         \/ ~OneTaskbar /\ bars[Primary] # NoBar /\ \E m \in Monitors \ {Primary}, b \in Bars \cup {NoBar} :
              NewBar(b) /\ bars' = [bars EXCEPT ![m] = b]
<1>1. CASE Resume \/ Handle \/ Call \/ TimePasses
  BY <1>1, WorkerLeavesWorld DEF world
<1>2. ASSUME NEW w \in Windows, OfWindow(w) PROVE UNCHANGED bars
  BY <1>2, WindowQueues
<1>3. ASSUME NEW m \in Monitors, NEW b \in Bars \cup {NoBar}, Unknown(b), ChangeDisplays(m, b)
      PROVE  ~OneTaskbar /\ bars[Primary] # NoBar /\ m # Primary /\ NewBar(b) /\ bars' = [bars EXCEPT ![m] = b]
  BY <1>3 DEF ChangeDisplays, Change, OneTaskbar, NewBar, Fresh
<1>4. CASE ExplorerDies
  BY <1>4 DEF ExplorerDies
<1>5. ASSUME NEW b \in Bars, NEW ready \in BOOLEAN, Unknown(b), ExplorerStarts(b, ready) PROVE NewBar(b) /\ bars' = [bars EXCEPT ![Primary] = b]
  BY <1>5 DEF ExplorerStarts, NewBar, Fresh
<1>6. CASE \/ \E f \in Flyouts :
                \/ \E m \in Monitors : OpenFlyout(f, m)
                \/ \E w \in present \cup {NoWindow} : CloseFlyout(f, w)
           \/ ToggleBatterySaver \/ (\E on \in BOOLEAN : SwitchTaskView(on) \/ AeroPeek(on)) \/ ChangeWorkArea
           \/ (\E mode \in PickedModes : PreviewFromOutside(mode)) \/ (\E b \in Bars : RepaintTaskbar(b)) \/ ExplorerReady
  BY <1>6 DEF OpenFlyout, CloseFlyout, ToggleBatterySaver, SwitchTaskView, AeroPeek, ChangeWorkArea, PreviewFromOutside,
     RepaintTaskbar, ExplorerReady, world
<1>7. CASE Environment
  BY <1>2, <1>3, <1>4, <1>5, <1>6, <1>7, Zenon DEF Environment, OfWindow
<1> QED
  BY <1>1, <1>7 DEF Next

(* There is no taskbar on any monitor without one on the primary.          *)
LEMMA MainStep ==
  ASSUME TypeOK, MainInv, Next
  PROVE  MainInv'
<1>1. bars \in [Monitors -> Bars \cup {NoBar}] /\ Primary \in Monitors /\ NoBar \notin Bars
  BY DesktopAssumption DEF TypeOK, DesktopTypeOK
<1>2. CASE UNCHANGED bars \/ \A m \in Monitors : bars'[m] = NoBar
  BY <1>2 DEF MainInv
<1>3. CASE \E b \in Bars : bars' = [bars EXCEPT ![Primary] = b]
  BY <1>1, <1>3 DEF MainInv
<1>4. CASE bars[Primary] # NoBar /\ \E m \in Monitors \ {Primary}, b \in Bars \cup {NoBar} : bars' = [bars EXCEPT ![m] = b]
  BY <1>1, <1>4 DEF MainInv
<1> QED
  BY <1>2, <1>3, <1>4, BarsSteps

(* What InsertTaskbars leaves known.                                       *)
LEMMA FoundTaskbars ==
  ASSUME TypeOK, OneReset, InsertTaskbars
  PROVE  /\ UNCHANGED service
         /\ \/ UNCHANGED <<taskbars, tracked, normalTaskbars, stack>>
            \/ /\ taskbars' = [m \in Monitors |-> IF m = Primary /\ Top.main # bars[m] THEN NoBar ELSE bars[m]]
               /\ \E f \in Frame : f.at = "coordinating" /\ stack' = <<f>> \o Tail(stack)
<1>1. Top.manual \in BOOLEAN
  BY ResetOnTop DEF ResetStep
<1> DEFINE f == [at |-> "coordinating", manual |-> Top.manual]
<1>2. f \in Frame /\ f.at = "coordinating"
  BY <1>1 DEF Frame
<1>3. /\ UNCHANGED service
      /\ \/ UNCHANGED <<taskbars, tracked, normalTaskbars, stack>>
         \/ /\ taskbars' = [m \in Monitors |-> IF m = Primary /\ Top.main # bars[m] THEN NoBar ELSE bars[m]]
            /\ stack' = <<f>> \o Tail(stack)
  BY DEF InsertTaskbars, InsertTaskbar
<1> HIDE DEF f
<1> QED
  BY <1>2, <1>3

(* Without changes of the displays there is one taskbar.                   *)
LEMMA SingleStep ==
  ASSUME TypeOK, OneReset, SingleInv, Next
  PROVE  SingleInv'
<1> SUFFICES ASSUME OneTaskbar, NEW m \in Monitors \ {Primary} PROVE bars'[m] = NoBar /\ taskbars'[m] = NoBar
  BY DEF SingleInv, OneTaskbar
<1>1. bars[m] = NoBar /\ taskbars[m] = NoBar /\ bars \in [Monitors -> Bars \cup {NoBar}]
  BY DEF SingleInv, TypeOK, DesktopTypeOK
<1>2. bars'[m] = NoBar
  BY <1>1, BarsSteps
<1>3. taskbars'[m] = NoBar
  <2>1. CASE Environment
    BY <1>1, <2>1 DEF Environment, members
  <2>2. CASE InsertTaskbars
    BY <1>1, <2>2, FoundTaskbars
  <2>3. CASE \E manual, base : BeginReset(manual, base)
    BY <2>3, BegunReset
  <2> QED
    BY <1>1, <2>1, <2>2, <2>3, WorkerData
<1> QED
  BY <1>2, <1>3

(* A taskbar is of one monitor.                                            *)
LEMMA ApartStep ==
  ASSUME TypeOK, OneReset, MainInv, ApartInv, Next
  PROVE  ApartInv'
<1>1. /\ bars \in [Monitors -> Bars \cup {NoBar}] /\ Primary \in Monitors /\ NoBar \notin Bars
      /\ taskbars \in [Monitors -> Bars \cup {NoBar}]
  BY DesktopAssumption DEF TypeOK, DesktopTypeOK, WorkerTypeOK
<1> SUFFICES ASSUME NEW m \in Monitors, NEW n \in Monitors, m # n
             PROVE  (bars'[m] = bars'[n] => bars'[m] = NoBar) /\ (taskbars'[m] = taskbars'[n] => taskbars'[m] = NoBar)
  BY DEF ApartInv
<1>2. (bars[m] = bars[n] => bars[m] = NoBar) /\ (taskbars[m] = taskbars[n] => taskbars[m] = NoBar)
  BY DEF ApartInv
<1>3. bars'[m] = bars'[n] => bars'[m] = NoBar
  <2>1. ASSUME NEW k \in Monitors, NEW b \in Bars \cup {NoBar}, NewBar(b), bars' = [bars EXCEPT ![k] = b]
        PROVE  bars'[m] = bars'[n] => bars'[m] = NoBar
    BY <1>1, <1>2, <2>1 DEF NewBar
  <2> QED
    BY <1>1, <1>2, <2>1, BarsSteps
<1>4. taskbars'[m] = taskbars'[n] => taskbars'[m] = NoBar
  <2>1. CASE UNCHANGED taskbars
    BY <1>2, <2>1
  <2>2. CASE Environment
    BY <2>1, <2>2 DEF Environment, members
  <2>3. CASE InsertTaskbars
    <3>1. CASE taskbars' = [k \in Monitors |-> IF k = Primary /\ Top.main # bars[k] THEN NoBar ELSE bars[k]]
      BY <1>2, <3>1
    <3> QED
      BY <2>1, <2>3, <3>1, FoundTaskbars
  <2>4. CASE \E manual, base : BeginReset(manual, base)
    BY <2>4, BegunReset
  <2> QED
    BY <2>1, <2>2, <2>3, <2>4, WorkerData
<1> QED
  BY <1>3, <1>4

(* Only a XAML taskbar has the service.                                    *)
LEMMA ServiceStep ==
  ASSUME TypeOK, OneReset, ServiceInv, Next
  PROVE  ServiceInv'
<1>1. CASE Environment
  BY <1>1 DEF Environment, members, ServiceInv
<1>2. CASE InsertTaskbars
  BY <1>2, FoundTaskbars DEF ServiceInv
<1>3. CASE \E manual, base : BeginReset(manual, base)
  BY <1>3, BegunReset DEF ServiceInv
<1>4. CASE InjectExplorerTAP
  BY <1>4 DEF InjectExplorerTAP, ServiceInv
<1> QED
  BY <1>1, <1>2, <1>3, <1>4, WorkerData DEF ServiceInv

(* The frames of a reset that has not found the taskbars yet.              *)
LEMMA OpeningFrames ==
  /\ Opening \in SUBSET ResetFrames
  /\ Mainless \in SUBSET Opening /\ Arming \in SUBSET Opening
  /\ \A f \in Opening : f.at \in {"clearing", "injecting", "arming"}
  /\ \A f \in ResetFrames : f.at \in {"clearing", "injecting", "arming"} => f \in Opening
  /\ \A f \in Mainless : f.at = "injecting" /\ f.main = NoBar
  /\ \A f \in Arming : f.at = "arming"
BY DEF Opening, Mainless, Arming, ResetFrames, ResetPlaces

(* What paints the taskbars. *)
LEMMA ScreenSteps ==
  ASSUME TypeOK, Next, ~Environment
  PROVE  UNCHANGED bars /\ (UNCHANGED <<shown>> \/ RefreshNext \/ OnRequestAttributeRefresh)
<1>0. UNCHANGED bars
  BY WorkerLeavesWorld DEF Next, world
<1> SUFFICES UNCHANGED <<shown>> \/ RefreshNext \/ OnRequestAttributeRefresh
  BY <1>0
<1>1. CASE RefreshNext \/ RefreshLine \/ RefreshDone \/ InsertWindowDone
  BY <1>1 DEF RefreshNext, RefreshLine, RefreshDone, InsertWindowDone, screen
<1>2. CASE \/ DetectTaskbar \/ InjectExplorerTAP \/ InsertTaskbars \/ AskShell \/ RecordTaskView \/ LocateFlyout
           \/ InsertNextWindow \/ ApplyOrRetry \/ FinishReset
  BY <1>2 DEF DetectTaskbar, InjectExplorerTAP, InsertTaskbars, AskShell, RecordTaskView, LocateFlyout,
     InsertNextWindow, ApplyOrRetry, FinishReset, screen
<1>3. CASE OnTaskbarCreateDestroy \/ OnDisplayChange \/ OnSystemSettingsChange \/ ManualReset
  BY <1>3 DEF OnTaskbarCreateDestroy, OnDisplayChange, OnSystemSettingsChange, ManualReset, screen
<1>4. CASE \/ OnWindowStateChange \/ WindowRemove \/ OnAeroPeekEnterExit \/ OnForegroundWindowChange \/ OnWindowOrderChange
           \/ OnSettingChangeSent \/ OnPowerBroadcast \/ OnTaskViewVisibilityChange \/ OnFlyoutVisibilityChange
  BY <1>4 DEF OnWindowStateChange, WindowRemove, OnAeroPeekEnterExit, OnForegroundWindowChange, OnWindowOrderChange,
     OnSettingChangeSent, OnPowerBroadcast, OnTaskViewVisibilityChange, OnFlyoutVisibilityChange, NoReset, screen
<1>5. CASE \/ OnApplyColorPreview \/ (\E c \in Configs : ConfigurationChanged(c))
           \/ (\E mode \in PickedModes : RemoveColorPreview(mode)) \/ TimePasses
  BY <1>5 DEF OnApplyColorPreview, ConfigurationChanged, RemoveColorPreview, TimePasses, screen
<1> QED
  BY <1>1, <1>2, <1>3, <1>4, <1>5 DEF Next, Resume, Handle, Call

(* Only a reset that has just begun gets to these frames.                  *)
LEMMA OpeningSteps ==
  ASSUME TypeOK, OneReset, Next, NEW F \in SUBSET Opening, On(stack', F),
         (\A manual, base : ~BeginReset(manual, base)) \/ (\A f \in F : f.at # "clearing")
  PROVE  /\ (\A manual, base : ~BeginReset(manual, base)) => UNCHANGED taskbars
         /\ \/ On(stack, F)
            \/ /\ On(stack, Opening)
               /\ \E f \in F : \/ (DetectTaskbar /\ f.at = "injecting" /\ f.main = bars[Primary])
                              \/ (InjectExplorerTAP /\ f.at = "arming" /\ f.main = Top.main)
<1>1. F \in SUBSET ResetFrames /\ \A f \in F : f.at \in {"clearing", "injecting", "arming"} /\ f \in Frame
  BY OpeningFrames DEF ResetFrames
<1>2. CASE ResetStep
  <2>1. Top \in ResetFrames /\ (On(stack, Opening) <=> Top \in Opening)
    BY <1>2, ReplacedFrame, ResetOnTop, OpeningFrames DEF ResetFrames
  <2>2. CASE BeginReset(Top.manual, Tail(stack))
    <3>1. (\A f \in F : f.at # "clearing") => ~On(stack', F)
      BY <1>1, <1>2, <2>2, ResetOnTop, BeginFrames DEF TypeOK, WorkerTypeOK
    <3> QED
      BY <2>2, <3>1
  <2>3. CASE UNCHANGED <<taskbars, stack>>
    BY <2>3 DEF On
  <2>4. ASSUME NEW f \in F, Follows(f)
        PROVE  /\ UNCHANGED taskbars /\ On(stack, Opening)
               /\ \/ DetectTaskbar /\ f.at = "injecting" /\ f.main = bars[Primary]
                  \/ InjectExplorerTAP /\ f.at = "arming" /\ f.main = Top.main
    <3>1. f.at \in {"clearing", "injecting", "arming"} /\ \A q \in Questions : f # Ask(Top.manual, q)
      BY <1>1, <2>4 DEF Ask
    <3>2. /\ UNCHANGED taskbars /\ Top.at \in {"clearing", "injecting"}
          /\ \/ DetectTaskbar /\ f.at = "injecting" /\ f.main = bars[Primary]
             \/ InjectExplorerTAP /\ f.at = "arming" /\ f.main = Top.main
      BY <2>4, <3>1 DEF Follows, Questions, Flyouts
    <3> QED
      BY <2>1, <3>2, OpeningFrames
  <2> QED
    BY <1>1, <1>2, <2>2, <2>3, <2>4, ResetMoves
<1>3. CASE ~ResetStep
  <2>1. (\A manual, base : ~BeginReset(manual, base)) => UNCHANGED taskbars
    <3>1. CASE Environment
      BY <3>1 DEF Environment, members
    <3> QED
      BY <1>3, <3>1, WorkerData DEF ResetStep
  <2>2. (\A f \in F : f.at # "clearing") => On(stack, F)
    BY <1>1, <1>3, ResetStands
  <2>3. (\A manual, base : ~BeginReset(manual, base)) => On(stack, F)
    BY <1>1, <1>3, ResetFramesStand
  <2> QED
    BY <2>1, <2>2, <2>3
<1> QED
  BY <1>2, <1>3

(* While a reset looks for the taskbars none is known.                     *)
LEMMA BlankStep ==
  ASSUME TypeOK, OneReset, BlankInv, Next
  PROVE  BlankInv'
<1>1. CASE \E manual, base : BeginReset(manual, base)
  BY <1>1, BegunReset DEF BlankInv
<1>2. CASE \A manual, base : ~BeginReset(manual, base)
  <2>1. ASSUME On(stack', Opening) PROVE Known' = {}
    BY <1>2, <2>1, OpeningSteps DEF BlankInv, Known
  <2> QED
    BY <2>1 DEF BlankInv, Opening
<1> QED
  BY <1>1, <1>2

(* The service is asked for in InjectExplorerTAP only: not while armed.    *)
LEMMA ServiceKept ==
  ASSUME TypeOK, OneReset, Next, On(stack, Arming)
  PROVE  UNCHANGED service
<1>1. Arming \in SUBSET ResetFrames /\ \A f \in Arming : f.at = "arming"
  BY DEF Arming
<1>2. CASE Environment
  BY <1>2 DEF Environment, members
<1>3. CASE ResetStep
  <2>1. Top.at = "arming"
    BY <1>1, <1>3, ReplacedFrame
  <2>2. InsertTaskbars
    BY <1>3, <2>1 DEF ResetStep, DetectTaskbar, InjectExplorerTAP, AskShell, RecordTaskView, LocateFlyout,
       InsertNextWindow, ApplyOrRetry, FinishReset, At
  <2> QED
    BY <2>2 DEF InsertTaskbars
<1>4. CASE ~Environment /\ ~ResetStep
  <2>1. resetting /\ ~ApplyOrRetry
    BY <1>1, <1>4, OneResetParts, NoResetFrames DEF ResetFlags, ResetStep, TypeOK, WorkerTypeOK
  <2>2. UNCHANGED service
    BY <1>4, <2>1, WorkerData DEF ResetStep
  <2> QED
    BY <2>2
<1> QED
  BY <1>2, <1>3, <1>4

(* While nothing is known nothing is painted. *)
LEMMA UnpaintedStep ==
  ASSUME TypeOK, OneReset, MainInv, BlankInv, UnpaintedInv, Next
  PROVE  UnpaintedInv'
<1> DEFINE blank == On(stack, Mainless) \/ Unserved
<1>1. /\ Mainless \in SUBSET Opening /\ \A f \in Mainless : f.at = "injecting" /\ f.main = NoBar
      /\ Arming \in SUBSET Opening /\ \A f \in Arming : f.at = "arming"
  BY OpeningFrames
<1> SUFFICES ASSUME On(stack', Mainless) \/ (TaskbarKind = "XAML" /\ ~service' /\ On(stack', Arming)),
                    NEW m \in Monitors, bars'[m] # NoBar
             PROVE  shown'[m] = Stock
  BY DEF UnpaintedInv, Unserved, Mainless, Arming
<1>2. CASE blank
  <2>1. Known = {} /\ (bars[m] # NoBar => shown[m] = Stock)
    BY <1>1, <1>2 DEF BlankInv, UnpaintedInv, Unserved, On
  <2>2. CASE Environment
    BY <2>1, <2>2 DEF Environment, NewScreen
  <2>3. CASE RefreshNext
    BY <2>1, <2>3 DEF RefreshNext, screen, desktopVars
  <2>4. CASE OnRequestAttributeRefresh
    BY <2>1, <2>4 DEF OnRequestAttributeRefresh, NextSent, world
  <2> QED
    BY <2>1, <2>2, <2>3, <2>4, ScreenSteps
<1>3. CASE ~blank
  <2>1. CASE On(stack', Mainless)
    <3>1. DetectTaskbar /\ bars[Primary] = NoBar
      BY <1>1, <1>3, <2>1, OpeningSteps
    <3>2. UNCHANGED bars
      BY <3>1 DEF DetectTaskbar, desktopVars
    <3> QED
      BY <3>1, <3>2 DEF MainInv
  <2>2. CASE TaskbarKind = "XAML" /\ ~service' /\ On(stack', Arming)
    <3>1. ~On(stack, Arming)
      BY <1>3, <2>2, ServiceKept DEF Unserved
    <3>2. InjectExplorerTAP /\ stack # stack'
      BY <1>1, <2>2, <3>1, OpeningSteps
    <3>3. Top.main = NoBar /\ Top.at = "injecting"
      BY <2>2, <3>2 DEF InjectExplorerTAP, At
    <3>4. ResetStep
      BY <3>2 DEF ResetStep
    <3>5. Top \in Mainless
      BY <3>3, <3>4, ResetOnTop DEF Mainless, ResetFrames
    <3>6. On(stack, Mainless)
      BY <3>4, <3>5, ReplacedFrame DEF Mainless
    <3> QED
      BY <1>3, <3>6
  <2> QED
    BY <2>1, <2>2
<1> QED
  BY <1>2, <1>3

(* A taskbar that is known and there is one that was there.                *)
LEMMA SameBar ==
  ASSUME TypeOK, Environment, NEW m \in Known, taskbars[m] = bars'[m]
  PROVE  bars[m] = taskbars[m] /\ shown'[m] = shown[m]
<1>1. bars \in [Monitors -> Bars \cup {NoBar}] /\ taskbars[m] # NoBar /\ m \in Monitors
  BY DEF TypeOK, DesktopTypeOK, Known
<1>2. Next /\ shown' = [n \in Monitors |-> IF bars'[n] = bars[n] THEN shown[n] ELSE Stock]
  BY DEF Next, Environment, NewScreen
<1>3. ASSUME NEW n \in Monitors, NEW b \in Bars \cup {NoBar}, NewBar(b), bars' = [bars EXCEPT ![n] = b]
      PROVE  bars'[m] = bars[m]
  BY <1>1, <1>3 DEF NewBar, Unknown
<1>4. bars'[m] = bars[m]
  BY <1>1, <1>2, <1>3, BarsSteps, DesktopAssumption
<1> QED
  BY <1>1, <1>2, <1>4

(* Where the service failed, a taskbar taken for normal shows what         *)
(* Explorer gives it.                                                      *)
LEMMA NormalStep ==
  ASSUME TypeOK, OneReset, ApartInv, BlankInv, UnpaintedInv, NormalInv, Next
  PROVE  NormalInv'
<1> SUFFICES ASSUME TaskbarKind = "XAML", ~service', NEW m \in Known', taskbars'[m] \in normalTaskbars', taskbars'[m] = bars'[m]
             PROVE  shown'[m] = Stock
  BY DEF NormalInv
<1>1. m \in Monitors /\ taskbars'[m] # NoBar /\ shown \in [Monitors -> Colours \cup {Stock}] /\ \A manual, base : ~BeginReset(manual, base)
  BY BegunReset DEF Known, TypeOK, WorkerTypeOK
<1>2. CASE UNCHANGED <<taskbars, bars, normalTaskbars, service, shown>>
  BY <1>2 DEF NormalInv, Known
<1>3. CASE Environment
  <2>1. UNCHANGED <<taskbars, normalTaskbars, service>>
    BY <1>3 DEF Environment, members
  <2>2. m \in Known
    BY <2>1 DEF Known
  <2>3. bars[m] = taskbars[m] /\ shown'[m] = shown[m]
    BY <1>3, <2>1, <2>2, SameBar
  <2> QED
    BY <2>1, <2>2, <2>3 DEF NormalInv
<1>4. CASE InsertTaskbars
  <2>1. UNCHANGED <<bars, shown>>
    BY <1>4 DEF InsertTaskbars, desktopVars, screen
  <2>2. ResetStep
    BY <1>4 DEF ResetStep
  <2>3. Top \in Arming /\ Arming \in SUBSET ResetFrames
    BY <1>4, <2>2, ResetOnTop DEF InsertTaskbars, At, Arming, ResetFrames
  <2>4. Unserved
    BY <1>4, <2>2, <2>3, ReplacedFrame, FoundTaskbars DEF Unserved
  <2> QED
    BY <1>1, <2>1, <2>4 DEF UnpaintedInv
<1>5. CASE InjectExplorerTAP
  <2>1. Top \in Opening /\ Opening \in SUBSET ResetFrames /\ ResetStep
    BY <1>5, ResetOnTop DEF InjectExplorerTAP, At, Opening, ResetFrames, ResetStep
  <2>2. Known = {}
    BY <2>1, ReplacedFrame DEF BlankInv
  <2> QED
    BY <1>5, <2>2 DEF InjectExplorerTAP, Known
<1>6. CASE ~Environment /\ ~InsertTaskbars /\ ~InjectExplorerTAP
  <2>1. UNCHANGED <<taskbars, service, bars>> /\ m \in Known
    BY <1>1, <1>6, WorkerData, ScreenSteps DEF Known
  <2>2. taskbars[m] \in normalTaskbars /\ taskbars[m] = bars[m] => shown[m] = Stock
    BY <2>1 DEF NormalInv
  <2>3. ASSUME NEW n \in Known, NEW look, SetAttribute(n, look) PROVE shown'[m] = Stock
    <3>1. CASE look.accent = "normal" /\ taskbars[n] \notin normalTaskbars
      <4>1. normalTaskbars' = normalTaskbars \cup {taskbars[n]} /\ shown' = Painted(n, taskbars[n], Stock)
        BY <2>1, <2>3, <3>1 DEF SetAttribute
      <4>2. CASE n = m
        BY <1>1, <2>1, <4>1, <4>2 DEF Painted, Reachable
      <4>3. CASE n # m
        <5>1. taskbars[m] # taskbars[n] /\ shown'[m] = shown[m]
          BY <1>1, <2>1, <2>3, <4>1, <4>3 DEF Painted, ApartInv, Known
        <5> QED
          BY <2>1, <2>2, <4>1, <5>1
      <4> QED
        BY <4>2, <4>3
    <3>2. CASE look.accent = "normal" /\ taskbars[n] \in normalTaskbars
      <4>1. ~service /\ taskbars[m] = bars[m]
        BY <2>1
      <4>2. UNCHANGED <<normalTaskbars, shown>>
        BY <2>3, <3>2, <4>1 DEF SetAttribute
      <4>3. taskbars[m] \in normalTaskbars
        BY <2>1, <4>2
      <4> QED
        BY <2>2, <4>1, <4>2, <4>3
    <3>3. CASE look.accent # "normal"
      <4>1. normalTaskbars' = normalTaskbars \ {taskbars[n]} /\ shown' = Painted(n, taskbars[n], look.colour)
        BY <2>1, <2>3, <3>3 DEF SetAttribute
      <4>2. n # m
        BY <2>1, <4>1
      <4> QED
        BY <1>1, <2>1, <2>2, <4>1, <4>2 DEF Painted
    <3> QED
      BY <3>1, <3>2, <3>3
  <2>4. CASE RefreshNext
    <3>1. \/ \E n \in Known : SetAttribute(n, GetConfig(n))
          \/ UNCHANGED <<normalTaskbars, shown>>
      BY <2>4 DEF RefreshNext, RefreshAttribute, screen
    <3> QED
      BY <1>2, <2>1, <2>3, <3>1
  <2>5. CASE OnRequestAttributeRefresh
    <3>1. \/ \E n \in Known : SetAttribute(n, GetConfig(n))
          \/ UNCHANGED normalTaskbars /\ (shown'[m] = Stock \/ shown'[m] = shown[m])
      BY <1>1, <2>5 DEF OnRequestAttributeRefresh
    <3> QED
      BY <2>1, <2>2, <2>3, <3>1
  <2> QED
    BY <1>1, <1>2, <1>6, <2>1, <2>4, <2>5, WorkerData
<1> QED
  BY <1>3, <1>4, <1>5, <1>6

(* Without flyouts none is told about.                                     *)
LEMMA UnaskedStep ==
  ASSUME TypeOK, UnaskedInv, Next
  PROVE  UnaskedInv'
<1> SUFFICES ASSUME NoFlyouts, NEW f \in Flyouts, ~On(posted, OfFlyout(f)) PROVE ~On(posted', OfFlyout(f))
  BY DEF UnaskedInv, NoFlyouts, OfFlyout
<1>1. posted \in Seq(PostedMessage)
  BY DEF TypeOK, DesktopTypeOK
<1>2. ASSUME NEW e \in PostedMessage, e.kind # "flyout", posted' = posted \o <<e>> PROVE ~On(posted', OfFlyout(f))
  <2>1. e \notin OfFlyout(f)
    BY <1>2 DEF OfFlyout
  <2> QED
    BY <1>1, <1>2, <2>1, StillFew DEF Still
<1>3. CASE UNCHANGED posted
  BY <1>3
<1>4. CASE Resume \/ Handle \/ Call \/ TimePasses
  <2>1. [kind |-> "settingChange"] \in PostedMessage
    BY DEF PostedMessage
  <2>2. CASE posted' = posted \o <<[kind |-> "settingChange"]>>
    BY <1>2, <2>1, <2>2
  <2>3. CASE posted # <<>> /\ posted' = Tail(posted)
    BY <1>1, <2>3, OnHead
  <2> QED
    BY <1>3, <1>4, <2>2, <2>3, WorkerQueues
<1>5. ASSUME NEW on \in BOOLEAN, SwitchTaskView(on) \/ AeroPeek(on) PROVE ~On(posted', OfFlyout(f))
  <2>1. CASE SwitchTaskView(on)
    BY <1>2, <2>1, MessageTypes DEF SwitchTaskView, Queue
  <2>2. CASE AeroPeek(on)
    BY <1>3, <2>2 DEF AeroPeek, RaiseEvents
  <2> QED
    BY <1>5, <2>1, <2>2
<1>6. ASSUME NEW w \in Windows, OfWindow(w) PROVE ~On(posted', OfFlyout(f))
  BY <1>3, <1>6, WindowQueues
<1>7. ASSUME NEW g \in Flyouts,
             \/ \E m \in Monitors : OpenFlyout(g, m)
             \/ \E w \in present \cup {NoWindow} : CloseFlyout(g, w)
      PROVE  ~On(posted', OfFlyout(f))
  BY <1>7 DEF OpenFlyout, CloseFlyout, Change, NoFlyouts
<1>8. ASSUME NEW m \in Monitors, NEW b \in Bars \cup {NoBar}, ChangeDisplays(m, b) PROVE ~On(posted', OfFlyout(f))
  BY <1>3, <1>8 DEF ChangeDisplays
<1>9. ASSUME NEW b \in Bars, NEW ready \in BOOLEAN, ExplorerStarts(b, ready) PROVE ~On(posted', OfFlyout(f))
  BY <1>3, <1>9 DEF ExplorerStarts
<1>10. CASE \/ ToggleBatterySaver \/ ChangeWorkArea
            \/ (\E mode \in PickedModes : PreviewFromOutside(mode)) \/ (\E b \in Bars : RepaintTaskbar(b))
            \/ ExplorerDies \/ ExplorerReady
  BY <1>3, <1>10 DEF ToggleBatterySaver, ChangeWorkArea, PreviewFromOutside, RepaintTaskbar, ExplorerDies, ExplorerReady,
     Send, RaiseEvents
<1>11. CASE Environment
  BY <1>5, <1>6, <1>7, <1>8, <1>9, <1>10, <1>11, Zenon DEF Environment, OfWindow
<1> QED
  BY <1>4, <1>11 DEF Next

(* Together, these are kept by every step, and hold initially.             *)
LEMMA ScreenStep == TypeOK /\ OneReset /\ ScreenInv /\ [Next]_vars => ScreenInv'
<1>1. ASSUME TypeOK, OneReset, ScreenInv, Next PROVE ScreenInv'
  BY <1>1, MainStep, SingleStep, ServiceStep, ApartStep, BlankStep, UnpaintedStep, NormalStep, UnaskedStep DEF ScreenInv
<1>2. ASSUME ScreenInv, UNCHANGED vars PROVE ScreenInv'
  <2>1. UNCHANGED <<bars, taskbars, service, stack, shown, normalTaskbars, posted>>
    BY <1>2 DEF vars, desktopVars, members, screen
  <2> QED
    BY <1>2, <2>1 DEF ScreenInv, MainInv, SingleInv, ApartInv, ServiceInv, BlankInv, UnpaintedInv, Unserved, NormalInv,
       UnaskedInv, Known
<1> QED
  BY <1>1, <1>2

LEMMA ScreenInit == Init => ScreenInv
<1> SUFFICES ASSUME Init PROVE ScreenInv
  OBVIOUS
<1>1. Known = {} /\ service = FALSE /\ posted = <<>> /\ (\A m \in Monitors : taskbars[m] = NoBar /\ shown[m] = Stock)
  BY DEF Init, DesktopInit, Known
<1>2. PICK b \in Bars : bars = [m \in Monitors |-> IF m = Primary THEN b ELSE NoBar]
  BY DEF Init, DesktopInit
<1>3. bars[Primary] # NoBar
  BY <1>2, DesktopAssumption
<1> QED
  BY <1>1, <1>2, <1>3, OnFew DEF ScreenInv, MainInv, SingleInv, ApartInv, ServiceInv, BlankInv, UnpaintedInv, NormalInv, UnaskedInv

-----------------------------------------------------------------------------
(* What GetConfig depends on: the window that is active only through the   *)
(* rule of the highest maximised window, and the window in the foreground  *)
(* only through its own rule.                                              *)
SameShell ==
  /\ shell.powerSaver = shell'.powerSaver /\ shell.taskView = shell'.taskView
  /\ shell.peek = shell'.peek /\ shell.where = shell'.where

Seen(m, a, here) == [top |-> HighestOf(tracked[m].max), active |-> a, foregroundHere |-> here]
Answer(m, a, here) == ModeLook(config, previews, shell, tracked[m], m, Seen(m, a, here))

(* What GetConfig looks at, and its answer when the foreground window is   *)
(* elsewhere.                                                              *)
LEMMA SeenFields ==
  ASSUME NEW m, NEW a, NEW here \in BOOLEAN
  PROVE  /\ Seen(m, a, here).top = HighestOf(tracked[m].max) /\ Seen(m, a, here).active = a
         /\ (Seen(m, a, here).foregroundHere <=> here)
BY DEF Seen

LEMMA HiddenLook ==
  ASSUME NEW m, NEW a
  PROVE  VisibleLook(config, previews, shell, tracked[m], Seen(m, a, FALSE)) = WithPreview(config, previews, "VisibleWindow")
<1>1. ~Seen(m, a, FALSE).foregroundHere
  BY SeenFields
<1> QED
  BY <1>1, Zenon DEF VisibleLook

(* Two states that agree on the rest, where no rule of the window in the   *)
(* foreground counts.                                                      *)
LEMMA SameAnswer ==
  ASSUME NEW m, NEW a, NEW b, UNCHANGED <<config, previews>>, SameShell, tracked'[m] = tracked[m],
         HighestOf(tracked[m].max)' = HighestOf(tracked[m].max),
         HasRule(config.maximisedRule, HighestOf(tracked[m].max)) =>
           (HighestOf(tracked[m].max) = a <=> HighestOf(tracked[m].max) = b)
  PROVE  Answer(m, a, FALSE) = Answer(m, b, FALSE)'
<1> DEFINE v == Seen(m, a, FALSE)
           w == Seen(m, b, FALSE)'
<1>1. v.top = HighestOf(tracked[m].max) /\ w.top = v.top /\ v.active = a /\ w.active = b
  BY DEF Seen
<1>2. VisibleLook(config, previews, shell, tracked[m], v) = WithPreview(config, previews, "VisibleWindow")
  BY HiddenLook
<1>3. VisibleLook(config, previews, shell', tracked[m], w) = WithPreview(config, previews, "VisibleWindow")
  <2>1. ~w.foregroundHere
    BY DEF Seen
  <2> HIDE DEF w
  <2> QED
    BY <2>1, Zenon DEF VisibleLook
<1>4. Answer(m, b, FALSE)' = ModeLook(config, previews, shell', tracked[m], m, w)
  BY DEF Answer
<1>5. Answer(m, a, FALSE) = ModeLook(config, previews, shell, tracked[m], m, v)
  BY DEF Answer
<1> HIDE DEF v, w
<1>6. MaximisedLook(config, previews, v) = MaximisedLook(config, previews, w)
  BY <1>1 DEF MaximisedLook, FindRule
<1>7. SearchOn(shell, m) = SearchOn(shell', m) /\ StartOpened(shell, m) = StartOpened(shell', m)
  BY Zenon DEF SearchOn, StartOpened, SameShell
<1>8. ModeLook(config, previews, shell, tracked[m], m, v) = ModeLook(config, previews, shell', tracked[m], m, w)
  BY <1>2, <1>3, <1>6, <1>7, Zenon DEF ModeLook, SameShell
<1> QED
  BY <1>4, <1>5, <1>8

(* The window in the foreground counts, or it does not.                    *)
LEMMA ForegroundAnswer ==
  ASSUME NEW m, NEW a, NEW here \in BOOLEAN
  PROVE  \/ Answer(m, a, here) = Answer(m, a, FALSE)
         \/ /\ here /\ HasRule(config.visibleRule, shell.foreground)
            /\ Answer(m, a, here) = FindRule(config.visibleRule, shell.foreground, a)
<1> DEFINE v == Seen(m, a, here)
           w == Seen(m, a, FALSE)
           hidden == WithPreview(config, previews, "VisibleWindow")
<1>1. v.top = w.top /\ v.active = w.active /\ v.active = a
  BY DEF Seen
<1>2. VisibleLook(config, previews, shell, tracked[m], w) = hidden
  BY HiddenLook
<1>3. Answer(m, a, here) = ModeLook(config, previews, shell, tracked[m], m, v)
  BY DEF Answer
<1>4. Answer(m, a, FALSE) = ModeLook(config, previews, shell, tracked[m], m, w)
  BY DEF Answer
<1>8. v.foregroundHere => here
  BY DEF Seen
<1> HIDE DEF v, w
<1>5. MaximisedLook(config, previews, v) = MaximisedLook(config, previews, w)
  BY <1>1 DEF MaximisedLook, FindRule
<1>6. CASE VisibleLook(config, previews, shell, tracked[m], v) = hidden
  <2>1. ModeLook(config, previews, shell, tracked[m], m, v) = ModeLook(config, previews, shell, tracked[m], m, w)
    BY <1>2, <1>5, <1>6, Zenon DEF ModeLook
  <2> QED
    BY <1>3, <1>4, <2>1
<1>7. CASE VisibleLook(config, previews, shell, tracked[m], v) # hidden
  <2>1. /\ v.foregroundHere /\ HasRule(config.visibleRule, shell.foreground)
        /\ VisibleLook(config, previews, shell, tracked[m], v) = FindRule(config.visibleRule, shell.foreground, v.active)
    BY <1>7, Zenon DEF VisibleLook
  <2>2. \/ ModeLook(config, previews, shell, tracked[m], m, v) = ModeLook(config, previews, shell, tracked[m], m, w)
        \/ ModeLook(config, previews, shell, tracked[m], m, v) = VisibleLook(config, previews, shell, tracked[m], v)
    BY <1>5, Zenon DEF ModeLook
  <2> QED
    BY <1>1, <1>3, <1>4, <1>8, <2>1, <2>2
<1> QED
  BY <1>6, <1>7

(* The looks of the rules, and the ones that are not normal.               *)
LEMMA RuleLooks ==
  ASSUME TypeOK, NEW w, NEW active, HasRule(config.visibleRule, w)
  PROVE  /\ FindRule(config.visibleRule, w, active) \in {config.visibleRule[w].look, config.visibleRule[w].inactive} \ {NoRule}
         /\ w \in Windows
<1>1. w \in Windows /\ config.visibleRule[w] \in Rules
  BY WorkerAssumption DEF TypeOK, WorkerTypeOK, ConfigType, HasRule
<1>2. config.visibleRule[w].look \in Looks /\ config.visibleRule[w].look # NoRule
  BY <1>1, NoRuleAssumption DEF Rules
<1> QED
  BY <1>1, <1>2 DEF FindRule

(* Where no look is normal, GetConfig gives none.                          *)
LEMMA NotNormalLook ==
  ASSUME TypeOK, NoNormalLooks, NEW sh, NEW sets, NEW m, NEW view
  PROVE  ModeLook(config, previews, sh, sets, m, view).accent # "normal"
<1>1. config \in Configs /\ config \in ConfigType
  BY WorkerAssumption DEF TypeOK, WorkerTypeOK
<1>2. \A mode \in Modes : config.look[mode] \in Looks /\ config.look[mode].accent # "normal"
  <2> SUFFICES ASSUME NEW mode \in Modes PROVE config.look[mode] \in Looks /\ config.look[mode].accent # "normal"
    OBVIOUS
  <2>1. config.look[mode] \in Looks
    BY <1>1 DEF ConfigType
  <2> QED
    BY <1>1, <2>1, NoRuleAssumption DEF NoNormalLooks, NotNormal
<1>3. \A mode \in Modes : WithPreview(config, previews, mode).accent # "normal"
  BY <1>2 DEF WithPreview, Looks
<1>4. ASSUME NEW w, NEW active, NEW rules \in {config.maximisedRule, config.visibleRule}, HasRule(rules, w)
      PROVE  FindRule(rules, w, active).accent # "normal"
  <2>1. w \in Windows /\ rules[w] # NoRule
    BY <1>4 DEF HasRule
  <2>2. rules[w] \in Rules
    BY <1>1, <1>4, <2>1 DEF ConfigType
  <2>3. NotNormal(rules[w].look) /\ NotNormal(rules[w].inactive)
    BY <1>1, <1>4, <2>1 DEF NoNormalLooks
  <2>4. rules[w].look # NoRule
    BY <2>2, NoRuleAssumption DEF Rules
  <2> QED
    BY <2>3, <2>4 DEF FindRule, NotNormal
<1>5. MaximisedLook(config, previews, view).accent # "normal"
  BY <1>3, <1>4 DEF MaximisedLook, Modes
<1>6. VisibleLook(config, previews, sh, sets, view).accent # "normal"
  BY <1>3, <1>4 DEF VisibleLook, Modes
<1>7. \A mode \in {"BatterySaver", "TaskViewOpened", "Desktop", "StartOpened", "SearchOpened"} :
        WithPreview(config, previews, mode).accent # "normal"
  BY <1>3 DEF Modes
<1> QED
  BY <1>5, <1>6, <1>7, Zenon DEF ModeLook

-----------------------------------------------------------------------------
(* The appearance of a taskbar between two refreshes.  Demand is what      *)
(* GetConfig would answer if the active window were a, and a window were   *)
(* on the monitor it is tracked on.  In the trail are the windows that     *)
(* were the active one since the last change of foreground that was        *)
(* handled; Loose are the colours of the rules of windows that are not     *)
(* tracked.  Every taskbar shows the colour for a window of the trail, or  *)
(* a refresh of it is due.                                                 *)
Announced(a) == {[kind |-> "foreground", win |-> a]}
ForegroundHeld(m) == shell.foreground \in Windows /\ Holds(m, shell.foreground)
Demand(m, a) == Answer(m, a, ForegroundHeld(m))
InTrail(a) == a = shell.foreground \/ On(events, Announced(a))
Loose == {Colour(look) : look \in LooksOfUntracked}
Fits(m, a) == InTrail(a) /\ shown[m] = Colour(Demand(m, a))
Actives == Windows \cup {Flyout, NoWindow}
Right(m) == shown[m] \in Loose \/ \E a \in Actives : Fits(m, a)
Due(m) ==
  \/ On(stack, Hot) \/ On(stack, Repainting(m))
  \/ \E w \in Windows : Holds(m, w) /\ IsFixed(w)
  \/ \E w \in tracked[m].max : On(events, Raised(w))
Live(m) == taskbars[m] = bars[m] /\ Reachable
FreshInv == \A m \in Known : Live(m) => Right(m) \/ Due(m)

Expected == NoFlyouts /\ (OneTaskbar \/ WithoutVisibleRules) /\ NormalIsSent
KnownInv == TypeOK /\ OneReset /\ TrackedOnce /\ PlacesInv /\ FollowInv /\ Covered(stack) /\ ScreenInv

(* Explorer's process is another one only after its taskbars were gone.    *)
LEMMA PidStep ==
  ASSUME TypeOK, Environment, bars[Primary] # NoBar
  PROVE  explorer'.pid = explorer.pid
<1>1. explorer \in [pid : Nat, ready : BOOLEAN]
  BY DEF TypeOK, DesktopTypeOK
<1>2. ASSUME NEW w \in Windows, OfWindow(w) PROVE UNCHANGED explorer
  BY <1>2, WindowQueues
<1>3. ASSUME NEW m \in Monitors, NEW b \in Bars \cup {NoBar}, ChangeDisplays(m, b) PROVE UNCHANGED explorer
  BY <1>3 DEF ChangeDisplays
<1>4. CASE ExplorerDies \/ ExplorerReady
  BY <1>1, <1>4 DEF ExplorerDies, ExplorerReady
<1>5. ASSUME NEW b \in Bars, NEW ready \in BOOLEAN, ExplorerStarts(b, ready) PROVE FALSE
  BY <1>5 DEF ExplorerStarts
<1>6. CASE \/ \E f \in Flyouts :
                \/ \E m \in Monitors : OpenFlyout(f, m)
                \/ \E w \in present \cup {NoWindow} : CloseFlyout(f, w)
           \/ ToggleBatterySaver \/ (\E on \in BOOLEAN : SwitchTaskView(on) \/ AeroPeek(on)) \/ ChangeWorkArea
           \/ (\E mode \in PickedModes : PreviewFromOutside(mode)) \/ (\E b \in Bars : RepaintTaskbar(b))
  BY <1>6 DEF OpenFlyout, CloseFlyout, ToggleBatterySaver, SwitchTaskView, AeroPeek, ChangeWorkArea, PreviewFromOutside,
     RepaintTaskbar, world
<1> QED
  BY <1>2, <1>3, <1>4, <1>5, <1>6, Zenon DEF Environment, OfWindow

(* A taskbar that is known before and after a step, and reached after it,  *)
(* was reached before it.                                                  *)
LEMMA LiveBefore ==
  ASSUME KnownInv, [Next]_vars, NEW m \in Known, m \in Known', Live(m)'
  PROVE  Live(m)
<1>1. /\ TypeOK /\ OneReset /\ MainInv /\ BlankInv /\ m \in Monitors /\ taskbars[m] # NoBar
      /\ taskbars'[m] = bars'[m] /\ Reachable'
  BY DEF KnownInv, ScreenInv, Known, Live
<1>2. CASE UNCHANGED <<taskbars, bars, service, lastPid, explorer>>
  BY <1>1, <1>2 DEF Live, Reachable
<1>3. CASE UNCHANGED vars
  BY <1>2, <1>3 DEF vars, desktopVars, members
<1>4. CASE Environment
  <2>1. UNCHANGED <<taskbars, service, lastPid>>
    BY <1>4 DEF Environment, members
  <2>2. bars[m] = taskbars[m]
    BY <1>1, <1>4, <2>1, SameBar
  <2>3. explorer'.pid = explorer.pid
    BY <1>1, <1>4, <2>2, PidStep DEF MainInv
  <2> QED
    BY <1>1, <2>1, <2>2, <2>3 DEF Live, Reachable
<1>5. CASE DetectTaskbar \/ InjectExplorerTAP \/ InsertTaskbars
  <2>1. ResetStep /\ Top.at \in {"clearing", "injecting", "arming"}
    BY <1>5 DEF ResetStep, DetectTaskbar, InjectExplorerTAP, InsertTaskbars, At
  <2>2. Top \in Opening /\ Opening \in SUBSET ResetFrames
    BY <1>1, <2>1, ResetOnTop DEF Opening, ResetFrames
  <2>3. Known = {}
    BY <1>1, <2>1, <2>2, ReplacedFrame DEF BlankInv
  <2> QED
    BY <2>3
<1>6. CASE \E manual, base : BeginReset(manual, base)
  BY <1>6, BegunReset
<1>7. CASE /\ Next /\ ~Environment /\ ~(DetectTaskbar \/ InjectExplorerTAP \/ InsertTaskbars)
           /\ \A manual, base : ~BeginReset(manual, base)
  <2>1. UNCHANGED <<taskbars, service, lastPid>>
    BY <1>1, <1>7, WorkerData
  <2>2. UNCHANGED <<bars, explorer>>
    BY <1>1, <1>7, WorkerLeavesWorld DEF Next, world
  <2> QED
    BY <1>2, <2>1, <2>2
<1> QED
  BY <1>3, <1>4, <1>5, <1>6, <1>7

(* A window that has a rule and is tracked is tracked on the monitor at    *)
(* hand, where only one monitor can have tracked windows.                  *)
LEMMA OnlyHere ==
  ASSUME OneTaskbar \/ WithoutVisibleRules, TypeOK, TrackedOnce, SingleInv,
         NEW m \in Known, NEW n \in Monitors, NEW w \in Windows, Holds(n, w), HasRule(config.visibleRule, w)
  PROVE  n = m
<1>1. OneTaskbar
  BY DEF WithoutVisibleRules, TypeOK, WorkerTypeOK, HasRule
<1>2. n \in Known
  BY DEF TrackedOnce
<1> QED
  BY <1>1, <1>2 DEF SingleInv, Known

(* What GetConfig answers when nothing is due.                             *)
LEMMA AnswerIsRight ==
  ASSUME OneTaskbar \/ WithoutVisibleRules, TypeOK, TrackedOnce, PlacesInv, FollowInv, SingleInv, NEW m \in Known,
         ~On(stack, Hot), \A w \in Windows : Holds(m, w) => ~IsFixed(w)
  PROVE  /\ front \in Actives /\ InTrail(front)
         /\ Colour(GetConfig(m)) \in Loose \/ Colour(GetConfig(m)) = Colour(Demand(m, front))
<1>1. front \in Actives
  BY DEF TypeOK, DesktopTypeOK, Actives
<1>2. InTrail(front)
  <2>1. CASE On(events, Foreground)
    BY <2>1, LastOn DEF TypeOK, DesktopTypeOK, FollowInv, ForegroundInv, InTrail, Announced
  <2>2. CASE ~On(events, Foreground)
    <3>1. Unanswered("taskView") \subseteq Hot
      BY DEF Unanswered, Hot
    <3>2. Answered("taskView")
      BY <3>1 DEF Answered, On
    <3> QED
      BY <2>2, <3>2 DEF FollowInv, ForegroundInv, InTrail
  <2> QED
    BY <2>1, <2>2
<1> DEFINE f == shell.foreground
           here == MonitorOf(f) = m
<1>3. here \in BOOLEAN /\ ForegroundHeld(m) \in BOOLEAN
  BY DEF ForegroundHeld
<1>4. GetConfig(m) = Answer(m, front, here) /\ Demand(m, front) = Answer(m, front, ForegroundHeld(m))
  BY DEF GetConfig, Demand, Answer, Seen
<1>5. CASE here <=> ForegroundHeld(m)
  BY <1>1, <1>2, <1>3, <1>4, <1>5
<1>6. CASE ~here /\ ForegroundHeld(m)
  <2>1. f \in Windows /\ Holds(m, f) /\ IsRight(m, f)
    BY <1>6 DEF ForegroundHeld, PlacesInv, Known
  <2> QED
    BY <1>6, <2>1, NamesAssumption DEF IsRight, MonitorOf
<1>7. CASE here /\ ~ForegroundHeld(m)
  <2>1. Demand(m, front) = Answer(m, front, FALSE)
    BY <1>3, <1>4, <1>7
  <2>2. GetConfig(m) = Answer(m, front, TRUE)
    BY <1>3, <1>4, <1>7
  <2>3. \/ GetConfig(m) = Demand(m, front)
        \/ HasRule(config.visibleRule, f) /\ GetConfig(m) = FindRule(config.visibleRule, f, front)
    BY <2>1, <2>2, ForegroundAnswer
  <2>4. CASE HasRule(config.visibleRule, f) /\ GetConfig(m) = FindRule(config.visibleRule, f, front)
    <3>1. /\ f \in Windows
          /\ FindRule(config.visibleRule, f, front) \in {config.visibleRule[f].look, config.visibleRule[f].inactive} \ {NoRule}
      BY <2>4, RuleLooks
    <3>2. \A n \in Monitors : ~Holds(n, f)
      BY <1>7, <2>4, <3>1, OnlyHere DEF ForegroundHeld
    <3>3. FindRule(config.visibleRule, f, front) \in LooksOfUntracked
      BY <2>4, <3>1, <3>2 DEF LooksOfUntracked
    <3> QED
      BY <1>1, <1>2, <2>4, <3>3 DEF Loose
  <2> QED
    BY <1>1, <1>2, <2>3, <2>4
<1> QED
  BY <1>3, <1>5, <1>6, <1>7

(* SetAttribute shows what GetConfig answers: where a normal appearance is *)
(* not asked for twice, it is still shown.                                 *)
LEMMA AnswerIsShown ==
  ASSUME NormalIsSent, TypeOK, NormalInv, NEW m \in Known, Live(m), SetAttribute(m, GetConfig(m))
  PROVE  shown' = [shown EXCEPT ![m] = Colour(GetConfig(m))]
<1>1. shown \in [Monitors -> Colours \cup {Stock}] /\ m \in Monitors
  BY DEF TypeOK, WorkerTypeOK, Known
<1>2. CASE GetConfig(m).accent # "normal"
  BY <1>2 DEF SetAttribute, Painted, Colour, Live
<1>3. CASE GetConfig(m).accent = "normal"
  <2>1. TaskbarKind = "XAML"
    BY <1>3, NotNormalLook DEF NormalIsSent, GetConfig
  <2>2. CASE shown' = Painted(m, taskbars[m], Stock)
    BY <1>3, <2>2 DEF Painted, Colour, Live
  <2>3. CASE ~service /\ taskbars[m] \in normalTaskbars /\ UNCHANGED shown
    BY <1>1, <1>3, <2>1, <2>3 DEF NormalInv, Colour, Live
  <2> QED
    BY <1>3, <2>2, <2>3 DEF SetAttribute
<1> QED
  BY <1>2, <1>3

-----------------------------------------------------------------------------
(* What a change of a window leaves as it is.                              *)
LEMMA HighestStands ==
  ASSUME TypeOK, NEW w \in Windows, OfWindow(w), NEW S \in SUBSET Windows, w \notin S
  PROVE  HighestOf(S)' = HighestOf(S)
<1>1. present \subseteq Windows /\ above \subseteq Windows \X Windows
  BY DEF TypeOK, DesktopTypeOK
<1>2. \A v \in Windows : v # w => (v \in present <=> v \in present')
  BY WindowChanges
<1>3. S \cap present' = S \cap present
  BY <1>2
<1>4. \A u, v \in S \cap present : <<u, v>> \in above' <=> <<u, v>> \in above
  <2> SUFFICES ASSUME NEW u \in S \cap present, NEW v \in S \cap present PROVE <<u, v>> \in above' <=> <<u, v>> \in above
    OBVIOUS
  <2>0. u # w /\ v # w
    OBVIOUS
  <2>1. CASE ActivateWindow(w)
    BY <1>1, <2>0, <2>1 DEF ActivateWindow, Raise
  <2>2. CASE \E m \in Monitors : CreateWindow(w, m)
    BY <1>1, <2>0, <2>2 DEF CreateWindow
  <2>3. CASE DestroyWindow(w)
    BY <1>1, <2>0, <2>3 DEF DestroyWindow
  <2>4. CASE \/ \E m \in Monitors, size \in {"max", "normal"} : PlaceWindow(w, m, size)
             \/ MinimiseWindow(w) \/ ShowWindow(w) \/ HideWindow(w)
    BY <2>4 DEF PlaceWindow, MinimiseWindow, ShowWindow, HideWindow
  <2> QED
    BY <2>1, <2>2, <2>3, <2>4 DEF OfWindow
<1>5. Highest(S)' = Highest(S)
  BY <1>3, <1>4 DEF Highest
<1> QED
  BY <1>5 DEF HighestOf

(* Only what happens to a window changes the windows.                      *)
LEMMA OnlyWindowsChange ==
  ASSUME Environment
  PROVE  (\E w \in Windows : OfWindow(w)) \/ UNCHANGED <<desk, present, above>>
<1>1. ASSUME NEW g \in Flyouts,
             \/ \E m \in Monitors : OpenFlyout(g, m)
             \/ \E w \in present \cup {NoWindow} : CloseFlyout(g, w)
      PROVE  UNCHANGED <<desk, present, above>>
  BY <1>1 DEF OpenFlyout, CloseFlyout
<1>2. ASSUME NEW on \in BOOLEAN, SwitchTaskView(on) \/ AeroPeek(on) PROVE UNCHANGED <<desk, present, above>>
  BY <1>2 DEF SwitchTaskView, AeroPeek, world
<1>3. ASSUME NEW m \in Monitors, NEW b \in Bars \cup {NoBar}, ChangeDisplays(m, b) PROVE UNCHANGED <<desk, present, above>>
  BY <1>3 DEF ChangeDisplays
<1>4. ASSUME NEW b \in Bars, NEW ready \in BOOLEAN, ExplorerStarts(b, ready) PROVE UNCHANGED <<desk, present, above>>
  BY <1>4 DEF ExplorerStarts
<1>5. CASE \/ ToggleBatterySaver \/ ChangeWorkArea
           \/ (\E mode \in PickedModes : PreviewFromOutside(mode)) \/ (\E b \in Bars : RepaintTaskbar(b))
           \/ ExplorerDies \/ ExplorerReady
  BY <1>5 DEF ToggleBatterySaver, ChangeWorkArea, PreviewFromOutside, RepaintTaskbar, ExplorerDies, ExplorerReady, world
<1> QED
  BY <1>1, <1>2, <1>3, <1>4, <1>5, Zenon DEF Environment, OfWindow

(* What the highest window can be.                                         *)
LEMMA HighestIn ==
  ASSUME NEW S
  PROVE  HighestOf(S) = NoWindow \/ HighestOf(S) \in S
BY DEF HighestOf, Highest

-----------------------------------------------------------------------------
(* What is asked of a taskbar stays, as long as what is looked at stays.   *)
LEMMA DemandKept ==
  ASSUME NEW m, UNCHANGED <<config, previews, shell>>, tracked'[m] = tracked[m],
         HighestOf(tracked[m].max)' = HighestOf(tracked[m].max), NEW a
  PROVE  Demand(m, a)' = Demand(m, a)
<1>1. Seen(m, a, ForegroundHeld(m))' = Seen(m, a, ForegroundHeld(m))
  BY DEF Seen, ForegroundHeld, Holds
<1> QED
  BY <1>1 DEF Demand, Answer

(* The active window matters by its rule only, if it is not tracked here.  *)
LEMMA DemandMoved ==
  ASSUME NEW m, UNCHANGED <<config, previews>>, SameShell, tracked'[m] = tracked[m],
         HighestOf(tracked[m].max)' = HighestOf(tracked[m].max),
         ~ForegroundHeld(m), ~ForegroundHeld(m)', NEW a, NEW b, a # b => a \notin tracked[m].max /\ b \notin tracked[m].max
  PROVE  Demand(m, b)' = Demand(m, a)
<1>1. HasRule(config.maximisedRule, HighestOf(tracked[m].max)) =>
        (HighestOf(tracked[m].max) = a <=> HighestOf(tracked[m].max) = b)
  BY HighestIn, NamesAssumption DEF HasRule
<1>2. Answer(m, a, FALSE) = Answer(m, b, FALSE)'
  BY <1>1, SameAnswer
<1>3. Demand(m, a) = Answer(m, a, FALSE)
  <2>1. ForegroundHeld(m) = FALSE
    BY DEF ForegroundHeld
  <2> QED
    BY <2>1 DEF Demand
<1>4. Demand(m, b)' = Answer(m, b, FALSE)'
  <2>1. ForegroundHeld(m)' = FALSE
    BY DEF ForegroundHeld
  <2> QED
    BY <2>1 DEF Demand
<1> QED
  BY <1>2, <1>3, <1>4

(* The looks of the windows that are not tracked stay possible, whatever   *)
(* happens to what is tracked on the other monitors.                       *)
LEMMA LooseKept ==
  ASSUME OneTaskbar \/ WithoutVisibleRules, TypeOK, SingleInv', TrackedOnce', UNCHANGED config,
         NEW m \in Known', tracked'[m] = tracked[m]
  PROVE  Loose \subseteq Loose'
<1>1. ASSUME NEW w \in Windows, HasRule(config.visibleRule, w), \A n \in Monitors : ~Holds(n, w), NEW n \in Monitors, Holds(n, w)'
      PROVE  FALSE
  <2>1. OneTaskbar
    BY <1>1 DEF WithoutVisibleRules, TypeOK, WorkerTypeOK, HasRule
  <2>2. n \in Known'
    BY <1>1 DEF TrackedOnce
  <2>3. n = m
    BY <2>1, <2>2 DEF SingleInv, Known, OneTaskbar
  <2> QED
    BY <1>1, <2>3 DEF Holds
<1>2. LooksOfUntracked \subseteq LooksOfUntracked'
  BY <1>1 DEF LooksOfUntracked
<1>3. \A look : Colour(look)' = Colour(look)
  BY DEF Colour
<1> QED
  BY <1>2, <1>3 DEF Loose, Colour

-----------------------------------------------------------------------------
(* One taskbar over one step of the worker.  A refresh that is due and not *)
(* made in the step stays due, or the taskbar stays as it is.              *)
Stands(m) ==
  /\ On(stack, Hot) => Due(m)'
  /\ On(stack, Repainting(m)) => Due(m)'
  /\ \A w \in Windows : Holds(m, w) /\ IsFixed(w) => Due(m)'
  /\ \A w \in tracked[m].max : On(events, Raised(w)) => Due(m)'

FreshAt(m) == Right(m) \/ Due(m)

(* What is due stays due.                                                  *)
LEMMA DueStands == \A m : Stands(m) /\ Due(m) => Due(m)'
BY DEF Stands, Due

(* While the windows stay, so does the highest.                            *)
LEMMA HighestKept ==
  ASSUME UNCHANGED world, NEW m, tracked'[m] = tracked[m]
  PROVE  HighestOf(tracked[m].max)' = HighestOf(tracked[m].max)
BY DEF world, HighestOf, Highest

(* A taskbar of which nothing is repainted or recorded.                    *)
LEMMA Untouched ==
  ASSUME OneTaskbar \/ WithoutVisibleRules, TypeOK, SingleInv', TrackedOnce',
         UNCHANGED <<world, config, previews, shell>>, NEW m \in Known', tracked'[m] = tracked[m], shown'[m] = shown[m],
         \A a \in Actives : InTrail(a) => InTrail(a)',
         Stands(m), FreshAt(m)
  PROVE  FreshAt(m)'
<1>1. CASE Due(m)
  BY <1>1, DueStands DEF FreshAt
<1>2. CASE Right(m)
  <2>1. CASE shown[m] \in Loose
    BY <2>1, LooseKept DEF FreshAt, Right
  <2>2. ASSUME NEW a \in Actives, Fits(m, a) PROVE Right(m)'
    <3>1. Demand(m, a)' = Demand(m, a)
      BY HighestKept, DemandKept
    <3>2. \A look : Colour(look)' = Colour(look)
      BY DEF Colour
    <3> QED
      BY <2>2, <3>1, <3>2 DEF Right, Fits, Colour
  <2> QED
    BY <1>2, <2>1, <2>2 DEF FreshAt, Right
<1> QED
  BY <1>1, <1>2 DEF FreshAt

(* The kinds of frames a taskbar waits for.                                *)
LEMMA FrameSets ==
  /\ Hot \subseteq Waits /\ \A w : Inserting(w) \subseteq Waits
  /\ \A m, f : f \in Repainting(m) => f \notin Waits
BY DEF Hot, Waits, Inserting, Repainting, ResetFrames, ResetPlaces

(* What a refresh in progress leaves due.                                  *)
LEMMA RefreshStands ==
  ASSUME TypeOK, RefreshNext \/ RefreshLine \/ RefreshDone, NEW m \in Known
  PROVE  /\ On(stack, Hot) => Due(m)'
         /\ \A w \in Windows : Holds(m, w) /\ IsFixed(w) => Due(m)'
         /\ \A w \in tracked[m].max : On(events, Raised(w)) => Due(m)'
<1>1. UNCHANGED <<world, events, present, config, previews, shell, taskbars, tracked>>
  BY DEF RefreshNext, RefreshLine, RefreshDone, desktopVars, world, members
<1>2. Keeps(stack', stack)
  BY RefreshKeeps
<1>3. On(stack, Hot) => On(stack', Hot)
  BY <1>2, FrameSets DEF Keeps
<1>4. \A w : On(stack, Inserting(w)) => On(stack', Inserting(w))
  BY <1>2, FrameSets DEF Keeps
<1>5. \A w \in Windows : IsFixed(w) => IsFixed(w)'
  BY <1>1, <1>4 DEF IsFixed, Gone, Changed, Inserting
<1> QED
  BY <1>1, <1>3, <1>5 DEF Due, Holds, Raised, Hot

(* A refresh that is pushed is a frame.                                    *)
LEMMA RefreshingFrames == \A todo \in SUBSET Monitors : Refreshing(todo) \in Seq(Frame)
<1> SUFFICES ASSUME NEW todo \in SUBSET Monitors PROVE Refreshing(todo) \in Seq(Frame)
  OBVIOUS
<1>1. [at |-> "refreshing", todo |-> todo] \in Frame
  BY DEF Frame
<1> QED
  BY <1>1 DEF Refreshing

(* A step of a refresh paints this taskbar or leaves it to be painted.     *)
LEMMA RefreshGoesOn ==
  ASSUME TypeOK, RefreshNext \/ RefreshLine \/ RefreshDone, NEW m \in Known
  PROVE  \/ RefreshNext /\ SetAttribute(m, GetConfig(m))
         \/ shown'[m] = shown[m] /\ (On(stack, Repainting(m)) => On(stack', Repainting(m)))
<1>1. stack \in Seq(Frame) /\ shown \in [Monitors -> Colours \cup {Stock}] /\ m \in Monitors
  BY DEF TypeOK, WorkerTypeOK, Known
<1>2. stack # <<>> /\ Top \in Frame /\ Tail(stack) \in Seq(Frame)
  BY <1>1, TopType DEF RefreshNext, RefreshLine, RefreshDone, At
<1>3. Top.todo \in SUBSET Monitors /\ (Top \in Repainting(m) => m \in Top.todo)
  BY <1>2, FrameFields DEF RefreshNext, RefreshLine, RefreshDone, At, Repainting
<1>4. On(stack, Repainting(m)) => m \in Top.todo \/ On(Tail(stack), Repainting(m))
  BY <1>2, <1>3, PopFrame
<1>5. ASSUME NEW f \in Frame, f.at \in {"attribute", "line"}, stack' = <<f>> \o Tail(stack), m \in Top.todo => m \in f.todo
      PROVE  On(stack, Repainting(m)) => On(stack', Repainting(m))
  <2>1. m \in Top.todo => f \in Repainting(m)
    BY <1>5 DEF Repainting
  <2> QED
    BY <1>2, <1>4, <1>5, <2>1, PushFrame
<1>6. ASSUME NEW todo \in SUBSET Monitors, stack' = Refreshing(todo) \o Tail(stack), m \in Top.todo => m \in todo
      PROVE  On(stack, Repainting(m)) => On(stack', Repainting(m))
  <2>1. Refreshing(todo) \in Seq(Frame)
    BY RefreshingFrames
  <2>2. On(Tail(stack), Repainting(m)) => On(stack', Repainting(m))
    BY <1>2, <1>6, <2>1, OnConcat
  <2>3. m \in todo => On(stack', Repainting(m))
    BY <1>2, <1>6, PushedRefreshes
  <2> QED
    BY <1>4, <1>6, <2>2, <2>3
<1>7. CASE RefreshNext
  <2>1. PICK n \in Top.todo :
          IF n \in Known
          THEN RefreshAttribute(n, Top.todo \ {n}, Tail(stack))
          ELSE /\ stack' = Refreshing(Top.todo \ {n}) \o Tail(stack)
               /\ UNCHANGED <<normalTaskbars, screen>>
    BY <1>7 DEF RefreshNext
  <2>2. CASE n \notin Known
    <3>1. stack' = Refreshing(Top.todo \ {n}) \o Tail(stack) /\ UNCHANGED shown
      BY <2>1, <2>2 DEF screen
    <3>2. m \in Top.todo => m \in Top.todo \ {n}
      BY <2>2
    <3>3. Top.todo \ {n} \in SUBSET Monitors
      BY <1>3
    <3> QED
      BY <1>6, <3>1, <3>2, <3>3
  <2>3. CASE n \in Known /\ n = m
    BY <1>7, <2>1, <2>3 DEF RefreshAttribute
  <2>4. CASE n \in Known /\ n # m
    <3>1. taskbars[n] \in Bars /\ GetConfig(n) \in Looks
      BY <2>4, GetConfigType DEF Known, TypeOK, WorkerTypeOK
    <3>2. PICK waits \in BOOLEAN :
            stack' = <<[at |-> "attribute", todo |-> Top.todo \ {n}, mon |-> n, bar |-> taskbars[n],
                        look |-> GetConfig(n), waits |-> waits]>> \o Tail(stack)
      BY <2>1, <2>4 DEF RefreshAttribute
    <3> DEFINE f == [at |-> "attribute", todo |-> Top.todo \ {n}, mon |-> n, bar |-> taskbars[n],
                     look |-> GetConfig(n), waits |-> waits]
    <3>3. f \in Frame /\ f.at = "attribute" /\ (m \in Top.todo => m \in f.todo)
      BY <1>3, <2>4, <3>1 DEF Frame
    <3>4. SetAttribute(n, GetConfig(n))
      BY <2>1, <2>4 DEF RefreshAttribute
    <3>5. shown'[m] = shown[m]
      BY <1>1, <2>4, <3>4 DEF SetAttribute, Painted
    <3>6. stack' = <<f>> \o Tail(stack)
      BY <3>2
    <3> HIDE DEF f
    <3> QED
      BY <1>5, <3>3, <3>5, <3>6
  <2> QED
    BY <2>2, <2>3, <2>4
<1>8. CASE RefreshLine
  <2> DEFINE f == [at |-> "line", todo |-> Top.todo]
  <2>1. f \in Frame /\ f.at = "line" /\ f.todo = Top.todo
    BY <1>3 DEF Frame
  <2>2. stack' = <<f>> \o Tail(stack) /\ UNCHANGED shown
    BY <1>8 DEF RefreshLine
  <2> HIDE DEF f
  <2> QED
    BY <1>5, <2>1, <2>2
<1>9. CASE RefreshDone
  <2>1. stack' = Refreshing(Top.todo) \o Tail(stack) /\ UNCHANGED shown
    BY <1>9 DEF RefreshDone, screen
  <2> QED
    BY <1>3, <1>6, <2>1
<1> QED
  BY <1>7, <1>8, <1>9

(* A taskbar that is painted shows what is asked of it, or a refresh of it *)
(* is still due.                                                           *)
LEMMA PaintedFresh ==
  ASSUME Expected, KnownInv, TrackedOnce', SingleInv', UNCHANGED <<world, events, config, previews, shell, taskbars, tracked>>,
         NEW m \in Known, shown'[m] = Colour(GetConfig(m)),
         On(stack, Hot) => Due(m)', \A w \in Windows : Holds(m, w) /\ IsFixed(w) => Due(m)'
  PROVE  FreshAt(m)'
<1>1. TypeOK /\ SingleInv /\ TrackedOnce /\ PlacesInv /\ FollowInv
  BY DEF KnownInv, ScreenInv
<1>2. OneTaskbar \/ WithoutVisibleRules
  BY DEF Expected
<1>3. m \in Known' /\ tracked'[m] = tracked[m] /\ UNCHANGED front
  BY DEF Known, world
<1>4. CASE On(stack, Hot) \/ \E w \in Windows : Holds(m, w) /\ IsFixed(w)
  BY <1>4 DEF FreshAt
<1>5. CASE ~On(stack, Hot) /\ \A w \in Windows : Holds(m, w) => ~IsFixed(w)
  <2>1. /\ front \in Actives /\ InTrail(front)
        /\ Colour(GetConfig(m)) \in Loose \/ Colour(GetConfig(m)) = Colour(Demand(m, front))
    BY <1>1, <1>2, <1>5, AnswerIsRight
  <2>2. Colour(GetConfig(m)) \in Loose => shown'[m] \in Loose'
    BY <1>1, <1>2, <1>3, LooseKept
  <2>3. Colour(GetConfig(m)) = Colour(Demand(m, front)) => Fits(m, front)'
    <3>1. HighestOf(tracked[m].max)' = HighestOf(tracked[m].max)
      BY <1>3, HighestKept
    <3>2. Demand(m, front)' = Demand(m, front)
      BY <1>3, <3>1, DemandKept DEF Demand, Answer, Seen
    <3>3. InTrail(front)'
      BY <1>3, <2>1 DEF InTrail, Announced
    <3> QED
      BY <3>2, <3>3 DEF Fits, Colour
  <2> QED
    BY <1>3, <2>1, <2>2, <2>3 DEF FreshAt, Right
<1> QED
  BY <1>4, <1>5

(* A refresh: what it paints is right, what it leaves is due.              *)
LEMMA RefreshFresh ==
  ASSUME Expected, KnownInv, FreshInv, TrackedOnce', SingleInv', RefreshNext \/ RefreshLine \/ RefreshDone
  PROVE  FreshInv'
<1>1. TypeOK /\ SingleInv /\ NormalInv /\ TrackedOnce /\ PlacesInv /\ FollowInv
  BY DEF KnownInv, ScreenInv
<1>2. OneTaskbar \/ WithoutVisibleRules
  BY DEF Expected
<1>3. UNCHANGED <<world, events, config, previews, shell, taskbars, tracked>>
  BY DEF RefreshNext, RefreshLine, RefreshDone, desktopVars, world, members
<1> SUFFICES ASSUME NEW m \in Known', Live(m)' PROVE FreshAt(m)'
  BY DEF FreshInv, FreshAt
<1>4. m \in Known /\ Live(m)
  BY <1>3, LiveBefore DEF Known, Next, Resume
<1>5. FreshAt(m)
  BY <1>4 DEF FreshInv, FreshAt
<1>6. CASE shown'[m] = shown[m] /\ (On(stack, Repainting(m)) => On(stack', Repainting(m)))
  <2>1. On(stack, Repainting(m)) => Due(m)'
    BY <1>6 DEF Due, Repainting
  <2>2. Stands(m)
    BY <1>1, <1>4, <2>1, RefreshStands DEF Stands
  <2>3. tracked'[m] = tracked[m]
    BY <1>3
  <2>4. \A a \in Actives : InTrail(a) => InTrail(a)'
    BY <1>3 DEF InTrail, Announced
  <2> QED
    BY <1>1, <1>2, <1>3, <1>5, <1>6, <2>2, <2>3, <2>4, Untouched
<1>7. CASE RefreshNext /\ SetAttribute(m, GetConfig(m))
  <2>1. shown'[m] = Colour(GetConfig(m))
    BY <1>1, <1>4, <1>7, AnswerIsShown DEF Expected, TypeOK, WorkerTypeOK, Known
  <2> QED
    BY <1>1, <1>3, <1>4, <2>1, RefreshStands, PaintedFresh
<1> QED
  BY <1>1, <1>4, <1>6, <1>7, RefreshGoesOn

(* What is tracked for a taskbar changes, or the window was not tracked    *)
(* there: a refresh is due in the first case.                              *)
LEMMA UpdatedOrUntouched ==
  ASSUME TypeOK, NEW w \in Windows, NEW matches, NEW base \in Seq(Frame), NEW m \in Known,
         UpdateTracked(w, matches, TRUE, base)
  PROVE  On(stack', Repainting(m)) \/ (tracked'[m] = tracked[m] /\ ~Holds(m, w))
<1> DEFINE here(n) == n \in Known /\ MonitorOf(w) = n /\ matches
           touched == {n \in Known : \/ here(n) /\ desk[w].size # "min"
                                     \/ w \in tracked[n].max \cup tracked[n].normal}
<1>1. touched \in SUBSET Monitors /\ stack' = Refreshing(touched) \o base
  BY DEF UpdateTracked, Known
<1>2. CASE m \in touched
  <2> HIDE DEF touched
  <2> QED
    BY <1>1, <1>2, PushedRefreshes
<1>3. CASE m \notin touched
  <2>1. ~Holds(m, w) /\ ~(here(m) /\ desk[w].size # "min")
    BY <1>3 DEF Holds
  <2>2. m \in Monitors /\ tracked[m] \in SetsType /\ desk[w].size \in {"max", "normal", "min"}
    BY DEF Known, TypeOK, WorkerTypeOK, DesktopTypeOK, Placements
  <2>3. tracked'[m] = [max    |-> IF here(m) /\ desk[w].size = "max"
                                  THEN tracked[m].max \cup {w} ELSE tracked[m].max \ {w},
                       normal |-> IF here(m) /\ desk[w].size = "normal"
                                  THEN tracked[m].normal \cup {w} ELSE tracked[m].normal \ {w}]
    BY <2>2 DEF UpdateTracked
  <2>4. tracked'[m] = [max |-> tracked[m].max \ {w}, normal |-> tracked[m].normal \ {w}]
    <3> HIDE DEF here, touched
    <3> QED
      BY <2>1, <2>2, <2>3
  <2>5. tracked[m].max \ {w} = tracked[m].max /\ tracked[m].normal \ {w} = tracked[m].normal
    BY <2>1 DEF Holds
  <2> QED
    BY <2>1, <2>2, <2>4, <2>5 DEF SetsType
<1> QED
  BY <1>2, <1>3

(* RemoveWindow refreshes the taskbars the window was counted for.         *)
LEMMA RemovedOrUntouched ==
  ASSUME TypeOK, NEW w, NEW m \in Known, RemoveWindow(w)
  PROVE  On(stack', Repainting(m)) \/ (tracked'[m] = tracked[m] /\ ~Holds(m, w))
<1> DEFINE touched == {n \in Known : w \in tracked[n].max \cup tracked[n].normal}
<1>1. touched \in SUBSET Monitors /\ stack' = Refreshing(touched) \o stack /\ stack \in Seq(Frame)
  BY DEF RemoveWindow, Known, TypeOK, WorkerTypeOK
<1>2. CASE m \in touched
  <2> HIDE DEF touched
  <2> QED
    BY <1>1, <1>2, PushedRefreshes
<1>3. CASE m \notin touched
  <2>1. m \in Monitors /\ tracked[m] \in SetsType
    BY DEF Known, TypeOK, WorkerTypeOK
  <2>2. tracked'[m] = [max |-> tracked[m].max \ {w}, normal |-> tracked[m].normal \ {w}]
    BY <2>1 DEF RemoveWindow
  <2>3. ~Holds(m, w) /\ tracked[m].max \ {w} = tracked[m].max /\ tracked[m].normal \ {w} = tracked[m].normal
    BY <1>3 DEF Holds
  <2> QED
    BY <2>1, <2>2, <2>3 DEF SetsType
<1> QED
  BY <1>2, <1>3

(* InsertWindow refreshes what it changes, or returns to a reset.          *)
LEMMA InsertedFresh ==
  ASSUME Expected, KnownInv, FreshInv, TrackedOnce', SingleInv', InsertWindowDone
  PROVE  FreshInv'
<1>1. TypeOK /\ OneReset /\ Covered(stack) /\ stack \in Seq(Frame)
  BY DEF KnownInv, TypeOK, WorkerTypeOK
<1>2. OneTaskbar \/ WithoutVisibleRules
  BY DEF Expected
<1>3. UNCHANGED <<world, events, present, config, previews, shell, taskbars, shown, bars>>
  BY DEF InsertWindowDone, desktopVars, world, screen
<1>4. stack # <<>> /\ Top \in Frame /\ Tail(stack) \in Seq(Frame) /\ Top.at = "inserting" /\ Top.win \in Windows /\ Top.refresh \in BOOLEAN
  BY <1>1, TopType, FrameFields DEF InsertWindowDone, At
<1> DEFINE w == Top.win
           matches == w \notin config.ignored
<1>5. UpdateTracked(w, matches, Top.refresh, Tail(stack))
  BY DEF InsertWindowDone
<1>6. PICK todo \in SUBSET Monitors : stack' = Refreshing(todo) \o Tail(stack)
  BY <1>5 DEF UpdateTracked, Known
<1>7. \A F : On(Tail(stack), F) => On(stack', F)
  BY <1>4, <1>6, OnConcat, RefreshingFrames
<1> SUFFICES ASSUME NEW m \in Known', Live(m)' PROVE FreshAt(m)'
  BY DEF FreshInv, FreshAt
<1>8. m \in Known /\ Live(m)
  BY <1>3, LiveBefore DEF Known, Next, Resume
<1>9. FreshAt(m)
  BY <1>8 DEF FreshInv, FreshAt
<1>10. On(stack', Hot) \/ On(stack', Repainting(m)) => FreshAt(m)'
  BY DEF FreshAt, Due, Hot, Repainting
<1>11. CASE Top.refresh = FALSE
  <2>1. Top \in Quietly
    BY <1>4, <1>11 DEF Quietly
  <2>2. On(stack', Hot)
    BY <1>1, <1>4, <1>7, <2>1, QuietlyReturns
  <2> QED
    BY <1>10, <2>2
<1>12. CASE Top.refresh = TRUE
  <2>1. On(stack', Repainting(m)) \/ (tracked'[m] = tracked[m] /\ ~Holds(m, w))
    BY <1>1, <1>4, <1>5, <1>8, <1>12, UpdatedOrUntouched
  <2>2. CASE tracked'[m] = tracked[m] /\ ~Holds(m, w)
    <3>1. Top \notin Hot /\ Top \notin Repainting(m) /\ \A v : v # w => Top \notin Inserting(v)
      BY <1>4 DEF Hot, Repainting, Inserting, ResetFrames, ResetPlaces
    <3>2. /\ On(stack, Hot) => On(stack', Hot)
          /\ On(stack, Repainting(m)) => On(stack', Repainting(m))
          /\ \A v : v # w => (On(stack, Inserting(v)) => On(stack', Inserting(v)))
      BY <1>1, <1>4, <1>7, <3>1, PopFrame
    <3>3. \A v \in Windows : v # w /\ IsFixed(v) => IsFixed(v)'
      BY <1>3, <3>2 DEF IsFixed, Inserting, Gone, Changed
    <3>4. \A v \in Windows : Holds(m, v) /\ IsFixed(v) => Due(m)'
      BY <2>2, <3>3 DEF Due, Holds
    <3>5. \A v \in tracked[m].max : On(events, Raised(v)) => Due(m)'
      BY <1>3, <2>2 DEF Due, Raised
    <3>6. Stands(m)
      BY <3>2, <3>4, <3>5 DEF Stands, Due, Hot, Repainting
    <3>7. \A a \in Actives : InTrail(a) => InTrail(a)'
      BY <1>3 DEF InTrail, Announced
    <3> QED
      BY <1>1, <1>2, <1>3, <1>9, <2>2, <3>6, <3>7, Untouched
  <2> QED
    BY <1>10, <2>1, <2>2
<1> QED
  BY <1>4, <1>11, <1>12

(* A reset has every taskbar refreshed in the end.                         *)
LEMMA ResetFresh ==
  ASSUME Expected, KnownInv, FreshInv, TrackedOnce', SingleInv', ResetStep
  PROVE  FreshInv'
<1>1. TypeOK /\ OneReset /\ BlankInv /\ stack \in Seq(Frame)
  BY DEF KnownInv, ScreenInv, TypeOK, WorkerTypeOK
<1>2. OneTaskbar \/ WithoutVisibleRules
  BY DEF Expected
<1>3. stack # <<>> /\ Top \in Frame /\ Tail(stack) \in Seq(Frame) /\ Top.at \in ResetPlaces
  BY <1>1, ResetOnTop
<1> SUFFICES ASSUME NEW m \in Known', Live(m)' PROVE FreshAt(m)'
  BY DEF FreshInv, FreshAt
<1>4. CASE On(stack', Hot)
  BY <1>4 DEF FreshAt, Due, Hot
<1>5. CASE ApplyOrRetry /\ \A n \in Known : On(stack', Repainting(n))
  <2>1. m \in Known
    BY <1>5, BegunReset DEF ApplyOrRetry, Known
  <2> QED
    BY <1>5, <2>1 DEF FreshAt, Due, Repainting
<1>6. CASE (DetectTaskbar \/ InjectExplorerTAP \/ InsertTaskbars) /\ UNCHANGED <<taskbars, tracked, stack>>
  <2>1. Top \in Hot
    BY <1>3, <1>6, FrameKinds DEF DetectTaskbar, InjectExplorerTAP, InsertTaskbars, At
  <2>2. On(stack', Hot)
    BY <1>1, <1>3, <1>6, <2>1, PopFrame DEF On
  <2> QED
    BY <1>4, <2>2
<1>7. CASE DetectTaskbar /\ UNCHANGED <<taskbars, tracked>> /\ stack' = Tail(stack)
  <2>1. Top \in Opening
    BY <1>3, <1>7 DEF DetectTaskbar, At, Opening, ResetFrames
  <2>2. On(stack, Opening)
    BY <1>1, <1>3, <2>1, PopFrame
  <2> QED
    BY <1>1, <1>7, <2>2 DEF BlankInv, Known
<1>8. CASE FinishReset /\ UNCHANGED <<taskbars, tracked>> /\ stack' = Tail(stack)
  <2>1. UNCHANGED <<world, events, present, bars, config, previews, shell, taskbars, tracked, shown>>
    BY <1>8 DEF FinishReset, desktopVars, world, screen
  <2>2. m \in Known /\ Live(m)
    BY <2>1, LiveBefore DEF Known, Next, Resume, ResetStep
  <2>3. FreshAt(m)
    BY <2>2 DEF FreshInv, FreshAt
  <2>4. Top.at = "applying"
    BY <1>8 DEF FinishReset, At
  <2>5. Top \notin Hot /\ Top \notin Repainting(m) /\ \A v : Top \notin Inserting(v)
    BY <2>4 DEF Hot, Repainting, Inserting
  <2>6. /\ On(stack, Hot) => On(stack', Hot)
        /\ On(stack, Repainting(m)) => On(stack', Repainting(m))
        /\ \A v : On(stack, Inserting(v)) => On(stack', Inserting(v))
    BY <1>1, <1>3, <1>8, <2>5, PopFrame
  <2>7. \A v \in Windows : IsFixed(v) => IsFixed(v)'
    BY <2>1, <2>6 DEF IsFixed, Inserting, Gone, Changed
  <2>8. Stands(m)
    BY <2>1, <2>6, <2>7 DEF Stands, Due, Hot, Repainting, Holds, Raised
  <2>9. \A a \in Actives : InTrail(a) => InTrail(a)'
    BY <2>1 DEF InTrail, Announced
  <2>10. tracked'[m] = tracked[m] /\ shown'[m] = shown[m]
    BY <2>1
  <2> QED
    BY <1>1, <1>2, <2>1, <2>3, <2>8, <2>9, <2>10, Untouched
<1> QED
  BY <1>1, <1>4, <1>5, <1>6, <1>7, <1>8, ResetStacks

-----------------------------------------------------------------------------
(* The handlers push what they do on the stack.                            *)
LEMMA HandlerPushes ==
  ASSUME TypeOK, Handle \/ Call, ~(\E manual \in BOOLEAN : BeginReset(manual, stack))
  PROVE  \A F : On(stack, F) => On(stack', F)
<1>1. stack \in Seq(Frame)
  BY DEF TypeOK, WorkerTypeOK
<1>2. CASE UNCHANGED stack
  BY <1>2 DEF On
<1>3. ASSUME NEW p \in Seq(Frame), stack' = p \o stack PROVE \A F : On(stack, F) => On(stack', F)
  BY <1>1, <1>3, OnConcat
<1>4. CASE OnWindowStateChange
  <2> DEFINE w == Head(events).win
  <2>1. CASE ~Valid(w)
    BY <1>2, <1>4, <2>1 DEF OnWindowStateChange
  <2>2. CASE Valid(w)
    <3>1. InsertWindow(w, TRUE, stack) /\ w \in Windows \cup {Flyout}
      BY <1>4, <2>2 DEF OnWindowStateChange, Valid, TypeOK, DesktopTypeOK
    <3>2. PICK p \in Seq(Frame) : stack' = p \o stack
      BY <1>1, <3>1, PushedInsert DEF Pushed
    <3> QED
      BY <1>3, <3>2
  <2> QED
    BY <2>1, <2>2
<1> QED
  BY <1>1, <1>2, <1>3, <1>4, HandlerStacks, RefreshingFrames DEF Notes

(* What a handler leaves due.                                              *)
Takes == events # <<>> /\ events' = Tail(events)
Concerns(w) == Head(events) \in Gone(w) \cup Raised(w) \/ (w \in present /\ Head(events) \in Changed(w))

(* While a handler leaves a window alone, what is due for it stays due.    *)
LEMMA HandlerStands ==
  ASSUME TypeOK, Handle \/ Call, ~(\E manual \in BOOLEAN : BeginReset(manual, stack)),
         NEW m, tracked'[m] = tracked[m],
         UNCHANGED events \/ (Takes /\ \A w \in Windows : Holds(m, w) /\ Concerns(w) => Due(m)')
  PROVE  Stands(m)
<1>1. events \in Seq(WinEvent) /\ present \subseteq Windows /\ UNCHANGED present
  BY WorkerLeavesWorld DEF TypeOK, DesktopTypeOK, world
<1>2. \A F : On(stack, F) => On(stack', F)
  BY HandlerPushes
<1>3. ASSUME NEW w \in Windows, Holds(m, w), NEW F, On(events, F), Head(events) \in F => Concerns(w)
      PROVE  On(events', F) \/ Due(m)'
  <2>1. CASE UNCHANGED events
    BY <1>3, <2>1 DEF On
  <2>2. CASE Takes /\ \A v \in Windows : Holds(m, v) /\ Concerns(v) => Due(m)'
    BY <1>1, <1>3, <2>2, OnHead DEF Takes
  <2> QED
    BY <2>1, <2>2
<1>4. ASSUME NEW w \in Windows, Holds(m, w), IsFixed(w) PROVE Due(m)'
  <2>1. IsFixed(w)' => Due(m)'
    BY <1>4 DEF Due, Holds
  <2>2. CASE On(stack, Inserting(w))
    BY <1>2, <2>1, <2>2 DEF IsFixed, Inserting
  <2>3. CASE On(events, Gone(w))
    <3>1. On(events', Gone(w)) \/ Due(m)'
      BY <1>3, <1>4, <2>3 DEF Concerns
    <3> QED
      BY <2>1, <3>1 DEF IsFixed, Gone
  <2>4. CASE w \in present /\ On(events, Changed(w))
    <3>1. On(events', Changed(w)) \/ Due(m)'
      BY <1>3, <1>4, <2>4 DEF Concerns
    <3> QED
      BY <1>1, <2>1, <2>4, <3>1 DEF IsFixed, Changed
  <2> QED
    BY <1>4, <2>2, <2>3, <2>4 DEF IsFixed
<1>5. ASSUME NEW w \in tracked[m].max, w \in Windows, On(events, Raised(w)) PROVE Due(m)'
  <2>1. On(events', Raised(w)) \/ Due(m)'
    BY <1>3, <1>5 DEF Concerns, Holds
  <2> QED
    BY <1>5, <2>1 DEF Due, Raised
<1>6. ASSUME NEW w \in tracked[m].max, On(events, Raised(w)) PROVE w \in Windows
  BY <1>1, <1>6 DEF On, Raised, WinEvent
<1> QED
  BY <1>2, <1>4, <1>5, <1>6 DEF Stands, Due, Hot, Repainting

(* A handler that only takes a message off its queue as far as a taskbar   *)
(* is concerned.                                                           *)
LEMMA HandlerFresh ==
  ASSUME Expected, KnownInv, FreshInv, TrackedOnce', SingleInv',
         Handle \/ Call, ~(\E manual \in BOOLEAN : BeginReset(manual, stack)),
         UNCHANGED <<taskbars, config, previews, shell>>, NEW m \in Known', Live(m)',
         tracked'[m] = tracked[m], shown'[m] = shown[m],
         UNCHANGED events \/ (Takes /\ Head(events).kind # "foreground"
                               /\ \A w \in Windows : Holds(m, w) /\ Concerns(w) => Due(m)')
  PROVE  FreshAt(m)'
<1>1. TypeOK /\ events \in Seq(WinEvent)
  BY DEF KnownInv, TypeOK, DesktopTypeOK
<1>2. OneTaskbar \/ WithoutVisibleRules
  BY DEF Expected
<1>3. UNCHANGED <<world, bars>>
  BY <1>1, WorkerLeavesWorld DEF world
<1>4. Stands(m)
  BY <1>1, HandlerStands
<1>5. m \in Known /\ FreshAt(m)
  <2>1. m \in Known
    BY DEF Known
  <2>2. Live(m)
    BY <2>1, LiveBefore DEF Next
  <2> QED
    BY <2>1, <2>2 DEF FreshInv, FreshAt
<1>6. ASSUME NEW a \in Actives, InTrail(a) PROVE InTrail(a)'
  <2>1. CASE On(events, Announced(a))
    <3>1. On(events', Announced(a))
      <4>1. CASE UNCHANGED events
        BY <2>1, <4>1 DEF On
      <4>2. CASE Takes /\ Head(events).kind # "foreground"
        BY <1>1, <2>1, <4>2, OnHead DEF Takes, Announced
      <4> QED
        BY <4>1, <4>2
    <3> QED
      BY <3>1 DEF InTrail, Announced
  <2>2. CASE a = shell.foreground
    BY <2>2 DEF InTrail
  <2> QED
    BY <1>6, <2>1, <2>2 DEF InTrail
<1> QED
  BY <1>1, <1>2, <1>3, <1>4, <1>5, <1>6, Untouched

-----------------------------------------------------------------------------
(* The handlers that refresh every taskbar.                                *)
LEMMA RefreshAllFresh ==
  ASSUME TypeOK, UNCHANGED taskbars, RefreshAllAttributes(stack)
  PROVE  FreshInv'
<1>1. Known \in SUBSET Monitors /\ stack \in Seq(Frame)
  BY DEF Known, TypeOK, WorkerTypeOK
<1>2. \A m \in Known : On(stack', Repainting(m))
  BY <1>1, PushedRefreshes DEF RefreshAllAttributes
<1>3. Known' = Known
  BY DEF Known
<1> QED
  BY <1>2, <1>3 DEF FreshInv, Due, Repainting

(* A reset that begins knows no taskbar.                                   *)
LEMMA BegunFresh ==
  ASSUME NEW manual, NEW base, BeginReset(manual, base)
  PROVE  FreshInv'
BY BegunReset DEF FreshInv

(* The handlers that reset.                                                *)
LEMMA ResettersFresh ==
  ASSUME Expected, KnownInv, FreshInv, TrackedOnce', SingleInv',
         OnTaskbarCreateDestroy \/ OnDisplayChange \/ OnSystemSettingsChange \/ ManualReset
  PROVE  FreshInv'
<1>1. TypeOK
  BY DEF KnownInv
<1>2. CASE \E manual \in BOOLEAN : BeginReset(manual, stack)
  BY <1>2, BegunFresh
<1>3. CASE ~(\E manual \in BOOLEAN : BeginReset(manual, stack))
  <2>1. \A manual \in BOOLEAN : ResetState(manual) => UNCHANGED <<taskbars, tracked, shell, config, previews, stack>>
    BY <1>3 DEF ResetState
  <2>2. UNCHANGED <<taskbars, tracked, shell, config, previews, shown>>
    BY <2>1 DEF OnTaskbarCreateDestroy, OnDisplayChange, OnSystemSettingsChange, ManualReset, members, screen
  <2>3. UNCHANGED events \/ (Takes /\ Head(events).kind \in {"barCreated", "barDestroyed"})
    BY DEF OnTaskbarCreateDestroy, OnDisplayChange, OnSystemSettingsChange, ManualReset, NextEvent, NextSent, NextPosted, Takes, queues
  <2>4. \A w : Concerns(w) => Head(events).kind \in {"hidden", "destroyed", "reorder", "changed"}
    BY DEF Concerns, Gone, Raised, Changed
  <2>5. Handle \/ Call
    BY DEF Handle, Call
  <2> SUFFICES ASSUME NEW m \in Known', Live(m)' PROVE FreshAt(m)'
    BY DEF FreshInv, FreshAt
  <2>6. tracked'[m] = tracked[m] /\ shown'[m] = shown[m]
    BY <2>2
  <2> QED
    BY <1>3, <2>2, <2>3, <2>4, <2>5, <2>6, HandlerFresh
<1> QED
  BY <1>2, <1>3

(* A window that changed is inserted again, on the taskbars it leaves and  *)
(* enters.                                                                 *)
LEMMA StateChangeFresh ==
  ASSUME Expected, KnownInv, FreshInv, TrackedOnce', SingleInv', OnWindowStateChange
  PROVE  FreshInv'
<1> DEFINE w == Head(events).win
<1>1. TypeOK /\ events \in Seq(WinEvent) /\ stack \in Seq(Frame) /\ Handle /\ Takes /\ Head(events) \in WinEvent /\ Head(events).kind = "changed"
      /\ UNCHANGED <<taskbars, config, previews, shell, shown>>
  BY HeadElements DEF KnownInv, TypeOK, DesktopTypeOK, WorkerTypeOK, Handle, OnWindowStateChange, NextEvent, Takes, NoReset, screen
<1>2. w \in Windows /\ w # Flyout
  BY <1>1, NamesAssumption DEF WinEvent
<1>3. \A v : Concerns(v) => v = w /\ w \in present
  BY <1>1 DEF Concerns, Gone, Raised, Changed
<1>4. CASE \E manual \in BOOLEAN : BeginReset(manual, stack)
  BY <1>4, BegunFresh
<1>5. CASE ~(\E manual \in BOOLEAN : BeginReset(manual, stack))
  <2> SUFFICES ASSUME NEW m \in Known', Live(m)' PROVE FreshAt(m)'
    BY DEF FreshInv, FreshAt
  <2>1. ASSUME tracked'[m] = tracked[m], w \in present /\ Holds(m, w) => Due(m)' PROVE FreshAt(m)'
    <3>1. \A v \in Windows : Holds(m, v) /\ Concerns(v) => Due(m)'
      BY <1>3, <2>1
    <3>2. shown'[m] = shown[m]
      BY <1>1
    <3> QED
      BY <1>1, <1>5, <2>1, <3>1, <3>2, HandlerFresh
  <2>2. m \in Known
    BY <1>1 DEF Known
  <2>3. CASE ~Valid(w)
    <3>1. UNCHANGED tracked /\ w \notin present
      BY <1>1, <2>3 DEF OnWindowStateChange, Valid
    <3> QED
      BY <2>1, <3>1
  <2>4. CASE Valid(w)
    <3>1. InsertWindow(w, TRUE, stack)
      BY <2>4 DEF OnWindowStateChange
    <3>2. CASE LooksLikeUserWindow(w)
      <4> DEFINE f == [at |-> "inserting", win |-> w, refresh |-> TRUE]
      <4>1. f \in Frame /\ f \in Inserting(w)
        BY <1>2 DEF Inserting, Frame
      <4>2. stack' = <<f>> \o stack /\ UNCHANGED tracked
        BY <1>2, <3>1, <3>2 DEF InsertWindow
      <4> HIDE DEF f
      <4>3. On(stack', Inserting(w))
        BY <1>1, <4>1, <4>2, PushFrame
      <4>4. Holds(m, w) => Due(m)'
        BY <1>2, <4>2, <4>3 DEF Due, IsFixed, Inserting, Holds
      <4> QED
        BY <2>1, <4>2, <4>4
    <3>3. CASE ~LooksLikeUserWindow(w)
      <4>1. UpdateTracked(w, FALSE, TRUE, stack)
        BY <1>2, <3>1, <3>3 DEF InsertWindow
      <4>2. On(stack', Repainting(m)) \/ (tracked'[m] = tracked[m] /\ ~Holds(m, w))
        BY <1>1, <1>2, <2>2, <4>1, UpdatedOrUntouched
      <4>3. On(stack', Repainting(m)) => FreshAt(m)'
        BY DEF FreshAt, Due, Repainting
      <4> QED
        BY <2>1, <4>2, <4>3
    <3> QED
      BY <3>2, <3>3
  <2> QED
    BY <2>3, <2>4
<1> QED
  BY <1>4, <1>5

(* A window that goes away is taken from the taskbars it was counted for.  *)
LEMMA RemoveFresh ==
  ASSUME Expected, KnownInv, FreshInv, TrackedOnce', SingleInv', WindowRemove
  PROVE  FreshInv'
<1> DEFINE w == Head(events).win
<1>1. TypeOK /\ events \in Seq(WinEvent) /\ Handle /\ Takes /\ Head(events).kind \in {"hidden", "destroyed"} /\ RemoveWindow(w)
      /\ UNCHANGED <<taskbars, config, previews, shell, shown>>
  BY DEF KnownInv, TypeOK, DesktopTypeOK, Handle, WindowRemove, NextEvent, Takes, NoReset, screen
<1>2. \A v : Concerns(v) => v = w
  BY <1>1 DEF Concerns, Gone, Raised, Changed
<1>3. CASE \E manual \in BOOLEAN : BeginReset(manual, stack)
  BY <1>3, BegunFresh
<1>4. CASE ~(\E manual \in BOOLEAN : BeginReset(manual, stack))
  <2> SUFFICES ASSUME NEW m \in Known', Live(m)' PROVE FreshAt(m)'
    BY DEF FreshInv, FreshAt
  <2>1. m \in Known
    BY <1>1 DEF Known
  <2>2. CASE On(stack', Repainting(m))
    BY <2>2 DEF FreshAt, Due, Repainting
  <2>3. CASE tracked'[m] = tracked[m] /\ ~Holds(m, w)
    <3>1. \A v \in Windows : Holds(m, v) /\ Concerns(v) => Due(m)'
      BY <1>2, <2>3
    <3>2. shown'[m] = shown[m]
      BY <1>1
    <3> QED
      BY <1>1, <1>4, <2>3, <3>1, <3>2, HandlerFresh
  <2> QED
    BY <1>1, <2>1, <2>2, <2>3, RemovedOrUntouched
<1> QED
  BY <1>3, <1>4

(* A window that came to the top: only its own monitor looks at it.        *)
LEMMA OrderFresh ==
  ASSUME Expected, KnownInv, FreshInv, TrackedOnce', SingleInv', OnWindowOrderChange
  PROVE  FreshInv'
<1> DEFINE w == Head(events).win
<1>1. TypeOK /\ PlacesInv /\ events \in Seq(WinEvent) /\ stack \in Seq(Frame) /\ present \subseteq Windows
      /\ Handle /\ Takes /\ Head(events) \in WinEvent /\ Head(events).kind = "reorder"
      /\ UNCHANGED <<taskbars, tracked, config, previews, shell, shown, present>>
      /\ stack' = Refreshing(Known \cap {MonitorOf(w)}) \o stack
  BY HeadElements DEF KnownInv, TypeOK, DesktopTypeOK, WorkerTypeOK, Handle, OnWindowOrderChange, NextEvent, Takes, NoReset, screen, world
<1>2. \A v : Concerns(v) => v = w
  BY <1>1 DEF Concerns, Gone, Raised, Changed
<1>3. CASE \E manual \in BOOLEAN : BeginReset(manual, stack)
  BY <1>3, BegunFresh
<1>4. CASE ~(\E manual \in BOOLEAN : BeginReset(manual, stack))
  <2> SUFFICES ASSUME NEW m \in Known', Live(m)' PROVE FreshAt(m)'
    BY DEF FreshInv, FreshAt
  <2>1. m \in Known /\ m \in Monitors
    BY <1>1 DEF Known
  <2>2. CASE m = MonitorOf(w)
    <3>1. m \in Known \cap {MonitorOf(w)} /\ Known \cap {MonitorOf(w)} \in SUBSET Monitors
      BY <2>1, <2>2 DEF Known
    <3>2. On(stack', Repainting(m))
      BY <1>1, <3>1, PushedRefreshes
    <3> QED
      BY <3>2 DEF FreshAt, Due, Repainting
  <2>3. CASE m # MonitorOf(w)
    <3>1. ASSUME NEW v \in Windows, v = w, Holds(m, v) PROVE Due(m)'
      <4>1. ~IsRight(m, v)
        BY <2>3, <3>1, NamesAssumption DEF IsRight, MonitorOf
      <4>2. IsFixed(v)
        BY <1>1, <2>1, <3>1, <4>1 DEF PlacesInv
      <4>3. On(stack, Inserting(v)) => On(stack', Inserting(v))
        BY <1>1, <1>4, HandlerPushes
      <4>4. \A F : (\A e \in F : e.kind # "reorder") => (On(events, F) => On(events', F))
        BY <1>1, OnHead DEF Takes
      <4>5. /\ On(events, Gone(v)) => On(events', Gone(v))
            /\ On(events, Changed(v)) => On(events', Changed(v))
        BY <4>4 DEF Gone, Changed
      <4>6. IsFixed(v)'
        BY <1>1, <4>2, <4>3, <4>5 DEF IsFixed, Inserting, Gone, Changed
      <4> QED
        BY <1>1, <3>1, <4>6 DEF Due, Holds
    <3>2. \A v \in Windows : Holds(m, v) /\ Concerns(v) => Due(m)'
      BY <1>2, <3>1
    <3>3. shown'[m] = shown[m] /\ tracked'[m] = tracked[m]
      BY <1>1
    <3> QED
      BY <1>1, <1>4, <3>2, <3>3, HandlerFresh
  <2> QED
    BY <2>2, <2>3
<1> QED
  BY <1>3, <1>4

(* The window that comes to the foreground is announced before it is one   *)
(* of the monitor at hand; the one that was there before is not any more.  *)
LEMMA ForegroundFresh ==
  ASSUME Expected, KnownInv, FreshInv, TrackedOnce', SingleInv', OnForegroundWindowChange
  PROVE  FreshInv'
<1> SUFFICES ASSUME NEW w, w = Head(events).win, NEW s, s = shell.foreground, NEW new, new = IF Valid(w) THEN w ELSE NoWindow
             PROVE  FreshInv'
  OBVIOUS
<1>1. /\ TypeOK /\ PlacesInv /\ events \in Seq(WinEvent) /\ stack \in Seq(Frame) /\ present \subseteq Windows
      /\ OneTaskbar \/ WithoutVisibleRules
      /\ Handle /\ Takes /\ Head(events) \in WinEvent /\ Head(events).kind = "foreground"
      /\ UNCHANGED <<world, taskbars, tracked, config, previews, shown, present>>
      /\ shell' = [shell EXCEPT !.foreground = new]
      /\ stack' = Refreshing(Known \cap {MonitorOf(s), MonitorOf(new)}) \o stack
  BY HeadElements DEF KnownInv, TypeOK, DesktopTypeOK, WorkerTypeOK, Expected, Handle, OnForegroundWindowChange, NextEvent, Takes, NoReset, screen, world
<1>2. s \in Windows \cup {NoWindow, Flyout} /\ w \in Windows \cup {NoWindow, Flyout} /\ shell \in ShellType
  BY <1>1 DEF WinEvent, TypeOK, WorkerTypeOK, ShellType
<1>3. SameShell /\ shell'.foreground = new /\ new \in Actives /\ new \in {w, NoWindow} /\ (new # w => w \notin present)
  BY <1>1, <1>2 DEF SameShell, ShellType, Actives, Valid
<1>4. CASE \E manual \in BOOLEAN : BeginReset(manual, stack)
  BY <1>4, BegunFresh
<1>5. CASE ~(\E manual \in BOOLEAN : BeginReset(manual, stack))
  <2> SUFFICES ASSUME NEW m \in Known', Live(m)' PROVE FreshAt(m)'
    BY DEF FreshInv, FreshAt
  <2>1. m \in Known /\ m \in Monitors /\ Live(m) /\ tracked'[m] = tracked[m] /\ shown'[m] = shown[m]
    <3>1. m \in Known /\ m \in Monitors
      BY <1>1 DEF Known
    <3>2. Live(m)
      BY <1>1, <3>1, LiveBefore DEF Next
    <3> QED
      BY <1>1, <3>1, <3>2
  <2>2. CASE m \in {MonitorOf(s), MonitorOf(new)}
    <3>1. m \in Known \cap {MonitorOf(s), MonitorOf(new)} /\ Known \cap {MonitorOf(s), MonitorOf(new)} \in SUBSET Monitors
      BY <2>1, <2>2 DEF Known
    <3>2. On(stack', Repainting(m))
      BY <1>1, <3>1, PushedRefreshes
    <3> QED
      BY <3>2 DEF FreshAt, Due, Repainting
  <2>3. CASE Due(m)
    <3>1. \A v : ~Concerns(v)
      BY <1>1 DEF Concerns, Gone, Raised, Changed
    <3>2. Stands(m)
      BY <1>1, <1>5, <2>1, <3>1, HandlerStands
    <3> QED
      BY <2>3, <3>2, DueStands DEF FreshAt
  <2>4. CASE m \notin {MonitorOf(s), MonitorOf(new)} /\ ~Due(m)
    <3>1. ASSUME NEW v \in Windows, Holds(m, v) PROVE v \in present /\ desk[v].mon = m
      <4>1. ~IsFixed(v)
        BY <2>4, <3>1 DEF Due
      <4> QED
        BY <1>1, <2>1, <3>1, <4>1 DEF PlacesInv, IsRight
    <3>2. ASSUME NEW v \in {s, new, w} PROVE ~(v \in Windows /\ Holds(m, v))
      BY <1>3, <2>4, <3>1, <3>2, NamesAssumption DEF MonitorOf
    <3>3. ~ForegroundHeld(m) /\ ~ForegroundHeld(m)'
      BY <1>3, <2>1, <3>2 DEF ForegroundHeld, Holds
    <3>4. tracked[m].max \subseteq Windows
      BY <1>1, <2>1 DEF TypeOK, WorkerTypeOK, SetsType
    <3>5. s \notin tracked[m].max /\ new \notin tracked[m].max /\ w \notin tracked[m].max
      BY <3>2, <3>4 DEF Holds
    <3>6. HighestOf(tracked[m].max)' = HighestOf(tracked[m].max)
      BY <1>1, <2>1, HighestKept
    <3>7. ASSUME NEW a \in Actives, NEW b \in Actives, Fits(m, a), InTrail(b)',
                 a # b => a \notin tracked[m].max /\ b \notin tracked[m].max
          PROVE  Right(m)'
      <4>1. Demand(m, b)' = Demand(m, a)
        BY <1>1, <1>3, <2>1, <3>3, <3>6, <3>7, DemandMoved
      <4> QED
        BY <2>1, <3>7, <4>1 DEF Right, Fits, Colour
    <3>8. ASSUME NEW a \in Actives, Fits(m, a) PROVE Right(m)'
      <4>1. CASE On(events', Announced(a))
        <5>1. InTrail(a)'
          BY <4>1 DEF InTrail, Announced
        <5> QED
          BY <3>7, <3>8, <5>1
      <4>2. CASE ~On(events', Announced(a))
        <5>1. a = s \/ a = w
          <6>1. CASE On(events, Announced(a))
            <7>1. Head(events) \in Announced(a)
              BY <1>1, <4>2, <6>1, OnHead DEF Takes
            <7> QED
              BY <7>1 DEF Announced
          <6> QED
            BY <3>8, <6>1 DEF Fits, InTrail
        <5>2. InTrail(new)'
          BY <1>3 DEF InTrail
        <5> QED
          BY <1>3, <3>5, <3>7, <3>8, <5>1, <5>2
      <4> QED
        BY <4>1, <4>2
    <3>9. shown[m] \in Loose => Right(m)'
      BY <1>1, <2>1, LooseKept DEF Right
    <3> QED
      BY <2>1, <2>4, <3>8, <3>9 DEF FreshInv, FreshAt, Right
  <2> QED
    BY <2>2, <2>3, <2>4
<1> QED
  BY <1>4, <1>5

-----------------------------------------------------------------------------
(* A taskbar that the hook asks for is painted as it should be, and one    *)
(* that is left to Explorer is one that should be normal.                  *)
LEMMA RequestFresh ==
  ASSUME Expected, KnownInv, FreshInv, TrackedOnce', SingleInv', OnRequestAttributeRefresh
  PROVE  FreshInv'
<1>1. TypeOK /\ (OneTaskbar \/ WithoutVisibleRules)
  BY DEF KnownInv, Expected
<1>2. UNCHANGED <<world, events, present, config, previews, shell, taskbars, tracked, stack, bars>>
  BY DEF OnRequestAttributeRefresh, NextSent, world
<1> SUFFICES ASSUME NEW m \in Known', Live(m)' PROVE FreshAt(m)'
  BY DEF FreshInv, FreshAt
<1>3. m \in Known /\ m \in Monitors /\ Live(m) /\ tracked'[m] = tracked[m] /\ FreshAt(m)
  <2>1. m \in Known /\ m \in Monitors
    BY <1>2 DEF Known
  <2>2. Live(m)
    BY <2>1, LiveBefore DEF Next, Handle
  <2> QED
    BY <1>2, <2>1, <2>2 DEF FreshInv, FreshAt
<1>4. \A w : IsFixed(w) => IsFixed(w)'
  BY <1>2 DEF IsFixed, Inserting, Gone, Changed
<1>5. Stands(m)
  BY <1>2, <1>4 DEF Stands, Due, Holds, Hot, Repainting, Raised
<1>6. shown'[m] = shown[m] \/ shown'[m] = Colour(GetConfig(m))
  <2>1. ASSUME NEW n \in Known, SetAttribute(n, GetConfig(n)) PROVE shown'[m] = shown[m] \/ shown'[m] = Colour(GetConfig(m))
    <3>1. shown \in [Monitors -> Colours \cup {Stock}]
      BY <1>1 DEF TypeOK, WorkerTypeOK
    <3>2. CASE n = m
      BY <1>3, <2>1, <3>1, <3>2, AnswerIsShown DEF Expected, KnownInv, ScreenInv
    <3>3. CASE n # m
      BY <1>3, <2>1, <3>1, <3>3 DEF SetAttribute, Painted
    <3> QED
      BY <3>2, <3>3
  <2>2. CASE /\ \A n \in Known : service \/ taskbars[n] # Head(sent).bar \/ bars[n] # Head(sent).bar \/ GetConfig(n).accent = "normal"
             /\ shown' = [n \in Monitors |-> IF bars[n] = Head(sent).bar /\ TaskbarKind # "XAML" THEN Stock ELSE shown[n]]
    <3>1. CASE bars[m] = Head(sent).bar /\ TaskbarKind # "XAML"
      <4>1. ~service
        BY <3>1 DEF KnownInv, ScreenInv, ServiceInv
      <4>2. shown'[m] = Stock /\ GetConfig(m).accent = "normal"
        BY <1>3, <2>2, <3>1, <4>1 DEF Live
      <4> QED
        BY <4>2 DEF Colour
    <3>2. CASE ~(bars[m] = Head(sent).bar /\ TaskbarKind # "XAML")
      BY <1>3, <2>2, <3>2
    <3> QED
      BY <3>1, <3>2
  <2> QED
    BY <2>1, <2>2 DEF OnRequestAttributeRefresh
<1>7. CASE shown'[m] = shown[m]
  <2>1. \A a \in Actives : InTrail(a) => InTrail(a)'
    BY <1>2 DEF InTrail, Announced
  <2> QED
    BY <1>1, <1>2, <1>3, <1>5, <1>7, <2>1, Untouched
<1>8. CASE shown'[m] = Colour(GetConfig(m))
  BY <1>2, <1>3, <1>5, <1>8, PaintedFresh DEF Stands
<1> QED
  BY <1>6, <1>7, <1>8

(* The handlers that remain: most refresh every taskbar, one posts its     *)
(* message back, and that of the flyouts has nothing to handle.            *)
LEMMA HandleFresh ==
  ASSUME Expected, KnownInv, FreshInv, TrackedOnce', SingleInv', Handle \/ Call
  PROVE  FreshInv'
<1>1. TypeOK
  BY DEF KnownInv
<1>2. CASE OnSettingChangeSent
  <2>1. UNCHANGED <<events, taskbars, config, previews, shell, tracked, shown, stack>>
    BY <1>2 DEF OnSettingChangeSent, NextSent, NoReset, screen
  <2>2. CASE \E manual \in BOOLEAN : BeginReset(manual, stack)
    BY <2>2, BegunFresh
  <2>3. CASE ~(\E manual \in BOOLEAN : BeginReset(manual, stack))
    <3> SUFFICES ASSUME NEW m \in Known', Live(m)' PROVE FreshAt(m)'
      BY DEF FreshInv, FreshAt
    <3>1. tracked'[m] = tracked[m] /\ shown'[m] = shown[m]
      BY <2>1
    <3> QED
      BY <2>1, <2>3, <3>1, HandlerFresh
  <2> QED
    BY <2>2, <2>3
<1>3. CASE OnAeroPeekEnterExit \/ OnPowerBroadcast \/ OnApplyColorPreview \/ OnTaskViewVisibilityChange
  <2>1. UNCHANGED taskbars /\ RefreshAllAttributes(stack)
    BY <1>3 DEF OnAeroPeekEnterExit, OnPowerBroadcast, OnApplyColorPreview, OnTaskViewVisibilityChange, NoReset
  <2> QED
    BY <1>1, <2>1, RefreshAllFresh
<1>4. CASE (\E c \in Configs : ConfigurationChanged(c)) \/ \E mode \in PickedModes : RemoveColorPreview(mode)
  <2>1. UNCHANGED taskbars /\ RefreshAllAttributes(stack)
    BY <1>4 DEF ConfigurationChanged, RemoveColorPreview
  <2> QED
    BY <1>1, <2>1, RefreshAllFresh
<1>5. CASE OnFlyoutVisibilityChange
  <2>1. posted \in Seq(PostedMessage) /\ posted # <<>> /\ Head(posted).kind = "flyout"
    BY <1>1, <1>5 DEF OnFlyoutVisibilityChange, NextPosted, TypeOK, DesktopTypeOK
  <2>2. Head(posted) \in PostedMessage
    BY <2>1, HeadElements
  <2>3. Head(posted).flyout \in Flyouts /\ Head(posted) \in OfFlyout(Head(posted).flyout)
    BY <2>1, <2>2 DEF PostedMessage, OfFlyout
  <2>4. On(posted, OfFlyout(Head(posted).flyout))
    BY <2>1, <2>3, OnHead
  <2> QED
    BY <2>3, <2>4 DEF KnownInv, ScreenInv, UnaskedInv, Expected
<1> QED
  BY <1>2, <1>3, <1>4, <1>5, StateChangeFresh, RemoveFresh, OrderFresh, ForegroundFresh, RequestFresh, ResettersFresh DEF Handle, Call

(* Time changes nothing of it.                                             *)
LEMMA TimeFresh ==
  ASSUME Expected, KnownInv, FreshInv, TrackedOnce', SingleInv', TimePasses \/ UNCHANGED vars
  PROVE  FreshInv'
<1>1. TypeOK /\ (OneTaskbar \/ WithoutVisibleRules)
  BY DEF KnownInv, Expected
<1>2. UNCHANGED <<world, bars, present, events, config, previews, shell, tracked, taskbars, shown, stack>>
  BY DEF TimePasses, vars, desktopVars, world, members, screen
<1> SUFFICES ASSUME NEW m \in Known', Live(m)' PROVE FreshAt(m)'
  BY DEF FreshInv, FreshAt
<1>3. FreshAt(m) /\ tracked'[m] = tracked[m] /\ shown'[m] = shown[m]
  <2>1. m \in Known
    BY <1>2 DEF Known
  <2>2. Live(m)
    BY <2>1, LiveBefore DEF Next
  <2> QED
    BY <1>2, <2>1, <2>2 DEF FreshInv, FreshAt
<1>4. \A w : IsFixed(w) => IsFixed(w)'
  BY <1>2 DEF IsFixed, Inserting, Gone, Changed
<1>5. Stands(m)
  BY <1>2, <1>4 DEF Stands, Due, Holds, Hot, Repainting, Raised
<1>6. \A a \in Actives : InTrail(a) => InTrail(a)'
  BY <1>2 DEF InTrail, Announced
<1> QED
  BY <1>1, <1>2, <1>3, <1>5, <1>6, Untouched

-----------------------------------------------------------------------------
(* What the desktop does is told to the worker before it matters.          *)
LEMMA FixedGrows ==
  ASSUME TypeOK, Environment, NEW v \in Windows, IsFixed(v)
  PROVE  IsFixed(v)'
<1>1. UNCHANGED stack /\ Grows(events, events')
  BY QueuesGrow DEF Environment
<1>2. CASE On(stack, Inserting(v))
  BY <1>1, <1>2 DEF IsFixed, Inserting
<1>3. CASE On(events, Gone(v))
  BY <1>1, <1>3 DEF IsFixed, Gone, Grows
<1>4. CASE v \in present /\ On(events, Changed(v))
  <2>1. On(events', Changed(v))
    BY <1>1, <1>4 DEF Grows
  <2>2. v \in present' \/ On(events', Gone(v))
    <3>1. ASSUME NEW w \in Windows, OfWindow(w) PROVE v \in present' \/ On(events', Gone(v))
      BY <1>4, <3>1, WindowChanges
    <3> QED
      BY <1>4, <3>1, OnlyWindowsChange
  <2> QED
    BY <2>1, <2>2 DEF IsFixed, Gone, Changed
<1> QED
  BY <1>2, <1>3, <1>4 DEF IsFixed

(* What the desktop does leaves a taskbar as it is, or what will refresh   *)
(* it is queued.                                                           *)
LEMMA EnvironmentFresh ==
  ASSUME Expected, KnownInv, FreshInv, TrackedOnce', SingleInv', Environment
  PROVE  FreshInv'
<1>1. TypeOK /\ (OneTaskbar \/ WithoutVisibleRules)
  BY DEF KnownInv, Expected
<1>2. UNCHANGED <<config, previews, shell, tracked, taskbars, stack>> /\ Grows(events, events')
  BY <1>1, QueuesGrow DEF Environment, members
<1> SUFFICES ASSUME NEW m \in Known', Live(m)' PROVE FreshAt(m)'
  BY DEF FreshInv, FreshAt
<1>3. m \in Known /\ m \in Monitors /\ taskbars[m] = bars'[m] /\ tracked'[m] = tracked[m]
  BY <1>2 DEF Known, Live
<1>4. Live(m) /\ shown'[m] = shown[m]
  <2>1. shown'[m] = shown[m]
    BY <1>1, <1>3, SameBar
  <2>2. Live(m)
    BY <1>3, LiveBefore DEF Next
  <2> QED
    BY <2>1, <2>2
<1>5. tracked[m].max \in SUBSET Windows
  BY <1>1, <1>3 DEF TypeOK, WorkerTypeOK, SetsType
<1>6. CASE Due(m)
  <2>1. CASE On(stack, Hot) \/ On(stack, Repainting(m))
    BY <1>2, <2>1 DEF FreshAt, Due, Hot, Repainting
  <2>2. ASSUME NEW w \in Windows, Holds(m, w), IsFixed(w) PROVE Due(m)'
    BY <1>1, <1>3, <2>2, FixedGrows DEF Due, Holds
  <2>3. ASSUME NEW w \in tracked[m].max, On(events, Raised(w)) PROVE Due(m)'
    BY <1>2, <1>3, <2>3 DEF Due, Grows, Raised
  <2> QED
    BY <1>6, <2>1, <2>2, <2>3 DEF Due, FreshAt
<1>7. CASE Right(m)
  <2>1. CASE shown[m] \in Loose
    BY <1>1, <1>2, <1>3, <1>4, <2>1, LooseKept DEF FreshAt, Right
  <2>2. ASSUME NEW a \in Actives, Fits(m, a), HighestOf(tracked[m].max)' = HighestOf(tracked[m].max) PROVE FreshAt(m)'
    <3>1. Demand(m, a)' = Demand(m, a)
      BY <1>2, <1>3, <2>2, DemandKept
    <3>2. InTrail(a)'
      BY <1>2, <2>2 DEF Fits, InTrail, Announced, Grows
    <3> QED
      BY <1>4, <2>2, <3>1, <3>2 DEF FreshAt, Right, Fits, Colour
  <2>3. ASSUME NEW w \in Windows, OfWindow(w), w \in tracked[m].max PROVE FreshAt(m)'
    <3>1. CASE On(events', Raised(w))
      BY <1>3, <2>3, <3>1 DEF FreshAt, Due, Raised
    <3>2. CASE On(events', Gone(w)) \/ (w \in present' /\ On(events', Changed(w)))
      <4>1. IsFixed(w)'
        BY <3>2 DEF IsFixed, Gone, Changed
      <4> QED
        BY <1>3, <2>3, <4>1 DEF FreshAt, Due, Holds
    <3> QED
      BY <1>1, <2>3, <3>1, <3>2, WindowChanges
  <2>4. ASSUME NEW w \in Windows, OfWindow(w), w \notin tracked[m].max
        PROVE  HighestOf(tracked[m].max)' = HighestOf(tracked[m].max)
    <3>1. PICK S \in SUBSET Windows : S = tracked[m].max
      BY <1>5
    <3>2. HighestOf(S)' = HighestOf(S)
      BY <1>1, <2>4, <3>1, HighestStands
    <3>3. tracked'[m].max = S
      BY <1>3, <3>1
    <3> QED
      BY <3>1, <3>2, <3>3 DEF HighestOf, Highest
  <2>5. ASSUME UNCHANGED <<desk, present, above>> PROVE HighestOf(tracked[m].max)' = HighestOf(tracked[m].max)
    BY <1>3, <2>5 DEF HighestOf, Highest
  <2> QED
    BY <1>7, <2>1, <2>2, <2>3, <2>4, <2>5, OnlyWindowsChange DEF Right
<1> QED
  BY <1>3, <1>4, <1>6, <1>7 DEF FreshInv, FreshAt

(* The invariant: every step keeps it, and it holds initially.             *)
LEMMA FreshStep == Expected /\ KnownInv /\ TrackedOnce' /\ SingleInv' /\ FreshInv /\ [Next]_vars => FreshInv'
<1> SUFFICES ASSUME Expected, KnownInv, TrackedOnce', SingleInv', FreshInv, [Next]_vars PROVE FreshInv'
  OBVIOUS
<1>1. CASE Resume
  BY <1>1, RefreshFresh, InsertedFresh, ResetFresh DEF Resume, ResetStep
<1>2. CASE Handle \/ Call
  BY <1>2, HandleFresh
<1>3. CASE TimePasses \/ UNCHANGED vars
  BY <1>3, TimeFresh
<1>4. CASE Environment
  BY <1>4, EnvironmentFresh
<1> QED
  BY <1>1, <1>2, <1>3, <1>4 DEF Next

LEMMA FreshInit == Init => FreshInv
BY DEF Init, FreshInv, Known

(* What else it rests on.                                                  *)
LEMMA KnownStep == KnownInv /\ [Next]_vars => KnownInv'
<1> SUFFICES ASSUME KnownInv, [Next]_vars PROVE KnownInv'
  OBVIOUS
<1>1. Covered(stack')
  <2>1. CASE Next
    BY <2>1, CoveredStep DEF KnownInv
  <2>2. CASE UNCHANGED vars
    BY <2>2 DEF KnownInv, vars
  <2> QED
    BY <2>1, <2>2
<1>2. TypeOK' /\ OneReset' /\ TrackedOnce' /\ PlacesInv' /\ FollowInv' /\ ScreenInv'
  BY StepType, OneResetStep, TrackedOnceStep, PlacesStep, FollowStep, ScreenStep DEF KnownInv
<1> QED
  BY <1>1, <1>2 DEF KnownInv, Covered, LastIsIn, Hot, Quietly

LEMMA KnownInit == Init => KnownInv
<1> SUFFICES ASSUME Init PROVE KnownInv
  OBVIOUS
<1>1. Covered(stack)
  <2> DEFINE f == [at |-> "clearing", manual |-> TRUE, waits |-> FALSE]
  <2>1. f \in Frame /\ f.at = "clearing" /\ stack = <<f>>
    BY DEF Frame, Init
  <2> HIDE DEF f
  <2>2. f \in Hot
    BY <2>1, FrameKinds
  <2> QED
    BY <2>1, <2>2, LastFew DEF Covered
<1> QED
  BY <1>1, InitType, OneResetInit, TrackedOnceInit, PlacesInit, FollowInit, ScreenInit DEF KnownInv

(* Once everything is handled nothing is due, and the trail is the active  *)
(* window.                                                                 *)
LEMMA FreshWhenQuiet == Expected /\ KnownInv /\ FreshInv => AppearanceFollowsState
<1> SUFFICES ASSUME Expected, KnownInv, FreshInv, Quiet, NEW m \in Known, Live(m)
             PROVE  \/ shown[m] = Colour(GetConfig(m))
                    \/ {shown[m], Colour(GetConfig(m))} \cap Loose # {}
  BY DEF AppearanceFollowsState, Loose, Live
<1>1. \A F : ~On(stack, F) /\ ~On(events, F)
  BY OnFew DEF Quiet
<1>2. \A w : ~IsFixed(w)
  BY <1>1 DEF IsFixed
<1>3. /\ front \in Actives /\ InTrail(front)
      /\ Colour(GetConfig(m)) \in Loose \/ Colour(GetConfig(m)) = Colour(Demand(m, front))
  BY <1>1, <1>2, AnswerIsRight DEF KnownInv, ScreenInv, Expected
<1>4. \A a : InTrail(a) => a = front
  BY <1>1, <1>3 DEF InTrail
<1>5. Right(m)
  BY <1>1, <1>2 DEF FreshInv, Due
<1> QED
  BY <1>3, <1>4, <1>5 DEF Right, Fits

(* Once everything is handled, every taskbar shows what GetConfig gives    *)
(* for the state of the worker, whatever changes of windows, displays,     *)
(* configurations, previews, Task View, peek and Explorer, resets and      *)
(* refreshes ran within each other: if the service can be reached, if no   *)
(* flyout opens, if there is one taskbar or no rule for visible windows,   *)
(* and if no classic taskbar is asked to look normal.                      *)
THEOREM AppearanceIsRight ==
  NoFlyouts /\ (OneTaskbar \/ WithoutVisibleRules) /\ NormalIsSent => (Spec => []AppearanceFollowsState)
<1>1. SUFFICES ASSUME Expected PROVE Spec => []AppearanceFollowsState
  BY DEF Expected
<1>2. KnownInv /\ FreshInv /\ [Next]_vars => KnownInv' /\ FreshInv'
  <2>1. KnownInv' => TrackedOnce' /\ SingleInv'
    BY DEF KnownInv, ScreenInv
  <2> QED
    BY <1>1, <2>1, KnownStep, FreshStep
<1>3. KnownInv /\ FreshInv => AppearanceFollowsState
  BY <1>1, FreshWhenQuiet
<1> HIDE DEF KnownInv, FreshInv, AppearanceFollowsState, Expected
<1> QED
  BY <1>2, <1>3, KnownInit, FreshInit, PTL DEF Spec
=============================================================================
