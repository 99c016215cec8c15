---------------------------- MODULE ExplorerProofs ----------------------------
(***************************************************************************)
(* Proofs about the two libraries in Explorer.  ExplorerTAP: its           *)
(* appearance service, for any number of taskbars, of runs of the program  *)
(* and of Explorer, and any versions and time limits.  ExplorerHooks: the  *)
(* Task View monitor, for any number of loads, attempts and changes, and   *)
(* the detour of the classic taskbars, for any taskbars and any nesting of *)
(* calls.                                                                  *)
(***************************************************************************)
EXTENDS AppearanceService, TaskViewMonitor, SwcaDetour, SequenceTheorems, TLAPS

-----------------------------------------------------------------------------
(* The appearance service.                                                 *)

(* The library is installed once in an Explorer, and is pinned from then   *)
(* on: this is why there is one watcher, created with nothing registered,  *)
(* and why a run that finds another run's library uses it.                 *)
InstalledOnce ==
  /\ installer.place \in {"trying", "sleeping"} => library.state = "in"
  /\ installer.place = "trying" => installer.attempts <= MaxAttempts
  /\ library.state # "pinned" => watcher = "none"

(* Before the watcher is advised the service knows nothing. *)
NothingBeforeAdvised == watcher # "advised" => unmatched = {} /\ known = {}

(* The rectangles are those of a frame, and only those can be registered. *)
RectanglesExist ==
  \A f \in Frames, p \in Parts :
    /\ tree[f] # "frame" => fill[f][p] = Absent
    /\ p \in control[f] => fill[f][p] # Absent
    /\ original[f][p] \in {Unset, Explorers}

(* What BrushesCanBeTakenBack needs to be inductive. *)
TapInv ==
  TapTypeOK /\ InstalledOnce /\ NothingBeforeAdvised /\ RectanglesExist /\ BrushesCanBeTakenBack

-----------------------------------------------------------------------------
(* What remains of an Explorer that ends: nothing. *)
LEMMA NewExplorerInv ==
  ASSUME ExplorerRestarts
  PROVE  (InstalledOnce /\ NothingBeforeAdvised /\ RectanglesExist /\ BrushesCanBeTakenBack)'
<1>1. NewExplorer
  BY DEF ExplorerRestarts
<1> QED
  BY <1>1, AppearanceAssumption DEF NewExplorer, NotMapped, NoInstaller, InstalledOnce, NothingBeforeAdvised, RectanglesExist,
     BrushesCanBeTakenBack, Absent, Unset, Explorers

-----------------------------------------------------------------------------
(* What a change of Fills does to one rectangle. *)
LEMMA FillWithAt ==
  ASSUME NEW changes, FillWith(changes), NEW f \in Frames, NEW p \in Parts
  PROVE  /\ fill'[f][p] = IF <<f, p>> \in DOMAIN changes THEN changes[<<f, p>>] ELSE fill[f][p]
         /\ original'[f][p] = IF p \in control[f] /\ original[f][p] = Unset
                              THEN fill'[f][p] ELSE original[f][p]
BY DEF FillWith

LEMMA FillWithType ==
  ASSUME TapTypeOK, NEW changes, FillWith(changes),
         \A f \in Frames, p \in Parts : <<f, p>> \in DOMAIN changes => changes[<<f, p>>] \in Fills
  PROVE  fill' \in [Frames -> [Parts -> Fills]] /\ original' \in [Frames -> [Parts -> Fills]]
<1>1. fill' \in [Frames -> [Parts -> Fills]]
  BY DEF FillWith, TapTypeOK
<1>2. original' \in [Frames -> [Parts -> Fills]]
  BY <1>1 DEF FillWith, TapTypeOK
<1> QED
  BY <1>1, <1>2

(* A brush of the program on restorable rectangles, or Explorer's on any   *)
(* that exist, keeps all that is said of brushes.                          *)
LEMMA FillWithInv ==
  ASSUME TapInv, NEW changes, FillWith(changes), UNCHANGED <<tree, known, control>>,
         \A f \in Frames, p \in Parts : <<f, p>> \in DOMAIN changes =>
           /\ fill[f][p] # Absent
           /\ \/ changes[<<f, p>>] = Explorers
              \/ changes[<<f, p>>] \in Instances /\ <<f, p>> \in Restorable(Elements)
  PROVE  (RectanglesExist /\ BrushesCanBeTakenBack)'
<1> SUFFICES ASSUME NEW f \in Frames, NEW p \in Parts
             PROVE  /\ tree[f] # "frame" => fill'[f][p] = Absent
                    /\ p \in control[f] => fill'[f][p] # Absent
                    /\ original'[f][p] \in {Unset, Explorers}
                    /\ original'[f][p] \notin Instances
                    /\ fill'[f][p] \in Instances =>
                         f \in known /\ p \in control[f] /\ original'[f][p] = Explorers
  BY DEF RectanglesExist, BrushesCanBeTakenBack
<1>1. /\ fill'[f][p] = IF <<f, p>> \in DOMAIN changes THEN changes[<<f, p>>] ELSE fill[f][p]
      /\ original'[f][p] = IF p \in control[f] /\ original[f][p] = Unset
                           THEN fill'[f][p] ELSE original[f][p]
  BY FillWithAt
<1>2. /\ {Absent, Unset, Explorers} \cap Instances = {}
      /\ Absent # Unset /\ Absent # Explorers /\ Unset # Explorers
  BY AppearanceAssumption DEF Absent, Unset, Explorers
<1>3. /\ tree[f] # "frame" => fill[f][p] = Absent
      /\ p \in control[f] => fill[f][p] # Absent
      /\ original[f][p] \in {Unset, Explorers}
      /\ fill[f][p] \in Instances => f \in known /\ p \in control[f] /\ original[f][p] = Explorers
      /\ fill[f][p] \in Fills
  BY DEF TapInv, RectanglesExist, BrushesCanBeTakenBack, TapTypeOK
<1>4. CASE <<f, p>> \notin DOMAIN changes
  BY <1>1, <1>2, <1>3, <1>4 DEF Fills
<1>5. CASE <<f, p>> \in DOMAIN changes /\ changes[<<f, p>>] = Explorers
  BY <1>1, <1>2, <1>3, <1>5
<1>6. CASE <<f, p>> \in DOMAIN changes /\ changes[<<f, p>>] \in Instances
  <2>1. f \in known /\ p \in control[f] /\ original[f][p] # Unset
    BY <1>2, <1>6 DEF Restorable, RegisteredElements
  <2> QED
    BY <1>1, <1>2, <1>3, <1>6, <2>1
<1> QED
  BY <1>4, <1>5, <1>6

(* Restoring: every rectangle it changes gets Explorer's brush. *)
LEMMA RestoreInv ==
  ASSUME TapInv, NEW elements \in SUBSET Elements, RestoreDefaultControlFill(elements),
         UNCHANGED <<tree, known, control>>
  PROVE  /\ (RectanglesExist /\ BrushesCanBeTakenBack)'
         /\ fill' \in [Frames -> [Parts -> Fills]] /\ original' \in [Frames -> [Parts -> Fills]]
<1> DEFINE changes == [e \in Restorable(elements) |-> original[e[1]][e[2]]]
<1>1. FillWith(changes)
  BY DEF RestoreDefaultControlFill
<1>2. ASSUME NEW f \in Frames, NEW p \in Parts, <<f, p>> \in DOMAIN changes
      PROVE  fill[f][p] # Absent /\ changes[<<f, p>>] = Explorers
  <2>1. <<f, p>> \in Restorable(elements)
    BY <1>2
  <2>2. p \in control[f] /\ original[f][p] # Unset
    BY <2>1 DEF Restorable, RegisteredElements
  <2>3. original[f][p] = Explorers /\ fill[f][p] # Absent
    BY <2>2 DEF TapInv, RectanglesExist
  <2> QED
    BY <2>1, <2>3
<1> HIDE DEF changes
<1>3. (RectanglesExist /\ BrushesCanBeTakenBack)'
  BY <1>1, <1>2, FillWithInv
<1>4. fill' \in [Frames -> [Parts -> Fills]] /\ original' \in [Frames -> [Parts -> Fills]]
  <2>1. TapTypeOK
    BY DEF TapInv
  <2>2. \A f \in Frames, p \in Parts : <<f, p>> \in DOMAIN changes => changes[<<f, p>>] \in Fills
    BY <1>2 DEF Fills
  <2> QED
    BY <1>1, <2>1, <2>2, FillWithType
<1> QED
  BY <1>3, <1>4

-----------------------------------------------------------------------------
(* The state starts with its type, and keeps it. *)
LEMMA TapTypeInit == TapInit => TapTypeOK
<1> SUFFICES ASSUME TapInit PROVE TapTypeOK
  OBVIOUS
<1>1. waited \in 0..ReadyTimeout /\ explorers \in Nat /\ restores \in Nat
  BY AppearanceAssumption DEF TapInit
<1>2. installer \in [place : {"none", "trying", "sleeping", "ending"}, attempts : 0..MaxAttempts + 1, since : 0..ReadyTimeout]
  BY AppearanceAssumption DEF TapInit, NoInstaller
<1>3. library \in [state : {"out", "in", "pinned"}, from : Instances \cup {NoInstance}]
  BY DEF TapInit, NotMapped
<1>4. /\ fill \in [Frames -> [Parts -> Fills]] /\ original \in [Frames -> [Parts -> Fills]]
      /\ tree \in [Frames -> {"none", "source", "frame"}] /\ control \in [Frames -> SUBSET Parts]
  BY DEF TapInit, Fills
<1>5. /\ at \in [Instances -> {"notRun", "waiting", "activating", "watching", "packaging", "running", "lost", "dead"}]
      /\ hooked \subseteq Instances /\ ready \in BOOLEAN /\ watcher \in {"none", "created", "advised"}
      /\ unmatched \subseteq Frames /\ known \subseteq Frames
      /\ process \in Instances \cup {NoInstance} /\ wait \in Instances \cup {NoInstance}
      /\ pool \in Instances \cup {NoInstance} /\ catalog \in BOOLEAN
  BY DEF TapInit
<1> QED
  BY <1>1, <1>2, <1>3, <1>4, <1>5 DEF TapTypeOK

LEMMA ReadyType ==
  ASSUME ready \in BOOLEAN, KeepEvent \/ SetReady \/ UNCHANGED ready
  PROVE  ready' \in BOOLEAN
BY Zenon DEF KeepEvent, SetReady, EventHeld

LEMMA InstanceType ==
  ASSUME TapTypeOK, NEW i \in Instances, InstanceStep(i)
  PROVE  TapTypeOK'
<1> USE AppearanceAssumption DEF TapTypeOK, libraryVars, treeVars, taskbarVars, watchVars, programVars
<1>1. CASE Inject(i)
  BY <1>1 DEF Inject
<1>2. CASE Ready(i)
  BY <1>2, ReadyType DEF Ready
<1>3. CASE GiveUp(i)
  BY <1>3, ReadyType DEF GiveUp
<1>4. CASE Activate(i)
  BY <1>4 DEF Activate
<1>5. CASE Watch(i)
  BY <1>5 DEF Watch
<1>6. CASE WatchPackage(i)
  <2>1. catalog' \in BOOLEAN
    BY <1>6, Zenon DEF WatchPackage
  <2> QED
    BY <1>6, <2>1 DEF WatchPackage
<1>7. CASE Crash(i)
  BY <1>7, ReadyType DEF Crash
<1> QED
  BY <1>1, <1>2, <1>3, <1>4, <1>5, <1>6, <1>7 DEF InstanceStep

LEMMA RestartType ==
  ASSUME TapTypeOK, ExplorerRestarts
  PROVE  TapTypeOK'
<1> USE AppearanceAssumption DEF TapTypeOK, ExplorerRestarts
<1>1. NewExplorer
  OBVIOUS
<1>2. /\ library' \in [state : {"out", "in", "pinned"}, from : Instances \cup {NoInstance}]
      /\ installer' \in [place : {"none", "trying", "sleeping", "ending"}, attempts : 0..MaxAttempts + 1, since : 0..ReadyTimeout]
      /\ hooked' \subseteq Instances /\ watcher' \in {"none", "created", "advised"}
  BY <1>1 DEF NewExplorer, NotMapped, NoInstaller
<1>3. /\ fill' \in [Frames -> [Parts -> Fills]] /\ original' \in [Frames -> [Parts -> Fills]]
      /\ tree' \in [Frames -> {"none", "source", "frame"}] /\ control' \in [Frames -> SUBSET Parts]
      /\ unmatched' \subseteq Frames /\ known' \subseteq Frames
  BY <1>1 DEF NewExplorer, Fills
<1>4. /\ process' \in Instances \cup {NoInstance} /\ wait' \in Instances \cup {NoInstance}
      /\ pool' \in Instances \cup {NoInstance} /\ restores' \in Nat /\ catalog' \in BOOLEAN
  <2>1. catalog' \in BOOLEAN
    BY <1>1, Zenon DEF NewExplorer
  <2> QED
    BY <1>1, <2>1 DEF NewExplorer
<1>5. at' \in [Instances -> {"notRun", "waiting", "activating", "watching", "packaging", "running", "lost", "dead"}]
  OBVIOUS
<1>6. explorers' \in Nat /\ waited' \in 0..ReadyTimeout
  OBVIOUS
<1>7. ready' \in BOOLEAN
  BY ReadyType
<1> QED
  BY <1>2, <1>3, <1>4, <1>5, <1>6, <1>7

LEMMA LibraryType ==
  ASSUME TapTypeOK, InstalledOnce, LibraryStep
  PROVE  TapTypeOK'
<1> USE AppearanceAssumption DEF TapTypeOK, libraryVars, treeVars, taskbarVars, watchVars, programVars
<1>1. CASE Attach
  BY <1>1 DEF Attach
<1>2. CASE Accepted
  BY <1>2 DEF Accepted
<1>3. CASE Refused
  <2>1. installer.attempts + 1 \in 0..MaxAttempts + 1
    BY <1>3 DEF Refused, InstalledOnce
  <2>2. installer' \in [place : {"none", "trying", "sleeping", "ending"}, attempts : 0..MaxAttempts + 1, since : 0..ReadyTimeout]
    BY <1>3, <2>1 DEF Refused
  <2> QED
    BY <1>3, <2>2 DEF Refused
<1>4. CASE HalfSecond
  <2>1. ready' \in BOOLEAN
    BY <1>4, ReadyType DEF HalfSecond
  <2>2. waited' \in 0..ReadyTimeout
    BY <1>4 DEF HalfSecond
  <2>3. installer' \in [place : {"none", "trying", "sleeping", "ending"}, attempts : 0..MaxAttempts + 1, since : 0..ReadyTimeout]
    BY <1>4 DEF HalfSecond
  <2> QED
    BY <1>4, <2>1, <2>2, <2>3 DEF HalfSecond
<1>5. CASE InstallReturns
  BY <1>5, ReadyType DEF InstallReturns, NoInstaller
<1>6. CASE Unmap
  BY <1>6 DEF Unmap, NotMapped
<1>7. CASE Advise
  <2>1. ready' \in BOOLEAN
    BY <1>7, ReadyType DEF Advise
  <2>2. original' \in [Frames -> [Parts -> Fills]]
    BY <1>7 DEF Advise, Fills
  <2>3. control' \in [Frames -> SUBSET Parts] /\ unmatched' \subseteq Frames /\ known' \subseteq Frames
    BY <1>7 DEF Advise
  <2> QED
    BY <1>7, <2>1, <2>2, <2>3 DEF Advise
<1> QED
  BY <1>1, <1>2, <1>3, <1>4, <1>5, <1>6, <1>7 DEF LibraryStep

LEMMA TreeType ==
  ASSUME TapTypeOK, TreeStep
  PROVE  TapTypeOK'
<1> USE DEF TapTypeOK, libraryVars, treeVars, taskbarVars, watchVars, programVars
<1>1. PICK f \in Frames :
        \/ AddSource(f) \/ AddFrame(f) \/ Remove(f)
        \/ \E p \in Parts : ExplorerPaints(f, p) \/ \E brush \in {Unset, Explorers} : AddRectangle(f, p, brush)
  BY DEF TreeStep
<1>2. CASE AddSource(f)
  BY <1>2 DEF AddSource
<1>3. CASE AddFrame(f)
  BY <1>3 DEF AddFrame
<1>4. CASE Remove(f)
  <2>1. fill' \in [Frames -> [Parts -> Fills]] /\ original' \in [Frames -> [Parts -> Fills]]
    BY <1>4 DEF Remove, UnregisterTaskbar, Fills
  <2> QED
    BY <1>4, <2>1 DEF Remove, UnregisterTaskbar
<1>5. ASSUME NEW p \in Parts, ExplorerPaints(f, p)
      PROVE  TapTypeOK'
  <2> DEFINE changes == [e \in {<<f, p>>} |-> Explorers]
  <2>1. FillWith(changes)
    BY <1>5 DEF ExplorerPaints
  <2>2. \A g \in Frames, q \in Parts : <<g, q>> \in DOMAIN changes => changes[<<g, q>>] \in Fills
    BY DEF Fills
  <2> HIDE DEF changes
  <2>3. fill' \in [Frames -> [Parts -> Fills]] /\ original' \in [Frames -> [Parts -> Fills]]
    BY <2>1, <2>2, FillWithType
  <2> QED
    BY <1>5, <2>3 DEF ExplorerPaints
<1>6. ASSUME NEW p \in Parts, NEW brush \in {Unset, Explorers}, AddRectangle(f, p, brush)
      PROVE  TapTypeOK'
  <2>1. fill' \in [Frames -> [Parts -> Fills]] /\ original' \in [Frames -> [Parts -> Fills]]
    <3>1. brush \in Fills
      BY DEF Fills
    <3>2. /\ fill' = [fill EXCEPT ![f][p] = brush]
          /\ original' = original \/ original' = [original EXCEPT ![f][p] = brush]
      BY <1>6 DEF AddRectangle, Register
    <3>3. [fill EXCEPT ![f][p] = brush] \in [Frames -> [Parts -> Fills]]
      BY <3>1
    <3>4. [original EXCEPT ![f][p] = brush] \in [Frames -> [Parts -> Fills]]
      BY <3>1
    <3> QED
      BY <3>2, <3>3, <3>4
  <2>2. control' \in [Frames -> SUBSET Parts]
    <3>1. control' = control \/ control' = [control EXCEPT ![f] = control[f] \cup {p}]
      BY <1>6, Zenon DEF AddRectangle, Register
    <3>2. control \in [Frames -> SUBSET Parts] /\ control[f] \cup {p} \in SUBSET Parts
      OBVIOUS
    <3> QED
      BY <3>1, <3>2
  <2>3. UNCHANGED <<programVars, libraryVars, tree, unmatched, known, watchVars>>
    BY <1>6, Zenon DEF AddRectangle
  <2> QED
    BY <2>1, <2>2, <2>3
<1> QED
  BY <1>1, <1>2, <1>3, <1>4, <1>5, <1>6

LEMMA WatchType ==
  ASSUME TapInv, WatchStep
  PROVE  TapTypeOK'
<1> USE DEF TapTypeOK, libraryVars, treeVars, taskbarVars, watchVars, programVars
<1>1. TapTypeOK
  BY DEF TapInv
<1>2. CASE OnProcessDied
  BY <1>1, <1>2 DEF OnProcessDied
<1>3. CASE ForgetProcess
  BY <1>1, <1>3 DEF ForgetProcess
<1>4. CASE RestoreAfterDeath
  <2>1. fill' \in [Frames -> [Parts -> Fills]] /\ original' \in [Frames -> [Parts -> Fills]]
    BY <1>4, RestoreInv DEF RestoreAfterDeath
  <2> QED
    BY <1>1, <1>4, <2>1 DEF RestoreAfterDeath
<1> QED
  BY <1>2, <1>3, <1>4 DEF WatchStep

-----------------------------------------------------------------------------
(* The brushes that the program sets, and takes back. *)
LEMMA BrushInv ==
  ASSUME TapInv, NEW i \in Instances, BrushStep(i)
  PROVE  TapTypeOK' /\ (RectanglesExist /\ BrushesCanBeTakenBack)'
<1> USE DEF libraryVars, watchVars, programVars
<1>1. ASSUME NEW f \in Frames, NEW p \in Parts, SetBrush(i, f, p)
      PROVE  TapTypeOK' /\ (RectanglesExist /\ BrushesCanBeTakenBack)'
  <2> DEFINE changes == [e \in {<<f, p>>} |-> i]
  <2>1. FillWith(changes) /\ <<f, p>> \in Restorable(Elements)
    BY <1>1 DEF SetBrush
  <2>2. fill[f][p] # Absent
    BY <2>1 DEF Restorable, RegisteredElements, TapInv, RectanglesExist
  <2>3. \A g \in Frames, q \in Parts : <<g, q>> \in DOMAIN changes =>
          fill[g][q] # Absent /\ changes[<<g, q>>] \in Instances /\ <<g, q>> \in Restorable(Elements)
    BY <2>1, <2>2
  <2> HIDE DEF changes
  <2>4. (RectanglesExist /\ BrushesCanBeTakenBack)'
    BY <1>1, <2>1, <2>3, FillWithInv DEF SetBrush
  <2>5. fill' \in [Frames -> [Parts -> Fills]] /\ original' \in [Frames -> [Parts -> Fills]]
    <3>1. TapTypeOK /\ \A g \in Frames, q \in Parts : <<g, q>> \in DOMAIN changes => changes[<<g, q>>] \in Fills
      BY <2>3 DEF Fills, TapInv
    <3> QED
      BY <2>1, <3>1, FillWithType
  <2> QED
    BY <1>1, <2>4, <2>5 DEF SetBrush, TapTypeOK, TapInv
<1>2. ASSUME NEW f \in Frames, NEW p \in Parts, ReturnToDefault(i, f, p)
      PROVE  TapTypeOK' /\ (RectanglesExist /\ BrushesCanBeTakenBack)'
  <2>1. {<<f, p>>} \in SUBSET Elements
    BY DEF Elements
  <2> QED
    <3>1. RestoreDefaultControlFill({<<f, p>>}) /\ UNCHANGED <<tree, known, control>>
      BY <1>2 DEF ReturnToDefault
    <3>2. /\ (RectanglesExist /\ BrushesCanBeTakenBack)'
          /\ fill' \in [Frames -> [Parts -> Fills]] /\ original' \in [Frames -> [Parts -> Fills]]
      BY <2>1, <3>1, RestoreInv
    <3> QED
      BY <1>2, <3>2 DEF ReturnToDefault, TapTypeOK, TapInv
<1>3. CASE RestoreAllTaskbarsToDefault(i)
  BY <1>3, RestoreInv DEF RestoreAllTaskbarsToDefault, TapTypeOK, TapInv
<1> QED
  BY <1>1, <1>2, <1>3 DEF BrushStep

(* The visual tree, as the watcher is told of it, and Explorer's brushes.  *)
LEMMA TreeInv ==
  ASSUME TapInv, TreeStep
  PROVE  (RectanglesExist /\ BrushesCanBeTakenBack)'
<1> USE DEF RectanglesExist, BrushesCanBeTakenBack, libraryVars, watchVars, programVars
<1>1. PICK f \in Frames :
        \/ AddSource(f) \/ AddFrame(f) \/ Remove(f)
        \/ \E p \in Parts : ExplorerPaints(f, p) \/ \E brush \in {Unset, Explorers} : AddRectangle(f, p, brush)
  BY DEF TreeStep
<1>2. /\ {Absent, Unset, Explorers} \cap Instances = {}
      /\ Absent # Unset /\ Absent # Explorers /\ Unset # Explorers
  BY AppearanceAssumption DEF Absent, Unset, Explorers
<1>3. TapTypeOK /\ RectanglesExist /\ BrushesCanBeTakenBack
  BY DEF TapInv
<1>4. CASE AddSource(f)
  BY <1>2, <1>3, <1>4 DEF AddSource, TapTypeOK
<1>5. CASE AddFrame(f)
  BY <1>2, <1>3, <1>5 DEF AddFrame, TapTypeOK
<1>6. CASE Remove(f)
  BY <1>2, <1>3, <1>6 DEF Remove, UnregisterTaskbar, TapTypeOK
<1>7. ASSUME NEW p \in Parts, ExplorerPaints(f, p)
      PROVE  (RectanglesExist /\ BrushesCanBeTakenBack)'
  <2> DEFINE changes == [e \in {<<f, p>>} |-> Explorers]
  <2>1. FillWith(changes) /\ fill[f][p] # Absent /\ UNCHANGED <<tree, known, control>>
    BY <1>7 DEF ExplorerPaints
  <2>2. \A g \in Frames, q \in Parts : <<g, q>> \in DOMAIN changes =>
          fill[g][q] # Absent /\ changes[<<g, q>>] = Explorers
    BY <2>1
  <2> HIDE DEF changes
  <2> QED
    BY <2>1, <2>2, FillWithInv
<1>8. ASSUME NEW p \in Parts, NEW brush \in {Unset, Explorers}, AddRectangle(f, p, brush)
      PROVE  (RectanglesExist /\ BrushesCanBeTakenBack)'
  <2>1. CASE f \in known
    <3>1. /\ UNCHANGED <<tree, known>> /\ tree[f] = "frame"
          /\ fill' = [fill EXCEPT ![f][p] = brush]
          /\ original' = [original EXCEPT ![f][p] = brush]
          /\ control' = [control EXCEPT ![f] = @ \cup {p}]
      BY <1>8, <2>1 DEF AddRectangle, Register
    <3>2. ASSUME NEW g \in Frames, NEW q \in Parts
          PROVE  /\ fill'[g][q] = IF g = f /\ q = p THEN brush ELSE fill[g][q]
                 /\ original'[g][q] = IF g = f /\ q = p THEN brush ELSE original[g][q]
                 /\ q \in control'[g] <=> q \in control[g] \/ (g = f /\ q = p)
      BY <1>3, <3>1 DEF TapTypeOK
    <3> QED
      BY <1>2, <1>3, <2>1, <3>1, <3>2
  <2>2. CASE f \notin known
    <3>1. /\ UNCHANGED <<tree, known, control, original>> /\ tree[f] = "frame"
          /\ fill' = [fill EXCEPT ![f][p] = brush]
      BY <1>8, <2>2 DEF AddRectangle, Register
    <3>2. ASSUME NEW g \in Frames, NEW q \in Parts
          PROVE  fill'[g][q] = IF g = f /\ q = p THEN brush ELSE fill[g][q]
      BY <1>3, <3>1 DEF TapTypeOK
    <3> QED
      BY <1>2, <1>3, <3>1, <3>2
  <2> QED
    BY <2>1, <2>2
<1> QED
  BY <1>1, <1>4, <1>5, <1>6, <1>7, <1>8

-----------------------------------------------------------------------------
(* The installation, and what is known before the watcher is advised. *)
LEMMA InstallStep ==
  ASSUME TapTypeOK, InstalledOnce, NothingBeforeAdvised, TapNext
  PROVE  (InstalledOnce /\ NothingBeforeAdvised)'
<1> USE DEF TapTypeOK, InstalledOnce, NothingBeforeAdvised,
            libraryVars, treeVars, taskbarVars, watchVars, programVars
<1>1. ASSUME NEW i \in Instances, InstanceStep(i)
      PROVE  (InstalledOnce /\ NothingBeforeAdvised)'
  BY <1>1 DEF InstanceStep, Inject, Ready, GiveUp, Activate, Watch, WatchPackage, Crash
<1>2. ASSUME NEW i \in Instances, BrushStep(i)
      PROVE  (InstalledOnce /\ NothingBeforeAdvised)'
  BY <1>2 DEF BrushStep, SetBrush, ReturnToDefault, RestoreAllTaskbarsToDefault
<1>3. CASE ExplorerStep
  BY <1>3, NewExplorerInv DEF ExplorerStep, UnmapUnderInstaller, PackageGoes
<1>4. CASE TreeStep
  BY <1>4 DEF TreeStep, AddSource, AddFrame, Remove, ExplorerPaints, AddRectangle, Register, UnregisterTaskbar
<1>5. CASE WatchStep
  BY <1>5 DEF WatchStep, OnProcessDied, ForgetProcess, RestoreAfterDeath
<1>6. CASE Attach
  BY <1>6, AppearanceAssumption DEF Attach, NotMapped
<1>7. CASE Accepted
  BY <1>7 DEF Accepted
<1>8. CASE Refused
  BY <1>8 DEF Refused
<1>9. CASE HalfSecond
  <2>1. /\ UNCHANGED <<library, watcher, unmatched, known>>
        /\ \/ installer' = installer
           \/ /\ installer.place = "sleeping" /\ installer'.place \in {"ending", "trying"}
              /\ installer'.attempts = installer.attempts
              /\ installer'.place = "trying" => ~(installer.attempts > MaxAttempts)
    BY <1>9 DEF HalfSecond
  <2> QED
    BY <2>1, AppearanceAssumption
<1>10. CASE InstallReturns
  BY <1>10 DEF InstallReturns, NoInstaller
<1>11. CASE Unmap
  BY <1>11 DEF Unmap, NotMapped
<1>12. CASE Advise
  BY <1>12 DEF Advise
<1> QED
  BY <1>1, <1>2, <1>3, <1>4, <1>5, <1>6, <1>7, <1>8, <1>9, <1>10, <1>11, <1>12 DEF TapNext, LibraryStep

(* The first news of the visual tree: nothing is registered before, so no  *)
(* brush of the program is on a taskbar, and what is there is Explorer's.  *)
LEMMA AdviseInv ==
  ASSUME TapInv, Advise
  PROVE  (RectanglesExist /\ BrushesCanBeTakenBack)'
<1>1. /\ {Absent, Unset, Explorers} \cap Instances = {}
      /\ Absent # Unset /\ Absent # Explorers /\ Unset # Explorers
  BY AppearanceAssumption DEF Absent, Unset, Explorers
<1>2. known = {}
  BY DEF Advise, TapInv, NothingBeforeAdvised
<1>3. ASSUME NEW f \in Frames, NEW p \in Parts
      PROVE  fill[f][p] \in {Absent, Unset, Explorers}
  BY <1>2 DEF TapInv, BrushesCanBeTakenBack, TapTypeOK, Fills
<1> QED
  BY <1>1, <1>3 DEF Advise, treeVars, TapInv, RectanglesExist, BrushesCanBeTakenBack

-----------------------------------------------------------------------------
LEMMA TapInvInit == TapInit => TapInv
<1> SUFFICES ASSUME TapInit PROVE TapInv
  OBVIOUS
<1>1. TapTypeOK
  BY TapTypeInit
<1>2. InstalledOnce /\ NothingBeforeAdvised /\ RectanglesExist /\ BrushesCanBeTakenBack
  BY AppearanceAssumption DEF TapInit, NotMapped, NoInstaller, InstalledOnce, NothingBeforeAdvised,
     RectanglesExist, BrushesCanBeTakenBack, Absent, Unset, Explorers
<1> QED
  BY <1>1, <1>2 DEF TapInv

LEMMA TapInvStep == TapInv /\ [TapNext]_tapVars => TapInv'
<1> SUFFICES ASSUME TapInv, [TapNext]_tapVars PROVE TapInv'
  OBVIOUS
<1>1. CASE UNCHANGED tapVars
  BY <1>1 DEF tapVars, programVars, libraryVars, treeVars, taskbarVars, watchVars, TapInv, TapTypeOK,
     InstalledOnce, NothingBeforeAdvised, RectanglesExist, BrushesCanBeTakenBack
<1>2. CASE TapNext
  <2>1. TapTypeOK /\ InstalledOnce /\ NothingBeforeAdvised
    BY DEF TapInv
  <2>2. (InstalledOnce /\ NothingBeforeAdvised)'
    BY <1>2, <2>1, InstallStep
  <2>3. TapTypeOK' /\ (RectanglesExist /\ BrushesCanBeTakenBack)'
    <3>1. ASSUME NEW i \in Instances, InstanceStep(i)
          PROVE  TapTypeOK' /\ (RectanglesExist /\ BrushesCanBeTakenBack)'
      <4>1. UNCHANGED <<treeVars, taskbarVars>>
        BY <3>1 DEF InstanceStep, Inject, Ready, GiveUp, Activate, Watch, WatchPackage, Crash
      <4> QED
        BY <2>1, <3>1, <4>1, InstanceType DEF treeVars, taskbarVars, TapInv, RectanglesExist, BrushesCanBeTakenBack
    <3>2. ASSUME NEW i \in Instances, BrushStep(i)
          PROVE  TapTypeOK' /\ (RectanglesExist /\ BrushesCanBeTakenBack)'
      BY <3>2, BrushInv
    <3>3. CASE LibraryStep
      <4>1. TapTypeOK'
        BY <2>1, <3>3, LibraryType
      <4>2. CASE Advise
        BY <4>1, <4>2, AdviseInv
      <4>3. CASE ~Advise
        <5>1. UNCHANGED <<treeVars, taskbarVars>>
          BY <3>3, <4>3 DEF LibraryStep, Attach, Accepted, Refused, HalfSecond, InstallReturns, Unmap
        <5> QED
          BY <4>1, <5>1 DEF treeVars, taskbarVars, TapInv, RectanglesExist, BrushesCanBeTakenBack
      <4> QED
        BY <4>2, <4>3
    <3>4. CASE ExplorerStep
      <4>1. ExplorerRestarts
        BY <3>4 DEF ExplorerStep, UnmapUnderInstaller, PackageGoes
      <4> QED
        BY <2>1, <4>1, RestartType, NewExplorerInv
    <3>5. CASE TreeStep
      BY <2>1, <3>5, TreeType, TreeInv
    <3>6. CASE OnProcessDied \/ ForgetProcess
      <4>1. UNCHANGED <<treeVars, taskbarVars>>
        BY <3>6 DEF OnProcessDied, ForgetProcess
      <4>2. TapTypeOK'
        BY <3>6, WatchType DEF WatchStep
      <4> QED
        BY <4>1, <4>2 DEF treeVars, taskbarVars, TapInv, RectanglesExist, BrushesCanBeTakenBack
    <3>7. CASE RestoreAfterDeath
      <4>1. (RectanglesExist /\ BrushesCanBeTakenBack)'
        BY <3>7, RestoreInv DEF RestoreAfterDeath
      <4>2. TapTypeOK'
        BY <3>7, WatchType DEF WatchStep
      <4> QED
        BY <4>1, <4>2
    <3> QED
      BY <1>2, <3>1, <3>2, <3>3, <3>4, <3>5, <3>6, <3>7 DEF TapNext, WatchStep
  <2> QED
    BY <2>2, <2>3 DEF TapInv
<1> QED
  BY <1>1, <1>2

LEMMA TapInvHolds == TapSpec => []TapInv
BY TapInvInit, TapInvStep, PTL DEF TapSpec

(* The state of the library, the taskbars and the watch has its type. *)
THEOREM TapTypeCorrect == TapSpec => []TapTypeOK
<1>1. TapInv => TapTypeOK
  BY DEF TapInv
<1> QED
  BY <1>1, TapInvHolds, PTL

(* Whatever the order of registrations, of Fills that are set late, of     *)
(* runs of the program and of Explorer, a brush of the program is only     *)
(* where Explorer's own is saved.                                          *)
THEOREM BrushesAreSaved == TapSpec => []BrushesCanBeTakenBack
<1>1. TapInv => BrushesCanBeTakenBack
  BY DEF TapInv
<1> QED
  BY <1>1, TapInvHolds, PTL

(* The watched process is waited for, or its death is being handled. *)
THEOREM DeathIsAwaited == TapSpec => []WatchIsArmed
<1> USE DEF WatchIsArmed, libraryVars, treeVars, taskbarVars, programVars, watchVars
<1>1. TapInit => WatchIsArmed
  BY DEF TapInit
<1>2. WatchIsArmed /\ [TapNext]_tapVars => WatchIsArmed'
  <2> SUFFICES ASSUME WatchIsArmed, [TapNext]_tapVars PROVE WatchIsArmed'
    OBVIOUS
  <2>1. ASSUME NEW i \in Instances, InstanceStep(i) \/ BrushStep(i) PROVE WatchIsArmed'
    BY <2>1 DEF InstanceStep, Inject, Ready, GiveUp, Activate, Watch, WatchPackage, Crash,
       BrushStep, SetBrush, ReturnToDefault, RestoreAllTaskbarsToDefault
  <2>2. CASE LibraryStep
    BY <2>2 DEF LibraryStep, Attach, Accepted, Refused, HalfSecond, InstallReturns, Unmap, Advise
  <2>3. CASE ExplorerStep
    BY <2>3 DEF ExplorerStep, UnmapUnderInstaller, PackageGoes, ExplorerRestarts, NewExplorer
  <2>4. CASE TreeStep
    BY <2>4 DEF TreeStep, AddSource, AddFrame, Remove, ExplorerPaints, AddRectangle, Register, UnregisterTaskbar
  <2>5. CASE WatchStep
    BY <2>5 DEF WatchStep, OnProcessDied, ForgetProcess, RestoreAfterDeath
  <2>6. CASE UNCHANGED tapVars
    BY <2>6 DEF tapVars
  <2> QED
    BY <2>1, <2>2, <2>3, <2>4, <2>5, <2>6 DEF TapNext
<1> QED
  BY <1>1, <1>2, PTL DEF TapSpec

-----------------------------------------------------------------------------
(* While the installing thread tries or sleeps, whoever waits has waited   *)
(* no longer since it began than the tries have taken, whether it is still *)
(* the one that had the library mapped or another.                         *)
TriesTakeTheWait ==
  /\ installer.place = "trying" => installer.attempts >= 1 /\ waited <= installer.since + installer.attempts - 1
  /\ installer.place = "sleeping" => installer.attempts >= 2 /\ waited <= installer.since + installer.attempts - 2

LEMMA TriesStep ==
  ASSUME TapTypeOK, TriesTakeTheWait, [TapNext]_tapVars
  PROVE  TriesTakeTheWait'
<1> USE DEF TapTypeOK, TriesTakeTheWait, libraryVars, treeVars, taskbarVars, programVars, watchVars
<1>1. waited \in Nat /\ installer.attempts \in Nat /\ installer.since \in Nat
  BY AppearanceAssumption
<1>2. ASSUME NEW i \in Instances, Inject(i)
      PROVE  TriesTakeTheWait'
  BY <1>1, <1>2 DEF Inject
<1>3. CASE UNCHANGED <<waited, installer>>
  BY <1>3
<1>4. CASE Attach
  BY <1>1, <1>4 DEF Attach
<1>5. CASE Accepted
  BY <1>5 DEF Accepted
<1>6. CASE Refused
  <2>1. /\ installer.place = "trying" /\ waited' = waited /\ installer'.place = "sleeping"
        /\ installer'.attempts = installer.attempts + 1 /\ installer'.since = installer.since
    BY <1>6 DEF Refused
  <2> QED
    BY <1>1, <2>1
<1>7. CASE HalfSecond
  <2>1. waited' \in {waited, waited + 1} /\ installer.place # "trying"
    BY <1>7 DEF HalfSecond
  <2>2. \/ installer.place # "sleeping" /\ installer' = installer
        \/ /\ installer.place = "sleeping" /\ installer'.place \in {"ending", "trying"}
           /\ installer'.attempts = installer.attempts /\ installer'.since = installer.since
    BY <1>7 DEF HalfSecond
  <2> QED
    BY <1>1, <2>1, <2>2
<1>8. CASE InstallReturns
  BY <1>8 DEF InstallReturns, NoInstaller
<1>9. CASE ExplorerStep
  BY <1>9 DEF ExplorerStep, UnmapUnderInstaller, PackageGoes, ExplorerRestarts, NewExplorer, NoInstaller
<1>10. ASSUME NEW i \in Instances, InstanceStep(i), ~Inject(i)
       PROVE  UNCHANGED <<waited, installer>>
  BY <1>10 DEF InstanceStep, Ready, GiveUp, Activate, Watch, WatchPackage, Crash
<1>11. ASSUME NEW i \in Instances, BrushStep(i)
       PROVE  UNCHANGED <<waited, installer>>
  BY <1>11 DEF BrushStep, SetBrush, ReturnToDefault, RestoreAllTaskbarsToDefault
<1>12. CASE Unmap \/ Advise \/ WatchStep
  BY <1>3, <1>12 DEF Unmap, Advise, WatchStep, OnProcessDied, ForgetProcess, RestoreAfterDeath
<1>13. CASE TreeStep
  BY <1>3, <1>13 DEF TreeStep, AddSource, AddFrame, Remove, ExplorerPaints, AddRectangle
<1>14. CASE UNCHANGED tapVars
  BY <1>3, <1>14 DEF tapVars
<1> QED
  BY <1>2, <1>3, <1>4, <1>5, <1>6, <1>7, <1>8, <1>9, <1>10, <1>11, <1>12, <1>13, <1>14, Zenon DEF TapNext, LibraryStep

(* The wait for the library does not run out while the tries go on.        *)
THEOREM WaitIsLongEnough == TapSpec => []WaitOutlastsTries
<1>1. TapInit => TriesTakeTheWait
  BY DEF TapInit, NoInstaller, TriesTakeTheWait
<1>2. TapInv => TapTypeOK
  BY DEF TapInv
<1>3. TapInv /\ TriesTakeTheWait => WaitOutlastsTries
  <2> SUFFICES ASSUME TapInv, TriesTakeTheWait, waited = ReadyTimeout, installer.since <= ReadyTimeout - MaxAttempts
               PROVE  installer.place \notin {"trying", "sleeping"}
    BY DEF WaitOutlastsTries
  <2>1. /\ MaxAttempts \in Nat /\ ReadyTimeout \in Nat /\ installer.attempts \in 0..MaxAttempts + 1 /\ installer.since \in Nat
        /\ installer.place = "trying" => installer.attempts <= MaxAttempts
    BY AppearanceAssumption DEF TapInv, TapTypeOK, InstalledOnce
  <2> QED
    BY <2>1 DEF TriesTakeTheWait
<1> QED
  BY <1>1, <1>2, <1>3, TriesStep, TapInvHolds, PTL DEF TapSpec

-----------------------------------------------------------------------------
(* The Task View monitor.                                                  *)

ViewMessage == [load : 0..MaxLoads, shown : BOOLEAN]

(* The tries of a loop are a number. *)
LEMMA TriesType ==
  ASSUME tries \in 0..LoadAttempts, tries + 1 < LoadAttempts
  PROVE  tries + 1 \in 0..LoadAttempts
BY MonitorAssumption

(* A try that does not fail for good: it goes on, or is made again.        *)
Loads ==
  /\ \/ thread = "creating" /\ thread' = "querying" /\ ~sink' /\ sink' \in BOOLEAN /\ tries' = 0
     \/ thread = "querying" /\ thread' = "serving" /\ sink' = TRUE /\ tries' = 0
     \/ /\ thread \in {"creating", "querying"} /\ UNCHANGED <<thread, sink>>
        /\ tries + 1 < LoadAttempts /\ tries' = tries + 1
  /\ UNCHANGED <<quit, cleanup>> /\ ThreadKeeps

LEMMA LoadCases == LoadViewService => FailFast \/ Loads
<1> SUFFICES ASSUME LoadViewService PROVE FailFast \/ Loads
  OBVIOUS
<1>1. CASE thread = "creating"
  BY <1>1, Zenon DEF LoadViewService, Loads
<1>2. CASE thread # "creating"
  BY <1>2, Zenon DEF LoadViewService, Loads
<1> QED
  BY <1>1, <1>2

LEMMA MonitorTypeInit == MonitorInit => MonitorTypeOK
<1> SUFFICES ASSUME MonitorInit PROVE MonitorTypeOK
  OBVIOUS
<1>1. inbox \in Seq(ViewMessage)
  BY EmptySeq DEF MonitorInit
<1>2. loads \in 0..MaxLoads /\ tries \in 0..LoadAttempts /\ shows \in 0..MaxChanges
  BY MonitorAssumption DEF MonitorInit
<1> QED
  BY <1>1, <1>2, Zenon DEF MonitorInit, MonitorTypeOK, Places, ViewMessage

LEMMA GuiStepType ==
  ASSUME MonitorTypeOK, GuiStep \/ Hook \/ Unhook
  PROVE  MonitorTypeOK'
<1> USE MonitorAssumption DEF MonitorTypeOK, Places
<1>1. CASE Install
  <2>1. loads' \in 0..MaxLoads /\ tries' \in 0..LoadAttempts
    BY <1>1 DEF Install
  <2> QED
    BY <1>1, <2>1, Zenon DEF Install, viewVars
<1>2. CASE Uninstall
  BY <1>2 DEF Uninstall, threadVars, viewVars
<1>3. CASE PostQuit
  BY <1>3 DEF PostQuit, FailFast, threadVars, viewVars
<1>4. CASE NotBegun
  BY <1>4 DEF NotBegun, threadVars, viewVars
<1>5. CASE CleanedUp
  BY <1>5 DEF CleanedUp, threadVars, viewVars
<1>6. CASE Terminate
  BY <1>6 DEF Terminate, threadVars, viewVars
<1>7. CASE Hook
  BY <1>7 DEF Hook, threadVars, viewVars
<1>8. CASE Unhook
  BY <1>8, EmptySeq DEF Unhook, threadVars
<1> QED
  BY <1>1, <1>2, <1>3, <1>4, <1>5, <1>6, <1>7, <1>8 DEF GuiStep

LEMMA ThreadStepType ==
  ASSUME MonitorTypeOK, ThreadStep
  PROVE  MonitorTypeOK'
<1> USE MonitorAssumption DEF MonitorTypeOK, Places
<1>1. CASE Begin \/ SetRunning \/ CoInitialize \/ GetQuit
  BY <1>1 DEF Begin, SetRunning, CoInitialize, GetQuit, ThreadKeeps, guiVars, viewVars
<1>2. CASE DestroyLocals
  <2>1. CASE sink
    BY <1>2, <2>1 DEF DestroyLocals, ThreadKeeps, guiVars, viewVars
  <2>2. CASE ~sink
    BY <1>2, <2>2 DEF DestroyLocals, ThreadKeeps, guiVars, viewVars
  <2> QED
    BY <2>1, <2>2
<1>3. CASE LoadViewService
  <2>1. CASE FailFast
    BY <2>1 DEF FailFast, viewVars
  <2>2. CASE Loads
    <3>1. tries' \in 0..LoadAttempts
      BY <2>2, TriesType DEF Loads
    <3>2. sink' \in BOOLEAN /\ thread' \in Places
      BY <2>2, Zenon DEF Loads
    <3> QED
      BY <2>2, <3>1, <3>2 DEF Loads, ThreadKeeps, guiVars, viewVars
  <2> QED
    BY <1>3, <2>1, <2>2, LoadCases
<1> QED
  BY <1>1, <1>2, <1>3 DEF ThreadStep

LEMMA ViewStepType ==
  ASSUME MonitorTypeOK, ViewChanges \/ Receive \/ Ask
  PROVE  MonitorTypeOK'
<1> USE MonitorAssumption
<1>1. inbox \in Seq(ViewMessage) /\ loads \in 0..MaxLoads /\ visible \in BOOLEAN
  BY DEF MonitorTypeOK, ViewMessage
<1>2. CASE ViewChanges
  <2>1. [load |-> loads, shown |-> ~visible] \in ViewMessage
    BY <1>1 DEF ViewMessage
  <2>2. inbox' \in Seq(ViewMessage)
    BY <1>1, <1>2, <2>1, AppendProperties DEF ViewChanges
  <2> QED
    BY <1>2, <2>2 DEF MonitorTypeOK, ViewChanges, ViewMessage, guiVars, threadVars
<1>3. CASE Receive
  <2>1. Head(inbox) \in ViewMessage /\ inbox' \in Seq(ViewMessage)
    BY <1>1, <1>3, HeadTailProperties DEF Receive
  <2> QED
    BY <1>3, <2>1 DEF MonitorTypeOK, Receive, ViewMessage, guiVars, threadVars
<1>4. CASE Ask
  BY <1>4 DEF MonitorTypeOK, Ask, guiVars, threadVars
<1> QED
  BY <1>2, <1>3, <1>4

LEMMA MonitorTypeStep == MonitorTypeOK /\ [MonitorNext]_monitorVars => MonitorTypeOK'
<1> SUFFICES ASSUME MonitorTypeOK, [MonitorNext]_monitorVars PROVE MonitorTypeOK'
  OBVIOUS
<1>1. CASE UNCHANGED monitorVars
  BY <1>1 DEF MonitorTypeOK, monitorVars, guiVars, threadVars, viewVars
<1> QED
  BY <1>1, GuiStepType, ThreadStepType, ViewStepType DEF MonitorNext

(* Uninstall and the thread.  A thread that has been told to quit is one   *)
(* the GUI thread waits for, or has waited for; only such a thread returns *)
(* from ThreadMain; and it signals that it is clean once it is.            *)
QuitIsWaitedFor ==
  /\ gui \in {"free", "checking"} /\ thread # "none" => ~quit
  /\ gui = "waiting" => quit
  /\ gui = "terminating" /\ quit => cleanup
  /\ gui \in {"checking", "waiting", "terminating"} => thread # "none"
  /\ gui = "failed" => thread = "none"
CleanHasNoSink ==
  /\ thread \in {"cleaning", "clean"} => quit
  /\ cleanup => thread \in {"clean", "none"}
  /\ sink => thread \in {"serving", "cleaning"}
QuitInv == QuitIsWaitedFor /\ CleanHasNoSink

LEMMA QuitInit == MonitorInit => QuitInv
BY DEF MonitorInit, QuitInv, QuitIsWaitedFor, CleanHasNoSink

LEMMA QuitStep == MonitorTypeOK /\ QuitInv /\ [MonitorNext]_monitorVars => QuitInv'
<1> SUFFICES ASSUME MonitorTypeOK, QuitInv, [MonitorNext]_monitorVars PROVE QuitInv'
  OBVIOUS
<1> USE DEF QuitInv, QuitIsWaitedFor, CleanHasNoSink
<1>1. CASE Install
  BY <1>1 DEF Install, viewVars, MonitorTypeOK
<1>2. CASE Uninstall
  BY <1>2 DEF Uninstall, threadVars, viewVars
<1>3. CASE PostQuit
  BY <1>3 DEF PostQuit, FailFast, threadVars, viewVars
<1>4. CASE NotBegun
  BY <1>4 DEF NotBegun, threadVars, viewVars
<1>5. CASE CleanedUp
  BY <1>5 DEF CleanedUp, threadVars, viewVars
<1>6. CASE Terminate
  BY <1>6 DEF Terminate, threadVars, viewVars
<1>7. CASE Begin \/ SetRunning \/ CoInitialize
  BY <1>7 DEF Begin, SetRunning, CoInitialize, ThreadKeeps, guiVars, viewVars
<1>8. CASE LoadViewService
  <2>1. CASE FailFast
    BY <2>1 DEF FailFast, viewVars
  <2>2. CASE Loads
    BY <2>2 DEF Loads, ThreadKeeps, guiVars, viewVars
  <2> QED
    BY <1>8, <2>1, <2>2, LoadCases
<1>9. CASE GetQuit
  BY <1>9 DEF GetQuit, ThreadKeeps, guiVars, viewVars
<1>10. CASE DestroyLocals
  BY <1>10 DEF DestroyLocals, ThreadKeeps, guiVars, viewVars
<1>11. CASE Hook \/ Unhook \/ ViewChanges \/ Receive \/ Ask
  BY <1>11 DEF Hook, Unhook, ViewChanges, Receive, Ask, guiVars, threadVars
<1>12. CASE UNCHANGED monitorVars
  BY <1>12 DEF monitorVars, guiVars, threadVars, viewVars
<1> QED
  BY <1>1, <1>2, <1>3, <1>4, <1>5, <1>6, <1>7, <1>8, <1>9, <1>10, <1>11, <1>12
     DEF MonitorNext, GuiStep, ThreadStep

(* The thread is never terminated while it is on its way out: whatever it  *)
(* was doing when it was told to quit, by then its sink is unregistered.   *)
THEOREM QuitThreadIsLetGo == MonitorSpec => []QuitThreadIsCleanWhenTerminated
<1>1. MonitorInit => MonitorTypeOK /\ QuitInv
  BY MonitorTypeInit, QuitInit
<1>2. MonitorTypeOK /\ QuitInv /\ [MonitorNext]_monitorVars => MonitorTypeOK' /\ QuitInv'
  BY MonitorTypeStep, QuitStep
<1>3. QuitInv => QuitThreadIsCleanWhenTerminated
  BY DEF QuitInv, QuitIsWaitedFor, CleanHasNoSink, QuitThreadIsCleanWhenTerminated
<1> QED
  BY <1>1, <1>2, <1>3, PTL DEF MonitorSpec

-----------------------------------------------------------------------------
(* What the worker believes of Task View.  Without a hook nothing reaches  *)
(* it; what it heard last comes from a sink that is registered, or was and *)
(* belongs to the thread that is there still; before its sink is there a   *)
(* load has posted nothing; and of a load whose sink is registered, the    *)
(* last message tells the truth, until it is received and believed.        *)
HookedHears == ~hooking => inbox = <<>> /\ ~informed
InformedByThread == informed => thread \in {"serving", "cleaning", "clean"} \/ gui = "failed"
SilentBeforeSink ==
  \A i \in DOMAIN inbox :
    /\ inbox[i].load <= loads
    /\ thread \in {"created", "begun", "running", "creating", "querying"} => inbox[i].load < loads
LastTells ==
  sink => IF inbox = <<>> THEN informed => believed = visible
          ELSE inbox[Len(inbox)].load = loads => inbox[Len(inbox)].shown = visible
FollowInv == HookedHears /\ InformedByThread /\ SilentBeforeSink /\ LastTells

LEMMA InboxElements ==
  ASSUME MonitorTypeOK
  PROVE  /\ inbox \in Seq(ViewMessage)
         /\ DOMAIN inbox = 1 .. Len(inbox) /\ Len(inbox) \in Nat
         /\ inbox # <<>> => Len(inbox) \in DOMAIN inbox
         /\ \A i \in DOMAIN inbox : inbox[i] \in ViewMessage /\ inbox[i].load \in Nat
<1>1. inbox \in Seq(ViewMessage)
  BY DEF MonitorTypeOK, ViewMessage
<1>2. \A m \in ViewMessage : m.load \in Nat
  BY MonitorAssumption DEF ViewMessage
<1>3. DOMAIN inbox = 1 .. Len(inbox) /\ \A i \in DOMAIN inbox : inbox[i] \in ViewMessage
  BY <1>1, LenProperties, ElementOfSeq
<1>4. Len(inbox) \in Nat /\ (inbox # <<>> => Len(inbox) \in Nat \ {0})
  BY <1>1, EmptySeq, LenProperties
<1> QED
  BY <1>1, <1>2, <1>3, <1>4

LEMMA FollowInit == MonitorInit => FollowInv
BY DEF MonitorInit, FollowInv, HookedHears, InformedByThread, SilentBeforeSink, LastTells

LEMMA ThreadKeepsFollow ==
  ASSUME MonitorTypeOK, QuitInv, FollowInv, ThreadStep
  PROVE  FollowInv'
<1> USE DEF FollowInv, HookedHears, InformedByThread, SilentBeforeSink, LastTells
<1>1. CASE Begin \/ SetRunning \/ CoInitialize \/ GetQuit
  BY <1>1 DEF Begin, SetRunning, CoInitialize, GetQuit, ThreadKeeps, guiVars, viewVars
<1>2. CASE DestroyLocals
  <2>1. CASE sink
    BY <1>2, <2>1 DEF DestroyLocals, ThreadKeeps, guiVars, viewVars
  <2>2. CASE ~sink
    BY <1>2, <2>2 DEF DestroyLocals, ThreadKeeps, guiVars, viewVars
  <2> QED
    BY <2>1, <2>2
<1>3. CASE LoadViewService
  <2>1. CASE FailFast
    BY <2>1 DEF FailFast, viewVars
  <2>2. CASE Loads /\ ~sink'
    BY <2>2 DEF Loads, ThreadKeeps, guiVars, viewVars
  <2>3. CASE Loads /\ sink'
    <3>1. \/ thread = "querying" /\ thread' = "serving"
          \/ thread \in {"creating", "querying"} /\ UNCHANGED <<thread, sink>>
      BY <2>3, Zenon DEF Loads
    <3>2. UNCHANGED <<loads, gui, hooking, inbox, informed, believed, visible>>
      BY <2>3, Zenon DEF Loads, ThreadKeeps, guiVars, viewVars
    <3>3. inbox # <<>> => Len(inbox) \in DOMAIN inbox /\ inbox[Len(inbox)].load < loads
      BY <3>1, InboxElements
    <3>4. loads \in Nat /\ \A i \in DOMAIN inbox : inbox[i].load \in Nat
      BY InboxElements, MonitorAssumption DEF MonitorTypeOK
    <3>5. ~informed
      BY <3>1 DEF QuitInv, CleanHasNoSink, QuitIsWaitedFor, MonitorTypeOK
    <3> QED
      BY <3>1, <3>2, <3>3, <3>4, <3>5
  <2> QED
    BY <1>3, <2>1, <2>2, <2>3, LoadCases
<1> QED
  BY <1>1, <1>2, <1>3 DEF ThreadStep

(* The GUI thread unmaps the library with its sink, and each load begins   *)
(* without one.                                                            *)
LEMMA GuiKeepsFollow ==
  ASSUME MonitorTypeOK, QuitInv, FollowInv, GuiStep \/ Hook \/ Unhook
  PROVE  FollowInv'
<1> USE DEF FollowInv, HookedHears, InformedByThread, SilentBeforeSink, LastTells
<1>1. CASE Install
  <2>1. \A i \in DOMAIN inbox : inbox[i].load \in Nat
    BY InboxElements
  <2>2. ~sink /\ loads \in Nat /\ loads' = loads + 1
    BY <1>1, MonitorAssumption DEF Install, QuitInv, CleanHasNoSink, MonitorTypeOK
  <2>3. UNCHANGED <<gui, hooking, sink, inbox, informed, believed, visible>> /\ thread' = "created" /\ thread = "none"
    BY <1>1 DEF Install, viewVars
  <2>4. ~informed
    BY <1>1, <2>3 DEF Install
  <2> QED
    BY <2>1, <2>2, <2>3, <2>4
<1>2. CASE Uninstall
  BY <1>2 DEF Uninstall, threadVars, viewVars
<1>3. CASE PostQuit
  BY <1>3 DEF PostQuit, FailFast, threadVars, viewVars
<1>4. CASE NotBegun
  BY <1>4 DEF NotBegun, threadVars, viewVars
<1>5. CASE CleanedUp
  BY <1>5 DEF CleanedUp, threadVars, viewVars
<1>6. CASE Terminate
  BY <1>6 DEF Terminate, threadVars, viewVars
<1>7. CASE Hook
  BY <1>7 DEF Hook, threadVars, viewVars
<1>8. CASE Unhook
  BY <1>8 DEF Unhook, threadVars
<1> QED
  BY <1>1, <1>2, <1>3, <1>4, <1>5, <1>6, <1>7, <1>8 DEF GuiStep

(* Messages are received in the order in which they were posted, and an    *)
(* answer tells what is the case, like the last message that precedes it.  *)
LEMMA ViewKeepsFollow ==
  ASSUME MonitorTypeOK, QuitInv, FollowInv, ViewChanges \/ Receive \/ Ask
  PROVE  FollowInv'
<1> USE DEF FollowInv, HookedHears, InformedByThread, SilentBeforeSink, LastTells
<1>1. inbox \in Seq(ViewMessage) /\ loads \in Nat /\ visible \in BOOLEAN
  BY InboxElements, MonitorAssumption DEF MonitorTypeOK
<1>2. /\ DOMAIN inbox = 1 .. Len(inbox) /\ Len(inbox) \in Nat
      /\ \A i \in DOMAIN inbox : inbox[i] \in ViewMessage
  BY InboxElements
<1>3. CASE ViewChanges
  <2>1. UNCHANGED <<loads, gui, hooking, thread, sink, informed, believed>> /\ visible' = ~visible
    BY <1>3, Zenon DEF ViewChanges, guiVars, threadVars
  <2>2. CASE Notified
    <3> DEFINE m == [load |-> loads, shown |-> ~visible]
    <3>1. m \in ViewMessage /\ m.load = loads /\ m.shown = ~visible
      BY <1>1 DEF ViewMessage, MonitorTypeOK
    <3>2. inbox' = Append(inbox, m)
      BY <1>3, <2>2, Zenon DEF ViewChanges
    <3> HIDE DEF m
    <3>3. /\ inbox' \in Seq(ViewMessage) /\ inbox' # <<>> /\ Len(inbox') = Len(inbox) + 1
          /\ \A i \in 1 .. Len(inbox) : inbox'[i] = inbox[i]
          /\ inbox'[Len(inbox) + 1] = m
      BY <1>1, <3>1, <3>2, AppendProperties
    <3>4. DOMAIN inbox' = 1 .. Len(inbox) + 1
      BY <3>3, LenProperties
    <3>5. sink /\ hooking /\ thread \in {"serving", "cleaning"}
      BY <2>2 DEF Notified, QuitInv, CleanHasNoSink
    <3>6. SilentBeforeSink'
      BY <1>1, <1>2, <2>1, <3>1, <3>3, <3>4, <3>5
    <3>7. LastTells'
      <4>1. inbox'[Len(inbox')].shown = visible'
        BY <2>1, <3>1, <3>3, Zenon
      <4> QED
        BY <3>3, <4>1
    <3> QED
      BY <2>1, <3>5, <3>6, <3>7
  <2>3. CASE ~Notified
    <3>1. inbox' = inbox
      BY <1>3, <2>3, Zenon DEF ViewChanges
    <3>2. ~sink \/ (inbox = <<>> /\ ~informed)
      BY <2>3 DEF Notified
    <3> QED
      BY <2>1, <3>1, <3>2
  <2> QED
    BY <2>2, <2>3
<1>4. CASE Receive
  <2>1. /\ UNCHANGED <<loads, gui, hooking, thread, sink, visible>> /\ hooking /\ inbox # <<>>
        /\ inbox' = Tail(inbox) /\ believed' = Head(inbox).shown
        /\ informed' = (sink /\ Head(inbox).load = loads)
    BY <1>4, Zenon DEF Receive, guiVars, threadVars
  <2>2. /\ Tail(inbox) \in Seq(ViewMessage) /\ Len(Tail(inbox)) = Len(inbox) - 1
        /\ \A i \in 1 .. Len(Tail(inbox)) : Tail(inbox)[i] = inbox[i + 1]
        /\ Head(inbox) = inbox[1]
    BY <1>1, <2>1, HeadTailProperties
  <2>3. DOMAIN Tail(inbox) = 1 .. Len(inbox) - 1 /\ (Tail(inbox) = <<>> <=> Len(inbox) = 1)
    BY <1>2, <2>1, <2>2, LenProperties, EmptySeq
  <2>4. SilentBeforeSink'
    BY <1>2, <2>1, <2>2, <2>3
  <2>5. InformedByThread'
    BY <2>1 DEF QuitInv, CleanHasNoSink
  <2>6. LastTells'
    <3>1. CASE Tail(inbox) = <<>>
      <4>1. Head(inbox) = inbox[Len(inbox)]
        BY <2>2, <2>3, <3>1
      <4> QED
        BY <2>1, <3>1, <4>1
    <3>2. CASE Tail(inbox) # <<>>
      <4>1. Tail(inbox)[Len(Tail(inbox))] = inbox[Len(inbox)]
        BY <1>2, <2>1, <2>2, <2>3, <3>2
      <4> QED
        BY <2>1, <3>2, <4>1
    <3> QED
      BY <3>1, <3>2
  <2> QED
    BY <2>1, <2>4, <2>5, <2>6
<1>5. CASE Ask
  <2>1. UNCHANGED <<loads, gui, hooking, thread, sink, visible, inbox>> /\ hooking
    BY <1>5, Zenon DEF Ask, guiVars, threadVars
  <2>2. CASE thread = "serving"
    <3>1. believed' = visible
      BY <1>1, <1>5, <2>2 DEF Ask
    <3> QED
      BY <2>1, <2>2, <3>1
  <2>3. CASE thread # "serving"
    <3>1. ~informed'
      BY <1>5, <2>3 DEF Ask
    <3> QED
      BY <2>1, <3>1
  <2> QED
    BY <2>2, <2>3
<1> QED
  BY <1>3, <1>4, <1>5

LEMMA FollowStep == MonitorTypeOK /\ QuitInv /\ FollowInv /\ [MonitorNext]_monitorVars => FollowInv'
<1> SUFFICES ASSUME MonitorTypeOK, QuitInv, FollowInv, [MonitorNext]_monitorVars PROVE FollowInv'
  OBVIOUS
<1>1. CASE UNCHANGED monitorVars
  BY <1>1 DEF FollowInv, HookedHears, InformedByThread, SilentBeforeSink, LastTells,
              monitorVars, guiVars, threadVars, viewVars
<1> QED
  BY <1>1, GuiKeepsFollow, ThreadKeepsFollow, ViewKeepsFollow DEF MonitorNext

(* Whatever loads of the library, changes of Task View, messages and       *)
(* answers follow one another, and however long messages wait, a worker    *)
(* that has handled them all believes what is the case.                    *)
THEOREM TaskViewIsFollowed == MonitorSpec => []WorkerFollowsTaskView
<1> DEFINE Inv == MonitorTypeOK /\ QuitInv /\ FollowInv
<1>1. MonitorInit => Inv
  BY MonitorTypeInit, QuitInit, FollowInit
<1>2. Inv /\ [MonitorNext]_monitorVars => Inv'
  BY MonitorTypeStep, QuitStep, FollowStep
<1>3. Inv => WorkerFollowsTaskView
  BY DEF FollowInv, LastTells, WorkerFollowsTaskView
<1> HIDE DEF Inv
<1> QED
  BY <1>1, <1>2, <1>3, PTL DEF MonitorSpec

-----------------------------------------------------------------------------
(* The detour.  Of the calls in progress three things matter: for which    *)
(* taskbars one waits for Explorer, which are left to a refresh, and       *)
(* whether call k, counted from the outermost, waits for taskbar b.        *)
WaitsFor(s, b) == \E i \in DOMAIN s : s[i].bar = b /\ ~s[i].served
Due(s, b) == \E i \in DOMAIN s : s[i].at = "refresh" /\ b \in s[i].todo
NoStock(s) == \A i \in DOMAIN s : s[i].at # "stock"
IsFor(s, k, b) == k \in 1 .. Len(s) /\ s[Len(s) + 1 - k].bar = b /\ ~s[Len(s) + 1 - k].served

(* The request Explorer waits for is the only live one, whether it is      *)
(* queued or being answered, and the call it was made for is unserved.     *)
Live == {i \in DOMAIN requests : requests[i].live}
OneLiveRequest ==
  /\ \A i \in Live : asking # Nobody /\ requests[i].bar = asking.bar
  /\ \A i, j \in Live : i = j
  /\ replying.live => asking # Nobody /\ replying.bar = asking.bar /\ Live = {}
AskedForCall == WorkerExists /\ asking.call # 0 => IsFor(calls, asking.call, asking.bar)
NothingLeft == ~WorkerExists => calls = <<>> /\ requests = <<>> /\ replying = NoReply

(* What the worker has just painted stays painted until it has answered.   *)
PaintedStays ==
  replying.live /\ replying.painted =>
    shown[replying.bar] = "ours" /\ replying.bar \notin normal /\ desired = "ours"

AskInv == OneLiveRequest /\ AskedForCall /\ NothingLeft /\ PaintedStays

(* Explorer paints b once it has an answer: it asks already, or will.      *)
WillAsk(b) == asking.bar = b \/ WaitsFor(calls, b)

(* A taskbar taken for normal is, or will be once Explorer has an answer.  *)
NormalIsNormal ==
  WorkerExists => \A b \in normal : shown[b] = "normal" \/ b \in presumed \/ WillAsk(b)

(* A taskbar has the accent it should have, or is to be refreshed, or is   *)
(* asked about; one whose accent should be Explorer's will be.             *)
AccentIsComing ==
  life = "running" => \A b \in Bars :
    \/ shown[b] = desired \/ b \in missed \cup presumed
    \/ Due(calls, b) \/ asking.bar = b
    \/ desired = "normal" /\ WaitsFor(calls, b)

(* The exit that nobody disturbs: one call, answers disabled, and every    *)
(* taskbar returned to stock, on its way there, or still to do.            *)
ExitIsAlone ==
  life = "exiting" /\ ~disturbed =>
    /\ disabled /\ ~replying.painted
    /\ Len(calls) = 1 /\ calls[1].at = "stock" /\ calls[1].valid
    /\ \A b \in Bars : shown[b] = "normal" \/ b \in presumed \/ b \in calls[1].todo \/ WillAsk(b)
StockIsExit == life = "running" => NoStock(calls)
ExitIsClean ==
  life = "gone" /\ ~disturbed =>
    \A b \in Bars : shown[b] = "normal" \/ b \in presumed \/ asking.bar = b

(* Within the types: what waits for Explorer waits for a taskbar, and the  *)
(* calls are numbered up to the bound.                                     *)
GoodCall == {c \in Call : c.served \/ c.bar \in Bars}
CallsAreGood == calls \in Seq(GoodCall) /\ Len(calls) <= MaxDepth /\ (asking # Nobody => asking.bar \in Bars)

DetourInv ==
  DetourTypeOK /\ CallsAreGood /\ AskInv /\ NormalIsNormal /\ AccentIsComing /\ StockIsExit /\ ExitIsAlone /\ ExitIsClean

-----------------------------------------------------------------------------
(* Calls and sequences of calls.                                           *)
Walk == [at : {"refresh", "stock"}, bar : Bars \cup {"none"}, served : BOOLEAN, todo : SUBSET Bars, valid : BOOLEAN]
ForceCall == [at : {"force", "forceAgain"}, bar : Bars, served : BOOLEAN]

LEMMA CallParts ==
  ASSUME NEW c \in GoodCall
  PROVE  /\ c.bar \in Bars \cup {"none"} /\ c.served \in BOOLEAN /\ (c.served \/ c.bar \in Bars)
         /\ c.at \in {"refresh", "stock"} => c \in Walk /\ c.todo \subseteq Bars /\ c.valid \in BOOLEAN
         /\ c.at \in {"force", "forceAgain"} => c \in ForceCall /\ c.bar \in Bars
         /\ c.at \in {"refresh", "stock", "force", "forceAgain"}
<1>1. c \in Call /\ (c.served \/ c.bar \in Bars)
  BY Zenon DEF GoodCall
<1>2. CASE c \in Walk
  BY <1>1, <1>2 DEF Walk
<1>3. CASE c \in ForceCall
  BY <1>1, <1>3 DEF ForceCall
<1> QED
  BY <1>1, <1>2, <1>3 DEF Call, Walk, ForceCall

LEMMA SeqParts ==
  ASSUME NEW s \in Seq(GoodCall)
  PROVE  /\ DOMAIN s = 1 .. Len(s) /\ Len(s) \in Nat
         /\ \A i \in 1 .. Len(s) : s[i] \in GoodCall
         /\ s # <<>> => Len(s) \in Nat \ {0} /\ Head(s) = s[1] /\ Head(s) \in GoodCall
BY LenProperties, ElementOfSeq, EmptySeq, HeadTailProperties

(* A call begins.                                                          *)
LEMMA PushCall ==
  ASSUME NEW s \in Seq(GoodCall), NEW c \in GoodCall
  PROVE  /\ <<c>> \o s \in Seq(GoodCall) /\ Len(<<c>> \o s) = Len(s) + 1
         /\ <<c>> \o s # <<>> /\ Head(<<c>> \o s) = c /\ (<<c>> \o s)[1] = c
         /\ \A b : WaitsFor(s, b) \/ (c.bar = b /\ ~c.served) => WaitsFor(<<c>> \o s, b)
         /\ \A b : Due(s, b) \/ (c.at = "refresh" /\ b \in c.todo) => Due(<<c>> \o s, b)
         /\ \A k, b : IsFor(s, k, b) => IsFor(<<c>> \o s, k, b)
         /\ NoStock(s) /\ c.at # "stock" => NoStock(<<c>> \o s)
<1> DEFINE t == <<c>> \o s
<1>1. <<c>> \in Seq(GoodCall) /\ Len(<<c>>) = 1 /\ <<c>>[1] = c
  OBVIOUS
<1>2. t \in Seq(GoodCall) /\ Len(t) = Len(s) + 1
  BY <1>1, ConcatProperties, SeqParts
<1>3. DOMAIN s = 1 .. Len(s) /\ Len(s) \in Nat /\ DOMAIN t = 1 .. Len(s) + 1
  BY <1>2, SeqParts
<1>4. \A i \in 1 .. 1 + Len(s) : t[i] = IF i <= 1 THEN <<c>>[i] ELSE s[i - 1]
  BY <1>1, ConcatProperties
<1>5. t[1] = c /\ \A i \in 1 .. Len(s) : t[i + 1] = s[i]
  BY <1>1, <1>3, <1>4
<1> HIDE DEF t
<1>6. t # <<>> /\ Head(t) = c
  <2>1. t # <<>>
    BY <1>2, <1>3, EmptySeq
  <2> QED
    BY <1>2, <1>5, <2>1, SeqParts
<1>7. \A i \in DOMAIN s : i + 1 \in DOMAIN t /\ t[i + 1] = s[i]
  BY <1>3, <1>5
<1>8. 1 \in DOMAIN t
  BY <1>3
<1>9. \A b : WaitsFor(s, b) \/ (c.bar = b /\ ~c.served) => WaitsFor(t, b)
  BY <1>5, <1>7, <1>8 DEF WaitsFor
<1>10. \A b : Due(s, b) \/ (c.at = "refresh" /\ b \in c.todo) => Due(t, b)
  BY <1>5, <1>7, <1>8 DEF Due
<1>11. ASSUME NEW k, NEW b, IsFor(s, k, b) PROVE IsFor(t, k, b)
  <2>1. k \in 1 .. Len(s) /\ s[Len(s) + 1 - k].bar = b /\ ~s[Len(s) + 1 - k].served
    BY <1>11 DEF IsFor
  <2>2. Len(s) + 1 - k \in 1 .. Len(s) /\ Len(t) + 1 - k = (Len(s) + 1 - k) + 1 /\ k \in 1 .. Len(t)
    BY <1>2, <1>3, <2>1
  <2>3. t[Len(t) + 1 - k] = s[Len(s) + 1 - k]
    BY <1>5, <2>2
  <2> QED
    BY <2>1, <2>2, <2>3 DEF IsFor
<1>12. NoStock(s) /\ c.at # "stock" => NoStock(t)
  <2>1. \A i \in DOMAIN t : i = 1 \/ (i - 1 \in DOMAIN s /\ t[i] = s[i - 1])
    BY <1>1, <1>3, <1>4 DEF t
  <2> QED
    BY <1>5, <2>1 DEF NoStock
<1> QED
  BY <1>2, <1>5, <1>6, <1>9, <1>10, <1>11, <1>12 DEF t

(* The innermost call, which Explorer has served, returns.                 *)
LEMMA PopCall ==
  ASSUME NEW s \in Seq(GoodCall), s # <<>>, Head(s).served
  PROVE  /\ Tail(s) \in Seq(GoodCall) /\ Len(Tail(s)) = Len(s) - 1 /\ Len(Tail(s)) \in Nat
         /\ \A b : WaitsFor(s, b) => WaitsFor(Tail(s), b)
         /\ \A b : Due(s, b) => Due(Tail(s), b) \/ (Head(s).at = "refresh" /\ b \in Head(s).todo)
         /\ \A k, b : IsFor(s, k, b) => IsFor(Tail(s), k, b)
         /\ NoStock(s) => NoStock(Tail(s))
<1> DEFINE t == Tail(s)
<1>1. t \in Seq(GoodCall) /\ Len(t) = Len(s) - 1 /\ \A i \in 1 .. Len(t) : t[i] = s[i + 1]
  BY HeadTailProperties
<1>2. DOMAIN s = 1 .. Len(s) /\ Len(s) \in Nat \ {0} /\ Head(s) = s[1]
  BY SeqParts
<1> HIDE DEF t
<1>3. DOMAIN t = 1 .. Len(s) - 1 /\ Len(t) \in Nat
  BY <1>1, <1>2, SeqParts
<1>4. \A i \in DOMAIN s : i # 1 => i - 1 \in DOMAIN t /\ t[i - 1] = s[i]
  BY <1>1, <1>2, <1>3
<1>5. \A b : WaitsFor(s, b) => WaitsFor(t, b)
  BY <1>2, <1>4 DEF WaitsFor
<1>6. \A b : Due(s, b) => Due(t, b) \/ (Head(s).at = "refresh" /\ b \in Head(s).todo)
  BY <1>2, <1>4 DEF Due
<1>7. ASSUME NEW k, NEW b, IsFor(s, k, b) PROVE IsFor(t, k, b)
  <2>1. k \in 1 .. Len(s) /\ s[Len(s) + 1 - k].bar = b /\ ~s[Len(s) + 1 - k].served
    BY <1>7 DEF IsFor
  <2>2. Len(s) + 1 - k # 1
    BY <1>2, <2>1
  <2>3. k \in 1 .. Len(t) /\ Len(t) + 1 - k \in 1 .. Len(t) /\ Len(t) + 1 - k = (Len(s) + 1 - k) - 1
    BY <1>1, <1>2, <2>1, <2>2
  <2>4. t[Len(t) + 1 - k] = s[Len(s) + 1 - k]
    BY <1>1, <1>2, <2>1, <2>3
  <2> QED
    BY <2>1, <2>3, <2>4 DEF IsFor
<1>8. NoStock(s) => NoStock(t)
  <2>1. \A i \in DOMAIN t : i + 1 \in DOMAIN s /\ t[i] = s[i + 1]
    BY <1>1, <1>2, <1>3
  <2> QED
    BY <2>1 DEF NoStock
<1> QED
  BY <1>1, <1>3, <1>5, <1>6, <1>7, <1>8 DEF t

(* Explorer has served call k: it waits no longer, the others do.          *)
LEMMA ServeCall ==
  ASSUME calls \in Seq(GoodCall), NEW k \in Nat
  PROVE  /\ Serve(k) \in Seq(GoodCall) /\ Len(Serve(k)) = Len(calls)
         /\ calls = <<>> => Serve(k) = <<>>
         /\ \A i \in 1 .. Len(calls) : /\ Serve(k)[i].at = calls[i].at
                                       /\ calls[i].at \in {"refresh", "stock"} =>
                                            Serve(k)[i].todo = calls[i].todo /\ Serve(k)[i].valid = calls[i].valid
         /\ \A b : Due(calls, b) => Due(Serve(k), b)
         /\ \A b, d : (k # 0 => IsFor(calls, k, d)) /\ b # d /\ WaitsFor(calls, b) => WaitsFor(Serve(k), b)
         /\ k = 0 => Serve(k) = calls
         /\ NoStock(calls) => NoStock(Serve(k))
<1>1. DOMAIN calls = 1 .. Len(calls) /\ Len(calls) \in Nat /\ \A i \in 1 .. Len(calls) : calls[i] \in GoodCall
  BY SeqParts
<1>2. CASE k = 0 \/ k > Len(calls)
  <2>1. Serve(k) = calls
    BY <1>2 DEF Serve
  <2>2. \A b : (k # 0 => IsFor(calls, k, b)) => k = 0
    BY <1>1, <1>2 DEF IsFor
  <2> QED
    BY <2>1, <2>2
<1>3. CASE ~(k = 0 \/ k > Len(calls))
  <2> DEFINE n == Len(calls) + 1 - k
             c == [calls[n] EXCEPT !.served = TRUE]
             t == Serve(k)
  <2>1. n \in 1 .. Len(calls) /\ k \in 1 .. Len(calls) /\ calls # <<>>
    BY <1>1, <1>3, EmptySeq
  <2>2. t = [calls EXCEPT ![n] = c]
    BY <1>3 DEF Serve
  <2>3. c \in GoodCall
    <3>1. CASE calls[n] \in Walk
      BY <3>1 DEF Walk, Call, GoodCall
    <3>2. CASE calls[n] \in ForceCall
      BY <3>2 DEF ForceCall, Call, GoodCall
    <3> QED
      BY <1>1, <2>1, <3>1, <3>2 DEF GoodCall, Call, Walk, ForceCall
  <2>4. c.at = calls[n].at /\ (calls[n].at \in {"refresh", "stock"} => c.todo = calls[n].todo /\ c.valid = calls[n].valid)
    <3>1. CASE calls[n] \in Walk
      BY <3>1 DEF Walk
    <3>2. CASE calls[n] \in ForceCall
      BY <3>2 DEF ForceCall
    <3> QED
      BY <1>1, <2>1, <3>1, <3>2 DEF GoodCall, Call, Walk, ForceCall
  <2> HIDE DEF n, c, t
  <2>5. /\ t \in Seq(GoodCall) /\ Len(t) = Len(calls)
        /\ \A j \in 1 .. Len(calls) : t[j] = IF j = n THEN c ELSE calls[j]
    BY <2>1, <2>2, <2>3, ExceptSeq
  <2>6. DOMAIN t = 1 .. Len(calls)
    BY <2>5, SeqParts
  <2>7. \A i \in 1 .. Len(calls) :
          /\ t[i].at = calls[i].at
          /\ calls[i].at \in {"refresh", "stock"} => t[i].todo = calls[i].todo /\ t[i].valid = calls[i].valid
    BY <2>4, <2>5
  <2>8. \A b : Due(calls, b) => Due(t, b)
    BY <1>1, <2>6, <2>7 DEF Due
  <2>9. ASSUME NEW b, NEW d, IsFor(calls, k, d), b # d, WaitsFor(calls, b) PROVE WaitsFor(t, b)
    <3>1. calls[n].bar = d
      BY <2>9 DEF IsFor, n
    <3>2. PICK i \in DOMAIN calls : calls[i].bar = b /\ ~calls[i].served
      BY <2>9 DEF WaitsFor
    <3>3. i # n /\ i \in DOMAIN t /\ t[i] = calls[i]
      BY <1>1, <2>5, <2>6, <2>9, <3>1, <3>2
    <3> QED
      BY <3>2, <3>3 DEF WaitsFor
  <2>10. NoStock(calls) => NoStock(t)
    BY <1>1, <2>6, <2>7 DEF NoStock
  <2> QED
    BY <1>3, <2>1, <2>5, <2>7, <2>8, <2>9, <2>10 DEF t
<1> QED
  BY <1>2, <1>3

(* ResetState: the iterators of ReturnToStock are no longer good.          *)
Dangling(s) == [i \in DOMAIN s |-> IF s[i].at = "stock" THEN [s[i] EXCEPT !.valid = FALSE] ELSE s[i]]

LEMMA DanglingCalls ==
  ASSUME NEW s \in Seq(GoodCall)
  PROVE  /\ Dangling(s) \in Seq(GoodCall) /\ Len(Dangling(s)) = Len(s)
         /\ \A b : WaitsFor(s, b) => WaitsFor(Dangling(s), b)
         /\ \A k, b : IsFor(s, k, b) => IsFor(Dangling(s), k, b)
         /\ NoStock(s) => NoStock(Dangling(s))
<1> DEFINE t == Dangling(s)
           e(i) == IF s[i].at = "stock" THEN [s[i] EXCEPT !.valid = FALSE] ELSE s[i]
<1>1. DOMAIN s = 1 .. Len(s) /\ Len(s) \in Nat /\ \A i \in 1 .. Len(s) : s[i] \in GoodCall
  BY SeqParts
<1>2. ASSUME NEW i \in 1 .. Len(s)
      PROVE  e(i) \in GoodCall /\ e(i).bar = s[i].bar /\ e(i).served = s[i].served /\ e(i).at = s[i].at
  <2>1. CASE s[i].at = "stock"
    <3>1. s[i] \in Walk /\ (s[i].served \/ s[i].bar \in Bars)
      BY <1>1, <2>1, CallParts
    <3>2. e(i) = [s[i] EXCEPT !.valid = FALSE]
      BY <2>1
    <3>3. e(i) \in Walk /\ e(i).bar = s[i].bar /\ e(i).served = s[i].served /\ e(i).at = s[i].at
      BY <3>1, <3>2 DEF Walk
    <3>4. e(i) \in Call
      BY <3>3 DEF Walk, Call
    <3> HIDE DEF e
    <3>5. e(i).served \/ e(i).bar \in Bars
      BY <3>1, <3>3, Zenon
    <3> QED
      BY <3>3, <3>4, <3>5 DEF GoodCall
  <2>2. CASE s[i].at # "stock"
    BY <1>1, <2>2
  <2> QED
    BY <2>1, <2>2
<1>3. t = [i \in 1 .. Len(s) |-> e(i)]
  BY <1>1 DEF Dangling
<1> HIDE DEF t, e
<1>4. t \in Seq(GoodCall)
  BY <1>1, <1>2, <1>3, IsASeq
<1>5. DOMAIN t = 1 .. Len(s) /\ \A i \in 1 .. Len(s) : t[i] = e(i)
  BY <1>3
<1>6. Len(t) = Len(s)
  BY <1>1, <1>4, <1>5, SeqParts
<1>7. \A b : WaitsFor(s, b) => WaitsFor(t, b)
  BY <1>1, <1>2, <1>5, Zenon DEF WaitsFor
<1>8. ASSUME NEW k, NEW b, IsFor(s, k, b) PROVE IsFor(t, k, b)
  <2>1. k \in 1 .. Len(s) /\ Len(s) + 1 - k \in 1 .. Len(s)
    BY <1>1, <1>8 DEF IsFor
  <2> QED
    BY <1>2, <1>5, <1>6, <1>8, <2>1, Zenon DEF IsFor
<1>9. NoStock(s) => NoStock(t)
  BY <1>1, <1>2, <1>5, Zenon DEF NoStock
<1> QED
  BY <1>4, <1>6, <1>7, <1>8, <1>9 DEF t

-----------------------------------------------------------------------------
(* The steps, told by what they do to the calls.                           *)

(* Explorer asks on its own behalf, or for the call it is serving.         *)
Detours == \E b \in Bars, k \in 0 .. MaxDepth : (k # 0 => IsFor(calls, k, b)) /\ FunctionDetour(b, k)

LEMMA DetourCases ==
  ASSUME CallsAreGood, ServeWorker \/ \E b \in Bars : Repaint(b)
  PROVE  Detours
<1>1. CASE ServeWorker
  <2>1. PICK k \in Unserved : FunctionDetour(CallNo(k).bar, k)
    BY <1>1 DEF ServeWorker
  <2>2. k \in 1 .. Len(calls) /\ ~calls[Len(calls) + 1 - k].served
    BY <2>1 DEF Unserved, CallNo
  <2>3. Len(calls) \in Nat /\ Len(calls) + 1 - k \in 1 .. Len(calls)
    BY <2>2, SeqParts DEF CallsAreGood
  <2>4. CallNo(k).bar \in Bars
    BY <2>2, <2>3, SeqParts, CallParts DEF CallsAreGood, CallNo
  <2>5. IsFor(calls, k, CallNo(k).bar)
    BY <2>2, Zenon DEF IsFor, CallNo
  <2>6. k \in 0 .. MaxDepth
    BY <2>2, <2>3, DetourAssumption DEF CallsAreGood
  <2> QED
    BY <2>1, <2>4, <2>5, <2>6 DEF Detours
<1>2. CASE \E b \in Bars : Repaint(b)
  <2>1. 0 \in 0 .. MaxDepth
    BY DetourAssumption
  <2> QED
    BY <1>2, <2>1, Zenon DEF Repaint, Detours
<1> QED
  BY <1>1, <1>2

LEMMA GoingIsGood ==
  ASSUME NEW place \in {"refresh", "stock"}
  PROVE  /\ Going(place, Bars) \in GoodCall /\ Going(place, Bars).at = place
         /\ Going(place, Bars).todo = Bars /\ Going(place, Bars).valid /\ Going(place, Bars).served
<1> DEFINE c == [at |-> place, bar |-> "none", served |-> TRUE, todo |-> Bars, valid |-> TRUE]
<1>1. c \in Walk /\ c.at = place /\ c.todo = Bars /\ c.valid = TRUE /\ c.served = TRUE
  BY DEF Walk
<1>2. c = Going(place, Bars)
  BY DEF Going
<1> HIDE DEF c
<1> QED
  BY <1>1, <1>2, Zenon DEF GoodCall, Call, Walk

(* One taskbar b of a walk whose call was Inner and is now c.              *)
WalksOn(place, accent, b, c) ==
  /\ b \in Bars /\ b \in Inner.todo /\ c \in GoodCall /\ Inner \in GoodCall
  /\ c.at = place /\ c.todo = Inner.todo \ {b} /\ c.valid = Inner.valid
  /\ calls' = <<c>> \o Tail(calls)
  /\ \/ accent = "ours" /\ PaintOurs(b) /\ c.served
     \/ accent = "normal" /\ b \in normal /\ c.served /\ UNCHANGED <<shown, normal, missed, presumed>>
     \/ /\ accent = "normal" /\ normal' = normal \cup {b} /\ UNCHANGED <<shown, missed, presumed>>
        /\ c.bar = b /\ ~c.served
  /\ UNCHANGED <<life, desired, disabled, replying, outside, asking, requests, disturbed>>

LEMMA NextBarCases ==
  ASSUME NEW place \in {"refresh", "stock"}, NEW accent, CallsAreGood, NextBar(place, accent)
  PROVE  \E b, c : WalksOn(place, accent, b, c)
<1>1. Inner \in GoodCall /\ Inner.at = place /\ Inner.served /\ Inner.valid
  BY SeqParts DEF NextBar, Returned, CallsAreGood, Inner
<1>2. Inner \in Walk /\ Inner.todo \subseteq Bars
  BY <1>1, CallParts
<1>3. PICK b \in Inner.todo :
        LET next == [Inner EXCEPT !.todo = @ \ {b}] IN
        \/ /\ accent = "ours" /\ PaintOurs(b)
           /\ calls' = <<next>> \o Tail(calls)
        \/ /\ accent = "normal" /\ b \in normal
           /\ calls' = <<next>> \o Tail(calls)
           /\ UNCHANGED <<shown, normal, missed, presumed>>
        \/ /\ accent = "normal" /\ b \notin normal
           /\ normal' = normal \cup {b}
           /\ calls' = <<[next EXCEPT !.bar = b, !.served = FALSE]>> \o Tail(calls)
           /\ UNCHANGED <<shown, missed, presumed>>
  BY Zenon DEF NextBar
<1> DEFINE next == [Inner EXCEPT !.todo = @ \ {b}]
           waiting == [next EXCEPT !.bar = b, !.served = FALSE]
<1>4. next \in Walk /\ next.at = place /\ next.todo = Inner.todo \ {b} /\ next.valid = Inner.valid /\ next.served = Inner.served
  BY <1>1, <1>2 DEF Walk
<1>5. /\ waiting \in Walk /\ waiting.at = place /\ waiting.todo = Inner.todo \ {b} /\ waiting.valid = Inner.valid
      /\ waiting.bar = b /\ waiting.served = FALSE /\ b \in Bars
  BY <1>2, <1>4 DEF Walk
<1>6. UNCHANGED <<life, desired, disabled, replying, outside, asking, requests, disturbed>>
  BY Zenon DEF NextBar
<1> HIDE DEF next, waiting
<1>7. next \in GoodCall /\ waiting \in GoodCall /\ next.served /\ ~waiting.served
  BY <1>1, <1>4, <1>5, Zenon DEF GoodCall, Call, Walk
<1>8. \/ WalksOn(place, accent, b, next)
      \/ WalksOn(place, accent, b, waiting)
  BY <1>1, <1>3, <1>4, <1>5, <1>6, <1>7, Zenon DEF WalksOn, next, waiting
<1> QED
  BY <1>8

LEMMA ForceIsGood ==
  ASSUME NEW place \in {"force", "forceAgain"}, NEW b \in Bars
  PROVE  [at |-> place, bar |-> b, served |-> FALSE] \in GoodCall
<1>1. [at |-> place, bar |-> b, served |-> FALSE] \in Call
  BY DEF Call
<1>2. [at |-> place, bar |-> b, served |-> FALSE].bar = b
  OBVIOUS
<1> QED
  BY <1>1, <1>2, Zenon DEF GoodCall

(* No call that waits is lost when another begins, goes on or returns.     *)
WaitsStay ==
  /\ calls' \in Seq(GoodCall) /\ Len(calls') <= MaxDepth
  /\ \A b : WaitsFor(calls, b) => WaitsFor(calls', b)
  /\ \A k, b : IsFor(calls, k, b) => IsFor(calls', k, b)
  /\ NoStock(calls) => NoStock(calls')
DueStay == \A b : Due(calls, b) => Due(calls', b)

LEMMA CallBegins ==
  ASSUME CallsAreGood, Len(calls) < MaxDepth, NEW c \in GoodCall, c.at # "stock", calls' = <<c>> \o calls
  PROVE  WaitsStay /\ DueStay /\ \A b : c.at = "refresh" /\ b \in c.todo => Due(calls', b)
<1>1. Len(calls) \in Nat /\ calls \in Seq(GoodCall)
  BY SeqParts DEF CallsAreGood
<1>2. Len(calls) + 1 <= MaxDepth
  BY <1>1, DetourAssumption
<1> QED
  BY <1>1, <1>2, PushCall DEF WaitsStay, DueStay

LEMMA CallBeginsInReset ==
  ASSUME CallsAreGood, Len(calls) < MaxDepth, NEW c \in GoodCall, c.at # "stock", calls' = <<c>> \o Dangling(calls)
  PROVE  WaitsStay /\ \A b : c.at = "refresh" /\ b \in c.todo => Due(calls', b)
<1>1. /\ Len(calls) \in Nat /\ calls \in Seq(GoodCall)
      /\ Dangling(calls) \in Seq(GoodCall) /\ Len(Dangling(calls)) = Len(calls)
      /\ \A b : WaitsFor(calls, b) => WaitsFor(Dangling(calls), b)
      /\ \A k, b : IsFor(calls, k, b) => IsFor(Dangling(calls), k, b)
      /\ NoStock(calls) => NoStock(Dangling(calls))
  BY SeqParts, DanglingCalls DEF CallsAreGood
<1>2. Len(Dangling(calls)) + 1 <= MaxDepth
  BY <1>1, DetourAssumption
<1> QED
  BY <1>1, <1>2, PushCall DEF WaitsStay

LEMMA CallGoesOn ==
  ASSUME CallsAreGood, calls # <<>>, Inner.served, NEW c \in GoodCall, calls' = <<c>> \o Tail(calls),
         c.at = Inner.at \/ c.at # "stock"
  PROVE  /\ WaitsStay
         /\ \A b : c.bar = b /\ ~c.served => WaitsFor(calls', b)
         /\ \A b : Due(calls, b) => Due(calls', b) \/ (Inner.at = "refresh" /\ b \in Inner.todo)
         /\ \A b : c.at = "refresh" /\ b \in c.todo => Due(calls', b)
         /\ Len(calls') = Len(calls) /\ calls'[1] = c
<1>1. Len(calls) \in Nat \ {0} /\ calls \in Seq(GoodCall)
  BY SeqParts DEF CallsAreGood
<1>2. /\ Tail(calls) \in Seq(GoodCall) /\ Len(Tail(calls)) = Len(calls) - 1
      /\ \A b : WaitsFor(calls, b) => WaitsFor(Tail(calls), b)
      /\ \A b : Due(calls, b) => Due(Tail(calls), b) \/ (Inner.at = "refresh" /\ b \in Inner.todo)
      /\ \A k, b : IsFor(calls, k, b) => IsFor(Tail(calls), k, b)
      /\ NoStock(calls) => NoStock(Tail(calls))
  BY <1>1, PopCall DEF Inner
<1>3. Len(Tail(calls)) + 1 = Len(calls) /\ Len(calls) <= MaxDepth
  BY <1>1, <1>2 DEF CallsAreGood
<1>4. NoStock(calls) => c.at # "stock"
  BY <1>1, SeqParts DEF NoStock, Inner
<1> QED
  BY <1>1, <1>2, <1>3, <1>4, PushCall DEF WaitsStay

LEMMA CallReturns ==
  ASSUME CallsAreGood, calls # <<>>, Inner.served, calls' = Tail(calls)
  PROVE  /\ WaitsStay
         /\ \A b : Due(calls, b) => Due(calls', b) \/ (Inner.at = "refresh" /\ b \in Inner.todo)
<1>1. Len(calls) \in Nat \ {0} /\ calls \in Seq(GoodCall)
  BY SeqParts DEF CallsAreGood
<1>2. Len(calls) - 1 <= MaxDepth
  BY <1>1, DetourAssumption DEF CallsAreGood
<1> QED
  BY <1>1, <1>2, PopCall DEF WaitsStay, Inner

LEMMA CallIsServed ==
  ASSUME CallsAreGood, asking.call \in Nat, asking.call # 0 => IsFor(calls, asking.call, asking.bar),
         calls' = Serve(asking.call)
  PROVE  /\ calls' \in Seq(GoodCall) /\ Len(calls') <= MaxDepth
         /\ \A b : b # asking.bar /\ WaitsFor(calls, b) => WaitsFor(calls', b)
         /\ DueStay
         /\ NoStock(calls) => NoStock(calls')
BY ServeCall DEF CallsAreGood, DueStay

-----------------------------------------------------------------------------
(* The types.                                                              *)
LEMMA DetourTypeInit == DetourInit => DetourTypeOK /\ CallsAreGood
<1> SUFFICES ASSUME DetourInit PROVE DetourTypeOK /\ CallsAreGood
  OBVIOUS
<1> USE DetourAssumption
<1>1. /\ calls = <<>> /\ <<>> \in Seq(Call) /\ <<>> \in Seq(GoodCall) /\ Len(<<>>) = 0
      /\ requests = <<>> /\ <<>> \in Seq([bar : Bars, live : BOOLEAN])
  BY EmptySeq DEF DetourInit
<1>2. replying \in [bar : Bars \cup {"none"}, live : BOOLEAN, painted : BOOLEAN]
  BY DEF DetourInit, NoReply
<1>3. asking \in [bar : Bars \cup {"none"}, call : 0..MaxDepth] /\ outside \in 0..MaxOutside
  BY DEF DetourInit, Nobody
<1>4. shown \in [Bars -> Accents]
  BY DEF DetourInit, Accents
<1>5. Len(calls) <= MaxDepth /\ calls \in Seq(Call) /\ calls \in Seq(GoodCall)
  BY <1>1
<1>6. asking = Nobody /\ requests \in Seq([bar : Bars, live : BOOLEAN])
  BY <1>1 DEF DetourInit
<1>7. /\ life = "running" /\ desired = "normal" /\ normal = Bars /\ disabled = FALSE
      /\ missed = {} /\ presumed = {} /\ disturbed = FALSE
  BY DEF DetourInit
<1> QED
  BY <1>2, <1>3, <1>4, <1>5, <1>6, <1>7, Zenon DEF DetourTypeOK, CallsAreGood, Accents

LEMMA TypeOfWaits ==
  ASSUME calls' \in Seq(GoodCall)
  PROVE  calls' \in Seq(Call)
BY SeqMonotonic, Zenon DEF GoodCall

(* What the detour and the answers change.                                 *)
LEMMA AskingType ==
  ASSUME DetourTypeOK, CallsAreGood, AskInv, Detours \/ TimeOut \/ Answer \/ Reply
  PROVE  DetourTypeOK' /\ CallsAreGood'
<1> DEFINE Request == [bar : Bars, live : BOOLEAN]
<1> USE DetourAssumption
<1>1. requests \in Seq(Request) /\ shown \in [Bars -> Accents] /\ asking.call \in Nat /\ asking.bar \in Bars \cup {"none"}
  BY DEF DetourTypeOK
<1>2. CASE Detours
  <2>1. PICK b \in Bars, k \in 0 .. MaxDepth : FunctionDetour(b, k)
    BY <1>2 DEF Detours
  <2>2. CASE WorkerExists
    <3>1. asking' = [bar |-> b, call |-> k] /\ requests' = Append(requests, [bar |-> b, live |-> TRUE])
      BY <2>1, <2>2, Zenon DEF FunctionDetour
    <3>2. asking' \in [bar : Bars \cup {"none"}, call : 0..MaxDepth] /\ asking'.bar \in Bars
      BY <3>1
    <3>3. [bar |-> b, live |-> TRUE] \in Request
      OBVIOUS
    <3>4. requests' \in Seq(Request)
      BY <1>1, <3>1, <3>3, AppendProperties
    <3> QED
      BY <2>1, <2>2, <3>2, <3>4, Zenon DEF FunctionDetour, DetourTypeOK, CallsAreGood
  <2>3. CASE ~WorkerExists
    <3>1. shown' = [shown EXCEPT ![b] = "normal"] /\ UNCHANGED <<asking, requests>>
      BY <2>1, <2>3, Zenon DEF FunctionDetour
    <3>2. shown' \in [Bars -> Accents]
      BY <1>1, <3>1 DEF Accents
    <3> QED
      BY <2>1, <3>1, <3>2, Zenon DEF FunctionDetour, DetourTypeOK, CallsAreGood
  <2> QED
    BY <2>2, <2>3
<1>3. asking # Nobody => asking.bar \in Bars
  BY DEF CallsAreGood
<1>4. Nobody \in [bar : Bars \cup {"none"}, call : 0..MaxDepth]
  BY DEF Nobody
<1>5. CASE TimeOut
  <2>1. /\ asking # Nobody /\ shown' = [shown EXCEPT ![asking.bar] = "normal"]
        /\ missed' = missed \cup {asking.bar} /\ asking' = Nobody
        /\ requests' = [i \in DOMAIN requests |-> [requests[i] EXCEPT !.live = FALSE]]
        /\ replying' = [replying EXCEPT !.live = FALSE]
        /\ calls' = Serve(asking.call)
        /\ UNCHANGED <<life, desired, normal, disabled, outside, presumed, disturbed>>
    BY <1>5, Zenon DEF TimeOut
  <2>2. calls' \in Seq(GoodCall) /\ Len(calls') <= MaxDepth
    BY <1>1, <2>1, ServeCall DEF CallsAreGood
  <2>3. shown' \in [Bars -> Accents] /\ missed' \subseteq Bars
    BY <1>1, <1>3, <2>1 DEF DetourTypeOK, Accents
  <2>4. requests' \in Seq(Request)
    <3>1. DOMAIN requests = 1 .. Len(requests) /\ Len(requests) \in Nat
      BY <1>1, LenProperties
    <3>2. \A i \in 1 .. Len(requests) : requests[i] \in Request
      BY <1>1, ElementOfSeq
    <3>3. \A i \in 1 .. Len(requests) : [requests[i] EXCEPT !.live = FALSE] \in Request
      BY <3>2
    <3> HIDE DEF Request
    <3>4. [i \in 1 .. Len(requests) |-> [requests[i] EXCEPT !.live = FALSE]] \in Seq(Request)
      BY <3>1, <3>3, IsASeq
    <3> QED
      BY <2>1, <3>1, <3>4
  <2>5. replying' \in [bar : Bars \cup {"none"}, live : BOOLEAN, painted : BOOLEAN]
    BY <2>1 DEF DetourTypeOK
  <2> QED
    BY <1>4, <2>1, <2>2, <2>3, <2>4, <2>5, TypeOfWaits, Zenon DEF DetourTypeOK, CallsAreGood
<1>6. CASE Answer
  <2>1. requests # <<>> /\ requests' = Tail(requests)
    BY <1>6, Zenon DEF Answer
  <2>2. Head(requests) \in Request /\ requests' \in Seq(Request)
    BY <1>1, <2>1, HeadTailProperties
  <2>3. replying' \in [bar : Bars \cup {"none"}, live : BOOLEAN, painted : BOOLEAN]
    <3>1. replying' = [bar |-> Head(requests).bar, live |-> Head(requests).live, painted |-> (~disabled /\ desired # "normal")]
      BY <1>6 DEF Answer
    <3>2. (~disabled /\ desired # "normal") \in BOOLEAN
      BY Zenon
    <3>3. Head(requests).live \in BOOLEAN /\ Head(requests).bar \in Bars \cup {"none"}
      BY <2>2
    <3> QED
      BY <3>1, <3>2, <3>3, Zenon
  <2>4. shown' \in [Bars -> Accents] /\ normal' \subseteq Bars /\ missed' \subseteq Bars /\ presumed' \subseteq Bars
    <3>1. PaintOurs(Head(requests).bar) \/ UNCHANGED <<shown, normal, missed, presumed>>
      BY <1>6, Zenon DEF Answer
    <3> QED
      BY <1>1, <3>1 DEF PaintOurs, DetourTypeOK, Accents
  <2>5. UNCHANGED <<life, desired, disabled, calls, outside, asking, disturbed>>
    BY <1>6, Zenon DEF Answer
  <2> QED
    BY <2>2, <2>3, <2>4, <2>5, Zenon DEF DetourTypeOK, CallsAreGood
<1>7. CASE Reply
  <2>1. replying' = NoReply /\ replying' \in [bar : Bars \cup {"none"}, live : BOOLEAN, painted : BOOLEAN]
    BY <1>7 DEF Reply, NoReply
  <2>2. UNCHANGED <<life, desired, normal, disabled, outside, requests, presumed, disturbed>>
    BY <1>7, Zenon DEF Reply
  <2>3. CASE replying.live
    <3>1. asking # Nobody /\ replying.bar = asking.bar
      BY <2>3 DEF AskInv, OneLiveRequest
    <3>2. calls' = Serve(asking.call) /\ asking' = Nobody
      BY <1>7, <2>3, Zenon DEF Reply
    <3>3. shown' = shown \/ shown' = [shown EXCEPT ![replying.bar] = "normal"]
      BY <1>7, <2>3, Zenon DEF Reply
    <3>4. missed' = missed \/ missed' = missed \ {replying.bar} \/ missed' = missed \cup {replying.bar}
      BY <1>7, <2>3, Zenon DEF Reply
    <3>5. shown' \in [Bars -> Accents] /\ missed' \subseteq Bars
      BY <1>1, <1>3, <3>1, <3>3, <3>4 DEF DetourTypeOK, Accents
    <3>6. calls' \in Seq(GoodCall) /\ Len(calls') <= MaxDepth
      BY <1>1, <3>2, ServeCall DEF CallsAreGood
    <3> QED
      BY <1>4, <2>1, <2>2, <3>2, <3>5, <3>6, TypeOfWaits, Zenon DEF DetourTypeOK, CallsAreGood
  <2>4. CASE ~replying.live
    <3>1. UNCHANGED <<shown, missed, calls, asking>>
      BY <1>7, <2>4, Zenon DEF Reply
    <3> QED
      BY <2>1, <2>2, <3>1, Zenon DEF DetourTypeOK, CallsAreGood
  <2> QED
    BY <2>3, <2>4
<1> QED
  BY <1>2, <1>5, <1>6, <1>7

(* What others make the worker do: a call begins.                          *)
LEMMA OutsideCases ==
  ASSUME CallsAreGood, ChangeMode \/ Reset \/ \E b \in Bars : ForceRefresh(b)
  PROVE  /\ FromOutside /\ WaitsStay
         /\ UNCHANGED <<life, replying, asking, requests, shown, missed>>
         /\ \/ /\ desired' \in Accents /\ UNCHANGED <<normal, disabled, presumed>>
               /\ \A b \in Bars : Due(calls', b)
            \/ /\ normal' = Bars /\ presumed' = {b \in Bars : shown[b] = "ours"} /\ UNCHANGED <<desired, disabled>>
               /\ \A b \in Bars : Due(calls', b)
            \/ disabled' = TRUE /\ UNCHANGED <<desired, normal, presumed>> /\ DueStay
<1>1. CASE ChangeMode
  <2>1. /\ FromOutside /\ Len(calls) < MaxDepth /\ calls' = <<Going("refresh", Bars)>> \o calls
        /\ desired' \in Accents /\ UNCHANGED <<life, normal, disabled, replying, asking, requests, shown, missed, presumed>>
    BY <1>1, Zenon DEF ChangeMode, FromOutside
  <2> QED
    BY <2>1, GoingIsGood, CallBegins
<1>2. CASE Reset
  <2>1. /\ FromOutside /\ Len(calls) < MaxDepth
        /\ normal' = Bars /\ presumed' = {b \in Bars : shown[b] = "ours"}
        /\ UNCHANGED <<life, desired, disabled, replying, asking, requests, shown, missed>>
    BY <1>2, Zenon DEF Reset, FromOutside
  <2>2. calls' = <<Going("refresh", Bars)>> \o Dangling(calls)
    BY <1>2, Zenon DEF Reset, Dangling
  <2> QED
    BY <2>1, <2>2, GoingIsGood, CallBeginsInReset
<1>3. CASE \E b \in Bars : ForceRefresh(b)
  <2>1. PICK b \in Bars : ForceRefresh(b)
    BY <1>3
  <2>2. /\ FromOutside /\ Len(calls) < MaxDepth /\ disabled' = TRUE
        /\ calls' = <<[at |-> "force", bar |-> b, served |-> FALSE]>> \o calls
        /\ UNCHANGED <<life, desired, normal, replying, asking, requests, shown, missed, presumed>>
    BY <2>1, Zenon DEF ForceRefresh, FromOutside
  <2> DEFINE c == [at |-> "force", bar |-> b, served |-> FALSE]
  <2>3. c \in GoodCall /\ c.at # "stock"
    BY ForceIsGood
  <2> HIDE DEF c
  <2> QED
    BY <2>2, <2>3, CallBegins DEF c
<1> QED
  BY <1>1, <1>2, <1>3

(* What the worker goes on with once Explorer has served it.               *)
LEMMA ReturnedCases ==
  ASSUME CallsAreGood, ForceAgain \/ ForceDone \/ RefreshDone
  PROVE  /\ WaitsStay /\ DueStay /\ WorkerExists /\ replying = NoReply
         /\ Inner.at \in {"force", "forceAgain", "refresh"} /\ calls # <<>>
         /\ disabled' \in {FALSE, disabled}
         /\ UNCHANGED <<life, desired, normal, replying, outside, asking, requests, shown, missed, presumed, disturbed>>
<1>1. CASE ForceAgain
  <2>1. calls # <<>> /\ Inner.served /\ Inner.at = "force" /\ WorkerExists /\ replying = NoReply
    BY <1>1, Zenon DEF ForceAgain, Returned
  <2>2. Inner \in GoodCall /\ Inner.bar \in Bars
    BY <2>1, SeqParts, CallParts DEF CallsAreGood, Inner
  <2> DEFINE c == [at |-> "forceAgain", bar |-> Inner.bar, served |-> FALSE]
  <2>3. c \in GoodCall /\ c.at # "stock"
    BY <2>2, ForceIsGood
  <2>4. /\ calls' = <<c>> \o Tail(calls) /\ disabled' = FALSE
        /\ UNCHANGED <<life, desired, normal, replying, outside, asking, requests, shown, missed, presumed, disturbed>>
    BY <1>1, Zenon DEF ForceAgain
  <2> HIDE DEF c
  <2>5. WaitsStay /\ \A b : Due(calls, b) => Due(calls', b) \/ (Inner.at = "refresh" /\ b \in Inner.todo)
    BY <2>1, <2>3, <2>4, CallGoesOn
  <2> QED
    BY <2>1, <2>4, <2>5 DEF DueStay
<1>2. CASE ForceDone
  <2>1. /\ calls # <<>> /\ Inner.served /\ Inner.at = "forceAgain" /\ calls' = Tail(calls) /\ WorkerExists /\ replying = NoReply
        /\ UNCHANGED <<life, desired, normal, disabled, replying, outside, asking, requests, shown, missed, presumed, disturbed>>
    BY <1>2, Zenon DEF ForceDone, Returned
  <2> QED
    BY <2>1, CallReturns DEF DueStay
<1>3. CASE RefreshDone
  <2>1. /\ calls # <<>> /\ Inner.served /\ Inner.at = "refresh" /\ Inner.todo = {} /\ calls' = Tail(calls)
        /\ WorkerExists /\ replying = NoReply
        /\ UNCHANGED <<life, desired, normal, disabled, replying, outside, asking, requests, shown, missed, presumed, disturbed>>
    BY <1>3, Zenon DEF RefreshDone, Returned
  <2> QED
    BY <2>1, CallReturns DEF DueStay
<1> QED
  BY <1>1, <1>2, <1>3

LEMMA WalkCases ==
  ASSUME CallsAreGood, NextBar("refresh", desired) \/ NextBar("stock", "normal")
  PROVE  \E b, c : /\ WalksOn("refresh", desired, b, c) \/ WalksOn("stock", "normal", b, c)
                   /\ WaitsStay /\ WorkerExists /\ replying = NoReply /\ calls # <<>>
                   /\ ~c.served => WaitsFor(calls', c.bar)
                   /\ \A d : Due(calls, d) => Due(calls', d) \/ (c.at = "refresh" /\ d = b)
                   /\ Len(calls') = Len(calls) /\ calls'[1] = c /\ calls[1] = Inner /\ c.at = Inner.at
<1>1. calls # <<>> /\ Inner.served /\ WorkerExists /\ replying = NoReply
  BY Zenon DEF NextBar, Returned
<1>2. /\ NextBar("refresh", desired) => Inner.at = "refresh"
      /\ NextBar("stock", "normal") => Inner.at = "stock"
  BY Zenon DEF NextBar, Returned
<1>3. \A place \in {"refresh", "stock"} : \A accent : NextBar(place, accent) => \E b, c : WalksOn(place, accent, b, c)
  BY NextBarCases
<1>4. PICK b, c : \/ NextBar("refresh", desired) /\ WalksOn("refresh", desired, b, c)
                  \/ NextBar("stock", "normal") /\ WalksOn("stock", "normal", b, c)
  BY <1>3
<1>5. c \in GoodCall /\ calls' = <<c>> \o Tail(calls) /\ c.todo = Inner.todo \ {b} /\ c.at = Inner.at
  BY <1>2, <1>4, Zenon DEF WalksOn
<1>6. /\ WaitsStay
      /\ \A d : c.bar = d /\ ~c.served => WaitsFor(calls', d)
      /\ \A d : Due(calls, d) => Due(calls', d) \/ (Inner.at = "refresh" /\ d \in Inner.todo)
      /\ \A d : c.at = "refresh" /\ d \in c.todo => Due(calls', d)
      /\ Len(calls') = Len(calls) /\ calls'[1] = c
  BY <1>1, <1>5, CallGoesOn
<1>7. \A d : Due(calls, d) => Due(calls', d) \/ (c.at = "refresh" /\ d = b)
  BY <1>5, <1>6
<1>8. calls[1] = Inner
  BY <1>1, SeqParts DEF CallsAreGood, Inner
<1> QED
  BY <1>1, <1>4, <1>5, <1>6, <1>7, <1>8

LEMMA WorkType ==
  ASSUME DetourTypeOK, CallsAreGood,
         \/ ChangeMode \/ Reset \/ ForceAgain \/ ForceDone \/ RefreshDone
         \/ RefreshBar \/ ReturnBarToStock \/ \E b \in Bars : ForceRefresh(b)
  PROVE  DetourTypeOK' /\ CallsAreGood'
<1> USE DetourAssumption
<1>1. CASE ChangeMode \/ Reset \/ \E b \in Bars : ForceRefresh(b)
  <2>1. FromOutside /\ WaitsStay /\ UNCHANGED <<life, replying, asking, requests, shown, missed>>
    BY <1>1, OutsideCases
  <2>2. desired' \in Accents /\ normal' \subseteq Bars /\ disabled' \in BOOLEAN /\ presumed' \subseteq Bars
    <3>1. desired \in Accents /\ normal \subseteq Bars /\ disabled \in BOOLEAN /\ presumed \subseteq Bars
      BY DEF DetourTypeOK
    <3> QED
      BY <1>1, <3>1, OutsideCases
  <2>3. outside' \in 0 .. MaxOutside
    BY <2>1 DEF FromOutside, DetourTypeOK
  <2>4. disturbed' \in BOOLEAN
    <3>1. disturbed' = (disturbed \/ life = "exiting")
      BY <2>1, Zenon DEF FromOutside
    <3> QED
      BY <3>1, Zenon
  <2> QED
    BY <2>1, <2>2, <2>3, <2>4, TypeOfWaits, Zenon DEF DetourTypeOK, CallsAreGood, WaitsStay
<1>2. CASE ForceAgain \/ ForceDone \/ RefreshDone
  BY <1>2, ReturnedCases, TypeOfWaits, Zenon DEF DetourTypeOK, CallsAreGood, WaitsStay
<1>3. CASE RefreshBar \/ ReturnBarToStock
  <2>1. PICK b, c : /\ WalksOn("refresh", desired, b, c) \/ WalksOn("stock", "normal", b, c)
                    /\ WaitsStay
    BY <1>3, WalkCases, Zenon DEF RefreshBar, ReturnBarToStock
  <2>2. /\ b \in Bars /\ UNCHANGED <<life, desired, disabled, replying, outside, asking, requests, disturbed>>
        /\ \/ PaintOurs(b)
           \/ UNCHANGED <<shown, normal, missed, presumed>>
           \/ normal' = normal \cup {b} /\ UNCHANGED <<shown, missed, presumed>>
    BY <2>1, Zenon DEF WalksOn
  <2>3. normal \subseteq Bars /\ missed \subseteq Bars /\ presumed \subseteq Bars /\ shown \in [Bars -> Accents]
    BY DEF DetourTypeOK
  <2>4. normal' \subseteq Bars /\ missed' \subseteq Bars /\ presumed' \subseteq Bars /\ shown' \in [Bars -> Accents]
    BY <2>2, <2>3 DEF PaintOurs, Accents
  <2> QED
    BY <2>1, <2>2, <2>4, TypeOfWaits, Zenon DEF DetourTypeOK, CallsAreGood, WaitsStay
<1> QED
  BY <1>1, <1>2, <1>3

LEMMA ExitType ==
  ASSUME DetourTypeOK, CallsAreGood, Exit \/ Gone \/ DanglingIterator \/ Killed
  PROVE  DetourTypeOK' /\ CallsAreGood'
<1> USE DetourAssumption
<1>1. CASE Exit
  <2>1. calls' = <<Going("stock", Bars)>>
    BY <1>1, Zenon DEF Exit
  <2> DEFINE c == Going("stock", Bars)
  <2>2. c \in GoodCall
    BY GoingIsGood
  <2> HIDE DEF c
  <2>3. <<c>> \in Seq(GoodCall) /\ Len(<<c>>) = 1
    BY <2>2
  <2>4. calls' \in Seq(GoodCall) /\ Len(calls') <= MaxDepth
    BY <2>1, <2>3 DEF c
  <2>5. life' = "exiting" /\ disabled' = TRUE
    BY <1>1, Zenon DEF Exit
  <2>6. UNCHANGED <<desired, normal, replying, outside, asking, requests, shown, missed, presumed, disturbed>>
    BY <1>1, Zenon DEF Exit
  <2>7. calls' \in Seq(Call)
    BY <2>4, TypeOfWaits
  <2> QED
    BY <2>4, <2>5, <2>6, <2>7, Zenon DEF DetourTypeOK, CallsAreGood
<1>2. CASE Gone \/ DanglingIterator \/ Killed
  <2>1. PICK how \in {"gone", "corrupt", "killed"} : Ends(how)
    BY <1>2, Zenon DEF Gone, DanglingIterator, Killed
  <2>2. calls' = <<>> /\ requests' = <<>> /\ replying' = NoReply /\ life' \in {"gone", "corrupt", "killed"}
    BY <2>1, Zenon DEF Ends
  <2>3. calls' \in Seq(GoodCall) /\ Len(calls') <= MaxDepth /\ requests' \in Seq([bar : Bars, live : BOOLEAN])
    BY <2>2, EmptySeq
  <2>4. replying' \in [bar : Bars \cup {"none"}, live : BOOLEAN, painted : BOOLEAN]
    BY <2>2 DEF NoReply
  <2>5. UNCHANGED <<desired, normal, disabled, outside, asking, shown, missed, presumed, disturbed>>
    BY <2>1, Zenon DEF Ends
  <2>6. calls' \in Seq(Call) /\ life' \in {"running", "exiting", "gone", "killed", "corrupt"}
    BY <2>2, <2>3, TypeOfWaits
  <2> QED
    BY <2>3, <2>4, <2>5, <2>6, Zenon DEF DetourTypeOK, CallsAreGood
<1> QED
  BY <1>1, <1>2

-----------------------------------------------------------------------------
(* The invariant, step by step.                                            *)
DetourParts == AskInv /\ NormalIsNormal /\ AccentIsComing /\ StockIsExit /\ ExitIsAlone /\ ExitIsClean

LEMMA DetourPartsInit == DetourInit => DetourParts
<1> SUFFICES ASSUME DetourInit PROVE DetourParts
  OBVIOUS
<1>1. /\ life = "running" /\ desired = "normal" /\ asking = Nobody /\ replying = NoReply
      /\ requests = <<>> /\ \A b \in Bars : shown[b] = "normal" 
      /\ normal = Bars
  BY DEF DetourInit
<1>2. asking.call = 0 /\ ~replying.live
  BY <1>1 DEF Nobody, NoReply
<1>3. Live = {}
  BY <1>1 DEF Live
<1>4. OneLiveRequest /\ AskedForCall /\ PaintedStays
  BY <1>2, <1>3, Zenon DEF OneLiveRequest, AskedForCall, PaintedStays
<1>5. NothingLeft /\ StockIsExit /\ ExitIsAlone /\ ExitIsClean
  BY <1>1 DEF DetourInit, NothingLeft, WorkerExists, StockIsExit, NoStock, ExitIsAlone, ExitIsClean
<1> QED
  BY <1>1, <1>4, <1>5 DEF DetourParts, AskInv, NormalIsNormal, AccentIsComing

(* A step that leaves Explorer and the answers alone keeps what is asked.  *)
LEMMA AskKept ==
  ASSUME AskInv, WorkerExists, replying = NoReply, WorkerExists', UNCHANGED <<replying, asking, requests>>,
         \A k, b : IsFor(calls, k, b) => IsFor(calls', k, b)
  PROVE  AskInv'
<1>1. OneLiveRequest' /\ NothingLeft'
  BY DEF AskInv, OneLiveRequest, Live, NothingLeft
<1>2. AskedForCall'
  BY DEF AskInv, AskedForCall
<1>3. PaintedStays'
  BY DEF PaintedStays, NoReply
<1> QED
  BY <1>1, <1>2, <1>3 DEF AskInv

LEMMA OutsideKeeps ==
  ASSUME DetourTypeOK, CallsAreGood, DetourParts, ChangeMode \/ Reset \/ \E b \in Bars : ForceRefresh(b)
  PROVE  DetourParts'
<1>1. /\ FromOutside /\ WaitsStay
      /\ UNCHANGED <<life, replying, asking, requests, shown, missed>>
      /\ \/ /\ desired' \in Accents /\ UNCHANGED <<normal, disabled, presumed>>
            /\ \A b \in Bars : Due(calls', b)
         \/ /\ normal' = Bars /\ presumed' = {b \in Bars : shown[b] = "ours"} /\ UNCHANGED <<desired, disabled>>
            /\ \A b \in Bars : Due(calls', b)
         \/ disabled' = TRUE /\ UNCHANGED <<desired, normal, presumed>> /\ DueStay
  BY OutsideCases
<1>2. WorkerExists /\ replying = NoReply /\ WorkerExists' /\ (life = "exiting" => disturbed')
  BY <1>1, Zenon DEF FromOutside, Pumping, WorkerExists
<1>3. AskInv'
  BY <1>1, <1>2, AskKept DEF DetourParts, WaitsStay
<1>4. NormalIsNormal'
  <2> SUFFICES ASSUME NEW b \in normal' PROVE (shown[b] = "normal" \/ b \in presumed' \/ WillAsk(b)')
    BY <1>1 DEF NormalIsNormal
  <2>1. CASE UNCHANGED <<normal, presumed>>
    BY <1>1, <1>2, <2>1 DEF DetourParts, NormalIsNormal, WillAsk, WaitsStay
  <2>2. CASE normal' = Bars /\ presumed' = {d \in Bars : shown[d] = "ours"}
    BY <2>2 DEF DetourTypeOK, Accents
  <2> QED
    BY <1>1, <2>1, <2>2
<1>5. AccentIsComing'
  <2>1. CASE \A b \in Bars : Due(calls', b)
    BY <2>1 DEF AccentIsComing
  <2>2. CASE UNCHANGED <<desired, normal, presumed>> /\ DueStay
    BY <1>1, <2>2 DEF DetourParts, AccentIsComing, WaitsStay, DueStay
  <2> QED
    BY <1>1, <2>1, <2>2
<1>6. StockIsExit' /\ ExitIsAlone' /\ ExitIsClean'
  BY <1>1, <1>2 DEF DetourParts, StockIsExit, WaitsStay, ExitIsAlone, ExitIsClean, WorkerExists
<1> QED
  BY <1>3, <1>4, <1>5, <1>6 DEF DetourParts

LEMMA ReturnedKeeps ==
  ASSUME DetourTypeOK, CallsAreGood, DetourParts, ForceAgain \/ ForceDone \/ RefreshDone
  PROVE  DetourParts'
<1>1. /\ WaitsStay /\ DueStay /\ WorkerExists /\ replying = NoReply
      /\ Inner.at \in {"force", "forceAgain", "refresh"} /\ calls # <<>>
      /\ disabled' \in {FALSE, disabled}
      /\ UNCHANGED <<life, desired, normal, replying, outside, asking, requests, shown, missed, presumed, disturbed>>
  BY ReturnedCases
<1>2. WorkerExists'
  BY <1>1 DEF WorkerExists
<1>3. AskInv'
  BY <1>1, <1>2, AskKept DEF DetourParts, WaitsStay
<1>4. NormalIsNormal' /\ AccentIsComing'
  BY <1>1 DEF DetourParts, NormalIsNormal, AccentIsComing, WillAsk, WaitsStay, DueStay
<1>5. ~(life = "exiting" /\ ~disturbed)
  <2>1. calls[1].at # "stock"
    BY <1>1, SeqParts DEF CallsAreGood, Inner
  <2> QED
    BY <2>1 DEF DetourParts, ExitIsAlone
<1>6. StockIsExit' /\ ExitIsAlone' /\ ExitIsClean'
  BY <1>1, <1>5 DEF DetourParts, StockIsExit, WaitsStay, ExitIsAlone, ExitIsClean, WorkerExists
<1> QED
  BY <1>3, <1>4, <1>6 DEF DetourParts

LEMMA WalkKeeps ==
  ASSUME DetourTypeOK, CallsAreGood, DetourParts, RefreshBar \/ ReturnBarToStock
  PROVE  DetourParts'
<1>1. PICK b, c : /\ WalksOn("refresh", desired, b, c) \/ WalksOn("stock", "normal", b, c)
                  /\ WaitsStay /\ WorkerExists /\ replying = NoReply /\ calls # <<>>
                  /\ ~c.served => WaitsFor(calls', c.bar)
                  /\ \A d : Due(calls, d) => Due(calls', d) \/ (c.at = "refresh" /\ d = b)
                  /\ Len(calls') = Len(calls) /\ calls'[1] = c /\ calls[1] = Inner /\ c.at = Inner.at
  BY WalkCases, Zenon DEF RefreshBar, ReturnBarToStock
<1>2. /\ b \in Bars /\ c.todo = Inner.todo \ {b} /\ c.valid = Inner.valid
      /\ UNCHANGED <<life, desired, disabled, replying, outside, asking, requests, disturbed>>
      /\ c.at = "refresh" \/ c.at = "stock"
  BY <1>1, Zenon DEF WalksOn
<1>3. \/ PaintOurs(b) /\ c.at = "refresh" /\ desired = "ours"
      \/ /\ b \in normal /\ UNCHANGED <<shown, normal, missed, presumed>>
         /\ c.at = "stock" \/ desired = "normal"
      \/ /\ normal' = normal \cup {b} /\ UNCHANGED <<shown, missed, presumed>>
         /\ WaitsFor(calls', b) /\ (c.at = "stock" \/ desired = "normal")
  BY <1>1, Zenon DEF WalksOn
<1>4. WorkerExists'
  BY <1>1, <1>2 DEF WorkerExists
<1>5. AskInv'
  BY <1>1, <1>2, <1>4, AskKept DEF DetourParts, WaitsStay
<1>6. shown \in [Bars -> Accents] /\ normal \subseteq Bars
  BY DEF DetourTypeOK
<1>7. \A d \in Bars : d # b => shown'[d] = shown[d] /\ (d \in normal' <=> d \in normal)
                               /\ (d \in missed' <=> d \in missed) /\ (d \in presumed' <=> d \in presumed)
  BY <1>3, <1>6 DEF PaintOurs
<1>8. \A d : WillAsk(d) => WillAsk(d)'
  BY <1>1, <1>2 DEF WillAsk, WaitsStay
<1>9. NormalIsNormal'
  <2> SUFFICES ASSUME NEW d \in normal' PROVE shown'[d] = "normal" \/ d \in presumed' \/ WillAsk(d)'
    BY DEF NormalIsNormal
  <2>1. CASE d = b
    BY <1>1, <1>3, <1>8, <2>1 DEF PaintOurs, WillAsk, DetourParts, NormalIsNormal
  <2>2. CASE d # b
    <3>1. d \in normal
      BY <1>2, <1>3, <2>2 DEF PaintOurs
    <3> QED
      BY <1>1, <1>6, <1>7, <1>8, <2>2, <3>1 DEF DetourParts, NormalIsNormal
  <2> QED
    BY <2>1, <2>2
<1>10. AccentIsComing'
  <2> SUFFICES ASSUME life = "running", NEW d \in Bars
               PROVE  \/ shown'[d] = desired \/ d \in missed' \cup presumed'
                      \/ Due(calls', d) \/ asking.bar = d
                      \/ desired = "normal" /\ WaitsFor(calls', d)
    BY <1>2 DEF AccentIsComing
  <2>1. \/ shown[d] = desired \/ d \in missed \cup presumed
        \/ Due(calls, d) \/ asking.bar = d
        \/ desired = "normal" /\ WaitsFor(calls, d)
    BY DEF DetourParts, AccentIsComing
  <2>2. WaitsFor(calls, d) => WaitsFor(calls', d)
    BY <1>1 DEF WaitsStay
  <2>3. CASE d # b
    BY <1>1, <1>7, <2>1, <2>2, <2>3
  <2>4. CASE d = b /\ PaintOurs(b) /\ desired = "ours"
    BY <1>6, <2>4 DEF PaintOurs
  <2>5. CASE d = b /\ b \in normal /\ UNCHANGED <<shown, normal, missed, presumed>> /\ (c.at = "stock" \/ desired = "normal")
    <3>1. CASE desired = "normal"
      BY <1>1, <2>2, <2>5, <3>1 DEF DetourParts, NormalIsNormal, WillAsk
    <3>2. CASE c.at = "stock"
      BY <1>1, <2>1, <2>2, <2>5, <3>2
    <3> QED
      BY <2>5, <3>1, <3>2
  <2>6. CASE d = b /\ WaitsFor(calls', b) /\ UNCHANGED <<shown, missed, presumed>> /\ (c.at = "stock" \/ desired = "normal")
    BY <1>1, <2>1, <2>2, <2>6
  <2> QED
    BY <1>3, <2>3, <2>4, <2>5, <2>6
<1>11. ExitIsAlone'
  <2> SUFFICES ASSUME life = "exiting", ~disturbed PROVE ExitIsAlone'
    BY <1>2 DEF ExitIsAlone
  <2>1. /\ disabled /\ ~replying.painted
        /\ Len(calls) = 1 /\ Inner.at = "stock" /\ Inner.valid
        /\ \A d \in Bars : shown[d] = "normal" \/ d \in presumed \/ d \in Inner.todo \/ WillAsk(d)
    BY <1>1 DEF DetourParts, ExitIsAlone
  <2>2. c.at = "stock" /\ c.valid
    BY <1>1, <1>2, <2>1
  <2>3. UNCHANGED <<shown, missed, presumed>>
    BY <1>3, <2>2
  <2>4. ASSUME NEW d \in Bars PROVE shown[d] = "normal" \/ d \in presumed \/ d \in c.todo \/ WillAsk(d)'
    <3>1. CASE d # b
      BY <1>2, <1>8, <2>1, <3>1
    <3>2. CASE d = b
      BY <1>1, <1>3, <1>8, <2>2, <3>2 DEF DetourParts, NormalIsNormal, WillAsk
    <3> QED
      BY <3>1, <3>2
  <2> QED
    BY <1>1, <1>2, <2>1, <2>2, <2>3, <2>4 DEF ExitIsAlone
<1>12. StockIsExit' /\ ExitIsClean'
  BY <1>1, <1>2 DEF DetourParts, StockIsExit, WaitsStay, ExitIsClean, WorkerExists
<1> QED
  BY <1>5, <1>9, <1>10, <1>11, <1>12 DEF DetourParts

LEMMA RequestsParts ==
  ASSUME DetourTypeOK
  PROVE  /\ requests \in Seq([bar : Bars, live : BOOLEAN])
         /\ DOMAIN requests = 1 .. Len(requests) /\ Len(requests) \in Nat
         /\ \A i \in DOMAIN requests : requests[i] \in [bar : Bars, live : BOOLEAN]
<1>1. requests \in Seq([bar : Bars, live : BOOLEAN])
  BY DEF DetourTypeOK
<1> QED
  BY <1>1, LenProperties, ElementOfSeq

(* Explorer asks, or paints by itself when the worker is gone.             *)
LEMMA DetourKeeps ==
  ASSUME DetourTypeOK, CallsAreGood, DetourParts, Detours
  PROVE  DetourParts'
<1>1. PICK b \in Bars, k \in 0 .. MaxDepth : (k # 0 => IsFor(calls, k, b)) /\ FunctionDetour(b, k)
  BY DEF Detours
<1>2. /\ asking = Nobody
      /\ UNCHANGED <<life, desired, normal, disabled, calls, replying, outside, missed, presumed, disturbed>>
  BY <1>1, Zenon DEF FunctionDetour
<1>3. asking.bar = "none" /\ "none" \notin Bars
  BY <1>2, DetourAssumption DEF Nobody
<1>4. CASE WorkerExists
  <2>1. /\ asking' = [bar |-> b, call |-> k] /\ requests' = Append(requests, [bar |-> b, live |-> TRUE])
        /\ UNCHANGED shown
    BY <1>1, <1>4, Zenon DEF FunctionDetour
  <2>2. asking'.bar = b /\ asking'.call = k /\ asking' # Nobody
    <3>1. asking'.bar = b /\ asking'.call = k
      BY <2>1
    <3>2. Nobody.bar = "none"
      BY DEF Nobody
    <3> QED
      BY <1>3, <3>1, <3>2
  <2>3. Live = {} /\ ~replying.live
    BY <1>2 DEF DetourParts, AskInv, OneLiveRequest
  <2> DEFINE r == [bar |-> b, live |-> TRUE]
  <2>4. r \in [bar : Bars, live : BOOLEAN] /\ r.bar = b
    OBVIOUS
  <2>5. requests' = Append(requests, r)
    BY <2>1
  <2> HIDE DEF r
  <2>6. /\ requests' \in Seq([bar : Bars, live : BOOLEAN]) /\ Len(requests') = Len(requests) + 1
        /\ \A i \in 1 .. Len(requests) : requests'[i] = requests[i]
        /\ requests'[Len(requests) + 1] = r
    BY <2>4, <2>5, RequestsParts, AppendProperties
  <2>7. DOMAIN requests' = 1 .. Len(requests) + 1
    BY <2>6, LenProperties
  <2>8. \A i \in Live' : i = Len(requests) + 1
    <3> SUFFICES ASSUME NEW i \in 1 .. Len(requests) + 1, requests'[i].live PROVE i = Len(requests) + 1
      BY <2>7 DEF Live
    <3>1. CASE i \in 1 .. Len(requests)
      BY <2>3, <2>6, <3>1, RequestsParts DEF Live
    <3> QED
      BY <3>1, RequestsParts
  <2>9. OneLiveRequest'
    BY <1>2, <2>2, <2>3, <2>4, <2>6, <2>8 DEF OneLiveRequest
  <2>10. AskedForCall'
    BY <1>1, <1>2, <2>2 DEF AskedForCall
  <2>11. NothingLeft' /\ PaintedStays'
    BY <1>2, <1>4, <2>1, <2>3 DEF NothingLeft, PaintedStays, WorkerExists
  <2>12. \A d \in Bars : asking.bar # d /\ (WillAsk(d) => WillAsk(d)')
    BY <1>2, <1>3 DEF WillAsk
  <2>13. NormalIsNormal'
    BY <1>2, <2>1, <2>12 DEF DetourParts, NormalIsNormal, WorkerExists, DetourTypeOK
  <2>14. AccentIsComing'
    BY <1>2, <2>1, <2>12 DEF DetourParts, AccentIsComing
  <2>15. ExitIsAlone'
    BY <1>2, <2>1, <2>12 DEF DetourParts, ExitIsAlone
  <2>16. StockIsExit' /\ ExitIsClean'
    BY <1>2, <1>4 DEF DetourParts, StockIsExit, ExitIsClean, WorkerExists
  <2> QED
    BY <2>9, <2>10, <2>11, <2>13, <2>14, <2>15, <2>16 DEF DetourParts, AskInv
<1>5. CASE ~WorkerExists
  <2>1. shown' = [shown EXCEPT ![b] = "normal"] /\ UNCHANGED <<asking, requests>>
    BY <1>1, <1>5, Zenon DEF FunctionDetour
  <2>2. ~replying.live
    BY <1>2 DEF DetourParts, AskInv, OneLiveRequest
  <2>3. AskInv'
    BY <1>2, <1>5, <2>1, <2>2 DEF DetourParts, AskInv, OneLiveRequest, Live, AskedForCall, NothingLeft, PaintedStays, WorkerExists
  <2>4. NormalIsNormal' /\ AccentIsComing' /\ StockIsExit' /\ ExitIsAlone'
    BY <1>2, <1>5 DEF NormalIsNormal, AccentIsComing, StockIsExit, ExitIsAlone, WorkerExists
  <2>5. ExitIsClean'
    BY <1>2, <2>1 DEF DetourParts, ExitIsClean, DetourTypeOK
  <2> QED
    BY <2>3, <2>4, <2>5 DEF DetourParts
<1> QED
  BY <1>4, <1>5

(* An answer that is too late, or comes not at all.                        *)
LEMMA TimeOutKeeps ==
  ASSUME DetourTypeOK, CallsAreGood, DetourParts, TimeOut
  PROVE  DetourParts'
<1>1. /\ asking # Nobody /\ shown' = [shown EXCEPT ![asking.bar] = "normal"]
      /\ missed' = missed \cup {asking.bar} /\ asking' = Nobody
      /\ requests' = [i \in DOMAIN requests |-> [requests[i] EXCEPT !.live = FALSE]]
      /\ replying' = [replying EXCEPT !.live = FALSE]
      /\ calls' = Serve(asking.call)
      /\ UNCHANGED <<life, desired, normal, disabled, outside, presumed, disturbed>>
  BY Zenon DEF TimeOut
<1>2. asking.bar \in Bars /\ asking.call \in Nat /\ shown \in [Bars -> Accents]
  BY <1>1, DetourAssumption DEF CallsAreGood, DetourTypeOK
<1>3. asking'.call = 0 /\ asking'.bar = "none"
  BY <1>1 DEF Nobody
<1>4. ~replying'.live /\ replying'.painted = replying.painted /\ (replying = NoReply => replying' = NoReply)
  <2> DEFINE quieted == [replying EXCEPT !.live = FALSE]
  <2>1. /\ quieted \in [bar : Bars \cup {"none"}, live : BOOLEAN, painted : BOOLEAN]
        /\ quieted.bar = replying.bar /\ quieted.live = FALSE /\ quieted.painted = replying.painted
    BY DEF DetourTypeOK
  <2> HIDE DEF quieted
  <2>2. replying = NoReply => quieted = NoReply
    <3> SUFFICES ASSUME replying = NoReply PROVE quieted = NoReply
      OBVIOUS
    <3>1. replying.bar = "none" /\ replying.painted = FALSE
      BY DEF NoReply
    <3> QED
      BY <2>1, <3>1 DEF NoReply
  <2>3. replying' = quieted
    BY <1>1 DEF quieted
  <2> QED
    BY <2>1, <2>2, <2>3, Zenon
<1>5. Live' = {} /\ (requests = <<>> => requests' = <<>>)
  <2>1. DOMAIN requests' = DOMAIN requests /\ \A i \in DOMAIN requests : requests'[i] = [requests[i] EXCEPT !.live = FALSE]
    BY <1>1
  <2>2. \A i \in DOMAIN requests : ~requests'[i].live
    BY <2>1, RequestsParts
  <2>3. requests = <<>> => requests' = <<>>
    BY <1>1
  <2> QED
    BY <2>1, <2>2, <2>3, Zenon DEF Live
<1>6. AskInv'
  <2>1. OneLiveRequest' /\ PaintedStays'
    BY <1>4, <1>5, Zenon DEF OneLiveRequest, PaintedStays
  <2>2. AskedForCall'
    BY <1>3 DEF AskedForCall
  <2>3. NothingLeft'
    BY <1>1, <1>2, <1>4, <1>5, ServeCall DEF CallsAreGood, DetourParts, AskInv, NothingLeft, WorkerExists
  <2> QED
    BY <2>1, <2>2, <2>3 DEF AskInv
<1>7. WorkerExists => /\ \A b : b # asking.bar /\ WaitsFor(calls, b) => WaitsFor(calls', b)
                      /\ DueStay
  BY <1>1, <1>2, CallIsServed DEF DetourParts, AskInv, AskedForCall
<1>8. \A b \in Bars : b # asking.bar => shown'[b] = shown[b] /\ (WorkerExists /\ WillAsk(b) => WillAsk(b)')
  BY <1>1, <1>2, <1>7 DEF WillAsk
<1>9. shown'[asking.bar] = "normal" /\ asking.bar \in missed' /\ missed \subseteq missed'
  BY <1>1, <1>2
<1>10. NormalIsNormal'
  BY <1>1, <1>8, <1>9 DEF DetourParts, NormalIsNormal, WorkerExists, DetourTypeOK
<1>11. AccentIsComing'
  <2> SUFFICES ASSUME life = "running", NEW b \in Bars
               PROVE  \/ shown'[b] = desired \/ b \in missed' \cup presumed
                      \/ Due(calls', b) \/ asking'.bar = b
                      \/ desired = "normal" /\ WaitsFor(calls', b)
    BY <1>1 DEF AccentIsComing
  <2>1. WorkerExists
    BY DEF WorkerExists
  <2>2. CASE b = asking.bar
    BY <1>9, <2>2
  <2>3. CASE b # asking.bar
    BY <1>7, <1>8, <1>9, <2>1, <2>3 DEF DetourParts, AccentIsComing, DueStay
  <2> QED
    BY <2>2, <2>3
<1>12. ExitIsAlone'
  <2> SUFFICES ASSUME life = "exiting", ~disturbed PROVE ExitIsAlone'
    BY <1>1 DEF ExitIsAlone
  <2>1. /\ disabled /\ ~replying.painted
        /\ Len(calls) = 1 /\ calls[1].at = "stock" /\ calls[1].valid
        /\ \A b \in Bars : shown[b] = "normal" \/ b \in presumed \/ b \in calls[1].todo \/ WillAsk(b)
    BY DEF DetourParts, ExitIsAlone
  <2>2. Len(calls') = 1 /\ calls'[1].at = "stock" /\ calls'[1].valid = calls[1].valid /\ calls'[1].todo = calls[1].todo
    <3>1. calls \in Seq(GoodCall) /\ 1 \in 1 .. Len(calls)
      BY <2>1 DEF CallsAreGood
    <3>2. /\ Len(calls') = Len(calls) /\ calls'[1].at = calls[1].at
          /\ calls[1].at \in {"refresh", "stock"} => calls'[1].todo = calls[1].todo /\ calls'[1].valid = calls[1].valid
      BY <1>1, <1>2, <3>1, ServeCall, Zenon
    <3> QED
      BY <2>1, <3>2, Zenon
  <2>3. \A b \in Bars : shown'[b] = "normal" \/ b \in presumed \/ b \in calls'[1].todo \/ WillAsk(b)'
    BY <1>8, <1>9, <2>1, <2>2 DEF WorkerExists
  <2>4. calls'[1].valid /\ ~replying'.painted /\ disabled'
    BY <1>1, <1>4, <2>1, <2>2, Zenon
  <2> QED
    BY <1>1, <2>2, <2>3, <2>4 DEF ExitIsAlone
<1>13. ExitIsClean'
  BY <1>1, <1>8, <1>9 DEF DetourParts, ExitIsClean
<1>14. StockIsExit'
  BY <1>1, <1>2, ServeCall DEF DetourParts, StockIsExit, CallsAreGood
<1> QED
  BY <1>6, <1>10, <1>11, <1>12, <1>13, <1>14 DEF DetourParts

(* A request is answered: the taskbar is painted, or left to Explorer.     *)
LEMMA AnswerKeeps ==
  ASSUME DetourTypeOK, CallsAreGood, DetourParts, Answer
  PROVE  DetourParts'
<1> DEFINE request == Head(requests)
           paints == ~disabled /\ desired # "normal"
<1>1. /\ Pumping /\ requests # <<>> /\ requests' = Tail(requests)
      /\ replying' = [bar |-> request.bar, live |-> request.live, painted |-> paints]
      /\ paints => PaintOurs(request.bar)
      /\ ~paints => UNCHANGED <<shown, normal, missed, presumed>>
      /\ UNCHANGED <<life, desired, disabled, calls, outside, asking, disturbed>>
  BY Zenon DEF Answer
<1>2. replying'.bar = request.bar /\ replying'.live = request.live /\ (replying'.painted <=> paints)
  BY <1>1
<1>3. /\ requests[1] = request /\ request \in [bar : Bars, live : BOOLEAN]
      /\ Tail(requests) \in Seq([bar : Bars, live : BOOLEAN]) /\ Len(Tail(requests)) = Len(requests) - 1
      /\ \A i \in 1 .. Len(Tail(requests)) : Tail(requests)[i] = requests[i + 1]
      /\ Len(requests) \in Nat \ {0} /\ DOMAIN requests = 1 .. Len(requests)
  BY <1>1, RequestsParts, HeadTailProperties, EmptySeq
<1>4. DOMAIN requests' = 1 .. Len(requests) - 1 /\ \A i \in DOMAIN requests' : requests'[i] = requests[i + 1] /\ i + 1 \in DOMAIN requests
  BY <1>1, <1>3, LenProperties
<1>5. desired = "ours" \/ desired = "normal"
  BY DEF DetourTypeOK, Accents
<1> HIDE DEF request, paints
<1>6. replying = NoReply /\ WorkerExists
  BY <1>1, Zenon DEF Pumping
<1>7. \A i \in Live' : i + 1 \in Live /\ i \in Nat /\ requests'[i] = requests[i + 1]
  BY <1>3, <1>4 DEF Live
<1>8. request.live => 1 \in Live
  BY <1>3 DEF Live
<1>9. OneLiveRequest'
  <2>1. \A i \in Live' : asking' # Nobody /\ requests'[i].bar = asking'.bar
    BY <1>1, <1>7 DEF DetourParts, AskInv, OneLiveRequest
  <2>2. \A i, j \in Live' : i = j
    <3> SUFFICES ASSUME NEW i \in Live', NEW j \in Live' PROVE i = j
      OBVIOUS
    <3>1. i + 1 = j + 1 /\ i \in Nat /\ j \in Nat
      BY <1>7 DEF DetourParts, AskInv, OneLiveRequest
    <3> QED
      BY <3>1
  <2>3. ASSUME replying'.live PROVE asking' # Nobody /\ replying'.bar = asking'.bar /\ Live' = {}
    <3>1. 1 \in Live
      BY <1>2, <1>8, <2>3, Zenon
    <3>2. asking # Nobody /\ request.bar = asking.bar
      BY <1>3, <3>1 DEF DetourParts, AskInv, OneLiveRequest
    <3>3. \A i \in Live' : FALSE
      <4> SUFFICES ASSUME NEW i \in Live' PROVE FALSE
        OBVIOUS
      <4>1. i + 1 = 1 /\ i \in Nat /\ i \in DOMAIN requests'
        BY <1>7, <3>1 DEF DetourParts, AskInv, OneLiveRequest, Live
      <4> QED
        BY <1>4, <4>1
    <3> QED
      BY <1>1, <1>2, <3>2, <3>3
  <2> QED
    BY <2>1, <2>2, <2>3, Zenon DEF OneLiveRequest
<1>10. shown \in [Bars -> Accents] /\ request.bar \in Bars
  BY <1>3 DEF DetourTypeOK
<1>11. paints => shown'[request.bar] = "ours" /\ request.bar \notin normal' /\ desired = "ours" /\ ~disabled
  <2> SUFFICES ASSUME paints PROVE shown'[request.bar] = "ours" /\ request.bar \notin normal' /\ desired = "ours" /\ ~disabled
    OBVIOUS
  <2>1. ~disabled /\ desired = "ours"
    BY <1>5, Zenon DEF paints
  <2> QED
    BY <1>1, <1>10, <2>1 DEF PaintOurs
<1>12. \A b \in Bars : b # request.bar \/ ~paints =>
         shown'[b] = shown[b] /\ (b \in normal' <=> b \in normal)
         /\ (b \in missed' <=> b \in missed) /\ (b \in presumed' <=> b \in presumed)
  BY <1>1, <1>10 DEF PaintOurs
<1>13. AskInv'
  <2>1. PaintedStays'
    BY <1>1, <1>2, <1>11, Zenon DEF PaintedStays
  <2>2. AskedForCall' /\ NothingLeft'
    BY <1>1, <1>6 DEF DetourParts, AskInv, AskedForCall, NothingLeft, WorkerExists
  <2> QED
    BY <1>9, <2>1, <2>2 DEF AskInv
<1>14. NormalIsNormal'
  <2> SUFFICES ASSUME NEW b \in normal' PROVE shown'[b] = "normal" \/ b \in presumed' \/ WillAsk(b)'
    BY DEF NormalIsNormal
  <2>1. b \in Bars
    BY <1>1, <1>10 DEF DetourTypeOK, PaintOurs
  <2>2. b # request.bar \/ ~paints
    BY <1>11
  <2> QED
    BY <1>1, <1>6, <1>12, <2>1, <2>2 DEF DetourParts, NormalIsNormal, WillAsk
<1>15. AccentIsComing'
  BY <1>1, <1>11, <1>12 DEF DetourParts, AccentIsComing
<1>16. ExitIsAlone' /\ ExitIsClean'
  <2>1. life # "gone"
    BY <1>6 DEF WorkerExists
  <2>2. ExitIsAlone'
    <3> SUFFICES ASSUME life = "exiting", ~disturbed PROVE ExitIsAlone'
      BY <1>1 DEF ExitIsAlone
    <3>1. disabled
      BY DEF DetourParts, ExitIsAlone
    <3>2. ~paints /\ ~replying'.painted
      BY <1>2, <1>11, <3>1, Zenon
    <3>3. UNCHANGED <<shown, normal, missed, presumed>>
      BY <1>1, <3>2, Zenon
    <3> QED
      BY <1>1, <3>1, <3>2, <3>3 DEF DetourParts, ExitIsAlone, WillAsk
  <2> QED
    BY <1>1, <2>1, <2>2 DEF ExitIsClean
<1>17. StockIsExit'
  BY <1>1 DEF DetourParts, StockIsExit
<1> QED
  BY <1>13, <1>14, <1>15, <1>16, <1>17 DEF DetourParts

LEMMA ReplyKeeps ==
  ASSUME DetourTypeOK, CallsAreGood, DetourParts, Reply
  PROVE  DetourParts'
<1>1. /\ WorkerExists /\ replying' = NoReply
      /\ UNCHANGED <<life, desired, normal, disabled, outside, requests, presumed, disturbed>>
  BY Zenon DEF Reply
<1>2. ~replying'.live /\ ~replying'.painted /\ WorkerExists' /\ life # "gone"
  BY <1>1 DEF NoReply, WorkerExists
<1>3. PaintedStays' /\ NothingLeft' /\ ExitIsClean'
  BY <1>1, <1>2 DEF PaintedStays, NothingLeft, ExitIsClean
<1>4. StockIsExit'
  <2>1. calls' = calls \/ calls' = Serve(asking.call)
    BY Zenon DEF Reply
  <2>2. asking.call \in Nat
    BY DetourAssumption DEF DetourTypeOK
  <2> QED
    BY <1>1, <2>1, <2>2, ServeCall DEF DetourParts, StockIsExit, CallsAreGood
<1>5. CASE ~replying.live
  <2>1. UNCHANGED <<shown, missed, calls, asking>>
    BY <1>5, Zenon DEF Reply
  <2>2. OneLiveRequest' /\ AskedForCall'
    BY <1>1, <1>2, <2>1 DEF DetourParts, AskInv, OneLiveRequest, AskedForCall, Live
  <2>3. NormalIsNormal' /\ AccentIsComing'
    BY <1>1, <2>1 DEF DetourParts, NormalIsNormal, AccentIsComing, WillAsk, WorkerExists
  <2>4. ExitIsAlone'
    BY <1>1, <1>2, <2>1 DEF DetourParts, ExitIsAlone, WillAsk
  <2> QED
    BY <1>3, <1>4, <2>2, <2>3, <2>4 DEF DetourParts, AskInv
<1>6. CASE replying.live
  <2>1. /\ shown' = IF replying.painted THEN shown ELSE [shown EXCEPT ![replying.bar] = "normal"]
        /\ missed' = IF replying.painted THEN missed
                     ELSE IF desired = "normal" THEN missed \ {replying.bar} ELSE missed \cup {replying.bar}
        /\ calls' = Serve(asking.call) /\ asking' = Nobody
    BY <1>6, Zenon DEF Reply
  <2> DEFINE b == asking.bar
  <2>2. b \in Bars /\ replying.bar = b /\ Live = {} /\ asking # Nobody
    BY <1>6 DEF DetourParts, AskInv, OneLiveRequest, CallsAreGood
  <2>3. asking.call \in Nat /\ shown \in [Bars -> Accents] /\ desired \in Accents
    BY DetourAssumption DEF DetourTypeOK
  <2>4. asking'.call = 0 /\ asking'.bar = "none"
    BY <2>1 DEF Nobody
  <2>5. /\ \A d : d # b /\ WaitsFor(calls, d) => WaitsFor(calls', d)
        /\ DueStay
    BY <1>1, <2>1, <2>3, CallIsServed DEF DetourParts, AskInv, AskedForCall
  <2> HIDE DEF b
  <2>6. \A d \in Bars : d # b => shown'[d] = shown[d] /\ (d \in missed' <=> d \in missed)
    BY <2>1, <2>2, <2>3
  <2>7. \A d \in Bars : d # b => (WillAsk(d) => WillAsk(d)')
    BY <2>5 DEF WillAsk, b
  <2>8. ASSUME replying.painted PROVE NormalIsNormal' /\ AccentIsComing' /\ ExitIsAlone'
    <3>1. shown' = shown /\ missed' = missed
      BY <2>1, <2>8, Zenon
    <3>2. shown[b] = "ours" /\ b \notin normal /\ desired = "ours"
      BY <1>6, <2>2, <2>8 DEF DetourParts, AskInv, PaintedStays
    <3>3. NormalIsNormal'
      BY <1>1, <2>7, <3>1, <3>2 DEF DetourParts, NormalIsNormal, DetourTypeOK
    <3>4. AccentIsComing'
      <4> SUFFICES ASSUME life = "running", NEW d \in Bars
                   PROVE  \/ shown'[d] = desired \/ d \in missed' \cup presumed
                          \/ Due(calls', d) \/ asking'.bar = d
                          \/ desired = "normal" /\ WaitsFor(calls', d)
        BY <1>1 DEF AccentIsComing
      <4>1. CASE d = b
        BY <3>1, <3>2, <4>1
      <4>2. CASE d # b
        BY <2>5, <3>1, <4>2 DEF DetourParts, AccentIsComing, DueStay, b
      <4> QED
        BY <4>1, <4>2
    <3>5. ExitIsAlone'
      BY <1>1, <2>8 DEF DetourParts, ExitIsAlone
    <3> QED
      BY <3>3, <3>4, <3>5
  <2>9. ASSUME ~replying.painted PROVE NormalIsNormal' /\ AccentIsComing' /\ ExitIsAlone'
    <3>1. /\ shown' = [shown EXCEPT ![b] = "normal"]
          /\ missed' = IF desired = "normal" THEN missed \ {b} ELSE missed \cup {b}
      BY <2>1, <2>2, <2>9, Zenon
    <3>2. shown'[b] = "normal" /\ (desired = "normal" \/ b \in missed')
      BY <2>2, <2>3, <3>1
    <3>3. NormalIsNormal'
      BY <1>1, <2>6, <2>7, <3>2 DEF DetourParts, NormalIsNormal, DetourTypeOK
    <3>4. AccentIsComing'
      <4> SUFFICES ASSUME life = "running", NEW d \in Bars
                   PROVE  \/ shown'[d] = desired \/ d \in missed' \cup presumed
                          \/ Due(calls', d) \/ asking'.bar = d
                          \/ desired = "normal" /\ WaitsFor(calls', d)
        BY <1>1 DEF AccentIsComing
      <4>1. CASE d = b
        BY <3>2, <4>1
      <4>2. CASE d # b
        BY <2>5, <2>6, <4>2 DEF DetourParts, AccentIsComing, DueStay, b
      <4> QED
        BY <4>1, <4>2
    <3>5. ExitIsAlone'
      <4> SUFFICES ASSUME life = "exiting", ~disturbed PROVE ExitIsAlone'
        BY <1>1 DEF ExitIsAlone
      <4>1. /\ disabled /\ Len(calls) = 1 /\ calls[1].at = "stock" /\ calls[1].valid
            /\ \A d \in Bars : shown[d] = "normal" \/ d \in presumed \/ d \in calls[1].todo \/ WillAsk(d)
        BY DEF DetourParts, ExitIsAlone
      <4>2. calls \in Seq(GoodCall) /\ 1 \in 1 .. Len(calls)
        BY <4>1 DEF CallsAreGood
      <4>3. /\ Len(calls') = Len(calls) /\ calls'[1].at = calls[1].at
            /\ calls[1].at \in {"refresh", "stock"} => calls'[1].todo = calls[1].todo /\ calls'[1].valid = calls[1].valid
        BY <2>1, <2>3, <4>2, ServeCall, Zenon
      <4>4. Len(calls') = 1 /\ calls'[1].at = "stock" /\ calls'[1].valid /\ calls'[1].todo = calls[1].todo
        BY <4>1, <4>3, Zenon
      <4>5. \A d \in Bars : shown'[d] = "normal" \/ d \in presumed \/ d \in calls'[1].todo \/ WillAsk(d)'
        BY <2>6, <2>7, <3>2, <4>1, <4>4
      <4> QED
        BY <1>1, <1>2, <4>1, <4>4, <4>5 DEF ExitIsAlone
    <3> QED
      BY <3>3, <3>4, <3>5
  <2>10. OneLiveRequest' /\ AskedForCall'
    <3>1. Live' = {}
      BY <1>1, <2>2 DEF Live
    <3> QED
      BY <1>2, <2>4, <3>1, Zenon DEF OneLiveRequest, AskedForCall
  <2> QED
    BY <1>3, <1>4, <2>8, <2>9, <2>10 DEF DetourParts, AskInv
<1> QED
  BY <1>5, <1>6

(* The worker ends, with its taskbars returned to stock or without.        *)
LEMMA ExitKeeps ==
  ASSUME DetourTypeOK, CallsAreGood, DetourParts, Exit \/ Gone \/ DanglingIterator \/ Killed
  PROVE  DetourParts'
<1>1. CASE Exit
  <2>1. /\ life = "running" /\ calls = <<>> /\ replying = NoReply /\ life' = "exiting" /\ disabled' = TRUE
        /\ calls' = <<Going("stock", Bars)>>
        /\ UNCHANGED <<desired, normal, replying, outside, asking, requests, shown, missed, presumed, disturbed>>
    BY <1>1, Zenon DEF Exit
  <2> DEFINE c == Going("stock", Bars)
  <2>2. c \in GoodCall /\ c.at = "stock" /\ c.todo = Bars /\ c.valid
    BY GoingIsGood
  <2> HIDE DEF c
  <2>3. calls' = <<c>>
    BY <2>1 DEF c
  <2>4. Len(calls') = 1 /\ calls'[1] = c
    BY <2>3
  <2>5. (\A b : ~WaitsFor(calls, b)) /\ \A k, b : ~IsFor(calls, k, b)
    <3>1. Len(calls) = 0 /\ DOMAIN calls = {}
      BY <2>1
    <3> QED
      BY <3>1 DEF WaitsFor, IsFor
  <2>6. WorkerExists /\ WorkerExists'
    BY <2>1 DEF WorkerExists
  <2>7. AskInv'
    BY <2>1, <2>5, <2>6, AskKept, Zenon DEF DetourParts
  <2>8. NormalIsNormal' /\ AccentIsComing' /\ StockIsExit' /\ ExitIsClean'
    BY <2>1, <2>5, <2>6 DEF DetourParts, NormalIsNormal, AccentIsComing, StockIsExit, ExitIsClean, WillAsk
  <2>9. ExitIsAlone'
    <3>1. ~replying'.painted
      BY <2>1 DEF NoReply
    <3> QED
      BY <2>1, <2>2, <2>4, <3>1 DEF ExitIsAlone
  <2> QED
    BY <2>7, <2>8, <2>9 DEF DetourParts
<1>2. CASE Gone \/ DanglingIterator \/ Killed
  <2>1. PICK how \in {"gone", "corrupt", "killed"} : Ends(how) /\ (how = "gone" => Gone)
    BY <1>2, Zenon DEF Gone, DanglingIterator, Killed
  <2>2. calls' = <<>> /\ requests' = <<>> /\ replying' = NoReply /\ life' = how
        /\ UNCHANGED <<desired, normal, disabled, outside, asking, shown, missed, presumed, disturbed>>
    BY <2>1, Zenon DEF Ends
  <2>3. ~WorkerExists' /\ life' \notin {"running", "exiting"}
    BY <2>1, <2>2 DEF WorkerExists
  <2>4. Live' = {} /\ ~replying'.live
    BY <2>2 DEF Live, NoReply
  <2>5. AskInv'
    BY <2>2, <2>3, <2>4, Zenon DEF AskInv, OneLiveRequest, AskedForCall, NothingLeft, PaintedStays
  <2>6. NormalIsNormal' /\ AccentIsComing' /\ StockIsExit' /\ ExitIsAlone'
    BY <2>3 DEF NormalIsNormal, AccentIsComing, StockIsExit, ExitIsAlone
  <2>7. ExitIsClean'
    <3> SUFFICES ASSUME how = "gone", ~disturbed, NEW b \in Bars
                 PROVE  shown[b] = "normal" \/ b \in presumed \/ asking.bar = b
      BY <2>2 DEF ExitIsClean
    <3>1. WorkerExists /\ calls # <<>> /\ Inner.at = "stock" /\ Inner.served /\ Inner.todo = {}
      BY <2>1, Zenon DEF Gone, Returned
    <3>2. calls[1] = Inner /\ DOMAIN calls = 1 .. Len(calls)
      BY <3>1, SeqParts DEF CallsAreGood, Inner
    <3>3. CASE life = "exiting"
      <4>1. Len(calls) = 1 /\ (shown[b] = "normal" \/ b \in presumed \/ b \in Inner.todo \/ WillAsk(b))
        BY <3>2, <3>3 DEF DetourParts, ExitIsAlone
      <4>2. ~WaitsFor(calls, b)
        BY <3>1, <3>2, <4>1 DEF WaitsFor
      <4> QED
        BY <3>1, <4>1, <4>2 DEF WillAsk
    <3>4. CASE life = "running"
      BY <3>1, <3>2, <3>4, SeqParts DEF DetourParts, StockIsExit, NoStock, CallsAreGood
    <3> QED
      BY <3>1, <3>3, <3>4 DEF WorkerExists
  <2> QED
    BY <2>5, <2>6, <2>7 DEF DetourParts
<1> QED
  BY <1>1, <1>2

LEMMA DetourInvInit == DetourInit => DetourInv
BY DetourTypeInit, DetourPartsInit DEF DetourInv, DetourParts

LEMMA DetourInvStep == DetourInv /\ [DetourNext]_detourVars => DetourInv'
<1> SUFFICES ASSUME DetourTypeOK, CallsAreGood, DetourParts, [DetourNext]_detourVars
             PROVE  DetourTypeOK' /\ CallsAreGood' /\ DetourParts'
  BY DEF DetourInv, DetourParts
<1>1. CASE UNCHANGED detourVars
  <2>1. UNCHANGED <<life, desired, normal, disabled, calls, replying, outside,
                    asking, requests, shown, missed, presumed, disturbed>>
    BY <1>1, Zenon DEF detourVars
  <2>2. DetourTypeOK' /\ CallsAreGood'
    BY <2>1, Zenon DEF DetourTypeOK, CallsAreGood
  <2>3. Live' = Live
    BY <2>1 DEF Live
  <2>4. AskInv'
    BY <2>1, <2>3 DEF DetourParts, AskInv, OneLiveRequest, AskedForCall, NothingLeft, PaintedStays, WorkerExists
  <2>5. NormalIsNormal' /\ AccentIsComing' /\ StockIsExit' /\ ExitIsAlone' /\ ExitIsClean'
    BY <2>1 DEF DetourParts, NormalIsNormal, AccentIsComing, StockIsExit, ExitIsAlone, ExitIsClean, WillAsk, WorkerExists
  <2> QED
    BY <2>2, <2>4, <2>5 DEF DetourParts
<1>2. AskInv
  BY DEF DetourParts
<1>3. CASE ServeWorker \/ \E b \in Bars : Repaint(b)
  <2>1. Detours
    BY <1>3, DetourCases
  <2> QED
    BY <1>2, <2>1, AskingType, DetourKeeps
<1>4. CASE TimeOut
  BY <1>2, <1>4, AskingType, TimeOutKeeps
<1>5. CASE Answer
  BY <1>2, <1>5, AskingType, AnswerKeeps
<1>6. CASE Reply
  BY <1>2, <1>6, AskingType, ReplyKeeps
<1>7. CASE ChangeMode \/ Reset \/ \E b \in Bars : ForceRefresh(b)
  BY <1>7, WorkType, OutsideKeeps
<1>8. CASE ForceAgain \/ ForceDone \/ RefreshDone
  BY <1>8, WorkType, ReturnedKeeps
<1>9. CASE RefreshBar \/ ReturnBarToStock
  BY <1>9, WorkType, WalkKeeps
<1>10. CASE Exit \/ Gone \/ DanglingIterator \/ Killed
  BY <1>10, ExitType, ExitKeeps
<1> QED
  BY <1>1, <1>3, <1>4, <1>5, <1>6, <1>7, <1>8, <1>9, <1>10, Zenon DEF DetourNext

LEMMA DetourInvariant == DetourSpec => []DetourInv
BY DetourInvInit, DetourInvStep, PTL DEF DetourSpec

(* Once all is quiet a taskbar has the accent it should have: nothing is   *)
(* due, nothing is asked, and no call waits.                               *)
THEOREM AccentIsRight == DetourSpec => []AccentSettles
<1>1. DetourInv => AccentSettles
  <2> SUFFICES ASSUME DetourInv, Quiet, NEW b \in Bars
               PROVE  shown[b] = desired \/ b \in missed \cup presumed
    BY DEF AccentSettles
  <2>1. ~WaitsFor(calls, b) /\ ~Due(calls, b)
    BY DEF Quiet, WaitsFor, Due
  <2>2. asking.bar = "none" /\ asking.bar # b
    BY DetourAssumption DEF Quiet, Nobody
  <2> QED
    BY <2>1, <2>2 DEF Quiet, DetourInv, AccentIsComing
<1> QED
  BY <1>1, DetourInvariant, PTL

(* A worker that exits undisturbed leaves every taskbar to Explorer,       *)
(* whatever forced refreshes, changes and resets came before.              *)
THEOREM ExitLeavesStock == DetourSpec => []StockAfterExit
<1>1. DetourInv => StockAfterExit
  <2>1. asking = Nobody => asking.bar \notin Bars
    BY DetourAssumption DEF Nobody
  <2> QED
    BY <2>1 DEF StockAfterExit, DetourInv, ExitIsClean
<1> QED
  BY <1>1, DetourInvariant, PTL

(* Explorer is told that the worker painted only while that is to be seen: *)
(* of all steps only the answer's return tells it so, and what was painted *)
(* before the answer stays until then.                                     *)
THEOREM PaintedIsSeen == DetourSpec => SwallowedMeansPainted
<1> DEFINE Told == /\ replying # NoReply /\ replying' = NoReply /\ replying.live /\ replying.painted
                   /\ asking # Nobody /\ asking' = Nobody
<1>1. ASSUME DetourInv, [DetourNext]_detourVars, Told
      PROVE  shown'[replying.bar] = "ours"
  <2>1. CASE Reply
    <3>1. shown' = shown
      BY <1>1, <2>1, Zenon DEF Reply
    <3> QED
      BY <1>1, <3>1 DEF DetourInv, AskInv, PaintedStays
  <2>2. CASE TimeOut
    <3>1. replying' = [replying EXCEPT !.live = FALSE]
      BY <2>2, Zenon DEF TimeOut
    <3>2. replying'.painted = replying.painted
      BY <1>1, <3>1 DEF DetourInv, DetourTypeOK
    <3>3. ~NoReply.painted
      BY DEF NoReply
    <3> QED
      BY <1>1, <3>2, <3>3, Zenon
  <2>3. CASE ServeWorker \/ \E b \in Bars : Repaint(b)
    <3>1. asking = Nobody
      BY <2>3, Zenon DEF ServeWorker, Repaint, FunctionDetour
    <3> QED
      BY <1>1, <3>1
  <2>4. CASE Answer \/ ChangeMode \/ Reset \/ RefreshBar \/ ReturnBarToStock \/ \E b \in Bars : ForceRefresh(b)
    <3>1. replying = NoReply
      BY <2>4, Zenon DEF Answer, ChangeMode, Reset, ForceRefresh, FromOutside, Pumping,
                         RefreshBar, ReturnBarToStock, NextBar, Returned
    <3> QED
      BY <1>1, <3>1
  <2>5. CASE ForceAgain \/ ForceDone \/ RefreshDone \/ Exit
    <3>1. replying = NoReply
      BY <2>5, Zenon DEF ForceAgain, ForceDone, RefreshDone, Returned, Exit
    <3> QED
      BY <1>1, <3>1
  <2>6. CASE Gone \/ DanglingIterator \/ Killed \/ UNCHANGED detourVars
    <3>1. UNCHANGED asking
      BY <2>6, Zenon DEF Gone, DanglingIterator, Killed, Ends, detourVars
    <3> QED
      BY <1>1, <3>1
  <2> QED
    BY <1>1, <2>1, <2>2, <2>3, <2>4, <2>5, <2>6, Zenon DEF DetourNext
<1>2. DetourInv /\ [DetourNext]_detourVars => [Told => shown'[replying.bar] = "ours"]_detourVars
  BY <1>1
<1> QED
  BY <1>2, DetourInvariant, PTL DEF DetourSpec, SwallowedMeansPainted
=============================================================================
