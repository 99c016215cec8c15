--------------------------- MODULE MCTaskbarWorker ---------------------------
(* Small instances of TaskbarWorker for TLC. *)
EXTENDS TaskbarWorker, TLC

CONSTANTS w1, w2, m1, m2, b1, b2, b3

(* A look of its own for every mode; the colour names the mode. *)
Tinted(mode) == [accent |-> "tinted", colour |-> mode, extra |-> mode \in {"MaximisedWindow", "StartOpened"}]
MCColours == Modes \cup {"preview", "maximisedRule", "visibleRule", "maximisedInactive", "visibleInactive"}

NoRules == [w \in Windows |-> NoRule]
AllModes == [enabled |-> Modes, look |-> [mode \in Modes |-> Tinted(mode)],
             maximisedRule |-> NoRules, visibleRule |-> NoRules, ignored |-> {}]

(* Rules for w1, which say how it looks when not active, and Explorer's    *)
(* own look for the desktop.                                               *)
RuleLook(colour) == [accent |-> "tinted", colour |-> colour, extra |-> FALSE]
Ruled(colour, inactive) == [w \in Windows |->
  IF w = w1 THEN [look |-> RuleLook(colour), inactive |-> RuleLook(inactive)] ELSE NoRule]
WindowRules == [AllModes EXCEPT !.maximisedRule = Ruled("maximisedRule", "maximisedInactive"), !.visibleRule = Ruled("visibleRule", "visibleInactive")]
NormalDesktop == [WindowRules EXCEPT !.enabled = {"VisibleWindow", "MaximisedWindow"}, !.look["Desktop"].accent = "normal"]

TwoConfigs == {AllModes, NormalDesktop}
OneConfig == {WindowRules}

(* One window maximised on the primary monitor, one open on the other. *)
Place(mon, size, seen) == [mon |-> mon, size |-> size, shown |-> seen]
MCDesks == {[w \in Windows |-> IF w = w1 THEN Place(m1, "max", TRUE) ELSE Place(m2, "normal", TRUE)]}

(* A handle of a taskbar is only compared with others. *)
BarSymmetry == Permutations(Bars)
=============================================================================
