------------------------------- MODULE MCExplorer -------------------------------
(***************************************************************************)
(* What the program runs inside Explorer: the appearance service of XAML   *)
(* taskbars, the Task View monitor and the detour of classic ones.  In the *)
(* code they share the Explorer process and nothing else, so a behaviour   *)
(* follows one of them, chosen at the start.                               *)
(***************************************************************************)
EXTENDS AppearanceService, TaskViewMonitor, SwcaDetour

CONSTANTS p1, p2

(* Both runs of the program are of one version. *)
MCVersion == [i \in Instances |-> 1]

VARIABLE part

MCvars == <<tapVars, monitorVars, detourVars, part>>

MCInit ==
  /\ TapInit /\ MonitorInit /\ DetourInit
  /\ part \in {"service", "monitor", "detour"}
  /\ visible => part = "monitor"

MCNext ==
  /\ UNCHANGED part
  /\ \/ part = "service" /\ TapNext /\ UNCHANGED <<monitorVars, detourVars>>
     \/ part = "monitor" /\ MonitorNext /\ UNCHANGED <<tapVars, detourVars>>
     \/ part = "detour" /\ DetourNext /\ UNCHANGED <<tapVars, monitorVars>>

MCSpec == MCInit /\ [][MCNext]_MCvars /\ TapFairness /\ MonitorFairness
=============================================================================
