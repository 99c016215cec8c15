------------------------------ MODULE MCApplication ------------------------------
(***************************************************************************)
(* The windows of the program with its shutdown, its tray icon, where a    *)
(* page's window is, and what is inside a colour picker.  The menu of the  *)
(* icon, which opens a picker or exits, and the override the welcome page  *)
(* lifts are in each of the first modules already, and what a picker does  *)
(* inside or where a window is changes nothing outside, so a behaviour     *)
(* follows one of the four, chosen at the start.                           *)
(***************************************************************************)
EXTENDS Application, TrayIcon, ColorPicker, PageHost

VARIABLE part

MCvars == <<appVars, trayVars, picker, hostVars, part>>

Area(x, y, w, h) == [x |-> x, y |-> y, w |-> w, h |-> h]

MCWorkAreas == {Area(0, 0, 3, 2), Area(1, 1, 2, 3)}
MCSizes == {[w |-> 2, h |-> 1], [w |-> 3, h |-> 2]}
MCPlaces == {[x |-> -1, y |-> 3], [x |-> 3, y |-> -1], [x |-> 1, y |-> 1]}
MCIcon == [w |-> 1, h |-> 1]

MCInit ==
  /\ part \in {"windows", "icon", "picker", "pages"}
  /\ AppInit /\ TrayInit /\ PickerInit /\ HostInit
  /\ part = "windows" \/ ~firstStart
  /\ part = "icon" \/ (~explorer /\ ~override /\ ~hideTray)
  /\ part = "pages" \/ (size = [w |-> 2, h |-> 1] /\ workArea = Area(0, 0, 3, 2) /\ region.expanded)

MCNext ==
  /\ UNCHANGED part
  /\ \/ part = "windows" /\ AppNext /\ UNCHANGED <<trayVars, picker, hostVars>>
     \/ part = "icon" /\ TrayNext /\ UNCHANGED <<appVars, picker, hostVars>>
     \/ part = "picker" /\ PickerNext /\ UNCHANGED <<appVars, trayVars, hostVars>>
     \/ part = "pages" /\ HostNext /\ UNCHANGED <<appVars, trayVars, picker>>

MCSpec == MCInit /\ [][MCNext]_MCvars /\ AppFairness
=============================================================================
