------------------------------- MODULE PageHost -------------------------------
(***************************************************************************)
(* Where the windows of the XAML pages are: XamlPageHost measures its page *)
(* and places its window on the work area of the monitor, later resizes it *)
(* as the layout of the page changes, and leaves it where the user drags   *)
(* it.  The layout of a page raises an event, and the window follows in a  *)
(* work item of low priority that the event queues.                        *)
(*                                                                         *)
(* With them goes the hidden window of the tray icon's XAML menu, which is *)
(* moved under the icon.                                                   *)
(*                                                                         *)
(* A rectangle is a corner and a size, in pixels.                          *)
(***************************************************************************)
EXTENDS Integers

CONSTANTS
  WorkAreas,    \* the work areas a monitor may have, rectangles
  Sizes,        \* the sizes a page may measure
  Places,       \* the corners of windows and the places of the cursor
  IconSize,     \* the size of the tray icon
  LeftToRight   \* FlowDirection of the page

Rects == [x : Int, y : Int, w : Nat, h : Nat]

ASSUME PageHostAssumption ==
  /\ WorkAreas \subseteq Rects
  /\ \A area \in WorkAreas : area.w > 0 /\ area.h > 0
  /\ Sizes \subseteq [w : Nat \ {0}, h : Nat \ {0}]
  /\ Places \subseteq [x : Int, y : Int]
  /\ IconSize \in [w : Nat \ {0}, h : Nat \ {0}]
  /\ LeftToRight \in BOOLEAN

VARIABLES
  wndRect,       \* the rectangle of the host window
  phase,        \* "created", "measuring", "shown" or "closed"
  size,         \* what the page measures
  dirty,        \* a layout pass of the page is due
  subscribed,   \* OnXamlLayoutChanged is subscribed to LayoutUpdated
  pending,      \* m_PendingSizeUpdate: the work item of OnXamlLayoutChanged is queued
  endDrag,      \* m_EndDragLayoutUpdate
  region,       \* the drag region: whether the page expands into its title bar, the width
                \* of its window, that of its window region, where the buttons are in it
  known,        \* GetMonitorInfo knew the monitor when the page was last measured
  workArea,     \* the work area of the monitor
  menuWindow    \* the rectangle of the hidden window

hostVars == <<wndRect, phase, size, dirty, subscribed, pending, endDrag, region, known, workArea, menuWindow>>

-----------------------------------------------------------------------------
(* Geometry.                                                               *)

Rect(place, s) == [x |-> place.x, y |-> place.y, w |-> s.w, h |-> s.h]

RectFitsInRect(outer, inner) ==
  /\ inner.x + inner.w <= outer.x + outer.w /\ inner.x >= outer.x
  /\ outer.y <= inner.y /\ outer.y + outer.h >= inner.y + inner.h

FitsIn(area, s) == s.w <= area.w /\ s.h <= area.h

Meets(a, b) == a.x < b.x + b.w /\ b.x < a.x + a.w /\ a.y < b.y + b.h /\ b.y < a.y + a.h

(* Division of C++, towards zero. *)
Half(n) == IF n >= 0 THEN n \div 2 ELSE -((-n) \div 2)

(* Where a coordinate goes so that the interval fits in [low, low + room]. *)
Offset(at, length, low, room) ==
  IF at + length > low + room THEN low + room - (at + length)
  ELSE IF at < low THEN low - at ELSE 0

TooLong(at, length, low, room) == at + length > low + room /\ at < low

(* Slip: only what is out on the right and the bottom is moved. *)
AdjustRightAndBottom(r, area) ==
  [r EXCEPT !.x = IF @ + r.w > area.x + area.w THEN area.x + area.w - r.w ELSE @,
            !.y = IF @ + r.h > area.y + area.h THEN area.y + area.h - r.h ELSE @]

AdjustWindowPosition(r, area) ==
  IF TooLong(r.x, r.w, area.x, area.w) \/ TooLong(r.y, r.h, area.y, area.h)
  THEN r      \* it fits nowhere
  ELSE [r EXCEPT !.x = @ + Offset(@, r.w, area.x, area.w),
                 !.y = @ + Offset(@, r.h, area.y, area.h)]

CenteredOn(cursor, s) == [x |-> cursor.x - Half(s.w), y |-> cursor.y - Half(s.h), w |-> s.w, h |-> s.h]

Centered(s, area) ==
  [x |-> Half(area.w - s.w) + area.x, y |-> Half(area.h - s.h) + area.y, w |-> s.w, h |-> s.h]

(* The two sides of an interval moved by ExtendIntoArea. *)
ExtendSide(at, length, low, room) ==
  LET left == IF at >= low + room THEN low + room - 1 ELSE at
      right == IF at + length <= low THEN low + 1 ELSE at + length
  IN  <<left, right - left>>

ExtendIntoArea(r, area) ==
  LET h == ExtendSide(r.x, r.w, area.x, area.w)
      v == ExtendSide(r.y, r.h, area.y, area.h)
  IN  [x |-> h[1], y |-> v[1], w |-> h[2], h |-> v[2]]

(* The page reserves one for its buttons: all of a title bar it expands    *)
(* into is for dragging, except where they are, and of another what is     *)
(* beside them.                                                            *)
DragRegion == IF region.expanded THEN size.w ELSE size.w - 1

NoButtons == -1
TitlebarButtonsRegion ==
  IF ~region.expanded THEN NoButtons ELSE IF LeftToRight THEN size.w - 1 ELSE 0

(* GetXamlSize, which gives nothing when the monitor is not known. *)
GetXamlSize(isKnown) ==
  IF isKnown
  THEN [size |-> size, drag |-> DragRegion, buttons |-> TitlebarButtonsRegion, area |-> workArea]
  ELSE [size |-> [w |-> 0, h |-> 0], drag |-> 0, buttons |-> NoButtons,
        area |-> [x |-> 0, y |-> 0, w |-> 0, h |-> 0]]

(* The region is made anew when the buttons have moved, ... *)
SetRegion(r, width, buttons) ==
  IF buttons = r.buttons THEN r
  ELSE [r EXCEPT !.w = IF buttons = NoButtons THEN -1 ELSE width, !.buttons = buttons]

(* ... once its window has got its width. *)
Position(width, buttons) == SetRegion([region EXCEPT !.window = width], width, buttons)

-----------------------------------------------------------------------------
HostInit ==
  /\ size \in Sizes /\ workArea \in WorkAreas
  /\ wndRect = [x |-> 0, y |-> 0, w |-> 0, h |-> 0] /\ menuWindow = wndRect
  /\ phase = "created" /\ dirty = TRUE /\ subscribed = FALSE
  /\ pending = FALSE /\ endDrag = FALSE
  /\ \E expanded \in BOOLEAN :
       region = [expanded |-> expanded, window |-> 0, w |-> -1, buttons |-> NoButtons]
  /\ known = TRUE

(* The layout passes of XAML.  The first one starts InitialXamlLayoutChanged, *)
(* which unsubscribes and goes on later; the others queue a work item if      *)
(* none is queued.                                                            *)
LayoutPass ==
  /\ dirty /\ dirty' = FALSE
  /\ phase' = IF phase = "created" THEN "measuring" ELSE phase
  /\ pending' = (pending \/ subscribed)
  /\ UNCHANGED <<wndRect, size, subscribed, endDrag, region, known, workArea, menuWindow>>

ContentChanges ==
  /\ phase # "closed"
  /\ size' \in Sizes /\ dirty' = TRUE
  /\ UNCHANGED <<wndRect, phase, subscribed, pending, endDrag, region, known, workArea, menuWindow>>

(* The rest of InitialXamlLayoutChanged: at the cursor or in the centre.   *)
(* Slip: it does not subscribe to the layout again.                        *)
ShowAtFirst ==
  /\ phase = "measuring" /\ phase' = "shown"
  /\ known' \in BOOLEAN
  /\ LET xaml == GetXamlSize(known')
     IN  /\ \/ \E cursor \in Places : wndRect' = AdjustWindowPosition(CenteredOn(cursor, xaml.size), xaml.area)
            \/ wndRect' = Centered(xaml.size, xaml.area)
         /\ region' = Position(xaml.drag, xaml.buttons)
  /\ dirty' = (dirty /\ ~known')      \* UpdateLayout of GetXamlSize
  /\ UNCHANGED <<size, pending, endDrag, workArea, menuWindow>>

InitialUnsubscribed == ShowAtFirst /\ UNCHANGED subscribed

InitialXamlLayoutChanged == ShowAtFirst /\ subscribed' = TRUE

(* The work item of OnXamlLayoutChanged.  After a drag the window stays    *)
(* where it is.                                                            *)
OnXamlLayoutChanged ==
  /\ pending /\ pending' = FALSE /\ endDrag' = FALSE
  /\ IF phase = "closed" THEN UNCHANGED <<wndRect, region, known, dirty>>
     ELSE /\ known' \in BOOLEAN
          /\ LET xaml == GetXamlSize(known')
                 resized == [wndRect EXCEPT !.w = xaml.size.w, !.h = xaml.size.h]
             IN  /\ wndRect' = IF resized = wndRect \/ endDrag THEN resized
                               ELSE AdjustWindowPosition(resized, xaml.area)
                 /\ region' = Position(xaml.drag, xaml.buttons)
          /\ dirty' = (dirty /\ ~known')
  /\ UNCHANGED <<phase, size, subscribed, workArea, menuWindow>>

Dragged ==
  /\ phase = "shown"
  /\ \E place \in Places : wndRect' = Rect(place, wndRect)
  /\ UNCHANGED <<phase, size, dirty, subscribed, pending, endDrag, region, known, workArea, menuWindow>>

(* WM_EXITSIZEMOVE *)
DragEnds ==
  /\ phase = "shown"
  /\ endDrag' = TRUE /\ dirty' = TRUE
  /\ UNCHANGED <<wndRect, phase, size, subscribed, pending, region, known, workArea, menuWindow>>

(* WM_DPICHANGED, with the rectangle Windows suggests; XAML lays the page  *)
(* out at the new scale.                                                   *)
DpiChanged ==
  /\ phase = "shown"
  /\ \E place \in Places, s \in Sizes : wndRect' = Rect(place, s)
  /\ size' \in Sizes /\ dirty' = TRUE
  /\ UNCHANGED <<phase, subscribed, pending, endDrag, region, known, workArea, menuWindow>>

(* The taskbar is moved, or the window is on another monitor now.          *)
WorkAreaChanges ==
  /\ workArea' \in WorkAreas
  /\ UNCHANGED <<wndRect, phase, size, dirty, subscribed, pending, endDrag, region, known, menuWindow>>

(* Cleanup *)
OnClose ==
  /\ phase = "shown" /\ phase' = "closed"
  /\ subscribed' = FALSE /\ dirty' = FALSE
  /\ UNCHANGED <<wndRect, size, pending, endDrag, region, known, workArea, menuWindow>>

(* ShowAt of the tray menu, or its tooltip: the icon is at a place.        *)
MoveHiddenWindow ==
  /\ \E place \in Places :
       LET icon == Rect(place, IconSize)
       IN  menuWindow' = IF RectFitsInRect(workArea, icon) THEN icon ELSE ExtendIntoArea(icon, workArea)
  /\ UNCHANGED <<wndRect, phase, size, dirty, subscribed, pending, endDrag, region, known, workArea>>

HostNext ==
  \/ LayoutPass \/ ContentChanges
  \/ InitialXamlLayoutChanged \/ OnXamlLayoutChanged
  \/ Dragged \/ DragEnds \/ DpiChanged \/ WorkAreaChanges
  \/ OnClose \/ MoveHiddenWindow

HostSpec == HostInit /\ [][HostNext]_hostVars

-----------------------------------------------------------------------------
(* Everything has its type; and once the layout has settled, however its   *)
(* passes, drags, changes of the scale and the one work item overlap, the  *)
(* window has the size of the page, and the region that lets the user drag *)
(* it the width the page has for that, unless the monitor was not known    *)
(* when the page was last measured.  From right to left the buttons do not *)
(* move, and the region keeps the width it was made with                   *)
(* (xamldragregion.cpp:82).                                                *)
SettledWindowIsRight ==
  /\ wndRect \in Rects /\ menuWindow \in Rects
  /\ size \in Sizes /\ workArea \in WorkAreas
  /\ phase \in {"created", "measuring", "shown", "closed"}
  /\ dirty \in BOOLEAN /\ subscribed \in BOOLEAN /\ pending \in BOOLEAN /\ endDrag \in BOOLEAN
  /\ region \in [expanded : BOOLEAN, window : Int, w : Int, buttons : Int] /\ known \in BOOLEAN
  /\ phase = "shown" /\ ~dirty /\ ~pending /\ known =>
       /\ wndRect.w = size.w /\ wndRect.h = size.h
       /\ region.window = DragRegion
       /\ region.expanded /\ LeftToRight => region.w = wndRect.w

(* A window that is shown or resized for its page is then in the work area *)
(* if there is room for it, unless it ends a drag, which leaves it where   *)
(* it is, or the monitor is not known, which shrinks it to nothing;        *)
(* nothing else but the user and Windows moves or resizes it.  And the     *)
(* window of the tray menu reaches into the work area, wherever the    *)
(* icon is, so that the menu can open there (basexamlpagehost.cpp:94,      *)
(* basecontextmenu.cpp:216).                                               *)
WindowsAreInReach ==
  [][/\ wndRect' # wndRect /\ ~Dragged /\ ~DpiChanged =>
          \/ endDrag /\ wndRect'.x = wndRect.x /\ wndRect'.y = wndRect.y
          \/ FitsIn(workArea, size) => RectFitsInRect(workArea, wndRect')
          \/ ~known'
     /\ menuWindow' # menuWindow => Meets(menuWindow', workArea)]_hostVars
=============================================================================
