---------------------------- MODULE PagesProofs -----------------------------
(***************************************************************************)
(* Proofs about the XAML pages: PageHost, for all work areas, page sizes   *)
(* and places, that is where AdjustWindowPosition and its likes put a      *)
(* rectangle and with it where the windows are; and ColorPicker, with      *)
(* alpha and without.                                                      *)
(***************************************************************************)
EXTENDS PageHost, ColorPicker, TLAPS

-----------------------------------------------------------------------------
(* Geometry.                                                               *)

LEMMA HalfIs ==
  ASSUME NEW n \in Int
  PROVE  Half(n) \in Int /\ (n >= 0 => 0 <= Half(n) /\ Half(n) <= n)
BY DEF Half

LEMMA RectsAre ==
  ASSUME NEW x \in Int, NEW y \in Int, NEW w \in Nat, NEW h \in Nat
  PROVE  [x |-> x, y |-> y, w |-> w, h |-> h] \in Rects
BY DEF Rects

LEMMA RectSides ==
  ASSUME NEW r \in Rects
  PROVE  r.x \in Int /\ r.y \in Int /\ r.w \in Nat /\ r.h \in Nat
BY DEF Rects

(* Where one side of a rectangle goes. *)
LEMMA OffsetFits ==
  ASSUME NEW at \in Int, NEW length \in Nat, NEW low \in Int, NEW room \in Nat
  PROVE  /\ Offset(at, length, low, room) \in Int
         /\ length <= room =>
              /\ ~TooLong(at, length, low, room)
              /\ low <= at + Offset(at, length, low, room)
              /\ at + Offset(at, length, low, room) + length <= low + room
BY DEF Offset, TooLong

LEMMA AdjustKeepsSize ==
  ASSUME NEW r \in Rects, NEW area \in Rects
  PROVE  /\ AdjustWindowPosition(r, area) \in Rects
         /\ AdjustWindowPosition(r, area).w = r.w /\ AdjustWindowPosition(r, area).h = r.h
<1> DEFINE dx == Offset(r.x, r.w, area.x, area.w)
           dy == Offset(r.y, r.h, area.y, area.h)
<1>1. /\ r.x \in Int /\ r.y \in Int /\ r.w \in Nat /\ r.h \in Nat
      /\ area.x \in Int /\ area.y \in Int /\ area.w \in Nat /\ area.h \in Nat
  BY RectSides
<1>2. dx \in Int /\ dy \in Int
  BY <1>1, OffsetFits
<1>3. AdjustWindowPosition(r, area) \in {r, [r EXCEPT !.x = r.x + dx, !.y = r.y + dy]}
  BY DEF AdjustWindowPosition
<1> HIDE DEF dx, dy
<1>4. r.x + dx \in Int /\ r.y + dy \in Int
  BY <1>1, <1>2
<1> QED
  BY <1>3, <1>4 DEF Rects

LEMMA AdjustFits ==
  ASSUME NEW r \in Rects, NEW area \in Rects, FitsIn(area, r)
  PROVE  RectFitsInRect(area, AdjustWindowPosition(r, area))
<1> DEFINE dx == Offset(r.x, r.w, area.x, area.w)
           dy == Offset(r.y, r.h, area.y, area.h)
<1>1. /\ ~TooLong(r.x, r.w, area.x, area.w)
      /\ dx \in Int /\ area.x <= r.x + dx /\ r.x + dx + r.w <= area.x + area.w
  BY RectSides, OffsetFits DEF FitsIn
<1>2. /\ ~TooLong(r.y, r.h, area.y, area.h)
      /\ dy \in Int /\ area.y <= r.y + dy /\ r.y + dy + r.h <= area.y + area.h
  BY RectSides, OffsetFits DEF FitsIn
<1>3. AdjustWindowPosition(r, area) = [r EXCEPT !.x = r.x + dx, !.y = r.y + dy]
  BY <1>1, <1>2 DEF AdjustWindowPosition
<1>4. /\ AdjustWindowPosition(r, area).x = r.x + dx /\ AdjustWindowPosition(r, area).y = r.y + dy
      /\ AdjustWindowPosition(r, area).w = r.w /\ AdjustWindowPosition(r, area).h = r.h
  BY <1>3 DEF Rects
<1> HIDE DEF dx, dy
<1> QED
  BY <1>1, <1>2, <1>4, RectSides DEF RectFitsInRect

LEMMA CenteredOnIs ==
  ASSUME NEW cursor \in [x : Int, y : Int], NEW s \in [w : Nat, h : Nat]
  PROVE  /\ CenteredOn(cursor, s) \in Rects
         /\ CenteredOn(cursor, s).w = s.w /\ CenteredOn(cursor, s).h = s.h
<1>1. Half(s.w) \in Int /\ Half(s.h) \in Int
  BY HalfIs
<1>2. cursor.x - Half(s.w) \in Int /\ cursor.y - Half(s.h) \in Int
  BY <1>1
<1> QED
  BY <1>2 DEF CenteredOn, Rects

LEMMA CenteredIs ==
  ASSUME NEW s \in [w : Nat, h : Nat], NEW area \in Rects
  PROVE  /\ Centered(s, area) \in Rects
         /\ Centered(s, area).w = s.w /\ Centered(s, area).h = s.h
         /\ FitsIn(area, s) => RectFitsInRect(area, Centered(s, area))
<1> DEFINE hx == Half(area.w - s.w)
           hy == Half(area.h - s.h)
<1>1. area.x \in Int /\ area.y \in Int /\ area.w \in Nat /\ area.h \in Nat /\ s.w \in Nat /\ s.h \in Nat
  BY RectSides
<1>2. hx \in Int /\ (area.w - s.w >= 0 => 0 <= hx /\ hx <= area.w - s.w)
  BY <1>1, HalfIs
<1>3. hy \in Int /\ (area.h - s.h >= 0 => 0 <= hy /\ hy <= area.h - s.h)
  BY <1>1, HalfIs
<1>4. Centered(s, area) = [x |-> hx + area.x, y |-> hy + area.y, w |-> s.w, h |-> s.h]
  BY DEF Centered
<1> HIDE DEF hx, hy
<1>5. Centered(s, area) \in Rects
  BY <1>1, <1>2, <1>3, <1>4, RectsAre
<1>6. FitsIn(area, s) => RectFitsInRect(area, Centered(s, area))
  BY <1>1, <1>2, <1>3, <1>4 DEF FitsIn, RectFitsInRect
<1> QED
  BY <1>4, <1>5, <1>6

(* A side that is extended covers a pixel of the other. *)
LEMMA ExtendedSideMeets ==
  ASSUME NEW at \in Int, NEW length \in Nat \ {0}, NEW low \in Int, NEW room \in Nat \ {0}
  PROVE  LET side == ExtendSide(at, length, low, room)
         IN  /\ side[1] \in Int /\ side[2] \in Nat
             /\ side[1] < low + room /\ low < side[1] + side[2]
BY DEF ExtendSide

LEMMA ExtendedMeets ==
  ASSUME NEW r \in Rects, r.w > 0, r.h > 0, NEW area \in Rects, area.w > 0, area.h > 0
  PROVE  ExtendIntoArea(r, area) \in Rects /\ Meets(ExtendIntoArea(r, area), area)
<1> DEFINE hor == ExtendSide(r.x, r.w, area.x, area.w)
           ver == ExtendSide(r.y, r.h, area.y, area.h)
<1>1. r.w \in Nat \ {0} /\ r.h \in Nat \ {0} /\ area.w \in Nat \ {0} /\ area.h \in Nat \ {0}
  BY RectSides
<1>2. hor[1] \in Int /\ hor[2] \in Nat /\ hor[1] < area.x + area.w /\ area.x < hor[1] + hor[2]
  BY <1>1, RectSides, ExtendedSideMeets
<1>3. ver[1] \in Int /\ ver[2] \in Nat /\ ver[1] < area.y + area.h /\ area.y < ver[1] + ver[2]
  BY <1>1, RectSides, ExtendedSideMeets
<1>4. ExtendIntoArea(r, area) = [x |-> hor[1], y |-> ver[1], w |-> hor[2], h |-> ver[2]]
  BY DEF ExtendIntoArea
<1> HIDE DEF hor, ver
<1> QED
  BY <1>2, <1>3, <1>4, RectsAre DEF Meets

LEMMA FittingMeets ==
  ASSUME NEW r \in Rects, r.w > 0, r.h > 0, NEW area \in Rects, RectFitsInRect(area, r)
  PROVE  Meets(r, area)
BY RectSides DEF Meets, RectFitsInRect

-----------------------------------------------------------------------------
(* The inductive invariant: what is where it is, whether the window still  *)
(* follows its page, and that the drag region was made for the buttons as  *)
(* they are in it.                                                         *)
Placed == wndRect \in Rects /\ menuWindow \in Rects /\ size \in Sizes /\ workArea \in WorkAreas

Flags ==
  /\ phase \in {"created", "measuring", "shown", "closed"}
  /\ dirty \in BOOLEAN /\ subscribed \in BOOLEAN /\ pending \in BOOLEAN /\ endDrag \in BOOLEAN
  /\ known \in BOOLEAN
  /\ phase = "shown" => subscribed

MadeRegion(r) ==
  /\ r \in [expanded : BOOLEAN, window : Int, w : Int, buttons : Int]
  /\ r.expanded /\ LeftToRight => r.buttons = NoButtons \/ r.w = r.buttons + 1

Fits ==
  /\ wndRect.w = size.w /\ wndRect.h = size.h
  /\ region.window = DragRegion
  /\ region.expanded /\ LeftToRight => region.w = size.w

Follows == phase = "shown" /\ ~dirty /\ ~pending /\ known => Fits

HostInv == Placed /\ Flags /\ MadeRegion(region) /\ Follows

LEMMA InvImpliesSettled == HostInv => SettledWindowIsRight
<1> SUFFICES ASSUME HostInv PROVE SettledWindowIsRight
  OBVIOUS
<1>1. region \in [expanded : BOOLEAN, window : Int, w : Int, buttons : Int]
  BY DEF HostInv, MadeRegion
<1>2. phase = "shown" /\ ~dirty /\ ~pending /\ known =>
        /\ wndRect.w = size.w /\ wndRect.h = size.h
        /\ region.window = DragRegion
        /\ region.expanded /\ LeftToRight => region.w = wndRect.w
  BY DEF HostInv, Follows, Fits
<1> QED
  BY <1>1, <1>2, Zenon DEF HostInv, Placed, Flags, SettledWindowIsRight

LEMMA AreasAre ==
  ASSUME Placed
  PROVE  /\ workArea \in Rects /\ workArea.w > 0 /\ workArea.h > 0
         /\ size \in [w : Nat \ {0}, h : Nat \ {0}]
BY PageHostAssumption DEF Placed

(* What a page is measured with, and what for its drag region. *)
LEMMA XamlSizeIs ==
  ASSUME Placed, MadeRegion(region), NEW isKnown \in BOOLEAN
  PROVE  LET xaml == GetXamlSize(isKnown)
         IN  /\ xaml.size \in [w : Nat, h : Nat] /\ xaml.area \in Rects
             /\ xaml.drag \in Int /\ xaml.buttons \in Int
             /\ isKnown => /\ xaml.size = size /\ xaml.area = workArea
                           /\ xaml.drag = DragRegion /\ xaml.buttons = TitlebarButtonsRegion
             /\ ~isKnown => xaml.buttons = NoButtons
<1>1. size.w \in Nat /\ size \in [w : Nat, h : Nat] /\ workArea \in Rects
  BY AreasAre
<1>2. DragRegion \in Int /\ TitlebarButtonsRegion \in Int /\ NoButtons \in Int
  BY <1>1 DEF DragRegion, TitlebarButtonsRegion, NoButtons
<1>3. CASE isKnown
  <2>1. GetXamlSize(isKnown) = [size |-> size, drag |-> DragRegion, buttons |-> TitlebarButtonsRegion, area |-> workArea]
    BY <1>3 DEF GetXamlSize
  <2>2. /\ GetXamlSize(isKnown).size = size /\ GetXamlSize(isKnown).area = workArea
        /\ GetXamlSize(isKnown).drag = DragRegion /\ GetXamlSize(isKnown).buttons = TitlebarButtonsRegion
    BY <2>1
  <2> QED
    BY <1>1, <1>2, <1>3, <2>2, Zenon
<1>4. CASE ~isKnown
  <2>1. GetXamlSize(isKnown) = [size |-> [w |-> 0, h |-> 0], drag |-> 0, buttons |-> NoButtons,
                                area |-> [x |-> 0, y |-> 0, w |-> 0, h |-> 0]]
    BY <1>4 DEF GetXamlSize
  <2>2. [x |-> 0, y |-> 0, w |-> 0, h |-> 0] \in Rects /\ [w |-> 0, h |-> 0] \in [w : Nat, h : Nat]
    BY RectsAre
  <2> QED
    BY <1>2, <1>4, <2>1, <2>2
<1> QED
  BY <1>3, <1>4

LEMMA PositionIsRight ==
  ASSUME Placed, MadeRegion(region), NEW isKnown \in BOOLEAN, NEW r,
         r = Position(GetXamlSize(isKnown).drag, GetXamlSize(isKnown).buttons)
  PROVE  /\ MadeRegion(r) /\ r.expanded = region.expanded
         /\ isKnown => /\ r.window = DragRegion
                       /\ region.expanded /\ LeftToRight => r.w = size.w
<1> DEFINE drag == GetXamlSize(isKnown).drag
           buttons == GetXamlSize(isKnown).buttons
           placed == [region EXCEPT !.window = drag]
           width == IF buttons = NoButtons THEN -1 ELSE drag
<1>1. size.w \in Nat \ {0}
  BY AreasAre
<1>2. drag \in Int /\ buttons \in Int /\ (isKnown => drag = DragRegion /\ buttons = TitlebarButtonsRegion)
      /\ (~isKnown => buttons = NoButtons)
  BY XamlSizeIs
<1>3. region \in [expanded : BOOLEAN, window : Int, w : Int, buttons : Int]
  BY DEF MadeRegion
<1>4. r = SetRegion(placed, drag, buttons)
  BY DEF Position
<1> HIDE DEF drag, buttons
<1>5. /\ placed \in [expanded : BOOLEAN, window : Int, w : Int, buttons : Int] /\ placed.expanded = region.expanded
      /\ placed.window = drag /\ placed.w = region.w /\ placed.buttons = region.buttons
  BY <1>2, <1>3
<1>6. r = IF buttons = placed.buttons THEN placed ELSE [placed EXCEPT !.w = width, !.buttons = buttons]
  BY <1>4 DEF SetRegion
<1>7. width \in Int
  BY <1>2
<1>8. isKnown /\ region.expanded =>
        /\ drag = size.w /\ buttons \in Nat
        /\ LeftToRight => buttons = size.w - 1
  BY <1>1, <1>2 DEF DragRegion, TitlebarButtonsRegion
<1>9. ~isKnown => buttons = NoButtons
  BY <1>2
<1>10. \A n \in Nat : n # NoButtons
  BY DEF NoButtons
<1>11. LeftToRight /\ region.expanded => buttons = NoButtons \/ drag = buttons + 1
  BY <1>1, <1>2, <1>8, <1>9
<1>12. buttons # NoButtons => width = drag
  OBVIOUS
<1>13. buttons = NoButtons => width = -1
  OBVIOUS
<1> HIDE DEF placed, width
<1>14. CASE buttons = region.buttons
  <2>1. r = placed
    BY <1>5, <1>6, <1>14
  <2>2. MadeRegion(r)
    BY <1>5, <2>1 DEF MadeRegion
  <2>3. isKnown /\ region.expanded /\ LeftToRight => region.w = size.w
    BY <1>1, <1>3, <1>8, <1>10, <1>14 DEF MadeRegion
  <2> QED
    BY <1>2, <1>5, <2>1, <2>2, <2>3
<1>15. CASE buttons # region.buttons
  <2>1. /\ r \in [expanded : BOOLEAN, window : Int, w : Int, buttons : Int]
        /\ r.expanded = region.expanded /\ r.window = drag /\ r.w = width /\ r.buttons = buttons
    BY <1>2, <1>5, <1>6, <1>7, <1>15
  <2>2. MadeRegion(r)
    BY <1>11, <1>12, <2>1 DEF MadeRegion
  <2>3. isKnown /\ region.expanded => width = size.w
    BY <1>8, <1>10, <1>12
  <2> QED
    BY <1>2, <2>1, <2>2, <2>3
<1> QED
  BY <1>14, <1>15

(* Where the first layout puts the window. *)
LEMMA InitialIsPlaced ==
  ASSUME Placed, MadeRegion(region), InitialXamlLayoutChanged
  PROVE  /\ wndRect' \in Rects
         /\ known' => /\ wndRect'.w = size.w /\ wndRect'.h = size.h
                      /\ FitsIn(workArea, size) => RectFitsInRect(workArea, wndRect')
<1> DEFINE s == GetXamlSize(known').size
           area == GetXamlSize(known').area
<1>1. /\ known' \in BOOLEAN
      /\ \/ \E cursor \in Places : wndRect' = AdjustWindowPosition(CenteredOn(cursor, s), area)
         \/ wndRect' = Centered(s, area)
  BY DEF InitialXamlLayoutChanged, ShowAtFirst
<1>2. s \in [w : Nat, h : Nat] /\ area \in Rects /\ (known' => s = size /\ area = workArea)
  BY <1>1, XamlSizeIs
<1> HIDE DEF s, area
<1>3. CASE \E cursor \in Places : wndRect' = AdjustWindowPosition(CenteredOn(cursor, s), area)
  <2>1. PICK cursor \in Places : wndRect' = AdjustWindowPosition(CenteredOn(cursor, s), area)
    BY <1>3
  <2>2. cursor \in [x : Int, y : Int]
    BY PageHostAssumption
  <2>3. CenteredOn(cursor, s) \in Rects /\ CenteredOn(cursor, s).w = s.w /\ CenteredOn(cursor, s).h = s.h
    BY <1>2, <2>2, CenteredOnIs
  <2>4. FitsIn(area, s) => FitsIn(area, CenteredOn(cursor, s))
    BY <2>3 DEF FitsIn
  <2> QED
    BY <1>2, <2>1, <2>3, <2>4, AdjustKeepsSize, AdjustFits
<1>4. CASE wndRect' = Centered(s, area)
  BY <1>2, <1>4, CenteredIs
<1> QED
  BY <1>1, <1>3, <1>4

(* Where the window goes with a later one. *)
LEMMA LaterIsPlaced ==
  ASSUME Placed, MadeRegion(region), OnXamlLayoutChanged, phase # "closed"
  PROVE  /\ wndRect' \in Rects
         /\ known' => /\ wndRect'.w = size.w /\ wndRect'.h = size.h
                      /\ \/ wndRect' = wndRect
                         \/ endDrag /\ wndRect'.x = wndRect.x /\ wndRect'.y = wndRect.y
                         \/ FitsIn(workArea, size) => RectFitsInRect(workArea, wndRect')
<1> DEFINE s == GetXamlSize(known').size
           area == GetXamlSize(known').area
           resized == [wndRect EXCEPT !.w = s.w, !.h = s.h]
<1>1. /\ known' \in BOOLEAN
      /\ wndRect' = IF resized = wndRect \/ endDrag THEN resized ELSE AdjustWindowPosition(resized, area)
  BY DEF OnXamlLayoutChanged
<1>2. s \in [w : Nat, h : Nat] /\ area \in Rects /\ (known' => s = size /\ area = workArea)
  BY <1>1, XamlSizeIs
<1> HIDE DEF s, area
<1>3. /\ resized \in Rects
      /\ resized.x = wndRect.x /\ resized.y = wndRect.y /\ resized.w = s.w /\ resized.h = s.h
  BY <1>2 DEF Placed, Rects
<1>4. FitsIn(area, s) => FitsIn(area, resized)
  BY <1>3 DEF FitsIn
<1> HIDE DEF resized
<1>5. CASE resized = wndRect \/ endDrag
  BY <1>1, <1>2, <1>3, <1>5
<1>6. CASE ~(resized = wndRect \/ endDrag)
  BY <1>1, <1>2, <1>3, <1>4, <1>6, AdjustKeepsSize, AdjustFits
<1> QED
  BY <1>5, <1>6

(* Where the window of the menu goes. *)
LEMMA HiddenIsPlaced ==
  ASSUME Placed, MoveHiddenWindow
  PROVE  menuWindow' \in Rects /\ Meets(menuWindow', workArea)
<1>1. PICK place \in Places :
        menuWindow' = IF RectFitsInRect(workArea, Rect(place, IconSize)) THEN Rect(place, IconSize)
                      ELSE ExtendIntoArea(Rect(place, IconSize), workArea)
  BY DEF MoveHiddenWindow
<1>2. Rect(place, IconSize) \in Rects /\ Rect(place, IconSize).w > 0 /\ Rect(place, IconSize).h > 0
  BY PageHostAssumption DEF Rect, Rects
<1> QED
  BY <1>1, <1>2, AreasAre, ExtendedMeets, FittingMeets

-----------------------------------------------------------------------------
LEMMA InvInit == HostInit => HostInv
<1> SUFFICES ASSUME HostInit PROVE HostInv
  OBVIOUS
<1>1. Placed
  BY DEF HostInit, Placed, Rects
<1>2. Flags /\ Follows
  BY Zenon DEF HostInit, Flags, Follows
<1>3. MadeRegion(region)
  <2>1. PICK expanded \in BOOLEAN :
          region = [expanded |-> expanded, window |-> 0, w |-> -1, buttons |-> NoButtons]
    BY DEF HostInit
  <2>2. region \in [expanded : BOOLEAN, window : Int, w : Int, buttons : Int] /\ region.buttons = NoButtons
    BY <2>1 DEF NoButtons
  <2> QED
    BY <2>2 DEF MadeRegion
<1> QED
  BY <1>1, <1>2, <1>3 DEF HostInv

LEMMA PlacedStep ==
  ASSUME Placed, MadeRegion(region), [HostNext]_hostVars
  PROVE  Placed'
<1> USE DEF Placed
<1>1. CASE LayoutPass \/ DragEnds \/ OnClose \/ UNCHANGED hostVars
  BY <1>1 DEF LayoutPass, DragEnds, OnClose, hostVars
<1>2. CASE ContentChanges \/ WorkAreaChanges
  BY <1>2 DEF ContentChanges, WorkAreaChanges
<1>3. CASE InitialXamlLayoutChanged
  BY <1>3, InitialIsPlaced DEF InitialXamlLayoutChanged, ShowAtFirst
<1>4. CASE OnXamlLayoutChanged
  BY <1>4, LaterIsPlaced DEF OnXamlLayoutChanged
<1>5. CASE Dragged
  <2>1. PICK place \in Places : wndRect' = Rect(place, wndRect)
    BY <1>5 DEF Dragged
  <2>2. wndRect' \in Rects
    BY <2>1, PageHostAssumption DEF Rect, Rects
  <2> QED
    BY <1>5, <2>2 DEF Dragged
<1>6. CASE DpiChanged
  <2>1. PICK place \in Places, s \in Sizes : wndRect' = Rect(place, s)
    BY <1>6 DEF DpiChanged
  <2>2. wndRect' \in Rects
    BY <2>1, PageHostAssumption DEF Rect, Rects
  <2> QED
    BY <1>6, <2>2 DEF DpiChanged
<1>7. CASE MoveHiddenWindow
  BY <1>7, HiddenIsPlaced DEF MoveHiddenWindow
<1> QED
  BY <1>1, <1>2, <1>3, <1>4, <1>5, <1>6, <1>7 DEF HostNext

LEMMA FlagsStep ==
  ASSUME Flags, [HostNext]_hostVars
  PROVE  Flags'
<1> USE DEF Flags
<1>1. CASE LayoutPass
  BY <1>1, Zenon DEF LayoutPass
<1>2. CASE ContentChanges \/ Dragged \/ DragEnds \/ DpiChanged
  BY <1>2, Zenon DEF ContentChanges, Dragged, DragEnds, DpiChanged
<1>3. CASE InitialXamlLayoutChanged
  BY <1>3, Zenon DEF InitialXamlLayoutChanged, ShowAtFirst
<1>4. CASE OnXamlLayoutChanged
  BY <1>4, Zenon DEF OnXamlLayoutChanged
<1>5. CASE WorkAreaChanges \/ OnClose \/ MoveHiddenWindow
  BY <1>5, Zenon DEF WorkAreaChanges, OnClose, MoveHiddenWindow
<1>6. CASE UNCHANGED hostVars
  BY <1>6, Zenon DEF hostVars
<1> QED
  BY <1>1, <1>2, <1>3, <1>4, <1>5, <1>6 DEF HostNext

LEMMA RegionStep ==
  ASSUME Placed, MadeRegion(region), [HostNext]_hostVars
  PROVE  MadeRegion(region)'
<1>1. CASE known' \in BOOLEAN /\ region' = Position(GetXamlSize(known').drag, GetXamlSize(known').buttons)
  BY <1>1, PositionIsRight DEF MadeRegion
<1>2. CASE region' = region
  BY <1>2 DEF MadeRegion
<1>3. \/ region' = region
      \/ known' \in BOOLEAN /\ region' = Position(GetXamlSize(known').drag, GetXamlSize(known').buttons)
  BY Zenon DEF HostNext, LayoutPass, ContentChanges, InitialXamlLayoutChanged, ShowAtFirst, OnXamlLayoutChanged, Dragged,
     DragEnds, DpiChanged, WorkAreaChanges, OnClose, MoveHiddenWindow, hostVars
<1> QED
  BY <1>1, <1>2, <1>3

LEMMA Fitting ==
  ASSUME Placed, MadeRegion(region), known' \in BOOLEAN, size' = size,
         region' = Position(GetXamlSize(known').drag, GetXamlSize(known').buttons),
         known' => wndRect'.w = size.w /\ wndRect'.h = size.h
  PROVE  Follows'
<1>1. /\ region'.expanded = region.expanded
      /\ known' => /\ region'.window = DragRegion
                   /\ region.expanded /\ LeftToRight => region'.w = size.w
  BY PositionIsRight
<1>2. DragRegion' = DragRegion
  BY <1>1 DEF DragRegion
<1> QED
  BY <1>1, <1>2 DEF Follows, Fits

(* A layout pass that is seen leaves a work item, anything else that       *)
(* changes the page or the window leaves a layout pass to come, and the    *)
(* work item makes the window fit.                                         *)
LEMMA FollowsStep ==
  ASSUME HostInv, [HostNext]_hostVars
  PROVE  Follows'
<1>1. CASE LayoutPass
  BY <1>1, Zenon DEF LayoutPass, HostInv, Flags, Follows, Fits, DragRegion
<1>2. CASE ContentChanges \/ DragEnds \/ DpiChanged
  BY <1>2, Zenon DEF ContentChanges, DragEnds, DpiChanged, Follows
<1>3. CASE InitialXamlLayoutChanged
  <2>1. known' => wndRect'.w = size.w /\ wndRect'.h = size.h
    BY <1>3, InitialIsPlaced DEF HostInv
  <2>2. /\ known' \in BOOLEAN /\ size' = size
        /\ region' = Position(GetXamlSize(known').drag, GetXamlSize(known').buttons)
    BY <1>3 DEF InitialXamlLayoutChanged, ShowAtFirst
  <2> QED
    BY <2>1, <2>2, Fitting DEF HostInv
<1>4. CASE OnXamlLayoutChanged /\ phase # "closed"
  <2>1. known' => wndRect'.w = size.w /\ wndRect'.h = size.h
    BY <1>4, LaterIsPlaced DEF HostInv
  <2>2. /\ known' \in BOOLEAN /\ size' = size
        /\ region' = Position(GetXamlSize(known').drag, GetXamlSize(known').buttons)
    BY <1>4 DEF OnXamlLayoutChanged
  <2> QED
    BY <2>1, <2>2, Fitting DEF HostInv
<1>5. CASE OnXamlLayoutChanged /\ phase = "closed"
  BY <1>5, Zenon DEF OnXamlLayoutChanged, Follows
<1>6. CASE Dragged
  <2>1. PICK place \in Places : wndRect' = Rect(place, wndRect)
    BY <1>6 DEF Dragged
  <2>2. wndRect'.w = wndRect.w /\ wndRect'.h = wndRect.h
    BY <2>1 DEF Rect
  <2> QED
    BY <1>6, <2>2, Zenon DEF Dragged, HostInv, Follows, Fits, DragRegion
<1>7. CASE WorkAreaChanges \/ MoveHiddenWindow
  BY <1>7, Zenon DEF WorkAreaChanges, MoveHiddenWindow, HostInv, Follows, Fits, DragRegion
<1>8. CASE OnClose
  BY <1>8 DEF OnClose, Follows
<1>9. CASE UNCHANGED hostVars
  BY <1>9, Zenon DEF hostVars, HostInv, Follows, Fits, DragRegion
<1> QED
  BY <1>1, <1>2, <1>3, <1>4, <1>5, <1>6, <1>7, <1>8, <1>9 DEF HostNext

LEMMA InvAlways == HostSpec => []HostInv
<1>1. HostInit => HostInv
  BY InvInit
<1>2. HostInv /\ [HostNext]_hostVars => HostInv'
  <2> SUFFICES ASSUME HostInv, [HostNext]_hostVars PROVE HostInv'
    OBVIOUS
  <2>1. Placed' /\ Flags'
    BY PlacedStep, FlagsStep DEF HostInv
  <2>2. MadeRegion(region)'
    BY RegionStep DEF HostInv
  <2>3. Follows'
    BY FollowsStep
  <2> QED
    BY <2>1, <2>2, <2>3 DEF HostInv
<1> QED
  BY <1>1, <1>2, PTL DEF HostSpec

(* Once the layout of a page has settled, its window and the region to     *)
(* drag it by have its size, for pages of any size.                        *)
THEOREM WindowsSettle == HostSpec => []SettledWindowIsRight
<1>1. HostInv => SettledWindowIsRight
  BY InvImpliesSettled
<1> QED
  BY <1>1, InvAlways, PTL

(* A window is put where its monitor shows it, if that is known and the    *)
(* window fits there at all, and the menu's window where the menu can      *)
(* open, for any work area, and for places anywhere (AdjustWindowPosition, *)
(* MoveHiddenWindow).                                                      *)
THEOREM WindowsStayInReach == HostSpec => WindowsAreInReach
<1> DEFINE InReach ==
      /\ wndRect' # wndRect /\ ~Dragged /\ ~DpiChanged =>
           \/ endDrag /\ wndRect'.x = wndRect.x /\ wndRect'.y = wndRect.y
           \/ FitsIn(workArea, size) => RectFitsInRect(workArea, wndRect')
           \/ ~known'
      /\ menuWindow' # menuWindow => Meets(menuWindow', workArea)
<1>1. HostInv /\ [HostNext]_hostVars => [InReach]_hostVars
  <2> SUFFICES ASSUME HostInv, HostNext PROVE InReach
    OBVIOUS
  <2>1. CASE InitialXamlLayoutChanged
    BY <2>1, InitialIsPlaced DEF HostInv, InitialXamlLayoutChanged, ShowAtFirst
  <2>2. CASE OnXamlLayoutChanged
    <3>1. CASE phase = "closed"
      BY <2>2, <3>1 DEF OnXamlLayoutChanged
    <3>2. CASE phase # "closed"
      BY <2>2, <3>2, LaterIsPlaced DEF HostInv, OnXamlLayoutChanged
    <3> QED
      BY <3>1, <3>2
  <2>3. CASE MoveHiddenWindow
    BY <2>3, HiddenIsPlaced DEF HostInv, MoveHiddenWindow
  <2>4. CASE Dragged
    BY <2>4 DEF Dragged
  <2>5. CASE DpiChanged
    BY <2>5 DEF DpiChanged
  <2>6. CASE LayoutPass \/ ContentChanges \/ DragEnds \/ WorkAreaChanges \/ OnClose
    BY <2>6 DEF LayoutPass, ContentChanges, DragEnds, WorkAreaChanges, OnClose
  <2> QED
    BY <2>1, <2>2, <2>3, <2>4, <2>5, <2>6 DEF HostNext
<1>2. HostSpec => [][HostNext]_hostVars
  BY DEF HostSpec
<1>3. HostSpec => [][InReach]_hostVars
  BY <1>1, <1>2, InvAlways, PTL
<1> QED
  BY <1>3 DEF WindowsAreInReach

-----------------------------------------------------------------------------
(***************************************************************************)
(* The colour picker, whose state is a record.                             *)
(***************************************************************************)
Pickers == [color : RgbColors, saved : HsvColors \cup {NoColor},
            equivalent : RgbColors \cup {NoColor},
            updated : RgbColors \cup {NoColor}, fromSpectrum : BOOLEAN,
            connected : BOOLEAN, ready : BOOLEAN, hsva : BOOLEAN,
            hex : RgbColors \cup {NoColor}, spectrum : HsvColors]

LEMMA ColorTypes ==
  /\ White \in RgbColors /\ NoColor \notin RgbColors /\ NoColor \notin HsvColors
  /\ \A c \in RgbColors : ToHSV(c) \in HsvColors /\ Opaque(c) \in RgbColors
  /\ \A x \in HsvColors : FromHSV(x) \in RgbColors
  /\ \A c \in RgbColors : Opaque(Opaque(c)) = Opaque(c)
BY PickerAssumption DEF White, RgbColors, HsvColors, Bit, Hues, ToHSV, FromHSV, Opaque

(* What two pickers have in common: all but what shows the colour, and the *)
(* HSV colour if one was saved.                                            *)
SameAsked(p, q) == q.color = p.color /\ q.updated = p.updated
SaveKept(p, q) ==
  /\ p.saved # NoColor => q.saved = p.saved /\ q.equivalent = p.equivalent
  /\ p.saved = NoColor /\ p.equivalent = NoColor =>
       (q.saved = NoColor /\ q.equivalent = NoColor) \/ (q.saved # NoColor /\ q.equivalent = p.color)

LEMMA ScheduleFields ==
  ASSUME NEW p \in Pickers, NEW c \in RgbColors, NEW b \in BOOLEAN
  PROVE  LET q == ScheduleColorUpdate(p, c, b)
         IN  /\ q \in Pickers
             /\ q.color = p.color /\ q.saved = p.saved /\ q.equivalent = p.equivalent
             /\ q.connected = p.connected /\ q.ready = p.ready /\ q.hex = p.hex
BY ColorTypes DEF ScheduleColorUpdate, Pickers

LEMMA SaveFields ==
  ASSUME NEW p \in Pickers, NEW x \in HsvColors
  PROVE  LET q == SaveHsv(p, x)
         IN  /\ q \in Pickers /\ SameAsked(p, q) /\ SaveKept(p, q)
             /\ q.saved # NoColor
             /\ q.connected = p.connected /\ q.ready = p.ready /\ q.hex = p.hex
BY ColorTypes DEF SaveHsv, Pickers, SameAsked, SaveKept

LEMMA DisconnectFields ==
  ASSUME NEW p \in Pickers
  PROVE  LET q == DisconnectEvents(p)
         IN  /\ q \in Pickers /\ SameAsked(p, q) /\ ~q.connected
             /\ q.saved = p.saved /\ q.equivalent = p.equivalent /\ q.ready = p.ready /\ q.hex = p.hex
BY DEF DisconnectEvents, Pickers, SameAsked

LEMMA ConnectFields ==
  ASSUME NEW p \in Pickers
  PROVE  LET q == ConnectEvents(p)
         IN  /\ q \in Pickers /\ SameAsked(p, q) /\ q.connected
             /\ q.saved = p.saved /\ q.equivalent = p.equivalent /\ q.ready = p.ready /\ q.hex = p.hex
BY DEF ConnectEvents, Pickers, SameAsked

LEMMA SpectrumFields ==
  ASSUME NEW p \in Pickers, NEW x \in HsvColors
  PROVE  LET q == SetSpectrum(p, x)
         IN  /\ q \in Pickers
             /\ q.color = p.color /\ q.saved = p.saved /\ q.equivalent = p.equivalent
             /\ q.connected = p.connected /\ q.ready = p.ready /\ q.hex = p.hex
             /\ ~p.connected => q.updated = p.updated
<1> DEFINE r == [p EXCEPT !.spectrum = x]
<1>1. /\ r \in Pickers /\ SameAsked(p, r)
      /\ r.saved = p.saved /\ r.equivalent = p.equivalent
      /\ r.connected = p.connected /\ r.ready = p.ready /\ r.hex = p.hex
  BY DEF Pickers, SameAsked
<1>2. SetSpectrum(p, x) \in {r, ScheduleColorUpdate(r, FromHSV(x), TRUE)}
      /\ (~p.connected => SetSpectrum(p, x) = r)
  BY DEF SetSpectrum
<1>3. FromHSV(x) \in RgbColors
  BY ColorTypes
<1>4. CASE SetSpectrum(p, x) = r
  BY <1>1, <1>4 DEF SameAsked
<1>5. CASE p.connected /\ SetSpectrum(p, x) = ScheduleColorUpdate(r, FromHSV(x), TRUE)
  <2> DEFINE s == ScheduleColorUpdate(r, FromHSV(x), TRUE)
  <2>1. /\ s \in Pickers
        /\ s.color = r.color /\ s.saved = r.saved /\ s.equivalent = r.equivalent
        /\ s.connected = r.connected /\ s.ready = r.ready /\ s.hex = r.hex
    BY <1>1, <1>3, ScheduleFields
  <2> HIDE DEF r, s
  <2> QED
    BY <1>1, <1>5, <2>1 DEF SameAsked, s
<1> HIDE DEF r
<1> QED
  BY <1>2, <1>4, <1>5

(* The colour, the saved HSV colour and what is asked for, after the       *)
(* controls have been brought up to date.                                  *)
Updated(p, q) ==
  /\ q \in Pickers /\ SameAsked(p, q) /\ SaveKept(p, q)
  /\ q.connected = p.connected /\ q.ready = p.ready
  /\ p.ready => q.hex = Opaque(p.color)
  /\ ~p.ready => q.hex = p.hex

LEMMA ControlFields ==
  ASSUME NEW p \in Pickers
  PROVE  Updated(p, UpdateColorControlValues(p))
<1> DEFINE d == DisconnectEvents(p)
           h == [d EXCEPT !.hex = Opaque(p.color)]
           x == IF p.fromSpectrum THEN p.spectrum ELSE ToHSV(p.color)
           q == SaveHsv(h, x)
           s == SetSpectrum(q, q.saved)
           r == IF p.fromSpectrum THEN q ELSE s
           u == IF p.connected THEN ConnectEvents(r) ELSE r
<1>1. UpdateColorControlValues(p) = IF ~p.ready THEN p ELSE u
  BY DEF UpdateColorControlValues
<1>2. /\ d \in Pickers /\ SameAsked(p, d) /\ ~d.connected
      /\ d.saved = p.saved /\ d.equivalent = p.equivalent /\ d.ready = p.ready
  BY DisconnectFields
<1>3. x \in HsvColors /\ Opaque(p.color) \in RgbColors
  BY ColorTypes DEF Pickers
<1> HIDE DEF d, x
<1>4. /\ h \in Pickers /\ SameAsked(p, h) /\ ~h.connected
      /\ h.saved = p.saved /\ h.equivalent = p.equivalent /\ h.ready = p.ready /\ h.hex = Opaque(p.color)
  BY <1>2, <1>3 DEF Pickers, SameAsked
<1> HIDE DEF h
<1>5. /\ q \in Pickers /\ SameAsked(h, q) /\ SaveKept(h, q) /\ q.saved # NoColor
      /\ q.connected = h.connected /\ q.ready = h.ready /\ q.hex = h.hex
  BY <1>3, <1>4, SaveFields
<1> HIDE DEF q
<1>6. q.saved \in HsvColors /\ ~q.connected
  BY <1>4, <1>5 DEF Pickers
<1>7. /\ s \in Pickers /\ SameAsked(q, s) /\ s.saved = q.saved /\ s.equivalent = q.equivalent
      /\ s.connected = q.connected /\ s.ready = q.ready /\ s.hex = q.hex
  BY <1>5, <1>6, SpectrumFields DEF SameAsked
<1> HIDE DEF s
<1>8. /\ r \in Pickers /\ SameAsked(q, r) /\ r.saved = q.saved /\ r.equivalent = q.equivalent
      /\ r.connected = q.connected /\ r.ready = q.ready /\ r.hex = q.hex
  <2>1. CASE p.fromSpectrum
    BY <1>5, <2>1 DEF SameAsked
  <2>2. CASE ~p.fromSpectrum
    BY <1>7, <2>2
  <2> QED
    BY <2>1, <2>2
<1> HIDE DEF r
<1>9. LET c == ConnectEvents(r)
      IN  /\ c \in Pickers /\ SameAsked(r, c) /\ c.connected /\ c.saved = r.saved /\ c.equivalent = r.equivalent
          /\ c.ready = r.ready /\ c.hex = r.hex
  BY <1>8, ConnectFields
<1>10. /\ u \in Pickers /\ SameAsked(r, u) /\ u.saved = r.saved /\ u.equivalent = r.equivalent
       /\ u.connected = p.connected /\ u.ready = r.ready /\ u.hex = r.hex
  <2>1. CASE p.connected
    BY <1>9, <2>1 DEF Pickers
  <2>2. CASE ~p.connected
    BY <1>4, <1>5, <1>8, <2>2 DEF SameAsked, Pickers
  <2> QED
    BY <2>1, <2>2
<1> HIDE DEF u
<1>11. u.ready = p.ready /\ u.hex = Opaque(p.color) /\ SameAsked(p, u) /\ SaveKept(p, u)
  BY <1>4, <1>5, <1>8, <1>10 DEF SameAsked, SaveKept
<1>12. CASE p.ready
  BY <1>1, <1>10, <1>11, <1>12 DEF Updated
<1>13. CASE ~p.ready
  BY <1>1, <1>13 DEF Updated, SameAsked, SaveKept
<1> QED
  BY <1>12, <1>13

LEMMA UpdateFields ==
  ASSUME NEW p \in Pickers
  PROVE  Updated(p, UpdateControls(p))
<1> DEFINE u == UpdateColorControlValues(p)
           x == ToHSV(u.color)
           s == SaveHsv(u, x)
<1>1. Updated(p, u)
  BY ControlFields
<1> HIDE DEF u
<1>2. x \in HsvColors
  BY <1>1, ColorTypes DEF Updated, Pickers
<1>3. UpdateControls(p) = IF u.ready THEN s ELSE u
  BY DEF UpdateControls, UpdateChannelSliderBackgrounds, u
<1> HIDE DEF x
<1>4. /\ s \in Pickers /\ SameAsked(u, s) /\ SaveKept(u, s)
      /\ s.connected = u.connected /\ s.ready = u.ready /\ s.hex = u.hex
  BY <1>1, <1>2, SaveFields DEF Updated
<1> HIDE DEF s
<1>5. Updated(p, s)
  BY <1>1, <1>4 DEF Updated, SameAsked, SaveKept
<1> QED
  BY <1>1, <1>3, <1>5

(* The colour becomes c: the saved HSV colour is forgotten unless it       *)
(* stands for c.                                                           *)
LEMMA SetColorFields ==
  ASSUME NEW p \in Pickers, NEW c \in RgbColors
  PROVE  LET q == SetColor(p, c)
         IN  /\ q \in Pickers /\ q.color = c /\ q.updated = p.updated
             /\ q.connected = p.connected /\ q.ready = p.ready
             /\ c = p.color \/ (p.saved # NoColor /\ c = p.equivalent) => (p.saved # NoColor => q.saved = p.saved)
             /\ (p.saved = NoColor <=> p.equivalent = NoColor) => (q.saved = NoColor <=> q.equivalent = NoColor)
             /\ p.ready /\ c # p.color => q.hex = Opaque(c)
             /\ c = p.color => q = p
<1>1. CASE c = p.color
  BY <1>1 DEF SetColor, Pickers
<1>2. CASE c # p.color
  <2> DEFINE s == [p EXCEPT !.color = c]
             f == IF s.saved # NoColor /\ s.color # s.equivalent THEN ForgetHsv(s) ELSE s
  <2>1. SetColor(p, c) = UpdateControls(f)
    BY <1>2 DEF SetColor, OnColorPropertyChanged
  <2>2. /\ s \in Pickers /\ s.color = c /\ s.updated = p.updated /\ s.connected = p.connected /\ s.ready = p.ready
        /\ s.saved = p.saved /\ s.equivalent = p.equivalent
    BY DEF Pickers
  <2> HIDE DEF s
  <2>3. LET g == ForgetHsv(s)
        IN  /\ g \in Pickers /\ g.color = c /\ g.updated = p.updated /\ g.connected = p.connected /\ g.ready = p.ready
            /\ g.saved = NoColor /\ g.equivalent = NoColor
    BY <2>2 DEF ForgetHsv, Pickers
  <2>4. /\ f \in Pickers /\ f.color = c /\ f.updated = p.updated /\ f.connected = p.connected /\ f.ready = p.ready
        /\ (f.saved = NoColor /\ f.equivalent = NoColor) \/ (f.saved = p.saved /\ f.equivalent = p.equivalent)
        /\ p.saved # NoColor /\ c = p.equivalent => f.saved = p.saved
    <3>1. CASE s.saved # NoColor /\ s.color # s.equivalent
      BY <2>2, <2>3, <3>1
    <3>2. CASE ~(s.saved # NoColor /\ s.color # s.equivalent)
      BY <2>2, <3>2
    <3> QED
      BY <3>1, <3>2
  <2> HIDE DEF f
  <2>5. Updated(f, UpdateControls(f))
    BY <2>4, UpdateFields
  <2> DEFINE u == UpdateControls(f)
  <2> HIDE DEF u
  <2>6. u \in Pickers /\ u.color = c /\ u.updated = p.updated /\ u.connected = p.connected /\ u.ready = p.ready
        /\ (p.ready => u.hex = Opaque(c))
    BY <2>4, <2>5 DEF Updated, SameAsked, u
  <2>7. p.saved # NoColor /\ c = p.equivalent => u.saved = p.saved
    BY <2>4, <2>5 DEF Updated, SaveKept, u
  <2>8. (p.saved = NoColor <=> p.equivalent = NoColor) => (u.saved = NoColor <=> u.equivalent = NoColor)
    BY <2>4, <2>5, ColorTypes DEF Updated, SaveKept, Pickers, u
  <2> QED
    BY <1>2, <2>1, <2>6, <2>7, <2>8 DEF u
<1> QED
  BY <1>1, <1>2

(* What every step keeps, and what it must not do to what the user has     *)
(* arrived at and asked for.                                               *)
Sound(p) ==
  /\ p \in Pickers
  /\ p.connected = p.ready
  /\ p.saved = NoColor <=> p.equivalent = NoColor
  /\ p.ready => p.hex \in {p.color, Opaque(p.color)}
  /\ p.updated # NoColor => p.ready
HsvStays(p, q) == p.saved = NoColor \/ q.saved = p.saved \/ q.color \notin {p.color, p.equivalent}
AskedStays(p, q) == q.updated = p.updated \/ (q.updated = NoColor /\ q.color = p.updated)

LEMMA UpdatedIsSound ==
  ASSUME NEW p, NEW q, Sound(p), Updated(p, q)
  PROVE  Sound(q) /\ HsvStays(p, q) /\ AskedStays(p, q)
<1>1. q \in Pickers /\ p \in Pickers /\ q.connected = q.ready /\ q.ready = p.ready
  BY DEF Sound, Updated
<1>2. q.ready => q.hex \in {q.color, Opaque(q.color)}
  BY DEF Sound, Updated, SameAsked
<1>3. q.saved = NoColor <=> q.equivalent = NoColor
  BY <1>1, ColorTypes DEF Sound, Updated, SaveKept, Pickers
<1>4. (q.updated # NoColor => q.ready) /\ AskedStays(p, q)
  BY DEF Sound, Updated, SameAsked, AskedStays
<1>5. HsvStays(p, q)
  BY DEF Updated, SaveKept, HsvStays
<1> QED
  BY <1>1, <1>2, <1>3, <1>4, <1>5 DEF Sound

LEMMA ScheduledIsSound ==
  ASSUME NEW p, Sound(p), p.connected, NEW c \in RgbColors, NEW b \in BOOLEAN
  PROVE  LET q == ScheduleColorUpdate(p, c, b) IN Sound(q) /\ HsvStays(p, q)
<1> DEFINE q == ScheduleColorUpdate(p, c, b)
<1>1. /\ q \in Pickers
      /\ q.color = p.color /\ q.saved = p.saved /\ q.equivalent = p.equivalent
      /\ q.connected = p.connected /\ q.ready = p.ready /\ q.hex = p.hex
  BY ScheduleFields DEF Sound
<1> HIDE DEF q
<1>2. p.ready
  BY DEF Sound
<1>3. Sound(q)
  BY <1>1, <1>2 DEF Sound
<1> QED
  BY <1>1, <1>3 DEF HsvStays, q

(* Setting the colour, with what the hexadecimal box holds then. *)
LEMMA SetIsSound ==
  ASSUME NEW p, p \in Pickers, p.connected = p.ready, p.saved = NoColor <=> p.equivalent = NoColor,
         p.updated # NoColor => p.ready, NEW c \in RgbColors,
         p.ready /\ c = p.color => p.hex \in {c, Opaque(c)}
  PROVE  LET q == SetColor(p, c)
         IN  Sound(q) /\ HsvStays(p, q) /\ q.updated = p.updated /\ q.color = c
<1> DEFINE q == SetColor(p, c)
<1>1. /\ q \in Pickers /\ q.color = c /\ q.updated = p.updated
      /\ q.connected = p.connected /\ q.ready = p.ready
      /\ c = p.color \/ (p.saved # NoColor /\ c = p.equivalent) => (p.saved # NoColor => q.saved = p.saved)
      /\ q.saved = NoColor <=> q.equivalent = NoColor
      /\ p.ready /\ c # p.color => q.hex = Opaque(c)
      /\ c = p.color => q = p
  BY SetColorFields
<1> HIDE DEF q
<1>2. q.ready => q.hex \in {q.color, Opaque(q.color)}
  BY <1>1
<1>3. Sound(q)
  BY <1>1, <1>2 DEF Sound
<1>4. HsvStays(p, q)
  BY <1>1 DEF HsvStays
<1> QED
  BY <1>1, <1>3, <1>4 DEF q

LEMMA TemplateIsSound ==
  ASSUME Sound(picker), OnApplyTemplate
  PROVE  Sound(picker') /\ HsvStays(picker, picker') /\ AskedStays(picker, picker')
<1> DEFINE d == DisconnectEvents(picker)
           parts == [d EXCEPT !.hex = NoColor, !.spectrum = ToHSV(White)]
           rgba == SetActiveColorRepresentation(parts, FALSE)
           r == [rgba EXCEPT !.ready = TRUE]
           u == UpdateColorControlValues(r)
           c == ConnectEvents(u)
<1>1. picker' = c
  BY DEF OnApplyTemplate
<1>2. /\ d \in Pickers /\ SameAsked(picker, d) /\ d.saved = picker.saved /\ d.equivalent = picker.equivalent
  BY DisconnectFields DEF Sound
<1> HIDE DEF d
<1>3. ToHSV(White) \in HsvColors
  BY ColorTypes
<1>4. r \in Pickers /\ SameAsked(picker, r) /\ r.saved = picker.saved /\ r.equivalent = picker.equivalent /\ r.ready
  BY <1>2, <1>3 DEF Pickers, SameAsked, SetActiveColorRepresentation
<1> HIDE DEF r
<1>5. Updated(r, u)
  BY <1>4, ControlFields
<1> HIDE DEF u
<1>6. /\ c \in Pickers /\ SameAsked(u, c) /\ c.connected
      /\ c.saved = u.saved /\ c.equivalent = u.equivalent /\ c.ready = u.ready /\ c.hex = u.hex
  BY <1>5, ConnectFields DEF Updated
<1> HIDE DEF c
<1>7. c.ready /\ c.connected = c.ready
  BY <1>4, <1>5, <1>6 DEF Updated, Pickers
<1>8. c.color = picker.color /\ c.updated = picker.updated /\ c.hex = Opaque(c.color)
  BY <1>4, <1>5, <1>6 DEF Updated, SameAsked
<1>9. (c.saved = NoColor <=> c.equivalent = NoColor) /\ HsvStays(picker, c)
  BY <1>4, <1>5, <1>6, ColorTypes DEF Updated, SaveKept, Pickers, Sound, HsvStays
<1> QED
  BY <1>1, <1>6, <1>7, <1>8, <1>9 DEF Sound, AskedStays

LEMMA TickIsSound ==
  ASSUME Sound(picker), Tick
  PROVE  Sound(picker') /\ HsvStays(picker, picker') /\ AskedStays(picker, picker')
<1> DEFINE c == picker.updated
           p == [picker EXCEPT !.updated = NoColor]
           d == DisconnectEvents(p)
           e == [d EXCEPT !.fromSpectrum = p.fromSpectrum]
           s == SetColor(e, c)
           n == ConnectEvents(s)
           q == IF c = p.color THEN p ELSE n
           r == [q EXCEPT !.fromSpectrum = FALSE]
<1>1. picker' = r
  BY DEF Tick, UpdateColorRightNow
<1>2. picker \in Pickers /\ c \in RgbColors /\ picker.ready
  BY DEF Tick, Sound, Pickers
<1> HIDE DEF c
<1>3. /\ p \in Pickers /\ p.updated = NoColor /\ p.color = picker.color /\ p.saved = picker.saved
      /\ p.equivalent = picker.equivalent /\ p.ready /\ p.connected /\ p.hex = picker.hex
  BY <1>2 DEF Pickers, Sound
<1> HIDE DEF p
<1>4. /\ d \in Pickers /\ d.updated = NoColor /\ d.color = picker.color
      /\ d.saved = picker.saved /\ d.equivalent = picker.equivalent /\ d.ready
  BY <1>3, DisconnectFields DEF SameAsked, Pickers
<1> HIDE DEF d
<1>5. /\ e \in Pickers /\ e.updated = NoColor /\ e.color = picker.color
      /\ e.saved = picker.saved /\ e.equivalent = picker.equivalent /\ e.ready
  BY <1>3, <1>4 DEF Pickers
<1> HIDE DEF e
<1>6. /\ s \in Pickers /\ s.color = c /\ s.updated = NoColor /\ s.ready
      /\ c = e.color \/ (e.saved # NoColor /\ c = e.equivalent) => (e.saved # NoColor => s.saved = e.saved)
      /\ s.saved = NoColor <=> s.equivalent = NoColor
      /\ c # e.color => s.hex = Opaque(c)
  BY <1>2, <1>5, SetColorFields DEF Sound, Pickers
<1> HIDE DEF s
<1>7. /\ n \in Pickers /\ n.color = c /\ n.updated = NoColor /\ n.ready /\ n.connected
      /\ n.saved = s.saved /\ n.equivalent = s.equivalent /\ n.hex = s.hex
  BY <1>6, ConnectFields DEF SameAsked, Pickers
<1> HIDE DEF n
<1>8. /\ q \in Pickers /\ q.color = c /\ q.updated = NoColor /\ q.ready /\ q.connected
      /\ (q.saved = NoColor <=> q.equivalent = NoColor) /\ q.hex \in {c, Opaque(c)}
      /\ HsvStays(picker, q)
  <2>1. CASE c = p.color
    BY <1>2, <1>3, <2>1 DEF Sound, HsvStays
  <2>2. CASE c # p.color
    BY <1>2, <1>3, <1>5, <1>6, <1>7, <2>2 DEF HsvStays
  <2> QED
    BY <2>1, <2>2
<1> HIDE DEF q
<1>9. /\ r \in Pickers /\ r.color = c /\ r.updated = NoColor /\ r.ready /\ r.connected
      /\ r.saved = q.saved /\ r.equivalent = q.equivalent /\ r.hex = q.hex
  BY <1>8 DEF Pickers
<1> HIDE DEF r
<1>10. Sound(r) /\ HsvStays(picker, r)
  BY <1>8, <1>9 DEF Sound, HsvStays
<1> QED
  BY <1>1, <1>9, <1>10 DEF AskedStays, c

LEMMA UserIsSound ==
  ASSUME Sound(picker), UserAsks
  PROVE  Sound(picker') /\ (HsvStays(picker, picker') \/ ChannelEdited)
<1>1. picker \in Pickers /\ picker.ready /\ picker.connected
  BY DEF Sound, UserAsks, ChannelEdited, SpectrumGotFocus, SpectrumPicked, PreviewPressed
<1>2. CASE ChannelEdited
  <2>1. ASSUME NEW x \in HsvColors, picker' = SetHsvChannel(picker, x) PROVE Sound(picker')
    <3> DEFINE s == [picker EXCEPT !.saved = x, !.equivalent = FromHSV(x)]
    <3>1. FromHSV(x) \in RgbColors
      BY ColorTypes
    <3>2. /\ s \in Pickers /\ s.connected = picker.connected /\ s.ready = picker.ready /\ s.hex = picker.hex
          /\ s.color = picker.color /\ s.updated = picker.updated /\ s.saved = x /\ s.equivalent = FromHSV(x)
      BY <1>1, <3>1 DEF Pickers
    <3> HIDE DEF s
    <3>3. Sound(s)
      BY <1>1, <3>1, <3>2, ColorTypes DEF Sound
    <3> QED
      BY <1>1, <2>1, <3>1, <3>2, <3>3, ScheduledIsSound DEF SetHsvChannel, s
  <2>2. ASSUME NEW c \in RgbColors, picker' = SetRgbChannel(picker, c) PROVE Sound(picker')
    <3> DEFINE s == ForgetHsv(picker)
    <3>1. /\ s \in Pickers /\ s.connected = picker.connected /\ s.ready = picker.ready /\ s.hex = picker.hex
          /\ s.color = picker.color /\ s.updated = picker.updated /\ s.saved = NoColor /\ s.equivalent = NoColor
      BY <1>1 DEF Pickers, ForgetHsv
    <3> HIDE DEF s
    <3>2. Sound(s)
      BY <1>1, <3>1 DEF Sound
    <3> QED
      BY <1>1, <2>2, <3>1, <3>2, ScheduledIsSound DEF SetRgbChannel, s
  <2>3. HsvOf(picker) \in HsvColors /\ picker.color \in RgbColors
    BY <1>1, ColorTypes DEF HsvOf, Pickers
  <2>4. \A x \in HsvColors : HsvEdits(x) \subseteq HsvColors
    BY DEF HsvEdits, HsvColors
  <2>5. \A c \in RgbColors : RgbEdits(c) \subseteq RgbColors
    BY DEF RgbEdits, RgbColors
  <2> QED
    BY <1>2, <2>1, <2>2, <2>3, <2>4, <2>5 DEF ChannelEdited
<1>3. ASSUME NEW x \in HsvColors, SpectrumPicked(x) PROVE Sound(picker') /\ HsvStays(picker, picker')
  <2> DEFINE s == SetSpectrum(picker, x)
  <2>1. /\ s \in Pickers
        /\ s.color = picker.color /\ s.saved = picker.saved /\ s.equivalent = picker.equivalent
        /\ s.connected = picker.connected /\ s.ready = picker.ready /\ s.hex = picker.hex
    BY <1>1, SpectrumFields
  <2>2. picker' = s
    BY <1>3 DEF SpectrumPicked
  <2> HIDE DEF s
  <2> QED
    BY <1>1, <2>1, <2>2 DEF Sound, HsvStays
<1>4. CASE SpectrumGotFocus
  <2> DEFINE c == FromHSV(picker.spectrum)
  <2>1. c \in RgbColors /\ White \in RgbColors
    BY <1>1, ColorTypes DEF Pickers
  <2>2. \/ picker' = ScheduleColorUpdate(picker, White, FALSE)
        \/ picker' = ScheduleColorUpdate(picker, [c EXCEPT !.a = 1], FALSE)
        \/ picker' = picker
    BY <1>4 DEF SpectrumGotFocus
  <2> HIDE DEF c
  <2>3. [c EXCEPT !.a = 1] \in RgbColors
    BY <2>1 DEF RgbColors, Bit
  <2> QED
    BY <1>1, <2>1, <2>2, <2>3, ScheduledIsSound DEF HsvStays
<1>5. ASSUME NEW c \in RgbColors, PreviewPressed(c) PROVE Sound(picker') /\ HsvStays(picker, picker')
  BY <1>1, <1>5, ScheduledIsSound DEF PreviewPressed
<1> QED
  BY <1>2, <1>3, <1>4, <1>5 DEF UserAsks

LEMMA HexIsSound ==
  ASSUME Sound(picker), NEW text \in RgbColors \cup {NotAColor}, HexEntered(text)
  PROVE  Sound(picker') /\ HsvStays(picker, picker') /\ AskedStays(picker, picker')
<1>1. picker \in Pickers /\ picker.ready /\ picker.connected
  BY DEF Sound, HexEntered
<1>2. CASE text = NotAColor
  BY <1>1, <1>2, UpdateFields, UpdatedIsSound DEF HexEntered
<1>3. CASE text # NotAColor
  <2> DEFINE s == [[picker EXCEPT !.hex = text] EXCEPT !.fromSpectrum = FALSE]
  <2>1. picker' = SetColor(s, text) /\ text \in RgbColors
    BY <1>3 DEF HexEntered, UpdateColorRightNow
  <2>2. /\ s \in Pickers /\ s.connected = picker.connected /\ s.ready = picker.ready /\ s.hex = text
        /\ s.saved = picker.saved /\ s.equivalent = picker.equivalent /\ s.color = picker.color
        /\ s.updated = picker.updated
    BY <1>1, <2>1 DEF Pickers
  <2> HIDE DEF s
  <2> DEFINE q == SetColor(s, text)
  <2>3. s.connected = s.ready /\ (s.saved = NoColor <=> s.equivalent = NoColor) /\ s.ready
    BY <1>1, <2>2 DEF Sound
  <2>4. Sound(q) /\ HsvStays(s, q) /\ q.updated = s.updated /\ q.color = text
    BY <2>1, <2>2, <2>3, SetIsSound
  <2> HIDE DEF q
  <2> QED
    BY <2>1, <2>2, <2>4 DEF HsvStays, AskedStays, q
<1> QED
  BY <1>2, <1>3

LEMMA PickerStep ==
  ASSUME Sound(picker), PickerNext
  PROVE  /\ Sound(picker')
         /\ HsvStays(picker, picker') \/ ChannelEdited
         /\ AskedStays(picker, picker') \/ UserAsks
<1>1. picker \in Pickers
  BY DEF Sound
<1>2. ASSUME NEW c \in RgbColors, ColorIsSet(c)
      PROVE  Sound(picker') /\ HsvStays(picker, picker') /\ AskedStays(picker, picker')
  <2> DEFINE q == SetColor(picker, c)
  <2>1. Sound(q) /\ HsvStays(picker, q) /\ q.updated = picker.updated
    BY <1>1, SetIsSound DEF Sound
  <2> HIDE DEF q
  <2> QED
    BY <1>2, <2>1 DEF ColorIsSet, AskedStays, q
<1>3. CASE ChannelTextIsWrong
  BY <1>1, <1>3, UpdateFields, UpdatedIsSound DEF ChannelTextIsWrong
<1>4. CASE RepresentationToggled
  <2> DEFINE s == SetActiveColorRepresentation(picker, ~picker.hsva)
  <2>1. /\ s \in Pickers /\ s.color = picker.color /\ s.updated = picker.updated /\ s.saved = picker.saved
        /\ s.equivalent = picker.equivalent /\ s.connected = picker.connected /\ s.ready = picker.ready /\ s.hex = picker.hex
    BY <1>1 DEF SetActiveColorRepresentation, Pickers
  <2>2. picker' = UpdateControls(s)
    BY <1>4 DEF RepresentationToggled
  <2> HIDE DEF s
  <2>3. Sound(s)
    BY <2>1 DEF Sound
  <2>4. Sound(picker') /\ HsvStays(s, picker') /\ AskedStays(s, picker')
    BY <2>1, <2>2, <2>3, UpdateFields, UpdatedIsSound
  <2> QED
    BY <2>1, <2>4 DEF HsvStays, AskedStays
<1>5. CASE SliderLoaded
  <2> DEFINE x == ToHSV(picker.color)
             s == SaveHsv(picker, x)
  <2>1. x \in HsvColors /\ picker.ready
    BY <1>1, <1>5, ColorTypes DEF Pickers, SliderLoaded, Sound
  <2> HIDE DEF x
  <2>2. /\ s \in Pickers /\ SameAsked(picker, s) /\ SaveKept(picker, s) /\ s.saved # NoColor
        /\ s.connected = picker.connected /\ s.ready = picker.ready /\ s.hex = picker.hex
    BY <1>1, <2>1, SaveFields
  <2>3. picker' = s
    BY <1>5, <2>1 DEF SliderLoaded, UpdateChannelSliderBackgrounds, x
  <2> HIDE DEF s
  <2>4. s.equivalent # NoColor
    BY <1>1, <2>2, ColorTypes DEF SaveKept, Sound, Pickers
  <2>5. Sound(s)
    BY <2>2, <2>4 DEF SameAsked, Sound
  <2> QED
    BY <2>2, <2>3, <2>5 DEF HsvStays, AskedStays, SaveKept, SameAsked
<1> QED
  BY <1>2, <1>3, <1>4, <1>5, TemplateIsSound, UserIsSound, HexIsSound, TickIsSound DEF PickerNext

LEMMA PickerIsSound == PickerSpec => []Sound(picker)
<1>1. PickerInit => Sound(picker)
  <2> SUFFICES ASSUME PickerInit PROVE Sound(picker)
    OBVIOUS
  <2>1. White \in RgbColors /\ ToHSV(White) \in HsvColors
    BY ColorTypes
  <2> QED
    BY <2>1 DEF PickerInit, Sound, Pickers
<1>2. Sound(picker) /\ [PickerNext]_picker => Sound(picker)'
  <2>1. CASE PickerNext
    BY <2>1, PickerStep
  <2>2. CASE UNCHANGED picker
    BY <2>2 DEF Sound
  <2> QED
    BY <2>1, <2>2
<1> QED
  BY <1>1, <1>2, PTL DEF PickerSpec

(* Everything has its type; between steps the events of a control that has *)
(* its template are connected, however the updates that disconnect them    *)
(* are nested; and what the hexadecimal box holds is the colour.           *)
THEOREM PickerIsTyped == PickerSpec => []PickerTypeOK
<1>1. Sound(picker) => PickerTypeOK
  BY DEF Sound, Pickers, PickerTypeOK
<1> QED
  BY <1>1, PickerIsSound, PTL

(* The HSV colour the user has arrived at is kept until the user edits a   *)
(* channel or the colour becomes another one than it stands for.           *)
THEOREM HsvStaysAsEdited == PickerSpec => HsvIsKept
<1>1. Sound(picker) /\ [PickerNext]_picker =>
        [\/ picker.saved = NoColor \/ picker'.saved = picker.saved
         \/ picker'.color \notin {picker.color, picker.equivalent}
         \/ ChannelEdited]_picker
  BY PickerStep DEF HsvStays
<1> QED
  BY <1>1, PickerIsSound, PTL DEF PickerSpec, HsvIsKept

(* A colour is asked for by the user and by nothing else, and it stays     *)
(* asked for until it is the colour or the user has asked for another one. *)
THEOREM AskedIsApplied == PickerSpec => WhatIsAskedIsApplied
<1>1. Sound(picker) /\ [PickerNext]_picker =>
        [\/ picker'.updated = picker.updated
         \/ picker'.updated = NoColor /\ picker'.color = picker.updated
         \/ UserAsks]_picker
  BY PickerStep DEF AskedStays
<1> QED
  BY <1>1, PickerIsSound, PTL DEF PickerSpec, WhatIsAskedIsApplied
=============================================================================
