------------------------------- MODULE ColorPicker -------------------------------
(***************************************************************************)
(* The colour picker of the program.  Sliders, text boxes, the spectrum    *)
(* and the previews ask for a colour, and a timer applies the last one     *)
(* asked for 30 ms later at most; the hexadecimal box and the palette set  *)
(* it at once.  Next to the colour, an RGB one, an HSV colour is saved, so *)
(* that the hue of a black survives while the user edits in HSV.           *)
(*                                                                         *)
(* All runs on one thread, so that an event of a control is a step; but    *)
(* setting a control raises its event in the middle of a step, unless the  *)
(* events are disconnected.                                                *)
(*                                                                         *)
(* A channel has two values, and green and saturation are left out: what   *)
(* matters is that black has no hue.  The brightest colour is called white. *)
(***************************************************************************)
EXTENDS Naturals

CONSTANTS
  IsAlphaEnabled,   \* the property of the control
  NoColor,          \* no value
  NotAColor         \* a text that is no colour

Bit == {0, 1}
Hues == {"red", "magenta", "blue"}
RgbColors == [r : Bit, b : Bit, a : Bit]
HsvColors == [h : Hues, v : Bit, a : Bit]

ASSUME PickerAssumption ==
  /\ IsAlphaEnabled \in BOOLEAN
  /\ NoColor # NotAColor /\ {NoColor, NotAColor} \cap (RgbColors \cup HsvColors) = {}

VARIABLE picker   \* what the control and its template hold, a record

Empty == [r |-> 0, b |-> 0, a |-> 0]
White == [r |-> 1, b |-> 1, a |-> 1]

(* Util::Color::ToHSV and FromHSV. *)
ToHSV(c) ==
  [h |-> IF c.b = 0 THEN "red" ELSE IF c.r = 0 THEN "blue" ELSE "magenta",
   v |-> IF c.r = 0 /\ c.b = 0 THEN 0 ELSE 1,
   a |-> c.a]

FromHSV(x) ==
  [r |-> IF x.h = "blue" THEN 0 ELSE x.v, b |-> IF x.h = "red" THEN 0 ELSE x.v, a |-> x.a]

-----------------------------------------------------------------------------
(* What the members of ColorPicker do to the record.                       *)

ConnectEvents(p) == [p EXCEPT !.connected = TRUE]
DisconnectEvents(p) == [p EXCEPT !.connected = FALSE]

(* Without alpha the hexadecimal box shows none, and reads as opaque. *)
Opaque(c) == IF IsAlphaEnabled THEN c ELSE [c EXCEPT !.a = 1]

ScheduleColorUpdate(p, c, isFromSpectrum) ==
  [p EXCEPT !.updated = Opaque(c), !.fromSpectrum = isFromSpectrum]

(* Setting the spectrum raises its ColorChanged when the colour is another *)
(* one.                                                                    *)
SetSpectrum(p, x) ==
  LET q == [p EXCEPT !.spectrum = x]
  IN  IF p.connected /\ FromHSV(x) # FromHSV(p.spectrum)
      THEN ScheduleColorUpdate(q, FromHSV(x), TRUE)
      ELSE q

(* The saved HSV colour is made up from the spectrum or from the colour.   *)
SaveHsv(p, hsv) ==
  IF p.saved # NoColor THEN p ELSE [p EXCEPT !.saved = hsv, !.equivalent = p.color]

ForgetHsv(p) == [p EXCEPT !.saved = NoColor, !.equivalent = NoColor]

(* Slip: the events are left connected. *)
UpdateConnected(p) ==
  LET q == SaveHsv([p EXCEPT !.hex = Opaque(p.color)],
                   IF p.fromSpectrum THEN p.spectrum ELSE ToHSV(p.color))
  IN  IF ~p.ready THEN p ELSE IF p.fromSpectrum THEN q ELSE SetSpectrum(q, q.saved)

UpdateColorControlValues(p) ==
  LET q == SaveHsv([DisconnectEvents(p) EXCEPT !.hex = Opaque(p.color)],
                   IF p.fromSpectrum THEN p.spectrum ELSE ToHSV(p.color))
      r == IF p.fromSpectrum THEN q ELSE SetSpectrum(q, q.saved)
  IN  IF ~p.ready THEN p ELSE IF p.connected THEN ConnectEvents(r) ELSE r

UpdateChannelSliderBackgrounds(p) == IF p.ready THEN SaveHsv(p, ToHSV(p.color)) ELSE p

UpdateControls(p) == UpdateChannelSliderBackgrounds(UpdateColorControlValues(p))

(* Slip: the HSV colour is forgotten whoever changed the colour. *)
ForgetAlways(p) == UpdateControls(ForgetHsv(p))

OnColorPropertyChanged(p) ==
  UpdateControls(IF p.saved # NoColor /\ p.color # p.equivalent THEN ForgetHsv(p) ELSE p)

SetColor(p, c) == IF c = p.color THEN p ELSE OnColorPropertyChanged([p EXCEPT !.color = c])

UpdateColorRightNow(p, c, isFromSpectrum) ==
  SetColor([p EXCEPT !.fromSpectrum = isFromSpectrum], c)

SetActiveColorRepresentation(p, hsva) == [p EXCEPT !.hsva = hsva]

(* The values a channel can be given: those of the sliders, of the text    *)
(* boxes, and of an empty text box.                                        *)
RgbEdits(c) == {[c EXCEPT !.r = n] : n \in Bit} \cup {[c EXCEPT !.b = n] : n \in Bit}
               \cup {[c EXCEPT !.a = n] : n \in Bit}
HsvEdits(x) == {[x EXCEPT !.h = h] : h \in Hues} \cup {[x EXCEPT !.v = n] : n \in Bit}
               \cup {[x EXCEPT !.a = n] : n \in Bit}

(* SetColorChannel, in either representation: from the saved HSV colour,   *)
(* or from the colour.                                                     *)
SetHsvChannel(p, x) ==
  ScheduleColorUpdate([p EXCEPT !.saved = x, !.equivalent = FromHSV(x)], FromHSV(x), FALSE)
SetRgbChannel(p, c) == ScheduleColorUpdate(ForgetHsv(p), c, FALSE)

HsvOf(p) == IF p.saved = NoColor THEN ToHSV(p.color) ELSE p.saved

-----------------------------------------------------------------------------
(* The steps.                                                              *)

PickerInit ==
  /\ picker = [color |-> White, saved |-> NoColor, equivalent |-> NoColor,
               updated |-> NoColor, fromSpectrum |-> FALSE,
               connected |-> FALSE, ready |-> FALSE, hsva |-> FALSE,
               hex |-> NoColor, spectrum |-> ToHSV(White)]

(* XAML gives the control its template, and may give it another. *)
OnApplyTemplate ==
  /\ picker' =
       LET parts == [DisconnectEvents(picker) EXCEPT !.hex = NoColor, !.spectrum = ToHSV(White)]
           rgba == SetActiveColorRepresentation(parts, FALSE)
       IN  ConnectEvents(UpdateColorControlValues([rgba EXCEPT !.ready = TRUE]))

(* The page sets the original colour, and the palette is bound to it. *)
ColorIsSet(c) == picker' = SetColor(picker, c)

(* A channel slider, a channel text box entered or left, or one of the two *)
(* sliders of the spectrum, which are always HSV.                          *)
ChannelEdited ==
  /\ picker.connected
  /\ \/ \E x \in HsvEdits(HsvOf(picker)) : picker' = SetHsvChannel(picker, x)
     \/ ~picker.hsva /\ \E c \in RgbEdits(picker.color) : picker' = SetRgbChannel(picker, c)

(* Its text is not a number. *)
ChannelTextIsWrong ==
  /\ picker.connected
  /\ picker' = UpdateControls(picker)

(* Enter in the hexadecimal box, or its loss of the focus, with what the   *)
(* user typed or with what it held.  Slip: a text that is no colour stays  *)
(* in it.                                                                  *)
WrongTextStays(text) ==
  /\ picker.connected
  /\ picker' = IF text = NotAColor THEN [picker EXCEPT !.hex = text]
               ELSE UpdateColorRightNow([picker EXCEPT !.hex = text], text, FALSE)

HexEntered(text) ==
  /\ picker.connected
  /\ picker' = IF text = NotAColor THEN UpdateControls(picker)
               ELSE UpdateColorRightNow([picker EXCEPT !.hex = text], text, FALSE)

(* The user picks in the spectrum, which has no alpha and does not move    *)
(* while its colour is empty (the bug that OnColorSpectrumControlGotFocus  *)
(* describes).                                                             *)
SpectrumPicked(x) ==
  /\ picker.connected
  /\ x.a = picker.spectrum.a /\ FromHSV(picker.spectrum) \notin {Empty, FromHSV(x)}
  /\ picker' = SetSpectrum(picker, x)

SpectrumGotFocus ==
  /\ picker.connected
  /\ LET c == FromHSV(picker.spectrum)
     IN  picker' = IF c = Empty THEN ScheduleColorUpdate(picker, White, FALSE)
                   ELSE IF c.a = 0 THEN ScheduleColorUpdate(picker, [c EXCEPT !.a = 1], FALSE)
                   ELSE picker

RepresentationToggled ==
  /\ picker.connected
  /\ picker' = UpdateControls(SetActiveColorRepresentation(picker, ~picker.hsva))

PreviewPressed(c) ==
  /\ picker.connected
  /\ picker' = ScheduleColorUpdate(picker, c, FALSE)

SliderLoaded ==
  /\ picker.connected
  /\ picker' = UpdateChannelSliderBackgrounds(picker)

(* OnDispatcherQueueTimerTick.  Slip: what is asked for is compared with   *)
(* the colour that the HSV colour stands for.                              *)
TickComparesEquivalent ==
  /\ picker.updated # NoColor
  /\ LET c == picker.updated
         p == [picker EXCEPT !.updated = NoColor]
         q == IF c = p.equivalent THEN p
              ELSE ConnectEvents(UpdateColorRightNow(DisconnectEvents(p), c, p.fromSpectrum))
     IN  picker' = [q EXCEPT !.fromSpectrum = FALSE]

Tick ==
  /\ picker.updated # NoColor
  /\ LET c == picker.updated
         p == [picker EXCEPT !.updated = NoColor]
         q == IF c = p.color THEN p
              ELSE ConnectEvents(UpdateColorRightNow(DisconnectEvents(p), c, p.fromSpectrum))
     IN  picker' = [q EXCEPT !.fromSpectrum = FALSE]

UserAsks ==
  \/ ChannelEdited \/ SpectrumGotFocus
  \/ \E x \in HsvColors : SpectrumPicked(x)
  \/ \E c \in RgbColors : PreviewPressed(c)

PickerNext ==
  \/ OnApplyTemplate
  \/ UserAsks
  \/ \E c \in RgbColors : ColorIsSet(c)
  \/ \E text \in RgbColors \cup {NotAColor} : HexEntered(text)
  \/ ChannelTextIsWrong \/ RepresentationToggled \/ SliderLoaded
  \/ Tick

PickerSpec == PickerInit /\ [][PickerNext]_picker

-----------------------------------------------------------------------------
(* Everything has its type; between steps the events of a control that has *)
(* its template are connected, however the updates that disconnect them    *)
(* are nested; and what the hexadecimal box holds is the colour, whatever  *)
(* was typed there.                                                        *)
PickerTypeOK ==
  /\ picker \in [color : RgbColors, saved : HsvColors \cup {NoColor},
                 equivalent : RgbColors \cup {NoColor},
                 updated : RgbColors \cup {NoColor}, fromSpectrum : BOOLEAN,
                 connected : BOOLEAN, ready : BOOLEAN, hsva : BOOLEAN,
                 hex : RgbColors \cup {NoColor}, spectrum : HsvColors]
  /\ picker.connected = picker.ready
  /\ picker.saved = NoColor <=> picker.equivalent = NoColor
  /\ picker.ready => picker.hex \in {picker.color, Opaque(picker.color)}

(* The HSV colour the user has arrived at is kept until the user edits a   *)
(* channel or the colour becomes another one than it stands for: applying  *)
(* it, changing the representation or entering a wrong text do not make it *)
(* again from the colour, which has no hue when it is black                *)
(* (ColorPicker.cpp:871, 978).                                             *)
HsvIsKept ==
  [][\/ picker.saved = NoColor \/ picker'.saved = picker.saved
     \/ picker'.color \notin {picker.color, picker.equivalent}
     \/ ChannelEdited]_picker

(* A colour is asked for by the user and by nothing else, for the controls *)
(* that the picker sets do not ask for it again; and it stays asked for    *)
(* until it is the colour or the user has asked for another one            *)
(* (ColorPicker.cpp:724, 729).                                             *)
WhatIsAskedIsApplied ==
  [][\/ picker'.updated = picker.updated
     \/ picker'.updated = NoColor /\ picker'.color = picker.updated
     \/ UserAsks]_picker
=============================================================================
