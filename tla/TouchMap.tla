------------------------------ MODULE TouchMap ------------------------------
(***************************************************************************)
(* Where the controls are.  Four places of the source know it, each with   *)
(* coordinates of its own: the drawing (paperboy_ui.cpp and                *)
(* paperboy_landscape.cpp), the meaning of a touch (the same files), the   *)
(* rows of the panel sent for a highlight (paperboy_touch_dirty.h), and    *)
(* the rotations between picture and panel (main.cpp,                      *)
(* paperboy_orientation.cpp).                                              *)
(*                                                                         *)
(* A point is [x, y] in pixels.  The touch screen reports points of the    *)
(* upright picture, 540 by 960, whichever way the picture is turned; the   *)
(* panel is 960 by 540.                                                    *)
(***************************************************************************)
EXTENDS Integers

Orientations == {"portrait", "landscape", "reverse"}
NextOrientation(o) ==
  CASE o = "portrait" -> "landscape" [] o = "landscape" -> "reverse" [] o = "reverse" -> "portrait"

At(x, y) == [x |-> x, y |-> y]
Rect(x, y, width, height) == [x |-> x, y |-> y, width |-> width, height |-> height]
InRect(p, r) == p.x \in r.x .. (r.x + r.width - 1) /\ p.y \in r.y .. (r.y + r.height - 1)
InCircle(p, c, radius) ==
  (p.x - c.x) * (p.x - c.x) + (p.y - c.y) * (p.y - c.y) <= radius * radius

\* The point of the turned picture that lies under a touch.
LandscapeTouch(p, o) ==
  IF o = "reverse" THEN At(959 - p.y, 539 - (539 - p.x)) ELSE At(p.y, 539 - p.x)

\* The point of the panel that shows a point of the picture.
PanelPoint(p, o) ==
  CASE o = "portrait"  -> At(p.y, 539 - p.x)
    [] o = "landscape" -> p
    [] o = "reverse"   -> At(959 - p.x, 539 - p.y)

-----------------------------------------------------------------------------
(* What a touch means. *)

Directions(p, c) ==
  {key \in {"up", "down", "left", "right"} :
     \/ key = "left"  /\ p.x - c.x < -22
     \/ key = "right" /\ p.x - c.x > 22
     \/ key = "up"    /\ p.y - c.y < -22
     \/ key = "down"  /\ p.y - c.y > 22}

Layout(o) ==
  IF o = "portrait"
  THEN [dpad |-> At(142, 702), reach |-> 116, a |-> At(438, 646), b |-> At(354, 720),
        radius |-> 40 + 12,
        select |-> Rect(160, 842, 92, 30), start |-> Rect(288, 842, 92, 30)]
  ELSE [dpad |-> At(116, 270), reach |-> 104, a |-> At(864, 230), b |-> At(788, 326),
        radius |-> 48,
        select |-> Rect(40, 432, 144, 46), start |-> Rect(776, 432, 144, 46)]

Buttons(touched, o, fullscreen) ==
  LET p == IF o = "portrait" THEN touched ELSE LandscapeTouch(touched, o)
      l == Layout(o)
  IN IF o # "portrait" /\ fullscreen THEN {}
     ELSE (IF InCircle(p, l.dpad, l.reach) THEN Directions(p, l.dpad) ELSE {})
          \union {key \in {"a", "b"} : InCircle(p, l[key], l.radius)}
          \union {key \in {"select", "start"} : InRect(p, l[key])}

\* The touch targets of each page, by action.
GameTargets ==
  [rotate |-> Rect(24, 534, 150, 40), power |-> Rect(20, 20, 280, 42),
   save |-> Rect(316, 20, 94, 42), load |-> Rect(420, 20, 100, 42),
   settings |-> Rect(320, 876, 220, 80),
   light_down |-> Rect(344, 534, 72, 40), light_up |-> Rect(432, 534, 76, 40)]
LandscapeTargets ==
  [power |-> Rect(16, 10, 192, 36), save |-> Rect(240, 10, 100, 36),
   load |-> Rect(620, 10, 100, 36), rotate |-> Rect(752, 10, 192, 36),
   settings |-> Rect(404, 494, 152, 36), fullscreen |-> Rect(580, 494, 152, 36),
   light_down |-> Rect(24, 72, 80, 40), light_up |-> Rect(124, 72, 80, 40)]
PageTargets ==
  [Settings |-> [battery |-> Rect(30, 150, 480, 120), sd_card |-> Rect(30, 290, 480, 120),
                 about |-> Rect(30, 430, 480, 120), gamepad_test |-> Rect(30, 570, 480, 120)],
   Battery |-> [refresh |-> Rect(170, 856, 200, 40), light_off |-> Rect(30, 778, 146, 56),
                light_down |-> Rect(196, 778, 146, 56), light_up |-> Rect(362, 778, 146, 56)],
   SdCard |-> [audio_engine |-> Rect(20, 158, 500, 52), rom_previous |-> Rect(20, 686, 156, 54),
               rom_next |-> Rect(192, 686, 156, 54), rom_launch |-> Rect(364, 686, 156, 54),
               load_last |-> Rect(20, 762, 242, 54), sd_rescan |-> Rect(278, 762, 242, 54)]]
HeaderTargets == [back |-> Rect(20, 20, 112, 44), home |-> Rect(408, 20, 112, 44)]
Hit(p, targets) == {action \in DOMAIN targets : InRect(p, targets[action])}

Actions(touched, page, o, fullscreen) ==
  IF page = "Game"
  THEN CASE o = "portrait"              -> Hit(touched, GameTargets)
         [] o # "portrait" /\ fullscreen  -> {"fullscreen"}
         [] o # "portrait" /\ ~fullscreen -> Hit(LandscapeTouch(touched, o), LandscapeTargets)
  ELSE Hit(touched, HeaderTargets)
       \union (IF page \in DOMAIN PageTargets THEN Hit(touched, PageTargets[page]) ELSE {})

-----------------------------------------------------------------------------
(* What is drawn. *)

Square(c, half) == Rect(c.x - half, c.y - half, 2 * half + 1, 2 * half + 1)

\* The part of the picture that differs when a control is held.
Highlight(key, o) ==
  IF o = "portrait"
  THEN CASE key = "up"    -> Rect(119, 616, 46, 52) [] key = "down"   -> Rect(119, 736, 46, 52)
         [] key = "left"  -> Rect(56, 679, 52, 46)  [] key = "right"  -> Rect(176, 679, 52, 46)
         [] key = "a"     -> Square(At(438, 646), 31)
         [] key = "b"     -> Square(At(354, 720), 31)
         [] key = "start" -> Rect(288, 842, 92, 30) [] key = "select" -> Rect(160, 842, 92, 30)
  ELSE CASE key = "up"    -> Square(At(116, 192), 10) [] key = "down"   -> Square(At(116, 348), 10)
         [] key = "left"  -> Square(At(38, 270), 10)  [] key = "right"  -> Square(At(194, 270), 10)
         [] key = "a"     -> Square(At(864, 230), 30)
         [] key = "b"     -> Square(At(788, 326), 30)
         [] key = "start" -> Rect(776, 432, 144, 46)  [] key = "select" -> Rect(40, 432, 144, 46)

\* The captions and boxes the player aims at; in landscape they are the targets.
DrawnActions ==
  [GameTargets EXCEPT !.rotate = Rect(40, 546, 70, 14), !.settings = Rect(390, 902, 130, 42),
                      !.light_down = Rect(374, 550, 10, 14), !.light_up = Rect(466, 550, 10, 14)]

\* The rows of the panel that are sent when `changed` controls were touched or let go.
ControlRows(key, landscape) ==
  LET direction == key \in {"up", "down", "left", "right"}
  IN CASE landscape /\ direction                    -> <<174, 366>>
       [] landscape /\ key = "a"                    -> <<189, 271>>
       [] landscape /\ key = "b"                    -> <<285, 367>>
       [] landscape /\ key \in {"select", "start"}  -> <<430, 480>>
       [] ~landscape /\ direction                   -> <<297, 498>>
       [] ~landscape /\ key = "a"                   -> <<59, 143>>
       [] ~landscape /\ key = "b"                   -> <<143, 227>>
       [] ~landscape /\ key = "select"              -> <<285, 382>>
       [] ~landscape /\ key = "start"               -> <<157, 254>>
\* mutant: the rows are not turned around with the picture
UprightRows(range, o) == range
PanelRows(range, o) == IF o = "reverse" THEN <<539 - range[2], 539 - range[1]>> ELSE range
HighlightRows(changed, o) ==
  LET ranges == {PanelRows(ControlRows(key, o # "portrait"), o) : key \in changed}
      first == CHOOSE n \in {r[1] : r \in ranges} : \A r \in ranges : n <= r[1]
      final == CHOOSE n \in {r[2] : r \in ranges} : \A r \in ranges : n >= r[2]
  IN first .. final

-----------------------------------------------------------------------------
(* What the four places owe each other, at any points of the screen. *)

Screen == [x : 0..539, y : 0..959]  \* where a finger can be
ControlKeys == {"up", "down", "left", "right", "a", "b", "select", "start"}
OtherPages == {"Settings", "Battery", "SdCard", "About", "GamepadTest"}
Turned == Orientations \ {"portrait"}
Corners(r) == [x : {r.x, r.x + r.width - 1}, y : {r.y, r.y + r.height - 1}]
Centre(r) == At(r.x + (r.width \div 2), r.y + (r.height \div 2))

\* The touch that lies on a point of the panel.
TouchOn(p) == At(539 - p.y, p.x)

\* The rows sent for a control cover what changes in it (paperboy_touch_dirty_rows).
HighlightsAreSent ==
  \A o \in Orientations, changed \in SUBSET ControlKeys, key \in ControlKeys :
    key \in changed =>
      \A p \in Corners(Highlight(key, o)) :
        PanelPoint(p, o).y \in HighlightRows(changed, o)

\* A touch acts on what the panel shows under the finger (paperboy_landscape_touch).
TouchesLieUnderTheFinger(points) ==
  \A p \in points, o \in Turned :
    PanelPoint(LandscapeTouch(p, o), o) = PanelPoint(p, "portrait")

\* Every control answers where it is drawn, and with nothing else.
ControlsAnswer ==
  /\ \A key \in ControlKeys, o \in Orientations :
       key \in Buttons(TouchOn(PanelPoint(Centre(Highlight(key, o)), o)), o, FALSE)
  /\ \A action \in DOMAIN DrawnActions : \A p \in Corners(DrawnActions[action]) :
       Actions(p, "Game", "portrait", FALSE) = {action}
  /\ \A action \in DOMAIN LandscapeTargets, o \in Turned :
       \A p \in Corners(LandscapeTargets[action]) :
         Actions(TouchOn(PanelPoint(p, o)), "Game", o, FALSE) = {action}

\* A touch holds keys or takes one action, and of keys one, or two directions that
\* are not opposite (paperboy_ui_map_buttons, current_action_mask).
AtMostOne(s) == \A a, b \in s : a = b
OneHold(keys) ==
  \/ AtMostOne(keys)
  \/ /\ keys \subseteq {"up", "down", "left", "right"}
     /\ ~({"up", "down"} \subseteq keys) /\ ~({"left", "right"} \subseteq keys)
OneMeaning(points) ==
  \A p \in points, o \in Orientations, fullscreen \in BOOLEAN :
    /\ OneHold(Buttons(p, o, fullscreen))
    /\ Buttons(p, o, fullscreen) = {} \/ Actions(p, "Game", o, fullscreen) = {}
    /\ \A page \in {"Game"} \union OtherPages : AtMostOne(Actions(p, page, o, fullscreen))

GeometryAgrees(points) ==
  /\ HighlightsAreSent
  /\ TouchesLieUnderTheFinger(points)
  /\ ControlsAnswer
  /\ OneMeaning(points)
=============================================================================
