------------------------------- MODULE Touches -------------------------------
(***************************************************************************)
(* What paperboy_ui.cpp makes of the fingers on the touch screen in one    *)
(* pass of the loop: actions of the page that is shown, some of which are  *)
(* repeated while held, and keys of the game.  The same place of the       *)
(* screen means something else on every page and in every orientation      *)
(* (TouchMap), so fingers are waited for when either changes.              *)
(***************************************************************************)
EXTENDS Navigation, FiniteSets

Map == INSTANCE TouchMap

CONSTANTS
  DEBOUNCE,  \* an action is not taken again for 120 ms
  Points     \* the points of the screen that are ever touched

ASSUME DebounceAssumption == DEBOUNCE \in Nat /\ DEBOUNCE <= AGAIN

\* The actions of the ROM list that repeat, and those that set the night light.
Repeating == {"rom_previous", "rom_next"}
Light == {"light_off", "light_down", "light_up"}
TouchActions ==
  UNION {DOMAIN t : t \in {Map!GameTargets, Map!LandscapeTargets, Map!HeaderTargets}
                            \union {Map!PageTargets[p] : p \in DOMAIN Map!PageTargets}}
TouchKeys == {"up", "down", "left", "right", "a", "b", "select", "start"}

\* A report of the touch screen: the point of each finger, and its home key.
Untouched == [at |-> <<>>, home |-> FALSE]
Fingers(touch) == DOMAIN touch.at

\* The globals of the file, and what the last poll fired.
Free == [mask |-> {}, acted |-> [a \in TouchActions |-> 0], fired |-> {},
         ignore_actions |-> FALSE, ignore_buttons |-> FALSE, repeat |-> {}, repeat_at |-> 0]

\* What each point means: actions, keys.  A layout is [page, orientation, fullscreen].
Meanings ==
  [p \in Points |-> [g \in Pages |-> [o \in Map!Orientations |-> [f \in BOOLEAN |->
     Map!Actions(p, g, o, f)]]]]
KeysAt == [p \in Points |-> [o \in Map!Orientations |-> [f \in BOOLEAN |-> Map!Buttons(p, o, f)]]]

MeansAt(p, l) == Meanings[p][l.page][l.orientation][l.fullscreen]
Meaning(touch, l) ==
  (UNION {MeansAt(touch.at[f], l) : f \in Fingers(touch)})
  \union (IF touch.home /\ l.page # "Game" THEN {"home"} ELSE {})

\* paperboy_ui_map_actions while the fingers of the old layout are waited for.
Waiting(u, touch, current) ==
  [u EXCEPT !.fired = {}, !.repeat = {}, !.repeat_at = 0,
            !.mask = IF Fingers(touch) = {} THEN {} ELSE current,
            !.ignore_actions = Fingers(touch) # {}]

\* When the action that is held fires again.
RepeatAt(u, held, turned, again, time) ==
  IF held = {} THEN 0
  ELSE IF turned THEN (time + FIRST) % CLOCK
  ELSE IF again THEN (time + AGAIN) % CLOCK ELSE u.repeat_at

\* ... and otherwise: what was not touched before fires, unless it fired a moment
\* ago; one of the two that repeat fires again when its time has come.
Firing(u, current, held, time) ==
  LET pressed == {a \in current \ u.mask : (time - u.acted[a]) % CLOCK >= DEBOUNCE}
      turned  == held # u.repeat
      again   == ~turned /\ held # {} /\ Reached(time, u.repeat_at)
  IN [u EXCEPT !.mask = current,
               !.fired = pressed \union (IF again THEN held ELSE {}),
               !.acted = [a \in TouchActions |-> IF a \in pressed THEN time ELSE u.acted[a]],
               !.repeat = held,
               !.repeat_at = RepeatAt(u, held, turned, again, time)]

MapActions(u, touch, l, time) ==
  LET raw == Meaning(touch, l)
      held == IF Cardinality(raw \intersect Repeating) = 1 THEN raw \intersect Repeating ELSE {}
      current == (raw \ Repeating) \union held
  IN IF u.ignore_actions THEN Waiting(u, touch, current) ELSE Firing(u, current, held, time)

\* What it returns: the night light is set on the spot, and shown on its page.
Returned(u, page) ==
  (u.fired \ Light)
  \union (IF page = "Battery" /\ u.fired \intersect Light # {} THEN {"refresh"} ELSE {})

\* paperboy_ui_map_buttons, which is asked on the game's page only: its keys, and
\* whether it still waits.
MapButtons(u, touch, l) ==
  IF u.ignore_buttons THEN {}
  ELSE UNION {KeysAt[touch.at[f]][l.orientation][l.fullscreen] : f \in Fingers(touch)}
StillIgnored(u, touch, page) == u.ignore_buttons /\ (page = "Game" => Fingers(touch) # {})

\* Both, in a pass that got a report; a pass without one asks neither.
MapTouch(u, report, l, time) ==
  IF report.ok
  THEN [MapActions(u, report.touch, l, time) EXCEPT
          !.ignore_buttons = StillIgnored(u, report.touch, l.page)]
  ELSE [u EXCEPT !.fired = {}]
TouchedKeys(u, report, l) ==
  IF report.ok /\ l.page = "Game" THEN MapButtons(u, report.touch, l) ELSE {}

\* paperboy_ui_on_page_changed, as far as fingers go
LayoutChanged(u) ==
  [u EXCEPT !.ignore_actions = TRUE, !.ignore_buttons = TRUE, !.repeat = {}, !.repeat_at = 0]
=============================================================================
