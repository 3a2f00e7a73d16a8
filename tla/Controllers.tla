----------------------------- MODULE Controllers -----------------------------
(***************************************************************************)
(* The input of the console: a controller on USB, one on the I2C bus, and  *)
(* the touch screen, all polled once by every pass of run_console, and     *)
(* what a pass makes of them: commands, actions of the pages, keys of the  *)
(* game.  Around it a player who moves fingers and keys between two        *)
(* passes, a bus that loses the I2C controller and finds it again, and a   *)
(* touch screen whose reports are late or cannot be read.                  *)
(*                                                                         *)
(* A pass is one action: it runs on one task and nothing it reads changes  *)
(* in it but the two masks, each of which it reads once.                   *)
(***************************************************************************)
EXTENDS Chords, Navigation, Touches

CONSTANTS
  Scenes     \* what a player has: records [usb, i2c, elf, ticks, fingers, spots,
             \* home, loses, starts] with the keys of each controller, whether
             \* this is the ELF build, what a pass takes on the clock, the fingers
             \* and the points they may touch, whether the home key is used,
             \* whether the I2C controller may be lost and the touch screen fail
             \* to answer, and the pages to begin with

\* A pass takes less than the 49 days after which the clock starts again.
ASSUME ScenesAssumption ==
  \A s \in Scenes :
    /\ s.usb \subseteq Keys /\ s.i2c \subseteq Keys
    /\ {s.elf, s.home, s.loses} \subseteq BOOLEAN
    /\ s.ticks \subseteq 0..(CLOCK - 1)
    /\ s.spots \subseteq Points /\ s.starts \subseteq Pages

VARIABLES
  scene,     \* the scene played; chosen once
  held,      \* the keys that are down on each controller
  usb,       \* the decoder of the USB adapter
  i2c,       \* the decoder of snes_mini_controller.cpp
  initialized,  \* its g_initialized
  menu,      \* the state of the menus
  glass,     \* the fingers on the screen, the point of each, and its home key
  last,      \* g_last_state of touch_gt911.cpp: the same, as last reported
  ui,        \* the globals of paperboy_ui.cpp that concern fingers
  page,      \* the page shown
  orientation, fullscreen,  \* and how
  now,       \* millis()
  game,      \* the keys handed to the emulator by the last pass, of the pads
             \* and of the screen
  tails,     \* history: per controller, the chords given and not all released
  quiet,     \* history: menu keys that acted, or were down at a change of page,
             \* and that no pass since has seen up
  hold,      \* history: the direction held, the time since its last move, and
             \* whether that was a repetition
  old,       \* history: fingers on the screen since before the layout changed
  spent,     \* history: fingers that acted where they are
  linger     \* history: as hold, of the action under a finger; and whether the
             \* last pass got a report

decoders == <<usb, i2c, initialized>>
screen   == <<last, ui, orientation, fullscreen>>
history  == <<tails, quiet, hold, old, spent, linger>>
input_vars == <<scene, held, glass, decoders, menu, screen, page, now, game, history>>

Devices == {"usb", "i2c"}

InputTypeOK ==
  /\ scene \in Scenes
  /\ held \in [Devices -> SUBSET Keys]
  /\ \A d \in {usb, i2c} :
       /\ d.previous \subseteq Keys /\ d.buttons \subseteq Keys /\ d.navigation \subseteq Menu
       /\ {d.settings, d.rotate, d.refresh, d.select_consumed, d.start_consumed} \subseteq BOOLEAN
  /\ initialized \in BOOLEAN
  /\ menu.selection \in 0..3 /\ menu.repeat_at \in 0..(CLOCK - 1)
  /\ menu.direction \in {{}, {"Up"}, {"Down"}}
  /\ page \in Pages
  /\ now \in 0..(CLOCK - 1)
  /\ \A t \in {glass, last} : Fingers(t) \subseteq scene.fingers /\ t.home \in BOOLEAN
  /\ ui.mask \union ui.fired \subseteq TouchActions
  /\ ui.acted \in [TouchActions -> 0..(CLOCK - 1)]
  /\ ui.repeat \in {{}, {"rom_previous"}, {"rom_next"}}
  /\ orientation \in Map!Orientations /\ fullscreen \in BOOLEAN
  /\ game.pads \subseteq Keys /\ game.touch \subseteq TouchKeys
  /\ tails \in [Devices -> SUBSET SUBSET Keys]
  /\ quiet \subseteq Menu
  /\ hold.age \in 0..(FIRST + CLOCK)
  /\ old \union spent \subseteq scene.fingers

InputInit ==
  /\ scene \in Scenes
  /\ held = [d \in Devices |-> {}]
  /\ usb = Idle
  /\ i2c = Idle
  /\ initialized = FALSE
  /\ menu = Still
  /\ glass = Untouched
  /\ last = Untouched
  /\ ui = Free
  /\ page \in scene.starts
  /\ orientation = "portrait"
  /\ fullscreen = FALSE
  /\ now = 0
  /\ game = [pads |-> {}, touch |-> {}]
  /\ tails = [d \in Devices |-> {}]
  /\ quiet = {}
  /\ hold = [direction |-> {}, age |-> 0, again |-> FALSE]
  /\ old = {}
  /\ spent = {}
  /\ linger = [action |-> {}, age |-> 0, again |-> FALSE, polled |-> FALSE]

----------------------------------------------------------------------------
\* The chord behind a command, and its rank: a chord in progress yields only to
\* one of a higher rank.
Chord(a) == CASE a = "settings" -> Settings [] a = "rotate" -> Rotate
              [] a = "refresh" -> Refresh [] a = "load" -> {"Start", "L"}
              [] a = "save" -> {"Start", "R"} [] a = "dim" -> {"Select", "L"}
              [] a = "brighten" -> {"Select", "R"}
Rank(chord) == CASE chord = Settings -> 3 [] chord = Rotate -> 2 [] chord = Refresh -> 1
                 [] OTHER -> 0

\* The keys a command keeps from the game: all of a chord, or the modifier.
Tail(a) == IF a \in {"settings", "rotate", "refresh"} THEN Chord(a) ELSE Chord(a) \intersect Refresh

TailsAfter(d, before) ==
  {t \in before : Touched(t, d.previous)} \union {Tail(a) : a \in d.actions}

----------------------------------------------------------------------------
\* usb_hid_gamepad_buttons of the native adapter
NativeDecode(d, pressed) == Decode(d, pressed, FALSE)

\* usb_hid_gamepad_buttons of the ELF build
ElfDecode(d, pressed) == Decode(d, pressed, TRUE)

\* decode_buttons of the I2C controller
I2cDecode(d, pressed) == Decode(d, pressed, FALSE)

UsbPolled(pressed) == IF scene.elf THEN ElfDecode(usb, pressed) ELSE NativeDecode(usb, pressed)

\* The actions belong to the poll that decoded them, not to the cached report.
NoActions(d) == [d EXCEPT !.actions = {}]

\* snes_i2c_buttons: not yet time to probe again or the probe fails; a report is
\* read; the last one is recent enough; or the bus fails.
I2cPolled(outcome, pressed) ==
  CASE outcome = "absent" -> Idle
    [] outcome = "report" -> I2cDecode(i2c, pressed)
    [] outcome = "cached" -> NoActions(i2c)
    [] outcome = "lost"   -> Idle

Outcomes ==
  IF initialized THEN {"report", "cached"} \union (IF scene.loses THEN {"lost"} ELSE {})
  ELSE IF scene.i2c = {} THEN {"absent"} ELSE {"report"} \union (IF scene.loses THEN {"absent"} ELSE {})

\* touch_read: a new report, the last one again, or nothing.
Reports ==
  {[ok |-> TRUE, touch |-> glass], [ok |-> TRUE, touch |-> last]}
  \union (IF scene.loses /\ scene.fingers # {} THEN {[ok |-> FALSE, touch |-> last]} ELSE {})

\* What this pass does: what fingers and menus ask for, or a command instead.
Actions(returned, action, commands) ==
  IF page = "Game" /\ "rotate" \in commands THEN {"rotate"}
  ELSE IF "settings" \in commands THEN {"settings"}
  ELSE returned \union {action}

\* The page that the actions of this pass lead to, later ones first.  A launch
\* may fail.
Opening == [battery |-> "Battery", sd_card |-> "SdCard", about |-> "About",
            gamepad_test |-> "GamepadTest"]
Opened(actions) ==
  (actions \intersect Pages) \union {Opening[a] : a \in actions \intersect DOMAIN Opening}
NextPages(actions) ==
  LET opened == IF page = "Settings" THEN Opened(actions) ELSE {}
  IN IF opened # {}
     THEN {CHOOSE p \in opened : \A q \in opened : \E m, n \in 0..3 : Opens[m] = p /\ Opens[n] = q /\ m >= n}
     ELSE IF "home" \in actions THEN {"Game"}
     ELSE IF "back" \in actions THEN {IF page = "Settings" THEN "Game" ELSE "Settings"}
     ELSE IF "settings" \in actions THEN {"Settings"}
     ELSE IF page = "SdCard" /\ actions \intersect {"launch", "rom_launch", "load_last"} # {}
     THEN {page, "Game"}
     ELSE {page}

\* The key behind an action of the menus.
Acts(action) == CASE action = "back" -> {"B"}
                  [] action \in {"none", "refresh", "previous", "next"} -> {}
                  [] OTHER -> {"A"}

\* What the emulator is given: of the controllers nothing while the menus wait
\* for a release, and nothing at all when the layout changes.
GameKeys(u, i, polled, keys, changed) ==
  IF page # "Game" \/ changed THEN [pads |-> {}, touch |-> {}]
  ELSE [pads |-> IF polled.wait_release THEN {} ELSE u.buttons \union i.buttons, touch |-> keys]

\* A time since, as far as anything depends on it.
Older(age, tick) == IF age + tick <= FIRST + CLOCK THEN age + tick ELSE FIRST + CLOCK

HoldAfter(n, tick) ==
  IF n.direction = {} THEN [direction |-> {}, age |-> 0, again |-> FALSE]
  ELSE IF n.direction # hold.direction \/ n.move
  THEN [direction |-> n.direction, age |-> 0, again |-> n.direction = hold.direction]
  ELSE [hold EXCEPT !.age = Older(@, tick)]

LingerAfter(u, tick, ok) ==
  IF u.repeat = {} THEN [action |-> {}, age |-> 0, again |-> FALSE, polled |-> ok]
  ELSE IF u.repeat # linger.action \/ u.repeat \subseteq u.fired
  THEN [action |-> u.repeat, age |-> 0, again |-> u.repeat = linger.action, polled |-> ok]
  ELSE [linger EXCEPT !.age = Older(@, tick), !.polled = ok]

Layout == [page |-> page, orientation |-> orientation, fullscreen |-> fullscreen]

\* One pass of run_console, as far as input goes.  Turning the picture and the
\* full screen end a pass: its other actions are dropped.  (Quantifying over one
\* value only gives it a name.)
Pass ==
  /\ \E outcome \in Outcomes, report \in Reports, tick \in scene.ticks :
     \E u \in {UsbPolled(held.usb)}, i \in {I2cPolled(outcome, held.i2c)},
        time \in {(now + tick) % CLOCK} :
     \E polled \in {MapController(menu, u.navigation \union i.navigation, page, time)},
        felt \in {MapTouch(ui, report, Layout, time)} :
       LET reported == u.navigation \union i.navigation
           actions == Actions(Returned(felt, page), polled.action, u.actions \union i.actions)
           widens == "fullscreen" \in actions /\ orientation # "portrait"
           turns == ~widens /\ "rotate" \in actions
           on == Fingers(report.touch) \intersect Fingers(glass)
       IN \E next \in IF widens \/ turns THEN {page} ELSE NextPages(actions) :
            LET changed == widens \/ turns \/ next # page
                after == IF changed THEN PageChanged(polled) ELSE polled
            IN /\ usb' = u
               /\ i2c' = i
               /\ initialized' = (outcome \in {"report", "cached"})
               /\ menu' = after
               /\ last' = report.touch
               /\ ui' = IF changed THEN LayoutChanged(felt) ELSE felt
               /\ page' = next
               /\ orientation' = IF turns THEN Map!NextOrientation(orientation) ELSE orientation
               /\ fullscreen' = (widens # fullscreen)
               /\ now' = time
               /\ game' = GameKeys(u, i, polled, TouchedKeys(ui, report, Layout), changed)
               /\ tails' = [usb |-> TailsAfter(u, tails.usb),
                            i2c |-> IF initialized' THEN TailsAfter(i, tails.i2c) ELSE {}]
               /\ quiet' = (quiet \intersect reported) \union Acts(after.action)
                           \union (IF changed THEN reported ELSE {})
               /\ hold' = HoldAfter(after, tick)
               /\ old' = IF changed THEN on ELSE old
               /\ spent' = spent \union {f \in on : /\ report.touch.at[f] = glass.at[f]
                                                 /\ MeansAt(glass.at[f], Layout) \intersect felt.fired # {}}
               /\ linger' = LingerAfter(ui', tick, report.ok)
  /\ UNCHANGED <<scene, held, glass>>

\* The player.
Press(d, k) ==
  /\ k \in scene[d] \ held[d]
  /\ held' = [held EXCEPT ![d] = @ \union {k}]
  /\ UNCHANGED <<scene, glass, decoders, menu, screen, page, now, game, history>>

Release(d, k) ==
  /\ k \in held[d]
  /\ held' = [held EXCEPT ![d] = @ \ {k}]
  /\ UNCHANGED <<scene, glass, decoders, menu, screen, page, now, game, history>>

\* A finger is put down or slides elsewhere, is lifted; the home key is used.
Land(f, p) ==
  /\ glass' = [glass EXCEPT !.at = [g \in Fingers(glass) \union {f} |->
                                      IF g = f THEN p ELSE glass.at[g]]]
  /\ glass' # glass
  /\ spent' = spent \ {f}
  /\ UNCHANGED <<scene, held, decoders, menu, screen, page, now, game, tails, quiet, hold, old, linger>>

Lift(f) ==
  /\ f \in Fingers(glass)
  /\ glass' = [glass EXCEPT !.at = [g \in Fingers(glass) \ {f} |-> glass.at[g]]]
  /\ old' = old \ {f}
  /\ spent' = spent \ {f}
  /\ UNCHANGED <<scene, held, decoders, menu, screen, page, now, game, tails, quiet, hold, linger>>

Home ==
  /\ scene.home
  /\ glass' = [glass EXCEPT !.home = ~@]
  /\ UNCHANGED <<scene, held, decoders, menu, screen, page, now, game, history>>

InputNext ==
  \/ Pass
  \/ \E d \in Devices, k \in Keys : Press(d, k) \/ Release(d, k)
  \/ \E f \in scene.fingers : Lift(f) \/ \E p \in scene.spots : Land(f, p)
  \/ Home

InputSpec == InputInit /\ [][InputNext]_input_vars

----------------------------------------------------------------------------
Decoder == [usb |-> usb, i2c |-> i2c]

\* The keys of a chord stay silent until all of them are released, whatever the
\* order, and so does a modifier that was used: they reach neither the game nor
\* the menus.  A new command needs a key that just went down, and while a chord
\* is not released only one of a higher rank is taken, except that Right turns
\* the screen again.  ("Never turn its tail into save/load or brightness.")
TailIsSilent(d) ==
  ~Touched(UNION tails[d], Decoder[d].buttons \union Decoder[d].navigation)
CommandIsNew(d) ==
  \A a \in Decoder'[d].actions :
    /\ ~(Chord(a) \subseteq Decoder[d].previous)
    /\ \A t \in tails[d] :
         \/ Rank(t) = 0
         \/ Rank(Chord(a)) > Rank(t)
         \/ Chord(a) = Rotate /\ t = Rotate /\ "Right" \notin Decoder[d].previous
TailsAreSilent ==
  [][held' = held /\ glass' = glass => \A d \in Devices : TailIsSilent(d)' /\ CommandIsNew(d)]_input_vars

\* A key of the menus acts once, and after a change of layout neither acts nor
\* reaches the game, until a pass has seen it up.
KeysActOnce ==
  [][held' = held /\ glass' = glass =>
       /\ Acts(menu'.action) \intersect quiet = {}
       /\ game'.pads \intersect quiet' = {}]_input_vars

\* A finger that stayed on the screen while the page or the picture changed under
\* it does nothing until it is lifted: no action fires and no key reaches the game
\* while it is reported.  Otherwise it fires an action once where it was put.  (The
\* home key is held to neither.)
FingerActs(a) == \E f \in Fingers(last') \ spent : a \in MeansAt(last'.at[f], Layout)
FingersActOnce ==
  [][held' = held /\ glass' = glass =>
       /\ ui'.fired \ {"home"} # {} => old \intersect Fingers(last') = {}
       /\ game'.touch # {} => old' \intersect Fingers(last') = {}
       /\ \A a \in ui'.fired \ (Repeating \union {"home"}) : FingerActs(a)]_input_vars

\* Menus and pages never do anything the player did not ask for once.
MenusObey == []InputTypeOK /\ KeysActOnce /\ FingersActOnce

\* A direction that is held moves the selection at the first pass after the
\* delay, and at no other, wherever the clock wraps.  (The comparison of times is
\* good for half the range of the clock, 24 days: nothing is said of a pass that
\* comes later than that.)
InTime(age, delay) == age < delay + (CLOCK \div 2)
KeysRepeat ==
  [][now' # now /\ hold.direction # {} /\ hold'.direction = hold.direction /\ menu'.action # "back"
       => LET delay == IF hold.again THEN AGAIN ELSE FIRST
              age == hold.age + ((now' - now) % CLOCK)
          IN InTime(age, delay) => (menu'.move <=> age >= delay)]_input_vars

\* So does a finger that is held on PREVIOUS or NEXT, at the first report.
FingersRepeat ==
  [][now' # now /\ linger.action # {} /\ linger'.action = linger.action /\ linger'.polled
       => LET delay == IF linger.again THEN AGAIN ELSE FIRST
              age == linger.age + ((now' - now) % CLOCK)
          IN InTime(age, delay) => (linger.action \subseteq ui'.fired <=> age >= delay)]_input_vars

\* Whatever repeats does so on time.
RepeatsOnTime == KeysRepeat /\ FingersRepeat

=============================================================================
