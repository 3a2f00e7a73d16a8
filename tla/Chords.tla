------------------------------- MODULE Chords -------------------------------
(***************************************************************************)
(* What the keys of a game controller mean.  The program has this decoder  *)
(* three times: for USB (decode_actions of usb_hid_gamepad.cpp), for USB   *)
(* in the ELF build (usb_hid_elf_adapter.cpp), and for the I2C controller  *)
(* (decode_buttons of snes_mini_controller.cpp).  They differ in one       *)
(* chord, which only the ELF build has.  A set of keys stands for the      *)
(* mask; the turbo keys, X and Y, are left out.                            *)
(***************************************************************************)
Shoulders == {"L", "R"}
Arrows    == {"Up", "Down", "Left", "Right"}

Settings == Shoulders \union {"Start", "Select"}
Rotate   == Shoulders \union {"Right"}
Refresh  == {"Start", "Select"}

\* What a modifier does with a shoulder.
Command == [Select |-> [L |-> "dim",  R |-> "brighten"],
            Start  |-> [L |-> "load", R |-> "save"]]

Keys == Settings \union Arrows \union {"A", "B"}

\* The state of a decoder and the result of its last call.
Idle == [previous |-> {}, settings |-> FALSE, rotate |-> FALSE, refresh |-> FALSE,
         select_consumed |-> FALSE, start_consumed |-> FALSE,
         buttons |-> {}, navigation |-> {}, actions |-> {}]

Held(chord, pressed) == chord \subseteq pressed
Touched(chord, pressed) == chord \intersect pressed # {}

\* A call that delivers no key.
Muted(d, pressed) ==
  [d EXCEPT !.previous = pressed, !.buttons = {}, !.navigation = {}, !.actions = {}]

\* Both modifiers count as used while they are held.
Used(d, pressed) ==
  [d EXCEPT !.select_consumed = "Select" \in pressed, !.start_consumed = "Start" \in pressed]

\* mutant: the chord is over when one of its keys is up
InSettingsBriefly(d, pressed) ==
  [Used(Muted(d, pressed), pressed) EXCEPT
        !.settings = Held(Settings, pressed),
        !.refresh = @ /\ d.settings,
        !.actions = IF d.settings THEN {} ELSE {"settings"}]

\* The first call of the chord gives the command; a refresh under way is over.
InSettings(d, pressed) ==
  [Used(Muted(d, pressed), pressed) EXCEPT
        !.settings = Touched(Settings, pressed),
        !.refresh = @ /\ d.settings,
        !.actions = IF d.settings THEN {} ELSE {"settings"}]

InRotate(d, pressed) ==
  [Muted(d, pressed) EXCEPT
     !.rotate = Touched(Rotate, pressed),
     !.actions = IF Held(Rotate, pressed) /\ (~d.rotate \/ "Right" \notin d.previous)
                 THEN {"rotate"} ELSE {}]

StartsRefresh(d, pressed) ==
  /\ pressed \intersect Settings = Refresh
  /\ ~(Refresh \subseteq d.previous)
  /\ ~d.refresh

InRefresh(d, pressed) ==
  [Used(Muted(d, pressed), pressed) EXCEPT
     !.refresh = Touched(Settings, pressed),
     !.actions = IF StartsRefresh(d, pressed) THEN {"refresh"} ELSE {}]

\* One modifier with one shoulder is a command, given once: when the second of
\* the two goes down.
Commands(d, pressed) ==
  {a \in {"dim", "brighten", "load", "save"} :
     \E m \in Refresh, s \in Shoulders :
       /\ a = Command[m][s]
       /\ pressed \intersect Settings = {m, s}
       /\ ~({m, s} \subseteq d.previous)}

\* A modifier that met a shoulder is no key of the game until it is released.
Consumed(m, consumed, pressed) ==
  /\ m \in pressed
  /\ \/ consumed
     \/ pressed \intersect Refresh = {m} /\ Touched(Shoulders, pressed)

Plain(d, pressed) ==
  LET select == Consumed("Select", d.select_consumed, pressed)
      start  == Consumed("Start", d.start_consumed, pressed)
      pad    == pressed \intersect (Arrows \union {"A", "B"})
  IN [d EXCEPT
        !.previous = pressed, !.select_consumed = select, !.start_consumed = start,
        !.actions = Commands(d, pressed), !.navigation = pad,
        !.buttons = pad \union (IF select THEN {} ELSE pressed \intersect {"Select"})
                        \union (IF start THEN {} ELSE pressed \intersect {"Start"})]

\* decode_buttons and both decode_actions.  hasRefresh: the ELF build.
Decode(d, pressed, hasRefresh) ==
  IF d.settings \/ Held(Settings, pressed) THEN InSettings(d, pressed)
  ELSE IF d.rotate \/ Held(Rotate, pressed) THEN InRotate(d, pressed)
  ELSE IF hasRefresh /\ (d.refresh \/ StartsRefresh(d, pressed)) THEN InRefresh(d, pressed)
  ELSE Plain(d, pressed)
=============================================================================
