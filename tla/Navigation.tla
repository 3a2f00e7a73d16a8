----------------------------- MODULE Navigation -----------------------------
(***************************************************************************)
(* Menus by controller: paperboy_controller_navigation.cpp.  MapController *)
(* is its whole poll, from the keys the controllers report and the page to *)
(* the action of the menu; its clock is millis(), which wraps.             *)
(***************************************************************************)
EXTENDS Integers

CONSTANTS
  CLOCK,     \* millis() counts modulo CLOCK
  FIRST,     \* a direction is repeated after 500 ms
  AGAIN      \* and then every 150 ms

ASSUME ClockAssumption ==
  /\ CLOCK \in Nat /\ FIRST \in Nat /\ AGAIN \in Nat
  /\ 0 < AGAIN /\ AGAIN <= FIRST /\ 2 * FIRST < CLOCK

Pages == {"Game", "Settings", "Battery", "SdCard", "About", "GamepadTest"}
Menu  == {"Up", "Down", "Left", "Right", "A", "B"}

\* What the four lines of the settings page open, in order.
Opens == [n \in 0..3 |-> CASE n = 0 -> "Battery" [] n = 1 -> "SdCard"
                           [] n = 2 -> "About" [] n = 3 -> "GamepadTest"]

\* The globals of the file, and what the last poll made of them.
Still == [selection |-> 0, previous |-> {}, direction |-> {}, repeat_at |-> 0,
          wait_release |-> FALSE, move |-> FALSE, action |-> "none"]

\* mutant: the keys of the old page are not waited for
PageChangedAtOnce(n) == [n EXCEPT !.direction = {}]

\* paperboy_ui_controller_page_changed
PageChanged(n) == [n EXCEPT !.wait_release = TRUE, !.direction = {}]

\* mutant: the times are compared as they are
ReachedUnsigned(now, at) == now >= at

\* static_cast<int32_t>(now - at) >= 0
Reached(now, at) == (now - at) % CLOCK < CLOCK \div 2

\* Up or Down, but not both.
Direction(buttons) ==
  LET held == buttons \intersect {"Up", "Down"} IN IF held = {"Up", "Down"} THEN {} ELSE held

\* The direction held, and whether it moves the selection now.
Moved(n, held, now) ==
  LET turned == held # n.direction
      again  == ~turned /\ held # {} /\ Reached(now, n.repeat_at)
  IN [n EXCEPT !.direction = held, !.move = (turned /\ held # {}) \/ again,
               !.repeat_at = IF turned THEN (now + FIRST) % CLOCK
                             ELSE IF again THEN (now + AGAIN) % CLOCK ELSE @]

InSettingsPage(n, presses) ==
  LET step == IF ~n.move THEN 0 ELSE IF n.direction = {"Up"} THEN 3 ELSE 1
      selection == (n.selection + step) % 4
  IN [n EXCEPT !.selection = selection,
               !.action = IF "A" \in presses THEN Opens[selection]
                          ELSE IF n.move THEN "refresh" ELSE "none"]

InSdCardPage(n, presses) ==
  [n EXCEPT !.action = IF "A" \in presses THEN "launch"
                       ELSE IF ~n.move THEN "none"
                       ELSE IF n.direction = {"Up"} THEN "previous" ELSE "next"]

Poll(n, presses, buttons, page, now) ==
  LET moved == Moved(n, Direction(buttons), now)
  IN CASE page = "Settings" -> InSettingsPage(moved, presses)
       [] page = "SdCard"   -> InSdCardPage(moved, presses)
       [] OTHER             -> moved

\* paperboy_ui_map_controller
MapController(n, buttons, page, now) ==
  LET presses == buttons \ n.previous
      seen == [n EXCEPT !.previous = buttons, !.move = FALSE, !.action = "none"]
  IN IF n.wait_release THEN [seen EXCEPT !.wait_release = buttons # {}]
     ELSE IF page = "Game" THEN [seen EXCEPT !.direction = {}]
     ELSE IF "B" \in presses THEN [seen EXCEPT !.action = "back"]
     ELSE Poll(seen, presses, buttons, page, now)
=============================================================================
