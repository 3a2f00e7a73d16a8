----------------------------- MODULE MCConsole -----------------------------
(***************************************************************************)
(* ConsoleDisplay for TLC, and beside it the geometry it abstracts from:   *)
(* the rows of a control are the rows its highlight is drawn in.           *)
(***************************************************************************)
EXTENDS ConsoleDisplay

Picture == INSTANCE TouchMap

Every(step, size) == {n \in 0 .. (size - 1) : n % step = 0}
Spots == [x : Every(5, 540), y : Every(5, 960)]  \* no target is smaller than 30 pixels
AgreesOnSpots == Picture!GeometryAgrees(Spots)

\* However the picture is turned, the rows sent for a control cover what changes in it, a
\* touch acts on what is shown under the finger, every control answers where it is drawn,
\* and no touch means two things at once (paperboy_touch_dirty_rows,
\* paperboy_landscape_touch, paperboy_ui_map_buttons, current_action_mask and the drawing).
TouchAgreesWithPicture == power_on => AgreesOnSpots
=============================================================================
