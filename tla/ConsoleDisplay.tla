--------------------------- MODULE ConsoleDisplay ---------------------------
(***************************************************************************)
(* The drawing half of run_console in main.cpp: what the loop composes     *)
(* into the two panel buffers, and which rows it asks the driver to drive. *)
(* The panel shows one buffer while the next frame goes into the other, so *)
(* everything that changes has to be drawn twice; full_scene_syncs and     *)
(* touch_scene_syncs count what is left to draw.                           *)
(*                                                                         *)
(* A buffer is abstracted to two things: whether its chrome (page, notice, *)
(* clock, battery, game state) is up to date and which control highlights  *)
(* it carries.  The driver is reduced to its queue of one frame; it runs.  *)
(* PanelClient has the driver and the refresh in full.                     *)
(***************************************************************************)
EXTENDS Integers, FiniteSets

CONSTANTS
  Controls,          \* rows of the control highlights
  RequiredSkips,     \* emulated frames between two rendered ones
  MaxEvents          \* bound: changes of the chrome in a behaviour

ASSUME ControlsAssumption == Controls \subseteq Nat \ {0} /\ IsFiniteSet(Controls)
ASSUME SkipsAssumption == RequiredSkips \in Nat
ASSUME EventsAssumption == MaxEvents \in Nat

VARIABLES
  pc,                  \* where the loop is
  on_game,             \* page == PaperboyPage::Game
  power_on,            \* power_on, and no emulator fault
  touch,               \* touch_buttons: controls being touched
  displayed,           \* displayed_touch_buttons
  touch_scene_syncs,
  touch_dirty,         \* rows touch_dirty_y .. + touch_dirty_height - 1
  full_scene_syncs,
  skipped,             \* skipped_since_render
  skip_render,         \* of the frame being emulated, FALSE in between
  fresh,               \* is the chrome of buffer b up to date?
  highlights,          \* the control highlights drawn in buffer b
  front,               \* the driver's front buffer
  flip_req,            \* a frame is queued
  queued_rows,         \* the rows it is queued with
  shown,               \* is the chrome on the panel up to date?
  lit,                 \* the highlights on the panel
  events,              \* changes of the chrome so far
  steady               \* history: since the last agreement no touch came and went
                       \* unnoticed, no refresh wiped highlights, and no touch was
                       \* noticed with one full scene still to draw

loop == <<pc, on_game, power_on, touch, displayed, touch_scene_syncs, touch_dirty,
          full_scene_syncs, skipped, skip_render, events, steady>>
drawn == <<fresh, highlights>>
queue == <<front, flip_req, queued_rows, shown, lit>>
frames == <<front, flip_req, queued_rows, lit>>
vars == <<loop, drawn, queue>>

Buffers == 0 .. 1
back == 1 - front
PanelBufferCount == 2
Stale == [b \in Buffers |-> FALSE]

\* The game's rows hold the controls of both orientations; one more row stands
\* for those around the game, which only full scenes drive.
GameRows == Controls
AllRows == Controls \union {0}
CanSubmit == ~flip_req

\* The rows from the first to the last of a set of rows.
Hull(rows) == {r \in Controls : \E a, b \in rows : a <= r /\ r <= b}

\* The first page is in both buffers when the loop is entered.
Init ==
  /\ pc = "poll"
  /\ on_game \in BOOLEAN
  /\ power_on = TRUE
  /\ touch = {} /\ displayed = {}
  /\ touch_scene_syncs = 0 /\ touch_dirty = {}
  /\ full_scene_syncs = 0
  /\ skipped = 0 /\ skip_render = FALSE
  /\ fresh = [b \in Buffers |-> TRUE]
  /\ highlights = [b \in Buffers |-> {}]
  /\ front = 1 /\ flip_req = FALSE /\ queued_rows = {}
  /\ shown = TRUE /\ lit = {}
  /\ events = 0
  /\ steady = TRUE

-----------------------------------------------------------------------------
(* Top of the loop: clock, notice, battery and menu changes, then touch.   *)

\* mutant: nobody asks for the scenes to be drawn
RedrawUnscheduled(count) ==
  /\ events < MaxEvents
  /\ events' = events + 1
  /\ fresh' = Stale /\ shown' = FALSE
  /\ UNCHANGED full_scene_syncs

\* Something the page shows is different now, and must reach both buffers.
Redraw(count) ==
  /\ events < MaxEvents
  /\ events' = events + 1
  /\ fresh' = Stale /\ shown' = FALSE
  /\ full_scene_syncs' = count
NoRedraw == UNCHANGED <<events, fresh, shown, full_scene_syncs>>

\* A new minute, a notice that ended or another battery indicator redraws the
\* game page, a key of the menu any page.
PollChrome ==
  /\ pc = "poll"
  /\ NoRedraw \/ Redraw(PanelBufferCount)
  /\ pc' = "touch"
  /\ UNCHANGED <<on_game, power_on, touch, displayed, touch_scene_syncs, touch_dirty, skipped,
                 skip_render, steady, highlights, frames>>

ForgetPendingRows(rows) == rows  \* mutant: rows still to be sent are overwritten
DirtyRows(rows) ==
  IF touch_scene_syncs # 0 THEN Hull(rows \union touch_dirty) ELSE rows

\* The panel and both buffers carry the same highlights.
AgreedOn(buttons) == ~flip_req /\ lit = buttons /\ \A b \in Buffers : highlights[b] = buttons

\* The highlights follow the touched controls, not more than once in
\* kTouchUiRefreshIntervalMs.
ShowTouch(now) ==
  /\ touch_dirty' = DirtyRows(Hull((now \ displayed) \union (displayed \ now)))
  /\ touch_scene_syncs' = PanelBufferCount
  /\ displayed' = now
  /\ steady' = /\ steady \/ AgreedOn(displayed)
               /\ full_scene_syncs \in {0, PanelBufferCount}

PollTouch ==
  /\ pc = "touch"
  /\ \E now \in IF on_game THEN SUBSET Controls ELSE {{}} :
       /\ touch' = now
       /\ \/ /\ now # displayed
             /\ ShowTouch(now)
          \/ /\ steady' = (steady /\ now = touch)
             /\ UNCHANGED <<displayed, touch_scene_syncs, touch_dirty>>
  /\ pc' = "refresh"
  /\ UNCHANGED <<on_game, power_on, full_scene_syncs, skipped, skip_render, events, drawn, queue>>

\* refresh_current_page draws the page into both buffers, without highlights,
\* and waits until the panel shows it.  Five frames were queued: the front
\* buffer is the other one, after the frame that was queued before.
RefreshPage ==
  /\ pc = "refresh"
  /\ fresh' = [b \in Buffers |-> TRUE]
  /\ highlights' = [b \in Buffers |-> {}]
  /\ front' = IF flip_req THEN front ELSE back
  /\ flip_req' = FALSE /\ queued_rows' = {}
  /\ shown' = TRUE /\ lit' = {}
  /\ full_scene_syncs' = 0
  /\ skipped' = 0
  /\ steady' = (steady /\ displayed = {})
  /\ pc' = "act"
  /\ UNCHANGED <<on_game, power_on, touch, displayed, touch_scene_syncs, touch_dirty,
                 skip_render, events>>

NoRefresh ==
  /\ pc = "refresh"
  /\ pc' = "act"
  /\ UNCHANGED <<on_game, power_on, touch, displayed, touch_scene_syncs, touch_dirty,
                 full_scene_syncs, skipped, skip_render, events, steady, drawn, queue>>

-----------------------------------------------------------------------------
(* The actions of the touch screen and of the controllers.                 *)

\* FULLSCREEN and ROTATE restart the loop.
ChangeLayout ==
  /\ pc = "act"
  /\ Redraw(PanelBufferCount)
  /\ skipped' = 0
  /\ pc' = "poll"
  /\ UNCHANGED <<on_game, power_on, touch, displayed, touch_scene_syncs, touch_dirty,
                 skip_render, steady, highlights, frames>>

\* POWER, SAVE, LOAD, the SD card page, BATTERY refresh and changes of page.
\* The gamepad test page redraws itself in one buffer only.
Act ==
  /\ pc = "act"
  /\ \/ /\ NoRedraw
        /\ UNCHANGED <<on_game, power_on, skipped>>
     \/ /\ Redraw(PanelBufferCount)
        /\ on_game' \in BOOLEAN /\ power_on' \in BOOLEAN
        /\ skipped' \in {skipped, 0}
     \/ /\ ~on_game
        /\ Redraw(1)
        /\ UNCHANGED <<on_game, power_on, skipped>>
  /\ pc' = "render"
  /\ UNCHANGED <<touch, displayed, touch_scene_syncs, touch_dirty, skip_render, steady,
                 highlights, frames>>

-----------------------------------------------------------------------------
(* Drawing.                                                                *)

\* compose_scene draws everything, rotate_game_to_panel only the game.
ComposeScene(buttons) ==
  /\ fresh' = [fresh EXCEPT ![back] = TRUE]
  /\ highlights' = [highlights EXCEPT ![back] = buttons]
Submit(rows) ==
  /\ flip_req' = TRUE
  /\ queued_rows' = rows
  /\ UNCHANGED <<front, shown, lit>>

DueFrame(touches) == full_scene_syncs > 0 \/ touches > 0 \/ skipped >= RequiredSkips

TouchSyncs == IF full_scene_syncs # 0 THEN 0 ELSE touch_scene_syncs

\* The game runs: decide whether this frame is rendered, then emulate it.
Render ==
  /\ pc = "render" /\ on_game /\ power_on
  /\ touch_scene_syncs' = TouchSyncs
  /\ skip_render' = (~DueFrame(TouchSyncs) \/ ~CanSubmit \/ TouchSyncs > 0)
  /\ pc' = "submit"
  /\ UNCHANGED <<on_game, power_on, touch, displayed, touch_dirty, full_scene_syncs, skipped,
                 events, steady, drawn, queue>>

\* The emulator reported an error: the game is paused and the page redrawn.
Fault ==
  /\ pc = "submit"
  /\ Redraw(PanelBufferCount)
  /\ power_on' = FALSE
  /\ skipped' = 0 /\ skip_render' = FALSE
  /\ pc' = "poll"
  /\ UNCHANGED <<on_game, touch, displayed, touch_scene_syncs, touch_dirty, steady,
                 highlights, frames>>

\* Only the rows of the changed highlights.
SubmitTouch ==
  /\ pc = "submit" /\ touch_scene_syncs > 0 /\ CanSubmit
  /\ ComposeScene(touch)
  /\ Submit(touch_dirty)
  /\ touch_scene_syncs' = touch_scene_syncs - 1
  /\ skipped' = 0 /\ skip_render' = FALSE
  /\ pc' = "poll"
  /\ UNCHANGED <<on_game, power_on, touch, displayed, touch_dirty, full_scene_syncs, events,
                 steady>>

SkipFrame ==
  /\ pc = "submit" /\ ~(touch_scene_syncs > 0 /\ CanSubmit) /\ skip_render
  /\ skipped' = IF skipped < RequiredSkips THEN skipped + 1 ELSE skipped
  /\ skip_render' = FALSE
  /\ pc' = "poll"
  /\ UNCHANGED <<on_game, power_on, touch, displayed, touch_scene_syncs, touch_dirty,
                 full_scene_syncs, events, steady, drawn, queue>>

SubmitGame ==
  /\ pc = "submit" /\ ~(touch_scene_syncs > 0 /\ CanSubmit) /\ ~skip_render
  /\ IF full_scene_syncs > 0
       THEN /\ ComposeScene(touch)
            /\ Submit(AllRows)
            /\ full_scene_syncs' = full_scene_syncs - 1
       ELSE Submit(GameRows) /\ UNCHANGED <<drawn, full_scene_syncs>>
  /\ skipped' = 0 /\ skip_render' = FALSE
  /\ pc' = "poll"
  /\ UNCHANGED <<on_game, power_on, touch, displayed, touch_scene_syncs, touch_dirty, events,
                 steady>>

\* The paused game and the other pages are drawn when something has changed.
SubmitPage ==
  /\ pc = "render" /\ ~(on_game /\ power_on)
  /\ IF full_scene_syncs > 0 /\ CanSubmit
       THEN /\ ComposeScene(IF on_game THEN touch ELSE {})
            /\ Submit(AllRows)
            /\ full_scene_syncs' = full_scene_syncs - 1
       ELSE UNCHANGED <<drawn, queue, full_scene_syncs>>
  /\ pc' = "poll"
  /\ UNCHANGED <<on_game, power_on, touch, displayed, touch_scene_syncs, touch_dirty, skipped,
                 skip_render, events, steady>>

\* The driver puts the queued buffer in front and drives its rows.
Swap ==
  /\ flip_req
  /\ flip_req' = FALSE
  /\ front' = back
  /\ queued_rows' = {}
  /\ shown' = (IF queued_rows = AllRows THEN fresh[back] ELSE shown)
  /\ lit' = (lit \ queued_rows) \union (highlights[back] \intersect queued_rows)
  /\ UNCHANGED <<loop, drawn>>

Loop ==
  \/ PollChrome \/ PollTouch \/ RefreshPage \/ NoRefresh \/ ChangeLayout \/ Act
  \/ Render \/ Fault \/ SubmitTouch \/ SkipFrame \/ SubmitGame \/ SubmitPage

Next == Loop \/ Swap
Spec == Init /\ [][Next]_vars

\* The loop never stops, and the driver takes what is queued.
FairSpec == Spec /\ WF_vars(Loop) /\ WF_vars(Swap)

-----------------------------------------------------------------------------
TypeOK ==
  /\ pc \in {"poll", "touch", "refresh", "act", "render", "submit"}
  /\ on_game \in BOOLEAN /\ power_on \in BOOLEAN
  /\ touch \subseteq Controls /\ displayed \subseteq Controls
  /\ touch_scene_syncs \in 0 .. PanelBufferCount
  /\ touch_dirty \subseteq Controls
  /\ full_scene_syncs \in 0 .. PanelBufferCount
  /\ skipped \in 0 .. RequiredSkips
  /\ skip_render \in BOOLEAN
  /\ fresh \in [Buffers -> BOOLEAN]
  /\ highlights \in [Buffers -> SUBSET Controls]
  /\ front \in Buffers /\ flip_req \in BOOLEAN
  /\ queued_rows \subseteq AllRows
  /\ shown \in BOOLEAN /\ lit \subseteq Controls
  /\ events \in 0 .. MaxEvents
  /\ steady \in BOOLEAN

Playing == on_game /\ power_on
Quiet == Playing /\ full_scene_syncs = 0 /\ touch_scene_syncs = 0 /\ ~flip_req

\* Game frames and touch highlights are queued with a few rows only.  On the
\* game page that happens when no full scene is left to draw, and then both
\* buffers have the current chrome and the panel shows it or is about to: the
\* rows left out are those on show, which is what PanelClient takes for granted
\* of its frames.
ChromeOnBoth ==
  on_game /\ full_scene_syncs = 0 =>
    /\ \A b \in Buffers : fresh[b]
    /\ shown \/ (flip_req /\ queued_rows = AllRows)

\* Once drawing has caught up with a touch that has not changed since it was
\* noticed, the panel and both buffers carry its highlights: frames of the game
\* alternate between the buffers and must not make the controls flicker.
HighlightsSettle == Quiet /\ steady /\ displayed = touch => AgreedOn(touch)

\* The two buffers and the panel agree on the chrome and on the highlights, whatever
\* order touches, changes of the page and frames of the game came in.
BuffersAgree == TypeOK /\ ChromeOnBoth /\ HighlightsSettle

\* A change of what the page shows reaches the panel, whatever is touched.
ChromeReachesPanel == (~shown ~> shown)
=============================================================================
