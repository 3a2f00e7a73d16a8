----------------------------- MODULE ConsoleProofs -----------------------------
(***************************************************************************)
(* Proofs about the two halves of a pass of run_console: what it shows     *)
(* (ConsoleDisplay: what the two panel buffers and the panel still lack is *)
(* what full_scene_syncs and touch_scene_syncs count) and what it takes in *)
(* (Controllers: chords, menus and fingers, for every scene, every set of  *)
(* points of the screen, and every clock and delay).  At the end, about    *)
(* the geometry both rest on (TouchMap), for every point of the screen.    *)
(***************************************************************************)
EXTENDS MCConsole, Controllers, FiniteSetTheorems, WellFoundedInduction, TLAPS

----------------------------------------------------------------------------
(* The inductive invariant.                                                 *)

(* A frame is emulated on the game page only, and what decided against its  *)
(* being rendered still holds when it is submitted.                         *)
SubmitInv ==
  pc = "submit" =>
    /\ on_game
    /\ full_scene_syncs > 0 => touch_scene_syncs = 0
    /\ ~skip_render => ~flip_req /\ touch_scene_syncs = 0

(* The chrome: each full scene mends one buffer, then the panel.            *)
ChromeInv ==
  on_game =>
    /\ full_scene_syncs = 0 =>
         /\ \A b \in Buffers : fresh[b]
         /\ shown \/ (flip_req /\ queued_rows = AllRows)
    /\ full_scene_syncs = 1 =>
         IF flip_req THEN fresh[back] /\ queued_rows = AllRows ELSE fresh[front] /\ shown

(* The highlights s show the touched controls but for some rows.            *)
ShowsBut(rows, s) == \A r \in Controls \ rows : r \in s <=> r \in touch

(* The rows that the queued frame is going to drive.                        *)
Coming == IF flip_req THEN queued_rows ELSE {}

(* The buffer drawn last.                                                   *)
Newest == IF flip_req THEN back ELSE front

(* The highlights: as many buffers lack them as there are scenes to draw,   *)
(* in no rows but those noted, and so does the panel.                       *)
HighlightsInv ==
  steady =>
    /\ displayed = touch
    /\ on_game /\ full_scene_syncs = 1 =>
         /\ highlights[Newest] = touch
         /\ IF flip_req THEN queued_rows = AllRows ELSE lit = touch
    /\ on_game /\ full_scene_syncs = 0 =>
         /\ \A b \in Buffers : ShowsBut(touch_dirty, highlights[b])
         /\ touch_scene_syncs < 2 => highlights[Newest] = touch /\ ShowsBut(Coming, lit)
         /\ touch_scene_syncs = 0 => \A b \in Buffers : highlights[b] = touch
         /\ touch_scene_syncs = 2 => ShowsBut(Coming \union touch_dirty, lit)

IInv == TypeOK /\ SubmitInv /\ ChromeInv /\ HighlightsInv

----------------------------------------------------------------------------
LEMMA RowFacts ==
  /\ Controls \subseteq Nat \ {0} /\ RequiredSkips \in Nat /\ MaxEvents \in Nat
  /\ 0 \notin Controls /\ Controls \subseteq AllRows /\ Controls # AllRows
  BY ControlsAssumption, SkipsAssumption, EventsAssumption DEF AllRows

(* The rows between those given: among the controls', and all of those given. *)
LEMMA HullFacts ==
  ASSUME NEW rows \in SUBSET Controls
  PROVE  Hull(rows) \subseteq Controls /\ rows \subseteq Hull(rows)
  BY RowFacts DEF Hull

LEMMA DirtyFacts ==
  ASSUME TypeOK, NEW rows \in SUBSET Controls
  PROVE  /\ DirtyRows(rows) \subseteq Controls /\ rows \subseteq DirtyRows(rows)
         /\ touch_scene_syncs # 0 => touch_dirty \subseteq DirtyRows(rows)
<1>1. rows \union touch_dirty \in SUBSET Controls
  BY DEF TypeOK
<1> QED
  BY <1>1, HullFacts DEF DirtyRows

LEMMA InitHolds ==
  ASSUME Init
  PROVE  IInv
<1>1. TypeOK
  <2>1. 0 \in 0 .. RequiredSkips /\ 0 \in 0 .. MaxEvents /\ 0 \in 0 .. 2 /\ 1 \in Buffers
    BY RowFacts DEF Buffers
  <2>2. fresh \in [Buffers -> BOOLEAN] /\ highlights \in [Buffers -> SUBSET Controls]
    BY DEF Init
  <2> QED
    BY <2>1, <2>2 DEF Init, TypeOK, PanelBufferCount
<1>2. SubmitInv /\ ChromeInv /\ HighlightsInv
  BY DEF Init, SubmitInv, ChromeInv, HighlightsInv, Buffers, ShowsBut, Coming, Newest, back
<1> QED
  BY <1>1, <1>2 DEF IInv

----------------------------------------------------------------------------
LEMMA StepType ==
  ASSUME TypeOK, Next
  PROVE  TypeOK'
<1> USE DEF TypeOK, loop, drawn, queue, frames, Buffers, PanelBufferCount
<1>1. back \in Buffers /\ 0 \in 0 .. RequiredSkips
  BY RowFacts DEF back
<1>2. CASE PollChrome \/ ChangeLayout \/ Act \/ Fault
  <2>0. NoRedraw \/ Redraw(PanelBufferCount) \/ Redraw(1)
    BY <1>2 DEF PollChrome, ChangeLayout, Act, Fault
  <2>1. /\ events' \in 0 .. MaxEvents /\ fresh' \in [Buffers -> BOOLEAN] /\ shown' \in BOOLEAN
        /\ full_scene_syncs' \in 0 .. PanelBufferCount
    <3>1. CASE NoRedraw
      BY <3>1 DEF NoRedraw
    <3>2. ASSUME NEW count \in 1 .. 2, Redraw(count)
          PROVE  /\ events' \in 0 .. MaxEvents /\ fresh' \in [Buffers -> BOOLEAN]
                 /\ shown' \in BOOLEAN /\ full_scene_syncs' \in 0 .. PanelBufferCount
      <4>1. events' \in 0 .. MaxEvents
        BY <3>2, RowFacts DEF Redraw
      <4>2. fresh' \in [Buffers -> BOOLEAN]
        BY <3>2 DEF Redraw, Stale
      <4>3. shown' \in BOOLEAN
        BY <3>2, Zenon DEF Redraw
      <4>4. full_scene_syncs' \in 0 .. PanelBufferCount
        BY <3>2 DEF Redraw
      <4> QED
        BY <4>1, <4>2, <4>3, <4>4
    <3> QED
      BY <2>0, <3>1, <3>2
  <2>2. CASE PollChrome
    BY <2>1, <2>2 DEF PollChrome
  <2>3. CASE ChangeLayout
    BY <1>1, <2>1, <2>3 DEF ChangeLayout
  <2>4. CASE Act
    <3>1. on_game' \in BOOLEAN /\ power_on' \in BOOLEAN /\ skipped' \in 0 .. RequiredSkips
      BY <1>1, <2>4 DEF Act
    <3> QED
      BY <2>1, <2>4, <3>1 DEF Act
  <2>5. CASE Fault
    BY <1>1, <2>1, <2>5 DEF Fault
  <2> QED
    BY <1>2, <2>2, <2>3, <2>4, <2>5
<1>3. CASE RefreshPage \/ NoRefresh
  <2>1. CASE RefreshPage
    <3>1. fresh' \in [Buffers -> BOOLEAN] /\ highlights' \in [Buffers -> SUBSET Controls]
          /\ front' \in Buffers /\ steady' \in BOOLEAN
      BY <1>1, <2>1 DEF RefreshPage
    <3>2. /\ full_scene_syncs' \in 0 .. 2 /\ skipped' \in 0 .. RequiredSkips
          /\ queued_rows' \subseteq AllRows /\ lit' \subseteq Controls
          /\ shown' \in BOOLEAN /\ flip_req' \in BOOLEAN /\ pc' = "act"
      <4>1. /\ full_scene_syncs' = 0 /\ skipped' = 0 /\ queued_rows' = {} /\ lit' = {}
            /\ shown' = TRUE /\ flip_req' = FALSE /\ pc' = "act"
        BY <2>1 DEF RefreshPage
      <4>2. shown' \in BOOLEAN /\ flip_req' \in BOOLEAN /\ pc' = "act"
        BY <4>1, Zenon
      <4>3. full_scene_syncs' \in 0 .. 2 /\ skipped' \in 0 .. RequiredSkips
        BY <1>1, <4>1
      <4> QED
        BY <4>1, <4>2, <4>3
    <3>3. UNCHANGED <<on_game, power_on, touch, displayed, touch_scene_syncs, touch_dirty,
                      skip_render, events>>
      BY <2>1 DEF RefreshPage
    <3> HIDE DEF Buffers
    <3> QED
      BY <3>1, <3>2, <3>3
  <2>2. CASE NoRefresh
    BY <2>2 DEF NoRefresh
  <2> QED
    BY <1>3, <2>1, <2>2
<1>4. CASE PollTouch
  <2>1. PICK touched \in SUBSET Controls :
          /\ touch' = touched
          /\ \/ ShowTouch(touched)
             \/ /\ steady' = (steady /\ touched = touch)
                /\ UNCHANGED <<displayed, touch_scene_syncs, touch_dirty>>
    BY <1>4 DEF PollTouch
  <2>2. UNCHANGED <<on_game, power_on, full_scene_syncs, skipped, skip_render, events, drawn, queue>>
        /\ pc' = "refresh"
    BY <1>4 DEF PollTouch
  <2>3. CASE ShowTouch(touched)
    <3>1. (touched \ displayed) \union (displayed \ touched) \in SUBSET Controls
      OBVIOUS
    <3>2. Hull((touched \ displayed) \union (displayed \ touched)) \in SUBSET Controls
      BY <3>1, HullFacts
    <3>3. touch_dirty' \subseteq Controls /\ steady' \in BOOLEAN
      BY <2>3, <3>2, DirtyFacts DEF ShowTouch
    <3> QED
      BY <2>1, <2>2, <2>3, <3>3 DEF ShowTouch
  <2>4. CASE /\ steady' = (steady /\ touched = touch)
             /\ UNCHANGED <<displayed, touch_scene_syncs, touch_dirty>>
    <3>1. steady' \in BOOLEAN
      BY <2>4
    <3> QED
      BY <2>1, <2>2, <2>4, <3>1
  <2> QED
    BY <2>1, <2>3, <2>4
<1>5. CASE Render \/ SkipFrame
  <2>1. CASE Render
    <3>1. touch_scene_syncs' \in 0 .. 2 /\ skip_render' \in BOOLEAN
      BY <2>1 DEF Render, TouchSyncs
    <3> QED
      BY <2>1, <3>1 DEF Render
  <2>2. CASE SkipFrame
    <3>1. skipped' \in 0 .. RequiredSkips
      BY <2>2, RowFacts DEF SkipFrame
    <3> QED
      BY <2>2, <3>1 DEF SkipFrame
  <2> QED
    BY <1>5, <2>1, <2>2
<1>6. CASE SubmitTouch \/ SubmitGame \/ SubmitPage
  <2>1. fresh' \in [Buffers -> BOOLEAN] /\ highlights' \in [Buffers -> SUBSET Controls]
    BY <1>1, <1>6 DEF SubmitTouch, SubmitGame, SubmitPage, ComposeScene
  <2>2. queued_rows' \subseteq AllRows /\ flip_req' \in BOOLEAN /\ UNCHANGED <<front, shown, lit>>
    BY <1>6, RowFacts DEF SubmitTouch, SubmitGame, SubmitPage, Submit, GameRows
  <2>3. /\ full_scene_syncs' \in 0 .. 2 /\ touch_scene_syncs' \in 0 .. 2
        /\ skipped' \in 0 .. RequiredSkips
    BY <1>1, <1>6 DEF SubmitTouch, SubmitGame, SubmitPage
  <2>4. /\ pc' = "poll" /\ skip_render' \in BOOLEAN
        /\ UNCHANGED <<on_game, power_on, touch, displayed, touch_dirty, events, steady>>
    BY <1>6 DEF SubmitTouch, SubmitGame, SubmitPage
  <2> QED
    BY <2>1, <2>2, <2>3, <2>4
<1>7. CASE Swap
  <2>1. lit' \subseteq Controls /\ shown' \in BOOLEAN
    BY <1>1, <1>7 DEF Swap
  <2> QED
    BY <1>1, <1>7, <2>1 DEF Swap
<1> QED
  BY <1>2, <1>3, <1>4, <1>5, <1>6, <1>7 DEF Next, Loop

LEMMA StepSubmit ==
  ASSUME IInv, Next
  PROVE  SubmitInv'
<1> USE DEF IInv, TypeOK, SubmitInv, loop, drawn, queue, frames
<1>1. CASE Render
  <2>1. /\ on_game' /\ flip_req' = flip_req /\ full_scene_syncs' = full_scene_syncs
        /\ touch_scene_syncs' = TouchSyncs
        /\ skip_render' = (~DueFrame(TouchSyncs) \/ ~CanSubmit \/ TouchSyncs > 0)
    BY <1>1 DEF Render
  <2>2. TouchSyncs \in 0 .. 2 /\ (full_scene_syncs > 0 => TouchSyncs = 0)
    BY DEF TouchSyncs, PanelBufferCount
  <2>3. ~skip_render' => ~flip_req /\ ~(TouchSyncs > 0)
    BY <2>1 DEF CanSubmit
  <2> QED
    BY <2>1, <2>2, <2>3
<1>2. CASE Swap
  BY <1>2 DEF Swap
<1>3. CASE PollChrome \/ PollTouch \/ RefreshPage \/ NoRefresh \/ ChangeLayout \/ Act
  BY <1>3 DEF PollChrome, PollTouch, RefreshPage, NoRefresh, ChangeLayout, Act
<1>4. CASE Fault \/ SubmitTouch \/ SkipFrame \/ SubmitGame \/ SubmitPage
  BY <1>4 DEF Fault, SubmitTouch, SkipFrame, SubmitGame, SubmitPage
<1> QED
  BY <1>1, <1>2, <1>3, <1>4 DEF Next, Loop

(* Something new to show is to be drawn twice, or the page is not the game. *)
LEMMA RedrawKeepsChrome ==
  ASSUME IInv, Redraw(PanelBufferCount) \/ (Redraw(1) /\ ~on_game')
  PROVE  ChromeInv'
  BY DEF Redraw, ChromeInv, PanelBufferCount

LEMMA StepChrome ==
  ASSUME IInv, Next
  PROVE  ChromeInv'
<1> USE DEF loop, drawn, queue, frames
<1>1. back = 1 - front /\ front \in Buffers /\ back \in Buffers /\ front # back
      /\ fresh \in [Buffers -> BOOLEAN] /\ flip_req \in BOOLEAN /\ shown \in BOOLEAN
      /\ full_scene_syncs \in 0 .. 2
      /\ \A b \in Buffers : b = front \/ b = back
  BY DEF IInv, TypeOK, back, Buffers, PanelBufferCount
<1>2. CASE PollChrome \/ PollTouch \/ NoRefresh \/ ChangeLayout \/ Act \/ Render \/ Fault \/ SkipFrame
  <2>1. CASE \/ Redraw(PanelBufferCount)
             \/ Redraw(1) /\ ~on_game'
    BY <2>1, RedrawKeepsChrome
  <2>2. CASE UNCHANGED <<on_game, full_scene_syncs, fresh, shown, flip_req, queued_rows, front>>
    BY <2>2 DEF IInv, ChromeInv, back
  <2> QED
    BY <1>2, <2>1, <2>2 DEF PollChrome, PollTouch, NoRefresh, ChangeLayout, Act, Render, Fault,
       SkipFrame, NoRedraw
<1>3. CASE RefreshPage
  BY <1>3 DEF RefreshPage, ChromeInv
<1>4. CASE SubmitTouch
  <2>1. /\ ~flip_req /\ full_scene_syncs = 0 /\ full_scene_syncs' = 0 /\ on_game
        /\ fresh' = [fresh EXCEPT ![back] = TRUE] /\ UNCHANGED <<front, shown>>
    BY <1>1, <1>4 DEF SubmitTouch, ComposeScene, Submit, CanSubmit, IInv, SubmitInv
  <2> QED
    BY <1>1, <2>1 DEF IInv, ChromeInv
<1> DEFINE GameOnly == UNCHANGED <<drawn, full_scene_syncs>>
           Scene == full_scene_syncs > 0 /\ full_scene_syncs' = full_scene_syncs - 1
<1>5. CASE (SubmitGame \/ SubmitPage) /\ GameOnly
  <2>1. UNCHANGED <<on_game, front, shown>>
    BY <1>5 DEF SubmitGame, SubmitPage, Submit
  <2>2. on_game /\ full_scene_syncs = 0 => shown \/ (flip_req /\ queued_rows = AllRows)
    BY DEF IInv, ChromeInv
  <2>3. CASE UNCHANGED queue
    BY <1>5, <2>1, <2>3 DEF IInv, ChromeInv, back
  <2>4. CASE SubmitGame
    <3>1. ~flip_req /\ ~(full_scene_syncs > 0)
      BY <1>1, <1>5, <2>4 DEF SubmitGame, IInv, SubmitInv
    <3> QED
      BY <1>1, <1>5, <2>1, <2>2, <3>1 DEF IInv, ChromeInv
  <2> QED
    BY <1>1, <1>5, <2>3, <2>4 DEF SubmitPage
<1>6. CASE (SubmitGame \/ SubmitPage) /\ Scene
  <2>1. /\ ~flip_req /\ flip_req' = TRUE /\ queued_rows' = AllRows
        /\ fresh' = [fresh EXCEPT ![back] = TRUE]
        /\ UNCHANGED <<on_game, front, shown>>
    BY <1>1, <1>6 DEF SubmitGame, SubmitPage, ComposeScene, Submit, CanSubmit, IInv, SubmitInv
  <2>2. fresh'[back'] /\ back' = back /\ full_scene_syncs \in 1 .. 2
    BY <1>1, <1>6, <2>1 DEF back
  <2>3. CASE full_scene_syncs = 2
    BY <1>6, <2>1, <2>2, <2>3 DEF ChromeInv
  <2>4. CASE full_scene_syncs = 1
    BY <1>1, <1>6, <2>1, <2>2, <2>4 DEF IInv, ChromeInv
  <2> QED
    BY <2>2, <2>3, <2>4
<1>7. CASE Swap
  <2>1. /\ flip_req /\ ~flip_req' /\ front' = back /\ back' = front
        /\ UNCHANGED <<fresh, on_game, full_scene_syncs>>
        /\ shown' = (IF queued_rows = AllRows THEN fresh[back] ELSE shown)
    BY <1>1, <1>7 DEF Swap, back, Buffers
  <2> QED
    BY <1>1, <2>1 DEF IInv, ChromeInv
<1> QED
  <2>1. SubmitGame \/ SubmitPage => GameOnly \/ Scene
    BY <1>1 DEF SubmitGame, SubmitPage
  <2> QED
    BY <1>2, <1>3, <1>4, <1>5, <1>6, <1>7, <2>1 DEF Next, Loop

(* A touch is noticed: from here on its rows are those to be drawn.         *)
LEMMA TouchKeepsHighlights ==
  ASSUME IInv, PollTouch
  PROVE  HighlightsInv'
<1> USE DEF loop, drawn, queue, frames
<1>1. PICK touched \in SUBSET Controls :
        /\ touch' = touched
        /\ \/ ShowTouch(touched)
           \/ /\ steady' = (steady /\ touched = touch)
              /\ UNCHANGED <<displayed, touch_scene_syncs, touch_dirty>>
  BY DEF PollTouch
<1>2. UNCHANGED <<on_game, full_scene_syncs, highlights, flip_req, queued_rows, front, lit>>
  BY DEF PollTouch
<1>3. Coming' = Coming /\ Newest' = Newest /\ back' = back
  BY <1>2 DEF Coming, Newest, back
<1>4. /\ displayed \in SUBSET Controls /\ touch_dirty \in SUBSET Controls
      /\ touch_scene_syncs \in 0 .. 2 /\ full_scene_syncs \in 0 .. 2
      /\ flip_req \in BOOLEAN /\ steady \in BOOLEAN
  BY DEF IInv, TypeOK, PanelBufferCount
<1>5. CASE ShowTouch(touched)
  <2> DEFINE changed == (touched \ displayed) \union (displayed \ touched)
  <2>1. /\ touch_dirty' = DirtyRows(Hull(changed)) /\ touch_scene_syncs' = 2 /\ displayed' = touched
        /\ steady' = ((steady \/ AgreedOn(displayed)) /\ full_scene_syncs \in {0, 2})
    BY <1>5 DEF ShowTouch, PanelBufferCount
  <2>2. Hull(changed) \in SUBSET Controls /\ changed \subseteq Hull(changed)
    <3>1. changed \in SUBSET Controls
      BY <1>4
    <3> QED
      BY <3>1, HullFacts
  <2>3. /\ changed \subseteq touch_dirty'
        /\ touch_scene_syncs # 0 => touch_dirty \subseteq touch_dirty'
    BY <2>1, <2>2, DirtyFacts DEF IInv
  <2>4. \A r \in Controls \ touch_dirty' : r \in touched <=> r \in displayed
    BY <2>3
  <2>5. ASSUME steady', on_game, full_scene_syncs = 0
        PROVE  /\ \A b \in Buffers : ShowsBut(touch_dirty, highlights[b])'
               /\ ShowsBut(Coming \union touch_dirty, lit)'
    <3>1. CASE steady
      <4>1. /\ displayed = touch
            /\ \A b \in Buffers : ShowsBut(touch_dirty, highlights[b])
            /\ touch_scene_syncs < 2 => ShowsBut(Coming, lit)
            /\ touch_scene_syncs = 0 => \A b \in Buffers : highlights[b] = touch
            /\ touch_scene_syncs = 2 => ShowsBut(Coming \union touch_dirty, lit)
        BY <2>5, <3>1 DEF IInv, HighlightsInv
      <4>2. ASSUME NEW r \in Controls \ touch_dirty'
            PROVE  \A b \in Buffers : r \in highlights[b] <=> r \in touched
        BY <1>4, <2>3, <2>4, <4>1, <4>2 DEF ShowsBut
      <4>3. ASSUME NEW r \in Controls \ (Coming \union touch_dirty')
            PROVE  r \in lit <=> r \in touched
        BY <1>4, <2>3, <2>4, <4>1, <4>3 DEF ShowsBut
      <4> QED
        BY <1>1, <1>2, <1>3, <4>2, <4>3 DEF ShowsBut
    <3>2. CASE AgreedOn(displayed)
      BY <1>1, <1>2, <1>3, <2>4, <3>2 DEF AgreedOn, ShowsBut
    <3> QED
      BY <2>1, <2>5, <3>1, <3>2
  <2>6. steady' => displayed' = touch' /\ full_scene_syncs' # 1
    <3>1. displayed' = touch'
      BY <1>1, <2>1
    <3>2. steady' => full_scene_syncs \in {0, 2}
      BY <2>1, Zenon
    <3> QED
      BY <1>2, <3>1, <3>2
  <2> QED
    BY <1>2, <2>1, <2>5, <2>6 DEF HighlightsInv
<1>6. CASE /\ steady' = (steady /\ touched = touch)
           /\ UNCHANGED <<displayed, touch_scene_syncs, touch_dirty>>
  BY <1>1, <1>2, <1>3, <1>6 DEF IInv, HighlightsInv, ShowsBut
<1> QED
  BY <1>1, <1>5, <1>6

LEMMA StepHighlights ==
  ASSUME IInv, Next
  PROVE  HighlightsInv'
<1> USE DEF loop, drawn, queue, frames
<1>1. /\ back = 1 - front /\ front \in Buffers /\ back \in Buffers /\ front # back
      /\ \A b \in Buffers : b = front \/ b = back
      /\ highlights \in [Buffers -> SUBSET Controls]
      /\ flip_req \in BOOLEAN /\ steady \in BOOLEAN /\ touch \subseteq Controls
      /\ lit \subseteq Controls
      /\ full_scene_syncs \in 0 .. 2 /\ touch_scene_syncs \in 0 .. 2
  BY DEF IInv, TypeOK, back, Buffers, PanelBufferCount
<1>2. HighlightsInv
  BY DEF IInv
<1>3. CASE PollTouch
  BY <1>3, TouchKeepsHighlights
<1>4. CASE PollChrome \/ NoRefresh \/ ChangeLayout \/ Act \/ Render \/ Fault \/ SkipFrame
  <2>1. UNCHANGED <<touch, displayed, touch_dirty, steady, highlights, front, flip_req, queued_rows, lit>>
    BY <1>4 DEF PollChrome, NoRefresh, ChangeLayout, Act, Render, Fault, SkipFrame, NoRedraw
  <2>2. \/ full_scene_syncs' = 2
        \/ ~on_game' /\ full_scene_syncs' = 1
        \/ UNCHANGED <<on_game, full_scene_syncs, touch_scene_syncs>>
        \/ UNCHANGED <<on_game, full_scene_syncs>> /\ full_scene_syncs > 0
    BY <1>1, <1>4 DEF PollChrome, NoRefresh, ChangeLayout, Act, Render, Fault, SkipFrame, NoRedraw,
       Redraw, PanelBufferCount, TouchSyncs
  <2>3. back' = back /\ Coming' = Coming /\ Newest' = Newest
    BY <2>1 DEF back, Coming, Newest
  <2> QED
    BY <1>2, <2>1, <2>2, <2>3 DEF HighlightsInv, ShowsBut
<1>5. CASE RefreshPage
  <2>1. /\ \A b \in Buffers : highlights'[b] = {}
        /\ lit' = {} /\ ~flip_req' /\ full_scene_syncs' = 0
        /\ touch' = touch /\ displayed' = displayed /\ (steady' => steady /\ displayed = {})
        /\ front' \in Buffers
    BY <1>1, <1>5 DEF RefreshPage
  <2> QED
    BY <1>2, <2>1 DEF HighlightsInv, ShowsBut, Newest
<1>6. CASE SubmitTouch
  <2>1. /\ ~flip_req /\ flip_req' = TRUE /\ full_scene_syncs = 0 /\ on_game /\ touch_scene_syncs \in 1 .. 2
        /\ highlights' = [highlights EXCEPT ![back] = touch]
        /\ touch_scene_syncs' = touch_scene_syncs - 1 /\ queued_rows' = touch_dirty
        /\ UNCHANGED <<on_game, touch, displayed, touch_dirty, full_scene_syncs, steady, front, lit>>
    BY <1>1, <1>6 DEF SubmitTouch, ComposeScene, Submit, CanSubmit, IInv, SubmitInv
  <2>2. highlights'[back] = touch /\ highlights'[front] = highlights[front] /\ back' = back
    BY <1>1, <2>1 DEF back
  <2>3. Coming' = touch_dirty /\ Coming = {} /\ Newest' = back /\ Newest = front
    BY <2>1, <2>2 DEF Coming, Newest
  <2>4. CASE ~steady
    BY <2>1, <2>4 DEF HighlightsInv
  <2>5. CASE steady
    <3>1. /\ displayed = touch /\ ShowsBut(touch_dirty, highlights[front])
          /\ touch_scene_syncs < 2 => highlights[front] = touch /\ ShowsBut({}, lit)
          /\ touch_scene_syncs = 2 => ShowsBut(touch_dirty, lit)
      BY <1>1, <1>2, <2>1, <2>3, <2>5 DEF HighlightsInv
    <3>2. ShowsBut(touch_dirty, lit)
      BY <1>1, <3>1 DEF ShowsBut
    <3>3. \A b \in Buffers : ShowsBut(touch_dirty, highlights[b])'
      BY <1>1, <2>1, <2>2, <3>1 DEF ShowsBut
    <3>4. ShowsBut(Coming, lit)'
      BY <2>1, <2>3, <3>2 DEF ShowsBut
    <3>5. touch_scene_syncs' = 0 => \A b \in Buffers : highlights'[b] = touch
      BY <1>1, <2>1, <2>2, <3>1
    <3> QED
      BY <2>1, <2>2, <2>3, <3>1, <3>3, <3>4, <3>5 DEF HighlightsInv
  <2> QED
    BY <2>4, <2>5
<1> DEFINE GameOnly == UNCHANGED <<highlights, full_scene_syncs>>
           Scene == full_scene_syncs > 0 /\ full_scene_syncs' = full_scene_syncs - 1
<1>7. CASE (SubmitGame \/ SubmitPage) /\ GameOnly
  <2>1. UNCHANGED <<on_game, touch, displayed, touch_dirty, touch_scene_syncs, steady, front, lit>>
    BY <1>7 DEF SubmitGame, SubmitPage, Submit
  <2>2. CASE UNCHANGED queue
    <3>1. back' = back /\ Coming' = Coming /\ Newest' = Newest
      BY <2>2 DEF back, Coming, Newest
    <3> QED
      BY <1>2, <1>7, <2>1, <2>2, <3>1 DEF HighlightsInv, ShowsBut
  <2>3. CASE SubmitGame
    <3>1. ~flip_req /\ full_scene_syncs = 0 /\ touch_scene_syncs = 0 /\ on_game
      BY <1>1, <1>7, <2>3 DEF SubmitGame, IInv, SubmitInv
    <3>2. Newest' \in Buffers /\ Coming = {}
      BY <1>1, <2>1, <3>1 DEF Newest, Coming, back
    <3> QED
      BY <1>2, <1>7, <2>1, <3>1, <3>2 DEF HighlightsInv, ShowsBut
  <2> QED
    BY <1>1, <1>7, <2>2, <2>3 DEF SubmitPage
<1>8. CASE (SubmitGame \/ SubmitPage) /\ Scene
  <2>1. /\ ~flip_req /\ flip_req' = TRUE /\ queued_rows' = AllRows
        /\ (on_game => highlights' = [highlights EXCEPT ![back] = touch])
        /\ UNCHANGED <<on_game, touch, displayed, touch_dirty, touch_scene_syncs, steady, front, lit>>
    BY <1>1, <1>8 DEF SubmitGame, SubmitPage, ComposeScene, Submit, CanSubmit, IInv, SubmitInv
  <2>2. back' = back /\ Newest' = back /\ Newest = front /\ Coming' = AllRows
    BY <2>1 DEF back, Newest, Coming
  <2>3. CASE ~steady \/ ~on_game
    BY <1>2, <2>1, <2>3 DEF HighlightsInv
  <2>4. CASE steady /\ on_game
    <3>1. highlights'[back] = touch /\ highlights'[front] = highlights[front] /\ displayed = touch
      BY <1>1, <1>2, <2>1, <2>4 DEF HighlightsInv
    <3>2. full_scene_syncs = 1 => \A b \in Buffers : highlights'[b] = touch
      BY <1>1, <1>2, <2>2, <2>4, <3>1 DEF HighlightsInv
    <3>3. ShowsBut(Coming, lit)' /\ ShowsBut(Coming \union touch_dirty, lit)'
      BY <2>2, RowFacts DEF ShowsBut
    <3>4. full_scene_syncs' = 1 \/ (full_scene_syncs' = 0 /\ full_scene_syncs = 1)
      BY <1>1, <1>8
    <3>5. full_scene_syncs' = 0 => \A b \in Buffers : ShowsBut(touch_dirty, highlights[b])'
      BY <2>1, <3>2, <3>4 DEF ShowsBut
    <3> QED
      BY <2>1, <2>2, <3>1, <3>2, <3>3, <3>4, <3>5 DEF HighlightsInv
  <2> QED
    BY <2>3, <2>4
<1>9. CASE Swap
  <2>1. /\ flip_req /\ ~flip_req' /\ front' = back
        /\ lit' = (lit \ queued_rows) \union (highlights[back] \intersect queued_rows)
        /\ UNCHANGED <<on_game, touch, displayed, touch_dirty, full_scene_syncs, touch_scene_syncs,
                       steady, highlights>>
    BY <1>9 DEF Swap
  <2>2. Newest = back /\ Newest' = back /\ Coming = queued_rows /\ Coming' = {}
    BY <2>1 DEF Newest, Coming
  <2>3. CASE ~steady \/ ~on_game \/ full_scene_syncs = 2
    BY <1>2, <2>1, <2>3 DEF HighlightsInv
  <2>4. CASE steady /\ on_game /\ full_scene_syncs = 1
    <3>1. highlights[back] = touch /\ queued_rows = AllRows /\ displayed = touch
      BY <1>2, <2>1, <2>2, <2>4 DEF HighlightsInv
    <3>2. lit' = touch
      BY <1>1, <2>1, <3>1, RowFacts
    <3> QED
      BY <2>1, <2>2, <2>4, <3>1, <3>2 DEF HighlightsInv
  <2>5. CASE steady /\ on_game /\ full_scene_syncs = 0
    <3>1. /\ displayed = touch
          /\ \A b \in Buffers : ShowsBut(touch_dirty, highlights[b])
          /\ touch_scene_syncs < 2 => highlights[back] = touch /\ ShowsBut(queued_rows, lit)
          /\ touch_scene_syncs = 0 => \A b \in Buffers : highlights[b] = touch
          /\ touch_scene_syncs = 2 => ShowsBut(queued_rows \union touch_dirty, lit)
      BY <1>2, <2>2, <2>5 DEF HighlightsInv
    <3>2. touch_scene_syncs < 2 => ShowsBut({}, lit)'
      BY <2>1, <3>1 DEF ShowsBut
    <3>3. touch_scene_syncs = 2 => ShowsBut(touch_dirty, lit)'
      BY <1>1, <2>1, <3>1 DEF ShowsBut
    <3>4. \A b \in Buffers : ShowsBut(touch_dirty, highlights[b])'
      BY <2>1, <3>1 DEF ShowsBut
    <3> QED
      BY <2>1, <2>2, <2>5, <3>1, <3>2, <3>3, <3>4 DEF HighlightsInv, ShowsBut
  <2> QED
    BY <1>1, <2>3, <2>4, <2>5
<1> QED
  <2>1. SubmitGame \/ SubmitPage => GameOnly \/ Scene
    BY <1>1 DEF SubmitGame, SubmitPage
  <2> QED
    BY <1>3, <1>4, <1>5, <1>6, <1>7, <1>8, <1>9, <2>1 DEF Next, Loop

----------------------------------------------------------------------------
LEMMA Invariant == Spec => []IInv
<1>1. Init => IInv
  BY InitHolds
<1>2. IInv /\ [Next]_vars => IInv'
  <2>1. IInv /\ Next => IInv'
    BY StepType, StepSubmit, StepChrome, StepHighlights DEF IInv
  <2>2. IInv /\ UNCHANGED vars => IInv'
    BY DEF vars, loop, drawn, queue, IInv, TypeOK, SubmitInv, ChromeInv, HighlightsInv, ShowsBut,
       Coming, Newest, back
  <2> QED
    BY <2>1, <2>2
<1> QED
  BY <1>1, <1>2, PTL DEF Spec

(* Whatever is touched, changed or redrawn, in whatever order, and for any   *)
(* controls: frames with a few rows only are queued when both buffers carry  *)
(* the current page, and once the drawing in run_console has caught up, the  *)
(* panel and both buffers carry the highlights of the touched controls.      *)
THEOREM BuffersStayAgreed == Spec => []BuffersAgree
<1>1. IInv => BuffersAgree
  <2> SUFFICES ASSUME IInv PROVE BuffersAgree
    OBVIOUS
  <2>1. TypeOK /\ ChromeOnBoth
    BY DEF IInv, ChromeInv, ChromeOnBoth
  <2>2. ASSUME Quiet, steady, displayed = touch PROVE AgreedOn(touch)
    <3>1. /\ ~flip_req /\ Coming = {}
          /\ \A b \in Buffers : highlights[b] = touch
          /\ ShowsBut({}, lit)
      BY <2>2 DEF Quiet, Playing, IInv, HighlightsInv, Coming
    <3>2. lit = touch
      BY <3>1 DEF ShowsBut, IInv, TypeOK
    <3> QED
      BY <3>1, <3>2 DEF AgreedOn
  <2> QED
    BY <2>1, <2>2 DEF BuffersAgree, HighlightsSettle
<1> QED
  BY <1>1, Invariant, PTL

----------------------------------------------------------------------------
(***************************************************************************)
(* What a decoder has latched.                                             *)
(***************************************************************************)

CommandNames == {"settings", "rotate", "refresh", "load", "save", "dim", "brighten"}

Decoders ==
  [previous : SUBSET Keys, settings : BOOLEAN, rotate : BOOLEAN, refresh : BOOLEAN,
   select_consumed : BOOLEAN, start_consumed : BOOLEAN,
   buttons : SUBSET Keys, navigation : SUBSET Menu, actions : SUBSET CommandNames]

(* A call that delivers no key, field by field.                             *)
LEMMA MutedFields ==
  ASSUME NEW d \in Decoders, NEW p \in SUBSET Keys, NEW e, e = Muted(d, p)
  PROVE  /\ e \in Decoders
         /\ e.previous = p
         /\ e.settings = d.settings /\ e.rotate = d.rotate /\ e.refresh = d.refresh
         /\ e.select_consumed = d.select_consumed /\ e.start_consumed = d.start_consumed
         /\ e.buttons = {} /\ e.navigation = {} /\ e.actions = {}
BY DEF Muted, Decoders

(* ... and one that counts the modifiers as used.                           *)
LEMMA UsedFields ==
  ASSUME NEW d \in Decoders, NEW p \in SUBSET Keys, NEW e, e = Used(Muted(d, p), p)
  PROVE  /\ e \in Decoders
         /\ e.previous = p
         /\ e.settings = d.settings /\ e.rotate = d.rotate /\ e.refresh = d.refresh
         /\ e.select_consumed = ("Select" \in p) /\ e.start_consumed = ("Start" \in p)
         /\ e.buttons = {} /\ e.navigation = {} /\ e.actions = {}
<1> DEFINE m == Muted(d, p)
<1>1. /\ m \in Decoders
      /\ m.previous = p
      /\ m.settings = d.settings /\ m.rotate = d.rotate /\ m.refresh = d.refresh
      /\ m.buttons = {} /\ m.navigation = {} /\ m.actions = {}
  BY MutedFields
<1> DEFINE select == "Select" \in p
           start  == "Start" \in p
<1>2. e = [m EXCEPT !.select_consumed = select, !.start_consumed = start]
  BY Zenon DEF Used
<1>3. select \in BOOLEAN /\ start \in BOOLEAN
  OBVIOUS
<1> HIDE DEF m, select, start
<1>4. /\ e \in Decoders
      /\ e.previous = p
      /\ e.settings = d.settings /\ e.rotate = d.rotate /\ e.refresh = d.refresh
      /\ e.select_consumed = select /\ e.start_consumed = start
      /\ e.buttons = {} /\ e.navigation = {} /\ e.actions = {}
  BY <1>1, <1>2, <1>3 DEF Decoders
<1> QED
  BY <1>4 DEF select, start

LEMMA SettingsFields ==
  ASSUME NEW d \in Decoders, NEW p \in SUBSET Keys, NEW e, e = InSettings(d, p)
  PROVE  /\ e \in Decoders
         /\ e.previous = p
         /\ e.settings = Touched(Settings, p) /\ e.rotate = d.rotate
         /\ e.refresh = (d.refresh /\ d.settings)
         /\ e.select_consumed = ("Select" \in p) /\ e.start_consumed = ("Start" \in p)
         /\ e.buttons = {} /\ e.navigation = {}
         /\ e.actions = IF d.settings THEN {} ELSE {"settings"}
<1> DEFINE m == Used(Muted(d, p), p)
           touched == Touched(Settings, p)
<1>1. /\ m \in Decoders
      /\ m.previous = p
      /\ m.rotate = d.rotate /\ m.refresh = d.refresh
      /\ m.select_consumed = ("Select" \in p) /\ m.start_consumed = ("Start" \in p)
      /\ m.buttons = {} /\ m.navigation = {}
  BY UsedFields
<1>2. touched \in BOOLEAN
  BY DEF Touched
<1>3. e = [m EXCEPT !.settings = touched, !.refresh = @ /\ d.settings,
                    !.actions = IF d.settings THEN {} ELSE {"settings"}]
  BY Zenon DEF InSettings
<1> HIDE DEF m, touched
<1>4. /\ e \in Decoders
      /\ e.previous = p
      /\ e.settings = touched /\ e.rotate = d.rotate
      /\ e.refresh = (d.refresh /\ d.settings)
      /\ e.select_consumed = ("Select" \in p) /\ e.start_consumed = ("Start" \in p)
      /\ e.buttons = {} /\ e.navigation = {}
      /\ e.actions = IF d.settings THEN {} ELSE {"settings"}
  BY <1>1, <1>2, <1>3 DEF Decoders, CommandNames
<1> QED
  BY <1>4 DEF touched

LEMMA RotateFields ==
  ASSUME NEW d \in Decoders, NEW p \in SUBSET Keys, NEW e, e = InRotate(d, p)
  PROVE  /\ e \in Decoders
         /\ e.previous = p
         /\ e.settings = d.settings /\ e.rotate = Touched(Rotate, p) /\ e.refresh = d.refresh
         /\ e.select_consumed = d.select_consumed /\ e.start_consumed = d.start_consumed
         /\ e.buttons = {} /\ e.navigation = {}
         /\ e.actions = IF Held(Rotate, p) /\ (~d.rotate \/ "Right" \notin d.previous)
                        THEN {"rotate"} ELSE {}
<1> DEFINE m == Muted(d, p)
           touched == Touched(Rotate, p)
           held_ == Held(Rotate, p)
<1>1. /\ m \in Decoders
      /\ m.previous = p
      /\ m.settings = d.settings /\ m.rotate = d.rotate /\ m.refresh = d.refresh
      /\ m.select_consumed = d.select_consumed /\ m.start_consumed = d.start_consumed
      /\ m.buttons = {} /\ m.navigation = {}
  BY MutedFields
<1>2. touched \in BOOLEAN /\ held_ \in BOOLEAN
  BY DEF Touched, Held
<1>3. e = [m EXCEPT !.rotate = touched,
                    !.actions = IF held_ /\ (~d.rotate \/ "Right" \notin d.previous)
                                THEN {"rotate"} ELSE {}]
  BY Zenon DEF InRotate
<1> HIDE DEF m, touched, held_
<1>4. /\ e \in Decoders
      /\ e.previous = p
      /\ e.settings = d.settings /\ e.rotate = touched /\ e.refresh = d.refresh
      /\ e.select_consumed = d.select_consumed /\ e.start_consumed = d.start_consumed
      /\ e.buttons = {} /\ e.navigation = {}
      /\ e.actions = IF held_ /\ (~d.rotate \/ "Right" \notin d.previous) THEN {"rotate"} ELSE {}
  BY <1>1, <1>2, <1>3 DEF Decoders, CommandNames
<1> QED
  BY <1>4 DEF touched, held_

LEMMA RefreshFields ==
  ASSUME NEW d \in Decoders, NEW p \in SUBSET Keys, NEW e, e = InRefresh(d, p)
  PROVE  /\ e \in Decoders
         /\ e.previous = p
         /\ e.settings = d.settings /\ e.rotate = d.rotate /\ e.refresh = Touched(Settings, p)
         /\ e.select_consumed = ("Select" \in p) /\ e.start_consumed = ("Start" \in p)
         /\ e.buttons = {} /\ e.navigation = {}
         /\ e.actions = IF StartsRefresh(d, p) THEN {"refresh"} ELSE {}
<1> DEFINE m == Used(Muted(d, p), p)
           touched == Touched(Settings, p)
           starts == StartsRefresh(d, p)
<1>1. /\ m \in Decoders
      /\ m.previous = p
      /\ m.settings = d.settings /\ m.rotate = d.rotate
      /\ m.select_consumed = ("Select" \in p) /\ m.start_consumed = ("Start" \in p)
      /\ m.buttons = {} /\ m.navigation = {}
  BY UsedFields
<1>2. touched \in BOOLEAN /\ starts \in BOOLEAN
  BY DEF Touched, StartsRefresh
<1>3. e = [m EXCEPT !.refresh = touched, !.actions = IF starts THEN {"refresh"} ELSE {}]
  BY Zenon DEF InRefresh
<1> HIDE DEF m, touched, starts
<1>4. /\ e \in Decoders
      /\ e.previous = p
      /\ e.settings = d.settings /\ e.rotate = d.rotate /\ e.refresh = touched
      /\ e.select_consumed = ("Select" \in p) /\ e.start_consumed = ("Start" \in p)
      /\ e.buttons = {} /\ e.navigation = {}
      /\ e.actions = IF starts THEN {"refresh"} ELSE {}
  BY <1>1, <1>2, <1>3 DEF Decoders, CommandNames
<1> QED
  BY <1>4 DEF touched, starts

LEMMA PlainFields ==
  ASSUME NEW d \in Decoders, NEW p \in SUBSET Keys, NEW e, e = Plain(d, p)
  PROVE  /\ e \in Decoders
         /\ e.previous = p
         /\ e.settings = d.settings /\ e.rotate = d.rotate /\ e.refresh = d.refresh
         /\ e.select_consumed = Consumed("Select", d.select_consumed, p)
         /\ e.start_consumed = Consumed("Start", d.start_consumed, p)
         /\ e.navigation = p \intersect Menu
         /\ e.buttons = (p \intersect Menu)
                        \union (IF e.select_consumed THEN {} ELSE p \intersect {"Select"})
                        \union (IF e.start_consumed THEN {} ELSE p \intersect {"Start"})
         /\ e.actions = Commands(d, p)
<1> DEFINE select == Consumed("Select", d.select_consumed, p)
           start  == Consumed("Start", d.start_consumed, p)
           pad    == p \intersect (Arrows \union {"A", "B"})
           told   == Commands(d, p)
           keys   == pad \union (IF select THEN {} ELSE p \intersect {"Select"})
                         \union (IF start THEN {} ELSE p \intersect {"Start"})
<1>1. select \in BOOLEAN /\ start \in BOOLEAN
  BY DEF Consumed
<1>2. told \in SUBSET CommandNames
  BY DEF Commands, CommandNames
<1>3. pad = p \intersect Menu /\ pad \in SUBSET Menu /\ keys \in SUBSET Keys
  BY DEF Arrows, Menu, Keys, Settings
<1>4. e = [d EXCEPT !.previous = p, !.select_consumed = select, !.start_consumed = start,
                    !.actions = told, !.navigation = pad, !.buttons = keys]
  BY Zenon DEF Plain
<1> HIDE DEF select, start, told, pad, keys
<1>5. /\ e \in Decoders
      /\ e.previous = p
      /\ e.settings = d.settings /\ e.rotate = d.rotate /\ e.refresh = d.refresh
      /\ e.select_consumed = select /\ e.start_consumed = start
      /\ e.navigation = pad /\ e.buttons = keys /\ e.actions = told
  BY <1>1, <1>2, <1>3, <1>4 DEF Decoders
<1>6. /\ e.select_consumed = Consumed("Select", d.select_consumed, p)
      /\ e.start_consumed = Consumed("Start", d.start_consumed, p)
      /\ e.actions = Commands(d, p)
  BY <1>5 DEF select, start, told
<1>7. e.buttons = pad \union (IF e.select_consumed THEN {} ELSE p \intersect {"Select"})
                      \union (IF e.start_consumed THEN {} ELSE p \intersect {"Start"})
  BY <1>5 DEF keys
<1> QED
  BY <1>3, <1>5, <1>6, <1>7
(* The chord behind each command, its tail and its rank.                    *)
LEMMA Names ==
  /\ "settings" # "rotate" /\ "settings" # "refresh" /\ "settings" # "load"
  /\ "settings" # "save" /\ "settings" # "dim" /\ "settings" # "brighten"
  /\ "rotate" # "refresh" /\ "rotate" # "load" /\ "rotate" # "save"
  /\ "rotate" # "dim" /\ "rotate" # "brighten"
  /\ "refresh" # "load" /\ "refresh" # "save" /\ "refresh" # "dim" /\ "refresh" # "brighten"
  /\ "load" # "save" /\ "load" # "dim" /\ "load" # "brighten"
  /\ "save" # "dim" /\ "save" # "brighten" /\ "dim" # "brighten"
OBVIOUS

LEMMA Chords3 ==
  /\ Chord("settings") = Settings /\ Tail("settings") = Settings
  /\ Chord("rotate") = Rotate /\ Tail("rotate") = Rotate
  /\ Chord("refresh") = Refresh /\ Tail("refresh") = Refresh
<1>1. Chord("settings") = Settings /\ Chord("rotate") = Rotate /\ Chord("refresh") = Refresh
  BY Names, Zenon DEF Chord
<1> QED
  BY <1>1 DEF Tail

LEMMA Chords4 ==
  /\ Chord("load") = {"Start", "L"} /\ Tail("load") = {"Start"}
  /\ Chord("save") = {"Start", "R"} /\ Tail("save") = {"Start"}
  /\ Chord("dim") = {"Select", "L"} /\ Tail("dim") = {"Select"}
  /\ Chord("brighten") = {"Select", "R"} /\ Tail("brighten") = {"Select"}
<1>1. Chord("load") = {"Start", "L"} /\ Chord("save") = {"Start", "R"}
  BY Names, Zenon DEF Chord
<1>2. Chord("dim") = {"Select", "L"} /\ Chord("brighten") = {"Select", "R"}
  BY Names, Zenon DEF Chord
<1> QED
  BY <1>1, <1>2 DEF Tail, Refresh

LEMMA Ranks ==
  /\ Rank(Settings) = 3 /\ Rank(Rotate) = 2 /\ Rank(Refresh) = 1
  /\ Rank({"Select"}) = 0 /\ Rank({"Start"}) = 0
<1>1. Settings # Rotate /\ Settings # Refresh /\ Rotate # Refresh
  BY DEF Settings, Rotate, Refresh, Shoulders
<1>2. /\ {"Select"} # Settings /\ {"Select"} # Rotate /\ {"Select"} # Refresh
      /\ {"Start"} # Settings /\ {"Start"} # Rotate /\ {"Start"} # Refresh
  BY DEF Settings, Rotate, Refresh, Shoulders
<1> QED
  BY <1>1, <1>2, Zenon DEF Rank

(* The tail of a chord not yet released is latched, and gives no key.       *)
Latched(t, d, elf) ==
  \/ t = Settings /\ d.settings
  \/ t = Rotate /\ d.rotate
  \/ t = Refresh /\ elf /\ (d.refresh \/ d.settings)
  \/ t = {"Select"} /\ d.select_consumed
  \/ t = {"Start"} /\ d.start_consumed

TailInv(d, T, elf) ==
  /\ \A t \in T :
       /\ Touched(t, d.previous)
       /\ ~Touched(t, d.buttons \union d.navigation)
       /\ Latched(t, d, elf)
  /\ Held(Settings, d.previous) => d.settings
  /\ Held(Rotate, d.previous) => d.rotate \/ d.settings

Fresh(d, T, actions) ==
  \A a \in actions :
    /\ ~(Chord(a) \subseteq d.previous)
    /\ \A t \in T :
         \/ Rank(t) = 0
         \/ Rank(Chord(a)) > Rank(t)
         \/ Chord(a) = Rotate /\ t = Rotate /\ "Right" \notin d.previous

(* A tail of the set after a call is one of those before, or of a command.  *)
LEMMA TailOrigin ==
  ASSUME NEW e, NEW T, NEW t \in TailsAfter(e, T)
  PROVE  (t \in T /\ Touched(t, e.previous)) \/ (\E a \in e.actions : t = Tail(a))
BY DEF TailsAfter

LEMMA SettingsKeeps ==
  ASSUME NEW d \in Decoders, NEW p \in SUBSET Keys, NEW T, NEW elf \in BOOLEAN,
         TailInv(d, T, elf), d.settings \/ Held(Settings, p),
         NEW e, e = InSettings(d, p)
  PROVE  e \in Decoders /\ TailInv(e, TailsAfter(e, T), elf) /\ Fresh(d, T, e.actions)
<1>1. /\ e \in Decoders /\ e.previous = p
      /\ e.settings = Touched(Settings, p) /\ e.rotate = d.rotate
      /\ e.refresh = (d.refresh /\ d.settings)
      /\ e.select_consumed = ("Select" \in p) /\ e.start_consumed = ("Start" \in p)
      /\ e.buttons = {} /\ e.navigation = {}
      /\ e.actions = IF d.settings THEN {} ELSE {"settings"}
  BY SettingsFields
<1>2. \A t : ~Touched(t, e.buttons \union e.navigation)
  BY <1>1 DEF Touched
<1>3. Held(Settings, e.previous) => e.settings
  BY <1>1 DEF Held, Touched, Settings
<1>4. Held(Rotate, e.previous) => e.settings
  BY <1>1 DEF Held, Touched, Settings, Rotate, Shoulders
<1>5. ASSUME NEW t \in TailsAfter(e, T) PROVE Touched(t, e.previous) /\ Latched(t, e, elf)
  <2>1. CASE t \in T /\ Touched(t, e.previous)
    <3>1. Latched(t, d, elf)
      BY <2>1 DEF TailInv
    <3>2. t = Settings => e.settings
      BY <2>1, <1>1
    <3>3. t = Refresh => e.settings
      BY <2>1, <1>1 DEF Touched, Refresh, Settings
    <3>4. t = {"Select"} => e.select_consumed
      BY <2>1, <1>1 DEF Touched
    <3>5. t = {"Start"} => e.start_consumed
      BY <2>1, <1>1 DEF Touched
    <3> QED
      BY <2>1, <3>1, <3>2, <3>3, <3>4, <3>5, <1>1 DEF Latched
  <2>2. CASE \E a \in e.actions : t = Tail(a)
    <3>1. t = Settings /\ Held(Settings, p)
      BY <2>2, <1>1, Chords3
    <3>2. Touched(t, e.previous)
      BY <3>1, <1>1 DEF Touched, Held, Settings
    <3> QED
      BY <3>1, <3>2, <1>1 DEF Latched
  <2> QED
    BY <2>1, <2>2, TailOrigin
<1>6. Fresh(d, T, e.actions)
  <2> SUFFICES ASSUME ~d.settings
               PROVE  Fresh(d, T, {"settings"})
    BY <1>1 DEF Fresh
  <2>1. ~(Chord("settings") \subseteq d.previous)
    BY Chords3 DEF TailInv, Held
  <2>2. ASSUME NEW t \in T PROVE Rank(t) = 0 \/ Rank(Chord("settings")) > Rank(t)
    <3>1. Latched(t, d, elf)
      BY DEF TailInv
    <3> QED
      BY <3>1, Ranks, Chords3 DEF Latched
  <2> QED
    BY <2>1, <2>2 DEF Fresh
<1> QED
  BY <1>1, <1>2, <1>3, <1>4, <1>5, <1>6 DEF TailInv

LEMMA RotateKeeps ==
  ASSUME NEW d \in Decoders, NEW p \in SUBSET Keys, NEW T, NEW elf \in BOOLEAN,
         TailInv(d, T, elf), ~d.settings, ~Held(Settings, p), d.rotate \/ Held(Rotate, p),
         NEW e, e = InRotate(d, p)
  PROVE  e \in Decoders /\ TailInv(e, TailsAfter(e, T), elf) /\ Fresh(d, T, e.actions)
<1>1. /\ e \in Decoders /\ e.previous = p
      /\ e.settings = d.settings /\ e.rotate = Touched(Rotate, p) /\ e.refresh = d.refresh
      /\ e.select_consumed = d.select_consumed /\ e.start_consumed = d.start_consumed
      /\ e.buttons = {} /\ e.navigation = {}
      /\ e.actions = IF Held(Rotate, p) /\ (~d.rotate \/ "Right" \notin d.previous)
                     THEN {"rotate"} ELSE {}
  BY RotateFields
<1>2. \A t : ~Touched(t, e.buttons \union e.navigation)
  BY <1>1 DEF Touched
<1>3. ~Held(Settings, e.previous)
  BY <1>1
<1>4. Held(Rotate, e.previous) => e.rotate
  BY <1>1 DEF Held, Touched, Rotate
<1>5. ASSUME NEW t \in TailsAfter(e, T) PROVE Touched(t, e.previous) /\ Latched(t, e, elf)
  <2>1. CASE t \in T /\ Touched(t, e.previous)
    <3>1. Latched(t, d, elf)
      BY <2>1 DEF TailInv
    <3>2. t = Rotate => e.rotate
      BY <2>1, <1>1
    <3> QED
      BY <2>1, <3>1, <3>2, <1>1 DEF Latched
  <2>2. CASE \E a \in e.actions : t = Tail(a)
    <3>1. t = Rotate /\ Held(Rotate, p)
      BY <2>2, <1>1, Chords3
    <3>2. Touched(t, e.previous)
      BY <3>1, <1>1 DEF Touched, Held, Rotate
    <3> QED
      BY <3>1, <3>2, <1>1 DEF Latched
  <2> QED
    BY <2>1, <2>2, TailOrigin
<1>6. Fresh(d, T, e.actions)
  <2> SUFFICES ASSUME Held(Rotate, p), ~d.rotate \/ "Right" \notin d.previous
               PROVE  Fresh(d, T, {"rotate"})
    BY <1>1 DEF Fresh
  <2>1. ~(Rotate \subseteq d.previous)
    BY DEF TailInv, Held, Rotate
  <2>2. ASSUME NEW t \in T
        PROVE  Rank(t) = 0 \/ Rank(Rotate) > Rank(t) \/ (t = Rotate /\ "Right" \notin d.previous)
    <3>1. Latched(t, d, elf)
      BY DEF TailInv
    <3> QED
      BY <3>1, Ranks DEF Latched
  <2> QED
    BY <2>1, <2>2, Chords3 DEF Fresh
<1> QED
  BY <1>1, <1>2, <1>3, <1>4, <1>5, <1>6 DEF TailInv

LEMMA RefreshKeeps ==
  ASSUME NEW d \in Decoders, NEW p \in SUBSET Keys, NEW T,
         TailInv(d, T, TRUE), ~d.settings, ~Held(Settings, p), ~d.rotate, ~Held(Rotate, p),
         NEW e, e = InRefresh(d, p)
  PROVE  e \in Decoders /\ TailInv(e, TailsAfter(e, T), TRUE) /\ Fresh(d, T, e.actions)
<1>1. /\ e \in Decoders /\ e.previous = p
      /\ e.settings = d.settings /\ e.rotate = d.rotate /\ e.refresh = Touched(Settings, p)
      /\ e.select_consumed = ("Select" \in p) /\ e.start_consumed = ("Start" \in p)
      /\ e.buttons = {} /\ e.navigation = {}
      /\ e.actions = IF StartsRefresh(d, p) THEN {"refresh"} ELSE {}
  BY RefreshFields
<1>2. \A t : ~Touched(t, e.buttons \union e.navigation)
  BY <1>1 DEF Touched
<1>3. ~Held(Settings, e.previous) /\ ~Held(Rotate, e.previous)
  BY <1>1
<1>5. ASSUME NEW t \in TailsAfter(e, T) PROVE Touched(t, e.previous) /\ Latched(t, e, TRUE)
  <2>1. CASE t \in T /\ Touched(t, e.previous)
    <3>1. Latched(t, d, TRUE)
      BY <2>1 DEF TailInv
    <3>3. t = Refresh => e.refresh
      BY <2>1, <1>1 DEF Touched, Refresh, Settings
    <3>4. t = {"Select"} => e.select_consumed
      BY <2>1, <1>1 DEF Touched
    <3>5. t = {"Start"} => e.start_consumed
      BY <2>1, <1>1 DEF Touched
    <3> QED
      BY <2>1, <3>1, <3>3, <3>4, <3>5, <1>1 DEF Latched
  <2>2. CASE \E a \in e.actions : t = Tail(a)
    <3>1. t = Refresh /\ StartsRefresh(d, p)
      BY <2>2, <1>1, Chords3
    <3>2. Touched(t, e.previous) /\ e.refresh
      BY <3>1, <1>1 DEF Touched, StartsRefresh, Refresh, Settings
    <3> QED
      BY <3>1, <3>2 DEF Latched
  <2> QED
    BY <2>1, <2>2, TailOrigin
<1>6. Fresh(d, T, e.actions)
  <2> SUFFICES ASSUME StartsRefresh(d, p)
               PROVE  Fresh(d, T, {"refresh"})
    BY <1>1 DEF Fresh
  <2>1. ~(Refresh \subseteq d.previous) /\ ~d.refresh
    BY DEF StartsRefresh
  <2>2. ASSUME NEW t \in T PROVE Rank(t) = 0
    <3>1. Latched(t, d, TRUE)
      BY DEF TailInv
    <3> QED
      BY <2>1, <3>1, Ranks DEF Latched
  <2> QED
    BY <2>1, <2>2, Chords3 DEF Fresh
<1> QED
  BY <1>1, <1>2, <1>3, <1>5, <1>6 DEF TailInv

(* A command of one modifier and one shoulder uses the modifier up.         *)
LEMMA CommandsUse ==
  ASSUME NEW d \in Decoders, NEW p \in SUBSET Keys, NEW a \in Commands(d, p)
  PROVE  /\ ~(Chord(a) \subseteq d.previous)
         /\ \/ Tail(a) = {"Select"} /\ "Select" \in p /\ Consumed("Select", d.select_consumed, p)
            \/ Tail(a) = {"Start"} /\ "Start" \in p /\ Consumed("Start", d.start_consumed, p)
<1>1. PICK m \in Refresh, s \in Shoulders :
         a = Command[m][s] /\ p \intersect Settings = {m, s} /\ ~({m, s} \subseteq d.previous)
  BY DEF Commands
<1>2. p \intersect Refresh = {m} /\ Touched(Shoulders, p) /\ m \in p
  BY <1>1 DEF Settings, Refresh, Shoulders, Touched
<1>3. Consumed(m, TRUE, p) /\ Consumed(m, FALSE, p)
  BY <1>2 DEF Consumed
<1>4. \A c \in BOOLEAN : Consumed(m, c, p)
  BY <1>3
<1>5. CASE m = "Select"
  <2>1. a = IF s = "L" THEN "dim" ELSE "brighten"
    BY <1>1, <1>5 DEF Command, Shoulders
  <2>2. Chord(a) = {m, s} /\ Tail(a) = {"Select"}
    BY <2>1, <1>5, Chords4 DEF Shoulders
  <2> QED
    BY <2>2, <1>1, <1>2, <1>4, <1>5 DEF Decoders
<1>6. CASE m = "Start"
  <2>1. a = IF s = "L" THEN "load" ELSE "save"
    BY <1>1, <1>6 DEF Command, Shoulders
  <2>2. Chord(a) = {m, s} /\ Tail(a) = {"Start"}
    BY <2>1, <1>6, Chords4 DEF Shoulders
  <2> QED
    BY <2>2, <1>1, <1>2, <1>4, <1>6 DEF Decoders
<1> QED
  BY <1>5, <1>6 DEF Refresh

LEMMA PlainKeeps ==
  ASSUME NEW d \in Decoders, NEW p \in SUBSET Keys, NEW T, NEW elf \in BOOLEAN,
         TailInv(d, T, elf), ~d.settings, ~Held(Settings, p), ~d.rotate, ~Held(Rotate, p),
         elf => ~d.refresh,
         NEW e, e = Plain(d, p)
  PROVE  e \in Decoders /\ TailInv(e, TailsAfter(e, T), elf) /\ Fresh(d, T, e.actions)
<1>1. /\ e \in Decoders /\ e.previous = p
      /\ e.select_consumed = Consumed("Select", d.select_consumed, p)
      /\ e.start_consumed = Consumed("Start", d.start_consumed, p)
      /\ e.navigation = p \intersect Menu
      /\ e.buttons = (p \intersect Menu)
                     \union (IF e.select_consumed THEN {} ELSE p \intersect {"Select"})
                     \union (IF e.start_consumed THEN {} ELSE p \intersect {"Start"})
      /\ e.actions = Commands(d, p)
  BY PlainFields
<1>2. ~Held(Settings, e.previous) /\ ~Held(Rotate, e.previous)
  BY <1>1
<1>3. ASSUME NEW t \in T
      PROVE  \/ t = {"Select"} /\ d.select_consumed
             \/ t = {"Start"} /\ d.start_consumed
  BY DEF TailInv, Latched
<1>4. ASSUME NEW t \in TailsAfter(e, T)
      PROVE  \/ t = {"Select"} /\ "Select" \in p /\ e.select_consumed
             \/ t = {"Start"} /\ "Start" \in p /\ e.start_consumed
  <2>1. CASE t \in T /\ Touched(t, e.previous)
    BY <2>1, <1>1, <1>3 DEF Touched, Consumed
  <2>2. CASE \E a \in e.actions : t = Tail(a)
    BY <2>2, <1>1, CommandsUse
  <2> QED
    BY <2>1, <2>2, TailOrigin
<1>5. ASSUME NEW t \in TailsAfter(e, T)
      PROVE  /\ Touched(t, e.previous)
             /\ ~Touched(t, e.buttons \union e.navigation)
             /\ Latched(t, e, elf)
  <2>1. "Select" \notin Menu /\ "Start" \notin Menu
    BY DEF Menu
  <2>2. Touched(t, e.previous) /\ Latched(t, e, elf)
    BY <1>1, <1>4 DEF Touched, Latched
  <2>3. t = {"Select"} /\ e.select_consumed => "Select" \notin e.buttons \union e.navigation
    BY <1>1, <2>1
  <2>4. t = {"Start"} /\ e.start_consumed => "Start" \notin e.buttons \union e.navigation
    BY <1>1, <2>1
  <2> QED
    BY <2>2, <2>3, <2>4, <1>4 DEF Touched
<1>6. Fresh(d, T, e.actions)
  <2>1. \A t \in T : Rank(t) = 0
    BY <1>3, Ranks
  <2>2. \A a \in e.actions : ~(Chord(a) \subseteq d.previous)
    BY <1>1, CommandsUse
  <2> QED
    BY <2>1, <2>2 DEF Fresh
<1> QED
  BY <1>1, <1>2, <1>5, <1>6 DEF TailInv

(* One call of a decoder.                                                   *)
LEMMA DecodeKeeps ==
  ASSUME NEW d \in Decoders, NEW p \in SUBSET Keys, NEW T, NEW elf \in BOOLEAN,
         TailInv(d, T, elf),
         NEW e, e = Decode(d, p, elf)
  PROVE  e \in Decoders /\ TailInv(e, TailsAfter(e, T), elf) /\ Fresh(d, T, e.actions)
<1>1. CASE d.settings \/ Held(Settings, p)
  BY <1>1, SettingsKeeps DEF Decode
<1>2. CASE ~(d.settings \/ Held(Settings, p)) /\ (d.rotate \/ Held(Rotate, p))
  BY <1>2, RotateKeeps DEF Decode
<1>3. CASE ~(d.settings \/ Held(Settings, p)) /\ ~(d.rotate \/ Held(Rotate, p))
  <2>1. CASE elf /\ (d.refresh \/ StartsRefresh(d, p))
    <3>1. e = InRefresh(d, p)
      BY <1>3, <2>1 DEF Decode
    <3>2. elf = TRUE
      BY <2>1
    <3> QED
      BY <1>3, <3>1, <3>2, RefreshKeeps
  <2>2. CASE ~(elf /\ (d.refresh \/ StartsRefresh(d, p)))
    <3>1. e = Plain(d, p)
      BY <1>3, <2>2 DEF Decode
    <3> QED
      BY <1>3, <2>2, <3>1, PlainKeeps
  <2> QED
    BY <2>1, <2>2
<1> QED
  BY <1>1, <1>2, <1>3

(* A cached report gives its keys again, and no command.                    *)
LEMMA CachedKeeps ==
  ASSUME NEW d \in Decoders, NEW T, NEW elf \in BOOLEAN, TailInv(d, T, elf),
         NEW e, e = NoActions(d)
  PROVE  e \in Decoders /\ TailInv(e, TailsAfter(e, T), elf) /\ Fresh(d, T, e.actions)
<1>1. /\ e \in Decoders /\ e.actions = {}
      /\ e.previous = d.previous /\ e.buttons = d.buttons /\ e.navigation = d.navigation
      /\ e.settings = d.settings /\ e.rotate = d.rotate /\ e.refresh = d.refresh
      /\ e.select_consumed = d.select_consumed /\ e.start_consumed = d.start_consumed
  BY DEF NoActions, Decoders
<1>2. TailsAfter(e, T) \subseteq T
  BY <1>1 DEF TailsAfter
<1> QED
  BY <1>1, <1>2 DEF TailInv, Fresh, Latched

(* Nothing is latched at first, nor after the controller was lost.          *)
LEMMA IdleHolds ==
  ASSUME NEW elf \in BOOLEAN
  PROVE  Idle \in Decoders /\ TailInv(Idle, {}, elf)
BY DEF Idle, Decoders, TailInv, Held, Settings, Rotate, Shoulders

(***************************************************************************)
(* A pass, its quantifiers over one value resolved.                        *)
(***************************************************************************)

Polled == MapController(menu, usb'.navigation \union i2c'.navigation, page, now')
Felt(report) == MapTouch(ui, report, Layout, now')
Asked(report) ==
  Actions(Returned(Felt(report), page), Polled.action, usb'.actions \union i2c'.actions)
On(report) == Fingers(report.touch) \intersect Fingers(glass)

Step(outcome, report, tick, changed, turns) ==
  /\ usb' = UsbPolled(held.usb)
  /\ i2c' = I2cPolled(outcome, held.i2c)
  /\ initialized' = (outcome \in {"report", "cached"})
  /\ now' = (now + tick) % CLOCK
  /\ menu' = IF changed THEN PageChanged(Polled) ELSE Polled
  /\ last' = report.touch
  /\ ui' = IF changed THEN LayoutChanged(Felt(report)) ELSE Felt(report)
  /\ page' \in {page} \union NextPages(Asked(report))
  /\ orientation' = IF turns THEN Map!NextOrientation(orientation) ELSE orientation
  /\ fullscreen' \in BOOLEAN
  /\ turns => changed
  /\ changed \/ (page' = page /\ (fullscreen \in BOOLEAN => fullscreen' = fullscreen))
  /\ game' = GameKeys(usb', i2c', Polled, TouchedKeys(ui, report, Layout), changed)
  /\ tails' = [usb |-> TailsAfter(usb', tails.usb),
               i2c |-> IF initialized' THEN TailsAfter(i2c', tails.i2c) ELSE {}]
  /\ quiet' = (quiet \intersect (usb'.navigation \union i2c'.navigation)) \union Acts(menu'.action)
              \union (IF changed THEN usb'.navigation \union i2c'.navigation ELSE {})
  /\ hold' = HoldAfter(menu', tick)
  /\ old' = IF changed THEN On(report) ELSE old
  /\ spent' = spent \union {f \in On(report) : /\ report.touch.at[f] = glass.at[f]
                                               /\ MeansAt(glass.at[f], Layout) \intersect Felt(report).fired # {}}
  /\ linger' = LingerAfter(ui', tick, report.ok)
  /\ UNCHANGED <<scene, held, glass>>

LEMMA PassSteps ==
  ASSUME Pass
  PROVE  \E outcome \in Outcomes, report \in Reports, tick \in scene.ticks,
            changed \in BOOLEAN, turns \in BOOLEAN : Step(outcome, report, tick, changed, turns)
<1> DEFINE
      Body(outcome, report, tick, u, i, time, polled, felt) ==
        LET reported == u.navigation \union i.navigation
            actions == Actions(Returned(felt, page), polled.action, u.actions \union i.actions)
            widens == "fullscreen" \in actions /\ orientation # "portrait"
            turns == ~widens /\ "rotate" \in actions
            on == Fingers(report.touch) \intersect Fingers(glass)
        IN \E next \in IF widens \/ turns THEN {page} ELSE NextPages(actions) :
             LET changed == widens \/ turns \/ next # page
                 after == IF changed THEN PageChanged(polled) ELSE polled
             IN /\ usb' = u
                /\ i2c' = i
                /\ initialized' = (outcome \in {"report", "cached"})
                /\ menu' = after
                /\ last' = report.touch
                /\ ui' = IF changed THEN LayoutChanged(felt) ELSE felt
                /\ page' = next
                /\ orientation' = IF turns THEN Map!NextOrientation(orientation) ELSE orientation
                /\ fullscreen' = (widens # fullscreen)
                /\ now' = time
                /\ game' = GameKeys(u, i, polled, TouchedKeys(ui, report, Layout), changed)
                /\ tails' = [usb |-> TailsAfter(u, tails.usb),
                             i2c |-> IF initialized' THEN TailsAfter(i, tails.i2c) ELSE {}]
                /\ quiet' = (quiet \intersect reported) \union Acts(after.action)
                            \union (IF changed THEN reported ELSE {})
                /\ hold' = HoldAfter(after, tick)
                /\ old' = IF changed THEN on ELSE old
                /\ spent' = spent \union {f \in on : /\ report.touch.at[f] = glass.at[f]
                                                  /\ MeansAt(glass.at[f], Layout) \intersect felt.fired # {}}
                /\ linger' = LingerAfter(ui', tick, report.ok)
<1>1. PICK outcome \in Outcomes, report \in Reports, tick \in scene.ticks :
        \E u \in {UsbPolled(held.usb)}, i \in {I2cPolled(outcome, held.i2c)},
           time \in {(now + tick) % CLOCK} :
        \E polled \in {MapController(menu, u.navigation \union i.navigation, page, time)},
           felt \in {MapTouch(ui, report, Layout, time)} :
          Body(outcome, report, tick, u, i, time, polled, felt)
  BY Zenon DEF Pass
<1>2. PICK u \in {UsbPolled(held.usb)}, i \in {I2cPolled(outcome, held.i2c)},
           time \in {(now + tick) % CLOCK} :
        \E polled \in {MapController(menu, u.navigation \union i.navigation, page, time)},
           felt \in {MapTouch(ui, report, Layout, time)} :
          Body(outcome, report, tick, u, i, time, polled, felt)
  BY <1>1, Zenon
<1>3. PICK polled \in {MapController(menu, u.navigation \union i.navigation, page, time)},
           felt \in {MapTouch(ui, report, Layout, time)} :
        Body(outcome, report, tick, u, i, time, polled, felt)
  BY <1>2, Zenon
<1>4. UNCHANGED <<scene, held, glass>>
  BY DEF Pass
<1> DEFINE actions == Actions(Returned(felt, page), polled.action, u.actions \union i.actions)
           widens == "fullscreen" \in actions /\ orientation # "portrait"
           turns == ~widens /\ "rotate" \in actions
           changed == widens \/ turns \/ page' # page
<1>5. /\ page' \in IF widens \/ turns THEN {page} ELSE NextPages(actions)
      /\ usb' = u /\ i2c' = i /\ now' = time
      /\ initialized' = (outcome \in {"report", "cached"})
      /\ menu' = IF changed THEN PageChanged(polled) ELSE polled
      /\ last' = report.touch
      /\ ui' = IF changed THEN LayoutChanged(felt) ELSE felt
      /\ orientation' = IF turns THEN Map!NextOrientation(orientation) ELSE orientation
      /\ fullscreen' = (widens # fullscreen)
      /\ game' = GameKeys(u, i, polled, TouchedKeys(ui, report, Layout), changed)
      /\ tails' = [usb |-> TailsAfter(u, tails.usb),
                   i2c |-> IF initialized' THEN TailsAfter(i, tails.i2c) ELSE {}]
      /\ quiet' = (quiet \intersect (u.navigation \union i.navigation)) \union Acts(menu'.action)
                  \union (IF changed THEN u.navigation \union i.navigation ELSE {})
      /\ hold' = HoldAfter(menu', tick)
      /\ old' = IF changed THEN On(report) ELSE old
      /\ spent' = spent \union {f \in On(report) : /\ report.touch.at[f] = glass.at[f]
                                               /\ MeansAt(glass.at[f], Layout) \intersect felt.fired # {}}
      /\ linger' = LingerAfter(ui', tick, report.ok)
  BY <1>3, Zenon DEF On
<1>6. usb' = UsbPolled(held.usb) /\ i2c' = I2cPolled(outcome, held.i2c)
      /\ now' = (now + tick) % CLOCK
  BY <1>5, Zenon
<1>7. polled = Polled /\ felt = Felt(report)
  BY <1>3, <1>5, Zenon DEF Polled, Felt
<1>8. actions = Asked(report)
  BY <1>5, <1>7, Zenon DEF Asked
<1>9. turns \in BOOLEAN /\ changed \in BOOLEAN /\ widens \in BOOLEAN /\ (turns => changed)
  BY Zenon
<1>10. fullscreen' \in BOOLEAN
  BY <1>5, Zenon
<1>11. changed \/ (page' = page /\ (fullscreen \in BOOLEAN => fullscreen' = fullscreen))
  <2> SUFFICES ASSUME ~changed PROVE page' = page /\ (fullscreen \in BOOLEAN => fullscreen' = fullscreen)
    OBVIOUS
  <2> HIDE DEF actions, widens, turns
  <2>1. page' = page /\ ~widens
    OBVIOUS
  <2>2. fullscreen' = (widens # fullscreen)
    BY <1>5
  <2>3. widens = FALSE
    BY <2>1, <1>9
  <2>4. fullscreen \in BOOLEAN => fullscreen' = fullscreen
    <3>1. CASE fullscreen = TRUE
      BY <2>2, <2>3, <3>1
    <3>2. CASE fullscreen = FALSE
      BY <2>2, <2>3, <3>2
    <3> QED
      BY <3>1, <3>2
  <2> QED
    BY <2>1, <2>4
<1>12. page' \in {page} \union NextPages(Asked(report))
  BY <1>5, <1>8, Zenon
<1> HIDE DEF actions, widens, turns, changed
<1>13. Step(outcome, report, tick, changed, turns)
  BY <1>4, <1>5, <1>6, <1>7, <1>9, <1>10, <1>11, <1>12, Zenon DEF Step
<1> QED
  BY <1>9, <1>13, Zenon

(***************************************************************************)
(* Between two passes.                                                     *)
(***************************************************************************)

(* What is touched, and what was last reported.                             *)
Reading(t, s) ==
  /\ t = [at |-> t.at, home |-> t.home]
  /\ t.home \in BOOLEAN
  /\ t.at \in [Fingers(t) -> s.spots]
  /\ Fingers(t) \subseteq s.fingers

WorldInv ==
  /\ scene \in Scenes
  /\ held \in [Devices -> SUBSET Keys]
  /\ Reading(glass, scene) /\ Reading(last, scene)

(* What the player does changes what is held or touched, and nothing else   *)
(* but the history of the fingers.                                          *)
Move ==
  \/ \E d \in Devices, k \in Keys : Press(d, k) \/ Release(d, k)
  \/ \E f \in scene.fingers : Lift(f) \/ \E p \in scene.spots : Land(f, p)
  \/ Home

LEMMA PassOrMove ==
  ASSUME InputNext PROVE Pass \/ Move
BY Zenon DEF InputNext, Move

LEMMA MoveChanges ==
  ASSUME WorldInv, Move
  PROVE  ~(held' = held /\ glass' = glass)
<1>1. ASSUME NEW d \in Devices, NEW k \in Keys, Press(d, k) PROVE held' # held
  <2>1. k \notin held[d] /\ held' = [held EXCEPT ![d] = @ \union {k}]
    BY <1>1 DEF Press
  <2>2. held'[d] = held[d] \union {k}
    BY <2>1 DEF WorldInv
  <2> QED
    BY <2>1, <2>2
<1>2. ASSUME NEW d \in Devices, NEW k \in Keys, Release(d, k) PROVE held' # held
  <2>1. k \in held[d] /\ held' = [held EXCEPT ![d] = @ \ {k}]
    BY <1>2 DEF Release
  <2>2. held'[d] = held[d] \ {k}
    BY <2>1 DEF WorldInv
  <2> QED
    BY <2>1, <2>2
<1>3. ASSUME NEW f \in scene.fingers, Lift(f) PROVE glass' # glass
  <2>1. f \in DOMAIN glass.at
    BY <1>3 DEF Lift, Fingers
  <2>2. glass' = [glass EXCEPT !.at = [g \in Fingers(glass) \ {f} |-> glass.at[g]]]
    BY <1>3 DEF Lift
  <2>3. glass'.at = [g \in Fingers(glass) \ {f} |-> glass.at[g]]
    BY <2>2 DEF WorldInv, Reading
  <2>4. f \notin DOMAIN glass'.at
    BY <2>3
  <2> QED
    BY <2>1, <2>4
<1>4. ASSUME NEW f \in scene.fingers, NEW p \in scene.spots, Land(f, p) PROVE glass' # glass
  BY <1>4 DEF Land
<1>5. ASSUME Home PROVE glass' # glass
  <2>1. glass' = [glass EXCEPT !.home = ~@]
    BY <1>5 DEF Home
  <2>2. glass'.home = ~glass.home
    BY <2>1 DEF WorldInv, Reading
  <2> QED
    BY <2>2 DEF WorldInv, Reading
<1> QED
  BY <1>1, <1>2, <1>3, <1>4, <1>5, Zenon DEF Move

(* ... and stays within the scene.                                          *)
LEMMA InitWorld ==
  ASSUME InputInit PROVE WorldInv
<1>1. Reading(Untouched, scene)
  BY DEF Untouched, Reading, Fingers
<1> QED
  BY <1>1 DEF InputInit, WorldInv, Keys

LEMMA GlassMoves ==
  ASSUME WorldInv, Move
  PROVE  /\ scene' = scene /\ last' = last
         /\ held' \in [Devices -> SUBSET Keys] /\ Reading(glass', scene)
<1>1. scene' = scene /\ last' = last
  BY Zenon DEF Move, Press, Release, Lift, Land, Home, screen
<1>2. held' \in [Devices -> SUBSET Keys]
  BY DEF WorldInv, Move, Press, Release, Lift, Land, Home
<1>3. ASSUME NEW f \in scene.fingers, Lift(f) PROVE Reading(glass', scene)
  <2> DEFINE at == [g \in Fingers(glass) \ {f} |-> glass.at[g]]
  <2>1. glass' = [glass EXCEPT !.at = at]
    BY <1>3 DEF Lift
  <2>2. at \in [DOMAIN at -> scene.spots] /\ DOMAIN at \subseteq scene.fingers
    BY DEF WorldInv, Reading
  <2> HIDE DEF at
  <2>3. glass'.at = at /\ glass'.home = glass.home /\ glass' = [at |-> at, home |-> glass.home]
    BY <2>1 DEF WorldInv, Reading
  <2> QED
    BY <2>2, <2>3 DEF WorldInv, Reading, Fingers
<1>4. ASSUME NEW f \in scene.fingers, NEW p \in scene.spots, Land(f, p)
      PROVE  Reading(glass', scene)
  <2> DEFINE at == [g \in Fingers(glass) \union {f} |-> IF g = f THEN p ELSE glass.at[g]]
  <2>1. glass' = [glass EXCEPT !.at = at]
    BY <1>4 DEF Land
  <2>2. at \in [DOMAIN at -> scene.spots] /\ DOMAIN at \subseteq scene.fingers
    BY DEF WorldInv, Reading
  <2> HIDE DEF at
  <2>3. glass'.at = at /\ glass'.home = glass.home /\ glass' = [at |-> at, home |-> glass.home]
    BY <2>1 DEF WorldInv, Reading
  <2> QED
    BY <2>2, <2>3 DEF WorldInv, Reading, Fingers
<1>5. ASSUME Home PROVE Reading(glass', scene)
  <2>1. glass' = [glass EXCEPT !.home = ~@]
    BY <1>5 DEF Home
  <2>2. glass'.at = glass.at /\ glass'.home = ~glass.home
        /\ glass' = [at |-> glass.at, home |-> ~glass.home]
    BY <2>1 DEF WorldInv, Reading
  <2> QED
    BY <2>2 DEF WorldInv, Reading, Fingers
<1>6. ASSUME NEW d \in Devices, NEW k \in Keys, Press(d, k) \/ Release(d, k)
      PROVE  Reading(glass', scene)
  BY <1>6 DEF Press, Release, WorldInv
<1> QED
  BY <1>1, <1>2, <1>3, <1>4, <1>5, <1>6, Zenon DEF Move

LEMMA ReportsAreReadings ==
  ASSUME WorldInv, NEW report \in Reports
  PROVE  /\ report = [ok |-> report.ok, touch |-> report.touch]
         /\ report.ok \in BOOLEAN
         /\ report.touch \in {glass, last}
         /\ Reading(report.touch, scene)
         /\ ~report.ok => report.touch = last
<1>1. \/ report = [ok |-> TRUE, touch |-> glass]
      \/ report = [ok |-> TRUE, touch |-> last]
      \/ report = [ok |-> FALSE, touch |-> last]
  BY Zenon DEF Reports
<1>2. CASE report = [ok |-> TRUE, touch |-> glass]
  BY <1>2 DEF WorldInv
<1>3. CASE report = [ok |-> TRUE, touch |-> last]
  BY <1>3 DEF WorldInv
<1>4. CASE report = [ok |-> FALSE, touch |-> last]
  BY <1>4 DEF WorldInv
<1> QED
  BY <1>1, <1>2, <1>3, <1>4

LEMMA StepWorld ==
  ASSUME WorldInv, [InputNext]_input_vars PROVE WorldInv'
<1>1. CASE Pass
  <2>1. PICK outcome \in Outcomes, report \in Reports, tick \in scene.ticks,
             changed \in BOOLEAN, turns \in BOOLEAN : Step(outcome, report, tick, changed, turns)
    BY <1>1, PassSteps
  <2>2. last' = report.touch /\ UNCHANGED <<scene, held, glass>>
    BY <2>1 DEF Step
  <2> QED
    BY <2>2, ReportsAreReadings DEF WorldInv
<1>2. CASE Move
  BY <1>2, GlassMoves DEF WorldInv
<1>3. CASE UNCHANGED input_vars
  BY <1>3 DEF input_vars, screen, WorldInv
<1> QED
  BY <1>1, <1>2, <1>3, PassOrMove

(***************************************************************************)
(* The tails of the chords.                                                *)
(***************************************************************************)

TailsInv ==
  /\ usb \in Decoders /\ TailInv(usb, tails.usb, scene.elf)
  /\ i2c \in Decoders /\ TailInv(i2c, tails.i2c, FALSE)

LEMMA UsbSteps ==
  ASSUME WorldInv, TailsInv
  PROVE  UsbPolled(held.usb) = Decode(usb, held.usb, scene.elf)
<1>1. scene.elf \in BOOLEAN
  BY ScenesAssumption DEF WorldInv
<1>2. CASE scene.elf = TRUE
  BY <1>2 DEF UsbPolled, ElfDecode
<1>3. CASE scene.elf = FALSE
  BY <1>3 DEF UsbPolled, NativeDecode
<1> QED
  BY <1>1, <1>2, <1>3

LEMMA I2cSteps ==
  ASSUME NEW outcome \in Outcomes, NEW p
  PROVE  \/ outcome \notin {"report", "cached"} /\ I2cPolled(outcome, p) = Idle
         \/ outcome \in {"report", "cached"} /\ I2cPolled(outcome, p) = Decode(i2c, p, FALSE)
         \/ outcome \in {"report", "cached"} /\ I2cPolled(outcome, p) = NoActions(i2c)
<1>1. outcome \in {"absent", "report", "cached", "lost"}
  BY DEF Outcomes
<1>2. /\ "absent" # "report" /\ "absent" # "cached" /\ "absent" # "lost"
      /\ "report" # "cached" /\ "report" # "lost" /\ "cached" # "lost"
  OBVIOUS
<1>3. /\ I2cPolled("absent", p) = Idle /\ I2cPolled("lost", p) = Idle
      /\ I2cPolled("report", p) = I2cDecode(i2c, p)
      /\ I2cPolled("cached", p) = NoActions(i2c)
  BY <1>2, Zenon DEF I2cPolled
<1> QED
  BY <1>1, <1>2, <1>3 DEF I2cDecode

(* What a pass does to both decoders.                                       *)
LEMMA StepDecodes ==
  ASSUME WorldInv, TailsInv,
         NEW outcome \in Outcomes, NEW report \in Reports, NEW tick \in scene.ticks,
         NEW changed \in BOOLEAN, NEW turns \in BOOLEAN, Step(outcome, report, tick, changed, turns)
  PROVE  /\ TailsInv'
         /\ Fresh(usb, tails.usb, usb'.actions)
         /\ Fresh(i2c, tails.i2c, i2c'.actions)
<1>1. /\ usb' = UsbPolled(held.usb)
      /\ i2c' = I2cPolled(outcome, held.i2c)
      /\ initialized' = (outcome \in {"report", "cached"})
      /\ tails' = [usb |-> TailsAfter(usb', tails.usb),
                   i2c |-> IF initialized' THEN TailsAfter(i2c', tails.i2c) ELSE {}]
      /\ scene' = scene
  BY DEF Step
<1>2. scene.elf \in BOOLEAN
  BY ScenesAssumption DEF WorldInv
<1>3. held.usb \in SUBSET Keys /\ held.i2c \in SUBSET Keys
  BY DEF WorldInv, Devices
<1>4. /\ usb' \in Decoders /\ TailInv(usb', TailsAfter(usb', tails.usb), scene.elf)
      /\ Fresh(usb, tails.usb, usb'.actions)
  BY <1>1, <1>2, <1>3, UsbSteps, DecodeKeeps DEF TailsInv
<1>5. tails'.usb = TailsAfter(usb', tails.usb)
  BY <1>1
<1>6. CASE initialized'
  <2>1. /\ i2c' \in Decoders /\ TailInv(i2c', TailsAfter(i2c', tails.i2c), FALSE)
        /\ Fresh(i2c, tails.i2c, i2c'.actions)
    <3>1. CASE i2c' = Decode(i2c, held.i2c, FALSE)
      BY <1>3, <3>1, DecodeKeeps DEF TailsInv
    <3>2. CASE i2c' = NoActions(i2c)
      BY <3>2, CachedKeeps DEF TailsInv
    <3> QED
      BY <1>1, <1>6, <3>1, <3>2, I2cSteps
  <2>2. tails'.i2c = TailsAfter(i2c', tails.i2c)
    BY <1>1, <1>6
  <2> QED
    BY <1>1, <1>4, <1>5, <2>1, <2>2 DEF TailsInv
<1>7. CASE ~initialized'
  <2>3. I2cPolled(outcome, held.i2c) = Idle
    BY <1>1, <1>7, I2cSteps
  <2>4. Idle.actions = {}
    BY DEF Idle
  <2>1. i2c' = Idle /\ i2c'.actions = {}
    BY <1>1, <2>3, <2>4
  <2>2. tails'.i2c = {}
    BY <1>1, <1>7
  <2> QED
    BY <1>1, <1>4, <1>5, <2>1, <2>2, IdleHolds DEF TailsInv, Fresh
<1> QED
  BY <1>6, <1>7

LEMMA InitTails ==
  ASSUME InputInit PROVE TailsInv
<1>1. scene.elf \in BOOLEAN
  BY ScenesAssumption DEF InputInit
<1>2. tails.usb = {} /\ tails.i2c = {}
  BY DEF InputInit, Devices
<1> QED
  BY <1>1, <1>2, IdleHolds DEF InputInit, TailsInv

LEMMA MovesKeep ==
  ASSUME Move
  PROVE  /\ scene' = scene /\ usb' = usb /\ i2c' = i2c /\ initialized' = initialized
         /\ menu' = menu /\ last' = last /\ ui' = ui /\ page' = page
         /\ orientation' = orientation /\ fullscreen' = fullscreen /\ now' = now
         /\ game' = game /\ tails' = tails /\ quiet' = quiet /\ hold' = hold /\ linger' = linger
BY Zenon DEF Move, Press, Release, Lift, Land, Home, decoders, screen, history

LEMMA StepTails ==
  ASSUME WorldInv, TailsInv, [InputNext]_input_vars PROVE TailsInv'
<1>1. CASE Pass
  BY <1>1, PassSteps, StepDecodes
<1>2. CASE Move
  BY <1>2, MovesKeep DEF TailsInv
<1>3. CASE UNCHANGED input_vars
  BY <1>3 DEF input_vars, decoders, history, TailsInv
<1> QED
  BY <1>1, <1>2, <1>3, PassOrMove

LEMMA SilentSteps ==
  ASSUME WorldInv, TailsInv, InputNext, held' = held, glass' = glass, NEW d \in Devices
  PROVE  TailIsSilent(d)' /\ CommandIsNew(d)
<1>1. PICK outcome \in Outcomes, report \in Reports, tick \in scene.ticks,
           changed \in BOOLEAN, turns \in BOOLEAN : Step(outcome, report, tick, changed, turns)
  BY MoveChanges, PassOrMove, PassSteps
<1>2. TailsInv' /\ Fresh(usb, tails.usb, usb'.actions) /\ Fresh(i2c, tails.i2c, i2c'.actions)
  BY <1>1, StepDecodes
<1>3. ASSUME NEW T, NEW e, NEW elf, TailInv(e, T, elf)
      PROVE  ~Touched(UNION T, e.buttons \union e.navigation)
  BY <1>3 DEF TailInv, Touched
<1>4. /\ ~Touched(UNION tails'.usb, usb'.buttons \union usb'.navigation)
      /\ ~Touched(UNION tails'.i2c, i2c'.buttons \union i2c'.navigation)
  BY <1>2, <1>3 DEF TailsInv
<1>5. /\ Decoder.usb = usb /\ Decoder.i2c = i2c
      /\ Decoder'.usb = usb' /\ Decoder'.i2c = i2c'
  BY DEF Decoder
<1>6. TailIsSilent("usb")' /\ TailIsSilent("i2c")'
  BY <1>4, <1>5 DEF TailIsSilent
<1>7. CommandIsNew("usb") /\ CommandIsNew("i2c")
  BY <1>2, <1>5 DEF CommandIsNew, Fresh
<1> QED
  BY <1>6, <1>7 DEF Devices

(* The keys of a chord stay silent until all of them are up, on every decoder *)
(* and in whatever order they are let go, and a command needs a key that just *)
(* went down (decode_buttons, decode_actions): "never turn its tail into      *)
(* save/load or brightness".                                                  *)
THEOREM ChordsEndQuietly == InputSpec => TailsAreSilent
<1>1. InputInit => WorldInv /\ TailsInv
  BY InitWorld, InitTails
<1>2. WorldInv /\ TailsInv /\ [InputNext]_input_vars => (WorldInv /\ TailsInv)'
  BY StepWorld, StepTails
<1>3. WorldInv /\ TailsInv /\ [InputNext]_input_vars
        => [held' = held /\ glass' = glass
              => \A d \in Devices : TailIsSilent(d)' /\ CommandIsNew(d)]_input_vars
  BY SilentSteps
<1> QED
  BY <1>1, <1>2, <1>3, PTL DEF InputSpec, TailsAreSilent

(***************************************************************************)
(* The menus.                                                              *)
(***************************************************************************)

Headings == {{}, {"Up"}, {"Down"}}

MenuActions == {"none", "back", "refresh", "launch", "previous", "next",
                "Battery", "SdCard", "About", "GamepadTest"}

Menus ==
  [selection : 0..3, previous : SUBSET Menu, direction : Headings,
   repeat_at : 0..(CLOCK - 1), wait_release : BOOLEAN, move : BOOLEAN, action : MenuActions]

LEMMA ClockRange ==
  /\ CLOCK \in Nat \ {0} /\ FIRST \in Nat /\ AGAIN \in Nat
  /\ \A x \in Nat : x % CLOCK \in 0..(CLOCK - 1)
  /\ 0 \in 0..(CLOCK - 1)
BY ClockAssumption

LEMMA OpensWhat ==
  /\ Opens[0] = "Battery" /\ Opens[1] = "SdCard" /\ Opens[2] = "About" /\ Opens[3] = "GamepadTest"
  /\ \A k \in 0..3 : Opens[k] \in {"Battery", "SdCard", "About", "GamepadTest"}
<1>1. 0 \in 0..3 /\ 1 \in 0..3 /\ 2 \in 0..3 /\ 3 \in 0..3
  OBVIOUS
<1>2. 0 # 1 /\ 0 # 2 /\ 0 # 3 /\ 1 # 2 /\ 1 # 3 /\ 2 # 3
  OBVIOUS
<1>3. Opens[0] = "Battery" /\ Opens[1] = "SdCard"
  BY <1>1, <1>2, Zenon DEF Opens
<1>4. Opens[2] = "About" /\ Opens[3] = "GamepadTest"
  BY <1>1, <1>2, Zenon DEF Opens
<1>5. ASSUME NEW k \in 0..3 PROVE k = 0 \/ k = 1 \/ k = 2 \/ k = 3
  OBVIOUS
<1> QED
  BY <1>3, <1>4, <1>5, Zenon

LEMMA ActsWhat ==
  /\ Acts("back") = {"B"}
  /\ Acts("none") = {} /\ Acts("refresh") = {} /\ Acts("previous") = {} /\ Acts("next") = {}
  /\ \A a \in {"launch", "Battery", "SdCard", "About", "GamepadTest"} : Acts(a) = {"A"}
<1>1. Acts("back") = {"B"}
  BY Zenon DEF Acts
<1>2. "back" \notin {"none", "refresh", "previous", "next"}
  OBVIOUS
<1>3. \A a \in {"none", "refresh", "previous", "next"} : Acts(a) = {}
  BY <1>2, Zenon DEF Acts
<1>4. \A a \in {"launch", "Battery", "SdCard", "About", "GamepadTest"} :
        a # "back" /\ a \notin {"none", "refresh", "previous", "next"}
  OBVIOUS
<1>5. \A a \in {"launch", "Battery", "SdCard", "About", "GamepadTest"} : Acts(a) = {"A"}
  BY <1>4, Zenon DEF Acts
<1> QED
  BY <1>1, <1>3, <1>5

LEMMA DirectionOf ==
  ASSUME NEW buttons PROVE Direction(buttons) \in Headings
BY DEF Direction, Headings

(* The direction held becomes h.                                            *)
Turns(m, n, h, time) ==
  /\ m \in Menus /\ m.selection = n.selection /\ m.previous = n.previous
  /\ m.wait_release = n.wait_release /\ m.action = n.action
  /\ m.direction = h
  /\ m.move <=> (h # {} /\ (h # n.direction \/ Reached(time, n.repeat_at)))
  /\ m.repeat_at = IF h # n.direction THEN (time + FIRST) % CLOCK
                   ELSE IF h # {} /\ Reached(time, n.repeat_at) THEN (time + AGAIN) % CLOCK
                   ELSE n.repeat_at

LEMMA MovedFields ==
  ASSUME NEW n \in Menus, NEW h \in Headings, NEW time \in 0..(CLOCK - 1)
  PROVE  Turns(Moved(n, h, time), n, h, time)
<1> DEFINE m == Moved(n, h, time)
           turned == h # n.direction
           again  == ~turned /\ h # {} /\ Reached(time, n.repeat_at)
           moves  == (turned /\ h # {}) \/ again
           at     == IF turned THEN (time + FIRST) % CLOCK
                     ELSE IF again THEN (time + AGAIN) % CLOCK ELSE n.repeat_at
<1>1. m = [n EXCEPT !.direction = h, !.move = moves, !.repeat_at = at]
  BY Zenon DEF Moved
<1>2. time + FIRST \in Nat /\ time + AGAIN \in Nat /\ n.repeat_at \in 0..(CLOCK - 1)
  BY ClockRange DEF Menus
<1>3. (time + FIRST) % CLOCK \in 0..(CLOCK - 1) /\ (time + AGAIN) % CLOCK \in 0..(CLOCK - 1)
  BY <1>2, ClockRange
<1>4. at \in 0..(CLOCK - 1) /\ moves \in BOOLEAN
  BY <1>2, <1>3
<1>5. /\ moves <=> (h # {} /\ (h # n.direction \/ Reached(time, n.repeat_at)))
      /\ at = IF h # n.direction THEN (time + FIRST) % CLOCK
              ELSE IF h # {} /\ Reached(time, n.repeat_at) THEN (time + AGAIN) % CLOCK
              ELSE n.repeat_at
  OBVIOUS
<1> HIDE DEF turned, again, moves, at, m
<1>6. /\ m \in Menus /\ m.selection = n.selection /\ m.previous = n.previous
      /\ m.wait_release = n.wait_release /\ m.action = n.action
      /\ m.direction = h /\ m.move = moves /\ m.repeat_at = at
  BY <1>1, <1>4 DEF Menus
<1>7. Turns(m, n, h, time)
  BY <1>5, <1>6 DEF Turns
<1> QED
  BY <1>7 DEF m

(* What the menus keep of a direction, whichever page is shown.             *)
SameTimes(r, m) ==
  /\ r.previous = m.previous /\ r.wait_release = m.wait_release
  /\ r.direction = m.direction /\ r.move = m.move /\ r.repeat_at = m.repeat_at

Polls(r, presses, m) ==
  /\ r \in Menus /\ SameTimes(r, m)
  /\ Acts(r.action) \subseteq presses \intersect {"A"}
  /\ r.action # "back"

LEMMA PollFields ==
  ASSUME NEW n \in Menus, NEW presses, NEW buttons, NEW g \in Pages,
         NEW time \in 0..(CLOCK - 1), n.action = "none"
  PROVE  Polls(Poll(n, presses, buttons, g, time), presses, Moved(n, Direction(buttons), time))
<1> DEFINE m == Moved(n, Direction(buttons), time)
           r == Poll(n, presses, buttons, g, time)
<1>1. m \in Menus /\ m.action = "none"
  BY DirectionOf, MovedFields DEF Turns
<1>2. \/ r = InSettingsPage(m, presses)
      \/ r = InSdCardPage(m, presses)
      \/ r = m
  <2>1. g = "Settings" => r = InSettingsPage(m, presses)
    BY Zenon DEF Poll
  <2>2. g = "SdCard" => r = InSdCardPage(m, presses)
    <3>1. "SdCard" # "Settings"
      OBVIOUS
    <3> QED
      BY <3>1, Zenon DEF Poll
  <2>3. g # "Settings" /\ g # "SdCard" => r = m
    BY Zenon DEF Poll
  <2> QED
    BY <2>1, <2>2, <2>3
<1> SUFFICES Polls(r, presses, m)
  OBVIOUS
<1> HIDE DEF m, r
<1>3. CASE r = InSettingsPage(m, presses)
  <2> DEFINE step == IF ~m.move THEN 0 ELSE IF m.direction = {"Up"} THEN 3 ELSE 1
             selection == (m.selection + step) % 4
             action == IF "A" \in presses THEN Opens[selection]
                       ELSE IF m.move THEN "refresh" ELSE "none"
  <2>1. r = [m EXCEPT !.selection = selection, !.action = action]
    BY <1>3, Zenon DEF InSettingsPage
  <2>2. selection \in 0..3
    BY <1>1 DEF Menus
  <2> HIDE DEF selection
  <2>3. action \in MenuActions /\ action # "back" /\ Acts(action) \subseteq presses \intersect {"A"}
    BY <2>2, OpensWhat, ActsWhat DEF MenuActions
  <2> HIDE DEF action
  <2> QED
    BY <1>1, <2>1, <2>2, <2>3 DEF Menus, SameTimes, Polls
<1>4. CASE r = InSdCardPage(m, presses)
  <2> DEFINE action == IF "A" \in presses THEN "launch"
                       ELSE IF ~m.move THEN "none"
                       ELSE IF m.direction = {"Up"} THEN "previous" ELSE "next"
  <2>1. r = [m EXCEPT !.action = action]
    BY <1>4, Zenon DEF InSdCardPage
  <2>2. action \in MenuActions /\ action # "back" /\ Acts(action) \subseteq presses \intersect {"A"}
    BY ActsWhat DEF MenuActions
  <2> HIDE DEF action
  <2> QED
    BY <1>1, <2>1, <2>2 DEF Menus, SameTimes, Polls
<1>5. CASE r = m
  BY <1>1, <1>5, ActsWhat DEF SameTimes, Polls
<1> QED
  BY <1>2, <1>3, <1>4, <1>5

(* A whole poll.                                                            *)
Maps(r, n, buttons, g, time) ==
  /\ r \in Menus /\ r.previous = buttons
  /\ r.wait_release = (n.wait_release /\ buttons # {})
  /\ Acts(r.action) \subseteq buttons \ n.previous
  /\ g = "Game" => Acts(r.action) = {}
  /\ \/ n.wait_release /\ r.direction = n.direction /\ ~r.move /\ r.repeat_at = n.repeat_at
     \/ r.direction = {}
     \/ /\ ~n.wait_release /\ r.action = "back"
        /\ r.direction = n.direction /\ ~r.move /\ r.repeat_at = n.repeat_at
     \/ /\ ~n.wait_release
        /\ r.direction = {"Up"} \/ r.direction = {"Down"}
        /\ r.move <=> (r.direction # n.direction \/ Reached(time, n.repeat_at))
        /\ r.repeat_at = IF r.direction # n.direction THEN (time + FIRST) % CLOCK
                         ELSE IF Reached(time, n.repeat_at) THEN (time + AGAIN) % CLOCK
                         ELSE n.repeat_at

LEMMA MapFields ==
  ASSUME NEW n \in Menus, NEW buttons \in SUBSET Menu, NEW g \in Pages,
         NEW time \in 0..(CLOCK - 1)
  PROVE  Maps(MapController(n, buttons, g, time), n, buttons, g, time)
<1> DEFINE r == MapController(n, buttons, g, time)
<1> SUFFICES Maps(r, n, buttons, g, time)
  OBVIOUS
<1> DEFINE no == FALSE
           presses == buttons \ n.previous
           seen == [n EXCEPT !.previous = buttons, !.move = no, !.action = "none"]
           waits == buttons # {}
<1>0. ~no /\ no \in BOOLEAN /\ waits \in BOOLEAN
  OBVIOUS
<1>1. r = IF n.wait_release THEN [seen EXCEPT !.wait_release = waits]
          ELSE IF g = "Game" THEN [seen EXCEPT !.direction = {}]
          ELSE IF "B" \in presses THEN [seen EXCEPT !.action = "back"]
          ELSE Poll(seen, presses, buttons, g, time)
  BY Zenon DEF MapController
<1> HIDE DEF no, r
<1>2. /\ seen \in Menus /\ seen.previous = buttons /\ ~seen.move /\ seen.action = "none"
      /\ seen.selection = n.selection /\ seen.wait_release = n.wait_release
      /\ seen.direction = n.direction /\ seen.repeat_at = n.repeat_at
  BY <1>0 DEF Menus, MenuActions
<1> HIDE DEF seen, waits
<1>3. CASE n.wait_release
  <2>1. r = [seen EXCEPT !.wait_release = waits]
    BY <1>1, <1>3
  <2>2. /\ r \in Menus /\ r.previous = buttons /\ r.wait_release = waits /\ ~r.move
        /\ r.direction = n.direction /\ r.repeat_at = n.repeat_at /\ r.action = "none"
    BY <1>0, <1>2, <2>1 DEF Menus
  <2> QED
    BY <1>3, <2>2, ActsWhat DEF Maps, waits
<1>4. CASE ~n.wait_release /\ g = "Game"
  <2>1. r = [seen EXCEPT !.direction = {}]
    BY <1>1, <1>4
  <2>2. /\ r \in Menus /\ r.previous = buttons /\ r.wait_release = n.wait_release
        /\ r.direction = {} /\ r.action = "none"
    BY <1>2, <2>1 DEF Menus, Headings
  <2> QED
    BY <1>4, <2>2, ActsWhat DEF Maps, Menus
<1>5. CASE ~n.wait_release /\ g # "Game" /\ "B" \in presses
  <2>1. r = [seen EXCEPT !.action = "back"]
    BY <1>1, <1>5
  <2>2. /\ r \in Menus /\ r.previous = buttons /\ r.wait_release = n.wait_release /\ ~r.move
        /\ r.direction = n.direction /\ r.repeat_at = n.repeat_at /\ r.action = "back"
    BY <1>2, <2>1 DEF Menus, MenuActions
  <2> QED
    BY <1>5, <2>2, ActsWhat DEF Maps, Menus
<1>6. CASE ~n.wait_release /\ g # "Game" /\ "B" \notin presses
  <2> DEFINE m == Moved(seen, Direction(buttons), time)
             h == Direction(buttons)
  <2>1. r = Poll(seen, presses, buttons, g, time)
    BY <1>1, <1>6
  <2>2. /\ r \in Menus /\ SameTimes(r, m) /\ Acts(r.action) \subseteq presses \intersect {"A"}
    BY <1>2, <2>1, PollFields DEF Polls
  <2>3. h \in Headings
    BY DirectionOf
  <2>4. /\ m.previous = seen.previous
        /\ m.wait_release = seen.wait_release
        /\ m.direction = h
        /\ m.move <=> (h # {} /\ (h # seen.direction \/ Reached(time, seen.repeat_at)))
        /\ m.repeat_at = IF h # seen.direction THEN (time + FIRST) % CLOCK
                         ELSE IF h # {} /\ Reached(time, seen.repeat_at) THEN (time + AGAIN) % CLOCK
                         ELSE seen.repeat_at
    BY <1>2, <2>3, MovedFields DEF Turns
  <2> HIDE DEF m
  <2>5. r.wait_release = FALSE
    BY <1>2, <1>6, <2>2, <2>4 DEF SameTimes, Menus
  <2> QED
    BY <1>2, <1>6, <2>2, <2>3, <2>4, <2>5 DEF Maps, SameTimes, Headings
<1> QED
  BY <1>3, <1>4, <1>5, <1>6

(***************************************************************************)
(* Fingers.                                                                *)
(***************************************************************************)

LEMMA Targets ==
  /\ DOMAIN Map!GameTargets \subseteq TouchActions
  /\ DOMAIN Map!LandscapeTargets \subseteq TouchActions
  /\ DOMAIN Map!HeaderTargets \subseteq TouchActions
  /\ \A g \in DOMAIN Map!PageTargets : DOMAIN Map!PageTargets[g] \subseteq TouchActions
BY Zenon DEF TouchActions

LEMMA Known ==
  "fullscreen" \in TouchActions /\ "home" \in TouchActions /\ "refresh" \in TouchActions
<1>1. "fullscreen" \in DOMAIN Map!LandscapeTargets
  BY DEF Map!LandscapeTargets
<1>2. "home" \in DOMAIN Map!HeaderTargets
  BY DEF Map!HeaderTargets
<1>3. "refresh" \in DOMAIN Map!PageTargets["Battery"] /\ "Battery" \in DOMAIN Map!PageTargets
  BY DEF Map!PageTargets
<1> QED
  BY <1>1, <1>2, <1>3, Targets

LEMMA NamesOfActions ==
  TouchActions \subseteq
    {"rotate", "power", "save", "load", "settings", "light_down", "light_up", "light_off",
     "fullscreen", "battery", "sd_card", "about", "gamepad_test", "refresh", "audio_engine",
     "rom_previous", "rom_next", "rom_launch", "load_last", "sd_rescan", "back", "home"}
<1> DEFINE all ==
    {"rotate", "power", "save", "load", "settings", "light_down", "light_up", "light_off",
     "fullscreen", "battery", "sd_card", "about", "gamepad_test", "refresh", "audio_engine",
     "rom_previous", "rom_next", "rom_launch", "load_last", "sd_rescan", "back", "home"}
<1>1. DOMAIN Map!GameTargets \subseteq all
  BY DEF Map!GameTargets
<1>2. DOMAIN Map!LandscapeTargets \subseteq all
  BY DEF Map!LandscapeTargets
<1>3. DOMAIN Map!HeaderTargets \subseteq all
  BY DEF Map!HeaderTargets
<1>4. ASSUME NEW g \in DOMAIN Map!PageTargets PROVE DOMAIN Map!PageTargets[g] \subseteq all
  <2>1. g \in {"Settings", "Battery", "SdCard"}
    BY DEF Map!PageTargets
  <2>2. DOMAIN Map!PageTargets["Settings"] \subseteq all
    BY DEF Map!PageTargets
  <2>3. DOMAIN Map!PageTargets["Battery"] \subseteq all
    BY DEF Map!PageTargets
  <2>4. DOMAIN Map!PageTargets["SdCard"] \subseteq all
    BY DEF Map!PageTargets
  <2> QED
    BY <2>1, <2>2, <2>3, <2>4
<1> HIDE DEF all
<1>5. TouchActions \subseteq all
  BY <1>1, <1>2, <1>3, <1>4, Zenon DEF TouchActions
<1> QED
  BY <1>5 DEF all

LEMMA PageMeanings ==
  ASSUME NEW p, NEW g \in Pages, NEW o \in Map!Orientations, NEW f \in BOOLEAN
  PROVE  Map!Actions(p, g, o, f) \subseteq TouchActions
<1>1. \A q, t : Map!Hit(q, t) \subseteq DOMAIN t
  BY DEF Map!Hit
<1>2. CASE g # "Game"
  <2>1. Map!Actions(p, g, o, f)
          = Map!Hit(p, Map!HeaderTargets)
            \union (IF g \in DOMAIN Map!PageTargets THEN Map!Hit(p, Map!PageTargets[g]) ELSE {})
    BY <1>2 DEF Map!Actions
  <2> QED
    BY <2>1, <1>1, Targets
<1>3. CASE g = "Game" /\ o = "portrait"
  <2>1. Map!Actions(p, g, o, f) = Map!Hit(p, Map!GameTargets)
    BY <1>3, Zenon DEF Map!Actions
  <2> QED
    BY <2>1, <1>1, Targets
<1>4. CASE g = "Game" /\ o # "portrait" /\ f
  <2>1. Map!Actions(p, g, o, f) = {"fullscreen"}
    BY <1>4, Zenon DEF Map!Actions
  <2> QED
    BY <2>1, Known
<1>5. CASE g = "Game" /\ o # "portrait" /\ ~f
  <2>1. Map!Actions(p, g, o, f) = Map!Hit(Map!LandscapeTouch(p, o), Map!LandscapeTargets)
    BY <1>5, Zenon DEF Map!Actions
  <2> QED
    BY <2>1, <1>1, Targets
<1> QED
  BY <1>2, <1>3, <1>4, <1>5

LEMMA KeyMeanings ==
  ASSUME NEW p, NEW o, NEW f
  PROVE  Map!Buttons(p, o, f) \subseteq TouchKeys
<1> DEFINE q == IF o = "portrait" THEN p ELSE Map!LandscapeTouch(p, o)
           l == Map!Layout(o)
<1>1. Map!Directions(q, l.dpad) \subseteq TouchKeys
  BY DEF Map!Directions, TouchKeys
<1>2. /\ {key \in {"a", "b"} : Map!InCircle(q, l[key], l.radius)} \subseteq TouchKeys
      /\ {key \in {"select", "start"} : Map!InRect(q, l[key])} \subseteq TouchKeys
  BY DEF TouchKeys
<1>3. Map!Buttons(p, o, f) =
        IF o # "portrait" /\ f THEN {}
        ELSE (IF Map!InCircle(q, l.dpad, l.reach) THEN Map!Directions(q, l.dpad) ELSE {})
             \union {key \in {"a", "b"} : Map!InCircle(q, l[key], l.radius)}
             \union {key \in {"select", "start"} : Map!InRect(q, l[key])}
  BY Zenon DEF Map!Buttons
<1> HIDE DEF q, l
<1> QED
  BY <1>1, <1>2, <1>3

LEMMA MeaningsApply ==
  ASSUME NEW p \in Points, NEW g \in Pages, NEW o \in Map!Orientations, NEW f \in BOOLEAN
  PROVE  /\ Meanings[p][g][o][f] = Map!Actions(p, g, o, f)
         /\ KeysAt[p][o][f] = Map!Buttons(p, o, f)
BY Zenon DEF Meanings, KeysAt

(* Layouts, and what the fingers mean in one.                               *)
Layouts == [page : Pages, orientation : Map!Orientations, fullscreen : BOOLEAN]

LEMMA MeaningsKnown ==
  ASSUME NEW s \in Scenes, NEW t, Reading(t, s), NEW l \in Layouts
  PROVE  /\ \A f \in Fingers(t) : MeansAt(t.at[f], l) \subseteq Meaning(t, l)
         /\ \A a \in Meaning(t, l) \ {"home"} : \E f \in Fingers(t) : a \in MeansAt(t.at[f], l)
         /\ Meaning(t, l) \subseteq TouchActions
<1>1. ASSUME NEW f \in Fingers(t) PROVE MeansAt(t.at[f], l) \subseteq TouchActions
  <2>1. t.at[f] \in Points
    BY ScenesAssumption DEF Reading
  <2>2. l.page \in Pages /\ l.orientation \in Map!Orientations /\ l.fullscreen \in BOOLEAN
    BY DEF Layouts
  <2>3. MeansAt(t.at[f], l) = Map!Actions(t.at[f], l.page, l.orientation, l.fullscreen)
    BY <2>1, <2>2, MeaningsApply DEF MeansAt
  <2> QED
    BY <2>2, <2>3, PageMeanings
<1> DEFINE M(f) == MeansAt(t.at[f], l)
           home == IF t.home /\ l.page # "Game" THEN {"home"} ELSE {}
<1>2. Meaning(t, l) = (UNION {M(f) : f \in Fingers(t)}) \union home
  BY Zenon DEF Meaning
<1>3. home \subseteq {"home"} /\ {"home"} \subseteq TouchActions
  BY Known
<1>4. \A f \in Fingers(t) : M(f) \subseteq TouchActions
  BY <1>1
<1> HIDE DEF M, home
<1>5. \A f \in Fingers(t) : M(f) \subseteq Meaning(t, l)
  BY <1>2, Zenon
<1>8. ASSUME NEW a \in Meaning(t, l) PROVE a \in home \/ \E f \in Fingers(t) : a \in M(f)
  <2>1. CASE a \in UNION {M(f) : f \in Fingers(t)}
    <3>1. PICK x \in {M(f) : f \in Fingers(t)} : a \in x
      BY <2>1, Zenon
    <3>2. \E f \in Fingers(t) : x = M(f)
      BY <3>1
    <3> QED
      BY <3>1, <3>2
  <2>2. CASE a \in home
    BY <2>2
  <2> QED
    BY <1>2, <2>1, <2>2
<1>6. \A a \in Meaning(t, l) \ {"home"} : \E f \in Fingers(t) : a \in M(f)
  BY <1>3, <1>8
<1>7. Meaning(t, l) \subseteq TouchActions
  BY <1>3, <1>4, <1>8
<1> QED
  BY <1>5, <1>6, <1>7 DEF M

(* The state of the touches.                                                *)
Repeats == {{}, {"rom_previous"}, {"rom_next"}}

Feelings ==
  [mask : SUBSET TouchActions, acted : [TouchActions -> 0..(CLOCK - 1)],
   fired : SUBSET TouchActions, ignore_actions : BOOLEAN, ignore_buttons : BOOLEAN,
   repeat : Repeats, repeat_at : 0..(CLOCK - 1)]

LEMMA OneRepeats ==
  ASSUME NEW raw
  PROVE  (IF Cardinality(raw \intersect Repeating) = 1 THEN raw \intersect Repeating ELSE {})
           \in Repeats
<1> DEFINE both == raw \intersect Repeating
<1>1. both \subseteq {"rom_previous", "rom_next"}
  BY DEF Repeating
<1>2. ASSUME Cardinality(both) = 1 PROVE both # {} /\ both # {"rom_previous", "rom_next"}
  <2>1. Cardinality({}) = 0
    BY FS_EmptySet
  <2>2. IsFiniteSet({"rom_previous"}) /\ Cardinality({"rom_previous"}) = 1
    BY FS_Singleton
  <2>3. Cardinality({"rom_previous"} \union {"rom_next"}) = 2
    BY <2>2, FS_AddElement
  <2>4. {"rom_previous", "rom_next"} = {"rom_previous"} \union {"rom_next"}
    OBVIOUS
  <2> QED
    BY <1>2, <2>1, <2>3, <2>4
<1>3. both \in Repeats \/ both = {"rom_previous", "rom_next"}
  BY <1>1 DEF Repeats
<1>4. {} \in Repeats
  BY DEF Repeats
<1> QED
  BY <1>2, <1>3, <1>4

(* What a poll of the fingers keeps and fires.                              *)
FeltAs(r, u, seen, ok, l, time) ==
  /\ r \in Feelings
  /\ ~ok => /\ r.fired = {} /\ r.mask = u.mask /\ r.repeat = u.repeat
            /\ r.repeat_at = u.repeat_at /\ r.ignore_actions = u.ignore_actions
            /\ r.ignore_buttons = u.ignore_buttons
  /\ ok => r.ignore_buttons = StillIgnored(u, seen, l.page)
  /\ ok /\ u.ignore_actions =>
       /\ r.fired = {} /\ r.repeat = {} /\ r.ignore_actions = (Fingers(seen) # {})
  /\ ok /\ ~u.ignore_actions =>
       /\ ~r.ignore_actions
       /\ Meaning(seen, l) \ Repeating \subseteq r.mask
       /\ r.repeat \subseteq r.mask /\ r.repeat \subseteq Repeating
       /\ r.fired \subseteq (Meaning(seen, l) \ u.mask) \union r.repeat
       /\ r.repeat = u.repeat /\ u.repeat # {} /\ u.repeat \subseteq u.mask =>
            (r.repeat \subseteq r.fired <=> Reached(time, u.repeat_at))
       /\ r.repeat_at = IF r.repeat = {} THEN 0
                        ELSE IF r.repeat # u.repeat THEN (time + FIRST) % CLOCK
                        ELSE IF Reached(time, u.repeat_at) THEN (time + AGAIN) % CLOCK
                        ELSE u.repeat_at

\* ... of Firing.
Fires(r, u, raw, held_, time) ==
  /\ r \in Feelings /\ ~r.ignore_actions
  /\ r.mask = (raw \ Repeating) \union held_ /\ r.repeat = held_
  /\ r.fired \subseteq (raw \ u.mask) \union held_
  /\ held_ = u.repeat /\ u.repeat # {} /\ u.repeat \subseteq u.mask =>
       (held_ \subseteq r.fired <=> Reached(time, u.repeat_at))
  /\ r.repeat_at = IF held_ = {} THEN 0
                   ELSE IF held_ # u.repeat THEN (time + FIRST) % CLOCK
                   ELSE IF Reached(time, u.repeat_at) THEN (time + AGAIN) % CLOCK
                   ELSE u.repeat_at

LEMMA FiringFields ==
  ASSUME NEW u \in Feelings, ~u.ignore_actions, NEW raw \in SUBSET TouchActions,
         NEW held_ \in Repeats, held_ \subseteq raw, NEW time \in 0..(CLOCK - 1)
  PROVE  Fires(Firing(u, (raw \ Repeating) \union held_, held_, time), u, raw, held_, time)
<1> DEFINE current == (raw \ Repeating) \union held_
           pressed == {a \in current \ u.mask : (time - u.acted[a]) % CLOCK >= DEBOUNCE}
           turned  == held_ # u.repeat
           again   == ~turned /\ held_ # {} /\ Reached(time, u.repeat_at)
           fired   == pressed \union (IF again THEN held_ ELSE {})
           acted   == [a \in TouchActions |-> IF a \in pressed THEN time ELSE u.acted[a]]
           at      == RepeatAt(u, held_, turned, again, time)
           r       == Firing(u, current, held_, time)
<1> SUFFICES Fires(r, u, raw, held_, time)
  OBVIOUS
<1>1. r = [u EXCEPT !.mask = current, !.fired = fired, !.acted = acted,
                    !.repeat = held_, !.repeat_at = at]
  BY Zenon DEF Firing
<1>2. pressed \subseteq current \ u.mask /\ current \subseteq raw
  BY DEF Repeating
<1>5. time + FIRST \in Nat /\ time + AGAIN \in Nat /\ u.repeat_at \in 0..(CLOCK - 1)
  BY ClockRange DEF Feelings
<1>6. (time + FIRST) % CLOCK \in 0..(CLOCK - 1) /\ (time + AGAIN) % CLOCK \in 0..(CLOCK - 1)
  BY <1>5, ClockRange
<1>7. /\ at \in 0..(CLOCK - 1)
      /\ at = IF held_ = {} THEN 0
              ELSE IF held_ # u.repeat THEN (time + FIRST) % CLOCK
              ELSE IF Reached(time, u.repeat_at) THEN (time + AGAIN) % CLOCK
              ELSE u.repeat_at
  BY <1>5, <1>6, ClockRange DEF RepeatAt
<1>8. fired \in SUBSET TouchActions /\ current \in SUBSET TouchActions
  BY <1>2
<1>9. acted \in [TouchActions -> 0..(CLOCK - 1)]
  BY DEF Feelings
<1>10. fired \subseteq (raw \ u.mask) \union held_
  BY <1>2
<1>11. ASSUME held_ = u.repeat, u.repeat # {}, u.repeat \subseteq u.mask
       PROVE  held_ \subseteq fired <=> Reached(time, u.repeat_at)
  BY <1>2, <1>11
<1> HIDE DEF current, pressed, turned, again, fired, acted, at, r
<1>13. /\ r \in Feelings /\ ~r.ignore_actions /\ r.mask = current /\ r.repeat = held_
       /\ r.fired = fired /\ r.repeat_at = at
  BY <1>1, <1>7, <1>8, <1>9 DEF Feelings
<1> QED
  BY <1>7, <1>10, <1>11, <1>13 DEF Fires, current

LEMMA FeltFields ==
  ASSUME NEW s \in Scenes, NEW report, Reading(report.touch, s), report.ok \in BOOLEAN,
         NEW u \in Feelings, NEW l \in Layouts, NEW time \in 0..(CLOCK - 1)
  PROVE  FeltAs(MapTouch(u, report, l, time), u, report.touch, report.ok, l, time)
<1> DEFINE seen == report.touch
           raw == Meaning(seen, l)
           one == IF Cardinality(raw \intersect Repeating) = 1 THEN raw \intersect Repeating ELSE {}
           current == (raw \ Repeating) \union one
           m == MapActions(u, seen, l, time)
           ignored == StillIgnored(u, seen, l.page)
           r == MapTouch(u, report, l, time)
<1> SUFFICES FeltAs(r, u, seen, report.ok, l, time)
  OBVIOUS
<1>1. raw \in SUBSET TouchActions
  BY MeaningsKnown
<1>2. one \in Repeats /\ one \subseteq raw /\ one \subseteq Repeating
  BY OneRepeats
<1>3. ignored \in BOOLEAN
  BY DEF StillIgnored, Feelings
<1>4. m = IF u.ignore_actions THEN Waiting(u, seen, current) ELSE Firing(u, current, one, time)
  BY Zenon DEF MapActions
<1>5. r = IF report.ok THEN [m EXCEPT !.ignore_buttons = ignored] ELSE [u EXCEPT !.fired = {}]
  BY Zenon DEF MapTouch
<1>6. (seen = report.touch) /\ (raw = Meaning(seen, l)) /\ ignored = StillIgnored(u, seen, l.page)
  OBVIOUS
<1>7. current = (raw \ Repeating) \union one /\ current \in SUBSET TouchActions
  BY <1>1, <1>2
<1> HIDE DEF raw, one, m, ignored, r, seen
<1>8. CASE ~report.ok
  <2>1. r = [u EXCEPT !.fired = {}]
    BY <1>5, <1>8
  <2> QED
    BY <1>8, <2>1 DEF FeltAs, Feelings
<1>9. CASE report.ok /\ u.ignore_actions
  <2> DEFINE mask == IF Fingers(seen) = {} THEN {} ELSE current
             still == Fingers(seen) # {}
  <2>1. m = [u EXCEPT !.fired = {}, !.repeat = {}, !.repeat_at = 0, !.mask = mask,
                      !.ignore_actions = still]
    BY <1>4, <1>9, Zenon DEF Waiting
  <2>2. mask \in SUBSET TouchActions /\ still \in BOOLEAN /\ {} \in Repeats
    BY <1>7 DEF Repeats
  <2>3. still = (Fingers(seen) # {})
    OBVIOUS
  <2> HIDE DEF mask, still
  <2>4. m \in Feelings /\ m.fired = {} /\ m.repeat = {} /\ m.ignore_actions = still
    BY <2>1, <2>2, ClockRange DEF Feelings
  <2>5. r = [m EXCEPT !.ignore_buttons = ignored]
    BY <1>5, <1>9
  <2>6. /\ r \in Feelings /\ r.fired = {} /\ r.repeat = {} /\ r.ignore_actions = still
        /\ r.ignore_buttons = ignored
    BY <1>3, <2>4, <2>5 DEF Feelings
  <2> QED
    BY <1>6, <1>9, <2>3, <2>6 DEF FeltAs
<1>10. CASE report.ok /\ ~u.ignore_actions
  <2>1. m = Firing(u, (raw \ Repeating) \union one, one, time)
    BY <1>4, <1>7, <1>10
  <2>2. Fires(m, u, raw, one, time)
    BY <1>1, <1>2, <1>10, <2>1, FiringFields
  <2>3. r = [m EXCEPT !.ignore_buttons = ignored]
    BY <1>5, <1>10
  <2>4. /\ r \in Feelings /\ r.ignore_actions = m.ignore_actions /\ r.mask = m.mask
        /\ r.repeat = m.repeat /\ r.fired = m.fired /\ r.repeat_at = m.repeat_at
        /\ r.ignore_buttons = ignored
    BY <1>3, <2>2, <2>3 DEF Fires, Feelings
  <2>5. raw \ Repeating \subseteq current /\ one \subseteq current
    BY <1>7
  <2> HIDE DEF current
  <2> QED
    BY <1>2, <1>6, <1>7, <1>10, <2>2, <2>4, <2>5 DEF FeltAs, Fires
<1> QED
  BY <1>8, <1>9, <1>10

LEMMA ChangedFields ==
  ASSUME NEW u \in Feelings
  PROVE  /\ LayoutChanged(u) \in Feelings
         /\ LayoutChanged(u).ignore_actions /\ LayoutChanged(u).ignore_buttons
         /\ LayoutChanged(u).repeat = {} /\ LayoutChanged(u).fired = u.fired
<1> DEFINE yes == TRUE
           r == LayoutChanged(u)
<1>1. r = [u EXCEPT !.ignore_actions = yes, !.ignore_buttons = yes, !.repeat = {}, !.repeat_at = 0]
  BY Zenon DEF LayoutChanged
<1>2. yes \in BOOLEAN /\ yes /\ {} \in Repeats
  BY DEF Repeats
<1> SUFFICES /\ r \in Feelings /\ r.ignore_actions /\ r.ignore_buttons
             /\ r.repeat = {} /\ r.fired = u.fired
  OBVIOUS
<1> HIDE DEF yes, r
<1> QED
  BY <1>1, <1>2, ClockRange DEF Feelings

(***************************************************************************)
(* Pages.                                                                  *)
(***************************************************************************)

Subpages == {"Battery", "SdCard", "About", "GamepadTest"}

LEMMA LastOpened ==
  ASSUME NEW S \in SUBSET Subpages, S # {}
  PROVE  \E p \in S : \A q \in S : \E m, n \in 0..3 : Opens[m] = p /\ Opens[n] = q /\ m >= n
<1> DEFINE Top(m) == /\ Opens[m] \in S
                     /\ \A q \in S : \E n \in 0..3 : Opens[n] = q /\ m >= n
<1>1. \A q \in S : \E n \in 0..3 : Opens[n] = q
  BY OpensWhat DEF Subpages
<1>2. \E m \in 0..3 : Top(m)
  <2>1. CASE Opens[3] \in S
    <3>1. Top(3)
      BY <1>1, <2>1
    <3> QED
      BY <3>1
  <2>2. CASE Opens[3] \notin S /\ Opens[2] \in S
    <3>1. Top(2)
      BY <2>2, OpensWhat DEF Subpages
    <3> QED
      BY <3>1
  <2>3. CASE Opens[3] \notin S /\ Opens[2] \notin S /\ Opens[1] \in S
    <3>1. Top(1)
      BY <2>3, OpensWhat DEF Subpages
    <3> QED
      BY <3>1
  <2>4. CASE Opens[3] \notin S /\ Opens[2] \notin S /\ Opens[1] \notin S
    <3>1. S = {Opens[0]}
      BY <2>4, OpensWhat DEF Subpages
    <3>2. Top(0)
      BY <3>1
    <3> QED
      BY <3>2
  <2> QED
    BY <2>1, <2>2, <2>3, <2>4
<1> QED
  BY <1>2

LEMMA PagesFollow ==
  ASSUME page \in Pages, NEW asked, "Game" \notin asked, "Settings" \notin asked
  PROVE  NextPages(asked) \subseteq Pages
<1>1. Opened(asked) \in SUBSET Subpages
  BY DEF Opened, Opening, Pages, Subpages
<1> DEFINE opened == IF page = "Settings" THEN Opened(asked) ELSE {}
           Chosen(p) == \A q \in opened : \E m, n \in 0..3 : Opens[m] = p /\ Opens[n] = q /\ m >= n
<1>2. opened \in SUBSET Subpages
  BY <1>1
<1>3. opened # {} => \E p \in opened : Chosen(p)
  BY <1>2, LastOpened
<1>4. NextPages(asked) =
        IF opened # {} THEN {CHOOSE p \in opened : Chosen(p)}
        ELSE IF "home" \in asked THEN {"Game"}
        ELSE IF "back" \in asked THEN {IF page = "Settings" THEN "Game" ELSE "Settings"}
        ELSE IF "settings" \in asked THEN {"Settings"}
        ELSE IF page = "SdCard" /\ asked \intersect {"launch", "rom_launch", "load_last"} # {}
        THEN {page, "Game"}
        ELSE {page}
  BY Zenon DEF NextPages
<1> HIDE DEF opened, Chosen
<1>5. CASE opened # {}
  <2>1. (CHOOSE p \in opened : Chosen(p)) \in opened
    BY <1>3, <1>5
  <2> QED
    BY <1>2, <1>4, <1>5, <2>1 DEF Pages, Subpages
<1>6. CASE opened = {}
  BY <1>4, <1>6 DEF Pages
<1> QED
  BY <1>5, <1>6

(* No pass asks for the game or the settings by the name of the page.       *)
LEMMA AskedNames ==
  ASSUME NEW u, u.fired \in SUBSET TouchActions, NEW action \in MenuActions, NEW commands
  PROVE  /\ "Game" \notin Actions(Returned(u, page), action, commands)
         /\ "Settings" \notin Actions(Returned(u, page), action, commands)
<1>1. "Game" \notin Returned(u, page) /\ "Settings" \notin Returned(u, page)
  BY NamesOfActions DEF Returned
<1>2. "Game" # action /\ "Settings" # action
  BY DEF MenuActions
<1> QED
  BY <1>1, <1>2 DEF Actions

(***************************************************************************)
(* What the menus and the fingers remember between two passes.             *)
(***************************************************************************)

\* A key that acted, or was down at a change of page, is still known to be down;
\* on the page of the game the pads are held back until it is not.
MenuInv ==
  /\ menu \in Menus /\ page \in Pages /\ now \in 0..(CLOCK - 1)
  /\ quiet \subseteq menu.previous
  /\ page = "Game" => menu.wait_release \/ quiet = {}

\* Fingers of an old layout, or that acted, are on the screen and were reported;
\* the old ones are waited for, and what is under the others is in the mask.
FingersInv ==
  /\ ui \in Feelings /\ orientation \in Map!Orientations /\ fullscreen \in BOOLEAN
  /\ old \subseteq Fingers(glass) \intersect Fingers(last)
  /\ \A f \in spent : f \in Fingers(glass) \intersect Fingers(last) /\ glass.at[f] = last.at[f]
  /\ old # {} => ui.ignore_actions /\ ui.ignore_buttons
  /\ ~ui.ignore_actions =>
       \A f \in Fingers(last) : MeansAt(last.at[f], Layout) \ Repeating \subseteq ui.mask
  /\ ui.repeat \subseteq ui.mask

\* What the pass makes of keys and fingers, in terms of what it had.
Understood(report) ==
  /\ now' \in 0..(CLOCK - 1)
  /\ usb'.navigation \union i2c'.navigation \in SUBSET Menu
  /\ usb'.buttons \union i2c'.buttons \in SUBSET Keys
  /\ Layout \in Layouts
  /\ Maps(Polled, menu, usb'.navigation \union i2c'.navigation, page, now')
  /\ FeltAs(Felt(report), ui, report.touch, report.ok, Layout, now')

LEMMA StepUnderstood ==
  ASSUME WorldInv, TailsInv, MenuInv, FingersInv,
         NEW outcome \in Outcomes, NEW report \in Reports, NEW tick \in scene.ticks,
         NEW changed \in BOOLEAN, NEW turns \in BOOLEAN, Step(outcome, report, tick, changed, turns)
  PROVE  Understood(report)
<1>1. now' = (now + tick) % CLOCK
  BY DEF Step
<1>2. tick \in Nat
  BY ScenesAssumption, ClockRange DEF WorldInv
<1>3. now + tick \in Nat
  BY <1>2, ClockRange DEF MenuInv
<1>4. now' \in 0..(CLOCK - 1)
  BY <1>1, <1>3, ClockRange
<1>5. usb' \in Decoders /\ i2c' \in Decoders
  BY StepDecodes DEF TailsInv
<1>6. /\ usb'.navigation \union i2c'.navigation \in SUBSET Menu
      /\ usb'.buttons \union i2c'.buttons \in SUBSET Keys
  BY <1>5 DEF Decoders
<1>7. Layout \in Layouts
  BY DEF Layout, Layouts, MenuInv, FingersInv
<1>8. Maps(Polled, menu, usb'.navigation \union i2c'.navigation, page, now')
  <2>1. menu \in Menus /\ page \in Pages
    BY DEF MenuInv
  <2> QED
    BY <1>4, <1>6, <2>1, MapFields DEF Polled
<1>9. FeltAs(Felt(report), ui, report.touch, report.ok, Layout, now')
  <2>1. scene \in Scenes /\ Reading(report.touch, scene) /\ report.ok \in BOOLEAN
    BY ReportsAreReadings DEF WorldInv
  <2>2. ui \in Feelings
    BY DEF FingersInv
  <2> QED
    BY <1>4, <1>7, <2>1, <2>2, FeltFields DEF Felt
<1> QED
  BY <1>4, <1>6, <1>7, <1>8, <1>9, Zenon DEF Understood

LEMMA PageChangedFields ==
  ASSUME NEW n \in Menus
  PROVE  /\ PageChanged(n) \in Menus /\ PageChanged(n).previous = n.previous
         /\ PageChanged(n).wait_release /\ PageChanged(n).direction = {}
         /\ PageChanged(n).action = n.action /\ PageChanged(n).repeat_at = n.repeat_at
<1> DEFINE yes == TRUE
           r == PageChanged(n)
<1>1. r = [n EXCEPT !.wait_release = yes, !.direction = {}]
  BY Zenon DEF PageChanged
<1>2. yes \in BOOLEAN /\ yes /\ {} \in Headings
  BY DEF Headings
<1> SUFFICES /\ r \in Menus /\ r.previous = n.previous
             /\ r.wait_release /\ r.direction = {}
             /\ r.action = n.action /\ r.repeat_at = n.repeat_at
  OBVIOUS
<1> HIDE DEF yes, r
<1> QED
  BY <1>1, <1>2 DEF Menus

LEMMA StepMenu ==
  ASSUME MenuInv,
         NEW outcome \in Outcomes, NEW report \in Reports, NEW tick \in scene.ticks,
         NEW changed \in BOOLEAN, NEW turns \in BOOLEAN, Step(outcome, report, tick, changed, turns),
         Understood(report)
  PROVE  /\ MenuInv'
         /\ Acts(menu'.action) \intersect quiet = {}
         /\ game'.pads \intersect quiet' = {} /\ game'.pads \subseteq Keys
<1> DEFINE reported == usb'.navigation \union i2c'.navigation
<1>1. /\ menu' = IF changed THEN PageChanged(Polled) ELSE Polled
      /\ page' \in {page} \union NextPages(Asked(report))
      /\ changed \/ page' = page
      /\ quiet' = (quiet \intersect reported) \union Acts(menu'.action)
                  \union (IF changed THEN reported ELSE {})
      /\ game' = GameKeys(usb', i2c', Polled, TouchedKeys(ui, report, Layout), changed)
  BY DEF Step
<1>2. reported \in SUBSET Menu
  BY DEF Understood
<1>3. /\ Polled \in Menus /\ Polled.previous = reported
      /\ Polled.wait_release = (menu.wait_release /\ reported # {})
      /\ Acts(Polled.action) \subseteq reported \ menu.previous
      /\ page = "Game" => Acts(Polled.action) = {}
  BY DEF Understood, Maps
<1>4. /\ menu' \in Menus /\ menu'.previous = reported /\ menu'.action = Polled.action
      /\ changed => menu'.wait_release
      /\ ~changed => menu'.wait_release = Polled.wait_release
  <2>1. /\ PageChanged(Polled) \in Menus /\ PageChanged(Polled).previous = Polled.previous
        /\ PageChanged(Polled).wait_release /\ PageChanged(Polled).action = Polled.action
    BY <1>3, PageChangedFields
  <2> QED
    BY <1>1, <1>3, <2>1
<1>5. page' \in Pages
  <2>1. Felt(report).fired \in SUBSET TouchActions
    BY DEF Understood, FeltAs, Feelings
  <2>2. Polled.action \in MenuActions
    BY <1>3 DEF Menus
  <2>3. "Game" \notin Asked(report) /\ "Settings" \notin Asked(report)
    BY <2>1, <2>2, AskedNames, Zenon DEF Asked
  <2>4. page \in Pages
    BY DEF MenuInv
  <2> QED
    BY <1>1, <2>3, <2>4, PagesFollow
<1>6. now' \in 0..(CLOCK - 1)
  BY DEF Understood
<1> HIDE DEF reported
<1>7. quiet' \subseteq menu'.previous
  BY <1>1, <1>3, <1>4
<1>8. ASSUME ~changed, page = "Game", ~Polled.wait_release PROVE quiet' = {}
  BY <1>1, <1>3, <1>4, <1>8 DEF MenuInv
<1>9. page' = "Game" => menu'.wait_release \/ quiet' = {}
  BY <1>1, <1>4, <1>8
<1>10. Acts(menu'.action) \intersect quiet = {}
  BY <1>3, <1>4 DEF MenuInv
<1>11. /\ changed \/ page # "Game" \/ Polled.wait_release => game'.pads = {}
       /\ ~changed /\ page = "Game" /\ ~Polled.wait_release
            => game'.pads = usb'.buttons \union i2c'.buttons
  BY <1>1 DEF GameKeys
<1>12. game'.pads \intersect quiet' = {} /\ game'.pads \subseteq Keys
  BY <1>8, <1>11 DEF Understood
<1> QED
  BY <1>4, <1>5, <1>6, <1>7, <1>9, <1>10, <1>12 DEF MenuInv

LEMMA NextOrientations ==
  ASSUME NEW o \in Map!Orientations PROVE Map!NextOrientation(o) \in Map!Orientations
<1>1. o \in {"portrait", "landscape", "reverse"}
  BY DEF Map!Orientations
<1>2. "portrait" # "landscape" /\ "portrait" # "reverse" /\ "landscape" # "reverse"
  OBVIOUS
<1>3. /\ Map!NextOrientation("portrait") = "landscape"
      /\ Map!NextOrientation("landscape") = "reverse"
      /\ Map!NextOrientation("reverse") = "portrait"
  BY <1>2, Zenon DEF Map!NextOrientation
<1> QED
  BY <1>1, <1>3 DEF Map!Orientations

\* What is under the fingers when their meaning is known, and was there before.
LEMMA WhereItFired ==
  ASSUME WorldInv, FingersInv, NEW report \in Reports, Understood(report),
         NEW a \in Felt(report).fired \ (Repeating \union {"home"})
  PROVE  \E f \in Fingers(report.touch) \ spent : a \in MeansAt(report.touch.at[f], Layout)
<1> DEFINE r == Felt(report)
           seen == report.touch
<1>1. FeltAs(r, ui, seen, report.ok, Layout, now') /\ Layout \in Layouts
  BY DEF Understood
<1>2. report.ok \in BOOLEAN /\ seen \in {glass, last} /\ Reading(seen, scene)
  BY ReportsAreReadings
<1> HIDE DEF r, seen
<1>3. report.ok /\ ~ui.ignore_actions
  BY <1>1, <1>2 DEF FeltAs, r
<1>4. r.fired \subseteq (Meaning(seen, Layout) \ ui.mask) \union Repeating
  BY <1>1, <1>3 DEF FeltAs
<1>5. a \in Meaning(seen, Layout) \ {"home"} /\ a \notin ui.mask /\ a \notin Repeating
  BY <1>4 DEF r
<1>6. PICK f \in Fingers(seen) : a \in MeansAt(seen.at[f], Layout)
  BY <1>1, <1>2, <1>5, MeaningsKnown DEF WorldInv
<1>7. f \notin spent
  <2> SUFFICES ASSUME f \in spent PROVE FALSE
    OBVIOUS
  <2>1. f \in Fingers(last) /\ glass.at[f] = last.at[f]
    BY DEF FingersInv
  <2>2. seen.at[f] = last.at[f]
    BY <1>2, <2>1
  <2>3. MeansAt(last.at[f], Layout) \ Repeating \subseteq ui.mask
    BY <1>3, <2>1 DEF FingersInv
  <2> QED
    BY <1>5, <1>6, <2>2, <2>3
<1> QED
  BY <1>6, <1>7 DEF seen

LEMMA StepFingers ==
  ASSUME WorldInv, MenuInv, FingersInv,
         NEW outcome \in Outcomes, NEW report \in Reports, NEW tick \in scene.ticks,
         NEW changed \in BOOLEAN, NEW turns \in BOOLEAN, Step(outcome, report, tick, changed, turns),
         Understood(report)
  PROVE  /\ FingersInv'
         /\ ui'.fired \ {"home"} # {} => old \intersect Fingers(last') = {}
         /\ game'.touch # {} => old' \intersect Fingers(last') = {}
         /\ game'.touch \subseteq TouchKeys
         /\ \A a \in ui'.fired \ (Repeating \union {"home"}) : FingerActs(a)
<1> DEFINE r == Felt(report)
           seen == report.touch
<1>1. /\ last' = seen
      /\ ui' = IF changed THEN LayoutChanged(r) ELSE r
      /\ orientation' = IF turns THEN Map!NextOrientation(orientation) ELSE orientation
      /\ fullscreen' \in BOOLEAN
      /\ turns => changed
      /\ changed \/ (page' = page /\ (fullscreen \in BOOLEAN => fullscreen' = fullscreen))
      /\ game' = GameKeys(usb', i2c', Polled, TouchedKeys(ui, report, Layout), changed)
      /\ old' = IF changed THEN On(report) ELSE old
      /\ spent' = spent \union {f \in On(report) : /\ seen.at[f] = glass.at[f]
                                                   /\ MeansAt(glass.at[f], Layout) \intersect r.fired # {}}
      /\ glass' = glass
  BY DEF Step
<1>2. FeltAs(r, ui, seen, report.ok, Layout, now') /\ Layout \in Layouts
  BY DEF Understood
<1>3. /\ report.ok \in BOOLEAN /\ seen \in {glass, last} /\ Reading(seen, scene)
      /\ ~report.ok => seen = last
  BY ReportsAreReadings
<1>4. \A a \in r.fired \ (Repeating \union {"home"}) :
        \E f \in Fingers(seen) \ spent : a \in MeansAt(seen.at[f], Layout)
  BY WhereItFired
<1>5. On(report) = Fingers(seen) \intersect Fingers(glass)
  BY DEF On
<1> HIDE DEF r, seen
<1>6. /\ r \in Feelings
      /\ LayoutChanged(r) \in Feelings
      /\ LayoutChanged(r).ignore_actions /\ LayoutChanged(r).ignore_buttons
      /\ LayoutChanged(r).repeat = {} /\ LayoutChanged(r).fired = r.fired
  BY <1>2, ChangedFields DEF FeltAs
<1>7. ui' \in Feelings /\ ui'.fired = r.fired
  BY <1>1, <1>6
<1>8. ui'.repeat \subseteq ui'.mask
  <2>1. r.repeat \subseteq r.mask
    BY <1>2, <1>3 DEF FeltAs, FingersInv
  <2> QED
    BY <1>1, <1>6, <2>1
<1>9. orientation' \in Map!Orientations /\ fullscreen' \in BOOLEAN
  BY <1>1, NextOrientations DEF FingersInv
<1>10. old \subseteq Fingers(seen) \intersect Fingers(glass)
  BY <1>3 DEF FingersInv
<1>11. old' \subseteq Fingers(glass') \intersect Fingers(last')
  BY <1>1, <1>5, <1>10
<1>12. \A f \in spent' : f \in Fingers(glass') \intersect Fingers(last') /\ glass'.at[f] = last'.at[f]
  BY <1>1, <1>3, <1>5 DEF FingersInv
<1>13. ASSUME old # {} PROVE r.fired = {} /\ r.ignore_actions /\ r.ignore_buttons
  <2>1. ui.ignore_actions /\ ui.ignore_buttons
    BY <1>13 DEF FingersInv
  <2>2. Fingers(seen) # {}
    BY <1>10, <1>13
  <2> QED
    BY <1>2, <1>3, <2>1, <2>2 DEF FeltAs, StillIgnored
<1>14. old' # {} => ui'.ignore_actions /\ ui'.ignore_buttons
  BY <1>1, <1>6, <1>13
<1>15. ASSUME ~ui'.ignore_actions, NEW f \in Fingers(last')
       PROVE  MeansAt(last'.at[f], Layout') \ Repeating \subseteq ui'.mask
  <2>1. ~changed /\ ui' = r
    BY <1>1, <1>6, <1>15
  <2>2. page' = page /\ fullscreen' = fullscreen /\ orientation' = orientation
    BY <1>1, <2>1 DEF FingersInv
  <2>3. Layout' = Layout
    BY <2>2 DEF Layout
  <2>4. CASE report.ok
    <3>1. ~ui.ignore_actions
      BY <1>1, <1>2, <1>15, <2>1, <2>4 DEF FeltAs
    <3>2. Meaning(seen, Layout) \ Repeating \subseteq r.mask
      BY <1>2, <2>4, <3>1 DEF FeltAs
    <3>3. MeansAt(seen.at[f], Layout) \subseteq Meaning(seen, Layout)
      BY <1>1, <1>2, <1>3, MeaningsKnown DEF WorldInv
    <3> QED
      BY <1>1, <2>1, <2>3, <3>2, <3>3
  <2>5. CASE ~report.ok
    <3>1. ~ui.ignore_actions /\ r.mask = ui.mask /\ last' = last
      BY <1>1, <1>2, <1>3, <1>15, <2>1, <2>5 DEF FeltAs
    <3> QED
      BY <2>1, <2>3, <3>1 DEF FingersInv
  <2> QED
    BY <1>3, <2>4, <2>5
<1>16. FingersInv'
  BY <1>7, <1>8, <1>9, <1>11, <1>12, <1>14, <1>15 DEF FingersInv
<1>17. ui'.fired \ {"home"} # {} => old \intersect Fingers(last') = {}
  BY <1>7, <1>13
<1>18. /\ game'.touch # {} => ~changed /\ ~ui.ignore_buttons
       /\ game'.touch \subseteq TouchKeys
  <2>1. game'.touch = IF page # "Game" \/ changed THEN {} ELSE TouchedKeys(ui, report, Layout)
    BY <1>1 DEF GameKeys
  <2>2. TouchedKeys(ui, report, Layout) \in {{}, MapButtons(ui, seen, Layout)}
    BY DEF TouchedKeys, seen
  <2>3. ui.ignore_buttons => MapButtons(ui, seen, Layout) = {}
    BY DEF MapButtons
  <2>4. MapButtons(ui, seen, Layout) \subseteq TouchKeys
    <3>1. ASSUME NEW f \in Fingers(seen)
          PROVE  KeysAt[seen.at[f]][Layout.orientation][Layout.fullscreen] \subseteq TouchKeys
      <4>1. seen.at[f] \in Points
        BY <1>3, ScenesAssumption DEF Reading, WorldInv
      <4>2. Layout.orientation \in Map!Orientations /\ Layout.fullscreen \in BOOLEAN
            /\ Layout.page \in Pages
        BY <1>2 DEF Layouts
      <4> QED
        BY <4>1, <4>2, MeaningsApply, KeyMeanings
    <3> QED
      BY <3>1 DEF MapButtons
  <2> QED
    BY <2>1, <2>2, <2>3, <2>4
<1>19. game'.touch # {} => old' \intersect Fingers(last') = {}
  BY <1>1, <1>18 DEF FingersInv
<1>20. \A a \in ui'.fired \ (Repeating \union {"home"}) : FingerActs(a)
  BY <1>1, <1>4, <1>7 DEF FingerActs
<1> QED
  BY <1>16, <1>17, <1>18, <1>19, <1>20

(***************************************************************************)
(* Times of a clock that wraps.                                            *)
(***************************************************************************)

Congruent(a, b) == \E k \in Int : a = b + (k * CLOCK)

LEMMA RemainderOf ==
  ASSUME NEW a \in Int
  PROVE  a % CLOCK \in 0..(CLOCK - 1) /\ Congruent(a % CLOCK, a)
<1>1. CLOCK \in Nat /\ CLOCK > 0
  BY ClockRange
<1>2. a = (CLOCK * (a \div CLOCK)) + (a % CLOCK) /\ a % CLOCK \in 0..(CLOCK - 1)
      /\ a \div CLOCK \in Int
  BY <1>1
<1> DEFINE k == 0 - (a \div CLOCK)
<1>3. k \in Int /\ (k * CLOCK) = 0 - (CLOCK * (a \div CLOCK))
  BY <1>1, <1>2
<1>4. (CLOCK * (a \div CLOCK)) \in Int
  BY <1>1, <1>2
<1>5. a % CLOCK = a + (k * CLOCK)
  BY <1>2, <1>3, <1>4
<1> QED
  BY <1>2, <1>3, <1>5 DEF Congruent

LEMMA Congruences ==
  ASSUME NEW a \in Int, NEW b \in Int, Congruent(a, b)
  PROVE  Congruent(b, a)
<1>1. PICK k \in Int : a = b + (k * CLOCK)
  BY DEF Congruent
<1>2. ((0 - k) * CLOCK) = 0 - (k * CLOCK) /\ (k * CLOCK) \in Int
  BY ClockRange
<1>3. b = a + ((0 - k) * CLOCK)
  BY <1>1, <1>2
<1> QED
  BY <1>3 DEF Congruent

LEMMA Transitive ==
  ASSUME NEW a \in Int, NEW b \in Int, NEW c \in Int, Congruent(a, b), Congruent(b, c)
  PROVE  Congruent(a, c)
<1>1. PICK k \in Int : a = b + (k * CLOCK)
  BY DEF Congruent
<1>2. PICK j \in Int : b = c + (j * CLOCK)
  BY DEF Congruent
<1>3. ((k + j) * CLOCK) = (k * CLOCK) + (j * CLOCK)
      /\ (k * CLOCK) \in Int /\ (j * CLOCK) \in Int
  BY ClockRange
<1>4. a = c + ((k + j) * CLOCK)
  BY <1>1, <1>2, <1>3
<1> QED
  BY <1>4 DEF Congruent

LEMMA Shifted ==
  ASSUME NEW a \in Int, NEW b \in Int, NEW c \in Int, Congruent(a, b)
  PROVE  Congruent(a + c, b + c)
<1>1. PICK k \in Int : a = b + (k * CLOCK)
  BY DEF Congruent
<1>2. (k * CLOCK) \in Int
  BY ClockRange
<1>3. a + c = (b + c) + (k * CLOCK)
  BY <1>1, <1>2
<1> QED
  BY <1>3 DEF Congruent

LEMMA Unique ==
  ASSUME NEW a \in 0..(CLOCK - 1), NEW b \in 0..(CLOCK - 1), Congruent(a, b)
  PROVE  a = b
<1>1. PICK k \in Int : a = b + (k * CLOCK)
  BY DEF Congruent
<1>2. CLOCK \in Nat \ {0}
  BY ClockRange
<1> DEFINE p == k * CLOCK
<1>3. (k > 0 => p >= CLOCK) /\ (k < 0 => p <= 0 - CLOCK) /\ (k = 0 => p = 0) /\ p \in Int
  BY <1>2
<1> HIDE DEF p
<1>4. a = b + p
  BY <1>1 DEF p
<1> QED
  BY <1>2, <1>3, <1>4

Delay(again) == IF again THEN AGAIN ELSE FIRST

\* A time that was set age ago, to come after the delay.
Timely(at, age, again, time) ==
  age < FIRST + CLOCK => Congruent(at + age, time + Delay(again))

LEMMA JustSet ==
  ASSUME NEW time \in 0..(CLOCK - 1), NEW again \in BOOLEAN
  PROVE  Timely((time + Delay(again)) % CLOCK, 0, again, time)
<1>1. time + Delay(again) \in Int
  BY ClockRange DEF Delay
<1>2. /\ Congruent((time + Delay(again)) % CLOCK, time + Delay(again))
      /\ (time + Delay(again)) % CLOCK \in Int
  BY <1>1, RemainderOf
<1>3. ((time + Delay(again)) % CLOCK) + 0 = (time + Delay(again)) % CLOCK
  BY <1>2
<1> QED
  BY <1>2, <1>3 DEF Timely

LEMMA StillTimely ==
  ASSUME NEW at \in 0..(CLOCK - 1), NEW age \in 0..(FIRST + CLOCK), NEW again \in BOOLEAN,
         NEW time \in 0..(CLOCK - 1), NEW tick \in 0..(CLOCK - 1), Timely(at, age, again, time)
  PROVE  /\ Timely(at, Older(age, tick), again, (time + tick) % CLOCK)
         /\ Older(age, tick) \in 0..(FIRST + CLOCK)
<1>1. CLOCK \in Nat /\ FIRST \in Nat /\ Delay(again) \in Nat
  BY ClockRange DEF Delay
<1>2. Older(age, tick) \in 0..(FIRST + CLOCK)
  BY <1>1 DEF Older
<1>3. ASSUME Older(age, tick) < FIRST + CLOCK
      PROVE  Congruent(at + Older(age, tick), ((time + tick) % CLOCK) + Delay(again))
  <2>1. Older(age, tick) = age + tick /\ age < FIRST + CLOCK
    BY <1>1, <1>3 DEF Older
  <2>2. Congruent(at + age, time + Delay(again))
    BY <2>1 DEF Timely
  <2>3. Congruent((at + age) + tick, (time + Delay(again)) + tick)
    <3>1. at + age \in Int /\ time + Delay(again) \in Int /\ tick \in Int
      BY <1>1
    <3> QED
      BY <2>2, <3>1, Shifted, Zenon
  <2>4. /\ (time + tick) % CLOCK \in Int
        /\ Congruent((time + tick) % CLOCK, time + tick)
    BY <1>1, RemainderOf
  <2>5. Congruent(time + tick, (time + tick) % CLOCK)
    BY <1>1, <2>4, Congruences
  <2>6. Congruent((time + tick) + Delay(again), ((time + tick) % CLOCK) + Delay(again))
    <3>1. time + tick \in Int /\ Delay(again) \in Int
      BY <1>1
    <3> QED
      BY <2>4, <2>5, <3>1, Shifted, Zenon
  <2>7. /\ (at + age) + tick = at + Older(age, tick)
        /\ (time + Delay(again)) + tick = (time + tick) + Delay(again)
    BY <1>1, <2>1
  <2>8. Congruent(at + Older(age, tick), (time + tick) + Delay(again))
    BY <2>3, <2>7
  <2>9. /\ at + Older(age, tick) \in Int /\ (time + tick) + Delay(again) \in Int
        /\ ((time + tick) % CLOCK) + Delay(again) \in Int
    <3> DEFINE then == (time + tick) % CLOCK
               older == Older(age, tick)
    <3>1. then \in Int /\ older \in Int /\ at \in Int /\ time \in Int /\ tick \in Int
      BY <1>1, <1>2, <2>4
    <3> HIDE DEF then, older
    <3>2. at + older \in Int /\ (time + tick) + Delay(again) \in Int /\ then + Delay(again) \in Int
      BY <1>1, <3>1
    <3> QED
      BY <3>2 DEF then, older
  <2> QED
    BY <2>6, <2>8, <2>9, Transitive
<1> QED
  BY <1>2, <1>3 DEF Timely

\* What the comparison of times says of it, within half the range of the clock.
LEMMA ReachedOnTime ==
  ASSUME NEW at \in 0..(CLOCK - 1), NEW age \in 0..(FIRST + CLOCK), NEW again \in BOOLEAN,
         NEW time \in 0..(CLOCK - 1), NEW tick \in 0..(CLOCK - 1), Timely(at, age, again, time),
         NEW then, then = (time + tick) % CLOCK,
         InTime(age + ((then - time) % CLOCK), Delay(again))
  PROVE  Reached(then, at) <=> age + ((then - time) % CLOCK) >= Delay(again)
<1>1. /\ CLOCK \in Nat /\ FIRST \in Nat /\ Delay(again) \in Nat /\ Delay(again) <= FIRST
      /\ 2 * FIRST < CLOCK
  BY ClockAssumption DEF Delay
<1>2. then \in 0..(CLOCK - 1) /\ Congruent(then, time + tick)
  BY <1>1, RemainderOf
<1>3. (then - time) % CLOCK = tick
  <2>1. /\ (then - time) % CLOCK \in 0..(CLOCK - 1)
        /\ Congruent((then - time) % CLOCK, then - time)
    BY <1>1, <1>2, RemainderOf
  <2>2. Congruent(then + (0 - time), (time + tick) + (0 - time))
    <3>1. then \in Int /\ time + tick \in Int /\ 0 - time \in Int
      BY <1>1, <1>2
    <3> QED
      BY <1>2, <3>1, Shifted, Zenon
  <2>3. then + (0 - time) = then - time /\ (time + tick) + (0 - time) = tick
    BY <1>1, <1>2
  <2>4. Congruent((then - time) % CLOCK, tick)
    BY <1>1, <1>2, <2>1, <2>2, <2>3, Transitive
  <2> QED
    BY <2>1, <2>4, Unique
<1> DEFINE late == (age + tick) - Delay(again)
           d == (then - at) % CLOCK
<1>4. late \in Int /\ late < CLOCK \div 2 /\ CLOCK \div 2 \in Nat /\ 2 * (CLOCK \div 2) <= CLOCK
  BY <1>1, <1>3 DEF InTime
<1>5. age < FIRST + CLOCK
  BY <1>1, <1>4
<1>6. Congruent(at + age, time + Delay(again))
  BY <1>5 DEF Timely
<1>7. d \in 0..(CLOCK - 1) /\ Congruent(d, then - at)
  BY <1>1, <1>2, RemainderOf
<1>8. Congruent(d, late)
  <2>1. Congruent(then + (0 - at), (time + tick) + (0 - at))
    <3>1. then \in Int /\ time + tick \in Int /\ 0 - at \in Int
      BY <1>1, <1>2
    <3> QED
      BY <1>2, <3>1, Shifted, Zenon
  <2>2. then + (0 - at) = then - at
    BY <1>1, <1>2
  <2>3. Congruent(d, (time + tick) + (0 - at))
    BY <1>1, <1>2, <1>7, <2>1, <2>2, Transitive
  <2> DEFINE c == (tick - at) - Delay(again)
  <2>4. Congruent((at + age) + c, (time + Delay(again)) + c)
    <3>1. at + age \in Int /\ time + Delay(again) \in Int /\ c \in Int
      BY <1>1
    <3> HIDE DEF c
    <3> QED
      BY <1>6, <3>1, Shifted, Zenon
  <2>5. (at + age) + c = late /\ (time + Delay(again)) + c = (time + tick) + (0 - at)
    BY <1>1
  <2>6. Congruent(late, (time + tick) + (0 - at)) /\ (time + tick) + (0 - at) \in Int
    BY <1>1, <2>4, <2>5
  <2> HIDE DEF late, d
  <2>7. Congruent((time + tick) + (0 - at), late)
    BY <1>4, <2>6, Congruences
  <2> QED
    BY <1>4, <1>7, <2>3, <2>6, <2>7, Transitive
<1> HIDE DEF late, d
<1>9. CASE late >= 0
  <2>1. late \in 0..(CLOCK - 1)
    BY <1>1, <1>4, <1>9
  <2>2. d = late
    BY <1>7, <1>8, <2>1, Unique
  <2>3. d < CLOCK \div 2
    BY <1>4, <2>2
  <2> QED
    BY <1>1, <1>3, <1>9, <2>3 DEF Reached, late, d
<1>10. CASE late < 0
  <2>1. late + CLOCK \in 0..(CLOCK - 1) /\ ~(late + CLOCK < CLOCK \div 2)
    BY <1>1, <1>4, <1>10 DEF late
  <2>2. Congruent(late, late + CLOCK)
    <3>1. late = (late + CLOCK) + ((0 - 1) * CLOCK)
      BY <1>1, <1>4
    <3> QED
      BY <3>1 DEF Congruent
  <2>3. Congruent(d, late + CLOCK)
    BY <1>1, <1>4, <1>7, <1>8, <2>2, Transitive
  <2>4. d = late + CLOCK
    BY <1>7, <2>1, <2>3, Unique
  <2> QED
    BY <1>1, <1>3, <1>10, <2>1, <2>4 DEF Reached, late, d
<1> QED
  BY <1>4, <1>9, <1>10

(***************************************************************************)
(* What is held.                                                           *)
(***************************************************************************)

Ages == 0..(FIRST + CLOCK)

HoldInv ==
  /\ hold \in [direction : Headings, age : Ages, again : BOOLEAN]
  /\ hold.direction = menu.direction
  /\ menu.wait_release => menu.direction = {}
  /\ hold.direction # {} => Timely(menu.repeat_at, hold.age, hold.again, now)

LingerInv ==
  /\ linger \in [action : Repeats, age : Ages, again : BOOLEAN, polled : BOOLEAN]
  /\ linger.action = ui.repeat
  /\ linger.action # {} => Timely(ui.repeat_at, linger.age, linger.again, now)

LEMMA Ticks ==
  ASSUME WorldInv, NEW tick \in scene.ticks PROVE tick \in 0..(CLOCK - 1)
BY ScenesAssumption DEF WorldInv

LEMMA StepHold ==
  ASSUME WorldInv, MenuInv, HoldInv,
         NEW outcome \in Outcomes, NEW report \in Reports, NEW tick \in scene.ticks,
         NEW changed \in BOOLEAN, NEW turns \in BOOLEAN, Step(outcome, report, tick, changed, turns),
         Understood(report)
  PROVE  /\ HoldInv'
         /\ hold.direction # {} /\ hold'.direction = hold.direction /\ menu'.action # "back" =>
              (menu'.move <=> Reached(now', menu.repeat_at))
<1> DEFINE reported == usb'.navigation \union i2c'.navigation
           p == Polled
           n == menu'
<1>1. /\ n = IF changed THEN PageChanged(p) ELSE p
      /\ hold' = HoldAfter(n, tick)
      /\ now' = (now + tick) % CLOCK
  BY DEF Step
<1>2. Maps(p, menu, reported, page, now') /\ now' \in 0..(CLOCK - 1)
  BY DEF Understood
<1>3. tick \in 0..(CLOCK - 1) /\ now \in 0..(CLOCK - 1) /\ menu \in Menus
  BY Ticks DEF MenuInv
<1> HIDE DEF reported, p
<1>4. /\ PageChanged(p) \in Menus
      /\ PageChanged(p).wait_release /\ PageChanged(p).direction = {}
  BY <1>2, PageChangedFields DEF Maps
<1>5. n \in Menus /\ (n.wait_release => n.direction = {}) /\ (changed => n.direction = {})
  <2>1. p.wait_release => menu.wait_release /\ menu.direction = {}
    BY <1>2 DEF Maps, HoldInv
  <2>2. p.wait_release => p.direction = {}
    BY <1>2, <2>1 DEF Maps
  <2> QED
    BY <1>1, <1>2, <1>4, <2>2 DEF Maps
<1>6. ASSUME n.direction # {}
      PROVE  /\ n = p /\ hold.direction = menu.direction
             /\ \/ /\ n.action = "back" /\ n.direction = menu.direction
                   /\ ~n.move /\ n.repeat_at = menu.repeat_at
                \/ /\ n.move <=> (n.direction # menu.direction \/ Reached(now', menu.repeat_at))
                   /\ n.repeat_at = IF n.direction # menu.direction THEN (now' + FIRST) % CLOCK
                                    ELSE IF Reached(now', menu.repeat_at) THEN (now' + AGAIN) % CLOCK
                                    ELSE menu.repeat_at
  <2>1. n = p
    BY <1>1, <1>4, <1>6
  <2>2. ~(menu.wait_release /\ n.direction = menu.direction)
    BY <1>6 DEF HoldInv
  <2> QED
    BY <1>2, <1>6, <2>1, <2>2 DEF Maps, HoldInv
<1>7. /\ hold' \in [direction : Headings, age : Ages, again : BOOLEAN]
      /\ hold'.direction = n.direction
      /\ n.direction # {} => Timely(n.repeat_at, hold'.age, hold'.again, now')
  <2>1. CASE n.direction = {}
    <3>1. hold' = [direction |-> {}, age |-> 0, again |-> FALSE]
      BY <1>1, <2>1 DEF HoldAfter
    <3>2. 0 \in Ages /\ {} \in Headings
      BY ClockRange DEF Ages, Headings
    <3> QED
      BY <2>1, <3>1, <3>2
  <2>2. CASE n.direction # {} /\ (n.direction # hold.direction \/ n.move)
    <3> DEFINE again == n.direction = hold.direction
    <3>1. hold' = [direction |-> n.direction, age |-> 0, again |-> again]
      BY <1>1, <2>2 DEF HoldAfter
    <3>2. 0 \in Ages /\ n.direction \in Headings /\ again \in BOOLEAN
      BY <1>5, ClockRange DEF Ages, Menus
    <3>3. n.repeat_at = (now' + Delay(again)) % CLOCK
      BY <1>6, <2>2 DEF Delay
    <3> HIDE DEF again
    <3>4. hold' \in [direction : Headings, age : Ages, again : BOOLEAN]
          /\ hold'.direction = n.direction /\ hold'.age = 0 /\ hold'.again = again
      BY <3>1, <3>2
    <3>5. Timely((now' + Delay(again)) % CLOCK, 0, again, now')
      BY <1>2, <3>2, JustSet
    <3> QED
      BY <3>3, <3>4, <3>5
  <2>3. CASE n.direction # {} /\ n.direction = hold.direction /\ ~n.move
    <3> DEFINE age == Older(hold.age, tick)
    <3>1. hold' = [hold EXCEPT !.age = age]
      BY <1>1, <2>3 DEF HoldAfter
    <3>2. n.repeat_at = menu.repeat_at
      BY <1>6, <2>3
    <3>3. /\ menu.repeat_at \in 0..(CLOCK - 1) /\ hold.age \in 0..(FIRST + CLOCK)
          /\ hold.again \in BOOLEAN /\ Timely(menu.repeat_at, hold.age, hold.again, now)
      BY <1>3, <2>3 DEF HoldInv, Menus, Ages
    <3>4. Timely(menu.repeat_at, age, hold.again, (now + tick) % CLOCK) /\ age \in Ages
      BY <1>3, <3>3, StillTimely DEF Ages
    <3> HIDE DEF age
    <3>5. hold' \in [direction : Headings, age : Ages, again : BOOLEAN]
          /\ hold'.direction = hold.direction /\ hold'.age = age /\ hold'.again = hold.again
      BY <3>1, <3>4 DEF HoldInv
    <3> QED
      BY <1>1, <2>3, <3>2, <3>4, <3>5
  <2> QED
    BY <2>1, <2>2, <2>3
<1>8. HoldInv'
  BY <1>5, <1>7 DEF HoldInv
<1>9. ASSUME hold.direction # {}, hold'.direction = hold.direction, n.action # "back"
      PROVE  n.move <=> Reached(now', menu.repeat_at)
  BY <1>6, <1>7, <1>9
<1> QED
  BY <1>8, <1>9

LEMMA StepLinger ==
  ASSUME WorldInv, MenuInv, FingersInv, LingerInv,
         NEW outcome \in Outcomes, NEW report \in Reports, NEW tick \in scene.ticks,
         NEW changed \in BOOLEAN, NEW turns \in BOOLEAN, Step(outcome, report, tick, changed, turns),
         Understood(report)
  PROVE  /\ LingerInv'
         /\ linger.action # {} /\ linger'.action = linger.action /\ linger'.polled =>
              (linger.action \subseteq ui'.fired <=> Reached(now', ui.repeat_at))
<1> DEFINE r == Felt(report)
           u == ui'
           ok == report.ok
<1>1. /\ u = IF changed THEN LayoutChanged(r) ELSE r
      /\ linger' = LingerAfter(u, tick, ok)
      /\ now' = (now + tick) % CLOCK
  BY DEF Step
<1>2. FeltAs(r, ui, report.touch, ok, Layout, now') /\ now' \in 0..(CLOCK - 1)
  BY DEF Understood
<1>3. tick \in 0..(CLOCK - 1) /\ now \in 0..(CLOCK - 1) /\ ui \in Feelings /\ ui.repeat \subseteq ui.mask
  BY Ticks DEF MenuInv, FingersInv
<1>4. ok \in BOOLEAN
  BY ReportsAreReadings
<1> HIDE DEF r, ok
<1>5. r \in Feelings /\ LayoutChanged(r) \in Feelings /\ LayoutChanged(r).repeat = {}
  BY <1>2, ChangedFields DEF FeltAs
<1>6. u \in Feelings
  BY <1>1, <1>5
<1>7. ASSUME u.repeat # {}
      PROVE  /\ ok /\ u.repeat = ui.repeat =>
                  (u.repeat \subseteq u.fired <=> Reached(now', ui.repeat_at))
             /\ ~ok => u.repeat = ui.repeat /\ u.fired = {}
             /\ u.repeat_at = IF u.repeat # ui.repeat THEN (now' + FIRST) % CLOCK
                              ELSE IF u.repeat \subseteq u.fired THEN (now' + AGAIN) % CLOCK
                              ELSE ui.repeat_at
  <2>1. u = r
    BY <1>1, <1>5, <1>7
  <2>2. CASE ~ok
    BY <1>2, <1>7, <2>1, <2>2 DEF FeltAs
  <2>3. CASE ok
    <3>1. ~ui.ignore_actions
      BY <1>2, <1>7, <2>1, <2>3 DEF FeltAs
    <3>2. u.repeat = ui.repeat => (u.repeat \subseteq u.fired <=> Reached(now', ui.repeat_at))
      BY <1>2, <1>3, <1>7, <2>1, <2>3, <3>1 DEF FeltAs
    <3> QED
      BY <1>2, <1>7, <2>1, <2>3, <3>1, <3>2 DEF FeltAs
  <2> QED
    BY <1>4, <2>2, <2>3
<1>8. /\ linger' \in [action : Repeats, age : Ages, again : BOOLEAN, polled : BOOLEAN]
      /\ linger'.action = u.repeat /\ linger'.polled = ok
      /\ u.repeat # {} => Timely(u.repeat_at, linger'.age, linger'.again, now')
  <2>1. CASE u.repeat = {}
    <3>1. linger' = [action |-> {}, age |-> 0, again |-> FALSE, polled |-> ok]
      BY <1>1, <2>1 DEF LingerAfter
    <3>2. 0 \in Ages /\ {} \in Repeats
      BY ClockRange DEF Ages, Repeats
    <3> QED
      BY <1>4, <2>1, <3>1, <3>2
  <2>2. CASE u.repeat # {} /\ (u.repeat # linger.action \/ u.repeat \subseteq u.fired)
    <3> DEFINE again == u.repeat = linger.action
    <3>1. linger' = [action |-> u.repeat, age |-> 0, again |-> again, polled |-> ok]
      BY <1>1, <2>2 DEF LingerAfter
    <3>2. 0 \in Ages /\ u.repeat \in Repeats /\ again \in BOOLEAN
      BY <1>6, ClockRange DEF Ages, Feelings
    <3>3. u.repeat_at = (now' + Delay(again)) % CLOCK
      BY <1>7, <2>2 DEF Delay, LingerInv
    <3> HIDE DEF again
    <3>4. linger' \in [action : Repeats, age : Ages, again : BOOLEAN, polled : BOOLEAN]
          /\ linger'.action = u.repeat /\ linger'.age = 0 /\ linger'.again = again
          /\ linger'.polled = ok
      BY <1>4, <3>1, <3>2
    <3>5. Timely((now' + Delay(again)) % CLOCK, 0, again, now')
      BY <1>2, <3>2, JustSet
    <3> QED
      BY <3>3, <3>4, <3>5
  <2>3. CASE u.repeat # {} /\ u.repeat = linger.action /\ ~(u.repeat \subseteq u.fired)
    <3> DEFINE age == Older(linger.age, tick)
    <3>1. linger' = [linger EXCEPT !.age = age, !.polled = ok]
      BY <1>1, <2>3 DEF LingerAfter
    <3>2. u.repeat_at = ui.repeat_at
      BY <1>7, <2>3 DEF LingerInv
    <3>3. /\ ui.repeat_at \in 0..(CLOCK - 1) /\ linger.age \in 0..(FIRST + CLOCK)
          /\ linger.again \in BOOLEAN /\ Timely(ui.repeat_at, linger.age, linger.again, now)
      BY <1>3, <2>3 DEF LingerInv, Feelings, Ages
    <3>4. Timely(ui.repeat_at, age, linger.again, (now + tick) % CLOCK) /\ age \in Ages
      BY <1>3, <3>3, StillTimely DEF Ages
    <3> HIDE DEF age
    <3>5. linger' \in [action : Repeats, age : Ages, again : BOOLEAN, polled : BOOLEAN]
          /\ linger'.action = linger.action /\ linger'.age = age /\ linger'.again = linger.again
          /\ linger'.polled = ok
      BY <1>4, <3>1, <3>4 DEF LingerInv
    <3> QED
      BY <1>1, <2>3, <3>2, <3>4, <3>5
  <2> QED
    BY <2>1, <2>2, <2>3
<1>9. LingerInv'
  BY <1>8 DEF LingerInv
<1>10. ASSUME linger.action # {}, linger'.action = linger.action, linger'.polled
       PROVE  linger.action \subseteq u.fired <=> Reached(now', ui.repeat_at)
  BY <1>7, <1>8, <1>10 DEF LingerInv
<1> QED
  BY <1>9, <1>10

(***************************************************************************)
(* The invariant of the input.                                             *)
(***************************************************************************)

RestInv ==
  /\ initialized \in BOOLEAN
  /\ game.pads \subseteq Keys /\ game.touch \subseteq TouchKeys
  /\ tails \in [Devices -> SUBSET SUBSET Keys]

InputInv ==
  WorldInv /\ TailsInv /\ MenuInv /\ FingersInv /\ HoldInv /\ LingerInv /\ RestInv

LEMMA InitInput ==
  ASSUME InputInit PROVE InputInv
<1> DEFINE no == FALSE
           at == [a \in TouchActions |-> 0]
<1>0. no \in BOOLEAN /\ ~no /\ at \in [TouchActions -> 0..(CLOCK - 1)]
  BY ClockRange
<1>1. Still = [selection |-> 0, previous |-> {}, direction |-> {}, repeat_at |-> 0,
               wait_release |-> no, move |-> no, action |-> "none"]
  BY Zenon DEF Still
<1>2. Free = [mask |-> {}, acted |-> at, fired |-> {}, ignore_actions |-> no,
              ignore_buttons |-> no, repeat |-> {}, repeat_at |-> 0]
  BY Zenon DEF Free
<1>3. Fingers(Untouched) = {}
  BY DEF Fingers, Untouched
<1>4. /\ menu = Still /\ ui = Free /\ glass = Untouched /\ last = Untouched
      /\ scene \in Scenes /\ page \in scene.starts /\ orientation = "portrait"
      /\ fullscreen = FALSE /\ now = 0 /\ quiet = {} /\ old = {} /\ spent = {}
      /\ game = [pads |-> {}, touch |-> {}] /\ initialized = FALSE
      /\ tails = [d \in Devices |-> {}]
      /\ hold = [direction |-> {}, age |-> 0, again |-> FALSE]
      /\ linger = [action |-> {}, age |-> 0, again |-> FALSE, polled |-> FALSE]
  BY DEF InputInit
<1> HIDE DEF no, at
<1>5. /\ menu \in Menus /\ menu.previous = {} /\ menu.direction = {}
  BY <1>0, <1>1, <1>4, ClockRange DEF Menus, MenuActions, Headings
<1>6. /\ ui \in Feelings /\ ui.repeat = {} /\ ui.mask = {}
  BY <1>0, <1>2, <1>4, ClockRange DEF Feelings, Repeats
<1>7. MenuInv
  BY <1>4, <1>5, ScenesAssumption, ClockRange DEF MenuInv
<1>8. FingersInv
  BY <1>3, <1>4, <1>6 DEF FingersInv, Map!Orientations
<1>9. 0 \in Ages /\ {} \in Headings /\ {} \in Repeats
  BY ClockRange DEF Ages, Headings, Repeats
<1>10. hold \in [direction : Headings, age : Ages, again : BOOLEAN] /\ hold.direction = {}
  BY <1>4, <1>9
<1>11. linger \in [action : Repeats, age : Ages, again : BOOLEAN, polled : BOOLEAN]
       /\ linger.action = {}
  BY <1>4, <1>9
<1>12. RestInv
  BY <1>4 DEF RestInv, TouchKeys
<1> QED
  BY <1>5, <1>6, <1>7, <1>8, <1>10, <1>11, <1>12, InitWorld, InitTails
     DEF InputInv, HoldInv, LingerInv

LEMMA MovesFingers ==
  ASSUME WorldInv, FingersInv, Move PROVE FingersInv'
<1>1. /\ last' = last /\ ui' = ui /\ Layout' = Layout
      /\ orientation' = orientation /\ fullscreen' = fullscreen
  BY MovesKeep DEF Layout
<1> DEFINE Kept == /\ old' \subseteq Fingers(glass') \intersect Fingers(last) /\ (old' # {} => old # {})
                   /\ \A f \in spent' : f \in Fingers(glass') \intersect Fingers(last)
                                        /\ glass'.at[f] = last.at[f]
<1>2. ASSUME NEW d \in Devices, NEW k \in Keys, Press(d, k) \/ Release(d, k) PROVE Kept
  BY <1>2 DEF Press, Release, history, FingersInv
<1>3. ASSUME NEW f \in scene.fingers, Lift(f) PROVE Kept
  <2> DEFINE at == [g \in Fingers(glass) \ {f} |-> glass.at[g]]
  <2>1. glass' = [glass EXCEPT !.at = at] /\ old' = old \ {f} /\ spent' = spent \ {f}
    BY <1>3 DEF Lift
  <2>2. DOMAIN at = Fingers(glass) \ {f} /\ \A g \in Fingers(glass) \ {f} : at[g] = glass.at[g]
    OBVIOUS
  <2> HIDE DEF at
  <2>3. glass'.at = at
    BY <2>1 DEF WorldInv, Reading
  <2>4. Fingers(glass') = Fingers(glass) \ {f}
    BY <2>2, <2>3 DEF Fingers
  <2> QED
    BY <2>1, <2>2, <2>3, <2>4 DEF FingersInv
<1>4. ASSUME NEW f \in scene.fingers, NEW p \in scene.spots, Land(f, p) PROVE Kept
  <2> DEFINE at == [g \in Fingers(glass) \union {f} |-> IF g = f THEN p ELSE glass.at[g]]
  <2>1. glass' = [glass EXCEPT !.at = at] /\ old' = old /\ spent' = spent \ {f}
    BY <1>4 DEF Land
  <2>2. DOMAIN at = Fingers(glass) \union {f} /\ \A g \in Fingers(glass) \ {f} : at[g] = glass.at[g]
    OBVIOUS
  <2> HIDE DEF at
  <2>3. glass'.at = at
    BY <2>1 DEF WorldInv, Reading
  <2>4. Fingers(glass') = Fingers(glass) \union {f}
    BY <2>2, <2>3 DEF Fingers
  <2> QED
    BY <2>1, <2>2, <2>3, <2>4 DEF FingersInv
<1>5. ASSUME Home PROVE Kept
  <2>1. glass'.at = glass.at /\ old' = old /\ spent' = spent
    BY <1>5 DEF Home, history, WorldInv, Reading
  <2> QED
    BY <2>1 DEF FingersInv, Fingers
<1> HIDE DEF Kept
<1>6. Kept
  BY <1>2, <1>3, <1>4, <1>5, Zenon DEF Move
<1> QED
  BY <1>1, <1>6 DEF Kept, FingersInv

LEMMA StepTypes ==
  ASSUME TailsInv, RestInv,
         NEW outcome \in Outcomes, NEW report \in Reports, NEW tick \in scene.ticks,
         NEW changed \in BOOLEAN, NEW turns \in BOOLEAN, Step(outcome, report, tick, changed, turns),
         TailsInv', game'.pads \subseteq Keys, game'.touch \subseteq TouchKeys
  PROVE  RestInv'
<1> DEFINE u == TailsAfter(usb', tails.usb)
           i == IF initialized' THEN TailsAfter(i2c', tails.i2c) ELSE {}
<1>1. tails' = [usb |-> u, i2c |-> i] /\ initialized' = (outcome \in {"report", "cached"})
  BY DEF Step
<1> HIDE DEF u, i
<1>2. tails'.usb = u /\ tails'.i2c = i /\ tails' = [d \in {"usb", "i2c"} |-> tails'[d]]
  BY <1>1
<1>3. /\ \A t \in tails'.usb : t \in SUBSET Keys
      /\ \A t \in tails'.i2c : t \in SUBSET Keys
  <2>1. {Settings, Rotate, Refresh, {"Select"}, {"Start"}} \subseteq SUBSET Keys
    BY DEF Settings, Rotate, Refresh, Shoulders, Keys, Arrows
  <2> QED
    BY <2>1 DEF TailsInv, TailInv, Latched
<1>4. tails'.usb \in SUBSET SUBSET Keys /\ tails'.i2c \in SUBSET SUBSET Keys
  BY <1>3
<1>5. tails' \in [Devices -> SUBSET SUBSET Keys]
  BY <1>2, <1>4 DEF Devices
<1> QED
  BY <1>1, <1>5 DEF RestInv

\* What a pass shows of the properties.
LEMMA PassObeys ==
  ASSUME InputInv, Pass
  PROVE  /\ InputInv'
         /\ Acts(menu'.action) \intersect quiet = {}
         /\ game'.pads \intersect quiet' = {}
         /\ ui'.fired \ {"home"} # {} => old \intersect Fingers(last') = {}
         /\ game'.touch # {} => old' \intersect Fingers(last') = {}
         /\ \A a \in ui'.fired \ (Repeating \union {"home"}) : FingerActs(a)
         /\ hold.direction # {} /\ hold'.direction = hold.direction /\ menu'.action # "back" =>
              (menu'.move <=> Reached(now', menu.repeat_at))
         /\ linger.action # {} /\ linger'.action = linger.action /\ linger'.polled =>
              (linger.action \subseteq ui'.fired <=> Reached(now', ui.repeat_at))
         /\ \E tick \in 0..(CLOCK - 1) : now' = (now + tick) % CLOCK
<1>1. PICK outcome \in Outcomes, report \in Reports, tick \in scene.ticks,
           changed \in BOOLEAN, turns \in BOOLEAN : Step(outcome, report, tick, changed, turns)
  BY PassSteps
<1>2. WorldInv /\ TailsInv /\ MenuInv /\ FingersInv /\ HoldInv /\ LingerInv /\ RestInv
  BY DEF InputInv
<1>3. Understood(report)
  BY <1>1, <1>2, StepUnderstood
<1>4. WorldInv' /\ TailsInv'
  BY <1>2, StepWorld, StepTails DEF InputNext
<1>5. /\ MenuInv'
      /\ Acts(menu'.action) \intersect quiet = {}
      /\ game'.pads \intersect quiet' = {} /\ game'.pads \subseteq Keys
  BY <1>1, <1>2, <1>3, StepMenu
<1>6. /\ FingersInv'
      /\ ui'.fired \ {"home"} # {} => old \intersect Fingers(last') = {}
      /\ game'.touch # {} => old' \intersect Fingers(last') = {}
      /\ game'.touch \subseteq TouchKeys
      /\ \A a \in ui'.fired \ (Repeating \union {"home"}) : FingerActs(a)
  BY <1>1, <1>2, <1>3, StepFingers
<1>7. /\ HoldInv'
      /\ hold.direction # {} /\ hold'.direction = hold.direction /\ menu'.action # "back" =>
           (menu'.move <=> Reached(now', menu.repeat_at))
  BY <1>1, <1>2, <1>3, StepHold
<1>8. /\ LingerInv'
      /\ linger.action # {} /\ linger'.action = linger.action /\ linger'.polled =>
           (linger.action \subseteq ui'.fired <=> Reached(now', ui.repeat_at))
  BY <1>1, <1>2, <1>3, StepLinger
<1>9. RestInv'
  BY <1>1, <1>2, <1>4, <1>5, <1>6, StepTypes
<1>10. tick \in 0..(CLOCK - 1) /\ now' = (now + tick) % CLOCK
  BY <1>1, <1>2, Ticks DEF Step
<1> QED
  BY <1>4, <1>5, <1>6, <1>7, <1>8, <1>9, <1>10 DEF InputInv

LEMMA StepInput ==
  ASSUME InputInv, [InputNext]_input_vars PROVE InputInv'
<1>1. CASE Pass
  BY <1>1, PassObeys
<1>2. CASE Move
  <2>1. WorldInv' /\ TailsInv' /\ FingersInv'
    BY <1>2, StepWorld, StepTails, MovesFingers DEF InputInv
  <2>2. MenuInv' /\ HoldInv' /\ LingerInv' /\ RestInv'
    BY <1>2, MovesKeep DEF InputInv, MenuInv, HoldInv, LingerInv, RestInv, Timely
  <2> QED
    BY <2>1, <2>2 DEF InputInv
<1>3. CASE UNCHANGED input_vars
  <2>1. WorldInv' /\ TailsInv'
    BY <1>3, StepWorld, StepTails DEF InputInv
  <2>2. MenuInv' /\ FingersInv' /\ HoldInv' /\ LingerInv' /\ RestInv'
    BY <1>3 DEF InputInv, MenuInv, FingersInv, HoldInv, LingerInv, RestInv, Timely,
                input_vars, screen, history, decoders, Layout
  <2> QED
    BY <2>1, <2>2 DEF InputInv
<1> QED
  BY <1>1, <1>2, <1>3, PassOrMove

LEMMA TypesHold ==
  ASSUME InputInv PROVE InputTypeOK
<1>1. WorldInv /\ TailsInv /\ MenuInv /\ FingersInv /\ HoldInv /\ RestInv
  BY DEF InputInv
<1>2. \A d \in {usb, i2c} :
        /\ d.previous \subseteq Keys /\ d.buttons \subseteq Keys /\ d.navigation \subseteq Menu
        /\ {d.settings, d.rotate, d.refresh, d.select_consumed, d.start_consumed} \subseteq BOOLEAN
  BY <1>1 DEF TailsInv, Decoders
<1>3. /\ menu.selection \in 0..3 /\ menu.repeat_at \in 0..(CLOCK - 1)
      /\ menu.direction \in {{}, {"Up"}, {"Down"}} /\ quiet \subseteq Menu
      /\ page \in Pages /\ now \in 0..(CLOCK - 1)
  BY <1>1 DEF MenuInv, Menus, Headings
<1>4. /\ ui.mask \union ui.fired \subseteq TouchActions
      /\ ui.acted \in [TouchActions -> 0..(CLOCK - 1)]
      /\ ui.repeat \in {{}, {"rom_previous"}, {"rom_next"}}
      /\ orientation \in Map!Orientations /\ fullscreen \in BOOLEAN
  BY <1>1 DEF FingersInv, Feelings, Repeats
<1>5. \A t \in {glass, last} : Fingers(t) \subseteq scene.fingers /\ t.home \in BOOLEAN
  BY <1>1 DEF WorldInv, Reading
<1>6. old \union spent \subseteq scene.fingers
  BY <1>1, <1>5 DEF FingersInv
<1>7. hold.age \in 0..(FIRST + CLOCK)
  BY <1>1 DEF HoldInv, Ages
<1> QED
  BY <1>1, <1>2, <1>3, <1>4, <1>5, <1>6, <1>7 DEF InputTypeOK, WorldInv, RestInv

(* A key of the menus acts once, a finger acts once where it was put, and     *)
(* neither does anything on a page it was not pressed on                      *)
(* (paperboy_ui_map_controller, paperboy_ui_map_actions and                   *)
(* paperboy_ui_on_page_changed).                                              *)
THEOREM InputObeys == InputSpec => MenusObey
<1>1. InputInit => InputInv
  BY InitInput
<1>2. InputInv /\ [InputNext]_input_vars => InputInv'
  BY StepInput
<1>3. InputInv => InputTypeOK
  BY TypesHold
<1>4. InputInv /\ [InputNext]_input_vars
        => [held' = held /\ glass' = glass =>
              /\ Acts(menu'.action) \intersect quiet = {}
              /\ game'.pads \intersect quiet' = {}]_input_vars
  BY PassOrMove, PassObeys, MoveChanges DEF InputInv
<1>5. InputInv /\ [InputNext]_input_vars
        => [held' = held /\ glass' = glass =>
              /\ ui'.fired \ {"home"} # {} => old \intersect Fingers(last') = {}
              /\ game'.touch # {} => old' \intersect Fingers(last') = {}
              /\ \A a \in ui'.fired \ (Repeating \union {"home"}) : FingerActs(a)]_input_vars
  BY PassOrMove, PassObeys, MoveChanges DEF InputInv
<1> QED
  BY <1>1, <1>2, <1>3, <1>4, <1>5, PTL
     DEF InputSpec, MenusObey, KeysActOnce, FingersActOnce

LEMMA RepeatsInTime ==
  ASSUME InputInv, InputNext, now' # now
  PROVE  /\ hold.direction # {} /\ hold'.direction = hold.direction /\ menu'.action # "back"
              => LET delay == IF hold.again THEN AGAIN ELSE FIRST
                     age == hold.age + ((now' - now) % CLOCK)
                 IN InTime(age, delay) => (menu'.move <=> age >= delay)
         /\ linger.action # {} /\ linger'.action = linger.action /\ linger'.polled
              => LET delay == IF linger.again THEN AGAIN ELSE FIRST
                     age == linger.age + ((now' - now) % CLOCK)
                 IN InTime(age, delay) => (linger.action \subseteq ui'.fired <=> age >= delay)
<1>1. Pass
  BY PassOrMove, MovesKeep
<1>2. PICK tick \in 0..(CLOCK - 1) : now' = (now + tick) % CLOCK
  BY <1>1, PassObeys
<1>3. now \in 0..(CLOCK - 1) /\ menu \in Menus /\ ui \in Feelings /\ HoldInv /\ LingerInv
  BY DEF InputInv, MenuInv, FingersInv
<1>4. ASSUME hold.direction # {}, hold'.direction = hold.direction, menu'.action # "back",
             InTime(hold.age + ((now' - now) % CLOCK), Delay(hold.again))
      PROVE  menu'.move <=> hold.age + ((now' - now) % CLOCK) >= Delay(hold.again)
  <2>1. /\ menu.repeat_at \in 0..(CLOCK - 1) /\ hold.age \in 0..(FIRST + CLOCK)
        /\ hold.again \in BOOLEAN /\ Timely(menu.repeat_at, hold.age, hold.again, now)
    BY <1>3, <1>4 DEF HoldInv, Menus, Ages
  <2>2. Reached(now', menu.repeat_at) <=> hold.age + ((now' - now) % CLOCK) >= Delay(hold.again)
    BY <1>2, <1>3, <1>4, <2>1, ReachedOnTime
  <2> QED
    BY <1>1, <1>4, <2>2, PassObeys
<1>5. ASSUME linger.action # {}, linger'.action = linger.action, linger'.polled,
             InTime(linger.age + ((now' - now) % CLOCK), Delay(linger.again))
      PROVE  linger.action \subseteq ui'.fired
               <=> linger.age + ((now' - now) % CLOCK) >= Delay(linger.again)
  <2>1. /\ ui.repeat_at \in 0..(CLOCK - 1) /\ linger.age \in 0..(FIRST + CLOCK)
        /\ linger.again \in BOOLEAN /\ Timely(ui.repeat_at, linger.age, linger.again, now)
    BY <1>3, <1>5 DEF LingerInv, Feelings, Ages
  <2>2. Reached(now', ui.repeat_at) <=> linger.age + ((now' - now) % CLOCK) >= Delay(linger.again)
    BY <1>2, <1>3, <1>5, <2>1, ReachedOnTime
  <2> QED
    BY <1>1, <1>5, <2>2, PassObeys
<1> QED
  BY <1>4, <1>5, Zenon DEF Delay

(* What is held, a direction or a finger on PREVIOUS or NEXT, acts again at   *)
(* the first pass after its delay and at no other, wherever the clock wraps   *)
(* (the comparison of times as int32_t), as long as a pass comes within half  *)
(* the range of the clock.                                                    *)
THEOREM InputRepeats == InputSpec => RepeatsOnTime
<1>1. InputInit => InputInv
  BY InitInput
<1>2. InputInv /\ [InputNext]_input_vars => InputInv'
  BY StepInput
<1>3. InputInv /\ [InputNext]_input_vars
        => [now' # now /\ hold.direction # {} /\ hold'.direction = hold.direction
              /\ menu'.action # "back"
            => LET delay == IF hold.again THEN AGAIN ELSE FIRST
                   age == hold.age + ((now' - now) % CLOCK)
               IN InTime(age, delay) => (menu'.move <=> age >= delay)]_input_vars
  BY RepeatsInTime, Zenon
<1>4. InputInv /\ [InputNext]_input_vars
        => [now' # now /\ linger.action # {} /\ linger'.action = linger.action /\ linger'.polled
            => LET delay == IF linger.again THEN AGAIN ELSE FIRST
                   age == linger.age + ((now' - now) % CLOCK)
               IN InTime(age, delay) => (linger.action \subseteq ui'.fired <=> age >= delay)]_input_vars
  BY RepeatsInTime, Zenon
<1> QED
  BY <1>1, <1>2, <1>3, <1>4, PTL DEF InputSpec, RepeatsOnTime, KeysRepeat, FingersRepeat

----------------------------------------------------------------------------
(* Where the controls are.                                                  *)

(* A set of naturals that is not empty has a smallest element.              *)
LEMMA SmallestOf ==
  ASSUME NEW T \in SUBSET Nat, T # {}
  PROVE  \E m \in T : \A k \in T : m <= k
<1>1. PICK m \in T : \A k \in T : ~(<<k, m>> \in OpToRel(<, Nat))
  BY WFMin, NatLessThanWellFounded, Zenon
<1>2. ASSUME NEW k \in T, k < m PROVE FALSE
  <2>1. <<k, m>> \in Nat \X Nat /\ <<k, m>>[1] < <<k, m>>[2]
    BY <1>2
  <2>2. <<k, m>> \in {ss \in Nat \X Nat : ss[1] < ss[2]}
    BY <2>1
  <2>3. <<k, m>> \in OpToRel(<, Nat)
    BY <2>2, Zenon DEF OpToRel
  <2> QED
    BY <1>1, <2>3, Zenon
<1> QED
  BY <1>2

(* What is drawn for each control, and the rows that are sent for it.        *)
LEMMA DrawnUpright ==
  /\ Picture!Highlight("up", "portrait")     = Picture!Rect(119, 616, 46, 52)
  /\ Picture!Highlight("down", "portrait")   = Picture!Rect(119, 736, 46, 52)
  /\ Picture!Highlight("left", "portrait")   = Picture!Rect(56, 679, 52, 46)
  /\ Picture!Highlight("right", "portrait")  = Picture!Rect(176, 679, 52, 46)
  /\ Picture!Highlight("a", "portrait")      = Picture!Square(Picture!At(438, 646), 31)
  /\ Picture!Highlight("b", "portrait")      = Picture!Square(Picture!At(354, 720), 31)
  /\ Picture!Highlight("start", "portrait")  = Picture!Rect(288, 842, 92, 30)
  /\ Picture!Highlight("select", "portrait") = Picture!Rect(160, 842, 92, 30)
<1>1. Picture!Highlight("up", "portrait") = Picture!Rect(119, 616, 46, 52)
  BY Zenon DEF Picture!Highlight
<1>2. Picture!Highlight("down", "portrait") = Picture!Rect(119, 736, 46, 52)
  BY Zenon DEF Picture!Highlight
<1>3. Picture!Highlight("left", "portrait") = Picture!Rect(56, 679, 52, 46)
  BY Zenon DEF Picture!Highlight
<1>4. Picture!Highlight("right", "portrait") = Picture!Rect(176, 679, 52, 46)
  BY Zenon DEF Picture!Highlight
<1>5. Picture!Highlight("a", "portrait") = Picture!Square(Picture!At(438, 646), 31)
  BY Zenon DEF Picture!Highlight
<1>6. Picture!Highlight("b", "portrait") = Picture!Square(Picture!At(354, 720), 31)
  BY Zenon DEF Picture!Highlight
<1>7. Picture!Highlight("start", "portrait") = Picture!Rect(288, 842, 92, 30)
  BY ZenonT(40) DEF Picture!Highlight
<1>8. Picture!Highlight("select", "portrait") = Picture!Rect(160, 842, 92, 30)
  BY Zenon DEF Picture!Highlight
<1> QED
  BY <1>1, <1>2, <1>3, <1>4, <1>5, <1>6, <1>7, <1>8, Zenon

LEMMA DrawnTurned ==
  ASSUME NEW o, o # "portrait"
  PROVE  /\ Picture!Highlight("up", o)     = Picture!Square(Picture!At(116, 192), 10)
         /\ Picture!Highlight("down", o)   = Picture!Square(Picture!At(116, 348), 10)
         /\ Picture!Highlight("left", o)   = Picture!Square(Picture!At(38, 270), 10)
         /\ Picture!Highlight("right", o)  = Picture!Square(Picture!At(194, 270), 10)
         /\ Picture!Highlight("a", o)      = Picture!Square(Picture!At(864, 230), 30)
         /\ Picture!Highlight("b", o)      = Picture!Square(Picture!At(788, 326), 30)
         /\ Picture!Highlight("start", o)  = Picture!Rect(776, 432, 144, 46)
         /\ Picture!Highlight("select", o) = Picture!Rect(40, 432, 144, 46)
<1>1. Picture!Highlight("up", o) = Picture!Square(Picture!At(116, 192), 10)
  BY Zenon DEF Picture!Highlight
<1>2. Picture!Highlight("down", o) = Picture!Square(Picture!At(116, 348), 10)
  BY Zenon DEF Picture!Highlight
<1>3. Picture!Highlight("left", o) = Picture!Square(Picture!At(38, 270), 10)
  BY Zenon DEF Picture!Highlight
<1>4. Picture!Highlight("right", o) = Picture!Square(Picture!At(194, 270), 10)
  BY Zenon DEF Picture!Highlight
<1>5. Picture!Highlight("a", o) = Picture!Square(Picture!At(864, 230), 30)
  BY Zenon DEF Picture!Highlight
<1>6. Picture!Highlight("b", o) = Picture!Square(Picture!At(788, 326), 30)
  BY Zenon DEF Picture!Highlight
<1>7. Picture!Highlight("start", o) = Picture!Rect(776, 432, 144, 46)
  BY Zenon DEF Picture!Highlight
<1>8. Picture!Highlight("select", o) = Picture!Rect(40, 432, 144, 46)
  BY Zenon DEF Picture!Highlight
<1> QED
  BY <1>1, <1>2, <1>3, <1>4, <1>5, <1>6, <1>7, <1>8, Zenon

LEMMA CompassRows ==
  ASSUME NEW key \in {"up", "down", "left", "right"}
  PROVE  /\ Picture!ControlRows(key, FALSE) = <<297, 498>>
         /\ Picture!ControlRows(key, TRUE) = <<174, 366>>
<1>1. key # "a" /\ key # "b" /\ key # "select" /\ key # "start"
  OBVIOUS
<1>2. key \notin {"select", "start"}
  OBVIOUS
<1> QED
  BY <1>1, <1>2, Zenon DEF Picture!ControlRows

LEMMA OtherRows ==
  /\ Picture!ControlRows("a", FALSE) = <<59, 143>>
  /\ Picture!ControlRows("b", FALSE) = <<143, 227>>
  /\ Picture!ControlRows("select", FALSE) = <<285, 382>>
  /\ Picture!ControlRows("start", FALSE) = <<157, 254>>
  /\ Picture!ControlRows("a", TRUE) = <<189, 271>>
  /\ Picture!ControlRows("b", TRUE) = <<285, 367>>
  /\ Picture!ControlRows("select", TRUE) = <<430, 480>>
  /\ Picture!ControlRows("start", TRUE) = <<430, 480>>
<1>1. \A key \in {"a", "b", "select", "start"} : key \notin {"up", "down", "left", "right"}
  OBVIOUS
<1>2. Picture!ControlRows("a", FALSE) = <<59, 143>>
  BY <1>1, Zenon DEF Picture!ControlRows
<1>3. Picture!ControlRows("b", FALSE) = <<143, 227>>
  BY <1>1, Zenon DEF Picture!ControlRows
<1>4. Picture!ControlRows("select", FALSE) = <<285, 382>>
  BY <1>1, Zenon DEF Picture!ControlRows
<1>5. Picture!ControlRows("start", FALSE) = <<157, 254>>
  BY <1>1, Zenon DEF Picture!ControlRows
<1>6. Picture!ControlRows("a", TRUE) = <<189, 271>>
  BY <1>1, Zenon DEF Picture!ControlRows
<1>7. Picture!ControlRows("b", TRUE) = <<285, 367>>
  BY <1>1, Zenon DEF Picture!ControlRows
<1>8. Picture!ControlRows("select", TRUE) = <<430, 480>>
  BY <1>1, Zenon DEF Picture!ControlRows
<1>9. Picture!ControlRows("start", TRUE) = <<430, 480>>
  BY <1>1, Zenon DEF Picture!ControlRows
<1> QED
  BY <1>2, <1>3, <1>4, <1>5, <1>6, <1>7, <1>8, <1>9

(* The highlight r of a control lies within the rows c that are sent for it. *)
Within(r, c, o) ==
  /\ r \in [x : Nat, y : Nat, width : Nat \ {0}, height : Nat \ {0}]
  /\ Picture!PanelRows(c, o) \in (0..539) \X (0..539)
  /\ \A p \in Picture!Corners(r) :
       Picture!PanelPoint(p, o).y \in Picture!PanelRows(c, o)[1]..Picture!PanelRows(c, o)[2]

Boxes == [x : Nat, y : Nat, width : Nat \ {0}, height : Nat \ {0}]

(* The rows or columns a..b of a box lie within the rows c.                  *)
Spans(r, c, a, b) ==
  /\ r \in Boxes /\ c \in (0..539) \X (0..539)
  /\ a \in Int /\ b \in Int /\ c[1] <= a /\ b <= c[2]

LEMMA WithinUpright ==
  ASSUME NEW r, NEW c, Spans(r, c, 540 - (r.x + r.width), 539 - r.x)
  PROVE  Within(r, c, "portrait")
<1>1. "portrait" # "landscape" /\ "portrait" # "reverse"
  OBVIOUS
<1>2. Picture!PanelRows(c, "portrait") = c
  BY <1>1, Zenon DEF Picture!PanelRows
<1>3. ASSUME NEW p \in Picture!Corners(r)
      PROVE  Picture!PanelPoint(p, "portrait").y \in c[1]..c[2]
  <2>1. p.x \in {r.x, (r.x + r.width) - 1}
    BY <1>3 DEF Picture!Corners, Spans, Boxes
  <2>2. Picture!PanelPoint(p, "portrait") = Picture!At(p.y, 539 - p.x)
    BY <1>1, Zenon DEF Picture!PanelPoint
  <2>3. Picture!PanelPoint(p, "portrait").y = 539 - p.x
    BY <2>2 DEF Picture!At
  <2> QED
    BY <2>1, <2>3 DEF Spans, Boxes
<1> QED
  BY <1>2, <1>3 DEF Within, Spans, Boxes

LEMMA WithinTurned ==
  ASSUME NEW r, NEW c, Spans(r, c, r.y, (r.y + r.height) - 1), NEW o \in Picture!Turned
  PROVE  Within(r, c, o)
<1>1. "portrait" # "landscape" /\ "portrait" # "reverse" /\ "landscape" # "reverse"
  OBVIOUS
<1>2. \A p \in Picture!Corners(r) : p.y \in {r.y, (r.y + r.height) - 1}
  BY DEF Picture!Corners, Spans, Boxes
<1>3. CASE o = "landscape"
  <2>1. Picture!PanelRows(c, o) = c
    BY <1>1, <1>3, Zenon DEF Picture!PanelRows
  <2>2. \A p : Picture!PanelPoint(p, o) = p
    BY <1>1, <1>3, Zenon DEF Picture!PanelPoint
  <2>3. \A p \in Picture!Corners(r) : Picture!PanelPoint(p, o).y \in c[1]..c[2]
    BY <1>2, <2>2 DEF Spans, Boxes
  <2> QED
    BY <2>1, <2>3 DEF Within, Spans, Boxes
<1>4. CASE o = "reverse"
  <2>1. Picture!PanelRows(c, o) = <<539 - c[2], 539 - c[1]>>
    BY <1>1, <1>4, Zenon DEF Picture!PanelRows
  <2>2. \A p : Picture!PanelPoint(p, o) = Picture!At(959 - p.x, 539 - p.y)
    BY <1>1, <1>4, Zenon DEF Picture!PanelPoint
  <2>3. \A p \in Picture!Corners(r) : Picture!PanelPoint(p, o).y = 539 - p.y
    BY <2>2 DEF Picture!At
  <2>4. \A p \in Picture!Corners(r) : Picture!PanelPoint(p, o).y \in (539 - c[2])..(539 - c[1])
    BY <1>2, <2>3 DEF Spans, Boxes
  <2>5. <<539 - c[2], 539 - c[1]>> \in (0..539) \X (0..539)
    BY DEF Spans
  <2> QED
    BY <2>1, <2>4, <2>5 DEF Within, Spans, Boxes
<1> QED
  BY <1>3, <1>4 DEF Picture!Turned, Picture!Orientations

(* Every control's highlight lies within its rows.                           *)
LEMMA UprightWithin ==
  ASSUME NEW key \in Picture!ControlKeys
  PROVE  Within(Picture!Highlight(key, "portrait"), Picture!ControlRows(key, FALSE), "portrait")
<1> DEFINE r == Picture!Highlight(key, "portrait")
           c == Picture!ControlRows(key, FALSE)
<1>1. Spans(r, c, 540 - (r.x + r.width), 539 - r.x)
  <2>1. CASE key = "up"
    <3>1. r = Picture!Rect(119, 616, 46, 52) /\ c = <<297, 498>>
      BY <2>1, DrawnUpright, CompassRows, Zenon
    <3> HIDE DEF r, c
    <3> QED
      BY <3>1 DEF Spans, Boxes, Picture!Square, Picture!At, Picture!Rect
  <2>2. CASE key = "down"
    <3>1. r = Picture!Rect(119, 736, 46, 52) /\ c = <<297, 498>>
      BY <2>2, DrawnUpright, CompassRows, Zenon
    <3> HIDE DEF r, c
    <3> QED
      BY <3>1 DEF Spans, Boxes, Picture!Square, Picture!At, Picture!Rect
  <2>3. CASE key = "left"
    <3>1. r = Picture!Rect(56, 679, 52, 46) /\ c = <<297, 498>>
      BY <2>3, DrawnUpright, CompassRows, Zenon
    <3> HIDE DEF r, c
    <3> QED
      BY <3>1 DEF Spans, Boxes, Picture!Square, Picture!At, Picture!Rect
  <2>4. CASE key = "right"
    <3>1. r = Picture!Rect(176, 679, 52, 46) /\ c = <<297, 498>>
      BY <2>4, DrawnUpright, CompassRows, Zenon
    <3> HIDE DEF r, c
    <3> QED
      BY <3>1 DEF Spans, Boxes, Picture!Square, Picture!At, Picture!Rect
  <2>5. CASE key = "a"
    <3>1. r = Picture!Square(Picture!At(438, 646), 31) /\ c = <<59, 143>>
      BY <2>5, DrawnUpright, OtherRows, Zenon
    <3> HIDE DEF r, c
    <3> QED
      BY <3>1 DEF Spans, Boxes, Picture!Square, Picture!At, Picture!Rect
  <2>6. CASE key = "b"
    <3>1. r = Picture!Square(Picture!At(354, 720), 31) /\ c = <<143, 227>>
      BY <2>6, DrawnUpright, OtherRows, Zenon
    <3> HIDE DEF r, c
    <3> QED
      BY <3>1 DEF Spans, Boxes, Picture!Square, Picture!At, Picture!Rect
  <2>7. CASE key = "start"
    <3>1. r = Picture!Rect(288, 842, 92, 30) /\ c = <<157, 254>>
      BY <2>7, DrawnUpright, OtherRows, Zenon
    <3> HIDE DEF r, c
    <3> QED
      BY <3>1 DEF Spans, Boxes, Picture!Square, Picture!At, Picture!Rect
  <2>8. CASE key = "select"
    <3>1. r = Picture!Rect(160, 842, 92, 30) /\ c = <<285, 382>>
      BY <2>8, DrawnUpright, OtherRows, Zenon
    <3> HIDE DEF r, c
    <3> QED
      BY <3>1 DEF Spans, Boxes, Picture!Square, Picture!At, Picture!Rect
  <2> QED
    BY <2>1, <2>2, <2>3, <2>4, <2>5, <2>6, <2>7, <2>8, Zenon DEF Picture!ControlKeys
<1> HIDE DEF r, c
<1>3. Within(r, c, "portrait")
  BY <1>1, WithinUpright, Zenon
<1> QED
  BY <1>3 DEF r, c

LEMMA TurnedWithin ==
  ASSUME NEW key \in Picture!ControlKeys, NEW o \in Picture!Turned
  PROVE  Within(Picture!Highlight(key, o), Picture!ControlRows(key, TRUE), o)
<1> DEFINE r == Picture!Highlight(key, o)
           c == Picture!ControlRows(key, TRUE)
<1>0. o # "portrait"
  BY DEF Picture!Turned
<1>1. /\ Picture!Highlight("up", o)     = Picture!Square(Picture!At(116, 192), 10)
      /\ Picture!Highlight("down", o)   = Picture!Square(Picture!At(116, 348), 10)
      /\ Picture!Highlight("left", o)   = Picture!Square(Picture!At(38, 270), 10)
      /\ Picture!Highlight("right", o)  = Picture!Square(Picture!At(194, 270), 10)
      /\ Picture!Highlight("a", o)      = Picture!Square(Picture!At(864, 230), 30)
      /\ Picture!Highlight("b", o)      = Picture!Square(Picture!At(788, 326), 30)
      /\ Picture!Highlight("start", o)  = Picture!Rect(776, 432, 144, 46)
      /\ Picture!Highlight("select", o) = Picture!Rect(40, 432, 144, 46)
  BY <1>0, DrawnTurned
<1>2. Spans(r, c, r.y, (r.y + r.height) - 1)
  <2>1. CASE key = "up"
    <3>1. r = Picture!Square(Picture!At(116, 192), 10) /\ c = <<174, 366>>
      BY <2>1, <1>1, CompassRows, Zenon
    <3> HIDE DEF r, c
    <3> QED
      BY <3>1 DEF Spans, Boxes, Picture!Square, Picture!At, Picture!Rect
  <2>2. CASE key = "down"
    <3>1. r = Picture!Square(Picture!At(116, 348), 10) /\ c = <<174, 366>>
      BY <2>2, <1>1, CompassRows, Zenon
    <3> HIDE DEF r, c
    <3> QED
      BY <3>1 DEF Spans, Boxes, Picture!Square, Picture!At, Picture!Rect
  <2>3. CASE key = "left"
    <3>1. r = Picture!Square(Picture!At(38, 270), 10) /\ c = <<174, 366>>
      BY <2>3, <1>1, CompassRows, Zenon
    <3> HIDE DEF r, c
    <3> QED
      BY <3>1 DEF Spans, Boxes, Picture!Square, Picture!At, Picture!Rect
  <2>4. CASE key = "right"
    <3>1. r = Picture!Square(Picture!At(194, 270), 10) /\ c = <<174, 366>>
      BY <2>4, <1>1, CompassRows, Zenon
    <3> HIDE DEF r, c
    <3> QED
      BY <3>1 DEF Spans, Boxes, Picture!Square, Picture!At, Picture!Rect
  <2>5. CASE key = "a"
    <3>1. r = Picture!Square(Picture!At(864, 230), 30) /\ c = <<189, 271>>
      BY <2>5, <1>1, OtherRows, Zenon
    <3> HIDE DEF r, c
    <3> QED
      BY <3>1 DEF Spans, Boxes, Picture!Square, Picture!At, Picture!Rect
  <2>6. CASE key = "b"
    <3>1. r = Picture!Square(Picture!At(788, 326), 30) /\ c = <<285, 367>>
      BY <2>6, <1>1, OtherRows, Zenon
    <3> HIDE DEF r, c
    <3> QED
      BY <3>1 DEF Spans, Boxes, Picture!Square, Picture!At, Picture!Rect
  <2>7. CASE key = "start"
    <3>1. r = Picture!Rect(776, 432, 144, 46) /\ c = <<430, 480>>
      BY <2>7, <1>1, OtherRows, Zenon
    <3> HIDE DEF r, c
    <3> QED
      BY <3>1 DEF Spans, Boxes, Picture!Square, Picture!At, Picture!Rect
  <2>8. CASE key = "select"
    <3>1. r = Picture!Rect(40, 432, 144, 46) /\ c = <<430, 480>>
      BY <2>8, <1>1, OtherRows, Zenon
    <3> HIDE DEF r, c
    <3> QED
      BY <3>1 DEF Spans, Boxes, Picture!Square, Picture!At, Picture!Rect
  <2> QED
    BY <2>1, <2>2, <2>3, <2>4, <2>5, <2>6, <2>7, <2>8, Zenon DEF Picture!ControlKeys
<1> HIDE DEF r, c
<1>3. Within(r, c, o)
  BY <1>2, WithinTurned, Zenon
<1> QED
  BY <1>3 DEF r, c

(* ... and so within the rows from the first to the last of all that changed. *)
LEMMA RowsAreSent == Picture!HighlightsAreSent
<1> SUFFICES ASSUME NEW o \in Picture!Orientations, NEW changed \in SUBSET Picture!ControlKeys,
                    NEW key \in changed, NEW p \in Picture!Corners(Picture!Highlight(key, o))
             PROVE  Picture!PanelPoint(p, o).y \in Picture!HighlightRows(changed, o)
  BY DEF Picture!HighlightsAreSent
<1> DEFINE rows(k) == Picture!PanelRows(Picture!ControlRows(k, o # "portrait"), o)
           ranges == {rows(k) : k \in changed}
           firsts == {r[1] : r \in ranges}
           finals == {r[2] : r \in ranges}
           first == CHOOSE n \in firsts : \A r \in ranges : n <= r[1]
           final == CHOOSE n \in finals : \A r \in ranges : n >= r[2]
<1>1. \A k \in Picture!ControlKeys : Within(Picture!Highlight(k, o), Picture!ControlRows(k, o # "portrait"), o)
  <2>1. CASE o = "portrait"
    BY <2>1, UprightWithin, Zenon
  <2>2. CASE o # "portrait"
    <3>1. o \in Picture!Turned /\ (o # "portrait") = TRUE
      BY <2>2 DEF Picture!Turned
    <3> QED
      BY <3>1, TurnedWithin, Zenon
  <2> QED
    BY <2>1, <2>2
<1>2. Picture!HighlightRows(changed, o) = first .. final
  BY Zenon DEF Picture!HighlightRows
<1>3. \A k \in changed : rows(k) \in (0..539) \X (0..539)
  BY <1>1, Zenon DEF Within
<1>4. Picture!PanelPoint(p, o).y \in rows(key)[1]..rows(key)[2]
  BY <1>1, Zenon DEF Within
<1>5. ranges \subseteq (0..539) \X (0..539) /\ rows(key) \in ranges
  BY <1>3
<1> HIDE DEF rows, ranges
<1>6. first \in firsts /\ \A r \in ranges : first <= r[1]
  <2>1. firsts \in SUBSET Nat /\ firsts # {}
    BY <1>5
  <2>2. PICK m \in firsts : \A n \in firsts : m <= n
    BY <2>1, SmallestOf, Zenon
  <2>3. \A r \in ranges : m <= r[1]
    BY <2>2
  <2> QED
    BY <2>2, <2>3, Zenon
<1>7. final \in finals /\ \A r \in ranges : final >= r[2]
  <2> DEFINE below == {539 - n : n \in finals}
  <2>1. below \in SUBSET Nat /\ below # {}
    BY <1>5
  <2>2. PICK m \in below : \A n \in below : m <= n
    <3> HIDE DEF below
    <3> QED
      BY <2>1, SmallestOf, Zenon
  <2>3. PICK n \in finals : m = 539 - n
    BY <2>2
  <2>4. \A r \in ranges : n >= r[2]
    <3> SUFFICES ASSUME NEW r \in ranges PROVE n >= r[2]
      OBVIOUS
    <3>1. r[2] \in finals
      OBVIOUS
    <3>2. m <= 539 - r[2]
      BY <2>2, <3>1
    <3>3. r[2] \in 0..539 /\ n \in 0..539
      BY <1>5
    <3> QED
      BY <2>3, <3>2, <3>3
  <2> QED
    BY <2>3, <2>4, Zenon
<1> HIDE DEF first, final
<1>8. first \in 0..539 /\ final \in 0..539
  <2>1. \A n \in firsts : n \in 0..539
    BY <1>5
  <2>2. \A n \in finals : n \in 0..539
    BY <1>5
  <2> QED
    BY <1>6, <1>7, <2>1, <2>2, Zenon
<1>9. first <= rows(key)[1] /\ final >= rows(key)[2]
  BY <1>5, <1>6, <1>7
<1>10. rows(key)[1] \in Int /\ rows(key)[2] \in Int
  BY <1>5
<1> QED
  BY <1>2, <1>4, <1>8, <1>9, <1>10
(* However the picture is turned, a touch acts on the point of the picture  *)
(* that the panel shows under the finger, and the other way round           *)
(* (paperboy_landscape_touch, and the rotations of main.cpp and             *)
(* paperboy_orientation.cpp).                                               *)
THEOREM TouchLiesUnderTheFinger ==
  ASSUME NEW p \in Picture!Screen, NEW o \in Picture!Orientations \ {"portrait"}
  PROVE  /\ Picture!PanelPoint(Picture!LandscapeTouch(p, o), o) = Picture!PanelPoint(p, "portrait")
         /\ Picture!LandscapeTouch(p, o) \in [x : 0..959, y : 0..539]
<1> DEFINE q == Picture!LandscapeTouch(p, o)
<1>1. "portrait" # "landscape" /\ "portrait" # "reverse" /\ "landscape" # "reverse"
  OBVIOUS
<1>2. Picture!PanelPoint(p, "portrait") = Picture!At(p.y, 539 - p.x)
  BY <1>1, Zenon DEF Picture!PanelPoint
<1>3. p.x \in 0..539 /\ p.y \in 0..959
  BY DEF Picture!Screen
<1>4. CASE o = "landscape"
  <2>1. q = Picture!At(p.y, 539 - p.x)
    BY <1>1, <1>4, Zenon DEF Picture!LandscapeTouch
  <2>2. Picture!PanelPoint(q, o) = q
    BY <1>1, <1>4, Zenon DEF Picture!PanelPoint
  <2> QED
    BY <1>2, <1>3, <2>1, <2>2 DEF Picture!At
<1>5. CASE o = "reverse"
  <2>1. q = Picture!At(959 - p.y, 539 - (539 - p.x))
    BY <1>1, <1>5, Zenon DEF Picture!LandscapeTouch
  <2>2. Picture!PanelPoint(q, o) = Picture!At(959 - q.x, 539 - q.y)
    BY <1>1, <1>5, Zenon DEF Picture!PanelPoint
  <2> HIDE DEF q
  <2>3. q = [x |-> 959 - p.y, y |-> p.x]
    BY <1>3, <2>1 DEF Picture!At
  <2>4. 959 - q.x = p.y /\ 539 - q.y = 539 - p.x
    BY <1>3, <2>3
  <2> QED
    BY <1>2, <1>3, <2>2, <2>3, <2>4 DEF q
<1> QED
  BY <1>4, <1>5 DEF Picture!Orientations

LEMMA GameTargetsApart ==
  ASSUME NEW p \in [x : Int, y : Int],
         NEW a \in Picture!Hit(p, Picture!GameTargets), NEW b \in Picture!Hit(p, Picture!GameTargets)
  PROVE  a = b
BY DEF Picture!Hit, Picture!InRect, Picture!GameTargets, Picture!Rect

LEMMA LandscapeTargetsApart ==
  ASSUME NEW p \in [x : Int, y : Int],
         NEW a \in Picture!Hit(p, Picture!LandscapeTargets), NEW b \in Picture!Hit(p, Picture!LandscapeTargets)
  PROVE  a = b
BY DEF Picture!Hit, Picture!InRect, Picture!LandscapeTargets, Picture!Rect

LEMMA Roots ==
  ASSUME NEW v \in Int, NEW r \in Nat, v * v <= r * r
  PROVE  v \in (0 - r)..r
<1>1. v > r => v * v > r * r
  OBVIOUS
<1>2. v < 0 - r => v * v > r * r
  OBVIOUS
<1> QED
  BY <1>1, <1>2

LEMMA Parallelogram ==
  ASSUME NEW u \in Int, NEW v \in Int
  PROVE  (u - v) * (u - v) <= (2 * (u * u)) + (2 * (v * v))
<1>1. (u + v) * (u + v) >= 0
  OBVIOUS
<1>2. ((u + v) * (u + v)) + ((u - v) * (u - v)) = (2 * (u * u)) + (2 * (v * v))
  OBVIOUS
<1> QED
  BY <1>1, <1>2


(* A point of a circle lies in the square around it.                         *)
LEMMA CircleInSquare ==
  ASSUME NEW p \in [x : Int, y : Int], NEW c \in [x : Int, y : Int], NEW r \in Nat,
         Picture!InCircle(p, c, r)
  PROVE  p.x - c.x \in (0 - r)..r /\ p.y - c.y \in (0 - r)..r
<1> DEFINE u == p.x - c.x
           v == p.y - c.y
<1>1. u \in Int /\ v \in Int
  OBVIOUS
<1>2. (u * u) + (v * v) <= r * r
  BY DEF Picture!InCircle
<1> HIDE DEF u, v
<1>3. u * u >= 0 /\ v * v >= 0
  BY <1>1
<1>4. u * u \in Int /\ v * v \in Int /\ r * r \in Int
  BY <1>1
<1>5. u * u <= r * r /\ v * v <= r * r
  BY <1>2, <1>3, <1>4
<1>6. u \in (0 - r)..r /\ v \in (0 - r)..r
  BY <1>1, <1>5, Roots
<1> QED
  BY <1>6 DEF u, v

(* Two circles whose centres are further apart than their diameter.          *)
LEMMA CirclesApart ==
  ASSUME NEW p \in [x : Int, y : Int], NEW c \in [x : Int, y : Int],
         NEW d \in [x : Int, y : Int], NEW r \in Nat,
         Picture!InCircle(p, c, r), Picture!InCircle(p, d, r)
  PROVE  ((d.x - c.x) * (d.x - c.x)) + ((d.y - c.y) * (d.y - c.y)) <= 4 * (r * r)
<1> DEFINE u == p.x - c.x
           v == p.x - d.x
           s == p.y - c.y
           t == p.y - d.y
<1>1. u \in Int /\ v \in Int /\ s \in Int /\ t \in Int
  OBVIOUS
<1>2. (u * u) + (s * s) <= r * r /\ (v * v) + (t * t) <= r * r
  BY DEF Picture!InCircle
<1>3. d.x - c.x = u - v /\ d.y - c.y = s - t
  OBVIOUS
<1> HIDE DEF u, v, s, t
<1>4. (u - v) * (u - v) <= (2 * (u * u)) + (2 * (v * v))
  BY <1>1, Parallelogram
<1>5. (s - t) * (s - t) <= (2 * (s * s)) + (2 * (t * t))
  BY <1>1, Parallelogram
<1>6. /\ u * u \in Int /\ v * v \in Int /\ s * s \in Int /\ t * t \in Int /\ r * r \in Int
      /\ (u - v) * (u - v) \in Int /\ (s - t) * (s - t) \in Int
  BY <1>1
<1>7. ((u - v) * (u - v)) + ((s - t) * (s - t)) <= 4 * (r * r)
  <2> DEFINE uu == u * u
             vv == v * v
             ss == s * s
             tt == t * t
             rr == r * r
             uv == (u - v) * (u - v)
             st == (s - t) * (s - t)
  <2>1. /\ uu \in Int /\ vv \in Int /\ ss \in Int /\ tt \in Int /\ rr \in Int /\ uv \in Int /\ st \in Int
        /\ uu + ss <= rr /\ vv + tt <= rr
        /\ uv <= (2 * uu) + (2 * vv) /\ st <= (2 * ss) + (2 * tt)
    BY <1>2, <1>4, <1>5, <1>6
  <2> HIDE DEF uu, vv, ss, tt, rr, uv, st
  <2>2. uv + st <= 4 * rr
    BY <2>1
  <2> QED
    BY <2>2 DEF uv, st, rr
<1> QED
  BY <1>3, <1>7

(* The keys at a point of the picture.                                        *)
KeysIn(p, l) ==
  (IF Picture!InCircle(p, l.dpad, l.reach) THEN Picture!Directions(p, l.dpad) ELSE {})
    \union {key \in {"a", "b"} : Picture!InCircle(p, l[key], l.radius)}
    \union {key \in {"select", "start"} : Picture!InRect(p, l[key])}

(* No two opposite directions are held.                                       *)
LEMMA CompassHolds ==
  ASSUME NEW p \in [x : Int, y : Int], NEW c \in [x : Int, y : Int]
  PROVE  /\ Picture!Directions(p, c) \subseteq {"up", "down", "left", "right"}
         /\ ~({"up", "down"} \subseteq Picture!Directions(p, c))
         /\ ~({"left", "right"} \subseteq Picture!Directions(p, c))
<1>1. p.x - c.x \in Int /\ p.y - c.y \in Int
  OBVIOUS
<1>2. "up" \in Picture!Directions(p, c) => p.y - c.y < 0 - 22
  BY DEF Picture!Directions
<1>3. "down" \in Picture!Directions(p, c) => p.y - c.y > 22
  BY DEF Picture!Directions
<1>4. "left" \in Picture!Directions(p, c) => p.x - c.x < 0 - 22
  BY DEF Picture!Directions
<1>5. "right" \in Picture!Directions(p, c) => p.x - c.x > 22
  BY DEF Picture!Directions
<1>6. Picture!Directions(p, c) \subseteq {"up", "down", "left", "right"}
  BY DEF Picture!Directions
<1> QED
  BY <1>1, <1>2, <1>3, <1>4, <1>5, <1>6

(* The five areas of a layout that keys are in, in which no point is twice.   *)
Areas(p, l) ==
  [compass |-> Picture!InCircle(p, l.dpad, l.reach),
   a |-> Picture!InCircle(p, l.a, l.radius), b |-> Picture!InCircle(p, l.b, l.radius),
   select |-> Picture!InRect(p, l.select), start |-> Picture!InRect(p, l.start)]

LEMMA OneArea ==
  ASSUME NEW p \in [x : Int, y : Int], NEW l, NEW c, c = Areas(p, l),
         l.dpad \in [x : Int, y : Int],
         c.compass => ~c.a /\ ~c.b /\ ~c.select /\ ~c.start,
         c.a => ~c.b /\ ~c.select /\ ~c.start,
         c.b => ~c.select /\ ~c.start,
         c.select => ~c.start
  PROVE  /\ Picture!OneHold(KeysIn(p, l))
         /\ KeysIn(p, l) # {} => c.compass \/ c.a \/ c.b \/ c.select \/ c.start
<1> DEFINE rest == {key \in {"a", "b"} : Picture!InCircle(p, l[key], l.radius)}
                     \union {key \in {"select", "start"} : Picture!InRect(p, l[key])}
<1>1. /\ c.compass = Picture!InCircle(p, l.dpad, l.reach)
      /\ c.a = Picture!InCircle(p, l.a, l.radius) /\ c.b = Picture!InCircle(p, l.b, l.radius)
      /\ c.select = Picture!InRect(p, l.select) /\ c.start = Picture!InRect(p, l.start)
  BY DEF Areas
<1>2. \A key \in rest :
        /\ key = "a" => c.a
        /\ key = "b" => c.b
        /\ key = "select" => c.select
        /\ key = "start" => c.start
        /\ key \in {"a", "b", "select", "start"}
  BY <1>1, Zenon
<1> HIDE DEF rest
<1>3. KeysIn(p, l) = (IF c.compass THEN Picture!Directions(p, l.dpad) ELSE {}) \union rest
  BY <1>1 DEF KeysIn, rest
<1>4. CASE c.compass
  <2>1. rest = {}
    BY <1>2, <1>4
  <2>2. KeysIn(p, l) = Picture!Directions(p, l.dpad)
    BY <1>3, <1>4, <2>1
  <2> QED
    BY <1>4, <2>2, CompassHolds DEF Picture!OneHold
<1>5. CASE ~c.compass
  <2>1. KeysIn(p, l) = rest
    BY <1>3, <1>5
  <2>2. \A k \in rest, m \in rest : k = m
    BY <1>2
  <2>3. rest # {} => c.a \/ c.b \/ c.select \/ c.start
    BY <1>2
  <2> QED
    BY <2>1, <2>2, <2>3 DEF Picture!OneHold, Picture!AtMostOne
<1> QED
  BY <1>4, <1>5, Zenon

(* The keys of a layout are one at a time, and all between two rows.          *)
LEMMA UprightKeys ==
  ASSUME NEW p \in [x : Int, y : Int]
  PROVE  /\ Picture!OneHold(KeysIn(p, Picture!Layout("portrait")))
         /\ KeysIn(p, Picture!Layout("portrait")) # {} => p.y \in 586..871
<1> DEFINE l == Picture!Layout("portrait")
           c == Areas(p, l)
<1>1. l = [dpad |-> Picture!At(142, 702), reach |-> 116, a |-> Picture!At(438, 646), b |-> Picture!At(354, 720),
           radius |-> 52,
           select |-> Picture!Rect(160, 842, 92, 30), start |-> Picture!Rect(288, 842, 92, 30)]
  BY DEF Picture!Layout
<1> HIDE DEF l
<1>2. /\ l.dpad = [x |-> 142, y |-> 702] /\ l.reach = 116
      /\ l.a = [x |-> 438, y |-> 646] /\ l.b = [x |-> 354, y |-> 720] /\ l.radius = 52
      /\ l.select = [x |-> 160, y |-> 842, width |-> 92, height |-> 30]
      /\ l.start = [x |-> 288, y |-> 842, width |-> 92, height |-> 30]
  BY <1>1 DEF Picture!At, Picture!Rect
<1>3. /\ c.compass <=> Picture!InCircle(p, l.dpad, 116)
      /\ c.a <=> Picture!InCircle(p, l.a, 52)
      /\ c.b <=> Picture!InCircle(p, l.b, 52)
      /\ c.select <=> Picture!InRect(p, l.select)
      /\ c.start <=> Picture!InRect(p, l.start)
  BY <1>2 DEF Areas
<1> HIDE DEF c
<1>4. /\ l.dpad \in [x : Int, y : Int] /\ l.a \in [x : Int, y : Int] /\ l.b \in [x : Int, y : Int]
      /\ 116 \in Nat /\ 52 \in Nat
  BY <1>2
<1>5. c.compass => p.x \in 26..258 /\ p.y \in 586..818
  <2> SUFFICES ASSUME c.compass
               PROVE  p.x \in 26..258 /\ p.y \in 586..818
    OBVIOUS
  <2>1. p.x - l.dpad.x \in (0 - 116)..116 /\ p.y - l.dpad.y \in (0 - 116)..116
    BY <1>3, <1>4, CircleInSquare
  <2> QED
    BY <1>2, <2>1
<1>6. c.a => p.x \in 386..490 /\ p.y \in 594..698
  <2> SUFFICES ASSUME c.a
               PROVE  p.x \in 386..490 /\ p.y \in 594..698
    OBVIOUS
  <2>1. p.x - l.a.x \in (0 - 52)..52 /\ p.y - l.a.y \in (0 - 52)..52
    BY <1>3, <1>4, CircleInSquare
  <2> QED
    BY <1>2, <2>1
<1>7. c.b => p.x \in 302..406 /\ p.y \in 668..772
  <2> SUFFICES ASSUME c.b
               PROVE  p.x \in 302..406 /\ p.y \in 668..772
    OBVIOUS
  <2>1. p.x - l.b.x \in (0 - 52)..52 /\ p.y - l.b.y \in (0 - 52)..52
    BY <1>3, <1>4, CircleInSquare
  <2> QED
    BY <1>2, <2>1
<1>8. c.select => p.x \in 160..251 /\ p.y \in 842..871
  BY <1>2, <1>3 DEF Picture!InRect
<1>9. c.start => p.x \in 288..379 /\ p.y \in 842..871
  BY <1>2, <1>3 DEF Picture!InRect
<1>10. ~(c.a /\ c.b)
  <2> SUFFICES ASSUME c.a, c.b
               PROVE  FALSE
    OBVIOUS
  <2>1. ((l.b.x - l.a.x) * (l.b.x - l.a.x)) + ((l.b.y - l.a.y) * (l.b.y - l.a.y)) <= 4 * (52 * 52)
    BY <1>3, <1>4, CirclesApart
  <2> QED
    BY <1>2, <2>1
<1>11. /\ c.compass => ~c.a /\ ~c.b /\ ~c.select /\ ~c.start
       /\ c.a => ~c.b /\ ~c.select /\ ~c.start
       /\ c.b => ~c.select /\ ~c.start
       /\ c.select => ~c.start
  BY <1>5, <1>6, <1>7, <1>8, <1>9, <1>10
<1>12. /\ Picture!OneHold(KeysIn(p, l))
       /\ KeysIn(p, l) # {} => c.compass \/ c.a \/ c.b \/ c.select \/ c.start
  BY <1>4, <1>11, OneArea, Zenon DEF c
<1> QED
  BY <1>5, <1>6, <1>7, <1>8, <1>9, <1>12 DEF l

LEMMA TurnedKeys ==
  ASSUME NEW p \in [x : Int, y : Int], NEW o, o # "portrait"
  PROVE  /\ Picture!OneHold(KeysIn(p, Picture!Layout(o)))
         /\ KeysIn(p, Picture!Layout(o)) # {} => p.y \in 166..477
<1> DEFINE l == Picture!Layout(o)
           c == Areas(p, l)
<1>1. l = [dpad |-> Picture!At(116, 270), reach |-> 104, a |-> Picture!At(864, 230), b |-> Picture!At(788, 326),
           radius |-> 48,
           select |-> Picture!Rect(40, 432, 144, 46), start |-> Picture!Rect(776, 432, 144, 46)]
  BY DEF Picture!Layout
<1> HIDE DEF l
<1>2. /\ l.dpad = [x |-> 116, y |-> 270] /\ l.reach = 104
      /\ l.a = [x |-> 864, y |-> 230] /\ l.b = [x |-> 788, y |-> 326] /\ l.radius = 48
      /\ l.select = [x |-> 40, y |-> 432, width |-> 144, height |-> 46]
      /\ l.start = [x |-> 776, y |-> 432, width |-> 144, height |-> 46]
  BY <1>1 DEF Picture!At, Picture!Rect
<1>3. /\ c.compass <=> Picture!InCircle(p, l.dpad, 104)
      /\ c.a <=> Picture!InCircle(p, l.a, 48)
      /\ c.b <=> Picture!InCircle(p, l.b, 48)
      /\ c.select <=> Picture!InRect(p, l.select)
      /\ c.start <=> Picture!InRect(p, l.start)
  BY <1>2 DEF Areas
<1> HIDE DEF c
<1>4. /\ l.dpad \in [x : Int, y : Int] /\ l.a \in [x : Int, y : Int] /\ l.b \in [x : Int, y : Int]
      /\ 104 \in Nat /\ 48 \in Nat
  BY <1>2
<1>5. c.compass => p.x \in 12..220 /\ p.y \in 166..374
  <2> SUFFICES ASSUME c.compass
               PROVE  p.x \in 12..220 /\ p.y \in 166..374
    OBVIOUS
  <2>1. p.x - l.dpad.x \in (0 - 104)..104 /\ p.y - l.dpad.y \in (0 - 104)..104
    BY <1>3, <1>4, CircleInSquare
  <2> QED
    BY <1>2, <2>1
<1>6. c.a => p.x \in 816..912 /\ p.y \in 182..278
  <2> SUFFICES ASSUME c.a
               PROVE  p.x \in 816..912 /\ p.y \in 182..278
    OBVIOUS
  <2>1. p.x - l.a.x \in (0 - 48)..48 /\ p.y - l.a.y \in (0 - 48)..48
    BY <1>3, <1>4, CircleInSquare
  <2> QED
    BY <1>2, <2>1
<1>7. c.b => p.x \in 740..836 /\ p.y \in 278..374
  <2> SUFFICES ASSUME c.b
               PROVE  p.x \in 740..836 /\ p.y \in 278..374
    OBVIOUS
  <2>1. p.x - l.b.x \in (0 - 48)..48 /\ p.y - l.b.y \in (0 - 48)..48
    BY <1>3, <1>4, CircleInSquare
  <2> QED
    BY <1>2, <2>1
<1>8. c.select => p.x \in 40..183 /\ p.y \in 432..477
  BY <1>2, <1>3 DEF Picture!InRect
<1>9. c.start => p.x \in 776..919 /\ p.y \in 432..477
  BY <1>2, <1>3 DEF Picture!InRect
<1>10. ~(c.a /\ c.b)
  <2> SUFFICES ASSUME c.a, c.b
               PROVE  FALSE
    OBVIOUS
  <2>1. ((l.b.x - l.a.x) * (l.b.x - l.a.x)) + ((l.b.y - l.a.y) * (l.b.y - l.a.y)) <= 4 * (48 * 48)
    BY <1>3, <1>4, CirclesApart
  <2> QED
    BY <1>2, <2>1
<1>11. /\ c.compass => ~c.a /\ ~c.b /\ ~c.select /\ ~c.start
       /\ c.a => ~c.b /\ ~c.select /\ ~c.start
       /\ c.b => ~c.select /\ ~c.start
       /\ c.select => ~c.start
  BY <1>5, <1>6, <1>7, <1>8, <1>9, <1>10
<1>12. /\ Picture!OneHold(KeysIn(p, l))
       /\ KeysIn(p, l) # {} => c.compass \/ c.a \/ c.b \/ c.select \/ c.start
  BY <1>4, <1>11, OneArea, Zenon DEF c
<1> QED
  BY <1>5, <1>6, <1>7, <1>8, <1>9, <1>12 DEF l


(* What a touch of the page of the game is.                                  *)
LEMMA KeysHeld ==
  ASSUME NEW p, NEW o, NEW f
  PROVE  /\ Picture!Buttons(p, "portrait", f) = KeysIn(p, Picture!Layout("portrait"))
         /\ o # "portrait" =>
              Picture!Buttons(p, o, f)
                = IF f THEN {} ELSE KeysIn(Picture!LandscapeTouch(p, o), Picture!Layout(o))
BY Zenon DEF Picture!Buttons, KeysIn

LEMMA ActionsLieApart ==
  ASSUME NEW p \in [x : Int, y : Int]
  PROVE  /\ p.y \in 586..871 => Picture!Hit(p, Picture!GameTargets) = {}
         /\ p.y \in 166..477 => Picture!Hit(p, Picture!LandscapeTargets) = {}
BY DEF Picture!Hit, Picture!InRect, Picture!GameTargets, Picture!LandscapeTargets, Picture!Rect

(* The targets of a page and those of every header are apart.                *)
LEMMA PageTargetsApart ==
  ASSUME NEW p \in [x : Int, y : Int], NEW g
  PROVE  Picture!AtMostOne(Picture!Hit(p, Picture!HeaderTargets)
                     \union (IF g \in DOMAIN Picture!PageTargets
                             THEN Picture!Hit(p, Picture!PageTargets[g]) ELSE {}))
<1> DEFINE header == Picture!Hit(p, Picture!HeaderTargets)
           own == IF g \in DOMAIN Picture!PageTargets THEN Picture!Hit(p, Picture!PageTargets[g]) ELSE {}
<1>1. Picture!AtMostOne(header) /\ (header # {} => p.y \in 20..63)
  BY DEF Picture!AtMostOne, Picture!Hit, Picture!InRect, Picture!HeaderTargets, Picture!Rect
<1>2. DOMAIN Picture!PageTargets = {"Settings", "Battery", "SdCard"}
  BY DEF Picture!PageTargets
<1>3. Picture!AtMostOne(own) /\ (own # {} => p.y >= 150)
  <2>1. CASE g = "Settings"
    <3>1. Picture!PageTargets[g]
            = [battery |-> Picture!Rect(30, 150, 480, 120), sd_card |-> Picture!Rect(30, 290, 480, 120),
               about |-> Picture!Rect(30, 430, 480, 120), gamepad_test |-> Picture!Rect(30, 570, 480, 120)]
      BY <2>1 DEF Picture!PageTargets
    <3> QED
      BY <1>2, <2>1, <3>1 DEF Picture!AtMostOne, Picture!Hit, Picture!InRect, Picture!Rect
  <2>2. CASE g = "Battery"
    <3>1. Picture!PageTargets[g]
            = [refresh |-> Picture!Rect(170, 856, 200, 40), light_off |-> Picture!Rect(30, 778, 146, 56),
               light_down |-> Picture!Rect(196, 778, 146, 56), light_up |-> Picture!Rect(362, 778, 146, 56)]
      BY <2>2 DEF Picture!PageTargets
    <3> QED
      BY <1>2, <2>2, <3>1 DEF Picture!AtMostOne, Picture!Hit, Picture!InRect, Picture!Rect
  <2>3. CASE g = "SdCard"
    <3>1. Picture!PageTargets[g]
            = [audio_engine |-> Picture!Rect(20, 158, 500, 52), rom_previous |-> Picture!Rect(20, 686, 156, 54),
               rom_next |-> Picture!Rect(192, 686, 156, 54), rom_launch |-> Picture!Rect(364, 686, 156, 54),
               load_last |-> Picture!Rect(20, 762, 242, 54), sd_rescan |-> Picture!Rect(278, 762, 242, 54)]
      BY <2>3 DEF Picture!PageTargets
    <3> QED
      BY <1>2, <2>3, <3>1 DEF Picture!AtMostOne, Picture!Hit, Picture!InRect, Picture!Rect
  <2>4. CASE g \notin DOMAIN Picture!PageTargets
    BY <2>4 DEF Picture!AtMostOne
  <2> QED
    BY <1>2, <2>1, <2>2, <2>3, <2>4
<1> HIDE DEF header, own
<1>4. header = {} \/ own = {}
  BY <1>1, <1>3
<1>5. Picture!AtMostOne(header \union own)
  BY <1>1, <1>3, <1>4 DEF Picture!AtMostOne
<1> QED
  BY <1>5 DEF header, own

(* A finger, wherever it is put down, holds keys or takes one action, not    *)
(* both; it holds no two keys but two directions that are not opposite       *)
(* (paperboy_ui_map_buttons, current_action_mask: circles, rectangles and    *)
(* turned coordinates, tried one after the other without an else).           *)
THEOREM FingersMeanOneThing ==
  ASSUME NEW p \in Picture!Screen, NEW o \in Picture!Orientations, NEW f \in BOOLEAN
  PROVE  /\ Picture!Buttons(p, o, f) = {} \/ Picture!Actions(p, "Game", o, f) = {}
         /\ Picture!OneHold(Picture!Buttons(p, o, f))
         /\ \A g : Picture!AtMostOne(Picture!Actions(p, g, o, f))
<1>1. "portrait" # "landscape" /\ "portrait" # "reverse" /\ "landscape" # "reverse"
  OBVIOUS
<1>2. p \in [x : Int, y : Int]
  BY DEF Picture!Screen
<1>3. \A g : g # "Game" => Picture!AtMostOne(Picture!Actions(p, g, o, f))
  BY <1>2, PageTargetsApart, Zenon DEF Picture!Actions
<1>4. CASE o = "portrait"
  <2>1. Picture!Buttons(p, o, f) = KeysIn(p, Picture!Layout("portrait"))
    BY <1>4, KeysHeld, Zenon
  <2>2. Picture!Actions(p, "Game", o, f) = Picture!Hit(p, Picture!GameTargets)
    BY <1>1, <1>4, Zenon DEF Picture!Actions
  <2>3. Picture!AtMostOne(Picture!Hit(p, Picture!GameTargets))
    BY <1>2, GameTargetsApart, Zenon DEF Picture!AtMostOne
  <2>4. Picture!Buttons(p, o, f) = {} \/ Picture!Actions(p, "Game", o, f) = {}
    BY <1>2, <2>1, <2>2, UprightKeys, ActionsLieApart, Zenon
  <2>5. Picture!OneHold(Picture!Buttons(p, o, f))
    BY <1>2, <2>1, UprightKeys, Zenon
  <2>6. Picture!AtMostOne(Picture!Actions(p, "Game", o, f))
    BY <2>2, <2>3, Zenon
  <2> QED
    BY <1>3, <2>4, <2>5, <2>6, Zenon
<1>5. CASE o # "portrait" /\ f
  <2>1. Picture!Buttons(p, o, f) = {}
    BY <1>5, KeysHeld, Zenon
  <2>2. Picture!Actions(p, "Game", o, f) = {"fullscreen"}
    BY <1>5, Zenon DEF Picture!Actions
  <2>3. Picture!OneHold({}) /\ Picture!AtMostOne({"fullscreen"})
    BY Zenon DEF Picture!OneHold, Picture!AtMostOne
  <2> QED
    BY <1>3, <2>1, <2>2, <2>3, Zenon
<1>6. CASE o # "portrait" /\ ~f
  <2> DEFINE q == Picture!LandscapeTouch(p, o)
  <2>1. q \in [x : Int, y : Int]
    BY <1>6, TouchLiesUnderTheFinger
  <2> HIDE DEF q
  <2>2. Picture!Buttons(p, o, f) = KeysIn(q, Picture!Layout(o))
    BY <1>6, KeysHeld, Zenon DEF q
  <2>3. Picture!Actions(p, "Game", o, f) = Picture!Hit(q, Picture!LandscapeTargets)
    BY <1>6, Zenon DEF Picture!Actions, q
  <2>4. Picture!AtMostOne(Picture!Hit(q, Picture!LandscapeTargets))
    BY <2>1, LandscapeTargetsApart, Zenon DEF Picture!AtMostOne
  <2>5. Picture!Buttons(p, o, f) = {} \/ Picture!Actions(p, "Game", o, f) = {}
    BY <1>6, <2>1, <2>2, <2>3, TurnedKeys, ActionsLieApart, Zenon
  <2>6. Picture!OneHold(Picture!Buttons(p, o, f))
    BY <1>6, <2>1, <2>2, TurnedKeys, Zenon
  <2>7. Picture!AtMostOne(Picture!Actions(p, "Game", o, f))
    BY <2>3, <2>4, Zenon
  <2> QED
    BY <1>3, <2>5, <2>6, <2>7, Zenon
<1> QED
  BY <1>4, <1>5, <1>6, Zenon


(* The touch that lies on a point of the picture is one on that point.       *)
LEMMA RoundTrip ==
  ASSUME NEW p \in [x : Int, y : Int], NEW o \in Picture!Orientations
  PROVE  /\ o = "portrait" => Picture!TouchOn(Picture!PanelPoint(p, o)) = p
         /\ o # "portrait" => Picture!LandscapeTouch(Picture!TouchOn(Picture!PanelPoint(p, o)), o) = p
<1>1. "portrait" # "landscape" /\ "portrait" # "reverse" /\ "landscape" # "reverse"
  OBVIOUS
<1>2. p = [x |-> p.x, y |-> p.y] /\ p.x \in Int /\ p.y \in Int
  OBVIOUS
<1>3. CASE o = "portrait"
  <2>1. Picture!PanelPoint(p, o) = Picture!At(p.y, 539 - p.x)
    BY <1>1, <1>3, Zenon DEF Picture!PanelPoint
  <2>2. Picture!TouchOn(Picture!PanelPoint(p, o)) = [x |-> 539 - (539 - p.x), y |-> p.y]
    BY <2>1 DEF Picture!TouchOn, Picture!At
  <2>3. 539 - (539 - p.x) = p.x
    BY <1>2
  <2> QED
    BY <1>2, <1>3, <2>2, <2>3, Zenon
<1>4. CASE o = "landscape"
  <2>1. Picture!PanelPoint(p, o) = p
    BY <1>1, <1>4, Zenon DEF Picture!PanelPoint
  <2>2. Picture!TouchOn(p) = [x |-> 539 - p.y, y |-> p.x]
    BY DEF Picture!TouchOn, Picture!At
  <2>3. \A q : Picture!LandscapeTouch(q, o) = [x |-> q.y, y |-> 539 - q.x]
    BY <1>1, <1>4, Zenon DEF Picture!LandscapeTouch, Picture!At
  <2>4. Picture!LandscapeTouch(Picture!TouchOn(p), o) = [x |-> p.x, y |-> 539 - (539 - p.y)]
    BY <2>2, <2>3
  <2>5. 539 - (539 - p.y) = p.y
    BY <1>2
  <2> QED
    BY <1>1, <1>2, <1>4, <2>1, <2>4, <2>5, Zenon
<1>5. CASE o = "reverse"
  <2>1. Picture!PanelPoint(p, o) = Picture!At(959 - p.x, 539 - p.y)
    BY <1>1, <1>5, Zenon DEF Picture!PanelPoint
  <2>2. Picture!TouchOn(Picture!PanelPoint(p, o)) = [x |-> 539 - (539 - p.y), y |-> 959 - p.x]
    BY <2>1 DEF Picture!TouchOn, Picture!At
  <2>3. \A q : Picture!LandscapeTouch(q, o) = [x |-> 959 - q.y, y |-> 539 - (539 - q.x)]
    BY <1>1, <1>5, Zenon DEF Picture!LandscapeTouch, Picture!At
  <2> DEFINE u == 959 - (959 - p.x)
             v == 539 - (539 - (539 - (539 - p.y)))
  <2>4. Picture!LandscapeTouch(Picture!TouchOn(Picture!PanelPoint(p, o)), o) = [x |-> u, y |-> v]
    BY <2>2, <2>3
  <2>5. u = p.x /\ v = p.y
    BY <1>2
  <2> HIDE DEF u, v
  <2>6. Picture!LandscapeTouch(Picture!TouchOn(Picture!PanelPoint(p, o)), o) = p
    BY <1>2, <2>4, <2>5, Zenon
  <2> QED
    BY <1>1, <1>5, <2>6, Zenon
<1>6. o = "portrait" \/ o = "landscape" \/ o = "reverse"
  BY DEF Picture!Orientations
<1> QED
  BY <1>3, <1>4, <1>5, <1>6, Zenon

(* The middle of what is drawn for a control is a point of that control.     *)
LEMMA UprightAnswers ==
  ASSUME NEW key \in Picture!ControlKeys, NEW o, o = "portrait", NEW p, p = Picture!Centre(Picture!Highlight(key, o))
  PROVE  key \in KeysIn(p, Picture!Layout(o)) /\ p \in [x : Int, y : Int]
<1>0. Picture!Layout(o)
        = [dpad |-> Picture!At(142, 702), reach |-> 116, a |-> Picture!At(438, 646), b |-> Picture!At(354, 720),
           radius |-> 52,
           select |-> Picture!Rect(160, 842, 92, 30), start |-> Picture!Rect(288, 842, 92, 30)]
  BY DEF Picture!Layout
<1>3. CASE key = "up"
  <2>1. Picture!Highlight("up", o) = Picture!Rect(119, 616, 46, 52)
    BY DrawnUpright
  <2>2. p = Picture!At(142, 642)
    BY <1>3, <2>1 DEF Picture!Centre, Picture!Square, Picture!At, Picture!Rect
  <2> QED
    BY <1>0, <1>3, <2>2 DEF KeysIn, Picture!InCircle, Picture!InRect, Picture!Directions, Picture!At, Picture!Rect
<1>4. CASE key = "down"
  <2>1. Picture!Highlight("down", o) = Picture!Rect(119, 736, 46, 52)
    BY DrawnUpright
  <2>2. p = Picture!At(142, 762)
    BY <1>4, <2>1 DEF Picture!Centre, Picture!Square, Picture!At, Picture!Rect
  <2> QED
    BY <1>0, <1>4, <2>2 DEF KeysIn, Picture!InCircle, Picture!InRect, Picture!Directions, Picture!At, Picture!Rect
<1>5. CASE key = "left"
  <2>1. Picture!Highlight("left", o) = Picture!Rect(56, 679, 52, 46)
    BY DrawnUpright
  <2>2. p = Picture!At(82, 702)
    BY <1>5, <2>1 DEF Picture!Centre, Picture!Square, Picture!At, Picture!Rect
  <2> QED
    BY <1>0, <1>5, <2>2 DEF KeysIn, Picture!InCircle, Picture!InRect, Picture!Directions, Picture!At, Picture!Rect
<1>6. CASE key = "right"
  <2>1. Picture!Highlight("right", o) = Picture!Rect(176, 679, 52, 46)
    BY DrawnUpright
  <2>2. p = Picture!At(202, 702)
    BY <1>6, <2>1 DEF Picture!Centre, Picture!Square, Picture!At, Picture!Rect
  <2> QED
    BY <1>0, <1>6, <2>2 DEF KeysIn, Picture!InCircle, Picture!InRect, Picture!Directions, Picture!At, Picture!Rect
<1>7. CASE key = "a"
  <2>1. Picture!Highlight("a", o) = Picture!Square(Picture!At(438, 646), 31)
    BY DrawnUpright
  <2>2. p = Picture!At(438, 646)
    BY <1>7, <2>1 DEF Picture!Centre, Picture!Square, Picture!At, Picture!Rect
  <2> QED
    BY <1>0, <1>7, <2>2 DEF KeysIn, Picture!InCircle, Picture!InRect, Picture!Directions, Picture!At, Picture!Rect
<1>8. CASE key = "b"
  <2>1. Picture!Highlight("b", o) = Picture!Square(Picture!At(354, 720), 31)
    BY DrawnUpright
  <2>2. p = Picture!At(354, 720)
    BY <1>8, <2>1 DEF Picture!Centre, Picture!Square, Picture!At, Picture!Rect
  <2> QED
    BY <1>0, <1>8, <2>2 DEF KeysIn, Picture!InCircle, Picture!InRect, Picture!Directions, Picture!At, Picture!Rect
<1>9. CASE key = "start"
  <2>1. Picture!Highlight("start", o) = Picture!Rect(288, 842, 92, 30)
    BY DrawnUpright
  <2>2. p = Picture!At(334, 857)
    BY <1>9, <2>1 DEF Picture!Centre, Picture!Square, Picture!At, Picture!Rect
  <2> QED
    BY <1>0, <1>9, <2>2 DEF KeysIn, Picture!InCircle, Picture!InRect, Picture!Directions, Picture!At, Picture!Rect
<1>10. CASE key = "select"
  <2>1. Picture!Highlight("select", o) = Picture!Rect(160, 842, 92, 30)
    BY DrawnUpright
  <2>2. p = Picture!At(206, 857)
    BY <1>10, <2>1 DEF Picture!Centre, Picture!Square, Picture!At, Picture!Rect
  <2> QED
    BY <1>0, <1>10, <2>2 DEF KeysIn, Picture!InCircle, Picture!InRect, Picture!Directions, Picture!At, Picture!Rect
<1> QED
  BY <1>3, <1>4, <1>5, <1>6, <1>7, <1>8, <1>9, <1>10 DEF Picture!ControlKeys

LEMMA TurnedAnswers ==
  ASSUME NEW key \in Picture!ControlKeys, NEW o, o # "portrait", NEW p, p = Picture!Centre(Picture!Highlight(key, o))
  PROVE  key \in KeysIn(p, Picture!Layout(o)) /\ p \in [x : Int, y : Int]
<1>0. Picture!Layout(o)
        = [dpad |-> Picture!At(116, 270), reach |-> 104, a |-> Picture!At(864, 230), b |-> Picture!At(788, 326),
           radius |-> 48,
           select |-> Picture!Rect(40, 432, 144, 46), start |-> Picture!Rect(776, 432, 144, 46)]
  BY DEF Picture!Layout
<1>3. CASE key = "up"
  <2>1. Picture!Highlight("up", o) = Picture!Square(Picture!At(116, 192), 10)
    BY DrawnTurned
  <2>2. p = Picture!At(116, 192)
    BY <1>3, <2>1 DEF Picture!Centre, Picture!Square, Picture!At, Picture!Rect
  <2> QED
    BY <1>0, <1>3, <2>2 DEF KeysIn, Picture!InCircle, Picture!InRect, Picture!Directions, Picture!At, Picture!Rect
<1>4. CASE key = "down"
  <2>1. Picture!Highlight("down", o) = Picture!Square(Picture!At(116, 348), 10)
    BY DrawnTurned
  <2>2. p = Picture!At(116, 348)
    BY <1>4, <2>1 DEF Picture!Centre, Picture!Square, Picture!At, Picture!Rect
  <2> QED
    BY <1>0, <1>4, <2>2 DEF KeysIn, Picture!InCircle, Picture!InRect, Picture!Directions, Picture!At, Picture!Rect
<1>5. CASE key = "left"
  <2>1. Picture!Highlight("left", o) = Picture!Square(Picture!At(38, 270), 10)
    BY DrawnTurned
  <2>2. p = Picture!At(38, 270)
    BY <1>5, <2>1 DEF Picture!Centre, Picture!Square, Picture!At, Picture!Rect
  <2> QED
    BY <1>0, <1>5, <2>2 DEF KeysIn, Picture!InCircle, Picture!InRect, Picture!Directions, Picture!At, Picture!Rect
<1>6. CASE key = "right"
  <2>1. Picture!Highlight("right", o) = Picture!Square(Picture!At(194, 270), 10)
    BY DrawnTurned
  <2>2. p = Picture!At(194, 270)
    BY <1>6, <2>1 DEF Picture!Centre, Picture!Square, Picture!At, Picture!Rect
  <2> QED
    BY <1>0, <1>6, <2>2 DEF KeysIn, Picture!InCircle, Picture!InRect, Picture!Directions, Picture!At, Picture!Rect
<1>7. CASE key = "a"
  <2>1. Picture!Highlight("a", o) = Picture!Square(Picture!At(864, 230), 30)
    BY DrawnTurned
  <2>2. p = Picture!At(864, 230)
    BY <1>7, <2>1 DEF Picture!Centre, Picture!Square, Picture!At, Picture!Rect
  <2> QED
    BY <1>0, <1>7, <2>2 DEF KeysIn, Picture!InCircle, Picture!InRect, Picture!Directions, Picture!At, Picture!Rect
<1>8. CASE key = "b"
  <2>1. Picture!Highlight("b", o) = Picture!Square(Picture!At(788, 326), 30)
    BY DrawnTurned
  <2>2. p = Picture!At(788, 326)
    BY <1>8, <2>1 DEF Picture!Centre, Picture!Square, Picture!At, Picture!Rect
  <2> QED
    BY <1>0, <1>8, <2>2 DEF KeysIn, Picture!InCircle, Picture!InRect, Picture!Directions, Picture!At, Picture!Rect
<1>9. CASE key = "start"
  <2>1. Picture!Highlight("start", o) = Picture!Rect(776, 432, 144, 46)
    BY DrawnTurned
  <2>2. p = Picture!At(848, 455)
    BY <1>9, <2>1 DEF Picture!Centre, Picture!Square, Picture!At, Picture!Rect
  <2> QED
    BY <1>0, <1>9, <2>2 DEF KeysIn, Picture!InCircle, Picture!InRect, Picture!Directions, Picture!At, Picture!Rect
<1>10. CASE key = "select"
  <2>1. Picture!Highlight("select", o) = Picture!Rect(40, 432, 144, 46)
    BY DrawnTurned
  <2>2. p = Picture!At(112, 455)
    BY <1>10, <2>1 DEF Picture!Centre, Picture!Square, Picture!At, Picture!Rect
  <2> QED
    BY <1>0, <1>10, <2>2 DEF KeysIn, Picture!InCircle, Picture!InRect, Picture!Directions, Picture!At, Picture!Rect
<1> QED
  BY <1>3, <1>4, <1>5, <1>6, <1>7, <1>8, <1>9, <1>10 DEF Picture!ControlKeys

(* The corners of a caption or box are touches of its action.                *)
LEMMA CaptionsAnswer ==
  ASSUME NEW action \in DOMAIN Picture!DrawnActions, NEW p \in Picture!Corners(Picture!DrawnActions[action])
  PROVE  p \in [x : Int, y : Int] /\ action \in Picture!Hit(p, Picture!GameTargets)
<1> DEFINE names == {"rotate", "power", "save", "load", "settings", "light_down", "light_up"}
<1>1. DOMAIN Picture!GameTargets = names /\ DOMAIN Picture!DrawnActions = names
  BY DEF Picture!DrawnActions, Picture!GameTargets
<1>2. /\ Picture!GameTargets["rotate"] = Picture!Rect(24, 534, 150, 40)
      /\ Picture!GameTargets["settings"] = Picture!Rect(320, 876, 220, 80)
      /\ Picture!GameTargets["light_down"] = Picture!Rect(344, 534, 72, 40)
      /\ Picture!GameTargets["light_up"] = Picture!Rect(432, 534, 76, 40)
      /\ Picture!DrawnActions["rotate"] = Picture!Rect(40, 546, 70, 14)
      /\ Picture!DrawnActions["settings"] = Picture!Rect(390, 902, 130, 42)
      /\ Picture!DrawnActions["light_down"] = Picture!Rect(374, 550, 10, 14)
      /\ Picture!DrawnActions["light_up"] = Picture!Rect(466, 550, 10, 14)
  BY DEF Picture!DrawnActions, Picture!GameTargets
<1>3. /\ Picture!GameTargets["power"] = Picture!Rect(20, 20, 280, 42)
      /\ Picture!GameTargets["save"] = Picture!Rect(316, 20, 94, 42)
      /\ Picture!GameTargets["load"] = Picture!Rect(420, 20, 100, 42)
      /\ Picture!DrawnActions["power"] = Picture!Rect(20, 20, 280, 42)
      /\ Picture!DrawnActions["save"] = Picture!Rect(316, 20, 94, 42)
      /\ Picture!DrawnActions["load"] = Picture!Rect(420, 20, 100, 42)
  BY DEF Picture!DrawnActions, Picture!GameTargets
<1> DEFINE r == Picture!DrawnActions[action]
           t == Picture!GameTargets[action]
<1>4. /\ r.x \in Int /\ r.y \in Int /\ r.width \in Nat \ {0} /\ r.height \in Nat \ {0}
      /\ t.x \in Int /\ t.y \in Int /\ t.width \in Nat /\ t.height \in Nat
      /\ t.x <= r.x /\ r.x + r.width <= t.x + t.width
      /\ t.y <= r.y /\ r.y + r.height <= t.y + t.height
  BY <1>1, <1>2, <1>3 DEF Picture!Rect
<1>5. p \in Picture!Corners(r)
  OBVIOUS
<1> HIDE DEF r, t
<1>6. /\ p \in [x : Int, y : Int]
      /\ p.x \in {r.x, (r.x + r.width) - 1} /\ p.y \in {r.y, (r.y + r.height) - 1}
  BY <1>4, <1>5 DEF Picture!Corners
<1>7. \A a, b, c, d, n \in Int :
        (b > 0 /\ c <= a /\ a + b <= c + d /\ n \in {a, (a + b) - 1}) => n \in c..(c + d - 1)
  OBVIOUS
<1>8. p.x \in t.x .. (t.x + t.width - 1) /\ p.y \in t.y .. (t.y + t.height - 1)
  <2>1. /\ r.x \in Int /\ r.y \in Int /\ r.width \in Int /\ r.height \in Int /\ t.x \in Int
        /\ t.y \in Int /\ t.width \in Int /\ t.height \in Int /\ p.x \in Int /\ p.y \in Int
        /\ r.width > 0 /\ r.height > 0
    BY <1>4, <1>6
  <2> QED
    BY <1>4, <1>6, <1>7, <2>1, Zenon
<1>9. p \in [x : Int, y : Int] /\ Picture!InRect(p, t)
  BY <1>6, <1>8, Zenon DEF Picture!InRect
<1> QED
  BY <1>1, <1>9 DEF t, Picture!Hit

LEMMA TargetsAnswer ==
  ASSUME NEW action \in DOMAIN Picture!LandscapeTargets,
         NEW p \in Picture!Corners(Picture!LandscapeTargets[action])
  PROVE  p \in [x : Int, y : Int] /\ action \in Picture!Hit(p, Picture!LandscapeTargets)
<1> DEFINE t == Picture!LandscapeTargets[action]
<1>1. t.x \in Int /\ t.y \in Int /\ t.width \in Nat \ {0} /\ t.height \in Nat \ {0}
  BY DEF Picture!LandscapeTargets, Picture!Rect
<1>2. p \in Picture!Corners(t)
  OBVIOUS
<1> HIDE DEF t
<1>3. p \in [x : Int, y : Int] /\ Picture!InRect(p, t)
  BY <1>1, <1>2 DEF Picture!InRect, Picture!Corners
<1> QED
  BY <1>3 DEF t, Picture!Hit

LEMMA EveryControlAnswers == Picture!ControlsAnswer
<1>1. ASSUME NEW key \in Picture!ControlKeys, NEW o \in Picture!Orientations
      PROVE  key \in Picture!Buttons(Picture!TouchOn(Picture!PanelPoint(Picture!Centre(Picture!Highlight(key, o)), o)), o, FALSE)
  <2> DEFINE p == Picture!Centre(Picture!Highlight(key, o))
             q == Picture!TouchOn(Picture!PanelPoint(p, o))
  <2>1. key \in KeysIn(p, Picture!Layout(o)) /\ p \in [x : Int, y : Int]
    BY UprightAnswers, TurnedAnswers, Zenon
  <2> HIDE DEF p
  <2>2. CASE o = "portrait"
    <3>1. q = p
      BY <2>1, <2>2, RoundTrip, Zenon
    <3>2. Picture!Buttons(q, o, FALSE) = KeysIn(q, Picture!Layout(o))
      BY <2>2, KeysHeld, Zenon
    <3> QED
      BY <2>1, <3>1, <3>2, Zenon DEF p
  <2>3. CASE o # "portrait"
    <3>1. Picture!LandscapeTouch(q, o) = p
      BY <2>1, <2>3, RoundTrip, Zenon
    <3>2. Picture!Buttons(q, o, FALSE) = KeysIn(Picture!LandscapeTouch(q, o), Picture!Layout(o))
      BY <2>3, KeysHeld, Zenon
    <3> QED
      BY <2>1, <3>1, <3>2, Zenon DEF p
  <2> QED
    BY <2>2, <2>3
<1>2. ASSUME NEW action \in DOMAIN Picture!DrawnActions, NEW p \in Picture!Corners(Picture!DrawnActions[action])
      PROVE  Picture!Actions(p, "Game", "portrait", FALSE) = {action}
  <2>1. Picture!Actions(p, "Game", "portrait", FALSE) = Picture!Hit(p, Picture!GameTargets)
    BY Zenon DEF Picture!Actions
  <2>2. p \in [x : Int, y : Int] /\ action \in Picture!Hit(p, Picture!GameTargets)
    BY <1>2, CaptionsAnswer, Zenon
  <2>3. \A b \in Picture!Hit(p, Picture!GameTargets) : b = action
    BY <2>2, GameTargetsApart, Zenon
  <2> QED
    BY <2>1, <2>2, <2>3, Zenon
<1>3. ASSUME NEW action \in DOMAIN Picture!LandscapeTargets, NEW o \in Picture!Turned,
             NEW p \in Picture!Corners(Picture!LandscapeTargets[action])
      PROVE  Picture!Actions(Picture!TouchOn(Picture!PanelPoint(p, o)), "Game", o, FALSE) = {action}
  <2> DEFINE q == Picture!TouchOn(Picture!PanelPoint(p, o))
  <2>1. o \in Picture!Orientations /\ o # "portrait"
    BY DEF Picture!Turned
  <2>2. p \in [x : Int, y : Int] /\ action \in Picture!Hit(p, Picture!LandscapeTargets)
    BY <1>3, TargetsAnswer, Zenon
  <2>3. Picture!LandscapeTouch(q, o) = p
    BY <2>1, <2>2, RoundTrip, Zenon
  <2>4. Picture!Actions(q, "Game", o, FALSE) = Picture!Hit(Picture!LandscapeTouch(q, o), Picture!LandscapeTargets)
    BY <2>1, Zenon DEF Picture!Actions
  <2>5. \A b \in Picture!Hit(p, Picture!LandscapeTargets) : b = action
    BY <2>2, LandscapeTargetsApart, Zenon
  <2> HIDE DEF q
  <2>6. Picture!Actions(q, "Game", o, FALSE) = {action}
    BY <2>2, <2>3, <2>4, <2>5, Zenon
  <2> QED
    BY <2>6 DEF q
<1> QED
  BY <1>1, <1>2, <1>3, Zenon DEF Picture!ControlsAnswer

(* What the four places of the source that know where a control is owe each  *)
(* other, at every point of the screen and for every set of controls that    *)
(* changed: rows sent (paperboy_touch_dirty_rows), rotations, targets and     *)
(* what is drawn (paperboy_ui.cpp, paperboy_landscape.cpp).                   *)
THEOREM GeometryIsOne == Picture!GeometryAgrees(Picture!Screen)
<1>1. Picture!TouchesLieUnderTheFinger(Picture!Screen)
  BY TouchLiesUnderTheFinger, Zenon DEF Picture!TouchesLieUnderTheFinger, Picture!Turned
<1>2. Picture!OneMeaning(Picture!Screen)
  BY FingersMeanOneThing, Zenon DEF Picture!OneMeaning
<1> QED
  BY <1>1, <1>2, RowsAreSent, EveryControlAnswers, Zenon DEF Picture!GeometryAgrees

(* ... which is what the run asks at every fifth one: rows, rotations and     *)
(* touches agree with the picture while the console is on.                   *)
THEOREM TouchAgrees == Spec => []TouchAgreesWithPicture
<1>1. Spots \subseteq Picture!Screen
  BY DEF Spots, Every, Picture!Screen
<1>2. \A p \in Spots : p \in Picture!Screen
  BY <1>1
<1>3. Picture!TouchesLieUnderTheFinger(Spots)
  BY <1>2, GeometryIsOne, Zenon DEF Picture!GeometryAgrees, Picture!TouchesLieUnderTheFinger
<1>4. Picture!OneMeaning(Spots)
  BY <1>2, GeometryIsOne, Zenon DEF Picture!GeometryAgrees, Picture!OneMeaning
<1>5. AgreesOnSpots
  BY <1>3, <1>4, GeometryIsOne, Zenon DEF Picture!GeometryAgrees, AgreesOnSpots
<1>6. TouchAgreesWithPicture
  BY <1>5 DEF TouchAgreesWithPicture
<1> QED
  BY <1>6, PTL
=============================================================================
