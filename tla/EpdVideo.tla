------------------------------ MODULE EpdVideo ------------------------------
(***************************************************************************)
(* epd_video.cpp: the double-buffered e-paper driver.  A scan task drives  *)
(* the panel row by row from the front buffer, Passes pulses per pixel,    *)
(* while its one client fills the other buffer and queues it with submit   *)
(* or flip.  This module has the driver's state, the scan task and the     *)
(* calls; PanelClient has the client that makes them.                      *)
(*                                                                         *)
(* A row of the panel is one pixel here: pixels are driven independently   *)
(* of each other, and a row is active as long as any of them is.           *)
(***************************************************************************)
EXTENDS Integers

CONSTANTS
  Height,           \* t5s3_epd::kActiveHeight
  Passes,           \* kVideoDrivePasses
  TransmitMayFail   \* may esp_lcd_panel_io_tx_color report an error?

ASSUME HeightAssumption == Height \in Nat \ {0}
ASSUME PassesAssumption == Passes \in Nat \ {0}
ASSUME TransmitAssumption == TransmitMayFail \in BOOLEAN

VARIABLES
  buffers,        \* g_buffers: two images
  front_index,    \* g_front_index
  flip_req,       \* g_flip_req: a buffer is queued and not yet in front
  drive_pending,  \* g_drive_pending
  flip_waiter,    \* g_flip_waiter # nullptr
  notified,       \* the client's task notification
  pending_dirty,  \* rows g_pending_dirty_start .. g_pending_dirty_end
  submitted,      \* g_submit_count # 0
  vsync_due,      \* frames until g_vsync_count reaches the client's target
  running,        \* g_running
  row_active,     \* g_row_active
  state_buffer,   \* g_state_buffer: direction and pulse counter of each row
  panel,          \* the panel itself: the last pulses each row received
  scan_pc,        \* where the scan task is: "frame", "rows", "tail", "gone"
  scan_row,       \* its local scan_row
  scan_front,     \* its local front_index
  applied_flip,   \* its local applied_flip: this frame is the first of a buffer
  continuing      \* its local continuing_rows # 0

Rows == 0 .. Height - 1
Pixels == {0, 1}
Images == [Rows -> Pixels]
Blank(pixel) == [r \in Rows |-> pixel]
Drives == [dir: Pixels, passes: 0 .. Passes]

queue == <<front_index, flip_req, flip_waiter, notified, pending_dirty, submitted, vsync_due>>
rows == <<row_active, state_buffer, panel>>
scan == <<scan_pc, scan_row, scan_front, applied_flip, continuing>>
driver == <<buffers, queue, drive_pending, running, rows, scan>>

\* After epd_video_power_on and epd_video_start.
VideoInit ==
  /\ buffers = [b \in 0 .. 1 |-> Blank(1)]
  /\ front_index = 0
  /\ flip_req = FALSE
  /\ drive_pending = FALSE
  /\ flip_waiter = FALSE
  /\ notified = FALSE
  /\ pending_dirty = Rows
  /\ submitted = FALSE
  /\ vsync_due = 0
  /\ running = TRUE
  /\ row_active = [r \in Rows |-> FALSE]
  /\ state_buffer = [r \in Rows |-> [dir |-> 0, passes |-> 0]]
  /\ panel = [r \in Rows |-> [dir |-> 0, passes |-> 0]]
  /\ scan_pc = "frame"
  /\ scan_row = 0
  /\ scan_front = 0
  /\ applied_flip = FALSE
  /\ continuing = FALSE

-----------------------------------------------------------------------------
(* The scan task.                                                          *)

\* The pulses a pixel has had in the direction it is driven in now.
Pulses(drive, pixel) == IF drive.dir = pixel THEN drive.passes ELSE 0

\* build_active_row: a pixel whose direction changed starts its pulses anew,
\* one that has had all of them is left alone.
Driven(drive, pixel) ==
  [dir |-> pixel,
   passes |-> IF Pulses(drive, pixel) < Passes THEN Pulses(drive, pixel) + 1 ELSE Passes]

\* The panel's side of it (external): a pulse in the other direction undoes
\* what the pixel had, no pulse leaves it as it is.
Pulsed(drive, pixel) ==
  IF drive.dir # pixel THEN [dir |-> pixel, passes |-> 1]
  ELSE [drive EXCEPT !.passes = IF drive.passes < Passes THEN drive.passes + 1 ELSE Passes]

\* Start of a frame: under g_buffer_lock a queued buffer becomes the front
\* one, then its dirty rows are marked and the waiting client is notified.
StartFrame(marked, told) ==
  /\ scan_pc = "frame" /\ running
  /\ front_index' = IF flip_req THEN 1 - front_index ELSE front_index
  /\ scan_front' = front_index'
  /\ applied_flip' = flip_req
  /\ row_active' = [r \in Rows |-> row_active[r] \/ (flip_req /\ r \in marked)]
  /\ notified' = (notified \/ (flip_req /\ told))
  /\ flip_waiter' = (flip_waiter /\ ~flip_req)
  /\ flip_req' = FALSE
  /\ submitted' = (submitted \/ flip_req)
  /\ vsync_due' = IF vsync_due > 0 THEN vsync_due - 1 ELSE 0
  /\ scan_pc' = "rows"
  /\ scan_row' = 0
  /\ continuing' = FALSE
  /\ UNCHANGED <<buffers, drive_pending, pending_dirty, running, state_buffer, panel>>

SwapWithoutNotifying == StartFrame(pending_dirty, FALSE)  \* mutant: the client is not told
SwapBuffers == StartFrame(pending_dirty, flip_waiter)

\* prepare_scan_row and send_row.  The state of the row is advanced before it
\* is sent; when the transmission fails the task ends.
ScanRow ==
  /\ scan_pc = "rows" /\ scan_row < Height
  /\ IF row_active[scan_row]
       THEN LET pixel == buffers[scan_front][scan_row]
                next == Driven(state_buffer[scan_row], pixel)
            IN /\ state_buffer' = [state_buffer EXCEPT ![scan_row] = next]
               /\ row_active' = [row_active EXCEPT ![scan_row] = next.passes < Passes]
               /\ continuing' = (continuing \/ next.passes < Passes)
       ELSE UNCHANGED <<state_buffer, row_active, continuing>>
  /\ \/ /\ panel' = IF /\ row_active[scan_row]
                       /\ Pulses(state_buffer[scan_row], buffers[scan_front][scan_row]) < Passes
                      THEN [panel EXCEPT ![scan_row] = Pulsed(@, buffers[scan_front][scan_row])]
                      ELSE panel
        /\ scan_row' = scan_row + 1
        /\ UNCHANGED <<running, scan_pc>>
     \/ /\ TransmitMayFail
        /\ running' = FALSE
        /\ scan_pc' = "gone"
        /\ UNCHANGED <<panel, scan_row>>
  /\ UNCHANGED <<buffers, queue, drive_pending, scan_front, applied_flip>>

\* After the last row: a shutdown ends the task, else a blank row is sent.
EndRows ==
  /\ scan_pc = "rows" /\ scan_row = Height
  /\ \/ /\ running
        /\ scan_pc' = "tail"
        /\ UNCHANGED running
     \/ /\ ~running \/ TransmitMayFail
        /\ running' = FALSE
        /\ scan_pc' = "gone"
  /\ UNCHANGED <<buffers, queue, drive_pending, rows, scan_row, scan_front, applied_flip, continuing>>

\* Mutant: a submit that arrived during the scan is forgotten.
EndFrameIgnoringQueue ==
  /\ scan_pc = "tail"
  /\ drive_pending' = continuing
  /\ scan_pc' = "frame"
  /\ UNCHANGED <<buffers, queue, running, rows, scan_row, scan_front, applied_flip, continuing>>

\* End of a frame: g_drive_pending is recomputed under the lock.
EndFrame ==
  /\ scan_pc = "tail"
  /\ drive_pending' = (continuing \/ flip_req)
  /\ scan_pc' = "frame"
  /\ UNCHANGED <<buffers, queue, running, rows, scan_row, scan_front, applied_flip, continuing>>

\* The loop test of scan_task.
StopScan ==
  /\ scan_pc = "frame" /\ ~running
  /\ scan_pc' = "gone"
  /\ UNCHANGED <<buffers, queue, drive_pending, running, rows, scan_row, scan_front,
                 applied_flip, continuing>>

Scan == SwapBuffers \/ ScanRow \/ EndRows \/ EndFrame \/ StopScan

-----------------------------------------------------------------------------
(* The calls, as steps of the client.                                      *)

SubmitPending == flip_req \/ drive_pending
CanSubmitWhileQueued == running  \* mutant: g_flip_req is not looked at
CanSubmit == running /\ ~flip_req
Backbuffer == 1 - front_index

\* Queueing under the lock, by epd_video_submit and epd_video_flip.
Queue(dirty, waits) ==
  /\ pending_dirty' = dirty
  /\ flip_waiter' = waits
  /\ flip_req' = TRUE
  /\ drive_pending' = TRUE
  /\ UNCHANGED <<buffers, front_index, submitted, vsync_due, running, rows, scan>>

\* epd_video_submit; its result says whether the frame was taken.
Submit(dirty, accepted) ==
  /\ accepted = CanSubmit
  /\ IF accepted THEN Queue(dirty, FALSE) /\ UNCHANGED notified
                 ELSE UNCHANGED driver

\* epd_video_shutdown up to the wait for the scan task.
ClearQueue ==
  /\ flip_req' = FALSE
  /\ notified' = (notified \/ flip_waiter)
  /\ flip_waiter' = FALSE
  /\ UNCHANGED <<buffers, front_index, pending_dirty, submitted, vsync_due, drive_pending,
                 running, rows, scan>>
=============================================================================
