---------------------------- MODULE PanelClient ----------------------------
(***************************************************************************)
(* The one client of EpdVideo: the panel procedures of main.cpp, run by    *)
(* setup() and then by run_console.  "startup" clears the panel and shows  *)
(* the first page, "play" is the console loop queueing frames, "refresh"   *)
(* redraws the page on both buffers and "power_off" shows the shutdown     *)
(* page and ends the driver.                                               *)
(***************************************************************************)
EXTENDS EpdVideo

CONSTANTS
  Clears,    \* frames of a white - black - white clear
  Hold,      \* kClearWhiteFrames, kClearBlackFrames
  Copies     \* kPanelBufferCount

ASSUME ClearsAssumption == Clears \in Nat \ {0}
ASSUME HoldAssumption == Hold \in Nat
ASSUME CopiesAssumption == Copies \in Nat \ {0}

VARIABLES
  pc,       \* the client's next step
  job,      \* "startup", "play", "refresh" or "power_off"
  count,    \* clear frames or copies of the page already queued
  back,     \* the buffer epd_video_get_backbuffer returned
  image,    \* what is being composed into it
  dirty     \* the rows it will be queued with

client == <<pc, job, count, back, image, dirty>>
vars == <<driver, client>>

ClearColor(n) == IF n % 2 = 0 THEN 0 ELSE 1

Init ==
  /\ VideoInit
  /\ pc = "clear"
  /\ job = "startup"
  /\ count = 0
  /\ back = 1
  /\ image = Blank(0)
  /\ dirty = Rows

\* epd_video_get_backbuffer, then the composing of an image into it begins.
Compose(picture, region, label) ==
  /\ back' = Backbuffer
  /\ image' = picture
  /\ dirty' = region
  /\ pc' = label

\* The last byte of the image is in the buffer.
Write == buffers' = [buffers EXCEPT ![back] = image]

-----------------------------------------------------------------------------
(* submit_clear_frame, and the first page of run_console: both use flip.   *)

Clear ==
  /\ pc = "clear"
  /\ Compose(Blank(ClearColor(count)), Rows, "flip_write")
  /\ UNCHANGED <<driver, job, count>>

FirstPage ==
  /\ pc = "page" /\ job = "startup"
  /\ \E picture \in Images : Compose(picture, Rows, "flip_write")
  /\ UNCHANGED <<driver, job, count>>

\* epd_video_flip first looks at g_running, without the lock, and returns at
\* once when the scan task is gone.
FlipWrite ==
  /\ pc = "flip_write"
  /\ Write
  /\ pc' = IF running THEN "flip" ELSE "flipped"
  /\ UNCHANGED <<queue, drive_pending, running, rows, scan, job, count, back, image, dirty>>

Flip ==
  /\ pc = "flip"
  /\ Queue(dirty, TRUE)
  /\ notified' = FALSE
  /\ pc' = "flip_wait"
  /\ UNCHANGED <<job, count, back, image, dirty>>

\* ulTaskNotifyTake(pdTRUE, portMAX_DELAY)
FlipReturns ==
  /\ pc = "flip_wait" /\ notified
  /\ notified' = FALSE
  /\ pc' = "flipped"
  /\ UNCHANGED <<buffers, front_index, flip_req, flip_waiter, pending_dirty, submitted, vsync_due>>
  /\ UNCHANGED <<drive_pending, running, rows, scan, job, count, back, image, dirty>>

ClearsLeft == count < Clears

\* Mutant: one frame of the hold is lost.
HoldTooShort ==
  /\ pc = "flipped" /\ ClearsLeft
  /\ vsync_due' = Hold - 1
  /\ pc' = "hold"
  /\ UNCHANGED <<buffers, front_index, flip_req, flip_waiter, notified, pending_dirty, submitted>>
  /\ UNCHANGED <<drive_pending, running, rows, scan, job, count, back, image, dirty>>

\* wait_vsync_frames
HoldClear ==
  /\ pc = "flipped" /\ ClearsLeft
  /\ vsync_due' = Hold
  /\ pc' = "hold"
  /\ UNCHANGED <<buffers, front_index, flip_req, flip_waiter, notified, pending_dirty, submitted>>
  /\ UNCHANGED <<drive_pending, running, rows, scan, job, count, back, image, dirty>>

ClearHeld ==
  /\ pc = "hold" /\ vsync_due = 0
  /\ count' = count + 1
  /\ pc' = IF count + 1 < Clears THEN "clear"
           ELSE IF job = "startup" THEN "page" ELSE "cleaned"
  /\ UNCHANGED <<driver, job, back, image, dirty>>

\* The first page is copied into the other buffer once it is in front.
CopyPage ==
  /\ pc = "flipped" /\ ~ClearsLeft
  /\ Compose(image, dirty, "copy_write")
  /\ UNCHANGED <<driver, job, count>>

CopyWrite ==
  /\ pc = "copy_write"
  /\ Write
  /\ pc' = "play"
  /\ job' = "play"
  /\ UNCHANGED <<queue, drive_pending, running, rows, scan, count, back, image, dirty>>

-----------------------------------------------------------------------------
(* The console loop: one frame after another, when the driver takes them.  *)

\* Frames the loop queues: rows outside the dirty region are those on show.
\* ConsoleDisplay shows that the loop keeps to it.
MayQueue(picture, region) ==
  \A r \in Rows \ region : picture[r] = buffers[front_index][r]

ComposeFrame ==
  /\ pc = "play" /\ CanSubmit
  /\ \E picture \in Images, region \in SUBSET Rows :
       MayQueue(picture, region) /\ Compose(picture, region, "submit_write")
  /\ UNCHANGED <<driver, job, count>>

SubmitWrite ==
  /\ pc = "submit_write"
  /\ Write
  /\ pc' = "submit"
  /\ UNCHANGED <<queue, drive_pending, running, rows, scan, job, count, back, image, dirty>>

\* The loop drops a frame the driver does not take.
SubmitFrame ==
  /\ pc = "submit" /\ job = "play"
  /\ \E accepted \in BOOLEAN : Submit(dirty, accepted)
  /\ pc' = "play"
  /\ UNCHANGED <<job, count, back, image, dirty>>

\* BOOT or a controller asks for a refresh, S3 is held for two seconds.
StartJob(name) ==
  /\ pc = "play"
  /\ job' = name
  /\ count' = 0
  /\ pc' = "wait_clean"
  /\ UNCHANGED <<driver, back, image, dirty>>

Refresh == StartJob("refresh")
PowerOff == StartJob("power_off")

-----------------------------------------------------------------------------
(* clean_panel_white_black_white, refresh_current_page and                 *)
(* present_shutdown_page.                                                  *)

\* wait_epd_idle: returns once neither a flip nor a drive is pending.
WaitIdle(from, to) ==
  /\ pc = from /\ ~SubmitPending
  /\ pc' = to
  /\ UNCHANGED <<driver, job, count, back, image, dirty>>

WaitBeforeClean == WaitIdle("wait_clean", "clear")

Cleaned ==
  /\ pc = "cleaned"
  /\ count' = 0
  /\ pc' = "wait_page"
  /\ UNCHANGED <<driver, job, back, image, dirty>>

WaitBeforePage == WaitIdle("wait_page", "page")

ComposePage ==
  /\ pc = "page" /\ job # "startup"
  /\ \E picture \in IF count = 0 THEN Images ELSE {image} : Compose(picture, Rows, "submit_write")
  /\ UNCHANGED <<driver, job, count>>

\* while (!epd_video_submit(...)) vTaskDelay(1)
SubmitPage ==
  /\ pc = "submit" /\ job # "play"
  /\ Submit(dirty, TRUE)
  /\ count' = count + 1
  /\ pc' = IF count + 1 < Copies THEN "wait_page" ELSE "wait_shown"
  /\ UNCHANGED <<job, back, image, dirty>>

WaitShown == WaitIdle("wait_shown", IF job = "refresh" THEN "refreshed" ELSE "shutdown")

Refreshed ==
  /\ pc = "refreshed"
  /\ job' = "play"
  /\ pc' = "play"
  /\ UNCHANGED <<driver, count, back, image, dirty>>

\* epd_video_shutdown: stop the scan task, drop what is queued, wait for it
\* to end, at most 200 ms.
Shutdown ==
  /\ pc = "shutdown"
  /\ running' = FALSE
  /\ drive_pending' = FALSE
  /\ pc' = "clear_queue"
  /\ UNCHANGED <<buffers, queue, rows, scan, job, count, back, image, dirty>>

ShutdownQueue ==
  /\ pc = "clear_queue"
  /\ ClearQueue
  /\ pc' = "wait_scan"
  /\ UNCHANGED <<job, count, back, image, dirty>>

ShutdownDone ==
  /\ pc = "wait_scan"
  /\ pc' = "off"
  /\ UNCHANGED <<driver, job, count, back, image, dirty>>

-----------------------------------------------------------------------------
Client ==
  \/ Clear \/ FirstPage \/ FlipWrite \/ Flip \/ FlipReturns \/ HoldClear \/ ClearHeld
  \/ CopyPage \/ CopyWrite
  \/ ComposeFrame \/ SubmitWrite \/ SubmitFrame \/ Refresh \/ PowerOff
  \/ WaitBeforeClean \/ Cleaned \/ WaitBeforePage \/ ComposePage \/ SubmitPage
  \/ WaitShown \/ Refreshed \/ Shutdown \/ ShutdownQueue \/ ShutdownDone

ScanTask == Scan /\ UNCHANGED client
Next == ScanTask \/ Client

\* Both tasks run: the scan task has core 1 to itself, the console core 0.
\* In the loop the client may also compose nothing, and holding S3 long
\* enough always ends it.
Spec == Init /\ [][Next]_vars
FairSpec == Spec /\ WF_vars(ScanTask) /\ WF_vars(Client)

-----------------------------------------------------------------------------
ClientLabels == {"clear", "flip_write", "flip", "flip_wait", "flipped", "hold", "copy_write",
                 "page", "play", "submit_write", "submit", "wait_clean", "cleaned", "wait_page",
                 "wait_shown", "refreshed", "shutdown", "clear_queue", "wait_scan", "off"}
Jobs == {"startup", "play", "refresh", "power_off"}

TypeOK ==
  /\ buffers \in [0 .. 1 -> Images]
  /\ front_index \in 0 .. 1
  /\ flip_req \in BOOLEAN
  /\ drive_pending \in BOOLEAN
  /\ flip_waiter \in BOOLEAN
  /\ notified \in BOOLEAN
  /\ pending_dirty \subseteq Rows
  /\ submitted \in BOOLEAN
  /\ vsync_due \in 0 .. Hold
  /\ running \in BOOLEAN
  /\ row_active \in [Rows -> BOOLEAN]
  /\ state_buffer \in [Rows -> Drives]
  /\ panel \in [Rows -> Drives]
  /\ scan_pc \in {"frame", "rows", "tail", "gone"}
  /\ scan_row \in 0 .. Height
  /\ scan_front \in 0 .. 1
  /\ applied_flip \in BOOLEAN
  /\ continuing \in BOOLEAN
  /\ pc \in ClientLabels
  /\ job \in Jobs
  /\ count \in Nat
  /\ back \in 0 .. 1
  /\ image \in Images
  /\ dirty \subseteq Rows

Writing == pc \in {"flip_write", "submit_write", "copy_write"}
Scanning == scan_pc \in {"rows", "tail"}
FullyDriven(r, pixel) == panel[r] = [dir |-> pixel, passes |-> Passes]

\* The client never writes into the buffer the scan task is reading, nor into
\* the one that is queued to be read next, although neither holds a lock while
\* it composes or scans.
NoTearing ==
  Writing => /\ Scanning => back # scan_front
             /\ flip_req => back # Backbuffer

\* When epd_video_submit_pending says there is nothing left to do, the panel
\* shows the front buffer, every pixel with all its pulses: frames that were
\* replaced half driven and regions queued separately leave nothing behind.
\* Powering off on it cannot leave the panel between two pictures.
SettledMeansShown ==
  running /\ submitted /\ ~SubmitPending =>
    \A r \in Rows : FullyDriven(r, buffers[front_index][r])

\* A clear frame is held long enough for the panel to be driven all the way to
\* its colour before the next one replaces it.
ClearsAreComplete ==
  pc = "hold" /\ vsync_due = 0 /\ running =>
    \A r \in Rows : FullyDriven(r, ClearColor(count))

\* A frame the driver accepted is put in front: no later call replaces it or
\* its dirty rows while it is queued.
KeepsFrame ==
  flip_req /\ running /\ running' =>
    /\ pending_dirty' = pending_dirty
    /\ flip_req' \/ front_index' # front_index
NoLostFrame == [][KeepsFrame]_vars

\* The page shown before the power is cut is the one both buffers hold and the
\* panel displays.
OffShowsPage ==
  pc = "shutdown" => \A r \in Rows : FullyDriven(r, image[r])

\* No step of the client goes on before the panel has really been driven: the clears
\* between two colours, and the page that stays when the power is cut.
DrivesComplete == ClearsAreComplete /\ OffShowsPage

Waits == {"flip_wait", "hold", "wait_clean", "wait_page", "wait_shown"}

\* While the scan task lives the waits of the client end - flip, the hold of a clear
\* frame and wait_epd_idle - and so holding S3 leads to power-off.
WaitsEnd ==
  /\ \A label \in Waits : pc = label ~> pc # label \/ ~running
  /\ job = "power_off" ~> pc = "off" \/ scan_pc = "gone"
=============================================================================
