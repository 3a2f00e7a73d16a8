------------------------- MODULE PanelClientProofs -------------------------
(***************************************************************************)
(* Proofs about PanelClient for every panel height, every number of drive  *)
(* passes, clear frames, hold frames and page copies, and whether or not   *)
(* transmissions fail.                                                     *)
(***************************************************************************)
EXTENDS PanelClient, TLAPS

\* Where the client stands when it knows that nothing of its is queued.
QuietLabels == {"clear", "flip_write", "flip", "flipped", "hold", "copy_write", "page",
                "submit_write", "submit", "cleaned", "refreshed", "shutdown"}
Composing == pc \in {"flip_write", "flip", "copy_write", "submit_write", "submit"}

(* Who may touch which buffer.                                             *)
BufferInv ==
  /\ pc \in QuietLabels => ~flip_req
  /\ pc = "flip_wait" /\ notified => ~flip_req
  /\ Composing => back = Backbuffer
  /\ Scanning => scan_front = front_index

(* TypeOK in two halves: the Booleans, and everything else.                *)
FlagsOK ==
  /\ flip_req \in BOOLEAN /\ drive_pending \in BOOLEAN
  /\ flip_waiter \in BOOLEAN /\ notified \in BOOLEAN
  /\ submitted \in BOOLEAN /\ running \in BOOLEAN
  /\ applied_flip \in BOOLEAN /\ continuing \in BOOLEAN
DataOK ==
  /\ buffers \in [0 .. 1 -> Images]
  /\ front_index \in 0 .. 1
  /\ pending_dirty \subseteq Rows
  /\ vsync_due \in 0 .. Hold
  /\ row_active \in [Rows -> BOOLEAN]
  /\ state_buffer \in [Rows -> Drives]
  /\ panel \in [Rows -> Drives]
  /\ scan_pc \in {"frame", "rows", "tail", "gone"}
  /\ scan_row \in 0 .. Height
  /\ scan_front \in 0 .. 1
  /\ pc \in ClientLabels
  /\ job \in Jobs
  /\ count \in Nat
  /\ back \in 0 .. 1
  /\ image \in Images
  /\ dirty \subseteq Rows

LEMMA TypeHalves == TypeOK <=> FlagsOK /\ DataOK
  BY DEF TypeOK, FlagsOK, DataOK

LEMMA InitType == Init => TypeOK
<1> SUFFICES ASSUME Init PROVE TypeOK
  OBVIOUS
<1> USE HeightAssumption, PassesAssumption, HoldAssumption DEF Init, VideoInit
<1>1. FlagsOK
  BY Zenon DEF FlagsOK
<1>2. Blank(0) \in Images /\ Blank(1) \in Images
  BY DEF Blank, Images, Pixels
<1>3. [r \in Rows |-> [dir |-> 0, passes |-> 0]] \in [Rows -> Drives]
  BY DEF Drives, Pixels
<1>4. [b \in 0 .. 1 |-> Blank(1)] \in [0 .. 1 -> Images]
  BY <1>2
<1>5. /\ [r \in Rows |-> FALSE] \in [Rows -> BOOLEAN]
      /\ 0 \in 0 .. Hold /\ 0 \in 0 .. Height /\ Rows \subseteq Rows
  OBVIOUS
<1>6. DataOK
  BY <1>2, <1>3, <1>4, <1>5 DEF DataOK, ClientLabels, Jobs
<1> QED
  BY <1>1, <1>6, TypeHalves

LEMMA DrivenType ==
  ASSUME NEW drive \in Drives, NEW pixel \in Pixels
  PROVE  Driven(drive, pixel) \in Drives /\ Pulsed(drive, pixel) \in Drives
<1> USE PassesAssumption DEF Drives, Pixels
<1>1. Driven(drive, pixel) \in Drives
  BY DEF Driven, Pulses
<1>2. Pulsed(drive, pixel) \in Drives
  BY DEF Pulsed
<1> QED
  BY <1>1, <1>2

LEMMA StepType == TypeOK /\ [Next]_vars => TypeOK'
<1> SUFFICES ASSUME TypeOK, [Next]_vars PROVE FlagsOK' /\ DataOK'
  BY TypeHalves DEF TypeOK, FlagsOK, DataOK
<1>0. FlagsOK /\ DataOK
  BY TypeHalves
<1> USE <1>0
<1> USE HeightAssumption, PassesAssumption, HoldAssumption
<1> USE DEF driver, queue, rows, scan, client, ClientLabels, Jobs
<1>1. CASE ScanTask
  <2>1. CASE SwapBuffers
    <3>1. FlagsOK'
      BY <1>1, <2>1, Zenon DEF ScanTask, SwapBuffers, StartFrame, FlagsOK
    <3>2. row_active' \in [Rows -> BOOLEAN]
      BY <2>1 DEF SwapBuffers, StartFrame, DataOK
    <3>3. front_index' \in 0 .. 1 /\ vsync_due' \in 0 .. Hold
      BY <2>1 DEF SwapBuffers, StartFrame, DataOK
    <3> QED
      BY <1>1, <2>1, <3>1, <3>2, <3>3 DEF ScanTask, SwapBuffers, StartFrame, DataOK
  <2>2. CASE ScanRow
    <3>1. scan_row \in Rows
      BY <2>2 DEF ScanRow, Rows, DataOK
    <3> DEFINE pixel == buffers[scan_front][scan_row]
               next == Driven(state_buffer[scan_row], pixel)
    <3>2. buffers[scan_front] \in Images /\ pixel \in Pixels
      BY <3>1 DEF Images, DataOK
    <3>3. next \in Drives /\ Pulsed(panel[scan_row], pixel) \in Drives
      BY <3>1, <3>2, DrivenType DEF DataOK
    <3>4. state_buffer' \in [Rows -> Drives]
      BY <2>2, <3>1, <3>3 DEF ScanRow, DataOK
    <3>5. panel' \in [Rows -> Drives]
      BY <2>2, <3>1, <3>3 DEF ScanRow, DataOK
    <3>6. row_active' \in [Rows -> BOOLEAN]
      <4> DEFINE more == next.passes < Passes
      <4>1. row_active' = row_active \/ row_active' = [row_active EXCEPT ![scan_row] = more]
        BY <2>2 DEF ScanRow
      <4>2. more \in BOOLEAN
        OBVIOUS
      <4> QED
        BY <4>1, <4>2 DEF DataOK
    <3>7. continuing' \in BOOLEAN
      <4> DEFINE more == next.passes < Passes
      <4>1. continuing' = continuing \/ continuing' = (continuing \/ more)
        BY <2>2 DEF ScanRow
      <4>2. more \in BOOLEAN
        OBVIOUS
      <4> QED
        BY <4>1, <4>2, Zenon DEF FlagsOK
    <3>8. scan_row' \in 0 .. Height /\ scan_pc' \in {"frame", "rows", "tail", "gone"}
      BY <2>2 DEF ScanRow, DataOK
    <3>9. running' \in BOOLEAN
      BY <2>2, Zenon DEF ScanRow, FlagsOK
    <3>10. UNCHANGED <<buffers, queue, drive_pending, scan_front, applied_flip, client>>
      BY <1>1, <2>2 DEF ScanTask, ScanRow
    <3>11. FlagsOK'
      BY <3>7, <3>9, <3>10 DEF FlagsOK
    <3> QED
      BY <3>4, <3>5, <3>6, <3>8, <3>10, <3>11 DEF DataOK
  <2>3. CASE EndRows \/ EndFrame \/ StopScan
    <3>1. FlagsOK'
      BY <1>1, <2>3, Zenon DEF ScanTask, EndRows, EndFrame, StopScan, FlagsOK
    <3> QED
      BY <1>1, <2>3, <3>1 DEF ScanTask, EndRows, EndFrame, StopScan, DataOK
  <2> QED
    BY <1>1, <2>1, <2>2, <2>3 DEF ScanTask, Scan
<1>2. CASE Clear \/ FirstPage \/ ComposeFrame \/ ComposePage \/ CopyPage
  <2>1. Backbuffer \in 0 .. 1
    BY DEF Backbuffer, DataOK
  <2>2. \A n \in Nat : Blank(ClearColor(n)) \in Images
    BY DEF Blank, Images, Pixels, ClearColor
  <2>3. /\ image' \in Images /\ dirty' \subseteq Rows /\ back' = Backbuffer
        /\ pc' \in ClientLabels
    BY <1>2, <2>2 DEF Clear, FirstPage, ComposeFrame, ComposePage, CopyPage, Compose, DataOK
  <2>4. UNCHANGED <<driver, job, count>>
    BY <1>2 DEF Clear, FirstPage, ComposeFrame, ComposePage, CopyPage
  <2> QED
    BY <2>1, <2>3, <2>4 DEF FlagsOK, DataOK
<1>3. CASE FlipWrite \/ CopyWrite \/ SubmitWrite
  <2>1. FlagsOK'
    BY <1>3 DEF FlipWrite, CopyWrite, SubmitWrite, FlagsOK
  <2> QED
    BY <1>3, <2>1 DEF FlipWrite, CopyWrite, SubmitWrite, Write, DataOK
<1>4. CASE Flip \/ FlipReturns \/ HoldClear
  <2>1. FlagsOK'
    BY <1>4, Zenon DEF Flip, FlipReturns, HoldClear, Queue, FlagsOK
  <2> QED
    BY <1>4, <2>1 DEF Flip, FlipReturns, HoldClear, Queue, DataOK
<1>5. CASE SubmitFrame \/ SubmitPage
  <2>1. UNCHANGED driver \/ (Queue(dirty, FALSE) /\ UNCHANGED notified)
    BY <1>5 DEF SubmitFrame, SubmitPage, Submit
  <2>2. FlagsOK'
    <3>1. CASE UNCHANGED driver
      BY <3>1 DEF FlagsOK
    <3>2. CASE Queue(dirty, FALSE) /\ UNCHANGED notified
      <4>1. /\ flip_req' = TRUE /\ drive_pending' = TRUE /\ flip_waiter' = FALSE
            /\ UNCHANGED <<submitted, running, applied_flip, continuing, notified>>
        BY <3>2 DEF Queue
      <4> QED
        BY <4>1, Zenon DEF FlagsOK
    <3> QED
      BY <2>1, <3>1, <3>2
  <2>3. /\ UNCHANGED <<buffers, front_index, vsync_due, rows, scan, job, back, image, dirty>>
        /\ pending_dirty' \in {pending_dirty, dirty}
        /\ pc' \in ClientLabels /\ count' \in {count, count + 1}
    BY <1>5, <2>1 DEF SubmitFrame, SubmitPage, Queue
  <2> QED
    BY <2>2, <2>3 DEF DataOK
<1>6. CASE ClearHeld \/ Cleaned \/ Refreshed \/ Refresh \/ PowerOff
  BY <1>6 DEF ClearHeld, Cleaned, Refreshed, Refresh, PowerOff, StartJob, FlagsOK, DataOK
<1>7. CASE WaitBeforeClean \/ WaitBeforePage \/ WaitShown
  BY <1>7 DEF WaitBeforeClean, WaitBeforePage, WaitShown, WaitIdle, FlagsOK, DataOK
<1>8. CASE Shutdown \/ ShutdownQueue \/ ShutdownDone
  <2>1. FlagsOK'
    BY <1>8, Zenon DEF Shutdown, ShutdownQueue, ShutdownDone, ClearQueue, FlagsOK
  <2> QED
    BY <1>8, <2>1 DEF Shutdown, ShutdownQueue, ShutdownDone, ClearQueue, DataOK
<1>9. CASE UNCHANGED vars
  BY <1>9 DEF vars, FlagsOK, DataOK
<1> QED
  BY <1>1, <1>2, <1>3, <1>4, <1>5, <1>6, <1>7, <1>8, <1>9 DEF Next, Client

\* Every variable keeps the values the code can give it.
THEOREM TypeCorrect == Spec => []TypeOK
<1>1. Init => TypeOK
  BY InitType
<1>2. TypeOK /\ [Next]_vars => TypeOK'
  BY StepType
<1> QED
  BY <1>1, <1>2, PTL DEF Spec

-----------------------------------------------------------------------------
LEMMA StepBuffer == TypeOK /\ BufferInv /\ [Next]_vars => BufferInv'
<1> SUFFICES ASSUME TypeOK, BufferInv, [Next]_vars PROVE BufferInv'
  OBVIOUS
<1> USE DEF BufferInv, QuietLabels, Composing, Scanning, Backbuffer,
            driver, queue, rows, scan, client
<1>0. flip_req \in BOOLEAN /\ notified \in BOOLEAN /\ running \in BOOLEAN
  BY DEF TypeOK
<1>1. CASE ScanTask
  <2>1. CASE SwapBuffers
    BY <1>1, <2>1 DEF ScanTask, SwapBuffers, StartFrame
  <2>2. CASE ScanRow
    BY <1>1, <2>2 DEF ScanTask, ScanRow
  <2>3. CASE EndRows \/ EndFrame \/ StopScan
    BY <1>1, <2>3 DEF ScanTask, EndRows, EndFrame, StopScan
  <2> QED
    BY <1>1, <2>1, <2>2, <2>3 DEF ScanTask, Scan
<1>2. CASE Clear \/ FirstPage \/ ComposeFrame \/ ComposePage \/ CopyPage
  BY <1>2 DEF Clear, FirstPage, ComposeFrame, ComposePage, CopyPage, Compose, CanSubmit
<1>3. CASE FlipWrite \/ CopyWrite \/ SubmitWrite
  BY <1>3 DEF FlipWrite, CopyWrite, SubmitWrite, Write
<1>4. CASE Flip \/ FlipReturns \/ HoldClear
  BY <1>4 DEF Flip, FlipReturns, HoldClear, Queue
<1>5. CASE SubmitFrame \/ SubmitPage
  BY <1>5 DEF SubmitFrame, SubmitPage, Submit, Queue
<1>6. CASE ClearHeld \/ Cleaned \/ Refreshed \/ Refresh \/ PowerOff
  BY <1>6 DEF ClearHeld, Cleaned, Refreshed, Refresh, PowerOff, StartJob
<1>7. CASE WaitBeforeClean \/ WaitBeforePage \/ WaitShown
  BY <1>7 DEF WaitBeforeClean, WaitBeforePage, WaitShown, WaitIdle, SubmitPending
<1>8. CASE Shutdown \/ ShutdownQueue \/ ShutdownDone
  BY <1>8 DEF Shutdown, ShutdownQueue, ShutdownDone, ClearQueue
<1>9. CASE UNCHANGED vars
  BY <1>9 DEF vars
<1> QED
  BY <1>1, <1>2, <1>3, <1>4, <1>5, <1>6, <1>7, <1>8, <1>9 DEF Next, Client

\* The client never composes into the buffer being scanned or queued.
THEOREM BuffersNeverTear == Spec => []NoTearing
<1>1. Init => BufferInv
  BY DEF Init, VideoInit, BufferInv, QuietLabels, Composing, Scanning
<1>2. TypeOK /\ BufferInv /\ [Next]_vars => BufferInv'
  BY StepBuffer
<1>3. TypeOK /\ BufferInv => NoTearing
  BY DEF TypeOK, BufferInv, NoTearing, Writing, Composing, QuietLabels, Backbuffer
<1> QED
  BY <1>1, <1>2, <1>3, TypeCorrect, PTL DEF Spec

-----------------------------------------------------------------------------
(* What the driver and its client know of each row, up to the point where  *)
(* the panel can be called settled.                                        *)
AfterShutdown == pc \in {"clear_queue", "wait_scan", "off"}

\* r will be driven, or is on the panel already when the frame goes in front.
Covered(r, picture) == r \in dirty \/ (submitted /\ picture[r] = buffers[front_index][r])

\* By now a first frame has been put in front, unless the scan task died.
OneShown ==
  \/ job # "startup"
  \/ pc \in {"flipped", "hold", "page", "copy_write"}
  \/ pc = "flip_wait" /\ notified

TaskInv ==
  /\ scan_pc # "gone" /\ ~AfterShutdown => running
  /\ AfterShutdown => ~running
  /\ scan_pc = "tail" => scan_row = Height
  /\ flip_req => drive_pending
  /\ pc \in {"play", "submit_write", "submit", "wait_clean", "cleaned", "wait_page",
             "wait_shown", "refreshed"} => job # "startup"
  /\ OneShown /\ running => submitted

RowsDriven ==
  running =>
    /\ panel = state_buffer
    /\ submitted => \A r \in Rows :
         ~row_active[r] => state_buffer[r] = [dir |-> buffers[front_index][r], passes |-> Passes]
    /\ Scanning /\ ~continuing => \A r \in Rows : r < scan_row => ~row_active[r]
    /\ ~drive_pending => \A r \in Rows : ~row_active[r]

QueueCovered ==
  /\ pc \in {"flip_write", "submit_write"} => \A r \in Rows : Covered(r, image)
  /\ pc \in {"flip", "submit"} => \A r \in Rows : Covered(r, buffers[back])
  /\ flip_req => \A r \in Rows :
       \/ r \in pending_dirty
       \/ submitted /\ buffers[Backbuffer][r] = buffers[front_index][r]

IInv == TypeOK /\ BufferInv /\ TaskInv /\ RowsDriven /\ QueueCovered

LEMMA InitIInv == Init => IInv
<1> SUFFICES ASSUME Init PROVE BufferInv /\ TaskInv /\ RowsDriven /\ QueueCovered
  BY InitType DEF IInv
<1> USE DEF Init, VideoInit
<1>1. BufferInv
  BY DEF BufferInv, QuietLabels, Composing, Scanning
<1>2. TaskInv
  BY DEF TaskInv, OneShown, AfterShutdown
<1>3. RowsDriven
  BY DEF RowsDriven, Scanning
<1>4. QueueCovered
  BY DEF QueueCovered
<1> QED
  BY <1>1, <1>2, <1>3, <1>4

LEMMA StepTask == IInv /\ [Next]_vars => TaskInv'
<1> SUFFICES ASSUME IInv, [Next]_vars PROVE TaskInv'
  OBVIOUS
<1> USE DEF IInv, BufferInv, TaskInv, OneShown, AfterShutdown, QuietLabels,
            driver, queue, rows, scan, client
<1>0. flip_req \in BOOLEAN /\ notified \in BOOLEAN /\ running \in BOOLEAN
      /\ drive_pending \in BOOLEAN /\ submitted \in BOOLEAN
  BY DEF TypeOK
<1>1. CASE ScanTask
  <2>1. CASE SwapBuffers
    BY <1>0, <1>1, <2>1 DEF ScanTask, SwapBuffers, StartFrame
  <2>2. CASE ScanRow
    BY <1>0, <1>1, <2>2 DEF ScanTask, ScanRow
  <2>3. CASE EndRows \/ EndFrame \/ StopScan
    BY <1>0, <1>1, <2>3 DEF ScanTask, EndRows, EndFrame, StopScan
  <2> QED
    BY <1>1, <2>1, <2>2, <2>3 DEF ScanTask, Scan
<1>2. CASE Clear \/ FirstPage \/ ComposeFrame \/ ComposePage \/ CopyPage
  BY <1>0, <1>2 DEF Clear, FirstPage, ComposeFrame, ComposePage, CopyPage, Compose, CanSubmit
<1>3. CASE FlipWrite \/ CopyWrite \/ SubmitWrite
  BY <1>0, <1>3 DEF FlipWrite, CopyWrite, SubmitWrite, Write
<1>4. CASE Flip \/ FlipReturns \/ HoldClear
  BY <1>0, <1>4 DEF Flip, FlipReturns, HoldClear, Queue
<1>5. CASE SubmitFrame \/ SubmitPage
  <2>1. pc = "submit" /\ pc' \in {"play", "wait_page", "wait_shown"} /\ UNCHANGED job
        /\ (pc' # "play" => job # "play") /\ (pc' = "play" => job = "play")
    BY <1>5 DEF SubmitFrame, SubmitPage
  <2>2. UNCHANGED driver \/ (Queue(dirty, FALSE) /\ UNCHANGED notified)
    BY <1>5 DEF SubmitFrame, SubmitPage, Submit
  <2>3. UNCHANGED <<running, submitted, scan>> /\ (flip_req' => drive_pending')
    BY <2>2 DEF Queue
  <2> QED
    BY <2>1, <2>3
<1>6. CASE ClearHeld \/ Cleaned \/ Refreshed \/ Refresh \/ PowerOff
  BY <1>0, <1>6 DEF ClearHeld, Cleaned, Refreshed, Refresh, PowerOff, StartJob
<1>7. CASE WaitBeforeClean \/ WaitBeforePage \/ WaitShown
  BY <1>0, <1>7 DEF WaitBeforeClean, WaitBeforePage, WaitShown, WaitIdle, SubmitPending
<1>8. CASE Shutdown \/ ShutdownQueue \/ ShutdownDone
  BY <1>0, <1>8 DEF Shutdown, ShutdownQueue, ShutdownDone, ClearQueue
<1>9. CASE UNCHANGED vars
  BY <1>9 DEF vars
<1> QED
  BY <1>1, <1>2, <1>3, <1>4, <1>5, <1>6, <1>7, <1>8, <1>9 DEF Next, Client

\* A step that at most queues a frame or writes the other buffer.
LEMMA ClientKeepsRows ==
  ASSUME IInv, Client
  PROVE  /\ UNCHANGED <<rows, scan, front_index, submitted>>
         /\ running' => running
         /\ running' /\ ~drive_pending' => ~drive_pending
         /\ buffers'[front_index] = buffers[front_index]
<1> USE DEF driver, queue, rows, scan, client
<1>1. CASE FlipWrite \/ CopyWrite \/ SubmitWrite
  <2>1. back = 1 - front_index /\ front_index \in 0 .. 1 /\ buffers \in [0 .. 1 -> Images]
    BY <1>1 DEF IInv, TypeOK, BufferInv, Composing, Backbuffer, FlipWrite, CopyWrite, SubmitWrite
  <2> QED
    BY <1>1, <2>1 DEF FlipWrite, CopyWrite, SubmitWrite, Write
<1>2. CASE Flip \/ FlipReturns \/ HoldClear
  BY <1>2 DEF Flip, FlipReturns, HoldClear, Queue
<1>3. CASE SubmitFrame \/ SubmitPage
  BY <1>3 DEF SubmitFrame, SubmitPage, Submit, Queue
<1>4. CASE Shutdown \/ ShutdownQueue
  BY <1>4 DEF Shutdown, ShutdownQueue, ClearQueue
<1>5. CASE UNCHANGED driver
  BY <1>5
<1> QED
  BY <1>1, <1>2, <1>3, <1>4, <1>5
  DEF Client, Clear, FirstPage, ComposeFrame, ComposePage, CopyPage, ClearHeld, Cleaned,
      Refreshed, Refresh, PowerOff, StartJob, WaitBeforeClean, WaitBeforePage, WaitShown,
      WaitIdle, ShutdownDone

\* One pulse: what the driver believes of a pixel and what the panel received
\* stay the same, and a pixel that needs no more is fully driven.
LEMMA PulseAgrees ==
  ASSUME NEW drive \in Drives, NEW pixel \in Pixels
  PROVE  /\ Driven(drive, pixel) =
              IF Pulses(drive, pixel) < Passes THEN Pulsed(drive, pixel) ELSE drive
         /\ ~(Driven(drive, pixel).passes < Passes) =>
              Driven(drive, pixel) = [dir |-> pixel, passes |-> Passes]
<1> USE PassesAssumption DEF Drives, Pixels, Driven, Pulsed, Pulses
<1>1. CASE drive.dir # pixel
  BY <1>1
<1>2. CASE drive.dir = pixel /\ drive.passes < Passes
  <2>1. Pulsed(drive, pixel) = [dir |-> pixel, passes |-> drive.passes + 1]
    BY <1>2
  <2> QED
    BY <1>2, <2>1
<1>3. CASE drive.dir = pixel /\ ~(drive.passes < Passes)
  <2>1. drive.passes = Passes
    BY <1>3
  <2>2. drive = [dir |-> pixel, passes |-> Passes]
    BY <1>3, <2>1
  <2> QED
    BY <1>3, <2>1, <2>2
<1> QED
  BY <1>1, <1>2, <1>3

LEMMA StepRows == IInv /\ [Next]_vars => RowsDriven'
<1> SUFFICES ASSUME IInv, [Next]_vars, running' PROVE RowsDriven'
  BY DEF RowsDriven
<1> USE DEF driver, queue, rows, scan, client
<1>0. /\ TypeOK /\ BufferInv /\ TaskInv /\ RowsDriven /\ QueueCovered
      /\ front_index \in 0 .. 1 /\ scan_row \in 0 .. Height
  BY DEF IInv, TypeOK
<1>1. CASE Client
  <2>1. /\ UNCHANGED <<rows, scan, front_index, submitted>>
        /\ running
        /\ ~drive_pending' => ~drive_pending
        /\ buffers'[front_index] = buffers[front_index]
    BY <1>1, ClientKeepsRows
  <2> QED
    BY <1>0, <2>1 DEF RowsDriven, Scanning
<1>2. CASE ScanTask
  <2>1. CASE SwapBuffers
    <3>1. /\ panel' = state_buffer' /\ UNCHANGED <<state_buffer, buffers, drive_pending>>
          /\ running /\ scan_row' = 0
      BY <1>0, <2>1 DEF SwapBuffers, StartFrame, RowsDriven
    <3>2. ASSUME ~drive_pending', NEW r \in Rows PROVE ~row_active'[r]
      <4>1. ~drive_pending /\ ~flip_req
        BY <1>0, <3>1, <3>2 DEF TaskInv
      <4>2. ~row_active[r]
        BY <1>0, <3>1, <4>1 DEF RowsDriven
      <4>3. row_active'[r] = (row_active[r] \/ (flip_req /\ r \in pending_dirty))
        BY <2>1 DEF SwapBuffers, StartFrame
      <4> QED
        BY <4>1, <4>2, <4>3
    <3>3. ASSUME submitted', NEW r \in Rows, ~row_active'[r]
          PROVE  state_buffer'[r] = [dir |-> buffers'[front_index'][r], passes |-> Passes]
      <4>1. ~row_active[r] /\ ~(flip_req /\ r \in pending_dirty)
        BY <2>1, <3>3 DEF SwapBuffers, StartFrame
      <4>2. submitted /\ buffers[front_index'][r] = buffers[front_index][r]
        BY <1>0, <2>1, <3>3, <4>1 DEF SwapBuffers, StartFrame, QueueCovered, Backbuffer
      <4> QED
        BY <1>0, <3>1, <4>1, <4>2 DEF RowsDriven
    <3>4. \A r \in Rows : ~(r < scan_row')
      BY <3>1 DEF Rows
    <3>5. submitted' => \A r \in Rows : ~row_active'[r] =>
            state_buffer'[r] = [dir |-> buffers'[front_index'][r], passes |-> Passes]
      BY <3>3
    <3> HIDE DEF rows, scan, queue, driver
    <3> QED
      BY <3>1, <3>2, <3>4, <3>5 DEF RowsDriven
  <2>2. CASE ScanRow
    <3> DEFINE pixel == buffers[scan_front][scan_row]
               drive == state_buffer[scan_row]
               next == Driven(drive, pixel)
    <3>1. /\ running /\ scan_row' = scan_row + 1 /\ scan_row \in Rows /\ scan_pc = "rows"
          /\ scan_pc' = "rows" /\ scan_front = front_index
          /\ UNCHANGED <<buffers, front_index, drive_pending, submitted>>
      <4>1. /\ scan_pc = "rows" /\ scan_row < Height
            /\ running /\ scan_row' = scan_row + 1 /\ scan_pc' = "rows"
            /\ UNCHANGED <<buffers, front_index, drive_pending, submitted>>
        BY <2>2 DEF ScanRow
      <4> QED
        BY <1>0, <4>1, HeightAssumption DEF BufferInv, Scanning, Rows
    <3>2. /\ panel = state_buffer /\ drive \in Drives /\ pixel \in Pixels
          /\ state_buffer \in [Rows -> Drives] /\ row_active \in [Rows -> BOOLEAN]
      <4>1. panel = state_buffer
        BY <1>0, <3>1 DEF RowsDriven
      <4>2. state_buffer \in [Rows -> Drives] /\ row_active \in [Rows -> BOOLEAN]
        BY <1>0 DEF TypeOK
      <4>3. buffers[scan_front] \in [Rows -> Pixels]
        BY <1>0, <3>1 DEF TypeOK, Images
      <4> QED
        BY <3>1, <4>1, <4>2, <4>3
    <3>3. CASE row_active[scan_row]
      <4>1. /\ state_buffer' = [state_buffer EXCEPT ![scan_row] = next]
            /\ row_active' = [row_active EXCEPT ![scan_row] = next.passes < Passes]
            /\ continuing' = (continuing \/ next.passes < Passes)
            /\ panel' = IF Pulses(drive, pixel) < Passes
                         THEN [panel EXCEPT ![scan_row] = Pulsed(@, pixel)] ELSE panel
        BY <2>2, <3>1, <3>3 DEF ScanRow
      <4>2. panel' = state_buffer'
        <5>1. CASE Pulses(drive, pixel) < Passes
          BY <3>2, <4>1, <5>1, PulseAgrees
        <5>2. CASE ~(Pulses(drive, pixel) < Passes)
          <6>1. next = drive
            BY <3>2, <5>2, PulseAgrees
          <6> QED
            BY <3>1, <3>2, <4>1, <5>2, <6>1
        <5> QED
          BY <5>1, <5>2
      <4>3. ASSUME submitted', NEW r \in Rows, ~row_active'[r]
            PROVE  state_buffer'[r] = [dir |-> buffers'[front_index'][r], passes |-> Passes]
        <5>1. CASE r = scan_row
          BY <3>1, <3>2, <4>1, <4>3, <5>1, PulseAgrees
        <5>2. CASE r # scan_row
          BY <1>0, <3>1, <3>2, <4>1, <4>3, <5>2 DEF RowsDriven
        <5> QED
          BY <5>1, <5>2
      <4>4. ASSUME ~continuing', NEW r \in Rows, r < scan_row'
            PROVE  ~row_active'[r]
        <5>1. CASE r = scan_row
          BY <3>2, <4>1, <4>4, <5>1
        <5>2. CASE r # scan_row
          <6>1. r < scan_row
            BY <3>1, <4>4, <5>2 DEF Rows
          <6> QED
            BY <1>0, <3>1, <3>2, <4>1, <4>4, <5>2, <6>1 DEF RowsDriven, Scanning
        <5> QED
          BY <5>1, <5>2
      <4>5. drive_pending'
        BY <1>0, <3>1, <3>3 DEF RowsDriven
      <4> QED
        BY <4>2, <4>3, <4>4, <4>5 DEF RowsDriven
    <3>4. CASE ~row_active[scan_row]
      <4>1. UNCHANGED <<state_buffer, row_active, continuing, panel>>
        BY <2>2, <3>1, <3>4 DEF ScanRow
      <4>2. ASSUME ~continuing', NEW r \in Rows, r < scan_row'
            PROVE  ~row_active'[r]
        <5>1. r = scan_row \/ r < scan_row
          BY <3>1, <4>2 DEF Rows
        <5> QED
          BY <1>0, <3>1, <3>4, <4>1, <4>2, <5>1 DEF RowsDriven, Scanning
      <4>3. /\ panel' = state_buffer'
            /\ ~drive_pending' => \A r \in Rows : ~row_active'[r]
            /\ submitted' => \A r \in Rows : ~row_active'[r] =>
                 state_buffer'[r] = [dir |-> buffers'[front_index'][r], passes |-> Passes]
        BY <1>0, <3>1, <4>1 DEF RowsDriven
      <4> QED
        BY <4>2, <4>3 DEF RowsDriven
    <3> QED
      BY <3>3, <3>4
  <2>3. CASE EndRows
    BY <1>0, <1>2, <2>3 DEF ScanTask, EndRows, RowsDriven, Scanning
  <2>4. CASE EndFrame
    <3>1. ASSUME ~drive_pending', NEW r \in Rows PROVE ~row_active[r]
      <4>1. ~continuing /\ running /\ scan_pc = "tail"
        BY <2>4, <3>1 DEF EndFrame
      <4>2. r < scan_row
        BY <1>0, <4>1, HeightAssumption DEF TaskInv, Rows
      <4> QED
        BY <1>0, <4>1, <4>2 DEF RowsDriven, Scanning
    <3> QED
      BY <1>0, <2>4, <3>1 DEF EndFrame, RowsDriven, Scanning
  <2>5. CASE StopScan
    BY <2>5 DEF StopScan
  <2> QED
    BY <1>2, <2>1, <2>2, <2>3, <2>4, <2>5 DEF ScanTask, Scan
<1>3. CASE UNCHANGED vars
  BY <1>0, <1>3 DEF vars, RowsDriven, Scanning
<1> QED
  BY <1>1, <1>2, <1>3 DEF Next

LEMMA StepQueue == IInv /\ [Next]_vars => QueueCovered'
<1> SUFFICES ASSUME IInv, [Next]_vars PROVE QueueCovered'
  OBVIOUS
<1> USE DEF driver, queue, rows, scan, client
<1>0. /\ BufferInv /\ TaskInv /\ QueueCovered /\ front_index \in 0 .. 1
      /\ flip_req \in BOOLEAN /\ submitted \in BOOLEAN
      /\ buffers \in [0 .. 1 -> Images] /\ image \in Images
  BY DEF IInv, TypeOK
<1>1. CASE SwapBuffers /\ UNCHANGED client
  <2>1. pc \in QuietLabels => front_index' = front_index /\ UNCHANGED submitted
    BY <1>0, <1>1, Zenon DEF SwapBuffers, StartFrame, BufferInv
  <2>2. ~flip_req' /\ UNCHANGED <<buffers, client>>
    BY <1>1 DEF SwapBuffers, StartFrame
  <2>3. pc \in {"flip_write", "submit_write", "flip", "submit"} => pc \in QuietLabels
    BY DEF QuietLabels
  <2> QED
    BY <1>0, <2>1, <2>2, <2>3 DEF QueueCovered, Covered
<1>2. CASE (ScanRow \/ EndRows \/ EndFrame \/ StopScan) /\ UNCHANGED client
  <2>1. UNCHANGED <<buffers, queue, client>>
    BY <1>2 DEF ScanRow, EndRows, EndFrame, StopScan
  <2> QED
    BY <1>0, <2>1 DEF QueueCovered, Covered, Backbuffer
<1>3. CASE Clear \/ FirstPage \/ ComposePage \/ CopyPage
  <2>1. /\ ~flip_req' /\ pc' \in {"flip_write", "submit_write", "copy_write"}
        /\ pc' # "copy_write" => dirty' = Rows
    BY <1>0, <1>3 DEF Clear, FirstPage, ComposePage, CopyPage, Compose, BufferInv, QuietLabels
  <2> QED
    BY <2>1 DEF QueueCovered, Covered
<1>4. CASE ComposeFrame
  <2>1. running /\ ~flip_req /\ pc = "play" /\ UNCHANGED driver /\ pc' = "submit_write"
    BY <1>4 DEF ComposeFrame, CanSubmit, Compose
  <2>2. submitted
    BY <1>0, <2>1 DEF TaskInv, OneShown
  <2>3. \A r \in Rows : r \in dirty' \/ image'[r] = buffers[front_index][r]
    BY <1>4 DEF ComposeFrame, MayQueue, Compose
  <2> QED
    BY <2>1, <2>2, <2>3 DEF QueueCovered, Covered
<1>5. CASE FlipWrite \/ SubmitWrite \/ CopyWrite
  <2>1. /\ ~flip_req /\ back = 1 - front_index
        /\ buffers' = [buffers EXCEPT ![back] = image]
        /\ UNCHANGED <<queue, image, back, dirty>>
        /\ pc' \in {"flip", "flipped", "submit", "play"}
        /\ pc' \in {"flip", "submit"} => pc \in {"flip_write", "submit_write"}
    BY <1>0, <1>5 DEF FlipWrite, SubmitWrite, CopyWrite, Write, BufferInv, QuietLabels,
                      Composing, Backbuffer
  <2>2. buffers'[back] = image /\ buffers'[front_index] = buffers[front_index]
    BY <1>0, <2>1
  <2> QED
    BY <1>0, <2>1, <2>2 DEF QueueCovered, Covered
<1>6. CASE Flip \/ SubmitFrame \/ SubmitPage
  <2>1. /\ pc \in {"flip", "submit"} /\ back = Backbuffer /\ ~flip_req
        /\ pc' \in {"flip_wait", "play", "wait_page", "wait_shown"}
        /\ UNCHANGED <<buffers, front_index, submitted>>
        /\ flip_req' => pending_dirty' = dirty
    BY <1>0, <1>6 DEF Flip, SubmitFrame, SubmitPage, Submit, Queue, BufferInv, Composing,
                      QuietLabels
  <2> QED
    BY <1>0, <2>1 DEF QueueCovered, Covered, Backbuffer
<1>7. CASE FlipReturns \/ HoldClear \/ ShutdownQueue
  <2>1. /\ pc' \in {"flipped", "hold", "wait_scan"} /\ (flip_req' => flip_req)
        /\ UNCHANGED <<buffers, front_index, submitted, pending_dirty>>
    BY <1>7 DEF FlipReturns, HoldClear, ShutdownQueue, ClearQueue
  <2> QED
    BY <1>0, <2>1 DEF QueueCovered, Backbuffer
<1>8. CASE \/ ClearHeld \/ Cleaned \/ Refreshed \/ Refresh \/ PowerOff
           \/ WaitBeforeClean \/ WaitBeforePage \/ WaitShown \/ Shutdown \/ ShutdownDone
  <2>1. /\ pc' \notin {"flip_write", "submit_write", "flip", "submit"}
        /\ UNCHANGED <<buffers, queue>>
    BY <1>8 DEF ClearHeld, Cleaned, Refreshed, Refresh, PowerOff, StartJob, WaitBeforeClean,
                WaitBeforePage, WaitShown, WaitIdle, Shutdown, ShutdownDone
  <2> QED
    BY <1>0, <2>1 DEF QueueCovered, Backbuffer
<1>9. CASE UNCHANGED vars
  BY <1>0, <1>9 DEF vars, QueueCovered, Covered, Backbuffer
<1> QED
  BY <1>1, <1>2, <1>3, <1>4, <1>5, <1>6, <1>7, <1>8, <1>9 DEF Next, ScanTask, Scan, Client

THEOREM InductiveInvariant == Spec => []IInv
<1>1. Init => IInv
  BY InitIInv
<1>2. IInv /\ [Next]_vars => IInv'
  BY StepType, StepBuffer, StepTask, StepRows, StepQueue DEF IInv
<1> QED
  BY <1>1, <1>2, PTL DEF Spec

\* A panel that is reported idle shows the front buffer completely.
THEOREM IdlePanelIsShown == Spec => []SettledMeansShown
<1>1. IInv => SettledMeansShown
  BY DEF IInv, RowsDriven, SettledMeansShown, SubmitPending, FullyDriven
<1> QED
  BY <1>1, InductiveInvariant, PTL

\* Until the driver is stopped an accepted frame is neither replaced nor lost.
THEOREM AcceptedFramesAreShown == Spec => NoLostFrame
<1>1. IInv /\ [Next]_vars => [KeepsFrame]_vars
  <2> SUFFICES ASSUME IInv, Next, flip_req, running, running'
               PROVE  /\ pending_dirty' = pending_dirty
                      /\ flip_req' \/ front_index' # front_index
    BY DEF KeepsFrame
  <2> USE DEF driver, queue, rows, scan, client
  <2>0. pc \notin QuietLabels /\ ~AfterShutdown /\ front_index \in 0 .. 1
    BY DEF IInv, BufferInv, TaskInv, TypeOK
  <2>1. CASE ScanTask
    <3>1. CASE SwapBuffers
      BY <2>0, <3>1 DEF SwapBuffers, StartFrame
    <3>2. CASE ScanRow \/ EndRows \/ EndFrame \/ StopScan
      BY <3>2 DEF ScanRow, EndRows, EndFrame, StopScan
    <3> QED
      BY <2>1, <3>1, <3>2 DEF ScanTask, Scan
  <2>2. CASE Client
    <3>1. /\ pc \notin {"clear", "flip_write", "flip", "flipped", "hold", "copy_write", "page",
                        "submit_write", "submit", "cleaned", "refreshed", "shutdown"}
          /\ pc # "clear_queue"
      BY <2>0 DEF QuietLabels, AfterShutdown
    <3>2. UNCHANGED <<pending_dirty, flip_req>>
      BY <2>2, <3>1 DEF Client, Clear, FirstPage, FlipWrite, Flip, FlipReturns,
         HoldClear, ClearHeld, CopyPage, CopyWrite, ComposeFrame, CanSubmit, SubmitWrite,
         SubmitFrame, Refresh, PowerOff, StartJob, WaitBeforeClean, Cleaned, WaitBeforePage,
         ComposePage, SubmitPage, WaitShown, WaitIdle, Refreshed, Shutdown, ShutdownQueue,
         ShutdownDone
    <3> QED
      BY <3>2
  <2> QED
    BY <2>1, <2>2 DEF Next
<1> QED
  BY <1>1, InductiveInvariant, PTL DEF Spec, NoLostFrame

-----------------------------------------------------------------------------
(* How far the panel has been driven when the client goes on.              *)

\* The colour of a clear frame on its way to the panel.
ClearInv ==
  running =>
    /\ pc = "page" /\ job = "startup" => ~ClearsLeft
    /\ pc = "hold" => ClearsLeft
    /\ ClearsLeft =>
         /\ pc = "flip_write" => image = Blank(ClearColor(count))
         /\ pc = "flip" => buffers[back] = Blank(ClearColor(count))
         /\ pc = "flip_wait" =>
              buffers[IF flip_req THEN Backbuffer ELSE front_index] = Blank(ClearColor(count))
         /\ pc \in {"flipped", "hold"} => buffers[front_index] = Blank(ClearColor(count))

\* The frame a flip waited for is in front, and for how many frames it is held.
Flipped == pc \in {"flipped", "hold"} \/ (pc = "flip_wait" /\ notified)
HeldFor == IF pc = "hold" THEN Hold - vsync_due ELSE 0

\* A row has had n pulses of the front buffer, or all it needs.
DrivenFor(r, n) == ~row_active[r] \/ Pulses(state_buffer[r], buffers[front_index][r]) >= n

\* Every frame of the hold gives each row a pulse, this one those already scanned.
HoldInv ==
  running /\ Flipped => \A r \in Rows :
    DrivenFor(r, IF scan_pc = "rows" /\ scan_row <= r THEN HeldFor ELSE HeldFor + 1)

\* The page on its way to the panel, and that it stays there.
ImageShown == \A r \in Rows : FullyDriven(r, image[r])
PageInv ==
  /\ pc = "submit" => buffers[back] = image
  /\ pc = "wait_shown" => buffers[IF flip_req THEN Backbuffer ELSE front_index] = image
  /\ pc = "wait_shown" /\ ~SubmitPending => ImageShown
  /\ pc = "shutdown" => ImageShown /\ buffers[front_index] = image

DriveInv == ClearInv /\ HoldInv /\ PageInv

\* What a step of the scan task leaves alone, but for the swap of the buffers.
LEMMA ScanKeepsClient ==
  ASSUME ScanTask
  PROVE  /\ UNCHANGED <<buffers, pending_dirty, client>>
         /\ running' => running
         /\ SwapBuffers \/ UNCHANGED <<queue, buffers>>
<1> USE DEF driver, queue, rows, scan, client
<1>1. CASE SwapBuffers
  BY <1>1 DEF ScanTask, SwapBuffers, StartFrame
<1>2. CASE ScanRow
  BY <1>2 DEF ScanTask, ScanRow
<1>3. CASE EndRows \/ EndFrame \/ StopScan
  BY <1>3 DEF ScanTask, EndRows, EndFrame, StopScan
<1> QED
  BY <1>1, <1>2, <1>3 DEF ScanTask, Scan

LEMMA StepClear == IInv /\ ClearInv /\ [Next]_vars => ClearInv'
<1> SUFFICES ASSUME IInv, ClearInv, [Next]_vars, running' PROVE ClearInv'
  BY DEF ClearInv
<1> USE DEF driver, queue, rows, scan, client
<1>0. /\ front_index \in 0 .. 1 /\ back \in 0 .. 1 /\ buffers \in [0 .. 1 -> Images]
      /\ flip_req \in BOOLEAN /\ count \in Nat
      /\ pc \in QuietLabels => ~flip_req
      /\ Composing => back = Backbuffer
      /\ pc \in {"wait_page", "refreshed", "cleaned"} => job # "startup"
  BY DEF IInv, TypeOK, BufferInv, TaskInv
<1>1. CASE ScanTask
  <2>1. UNCHANGED <<buffers, client>> /\ running
    BY <1>1, ScanKeepsClient
  <2>2. CASE SwapBuffers
    <3>1. front_index' = (IF flip_req THEN 1 - front_index ELSE front_index) /\ ~flip_req'
      BY <2>2 DEF SwapBuffers, StartFrame
    <3>2. pc \in {"flipped", "hold"} => ~flip_req
      BY <1>0 DEF QuietLabels
    <3> QED
      BY <1>0, <2>1, <3>1, <3>2 DEF ClearInv, ClearsLeft, Backbuffer
  <2>3. CASE UNCHANGED <<queue, buffers>>
    BY <2>1, <2>3 DEF ClearInv, ClearsLeft, Backbuffer
  <2> QED
    BY <1>1, <2>2, <2>3, ScanKeepsClient
<1>2. CASE Clear \/ FirstPage \/ CopyPage
  BY <1>2 DEF Clear, FirstPage, CopyPage, Compose, ClearInv, ClearsLeft
<1>3. CASE FlipWrite
  <2>1. pc = "flip_write" /\ pc' = "flip" /\ UNCHANGED <<count, back, job>> /\ running
        /\ buffers' = [buffers EXCEPT ![back] = image]
    BY <1>3 DEF FlipWrite, Write
  <2> QED
    BY <1>0, <2>1 DEF ClearInv, ClearsLeft
<1>4. CASE Flip
  <2>1. pc = "flip" /\ pc' = "flip_wait" /\ flip_req' /\ running
        /\ UNCHANGED <<buffers, front_index, count, job, back>>
    BY <1>4 DEF Flip, Queue
  <2>2. back = Backbuffer /\ Backbuffer' = Backbuffer
    BY <1>0, <2>1 DEF Composing, Backbuffer
  <2> QED
    BY <2>1, <2>2 DEF ClearInv, ClearsLeft
<1>5. CASE FlipReturns \/ HoldClear
  <2>1. /\ pc' \in {"flipped", "hold"} /\ UNCHANGED <<buffers, front_index, flip_req, count, job>>
        /\ pc \in {"flip_wait", "flipped"} /\ (pc' = "hold" => ClearsLeft) /\ running
        /\ pc = "flip_wait" => notified
    BY <1>5 DEF FlipReturns, HoldClear
  <2>2. ~flip_req
    BY <1>0, <2>1 DEF IInv, BufferInv, QuietLabels
  <2> QED
    BY <2>1, <2>2 DEF ClearInv, ClearsLeft
<1>6. CASE ClearHeld
  <2>1. /\ pc' \in {"clear", "page", "cleaned"} /\ count' = count + 1
        /\ pc' = "page" => ~(count + 1 < Clears)
    BY <1>6 DEF ClearHeld
  <2> QED
    BY <2>1 DEF ClearInv, ClearsLeft
<1>7. CASE CopyWrite \/ ComposeFrame \/ SubmitWrite \/ SubmitFrame \/ Refresh \/ PowerOff
           \/ Cleaned \/ ComposePage \/ SubmitPage \/ WaitBeforeClean \/ WaitShown
           \/ Refreshed \/ Shutdown \/ ShutdownQueue \/ ShutdownDone
  <2>1. pc' \notin {"page", "hold", "flip_write", "flip", "flip_wait", "flipped"}
    BY <1>7 DEF CopyWrite, ComposeFrame, SubmitWrite, SubmitFrame, Refresh, PowerOff, StartJob,
       Cleaned, ComposePage, SubmitPage, Compose, WaitBeforeClean, WaitShown, WaitIdle,
       Refreshed, Shutdown, ShutdownQueue, ShutdownDone
  <2> QED
    BY <2>1 DEF ClearInv
<1>8. CASE WaitBeforePage
  BY <1>0, <1>8 DEF WaitBeforePage, WaitIdle, ClearInv
<1>9. CASE UNCHANGED vars
  BY <1>9 DEF vars, ClearInv, ClearsLeft, Backbuffer
<1> QED
  BY <1>1, <1>2, <1>3, <1>4, <1>5, <1>6, <1>7, <1>8, <1>9 DEF Next, Client

\* A pulse of a row that still needs one.
LEMMA OnePulseMore ==
  ASSUME NEW drive \in Drives, NEW pixel \in Pixels, NEW n \in Nat, Pulses(drive, pixel) >= n
  PROVE  /\ Driven(drive, pixel).passes < Passes => Pulses(Driven(drive, pixel), pixel) >= n + 1
         /\ Pulses(drive, pixel) = Passes => Driven(drive, pixel) = drive
<1> USE PassesAssumption DEF Drives, Pixels, Driven, Pulses
<1>1. CASE drive.dir = pixel
  BY <1>1
<1>2. CASE drive.dir # pixel
  BY <1>2
<1> QED
  BY <1>1, <1>2

LEMMA StepHold == IInv /\ HoldInv /\ [Next]_vars => HoldInv'
<1> SUFFICES ASSUME IInv, HoldInv, [Next]_vars, running', Flipped', NEW r \in Rows
             PROVE  DrivenFor(r, IF scan_pc = "rows" /\ scan_row <= r THEN HeldFor ELSE HeldFor + 1)'
  BY DEF HoldInv
<1> USE DEF driver, queue, rows, scan, client
<1>0. /\ front_index \in 0 .. 1 /\ buffers \in [0 .. 1 -> Images] /\ vsync_due \in 0 .. Hold
      /\ row_active \in [Rows -> BOOLEAN] /\ state_buffer \in [Rows -> Drives]
      /\ scan_row \in 0 .. Height /\ notified \in BOOLEAN /\ r \in Nat /\ Hold \in Nat
      /\ Flipped => ~flip_req
      /\ Pulses(state_buffer[r], buffers[front_index][r]) >= 0
      /\ HeldFor \in Nat
  <2>1. TypeOK /\ BufferInv
    BY DEF IInv
  <2>2. state_buffer[r] \in Drives /\ r \in Nat
    BY <2>1, HeightAssumption DEF TypeOK, Rows
  <2>3. Pulses(state_buffer[r], buffers[front_index][r]) >= 0
    BY <2>2, PassesAssumption DEF Pulses, Drives
  <2>4. HeldFor \in Nat
    BY <2>1, HoldAssumption DEF TypeOK, HeldFor
  <2> QED
    BY <2>1, <2>2, <2>3, <2>4, HoldAssumption DEF TypeOK, BufferInv, Flipped, QuietLabels
<1>1. CASE ScanTask
  <2>1. UNCHANGED <<buffers, client>> /\ running
    BY <1>1, ScanKeepsClient
  <2>2. CASE SwapBuffers
    <3>1. /\ scan_pc = "frame" /\ scan_pc' = "rows" /\ scan_row' = 0
          /\ notified' = (notified \/ (flip_req /\ flip_waiter))
          /\ vsync_due' = (IF vsync_due > 0 THEN vsync_due - 1 ELSE 0)
          /\ UNCHANGED state_buffer
      BY <2>2 DEF SwapBuffers, StartFrame
    <3>2. CASE Flipped
      <4>1. UNCHANGED <<front_index, row_active>>
        BY <1>0, <2>2, <3>2 DEF SwapBuffers, StartFrame
      <4>2. DrivenFor(r, HeldFor + 1)
        BY <2>1, <3>1, <3>2 DEF HoldInv
      <4>3. HeldFor' \in {HeldFor, HeldFor + 1}
        BY <1>0, <2>1, <3>1 DEF HeldFor
      <4>4. Pulses(state_buffer[r], buffers[front_index][r]) \in Nat
        BY <1>0, PassesAssumption DEF Pulses, Drives
      <4>5. DrivenFor(r, HeldFor)'
        BY <1>0, <2>1, <3>1, <4>1, <4>2, <4>3, <4>4 DEF DrivenFor
      <4> QED
        BY <1>0, <3>1, <4>5
    <3>3. CASE ~Flipped
      <4>1. HeldFor' = 0
        BY <2>1, <3>3 DEF Flipped, HeldFor
      <4>2. front_index' \in 0 .. 1
        BY <1>0, <2>2 DEF SwapBuffers, StartFrame
      <4>3. Pulses(state_buffer[r], buffers[front_index'][r]) >= 0
        BY <1>0, PassesAssumption DEF Pulses, Drives
      <4> QED
        BY <1>0, <2>1, <3>1, <4>1, <4>3 DEF DrivenFor
    <3> QED
      BY <3>2, <3>3
  <2>3. CASE ScanRow
    <3> DEFINE pixel == buffers[scan_front][scan_row]
               drive == state_buffer[scan_row]
    <3>1. /\ scan_pc = "rows" /\ scan_pc' = "rows" /\ scan_row' = scan_row + 1 /\ scan_row < Height
          /\ UNCHANGED <<front_index, notified, vsync_due>>
          /\ UNCHANGED <<state_buffer, row_active>>
             \/ /\ row_active[scan_row]
                /\ state_buffer' = [state_buffer EXCEPT ![scan_row] = Driven(drive, pixel)]
                /\ row_active' = [row_active EXCEPT ![scan_row] = Driven(drive, pixel).passes < Passes]
          /\ row_active[scan_row] =>
                /\ state_buffer' = [state_buffer EXCEPT ![scan_row] = Driven(drive, pixel)]
                /\ row_active' = [row_active EXCEPT ![scan_row] = Driven(drive, pixel).passes < Passes]
      BY <2>3 DEF ScanRow
    <3>2. Flipped /\ HeldFor' = HeldFor
      BY <2>1, <3>1 DEF Flipped, HeldFor
    <3>3. scan_front = front_index /\ scan_row \in Rows
      BY <1>0, <3>1, HeightAssumption DEF IInv, BufferInv, Scanning, Rows
    <3>4. CASE r = scan_row
      <4>1. DrivenFor(r, HeldFor)
        BY <1>0, <2>1, <3>1, <3>2, <3>4 DEF HoldInv
      <4>2. CASE ~row_active[r]
        BY <3>1, <3>4, <4>2 DEF DrivenFor
      <4>3. CASE row_active[r]
        <5>1. drive \in Drives /\ pixel \in Pixels
          BY <1>0, <3>3 DEF Images
        <5>2. Pulses(drive, pixel) >= HeldFor
          BY <3>3, <3>4, <4>1, <4>3 DEF DrivenFor
        <5>3. Driven(drive, pixel).passes < Passes => Pulses(Driven(drive, pixel), pixel) >= HeldFor + 1
          BY <1>0, <5>1, <5>2, OnePulseMore
        <5>4. state_buffer'[r] = Driven(drive, pixel)
              /\ (row_active'[r] <=> Driven(drive, pixel).passes < Passes)
          BY <1>0, <3>1, <3>4, <4>3
        <5>5. DrivenFor(r, HeldFor + 1)'
          BY <2>1, <3>1, <3>2, <3>3, <3>4, <5>3, <5>4 DEF DrivenFor
        <5> QED
          BY <1>0, <3>1, <3>4, <5>5
      <4> QED
        BY <4>2, <4>3
    <3>5. CASE r # scan_row
      <4>1. UNCHANGED <<state_buffer[r], row_active[r]>>
        BY <1>0, <3>1, <3>5
      <4>2. scan_row <= r <=> scan_row' <= r
        BY <1>0, <3>1, <3>5
      <4> QED
        BY <2>1, <3>1, <3>2, <4>1, <4>2 DEF DrivenFor, HoldInv
    <3> QED
      BY <3>4, <3>5
  <2>4. CASE EndRows \/ EndFrame \/ StopScan
    <3>1. UNCHANGED <<rows, queue, scan_row>>
      BY <2>4 DEF EndRows, EndFrame, StopScan
    <3>2. Flipped /\ HeldFor' = HeldFor
      BY <2>1, <3>1 DEF Flipped, HeldFor
    <3>3. scan_pc' # "rows"
      BY <2>4 DEF EndRows, EndFrame, StopScan
    <3>4. ~(scan_pc = "rows" /\ scan_row <= r)
      <4>1. r < Height /\ Height \in Nat
        BY HeightAssumption DEF Rows
      <4>2. scan_pc = "rows" => scan_row >= Height
        BY <1>0, <2>4, <4>1 DEF EndRows, EndFrame, StopScan
      <4> QED
        BY <1>0, <4>1, <4>2
    <3> QED
      BY <2>1, <3>1, <3>2, <3>3, <3>4 DEF DrivenFor, HoldInv
  <2> QED
    BY <1>1, <2>2, <2>3, <2>4 DEF ScanTask, Scan
<1>2. CASE Client
  <2>1. /\ UNCHANGED <<rows, scan, front_index>> /\ running
        /\ buffers'[front_index] = buffers[front_index]
    BY <1>2, ClientKeepsRows
  <2>2. Flipped /\ HeldFor' = HeldFor
    <3>1. FlipReturns \/ HoldClear
      BY <1>2, <2>1 DEF Client, Flipped, Clear, FirstPage, FlipWrite, Flip, ClearHeld, CopyPage, CopyWrite,
         ComposeFrame, SubmitWrite, SubmitFrame, Refresh, PowerOff, StartJob, WaitBeforeClean,
         Cleaned, WaitBeforePage, ComposePage, SubmitPage, WaitShown, WaitIdle, Refreshed,
         Shutdown, ShutdownQueue, ShutdownDone, Compose
    <3>2. CASE FlipReturns
      BY <3>2 DEF FlipReturns, Flipped, HeldFor
    <3>3. CASE HoldClear
      BY <1>0, <3>3 DEF HoldClear, Flipped, HeldFor
    <3> QED
      BY <3>1, <3>2, <3>3
  <2> QED
    BY <2>1, <2>2 DEF HoldInv, DrivenFor
<1>3. CASE UNCHANGED vars
  BY <1>3 DEF vars, HoldInv, Flipped, HeldFor, DrivenFor
<1> QED
  BY <1>1, <1>2, <1>3 DEF Next

\* A panel that shows the front buffer with all its pulses stays as it is.
LEMMA ShownStays ==
  ASSUME IInv, ScanTask, ~AfterShutdown, ImageShown, buffers[front_index] = image
  PROVE  panel' = panel
<1> USE DEF driver, queue, rows, scan, client
<1>1. CASE ScanRow
  <2>1. /\ scan_pc = "rows" /\ scan_row < Height
        /\ \/ panel' = panel
           \/ Pulses(state_buffer[scan_row], buffers[scan_front][scan_row]) < Passes
    BY <1>1 DEF ScanRow
  <2>2. scan_row \in Rows /\ scan_front = front_index /\ running
    BY <2>1, HeightAssumption DEF IInv, TypeOK, BufferInv, TaskInv, Scanning, Rows
  <2>3. state_buffer[scan_row] = [dir |-> image[scan_row], passes |-> Passes]
    BY <2>2 DEF IInv, RowsDriven, ImageShown, FullyDriven
  <2>4. Pulses(state_buffer[scan_row], buffers[scan_front][scan_row]) = Passes
    BY <2>2, <2>3 DEF Pulses
  <2> QED
    BY <2>1, <2>4, PassesAssumption
<1>2. CASE SwapBuffers \/ EndRows \/ EndFrame \/ StopScan
  BY <1>2 DEF SwapBuffers, StartFrame, EndRows, EndFrame, StopScan
<1> QED
  BY <1>1, <1>2 DEF ScanTask, Scan

LEMMA StepPage == IInv /\ IInv' /\ PageInv /\ [Next]_vars => PageInv'
<1> SUFFICES ASSUME IInv, IInv', PageInv, [Next]_vars PROVE PageInv'
  OBVIOUS
<1> USE DEF driver, queue, rows, scan, client
<1>0. /\ front_index \in 0 .. 1 /\ back \in 0 .. 1 /\ buffers \in [0 .. 1 -> Images]
      /\ flip_req \in BOOLEAN
      /\ flip_req => drive_pending
      /\ pc \in QuietLabels => ~flip_req
      /\ Composing => back = Backbuffer
  BY DEF IInv, TypeOK, BufferInv, TaskInv
<1>1. CASE ScanTask
  <2>0. UNCHANGED <<buffers, client>> /\ (SwapBuffers \/ UNCHANGED <<queue, buffers>>)
    BY <1>1, ScanKeepsClient
  <2>1. ImageShown /\ buffers[front_index] = image /\ ~AfterShutdown => ImageShown'
    BY <1>1, <2>0, ShownStays DEF ImageShown, FullyDriven
  <2>2. pc = "wait_shown" => buffers'[IF flip_req' THEN Backbuffer' ELSE front_index'] = image'
    <3>1. CASE SwapBuffers
      BY <1>0, <2>0, <3>1 DEF SwapBuffers, StartFrame, PageInv, Backbuffer
    <3>2. CASE UNCHANGED <<queue, buffers>>
      BY <2>0, <3>2 DEF PageInv, Backbuffer
    <3> QED
      BY <2>0, <3>1, <3>2
  <2>3. pc = "wait_shown" /\ ~SubmitPending' => ImageShown'
    <3> SUFFICES ASSUME pc = "wait_shown", ~flip_req', ~drive_pending' PROVE ImageShown'
      BY DEF SubmitPending
    <3>1. ~AfterShutdown
      BY DEF AfterShutdown
    <3>2. CASE EndFrame
      <4>1. pc' = "wait_shown" /\ running' /\ submitted'
        BY <2>0, <3>1, <3>2 DEF EndFrame, IInv, TaskInv, OneShown
      <4>2. \A r \in Rows : panel'[r] = [dir |-> buffers'[front_index'][r], passes |-> Passes]
        BY <4>1 DEF IInv, RowsDriven
      <4>3. buffers'[front_index'] = image'
        BY <2>0, <2>2
      <4> QED
        BY <4>2, <4>3 DEF ImageShown, FullyDriven
    <3>3. CASE ~EndFrame
      <4>1. ~flip_req /\ ~drive_pending
        BY <1>0, <1>1, <3>3 DEF ScanTask, Scan, SwapBuffers, StartFrame, ScanRow, EndRows, StopScan
      <4>2. ImageShown /\ buffers[front_index] = image
        BY <4>1 DEF PageInv, SubmitPending
      <4> QED
        BY <2>1, <3>1, <4>2
    <3> QED
      BY <3>2, <3>3
  <2>4. pc = "shutdown" => ImageShown' /\ buffers'[front_index'] = image'
    <3> SUFFICES ASSUME pc = "shutdown" PROVE ImageShown' /\ buffers'[front_index'] = image'
      OBVIOUS
    <3>1. ~AfterShutdown /\ ~flip_req
      BY <1>0 DEF AfterShutdown, QuietLabels
    <3>2. front_index' = front_index
      BY <2>0, <3>1 DEF SwapBuffers, StartFrame
    <3> QED
      BY <2>0, <2>1, <3>1, <3>2 DEF PageInv
  <2> QED
    BY <2>0, <2>2, <2>3, <2>4 DEF PageInv
<1>2. CASE SubmitWrite
  <2>1. pc' = "submit" /\ UNCHANGED <<back, image>> /\ buffers' = [buffers EXCEPT ![back] = image]
    BY <1>2 DEF SubmitWrite, Write
  <2> QED
    BY <1>0, <2>1 DEF PageInv
<1>3. CASE SubmitPage
  <2>1. /\ pc = "submit" /\ pc' \in {"wait_page", "wait_shown"} /\ flip_req'
        /\ UNCHANGED <<buffers, front_index, image>>
    BY <1>3 DEF SubmitPage, Submit, Queue
  <2>2. buffers[Backbuffer] = image /\ Backbuffer' = Backbuffer
    BY <1>0, <2>1 DEF PageInv, Composing, Backbuffer
  <2> QED
    BY <2>1, <2>2 DEF PageInv, SubmitPending
<1>4. CASE WaitShown
  <2>1. pc = "wait_shown" /\ pc' \in {"refreshed", "shutdown"} /\ ~SubmitPending
        /\ UNCHANGED <<buffers, front_index, image, panel>>
    BY <1>4 DEF WaitShown, WaitIdle
  <2> QED
    BY <2>1 DEF PageInv, SubmitPending, ImageShown, FullyDriven
<1>5. CASE \/ Clear \/ FirstPage \/ FlipWrite \/ Flip \/ FlipReturns \/ HoldClear \/ ClearHeld
           \/ CopyPage \/ CopyWrite \/ ComposeFrame \/ SubmitFrame \/ Refresh \/ PowerOff
           \/ WaitBeforeClean \/ Cleaned \/ WaitBeforePage \/ ComposePage
           \/ Refreshed \/ Shutdown \/ ShutdownQueue \/ ShutdownDone
  <2>1. pc' \notin {"submit", "wait_shown", "shutdown"}
    BY <1>5 DEF Clear, FirstPage, FlipWrite, Flip, FlipReturns, HoldClear, ClearHeld, CopyPage,
       CopyWrite, ComposeFrame, SubmitFrame, Refresh, PowerOff, StartJob, WaitBeforeClean, WaitIdle,
       Cleaned, WaitBeforePage, ComposePage, Refreshed, Shutdown, ShutdownQueue, ShutdownDone,
       Compose
  <2> QED
    BY <2>1 DEF PageInv
<1>6. CASE UNCHANGED vars
  BY <1>6 DEF vars, PageInv, SubmitPending, ImageShown, FullyDriven, Backbuffer
<1> QED
  BY <1>1, <1>2, <1>3, <1>4, <1>5, <1>6 DEF Next, Client

LEMMA DriveInvariant == Spec => [](IInv /\ DriveInv)
<1>1. Init => DriveInv
  <2> SUFFICES ASSUME Init PROVE DriveInv
    OBVIOUS
  <2>1. pc = "clear"
    BY DEF Init
  <2> QED
    BY <2>1 DEF DriveInv, ClearInv, HoldInv, PageInv, Flipped
<1>2. IInv /\ IInv' /\ DriveInv /\ [Next]_vars => DriveInv'
  BY StepClear, StepHold, StepPage DEF DriveInv
<1> QED
  BY <1>1, <1>2, InductiveInvariant, PTL DEF Spec

\* A clear frame is held for at least as many frames as a pixel needs pulses
\* (kClearWhiteFrames and kClearBlackFrames are 5 and 7, kVideoDrivePasses is 3),
\* and then no step of the client goes on before the panel was driven all the way:
\* not to the next clear frame, and not to cutting the power under the last page.
THEOREM DrivesAreComplete == ASSUME Hold >= Passes PROVE Spec => []DrivesComplete
<1>1. IInv /\ DriveInv => ClearsAreComplete
  <2> SUFFICES ASSUME IInv, DriveInv, pc = "hold", vsync_due = 0, running, NEW r \in Rows
               PROVE  FullyDriven(r, ClearColor(count))
    BY DEF ClearsAreComplete
  <2>1. buffers[front_index] = Blank(ClearColor(count))
    BY DEF DriveInv, ClearInv
  <2>2. front_index \in 0 .. 1 /\ state_buffer[r] \in Drives
    BY DEF IInv, TypeOK
  <2>3. DrivenFor(r, Hold) \/ DrivenFor(r, Hold + 1)
    BY HoldAssumption DEF DriveInv, HoldInv, Flipped, HeldFor
  <2>4. CASE ~row_active[r]
    <3>1. submitted /\ panel = state_buffer
      BY DEF IInv, TaskInv, OneShown, RowsDriven
    <3> QED
      BY <2>1, <2>4, <3>1 DEF IInv, RowsDriven, FullyDriven, Blank
  <2>5. CASE row_active[r]
    <3>1. Pulses(state_buffer[r], ClearColor(count)) >= Hold
      BY <2>1, <2>2, <2>3, <2>5, HoldAssumption, PassesAssumption DEF DrivenFor, Blank, Pulses, Drives
    <3>2. state_buffer[r].dir = ClearColor(count) /\ state_buffer[r].passes = Passes
      BY <2>2, <3>1, HoldAssumption, PassesAssumption DEF Pulses, Drives
    <3>3. state_buffer[r] = [dir |-> ClearColor(count), passes |-> Passes]
      BY <2>2, <3>2 DEF Drives
    <3> QED
      BY <3>3 DEF IInv, RowsDriven, FullyDriven
  <2> QED
    BY <2>2, <2>4, <2>5
<1>2. DriveInv => OffShowsPage
  BY DEF DriveInv, PageInv, OffShowsPage, ImageShown
<1> QED
  BY <1>1, <1>2, DriveInvariant, PTL DEF DrivesComplete
=============================================================================
