---------------------------- MODULE DevicesProofs ----------------------------
(***************************************************************************)
(* Proofs about Devices.  Whatever a step does, the display controller is  *)
(* inside the mode it shows, and its place in the frame is the cycles that *)
(* went by since the blank began.                                          *)
(***************************************************************************)
EXTENDS Devices, WellFoundedInduction, TLAPS

(* The constants as the proofs use them.                                    *)
LEMMA Sizes ==
  /\ LCD_LINE_CYCLES \in Nat \ {0} /\ PPU_MODE_2_OAM_CYCLES \in Nat \ {0}
  /\ PPU_MODE_3_VRAM_MIN_CYCLES \in Nat \ {0} /\ PPU_MODE_3_VRAM_MAX_CYCLES \in Nat \ {0}
  /\ LCD_HEIGHT \in Nat \ {0} /\ LCD_VERT_LINES \in Nat \ {0}
  /\ WindowCost \in Nat /\ SpriteCost \in Nat /\ OnCount \in Nat /\ Scrolls \subseteq Nat
  /\ PPU_MODE_3_VRAM_MIN_CYCLES <= PPU_MODE_3_VRAM_MAX_CYCLES
  /\ PPU_MODE_2_OAM_CYCLES + PPU_MODE_3_VRAM_MAX_CYCLES < LCD_LINE_CYCLES
  /\ LCD_HEIGHT + 1 < LCD_VERT_LINES
  /\ OnCount < PPU_MODE_2_OAM_CYCLES
BY LcdAssumption

LEMMA FrameIsLong ==
  /\ LCD_FRAME_CYCLES \in Nat \ {0} /\ LCD_LINE_CYCLES <= LCD_FRAME_CYCLES
  /\ \A row \in 0..(LCD_VERT_LINES - 1), into \in 0..(LCD_LINE_CYCLES - 1) :
       row * LCD_LINE_CYCLES + into < LCD_FRAME_CYCLES
  /\ \A row \in Nat : (row + 1) * LCD_LINE_CYCLES = row * LCD_LINE_CYCLES + LCD_LINE_CYCLES
<1>1. ASSUME NEW row \in 0..(LCD_VERT_LINES - 1), NEW into \in 0..(LCD_LINE_CYCLES - 1)
      PROVE  row * LCD_LINE_CYCLES + into < LCD_FRAME_CYCLES
  <2>1. LCD_LINE_CYCLES * LCD_VERT_LINES
           = row * LCD_LINE_CYCLES + LCD_LINE_CYCLES * (LCD_VERT_LINES - row)
    BY Sizes
  <2>2. LCD_LINE_CYCLES * (LCD_VERT_LINES - row) >= LCD_LINE_CYCLES
    BY Sizes
  <2>3. row * LCD_LINE_CYCLES \in Nat
    BY Sizes
  <2> QED
    BY Sizes, <2>1, <2>2, <2>3 DEF LCD_FRAME_CYCLES
<1>2. LCD_FRAME_CYCLES \in Nat \ {0} /\ LCD_LINE_CYCLES <= LCD_FRAME_CYCLES
  BY Sizes DEF LCD_FRAME_CYCLES
<1>3. \A row \in Nat : (row + 1) * LCD_LINE_CYCLES = row * LCD_LINE_CYCLES + LCD_LINE_CYCLES
  BY Sizes
<1> QED
  BY <1>1, <1>2, <1>3

LEMMA ModesLast ==
  ASSUME NEW l
  PROVE  /\ l.mode = "oam" => Duration(l) = PPU_MODE_2_OAM_CYCLES
         /\ l.mode = "transfer" => Duration(l) = l.mode3
         /\ l.mode = "hblank" =>
              Duration(l) = LCD_LINE_CYCLES - PPU_MODE_2_OAM_CYCLES - l.mode3
         /\ l.mode = "vblank" => Duration(l) = LCD_LINE_CYCLES
<1>1. /\ "oam" # "transfer" /\ "oam" # "hblank" /\ "oam" # "vblank" /\ "transfer" # "hblank"
      /\ "transfer" # "vblank" /\ "hblank" # "vblank"
  OBVIOUS
<1> QED
  BY <1>1, Zenon DEF Duration

LEMMA ModesEnd ==
  ASSUME NEW l, NEW scx, NEW window, NEW skipped
  PROVE  LET m == [l EXCEPT !.count = @ - Duration(l)]
         IN  /\ l.mode = "oam" => Ended(l, scx, window, skipped) = EnterTransfer(m, scx, window)
             /\ l.mode = "transfer" => Ended(l, scx, window, skipped) = EnterHblank(m, skipped)
             /\ l.mode = "hblank" => Ended(l, scx, window, skipped) = NextLine(m)
             /\ l.mode = "vblank" => Ended(l, scx, window, skipped) = NextBlankLine(m)
<1>1. /\ "oam" # "transfer" /\ "oam" # "hblank" /\ "oam" # "vblank" /\ "transfer" # "hblank"
      /\ "transfer" # "vblank" /\ "hblank" # "vblank"
  OBVIOUS
<1> QED
  BY <1>1, Zenon DEF Ended

(* What a comparison and an update of the STAT line leave alone.            *)
SamePicture(l, r) ==
  /\ r.on = l.on /\ r.mode = l.mode /\ r.LY = l.LY /\ r.LYC = l.LYC /\ r.sel = l.sel
  /\ r.count = l.count /\ r.mode3 = l.mode3 /\ r.off_count = l.off_count
  /\ r.gb_frame = l.gb_frame /\ r.drawn = l.drawn

LEMMA UpdateKeeps ==
  ASSUME NEW l \in LcdRecords
  PROVE  LET r == UpdateStatIrq(l)
         IN  /\ r \in LcdRecords /\ SamePicture(l, r)
             /\ r.coinc = l.coinc /\ r.stat_line = Line(r)
<1>1. Line(l) \in BOOLEAN
  BY DEF Line
<1>2. UpdateStatIrq(l) \in LcdRecords /\ SamePicture(l, UpdateStatIrq(l))
      /\ UpdateStatIrq(l).coinc = l.coinc /\ UpdateStatIrq(l).stat_line = Line(l)
  BY <1>1 DEF UpdateStatIrq, LcdRecords, SamePicture
<1> QED
  BY <1>2 DEF Line, SamePicture

LEMMA CheckedKeeps ==
  ASSUME NEW l \in LcdRecords
  PROVE  LET r == Checked(l)
         IN  /\ r \in LcdRecords /\ SamePicture(l, r)
             /\ r.coinc = (r.LY = r.LYC) /\ r.stat_line = Line(r)
<1>1. CheckLyc(l) \in LcdRecords /\ SamePicture(l, CheckLyc(l))
      /\ CheckLyc(l).coinc = (l.LY = l.LYC)
  <2> DEFINE same == (l.LY = l.LYC)
  <2>1. same \in BOOLEAN
    OBVIOUS
  <2> HIDE DEF same
  <2>2. [l EXCEPT !.coinc = same] \in LcdRecords /\ SamePicture(l, [l EXCEPT !.coinc = same])
        /\ [l EXCEPT !.coinc = same].coinc = same
    BY <2>1 DEF LcdRecords, SamePicture
  <2> QED
    BY <2>2 DEF CheckLyc, same
<1>2. Checked(l) = UpdateStatIrq(CheckLyc(l))
  BY DEF Checked
<1> HIDE DEF LcdRecords
<1> QED
  BY <1>1, <1>2, UpdateKeeps DEF SamePicture

-----------------------------------------------------------------------------
(* A step of the display controller.                                        *)

(* The controller is inside its mode, on a line that has this mode.         *)
Good(l) ==
  /\ l \in LcdRecords /\ l.off_count < LCD_FRAME_CYCLES
  /\ l.on => /\ l.count < Duration(l)
             /\ IF l.mode = "vblank" THEN l.LY = 0 \/ l.LY >= LCD_HEIGHT ELSE l.LY < LCD_HEIGHT

(* A step the controller can keep up with: a short one, or one that does    *)
(* not go past the end of what the controller is in.                        *)
Short(n) ==
  /\ n \in Nat \ {0}
  /\ n + OnCount <= PPU_MODE_2_OAM_CYCLES /\ n <= PPU_MODE_3_VRAM_MIN_CYCLES
  /\ n <= LCD_LINE_CYCLES - PPU_MODE_2_OAM_CYCLES - PPU_MODE_3_VRAM_MAX_CYCLES
Fits(l, n) ==
  /\ n \in Nat \ {0}
  /\ Short(n) \/ (IF l.on THEN l.count + n <= Duration(l) ELSE l.off_count + n <= LCD_FRAME_CYCLES)

(* Where in the frame the controller is, in cycles since the blank began,   *)
(* and how many lines it has drawn.                                         *)
Row(l) ==
  IF l.mode # "vblank" THEN LCD_VERT_LINES - LCD_HEIGHT + l.LY
  ELSE IF l.LY = 0 THEN LCD_VERT_LINES - 1 - LCD_HEIGHT ELSE l.LY - LCD_HEIGHT
Into(l) ==
  IF l.mode = "transfer" THEN PPU_MODE_2_OAM_CYCLES + l.count
  ELSE IF l.mode = "hblank" THEN PPU_MODE_2_OAM_CYCLES + l.mode3 + l.count ELSE l.count
Position(l) == Row(l) * LCD_LINE_CYCLES + Into(l)
Done(l) == IF l.mode = "vblank" THEN 0 ELSE IF l.mode = "hblank" THEN l.LY + 1 ELSE l.LY

StatAgrees(l) == l.stat_line = Line(l)
Compares(l)   == l.coinc = (l.LY = l.LYC)
StatStays(l, r) ==
  /\ StatAgrees(l) => StatAgrees(r)
  /\ (Compares(l) \/ r.LY # l.LY) => Compares(r)

(* The frame goes on by n cycles, or ends.                                  *)
Goes(l, n, r) ==
  /\ r.gb_frame = l.gb_frame /\ Row(r) \in Nat /\ Position(r) = Position(l) + n
  /\ \/ r.drawn = {} /\ Done(r) = Done(l)
     \/ l.mode = "transfer" /\ r.mode = "hblank" /\ r.LY = l.LY
FrameEnds(l, r) ==
  /\ r.gb_frame /\ r.mode = "vblank" /\ r.LY = LCD_HEIGHT
  /\ Done(l) = LCD_HEIGHT /\ r.drawn = {}
Advanced(l, n, r) ==
  /\ Good(r) /\ r.on /\ StatStays(l, r)
  /\ Goes(l, n, r) \/ FrameEnds(l, r)

LEMMA Mode3Fits ==
  ASSUME NEW scx \in Scrolls \union {0}, NEW window \in BOOLEAN
  PROVE  Mode3(scx, window) \in PPU_MODE_3_VRAM_MIN_CYCLES..PPU_MODE_3_VRAM_MAX_CYCLES
BY Sizes DEF Mode3

(* Cycles are counted; the last line of the blank changes its number.       *)
LEMMA CountKeeps ==
  ASSUME NEW l, Good(l), l.on, l.drawn = {}, NEW n, Fits(l, n)
  PROVE  LET m == ShortLine([l EXCEPT !.count = @ + n])
         IN  /\ m \in LcdRecords /\ m.on /\ m.mode = l.mode /\ m.count = l.count + n
             /\ m.mode3 = l.mode3 /\ m.off_count = l.off_count /\ m.gb_frame = l.gb_frame
             /\ m.drawn = {} /\ StatStays(l, m) /\ Duration(m) = Duration(l)
             /\ IF l.mode = "vblank" THEN m.LY = (IF l.LY = LCD_VERT_LINES - 1 THEN 0 ELSE l.LY)
                ELSE m.LY = l.LY
<1> DEFINE a == [l EXCEPT !.count = @ + n]
           b == [a EXCEPT !.LY = 0]
           m == ShortLine(a)
<1>1. a \in LcdRecords /\ a.on /\ a.mode = l.mode /\ a.count = l.count + n /\ a.mode3 = l.mode3
      /\ a.off_count = l.off_count /\ a.gb_frame = l.gb_frame /\ a.drawn = {} /\ a.LY = l.LY
      /\ a.LYC = l.LYC /\ a.sel = l.sel /\ a.coinc = l.coinc /\ a.stat_line = l.stat_line
  BY DEF Good, Fits, LcdRecords
<1> HIDE DEF a
<1>2. b \in LcdRecords /\ b.on /\ b.mode = l.mode /\ b.count = l.count + n /\ b.mode3 = l.mode3
      /\ b.off_count = l.off_count /\ b.gb_frame = l.gb_frame /\ b.drawn = {} /\ b.LY = 0
  BY <1>1, Sizes DEF LcdRecords
<1>3. m = IF a.mode = "vblank" /\ a.LY = LCD_VERT_LINES - 1 THEN Checked(b) ELSE a
  BY DEF ShortLine
<1> HIDE DEF b, m
<1> DEFINE Claim ==
      /\ m \in LcdRecords /\ m.on /\ m.mode = l.mode /\ m.count = l.count + n
      /\ m.mode3 = l.mode3 /\ m.off_count = l.off_count /\ m.gb_frame = l.gb_frame
      /\ m.drawn = {} /\ StatStays(l, m) /\ Duration(m) = Duration(l)
      /\ IF l.mode = "vblank" THEN m.LY = (IF l.LY = LCD_VERT_LINES - 1 THEN 0 ELSE l.LY)
         ELSE m.LY = l.LY
<1>4. l.mode \in Modes /\ l.LY \in 0..(LCD_VERT_LINES - 1)
  BY DEF Good, LcdRecords
<1>5. ASSUME a.mode = "vblank", a.LY = LCD_VERT_LINES - 1 PROVE Claim
  <2>1. m \in LcdRecords /\ SamePicture(b, m) /\ Compares(m) /\ StatAgrees(m)
    BY <1>2, <1>3, <1>5, CheckedKeeps DEF Compares, StatAgrees
  <2>2. Duration(m) = Duration(l)
    BY <1>1, <1>5, <2>1, <1>2, ModesLast DEF SamePicture
  <2> QED
    BY <1>1, <1>2, <1>5, <2>1, <2>2 DEF SamePicture, StatStays
<1>6. ASSUME ~(a.mode = "vblank" /\ a.LY = LCD_VERT_LINES - 1) PROVE Claim
  <2>1. Duration(m) = Duration(l)
    BY <1>1, <1>3, <1>4, <1>6, ModesLast DEF Modes
  <2>2. StatStays(l, m)
    BY <1>1, <1>3, <1>6, Zenon DEF StatStays, StatAgrees, Compares, Line
  <2> QED
    BY <1>1, <1>3, <1>4, <1>6, <2>1, <2>2
<1>7. Claim
  BY <1>5, <1>6
<1> QED
  BY <1>7, Zenon DEF m, a

(* The mode goes on.                                                        *)
LEMMA ModeGoesOn ==
  ASSUME NEW l, Good(l), l.on, l.drawn = {}, NEW n, Fits(l, n),
         NEW m, m = ShortLine([l EXCEPT !.count = @ + n]), m.count < Duration(m)
  PROVE  Advanced(l, n, m)
<1>1. /\ m \in LcdRecords /\ m.on /\ m.mode = l.mode /\ m.count = l.count + n
      /\ m.mode3 = l.mode3 /\ m.off_count = l.off_count /\ m.gb_frame = l.gb_frame
      /\ m.drawn = {} /\ StatStays(l, m) /\ Duration(m) = Duration(l)
      /\ IF l.mode = "vblank" THEN m.LY = (IF l.LY = LCD_VERT_LINES - 1 THEN 0 ELSE l.LY)
         ELSE m.LY = l.LY
  BY CountKeeps
<1>2. Good(m)
  BY <1>1 DEF Good
<1>3. Row(m) = Row(l) /\ Row(l) \in Nat /\ Into(m) = Into(l) + n /\ Into(l) \in Nat /\ Done(m) = Done(l)
  BY <1>1, Sizes DEF Good, Fits, LcdRecords, Row, Into, Done
<1>4. Position(m) = Position(l) + n
  <2>1. Row(l) * LCD_LINE_CYCLES \in Nat /\ n \in Nat
    BY <1>3, Sizes DEF Fits
  <2> QED
    BY <1>3, <2>1 DEF Position
<1> QED
  BY <1>1, <1>2, <1>3, <1>4 DEF Advanced, Goes

(* What is left when a mode ends: less than a short step, or nothing.       *)
Ending(l, n, e) ==
  /\ Good(l) /\ l.on /\ Fits(l, n)
  /\ e \in LcdRecords /\ e.on /\ e.mode = l.mode /\ e.mode3 = l.mode3
  /\ e.off_count = l.off_count /\ e.gb_frame = l.gb_frame /\ e.drawn = {}
  /\ e.count = l.count + n - Duration(l)
  /\ e.count = 0 \/ (Short(n) /\ e.count < n)
  /\ Compares(l) /\ l.mode # "vblank" => Compares(e)
  /\ IF l.mode = "vblank" THEN e.LY = (IF l.LY = LCD_VERT_LINES - 1 THEN 0 ELSE l.LY)
     ELSE e.LY = l.LY

LEMMA ModeIsOver ==
  ASSUME NEW l, Good(l), l.on, l.drawn = {}, NEW n, Fits(l, n),
         NEW m, m = ShortLine([l EXCEPT !.count = @ + n]), ~(m.count < Duration(m))
  PROVE  Ending(l, n, [m EXCEPT !.count = @ - Duration(m)])
<1> DEFINE left == m.count - Duration(m)
           e == [m EXCEPT !.count = left]
<1>1. /\ m \in LcdRecords /\ m.on /\ m.mode = l.mode /\ m.count = l.count + n
      /\ m.mode3 = l.mode3 /\ m.off_count = l.off_count /\ m.gb_frame = l.gb_frame
      /\ m.drawn = {} /\ StatStays(l, m) /\ Duration(m) = Duration(l)
      /\ IF l.mode = "vblank" THEN m.LY = (IF l.LY = LCD_VERT_LINES - 1 THEN 0 ELSE l.LY)
         ELSE m.LY = l.LY
  BY CountKeeps
<1>2. Duration(l) \in Nat /\ l.count < Duration(l) /\ l.count \in Nat /\ n \in Nat
  BY ModesLast, Sizes DEF Good, LcdRecords, Modes, Fits
<1>3. l.count + n - Duration(l) \in Nat
      /\ (l.count + n - Duration(l) = 0 \/ (Short(n) /\ l.count + n - Duration(l) < n))
  BY <1>1, <1>2 DEF Fits
<1>a. left = l.count + n - Duration(l)
  BY <1>1, <1>2
<1> HIDE DEF left
<1>4. e \in LcdRecords /\ e.on = m.on /\ e.mode = m.mode /\ e.mode3 = m.mode3 /\ e.LY = m.LY
      /\ e.off_count = m.off_count /\ e.gb_frame = m.gb_frame /\ e.drawn = m.drawn
      /\ e.count = left /\ e.LYC = m.LYC /\ e.coinc = m.coinc
  BY <1>1, <1>3, <1>a DEF LcdRecords
<1> HIDE DEF e
<1>5. Compares(l) /\ l.mode # "vblank" => Compares(e)
  BY <1>1, <1>4, Zenon DEF StatStays, Compares
<1>6. Ending(l, n, e)
  BY <1>1, <1>3, <1>4, <1>5, <1>a DEF Ending
<1> QED
  BY <1>6, Zenon DEF e, left

LEMMA EndOfOam ==
  ASSUME NEW l, NEW n, NEW e, Ending(l, n, e), l.mode = "oam",
         NEW scx \in Scrolls \union {0}, NEW window \in BOOLEAN
  PROVE  Advanced(l, n, EnterTransfer(e, scx, window))
<1> DEFINE length == Mode3(scx, window)
           a == [e EXCEPT !.mode = "transfer", !.mode3 = length]
           r == UpdateStatIrq(a)
<1>1. length \in PPU_MODE_3_VRAM_MIN_CYCLES..PPU_MODE_3_VRAM_MAX_CYCLES
  BY Mode3Fits
<1> HIDE DEF length
<1>2. a \in LcdRecords /\ a.on /\ a.mode = "transfer" /\ a.mode3 = length /\ a.drawn = {}
      /\ a.off_count = e.off_count /\ a.gb_frame = e.gb_frame /\ a.count = e.count
      /\ a.LY = e.LY /\ a.LYC = e.LYC /\ a.coinc = e.coinc
  BY <1>1 DEF Ending, LcdRecords, Modes
<1> HIDE DEF a
<1>3. r \in LcdRecords /\ SamePicture(a, r) /\ r.coinc = a.coinc /\ StatAgrees(r)
  BY <1>2, UpdateKeeps DEF StatAgrees
<1> HIDE DEF r
<1>4. Duration(r) = length /\ Duration(l) = PPU_MODE_2_OAM_CYCLES
  BY <1>2, <1>3, ModesLast DEF SamePicture
<1>5. Good(r) /\ r.on
  BY <1>1, <1>2, <1>3, <1>4, Sizes DEF Good, Ending, SamePicture, Short, LcdRecords
<1>6. StatStays(l, r)
  BY <1>2, <1>3 DEF StatStays, Compares, SamePicture, Ending
<1>7. Row(r) = Row(l) /\ Row(l) \in Nat /\ Into(r) = Into(l) + n /\ Into(l) \in Nat /\ Done(r) = Done(l)
      /\ r.drawn = {} /\ r.gb_frame = l.gb_frame
  BY <1>2, <1>3, <1>4, Sizes DEF SamePicture, Ending, Good, Fits, LcdRecords, Row, Into, Done
<1>8. Position(r) = Position(l) + n
  <2>1. Row(l) * LCD_LINE_CYCLES \in Nat /\ n \in Nat
    BY <1>7, Sizes DEF Ending, Fits
  <2> QED
    BY <1>7, <2>1 DEF Position
<1>9. Advanced(l, n, r)
  BY <1>5, <1>6, <1>7, <1>8 DEF Advanced, Goes
<1> QED
  BY <1>9, Zenon DEF EnterTransfer, r, a, length

LEMMA EndOfTransfer ==
  ASSUME NEW l, NEW n, NEW e, Ending(l, n, e), l.mode = "transfer", NEW skipped \in BOOLEAN
  PROVE  Advanced(l, n, EnterHblank(e, skipped))
         /\ EnterHblank(e, skipped).drawn = IF skipped THEN {} ELSE {l.LY}
<1> DEFINE drawn == IF skipped THEN {} ELSE {e.LY}
           a == [e EXCEPT !.mode = "hblank", !.drawn = drawn]
           r == UpdateStatIrq(a)
<1>1. drawn \in SUBSET Nat
  BY DEF Ending, LcdRecords
<1>a. e.LY = l.LY /\ drawn = IF skipped THEN {} ELSE {l.LY}
  BY DEF Ending
<1> HIDE DEF drawn
<1>2. a \in LcdRecords /\ a.on /\ a.mode = "hblank" /\ a.mode3 = e.mode3 /\ a.drawn = drawn
      /\ a.off_count = e.off_count /\ a.gb_frame = e.gb_frame /\ a.count = e.count
      /\ a.LY = e.LY /\ a.LYC = e.LYC /\ a.coinc = e.coinc
  BY <1>1 DEF Ending, LcdRecords, Modes
<1> HIDE DEF a
<1>3. r \in LcdRecords /\ SamePicture(a, r) /\ r.coinc = a.coinc /\ StatAgrees(r)
  BY <1>2, UpdateKeeps DEF StatAgrees
<1> HIDE DEF r
<1>4. Duration(r) = LCD_LINE_CYCLES - PPU_MODE_2_OAM_CYCLES - r.mode3 /\ Duration(l) = l.mode3
  BY <1>2, <1>3, ModesLast DEF SamePicture
<1>5. Good(r) /\ r.on
  BY <1>2, <1>3, <1>4, Sizes DEF Good, Ending, SamePicture, Short, LcdRecords
<1>6. StatStays(l, r)
  BY <1>2, <1>3 DEF StatStays, Compares, SamePicture, Ending
<1>7. Row(r) = Row(l) /\ Row(l) \in Nat /\ Into(r) = Into(l) + n /\ Into(l) \in Nat
      /\ r.drawn = drawn /\ r.gb_frame = l.gb_frame /\ r.mode = "hblank" /\ r.LY = l.LY
  BY <1>2, <1>3, <1>4, Sizes DEF SamePicture, Ending, Good, Fits, LcdRecords, Row, Into
<1>8. Position(r) = Position(l) + n
  <2>1. Row(l) * LCD_LINE_CYCLES \in Nat /\ n \in Nat
    BY <1>7, Sizes DEF Ending, Fits
  <2> QED
    BY <1>7, <2>1 DEF Position
<1>9. Advanced(l, n, r)
  BY <1>5, <1>6, <1>7, <1>8 DEF Advanced, Goes
<1>10. r = EnterHblank(e, skipped)
  BY Zenon DEF EnterHblank, r, a, drawn
<1> QED
  BY <1>a, <1>7, <1>9, <1>10

LEMMA EndOfHblank ==
  ASSUME NEW l, NEW n, NEW e, Ending(l, n, e), l.mode = "hblank"
  PROVE  Advanced(l, n, NextLine(e))
<1> DEFINE a == [e EXCEPT !.LY = @ + 1]
           b == [a EXCEPT !.mode = "vblank", !.gb_frame = TRUE, !.raised = @ \cup {"vblank"}]
           c == UpdateStatIrq(b)
           d == [e EXCEPT !.LY = @ + 1, !.mode = "oam"]
<1>1. e.LY = l.LY /\ l.LY < LCD_HEIGHT /\ l.LY \in Nat /\ e.LY + 1 \in 0..(LCD_VERT_LINES - 1)
  BY Sizes DEF Ending, Good, LcdRecords
<1>2. Duration(l) = LCD_LINE_CYCLES - PPU_MODE_2_OAM_CYCLES - l.mode3
  BY ModesLast DEF Ending
<1>3. a \in LcdRecords /\ a.on /\ a.off_count = e.off_count /\ a.count = e.count /\ a.drawn = {}
      /\ a.LY = e.LY + 1 /\ a.mode3 = e.mode3
  BY <1>1 DEF Ending, LcdRecords
<1>4. d \in LcdRecords /\ d.on /\ d.off_count = e.off_count /\ d.count = e.count /\ d.drawn = {}
      /\ d.LY = e.LY + 1 /\ d.mode3 = e.mode3 /\ d.mode = "oam" /\ d.gb_frame = e.gb_frame
  BY <1>1 DEF Ending, LcdRecords, Modes
<1>5. NextLine(e) = IF e.LY + 1 = LCD_HEIGHT THEN Checked(c) ELSE Checked(d)
  BY DEF NextLine, EnterVblank
<1> HIDE DEF a, d
<1>6. b \in LcdRecords /\ b.on /\ b.off_count = e.off_count /\ b.count = e.count /\ b.drawn = {}
      /\ b.LY = e.LY + 1 /\ b.mode = "vblank" /\ b.gb_frame
  BY <1>3 DEF LcdRecords, Modes
<1> HIDE DEF b
<1>7. c \in LcdRecords /\ SamePicture(b, c)
  BY <1>6, UpdateKeeps
<1> HIDE DEF c
<1>8. CASE e.LY + 1 = LCD_HEIGHT
  <2> DEFINE r == Checked(c)
  <2>1. r \in LcdRecords /\ SamePicture(c, r) /\ Compares(r) /\ StatAgrees(r)
    BY <1>7, CheckedKeeps DEF Compares, StatAgrees
  <2> HIDE DEF r
  <2>2. Duration(r) = LCD_LINE_CYCLES
    BY <1>6, <1>7, <2>1, ModesLast DEF SamePicture
  <2>3. r.on /\ r.off_count = l.off_count /\ r.count = e.count /\ r.drawn = {} /\ r.LY = LCD_HEIGHT
        /\ r.mode = "vblank" /\ r.gb_frame
    BY <1>6, <1>7, <1>8, <2>1 DEF SamePicture, Ending
  <2>4. Good(r)
    BY <2>1, <2>2, <2>3, Sizes DEF Good, Ending, Short, LcdRecords
  <2>5. FrameEnds(l, r)
    BY <1>1, <1>8, <2>3 DEF FrameEnds, Done
  <2>6. Advanced(l, n, r)
    BY <2>1, <2>3, <2>4, <2>5 DEF Advanced, StatStays
  <2> QED
    BY <1>5, <1>8, <2>6 DEF r
<1>9. CASE e.LY + 1 # LCD_HEIGHT
  <2> DEFINE r == Checked(d)
  <2>1. r \in LcdRecords /\ SamePicture(d, r) /\ Compares(r) /\ StatAgrees(r)
    BY <1>4, CheckedKeeps DEF Compares, StatAgrees
  <2> HIDE DEF r
  <2>2. Duration(r) = PPU_MODE_2_OAM_CYCLES
    BY <1>4, <2>1, ModesLast DEF SamePicture
  <2>3. r.on /\ r.off_count = l.off_count /\ r.count = e.count /\ r.drawn = {} /\ r.LY = l.LY + 1
        /\ r.mode = "oam" /\ r.gb_frame = l.gb_frame
    BY <1>1, <1>4, <2>1 DEF SamePicture, Ending
  <2>4. Good(r)
    BY <1>1, <1>9, <2>1, <2>2, <2>3, Sizes DEF Good, Ending, Short, LcdRecords
  <2>5. Row(r) = Row(l) + 1 /\ Row(l) \in Nat /\ Into(l) \in Nat /\ n \in Nat
        /\ Into(r) = Into(l) + n - LCD_LINE_CYCLES /\ Done(r) = Done(l)
    BY <1>1, <1>2, <2>3, Sizes DEF Ending, Good, Fits, LcdRecords, Row, Into, Done
  <2>6. Position(r) = Position(l) + n
    <3>1. Row(l) * LCD_LINE_CYCLES \in Nat
          /\ Row(r) * LCD_LINE_CYCLES = Row(l) * LCD_LINE_CYCLES + LCD_LINE_CYCLES
      BY <2>5, Sizes, FrameIsLong
    <3> QED
      BY <2>5, <3>1, Sizes DEF Position
  <2>7. Advanced(l, n, r)
    BY <2>1, <2>3, <2>4, <2>5, <2>6 DEF Advanced, StatStays, Goes
  <2> QED
    BY <1>5, <1>9, <2>7 DEF r
<1> QED
  BY <1>8, <1>9

LEMMA EndOfBlankLine ==
  ASSUME NEW l, NEW n, NEW e, Ending(l, n, e), l.mode = "vblank"
  PROVE  Advanced(l, n, NextBlankLine(e))
<1> DEFINE a == [e EXCEPT !.mode = "oam"]
           b == [e EXCEPT !.LY = @ + 1]
           c == IF e.LY = 0 THEN a ELSE b
           r == Checked(c)
<1>1. Duration(l) = LCD_LINE_CYCLES /\ l.LY \in 0..(LCD_VERT_LINES - 1)
      /\ (l.LY = 0 \/ l.LY >= LCD_HEIGHT) /\ e.LY = (IF l.LY = LCD_VERT_LINES - 1 THEN 0 ELSE l.LY)
  BY ModesLast DEF Ending, Good, LcdRecords
<1>2. a \in LcdRecords /\ a.on /\ a.off_count = e.off_count /\ a.count = e.count /\ a.drawn = {}
      /\ a.LY = e.LY /\ a.mode3 = e.mode3 /\ a.mode = "oam" /\ a.gb_frame = e.gb_frame
  BY DEF Ending, LcdRecords, Modes
<1>a. e.LY # 0 => e.LY + 1 \in 0..(LCD_VERT_LINES - 1)
  BY <1>1, Sizes
<1>3. ASSUME e.LY # 0
      PROVE  b \in LcdRecords /\ b.on /\ b.off_count = e.off_count /\ b.count = e.count
             /\ b.drawn = {} /\ b.LY = e.LY + 1 /\ b.mode3 = e.mode3 /\ b.mode = "vblank"
             /\ b.gb_frame = e.gb_frame
  BY <1>a, <1>3 DEF Ending, LcdRecords
<1> HIDE DEF a, b
<1>4. c \in LcdRecords /\ c.on /\ c.off_count = l.off_count /\ c.count = e.count /\ c.drawn = {}
      /\ c.gb_frame = l.gb_frame
      /\ IF e.LY = 0 THEN c.LY = 0 /\ c.mode = "oam" ELSE c.LY = e.LY + 1 /\ c.mode = "vblank"
  BY <1>2, <1>3 DEF Ending
<1> HIDE DEF c
<1>5. r \in LcdRecords /\ SamePicture(c, r) /\ Compares(r) /\ StatAgrees(r)
  BY <1>4, CheckedKeeps DEF Compares, StatAgrees
<1> HIDE DEF r
<1>6. r.on /\ r.off_count = l.off_count /\ r.count = e.count /\ r.drawn = {} /\ r.gb_frame = l.gb_frame
      /\ IF e.LY = 0 THEN r.LY = 0 /\ r.mode = "oam" ELSE r.LY = e.LY + 1 /\ r.mode = "vblank"
  BY <1>4, <1>5 DEF SamePicture
<1>7. Duration(r) = IF e.LY = 0 THEN PPU_MODE_2_OAM_CYCLES ELSE LCD_LINE_CYCLES
  BY <1>6, ModesLast
<1>8. Good(r)
  BY <1>1, <1>5, <1>6, <1>7, Sizes DEF Good, Ending, Short, LcdRecords
<1>9. Row(r) = Row(l) + 1 /\ Row(l) \in Nat /\ Into(l) \in Nat /\ n \in Nat
      /\ Into(r) = Into(l) + n - LCD_LINE_CYCLES /\ Done(r) = Done(l)
  BY <1>1, <1>6, Sizes DEF Ending, Good, Fits, LcdRecords, Row, Into, Done
<1>10. Position(r) = Position(l) + n
  <2>1. Row(l) * LCD_LINE_CYCLES \in Nat
        /\ Row(r) * LCD_LINE_CYCLES = Row(l) * LCD_LINE_CYCLES + LCD_LINE_CYCLES
    BY <1>9, Sizes, FrameIsLong
  <2> QED
    BY <1>9, <2>1, Sizes DEF Position
<1>11. Advanced(l, n, r)
  BY <1>5, <1>6, <1>8, <1>9, <1>10 DEF Advanced, StatStays, Goes
<1>12. r = NextBlankLine(e)
  BY Zenon DEF NextBlankLine, r, c, a, b
<1> QED
  BY <1>11, <1>12

(* Whatever the controller is in, a step that fits keeps it good.           *)
LEMMA OnAdvances ==
  ASSUME NEW l, Good(l), l.on, l.drawn = {}, NEW n, Fits(l, n),
         NEW scx \in Scrolls \union {0}, NEW window \in BOOLEAN, NEW skipped \in BOOLEAN
  PROVE  LET r == OnAdvance(l, n, scx, window, skipped)
         IN  /\ Advanced(l, n, r)
             /\ r.drawn = {} \/ (r.drawn = {l.LY} /\ ~skipped)
             /\ l.mode = "transfer" /\ r.mode = "hblank" /\ ~skipped => r.drawn = {l.LY}
<1> DEFINE m == ShortLine([l EXCEPT !.count = @ + n])
           e == [m EXCEPT !.count = @ - Duration(m)]
           r == OnAdvance(l, n, scx, window, skipped)
           Claim == /\ Advanced(l, n, r)
                    /\ r.drawn = {} \/ (r.drawn = {l.LY} /\ ~skipped)
                    /\ l.mode = "transfer" /\ r.mode = "hblank" /\ ~skipped => r.drawn = {l.LY}
<1>1. r = IF m.count < Duration(m) THEN m ELSE Ended(m, scx, window, skipped)
  BY DEF OnAdvance
<1>2. m.mode = l.mode /\ m.drawn = {} /\ l.mode \in Modes
  BY CountKeeps DEF Good, LcdRecords
<1>3. m.count < Duration(m) => Advanced(l, n, m)
  BY ModeGoesOn
<1>4. ~(m.count < Duration(m)) => Ending(l, n, e)
  BY ModeIsOver
<1>5. /\ m.mode = "oam" => Ended(m, scx, window, skipped) = EnterTransfer(e, scx, window)
      /\ m.mode = "transfer" => Ended(m, scx, window, skipped) = EnterHblank(e, skipped)
      /\ m.mode = "hblank" => Ended(m, scx, window, skipped) = NextLine(e)
      /\ m.mode = "vblank" => Ended(m, scx, window, skipped) = NextBlankLine(e)
  BY ModesEnd
<1> HIDE DEF m, e, r
<1>6. ASSUME m.count < Duration(m) PROVE Claim
  BY <1>1, <1>2, <1>3, <1>6
<1>7. ASSUME ~(m.count < Duration(m)) PROVE Claim
  <2>1. CASE l.mode = "oam"
    <3>1. Advanced(l, n, r)
      BY <1>1, <1>2, <1>4, <1>5, <1>7, <2>1, EndOfOam
    <3> QED
      BY <2>1, <3>1 DEF Advanced, Goes, FrameEnds
  <2>2. CASE l.mode = "transfer"
    <3>1. Advanced(l, n, r) /\ r.drawn = IF skipped THEN {} ELSE {l.LY}
      BY <1>1, <1>2, <1>4, <1>5, <1>7, <2>2, EndOfTransfer
    <3> QED
      BY <2>2, <3>1
  <2>3. CASE l.mode = "hblank"
    <3>1. Advanced(l, n, r)
      BY <1>1, <1>2, <1>4, <1>5, <1>7, <2>3, EndOfHblank
    <3> QED
      BY <2>3, <3>1 DEF Advanced, Goes, FrameEnds
  <2>4. CASE l.mode = "vblank"
    <3>1. Advanced(l, n, r)
      BY <1>1, <1>2, <1>4, <1>5, <1>7, <2>4, EndOfBlankLine
    <3> QED
      BY <2>4, <3>1 DEF Advanced, Goes, FrameEnds
  <2> QED
    BY <1>2, <2>1, <2>2, <2>3, <2>4 DEF Modes
<1>8. Claim
  BY <1>6, <1>7
<1> QED
  BY <1>8 DEF r

LEMMA LcdAdvances ==
  ASSUME NEW l, Good(l), NEW n, Fits(l, n),
         NEW scx \in Scrolls \union {0}, NEW window \in BOOLEAN, NEW skipped \in BOOLEAN
  PROVE  LET r == LcdAdvance(l, n, scx, window, skipped)
         IN  /\ Good(r) /\ r.on = l.on /\ StatStays(l, r)
             /\ r.drawn = {} \/ (r.drawn = {l.LY} /\ ~skipped)
             /\ l.on => /\ Goes(l, n, r) \/ FrameEnds(l, r)
                        /\ (l.mode = "transfer" /\ r.mode = "hblank" /\ ~skipped) => r.drawn = {l.LY}
<1> DEFINE c == [l EXCEPT !.raised = {}, !.drawn = {}]
           r == LcdAdvance(l, n, scx, window, skipped)
           Claim ==
             /\ Good(r) /\ r.on = l.on /\ StatStays(l, r)
             /\ r.drawn = {} \/ (r.drawn = {l.LY} /\ ~skipped)
             /\ l.on => /\ Goes(l, n, r) \/ FrameEnds(l, r)
                        /\ (l.mode = "transfer" /\ r.mode = "hblank" /\ ~skipped) => r.drawn = {l.LY}
<1>1. c \in LcdRecords /\ c.on = l.on /\ c.mode = l.mode /\ c.LY = l.LY /\ c.LYC = l.LYC
      /\ c.coinc = l.coinc /\ c.sel = l.sel /\ c.stat_line = l.stat_line /\ c.count = l.count
      /\ c.mode3 = l.mode3 /\ c.off_count = l.off_count /\ c.gb_frame = l.gb_frame /\ c.drawn = {}
      /\ l.mode \in Modes
  BY DEF Good, LcdRecords
<1>2. r = IF c.on THEN OnAdvance(c, n, scx, window, skipped) ELSE OffAdvance(c, n)
  BY <1>1 DEF LcdAdvance
<1> HIDE DEF c, r
<1>3. Duration(c) = Duration(l)
  BY <1>1, ModesLast DEF Modes
<1>4. Good(c) /\ Fits(c, n)
  BY <1>1, <1>3 DEF Good, Fits
<1>5. Line(c) = Line(l)
  BY <1>1 DEF Line
<1>6. ASSUME c.on PROVE Claim
  <2>1. /\ Advanced(c, n, r)
        /\ r.drawn = {} \/ (r.drawn = {c.LY} /\ ~skipped)
        /\ (c.mode = "transfer" /\ r.mode = "hblank" /\ ~skipped) => r.drawn = {c.LY}
    BY <1>1, <1>2, <1>4, <1>6, OnAdvances
  <2>2. StatStays(l, r)
    BY <1>1, <1>5, <2>1 DEF Advanced, StatStays, StatAgrees, Compares
  <2>3. Position(c) = Position(l) /\ Row(c) = Row(l) /\ Done(c) = Done(l)
    BY <1>1 DEF Position, Row, Into, Done
  <2>4. Goes(l, n, r) \/ FrameEnds(l, r)
    BY <1>1, <2>1, <2>3 DEF Advanced, Goes, FrameEnds
  <2> QED
    BY <1>1, <1>6, <2>1, <2>2, <2>4 DEF Advanced
<1>7. ASSUME ~c.on PROVE Claim
  <2> DEFINE more == c.off_count + n
             less == (c.off_count + n) - LCD_FRAME_CYCLES
             a == [c EXCEPT !.off_count = more]
             b == [c EXCEPT !.off_count = less, !.gb_frame = TRUE]
  <2>1. r = IF more < LCD_FRAME_CYCLES THEN a ELSE b
    BY <1>2, <1>7 DEF OffAdvance
  <2>2. more \in Nat /\ less < LCD_FRAME_CYCLES /\ (~(more < LCD_FRAME_CYCLES) => less \in Nat)
    BY <1>4, <1>7, Sizes, FrameIsLong DEF Good, Fits, Short, LcdRecords
  <2> HIDE DEF more, less
  <2>3. more \in Nat => /\ a \in LcdRecords /\ a.off_count = more
    BY <1>1 DEF LcdRecords
  <2>4. less \in Nat => /\ b \in LcdRecords /\ b.off_count = less
    BY <1>1 DEF LcdRecords
  <2>5. /\ a.on = c.on /\ a.mode = c.mode /\ a.LY = c.LY /\ a.LYC = c.LYC /\ a.coinc = c.coinc
        /\ a.sel = c.sel /\ a.stat_line = c.stat_line /\ a.drawn = c.drawn
        /\ b.on = c.on /\ b.mode = c.mode /\ b.LY = c.LY /\ b.LYC = c.LYC /\ b.coinc = c.coinc
        /\ b.sel = c.sel /\ b.stat_line = c.stat_line /\ b.drawn = c.drawn
    BY <1>1 DEF LcdRecords
  <2> HIDE DEF a, b
  <2>6. r \in LcdRecords /\ r.off_count < LCD_FRAME_CYCLES /\ r.on = c.on /\ r.mode = c.mode
        /\ r.LY = c.LY /\ r.LYC = c.LYC /\ r.coinc = c.coinc /\ r.sel = c.sel
        /\ r.stat_line = c.stat_line /\ r.drawn = c.drawn
    BY <2>1, <2>2, <2>3, <2>4, <2>5
  <2>7. Line(r) = Line(l)
    BY <1>1, <2>6 DEF Line
  <2>8. StatStays(l, r)
    BY <1>1, <2>6, <2>7 DEF StatStays, StatAgrees, Compares
  <2> QED
    BY <1>1, <1>7, <2>6, <2>8 DEF Good
<1>8. Claim
  BY <1>6, <1>7
<1> QED
  BY <1>8 DEF r

(* What the program writes leaves a good controller, on the line and in the *)
(* mode it was in unless it is switched.                                    *)
Written(l, r) ==
  /\ Good(r) /\ r.gb_frame = l.gb_frame
  /\ StatAgrees(l) => StatAgrees(r)
  /\ (r.on /\ (~l.on \/ Compares(l) \/ r.LY # l.LY \/ r.LYC # l.LYC)) => Compares(r)
  /\ (l.on /\ r.on) => Position(r) = Position(l) /\ Done(r) = Done(l) /\ Row(r) = Row(l)

LEMMA SamePlace ==
  ASSUME NEW l, NEW r, Good(l), r \in LcdRecords, r.on = l.on, r.mode = l.mode, r.LY = l.LY,
         r.count = l.count, r.mode3 = l.mode3, r.off_count = l.off_count
  PROVE  Good(r) /\ Position(r) = Position(l) /\ Done(r) = Done(l) /\ Row(r) = Row(l)
<1>1. l.mode \in Modes
  BY DEF Good, LcdRecords
<1>2. Duration(r) = Duration(l)
  BY <1>1, ModesLast DEF Modes
<1> QED
  BY <1>2 DEF Good, Position, Row, Into, Done

LEMMA LcdcIsWritten ==
  ASSUME NEW l, Good(l), NEW on \in BOOLEAN, on # l.on
  PROVE  Written(l, WriteLcdc(l, on))
<1> DEFINE no == FALSE
           a == [l EXCEPT !.on = on, !.count = OnCount, !.LY = 0, !.mode = "oam",
                          !.stat_line = no]
           b == [l EXCEPT !.on = on, !.off_count = 0, !.LY = 0, !.count = 0,
                          !.mode = "hblank", !.stat_line = no]
           r == WriteLcdc(l, on)
<1>0. no \in BOOLEAN /\ ~no /\ 0 \in 0..(LCD_VERT_LINES - 1) /\ OnCount \in Nat /\ 0 \in Nat
      /\ "oam" \in Modes /\ "hblank" \in Modes
  BY Sizes DEF Modes
<1>1. r = IF on THEN Checked(a) ELSE CheckLyc(b)
  <2>1. CASE on
    BY <2>1, Zenon DEF WriteLcdc
  <2>2. CASE ~on
    <3>1. on = FALSE
      BY <2>2
    <3> QED
      BY <2>2, <3>1, Zenon DEF WriteLcdc
  <2> QED
    BY <2>1, <2>2
<1> HIDE DEF no, r
<1>2. a \in LcdRecords /\ a.on = on /\ a.count = OnCount /\ a.mode = "oam" /\ a.LY = 0
      /\ a.gb_frame = l.gb_frame /\ a.off_count = l.off_count
  BY <1>0 DEF Good, LcdRecords
<1>3. b \in LcdRecords /\ b.on = on /\ b.mode = "hblank" /\ b.LY = 0 /\ b.stat_line = no
      /\ b.gb_frame = l.gb_frame /\ b.off_count = 0
  BY <1>0 DEF Good, LcdRecords
<1> HIDE DEF a, b
<1>4. CASE on
  <2>1. r \in LcdRecords /\ SamePicture(a, r) /\ Compares(r) /\ StatAgrees(r)
    BY <1>1, <1>2, <1>4, CheckedKeeps DEF Compares, StatAgrees
  <2>2. Good(r)
    BY <1>2, <2>1, ModesLast, Sizes DEF Good, SamePicture
  <2> QED
    BY <1>2, <1>4, <2>1, <2>2 DEF Written, SamePicture, r
<1>5. CASE ~on
  <2> DEFINE same == (b.LY = b.LYC)
  <2>1. same \in BOOLEAN
    OBVIOUS
  <2>2. r = [b EXCEPT !.coinc = same]
    BY <1>1, <1>5 DEF CheckLyc
  <2> HIDE DEF same
  <2>3. r \in LcdRecords /\ r.on = on /\ r.stat_line = no /\ r.gb_frame = l.gb_frame /\ r.off_count = 0
    BY <1>3, <2>1, <2>2 DEF LcdRecords
  <2>4. StatAgrees(r) /\ Good(r)
    BY <1>0, <1>5, <2>3, FrameIsLong DEF StatAgrees, Line, Good
  <2> QED
    BY <1>5, <2>3, <2>4 DEF Written, r
<1> QED
  BY <1>4, <1>5

LEMMA StatIsWritten ==
  ASSUME NEW l, Good(l), NEW sel \in SUBSET Sources
  PROVE  Written(l, WriteStat(l, sel)) /\ WriteStat(l, sel).on = l.on
         /\ WriteStat(l, sel).LY = l.LY /\ WriteStat(l, sel).LYC = l.LYC
<1> DEFINE quirk == l.on /\ (l.mode # "transfer" \/ l.coinc)
           more == IF quirk THEN l.raised \cup {"stat"} ELSE l.raised
           a == [l EXCEPT !.sel = sel, !.raised = more]
           r == WriteStat(l, sel)
<1>1. r = UpdateStatIrq(a)
  BY DEF WriteStat
<1>2. more \in SUBSET {"stat", "vblank"}
  BY DEF Good, LcdRecords
<1> HIDE DEF more, r, quirk
<1>3. a \in LcdRecords /\ a.on = l.on /\ a.mode = l.mode /\ a.LY = l.LY /\ a.count = l.count
      /\ a.mode3 = l.mode3 /\ a.off_count = l.off_count /\ a.gb_frame = l.gb_frame
      /\ a.LYC = l.LYC /\ a.coinc = l.coinc
  BY <1>2 DEF Good, LcdRecords
<1> HIDE DEF a
<1>4. r \in LcdRecords /\ SamePicture(a, r) /\ r.coinc = a.coinc /\ StatAgrees(r)
  BY <1>1, <1>3, UpdateKeeps DEF StatAgrees
<1>5. Good(r) /\ Position(r) = Position(l) /\ Done(r) = Done(l) /\ Row(r) = Row(l)
  BY <1>3, <1>4, SamePlace DEF SamePicture
<1> QED
  BY <1>3, <1>4, <1>5 DEF Written, SamePicture, Compares, r

LEMMA LycIsWritten ==
  ASSUME NEW l, Good(l), NEW ly \in Nat
  PROVE  Written(l, WriteLyc(l, ly)) /\ WriteLyc(l, ly).on = l.on /\ WriteLyc(l, ly).LY = l.LY
<1> DEFINE a == [l EXCEPT !.LYC = ly]
           r == WriteLyc(l, ly)
<1>1. r = IF l.on THEN Checked(a) ELSE a
  BY DEF WriteLyc
<1> HIDE DEF r
<1>2. a \in LcdRecords /\ a.on = l.on /\ a.mode = l.mode /\ a.LY = l.LY /\ a.count = l.count
      /\ a.mode3 = l.mode3 /\ a.off_count = l.off_count /\ a.gb_frame = l.gb_frame
      /\ a.stat_line = l.stat_line
  BY DEF Good, LcdRecords
<1> HIDE DEF a
<1>3. CASE l.on
  <2>1. r \in LcdRecords /\ SamePicture(a, r) /\ Compares(r) /\ StatAgrees(r)
    BY <1>1, <1>2, <1>3, CheckedKeeps DEF Compares, StatAgrees
  <2>2. Good(r) /\ Position(r) = Position(l) /\ Done(r) = Done(l) /\ Row(r) = Row(l)
    BY <1>2, <2>1, SamePlace DEF SamePicture
  <2> QED
    BY <1>2, <2>1, <2>2 DEF Written, SamePicture, r
<1>4. CASE ~l.on
  <2>1. Good(r) /\ Position(r) = Position(l) /\ Done(r) = Done(l) /\ Row(r) = Row(l)
    BY <1>1, <1>2, <1>4, SamePlace
  <2>2. StatAgrees(l) => StatAgrees(r)
    BY <1>1, <1>2, <1>4 DEF StatAgrees, Line
  <2> QED
    BY <1>1, <1>2, <1>4, <2>1, <2>2 DEF Written, r
<1> QED
  BY <1>3, <1>4

-----------------------------------------------------------------------------
(* A step of the timer.                                                     *)

TimerRecords ==
  [enable : BOOLEAN, shift : Shifts, TIMA : 0..(TIMA_SIZE - 1), TMA : 0..(TIMA_SIZE - 1),
   count : Nat, delay : BOOLEAN, DIV : Nat, div_count : Nat, raised : SUBSET {"timer"}]

(* No register was written since the timer last moved.                      *)
Settled(t) == (t.delay => t.enable) /\ (t.enable => t.count < TacCycles(t.shift))

LEMMA Rates ==
  /\ TIMA_SIZE \in Nat \ {0} /\ DIV_CYCLES \in Nat \ {0} /\ DIV_SIZE \in Nat \ {0}
  /\ SERIAL_CYCLES \in Nat \ {0} /\ Shifts \subseteq Nat /\ SlowestShift \in Shifts
  /\ \A k \in Shifts : TacCycles(k) \in Nat \ {0}
<1>1. SlowestShift \in Shifts
  BY TimersAssumption, Zenon DEF SlowestShift
<1>2. ASSUME NEW k \in Shifts PROVE TacCycles(k) \in Nat \ {0}
  <2> DEFINE power == 2 ^ k
  <2>1. power \in Nat /\ power > 1
    BY TimersAssumption
  <2>2. TacCycles(k) = power - 1
    BY DEF TacCycles
  <2> HIDE DEF power
  <2> QED
    BY <2>1, <2>2
<1> QED
  BY <1>1, <1>2, TimersAssumption

LEMMA Remains ==
  ASSUME NEW a \in Nat, NEW p \in Nat \ {0}
  PROVE  a % p \in 0..(p - 1) /\ a \div p \in Nat /\ a % p <= a
OBVIOUS

LEMMA DelayIsRaised ==
  ASSUME NEW t \in TimerRecords
  PROVE  LET r == RaiseDelayed([t EXCEPT !.raised = {}])
         IN  /\ r \in TimerRecords /\ ~r.delay /\ r.enable = t.enable /\ r.shift = t.shift
             /\ r.count = t.count
             /\ ~t.delay => r = [t EXCEPT !.raised = {}] /\ r.TIMA = t.TIMA /\ r.raised = {}
<1> DEFINE no == FALSE
           a == [t EXCEPT !.raised = {}]
           b == [a EXCEPT !.raised = {"timer"}, !.TIMA = a.TMA, !.delay = no]
           r == RaiseDelayed(a)
<1>0. no \in BOOLEAN /\ ~no
  OBVIOUS
<1>1. r = IF a.delay THEN b ELSE a
  BY Zenon DEF RaiseDelayed
<1> HIDE DEF no, r
<1>2. a \in TimerRecords /\ a.delay = t.delay /\ a.enable = t.enable /\ a.shift = t.shift
      /\ a.count = t.count /\ a.TIMA = t.TIMA /\ a.raised = {}
  BY DEF TimerRecords
<1> HIDE DEF a
<1>3. b \in TimerRecords /\ b.delay = no /\ b.enable = a.enable /\ b.shift = a.shift
      /\ b.count = a.count
  BY <1>0, <1>2 DEF TimerRecords
<1> HIDE DEF b
<1>4. /\ r \in TimerRecords /\ ~r.delay /\ r.enable = t.enable /\ r.shift = t.shift
      /\ r.count = t.count
      /\ ~t.delay => r = a /\ r.TIMA = t.TIMA /\ r.raised = {}
  BY <1>0, <1>1, <1>2, <1>3
<1> QED
  BY <1>4, Zenon DEF r, a

LEMMA TimaIsCounted ==
  ASSUME NEW t \in TimerRecords, ~t.delay, NEW n \in Nat
  PROVE  LET r == CountTima(t, n)
             p == TacCycles(t.shift)
         IN  /\ r \in TimerRecords /\ Settled(r) /\ r.enable = t.enable /\ r.shift = t.shift
             /\ r.raised = t.raised
             /\ t.enable => /\ r.count = (t.count + n) % p
                            /\ r.TIMA = (t.TIMA + ((t.count + n) \div p)) % TIMA_SIZE
                            /\ r.delay = (t.TIMA + ((t.count + n) \div p) >= TIMA_SIZE)
<1> DEFINE p == TacCycles(t.shift)
           sum == t.count + n
           ticks == sum \div p
           left == sum % p
           shown == (t.TIMA + ticks) % TIMA_SIZE
           late == t.delay \/ t.TIMA + ticks >= TIMA_SIZE
           a == [t EXCEPT !.count = left, !.TIMA = shown, !.delay = late]
           r == CountTima(t, n)
<1>1. r = IF ~t.enable THEN t ELSE a
  BY Zenon DEF CountTima
<1>2. p \in Nat \ {0}
  BY Rates DEF TimerRecords
<1>3. sum \in Nat /\ left \in Nat /\ left < p /\ ticks \in Nat
  BY <1>2, Remains DEF TimerRecords
<1>4. shown \in 0..(TIMA_SIZE - 1)
  <2> DEFINE all == t.TIMA + ticks
  <2>1. all \in Nat
    BY <1>3 DEF TimerRecords
  <2> HIDE DEF all
  <2>2. all % TIMA_SIZE \in 0..(TIMA_SIZE - 1)
    BY <2>1, Rates, Remains
  <2> QED
    BY <2>2 DEF all
<1>5. late \in BOOLEAN /\ late = (t.TIMA + ticks >= TIMA_SIZE)
  OBVIOUS
<1> HIDE DEF r, left, shown, late
<1>6. /\ a \in TimerRecords /\ a.enable = t.enable /\ a.shift = t.shift /\ a.count = left
      /\ a.TIMA = shown /\ a.delay = late /\ a.raised = t.raised
  BY <1>3, <1>4, <1>5 DEF TimerRecords
<1> HIDE DEF a, sum, ticks
<1>7. /\ r \in TimerRecords /\ Settled(r) /\ r.enable = t.enable /\ r.shift = t.shift
      /\ r.raised = t.raised
      /\ t.enable => r.count = left /\ r.TIMA = shown /\ r.delay = late
  BY <1>1, <1>3, <1>6 DEF Settled
<1> QED
  BY <1>5, <1>7 DEF r, left, shown, sum, ticks

LEMMA DivIsCounted ==
  ASSUME NEW t \in TimerRecords, NEW n \in Nat
  PROVE  LET r == CountDiv(t, n)
         IN  /\ r \in TimerRecords /\ r.enable = t.enable /\ r.shift = t.shift
             /\ r.count = t.count /\ r.TIMA = t.TIMA /\ r.delay = t.delay /\ r.raised = t.raised
<1> DEFINE sum == t.div_count + n
           shown == (t.DIV + (sum \div DIV_CYCLES)) % DIV_SIZE
           left == sum % DIV_CYCLES
           r == CountDiv(t, n)
<1>1. r = [t EXCEPT !.DIV = shown, !.div_count = left]
  BY Zenon DEF CountDiv
<1>a. sum \in Nat /\ DIV_CYCLES \in Nat \ {0} /\ DIV_SIZE \in Nat \ {0}
  BY Rates DEF TimerRecords
<1>2. sum \div DIV_CYCLES \in Nat /\ left \in Nat
  <2> HIDE DEF sum
  <2> QED
    BY <1>a, Remains
<1>3. shown \in Nat
  <2> DEFINE all == t.DIV + (sum \div DIV_CYCLES)
  <2>1. all \in Nat
    BY <1>2 DEF TimerRecords
  <2> HIDE DEF all
  <2>2. all % DIV_SIZE \in 0..(DIV_SIZE - 1)
    BY <1>a, <2>1, Remains
  <2> QED
    BY <1>a, <2>2 DEF all
<1> HIDE DEF shown, left, r
<1>4. /\ r \in TimerRecords /\ r.enable = t.enable /\ r.shift = t.shift
      /\ r.count = t.count /\ r.TIMA = t.TIMA /\ r.delay = t.delay /\ r.raised = t.raised
  BY <1>1, <1>2, <1>3 DEF TimerRecords
<1> QED
  BY <1>4 DEF r

LEMMA TimerAdvances ==
  ASSUME NEW t \in TimerRecords, NEW n \in Nat
  PROVE  LET r == TimerAdvance(t, n)
         IN  r \in TimerRecords /\ Settled(r) /\ r.enable = t.enable /\ r.shift = t.shift
<1> DEFINE a == RaiseDelayed([t EXCEPT !.raised = {}])
           b == CountTima(a, n)
           c == CountDiv(b, n)
<1>1. a \in TimerRecords /\ ~a.delay /\ a.enable = t.enable /\ a.shift = t.shift
  BY DelayIsRaised
<1>2. TimerAdvance(t, n) = c
  BY DEF TimerAdvance
<1> HIDE DEF a, c
<1>3. b \in TimerRecords /\ Settled(b) /\ b.enable = a.enable /\ b.shift = a.shift
  BY <1>1, TimaIsCounted
<1> HIDE DEF b
<1>4. c \in TimerRecords /\ c.enable = b.enable /\ c.shift = b.shift /\ c.count = b.count
      /\ c.delay = b.delay
  BY <1>3, DivIsCounted DEF c
<1> QED
  BY <1>1, <1>2, <1>3, <1>4 DEF Settled

(* What the program writes to the timer.                                    *)
LEMMA TimaTicks ==
  ASSUME NEW t \in TimerRecords
  PROVE  TickTima(t) \in TimerRecords
<1> DEFINE shown == (t.TIMA + 1) % TIMA_SIZE
           late == t.delay \/ t.TIMA + 1 = TIMA_SIZE
<1>1. shown \in 0..(TIMA_SIZE - 1) /\ late \in BOOLEAN
  BY Rates, Remains DEF TimerRecords
<1>2. TickTima(t) = [t EXCEPT !.TIMA = shown, !.delay = late]
  BY Zenon DEF TickTima
<1> HIDE DEF shown, late
<1> QED
  BY <1>1, <1>2 DEF TimerRecords

LEMMA TimerIsWritten ==
  ASSUME NEW t \in TimerRecords
  PROVE  /\ WriteDiv(t) \in TimerRecords
         /\ \A v \in 0..(TIMA_SIZE - 1) :
              WriteTima(t, v) \in TimerRecords /\ WriteTma(t, v) \in TimerRecords
         /\ \A k \in Shifts, enable \in BOOLEAN : WriteTac(t, enable, k) \in TimerRecords
<1>1. WriteDiv(t) \in TimerRecords
  <2> DEFINE m == [t EXCEPT !.DIV = 0, !.div_count = 0]
  <2>1. m \in TimerRecords
    BY DEF TimerRecords
  <2>2. WriteDiv(t) = IF Input(t) THEN TickTima(m) ELSE m
    BY Zenon DEF WriteDiv
  <2> HIDE DEF m
  <2> QED
    BY <2>1, <2>2, TimaTicks
<1>2. ASSUME NEW v \in 0..(TIMA_SIZE - 1)
      PROVE  WriteTima(t, v) \in TimerRecords /\ WriteTma(t, v) \in TimerRecords
  BY DEF TimerRecords, WriteTima, WriteTma
<1>3. ASSUME NEW k \in Shifts, NEW enable \in BOOLEAN PROVE WriteTac(t, enable, k) \in TimerRecords
  <2> DEFINE m == [t EXCEPT !.enable = enable, !.shift = k]
  <2>1. m \in TimerRecords
    BY DEF TimerRecords
  <2>2. WriteTac(t, enable, k) = IF Input(t) /\ ~Input(m) THEN TickTima(m) ELSE m
    BY Zenon DEF WriteTac
  <2> HIDE DEF m
  <2> QED
    BY <2>1, <2>2, TimaTicks
<1> QED
  BY <1>1, <1>2, <1>3

-----------------------------------------------------------------------------
(* A step of the serial port.                                               *)

SerialFields == {"start", "internal", "SB", "count", "stub", "data_len", "raised"}
IsPort(s) ==
  /\ s = [start |-> s.start, internal |-> s.internal, SB |-> s.SB, count |-> s.count,
          stub |-> s.stub, data_len |-> s.data_len, raised |-> s.raised]
  /\ s.start \in BOOLEAN /\ s.internal \in BOOLEAN /\ s.count \in Nat

(* What is left of a transfer and what has gone by is less than it takes.   *)
OnItsWay(s, past) ==
  past \in Nat /\ ((s.start /\ s.internal) => s.count > 0 /\ past + s.count <= SERIAL_CYCLES)

LEMMA SerialAdvances ==
  ASSUME NEW s, IsPort(s), NEW past, OnItsWay(s, past), NEW n \in Nat \ {0}
  PROVE  LET r == SerialAdvance(s, n)
         IN  /\ IsPort(r)
             /\ OnItsWay(r, IF r.start /\ r.internal THEN past + n ELSE 0)
<1> DEFINE m == [s EXCEPT !.raised = {}]
           no == FALSE
           less == m.count - n
           a == [m EXCEPT !.count = less]
           b == [m EXCEPT !.count = 0, !.SB = 255, !.start = no, !.raised = {"serial"}]
           c == [m EXCEPT !.count = 0]
           r == SerialAdvance(s, n)
<1>0. no \in BOOLEAN /\ ~no
  OBVIOUS
<1>1. r = IF s.count = 0 THEN m ELSE IF s.count > n THEN a ELSE IF s.start /\ s.internal THEN b ELSE c
  BY Zenon DEF SerialAdvance
<1> HIDE DEF no, r
<1>2. IsPort(m) /\ m.start = s.start /\ m.internal = s.internal /\ m.count = s.count
  BY DEF IsPort
<1> HIDE DEF m
<1>3. s.count > n => IsPort(a) /\ a.start = s.start /\ a.internal = s.internal /\ a.count = s.count - n
  <2>1. s.count > n => less \in Nat /\ less = s.count - n
    BY <1>2 DEF IsPort
  <2> HIDE DEF less
  <2> QED
    BY <1>2, <2>1 DEF IsPort
<1>4. IsPort(b) /\ b.start = no
  <2> DEFINE b1 == [m EXCEPT !.count = 0]
             b2 == [b1 EXCEPT !.SB = 255]
             b3 == [b2 EXCEPT !.start = no]
             b4 == [b3 EXCEPT !.raised = {"serial"}]
  <2>1. IsPort(b1)
    BY <1>2 DEF IsPort
  <2>2. b = b4
    BY Zenon
  <2> HIDE DEF b1, b
  <2>3. IsPort(b2)
    BY <2>1 DEF IsPort
  <2> HIDE DEF b2
  <2>4. IsPort(b3) /\ b3.start = no
    BY <1>0, <2>3 DEF IsPort
  <2> HIDE DEF b3
  <2>5. IsPort(b4) /\ b4.start = no
    BY <2>4 DEF IsPort
  <2> QED
    BY <2>2, <2>5
<1>5. IsPort(c) /\ c.start = s.start /\ c.internal = s.internal
  BY <1>2 DEF IsPort
<1> HIDE DEF a, b, c
<1>6. IsPort(r) /\ OnItsWay(r, IF r.start /\ r.internal THEN past + n ELSE 0)
  <2>1. s.count \in Nat /\ past \in Nat
    BY DEF IsPort, OnItsWay
  <2>2. CASE s.count = 0
    BY <1>1, <1>2, <2>1, <2>2 DEF OnItsWay
  <2>3. CASE s.count # 0 /\ s.count > n
    BY <1>1, <1>3, <2>1, <2>3 DEF OnItsWay
  <2>4. CASE s.count # 0 /\ ~(s.count > n) /\ s.start /\ s.internal
    BY <1>0, <1>1, <1>4, <2>1, <2>4 DEF OnItsWay
  <2>5. CASE s.count # 0 /\ ~(s.count > n) /\ ~(s.start /\ s.internal)
    BY <1>1, <1>5, <2>1, <2>5 DEF OnItsWay
  <2> QED
    BY <2>2, <2>3, <2>4, <2>5
<1> QED
  BY <1>6 DEF r

LEMMA PortIsKept ==
  ASSUME NEW s, IsPort(s)
  PROVE  /\ IsPort(Forgotten(s)) /\ Forgotten(s).start = s.start
         /\ Forgotten(s).internal = s.internal /\ Forgotten(s).count = s.count
         /\ \A reply : IsPort(Answered(s, reply)) /\ ~Answered(s, reply).start
         /\ \A v : /\ IsPort(WriteSb(s, v)) /\ WriteSb(s, v).start = s.start
                   /\ WriteSb(s, v).internal = s.internal /\ WriteSb(s, v).count = s.count
<1>1. /\ IsPort(Forgotten(s)) /\ Forgotten(s).start = s.start
      /\ Forgotten(s).internal = s.internal /\ Forgotten(s).count = s.count
  <2> DEFINE a == [s EXCEPT !.stub = 0]
             b == [a EXCEPT !.data_len = 0]
  <2>0. Forgotten(s) = b
    BY Zenon DEF Forgotten
  <2>1. IsPort(a) /\ a.start = s.start /\ a.internal = s.internal /\ a.count = s.count
    BY DEF IsPort
  <2> HIDE DEF a
  <2>2. IsPort(b) /\ b.start = a.start /\ b.internal = a.internal /\ b.count = a.count
    BY <2>1 DEF IsPort
  <2> QED
    BY <2>0, <2>1, <2>2
<1>2. ASSUME NEW reply PROVE IsPort(Answered(s, reply)) /\ ~Answered(s, reply).start
  <2> DEFINE no == FALSE
             a == [s EXCEPT !.SB = reply]
             b == [a EXCEPT !.start = no]
             c == [b EXCEPT !.raised = {"serial"}]
  <2>0. no \in BOOLEAN /\ ~no /\ Answered(s, reply) = c
    BY Zenon DEF Answered
  <2> HIDE DEF no
  <2>1. IsPort(a)
    BY DEF IsPort
  <2> HIDE DEF a
  <2>2. IsPort(b) /\ b.start = no
    BY <2>0, <2>1 DEF IsPort
  <2> HIDE DEF b
  <2>3. IsPort(c) /\ c.start = no
    BY <2>2 DEF IsPort
  <2> QED
    BY <2>0, <2>3
<1>3. ASSUME NEW v
      PROVE  /\ IsPort(WriteSb(s, v)) /\ WriteSb(s, v).start = s.start
             /\ WriteSb(s, v).internal = s.internal /\ WriteSb(s, v).count = s.count
  BY DEF IsPort, WriteSb
<1> QED
  BY <1>1, <1>2, <1>3

LEMMA ControlIsWritten ==
  ASSUME NEW s, IsPort(s), NEW start \in BOOLEAN, NEW internal \in BOOLEAN, NEW boot \in BOOLEAN
  PROVE  LET r == WriteSc(s, start, internal, boot) IN IsPort(r) /\ OnItsWay(r, 0)
<1> DEFINE m == [s EXCEPT !.start = start, !.internal = internal]
           a == Answered(m, 255)
           b == [a EXCEPT !.count = 0]
           c == Answered(m, StubReply(s))
           d == [c EXCEPT !.stub = StubNext(s), !.data_len = StubLength(s)]
           e == [m EXCEPT !.count = SERIAL_CYCLES]
           r == WriteSc(s, start, internal, boot)
<1>1. r = IF ~start THEN Forgotten(m) ELSE IF ~internal THEN m ELSE IF boot THEN Forgotten(b)
          ELSE IF IsPrinter(s) THEN d ELSE Forgotten(e)
  BY Zenon DEF WriteSc
<1> HIDE DEF r
<1>2. IsPort(m) /\ m.start = start /\ m.internal = internal
  <2> DEFINE m1 == [s EXCEPT !.start = start]
             m2 == [m1 EXCEPT !.internal = internal]
  <2>0. m = m2
    BY Zenon
  <2>1. IsPort(m1) /\ m1.start = start
    BY DEF IsPort
  <2> HIDE DEF m1, m
  <2>2. IsPort(m2) /\ m2.start = start /\ m2.internal = internal
    BY <2>1 DEF IsPort
  <2> QED
    BY <2>0, <2>2
<1> HIDE DEF m
<1>3. IsPort(a) /\ ~a.start /\ IsPort(c) /\ ~c.start
  BY <1>2, PortIsKept
<1> HIDE DEF a, c
<1>4. IsPort(b) /\ ~b.start
  BY <1>3 DEF IsPort
<1>5. IsPort(d) /\ ~d.start
  <2> DEFINE next == StubNext(s)
             length == StubLength(s)
             d1 == [c EXCEPT !.stub = next]
             d2 == [d1 EXCEPT !.data_len = length]
  <2>0. d = d2
    BY Zenon
  <2> HIDE DEF next, length, d
  <2>1. IsPort(d1) /\ ~d1.start
    BY <1>3 DEF IsPort
  <2> HIDE DEF d1
  <2>2. IsPort(d2) /\ ~d2.start
    BY <2>1 DEF IsPort
  <2> QED
    BY <2>0, <2>2
<1>6. IsPort(e) /\ e.start = start /\ e.internal = internal /\ e.count = SERIAL_CYCLES
  BY <1>2, Rates DEF IsPort
<1> HIDE DEF b, d, e
<1>7. IsPort(r) /\ OnItsWay(r, 0)
  <2>1. CASE ~start
    BY <1>1, <1>2, <2>1, PortIsKept DEF OnItsWay
  <2>2. CASE start /\ ~internal
    BY <1>1, <1>2, <2>2 DEF OnItsWay
  <2>3. CASE start /\ internal /\ boot
    BY <1>1, <1>4, <2>3, PortIsKept DEF OnItsWay
  <2>4. CASE start /\ internal /\ ~boot /\ IsPrinter(s)
    BY <1>1, <1>5, <2>4 DEF OnItsWay
  <2>5. CASE start /\ internal /\ ~boot /\ ~IsPrinter(s)
    BY <1>1, <1>6, <2>5, PortIsKept, Rates DEF OnItsWay
  <2> QED
    BY <2>1, <2>2, <2>3, <2>4, <2>5
<1> QED
  BY <1>7 DEF r

-----------------------------------------------------------------------------
(* The invariant.                                                           *)

Drawn(n) == [i \in 1..n |-> i - 1]

(* The frame the call began with is drawn as far as the controller has come, *)
(* and no more cycles have gone by than its place in the frame accounts for. *)
FrameInv ==
  whole => /\ lcd.on
           /\ IF lcd.gb_frame
              THEN /\ lcd.mode = "vblank" /\ lcd.LY = LCD_HEIGHT
                   /\ lines = IF skip THEN <<>> ELSE Drawn(LCD_HEIGHT)
              ELSE /\ total <= Position(lcd)
                   /\ lines = IF skip THEN <<>> ELSE Drawn(Done(lcd))
LcdInv    == Good(lcd) /\ StatAgrees(lcd) /\ ((lcd.on /\ compared) => Compares(lcd))
TimerInv  == timer \in TimerRecords /\ (~busy => Settled(timer))
SerialInv == IsPort(serial) /\ OnItsWay(serial, age)
CallInv   == /\ total \in Nat /\ skip \in BOOLEAN /\ writes \in 0 .. MaxWrites /\ busy \in BOOLEAN
             /\ lines \in Seq(Nat) /\ whole \in BOOLEAN /\ compared \in BOOLEAN
IInv == LcdInv /\ TimerInv /\ SerialInv /\ CallInv /\ FrameInv

LEMMA InitIInv == Init => IInv
<1> SUFFICES ASSUME Init PROVE IInv
  OBVIOUS
<1>1. lcd \in LcdRecords /\ lcd.off_count < LCD_FRAME_CYCLES
  BY Sizes, FrameIsLong DEF Init, LcdReset, LcdRecords, Modes
<1>2. Good(lcd)
  <2>1. Duration(lcd) = LCD_LINE_CYCLES /\ lcd.count = 0 /\ lcd.LY = LCD_HEIGHT /\ lcd.mode = "vblank"
    BY ModesLast DEF Init, LcdReset
  <2> QED
    BY <1>1, <2>1, Sizes DEF Good
<1>3. LcdInv
  BY <1>2 DEF LcdInv, StatAgrees, Line, Init, LcdReset
<1>4. TimerInv
  <2>1. DIV_CYCLES - 1 \in Nat /\ 0 \in 0..(TIMA_SIZE - 1) /\ SlowestShift \in Shifts
    BY Rates
  <2> QED
    BY <2>1 DEF Init, TimerReset, TimerInv, TimerRecords, Settled
<1>5. SerialInv
  BY DEF Init, SerialReset, SerialInv, IsPort, OnItsWay
<1>6. CallInv /\ FrameInv
  <2>1. 0 \in 0 .. MaxWrites
    BY DevicesAssumption
  <2>2. total \in Nat /\ lines \in Seq(Nat)
    BY FrameIsLong DEF Init
  <2>3. skip \in BOOLEAN /\ busy \in BOOLEAN /\ whole \in BOOLEAN /\ compared \in BOOLEAN /\ ~whole
        /\ writes \in 0 .. MaxWrites
    BY <2>1, Zenon DEF Init
  <2> QED
    BY <2>2, <2>3, Zenon DEF CallInv, FrameInv
<1> QED
  BY <1>3, <1>4, <1>5, <1>6 DEF IInv

(* The place in a frame is less than the frame.                             *)
LEMMA PlaceIsInFrame ==
  ASSUME NEW l, Good(l), l.on
  PROVE  Position(l) \in Nat /\ Position(l) < LCD_FRAME_CYCLES /\ Row(l) \in Nat /\ Done(l) \in Nat
<1>1. l.mode \in Modes /\ l.LY \in 0..(LCD_VERT_LINES - 1) /\ l.count \in Nat /\ l.mode3 \in Nat
  BY Sizes DEF Good, LcdRecords
<1>2. Row(l) \in 0..(LCD_VERT_LINES - 1)
  BY <1>1, Sizes DEF Good, Row
<1>3. Into(l) \in 0..(LCD_LINE_CYCLES - 1)
  <2>1. CASE l.mode = "oam"
    BY <1>1, <2>1, Sizes, ModesLast DEF Good, Into
  <2>2. CASE l.mode = "transfer"
    BY <1>1, <2>2, Sizes, ModesLast DEF Good, Into, LcdRecords
  <2>3. CASE l.mode = "hblank"
    BY <1>1, <2>3, Sizes, ModesLast DEF Good, Into, LcdRecords
  <2>4. CASE l.mode = "vblank"
    BY <1>1, <2>4, Sizes, ModesLast DEF Good, Into
  <2> QED
    BY <1>1, <2>1, <2>2, <2>3, <2>4 DEF Modes
<1>4. Row(l) * LCD_LINE_CYCLES \in Nat
  BY <1>2, Sizes
<1> QED
  BY <1>1, <1>2, <1>3, <1>4, FrameIsLong DEF Position, Done

LEMMA OneMoreLine ==
  ASSUME NEW n \in Nat
  PROVE  Append(Drawn(n), n) = Drawn(n + 1) /\ Drawn(0) = <<>>
BY DEF Drawn

-----------------------------------------------------------------------------
(* Every step keeps the invariant.                                          *)

LEMMA ShortSteps ==
  \A n \in Batches \union {MIN_SLEEP} : Short(n)
BY DevicesAssumption DEF Short

(* A sleep that is longer than the least one ends with what comes first.    *)
Room(l) == IF l.on THEN Duration(l) - l.count ELSE LCD_FRAME_CYCLES - l.off_count

LEMMA SleepLength ==
  ASSUME LcdInv, TimerInv
  PROVE  /\ SleepCycles \in Nat \ {0} /\ Fits(lcd, SleepCycles) /\ UntilTimer \in Int
         /\ SleepCycles > MIN_SLEEP =>
              SleepCycles <= Room(lcd) /\ (timer.enable => SleepCycles <= UntilTimer)
<1> DEFINE room == Room(lcd)
           left == room % COUNT_SIZE
           period == TacCycles(timer.shift)
           ticks == (TIMA_SIZE - timer.TIMA - 1) * period
           rest == timer.count % period
           n == SleepCycles
<1>0. MIN_SLEEP \in Nat \ {0} /\ COUNT_SIZE \in Nat \ {0}
  BY DevicesAssumption
<1>1. room \in Nat
  BY ModesLast, Sizes, FrameIsLong DEF LcdInv, Good, LcdRecords, Modes, Room
<1>2. UntilLcd = IF left = 0 \/ left >= COUNT_SIZE \div 2 THEN 1 ELSE left
  BY Zenon DEF UntilLcd, Room
<1>3. left \in Nat /\ left <= room
  <2> HIDE DEF room
  <2> QED
    BY <1>0, <1>1, Remains
<1>4. UntilTimer \in Int
  <2>a. timer.shift \in Shifts /\ timer.count \in Nat /\ timer.TIMA \in 0..(TIMA_SIZE - 1)
    BY DEF TimerInv, TimerRecords
  <2>b. period \in Nat \ {0}
    BY <2>a, Rates
  <2>c. TIMA_SIZE - timer.TIMA - 1 \in Nat
    BY <2>a, Rates
  <2>1. period \in Nat \ {0} /\ timer.count \in Nat /\ TIMA_SIZE - timer.TIMA - 1 \in Nat
    BY <2>a, <2>b, <2>c
  <2> HIDE DEF period
  <2>2. rest \in Nat
    BY <2>1, Remains
  <2>3. ticks \in Nat
    <3> DEFINE a == TIMA_SIZE - timer.TIMA - 1
    <3>1. a \in Nat
      BY <2>1
    <3> HIDE DEF a
    <3>2. a * period \in Nat
      BY <2>1, <3>1
    <3> QED
      BY <3>2 DEF a
  <2>4. UntilTimer = IF timer.delay THEN 1 ELSE ticks + (period - rest) + 1
    BY Zenon DEF UntilTimer, period
  <2> HIDE DEF ticks, rest
  <2> QED
    BY <2>1, <2>2, <2>3, <2>4
<1> HIDE DEF left, room
<1>5. UntilLcd \in Nat
  BY <1>2, <1>3
<1>6. n = LET next == IF timer.enable /\ UntilTimer < UntilLcd THEN UntilTimer ELSE UntilLcd
          IN  IF next < MIN_SLEEP THEN MIN_SLEEP ELSE next
  BY DEF SleepCycles
<1> HIDE DEF n
<1>7. /\ n \in Nat \ {0} /\ n >= MIN_SLEEP
      /\ n > MIN_SLEEP => n <= UntilLcd /\ (timer.enable => n <= UntilTimer)
  BY <1>0, <1>4, <1>5, <1>6
<1>8. n > MIN_SLEEP => n <= room
  BY <1>0, <1>1, <1>2, <1>3, <1>5, <1>7
<1>9. n = MIN_SLEEP => Short(n)
  BY ShortSteps
<1>10. Fits(lcd, n)
  <2>1. CASE n = MIN_SLEEP
    BY <1>7, <1>9, <2>1 DEF Fits
  <2>2. CASE n > MIN_SLEEP
    <3>1. n <= Room(lcd)
      BY <1>8, <2>2 DEF room
    <3>2. lcd.on => Duration(lcd) \in Nat /\ lcd.count \in Nat
      BY ModesLast, Sizes DEF LcdInv, Good, LcdRecords, Modes
    <3>3. lcd.off_count \in Nat
      BY DEF LcdInv, Good, LcdRecords
    <3> QED
      BY <1>7, <3>1, <3>2, <3>3, FrameIsLong DEF Room, Fits
  <2> QED
    BY <1>0, <1>7, <2>1, <2>2
<1> QED
  BY <1>4, <1>7, <1>8, <1>10 DEF n, room

LEMMA PassKeeps ==
  ASSUME IInv, Running, NEW n, Fits(lcd, n), Pass(n)
  PROVE  IInv'
<1>0. n \in Nat \ {0} /\ 0 \in Scrolls \union {0}
  BY DEF Fits
<1>1. PICK scx \in Scrolls, window \in BOOLEAN : lcd' = LcdAdvance(lcd, n, scx, window, skip)
  BY DEF Pass
<1>2. /\ Good(lcd') /\ lcd'.on = lcd.on /\ StatStays(lcd, lcd')
      /\ lcd'.drawn = {} \/ (lcd'.drawn = {lcd.LY} /\ ~skip)
      /\ lcd.on => /\ Goes(lcd, n, lcd') \/ FrameEnds(lcd, lcd')
                   /\ (lcd.mode = "transfer" /\ lcd'.mode = "hblank" /\ ~skip) => lcd'.drawn = {lcd.LY}
  BY <1>1, LcdAdvances DEF IInv, LcdInv, CallInv
<1>3. LcdInv'
  BY <1>2 DEF IInv, LcdInv, StatStays, Pass
<1>4. TimerInv'
  BY <1>0, TimerAdvances DEF IInv, TimerInv, Pass
<1>5. SerialInv'
  BY <1>0, SerialAdvances DEF IInv, SerialInv, Pass
<1>6. lcd.LY \in Nat /\ lines' \in Seq(Nat)
  BY DEF IInv, LcdInv, Good, LcdRecords, CallInv, Pass
<1>7. CallInv'
  <2>1. total' \in Nat /\ writes' \in 0 .. MaxWrites
    BY <1>0 DEF IInv, CallInv, Pass
  <2>2. compared' \in BOOLEAN /\ busy' \in BOOLEAN /\ skip' \in BOOLEAN /\ whole' \in BOOLEAN
    BY Zenon DEF IInv, CallInv, Pass
  <2> QED
    BY <1>6, <2>1, <2>2 DEF CallInv
<1>8. FrameInv'
  <2> SUFFICES ASSUME whole PROVE /\ lcd'.on
           /\ IF lcd'.gb_frame
              THEN /\ lcd'.mode = "vblank" /\ lcd'.LY = LCD_HEIGHT
                   /\ lines' = IF skip THEN <<>> ELSE Drawn(LCD_HEIGHT)
              ELSE /\ total' <= Position(lcd')
                   /\ lines' = IF skip THEN <<>> ELSE Drawn(Done(lcd'))
    BY DEF FrameInv, Pass
  <2>1. lcd.on /\ ~lcd.gb_frame /\ total <= Position(lcd)
        /\ lines = IF skip THEN <<>> ELSE Drawn(Done(lcd))
    BY DEF IInv, FrameInv, Running
  <2>2. lines' = IF lcd'.drawn = {} THEN lines ELSE Append(lines, lcd.LY)
    BY DEF Pass
  <2>3. Position(lcd) \in Nat /\ total \in Nat /\ total' = total + n
    BY <2>1, PlaceIsInFrame DEF IInv, LcdInv, CallInv, Pass
  <2>4. CASE Goes(lcd, n, lcd')
    <3>1. total' <= Position(lcd') /\ ~lcd'.gb_frame
      BY <1>0, <2>1, <2>3, <2>4 DEF Goes
    <3>2. lines' = IF skip THEN <<>> ELSE Drawn(Done(lcd'))
      <4>1. CASE lcd'.drawn = {}
        <5>1. CASE skip
          BY <2>1, <2>2, <4>1, <5>1
        <5>2. CASE ~skip
          <6>1. {lcd.LY} # {}
            OBVIOUS
          <6>2. ~(lcd.mode = "transfer" /\ lcd'.mode = "hblank")
            BY <1>2, <2>1, <4>1, <5>2, <6>1
          <6> QED
            BY <2>1, <2>2, <2>4, <4>1, <6>2 DEF Goes
        <5> QED
          BY <5>1, <5>2
      <4>2. CASE lcd'.drawn # {}
        <5>1. ~skip /\ lcd.mode = "transfer" /\ lcd'.mode = "hblank" /\ lcd'.LY = lcd.LY
          BY <1>2, <2>4, <4>2 DEF Goes
        <5>2. Done(lcd) = lcd.LY /\ Done(lcd') = lcd.LY + 1
          BY <5>1 DEF Done
        <5> QED
          BY <1>6, <2>1, <2>2, <4>2, <5>1, <5>2, OneMoreLine
      <4> QED
        BY <4>1, <4>2
    <3> QED
      BY <1>2, <2>1, <3>1, <3>2
  <2>5. CASE FrameEnds(lcd, lcd')
    BY <1>2, <2>1, <2>2, <2>5 DEF FrameEnds
  <2> QED
    BY <1>2, <2>1, <2>4, <2>5
<1> QED
  BY <1>3, <1>4, <1>5, <1>7, <1>8 DEF IInv

LEMMA WriteLcdKeeps == IInv /\ WriteLcd => IInv'
<1> SUFFICES ASSUME IInv, WriteLcd PROVE IInv'
  OBVIOUS
<1>1. Written(lcd, lcd')
  <2>1. Good(lcd)
    BY DEF IInv, LcdInv
  <2>2. CASE \E on \in BOOLEAN : lcd' = WriteLcdc(lcd, on) /\ on # lcd.on
    BY <2>1, <2>2, LcdcIsWritten
  <2>3. CASE \E sel \in Selections : lcd' = WriteStat(lcd, sel)
    BY <2>1, <2>3, StatIsWritten, DevicesAssumption
  <2>4. CASE \E ly \in Compared : lcd' = WriteLyc(lcd, ly)
    BY <2>1, <2>4, LycIsWritten, DevicesAssumption
  <2> QED
    BY <2>2, <2>3, <2>4 DEF WriteLcd
<1>2. LcdInv'
  BY <1>1 DEF WriteLcd, IInv, LcdInv, Written
<1>3. TimerInv' /\ SerialInv'
  BY DEF WriteLcd, Writing, IInv, TimerInv, SerialInv
<1>4. CallInv'
  <2>1. whole' \in BOOLEAN /\ compared' \in BOOLEAN /\ busy' \in BOOLEAN /\ skip' \in BOOLEAN
    BY Zenon DEF WriteLcd, Writing, IInv, CallInv
  <2>2. writes' \in 0 .. MaxWrites
    BY DevicesAssumption DEF WriteLcd, Writing, IInv, CallInv
  <2> QED
    BY <2>1, <2>2 DEF WriteLcd, Writing, IInv, CallInv
<1>5. FrameInv'
  <2> SUFFICES ASSUME whole' PROVE FrameInv'
    BY DEF FrameInv
  <2>1. whole /\ lcd'.on /\ ~lcd.gb_frame
    BY DEF WriteLcd, Writing, Running
  <2>2. lcd.on /\ total <= Position(lcd) /\ lines = IF skip THEN <<>> ELSE Drawn(Done(lcd))
    BY <2>1 DEF IInv, FrameInv
  <2>3. lcd'.on /\ ~lcd'.gb_frame /\ Position(lcd') = Position(lcd) /\ Done(lcd') = Done(lcd)
    BY <1>1, <2>1, <2>2 DEF Written
  <2> QED
    BY <2>2, <2>3 DEF FrameInv, WriteLcd, Writing
<1> QED
  BY <1>2, <1>3, <1>4, <1>5 DEF IInv

LEMMA WriteTimerKeeps == IInv /\ WriteTimer => IInv'
<1> SUFFICES ASSUME IInv, WriteTimer PROVE IInv'
  OBVIOUS
<1>1. timer' \in TimerRecords
  <2>1. timer \in TimerRecords
    BY DEF IInv, TimerInv
  <2>2. CASE timer' = WriteDiv(timer)
    BY <2>1, <2>2, TimerIsWritten
  <2>3. CASE \E v \in Bytes : v < TIMA_SIZE /\ timer' \in {WriteTima(timer, v), WriteTma(timer, v)}
    <3>1. PICK v \in Bytes : v < TIMA_SIZE /\ timer' \in {WriteTima(timer, v), WriteTma(timer, v)}
      BY <2>3
    <3>2. v \in 0..(TIMA_SIZE - 1)
      BY <3>1, Rates, DevicesAssumption
    <3> QED
      BY <2>1, <3>1, <3>2, TimerIsWritten
  <2>4. CASE \E k \in Shifts, enable \in BOOLEAN : timer' = WriteTac(timer, enable, k)
    BY <2>1, <2>4, TimerIsWritten
  <2> QED
    BY <2>2, <2>3, <2>4 DEF WriteTimer
<1>2. busy' /\ UNCHANGED <<lcd, serial, whole, age, compared, total, skip, lines>>
  BY DEF WriteTimer, Writing
<1>3. writes' \in 0 .. MaxWrites
  BY DevicesAssumption DEF WriteTimer, Writing, IInv, CallInv
<1>4. LcdInv' /\ SerialInv' /\ FrameInv' /\ TimerInv'
  BY <1>1, <1>2 DEF IInv, LcdInv, SerialInv, FrameInv, TimerInv
<1>5. CallInv'
  <2>1. busy' \in BOOLEAN
    BY Zenon DEF WriteTimer, Writing
  <2> QED
    BY <1>2, <1>3, <2>1 DEF IInv, CallInv
<1> QED
  BY <1>4, <1>5 DEF IInv

LEMMA WriteSerialKeeps == IInv /\ WriteSerial => IInv'
<1> SUFFICES ASSUME IInv, WriteSerial PROVE IInv'
  OBVIOUS
<1>1. SerialInv'
  <2>1. CASE age' = age /\ \E v \in Bytes : serial' = WriteSb(serial, v)
    BY <2>1, PortIsKept DEF IInv, SerialInv, OnItsWay
  <2>2. CASE age' = 0 /\ \E start, internal, boot \in BOOLEAN :
                            serial' = WriteSc(serial, start, internal, boot)
    BY <2>2, ControlIsWritten DEF IInv, SerialInv
  <2> QED
    BY <2>1, <2>2 DEF WriteSerial
<1>2. busy' /\ UNCHANGED <<lcd, timer, total, skip, program, writes, lines, whole, compared>>
  BY DEF WriteSerial
<1>3. LcdInv' /\ FrameInv' /\ TimerInv'
  BY <1>2 DEF IInv, LcdInv, FrameInv, TimerInv
<1>4. CallInv'
  <2>1. busy' \in BOOLEAN
    BY Zenon DEF WriteSerial
  <2> QED
    BY <1>2, <2>1 DEF IInv, CallInv
<1> QED
  BY <1>1, <1>3, <1>4 DEF IInv

LEMMA CallKeeps == IInv /\ Call => IInv'
<1> SUFFICES ASSUME IInv, Call PROVE IInv'
  OBVIOUS
<1> DEFINE no == FALSE
<1>0. no \in BOOLEAN /\ ~no /\ lcd' = [lcd EXCEPT !.gb_frame = no] /\ Good(lcd)
  BY DEF Call, IInv, LcdInv
<1> HIDE DEF no
<1>1. lcd' \in LcdRecords /\ lcd'.on = lcd.on /\ lcd'.mode = lcd.mode /\ lcd'.LY = lcd.LY
      /\ lcd'.count = lcd.count /\ lcd'.mode3 = lcd.mode3 /\ lcd'.off_count = lcd.off_count
      /\ lcd'.coinc = lcd.coinc /\ lcd'.LYC = lcd.LYC /\ lcd'.sel = lcd.sel
      /\ lcd'.stat_line = lcd.stat_line /\ lcd'.gb_frame = no
  BY <1>0 DEF Good, LcdRecords
<1>2. Good(lcd') /\ Done(lcd') = Done(lcd)
  BY <1>0, <1>1, SamePlace
<1>3. StatAgrees(lcd) => StatAgrees(lcd')
  BY <1>1 DEF StatAgrees, Line
<1>4. LcdInv'
  BY <1>1, <1>2, <1>3 DEF LcdInv, IInv, Call, Compares
<1>5. TimerInv' /\ SerialInv'
  BY DEF Call, IInv, TimerInv, SerialInv
<1>6. CallInv'
  <2>1. whole' \in BOOLEAN /\ skip' \in BOOLEAN
    BY Zenon DEF Call
  <2> QED
    BY <2>1 DEF Call, IInv, CallInv
<1>7. FrameInv'
  <2> SUFFICES ASSUME whole' PROVE FrameInv'
    BY DEF FrameInv
  <2>1. lcd.on /\ lcd.mode = "vblank" /\ total' = 0 /\ lines' = <<>>
    BY DEF Call
  <2>2. Done(lcd') = 0 /\ Position(lcd') \in Nat
    BY <1>1, <1>2, <2>1, PlaceIsInFrame DEF Done
  <2> QED
    BY <1>0, <1>1, <2>1, <2>2, OneMoreLine DEF FrameInv
<1> QED
  BY <1>4, <1>5, <1>6, <1>7 DEF IInv

LEMMA NextIInv == IInv /\ [Next]_vars => IInv'
<1> SUFFICES ASSUME IInv, [Next]_vars PROVE IInv'
  OBVIOUS
<1>1. CASE Call
  BY <1>1, CallKeeps
<1>2. CASE Batch
  <2>1. PICK n \in Batches : Running /\ Pass(n)
    BY <1>2 DEF Batch
  <2>2. Fits(lcd, n)
    BY ShortSteps DEF Fits, Short
  <2> QED
    BY <2>1, <2>2, PassKeeps
<1>3. CASE Sleep
  BY <1>3, SleepLength, PassKeeps DEF Sleep, IInv
<1>4. CASE WriteLcd
  BY <1>4, WriteLcdKeeps
<1>5. CASE WriteTimer
  BY <1>5, WriteTimerKeeps
<1>6. CASE WriteSerial
  BY <1>6, WriteSerialKeeps
<1>7. CASE UNCHANGED vars
  BY <1>7 DEF vars, IInv, LcdInv, TimerInv, SerialInv, CallInv, FrameInv
<1> QED
  BY <1>1, <1>2, <1>3, <1>4, <1>5, <1>6, <1>7 DEF Next

LEMMA InvariantHolds == Spec => []IInv
<1> QED
  BY InitIInv, NextIInv, PTL DEF Spec

LEMMA GoodMeansWhole == IInv => FramesAreWhole
<1> SUFFICES ASSUME IInv PROVE FramesAreWhole
  OBVIOUS
<1>1. TypeOK
  <2>1. lcd \in LcdRecords /\ age \in Nat /\ total \in Nat /\ lines \in Seq(Nat)
        /\ writes \in 0 .. MaxWrites
    BY DEF IInv, LcdInv, Good, SerialInv, OnItsWay, CallInv
  <2>2. skip \in BOOLEAN /\ busy \in BOOLEAN /\ whole \in BOOLEAN /\ compared \in BOOLEAN
    BY DEF IInv, CallInv
  <2> QED
    BY <2>1, <2>2, Zenon DEF TypeOK
<1>2. NoBacklog
  BY DEF IInv, LcdInv, Good, NoBacklog
<1>3. WholeFrames
  <2> SUFFICES ASSUME whole, ~Running
               PROVE  /\ lcd.gb_frame /\ lcd.mode = "vblank" /\ lcd.LY = LCD_HEIGHT
                      /\ lines = IF skip THEN <<>> ELSE [i \in 1 .. LCD_HEIGHT |-> i - 1]
    BY DEF WholeFrames
  <2>1. lcd.gb_frame
    <3> SUFFICES ASSUME ~lcd.gb_frame PROVE FALSE
      OBVIOUS
    <3>1. lcd.on /\ Good(lcd) /\ total <= Position(lcd) /\ total \in Nat
      BY DEF IInv, FrameInv, LcdInv, CallInv
    <3>2. Position(lcd) \in Nat /\ Position(lcd) < LCD_FRAME_CYCLES
      BY <3>1, PlaceIsInFrame
    <3> QED
      BY <3>1, <3>2, FrameIsLong DEF Running
  <2> QED
    BY <2>1 DEF IInv, FrameInv, Drawn
<1> QED
  BY <1>1, <1>2, <1>3 DEF FramesAreWhole

(* However batches, sleeps and writes fall, the controller stays inside its *)
(* mode, and a call that begins with the blank ends with the next one,      *)
(* every line drawn once and in order (the LCD part of __gb_step_cpu).      *)
THEOREM FramesStayWhole == Spec => []FramesAreWhole
<1> QED
  BY InvariantHolds, GoodMeansWhole, PTL

(* STAT compares the registers as they are, and its line is the OR of the   *)
(* enabled sources, after every write and every step (__gb_update_stat_irq, *)
(* __gb_check_lyc).                                                         *)
THEOREM StatStaysTrue == Spec => []StatIsTrue
<1>1. IInv => StatIsTrue
  BY DEF IInv, LcdInv, StatIsTrue, StatAgrees, Compares
<1> QED
  BY <1>1, InvariantHolds, PTL

-----------------------------------------------------------------------------
(* A sleep, one cycle at a time.                                            *)

(* A set of naturals that is not empty has a smallest element.              *)
LEMMA SmallestOf ==
  ASSUME NEW T \in SUBSET Nat, T # {}
  PROVE  \E m \in T : \A k \in T : m <= k
<1>1. PICK m \in T : \A k \in T : ~(<<k, m>> \in OpToRel(<, Nat))
  BY WFMin, NatLessThanWellFounded, Zenon
<1>2. ASSUME NEW k \in T, k < m PROVE FALSE
  <2>1. <<k, m>> \in Nat \X Nat /\ <<k, m>>[1] < <<k, m>>[2]
    BY <1>2
  <2>2. <<k, m>> \in {ss \in Nat \X Nat : ss[1] < ss[2]}
    BY <2>1
  <2>3. <<k, m>> \in OpToRel(<, Nat)
    BY <2>2, Zenon DEF OpToRel
  <2> QED
    BY <1>1, <2>3, Zenon
<1> QED
  BY <1>2

LEMMA CountingUp ==
  ASSUME NEW m \in Nat, NEW T, 0 \in T, \A i \in 1..m : i - 1 \in T => i \in T
  PROVE  0..m \subseteq T
<1> SUFFICES ASSUME (0..m) \ T # {} PROVE FALSE
  OBVIOUS
<1>0. (0..m) \ T \in SUBSET Nat
  OBVIOUS
<1>1. PICK k \in (0..m) \ T : \A j \in (0..m) \ T : k <= j
  BY <1>0, SmallestOf
<1>2. k # 0 /\ k - 1 \in 0..m /\ k \in 1..m
  BY <1>1
<1>3. k - 1 \in T
  BY <1>1, <1>2
<1> QED
  BY <1>1, <1>2, <1>3

(* How long until the timer asks for an interrupt.                          *)
Until(t) ==
  IF t.delay THEN 1
  ELSE (TIMA_SIZE - t.TIMA - 1) * TacCycles(t.shift)
         + (TacCycles(t.shift) - (t.count % TacCycles(t.shift))) + 1

LEMMA SmallRemains ==
  ASSUME NEW p \in Nat \ {0}
  PROVE  /\ \A a \in 0..(p - 1) : a % p = a /\ a \div p = 0
         /\ p % p = 0 /\ p \div p = 1
OBVIOUS

LEMMA OneCycle ==
  ASSUME NEW t \in TimerRecords, Settled(t), ~t.delay
  PROVE  LET r == TimerAdvance(t, 1)
         IN  /\ r \in TimerRecords /\ Settled(r) /\ r.enable = t.enable /\ r.raised = {}
             /\ t.enable => Until(t) >= 2 /\ Until(r) = Until(t) - 1
<1> DEFINE a == RaiseDelayed([t EXCEPT !.raised = {}])
           b == CountTima(a, 1)
           c == CountDiv(b, 1)
           p == TacCycles(t.shift)
           ticks == (t.count + 1) \div p
           left == (t.count + 1) % p
<1>1. /\ a \in TimerRecords /\ ~a.delay /\ a.enable = t.enable /\ a.shift = t.shift
      /\ a.count = t.count /\ a.TIMA = t.TIMA /\ a.raised = {}
  BY DelayIsRaised
<1>2. TimerAdvance(t, 1) = c
  BY DEF TimerAdvance
<1> HIDE DEF a, c
<1>3. /\ b \in TimerRecords /\ Settled(b) /\ b.enable = t.enable /\ b.shift = t.shift
      /\ b.raised = {}
      /\ t.enable => /\ b.count = left /\ b.TIMA = (t.TIMA + ticks) % TIMA_SIZE
                     /\ b.delay = (t.TIMA + ticks >= TIMA_SIZE)
  BY <1>1, TimaIsCounted
<1> HIDE DEF b
<1>4. c \in TimerRecords /\ c.enable = b.enable /\ c.shift = b.shift /\ c.count = b.count
      /\ c.TIMA = b.TIMA /\ c.delay = b.delay /\ c.raised = b.raised
  BY <1>3, DivIsCounted DEF c
<1>5. Settled(c)
  BY <1>3, <1>4 DEF Settled
<1>6. ASSUME t.enable PROVE Until(t) >= 2 /\ Until(c) = Until(t) - 1
  <2>a. t.shift \in Shifts
    BY DEF TimerRecords
  <2>0. p \in Nat \ {0}
    BY <2>a, Rates
  <2>1. t.count \in 0..(p - 1) /\ t.TIMA \in 0..(TIMA_SIZE - 1) /\ TIMA_SIZE \in Nat \ {0}
    BY <1>6, <2>0, Rates DEF Settled, TimerRecords
  <2>2. c.shift = t.shift /\ c.count = left /\ c.TIMA = (t.TIMA + ticks) % TIMA_SIZE
        /\ c.delay = (t.TIMA + ticks >= TIMA_SIZE)
    BY <1>3, <1>4, <1>6
  <2> DEFINE rounds == TIMA_SIZE - t.TIMA - 1
  <2>3. t.count % p = t.count /\ rounds \in Nat
    BY <2>0, <2>1, SmallRemains
  <2>4. Until(t) = (rounds * p) + (p - t.count) + 1
    BY <2>3 DEF Until
  <2> HIDE DEF p
  <2>5. rounds * p \in Nat
    <3> HIDE DEF rounds
    <3> QED
      BY <2>0, <2>3
  <2>6. Until(t) >= 2
    <3> HIDE DEF rounds
    <3> QED
      BY <2>0, <2>1, <2>4, <2>5
  <2>7. Until(c) = IF c.delay THEN 1 ELSE ((TIMA_SIZE - c.TIMA - 1) * p) + (p - (c.count % p)) + 1
    BY <2>2 DEF Until, p
  <2>8. CASE t.count + 1 < p
    <3>1. ticks = 0 /\ left = t.count + 1
      BY <2>0, <2>1, <2>8, SmallRemains
    <3>a. t.TIMA + ticks = t.TIMA /\ ~(t.TIMA >= TIMA_SIZE) /\ t.TIMA % TIMA_SIZE = t.TIMA
      BY <2>1, <3>1, SmallRemains
    <3>b. (t.count + 1) % p = t.count + 1
      BY <3>1
    <3> HIDE DEF ticks, left
    <3>2. ~c.delay /\ c.TIMA = t.TIMA /\ c.count = t.count + 1 /\ c.count % p = t.count + 1
      BY <2>2, <3>1, <3>a, <3>b
    <3>3. Until(c) = (rounds * p) + (p - (t.count + 1)) + 1
      BY <2>7, <3>2
    <3> HIDE DEF rounds
    <3> QED
      BY <2>0, <2>1, <2>4, <2>5, <2>6, <3>3
  <2>9. CASE t.count + 1 = p
    <3>1. ticks = 1 /\ left = 0
      BY <2>0, <2>9, SmallRemains
    <3>2. CASE t.TIMA + 1 = TIMA_SIZE
      <4>a. t.TIMA + ticks >= TIMA_SIZE
        BY <2>1, <3>1, <3>2
      <4>b. c.delay
        BY <2>2, <4>a, Zenon
      <4>1. Until(c) = 1
        BY <2>7, <4>b, Zenon
      <4>2. rounds = 0
        BY <2>1, <3>2
      <4>3. 0 * p = 0
        BY <2>0
      <4>4. Until(t) = 2
        BY <2>0, <2>1, <2>4, <2>9, <4>2, <4>3
      <4> QED
        BY <4>1, <4>4
    <3>3. CASE t.TIMA + 1 # TIMA_SIZE
      <4>a. t.TIMA + 1 \in 0..(TIMA_SIZE - 1)
        BY <2>1, <3>3
      <4>b. ~(t.TIMA + 1 >= TIMA_SIZE) /\ (t.TIMA + 1) % TIMA_SIZE = t.TIMA + 1 /\ 0 % p = 0
        BY <2>0, <2>1, <4>a, SmallRemains
      <4>c. ~c.delay
        BY <2>2, <3>1, <4>b, Zenon
      <4>d. c.TIMA = t.TIMA + 1 /\ c.count = 0
        BY <2>2, <3>1, <4>b, Zenon
      <4>1. ~c.delay /\ c.TIMA = t.TIMA + 1 /\ c.count = 0 /\ c.count % p = 0
        BY <4>b, <4>c, <4>d, Zenon
      <4>2. TIMA_SIZE - c.TIMA - 1 = rounds - 1
        BY <2>1, <4>1
      <4> HIDE DEF rounds
      <4>3. Until(c) = ((rounds - 1) * p) + (p - 0) + 1
        BY <2>7, <4>1, <4>2
      <4>4. (rounds - 1) * p = (rounds * p) - p
        BY <2>0, <2>3
      <4> QED
        BY <2>0, <2>1, <2>4, <2>5, <2>9, <4>3, <4>4
    <3> QED
      BY <3>2, <3>3
  <2> QED
    BY <2>0, <2>1, <2>6, <2>8, <2>9
<1> QED
  BY <1>2, <1>3, <1>4, <1>5, <1>6

(* The controller k cycles later, as long as nothing ends.                  *)
Later(l, k) ==
  [l EXCEPT !.raised = {}, !.drawn = {}, !.count = IF l.on THEN l.count + k ELSE l.count,
            !.off_count = IF l.on THEN l.off_count ELSE l.off_count + k]
IsLater(c, l, k) == [c EXCEPT !.raised = {}, !.drawn = {}] = Later(l, k)
LongLine(l) == l.mode = "vblank" /\ l.LY = LCD_VERT_LINES - 1
(* What becomes of a controller whose cycles have been counted.             *)
Rest(l, window, skipped) ==
  IF l.on THEN IF l.count < Duration(l) THEN l ELSE Ended(l, 0, window, skipped)
  ELSE IF l.off_count < LCD_FRAME_CYCLES THEN l
  ELSE [l EXCEPT !.off_count = @ - LCD_FRAME_CYCLES, !.gb_frame = TRUE]

LEMMA LaterIs ==
  ASSUME NEW l \in LcdRecords, NEW k \in Nat
  PROVE  LET r == Later(l, k)
         IN  /\ r \in LcdRecords /\ r.on = l.on /\ r.mode = l.mode /\ r.LY = l.LY /\ r.LYC = l.LYC
             /\ r.coinc = l.coinc /\ r.sel = l.sel /\ r.stat_line = l.stat_line
             /\ r.mode3 = l.mode3 /\ r.gb_frame = l.gb_frame /\ r.raised = {} /\ r.drawn = {}
             /\ r.count = (IF l.on THEN l.count + k ELSE l.count)
             /\ r.off_count = (IF l.on THEN l.off_count ELSE l.off_count + k)
<1> DEFINE count == IF l.on THEN l.count + k ELSE l.count
           off == IF l.on THEN l.off_count ELSE l.off_count + k
           r == [l EXCEPT !.raised = {}, !.drawn = {}, !.count = count, !.off_count = off]
<1>1. count \in Nat /\ off \in Nat
  BY DEF LcdRecords
<1>2. Later(l, k) = r
  BY DEF Later
<1> HIDE DEF count, off
<1>3. /\ r \in LcdRecords /\ r.on = l.on /\ r.mode = l.mode /\ r.LY = l.LY /\ r.LYC = l.LYC
      /\ r.coinc = l.coinc /\ r.sel = l.sel /\ r.stat_line = l.stat_line
      /\ r.mode3 = l.mode3 /\ r.gb_frame = l.gb_frame /\ r.raised = {} /\ r.drawn = {}
      /\ r.count = count /\ r.off_count = off
  BY <1>1 DEF LcdRecords
<1> HIDE DEF r
<1> QED
  BY <1>2, <1>3 DEF count, off

LEMMA SameRecord ==
  ASSUME NEW a \in LcdRecords, NEW b \in LcdRecords,
         a.on = b.on, a.mode = b.mode, a.LY = b.LY, a.LYC = b.LYC, a.coinc = b.coinc,
         a.sel = b.sel, a.stat_line = b.stat_line, a.mode3 = b.mode3, a.gb_frame = b.gb_frame,
         a.raised = b.raised, a.drawn = b.drawn, a.count = b.count, a.off_count = b.off_count
  PROVE  a = b
BY DEF LcdRecords

(* n cycles at once are n cycles counted and what becomes of them.          *)
LEMMA AdvanceIsRest ==
  ASSUME NEW l \in LcdRecords, ~LongLine(l), NEW k \in Nat, NEW n \in Nat, NEW window, NEW skipped,
         NEW c, IsLater(c, l, k)
  PROVE  LcdAdvance(c, n, 0, window, skipped) = Rest(Later(l, k + n), window, skipped)
<1> DEFINE m == Later(l, k)
           z == Later(l, k + n)
           counted == m.count + n
           more == m.off_count + n
           a == [m EXCEPT !.count = counted]
           b == [m EXCEPT !.off_count = more]
<1>1. /\ m \in LcdRecords /\ m.on = l.on /\ m.mode = l.mode /\ m.LY = l.LY /\ m.LYC = l.LYC
      /\ m.coinc = l.coinc /\ m.sel = l.sel /\ m.stat_line = l.stat_line
      /\ m.mode3 = l.mode3 /\ m.gb_frame = l.gb_frame /\ m.raised = {} /\ m.drawn = {}
      /\ m.count = (IF l.on THEN l.count + k ELSE l.count)
      /\ m.off_count = (IF l.on THEN l.off_count ELSE l.off_count + k)
  BY LaterIs
<1>2. /\ z \in LcdRecords /\ z.on = l.on /\ z.mode = l.mode /\ z.LY = l.LY /\ z.LYC = l.LYC
      /\ z.coinc = l.coinc /\ z.sel = l.sel /\ z.stat_line = l.stat_line
      /\ z.mode3 = l.mode3 /\ z.gb_frame = l.gb_frame /\ z.raised = {} /\ z.drawn = {}
      /\ z.count = (IF l.on THEN l.count + (k + n) ELSE l.count)
      /\ z.off_count = (IF l.on THEN l.off_count ELSE l.off_count + (k + n))
  <2>1. k + n \in Nat
    OBVIOUS
  <2> QED
    BY <2>1, LaterIs
<1>3. LcdAdvance(c, n, 0, window, skipped)
        = IF m.on THEN OnAdvance(m, n, 0, window, skipped) ELSE OffAdvance(m, n)
  <2> DEFINE cleared == [c EXCEPT !.raised = {}, !.drawn = {}]
  <2>1. LcdAdvance(c, n, 0, window, skipped)
          = IF cleared.on THEN OnAdvance(cleared, n, 0, window, skipped) ELSE OffAdvance(cleared, n)
    BY DEF LcdAdvance
  <2>2. cleared = m
    BY Zenon DEF IsLater
  <2> HIDE DEF cleared, m
  <2> QED
    BY <2>1, <2>2, Zenon
<1>0. l.count \in Nat /\ l.off_count \in Nat
  BY DEF LcdRecords
<1> HIDE DEF m, z
<1>4. CASE l.on
  <2>1. counted \in Nat /\ counted = z.count
    BY <1>0, <1>1, <1>2, <1>4
  <2> HIDE DEF counted
  <2>2. a \in LcdRecords /\ a.on = m.on /\ a.mode = m.mode /\ a.LY = m.LY /\ a.LYC = m.LYC
        /\ a.coinc = m.coinc /\ a.sel = m.sel /\ a.stat_line = m.stat_line
        /\ a.mode3 = m.mode3 /\ a.gb_frame = m.gb_frame /\ a.raised = m.raised /\ a.drawn = m.drawn
        /\ a.count = counted /\ a.off_count = m.off_count
    BY <1>1, <2>1 DEF LcdRecords
  <2> HIDE DEF a
  <2>3. a = z
    <3>1. /\ a.on = z.on /\ a.mode = z.mode /\ a.LY = z.LY /\ a.LYC = z.LYC /\ a.coinc = z.coinc
          /\ a.sel = z.sel /\ a.stat_line = z.stat_line /\ a.mode3 = z.mode3
          /\ a.gb_frame = z.gb_frame /\ a.raised = z.raised /\ a.drawn = z.drawn
          /\ a.count = z.count /\ a.off_count = z.off_count
      BY <1>1, <1>2, <1>4, <2>1, <2>2
    <3> QED
      BY <1>2, <2>2, <3>1, SameRecord
  <2>4. ShortLine(a) = a
    BY <1>1, <2>2 DEF ShortLine, LongLine
  <2>5. OnAdvance(m, n, 0, window, skipped) = IF a.count < Duration(a) THEN a ELSE Ended(a, 0, window, skipped)
    BY <2>4 DEF OnAdvance, a, counted
  <2> QED
    BY <1>1, <1>2, <1>3, <1>4, <2>3, <2>5 DEF Rest, z
<1>5. CASE ~l.on
  <2> DEFINE yes == TRUE
             less == more - LCD_FRAME_CYCLES
             d == [m EXCEPT !.off_count = less, !.gb_frame = yes]
             e == [b EXCEPT !.off_count = less, !.gb_frame = yes]
  <2>1. more \in Nat /\ more = z.off_count
    BY <1>0, <1>1, <1>2, <1>5
  <2>2. OffAdvance(m, n) = IF more < LCD_FRAME_CYCLES THEN b ELSE d
    BY Zenon DEF OffAdvance
  <2>3. yes \in BOOLEAN
    OBVIOUS
  <2> HIDE DEF more, less, yes
  <2>4. b \in LcdRecords /\ b.on = m.on /\ b.mode = m.mode /\ b.LY = m.LY /\ b.LYC = m.LYC
        /\ b.coinc = m.coinc /\ b.sel = m.sel /\ b.stat_line = m.stat_line
        /\ b.mode3 = m.mode3 /\ b.gb_frame = m.gb_frame /\ b.raised = m.raised /\ b.drawn = m.drawn
        /\ b.count = m.count /\ b.off_count = more
    BY <1>1, <2>1 DEF LcdRecords
  <2>5. d = e
    BY <1>1 DEF LcdRecords
  <2> HIDE DEF b
  <2>6. b = z
    <3>1. /\ b.on = z.on /\ b.mode = z.mode /\ b.LY = z.LY /\ b.LYC = z.LYC /\ b.coinc = z.coinc
          /\ b.sel = z.sel /\ b.stat_line = z.stat_line /\ b.mode3 = z.mode3
          /\ b.gb_frame = z.gb_frame /\ b.raised = z.raised /\ b.drawn = z.drawn
          /\ b.count = z.count /\ b.off_count = z.off_count
      BY <1>1, <1>2, <1>5, <2>1, <2>4
    <3> QED
      BY <1>2, <2>4, <3>1, SameRecord
  <2>7. Rest(z, window, skipped) = IF more < LCD_FRAME_CYCLES THEN b ELSE e
    BY <1>2, <1>5, <2>1, <2>6, Zenon DEF Rest, less, yes
  <2> QED
    BY <1>1, <1>3, <1>5, <2>2, <2>5, <2>7 DEF z
<1> QED
  BY <1>4, <1>5

(* Before the last cycle of the room that is left, nothing ends.            *)
LEMMA NothingEnds ==
  ASSUME NEW l \in LcdRecords, NEW k \in Nat, k < Room(l), NEW window, NEW skipped
  PROVE  Rest(Later(l, k), window, skipped) = Later(l, k)
<1>1. /\ Later(l, k).on = l.on /\ Later(l, k).mode = l.mode /\ Later(l, k).mode3 = l.mode3
      /\ Later(l, k).count = (IF l.on THEN l.count + k ELSE l.count)
      /\ Later(l, k).off_count = (IF l.on THEN l.off_count ELSE l.off_count + k)
  BY LaterIs
<1>2. l.mode \in Modes /\ l.count \in Nat /\ l.off_count \in Nat /\ l.mode3 \in Nat
  BY Sizes DEF LcdRecords
<1>3. Duration(Later(l, k)) = Duration(l) /\ Duration(l) \in Int
  BY <1>1, <1>2, Sizes, ModesLast DEF Modes
<1>4. IF l.on THEN Later(l, k).count < Duration(Later(l, k)) ELSE Later(l, k).off_count < LCD_FRAME_CYCLES
  BY <1>1, <1>2, <1>3, FrameIsLong DEF Room
<1> QED
  BY <1>1, <1>4, Zenon DEF Rest

LEMMA ClearedAgain ==
  ASSUME NEW l \in LcdRecords, NEW k \in Nat
  PROVE  /\ [Later(l, k) EXCEPT !.raised = {}, !.drawn = {}] = Later(l, k)
         /\ [l EXCEPT !.raised = {}, !.drawn = {}] = Later(l, 0)
         /\ [[l EXCEPT !.raised = {}] EXCEPT !.raised = {}, !.drawn = {}] = Later(l, 0)
<1>1. ASSUME NEW c \in LcdRecords, c.raised = {}, c.drawn = {}
      PROVE  [c EXCEPT !.raised = {}, !.drawn = {}] = c
  BY <1>1 DEF LcdRecords
<1>2. [Later(l, k) EXCEPT !.raised = {}, !.drawn = {}] = Later(l, k)
  BY <1>1, LaterIs
<1>3. [l EXCEPT !.raised = {}, !.drawn = {}] = Later(l, 0)
  <2> DEFINE c == [l EXCEPT !.raised = {}, !.drawn = {}]
             z == Later(l, 0)
  <2>1. c \in LcdRecords /\ c.on = l.on /\ c.mode = l.mode /\ c.LY = l.LY /\ c.LYC = l.LYC
        /\ c.coinc = l.coinc /\ c.sel = l.sel /\ c.stat_line = l.stat_line
        /\ c.mode3 = l.mode3 /\ c.gb_frame = l.gb_frame /\ c.raised = {} /\ c.drawn = {}
        /\ c.count = l.count /\ c.off_count = l.off_count
    BY DEF LcdRecords
  <2>2. z \in LcdRecords /\ z.on = l.on /\ z.mode = l.mode /\ z.LY = l.LY /\ z.LYC = l.LYC
        /\ z.coinc = l.coinc /\ z.sel = l.sel /\ z.stat_line = l.stat_line
        /\ z.mode3 = l.mode3 /\ z.gb_frame = l.gb_frame /\ z.raised = {} /\ z.drawn = {}
        /\ z.count = l.count /\ z.off_count = l.off_count
    <3>1. l.count + 0 = l.count /\ l.off_count + 0 = l.off_count /\ 0 \in Nat
      BY DEF LcdRecords
    <3> QED
      BY <3>1, LaterIs
  <2> HIDE DEF c, z
  <2>3. c = z
    BY <2>1, <2>2, SameRecord
  <2> QED
    BY <2>3 DEF c, z
<1>4. [[l EXCEPT !.raised = {}] EXCEPT !.raised = {}, !.drawn = {}]
        = [l EXCEPT !.raised = {}, !.drawn = {}]
  BY DEF LcdRecords
<1> QED
  BY <1>2, <1>3, <1>4

LEMMA NoSleepMisses == IInv => SleepMissesNothing
<1> DEFINE no == FALSE
           n == SleepCycles
           m == n - 1
           Quiet(x, k) ==
             /\ x.l.raised = {} /\ ~x.l.gb_frame
             /\ [x.l EXCEPT !.raised = {}, !.drawn = {}] = Later(lcd, k)
             /\ x.t \in TimerRecords /\ Settled(x.t) /\ x.t.enable = timer.enable
             /\ x.t.raised = {} /\ (timer.enable => Until(x.t) = UntilTimer - k)
           first == [l |-> [lcd EXCEPT !.raised = {}], t |-> [timer EXCEPT !.raised = {}]]
           Step(x) == IF x.l.raised \cup x.t.raised # {} THEN x
                      ELSE [l |-> LcdAdvance(x.l, 1, 0, no, skip), t |-> TimerAdvance(x.t, 1)]
           Body(f) == [k \in 0 .. m |-> IF k = 0 THEN first ELSE Step(f[k - 1])]
           Found == CHOOSE f : f = Body(f)
<1> SUFFICES ASSUME IInv, Running, ~busy, ~LongLine(lcd), n > MIN_SLEEP
             PROVE  /\ Passed(m).l.raised \cup Passed(m).t.raised = {} /\ ~Passed(m).l.gb_frame
                    /\ LcdAdvance(Passed(m).l, 1, 0, no, skip) = LcdAdvance(lcd, n, 0, no, skip)
  BY Zenon DEF SleepMissesNothing, LongLine
<1>1. n \in Nat \ {0} /\ n <= Room(lcd) /\ (timer.enable => n <= UntilTimer)
  BY SleepLength DEF IInv
<1>2. m \in Nat /\ m < Room(lcd) /\ m + 1 = n /\ (timer.enable => m < UntilTimer)
  <2>1. Room(lcd) \in Int /\ UntilTimer \in Int
    BY SleepLength, ModesLast, Sizes, FrameIsLong DEF IInv, LcdInv, Good, LcdRecords, Modes, Room
  <2> QED
    BY <1>1, <2>1
<1>3. lcd \in LcdRecords /\ ~lcd.gb_frame /\ timer \in TimerRecords /\ Settled(timer)
  BY DEF IInv, LcdInv, Good, TimerInv, Running
<1>4. Passed(m) = Found[m]
  BY Zenon DEF Passed
<1> HIDE DEF n, m, no
<1>5. \E f : f = Body(f)
  <2> HIDE DEF first, Step
  <2> DEFINE Upto(f, k) == f[0] = first /\ \A i \in 1..k : f[i] = Step(f[i - 1])
             T == {k \in 0..m : \E f : Upto(f, k)}
  <2>1. 0 \in T
    <3> DEFINE f == [i \in {0} |-> first]
    <3>1. f[0] = first /\ 1..0 = {} /\ 0 \in 0..m
      BY <1>2
    <3> HIDE DEF f
    <3>2. Upto(f, 0)
      BY <3>1
    <3> QED
      BY <3>1, <3>2
  <2>2. ASSUME NEW k \in 1..m, k - 1 \in T PROVE k \in T
    <3>1. PICK f : Upto(f, k - 1)
      BY <2>2
    <3> DEFINE next == Step(f[k - 1])
               longer == [i \in 0..k |-> IF i = k THEN next ELSE f[i]]
    <3>2. longer[0] = first
      BY <3>1
    <3>3. ASSUME NEW i \in 1..k PROVE longer[i] = Step(longer[i - 1])
      <4>1. longer[i - 1] = f[i - 1]
        OBVIOUS
      <4>2. longer[i] = Step(f[i - 1])
        <5>1. CASE i = k
          BY <5>1
        <5>2. CASE i # k
          <6>1. i \in 1..(k - 1) /\ longer[i] = f[i]
            BY <5>2
          <6> QED
            BY <3>1, <6>1
        <5> QED
          BY <5>1, <5>2
      <4> HIDE DEF longer
      <4> QED
        BY <4>1, <4>2
    <3> HIDE DEF longer
    <3>4. Upto(longer, k)
      BY <3>2, <3>3
    <3>5. k \in 0..m
      OBVIOUS
    <3> QED
      BY <3>4, <3>5
  <2> HIDE DEF T
  <2>3. 0..m \subseteq T
    BY <1>2, <2>1, <2>2, CountingUp
  <2>4. PICK f : Upto(f, m)
    BY <1>2, <2>3 DEF T
  <2> DEFINE g == [i \in 0..m |-> f[i]]
  <2>5. ASSUME NEW k \in 0..m PROVE g[k] = IF k = 0 THEN first ELSE Step(g[k - 1])
    <3>1. CASE k = 0
      BY <2>4, <3>1
    <3>2. CASE k # 0
      <4>1. k \in 1..m /\ k - 1 \in 0..m
        BY <1>2, <3>2
      <4>2. g[k] = f[k] /\ g[k - 1] = f[k - 1]
        BY <4>1
      <4> QED
        BY <2>4, <3>2, <4>1, <4>2
    <3> QED
      BY <3>1, <3>2
  <2>6. g = Body(g)
    BY <2>5
  <2> QED
    BY <2>6
<1>6. Found = Body(Found)
  BY <1>5, Zenon
<1> HIDE DEF Found
<1>7. \A k \in 0..m : Found[k] = IF k = 0 THEN first ELSE Step(Found[k - 1])
  <2> HIDE DEF first, Step
  <2> QED
    BY <1>6
<1>8. Quiet(first, 0)
  <2>1. first.l = [lcd EXCEPT !.raised = {}] /\ first.t = [timer EXCEPT !.raised = {}]
    OBVIOUS
  <2>2. [first.l EXCEPT !.raised = {}, !.drawn = {}] = Later(lcd, 0)
    BY <1>3, <2>1, ClearedAgain
  <2>3. first.l.raised = {} /\ ~first.l.gb_frame
    BY <1>3, <2>1 DEF LcdRecords
  <2>4. /\ first.t \in TimerRecords /\ first.t.enable = timer.enable /\ first.t.raised = {}
        /\ first.t.delay = timer.delay /\ first.t.TIMA = timer.TIMA
        /\ first.t.shift = timer.shift /\ first.t.count = timer.count
    BY <1>3, <2>1 DEF TimerRecords
  <2> HIDE DEF first
  <2>5. Settled(first.t)
    BY <1>3, <2>4 DEF Settled
  <2>6. Until(first.t) = UntilTimer
    BY <2>4 DEF Until, UntilTimer
  <2>7. UntilTimer \in Int /\ UntilTimer - 0 = UntilTimer
    BY SleepLength DEF IInv
  <2> QED
    BY <2>2, <2>3, <2>4, <2>5, <2>6, <2>7
<1> HIDE DEF first
<1>9. ASSUME NEW k \in 1..m, NEW x, Quiet(x, k - 1) PROVE Quiet(Step(x), k)
  <2> DEFINE l == LcdAdvance(x.l, 1, 0, no, skip)
             t == TimerAdvance(x.t, 1)
  <2>0. k \in Nat /\ k - 1 \in Nat /\ (k - 1) + 1 = k /\ k < Room(lcd)
    <3>1. Room(lcd) \in Int
      BY ModesLast, Sizes, FrameIsLong DEF IInv, LcdInv, Good, LcdRecords, Modes, Room
    <3> QED
      BY <1>2, <3>1
  <2>1. x.l.raised \cup x.t.raised = {}
    BY <1>9
  <2>2. Step(x) = [l |-> l, t |-> t]
    BY <2>1, Zenon
  <2>3. l = Rest(Later(lcd, k), no, skip)
    <3>1. IsLater(x.l, lcd, k - 1)
      BY <1>9, Zenon DEF IsLater
    <3>2. LcdAdvance(x.l, 1, 0, no, skip) = Rest(Later(lcd, (k - 1) + 1), no, skip)
      BY <1>3, <2>0, <3>1, AdvanceIsRest
    <3> QED
      BY <2>0, <3>2, Zenon
  <2>4. l = Later(lcd, k)
    BY <1>3, <2>0, <2>3, NothingEnds
  <2> HIDE DEF l
  <2>5. l.raised = {} /\ ~l.gb_frame /\ [l EXCEPT !.raised = {}, !.drawn = {}] = Later(lcd, k)
    <3>1. Later(lcd, k).raised = {} /\ ~Later(lcd, k).gb_frame
      BY <1>3, <2>0, LaterIs
    <3>2. [Later(lcd, k) EXCEPT !.raised = {}, !.drawn = {}] = Later(lcd, k)
      BY <1>3, <2>0, ClearedAgain, Zenon
    <3> QED
      BY <2>4, <3>1, <3>2, Zenon
  <2>6. ~x.t.delay
    <3>1. CASE timer.enable
      <4>1. Until(x.t) = UntilTimer - (k - 1) /\ UntilTimer \in Int /\ m < UntilTimer
        BY <1>2, <1>9, <3>1, SleepLength DEF IInv
      <4>2. Until(x.t) > 1
        BY <1>2, <2>0, <4>1
      <4> QED
        BY <4>2 DEF Until
    <3>2. CASE ~timer.enable
      BY <1>9, <3>2 DEF Settled
    <3> QED
      BY <3>1, <3>2
  <2>7. /\ t \in TimerRecords /\ Settled(t) /\ t.enable = x.t.enable /\ t.raised = {}
        /\ x.t.enable => Until(t) = Until(x.t) - 1
    BY <1>9, <2>6, OneCycle
  <2> HIDE DEF t
  <2>8. timer.enable => Until(t) = UntilTimer - k
    <3>1. UntilTimer \in Int
      BY SleepLength DEF IInv
    <3> QED
      BY <1>9, <2>0, <2>7, <3>1
  <2> DEFINE y == [l |-> l, t |-> t]
  <2>9. y.l = l /\ y.t = t
    OBVIOUS
  <2> HIDE DEF y
  <2>10. Quiet(y, k)
    BY <1>9, <2>5, <2>7, <2>8, <2>9
  <2> HIDE DEF Quiet, Step
  <2> QED
    BY <2>2, <2>10 DEF y
<1> DEFINE T == {k \in 0..m : Quiet(Found[k], k)}
<1>10. 0..m \subseteq T
  <2> HIDE DEF Quiet, Step
  <2>1. 0 \in T
    BY <1>2, <1>7, <1>8
  <2>2. ASSUME NEW k \in 1..m, k - 1 \in T PROVE k \in T
    <3>1. k \in 0..m /\ k # 0 /\ k - 1 \in 0..m
      BY <1>2
    <3>2. Found[k] = Step(Found[k - 1]) /\ Quiet(Found[k - 1], k - 1)
      BY <1>7, <2>2, <3>1
    <3>3. Quiet(Step(Found[k - 1]), k)
      BY <1>9, <3>2
    <3> QED
      BY <3>1, <3>2, <3>3
  <2> HIDE DEF T
  <2> QED
    BY <1>2, <2>1, <2>2, CountingUp
<1>11. Quiet(Found[m], m)
  <2>1. m \in 0..m
    BY <1>2
  <2> QED
    BY <1>10, <2>1, Zenon
<1>12. LcdAdvance(Found[m].l, 1, 0, no, skip) = Rest(Later(lcd, n), no, skip)
  <2>1. IsLater(Found[m].l, lcd, m)
    BY <1>11, Zenon DEF IsLater
  <2>2. LcdAdvance(Found[m].l, 1, 0, no, skip) = Rest(Later(lcd, m + 1), no, skip)
    BY <1>2, <1>3, <2>1, AdvanceIsRest
  <2> QED
    BY <1>2, <2>2, Zenon
<1>13. LcdAdvance(lcd, n, 0, no, skip) = Rest(Later(lcd, n), no, skip)
  <2>1. 0 + n = n /\ n \in Nat /\ 0 \in Nat
    BY <1>1
  <2>2. LcdAdvance(lcd, n, 0, no, skip) = Rest(Later(lcd, 0 + n), no, skip)
    <3>1. IsLater(lcd, lcd, 0)
      BY <1>3, <2>1, ClearedAgain, Zenon DEF IsLater
    <3> QED
      BY <1>3, <2>1, <3>1, AdvanceIsRest
  <2> QED
    BY <2>1, <2>2
<1> QED
  BY <1>4, <1>11, <1>12, <1>13

(* Nothing loses cycles: a sleep of __gb_calc_halt_cycles is the same       *)
(* cycles passed one at a time, and a transfer of the serial port ends when *)
(* its cycles are over.                                                     *)
THEOREM ClocksNeverFallBehind == Spec => []ClocksKeepUp
<1>1. IInv => TransfersEnd
  BY Rates DEF IInv, SerialInv, OnItsWay, IsPort, TransfersEnd
<1>2. IInv => ClocksKeepUp
  BY <1>1, NoSleepMisses DEF ClocksKeepUp
<1> QED
  BY <1>2, InvariantHolds, PTL

=============================================================================
