-------------------------------- MODULE Lcd --------------------------------
(* The display controller of the core (the LCD part of __gb_step_cpu, the    *)
(* STAT line, and the writes to LCDC, STAT and LYC) as operators on records.  *)
(* Pixels and palettes are left out: drawing a line is noting its number.     *)
EXTENDS Integers

CONSTANTS LCD_LINE_CYCLES,            \* cycles of a line
          PPU_MODE_2_OAM_CYCLES,      \* of its first mode
          PPU_MODE_3_VRAM_MIN_CYCLES, \* of drawing, before penalties
          PPU_MODE_3_VRAM_MAX_CYCLES,
          Scrolls,                    \* penalties for SCX mod 8
          WindowCost, SpriteCost,     \* penalties for the window and for sprites
          LCD_HEIGHT, LCD_VERT_LINES, \* visible lines, and all lines
          OnCount                     \* where a line starts when the LCD is switched on
LCD_FRAME_CYCLES == LCD_LINE_CYCLES * LCD_VERT_LINES

Mode3(scx, window) ==
    LET sum == PPU_MODE_3_VRAM_MIN_CYCLES + scx + SpriteCost + (IF window THEN WindowCost ELSE 0)
    IN  IF sum < PPU_MODE_3_VRAM_MAX_CYCLES THEN sum ELSE PPU_MODE_3_VRAM_MAX_CYCLES

ASSUME LcdAssumption ==
    /\ {LCD_LINE_CYCLES, PPU_MODE_2_OAM_CYCLES, PPU_MODE_3_VRAM_MIN_CYCLES,
        PPU_MODE_3_VRAM_MAX_CYCLES, LCD_HEIGHT, LCD_VERT_LINES} \subseteq Nat \ {0}
    /\ Scrolls \subseteq Nat /\ Scrolls # {}
    /\ {WindowCost, SpriteCost, OnCount} \subseteq Nat
    /\ PPU_MODE_3_VRAM_MIN_CYCLES <= PPU_MODE_3_VRAM_MAX_CYCLES
    /\ PPU_MODE_2_OAM_CYCLES + PPU_MODE_3_VRAM_MAX_CYCLES < LCD_LINE_CYCLES
    /\ LCD_HEIGHT + 1 < LCD_VERT_LINES
    /\ OnCount < PPU_MODE_2_OAM_CYCLES

Modes   == {"hblank", "vblank", "oam", "transfer"}
Sources == {"hblank", "vblank", "oam", "lyc"}      \* the enable bits of STAT

(* The registers, as the start-up code leaves them: a coincidence is reported *)
(* that nothing has compared.                                                 *)
LcdReset == [on |-> TRUE, mode |-> "vblank", LY |-> LCD_HEIGHT, LYC |-> 0, coinc |-> TRUE,
             sel |-> {}, stat_line |-> FALSE, count |-> 0, mode3 |-> PPU_MODE_3_VRAM_MIN_CYCLES,
             off_count |-> 0, raised |-> {}, gb_frame |-> FALSE, drawn |-> {}]

LcdRecords ==
    [on : BOOLEAN, mode : Modes, LY : 0 .. LCD_VERT_LINES - 1, LYC : Nat, coinc : BOOLEAN,
     sel : SUBSET Sources, stat_line : BOOLEAN, count : Nat,
     mode3 : PPU_MODE_3_VRAM_MIN_CYCLES .. PPU_MODE_3_VRAM_MAX_CYCLES,
     off_count : Nat, raised : SUBSET {"stat", "vblank"}, gb_frame : BOOLEAN, drawn : SUBSET Nat]

(* How long the mode the controller is in lasts. *)
Duration(l) ==
    CASE l.mode = "oam"      -> PPU_MODE_2_OAM_CYCLES
      [] l.mode = "transfer" -> l.mode3
      [] l.mode = "hblank"   -> LCD_LINE_CYCLES - PPU_MODE_2_OAM_CYCLES - l.mode3
      [] l.mode = "vblank"   -> LCD_LINE_CYCLES

(* The STAT line, the OR of the enabled sources; an edge requests. *)
Line(l) == l.on /\ (l.mode \in l.sel \/ (l.coinc /\ "lyc" \in l.sel))
UpdateStatIrq(l) ==
    [l EXCEPT !.stat_line = Line(l),
              !.raised = IF Line(l) /\ ~l.stat_line THEN @ \cup {"stat"} ELSE @]
CheckLyc(l) == [l EXCEPT !.coinc = (l.LY = l.LYC)]
Checked(l)  == UpdateStatIrq(CheckLyc(l))

(* The line counter is 0 for most of the last line of the blank. *)
ShortLine(l) ==
    IF l.mode = "vblank" /\ l.LY = LCD_VERT_LINES - 1 THEN Checked([l EXCEPT !.LY = 0]) ELSE l

(* The end of each mode. *)
EnterTransfer(l, scx, window) ==
    UpdateStatIrq([l EXCEPT !.mode = "transfer", !.mode3 = Mode3(scx, window)])
EnterHblank(l, skip) ==
    UpdateStatIrq([l EXCEPT !.mode = "hblank", !.drawn = IF skip THEN {} ELSE {l.LY}])
EnterVblank(l) ==
    Checked(UpdateStatIrq([l EXCEPT !.mode = "vblank", !.gb_frame = TRUE,
                                    !.raised = @ \cup {"vblank"}]))
\* mutant: the line after the last visible one is drawn too
NextLineLate(l) ==
    IF l.LY = LCD_HEIGHT THEN EnterVblank([l EXCEPT !.LY = @ + 1])
    ELSE Checked([l EXCEPT !.LY = @ + 1, !.mode = "oam"])
NextLine(l) ==
    IF l.LY + 1 = LCD_HEIGHT THEN EnterVblank([l EXCEPT !.LY = @ + 1])
    ELSE Checked([l EXCEPT !.LY = @ + 1, !.mode = "oam"])
NextBlankLine(l) ==
    Checked(IF l.LY = 0 THEN [l EXCEPT !.mode = "oam"] ELSE [l EXCEPT !.LY = @ + 1])
Ended(l, scx, window, skip) ==
    LET m == [l EXCEPT !.count = @ - Duration(l)]
    IN  CASE l.mode = "oam"      -> EnterTransfer(m, scx, window)
          [] l.mode = "transfer" -> EnterHblank(m, skip)
          [] l.mode = "hblank"   -> NextLine(m)
          [] l.mode = "vblank"   -> NextBlankLine(m)

(* n cycles pass: at most one mode ends, whatever n is. *)
OffAdvance(l, n) ==
    IF l.off_count + n < LCD_FRAME_CYCLES THEN [l EXCEPT !.off_count = @ + n]
    ELSE [l EXCEPT !.off_count = (@ + n) - LCD_FRAME_CYCLES, !.gb_frame = TRUE]
OnAdvance(l, n, scx, window, skip) ==
    LET m == ShortLine([l EXCEPT !.count = @ + n])
    IN  IF m.count < Duration(m) THEN m ELSE Ended(m, scx, window, skip)
LcdAdvance(l, n, scx, window, skip) ==
    LET m == [l EXCEPT !.raised = {}, !.drawn = {}]
    IN  IF l.on THEN OnAdvance(m, n, scx, window, skip) ELSE OffAdvance(m, n)

(* What the program writes. *)
WriteLcdc(l, on) ==
    IF l.on = on THEN l
    ELSE IF on THEN Checked([l EXCEPT !.on = TRUE, !.count = OnCount, !.LY = 0, !.mode = "oam",
                                      !.stat_line = FALSE])
    ELSE CheckLyc([l EXCEPT !.on = FALSE, !.off_count = 0, !.LY = 0, !.count = 0,
                            !.mode = "hblank", !.stat_line = FALSE])
WriteStat(l, sel) ==
    LET quirk == l.on /\ (l.mode # "transfer" \/ l.coinc)
    IN  UpdateStatIrq([l EXCEPT !.sel = sel, !.raised = IF quirk THEN @ \cup {"stat"} ELSE @])
\* mutant: the new value is compared at the next line
WriteLycLazy(l, ly) == [l EXCEPT !.LYC = ly]
WriteLyc(l, ly) == IF l.on THEN Checked([l EXCEPT !.LYC = ly]) ELSE [l EXCEPT !.LYC = ly]

=============================================================================
