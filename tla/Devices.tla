------------------------------ MODULE Devices ------------------------------
(* The devices of the core under the calls of gb_run_frame: a call runs steps *)
(* of the processor until the display controller reports a frame or a frame's *)
(* worth of cycles has passed.  A step is a batch of instructions, which may  *)
(* write registers first, or the sleep of a halted processor                  *)
(* (__gb_calc_halt_cycles); then the devices are advanced by its cycles.      *)
EXTENDS Lcd, Timers, Sequences

CONSTANTS Batches,       \* cycles of a batch of instructions
          MIN_SLEEP,     \* cycles a sleep lasts at least (16)
          COUNT_SIZE,    \* values of the unsigned counter of a sleep (2^16)
          Programs,      \* sets of the devices the program uses
          Selections,    \* sets of sources it enables
          Compared,      \* values it gives to LYC
          Bytes,         \* values it sends or gives to the timer's registers
          MaxWrites,     \* how many registers it writes
          MaxLength      \* the longest packet for the printer

VARIABLES lcd, timer, serial,
          total,         \* cycles of this call of gb_run_frame
          skip,          \* direct.frame_skip: this call draws nothing
          program,       \* the devices the program uses
          writes,        \* registers it has written
          busy,          \* instructions of the batch have been executed, none has been paid for
          lines,         \* history: the lines drawn during this call
          whole,         \* history: the call started with the blank and the LCD stayed on
          age,           \* history: cycles since the transfer was started
          compared       \* history: LY and LYC were compared since the start
vars == <<lcd, timer, serial, total, skip, program, writes, busy, lines, whole, age, compared>>

ASSUME DevicesAssumption ==
    /\ Batches \subseteq Nat \ {0} /\ Batches # {}
    /\ \A n \in Batches \cup {MIN_SLEEP} :
         n + OnCount <= PPU_MODE_2_OAM_CYCLES /\ n <= PPU_MODE_3_VRAM_MIN_CYCLES
         /\ n <= LCD_LINE_CYCLES - PPU_MODE_2_OAM_CYCLES - PPU_MODE_3_VRAM_MAX_CYCLES
    /\ {MIN_SLEEP, COUNT_SIZE} \subseteq Nat \ {0} /\ {MaxWrites, MaxLength} \subseteq Nat
    /\ Selections \subseteq SUBSET Sources /\ Compared \subseteq Nat /\ Bytes \subseteq Nat

SlowestShift == CHOOSE k \in Shifts : \A j \in Shifts : j <= k      \* that of TAC 0
Init ==
    /\ program \in Programs
    /\ lcd = LcdReset /\ serial = SerialReset
    /\ timer = TimerReset(SlowestShift, DIV_CYCLES - 1)
    /\ total = LCD_FRAME_CYCLES /\ skip = FALSE
    /\ writes = 0 /\ busy = FALSE /\ lines = <<>> /\ whole = FALSE /\ age = 0 /\ compared = FALSE

Running == ~lcd.gb_frame /\ total < LCD_FRAME_CYCLES

(* gbemu_run_frame: the next call, drawn or skipped. *)
Call ==
    /\ ~Running
    /\ total' = 0 /\ skip' \in BOOLEAN /\ lines' = <<>>
    /\ lcd' = [lcd EXCEPT !.gb_frame = FALSE]
    /\ whole' = (lcd.on /\ lcd.mode = "vblank")
    /\ UNCHANGED <<timer, serial, program, writes, busy, age, compared>>

Pass(n) ==
    /\ total' = total + n
    /\ serial' = SerialAdvance(serial, n)
    /\ timer'  = TimerAdvance(timer, n)
    /\ \E scx \in Scrolls, window \in BOOLEAN : lcd' = LcdAdvance(lcd, n, scx, window, skip)
    /\ lines' = IF lcd'.drawn = {} THEN lines ELSE Append(lines, lcd.LY)
    /\ compared' = (compared \/ lcd'.LY # lcd.LY)
    /\ busy' = FALSE
    /\ age' = IF serial'.start /\ serial'.internal THEN age + n ELSE 0
    /\ UNCHANGED <<skip, program, writes, whole>>

(* How long a halted processor sleeps. *)
\* mutant: one period too long, the tick that comes first is counted twice
UntilTimerLate ==
    IF timer.delay THEN 1
    ELSE LET period == TacCycles(timer.shift)
         IN  (TIMA_SIZE - timer.TIMA) * period + (period - (timer.count % period)) + 1
UntilTimer ==
    IF timer.delay THEN 1
    ELSE LET period == TacCycles(timer.shift)
         IN  (TIMA_SIZE - timer.TIMA - 1) * period + (period - (timer.count % period)) + 1
UntilLcd ==
    LET left == (IF lcd.on THEN Duration(lcd) - lcd.count
                 ELSE LCD_FRAME_CYCLES - lcd.off_count) % COUNT_SIZE
    IN  IF left = 0 \/ left >= COUNT_SIZE \div 2 THEN 1 ELSE left
SleepCycles ==
    LET next == IF timer.enable /\ UntilTimer < UntilLcd THEN UntilTimer ELSE UntilLcd
    IN  IF next < MIN_SLEEP THEN MIN_SLEEP ELSE next

Batch == Running /\ (\E n \in Batches : Pass(n))
Sleep == Running /\ ~busy /\ Pass(SleepCycles)

Writing(device) ==
    /\ Running /\ device \in program /\ writes < MaxWrites
    /\ writes' = writes + 1 /\ busy' = TRUE
    /\ UNCHANGED <<total, skip, program, lines>>
WriteLcd ==
    /\ Writing("lcd")
    /\ \/ \E on \in BOOLEAN : lcd' = WriteLcdc(lcd, on) /\ on # lcd.on
       \/ \E sel \in Selections : lcd' = WriteStat(lcd, sel)
       \/ \E ly \in Compared : lcd' = WriteLyc(lcd, ly)
    /\ whole' = (whole /\ lcd'.on)
    /\ compared' = (compared \/ lcd'.LY # lcd.LY \/ lcd'.LYC # lcd.LYC)
    /\ UNCHANGED <<timer, serial, age>>
WriteTimer ==
    /\ Writing("timer")
    /\ \/ timer' = WriteDiv(timer)
       \/ \E v \in Bytes : v < TIMA_SIZE /\ timer' \in {WriteTima(timer, v), WriteTma(timer, v)}
       \/ \E k \in Shifts, enable \in BOOLEAN : timer' = WriteTac(timer, enable, k)
    /\ UNCHANGED <<lcd, serial, whole, age, compared>>
(* The port is not counted in writes: it has few states. *)
WriteSerial ==
    /\ Running /\ "serial" \in program
    /\ \/ age' = age /\ \E v \in Bytes : serial' = WriteSb(serial, v)
       \/ age' = 0 /\ \E start, internal, boot \in BOOLEAN :
                        serial' = WriteSc(serial, start, internal, boot)
    /\ serial'.data_len <= MaxLength
    /\ busy' = TRUE
    /\ UNCHANGED <<lcd, timer, total, skip, program, writes, lines, whole, compared>>

Next == Call \/ Batch \/ Sleep \/ WriteLcd \/ WriteTimer \/ WriteSerial
Spec == Init /\ [][Next]_vars

-----------------------------------------------------------------------------
TypeOK ==
    /\ lcd \in LcdRecords
    /\ total \in Nat /\ skip \in BOOLEAN /\ writes \in 0 .. MaxWrites /\ busy \in BOOLEAN
    /\ lines \in Seq(Nat) /\ {whole, compared} \subseteq BOOLEAN /\ age \in Nat

(* No mode is left behind: after every step the controller is inside the      *)
(* mode it shows.  It ends at most one mode per step, so a longer step than   *)
(* a mode would put it behind the processor for good.                         *)
NoBacklog == lcd.on => lcd.count < Duration(lcd)

(* A call that starts with the blank and keeps the LCD on ends exactly at the *)
(* next blank, not by its limit on cycles, and has drawn every visible line   *)
(* once, from the first to the last, or none if it was to skip them.          *)
WholeFrames ==
    whole /\ ~Running =>
       /\ lcd.gb_frame /\ lcd.mode = "vblank" /\ lcd.LY = LCD_HEIGHT
       /\ lines = IF skip THEN <<>> ELSE [i \in 1 .. LCD_HEIGHT |-> i - 1]

(* Batches, sleeps and register writes, however they fall, leave the          *)
(* controller inside its mode and its frames whole.                           *)
FramesAreWhole == TypeOK /\ NoBacklog /\ WholeFrames

(* With the LCD on, STAT tells the truth: the coincidence bit compares the    *)
(* two registers and the interrupt line is the OR of the enabled sources,     *)
(* whichever of the program and the controller moved last.                    *)
StatIsTrue ==
    lcd.on /\ compared => lcd.coinc = (lcd.LY = lcd.LYC) /\ lcd.stat_line = Line(lcd)

(* A sleep longer than the least one oversleeps nothing: passed one cycle at  *)
(* a time, no cycle before its last makes the display or the timer request an *)
(* interrupt or end a frame, and the display ends up where the one long step  *)
(* puts it.  The last line of the blank, whose number changes to 0 before it  *)
(* is over, is the exception; the serial port is not looked at by the code.   *)
Passed(n) ==
    LET passed[k \in 0 .. n] ==
          IF k = 0 THEN [l |-> [lcd EXCEPT !.raised = {}], t |-> [timer EXCEPT !.raised = {}]]
          ELSE LET before == passed[k - 1]
               IN  IF before.l.raised \cup before.t.raised # {} THEN before
                   ELSE [l |-> LcdAdvance(before.l, 1, 0, FALSE, skip),
                         t |-> TimerAdvance(before.t, 1)]
    IN  passed[n]
SleepMissesNothing ==
    Running /\ ~busy /\ ~(lcd.mode = "vblank" /\ lcd.LY = LCD_VERT_LINES - 1) =>
       LET n == SleepCycles
           p == Passed(n - 1)
       IN  n > MIN_SLEEP =>
             /\ p.l.raised \cup p.t.raised = {} /\ ~p.l.gb_frame
             /\ LcdAdvance(p.l, 1, 0, FALSE, skip) = LcdAdvance(lcd, n, 0, FALSE, skip)

(* A transfer on the internal clock is over after its cycles, whatever was     *)
(* started and stopped on the port before it.                                 *)
TransfersEnd == serial.start /\ serial.internal => age < SERIAL_CYCLES

(* Nothing that counts cycles loses any, awake or asleep.                     *)
ClocksKeepUp == SleepMissesNothing /\ TransfersEnd

=============================================================================
