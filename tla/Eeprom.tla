------------------------------- MODULE Eeprom -------------------------------
(* The serial EEPROM of an MBC7 cartridge: four pins, and a command shifted  *)
(* in one bit per rising edge of the clock while the chip is selected.        *)
EXTENDS Integers

CONSTANTS ADDR_BITS,     \* bits of an address (7), after a start bit and two of opcode
          DATA_BITS      \* bits of a word (16)
ASSUME EepromAssumption == ADDR_BITS \in Nat /\ ADDR_BITS >= 2 /\ DATA_BITS >= ADDR_BITS + 2

Words     == 0 .. 2 ^ ADDR_BITS - 1
Blank     == 2 ^ DATA_BITS - 1
AllOfThem == 2 ^ ADDR_BITS           \* the address that stands for every word

ChipReset == [state |-> "idle", shifted |-> 0, shift |-> 0, addr |-> 0, buffer |-> 0,
              enabled |-> FALSE, cs |-> 0, clk |-> 0, DO |-> 1]

(* Each operator takes and returns the chip, the words and sram_updated. *)
Filled(x, v)    == [x EXCEPT !.words = [w \in Words |-> v], !.updated = TRUE]
Idle(x)         == [x EXCEPT !.chip.state = "idle"]
Shifting(x, st) == [x EXCEPT !.chip.state = st, !.chip.shifted = 0]

(* 9 bits in: two of opcode, the rest an address; the first two of the        *)
(* address tell the control commands apart.                                   *)
Control(x, which) ==
    CASE which = 3 -> [x EXCEPT !.chip.enabled = TRUE]
      [] which = 0 -> [x EXCEPT !.chip.enabled = FALSE]
      [] which = 2 /\ x.chip.enabled -> Filled(x, Blank)
      [] which = 1 /\ x.chip.enabled -> Shifting([x EXCEPT !.chip.addr = AllOfThem], "write")
      [] OTHER -> x
Command(x) ==
    LET opcode == (x.chip.shift \div 2 ^ ADDR_BITS) % 4
        addr   == x.chip.shift % 2 ^ ADDR_BITS
        m      == Idle([x EXCEPT !.chip.addr = addr])
    IN  CASE opcode = 0 -> Control(m, addr \div 2 ^ (ADDR_BITS - 2))
          [] opcode = 1 /\ m.chip.enabled -> Shifting(m, "write")
          [] opcode = 2 -> Shifting([m EXCEPT !.chip.buffer = x.words[addr]], "read")
          [] opcode = 3 /\ m.chip.enabled -> [m EXCEPT !.words[addr] = Blank, !.updated = TRUE]
          [] OTHER -> m

Store(x) ==
    LET a == x.chip.addr
        v == x.chip.shift
    IN  Idle(IF a = AllOfThem THEN Filled(x, v)
             ELSE [x EXCEPT !.words[a] = v, !.updated = @ \/ x.words[a] # v])

Clock(x, di) ==
    LET m == [x EXCEPT !.chip.DO = 1]
        s == [m EXCEPT !.chip.shift = (2 * @ + di) % 2 ^ DATA_BITS, !.chip.shifted = @ + 1]
        c == m.chip
    IN  CASE c.state = "idle" /\ di = 1 -> Shifting([m EXCEPT !.chip.shift = 0], "command")
          [] c.state = "command" -> IF s.chip.shifted = 2 + ADDR_BITS THEN Command(s) ELSE s
          [] c.state = "write"   -> IF s.chip.shifted >= DATA_BITS THEN Store(s) ELSE s
          [] c.state = "read"    ->
               LET out == IF c.shifted = 0 THEN [m EXCEPT !.chip.DO = 0]
                          ELSE [m EXCEPT !.chip.DO = c.buffer \div 2 ^ (DATA_BITS - 1),
                                         !.chip.buffer = (2 * @) % 2 ^ DATA_BITS]
                   n   == [out EXCEPT !.chip.shifted = @ + 1]
               IN  IF n.chip.shifted > DATA_BITS THEN Idle(n) ELSE n
          [] OTHER -> m

(* A write to the pins: selecting the chip starts over, a rising clock while  *)
(* it is selected is a tick.                                                  *)
\* mutant: selecting the chip does not end what it was in the middle of
WritePinsKeeping(x, cs, clk, di) ==
    LET m == [x EXCEPT !.chip.cs = cs, !.chip.clk = clk]
    IN  IF cs = 1 /\ clk = 1 /\ x.chip.clk = 0 THEN Clock(m, di) ELSE m
WritePins(x, cs, clk, di) ==
    LET m == [x EXCEPT !.chip.cs = cs, !.chip.clk = clk]
        n == IF x.chip.cs = 0 /\ cs = 1 THEN Shifting(m, "idle") ELSE m
    IN  IF cs = 1 /\ clk = 1 /\ x.chip.clk = 0 THEN Clock(n, di) ELSE n

=============================================================================
