----------------------------- MODULE CpuMachine -----------------------------
(* The registers and the memory of the Game Boy core's processor (DMG mode), *)
(* the way both of its interpreters see them.                                *)
EXTENDS Integers, Sequences, TLC

CONSTANT Rest(_)   \* the byte at an address nothing has been written to

Byte(x) == x % 256
Word(x) == x % 65536
Bit(x, k) == (x \div 2^k) % 2
Signed(x) == IF x < 128 THEN x ELSE x - 256
Flag(condition) == IF condition THEN 1 ELSE 0
XorBits(x, y) == (x + y) % 2

IFAddress == 65295     \* 0xFF0F, the interrupts that were requested
IEAddress == 65535     \* 0xFFFF, the interrupts that are enabled
DivAddress == 65284    \* 0xFF04

(* r: the eight-bit registers; f: the flags (the low half of F is always     *)
(* zero); out: the bytes the last instruction wrote, in order; glitch: a     *)
(* button is held and its line is selected in P1; bad: the core reported an  *)
(* invalid opcode and ended the frame.                                       *)
Machine(r, f, sp, pc, mem, ime, glitch) ==
    [r |-> r, f |-> f, sp |-> sp, pc |-> pc, mem |-> mem, ime |-> ime, countdown |-> 0,
     halt |-> FALSE, stop |-> FALSE, glitch |-> glitch, out |-> <<>>, cycles |-> 0,
     bad |-> FALSE]

Read(m, addr) == IF addr \in DOMAIN m.mem THEN m.mem[addr] ELSE Rest(addr)
Store(m, addr, v) == [m EXCEPT !.mem = (addr :> v) @@ @]
Write(m, addr, v) == [Store(m, addr, v) EXCEPT !.out = Append(@, <<addr, v>>)]

(* Registers by pair and by operand; "hl" as an operand is the byte HL       *)
(* points at.                                                                *)
Halves == [bc |-> <<"b", "c">>, de |-> <<"d", "e">>, hl |-> <<"h", "l">>]
Pair(m, p) ==
    IF p = "sp" THEN m.sp ELSE 256 * m.r[Halves[p][1]] + m.r[Halves[p][2]]
SetPair(m, p, v) ==
    IF p = "sp" THEN [m EXCEPT !.sp = Word(v)]
    ELSE [m EXCEPT !.r[Halves[p][1]] = Word(v) \div 256, !.r[Halves[p][2]] = Byte(v)]
Get(m, x) == IF x = "hl" THEN Read(m, Pair(m, "hl")) ELSE m.r[x]
Put(m, x, v) == IF x = "hl" THEN Write(m, Pair(m, "hl"), v) ELSE [m EXCEPT !.r[x] = v]
Flags(m, z, n, h, c) == [m EXCEPT !.f = [z |-> z, n |-> n, h |-> h, c |-> c]]
FlagByte(m) == 128 * m.f.z + 64 * m.f.n + 32 * m.f.h + 16 * m.f.c
SetFlagByte(m, v) == Flags(m, Bit(v, 7), Bit(v, 6), Bit(v, 5), Bit(v, 4))

Skip(m, n) == [m EXCEPT !.pc = Word(@ + n)]
Imm(m) == Read(m, m.pc)
Imm16(m) == Read(m, m.pc) + 256 * Read(m, Word(m.pc + 1))

Push(m, v) ==
    LET high == Write([m EXCEPT !.sp = Word(@ - 1)], Word(m.sp - 1), v \div 256)
    IN  Write([high EXCEPT !.sp = Word(@ - 1)], Word(m.sp - 2), Byte(v))
Top(m) == Read(m, m.sp) + 256 * Read(m, Word(m.sp + 1))
Drop(m) == [m EXCEPT !.sp = Word(@ + 2)]

(* IF & IE & ANY_INTR as the set of its bits.                                *)
Pending(m) ==
    {k \in 0 .. 4 : Bit(Read(m, IFAddress), k) = 1 /\ Bit(Read(m, IEAddress), k) = 1}
(* The instructions behind the prefix 0xCB, which both interpreters run with  *)
(* the same function.  The operand is r = op % 8, the bit or the direction   *)
(* comes from the middle of the opcode.                                      *)
Operands == <<"b", "c", "d", "e", "h", "l", "hl", "a">>
Operand(op) == Operands[(op % 8) + 1]

CbCycles(op) ==
    CASE op % 8 # 6          -> 8
      [] op \div 64 = 1      -> 12
      [] OTHER               -> 16

Rotated(v, carry, op) ==
    CASE op \div 8 = 0 -> 2 * v + v \div 128                 \* RLC
      [] op \div 8 = 1 -> v \div 2 + 128 * (v % 2)           \* RRC
      [] op \div 8 = 2 -> 2 * v + carry                      \* RL
      [] op \div 8 = 3 -> v \div 2 + 128 * carry             \* RR
      [] op \div 8 = 4 -> 2 * v                              \* SLA
      [] op \div 8 = 5 -> v \div 2 + 128 * (v \div 128)      \* SRA
      [] op \div 8 = 6 -> v \div 16 + 16 * (v % 16)          \* SWAP
      [] op \div 8 = 7 -> v \div 2                           \* SRL
ShiftedOut(v, op) ==
    CASE op \div 8 \in {0, 2, 4}    -> v \div 128
      [] op \div 8 \in {1, 3, 5, 7} -> v % 2
      [] OTHER                      -> 0

ExecuteCb(m) ==
    LET op == Imm(m)
        m1 == [Skip(m, 1) EXCEPT !.cycles = CbCycles(op)]
        v  == Get(m1, Operand(op))
        b  == (op \div 8) % 8
        shifted == Byte(Rotated(v, m.f.c, op))
    IN  CASE op \div 64 = 0 ->
               Put(Flags(m1, Flag(shifted = 0), 0, 0, ShiftedOut(v, op)), Operand(op), shifted)
          [] op \div 64 = 1 -> Flags(m1, 1 - Bit(v, b), 0, 1, m.f.c)
          [] op \div 64 = 2 -> Put(m1, Operand(op), v - 2^b * Bit(v, b))
          [] op \div 64 = 3 -> Put(m1, Operand(op), v + 2^b * (1 - Bit(v, b)))

(* DAA, with the additions and subtractions in sixteen bits as they are.      *)
\* mutant: the high digit is adjusted for a carry only
DaaCarryOnly(m) ==
    LET a  == m.r.a
        lo == CASE m.f.n = 1 /\ m.f.h = 1                   -> Byte(a - 6)
                [] m.f.n = 0 /\ (m.f.h = 1 \/ (a % 16) > 9) -> a + 6
                [] OTHER                                   -> a
        hi == IF m.f.c = 0 THEN lo ELSE IF m.f.n = 1 THEN Word(lo - 96) ELSE lo + 96
        c  == IF Bit(hi, 8) = 1 THEN 1 ELSE m.f.c
    IN  Flags([m EXCEPT !.r.a = Byte(hi)], Flag(Byte(hi) = 0), m.f.n, 0, c)
Daa(m) ==
    LET a  == m.r.a
        lo == CASE m.f.n = 1 /\ m.f.h = 1                 -> Byte(a - 6)
                [] m.f.n = 0 /\ (m.f.h = 1 \/ a % 16 > 9) -> a + 6
                [] OTHER                                 -> a
        hi == CASE m.f.n = 1 /\ m.f.c = 1                 -> Word(lo - 96)
                [] m.f.n = 0 /\ (m.f.c = 1 \/ lo > 159)   -> lo + 96
                [] OTHER                                 -> lo
        c  == IF Bit(hi, 8) = 1 THEN 1 ELSE m.f.c
    IN  Flags([m EXCEPT !.r.a = Byte(hi)], Flag(Byte(hi) = 0), m.f.n, 0, c)
=============================================================================
