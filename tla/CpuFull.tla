------------------------------ MODULE CpuFull ------------------------------
(* The reference interpreter: __gb_run_instruction, one case per opcode,     *)
(* here one operator per family or per row of sixteen opcodes.  Every read   *)
(* and write goes through __gb_read_full and __gb_write_full.                *)
EXTENDS CpuMachine

OpCycles ==
    <<  4, 12,  8,  8,  4,  4,  8,  4, 20,  8,  8,  8,  4,  4,  8,  4,
        4, 12,  8,  8,  4,  4,  8,  4, 12,  8,  8,  8,  4,  4,  8,  4,
        8, 12,  8,  8,  4,  4,  8,  4,  8,  8,  8,  8,  4,  4,  8,  4,
        8, 12,  8,  8, 12, 12, 12,  4,  8,  8,  8,  8,  4,  4,  8,  4,
        4,  4,  4,  4,  4,  4,  8,  4,  4,  4,  4,  4,  4,  4,  8,  4,
        4,  4,  4,  4,  4,  4,  8,  4,  4,  4,  4,  4,  4,  4,  8,  4,
        4,  4,  4,  4,  4,  4,  8,  4,  4,  4,  4,  4,  4,  4,  8,  4,
        8,  8,  8,  8,  8,  8,  4,  8,  4,  4,  4,  4,  4,  4,  8,  4,
        4,  4,  4,  4,  4,  4,  8,  4,  4,  4,  4,  4,  4,  4,  8,  4,
        4,  4,  4,  4,  4,  4,  8,  4,  4,  4,  4,  4,  4,  4,  8,  4,
        4,  4,  4,  4,  4,  4,  8,  4,  4,  4,  4,  4,  4,  4,  8,  4,
        4,  4,  4,  4,  4,  4,  8,  4,  4,  4,  4,  4,  4,  4,  8,  4,
        8, 12, 12, 16, 12, 16,  8, 16,  8, 16, 12,  8, 12, 24,  8, 16,
        8, 12, 12,  0, 12, 16,  8, 16,  8, 16, 12,  0, 12,  0,  8, 16,
       12, 12,  8,  0,  0, 16,  8, 16, 16,  4, 16,  0,  0,  0,  8, 16,
       12, 12,  8,  4,  0, 16,  8, 16, 12,  8, 16,  4,  0,  0,  8, 16 >>

(* ADD, ADC, SUB, SBC, AND, XOR, OR and CP with A, the flags as the code     *)
(* takes them from a sixteen-bit result.                                     *)
Half(a, v, t) == XorBits(XorBits(Bit(a, 4), Bit(v, 4)), Bit(Word(t), 4))
Add(m, v) ==
    LET t == m.r.a + v
    IN  Flags([m EXCEPT !.r.a = Byte(t)], Flag(Byte(t) = 0), 0, Half(m.r.a, v, t), t \div 256)
Adc(m, v) ==
    LET t == m.r.a + v + m.f.c
    IN  Flags([m EXCEPT !.r.a = Byte(t)], Flag(Byte(t) = 0), 0, Half(m.r.a, v, t), t \div 256)
Compare(m, v) ==
    LET t == m.r.a - v
    IN  Flags(m, Flag(Byte(t) = 0), 1, Half(m.r.a, v, t), Flag(t < 0))
Sub(m, v) == [Compare(m, v) EXCEPT !.r.a = Byte(m.r.a - v)]
Sbc(m, v) ==
    LET t == m.r.a - v - m.f.c
    IN  Flags([m EXCEPT !.r.a = Byte(t)], Flag(Byte(t) = 0), 1, Half(m.r.a, v, t), Flag(t < 0))
SbcA(m) ==       \* SBC A, A: the carry is kept
    LET c == m.f.c
    IN  Flags([m EXCEPT !.r.a = 255 * c], 1 - c, 1, c, c)
Bitwise3(m, v, h, Op(_, _)) ==
    LET bits == [k \in 0 .. 7 |-> Op(Bit(m.r.a, k), Bit(v, k))]
        a    == bits[0] + 2 * bits[1] + 4 * bits[2] + 8 * bits[3]
                + 16 * bits[4] + 32 * bits[5] + 64 * bits[6] + 128 * bits[7]
    IN  Flags([m EXCEPT !.r.a = a], Flag(a = 0), 0, h, 0)
AndBits(x, y) == x * y
OrBits(x, y) == x + y - x * y
And(m, v) == Bitwise3(m, v, 1, AndBits)
Xor(m, v) == Bitwise3(m, v, 0, XorBits)
Or(m, v) == Bitwise3(m, v, 0, OrBits)

IncFlags(m, v) == Flags(m, Flag(v = 0), 0, Flag(v % 16 = 0), m.f.c)
DecFlags(m, v) == Flags(m, Flag(v = 0), 1, Flag(v % 16 = 15), m.f.c)
Inc(m, x) == LET v == Byte(Get(m, x) + 1) IN Put(IncFlags(m, v), x, v)
Dec(m, x) == LET v == Byte(Get(m, x) - 1) IN Put(DecFlags(m, v), x, v)
AddHL(m, v) ==
    LET t == Pair(m, "hl") + v
    IN  Flags(SetPair(m, "hl", t), m.f.z, 0,
              XorBits(XorBits(Bit(t, 12), Bit(Pair(m, "hl"), 12)), Bit(v, 12)), t \div 65536)
JumpRelative(m, taken) ==
    IF taken THEN [Skip(m, 1 + Signed(Imm(m))) EXCEPT !.cycles = @ + 4] ELSE Skip(m, 1)

(* The columns the rows 0x00 to 0x30 have in common; rr is the row's pair,   *)
(* hi and lo its operands.                                                   *)
Column(m, op, rr, hi, lo) ==
    LET x == op % 16
    IN  CASE x = 1  -> SetPair(Skip(m, 2), rr, Imm16(m))
          [] x = 3  -> SetPair(m, rr, Pair(m, rr) + 1)
          [] x = 4  -> Inc(m, hi)
          [] x = 5  -> Dec(m, hi)
          [] x = 6  -> Put(Skip(m, 1), hi, Imm(m))
          [] x = 9  -> AddHL(m, Pair(m, rr))
          [] x = 11 -> SetPair(m, rr, Pair(m, rr) - 1)
          [] x = 12 -> Inc(m, lo)
          [] x = 13 -> Dec(m, lo)
          [] x = 14 -> Put(Skip(m, 1), lo, Imm(m))
LoadA(m, p) == [m EXCEPT !.r.a = Read(m, Pair(m, p))]
StoreA(m, p) == Write(m, Pair(m, p), m.r.a)
RotateA(m, v, c) == Flags([m EXCEPT !.r.a = Byte(v)], 0, 0, 0, c)

Row00(m, op) ==
    LET a == m.r.a
        StoreSP == Write(Write(Skip(m, 2), Imm16(m), m.sp % 256), Word(Imm16(m) + 1), m.sp \div 256)
    IN  CASE op = 0  -> m
          [] op = 2  -> StoreA(m, "bc")
          [] op = 7  -> RotateA(m, 2 * a + a \div 128, a \div 128)
          [] op = 8  -> StoreSP
          [] op = 10 -> LoadA(m, "bc")
          [] op = 15 -> RotateA(m, a \div 2 + 128 * (a % 2), a % 2)
          [] OTHER   -> Column(m, op, "bc", "b", "c")

Stop(m) ==
    IF m.glitch THEN m      \* a held button makes STOP a one-byte NOP
    ELSE IF Pending(m) # {} THEN (IF m.ime THEN Skip(m, 1) ELSE m)
    ELSE [Store(Skip(m, 1), DivAddress, 0) EXCEPT !.stop = TRUE]
Row10(m, op) ==
    LET a == m.r.a
    IN  CASE op = 16 -> Stop(m)
          [] op = 18 -> StoreA(m, "de")
          [] op = 23 -> RotateA(m, 2 * a + m.f.c, a \div 128)
          [] op = 24 -> Skip(m, 1 + Signed(Imm(m)))
          [] op = 26 -> LoadA(m, "de")
          [] op = 31 -> RotateA(m, a \div 2 + 128 * m.f.c, a % 2)
          [] OTHER   -> Column(m, op, "de", "d", "e")

Row20(m, op) ==
    CASE op = 32 -> JumpRelative(m, m.f.z = 0)
      [] op = 34 -> SetPair(StoreA(m, "hl"), "hl", Pair(m, "hl") + 1)
      [] op = 39 -> Daa(m)
      [] op = 40 -> JumpRelative(m, m.f.z = 1)
      [] op = 42 -> SetPair(LoadA(m, "hl"), "hl", Pair(m, "hl") + 1)
      [] op = 47 -> Flags([m EXCEPT !.r.a = 255 - @], m.f.z, 1, 1, m.f.c)
      [] OTHER   -> Column(m, op, "hl", "h", "l")

Row30(m, op) ==
    CASE op = 48 -> JumpRelative(m, m.f.c = 0)
      [] op = 50 -> SetPair(StoreA(m, "hl"), "hl", Pair(m, "hl") - 1)
      [] op = 55 -> Flags(m, m.f.z, 0, 0, 1)
      [] op = 56 -> JumpRelative(m, m.f.c = 1)
      [] op = 58 -> SetPair(LoadA(m, "hl"), "hl", Pair(m, "hl") - 1)
      [] op = 63 -> Flags(m, m.f.z, 0, 0, 1 - m.f.c)
      [] OTHER   -> Column(m, op, "sp", "hl", "a")

(* LD r, r': one row for each pair of destinations; 0x76 is HALT.            *)
Copy(m, first, second, op) == Put(m, IF op % 16 < 8 THEN first ELSE second, Get(m, Operand(op)))
Row40(m, op) == Copy(m, "b", "c", op)
Row50(m, op) == Copy(m, "d", "e", op)
Row60(m, op) == Copy(m, "h", "l", op)
Halt(m) == IF m.ime \/ Pending(m) = {} THEN [m EXCEPT !.halt = TRUE] ELSE m
Row70(m, op) == IF op = 118 THEN Halt(m) ELSE Copy(m, "hl", "a", op)

Row80(m, op) == IF op < 136 THEN Add(m, Get(m, Operand(op))) ELSE Adc(m, Get(m, Operand(op)))
Row90(m, op) ==
    CASE op < 151  -> Sub(m, Get(m, Operand(op)))
      [] op = 151  -> Flags([m EXCEPT !.r.a = 0], 1, 1, 0, 0)
      [] op = 159  -> SbcA(m)
      [] OTHER     -> Sbc(m, Get(m, Operand(op)))
RowA0(m, op) == IF op < 168 THEN And(m, Get(m, Operand(op))) ELSE Xor(m, Get(m, Operand(op)))
RowB0(m, op) == IF op < 184 THEN Or(m, Get(m, Operand(op))) ELSE Compare(m, Get(m, Operand(op)))

(* Control transfers; a condition that holds costs more cycles.              *)
Return(m) == [Drop(m) EXCEPT !.pc = Top(m)]
ReturnIf(m, taken) == IF taken THEN [Return(m) EXCEPT !.cycles = @ + 12] ELSE m
Jump(m) == [m EXCEPT !.pc = Imm16(m)]
JumpIf(m, taken) == IF taken THEN [Jump(m) EXCEPT !.cycles = @ + 4] ELSE Skip(m, 2)
Call(m) == [Push(Skip(m, 2), Word(m.pc + 2)) EXCEPT !.pc = Imm16(m)]
CallIf(m, taken) == IF taken THEN [Call(m) EXCEPT !.cycles = @ + 12] ELSE Skip(m, 2)
Restart(m, op) == [Push(m, m.pc) EXCEPT !.pc = op - 199]
Pop(m, p) == SetPair(Drop(m), p, Top(m))
Invalid(m) == [m EXCEPT !.bad = TRUE]

(* ADD and ADC with an immediate byte take the half carry from the nibbles.  *)
AddImm(m, carry) ==
    LET v == Imm(m)
        t == m.r.a + v + carry
    IN  Flags([Skip(m, 1) EXCEPT !.r.a = Byte(t)], Flag(Byte(t) = 0), 0,
              Flag((m.r.a % 16) + (v % 16) + carry > 15), Flag(t > 255))
RowC0(m, op) ==
    CASE op = 192 -> ReturnIf(m, m.f.z = 0)
      [] op = 193 -> Pop(m, "bc")
      [] op = 194 -> JumpIf(m, m.f.z = 0)
      [] op = 195 -> Jump(m)
      [] op = 196 -> CallIf(m, m.f.z = 0)
      [] op = 197 -> Push(m, Pair(m, "bc"))
      [] op = 198 -> AddImm(m, 0)
      [] op = 200 -> ReturnIf(m, m.f.z = 1)
      [] op = 201 -> Return(m)
      [] op = 202 -> JumpIf(m, m.f.z = 1)
      [] op = 203 -> ExecuteCb(m)
      [] op = 204 -> CallIf(m, m.f.z = 1)
      [] op = 205 -> Call(m)
      [] op = 206 -> AddImm(m, m.f.c)
      [] OTHER    -> Restart(m, op)
RowD0(m, op) ==
    CASE op = 208 -> ReturnIf(m, m.f.c = 0)
      [] op = 209 -> Pop(m, "de")
      [] op = 210 -> JumpIf(m, m.f.c = 0)
      [] op = 212 -> CallIf(m, m.f.c = 0)
      [] op = 213 -> Push(m, Pair(m, "de"))
      [] op = 214 -> Sub(Skip(m, 1), Imm(m))
      [] op = 216 -> ReturnIf(m, m.f.c = 1)
      [] op = 217 -> [Return(m) EXCEPT !.ime = TRUE, !.countdown = 0]
      [] op = 218 -> JumpIf(m, m.f.c = 1)
      [] op = 220 -> CallIf(m, m.f.c = 1)
      [] op = 222 -> Sbc(Skip(m, 1), Imm(m))
      [] op \in {215, 223} -> Restart(m, op)
      [] OTHER    -> Invalid(m)

High(v) == 65280 + v
PlusSP(m) ==     \* SP plus a signed byte, with the flags of the unsigned addition
    LET v == Imm(m)
    IN  Flags(Skip(m, 1), 0, 0, Flag((m.sp % 16) + (v % 16) > 15), Flag((m.sp % 256) + v > 255))
RowE0(m, op) ==
    CASE op = 224 -> Write(Skip(m, 1), High(Imm(m)), m.r.a)
      [] op = 225 -> Pop(m, "hl")
      [] op = 226 -> Write(m, High(m.r.c), m.r.a)
      [] op = 229 -> Push(m, Pair(m, "hl"))
      [] op = 230 -> And(Skip(m, 1), Imm(m))
      [] op = 232 -> [PlusSP(m) EXCEPT !.sp = Word(@ + Signed(Imm(m)))]
      [] op = 233 -> [m EXCEPT !.pc = Pair(m, "hl")]
      [] op = 234 -> Write(Skip(m, 2), Imm16(m), m.r.a)
      [] op = 238 -> Xor(Skip(m, 1), Imm(m))
      [] op \in {231, 239} -> Restart(m, op)
      [] OTHER    -> Invalid(m)
RowF0(m, op) ==
    CASE op = 240 -> [Skip(m, 1) EXCEPT !.r.a = Read(m, High(Imm(m)))]
      [] op = 241 -> SetFlagByte([Drop(m) EXCEPT !.r.a = Top(m) \div 256], Top(m) % 256)
      [] op = 242 -> [m EXCEPT !.r.a = Read(m, High(m.r.c))]
      [] op = 243 -> [m EXCEPT !.ime = FALSE, !.countdown = 0]
      [] op = 245 -> Push(m, 256 * m.r.a + FlagByte(m))
      [] op = 246 -> Or(Skip(m, 1), Imm(m))
      [] op = 248 -> SetPair(PlusSP(m), "hl", m.sp + Signed(Imm(m)))
      [] op = 249 -> [m EXCEPT !.sp = Pair(m, "hl")]
      [] op = 250 -> [Skip(m, 2) EXCEPT !.r.a = Read(m, Imm16(m))]
      [] op = 251 -> [m EXCEPT !.countdown = 2]
      [] op = 254 -> Compare(Skip(m, 1), Imm(m))
      [] op \in {247, 255} -> Restart(m, op)
      [] OTHER    -> Invalid(m)

(* One instruction: fetch, the table of cycles, the jump through op_table.   *)
Full(m) ==
    LET op == Imm(m)
        m1 == [Skip(m, 1) EXCEPT !.cycles = OpCycles[op + 1], !.out = <<>>]
        row == op \div 16
    IN  CASE row = 0  -> Row00(m1, op) [] row = 1  -> Row10(m1, op)
          [] row = 2  -> Row20(m1, op) [] row = 3  -> Row30(m1, op)
          [] row = 4  -> Row40(m1, op) [] row = 5  -> Row50(m1, op)
          [] row = 6  -> Row60(m1, op) [] row = 7  -> Row70(m1, op)
          [] row = 8  -> Row80(m1, op) [] row = 9  -> Row90(m1, op)
          [] row = 10 -> RowA0(m1, op) [] row = 11 -> RowB0(m1, op)
          [] row = 12 -> RowC0(m1, op) [] row = 13 -> RowD0(m1, op)
          [] row = 14 -> RowE0(m1, op) [] row = 15 -> RowF0(m1, op)
=============================================================================
