----------------------------- MODULE CpuMicro ------------------------------
(* The interpreter that runs: __gb_run_instruction_micro, which decodes an   *)
(* opcode by its fields and shares the work of whole groups.  Its fast       *)
(* paths (reading a word at once, pushing to high memory) access the same    *)
(* bytes in the same order and are not told apart here.  Opcodes it gives to *)
(* __gb_rare_instruction are Rare.                                           *)
EXTENDS CpuMachine

(* cpu_reg_raw and cpu_reg_raw16, in the order of the register file.         *)
Raw == <<"c", "b", "e", "d", "l", "h", "a", "f">>
Raw16 == <<"bc", "de", "hl", "af", "sp">>
Flip(x) == IF x % 2 = 0 THEN x + 1 ELSE x - 1        \* x ^ 1
Op8(op) == Flip((op % 64) \div 8)

(* An operand by its index; 7 is the byte at HL wherever the code tests it,  *)
(* and 6 is A (the file holds a at 6 and f at 7).                            *)
Source(m, i) == IF i = 7 THEN Read(m, Pair(m, "hl")) ELSE m.r[Raw[i + 1]]
Costs(m, machineCycles) == [m EXCEPT !.cycles = 4 * machineCycles]

OpFlag(m, op8) ==
    XorBits(IF op8 % 4 <= 1 THEN m.f.z ELSE m.f.c, op8 % 2)
Add16(m, a, b) ==
    LET t == a + b
    IN  Flags(SetPair(m, "hl", t), m.f.z, 0,
              XorBits(XorBits(Bit(t, 12), Bit(a, 12)), Bit(b, 12)), t \div 65536)

(* __gb_rare_instruction.                                                    *)
Offset(m) ==
    LET v == Imm(m)
    IN  Flags(Skip(m, 1), 0, 0, Flag((m.sp % 16) + (v % 16) > 15), Flag((m.sp % 256) + v > 255))
Rare(m, op) ==
    CASE op = 8   -> Costs(Write(Write(Skip(m, 2), Imm16(m), m.sp % 256),
                                 Word(Imm16(m) + 1), m.sp \div 256), 5)
      [] op = 39  -> Costs(Daa(m), 1)
      [] op = 118 -> Costs([m EXCEPT !.halt = (m.ime \/ Pending(m) = {}) \/ @], 1)
      [] op = 232 -> Costs([Offset(m) EXCEPT !.sp = Word(@ + Signed(Imm(m)))], 4)
      [] op = 233 -> Costs([m EXCEPT !.pc = Pair(m, "hl")], 1)
      [] op = 243 -> Costs([m EXCEPT !.ime = FALSE, !.countdown = 0], 1)
      [] op = 248 -> Costs(SetPair(Offset(m), "hl", m.sp + Signed(Imm(m))), 3)
      [] op = 249 -> Costs([m EXCEPT !.sp = Pair(m, "hl")], 2)
      [] op = 251 -> Costs([m EXCEPT !.countdown = 2], 1)
      [] OTHER    -> Costs([m EXCEPT !.bad = TRUE], 0)

(* The first quarter of the opcodes.                                         *)
MicroStop(m) ==
    Costs(IF m.glitch THEN m
          ELSE IF Pending(m) # {} THEN (IF m.ime THEN Skip(m, 1) ELSE [m EXCEPT !.pc = Word(@ - 1)])
          ELSE [Store(Skip(m, 1), DivAddress, 0) EXCEPT !.stop = TRUE], 1)
MicroJr(m, op) ==
    IF op = 24 \/ OpFlag(m, Op8(op)) = 1
    THEN Costs(Skip(m, 1 + Signed(Imm(m))), 3)
    ELSE Costs(Skip(m, 1), 2)
MicroIndirect(m, op) ==   \* A to or from (BC), (DE), (HL+), (HL-)
    LET rr == IF op \div 16 = 3 THEN "hl" ELSE Raw16[op \div 16 + 1]
        m1 == IF op % 16 = 2 THEN Write(m, Pair(m, rr), m.r.a)
              ELSE [m EXCEPT !.r.a = Read(m, Pair(m, rr))]
        step == Flag(op >= 32) - 2 * Flag(op >= 48)
    IN  Costs(SetPair(m1, "hl", Pair(m, "hl") + step), 2)
\* mutant: the half carry of a decrement is the one of an increment
MicroIncDecHalf(m, op) ==
    LET reg8  == 2 * (op \div 16) + (Op8(op) % 2)
        reg   == IF reg8 = 7 THEN "hl" ELSE Raw[reg8 + 1]
        isDec == op % 2
        v     == Byte(Get(m, reg) + 1 - 2 * isDec)
        m1    == Flags(m, Flag(v = 0), isDec, Flag(v % 16 = 0), m.f.c)
    IN  Costs(Put(m1, reg, v), IF reg8 = 7 THEN 3 ELSE 1)
MicroIncDec(m, op) ==
    LET reg8  == 2 * (op \div 16) + (Op8(op) % 2)
        reg   == IF reg8 = 7 THEN "hl" ELSE Raw[reg8 + 1]
        isDec == op % 2
        v     == Byte(Get(m, reg) + 1 - 2 * isDec)
        m1    == Flags(m, Flag(v = 0), isDec, Flag(v % 16 = 15 * isDec), m.f.c)
    IN  Costs(Put(m1, reg, v), IF reg8 = 7 THEN 3 ELSE 1)
MicroRotate(m, op) ==     \* RLCA, RRCA, RLA, RRA in a 32-bit word around A
    LET op8  == Op8(op)
        wide == IF op8 \in {2, 3} THEN 256 * m.r.a + 128 * m.f.c + 65536 * m.f.c
                ELSE LET v == 256 * m.r.a + 65536 * m.r.a IN v + m.r.a
        v    == IF op8 % 2 = 1 THEN 2 * wide ELSE wide \div 2
    IN  Costs(Flags([m EXCEPT !.r.a = Byte(v \div 256)], 0, 0, 0,
                    Bit(v, 7 + (9 * (op8 % 2)))), 1)
MicroFlagOps(m, op) ==
    CASE op < 32  -> MicroRotate(m, op)
      [] op = 39  -> Rare(m, op)
      [] op = 47  -> Costs(Flags([m EXCEPT !.r.a = 255 - @], m.f.z, 1, 1, m.f.c), 1)
      [] op = 55  -> Costs(Flags(m, m.f.z, 0, 0, 1), 1)
      [] op = 63  -> Costs(Flags(m, m.f.z, 0, 0, 1 - m.f.c), 1)

(* ld_x_x: src is the operand, srcidx where it came from.                    *)
MicroLoad(m, op, src, srcidx, machineCycles) ==
    IF Op8(op) # 7 THEN Costs([m EXCEPT !.r[Raw[Op8(op) + 1]] = src], machineCycles)
    ELSE IF srcidx = 7 THEN Rare(m, op)
    ELSE Costs(Write(m, Pair(m, "hl"), src), machineCycles + 1)

MicroFirst(m, op) ==
    LET rr == IF op \div 16 = 3 THEN "sp" ELSE Raw16[op \div 16 + 1]
        x  == op % 16
    IN  CASE op = 0                -> Costs(m, 1)
          [] op = 16               -> MicroStop(m)
          [] op = 8                -> Rare(m, op)
          [] x \in {0, 8} /\ op >= 24 -> MicroJr(m, op)
          [] x = 1                 -> Costs(SetPair(Skip(m, 2), rr, Imm16(m)), 3)
          [] x \in {2, 10}         -> MicroIndirect(m, op)
          [] x \in {3, 11}         ->
               Costs(SetPair(m, rr, Pair(m, rr) + (IF Op8(op) % 2 = 1 THEN 1 ELSE -1)), 2)
          [] x \in {4, 5, 12, 13}  -> MicroIncDec(m, op)
          [] x \in {6, 14}         -> MicroLoad(Skip(m, 1), op, Imm(m), 0, 2)
          [] x \in {7, 15}         -> MicroFlagOps(m, op)
          [] x = 9                 -> Costs(Add16(m, Pair(m, "hl"), Pair(m, rr)), 2)

(* arithmetic: one adder for ADD, ADC, SUB, SBC and CP, subtraction by       *)
(* negating the operand in 32 bits and adding it in sixteen.                 *)
LogicOf(m, src, op8) ==
    LET a == m.r.a
        bits == [k \in 0 .. 7 |->
                   CASE op8 = 4 -> XorBits(Bit(a, k), Bit(src, k))
                     [] op8 = 5 -> Bit(a, k) * Bit(src, k)
                     [] op8 = 7 -> Flag(Bit(a, k) + Bit(src, k) > 0)]
    IN  bits[0] + 2 * bits[1] + 4 * bits[2] + 8 * bits[3]
         + 16 * bits[4] + 32 * bits[5] + 64 * bits[6] + 128 * bits[7]
Arithmetic(m, op, src, machineCycles) ==
    LET op8 == Op8(op)
        a   == m.r.a
        v   == src + (IF op8 % 2 = 0 /\ op8 # 6 THEN m.f.c ELSE 0)
        subtracts == op8 \in {2, 3, 6}
        t   == Word(a + (IF subtracts THEN -v ELSE v))
        sum == Flags(m, Flag(Byte(t) = 0), Flag(subtracts),
                     XorBits(XorBits(Bit(a, 4), Bit(src, 4)), Bit(t, 4)), Bit(t, 8))
        logic == LogicOf(m, src, op8)
    IN  Costs(CASE op8 \in {0, 1, 2, 3} -> [sum EXCEPT !.r.a = Byte(t)]
                [] op8 = 6              -> sum
                [] OTHER -> Flags([m EXCEPT !.r.a = logic], Flag(logic = 0), 0, Flag(op8 = 5), 0),
              machineCycles)

MicroMiddle(m, op) ==
    LET srcidx == Flip(op % 8)
        cost   == IF srcidx = 7 THEN 2 ELSE 1
    IN  IF op < 128 THEN MicroLoad(m, op, Source(m, srcidx), srcidx, cost)
        ELSE Arithmetic(m, op, Source(m, srcidx), cost)

(* The last quarter, by the key (opcode & 15) | ((opcode & 32) >> 1).        *)
MicroPop(m, i) ==
    IF i = 3 THEN SetFlagByte([Drop(m) EXCEPT !.r.a = Top(m) \div 256], Top(m) % 256)
    ELSE SetPair(Drop(m), Raw16[i + 1], Top(m))
MicroPush(m, i) ==
    Push(m, IF i = 3 THEN 256 * m.r.a + FlagByte(m) ELSE Pair(m, Raw16[i + 1]))
MicroReturn(m, machineCycles) == Costs([Drop(m) EXCEPT !.pc = Top(m)], machineCycles + 3)
MicroCall(m) == Costs([Push(Skip(m, 2), Word(m.pc + 2)) EXCEPT !.pc = Imm16(m)], 6)
MicroHigh(m, op, low) ==
    IF Bit(op, 4) = 1 THEN [m EXCEPT !.r.a = Read(m, 65280 + low)]
    ELSE Write(m, 65280 + low, m.r.a)

MicroLast(m, op) ==
    LET op8  == Op8(op)
        key  == (op % 16) + 16 * Bit(op, 5)
        flag == op % 8 = 3 \/ OpFlag(m, op8) = 1
    IN  CASE key \in {0, 8}  -> IF flag THEN MicroReturn(m, 2) ELSE Costs(m, 2)
          [] key \in {1, 17} -> Costs(MicroPop(m, op8 \div 2), 3)
          [] key \in {2, 10} ->
               IF flag THEN Costs([m EXCEPT !.pc = Imm16(m)], 4) ELSE Costs(Skip(m, 2), 3)
          [] key = 3         ->
               IF op = 211 THEN Rare(m, op) ELSE Costs([m EXCEPT !.pc = Imm16(m)], 4)
          [] key \in {4, 12} -> IF flag THEN MicroCall(m) ELSE Costs(Skip(m, 2), 3)
          [] key \in {5, 21} -> Costs(MicroPush(m, op8 \div 2), 4)
          [] key \in {6, 14, 22, 30} -> Arithmetic(Skip(m, 1), op, Imm(m), 2)
          [] key \in {7, 15, 23, 31} ->
               Costs([Push(m, m.pc) EXCEPT !.pc = 8 * Flip(op8)], 4)
          [] key = 9         ->
               MicroReturn(IF op = 217 THEN [m EXCEPT !.ime = TRUE, !.countdown = 0] ELSE m, 1)
          [] key = 11        -> ExecuteCb(m)
          [] key = 13        -> IF op8 \in {2, 3, 6, 7} THEN Rare(m, op) ELSE MicroCall(m)
          [] key = 16        -> Costs(MicroHigh(Skip(m, 1), op, Imm(m)), 3)
          [] key = 18        -> Costs(MicroHigh(m, op, m.r.c), 2)
          [] key = 26        ->
               IF op8 \in {2, 3, 6, 7} THEN Costs([Skip(m, 2) EXCEPT !.r.a = Read(m, Imm16(m))], 4)
               ELSE Costs(Write(Skip(m, 2), Imm16(m), m.r.a), 4)
          [] OTHER           -> Rare(m, op)

Micro(m) ==
    LET op == Imm(m)
        m1 == [Skip(m, 1) EXCEPT !.out = <<>>]
    IN  CASE op < 64   -> MicroFirst(m1, op)
          [] op \in 64 .. 191 -> MicroMiddle(m1, op)
          [] op >= 192 -> MicroLast(m1, op)
=============================================================================
