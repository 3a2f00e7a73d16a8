------------------------------- MODULE MCCpu -------------------------------
EXTENDS Cpu

(* Memory nothing was written to: different at neighbouring addresses, with  *)
(* RETI at the interrupt vectors.                                            *)
RestOfMemory(addr) ==
    IF addr \in {64, 72, 80, 88, 96} THEN 217 ELSE (7 * addr + addr \div 256) % 256

(* A program: A and B at the start, the flags, the stack pointer, the code,  *)
(* whether interrupts are on, whether a button is held; B is also the byte   *)
(* after the code and the byte HL points at.  The VBLANK and the timer       *)
(* interrupt are enabled.                                                    *)
Start == 256
MCLoaded(p) ==
    LET code == [x \in {Start + i - 1 : i \in DOMAIN p.code} |-> p.code[x - Start + 1]]
        mem  == (Start + Len(p.code) :> p.b) @@ (49280 :> p.b)
                  @@ (IFAddress :> 0) @@ (IEAddress :> 5)
        file == [a |-> p.a, b |-> p.b, c |-> 130, d |-> 15, e |-> 255, h |-> 192, l |-> 128]
        none == [z |-> 0, n |-> 0, h |-> 0, c |-> 0]
    IN  SetFlagByte(Machine(file, none, p.sp, Start, code @@ mem, p.ime, p.held), p.f)

(* One instruction of every opcode, with operands at the boundaries.         *)
Values == {0, 15, 128, 255}
EveryOpcode ==
    [a : Values, b : Values, f : {0, 16, 160, 240}, sp : {65534}, ime : {FALSE},
     code : {<<op>> : op \in 0 .. 255}, held : {FALSE}, length : {1}, requests : {{}}]
EveryCb ==
    [a : {90}, b : {1, 90, 165, 255}, f : {0, 16}, sp : {49152}, ime : {FALSE},
     code : {<<203, op>> : op \in 0 .. 255}, held : {FALSE}, length : {1}, requests : {{}}]

(* Two decimal numbers, added or subtracted and adjusted.                    *)
Tens == {0, 1, 4, 5, 8, 9}
Decimals == {16 * x + y : x \in Tens, y \in Tens}
EveryDecimal ==
    [a : Decimals, b : {0}, f : {0, 16}, sp : {49152}, ime : {FALSE},
     code : {<<op, n, 39>> : op \in {198, 206, 214, 222}, n \in Decimals},
     held : {FALSE}, length : {2}, requests : {{}}]

(* Every short program of EI, DI, HALT, INC B, PUSH BC and POP DE.           *)
EveryProgram ==
    [a : {1}, b : {2}, f : {0}, sp : {53248}, ime : BOOLEAN,
     code : [1 .. 5 -> {251, 243, 118, 4, 197, 209}], held : {FALSE}, length : {5},
     requests : {{0, 2}}]

(* STOP after an instruction, with the button that ends it held or not.      *)
StopPrograms ==
    [a : {1}, b : {2}, f : {0}, sp : {53248}, ime : BOOLEAN, held : BOOLEAN,
     code : {<<op, 16, 0>> : op \in {0, 4, 243, 251}}, length : {3}, requests : {{}}]

MCPrograms ==
    EveryOpcode \union EveryCb \union StopPrograms \union EveryDecimal \union EveryProgram
=============================================================================
