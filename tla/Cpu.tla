-------------------------------- MODULE Cpu --------------------------------
(* The processor's step loop (__gb_step_cpu in its DMG build): an interrupt  *)
(* check, then a batch of three instructions of the small interpreter, each  *)
(* followed by the countdown of EI and another check.  The devices, which    *)
(* request interrupts, run between batches.                                  *)
EXTENDS CpuMicro, FiniteSets, FiniteSetsExt

CONSTANTS Programs,      \* what may be run: records with at least a length, the bound on
                         \* the instructions executed, and the requests the devices make
          Loaded(_)      \* the machine a program starts from

VARIABLES gb,            \* the machine
          left,          \* instructions left in the batch
          steps,         \* instructions of the program executed so far
          program,       \* history: what this run executes
          quiet          \* history: the same program without any interrupt
vars == <<gb, left, steps, program, quiet>>

F == INSTANCE CpuFull

origin == Loaded(program)

Init ==
    /\ program \in Programs
    /\ gb = Loaded(program) /\ quiet = gb
    /\ left = 0 /\ steps = 0

Vector(k) == 64 + 8 * k      \* VBLANK, LCDC, TIMER, SERIAL, CONTROL
Handling(m) == m.pc \in {Vector(k) : k \in 0 .. 4}
\* mutant: the end of HALT calls the handler, interrupts on or off
InterruptAlways(m) ==
    LET pushed == Push([m EXCEPT !.halt = FALSE, !.ime = FALSE, !.countdown = 0], m.pc)
        first  == Min(Pending(pushed))
    IN  [Store(pushed, IFAddress, Read(pushed, IFAddress) - 2^first) EXCEPT !.pc = Vector(first)]
Interrupt(m) ==
    LET awake  == [m EXCEPT !.halt = FALSE]
        pushed == Push([awake EXCEPT !.ime = FALSE, !.countdown = 0], m.pc)
        first  == Min(Pending(pushed))
    IN  IF ~m.ime THEN awake
        ELSE IF Pending(pushed) = {} THEN pushed
        ELSE [Store(pushed, IFAddress, Read(pushed, IFAddress) - 2^first)
                EXCEPT !.pc = Vector(first)]
Checked(m) == IF (m.ime \/ m.halt) /\ Pending(m) # {} THEN Interrupt(m) ELSE m
Counted(m) ==
    IF m.countdown = 0 THEN m
    ELSE [m EXCEPT !.countdown = @ - 1, !.ime = @ \/ m.countdown = 1]

Idle(m) == m.halt \/ m.stop
BeginBatch ==
    /\ left = 0 /\ steps < program.length
    /\ gb' = Checked(gb)
    /\ left' = IF Idle(gb') THEN 0 ELSE 3
    /\ UNCHANGED <<steps, program, quiet>>
Instruction ==
    /\ left > 0 /\ steps < program.length
    /\ gb' = Checked(Counted(Micro(gb)))
    /\ left' = IF Idle(gb') THEN 0 ELSE left - 1
    /\ IF Handling(gb) THEN UNCHANGED <<steps, quiet>>
       ELSE steps' = steps + 1 /\ quiet' = Counted(Micro(quiet))
    /\ UNCHANGED program

(* A device requests an interrupt between two batches.                       *)
Request ==
    /\ left = 0
    /\ \E k \in program.requests :
          /\ Bit(Read(gb, IFAddress), k) = 0
          /\ gb' = Store(gb, IFAddress, Read(gb, IFAddress) + 2^k)
    /\ UNCHANGED <<left, steps, program, quiet>>
(* A button that is held ends STOP when the core next measures its sleep.    *)
Wake ==
    /\ left = 0 /\ gb.stop
    /\ gb' = [gb EXCEPT !.stop = FALSE]
    /\ UNCHANGED <<left, steps, program, quiet>>

Next == BeginBatch \/ Instruction \/ Request \/ Wake
Spec == Init /\ [][Next]_vars
-----------------------------------------------------------------------------
(* The large interpreter is what the small one is validated against (the     *)
(* CPU_VALIDATE build runs both from the same machine and compares them):    *)
(* registers, memory, the order of writes, cycles, interrupt state.          *)
Legal(m) ==
    LET op == Imm(m)
    IN  op # 219 /\ ~(op = 16 /\ ~m.ime /\ ~m.glitch /\ Pending(m) # {})
EnginesAgree == (left > 0 /\ Legal(gb)) => Micro(gb) = F!Full(gb)

(* DAA after an addition or a subtraction of two numbers in decimal digits   *)
(* leaves the decimal sum or difference, and the carry into the next pair.   *)
Decimal(byte) == byte % 16 < 10 /\ byte \div 16 < 10
Number(byte) == 10 * (byte \div 16) + (byte % 16)
Digits(n) == 16 * (n \div 10) + (n % 10)
DecimalSums ==
    LET op   == Imm(origin)
        n    == Read(origin, origin.pc + 1)
        c    == IF op \in {206, 222} THEN origin.f.c ELSE 0
        sum  == Number(origin.r.a) + Number(n) + c
        diff == Number(origin.r.a) - Number(n) - c
    IN  (/\ steps = 2 /\ op \in {198, 206, 214, 222}
         /\ Read(origin, origin.pc + 2) = 39
         /\ Decimal(origin.r.a) /\ Decimal(n)) =>
        IF op < 214 THEN gb.r.a = Digits(sum % 100) /\ gb.f.c = Flag(sum > 99)
        ELSE gb.r.a = Digits(diff % 100) /\ gb.f.c = Flag(diff < 0)

(* A program whose interrupt handlers return at once cannot tell that it was *)
(* interrupted, wherever the requests fall and whatever it does with EI, DI, *)
(* HALT and the stack: between its instructions the machine is the one it    *)
(* would be without any interrupt.  (The bytes below the stack are free.)    *)
InterruptsAreInvisible ==
    ~Handling(gb) =>
        /\ <<gb.r, gb.f, gb.sp, gb.pc, gb.ime>> = <<quiet.r, quiet.f, quiet.sp, quiet.pc, quiet.ime>>
        /\ \A addr \in DOMAIN quiet.mem \ {IFAddress} :
              addr >= gb.sp => gb.mem[addr] = quiet.mem[addr]

=============================================================================
