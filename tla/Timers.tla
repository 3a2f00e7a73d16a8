------------------------------- MODULE Timers -------------------------------
(* The divider, the timer and the serial port of the core (their parts of    *)
(* __gb_step_cpu and of the register writes) as operators on records.         *)
EXTENDS Integers

CONSTANTS TIMA_SIZE,        \* values of TIMA (256)
          DIV_CYCLES,       \* cycles of a tick of DIV (256), a power of two
          DIV_SIZE,         \* values of DIV (256)
          Shifts,           \* the rates of TAC: log2 of their periods
          InputBit(_),      \* the bit of the divider that TAC watches at each rate
          SERIAL_CYCLES     \* cycles of a transfer nobody answers

ASSUME TimersAssumption ==
    /\ {TIMA_SIZE, DIV_CYCLES, DIV_SIZE, SERIAL_CYCLES} \subseteq Nat \ {0}
    /\ Shifts \subseteq Nat \ {0} /\ \E k \in Shifts : \A j \in Shifts : j <= k
    /\ \A k \in Shifts : InputBit(k) \in Nat /\ 2 ^ k \in Nat /\ 2 ^ k > 1

(* __gb_update_tac: the period, less one. *)
TacCycles(k) == 2 ^ k - 1

TimerReset(k, div) == [enable |-> FALSE, shift |-> k, TIMA |-> 0, TMA |-> 0, count |-> 0,
                       delay |-> FALSE, DIV |-> 0, div_count |-> div, raised |-> {}]

TickTima(t) ==
    [t EXCEPT !.TIMA = (@ + 1) % TIMA_SIZE, !.delay = @ \/ t.TIMA + 1 = TIMA_SIZE]
RaiseDelayed(t) ==
    IF t.delay THEN [t EXCEPT !.raised = {"timer"}, !.TIMA = t.TMA, !.delay = FALSE] ELSE t
CountTima(t, n) ==
    IF ~t.enable THEN t
    ELSE LET sum    == t.count + n
             period == TacCycles(t.shift)
             ticks  == sum \div period
         IN  [t EXCEPT !.count = sum % period, !.TIMA = (@ + ticks) % TIMA_SIZE,
                       !.delay = @ \/ t.TIMA + ticks >= TIMA_SIZE]
CountDiv(t, n) ==
    LET sum == t.div_count + n
    IN  [t EXCEPT !.DIV = (@ + (sum \div DIV_CYCLES)) % DIV_SIZE, !.div_count = sum % DIV_CYCLES]
TimerAdvance(t, n) == CountDiv(CountTima(RaiseDelayed([t EXCEPT !.raised = {}]), n), n)

(* Writes: the timer also ticks when the watched bit falls. *)
Input(t) ==
    t.enable /\ ((t.DIV * DIV_CYCLES + t.div_count) \div 2 ^ InputBit(t.shift)) % 2 = 1
WriteDiv(t) ==
    LET m == [t EXCEPT !.DIV = 0, !.div_count = 0] IN IF Input(t) THEN TickTima(m) ELSE m
WriteTima(t, v) == [t EXCEPT !.TIMA = v]
WriteTma(t, v)  == [t EXCEPT !.TMA = v]
WriteTac(t, enable, k) ==
    LET m == [t EXCEPT !.enable = enable, !.shift = k]
    IN  IF Input(t) /\ ~Input(m) THEN TickTima(m) ELSE m

(* The serial port, with nothing on the cable: a transfer that looks like one *)
(* to a printer is answered at once by a stand-in, any other ends by itself.  *)
SerialReset == [start |-> FALSE, internal |-> FALSE, SB |-> 0, count |-> 0,
                stub |-> 0, data_len |-> 0, raised |-> {}]

SerialAdvance(s, n) ==
    LET m == [s EXCEPT !.raised = {}]
    IN  IF s.count = 0 THEN m
        ELSE IF s.count > n THEN [m EXCEPT !.count = @ - n]
        ELSE IF s.start /\ s.internal
             THEN [m EXCEPT !.count = 0, !.SB = 255, !.start = FALSE, !.raised = {"serial"}]
             ELSE [m EXCEPT !.count = 0]

(* The stand-in: magic, command, compression, length, data, checksum, status. *)
Magic1 == 136
Magic2 == 51
PrinterOK == 129
IsPrinter(s) == s.stub > 0 \/ s.SB \in {Magic1, 0}
StubLength(s) ==
    CASE s.stub = 4 -> s.SB
      [] s.stub = 5 -> s.data_len + 256 * s.SB
      [] s.stub = 6 -> s.data_len - 1
      [] s.stub = 2 -> 0
      [] OTHER      -> s.data_len
StubNext(s) ==
    CASE s.stub = 0        -> IF s.SB = Magic1 THEN 1 ELSE 10
      [] s.stub = 1        -> IF s.SB = Magic2 THEN 2 ELSE 0
      [] s.stub \in {5, 6} -> IF StubLength(s) = 0 THEN 7 ELSE 6
      [] s.stub = 9        -> IF s.SB = 0 THEN 10 ELSE 0
      [] s.stub = 10       -> 0
      [] OTHER             -> s.stub + 1
StubReply(s) == IF s.stub \in {0, 9} /\ s.SB = 0 THEN PrinterOK ELSE 0

Forgotten(s) == [s EXCEPT !.stub = 0, !.data_len = 0]
Answered(s, reply) == [s EXCEPT !.SB = reply, !.start = FALSE, !.raised = {"serial"}]
WriteSb(s, v) == [s EXCEPT !.SB = v]
WriteSc(s, start, internal, boot) ==
    LET m == [s EXCEPT !.start = start, !.internal = internal]
    IN  IF ~start THEN Forgotten(m)
        ELSE IF ~internal THEN m
        ELSE IF boot THEN Forgotten([Answered(m, 255) EXCEPT !.count = 0])
        ELSE IF IsPrinter(s)
             THEN [Answered(m, StubReply(s)) EXCEPT !.stub = StubNext(s), !.data_len = StubLength(s)]
        ELSE Forgotten([m EXCEPT !.count = SERIAL_CYCLES])

=============================================================================
