-------------------------------- MODULE Rtc --------------------------------
(* The clock of a cartridge: five registers, ticking by the second or caught *)
(* up by many at once.                                                        *)
EXTENDS Integers

CONSTANTS SECONDS, MINUTES, HOURS,   \* 60, 60 and 24
          YDAYS                      \* values of the low day register (256)
ASSUME RtcAssumption == {SECONDS, MINUTES, HOURS, YDAYS} \subseteq Nat \ {0}

Clocks == [sec : 0 .. SECONDS - 1, min : 0 .. MINUTES - 1, hour : 0 .. HOURS - 1,
           yday : 0 .. YDAYS - 1, day8 : 0 .. 1, halt : BOOLEAN, overflow : BOOLEAN]
ClockReset == [sec |-> 0, min |-> 0, hour |-> 0, yday |-> 0, day8 |-> 0,
               halt |-> FALSE, overflow |-> FALSE]

CatchUp(r, seconds) ==
    LET days  == r.yday + YDAYS * r.day8
        total == r.sec + SECONDS * (r.min + MINUTES * (r.hour + HOURS * days)) + seconds
        d     == total \div (SECONDS * MINUTES * HOURS)
    IN  IF r.halt \/ seconds = 0 THEN r
        ELSE [r EXCEPT !.sec = total % SECONDS, !.min = (total \div SECONDS) % MINUTES,
                       !.hour = (total \div (SECONDS * MINUTES)) % HOURS,
                       !.yday = d % YDAYS, !.day8 = (d \div YDAYS) % 2,
                       !.overflow = @ \/ d >= 2 * YDAYS]

(* gb_tick_rtc: one second, as a chain of counters. *)
TickDay(r) ==
    IF r.yday + 1 < YDAYS THEN [r EXCEPT !.yday = @ + 1]
    ELSE [r EXCEPT !.yday = 0, !.day8 = 1 - @, !.overflow = @ \/ r.day8 = 1]
TickHour(r) ==
    IF r.hour + 1 < HOURS THEN [r EXCEPT !.hour = @ + 1] ELSE TickDay([r EXCEPT !.hour = 0])
TickMinute(r) ==
    IF r.min + 1 < MINUTES THEN [r EXCEPT !.min = @ + 1] ELSE TickHour([r EXCEPT !.min = 0])
Tick(r) ==
    IF r.halt THEN r
    ELSE IF r.sec + 1 < SECONDS THEN [r EXCEPT !.sec = @ + 1]
    ELSE TickMinute([r EXCEPT !.sec = 0])
Ticked(r, n) ==
    LET t[k \in 0 .. n] == IF k = 0 THEN r ELSE Tick(t[k - 1]) IN t[n]

=============================================================================
