------------------------------ MODULE Emulator ------------------------------
(* A running game as its embedder holds it: frames and calls of gbemu in any  *)
(* order, with snapshots of the whole state, an image of what the battery     *)
(* keeps, and a clock that is brought up to date when somebody looks.         *)
(* A frame is one thing the program does on the bus.                          *)
EXTENDS Cart, Sequences

CONSTANTS Headers,       \* the games
          Stores(_),     \* <<address, value>>: what a game writes to its registers
          Bytes(_),      \* what a game writes to RAM
          Commands,      \* what a game asks of the EEPROM, as [op, addr, data]
          Ages,          \* seconds since an image was written; a negative age: its date is wrong
          UNIT,          \* steps of time in a second
          MaxLag,        \* longest time without a look at the clock
          MaxCalls(_)    \* calls to a game; the steps of an EEPROM command are not counted
ASSUME EmulatorAssumption == UNIT \in Nat \ {0} /\ MaxLag \in Nat /\ Ages \subseteq Int
(* The RAM of an MBC2 is in the controller: it has no banks. *)
ASSUME HeadersAssumption ==
    \A h \in Headers : /\ h.ram_banks \in Nat /\ (h.mbc = 2 => h.ram_banks = 0)
                       /\ Stores(h) \subseteq Nat \X Nat /\ MaxCalls(h) \in Nat

VARIABLES status,        \* what the emulator says of itself
          cart, apu,     \* the core and the sound
          lag,           \* time since rtc_sync_us
          program,       \* the game: its command in progress, what it read, and (history)
                         \* what its commands have made of the words
          snapshot, image,
          answer,        \* what the last call returned
          calls,
          ideal, clean, replaced  \* history: a clock that ticks by itself; RAM as it was last
                                  \* on the card; a snapshot has replaced it since
vars == <<status, cart, apu, lag, program, snapshot, image, answer, calls, ideal, clean, replaced>>

Nothing == [kind |-> "none"]
Fresh(words) == [cmd |-> Nothing, bits |-> << >>, got |-> << >>, word |-> 0,
                 enabled |-> FALSE, told |-> words]
Ready   == status = "ok"
HasRam  == cart.h.mbc \in {2, 7} \/ cart.h.ram_banks > 0

Showing(clock) == [clock |-> clock, part |-> 0]       \* at the start of a second

(* gbemu_init *)
Init ==
    /\ \E h \in Headers : cart = Inserted(h)
    /\ status = "ok" /\ apu = "reset" /\ lag = 0
    /\ program = Fresh(cart.ram)
    /\ snapshot = Nothing /\ image = Nothing /\ answer = "ok" /\ calls = 0
    /\ ideal = Showing(cart.rtc) /\ clean = cart.ram /\ replaced = FALSE

(* Time passes for a game with a clock; the emulator does not look. *)
Elapse ==
    /\ cart.h.rtc /\ lag < MaxLag /\ lag' = lag + 1
    /\ ideal' = IF ideal.clock.halt THEN ideal
                ELSE IF ideal.part + 1 = UNIT THEN Showing(Tick(ideal.clock))
                ELSE [ideal EXCEPT !.part = @ + 1]
    /\ UNCHANGED <<status, cart, apu, program, snapshot, image, answer, calls, clean, replaced>>

(* sync_rtc: the cartridge and the time not yet accounted for, brought up to date. *)
\* mutant: the part of a second that is left over is thrown away with each look
SyncedWhole ==
    IF ~cart.h.rtc \/ lag < UNIT THEN [cart |-> cart, lag |-> lag]
    ELSE [cart |-> [cart EXCEPT !.rtc = CatchUp(@, lag \div UNIT)], lag |-> 0]
Synced ==
    IF ~cart.h.rtc THEN [cart |-> cart, lag |-> lag]
    ELSE IF cart.rtc.halt THEN [cart |-> cart, lag |-> 0]
    ELSE [cart |-> [cart EXCEPT !.rtc = CatchUp(@, lag \div UNIT)], lag |-> lag % UNIT]

Call(a) == calls < MaxCalls(cart.h) /\ calls' = calls + 1 /\ answer' = a
Frame == UNCHANGED calls /\ answer' = "ok"
Refuse(a) == Call(a) /\ UNCHANGED <<status, cart, apu, lag, program, snapshot, image, ideal, clean,
                                    replaced>>

-----------------------------------------------------------------------------
(* gbemu_run_frame.  A write to the clock reaches the history as well. *)
Ran(c) ==
    /\ cart' = c /\ lag' = Synced.lag
    /\ ideal' = IF cart.rtc.halt THEN Showing(c.rtc)
                ELSE IF c.rtc # Synced.cart.rtc THEN [ideal EXCEPT !.clock = c.rtc] ELSE ideal
    /\ apu' = "playing" /\ status' = "ok"
    /\ UNCHANGED <<snapshot, image, clean, replaced>>
FrameStore ==
    /\ Ready /\ (IF cart.h.mbc = 7 THEN Frame ELSE Call("ok")) /\ program.bits = << >>
    /\ \E s \in Stores(cart.h) : Ran(WriteRegister(Synced.cart, s[1], s[2]))
    /\ UNCHANGED program
FrameRam ==
    /\ Ready /\ Call("ok") /\ cart.h.mbc # 7
    /\ \E v \in Bytes(cart) : Ran(WriteRam(Synced.cart, v))
    /\ UNCHANGED program
(* The core met an instruction it does not know, or a frame with no buffer. *)
FrameFails ==
    /\ Ready /\ Call("error") /\ status' \in {"runtime_error", "invalid_argument"}
    /\ IF status' = "runtime_error" THEN cart' = Synced.cart /\ lag' = Synced.lag
       ELSE UNCHANGED <<cart, lag>>
    /\ UNCHANGED <<apu, program, snapshot, image, ideal, clean, replaced>>

(* A game that talks to the EEPROM: it selects the chip, clocks a command in  *)
(* one bit at a time, reads what comes out, and may give up at any bit.  It   *)
(* writes only after it has enabled writes: the chip takes the data of a      *)
(* write it refuses for commands.                                             *)
BitsOf(v, n) == [i \in 1 .. n |-> (v \div 2 ^ (n - i)) % 2]
TakesData(m) == m.op = 1 \/ (m.op = 0 /\ m.addr \div 2 ^ (ADDR_BITS - 2) = 1)
BitsOfCommand(m) ==
    <<1>> \o BitsOf(m.op, 2) \o BitsOf(m.addr, ADDR_BITS)
          \o (IF m.op = 2 THEN [i \in 1 .. DATA_BITS + 1 |-> 0]
              ELSE IF TakesData(m) THEN BitsOf(m.data, DATA_BITS) ELSE << >>)
Told(p) ==
    LET m   == p.cmd
        all == m.addr \div 2 ^ (ADDR_BITS - 2)
    IN  IF m.op = 0 /\ all = 3 THEN [p EXCEPT !.enabled = TRUE]
        ELSE IF m.op = 0 /\ all = 0 THEN [p EXCEPT !.enabled = FALSE]
        ELSE IF ~p.enabled \/ m.op = 2 THEN p
        ELSE [p EXCEPT !.told = IF m.op = 0 THEN [w \in Words |-> IF all = 1 THEN m.data ELSE Blank]
                                ELSE [@ EXCEPT ![m.addr] = IF m.op = 1 THEN m.data ELSE Blank]]
FrameCommand ==
    /\ Ready /\ Call("ok") /\ cart.h.mbc = 7 /\ cart.enable1 /\ cart.enable2
    /\ program.bits = << >>
    /\ \E m \in Commands :
          /\ TakesData(m) => program.enabled
          /\ program' = [program EXCEPT !.cmd = m, !.bits = BitsOfCommand(m), !.got = << >>,
                                        !.word = program.told[m.addr]]
    /\ Ran(WriteChip(Synced.cart, 1, 0, 0))
FrameBit ==
    /\ Ready /\ Frame /\ program.bits # << >>
    /\ LET b == Head(program.bits)
           c == WriteChip(WriteChip(Synced.cart, 1, 0, b), 1, 1, b)
           p == [program EXCEPT !.bits = Tail(@), !.got = Append(@, ReadChip(c))]
       IN  Ran(c) /\ program' = IF p.bits = << >> THEN Told(p) ELSE p
FrameGivesUp ==
    /\ Ready /\ Frame /\ program.cmd # Nothing /\ cart.enable1 /\ cart.enable2
    /\ Ran(WriteChip(Synced.cart, 0, 0, 0))
    /\ program' = [program EXCEPT !.cmd = Nothing, !.bits = << >>, !.got = << >>]

-----------------------------------------------------------------------------
(* gbemu_save_state and gbemu_load_state. *)
Save ==
    /\ Ready /\ Call("ok")
    /\ cart' = Synced.cart /\ lag' = Synced.lag
    /\ snapshot' = [kind |-> "wrapped", cart |-> cart', apu |-> apu, program |-> program]
    /\ UNCHANGED <<status, apu, program, image, ideal, clean, replaced>>

Faults == {"none", "header", "size", "sound", "core"}
(* Everything of the file that is looked at before the core is touched, ... *)
\* mutant: the sound is not looked at until the core has been replaced
AcceptedUnheard(b) == b.kind = "raw" \/ b.fault \notin {"header", "size"}
Accepted(b) ==
    b.kind = "raw" \/ (b.fault \notin {"header", "size"} /\ ~(b.kind = "wrapped" /\ b.fault = "sound"))
(* ... the core's own checks, ... *)
CoreTakes(b) == b.fault \notin {"core"} /\ ~(b.kind = "raw" /\ b.fault \in {"header", "size"})
(* ... and what comes after them. *)
Imports(b) == b.kind = "wrapped" => b.fault # "sound"

Loaded(b) ==
    /\ cart' = CachedRam(CachedRom(b.cart)) /\ program' = b.program
    /\ ideal' = Showing(b.cart.rtc) /\ replaced' = TRUE
    /\ IF Imports(b)
       THEN apu' = (IF b.kind = "wrapped" THEN b.apu ELSE "reset") /\ lag' = 0
       ELSE UNCHANGED <<apu, lag>>
    /\ UNCHANGED <<status, snapshot, image, clean>>
LoadState(b) ==
    IF Ready /\ Accepted(b) /\ CoreTakes(b)
    THEN Call(IF Imports(b) THEN "ok" ELSE "refused") /\ Loaded(b) ELSE Refuse("refused")
Load ==
    /\ snapshot # Nothing
    /\ \E kind \in {"wrapped", "core_only", "raw"}, fault \in Faults :
          LoadState([kind |-> kind, fault |-> fault, cart |-> snapshot.cart, apu |-> snapshot.apu,
                     program |-> snapshot.program])

(* gbemu_export_persist, the write to the card, and gbemu_mark_persist_clean *)
(* once it is there.                                                          *)
Persist ==
    /\ Ready /\ (HasRam \/ cart.h.rtc)
    /\ lag' = Synced.lag
    /\ \/ /\ Call("ok")
          /\ image' = [kind |-> "image", ram |-> cart.ram, rtc |-> Synced.cart.rtc]
          /\ cart' = [Synced.cart EXCEPT !.updated = FALSE]
          /\ clean' = cart.ram /\ replaced' = FALSE
       \/ Call("not written") /\ cart' = Synced.cart /\ UNCHANGED <<image, clean, replaced>>
    /\ UNCHANGED <<status, apu, program, snapshot, ideal>>

(* gbemu_import_persist: an image of an age, of either version.  The console *)
(* imports before the first frame: never in the middle of a command.          *)
Import ==
    /\ image # Nothing /\ program.bits = << >>
    /\ \E age \in Ages, legacy \in BOOLEAN, good \in BOOLEAN :
          LET rtc == IF legacy \/ age < 0 THEN image.rtc ELSE CatchUp(image.rtc, age)
          IN  IF Ready /\ good
              THEN /\ Call("ok")
                   /\ cart' = [cart EXCEPT !.ram = image.ram, !.updated = FALSE,
                                           !.rtc = IF cart.h.rtc THEN rtc ELSE @,
                                           !.latched = IF cart.h.rtc THEN rtc ELSE @]
                   /\ ideal' = IF ~cart.h.rtc THEN ideal
                               ELSE Showing(Ticked(image.rtc, IF legacy \/ age < 0 THEN 0 ELSE age))
                   /\ clean' = image.ram /\ replaced' = FALSE /\ lag' = 0
                   /\ program' = [program EXCEPT !.told = image.ram]
                   /\ UNCHANGED <<status, apu, snapshot, image>>
              ELSE Refuse("refused")

(* gbemu_reset, after a runtime error too. *)
ResetGame ==
    /\ status \in {"ok", "runtime_error"} /\ Call("ok")
    /\ cart' = Reset(Synced.cart) /\ lag' = 0 /\ apu' = "reset" /\ status' = "ok"
    /\ program' = Fresh(program.told)
    /\ ideal' = Showing(ideal.clock)
    /\ UNCHANGED <<snapshot, image, clean, replaced>>

Next == \/ Elapse \/ FrameStore \/ FrameRam \/ FrameFails
        \/ FrameCommand \/ FrameBit \/ FrameGivesUp
        \/ Save \/ Load \/ Persist \/ Import \/ ResetGame
Spec == Init /\ [][Next]_vars

-----------------------------------------------------------------------------
TypeOK ==
    /\ status \in {"ok", "runtime_error", "invalid_argument"} /\ lag \in 0 .. MaxLag
    /\ cart.rtc \in Clocks /\ calls \in 0 .. MaxCalls(cart.h) /\ apu \in {"reset", "playing"}

(* The pointers the fast paths go through are those the bank registers stand  *)
(* for, and a read or a write through them is the one the registers mean,     *)
(* whatever was written, saved, loaded or reset before.                       *)
FastIsFull ==
    /\ cart.rom_base = cart.rom_bank % cart.h.rom_banks /\ cart.ram_base = RamBase(cart)
    /\ ReadRam(cart) = ReadFull(cart)
    /\ \A v \in Bytes(cart) : WriteRam(cart, v) = WriteFull(cart, v)

(* The bank registers, the pointers and the RAM behind them belong together.  *)
CartIsCoherent == TypeOK /\ FastIsFull

(* However rarely the emulator looks at the clock, and whatever it does in    *)
(* between, the game sees the time a clock that ticks every second shows.     *)
RtcKeepsTime == cart.h.rtc => CatchUp(cart.rtc, lag \div UNIT) = ideal.clock

(* RAM that is not what the card holds is known to be dirty, unless a         *)
(* snapshot replaced it: for that the caller keeps a flag of its own.         *)
DirtyIsKnown == (status = "ok" /\ ~replaced /\ cart.ram # clean) => cart.updated

(* A game that sends whole commands gets what it asked for: words are what    *)
(* the commands made of them, also when others were given up half way, and a  *)
(* read gives the word's bits after a zero.                                   *)
EepromObeys ==
    (cart.h.mbc = 7 /\ program.bits = << >>) =>
        /\ cart.ram = program.told
        /\ LET m == program.cmd
               n == ADDR_BITS + 4
           IN  (m # Nothing /\ m.op = 2) =>
                   SubSeq(program.got, n, n + DATA_BITS) = <<0>> \o BitsOf(program.word, DATA_BITS)

(* A call that refuses what it was given has not begun to apply it. *)
RefusedChangesNothing ==
    [][(calls' # calls /\ answer' = "refused") => UNCHANGED <<status, cart, apu, lag>>]_vars

=============================================================================
