-------------------------------- MODULE Cart --------------------------------
(* The cartridge as the core's bus sees it: the bank registers of the five   *)
(* controllers, the pointers cached from them, and cartridge RAM through the  *)
(* cached pointer (the fast path) and through the registers (the full path).  *)
(* A RAM bank is one byte; ROM is the number of the bank.                     *)
EXTENDS Rtc, Eeprom

(* A header: [mbc, mbc1m, cart_ram, rtc, rom_banks, ram_banks]. *)
Cells(h) == IF h.mbc = 7 THEN Words
            ELSE IF h.mbc = 2 THEN {0} ELSE 0 .. h.ram_banks - 1
None == -1                     \* a NULL pointer: accesses take the full path
RtcBank == 8                   \* the first of the RAM banks that are registers of the clock
RtcRegisters == <<"sec", "min", "hour", "yday", "high">>

OrOne(bank) == IF bank = 0 THEN 1 ELSE bank
Low(v) == v % 2
Unlocks(v) == v % 16 = 10

(* __gb_update_selected_bank_addr, _zero_bank_addr, _selected_cart_bank_addr *)
RamBase(c) ==
    IF ~c.enable \/ c.h.ram_banks = 0 THEN None
    ELSE IF c.h.mbc = 7 \/ (c.h.mbc = 3 /\ c.ram_bank >= RtcBank) THEN None
    ELSE IF (c.mode \/ c.h.mbc # 1) /\ c.ram_bank < c.h.ram_banks THEN c.ram_bank ELSE 0
CachedRom(c) == [c EXCEPT !.rom_base = c.rom_bank % c.h.rom_banks]
CachedRam(c) == [c EXCEPT !.ram_base = RamBase(c)]

(* 0000-3FFF: RAM enable and the low bits of the ROM bank. *)
LowBits(c, addr, v) ==
    CASE c.h.mbc = 1 /\ c.h.mbc1m  -> ((c.rom_bank \div 16) % 4) * 16 + OrOne(v % 16)
      [] c.h.mbc = 1 /\ ~c.h.mbc1m -> ((c.rom_bank \div 32) % 4) * 32 + OrOne(v % 32)
      [] c.h.mbc = 3               -> OrOne(v)
      [] c.h.mbc = 5 /\ addr < 12288 -> (c.rom_bank \div 256) * 256 + v
      [] c.h.mbc = 5 /\ addr >= 12288 -> Low(v) * 256 + (c.rom_bank % 256)
      [] c.h.mbc = 7               -> OrOne(v % 128)
      [] OTHER                     -> c.rom_bank
WriteLow(c, addr, v) ==
    LET enabling == IF c.h.mbc = 2 THEN (addr \div 256) % 2 = 0 ELSE addr < 8192
        m == CASE enabling /\ c.h.mbc = 7 -> [c EXCEPT !.enable1 = Unlocks(v)]
               [] enabling /\ c.h.mbc # 7 -> IF c.h.cart_ram THEN [c EXCEPT !.enable = Unlocks(v)]
                                             ELSE c
               [] ~enabling /\ c.h.mbc = 2 -> [c EXCEPT !.rom_bank = OrOne(v % 16)]
               [] ~enabling /\ c.h.mbc # 2 -> [c EXCEPT !.rom_bank = LowBits(c, addr, v)]
    IN  IF c.h.mbc = 0 THEN c
        ELSE CachedRam(CachedRom([m EXCEPT !.rom_bank = @ % c.h.rom_banks]))

(* 4000-5FFF: the RAM bank, or the high bits of the ROM bank. *)
\* mutant: the RAM bank changes and the pointer to it is left where it was
WriteUpperUncached(c, v) ==
    CASE c.h.mbc = 1 -> CachedRom([c EXCEPT
                          !.ram_bank = v % 4,
                          !.rom_bank = (IF c.h.mbc1m THEN (v % 4) * 16 + (@ % 16)
                                        ELSE (v % 4) * 32 + (@ % 32)) % c.h.rom_banks,
                          !.zero = IF c.h.mbc1m THEN (v % 4) * 16 ELSE @])
      [] c.h.mbc = 3 -> [c EXCEPT !.ram_bank = v]
      [] c.h.mbc = 5 -> [c EXCEPT !.ram_bank = v % 16]
      [] c.h.mbc = 7 -> [c EXCEPT !.enable2 = (v = 64)]
      [] OTHER       -> c
WriteUpper(c, v) ==
    CachedRam(
      CASE c.h.mbc = 1 -> CachedRom([c EXCEPT
                            !.ram_bank = v % 4,
                            !.rom_bank = (IF c.h.mbc1m THEN (v % 4) * 16 + (@ % 16)
                                          ELSE (v % 4) * 32 + (@ % 32)) % c.h.rom_banks,
                            !.zero = IF c.h.mbc1m THEN (v % 4) * 16 ELSE @])
        [] c.h.mbc = 3 -> [c EXCEPT !.ram_bank = v]
        [] c.h.mbc = 5 -> [c EXCEPT !.ram_bank = v % 16]
        [] c.h.mbc = 7 -> [c EXCEPT !.enable2 = (v = 64)]
        [] OTHER       -> c)

(* 6000-7FFF: the latch of the clock, or MBC1's mode. *)
WriteMode(c, v) ==
    CASE c.h.mbc = 3 -> [c EXCEPT !.latched = IF c.latching /\ v = 1 THEN c.rtc ELSE @,
                                  !.latching = (v = 0)]
      [] c.h.mbc = 1 /\ ~c.h.mbc1m -> CachedRam([c EXCEPT !.mode = (Low(v) = 1)])
      [] OTHER -> c

WriteRegister(c, addr, v) ==
    IF addr < 16384 THEN WriteLow(c, addr, v)
    ELSE IF addr < 24576 THEN WriteUpper(c, v) ELSE WriteMode(c, v)

-----------------------------------------------------------------------------
(* A000-BFFF.  What a program reads of the clock is what it last latched.     *)
Register(r, k) ==
    IF k < 4 THEN r[RtcRegisters[k + 1]]
    ELSE r.day8 + (IF r.halt THEN 64 ELSE 0) + (IF r.overflow THEN 128 ELSE 0)
WithRegister(r, k, v) ==
    IF k < 4 THEN [r EXCEPT ![RtcRegisters[k + 1]] = v]
    ELSE [r EXCEPT !.day8 = v % 2, !.halt = (v \div 64) % 2 = 1, !.overflow = v \div 128 = 1]

Selected(c) == IF (c.mode \/ c.h.mbc # 1) /\ c.ram_bank < c.h.ram_banks THEN c.ram_bank ELSE 0
Changed(c, cell, v) == [c EXCEPT !.ram[cell] = v, !.updated = @ \/ c.ram[cell] # v]

ReadFull(c) ==
    IF ~c.enable THEN 255
    ELSE IF c.h.mbc = 2 THEN (c.ram[0] % 16) + 240
    ELSE IF c.h.mbc = 7 THEN 255                 \* MBC7: see ReadChip
    ELSE IF c.h.mbc = 3 /\ c.ram_bank >= RtcBank THEN Register(c.latched, c.ram_bank - RtcBank)
    ELSE c.ram[Selected(c)]
WriteFull(c, v) ==
    IF ~c.enable \/ c.h.mbc = 7 THEN c           \* MBC7: see WriteChip
    ELSE IF c.h.mbc = 2 THEN Changed(c, 0, v % 16)
    ELSE IF c.h.mbc = 3 /\ c.ram_bank >= RtcBank
         THEN [c EXCEPT !.rtc = WithRegister(@, c.ram_bank - RtcBank, v)]
    ELSE IF c.h.ram_banks > 0 THEN Changed(c, Selected(c), v) ELSE c

\* mutant: through the cached pointer, RAM changes and nobody is told
WriteRamSilent(c, v) ==
    IF c.ram_base # None THEN [c EXCEPT !.ram[c.ram_base] = v] ELSE WriteFull(c, v)
ReadRam(c)     == IF c.ram_base # None THEN c.ram[c.ram_base] ELSE ReadFull(c)
WriteRam(c, v) == IF c.ram_base # None THEN Changed(c, c.ram_base, v) ELSE WriteFull(c, v)

(* MBC7 puts its EEPROM there: a program reads the bit that comes out of it. *)
ReadChip(c) == IF c.enable /\ c.enable1 /\ c.enable2 THEN c.chip.DO ELSE 1
WriteChip(c, cs, clk, di) ==
    LET x == WritePins([chip |-> c.chip, words |-> c.ram, updated |-> c.updated], cs, clk, di)
    IN  IF c.enable /\ c.enable1 /\ c.enable2
        THEN [c EXCEPT !.chip = x.chip, !.ram = x.words, !.updated = x.updated] ELSE c

-----------------------------------------------------------------------------
(* gb_init and gb_reset.  A reset keeps RAM, the clock and the zero bank.     *)
Reset(c) ==
    CachedRam(CachedRom([c EXCEPT
        !.rom_bank = 1, !.ram_bank = 0, !.enable = (c.h.mbc = 7), !.mode = FALSE,
        !.latching = FALSE, !.latched = ClockReset, !.enable1 = FALSE, !.enable2 = FALSE,
        !.chip = IF c.h.mbc = 7 THEN [@ EXCEPT !.state = "idle", !.enabled = FALSE, !.cs = 0,
                                               !.clk = 0, !.DO = 1]
                 ELSE @]))
Inserted(h) ==
    Reset([h |-> h, rom_bank |-> 0, ram_bank |-> 0, enable |-> FALSE, mode |-> FALSE, zero |-> 0,
           latching |-> FALSE, latched |-> ClockReset, rtc |-> ClockReset,
           enable1 |-> FALSE, enable2 |-> FALSE, chip |-> ChipReset,
           ram |-> [b \in Cells(h) |-> 0], updated |-> FALSE, rom_base |-> 0, ram_base |-> None])

(* The cached pointers are what the registers say. *)
CachesOf(c) ==
    /\ c.rom_base = c.rom_bank % c.h.rom_banks /\ c.ram_base = RamBase(c)
    /\ (c.h.mbc1m => c.zero = c.ram_bank * 16)

=============================================================================
