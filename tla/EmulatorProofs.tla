---------------------------- MODULE EmulatorProofs ----------------------------
(***************************************************************************)
(* Proofs about Emulator, for every header, every time scale and every     *)
(* width of the EEPROM.  What the bus, the clock or a reset makes of a     *)
(* cartridge is again one whose pointers follow its registers, and RAM     *)
(* that differs from what it was is marked.                                *)
(***************************************************************************)
EXTENDS Emulator, WellFoundedInduction, TLAPS

----------------------------------------------------------------------------
(* Cartridges.                                                              *)

Parts == {"h", "rom_bank", "ram_bank", "enable", "mode", "zero", "latching", "latched", "rtc",
          "enable1", "enable2", "chip", "ram", "updated", "rom_base", "ram_base"}
IsTable(f) == f = [a \in DOMAIN f |-> f[a]]

Sound(c) ==
  /\ DOMAIN c = Parts
  /\ c.h \in Headers
  /\ IsTable(c.ram) /\ c.updated \in BOOLEAN /\ c.ram_bank \in Nat
(* The pointers are those of the registers.                                 *)
RomPointed(c) == c.rom_base = c.rom_bank % c.h.rom_banks
Legal(c) == Sound(c) /\ RomPointed(c) /\ c.ram_base = RamBase(c)

(* What the registers do not concern is left alone.                         *)
Alike(c, d) == d.h = c.h /\ d.ram = c.ram /\ d.updated = c.updated /\ d.rtc = c.rtc

(* The game's RAM is as it was, or known to be dirty; dirt stays.           *)
Marked(old, oldUpdated, new, newUpdated) ==
  /\ newUpdated \in BOOLEAN
  /\ new = old \/ newUpdated
  /\ oldUpdated => newUpdated
Becomes(c, d) == Legal(d) /\ d.h = c.h /\ Marked(c.ram, c.updated, d.ram, d.updated)

LEMMA AlikeBecomes ==
  ASSUME NEW c, Legal(c), NEW d, Legal(d), Alike(c, d)
  PROVE  Becomes(c, d) /\ d.rtc = c.rtc
  BY DEF Becomes, Alike, Marked, Legal, Sound

(* Writing into a table gives a table, and changes it only if the value     *)
(* there was another one.                                                   *)
LEMMA TableWritten ==
  ASSUME NEW f, IsTable(f), NEW a, NEW v
  PROVE  /\ IsTable([f EXCEPT ![a] = v])
         /\ f[a] = v => [f EXCEPT ![a] = v] = f
  BY DEF IsTable

LEMMA RomCached ==
  ASSUME NEW c, Sound(c)
  PROVE  /\ Sound(CachedRom(c)) /\ RomPointed(CachedRom(c)) /\ Alike(c, CachedRom(c))
  BY DEF Sound, Parts, RomPointed, Alike, CachedRom

LEMMA RamCached ==
  ASSUME NEW c, Sound(c), RomPointed(c)
  PROVE  /\ Legal(CachedRam(c)) /\ Alike(c, CachedRam(c))
  BY DEF Legal, Sound, Parts, RomPointed, Alike, CachedRam, RamBase

(* A copy that differs in its registers alone.                              *)
LEMMA BothCached ==
  ASSUME NEW c, NEW m, Sound(m), Alike(c, m)
  PROVE  /\ Legal(CachedRam(CachedRom(m))) /\ Alike(c, CachedRam(CachedRom(m)))
<1> DEFINE n == CachedRom(m)
<1>1. Sound(n) /\ RomPointed(n) /\ Alike(m, n)
  BY RomCached
<1> HIDE DEF n
<1>2. Legal(CachedRam(n)) /\ Alike(n, CachedRam(n))
  BY <1>1, RamCached
<1>3. Alike(c, CachedRam(n))
  BY <1>1, <1>2 DEF Alike
<1> QED
  BY <1>2, <1>3 DEF n

LEMMA ClockSet ==
  ASSUME NEW c, Legal(c), NEW r
  PROVE  /\ Becomes(c, [c EXCEPT !.rtc = r])
         /\ [c EXCEPT !.rtc = r].rtc = r
  BY DEF Legal, Sound, RomPointed, RamBase, Parts, Becomes, Marked

(* 0000-3FFF. *)
LEMMA LowKeeps ==
  ASSUME NEW c, Legal(c), NEW addr, NEW v
  PROVE  Legal(WriteLow(c, addr, v)) /\ Alike(c, WriteLow(c, addr, v))
<1> DEFINE enabling == IF c.h.mbc = 2 THEN (addr \div 256) % 2 = 0 ELSE addr < 8192
           m == CASE enabling /\ c.h.mbc = 7 -> [c EXCEPT !.enable1 = Unlocks(v)]
                  [] enabling /\ c.h.mbc # 7 -> IF c.h.cart_ram THEN [c EXCEPT !.enable = Unlocks(v)]
                                                ELSE c
                  [] ~enabling /\ c.h.mbc = 2 -> [c EXCEPT !.rom_bank = OrOne(v % 16)]
                  [] ~enabling /\ c.h.mbc # 2 -> [c EXCEPT !.rom_bank = LowBits(c, addr, v)]
           n == [m EXCEPT !.rom_bank = @ % c.h.rom_banks]
<1>1. Sound(c) /\ Alike(c, c)
  BY DEF Legal, Alike
<1>2. CASE c.h.mbc = 0
  <2>1. WriteLow(c, addr, v) = c
    BY <1>2 DEF WriteLow
  <2> QED
    BY <1>1, <2>1
<1>3. CASE c.h.mbc # 0
  <2>1. WriteLow(c, addr, v) = CachedRam(CachedRom(n))
    <3>1. WriteLow(c, addr, v) = IF c.h.mbc = 0 THEN c ELSE CachedRam(CachedRom(n))
      BY DEF WriteLow
    <3> HIDE DEF n
    <3> QED
      BY <1>3, <3>1
  <2>2. \/ m = [c EXCEPT !.enable1 = Unlocks(v)]
        \/ m = [c EXCEPT !.enable = Unlocks(v)]
        \/ m = c
        \/ m = [c EXCEPT !.rom_bank = OrOne(v % 16)]
        \/ m = [c EXCEPT !.rom_bank = LowBits(c, addr, v)]
    <3> HIDE DEF enabling
    <3> QED
      BY Zenon
  <2> HIDE DEF m
  <2>3. Sound(m) /\ Alike(c, m)
    BY <1>1, <2>2 DEF Sound, Parts, Alike
  <2>4. Sound(n) /\ Alike(c, n)
    BY <2>3 DEF Sound, Parts, Alike
  <2> HIDE DEF n
  <2> QED
    BY <2>1, <2>4, BothCached
<1> QED
  BY <1>2, <1>3

(* 4000-5FFF. *)
LEMMA UpperKeeps ==
  ASSUME NEW c, Legal(c), NEW v \in Nat
  PROVE  Legal(WriteUpper(c, v)) /\ Alike(c, WriteUpper(c, v))
<1> DEFINE b == [c EXCEPT !.ram_bank = v % 4,
                          !.rom_bank = (IF c.h.mbc1m THEN (v % 4) * 16 + (@ % 16)
                                        ELSE (v % 4) * 32 + (@ % 32)) % c.h.rom_banks,
                          !.zero = IF c.h.mbc1m THEN (v % 4) * 16 ELSE @]
           m == CASE c.h.mbc = 1 -> CachedRom(b)
                  [] c.h.mbc = 3 -> [c EXCEPT !.ram_bank = v]
                  [] c.h.mbc = 5 -> [c EXCEPT !.ram_bank = v % 16]
                  [] c.h.mbc = 7 -> [c EXCEPT !.enable2 = (v = 64)]
                  [] OTHER       -> c
<1>1. Sound(c) /\ RomPointed(c) /\ Alike(c, c)
  BY DEF Legal, Alike
<1>2. WriteUpper(c, v) = CachedRam(m)
  BY Zenon DEF WriteUpper
<1>3. m \in {CachedRom(b), [c EXCEPT !.ram_bank = v], [c EXCEPT !.ram_bank = v % 16],
            [c EXCEPT !.enable2 = (v = 64)], c}
  BY Zenon
<1> HIDE DEF m
<1>4. v % 4 \in Nat /\ v % 16 \in Nat
  OBVIOUS
<1>5. Sound(b) /\ Alike(c, b)
  BY <1>1, <1>4 DEF Sound, Parts, Alike
<1> HIDE DEF b
<1>6. Sound(CachedRom(b)) /\ RomPointed(CachedRom(b)) /\ Alike(b, CachedRom(b))
  BY <1>5, RomCached
<1>7. Sound(m) /\ RomPointed(m) /\ Alike(c, m)
  <2>1. CASE m = CachedRom(b)
    BY <1>5, <1>6, <2>1 DEF Alike
  <2>2. CASE m = [c EXCEPT !.ram_bank = v]
    BY <1>1, <2>2 DEF Sound, Parts, Alike, RomPointed
  <2>3. CASE m = [c EXCEPT !.ram_bank = v % 16]
    BY <1>1, <1>4, <2>3 DEF Sound, Parts, Alike, RomPointed
  <2>4. CASE m = [c EXCEPT !.enable2 = (v = 64)]
    BY <1>1, <2>4 DEF Sound, Parts, Alike, RomPointed
  <2> QED
    BY <1>1, <1>3, <2>1, <2>2, <2>3, <2>4
<1>8. Legal(CachedRam(m)) /\ Alike(m, CachedRam(m))
  BY <1>7, RamCached
<1> QED
  BY <1>2, <1>7, <1>8 DEF Alike

(* 6000-7FFF. *)
LEMMA ModeKeeps ==
  ASSUME NEW c, Legal(c), NEW v
  PROVE  Legal(WriteMode(c, v)) /\ Alike(c, WriteMode(c, v))
<1> DEFINE l == [c EXCEPT !.latched = IF c.latching /\ v = 1 THEN c.rtc ELSE @,
                          !.latching = (v = 0)]
           b == [c EXCEPT !.mode = (Low(v) = 1)]
<1>1. WriteMode(c, v) \in {l, CachedRam(b), c}
  BY Zenon DEF WriteMode
<1>2. Legal(l) /\ Alike(c, l)
  BY DEF Legal, Sound, Parts, RomPointed, RamBase, Alike
<1>3. Sound(b) /\ RomPointed(b) /\ Alike(c, b)
  BY DEF Legal, Sound, Parts, RomPointed, Alike
<1> HIDE DEF b, l
<1>4. Legal(CachedRam(b)) /\ Alike(c, CachedRam(b))
  BY <1>3, RamCached DEF Alike
<1>5. Alike(c, c)
  BY DEF Alike
<1> QED
  BY <1>1, <1>2, <1>4, <1>5

LEMMA RegisterKeeps ==
  ASSUME NEW c, Legal(c), NEW addr, NEW v \in Nat
  PROVE  Legal(WriteRegister(c, addr, v)) /\ Alike(c, WriteRegister(c, addr, v))
  BY LowKeeps, UpperKeeps, ModeKeeps DEF WriteRegister

LEMMA ResetKeeps ==
  ASSUME NEW c, Sound(c)
  PROVE  Legal(Reset(c)) /\ Alike(c, Reset(c))
<1> DEFINE m == [c EXCEPT
        !.rom_bank = 1, !.ram_bank = 0, !.enable = (c.h.mbc = 7), !.mode = FALSE,
        !.latching = FALSE, !.latched = ClockReset, !.enable1 = FALSE, !.enable2 = FALSE,
        !.chip = IF c.h.mbc = 7 THEN [@ EXCEPT !.state = "idle", !.enabled = FALSE, !.cs = 0,
                                               !.clk = 0, !.DO = 1]
                 ELSE @]
<1>1. Reset(c) = CachedRam(CachedRom(m))
  BY Zenon DEF Reset
<1>2. Sound(m) /\ Alike(c, m)
  BY DEF Sound, Parts, Alike
<1> HIDE DEF m
<1> QED
  BY <1>1, <1>2, BothCached

----------------------------------------------------------------------------
(* RAM.                                                                     *)

(* A cell is written through the pointer or through the registers.          *)
LEMMA ChangedMarks ==
  ASSUME NEW c, Legal(c), NEW cell, NEW v
  PROVE  Becomes(c, Changed(c, cell, v)) /\ Changed(c, cell, v).rtc = c.rtc
<1> DEFINE ram == [c.ram EXCEPT ![cell] = v]
<1>1. IsTable(ram) /\ (c.ram[cell] = v => ram = c.ram)
  BY TableWritten DEF Legal, Sound
<1>2. c.updated \in BOOLEAN
  BY DEF Legal, Sound
<1> HIDE DEF ram
<1> DEFINE d == [c EXCEPT !.ram = ram, !.updated = @ \/ c.ram[cell] # v]
<1>3. Changed(c, cell, v) = d
  BY DEF Changed, Legal, Sound, Parts, ram
<1>4. DOMAIN d = Parts /\ d.ram = ram /\ d.updated = (c.updated \/ c.ram[cell] # v)
  BY DEF Legal, Sound, Parts
<1>5. /\ d.h = c.h /\ d.ram_bank = c.ram_bank /\ d.rtc = c.rtc
      /\ d.rom_base = c.rom_base /\ d.rom_bank = c.rom_bank /\ d.ram_base = c.ram_base
      /\ d.enable = c.enable /\ d.mode = c.mode
  BY DEF Legal, Sound, Parts
<1> HIDE DEF d
<1>6. Legal(d)
  BY <1>1, <1>2, <1>4, <1>5 DEF Legal, Sound, RomPointed, RamBase
<1>7. Marked(c.ram, c.updated, d.ram, d.updated)
  BY <1>1, <1>2, <1>4, Zenon DEF Marked
<1> QED
  BY <1>3, <1>5, <1>6, <1>7 DEF Becomes

(* Whatever is written where the RAM is: a cell changes, a register of the  *)
(* clock, or nothing.                                                       *)
LEMMA RamWritten ==
  ASSUME NEW c, Legal(c), NEW v
  PROVE  /\ Becomes(c, WriteRam(c, v))
         /\ \/ WriteRam(c, v).rtc = c.rtc
            \/ /\ c.h.mbc = 3 /\ c.ram_bank >= RtcBank
               /\ WriteRam(c, v).rtc = WithRegister(c.rtc, c.ram_bank - RtcBank, v)
<1> DEFINE r == WithRegister(c.rtc, c.ram_bank - RtcBank, v)
           Result(d) == /\ Becomes(c, d)
                        /\ \/ d.rtc = c.rtc
                           \/ /\ c.h.mbc = 3 /\ c.ram_bank >= RtcBank
                              /\ d.rtc = r
<1>1. \A cell, w : Result(Changed(c, cell, w))
  BY ChangedMarks
<1>2. Result(c)
  BY AlikeBecomes DEF Alike
<1>3. c.h.mbc = 3 /\ c.ram_bank >= RtcBank => Result([c EXCEPT !.rtc = r])
  BY ClockSet
<1>4. Result(WriteFull(c, v))
  <2>1. [c EXCEPT !.rtc = WithRegister(@, c.ram_bank - RtcBank, v)] = [c EXCEPT !.rtc = r]
    BY DEF Legal, Sound, Parts
  <2> HIDE DEF Result, r
  <2> QED
    BY <1>1, <1>2, <1>3, <2>1 DEF WriteFull
<1> HIDE DEF Result
<1>5. Result(WriteRam(c, v))
  BY <1>1, <1>4 DEF WriteRam
<1> QED
  BY <1>5 DEF Result

(* The pointer leads where the registers say: reading and writing through   *)
(* it is reading and writing through them.                                  *)
LEMMA FastAgrees ==
  ASSUME NEW c, Legal(c)
  PROVE  ReadRam(c) = ReadFull(c) /\ \A v : WriteRam(c, v) = WriteFull(c, v)
<1>1. CASE c.ram_base = None
  BY <1>1 DEF ReadRam, WriteRam
<1>2. CASE c.ram_base # None
  <2>1. /\ c.enable /\ c.h.ram_banks # 0 /\ c.h.mbc # 7
        /\ ~(c.h.mbc = 3 /\ c.ram_bank >= RtcBank)
        /\ c.ram_base = Selected(c)
    BY <1>2 DEF Legal, RamBase, Selected
  <2>2. c.h.mbc # 2
    BY <2>1, HeadersAssumption DEF Legal, Sound
  <2>3. c.h.ram_banks > 0
    BY <2>1, HeadersAssumption DEF Legal, Sound
  <2> QED
    BY <1>2, <2>1, <2>2, <2>3 DEF ReadRam, ReadFull, WriteRam, WriteFull
<1> QED
  BY <1>1, <1>2

----------------------------------------------------------------------------
(* The EEPROM.                                                              *)

Memory(x) == DOMAIN x = {"chip", "words", "updated"} /\ IsTable(x.words) /\ x.updated \in BOOLEAN
Marks(x, y) == Memory(y) /\ Marked(x.words, x.updated, y.words, y.updated)

LEMMA MarksAgain ==
  ASSUME NEW x, NEW y, NEW z, Memory(x), Marks(x, y), Marks(y, z)
  PROVE  Marks(x, z)
  BY DEF Memory, Marks, Marked

(* What happens in the chip happens there.                                  *)
LEMMA ChipAlone ==
  ASSUME NEW x, Memory(x), NEW k
  PROVE  Marks(x, [x EXCEPT !.chip = k]) /\ [x EXCEPT !.chip = k].words = x.words
  BY DEF Memory, Marks, Marked

LEMMA IdleMarks ==
  ASSUME NEW x, Memory(x), NEW st
  PROVE  Marks(x, x) /\ Marks(x, Idle(x)) /\ Marks(x, Shifting(x, st))
<1>1. Marks(x, x)
  BY DEF Memory, Marks, Marked
<1>2. Marks(x, Idle(x))
  BY ChipAlone DEF Idle
<1>3. Marks(x, Shifting(x, st))
  BY DEF Shifting, Memory, Marks, Marked
<1> QED
  BY <1>1, <1>2, <1>3

LEMMA FilledMarks ==
  ASSUME NEW x, Memory(x), NEW v
  PROVE  Marks(x, Filled(x, v))
<1>1. IsTable([w \in Words |-> v])
  BY DEF IsTable
<1> QED
  BY <1>1 DEF Filled, Memory, Marks, Marked

LEMMA WordMarks ==
  ASSUME NEW x, Memory(x), NEW a, NEW v, NEW u \in BOOLEAN,
         u \/ (x.words[a] = v /\ ~x.updated), x.updated => u
  PROVE  Marks(x, [x EXCEPT !.words[a] = v, !.updated = u])
<1> DEFINE words == [x.words EXCEPT ![a] = v]
<1>1. IsTable(words) /\ (x.words[a] = v => words = x.words)
  BY TableWritten DEF Memory
<1>2. [x EXCEPT !.words[a] = v, !.updated = u] = [x EXCEPT !.words = words, !.updated = u]
  BY DEF Memory
<1> HIDE DEF words
<1> QED
  BY <1>1, <1>2 DEF Memory, Marks, Marked

LEMMA ControlMarks ==
  ASSUME NEW x, Memory(x), NEW which
  PROVE  Marks(x, Control(x, which))
<1> DEFINE S == {y \in {[x EXCEPT !.chip.enabled = TRUE], [x EXCEPT !.chip.enabled = FALSE],
                        Filled(x, Blank), Shifting([x EXCEPT !.chip.addr = AllOfThem], "write"), x} :
                   Marks(x, y)}
<1>1. /\ [x EXCEPT !.chip.enabled = TRUE] \in S
      /\ [x EXCEPT !.chip.enabled = FALSE] \in S
  BY ChipAlone
<1>2. Filled(x, Blank) \in S /\ x \in S
  BY FilledMarks, IdleMarks
<1>3. Shifting([x EXCEPT !.chip.addr = AllOfThem], "write") \in S
  <2> DEFINE y == [x EXCEPT !.chip.addr = AllOfThem]
  <2>1. Marks(x, y)
    BY ChipAlone
  <2> HIDE DEF y
  <2>2. Marks(y, Shifting(y, "write"))
    BY <2>1, IdleMarks DEF Marks
  <2>3. Marks(x, Shifting(y, "write"))
    BY <2>1, <2>2, MarksAgain
  <2> QED
    BY <2>3 DEF y
<1> HIDE DEF S
<1>4. Control(x, which) \in S
  BY <1>1, <1>2, <1>3, Zenon DEF Control
<1> QED
  BY <1>4 DEF S

LEMMA CommandMarks ==
  ASSUME NEW x, Memory(x)
  PROVE  Marks(x, Command(x))
<1> DEFINE addr == x.chip.shift % 2 ^ ADDR_BITS
           m == Idle([x EXCEPT !.chip.addr = addr])
           read == Shifting([m EXCEPT !.chip.buffer = x.words[addr]], "read")
           erased == [m EXCEPT !.words[addr] = Blank, !.updated = TRUE]
           control == Control(m, addr \div 2 ^ (ADDR_BITS - 2))
           S == {y \in {control, Shifting(m, "write"), read, erased, m} : Marks(x, y)}
<1> DEFINE y == [x EXCEPT !.chip.addr = addr]
<1>1. Marks(x, y)
  BY ChipAlone
<1> HIDE DEF y
<1>2. Marks(x, Idle(y))
  BY <1>1, IdleMarks, MarksAgain DEF Marks
<1>3. Marks(x, m) /\ Memory(m)
  BY <1>2 DEF y, Marks
<1> HIDE DEF m
<1>4. Marks(m, control)
  BY <1>3, ControlMarks
<1>5. Marks(m, Shifting(m, "write"))
  BY <1>3, IdleMarks
<1>6. Marks(m, read)
  <2> DEFINE b == [m EXCEPT !.chip.buffer = x.words[addr]]
  <2>1. Marks(m, b)
    BY <1>3, ChipAlone
  <2> HIDE DEF b
  <2>2. Marks(m, Shifting(b, "read"))
    BY <1>3, <2>1, IdleMarks, MarksAgain DEF Marks
  <2> QED
    BY <2>2 DEF b
<1>7. Marks(m, erased)
  BY <1>3, WordMarks
<1> HIDE DEF control, read, erased
<1>8. /\ control \in S /\ Shifting(m, "write") \in S /\ read \in S /\ erased \in S /\ m \in S
  BY <1>3, <1>4, <1>5, <1>6, <1>7, MarksAgain
<1> HIDE DEF S, addr
<1>9. Command(x) \in S
  <2> USE DEF control, read, erased, m, addr
  <2> QED
    BY <1>8, Zenon DEF Command
<1> QED
  BY <1>9 DEF S

LEMMA StoreMarks ==
  ASSUME NEW x, Memory(x)
  PROVE  Marks(x, Store(x))
<1> DEFINE a == x.chip.addr
           v == x.chip.shift
           u == (x.updated \/ x.words[a] # v)
           w == [x EXCEPT !.words[a] = v, !.updated = u]
<1>1. u \in BOOLEAN /\ (u \/ (x.words[a] = v /\ ~x.updated)) /\ (x.updated => u)
  BY Zenon DEF Memory
<1> HIDE DEF u
<1>2. Marks(x, w)
  BY <1>1, WordMarks
<1>3. w = [x EXCEPT !.words[a] = v, !.updated = @ \/ x.words[a] # v]
  BY DEF u, Memory
<1> HIDE DEF w
<1>4. Store(x) \in {Idle(Filled(x, v)), Idle(w)}
  BY <1>3 DEF Store
<1>5. Marks(x, Idle(Filled(x, v))) /\ Marks(x, Idle(w))
  <2>1. Marks(x, Filled(x, v))
    BY FilledMarks
  <2>2. \A y : Marks(x, y) => Marks(x, Idle(y))
    BY IdleMarks, MarksAgain DEF Marks
  <2> QED
    BY <1>2, <2>1, <2>2
<1> QED
  BY <1>4, <1>5

LEMMA ClockMarks ==
  ASSUME NEW x, Memory(x), NEW di
  PROVE  Marks(x, Clock(x, di))
<1> DEFINE m == [x EXCEPT !.chip.DO = 1]
           s == [m EXCEPT !.chip.shift = (2 * @ + di) % 2 ^ DATA_BITS, !.chip.shifted = @ + 1]
           begun == Shifting([m EXCEPT !.chip.shift = 0], "command")
           commanded == IF s.chip.shifted = 2 + ADDR_BITS THEN Command(s) ELSE s
           stored == IF s.chip.shifted >= DATA_BITS THEN Store(s) ELSE s
           out == IF m.chip.shifted = 0 THEN [m EXCEPT !.chip.DO = 0]
                  ELSE [m EXCEPT !.chip.DO = m.chip.buffer \div 2 ^ (DATA_BITS - 1),
                                 !.chip.buffer = (2 * @) % 2 ^ DATA_BITS]
           n == [out EXCEPT !.chip.shifted = @ + 1]
           sent == IF n.chip.shifted > DATA_BITS THEN Idle(n) ELSE n
           S == {y \in {begun, commanded, stored, sent, m} : Marks(x, y)}
<1>1. \A y, z : (Marks(x, y) /\ Marks(y, z)) => Marks(x, z)
  BY MarksAgain
<1>2. \A y, k : Marks(x, y) => Marks(x, [y EXCEPT !.chip = k])
  BY <1>1, ChipAlone DEF Marks
<1>3. \A y, st : Marks(x, y) => Marks(x, Idle(y)) /\ Marks(x, Shifting(y, st))
  BY <1>1, IdleMarks DEF Marks
<1>4. Marks(x, m)
  BY ChipAlone
<1> HIDE DEF m
<1>5. Marks(x, s)
  <2> DEFINE half == [m EXCEPT !.chip.shift = (2 * @ + di) % 2 ^ DATA_BITS]
  <2>1. Marks(x, half)
    BY <1>2, <1>4
  <2>2. s = [half EXCEPT !.chip.shifted = @ + 1]
    BY <1>4 DEF Marks, Memory
  <2> HIDE DEF half
  <2>3. Marks(x, [half EXCEPT !.chip.shifted = @ + 1])
    BY <1>2, <2>1
  <2> QED
    BY <2>2, <2>3
<1> HIDE DEF s
<1>6. begun \in S
  <2>1. Marks(x, [m EXCEPT !.chip.shift = 0])
    BY <1>2, <1>4
  <2> QED
    BY <1>3, <2>1
<1>7. commanded \in S
  <2>1. Marks(x, Command(s))
    BY <1>1, <1>5, CommandMarks DEF Marks
  <2> QED
    BY <1>5, <2>1
<1>8. stored \in S
  <2>1. Marks(x, Store(s))
    BY <1>1, <1>5, StoreMarks DEF Marks
  <2> QED
    BY <1>5, <2>1
<1>9. sent \in S
  <2>1. Marks(x, out)
    <3> DEFINE first == [m EXCEPT !.chip.DO = 0]
               half == [m EXCEPT !.chip.DO = m.chip.buffer \div 2 ^ (DATA_BITS - 1)]
    <3>1. Marks(x, first) /\ Marks(x, half)
      BY <1>2, <1>4
    <3>2. Marks(x, [half EXCEPT !.chip.buffer = (2 * m.chip.buffer) % 2 ^ DATA_BITS])
      BY <1>2, <3>1
    <3>3. out = first \/ out = [half EXCEPT !.chip.buffer = (2 * m.chip.buffer) % 2 ^ DATA_BITS]
      BY <1>4 DEF Marks, Memory
    <3> QED
      BY <3>1, <3>2, <3>3
  <2> HIDE DEF out
  <2>2. Marks(x, n)
    BY <1>2, <2>1
  <2> HIDE DEF n
  <2>3. Marks(x, Idle(n))
    BY <1>3, <2>2
  <2> QED
    BY <2>2, <2>3
<1>10. m \in S
  BY <1>4
<1> HIDE DEF S, begun, commanded, stored, sent
<1>11. Clock(x, di) = CASE m.chip.state = "idle" /\ di = 1 -> begun
                        [] m.chip.state = "command" -> commanded
                        [] m.chip.state = "write" -> stored
                        [] m.chip.state = "read" -> sent
                        [] OTHER -> m
  BY DEF Clock, m, s, begun, commanded, stored, sent, out, n
<1>12. Clock(x, di) \in S
  BY <1>6, <1>7, <1>8, <1>9, <1>10, <1>11, Zenon
<1> QED
  BY <1>12 DEF S

LEMMA PinsMark ==
  ASSUME NEW x, Memory(x), NEW cs, NEW clk, NEW di
  PROVE  Marks(x, WritePins(x, cs, clk, di))
<1> DEFINE half == [x EXCEPT !.chip.cs = cs]
           m == [x EXCEPT !.chip.cs = cs, !.chip.clk = clk]
           n == IF x.chip.cs = 0 /\ cs = 1 THEN Shifting(m, "idle") ELSE m
<1>1. Marks(x, half)
  BY ChipAlone
<1>2. m = [half EXCEPT !.chip.clk = clk]
  BY DEF Memory
<1> HIDE DEF half
<1>3. Marks(half, [half EXCEPT !.chip.clk = clk])
  BY <1>1, ChipAlone DEF Marks
<1>4. Marks(x, m)
  BY <1>1, <1>2, <1>3, MarksAgain
<1> HIDE DEF m
<1>5. Marks(x, n)
  BY <1>4, IdleMarks, MarksAgain DEF Marks
<1> HIDE DEF n
<1>6. Marks(x, Clock(n, di))
  BY <1>5, ClockMarks, MarksAgain DEF Marks
<1>7. WritePins(x, cs, clk, di) = IF cs = 1 /\ clk = 1 /\ x.chip.clk = 0 THEN Clock(n, di) ELSE n
  BY DEF WritePins, m, n
<1> QED
  BY <1>5, <1>6, <1>7

LEMMA ChipWritten ==
  ASSUME NEW c, Legal(c), NEW cs, NEW clk, NEW di
  PROVE  Becomes(c, WriteChip(c, cs, clk, di)) /\ WriteChip(c, cs, clk, di).rtc = c.rtc
<1> DEFINE x == [chip |-> c.chip, words |-> c.ram, updated |-> c.updated]
           y == WritePins(x, cs, clk, di)
           d == [c EXCEPT !.chip = y.chip, !.ram = y.words, !.updated = y.updated]
<1>1. Memory(x) /\ x.words = c.ram /\ x.updated = c.updated
  BY DEF Memory, Legal, Sound
<1> HIDE DEF x
<1>2. Marks(x, y)
  BY <1>1, PinsMark
<1> HIDE DEF y
<1>3. Becomes(c, d) /\ d.rtc = c.rtc
  BY <1>1, <1>2 DEF Marks, Memory, Marked, Becomes, Legal, Sound, Parts, RomPointed, RamBase
<1>4. Becomes(c, c)
  BY AlikeBecomes DEF Alike
<1>5. WriteChip(c, cs, clk, di) = IF c.enable /\ c.enable1 /\ c.enable2 THEN d ELSE c
  BY DEF WriteChip, x, y
<1> HIDE DEF d
<1> QED
  BY <1>3, <1>4, <1>5

----------------------------------------------------------------------------
(* The running game.                                                        *)

SnapshotInv == snapshot # Nothing => Legal(snapshot.cart) /\ snapshot.cart.h = cart.h
ImageInv    == image # Nothing => IsTable(image.ram)
DirtInv     == replaced \in BOOLEAN /\ ((~replaced /\ cart.ram # clean) => cart.updated)
IInv == Legal(cart) /\ SnapshotInv /\ ImageInv /\ DirtInv

LEMMA BecomesAgain ==
  ASSUME NEW c, NEW d, NEW e, Becomes(c, d), Becomes(d, e)
  PROVE  Becomes(c, e)
  BY DEF Becomes, Marked

LEMMA Syncs ==
  ASSUME Legal(cart)
  PROVE  /\ Becomes(cart, Synced.cart)
         /\ \/ Synced.cart.rtc = cart.rtc
            \/ Synced.cart.rtc = CatchUp(cart.rtc, lag \div UNIT)
<1>1. Becomes(cart, cart)
  BY AlikeBecomes DEF Alike
<1> DEFINE r == CatchUp(cart.rtc, lag \div UNIT)
           d == [cart EXCEPT !.rtc = r]
<1>2. Becomes(cart, d) /\ d.rtc = r
  BY ClockSet
<1>3. [cart EXCEPT !.rtc = CatchUp(@, lag \div UNIT)] = d
  BY DEF Legal, Sound, Parts
<1>4. Synced.cart \in {cart, d}
  BY <1>3 DEF Synced
<1> HIDE DEF d, r
<1>5. Becomes(cart, Synced.cart) /\ Synced.cart.rtc \in {cart.rtc, r}
  BY <1>1, <1>2, <1>4
<1> QED
  BY <1>5 DEF r

(* What a cartridge becomes keeps the invariant while nothing else of it    *)
(* changes.                                                                 *)
LEMMA BecomesKeeps ==
  ASSUME IInv, Becomes(cart, cart'), UNCHANGED <<snapshot, image, clean, replaced>>
  PROVE  IInv'
<1>1. SnapshotInv'
  BY DEF IInv, SnapshotInv, Becomes, Legal, Sound, RomPointed, RamBase
<1>2. DirtInv'
  BY DEF IInv, DirtInv, Becomes, Marked
<1>3. Legal(cart)' /\ ImageInv'
  BY DEF IInv, ImageInv, Becomes, Legal, Sound, RomPointed, RamBase
<1> QED
  BY <1>1, <1>2, <1>3 DEF IInv

(* The cartridges a frame, a call or nothing makes.                         *)
LEMMA FramesBecome ==
  ASSUME Legal(cart), [Next]_vars
  PROVE  \/ Becomes(cart, cart')
         \/ Load \/ Persist \/ Import
<1> DEFINE c == Synced.cart
<1>1. Becomes(cart, c)
  BY Syncs
<1>2. Legal(c) /\ c.h = cart.h
  BY <1>1 DEF Becomes
<1>3. Becomes(cart, cart)
  BY AlikeBecomes DEF Alike
<1> HIDE DEF c
<1>4. CASE UNCHANGED vars \/ Elapse
  BY <1>3, <1>4 DEF vars, Elapse
<1>5. CASE FrameStore
  <2>1. PICK s \in Stores(cart.h) : cart' = WriteRegister(c, s[1], s[2])
    BY <1>5 DEF FrameStore, Ran, c
  <2>2. s[2] \in Nat
    BY <2>1, HeadersAssumption DEF Legal, Sound
  <2>3. Becomes(c, cart')
    BY <1>2, <2>1, <2>2, RegisterKeeps, AlikeBecomes
  <2> QED
    BY <1>1, <2>3, BecomesAgain
<1>6. CASE FrameRam
  <2>1. PICK v \in Bytes(cart) : cart' = WriteRam(c, v)
    BY <1>6 DEF FrameRam, Ran, c
  <2>2. Becomes(c, cart')
    BY <1>2, <2>1, RamWritten
  <2> QED
    BY <1>1, <2>2, BecomesAgain
<1>7. CASE FrameFails
  <2>1. cart' = c \/ cart' = cart
    BY <1>7 DEF FrameFails, c
  <2> QED
    BY <1>1, <1>3, <2>1
<1>8. CASE FrameCommand
  <2>1. cart' = WriteChip(c, 1, 0, 0)
    BY <1>8 DEF FrameCommand, Ran, c
  <2>2. Becomes(c, cart')
    BY <1>2, <2>1, ChipWritten
  <2> QED
    BY <1>1, <2>2, BecomesAgain
<1>9. CASE FrameBit
  <2>1. PICK b : cart' = WriteChip(WriteChip(c, 1, 0, b), 1, 1, b)
    BY <1>9 DEF FrameBit, Ran, c
  <2> DEFINE d == WriteChip(c, 1, 0, b)
  <2>2. Becomes(c, d)
    BY <1>2, ChipWritten
  <2> HIDE DEF d
  <2>3. Becomes(d, WriteChip(d, 1, 1, b))
    BY <2>2, ChipWritten DEF Becomes
  <2>4. Becomes(c, cart')
    BY <2>1, <2>2, <2>3, BecomesAgain DEF d
  <2> QED
    BY <1>1, <2>4, BecomesAgain
<1>10. CASE FrameGivesUp
  <2>1. cart' = WriteChip(c, 0, 0, 0)
    BY <1>10 DEF FrameGivesUp, Ran, c
  <2>2. Becomes(c, cart')
    BY <1>2, <2>1, ChipWritten
  <2> QED
    BY <1>1, <2>2, BecomesAgain
<1>11. CASE Save
  BY <1>1, <1>11 DEF Save, c
<1>12. CASE ResetGame
  <2>1. cart' = Reset(c)
    BY <1>12 DEF ResetGame, c
  <2>2. Becomes(c, cart')
    BY <1>2, <2>1, ResetKeeps, AlikeBecomes DEF Legal
  <2> QED
    BY <1>1, <2>2, BecomesAgain
<1> QED
  BY <1>4, <1>5, <1>6, <1>7, <1>8, <1>9, <1>10, <1>11, <1>12 DEF Next

LEMMA InitIInv == Init => IInv
<1> SUFFICES ASSUME Init PROVE IInv
  OBVIOUS
<1>1. PICK h \in Headers : cart = Inserted(h)
  BY DEF Init
<1> DEFINE c == [h |-> h, rom_bank |-> 0, ram_bank |-> 0, enable |-> FALSE, mode |-> FALSE,
                 zero |-> 0, latching |-> FALSE, latched |-> ClockReset, rtc |-> ClockReset,
                 enable1 |-> FALSE, enable2 |-> FALSE, chip |-> ChipReset,
                 ram |-> [b \in Cells(h) |-> 0], updated |-> FALSE, rom_base |-> 0,
                 ram_base |-> None]
<1>2. IsTable([b \in Cells(h) |-> 0])
  BY DEF IsTable
<1>3. Sound(c) /\ c.rtc = ClockReset
  BY <1>2 DEF Sound, Parts
<1>4. cart = Reset(c)
  BY <1>1 DEF Inserted
<1> HIDE DEF c
<1>5. Legal(cart)
  BY <1>3, <1>4, ResetKeeps
<1> QED
  BY <1>5 DEF Init, IInv, SnapshotInv, ImageInv, DirtInv

(* A snapshot is taken of a legal cartridge, and gives one back.            *)
LEMMA LoadKeeps ==
  ASSUME IInv, Load
  PROVE  IInv'
<1>1. PICK kind, fault :
        LoadState([kind |-> kind, fault |-> fault, cart |-> snapshot.cart, apu |-> snapshot.apu,
                   program |-> snapshot.program])
  BY DEF Load
<1> DEFINE b == [kind |-> kind, fault |-> fault, cart |-> snapshot.cart, apu |-> snapshot.apu,
                 program |-> snapshot.program]
<1>2. b.cart = snapshot.cart
  OBVIOUS
<1> HIDE DEF b
<1>3. CASE Loaded(b)
  <2>1. /\ cart' = CachedRam(CachedRom(snapshot.cart))
        /\ UNCHANGED <<snapshot, image, clean>> /\ replaced'
    BY <1>2, <1>3 DEF Loaded
  <2>2. Legal(snapshot.cart) /\ snapshot.cart.h = cart.h
    BY DEF IInv, SnapshotInv, Load
  <2>3. Legal(cart') /\ cart'.h = cart.h
    BY <2>1, <2>2, BothCached DEF Legal, Alike
  <2>4. SnapshotInv'
    BY <2>1, <2>2, <2>3 DEF SnapshotInv, Legal, Sound, RomPointed, RamBase
  <2>5. replaced' = TRUE
    BY <1>3 DEF Loaded
  <2> QED
    BY <2>1, <2>3, <2>4, <2>5 DEF IInv, ImageInv, DirtInv, Legal, Sound, RomPointed, RamBase
<1>4. CASE Refuse("refused")
  <2>1. Becomes(cart, cart') /\ UNCHANGED <<snapshot, image, clean, replaced>>
    BY <1>4, AlikeBecomes DEF Refuse, IInv, Alike
  <2> QED
    BY <2>1, BecomesKeeps
<1> QED
  BY <1>1, <1>3, <1>4 DEF LoadState, b

LEMMA SaveKeeps ==
  ASSUME IInv, Save
  PROVE  IInv'
<1>1. Becomes(cart, cart') /\ UNCHANGED <<image, clean, replaced>> /\ snapshot'.cart = cart'
  BY Syncs DEF Save, IInv
<1>2. Legal(cart)' /\ SnapshotInv'
  BY <1>1 DEF SnapshotInv, Becomes, Legal, Sound, RomPointed, RamBase
<1>3. DirtInv'
  BY <1>1 DEF IInv, DirtInv, Becomes, Marked
<1> QED
  BY <1>1, <1>2, <1>3 DEF IInv, ImageInv

LEMMA CleanSet ==
  ASSUME NEW c, Legal(c), NEW ram, IsTable(ram), NEW d, d.ram_base = c.ram_base,
         DOMAIN d = Parts, d.h = c.h, d.ram = ram, d.updated = FALSE, d.ram_bank = c.ram_bank,
         d.rom_bank = c.rom_bank, d.rom_base = c.rom_base, d.enable = c.enable, d.mode = c.mode
  PROVE  Legal(d)
  BY DEF Legal, Sound, RomPointed, RamBase

LEMMA PersistKeeps ==
  ASSUME IInv, Persist
  PROVE  IInv'
<1> DEFINE c == Synced.cart
<1>1. Becomes(cart, c)
  BY Syncs DEF IInv
<1> HIDE DEF c
<1>2. CASE cart' = c /\ UNCHANGED <<snapshot, image, clean, replaced>>
  BY <1>1, <1>2, BecomesKeeps
<1>3. CASE /\ cart' = [c EXCEPT !.updated = FALSE]
           /\ image' = [kind |-> "image", ram |-> cart.ram, rtc |-> Synced.cart.rtc]
           /\ clean' = cart.ram /\ replaced' = FALSE /\ snapshot' = snapshot
  <2>1. Legal(c) /\ c.h = cart.h /\ c.ram = cart.ram
    <3>1. c.ram = cart.ram
      BY DEF c, Synced, IInv, Legal, Sound, Parts
    <3> QED
      BY <1>1, <3>1 DEF Becomes
  <2>2. Legal(cart') /\ cart'.h = cart.h /\ cart'.ram = cart.ram
    <3> DEFINE d == [c EXCEPT !.updated = FALSE]
    <3>1. /\ d.ram_base = c.ram_base /\ DOMAIN d = Parts /\ d.h = c.h /\ d.ram = c.ram
          /\ d.updated = FALSE /\ d.ram_bank = c.ram_bank /\ d.rom_bank = c.rom_bank
          /\ d.rom_base = c.rom_base /\ d.enable = c.enable /\ d.mode = c.mode
      BY <2>1 DEF Legal, Sound, Parts
    <3>2. IsTable(c.ram)
      BY <2>1 DEF Legal, Sound
    <3> HIDE DEF d
    <3>3. Legal(d)
      BY <2>1, <3>1, <3>2, CleanSet
    <3> QED
      BY <1>3, <2>1, <3>1, <3>3 DEF d
  <2>3. SnapshotInv'
    BY <1>3, <2>2 DEF IInv, SnapshotInv, Legal, Sound, RomPointed, RamBase
  <2>4. ImageInv'
    BY <1>3 DEF IInv, ImageInv, Legal, Sound
  <2>5. DirtInv'
    BY <1>3, <2>2 DEF DirtInv
  <2>6. Legal(cart)'
    BY <2>2 DEF Legal, Sound, RomPointed, RamBase
  <2> QED
    BY <2>3, <2>4, <2>5, <2>6 DEF IInv
<1> QED
  BY <1>2, <1>3 DEF Persist, c

LEMMA ImportKeeps ==
  ASSUME IInv, Import
  PROVE  IInv'
<1>1. CASE Refuse("refused")
  <2>1. Becomes(cart, cart') /\ UNCHANGED <<snapshot, image, clean, replaced>>
    BY <1>1, AlikeBecomes DEF Refuse, IInv, Alike
  <2> QED
    BY <2>1, BecomesKeeps
<1>2. CASE ~Refuse("refused")
  <2>1. PICK rtc :
          /\ cart' = [cart EXCEPT !.ram = image.ram, !.updated = FALSE,
                                  !.rtc = IF cart.h.rtc THEN rtc ELSE @,
                                  !.latched = IF cart.h.rtc THEN rtc ELSE @]
          /\ clean' = image.ram /\ replaced' = FALSE /\ UNCHANGED <<snapshot, image>>
    BY <1>2 DEF Import
  <2> DEFINE d == [cart EXCEPT !.ram = image.ram, !.updated = FALSE,
                               !.rtc = IF cart.h.rtc THEN rtc ELSE @,
                               !.latched = IF cart.h.rtc THEN rtc ELSE @]
  <2>2. IsTable(image.ram) /\ Legal(cart)
    BY DEF IInv, ImageInv, Import
  <2>3. /\ d.ram_base = cart.ram_base /\ DOMAIN d = Parts /\ d.h = cart.h /\ d.ram = image.ram
        /\ d.updated = FALSE /\ d.ram_bank = cart.ram_bank /\ d.rom_bank = cart.rom_bank
        /\ d.rom_base = cart.rom_base /\ d.enable = cart.enable /\ d.mode = cart.mode
    BY <2>2 DEF Legal, Sound, Parts
  <2> HIDE DEF d
  <2>4. Legal(d)
    BY <2>2, <2>3, CleanSet
  <2>5. Legal(cart') /\ cart'.h = cart.h /\ cart'.ram = image.ram
    BY <2>1, <2>3, <2>4 DEF d
  <2>6. SnapshotInv'
    BY <2>1, <2>5 DEF IInv, SnapshotInv, Legal, Sound, RomPointed, RamBase
  <2>7. ImageInv' /\ DirtInv'
    BY <2>1, <2>5 DEF IInv, ImageInv, DirtInv
  <2>8. Legal(cart)'
    BY <2>5 DEF Legal, Sound, RomPointed, RamBase
  <2> QED
    BY <2>6, <2>7, <2>8 DEF IInv
<1> QED
  BY <1>1, <1>2

LEMMA NextIInv == IInv /\ [Next]_vars => IInv'
<1> SUFFICES ASSUME IInv, [Next]_vars PROVE IInv'
  OBVIOUS
<1>1. CASE Load \/ Persist \/ Import \/ Save
  BY <1>1, LoadKeeps, PersistKeeps, ImportKeeps, SaveKeeps
<1>2. CASE ~(Load \/ Persist \/ Import \/ Save)
  <2>1. Becomes(cart, cart')
    BY <1>2, FramesBecome DEF IInv
  <2>2. UNCHANGED <<snapshot, image, clean, replaced>>
    BY <1>2 DEF Next, vars, Elapse, FrameStore, FrameRam, FrameFails, FrameCommand, FrameBit,
                FrameGivesUp, ResetGame, Ran
  <2> QED
    BY <2>1, <2>2, BecomesKeeps
<1> QED
  BY <1>1, <1>2

(* The invariant of a running game: its pointers are those of its           *)
(* registers, also in the snapshot, and RAM the card does not have is marked.*)
THEOREM GameInvariant == Spec => []IInv
<1> QED
  BY InitIInv, NextIInv, PTL DEF Spec

(* gbemu: RAM that is not what the card holds is known to be dirty, unless  *)
(* a snapshot replaced it, after whatever the game and its embedder did.    *)
THEOREM DirtStaysKnown == Spec => []DirtyIsKnown
<1>1. IInv => DirtyIsKnown
  BY DEF IInv, DirtInv, DirtyIsKnown
<1> QED
  BY <1>1, GameInvariant, PTL

(* The pointers the fast paths go through are those the registers stand     *)
(* for, and reading or writing through them is what the registers mean.     *)
THEOREM PointersFollowRegisters == Spec => []FastIsFull
<1>1. IInv => FastIsFull
  BY FastAgrees DEF IInv, Legal, RomPointed, FastIsFull
<1> QED
  BY <1>1, GameInvariant, PTL

(* gbemu_load_state and gbemu_import_persist: a call that refuses what it   *)
(* was given has not begun to apply it.                                     *)
THEOREM RefusalsChangeNothing == Spec => RefusedChangesNothing
<1>1. ASSUME [Next]_vars, calls' # calls, answer' = "refused"
      PROVE  UNCHANGED <<status, cart, apu, lag>>
  <2>1. \A a : Call(a) => a = "refused"
    BY <1>1 DEF Call
  <2>2. ~UNCHANGED vars /\ ~Elapse /\ ~Frame
    BY <1>1 DEF vars, Elapse, Frame
  <2>3. ~FrameStore /\ ~FrameRam /\ ~FrameFails /\ ~FrameCommand /\ ~FrameBit /\ ~FrameGivesUp
    BY <2>1, <2>2 DEF FrameStore, FrameRam, FrameFails, FrameCommand, FrameBit, FrameGivesUp
  <2>4. ~Save /\ ~Persist /\ ~ResetGame
    BY <2>1 DEF Save, Persist, ResetGame
  <2>5. CASE Load
    <3>1. PICK b : LoadState(b) /\ b.kind \in {"wrapped", "core_only", "raw"}
      BY <2>5 DEF Load
    <3>2. CASE Ready /\ Accepted(b) /\ CoreTakes(b)
      <4>1. Imports(b)
        BY <3>1, <3>2 DEF Accepted, Imports
      <4> QED
        BY <2>1, <3>1, <3>2, <4>1 DEF LoadState
    <3>3. CASE ~(Ready /\ Accepted(b) /\ CoreTakes(b))
      BY <3>1, <3>3 DEF LoadState, Refuse
    <3> QED
      BY <3>2, <3>3
  <2>6. CASE Import
    BY <2>1, <2>6 DEF Import, Refuse
  <2> QED
    BY <1>1, <2>2, <2>3, <2>4, <2>5, <2>6 DEF Next
<1> QED
  BY <1>1, PTL DEF Spec, RefusedChangesNothing

----------------------------------------------------------------------------
(* The clock, and the rest of the types.                                    *)

LEMMA Divides ==
  ASSUME NEW a \in Int, NEW b \in Nat \ {0}
  PROVE  a % b \in 0 .. b - 1 /\ a \div b \in Int
  OBVIOUS

LEMMA RestIsLess ==
  ASSUME NEW a \in Nat, NEW b \in Nat \ {0}
  PROVE  a % b \in 0 .. a /\ a \div b \in Nat
  OBVIOUS

LEMMA ClockCaughtUp ==
  ASSUME NEW r \in Clocks, NEW seconds \in Int
  PROVE  CatchUp(r, seconds) \in Clocks
<1> DEFINE days  == r.yday + YDAYS * r.day8
           total == r.sec + SECONDS * (r.min + MINUTES * (r.hour + HOURS * days)) + seconds
           d     == total \div (SECONDS * MINUTES * HOURS)
           over  == (r.overflow \/ d >= 2 * YDAYS)
           e     == [r EXCEPT !.sec = total % SECONDS, !.min = (total \div SECONDS) % MINUTES,
                              !.hour = (total \div (SECONDS * MINUTES)) % HOURS,
                              !.yday = d % YDAYS, !.day8 = (d \div YDAYS) % 2,
                              !.overflow = over]
<1>1. /\ SECONDS \in Nat \ {0} /\ MINUTES \in Nat \ {0} /\ HOURS \in Nat \ {0}
      /\ YDAYS \in Nat \ {0}
  BY RtcAssumption
<1>2. /\ r.sec \in Int /\ r.min \in Int /\ r.hour \in Int /\ r.yday \in Int /\ r.day8 \in Int
      /\ r.overflow \in BOOLEAN
  BY <1>1 DEF Clocks
<1>3. total \in Int
  <2>1. days \in Int
    BY <1>1, <1>2
  <2> HIDE DEF days
  <2>2. HOURS * days \in Int
    BY <1>1, <2>1
  <2>3. MINUTES * (r.hour + HOURS * days) \in Int
    BY <1>1, <1>2, <2>2
  <2>4. SECONDS * (r.min + MINUTES * (r.hour + HOURS * days)) \in Int
    BY <1>1, <1>2, <2>3
  <2> QED
    BY <1>2, <2>4
<1> HIDE DEF total
<1>4. SECONDS * MINUTES \in Nat \ {0}
  BY <1>1
<1>5. SECONDS * MINUTES * HOURS \in Nat \ {0}
  BY <1>1, <1>4
<1>6. d \in Int
  BY <1>3, <1>5, Divides
<1> HIDE DEF d
<1>7. total % SECONDS \in 0 .. SECONDS - 1 /\ total \div SECONDS \in Int
  BY <1>1, <1>3, Divides
<1>8. (total \div SECONDS) % MINUTES \in 0 .. MINUTES - 1
  BY <1>1, <1>7, Divides
<1>9. total \div (SECONDS * MINUTES) \in Int
  BY <1>3, <1>4, Divides
<1>10. (total \div (SECONDS * MINUTES)) % HOURS \in 0 .. HOURS - 1
  BY <1>1, <1>9, Divides
<1>11. d % YDAYS \in 0 .. YDAYS - 1 /\ d \div YDAYS \in Int
  BY <1>1, <1>6, Divides
<1>12. (d \div YDAYS) % 2 \in 0 .. 1
  BY <1>11
<1>13. over \in BOOLEAN
  BY <1>2, Zenon
<1> HIDE DEF over
<1>14. e \in Clocks
  BY <1>7, <1>8, <1>10, <1>11, <1>12, <1>13 DEF Clocks
<1>15. CatchUp(r, seconds) = IF r.halt \/ seconds = 0 THEN r ELSE e
  BY DEF CatchUp, e, over, d, total, Clocks
<1> QED
  BY <1>14, <1>15

(* A game writes to a register of its clock a value that the register has.  *)
(* The core itself stores any byte.                                         *)
Limits == <<SECONDS, MINUTES, HOURS, YDAYS>>
BytesFit ==
  \A c : Legal(c) /\ c.h.mbc = 3 /\ c.ram_bank >= RtcBank =>
    \A v \in Bytes(c) : /\ v \in Nat
                        /\ \A k \in 0 .. 3 : c.ram_bank = RtcBank + k => v < Limits[k + 1]

LEMMA RegisterWritten ==
  ASSUME NEW r \in Clocks, NEW k \in Nat, NEW v \in Nat,
         \A j \in 0 .. 3 : k = j => v < Limits[j + 1]
  PROVE  WithRegister(r, k, v) \in Clocks
<1>1. CASE k \in 0 .. 3
  <2>1. \/ k = 0 /\ RtcRegisters[k + 1] = "sec" /\ v \in 0 .. SECONDS - 1
        \/ k = 1 /\ RtcRegisters[k + 1] = "min" /\ v \in 0 .. MINUTES - 1
        \/ k = 2 /\ RtcRegisters[k + 1] = "hour" /\ v \in 0 .. HOURS - 1
        \/ k = 3 /\ RtcRegisters[k + 1] = "yday" /\ v \in 0 .. YDAYS - 1
    BY <1>1, RtcAssumption DEF RtcRegisters, Limits
  <2>2. WithRegister(r, k, v) = [r EXCEPT ![RtcRegisters[k + 1]] = v]
    BY <1>1 DEF WithRegister
  <2> QED
    BY <2>1, <2>2 DEF Clocks
<1>2. CASE k \notin 0 .. 3
  <2> DEFINE halt == ((v \div 64) % 2 = 1)
             overflow == (v \div 128 = 1)
  <2>1. halt \in BOOLEAN /\ overflow \in BOOLEAN
    BY Zenon
  <2>2. v % 2 \in 0 .. 1
    OBVIOUS
  <2> HIDE DEF halt, overflow
  <2>3. [r EXCEPT !.day8 = v % 2, !.halt = halt, !.overflow = overflow] \in Clocks
    BY <2>1, <2>2 DEF Clocks
  <2> QED
    BY <1>2, <2>3 DEF WithRegister, halt, overflow
<1> QED
  BY <1>1, <1>2

Sounds == {"reset", "playing"}
TypeInv ==
  /\ TypeOK
  /\ snapshot # Nothing => snapshot.cart.rtc \in Clocks /\ snapshot.apu \in Sounds
  /\ image # Nothing => image.rtc \in Clocks

LEMMA SyncsTyped ==
  ASSUME IInv, TypeInv
  PROVE  Synced.lag \in 0 .. MaxLag /\ Synced.cart.rtc \in Clocks
<1>1. lag \in Nat /\ lag <= MaxLag /\ MaxLag \in Nat /\ UNIT \in Nat \ {0} /\ cart.rtc \in Clocks
  BY EmulatorAssumption DEF TypeInv, TypeOK
<1>2. lag % UNIT \in 0 .. lag /\ lag \div UNIT \in Nat
  BY <1>1, RestIsLess
<1>3. CatchUp(cart.rtc, lag \div UNIT) \in Clocks
  BY <1>1, <1>2, ClockCaughtUp
<1>4. Synced.cart.rtc \in Clocks
  BY <1>1, <1>3, Syncs DEF IInv
<1>5. Synced.lag \in {lag, 0, lag % UNIT}
  BY DEF Synced
<1> QED
  BY <1>1, <1>2, <1>4, <1>5

(* No call changes the header.                                              *)
LEMMA HeaderStays ==
  ASSUME IInv, [Next]_vars
  PROVE  cart'.h = cart.h /\ cart.h \in Headers
<1>1. cart.h \in Headers
  BY DEF IInv, Legal, Sound
<1>2. CASE Becomes(cart, cart')
  BY <1>1, <1>2 DEF Becomes
<1>3. CASE Load \/ Import \/ Persist
  <2>1. Alike(cart, cart)
    BY DEF Alike
  <2>2. CASE Load
    <3>1. CASE cart' = cart
      BY <1>1, <3>1
    <3>2. CASE cart' = CachedRam(CachedRom(snapshot.cart))
      <4>1. Legal(snapshot.cart) /\ snapshot.cart.h = cart.h
        BY <2>2 DEF IInv, SnapshotInv, Load
      <4>2. Alike(snapshot.cart, CachedRam(CachedRom(snapshot.cart)))
        BY <4>1, BothCached DEF Legal, Alike
      <4> QED
        BY <1>1, <3>2, <4>1, <4>2 DEF Alike
    <3> QED
      BY <2>2, <3>1, <3>2 DEF Load, LoadState, Loaded, Refuse
  <2>3. CASE Import
    BY <1>1, <2>3 DEF Import, Refuse, IInv, Legal, Sound, Parts
  <2>4. CASE Persist
    <3>1. Becomes(cart, Synced.cart)
      BY Syncs DEF IInv
    <3>2. cart' = Synced.cart \/ cart' = [Synced.cart EXCEPT !.updated = FALSE]
      BY <2>4 DEF Persist
    <3> QED
      BY <1>1, <3>1, <3>2 DEF Becomes, Legal, Sound, Parts
  <2> QED
    BY <1>3, <2>2, <2>3, <2>4
<1> QED
  BY <1>2, <1>3, FramesBecome DEF IInv

LEMMA InitTypeInv == Init => TypeInv
<1> SUFFICES ASSUME Init PROVE TypeInv
  OBVIOUS
<1>1. PICK h \in Headers : cart = Inserted(h)
  BY DEF Init
<1> DEFINE c == [h |-> h, rom_bank |-> 0, ram_bank |-> 0, enable |-> FALSE, mode |-> FALSE,
                 zero |-> 0, latching |-> FALSE, latched |-> ClockReset, rtc |-> ClockReset,
                 enable1 |-> FALSE, enable2 |-> FALSE, chip |-> ChipReset,
                 ram |-> [b \in Cells(h) |-> 0], updated |-> FALSE, rom_base |-> 0,
                 ram_base |-> None]
<1>2. IsTable([b \in Cells(h) |-> 0])
  BY DEF IsTable
<1>3. Sound(c) /\ c.rtc = ClockReset
  BY <1>2 DEF Sound, Parts
<1>4. cart = Reset(c)
  BY <1>1 DEF Inserted
<1> HIDE DEF c
<1>5. cart.rtc = ClockReset /\ cart.h \in Headers
  BY <1>3, <1>4, ResetKeeps DEF Alike, Legal, Sound
<1>6. ClockReset \in Clocks
  BY RtcAssumption DEF ClockReset, Clocks
<1> QED
  BY <1>5, <1>6, HeadersAssumption, EmulatorAssumption DEF Init, TypeInv, TypeOK

(* The clock a step leaves in the cartridge, the snapshot and the image.    *)
LEMMA ClocksTyped ==
  ASSUME BytesFit, IInv, TypeInv, [Next]_vars
  PROVE  /\ cart'.rtc \in Clocks
         /\ snapshot' # Nothing => snapshot'.cart.rtc \in Clocks /\ snapshot'.apu \in Sounds
         /\ image' # Nothing => image'.rtc \in Clocks
<1> DEFINE c == Synced.cart
           Kept == UNCHANGED <<snapshot, image>>
<1>1. Legal(c) /\ c.h = cart.h /\ c.rtc \in Clocks /\ cart.rtc \in Clocks
  BY Syncs, SyncsTyped DEF IInv, Becomes, TypeInv, TypeOK
<1>2. /\ snapshot # Nothing => snapshot.cart.rtc \in Clocks /\ snapshot.apu \in Sounds
      /\ image # Nothing => image.rtc \in Clocks
  BY DEF TypeInv
<1>3. apu \in Sounds
  BY DEF TypeInv, TypeOK, Sounds
<1>4. cart.h \in Headers
  BY DEF IInv, Legal, Sound
<1>5. c.ram_bank = cart.ram_bank
  BY DEF Synced, IInv, Legal, Sound, Parts
<1> HIDE DEF c
<1>6. CASE UNCHANGED vars \/ Elapse
  BY <1>1, <1>2, <1>6 DEF vars, Elapse
<1>7. CASE FrameStore
  <2>1. PICK s \in Stores(cart.h) : cart' = WriteRegister(c, s[1], s[2]) /\ Kept
    BY <1>7 DEF FrameStore, Ran, c
  <2>2. s[2] \in Nat
    BY <1>4, <2>1, HeadersAssumption
  <2>3. cart'.rtc = c.rtc
    BY <1>1, <2>1, <2>2, RegisterKeeps DEF Alike
  <2> QED
    BY <1>1, <1>2, <2>1, <2>3
<1>8. CASE FrameRam
  <2>1. PICK v \in Bytes(cart) : cart' = WriteRam(c, v) /\ Kept
    BY <1>8 DEF FrameRam, Ran, c
  <2>2. CASE cart'.rtc = c.rtc
    BY <1>1, <1>2, <2>1, <2>2
  <2>3. CASE /\ c.h.mbc = 3 /\ c.ram_bank >= RtcBank
             /\ cart'.rtc = WithRegister(c.rtc, c.ram_bank - RtcBank, v)
    <3>1. /\ v \in Nat
          /\ \A k \in 0 .. 3 : c.ram_bank = RtcBank + k => v < Limits[k + 1]
      BY <1>1, <1>5, <2>1, <2>3 DEF BytesFit, IInv
    <3>2. c.ram_bank - RtcBank \in Nat
      BY <1>1, <2>3 DEF RtcBank, Legal, Sound
    <3>3. \A j \in 0 .. 3 : c.ram_bank - RtcBank = j => v < Limits[j + 1]
      BY <1>1, <3>1 DEF RtcBank, Legal, Sound
    <3>4. WithRegister(c.rtc, c.ram_bank - RtcBank, v) \in Clocks
      BY <1>1, <3>1, <3>2, <3>3, RegisterWritten
    <3> QED
      BY <1>2, <2>1, <2>3, <3>4
  <2> QED
    BY <1>1, <2>1, <2>2, <2>3, RamWritten
<1>9. CASE FrameFails
  BY <1>1, <1>2, <1>9 DEF FrameFails, c
<1>10. CASE FrameCommand
  <2>1. cart' = WriteChip(c, 1, 0, 0) /\ Kept
    BY <1>10 DEF FrameCommand, Ran, c
  <2> QED
    BY <1>1, <1>2, <2>1, ChipWritten
<1>11. CASE FrameBit
  <2>1. PICK b : cart' = WriteChip(WriteChip(c, 1, 0, b), 1, 1, b) /\ Kept
    BY <1>11 DEF FrameBit, Ran, c
  <2> DEFINE d == WriteChip(c, 1, 0, b)
  <2>2. Legal(d) /\ d.rtc = c.rtc
    BY <1>1, ChipWritten DEF Becomes
  <2> HIDE DEF d
  <2>3. WriteChip(d, 1, 1, b).rtc = c.rtc
    BY <2>2, ChipWritten
  <2> QED
    BY <1>1, <1>2, <2>1, <2>3 DEF d
<1>12. CASE FrameGivesUp
  <2>1. cart' = WriteChip(c, 0, 0, 0) /\ Kept
    BY <1>12 DEF FrameGivesUp, Ran, c
  <2> QED
    BY <1>1, <1>2, <2>1, ChipWritten
<1>13. CASE Save
  <2>1. cart' = c /\ snapshot'.cart = cart' /\ snapshot'.apu = apu /\ image' = image
    BY <1>13 DEF Save, c
  <2> QED
    BY <1>1, <1>2, <1>3, <2>1
<1>14. CASE Load
  <2>1. snapshot.cart.rtc \in Clocks /\ Legal(snapshot.cart) /\ Kept
    BY <1>2, <1>14 DEF Load, IInv, SnapshotInv, LoadState, Loaded, Refuse
  <2>2. cart' = cart \/ cart' = CachedRam(CachedRom(snapshot.cart))
    BY <1>14 DEF Load, LoadState, Loaded, Refuse
  <2>3. Alike(snapshot.cart, CachedRam(CachedRom(snapshot.cart)))
    BY <2>1, BothCached DEF Legal, Alike
  <2> QED
    BY <1>1, <1>2, <2>1, <2>2, <2>3 DEF Alike
<1>15. CASE Persist
  <2>1. cart' = c \/ cart' = [c EXCEPT !.updated = FALSE]
    BY <1>15 DEF Persist, c
  <2>2. cart'.rtc = c.rtc
    BY <1>1, <2>1 DEF Legal, Sound, Parts
  <2>3. snapshot' = snapshot
    BY <1>15 DEF Persist
  <2>4. \/ image' = image
        \/ image' = [kind |-> "image", ram |-> cart.ram, rtc |-> c.rtc]
    BY <1>15, Zenon DEF Persist, c
  <2>5. image' = image \/ image'.rtc = c.rtc
    BY <2>4
  <2> QED
    BY <1>1, <1>2, <2>2, <2>3, <2>5
<1>16. CASE Import
  <2>1. Kept
    BY <1>16 DEF Import, Refuse
  <2>2. CASE cart' = cart
    BY <1>1, <1>2, <2>1, <2>2
  <2>3. CASE cart' # cart
    <3>1. PICK age \in Ages, legacy \in BOOLEAN :
            LET rtc == IF legacy \/ age < 0 THEN image.rtc ELSE CatchUp(image.rtc, age)
            IN  cart' = [cart EXCEPT !.ram = image.ram, !.updated = FALSE,
                                     !.rtc = IF cart.h.rtc THEN rtc ELSE @,
                                     !.latched = IF cart.h.rtc THEN rtc ELSE @]
      BY <1>16, <2>3 DEF Import, Refuse
    <3> DEFINE rtc == IF legacy \/ age < 0 THEN image.rtc ELSE CatchUp(image.rtc, age)
    <3>2. image.rtc \in Clocks /\ age \in Int
      BY <1>2, <1>16, EmulatorAssumption DEF Import
    <3>3. rtc \in Clocks
      BY <3>2, ClockCaughtUp
    <3> HIDE DEF rtc
    <3>4. cart' = [cart EXCEPT !.ram = image.ram, !.updated = FALSE,
                               !.rtc = IF cart.h.rtc THEN rtc ELSE @,
                               !.latched = IF cart.h.rtc THEN rtc ELSE @]
      BY <3>1 DEF rtc
    <3>5. cart'.rtc \in Clocks
      BY <1>1, <3>3, <3>4 DEF IInv, Legal, Sound, Parts
    <3> QED
      BY <1>2, <2>1, <3>5
  <2> QED
    BY <2>2, <2>3
<1>17. CASE ResetGame
  <2>1. cart' = Reset(c) /\ Kept
    BY <1>17 DEF ResetGame, c
  <2>2. cart'.rtc = c.rtc
    BY <1>1, <2>1, ResetKeeps DEF Legal, Alike
  <2> QED
    BY <1>1, <1>2, <2>1, <2>2
<1> QED
  BY <1>6, <1>7, <1>8, <1>9, <1>10, <1>11, <1>12, <1>13, <1>14, <1>15, <1>16, <1>17 DEF Next

LEMMA NextTypeInv ==
  ASSUME BytesFit, IInv, TypeInv, [Next]_vars
  PROVE  TypeInv'
<1>1. /\ status \in {"ok", "runtime_error", "invalid_argument"} /\ lag \in 0 .. MaxLag
      /\ calls \in 0 .. MaxCalls(cart.h) /\ apu \in Sounds
  BY DEF TypeInv, TypeOK, Sounds
<1>2. cart'.h = cart.h /\ MaxCalls(cart.h) \in Nat /\ MaxLag \in Nat
  BY HeaderStays, HeadersAssumption, EmulatorAssumption
<1>3. Synced.lag \in 0 .. MaxLag
  BY SyncsTyped
<1>4. calls' \in 0 .. MaxCalls(cart.h)
  <2>1. calls' = calls \/ (calls < MaxCalls(cart.h) /\ calls' = calls + 1)
    BY DEF Next, vars, Elapse, FrameStore, FrameRam, FrameFails, FrameCommand, FrameBit,
           FrameGivesUp, Save, Load, LoadState, Persist, Import, ResetGame, Refuse, Call, Frame
  <2> QED
    BY <1>1, <1>2, <2>1
<1>5. lag' \in 0 .. MaxLag
  <2>1. lag' \in {lag, 0, Synced.lag} \/ (lag < MaxLag /\ lag' = lag + 1)
    BY DEF Next, vars, Elapse, FrameStore, FrameRam, FrameFails, FrameCommand, FrameBit,
           FrameGivesUp, Save, Load, LoadState, Loaded, Persist, Import, ResetGame, Refuse, Ran
  <2> QED
    BY <1>1, <1>2, <1>3, <2>1
<1>6. status' \in {status, "ok", "runtime_error", "invalid_argument"}
  BY DEF Next, vars, Elapse, FrameStore, FrameRam, FrameFails, FrameCommand, FrameBit,
         FrameGivesUp, Save, Load, LoadState, Loaded, Persist, Import, ResetGame, Refuse, Ran
<1>7. apu' \in Sounds
  <2>1. CASE Load
    <3>1. snapshot.apu \in Sounds
      BY <2>1 DEF Load, TypeInv
    <3>2. PICK b : LoadState(b) /\ b.apu = snapshot.apu
      BY <2>1 DEF Load
    <3> QED
      BY <1>1, <3>1, <3>2 DEF LoadState, Loaded, Refuse, Sounds
  <2>2. CASE ~Load
    <3>1. apu' \in {apu, "reset", "playing"}
      BY <2>2 DEF Next, vars, Elapse, FrameStore, FrameRam, FrameFails, FrameCommand, FrameBit,
                  FrameGivesUp, Save, Persist, Import, ResetGame, Refuse, Ran
    <3> QED
      BY <1>1, <3>1 DEF Sounds
  <2> QED
    BY <2>1, <2>2
<1> QED
  BY <1>1, <1>2, <1>4, <1>5, <1>6, <1>7, ClocksTyped DEF TypeInv, TypeOK, Sounds

(* The bank registers, the pointers and the RAM behind them belong together,*)
(* and the clock has a time to show, if a game writes nothing else to it.   *)
THEOREM CartsAreCoherent == ASSUME BytesFit PROVE Spec => []CartIsCoherent
<1>1. Init => TypeInv
  BY InitTypeInv
<1>2. IInv /\ TypeInv /\ [Next]_vars => TypeInv'
  BY NextTypeInv
<1>3. IInv /\ TypeInv => CartIsCoherent
  BY FastAgrees DEF TypeInv, IInv, Legal, RomPointed, FastIsFull, CartIsCoherent
<1>4. Spec => []TypeInv
  BY <1>1, <1>2, GameInvariant, PTL DEF Spec
<1> QED
  BY <1>3, <1>4, GameInvariant, PTL

----------------------------------------------------------------------------
(* A clock that ticks and one that is caught up.                            *)

LEMMA DivMod ==
  ASSUME NEW a \in Int, NEW b \in Nat \ {0}
  PROVE  a = b * (a \div b) + (a % b)
  OBVIOUS

LEMMA AtLeastOne ==
  ASSUME NEW b \in Nat \ {0}, NEW x \in Int, x >= 1
  PROVE  b * x >= b
  OBVIOUS

(* Quotient and remainder are the only ones.                                *)
LEMMA OnlyDigits ==
  ASSUME NEW a \in Int, NEW b \in Nat \ {0}, NEW q \in Int, NEW r \in 0 .. b - 1,
         a = b * q + r
  PROVE  a \div b = q /\ a % b = r
<1> DEFINE p == a \div b
           s == a % b
<1>1. p \in Int /\ s \in 0 .. b - 1 /\ a = b * p + s
  BY DivMod, Divides
<1> HIDE DEF p, s
<1>2. b * (q - p) = s - r /\ b * (p - q) = r - s
  BY <1>1
<1>3. ~(q - p >= 1)
  BY <1>1, <1>2, AtLeastOne
<1>4. ~(p - q >= 1)
  BY <1>1, <1>2, AtLeastOne
<1>5. p = q
  BY <1>1, <1>3, <1>4
<1>6. s = r
  BY <1>1, <1>5
<1> QED
  BY <1>5, <1>6 DEF p, s

(* One more: the digit grows, or is zero again and carries.                 *)
LEMMA NextDigit ==
  ASSUME NEW a \in Nat, NEW b \in Nat \ {0}
  PROVE  /\ (a % b) + 1 < b => (a + 1) % b = (a % b) + 1 /\ (a + 1) \div b = a \div b
         /\ ~((a % b) + 1 < b) => (a + 1) % b = 0 /\ (a + 1) \div b = a \div b + 1
<1> DEFINE q == a \div b
           r == a % b
<1>1. q \in Int /\ r \in 0 .. b - 1 /\ a = b * q + r
  BY DivMod, Divides
<1> HIDE DEF q, r
<1>2. CASE r + 1 < b
  <2>1. a + 1 = b * q + (r + 1) /\ r + 1 \in 0 .. b - 1
    BY <1>1, <1>2
  <2>2. (a + 1) % b = r + 1 /\ (a + 1) \div b = q
    BY <1>1, <2>1, OnlyDigits
  <2> QED
    BY <1>2, <2>2 DEF q, r
<1>3. CASE ~(r + 1 < b)
  <2>1. b * (q + 1) = b * q + b
    BY <1>1
  <2>2. a + 1 = b * (q + 1) + 0 /\ 0 \in 0 .. b - 1
    BY <1>1, <1>3, <2>1
  <2>3. (a + 1) % b = 0 /\ (a + 1) \div b = q + 1
    BY <1>1, <2>2, OnlyDigits
  <2> QED
    BY <1>3, <2>3 DEF q, r
<1> QED
  BY <1>2, <1>3

LEMMA DivDiv ==
  ASSUME NEW t \in Nat, NEW a \in Nat \ {0}, NEW b \in Nat \ {0}
  PROVE  t \div (a * b) = (t \div a) \div b
<1> DEFINE q == t \div a
           r == t % a
           p == q \div b
           s == q % b
<1>1. q \in Int /\ r \in 0 .. a - 1 /\ t = a * q + r
  BY DivMod, Divides
<1> HIDE DEF q, r
<1>2. p \in Int /\ s \in 0 .. b - 1 /\ q = b * p + s
  BY <1>1, DivMod, Divides
<1> HIDE DEF p, s
<1>3. a * b \in Nat \ {0}
  OBVIOUS
<1>4. t = (a * b) * p + (a * s + r)
  <2>1. a * q = a * (b * p) + a * s
    BY <1>1, <1>2
  <2>2. a * (b * p) = (a * b) * p
    BY <1>2
  <2> QED
    BY <1>1, <2>1, <2>2, <1>2
<1>5. a * s + r \in 0 .. (a * b) - 1
  <2>1. s \in Nat /\ b - 1 - s \in Nat
    BY <1>2
  <2>2. a * s \in Nat /\ a * (b - 1 - s) \in Nat
    BY <2>1
  <2>3. a * (b - 1 - s) = a * b - a - a * s
    BY <2>1
  <2> QED
    BY <1>1, <1>3, <2>1, <2>2, <2>3
<1>6. t \div (a * b) = p
  BY <1>2, <1>3, <1>4, <1>5, OnlyDigits
<1> QED
  BY <1>6 DEF p, q

(* The time as its counters show it: seconds, minutes, hours, days and      *)
(* rounds of the day register that have begun.                              *)
Minutes(t) == t \div SECONDS
Hours(t)   == Minutes(t) \div MINUTES
Days(t)    == Hours(t) \div HOURS
Rounds(t)  == Days(t) \div YDAYS
Shown(t, overflow) ==
  [sec |-> t % SECONDS, min |-> Minutes(t) % MINUTES, hour |-> Hours(t) % HOURS,
   yday |-> Days(t) % YDAYS, day8 |-> Rounds(t) % 2, halt |-> FALSE,
   overflow |-> overflow \/ Days(t) >= 2 * YDAYS]
(* The time since the day counter was last at the start.                    *)
Stored(r) ==
  r.sec + SECONDS * (r.min + MINUTES * (r.hour + HOURS * (r.yday + YDAYS * r.day8)))

LEMMA Splits ==
  ASSUME NEW a \in Nat, NEW b \in Nat \ {0}
  PROVE  a % b \in 0 .. b - 1 /\ a \div b \in Nat
  OBVIOUS

LEMMA CountersAreWhole ==
  ASSUME NEW t \in Nat
  PROVE  /\ Minutes(t) \in Nat /\ Hours(t) \in Nat /\ Days(t) \in Nat /\ Rounds(t) \in Nat
         /\ t % SECONDS \in 0 .. SECONDS - 1 /\ Minutes(t) % MINUTES \in 0 .. MINUTES - 1
         /\ Hours(t) % HOURS \in 0 .. HOURS - 1 /\ Days(t) % YDAYS \in 0 .. YDAYS - 1
         /\ Rounds(t) % 2 \in 0 .. 1
<1>0. /\ SECONDS \in Nat \ {0} /\ MINUTES \in Nat \ {0} /\ HOURS \in Nat \ {0}
      /\ YDAYS \in Nat \ {0}
  BY RtcAssumption
<1>1. Minutes(t) \in Nat /\ t % SECONDS \in 0 .. SECONDS - 1
  BY <1>0, Splits DEF Minutes
<1>2. Hours(t) \in Nat /\ Minutes(t) % MINUTES \in 0 .. MINUTES - 1
  BY <1>0, <1>1, Splits DEF Hours
<1>3. Days(t) \in Nat /\ Hours(t) % HOURS \in 0 .. HOURS - 1
  BY <1>0, <1>2, Splits DEF Days
<1>4. Rounds(t) \in Nat /\ Days(t) % YDAYS \in 0 .. YDAYS - 1
  BY <1>0, <1>3, Splits DEF Rounds
<1>5. Rounds(t) % 2 \in 0 .. 1
  BY <1>4
<1> QED
  BY <1>1, <1>2, <1>3, <1>4, <1>5

(* Nothing added, the counters show what was stored.                        *)
LEMMA StoredIsShown ==
  ASSUME NEW r \in Clocks, ~r.halt
  PROVE  Stored(r) \in Nat /\ Shown(Stored(r), r.overflow) = r
<1>0. /\ SECONDS \in Nat \ {0} /\ MINUTES \in Nat \ {0} /\ HOURS \in Nat \ {0}
      /\ YDAYS \in Nat \ {0}
  BY RtcAssumption
<1>1. /\ r.sec \in 0 .. SECONDS - 1 /\ r.min \in 0 .. MINUTES - 1 /\ r.hour \in 0 .. HOURS - 1
      /\ r.yday \in 0 .. YDAYS - 1 /\ r.day8 \in 0 .. 1 /\ r.overflow \in BOOLEAN
      /\ r.halt = FALSE
  BY DEF Clocks
<1> DEFINE d == YDAYS * r.day8 + r.yday
           h == HOURS * d + r.hour
           m == MINUTES * h + r.min
           t == SECONDS * m + r.sec
<1>2. d \in Nat /\ d < 2 * YDAYS
  BY <1>0, <1>1
<1>3. h \in Nat
  <2> HIDE DEF d
  <2>1. HOURS * d \in Nat
    BY <1>0, <1>2
  <2> QED
    BY <1>1, <2>1
<1>4. m \in Nat
  <2> HIDE DEF h
  <2>1. MINUTES * h \in Nat
    BY <1>0, <1>3
  <2> QED
    BY <1>1, <2>1
<1>5. t \in Nat
  <2> HIDE DEF m
  <2>1. SECONDS * m \in Nat
    BY <1>0, <1>4
  <2> QED
    BY <1>1, <2>1
<1>6. Stored(r) = t
  <2>1. d = r.yday + YDAYS * r.day8
    BY <1>0, <1>1
  <2> HIDE DEF d
  <2>2. h = r.hour + HOURS * d
    BY <1>0, <1>1, <1>2
  <2> HIDE DEF h
  <2>3. m = r.min + MINUTES * h
    BY <1>0, <1>1, <1>3
  <2> HIDE DEF m
  <2>4. t = r.sec + SECONDS * m
    BY <1>0, <1>1, <1>4
  <2> QED
    BY <2>1, <2>2, <2>3, <2>4 DEF Stored
<1>7. t \div SECONDS = m /\ t % SECONDS = r.sec
  <2>1. t = SECONDS * m + r.sec
    OBVIOUS
  <2> HIDE DEF t, m
  <2>2. t \in Int /\ m \in Int
    BY <1>4, <1>5
  <2> QED
    BY <1>0, <1>1, <2>1, <2>2, OnlyDigits
<1> HIDE DEF t
<1>8. m \div MINUTES = h /\ m % MINUTES = r.min
  <2>1. m = MINUTES * h + r.min
    OBVIOUS
  <2> HIDE DEF m, h
  <2>2. m \in Int /\ h \in Int
    BY <1>3, <1>4
  <2> QED
    BY <1>0, <1>1, <2>1, <2>2, OnlyDigits
<1> HIDE DEF m
<1>9. h \div HOURS = d /\ h % HOURS = r.hour
  <2>1. h = HOURS * d + r.hour
    OBVIOUS
  <2> HIDE DEF h, d
  <2>2. h \in Int /\ d \in Int
    BY <1>2, <1>3
  <2> QED
    BY <1>0, <1>1, <2>1, <2>2, OnlyDigits
<1> HIDE DEF h
<1>10. d \div YDAYS = r.day8 /\ d % YDAYS = r.yday
  <2>1. d = YDAYS * r.day8 + r.yday
    OBVIOUS
  <2> HIDE DEF d
  <2>2. d \in Int /\ r.day8 \in Int
    BY <1>1, <1>2
  <2> QED
    BY <1>0, <1>1, <2>1, <2>2, OnlyDigits
<1> HIDE DEF d
<1>11. r.day8 % 2 = r.day8
  BY <1>1
<1>12. /\ Minutes(t) = m /\ Hours(t) = h /\ Days(t) = d /\ Rounds(t) = r.day8
  BY <1>7, <1>8, <1>9, <1>10 DEF Minutes, Hours, Days, Rounds
<1>13. ~(Days(t) >= 2 * YDAYS)
  BY <1>0, <1>2, <1>12
<1>14. (r.overflow \/ Days(t) >= 2 * YDAYS) = r.overflow
  BY <1>1, <1>13, Zenon
<1>15. Shown(t, r.overflow) =
         [sec |-> r.sec, min |-> r.min, hour |-> r.hour, yday |-> r.yday, day8 |-> r.day8,
          halt |-> r.halt, overflow |-> r.overflow]
  BY <1>1, <1>7, <1>8, <1>9, <1>10, <1>11, <1>12, <1>14, Zenon DEF Shown
<1>16. r = [sec |-> r.sec, min |-> r.min, hour |-> r.hour, yday |-> r.yday, day8 |-> r.day8,
            halt |-> r.halt, overflow |-> r.overflow]
  BY DEF Clocks
<1> QED
  BY <1>5, <1>6, <1>15, <1>16

(* Catching up shows the time that many seconds later.                      *)
LEMMA CatchUpShows ==
  ASSUME NEW r \in Clocks, ~r.halt, NEW n \in Nat
  PROVE  CatchUp(r, n) = Shown(Stored(r) + n, r.overflow)
<1>0. /\ SECONDS \in Nat \ {0} /\ MINUTES \in Nat \ {0} /\ HOURS \in Nat \ {0}
      /\ YDAYS \in Nat \ {0}
  BY RtcAssumption
<1>1. Stored(r) \in Nat /\ Shown(Stored(r), r.overflow) = r
  BY StoredIsShown
<1>2. CASE n = 0
  BY <1>1, <1>2 DEF CatchUp
<1>3. CASE n # 0
  <2> DEFINE t == Stored(r) + n
             d == t \div (SECONDS * MINUTES * HOURS)
             over == (r.overflow \/ d >= 2 * YDAYS)
  <2>1. t \in Nat
    BY <1>1
  <2>2. t = r.sec + SECONDS * (r.min + MINUTES * (r.hour + HOURS * (r.yday + YDAYS * r.day8))) + n
    BY DEF Stored
  <2> HIDE DEF t
  <2>3. CatchUp(r, n) =
          [r EXCEPT !.sec = t % SECONDS, !.min = (t \div SECONDS) % MINUTES,
                    !.hour = (t \div (SECONDS * MINUTES)) % HOURS,
                    !.yday = d % YDAYS, !.day8 = (d \div YDAYS) % 2, !.overflow = over]
    BY <1>3, <2>2 DEF CatchUp, Clocks
  <2>4. t \div (SECONDS * MINUTES) = Hours(t)
    BY <1>0, <2>1, DivDiv DEF Hours, Minutes
  <2>5. d = Days(t)
    <3>1. SECONDS * MINUTES \in Nat \ {0}
      BY <1>0
    <3>2. t \div ((SECONDS * MINUTES) * HOURS) = (t \div (SECONDS * MINUTES)) \div HOURS
      BY <1>0, <2>1, <3>1, DivDiv
    <3> QED
      BY <2>4, <3>2 DEF Days
  <2> HIDE DEF d
  <2>6. over = (r.overflow \/ Days(t) >= 2 * YDAYS)
    BY <2>5
  <2> HIDE DEF over
  <2>7. CatchUp(r, n) = [sec |-> t % SECONDS, min |-> Minutes(t) % MINUTES,
                         hour |-> Hours(t) % HOURS, yday |-> Days(t) % YDAYS,
                         day8 |-> Rounds(t) % 2, halt |-> FALSE, overflow |-> over]
    BY <2>3, <2>4, <2>5 DEF Clocks, Minutes, Rounds
  <2> QED
    BY <2>6, <2>7, Zenon DEF Shown, t
<1> QED
  BY <1>2, <1>3

LEMMA Carries ==
  ASSUME NEW a \in Nat, NEW b \in Nat \ {0}, NEW x, x = a + 1
  PROVE  /\ (a % b) + 1 < b => x % b = (a % b) + 1 /\ x \div b = a \div b
         /\ ~((a % b) + 1 < b) => x % b = 0 /\ x \div b = a \div b + 1
  BY NextDigit

(* The day register runs over when the second round of it is full.          *)
LEMMA SecondRound ==
  ASSUME NEW b \in Nat \ {0}, NEW a \in Nat, NEW p \in Nat, NEW y \in 0 .. b - 1, a = b * p + y
  PROVE  /\ y + 1 < b => ((a + 1 >= 2 * b) <=> (a >= 2 * b))
         /\ ~(y + 1 < b) => ((a + 1 >= 2 * b) <=> (a >= 2 * b \/ p % 2 = 1))
<1>1. CASE p >= 2
  <2>1. b * p >= 2 * b
    BY <1>1
  <2> QED
    BY <2>1
<1>2. CASE p = 0
  BY <1>2
<1>3. CASE p = 1
  BY <1>3
<1> QED
  BY <1>1, <1>2, <1>3

(* A tick shows the next second: a counter that is full starts again and    *)
(* the next one moves.                                                      *)
LEMMA TickShows ==
  ASSUME NEW t \in Nat, NEW o \in BOOLEAN
  PROVE  Tick(Shown(t, o)) = Shown(t + 1, o)
<1> DEFINE n    == t + 1
           over == (o \/ Days(t) >= 2 * YDAYS)
           s == t % SECONDS
           m == Minutes(t) % MINUTES
           h == Hours(t) % HOURS
           y == Days(t) % YDAYS
           w == Rounds(t) % 2
           off == FALSE
           Face(a, b, c, d, k, v) ==
             [sec |-> a, min |-> b, hour |-> c, yday |-> d, day8 |-> k, halt |-> off,
              overflow |-> v]
<1>0. /\ SECONDS \in Nat \ {0} /\ MINUTES \in Nat \ {0} /\ HOURS \in Nat \ {0}
      /\ YDAYS \in Nat \ {0}
  BY RtcAssumption
<1>1. /\ Minutes(t) \in Nat /\ Hours(t) \in Nat /\ Days(t) \in Nat /\ Rounds(t) \in Nat
      /\ y \in 0 .. YDAYS - 1
  BY CountersAreWhole
<1>2. Shown(t, o) = Face(s, m, h, y, w, over)
  BY DEF Shown
<1>3. Shown(n, o) = Face(n % SECONDS, Minutes(n) % MINUTES, Hours(n) % HOURS, Days(n) % YDAYS,
                         Rounds(n) % 2, o \/ Days(n) >= 2 * YDAYS)
  BY DEF Shown
<1>4. n = t + 1
  OBVIOUS
<1>5. IF s + 1 < SECONDS THEN n % SECONDS = s + 1 /\ Minutes(n) = Minutes(t)
                         ELSE n % SECONDS = 0 /\ Minutes(n) = Minutes(t) + 1
  BY <1>0, <1>4, Carries DEF Minutes
<1> HIDE DEF n
<1>6. Minutes(n) = Minutes(t) + 1 =>
        IF m + 1 < MINUTES THEN Minutes(n) % MINUTES = m + 1 /\ Hours(n) = Hours(t)
                           ELSE Minutes(n) % MINUTES = 0 /\ Hours(n) = Hours(t) + 1
  <2> SUFFICES ASSUME Minutes(n) = Minutes(t) + 1
               PROVE  /\ m + 1 < MINUTES => Minutes(n) % MINUTES = m + 1 /\ Hours(n) = Hours(t)
                      /\ ~(m + 1 < MINUTES) => Minutes(n) % MINUTES = 0 /\ Hours(n) = Hours(t) + 1
    OBVIOUS
  <2>1. \A x : x = Minutes(t) + 1 =>
          /\ (Minutes(t) % MINUTES) + 1 < MINUTES =>
               x % MINUTES = (Minutes(t) % MINUTES) + 1 /\ x \div MINUTES = Minutes(t) \div MINUTES
          /\ ~((Minutes(t) % MINUTES) + 1 < MINUTES) =>
               x % MINUTES = 0 /\ x \div MINUTES = Minutes(t) \div MINUTES + 1
    BY <1>0, <1>1, Carries
  <2> QED
    BY <2>1 DEF Hours
<1>7. Hours(n) = Hours(t) + 1 =>
        IF h + 1 < HOURS THEN Hours(n) % HOURS = h + 1 /\ Days(n) = Days(t)
                         ELSE Hours(n) % HOURS = 0 /\ Days(n) = Days(t) + 1
  <2> SUFFICES ASSUME Hours(n) = Hours(t) + 1
               PROVE  /\ h + 1 < HOURS => Hours(n) % HOURS = h + 1 /\ Days(n) = Days(t)
                      /\ ~(h + 1 < HOURS) => Hours(n) % HOURS = 0 /\ Days(n) = Days(t) + 1
    OBVIOUS
  <2>1. \A x : x = Hours(t) + 1 =>
          /\ (Hours(t) % HOURS) + 1 < HOURS =>
               x % HOURS = (Hours(t) % HOURS) + 1 /\ x \div HOURS = Hours(t) \div HOURS
          /\ ~((Hours(t) % HOURS) + 1 < HOURS) =>
               x % HOURS = 0 /\ x \div HOURS = Hours(t) \div HOURS + 1
    BY <1>0, <1>1, Carries
  <2> QED
    BY <2>1 DEF Days
<1>8. Days(n) = Days(t) + 1 =>
        IF y + 1 < YDAYS THEN Days(n) % YDAYS = y + 1 /\ Rounds(n) = Rounds(t)
                         ELSE Days(n) % YDAYS = 0 /\ Rounds(n) = Rounds(t) + 1
  <2> SUFFICES ASSUME Days(n) = Days(t) + 1
               PROVE  /\ y + 1 < YDAYS => Days(n) % YDAYS = y + 1 /\ Rounds(n) = Rounds(t)
                      /\ ~(y + 1 < YDAYS) => Days(n) % YDAYS = 0 /\ Rounds(n) = Rounds(t) + 1
    OBVIOUS
  <2>1. \A x : x = Days(t) + 1 =>
          /\ (Days(t) % YDAYS) + 1 < YDAYS =>
               x % YDAYS = (Days(t) % YDAYS) + 1 /\ x \div YDAYS = Days(t) \div YDAYS
          /\ ~((Days(t) % YDAYS) + 1 < YDAYS) =>
               x % YDAYS = 0 /\ x \div YDAYS = Days(t) \div YDAYS + 1
    BY <1>0, <1>1, Carries
  <2> QED
    BY <2>1 DEF Rounds
<1>9. /\ Minutes(n) = Minutes(t) => Minutes(n) % MINUTES = m /\ Hours(n) = Hours(t)
      /\ Hours(n) = Hours(t) => Hours(n) % HOURS = h /\ Days(n) = Days(t)
      /\ Days(n) = Days(t) => Days(n) % YDAYS = y /\ Rounds(n) = Rounds(t)
      /\ Rounds(n) = Rounds(t) => Rounds(n) % 2 = w
  BY DEF Hours, Days, Rounds
<1>10. Rounds(n) = Rounds(t) + 1 => Rounds(n) % 2 = 1 - w
  BY <1>1
<1>11. Days(n) = Days(t) => (o \/ Days(n) >= 2 * YDAYS) = over
  OBVIOUS
<1>12. Days(n) = Days(t) + 1 =>
         /\ y + 1 < YDAYS => (o \/ Days(n) >= 2 * YDAYS) = over
         /\ ~(y + 1 < YDAYS) => (o \/ Days(n) >= 2 * YDAYS) = (over \/ w = 1)
  <2> SUFFICES ASSUME Days(n) = Days(t) + 1
               PROVE  /\ y + 1 < YDAYS => (o \/ Days(n) >= 2 * YDAYS) = over
                      /\ ~(y + 1 < YDAYS) => (o \/ Days(n) >= 2 * YDAYS) = (over \/ w = 1)
    OBVIOUS
  <2>1. Days(t) = YDAYS * Rounds(t) + y
    <3>1. Days(t) \in Int
      BY <1>1
    <3> QED
      BY <1>0, <3>1, DivMod DEF Rounds
  <2> HIDE DEF y
  <2>2. /\ y + 1 < YDAYS => ((Days(t) + 1 >= 2 * YDAYS) <=> (Days(t) >= 2 * YDAYS))
        /\ ~(y + 1 < YDAYS) => ((Days(t) + 1 >= 2 * YDAYS) <=>
                                  (Days(t) >= 2 * YDAYS \/ Rounds(t) % 2 = 1))
    BY <1>0, <1>1, <2>1, SecondRound
  <2>3. y + 1 < YDAYS => (o \/ Days(n) >= 2 * YDAYS) = over
    BY <2>2, Zenon
  <2>4. ~(y + 1 < YDAYS) => (o \/ Days(n) >= 2 * YDAYS) = (over \/ w = 1)
    BY <2>2, Zenon
  <2> QED
    BY <2>3, <2>4
<1> DEFINE later == (o \/ Days(n) >= 2 * YDAYS)
<1>13. Shown(n, o) = Face(n % SECONDS, Minutes(n) % MINUTES, Hours(n) % HOURS, Days(n) % YDAYS,
                          Rounds(n) % 2, later)
  BY <1>3
<1>14. /\ Days(n) = Days(t) => later = over
       /\ Days(n) = Days(t) + 1 => /\ y + 1 < YDAYS => later = over
                                   /\ ~(y + 1 < YDAYS) => later = (over \/ w = 1)
  BY <1>11, <1>12
<1>21. ~off
  OBVIOUS
<1> HIDE DEF over, later, s, m, h, y, w, off
<1>20. \A a, b, c, d, k, v, x :
         /\ [Face(a, b, c, d, k, v) EXCEPT !.sec = x] = Face(x, b, c, d, k, v)
         /\ [Face(a, b, c, d, k, v) EXCEPT !.min = x] = Face(a, x, c, d, k, v)
         /\ [Face(a, b, c, d, k, v) EXCEPT !.hour = x] = Face(a, b, x, d, k, v)
  OBVIOUS
<1>19. ~(s + 1 < SECONDS) /\ ~(m + 1 < MINUTES) =>
         Tick(Face(s, m, h, y, w, over)) = TickHour(Face(0, 0, h, y, w, over))
  <2> SUFFICES ASSUME ~(s + 1 < SECONDS), ~(m + 1 < MINUTES)
               PROVE  Tick(Face(s, m, h, y, w, over)) = TickHour(Face(0, 0, h, y, w, over))
    OBVIOUS
  <2>1. Tick(Face(s, m, h, y, w, over)) = TickMinute([Face(s, m, h, y, w, over) EXCEPT !.sec = 0])
    BY <1>21 DEF Tick
  <2>2. [Face(s, m, h, y, w, over) EXCEPT !.sec = 0] = Face(0, m, h, y, w, over)
    BY <1>20
  <2>3. TickMinute(Face(0, m, h, y, w, over)) = TickHour([Face(0, m, h, y, w, over) EXCEPT !.min = 0])
    BY DEF TickMinute
  <2>4. [Face(0, m, h, y, w, over) EXCEPT !.min = 0] = Face(0, 0, h, y, w, over)
    BY <1>20
  <2> HIDE DEF Face
  <2> QED
    BY <2>1, <2>2, <2>3, <2>4
<1>15. CASE s + 1 < SECONDS
  <2>1. Shown(n, o) = Face(s + 1, m, h, y, w, over)
    BY <1>5, <1>9, <1>13, <1>14, <1>15
  <2>2. Tick(Face(s, m, h, y, w, over)) = Face(s + 1, m, h, y, w, over)
    BY <1>15, <1>21 DEF Tick
  <2> QED
    BY <1>2, <2>1, <2>2 DEF n
<1>16. CASE ~(s + 1 < SECONDS) /\ m + 1 < MINUTES
  <2>1. Shown(n, o) = Face(0, m + 1, h, y, w, over)
    BY <1>5, <1>6, <1>9, <1>13, <1>14, <1>16
  <2>2. Tick(Face(s, m, h, y, w, over)) = Face(0, m + 1, h, y, w, over)
    BY <1>16, <1>21 DEF Tick, TickMinute
  <2> QED
    BY <1>2, <2>1, <2>2 DEF n
<1>17. CASE ~(s + 1 < SECONDS) /\ ~(m + 1 < MINUTES) /\ h + 1 < HOURS
  <2>1. Shown(n, o) = Face(0, 0, h + 1, y, w, over)
    BY <1>5, <1>6, <1>7, <1>9, <1>13, <1>14, <1>17
  <2>2. Tick(Face(s, m, h, y, w, over)) = Face(0, 0, h + 1, y, w, over)
    <3>1. Tick(Face(s, m, h, y, w, over)) = TickHour(Face(0, 0, h, y, w, over))
      BY <1>17, <1>19
    <3> QED
      BY <1>17, <3>1 DEF TickHour
  <2> QED
    BY <1>2, <2>1, <2>2 DEF n
<1>18. CASE ~(s + 1 < SECONDS) /\ ~(m + 1 < MINUTES) /\ ~(h + 1 < HOURS)
  <2>1. Tick(Face(s, m, h, y, w, over)) = TickDay(Face(0, 0, 0, y, w, over))
    <3>1. Tick(Face(s, m, h, y, w, over)) = TickHour(Face(0, 0, h, y, w, over))
      BY <1>18, <1>19
    <3>2. TickHour(Face(0, 0, h, y, w, over)) = TickDay([Face(0, 0, h, y, w, over) EXCEPT !.hour = 0])
      BY <1>18, Zenon DEF TickHour
    <3>3. [Face(0, 0, h, y, w, over) EXCEPT !.hour = 0] = Face(0, 0, 0, y, w, over)
      BY <1>20
    <3> QED
      BY <3>1, <3>2, <3>3
  <2>2. Days(n) = Days(t) + 1
    BY <1>5, <1>6, <1>7, <1>18
  <2>3. n % SECONDS = 0 /\ Minutes(n) % MINUTES = 0 /\ Hours(n) % HOURS = 0
    BY <1>5, <1>6, <1>7, <1>18
  <2>4. CASE y + 1 < YDAYS
    <3>1. Shown(n, o) = Face(0, 0, 0, y + 1, w, over)
      BY <1>8, <1>9, <1>13, <1>14, <2>2, <2>3, <2>4
    <3>2. TickDay(Face(0, 0, 0, y, w, over)) = Face(0, 0, 0, y + 1, w, over)
      BY <2>4 DEF TickDay
    <3> QED
      BY <1>2, <2>1, <3>1, <3>2 DEF n
  <2>5. CASE ~(y + 1 < YDAYS)
    <3> DEFINE full == (over \/ w = 1)
    <3>1. later = full
      BY <1>14, <2>2, <2>5
    <3>2. Days(n) % YDAYS = 0 /\ Rounds(n) % 2 = 1 - w
      BY <1>8, <1>10, <2>2, <2>5
    <3>3. TickDay(Face(0, 0, 0, y, w, over))
            = [Face(0, 0, 0, y, w, over) EXCEPT !.yday = 0, !.day8 = 1 - @, !.overflow = full]
      BY <2>5 DEF TickDay
    <3> HIDE DEF full
    <3>4. TickDay(Face(0, 0, 0, y, w, over)) = Face(0, 0, 0, 0, 1 - w, full)
      BY <3>3
    <3>5. Shown(n, o) = Face(0, 0, 0, 0, 1 - w, full)
      BY <1>13, <2>3, <3>1, <3>2
    <3> QED
      BY <1>2, <2>1, <3>4, <3>5 DEF n
  <2> QED
    BY <2>4, <2>5
<1> QED
  BY <1>15, <1>16, <1>17, <1>18

(* One second more is one tick more.                                        *)
LEMMA CatchUpTicks ==
  ASSUME NEW r \in Clocks, NEW n \in Nat
  PROVE  CatchUp(r, n + 1) = Tick(CatchUp(r, n))
<1>1. CASE r.halt
  BY <1>1 DEF CatchUp, Tick
<1>2. CASE ~r.halt
  <2>1. Stored(r) \in Nat /\ r.overflow \in BOOLEAN
    BY <1>2, StoredIsShown DEF Clocks
  <2>2. n + 1 \in Nat /\ Stored(r) + n \in Nat /\ Stored(r) + (n + 1) = (Stored(r) + n) + 1
    BY <2>1
  <2>3. CatchUp(r, n + 1) = Shown((Stored(r) + n) + 1, r.overflow)
    BY <1>2, <2>2, CatchUpShows
  <2>4. CatchUp(r, n) = Shown(Stored(r) + n, r.overflow)
    BY <1>2, CatchUpShows
  <2> QED
    BY <2>1, <2>2, <2>3, <2>4, TickShows
<1> QED
  BY <1>1, <1>2

(* The clock of the history ticks as often as the core catches up.          *)
LEMMA TickedIsCaughtUp ==
  ASSUME NEW r \in Clocks, NEW n \in Nat
  PROVE  Ticked(r, n) = CatchUp(r, n)
<1> DEFINE Body(f) == [k \in 0..n |-> IF k = 0 THEN r ELSE Tick(f[k - 1])]
           t == CHOOSE f : f = Body(f)
           g == [k \in 0..n |-> CatchUp(r, k)]
           T == {k \in 0..n : t[k] # CatchUp(r, k)}
<1>1. Ticked(r, n) = t[n]
  BY Zenon DEF Ticked
<1>2. \E f : f = Body(f)
  <2>1. ASSUME NEW k \in 0..n PROVE CatchUp(r, k) = IF k = 0 THEN r ELSE Tick(g[k - 1])
    <3>1. CASE k = 0
      BY <3>1 DEF CatchUp
    <3>2. CASE k # 0
      <4>1. k - 1 \in Nat /\ k - 1 \in 0..n /\ (k - 1) + 1 = k
        BY <3>2
      <4>2. CatchUp(r, k) = Tick(CatchUp(r, k - 1))
        BY <4>1, CatchUpTicks
      <4> QED
        BY <3>2, <4>1, <4>2
    <3> QED
      BY <3>1, <3>2
  <2>2. g = Body(g)
    BY <2>1
  <2> QED
    BY <2>2, Zenon
<1>3. t = Body(t)
  BY <1>2, Zenon
<1> HIDE DEF t
<1>4. \A k \in 0..n : t[k] = IF k = 0 THEN r ELSE Tick(t[k - 1])
  BY <1>3
<1>5. ASSUME T # {} PROVE FALSE
  <2>1. T \in SUBSET Nat
    OBVIOUS
  <2>2. PICK m \in T : \A k \in T : ~(<<k, m>> \in OpToRel(<, Nat))
    BY <1>5, <2>1, WFMin, NatLessThanWellFounded, Zenon
  <2>3. m \in 0..n /\ t[m] # CatchUp(r, m)
    BY <2>2
  <2>4. CASE m = 0
    BY <1>4, <2>3, <2>4 DEF CatchUp
  <2>5. CASE m # 0
    <3>1. m - 1 \in 0..n /\ m - 1 \in Nat /\ (m - 1) + 1 = m
      BY <2>3, <2>5
    <3>2. m - 1 \notin T
      <4>1. <<m - 1, m>> \in Nat \X Nat /\ <<m - 1, m>>[1] < <<m - 1, m>>[2]
        BY <3>1
      <4>2. <<m - 1, m>> \in {ss \in Nat \X Nat : ss[1] < ss[2]}
        BY <4>1
      <4>3. <<m - 1, m>> \in OpToRel(<, Nat)
        BY <4>2, Zenon DEF OpToRel
      <4> QED
        BY <2>2, <4>3, Zenon
    <3>3. t[m - 1] = CatchUp(r, m - 1)
      BY <3>1, <3>2
    <3>4. t[m] = Tick(t[m - 1])
      BY <1>4, <2>3, <2>5
    <3>5. CatchUp(r, m) = Tick(CatchUp(r, m - 1))
      BY <3>1, CatchUpTicks
    <3> QED
      BY <2>3, <3>3, <3>4, <3>5
  <2> QED
    BY <2>4, <2>5
<1>6. n \in 0..n
  OBVIOUS
<1>7. t[n] = CatchUp(r, n)
  BY <1>5, <1>6
<1> QED
  BY <1>1, <1>7

----------------------------------------------------------------------------
(* The game sees the time.                                                  *)

(* With what has not been looked at yet, the cartridge's clock is the ideal *)
(* one; and while it runs, the same part of a second has gone by.           *)
TimeInv ==
  /\ ideal \in [clock : Clocks, part : Nat]
  /\ cart.h.rtc => /\ CatchUp(cart.rtc, lag \div UNIT) = ideal.clock
                   /\ ~cart.rtc.halt => ideal.part = lag % UNIT

LEMMA CatchUpKeepsHalt ==
  ASSUME NEW r \in Clocks, NEW n \in Nat
  PROVE  CatchUp(r, 0) = r /\ CatchUp(r, n).halt = r.halt
  BY DEF CatchUp, Clocks

LEMMA TimeIsTyped ==
  ASSUME IInv, TypeInv
  PROVE  /\ UNIT \in Nat \ {0} /\ lag \in Nat /\ lag % UNIT \in Nat /\ lag \div UNIT \in Nat
         /\ (lag % UNIT) \div UNIT = 0 /\ (lag % UNIT) % UNIT = lag % UNIT
         /\ 0 \div UNIT = 0 /\ 0 % UNIT = 0
         /\ cart.rtc \in Clocks /\ Synced.cart.rtc \in Clocks
<1>1. UNIT \in Nat \ {0} /\ lag \in Nat /\ cart.rtc \in Clocks
  BY EmulatorAssumption DEF TypeInv, TypeOK
<1>2. lag % UNIT \in 0 .. UNIT - 1 /\ lag \div UNIT \in Nat
  BY <1>1, Splits
<1>3. \A a \in 0 .. UNIT - 1 : a \div UNIT = 0 /\ a % UNIT = a
  <2> SUFFICES ASSUME NEW a \in 0 .. UNIT - 1 PROVE a \div UNIT = 0 /\ a % UNIT = a
    OBVIOUS
  <2>1. a = UNIT * 0 + a /\ a \in Int /\ 0 \in Int
    BY <1>1
  <2> QED
    BY <1>1, <2>1, OnlyDigits
<1>4. 0 \in 0 .. UNIT - 1
  BY <1>1
<1> QED
  BY <1>1, <1>2, <1>3, <1>4, SyncsTyped

(* A look at the clock brings the cartridge to the ideal time.              *)
LEMMA LookShowsIdeal ==
  ASSUME IInv, TypeInv, TimeInv, cart.h.rtc
  PROVE  /\ Synced.cart.rtc = ideal.clock
         /\ CatchUp(Synced.cart.rtc, Synced.lag \div UNIT) = Synced.cart.rtc
         /\ Synced.cart.rtc.halt = cart.rtc.halt
         /\ cart.rtc.halt => Synced.lag = 0
         /\ ~cart.rtc.halt => ideal.part = Synced.lag % UNIT
         /\ ideal.clock.halt = cart.rtc.halt
<1> DEFINE r == CatchUp(cart.rtc, lag \div UNIT)
<1>1. /\ lag \div UNIT \in Nat /\ (lag % UNIT) \div UNIT = 0 /\ (lag % UNIT) % UNIT = lag % UNIT
      /\ 0 \div UNIT = 0 /\ cart.rtc \in Clocks /\ Synced.cart.rtc \in Clocks
  BY TimeIsTyped
<1>2. r = ideal.clock /\ (~cart.rtc.halt => ideal.part = lag % UNIT)
  BY DEF TimeInv
<1>3. r.halt = cart.rtc.halt
  BY <1>1, CatchUpKeepsHalt
<1>4. cart.rtc.halt => r = cart.rtc
  BY DEF CatchUp
<1>5. [cart EXCEPT !.rtc = CatchUp(@, lag \div UNIT)].rtc = r
  BY DEF IInv, Legal, Sound, Parts
<1> HIDE DEF r
<1>6. Synced.cart.rtc = r /\ Synced.lag = IF cart.rtc.halt THEN 0 ELSE lag % UNIT
  BY <1>4, <1>5 DEF Synced
<1>7. Synced.lag \div UNIT = 0
  BY <1>1, <1>6
<1>8. CatchUp(Synced.cart.rtc, 0) = Synced.cart.rtc
  BY <1>1, CatchUpKeepsHalt
<1> QED
  BY <1>1, <1>2, <1>3, <1>6, <1>7, <1>8

LEMMA InitTimeInv == Init => TimeInv
<1> SUFFICES ASSUME Init PROVE TimeInv
  OBVIOUS
<1>1. IInv /\ TypeInv
  BY InitIInv, InitTypeInv
<1>2. lag = 0 /\ ideal = [clock |-> cart.rtc, part |-> 0]
  BY DEF Init, Showing
<1>3. cart.rtc \in Clocks /\ 0 \div UNIT = 0 /\ 0 % UNIT = 0
  BY <1>1, TimeIsTyped
<1>4. CatchUp(cart.rtc, 0) = cart.rtc
  BY <1>3, CatchUpKeepsHalt
<1> QED
  BY <1>2, <1>3, <1>4 DEF TimeInv

LEMMA ElapseKeepsTime ==
  ASSUME IInv, TypeInv, TimeInv, Elapse
  PROVE  TimeInv'
<1>1. cart.h.rtc /\ lag' = lag + 1 /\ cart' = cart
  BY DEF Elapse
<1>2. UNIT \in Nat \ {0} /\ lag \in Nat /\ lag \div UNIT \in Nat /\ cart.rtc \in Clocks
  BY TimeIsTyped
<1>3. /\ CatchUp(cart.rtc, lag \div UNIT) = ideal.clock /\ ideal.clock.halt = cart.rtc.halt
      /\ ~cart.rtc.halt => ideal.part = lag % UNIT
      /\ ideal \in [clock : Clocks, part : Nat]
  BY <1>1, LookShowsIdeal DEF TimeInv
<1>4. /\ (lag % UNIT) + 1 < UNIT => (lag + 1) % UNIT = (lag % UNIT) + 1
                                     /\ (lag + 1) \div UNIT = lag \div UNIT
      /\ ~((lag % UNIT) + 1 < UNIT) => (lag + 1) % UNIT = 0
                                        /\ (lag + 1) \div UNIT = lag \div UNIT + 1
  BY <1>2, NextDigit
<1>5. lag % UNIT \in 0 .. UNIT - 1
  BY <1>2, Splits
<1>6. CASE cart.rtc.halt
  <2>1. ideal' = ideal
    BY <1>3, <1>6 DEF Elapse
  <2>2. CatchUp(cart.rtc, (lag + 1) \div UNIT) = cart.rtc /\ ideal.clock = cart.rtc
    BY <1>3, <1>6 DEF CatchUp
  <2> QED
    BY <1>1, <1>3, <1>6, <2>1, <2>2 DEF TimeInv
<1>7. CASE ~cart.rtc.halt /\ ideal.part + 1 = UNIT
  <2>1. ideal' = [clock |-> Tick(ideal.clock), part |-> 0]
    BY <1>3, <1>7 DEF Elapse, Showing
  <2>2. (lag + 1) % UNIT = 0 /\ (lag + 1) \div UNIT = lag \div UNIT + 1
    BY <1>2, <1>3, <1>4, <1>5, <1>7
  <2>3. CatchUp(cart.rtc, lag \div UNIT + 1) = Tick(ideal.clock)
    BY <1>2, <1>3, CatchUpTicks
  <2>4. CatchUp(cart.rtc, lag \div UNIT + 1) \in Clocks
    BY <1>2, ClockCaughtUp
  <2> QED
    BY <1>1, <2>1, <2>2, <2>3, <2>4 DEF TimeInv
<1>8. CASE ~cart.rtc.halt /\ ideal.part + 1 # UNIT
  <2>1. ideal' = [ideal EXCEPT !.part = @ + 1]
    BY <1>3, <1>8 DEF Elapse
  <2>2. ideal' \in [clock : Clocks, part : Nat] /\ ideal'.clock = ideal.clock
        /\ ideal'.part = ideal.part + 1
    BY <1>3, <2>1
  <2>3. (lag + 1) % UNIT = (lag % UNIT) + 1 /\ (lag + 1) \div UNIT = lag \div UNIT
    BY <1>2, <1>3, <1>4, <1>5, <1>8
  <2> QED
    BY <1>1, <1>3, <1>8, <2>2, <2>3 DEF TimeInv
<1> QED
  BY <1>6, <1>7, <1>8

LEMMA FramesKeepTime ==
  ASSUME IInv, TypeInv, TimeInv, NEW c, Ran(c), c.rtc \in Clocks, c.h = cart.h
  PROVE  TimeInv'
<1>1. cart' = c /\ lag' = Synced.lag
  BY DEF Ran
<1>2. ideal \in [clock : Clocks, part : Nat]
  BY DEF TimeInv
<1>3. ideal' \in {[clock |-> c.rtc, part |-> 0], [ideal EXCEPT !.clock = c.rtc], ideal}
  BY DEF Ran, Showing
<1>4. ideal' \in [clock : Clocks, part : Nat]
  BY <1>2, <1>3
<1>5. ASSUME cart.h.rtc PROVE /\ CatchUp(c.rtc, Synced.lag \div UNIT) = ideal'.clock
                              /\ ~c.rtc.halt => ideal'.part = Synced.lag % UNIT
  <2>1. /\ Synced.cart.rtc = ideal.clock
        /\ cart.rtc.halt => Synced.lag = 0
        /\ ~cart.rtc.halt => ideal.part = Synced.lag % UNIT
    BY <1>5, LookShowsIdeal
  <2>2. 0 \div UNIT = 0 /\ 0 % UNIT = 0 /\ (lag % UNIT) \div UNIT = 0
    BY TimeIsTyped
  <2>3. Synced.lag \div UNIT = 0
    BY <1>5, <2>1, <2>2 DEF Synced
  <2>4. CatchUp(c.rtc, 0) = c.rtc
    BY CatchUpKeepsHalt
  <2>5. CASE cart.rtc.halt
    <3>1. ideal' = [clock |-> c.rtc, part |-> 0]
      BY <2>5 DEF Ran, Showing
    <3> QED
      BY <2>1, <2>2, <2>3, <2>4, <2>5, <3>1
  <2>6. CASE ~cart.rtc.halt
    <3>1. ideal'.clock = c.rtc /\ ideal'.part = ideal.part
      <4>1. CASE c.rtc # Synced.cart.rtc
        BY <1>2, <2>6, <4>1 DEF Ran
      <4>2. CASE c.rtc = Synced.cart.rtc
        BY <2>1, <2>6, <4>2 DEF Ran
      <4> QED
        BY <4>1, <4>2
    <3> QED
      BY <2>1, <2>3, <2>4, <2>6, <3>1
  <2> QED
    BY <2>5, <2>6
<1> QED
  BY <1>1, <1>4, <1>5 DEF TimeInv

(* A call that looks at the clock and nothing more.                         *)
LEMMA LooksKeepTime ==
  ASSUME IInv, TypeInv, TimeInv, cart'.rtc = Synced.cart.rtc, cart'.h = cart.h,
         lag' = Synced.lag, ideal' = ideal
  PROVE  TimeInv'
<1>1. cart.h.rtc => /\ CatchUp(cart'.rtc, lag' \div UNIT) = ideal'.clock
                    /\ ~cart'.rtc.halt => ideal'.part = lag' % UNIT
  BY LookShowsIdeal
<1> QED
  BY <1>1 DEF TimeInv

(* A call that starts a second of its own.                                  *)
LEMMA FreshSecond ==
  ASSUME IInv, TypeInv, TimeInv, NEW r \in Clocks, cart'.h = cart.h,
         ideal' = [clock |-> r, part |-> 0], cart.h.rtc => cart'.rtc = r /\ lag' = 0
  PROVE  TimeInv'
<1>1. 0 \div UNIT = 0 /\ 0 % UNIT = 0 /\ CatchUp(r, 0) = r
  BY TimeIsTyped, CatchUpKeepsHalt
<1> QED
  BY <1>1 DEF TimeInv

LEMMA TimeStands ==
  ASSUME TimeInv, UNCHANGED <<cart, lag, ideal>>
  PROVE  TimeInv'
  BY DEF TimeInv

LEMMA NextTimeInv ==
  ASSUME BytesFit, IInv, TypeInv, TimeInv, [Next]_vars
  PROVE  TimeInv'
<1>1. cart'.h = cart.h /\ cart'.rtc \in Clocks
  BY HeaderStays, ClocksTyped
<1>2. \A c : Ran(c) => c = cart'
  BY DEF Ran
<1>3. ASSUME NEW c, Ran(c) PROVE TimeInv'
  BY <1>1, <1>2, <1>3, FramesKeepTime
<1>4. CASE FrameStore \/ FrameRam \/ FrameCommand \/ FrameBit \/ FrameGivesUp
  BY <1>3, <1>4 DEF FrameStore, FrameRam, FrameCommand, FrameBit, FrameGivesUp
<1>5. CASE UNCHANGED <<cart, lag, ideal>>
  BY <1>5, TimeStands
<1>6. CASE Elapse
  BY <1>6, ElapseKeepsTime
<1>7. CASE FrameFails
  <2>1. CASE cart' = Synced.cart /\ lag' = Synced.lag
    BY <1>1, <1>7, <2>1, LooksKeepTime DEF FrameFails
  <2> QED
    BY <1>5, <1>7, <2>1 DEF FrameFails
<1>8. CASE Save
  BY <1>1, <1>8, LooksKeepTime DEF Save
<1>9. CASE Persist
  <2>1. cart' = Synced.cart \/ cart' = [Synced.cart EXCEPT !.updated = FALSE]
    BY <1>9 DEF Persist
  <2>2. cart'.rtc = Synced.cart.rtc
    BY <2>1, Syncs DEF IInv, Becomes, Legal, Sound, Parts
  <2> QED
    BY <1>1, <1>9, <2>2, LooksKeepTime DEF Persist
<1>10. CASE ResetGame
  <2>1. cart'.rtc = Synced.cart.rtc
    BY <1>10, Syncs, ResetKeeps DEF ResetGame, IInv, Becomes, Legal, Alike
  <2>2. ideal.clock \in Clocks
    BY DEF TimeInv
  <2>3. cart.h.rtc => cart'.rtc = ideal.clock
    BY <2>1, LookShowsIdeal
  <2>4. lag' = 0 /\ ideal' = [clock |-> ideal.clock, part |-> 0]
    BY <1>10 DEF ResetGame, Showing
  <2> QED
    BY <1>1, <2>2, <2>3, <2>4, FreshSecond
<1>11. CASE Load
  <2>1. PICK b : /\ LoadState(b) /\ b.cart = snapshot.cart
                 /\ b.kind \in {"wrapped", "core_only", "raw"}
    BY <1>11 DEF Load
  <2>2. CASE Ready /\ Accepted(b) /\ CoreTakes(b)
    <3>1. Imports(b)
      BY <2>1, <2>2 DEF Accepted, Imports
    <3>2. /\ cart' = CachedRam(CachedRom(snapshot.cart)) /\ lag' = 0
          /\ ideal' = [clock |-> snapshot.cart.rtc, part |-> 0]
      BY <2>1, <2>2, <3>1 DEF LoadState, Loaded, Showing
    <3>3. Legal(snapshot.cart) /\ snapshot.cart.rtc \in Clocks
      BY <1>11 DEF Load, IInv, SnapshotInv, TypeInv
    <3>4. cart'.rtc = snapshot.cart.rtc
      BY <3>2, <3>3, BothCached DEF Legal, Alike
    <3> QED
      BY <1>1, <3>2, <3>3, <3>4, FreshSecond
  <2>3. CASE ~(Ready /\ Accepted(b) /\ CoreTakes(b))
    BY <1>5, <2>1, <2>3 DEF LoadState, Refuse
  <2> QED
    BY <2>2, <2>3
<1>12. CASE Import
  <2>1. CASE Refuse("refused")
    BY <1>5, <2>1 DEF Refuse
  <2>2. CASE ~Refuse("refused")
    <3>1. PICK age \in Ages, legacy \in BOOLEAN :
            LET rtc == IF legacy \/ age < 0 THEN image.rtc ELSE CatchUp(image.rtc, age)
            IN  /\ cart' = [cart EXCEPT !.ram = image.ram, !.updated = FALSE,
                                        !.rtc = IF cart.h.rtc THEN rtc ELSE @,
                                        !.latched = IF cart.h.rtc THEN rtc ELSE @]
                /\ ideal' = IF ~cart.h.rtc THEN ideal
                            ELSE Showing(Ticked(image.rtc, IF legacy \/ age < 0 THEN 0 ELSE age))
                /\ lag' = 0
      BY <1>12, <2>2 DEF Import
    <3> DEFINE rtc == IF legacy \/ age < 0 THEN image.rtc ELSE CatchUp(image.rtc, age)
               n == IF legacy \/ age < 0 THEN 0 ELSE age
    <3>2. /\ cart' = [cart EXCEPT !.ram = image.ram, !.updated = FALSE,
                                  !.rtc = IF cart.h.rtc THEN rtc ELSE @,
                                  !.latched = IF cart.h.rtc THEN rtc ELSE @]
          /\ ideal' = IF ~cart.h.rtc THEN ideal ELSE Showing(Ticked(image.rtc, n))
          /\ lag' = 0
      BY <3>1
    <3>3. image.rtc \in Clocks /\ age \in Int
      BY <1>12, EmulatorAssumption DEF Import, TypeInv
    <3>4. n \in Nat /\ rtc = CatchUp(image.rtc, n) /\ rtc \in Clocks
      BY <3>3, CatchUpKeepsHalt, ClockCaughtUp
    <3>5. Ticked(image.rtc, n) = rtc
      BY <3>3, <3>4, TickedIsCaughtUp
    <3> HIDE DEF rtc, n
    <3>6. CASE cart.h.rtc
      <4>1. cart'.rtc = rtc
        BY <3>2, <3>6 DEF IInv, Legal, Sound, Parts
      <4>2. ideal' = [clock |-> rtc, part |-> 0]
        BY <3>2, <3>5, <3>6 DEF Showing
      <4> QED
        BY <1>1, <3>2, <3>4, <4>1, <4>2, FreshSecond
    <3>7. CASE ~cart.h.rtc
      <4>1. ideal' = ideal
        BY <3>2, <3>7
      <4> QED
        BY <1>1, <3>7, <4>1 DEF TimeInv
    <3> QED
      BY <3>6, <3>7
  <2> QED
    BY <2>1, <2>2
<1> QED
  BY <1>4, <1>5, <1>6, <1>7, <1>8, <1>9, <1>10, <1>11, <1>12 DEF Next, vars

(* sync_rtc and gb_catch_up_rtc_direct: however rarely the emulator looks   *)
(* at the clock, the game sees what a clock that ticks every second shows.  *)
THEOREM TimeIsKept == ASSUME BytesFit PROVE Spec => []RtcKeepsTime
<1>1. IInv /\ TypeInv /\ [Next]_vars => TypeInv'
  BY NextTypeInv
<1>2. IInv /\ TypeInv /\ TimeInv /\ [Next]_vars => TimeInv'
  BY NextTimeInv
<1>3. TimeInv => RtcKeepsTime
  BY DEF TimeInv, RtcKeepsTime
<1>4. Spec => []TypeInv
  BY <1>1, InitTypeInv, GameInvariant, PTL DEF Spec
<1>5. Spec => []TimeInv
  BY <1>2, <1>4, InitTimeInv, GameInvariant, PTL DEF Spec
<1> QED
  BY <1>3, <1>5, PTL

=============================================================================
