------------------------------- MODULE MCCart -------------------------------
(* Six cartridges: one of each controller, and the multicart MBC1.            *)
EXTENDS Emulator

Header(mbc, mbc1m, rtc, rom, ram) ==
    [mbc |-> mbc, mbc1m |-> mbc1m, cart_ram |-> TRUE, rtc |-> rtc,
     rom_banks |-> rom, ram_banks |-> ram]
MCHeaders ==
    {Header(1, FALSE, FALSE, 128, 3), Header(1, TRUE, FALSE, 64, 1), Header(2, FALSE, FALSE, 16, 0),
     Header(3, FALSE, TRUE, 4, 2), Header(5, FALSE, FALSE, 512, 3), Header(7, FALSE, FALSE, 4, 1)}

\* RAM enable, ROM bank, upper bank and mode.
MCStores(h) ==
    CASE h.mbc = 1 -> {<<0, 10>>, <<0, 0>>, <<8192, 0>>, <<8192, 18>>, <<16384, 0>>, <<16384, 1>>,
                       <<16384, 3>>, <<24576, 0>>, <<24576, 1>>}
      [] h.mbc = 2 -> {<<0, 10>>, <<0, 0>>, <<256, 0>>, <<256, 5>>}
      [] h.mbc = 3 -> {<<0, 10>>, <<16384, 1>>, <<16384, 8>>, <<16384, 12>>,
                       <<24576, 0>>, <<24576, 1>>}
      [] h.mbc = 5 -> {<<0, 10>>, <<0, 0>>, <<8192, 0>>, <<8192, 7>>, <<12288, 1>>,
                       <<16384, 0>>, <<16384, 2>>, <<16384, 3>>}
      [] h.mbc = 7 -> {<<0, 10>>, <<16384, 64>>, <<16384, 0>>}
\* For the clock: a second within a minute, and the high register's flags.
MCBytes(c) == IF c.h.mbc = 3 /\ c.ram_bank = 12 THEN {1, 65} ELSE {0, 1}

MCCommands ==
    [op : {0}, addr : {3, 1}, data : {38}] \cup [op : {1, 2}, addr : {1}, data : {21}]
        \cup [op : {3}, addr : {1}, data : {0}]
MCMaxCalls(h) == IF h.mbc \in {3, 7} THEN 5 ELSE 7
MCAges == {-1, 0, 17, 37}
=============================================================================
