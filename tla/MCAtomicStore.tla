--------------------------- MODULE MCAtomicStore ---------------------------
(***************************************************************************)
(* AtomicStore for TLC, and the pure parts of the storage code over small  *)
(* cards and files.  Three contents are enough to tell the durable copy,   *)
(* an older one left in the backup and the one being written apart.        *)
(***************************************************************************)
EXTENDS AtomicStore, Catalog

CONSTANTS v1, v2, v3
MCValues == {v1, v2, v3}

(* Cards: a root of up to three entries, directories of up to two, the      *)
(* directories in those never looked into.  The place on the card ranks the *)
(* paths, upwards or downwards.                                             *)
Entry(kind, name) == [kind |-> kind, name |-> name, entries |-> <<>>]
RomEntries == {Entry("rom", 1), Entry("rom", 2)}
Nested == [kind |-> "directory", name |-> 0, entries |-> <<Entry("rom", 1)>>]
Leaves == RomEntries \union {Entry("long", 0), Entry("deep", 0), Nested}
Directories == {[kind |-> "directory", name |-> 0, entries |-> entries] :
                  entries \in SeqOf(Leaves, 2)}
Entries == RomEntries \union Directories
           \union {Entry(kind, 0) : kind \in {"other", "unnamed", "unreadable", "deep"}}

At(entry, rank) == [kind |-> entry.kind, name |-> entry.name, path |-> rank,
                    entries |-> entry.entries]
Ranked(entries, up) ==
  LET Rank(i, j) == IF up THEN 3 * i + j ELSE 20 - (3 * i + j)
      Inside(i, entry) == [j \in DOMAIN entry.entries |-> At(entry.entries[j], Rank(i, j))]
  IN [i \in DOMAIN entries |->
        At([entries[i] EXCEPT !.entries = Inside(i, entries[i])], Rank(i, 0))]
Card(entries, up) == [kind |-> "directory", entries |-> Ranked(entries, up)]

(* What a scan has to look at: the root's entries and those of its directories. *)
Reached(root) ==
  ToSet(root.entries) \union
  UNION {ToSet(entry.entries) : entry \in {e \in ToSet(root.entries) : e.kind = "directory"}}
Bad(root) ==
  {e \in Reached(root) : e.kind \in {"long", "unnamed"}} \union
  {e \in ToSet(root.entries) : e.kind \in {"deep", "unreadable"}}
RomsOf(root) == {[name |-> e.name, path |-> e.path] :
                   e \in {r \in Reached(root) : r.kind = "rom"}}

ScansAreRight ==
  \A entries \in SeqOf(Entries, 3), up \in BOOLEAN :
    LET root == Card(entries, up)
        c == Rescan(root)
        all == SetToSortSeq(RomsOf(root), Precedes)
    IN /\ c.roms = SubSeq(all, 1, IF Len(all) < MAX_ROMS THEN Len(all) ELSE MAX_ROMS)
       /\ c.truncated <=> Len(all) > MAX_ROMS
       /\ c.ok <=> Bad(root) = {}
       /\ c.ok <=> c.error = "None"

(* Files and configurations. *)
Paths == [file: 1..2, prefixes: 0..2, valid: BOOLEAN]
Configs == [last_rom: Paths \union {NoRom}, audio_engine: 0..(ENGINES - 1)]
Present == SUBSET {[file |-> 1, prefixes |-> n, valid |-> TRUE] : n \in 0..1}
Lines == [key: {"last_rom"}, value: [file: {1}, prefixes: 0..1, valid: BOOLEAN], cr: BOOLEAN]
         \union [key: {"audio_engine"}, value: 0..ENGINES, cr: BOOLEAN]
         \union [key: {"other", "long_rom"}, value: {0}, cr: BOOLEAN]

(* The file as an editor may leave it: other line ends, lines it added. *)
Edited(lines, cr, extra) ==
  [i \in DOMAIN lines |-> [lines[i] EXCEPT !.cr = cr]] \o extra
Extras == {<<>>, <<[key |-> "other", value |-> 0, cr |-> TRUE]>>}

FilesAreRead ==
  /\ \A config \in Configs, present \in Present, cr \in BOOLEAN, extra \in Extras :
       ValidConfig(config) =>
         LET read == ReadConfig(Edited(WrittenConfig(config), cr, extra), present)
         IN /\ read.ok
            /\ read.config.audio_engine = config.audio_engine
            /\ read.config.last_rom.file = config.last_rom.file
            /\ config.last_rom \in present => read.config.last_rom = config.last_rom
            /\ /\ config.last_rom.prefixes > 0
               /\ [config.last_rom EXCEPT !.prefixes = @ - 1] \in present
               => read.config.last_rom \in present
  /\ \A lines \in SeqOf(Lines, 3), present \in Present :
       ValidConfig(ReadConfig(lines, present).config)

\* The card is read for what it is.  The catalog holds, in order, the least MAX_ROMS
\* ROMs of the whole card however the directories list them: a full catalog makes room
\* for a smaller entry; it says so when some were left out, and the scan fails exactly
\* when something could not be read (insert_rom, scan_directory).  What is written as
\* the configuration is read back, also when an editor changed the line ends or added
\* lines the firmware does not know; a ROM remembered under the mount point is found at
\* its new place, and nothing is accepted that could not have been written
\* (read_config, write_config).
CardIsReadRight == mounted => ScansAreRight /\ FilesAreRead
=============================================================================
