------------------------------ MODULE Catalog ------------------------------
(***************************************************************************)
(* The pure parts of paperboy_storage.cpp: the catalog of ROM files that a *)
(* scan of the card makes, and the configuration file as lines of text.    *)
(* A path is a record; names and paths are ranked as compare_roms ranks    *)
(* them, so that a ROM is a pair of numbers.                               *)
(***************************************************************************)
EXTENDS Naturals, SequencesExt

CONSTANTS MAX_ROMS,        \* PAPERBOY_STORAGE_MAX_ROMS
          ENGINES,         \* PAPERBOY_STORAGE_AUDIO_ENGINE_COUNT
          CONFIG_LINES     \* the lines that fit in kConfigMaxBytes

(* compare_roms: by name, then by path; a catalog is kept in this order. *)
Precedes(a, b) == a.name < b.name \/ (a.name = b.name /\ a.path < b.path)

NoCatalog == [roms |-> <<>>, truncated |-> FALSE, ok |-> TRUE, error |-> "None"]
FirstError(c, error) == IF c.error = "None" THEN error ELSE c.error
Failed(c, error) == [c EXCEPT !.ok = FALSE, !.error = FirstError(c, error)]

Placed(roms, rom) ==
  LET before == SelectSeq(roms, LAMBDA r : ~Precedes(rom, r))
  IN before \o <<rom>> \o SubSeq(roms, Len(before) + 1, Len(roms))

\* mutant: a full catalog takes no more
InsertIfRoom(c, rom) ==
  IF Len(c.roms) = MAX_ROMS THEN [c EXCEPT !.truncated = TRUE]
  ELSE [c EXCEPT !.roms = Placed(@, rom)]

(* insert_rom: a full catalog gives up its last entry for one that precedes it. *)
InsertRom(c, rom) ==
  IF Len(c.roms) < MAX_ROMS THEN [c EXCEPT !.roms = Placed(@, rom)]
  ELSE IF ~Precedes(rom, Last(c.roms)) THEN [c EXCEPT !.truncated = TRUE]
  ELSE [c EXCEPT !.truncated = TRUE, !.roms = Placed(Front(@), rom)]

(* An entry of a directory is [kind, name, path, entries]; the kinds are what  *)
(* its name, type and size make of it: "rom"; "long", a ROM whose path is too  *)
(* long or not valid; "other", hidden, empty, too large or no ROM; "unnamed";  *)
(* "directory"; "unreadable", a directory that cannot be opened; "deep", a     *)
(* directory whose path is too long.                                           *)
RECURSIVE ScanDirectory(_, _, _)
Scanned(c, entry, depth) ==
  CASE entry.kind = "rom"     -> InsertRom(c, [name |-> entry.name, path |-> entry.path])
    [] entry.kind = "long"    -> Failed(c, "PathTooLong")
    [] entry.kind = "unnamed" -> Failed(c, "ScanFailed")
    [] entry.kind = "deep" /\ depth > 0 -> Failed(c, "PathTooLong")
    [] entry.kind \in {"directory", "unreadable"} /\ depth > 0 ->
         ScanDirectory(c, entry, depth - 1)
    [] OTHER -> c
ScanDirectory(c, directory, depth) ==
  IF directory.kind = "unreadable" THEN Failed(c, "ScanFailed")
  ELSE FoldLeft(LAMBDA found, entry : Scanned(found, entry, depth), c, directory.entries)

(* paperboy_storage_rescan: the root and the directories in it. *)
Rescan(root) == ScanDirectory(NoCatalog, root, 1)

----------------------------------------------------------------------------
(* The configuration.  A ROM's path is [file, prefixes, valid]: how many times *)
(* it begins with /sdcard, and whether valid_file_path and has_rom_extension   *)
(* take it.  A line of the file is [key, value, cr], cr when a carriage return *)
(* ends it; a number that is not one, or does not fit, is ENGINES or more; the *)
(* key of a last_rom line whose path does not fit is "long_rom".  A carriage   *)
(* return is cut off before the value is looked at.                            *)
NoRom == [file |-> 0, prefixes |-> 0, valid |-> TRUE]
DefaultConfig == [last_rom |-> NoRom, audio_engine |-> 0]

ValidConfig(config) == config.audio_engine < ENGINES /\ config.last_rom.valid

(* normalize_legacy_mount_path: present holds the paths that exist. *)
Normalized(path, present) ==
  LET relative == [path EXCEPT !.prefixes = @ - 1]
  IN IF path.prefixes > 0 /\ path \notin present /\ relative \in present
     THEN relative ELSE path

(* The lines paperboy_storage_write_config writes. *)
WrittenConfig(config) ==
  LET engine == [key |-> "audio_engine", value |-> config.audio_engine, cr |-> FALSE]
      rom == [key |-> "last_rom", value |-> config.last_rom, cr |-> FALSE]
  IN IF config.last_rom = NoRom THEN <<engine>> ELSE <<rom, engine>>

Accepted(config) == [ok |-> TRUE, config |-> config]
ConfigInvalid == [ok |-> FALSE, config |-> DefaultConfig]

(* One turn of the loop over the lines. *)
Parsed(c, line) ==
  CASE ~c.ok -> c
    [] line.key = "last_rom" -> Accepted([c.config EXCEPT !.last_rom = line.value])
    [] line.key = "audio_engine" ->
         IF line.value < ENGINES THEN Accepted([c.config EXCEPT !.audio_engine = line.value])
         ELSE ConfigInvalid
    [] line.key = "long_rom" -> ConfigInvalid
    [] OTHER -> c

(* paperboy_storage_read_config once the file has been recovered and read. *)
ReadConfig(lines, present) ==
  LET parsed == FoldLeft(Parsed, Accepted(DefaultConfig), lines)
  IN IF Len(lines) <= CONFIG_LINES /\ parsed.ok /\ ValidConfig(parsed.config)
     THEN Accepted([parsed.config EXCEPT !.last_rom = Normalized(@, present)])
     ELSE ConfigInvalid
=============================================================================
