------------------------------- MODULE Session -------------------------------
(***************************************************************************)
(* main.cpp, the session half of run_console: which cartridge runs, where  *)
(* its RAM is saved, and what SAVE, LOAD, PLAY, LOAD LAST, RESCAN, ON-OFF  *)
(* and the power button do to the cartridge, to the quicksave in memory    *)
(* and to the files of the SD card.  The console is one task, so the only  *)
(* things that come between two of its steps are failures and a power cut. *)
(*                                                                         *)
(* A file changes in one step: AtomicStore shows that a write which        *)
(* succeeds is durable and that one which fails, or is cut off, leaves the *)
(* old contents.  A cartridge is reduced to its ROM, its RAM, which is the *)
(* set of the moments of play that it builds on, and the mark that it has  *)
(* been written since it was saved.                                        *)
(***************************************************************************)
EXTENDS Naturals, FiniteSets

CONSTANTS
  Roms,      \* paths of the ROMs on the card; each has battery-backed RAM
  BuiltIn,   \* the compiled-in ROM, which has none
  None,      \* no file, no path, no snapshot, no emulator
  MaxPlay,   \* bound on how often games write their RAM
  Profiles   \* sets of calls that may fail in a run of the console, see FaultKinds

\* Reading or finding a file (for whatever reason), writing one, mounting the
\* card, and allocating a ROM, an emulator or a buffer.
FaultKinds == {"read", "write", "mount", "memory"}
ASSUME RomsAssumption == BuiltIn \notin Roms /\ None \notin Roms /\ BuiltIn # None
ASSUME PlayAssumption == MaxPlay \in Nat
ASSUME ProfilesAssumption == Profiles \subseteq SUBSET FaultKinds

VARIABLES
  sav,         \* what find_existing_sidecar finds for each ROM: its RAM
  state,       \* the same for the .state file: a snapshot
  config,      \* last_rom of paperboy.cfg
  emu,         \* g_emu
  path,        \* g_current_rom_path
  apu,         \* ROM whose sound registers the one MiniGB APU holds
  pending,     \* g_persist_write_pending
  quicksave,   \* g_quicksave, or None while g_memory_quicksave_valid is false
  disk_available,  \* g_current_disk_snapshot_available
  last_available,  \* g_last_snapshot_available
  last_rom,    \* g_storage_config.last_rom
  ready,       \* g_storage_ready
  mode,        \* power_on and emu_faulted of run_console
  pc,          \* the next step of the running operation
  job,         \* its arguments and locals
  faults,      \* the calls that may fail in this run; chosen once
  clock,       \* how often games have written their RAM
  unsaved      \* history: the RAM changed since it was last in the .sav file

world == <<clock, faults>>
files == <<sav, state, config>>
game == <<emu, path, apu, quicksave>>
flags == <<disk_available, last_available, last_rom, ready>>
vars == <<files, game, pending, flags, mode, pc, job, world, unsaved>>

Ram == SUBSET (1..MaxPlay)
Cartridge == [rom : Roms \union {BuiltIn}, ram : Ram, dirty : BOOLEAN]
ASSUME NoneAssumption == \A cartridge \in Cartridge : None # cartridge /\ None # cartridge.ram
NoJob == [target |-> None, restore |-> FALSE, candidate |-> None, apu |-> None,
          previous |-> None, previous_available |-> FALSE, before |-> None]
Fresh(rom) == [rom |-> rom, ram |-> {}, dirty |-> FALSE]   \* gbemu_init

current_rom_is_from_sd == path # None
MayFail(kinds) == faults \intersect kinds # {}

\* file_exists for a file with these contents: a directory or recovery error
\* makes it answer FALSE.
Found(file) == IF file = None THEN {FALSE}
               ELSE IF MayFail({"read"}) THEN BOOLEAN ELSE {TRUE}

refresh_current_snapshot_availability ==
  disk_available' \in IF path' # None /\ ready' THEN Found(state'[path']) ELSE {FALSE}
refresh_last_snapshot_availability ==
  last_available' \in IF ready' /\ last_rom' # None THEN Found(state'[last_rom']) ELSE {FALSE}

-----------------------------------------------------------------------------
(* setup: every start runs the built-in ROM.                               *)

Boot ==
  /\ UNCHANGED files
  /\ emu' = Fresh(BuiltIn) /\ apu' = BuiltIn /\ path' = None /\ quicksave' = None
  /\ pending' = FALSE /\ unsaved' = FALSE
  /\ ready' \in IF MayFail({"mount"}) THEN BOOLEAN ELSE {TRUE}
  /\ last_rom' \in IF ~ready' THEN {None}
                   ELSE {config} \union IF MayFail({"read"}) THEN {None} ELSE {}
  /\ disk_available' = FALSE
  /\ refresh_last_snapshot_availability
  /\ mode' = "on" /\ pc' = "idle" /\ job' = NoJob

Init ==
  /\ sav \in [Roms -> {None}]
  /\ state \in [Roms -> {None}]
  /\ config = None
  /\ emu = Fresh(BuiltIn) /\ apu = BuiltIn /\ path = None /\ quicksave = None
  /\ pending = FALSE /\ unsaved = FALSE
  /\ ready = TRUE /\ last_rom = None
  /\ disk_available = FALSE /\ last_available = FALSE
  /\ mode = "on" /\ pc = "idle" /\ job = NoJob
  /\ clock = 0
  /\ faults \in Profiles

Start ==
  /\ pc = "off"
  /\ Boot
  /\ UNCHANGED world

-----------------------------------------------------------------------------
(* save_current_persist                                                    *)

\* Does the call have anything to write?
NeedsWriteDirtyOnly(only_if_dirty) ==  \* mutant
  current_rom_is_from_sd /\ (only_if_dirty => emu.dirty)
NeedsWrite(only_if_dirty) ==
  current_rom_is_from_sd /\ (only_if_dirty => pending \/ emu.dirty)

SaveUnneeded(only_if_dirty) ==
  /\ ~NeedsWrite(only_if_dirty)
  /\ pending' = (pending /\ current_rom_is_from_sd)
  /\ UNCHANGED <<sav, emu, unsaved>>

SaveWritten(only_if_dirty) ==
  /\ NeedsWrite(only_if_dirty) /\ ready
  /\ sav' = [sav EXCEPT ![path] = emu.ram]
  /\ emu' = [emu EXCEPT !.dirty = FALSE]   \* gbemu_mark_persist_clean
  /\ pending' = FALSE
  /\ unsaved' = FALSE

SaveFailedForgets(only_if_dirty) ==  \* mutant
  /\ NeedsWrite(only_if_dirty)
  /\ ready => MayFail({"write", "memory"})
  /\ pending' = FALSE
  /\ UNCHANGED <<sav, emu, unsaved>>
SaveFailed(only_if_dirty) ==
  /\ NeedsWrite(only_if_dirty)
  /\ ready => MayFail({"write", "memory"})
  /\ UNCHANGED <<sav, emu, pending, unsaved>>

SaveSucceeds(only_if_dirty) == SaveUnneeded(only_if_dirty) \/ SaveWritten(only_if_dirty)

\* capture_current_quicksave allocates only when there is no buffer yet.
Capture(snapshot) == quicksave' = snapshot
CaptureFails == MayFail({"memory"}) /\ quicksave = None

-----------------------------------------------------------------------------
(* The game itself.                                                        *)

\* A frame in which the game writes battery-backed RAM (or, for the built-in
\* ROM, anything that only a snapshot keeps).
Play ==
  /\ pc = "idle" /\ mode = "on" /\ emu # None
  /\ clock < MaxPlay
  /\ clock' = clock + 1
  /\ emu' = [emu EXCEPT !.ram = @ \union {clock + 1}, !.dirty = current_rom_is_from_sd]
  /\ unsaved' = current_rom_is_from_sd
  /\ UNCHANGED <<files, path, apu, quicksave, pending, flags, mode, pc, job, faults>>

\* gbemu_run_frame fails; gbemu_reset keeps cartridge RAM and its dirty mark.
Fault ==
  /\ pc = "idle" /\ mode = "on"
  /\ mode' = "faulted"
  /\ emu' = IF emu = None \/ current_rom_is_from_sd THEN emu ELSE Fresh(BuiltIn)
  /\ UNCHANGED <<files, path, apu, quicksave, pending, flags, pc, job, world, unsaved>>

\* ON-OFF
SoftPower ==
  /\ pc = "idle"
  /\ \/ /\ mode = "faulted" /\ emu # None
        /\ mode' = "on"
        /\ UNCHANGED <<sav, emu, pending, unsaved>>
     \/ /\ mode = "on"
        /\ mode' = "off"
        /\ SaveSucceeds(TRUE) \/ SaveFailed(TRUE)
     \/ /\ mode = "off"
        /\ mode' = "on"
        /\ UNCHANGED <<sav, emu, pending, unsaved>>
  /\ UNCHANGED <<state, config, path, apu, quicksave, flags, pc, job, world>>

-----------------------------------------------------------------------------
(* write_current_config; the last step of several operations.              *)

WriteConfig ==
  /\ pc = "config"
  /\ last_rom' = IF current_rom_is_from_sd THEN path ELSE last_rom
  /\ \/ config' = last_rom'
     \/ MayFail({"write"}) /\ config' = config
  /\ UNCHANGED <<sav, state, ready>>
  /\ refresh_last_snapshot_availability
  /\ pc' = "idle" /\ job' = NoJob
  /\ UNCHANGED <<game, pending, disk_available, mode, world, unsaved>>

\* SOUND: the other entry of the file; the engine itself is left out.
ChangeSound ==
  /\ pc = "idle" /\ ready
  /\ pc' = "config"
  /\ UNCHANGED <<files, game, pending, flags, mode, job, world, unsaved>>

-----------------------------------------------------------------------------
(* SAVE: save_current_session                                              *)

Save ==
  /\ pc = "idle" /\ mode # "faulted" /\ emu # None
  /\ \/ SaveFailed(FALSE) /\ UNCHANGED pc
     \/ SaveSucceeds(FALSE) /\ pc' = "capture"
  /\ UNCHANGED <<state, config, path, apu, quicksave, flags, mode, job, world>>

SaveSnapshot ==
  /\ pc = "capture"
  /\ UNCHANGED <<sav, last_rom, ready>>
  /\ \/ /\ CaptureFails
        /\ pc' = "idle"
        /\ UNCHANGED <<state, quicksave, disk_available, last_available>>
     \/ /\ Capture(emu)
        /\ current_rom_is_from_sd
        /\ state' = [state EXCEPT ![path] = emu]
        /\ disk_available' = TRUE
        /\ pc' = "config"
        /\ UNCHANGED last_available
     \/ /\ Capture(emu)
        /\ current_rom_is_from_sd => MayFail({"write"})
        /\ pc' = "idle"
        /\ UNCHANGED <<state, disk_available>>
        /\ refresh_last_snapshot_availability
  /\ UNCHANGED <<config, emu, path, apu, pending, mode, job, world, unsaved>>

-----------------------------------------------------------------------------
(* LOAD: load_current_state                                                *)

\* After gbemu_load_state of a snapshot that belongs to this ROM.
Restored(snapshot) ==
  /\ emu' = snapshot
  /\ apu' = snapshot.rom
  /\ mode' = "on"
  /\ pending' = current_rom_is_from_sd
  /\ unsaved' = current_rom_is_from_sd
  /\ pc' = "flush"

QuicksaveLoads == emu # None /\ quicksave # None /\ quicksave.rom = emu.rom
LoadFromMemory ==
  /\ pc = "idle"
  /\ QuicksaveLoads
  /\ Restored(quicksave)
  /\ UNCHANGED <<files, path, quicksave, flags, job, world>>

\* The quicksave is missing or rejected (there is no emulator to load it).
DiskOffered == current_rom_is_from_sd /\ ready /\ disk_available

LoadFromDisk ==
  /\ pc = "idle"
  /\ ~QuicksaveLoads /\ DiskOffered
  /\ state[path] # None /\ state[path].rom = emu.rom
  /\ Restored(state[path])
  /\ quicksave' \in {state[path]} \union IF MayFail({"memory"}) THEN {None} ELSE {}
  /\ UNCHANGED <<files, path, flags, job, world>>

LoadFails ==
  /\ pc = "idle"
  /\ ~QuicksaveLoads
  /\ quicksave' = None
  /\ DiskOffered => \/ MayFail({"read", "memory"})
                    \/ state[path] = None
                    \/ state[path].rom # emu.rom
  /\ disk_available' = (disk_available /\ ~DiskOffered)
  /\ UNCHANGED <<files, emu, path, apu, pending, last_available, last_rom, ready,
                 mode, pc, job, world, unsaved>>

\* The restored RAM goes to the .sav file now, or stays pending.
FlushRam ==
  /\ SaveSucceeds(FALSE) \/ SaveFailed(FALSE)
  /\ UNCHANGED <<state, config, path, apu, quicksave, flags, mode, job, world>>

FlushRestored ==
  /\ pc = "flush"
  /\ FlushRam
  /\ pc' = "idle"

-----------------------------------------------------------------------------
(* PLAY and LOAD LAST: launch_sd_rom                                       *)

BeginLaunch(target, restore) ==
  /\ pc = "idle" /\ ready
  /\ \/ /\ SaveFailed(TRUE)
        /\ UNCHANGED <<pc, job>>
     \/ /\ SaveSucceeds(TRUE)
        /\ \/ MayFail({"memory"}) /\ UNCHANGED <<pc, job>>   \* no room for the APU copy
           \/ /\ pc' = "prepare"
              /\ job' = [NoJob EXCEPT !.target = target, !.restore = restore,
                                      !.apu = apu, !.before = emu']
  /\ UNCHANGED <<state, config, path, apu, quicksave, flags, mode, world>>

Launch == \E rom \in Roms : BeginLaunch(rom, FALSE)
LoadLast == last_available /\ BeginLaunch(last_rom, TRUE)

\* What prepare_sd_candidate loads: the .sav file, then the snapshot over it.
\* A .sav file that cannot be read, or finds no memory, leaves the RAM blank and
\* the launch goes on.
Candidates ==
  LET target == job.target
      saved == IF sav[target] = None THEN Fresh(target)
               ELSE [Fresh(target) EXCEPT !.ram = sav[target]]
  IN  IF job.restore THEN {state[target]} \ {None}
      ELSE {saved} \union IF MayFail({"read", "memory"}) THEN {Fresh(target)} ELSE {}

CandidateReady ==
  /\ \E candidate \in Candidates : job' = [job EXCEPT !.candidate = candidate]
  /\ apu' = job.target        \* gbemu_init resets it, gbemu_load_state loads it

\* The ROM cannot be read or is not one the emulator runs, there is no memory
\* for an emulator, or (after gbemu_init) the snapshot cannot be loaded.
CandidateRejected ==
  /\ \/ MayFail({"read", "memory"}) /\ apu' \in {apu, job.target}
     \/ job.restore /\ state[job.target] = None /\ apu' = job.target
  /\ UNCHANGED job

\* paperboy_storage_load_rom finds no memory for the ROM.
RomAllocationFails == MayFail({"memory"}) /\ UNCHANGED <<apu, job>>

PrepareReady ==
  /\ pc \in {"prepare", "retry"}
  /\ CandidateReady
  /\ pc' = "activate"
  /\ UNCHANGED <<files, emu, path, quicksave, pending, flags, mode, world, unsaved>>

PrepareFails ==
  /\ pc = "prepare"
  /\ CandidateRejected \/ (RomAllocationFails /\ ~current_rom_is_from_sd)
  /\ pc' = "rejected"
  /\ UNCHANGED <<files, emu, path, quicksave, pending, flags, mode, world, unsaved>>

\* The old game goes on, with its sound registers put back.
RestoreApu == apu' = job.apu
KeepGame ==
  /\ pc = "rejected"
  /\ RestoreApu
  /\ pc' = "idle" /\ job' = NoJob
  /\ UNCHANGED <<files, emu, path, quicksave, pending, flags, mode, world, unsaved>>

\* capture_current_state_for_rom_swap, and the unloading after it.
PreserveAnyQuicksave == quicksave # None  \* mutant
PreserveQuicksave == mode = "faulted" /\ quicksave # None
SwapOut ==
  /\ pc = "prepare"
  /\ MayFail({"memory"}) /\ current_rom_is_from_sd
  /\ IF PreserveQuicksave THEN UNCHANGED quicksave ELSE Capture(emu)
  /\ emu' = None /\ path' = None
  /\ job' = [job EXCEPT !.previous = path, !.previous_available = disk_available]
  /\ pc' = "retry"
  /\ UNCHANGED <<files, apu, pending, flags, mode, world, unsaved>>

SwapOutFails ==
  /\ pc = "prepare"
  /\ MayFail({"memory"}) /\ current_rom_is_from_sd
  /\ CaptureFails
  /\ pc' = "idle" /\ job' = NoJob
  /\ UNCHANGED <<files, game, pending, flags, mode, world, unsaved>>

RetryFails ==
  /\ pc = "retry"
  /\ CandidateRejected \/ RomAllocationFails
  /\ pc' = "recover"
  /\ UNCHANGED <<files, emu, path, quicksave, pending, flags, mode, world, unsaved>>

\* restore_swapped_out_sd_rom
SwapBack ==
  /\ pc = "recover"
  /\ quicksave # None /\ quicksave.rom = job.previous
  /\ emu' = quicksave /\ apu' = quicksave.rom
  /\ path' = job.previous
  /\ disk_available' = job.previous_available
  /\ pending' = FALSE
  /\ pc' = "idle" /\ job' = NoJob
  /\ UNCHANGED <<files, quicksave, last_available, last_rom, ready, mode, world, unsaved>>

\* activate_builtin_after_failed_rom_swap
FallBack ==
  /\ pc = "recover"
  /\ MayFail({"read", "memory"})
  /\ emu' = Fresh(BuiltIn) /\ apu' = BuiltIn
  /\ path' = None /\ pending' = FALSE
  /\ quicksave' = None /\ disk_available' = FALSE
  /\ pc' = "idle" /\ job' = NoJob
  /\ UNCHANGED <<files, last_available, last_rom, ready, mode, world, unsaved>>

\* Nor is there memory for the built-in ROM.
RecoveryFails ==
  /\ pc = "recover"
  /\ MayFail({"memory"})
  /\ pc' = "idle" /\ job' = NoJob
  /\ UNCHANGED <<files, game, pending, flags, mode, world, unsaved>>

\* The rest of a launch that has its candidate; prepare_quicksave drops the
\* snapshot of the old game.
PrepareNoQuicksave == UNCHANGED quicksave  \* mutant
PrepareQuicksave == quicksave' = None
Activate ==
  /\ pc = "activate"
  /\ emu' = job.candidate
  /\ path' = job.target
  /\ pending' = job.restore
  /\ unsaved' = job.restore
  /\ PrepareQuicksave
  /\ UNCHANGED <<files, ready>>
  /\ refresh_current_snapshot_availability
  /\ mode' = "on"
  /\ pc' = IF job.restore THEN "flush launched" ELSE "config"
  /\ UNCHANGED <<apu, last_available, last_rom, job, world>>

\* LOAD LAST writes the RAM it restored; whether or not that works, the
\* configuration is written after it, as in every launch.
FlushLaunched ==
  /\ pc = "flush launched"
  /\ FlushRam
  /\ pc' = "config"

-----------------------------------------------------------------------------
(* RESCAN: rescan_storage                                                  *)

BeginRescan ==
  /\ pc = "idle"
  /\ \/ SaveSucceeds(TRUE) /\ pc' = "remount"
     \/ SaveFailed(TRUE) /\ pc' = "remount and save"
  /\ UNCHANGED <<state, config, path, apu, quicksave, flags, mode, job, world>>

Remount ==
  /\ pc \in {"remount", "remount and save"}
  /\ ready' \in IF MayFail({"mount"}) THEN BOOLEAN ELSE {TRUE}
  /\ pc' = IF pc = "remount and save" /\ ready' THEN "save again" ELSE "reread"
  /\ UNCHANGED <<files, game, pending, disk_available, last_available, last_rom,
                 mode, job, world, unsaved>>

SaveAgain ==
  /\ pc = "save again"
  /\ SaveSucceeds(TRUE) \/ SaveFailed(TRUE)
  /\ pc' = "reread"
  /\ UNCHANGED <<state, config, path, apu, quicksave, flags, mode, job, world>>

\* The configuration that is on the card, or the default one.
Reread ==
  /\ pc = "reread"
  /\ UNCHANGED <<files, game, ready>>
  /\ last_rom' \in IF ~ready THEN {None}
                   ELSE {config} \union IF MayFail({"read"}) THEN {None} ELSE {}
  /\ refresh_current_snapshot_availability
  /\ refresh_last_snapshot_availability
  /\ pc' = "idle"
  /\ UNCHANGED <<pending, mode, job, world, unsaved>>

-----------------------------------------------------------------------------
(* The end: enter_power_off, or the battery.                               *)

PowerOff ==
  /\ pc = "idle"
  /\ SaveSucceeds(TRUE) \/ SaveFailed(TRUE)
  /\ pc' = "off"
  /\ UNCHANGED <<state, config, path, apu, quicksave, flags, mode, job, world>>

PowerCut ==
  /\ pc # "off"
  /\ pc' = "off"
  /\ unsaved' = FALSE      \* lost, and nobody's fault
  /\ UNCHANGED <<files, game, pending, flags, mode, job, world>>

Next ==
  \/ Start \/ Play \/ Fault \/ SoftPower
  \/ WriteConfig \/ ChangeSound
  \/ Save \/ SaveSnapshot
  \/ LoadFromMemory \/ LoadFromDisk \/ LoadFails \/ FlushRestored
  \/ Launch \/ LoadLast
  \/ PrepareReady \/ PrepareFails \/ KeepGame
  \/ SwapOut \/ SwapOutFails \/ RetryFails \/ SwapBack \/ FallBack \/ RecoveryFails
  \/ Activate \/ FlushLaunched
  \/ BeginRescan \/ Remount \/ SaveAgain \/ Reread
  \/ PowerOff \/ PowerCut

Spec == Init /\ [][Next]_vars

-----------------------------------------------------------------------------
(* Properties.                                                             *)

Labels == {"idle", "config", "capture", "flush", "prepare", "rejected", "retry",
           "recover", "activate", "flush launched", "remount", "remount and save", "save again",
           "reread", "off"}
Job == [target : Roms \union {None}, restore : BOOLEAN,
        candidate : Cartridge \union {None}, apu : Roms \union {BuiltIn},
        previous : Roms \union {None}, previous_available : BOOLEAN,
        before : Cartridge \union {None}]

\* Every variable has its type.
TypeOK ==
  /\ sav \in [Roms -> {None} \union Ram]
  /\ state \in [Roms -> Cartridge \union {None}]
  /\ config \in Roms \union {None} /\ last_rom \in Roms \union {None}
  /\ emu \in Cartridge \union {None} /\ quicksave \in Cartridge \union {None}
  /\ path \in Roms \union {None} /\ apu \in Roms \union {BuiltIn}
  /\ pending \in BOOLEAN /\ ready \in BOOLEAN /\ unsaved \in BOOLEAN
  /\ disk_available \in BOOLEAN /\ last_available \in BOOLEAN
  /\ mode \in {"on", "off", "faulted"}
  /\ pc \in Labels
  /\ job = NoJob \/ job \in Job
  /\ clock \in 0..MaxPlay
  /\ faults \in Profiles

\* A game never gets the files or the quicksave of another one: the path that
\* the files are named after, the running ROM, the ROM of every snapshot and
\* (between operations) the sound registers agree, whatever fails.
OwnFiles ==
  /\ emu # None /\ pc # "off" => emu.rom = IF path = None THEN BuiltIn ELSE path
  /\ emu # None /\ quicksave # None => quicksave.rom = emu.rom
  /\ \A rom \in Roms : state[rom] # None => state[rom].rom = rom
AudioFollowsGame == pc = "idle" /\ emu # None => apu = emu.rom

\* Cartridge RAM that is in no .sav file is still marked for writing, so the
\* next flush writes it; and every snapshot was taken of RAM that had been
\* written, so the mark it restores is never a stale one.
NothingForgotten ==
  /\ unsaved /\ pc # "off" => emu # None /\ (pending \/ emu.dirty)
  /\ quicksave # None => ~quicksave.dirty
  /\ \A rom \in Roms : state[rom] # None => ~state[rom].dirty

\* No operation, failed or not, gives up a cartridge whose RAM is not in its
\* .sav file, except the two the player asks for: LOAD and switching off.
Content(cartridge) == IF cartridge = None THEN None ELSE [rom |-> cartridge.rom, ram |-> cartridge.ram]
GivesUpGame == unsaved /\ Content(emu') # Content(emu)
ProgressIsKept == [][GivesUpGame => Play \/ LoadFromMemory \/ LoadFromDisk \/ Start]_vars

\* A launch that had to unload the running game and then failed continues it
\* exactly where it was, its RAM as clean as the flush before left it; a game
\* that had crashed is excepted, it may go back to its snapshot.
LaunchGoesBack == [][SwapBack /\ mode # "faulted" => emu' = job.before]_vars

\* When nothing is marked for writing, the .sav file holds what the cartridge
\* holds, whatever write or mount was refused and retried before.
CleanMeansSaved ==
  /\ ~MayFail({"read", "memory"})
  /\ pc = "idle" /\ path # None /\ ~pending /\ ~emu.dirty
  => sav[path] = emu.ram \/ (sav[path] = None /\ emu.ram = {})

\* LOAD and LOAD LAST are offered exactly when there is a snapshot to load: the
\* flags the pages draw stay equal to the card they were read from long ago.  A
\* LOAD that finds no memory to read the file into withdraws its offer.
OffersAreTrue ==
  pc = "idle" /\ ready /\ ~MayFail({"read"}) =>
    /\ path # None /\ disk_available => state[path] # None
    /\ path # None /\ state[path] # None /\ ~MayFail({"memory"}) => disk_available
    /\ last_available = (last_rom # None /\ state[last_rom] # None)

\* LOAD LAST, now and after a restart, goes to the game that runs: whatever was
\* launched, restored, refused or swapped back, its path is the one remembered.
GameIsRemembered ==
  pc = "idle" /\ path # None /\ ~MayFail({"read", "write", "mount"}) =>
    last_rom = path /\ config = path

\* Switching off leaves no RAM unwritten as long as writing works.
ShutdownSaves == pc = "off" /\ ~MayFail({"write", "memory", "mount"}) => ~unsaved

\* Files, snapshots, sound registers, the flags of the pages and the path that is
\* remembered belong to the game that runs, whatever was launched, refused or
\* swapped back.
NothingMixedUp ==
  TypeOK /\ OwnFiles /\ AudioFollowsGame /\ OffersAreTrue /\ GameIsRemembered

\* What was played is in the .sav file or marked to be written, and nothing that
\* claims to be saved is not.
ProgressIsSafe == NothingForgotten /\ CleanMeansSaved /\ ShutdownSaves

\* Unless the player restored a snapshot, a new .sav file builds on all that
\* the old one holds, as the durable record of progress it is (README.md:77).
Overwrites == \E rom \in Roms :
  sav[rom] # None /\ sav'[rom] # sav[rom] /\ ~pending /\ ~(sav[rom] \subseteq sav'[rom])
DurableRecord == [][~Overwrites]_vars

=============================================================================
