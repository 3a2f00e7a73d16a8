----------------------------- MODULE SessionProofs -----------------------------
(***************************************************************************)
(* Proofs about Session for any ROMs, any sets of calls that may fail, any *)
(* order of the player's requests, and a power cut between any two steps:  *)
(* files, snapshots, sound registers and flags belong to the game that     *)
(* runs, and what was played is saved or marked to be saved.               *)
(***************************************************************************)
EXTENDS Session, TLAPS

\* Where an operation of the console stands.
Launching == pc \in {"prepare", "rejected", "retry", "recover", "activate"}
Unloaded == pc \in {"retry", "recover"}
Loaded == pc \notin {"retry", "recover", "activate", "off"}
Flushed == pc \in {"capture", "prepare", "rejected"}
Offering == pc \in {"idle", "capture", "config", "flush", "flush launched", "prepare", "rejected"}

\* Who is who: the running game, its files and what a launch has in hand.
GameInv ==
  /\ path # None => emu # None
  /\ Loaded /\ pc # "rejected" /\ emu # None => apu = emu.rom
  /\ pc = "capture" => emu # None
  /\ Unloaded => emu = None /\ path = None

JobInv ==
  /\ Launching => job \in Job /\ job.target \in Roms
  /\ pc \in {"prepare", "rejected"} /\ emu # None => job.apu = emu.rom
  /\ pc = "activate" =>
       /\ job.candidate \in Cartridge
       /\ job.candidate.rom = job.target /\ ~job.candidate.dirty
       /\ apu = job.target
  /\ Unloaded => job.previous \in Roms
  /\ pc = "prepare" => job.before = emu
  /\ Unloaded /\ mode # "faulted" => quicksave = job.before

\* The flags of the pages, as long as the card can be read.
OffersInv ==
  /\ last_available => last_rom # None
  /\ ready /\ ~MayFail({"read"}) =>
       /\ Offering /\ path # None /\ disk_available => state[path] # None
       /\ Offering /\ path # None /\ state[path] # None /\ ~MayFail({"memory"}) => disk_available
       /\ pc \in {"idle", "capture", "flush"} \/ Launching =>
            last_available = (last_rom # None /\ state[last_rom] # None)
       /\ Unloaded /\ job.previous_available => state[job.previous] # None

\* What LOAD LAST goes to, as long as the configuration can be read and written.
RememberInv ==
  ~MayFail({"read", "write", "mount"}) =>
    /\ path # None /\ pc \notin {"flush launched", "config", "off"} => last_rom = path /\ config = path
    /\ Unloaded => last_rom = job.previous /\ config = job.previous

\* What is not written yet is marked.
MarksInv ==
  /\ NothingForgotten
  /\ unsaved /\ pc # "off" => path # None
  /\ path = None /\ emu # None => ~emu.dirty
  /\ Flushed /\ emu # None => ~emu.dirty
  /\ Launching => ~unsaved

\* What carries no mark is written.
SavedAs(rom, ram) == sav[rom] = ram \/ (sav[rom] = None /\ ram = {})
SavedInv ==
  ~MayFail({"read", "memory"}) =>
    /\ path # None /\ ~pending /\ ~emu.dirty => SavedAs(path, emu.ram)
    /\ pc = "activate" /\ ~job.restore => SavedAs(job.target, job.candidate.ram)
    /\ ~Unloaded

PowerInv ==
  /\ ~ready => MayFail({"mount"})
  /\ ShutdownSaves

IInv == /\ TypeOK /\ OwnFiles /\ GameInv /\ JobInv /\ OffersInv /\ RememberInv
        /\ MarksInv /\ SavedInv /\ PowerInv

-----------------------------------------------------------------------------
(* The cartridge and its parts.                                            *)

LEMMA CleanedCartridge ==
  ASSUME NEW c \in Cartridge
  PROVE  LET d == [c EXCEPT !.dirty = FALSE]
         IN  d \in Cartridge /\ d.rom = c.rom /\ d.ram = c.ram /\ ~d.dirty
  BY DEF Cartridge

LEMMA FreshCartridge ==
  ASSUME NEW rom \in Roms \union {BuiltIn}
  PROVE  /\ Fresh(rom) \in Cartridge
         /\ Fresh(rom).rom = rom /\ Fresh(rom).ram = {} /\ ~Fresh(rom).dirty
  BY DEF Cartridge, Fresh, Ram

\* What a step finds of a file that is there, or is not.
LEMMA FoundIsTrue ==
  ASSUME NEW file
  PROVE  /\ Found(file) \subseteq BOOLEAN
         /\ ~MayFail({"read"}) => \A b \in Found(file) : b = (file # None)
         /\ \A b \in Found(file) : b => file # None
<1>1. CASE file = None
  BY <1>1 DEF Found
<1>2. CASE file # None /\ MayFail({"read"})
  BY <1>2 DEF Found
<1>3. CASE file # None /\ ~MayFail({"read"})
  BY <1>3 DEF Found
<1> QED
  BY <1>1, <1>2, <1>3

LEMMA CurrentIsRefreshed ==
  ASSUME refresh_current_snapshot_availability
  PROVE  /\ disk_available' \in BOOLEAN
         /\ path' # None /\ ready' /\ ~MayFail({"read"}) => disk_available' = (state'[path'] # None)
<1>1. CASE path' # None /\ ready'
  BY <1>1, FoundIsTrue DEF refresh_current_snapshot_availability
<1>2. CASE ~(path' # None /\ ready')
  BY <1>2 DEF refresh_current_snapshot_availability
<1> QED
  BY <1>1, <1>2

LEMMA LastIsRefreshed ==
  ASSUME refresh_last_snapshot_availability
  PROVE  /\ last_available' \in BOOLEAN
         /\ last_available' => last_rom' # None
         /\ ready' /\ ~MayFail({"read"}) =>
              last_available' = (last_rom' # None /\ state'[last_rom'] # None)
<1>1. CASE last_rom' # None /\ ready'
  BY <1>1, FoundIsTrue DEF refresh_last_snapshot_availability
<1>2. CASE ~(last_rom' # None /\ ready')
  BY <1>2 DEF refresh_last_snapshot_availability
<1> QED
  BY <1>1, <1>2

-----------------------------------------------------------------------------
(* save_current_persist, and the operations that call it.                  *)
Persist(only_if_dirty) == SaveSucceeds(only_if_dirty) \/ SaveFailed(only_if_dirty)
SaveStep == SoftPower \/ Save \/ FlushRestored \/ FlushLaunched \/ BeginRescan \/ SaveAgain
            \/ PowerOff \/ Launch \/ LoadLast

\* All that a call to it may change.
LEMMA PersistEffect ==
  ASSUME TypeOK, path # None => emu # None, NEW b \in BOOLEAN, Persist(b)
  PROVE  /\ sav' \in [Roms -> {None} \union Ram]
         /\ emu' \in Cartridge \union {None} /\ pending' \in BOOLEAN /\ unsaved' \in BOOLEAN
         /\ emu = None => emu' = None
         /\ emu # None =>
              /\ emu' # None /\ emu'.rom = emu.rom /\ emu'.ram = emu.ram
              /\ emu'.dirty => emu.dirty
         /\ unsaved' => unsaved /\ UNCHANGED emu /\ (pending /\ path # None => pending')
         /\ path # None /\ ~pending' /\ ~emu'.dirty =>
              sav'[path] = emu'.ram \/ (UNCHANGED <<sav, emu>> /\ ~pending)
<1> USE NoneAssumption DEF current_rom_is_from_sd
<1>1. CASE SaveUnneeded(b)
  <2>1. pending' \in BOOLEAN /\ pending' = (pending /\ path # None)
    BY <1>1, Zenon DEF SaveUnneeded, TypeOK
  <2>2. UNCHANGED <<sav, emu, unsaved>>
    BY <1>1 DEF SaveUnneeded
  <2>3. sav' \in [Roms -> {None} \union Ram] /\ emu' \in Cartridge \union {None}
        /\ unsaved' \in BOOLEAN
    BY <2>2 DEF TypeOK
  <2> QED
    BY <2>1, <2>2, <2>3
<1>2. CASE SaveWritten(b)
  <2>1. path # None /\ path \in Roms /\ emu \in Cartridge
    BY <1>2 DEF SaveWritten, NeedsWrite, TypeOK
  <2>2. sav' = [sav EXCEPT ![path] = emu.ram] /\ emu' = [emu EXCEPT !.dirty = FALSE]
        /\ ~pending' /\ ~unsaved' /\ pending' \in BOOLEAN /\ unsaved' \in BOOLEAN
    BY <1>2 DEF SaveWritten
  <2>3. emu' \in Cartridge /\ emu'.rom = emu.rom /\ emu'.ram = emu.ram /\ ~emu'.dirty
    BY <2>1, <2>2, CleanedCartridge
  <2>4. emu.ram \in Ram
    BY <2>1 DEF Cartridge
  <2>5. sav' \in [Roms -> {None} \union Ram] /\ sav'[path] = emu.ram
    BY <2>1, <2>2, <2>4 DEF TypeOK
  <2> QED
    BY <2>1, <2>2, <2>3, <2>5
<1>3. CASE SaveFailed(b)
  <2>1. UNCHANGED <<sav, emu, pending, unsaved>>
    BY <1>3 DEF SaveFailed
  <2>2. sav' \in [Roms -> {None} \union Ram] /\ emu' \in Cartridge \union {None}
        /\ pending' \in BOOLEAN /\ unsaved' \in BOOLEAN
    BY <2>1 DEF TypeOK
  <2> QED
    BY <2>1, <2>2
<1> QED
  BY <1>1, <1>2, <1>3 DEF Persist, SaveSucceeds

\* When it succeeds nothing is left to write.
LEMMA SavedIsClean ==
  ASSUME TypeOK, path # None => emu # None, MarksInv, pc # "off", NEW b \in BOOLEAN, SaveSucceeds(b)
  PROVE  ~unsaved' /\ (emu' # None => ~emu'.dirty)
<1> USE DEF current_rom_is_from_sd
<1>1. CASE SaveUnneeded(b)
  BY <1>1 DEF SaveUnneeded, NeedsWrite, MarksInv, NothingForgotten
<1>2. CASE SaveWritten(b)
  <2>1. emu \in Cartridge
    BY <1>2 DEF SaveWritten, NeedsWrite, TypeOK
  <2> QED
    BY <1>2, <2>1, CleanedCartridge DEF SaveWritten
<1> QED
  BY <1>1, <1>2 DEF SaveSucceeds

LEMMA SaveStepEffect ==
  ASSUME SaveStep
  PROVE  /\ pc # "off" /\ UNCHANGED <<state, config, path, apu, quicksave, flags, world>>
         /\ UNCHANGED <<sav, emu, pending, unsaved>> \/ Persist(TRUE) \/ Persist(FALSE)
         /\ mode' \in {"on", "off"} \/ UNCHANGED mode
         /\ pc' \in {"capture", "prepare"} => SaveSucceeds(TRUE) \/ SaveSucceeds(FALSE)
<1>1. CASE SoftPower \/ Save \/ FlushRestored \/ FlushLaunched \/ BeginRescan \/ SaveAgain
           \/ PowerOff
  BY <1>1 DEF SoftPower, Save, FlushRestored, FlushLaunched, FlushRam, BeginRescan, SaveAgain, PowerOff,
     Persist
<1>2. CASE Launch \/ LoadLast
  <2>1. PICK target, restore : BeginLaunch(target, restore)
    BY <1>2 DEF Launch, LoadLast
  <2> QED
    BY <2>1 DEF BeginLaunch, Persist
<1> QED
  BY <1>1, <1>2 DEF SaveStep

-----------------------------------------------------------------------------
(* One lemma for each part of the invariant.                               *)

\* The steps that give the console no other game and keep all its flags.
Idling == ChangeSound \/ PrepareReady \/ PrepareFails \/ KeepGame \/ SwapOutFails
          \/ RetryFails \/ RecoveryFails \/ PowerCut

LEMMA IdlingEffect ==
  ASSUME Idling
  PROVE  /\ UNCHANGED <<files, emu, path, quicksave, pending, flags, mode, world>>
         /\ UNCHANGED unsaved \/ ~unsaved'
         /\ unsaved' \in {unsaved, FALSE}
  BY DEF Idling, ChangeSound, PrepareReady, PrepareFails, KeepGame, SwapOutFails, RetryFails,
     RecoveryFails, PowerCut, game

LEMMA FaultsStay == [Next]_vars => \A kinds : MayFail(kinds)' = MayFail(kinds)
<1> SUFFICES ASSUME [Next]_vars PROVE faults' = faults
  BY DEF MayFail
<1> USE DEF world
<1>1. CASE SaveStep
  BY <1>1, SaveStepEffect
<1>2. CASE Idling
  BY <1>2, IdlingEffect
<1>3. CASE Start \/ Play \/ Fault \/ WriteConfig \/ SaveSnapshot \/ LoadFromMemory
           \/ LoadFromDisk \/ LoadFails \/ SwapOut \/ SwapBack \/ FallBack \/ Activate
           \/ Remount \/ Reread
  BY <1>3 DEF Start, Play, Fault, WriteConfig, SaveSnapshot, LoadFromMemory, LoadFromDisk,
     LoadFails, SwapOut, SwapBack, FallBack, Activate, Remount, Reread
<1>4. CASE UNCHANGED vars
  BY <1>4 DEF vars
<1> QED
  BY <1>1, <1>2, <1>3, <1>4 DEF Next, SaveStep, Idling

\* TypeOK in three parts: what a game is, the flags, and where the console stands.
GameOK ==
  /\ sav \in [Roms -> {None} \union Ram]
  /\ state \in [Roms -> Cartridge \union {None}]
  /\ emu \in Cartridge \union {None} /\ quicksave \in Cartridge \union {None}
  /\ path \in Roms \union {None} /\ apu \in Roms \union {BuiltIn}
FlagsOK ==
  /\ pending \in BOOLEAN /\ ready \in BOOLEAN /\ unsaved \in BOOLEAN
  /\ disk_available \in BOOLEAN /\ last_available \in BOOLEAN
PlaceOK ==
  /\ config \in Roms \union {None} /\ last_rom \in Roms \union {None}
  /\ mode \in {"on", "off", "faulted"}
  /\ pc \in Labels
  /\ job = NoJob \/ job \in Job
  /\ clock \in 0..MaxPlay
  /\ faults \in Profiles

LEMMA TypeParts == TypeOK <=> GameOK /\ FlagsOK /\ PlaceOK
  BY DEF TypeOK, GameOK, FlagsOK, PlaceOK

\* The game writes its RAM: it stays the game it is.
LEMMA PlayedCartridge ==
  ASSUME TypeOK, Play
  PROVE  /\ emu \in Cartridge /\ emu' \in Cartridge /\ emu'.rom = emu.rom
         /\ emu'.dirty <=> path # None
<1> DEFINE ram == emu.ram \union {clock + 1}
           marked == current_rom_is_from_sd
<1>1. emu \in Cartridge /\ ram \in Ram
  BY PlayAssumption DEF Play, TypeOK, Cartridge, Ram
<1>2. marked \in BOOLEAN /\ (marked <=> path # None)
  BY DEF current_rom_is_from_sd
<1>3. emu' = [emu EXCEPT !.ram = ram, !.dirty = marked]
  BY DEF Play
<1> HIDE DEF ram, marked
<1> QED
  BY <1>1, <1>2, <1>3 DEF Cartridge

LEMMA StepGameType == IInv /\ [Next]_vars => GameOK'
<1> SUFFICES ASSUME IInv, [Next]_vars PROVE GameOK'
  OBVIOUS
<1> USE DEF files, game, flags, world
<1>0. TypeOK /\ GameOK /\ PlaceOK
  BY TypeParts DEF IInv
<1>1. CASE SaveStep
  <2>1. sav' \in [Roms -> {None} \union Ram] /\ emu' \in Cartridge \union {None}
    BY <1>0, <1>1, SaveStepEffect, PersistEffect DEF IInv, GameInv, GameOK
  <2> QED
    BY <1>0, <1>1, <2>1, SaveStepEffect DEF GameOK
<1>2. CASE Idling
  <2>1. apu' \in Roms \union {BuiltIn}
    <3>1. CASE PrepareReady \/ PrepareFails \/ RetryFails
      <4>1. apu' \in {apu, job.target} /\ pc \in {"prepare", "retry"}
        BY <3>1, NoneAssumption DEF PrepareReady, PrepareFails, RetryFails, CandidateReady,
           CandidateRejected, RomAllocationFails
      <4> QED
        BY <1>0, <4>1 DEF GameOK, IInv, JobInv, Launching
    <3>2. CASE KeepGame
      BY <1>0, <3>2 DEF KeepGame, RestoreApu, IInv, JobInv, Launching, Job
    <3>3. CASE ChangeSound \/ SwapOutFails \/ RecoveryFails \/ PowerCut
      BY <1>0, <3>3 DEF ChangeSound, SwapOutFails, RecoveryFails, PowerCut, GameOK
    <3> QED
      BY <1>2, <3>1, <3>2, <3>3 DEF Idling
  <2> QED
    BY <1>0, <1>2, <2>1, IdlingEffect DEF GameOK
<1>3. CASE Start \/ Fault \/ FallBack
  <2>1. Fresh(BuiltIn) \in Cartridge
    BY FreshCartridge
  <2> QED
    BY <1>0, <1>3, <2>1 DEF Start, Boot, Fault, FallBack, GameOK
<1>4. CASE Play
  BY <1>0, <1>4, PlayedCartridge DEF Play, GameOK
<1>5. CASE WriteConfig \/ LoadFails \/ Remount \/ Reread
  BY <1>0, <1>5 DEF WriteConfig, LoadFails, Remount, Reread, GameOK
<1>6. CASE SaveSnapshot
  <2>1. state' \in {state, [state EXCEPT ![path] = emu]} /\ quicksave' \in {quicksave, emu}
    BY <1>6 DEF SaveSnapshot, Capture
  <2>2. state' \in [Roms -> Cartridge \union {None}]
    BY <1>0, <2>1 DEF GameOK
  <2> QED
    BY <1>0, <1>6, <2>1, <2>2 DEF SaveSnapshot, GameOK
<1>7. CASE LoadFromMemory
  BY <1>0, <1>7 DEF LoadFromMemory, QuicksaveLoads, Restored, GameOK, Cartridge
<1>8. CASE LoadFromDisk
  <2>1. path \in Roms /\ state[path] \in Cartridge
    BY <1>0, <1>8 DEF LoadFromDisk, DiskOffered, current_rom_is_from_sd, GameOK
  <2> QED
    BY <1>0, <1>8, <2>1 DEF LoadFromDisk, Restored, GameOK, Cartridge
<1>9. CASE SwapOut
  BY <1>0, <1>9 DEF SwapOut, Capture, GameOK
<1>10. CASE SwapBack
  <2>1. job.previous \in Roms /\ quicksave \in Cartridge
    BY <1>0, <1>10 DEF SwapBack, IInv, JobInv, Unloaded, GameOK
  <2> QED
    BY <1>0, <1>10, <2>1 DEF SwapBack, GameOK, Cartridge
<1>11. CASE Activate
  <2>1. job.target \in Roms /\ job.candidate \in Cartridge
    BY <1>11 DEF Activate, IInv, JobInv, Launching
  <2> QED
    BY <1>0, <1>11, <2>1 DEF Activate, PrepareQuicksave, GameOK
<1>12. CASE UNCHANGED vars
  BY <1>0, <1>12 DEF vars, GameOK
<1> QED
  BY <1>1, <1>2, <1>3, <1>4, <1>5, <1>6, <1>7, <1>8, <1>9, <1>10, <1>11, <1>12
  DEF Next, SaveStep, Idling

LEMMA StepFlagsType == IInv /\ [Next]_vars => FlagsOK'
<1> SUFFICES ASSUME IInv, [Next]_vars PROVE FlagsOK'
  OBVIOUS
<1> USE DEF files, game, flags, world
<1>0. FlagsOK
  BY TypeParts DEF IInv
<1>1. CASE SaveStep
  <2>1. pending' \in BOOLEAN /\ unsaved' \in BOOLEAN
    BY <1>0, <1>1, SaveStepEffect, PersistEffect DEF IInv, GameInv, FlagsOK
  <2> QED
    BY <1>0, <1>1, <2>1, SaveStepEffect DEF FlagsOK
<1>2. CASE Idling
  BY <1>0, <1>2, IdlingEffect DEF FlagsOK
<1>3. CASE Start
  <2>1. ready' \in BOOLEAN /\ pending' = FALSE /\ unsaved' = FALSE /\ disk_available' = FALSE
    BY <1>3 DEF Start, Boot
  <2>2. last_available' \in BOOLEAN
    BY <1>3, LastIsRefreshed DEF Start, Boot
  <2> QED
    BY <2>1, <2>2 DEF FlagsOK
<1>4. CASE WriteConfig
  BY <1>0, <1>4, LastIsRefreshed DEF WriteConfig, FlagsOK
<1>5. CASE SaveSnapshot
  <2>1. UNCHANGED <<pending, unsaved, ready>> /\ disk_available' \in {disk_available, TRUE}
        /\ (last_available' = last_available \/ refresh_last_snapshot_availability)
    BY <1>5 DEF SaveSnapshot
  <2> QED
    BY <1>0, <2>1, LastIsRefreshed DEF FlagsOK
<1>6. CASE Remount
  <2>1. ready' \in BOOLEAN
    BY <1>6 DEF Remount
  <2> QED
    BY <1>0, <1>6, <2>1 DEF Remount, FlagsOK
<1>7. CASE Reread
  <2>1. UNCHANGED <<pending, unsaved, ready>>
    BY <1>7 DEF Reread
  <2>2. disk_available' \in BOOLEAN /\ last_available' \in BOOLEAN
    BY <1>7, CurrentIsRefreshed, LastIsRefreshed DEF Reread
  <2> QED
    BY <1>0, <2>1, <2>2 DEF FlagsOK
<1>8. CASE Activate
  <2>1. job.restore \in BOOLEAN
    BY <1>8 DEF Activate, IInv, JobInv, Launching, Job
  <2>2. disk_available' \in BOOLEAN
    BY <1>8, CurrentIsRefreshed DEF Activate
  <2> QED
    BY <1>0, <1>8, <2>1, <2>2 DEF Activate, FlagsOK
<1>9. CASE SwapOut \/ FallBack
  BY <1>0, <1>9 DEF SwapOut, FallBack, FlagsOK
<1>10. CASE SwapBack
  <2>1. job.previous_available \in BOOLEAN
    BY <1>10 DEF SwapBack, IInv, JobInv, Launching, Job
  <2> QED
    BY <1>0, <1>10, <2>1 DEF SwapBack, FlagsOK
<1>11. CASE Play \/ Fault \/ LoadFromMemory \/ LoadFromDisk
  <2> DEFINE marked == current_rom_is_from_sd
  <2>1. marked \in BOOLEAN
    BY DEF current_rom_is_from_sd
  <2>2. UNCHANGED flags /\ pending' \in {pending, marked} /\ unsaved' \in {unsaved, marked}
    BY <1>11 DEF Play, Fault, LoadFromMemory, LoadFromDisk, Restored
  <2> QED
    BY <1>0, <2>1, <2>2 DEF FlagsOK
<1>12. CASE LoadFails
  <2>1. disk_available' \in BOOLEAN
    BY <1>0, <1>12, Zenon DEF LoadFails, FlagsOK
  <2> QED
    BY <1>0, <1>12, <2>1 DEF LoadFails, FlagsOK
<1>13. CASE UNCHANGED vars
  BY <1>0, <1>13 DEF vars, FlagsOK
<1> QED
  BY <1>1, <1>2, <1>3, <1>4, <1>5, <1>6, <1>7, <1>8, <1>9, <1>10, <1>11, <1>12, <1>13
  DEF Next, SaveStep, Idling

\* The candidate of a launch is a cartridge of its ROM, saved or restored.
LEMMA CandidateIsOwn ==
  ASSUME IInv, job.target \in Roms, NEW candidate \in Candidates
  PROVE  /\ candidate \in Cartridge /\ candidate.rom = job.target /\ ~candidate.dirty
         /\ ~job.restore /\ ~MayFail({"read", "memory"}) => SavedAs(job.target, candidate.ram)
<1> DEFINE target == job.target
           saved == IF sav[target] = None THEN Fresh(target) ELSE [Fresh(target) EXCEPT !.ram = sav[target]]
<1>1. Fresh(target) \in Cartridge /\ Fresh(target).rom = target /\ Fresh(target).ram = {}
      /\ ~Fresh(target).dirty
  BY FreshCartridge
<1>2. sav[target] # None => sav[target] \in Ram
  BY DEF IInv, TypeOK
<1>3. saved \in Cartridge /\ saved.rom = target /\ ~saved.dirty /\ SavedAs(target, saved.ram)
  <2>1. CASE sav[target] = None
    BY <1>1, <2>1 DEF SavedAs
  <2>2. CASE sav[target] # None
    BY <1>1, <1>2, <2>2 DEF SavedAs, Cartridge
  <2> QED
    BY <2>1, <2>2
<1>4. CASE job.restore
  <2>1. candidate = state[target] /\ candidate # None
    BY <1>4 DEF Candidates
  <2> QED
    BY <1>4, <2>1 DEF IInv, TypeOK, OwnFiles, MarksInv, NothingForgotten
<1>5. CASE ~job.restore
  <2>1. candidate = saved \/ (candidate = Fresh(target) /\ MayFail({"read", "memory"}))
    BY <1>5 DEF Candidates
  <2> QED
    BY <1>1, <1>3, <1>5, <2>1
<1> QED
  BY <1>4, <1>5

LEMMA CandidateJob ==
  ASSUME NEW j \in Job, NEW c \in Cartridge
  PROVE  LET k == [j EXCEPT !.candidate = c]
         IN  /\ k \in Job /\ k.candidate = c
             /\ k.target = j.target /\ k.restore = j.restore
  BY DEF Job

\* What the steps that prepare a launch do to it.
LEMMA LaunchBegins ==
  ASSUME IInv, NEW target \in Roms, NEW restore \in BOOLEAN, BeginLaunch(target, restore)
  PROVE  \/ UNCHANGED <<pc, job>>
         \/ /\ pc' = "prepare" /\ job' \in Job /\ job'.target \in Roms
            /\ job'.apu = apu /\ job'.before = emu'
            /\ SaveSucceeds(TRUE)
<1>1. emu' \in Cartridge \union {None} /\ apu \in Roms \union {BuiltIn}
  BY PersistEffect DEF BeginLaunch, Persist, IInv, GameInv, TypeOK
<1> DEFINE begun == [NoJob EXCEPT !.target = target, !.restore = restore, !.apu = apu,
                                  !.before = emu']
<1>2. begun \in Job /\ begun.target = target /\ begun.apu = apu /\ begun.before = emu'
  BY <1>1 DEF NoJob, Job
<1>3. UNCHANGED <<pc, job>> \/ (pc' = "prepare" /\ job' = begun /\ SaveSucceeds(TRUE))
  BY DEF BeginLaunch
<1> HIDE DEF begun
<1> QED
  BY <1>2, <1>3

LEMMA LaunchPrepares ==
  ASSUME IInv, PrepareReady
  PROVE  /\ job' \in Job /\ job'.target \in Roms /\ apu' = job'.target
         /\ job'.candidate \in Cartridge /\ job'.candidate.rom = job'.target
         /\ ~job'.candidate.dirty
         /\ ~job'.restore /\ ~MayFail({"read", "memory"}) => SavedAs(job'.target, job'.candidate.ram)
<1>1. job \in Job /\ job.target \in Roms /\ apu' = job.target
  BY DEF PrepareReady, CandidateReady, IInv, JobInv, Launching
<1>2. PICK candidate \in Candidates : job' = [job EXCEPT !.candidate = candidate]
  BY DEF PrepareReady, CandidateReady
<1>3. candidate \in Cartridge /\ candidate.rom = job.target /\ ~candidate.dirty
      /\ (~job.restore /\ ~MayFail({"read", "memory"}) => SavedAs(job.target, candidate.ram))
  BY <1>1, CandidateIsOwn
<1>4. job' \in Job /\ job'.candidate = candidate /\ job'.target = job.target
      /\ job'.restore = job.restore
  BY <1>1, <1>2, <1>3, CandidateJob
<1> QED
  BY <1>1, <1>3, <1>4

LEMMA LaunchSwapsOut ==
  ASSUME IInv, SwapOut
  PROVE  /\ job' \in Job /\ job'.target \in Roms /\ job'.before = job.before
         /\ job'.previous = path /\ path \in Roms /\ job'.previous_available = disk_available
         /\ emu \in Cartridge /\ emu.rom = path
<1>1. path \in Roms /\ emu \in Cartridge /\ disk_available \in BOOLEAN /\ job \in Job
      /\ job.target \in Roms /\ emu.rom = path
  BY RomsAssumption, NoneAssumption
  DEF SwapOut, current_rom_is_from_sd, IInv, TypeOK, GameInv, JobInv, Launching, OwnFiles
<1> DEFINE swapped == [job EXCEPT !.previous = path, !.previous_available = disk_available]
<1>2. /\ swapped \in Job /\ swapped.previous = path
      /\ swapped.previous_available = disk_available
      /\ swapped.target = job.target /\ swapped.before = job.before
  BY <1>1 DEF Job
<1>3. job' = swapped
  BY DEF SwapOut
<1> HIDE DEF swapped
<1> QED
  BY <1>1, <1>2, <1>3

LEMMA StepPlaceType == IInv /\ [Next]_vars => PlaceOK'
<1> SUFFICES ASSUME IInv, [Next]_vars PROVE PlaceOK'
  OBVIOUS
<1> USE DEF files, game, flags, world
<1>0. PlaceOK /\ GameOK
  BY TypeParts DEF IInv
<1>1. CASE SoftPower \/ Save \/ FlushRestored \/ FlushLaunched \/ BeginRescan \/ SaveAgain
           \/ PowerOff
  BY <1>0, <1>1 DEF SoftPower, Save, FlushRestored, FlushLaunched, FlushRam, BeginRescan, SaveAgain,
     PowerOff, PlaceOK, Labels
<1>2. CASE Launch \/ LoadLast
  <2>1. PICK target \in Roms, restore \in BOOLEAN : BeginLaunch(target, restore)
    BY <1>0, <1>2 DEF Launch, LoadLast, IInv, OffersInv, PlaceOK
  <2>2. UNCHANGED <<pc, job>> \/ (pc' = "prepare" /\ job' \in Job)
    BY <2>1, LaunchBegins
  <2>3. UNCHANGED <<config, last_rom, mode, clock, faults>>
    BY <2>1 DEF BeginLaunch
  <2> QED
    BY <1>0, <2>2, <2>3 DEF PlaceOK, Labels
<1>3. CASE PrepareReady
  <2>1. job' \in Job /\ pc' = "activate"
    BY <1>3, LaunchPrepares DEF PrepareReady
  <2> QED
    BY <1>0, <1>3, <2>1 DEF PrepareReady, PlaceOK, Labels
<1>4. CASE SwapOut
  <2>1. job' \in Job
    BY <1>4, LaunchSwapsOut
  <2> QED
    BY <1>0, <1>4, <2>1 DEF SwapOut, PlaceOK, Labels
<1>5. CASE ChangeSound \/ PrepareFails \/ KeepGame \/ SwapOutFails \/ RetryFails
           \/ RecoveryFails \/ PowerCut
  BY <1>0, <1>5 DEF ChangeSound, PrepareFails, KeepGame, SwapOutFails, RetryFails, RecoveryFails,
     PowerCut, PlaceOK, Labels, CandidateRejected, RomAllocationFails
<1>6. CASE Start
  BY <1>0, <1>6 DEF Start, Boot, PlaceOK, Labels
<1>7. CASE Play
  BY <1>0, <1>7, PlayAssumption DEF Play, PlaceOK
<1>8. CASE Fault \/ LoadFromMemory \/ LoadFromDisk \/ LoadFails \/ SaveSnapshot
  BY <1>0, <1>8 DEF Fault, LoadFromMemory, LoadFromDisk, LoadFails, SaveSnapshot, Restored,
     PlaceOK, Labels
<1>9. CASE WriteConfig
  BY <1>0, <1>9 DEF WriteConfig, GameOK, PlaceOK, Labels
<1>10. CASE SwapBack \/ FallBack \/ Activate \/ Remount \/ Reread
  BY <1>0, <1>10 DEF SwapBack, FallBack, Activate, Remount, Reread, PlaceOK, Labels
<1>11. CASE UNCHANGED vars
  BY <1>0, <1>11 DEF vars, PlaceOK
<1> QED
  BY <1>1, <1>2, <1>3, <1>4, <1>5, <1>6, <1>7, <1>8, <1>9, <1>10, <1>11 DEF Next

\* The game that runs is the same one after such a step, and no less saved.
LEMMA SaveStepKeepsGame ==
  ASSUME IInv, SaveStep
  PROVE  /\ emu = None => emu' = None
         /\ emu # None =>
              /\ emu' # None /\ emu'.rom = emu.rom /\ emu'.ram = emu.ram
              /\ emu'.dirty => emu.dirty
         /\ unsaved' => unsaved /\ UNCHANGED emu /\ (pending /\ path # None => pending')
         /\ path # None /\ ~pending' /\ ~emu'.dirty =>
              sav'[path] = emu'.ram \/ (UNCHANGED <<sav, emu>> /\ ~pending)
<1>1. TypeOK /\ (path # None => emu # None)
  BY DEF IInv, GameInv
<1>2. CASE UNCHANGED <<sav, emu, pending, unsaved>>
  BY <1>2
<1>3. CASE Persist(TRUE) \/ Persist(FALSE)
  BY <1>1, <1>3, PersistEffect
<1> QED
  BY <1>2, <1>3, SaveStepEffect

LEMMA StepOwn == IInv /\ [Next]_vars => OwnFiles'
<1> SUFFICES ASSUME IInv, [Next]_vars PROVE OwnFiles'
  OBVIOUS
<1> USE DEF files, game, flags, world
<1>0. TypeOK /\ OwnFiles /\ GameInv /\ (path # None => path \in Roms) /\ BuiltIn # None
  BY RomsAssumption DEF IInv, TypeOK
<1>1. CASE SaveStep
  BY <1>0, <1>1, SaveStepEffect, SaveStepKeepsGame DEF OwnFiles
<1>2. CASE Idling
  <2>1. UNCHANGED <<state, emu, path, quicksave>> /\ (pc' = "off" \/ pc # "off")
    BY <1>2, IdlingEffect DEF Idling, ChangeSound, PrepareReady, PrepareFails, KeepGame,
       SwapOutFails, RetryFails, RecoveryFails, PowerCut
  <2> QED
    BY <1>0, <2>1 DEF OwnFiles
<1>3. CASE Start
  BY <1>0, <1>3, FreshCartridge DEF Start, Boot, OwnFiles
<1>4. CASE FallBack
  BY <1>0, <1>4, FreshCartridge DEF FallBack, OwnFiles
<1>5. CASE Play
  <2>1. emu # None /\ emu'.rom = emu.rom
    BY <1>0, <1>5, PlayedCartridge DEF Play
  <2> QED
    BY <1>0, <1>5, <2>1 DEF Play, OwnFiles
<1>6. CASE Fault
  <2>1. CASE UNCHANGED emu
    BY <1>0, <1>6, <2>1 DEF Fault, OwnFiles
  <2>2. CASE emu # None /\ ~current_rom_is_from_sd /\ emu' = Fresh(BuiltIn)
    BY <1>0, <1>6, <2>2, FreshCartridge DEF Fault, current_rom_is_from_sd, OwnFiles
  <2> QED
    BY <1>6, <2>1, <2>2 DEF Fault
<1>7. CASE WriteConfig \/ LoadFails \/ Remount \/ Reread
  BY <1>0, <1>7 DEF WriteConfig, LoadFails, Remount, Reread, OwnFiles
<1>8. CASE SaveSnapshot
  <2>1. UNCHANGED <<emu, path>> /\ pc = "capture" /\ emu # None /\ emu.rom = (IF path = None THEN BuiltIn ELSE path)
    BY <1>0, <1>8 DEF SaveSnapshot, GameInv, OwnFiles
  <2>2. quicksave' \in {quicksave, emu}
        /\ (UNCHANGED state \/ (path # None /\ state' = [state EXCEPT ![path] = emu]))
    BY <1>8 DEF SaveSnapshot, Capture, current_rom_is_from_sd
  <2>3. \A rom \in Roms : state'[rom] = state[rom] \/ (rom = path /\ state'[rom] = emu)
    BY <1>0, <2>2 DEF TypeOK
  <2> QED
    BY <1>0, <2>1, <2>2, <2>3 DEF OwnFiles
<1>9. CASE LoadFromMemory
  BY <1>0, <1>9 DEF LoadFromMemory, QuicksaveLoads, Restored, OwnFiles
<1>10. CASE LoadFromDisk
  BY <1>0, <1>10 DEF LoadFromDisk, DiskOffered, current_rom_is_from_sd, Restored, OwnFiles
<1>11. CASE SwapOut
  BY <1>0, <1>11 DEF SwapOut, Capture, OwnFiles
<1>12. CASE SwapBack
  <2>1. job.previous \in Roms
    BY <1>12 DEF SwapBack, IInv, JobInv, Unloaded
  <2> QED
    BY <1>0, <1>12, <2>1, RomsAssumption DEF SwapBack, OwnFiles
<1>13. CASE Activate
  <2>1. job.target \in Roms /\ job.candidate.rom = job.target
    BY <1>13 DEF Activate, IInv, JobInv, Launching
  <2> QED
    BY <1>0, <1>13, <2>1, RomsAssumption DEF Activate, PrepareQuicksave, OwnFiles
<1>14. CASE UNCHANGED vars
  BY <1>0, <1>14 DEF vars, OwnFiles
<1> QED
  BY <1>1, <1>2, <1>3, <1>4, <1>5, <1>6, <1>7, <1>8, <1>9, <1>10, <1>11, <1>12, <1>13, <1>14
  DEF Next, SaveStep, Idling

\* Where such a step leads: a launch begins, or none is under way.
LEMMA SaveStepLeadsTo ==
  ASSUME IInv, SaveStep
  PROVE  /\ \/ pc \in {"idle", "flush"} /\ pc' # "config"
            \/ pc = "flush launched" /\ pc' = "config"
            \/ pc = "save again" /\ pc' = "reread"
         /\ \/ /\ pc' \in {"idle", "config", "capture", "remount", "remount and save", "reread", "off"}
               /\ pc' = "capture" => emu # None /\ SaveSucceeds(FALSE)
               /\ pc' = "off" => pc = "idle" /\ (SaveSucceeds(TRUE) \/ SaveFailed(TRUE))
               /\ pc' = "idle" => UNCHANGED job
            \/ /\ pc' = "prepare" /\ job' \in Job /\ job'.target \in Roms
               /\ job'.apu = apu /\ job'.before = emu' /\ UNCHANGED mode
               /\ SaveSucceeds(TRUE)
<1>1. CASE SoftPower \/ Save \/ FlushRestored \/ FlushLaunched \/ BeginRescan \/ SaveAgain
           \/ PowerOff
  BY <1>1 DEF SoftPower, Save, FlushRestored, FlushLaunched, FlushRam, BeginRescan, SaveAgain, PowerOff
<1>2. CASE Launch \/ LoadLast
  <2>1. PICK target \in Roms, restore \in BOOLEAN : BeginLaunch(target, restore)
    BY <1>2 DEF Launch, LoadLast, IInv, OffersInv, TypeOK
  <2> QED
    BY <2>1, LaunchBegins DEF BeginLaunch
<1> QED
  BY <1>1, <1>2 DEF SaveStep

LEMMA StepGame == IInv /\ [Next]_vars => GameInv'
<1> SUFFICES ASSUME IInv, [Next]_vars PROVE GameInv'
  OBVIOUS
<1> USE DEF files, game, flags, world, Loaded, Unloaded
<1>0. TypeOK /\ OwnFiles /\ GameInv
  BY DEF IInv
<1>1. CASE SaveStep
  BY <1>0, <1>1, SaveStepEffect, SaveStepKeepsGame, SaveStepLeadsTo DEF GameInv
<1>2. CASE ChangeSound \/ SwapOutFails \/ RetryFails \/ RecoveryFails \/ PowerCut
  BY <1>0, <1>2 DEF ChangeSound, SwapOutFails, RetryFails, RecoveryFails, PowerCut, GameInv
<1>3. CASE PrepareReady \/ PrepareFails
  BY <1>0, <1>3 DEF PrepareReady, PrepareFails, GameInv
<1>4. CASE KeepGame
  BY <1>0, <1>4 DEF KeepGame, RestoreApu, IInv, JobInv, GameInv
<1>5. CASE Start \/ FallBack
  BY <1>0, <1>5, FreshCartridge, NoneAssumption DEF Start, Boot, FallBack, GameInv
<1>6. CASE Play
  <2>1. emu # None /\ emu' # None /\ emu'.rom = emu.rom
    BY <1>0, <1>6, PlayedCartridge, NoneAssumption DEF Play
  <2> QED
    BY <1>0, <1>6, <2>1 DEF Play, GameInv
<1>7. CASE Fault
  <2>1. CASE UNCHANGED emu
    BY <1>0, <1>7, <2>1 DEF Fault, GameInv
  <2>2. CASE emu # None /\ ~current_rom_is_from_sd /\ emu' = Fresh(BuiltIn)
    BY <1>0, <1>7, <2>2, FreshCartridge DEF Fault, current_rom_is_from_sd, OwnFiles, GameInv
  <2> QED
    BY <1>7, <2>1, <2>2 DEF Fault
<1>8. CASE WriteConfig \/ LoadFails \/ Remount \/ Reread \/ SaveSnapshot
  BY <1>0, <1>8 DEF WriteConfig, LoadFails, Remount, Reread, SaveSnapshot, GameInv
<1>9. CASE LoadFromMemory \/ LoadFromDisk
  BY <1>0, <1>9 DEF LoadFromMemory, QuicksaveLoads, LoadFromDisk, Restored, GameInv
<1>10. CASE SwapOut
  BY <1>0, <1>10 DEF SwapOut, GameInv
<1>11. CASE SwapBack
  BY <1>0, <1>11 DEF SwapBack, GameInv
<1>12. CASE Activate
  <2>1. job.candidate \in Cartridge /\ job.candidate.rom = job.target /\ apu = job.target
    BY <1>12 DEF Activate, IInv, JobInv, Launching
  <2> QED
    BY <1>0, <1>12, <2>1, NoneAssumption DEF Activate, GameInv
<1>13. CASE UNCHANGED vars
  BY <1>0, <1>13 DEF vars, GameInv
<1> QED
  BY <1>1, <1>2, <1>3, <1>4, <1>5, <1>6, <1>7, <1>8, <1>9, <1>10, <1>11, <1>12, <1>13
  DEF Next, SaveStep

LEMMA StepJob == IInv /\ [Next]_vars => JobInv'
<1> SUFFICES ASSUME IInv, [Next]_vars PROVE JobInv'
  OBVIOUS
<1> USE DEF files, game, flags, world, Launching, Unloaded
<1>0. GameInv /\ JobInv
  BY DEF IInv
<1>1. CASE SaveStep
  BY <1>0, <1>1, SaveStepEffect, SaveStepKeepsGame, SaveStepLeadsTo DEF GameInv, JobInv, Loaded
<1>2. CASE PrepareReady
  BY <1>2, LaunchPrepares DEF PrepareReady, JobInv
<1>3. CASE SwapOut
  <2>1. pc = "prepare" /\ pc' = "retry" /\ UNCHANGED mode
        /\ (mode # "faulted" => quicksave' = emu)
    BY <1>3 DEF SwapOut, PreserveQuicksave, Capture
  <2> QED
    BY <1>0, <1>3, <2>1, LaunchSwapsOut DEF JobInv
<1>4. CASE PrepareFails
  <2>1. UNCHANGED job /\ pc = "prepare" /\ pc' = "rejected" /\ UNCHANGED emu
    BY <1>4 DEF PrepareFails, CandidateRejected, RomAllocationFails
  <2> QED
    BY <1>0, <2>1 DEF JobInv
<1>5. CASE RetryFails
  <2>1. UNCHANGED <<job, mode, quicksave>> /\ pc = "retry" /\ pc' = "recover"
    BY <1>5 DEF RetryFails, CandidateRejected, RomAllocationFails
  <2> QED
    BY <1>0, <2>1 DEF JobInv
<1>6. CASE ChangeSound \/ KeepGame \/ SwapOutFails \/ RecoveryFails \/ PowerCut \/ Start
           \/ Play \/ Fault \/ WriteConfig \/ LoadFails \/ Remount \/ Reread \/ SaveSnapshot
           \/ LoadFromMemory \/ LoadFromDisk \/ SwapBack \/ FallBack \/ Activate
  <2>1. pc' \notin {"prepare", "rejected", "retry", "recover", "activate"}
    BY <1>6 DEF ChangeSound, KeepGame, SwapOutFails, RecoveryFails, PowerCut, Start, Boot, Play,
       Fault, WriteConfig, LoadFails, Remount, Reread, SaveSnapshot, LoadFromMemory, LoadFromDisk,
       Restored, SwapBack, FallBack, Activate
  <2> QED
    BY <2>1 DEF JobInv
<1>7. CASE UNCHANGED vars
  BY <1>0, <1>7 DEF vars, JobInv
<1> QED
  BY <1>1, <1>2, <1>3, <1>4, <1>5, <1>6, <1>7 DEF Next, SaveStep

LEMMA StepMarks == IInv /\ [Next]_vars => MarksInv'
<1> SUFFICES ASSUME IInv, [Next]_vars PROVE MarksInv'
  OBVIOUS
<1> USE DEF files, game, flags, world, Launching, Flushed, current_rom_is_from_sd
<1>0. TypeOK /\ GameInv /\ JobInv /\ MarksInv /\ (path # None => emu # None)
  BY DEF IInv, GameInv
<1>1. CASE SaveStep
  <2>1. pc' \in {"capture", "prepare"} => ~unsaved' /\ (emu' # None => ~emu'.dirty)
    BY <1>0, <1>1, SaveStepEffect, SavedIsClean
  <2>2. UNCHANGED <<state, path, quicksave>> /\ pc # "off"
    BY <1>1, SaveStepEffect
  <2>3. pc' \notin {"rejected", "retry", "recover", "activate"}
    BY <1>1, SaveStepLeadsTo
  <2>4. NothingForgotten'
    BY <1>0, <1>1, <2>2, SaveStepKeepsGame DEF MarksInv, NothingForgotten
  <2> QED
    BY <1>0, <1>1, <2>1, <2>2, <2>3, <2>4, SaveStepKeepsGame DEF MarksInv
<1>2. CASE ChangeSound \/ SwapOutFails \/ RecoveryFails \/ RetryFails \/ PrepareFails
           \/ PrepareReady \/ KeepGame
  <2>1. UNCHANGED <<emu, path, quicksave, state, pending, unsaved>>
    BY <1>2, IdlingEffect DEF Idling, ChangeSound, SwapOutFails, RecoveryFails, RetryFails,
       PrepareFails, PrepareReady, KeepGame
  <2>2. /\ pc # "off"
        /\ pc' \in {"prepare", "rejected", "retry", "recover", "activate"} =>
             pc \in {"prepare", "retry"}
        /\ pc' \in {"capture", "prepare", "rejected"} => pc = "prepare"
    BY <1>2 DEF ChangeSound, SwapOutFails, RecoveryFails, RetryFails, PrepareFails,
       PrepareReady, KeepGame
  <2> QED
    BY <1>0, <2>1, <2>2 DEF MarksInv, NothingForgotten
<1>3. CASE PowerCut \/ Remount \/ Reread \/ WriteConfig \/ LoadFails
  <2>1. UNCHANGED <<emu, path, state, pending>> /\ quicksave' \in {quicksave, None}
        /\ (UNCHANGED unsaved \/ unsaved' = FALSE) /\ (pc # "off" \/ ~unsaved')
        /\ pc' \notin {"capture", "prepare", "rejected", "retry", "recover", "activate"}
    BY <1>3 DEF PowerCut, Remount, Reread, WriteConfig, LoadFails
  <2> QED
    BY <1>0, <2>1 DEF MarksInv, NothingForgotten
<1>4. CASE Start
  BY <1>0, <1>4, FreshCartridge DEF Start, Boot, MarksInv, NothingForgotten
<1>5. CASE FallBack
  BY <1>0, <1>5, FreshCartridge DEF FallBack, MarksInv, NothingForgotten
<1>6. CASE Play
  <2>1. emu \in Cartridge /\ emu' # None /\ (emu'.dirty <=> path # None)
    BY <1>0, <1>6, PlayedCartridge, NoneAssumption
  <2> QED
    BY <1>0, <1>6, <2>1 DEF Play, MarksInv, NothingForgotten
<1>7. CASE Fault
  <2>1. CASE UNCHANGED emu
    BY <1>0, <1>7, <2>1 DEF Fault, MarksInv, NothingForgotten
  <2>2. CASE path = None /\ emu' = Fresh(BuiltIn)
    BY <1>0, <1>7, <2>2, FreshCartridge DEF Fault, MarksInv, NothingForgotten
  <2> QED
    BY <1>7, <2>1, <2>2 DEF Fault
<1>8. CASE SaveSnapshot
  <2>1. pc = "capture" /\ pc' \notin {"capture", "prepare", "rejected", "retry", "recover",
          "activate", "off"}
        /\ UNCHANGED <<emu, path, pending, unsaved>>
    BY <1>8 DEF SaveSnapshot
  <2>2. quicksave' \in {quicksave, emu} /\ state' \in {state, [state EXCEPT ![path] = emu]}
    BY <1>8 DEF SaveSnapshot, Capture
  <2>3. \A rom \in Roms : state'[rom] \in {state[rom], emu}
    BY <1>0, <2>2 DEF TypeOK
  <2> QED
    BY <1>0, <2>1, <2>2, <2>3 DEF GameInv, MarksInv, NothingForgotten
<1>9. CASE LoadFromMemory
  BY <1>0, <1>9 DEF LoadFromMemory, QuicksaveLoads, Restored, MarksInv, NothingForgotten
<1>10. CASE LoadFromDisk
  <2>1. path \in Roms /\ state[path] # None /\ ~state[path].dirty
    BY <1>0, <1>10 DEF LoadFromDisk, DiskOffered, TypeOK, MarksInv, NothingForgotten
  <2> QED
    BY <1>0, <1>10, <2>1 DEF LoadFromDisk, Restored, MarksInv, NothingForgotten
<1>11. CASE SwapOut
  BY <1>0, <1>11 DEF SwapOut, Capture, MarksInv, NothingForgotten
<1>12. CASE SwapBack
  BY <1>0, <1>12 DEF SwapBack, MarksInv, NothingForgotten
<1>13. CASE Activate
  <2>1. job.target \in Roms /\ job.candidate \in Cartridge /\ ~job.candidate.dirty
    BY <1>0, <1>13 DEF Activate, JobInv
  <2> QED
    BY <1>0, <1>13, <2>1, RomsAssumption, NoneAssumption
    DEF Activate, PrepareQuicksave, MarksInv, NothingForgotten
<1>14. CASE UNCHANGED vars
  BY <1>0, <1>14 DEF vars, MarksInv, NothingForgotten
<1> QED
  BY <1>1, <1>2, <1>3, <1>4, <1>5, <1>6, <1>7, <1>8, <1>9, <1>10, <1>11, <1>12, <1>13, <1>14
  DEF Next, SaveStep

LEMMA StepSaved == IInv /\ [Next]_vars => SavedInv'
<1> SUFFICES ASSUME IInv, [Next]_vars, ~MayFail({"read", "memory"}) PROVE SavedInv'
  BY FaultsStay DEF SavedInv
<1> USE DEF files, game, flags, world, Launching, Unloaded, current_rom_is_from_sd
<1>0. TypeOK /\ GameInv /\ JobInv /\ SavedInv
  BY DEF IInv
<1>1. ~MayFail({"read"}) /\ ~MayFail({"memory"})
  BY DEF MayFail
<1>2. CASE SaveStep
  <2>1. path # None /\ ~pending' /\ ~emu'.dirty =>
          sav'[path] = emu'.ram \/ (sav'[path] = None /\ emu'.ram = {})
    BY <1>0, <1>2, SaveStepKeepsGame DEF SavedInv, SavedAs
  <2>2. pc' \notin {"retry", "recover", "activate"}
    BY <1>2, SaveStepLeadsTo
  <2> QED
    BY <1>2, <2>1, <2>2, SaveStepEffect DEF SavedInv, SavedAs
<1>3. CASE PrepareReady
  <2>1. ~job'.restore => SavedAs(job'.target, job'.candidate.ram)
    BY <1>1, <1>3, LaunchPrepares
  <2> QED
    BY <1>0, <1>3, <2>1 DEF PrepareReady, SavedInv, SavedAs
<1>4. CASE ChangeSound \/ SwapOutFails \/ RecoveryFails \/ PrepareFails \/ KeepGame \/ PowerCut
  BY <1>0, <1>4 DEF ChangeSound, SwapOutFails, RecoveryFails, PrepareFails, KeepGame, PowerCut,
     SavedInv, SavedAs
<1>5. CASE RetryFails \/ SwapOut \/ SwapBack \/ FallBack
  BY <1>0, <1>1, <1>5 DEF RetryFails, SwapOut, SwapBack, FallBack, SavedInv
<1>6. CASE Start
  BY <1>6 DEF Start, Boot, SavedInv
<1>7. CASE Play
  <2>1. emu'.dirty <=> path # None
    BY <1>0, <1>7, PlayedCartridge
  <2> QED
    BY <1>0, <1>7, <2>1 DEF Play, SavedInv
<1>8. CASE Fault \/ WriteConfig \/ LoadFails \/ Remount \/ Reread \/ SaveSnapshot
  BY <1>0, <1>8 DEF Fault, WriteConfig, LoadFails, Remount, Reread, SaveSnapshot, SavedInv, SavedAs
<1>9. CASE LoadFromMemory \/ LoadFromDisk
  BY <1>9 DEF LoadFromMemory, LoadFromDisk, Restored, SavedInv
<1>10. CASE Activate
  BY <1>0, <1>10 DEF Activate, SavedInv, SavedAs
<1>11. CASE UNCHANGED vars
  BY <1>0, <1>11 DEF vars, SavedInv, SavedAs
<1> QED
  BY <1>2, <1>3, <1>4, <1>5, <1>6, <1>7, <1>8, <1>9, <1>10, <1>11 DEF Next, SaveStep

LEMMA StepOffers == IInv /\ [Next]_vars => OffersInv'
<1> SUFFICES ASSUME IInv, [Next]_vars PROVE OffersInv'
  OBVIOUS
<1> USE DEF files, game, flags, world, Launching, Unloaded, Offering, current_rom_is_from_sd
<1>0. TypeOK /\ GameInv /\ JobInv /\ OffersInv /\ (MayFail({"read"})' <=> MayFail({"read"}))
      /\ (MayFail({"memory"})' <=> MayFail({"memory"}))
  BY FaultsStay DEF IInv
<1>1. CASE SaveStep
  <2>1. UNCHANGED <<state, path, flags>>
    BY <1>1, SaveStepEffect
  <2>2. /\ \/ pc \in {"idle", "flush"} \/ pc' = "reread"
           \/ pc = "flush launched" /\ pc' = "config"
        /\ pc' \notin {"flush launched", "rejected", "retry", "recover", "activate"}
    BY <1>1, SaveStepLeadsTo
  <2> QED
    BY <1>0, <2>1, <2>2 DEF OffersInv
<1>2. CASE ChangeSound \/ SwapOutFails \/ RecoveryFails \/ PowerCut \/ KeepGame
  <2>1. UNCHANGED <<state, path, flags>>
    BY <1>2 DEF ChangeSound, SwapOutFails, RecoveryFails, PowerCut, KeepGame
  <2>2. \/ pc \in {"idle", "prepare", "rejected"} /\ pc' \in {"idle", "config"}
        \/ path = None /\ pc \in {"recover"} /\ pc' = "idle"
        \/ pc' = "off"
    BY <1>0, <1>2 DEF ChangeSound, SwapOutFails, RecoveryFails, PowerCut, KeepGame, GameInv
  <2> QED
    BY <1>0, <2>1, <2>2 DEF OffersInv
<1>3. CASE PrepareReady \/ PrepareFails \/ RetryFails
  <2>1. UNCHANGED <<state, path, flags>>
    BY <1>3 DEF PrepareReady, PrepareFails, RetryFails
  <2>2. \/ pc \in {"prepare", "retry"} /\ pc' = "activate"
        \/ pc = "prepare" /\ pc' = "rejected" /\ UNCHANGED job
        \/ pc = "retry" /\ pc' = "recover" /\ UNCHANGED job
    BY <1>3 DEF PrepareReady, PrepareFails, RetryFails, CandidateRejected, RomAllocationFails
  <2> QED
    BY <1>0, <2>1, <2>2 DEF OffersInv
<1>4. CASE Start
  BY <1>0, <1>4, LastIsRefreshed DEF Start, Boot, OffersInv
<1>5. CASE FallBack
  BY <1>0, <1>5 DEF FallBack, OffersInv
<1>6. CASE Play \/ Fault \/ LoadFromMemory \/ LoadFromDisk \/ Remount
  <2>1. UNCHANGED <<state, path, disk_available, last_available, last_rom>>
    BY <1>6 DEF Play, Fault, LoadFromMemory, LoadFromDisk, Restored, Remount
  <2>2. \/ pc' \in {"idle", "flush"} /\ pc = "idle" /\ UNCHANGED ready
        \/ pc' \in {"save again", "reread"}
    BY <1>6 DEF Play, Fault, LoadFromMemory, LoadFromDisk, Restored, Remount
  <2>3. CASE pc' \in {"idle", "flush"} /\ pc = "idle" /\ UNCHANGED ready
    BY <1>0, <2>1, <2>3 DEF OffersInv
  <2>4. CASE pc' \in {"save again", "reread"}
    BY <1>0, <2>1, <2>4 DEF OffersInv
  <2> QED
    BY <2>2, <2>3, <2>4
<1>7. CASE WriteConfig
  <2>1. UNCHANGED <<state, path, disk_available, ready>> /\ pc = "config" /\ pc' = "idle"
    BY <1>7 DEF WriteConfig
  <2>2. /\ last_available' => last_rom' # None
        /\ ready' /\ ~MayFail({"read"}) =>
             last_available' = (last_rom' # None /\ state'[last_rom'] # None)
    BY <1>7, LastIsRefreshed DEF WriteConfig
  <2>3. ready' /\ ~MayFail({"read"}) =>
          /\ path' # None /\ disk_available' => state'[path'] # None
          /\ path' # None /\ state'[path'] # None /\ ~MayFail({"memory"}) => disk_available'
    BY <1>0, <2>1 DEF OffersInv
  <2> QED
    BY <1>0, <2>1, <2>2, <2>3 DEF OffersInv
<1>8. CASE SaveSnapshot
  <2>0. pc = "capture" /\ UNCHANGED <<last_rom, ready, path>>
    BY <1>8 DEF SaveSnapshot
  <2>1. CASE pc' = "idle" /\ UNCHANGED <<state, disk_available, last_available>>
    BY <1>0, <2>0, <2>1 DEF OffersInv
  <2>2. CASE /\ path # None /\ state' = [state EXCEPT ![path] = emu]
             /\ disk_available' = TRUE /\ pc' = "config" /\ UNCHANGED last_available
    <3>1. state'[path] # None
      BY <1>0, <2>0, <2>2 DEF TypeOK, GameInv
    <3> QED
      BY <1>0, <2>0, <2>2, <3>1 DEF OffersInv
  <2>3. CASE pc' = "idle" /\ UNCHANGED <<state, disk_available>> /\ refresh_last_snapshot_availability
    BY <1>0, <2>0, <2>3, LastIsRefreshed DEF OffersInv
  <2> QED
    BY <1>8, <2>1, <2>2, <2>3 DEF SaveSnapshot
<1>9. CASE LoadFails
  <2>1. pc = "idle" /\ pc' = "idle" /\ UNCHANGED <<state, path, last_available, last_rom, ready>>
        /\ disk_available' = (disk_available /\ ~DiskOffered)
        /\ (DiskOffered /\ ~MayFail({"read", "memory"}) => state[path] = None \/ state[path].rom # emu.rom)
    BY <1>9 DEF LoadFails
  <2>2. path # None /\ ready /\ ~MayFail({"read"}) /\ ~MayFail({"memory"}) => ~DiskOffered
    BY <1>0, <2>1 DEF OffersInv, DiskOffered, GameInv, IInv, OwnFiles, TypeOK, MayFail
  <2>3. /\ disk_available' => disk_available
        /\ path # None /\ ready /\ ~MayFail({"read"}) /\ ~MayFail({"memory"}) =>
             disk_available' = disk_available
    BY <1>0, <2>1, <2>2, Zenon DEF TypeOK
  <2> QED
    BY <1>0, <2>1, <2>3 DEF OffersInv
<1>10. CASE SwapOut
  <2>1. pc = "prepare" /\ pc' = "retry" /\ path # None /\ UNCHANGED <<state, flags>>
    BY <1>10 DEF SwapOut
  <2>2. job'.previous = path /\ job'.previous_available = disk_available
    BY <1>10, LaunchSwapsOut
  <2> QED
    BY <1>0, <2>1, <2>2 DEF OffersInv
<1>11. CASE SwapBack
  <2>1. ~MayFail({"read"}) => MayFail({"memory"})
    BY <1>11 DEF SwapBack, IInv, SavedInv, MayFail
  <2>2. /\ pc = "recover" /\ pc' = "idle" /\ UNCHANGED <<state, ready, last_available, last_rom>>
        /\ path' = job.previous /\ disk_available' = job.previous_available
    BY <1>11 DEF SwapBack
  <2> QED
    BY <1>0, <2>1, <2>2 DEF OffersInv
<1>12. CASE Activate
  <2>1. UNCHANGED <<state, ready, last_available, last_rom>>
        /\ pc = "activate" /\ pc' \in {"flush launched", "config"}
    BY <1>12 DEF Activate
  <2>2. path' # None /\ ready' /\ ~MayFail({"read"}) => disk_available' = (state'[path'] # None)
    BY <1>12, CurrentIsRefreshed DEF Activate
  <2> QED
    BY <1>0, <2>1, <2>2 DEF OffersInv
<1>13. CASE Reread
  <2>1. path' # None /\ ready' /\ ~MayFail({"read"}) => disk_available' = (state'[path'] # None)
    BY <1>13, CurrentIsRefreshed DEF Reread
  <2>2. /\ last_available' => last_rom' # None
        /\ ready' /\ ~MayFail({"read"}) =>
             last_available' = (last_rom' # None /\ state'[last_rom'] # None)
    BY <1>13, LastIsRefreshed DEF Reread
  <2> QED
    BY <1>0, <1>13, <2>1, <2>2 DEF Reread, OffersInv
<1>14. CASE UNCHANGED vars
  BY <1>0, <1>14 DEF vars, OffersInv
<1> QED
  BY <1>1, <1>2, <1>3, <1>4, <1>5, <1>6, <1>7, <1>8, <1>9, <1>10, <1>11, <1>12, <1>13, <1>14
  DEF Next, SaveStep

LEMMA StepRemember == IInv /\ [Next]_vars => RememberInv'
<1> SUFFICES ASSUME IInv, [Next]_vars, ~MayFail({"read", "write", "mount"}) PROVE RememberInv'
  BY FaultsStay DEF RememberInv
<1> USE DEF files, game, flags, world, Unloaded, current_rom_is_from_sd
<1>0. /\ RememberInv /\ GameInv /\ ready
      /\ ~MayFail({"read"}) /\ ~MayFail({"write"}) /\ ~MayFail({"mount"})
  BY DEF IInv, PowerInv, MayFail
<1>1. CASE SaveStep
  <2>1. UNCHANGED <<path, config, last_rom>> /\ pc # "off"
    BY <1>1, SaveStepEffect
  <2>2. /\ pc' \in {"flush launched", "config", "off"} \/ pc \notin {"flush launched", "config"}
        /\ pc' \notin {"retry", "recover"}
    BY <1>1, SaveStepLeadsTo
  <2> QED
    BY <1>0, <2>1, <2>2 DEF RememberInv
<1>2. CASE ChangeSound \/ SwapOutFails \/ RecoveryFails \/ PowerCut \/ KeepGame \/ PrepareReady
           \/ PrepareFails \/ RetryFails
  <2>1. UNCHANGED <<path, config, last_rom>>
    BY <1>2, IdlingEffect DEF Idling
  <2>2. /\ pc \notin {"flush launched", "config", "off"} \/ pc' = "off"
        /\ pc' \in {"retry", "recover"} => pc = "retry" /\ UNCHANGED job
    BY <1>2 DEF ChangeSound, SwapOutFails, RecoveryFails, PowerCut, KeepGame, PrepareReady,
       PrepareFails, RetryFails, CandidateRejected, RomAllocationFails
  <2> QED
    BY <1>0, <2>1, <2>2 DEF RememberInv
<1>3. CASE Start \/ FallBack
  BY <1>3 DEF Start, Boot, FallBack, RememberInv
<1>4. CASE Play \/ Fault \/ SaveSnapshot \/ LoadFromMemory \/ LoadFromDisk \/ LoadFails \/ Remount
  <2>1. UNCHANGED <<path, config, last_rom>>
        /\ pc \notin {"flush launched", "config", "off"} /\ pc' \notin {"retry", "recover"}
    BY <1>4 DEF Play, Fault, SaveSnapshot, LoadFromMemory, LoadFromDisk, Restored, LoadFails, Remount
  <2> QED
    BY <1>0, <2>1 DEF RememberInv
<1>5. CASE WriteConfig
  BY <1>0, <1>5 DEF WriteConfig, RememberInv
<1>6. CASE SwapOut
  <2>1. job'.previous = path
    BY <1>6, LaunchSwapsOut
  <2> QED
    BY <1>0, <1>6, <2>1 DEF SwapOut, RememberInv
<1>7. CASE SwapBack
  BY <1>0, <1>7 DEF SwapBack, RememberInv
<1>8. CASE Activate
  BY <1>8 DEF Activate, RememberInv
<1>9. CASE Reread
  BY <1>0, <1>9 DEF Reread, RememberInv
<1>10. CASE UNCHANGED vars
  BY <1>0, <1>10 DEF vars, RememberInv
<1> QED
  BY <1>1, <1>2, <1>3, <1>4, <1>5, <1>6, <1>7, <1>8, <1>9, <1>10 DEF Next, SaveStep

LEMMA StepPower == IInv /\ [Next]_vars => PowerInv'
<1> SUFFICES ASSUME IInv, [Next]_vars PROVE PowerInv'
  OBVIOUS
<1> USE DEF files, game, flags, world, current_rom_is_from_sd
<1>0. MarksInv /\ PowerInv /\ \A kinds : MayFail(kinds)' = MayFail(kinds)
  BY FaultsStay DEF IInv
<1>1. ~ready' => MayFail({"mount"})
  <2>1. CASE SaveStep
    BY <1>0, <2>1, SaveStepEffect DEF PowerInv
  <2>2. CASE Start \/ Remount
    BY <2>2 DEF Start, Boot, Remount
  <2>3. CASE UNCHANGED ready
    BY <1>0, <2>3 DEF PowerInv
  <2> QED
    BY <2>1, <2>2, <2>3 DEF Next, SaveStep, ChangeSound, SwapOutFails, RecoveryFails, PowerCut,
       KeepGame, PrepareReady, PrepareFails, RetryFails, FallBack, Play, Fault, LoadFromMemory,
       LoadFromDisk, Restored, WriteConfig, SaveSnapshot, LoadFails, SwapOut, SwapBack, Activate,
       Reread, vars
<1>2. pc' = "off" /\ ~MayFail({"write", "memory", "mount"}) => ~unsaved'
  <2> SUFFICES ASSUME pc' = "off", ~MayFail({"write", "memory", "mount"}) PROVE ~unsaved'
    OBVIOUS
  <2>1. ready /\ ~MayFail({"write", "memory"})
    BY <1>0 DEF PowerInv, MayFail
  <2>2. CASE SaveStep
    <3>1. pc = "idle" /\ SaveSucceeds(TRUE)
      BY <2>1, <2>2, SaveStepLeadsTo DEF SaveFailed
    <3> QED
      BY <1>0, <3>1, SavedIsClean DEF IInv, GameInv
  <2>3. CASE PowerCut
    BY <2>3 DEF PowerCut
  <2>4. CASE UNCHANGED vars
    BY <1>0, <2>4 DEF vars, PowerInv, ShutdownSaves
  <2> QED
    BY <2>2, <2>3, <2>4 DEF Next, SaveStep, Start, Boot, Remount, ChangeSound, SwapOutFails,
       RecoveryFails, KeepGame, PrepareReady, PrepareFails, RetryFails, FallBack, Play, Fault,
       LoadFromMemory, LoadFromDisk, Restored, WriteConfig, SaveSnapshot, LoadFails, SwapOut,
       SwapBack, Activate, Reread
<1> QED
  BY <1>0, <1>1, <1>2 DEF PowerInv, ShutdownSaves

-----------------------------------------------------------------------------
(* The theorems.                                                           *)

LEMMA InitInvariant == Init => IInv
<1> SUFFICES ASSUME Init PROVE IInv
  OBVIOUS
<1> USE DEF Init
<1>1. Fresh(BuiltIn) \in Cartridge /\ Fresh(BuiltIn).rom = BuiltIn /\ ~Fresh(BuiltIn).dirty
  BY FreshCartridge
<1>2. TypeOK
  <2>1. GameOK
    BY <1>1 DEF GameOK
  <2>2. FlagsOK
    BY Zenon DEF FlagsOK
  <2>3. PlaceOK
    BY PlayAssumption DEF PlaceOK, Labels
  <2> QED
    BY <2>1, <2>2, <2>3, TypeParts
<1>3. \A rom \in Roms : state[rom] = None
  OBVIOUS
<1>4. OwnFiles /\ GameInv
  BY <1>1, <1>3 DEF OwnFiles, GameInv, Loaded, Unloaded
<1>5. JobInv /\ OffersInv /\ RememberInv
  BY <1>3 DEF JobInv, OffersInv, RememberInv, Launching, Unloaded
<1>6. MarksInv
  BY <1>1, <1>3 DEF MarksInv, NothingForgotten, Flushed, Launching
<1>7. SavedInv /\ PowerInv
  BY DEF SavedInv, PowerInv, ShutdownSaves, Unloaded
<1> QED
  BY <1>2, <1>4, <1>5, <1>6, <1>7 DEF IInv

\* Every variable keeps the values the code gives it, every file, snapshot and flag
\* its owner, and every unwritten change its mark, in every order of the player's
\* requests and whatever fails.
THEOREM SessionInvariant == Spec => []IInv
<1>1. IInv /\ [Next]_vars => TypeOK'
  <2>1. TypeOK' <=> GameOK' /\ FlagsOK' /\ PlaceOK'
    BY DEF TypeOK, GameOK, FlagsOK, PlaceOK
  <2> QED
    BY <2>1, StepGameType, StepFlagsType, StepPlaceType
<1>2. IInv /\ [Next]_vars => IInv'
  BY <1>1, StepOwn, StepGame, StepJob, StepOffers, StepRemember, StepMarks, StepSaved, StepPower DEF IInv
<1> QED
  BY <1>2, InitInvariant, PTL DEF Spec

\* A game never runs with the files, the quicksave or the sound registers of another
\* one, LOAD and LOAD LAST are offered exactly when there is a snapshot to load, and
\* the path that LOAD LAST will go to is that of the game that runs: launches that
\* fail at any point, restores, swaps and rescans included.
THEOREM GamesAreKeptApart == Spec => []NothingMixedUp
<1>1. IInv => NothingMixedUp
  BY DEF IInv, NothingMixedUp, GameInv, Loaded, AudioFollowsGame, OffersInv, Offering,
     OffersAreTrue, RememberInv, GameIsRemembered
<1> QED
  BY <1>1, SessionInvariant, PTL

\* Cartridge RAM that is in no .sav file is marked for writing, what carries no mark
\* is in its .sav file, and switching off while writing works leaves nothing behind.
THEOREM ProgressStaysSafe == Spec => []ProgressIsSafe
<1>1. IInv => ProgressIsSafe
  BY DEF IInv, ProgressIsSafe, MarksInv, SavedInv, SavedAs, CleanMeansSaved, PowerInv
<1> QED
  BY <1>1, SessionInvariant, PTL

\* Only LOAD and a restart replace a cartridge that is not yet saved: no launch,
\* failed launch, fault or rescan does.
THEOREM UnsavedGamesAreKept == Spec => ProgressIsKept
<1>1. IInv /\ [Next]_vars => [GivesUpGame => Play \/ LoadFromMemory \/ LoadFromDisk \/ Start]_vars
  <2> SUFFICES ASSUME IInv, Next, unsaved, Content(emu') # Content(emu)
               PROVE  Play \/ LoadFromMemory \/ LoadFromDisk \/ Start
    BY DEF GivesUpGame
  <2> USE DEF files, game, current_rom_is_from_sd
  <2>1. emu' # emu
    BY DEF Content
  <2>2. ~SaveStep
    BY SaveStepKeepsGame DEF Content
  <2>3. ~(SwapOut \/ SwapBack \/ FallBack \/ Activate)
    BY DEF SwapOut, SwapBack, FallBack, Activate, IInv, MarksInv, Launching
  <2>4. ~Fault
    BY <2>1 DEF Fault, IInv, MarksInv
  <2>5. ~Idling
    BY <2>1, IdlingEffect
  <2>6. ~(WriteConfig \/ SaveSnapshot \/ LoadFails \/ Remount \/ Reread)
    BY <2>1 DEF WriteConfig, SaveSnapshot, LoadFails, Remount, Reread
  <2> QED
    BY <2>2, <2>3, <2>4, <2>5, <2>6 DEF Next, SaveStep, Idling
<1> QED
  BY <1>1, SessionInvariant, PTL DEF Spec, ProgressIsKept

\* The game a failed launch had to unload comes back exactly as it was, unless it
\* had crashed: the snapshot in memory is the one taken for the swap.
THEOREM FailedLaunchesGoBack == Spec => LaunchGoesBack
<1>1. IInv /\ [Next]_vars => [SwapBack /\ mode # "faulted" => emu' = job.before]_vars
  BY DEF SwapBack, IInv, JobInv, Unloaded
<1> QED
  BY <1>1, SessionInvariant, PTL DEF Spec, LaunchGoesBack
=============================================================================
