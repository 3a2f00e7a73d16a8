---------------------------- MODULE AtomicStore ----------------------------
(***************************************************************************)
(* paperboy_storage.cpp: one file of the SD card together with its ".tmp"  *)
(* and ".bak" companions, and the four calls that touch them.  Every call  *)
(* on the SD library is a step of its own, any of them may fail, and the   *)
(* power may go between any two.                                           *)
(*                                                                         *)
(* The card (external) is modelled by what the code relies on: rename is   *)
(* one directory update that refuses to replace an existing file, a call   *)
(* that reports failure has changed nothing, and a file being written is   *)
(* Torn until its last byte is on the card.                                *)
(***************************************************************************)
CONSTANTS
  Values,         \* contents a caller may write
  Absent,         \* no file of that name
  Torn            \* a file whose contents are not what the caller asked for

ASSUME ValuesAssumption == Absent \notin Values /\ Torn \notin Values /\ Absent # Torn

VARIABLES
  target,      \* contents of path
  backup,      \* contents of path.bak
  temporary,   \* contents of path.tmp
  sd_misses,   \* may SD.exists overlook a file that is there? (never changes)
  mounted,     \* g_status.mounted
  pc,          \* the SD call the running operation makes next
  call,        \* its arguments, and the error it will return once undone
  had_target,  \* local of paperboy_storage_write_blob_atomic
  result       \* what the last operation returned (g_status.error and outputs)

card == <<target, backup, temporary>>
vars == <<target, backup, temporary, sd_misses, mounted, pc, call, had_target, result>>

Errors == {"None", "NotMounted", "InvalidArgument", "FileTooLarge", "BufferTooSmall",
           "FileNotFound", "OpenFailed", "ReadFailed", "WriteFailed", "RenameFailed"}
ReadOps == {"exists", "size", "read"}
NoCall == [op |-> "none", data |-> Absent, error |-> "None"]
NoResult == [op |-> "none", error |-> "None", data |-> Absent]

\* What SD.exists may answer for a file with these contents.
Exists(file) == IF file = Absent THEN {FALSE}
                ELSE IF sd_misses THEN BOOLEAN ELSE {TRUE}

\* SD.rename succeeds only from an existing file to a free name.
CanRename(from, to) == from # Absent /\ to = Absent

Goto(label) == pc' = label
Return(error, data) ==
  /\ pc' = "idle"
  /\ call' = NoCall
  /\ had_target' = FALSE
  /\ result' = [op |-> call.op, error |-> error, data |-> data]
FailWrite(error) == Return(error, call.data)

Init ==
  /\ target \in Values \union {Absent}
  /\ backup = Absent
  /\ temporary = Absent
  /\ sd_misses \in BOOLEAN
  /\ mounted = FALSE
  /\ pc = "idle"
  /\ call = NoCall
  /\ had_target = FALSE
  /\ result = NoResult

-----------------------------------------------------------------------------
(* Mounting, and the calls as their callers see them.                      *)

Begin ==
  /\ pc = "idle" /\ ~mounted
  /\ mounted' = TRUE
  /\ UNCHANGED <<card, sd_misses, pc, call, had_target, result>>

End ==
  /\ pc = "idle" /\ mounted
  /\ mounted' = FALSE
  /\ UNCHANGED <<card, sd_misses, pc, call, had_target, result>>

Start(op, data) ==
  /\ pc = "idle" /\ mounted
  /\ Goto("recover")
  /\ call' = [op |-> op, data |-> data, error |-> "None"]
  /\ result' = NoResult
  /\ UNCHANGED <<card, mounted, sd_misses, had_target>>

StartRead == \E op \in ReadOps : Start(op, Absent)
StartWrite == \E v \in Values : Start("write", v)

\* The early returns: no card, or arguments the call does not accept.
Refuse ==
  /\ pc = "idle"
  /\ \/ /\ ~mounted
        /\ \E op \in ReadOps \union {"write"} :
             result' = [op |-> op, error |-> "NotMounted", data |-> Absent]
     \/ /\ mounted
        /\ \E op \in ReadOps \union {"write"} :
             result' = [op |-> op, error |-> "InvalidArgument", data |-> Absent]
     \/ /\ mounted
        /\ result' = [op |-> "write", error |-> "FileTooLarge", data |-> Absent]
  /\ UNCHANGED <<card, mounted, sd_misses, pc, call, had_target>>

-----------------------------------------------------------------------------
(* recover_atomic_target(path, require_clean): every call begins with it,  *)
(* a write with require_clean = true.                                      *)

RequireClean == call.op = "write"
AfterRecovery == IF call.op = "write" THEN "open_temporary" ELSE "open_target"

\* Only the backup is there: an interrupted update is rolled back.
RecoverPromote ==
  /\ pc = "recover"
  /\ FALSE \in Exists(target) /\ TRUE \in Exists(backup)
  /\ \/ /\ CanRename(backup, target)
        /\ target' = backup
        /\ backup' = Absent
        /\ Goto("recover_temporary")
        /\ UNCHANGED <<temporary, call, had_target, result>>
     \/ /\ Return("RenameFailed", call.data)
        /\ UNCHANGED card
  /\ UNCHANGED <<mounted, sd_misses>>

\* Mutant: with both copies there, the update is undone instead of kept.
RecoverDropTarget ==
  /\ pc = "recover"
  /\ TRUE \in Exists(target) /\ TRUE \in Exists(backup)
  /\ target' = Absent
  /\ Goto("recover_temporary")
  /\ UNCHANGED <<backup, temporary, mounted, sd_misses, call, had_target, result>>

\* Both are there: the update completed and its backup is stale.
RecoverDropBackup ==
  /\ pc = "recover"
  /\ TRUE \in Exists(target) /\ TRUE \in Exists(backup)
  /\ \/ /\ backup' = Absent
        /\ Goto("recover_temporary")
        /\ UNCHANGED <<call, had_target, result>>
     \/ /\ ~RequireClean
        /\ Goto("recover_temporary")
        /\ UNCHANGED <<backup, call, had_target, result>>
     \/ /\ RequireClean
        /\ FailWrite("WriteFailed")
        /\ UNCHANGED backup
  /\ UNCHANGED <<target, temporary, mounted, sd_misses>>

RecoverNoBackup ==
  /\ pc = "recover"
  /\ FALSE \in Exists(backup)
  /\ Goto("recover_temporary")
  /\ UNCHANGED <<card, mounted, sd_misses, call, had_target, result>>

RecoverTemporary ==
  /\ pc = "recover_temporary"
  /\ \/ /\ FALSE \in Exists(temporary)
        /\ Goto(AfterRecovery)
        /\ UNCHANGED <<temporary, call, had_target, result>>
     \/ /\ TRUE \in Exists(temporary)
        /\ temporary' = Absent
        /\ Goto(AfterRecovery)
        /\ UNCHANGED <<call, had_target, result>>
     \/ /\ TRUE \in Exists(temporary) /\ ~RequireClean
        /\ Goto(AfterRecovery)
        /\ UNCHANGED <<temporary, call, had_target, result>>
     \/ /\ TRUE \in Exists(temporary) /\ RequireClean
        /\ FailWrite("WriteFailed")
        /\ UNCHANGED temporary
  /\ UNCHANGED <<target, backup, mounted, sd_misses>>

-----------------------------------------------------------------------------
(* paperboy_storage_file_exists, _file_size and _read_blob after recovery. *)

\* For "exists" the answer is no when data is Absent.
AnswerExists ==
  /\ pc = "open_target" /\ call.op = "exists"
  /\ \E found \in Exists(target) :
       Return("None", IF found THEN target ELSE Absent)
  /\ UNCHANGED <<card, mounted, sd_misses>>

OpenTarget ==
  /\ pc = "open_target" /\ call.op \in {"size", "read"}
  /\ \/ /\ target # Absent
        /\ Return("None", target)
     \/ \E found \in Exists(target) :
          Return(IF found THEN "OpenFailed" ELSE "FileNotFound", Absent)
     \/ /\ target # Absent /\ call.op = "read"
        /\ \E error \in {"FileTooLarge", "BufferTooSmall", "ReadFailed"} :
             Return(error, Absent)
  /\ UNCHANGED <<card, mounted, sd_misses>>

-----------------------------------------------------------------------------
(* paperboy_storage_write_blob_atomic after recovery.                      *)

\* SD.remove(temporary_path) ahead of a failure return; its result is ignored.
DiscardTemporary ==
  /\ pc = "discard"
  /\ temporary' \in {temporary, Absent}
  /\ FailWrite(call.error)
  /\ UNCHANGED <<target, backup, mounted, sd_misses>>

GotoDiscard(error) ==
  /\ Goto("discard")
  /\ call' = [call EXCEPT !.error = error]

\* Opening for writing truncates the file.
OpenTemporary ==
  /\ pc = "open_temporary"
  /\ \/ /\ temporary' = Torn
        /\ Goto("write_temporary")
        /\ UNCHANGED <<call, had_target, result>>
     \/ /\ FailWrite("OpenFailed")
        /\ UNCHANGED temporary
  /\ UNCHANGED <<target, backup, mounted, sd_misses>>

\* write_exact, flush and close; what flush and close return is ignored, so
\* bytes may be missing although write_exact succeeded.
WriteTemporary ==
  /\ pc = "write_temporary"
  /\ \/ /\ temporary' \in {call.data, Torn}
        /\ Goto("verify")
        /\ UNCHANGED call
     \/ /\ GotoDiscard("WriteFailed")
        /\ UNCHANGED temporary
  /\ UNCHANGED <<target, backup, mounted, sd_misses, had_target, result>>

\* Mutant: the length is compared, the bytes are not.
VerifySizeOnly ==
  /\ pc = "verify"
  /\ Goto("back_up")
  /\ UNCHANGED <<card, mounted, sd_misses, call, had_target, result>>

\* The file is read back and compared before the old copy is touched.
VerifyTemporary ==
  /\ pc = "verify"
  /\ \/ /\ temporary = call.data
        /\ Goto("back_up")
        /\ UNCHANGED call
     \/ GotoDiscard("WriteFailed")
  /\ UNCHANGED <<card, mounted, sd_misses, had_target, result>>

BackUpTarget ==
  /\ pc = "back_up"
  /\ \/ /\ FALSE \in Exists(target)
        /\ had_target' = FALSE
        /\ Goto("install")
        /\ UNCHANGED <<target, backup, call>>
     \/ /\ TRUE \in Exists(target) /\ CanRename(target, backup)
        /\ had_target' = TRUE
        /\ backup' = target
        /\ target' = Absent
        /\ Goto("install")
        /\ UNCHANGED call
     \/ /\ TRUE \in Exists(target)
        /\ GotoDiscard("RenameFailed")
        /\ had_target' = TRUE
        /\ UNCHANGED <<target, backup>>
  /\ UNCHANGED <<temporary, mounted, sd_misses, result>>

InstallTemporary ==
  /\ pc = "install"
  /\ \/ /\ CanRename(temporary, target)
        /\ target' = temporary
        /\ temporary' = Absent
        /\ Goto("drop_backup")
        /\ UNCHANGED call
     \/ /\ call' = [call EXCEPT !.error = "RenameFailed"]
        /\ Goto(IF had_target THEN "restore" ELSE "discard")
        /\ UNCHANGED <<target, temporary>>
  /\ UNCHANGED <<backup, mounted, sd_misses, had_target, result>>

\* The old copy goes back under its name; the result of the rename is ignored.
RestoreTarget ==
  /\ pc = "restore"
  /\ \/ /\ CanRename(backup, target)
        /\ target' = backup
        /\ backup' = Absent
     \/ UNCHANGED <<target, backup>>
  /\ Goto("discard")
  /\ UNCHANGED <<temporary, mounted, sd_misses, call, had_target, result>>

DropBackup ==
  /\ pc = "drop_backup"
  /\ \/ had_target /\ TRUE \in Exists(backup) /\ backup' = Absent
     \/ UNCHANGED backup
  /\ Return("None", call.data)
  /\ UNCHANGED <<target, temporary, mounted, sd_misses>>

-----------------------------------------------------------------------------
\* Power lost, or the card pulled: RAM is gone, the card keeps what it has.
PowerCut ==
  /\ mounted' = FALSE
  /\ pc' = "idle"
  /\ call' = NoCall
  /\ had_target' = FALSE
  /\ result' = NoResult
  /\ UNCHANGED <<card, sd_misses>>

Recover == RecoverPromote \/ RecoverDropBackup \/ RecoverNoBackup \/ RecoverTemporary
Read == AnswerExists \/ OpenTarget
Write ==
  \/ DiscardTemporary \/ OpenTemporary \/ WriteTemporary \/ VerifyTemporary
  \/ BackUpTarget \/ InstallTemporary \/ RestoreTarget \/ DropBackup

Next ==
  \/ Begin \/ End
  \/ StartRead \/ StartWrite \/ Refuse
  \/ Recover \/ Read \/ Write
  \/ PowerCut

Spec == Init /\ [][Next]_vars

-----------------------------------------------------------------------------
(* What the file holds as far as the firmware is concerned: path itself,   *)
(* or its backup when only that is left.                                   *)
Durable == IF target # Absent THEN target ELSE backup

Labels == {"idle", "recover", "recover_temporary", "open_target", "open_temporary",
           "write_temporary", "verify", "back_up", "install", "restore", "discard",
           "drop_backup"}
WriteLabels == Labels \ {"idle", "recover", "recover_temporary", "open_target"}

TypeOK ==
  /\ target \in Values \union {Absent, Torn}
  /\ backup \in Values \union {Absent, Torn}
  /\ temporary \in Values \union {Absent, Torn}
  /\ sd_misses \in BOOLEAN
  /\ mounted \in BOOLEAN
  /\ pc \in Labels
  /\ call \in [op: ReadOps \union {"write", "none"}, data: Values \union {Absent}, error: Errors]
  /\ had_target \in BOOLEAN
  /\ result \in [op: ReadOps \union {"write", "none"}, error: Errors,
                 data: Values \union {Absent, Torn}]

\* A half-written file never gets the file's own name or the backup's name,
\* whatever fails and wherever the power goes: only path.tmp can be torn.
NeverTorn == target # Torn /\ backup # Torn

\* A read or size call that succeeds answers with the durable contents, and a
\* write that reports success has made its data the durable contents.
ResultsAreDurable ==
  /\ result.op \in {"size", "read", "write"} /\ result.error = "None" => result.data = Durable
  /\ result.op = "exists" /\ result.error = "None" /\ result.data # Absent => Durable # Absent

\* The firmware starts a game with blank save RAM when its .sav is "not found":
\* as long as SD.exists overlooks nothing, that answer is only given when
\* neither path nor path.bak holds a copy.
AbsenceIsReal ==
  /\ ~sd_misses
  /\ \/ result.error = "FileNotFound"
     \/ result.op = "exists" /\ result.error = "None" /\ result.data = Absent
  => Durable = Absent

\* A write that reports failure leaves no copy of its data that a later
\* recovery would bring to life: the durable contents are those before it, and
\* they change only when the verified temporary file is given the file's name.
DurableChangesOnlyByInstall ==
  [][Durable' # Durable => /\ pc = "install"
                           /\ Durable' = call.data]_vars

\* Once a write has got past recovery with an SD.exists that overlooks nothing it
\* works on a clean slate: no stale backup for its own backup rename to trip over.
WriteStartsClean ==
  /\ ~sd_misses
  /\ pc \in {"open_temporary", "write_temporary", "verify", "back_up"}
  => backup = Absent

\* What holds between any two SD calls, whatever failed before: every copy and every
\* answer can be trusted as far as it goes.
StoreIsSound == TypeOK /\ NeverTorn /\ ResultsAreDurable /\ AbsenceIsReal /\ WriteStartsClean

(* The promise, with the refinement mapping: the write is committed when   *)
(* the temporary file takes the file's name.                               *)
Phase == IF pc = "idle" THEN "idle"
         ELSE IF call.op # "write" THEN "reading"
         ELSE IF pc = "drop_backup" THEN "written" ELSE "writing"
Pending == IF call.op = "write" THEN call.data ELSE Absent
Reply == [op   |-> IF result.op \in ReadOps THEN "read" ELSE result.op,
          ok   |-> /\ result.op # "none" /\ result.error = "None"
                   /\ result.op = "exists" => result.data # Absent,
          data |-> result.data]

DF == INSTANCE DurableFile
        WITH value <- Durable, phase <- Phase, pending <- Pending, reply <- Reply

\* Every behaviour of the code, faults and power cuts included, is one the
\* promise allows.
KeepsThePromise == DF!Spec
=============================================================================
