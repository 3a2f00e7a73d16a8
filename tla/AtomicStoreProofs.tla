------------------------- MODULE AtomicStoreProofs -------------------------
(***************************************************************************)
(* Proofs about AtomicStore for every set of contents, and whether or not  *)
(* SD.exists tells the truth.                                              *)
(***************************************************************************)
EXTENDS AtomicStore, TLAPS

(* The inductive invariant: where an operation stands determines what it   *)
(* was called with and what it has already put on the card.                *)
CallMatchesLabel ==
  /\ call.op = "none" <=> pc = "idle"
  /\ pc \in WriteLabels => call.op = "write"
  /\ pc = "open_target" => call.op \in ReadOps
  /\ call.op = "write" => call.data \in Values
  /\ call.op # "write" => call.data = Absent
  /\ pc \in {"discard", "restore"} => call.error # "None"
  /\ call.error \in {"None", "WriteFailed", "RenameFailed"}

ProgressOnCard ==
  /\ pc \in {"back_up", "install"} => temporary = call.data
  /\ pc = "drop_backup" => target = call.data

IInv ==
  /\ TypeOK
  /\ CallMatchesLabel
  /\ ProgressOnCard
  /\ result.op # "none" => pc = "idle"
  /\ result.op = "none" => result.error = "None"
  /\ NeverTorn
  /\ ResultsAreDurable

(* What SD.exists can do to a behaviour is fixed at its start.               *)
LEMMA MissesAreRigid == [Next]_vars => sd_misses' = sd_misses
BY DEF vars, Next, Begin, End, StartRead, StartWrite, Start, Refuse, Recover, RecoverPromote,
       RecoverDropBackup, RecoverNoBackup, RecoverTemporary, Read, AnswerExists, OpenTarget, Write,
       DiscardTemporary, OpenTemporary, WriteTemporary, VerifyTemporary, BackUpTarget,
       InstallTemporary, RestoreTarget, DropBackup, PowerCut

LEMMA InitIInv == Init => IInv
<1> SUFFICES ASSUME Init PROVE IInv
  OBVIOUS
<1> USE ValuesAssumption DEF Init, NoCall, NoResult
<1>1. TypeOK
  BY DEF TypeOK, Labels, ReadOps, Errors
<1>2. CallMatchesLabel /\ ProgressOnCard
  BY DEF CallMatchesLabel, ProgressOnCard, Labels, WriteLabels, ReadOps
<1>3. NeverTorn /\ ResultsAreDurable
  BY DEF NeverTorn, ResultsAreDurable
<1> QED
  BY <1>1, <1>2, <1>3 DEF IInv

(* Every return establishes the invariant again, provided what it reports  *)
(* of a success is what the card durably holds by then.                    *)
LEMMA ReturnIInv ==
  ASSUME IInv, NEW error \in Errors, NEW data \in Values \union {Absent},
         Return(error, data), call.op # "none",
         mounted' = mounted, sd_misses' = sd_misses,
         target' \in Values \union {Absent}, backup' \in Values \union {Absent},
         temporary' \in Values \union {Absent, Torn},
         error = "None" => IF call.op = "exists" THEN data # Absent => Durable' # Absent
                                                ELSE data = Durable'
  PROVE  IInv'
<1> USE ValuesAssumption
<1>1. call.op \in ReadOps \union {"write"}
  BY DEF IInv, TypeOK, ReadOps
<1>2. /\ pc' = "idle" /\ had_target' = FALSE
      /\ call' = [op |-> "none", data |-> Absent, error |-> "None"]
      /\ result' = [op |-> call.op, error |-> error, data |-> data]
  BY DEF Return, NoCall
<1>3. TypeOK'
  BY <1>1, <1>2 DEF IInv, TypeOK, Labels, ReadOps, Errors
<1>4. CallMatchesLabel' /\ ProgressOnCard'
  BY <1>2 DEF CallMatchesLabel, ProgressOnCard, Labels, WriteLabels, ReadOps
<1>5. NeverTorn' /\ ResultsAreDurable'
  BY <1>1, <1>2 DEF NeverTorn, ResultsAreDurable, ReadOps
<1> QED
  BY <1>2, <1>3, <1>4, <1>5 DEF IInv

LEMMA StepIInv == IInv /\ [Next]_vars => IInv'
<1> SUFFICES ASSUME IInv, [Next]_vars PROVE IInv'
  OBVIOUS
<1> USE ValuesAssumption
      DEF IInv, TypeOK, CallMatchesLabel, ProgressOnCard, NeverTorn, ResultsAreDurable,
          Durable, Labels, WriteLabels, ReadOps, Errors, card
<1>0. sd_misses' = sd_misses
  BY MissesAreRigid
<1>1. CASE Begin
  BY <1>0, <1>1 DEF Begin
<1>2. CASE End
  <2>1. mounted' \in BOOLEAN
    BY <1>2, Zenon DEF End
  <2>2. UNCHANGED <<target, backup, temporary, pc, call, had_target, result>>
    BY <1>2 DEF End
  <2> QED
    BY <1>0, <2>1, <2>2
<1>3. CASE StartRead
  BY <1>3 DEF StartRead, Start, Goto, NoResult, ReadOps
<1>4. CASE StartWrite
  BY <1>4 DEF StartWrite, Start, Goto, NoResult, ReadOps
<1>5. CASE Refuse
  BY <1>5 DEF Refuse, ReadOps
<1>6. CASE RecoverPromote
  <2>1. CASE Return("RenameFailed", call.data) /\ UNCHANGED card
    BY <1>6, <2>1, <1>0, ReturnIInv DEF RecoverPromote
  <2>2. CASE CanRename(backup, target) /\ target' = backup /\ pc' = "recover_temporary"
    BY <1>6, <2>2 DEF RecoverPromote, CanRename
  <2> QED
    BY <1>6, <2>1, <2>2 DEF RecoverPromote, Goto
<1>7. CASE RecoverDropBackup
  <2>1. target # Absent /\ call.op # "none" /\ UNCHANGED <<target, temporary, mounted>>
    BY <1>7 DEF RecoverDropBackup, Exists
  <2>2. CASE FailWrite("WriteFailed") /\ UNCHANGED backup
    BY <2>1, <2>2, <1>0, ReturnIInv DEF FailWrite
  <2>3. CASE pc' = "recover_temporary" /\ backup' \in {Absent, backup}
                /\ UNCHANGED <<call, had_target, result>>
    BY <1>7, <2>1, <2>3 DEF RecoverDropBackup
  <2> QED
    BY <1>7, <2>2, <2>3 DEF RecoverDropBackup, Goto
<1>8. CASE RecoverNoBackup
  BY <1>8 DEF RecoverNoBackup, Goto
<1>9. CASE RecoverTemporary
  <2>1. pc = "recover_temporary" /\ UNCHANGED <<target, backup, mounted>>
    BY <1>9 DEF RecoverTemporary
  <2>2. CASE FailWrite("WriteFailed") /\ UNCHANGED temporary
    BY <2>1, <2>2, <1>0, ReturnIInv DEF FailWrite
  <2>3. CASE pc' = AfterRecovery /\ temporary' \in {Absent, temporary}
                /\ UNCHANGED <<call, had_target, result>>
    BY <1>0, <2>1, <2>3 DEF AfterRecovery
  <2> QED
    BY <1>9, <2>2, <2>3 DEF RecoverTemporary, Goto
<1>10. CASE AnswerExists
  <2>1. PICK found \in Exists(target) : Return("None", IF found THEN target ELSE Absent)
    BY <1>10 DEF AnswerExists
  <2>2. call.op = "exists" /\ UNCHANGED <<target, backup, temporary, mounted>>
    BY <1>10 DEF AnswerExists
  <2> QED
    BY <2>1, <2>2, <1>0, ReturnIInv
<1>11. CASE OpenTarget
  <2>1. /\ call.op \in {"size", "read"}
        /\ UNCHANGED <<target, backup, temporary, mounted>>
    BY <1>11 DEF OpenTarget
  <2>2. CASE target # Absent /\ Return("None", target)
    BY <2>1, <2>2, <1>0, ReturnIInv
  <2>3. ASSUME NEW error \in Errors \ {"None"}, Return(error, Absent)
        PROVE  IInv'
    BY <2>1, <2>3, <1>0, ReturnIInv
  <2> QED
    BY <1>11, <2>2, <2>3 DEF OpenTarget
<1>12. CASE DiscardTemporary
  BY <1>12 DEF DiscardTemporary, FailWrite, Return, NoCall
<1>13. CASE OpenTemporary
  <2>1. pc = "open_temporary" /\ UNCHANGED <<target, backup, mounted>>
    BY <1>13 DEF OpenTemporary
  <2>2. CASE FailWrite("OpenFailed") /\ UNCHANGED temporary
    BY <2>1, <2>2, <1>0, ReturnIInv DEF FailWrite
  <2>3. CASE pc' = "write_temporary" /\ temporary' = Torn
                /\ UNCHANGED <<call, had_target, result>>
    BY <1>0, <2>1, <2>3
  <2> QED
    BY <1>13, <2>2, <2>3 DEF OpenTemporary, Goto
<1>14. CASE WriteTemporary
  BY <1>14 DEF WriteTemporary, Goto, GotoDiscard
<1>15. CASE VerifyTemporary
  BY <1>15 DEF VerifyTemporary, Goto, GotoDiscard
<1>16. CASE BackUpTarget
  BY <1>16 DEF BackUpTarget, Goto, GotoDiscard, CanRename
<1>17. CASE InstallTemporary
  BY <1>17 DEF InstallTemporary, Goto, CanRename
<1>18. CASE RestoreTarget
  BY <1>18 DEF RestoreTarget, Goto, CanRename
<1>19. CASE DropBackup
  BY <1>19 DEF DropBackup, Return, NoCall
<1>20. CASE PowerCut
  BY <1>20 DEF PowerCut, NoCall, NoResult
<1>21. CASE UNCHANGED vars
  BY <1>21 DEF vars
<1> QED
  BY <1>1, <1>2, <1>3, <1>4, <1>5, <1>6, <1>7, <1>8, <1>9, <1>10, <1>11, <1>12, <1>13, <1>14,
     <1>15, <1>16, <1>17, <1>18, <1>19, <1>20, <1>21 DEF Next, Recover, Read, Write

(* The values of every variable stay those the code can produce, and only  *)
(* path.tmp is ever torn: no failing SD call and no power cut leaves a      *)
(* half-written file under the file's own name or as its backup.            *)
THEOREM InductiveInvariant == Spec => []IInv
BY InitIInv, StepIInv, PTL DEF Spec

THEOREM TypeCorrect == Spec => []TypeOK
<1>1. IInv => TypeOK
  BY DEF IInv
<1> QED
  BY <1>1, InductiveInvariant, PTL

THEOREM TornOnlyTemporary == Spec => []NeverTorn
<1>1. IInv => NeverTorn
  BY DEF IInv
<1> QED
  BY <1>1, InductiveInvariant, PTL

(* A call that reports success tells the truth about the card: a read has   *)
(* returned the durable contents, a write has made its data durable.        *)
THEOREM SuccessIsDurable == Spec => []ResultsAreDurable
<1>1. IInv => ResultsAreDurable
  BY DEF IInv
<1> QED
  BY <1>1, InductiveInvariant, PTL

(* Which steps move files, and what each does to the durable contents.      *)
LEMMA DurableStep ==
  IInv /\ [Next]_vars => \/ UNCHANGED Durable
                         \/ InstallTemporary /\ pc' = "drop_backup" /\ Durable' = call.data
<1> SUFFICES ASSUME IInv, [Next]_vars
             PROVE  \/ UNCHANGED Durable
                    \/ InstallTemporary /\ pc' = "drop_backup" /\ Durable' = call.data
  OBVIOUS
<1> USE ValuesAssumption DEF Durable, card
<1>1. CASE RecoverPromote
  BY <1>1 DEF RecoverPromote, CanRename
<1>2. CASE RecoverDropBackup
  BY <1>2 DEF RecoverDropBackup, Exists
<1>3. CASE BackUpTarget
  BY <1>3 DEF BackUpTarget, CanRename
<1>4. CASE InstallTemporary
  <2>1. temporary = call.data /\ call.data \in Values
    BY <1>4 DEF InstallTemporary, IInv, CallMatchesLabel, ProgressOnCard, WriteLabels, Labels
  <2> QED
    BY <1>4, <2>1 DEF InstallTemporary, CanRename, Goto
<1>5. CASE RestoreTarget
  BY <1>5 DEF RestoreTarget, CanRename
<1>6. CASE DropBackup
  <2>1. target \in Values
    BY <1>6 DEF DropBackup, IInv, CallMatchesLabel, ProgressOnCard, WriteLabels, Labels
  <2> QED
    BY <1>6, <2>1 DEF DropBackup
<1>7. CASE Begin \/ End \/ StartRead \/ StartWrite \/ Refuse \/ PowerCut
  BY <1>7 DEF Begin, End, StartRead, StartWrite, Start, Refuse, PowerCut
<1>8. CASE RecoverNoBackup \/ RecoverTemporary \/ Read
  BY <1>8 DEF RecoverNoBackup, RecoverTemporary, Read, AnswerExists, OpenTarget
<1>9. CASE DiscardTemporary \/ OpenTemporary \/ WriteTemporary \/ VerifyTemporary
  BY <1>9 DEF DiscardTemporary, OpenTemporary, WriteTemporary, VerifyTemporary
<1>10. CASE UNCHANGED vars
  BY <1>10 DEF vars
<1> QED
  BY <1>1, <1>2, <1>3, <1>4, <1>5, <1>6, <1>7, <1>8, <1>9, <1>10 DEF Next, Recover, Write

(* A write that fails or is interrupted never changes the durable contents  *)
(* except by the one rename that gives the verified data the file's name.   *)
THEOREM OnlyInstallChangesDurable == Spec => DurableChangesOnlyByInstall
<1>1. IInv /\ [Next]_vars =>
        [Durable' # Durable => pc = "install" /\ Durable' = call.data]_vars
  BY DurableStep DEF InstallTemporary
<1> QED
  BY <1>1, InductiveInvariant, PTL DEF Spec, DurableChangesOnlyByInstall

-----------------------------------------------------------------------------
(* Refinement of DurableFile.                                              *)

LEMMA RefinesInit == Init => DF!Init
BY ValuesAssumption
   DEF Init, DF!Init, DF!NoReply, Durable, Phase, Pending, Reply, NoCall, NoResult, ReadOps

(* A return ends the abstract operation with the answer it gives.           *)
LEMMA RefinesReturn ==
  ASSUME IInv, NEW error \in Errors, NEW data \in Values \union {Absent},
         Return(error, data), call.op # "none", UNCHANGED Durable,
         error = "None" => pc = "drop_backup" \/ call.op # "write",
         pc = "drop_backup" => error = "None",
         call.op = "write" => data = call.data,
         call.op # "write" /\ error # "None" => data = Absent,
         call.op # "write" /\ error = "None" /\ data # Durable
           => call.op = "exists" /\ data = Absent
  PROVE  DF!ReplyWrite \/ DF!ReplyRead
<1> USE DEF IInv, TypeOK, CallMatchesLabel
<1>1. /\ pc' = "idle" /\ Pending' = Absent /\ Phase' = "idle" /\ pc # "idle"
      /\ result' = [op |-> call.op, error |-> error, data |-> data]
  BY DEF Return, NoCall, Pending, Phase
<1>2. CASE call.op = "write"
  <2>1. Phase = IF pc = "drop_backup" THEN "written" ELSE "writing"
    BY <1>1, <1>2 DEF Phase
  <2>2. Reply' = [op |-> "write", ok |-> (Phase = "written"), data |-> Pending]
    BY <1>1, <1>2, <2>1 DEF Reply, Pending, ReadOps
  <2> QED
    BY <1>1, <1>2, <2>1, <2>2 DEF DF!ReplyWrite
<1>3. CASE call.op # "write"
  <2>1. Phase = "reading" /\ Pending = Absent
    BY <1>1, <1>3 DEF Phase, Pending
  <2>2. Reply' = [op |-> "read", ok |-> error = "None" /\ (call.op = "exists" => data # Absent),
                  data |-> data]
    BY <1>1, <1>3 DEF Reply, ReadOps
  <2> QED
    BY <1>1, <1>3, <2>1, <2>2 DEF DF!ReplyRead
<1> QED
  BY <1>2, <1>3

(* A step inside an operation is invisible.                                 *)
LEMMA RefinesInternal ==
  ASSUME IInv, UNCHANGED <<Durable, result>>, pc # "idle", pc' # "idle",
         call'.op = call.op, call'.data = call.data,
         pc = "drop_backup" <=> pc' = "drop_backup"
  PROVE  UNCHANGED DF!vars
BY DEF DF!vars, Phase, Pending, Reply

LEMMA RefinesStep == IInv /\ [Next]_vars => [DF!Next]_(DF!vars)
<1> SUFFICES ASSUME IInv, [Next]_vars PROVE DF!Next \/ UNCHANGED DF!vars
  OBVIOUS
<1> USE ValuesAssumption DEF card
<1>0. /\ call.op \in ReadOps \union {"write", "none"}
      /\ call.op = "none" <=> pc = "idle"
      /\ call.op # "write" => call.data = Absent
      /\ call.op = "write" => call.data \in Values
      /\ call.data \in Values \union {Absent}
      /\ call = [op |-> call.op, data |-> call.data, error |-> call.error]
  BY DEF IInv, TypeOK, CallMatchesLabel
<1>1. CASE Begin \/ End \/ UNCHANGED vars
  BY <1>1 DEF Begin, End, vars, DF!vars, Durable, Phase, Pending, Reply
<1>2. CASE StartRead
  <2>1. PICK op \in ReadOps : Start(op, Absent)
    BY <1>2 DEF StartRead
  <2>2. DF!BeginRead
    BY <1>0, <2>1 DEF Start, Goto, ReadOps, NoResult, DF!BeginRead, DF!NoReply,
                      Durable, Phase, Pending, Reply
  <2> QED
    BY <2>2 DEF DF!Next
<1>3. CASE StartWrite
  <2>1. PICK v \in Values : Start("write", v)
    BY <1>3 DEF StartWrite
  <2>2. DF!BeginWrite(v)
    BY <1>0, <2>1 DEF Start, Goto, ReadOps, NoResult, DF!BeginWrite, DF!NoReply,
                      Durable, Phase, Pending, Reply
  <2> QED
    BY <2>1, <2>2 DEF DF!Next
<1>4. CASE Refuse
  <2>1. PICK op \in ReadOps \union {"write"}, error \in Errors \ {"None"} :
          result' = [op |-> op, error |-> error, data |-> Absent]
    BY <1>4 DEF Refuse, Errors
  <2>2. Reply' \in [op : {"read", "write"}, ok : {FALSE}, data : Values \union {Absent}]
    BY <2>1 DEF Reply, ReadOps
  <2>3. pc = "idle" /\ UNCHANGED <<Durable, Phase, Pending>>
    BY <1>4 DEF Refuse, Durable, Phase, Pending
  <2> QED
    BY <2>2, <2>3 DEF DF!Next, DF!Refuse, Phase
<1>5. CASE PowerCut
  BY <1>5 DEF PowerCut, NoCall, NoResult, ReadOps, Durable, Phase, Pending, Reply,
              DF!Next, DF!PowerCut, DF!NoReply
<1>6. CASE RecoverPromote \/ RecoverDropBackup \/ RecoverNoBackup \/ RecoverTemporary
  <2>1. UNCHANGED Durable /\ pc \in {"recover", "recover_temporary"}
    BY <1>6, DurableStep DEF InstallTemporary, RecoverPromote, RecoverDropBackup,
                             RecoverNoBackup, RecoverTemporary
  <2>2. \/ \E error \in Errors \ {"None"} : Return(error, call.data)
        \/ pc' \in {"recover_temporary", "open_temporary", "open_target"}
           /\ UNCHANGED <<call, result>>
    BY <1>6 DEF RecoverPromote, RecoverDropBackup, RecoverNoBackup, RecoverTemporary,
                AfterRecovery, Goto, FailWrite, Errors
  <2>3. CASE \E error \in Errors \ {"None"} : Return(error, call.data)
    BY <1>0, <2>1, <2>3, RefinesReturn DEF DF!Next
  <2>4. CASE pc' \in {"recover_temporary", "open_temporary", "open_target"}
             /\ UNCHANGED <<call, result>>
    BY <2>1, <2>4, RefinesInternal
  <2> QED
    BY <2>2, <2>3, <2>4
<1>7. CASE Read
  <2>1. /\ UNCHANGED Durable /\ pc = "open_target" /\ call.op \in ReadOps
        /\ target = Absent \/ target = Durable
    BY <1>7 DEF Read, AnswerExists, OpenTarget, Durable, ReadOps
  <2>2. \/ \E error \in Errors \ {"None"} : Return(error, Absent)
        \/ Return("None", target) /\ target = Durable /\ target # Absent
        \/ call.op = "exists" /\ Return("None", Absent)
    BY <1>7, <2>1 DEF Read, AnswerExists, OpenTarget, Exists, Errors
  <2>3. target \in Values \union {Absent} /\ "None" \in Errors
    BY DEF IInv, TypeOK, NeverTorn, Errors
  <2>4. call.op # "none" /\ call.op # "write"
    BY <2>1 DEF ReadOps
  <2>5. CASE \E error \in Errors \ {"None"} : Return(error, Absent)
    BY <2>1, <2>4, <2>5, RefinesReturn DEF DF!Next
  <2>6. CASE Return("None", target) /\ target = Durable /\ target # Absent
    BY <2>1, <2>3, <2>4, <2>6, RefinesReturn DEF DF!Next
  <2>7. CASE call.op = "exists" /\ Return("None", Absent)
    BY <2>1, <2>3, <2>4, <2>7, RefinesReturn DEF DF!Next
  <2> QED
    BY <2>2, <2>5, <2>6, <2>7
<1>8. CASE DiscardTemporary
  <2>1. pc = "discard" /\ Return(call.error, call.data) /\ UNCHANGED Durable
    BY <1>8 DEF DiscardTemporary, FailWrite, Durable
  <2>2. call.op = "write" /\ call.error \in Errors \ {"None"}
    BY <2>1 DEF IInv, TypeOK, CallMatchesLabel, WriteLabels, Labels
  <2> QED
    BY <1>0, <2>1, <2>2, RefinesReturn DEF DF!Next
<1>9. CASE DropBackup
  <2>1. pc = "drop_backup" /\ Return("None", call.data) /\ UNCHANGED Durable
    BY <1>9, DurableStep DEF DropBackup, InstallTemporary
  <2>2. call.op = "write" /\ "None" \in Errors
    BY <2>1 DEF IInv, CallMatchesLabel, WriteLabels, Labels, Errors
  <2> QED
    BY <1>0, <2>1, <2>2, RefinesReturn DEF DF!Next
<1>10. CASE OpenTemporary
  <2>1. pc = "open_temporary" /\ UNCHANGED Durable /\ call.op = "write"
    BY <1>10 DEF OpenTemporary, Durable, IInv, CallMatchesLabel, WriteLabels, Labels
  <2>2. CASE Return("OpenFailed", call.data)
    BY <1>0, <2>1, <2>2, RefinesReturn DEF DF!Next, Errors
  <2>3. CASE pc' = "write_temporary" /\ UNCHANGED <<call, result>>
    BY <2>1, <2>3, RefinesInternal
  <2> QED
    BY <1>10, <2>2, <2>3 DEF OpenTemporary, FailWrite, Goto
<1>11. CASE InstallTemporary /\ pc' = "drop_backup"
  <2>1. /\ pc = "install" /\ call.op = "write" /\ UNCHANGED <<call, result>>
        /\ Durable' = call.data
    BY <1>11, DurableStep DEF InstallTemporary, Goto, CanRename, Durable, IInv,
                              CallMatchesLabel, ProgressOnCard, WriteLabels, Labels
  <2> QED
    BY <1>11, <2>1 DEF DF!Next, DF!Commit, Phase, Pending, Reply
<1>12. CASE \/ WriteTemporary \/ VerifyTemporary \/ BackUpTarget \/ RestoreTarget
            \/ InstallTemporary /\ pc' # "drop_backup"
  <2>1. /\ pc \in {"write_temporary", "verify", "back_up", "install", "restore"}
        /\ pc' \in {"verify", "back_up", "install", "restore", "discard"}
        /\ call' = [call EXCEPT !.error = call'.error]
        /\ UNCHANGED result
    BY <1>0, <1>12 DEF WriteTemporary, VerifyTemporary, BackUpTarget, RestoreTarget,
                       InstallTemporary, Goto, GotoDiscard
  <2>2. call'.op = call.op /\ call'.data = call.data
    BY <1>0, <2>1
  <2>3. UNCHANGED Durable
    BY <1>12, DurableStep DEF WriteTemporary, VerifyTemporary, BackUpTarget,
                              RestoreTarget, InstallTemporary
  <2> QED
    BY <2>1, <2>2, <2>3, RefinesInternal
<1> QED
  BY <1>1, <1>2, <1>3, <1>4, <1>5, <1>6, <1>7, <1>8, <1>9, <1>10, <1>11, <1>12
     DEF Next, Recover, Write

(* The storage code, with every fault and power cut it may meet, implements *)
(* the one-file promise: old contents or new, and no answer that lies.      *)
THEOREM Refinement == Spec => KeepsThePromise
<1>1. IInv /\ [Next]_vars => [DF!Next]_(DF!vars)
  BY RefinesStep
<1> QED
  BY <1>1, RefinesInit, InductiveInvariant, PTL DEF Spec, KeepsThePromise, DF!Spec

-----------------------------------------------------------------------------
(* When SD.exists tells the truth.  Recovery then leaves no copy behind     *)
(* under the backup's name alone, which is what makes "not found" mean it.  *)
RecoveredInv ==
  /\ pc \in {"recover_temporary", "open_target"} => target # Absent \/ backup = Absent
  /\ RequireClean /\ pc = "recover_temporary" => backup = Absent
  /\ WriteStartsClean
  /\ AbsenceIsReal

LEMMA ExistsIsTruthful ==
  ASSUME ~sd_misses, NEW file
  PROVE  /\ TRUE \in Exists(file) <=> file # Absent
         /\ FALSE \in Exists(file) <=> file = Absent
BY DEF Exists

(* An operation that returns keeps RecoveredInv if an absence it reports is *)
(* real.                                                                    *)
LEMMA ReturnRecoveredInv ==
  ASSUME NEW error, NEW data, Return(error, data),
         error = "FileNotFound" => Durable' = Absent,
         call.op = "exists" /\ error = "None" /\ data = Absent => Durable' = Absent
  PROVE  RecoveredInv'
BY DEF Return, NoCall, RecoveredInv, RequireClean, WriteStartsClean, AbsenceIsReal

(* So does one that goes on, keeping its result, if it has left no backup.   *)
LEMMA GotoRecoveredInv ==
  ASSUME AbsenceIsReal, IInv, pc # "idle", UNCHANGED result,
         pc' \in {"recover_temporary", "open_target"} => target' # Absent \/ backup' = Absent,
         RequireClean' /\ pc' = "recover_temporary" => backup' = Absent,
         pc' \in {"open_temporary", "write_temporary", "verify", "back_up"} => backup' = Absent
  PROVE  RecoveredInv'
<1>1. result.op = "none" /\ result' = result
  BY DEF IInv
<1>2. result.error = "None"
  BY <1>1 DEF IInv
<1> QED
  BY <1>1, <1>2 DEF RecoveredInv, WriteStartsClean, AbsenceIsReal

LEMMA StepRecoveredInv ==
  ASSUME ~sd_misses, IInv, RecoveredInv, [Next]_vars PROVE RecoveredInv'
<1> USE ValuesAssumption DEF card
<1>1. CASE Begin \/ End \/ PowerCut \/ UNCHANGED vars
  BY <1>1 DEF Begin, End, PowerCut, NoResult, NoCall, vars, Durable, RecoveredInv, RequireClean,
              WriteStartsClean, AbsenceIsReal
<1>2. CASE Refuse
  BY <1>2 DEF Refuse, RecoveredInv, RequireClean, WriteStartsClean, AbsenceIsReal
<1>3. CASE StartRead \/ StartWrite
  BY <1>3 DEF StartRead, StartWrite, Start, Goto, NoResult, RecoveredInv, RequireClean,
              WriteStartsClean, AbsenceIsReal
<1>4. CASE RecoverPromote \/ RecoverDropBackup \/ RecoverNoBackup
  <2>1. pc = "recover" /\ AbsenceIsReal
    BY <1>4 DEF RecoverPromote, RecoverDropBackup, RecoverNoBackup, RecoveredInv
  <2>2. \/ \E error \in {"RenameFailed", "WriteFailed"} : Return(error, call.data) /\ call.op # "none"
        \/ /\ pc' = "recover_temporary" /\ UNCHANGED <<call, result>>
           /\ target' # Absent \/ backup' = Absent
           /\ RequireClean => backup' = Absent
    BY <1>4, <2>1, ExistsIsTruthful
       DEF RecoverPromote, RecoverDropBackup, RecoverNoBackup, CanRename, Goto, FailWrite,
           IInv, CallMatchesLabel
  <2>3. CASE \E error \in {"RenameFailed", "WriteFailed"} : Return(error, call.data)
    BY <2>3, ReturnRecoveredInv
  <2>4. CASE /\ pc' = "recover_temporary" /\ UNCHANGED <<call, result>>
             /\ target' # Absent \/ backup' = Absent
             /\ RequireClean => backup' = Absent
    BY <2>1, <2>4, GotoRecoveredInv DEF RequireClean
  <2> QED
    BY <2>2, <2>3, <2>4
<1>5. CASE RecoverTemporary
  <2>1. pc = "recover_temporary" /\ UNCHANGED <<target, backup>>
    BY <1>5 DEF RecoverTemporary
  <2>2. CASE Return("WriteFailed", call.data)
    BY <2>2, ReturnRecoveredInv
  <2>3. CASE pc' = AfterRecovery /\ UNCHANGED <<call, result>>
    BY <2>1, <2>3, GotoRecoveredInv DEF AfterRecovery, RecoveredInv, RequireClean
  <2> QED
    BY <1>5, <2>2, <2>3 DEF RecoverTemporary, Goto, FailWrite
<1>6. CASE Read
  <2>1. pc = "open_target" /\ UNCHANGED <<target, backup>>
    BY <1>6 DEF Read, AnswerExists, OpenTarget
  <2>2. PICK error \in Errors, data \in {target, Absent} :
          /\ Return(error, data)
          /\ error = "FileNotFound" => target = Absent
          /\ call.op = "exists" /\ data = Absent => target = Absent
    <3>1. CASE AnswerExists
      <4>1. PICK found \in Exists(target) : Return("None", IF found THEN target ELSE Absent)
        BY <3>1 DEF AnswerExists
      <4>2. found => target # Absent
        BY <4>1, ExistsIsTruthful DEF Exists
      <4>3. ~found => target = Absent
        BY <4>1, ExistsIsTruthful DEF Exists
      <4> QED
        BY <4>1, <4>2, <4>3 DEF Errors
    <3>2. CASE OpenTarget /\ \E found \in Exists(target) :
                                Return(IF found THEN "OpenFailed" ELSE "FileNotFound", Absent)
      <4>1. PICK found \in Exists(target) :
              Return(IF found THEN "OpenFailed" ELSE "FileNotFound", Absent)
        BY <3>2
      <4>2. ~found => target = Absent
        BY <4>1 DEF Exists
      <4>3. call.op # "exists"
        BY <3>2 DEF OpenTarget
      <4> QED
        BY <4>1, <4>2, <4>3 DEF Errors
    <3>3. CASE OpenTarget /\ Return("None", target)
      BY <3>3 DEF OpenTarget, Errors
    <3>4. CASE OpenTarget /\ \E error \in {"FileTooLarge", "BufferTooSmall", "ReadFailed"} :
                                Return(error, Absent)
      BY <3>4 DEF OpenTarget, Errors
    <3> QED
      BY <1>6, <3>1, <3>2, <3>3, <3>4 DEF Read, OpenTarget
  <2>3. target = Absent => Durable' = Absent
    BY <2>1 DEF RecoveredInv, Durable
  <2> QED
    BY <2>2, <2>3, ReturnRecoveredInv
<1>7. CASE OpenTemporary \/ WriteTemporary \/ VerifyTemporary
  <2>1. /\ pc \in {"open_temporary", "write_temporary", "verify"} /\ UNCHANGED backup
        /\ backup = Absent
    BY <1>7 DEF OpenTemporary, WriteTemporary, VerifyTemporary, RecoveredInv, WriteStartsClean
  <2>2. CASE Return("OpenFailed", call.data)
    BY <2>2, ReturnRecoveredInv
  <2>3. CASE pc' \in {"write_temporary", "verify", "back_up", "discard"} /\ UNCHANGED result
    BY <2>1, <2>3, GotoRecoveredInv DEF RecoveredInv
  <2> QED
    BY <1>7, <2>2, <2>3 DEF OpenTemporary, WriteTemporary, VerifyTemporary, Goto, GotoDiscard,
                            FailWrite
<1>8. CASE BackUpTarget \/ InstallTemporary \/ RestoreTarget
  <2>1. /\ pc \in {"back_up", "install", "restore"} /\ UNCHANGED result
        /\ pc' \in {"install", "restore", "discard", "drop_backup"}
    BY <1>8 DEF BackUpTarget, InstallTemporary, RestoreTarget, Goto, GotoDiscard
  <2> QED
    BY <2>1, GotoRecoveredInv DEF RecoveredInv
<1>9. CASE DiscardTemporary \/ DropBackup
  <2>1. call.op = "write" /\ call.error # "FileNotFound"
    BY <1>9 DEF DiscardTemporary, DropBackup, IInv, CallMatchesLabel, WriteLabels, Labels
  <2>2. Return(call.error, call.data) \/ Return("None", call.data)
    BY <1>9 DEF DiscardTemporary, DropBackup, FailWrite
  <2> QED
    BY <2>1, <2>2, ReturnRecoveredInv
<1> QED
  BY <1>1, <1>2, <1>3, <1>4, <1>5, <1>6, <1>7, <1>8, <1>9 DEF Next, Recover, Write

LEMMA RecoveredInvariant == Spec => [](~sd_misses => RecoveredInv)
<1>1. Init => RecoveredInv
  BY DEF Init, NoCall, NoResult, RecoveredInv, RequireClean, WriteStartsClean, AbsenceIsReal
<1>2. IInv /\ (~sd_misses => RecoveredInv) /\ [Next]_vars => (~sd_misses => RecoveredInv)'
  BY StepRecoveredInv, MissesAreRigid
<1> QED
  BY <1>1, <1>2, InductiveInvariant, PTL DEF Spec

(* A file that is reported missing is missing: no copy of it is left under   *)
(* its backup's name either, unless SD.exists overlooked one.                *)
THEOREM MissingIsMissing == Spec => []AbsenceIsReal
<1>1. (~sd_misses => RecoveredInv) => AbsenceIsReal
  BY DEF RecoveredInv, AbsenceIsReal
<1> QED
  BY <1>1, RecoveredInvariant, PTL

(* ... and a write never starts with a stale backup in the way.              *)
THEOREM CleanSlate == Spec => []WriteStartsClean
<1>1. (~sd_misses => RecoveredInv) => WriteStartsClean
  BY DEF RecoveredInv, WriteStartsClean
<1> QED
  BY <1>1, RecoveredInvariant, PTL

(* All of it at once: what is claimed between any two calls on the card      *)
(* (paperboy_storage.cpp).                                                    *)
THEOREM StoreSound == Spec => []StoreIsSound
<1>1. TypeOK /\ NeverTorn /\ ResultsAreDurable /\ AbsenceIsReal /\ WriteStartsClean
        => StoreIsSound
  BY DEF StoreIsSound
<1> QED
  BY <1>1, TypeCorrect, TornOnlyTemporary, SuccessIsDurable, MissingIsMissing, CleanSlate, PTL
=============================================================================
