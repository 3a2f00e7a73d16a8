---------------------------- MODULE DurableFile ----------------------------
(***************************************************************************)
(* What the storage layer promises to the rest of the firmware about one   *)
(* file of the SD card: a write takes effect in one step or not at all, a  *)
(* write that reports success has taken effect, one that reports failure   *)
(* has not, and cutting the power at any moment keeps the old contents or  *)
(* the new ones.  README.md of the repository states it for .cfg, .sav and *)
(* .state files ("an interrupted update can recover the previous valid     *)
(* copy").  AtomicStore is the code that has to keep the promise.          *)
(***************************************************************************)
CONSTANTS
  Values,   \* the contents a caller may write
  Absent    \* no file

VARIABLES
  value,    \* what the card durably holds
  phase,    \* "idle", "reading", "writing" or "written"
  pending,  \* the contents being written, Absent when no write is running
  reply     \* the answer to the last call: [op, ok, data]

vars == <<value, phase, pending, reply>>

NoReply == [op |-> "none", ok |-> FALSE, data |-> Absent]

Init ==
  /\ value \in Values \union {Absent}
  /\ phase = "idle"
  /\ pending = Absent
  /\ reply = NoReply

BeginWrite(v) ==
  /\ phase = "idle"
  /\ phase' = "writing"
  /\ pending' = v
  /\ reply' = NoReply
  /\ UNCHANGED value

\* The only step that changes the contents.
Commit ==
  /\ phase = "writing"
  /\ phase' = "written"
  /\ value' = pending
  /\ UNCHANGED <<pending, reply>>

ReplyWrite ==
  /\ phase \in {"writing", "written"}
  /\ phase' = "idle"
  /\ pending' = Absent
  /\ reply' = [op |-> "write", ok |-> phase = "written", data |-> pending]
  /\ UNCHANGED value

BeginRead ==
  /\ phase = "idle"
  /\ phase' = "reading"
  /\ reply' = NoReply
  /\ UNCHANGED <<value, pending>>

\* A read may fail, but it never returns anything but the contents.
ReplyRead ==
  /\ phase = "reading"
  /\ phase' = "idle"
  /\ \/ reply' = [op |-> "read", ok |-> TRUE, data |-> value]
     \/ reply' = [op |-> "read", ok |-> FALSE, data |-> Absent]
  /\ UNCHANGED <<value, pending>>

\* A call refused before it touches the card.
Refuse ==
  /\ phase = "idle"
  /\ reply' \in [op: {"read", "write"}, ok: {FALSE}, data: Values \union {Absent}]
  /\ UNCHANGED <<value, phase, pending>>

PowerCut ==
  /\ phase' = "idle"
  /\ pending' = Absent
  /\ reply' = NoReply
  /\ UNCHANGED value

Next ==
  \/ \E v \in Values : BeginWrite(v)
  \/ Commit
  \/ ReplyWrite
  \/ BeginRead
  \/ ReplyRead
  \/ Refuse
  \/ PowerCut

Spec == Init /\ [][Next]_vars
=============================================================================
