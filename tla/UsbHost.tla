------------------------------ MODULE UsbHost ------------------------------
(***************************************************************************)
(* The client of the USB host library that serves gamepads, keyboards and  *)
(* Xbox receivers: src/usb_hid_gamepad.cpp up to client_task.              *)
(*                                                                         *)
(* One task owns every global of the file: client_task calls               *)
(* usb_host_client_handle_events, in which the callbacks run (at =         *)
(* "events"), then looks at what they left behind ("check").  Trying the   *)
(* interfaces of a device is a loop of its own ("start", "advance").       *)
(* Around it: somebody who plugs and unplugs, the host library that ends   *)
(* the transfers it was given, and the console loop that polls the keys.   *)
(* Every library call may fail.                                            *)
(***************************************************************************)
EXTENDS Integers, Sequences

CONSTANTS
  Configs,        \* the configurations a device may have: sequences of interfaces
  MaxInterfaces,  \* kMaxInterfaces
  MaxErrors,      \* three failed reports in a row end the device
  MaxPlugs        \* bound: how often a device is plugged in

\* An interface as its descriptors show it.
Interface == [kind : {"xbox", "keyboard", "hid", "other"}, report : BOOLEAN]

ASSUME HostAssumption ==
  /\ Configs \subseteq Seq(Interface)
  /\ {MaxInterfaces, MaxErrors, MaxPlugs} \subseteq Nat \ {0}

VARIABLES
  plugs,      \* how many devices were plugged in so far
  dev,        \* the number of the device on the port, 0 when there is none
  config,     \* its configuration
  queue,      \* events the library has for this client
  opened,     \* library: the device this client holds open, 0 for none
  claimed,    \* library: one of its interfaces is claimed
  control,    \* the control transfer:   "none", "ready", "flight", "ended"
  interrupt,  \* the interrupt transfer: "none", "ready", "flight", "ended"
  at,         \* where client_task is
  g,          \* the globals of the file
  keys,       \* g_raw holds a pressed key
  actions,    \* g_pending_keyboard_actions is not empty
  fate,       \* history: what became of dev
  freedInFlight  \* history: a transfer was freed while the library had it

port    == <<plugs, dev, config>>
library == <<opened, claimed, control, interrupt>>
history == <<fate, freedInFlight>>
vars == <<port, queue, library, at, g, keys, actions, history>>

Xbox(i)     == i.kind = "xbox"
Keyboard(i) == i.kind = "keyboard"

Globals ==
  [device : 0..MaxPlugs, pending : 0..MaxPlugs,
   candidates : Seq(Interface), candidate : 0..MaxInterfaces,
   stage : {"Descriptor", "BootProtocol"},
   control_inflight : BOOLEAN, control_done : BOOLEAN,
   interrupt_inflight : BOOLEAN, interface_claimed : BOOLEAN,
   disconnect : BOOLEAN, errors : 0..MaxErrors,
   keyboard_active : BOOLEAN, xbox_active : BOOLEAN]

TypeOK ==
  /\ dev \in 0..MaxPlugs
  /\ config \in Configs
  /\ queue \in Seq({"new", "gone"} \X (1..MaxPlugs))
  /\ opened \in 0..MaxPlugs
  /\ claimed \in BOOLEAN
  /\ control \in {"none", "ready", "flight", "ended"}
  /\ interrupt \in {"none", "ready", "flight", "ended"}
  /\ at \in {"events", "check", "start", "advance"}
  /\ plugs \in 0..MaxPlugs
  /\ g \in Globals
  /\ keys \in BOOLEAN
  /\ actions \in BOOLEAN
  /\ fate \in {"waiting", "served", "refused"}
  /\ freedInFlight \in BOOLEAN

Init ==
  /\ dev = 0
  /\ plugs = 0
  /\ config \in Configs
  /\ queue = <<>>
  /\ opened = 0
  /\ claimed = FALSE
  /\ control = "none"
  /\ interrupt = "none"
  /\ at = "events"
  /\ g = [device |-> 0, pending |-> 0, candidates |-> <<>>, candidate |-> 0,
          stage |-> "Descriptor", control_inflight |-> FALSE, control_done |-> FALSE,
          interrupt_inflight |-> FALSE, interface_claimed |-> FALSE, disconnect |-> FALSE,
          errors |-> 0, keyboard_active |-> FALSE, xbox_active |-> FALSE]
  /\ keys = FALSE
  /\ actions = FALSE
  /\ fate = "waiting"
  /\ freedInFlight = FALSE

-----------------------------------------------------------------------------
(* The port, the library and the console loop. *)

\* The port enumerates a device only after the one before it is closed, and debouncing,
\* reset and enumeration take far longer than a round of client_task.
Plug ==
  /\ dev = 0 /\ opened = 0 /\ queue = <<>> /\ g.pending = 0
  /\ plugs < MaxPlugs
  /\ plugs' = plugs + 1
  /\ dev' = plugs'
  /\ config' \in Configs
  /\ queue' = Append(queue, <<"new", dev'>>)
  /\ fate' = "waiting"
  /\ UNCHANGED <<library, at, g, keys, actions, freedInFlight>>

\* Only a client that has the device open hears that it is gone.
Unplug ==
  /\ dev # 0
  /\ dev' = 0
  /\ queue' = IF opened = dev THEN Append(queue, <<"gone", dev>>) ELSE queue
  /\ UNCHANGED <<plugs, config, library, at, g, keys, actions, history>>

\* A submitted transfer ends; the callback runs when client_task handles events.
ControlEnds ==
  /\ control = "flight"
  /\ control' = "ended"
  /\ UNCHANGED <<port, queue, opened, claimed, interrupt, at, g, keys, actions, history>>

InterruptEnds ==
  /\ interrupt = "flight"
  /\ interrupt' = "ended"
  /\ UNCHANGED <<port, queue, opened, claimed, control, at, g, keys, actions, history>>

\* usb_hid_gamepad_buttons: the console loop reads the keys and takes the actions.
Poll ==
  /\ actions
  /\ actions' = FALSE
  /\ UNCHANGED <<port, queue, library, at, g, keys, history>>

-----------------------------------------------------------------------------
(* The callbacks, run while client_task handles events. *)

\* The library takes transfers for a device it knows to be there.
CanSubmit == dev = opened

ClearInput == keys' = FALSE /\ actions' = FALSE

OnClientEvent ==
  /\ at = "events" /\ queue # <<>>
  /\ queue' = Tail(queue)
  /\ LET kind == Head(queue)[1]
         d == Head(queue)[2]
     IN \/ /\ kind = "new"
           /\ g' = IF g.device = 0 /\ g.pending = 0 THEN [g EXCEPT !.pending = d] ELSE g
           /\ UNCHANGED <<keys, actions>>
        \/ /\ kind = "gone" /\ d = g.device
           /\ g' = [g EXCEPT !.disconnect = TRUE]
           /\ ClearInput
        \/ /\ kind = "gone" /\ d # g.device
           /\ UNCHANGED <<g, keys, actions>>
  /\ UNCHANGED <<port, library, at, history>>

OnControl ==
  /\ at = "events" /\ control = "ended"
  /\ control' = "ready"
  /\ g' = [g EXCEPT !.control_inflight = FALSE, !.control_done = TRUE]
  /\ UNCHANGED <<port, queue, opened, claimed, interrupt, at, keys, actions, history>>

\* What a report that arrived does to the keys and to the count of errors.
Decoded ==
  \/ /\ g.xbox_active
     /\ \/ ClearInput                            \* the pad left the receiver
        \/ UNCHANGED <<keys, actions>>           \* the pad joined, or nothing to say
        \/ keys' \in BOOLEAN /\ UNCHANGED actions
     /\ g' = [g EXCEPT !.errors = 0, !.interrupt_inflight = TRUE]
  \/ /\ ~g.xbox_active /\ g.keyboard_active
     /\ \/ /\ keys' \in BOOLEAN
           /\ actions' \in {actions, TRUE}
           /\ g' = [g EXCEPT !.errors = 0, !.interrupt_inflight = TRUE]
        \/ /\ keys' \in {keys, FALSE}            \* another report id, or a short report
           /\ g' = [g EXCEPT !.interrupt_inflight = TRUE]
           /\ UNCHANGED actions
  \/ /\ ~g.xbox_active /\ ~g.keyboard_active
     /\ \/ /\ keys' \in BOOLEAN
           /\ g' = [g EXCEPT !.errors = 0, !.interrupt_inflight = TRUE]
        \/ /\ g' = [g EXCEPT !.interrupt_inflight = TRUE]
           /\ UNCHANGED keys
     /\ UNCHANGED actions

\* The report is given up: the device goes.
GiveUp(errors) ==
  /\ g' = [g EXCEPT !.interrupt_inflight = FALSE, !.disconnect = TRUE, !.errors = errors]
  /\ ClearInput
  /\ interrupt' = "ready"

\* on_report: decode or count the error, then hand the transfer back to the library.
OnReport ==
  /\ at = "events" /\ interrupt = "ended"
  /\ \/ GiveUp(g.errors)                         \* device gone, or not resubmitted
     \/ /\ ~g.disconnect /\ CanSubmit            \* completed
        /\ Decoded
        /\ interrupt' = "flight"
     \/ /\ ~g.disconnect                         \* another status
        /\ \/ /\ g.errors + 1 >= MaxErrors
              /\ GiveUp(MaxErrors)
           \/ /\ g.errors + 1 < MaxErrors /\ CanSubmit
              /\ g' = [g EXCEPT !.errors = @ + 1, !.interrupt_inflight = TRUE]
              /\ interrupt' = "flight"
              /\ UNCHANGED <<keys, actions>>
  /\ UNCHANGED <<port, queue, opened, claimed, control, at, history>>

\* usb_host_client_handle_events returns when nothing is left to handle.
EventsHandled ==
  /\ at = "events"
  /\ queue = <<>>
  /\ "ended" \notin {interrupt, control}
  /\ at' = "check"
  /\ UNCHANGED <<port, queue, library, g, keys, actions, history>>

-----------------------------------------------------------------------------
(* The steps of client_task. *)

\* A submitted transfer belongs to the library until its callback has run.
Submitted(transfer) == transfer \in {"flight", "ended"}

\* usb_host_interface_release refuses while a transfer is submitted on the interface.
StillClaimed == claimed /\ Submitted(interrupt)

\* mutant: transfers are freed whether or not the library has them.
CloseDeviceAtOnce ==
  /\ ClearInput
  /\ freedInFlight' = (freedInFlight \/ Submitted(control) \/ Submitted(interrupt))
  /\ control' = "none"
  /\ interrupt' = "none"
  /\ claimed' = IF g.interface_claimed THEN StillClaimed ELSE claimed
  /\ opened' = IF g.device # 0 /\ ~claimed' THEN 0 ELSE opened
  /\ g' = [g EXCEPT !.interface_claimed = FALSE, !.device = 0, !.candidates = <<>>,
                    !.candidate = 0, !.pending = 0, !.control_done = FALSE,
                    !.keyboard_active = FALSE, !.xbox_active = FALSE, !.disconnect = FALSE]
  /\ fate' = IF dev = g.device THEN "refused" ELSE fate

\* mutant: the device is closed but g_device keeps its handle.
CloseDeviceKeepsHandle ==
  /\ ClearInput
  /\ IF g.control_inflight \/ g.interrupt_inflight
     THEN UNCHANGED <<library, g, history>>
     ELSE /\ control' = "none"
          /\ interrupt' = "none"
          /\ claimed' = IF g.interface_claimed THEN StillClaimed ELSE claimed
          /\ opened' = IF g.device # 0 /\ ~claimed' THEN 0 ELSE opened
          /\ g' = [g EXCEPT !.interface_claimed = FALSE, !.candidates = <<>>, !.candidate = 0,
                            !.pending = 0, !.control_done = FALSE, !.disconnect = FALSE]
          /\ fate' = IF dev = g.device THEN "refused" ELSE fate
          /\ UNCHANGED freedInFlight

\* close_device.  The library keeps a device open that has an interface claimed.
CloseDevice ==
  /\ ClearInput
  /\ IF g.control_inflight \/ g.interrupt_inflight
     THEN UNCHANGED <<library, g, history>>
     ELSE /\ freedInFlight' = (freedInFlight \/ Submitted(control) \/ Submitted(interrupt))
          /\ control' = "none"
          /\ interrupt' = "none"
          /\ claimed' = IF g.interface_claimed THEN StillClaimed ELSE claimed
          /\ opened' = IF g.device # 0 /\ ~claimed' THEN 0 ELSE opened
          /\ g' = [g EXCEPT !.interface_claimed = FALSE, !.device = 0, !.candidates = <<>>,
                            !.candidate = 0, !.pending = 0, !.control_done = FALSE,
                            !.keyboard_active = FALSE, !.xbox_active = FALSE,
                            !.disconnect = FALSE]
          /\ fate' = IF dev = g.device THEN "refused" ELSE fate

Disconnect ==
  /\ at = "check" /\ g.disconnect
  /\ CloseDevice
  /\ at' = "events"
  /\ UNCHANGED <<port, queue>>

Usable(i) == i.kind # "other" /\ (Xbox(i) \/ Keyboard(i) \/ i.report)

\* inspect_interfaces: what finish() keeps...
Kept(c) ==
  LET Found[n \in 0..Len(c)] ==
        IF n = 0 THEN <<>>
        ELSE IF Usable(c[n]) /\ Len(Found[n - 1]) < MaxInterfaces
        THEN Append(Found[n - 1], c[n])
        ELSE Found[n - 1]
  IN Found[Len(c)]

\* ... and a keyboard exchanged with each interface behind it that is none.
KeyboardBehind(s, i, j) ==
  IF Keyboard(s[i]) /\ ~Keyboard(s[j]) THEN [s EXCEPT ![i] = s[j], ![j] = s[i]] ELSE s

Exchanged(s, i) ==
  LET Seen[j \in i..Len(s)] == IF j = i THEN s ELSE KeyboardBehind(Seen[j - 1], i, j)
  IN Seen[Len(s)]

Candidates(c) ==
  LET found == Kept(c)
      Sorted[i \in 0..Len(found)] == IF i = 0 THEN found ELSE Exchanged(Sorted[i - 1], i)
  IN Sorted[Len(found)]

Candidate == g.candidates[g.candidate + 1]

\* request_descriptor and request_boot_protocol, from the globals h.
Requested(h, stage) ==
  /\ CanSubmit
  /\ control' = "flight"
  /\ g' = [h EXCEPT !.stage = stage, !.control_done = FALSE, !.control_inflight = TRUE]
  /\ at' = "events"
  /\ UNCHANGED <<opened, claimed, interrupt, keys, actions, fate>>

RequestFailed(h) ==
  /\ control' = "none"
  /\ g' = h
  /\ at' = "advance"
  /\ UNCHANGED <<opened, claimed, interrupt, keys, actions, fate>>

RequestDescriptor(h) ==
  \/ Candidate.report /\ Requested(h, "Descriptor")
  \/ RequestFailed(h)

\* activate_candidate from the globals h: claim, allocate, submit; each may fail.
Activate(h) ==
  LET mine == [h EXCEPT !.interface_claimed = TRUE, !.xbox_active = Xbox(Candidate)]
  IN /\ UNCHANGED opened
     /\ control' = "none"
     /\ \/ /\ g' = h                                        \* not claimed
           /\ at' = "advance"
           /\ UNCHANGED <<claimed, interrupt, keys, actions, fate>>
        \/ /\ claimed' = TRUE                               \* no transfer
           /\ g' = mine
           /\ at' = "advance"
           /\ UNCHANGED <<interrupt, keys, actions, fate>>
        \/ /\ claimed' = TRUE                               \* not submitted
           /\ interrupt' = "ready"
           /\ g' = [mine EXCEPT !.errors = 0]
           /\ ClearInput
           /\ at' = "advance"
           /\ UNCHANGED fate
        \/ /\ CanSubmit
           /\ claimed' = TRUE
           /\ interrupt' = "flight"
           /\ g' = [mine EXCEPT !.errors = 0, !.interrupt_inflight = TRUE]
           /\ ClearInput
           /\ at' = "events"
           /\ fate' = IF dev = h.device THEN "served" ELSE fate

\* start_candidate, of the first interface and of those after it.
StartCandidate ==
  /\ at = "start"
  /\ LET h == [g EXCEPT !.keyboard_active = FALSE, !.xbox_active = FALSE]
     IN \/ Xbox(Candidate) /\ Activate(h)
        \/ Keyboard(Candidate) /\ Requested(h, "BootProtocol")
        \/ ~Xbox(Candidate) /\ RequestDescriptor(h)
  /\ UNCHANGED <<port, queue, freedInFlight>>

\* mutant: the claim on the interface that failed is not given back.
NextCandidateKeepsClaim ==
  /\ at = "advance"
  /\ interrupt' = "none"
  /\ IF g.candidate + 1 < Len(g.candidates)
     THEN /\ g' = [g EXCEPT !.interface_claimed = FALSE, !.candidate = @ + 1]
          /\ at' = "start"
     ELSE /\ g' = [g EXCEPT !.candidate = Len(g.candidates), !.disconnect = TRUE]
          /\ at' = "events"
  /\ UNCHANGED <<port, queue, opened, claimed, control, keys, actions, history>>

\* next_candidate: give back what the interface took and go on to the one after it.
NextCandidate ==
  /\ at = "advance"
  /\ freedInFlight' = (freedInFlight \/ Submitted(interrupt))
  /\ interrupt' = "none"
  /\ claimed' = IF g.interface_claimed THEN StillClaimed ELSE claimed
  /\ IF g.candidate + 1 < Len(g.candidates)
     THEN /\ g' = [g EXCEPT !.interface_claimed = FALSE, !.candidate = @ + 1]
          /\ at' = "start"
     ELSE /\ g' = [g EXCEPT !.interface_claimed = FALSE, !.candidate = Len(g.candidates),
                            !.disconnect = TRUE]
          /\ at' = "events"
  /\ UNCHANGED <<port, queue, opened, control, keys, actions, fate>>

\* A control transfer is done: what it brought decides what the interface is.
ControlDone ==
  /\ at = "check" /\ ~g.disconnect
  /\ g.control_done /\ control # "none"
  /\ freedInFlight' = (freedInFlight \/ Submitted(control))
  /\ LET h == [g EXCEPT !.control_done = FALSE]
     IN \/ /\ g.stage = "BootProtocol"                      \* the keyboard agreed
           /\ Activate([h EXCEPT !.keyboard_active = TRUE])
        \/ /\ g.stage = "BootProtocol"                      \* it did not
           /\ RequestDescriptor(h)
        \/ /\ g.stage = "Descriptor"
           /\ \E keyboard \in BOOLEAN : Activate([h EXCEPT !.keyboard_active = keyboard])
        \/ /\ g.stage = "Descriptor"                        \* neither pad nor keyboard
           /\ RequestFailed(h)
  /\ UNCHANGED <<port, queue>>

\* A device was announced: open it and look at its interfaces.
OpenPending ==
  /\ at = "check" /\ ~g.disconnect
  /\ ~(g.control_done /\ control # "none")
  /\ g.device = 0 /\ g.pending # 0
  /\ LET found == Candidates(config)
         h == [g EXCEPT !.pending = 0]
     IN \/ /\ g' = h                                        \* not opened
           /\ at' = "events"
           /\ fate' = IF dev = g.pending THEN "refused" ELSE fate
           /\ UNCHANGED opened
        \/ /\ dev = g.pending
           /\ opened' = dev
           /\ \/ /\ found # <<>>
                 /\ g' = [h EXCEPT !.device = dev, !.candidates = found, !.candidate = 0]
                 /\ at' = "start"
              \/ /\ g' = [h EXCEPT !.device = dev, !.disconnect = TRUE]  \* or no config
                 /\ at' = "events"
           /\ UNCHANGED fate
  /\ UNCHANGED <<port, queue, claimed, control, interrupt, keys, actions, freedInFlight>>

NothingToDo ==
  /\ at = "check" /\ ~g.disconnect
  /\ ~(g.control_done /\ control # "none")
  /\ g.device # 0 \/ g.pending = 0
  /\ at' = "events"
  /\ UNCHANGED <<port, queue, library, g, keys, actions, history>>

ClientTask ==
  \/ OnClientEvent \/ OnControl \/ OnReport \/ EventsHandled
  \/ Disconnect \/ StartCandidate \/ NextCandidate \/ ControlDone
  \/ OpenPending \/ NothingToDo

Next == ClientTask \/ Plug \/ Unplug \/ ControlEnds \/ InterruptEnds \/ Poll

Spec == Init /\ [][Next]_vars

\* client_task keeps running; the library ends every control transfer, and a report that
\* waits for a device which is no longer there.
Fairness ==
  /\ WF_vars(ClientTask)
  /\ WF_vars(ControlEnds)
  /\ WF_vars(InterruptEnds /\ opened # dev)

FairSpec == Spec /\ Fairness

-----------------------------------------------------------------------------
(* What the client promises. *)

\* No transfer is freed while the library works on it ("Never free a submitted DMA
\* transfer"): neither on the way to the next interface nor when the device goes.
NeverFreedInFlight == ~freedInFlight

\* What the library holds for the client, the client knows of, so that it will be given
\* back: a device left open or an interface left claimed would shut the port for good.
NothingLeftBehind ==
  /\ opened = g.device
  /\ claimed <=> g.interface_claimed
  /\ g.device = 0 => control = "none" /\ interrupt = "none" /\ ~claimed
  /\ Submitted(interrupt) <=> g.interrupt_inflight
  /\ Submitted(control) <=> g.control_inflight

\* A key is held only while the reports of an open device can still release it.
KeysCanBeReleased == keys => g.interrupt_inflight /\ g.device # 0 /\ ~g.disconnect

\* inspect_interfaces keeps a keyboard behind everything else: while a keyboard is
\* served no interface after it is a gamepad.
GamepadsFirst ==
  \A i, j \in 1..Len(g.candidates) :
    i < j /\ Keyboard(g.candidates[i]) => Keyboard(g.candidates[j])

\* Between any two steps what the library holds, what the client holds and the keys it
\* shows agree.
HostIsInOrder == TypeOK /\ NothingLeftBehind /\ KeysCanBeReleased /\ GamepadsFirst

\* A device that is gone is closed, so that the port can take the next one.
GoneIsClosed == \A d \in 1..MaxPlugs : (opened = d /\ dev # d) ~> (opened # d)

\* A device that stays plugged in is served, or was tried and refused.
PluggedIsTried == \A d \in 1..MaxPlugs : (dev = d) ~> (dev # d \/ fate # "waiting")

\* No order of plugging and unplugging shuts the port for good.
EveryDeviceHasItsTurn == GoneIsClosed /\ PluggedIsTried

=============================================================================
