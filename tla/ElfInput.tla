------------------------------ MODULE ElfInput ------------------------------
(***************************************************************************)
(* The input adapter of the ELF build, usb_hid_elf_adapter.cpp: its        *)
(* globals as one record, and what its functions do to them.  The owner    *)
(* task calls all of them but Sample, which the console calls; each takes  *)
(* the lock g_input_lock for what the two share.                           *)
(***************************************************************************)
EXTENDS Naturals, Sequences, SequencesExt

CONSTANTS
  QUEUE,     \* kKeyboardQueueCapacity
  Pads       \* the gamepad providers, g_gamepads, in order

PadSet == Range(Pads)
Capabilities == {"keyboard", "host"} \union PadSet

NoPad == [device |-> 0, connected |-> FALSE, down |-> FALSE]

\* lease: the capabilities held; usable: those whose interface is kept.
Fresh == [leases |-> {}, subscribed |-> FALSE, probed |-> FALSE,
          keys |-> {}, sampled |-> {}, queue |-> <<>>,
          source |-> [p \in PadSet |-> NoPad], active |-> "none", gamepad |-> FALSE]

----------------------------------------------------------------------------
\* mutant: a report that finds the queue full is forgotten
AcceptIfRoom(h, next, emit) ==
  IF ~emit THEN [h EXCEPT !.queue = <<>>, !.sampled = next, !.keys = next]
  ELSE IF Len(h.queue) = QUEUE THEN [h EXCEPT !.keys = next]
  ELSE [h EXCEPT !.queue = IF next # h.keys THEN Append(@, next) ELSE @, !.keys = next]

\* accept_keyboard: every state is queued for the console, which takes one per
\* frame; a queue that is full, or a state that is no event, jumps to the present.
Accept(h, next, emit) ==
  IF ~emit \/ Len(h.queue) = QUEUE
  THEN [h EXCEPT !.queue = <<>>, !.sampled = next, !.keys = next]
  ELSE [h EXCEPT !.queue = IF next # h.keys THEN Append(@, next) ELSE @, !.keys = next]

\* keyboard_snapshot; a snapshot that fails shows no key.
KeyboardSnapshot(h, down, works) == Accept(h, IF works THEN down ELSE {}, FALSE)

\* One event of the keyboard: a connection says nothing, a disconnection clears.
KeyboardEvent(h, event) ==
  CASE event.kind = "connected"    -> h
    [] event.kind = "disconnected" -> Accept(h, {}, FALSE)
    [] event.kind = "down"         -> Accept(h, h.keys \union {event.key}, TRUE)
    [] event.kind = "up"           -> Accept(h, h.keys \ {event.key}, TRUE)

\* usb_hid_gamepad_buttons: the console takes the oldest state that is queued.
Sample(h) ==
  IF h.queue = <<>> THEN h ELSE [h EXCEPT !.sampled = Head(h.queue), !.queue = Tail(h.queue)]

----------------------------------------------------------------------------
\* gamepad_snapshot: the device shown last if it is still there, else the first.
Current(h, p, devices, works) ==
  LET there == {d \in DOMAIN devices : devices[d] # "off"}
      d == IF h.source[p].device \in there THEN h.source[p].device
           ELSE CHOOSE d \in there : \A other \in there : d <= other
  IN IF ~works \/ there = {} THEN NoPad
     ELSE [device |-> d, connected |-> TRUE, down |-> devices[d] = "down"]

\* The first provider with a controller becomes the active one.
Chosen(source) ==
  IF \E p \in PadSet : source[p].connected
  THEN SelectInSeq(Pads, LAMBDA p : source[p].connected) ELSE 0

\* accept_gamepad after source.state = {}: while the active controller is there,
\* the other provider changes nothing but its own record.
AcceptGamepad(h, p, state) ==
  LET source == [h.source EXCEPT ![p] = state]
      next == Chosen(source)
  IN IF h.active # "none" /\ source[h.active].connected
     THEN [h EXCEPT !.source = source, !.gamepad = IF h.active = p THEN state.down ELSE @]
     ELSE IF next = 0 THEN [h EXCEPT !.source = source, !.active = "none", !.gamepad = FALSE]
     ELSE [h EXCEPT !.source = source, !.active = Pads[next],
                    !.gamepad = source[Pads[next]].down]

GamepadSnapshot(h, p, devices, works) == AcceptGamepad(h, p, Current(h, p, devices, works))

----------------------------------------------------------------------------
\* paperboy_usb_owner_begin: what is missing is asked for, and what comes without
\* a usable interface or subscription is given back at once.
Acquired(h, granted, devices, works) ==
  LET fresh == granted \ h.leases
      Begun[i \in 0..Len(Pads)] ==
        IF i = 0 THEN h
        ELSE IF Pads[i] \in fresh
        THEN GamepadSnapshot(Begun[i - 1], Pads[i], devices[Pads[i]], works)
        ELSE Begun[i - 1]
      begun == Begun[Len(Pads)]
  IN [h EXCEPT !.leases = @ \union fresh, !.subscribed = @ \/ "keyboard" \in fresh,
               !.source = begun.source, !.active = begun.active, !.gamepad = begun.gamepad]

\* mutant: the lease of the diagnostic probe is forgotten
ReleasedButHost(h) == [Fresh EXCEPT !.leases = h.leases \intersect {"host"}]

\* paperboy_usb_owner_end
Released(h) == Fresh
=============================================================================
