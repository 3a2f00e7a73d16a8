----------------------------- MODULE ElfSession -----------------------------
(***************************************************************************)
(* One run of the ELF build: app_main and the console task it creates (as  *)
(* riscrte/prepare_elf.py writes them), the calls that the console hands   *)
(* to the owner task (paperboy_storage_host.cpp), and the adapters for the *)
(* display, the USB input and the touch screen, which hold leases of the   *)
(* firmware's providers and may be used on the owner task only.            *)
(*                                                                         *)
(* Two tasks run: the owner, at `owner`, and the console, at `console`.    *)
(* Around them: the firmware, which may refuse a provider or fail a call;  *)
(* the compositor, which shows a frame and gives it back; and somebody who *)
(* presses keys and plugs controllers.                                     *)
(***************************************************************************)
EXTENDS ElfInput

CONSTANTS
  EVENTS,    \* the events a keyboard provider keeps for a subscriber
  BATCH,     \* the events one poll takes: 32
  Scenes     \* what happens in a session: records [calls, flaky, keys, devices, touch]
             \* with a bound on the console's calls, the providers that may be
             \* refused or fail, the keys and controllers there are, and whether
             \* somebody touches the screen

\* Where the owner task may be, beside the provider it polls.
Places == {"start", "create", "barrier", "begin", "touch begin", "release", "loop", "execute",
           "mark", "poll", "events", "probe", "touch", "sleep", "end", "close", "gone"}

\* There are providers, and each has a name of its own; limits are not zero.
ASSUME ElfAssumption ==
  /\ {QUEUE, EVENTS, BATCH} \subseteq Nat \ {0}
  /\ Pads \in Seq(STRING) \ {<<>>}
  /\ PadSet \intersect (Places \union {"keyboard", "host", "keys", "touches", "display", "none"}) = {}
  /\ \A s \in Scenes : s.calls \in Nat

VARIABLES
  scene,     \* the scene played; chosen once
  owner,     \* where the owner task is
  console,   \* where the console task is
  gives,     \* the notifications that wait for each task
  bus_ready, \* s_elf_display_bus_ready
  console_done,  \* g_console_done
  served,    \* the owner took a request in this turn of its loop
  slot,      \* g_owner_request points at the console's request
  request,   \* that request, on the console's stack: kind, result, done
  calls,     \* calls made so far
  ran,       \* history: how often the present request was executed
  display,   \* the display adapter: ready, lease, frame (surface.frame is set)
  frame,     \* the compositor: the frame is "free", "lent" or "shown"
  canvas,    \* the console has a pixel pointer that it may still draw through
  hid,       \* the input adapter, a record of ElfInput
  taken,     \* events taken by this poll
  touch,     \* the touch adapter: lease, available, touched
  held,      \* what the firmware has granted: leases and subscriptions
  keyboard,  \* the keys that are down; what waits for the subscriber; a gap in it
  pads,      \* the controllers of each provider: "off", "up" or "down"
  finger     \* somebody touches the screen

tasks    == <<owner, console, gives, bus_ready, console_done>>
rpc      == <<served, slot, request, calls, ran>>
picture  == <<display, frame, canvas>>
input    == <<hid, taken, touch>>
outside  == <<keyboard, pads, finger>>
vars == <<scene, tasks, rpc, picture, input, held, outside>>

\* "other": a call that leaves the adapters as they are, a file operation or
\* epd_video_submit_pending.
Kinds == {"other", "backbuffer", "can_submit", "submit"}
NoRequest == [kind |-> "none", result |-> FALSE, done |-> FALSE]
Answers(capability) == IF capability \in scene.flaky THEN BOOLEAN ELSE {TRUE}

TypeOK ==
  /\ scene \in Scenes
  /\ owner \in Places \union PadSet
  /\ console \in {"absent", "prepare", "gate", "run", "skip", "give", "wait", "note",
                  "wake", "gone"}
  /\ gives \in [{"owner", "console"} -> BOOLEAN]
  /\ {bus_ready, console_done, served, slot, canvas, finger} \subseteq BOOLEAN
  /\ request.kind \in Kinds \union {"none", "log"}
  /\ calls \in 0..scene.calls + 1
  /\ ran \in 0..2
  /\ frame \in {"free", "lent", "shown"}
  /\ hid.leases \subseteq Capabilities
  /\ Len(hid.queue) <= QUEUE
  /\ held \subseteq Capabilities \union {"display", "touch", "keys", "touches"}
  /\ Len(keyboard.events) <= EVENTS

Init ==
  /\ scene \in Scenes
  /\ owner = "start"
  /\ console = "absent"
  /\ gives = [t \in {"owner", "console"} |-> FALSE]
  /\ bus_ready = FALSE
  /\ console_done = FALSE
  /\ served = FALSE
  /\ slot = FALSE
  /\ request = NoRequest
  /\ calls = 0
  /\ ran = 0
  /\ display = [ready |-> FALSE, lease |-> FALSE, frame |-> FALSE]
  /\ frame = "free"
  /\ canvas = FALSE
  /\ hid = Fresh
  /\ taken = 0
  /\ touch = [available |-> FALSE, touched |-> FALSE]
  /\ held = {}
  /\ keyboard = [down |-> {}, events |-> <<>>, gap |-> FALSE]
  /\ pads = [p \in PadSet |-> [d \in scene.devices[p] |-> "off"]]
  /\ finger = FALSE

Gives(task) == gives' = [gives EXCEPT ![task] = TRUE]
Takes(task) == gives[task] /\ gives' = [gives EXCEPT ![task] = FALSE]

----------------------------------------------------------------------------
(* The owner task: app_main.                                               *)

\* Storage and display; a display that cannot be used is given back at once.
Start ==
  /\ owner = "start"
  /\ owner' = "create"
  /\ \E usable \in Answers("display") :
       /\ bus_ready' = usable
       /\ display' = [ready |-> usable, lease |-> usable, frame |-> usable]
       /\ frame' = IF usable THEN "lent" ELSE "free"
       /\ held' = IF usable THEN {"display"} ELSE {}
  /\ UNCHANGED <<scene, console, gives, console_done, rpc, canvas, input, outside>>

\* The console task may not be created.
Create ==
  /\ owner = "create"
  /\ \E made \in Answers("task") :
       /\ owner' = IF made THEN "barrier" ELSE "end"
       /\ console' = IF made THEN "prepare" ELSE "absent"
  /\ UNCHANGED <<scene, gives, bus_ready, console_done, rpc, picture, input, held, outside>>

\* mutant: only a session with a display releases the console
BarrierUnreleased ==
  /\ owner = "barrier"
  /\ Takes("owner")
  /\ owner' = IF bus_ready THEN "begin" ELSE "loop"
  /\ UNCHANGED <<scene, console, bus_ready, console_done, rpc, picture, input, held, outside>>

\* Until the console has its display.
Barrier ==
  /\ owner = "barrier"
  /\ Takes("owner")
  /\ owner' = IF bus_ready THEN "begin" ELSE "release"
  /\ UNCHANGED <<scene, console, bus_ready, console_done, rpc, picture, input, held, outside>>

\* paperboy_usb_owner_begin: whatever capabilities are granted among the missing.
UsbBegin ==
  \E refused \in SUBSET (scene.flaky \intersect Capabilities), works \in Answers("snapshot") :
    LET granted == Capabilities \ (refused \union {"host"})
    IN /\ hid' = Acquired(hid, granted, pads, works)
       /\ held' = held \union hid'.leases \union (IF hid'.subscribed THEN {"keys"} ELSE {})

\* paperboy_touch_owner_begin follows it.
Begin ==
  /\ owner = "begin"
  /\ owner' = "touch begin"
  /\ UsbBegin
  /\ UNCHANGED <<scene, console, gives, bus_ready, console_done, rpc, picture, taken, touch,
                 outside>>

TouchBegin ==
  /\ owner = "touch begin"
  /\ owner' = "release"
  /\ \E usable \in Answers("touch") :
       /\ touch' = [available |-> usable, touched |-> usable /\ finger]
       /\ held' = IF usable THEN held \union {"touch", "touches"} ELSE held
  /\ UNCHANGED <<scene, console, gives, bus_ready, console_done, rpc, picture, hid, taken,
                 outside>>

\* The console may start.
Release ==
  /\ owner = "release"
  /\ owner' = "loop"
  /\ Gives("console")
  /\ UNCHANGED <<scene, console, bus_ready, console_done, rpc, picture, input, held, outside>>

----------------------------------------------------------------------------
(* paperboy_storage_owner_wait: one request at most, then the polls that   *)
(* are due, then a sleep unless there was a request.                       *)

\* mutant: the request is read from the slot and left there
LoopReads ==
  /\ owner = "loop"
  /\ IF console_done THEN owner' = "end" /\ UNCHANGED <<served, slot>>
     ELSE /\ owner' = IF slot THEN "execute" ELSE "poll"
          /\ served' = slot
          /\ UNCHANGED slot
  /\ UNCHANGED <<scene, console, gives, bus_ready, console_done, request, calls, ran, picture,
                 input, held, outside>>

Loop ==
  /\ owner = "loop"
  /\ IF console_done THEN owner' = "end" /\ UNCHANGED <<served, slot>>
     ELSE /\ owner' = IF slot THEN "execute" ELSE "poll"
          /\ served' = slot
          /\ slot' = FALSE
  /\ UNCHANGED <<scene, console, gives, bus_ready, console_done, request, calls, ran, picture,
                 input, held, outside>>

\* acquire_frame: the frame that is kept, or one the compositor has free.
AcquireFrame(works) ==
  LET fresh == display.ready /\ ~display.frame /\ frame = "free" /\ works
  IN /\ display' = [display EXCEPT !.frame = @ \/ fresh]
     /\ frame' = IF fresh THEN "lent" ELSE frame
     /\ request' = [request EXCEPT !.result = display.ready /\ display'.frame]

\* mutant: a frame that was submitted is kept as the one to draw
SubmitKeeps(works) ==
  LET sent == display.ready /\ display.frame /\ works
  IN /\ UNCHANGED display
     /\ frame' = IF sent THEN "shown" ELSE frame
     /\ request' = [request EXCEPT !.result = sent]

\* epd_video_submit: the frame is the compositor's once it has been accepted.
Submit(works) ==
  LET sent == display.ready /\ display.frame /\ works
  IN /\ display' = [display EXCEPT !.frame = @ /\ ~sent]
     /\ frame' = IF sent THEN "shown" ELSE frame
     /\ request' = [request EXCEPT !.result = sent]

\* request->execute
Execute ==
  /\ owner = "execute"
  /\ owner' = "mark"
  /\ ran' = ran + 1
  /\ \E works \in Answers("present") :
       \/ request.kind \in {"backbuffer", "can_submit"} /\ AcquireFrame(works)
       \/ request.kind = "submit" /\ Submit(works)
       \/ /\ request.kind \in {"other", "log"}
          /\ request' = [request EXCEPT !.result = TRUE]
          /\ UNCHANGED <<display, frame>>
  /\ UNCHANGED <<scene, console, gives, bus_ready, console_done, served, slot, calls, canvas,
                 input, held, outside>>

\* request->done = true
Mark ==
  /\ owner = "mark"
  /\ owner' = "poll"
  /\ request' = [request EXCEPT !.done = TRUE]
  /\ UNCHANGED <<scene, console, gives, bus_ready, console_done, served, slot, calls, ran,
                 picture, input, held, outside>>

\* paperboy_usb_owner_poll, if it is due: what is missing may be asked for again.
Poll ==
  /\ owner = "poll"
  /\ \/ owner' = "touch" /\ UNCHANGED <<input, held>>
     \/ /\ \/ UNCHANGED <<hid, held>>
           \/ ~((Capabilities \ {"host"}) \subseteq hid.leases) /\ UsbBegin
        /\ owner' = IF hid'.subscribed THEN "events" ELSE Pads[1]
        /\ taken' = 0
        /\ UNCHANGED touch
  /\ UNCHANGED <<scene, console, gives, bus_ready, console_done, rpc, picture, outside>>

\* One turn of the event loop; a gap is answered with a snapshot, and ends it.
Events ==
  /\ owner = "events"
  /\ \/ /\ keyboard.gap
        /\ \E works \in Answers("snapshot") : hid' = KeyboardSnapshot(hid, keyboard.down, works)
        /\ keyboard' = [keyboard EXCEPT !.gap = FALSE]
        /\ owner' = Pads[1]
        /\ UNCHANGED taken
     \/ /\ ~keyboard.gap
        /\ keyboard.events # <<>>
        /\ hid' = KeyboardEvent(hid, Head(keyboard.events))
        /\ keyboard' = [keyboard EXCEPT !.events = Tail(@)]
        /\ taken' = taken + 1
        /\ owner' = IF taken' = BATCH THEN Pads[1] ELSE "events"
     \/ /\ ~keyboard.gap
        /\ keyboard.events = <<>>
        /\ owner' = Pads[1]
        /\ UNCHANGED <<hid, taken, keyboard>>
  /\ UNCHANGED <<scene, console, gives, bus_ready, console_done, rpc, picture, touch, held,
                 pads, finger>>

\* One gamepad provider after the other; a failed poll is followed by a snapshot too.
PollPad(i) ==
  /\ owner = Pads[i]
  /\ owner' = IF i = Len(Pads) THEN "probe" ELSE Pads[i + 1]
  /\ IF Pads[i] \in hid.leases
     THEN \E works \in Answers("snapshot") :
            hid' = GamepadSnapshot(hid, Pads[i], pads[Pads[i]], works)
     ELSE UNCHANGED hid
  /\ UNCHANGED <<scene, console, gives, bus_ready, console_done, rpc, picture, taken, touch,
                 held, outside>>

\* The USB host's diagnostics are asked for once.
Probe ==
  /\ owner = "probe"
  /\ owner' = "touch"
  /\ IF hid.probed THEN UNCHANGED <<hid, held>>
     ELSE \E usable \in Answers("host") :
            LET more == IF usable THEN {"host"} ELSE {}
            IN /\ hid' = [hid EXCEPT !.probed = TRUE, !.leases = @ \union more]
               /\ held' = held \union more
  /\ UNCHANGED <<scene, console, gives, bus_ready, console_done, rpc, picture, taken, touch,
                 outside>>

\* paperboy_touch_owner_poll, if it is due; a provider that fails shows no finger.
PollTouch ==
  /\ owner = "touch"
  /\ owner' = "sleep"
  /\ \/ UNCHANGED touch
     \/ /\ touch.available
        /\ \E works \in Answers("snapshot") : touch' = [touch EXCEPT !.touched = works /\ finger]
  /\ UNCHANGED <<scene, console, gives, bus_ready, console_done, rpc, picture, hid, taken, held,
                 outside>>

\* ulTaskNotifyTake with a time limit, skipped after a request.
Sleep ==
  /\ owner = "sleep"
  /\ owner' = "loop"
  /\ gives' = [gives EXCEPT !["owner"] = @ /\ served]
  /\ UNCHANGED <<scene, console, bus_ready, console_done, rpc, picture, input, held, outside>>

\* paperboy_usb_owner_end
End ==
  /\ owner = "end"
  /\ owner' = "close"
  /\ hid' = Released(hid)
  /\ held' = held \ ((hid.leases \ hid'.leases) \union (IF hid.subscribed THEN {"keys"} ELSE {}))
  /\ UNCHANGED <<scene, console, gives, bus_ready, console_done, rpc, picture, taken, touch,
                 outside>>

\* paperboy_touch_owner_end, paperboy_storage_end, and end_on_owner.
Close ==
  /\ owner = "close"
  /\ owner' = "gone"
  /\ touch' = [available |-> FALSE, touched |-> FALSE]
  /\ frame' = IF display.frame THEN "free" ELSE frame
  /\ display' = [ready |-> FALSE, lease |-> FALSE, frame |-> FALSE]
  /\ held' = held \ ({"touch", "touches"} \union (IF display.lease THEN {"display"} ELSE {}))
  /\ UNCHANGED <<scene, console, gives, bus_ready, console_done, rpc, canvas, hid, taken, outside>>

OwnerStep ==
  \/ Start \/ Create \/ Barrier \/ Begin \/ TouchBegin \/ Release
  \/ Loop \/ Execute \/ Mark \/ Poll \/ Events \/ (\E i \in DOMAIN Pads : PollPad(i))
  \/ Probe \/ PollTouch \/ Sleep \/ End \/ Close

----------------------------------------------------------------------------
(* The console task: paperboy_elf_console_task, with setup() as "run".     *)

Prepare ==
  /\ console = "prepare"
  /\ console' = "gate"
  /\ bus_ready' = (bus_ready /\ display.ready)
  /\ Gives("owner")
  /\ UNCHANGED <<scene, owner, console_done, rpc, picture, input, held, outside>>

\* Until the owner has loaded the optional providers.
Gate ==
  /\ console = "gate"
  /\ Takes("console")
  /\ console' = IF bus_ready THEN "run" ELSE "skip"
  /\ UNCHANGED <<scene, owner, bus_ready, console_done, rpc, picture, input, held, outside>>

\* on_owner: the request goes into the slot, which is empty or waited for...
Post(kind) ==
  /\ \/ console = "run" /\ kind \in Kinds /\ calls < scene.calls
     \/ console = "skip" /\ kind = "log"
  /\ ~slot
  /\ slot' = TRUE
  /\ request' = [kind |-> kind, result |-> FALSE, done |-> FALSE]
  /\ calls' = calls + 1
  /\ ran' = 0
  /\ console' = "give"
  /\ UNCHANGED <<scene, owner, gives, bus_ready, console_done, served, picture, input, held,
                 outside>>

\* ... the owner is woken...
Give ==
  /\ console = "give"
  /\ console' = "wait"
  /\ Gives("owner")
  /\ UNCHANGED <<scene, owner, bus_ready, console_done, rpc, picture, input, held, outside>>

\* ... and the call returns once it is done; the frame's pixels come with a
\* back buffer, and are not touched after a submission.
Return ==
  /\ console = "wait"
  /\ request.done
  /\ console' = IF request.kind = "log" THEN "note" ELSE "run"
  /\ canvas' = IF request.kind = "backbuffer" THEN request.result
               ELSE canvas /\ ~(request.kind = "submit" /\ request.result)
  /\ UNCHANGED <<scene, owner, gives, bus_ready, console_done, rpc, display, frame, input, held,
                 outside>>

\* The console's input pass.
Look ==
  /\ console = "run"
  /\ hid' = Sample(hid)
  /\ UNCHANGED <<scene, tasks, rpc, picture, taken, touch, held, outside>>

\* setup() returns: the user leaves, or nothing could be started.
Leave ==
  /\ console = "run"
  /\ console' = "note"
  /\ canvas' = FALSE
  /\ UNCHANGED <<scene, owner, gives, bus_ready, console_done, rpc, display, frame, input, held,
                 outside>>

\* paperboy_storage_owner_note_console_done
Note ==
  /\ console = "note"
  /\ console' = "wake"
  /\ console_done' = TRUE
  /\ UNCHANGED <<scene, owner, gives, bus_ready, rpc, picture, input, held, outside>>

Wake ==
  /\ console = "wake"
  /\ console' = "gone"
  /\ Gives("owner")
  /\ UNCHANGED <<scene, owner, bus_ready, console_done, rpc, picture, input, held, outside>>

ConsoleStep ==
  Prepare \/ Gate \/ (\E kind \in Kinds \union {"log"} : Post(kind)) \/ Give \/ Return \/ Look
  \/ Note \/ Wake

----------------------------------------------------------------------------
(* The keyboard, the controllers and the finger.                           *)

\* A keyboard provider records events for a subscriber; one too many, and the
\* subscriber is told of a gap instead.
Happens(event, down) ==
  /\ keyboard' =
       IF "keys" \notin held THEN [keyboard EXCEPT !.down = down]
       ELSE IF Len(keyboard.events) = EVENTS
       THEN [down |-> down, events |-> <<>>, gap |-> TRUE]
       ELSE [keyboard EXCEPT !.down = down, !.events = Append(@, event)]
  /\ UNCHANGED <<scene, tasks, rpc, picture, input, held, pads, finger>>

Press(key) ==
  key \notin keyboard.down /\ Happens([kind |-> "down", key |-> key], keyboard.down \union {key})

Lift(key) ==
  key \in keyboard.down /\ Happens([kind |-> "up", key |-> key], keyboard.down \ {key})

\* The keyboard is pulled out, or comes back.
Replug ==
  \/ keyboard.down # {} /\ Happens([kind |-> "disconnected", key |-> 0], {})
  \/ scene.keys # {} /\ keyboard.down = {} /\ Happens([kind |-> "connected", key |-> 0], {})

PadTo(p, device, state) ==
  /\ pads[p][device] # state
  /\ pads' = [pads EXCEPT ![p][device] = state]
  /\ UNCHANGED <<scene, tasks, rpc, picture, input, held, keyboard, finger>>

Finger ==
  /\ scene.touch
  /\ finger' = ~finger
  /\ UNCHANGED <<scene, tasks, rpc, picture, input, held, keyboard, pads>>

\* The compositor has shown a frame, and has it free again.
Shown ==
  /\ frame = "shown"
  /\ frame' = "free"
  /\ UNCHANGED <<scene, tasks, rpc, display, canvas, input, held, outside>>

World ==
  \/ \E key \in scene.keys : Press(key) \/ Lift(key)
  \/ Replug
  \/ \E p \in PadSet : \E device \in scene.devices[p], state \in {"off", "up", "down"} :
       PadTo(p, device, state)
  \/ Finger
  \/ Shown

\* The app returns to the firmware.
Finished == owner = "gone" /\ console \in {"absent", "gone"} /\ UNCHANGED vars

Next == OwnerStep \/ ConsoleStep \/ Leave \/ World \/ Finished

\* Both tasks are scheduled; the user leaves at some time; the compositor shows
\* what it was given.
Fairness ==
  WF_vars(OwnerStep) /\ WF_vars(ConsoleStep) /\ WF_vars(Leave) /\ WF_vars(Shown)

Spec == Init /\ [][Next]_vars /\ Fairness

----------------------------------------------------------------------------
(* Properties.                                                             *)

\* A request lives on the console's stack: while the owner can reach it the
\* console waits for it, it is never executed twice, and the console goes on
\* only after it was executed.
OneCallOneAnswer ==
  /\ (slot \/ owner \in {"execute", "mark"}) => console \in {"give", "wait"} /\ ~request.done
  /\ ran <= 1
  /\ request.done => ran = 1

\* The console has pixels to draw on only while the compositor has lent them,
\* and when both tasks have ended nobody has them.
PixelsAreLent ==
  /\ canvas /\ console = "run" => display.frame
  /\ display.frame <=> frame = "lent"
  /\ owner = "gone" => ~canvas /\ frame # "lent"

\* Whatever was refused, lost or asked for again: the app goes back to the
\* firmware without a lease, a subscription, a borrowed frame, a request in its
\* slot or a key that still counts as held; and only after the console.
NothingHeldAfter ==
  owner = "gone" =>
    /\ held = {}
    /\ hid = Fresh
    /\ ~touch.touched
    /\ ~slot
    /\ console \in {"absent", "wake", "gone"}

\* No key sticks: the last state that is queued is the newest one, without a
\* queue the console has it, and once the events are drained the adapter shows
\* no key that is not down.
KeyboardCatchesUp ==
  /\ hid.keys = IF hid.queue = <<>> THEN hid.sampled ELSE Last(hid.queue)
  /\ keyboard.events = <<>> /\ ~keyboard.gap => hid.keys \subseteq keyboard.down

\* One controller plays at a time: what the buttons show is the active one's
\* state, and another provider takes over only when that one has gone.
PadsStaySeparate ==
  [][/\ hid.gamepad = (hid.active # "none" /\ hid.source[hid.active].down)
     /\ hid.active # "none" /\ hid'.active # hid.active
          => owner = "end" \/ ~hid'.source[hid.active].connected]_hid

\* Queues and leases stay within their limits, no key sticks, and a controller
\* plays undisturbed until it goes.
InputSettles == [](TypeOK /\ KeyboardCatchesUp) /\ PadsStaySeparate

\* Once the user has left, and whatever could not be had, the app ends.
SessionEnds == <>(owner = "gone")
=============================================================================
