-------------------------- MODULE ElfSessionProofs --------------------------
(***************************************************************************)
(* Proofs about ElfSession.  Where the two tasks stand determines who has  *)
(* the request, the frame and the leases.                                  *)
(***************************************************************************)
EXTENDS ElfSession, WellFoundedInduction, TLAPS

Asked == {"give", "wait"}
Ended == {"end", "close", "gone"}

(* The parts of the state that are records, and what the fields range over. *)
HidFields == DOMAIN Fresh
Shapes ==
  /\ owner \in Places \union PadSet
  /\ gives \in [{"owner", "console"} -> BOOLEAN]
  /\ request \in [kind : Kinds \union {"none", "log"}, result : BOOLEAN, done : BOOLEAN]
  /\ display \in [ready : BOOLEAN, lease : BOOLEAN, frame : BOOLEAN]
  /\ touch \in [available : BOOLEAN, touched : BOOLEAN]
  /\ canvas \in BOOLEAN
  /\ slot \in BOOLEAN
  /\ DOMAIN hid = HidFields /\ hid.subscribed \in BOOLEAN

(* What the keyboard provider tells of. *)
Event == [kind : {"connected", "disconnected", "down", "up"}, key : scene.keys \union {0}]
KeysTyped == keyboard \in [down : SUBSET scene.keys, events : Seq(Event), gap : BOOLEAN]

(* The console exists from its creation on, waits for the owner at two      *)
(* places, and has ended before the owner ends the session.                 *)
TasksAgree ==
  /\ owner \in {"start", "create"} => console = "absent" /\ ~gives["owner"]
  /\ console = "absent" => owner \in {"start", "create"} \union Ended
  /\ owner = "barrier" => console \in {"prepare", "gate"}
  /\ owner = "barrier" /\ gives["owner"] => console = "gate"
  /\ owner \in {"start", "create", "barrier", "begin", "touch begin", "release"} =>
       ~gives["console"]
  /\ owner \in {"begin", "touch begin", "release"} => console = "gate"
  /\ console \in {"absent", "prepare"} => ~gives["console"]
  /\ console_done <=> console \in {"wake", "gone"}
  /\ owner \in Ended => console \in {"absent", "wake", "gone"}

(* A request is in the slot, with the owner, or answered: one of the three. *)
RequestAgrees ==
  /\ slot \/ owner \in {"execute", "mark"} => console \in Asked /\ ~request.done
  /\ owner \in {"execute", "mark"} => ~slot
  /\ slot \/ owner = "execute" => ran = 0
  /\ owner = "mark" \/ request.done => ran = 1
  /\ ran \in {0, 1}
  /\ console \in Asked => request.kind \in Kinds \union {"log"}

(* What the console may draw on once the present call has returned.         *)
WillDraw ==
  IF ran = 1 /\ request.kind = "backbuffer" THEN request.result
  ELSE canvas /\ ~(ran = 1 /\ request.kind = "submit" /\ request.result)

PixelsAgree ==
  /\ display.frame <=> frame = "lent"
  /\ canvas => console \in Asked \union {"run"}
  /\ console = "run" /\ canvas => display.frame
  /\ console \in Asked /\ WillDraw => display.frame
  /\ console \in Asked /\ request.kind = "log" => ~canvas
  /\ owner = "gone" => ~display.frame

(* The firmware has granted nothing that the adapters do not know of.       *)
LeasesAgree ==
  /\ hid.leases \subseteq Capabilities
  /\ held \subseteq Capabilities \union {"display", "touch", "keys", "touches"}
  /\ held \intersect Capabilities \subseteq hid.leases
  /\ "keys" \in held => hid.subscribed
  /\ "display" \in held => display.lease
  /\ owner \in {"close", "gone"} => hid = Fresh
  /\ owner = "gone" => held = {} /\ ~touch.touched

IInv == Shapes /\ KeysTyped /\ TasksAgree /\ RequestAgrees /\ PixelsAgree /\ LeasesAgree
----------------------------------------------------------------------------
(* What the input adapter does to its record, as far as leases go.          *)

SameKeyState(h, k) == k.keys = h.keys /\ k.sampled = h.sampled /\ k.queue = h.queue
Keeps(h, k) == DOMAIN k = DOMAIN h /\ k.leases = h.leases /\ k.subscribed = h.subscribed

LEMMA FreshShape == HidFields = {"leases", "subscribed", "probed", "keys", "sampled", "queue",
                                 "source", "active", "gamepad"}
BY DEF HidFields, Fresh

LEMMA AcceptKeeps ==
  ASSUME NEW h, DOMAIN h = HidFields, NEW next, NEW emit
  PROVE  Keeps(h, Accept(h, next, emit))
BY FreshShape DEF Accept, Keeps

LEMMA KeyboardEventKeeps ==
  ASSUME NEW h, DOMAIN h = HidFields, NEW event,
         event.kind \in {"connected", "disconnected", "down", "up"}
  PROVE  Keeps(h, KeyboardEvent(h, event))
<1>1. /\ Keeps(h, h)
      /\ Keeps(h, Accept(h, {}, FALSE))
      /\ Keeps(h, Accept(h, h.keys \union {event.key}, TRUE))
      /\ Keeps(h, Accept(h, h.keys \ {event.key}, TRUE))
  BY AcceptKeeps, Zenon DEF Keeps
<1>2. CASE event.kind = "connected"
  BY <1>1, <1>2, Zenon DEF KeyboardEvent
<1>3. CASE event.kind = "disconnected"
  BY <1>1, <1>3, Zenon DEF KeyboardEvent
<1>4. CASE event.kind = "down"
  BY <1>1, <1>4, Zenon DEF KeyboardEvent
<1>5. CASE event.kind = "up"
  BY <1>1, <1>5, Zenon DEF KeyboardEvent
<1> QED
  BY <1>2, <1>3, <1>4, <1>5

LEMMA SampleKeeps ==
  ASSUME NEW h, DOMAIN h = HidFields
  PROVE  Keeps(h, Sample(h))
BY FreshShape DEF Sample, Keeps

LEMMA AcceptGamepadKeeps ==
  ASSUME NEW h, DOMAIN h = HidFields, NEW p, NEW state
  PROVE  Keeps(h, AcceptGamepad(h, p, state)) /\ SameKeyState(h, AcceptGamepad(h, p, state))
BY FreshShape DEF AcceptGamepad, Keeps, SameKeyState

LEMMA AcquiredAdds ==
  ASSUME NEW h, DOMAIN h = HidFields, NEW granted, NEW devices, NEW works, NEW k,
         k = Acquired(h, granted, devices, works)
  PROVE  /\ DOMAIN k = HidFields
         /\ k.leases = h.leases \union granted
         /\ k.subscribed \in BOOLEAN
         /\ k.subscribed <=> h.subscribed \/ "keyboard" \in granted \ h.leases
         /\ SameKeyState(h, k)
BY FreshShape DEF Acquired, SameKeyState

----------------------------------------------------------------------------
LEMMA InitIInv == Init => IInv
<1> SUFFICES ASSUME Init PROVE IInv
  OBVIOUS
<1> USE DEF Init
<1>1. Shapes
  BY FreshShape DEF Shapes, Places, NoRequest, Fresh
<1>6. KeysTyped
  BY DEF KeysTyped
<1>2. TasksAgree
  BY DEF TasksAgree, Ended
<1>3. RequestAgrees
  BY DEF RequestAgrees, NoRequest, Asked
<1>4. PixelsAgree
  BY DEF PixelsAgree, Asked
<1>5. LeasesAgree
  BY DEF LeasesAgree, Fresh
<1> QED
  BY <1>1, <1>2, <1>3, <1>4, <1>5, <1>6 DEF IInv

----------------------------------------------------------------------------
(* Providers are named apart from places and from the other things held.    *)

LEMMA Apart ==
  /\ PadSet \intersect Places = {}
  /\ Capabilities \intersect {"display", "touch", "keys", "touches"} = {}
BY ElfAssumption DEF Places, Capabilities

(* The places of the loop where the owner has no request. *)
Turning == {"loop", "poll", "events", "probe", "touch", "sleep"} \union PadSet

LEMMA TurningApart ==
  /\ Turning \subseteq Places \union PadSet
  /\ Turning \intersect ({"start", "create", "barrier", "begin", "touch begin", "release",
                          "execute", "mark"} \union Ended) = {}
BY Apart DEF Turning, Places, Ended

LEMMA PadPlaces ==
  /\ Pads[1] \in PadSet
  /\ \A i \in DOMAIN Pads : Pads[i] \in PadSet /\ (i # Len(Pads) => Pads[i + 1] \in PadSet)
BY ElfAssumption DEF PadSet, Range

----------------------------------------------------------------------------
(* Steps of one part of the system.                                         *)

(* A step within a turn of the owner's loop leaves the console's affairs.   *)
LEMMA TurnKeeps ==
  ASSUME IInv, owner \in Turning, owner' \in Turning, gives' \in [{"owner", "console"} -> BOOLEAN],
         gives'["console"] = gives["console"],
         UNCHANGED <<console, console_done, slot, request, ran, picture>>
  PROVE  /\ TasksAgree'
         /\ RequestAgrees'
         /\ PixelsAgree'
<1> USE TurningApart DEF IInv, picture, Ended
<1>1. TasksAgree'
  BY DEF TasksAgree
<1>2. RequestAgrees'
  BY DEF RequestAgrees, Asked
<1>3. PixelsAgree'
  BY DEF PixelsAgree, WillDraw, Asked
<1> QED
  BY <1>1, <1>2, <1>3

(* The adapter took an input: its leases are what they were.                *)
LEMMA InputKeepsLeases ==
  ASSUME IInv, Keeps(hid, hid'), UNCHANGED <<held, display, touch>>,
         owner' \notin {"close", "gone"}
  PROVE  LeasesAgree' /\ DOMAIN hid' = HidFields /\ hid'.subscribed \in BOOLEAN
BY DEF IInv, Shapes, LeasesAgree, Keeps

(* The adapter asked for what it misses.                                    *)
LEMMA UsbBeginKeepsLeases ==
  ASSUME IInv, UsbBegin, UNCHANGED <<display, touch>>, owner' \notin {"close", "gone"}
  PROVE  LeasesAgree' /\ DOMAIN hid' = HidFields /\ hid'.subscribed \in BOOLEAN
<1> PICK granted \in SUBSET Capabilities, works \in Answers("snapshot") :
      /\ hid' = Acquired(hid, granted, pads, works)
      /\ held' = held \union hid'.leases \union (IF hid'.subscribed THEN {"keys"} ELSE {})
  BY DEF UsbBegin
<1>1. /\ DOMAIN hid' = HidFields /\ hid'.subscribed \in BOOLEAN
      /\ hid'.leases = hid.leases \union granted
      /\ hid.subscribed => hid'.subscribed
  BY AcquiredAdds DEF IInv, Shapes
<1>2. LeasesAgree'
  BY <1>1, Apart DEF IInv, LeasesAgree
<1> QED
  BY <1>1, <1>2

LEMMA SameKeys ==
  ASSUME KeysTyped, UNCHANGED <<scene, keyboard>>
  PROVE  KeysTyped'
BY DEF KeysTyped, Event

----------------------------------------------------------------------------
(* The owner's steps before and after its loop, and the calls it executes.  *)

LEMMA StartKeeps == ASSUME IInv, Start PROVE IInv'
<1> USE DEF IInv, Start, rpc, input, outside
<1>1. Shapes'
  <2>1. \E usable \in BOOLEAN :
          display' = [ready |-> usable, lease |-> usable, frame |-> usable]
    BY DEF Answers
  <2> QED
    BY <2>1 DEF Shapes, Places
<1>2. TasksAgree'
  BY DEF TasksAgree, Ended
<1>3. RequestAgrees'
  BY DEF RequestAgrees, Asked
<1>4. PixelsAgree'
  BY DEF TasksAgree, PixelsAgree, WillDraw, Asked
<1>5. LeasesAgree'
  BY Apart DEF LeasesAgree
<1> QED
  BY <1>1, <1>2, <1>3, <1>4, <1>5, SameKeys

LEMMA CreateKeeps == ASSUME IInv, Create PROVE IInv'
<1> USE DEF IInv, Create, rpc, picture, input, outside
<1>1. Shapes'
  BY DEF Shapes, Places
<1>2. TasksAgree'
  BY DEF TasksAgree, Ended
<1>3. RequestAgrees'
  BY DEF RequestAgrees, TasksAgree, Asked
<1>4. PixelsAgree'
  BY DEF PixelsAgree, TasksAgree, WillDraw, Asked
<1>5. LeasesAgree'
  BY DEF LeasesAgree
<1> QED
  BY <1>1, <1>2, <1>3, <1>4, <1>5, SameKeys

LEMMA BarrierKeeps == ASSUME IInv, Barrier PROVE IInv'
<1> USE DEF IInv, Barrier, Takes, rpc, picture, input, outside
<1>1. Shapes'
  BY DEF Shapes, Places
<1>2. TasksAgree'
  BY DEF Shapes, TasksAgree, Ended
<1>3. RequestAgrees'
  BY DEF RequestAgrees, Asked
<1>4. PixelsAgree'
  BY DEF PixelsAgree, WillDraw, Asked
<1>5. LeasesAgree'
  BY DEF LeasesAgree
<1> QED
  BY <1>1, <1>2, <1>3, <1>4, <1>5, SameKeys

LEMMA BeginKeeps == ASSUME IInv, Begin PROVE IInv'
<1> USE DEF IInv, Begin, rpc, picture, outside
<1>1. LeasesAgree' /\ DOMAIN hid' = HidFields /\ hid'.subscribed \in BOOLEAN
  BY UsbBeginKeepsLeases
<1>2. Shapes'
  BY <1>1 DEF Shapes, Places
<1>3. TasksAgree'
  BY DEF TasksAgree, Ended
<1>4. RequestAgrees'
  BY DEF RequestAgrees, Asked
<1>5. PixelsAgree'
  BY DEF PixelsAgree, WillDraw, Asked
<1> QED
  BY <1>1, <1>2, <1>3, <1>4, <1>5, SameKeys

LEMMA TouchBeginKeeps == ASSUME IInv, TouchBegin PROVE IInv'
<1> USE DEF IInv, TouchBegin, rpc, picture, outside
<1>1. Shapes'
  <2>1. PICK usable \in Answers("touch") :
          touch' = [available |-> usable, touched |-> usable /\ finger]
    OBVIOUS
  <2>2. usable \in BOOLEAN
    BY DEF Answers
  <2> QED
    BY <2>1, <2>2 DEF Shapes, Places
<1>2. TasksAgree'
  BY DEF TasksAgree, Ended
<1>3. RequestAgrees'
  BY DEF RequestAgrees, Asked
<1>4. PixelsAgree'
  BY DEF PixelsAgree, WillDraw, Asked
<1>5. LeasesAgree'
  BY Apart DEF LeasesAgree
<1> QED
  BY <1>1, <1>2, <1>3, <1>4, <1>5, SameKeys

LEMMA ReleaseKeeps == ASSUME IInv, Release PROVE IInv'
<1> USE DEF IInv, Release, Gives, rpc, picture, input, outside
<1>1. Shapes'
  BY DEF Shapes, Places
<1>2. TasksAgree'
  BY DEF Shapes, TasksAgree, Ended
<1>3. RequestAgrees'
  BY DEF RequestAgrees, Asked
<1>4. PixelsAgree'
  BY DEF PixelsAgree, WillDraw, Asked
<1>5. LeasesAgree'
  BY DEF LeasesAgree
<1> QED
  BY <1>1, <1>2, <1>3, <1>4, <1>5, SameKeys

LEMMA LoopKeeps == ASSUME IInv, Loop PROVE IInv'
<1> USE DEF IInv, Loop, picture, input, outside
<1>1. Shapes'
  BY DEF Shapes, Places
<1>2. TasksAgree'
  BY DEF TasksAgree, Ended
<1>3. RequestAgrees'
  BY DEF RequestAgrees, Asked
<1>4. PixelsAgree'
  BY DEF PixelsAgree, WillDraw, Asked
<1>5. LeasesAgree'
  BY DEF LeasesAgree
<1> QED
  BY <1>1, <1>2, <1>3, <1>4, <1>5, SameKeys

(* What an executed call may have done. *)
Answered ==
  /\ request' \in [kind : Kinds \union {"none", "log"}, result : BOOLEAN, done : BOOLEAN]
  /\ request'.kind = request.kind /\ request'.done = request.done
  /\ display' \in [ready : BOOLEAN, lease : BOOLEAN, frame : BOOLEAN]
  /\ display'.lease = display.lease
  /\ display'.frame <=> frame' = "lent"
  /\ request.kind = "backbuffer" /\ request'.result => display'.frame
  /\ request.kind # "submit" \/ ~request'.result => (display.frame => display'.frame)

LEMMA ExecuteKeeps == ASSUME IInv, Execute PROVE IInv'
<1> USE DEF IInv, Execute, input, outside
<1>0. PICK works \in Answers("present") :
        \/ request.kind \in {"backbuffer", "can_submit"} /\ AcquireFrame(works)
        \/ request.kind = "submit" /\ Submit(works)
        \/ /\ request.kind \in {"other", "log"}
           /\ request' = [request EXCEPT !.result = TRUE]
           /\ UNCHANGED <<display, frame>>
  OBVIOUS
<1>1. Answered
  <2>1. works \in BOOLEAN
    BY DEF Answers
  <2>2. CASE AcquireFrame(works)
    BY <2>1, <2>2 DEF Answered, AcquireFrame, Shapes, PixelsAgree
  <2>3. CASE request.kind = "submit" /\ Submit(works)
    BY <2>1, <2>3 DEF Answered, Submit, Shapes, PixelsAgree
  <2>4. CASE /\ request.kind \in {"other", "log"}
             /\ request' = [request EXCEPT !.result = TRUE]
             /\ UNCHANGED <<display, frame>>
    BY <2>4 DEF Answered, Shapes, PixelsAgree
  <2> QED
    BY <1>0, <2>2, <2>3, <2>4
<1>2. Shapes'
  BY <1>1 DEF Answered, Shapes, Places
<1>3. TasksAgree'
  BY DEF TasksAgree, Ended
<1>4. RequestAgrees'
  BY <1>1 DEF Answered, RequestAgrees, Asked
<1>5. PixelsAgree'
  BY <1>1 DEF Answered, Shapes, RequestAgrees, PixelsAgree, WillDraw, Asked
<1>6. LeasesAgree'
  BY <1>1 DEF Answered, LeasesAgree
<1> QED
  BY <1>2, <1>3, <1>4, <1>5, <1>6, SameKeys

LEMMA MarkKeeps == ASSUME IInv, Mark PROVE IInv'
<1> USE DEF IInv, Mark, picture, input, outside
<1>1. Shapes'
  BY DEF Shapes, Places
<1>2. TasksAgree'
  BY DEF TasksAgree, Ended
<1>3. RequestAgrees'
  BY DEF Shapes, RequestAgrees, Asked
<1>4. PixelsAgree'
  BY DEF Shapes, PixelsAgree, RequestAgrees, WillDraw, Asked
<1>5. LeasesAgree'
  BY DEF LeasesAgree
<1> QED
  BY <1>1, <1>2, <1>3, <1>4, <1>5, SameKeys

LEMMA EndKeeps == ASSUME IInv, End PROVE IInv'
<1> USE DEF IInv, End, rpc, picture, outside
<1>1. Shapes'
  BY FreshShape DEF Shapes, Places, Released, Fresh
<1>2. TasksAgree'
  BY DEF TasksAgree, Ended
<1>3. RequestAgrees'
  BY DEF RequestAgrees, Asked
<1>4. PixelsAgree'
  BY DEF PixelsAgree, WillDraw, Asked
<1>5. LeasesAgree'
  BY Apart DEF LeasesAgree, Released, Fresh
<1> QED
  BY <1>1, <1>2, <1>3, <1>4, <1>5, SameKeys

LEMMA CloseKeeps == ASSUME IInv, Close PROVE IInv'
<1> USE DEF IInv, Close, rpc, outside
<1>1. Shapes'
  BY DEF Shapes, Places
<1>2. TasksAgree'
  BY DEF TasksAgree, Ended
<1>3. RequestAgrees'
  BY DEF RequestAgrees, Asked
<1>4. PixelsAgree'
  BY DEF PixelsAgree, TasksAgree, WillDraw, Asked, Ended
<1>5. LeasesAgree'
  <2>1. held \intersect Capabilities = {} /\ "keys" \notin held
    BY DEF LeasesAgree, Fresh
  <2> QED
    BY <2>1 DEF LeasesAgree
<1> QED
  BY <1>1, <1>2, <1>3, <1>4, <1>5, SameKeys

----------------------------------------------------------------------------
(* The owner's turns of its loop.                                           *)

LEMMA PollKeeps == ASSUME IInv, Poll PROVE IInv'
<1> USE DEF IInv, Poll, rpc, picture, outside
<1>1. /\ LeasesAgree' /\ DOMAIN hid' = HidFields /\ hid'.subscribed \in BOOLEAN
      /\ owner' \in Turning
      /\ UNCHANGED touch
  <2>1. CASE owner' = "touch" /\ UNCHANGED <<input, held>>
    BY <2>1, TurningApart DEF Turning, LeasesAgree, Shapes, input
  <2>2. ASSUME owner' = IF hid'.subscribed THEN "events" ELSE Pads[1], UNCHANGED touch
        PROVE  owner' \in Turning /\ owner' \notin Ended
    BY <2>2, PadPlaces, TurningApart DEF Turning
  <2>3. ASSUME owner' = IF hid'.subscribed THEN "events" ELSE Pads[1], UNCHANGED touch,
               UNCHANGED <<hid, held>>
        PROVE  LeasesAgree' /\ DOMAIN hid' = HidFields /\ hid'.subscribed \in BOOLEAN
    BY <2>2, <2>3 DEF LeasesAgree, Shapes, Ended
  <2>4. ASSUME owner' = IF hid'.subscribed THEN "events" ELSE Pads[1], UNCHANGED touch,
               UsbBegin
        PROVE  LeasesAgree' /\ DOMAIN hid' = HidFields /\ hid'.subscribed \in BOOLEAN
    BY <2>2, <2>4, UsbBeginKeepsLeases DEF Ended
  <2> QED
    BY <2>1, <2>2, <2>3, <2>4
<1>2. Shapes'
  BY <1>1, TurningApart DEF Shapes
<1>3. TasksAgree' /\ RequestAgrees' /\ PixelsAgree'
  BY <1>1, TurnKeeps DEF Shapes, Turning
<1> QED
  BY <1>1, <1>2, <1>3, SameKeys

LEMMA EventsKeeps == ASSUME IInv, Events PROVE IInv'
<1> USE DEF IInv, Events, rpc, picture
<1>1. owner \in Turning /\ owner' \in Turning /\ owner' \notin Ended
  BY PadPlaces, TurningApart DEF Turning
<1>2. Keeps(hid, hid')
  <2>1. ASSUME NEW works, hid' = KeyboardSnapshot(hid, keyboard.down, works)
        PROVE  Keeps(hid, hid')
    BY <2>1, AcceptKeeps DEF Shapes, KeyboardSnapshot
  <2>2. ASSUME keyboard.events # <<>>, hid' = KeyboardEvent(hid, Head(keyboard.events))
        PROVE  Keeps(hid, hid')
    <3>1. Head(keyboard.events) \in Event
      BY <2>2 DEF KeysTyped
    <3> QED
      BY <2>2, <3>1, KeyboardEventKeeps DEF Shapes, Event
  <2>3. CASE UNCHANGED hid
    BY <2>3 DEF Keeps
  <2> QED
    BY <2>1, <2>2, <2>3
<1>3. LeasesAgree' /\ DOMAIN hid' = HidFields
  BY <1>1, <1>2, InputKeepsLeases DEF Ended
<1>4. Shapes'
  BY <1>1, <1>2, <1>3, TurningApart DEF Shapes, Keeps
<1>5. TasksAgree' /\ RequestAgrees' /\ PixelsAgree'
  BY <1>1, TurnKeeps DEF Shapes
<1>6. KeysTyped'
  <2>1. keyboard.events # <<>> => Tail(keyboard.events) \in Seq(Event)
    BY DEF KeysTyped
  <2>2. keyboard' \in [down : SUBSET scene.keys, events : Seq(Event), gap : BOOLEAN]
    BY <2>1 DEF KeysTyped
  <2> QED
    BY <2>2 DEF KeysTyped, Event
<1> QED
  BY <1>3, <1>4, <1>5, <1>6

LEMMA PollPadKeeps == ASSUME IInv, NEW i \in DOMAIN Pads, PollPad(i) PROVE IInv'
<1> USE DEF IInv, PollPad, rpc, picture, outside
<1>1. owner \in Turning /\ owner' \in Turning /\ owner' \notin Ended
  BY PadPlaces, TurningApart DEF Turning
<1>2. Keeps(hid, hid')
  BY AcceptGamepadKeeps DEF Shapes, GamepadSnapshot, Keeps
<1>3. LeasesAgree' /\ DOMAIN hid' = HidFields
  BY <1>1, <1>2, InputKeepsLeases DEF Ended
<1>4. Shapes'
  BY <1>1, <1>2, <1>3, TurningApart DEF Shapes, Keeps
<1>5. TasksAgree' /\ RequestAgrees' /\ PixelsAgree'
  BY <1>1, TurnKeeps DEF Shapes
<1> QED
  BY <1>3, <1>4, <1>5, SameKeys

LEMMA ProbeKeeps == ASSUME IInv, Probe PROVE IInv'
<1> USE DEF IInv, Probe, rpc, picture, outside
<1>1. owner \in Turning /\ owner' \in Turning /\ owner' \notin Ended
  BY TurningApart DEF Turning
<1>2. /\ DOMAIN hid' = HidFields /\ hid'.subscribed = hid.subscribed
      /\ LeasesAgree'
  <2>1. CASE UNCHANGED <<hid, held>>
    BY <2>1, <1>1 DEF Shapes, LeasesAgree, Ended
  <2>2. ASSUME NEW more \in SUBSET {"host"},
               hid' = [hid EXCEPT !.probed = TRUE, !.leases = @ \union more],
               held' = held \union more
        PROVE  /\ DOMAIN hid' = HidFields /\ hid'.subscribed = hid.subscribed
               /\ LeasesAgree'
    <3>1. /\ DOMAIN hid' = HidFields /\ hid'.subscribed = hid.subscribed
          /\ hid'.leases = hid.leases \union more
      BY <2>2, FreshShape DEF Shapes
    <3>2. "host" \in Capabilities
      BY DEF Capabilities
    <3> QED
      BY <1>1, <2>2, <3>1, <3>2, Apart DEF LeasesAgree, Ended
  <2> QED
    BY <2>1, <2>2
<1>3. Shapes'
  BY <1>1, <1>2, TurningApart DEF Shapes
<1>4. TasksAgree' /\ RequestAgrees' /\ PixelsAgree'
  BY <1>1, TurnKeeps DEF Shapes
<1> QED
  BY <1>2, <1>3, <1>4, SameKeys

LEMMA PollTouchKeeps == ASSUME IInv, PollTouch PROVE IInv'
<1> USE DEF IInv, PollTouch, rpc, picture, outside
<1>1. owner \in Turning /\ owner' \in Turning /\ owner' \notin Ended
  BY TurningApart DEF Turning
<1>2. Shapes'
  <2>1. touch' \in [available : BOOLEAN, touched : BOOLEAN]
    <3>1. CASE UNCHANGED touch
      BY <3>1 DEF Shapes
    <3>2. ASSUME NEW works, touch' = [touch EXCEPT !.touched = works /\ finger]
          PROVE  touch' \in [available : BOOLEAN, touched : BOOLEAN]
      BY <3>2 DEF Shapes
    <3> QED
      BY <3>1, <3>2
  <2> QED
    BY <1>1, <2>1, TurningApart DEF Shapes
<1>3. TasksAgree' /\ RequestAgrees' /\ PixelsAgree'
  BY <1>1, TurnKeeps DEF Shapes
<1>4. LeasesAgree'
  BY <1>1 DEF LeasesAgree, Ended
<1> QED
  BY <1>2, <1>3, <1>4, SameKeys

LEMMA SleepKeeps == ASSUME IInv, Sleep PROVE IInv'
<1> USE DEF IInv, Sleep, rpc, picture, input, outside
<1>1. owner \in Turning /\ owner' \in Turning /\ owner' \notin Ended
  BY TurningApart DEF Turning
<1>2. /\ gives' \in [{"owner", "console"} -> BOOLEAN]
      /\ gives'["console"] = gives["console"]
  BY DEF Shapes
<1>3. Shapes'
  BY <1>1, <1>2, TurningApart DEF Shapes
<1>4. TasksAgree' /\ RequestAgrees' /\ PixelsAgree'
  BY <1>1, <1>2, TurnKeeps
<1>5. LeasesAgree'
  BY <1>1 DEF LeasesAgree, Ended
<1> QED
  BY <1>3, <1>4, <1>5, SameKeys

----------------------------------------------------------------------------
(* The console's steps.                                                     *)

LEMMA PrepareKeeps == ASSUME IInv, Prepare PROVE IInv'
<1> USE DEF IInv, Prepare, Gives, rpc, picture, input, outside
<1>1. Shapes'
  BY DEF Shapes
<1>2. TasksAgree'
  BY DEF Shapes, TasksAgree, Ended
<1>3. RequestAgrees'
  BY DEF TasksAgree, RequestAgrees, Asked
<1>4. PixelsAgree'
  BY DEF PixelsAgree, WillDraw, Asked
<1>5. LeasesAgree'
  BY DEF TasksAgree, LeasesAgree, Ended
<1> QED
  BY <1>1, <1>2, <1>3, <1>4, <1>5, SameKeys

LEMMA GateKeeps == ASSUME IInv, Gate PROVE IInv'
<1> USE DEF IInv, Gate, Takes, rpc, picture, input, outside
<1>1. Shapes'
  BY DEF Shapes
<1>2. TasksAgree'
  BY DEF Shapes, TasksAgree, Ended
<1>3. RequestAgrees'
  BY DEF TasksAgree, RequestAgrees, Asked
<1>4. PixelsAgree'
  BY DEF PixelsAgree, WillDraw, Asked
<1>5. LeasesAgree'
  BY DEF TasksAgree, LeasesAgree, Ended
<1> QED
  BY <1>1, <1>2, <1>3, <1>4, <1>5, SameKeys

LEMMA PostKeeps == ASSUME IInv, NEW kind \in Kinds \union {"log"}, Post(kind) PROVE IInv'
<1> USE DEF IInv, Post, picture, input, outside
<1>1. Shapes'
  BY DEF Shapes
<1>2. TasksAgree'
  BY DEF Shapes, TasksAgree, Ended
<1>3. RequestAgrees'
  BY DEF Shapes, RequestAgrees, Asked
<1>4. PixelsAgree'
  BY DEF Kinds, PixelsAgree, WillDraw, Asked
<1>5. LeasesAgree'
  BY DEF TasksAgree, LeasesAgree, Ended
<1> QED
  BY <1>1, <1>2, <1>3, <1>4, <1>5, SameKeys

LEMMA GiveKeeps == ASSUME IInv, Give PROVE IInv'
<1> USE DEF IInv, Give, Gives, rpc, picture, input, outside
<1>1. Shapes'
  BY DEF Shapes
<1>2. TasksAgree'
  BY DEF Shapes, TasksAgree, Ended
<1>3. RequestAgrees'
  BY DEF TasksAgree, RequestAgrees, Asked
<1>4. PixelsAgree'
  BY DEF PixelsAgree, WillDraw, Asked
<1>5. LeasesAgree'
  BY DEF TasksAgree, LeasesAgree, Ended
<1> QED
  BY <1>1, <1>2, <1>3, <1>4, <1>5, SameKeys

LEMMA ReturnKeeps == ASSUME IInv, Return PROVE IInv'
<1> USE DEF IInv, Return, rpc, input, outside
<1>1. Shapes'
  BY DEF Shapes
<1>2. TasksAgree'
  BY DEF Shapes, TasksAgree, Ended
<1>3. RequestAgrees'
  BY DEF TasksAgree, RequestAgrees, Asked
<1>4. PixelsAgree'
  BY DEF Shapes, RequestAgrees, PixelsAgree, WillDraw, Asked
<1>5. LeasesAgree'
  BY DEF TasksAgree, LeasesAgree, Ended
<1> QED
  BY <1>1, <1>2, <1>3, <1>4, <1>5, SameKeys

LEMMA LookKeeps == ASSUME IInv, Look PROVE IInv'
<1> USE DEF IInv, Look, tasks, rpc, picture, outside
<1>1. Keeps(hid, hid')
  BY SampleKeeps DEF Shapes
<1>2. LeasesAgree' /\ DOMAIN hid' = HidFields
  BY <1>1, InputKeepsLeases DEF TasksAgree, Ended
<1>3. Shapes'
  BY <1>1, <1>2 DEF Shapes, Keeps
<1>4. TasksAgree'
  BY DEF TasksAgree
<1>5. RequestAgrees'
  BY DEF RequestAgrees
<1>6. PixelsAgree'
  BY DEF PixelsAgree, WillDraw
<1> QED
  BY <1>2, <1>3, <1>4, <1>5, <1>6, SameKeys

LEMMA LeaveKeeps == ASSUME IInv, Leave PROVE IInv'
<1> USE DEF IInv, Leave, rpc, input, outside
<1>1. Shapes'
  BY DEF Shapes
<1>2. TasksAgree'
  BY DEF Shapes, TasksAgree, Ended
<1>3. RequestAgrees'
  BY DEF TasksAgree, RequestAgrees, Asked
<1>4. PixelsAgree'
  BY DEF PixelsAgree, WillDraw, Asked
<1>5. LeasesAgree'
  BY DEF TasksAgree, LeasesAgree, Ended
<1> QED
  BY <1>1, <1>2, <1>3, <1>4, <1>5, SameKeys

LEMMA NoteKeeps == ASSUME IInv, Note PROVE IInv'
<1> USE DEF IInv, Note, rpc, picture, input, outside
<1>1. Shapes'
  BY DEF Shapes
<1>2. TasksAgree'
  BY DEF Shapes, TasksAgree, Ended
<1>3. RequestAgrees'
  BY DEF TasksAgree, RequestAgrees, Asked
<1>4. PixelsAgree'
  BY DEF PixelsAgree, WillDraw, Asked
<1>5. LeasesAgree'
  BY DEF TasksAgree, LeasesAgree, Ended
<1> QED
  BY <1>1, <1>2, <1>3, <1>4, <1>5, SameKeys

LEMMA WakeKeeps == ASSUME IInv, Wake PROVE IInv'
<1> USE DEF IInv, Wake, Gives, rpc, picture, input, outside
<1>1. Shapes'
  BY DEF Shapes
<1>2. TasksAgree'
  BY DEF Shapes, TasksAgree, Ended
<1>3. RequestAgrees'
  BY DEF TasksAgree, RequestAgrees, Asked
<1>4. PixelsAgree'
  BY DEF PixelsAgree, WillDraw, Asked
<1>5. LeasesAgree'
  BY DEF TasksAgree, LeasesAgree, Ended
<1> QED
  BY <1>1, <1>2, <1>3, <1>4, <1>5, SameKeys

----------------------------------------------------------------------------
(* What happens around the two tasks.                                       *)

LEMMA WorldKeeps ==
  ASSUME IInv, KeysTyped', UNCHANGED <<scene, tasks, rpc, display, canvas, input, held>>,
         frame' = "lent" <=> frame = "lent"
  PROVE  IInv'
<1> USE DEF IInv, tasks, rpc, input
<1>1. Shapes'
  BY DEF Shapes
<1>2. TasksAgree'
  BY DEF TasksAgree
<1>3. RequestAgrees'
  BY DEF RequestAgrees
<1>4. PixelsAgree'
  BY DEF PixelsAgree, WillDraw
<1>5. LeasesAgree'
  BY DEF LeasesAgree
<1> QED
  BY <1>1, <1>2, <1>3, <1>4, <1>5

LEMMA HappensKeeps ==
  ASSUME IInv, NEW event \in Event, NEW down \in SUBSET scene.keys, Happens(event, down)
  PROVE  IInv'
<1>1. keyboard' \in [down : SUBSET scene.keys, events : Seq(Event), gap : BOOLEAN]
  <2> DEFINE Typed == [down : SUBSET scene.keys, events : Seq(Event), gap : BOOLEAN]
  <2>1. Append(keyboard.events, event) \in Seq(Event) /\ <<>> \in Seq(Event)
    BY DEF IInv, KeysTyped
  <2>2. keyboard \in Typed
    BY DEF IInv, KeysTyped
  <2>3. [keyboard EXCEPT !.down = down] \in Typed
    BY <2>2
  <2>4. [down |-> down, events |-> <<>>, gap |-> TRUE] \in Typed
    BY <2>1
  <2>5. [keyboard EXCEPT !.down = down, !.events = Append(@, event)] \in Typed
    BY <2>1, <2>2
  <2> HIDE DEF Typed
  <2>6. keyboard' \in Typed
    BY <2>3, <2>4, <2>5 DEF Happens
  <2> QED
    BY <2>6 DEF Typed
<1>2. KeysTyped'
  BY <1>1 DEF KeysTyped, Event, Happens
<1> QED
  BY <1>2, WorldKeeps DEF Happens, picture

LEMMA KeyboardKeeps ==
  ASSUME IInv, (\E key \in scene.keys : Press(key) \/ Lift(key)) \/ Replug
  PROVE  IInv'
<1> USE DEF IInv, KeysTyped
<1>1. ASSUME NEW key \in scene.keys, Press(key) PROVE IInv'
  BY <1>1, HappensKeeps DEF Press, Event
<1>2. ASSUME NEW key \in scene.keys, Lift(key) PROVE IInv'
  BY <1>2, HappensKeeps DEF Lift, Event
<1>3. CASE Replug
  BY <1>3, HappensKeeps DEF Replug, Event
<1> QED
  BY <1>1, <1>2, <1>3

LEMMA OutsideKeeps ==
  ASSUME IInv, World
  PROVE  IInv'
<1>1. CASE (\E key \in scene.keys : Press(key) \/ Lift(key)) \/ Replug
  BY <1>1, KeyboardKeeps
<1>2. ASSUME NEW p, NEW device, NEW state, PadTo(p, device, state) PROVE IInv'
  BY <1>2, SameKeys, WorldKeeps DEF IInv, PadTo, picture
<1>3. CASE Finger
  BY <1>3, SameKeys, WorldKeeps DEF IInv, Finger, picture
<1>4. CASE Shown
  BY <1>4, SameKeys, WorldKeeps DEF IInv, Shown, outside
<1> QED
  BY <1>1, <1>2, <1>3, <1>4 DEF World

----------------------------------------------------------------------------
LEMMA OwnerKeeps == ASSUME IInv, OwnerStep PROVE IInv'
BY StartKeeps, CreateKeeps, BarrierKeeps, BeginKeeps, TouchBeginKeeps, ReleaseKeeps, LoopKeeps,
   ExecuteKeeps, MarkKeeps, PollKeeps, EventsKeeps, PollPadKeeps, ProbeKeeps, PollTouchKeeps,
   SleepKeeps, EndKeeps, CloseKeeps DEF OwnerStep

LEMMA ConsoleKeeps == ASSUME IInv, ConsoleStep PROVE IInv'
BY PrepareKeeps, GateKeeps, PostKeeps, GiveKeeps, ReturnKeeps, LookKeeps, NoteKeeps, WakeKeeps
   DEF ConsoleStep

LEMMA StutterKeeps == ASSUME IInv, UNCHANGED vars PROVE IInv'
BY SameKeys, WorldKeeps DEF IInv, vars, picture, outside

LEMMA StepIInv == IInv /\ [Next]_vars => IInv'
BY OwnerKeeps, ConsoleKeeps, LeaveKeeps, OutsideKeeps, StutterKeeps DEF Next, Finished

LEMMA IInvHolds == Spec => []IInv
BY InitIInv, StepIInv, PTL DEF Spec

----------------------------------------------------------------------------
(* A call is handed over, executed once and answered before the console     *)
(* goes on: the slot in g_owner_request is never stale, however the tasks   *)
(* interleave.                                                              *)
THEOREM CallsAreAnsweredOnce == Spec => []OneCallOneAnswer
<1>1. IInv => OneCallOneAnswer
  BY DEF IInv, RequestAgrees, OneCallOneAnswer, Asked
<1> QED
  BY <1>1, IInvHolds, PTL

(* The console draws only on pixels that the compositor has lent to the     *)
(* display adapter, through refused frames, failed submissions and the end. *)
THEOREM PixelsStayLent == Spec => []PixelsAreLent
<1>1. IInv => PixelsAreLent
  BY DEF IInv, PixelsAgree, TasksAgree, PixelsAreLent, Asked, Ended
<1> QED
  BY <1>1, IInvHolds, PTL

(* When app_main returns, nothing of the firmware's is held and nobody uses *)
(* the adapters, whatever the providers refused.                            *)
THEOREM EverythingIsGivenBack == Spec => []NothingHeldAfter
<1>1. IInv => NothingHeldAfter
  BY DEF IInv, LeasesAgree, TasksAgree, RequestAgrees, NothingHeldAfter, Asked, Ended
<1> QED
  BY <1>1, IInvHolds, PTL

----------------------------------------------------------------------------
(* The keyboard: what the adapter shows, what it has queued for the console *)
(* and what the provider still has to tell.                                 *)

KeyStates == SUBSET (scene.keys \union {0})
QueueAgrees ==
  /\ hid.keys \in KeyStates
  /\ hid.sampled \in KeyStates
  /\ hid.queue \in Seq(KeyStates)
  /\ Len(hid.queue) <= QUEUE
  /\ hid.keys = IF hid.queue = <<>> THEN hid.sampled ELSE Last(hid.queue)

(* The subscription is the adapter's as long as the firmware grants it.     *)
Unsubscribed == {"start", "create", "barrier", "begin"}
SubscriptionAgrees ==
  /\ hid.subscribed <=> "keys" \in held
  /\ owner = "events" => "keys" \in held
  /\ owner \in Unsubscribed => ~hid.subscribed
  /\ "keys" \notin held => hid.keys = {}
  /\ "keys" \notin held /\ owner \notin {"close", "gone"} =>
       keyboard.events = <<>> /\ ~keyboard.gap

(* A key that is up is shown as down only until its release is read; a      *)
(* release is told after the press it ends.                                 *)
Clears(event, key) == event.kind = "disconnected" \/ (event.kind = "up" /\ event.key = key)
ReleasesAreTold ==
  "keys" \in held =>
    /\ ~keyboard.gap =>
         \A key \in hid.keys \ keyboard.down :
           \E j \in DOMAIN keyboard.events : Clears(keyboard.events[j], key)
    /\ \A i \in DOMAIN keyboard.events :
         LET event == keyboard.events[i]
         IN event.kind = "down" /\ event.key \notin keyboard.down =>
              \E j \in DOMAIN keyboard.events : j > i /\ Clears(keyboard.events[j], event.key)

KInv == QueueAgrees /\ SubscriptionAgrees /\ ReleasesAreTold

LEMMA InitKInv == Init => KInv
BY ElfAssumption DEF Init, KInv, QueueAgrees, KeyStates, SubscriptionAgrees, ReleasesAreTold, Fresh

LEMMA LastAppended ==
  ASSUME NEW S, NEW s \in Seq(S), NEW x \in S
  PROVE  /\ Append(s, x) \in Seq(S)
         /\ Append(s, x) # <<>>
         /\ Len(Append(s, x)) = Len(s) + 1
         /\ Last(Append(s, x)) = x
BY DEF Last

LEMMA LastOfTail ==
  ASSUME NEW S, NEW s \in Seq(S), s # <<>>
  PROVE  /\ Head(s) \in S
         /\ Tail(s) \in Seq(S)
         /\ Len(Tail(s)) = Len(s) - 1
         /\ Tail(s) = <<>> => Last(s) = Head(s)
         /\ Tail(s) # <<>> => Last(Tail(s)) = Last(s)
<1>1. /\ Head(s) \in S
      /\ Head(s) = s[1]
      /\ Tail(s) \in Seq(S)
      /\ Len(Tail(s)) = Len(s) - 1
      /\ Len(s) \in Nat \ {0}
  OBVIOUS
<1>2. Tail(s) = <<>> => Len(s) = 1
  BY <1>1
<1>3. Tail(s) # <<>> => Len(s) > 1 /\ Tail(s)[Len(s) - 1] = s[Len(s)]
  BY <1>1
<1> QED
  BY <1>1, <1>2, <1>3 DEF Last

LEMMA AcceptQueues ==
  ASSUME QueueAgrees, DOMAIN hid = HidFields, scene' = scene,
         NEW next \in KeyStates, NEW emit \in BOOLEAN, hid' = Accept(hid, next, emit)
  PROVE  QueueAgrees' /\ hid'.keys = next
<1> USE ElfAssumption, FreshShape DEF QueueAgrees
<1>1. KeyStates' = KeyStates
  BY DEF KeyStates
<1>2. CASE ~emit \/ Len(hid.queue) = QUEUE
  BY <1>1, <1>2 DEF Accept
<1>3. CASE emit /\ Len(hid.queue) # QUEUE
  <2>1. /\ DOMAIN hid' = HidFields
        /\ hid'.keys = next
        /\ hid'.sampled = hid.sampled
        /\ hid'.queue = IF next # hid.keys THEN Append(hid.queue, next) ELSE hid.queue
    BY <1>3 DEF Accept
  <2>2. CASE next = hid.keys
    BY <1>1, <2>1, <2>2
  <2>3. CASE next # hid.keys
    <3>1. hid'.queue = Append(hid.queue, next)
      BY <2>1, <2>3
    <3>2. /\ Append(hid.queue, next) \in Seq(KeyStates)
          /\ Append(hid.queue, next) # <<>>
          /\ Len(Append(hid.queue, next)) = Len(hid.queue) + 1
          /\ Last(Append(hid.queue, next)) = next
      BY LastAppended
    <3>3. Len(hid.queue) \in Nat /\ Len(hid.queue) + 1 <= QUEUE
      BY <1>3
    <3> QED
      BY <1>1, <2>1, <3>1, <3>2, <3>3
  <2> QED
    BY <2>2, <2>3
<1> QED
  BY <1>2, <1>3

LEMMA SampleQueues ==
  ASSUME QueueAgrees, DOMAIN hid = HidFields, scene' = scene, hid' = Sample(hid)
  PROVE  QueueAgrees' /\ hid'.keys = hid.keys
<1> USE ElfAssumption, FreshShape DEF QueueAgrees
<1>1. KeyStates' = KeyStates
  BY DEF KeyStates
<1>2. CASE hid.queue = <<>>
  BY <1>1, <1>2 DEF Sample
<1>3. CASE hid.queue # <<>>
  <2>1. /\ hid'.keys = hid.keys
        /\ hid'.sampled = Head(hid.queue)
        /\ hid'.queue = Tail(hid.queue)
    BY <1>3 DEF Sample
  <2>2. /\ Head(hid.queue) \in KeyStates
        /\ Tail(hid.queue) \in Seq(KeyStates)
        /\ Len(Tail(hid.queue)) = Len(hid.queue) - 1
        /\ Tail(hid.queue) = <<>> => Last(hid.queue) = Head(hid.queue)
        /\ Tail(hid.queue) # <<>> => Last(Tail(hid.queue)) = Last(hid.queue)
    BY <1>3, LastOfTail
  <2>3. Len(hid.queue) \in Nat /\ Len(hid.queue) - 1 <= QUEUE
    OBVIOUS
  <2> QED
    BY <1>1, <1>3, <2>1, <2>2, <2>3
<1> QED
  BY <1>2, <1>3

(* Steps that leave the keyboard's part of the adapter and the subscription. *)
LEMMA QuietKeepsKeys ==
  ASSUME KInv, UNCHANGED <<scene, keyboard>>,
         hid'.keys = hid.keys, hid'.sampled = hid.sampled, hid'.queue = hid.queue,
         hid'.subscribed = hid.subscribed, "keys" \in held' <=> "keys" \in held,
         owner' = "events" => "keys" \in held,
         owner' \in Unsubscribed => owner \in Unsubscribed,
         owner \in {"close", "gone"} => owner' \in {"close", "gone"}
  PROVE  KInv'
<1>1. QueueAgrees'
  BY DEF KInv, QueueAgrees, KeyStates
<1>2. SubscriptionAgrees'
  BY DEF KInv, SubscriptionAgrees
<1>3. ReleasesAreTold'
  BY DEF KInv, ReleasesAreTold
<1> QED
  BY <1>1, <1>2, <1>3 DEF KInv

LEMMA UsbBeginKeepsKeys ==
  ASSUME IInv, KInv, UsbBegin, UNCHANGED <<scene, keyboard>>, owner \notin {"close", "gone"},
         owner' = "events" => hid'.subscribed, owner' \notin Unsubscribed
  PROVE  KInv'
<1> PICK granted \in SUBSET Capabilities, works \in Answers("snapshot") :
      /\ hid' = Acquired(hid, granted, pads, works)
      /\ held' = held \union hid'.leases \union (IF hid'.subscribed THEN {"keys"} ELSE {})
  BY DEF UsbBegin
<1>1. /\ SameKeyState(hid, hid')
      /\ hid'.leases = hid.leases \union granted
      /\ hid'.subscribed \in BOOLEAN
      /\ hid.subscribed => hid'.subscribed
  BY AcquiredAdds DEF IInv, Shapes
<1>2. /\ hid'.subscribed <=> "keys" \in held'
      /\ "keys" \in held => "keys" \in held'
  BY <1>1, Apart DEF IInv, LeasesAgree, KInv, SubscriptionAgrees
<1>3. QueueAgrees'
  BY <1>1 DEF KInv, QueueAgrees, KeyStates, SameKeyState
<1>4. SubscriptionAgrees'
  BY <1>1, <1>2 DEF KInv, SubscriptionAgrees, SameKeyState
<1>5. ReleasesAreTold'
  <2>1. CASE "keys" \in held
    BY <1>1, <2>1 DEF KInv, ReleasesAreTold, SameKeyState
  <2>2. CASE "keys" \notin held
    BY <1>1, <2>2 DEF KInv, SubscriptionAgrees, ReleasesAreTold, SameKeyState
  <2> QED
    BY <2>1, <2>2
<1> QED
  BY <1>3, <1>4, <1>5 DEF KInv

LEMMA PollKeepsKeys == ASSUME IInv, KInv, Poll PROVE KInv'
<1> USE DEF Poll, outside
<1>1. owner' \notin Unsubscribed
  BY PadPlaces, Apart DEF Unsubscribed, Places
<1>2. CASE UNCHANGED <<hid, held>>
  <2>1. owner' = "events" => "keys" \in held
    BY <1>2, PadPlaces, Apart DEF KInv, SubscriptionAgrees, Places
  <2> QED
    BY <1>1, <1>2, <2>1, QuietKeepsKeys
<1>3. CASE UsbBegin /\ owner' = IF hid'.subscribed THEN "events" ELSE Pads[1]
  <2>1. owner' = "events" => hid'.subscribed
    BY <1>3, PadPlaces, Apart DEF Places
  <2> QED
    BY <1>1, <1>3, <2>1, UsbBeginKeepsKeys
<1> QED
  BY <1>2, <1>3 DEF input

LEMMA EventsKeepsKeys == ASSUME IInv, KInv, Events PROVE KInv'
<1> USE DEF Events
<1>1. "keys" \in held /\ "keys" \in held'
  BY DEF KInv, SubscriptionAgrees
<1>2. owner' \notin Unsubscribed /\ owner' \notin {"close", "gone"}
  BY PadPlaces, Apart DEF Unsubscribed, Places
<1>3. DOMAIN hid = HidFields /\ scene' = scene
  BY DEF IInv, Shapes
<1>4. ASSUME keyboard.gap, NEW works, hid' = KeyboardSnapshot(hid, keyboard.down, works),
             keyboard' = [keyboard EXCEPT !.gap = FALSE]
      PROVE  KInv'
  <2> DEFINE next == IF works THEN keyboard.down ELSE {}
  <2>1. next \in KeyStates /\ next \subseteq keyboard.down
    BY DEF KeyStates, IInv, KeysTyped
  <2>2. hid' = Accept(hid, next, FALSE)
    BY <1>4 DEF KeyboardSnapshot
  <2> HIDE DEF next
  <2>3. QueueAgrees' /\ hid'.keys = next
    BY <1>3, <2>1, <2>2, AcceptQueues DEF KInv
  <2>4. Keeps(hid, hid')
    BY <1>3, <2>2, AcceptKeeps
  <2>5. SubscriptionAgrees'
    BY <1>1, <1>2, <2>4 DEF KInv, SubscriptionAgrees, Keeps
  <2>6. keyboard'.events = keyboard.events /\ keyboard'.down = keyboard.down
    BY <1>4 DEF IInv, KeysTyped
  <2>7. ReleasesAreTold'
    BY <1>1, <2>1, <2>3, <2>6 DEF KInv, ReleasesAreTold
  <2> QED
    BY <2>3, <2>5, <2>7 DEF KInv
<1>5. ASSUME ~keyboard.gap, keyboard.events # <<>>,
             hid' = KeyboardEvent(hid, Head(keyboard.events)),
             keyboard' = [keyboard EXCEPT !.events = Tail(@)]
      PROVE  KInv'
  <2> DEFINE event == keyboard.events[1]
             rest == Tail(keyboard.events)
  <2>1. /\ event \in Event
        /\ event = Head(keyboard.events)
        /\ Len(keyboard.events) \in Nat \ {0}
        /\ DOMAIN keyboard.events = 1..Len(keyboard.events)
        /\ DOMAIN rest = 1..(Len(keyboard.events) - 1)
        /\ \A j \in DOMAIN rest : rest[j] = keyboard.events[j + 1]
    BY <1>5 DEF IInv, KeysTyped
  <2>2. keyboard'.events = rest /\ keyboard'.down = keyboard.down /\ ~keyboard'.gap
    BY <1>5 DEF IInv, KeysTyped
  <2> HIDE DEF event, rest
  <2>3. Keeps(hid, hid')
    BY <1>3, <1>5, <2>1, KeyboardEventKeeps DEF Event
  <2>4. SubscriptionAgrees'
    BY <1>1, <1>2, <2>3 DEF KInv, SubscriptionAgrees, Keeps
  <2>5. /\ QueueAgrees'
        /\ \A key \in hid'.keys : ~Clears(event, key)
        /\ hid'.keys \subseteq hid.keys \union (IF event.kind = "down" THEN {event.key} ELSE {})
    <3>1. hid' = KeyboardEvent(hid, event)
      BY <1>5, <2>1
    <3>2. CASE event.kind = "connected"
      <4>1. hid' = hid
        BY <3>1, <3>2, Zenon DEF KeyboardEvent
      <4> QED
        BY <1>3, <3>2, <4>1 DEF KInv, QueueAgrees, KeyStates, Clears
    <3>3. CASE event.kind = "disconnected"
      <4>1. hid' = Accept(hid, {}, FALSE)
        BY <3>1, <3>3, Zenon DEF KeyboardEvent
      <4>2. QueueAgrees' /\ hid'.keys = {}
        BY <1>3, <4>1, AcceptQueues DEF KInv, KeyStates
      <4> QED
        BY <4>2
    <3>4. CASE event.kind = "down"
      <4>1. hid' = Accept(hid, hid.keys \union {event.key}, TRUE)
        BY <3>1, <3>4, Zenon DEF KeyboardEvent
      <4>2. hid.keys \union {event.key} \in KeyStates
        BY <2>1 DEF KInv, QueueAgrees, KeyStates, Event
      <4>3. QueueAgrees' /\ hid'.keys = hid.keys \union {event.key}
        BY <1>3, <4>1, <4>2, AcceptQueues DEF KInv
      <4> QED
        BY <3>4, <4>3 DEF Clears
    <3>5. CASE event.kind = "up"
      <4>1. hid' = Accept(hid, hid.keys \ {event.key}, TRUE)
        BY <3>1, <3>5, Zenon DEF KeyboardEvent
      <4>2. hid.keys \ {event.key} \in KeyStates
        BY DEF KInv, QueueAgrees, KeyStates
      <4>3. QueueAgrees' /\ hid'.keys = hid.keys \ {event.key}
        BY <1>3, <4>1, <4>2, AcceptQueues DEF KInv
      <4> QED
        BY <3>5, <4>3 DEF Clears
    <3> QED
      BY <2>1, <3>2, <3>3, <3>4, <3>5 DEF Event
  <2>6. ASSUME NEW key \in hid'.keys \ keyboard.down
        PROVE  \E j \in DOMAIN rest : Clears(rest[j], key)
    <3>1. \E j \in DOMAIN keyboard.events : j > 1 /\ Clears(keyboard.events[j], key)
      <4>1. CASE key \in hid.keys
        <5>1. PICK j \in DOMAIN keyboard.events : Clears(keyboard.events[j], key)
          BY <1>1, <1>5, <2>6, <4>1 DEF KInv, ReleasesAreTold
        <5>2. j # 1
          BY <2>5, <2>6, <5>1 DEF event
        <5> QED
          BY <2>1, <5>1, <5>2
      <4>2. CASE key \notin hid.keys
        <5>1. event.kind = "down" /\ event.key = key
          BY <2>5, <2>6, <4>2
        <5>2. 1 \in DOMAIN keyboard.events
          BY <2>1
        <5> QED
          BY <1>1, <2>6, <5>1, <5>2 DEF KInv, ReleasesAreTold, event
      <4> QED
        BY <4>1, <4>2
    <3>2. PICK j \in DOMAIN keyboard.events : j > 1 /\ Clears(keyboard.events[j], key)
      BY <3>1
    <3>3. j - 1 \in DOMAIN rest /\ rest[j - 1] = keyboard.events[j]
      BY <2>1, <3>2
    <3> QED
      BY <3>2, <3>3
  <2>7. ASSUME NEW i \in DOMAIN rest, rest[i].kind = "down", rest[i].key \notin keyboard.down
        PROVE  \E j \in DOMAIN rest : j > i /\ Clears(rest[j], rest[i].key)
    <3>1. i + 1 \in DOMAIN keyboard.events /\ keyboard.events[i + 1] = rest[i]
      BY <2>1
    <3>2. PICK j \in DOMAIN keyboard.events :
            j > i + 1 /\ Clears(keyboard.events[j], rest[i].key)
      BY <1>1, <2>7, <3>1 DEF KInv, ReleasesAreTold
    <3>3. j - 1 \in DOMAIN rest /\ rest[j - 1] = keyboard.events[j] /\ j - 1 > i
      BY <2>1, <3>2
    <3> QED
      BY <3>2, <3>3
  <2>8. ReleasesAreTold'
    BY <1>1, <2>2, <2>6, <2>7 DEF ReleasesAreTold
  <2> QED
    BY <2>4, <2>5, <2>8 DEF KInv
<1>6. ASSUME UNCHANGED <<hid, taken, keyboard>>
      PROVE  KInv'
  BY <1>1, <1>2, <1>6, QuietKeepsKeys
<1> QED
  BY <1>4, <1>5, <1>6

LEMMA EndKeepsKeys == ASSUME IInv, KInv, End PROVE KInv'
<1> USE DEF End, outside, Released
<1>1. hid' = Fresh /\ "keys" \notin held' /\ owner' = "close"
  BY DEF KInv, SubscriptionAgrees
<1>2. QueueAgrees'
  BY <1>1, ElfAssumption DEF QueueAgrees, KeyStates, Fresh
<1>3. SubscriptionAgrees'
  BY <1>1 DEF SubscriptionAgrees, Fresh, Unsubscribed
<1>4. ReleasesAreTold'
  BY <1>1 DEF ReleasesAreTold
<1> QED
  BY <1>2, <1>3, <1>4 DEF KInv

LEMMA OwnerKeepsKeys == ASSUME IInv, KInv, OwnerStep PROVE KInv'
<1> USE DEF OwnerStep, input, outside
<1>1. CASE Start
  <2>1. "keys" \notin held /\ "keys" \notin held'
    BY <1>1 DEF KInv, SubscriptionAgrees, Start, Unsubscribed
  <2> QED
    BY <1>1, <2>1, QuietKeepsKeys DEF Start, Unsubscribed
<1>2. CASE Create
  BY <1>2, QuietKeepsKeys DEF Create, Unsubscribed
<1>3. CASE Barrier
  BY <1>3, QuietKeepsKeys DEF Barrier, Unsubscribed
<1>4. CASE Begin
  BY <1>4, UsbBeginKeepsKeys DEF Begin, Unsubscribed
<1>5. CASE TouchBegin
  BY <1>5, QuietKeepsKeys DEF TouchBegin, Unsubscribed
<1>6. CASE Release
  BY <1>6, QuietKeepsKeys DEF Release, Unsubscribed
<1>7. CASE Loop
  BY <1>7, QuietKeepsKeys DEF Loop, Unsubscribed
<1>8. CASE Execute
  BY <1>8, QuietKeepsKeys DEF Execute, Unsubscribed
<1>9. CASE Mark
  BY <1>9, QuietKeepsKeys DEF Mark, Unsubscribed
<1>10. CASE Poll
  BY <1>10, PollKeepsKeys
<1>11. CASE Events
  BY <1>11, EventsKeepsKeys
<1>12. ASSUME NEW i \in DOMAIN Pads, PollPad(i) PROVE KInv'
  <2>1. /\ owner' \notin Unsubscribed \union {"events"}
        /\ owner \notin {"close", "gone"}
    BY <1>12, PadPlaces, Apart DEF PollPad, Unsubscribed, Places
  <2>2. Keeps(hid, hid') /\ SameKeyState(hid, hid')
    BY <1>12, AcceptGamepadKeeps DEF IInv, Shapes, PollPad, GamepadSnapshot, Keeps, SameKeyState
  <2> QED
    BY <1>12, <2>1, <2>2, QuietKeepsKeys DEF PollPad, Keeps, SameKeyState
<1>13. CASE Probe
  <2>1. /\ hid'.keys = hid.keys /\ hid'.sampled = hid.sampled /\ hid'.queue = hid.queue
        /\ hid'.subscribed = hid.subscribed
        /\ "keys" \in held' <=> "keys" \in held
    BY <1>13, FreshShape DEF Probe, IInv, Shapes
  <2> QED
    BY <1>13, <2>1, QuietKeepsKeys DEF Probe, Unsubscribed
<1>14. CASE PollTouch
  BY <1>14, QuietKeepsKeys DEF PollTouch, Unsubscribed
<1>15. CASE Sleep
  BY <1>15, QuietKeepsKeys DEF Sleep, Unsubscribed
<1>16. CASE End
  BY <1>16, EndKeepsKeys
<1>17. CASE Close
  BY <1>17, QuietKeepsKeys DEF Close, Unsubscribed
<1> QED
  BY <1>1, <1>2, <1>3, <1>4, <1>5, <1>6, <1>7, <1>8, <1>9, <1>10, <1>11, <1>12, <1>13, <1>14,
     <1>15, <1>16, <1>17

(* Steps that leave the adapter, the leases and the owner.                  *)
LEMMA StillKeepsKeys ==
  ASSUME KInv, UNCHANGED <<scene, keyboard, hid, held, owner>>
  PROVE  KInv'
BY QuietKeepsKeys DEF KInv, SubscriptionAgrees

LEMMA ConsoleKeepsKeys == ASSUME IInv, KInv, ConsoleStep \/ Leave PROVE KInv'
<1>1. CASE Look
  <2>1. /\ QueueAgrees' /\ hid'.keys = hid.keys
    BY <1>1, SampleQueues DEF Look, IInv, Shapes, KInv
  <2>2. hid'.subscribed = hid.subscribed
    BY <1>1, SampleKeeps DEF Look, IInv, Shapes, Keeps
  <2>3. SubscriptionAgrees' /\ ReleasesAreTold'
    BY <1>1, <2>1, <2>2 DEF Look, tasks, outside, KInv, SubscriptionAgrees, ReleasesAreTold
  <2> QED
    BY <2>1, <2>3 DEF KInv
<1>2. ASSUME NEW kind, Post(kind) PROVE KInv'
  BY <1>2, StillKeepsKeys DEF Post, input, outside
<1>3. CASE Prepare \/ Gate \/ Give \/ Return \/ Note \/ Wake \/ Leave
  BY <1>3, StillKeepsKeys DEF Prepare, Gate, Give, Return, Note, Wake, Leave, input, outside
<1> QED
  BY <1>1, <1>2, <1>3 DEF ConsoleStep

LEMMA HappensKeepsKeys ==
  ASSUME IInv, KInv, NEW event \in Event, NEW down \in SUBSET scene.keys, Happens(event, down),
         event.kind = "down" => event.key \in down,
         \A key \in keyboard.down \ down : Clears(event, key)
  PROVE  KInv'
<1> USE DEF Happens, tasks, input
<1>1. QueueAgrees'
  BY DEF KInv, QueueAgrees, KeyStates
<1>2. CASE "keys" \notin held
  <2>1. keyboard'.events = keyboard.events /\ keyboard'.gap = keyboard.gap
    BY <1>2 DEF IInv, KeysTyped
  <2>2. SubscriptionAgrees'
    BY <2>1 DEF KInv, SubscriptionAgrees
  <2> QED
    BY <1>1, <1>2, <2>2 DEF KInv, ReleasesAreTold
<1>3. CASE "keys" \in held
  <2>1. SubscriptionAgrees'
    BY <1>3 DEF KInv, SubscriptionAgrees
  <2>2. CASE Len(keyboard.events) = EVENTS
    <3>1. keyboard'.events = <<>> /\ keyboard'.gap
      BY <1>3, <2>2
    <3> QED
      BY <1>1, <2>1, <3>1 DEF KInv, ReleasesAreTold
  <2>3. CASE Len(keyboard.events) # EVENTS
    <3> DEFINE n == Len(keyboard.events)
               now == Append(keyboard.events, event)
    <3>1. keyboard'.events = now /\ keyboard'.gap = keyboard.gap /\ keyboard'.down = down
      BY <1>3, <2>3 DEF IInv, KeysTyped
    <3>2. /\ n \in Nat
          /\ DOMAIN keyboard.events = 1..n
          /\ DOMAIN now = 1..(n + 1)
          /\ \A j \in 1..n : now[j] = keyboard.events[j]
          /\ now[n + 1] = event
      BY DEF IInv, KeysTyped
    <3> HIDE DEF n, now
    <3>3. ASSUME ~keyboard.gap, NEW key \in hid.keys \ down
          PROVE  \E j \in DOMAIN now : Clears(now[j], key)
      <4>1. CASE key \in keyboard.down
        BY <3>2, <4>1
      <4>2. CASE key \notin keyboard.down
        BY <1>3, <3>2, <3>3, <4>2 DEF KInv, ReleasesAreTold
      <4> QED
        BY <4>1, <4>2
    <3>4. ASSUME NEW i \in DOMAIN now, now[i].kind = "down", now[i].key \notin down
          PROVE  \E j \in DOMAIN now : j > i /\ Clears(now[j], now[i].key)
      <4>1. i \in 1..n
        BY <3>2, <3>4
      <4>2. CASE now[i].key \in keyboard.down
        BY <3>2, <3>4, <4>1, <4>2
      <4>3. CASE now[i].key \notin keyboard.down
        <5>1. PICK j \in DOMAIN keyboard.events :
                j > i /\ Clears(keyboard.events[j], now[i].key)
          BY <1>3, <3>2, <3>4, <4>1, <4>3 DEF KInv, ReleasesAreTold
        <5> QED
          BY <3>2, <5>1
      <4> QED
        BY <4>2, <4>3
    <3>5. ReleasesAreTold'
      BY <1>3, <3>1, <3>3, <3>4 DEF ReleasesAreTold
    <3> QED
      BY <1>1, <2>1, <3>5 DEF KInv
  <2> QED
    BY <2>2, <2>3
<1> QED
  BY <1>2, <1>3

LEMMA WorldKeepsKeys == ASSUME IInv, KInv, World PROVE KInv'
<1> USE DEF World
<1>1. ASSUME NEW key \in scene.keys, Press(key) PROVE KInv'
  BY <1>1, HappensKeepsKeys DEF Press, Event, IInv, KeysTyped
<1>2. ASSUME NEW key \in scene.keys, Lift(key) PROVE KInv'
  <2>1. [kind |-> "up", key |-> key] \in Event
    BY DEF Event
  <2> QED
    BY <1>2, <2>1, HappensKeepsKeys DEF Lift, IInv, KeysTyped, Clears
<1>3. CASE Replug
  <2>1. /\ [kind |-> "disconnected", key |-> 0] \in Event
        /\ [kind |-> "connected", key |-> 0] \in Event
    BY DEF Event
  <2> QED
    BY <1>3, <2>1, HappensKeepsKeys DEF Replug, Clears
<1>4. ASSUME NEW p, NEW device, NEW state, PadTo(p, device, state) PROVE KInv'
  BY <1>4, StillKeepsKeys DEF PadTo, tasks, input
<1>5. CASE Finger \/ Shown
  BY <1>5, StillKeepsKeys DEF Finger, Shown, tasks, input, outside
<1> QED
  BY <1>1, <1>2, <1>3, <1>4, <1>5

LEMMA StepKInv == IInv /\ KInv /\ [Next]_vars => KInv'
<1>1. ASSUME IInv, KInv, UNCHANGED vars PROVE KInv'
  BY <1>1, StillKeepsKeys DEF vars, tasks, input, outside
<1> QED
  BY <1>1, OwnerKeepsKeys, ConsoleKeepsKeys, WorldKeepsKeys DEF Next, Finished

(* No key sticks: through a queue that overflows, a provider that loses     *)
(* events, snapshots that fail and a keyboard that is pulled out, the       *)
(* adapter shows no key that is up once it has read what it was told.       *)
THEOREM NoKeySticks == Spec => []KeyboardCatchesUp
<1>1. IInv /\ KInv => KeyboardCatchesUp
  BY DEF IInv, KeysTyped, KInv, QueueAgrees, SubscriptionAgrees, ReleasesAreTold,
         KeyboardCatchesUp
<1> QED
  BY <1>1, IInvHolds, InitKInv, StepKInv, PTL DEF Spec
----------------------------------------------------------------------------
(* What else TypeOK says: no call is made before the console runs, and the  *)
(* provider keeps what it can of what happens.                              *)
Idle == {"absent", "prepare", "gate", "skip"}
TInv ==
  /\ scene \in Scenes
  /\ console \in Idle \union {"run", "give", "wait", "note", "wake", "gone"}
  /\ bus_ready \in BOOLEAN /\ console_done \in BOOLEAN
  /\ served \in BOOLEAN /\ finger \in BOOLEAN
  /\ frame \in {"free", "lent", "shown"}
  /\ calls \in 0..scene.calls + 1
  /\ console \in Idle => calls = 0
  /\ Len(keyboard.events) <= EVENTS

LEMMA InitTInv == Init => TInv
<1> SUFFICES ASSUME Init PROVE TInv
  OBVIOUS
<1>1. /\ bus_ready \in BOOLEAN /\ console_done \in BOOLEAN
      /\ served \in BOOLEAN /\ finger \in BOOLEAN
  BY Zenon DEF Init
<1>2. /\ scene \in Scenes /\ scene.calls \in Nat /\ calls = 0
      /\ console = "absent" /\ frame = "free"
  BY ElfAssumption DEF Init
<1>3. Len(keyboard.events) <= EVENTS
  BY ElfAssumption DEF Init
<1> QED
  BY <1>1, <1>2, <1>3 DEF TInv, Idle

(* Steps that leave all of it.                                              *)
LEMMA QuietKeepsTypes ==
  ASSUME TInv, UNCHANGED <<scene, console, bus_ready, console_done, served, finger, frame, calls,
                           keyboard>>
  PROVE  TInv'
BY DEF TInv

LEMMA OwnerKeepsTypes == ASSUME IInv, TInv, OwnerStep PROVE TInv'
<1> USE DEF OwnerStep, TInv
<1>1. CASE Start
  <2>1. PICK usable \in BOOLEAN : bus_ready' = usable /\ frame' = IF usable THEN "lent" ELSE "free"
    BY <1>1 DEF Start, Answers
  <2> QED
    BY <1>1, <2>1 DEF Start, rpc, outside
<1>2. CASE Create
  BY <1>2 DEF Create, rpc, picture, outside, IInv, TasksAgree, Idle, Ended
<1>3. CASE Loop
  BY <1>3 DEF Loop, picture, outside, IInv, Shapes
<1>4. CASE Execute
  <2>1. frame' \in {"free", "lent", "shown"}
    BY <1>4 DEF Execute, AcquireFrame, Submit
  <2> QED
    BY <1>4, <2>1 DEF Execute, outside
<1>5. CASE Events
  <2>1. Len(keyboard'.events) <= EVENTS
    <3>1. CASE keyboard' = [keyboard EXCEPT !.events = Tail(@)] /\ keyboard.events # <<>>
      BY <1>5, <3>1, ElfAssumption DEF IInv, KeysTyped
    <3>2. CASE keyboard' = [keyboard EXCEPT !.gap = FALSE] \/ keyboard' = keyboard
      BY <3>2 DEF IInv, KeysTyped
    <3> QED
      BY <1>5, <3>1, <3>2 DEF Events
  <2> QED
    BY <1>5, <2>1 DEF Events, rpc, picture
<1>6. CASE Close
  BY <1>6 DEF Close, rpc, outside
<1>7. CASE Barrier \/ Begin \/ TouchBegin \/ Release \/ Mark \/ Poll \/ Probe \/ PollTouch
           \/ Sleep \/ End \/ \E i \in DOMAIN Pads : PollPad(i)
  BY <1>7, QuietKeepsTypes
     DEF Barrier, Begin, TouchBegin, Release, Mark, Poll, Probe, PollTouch, Sleep, End, PollPad,
         rpc, picture, outside
<1> QED
  BY <1>1, <1>2, <1>3, <1>4, <1>5, <1>6, <1>7

LEMMA ConsoleKeepsTypes == ASSUME IInv, TInv, ConsoleStep \/ Leave PROVE TInv'
<1> USE DEF TInv, Idle
<1>1. CASE Prepare
  BY <1>1 DEF Prepare, rpc, picture, outside, IInv, Shapes
<1>2. CASE Gate \/ Give \/ Return \/ Note \/ Wake \/ Leave
  BY <1>2 DEF Gate, Give, Return, Note, Wake, Leave, rpc, picture, outside
<1>3. CASE Look
  BY <1>3, QuietKeepsTypes DEF Look, tasks, rpc, picture, outside
<1>4. ASSUME NEW kind, Post(kind) PROVE TInv'
  <2>1. scene.calls \in Nat /\ calls \in Nat
    BY ElfAssumption
  <2> QED
    BY <1>4, <2>1 DEF Post, picture, outside
<1> QED
  BY <1>1, <1>2, <1>3, <1>4 DEF ConsoleStep

LEMMA WorldKeepsTypes == ASSUME IInv, TInv, World PROVE TInv'
<1>1. ASSUME NEW event \in Event, NEW down, Happens(event, down) PROVE TInv'
  <2>1. Len(keyboard'.events) <= EVENTS
    BY <1>1, ElfAssumption DEF Happens, TInv, IInv, KeysTyped
  <2> QED
    BY <1>1, <2>1 DEF TInv, Happens, tasks, rpc, picture
<1>2. CASE \E key \in scene.keys : Press(key) \/ Lift(key)
  <2>1. PICK key \in scene.keys : Press(key) \/ Lift(key)
    BY <1>2
  <2>2. [kind |-> "down", key |-> key] \in Event /\ [kind |-> "up", key |-> key] \in Event
    BY DEF Event
  <2> QED
    BY <1>1, <2>1, <2>2 DEF Press, Lift
<1>3. CASE Replug
  <2>1. /\ [kind |-> "disconnected", key |-> 0] \in Event
        /\ [kind |-> "connected", key |-> 0] \in Event
    BY DEF Event
  <2> QED
    BY <1>1, <1>3, <2>1 DEF Replug
<1>4. ASSUME NEW p, NEW device, NEW state, PadTo(p, device, state) PROVE TInv'
  BY <1>4, QuietKeepsTypes DEF PadTo, tasks, rpc, picture
<1>5. CASE Finger \/ Shown
  BY <1>5 DEF Finger, Shown, TInv, tasks, rpc, picture, outside
<1> QED
  BY <1>2, <1>3, <1>4, <1>5 DEF World

LEMMA StepTInv == IInv /\ TInv /\ [Next]_vars => TInv'
<1>1. ASSUME TInv, UNCHANGED vars PROVE TInv'
  BY <1>1, QuietKeepsTypes DEF vars, tasks, rpc, picture, outside
<1> QED
  BY <1>1, OwnerKeepsTypes, ConsoleKeepsTypes, WorldKeepsTypes DEF Next, Finished

LEMMA TypesFollow == IInv /\ KInv /\ TInv => TypeOK
BY DEF IInv, Shapes, RequestAgrees, LeasesAgree, KInv, QueueAgrees, TInv, Idle, TypeOK
----------------------------------------------------------------------------
(* The controllers.  A provider whose controller is there is one whose      *)
(* lease is kept, and the active one is such a provider.                    *)

PadsAgree(h, leases) ==
  /\ DOMAIN h.source = PadSet
  /\ \A p \in PadSet : /\ h.source[p].connected \in BOOLEAN /\ h.source[p].down \in BOOLEAN
                       /\ h.source[p].connected => p \in leases
  /\ h.active \in PadSet \union {"none"}
  /\ h.active = "none" => h.gamepad = FALSE
  /\ h.active # "none" => h.source[h.active].connected /\ h.gamepad = h.source[h.active].down

PInv == PadsAgree(hid, hid.leases)

(* A set of naturals that is not empty has a smallest element.              *)
LEMMA SmallestOf ==
  ASSUME NEW T \in SUBSET Nat, T # {}
  PROVE  \E m \in T : \A k \in T : m <= k
<1>1. PICK m \in T : \A k \in T : ~(<<k, m>> \in OpToRel(<, Nat))
  BY WFMin, NatLessThanWellFounded, Zenon
<1>2. ASSUME NEW k \in T, k < m PROVE FALSE
  <2>1. <<k, m>> \in {ss \in Nat \X Nat : ss[1] < ss[2]}
    BY <1>2
  <2>2. <<k, m>> \in OpToRel(<, Nat)
    BY <2>1, Zenon DEF OpToRel
  <2> QED
    BY <1>1, <2>2, Zenon
<1> QED
  BY <1>2

(* What holds at 0 and is passed on up to n holds at n.                     *)
LEMMA PassedOn ==
  ASSUME NEW n \in Nat, NEW T, 0 \in T, \A i \in 1..n : i - 1 \in T => i \in T
  PROVE  n \in T
<1> SUFFICES ASSUME n \notin T PROVE FALSE
  OBVIOUS
<1>1. (0..n) \ T \in SUBSET Nat /\ (0..n) \ T # {}
  OBVIOUS
<1>2. PICK m \in (0..n) \ T : \A k \in (0..n) \ T : m <= k
  BY <1>1, SmallestOf, Zenon
<1>3. m \in 1..n /\ m - 1 \in T
  BY <1>2
<1> QED
  BY <1>2, <1>3

(* The first provider with a controller, if there is one.                   *)
LEMMA ChosenIsConnected ==
  ASSUME NEW source
  PROVE  IF \E p \in PadSet : source[p].connected
         THEN /\ Chosen(source) \in 1..Len(Pads) /\ Pads[Chosen(source)] \in PadSet
              /\ source[Pads[Chosen(source)]].connected
         ELSE Chosen(source) = 0
<1> DEFINE I == {i \in 1..Len(Pads) : source[Pads[i]].connected}
<1>1. CASE ~\E p \in PadSet : source[p].connected
  BY <1>1 DEF Chosen
<1>2. CASE \E p \in PadSet : source[p].connected
  <2>1. I # {} /\ I \in SUBSET Nat
    BY <1>2, ElfAssumption DEF PadSet, Range
  <2>2. \E x \in I : \A y \in I : x <= y
    BY <2>1, SmallestOf
  <2>3. Min(I) \in I
    BY <2>2 DEF Min
  <2>4. Chosen(source) = Min(I)
    BY <1>2, <2>1 DEF Chosen, SelectInSeq
  <2> QED
    BY <1>2, <2>3, <2>4, PadPlaces, ElfAssumption
<1> QED
  BY <1>1, <1>2

LEMMA CurrentIsTyped ==
  ASSUME NEW h, NEW p, NEW devices, NEW works, NEW state, state = Current(h, p, devices, works)
  PROVE  state.connected \in BOOLEAN /\ state.down \in BOOLEAN
BY DEF Current, NoPad

(* A provider that is heard disturbs the active one only by being it.       *)
LEMMA AcceptGamepadPads ==
  ASSUME NEW h, DOMAIN h = HidFields, NEW leases, PadsAgree(h, leases),
         NEW p \in PadSet, p \in leases,
         NEW state, state.connected \in BOOLEAN, state.down \in BOOLEAN,
         NEW k, k = AcceptGamepad(h, p, state)
  PROVE  /\ DOMAIN k = HidFields /\ k.leases = h.leases
         /\ PadsAgree(k, leases)
         /\ h.active # "none" => k.active = h.active \/ ~k.source[h.active].connected
         /\ h.active # "none" /\ h.active # p => k.active = h.active
<1> DEFINE source == [h.source EXCEPT ![p] = state]
           next == Chosen(source)
<1>1. /\ DOMAIN source = PadSet
      /\ \A q \in PadSet : /\ source[q].connected \in BOOLEAN /\ source[q].down \in BOOLEAN
                           /\ source[q].connected => q \in leases
                           /\ q # p => source[q] = h.source[q]
      /\ source[p] = state
  BY DEF PadsAgree
<1>2. "none" \notin PadSet
  BY ElfAssumption
<1>3. CASE h.active # "none" /\ source[h.active].connected
  <2>1. k = [h EXCEPT !.source = source, !.gamepad = IF h.active = p THEN state.down ELSE @]
    BY <1>3 DEF AcceptGamepad
  <2> HIDE DEF source
  <2>2. /\ DOMAIN k = HidFields /\ k.leases = h.leases /\ k.source = source
        /\ k.active = h.active
        /\ k.gamepad = IF h.active = p THEN state.down ELSE h.gamepad
    BY <2>1, FreshShape
  <2> QED
    BY <1>1, <1>3, <2>2 DEF PadsAgree
<1>4. CASE ~(h.active # "none" /\ source[h.active].connected) /\ next = 0
  <2> DEFINE off == FALSE
  <2>1. k = [h EXCEPT !.source = source, !.active = "none", !.gamepad = off]
    BY <1>4 DEF AcceptGamepad
  <2> HIDE DEF source, off
  <2>2. /\ DOMAIN k = HidFields /\ k.leases = h.leases /\ k.source = source
        /\ k.active = "none" /\ k.gamepad = off
    BY <2>1, FreshShape
  <2>3. h.active # "none" => h.active = p
    BY <1>1, <1>4 DEF PadsAgree
  <2> QED
    BY <1>1, <1>4, <2>2, <2>3 DEF PadsAgree, off
<1>5. CASE ~(h.active # "none" /\ source[h.active].connected) /\ next # 0
  <2>1. k = [h EXCEPT !.source = source, !.active = Pads[next], !.gamepad = source[Pads[next]].down]
    BY <1>5 DEF AcceptGamepad
  <2>2. Pads[next] \in PadSet /\ source[Pads[next]].connected
    BY <1>5, ChosenIsConnected
  <2> HIDE DEF source, next
  <2>3. /\ DOMAIN k = HidFields /\ k.leases = h.leases /\ k.source = source
        /\ k.active = Pads[next] /\ k.gamepad = source[Pads[next]].down
    BY <2>1, FreshShape
  <2>4. h.active # "none" => h.active = p
    BY <1>1, <1>5 DEF PadsAgree
  <2> QED
    BY <1>1, <1>2, <1>5, <2>2, <2>3, <2>4 DEF PadsAgree
<1> QED
  BY <1>3, <1>4, <1>5

(* paperboy_usb_owner_begin: the providers that come are heard one after    *)
(* the other; the active one is not among them.                             *)
LEMMA AcquiredPads ==
  ASSUME NEW h, DOMAIN h = HidFields, PadsAgree(h, h.leases),
         NEW granted, NEW devices, NEW works,
         NEW k, k = Acquired(h, granted, devices, works)
  PROVE  /\ PadsAgree(k, k.leases)
         /\ h.active # "none" => k.active = h.active
<1> DEFINE n == Len(Pads)
           fresh == granted \ h.leases
           all == h.leases \union fresh
           Turn(x, i) == IF Pads[i] \in fresh
                         THEN GamepadSnapshot(x, Pads[i], devices[Pads[i]], works) ELSE x
           Body(f) == [i \in 0..n |-> IF i = 0 THEN h ELSE Turn(f[i - 1], i)]
           Begun == CHOOSE f : f = Body(f)
           begun == Begun[n]
<1>1. n \in Nat /\ \A i \in 1..n : Pads[i] \in PadSet
  BY PadPlaces, ElfAssumption
<1>2. k = [h EXCEPT !.leases = @ \union fresh, !.subscribed = @ \/ "keyboard" \in fresh,
                    !.source = begun.source, !.active = begun.active, !.gamepad = begun.gamepad]
  BY Zenon DEF Acquired
<1> DEFINE Kept(x) == /\ DOMAIN x = HidFields /\ PadsAgree(x, all)
                      /\ h.active # "none" => x.active = h.active
<1>3. Kept(h)
  BY DEF PadsAgree
<1>4. ASSUME NEW x, Kept(x), NEW i \in 1..n PROVE Kept(Turn(x, i))
  <2>1. CASE Pads[i] \in fresh
    <3> DEFINE state == Current(x, Pads[i], devices[Pads[i]], works)
    <3>1. state.connected \in BOOLEAN /\ state.down \in BOOLEAN
      BY CurrentIsTyped
    <3>2. Turn(x, i) = AcceptGamepad(x, Pads[i], state)
      BY <2>1 DEF GamepadSnapshot
    <3>3. h.active # "none" => h.active # Pads[i]
      BY <2>1 DEF PadsAgree
    <3>4. Pads[i] \in all
      BY <2>1
    <3> HIDE DEF state, Turn, all
    <3>5. x.active # "none" /\ x.active # Pads[i] => Turn(x, i).active = x.active
      BY <1>1, <1>4, <3>1, <3>2, <3>4, AcceptGamepadPads
    <3>6. DOMAIN Turn(x, i) = HidFields /\ PadsAgree(Turn(x, i), all)
      BY <1>1, <1>4, <3>1, <3>2, <3>4, AcceptGamepadPads
    <3> QED
      BY <1>4, <3>3, <3>5, <3>6
  <2>2. CASE Pads[i] \notin fresh
    BY <1>4, <2>2
  <2> QED
    BY <2>1, <2>2
<1> HIDE DEF Kept, Turn, n, fresh
<1>5. \E f : f = Body(f)
  <2> DEFINE Until(f, m) == f[0] = h /\ \A i \in 1..m : f[i] = Turn(f[i - 1], i)
             T == {m \in 0..n : \E f : Until(f, m)}
  <2>1. 0 \in T
    <3> DEFINE first == [i \in {0} |-> h]
    <3>1. first[0] = h /\ 1..0 = {} /\ 0 \in 0..n
      BY <1>1
    <3> HIDE DEF first
    <3>2. Until(first, 0)
      BY <3>1
    <3> QED
      BY <3>1, <3>2
  <2>2. ASSUME NEW m \in 1..n, m - 1 \in T PROVE m \in T
    <3>1. PICK f : Until(f, m - 1)
      BY <2>2
    <3> DEFINE longer == [i \in 0..m |-> IF i = m THEN Turn(f[m - 1], m) ELSE f[i]]
    <3>2. Until(longer, m)
      BY <1>1, <3>1
    <3> HIDE DEF longer
    <3> QED
      BY <3>2
  <2> HIDE DEF T
  <2>3. n \in T
    BY <1>1, <2>1, <2>2, PassedOn
  <2>4. PICK f : Until(f, n)
    BY <2>3 DEF T
  <2> DEFINE g == [i \in 0..n |-> f[i]]
  <2>5. g = Body(g)
    BY <1>1, <2>4
  <2> QED
    BY <2>5
<1>6. Begun = Body(Begun)
  BY <1>5, Zenon
<1> HIDE DEF Begun
<1>7. \A i \in 0..n : Begun[i] = IF i = 0 THEN h ELSE Turn(Begun[i - 1], i)
  BY <1>6
<1>8. Kept(begun)
  <2> DEFINE T == {i \in 0..n : Kept(Begun[i])}
  <2>1. 0 \in T
    BY <1>1, <1>3, <1>7
  <2>2. ASSUME NEW i \in 1..n, i - 1 \in T PROVE i \in T
    BY <1>1, <1>4, <1>7, <2>2
  <2> HIDE DEF T
  <2>3. n \in T
    BY <1>1, <2>1, <2>2, PassedOn
  <2> QED
    BY <2>3 DEF T
<1> HIDE DEF begun
<1>9. /\ k.leases = all /\ k.source = begun.source
      /\ k.active = begun.active /\ k.gamepad = begun.gamepad
  BY <1>2, FreshShape
<1> QED
  BY <1>8, <1>9 DEF Kept, PadsAgree

----------------------------------------------------------------------------
(* A step that keeps the active controller, or finds it gone.               *)
StaysOrGone ==
  hid.active # "none" => hid'.active = hid.active \/ ~hid'.source[hid.active].connected

LEMMA FreshPads == PadsAgree(Fresh, {})
<1>1. Fresh.source = [p \in PadSet |-> NoPad] /\ Fresh.active = "none"
  BY DEF Fresh
<1>2. Fresh.gamepad = FALSE
  BY Zenon DEF Fresh
<1>3. NoPad.connected = FALSE /\ NoPad.down = FALSE
  BY Zenon DEF NoPad
<1> HIDE DEF NoPad
<1> QED
  BY <1>1, <1>2, <1>3, ElfAssumption DEF PadsAgree

LEMMA InitPInv == Init => PInv
<1>1. Fresh.leases = {}
  BY DEF Fresh
<1> QED
  BY <1>1, FreshPads DEF Init, PInv

LEMMA SamePads ==
  ASSUME PInv, hid'.source = hid.source, hid'.active = hid.active, hid'.gamepad = hid.gamepad,
         hid.leases \subseteq hid'.leases
  PROVE  PInv' /\ StaysOrGone
BY DEF PInv, PadsAgree, StaysOrGone

LEMMA UsbBeginKeepsPads ==
  ASSUME IInv, PInv, UsbBegin
  PROVE  PInv' /\ StaysOrGone
<1> PICK granted \in SUBSET Capabilities, works \in Answers("snapshot") :
      hid' = Acquired(hid, granted, pads, works)
  BY DEF UsbBegin
<1> QED
  BY AcquiredPads DEF IInv, Shapes, PInv, StaysOrGone

LEMMA AcceptSame ==
  ASSUME NEW h, DOMAIN h = HidFields, NEW next, NEW emit, NEW k, k = Accept(h, next, emit)
  PROVE  k.source = h.source /\ k.active = h.active /\ k.gamepad = h.gamepad
         /\ k.leases = h.leases
BY FreshShape DEF Accept

LEMMA EventsKeepsPads == ASSUME IInv, PInv, Events PROVE PInv' /\ StaysOrGone
<1>1. DOMAIN hid = HidFields
  BY DEF IInv, Shapes
<1>2. ASSUME NEW next, NEW emit, hid' = Accept(hid, next, emit) PROVE PInv' /\ StaysOrGone
  <2>1. /\ hid'.source = hid.source /\ hid'.active = hid.active /\ hid'.gamepad = hid.gamepad
        /\ hid'.leases = hid.leases
    BY <1>1, <1>2, AcceptSame
  <2> QED
    BY <2>1, SamePads
<1>3. ASSUME NEW works, hid' = KeyboardSnapshot(hid, keyboard.down, works)
      PROVE  PInv' /\ StaysOrGone
  <2>1. hid' = Accept(hid, IF works THEN keyboard.down ELSE {}, FALSE)
    BY <1>3 DEF KeyboardSnapshot
  <2> QED
    BY <2>1, <1>2
<1>4. ASSUME keyboard.events # <<>>, hid' = KeyboardEvent(hid, Head(keyboard.events))
      PROVE  PInv' /\ StaysOrGone
  <2> DEFINE event == Head(keyboard.events)
  <2>1. event.kind \in {"connected", "disconnected", "down", "up"}
    <3>1. event \in Event
      BY <1>4, LastOfTail DEF IInv, KeysTyped
    <3> QED
      BY <3>1 DEF Event
  <2>2. \/ hid' = hid
        \/ \E next, emit : hid' = Accept(hid, next, emit)
    <3> HIDE DEF event
    <3>1. hid' = KeyboardEvent(hid, event)
      BY <1>4 DEF event
    <3> QED
      BY <2>1, <3>1, Zenon DEF KeyboardEvent
  <2> QED
    BY <1>2, <2>2, SamePads
<1>5. CASE hid' = hid
  BY <1>5, SamePads
<1> QED
  BY <1>3, <1>4, <1>5 DEF Events

LEMMA PollPadKeepsPads ==
  ASSUME IInv, PInv, NEW i \in DOMAIN Pads, PollPad(i)
  PROVE  PInv' /\ StaysOrGone
<1>1. CASE Pads[i] \in hid.leases
  <2>1. PICK works : hid' = GamepadSnapshot(hid, Pads[i], pads[Pads[i]], works)
    BY <1>1 DEF PollPad
  <2> DEFINE state == Current(hid, Pads[i], pads[Pads[i]], works)
  <2>2. state.connected \in BOOLEAN /\ state.down \in BOOLEAN
    BY CurrentIsTyped
  <2>3. hid' = AcceptGamepad(hid, Pads[i], state)
    BY <2>1 DEF GamepadSnapshot
  <2> HIDE DEF state
  <2>4. DOMAIN hid = HidFields /\ Pads[i] \in PadSet
    BY PadPlaces DEF IInv, Shapes
  <2>5. /\ hid'.leases = hid.leases /\ PadsAgree(hid', hid.leases)
        /\ StaysOrGone
    BY <1>1, <2>2, <2>3, <2>4, AcceptGamepadPads DEF PInv, StaysOrGone
  <2> QED
    BY <2>5 DEF PInv
<1>2. CASE Pads[i] \notin hid.leases
  BY <1>2, SamePads DEF PollPad
<1> QED
  BY <1>1, <1>2

LEMMA StepPInv == IInv /\ PInv /\ [Next]_vars => PInv' /\ (StaysOrGone \/ owner = "end")
<1> SUFFICES ASSUME IInv, PInv, [Next]_vars PROVE PInv' /\ (StaysOrGone \/ owner = "end")
  OBVIOUS
<1> USE DEF input
<1>1. CASE hid' = hid
  BY <1>1, SamePads
<1>2. CASE UsbBegin
  BY <1>2, UsbBeginKeepsPads
<1>3. CASE Events
  BY <1>3, EventsKeepsPads
<1>4. CASE \E i \in DOMAIN Pads : PollPad(i)
  BY <1>4, PollPadKeepsPads
<1>5. CASE Probe
  <2>1. CASE hid.probed
    BY <1>5, <2>1, SamePads DEF Probe
  <2>2. ASSUME NEW more, hid' = [hid EXCEPT !.probed = TRUE, !.leases = @ \union more]
        PROVE  PInv' /\ StaysOrGone
    <3>1. /\ hid'.source = hid.source /\ hid'.active = hid.active /\ hid'.gamepad = hid.gamepad
          /\ hid'.leases = hid.leases \union more
      BY <2>2, FreshShape DEF IInv, Shapes
    <3> QED
      BY <3>1, SamePads
  <2> QED
    BY <1>5, <2>1, <2>2 DEF Probe
<1>6. CASE Look
  <2>1. /\ hid'.source = hid.source /\ hid'.active = hid.active /\ hid'.gamepad = hid.gamepad
        /\ hid'.leases = hid.leases
    BY <1>6, FreshShape DEF Look, Sample, IInv, Shapes
  <2> QED
    BY <2>1, SamePads
<1>7. CASE End
  <2>1. hid' = Fresh /\ owner = "end" /\ Fresh.leases = {}
    BY <1>7 DEF End, Released, Fresh
  <2> QED
    BY <2>1, FreshPads DEF PInv
<1>8. CASE OwnerStep
  BY <1>1, <1>2, <1>3, <1>4, <1>5, <1>7, <1>8
     DEF OwnerStep, Start, Create, Barrier, Begin, TouchBegin, Release, Loop, Execute, Mark, Poll,
         PollTouch, Sleep, Close
<1>9. CASE ConsoleStep \/ Leave
  BY <1>1, <1>6, <1>9
     DEF ConsoleStep, Prepare, Gate, Post, Give, Return, Note, Wake, Leave
<1>10. CASE World \/ Finished \/ UNCHANGED vars
  BY <1>1, <1>10
     DEF World, Press, Lift, Happens, Replug, PadTo, Finger, Shown, Finished, vars
<1> QED
  BY <1>8, <1>9, <1>10 DEF Next

(* usb_hid_elf_adapter: what the console sees of the input is what the      *)
(* providers last told, within the limits of its queue: no key sticks, and  *)
(* a controller plays undisturbed by the other providers until it goes.     *)
THEOREM InputIsSettled == Spec => InputSettles
<1>1. PInv => (hid.gamepad = (hid.active # "none" /\ hid.source[hid.active].down))
  BY ElfAssumption DEF PInv, PadsAgree
<1>2. IInv /\ PInv /\ [Next]_vars =>
        [/\ hid.gamepad = (hid.active # "none" /\ hid.source[hid.active].down)
         /\ hid.active # "none" /\ hid'.active # hid.active
              => owner = "end" \/ ~hid'.source[hid.active].connected]_hid
  BY <1>1, StepPInv DEF StaysOrGone
<1>3. Spec => []PInv
  BY IInvHolds, InitPInv, StepPInv, PTL DEF Spec
<1>4. Spec => []TypeOK
  BY TypesFollow, IInvHolds, InitKInv, StepKInv, InitTInv, StepTInv, PTL DEF Spec
<1> QED
  BY <1>2, <1>3, <1>4, IInvHolds, NoKeySticks, PTL DEF Spec, InputSettles, PadsStaySeparate
=============================================================================
