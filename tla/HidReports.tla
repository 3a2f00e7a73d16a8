----------------------------- MODULE HidReports -----------------------------
(***************************************************************************)
(* What the firmware reads out of USB reports: the report descriptors of   *)
(* gamepads and keyboards (src/usb_hid_report.cpp, usb_hid_keyboard.cpp)   *)
(* and the fixed reports of Xbox pads (src/usb_xinput_report.h).           *)
(*                                                                         *)
(* A descriptor is a sequence of items [kind, tag, size, value], value the *)
(* unsigned number held by `size` bytes; an Input carries its flags.  How  *)
(* items are packed into bytes is left out, and with it long items and a   *)
(* descriptor cut off in an item, which is refused.  A report is its       *)
(* report ID (0 for none) and its bits, lowest first.                      *)
(***************************************************************************)
EXTENDS Integers, Sequences, SequencesExt

\* The two parsers differ in their limits, in the application they look for and in
\* what an Input item means to them.
GamepadParser ==
  [name |-> "gamepad", usages |-> {4, 5}, bits |-> 1024, count |-> 128, depth |-> 1024]
KeyboardParser ==
  [name |-> "keyboard", usages |-> {6}, bits |-> 2048, count |-> 255, depth |-> 16]

NoGlobals == [page |-> 0, minimum |-> 0, maximum |-> 0, size |-> 0, count |-> 0, id |-> 0]
NoLocals  == [usages |-> <<>>, minimum |-> 0, maximum |-> 0, ranged |-> FALSE]
NoLayout  == [id |-> 0, bits |-> 0, fields |-> <<>>,
              array |-> [bit |-> 0, width |-> 0, count |-> 0]]

Start == [ok |-> TRUE, global |-> NoGlobals, saved |-> <<>>, local |-> NoLocals,
          offsets |-> [id \in 0..255 |-> 0], depth |-> 0, inside |-> 0,
          found |-> FALSE, chosen |-> FALSE, hasKeys |-> FALSE, out |-> NoLayout]

Signed(item) ==
  IF item.size > 0 /\ item.value >= 2^(8 * item.size - 1)
  THEN item.value - 2^(8 * item.size)
  ELSE item.value

\* Global items last until they are set again; each limit refuses the descriptor.
\* The keyboard parser never reads its minimum and maximum.
Global(kind, s, item) ==
  LET v == item.value
      Set(value, valid) == [s EXCEPT !.global[item.tag] = value, !.ok = valid]
  IN CASE item.tag = "page"    -> Set(v, TRUE)
       [] item.tag = "minimum" -> Set(Signed(item), TRUE)
       [] item.tag = "maximum" ->
            Set(IF s.global.minimum < 0 THEN Signed(item) ELSE v, TRUE)
       [] item.tag = "size"    -> Set(v, v <= 32)
       [] item.tag = "id"      -> Set(v, v \in 1..255)
       [] item.tag = "count"   -> Set(v, v <= kind.count)
       [] item.tag = "push"    ->
            [s EXCEPT !.saved = Append(@, s.global), !.ok = Len(s.saved) < 8]
       [] item.tag = "pop"     ->
            IF s.saved = <<>> THEN [s EXCEPT !.ok = FALSE]
            ELSE [s EXCEPT !.global = Last(s.saved), !.saved = Front(@)]

\* Local items describe the next main item only.
Local(s, item) ==
  CASE item.tag = "usage" ->
         IF Len(s.local.usages) < 32 THEN [s EXCEPT !.local.usages = Append(@, item.value)] ELSE s
    [] item.tag = "minimum" -> [s EXCEPT !.local.minimum = item.value, !.local.ranged = TRUE]
    [] item.tag = "maximum" -> [s EXCEPT !.local.maximum = item.value]

\* The n-th control (from 0) of an Input: the listed usages, then the range, then the
\* last of the list for all that are left.
UsageOf(local, n) ==
  CASE n < Len(local.usages) -> local.usages[n + 1]
    [] n >= Len(local.usages) /\ local.ranged /\ local.minimum + n <= local.maximum ->
         local.minimum + n
    [] OTHER -> IF local.usages = <<>> THEN 0 ELSE Last(local.usages)

\* Only the first application collection of the right usage counts.
Collection(kind, s, item) ==
  LET usage == IF s.local.usages = <<>> THEN s.local.minimum ELSE Head(s.local.usages)
      here  == /\ s.depth = 0 /\ ~s.found
               /\ item.value = 1 /\ s.global.page = 1 /\ usage \in kind.usages
  IN [s EXCEPT !.inside = IF here THEN 1 ELSE @, !.found = @ \/ here,
               !.depth = @ + 1, !.ok = s.depth < kind.depth]

EndCollection(s) ==
  IF s.depth = 0 THEN [s EXCEPT !.ok = FALSE]
  ELSE [s EXCEPT !.inside = IF @ = s.depth THEN 0 ELSE @, !.depth = @ - 1]

\* X, Y, hat and the buttons 1 to 16, by page and usage.
Controls == {<<1, 48>>, <<1, 49>>, <<1, 57>>} \union ({9} \X (1..16))

\* What an Input adds to the layout: for each control it names, the first place.
Named(s, wanted) ==
  LET Name(n) == <<s.global.page, UsageOf(s.local, n)>>
      places  == {n \in 0..(s.global.count - 1) : Name(n) \in wanted}
      Field(n) == [bit |-> s.offsets[s.global.id] + n * s.global.size,
                   width |-> s.global.size,
                   minimum |-> s.global.minimum, maximum |-> s.global.maximum]
  IN [name \in {Name(n) : n \in places} |-> Field(Min({n \in places : Name(n) = name}))]

\* mutant: fields of every report are taken
AnyReport(s) == TRUE

\* One report of the application is read, the first that holds a control.
OurReport(s) == ~s.chosen \/ s.global.id = s.out.id
Choose(s) == [s EXCEPT !.chosen = TRUE, !.out.id = s.global.id]

GamepadInput(s, item) ==
  IF /\ s.inside # 0 /\ OurReport(s)
     /\ ~item.constant /\ item.variable /\ s.global.size \in 1..16
  THEN [Choose(s) EXCEPT !.out.fields = @ @@ Named(s, Controls)]
  ELSE s

\* Bits for single keys, or one array of key codes.
KeyboardInput(s, item) ==
  LET bits  == Named(s, {7} \X (0..255))
      array == [bit |-> s.offsets[s.global.id], width |-> s.global.size, count |-> s.global.count]
      new   == {name \in DOMAIN bits : name[2] \in 4..231 /\ name \notin DOMAIN s.out.fields}
  IN CASE ~(/\ s.inside # 0 /\ OurReport(s)
            /\ ~item.constant /\ s.global.page = 7 /\ s.global.size > 0) -> s
       [] item.variable /\ s.global.size = 1 ->
            [Choose(s) EXCEPT !.out.fields = @ @@ bits, !.hasKeys = @ \/ new # {}]
       [] ~item.variable /\ s.global.size <= 16 /\ s.global.count <= 32
                         /\ s.out.array.count = 0 ->
            [Choose(s) EXCEPT !.out.array = array, !.hasKeys = TRUE]
       [] OTHER -> Choose(s)

\* Every Input moves the offset of its report, whether it is used or not.
Input(kind, s, item) ==
  LET bits == s.global.size * s.global.count
      read == IF kind.name = "gamepad" THEN GamepadInput(s, item) ELSE KeyboardInput(s, item)
  IN IF s.offsets[s.global.id] + bits > kind.bits THEN [s EXCEPT !.ok = FALSE]
     ELSE [read EXCEPT !.offsets[s.global.id] = @ + bits]

Main(kind, s, item) ==
  LET next == CASE item.tag = "collection" -> Collection(kind, s, item)
                [] item.tag = "end"        -> EndCollection(s)
                [] item.tag = "input"      -> Input(kind, s, item)
                [] OTHER                   -> s
  IN [next EXCEPT !.local = NoLocals]

Item(kind, s, item) ==
  CASE ~s.ok                -> s
    [] s.ok /\ item.kind = "global" -> Global(kind, s, item)
    [] s.ok /\ item.kind = "local"  -> Local(s, item)
    [] s.ok /\ item.kind = "main"   -> Main(kind, s, item)

\* A layout with `bits` 0 stands for a descriptor that was refused.
Parse(kind, items) ==
  LET s == FoldLeft(LAMBDA state, item : Item(kind, state, item), Start, items)
      useful == IF kind.name = "gamepad"
                THEN DOMAIN s.out.fields \intersect {<<1, 48>>, <<1, 49>>, <<1, 57>>} # {}
                ELSE s.hasKeys
  IN IF s.ok /\ s.found /\ s.chosen /\ s.depth = 0 /\ s.saved = <<>> /\ useful
     THEN [s.out EXCEPT !.bits = s.offsets[s.out.id]]
     ELSE NoLayout

\* The layout of a keyboard put into the boot protocol, which has no descriptor.
BootLayout ==
  [NoLayout EXCEPT !.bits = 64,
     !.fields = [key \in {7} \X (224..231) |->
                   [bit |-> key[2] - 224, width |-> 1, minimum |-> 0, maximum |-> 1]],
     !.array = [bit |-> 16, width |-> 8, count |-> 6]]

-----------------------------------------------------------------------------
(* Reports. *)

ReadBits(bits, first, width) ==
  IF width \in 1..16 /\ first + width <= Len(bits)
  THEN FoldRight(LAMBDA bit, value : 2 * value + bit, SubSeq(bits, first + 1, first + width), 0)
  ELSE 0

ReadValue(bits, field) ==
  LET value == ReadBits(bits, field.bit, field.width)
  IN IF field.minimum < 0 /\ value >= 2^(field.width - 1) THEN value - 2^field.width ELSE value

Fits(layout, report) ==
  /\ layout.bits > 0
  /\ layout.id # 0 => report.id = layout.id
  /\ Len(report.bits) >= layout.bits

Refused == [ok |-> FALSE, held |-> {}]
Accepted(held) == [ok |-> TRUE, held |-> held]

HatKeys(hat) ==
  {key \in {"up", "right", "down", "left"} :
     \/ key = "up"    /\ hat \in {0, 1, 7}
     \/ key = "right" /\ hat \in 1..3
     \/ key = "down"  /\ hat \in 3..5
     \/ key = "left"  /\ hat \in 5..7}

\* An axis is pushed in its outer quarters.
AxisKeys(bits, field, low, high) ==
  LET value == ReadValue(bits, field) - field.minimum
      span  == field.maximum - field.minimum
  IN {key \in {low, high} : /\ span > 0
                            /\ IF key = low THEN 4 * value < span ELSE 4 * value > 3 * span}

ButtonNames == [n \in 1..10 |-> <<"b", "a", "y", "x", "l", "r", "", "", "select", "start">>[n]]

DecodeGamepad(layout, report) ==
  LET bits == report.bits
      f == layout.fields
      Axis(name, low, high) ==
        IF name \in DOMAIN f THEN AxisKeys(bits, f[name], low, high) ELSE {}
      directions == IF <<1, 57>> \in DOMAIN f
                    THEN HatKeys(ReadValue(bits, f[<<1, 57>>]) - f[<<1, 57>>].minimum)
                    ELSE Axis(<<1, 48>>, "left", "right") \union Axis(<<1, 49>>, "up", "down")
      pressed == {n \in (1..6) \union (9..10) :
                    <<9, n>> \in DOMAIN f /\ ReadValue(bits, f[<<9, n>>]) # 0}
  IN IF Fits(layout, report)
     THEN Accepted(directions \union {ButtonNames[n] : n \in pressed})
     ELSE Refused

\* The codes 1 to 3 report that the keyboard cannot tell: everything is released.
DecodeKeyboard(layout, report) ==
  LET bits  == report.bits
      single == {name[2] : name \in {key \in DOMAIN layout.fields :
                                       ReadBits(bits, layout.fields[key].bit, 1) = 1}}
      codes == {ReadBits(bits, layout.array.bit + i * layout.array.width, layout.array.width) :
                  i \in 0..(layout.array.count - 1)}
  IN IF Fits(layout, report) /\ codes \intersect (1..3) = {}
     THEN Accepted((single \union codes) \intersect (4..231))
     ELSE Refused

\* Xbox reports: the two bytes of a wireless receiver's prefix as presence (bit 3 of the
\* first) and status (the second: "data" is 1, "here" has bit 7), and the pad's own part.
XboxDpad    == [bit \in {1, 2, 4, 8, 16, 32} |->
                  CASE bit = 1 -> "up" [] bit = 2 -> "down" [] bit = 4 -> "left"
                    [] bit = 8 -> "right" [] bit = 16 -> "start" [] bit = 32 -> "select"]
XboxButtons == [bit \in {1, 2, 16, 32, 64, 128} |->
                  CASE bit = 1 -> "l" [] bit = 2 -> "r" [] bit = 16 -> "a"
                    [] bit = 32 -> "b" [] bit = 64 -> "x" [] bit = 128 -> "y"]

\* The report counts Y upwards; the stick is taken beyond half its way.
StickKeys(x, y) ==
  {key \in {"up", "down", "left", "right"} :
     \/ key = "up"    /\ -1 - y < -16384
     \/ key = "down"  /\ -1 - y > 16384
     \/ key = "left"  /\ x < -16384
     \/ key = "right" /\ x > 16384}

DecodeXbox(report, wireless) ==
  LET length == IF wireless THEN report.length - 4 ELSE report.length
      pressed == {XboxDpad[bit] : bit \in report.dpad}
                 \union {XboxButtons[bit] : bit \in report.buttons}
                 \union StickKeys(report.x, report.y)
      Kind(kind) == [kind |-> kind, held |-> {}]
  IN CASE wireless /\ report.length < 2 -> Kind("Ignored")
       [] wireless /\ report.length >= 2 /\ report.presence /\ report.status # "here" ->
            Kind("Disconnected")
       [] wireless /\ report.length >= 2 /\ report.presence /\ report.status = "here" ->
            Kind("Connected")
       [] wireless /\ report.length >= 2 /\ ~report.presence /\ report.status # "data" ->
            Kind("Ignored")
       [] OTHER -> IF length < 20 \/ ~report.pad THEN Kind("Ignored")
                   ELSE [kind |-> "Input", held |-> pressed]
=============================================================================
