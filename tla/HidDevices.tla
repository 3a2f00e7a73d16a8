----------------------------- MODULE HidDevices -----------------------------
(***************************************************************************)
(* Devices as their makers build them, against which HidReports is         *)
(* checked: a gamepad or keyboard is a sequence of blocks, from which      *)
(* follow its report descriptor and, for what its user holds, the report   *)
(* it sends.                                                               *)
(***************************************************************************)
EXTENDS HidReports

G(tag, value)   == [kind |-> "global", tag |-> tag, size |-> 1, value |-> value]
G2(tag, value)  == [kind |-> "global", tag |-> tag, size |-> 2, value |-> value]
L(tag, value)   == [kind |-> "local", tag |-> tag, size |-> 1, value |-> value]
In(constant, variable) ==
  [kind |-> "main", tag |-> "input", size |-> 1, constant |-> constant, variable |-> variable]
M(tag, value)   == [kind |-> "main", tag |-> tag, size |-> 1, value |-> value]

Shape(minimum, maximum, size, count) ==
  <<G("minimum", minimum), G("maximum", maximum), G("size", size), G("count", count)>>
Usages(first, last, listed) ==
  IF listed THEN [n \in 1..(last - first + 1) |-> L("usage", first + n - 1)]
  ELSE <<L("minimum", first), L("maximum", last)>>
Bits(value, width) == [i \in 1..width |-> ((value % 2^width) \div 2^(i - 1)) % 2]
Ones(n) == [i \in 1..n |-> 1]
Whole(bits) == bits \o Ones((8 - (Len(bits) % 8)) % 8)
Concat(parts) == FoldLeft(LAMBDA all, part : all \o part, <<>>, parts)

-----------------------------------------------------------------------------
(* Gamepads: id 0 for no report IDs; another application before the pad's;  *)
(* a collection within it; usages listed or as a range; signed axes.  The   *)
(* report of the application with the first control is the pad's: "other"   *)
(* is a second one, declared between its blocks.                            *)
Blocks == {"buttons", "axes", "hat", "gap", "vendor", "other"}
Layouts == {blocks \in SeqOf(Blocks, 3) :
              /\ IsInjective(blocks)
              /\ ToSet(blocks) \intersect {"axes", "hat"} # {}
              /\ Head(blocks) # "other"
              /\ ~IsPrefix(<<"gap", "other">>, blocks)}
Pads == {pad \in [id : {0, 2}, mouse : BOOLEAN, nested : BOOLEAN, listed : BOOLEAN,
                  signed : BOOLEAN, blocks : Layouts] :
           pad.id = 0 => "other" \notin ToSet(pad.blocks)}

ItemsOf(pad, block) ==
  CASE block = "buttons" ->
         <<G("page", 9)>> \o Shape(0, 1, 1, 10) \o Usages(1, 10, pad.listed)
         \o <<In(FALSE, TRUE)>>
    [] block = "axes" ->
         <<G("page", 1)>>
         \o (IF pad.signed THEN Shape(128, 127, 8, 2) ELSE Shape(0, 255, 8, 2))
         \o Usages(48, 49, pad.listed) \o <<In(FALSE, TRUE)>>
    [] block = "hat" ->
         <<G("page", 1)>> \o (IF pad.signed THEN Shape(1, 8, 4, 1) ELSE Shape(0, 7, 4, 1))
         \o <<L("usage", 57), In(FALSE, TRUE)>>
    [] block = "gap" -> Shape(0, 1, 5, 1) \o <<In(TRUE, TRUE)>>
    [] block = "vendor" ->
         <<G2("page", 65280)>> \o Shape(0, 255, 8, 1) \o <<L("usage", 48), In(FALSE, TRUE)>>
    [] block = "other" ->
         <<G("push", 0), G("id", 7), G("page", 9)>> \o Shape(0, 1, 1, 10)
         \o Usages(1, 10, FALSE) \o <<In(FALSE, TRUE), G("pop", 0)>>

Wrapped(pad, block) ==
  IF pad.nested /\ block = "axes"
  THEN <<L("usage", 1), M("collection", 0)>> \o ItemsOf(pad, block) \o <<M("end", 0)>>
  ELSE ItemsOf(pad, block)

MouseItems(pad) ==
  <<G("page", 1), L("usage", 2), M("collection", 1)>>
  \o (IF pad.id = 0 THEN <<>> ELSE <<G("id", 9)>>)
  \o Shape(0, 255, 8, 2) \o Usages(48, 49, TRUE) \o <<In(FALSE, TRUE), M("end", 0)>>

PadDescriptor(pad) ==
  (IF pad.mouse THEN MouseItems(pad) ELSE <<>>)
  \o <<G("page", 1), L("usage", 5), M("collection", 1)>>
  \o (IF pad.id = 0 THEN <<>> ELSE <<G("id", pad.id)>>)
  \o Concat([i \in DOMAIN pad.blocks |-> Wrapped(pad, pad.blocks[i])])
  \o <<M("end", 0)>>

\* What a player holds: an axis at an end or at rest, a hat anywhere (8 for at rest).
Holds == [x : {-1, 0, 1}, y : {-1, 1}, hat : 0..8, buttons : {{}, {1, 10}, {2, 3}}]
\* One of each kind is enough: what the hat says does not depend on the axes.
FewHolds == {hold \in Holds : hold.hat \in {4, 8} \/ (hold.x = 1 /\ hold.y = 1)}

AxisBits(pad, push) ==
  Bits(IF pad.signed THEN CASE push = -1 -> -128 [] push = 0 -> 0 [] push = 1 -> 127
       ELSE CASE push = -1 -> 0 [] push = 0 -> 128 [] push = 1 -> 255, 8)

BitsOf(pad, hold, block) ==
  CASE block = "buttons" -> [n \in 1..10 |-> IF n \in hold.buttons THEN 1 ELSE 0]
    [] block = "axes"    -> AxisBits(pad, hold.x) \o AxisBits(pad, hold.y)
    [] block = "hat"     -> Bits(IF pad.signed THEN (hold.hat + 1) % 9 ELSE hold.hat, 4)
    [] block = "gap"     -> Ones(5)
    [] block = "vendor"  -> Ones(8)
    [] block = "other"   -> <<>>

PadReport(pad, hold) ==
  [id |-> pad.id,
   bits |-> Whole((IF pad.mouse /\ pad.id = 0 THEN Ones(16) ELSE <<>>)
                  \o Concat([i \in DOMAIN pad.blocks |-> BitsOf(pad, hold, pad.blocks[i])]))]

\* The compass: a direction is held when the hat is at most one eighth away from it.
Eighth == [up |-> 0, right |-> 2, down |-> 4, left |-> 6]
HatMeans(hat) ==
  {key \in DOMAIN Eighth : hat < 8 /\ (hat - Eighth[key]) % 8 \in {0, 1, 7}}
AxesMean(hold) ==
  {key \in DOMAIN Eighth :
     CASE key = "left" -> hold.x = -1 [] key = "right" -> hold.x = 1
       [] key = "up"   -> hold.y = -1 [] key = "down"  -> hold.y = 1}
Labels == [n \in 1..10 |->
             CASE n = 1 -> "b" [] n = 2 -> "a" [] n = 3 -> "y" [] n = 4 -> "x" [] n = 5 -> "l"
               [] n = 6 -> "r" [] n = 9 -> "select" [] n = 10 -> "start" [] OTHER -> "none"]
PadMeans(pad, hold) ==
  LET has(block) == block \in ToSet(pad.blocks)
  IN (IF has("hat") THEN HatMeans(hold.hat) ELSE AxesMean(hold))
     \union (IF has("buttons") THEN {Labels[n] : n \in hold.buttons} ELSE {})

PadsAreUnderstood ==
  \A pad \in Pads :
    LET layout == Parse(GamepadParser, PadDescriptor(pad))
    IN \A hold \in FewHolds :
         LET report == PadReport(pad, hold)
             short  == [report EXCEPT !.bits = SubSeq(@, 1, Len(@) - 8)]
         IN /\ DecodeGamepad(layout, report) = Accepted(PadMeans(pad, hold))
            /\ ~DecodeGamepad(layout, short).ok
            /\ pad.id # 0 => ~DecodeGamepad(layout, [report EXCEPT !.id = 7]).ok

-----------------------------------------------------------------------------
(* Keyboards: modifiers, and either an array of codes or one bit per key.   *)
Boards == [id : {0, 3}, bitmap : BOOLEAN, modifiersFirst : BOOLEAN, leds : BOOLEAN]
KeySets == {{}, {4}, {231}, {4, 231}, {224, 5, 101}, {4, 5, 6, 7, 8, 9}}

Modifiers == <<G("page", 7)>> \o Shape(0, 1, 1, 8) \o Usages(224, 231, FALSE)
             \o <<In(FALSE, TRUE), G("size", 8), G("count", 1), In(TRUE, FALSE)>>
Leds == <<G("page", 8)>> \o Shape(0, 1, 1, 5) \o Usages(1, 5, FALSE) \o <<M("output", 2)>>
KeyItems(board) ==
  <<G("page", 7)>>
  \o (IF board.bitmap THEN Shape(0, 1, 1, 104) ELSE Shape(0, 101, 8, 6))
  \o Usages(0, IF board.bitmap THEN 103 ELSE 101, FALSE) \o <<In(FALSE, board.bitmap)>>

BoardDescriptor(board) ==
  LET lights == IF board.leds THEN Leds ELSE <<>>
  IN <<G("page", 1), L("usage", 6), M("collection", 1)>>
     \o (IF board.id = 0 THEN <<>> ELSE <<G("id", board.id)>>)
     \o (IF board.modifiersFirst THEN Modifiers \o lights \o KeyItems(board)
                                 ELSE KeyItems(board) \o lights \o Modifiers)
     \o <<M("end", 0)>>

ModifierBits(held) == [n \in 1..8 |-> IF 223 + n \in held THEN 1 ELSE 0] \o Bits(0, 8)
KeyBits(board, held) ==
  LET plain == SetToSeq(held \intersect (0..223))
  IN IF board.bitmap THEN [n \in 1..104 |-> IF n - 1 \in held THEN 1 ELSE 0]
     ELSE Concat([i \in 1..6 |-> Bits(IF i <= Len(plain) THEN plain[i] ELSE 0, 8)])
BoardReport(board, held) ==
  [id |-> board.id,
   bits |-> IF board.modifiersFirst THEN ModifierBits(held) \o KeyBits(board, held)
                                    ELSE KeyBits(board, held) \o ModifierBits(held)]

Plain == [id |-> 0, bitmap |-> FALSE, modifiersFirst |-> TRUE, leds |-> TRUE]

BoardsAreUnderstood ==
  /\ \A board \in Boards :
       LET layout == Parse(KeyboardParser, BoardDescriptor(board))
       IN \A held \in KeySets :
            /\ DecodeKeyboard(layout, BoardReport(board, held)) = Accepted(held)
            /\ ~board.bitmap =>
                 ~DecodeKeyboard(layout, BoardReport(board, (held \ {9}) \union {1})).ok
  /\ \A held \in KeySets :
       DecodeKeyboard(BootLayout, BoardReport(Plain, held)) = Accepted(held)

-----------------------------------------------------------------------------
(* Any descriptor: what was accepted lies within its report.                *)
SomeItems ==
  {G("page", 9), G("size", 8), G("size", 33), G("count", 128), G("count", 2), G("id", 1),
   G("push", 0), G("pop", 0), L("usage", 48), L("maximum", 49), In(FALSE, TRUE),
   In(FALSE, FALSE), In(TRUE, TRUE), M("collection", 0), M("end", 0)}

FieldsLieInside ==
  \A items \in SeqOf(SomeItems, 3), kind \in {GamepadParser, KeyboardParser} :
    LET application == IF kind.name = "gamepad" THEN 5 ELSE 6
        page   == IF kind.name = "gamepad" THEN 1 ELSE 7
        layout == Parse(kind,
                    <<G("page", 1), L("usage", application), M("collection", 1),
                      G("page", page), G("size", 4), G("count", 1), L("usage", 48), In(FALSE, TRUE)>>
                    \o items \o <<In(FALSE, page = 1), M("end", 0)>>)
    IN layout.bits > 0 =>
         /\ \A name \in DOMAIN layout.fields :
              layout.fields[name].bit + layout.fields[name].width <= layout.bits
         /\ layout.array.bit + layout.array.width * layout.array.count <= layout.bits
         /\ layout.bits <= kind.bits

-----------------------------------------------------------------------------
(* Xbox pads. *)
Sticks == {-32768, -16385, -16384, -1, 0, 16384, 16385, 32767}
XboxReports ==
  [length : {1, 2, 19, 20, 24}, presence : BOOLEAN, status : {"data", "here", "gone"},
   pad : BOOLEAN, dpad : {{}, {1, 8}, {16, 32}}, buttons : {{}, {16}, {1, 128}},
   x : {-32768, 0, 32767}, y : Sticks]

\* The far half of the stick, whichever way up Y is counted, is a direction, and never
\* two opposite ones; only a whole report of a pad that is present says anything.
XboxIsUnderstood ==
  \A report \in XboxReports, wireless \in BOOLEAN :
    LET read == DecodeXbox(report, wireless)
        whole == /\ report.pad
                 /\ report.length >= (IF wireless THEN 24 ELSE 20)
                 /\ wireless => report.status = "data" /\ ~report.presence
    IN /\ read.kind = "Input" <=> whole
       /\ ~whole => read.held = {}
       /\ whole => /\ report.y > 20000 => "up" \in read.held
                   /\ report.y < -20000 => "down" \in read.held
                   /\ report.dpad = {} => ~({"up", "down"} \subseteq read.held)
                   /\ {"l", "y"} \subseteq read.held <=> report.buttons = {1, 128}
                   /\ "a" \in read.held <=> 16 \in report.buttons

ReportsAreRead ==
  PadsAreUnderstood /\ BoardsAreUnderstood /\ FieldsLieInside /\ XboxIsUnderstood
=============================================================================
