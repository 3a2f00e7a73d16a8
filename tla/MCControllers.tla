---------------------------- MODULE MCControllers ----------------------------
(* Instances of Controllers for TLC. *)
EXTENDS Controllers

MCChords == Settings \union {"Right"}

\* Points that mean two things or more.
Corner  == Map!At(76, 41)    \* BACK, POWER
Middle  == Map!At(464, 41)   \* HOME, LOAD
NextRom == Map!At(240, 712)  \* NEXT, right of the d-pad
PrevRom == Map!At(100, 712)  \* PREVIOUS, left of the d-pad
Launch  == Map!At(380, 720)  \* LAUNCH, B
Menus   == Map!At(345, 886)  \* SETTINGS, REFRESH of the battery page
Turn    == Map!At(100, 540)  \* ABOUT, ROTATE
Wide    == Map!At(27, 650)   \* FULLSCREEN in landscape
Cards   == Map!At(200, 340)  \* SD CARD
MCPoints == {Corner, Middle, NextRom, PrevRom, Launch, Menus, Turn, Wide, Cards}

\* A scene without the parts a run does not need.
Base == [usb |-> {}, i2c |-> {}, elf |-> FALSE, ticks |-> {0}, fingers |-> {}, spots |-> {},
         home |-> FALSE, loses |-> FALSE, starts |-> {"SdCard"}]
Finger == [Base EXCEPT !.fingers = {"thumb"}, !.ticks = {8}, !.starts = {"Game"}]

\* Chords on each of the three decoders; menus; keys and a finger; a key on both
\* controllers; a finger all over the pages; turns of the picture; two fingers; the
\* home key; fingers held on the list of games.
MCScenes ==
  {[Base EXCEPT !.usb = MCChords],
   [Base EXCEPT !.usb = MCChords, !.elf = TRUE],
   [Base EXCEPT !.i2c = MCChords, !.loses = TRUE],
   [Base EXCEPT !.usb = {"Up", "Down"}, !.ticks = {1, 2}],
   [Base EXCEPT !.usb = {"A", "B", "Down"}, !.ticks = {3}],
   [Finger EXCEPT !.usb = {"A", "B"}, !.spots = {Middle}, !.starts = {"SdCard"}],
   [Base EXCEPT !.usb = {"A"}, !.i2c = {"A", "B"}, !.loses = TRUE],
   [Finger EXCEPT !.spots = {Corner, Menus, Cards, Launch}, !.loses = TRUE],
   [Finger EXCEPT !.usb = {"L", "R", "Right"}, !.spots = {Turn, Wide}],
   [Finger EXCEPT !.spots = {Corner, Menus, NextRom}, !.fingers = {"thumb", "index"}],
   [Finger EXCEPT !.spots = {Middle, Menus}, !.home = TRUE, !.loses = TRUE],
   [Finger EXCEPT !.spots = {NextRom}, !.ticks = {1, 2}, !.starts = {"SdCard"}],
   [Finger EXCEPT !.spots = {NextRom}, !.ticks = {2}, !.starts = {"SdCard"}, !.loses = TRUE],
   [Finger EXCEPT !.spots = {NextRom, PrevRom, Launch}, !.ticks = {2}, !.starts = {"SdCard"}],
   [Finger EXCEPT !.spots = {NextRom, PrevRom}, !.fingers = {"thumb", "index"}, !.ticks = {4}, !.starts = {"SdCard"}]}
=============================================================================
