------------------------------- MODULE MCElf --------------------------------
(***************************************************************************)
(* Sessions of the ELF build for TLC.  Each scene opens one part of the    *)
(* world: calls and frames, refusals, keys, controllers.                   *)
(***************************************************************************)
EXTENDS ElfSession

MCPads == <<"hid", "xinput">>
None == [hid |-> {}, xinput |-> {}]
Quiet == [calls |-> 0, flaky |-> {}, keys |-> {}, devices |-> None, touch |-> FALSE]

MCScenes ==
  { [Quiet EXCEPT !.calls = 4, !.flaky = {"display", "present", "task"}],
    [Quiet EXCEPT !.calls = 1, !.flaky = Capabilities \union {"touch", "snapshot"}, !.touch = TRUE],
    [Quiet EXCEPT !.keys = {1, 2}, !.flaky = {"snapshot"}],
    [Quiet EXCEPT !.devices = [hid |-> {1, 2}, xinput |-> {1}], !.flaky = {"hid"}] }
=============================================================================
