------------------------------ MODULE MCMapper ------------------------------
(* Small instances of Mapper: configurations written like the daemon's own *)
(* tests write them (daemon/src/mapper.rs tests).                          *)
EXTENDS Mapper

CONSTANTS steam, x, y, lb,
          enter, super, leftShift, rightShift, mouseLeft, south,
          leftStick

MCButton == {steam, x, y, lb}
MCReservedInput == {}
MCKeys == {enter, super, leftShift, rightShift}
MCMouse == {mouseLeft}
MCPad == {south}
MCAxis == {leftStick}

Hold(k) == [kind |-> "hold", out |-> k]
GoTo(m) == [kind |-> "modeSet", mode |-> m]
Cycle == [kind |-> "modeNext"]
Toggle == [kind |-> "toggle"]
Bind(buttons, action) ==
    [inputs |-> {buttons[i] : i \in DOMAIN buttons},
     trigger |-> buttons[Len(buttons)], action |-> action]
Osk(button, k) == [input |-> button, key |-> k]

(* A keyboard, and a key that a global binding and a mode binding share.   *)
Desk == [
    default |-> 1,
    globals |-> <<Bind(<<steam, x>>, Toggle), Bind(<<y>>, Hold(enter))>>,
    osk     |-> <<Osk(lb, leftShift), Osk(x, enter)>>,
    modes   |-> <<
        [name |-> "desktop", gamepad |-> "none", axes |-> {},
         bindings |-> <<Bind(<<x>>, Hold(enter)), Bind(<<steam>>, Hold(super))>>,
         layers |-> <<[hold |-> lb, bindings |-> <<Bind(<<x>>, Hold(mouseLeft))>>]>>]>>]

(* Chords, layers and mode changes, with and without a gamepad.            *)
Game == [
    default |-> 2,
    globals |-> <<Bind(<<steam, lb>>, Hold(super)), Bind(<<steam, x>>, Toggle),
                 Bind(<<steam, y>>, Cycle)>>,
    osk     |-> <<Osk(x, enter)>>,
    modes   |-> <<
        [name |-> "desktop", gamepad |-> "none", axes |-> {leftStick},
         bindings |-> <<Bind(<<x>>, Hold(enter)), Bind(<<x, y>>, Hold(south)),
                        Bind(<<y>>, GoTo(2))>>,
         layers |-> <<>>],
        [name |-> "game", gamepad |-> "xbox", axes |-> {leftStick},
         bindings |-> <<Bind(<<x>>, Hold(south)), Bind(<<y>>, Hold(enter))>>,
         layers |-> <<[hold |-> lb,
                       bindings |-> <<Bind(<<x>>, Hold(mouseLeft)), Bind(<<y>>, Cycle),
                                      Bind(<<x, y>>, Hold(south))>>]>>]>>]

(* A family: every valid combination of a few lists of global bindings,     *)
(* mode bindings, layers and OSK bindings over three buttons; a second,    *)
(* nearly empty mode is there to switch to.                                *)
GlobalLists == {
    <<>>,
    <<Bind(<<steam, x>>, Toggle), Bind(<<y>>, Hold(enter))>>,
    <<Bind(<<y>>, Hold(enter)), Bind(<<x>>, Toggle), Bind(<<y, x>>, Cycle)>>}
BindingLists == {
    <<Bind(<<x>>, Hold(enter)), Bind(<<y>>, Hold(enter))>>,
    <<Bind(<<x>>, GoTo(2)), Bind(<<y, x>>, Hold(south)), Bind(<<x, y>>, Hold(enter))>>,
    <<Bind(<<y, x>>, Hold(south)), Bind(<<steam, x>>, Hold(enter))>>}
LayerLists == {
    <<>>,
    <<[hold |-> steam, bindings |-> <<Bind(<<x>>, Hold(south)), Bind(<<x, y>>, Cycle)>>]>>}
OskLists == {<<>>, <<Osk(x, enter), Osk(y, enter)>>}
Empty == [name |-> "empty", gamepad |-> "none", axes |-> {},
          bindings |-> <<Bind(<<steam>>, Cycle)>>, layers |-> <<>>]
Family ==
    {cfg \in {[default |-> d, globals |-> g, osk |-> o,
               modes |-> <<[name |-> "play", gamepad |-> "xbox", axes |-> {leftStick},
                            bindings |-> b, layers |-> l], Empty>>] :
                 d \in {1}, g \in GlobalLists, b \in BindingLists,
                 l \in LayerLists, o \in OskLists} : ValidConfig(cfg)}

DeskOnly == {Desk}
AllConfigs == Family \cup {Desk, Game}
NoKeys == {}
SuperKey == {super}
=============================================================================
