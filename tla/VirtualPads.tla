---------------------------- MODULE VirtualPads -----------------------------
(***************************************************************************)
(* The two virtual gamepads as values: what an emit_button, an emit_axis   *)
(* or a controller report does to one (gamepad/xbox.rs,                    *)
(* gamepad/dualshock/mod.rs), and what a game then reads.                  *)
(* Deflections are whole numbers of 1/Unit: -Unit..Unit for a stick.       *)
(***************************************************************************)
EXTENDS Integers, FiniteSets

CONSTANTS
    Unit,         \* full deflection
    PlainButtons, \* buttons that are one bit of the report
    Paddles,      \* buttons neither gamepad has
    ContactIds    \* touch ids before they wrap: 128

ASSUME PadAssumption ==
    Unit \in Nat \ {0} /\ ContactIds \in Nat \ {0, 1}

Directions == {"up", "down", "left", "right"}
Triggers == {"LeftTrigger", "RightTrigger"}
StickAxis == {"LeftX", "LeftY", "RightX", "RightY"}
Axis == StickAxis \cup Triggers
Buttons == PlainButtons \cup Paddles \cup Directions \cup Triggers
PadSides == {"left", "right"}
Kinds == {"none", "xbox", "dualshock4"}

(* f32::round of a quotient that is not negative.                          *)
RoundedQuotient(a, b) == (2 * a + b) \div (2 * b)
TriggerByte(v) == RoundedQuotient(255 * v, Unit)
StickRange == 128 * 256 \* one more than the largest i16
XboxStick(v) ==
    IF v < 0 THEN -RoundedQuotient(-v * StickRange, Unit) ELSE RoundedQuotient(v * (StickRange - 1), Unit)
Ds4Stick(v) == RoundedQuotient((v + Unit) * 255, 2 * Unit)

NewXbox ==
    [kind |-> "xbox", keys |-> {}, dpad |-> {}, hat |-> <<0, 0>>,
     sticks |-> [a \in StickAxis |-> 0], z |-> [t \in Triggers |-> 0]]
NewDs4 ==
    [kind |-> "dualshock4", keys |-> {}, dpad |-> {},
     sticks |-> [a \in StickAxis |-> 128],
     triggers |-> [t \in Triggers |-> 0], triggerButtons |-> {},
     touch |-> [active |-> FALSE, id |-> 0], clicked |-> FALSE, battery |-> 50]
NoPad == [kind |-> "none"]
NewPad(kind) ==
    CASE kind = "xbox" -> NewXbox [] kind = "dualshock4" -> NewDs4 [] kind = "none" -> NoPad

(* Outputs::set_gamepad.                                                   *)
SetGamepad(pad, kind) == IF pad.kind = kind THEN pad ELSE NewPad(kind)
(* The main loop takes the gamepad away and makes a new one.               *)
Replaced(pad, kind) == SetGamepad(SetGamepad(pad, "none"), kind)

-----------------------------------------------------------------------------
(* Buttons.                                                                *)

Bit(set, x) == IF x \in set THEN 1 ELSE 0
HatOf(dpad) == <<Bit(dpad, "right") - Bit(dpad, "left"), Bit(dpad, "down") - Bit(dpad, "up")>>

With(set, buttons, pressed) == IF pressed THEN set \cup buttons ELSE set \ buttons

(* Xbox::emit_button, for some buttons: one that is bound to a trigger     *)
(* moves its axis, a direction the axis it shares with its opposite.       *)
XboxButtons(pad, buttons, pressed) ==
    LET dpad == With(pad.dpad, buttons \cap Directions, pressed)
        moves(directions) == buttons \cap directions # {}
    IN [pad EXCEPT !.keys = With(@, buttons \cap PlainButtons, pressed),
                   !.z = [t \in Triggers |-> IF t \notin buttons THEN @[t] ELSE IF pressed THEN 255 ELSE 0],
                   !.dpad = dpad,
                   !.hat = <<IF moves({"left", "right"}) THEN HatOf(dpad)[1] ELSE @[1],
                             IF moves({"up", "down"}) THEN HatOf(dpad)[2] ELSE @[2]>>]

(* DualShock4::emit_button.                                                *)
Ds4Buttons(pad, buttons, pressed) ==
    [pad EXCEPT !.keys = With(@, buttons \cap PlainButtons, pressed),
                !.triggerButtons = With(@, buttons \cap Triggers, pressed),
                !.dpad = With(@, buttons \cap Directions, pressed)]

EmitButtons(pad, buttons, pressed) ==
    CASE pad.kind = "xbox" -> XboxButtons(pad, buttons, pressed)
      [] pad.kind = "dualshock4" -> Ds4Buttons(pad, buttons, pressed)
      [] pad.kind = "none" -> pad

-----------------------------------------------------------------------------
(* Axes.  Outputs are written for the axes of a set, which are distinct.   *)

XboxAxes(pad, moved, value) ==
    [pad EXCEPT !.sticks = [a \in StickAxis |-> IF a \in moved THEN XboxStick(value[a]) ELSE @[a]],
                !.z = [t \in Triggers |-> IF t \in moved THEN TriggerByte(value[t]) ELSE @[t]]]
Ds4Axes(pad, moved, value) ==
    [pad EXCEPT !.sticks = [a \in StickAxis |-> IF a \in moved THEN Ds4Stick(value[a]) ELSE @[a]],
                !.triggers = [t \in Triggers |-> IF t \in moved THEN TriggerByte(value[t]) ELSE @[t]]]
EmitAxes(pad, moved, value) ==
    CASE pad.kind = "xbox" -> XboxAxes(pad, moved, value)
      [] pad.kind = "dualshock4" -> Ds4Axes(pad, moved, value)
      [] pad.kind = "none" -> pad

-----------------------------------------------------------------------------
(* What only the DualShock 4 has.                                          *)

NoContact == [touched |-> FALSE, clicked |-> FALSE]

(* DualShock4::update_source: a finger that comes down is a new contact.   *)
(* Where it is, and the motion sensors, are left out.                      *)
UpdateSource(pad, pads, side) ==
    LET contact == IF side = "none" THEN NoContact ELSE pads[side]
        fresh == contact.touched /\ ~pad.touch.active
    IN IF pad.kind # "dualshock4" THEN pad
       ELSE [pad EXCEPT !.clicked = contact.clicked,
                        !.touch = [active |-> contact.touched,
                                   id |-> IF fresh THEN (@.id + 1) % ContactIds ELSE @.id]]

SetBattery(pad, percent) ==
    IF pad.kind = "dualshock4" THEN [pad EXCEPT !.battery = percent] ELSE pad

-----------------------------------------------------------------------------
(* What a game reads: State::common_report and usb_report, and the events  *)
(* of the Xbox pad's device.                                               *)

(* Byte 4 of the report: the eight directions clockwise, then none.        *)
Compass ==
    <<<<0, -1>>, <<1, -1>>, <<1, 0>>, <<1, 1>>, <<0, 1>>, <<-1, 1>>, <<-1, 0>>, <<-1, -1>>>>
Ds4Hat(dpad) ==
    LET at == {i \in DOMAIN Compass : Compass[i] = HatOf(dpad)}
    IN IF at = {} THEN 8 ELSE (CHOOSE i \in at : TRUE) - 1

Ds4Trigger(pad, t) == IF t \in pad.triggerButtons THEN 255 ELSE pad.triggers[t]

Controls(pad) ==
    CASE pad.kind = "xbox" ->
           [keys |-> pad.keys, hat |-> pad.hat, sticks |-> pad.sticks, triggers |-> pad.z]
      [] pad.kind = "dualshock4" ->
           [keys |-> pad.keys, hat |-> Ds4Hat(pad.dpad), sticks |-> pad.sticks,
            triggers |-> [t \in Triggers |-> Ds4Trigger(pad, t)],
            pulled |-> {t \in Triggers : t \in pad.triggerButtons \/ pad.triggers[t] # 0}]
      [] pad.kind = "none" -> NoPad

(* The gamepads there can be, in the numbers of their devices.             *)
Int16 == -StickRange..StickRange - 1
XboxPads ==
    [kind : {"xbox"}, keys : SUBSET PlainButtons, dpad : SUBSET Directions,
     hat : (-1..1) \X (-1..1), sticks : [StickAxis -> Int16], z : [Triggers -> 0..255]]
Ds4Pads ==
    [kind : {"dualshock4"}, keys : SUBSET PlainButtons, dpad : SUBSET Directions,
     sticks : [StickAxis -> 0..255], triggers : [Triggers -> 0..255],
     triggerButtons : SUBSET Triggers, touch : [active : BOOLEAN, id : 0..ContactIds - 1],
     clicked : BOOLEAN, battery : 0..100]
Pads == {NoPad} \cup XboxPads \cup Ds4Pads
=============================================================================
