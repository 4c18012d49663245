---------------------------- MODULE MCAxisMapper ----------------------------
EXTENDS AxisMapper

Always == [kind |-> "always"]
OnGrip == [kind |-> "buttons", buttons |-> {"grip"}]
(* Half a pull is between the thresholds.                                  *)
OnPull == [kind |-> "trigger", source |-> "LeftTrigger", engage |-> 2, release |-> 0]

LeftStick == <<"LeftX", "LeftY">>
Vector(source, of, target, activation) ==
    [source |-> source, of |-> of, target |-> target, activation |-> activation,
     deadzone |-> 0, sensitivity |-> 1, swap |-> FALSE, invertX |-> FALSE, invertY |-> FALSE]
Pull == Vector("trigger", "LeftTrigger", "LeftTrigger", Always)
Stick == Vector("stick", "left", LeftStick, Always)
Aim == [Vector("gyro", "left", LeftStick, OnPull) EXCEPT !.sensitivity = 2, !.invertX = TRUE]
Steer == [Vector("pad", "right", <<"RightX", "RightY">>, OnGrip) EXCEPT !.swap = TRUE, !.deadzone = 1]

Mode(gamepad, touchpad, mappings) == [gamepad |-> gamepad, touchpad |-> touchpad, axes |-> mappings]

MCModes ==
    <<Mode("xbox", "none", <<Stick, Aim, Pull>>), Mode("dualshock4", "left", <<Steer, Pull>>),
      Mode("dualshock4", "right", <<Aim, Stick>>), Mode("none", "left", <<>>)>>

Contact(touched, clicked, position) == [touched |-> touched, clicked |-> clicked, position |-> position]
LeftContacts ==
    {Contact(FALSE, FALSE, <<0, 0>>), Contact(TRUE, FALSE, <<1, 0>>), Contact(TRUE, TRUE, <<-2, 1>>)}

(* The left stick goes where the left pad is touched; the grip is held     *)
(* while the right pad is.                                                 *)
MCReports ==
    {[NoReport EXCEPT !.triggers["LeftTrigger"] = pull, !.gyro = <<1, -1>>,
                      !.pads["left"] = left, !.sticks["left"] = left.position,
                      !.pads["right"] = Contact(touched, FALSE, IF touched THEN <<-2, 1>> ELSE <<0, 0>>),
                      !.buttons = IF touched THEN {"grip"} ELSE {}] :
        pull \in 0..2, left \in LeftContacts, touched \in BOOLEAN}
=============================================================================
