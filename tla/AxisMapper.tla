----------------------------- MODULE AxisMapper -----------------------------
(***************************************************************************)
(* From a controller report to a gamepad the game sees: the axis half of   *)
(* Mapper::process (daemon/src/mapper.rs), the main loop's order of calls  *)
(* around it (daemon/src/main.rs), and the virtual gamepad.                *)
(* Which buttons are held is the subject of Mapper; here a report holds    *)
(* any of them.                                                            *)
(***************************************************************************)
EXTENDS VirtualPads, Sequences

CONSTANTS
    Modes,   \* [gamepad, touchpad, axes] of each mode
    Reports, \* controller states
    Bound,   \* buttons that some mode binds
    Percents \* battery levels

NoReport == [triggers |-> [t \in Triggers |-> 0],
             sticks |-> [s \in PadSides |-> <<0, 0>>], gyro |-> <<0, 0>>,
             buttons |-> {},
             pads |-> [s \in PadSides |-> [touched |-> FALSE, clicked |-> FALSE, position |-> <<0, 0>>]]]

(* The mappings whose target is the gamepad; numbers are multiples of      *)
(* 1/Unit, and what a controller sends is named by its own words.          *)
Vector2 == Int \X Int
AxisActivation ==
    [kind : {"always"}] \cup [kind : {"buttons"}, buttons : SUBSET STRING]
    \cup [kind : {"trigger"}, source : Triggers, engage : 0..Unit, release : 0..Unit]
AxisMapping ==
    LET Mapping(sources, of, targets) ==
          [source : sources, of : of, target : targets, activation : AxisActivation,
           deadzone : Nat, sensitivity : Int, swap : BOOLEAN, invertX : BOOLEAN, invertY : BOOLEAN]
    IN Mapping({"trigger"}, Triggers, Triggers)
       \cup Mapping({"stick", "gyro", "pad"}, PadSides, {<<"LeftX", "LeftY">>, <<"RightX", "RightY">>})
ControllerState ==
    [triggers : [Triggers -> 0..Unit], sticks : [PadSides -> Vector2], gyro : Vector2,
     buttons : SUBSET STRING,
     pads : [PadSides -> [touched : BOOLEAN, clicked : BOOLEAN, position : Vector2]]]

ASSUME AxisAssumption ==
    /\ Modes \in Seq([gamepad : Kinds, touchpad : PadSides \cup {"none"}, axes : Seq(AxisMapping)])
    /\ Modes # <<>>
    /\ Reports \subseteq ControllerState
    /\ Bound \subseteq Buttons /\ Percents \subseteq 0..100

VARIABLES
    mode,        \* Mapper.active_mode
    axisActive,  \* Mapper.axis_active: which axis mappings are engaged
    gamepadAxes, \* Mapper.gamepad_axes: the deflections emitted last
    held,        \* gamepad buttons that Mapper.held has
    previous,    \* Mapper.previous, NoReport before the first one
    visible,     \* the on-screen keyboard is shown
    connected,   \* a controller streams reports
    pad,         \* Outputs.gamepad
    armed        \* history: mappings whose trigger has not been below `release' since `engage'

vars == <<mode, axisActive, gamepadAxes, held, previous, visible, connected, pad, armed>>

Mappings(m) == Modes[m].axes
Inactive(m) == [i \in DOMAIN Mappings(m) |-> FALSE]
AtRest == [a \in Axis |-> 0]

TypeOK ==
    /\ mode \in DOMAIN Modes
    /\ axisActive \in [DOMAIN Mappings(mode) -> BOOLEAN]
    /\ armed \in [DOMAIN Mappings(mode) -> BOOLEAN]
    /\ gamepadAxes \in [Axis -> -Unit..Unit]
    /\ held \subseteq Bound
    /\ previous \in Reports \cup {NoReport}
    /\ visible \in BOOLEAN /\ connected \in BOOLEAN
    /\ pad \in Pads /\ pad.kind = Modes[mode].gamepad

Init ==
    /\ mode \in DOMAIN Modes
    /\ axisActive = Inactive(mode) /\ armed = Inactive(mode)
    /\ gamepadAxes = AtRest /\ held = {} /\ previous = NoReport
    /\ visible = FALSE /\ connected = FALSE
    /\ pad = NewPad(Modes[mode].gamepad)

-----------------------------------------------------------------------------
(* The axes loop.                                                          *)

Engaged(mapping, was, report) ==
    CASE mapping.activation.kind = "always" -> TRUE
      [] mapping.activation.kind = "buttons" -> mapping.activation.buttons \subseteq report.buttons
      [] mapping.activation.kind = "trigger" ->
           LET value == report.triggers[mapping.activation.source]
           IN IF was THEN value > mapping.activation.release ELSE value >= mapping.activation.engage

(* scale_axis without its curve between the deadzone and full deflection.  *)
Scaled(value, mapping) == IF value <= mapping.deadzone THEN 0 ELSE value * mapping.sensitivity

SourceOf(mapping, report) ==
    CASE mapping.source = "stick" -> report.sticks[mapping.of]
      [] mapping.source = "gyro" -> report.gyro
      [] mapping.source = "pad" ->
           IF report.pads[mapping.of].touched THEN report.pads[mapping.of].position ELSE <<0, 0>>

Transformed(v, mapping) ==
    LET turned == IF mapping.swap THEN <<v[2], v[1]>> ELSE v
        x == IF mapping.invertX THEN -turned[1] ELSE turned[1]
        y == IF mapping.invertY THEN -turned[2] ELSE turned[2]
    IN IF x * x + y * y <= mapping.deadzone * mapping.deadzone THEN <<0, 0>>
       ELSE <<x * mapping.sensitivity, y * mapping.sensitivity>>

(* A trigger replaces what its axis has so far, a vector is added.         *)
Contribution(mapping, report, sum) ==
    IF mapping.source = "trigger"
      THEN [sum EXCEPT ![mapping.target] = Scaled(report.triggers[mapping.of], mapping)]
      ELSE LET v == Transformed(SourceOf(mapping, report), mapping)
           IN [sum EXCEPT ![mapping.target[1]] = @ + v[1], ![mapping.target[2]] = @ + v[2]]

ActiveAfter(report) ==
    [i \in DOMAIN axisActive |-> Engaged(Mappings(mode)[i], axisActive[i], report)]

Clamped(value, low) == IF value < low THEN low ELSE IF value > Unit THEN Unit ELSE value

AxesAfter(report) ==
    LET sum[n \in 0..Len(Mappings(mode))] ==
          IF n = 0 THEN AtRest
          ELSE IF ActiveAfter(report)[n] THEN Contribution(Mappings(mode)[n], report, sum[n - 1])
          ELSE sum[n - 1]
    IN [a \in Axis |-> Clamped(sum[Len(Mappings(mode))][a], IF a \in Triggers THEN 0 ELSE -Unit)]

(* set_gamepad_axis: only what changes is emitted.                         *)
Moved(new) == {a \in Axis : new[a] # gamepadAxes[a]}

-----------------------------------------------------------------------------
(* What every report and every call shares.                                *)

ArmedAfter(m, report) ==
    [i \in DOMAIN Mappings(m) |->
        LET activation == Mappings(m)[i].activation
        IN activation.kind = "trigger" /\
           LET value == report.triggers[activation.source]
           IN value >= activation.engage \/ (m = mode /\ armed[i] /\ value > activation.release)]

Takes(report) ==
    /\ previous' = report
    /\ connected' = TRUE
    /\ armed' = ArmedAfter(mode', report)

(* update_gamepad_source, with the touchpad of the mode that is active.    *)
Sourced(report) == UpdateSource(pad, report.pads, Modes[mode'].touchpad)

(* Fault: axis mappings stay engaged over a release.                       *)
ReleaseKeepingActivation ==
    /\ held' = {} /\ gamepadAxes' = AtRest
    /\ axisActive' = IF mode' = mode THEN axisActive ELSE Inactive(mode')
(* release_outputs, and reset_runtime when the mode changes.               *)
Release ==
    /\ held' = {} /\ gamepadAxes' = AtRest
    /\ axisActive' = Inactive(mode')
(* Fault: releasing forgets the axes.                                      *)
ReleasedButtons(p) == EmitButtons(p, held, FALSE)
Released(p) == EmitAxes(EmitButtons(p, held, FALSE), Moved(AtRest), AtRest)

-----------------------------------------------------------------------------
(* DeviceEvent::State.                                                     *)

(* Buttons and axes of the active mode.  While the keyboard is shown only  *)
(* global bindings hold buttons, and the axes are left alone.              *)
ReportMapped ==
    \E report \in Reports, pressed \in SUBSET Bound :
        /\ mode' = mode
        /\ Takes(report)
        /\ held' = pressed
        /\ LET buttons == EmitButtons(EmitButtons(Sourced(report), held \ pressed, FALSE),
                                      pressed \ held, TRUE)
           IN IF visible
                THEN pad' = buttons /\ UNCHANGED <<axisActive, gamepadAxes>>
                ELSE /\ axisActive' = ActiveAfter(report)
                     /\ gamepadAxes' = AxesAfter(report)
                     /\ pad' = EmitAxes(buttons, Moved(gamepadAxes'), gamepadAxes')
        /\ UNCHANGED visible

(* A global binding toggles the keyboard: emit() suspends the mapper.      *)
ReportToggles ==
    \E report \in Reports :
        /\ mode' = mode
        /\ Takes(report)
        /\ Release
        /\ pad' = Released(Sourced(report))
        /\ visible' = ~visible

(* Fault: the touchpad is chosen before the report is processed.           *)
ReportSwitchesModeLate ==
    \E report \in Reports, m \in DOMAIN Modes \ {mode} :
        /\ mode' = m
        /\ Takes(report)
        /\ Release
        /\ pad' = SetGamepad(Released(UpdateSource(pad, report.pads, Modes[mode].touchpad)), Modes[m].gamepad)
        /\ UNCHANGED visible

(* A binding changes the mode: process() returns, and emit() releases what *)
(* the old mode held before it installs the new mode's gamepad.            *)
ReportSwitchesMode ==
    \E report \in Reports, m \in DOMAIN Modes \ {mode} :
        /\ mode' = m
        /\ Takes(report)
        /\ Release
        /\ pad' = SetGamepad(Released(Sourced(report)), Modes[m].gamepad)
        /\ UNCHANGED visible

Report == ReportMapped \/ ReportToggles \/ ReportSwitchesMode

-----------------------------------------------------------------------------
(* The other calls of the main loop.                                       *)

(* Request::ModeSet and ModeNext; Request::ConfigApply, after which the    *)
(* active mode may be any.                                                 *)
IpcModeChange ==
    \E m \in DOMAIN Modes :
        /\ mode' = m
        /\ Release
        /\ pad' = SetGamepad(Released(pad), Modes[m].gamepad)
        /\ armed' = IF m = mode THEN armed ELSE Inactive(m)
        /\ UNCHANGED <<previous, visible, connected>>

(* Request::OskHide.                                                       *)
IpcOskHide ==
    /\ visible
    /\ mode' = mode
    /\ Release
    /\ pad' = Released(pad)
    /\ visible' = FALSE
    /\ UNCHANGED <<previous, connected, armed>>

Battery ==
    /\ \E percent \in Percents : pad' = SetBattery(pad, percent)
    /\ UNCHANGED <<mode, axisActive, gamepadAxes, held, previous, visible, connected, armed>>

(* DeviceEvent::Disconnected: a new gamepad, and then the releases.        *)
Disconnect ==
    /\ connected
    /\ mode' = mode
    /\ pad' = Released(Replaced(pad, Modes[mode].gamepad))
    /\ Release
    /\ previous' = NoReport
    /\ visible' = FALSE /\ connected' = FALSE
    /\ armed' = Inactive(mode)

Next == Report \/ IpcModeChange \/ IpcOskHide \/ Battery \/ Disconnect

Spec == Init /\ [][Next]_vars

-----------------------------------------------------------------------------
(* Properties.                                                             *)

(* Whatever the sequence of reports, mode changes and replacements, what a *)
(* game reads is what a new gamepad would show after being told once what  *)
(* the mapper holds: no deflection, direction or button is lost or left    *)
(* behind.  The triggers of the Xbox pad are the exception, as a binding   *)
(* and an axis write the same number; but one that is neither bound down   *)
(* nor pulled rests, in whatever order its two users let go of it          *)
(* (xbox.rs emit_button and emit_axis).                                    *)
ToldAtOnce == EmitAxes(EmitButtons(NewPad(pad.kind), held, TRUE), Moved(AtRest), gamepadAxes)
HistoryIsForgotten ==
    IF pad.kind = "xbox"
      THEN /\ \A field \in {"keys", "hat", "sticks"} : Controls(pad)[field] = Controls(ToldAtOnce)[field]
           /\ \A t \in Triggers : t \notin held /\ gamepadAxes[t] = 0 => Controls(pad).triggers[t] = 0
      ELSE Controls(pad) = Controls(ToldAtOnce)

(* An axis mapping is engaged only if its trigger has reached the engage   *)
(* threshold, and has not been down at the release threshold since: the    *)
(* memory of axis_active is not older than a mode, a suspension by the     *)
(* keyboard, during which no axis is looked at, or a connection.           *)
EngagementIsFresh ==
    \A i \in DOMAIN axisActive :
        Mappings(mode)[i].activation.kind = "trigger" /\ axisActive[i] => armed[i]

(* After a report the DualShock's touchpad shows the pad of the mode that  *)
(* the report leads to, also when the gamepad stays while the mode changes *)
(* (main.rs: update_gamepad_source comes after process).                   *)
TouchpadOfTheMode ==
    [][Report /\ pad.kind = "dualshock4" /\ pad'.kind = "dualshock4" =>
          LET side == Modes[mode'].touchpad
              contact == IF side = "none" THEN NoContact ELSE previous'.pads[side]
          IN pad'.touch.active = contact.touched /\ pad'.clicked = contact.clicked]_vars
=============================================================================
