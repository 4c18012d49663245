------------------------------- MODULE Haptics -------------------------------
(***************************************************************************)
(* The way of a rumble level from a game to the controller: the virtual    *)
(* gamepad it is asked of (daemon/src/gamepad), the main loop that polls   *)
(* and refreshes it (daemon/src/output.rs, main.rs), and the one output    *)
(* transfer that rumble and all other haptics share (daemon/src/usb.rs).   *)
(* The game, the hand on the trackpad and the controller are external.     *)
(***************************************************************************)
EXTENDS Naturals

CONSTANT Strength   \* the levels a motor can run at; 0 is no rumble
ASSUME StrengthAssumption == Strength \subseteq Nat \ {0}

Level == Strength \cup {0}

VARIABLES
    pad,         \* a virtual gamepad exists
    wanted,      \* the level the game asks of it
    reported,    \* the level it last reported to the main loop
    stopPending, \* Outputs::pending_rumble_stop
    rumble,      \* the main loop's level
    connected,   \* a controller is connected
    output,      \* what the output transfer carries: a level, Click, or Free
    motor,       \* external: the last level the controller received
    swiping      \* external: the trackpad causes haptic clicks

vars == <<pad, wanted, reported, stopPending, rumble, connected, output, motor, swiping>>

Free == "free"
Click == "click"

TypeOK ==
    /\ pad \in BOOLEAN /\ stopPending \in BOOLEAN
    /\ connected \in BOOLEAN /\ swiping \in BOOLEAN
    /\ wanted \in Level /\ reported \in Level /\ rumble \in Level /\ motor \in Level
    /\ output \in [kind : {Free, Click}] \cup [kind : {"rumble"}, level : Level]

Init ==
    /\ pad \in BOOLEAN
    /\ wanted = 0 /\ reported = 0 /\ rumble = 0 /\ motor = 0
    /\ stopPending = FALSE /\ connected = FALSE /\ swiping = FALSE
    /\ output = [kind |-> Free]

-----------------------------------------------------------------------------
(* The game plays, stops or changes its effects.                           *)
GameRumbles ==
    /\ pad
    /\ wanted' \in Level
    /\ UNCHANGED <<pad, reported, stopPending, rumble, connected, output, motor, swiping>>

Swipe ==
    /\ swiping' = ~swiping
    /\ UNCHANGED <<pad, wanted, reported, stopPending, rumble, connected, output, motor>>

(* Fault: the stop that an earlier gamepad still owes is forgotten.        *)
ReplacedForgetting(exists) == stopPending' = pad

(* Outputs::set_gamepad with another kind: the old gamepad is dropped and  *)
(* owes a stop, a new one starts at rest.                                  *)
Replaced(exists) == stopPending' = (stopPending \/ pad)

SetGamepad ==
    /\ pad' \in BOOLEAN
    /\ pad \/ pad'
    /\ Replaced(pad')
    /\ wanted' = 0 /\ reported' = 0
    /\ UNCHANGED <<rumble, connected, output, motor, swiping>>

(* The first State event of a connection, on this slot or on another.      *)
Connect ==
    /\ ~connected
    /\ connected' = TRUE
    /\ output' \in {output, [kind |-> Free]}
    /\ UNCHANGED <<pad, wanted, reported, stopPending, rumble, motor, swiping>>

(* The connection ends.  Only a failed read or write closes the receiver   *)
(* and its transfers with it; a controller that is switched off stops.     *)
Disconnect ==
    /\ connected
    /\ connected' = FALSE
    /\ output' \in {output, [kind |-> Free]}
    /\ motor' \in {motor, 0}
    /\ UNCHANGED <<pad, wanted, reported, stopPending, rumble, swiping>>

-----------------------------------------------------------------------------
(* DeviceManager::play_haptic and Device::write: without a connection, or  *)
(* while the output transfer is pending, the haptic is dropped.            *)
Write(haptic) ==
    output' = IF connected /\ output.kind = Free THEN haptic ELSE output

(* The kernel completes the output transfer.  That it may have been short  *)
(* or stalled, which the next write only logs or clears, is left out.      *)
Complete ==
    /\ output.kind # Free
    /\ motor' \in (IF output.kind = "rumble" THEN {output.level} ELSE {motor})
                     \cup (IF connected THEN {} ELSE {motor})
    /\ output' = [kind |-> Free]
    /\ UNCHANGED <<pad, wanted, reported, stopPending, rumble, connected, swiping>>

(* A trackpad click, a mode switch or a client's request.                  *)
PlayHaptic ==
    /\ swiping
    /\ Write([kind |-> Click])
    /\ UNCHANGED <<pad, wanted, reported, stopPending, rumble, connected, motor, swiping>>

Changed == pad /\ wanted # reported

(* Outputs::poll_rumble returns a level, and the main loop plays it: the   *)
(* stop of a gamepad that is gone, or else what the gamepad has changed to.*)
PollStop ==
    /\ stopPending
    /\ stopPending' = FALSE
    /\ rumble' = 0
    /\ Write([kind |-> "rumble", level |-> 0])
    /\ UNCHANGED <<pad, wanted, reported, connected, motor, swiping>>

PollLevel ==
    /\ ~stopPending
    /\ Changed
    /\ reported' = wanted
    /\ rumble' = wanted
    /\ Write([kind |-> "rumble", level |-> wanted])
    /\ UNCHANGED <<pad, wanted, stopPending, connected, motor, swiping>>

PollRumble == PollStop \/ PollLevel

(* Fault: only a level of zero is refreshed.                               *)
NeedsRefreshAtRest == rumble = 0
NeedsRefresh == rumble # 0

(* 40 ms after the last write the main loop repeats its level.             *)
Refresh ==
    /\ ~stopPending /\ ~Changed
    /\ NeedsRefresh
    /\ Write([kind |-> "rumble", level |-> rumble])
    /\ UNCHANGED <<pad, wanted, reported, stopPending, rumble, connected, motor, swiping>>

Next ==
    \/ GameRumbles \/ Swipe
    \/ SetGamepad \/ Connect \/ Disconnect
    \/ Complete \/ PlayHaptic \/ PollRumble \/ Refresh

(* The main loop polls for ever, 40 ms pass, and the kernel completes what *)
(* was submitted to it.                                                    *)
Fairness == WF_vars(PollRumble) /\ WF_vars(Refresh) /\ WF_vars(Complete)

Safety == Init /\ [][Next]_vars
Spec == Safety /\ Fairness

-----------------------------------------------------------------------------
(* Properties.                                                             *)

(* The main loop's level is that of the gamepad which exists now, unless   *)
(* the stop that a replaced gamepad owes is still to be polled: no gamepad *)
(* leaves its rumble behind, however often it is replaced before the next  *)
(* poll (output.rs set_gamepad and poll_rumble; a disconnect replaces the  *)
(* gamepad twice).                                                         *)
RumbleHasSource ==
    /\ ~stopPending => rumble = IF pad THEN reported ELSE 0
    /\ stopPending => reported = 0

(* Not true of the code: that a stop reaches the motor for good, as a      *)
(* level does (EffectsArrive of RumblePath).  See README, findings.        *)
StopArrives ==
    <>[](connected /\ pad /\ wanted = 0 /\ ~swiping) => <>[](motor = 0)
=============================================================================
