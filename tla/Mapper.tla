------------------------------- MODULE Mapper -------------------------------
(***************************************************************************)
(* The input mapper (daemon/src/mapper.rs) together with what the main     *)
(* loop (daemon/src/main.rs) does around each call of it, and the host's   *)
(* view of the virtual devices (daemon/src/output.rs).                     *)
(*                                                                         *)
(* Mapper::process runs to completion on the daemon's only mapping thread; *)
(* its three loops whose iterations depend on each other are steps of      *)
(* their own here (pc = "global", "osk", "route"), as are the press and   *)
(* the release of a key that a client taps (pc = "tap"); nothing else is   *)
(* enabled until pc is "idle" again.  Outputs reach the host in the order  *)
(* the mapper pushes them, so each step applies its own outputs to `down'. *)
(* No step reads `heldOver', which only serves the properties.             *)
(***************************************************************************)
EXTENDS MapperConfig

CONSTANTS
    LeftShift, RightShift,  \* the shift keys
    RequestKeys             \* the keys clients ask the daemon to tap (Request::Key)

ASSUME RequestAssumption ==
    /\ LeftShift \in KeyOutput /\ RightShift \in KeyOutput
    /\ RequestKeys \subseteq KeyOutput

VARIABLES
    config,          \* the configuration in force
    mode,            \* index of the active mode
    global,          \* per global binding: [active, captured]
    routes,          \* the mode bindings that are acting
    quarantined,     \* triggers that lost their route while held
    oskActive,       \* inputs whose OSK binding is acting
    held,            \* how many users each held output has
    axes,            \* gamepad axes the mapper has away from neutral
    previous,        \* buttons of the last report (none before the first one)
    connected,       \* a controller is streaming reports
    keyboardVisible, \* the on-screen keyboard is shown
    recentlyClosed,  \* a report closed the keyboard less than one second ago
    gamepad,         \* kind of the virtual gamepad that exists
    down,            \* outputs the host sees pressed
    hostAxes,        \* gamepad axes the host sees away from neutral
    pc, index,       \* which loop of `process' runs, and its next iteration
    report, before,  \* buttons of the report being processed, and of the last one
    reserved, captured, \* buttons the global bindings keep for themselves
    tap,             \* keys that the client's request in hand has pressed
    heldOver         \* history: what the connection's last report had down

mapperVars == <<config, mode, global, routes, quarantined, oskActive, held, axes, previous>>
hostVars == <<gamepad, down, hostAxes>>
mainVars == <<connected, keyboardVisible, recentlyClosed>>
callVars == <<report, before, reserved, captured, tap, heldOver>>
vars == <<mapperVars, hostVars, mainVars, callVars, pc, index>>

Idle == [active |-> FALSE, captured |-> FALSE]
Route == [inputs: SUBSET Button, trigger: Button,
          hold: SUBSET Button, held: SUBSET Output]
Tap == [key: SUBSET RequestKeys, shift: SUBSET {LeftShift}]
NoTap == [key |-> {}, shift |-> {}]

TypeOK ==
    /\ config \in Configs
    /\ mode \in 1..Len(config.modes)
    /\ global \in [1..Len(config.globals) -> [active: BOOLEAN, captured: BOOLEAN]]
    /\ routes \subseteq Route
    /\ quarantined \subseteq Button /\ oskActive \subseteq Button
    /\ held \in [Output -> Nat]
    /\ axes \subseteq Axis /\ hostAxes \subseteq Axis
    /\ previous \subseteq Button
    /\ connected \in BOOLEAN /\ keyboardVisible \in BOOLEAN /\ recentlyClosed \in BOOLEAN
    /\ gamepad \in Gamepad
    /\ down \subseteq Output
    /\ pc \in {"idle", "global", "osk", "route", "tap"}
    /\ index \in Nat \ {0}
    /\ report \subseteq Button /\ before \subseteq Button
    /\ reserved \subseteq Button /\ captured \subseteq Button
    /\ tap \in Tap /\ heldOver \subseteq Button

ActiveMode == config.modes[mode]
NoGlobals(cfg) == [i \in 1..Len(cfg.globals) |-> Idle]

Init ==
    /\ config \in Configs
    /\ mode = config.default
    /\ global = NoGlobals(config)
    /\ routes = {} /\ quarantined = {} /\ oskActive = {}
    /\ held = [k \in Output |-> 0]
    /\ axes = {} /\ hostAxes = {}
    /\ previous = {}
    /\ connected = FALSE /\ keyboardVisible = FALSE /\ recentlyClosed = FALSE
    /\ gamepad = ActiveMode.gamepad
    /\ down = {}
    /\ pc = "idle" /\ index = 1
    /\ report = {} /\ before = {} /\ reserved = {} /\ captured = {}
    /\ tap = NoTap /\ heldOver = {}

-----------------------------------------------------------------------------
(* The host's devices: Outputs::emit and Outputs::set_gamepad.             *)

(* Gamepad outputs are dropped while there is no virtual gamepad.          *)
Accepted(outs) == IF gamepad = "none" THEN outs \ GamepadOutput ELSE outs

(* What the host still sees pressed when the gamepad becomes `kind'.       *)
KeptBy(kind, outs) == IF kind = gamepad THEN outs ELSE outs \ GamepadOutput

(* Fault: any user's release reaches the host, not only the last one's.    *)
SetHeldReleasingEarly(k, active) ==
    /\ held' = [held EXCEPT ![k] = IF active THEN @ + 1 ELSE IF @ = 0 THEN 0 ELSE @ - 1]
    /\ down' = IF active THEN down \cup Accepted({k}) ELSE down \ {k}

(* set_held(k, active): press on the first user, release on the last one,  *)
(* nothing when an output that is not held is released.                    *)
SetHeld(k, active) ==
    IF active
      THEN /\ held' = [held EXCEPT ![k] = @ + 1]
           /\ down' = IF held[k] = 0 THEN down \cup Accepted({k}) ELSE down
      ELSE /\ held' = [held EXCEPT ![k] = IF @ = 0 THEN 0 ELSE @ - 1]
           /\ down' = IF held[k] = 1 THEN down \ {k} ELSE down

HeldNow == {k \in Output : held[k] > 0}

(* Fault: the OSK bindings stay active when everything is released.        *)
ReleaseOutputsKeepingOsk(kind) ==
    /\ routes' = {} /\ quarantined' = {} /\ axes' = {}
    /\ held' = [k \in Output |-> 0]
    /\ gamepad' = kind
    /\ down' = KeptBy(kind, down \ HeldNow)
    /\ hostAxes' = IF kind = gamepad THEN hostAxes \ axes ELSE {}
    /\ UNCHANGED oskActive

(* Mapper::release_outputs, followed by set_gamepad(kind).                 *)
ReleaseOutputs(kind) ==
    /\ routes' = {} /\ quarantined' = {} /\ oskActive' = {}
    /\ held' = [k \in Output |-> 0]
    /\ axes' = {}
    /\ gamepad' = kind
    /\ down' = KeptBy(kind, down \ HeldNow)
    /\ hostAxes' = IF kind = gamepad THEN hostAxes \ axes ELSE {}

(* Fault: the gamepad of the old mode stays.                               *)
SwitchModeKeepingGamepad(m) ==
    /\ ReleaseOutputs(gamepad)
    /\ mode' = m
    /\ global' = NoGlobals(config)
    /\ UNCHANGED config

(* switch_mode when the mode changes: everything is released, the global   *)
(* bindings forget what they captured, and emit() installs the gamepad of  *)
(* the mode that is active now.                                            *)
SwitchMode(m) ==
    /\ ReleaseOutputs(config.modes[m].gamepad)
    /\ mode' = m
    /\ global' = NoGlobals(config)
    /\ UNCHANGED config

(* Mapper::suspend: outputs are released, the global bindings live on.     *)
Suspend ==
    /\ ReleaseOutputs(gamepad)
    /\ UNCHANGED <<config, mode, global>>

(* `process' returns: its locals are gone.                                 *)
Return ==
    /\ pc' = "idle" /\ index' = 1
    /\ report' = {} /\ before' = {} /\ reserved' = {} /\ captured' = {}
    /\ heldOver' = report
    /\ UNCHANGED tap

-----------------------------------------------------------------------------
(* DeviceEvent::State: process() is entered with any set of buttons.       *)
BeginReport ==
    /\ pc = "idle"
    /\ \E buttons \in SUBSET Button :
          /\ report' = buttons
          /\ previous' = buttons
    /\ before' = previous
    /\ connected' = TRUE
    /\ pc' = "global"
    /\ UNCHANGED <<config, mode, global, routes, quarantined, oskActive, held, axes,
                   hostVars, keyboardVisible, recentlyClosed, index, reserved, captured,
                   tap, heldOver>>

(* One iteration of the loop over the global bindings.                     *)
CurrentGlobal == config.globals[index]
AllActive == CurrentGlobal.inputs \subseteq report
Pressed ==
    /\ AllActive
    /\ CurrentGlobal.trigger \notin before
    /\ Prerequisites(CurrentGlobal) \subseteq before
ActiveNow == IF global[index].active THEN AllActive ELSE Pressed
CapturedNow == Pressed \/ (global[index].captured /\ CurrentGlobal.trigger \in report)

(* Fault: a captured trigger is free again as soon as the chord is broken.  *)
ReservesOnlyComplete ==
    (Prerequisites(CurrentGlobal) \cap report)
        \cup {b \in {CurrentGlobal.trigger} : AllActive}
Reserves ==
    IF CapturedNow
      THEN CurrentGlobal.inputs
      ELSE (Prerequisites(CurrentGlobal) \cap report)
             \cup {b \in {CurrentGlobal.trigger} : AllActive}

UpdateGlobal ==
    /\ pc = "global" /\ index <= Len(config.globals)
    /\ global' = [global EXCEPT ![index] = [active |-> ActiveNow, captured |-> CapturedNow]]

NextGlobal ==
    /\ reserved' = reserved \cup Reserves
    /\ captured' = captured \cup (IF CapturedNow THEN CurrentGlobal.inputs ELSE {})
    /\ index' = index + 1
    /\ UNCHANGED <<config, mode, routes, quarantined, oskActive, axes, previous,
                   gamepad, hostAxes, mainVars, pc, report, before, tap, heldOver>>

(* The mode a binding's action asks for: its own mode when it asks for none.*)
Target(action) ==
    IF action.kind = "modeSet" THEN action.mode
    ELSE IF action.kind = "modeNext" THEN NextMode(config, mode)
    ELSE mode

Releases == global[index].active /\ ~ActiveNow /\ HeldBy(CurrentGlobal.action) # {}

GlobalQuiet ==
    /\ UpdateGlobal
    /\ ~Releases
    /\ Pressed => /\ CurrentGlobal.action.kind \in {"modeSet", "modeNext"}
                  /\ Target(CurrentGlobal.action) = mode
    /\ NextGlobal
    /\ UNCHANGED <<held, down>>

GlobalHold ==
    /\ UpdateGlobal
    /\ Pressed \/ Releases
    /\ \E k \in HeldBy(CurrentGlobal.action) : SetHeld(k, ActiveNow)
    /\ NextGlobal

(* A global binding changes the mode: process() returns at once.           *)
GlobalSwitchMode ==
    /\ pc = "global" /\ index <= Len(config.globals)
    /\ Pressed
    /\ Target(CurrentGlobal.action) # mode
    /\ SwitchMode(Target(CurrentGlobal.action))
    /\ Return
    /\ UNCHANGED <<previous, mainVars>>

(* keyboard-toggle: process() returns, emit() suspends the mapper and      *)
(* shows or hides the keyboard; a close starts the grace period.           *)
GlobalToggle ==
    /\ UpdateGlobal
    /\ Pressed
    /\ CurrentGlobal.action.kind = "toggle"
    /\ ReleaseOutputs(gamepad)
    /\ keyboardVisible' = ~keyboardVisible
    /\ recentlyClosed' = keyboardVisible
    /\ Return
    /\ UNCHANGED <<config, mode, previous, connected>>

GlobalsDone ==
    /\ pc = "global" /\ index > Len(config.globals)
    /\ pc' = IF keyboardVisible THEN "osk" ELSE "route"
    /\ index' = 1
    /\ UNCHANGED <<mapperVars, hostVars, mainVars, callVars>>

-----------------------------------------------------------------------------
(* One iteration of the loop over the OSK bindings.                        *)
OskInput == config.osk[index].input
OskPressed == OskInput \in report /\ OskInput \notin reserved

OskStep ==
    /\ pc = "osk" /\ index <= Len(config.osk)
    /\ \/ /\ OskPressed /\ OskInput \notin oskActive
          /\ oskActive' = oskActive \cup {OskInput}
          /\ SetHeld(config.osk[index].key, TRUE)
       \/ /\ ~OskPressed /\ OskInput \in oskActive
          /\ oskActive' = oskActive \ {OskInput}
          /\ SetHeld(config.osk[index].key, FALSE)
       \/ /\ OskPressed <=> OskInput \in oskActive
          /\ UNCHANGED <<oskActive, held, down>>
    /\ index' = index + 1
    /\ UNCHANGED <<config, mode, global, routes, quarantined, axes, previous,
                   gamepad, hostAxes, mainVars, callVars, pc>>

OskDone ==
    /\ pc = "osk" /\ index > Len(config.osk)
    /\ Return
    /\ UNCHANGED <<mapperVars, hostVars, mainVars>>

-----------------------------------------------------------------------------
(* The mode's own bindings.  Releasing every lost route and starting every *)
(* new one do not depend on the order within each group, except that the   *)
(* first of two bindings with one trigger wins and that a mode change ends *)
(* the call; so they are one step.                                         *)

Available(button) == button \in report /\ button \notin reserved

(* Fault: a layer's routes survive the release of its hold.                *)
LostRoutesIgnoringHold == {r \in routes : \/ ~(r.inputs \subseteq report)
                                          \/ r.inputs \cap captured # {}}
LostRoutes == {r \in routes : \/ ~(r.inputs \subseteq report)
                              \/ \E b \in r.hold : ~Available(b)
                              \/ r.inputs \cap captured # {}}
KeptRoutes == routes \ LostRoutes
Quarantine == (quarantined \cap report) \cup ({r.trigger : r \in LostRoutes} \cap report)

(* Layer 0 stands for the mode's own bindings, which no hold guards.       *)
BindingsOf(layer) ==
    IF layer = 0 THEN ActiveMode.bindings ELSE ActiveMode.layers[layer].bindings
HoldOf(layer) == IF layer = 0 THEN {} ELSE {ActiveMode.layers[layer].hold}
Candidates ==
    UNION {{[layer |-> l, position |-> i, binding |-> BindingsOf(l)[i]] :
               i \in DOMAIN BindingsOf(l)} : l \in 0..Len(ActiveMode.layers)}

LayerOn(layer) == \A b \in HoldOf(layer) : Available(b)
Overridden ==
    {c.binding.trigger : c \in {d \in Candidates : d.layer # 0 /\ LayerOn(d.layer)}}
Live(c) ==
    /\ LayerOn(c.layer)
    /\ c.layer = 0 => c.binding.trigger \notin Overridden

(* reserve_chord_inputs: a live chord keeps its prerequisites as they go   *)
(* down, and its trigger once it is complete.                              *)
ChordInputs(binding) ==
    (Prerequisites(binding) \cap report)
        \cup {b \in {binding.trigger} : binding.inputs \subseteq report}
ChordReserved ==
    reserved \cup UNION {ChordInputs(c.binding) : c \in {d \in Candidates :
                                                   Live(d) /\ IsChord(d.binding)}}

(* route_binding's conditions.                                             *)
Eligible(c) ==
    /\ Live(c)
    /\ c.binding.trigger \in report \ before
    /\ c.binding.inputs \subseteq report
    /\ Prerequisites(c.binding) \subseteq before
    /\ \A r \in KeptRoutes : r.trigger # c.binding.trigger
    /\ c.binding.trigger \notin Quarantine
    /\ c.binding.inputs \cap (IF IsChord(c.binding) THEN reserved ELSE ChordReserved) = {}

(* Chords are tried before scalar bindings, the mode's own before layers'. *)
Precedes(c, d) ==
    IF IsChord(c.binding) # IsChord(d.binding)
      THEN IsChord(c.binding)
      ELSE \/ c.layer < d.layer
           \/ c.layer = d.layer /\ c.position < d.position

(* Fault: every binding of a pressed trigger starts, not only the first.   *)
AllEligibleFire == {c \in Candidates : Eligible(c)}
Fired == {c \in Candidates :
            /\ Eligible(c)
            /\ \A d \in Candidates :
                  Eligible(d) /\ d.binding.trigger = c.binding.trigger => ~Precedes(d, c)}
Switching == {c \in Fired : Target(c.binding.action) # mode}

RouteOf(c) == [inputs |-> c.binding.inputs, trigger |-> c.binding.trigger,
               hold |-> HoldOf(c.layer), held |-> HeldBy(c.binding.action)]
NewRoutes == {RouteOf(c) : c \in Fired}

(* Routes are told apart by their triggers.                                *)
Users(rs, k) == Cardinality({r.trigger : r \in {q \in rs : k \in q.held}})
(* Fault: two routes lost in one report give up their output once.         *)
AfterOneRelease(k) ==
    IF held[k] > 0 /\ Users(LostRoutes, k) > 0 THEN held[k] - 1 ELSE held[k]
AfterReleases(k) == IF held[k] > Users(LostRoutes, k) THEN held[k] - Users(LostRoutes, k) ELSE 0

(* Whatever sticks, pads, triggers and gyro say, a report sets every axis  *)
(* of the gamepad: those the mode maps to any value, the others to neutral.*)
TiltAxes ==
    \E tilted \in SUBSET ActiveMode.axes :
        /\ axes' = tilted
        /\ hostAxes' = (hostAxes \ (axes \ tilted))
                         \cup (IF gamepad = "none" THEN {} ELSE tilted \ axes)

UpdateRoutes ==
    /\ pc = "route"
    /\ Switching = {}
    /\ quarantined' = Quarantine
    /\ routes' = KeptRoutes \cup NewRoutes
    /\ held' = [k \in Output |-> AfterReleases(k) + Users(NewRoutes, k)]
    /\ down' = (down \ {k \in HeldNow : AfterReleases(k) = 0})
                 \cup Accepted({k \in Output : AfterReleases(k) = 0 /\ Users(NewRoutes, k) > 0})
    /\ TiltAxes
    /\ Return
    /\ UNCHANGED <<config, mode, global, oskActive, previous, gamepad, mainVars>>

(* The first binding that changes the mode ends the call.                  *)
RouteSwitchMode ==
    /\ pc = "route"
    /\ \E c \in Switching :
          /\ \A d \in Switching : d = c \/ Precedes(c, d)
          /\ SwitchMode(Target(c.binding.action))
    /\ Return
    /\ UNCHANGED <<previous, mainVars>>

-----------------------------------------------------------------------------
(* The other calls of the main loop.                                       *)

IpcModeChange(m) ==
    /\ pc = "idle"
    /\ IF m = mode THEN UNCHANGED <<mapperVars, hostVars>>
                   ELSE SwitchMode(m) /\ UNCHANGED previous
    /\ UNCHANGED <<mainVars, callVars, pc, index>>

(* Request::ModeSet with a configured name.                                *)
IpcModeSet == \E m \in DOMAIN config.modes : IpcModeChange(m)

IpcModeNext == IpcModeChange(NextMode(config, mode))

(* Fault: the reloaded mapper has not seen a report yet.                   *)
IpcConfigApplyForgetting ==
    /\ pc = "idle"
    /\ config' \in Configs
    /\ mode' = ModeNamed(config', ActiveMode.name)
    /\ ReleaseOutputs(config'.modes[mode'].gamepad)
    /\ global' = NoGlobals(config')
    /\ previous' = {}
    /\ UNCHANGED <<mainVars, callVars, pc, index>>

(* Request::ConfigApply: Mapper::reload, then emit().                      *)
IpcConfigApply ==
    /\ pc = "idle"
    /\ config' \in Configs
    /\ mode' = ModeNamed(config', ActiveMode.name)
    /\ ReleaseOutputs(config'.modes[mode'].gamepad)
    /\ global' = NoGlobals(config')
    /\ UNCHANGED <<previous, mainVars, callVars, pc, index>>

(* Request::OskHide of the current session.                                *)
IpcOskHide ==
    /\ pc = "idle"
    /\ keyboardVisible
    /\ Suspend
    /\ keyboardVisible' = FALSE
    /\ recentlyClosed' = FALSE
    /\ UNCHANGED <<previous, connected, callVars, pc, index>>

(* Request::Key of the current session: Outputs::key presses the key,      *)
(* under a shift of its own if asked for and none is held, and releases    *)
(* both.  The host knows no counts: an output that is down stays down when *)
(* it is pressed again, and is up after one release.                       *)
Tapped == tap.key \cup tap.shift
ShiftHeld == held[LeftShift] > 0 \/ held[RightShift] > 0

TapWith(key, shift) ==
    /\ pc = "idle"
    /\ keyboardVisible \/ recentlyClosed
    /\ tap' = [key |-> {key}, shift |-> shift]
    /\ down' = down \cup Tapped'
    /\ pc' = "tap"
    /\ UNCHANGED <<mapperVars, gamepad, hostAxes, mainVars, report, before, reserved,
                   captured, heldOver, index>>

(* Fault: the tap brings its own shift although one is held.               *)
IpcKeyShifting ==
    \E key \in RequestKeys, shift \in BOOLEAN : TapWith(key, {s \in {LeftShift} : shift})
IpcKey ==
    \E key \in RequestKeys, shift \in BOOLEAN :
        TapWith(key, {s \in {LeftShift} : shift /\ ~ShiftHeld})

IpcKeyReleased ==
    /\ pc = "tap"
    /\ down' = down \ Tapped
    /\ tap' = NoTap
    /\ pc' = "idle"
    /\ UNCHANGED <<mapperVars, gamepad, hostAxes, mainVars, report, before, reserved,
                   captured, heldOver, index>>

(* One second has passed since a report closed the keyboard.               *)
GraceEnds ==
    /\ pc = "idle"
    /\ recentlyClosed
    /\ recentlyClosed' = FALSE
    /\ UNCHANGED <<mapperVars, hostVars, connected, keyboardVisible, callVars, pc, index>>

(* DeviceEvent::Disconnected: the gamepad is replaced, then everything is  *)
(* released and the keyboard is hidden.                                    *)
Disconnect ==
    /\ pc = "idle"
    /\ connected
    /\ routes' = {} /\ quarantined' = {} /\ oskActive' = {}
    /\ held' = [k \in Output |-> 0]
    /\ axes' = {}
    /\ hostAxes' = IF gamepad = "none" THEN hostAxes \ axes ELSE {}
    /\ global' = NoGlobals(config)
    /\ previous' = {}
    /\ gamepad' = ActiveMode.gamepad
    /\ down' = KeptBy("none", down) \ HeldNow
    /\ connected' = FALSE /\ keyboardVisible' = FALSE /\ recentlyClosed' = FALSE
    /\ heldOver' = {}
    /\ UNCHANGED <<config, mode, report, before, reserved, captured, tap, pc, index>>

Next ==
    \/ BeginReport
    \/ GlobalQuiet \/ GlobalHold \/ GlobalSwitchMode \/ GlobalToggle \/ GlobalsDone
    \/ OskStep \/ OskDone
    \/ UpdateRoutes \/ RouteSwitchMode
    \/ IpcModeSet \/ IpcModeNext \/ IpcConfigApply \/ IpcOskHide
    \/ IpcKey \/ IpcKeyReleased \/ GraceEnds \/ Disconnect

Spec == Init /\ [][Next]_vars

-----------------------------------------------------------------------------
(* Properties.                                                             *)

(* No report is being processed.                                           *)
BetweenReports == pc \in {"idle", "tap"}

(* The on-screen keyboard is modal: while it is shown no mode binding acts *)
(* and every gamepad axis rests; while it is hidden no OSK binding acts,   *)
(* whichever of the toggle, a hide request, a disconnect, a mode change or *)
(* a reload moved the daemon from one state to the other (main.rs emit,    *)
(* mapper.rs process and release_outputs).                                 *)
KeyboardIsModal ==
    /\ keyboardVisible => routes = {} /\ axes = {} /\ quarantined = {}
    /\ ~keyboardVisible => oskActive = {}

(* Between calls an acting binding is still held down: a route's buttons   *)
(* and its layer's hold are in the last report, and so is the input of an  *)
(* acting OSK binding (mapper.rs route releases, OSK loop, release_all).   *)
ActingIsPressed ==
    BetweenReports =>
        /\ \A r \in routes : r.inputs \cup r.hold \subseteq previous
        /\ oskActive \subseteq previous

(* A mode change or a reload leaves nothing of the old mode behind: every  *)
(* route is one of the active mode's bindings, every acting OSK input is   *)
(* bound, every deflected axis is one the mode maps, and the virtual       *)
(* gamepad is the mode's (mapper.rs switch_mode and reload, main.rs emit). *)
NothingStale ==
    /\ routes \subseteq {RouteOf(c) : c \in Candidates}
    /\ oskActive \subseteq {config.osk[i].input : i \in DOMAIN config.osk}
    /\ axes \subseteq ActiveMode.axes
    /\ gamepad = ActiveMode.gamepad

(* Once a global binding has fired, and until its trigger is released, its *)
(* buttons belong to it: between calls no route uses one of them and no    *)
(* layer is held by one (mapper.rs global loop, route releases and         *)
(* route_binding's `unavailable').                                         *)
GlobalsKeepTheirButtons ==
    BetweenReports =>
        \A i \in DOMAIN global :
            global[i].captured =>
                \A r \in routes : (r.inputs \cup r.hold) \cap config.globals[i].inputs = {}

(* No two routes share a trigger (mapper.rs route_binding): a button press *)
(* starts at most one mode binding, however layers and chords overlap.     *)
OneRoutePerTrigger == \A r, q \in routes : r.trigger = q.trigger => r = q

(* A quarantined trigger is one that is still down and has no route.       *)
QuarantineIsPressed ==
    /\ BetweenReports => quarantined \subseteq previous
    /\ \A r \in routes : r.trigger \notin quarantined

(* The host's devices show what the mapper believes it holds: nothing is   *)
(* stuck down on the host but for the moment of a client's tap, and        *)
(* everything held is down, except the gamepad outputs a mode without a    *)
(* gamepad drops and keys that clients ask for.  It relates every press    *)
(* and release sent since the daemon started, across gamepad replacement   *)
(* (output.rs), to the counts.                                             *)
HostShowsHeld ==
    /\ down \subseteq HeldNow \cup Tapped
    /\ Accepted(HeldNow) \ RequestKeys \subseteq down
    /\ hostAxes = IF gamepad = "none" THEN {} ELSE axes

(* Every output is held at most as often as bindings that hold it are      *)
(* physically pressed: no sequence of overlaps, suspensions, mode changes, *)
(* reloads and reports the globals loop cut short leaves an output pressed *)
(* with nobody pressing it.  With all buttons up, nothing is held.         *)
Holders(k) ==
    Users(routes, k)
      + Cardinality({i \in DOMAIN config.osk :
            config.osk[i].key = k /\ config.osk[i].input \in oskActive})
      + Cardinality({i \in DOMAIN config.globals :
            /\ k \in HeldBy(config.globals[i].action)
            /\ global[i].active
            /\ config.globals[i].inputs \subseteq previous})
HeldHasHolders == BetweenReports => \A k \in Output : held[k] <= Holders(k)

(* An output that the host shows pressed for a binding goes on being shown *)
(* until the mapper lets go of it, over reports, mode changes, reloads and *)
(* requests.  The one exception is a key that a client taps while it is    *)
(* held: the tap lets go of that key, and of nothing else, not even of the *)
(* shift that somebody holds (output.rs key and emit).                     *)
Missing == Accepted(HeldNow) \ down
HeldStaysShown ==
    [][Missing' \ Missing \subseteq IF pc = "tap" THEN tap.key ELSE {}]_vars

(* A press acts once: a mode binding starts, a global binding fires, and   *)
(* either changes the mode, only in the report in which its trigger went   *)
(* down on the controller.  A button held over a mode change, a layer      *)
(* change, a reload, a suspension or a report that was cut short starts    *)
(* nothing until it is pressed anew.  What the controller had down is told *)
(* by the history of its reports, not by what the mapper remembers of them *)
(* (`previous', which every one of these handlers could spoil).            *)
PressActsOnce ==
    [][/\ \A r \in routes' \ routes : r.trigger \notin heldOver
       /\ \A i \in DOMAIN global \cap DOMAIN global' :
             global'[i].captured /\ ~global[i].captured =>
                 config.globals[i].trigger \notin heldOver
       /\ pc = "global" /\ mode' # mode => CurrentGlobal.trigger \notin heldOver
       /\ pc = "route" /\ mode' # mode =>
             \E c \in Candidates : /\ c.binding.trigger \notin heldOver
                                   /\ Target(c.binding.action) = mode']_vars

(* What ties the locals of process() to the state in the middle of a call. *)
CallInv ==
    /\ BetweenReports => /\ index = 1
                         /\ report = {} /\ before = {} /\ reserved = {} /\ captured = {}
                         /\ heldOver = previous
    /\ ~BetweenReports => previous = report /\ heldOver = before
    /\ captured \subseteq reserved
    /\ ~BetweenReports =>
          \A i \in DOMAIN global :
              (pc = "global" => i < index) /\ global[i].captured =>
                  config.globals[i].inputs \subseteq captured
    /\ pc = "osk" =>
          /\ keyboardVisible
          /\ \A i \in DOMAIN config.osk :
                i < index /\ config.osk[i].input \in oskActive => config.osk[i].input \in report
    /\ pc = "route" => ~keyboardVisible

(* The inductive invariant of the proofs: the properties above that need   *)
(* no counting hold together, at every point of a call.  A tap brings its  *)
(* own shift only when that shift is not held.                             *)
TapInv ==
    /\ pc # "tap" => tap = NoTap
    /\ tap.shift \cap HeldNow = {}
IInv ==
    /\ TypeOK /\ CallInv
    /\ KeyboardIsModal /\ ActingIsPressed /\ NothingStale
    /\ GlobalsKeepTheirButtons /\ OneRoutePerTrigger /\ QuarantineIsPressed
    /\ HostShowsHeld /\ TapInv

(* Not true of the code: an output that an acting binding holds is held.   *)
(* The test lifecycle_releases_in_reverse_order_and_reference_counts names *)
(* the counts as what keeps a shared output down; see README, findings.    *)
ActingHolds ==
    BetweenReports =>
        /\ \A r \in routes : \A k \in r.held : held[k] > 0
        /\ \A i \in DOMAIN config.osk :
              config.osk[i].input \in oskActive => held[config.osk[i].key] > 0
=============================================================================
