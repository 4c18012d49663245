---------------------------- MODULE MapperConfig ----------------------------
(***************************************************************************)
(* The parsed configuration (core/src/config.rs): modes, hold layers,      *)
(* bindings, global bindings and on-screen-keyboard (OSK) bindings, with   *)
(* the conditions Config::parse enforces.  Text, haptic strengths and the  *)
(* numeric axis options are left out: a mode's axis mappings are the set   *)
(* of gamepad axes they can deflect.                                       *)
(***************************************************************************)
EXTENDS Integers, Sequences, FiniteSets

CONSTANTS
    Button,         \* the physical buttons of the controller
    KeyOutput, MouseOutput, GamepadOutput,  \* what a binding can hold down
    Axis,           \* the virtual gamepad's axes
    ModeName,       \* the names a configuration can give its modes
    ReservedInput,  \* pad touches and clicks: the keyboard's own pointing inputs
    Configs         \* the configurations the daemon is started with or sent

ASSUME ConstantsAssumption ==
    /\ IsFiniteSet(Button)
    /\ KeyOutput \cap GamepadOutput = {}
    /\ MouseOutput \cap GamepadOutput = {}
    /\ ReservedInput \subseteq Button

Output == KeyOutput \cup MouseOutput \cup GamepadOutput
Gamepad == {"none", "xbox", "dualshock4"}

(* Action and GlobalAction: hold an output while the binding is active,    *)
(* change mode, or (global bindings only) toggle the keyboard.             *)
Action ==
    [kind: {"hold"}, out: Output]
        \cup [kind: {"modeSet"}, mode: Nat \ {0}] \cup [kind: {"modeNext"}]
GlobalAction == Action \cup [kind: {"toggle"}]

(* HeldOutput::from_action, as the set of zero or one outputs.             *)
HeldBy(action) == IF action.kind = "hold" THEN {action.out} ELSE {}

Binding == [inputs: SUBSET Button, trigger: Button, action: Action]
GlobalBinding == [inputs: SUBSET Button, trigger: Button, action: GlobalAction]
OskBinding == [input: Button \ ReservedInput, key: KeyOutput]
Layer == [hold: Button, bindings: Seq(Binding)]
Mode == [name: ModeName, gamepad: Gamepad, axes: SUBSET Axis,
         bindings: Seq(Binding), layers: Seq(Layer)]
Config == [default: Nat \ {0}, modes: Seq(Mode),
           globals: Seq(GlobalBinding), osk: Seq(OskBinding)]

Prerequisites(binding) == binding.inputs \ {binding.trigger}
IsChord(binding) == Prerequisites(binding) # {}

(* Config::next_mode: modes are numbered from 1 here, from 0 in the code.  *)
NextMode(cfg, mode) == (mode % Len(cfg.modes)) + 1

(* Config::mode_id falling back on the default, as Mapper::reload uses it. *)
ModeNamed(cfg, name) ==
    IF \E m \in DOMAIN cfg.modes : cfg.modes[m].name = name
      THEN CHOOSE m \in DOMAIN cfg.modes : cfg.modes[m].name = name
      ELSE cfg.default

-----------------------------------------------------------------------------
(* What Config::from_document, parse_mode and parse_binding refuse.        *)

WellFormed(binding, modeCount) ==
    /\ binding.trigger \in binding.inputs
    /\ binding.action.kind = "modeSet" => binding.action.mode \in 1..modeCount

NoDuplicateInputs(bindings) ==
    \A i, j \in DOMAIN bindings :
        i # j => <<bindings[i].inputs, bindings[i].trigger>>
                    # <<bindings[j].inputs, bindings[j].trigger>>

AllWellFormed(bindings, modeCount) ==
    /\ \A i \in DOMAIN bindings : WellFormed(bindings[i], modeCount)
    /\ NoDuplicateInputs(bindings)

ValidMode(mode, modeCount) ==
    /\ AllWellFormed(mode.bindings, modeCount)
    /\ \A l \in DOMAIN mode.layers :
          /\ AllWellFormed(mode.layers[l].bindings, modeCount)
          /\ \A i \in DOMAIN mode.layers[l].bindings :
                mode.layers[l].hold \notin mode.layers[l].bindings[i].inputs
          /\ \A i \in DOMAIN mode.bindings :
                mode.layers[l].hold \notin mode.bindings[i].inputs
          /\ \A k \in DOMAIN mode.layers :
                mode.layers[k].hold = mode.layers[l].hold => k = l

ValidConfig(cfg) ==
    /\ cfg \in Config
    /\ cfg.default \in 1..Len(cfg.modes)
    /\ \A m, n \in DOMAIN cfg.modes : cfg.modes[m].name = cfg.modes[n].name => m = n
    /\ \A m \in DOMAIN cfg.modes : ValidMode(cfg.modes[m], Len(cfg.modes))
    /\ AllWellFormed(cfg.globals, Len(cfg.modes))
    /\ \A i, j \in DOMAIN cfg.osk : cfg.osk[i].input = cfg.osk[j].input => i = j

ASSUME ConfigsAssumption == \A cfg \in Configs : ValidConfig(cfg)
=============================================================================
