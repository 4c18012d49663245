---------------------------- MODULE MapperProofs ----------------------------
(* Proofs about Mapper, for every valid set of configurations.             *)
EXTENDS Mapper, FiniteSetTheorems, TLAPS

-----------------------------------------------------------------------------
(* Facts about configurations.                                             *)

(* Config::next_mode names a mode of the configuration.                    *)
LEMMA NextModeInRange ==
    ASSUME NEW n \in Nat \ {0}, NEW m \in 1..n
    PROVE  (m % n) + 1 \in 1..n
  OBVIOUS

(* Every configuration has the shape of the record type.                   *)
LEMMA ConfigTyped ==
    ASSUME NEW cfg \in Configs
    PROVE  /\ ValidConfig(cfg)
           /\ cfg.default \in 1..Len(cfg.modes)
           /\ Len(cfg.modes) \in Nat \ {0}
           /\ \A m \in 1..Len(cfg.modes) : cfg.modes[m] \in Mode
           /\ Len(cfg.globals) \in Nat
           /\ \A i \in 1..Len(cfg.globals) : cfg.globals[i] \in GlobalBinding
           /\ Len(cfg.osk) \in Nat
           /\ \A i \in 1..Len(cfg.osk) : cfg.osk[i] \in OskBinding
           /\ DOMAIN cfg.modes = 1..Len(cfg.modes)
           /\ DOMAIN cfg.globals = 1..Len(cfg.globals)
           /\ DOMAIN cfg.osk = 1..Len(cfg.osk)
  <1>1. ValidConfig(cfg)
    BY ConfigsAssumption
  <1>2. cfg \in Config
    BY <1>1 DEF ValidConfig
  <1>3. /\ cfg.modes \in Seq(Mode)
        /\ cfg.globals \in Seq(GlobalBinding)
        /\ cfg.osk \in Seq(OskBinding)
        /\ cfg.default \in 1..Len(cfg.modes)
    BY <1>1, <1>2 DEF Config, ValidConfig
  <1> QED
    BY <1>1, <1>3

(* A reload lands on a mode of the new configuration.                      *)
LEMMA ModeNamedInRange ==
    ASSUME NEW cfg \in Configs, NEW name
    PROVE  ModeNamed(cfg, name) \in 1..Len(cfg.modes)
  BY ConfigTyped DEF ModeNamed

(* The target of a configured action is a configured mode.                 *)
LEMMA TargetInRange ==
    ASSUME TypeOK, NEW b, b.action.kind = "modeSet" => b.action.mode \in 1..Len(config.modes)
    PROVE  Target(b.action) \in 1..Len(config.modes)
  <1>1. config \in Configs /\ mode \in 1..Len(config.modes)
    BY DEF TypeOK
  <1>2. NextMode(config, mode) \in 1..Len(config.modes)
    BY <1>1, ConfigTyped, NextModeInRange DEF NextMode
  <1> QED
    BY <1>1, <1>2 DEF Target

(* The actions of the global bindings and of the mode's bindings name      *)
(* configured modes.                                                       *)
LEMMA GlobalTarget ==
    ASSUME TypeOK, index \in 1..Len(config.globals)
    PROVE  Target(CurrentGlobal.action) \in 1..Len(config.modes)
  <1>1. WellFormed(CurrentGlobal, Len(config.modes))
    BY ConfigTyped DEF TypeOK, ValidConfig, AllWellFormed, CurrentGlobal
  <1> QED
    BY <1>1, TargetInRange DEF WellFormed

(* The bindings of the mode and of its layers are bindings, each layer's   *)
(* hold is a button, and a binding's trigger is one of its inputs.         *)
LEMMA CandidatesTyped ==
    ASSUME TypeOK, NEW c \in Candidates
    PROVE  /\ c.layer \in 0..Len(ActiveMode.layers)
           /\ c.binding \in Binding
           /\ WellFormed(c.binding, Len(config.modes))
           /\ HoldOf(c.layer) \subseteq Button
  <1>1. /\ ActiveMode \in Mode
        /\ ValidMode(ActiveMode, Len(config.modes))
    BY ConfigTyped DEF TypeOK, ActiveMode, ValidConfig
  <1>2. PICK l \in 0..Len(ActiveMode.layers) : \E i \in DOMAIN BindingsOf(l) :
            c = [layer |-> l, position |-> i, binding |-> BindingsOf(l)[i]]
    BY DEF Candidates
  <1>3. ActiveMode.bindings \in Seq(Binding) /\ ActiveMode.layers \in Seq(Layer)
    BY <1>1 DEF Mode
  <1>4. CASE l = 0
    BY <1>1, <1>2, <1>3, <1>4 DEF BindingsOf, HoldOf, ValidMode, AllWellFormed
  <1>5. CASE l # 0
    <2>1. l \in DOMAIN ActiveMode.layers
      BY <1>2, <1>3, <1>5
    <2>2. ActiveMode.layers[l] \in Layer
      BY <1>3, <2>1
    <2>3. ActiveMode.layers[l].bindings \in Seq(Binding) /\ ActiveMode.layers[l].hold \in Button
      BY <2>2 DEF Layer
    <2>4. AllWellFormed(ActiveMode.layers[l].bindings, Len(config.modes))
      BY <1>1, <2>1 DEF ValidMode
    <2> QED
      BY <1>2, <1>5, <2>3, <2>4 DEF BindingsOf, HoldOf, AllWellFormed
  <1> QED
    BY <1>4, <1>5

(* Counting the users of an output among routes gives a natural number.    *)
LEMMA UsersTyped ==
    ASSUME NEW rs, \A r \in rs : r.trigger \in Button, NEW k
    PROVE  Users(rs, k) \in Nat
  <1>1. {r.trigger : r \in {q \in rs : k \in q.held}} \subseteq Button
    OBVIOUS
  <1>2. IsFiniteSet({r.trigger : r \in {q \in rs : k \in q.held}})
    BY <1>1, ConstantsAssumption, FS_Subset
  <1> QED
    BY <1>2, FS_CardinalityType DEF Users

(* The routes a report starts are routes.                                  *)
LEMMA NewRoutesTyped ==
    ASSUME TypeOK
    PROVE  NewRoutes \subseteq Route
  <1> SUFFICES ASSUME NEW c \in Fired
               PROVE  RouteOf(c) \in Route
    BY DEF NewRoutes
  <1>1. c \in Candidates
    BY DEF Fired
  <1>2. c.binding \in Binding /\ HoldOf(c.layer) \subseteq Button
    BY <1>1, CandidatesTyped
  <1>3. HeldBy(c.binding.action) \subseteq Output
    BY <1>2 DEF Binding, Action, HeldBy
  <1> QED
    BY <1>2, <1>3 DEF RouteOf, Route, Binding

-----------------------------------------------------------------------------
(* Type correctness.                                                       *)

(* Releasing everything keeps the types of what it touches.                *)
LEMMA ReleaseTyped ==
    ASSUME TypeOK, NEW kind \in Gamepad, ReleaseOutputs(kind)
    PROVE  /\ routes' \subseteq Route /\ quarantined' \subseteq Button /\ oskActive' \subseteq Button
           /\ held' \in [Output -> Nat] /\ axes' \subseteq Axis /\ hostAxes' \subseteq Axis
           /\ gamepad' \in Gamepad /\ down' \subseteq Output
  BY DEF ReleaseOutputs, TypeOK, KeptBy

(* Idle states for every global binding are states of global bindings.     *)
LEMMA NoGlobalsTyped ==
    ASSUME NEW cfg
    PROVE  NoGlobals(cfg) \in [1..Len(cfg.globals) -> [active: BOOLEAN, captured: BOOLEAN]]
  BY DEF NoGlobals, Idle

(* A mode change keeps the types of what it touches.                       *)
LEMMA SwitchTyped ==
    ASSUME TypeOK, NEW m \in 1..Len(config.modes), SwitchMode(m)
    PROVE  /\ routes' \subseteq Route /\ quarantined' \subseteq Button /\ oskActive' \subseteq Button
           /\ held' \in [Output -> Nat] /\ axes' \subseteq Axis /\ hostAxes' \subseteq Axis
           /\ gamepad' \in Gamepad /\ down' \subseteq Output
           /\ config' \in Configs /\ mode' \in 1..Len(config'.modes)
           /\ global' \in [1..Len(config'.globals) -> [active: BOOLEAN, captured: BOOLEAN]]
  <1>1. config.modes[m].gamepad \in Gamepad
    BY ConfigTyped DEF TypeOK, Mode
  <1> QED
    BY <1>1, ReleaseTyped, NoGlobalsTyped DEF SwitchMode, TypeOK

(* Pressing or releasing one output keeps the types of counts and host.    *)
LEMMA SetHeldTyped ==
    ASSUME TypeOK, NEW k \in Output, NEW active \in BOOLEAN, SetHeld(k, active)
    PROVE  held' \in [Output -> Nat] /\ down' \subseteq Output
  <1>1. CASE active
    BY <1>1 DEF SetHeld, TypeOK, Accepted
  <1>2. CASE ~active
    BY <1>2 DEF SetHeld, TypeOK
  <1> QED
    BY <1>1, <1>2

(* The report's buttons never leave the set of buttons.                    *)
LEMMA ReservesTyped ==
    ASSUME TypeOK, index \in 1..Len(config.globals)
    PROVE  /\ Reserves \subseteq Button
           /\ CurrentGlobal.inputs \subseteq Button
           /\ ActiveNow \in BOOLEAN
           /\ CapturedNow \in BOOLEAN
           /\ HeldBy(CurrentGlobal.action) \subseteq Output
  <1>1. CurrentGlobal \in GlobalBinding
    BY ConfigTyped DEF TypeOK, CurrentGlobal
  <1>2. global[index] \in [active: BOOLEAN, captured: BOOLEAN]
    BY DEF TypeOK
  <1>3. Reserves \subseteq Button /\ CurrentGlobal.inputs \subseteq Button
    BY <1>1 DEF GlobalBinding, Reserves, Prerequisites
  <1>4. ActiveNow \in BOOLEAN /\ CapturedNow \in BOOLEAN
    BY <1>2 DEF ActiveNow, CapturedNow, AllActive, Pressed
  <1>5. HeldBy(CurrentGlobal.action) \subseteq Output
    BY <1>1 DEF GlobalBinding, GlobalAction, Action, HeldBy
  <1> QED
    BY <1>3, <1>4, <1>5

(* One iteration over the globals keeps the type of their states.          *)
LEMMA UpdateGlobalTyped ==
    ASSUME TypeOK, UpdateGlobal
    PROVE  /\ index \in 1..Len(config.globals)
           /\ global' \in [1..Len(config.globals) -> [active: BOOLEAN, captured: BOOLEAN]]
  <1>1. index \in 1..Len(config.globals)
    BY ConfigTyped DEF UpdateGlobal, TypeOK
  <1> QED
    BY <1>1, ReservesTyped DEF UpdateGlobal, TypeOK

(* Every step keeps the types, one action at a time.                       *)
LEMMA TypeStep == TypeOK /\ [Next]_vars => TypeOK'
  <1> SUFFICES ASSUME TypeOK, [Next]_vars
               PROVE  TypeOK'
    OBVIOUS
  <1> USE DEF mapperVars, hostVars, mainVars, callVars
  <1>1. CASE BeginReport
    BY <1>1 DEF BeginReport, TypeOK
  <1>2. CASE GlobalQuiet
    <2>1. UpdateGlobal /\ NextGlobal /\ UNCHANGED <<held, down>>
      BY <1>2 DEF GlobalQuiet
    <2> QED
      BY <2>1, UpdateGlobalTyped, ReservesTyped DEF NextGlobal, TypeOK
  <1>3. CASE GlobalHold
    <2>1. UpdateGlobal /\ NextGlobal
      BY <1>3 DEF GlobalHold
    <2>2. PICK k \in HeldBy(CurrentGlobal.action) : SetHeld(k, ActiveNow)
      BY <1>3 DEF GlobalHold
    <2>3. held' \in [Output -> Nat] /\ down' \subseteq Output
      BY <2>1, <2>2, UpdateGlobalTyped, ReservesTyped, SetHeldTyped
    <2> QED
      BY <2>1, <2>3, UpdateGlobalTyped, ReservesTyped DEF NextGlobal, TypeOK
  <1>4. CASE GlobalSwitchMode
    <2>1. index \in 1..Len(config.globals)
      BY <1>4, ConfigTyped DEF GlobalSwitchMode, TypeOK
    <2>2. Target(CurrentGlobal.action) \in 1..Len(config.modes)
      BY <2>1, GlobalTarget
    <2> QED
      BY <1>4, <2>2, SwitchTyped DEF GlobalSwitchMode, Return, TypeOK
  <1>5. CASE GlobalToggle
    <2>1. UpdateGlobal /\ ReleaseOutputs(gamepad)
      BY <1>5 DEF GlobalToggle
    <2>2. gamepad \in Gamepad
      BY DEF TypeOK
    <2> QED
      BY <1>5, <2>1, <2>2, UpdateGlobalTyped, ReleaseTyped DEF GlobalToggle, Return, TypeOK
  <1>6. CASE GlobalsDone
    BY <1>6 DEF GlobalsDone, TypeOK
  <1>7. CASE OskStep
    <2>1. index \in 1..Len(config.osk) /\ config.osk[index] \in OskBinding
      BY <1>7, ConfigTyped DEF OskStep, TypeOK
    <2>2. config.osk[index].input \in Button /\ config.osk[index].key \in Output
      BY <2>1 DEF OskBinding, Output
    <2>3. oskActive' \subseteq Button /\ held' \in [Output -> Nat] /\ down' \subseteq Output
      BY <1>7, <2>2, SetHeldTyped DEF OskStep, OskInput, TypeOK
    <2> QED
      BY <1>7, <2>3 DEF OskStep, TypeOK
  <1>8. CASE OskDone
    BY <1>8 DEF OskDone, Return, TypeOK
  <1>9. CASE UpdateRoutes
    <2>1. \A k : Users(LostRoutes, k) \in Nat /\ Users(NewRoutes, k) \in Nat
      BY UsersTyped, NewRoutesTyped DEF LostRoutes, TypeOK, Route
    <2>2. held' \in [Output -> Nat]
      BY <1>9, <2>1 DEF UpdateRoutes, TiltAxes, AfterReleases, TypeOK
    <2>3. down' \subseteq Output
      BY <1>9 DEF UpdateRoutes, TiltAxes, Accepted, TypeOK
    <2>4. routes' \subseteq Route
      BY <1>9, NewRoutesTyped DEF UpdateRoutes, TiltAxes, KeptRoutes, TypeOK
    <2>5. ActiveMode.axes \subseteq Axis
      BY ConfigTyped DEF TypeOK, ActiveMode, Mode
    <2>6. axes' \subseteq Axis /\ hostAxes' \subseteq Axis
      BY <1>9, <2>5 DEF UpdateRoutes, TiltAxes, TypeOK
    <2>7. quarantined' \subseteq Button
      BY <1>9 DEF UpdateRoutes, TiltAxes, Quarantine, TypeOK
    <2> QED
      BY <1>9, <2>2, <2>3, <2>4, <2>6, <2>7 DEF UpdateRoutes, TiltAxes, Return, TypeOK
  <1>10. CASE RouteSwitchMode
    <2>1. PICK c \in Switching : SwitchMode(Target(c.binding.action))
      BY <1>10 DEF RouteSwitchMode
    <2>2. WellFormed(c.binding, Len(config.modes))
      BY <2>1, CandidatesTyped DEF Switching, Fired
    <2>3. Target(c.binding.action) \in 1..Len(config.modes)
      BY <2>2, TargetInRange DEF WellFormed
    <2> QED
      BY <1>10, <2>1, <2>3, SwitchTyped DEF RouteSwitchMode, Return, TypeOK
  <1>11. ASSUME NEW m \in 1..Len(config.modes), IpcModeChange(m)
         PROVE  TypeOK'
    BY <1>11, SwitchTyped DEF IpcModeChange, TypeOK
  <1>12. CASE IpcModeSet
    BY <1>11, <1>12, ConfigTyped DEF IpcModeSet, TypeOK
  <1>13. CASE IpcModeNext
    <2>1. NextMode(config, mode) \in 1..Len(config.modes)
      BY ConfigTyped, NextModeInRange DEF NextMode, TypeOK
    <2> QED
      BY <1>11, <1>13, <2>1 DEF IpcModeNext
  <1>14. CASE IpcConfigApply
    <2>1. config' \in Configs /\ mode' \in 1..Len(config'.modes)
      BY <1>14, ModeNamedInRange DEF IpcConfigApply
    <2>2. config'.modes[mode'].gamepad \in Gamepad
      BY <2>1, ConfigTyped DEF Mode
    <2> QED
      BY <1>14, <2>1, <2>2, ReleaseTyped, NoGlobalsTyped DEF IpcConfigApply, TypeOK
  <1>15. CASE IpcOskHide
    <2>1. gamepad \in Gamepad
      BY DEF TypeOK
    <2> QED
      BY <1>15, <2>1, ReleaseTyped DEF IpcOskHide, Suspend, TypeOK
  <1>16. CASE IpcKey \/ IpcKeyReleased
    <2>1. RequestKeys \subseteq Output /\ LeftShift \in Output
      BY RequestAssumption DEF Output
    <2>2. CASE IpcKey
      <3>1. PICK key \in RequestKeys, shift \in SUBSET {LeftShift} : TapWith(key, shift)
        BY <2>2 DEF IpcKey
      <3>2. tap' \in Tap /\ down' \subseteq Output
        BY <2>1, <3>1 DEF TapWith, Tap, Tapped, TypeOK
      <3> QED
        BY <3>1, <3>2 DEF TapWith, TypeOK
    <2>3. CASE IpcKeyReleased
      BY <2>3 DEF IpcKeyReleased, NoTap, Tap, TypeOK
    <2> QED
      BY <1>16, <2>2, <2>3
  <1>17. CASE GraceEnds
    BY <1>17 DEF GraceEnds, TypeOK
  <1>18. CASE Disconnect
    <2>1. ActiveMode.gamepad \in Gamepad
      BY ConfigTyped DEF TypeOK, ActiveMode, Mode
    <2> QED
      BY <1>18, <2>1, NoGlobalsTyped DEF Disconnect, KeptBy, TypeOK
  <1>19. CASE UNCHANGED vars
    BY <1>19 DEF vars, TypeOK
  <1> QED
    BY <1>1, <1>2, <1>3, <1>4, <1>5, <1>6, <1>7, <1>8, <1>9, <1>10, <1>12, <1>13, <1>14,
       <1>15, <1>16, <1>17, <1>18, <1>19 DEF Next

(* The daemon starts with every variable in its type.                      *)
LEMMA TypeInit == Init => TypeOK
  <1> SUFFICES ASSUME Init
               PROVE  TypeOK
    OBVIOUS
  <1>1. mode \in 1..Len(config.modes) /\ config.modes[mode] \in Mode
    BY ConfigTyped DEF Init
  <1>2. global \in [1..Len(config.globals) -> [active: BOOLEAN, captured: BOOLEAN]]
    BY NoGlobalsTyped DEF Init
  <1>3. config.modes[mode].gamepad \in Gamepad
    BY <1>1 DEF Mode
  <1>4. gamepad \in Gamepad
    BY <1>3 DEF Init, ActiveMode
  <1> QED
    <2>1. held \in [Output -> Nat]
      BY DEF Init
    <2>2. config \in Configs /\ mode \in 1..Len(config.modes)
      BY <1>1 DEF Init
    <2>3. routes \subseteq Route /\ down \subseteq Output /\ index \in Nat \ {0}
      BY DEF Init
    <2>4. pc \in {"idle", "global", "osk", "route", "tap"} /\ tap \in Tap /\ heldOver \subseteq Button
      BY DEF Init, Tap, NoTap
    <2> QED
      BY <1>2, <1>4, <2>1, <2>2, <2>3, <2>4 DEF Init, TypeOK

(* Every variable keeps its type: counts never go below zero, the active   *)
(* mode exists and there is a state for each global binding, across every  *)
(* reload and mode change.                                                 *)
THEOREM TypeCorrect == Spec => []TypeOK
  BY TypeInit, TypeStep, PTL DEF Spec

-----------------------------------------------------------------------------
(* The host's devices show what the mapper holds.                          *)

(* One press or release of an output keeps the host in step.               *)
LEMMA SetHeldShown ==
    ASSUME TypeOK, HostShowsHeld, NEW k \in Output, NEW active \in BOOLEAN,
           SetHeld(k, active), UNCHANGED <<gamepad, axes, hostAxes, tap>>
    PROVE  HostShowsHeld'
  <1>1. held \in [Output -> Nat]
    BY DEF TypeOK
  <1>2. CASE active
    <2>1. HeldNow' = HeldNow \cup {k}
      BY <1>1, <1>2 DEF SetHeld, HeldNow
    <2>2. down' \subseteq HeldNow' \cup Tapped'
      BY <1>2, <2>1 DEF SetHeld, HostShowsHeld, Accepted, Tapped
    <2>3. (Accepted(HeldNow) \ RequestKeys)' \subseteq down'
      BY <1>1, <1>2, <2>1 DEF SetHeld, HostShowsHeld, Accepted, HeldNow
    <2> QED
      BY <2>2, <2>3 DEF HostShowsHeld
  <1>3. CASE ~active
    <2>1. HeldNow' = IF held[k] = 1 THEN HeldNow \ {k} ELSE HeldNow
      BY <1>1, <1>3 DEF SetHeld, HeldNow
    <2>2. down' \subseteq HeldNow' \cup Tapped'
      BY <1>3, <2>1 DEF SetHeld, HostShowsHeld, Tapped
    <2>3. (Accepted(HeldNow) \ RequestKeys)' \subseteq down'
      BY <1>3, <2>1 DEF SetHeld, HostShowsHeld, Accepted
    <2> QED
      BY <2>2, <2>3 DEF HostShowsHeld
  <1> QED
    BY <1>2, <1>3

(* Once everything is released the host shows nothing pressed.             *)
LEMMA ReleaseShown ==
    ASSUME HostShowsHeld, NEW kind, ReleaseOutputs(kind), UNCHANGED tap
    PROVE  HostShowsHeld'
  <1>1. HeldNow' = {}
    BY DEF ReleaseOutputs, HeldNow
  <1>2. down' \subseteq Tapped'
    BY DEF ReleaseOutputs, HostShowsHeld, KeptBy, Tapped
  <1>3. axes' = {} /\ hostAxes' = {}
    BY DEF ReleaseOutputs, HostShowsHeld
  <1> QED
    BY <1>1, <1>2, <1>3 DEF HostShowsHeld, Accepted

(* The releases and presses of one report's mode bindings add up to the    *)
(* new counts.                                                             *)
LEMMA UpdateRoutesShown ==
    ASSUME TypeOK, HostShowsHeld, UpdateRoutes
    PROVE  HostShowsHeld'
  <1>1. \A k : Users(LostRoutes, k) \in Nat /\ Users(NewRoutes, k) \in Nat
    BY UsersTyped, NewRoutesTyped DEF LostRoutes, TypeOK, Route
  <1>2. \A k \in Output : /\ AfterReleases(k) \in Nat
                          /\ AfterReleases(k) > 0 => held[k] > 0
    BY <1>1 DEF AfterReleases, TypeOK
  <1>3. \A k \in Output : held'[k] = AfterReleases(k) + Users(NewRoutes, k)
    BY DEF UpdateRoutes, TiltAxes
  <1>4. HeldNow' = {k \in Output : AfterReleases(k) > 0 \/ Users(NewRoutes, k) > 0}
    BY <1>1, <1>2, <1>3 DEF HeldNow
  <1> DEFINE released == {k \in HeldNow : AfterReleases(k) = 0}
             pressed == {k \in Output : AfterReleases(k) = 0 /\ Users(NewRoutes, k) > 0}
  <1>5. down' = (down \ released) \cup Accepted(pressed) /\ gamepad' = gamepad
    BY DEF UpdateRoutes, TiltAxes
  <1>6. HeldNow' = (HeldNow \ released) \cup pressed
    BY <1>1, <1>2, <1>4 DEF HeldNow
  <1> HIDE DEF released, pressed
  <1>7. down' \subseteq HeldNow' \cup Tapped'
    <2>1. tap' = tap
      BY DEF UpdateRoutes, TiltAxes, Return
    <2> QED BY <1>5, <1>6, <2>1 DEF HostShowsHeld, Accepted, Tapped
  <1>8. (Accepted(HeldNow) \ RequestKeys)' \subseteq down'
    BY <1>5, <1>6 DEF HostShowsHeld, Accepted
  <1>9. hostAxes' = IF gamepad' = "none" THEN {} ELSE axes'
    BY DEF UpdateRoutes, TiltAxes, HostShowsHeld
  <1> QED
    BY <1>7, <1>8, <1>9 DEF HostShowsHeld

(* A client's tap never brings a shift that somebody holds: between calls  *)
(* there is no tap, and within one nothing is pressed by a binding.        *)
LEMMA TapStep == TypeOK /\ TapInv /\ [Next]_vars => TapInv'
  <1> SUFFICES ASSUME TypeOK, TapInv, [Next]_vars
               PROVE  TapInv'
    OBVIOUS
  <1> USE DEF mapperVars, hostVars, mainVars, callVars
  <1>1. ASSUME tap' = NoTap
        PROVE  TapInv'
    BY <1>1 DEF TapInv, NoTap
  <1>2. ASSUME pc # "tap", tap' = tap
        PROVE  TapInv'
    BY <1>1, <1>2 DEF TapInv
  <1>3. CASE IpcKey
    <2>1. PICK key \in RequestKeys, shift \in BOOLEAN :
              TapWith(key, {s \in {LeftShift} : shift /\ ~ShiftHeld})
      BY <1>3 DEF IpcKey
    <2>2. /\ tap' = [key |-> {key}, shift |-> {s \in {LeftShift} : shift /\ ~ShiftHeld}]
          /\ pc' = "tap" /\ held' = held
      BY <2>1 DEF TapWith
    <2>3. HeldNow' = HeldNow
      BY <2>2 DEF HeldNow
    <2>4. tap'.shift \cap HeldNow = {}
      BY <2>2 DEF ShiftHeld, HeldNow
    <2> QED
      BY <2>2, <2>3, <2>4 DEF TapInv
  <1>4. CASE IpcKeyReleased
    BY <1>1, <1>4 DEF IpcKeyReleased
  <1>5. CASE BeginReport \/ GlobalQuiet \/ GlobalHold \/ GlobalsDone \/ OskStep \/ OskDone
               \/ UpdateRoutes \/ GraceEnds
    BY <1>2, <1>5 DEF BeginReport, GlobalQuiet, GlobalHold, UpdateGlobal, NextGlobal, GlobalsDone,
                      OskStep, OskDone, UpdateRoutes, TiltAxes, GraceEnds, Return
  <1>6. CASE GlobalSwitchMode \/ GlobalToggle \/ RouteSwitchMode
    BY <1>2, <1>6 DEF GlobalSwitchMode, GlobalToggle, UpdateGlobal, RouteSwitchMode, Return
  <1>7. ASSUME NEW m, IpcModeChange(m)
        PROVE  TapInv'
    BY <1>2, <1>7 DEF IpcModeChange
  <1>8. CASE IpcConfigApply \/ IpcOskHide \/ Disconnect
    BY <1>2, <1>8 DEF IpcConfigApply, IpcOskHide, Disconnect
  <1>9. CASE UNCHANGED vars
    BY <1>9 DEF vars, TapInv, HeldNow
  <1> QED
    BY <1>3, <1>4, <1>5, <1>6, <1>7, <1>8, <1>9 DEF Next, IpcModeSet, IpcModeNext

(* Every step keeps the host in step with the counts.                      *)
LEMMA HostStep == TypeOK /\ HostShowsHeld /\ TapInv /\ [Next]_vars => HostShowsHeld'
  <1> SUFFICES ASSUME TypeOK, HostShowsHeld, TapInv, [Next]_vars
               PROVE  HostShowsHeld'
    OBVIOUS
  <1> USE DEF mapperVars, hostVars, mainVars, callVars
  <1>1. ASSUME UNCHANGED <<held, axes, hostVars, tap>>
        PROVE  HostShowsHeld'
    BY <1>1 DEF HostShowsHeld, HeldNow, Accepted, Tapped
  <1>2. CASE GlobalHold
    <2>1. UpdateGlobal /\ NextGlobal
      BY <1>2 DEF GlobalHold
    <2>2. PICK k \in HeldBy(CurrentGlobal.action) : SetHeld(k, ActiveNow)
      BY <1>2 DEF GlobalHold
    <2>3. k \in Output /\ ActiveNow \in BOOLEAN
      BY <2>1, <2>2, UpdateGlobalTyped, ReservesTyped
    <2>4. UNCHANGED <<gamepad, axes, hostAxes, tap>>
      BY <2>1 DEF NextGlobal
    <2> QED
      BY <2>2, <2>3, <2>4, SetHeldShown
  <1>3. CASE OskStep
    <2>1. index \in 1..Len(config.osk) /\ config.osk[index] \in OskBinding
      BY <1>3, ConfigTyped DEF OskStep, TypeOK
    <2>2. config.osk[index].key \in Output
      BY <2>1 DEF OskBinding, Output
    <2>3. UNCHANGED <<gamepad, axes, hostAxes, tap>>
      BY <1>3 DEF OskStep
    <2>4. CASE UNCHANGED <<held, down>>
      BY <1>1, <2>3, <2>4
    <2> QED
      BY <1>3, <2>2, <2>3, <2>4, SetHeldShown DEF OskStep
  <1>4. CASE GlobalSwitchMode \/ RouteSwitchMode
    BY <1>4, ReleaseShown DEF GlobalSwitchMode, RouteSwitchMode, SwitchMode, Return
  <1>5. CASE GlobalToggle \/ IpcOskHide
    BY <1>5, ReleaseShown DEF GlobalToggle, IpcOskHide, Suspend, Return
  <1>6. CASE UpdateRoutes
    BY <1>6, UpdateRoutesShown
  <1>7. ASSUME NEW m, IpcModeChange(m)
        PROVE  HostShowsHeld'
    BY <1>1, <1>7, ReleaseShown DEF IpcModeChange, SwitchMode
  <1>8. CASE IpcConfigApply
    BY <1>8, ReleaseShown DEF IpcConfigApply
  <1>9. CASE IpcKey \/ IpcKeyReleased
    <2>1. HeldNow' = HeldNow /\ Accepted(HeldNow)' = Accepted(HeldNow) /\ axes' = axes
          /\ hostAxes' = hostAxes /\ gamepad' = gamepad
      BY <1>9 DEF IpcKey, TapWith, IpcKeyReleased, HeldNow, Accepted
    <2>2. CASE IpcKey
      <3>1. tap = NoTap /\ down' = down \cup Tapped'
        BY <2>2 DEF IpcKey, TapWith, TapInv
      <3>2. Tapped = {}
        BY <3>1 DEF Tapped, NoTap
      <3> QED
        BY <2>1, <3>1, <3>2 DEF HostShowsHeld
    <2>3. CASE IpcKeyReleased
      <3>1. down' = down \ Tapped /\ tap' = NoTap
        BY <2>3 DEF IpcKeyReleased
      <3>2. Tapped' = {}
        BY <3>1 DEF Tapped, NoTap
      <3>3. tap.key \subseteq RequestKeys /\ Accepted(HeldNow) \subseteq HeldNow
        BY DEF TypeOK, Tap, Accepted
      <3>4. Accepted(HeldNow) \ RequestKeys \subseteq down'
        BY <3>1, <3>3 DEF HostShowsHeld, TapInv, Tapped
      <3> QED
        BY <2>1, <3>1, <3>2, <3>4 DEF HostShowsHeld
    <2> QED
      BY <1>9, <2>2, <2>3
  <1>10. CASE Disconnect
    <2>1. HeldNow' = {} /\ axes' = {}
      BY <1>10 DEF Disconnect, HeldNow
    <2>2. down' \subseteq Tapped' /\ hostAxes' = {}
      BY <1>10 DEF Disconnect, HostShowsHeld, KeptBy, Tapped
    <2> QED
      BY <2>1, <2>2 DEF HostShowsHeld, Accepted
  <1>11. CASE BeginReport \/ GlobalsDone \/ OskDone \/ GraceEnds
    BY <1>1, <1>11 DEF BeginReport, GlobalsDone, OskDone, GraceEnds, Return
  <1>12. CASE GlobalQuiet
    BY <1>1, <1>12 DEF GlobalQuiet, NextGlobal
  <1>13. CASE UNCHANGED vars
    BY <1>1, <1>13 DEF vars
  <1> QED
    BY <1>2, <1>3, <1>4, <1>5, <1>6, <1>7, <1>8, <1>9, <1>10, <1>11, <1>12, <1>13
    DEF Next, IpcModeSet, IpcModeNext

(* Nothing is ever stuck down on the host, and everything the mapper holds *)
(* and the host accepts is down, for every configuration, every sequence   *)
(* of reports, requests, reloads and disconnects.                          *)
THEOREM HostAgrees == Spec => []HostShowsHeld
  <1>1. Init => HostShowsHeld /\ TapInv
    BY DEF Init, HostShowsHeld, TapInv, NoTap, HeldNow, Accepted
  <1> QED
    BY <1>1, TypeInit, TypeStep, TapStep, HostStep, PTL DEF Spec

-----------------------------------------------------------------------------
(* Modality, grounding, capture and staleness.                             *)

(* The part of the invariant about which bindings act.                     *)
ActInv ==
    /\ CallInv /\ KeyboardIsModal /\ ActingIsPressed /\ NothingStale
    /\ GlobalsKeepTheirButtons /\ OneRoutePerTrigger /\ QuarantineIsPressed

(* A step that releases everything and ends the call re-establishes the    *)
(* invariant: nothing acts, so nothing can act wrongly.                    *)
LEMMA ClearedAct ==
    ASSUME routes' = {}, quarantined' = {}, oskActive' = {}, axes' = {},
           pc' = "idle", index' = 1,
           report' = {}, before' = {}, reserved' = {}, captured' = {},
           heldOver' = previous',
           gamepad' = ActiveMode'.gamepad
    PROVE  ActInv'
  <1> USE DEF BetweenReports
  <1>1. CallInv'
    BY DEF CallInv
  <1>2. KeyboardIsModal' /\ ActingIsPressed' /\ NothingStale'
    BY DEF KeyboardIsModal, ActingIsPressed, NothingStale
  <1>3. GlobalsKeepTheirButtons' /\ OneRoutePerTrigger' /\ QuarantineIsPressed'
    BY DEF GlobalsKeepTheirButtons, OneRoutePerTrigger, QuarantineIsPressed
  <1> QED
    BY <1>1, <1>2, <1>3 DEF ActInv

(* Switching the mode installs the new mode's gamepad.                     *)
LEMMA SwitchGamepad ==
    ASSUME NEW m, SwitchMode(m)
    PROVE  /\ gamepad' = ActiveMode'.gamepad
           /\ routes' = {} /\ quarantined' = {} /\ oskActive' = {} /\ axes' = {}
  BY DEF SwitchMode, ReleaseOutputs, ActiveMode

(* The candidates are a function of the configuration and the mode.        *)
LEMMA CandidatesSame ==
    ASSUME UNCHANGED <<config, mode>>
    PROVE  /\ ActiveMode' = ActiveMode
           /\ Candidates' = Candidates
           /\ {RouteOf(c) : c \in Candidates}' = {RouteOf(c) : c \in Candidates}
  BY DEF ActiveMode, Candidates, BindingsOf, RouteOf, HoldOf

(* Within the globals loop, the buttons of every captured binding passed   *)
(* so far are in `captured', and all captured buttons are reserved.        *)
LEMMA GlobalAct ==
    ASSUME TypeOK, ActInv, UpdateGlobal, NextGlobal
    PROVE  ActInv'
  <1> USE DEF ActInv, NextGlobal, mainVars, BetweenReports
  <1>1. /\ index \in 1..Len(config.globals)
        /\ Len(config.globals) \in Nat
        /\ DOMAIN config.globals = 1..Len(config.globals)
        /\ pc = "global" /\ pc' = "global" /\ index' = index + 1
        /\ UNCHANGED <<config, mode, routes, quarantined, oskActive, axes, previous, report,
                       before, heldOver, gamepad, keyboardVisible>>
    BY UpdateGlobalTyped, ConfigTyped DEF UpdateGlobal, TypeOK
  <1>2. captured \subseteq captured' /\ captured' \subseteq reserved'
    BY DEF CallInv, Reserves
  <1>3. ASSUME NEW i \in DOMAIN global', i < index', global'[i].captured
        PROVE  config.globals[i].inputs \subseteq captured'
    <2>1. DOMAIN global' = DOMAIN global /\ i \in 1..Len(config.globals)
      BY <1>1, <1>3, UpdateGlobalTyped DEF TypeOK
    <2>2. CASE i = index
      <3>1. global'[i].captured = CapturedNow
        BY <1>1, <2>1, <2>2 DEF UpdateGlobal, TypeOK
      <3> QED
        BY <1>3, <2>2, <3>1 DEF CurrentGlobal
    <2>3. CASE i # index
      <3>1. i < index /\ global'[i] = global[i]
        BY <1>1, <1>3, <2>1, <2>3 DEF UpdateGlobal, TypeOK
      <3> QED
        BY <1>1, <1>2, <1>3, <2>1, <3>1 DEF CallInv
    <2> QED
      BY <2>2, <2>3
  <1>4. CallInv'
    BY <1>1, <1>2, <1>3 DEF CallInv
  <1>5. NothingStale'
    BY <1>1, CandidatesSame DEF NothingStale
  <1>6. KeyboardIsModal' /\ OneRoutePerTrigger'
    BY <1>1 DEF KeyboardIsModal, OneRoutePerTrigger
  <1>7. ActingIsPressed' /\ GlobalsKeepTheirButtons' /\ QuarantineIsPressed'
    BY <1>1 DEF ActingIsPressed, GlobalsKeepTheirButtons, QuarantineIsPressed
  <1> QED
    BY <1>4, <1>5, <1>6, <1>7

(* The OSK loop leaves active only inputs that are in the report.          *)
LEMMA OskStepAct ==
    ASSUME TypeOK, ActInv, OskStep
    PROVE  ActInv'
  <1> USE DEF ActInv, BetweenReports
  <1>1. /\ index \in 1..Len(config.osk)
        /\ Len(config.osk) \in Nat
        /\ DOMAIN config.osk = 1..Len(config.osk)
        /\ pc = "osk" /\ pc' = "osk" /\ index' = index + 1
        /\ UNCHANGED <<config, mode, global, routes, quarantined, axes, previous, report,
                       before, gamepad, keyboardVisible, reserved, captured, heldOver>>
    BY ConfigTyped DEF OskStep, TypeOK, mainVars, callVars
  <1>2. /\ oskActive' \subseteq oskActive \cup {OskInput}
        /\ OskInput \in oskActive' => OskInput \in report
    BY DEF OskStep, OskPressed
  <1>3. ASSUME NEW i \in DOMAIN config.osk, i < index', config.osk[i].input \in oskActive'
        PROVE  config.osk[i].input \in report
    <2>1. CASE config.osk[i].input = OskInput
      BY <1>2, <1>3, <2>1
    <2>2. CASE config.osk[i].input # OskInput
      <3>1. i # index /\ i < index /\ config.osk[i].input \in oskActive
        BY <1>1, <1>2, <1>3, <2>2 DEF OskInput
      <3> QED
        BY <1>1, <3>1 DEF CallInv
    <2> QED
      BY <2>1, <2>2
  <1>4. CallInv'
    BY <1>1, <1>3 DEF CallInv
  <1>5. NothingStale'
    <2>1. OskInput \in {config.osk[i].input : i \in DOMAIN config.osk}
      BY <1>1 DEF OskInput
    <2> QED
      BY <1>1, <1>2, <2>1, CandidatesSame DEF NothingStale
  <1>6. KeyboardIsModal' /\ OneRoutePerTrigger'
    BY <1>1 DEF CallInv, KeyboardIsModal, OneRoutePerTrigger
  <1>7. ActingIsPressed' /\ GlobalsKeepTheirButtons' /\ QuarantineIsPressed'
    BY <1>1 DEF ActingIsPressed, GlobalsKeepTheirButtons, QuarantineIsPressed
  <1> QED
    BY <1>4, <1>5, <1>6, <1>7

(* At the end of the OSK loop every acting input is in the report.         *)
LEMMA OskDoneAct ==
    ASSUME TypeOK, ActInv, OskDone
    PROVE  ActInv'
  <1> USE DEF ActInv, mapperVars, hostVars, mainVars, BetweenReports
  <1>1. /\ pc = "osk" /\ keyboardVisible /\ previous = report
        /\ routes = {} /\ quarantined = {} /\ index > Len(config.osk)
    BY DEF OskDone, CallInv, KeyboardIsModal
  <1>2. oskActive \subseteq report
    <2> SUFFICES ASSUME NEW b \in oskActive
                 PROVE  b \in report
      OBVIOUS
    <2>1. PICK i \in DOMAIN config.osk : config.osk[i].input = b
      BY DEF NothingStale
    <2>2. i \in 1..Len(config.osk) /\ Len(config.osk) \in Nat
      BY <2>1, ConfigTyped DEF TypeOK
    <2>3. i < index
      BY <1>1, <2>2 DEF TypeOK
    <2> QED
      BY <1>1, <2>1, <2>3 DEF CallInv
  <1>3. CallInv'
    BY DEF OskDone, Return, CallInv
  <1>4. NothingStale'
    BY CandidatesSame DEF OskDone, NothingStale
  <1>5. KeyboardIsModal' /\ OneRoutePerTrigger' /\ QuarantineIsPressed'
    BY <1>1 DEF OskDone, KeyboardIsModal, OneRoutePerTrigger, QuarantineIsPressed
  <1>6. ActingIsPressed' /\ GlobalsKeepTheirButtons'
    BY <1>1, <1>2 DEF OskDone, ActingIsPressed, GlobalsKeepTheirButtons
  <1> QED
    BY <1>3, <1>4, <1>5, <1>6

(* What a binding that starts is made of: its buttons are down and no      *)
(* global binding keeps one of them, and its layer's hold likewise.        *)
LEMMA NewRouteFacts ==
    ASSUME TypeOK, NEW r \in NewRoutes
    PROVE  /\ r \in {RouteOf(c) : c \in Candidates}
           /\ r.inputs \cup r.hold \subseteq report
           /\ (r.inputs \cup r.hold) \cap reserved = {}
           /\ r.trigger \notin Quarantine
           /\ \A q \in KeptRoutes : q.trigger # r.trigger
           /\ r.trigger \in report \ before
  <1>1. PICK c \in Fired : r = RouteOf(c)
    BY DEF NewRoutes
  <1>2. c \in Candidates /\ Eligible(c)
    BY <1>1 DEF Fired
  <1>3. /\ r.inputs = c.binding.inputs /\ r.trigger = c.binding.trigger
        /\ r.hold = HoldOf(c.layer)
    BY <1>1 DEF RouteOf
  <1>4. r.hold \subseteq report /\ r.hold \cap reserved = {}
    BY <1>2, <1>3 DEF Eligible, Live, LayerOn, Available
  <1>5. r.inputs \subseteq report /\ r.inputs \cap reserved = {}
    BY <1>2, <1>3 DEF Eligible, ChordReserved
  <1> QED
    BY <1>1, <1>2, <1>3, <1>4, <1>5 DEF Eligible

(* Bindings are numbered.                                                  *)
LEMMA PositionsAreNatural ==
    ASSUME TypeOK, NEW l \in 0..Len(ActiveMode.layers), NEW i \in DOMAIN BindingsOf(l)
    PROVE  i \in Nat
  <1>1. ActiveMode \in Mode
    BY ConfigTyped DEF TypeOK, ActiveMode
  <1>2. ActiveMode.bindings \in Seq(Binding) /\ ActiveMode.layers \in Seq(Layer)
    BY <1>1 DEF Mode
  <1>3. CASE l = 0
    BY <1>2, <1>3 DEF BindingsOf
  <1>4. CASE l # 0
    <2>1. ActiveMode.layers[l] \in Layer
      BY <1>2, <1>4
    <2>2. ActiveMode.layers[l].bindings \in Seq(Binding)
      BY <2>1 DEF Layer
    <2> QED
      BY <1>4, <2>2 DEF BindingsOf
  <1> QED
    BY <1>3, <1>4

(* Of two candidates, one is tried before the other.                       *)
LEMMA PrecedesTotal ==
    ASSUME TypeOK, NEW c \in Candidates, NEW d \in Candidates, c # d
    PROVE  Precedes(c, d) \/ Precedes(d, c)
  <1>1. PICK l \in 0..Len(ActiveMode.layers) : \E i \in DOMAIN BindingsOf(l) :
            c = [layer |-> l, position |-> i, binding |-> BindingsOf(l)[i]]
    BY DEF Candidates
  <1>2. PICK i \in DOMAIN BindingsOf(l) :
            c = [layer |-> l, position |-> i, binding |-> BindingsOf(l)[i]]
    BY <1>1
  <1>3. PICK k \in 0..Len(ActiveMode.layers) : \E j \in DOMAIN BindingsOf(k) :
            d = [layer |-> k, position |-> j, binding |-> BindingsOf(k)[j]]
    BY DEF Candidates
  <1>4. PICK j \in DOMAIN BindingsOf(k) :
            d = [layer |-> k, position |-> j, binding |-> BindingsOf(k)[j]]
    BY <1>3
  <1>5. i \in Nat /\ j \in Nat
    BY <1>2, <1>4, PositionsAreNatural
  <1>6. l # k \/ i # j
    BY <1>2, <1>4
  <1>7. /\ c.layer = l /\ c.position = i
        /\ d.layer = k /\ d.position = j
    BY <1>2, <1>4
  <1> QED
    BY <1>5, <1>6, <1>7 DEF Precedes, IsChord

(* Two bindings that start in one report have different triggers.          *)
LEMMA NewRoutesDiffer ==
    ASSUME TypeOK, NEW r \in NewRoutes, NEW q \in NewRoutes, r.trigger = q.trigger
    PROVE  r = q
  <1>1. PICK c \in Fired : r = RouteOf(c)
    BY DEF NewRoutes
  <1>2. PICK d \in Fired : q = RouteOf(d)
    BY DEF NewRoutes
  <1>3. c.binding.trigger = d.binding.trigger
    BY <1>1, <1>2 DEF RouteOf
  <1>4. c \in Candidates /\ d \in Candidates /\ Eligible(c) /\ Eligible(d)
    BY DEF Fired
  <1>5. ~Precedes(c, d) /\ ~Precedes(d, c)
    BY <1>3, <1>4 DEF Fired
  <1>6. c = d
    BY <1>4, <1>5, PrecedesTotal
  <1> QED
    BY <1>1, <1>2, <1>6

(* Releasing and starting routes keeps what the proofs say of them.        *)
LEMMA UpdateRoutesAct ==
    ASSUME TypeOK, ActInv, UpdateRoutes
    PROVE  ActInv'
  <1> USE DEF ActInv, BetweenReports
  <1>1. /\ pc = "route" /\ ~keyboardVisible /\ previous = report /\ pc' = "idle"
        /\ routes' = KeptRoutes \cup NewRoutes /\ quarantined' = Quarantine
        /\ UNCHANGED <<config, mode, global, oskActive, previous, gamepad, keyboardVisible>>
    BY DEF UpdateRoutes, TiltAxes, CallInv, mainVars, Return
  <1>2. ASSUME NEW r \in KeptRoutes
        PROVE  /\ r \in routes
               /\ r.inputs \cup r.hold \subseteq report
               /\ r.inputs \cap captured = {} /\ r.hold \cap captured = {}
    BY <1>2 DEF KeptRoutes, LostRoutes, Available, CallInv
  <1>3. CallInv'
    BY DEF UpdateRoutes, TiltAxes, Return, CallInv
  <1>4. KeyboardIsModal'
    BY <1>1 DEF KeyboardIsModal
  <1>5. ActingIsPressed'
    BY <1>1, <1>2, NewRouteFacts DEF ActingIsPressed, KeyboardIsModal
  <1>6. NothingStale'
    <2>1. routes' \subseteq {RouteOf(c) : c \in Candidates}
      BY <1>1, <1>2, NewRouteFacts DEF NothingStale
    <2>2. axes' \subseteq ActiveMode.axes
      BY DEF UpdateRoutes, TiltAxes
    <2> QED
      BY <1>1, <2>1, <2>2, CandidatesSame DEF NothingStale
  <1>7. GlobalsKeepTheirButtons'
    <2> SUFFICES ASSUME NEW i \in DOMAIN global, global[i].captured, NEW r \in routes'
                 PROVE  (r.inputs \cup r.hold) \cap config.globals[i].inputs = {}
      BY <1>1 DEF GlobalsKeepTheirButtons
    <2>1. config.globals[i].inputs \subseteq captured /\ captured \subseteq reserved
      BY <1>1 DEF CallInv
    <2>2. (r.inputs \cup r.hold) \cap captured = {}
      BY <1>1, <1>2, <2>1, NewRouteFacts
    <2> QED
      BY <2>1, <2>2
  <1>8. OneRoutePerTrigger'
    BY <1>1, <1>2, NewRouteFacts, NewRoutesDiffer DEF OneRoutePerTrigger
  <1>9. QuarantineIsPressed'
    <2>1. Quarantine \subseteq report
      BY DEF Quarantine
    <2>2. \A r \in KeptRoutes : r.trigger \notin Quarantine
      BY DEF Quarantine, KeptRoutes, LostRoutes, OneRoutePerTrigger, QuarantineIsPressed
    <2> QED
      BY <1>1, <2>1, <2>2, NewRouteFacts DEF QuarantineIsPressed
  <1> QED
    BY <1>3, <1>4, <1>5, <1>6, <1>7, <1>8, <1>9

(* Every step keeps the bindings' part of the inductive invariant.         *)
LEMMA ActStep == TypeOK /\ ActInv /\ [Next]_vars => ActInv'
  <1> SUFFICES ASSUME TypeOK, ActInv, [Next]_vars
               PROVE  ActInv'
    OBVIOUS
  <1> USE DEF mapperVars, hostVars, mainVars, callVars, BetweenReports
  <1>1. ASSUME UNCHANGED <<config, mode, global, routes, quarantined, oskActive, axes,
                           previous, gamepad, keyboardVisible, report, before, reserved,
                           captured, heldOver, index>>,
               \/ pc' = pc
               \/ BetweenReports /\ BetweenReports'
        PROVE  ActInv'
    <2>1. NothingStale'
      BY <1>1, CandidatesSame DEF ActInv, NothingStale
    <2>2. CallInv' /\ KeyboardIsModal' /\ OneRoutePerTrigger'
      BY <1>1 DEF ActInv, CallInv, KeyboardIsModal, OneRoutePerTrigger
    <2>3. ActingIsPressed' /\ GlobalsKeepTheirButtons' /\ QuarantineIsPressed'
      BY <1>1 DEF ActInv, ActingIsPressed, GlobalsKeepTheirButtons, QuarantineIsPressed
    <2> QED
      BY <2>1, <2>2, <2>3 DEF ActInv
  <1>2. /\ gamepad = ActiveMode.gamepad
        /\ pc = "idle" => /\ index = 1 /\ report = {} /\ before = {} /\ reserved = {} /\ captured = {}
                          /\ heldOver = previous
        /\ ~BetweenReports => previous = report
    BY DEF ActInv, NothingStale, CallInv
  <1>3. CASE BeginReport
    <2>1. CallInv'
      BY <1>3 DEF BeginReport, ActInv, CallInv, TypeOK
    <2>2. NothingStale'
      BY <1>3, CandidatesSame DEF BeginReport, ActInv, NothingStale
    <2>3. KeyboardIsModal' /\ OneRoutePerTrigger'
      BY <1>3 DEF BeginReport, ActInv, KeyboardIsModal, OneRoutePerTrigger
    <2>4. ActingIsPressed' /\ GlobalsKeepTheirButtons' /\ QuarantineIsPressed'
      BY <1>3 DEF BeginReport, ActInv, ActingIsPressed, GlobalsKeepTheirButtons,
                  QuarantineIsPressed
    <2> QED
      BY <2>1, <2>2, <2>3, <2>4 DEF ActInv
  <1>4. CASE GlobalQuiet \/ GlobalHold
    BY <1>4, GlobalAct DEF GlobalQuiet, GlobalHold
  <1>5. CASE GlobalSwitchMode \/ RouteSwitchMode
    <2>1. PICK m : SwitchMode(m)
      BY <1>5 DEF GlobalSwitchMode, RouteSwitchMode
    <2>2. Return
      BY <1>5 DEF GlobalSwitchMode, RouteSwitchMode
    <2> QED
      BY <1>2, <1>5, <2>1, <2>2, SwitchGamepad, ClearedAct
      DEF Return, GlobalSwitchMode, RouteSwitchMode
  <1>6. CASE GlobalToggle
    <2>1. gamepad' = ActiveMode'.gamepad
      BY <1>6 DEF GlobalToggle, ReleaseOutputs, ActInv, NothingStale, ActiveMode
    <2> QED
      BY <1>2, <1>6, <2>1, ClearedAct DEF GlobalToggle, UpdateGlobal, ReleaseOutputs, Return
  <1>7. CASE GlobalsDone
    <2>1. CallInv'
      <3>1. Len(config.globals) \in Nat /\ DOMAIN global = 1..Len(config.globals)
        BY ConfigTyped DEF TypeOK
      <3>2. \A i \in DOMAIN global : i < index
        BY <1>7, <3>1 DEF GlobalsDone, TypeOK
      <3>3. DOMAIN config.osk = 1..Len(config.osk) /\ Len(config.osk) \in Nat
        BY ConfigTyped DEF TypeOK
      <3> QED
        BY <1>7, <3>2, <3>3 DEF GlobalsDone, ActInv, CallInv
    <2>2. NothingStale'
      BY <1>7, CandidatesSame DEF GlobalsDone, ActInv, NothingStale
    <2>3. KeyboardIsModal' /\ OneRoutePerTrigger'
      BY <1>7 DEF GlobalsDone, ActInv, KeyboardIsModal, OneRoutePerTrigger
    <2>4. ActingIsPressed' /\ GlobalsKeepTheirButtons' /\ QuarantineIsPressed'
      BY <1>7 DEF GlobalsDone, ActInv, ActingIsPressed, GlobalsKeepTheirButtons,
                  QuarantineIsPressed
    <2> QED
      BY <2>1, <2>2, <2>3, <2>4 DEF ActInv
  <1>8. CASE OskStep
    BY <1>8, OskStepAct
  <1>9. CASE OskDone
    BY <1>9, OskDoneAct
  <1>10. CASE UpdateRoutes
    BY <1>10, UpdateRoutesAct
  <1>11. ASSUME NEW m, IpcModeChange(m)
         PROVE  ActInv'
    <2>1. CASE m = mode
      BY <1>1, <1>11, <2>1 DEF IpcModeChange
    <2>2. CASE m # mode
      BY <1>2, <1>11, <2>2, SwitchGamepad, ClearedAct DEF IpcModeChange, ActInv, CallInv
    <2> QED
      BY <2>1, <2>2
  <1>12. CASE IpcConfigApply
    <2>1. gamepad' = ActiveMode'.gamepad
      BY <1>12 DEF IpcConfigApply, ReleaseOutputs, ActiveMode
    <2> QED
      BY <1>12, <2>1, ClearedAct DEF IpcConfigApply, ReleaseOutputs, ActInv, CallInv
  <1>13. CASE IpcOskHide
    <2>1. gamepad' = ActiveMode'.gamepad
      BY <1>13 DEF IpcOskHide, Suspend, ReleaseOutputs, ActInv, NothingStale, ActiveMode
    <2> QED
      BY <1>13, <2>1, ClearedAct DEF IpcOskHide, Suspend, ReleaseOutputs, ActInv, CallInv
  <1>14. CASE IpcKey \/ IpcKeyReleased \/ GraceEnds
    BY <1>1, <1>14 DEF IpcKey, TapWith, IpcKeyReleased, GraceEnds
  <1>15. CASE Disconnect
    <2>1. gamepad' = ActiveMode'.gamepad
      BY <1>15 DEF Disconnect, ActiveMode
    <2> QED
      BY <1>15, <2>1, ClearedAct DEF Disconnect, ActInv, CallInv
  <1>16. CASE UNCHANGED vars
    BY <1>1, <1>16 DEF vars
  <1> QED
    BY <1>3, <1>4, <1>5, <1>6, <1>7, <1>8, <1>9, <1>10, <1>11, <1>12, <1>13, <1>14, <1>15, <1>16
    DEF Next, IpcModeSet, IpcModeNext

(* The inductive invariant holds: types, the host's view, and which        *)
(* bindings act, at every point of every call.                             *)
THEOREM Invariance == Spec => []IInv
  <1>1. Init => ActInv
    <2> SUFFICES ASSUME Init
                 PROVE  ActInv
      OBVIOUS
    <2>1. CallInv /\ KeyboardIsModal /\ ActingIsPressed
      BY DEF Init, CallInv, KeyboardIsModal, ActingIsPressed, BetweenReports
    <2>2. NothingStale /\ GlobalsKeepTheirButtons
      BY DEF Init, NothingStale, GlobalsKeepTheirButtons
    <2>3. OneRoutePerTrigger /\ QuarantineIsPressed
      BY DEF Init, OneRoutePerTrigger, QuarantineIsPressed
    <2> QED
      BY <2>1, <2>2, <2>3 DEF ActInv
  <1>2. Init => HostShowsHeld /\ TapInv
    BY DEF Init, HostShowsHeld, TapInv, NoTap, HeldNow, Accepted
  <1>3. TypeOK /\ HostShowsHeld /\ TapInv /\ ActInv => IInv
    BY DEF ActInv, IInv
  <1> QED
    BY <1>1, <1>2, <1>3, TypeInit, TypeStep, TapStep, HostStep, ActStep, PTL DEF Spec

(* While the keyboard is shown no mode binding acts and every axis rests;  *)
(* while it is hidden no OSK binding acts.                                 *)
THEOREM KeyboardModality == Spec => []KeyboardIsModal
  <1>1. IInv => KeyboardIsModal
    BY DEF IInv
  <1> QED
    BY <1>1, Invariance, PTL

(* No mode binding and no OSK binding acts without its buttons down.       *)
THEOREM Grounding == Spec => []ActingIsPressed
  <1>1. IInv => ActingIsPressed
    BY DEF IInv
  <1> QED
    BY <1>1, Invariance, PTL

(* A mode change or a reload leaves no binding, axis or gamepad of the old *)
(* mode.                                                                   *)
THEOREM Freshness == Spec => []NothingStale
  <1>1. IInv => NothingStale
    BY DEF IInv
  <1> QED
    BY <1>1, Invariance, PTL

(* A global binding that fired keeps its buttons until its trigger is up.  *)
THEOREM GlobalCapture == Spec => []GlobalsKeepTheirButtons
  <1>1. IInv => GlobalsKeepTheirButtons
    BY DEF IInv
  <1> QED
    BY <1>1, Invariance, PTL

(* No press of a button starts two mode bindings.                          *)
THEOREM UniqueRoutes == Spec => []OneRoutePerTrigger
  <1>1. IInv => OneRoutePerTrigger
    BY DEF IInv
  <1> QED
    BY <1>1, Invariance, PTL

(* What is quarantined is still pressed, so the edge test of route_binding *)
(* already excludes it.                                                    *)
THEOREM QuarantineRedundant == Spec => []QuarantineIsPressed
  <1>1. IInv => QuarantineIsPressed
    BY DEF IInv
  <1> QED
    BY <1>1, Invariance, PTL

-----------------------------------------------------------------------------
(* Steps.                                                                  *)

(* What an uncompleted binding needs: its trigger was up in the report     *)
(* before, so the history of reports does not have it down.                *)
LEMMA FiredAnew ==
    ASSUME IInv, pc = "route", NEW c \in Fired
    PROVE  c \in Candidates /\ c.binding.trigger \notin heldOver
  <1>1. heldOver = before
    BY DEF IInv, CallInv, BetweenReports
  <1> QED
    BY <1>1 DEF Fired, Eligible

(* A press acts once: nothing starts for a button that the connection's    *)
(* last report had down, whatever calls came between the two reports.      *)
THEOREM PressedAnew == Spec => PressActsOnce
  <1> DEFINE Anew ==
        /\ \A r \in routes' \ routes : r.trigger \notin heldOver
        /\ \A i \in DOMAIN global \cap DOMAIN global' :
              global'[i].captured /\ ~global[i].captured =>
                  config.globals[i].trigger \notin heldOver
        /\ pc = "global" /\ mode' # mode => CurrentGlobal.trigger \notin heldOver
        /\ pc = "route" /\ mode' # mode =>
              \E c \in Candidates : /\ c.binding.trigger \notin heldOver
                                    /\ Target(c.binding.action) = mode'
  <1>1. IInv /\ [Next]_vars => Anew
    <2> SUFFICES ASSUME IInv, [Next]_vars
                 PROVE  Anew
      OBVIOUS
    <2> USE DEF mapperVars
    <2>1. pc \in {"global", "osk", "route"} => heldOver = before
      BY DEF IInv, CallInv, BetweenReports
    <2>2. TypeOK
      BY DEF IInv
    <2>3. ASSUME routes' \subseteq routes, global' = global, mode' = mode
          PROVE  Anew
      BY <2>3
    <2>4. ASSUME routes' = {}, global' = NoGlobals(config'), pc \notin {"global", "route"}
          PROVE  Anew
      BY <2>4 DEF NoGlobals, Idle
    <2>5. ASSUME UpdateGlobal, routes' \subseteq routes, mode' = mode
          PROVE  Anew
      <3>1. pc = "global" /\ global' = [global EXCEPT ![index] = [active |-> ActiveNow, captured |-> CapturedNow]]
        BY <2>5 DEF UpdateGlobal
      <3>2. ASSUME NEW i \in DOMAIN global, global'[i].captured, ~global[i].captured
            PROVE  config.globals[i].trigger \notin heldOver
        <4>1. i = index /\ CapturedNow
          BY <3>1, <3>2
        <4> QED
          BY <2>1, <3>1, <3>2, <4>1 DEF CapturedNow, Pressed, CurrentGlobal
      <3> QED
        BY <2>5, <3>1, <3>2
    <2>6. CASE GlobalQuiet \/ GlobalHold
      BY <2>5, <2>6 DEF GlobalQuiet, GlobalHold, NextGlobal
    <2>7. CASE GlobalToggle
      BY <2>5, <2>7 DEF GlobalToggle, ReleaseOutputs
    <2>8. CASE GlobalSwitchMode
      BY <2>1, <2>8 DEF GlobalSwitchMode, Pressed, SwitchMode, ReleaseOutputs, NoGlobals, Idle
    <2>9. CASE UpdateRoutes
      <3>1. /\ routes' = KeptRoutes \cup NewRoutes /\ KeptRoutes \subseteq routes
            /\ global' = global /\ mode' = mode /\ pc = "route"
        BY <2>9 DEF UpdateRoutes, TiltAxes, KeptRoutes
      <3>2. \A r \in NewRoutes : r.trigger \notin heldOver
        BY <2>1, <2>2, <3>1, NewRouteFacts
      <3> QED
        BY <3>1, <3>2
    <2>10. CASE RouteSwitchMode
      <3>1. PICK c \in Switching : SwitchMode(Target(c.binding.action))
        BY <2>10 DEF RouteSwitchMode
      <3>2. pc = "route" /\ routes' = {} /\ global' = NoGlobals(config) /\ mode' = Target(c.binding.action)
        BY <2>10, <3>1 DEF RouteSwitchMode, SwitchMode, ReleaseOutputs
      <3>3. c \in Candidates /\ c.binding.trigger \notin heldOver
        BY <3>1, <3>2, FiredAnew DEF Switching
      <3> QED
        BY <3>2, <3>3 DEF NoGlobals, Idle
    <2>11. CASE BeginReport \/ GlobalsDone \/ OskStep \/ OskDone
      BY <2>3, <2>11 DEF BeginReport, GlobalsDone, OskStep, OskDone
    <2>12. ASSUME NEW m, IpcModeChange(m)
           PROVE  Anew
      <3>1. CASE UNCHANGED <<mapperVars, hostVars>>
        BY <2>3, <3>1
      <3>2. CASE SwitchMode(m)
        BY <2>4, <2>12, <3>2 DEF IpcModeChange, SwitchMode, ReleaseOutputs
      <3> QED
        BY <2>12, <3>1, <3>2 DEF IpcModeChange
    <2>13. CASE IpcConfigApply \/ Disconnect
      BY <2>4, <2>13 DEF IpcConfigApply, Disconnect, ReleaseOutputs
    <2>14. CASE IpcOskHide
      BY <2>3, <2>14 DEF IpcOskHide, Suspend, ReleaseOutputs
    <2>15. CASE IpcKey \/ IpcKeyReleased \/ GraceEnds \/ UNCHANGED vars
      BY <2>3, <2>15 DEF IpcKey, TapWith, IpcKeyReleased, GraceEnds, vars
    <2> HIDE DEF Anew
    <2> QED
      BY <2>6, <2>7, <2>8, <2>9, <2>10, <2>11, <2>12, <2>13, <2>14, <2>15
      DEF Next, IpcModeSet, IpcModeNext
  <1> QED
    BY <1>1, Invariance, PTL DEF Spec, PressActsOnce

(* What a step may take from the host: only the release of a tap takes     *)
(* something that is held, and only the key the client asked for.          *)
THEOREM ShownStaysShown == Spec => HeldStaysShown
  <1> DEFINE Stays == Missing' \ Missing \subseteq IF pc = "tap" THEN tap.key ELSE {}
  <1>1. IInv /\ [Next]_vars => Stays
    <2> SUFFICES ASSUME IInv, [Next]_vars
                 PROVE  Stays
      OBVIOUS
    <2> USE DEF mapperVars, hostVars, mainVars, callVars
    <2>1. TypeOK /\ HostShowsHeld /\ TapInv /\ held \in [Output -> Nat]
      BY DEF IInv, TypeOK
    <2>2. ASSUME held' = held, gamepad' = gamepad, down \subseteq down'
          PROVE  Stays
      BY <2>2 DEF Missing, Accepted, HeldNow
    <2>3. ASSUME held' = [k \in Output |-> 0]
          PROVE  Stays
      BY <2>3 DEF Missing, Accepted, HeldNow
    <2>4. ASSUME NEW k \in Output, NEW active \in BOOLEAN, SetHeld(k, active), gamepad' = gamepad
          PROVE  Stays
      <3>1. CASE active
        <4>1. HeldNow' = HeldNow \cup {k} /\ (held[k] # 0 => k \in HeldNow)
          BY <2>1, <2>4, <3>1 DEF SetHeld, HeldNow
        <4>2. down \subseteq down' /\ (held[k] = 0 => Accepted({k}) \subseteq down')
          BY <2>4, <3>1 DEF SetHeld
        <4> QED
          BY <2>4, <4>1, <4>2 DEF Missing, Accepted
      <3>2. CASE ~active
        <4>1. HeldNow' = (IF held[k] = 1 THEN HeldNow \ {k} ELSE HeldNow)
              /\ down' = (IF held[k] = 1 THEN down \ {k} ELSE down)
          BY <2>1, <2>4, <3>2 DEF SetHeld, HeldNow
        <4> QED
          BY <2>4, <4>1 DEF Missing, Accepted
      <3> QED
        BY <3>1, <3>2
    <2>5. CASE GlobalHold
      <3>1. UpdateGlobal /\ NextGlobal
        BY <2>5 DEF GlobalHold
      <3>2. PICK k \in HeldBy(CurrentGlobal.action) : SetHeld(k, ActiveNow)
        BY <2>5 DEF GlobalHold
      <3>3. k \in Output /\ ActiveNow \in BOOLEAN /\ gamepad' = gamepad
        BY <2>1, <3>1, <3>2, UpdateGlobalTyped, ReservesTyped DEF NextGlobal
      <3> QED
        BY <2>4, <3>2, <3>3
    <2>6. CASE OskStep
      <3>1. index \in 1..Len(config.osk) /\ config.osk[index] \in OskBinding
        BY <2>1, <2>6, ConfigTyped DEF OskStep, TypeOK
      <3>2. config.osk[index].key \in Output /\ gamepad' = gamepad
        BY <2>6, <3>1 DEF OskStep, OskBinding, Output
      <3> QED
        BY <2>2, <2>4, <2>6, <3>2 DEF OskStep
    <2>7. CASE UpdateRoutes
      <3>1. \A k : Users(LostRoutes, k) \in Nat /\ Users(NewRoutes, k) \in Nat
        BY <2>1, UsersTyped, NewRoutesTyped DEF LostRoutes, TypeOK, Route
      <3>2. /\ held' = [k \in Output |-> AfterReleases(k) + Users(NewRoutes, k)]
            /\ down' = (down \ {k \in HeldNow : AfterReleases(k) = 0})
                 \cup Accepted({k \in Output : AfterReleases(k) = 0 /\ Users(NewRoutes, k) > 0})
            /\ gamepad' = gamepad
        BY <2>7 DEF UpdateRoutes, TiltAxes
      <3>3. \A k \in Output : AfterReleases(k) \in Nat /\ (AfterReleases(k) > 0 => held[k] > 0)
        BY <2>1, <3>1 DEF AfterReleases
      <3> SUFFICES ASSUME NEW k \in Missing'
                   PROVE  k \in Missing
        OBVIOUS
      <3>4. k \in Output /\ k \in Accepted(HeldNow)' /\ k \notin down'
            /\ (AfterReleases(k) > 0 \/ Users(NewRoutes, k) > 0)
            /\ (gamepad = "none" => k \notin GamepadOutput)
        BY <3>1, <3>2, <3>3 DEF Missing, Accepted, HeldNow
      <3>5. AfterReleases(k) # 0
        BY <3>2, <3>3, <3>4 DEF Accepted
      <3>6. k \in HeldNow /\ k \notin down
        BY <3>2, <3>3, <3>4, <3>5 DEF HeldNow
      <3> QED
        BY <3>4, <3>6 DEF Missing, Accepted
    <2>8. CASE IpcKey
      BY <2>2, <2>8 DEF IpcKey, TapWith
    <2>9. CASE IpcKeyReleased
      <3>1. pc = "tap" /\ down' = down \ Tapped /\ held' = held /\ gamepad' = gamepad
        BY <2>9 DEF IpcKeyReleased
      <3>2. Accepted(HeldNow)' = Accepted(HeldNow) /\ Accepted(HeldNow) \subseteq HeldNow
        BY <3>1 DEF Accepted, HeldNow
      <3> QED
        BY <2>1, <3>1, <3>2 DEF Missing, Tapped, TapInv
    <2>10. CASE GlobalSwitchMode \/ GlobalToggle \/ RouteSwitchMode
      BY <2>3, <2>10 DEF GlobalSwitchMode, GlobalToggle, RouteSwitchMode, SwitchMode, ReleaseOutputs
    <2>11. ASSUME NEW m, IpcModeChange(m)
           PROVE  Stays
      <3>1. CASE UNCHANGED <<mapperVars, hostVars>>
        BY <2>2, <3>1
      <3>2. CASE SwitchMode(m)
        BY <2>3, <3>2 DEF SwitchMode, ReleaseOutputs
      <3> QED
        BY <2>11, <3>1, <3>2 DEF IpcModeChange
    <2>12. CASE IpcConfigApply \/ IpcOskHide \/ Disconnect
      BY <2>3, <2>12 DEF IpcConfigApply, IpcOskHide, Suspend, Disconnect, ReleaseOutputs
    <2>13. CASE BeginReport \/ GlobalQuiet \/ GlobalsDone \/ OskDone \/ GraceEnds \/ UNCHANGED vars
      BY <2>2, <2>13 DEF BeginReport, GlobalQuiet, NextGlobal, GlobalsDone, OskDone, GraceEnds, vars
    <2> HIDE DEF Stays
    <2> QED
      BY <2>5, <2>6, <2>7, <2>8, <2>9, <2>10, <2>11, <2>12, <2>13 DEF Next, IpcModeSet, IpcModeNext
  <1> QED
    BY <1>1, Invariance, PTL DEF Spec, HeldStaysShown

-----------------------------------------------------------------------------
(* Counting holders.                                                       *)

(* Holders in the middle of a call: the globals not handled yet are those  *)
(* of the last report, the others those of the present one.                *)
OskHolders(k) ==
    {i \in DOMAIN config.osk : config.osk[i].key = k /\ config.osk[i].input \in oskActive}
Counts(i) ==
    /\ global[i].active
    /\ config.globals[i].inputs \subseteq IF pc = "global" /\ i >= index THEN before ELSE previous
GlobalHolders(k) ==
    {i \in DOMAIN config.globals : k \in HeldBy(config.globals[i].action) /\ Counts(i)}
CountInv ==
    \A k \in Output :
        held[k] <= Users(routes, k) + Cardinality(OskHolders(k)) + Cardinality(GlobalHolders(k))

(* All three are finite, so their numbers are natural.                     *)
HoldersCounted ==
    \A k \in Output :
        /\ IsFiniteSet(OskHolders(k)) /\ Cardinality(OskHolders(k)) \in Nat
        /\ IsFiniteSet(GlobalHolders(k)) /\ Cardinality(GlobalHolders(k)) \in Nat
        /\ Users(routes, k) \in Nat
        /\ held[k] \in Nat

LEMMA HoldersFinite == TypeOK => HoldersCounted
  <1> SUFFICES ASSUME TypeOK, NEW k \in Output
               PROVE  /\ IsFiniteSet(OskHolders(k)) /\ Cardinality(OskHolders(k)) \in Nat
                      /\ IsFiniteSet(GlobalHolders(k)) /\ Cardinality(GlobalHolders(k)) \in Nat
                      /\ Users(routes, k) \in Nat
                      /\ held[k] \in Nat
    BY DEF HoldersCounted
  <1>1. /\ Len(config.osk) \in Nat /\ DOMAIN config.osk = 1..Len(config.osk)
        /\ Len(config.globals) \in Nat /\ DOMAIN config.globals = 1..Len(config.globals)
    BY ConfigTyped DEF TypeOK
  <1>2. IsFiniteSet(1..Len(config.osk)) /\ IsFiniteSet(1..Len(config.globals))
    BY SMTT(30), <1>1, FS_Interval
  <1>3. /\ OskHolders(k) \in SUBSET (1..Len(config.osk))
        /\ GlobalHolders(k) \in SUBSET (1..Len(config.globals))
    BY <1>1 DEF OskHolders, GlobalHolders
  <1>4. Users(routes, k) \in Nat
    BY UsersTyped DEF TypeOK, Route
  <1>5. held[k] \in Nat
    BY DEF TypeOK
  <1> QED
    BY <1>2, <1>3, <1>4, <1>5, FS_Subset, FS_CardinalityType

(* When everything was released nothing is held.                           *)
LEMMA ClearedCount ==
    ASSUME TypeOK', held' = [k \in Output |-> 0]
    PROVE  CountInv'
  <1>1. HoldersCounted'
    BY HoldersFinite, PTL
  <1> SUFFICES ASSUME NEW k \in Output
               PROVE  (held[k] <= Users(routes, k) + Cardinality(OskHolders(k)) + Cardinality(GlobalHolders(k)))'
    BY DEF CountInv
  <1>2. held'[k] = 0
    OBVIOUS
  <1> QED
    BY <1>1, <1>2 DEF HoldersCounted

(* When held outputs, routes and OSK bindings stay and no global holder is *)
(* lost, the bound stays.                                                  *)
LEMMA SameCount ==
    ASSUME TypeOK, TypeOK', CountInv, UNCHANGED <<config, held, routes, oskActive>>,
           \A i \in DOMAIN config.globals :
              HeldBy(config.globals[i].action) # {} /\ Counts(i) => Counts(i)'
    PROVE  CountInv'
  <1>1. HoldersCounted /\ HoldersCounted'
    BY HoldersFinite, PTL
  <1> SUFFICES ASSUME NEW k \in Output
               PROVE  (held[k] <= Users(routes, k) + Cardinality(OskHolders(k)) + Cardinality(GlobalHolders(k)))'
    BY DEF CountInv
  <1>2. Users(routes, k)' = Users(routes, k) /\ OskHolders(k)' = OskHolders(k) /\ held' = held
    BY DEF Users, OskHolders
  <1>3. GlobalHolders(k) \in SUBSET GlobalHolders(k)'
    BY DEF GlobalHolders
  <1>4. Cardinality(GlobalHolders(k)) <= Cardinality(GlobalHolders(k)')
    BY <1>1, <1>3, FS_Subset DEF HoldersCounted
  <1>5. held[k] <= Users(routes, k) + Cardinality(OskHolders(k)) + Cardinality(GlobalHolders(k))
    BY DEF CountInv
  <1> QED
    BY <1>1, <1>2, <1>4, <1>5 DEF HoldersCounted

(* One global binding is handled: its hold is counted when it becomes      *)
(* active, and given up at most once when it ceases to be.                 *)
LEMMA GlobalCount ==
    ASSUME TypeOK, TypeOK', CallInv, CountInv, UpdateGlobal, NextGlobal,
           \/ held' = held /\ ~Releases /\ (Pressed => HeldBy(CurrentGlobal.action) = {})
           \/ /\ Pressed \/ Releases
              /\ \E k \in HeldBy(CurrentGlobal.action) : SetHeld(k, ActiveNow)
    PROVE  CountInv'
  <1> USE DEF mainVars
  <1>0. PICK n : n = index
    OBVIOUS
  <1>1. HoldersCounted /\ HoldersCounted'
    BY HoldersFinite, PTL
  <1>2. /\ index \in 1..Len(config.globals) /\ index \in DOMAIN config.globals /\ index \in DOMAIN global
        /\ DOMAIN config.globals \subseteq Nat /\ index \in Nat
        /\ pc = "global" /\ previous = report
        /\ CurrentGlobal.trigger \in CurrentGlobal.inputs
    <2>1. index \in 1..Len(config.globals) /\ DOMAIN config.globals = 1..Len(config.globals)
      BY UpdateGlobalTyped, ConfigTyped DEF TypeOK
    <2>2. WellFormed(CurrentGlobal, Len(config.modes))
      BY <2>1, ConfigTyped DEF TypeOK, ValidConfig, AllWellFormed, CurrentGlobal
    <2> QED
      BY <2>1, <2>2 DEF UpdateGlobal, CallInv, BetweenReports, WellFormed, TypeOK
  <1>3. /\ UNCHANGED <<config, routes, oskActive, previous, before, pc>>
        /\ index' = index + 1
        /\ global' = [global EXCEPT ![index] = [active |-> ActiveNow, captured |-> CapturedNow]]
    BY DEF NextGlobal, UpdateGlobal
  <1>4. ActiveNow => AllActive
    BY DEF ActiveNow, Pressed
  <1>5. Counts(n)' <=> ActiveNow
    <2>1. global'[n].active = ActiveNow /\ ~(n >= index')
      BY <1>0, <1>2, <1>3
    <2> QED
      BY <1>0, <1>2, <1>3, <1>4, <2>1 DEF Counts, AllActive, CurrentGlobal
  <1>6. \A i \in DOMAIN config.globals : i # n => (Counts(i)' <=> Counts(i))
    <2> TAKE i \in DOMAIN config.globals
    <2> SUFFICES ASSUME i # n
                 PROVE  Counts(i)' <=> Counts(i)
      OBVIOUS
    <2>1. global'[i] = global[i]
      BY <1>0, <1>3 DEF TypeOK
    <2>2. i >= index' <=> i >= index
      BY <1>0, <1>2, <1>3
    <2> QED
      BY <1>3, <2>1, <2>2 DEF Counts
  <1>7. CASE held' = held /\ ~Releases /\ (Pressed => HeldBy(CurrentGlobal.action) = {})
    <2>1. HeldBy(CurrentGlobal.action) # {} /\ Counts(n) => Counts(n)'
      BY <1>0, <1>2, <1>5, <1>7 DEF Releases, Counts, ActiveNow
    <2> QED
      BY <1>0, <1>3, <1>6, <1>7, <2>1, SameCount DEF CurrentGlobal
  <1>8. ASSUME Pressed \/ Releases, NEW h \in HeldBy(CurrentGlobal.action), SetHeld(h, ActiveNow)
        PROVE  CountInv'
    <2>1. h \in Output /\ \A k : k \in HeldBy(CurrentGlobal.action) <=> k = h
      <3>1. h \in Output
        BY <1>2, <1>8, ReservesTyped
      <3> QED
        BY <1>8, <3>1 DEF HeldBy
    <2> SUFFICES ASSUME NEW k \in Output
                 PROVE  (held[k] <= Users(routes, k) + Cardinality(OskHolders(k)) + Cardinality(GlobalHolders(k)))'
      BY DEF CountInv
    <2>2. Users(routes, k)' = Users(routes, k) /\ OskHolders(k)' = OskHolders(k)
      BY <1>3 DEF Users, OskHolders
    <2>3. held[k] <= Users(routes, k) + Cardinality(OskHolders(k)) + Cardinality(GlobalHolders(k))
      BY DEF CountInv
    <2>4. held \in [Output -> Nat]
      BY DEF TypeOK
    <2>5. CASE k # h
      <3>1. GlobalHolders(k)' = GlobalHolders(k)
        BY <1>0, <1>3, <1>6, <2>1, <2>5 DEF GlobalHolders, CurrentGlobal
      <3>2. held'[k] = held[k]
        BY <1>8, <2>4, <2>5 DEF SetHeld
      <3> QED
        BY <2>2, <2>3, <3>1, <3>2
    <2>6. CASE k = h /\ ActiveNow
      <3>1. held'[k] = held[k] + 1
        BY <1>8, <2>4, <2>6 DEF SetHeld
      <3>2. ~Counts(n)
        <4>1. Pressed
          BY <1>8, <2>6 DEF Releases
        <4> QED
          BY <1>0, <1>2, <4>1 DEF Pressed, Counts, CurrentGlobal
      <3>3. GlobalHolders(k)' = GlobalHolders(k) \cup {n} /\ n \notin GlobalHolders(k)
        BY <1>0, <1>2, <1>3, <1>5, <1>6, <2>1, <2>6, <3>2 DEF GlobalHolders, CurrentGlobal
      <3>4. Cardinality(GlobalHolders(k)') = Cardinality(GlobalHolders(k)) + 1
        BY <1>1, <3>3, FS_AddElement DEF HoldersCounted
      <3> QED
        BY <1>1, <2>2, <2>3, <3>1, <3>4 DEF HoldersCounted
    <2>7. CASE k = h /\ ~ActiveNow
      <3>1. held'[k] = IF held[k] = 0 THEN 0 ELSE held[k] - 1
        BY <1>8, <2>4, <2>7 DEF SetHeld
      <3>2. GlobalHolders(k)' = GlobalHolders(k) \ {n}
        BY <1>0, <1>2, <1>3, <1>5, <1>6, <2>1, <2>7 DEF GlobalHolders, CurrentGlobal
      <3>3. Cardinality(GlobalHolders(k)') = IF n \in GlobalHolders(k) THEN Cardinality(GlobalHolders(k)) - 1
                                             ELSE Cardinality(GlobalHolders(k))
        BY <1>1, <3>2, FS_RemoveElement DEF HoldersCounted
      <3> QED
        BY <1>1, <2>2, <2>3, <3>1, <3>3 DEF HoldersCounted
    <2> QED
      BY <2>5, <2>6, <2>7
  <1> QED
    BY <1>7, <1>8

(* One OSK binding is handled: each input has one binding at most.         *)
LEMMA OskCount ==
    ASSUME TypeOK, TypeOK', CountInv, OskStep
    PROVE  CountInv'
  <1> USE DEF mainVars, callVars
  <1>1. HoldersCounted /\ HoldersCounted'
    BY HoldersFinite, PTL
  <1>2. /\ index \in DOMAIN config.osk /\ config.osk[index].key \in Output
        /\ \A i \in DOMAIN config.osk : config.osk[i].input = OskInput => i = index
    <2>1. config \in Configs /\ index \in 1..Len(config.osk) /\ DOMAIN config.osk = 1..Len(config.osk)
      BY ConfigTyped DEF OskStep, TypeOK
    <2>2. config.osk[index] \in OskBinding /\ ValidConfig(config)
      BY <2>1, ConfigTyped
    <2> QED
      BY <2>1, <2>2 DEF OskBinding, Output, ValidConfig, OskInput
  <1>3. /\ UNCHANGED <<config, routes, global, previous, before, pc>> /\ pc = "osk"
    BY DEF OskStep
  <1>4. \A i : Counts(i)' <=> Counts(i)
    BY <1>3 DEF Counts
  <1>5. held \in [Output -> Nat]
    BY DEF TypeOK
  <1>6. CASE UNCHANGED <<oskActive, held, down>>
    BY <1>3, <1>4, <1>6, SameCount
  <1>7. ASSUME NEW k \in Output
        PROVE  /\ held[k] <= Users(routes, k) + Cardinality(OskHolders(k)) + Cardinality(GlobalHolders(k))
               /\ Users(routes, k)' = Users(routes, k) /\ GlobalHolders(k)' = GlobalHolders(k)
    BY <1>3, <1>4 DEF CountInv, Users, GlobalHolders
  <1>8. CASE /\ OskInput \notin oskActive /\ oskActive' = oskActive \cup {OskInput}
             /\ SetHeld(config.osk[index].key, TRUE)
    <2> SUFFICES ASSUME NEW k \in Output
                 PROVE  (held[k] <= Users(routes, k) + Cardinality(OskHolders(k)) + Cardinality(GlobalHolders(k)))'
      BY DEF CountInv
    <2>1. CASE k = config.osk[index].key
      <3>1. held'[k] = held[k] + 1
        BY <1>5, <1>8, <2>1 DEF SetHeld
      <3>2. OskHolders(k)' = OskHolders(k) \cup {index} /\ index \notin OskHolders(k)
        BY <1>2, <1>3, <1>8, <2>1 DEF OskHolders, OskInput
      <3>3. Cardinality(OskHolders(k)') = Cardinality(OskHolders(k)) + 1
        BY <1>1, <3>2, FS_AddElement DEF HoldersCounted
      <3> QED
        BY <1>1, <1>7, <3>1, <3>3 DEF HoldersCounted
    <2>2. CASE k # config.osk[index].key
      <3>1. held'[k] = held[k]
        BY <1>5, <1>8, <2>2 DEF SetHeld
      <3>2. OskHolders(k)' = OskHolders(k)
        BY <1>2, <1>3, <1>8, <2>2 DEF OskHolders, OskInput
      <3> QED
        BY <1>7, <3>1, <3>2
    <2> QED
      BY <2>1, <2>2
  <1>9. CASE /\ OskInput \in oskActive /\ oskActive' = oskActive \ {OskInput}
             /\ SetHeld(config.osk[index].key, FALSE)
    <2> SUFFICES ASSUME NEW k \in Output
                 PROVE  (held[k] <= Users(routes, k) + Cardinality(OskHolders(k)) + Cardinality(GlobalHolders(k)))'
      BY DEF CountInv
    <2>1. CASE k = config.osk[index].key
      <3>1. held'[k] = IF held[k] = 0 THEN 0 ELSE held[k] - 1
        BY <1>5, <1>9, <2>1 DEF SetHeld
      <3>2. OskHolders(k)' = OskHolders(k) \ {index} /\ index \in OskHolders(k)
        BY <1>2, <1>3, <1>9, <2>1 DEF OskHolders, OskInput
      <3>3. Cardinality(OskHolders(k)') = Cardinality(OskHolders(k)) - 1
        BY <1>1, <3>2, FS_RemoveElement DEF HoldersCounted
      <3> QED
        BY <1>1, <1>7, <3>1, <3>3 DEF HoldersCounted
    <2>2. CASE k # config.osk[index].key
      <3>1. held'[k] = held[k]
        BY <1>5, <1>9, <2>2 DEF SetHeld
      <3>2. OskHolders(k)' = OskHolders(k)
        BY <1>2, <1>3, <1>9, <2>2 DEF OskHolders, OskInput
      <3> QED
        BY <1>7, <3>1, <3>2
    <2> QED
      BY <2>1, <2>2
  <1> QED
    BY <1>6, <1>8, <1>9 DEF OskStep

(* Routes with different triggers are counted apart.                       *)
LEMMA UsersUnion ==
    ASSUME NEW rs, NEW qs, \A r \in rs \cup qs : r.trigger \in Button,
           \A r \in rs, q \in qs : r.trigger # q.trigger, NEW k
    PROVE  /\ Users(rs \cup qs, k) = Users(rs, k) + Users(qs, k)
           /\ Users(rs, k) \in Nat /\ Users(qs, k) \in Nat
  <1> DEFINE T(s) == {r.trigger : r \in {q \in s : k \in q.held}}
  <1>1. T(rs \cup qs) = T(rs) \cup T(qs) /\ T(rs) \cap T(qs) = {}
    OBVIOUS
  <1>2. T(rs) \in SUBSET Button /\ T(qs) \in SUBSET Button
    OBVIOUS
  <1>3. /\ Users(rs, k) = Cardinality(T(rs)) /\ Users(qs, k) = Cardinality(T(qs))
        /\ Users(rs \cup qs, k) = Cardinality(T(rs \cup qs))
    BY DEF Users
  <1> HIDE DEF T
  <1>4. IsFiniteSet(T(rs)) /\ IsFiniteSet(T(qs))
    BY <1>2, ConstantsAssumption, FS_Subset
  <1>5. Cardinality(T(rs)) \in Nat /\ Cardinality(T(qs)) \in Nat
    BY <1>4, FS_CardinalityType
  <1>6. Cardinality(T(rs) \cup T(qs)) = Cardinality(T(rs)) + Cardinality(T(qs)) - Cardinality({})
    BY <1>1, <1>4, FS_Union
  <1>7. Cardinality({}) = 0
    BY FS_EmptySet
  <1>8. Cardinality(T(rs) \cup T(qs)) = Cardinality(T(rs)) + Cardinality(T(qs))
    BY <1>5, <1>6, <1>7
  <1> QED
    BY <1>1, <1>3, <1>5, <1>8

(* Lost routes give up what they were counted for, new ones are counted.   *)
LEMMA RouteCount ==
    ASSUME TypeOK, TypeOK', ActInv, OneRoutePerTrigger', CountInv, UpdateRoutes
    PROVE  CountInv'
  <1>1. HoldersCounted /\ HoldersCounted'
    BY HoldersFinite, PTL
  <1>2. /\ UNCHANGED <<config, global, oskActive, previous>>
        /\ routes' = KeptRoutes \cup NewRoutes /\ pc' = "idle" /\ pc = "route"
        /\ held' = [k \in Output |-> AfterReleases(k) + Users(NewRoutes, k)]
    BY DEF UpdateRoutes, TiltAxes, Return
  <1>3. /\ \A r \in routes : r.trigger \in Button
        /\ \A r \in NewRoutes : r.trigger \in Button
        /\ routes = KeptRoutes \cup LostRoutes /\ KeptRoutes \cap LostRoutes = {}
    BY NewRoutesTyped DEF TypeOK, Route, KeptRoutes, LostRoutes
  <1>4. /\ \A r \in KeptRoutes, q \in LostRoutes : r.trigger # q.trigger
        /\ \A r \in KeptRoutes, q \in NewRoutes : r.trigger # q.trigger
    BY <1>3, NewRouteFacts DEF ActInv, OneRoutePerTrigger
  <1> SUFFICES ASSUME NEW k \in Output
               PROVE  (held[k] <= Users(routes, k) + Cardinality(OskHolders(k)) + Cardinality(GlobalHolders(k)))'
    BY DEF CountInv
  <1>5. /\ Users(routes, k) = Users(KeptRoutes, k) + Users(LostRoutes, k)
        /\ Users(KeptRoutes, k) \in Nat /\ Users(LostRoutes, k) \in Nat
    BY <1>3, <1>4, UsersUnion
  <1>6. /\ Users(routes, k)' = Users(KeptRoutes, k) + Users(NewRoutes, k) /\ Users(NewRoutes, k) \in Nat
    <2>1. Users(routes, k)' = Users(KeptRoutes \cup NewRoutes, k)
      BY <1>2 DEF Users
    <2> QED
      BY <1>3, <1>4, <2>1, UsersUnion
  <1>7. OskHolders(k)' = OskHolders(k) /\ GlobalHolders(k)' = GlobalHolders(k)
    BY <1>2 DEF OskHolders, GlobalHolders, Counts
  <1>8. held[k] <= Users(routes, k) + Cardinality(OskHolders(k)) + Cardinality(GlobalHolders(k))
    BY DEF CountInv
  <1>9. held'[k] = AfterReleases(k) + Users(NewRoutes, k)
    BY <1>2
  <1>10. /\ held[k] \in Nat /\ Cardinality(OskHolders(k)) \in Nat /\ Cardinality(GlobalHolders(k)) \in Nat
    BY <1>1 DEF HoldersCounted
  <1>11. AfterReleases(k) <= Users(KeptRoutes, k) + Cardinality(OskHolders(k)) + Cardinality(GlobalHolders(k))
         /\ AfterReleases(k) \in Nat
    BY <1>5, <1>8, <1>10 DEF AfterReleases
  <1> QED
    BY <1>5, <1>6, <1>7, <1>9, <1>10, <1>11

(* Every step keeps the bound.                                             *)
LEMMA CountStep ==
    TypeOK /\ TypeOK' /\ ActInv /\ ActInv' /\ CountInv /\ [Next]_vars => CountInv'
  <1> SUFFICES ASSUME TypeOK, TypeOK', ActInv, ActInv', CountInv, [Next]_vars
               PROVE  CountInv'
    OBVIOUS
  <1> USE DEF mapperVars, hostVars, mainVars, callVars
  <1>1. CallInv /\ OneRoutePerTrigger'
    BY DEF ActInv
  <1>2. /\ DOMAIN config.globals \subseteq Nat \ {0} /\ index \in Nat
        /\ \A i \in DOMAIN config.globals : i <= Len(config.globals)
        /\ Len(config.globals) \in Nat
    <2>1. Len(config.globals) \in Nat /\ DOMAIN config.globals = 1..Len(config.globals)
      BY ConfigTyped DEF TypeOK
    <2> QED
      BY <2>1 DEF TypeOK
  <1>3. CASE BeginReport
    <2>1. \A i \in DOMAIN config.globals : Counts(i) => Counts(i)'
      <3>1. /\ pc = "idle" /\ index = 1 /\ index' = 1 /\ pc' = "global" /\ before' = previous
            /\ UNCHANGED <<global, config>>
        BY <1>1, <1>3 DEF BeginReport, CallInv, BetweenReports
      <3>2. \A i \in DOMAIN config.globals : i >= 1
        BY <1>2
      <3> QED
        BY <3>1, <3>2 DEF Counts
    <2> QED
      BY <1>3, <2>1, SameCount DEF BeginReport
  <1>4. CASE GlobalQuiet
    <2>1. Pressed => HeldBy(CurrentGlobal.action) = {}
      BY <1>4 DEF GlobalQuiet, HeldBy
    <2> QED
      BY <1>1, <1>4, <2>1, GlobalCount DEF GlobalQuiet
  <1>5. CASE GlobalHold
    BY <1>1, <1>5, GlobalCount DEF GlobalHold
  <1>6. CASE GlobalSwitchMode \/ GlobalToggle \/ RouteSwitchMode
    <2>1. held' = [k \in Output |-> 0]
      BY <1>6 DEF GlobalSwitchMode, GlobalToggle, RouteSwitchMode, SwitchMode, ReleaseOutputs
    <2> QED
      BY <2>1, ClearedCount
  <1>7. CASE GlobalsDone
    <2>1. \A i \in DOMAIN config.globals : Counts(i) => Counts(i)'
      <3> SUFFICES ASSUME NEW i \in DOMAIN config.globals, Counts(i)
                   PROVE  Counts(i)'
        OBVIOUS
      <3>1. ~(i >= index) /\ pc' # "global" /\ UNCHANGED <<global, config, previous>>
        BY <1>2, <1>7 DEF GlobalsDone
      <3> QED
        BY <3>1 DEF Counts
    <2> QED
      BY <1>7, <2>1, SameCount DEF GlobalsDone
  <1>8. CASE OskStep
    BY <1>8, OskCount
  <1>9. CASE OskDone
    <2>1. \A i \in DOMAIN config.globals : Counts(i) => Counts(i)'
      <3>1. pc = "osk" /\ pc' = "idle" /\ UNCHANGED <<global, config, previous>>
        BY <1>9 DEF OskDone, Return
      <3> QED
        BY <3>1 DEF Counts
    <2> QED
      BY <1>9, <2>1, SameCount DEF OskDone
  <1>10. CASE UpdateRoutes
    BY <1>1, <1>10, RouteCount
  <1>11. ASSUME NEW m, IpcModeChange(m)
         PROVE  CountInv'
    <2>1. CASE UNCHANGED <<mapperVars, hostVars>>
      <3>1. \A i \in DOMAIN config.globals : Counts(i) => Counts(i)'
        BY <1>11, <2>1 DEF IpcModeChange, Counts
      <3> QED
        BY <2>1, <3>1, SameCount
    <2>2. CASE SwitchMode(m)
      BY <2>2, ClearedCount DEF SwitchMode, ReleaseOutputs
    <2> QED
      BY <1>11, <2>1, <2>2 DEF IpcModeChange
  <1>12. CASE IpcConfigApply \/ IpcOskHide \/ Disconnect
    <2>1. held' = [k \in Output |-> 0]
      BY <1>12 DEF IpcConfigApply, IpcOskHide, Disconnect, Suspend, ReleaseOutputs
    <2> QED
      BY <2>1, ClearedCount
  <1>13. CASE IpcKey \/ IpcKeyReleased \/ GraceEnds \/ UNCHANGED vars
    <2>1. UNCHANGED <<mapperVars, before, index>> /\ (pc' = "global" <=> pc = "global")
      BY <1>13 DEF IpcKey, TapWith, IpcKeyReleased, GraceEnds, vars
    <2>2. \A i \in DOMAIN config.globals : Counts(i) => Counts(i)'
      BY <2>1 DEF Counts
    <2> QED
      BY <2>1, <2>2, SameCount
  <1> QED
    BY <1>3, <1>4, <1>5, <1>6, <1>7, <1>8, <1>9, <1>10, <1>11, <1>12, <1>13
    DEF Next, IpcModeSet, IpcModeNext

(* No output stays pressed with nobody pressing it: each is held at most   *)
(* as often as there are acting bindings whose buttons are down that hold  *)
(* it, whatever was overlapped, suspended, reloaded or cut short before    *)
(* (mapper.rs set_held, the loops of process, release_outputs, suspend).   *)
THEOREM NobodyHoldsAlone == Spec => []HeldHasHolders
  <1>1. Init => CountInv
    <2> SUFFICES ASSUME Init, NEW k \in Output
                 PROVE  held[k] <= Users(routes, k) + Cardinality(OskHolders(k)) + Cardinality(GlobalHolders(k))
      BY DEF CountInv
    <2>1. HoldersCounted /\ held[k] = 0
      BY TypeInit, HoldersFinite DEF Init
    <2> QED
      BY <2>1 DEF HoldersCounted
  <1>2. CountInv => HeldHasHolders
    <2> SUFFICES ASSUME CountInv, BetweenReports, NEW k \in Output
                 PROVE  held[k] <= Holders(k)
      BY DEF HeldHasHolders
    <2>1. GlobalHolders(k) = {i \in DOMAIN config.globals :
                                /\ k \in HeldBy(config.globals[i].action)
                                /\ global[i].active
                                /\ config.globals[i].inputs \subseteq previous}
      BY DEF GlobalHolders, Counts, BetweenReports
    <2> QED
      BY <2>1 DEF CountInv, Holders, OskHolders
  <1>3. IInv => TypeOK /\ ActInv
    BY DEF IInv, ActInv
  <1> QED
    BY <1>1, <1>2, <1>3, CountStep, Invariance, PTL DEF Spec
=============================================================================
