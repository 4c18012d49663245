-------------------------- MODULE AxisMapperProofs ---------------------------
(***************************************************************************)
(* Proofs about VirtualPads and AxisMapper, for any modes, mappings,       *)
(* reports and full deflection: what a gamepad shows is what is held, an   *)
(* engaged mapping has met its threshold, and the touchpad is the mode's.  *)
(***************************************************************************)
EXTENDS AxisMapper, NaturalsInduction, WellFoundedInduction, TLAPS

-----------------------------------------------------------------------------
(* The numbers of the virtual gamepads.                                    *)

(* A quotient that is rounded to the nearest whole number.                 *)
LEMMA QuotientBound ==
    ASSUME NEW a \in Nat, NEW b \in Nat \ {0}, NEW c \in Nat, a <= c * b
    PROVE  RoundedQuotient(a, b) \in 0..c
<1> DEFINE n == 2 * a + b
           d == 2 * b
           q == n \div d
<1>1. n \in Nat /\ d \in Nat \ {0} /\ c * b \in Nat
  OBVIOUS
<1>2. q \in Int /\ d * q <= n /\ n < d * (q + 1)
  <2> HIDE DEF n, d
  <2> QED BY <1>1
<1>3. n < d * (c + 1)
  <2>1. d * (c + 1) = 2 * (c * b) + 2 * b
    OBVIOUS
  <2> QED BY <1>1, <2>1
<1>4. q >= 0
  <2> SUFFICES ASSUME q + 1 <= 0 PROVE FALSE
    BY <1>2
  <2>1. d * (q + 1) <= 0
    <3> HIDE DEF d, q
    <3> QED BY <1>1, <1>2
  <2> HIDE DEF d, q, n
  <2> QED BY <1>1, <1>2, <2>1
<1>5. q < c + 1
  <2> SUFFICES ASSUME q >= c + 1 PROVE FALSE
    BY <1>2
  <2>1. d * (c + 1) <= d * q
    <3> HIDE DEF d, q
    <3> QED BY <1>1, <1>2
  <2>2. d * (c + 1) \in Int /\ d * q \in Int
    BY <1>1, <1>2
  <2> HIDE DEF d, q, n
  <2> QED BY <1>1, <1>2, <1>3, <2>1, <2>2
<1> QED BY <1>2, <1>4, <1>5 DEF RoundedQuotient

(* At rest: the centre of a DualShock's stick is 128, not 127.5.           *)
LEMMA AtRestNumbers == XboxStick(0) = 0 /\ Ds4Stick(0) = 128 /\ TriggerByte(0) = 0
<1>1. Unit \in Nat \ {0}
  BY PadAssumption
<1>2. ASSUME NEW b \in Nat \ {0} PROVE RoundedQuotient(0, b) = 0
  <2>1. RoundedQuotient(0, b) \in 0..0
    BY QuotientBound
  <2> QED BY <2>1
<1>3. RoundedQuotient(255 * Unit, 2 * Unit) = 128
  <2> DEFINE n == 2 * (255 * Unit) + 2 * Unit
             d == 2 * (2 * Unit)
             q == n \div d
  <2>1. n \in Nat /\ d \in Nat \ {0} /\ n = d * 128
    BY <1>1
  <2>2. q = 128
    <3> HIDE DEF n, d
    <3> QED BY <2>1
  <2> QED BY <2>2 DEF RoundedQuotient
<1>4. (0 + Unit) * 255 = 255 * Unit /\ 0 * (StickRange - 1) = 0 /\ 255 * 0 = 0
  BY <1>1 DEF StickRange
<1> QED BY <1>1, <1>2, <1>3, <1>4 DEF XboxStick, Ds4Stick, TriggerByte

(* No deflection overflows the width that the gamepad's device has for it. *)
LEMMA XboxStickBound == \A v \in -Unit..Unit : XboxStick(v) \in Int16
<1> SUFFICES ASSUME NEW v \in -Unit..Unit PROVE XboxStick(v) \in Int16
  OBVIOUS
<1>1. Unit \in Nat \ {0} /\ v \in Int /\ -Unit <= v /\ v <= Unit
  BY PadAssumption
<1>2. PICK range \in Nat \ {0} : range = StickRange
  BY DEF StickRange
<1>3. ASSUME NEW w \in 0..Unit, NEW c \in Nat PROVE RoundedQuotient(w * c, Unit) \in 0..c
  <2>1. w * c \in Nat /\ w * c <= c * Unit
    BY <1>1
  <2> QED BY <1>1, <2>1, QuotientBound
<1>4. CASE v < 0
  <2>1. PICK w \in 0..Unit : w = -v
    BY <1>1, <1>4
  <2>2. PICK q \in 0..range : q = RoundedQuotient(w * range, Unit)
    BY <1>3
  <2>3. XboxStick(v) = -q
    BY <1>2, <1>4, <2>1, <2>2 DEF XboxStick
  <2> QED BY <1>2, <2>3 DEF Int16
<1>5. CASE ~(v < 0)
  <2>1. v \in 0..Unit /\ range - 1 \in Nat
    BY <1>1, <1>5
  <2>2. PICK q \in 0..(range - 1) : q = RoundedQuotient(v * (range - 1), Unit)
    BY <1>3, <2>1
  <2>3. XboxStick(v) = q
    BY <1>2, <1>5, <2>2 DEF XboxStick
  <2> QED BY <1>2, <2>3 DEF Int16
<1> QED BY <1>4, <1>5

LEMMA Ds4StickBound == \A v \in -Unit..Unit : Ds4Stick(v) \in 0..255
<1> SUFFICES ASSUME NEW v \in -Unit..Unit PROVE Ds4Stick(v) \in 0..255
  OBVIOUS
<1>1. Unit \in Nat \ {0} /\ 2 * Unit \in Nat \ {0}
  BY PadAssumption
<1>2. (v + Unit) * 255 \in Nat /\ (v + Unit) * 255 <= 255 * (2 * Unit)
  BY <1>1
<1> QED BY <1>1, <1>2, QuotientBound, ZenonT(40) DEF Ds4Stick

LEMMA TriggerByteBound == \A v \in 0..Unit : TriggerByte(v) \in 0..255
<1> SUFFICES ASSUME NEW v \in 0..Unit PROVE TriggerByte(v) \in 0..255
  OBVIOUS
<1>1. Unit \in Nat \ {0}
  BY PadAssumption
<1>2. 255 * v \in Nat /\ 255 * v <= 255 * Unit
  BY <1>1
<1> QED BY <1>1, <1>2, QuotientBound, ZenonT(40) DEF TriggerByte

-----------------------------------------------------------------------------
(* The virtual gamepads.                                                   *)

(* What Outputs::set_gamepad_axis may be given.                            *)
Deflections == {axes \in [Axis -> -Unit..Unit] : \A t \in Triggers : axes[t] >= 0}

LEMMA DeflectionBounds == \A axes \in Deflections, t \in Triggers : axes[t] \in 0..Unit
BY PadAssumption DEF Deflections, Axis

LEMMA PadKinds ==
    ASSUME NEW p \in Pads
    PROVE  /\ p.kind \in Kinds
           /\ p.kind = "none" => p = NoPad
           /\ p.kind = "xbox" => p \in XboxPads
           /\ p.kind = "dualshock4" => p \in Ds4Pads
BY DEF Pads, XboxPads, Ds4Pads, NoPad, Kinds

LEMMA NewPads == \A kind \in Kinds : NewPad(kind) \in Pads /\ NewPad(kind).kind = kind
<1>1. NewXbox \in XboxPads
  <2>1. [a \in StickAxis |-> 0] \in [StickAxis -> Int16] /\ [t \in Triggers |-> 0] \in [Triggers -> 0..255]
    BY DEF Int16, StickRange
  <2>2. <<0, 0>> \in (-1..1) \X (-1..1)
    OBVIOUS
  <2> HIDE DEF StickAxis, Triggers
  <2> QED BY <2>1, <2>2 DEF NewXbox, XboxPads
<1>2. NewDs4 \in Ds4Pads
  <2>1. [a \in StickAxis |-> 128] \in [StickAxis -> 0..255] /\ [t \in Triggers |-> 0] \in [Triggers -> 0..255]
    OBVIOUS
  <2>2. [active |-> FALSE, id |-> 0] \in [active : BOOLEAN, id : 0..ContactIds - 1]
    BY PadAssumption
  <2> QED BY <2>1, <2>2 DEF NewDs4, Ds4Pads
<1> QED BY <1>1, <1>2 DEF NewPad, NewXbox, NewDs4, NoPad, Pads, Kinds

LEMMA HatType == \A dpad : HatOf(dpad) \in (-1..1) \X (-1..1)
BY DEF HatOf, Bit

(* The calls, field by field.                                              *)
HatAfter(p, buttons, dpad) ==
    <<IF buttons \cap {"left", "right"} # {} THEN HatOf(dpad)[1] ELSE p.hat[1],
      IF buttons \cap {"up", "down"} # {} THEN HatOf(dpad)[2] ELSE p.hat[2]>>
TriggersAfter(p, buttons, pressed) ==
    [t \in Triggers |-> IF t \notin buttons THEN p.z[t] ELSE IF pressed THEN 255 ELSE 0]

LEMMA XboxButtonsFields ==
    ASSUME NEW p \in XboxPads, NEW buttons, NEW pressed \in BOOLEAN
    PROVE  LET q == XboxButtons(p, buttons, pressed)
           IN /\ q \in XboxPads
              /\ q.keys = With(p.keys, buttons \cap PlainButtons, pressed)
              /\ q.dpad = With(p.dpad, buttons \cap Directions, pressed)
              /\ q.hat = HatAfter(p, buttons, q.dpad)
              /\ q.sticks = p.sticks
              /\ q.z = TriggersAfter(p, buttons, pressed)
<1> DEFINE dpad == With(p.dpad, buttons \cap Directions, pressed)
           keys == With(p.keys, buttons \cap PlainButtons, pressed)
           hat == HatAfter(p, buttons, dpad)
           z == TriggersAfter(p, buttons, pressed)
           q == XboxButtons(p, buttons, pressed)
<1>1. p = [kind |-> "xbox", keys |-> p.keys, dpad |-> p.dpad, hat |-> p.hat, sticks |-> p.sticks, z |-> p.z]
  BY DEF XboxPads
<1>2. q = [p EXCEPT !.keys = keys, !.z = z, !.dpad = dpad, !.hat = hat]
  BY DEF XboxButtons, HatAfter, TriggersAfter
<1>3. /\ keys \in SUBSET PlainButtons /\ dpad \in SUBSET Directions
      /\ z \in [Triggers -> 0..255] /\ hat \in (-1..1) \X (-1..1)
  <2>1. keys \in SUBSET PlainButtons /\ dpad \in SUBSET Directions
    BY DEF XboxPads, With
  <2>2. z \in [Triggers -> 0..255]
    BY DEF XboxPads, TriggersAfter
  <2>3. p.hat \in (-1..1) \X (-1..1)
    BY DEF XboxPads
  <2> HIDE DEF dpad
  <2>4. hat \in (-1..1) \X (-1..1)
    BY <2>3, HatType DEF HatAfter
  <2> QED BY <2>1, <2>2, <2>4
<1> HIDE DEF dpad, keys, hat, z, q
<1>4. /\ q.keys = keys /\ q.dpad = dpad /\ q.hat = hat /\ q.sticks = p.sticks /\ q.z = z
      /\ q \in XboxPads
  BY <1>1, <1>2, <1>3 DEF XboxPads
<1> QED BY <1>4 DEF dpad, keys, hat, z, q

LEMMA Ds4ButtonsFields ==
    ASSUME NEW p \in Ds4Pads, NEW buttons, NEW pressed \in BOOLEAN
    PROVE  LET q == Ds4Buttons(p, buttons, pressed)
           IN /\ q \in Ds4Pads
              /\ q.keys = With(p.keys, buttons \cap PlainButtons, pressed)
              /\ q.triggerButtons = With(p.triggerButtons, buttons \cap Triggers, pressed)
              /\ q.dpad = With(p.dpad, buttons \cap Directions, pressed)
              /\ q.sticks = p.sticks /\ q.triggers = p.triggers
              /\ q.touch = p.touch /\ q.clicked = p.clicked
<1> DEFINE dpad == With(p.dpad, buttons \cap Directions, pressed)
           keys == With(p.keys, buttons \cap PlainButtons, pressed)
           pulled == With(p.triggerButtons, buttons \cap Triggers, pressed)
           q == Ds4Buttons(p, buttons, pressed)
<1>1. p = [kind |-> "dualshock4", keys |-> p.keys, dpad |-> p.dpad, sticks |-> p.sticks,
           triggers |-> p.triggers, triggerButtons |-> p.triggerButtons, touch |-> p.touch,
           clicked |-> p.clicked, battery |-> p.battery]
  BY DEF Ds4Pads
<1>2. q = [p EXCEPT !.keys = keys, !.triggerButtons = pulled, !.dpad = dpad]
  BY DEF Ds4Buttons
<1>3. keys \in SUBSET PlainButtons /\ dpad \in SUBSET Directions /\ pulled \in SUBSET Triggers
  BY DEF Ds4Pads, With
<1> HIDE DEF dpad, keys, pulled, q
<1>4. /\ q.keys = keys /\ q.triggerButtons = pulled /\ q.dpad = dpad
      /\ q.sticks = p.sticks /\ q.triggers = p.triggers /\ q.touch = p.touch /\ q.clicked = p.clicked
      /\ q \in Ds4Pads
  BY <1>1, <1>2, <1>3, ZenonT(40) DEF Ds4Pads
<1> QED BY <1>4 DEF dpad, keys, pulled, q

LEMMA XboxAxesFields ==
    ASSUME NEW p \in XboxPads, NEW moved, NEW value \in Deflections
    PROVE  LET q == XboxAxes(p, moved, value)
           IN /\ q \in XboxPads
              /\ q.keys = p.keys /\ q.dpad = p.dpad /\ q.hat = p.hat
              /\ q.sticks = [a \in StickAxis |-> IF a \in moved THEN XboxStick(value[a]) ELSE p.sticks[a]]
              /\ \A t \in Triggers : q.z[t] = IF t \in moved THEN TriggerByte(value[t]) ELSE p.z[t]
<1> DEFINE sticks == [a \in StickAxis |-> IF a \in moved THEN XboxStick(value[a]) ELSE p.sticks[a]]
           z == [t \in Triggers |-> IF t \in moved THEN TriggerByte(value[t]) ELSE p.z[t]]
           q == XboxAxes(p, moved, value)
<1>1. p = [kind |-> "xbox", keys |-> p.keys, dpad |-> p.dpad, hat |-> p.hat, sticks |-> p.sticks, z |-> p.z]
  BY DEF XboxPads
<1>2. q = [p EXCEPT !.sticks = sticks, !.z = z]
  BY DEF XboxAxes
<1>3. sticks \in [StickAxis -> Int16]
  <2>1. p.sticks \in [StickAxis -> Int16]
    BY DEF XboxPads
  <2>2. \A a \in StickAxis : XboxStick(value[a]) \in Int16
    BY XboxStickBound DEF Deflections, Axis
  <2> QED BY <2>1, <2>2
<1>4. z \in [Triggers -> 0..255]
  <2>1. p.z \in [Triggers -> 0..255]
    BY DEF XboxPads
  <2>2. \A t \in Triggers : TriggerByte(value[t]) \in 0..255
    BY DeflectionBounds, TriggerByteBound
  <2> QED BY <2>1, <2>2
<1> HIDE DEF sticks, z, q
<1>5. /\ q.keys = p.keys /\ q.dpad = p.dpad /\ q.hat = p.hat /\ q.sticks = sticks /\ q.z = z
      /\ q \in XboxPads
  BY <1>1, <1>2, <1>3, <1>4, ZenonT(40) DEF XboxPads
<1> QED BY <1>5 DEF sticks, z, q

LEMMA Ds4AxesFields ==
    ASSUME NEW p \in Ds4Pads, NEW moved, NEW value \in Deflections
    PROVE  LET q == Ds4Axes(p, moved, value)
           IN /\ q \in Ds4Pads
              /\ q.keys = p.keys /\ q.dpad = p.dpad /\ q.triggerButtons = p.triggerButtons
              /\ q.sticks = [a \in StickAxis |-> IF a \in moved THEN Ds4Stick(value[a]) ELSE p.sticks[a]]
              /\ q.triggers = [t \in Triggers |-> IF t \in moved THEN TriggerByte(value[t]) ELSE p.triggers[t]]
              /\ q.touch = p.touch /\ q.clicked = p.clicked
<1> DEFINE sticks == [a \in StickAxis |-> IF a \in moved THEN Ds4Stick(value[a]) ELSE p.sticks[a]]
           triggers == [t \in Triggers |-> IF t \in moved THEN TriggerByte(value[t]) ELSE p.triggers[t]]
           q == Ds4Axes(p, moved, value)
<1>1. p = [kind |-> "dualshock4", keys |-> p.keys, dpad |-> p.dpad, sticks |-> p.sticks,
           triggers |-> p.triggers, triggerButtons |-> p.triggerButtons, touch |-> p.touch,
           clicked |-> p.clicked, battery |-> p.battery]
  BY DEF Ds4Pads
<1>2. q = [p EXCEPT !.sticks = sticks, !.triggers = triggers]
  BY DEF Ds4Axes
<1>3. sticks \in [StickAxis -> 0..255]
  <2>1. p.sticks \in [StickAxis -> 0..255]
    BY DEF Ds4Pads
  <2>2. \A a \in StickAxis : Ds4Stick(value[a]) \in 0..255
    BY Ds4StickBound DEF Deflections, Axis
  <2> QED BY <2>1, <2>2
<1>4. triggers \in [Triggers -> 0..255]
  <2>1. p.triggers \in [Triggers -> 0..255]
    BY DEF Ds4Pads
  <2>2. \A t \in Triggers : TriggerByte(value[t]) \in 0..255
    BY DeflectionBounds, TriggerByteBound
  <2> QED BY <2>1, <2>2
<1> HIDE DEF sticks, triggers, q
<1>5. /\ q.keys = p.keys /\ q.dpad = p.dpad /\ q.triggerButtons = p.triggerButtons
      /\ q.sticks = sticks /\ q.triggers = triggers /\ q.touch = p.touch /\ q.clicked = p.clicked
      /\ q \in Ds4Pads
  BY <1>1, <1>2, <1>3, <1>4, ZenonT(40) DEF Ds4Pads
<1> QED BY <1>5 DEF sticks, triggers, q

-----------------------------------------------------------------------------
(* What a gamepad shows.                                                   *)

(* A gamepad shows buttons and deflections, whatever it was told before;   *)
(* of an Xbox trigger, which both write, only that it rests.               *)
Shows(p, buttons, axes) ==
    /\ p.kind = "xbox" =>
          /\ p.keys = buttons \cap PlainButtons
          /\ p.dpad = buttons \cap Directions /\ p.hat = HatOf(p.dpad)
          /\ p.sticks = [a \in StickAxis |-> XboxStick(axes[a])]
          /\ \A t \in Triggers : t \notin buttons /\ axes[t] = 0 => p.z[t] = 0
    /\ p.kind = "dualshock4" =>
          /\ p.keys = buttons \cap PlainButtons
          /\ p.dpad = buttons \cap Directions /\ p.triggerButtons = buttons \cap Triggers
          /\ p.sticks = [a \in StickAxis |-> Ds4Stick(axes[a])]
          /\ p.triggers = [t \in Triggers |-> TriggerByte(axes[t])]

SameSource(p, q) == p.kind = "dualshock4" => q.touch = p.touch /\ q.clicked = p.clicked

LEMMA AtRestDeflection == AtRest \in Deflections /\ \A a \in Axis : AtRest[a] = 0
BY PadAssumption DEF AtRest, Deflections, Axis, StickAxis, Triggers

LEMMA NewShows == \A kind \in Kinds : Shows(NewPad(kind), {}, AtRest)
<1> SUFFICES ASSUME NEW kind \in Kinds PROVE Shows(NewPad(kind), {}, AtRest)
  OBVIOUS
<1>1. /\ \A a \in StickAxis : XboxStick(AtRest[a]) = 0 /\ Ds4Stick(AtRest[a]) = 128
      /\ \A t \in Triggers : TriggerByte(AtRest[t]) = 0
  BY AtRestDeflection, AtRestNumbers DEF Axis
<1>2. /\ [a \in StickAxis |-> XboxStick(AtRest[a])] = [a \in StickAxis |-> 0]
      /\ [a \in StickAxis |-> Ds4Stick(AtRest[a])] = [a \in StickAxis |-> 128]
      /\ [t \in Triggers |-> TriggerByte(AtRest[t])] = [t \in Triggers |-> 0]
  BY <1>1
<1>3. HatOf({}) = <<0, 0>>
  BY DEF HatOf, Bit
<1>4. CASE kind = "xbox"
  BY <1>2, <1>3, <1>4 DEF Shows, NewPad, NewXbox
<1>5. CASE kind = "dualshock4"
  BY <1>2, <1>5 DEF Shows, NewPad, NewDs4
<1>6. CASE kind = "none"
  BY <1>6 DEF Shows, NewPad, NoPad
<1> QED BY <1>4, <1>5, <1>6 DEF Kinds

(* Pressing adds buttons to what a gamepad shows, releasing takes them.    *)
LEMMA ButtonsShow ==
    ASSUME NEW p \in Pads, NEW buttons, NEW pressed \in BOOLEAN
    PROVE  LET q == EmitButtons(p, buttons, pressed)
           IN /\ q \in Pads /\ q.kind = p.kind /\ SameSource(p, q)
              /\ \A h, axes : Shows(p, h, axes) => Shows(q, With(h, buttons, pressed), axes)
<1> DEFINE q == EmitButtons(p, buttons, pressed)
<1>1. CASE p.kind = "none"
  BY <1>1, PadKinds DEF EmitButtons, SameSource, Shows
<1>2. CASE p.kind = "xbox"
  <2>1. p \in XboxPads /\ q = XboxButtons(p, buttons, pressed)
    BY <1>2, PadKinds DEF EmitButtons
  <2>2. /\ q \in XboxPads
        /\ q.keys = With(p.keys, buttons \cap PlainButtons, pressed)
        /\ q.dpad = With(p.dpad, buttons \cap Directions, pressed)
        /\ q.hat = HatAfter(p, buttons, q.dpad)
        /\ q.sticks = p.sticks
        /\ q.z = TriggersAfter(p, buttons, pressed)
    <3>1. /\ XboxButtons(p, buttons, pressed) \in XboxPads
          /\ XboxButtons(p, buttons, pressed).keys = With(p.keys, buttons \cap PlainButtons, pressed)
          /\ XboxButtons(p, buttons, pressed).dpad = With(p.dpad, buttons \cap Directions, pressed)
          /\ XboxButtons(p, buttons, pressed).hat = HatAfter(p, buttons, XboxButtons(p, buttons, pressed).dpad)
          /\ XboxButtons(p, buttons, pressed).sticks = p.sticks
          /\ XboxButtons(p, buttons, pressed).z = TriggersAfter(p, buttons, pressed)
      BY <2>1, XboxButtonsFields, Zenon
    <3> QED BY <2>1, <3>1, Zenon
  <2>3. q.kind = "xbox"
    BY <2>2 DEF XboxPads
  <2> HIDE DEF q
  <2>4. ASSUME NEW h, NEW axes, Shows(p, h, axes) PROVE Shows(q, With(h, buttons, pressed), axes)
    <3>1. /\ p.keys = h \cap PlainButtons /\ p.dpad = h \cap Directions /\ p.hat = HatOf(p.dpad)
          /\ p.sticks = [a \in StickAxis |-> XboxStick(axes[a])]
          /\ \A t \in Triggers : t \notin h /\ axes[t] = 0 => p.z[t] = 0
      BY <1>2, <2>4 DEF Shows
    <3>2. /\ q.keys = With(h, buttons, pressed) \cap PlainButtons
          /\ q.dpad = With(h, buttons, pressed) \cap Directions
      BY <2>2, <3>1 DEF With
    <3>3. /\ buttons \cap {"left", "right"} = {} => HatOf(q.dpad)[1] = HatOf(p.dpad)[1]
          /\ buttons \cap {"up", "down"} = {} => HatOf(q.dpad)[2] = HatOf(p.dpad)[2]
      BY <2>2 DEF HatOf, Bit, With
    <3>4. q.hat = HatOf(q.dpad)
      <4>1. HatOf(q.dpad) = <<HatOf(q.dpad)[1], HatOf(q.dpad)[2]>>
        BY DEF HatOf
      <4> QED BY <2>2, <3>1, <3>3, <4>1 DEF HatAfter
    <3>5. ASSUME NEW t \in Triggers, t \notin With(h, buttons, pressed), axes[t] = 0 PROVE q.z[t] = 0
      BY <2>2, <3>1, <3>5 DEF With, TriggersAfter
    <3> QED BY <2>2, <2>3, <3>1, <3>2, <3>4, <3>5 DEF Shows
  <2> QED BY <1>2, <2>2, <2>3, <2>4 DEF Pads, SameSource, q
<1>3. CASE p.kind = "dualshock4"
  <2>1. p \in Ds4Pads /\ q = Ds4Buttons(p, buttons, pressed)
    BY <1>3, PadKinds DEF EmitButtons
  <2>2. /\ q \in Ds4Pads
        /\ q.keys = With(p.keys, buttons \cap PlainButtons, pressed)
        /\ q.triggerButtons = With(p.triggerButtons, buttons \cap Triggers, pressed)
        /\ q.dpad = With(p.dpad, buttons \cap Directions, pressed)
        /\ q.sticks = p.sticks /\ q.triggers = p.triggers
        /\ q.touch = p.touch /\ q.clicked = p.clicked
    <3>1. /\ Ds4Buttons(p, buttons, pressed) \in Ds4Pads
          /\ Ds4Buttons(p, buttons, pressed).keys = With(p.keys, buttons \cap PlainButtons, pressed)
          /\ Ds4Buttons(p, buttons, pressed).triggerButtons = With(p.triggerButtons, buttons \cap Triggers, pressed)
          /\ Ds4Buttons(p, buttons, pressed).dpad = With(p.dpad, buttons \cap Directions, pressed)
          /\ Ds4Buttons(p, buttons, pressed).sticks = p.sticks /\ Ds4Buttons(p, buttons, pressed).triggers = p.triggers
          /\ Ds4Buttons(p, buttons, pressed).touch = p.touch /\ Ds4Buttons(p, buttons, pressed).clicked = p.clicked
      BY <2>1, Ds4ButtonsFields, Zenon
    <3> QED BY <2>1, <3>1, Zenon
  <2>3. q.kind = "dualshock4"
    BY <2>2 DEF Ds4Pads
  <2> HIDE DEF q
  <2>4. ASSUME NEW h, NEW axes, Shows(p, h, axes) PROVE Shows(q, With(h, buttons, pressed), axes)
    <3>1. /\ p.keys = h \cap PlainButtons /\ p.dpad = h \cap Directions
          /\ p.triggerButtons = h \cap Triggers
          /\ p.sticks = [a \in StickAxis |-> Ds4Stick(axes[a])]
          /\ p.triggers = [t \in Triggers |-> TriggerByte(axes[t])]
      BY <1>3, <2>4 DEF Shows
    <3>2. /\ q.keys = With(h, buttons, pressed) \cap PlainButtons
          /\ q.dpad = With(h, buttons, pressed) \cap Directions
          /\ q.triggerButtons = With(h, buttons, pressed) \cap Triggers
      BY <2>2, <3>1 DEF With
    <3> QED BY <2>2, <2>3, <3>1, <3>2 DEF Shows
  <2> QED BY <1>3, <2>2, <2>3, <2>4 DEF Pads, SameSource, q
<1> QED BY <1>1, <1>2, <1>3, PadKinds DEF Kinds

(* Telling it the axes that have changed, at least, leaves nothing of what *)
(* they were.                                                              *)
LEMMA AxesShow ==
    ASSUME NEW p \in Pads, NEW moved, NEW value \in Deflections
    PROVE  LET q == EmitAxes(p, moved, value)
           IN /\ q \in Pads /\ q.kind = p.kind /\ SameSource(p, q)
              /\ \A h, axes :
                    Shows(p, h, axes) /\ (\A a \in Axis : value[a] # axes[a] => a \in moved)
                    => Shows(q, h, value)
<1> DEFINE q == EmitAxes(p, moved, value)
<1>1. CASE p.kind = "none"
  BY <1>1, PadKinds DEF EmitAxes, SameSource, Shows
<1>2. CASE p.kind = "xbox"
  <2>1. p \in XboxPads /\ q = XboxAxes(p, moved, value)
    BY <1>2, PadKinds DEF EmitAxes
  <2>2. /\ q \in XboxPads
        /\ q.keys = p.keys /\ q.dpad = p.dpad /\ q.hat = p.hat
        /\ q.sticks = [a \in StickAxis |-> IF a \in moved THEN XboxStick(value[a]) ELSE p.sticks[a]]
        /\ \A t \in Triggers : q.z[t] = IF t \in moved THEN TriggerByte(value[t]) ELSE p.z[t]
    BY <2>1, XboxAxesFields
  <2>3. q.kind = "xbox"
    BY <2>2 DEF XboxPads
  <2> HIDE DEF q
  <2>4. ASSUME NEW h, NEW axes, Shows(p, h, axes), \A a \in Axis : value[a] # axes[a] => a \in moved
        PROVE  Shows(q, h, value)
    <3>1. /\ p.keys = h \cap PlainButtons /\ p.dpad = h \cap Directions /\ p.hat = HatOf(p.dpad)
          /\ p.sticks = [a \in StickAxis |-> XboxStick(axes[a])]
          /\ \A t \in Triggers : t \notin h /\ axes[t] = 0 => p.z[t] = 0
      BY <1>2, <2>4 DEF Shows
    <3>2. q.sticks = [a \in StickAxis |-> XboxStick(value[a])]
      <4>1. \A a \in StickAxis : a \notin moved => p.sticks[a] = XboxStick(value[a])
        BY <2>4, <3>1 DEF Axis
      <4> QED BY <2>2, <4>1
    <3>3. ASSUME NEW t \in Triggers, t \notin h, value[t] = 0 PROVE q.z[t] = 0
      <4>1. CASE t \in moved
        BY <2>2, <3>3, <4>1, AtRestNumbers
      <4>2. CASE t \notin moved
        <5>1. axes[t] = 0
          BY <2>4, <3>3, <4>2 DEF Axis
        <5> QED BY <2>2, <3>1, <3>3, <4>2, <5>1
      <4> QED BY <4>1, <4>2
    <3> QED BY <2>2, <2>3, <3>1, <3>2, <3>3 DEF Shows
  <2> QED BY <1>2, <2>2, <2>3, <2>4 DEF Pads, SameSource, q
<1>3. CASE p.kind = "dualshock4"
  <2>1. p \in Ds4Pads /\ q = Ds4Axes(p, moved, value)
    BY <1>3, PadKinds DEF EmitAxes
  <2>2. /\ q \in Ds4Pads
        /\ q.keys = p.keys /\ q.dpad = p.dpad /\ q.triggerButtons = p.triggerButtons
        /\ q.sticks = [a \in StickAxis |-> IF a \in moved THEN Ds4Stick(value[a]) ELSE p.sticks[a]]
        /\ q.triggers = [t \in Triggers |-> IF t \in moved THEN TriggerByte(value[t]) ELSE p.triggers[t]]
        /\ q.touch = p.touch /\ q.clicked = p.clicked
    BY <2>1, Ds4AxesFields
  <2>3. q.kind = "dualshock4"
    BY <2>2 DEF Ds4Pads
  <2> HIDE DEF q
  <2>4. ASSUME NEW h, NEW axes, Shows(p, h, axes), \A a \in Axis : value[a] # axes[a] => a \in moved
        PROVE  Shows(q, h, value)
    <3>1. /\ p.keys = h \cap PlainButtons /\ p.dpad = h \cap Directions
          /\ p.triggerButtons = h \cap Triggers
          /\ p.sticks = [a \in StickAxis |-> Ds4Stick(axes[a])]
          /\ p.triggers = [t \in Triggers |-> TriggerByte(axes[t])]
      BY <1>3, <2>4 DEF Shows
    <3>2. q.sticks = [a \in StickAxis |-> Ds4Stick(value[a])]
      <4>1. \A a \in StickAxis : a \notin moved => p.sticks[a] = Ds4Stick(value[a])
        BY <2>4, <3>1 DEF Axis
      <4> QED BY <2>2, <4>1
    <3>3. q.triggers = [t \in Triggers |-> TriggerByte(value[t])]
      <4>1. \A t \in Triggers : t \notin moved => p.triggers[t] = TriggerByte(value[t])
        BY <2>4, <3>1 DEF Axis
      <4> QED BY <2>2, <4>1
    <3> QED BY <2>2, <2>3, <3>1, <3>2, <3>3 DEF Shows
  <2> QED BY <1>3, <2>2, <2>3, <2>4 DEF Pads, SameSource, q
<1> QED BY <1>1, <1>2, <1>3, PadKinds DEF Kinds

(* Two gamepads of a kind that show the same look the same to a game.      *)
LEMMA ShowsControls ==
    ASSUME NEW p \in Pads, NEW q \in Pads, p.kind = q.kind, NEW h, NEW axes,
           Shows(p, h, axes), Shows(q, h, axes)
    PROVE  IF p.kind = "xbox"
             THEN /\ \A field \in {"keys", "hat", "sticks"} : Controls(p)[field] = Controls(q)[field]
                  /\ \A t \in Triggers : t \notin h /\ axes[t] = 0 => Controls(p).triggers[t] = 0
             ELSE Controls(p) = Controls(q)
<1>1. CASE p.kind = "xbox"
  <2>1. /\ Controls(p) = [keys |-> p.keys, hat |-> p.hat, sticks |-> p.sticks, triggers |-> p.z]
        /\ Controls(q) = [keys |-> q.keys, hat |-> q.hat, sticks |-> q.sticks, triggers |-> q.z]
    BY <1>1 DEF Controls
  <2>2. p.keys = q.keys /\ p.hat = q.hat /\ p.sticks = q.sticks
    BY <1>1 DEF Shows
  <2>3. \A t \in Triggers : t \notin h /\ axes[t] = 0 => p.z[t] = 0
    BY <1>1 DEF Shows
  <2> QED BY <1>1, <2>1, <2>2, <2>3
<1>2. CASE p.kind = "dualshock4"
  <2>1. /\ p.keys = q.keys /\ p.dpad = q.dpad /\ p.triggerButtons = q.triggerButtons
        /\ p.sticks = q.sticks /\ p.triggers = q.triggers
    BY <1>2 DEF Shows
  <2>2. Controls(p) = Controls(q)
    BY <1>2, <2>1 DEF Controls, Ds4Trigger
  <2> QED BY <1>2, <2>2
<1>3. CASE p.kind = "none"
  BY <1>3 DEF Controls
<1> QED BY <1>1, <1>2, <1>3, PadKinds DEF Kinds

-----------------------------------------------------------------------------
(* The axes loop.                                                          *)

LEMMA ModesTyped ==
    ASSUME NEW m \in DOMAIN Modes
    PROVE  /\ Modes[m].gamepad \in Kinds /\ Modes[m].touchpad \in PadSides \cup {"none"}
           /\ Mappings(m) \in Seq(AxisMapping)
           /\ Len(Mappings(m)) \in Nat /\ DOMAIN Mappings(m) = 1..Len(Mappings(m))
<1>1. PICK S : S = [gamepad : Kinds, touchpad : PadSides \cup {"none"}, axes : Seq(AxisMapping)]
  OBVIOUS
<1>2. Modes \in Seq(S)
  BY <1>1, AxisAssumption
<1>3. Modes[m] \in S
  BY <1>2
<1>4. /\ Modes[m].gamepad \in Kinds /\ Modes[m].touchpad \in PadSides \cup {"none"}
      /\ Modes[m].axes \in Seq(AxisMapping)
  BY <1>1, <1>3
<1> QED BY <1>4 DEF Mappings

LEMMA TransformedType ==
    ASSUME NEW v \in Vector2, NEW mapping, mapping.sensitivity \in Int
    PROVE  Transformed(v, mapping) \in Vector2
<1> DEFINE turned == IF mapping.swap THEN <<v[2], v[1]>> ELSE v
           x == IF mapping.invertX THEN -turned[1] ELSE turned[1]
           y == IF mapping.invertY THEN -turned[2] ELSE turned[2]
           s == mapping.sensitivity
<1>1. turned[1] \in Int /\ turned[2] \in Int
  BY DEF Vector2
<1> HIDE DEF turned
<1>2. x \in Int /\ y \in Int /\ s \in Int
  BY <1>1
<1> HIDE DEF x, y, s
<1>3. x * s \in Int /\ y * s \in Int
  BY <1>2
<1>4. Transformed(v, mapping) = IF x * x + y * y <= mapping.deadzone * mapping.deadzone
                                  THEN <<0, 0>> ELSE <<x * s, y * s>>
  BY DEF Transformed, turned, x, y, s
<1>5. <<0, 0>> \in Vector2 /\ <<x * s, y * s>> \in Vector2
  BY <1>3 DEF Vector2
<1> QED BY <1>4, <1>5

LEMMA ContributionType ==
    ASSUME NEW mapping \in AxisMapping, NEW report \in ControllerState, NEW sum \in [Axis -> Int]
    PROVE  Contribution(mapping, report, sum) \in [Axis -> Int]
<1>1. CASE mapping.source = "trigger"
  <2>1. mapping.of \in Triggers /\ mapping.sensitivity \in Int
    BY <1>1 DEF AxisMapping
  <2>2. report.triggers[mapping.of] \in Int
    BY <2>1, PadAssumption DEF ControllerState
  <2>3. report.triggers[mapping.of] * mapping.sensitivity \in Int
    BY <2>1, <2>2
  <2>4. Scaled(report.triggers[mapping.of], mapping) \in Int
    BY <2>3 DEF Scaled
  <2> QED BY <1>1, <2>4 DEF Contribution
<1>2. CASE mapping.source # "trigger"
  <2>1. /\ mapping.source \in {"stick", "gyro", "pad"} /\ mapping.of \in PadSides
        /\ mapping.sensitivity \in Int
        /\ mapping.target \in {<<"LeftX", "LeftY">>, <<"RightX", "RightY">>}
    BY <1>2 DEF AxisMapping
  <2>2. SourceOf(mapping, report) \in Vector2
    <3>1. /\ report.sticks[mapping.of] \in Vector2 /\ report.gyro \in Vector2
          /\ report.pads[mapping.of].position \in Vector2 /\ <<0, 0>> \in Vector2
      BY <2>1 DEF ControllerState, Vector2
    <3> QED BY <2>1, <3>1 DEF SourceOf
  <2>3. PICK v \in Vector2 : v = Transformed(SourceOf(mapping, report), mapping)
    BY <2>1, <2>2, TransformedType
  <2>4. PICK a, b \in Axis : mapping.target = <<a, b>>
    BY <2>1 DEF Axis, StickAxis
  <2>5. PICK x, y \in Int : v = <<x, y>>
    BY DEF Vector2
  <2>6. Contribution(mapping, report, sum) = [sum EXCEPT ![a] = @ + x, ![b] = @ + y]
    BY <1>2, <2>3, <2>4, <2>5 DEF Contribution
  <2> DEFINE first == [sum EXCEPT ![a] = sum[a] + x]
  <2>7. first \in [Axis -> Int]
    OBVIOUS
  <2> HIDE DEF first
  <2>8. [first EXCEPT ![b] = first[b] + y] \in [Axis -> Int]
    BY <2>7
  <2> QED BY <2>6, <2>8 DEF first
<1> QED BY <1>1, <1>2

(* The first number of mappings for which the sum did not exist, or was no *)
(* deflection of every axis, would follow one for which it is.             *)
LEMMA LeastNatural ==
    ASSUME NEW S \in SUBSET Nat, S # {}
    PROVE  \E m \in S : \A n \in S : m <= n
<1> DEFINE R == OpToRel(<, Nat)
<1>1. PICK m \in S : \A n \in S : ~ (<<n, m>> \in R)
  BY NatLessThanWellFounded, WFMin
<1>2. \A k, n \in Nat : <<n, k>> \in R <=> n < k
  BY DEF OpToRel
<1>3. \A n \in S : ~ (n < m)
  BY <1>1, <1>2
<1> QED BY <1>3

LEMMA AxesAfterType ==
    ASSUME mode \in DOMAIN Modes, NEW report \in Reports
    PROVE  AxesAfter(report) \in Deflections
<1> DEFINE mappings == Mappings(mode)
           IsSum(g, m) ==
               g = [n \in 0..m |->
                      IF n = 0 THEN AtRest
                      ELSE IF ActiveAfter(report)[n] THEN Contribution(Mappings(mode)[n], report, g[n - 1])
                      ELSE g[n - 1]]
           Missing == {m \in 0..Len(mappings) : ~\E g : IsSum(g, m)}
           sum == CHOOSE g : IsSum(g, Len(mappings))
           Wrong == {m \in 0..Len(mappings) : sum[m] \notin [Axis -> Int]}
<1>1. AxesAfter(report) =
        [a \in Axis |-> Clamped(sum[Len(mappings)][a], IF a \in Triggers THEN 0 ELSE -Unit)]
  BY DEF AxesAfter
<1>2. Len(mappings) \in Nat /\ \A n \in 1..Len(mappings) : mappings[n] \in AxisMapping
  BY ModesTyped
<1>3. report \in ControllerState
  BY AxisAssumption
<1> HIDE DEF mappings
<1>4. Missing = {}
  <2> SUFFICES ASSUME Missing # {} PROVE FALSE
    OBVIOUS
  <2>1. PICK m \in Missing : \A n \in Missing : m <= n
    <3>1. Missing \in SUBSET Nat
      BY <1>2
    <3> HIDE DEF Missing
    <3> QED BY <3>1, LeastNatural
  <2>2. m # 0
    <3> DEFINE g == [n \in 0..0 |-> AtRest]
    <3>1. IsSum(g, 0)
      BY DEF IsSum
    <3> HIDE DEF g
    <3>2. 0 \notin Missing
      BY <3>1
    <3> QED BY <2>1, <3>2
  <2>3. m \in 1..Len(mappings) /\ m - 1 \in 0..Len(mappings) /\ m - 1 \notin Missing
    <3>1. m \in 0..Len(mappings)
      OBVIOUS
    <3> HIDE DEF Missing
    <3> QED BY <1>2, <2>1, <2>2, <3>1
  <2>4. PICK g : IsSum(g, m - 1)
    BY <2>3
  <2> DEFINE Adds(n, s) == IF ActiveAfter(report)[n] THEN Contribution(Mappings(mode)[n], report, s) ELSE s
             more == [n \in 0..m |-> IF n < m THEN g[n] ELSE Adds(m, g[m - 1])]
  <2>5. ASSUME NEW n \in 0..m
        PROVE  more[n] = IF n = 0 THEN AtRest ELSE Adds(n, more[n - 1])
    <3>1. n > 0 => n - 1 \in 0..m /\ n - 1 < m /\ more[n - 1] = g[n - 1]
      BY <2>3
    <3>2. CASE n = m
      <4>1. more[n] = Adds(m, g[m - 1])
        BY <3>2
      <4> HIDE DEF more, Adds
      <4> QED BY <3>1, <3>2, <2>3, <4>1
    <3>3. CASE n # m
      <4>1. n \in 0..(m - 1) /\ more[n] = g[n]
        BY <2>3, <3>3
      <4>2. g[n] = IF n = 0 THEN AtRest ELSE Adds(n, g[n - 1])
        BY <2>4, <4>1 DEF IsSum
      <4> HIDE DEF more, Adds
      <4> QED BY <3>1, <4>1, <4>2
    <3> QED BY <3>2, <3>3
  <2>6. more = [n \in 0..m |-> more[n]]
    OBVIOUS
  <2>7. IsSum(more, m)
    <3> HIDE DEF more
    <3> QED BY <2>5, <2>6 DEF IsSum
  <2> HIDE DEF more
  <2> QED BY <2>1, <2>7
<1>5. IsSum(sum, Len(mappings))
  <2> HIDE DEF IsSum
  <2> QED BY <1>2, <1>4
<1>6. ASSUME NEW n \in 0..Len(mappings)
      PROVE  sum[n] = IF n = 0 THEN AtRest
                      ELSE IF ActiveAfter(report)[n] THEN Contribution(mappings[n], report, sum[n - 1])
                      ELSE sum[n - 1]
  <2> HIDE DEF sum
  <2> QED BY <1>5 DEF mappings
<1> HIDE DEF sum, IsSum, Missing
<1>7. Wrong = {}
  <2> SUFFICES ASSUME Wrong # {} PROVE FALSE
    OBVIOUS
  <2>1. PICK m \in Wrong : \A n \in Wrong : m <= n
    <3>1. Wrong \in SUBSET Nat
      BY <1>2
    <3> HIDE DEF Wrong
    <3> QED BY <3>1, LeastNatural
  <2>2. m # 0
    <3>1. AtRest \in [Axis -> Int]
      BY DEF AtRest
    <3> QED BY <1>2, <1>6, <3>1
  <2>3. m \in 1..Len(mappings) /\ m - 1 \in 0..Len(mappings) /\ m - 1 \notin Wrong
    BY <1>2, <2>1, <2>2
  <2>4. sum[m - 1] \in [Axis -> Int]
    BY <2>3
  <2>5. sum[m] \in [Axis -> Int]
    <3>1. Contribution(mappings[m], report, sum[m - 1]) \in [Axis -> Int]
      BY <1>2, <1>3, <2>3, <2>4, ContributionType
    <3> QED BY <1>6, <2>3, <2>4, <3>1, SMTT(30)
  <2> QED BY <2>1, <2>5
<1>8. PICK s \in [Axis -> Int] : s = sum[Len(mappings)]
  BY <1>2, <1>7
<1>9. AxesAfter(report) = [a \in Axis |-> Clamped(s[a], IF a \in Triggers THEN 0 ELSE -Unit)]
  BY <1>1, <1>8
<1>10. ASSUME NEW a \in Axis
       PROVE  LET low == IF a \in Triggers THEN 0 ELSE -Unit
              IN Clamped(s[a], low) \in -Unit..Unit /\ Clamped(s[a], low) >= low
  BY PadAssumption DEF Clamped
<1> QED BY <1>9, <1>10 DEF Deflections, Axis

-----------------------------------------------------------------------------
(* The calls of the main loop on the gamepad.                              *)

LEMMA ReleaseShows ==
    ASSUME NEW p \in Pads, NEW h \in SUBSET held, NEW axes, Shows(p, h, axes),
           \A a \in Axis : axes[a] = gamepadAxes[a] \/ axes[a] = 0
    PROVE  LET q == Released(p)
           IN q \in Pads /\ q.kind = p.kind /\ SameSource(p, q) /\ Shows(q, {}, AtRest)
<1> DEFINE q == EmitButtons(p, held, FALSE)
           r == EmitAxes(q, Moved(AtRest), AtRest)
<1>1. q \in Pads /\ q.kind = p.kind /\ SameSource(p, q) /\ Shows(q, With(h, held, FALSE), axes)
  BY ButtonsShow
<1>2. With(h, held, FALSE) = {}
  BY DEF With
<1> HIDE DEF q
<1>3. \A a \in Axis : AtRest[a] # axes[a] => a \in Moved(AtRest)
  BY AtRestDeflection DEF Moved
<1>4. r \in Pads /\ r.kind = q.kind /\ SameSource(q, r) /\ Shows(r, {}, AtRest)
  BY <1>1, <1>2, <1>3, AtRestDeflection, AxesShow
<1> QED BY <1>1, <1>4 DEF Released, SameSource, q

LEMMA ContactsTyped ==
    ASSUME NEW report \in ControllerState, NEW side \in PadSides
    PROVE  report.pads[side].touched \in BOOLEAN /\ report.pads[side].clicked \in BOOLEAN
BY DEF ControllerState

LEMMA SourceShows ==
    ASSUME NEW p \in Pads, NEW report \in ControllerState, NEW side \in PadSides \cup {"none"}
    PROVE  LET q == UpdateSource(p, report.pads, side)
               contact == IF side = "none" THEN NoContact ELSE report.pads[side]
           IN /\ q \in Pads /\ q.kind = p.kind
              /\ p.kind = "dualshock4" => q.touch.active = contact.touched /\ q.clicked = contact.clicked
              /\ \A h, axes : Shows(p, h, axes) => Shows(q, h, axes)
<1> DEFINE q == UpdateSource(p, report.pads, side)
           contact == IF side = "none" THEN NoContact ELSE report.pads[side]
<1>1. CASE p.kind # "dualshock4"
  BY <1>1 DEF UpdateSource
<1>2. CASE p.kind = "dualshock4"
  <2>1. p \in Ds4Pads
    BY <1>2, PadKinds
  <2>2. p = [kind |-> "dualshock4", keys |-> p.keys, dpad |-> p.dpad, sticks |-> p.sticks,
             triggers |-> p.triggers, triggerButtons |-> p.triggerButtons, touch |-> p.touch,
             clicked |-> p.clicked, battery |-> p.battery]
    BY <2>1 DEF Ds4Pads
  <2>3. contact.touched \in BOOLEAN /\ contact.clicked \in BOOLEAN
    BY ContactsTyped DEF NoContact
  <2> HIDE DEF contact
  <2>4. PICK touch \in [active : BOOLEAN, id : 0..ContactIds - 1] :
            q = [p EXCEPT !.clicked = contact.clicked, !.touch = touch] /\ touch.active = contact.touched
    <3> DEFINE fresh == contact.touched /\ ~p.touch.active
               touch == [active |-> contact.touched,
                         id |-> IF fresh THEN (p.touch.id + 1) % ContactIds ELSE p.touch.id]
    <3>1. q = [p EXCEPT !.clicked = contact.clicked, !.touch = touch]
      BY <1>2 DEF UpdateSource, contact
    <3>2. p.touch.id \in 0..ContactIds - 1 /\ (p.touch.id + 1) % ContactIds \in 0..ContactIds - 1
      <4>1. p.touch.id \in 0..ContactIds - 1
        BY <2>1 DEF Ds4Pads
      <4>2. \A n \in Nat : (n + 1) % ContactIds \in 0..ContactIds - 1
        BY PadAssumption
      <4> QED BY <4>1, <4>2, PadAssumption
    <3> HIDE DEF fresh
    <3>3. touch \in [active : BOOLEAN, id : 0..ContactIds - 1]
      BY <2>3, <3>2
    <3> QED BY <3>1, <3>3
  <2> HIDE DEF q
  <2>5. /\ q.keys = p.keys /\ q.dpad = p.dpad /\ q.sticks = p.sticks /\ q.triggers = p.triggers
        /\ q.triggerButtons = p.triggerButtons /\ q.touch = touch /\ q.clicked = contact.clicked
        /\ q \in Ds4Pads /\ q.kind = "dualshock4"
    BY <2>1, <2>2, <2>3, <2>4, ZenonT(40) DEF Ds4Pads
  <2>6. \A h, axes : Shows(p, h, axes) => Shows(q, h, axes)
    BY <1>2, <2>5 DEF Shows
  <2> QED BY <1>2, <2>4, <2>5, <2>6 DEF Pads, q, contact
<1> QED BY <1>1, <1>2

LEMMA SetShows ==
    ASSUME NEW p \in Pads, NEW kind \in Kinds, Shows(p, {}, AtRest)
    PROVE  LET q == SetGamepad(p, kind)
           IN q \in Pads /\ q.kind = kind /\ Shows(q, {}, AtRest) /\ (p.kind = kind => q = p)
BY NewPads, NewShows DEF SetGamepad

LEMMA BatteryShows ==
    ASSUME NEW p \in Pads, NEW percent \in 0..100
    PROVE  LET q == SetBattery(p, percent)
           IN q \in Pads /\ q.kind = p.kind /\ \A h, axes : Shows(p, h, axes) => Shows(q, h, axes)
<1> DEFINE q == SetBattery(p, percent)
<1>1. CASE p.kind # "dualshock4"
  BY <1>1 DEF SetBattery
<1>2. CASE p.kind = "dualshock4"
  <2>1. p \in Ds4Pads
    BY <1>2, PadKinds
  <2>2. p = [kind |-> "dualshock4", keys |-> p.keys, dpad |-> p.dpad, sticks |-> p.sticks,
             triggers |-> p.triggers, triggerButtons |-> p.triggerButtons, touch |-> p.touch,
             clicked |-> p.clicked, battery |-> p.battery]
    BY <2>1 DEF Ds4Pads
  <2>3. q = [p EXCEPT !.battery = percent]
    BY <1>2 DEF SetBattery
  <2> HIDE DEF q
  <2>4. /\ q.keys = p.keys /\ q.dpad = p.dpad /\ q.sticks = p.sticks /\ q.triggers = p.triggers
        /\ q.triggerButtons = p.triggerButtons /\ q \in Ds4Pads /\ q.kind = "dualshock4"
    BY <2>1, <2>2, <2>3 DEF Ds4Pads
  <2>5. \A h, axes : Shows(p, h, axes) => Shows(q, h, axes)
    BY <1>2, <2>4 DEF Shows
  <2> QED BY <1>2, <2>4, <2>5 DEF Pads, q
<1> QED BY <1>1, <1>2

-----------------------------------------------------------------------------
(* The inductive invariant.                                                *)

(* While the keyboard is shown the axes are not looked at, so nothing may  *)
(* be engaged then: the thresholds it has met would grow old.              *)
AxisInv ==
    /\ TypeOK
    /\ gamepadAxes \in Deflections
    /\ Shows(pad, held, gamepadAxes)
    /\ visible => axisActive = Inactive(mode)
    /\ EngagementIsFresh

LEMMA InactiveType ==
    ASSUME NEW m \in DOMAIN Modes
    PROVE  /\ Inactive(m) \in [DOMAIN Mappings(m) -> BOOLEAN]
           /\ \A i \in DOMAIN Mappings(m) : Inactive(m)[i] = FALSE
BY DEF Inactive

LEMMA EngagedType ==
    ASSUME NEW mapping \in AxisMapping, NEW was \in BOOLEAN, NEW report
    PROVE  Engaged(mapping, was, report) \in BOOLEAN
<1>1. mapping.activation \in AxisActivation
  BY DEF AxisMapping
<1>2. mapping.activation.kind \in {"always", "buttons", "trigger"}
  BY <1>1 DEF AxisActivation
<1>3. CASE mapping.activation.kind = "always"
  BY <1>3 DEF Engaged
<1>4. CASE mapping.activation.kind = "buttons"
  <2>1. Engaged(mapping, was, report) <=> mapping.activation.buttons \subseteq report.buttons
    BY <1>4 DEF Engaged
  <2>2. (mapping.activation.buttons \subseteq report.buttons) \in BOOLEAN
    OBVIOUS
  <2>3. Engaged(mapping, was, report) = (mapping.activation.buttons \subseteq report.buttons)
    BY <1>4 DEF Engaged
  <2> QED BY <2>2, <2>3, Zenon
<1>5. CASE mapping.activation.kind = "trigger"
  <2> DEFINE value == report.triggers[mapping.activation.source]
  <2>1. \/ Engaged(mapping, was, report) = (value > mapping.activation.release)
        \/ Engaged(mapping, was, report) = (value >= mapping.activation.engage)
    BY <1>5 DEF Engaged
  <2>2. (value > mapping.activation.release) \in BOOLEAN /\ (value >= mapping.activation.engage) \in BOOLEAN
    OBVIOUS
  <2> HIDE DEF value
  <2> QED BY <2>1, <2>2
<1> QED BY <1>2, <1>3, <1>4, <1>5

LEMMA ActiveType ==
    ASSUME TypeOK, NEW report
    PROVE  ActiveAfter(report) \in [DOMAIN Mappings(mode) -> BOOLEAN]
<1>1. /\ Mappings(mode) \in Seq(AxisMapping)
      /\ axisActive \in [DOMAIN Mappings(mode) -> BOOLEAN]
  BY ModesTyped DEF TypeOK
<1>2. \A i \in DOMAIN Mappings(mode) : Mappings(mode)[i] \in AxisMapping /\ axisActive[i] \in BOOLEAN
  BY <1>1
<1>3. \A i \in DOMAIN Mappings(mode) : Engaged(Mappings(mode)[i], axisActive[i], report) \in BOOLEAN
  BY <1>2, EngagedType
<1> QED BY <1>1, <1>3 DEF ActiveAfter

LEMMA ArmedType ==
    ASSUME NEW m, NEW report
    PROVE  ArmedAfter(m, report) \in [DOMAIN Mappings(m) -> BOOLEAN]
BY DEF ArmedAfter

LEMMA AxisInit == Init => AxisInv
<1> SUFFICES ASSUME Init PROVE AxisInv
  OBVIOUS
<1>1. mode \in DOMAIN Modes /\ Modes[mode].gamepad \in Kinds
  BY ModesTyped DEF Init
<1>2. pad \in Pads /\ pad.kind = Modes[mode].gamepad /\ Shows(pad, held, gamepadAxes)
  BY <1>1, NewPads, NewShows DEF Init
<1>3. gamepadAxes \in Deflections /\ gamepadAxes \in [Axis -> -Unit..Unit]
  BY AtRestDeflection DEF Init, Deflections
<1>4. EngagementIsFresh
  BY <1>1, InactiveType DEF Init, EngagementIsFresh
<1> QED BY <1>1, <1>2, <1>3, <1>4, InactiveType DEF Init, AxisInv, TypeOK

(* Every release leaves the mode it leads to fresh and at rest.            *)
LEMMA ReleaseKeeps ==
    ASSUME TypeOK, mode' \in DOMAIN Modes, Release
    PROVE  /\ held' = {} /\ gamepadAxes' = AtRest /\ gamepadAxes' \in Deflections
           /\ gamepadAxes' \in [Axis -> -Unit..Unit] /\ held' \subseteq Bound
           /\ axisActive' \in [DOMAIN Mappings(mode') -> BOOLEAN]
           /\ axisActive' = Inactive(mode')
           /\ EngagementIsFresh'
<1>1. PICK m \in DOMAIN Modes : m = mode'
  OBVIOUS
<1>2. axisActive' = Inactive(m)
  BY <1>1 DEF Release
<1>3. EngagementIsFresh'
  BY <1>1, <1>2, InactiveType DEF EngagementIsFresh
<1>4. gamepadAxes' \in Deflections /\ gamepadAxes' \in [Axis -> -Unit..Unit]
  BY AtRestDeflection DEF Release, Deflections
<1> QED BY <1>1, <1>2, <1>3, <1>4, InactiveType DEF Release

LEMMA TakesKeeps ==
    ASSUME NEW report \in Reports, Takes(report), NEW m, m = mode'
    PROVE  /\ previous' \in Reports /\ connected' = TRUE
           /\ armed' = ArmedAfter(m, report) /\ armed' \in [DOMAIN Mappings(mode') -> BOOLEAN]
BY ArmedType DEF Takes

(* The gamepad of a report, before it is mapped.                           *)
LEMMA SourcedShows ==
    ASSUME TypeOK, Shows(pad, held, gamepadAxes), NEW report \in Reports, mode' \in DOMAIN Modes
    PROVE  LET side == Modes[mode'].touchpad
               contact == IF side = "none" THEN NoContact ELSE report.pads[side]
           IN /\ Sourced(report) \in Pads /\ Sourced(report).kind = pad.kind
              /\ pad.kind = "dualshock4" =>
                    Sourced(report).touch.active = contact.touched /\ Sourced(report).clicked = contact.clicked
              /\ Shows(Sourced(report), held, gamepadAxes)
<1>1. PICK m \in DOMAIN Modes : m = mode'
  OBVIOUS
<1>2. pad \in Pads /\ report \in ControllerState
  BY AxisAssumption DEF TypeOK
<1>3. PICK side \in PadSides \cup {"none"} : side = Modes[m].touchpad
  <2>1. Modes[m].touchpad \in PadSides \cup {"none"}
    BY <1>1, ModesTyped, Zenon
  <2> QED BY <2>1, Zenon
<1>4. Sourced(report) = UpdateSource(pad, report.pads, side)
  BY <1>1, <1>3 DEF Sourced
<1> QED BY <1>1, <1>2, <1>3, <1>4, SourceShows

LEMMA MappedKeeps == AxisInv /\ ReportMapped => AxisInv'
<1> SUFFICES ASSUME AxisInv, ReportMapped PROVE AxisInv'
  OBVIOUS
<1>1. PICK report \in Reports, pressed \in SUBSET Bound :
          /\ mode' = mode /\ Takes(report) /\ held' = pressed
          /\ LET buttons == EmitButtons(EmitButtons(Sourced(report), held \ pressed, FALSE),
                                        pressed \ held, TRUE)
             IN IF visible
                  THEN pad' = buttons /\ UNCHANGED <<axisActive, gamepadAxes>>
                  ELSE /\ axisActive' = ActiveAfter(report)
                       /\ gamepadAxes' = AxesAfter(report)
                       /\ pad' = EmitAxes(buttons, Moved(gamepadAxes'), gamepadAxes')
          /\ visible' = visible
  BY DEF ReportMapped
<1>2. /\ TypeOK /\ mode \in DOMAIN Modes /\ gamepadAxes \in Deflections
      /\ Shows(pad, held, gamepadAxes) /\ pad.kind = Modes[mode].gamepad
  BY DEF AxisInv, TypeOK
<1>3. /\ previous' \in Reports /\ connected' = TRUE
      /\ armed' = ArmedAfter(mode, report) /\ armed' \in [DOMAIN Mappings(mode') -> BOOLEAN]
  BY <1>1, TakesKeeps
<1> DEFINE source == Sourced(report)
           released == EmitButtons(source, held \ pressed, FALSE)
           buttons == EmitButtons(released, pressed \ held, TRUE)
<1>4. source \in Pads /\ source.kind = pad.kind /\ Shows(source, held, gamepadAxes)
  BY <1>1, <1>2, SourcedShows
<1> HIDE DEF source
<1>5. /\ released \in Pads /\ released.kind = pad.kind
      /\ Shows(released, With(held, held \ pressed, FALSE), gamepadAxes)
  BY <1>4, ButtonsShow
<1> HIDE DEF released
<1>6. /\ buttons \in Pads /\ buttons.kind = pad.kind
      /\ Shows(buttons, With(With(held, held \ pressed, FALSE), pressed \ held, TRUE), gamepadAxes)
  BY <1>5, ButtonsShow
<1>7. With(With(held, held \ pressed, FALSE), pressed \ held, TRUE) = pressed
  BY DEF With
<1> HIDE DEF buttons
<1>8. CASE visible
  <2>1. pad' = buttons /\ axisActive' = axisActive /\ gamepadAxes' = gamepadAxes
    BY <1>1, <1>8 DEF buttons, released, source
  <2>2. axisActive' = Inactive(mode)' /\ axisActive' = Inactive(mode)
    BY <1>1, <1>8, <2>1 DEF AxisInv, Inactive, Mappings
  <2>3. EngagementIsFresh'
    BY <1>1, <1>2, <2>2, InactiveType DEF EngagementIsFresh
  <2>4. Shows(pad, held, gamepadAxes)'
    <3>1. Shows(pad', held', gamepadAxes')
      BY <1>1, <1>6, <1>7, <2>1
    <3> QED BY <3>1 DEF Shows
  <2> QED BY <1>1, <1>2, <1>3, <1>6, <2>1, <2>2, <2>3, <2>4 DEF AxisInv, TypeOK, Mappings
<1>9. CASE ~visible
  <2>1. /\ axisActive' = ActiveAfter(report) /\ gamepadAxes' = AxesAfter(report)
        /\ pad' = EmitAxes(buttons, Moved(gamepadAxes'), gamepadAxes')
    BY <1>1, <1>9 DEF buttons, released, source
  <2>2. PICK new \in Deflections : new = gamepadAxes' /\ pad' = EmitAxes(buttons, Moved(new), new)
    BY <1>2, <2>1, AxesAfterType
  <2>3. pad' \in Pads /\ pad'.kind = pad.kind /\ Shows(pad', pressed, new)
    BY <1>6, <1>7, <2>2, AxesShow DEF Moved
  <2>4. Shows(pad, held, gamepadAxes)'
    BY <1>1, <2>2, <2>3 DEF Shows
  <2>5. axisActive' \in [DOMAIN Mappings(mode) -> BOOLEAN]
    BY <1>2, <2>1, ActiveType
  <2>6. EngagementIsFresh'
    <3> SUFFICES ASSUME NEW i \in DOMAIN Mappings(mode),
                        Mappings(mode)[i].activation.kind = "trigger", axisActive'[i]
                 PROVE  armed'[i]
      <4>1. Mappings(mode)' = Mappings(mode) /\ DOMAIN axisActive' = DOMAIN Mappings(mode)
        BY <1>1, <2>5 DEF Mappings
      <4> QED BY <4>1 DEF EngagementIsFresh
    <3> DEFINE activation == Mappings(mode)[i].activation
               value == report.triggers[activation.source]
    <3>1. /\ Engaged(Mappings(mode)[i], axisActive[i], report)
          /\ axisActive[i] \in BOOLEAN
      BY <1>2, <2>1 DEF ActiveAfter, TypeOK
    <3>2. IF axisActive[i] THEN value > activation.release ELSE value >= activation.engage
      BY <3>1 DEF Engaged
    <3>3. axisActive[i] => armed[i]
      BY <1>2 DEF AxisInv, TypeOK, EngagementIsFresh
    <3>4. armed'[i] = (activation.kind = "trigger" /\
                       (value >= activation.engage \/ (mode = mode /\ armed[i] /\ value > activation.release)))
      BY <1>3 DEF ArmedAfter
    <3> HIDE DEF value
    <3> QED BY <3>2, <3>3, <3>4
  <2> QED BY <1>1, <1>2, <1>3, <1>9, <2>2, <2>3, <2>4, <2>5, <2>6 DEF AxisInv, TypeOK, Mappings, Deflections
<1> QED BY <1>8, <1>9

(* A release on the way to a gamepad that has been told nothing since.     *)
LEMMA ReleasedKeeps ==
    ASSUME AxisInv, mode' \in DOMAIN Modes, Release,
           armed' \in [DOMAIN Mappings(mode') -> BOOLEAN],
           previous' \in Reports \cup {NoReport}, visible' \in BOOLEAN, connected' \in BOOLEAN,
           pad' \in Pads, pad'.kind = Modes[mode'].gamepad, Shows(pad', {}, AtRest)
    PROVE  AxisInv'
<1>1. PICK m \in DOMAIN Modes : m = mode'
  OBVIOUS
<1>2. TypeOK
  BY DEF AxisInv
<1>3. /\ held' = {} /\ gamepadAxes' = AtRest /\ gamepadAxes' \in Deflections
      /\ gamepadAxes' \in [Axis -> -Unit..Unit] /\ held' \subseteq Bound
      /\ axisActive' \in [DOMAIN Mappings(mode') -> BOOLEAN]
      /\ axisActive' = Inactive(mode')
      /\ EngagementIsFresh'
  BY <1>2, ReleaseKeeps
<1>4. Shows(pad, held, gamepadAxes)'
  BY <1>3 DEF Shows
<1> QED BY <1>1, <1>3, <1>4 DEF AxisInv, TypeOK, Mappings, Inactive

(* A report that toggles the keyboard or changes the mode.                 *)
LEMMA ReportReleases ==
    ASSUME AxisInv, NEW report \in Reports, mode' \in DOMAIN Modes, Takes(report), Release,
           pad' = SetGamepad(Released(Sourced(report)), Modes[mode'].gamepad), visible' \in BOOLEAN
    PROVE  AxisInv'
<1>1. PICK m \in DOMAIN Modes : m = mode'
  OBVIOUS
<1>2. TypeOK /\ Shows(pad, held, gamepadAxes)
  BY DEF AxisInv
<1>3. /\ previous' \in Reports /\ connected' = TRUE /\ armed' \in [DOMAIN Mappings(mode') -> BOOLEAN]
  BY TakesKeeps
<1>4. Sourced(report) \in Pads /\ Shows(Sourced(report), held, gamepadAxes)
  BY <1>2, SourcedShows
<1>5. Released(Sourced(report)) \in Pads /\ Shows(Released(Sourced(report)), {}, AtRest)
  BY <1>4, ReleaseShows
<1>6. pad' \in Pads /\ pad'.kind = Modes[mode'].gamepad /\ Shows(pad', {}, AtRest)
  BY <1>1, <1>5, ModesTyped, SetShows
<1> QED BY <1>3, <1>6, ReleasedKeeps

LEMMA TogglesKeep == AxisInv /\ ReportToggles => AxisInv'
<1> SUFFICES ASSUME AxisInv, ReportToggles PROVE AxisInv'
  OBVIOUS
<1>1. PICK report \in Reports :
          /\ mode' = mode /\ Takes(report) /\ Release
          /\ pad' = Released(Sourced(report)) /\ visible' = ~visible
  BY DEF ReportToggles
<1>2. /\ TypeOK /\ mode \in DOMAIN Modes /\ visible' \in BOOLEAN
      /\ Shows(pad, held, gamepadAxes) /\ pad.kind = Modes[mode].gamepad
  BY <1>1 DEF AxisInv, TypeOK
<1>3. /\ Sourced(report) \in Pads /\ Sourced(report).kind = pad.kind
      /\ Shows(Sourced(report), held, gamepadAxes)
  BY <1>1, <1>2, SourcedShows
<1>4. Released(Sourced(report)).kind = Modes[mode].gamepad
  BY <1>2, <1>3, ReleaseShows
<1>5. pad' = SetGamepad(Released(Sourced(report)), Modes[mode'].gamepad)
  BY <1>1, <1>4 DEF SetGamepad
<1> QED BY <1>1, <1>2, <1>5, ReportReleases

LEMMA SwitchKeeps == AxisInv /\ ReportSwitchesMode => AxisInv'
<1> SUFFICES ASSUME AxisInv, ReportSwitchesMode PROVE AxisInv'
  OBVIOUS
<1>1. PICK report \in Reports, m \in DOMAIN Modes \ {mode} :
          /\ mode' = m /\ Takes(report) /\ Release
          /\ pad' = SetGamepad(Released(Sourced(report)), Modes[m].gamepad)
          /\ visible' = visible
  BY DEF ReportSwitchesMode
<1>2. visible' \in BOOLEAN /\ mode' \in DOMAIN Modes
  BY <1>1 DEF AxisInv, TypeOK
<1> QED BY <1>1, <1>2, ReportReleases

LEMMA IpcKeeps == AxisInv /\ (IpcModeChange \/ IpcOskHide) => AxisInv'
<1> SUFFICES ASSUME AxisInv, IpcModeChange \/ IpcOskHide PROVE AxisInv'
  OBVIOUS
<1>1. /\ TypeOK /\ mode \in DOMAIN Modes /\ pad \in Pads /\ pad.kind = Modes[mode].gamepad
      /\ visible \in BOOLEAN /\ connected \in BOOLEAN /\ previous \in Reports \cup {NoReport}
      /\ armed \in [DOMAIN Mappings(mode) -> BOOLEAN]
  BY DEF AxisInv, TypeOK
<1>2. Released(pad) \in Pads /\ Released(pad).kind = pad.kind /\ Shows(Released(pad), {}, AtRest)
  BY <1>1, ReleaseShows DEF AxisInv
<1>3. CASE IpcModeChange
  <2>1. PICK m \in DOMAIN Modes :
            /\ mode' = m /\ Release
            /\ pad' = SetGamepad(Released(pad), Modes[m].gamepad)
            /\ armed' = IF m = mode THEN armed ELSE Inactive(m)
            /\ UNCHANGED <<previous, visible, connected>>
    BY <1>3 DEF IpcModeChange
  <2>2. pad' \in Pads /\ pad'.kind = Modes[m].gamepad /\ Shows(pad', {}, AtRest)
    BY <1>2, <2>1, ModesTyped, SetShows
  <2>3. armed' \in [DOMAIN Mappings(m) -> BOOLEAN]
    BY <1>1, <2>1, InactiveType
  <2>4. armed' \in [DOMAIN Mappings(mode') -> BOOLEAN] /\ pad'.kind = Modes[mode'].gamepad
    BY <2>1, <2>2, <2>3
  <2> QED BY <1>1, <2>1, <2>2, <2>4, ReleasedKeeps
<1>4. CASE IpcOskHide
  <2>1. /\ mode' = mode /\ Release /\ pad' = Released(pad) /\ visible' = FALSE
        /\ UNCHANGED <<previous, connected, armed>>
    BY <1>4 DEF IpcOskHide
  <2>2. armed' \in [DOMAIN Mappings(mode') -> BOOLEAN] /\ pad'.kind = Modes[mode'].gamepad
    BY <1>1, <1>2, <2>1
  <2> QED BY <1>1, <1>2, <2>1, <2>2, ReleasedKeeps
<1> QED BY <1>3, <1>4

LEMMA DisconnectKeeps == AxisInv /\ Disconnect => AxisInv'
<1> SUFFICES ASSUME AxisInv, Disconnect PROVE AxisInv'
  OBVIOUS
<1>1. /\ mode' = mode /\ pad' = Released(Replaced(pad, Modes[mode].gamepad)) /\ Release
      /\ previous' = NoReport /\ visible' = FALSE /\ connected' = FALSE
      /\ armed' = Inactive(mode)
  BY DEF Disconnect
<1>2. PICK kind \in Kinds : kind = Modes[mode].gamepad
  BY ModesTyped DEF AxisInv, TypeOK
<1>3. /\ mode \in DOMAIN Modes /\ pad \in Pads /\ pad.kind = kind
  BY <1>2 DEF AxisInv, TypeOK
<1>4. Replaced(pad, kind) = NewPad(kind)
  BY <1>3, PadKinds, NewPads DEF Replaced, SetGamepad, NewPad, Kinds, NoPad
<1>5. NewPad(kind) \in Pads /\ NewPad(kind).kind = kind /\ Shows(NewPad(kind), {}, AtRest)
  BY NewPads, NewShows
<1>6. pad' \in Pads /\ pad'.kind = kind /\ Shows(pad', {}, AtRest)
  <2>1. \A a \in Axis : AtRest[a] = gamepadAxes[a] \/ AtRest[a] = 0
    BY AtRestDeflection
  <2>2. PICK p \in Pads : p = NewPad(kind) /\ p.kind = kind /\ Shows(p, {}, AtRest)
    BY <1>5
  <2>3. Released(p) \in Pads /\ Released(p).kind = p.kind /\ Shows(Released(p), {}, AtRest)
    BY <2>1, <2>2, ReleaseShows
  <2> QED BY <1>1, <1>2, <1>4, <2>2, <2>3
<1>7. armed' \in [DOMAIN Mappings(mode') -> BOOLEAN] /\ pad'.kind = Modes[mode'].gamepad
  BY <1>1, <1>2, <1>3, <1>6, InactiveType
<1> QED BY <1>1, <1>3, <1>6, <1>7, ReleasedKeeps

LEMMA BatteryKeeps == AxisInv /\ Battery => AxisInv'
<1> SUFFICES ASSUME AxisInv, Battery PROVE AxisInv'
  OBVIOUS
<1>1. PICK percent \in 0..100 : pad' = SetBattery(pad, percent)
  BY AxisAssumption DEF Battery
<1>2. UNCHANGED <<mode, axisActive, gamepadAxes, held, previous, visible, connected, armed>>
  BY DEF Battery
<1>3. pad \in Pads /\ Shows(pad, held, gamepadAxes)
  BY DEF AxisInv, TypeOK
<1>4. pad' \in Pads /\ pad'.kind = pad.kind /\ Shows(pad', held, gamepadAxes)
  BY <1>1, <1>3, BatteryShows
<1>5. Shows(pad, held, gamepadAxes)'
  BY <1>2, <1>4 DEF Shows
<1>6. EngagementIsFresh'
  BY <1>2 DEF AxisInv, EngagementIsFresh, Mappings
<1> QED BY <1>2, <1>4, <1>5, <1>6 DEF AxisInv, TypeOK, Mappings, Inactive

LEMMA AxisStep == AxisInv /\ [Next]_vars => AxisInv'
<1> SUFFICES ASSUME AxisInv, [Next]_vars PROVE AxisInv'
  OBVIOUS
<1>1. CASE Report
  BY <1>1, MappedKeeps, TogglesKeep, SwitchKeeps DEF Report
<1>2. CASE IpcModeChange \/ IpcOskHide
  BY <1>2, IpcKeeps
<1>3. CASE Battery
  BY <1>3, BatteryKeeps
<1>4. CASE Disconnect
  BY <1>4, DisconnectKeeps
<1>5. CASE UNCHANGED vars
  BY <1>5 DEF vars, AxisInv, TypeOK, EngagementIsFresh, Shows, Mappings, Inactive
<1> QED BY <1>1, <1>2, <1>3, <1>4, <1>5 DEF Next

THEOREM AxisInvariant == Spec => []AxisInv
BY AxisInit, AxisStep, PTL DEF Spec

-----------------------------------------------------------------------------
(* The properties.                                                         *)

(* The gamepad is always of the active mode's kind, every number it has    *)
(* fits the field of its device's report, and the engaged mappings are     *)
(* those of the active mode.                                               *)
THEOREM TypeCorrect == Spec => []TypeOK
<1>1. AxisInv => TypeOK
  BY DEF AxisInv
<1> QED BY <1>1, AxisInvariant, PTL

(* Whatever a gamepad has been told, a game reads what a new one would     *)
(* show, told once what the mapper holds.                                  *)
LEMMA Forgotten == AxisInv => HistoryIsForgotten
<1> SUFFICES ASSUME AxisInv PROVE HistoryIsForgotten
  OBVIOUS
<1>1. pad \in Pads /\ gamepadAxes \in Deflections /\ Shows(pad, held, gamepadAxes) /\ pad.kind \in Kinds
  BY PadKinds DEF AxisInv, TypeOK
<1>2. PICK new \in Pads : new = NewPad(pad.kind) /\ new.kind = pad.kind /\ Shows(new, {}, AtRest)
  BY <1>1, NewPads, NewShows
<1>3. PICK pressed \in Pads : /\ pressed = EmitButtons(new, held, TRUE) /\ pressed.kind = pad.kind
                              /\ Shows(pressed, With({}, held, TRUE), AtRest)
  BY <1>2, ButtonsShow
<1>4. With({}, held, TRUE) = held
  BY DEF With
<1>5. \A a \in Axis : gamepadAxes[a] # AtRest[a] => a \in Moved(AtRest)
  BY DEF Moved
<1>6. /\ ToldAtOnce \in Pads /\ ToldAtOnce.kind = pad.kind
      /\ Shows(ToldAtOnce, held, gamepadAxes)
  BY <1>1, <1>2, <1>3, <1>4, <1>5, AxesShow DEF ToldAtOnce
<1>7. IF pad.kind = "xbox"
        THEN /\ \A field \in {"keys", "hat", "sticks"} : Controls(pad)[field] = Controls(ToldAtOnce)[field]
             /\ \A t \in Triggers : t \notin held /\ gamepadAxes[t] = 0 => Controls(pad).triggers[t] = 0
        ELSE Controls(pad) = Controls(ToldAtOnce)
  BY <1>1, <1>6, ShowsControls
<1> QED BY <1>7 DEF HistoryIsForgotten

THEOREM HistoryForgotten == Spec => []HistoryIsForgotten
BY AxisInvariant, Forgotten, PTL

(* No mapping stays engaged longer than its trigger, a mode, a suspension  *)
(* by the keyboard or a connection lasts.                                  *)
THEOREM FreshEngagement == Spec => []EngagementIsFresh
<1>1. AxisInv => EngagementIsFresh
  BY DEF AxisInv
<1> QED BY <1>1, AxisInvariant, PTL

(* A report leaves the touchpad of the mode it leads to on the DualShock,  *)
(* whatever else it does to it.                                            *)
LEMMA TouchpadStep ==
    ASSUME AxisInv, Report, pad.kind = "dualshock4", pad'.kind = "dualshock4"
    PROVE  LET side == Modes[mode'].touchpad
               contact == IF side = "none" THEN NoContact ELSE previous'.pads[side]
           IN pad'.touch.active = contact.touched /\ pad'.clicked = contact.clicked
<1>1. /\ TypeOK /\ mode \in DOMAIN Modes /\ Shows(pad, held, gamepadAxes)
      /\ gamepadAxes \in Deflections
  BY DEF AxisInv, TypeOK
<1>2. PICK report \in Reports : previous' = report /\ mode' \in DOMAIN Modes
  BY <1>1 DEF Report, ReportMapped, ReportToggles, ReportSwitchesMode, Takes
<1> DEFINE side == Modes[mode'].touchpad
           contact == IF side = "none" THEN NoContact ELSE report.pads[side]
<1>3. /\ Sourced(report) \in Pads /\ Sourced(report).kind = "dualshock4"
      /\ Sourced(report).touch.active = contact.touched /\ Sourced(report).clicked = contact.clicked
      /\ Shows(Sourced(report), held, gamepadAxes)
  BY <1>1, <1>2, SourcedShows
<1>4. PICK source \in Pads : source = Sourced(report)
  BY <1>3
<1>5. SameSource(source, pad')
  <2>1. SameSource(source, Released(source)) /\ Released(source).kind = "dualshock4"
    BY <1>3, <1>4, ReleaseShows
  <2>2. CASE ReportMapped
    <3>1. PICK pressed \in SUBSET Bound :
              LET buttons == EmitButtons(EmitButtons(source, held \ pressed, FALSE),
                                         pressed \ held, TRUE)
              IN IF visible THEN pad' = buttons
                 ELSE /\ gamepadAxes' = AxesAfter(report)
                      /\ pad' = EmitAxes(buttons, Moved(gamepadAxes'), gamepadAxes')
      BY <1>2, <1>4, <2>2 DEF ReportMapped, Takes
    <3>2. PICK released \in Pads : /\ released = EmitButtons(source, held \ pressed, FALSE)
                                   /\ SameSource(source, released) /\ released.kind = source.kind
      BY ButtonsShow
    <3>3. PICK buttons \in Pads : /\ buttons = EmitButtons(released, pressed \ held, TRUE)
                                  /\ SameSource(released, buttons) /\ buttons.kind = source.kind
      <4>1. /\ EmitButtons(released, pressed \ held, TRUE) \in Pads
            /\ EmitButtons(released, pressed \ held, TRUE).kind = released.kind
            /\ SameSource(released, EmitButtons(released, pressed \ held, TRUE))
        BY ButtonsShow
      <4> QED BY <3>2, <4>1
    <3>4. CASE visible
      BY <3>1, <3>2, <3>3, <3>4 DEF SameSource
    <3>5. CASE ~visible
      <4>1. PICK new \in Deflections : pad' = EmitAxes(buttons, Moved(new), new)
        BY <1>1, <3>1, <3>2, <3>3, <3>5, AxesAfterType
      <4>2. SameSource(buttons, pad')
        BY <4>1, AxesShow
      <4> QED BY <3>2, <3>3, <4>2 DEF SameSource
    <3> QED BY <3>4, <3>5
  <2>3. CASE ReportToggles
    BY <1>2, <1>4, <2>1, <2>3 DEF ReportToggles, Takes
  <2>4. CASE ReportSwitchesMode
    <3>1. PICK m : pad' = SetGamepad(Released(source), Modes[m].gamepad) /\ mode' = m
      BY <1>2, <1>4, <2>4 DEF ReportSwitchesMode, Takes
    <3>2. Modes[m].gamepad \in Kinds
      BY <1>2, <3>1, ModesTyped
    <3>3. pad' = Released(source)
      BY <2>1, <3>1, <3>2, NewPads DEF SetGamepad
    <3> QED BY <2>1, <3>3
  <2> QED BY <2>2, <2>3, <2>4 DEF Report
<1>6. pad'.touch = source.touch /\ pad'.clicked = source.clicked
  BY <1>3, <1>4, <1>5 DEF SameSource
<1> QED BY <1>2, <1>3, <1>4, <1>6

THEOREM RightTouchpad == Spec => TouchpadOfTheMode
<1>1. AxisInv => [Report /\ pad.kind = "dualshock4" /\ pad'.kind = "dualshock4" =>
                    LET side == Modes[mode'].touchpad
                        contact == IF side = "none" THEN NoContact ELSE previous'.pads[side]
                    IN pad'.touch.active = contact.touched /\ pad'.clicked = contact.clicked]_vars
  BY TouchpadStep
<1> QED BY <1>1, AxisInvariant, PTL DEF TouchpadOfTheMode
=============================================================================
