----------------------- MODULE OnScreenKeyboardProofs -----------------------
(* Proofs about OnScreenKeyboard, for any bounds and any history length.   *)
EXTENDS OnScreenKeyboard, NaturalsInduction, WellFoundedInduction, TLAPS

(* A state as the daemon makes them: of its type, its clicks gapless and   *)
(* of its session, and shown in a numbered session only.                   *)
Sound(s) ==
    /\ s \in State
    /\ s.visible => s.session > 0
    /\ Len(s.history) <= HistoryLen
    /\ \A i \in DOMAIN s.history :
          /\ s.history[i].sequence = s.sequence - Len(s.history) + i - 1
          /\ s.history[i].session = s.session

(* The inductive invariant of HistoryIsNewest: every state anywhere is     *)
(* sound.                                                                  *)
SoundInv ==
    /\ run \in 1..MaxRun
    /\ Sound(state) /\ Sound(line)
    /\ inbox \in Seq(State \cup {Disconnected})
    /\ \A j \in DOMAIN inbox : inbox[j] # Disconnected => Sound(inbox[j])

(* The first state of a run of the daemon.                                 *)
LEMMA HiddenSound == Sound(Hidden)
BY BoundsAssumption DEF Sound, State, Hidden

(* Newest keeps the end of a sequence.                                     *)
LEMMA NewestElements ==
    ASSUME NEW S, NEW s \in Seq(S), NEW n \in Nat
    PROVE  /\ Newest(s, n) \in Seq(S)
           /\ Len(Newest(s, n)) = IF n >= Len(s) THEN Len(s) ELSE n
           /\ \A i \in 1..Len(Newest(s, n)) :
                 Newest(s, n)[i] = s[Len(s) - Len(Newest(s, n)) + i]
<1>1. CASE n >= Len(s)
  BY <1>1 DEF Newest
<1>2. CASE ~(n >= Len(s))
  <2>1. Newest(s, n) = SubSeq(s, Len(s) - n + 1, Len(s))
    BY <1>2 DEF Newest
  <2>2. Len(s) - n + 1 \in 1..Len(s) + 1 /\ Len(s) \in Nat
    BY <1>2
  <2>3. Len(SubSeq(s, Len(s) - n + 1, Len(s))) = n
    BY <1>2, <2>2
  <2>4. SubSeq(s, Len(s) - n + 1, Len(s)) \in Seq(S)
    BY <2>2
  <2>5. \A i \in 1..n : SubSeq(s, Len(s) - n + 1, Len(s))[i] = s[Len(s) - n + i]
    BY <1>2, <2>2
  <2> QED BY <1>2, <2>1, <2>3, <2>4, <2>5
<1> QED BY <1>1, <1>2

(* set_visible keeps a state sound in both directions.                     *)
LEMMA VisibilitySound ==
    ASSUME NEW s, Sound(s)
    PROVE  /\ s.visible \/ s.session < MaxSession => Sound(Shown(s))
           /\ Sound(Closed(s))
<1> USE DEF Sound, State
<1>1. ASSUME ~s.visible, s.session < MaxSession PROVE Sound(Shown(s))
  <2>1. /\ Shown(s) = [s EXCEPT !.visible = TRUE, !.session = @ + 1, !.history = <<>>]
        /\ s.session + 1 \in 0..MaxSession
    BY <1>1, BoundsAssumption DEF Shown
  <2>2. /\ Shown(s).visible = TRUE /\ Shown(s).session = s.session + 1
        /\ Shown(s).history = <<>> /\ Shown(s).sequence = s.sequence
    BY <2>1
  <2>3. <<>> \in Seq(Click)
    OBVIOUS
  <2>4. Shown(s) \in State
    BY <2>1, <2>3
  <2> QED BY <2>2, <2>4, BoundsAssumption
<1>2. s.visible => Sound(Shown(s))
  BY DEF Shown
<1>3. Sound(Closed(s))
  BY DEF Closed
<1> QED BY <1>1, <1>2, <1>3

(* record_click keeps a visible state sound.                               *)
LEMMA RecordedSound ==
    ASSUME run \in 1..MaxRun, NEW s, Sound(s), s.visible, s.sequence < MaxClicks, NEW hit \in Hit
    PROVE  Sound(Recorded(s, hit))
<1> DEFINE click == [run |-> run, session |-> s.session, sequence |-> s.sequence, hit |-> hit]
           all == Append(s.history, click)
           kept == Newest(all, HistoryLen)
           new == Recorded(s, hit)
<1>1. /\ s \in State /\ s.session \in 1..MaxSession /\ s.sequence \in 0..(MaxClicks - 1)
      /\ s.history \in Seq(Click) /\ Len(s.history) \in Nat
  BY BoundsAssumption DEF Sound, State
<1>2. click \in Click
  BY <1>1 DEF Click
<1>3. /\ all \in Seq(Click) /\ Len(all) = Len(s.history) + 1
      /\ \A i \in 1..Len(s.history) : all[i] = s.history[i]
      /\ all[Len(all)] = click
  BY <1>1, <1>2
<1>4. /\ kept \in Seq(Click) /\ Len(kept) <= HistoryLen /\ Len(kept) \in Nat
      /\ Len(kept) <= Len(all)
      /\ \A i \in 1..Len(kept) : kept[i] = all[Len(all) - Len(kept) + i]
  <2> HIDE DEF all
  <2>1. Len(all) \in Nat /\ HistoryLen \in Nat
    BY <1>3, BoundsAssumption
  <2>2. /\ kept \in Seq(Click)
        /\ Len(kept) = IF HistoryLen >= Len(all) THEN Len(all) ELSE HistoryLen
        /\ \A i \in 1..Len(kept) : kept[i] = all[Len(all) - Len(kept) + i]
    BY <1>3, <2>1, NewestElements
  <2> HIDE DEF kept
  <2>3. Len(kept) \in Nat /\ Len(kept) <= HistoryLen /\ Len(kept) <= Len(all)
    BY <2>1, <2>2
  <2> QED BY <2>2, <2>3
<1>5. \A i \in 1..Len(all) : /\ all[i].sequence = s.sequence - Len(s.history) + i - 1
                             /\ all[i].session = s.session
  <2> SUFFICES ASSUME NEW i \in 1..Len(all)
               PROVE  /\ all[i].sequence = s.sequence - Len(s.history) + i - 1
                      /\ all[i].session = s.session
    OBVIOUS
  <2>1. CASE i = Len(all)
    <3>1. all[i] = click
      BY <2>1, <1>3
    <3> QED BY <3>1, <2>1, <1>3, <1>1
  <2>2. CASE i # Len(all)
    <3>1. i \in 1..Len(s.history)
      BY <2>2, <1>1, <1>3
    <3> QED BY <3>1, <1>3 DEF Sound
  <2> QED BY <2>1, <2>2
<1>6. /\ new \in State /\ new.visible = s.visible /\ new.session = s.session
      /\ new.sequence = s.sequence + 1 /\ new.history = kept
  <2>1. new = [s EXCEPT !.sequence = s.sequence + 1, !.history = kept]
    BY <1>1 DEF Recorded, State
  <2>2. s.sequence + 1 \in 0..MaxClicks
    BY <1>1, BoundsAssumption
  <2> HIDE DEF new, kept
  <2> QED BY <2>1, <2>2, <1>1, <1>4 DEF State
<1>7. \A i \in 1..Len(kept) : /\ kept[i].sequence = (s.sequence + 1) - Len(kept) + i - 1
                              /\ kept[i].session = s.session
  <2> SUFFICES ASSUME NEW i \in 1..Len(kept)
               PROVE  /\ kept[i].sequence = (s.sequence + 1) - Len(kept) + i - 1
                      /\ kept[i].session = s.session
    OBVIOUS
  <2> HIDE DEF kept, all
  <2>1. Len(all) - Len(kept) + i \in 1..Len(all)
    BY <1>1, <1>3, <1>4
  <2>2. kept[i] = all[Len(all) - Len(kept) + i]
    BY <1>4
  <2>3. /\ kept[i].sequence = s.sequence - Len(s.history) + (Len(all) - Len(kept) + i) - 1
        /\ kept[i].session = s.session
    BY <2>1, <2>2, <1>5
  <2> QED BY <2>3, <1>1, <1>3, <1>4
<1> HIDE DEF new, kept
<1>8. DOMAIN kept = 1..Len(kept)
  BY <1>4
<1> QED BY <1>1, <1>4, <1>6, <1>7, <1>8 DEF Sound, new

(* What is put at the end of the inbox is sound, or the end of a stream.   *)
LEMMA InboxAppend ==
    ASSUME SoundInv, NEW e, e = Disconnected \/ Sound(e), inbox' = Append(inbox, e)
    PROVE  /\ inbox' \in Seq(State \cup {Disconnected})
           /\ \A j \in DOMAIN inbox' : inbox'[j] # Disconnected => Sound(inbox'[j])
<1>1. e \in State \cup {Disconnected}
  BY DEF Sound
<1>2. inbox' \in Seq(State \cup {Disconnected})
  BY <1>1 DEF SoundInv
<1>3. \A j \in DOMAIN inbox' : (j \in DOMAIN inbox /\ inbox'[j] = inbox[j]) \/ inbox'[j] = e
  BY <1>1 DEF SoundInv
<1> QED BY <1>2, <1>3 DEF SoundInv

(* What is left of the inbox when its head was taken.                      *)
LEMMA InboxTail ==
    ASSUME SoundInv, inbox # <<>>, inbox' = Tail(inbox)
    PROVE  /\ inbox' \in Seq(State \cup {Disconnected})
           /\ \A j \in DOMAIN inbox' : inbox'[j] # Disconnected => Sound(inbox'[j])
<1>1. inbox' \in Seq(State \cup {Disconnected})
  BY DEF SoundInv
<1>2. \A j \in DOMAIN inbox' : j + 1 \in DOMAIN inbox /\ inbox'[j] = inbox[j + 1]
  BY DEF SoundInv
<1> QED BY <1>1, <1>2 DEF SoundInv

(* Every step keeps every state sound.                                     *)
LEMMA SoundStep == SoundInv /\ [Next]_vars => SoundInv'
<1> SUFFICES ASSUME SoundInv, [Next]_vars PROVE SoundInv'
  OBVIOUS
<1> USE DEF server, client, daemon
<1>1. ASSUME UNCHANGED <<run, line, inbox>>, Sound(state') PROVE SoundInv'
  BY <1>1 DEF SoundInv, Sound
<1>2. CASE Toggle
  <2>1. UNCHANGED <<run, line, inbox>>
    BY <1>2 DEF Toggle
  <2>2. state.visible \/ state.session < MaxSession
    BY <1>2, BoundsAssumption DEF Toggle, SoundInv, Sound, State
  <2>3. Sound(state')
    BY <1>2, <2>2, VisibilitySound DEF Toggle, Publish, SoundInv
  <2> QED BY <1>1, <2>1, <2>3
<1>3. CASE RecordClick
  <2>1. UNCHANGED <<run, line, inbox>>
    BY <1>3 DEF RecordClick
  <2>2. state.sequence < MaxClicks
    BY <1>3, BoundsAssumption DEF RecordClick, SoundInv, Sound, State
  <2>3. Sound(state')
    BY <1>3, <2>2, RecordedSound DEF RecordClick, Publish, SoundInv
  <2> QED BY <1>1, <2>1, <2>3
<1>4. CASE ControllerLost
  <2>1. UNCHANGED <<run, line, inbox>>
    BY <1>4 DEF ControllerLost
  <2>2. Sound(state')
    BY <1>4, VisibilitySound DEF ControllerLost, Publish, SoundInv
  <2> QED BY <1>1, <2>1, <2>2
<1>5. CASE GraceEnds \/ TypeKey \/ RequestFails \/ UNCHANGED vars
  <2>1. UNCHANGED <<run, line, inbox, state>>
    BY <1>5 DEF GraceEnds, TypeKey, RequestFails, vars
  <2> QED BY <1>1, <2>1 DEF SoundInv
<1>6. CASE Hide
  <2>1. UNCHANGED <<run, line, inbox>>
    BY <1>6 DEF Hide
  <2>2. Sound(state')
    BY <1>6, VisibilitySound DEF Hide, Publish, SoundInv
  <2> QED BY <1>1, <2>1, <2>2
<1>7. CASE Restart
  <2>1. run' \in 1..MaxRun /\ state' = Hidden /\ line' = Hidden
    BY <1>7, BoundsAssumption DEF Restart, SoundInv
  <2>2. CASE inbox' = inbox
    BY <2>1, <2>2, HiddenSound DEF SoundInv
  <2>3. CASE inbox' = Append(inbox, Disconnected)
    BY <2>1, <2>3, HiddenSound, InboxAppend DEF SoundInv
  <2> QED BY <1>7, <2>2, <2>3 DEF Restart
<1>8. CASE Send
  <2>1. run' = run /\ state' = state /\ line' = state
    BY <1>8 DEF Send
  <2>2. CASE inbox' = inbox
    BY <2>1, <2>2 DEF SoundInv
  <2>3. CASE inbox' = Append(inbox, state)
    BY <2>1, <2>3, InboxAppend DEF SoundInv
  <2>4. CASE inbox' = Append(inbox, Disconnected)
    BY <2>1, <2>4, InboxAppend DEF SoundInv
  <2> QED BY <1>8, <2>2, <2>3, <2>4 DEF Send
<1>9. CASE Subscribe
  <2>1. UNCHANGED <<run, state, line>> /\ inbox' = Append(inbox, line)
    BY <1>9 DEF Subscribe
  <2> QED BY <2>1, InboxAppend DEF SoundInv
<1>10. CASE Update \/ Disconnect
  <2>1. UNCHANGED <<run, state, line>> /\ inbox # <<>> /\ inbox' = Tail(inbox)
    BY <1>10 DEF Update, Disconnect
  <2> QED BY <2>1, InboxTail DEF SoundInv
<1> QED BY <1>2, <1>3, <1>4, <1>5, <1>6, <1>7, <1>8, <1>9, <1>10 DEF Next

(* In every state on its way to the keyboard the history is the newest     *)
(* clicks of the session, without a gap: what the debug_assert of          *)
(* OskClicks::next asserts (core/src/ipc.rs record_click, clicks_since).   *)
THEOREM HistoryNewest == Spec => []HistoryIsNewest
<1>1. Init => SoundInv
  BY HiddenSound, BoundsAssumption DEF Init, SoundInv
<1>2. SoundInv => HistoryIsNewest
  BY DEF SoundInv, Sound, HistoryIsNewest, InFlight
<1> QED BY <1>1, <1>2, SoundStep, PTL DEF Spec, Safety
-----------------------------------------------------------------------------
(* Types of the client, and the order in which clicks are typed.           *)

(* A set of naturals has a least element.                                  *)
LEMMA LeastNatural ==
    ASSUME NEW S \in SUBSET Nat, S # {}
    PROVE  \E m \in S : \A n \in S : m <= n
<1> DEFINE R == OpToRel(<, Nat)
<1>1. PICK m \in S : \A n \in S : ~ (<<n, m>> \in R)
  BY NatLessThanWellFounded, WFMin
<1>2. \A k, n \in Nat : <<n, k>> \in R <=> n < k
  BY DEF OpToRel
<1>3. \A n \in S : ~ (n < m)
  BY <1>1, <1>2
<1> QED BY <1>3

(* What is sent of some clicks is a part of them in their order.  The      *)
(* first prefix for which the function did not exist, or had other values, *)
(* would extend one for which it does.                                     *)
Picks(h, clicks, n) ==
    /\ h \in Seq(Click)
    /\ \E e \in [1..Len(h) -> 1..n] :
          /\ \A i \in 1..Len(h) : h[i] = clicks[e[i]]
          /\ \A i, j \in 1..Len(h) : i < j => e[i] < e[j]

LEMMA PicksMore ==
    ASSUME NEW clicks \in Seq(Click), NEW n \in 1..Len(clicks), NEW h, Picks(h, clicks, n - 1)
    PROVE  Picks(h, clicks, n) /\ Picks(Append(h, clicks[n]), clicks, n)
<1> DEFINE longer == Append(h, clicks[n])
<1>1. PICK e \in [1..Len(h) -> 1..(n - 1)] :
          /\ \A i \in 1..Len(h) : h[i] = clicks[e[i]]
          /\ \A i, j \in 1..Len(h) : i < j => e[i] < e[j]
  BY DEF Picks
<1>2. h \in Seq(Click) /\ Len(h) \in Nat /\ n \in Nat /\ n - 1 \in Nat /\ clicks[n] \in Click
  BY DEF Picks
<1>3. Picks(h, clicks, n)
  <2>1. e \in [1..Len(h) -> 1..n]
    BY <1>2
  <2> QED BY <1>1, <1>2, <2>1 DEF Picks
<1>4. /\ longer \in Seq(Click) /\ Len(longer) = Len(h) + 1
      /\ \A i \in 1..Len(h) : longer[i] = h[i]
      /\ longer[Len(h) + 1] = clicks[n]
  BY <1>2
<1>5. Picks(longer, clicks, n)
  <2> DEFINE more == [i \in 1..Len(longer) |-> IF i = Len(longer) THEN n ELSE e[i]]
  <2> HIDE DEF longer
  <2>1. \A i \in 1..Len(longer) : i # Len(longer) => i \in 1..Len(h)
    BY <1>2, <1>4
  <2>2. more \in [1..Len(longer) -> 1..n]
    BY <1>2, <2>1
  <2>3. ASSUME NEW i \in 1..Len(longer) PROVE longer[i] = clicks[more[i]]
    BY <1>1, <1>2, <1>4, <2>1
  <2>4. ASSUME NEW i \in 1..Len(longer), NEW j \in 1..Len(longer), i < j
        PROVE  more[i] < more[j]
    <3>1. i \in 1..Len(h) /\ more[i] = e[i] /\ e[i] \in 1..(n - 1)
      BY <1>2, <1>4, <2>1, <2>4
    <3>2. CASE j = Len(longer)
      BY <1>2, <3>1, <3>2
    <3>3. CASE j # Len(longer)
      <4>1. j \in 1..Len(h) /\ more[j] = e[j]
        BY <2>1, <3>3
      <4> QED BY <1>1, <2>4, <3>1, <4>1
    <3> QED BY <3>2, <3>3
  <2> HIDE DEF more
  <2> QED BY <1>4, <2>2, <2>3, <2>4 DEF Picks
<1> QED BY <1>3, <1>5

LEMMA UpToClosePicks ==
    ASSUME NEW clicks \in Seq(Click)
    PROVE  Picks(UpToClose(clicks), clicks, Len(clicks))
<1> DEFINE Skips(n) == clicks[n].hit = "none" \/ \E j \in 1..(n - 1) : clicks[j].hit = "close"
           IsSent(g, m) ==
               g = [n \in 0..m |->
                      IF n = 0 THEN <<>>
                      ELSE IF clicks[n].hit = "none" \/ \E j \in 1..(n - 1) : clicks[j].hit = "close"
                        THEN g[n - 1]
                      ELSE Append(g[n - 1], clicks[n])]
           Missing == {m \in 0..Len(clicks) : ~\E g : IsSent(g, m)}
           sent == CHOOSE g : IsSent(g, Len(clicks))
           Wrong == {m \in 0..Len(clicks) : ~Picks(sent[m], clicks, m)}
<1>1. UpToClose(clicks) = sent[Len(clicks)]
  BY DEF UpToClose
<1>2. Len(clicks) \in Nat /\ \A n \in 1..Len(clicks) : n - 1 \in 0..Len(clicks) /\ n - 1 < n
  OBVIOUS
<1>3. \E g : IsSent(g, Len(clicks))
  <2> HIDE DEF IsSent
  <2> SUFFICES ASSUME Missing # {} PROVE FALSE
    <3>1. Len(clicks) \in 0..Len(clicks)
      BY <1>2
    <3> QED BY <3>1
  <2>1. PICK m \in Missing : \A n \in Missing : m <= n
    <3>1. Missing \in SUBSET Nat
      OBVIOUS
    <3> HIDE DEF Missing
    <3> QED BY <3>1, LeastNatural
  <2>2. m # 0
    <3> DEFINE g == [n \in 0..0 |-> <<>>]
    <3>1. IsSent(g, 0)
      BY DEF IsSent
    <3> HIDE DEF g
    <3>2. 0 \notin Missing
      BY <3>1
    <3> QED BY <2>1, <3>2
  <2>3. m \in 1..Len(clicks) /\ m - 1 \in 0..Len(clicks) /\ m - 1 \notin Missing
    <3>1. m \in 0..Len(clicks)
      OBVIOUS
    <3> HIDE DEF Missing
    <3> QED BY <1>2, <2>1, <2>2, <3>1
  <2>4. PICK g : IsSent(g, m - 1)
    BY <2>3
  <2> DEFINE more == [n \in 0..m |-> IF n < m THEN g[n]
                                     ELSE IF Skips(m) THEN g[m - 1] ELSE Append(g[m - 1], clicks[m])]
  <2>5. ASSUME NEW n \in 0..m
        PROVE  more[n] = IF n = 0 THEN <<>>
                         ELSE IF Skips(n) THEN more[n - 1] ELSE Append(more[n - 1], clicks[n])
    <3>1. n > 0 => n - 1 \in 0..m /\ n - 1 < m /\ more[n - 1] = g[n - 1]
      BY <2>3
    <3>2. CASE n = m
      <4>1. more[n] = IF Skips(m) THEN g[m - 1] ELSE Append(g[m - 1], clicks[m])
        BY <3>2
      <4> HIDE DEF more, Skips
      <4> QED BY <3>1, <3>2, <2>3, <4>1
    <3>3. CASE n # m
      <4>1. n \in 0..(m - 1) /\ more[n] = g[n]
        BY <2>3, <3>3
      <4>2. g[n] = IF n = 0 THEN <<>> ELSE IF Skips(n) THEN g[n - 1] ELSE Append(g[n - 1], clicks[n])
        BY <2>4, <4>1 DEF IsSent
      <4> HIDE DEF more, Skips
      <4> QED BY <3>1, <4>1, <4>2
    <3> QED BY <3>2, <3>3
  <2>6. more = [n \in 0..m |-> more[n]]
    OBVIOUS
  <2>7. IsSent(more, m)
    <3> HIDE DEF more
    <3> QED BY <2>5, <2>6 DEF IsSent
  <2> HIDE DEF more
  <2> QED BY <2>1, <2>7
<1>4. IsSent(sent, Len(clicks))
  <2> HIDE DEF IsSent
  <2> QED BY <1>3
<1>5. ASSUME NEW n \in 0..Len(clicks)
      PROVE  sent[n] = IF n = 0 THEN <<>>
                       ELSE IF Skips(n) THEN sent[n - 1] ELSE Append(sent[n - 1], clicks[n])
  <2> HIDE DEF sent
  <2> QED BY <1>4
<1> HIDE DEF sent, IsSent, Missing, Skips
<1>6. Wrong = {}
  <2> SUFFICES ASSUME Wrong # {} PROVE FALSE
    OBVIOUS
  <2>1. PICK m \in Wrong : \A n \in Wrong : m <= n
    <3>1. Wrong \in SUBSET Nat
      OBVIOUS
    <3> HIDE DEF Wrong
    <3> QED BY <3>1, LeastNatural
  <2>2. m # 0
    <3>1. Picks(<<>>, clicks, 0)
      <4>1. <<>> \in Seq(Click) /\ Len(<<>>) = 0 /\ 1..0 = {}
        OBVIOUS
      <4>2. [i \in {} |-> 0] \in [1..0 -> 1..0]
        BY <4>1
      <4> QED BY <4>1, <4>2 DEF Picks
    <3> QED BY <1>5, <1>2, <3>1
  <2>3. m \in 1..Len(clicks) /\ m - 1 \in 0..Len(clicks) /\ m - 1 \notin Wrong
    BY <1>2, <2>1, <2>2
  <2>4. Picks(sent[m - 1], clicks, m - 1)
    BY <2>3
  <2>5. Picks(sent[m], clicks, m)
    BY <1>5, <2>3, <2>4, PicksMore
  <2> QED BY <2>1, <2>5
<1> QED BY <1>1, <1>2, <1>6

(* What Keyboard::update sends to the daemon for a state.                  *)
Hits(new) ==
    IF initialized /\ (new.visible \/ visible) THEN UpToClose(ClicksSince(new)) ELSE <<>>
Outputs(new) == [i \in DOMAIN Hits(new) |-> OutputOf(Hits(new)[i], new.session)]

(* The clicks of a state since a cursor it has reached.                    *)
LEMMA ClicksSinceElements ==
    ASSUME NEW s, Sound(s), cursor \in Nat
    PROVE  /\ ClicksSince(s) \in Seq(Click)
           /\ \A i \in 1..Len(ClicksSince(s)) :
                 /\ \E k \in DOMAIN s.history : ClicksSince(s)[i] = s.history[k]
                 /\ ClicksSince(s)[i].sequence = s.sequence - Len(ClicksSince(s)) + i - 1
                 /\ ClicksSince(s)[i].session = s.session
                 /\ cursor <= s.sequence => ClicksSince(s)[i].sequence >= cursor
<1> DEFINE h == ClicksSince(s)
<1>1. /\ s.history \in Seq(Click) /\ s.sequence \in Nat /\ Len(s.history) \in Nat
      /\ DOMAIN s.history = 1..Len(s.history)
  BY BoundsAssumption DEF Sound, State
<1>2. /\ h \in Seq(Click) /\ Len(h) \in Nat /\ Len(h) <= Len(s.history)
      /\ cursor <= s.sequence => Len(h) <= s.sequence - cursor
      /\ \A i \in 1..Len(h) : h[i] = s.history[Len(s.history) - Len(h) + i]
  <2>1. CASE cursor > s.sequence
    <3>1. h = s.history
      BY <1>1, <2>1 DEF ClicksSince
    <3>2. ~(cursor <= s.sequence) /\ \A i \in 1..Len(s.history) : Len(s.history) - Len(s.history) + i = i
      BY <1>1, <2>1
    <3> HIDE DEF h
    <3> QED BY <1>1, <3>1, <3>2
  <2>2. CASE ~(cursor > s.sequence)
    <3>1. h = Newest(s.history, s.sequence - cursor) /\ s.sequence - cursor \in Nat
      BY <1>1, <2>2 DEF ClicksSince
    <3> DEFINE n == s.sequence - cursor
    <3> HIDE DEF n, h
    <3>2. /\ h \in Seq(Click) /\ Len(h) = IF n >= Len(s.history) THEN Len(s.history) ELSE n
          /\ \A i \in 1..Len(h) : h[i] = s.history[Len(s.history) - Len(h) + i]
      BY ZenonT(40), <1>1, <3>1, NewestElements DEF n
    <3>3. Len(h) \in Nat /\ Len(h) <= Len(s.history) /\ Len(h) <= n /\ n = s.sequence - cursor
      BY <1>1, <3>1, <3>2 DEF n
    <3> QED BY <3>2, <3>3
  <2> QED BY <2>1, <2>2
<1> HIDE DEF h
<1>3. ASSUME NEW i \in 1..Len(h)
      PROVE  /\ \E k \in DOMAIN s.history : h[i] = s.history[k]
             /\ h[i].sequence = s.sequence - Len(h) + i - 1
             /\ h[i].session = s.session
             /\ cursor <= s.sequence => h[i].sequence >= cursor
  <2> DEFINE k == Len(s.history) - Len(h) + i
  <2>1. k \in DOMAIN s.history /\ h[i] = s.history[k]
    BY <1>1, <1>2
  <2>2. s.history[k].sequence = s.sequence - Len(s.history) + k - 1 /\ s.history[k].session = s.session
    BY <2>1 DEF Sound
  <2>3. h[i].sequence = s.sequence - Len(h) + i - 1
    BY <1>1, <1>2, <2>1, <2>2
  <2>4. cursor <= s.sequence => h[i].sequence >= cursor
    BY <1>1, <1>2, <2>3
  <2> HIDE DEF k
  <2> QED BY <2>1, <2>2, <2>3, <2>4
<1> QED BY <1>2, <1>3 DEF h

(* What is sent for a state is clicks of its history, in their order; from *)
(* the cursor on, when the state has reached it.                           *)
LEMMA OutputsElements ==
    ASSUME NEW s, Sound(s), cursor \in Nat
    PROVE  /\ Outputs(s) \in Seq(KeyboardOutput)
           /\ \A i \in 1..Len(Outputs(s)) :
                 /\ initialized
                 /\ \E k \in DOMAIN s.history : Outputs(s)[i].click = s.history[k]
                 /\ Outputs(s)[i].session = s.session /\ Outputs(s)[i].click.session = s.session
                 /\ Outputs(s)[i].click.sequence < s.sequence
                 /\ cursor <= s.sequence => Outputs(s)[i].click.sequence >= cursor
           /\ \A i, j \in 1..Len(Outputs(s)) :
                 i < j => Outputs(s)[i].click.sequence < Outputs(s)[j].click.sequence
<1> DEFINE out == Outputs(s)
           h == Hits(s)
           all == ClicksSince(s)
<1>1. /\ all \in Seq(Click) /\ Len(all) \in Nat
      /\ \A i \in 1..Len(all) :
                 /\ \E k \in DOMAIN s.history : all[i] = s.history[k]
                 /\ all[i].sequence = s.sequence - Len(all) + i - 1
                 /\ all[i].session = s.session
                 /\ cursor <= s.sequence => all[i].sequence >= cursor
  BY ClicksSinceElements
<1>2. s.session \in 0..MaxSession /\ s.sequence \in Nat
  BY BoundsAssumption DEF Sound, State
<1>3. Picks(h, all, Len(all)) /\ (h # <<>> => initialized)
  <2> HIDE DEF all
  <2>1. CASE initialized /\ (s.visible \/ visible)
    <3>1. h = UpToClose(all)
      BY <2>1 DEF Hits, all
    <3> QED BY <1>1, <2>1, <3>1, UpToClosePicks
  <2>2. CASE ~(initialized /\ (s.visible \/ visible))
    <3>1. h = <<>>
      BY <2>2 DEF Hits
    <3>2. <<>> \in Seq(Click) /\ Len(<<>>) = 0 /\ 1..0 = {}
      OBVIOUS
    <3>3. [i \in {} |-> 0] \in [1..0 -> 1..Len(all)]
      BY <3>2
    <3> QED BY <3>1, <3>2, <3>3 DEF Picks
  <2> QED BY <2>1, <2>2
<1> HIDE DEF all, h
<1>4. PICK e \in [1..Len(h) -> 1..Len(all)] :
          /\ \A i \in 1..Len(h) : h[i] = all[e[i]]
          /\ \A i, j \in 1..Len(h) : i < j => e[i] < e[j]
  BY <1>3 DEF Picks
<1>5. h \in Seq(Click) /\ Len(h) \in Nat /\ DOMAIN h = 1..Len(h)
  BY <1>3 DEF Picks
<1>6. out = [i \in 1..Len(h) |-> OutputOf(h[i], s.session)]
  BY <1>5 DEF Outputs, h
<1>7. \A i \in 1..Len(h) : out[i] \in KeyboardOutput
  BY <1>2, <1>5, <1>6 DEF KeyboardOutput, OutputOf
<1>8. out \in Seq(KeyboardOutput) /\ Len(out) = Len(h)
  BY <1>5, <1>6, <1>7
<1>9. \A i \in 1..Len(h) : out[i].click = h[i] /\ out[i].session = s.session
  BY <1>6 DEF OutputOf
<1> HIDE DEF out
<1>10. ASSUME NEW i \in 1..Len(out)
       PROVE  /\ initialized
              /\ \E k \in DOMAIN s.history : out[i].click = s.history[k]
              /\ out[i].session = s.session /\ out[i].click.session = s.session
              /\ out[i].click.sequence < s.sequence
              /\ cursor <= s.sequence => out[i].click.sequence >= cursor
  <2>1. e[i] \in 1..Len(all) /\ out[i].click = all[e[i]] /\ h # <<>>
    BY <1>4, <1>5, <1>8, <1>9
  <2>2. out[i].click.sequence = s.sequence - Len(all) + e[i] - 1
    BY <1>1, <2>1
  <2>3. out[i].click.sequence < s.sequence
    BY <1>1, <1>2, <2>1, <2>2
  <2> QED BY <1>1, <1>3, <1>8, <1>9, <2>1, <2>3
<1>11. ASSUME NEW i \in 1..Len(out), NEW j \in 1..Len(out), i < j
       PROVE  out[i].click.sequence < out[j].click.sequence
  <2>1. /\ e[i] \in 1..Len(all) /\ e[j] \in 1..Len(all) /\ e[i] < e[j]
        /\ out[i].click = all[e[i]] /\ out[j].click = all[e[j]]
    BY <1>4, <1>8, <1>9, <1>11
  <2>2. /\ out[i].click.sequence = s.sequence - Len(all) + e[i] - 1
        /\ out[j].click.sequence = s.sequence - Len(all) + e[j] - 1
    BY <1>1, <2>1
  <2>3. \A a, b \in 1..Len(all) :
           a < b => s.sequence - Len(all) + a - 1 < s.sequence - Len(all) + b - 1
    BY <1>1, <1>2
  <2> QED BY <2>1, <2>2, <2>3
<1> QED BY <1>8, <1>10, <1>11 DEF out

(* Types of everything that is not a state.                                *)
ClientTypes ==
    /\ closedLately \in BOOLEAN /\ pinged \in BOOLEAN /\ subscribed \in BOOLEAN
    /\ initialized \in BOOLEAN /\ visible \in BOOLEAN /\ cursor \in 0..MaxClicks
    /\ requests \in Seq(KeyboardOutput)
    /\ typed \in Click \cup {NoClick}

(* Update in terms of what it sends.                                       *)
LEMMA UpdateSends ==
    ASSUME SoundInv, ClientTypes, Update
    PROVE  /\ inbox # <<>> /\ inbox[1] # Disconnected /\ Sound(inbox[1])
           /\ requests' = requests \o Outputs(inbox[1])
           /\ cursor' = inbox[1].sequence /\ visible' = inbox[1].visible
           /\ initialized' = TRUE /\ inbox' = Tail(inbox)
           /\ UNCHANGED <<run, state, closedLately, pinged, line, subscribed, typed>>
<1>1. inbox # <<>> /\ Head(inbox) = inbox[1] /\ 1 \in DOMAIN inbox
  BY DEF Update, SoundInv
<1>2. Sound(inbox[1])
  BY <1>1 DEF Update, SoundInv
<1> QED BY <1>1, <1>2 DEF Update, Outputs, Hits, daemon, server

LEMMA ClientTypesStep == SoundInv /\ ClientTypes /\ [Next]_vars => ClientTypes'
<1> SUFFICES ASSUME SoundInv, ClientTypes, [Next]_vars PROVE ClientTypes'
  OBVIOUS
<1> USE DEF server, client, daemon
<1>1. CASE Toggle
  <2>1. state.visible \in BOOLEAN
    BY DEF SoundInv, Sound, State
  <2> QED BY <1>1, <2>1 DEF Toggle, Publish, ClientTypes
<1>2. CASE RecordClick
  BY <1>2 DEF RecordClick, Publish, ClientTypes
<1>3. CASE ControllerLost
  BY <1>3 DEF ControllerLost, Publish, ClientTypes
<1>4. CASE GraceEnds \/ Restart \/ Send \/ Subscribe \/ UNCHANGED vars
  BY <1>4 DEF GraceEnds, Restart, Send, Subscribe, vars, ClientTypes
<1>5. CASE TypeKey \/ Hide \/ RequestFails
  <2>1. requests # <<>> /\ requests' = Tail(requests)
    BY <1>5 DEF TypeKey, Hide, RequestFails
  <2>2. requests' \in Seq(KeyboardOutput) /\ Head(requests) \in KeyboardOutput
    BY <2>1 DEF ClientTypes
  <2>3. Request.click \in Click
    BY <2>2 DEF Request, KeyboardOutput
  <2> QED BY <1>5, <2>2, <2>3 DEF TypeKey, Hide, RequestFails, Publish, ClientTypes
<1>6. CASE Update
  <2>1. cursor \in Nat
    BY BoundsAssumption DEF ClientTypes
  <2>2. inbox[1].sequence \in 0..MaxClicks /\ inbox[1].visible \in BOOLEAN
    BY <1>6, UpdateSends DEF Sound, State
  <2>3. Outputs(inbox[1]) \in Seq(KeyboardOutput)
    BY <1>6, <2>1, UpdateSends, OutputsElements
  <2>4. requests' \in Seq(KeyboardOutput)
    <3> DEFINE out == Outputs(inbox[1])
    <3>1. requests \in Seq(KeyboardOutput) /\ out \in Seq(KeyboardOutput)
      BY <2>3 DEF ClientTypes
    <3>2. requests' = requests \o out
      BY <1>6, UpdateSends
    <3> HIDE DEF out
    <3> QED BY <3>1, <3>2
  <2>5. cursor' \in 0..MaxClicks /\ visible' \in BOOLEAN /\ initialized' \in BOOLEAN
    BY <1>6, <2>2, UpdateSends
  <2>6. UNCHANGED <<closedLately, pinged, subscribed, typed>>
    BY <1>6, UpdateSends
  <2> QED BY <2>4, <2>5, <2>6 DEF ClientTypes
<1>7. CASE Disconnect
  BY <1>7 DEF Disconnect, ClientTypes
<1> QED BY <1>1, <1>2, <1>3, <1>4, <1>5, <1>6, <1>7 DEF Next

TypeInv == SoundInv /\ ClientTypes

LEMMA TypeInit == Init => TypeInv
<1> SUFFICES ASSUME Init PROVE TypeInv
  OBVIOUS
<1>1. SoundInv
  BY HiddenSound, BoundsAssumption DEF Init, SoundInv
<1>2. ClientTypes
  <2>1. requests = <<>> /\ <<>> \in Seq(KeyboardOutput) /\ 0 \in 0..MaxClicks
    BY BoundsAssumption DEF Init
  <2>2. requests \in Seq(KeyboardOutput) /\ cursor \in 0..MaxClicks
    BY <2>1 DEF Init
  <2> QED BY <2>2 DEF Init, ClientTypes
<1> QED BY <1>1, <1>2 DEF TypeInv

LEMMA TypeStep == TypeInv /\ [Next]_vars => TypeInv'
BY SoundStep, ClientTypesStep DEF TypeInv

(* Every variable keeps its type, and no history is longer than its ring   *)
(* (core/src/ipc.rs OskState, osk/src/keyboard.rs Keyboard).               *)
THEOREM TypeCorrect == Safety => []TypeOK
<1>1. TypeInv => TypeOK
  BY DEF TypeInv, SoundInv, Sound, ClientTypes, TypeOK
<1> QED BY <1>1, TypeInit, TypeStep, PTL DEF Safety

-----------------------------------------------------------------------------
(* The order of clicks.  A state does not tell which run of the daemon it  *)
(* is from; `g' gives that of the connection the client reads (at 0) and   *)
(* of every line it has still to read.                                     *)

Flowing(i) == IF i = 0 THEN initialized ELSE inbox[i] # Disconnected
IsState(i) == i = 0 \/ inbox[i] # Disconnected
Point(i) == IF i = 0 THEN cursor ELSE inbox[i].sequence
AllOfRun(s, r) == \A k \in DOMAIN s.history : s.history[k].run = r

(* Runs rise along the inbox, and change only where a connection ends.     *)
Runs(g) ==
    /\ g \in [0..Len(inbox) -> 1..run]
    /\ \A i \in 1..Len(inbox) :
          /\ g[i - 1] <= g[i]
          /\ inbox[i] = Disconnected \/ Flowing(i - 1) => g[i] = g[i - 1]
          /\ inbox[i] # Disconnected => AllOfRun(inbox[i], g[i])

(* Within a run the states count up, from the cursor to the line that was  *)
(* encoded last.                                                           *)
Points(g) ==
    /\ \A i, j \in 0..Len(inbox) :
          i < j /\ g[i] = g[j] /\ IsState(i) /\ IsState(j) => Point(i) <= Point(j)
    /\ \A i \in 0..Len(inbox) : g[i] = run /\ IsState(i) => Point(i) <= line.sequence

(* The stream that is subscribed is the last one, and of this run.         *)
Ends(g) ==
    /\ Flowing(Len(inbox)) <=> subscribed
    /\ subscribed => g[Len(inbox)] = run

(* A click made in run r before the n-th of that run, or in an older run.  *)
Made(c, r, n) == c.run < r \/ (c.run = r /\ c.sequence < n)

(* Every request names the session of its click; they are in the order of  *)
(* their clicks, later than what was typed, before the cursor.             *)
Queue(r) ==
    /\ \A i \in DOMAIN requests :
          /\ Made(requests[i].click, r, cursor)
          /\ Later(requests[i].click, typed)
          /\ requests[i].session = requests[i].click.session
    /\ \A i, j \in DOMAIN requests : i < j => Later(requests[j].click, requests[i].click)
    /\ Made(typed, r, cursor)

DaemonClicks ==
    /\ line.sequence <= state.sequence
    /\ AllOfRun(state, run) /\ AllOfRun(line, run)

Ordered(g) == Runs(g) /\ Points(g) /\ Ends(g)
OrderInv == TypeInv /\ DaemonClicks /\ \E g : Ordered(g) /\ Queue(g[0])

(* The sequence numbers of states, and what is in the inbox.               *)
LEMMA StateNumbers ==
    ASSUME TypeInv
    PROVE  /\ state.sequence \in Nat /\ line.sequence \in Nat /\ cursor \in Nat
           /\ run \in Nat \ {0} /\ Len(inbox) \in Nat /\ DOMAIN inbox = 1..Len(inbox)
           /\ \A i \in 1..Len(inbox) :
                 inbox[i] # Disconnected => Sound(inbox[i]) /\ inbox[i].sequence \in Nat
<1>1. \A s : Sound(s) => s.sequence \in Nat
  BY BoundsAssumption DEF Sound, State
<1> QED BY <1>1, BoundsAssumption DEF TypeInv, SoundInv, ClientTypes

(* The streams when no line is added to the inbox or taken from it.        *)
LEMMA StreamsSame ==
    ASSUME TypeInv, NEW g, Ordered(g),
           UNCHANGED <<inbox, initialized, cursor, subscribed>>,
           \/ run' = run /\ line'.sequence \in Nat /\ line.sequence <= line'.sequence
           \/ run' = run + 1 /\ ~subscribed
    PROVE  Ordered(g)'
<1>1. /\ line.sequence \in Nat /\ run \in Nat \ {0} /\ Len(inbox) \in Nat
      /\ \A i \in 0..Len(inbox) : IsState(i) => Point(i) \in Nat
  BY StateNumbers DEF IsState, Point
<1>2. \A i \in 0..Len(inbox) : (Flowing(i)' <=> Flowing(i)) /\ (IsState(i)' <=> IsState(i)) /\ Point(i)' = Point(i)
  BY DEF Flowing, IsState, Point
<1>3. g \in [0..Len(inbox) -> 1..run] /\ run <= run' /\ run' \in Nat
  BY <1>1 DEF Ordered, Runs
<1>4. Runs(g)'
  <2>1. g \in [0..Len(inbox) -> 1..run']
    BY <1>1, <1>3
  <2>2. ASSUME NEW i \in 1..Len(inbox) PROVE i - 1 \in 0..Len(inbox)
    BY <1>1
  <2> QED BY <1>2, <2>1, <2>2 DEF Ordered, Runs, AllOfRun
<1>5. Points(g)'
  <2>1. ASSUME NEW i \in 0..Len(inbox), g[i] = run', IsState(i)
        PROVE  Point(i) <= line'.sequence
    <3>1. run' = run
      BY <1>1, <1>3, <2>1
    <3> QED BY <1>1, <2>1, <3>1 DEF Ordered, Points
  <2> QED BY <1>2, <2>1 DEF Ordered, Points
<1>6. Ends(g)'
  <2>1. Len(inbox) \in 0..Len(inbox)
    BY <1>1
  <2> QED BY <1>2, <2>1 DEF Ordered, Ends
<1> QED BY <1>4, <1>5, <1>6 DEF Ordered

(* A line or the end of a connection is added.                             *)
LEMMA StreamsAppend ==
    ASSUME TypeInv, TypeInv', NEW g, Ordered(g), NEW e \in State \cup {Disconnected},
           UNCHANGED <<initialized, cursor>>, inbox' = Append(inbox, e),
           subscribed' <=> e # Disconnected,
           \/ run' = run /\ line.sequence <= line'.sequence
           \/ run' = run + 1 /\ e = Disconnected,
           e # Disconnected => AllOfRun(e, run) /\ e.sequence = line'.sequence
    PROVE  \E f : Ordered(f)' /\ f[0] = g[0]
<1>0. PICK n : n = Len(inbox)
  OBVIOUS
<1> DEFINE last == IF e = Disconnected THEN g[n] ELSE run
<1>1. /\ line.sequence \in Nat /\ run \in Nat \ {0} /\ n \in Nat
      /\ \A i \in 0..n : IsState(i) => Point(i) \in Nat
  BY <1>0, StateNumbers DEF IsState, Point
<1>2. line'.sequence \in Nat /\ run' \in Nat /\ run <= run'
  <2>1. line'.sequence \in Nat
    BY BoundsAssumption DEF TypeInv, SoundInv, Sound, State
  <2> QED BY <1>1, <2>1
<1>3. /\ Len(inbox') = n + 1 /\ inbox'[n + 1] = e
      /\ \A i \in 1..n : inbox'[i] = inbox[i]
  BY <1>0 DEF TypeInv, SoundInv
<1>4. /\ g \in [0..n -> 1..run] /\ g[n] \in 1..run /\ last \in 1..run /\ g[n] <= last
      /\ e = Disconnected \/ Flowing(n) => last = g[n]
  <2>1. g \in [0..n -> 1..run]
    BY <1>0 DEF Ordered, Runs
  <2>2. g[n] \in 1..run /\ run \in 1..run
    BY <1>1, <2>1
  <2>3. Flowing(n) => g[n] = run
    BY <1>0 DEF Ordered, Ends
  <2> QED BY <1>1, <2>1, <2>2, <2>3
<1> HIDE DEF last
<1>5. PICK f \in [0..(n + 1) -> 1..run'] : f[n + 1] = last /\ \A i \in 0..n : f[i] = g[i]
  <2> DEFINE h == [i \in 0..(n + 1) |-> IF i = n + 1 THEN last ELSE g[i]]
  <2>1. h \in [0..(n + 1) -> 1..run'] /\ h[n + 1] = last /\ \A i \in 0..n : h[i] = g[i]
    BY <1>1, <1>2, <1>4
  <2> HIDE DEF h
  <2> QED BY <2>1
<1>6. \A i \in 0..n : (Flowing(i)' <=> Flowing(i)) /\ (IsState(i)' <=> IsState(i)) /\ (IsState(i) => Point(i)' = Point(i))
  <2> TAKE i \in 0..n
  <2>1. CASE i = 0
    BY <2>1 DEF Flowing, IsState, Point
  <2>2. CASE i # 0
    <3>1. i \in 1..n
      BY <1>1, <2>2
    <3> QED BY <1>3, <2>2, <3>1 DEF Flowing, IsState, Point
  <2> QED BY <2>1, <2>2
<1>7. /\ n + 1 # 0 /\ (Flowing(n + 1)' <=> e # Disconnected) /\ (IsState(n + 1)' <=> e # Disconnected)
      /\ (e # Disconnected => Point(n + 1)' = line'.sequence)
  BY <1>1, <1>3 DEF Flowing, IsState, Point
<1>8. Runs(f)'
  <2>1. ASSUME NEW i \in 1..(n + 1)
        PROVE  /\ f[i - 1] <= f[i]
               /\ inbox'[i] = Disconnected \/ Flowing(i - 1)' => f[i] = f[i - 1]
               /\ inbox'[i] # Disconnected => AllOfRun(inbox'[i], f[i])
    <3>1. CASE i = n + 1
      <4>1. i - 1 = n /\ n \in 0..n
        BY <1>1, <3>1
      <4>2. e # Disconnected => last = run
        BY DEF last
      <4> QED BY <1>3, <1>4, <1>5, <1>6, <3>1, <4>1, <4>2 DEF AllOfRun
    <3>2. CASE i # n + 1
      <4>1. i \in 1..n /\ i \in 0..n /\ i - 1 \in 0..n
        BY <1>1, <3>2
      <4> QED BY <1>0, <1>3, <1>5, <1>6, <4>1 DEF Ordered, Runs, AllOfRun
    <3> QED BY <3>1, <3>2
  <2> QED BY <1>3, <1>5, <2>1 DEF Runs, AllOfRun
<1>9. Points(f)'
  <2>1. ASSUME NEW i \in 0..(n + 1), NEW j \in 0..(n + 1), i < j, f[i] = f[j], IsState(i)', IsState(j)'
        PROVE  Point(i)' <= Point(j)'
    <3>1. i \in 0..n /\ f[i] = g[i] /\ IsState(i) /\ Point(i)' = Point(i)
      <4>1. i \in 0..n
        BY <1>1, <2>1
      <4> QED BY <1>5, <1>6, <2>1, <4>1
    <3>2. CASE j = n + 1
      <4>0. IsState(n + 1)' /\ e # Disconnected
        BY <1>7, <2>1, <3>2
      <4>1. e # Disconnected /\ f[j] = run
        BY <1>5, <3>2, <4>0 DEF last
      <4>2. Point(i) <= line.sequence
        BY <1>0, <2>1, <3>1, <4>1 DEF Ordered, Points
      <4>4. run' = run /\ line.sequence <= line'.sequence
        BY <1>1, <4>1
      <4>3. line.sequence <= line'.sequence /\ Point(j)' = line'.sequence
        BY <1>7, <3>2, <4>1, <4>4
      <4> QED BY <1>1, <1>2, <3>1, <4>2, <4>3
    <3>3. CASE j # n + 1
      <4>1. j \in 0..n
        BY <1>1, <3>3
      <4> QED BY <1>0, <1>5, <1>6, <2>1, <3>1, <4>1 DEF Ordered, Points
    <3> QED BY <3>2, <3>3
  <2>2. ASSUME NEW i \in 0..(n + 1), f[i] = run', IsState(i)'
        PROVE  Point(i)' <= line'.sequence
    <3>1. CASE i = n + 1
      <4>1. IsState(n + 1)' /\ Point(n + 1)' = line'.sequence
        BY <1>7, <2>2, <3>1
      <4> QED BY <1>2, <3>1, <4>1
    <3>2. CASE i # n + 1
      <4>1. i \in 0..n /\ f[i] = g[i] /\ IsState(i) /\ Point(i)' = Point(i) /\ g[i] \in 1..run
        <5>1. i \in 0..n
          BY <1>1, <3>2
        <5> QED BY <1>4, <1>5, <1>6, <2>2, <5>1
      <4>2. run' = run
        BY <1>1, <2>2, <4>1
      <4>3. Point(i) <= line.sequence
        BY <1>0, <2>2, <4>1, <4>2 DEF Ordered, Points
      <4>4. line.sequence <= line'.sequence
        BY <1>1, <4>2
      <4> QED BY <1>1, <1>2, <4>1, <4>3, <4>4
    <3> QED BY <3>1, <3>2
  <2> QED BY <1>3, <2>1, <2>2 DEF Points
<1>10. Ends(f)'
  <2>1. e # Disconnected => last = run /\ run' = run
    BY DEF last
  <2> QED BY <1>3, <1>5, <1>7, <2>1 DEF Ends
<1>11. f[0] = g[0]
  BY <1>1, <1>5
<1> QED BY <1>8, <1>9, <1>10, <1>11 DEF Ordered

(* The client takes a line: it is then at that line's run and, if it is a  *)
(* state, at its number.                                                   *)
LEMMA StreamsTail ==
    ASSUME TypeInv, NEW g, Ordered(g), UNCHANGED <<run, line, subscribed>>,
           inbox # <<>>, inbox' = Tail(inbox),
           initialized' <=> inbox[1] # Disconnected,
           cursor' = IF inbox[1] # Disconnected THEN inbox[1].sequence ELSE cursor
    PROVE  \E f : Ordered(f)' /\ f[0] = g[1]
<1>0. PICK n : n = Len(inbox)
  OBVIOUS
<1>1. n \in Nat /\ n >= 1 /\ n - 1 \in Nat
  BY <1>0, StateNumbers DEF TypeInv, SoundInv
<1>2. Len(inbox') = n - 1 /\ \A i \in 1..(n - 1) : inbox'[i] = inbox[i + 1]
  BY <1>0 DEF TypeInv, SoundInv
<1>3. g \in [0..n -> 1..run] /\ \A i \in 0..(n - 1) : i + 1 \in 1..n /\ i + 1 \in 0..n /\ i + 1 # 0
  BY <1>0, <1>1 DEF Ordered, Runs
<1>4. PICK f \in [0..(n - 1) -> 1..run] : \A i \in 0..(n - 1) : f[i] = g[i + 1]
  <2> DEFINE h == [i \in 0..(n - 1) |-> g[i + 1]]
  <2>1. h \in [0..(n - 1) -> 1..run] /\ \A i \in 0..(n - 1) : h[i] = g[i + 1]
    BY <1>3
  <2> HIDE DEF h
  <2> QED BY <2>1
<1>5. \A i \in 0..(n - 1) : Flowing(i)' <=> Flowing(i + 1)
  <2> TAKE i \in 0..(n - 1)
  <2>1. CASE i = 0
    BY <2>1 DEF Flowing
  <2>2. CASE i # 0
    <3>1. i \in 1..(n - 1)
      BY <1>1, <2>2
    <3> QED BY <1>2, <1>3, <2>2, <3>1 DEF Flowing
  <2> QED BY <2>1, <2>2
<1>6. ASSUME NEW i \in 0..(n - 1), IsState(i)'
      PROVE  \E k \in 0..n : k <= i + 1 /\ IsState(k) /\ g[k] = f[i] /\ Point(k) = Point(i)'
  <2>1. CASE i # 0
    <3>1. i \in 1..(n - 1)
      BY <1>1, <2>1
    <3>2. IsState(i + 1) /\ Point(i + 1) = Point(i)' /\ i + 1 <= i + 1
      BY <1>2, <1>3, <1>6, <2>1, <3>1 DEF IsState, Point
    <3> QED BY <1>3, <1>4, <3>2
  <2>2. CASE i = 0 /\ inbox[1] # Disconnected
    <3>1. IsState(1) /\ Point(1) = Point(0)' /\ 1 \in 0..n /\ g[1] = f[0]
      BY <1>1, <1>4, <2>2 DEF IsState, Point
    <3> QED BY <2>2, <3>1
  <2>3. CASE i = 0 /\ inbox[1] = Disconnected
    <3>1. IsState(0) /\ Point(0) = Point(0)' /\ 0 \in 0..n /\ 0 <= 0 + 1
      BY <1>1, <2>3 DEF IsState, Point
    <3>2. 1 \in 1..n /\ g[1] = g[1 - 1] /\ f[0] = g[1]
      BY <1>0, <1>1, <1>4, <2>3 DEF Ordered, Runs
    <3> QED BY <2>3, <3>1, <3>2
  <2> QED BY <2>1, <2>2, <2>3
<1>7. ASSUME NEW i \in 1..(n - 1), IsState(i)'
      PROVE  i + 1 \in 0..n /\ IsState(i + 1) /\ g[i + 1] = f[i] /\ Point(i + 1) = Point(i)'
  <2>1. i # 0 /\ i \in 0..(n - 1)
    BY <1>1
  <2> QED BY <1>2, <1>3, <1>4, <1>7, <2>1 DEF IsState, Point
<1>8. Runs(f)'
  <2>1. ASSUME NEW i \in 1..(n - 1)
        PROVE  /\ f[i - 1] <= f[i]
               /\ inbox'[i] = Disconnected \/ Flowing(i - 1)' => f[i] = f[i - 1]
               /\ inbox'[i] # Disconnected => AllOfRun(inbox'[i], f[i])
    <3>1. i + 1 \in 1..n /\ i \in 0..(n - 1) /\ i - 1 \in 0..(n - 1) /\ (i - 1) + 1 = i /\ (i + 1) - 1 = i
      BY <1>1
    <3>2. f[i] = g[i + 1] /\ f[i - 1] = g[i] /\ inbox'[i] = inbox[i + 1] /\ (Flowing(i - 1)' <=> Flowing(i))
      BY <1>2, <1>4, <1>5, <3>1
    <3>3. /\ g[i] <= g[i + 1]
          /\ inbox[i + 1] = Disconnected \/ Flowing(i) => g[i + 1] = g[i]
          /\ inbox[i + 1] # Disconnected => AllOfRun(inbox[i + 1], g[i + 1])
      BY <1>0, <3>1 DEF Ordered, Runs
    <3> QED BY <3>2, <3>3 DEF AllOfRun
  <2> QED BY <1>2, <1>4, <2>1 DEF Runs, AllOfRun
<1>9. Points(f)'
  <2>1. ASSUME NEW i \in 0..(n - 1), NEW j \in 0..(n - 1), i < j, f[i] = f[j], IsState(i)', IsState(j)'
        PROVE  Point(i)' <= Point(j)'
    <3>1. PICK k \in 0..n : k <= i + 1 /\ IsState(k) /\ g[k] = f[i] /\ Point(k) = Point(i)'
      BY <1>6, <2>1
    <3>2. j \in 1..(n - 1) /\ k < j + 1
      BY <1>1, <2>1, <3>1
    <3>3. j + 1 \in 0..n /\ IsState(j + 1) /\ g[j + 1] = f[j] /\ Point(j + 1) = Point(j)'
      BY <1>7, <2>1, <3>2
    <3> QED BY <1>0, <2>1, <3>1, <3>2, <3>3 DEF Ordered, Points
  <2>2. ASSUME NEW i \in 0..(n - 1), f[i] = run, IsState(i)'
        PROVE  Point(i)' <= line.sequence
    <3>1. PICK k \in 0..n : k <= i + 1 /\ IsState(k) /\ g[k] = f[i] /\ Point(k) = Point(i)'
      BY <1>6, <2>2
    <3> QED BY <1>0, <2>2, <3>1 DEF Ordered, Points
  <2> QED BY <1>2, <2>1, <2>2 DEF Points
<1>10. Ends(f)'
  <2>1. n - 1 \in 0..(n - 1) /\ (n - 1) + 1 = n
    BY <1>1
  <2>2. (Flowing(n - 1)' <=> Flowing((n - 1) + 1)) /\ f[n - 1] = g[(n - 1) + 1]
    BY <1>4, <1>5, <2>1
  <2>3. (Flowing(n - 1)' <=> Flowing(n)) /\ f[n - 1] = g[n]
    BY <2>1, <2>2
  <2> QED BY <1>0, <1>2, <2>3 DEF Ordered, Ends
<1>11. f[0] = g[1]
  BY <1>1, <1>4
<1> QED BY <1>8, <1>9, <1>10, <1>11 DEF Ordered

(* The queue when a request is answered: what is typed is what was there,  *)
(* or the click of the request.                                            *)
LEMMA QueueTail ==
    ASSUME TypeInv, NEW r, Queue(r), requests # <<>>, requests' = Tail(requests), cursor' = cursor,
           typed' = typed \/ typed' = requests[1].click
    PROVE  Queue(r)'
<1>1. /\ Len(requests) \in Nat /\ Len(requests) >= 1 /\ DOMAIN requests = 1..Len(requests)
      /\ Len(requests') = Len(requests) - 1 /\ DOMAIN requests' = 1..(Len(requests) - 1)
      /\ \A i \in 1..(Len(requests) - 1) : requests'[i] = requests[i + 1]
  BY DEF TypeInv, ClientTypes
<1>2. \A i \in 1..(Len(requests) - 1) : i + 1 \in DOMAIN requests /\ 1 \in DOMAIN requests /\ 1 < i + 1
  BY <1>1
<1>3. \A i, j \in 1..(Len(requests) - 1) : i < j => i + 1 < j + 1
  BY <1>1
<1>4. \A i \in 1..(Len(requests) - 1) : Later(requests[i + 1].click, typed')
  BY <1>2 DEF Queue
<1>5. Made(typed', r, cursor)
  BY <1>1 DEF Queue
<1> QED BY <1>1, <1>2, <1>3, <1>4, <1>5 DEF Queue

LEMMA QueueSame ==
    ASSUME NEW r, Queue(r), UNCHANGED <<requests, typed, cursor>>
    PROVE  Queue(r)'
BY DEF Queue

(* What was made before a point was made before every later one, and what  *)
(* is made there comes later.                                              *)
LEMMA MadeMore ==
    ASSUME NEW c, c.run \in Nat, c.sequence \in Nat, NEW r \in Nat, NEW n \in Nat, Made(c, r, n)
    PROVE  /\ \A q \in Nat, m \in Nat : r <= q /\ (r = q => n <= m) => Made(c, q, m)
           /\ \A d : d.run = r /\ d.sequence \in Nat /\ d.sequence >= n => Later(d, c)
BY DEF Made, Later

(* The queue when a state has been looked at.                              *)
LEMMA QueueUpdate ==
    ASSUME TypeInv, NEW g, Ordered(g), Queue(g[0]), Update
    PROVE  Queue(g[1])'
<1>1. /\ inbox # <<>> /\ inbox[1] # Disconnected /\ Sound(inbox[1])
      /\ requests' = requests \o Outputs(inbox[1])
      /\ cursor' = inbox[1].sequence /\ typed' = typed
  BY UpdateSends DEF TypeInv
<1>2. PICK new : new = inbox[1]
  OBVIOUS
<1>3. PICK out : out = Outputs(new)
  OBVIOUS
<1>4. PICK old : old = requests
  OBVIOUS
<1>5. PICK r, q, n, m : r = g[0] /\ q = g[1] /\ n = cursor /\ m = new.sequence
  OBVIOUS
<1>6. 1 \in 1..Len(inbox) /\ 0 \in 0..Len(inbox) /\ 1 \in 0..Len(inbox) /\ 1 - 1 = 0
  <2>1. Len(inbox) \in Nat /\ Len(inbox) >= 1
    BY <1>1 DEF TypeInv, SoundInv
  <2> QED BY <2>1
<1>7. /\ n \in Nat /\ m \in Nat /\ r \in Nat /\ q \in Nat
  <2>1. run \in Nat /\ g \in [0..Len(inbox) -> 1..run]
    BY StateNumbers DEF Ordered, Runs
  <2>2. g[0] \in 1..run /\ g[1] \in 1..run
    BY <1>6, <2>1
  <2>3. r \in Nat /\ q \in Nat
    BY <1>5, <2>1, <2>2
  <2>4. cursor \in Nat /\ inbox[1].sequence \in Nat
    BY <1>1, <1>6, StateNumbers
  <2> QED BY <1>2, <1>5, <2>3, <2>4
<1>8. /\ r <= q /\ (initialized => r = q) /\ AllOfRun(new, q)
      /\ r = q => n <= m
  <2>1. /\ r <= q /\ (initialized => r = q) /\ AllOfRun(new, q)
    BY <1>1, <1>2, <1>5, <1>6 DEF Ordered, Runs, Flowing
  <2>2. r = q => n <= m
    <3>1. IsState(0) /\ IsState(1) /\ Point(0) = n /\ Point(1) = m /\ 0 < 1
      BY <1>1, <1>2, <1>5 DEF IsState, Point
    <3> QED BY <1>5, <1>6, <3>1 DEF Ordered, Points
  <2> QED BY <2>1, <2>2
<1>9. /\ out \in Seq(KeyboardOutput)
      /\ \A i \in 1..Len(out) :
            /\ initialized
            /\ out[i].click.run = q
            /\ out[i].session = new.session /\ out[i].click.session = new.session
            /\ out[i].click.sequence < m
            /\ n <= m => out[i].click.sequence >= n
      /\ \A i, j \in 1..Len(out) : i < j => out[i].click.sequence < out[j].click.sequence
  <2>1. Sound(new) /\ cursor \in Nat
    BY <1>1, <1>2, <1>5, <1>7
  <2> QED BY <1>3, <1>5, <1>8, <2>1, OutputsElements DEF AllOfRun
<1>10. /\ old \in Seq(KeyboardOutput)
       /\ \A i \in 1..Len(old) :
             Made(old[i].click, r, n) /\ Later(old[i].click, typed) /\ old[i].session = old[i].click.session
       /\ \A i, j \in 1..Len(old) : i < j => Later(old[j].click, old[i].click)
       /\ Made(typed, r, n)
  <2>1. old \in Seq(KeyboardOutput) /\ DOMAIN old = 1..Len(old)
    BY <1>4 DEF TypeInv, ClientTypes
  <2> QED BY <1>4, <1>5, <2>1 DEF Queue
<1>11. \A c \in Click \cup {NoClick} : c.run \in Nat /\ c.sequence \in Nat
  BY BoundsAssumption DEF Click, NoClick
<1>12. /\ typed \in Click \cup {NoClick}
       /\ \A i \in 1..Len(old) : old[i].click \in Click \cup {NoClick}
       /\ \A i \in 1..Len(out) : out[i].click \in Click \cup {NoClick}
  <2>1. typed \in Click \cup {NoClick}
    BY DEF TypeInv, ClientTypes
  <2>2. \A o \in KeyboardOutput : o.click \in Click
    BY DEF KeyboardOutput
  <2>3. /\ \A i \in 1..Len(old) : old[i] \in KeyboardOutput
        /\ \A i \in 1..Len(out) : out[i] \in KeyboardOutput
    BY <1>9, <1>10
  <2> QED BY <2>1, <2>2, <2>3
<1>13. PICK all : all = old \o out
  OBVIOUS
<1>14. /\ all \in Seq(KeyboardOutput) /\ Len(all) = Len(old) + Len(out) /\ DOMAIN all = 1..Len(all)
       /\ Len(old) \in Nat /\ Len(out) \in Nat
       /\ \A i \in 1..Len(all) : all[i] = IF i <= Len(old) THEN old[i] ELSE out[i - Len(old)]
  BY <1>9, <1>10, <1>13
<1>15. \A i \in 1..Len(all) :
          /\ i <= Len(old) => i \in 1..Len(old) /\ all[i] = old[i]
          /\ ~(i <= Len(old)) => i - Len(old) \in 1..Len(out) /\ all[i] = out[i - Len(old)]
  BY <1>14
(* Of each part.                                                           *)
<1>16. ASSUME NEW c \in Click \cup {NoClick}, Made(c, r, n)
       PROVE  Made(c, q, m) /\ \A i \in 1..Len(out) : Later(out[i].click, c)
  <2>1. Made(c, q, m)
    BY <1>7, <1>8, <1>11, <1>16, MadeMore
  <2>2. ASSUME NEW i \in 1..Len(out) PROVE Later(out[i].click, c)
    <3>1. out[i].click.run = r /\ out[i].click.sequence \in Nat /\ out[i].click.sequence >= n
      BY <1>8, <1>9, <1>11, <1>12
    <3> QED BY <1>7, <1>11, <1>16, <3>1, MadeMore
  <2> QED BY <2>1, <2>2
<1>17. \A i \in 1..Len(out) : Made(out[i].click, q, m)
  BY <1>9 DEF Made
<1>18. \A i, j \in 1..Len(out) : i < j => Later(out[j].click, out[i].click)
  <2> TAKE i, j \in 1..Len(out)
  <2>1. out[i].click.sequence \in Nat /\ out[j].click.sequence \in Nat
    BY <1>11, <1>12
  <2> QED BY <1>9, <2>1 DEF Later
(* Of the whole.                                                           *)
<1>19. ASSUME NEW i \in 1..Len(all)
       PROVE  /\ Made(all[i].click, q, m) /\ Later(all[i].click, typed)
              /\ all[i].session = all[i].click.session
  <2>1. CASE i <= Len(old)
    <3>1. i \in 1..Len(old) /\ all[i] = old[i]
      BY <1>15, <2>1
    <3> QED BY <1>10, <1>12, <1>16, <3>1
  <2>2. CASE ~(i <= Len(old))
    <3>1. i - Len(old) \in 1..Len(out) /\ all[i] = out[i - Len(old)]
      BY <1>15, <2>2
    <3> QED BY <1>9, <1>10, <1>12, <1>16, <1>17, <3>1
  <2> QED BY <2>1, <2>2
<1>20. ASSUME NEW i \in 1..Len(all), NEW j \in 1..Len(all), i < j
       PROVE  Later(all[j].click, all[i].click)
  <2>1. CASE j <= Len(old)
    <3>1. i \in 1..Len(old) /\ all[i] = old[i] /\ j \in 1..Len(old) /\ all[j] = old[j]
      <4>1. i <= Len(old)
        BY <1>14, <1>20, <2>1
      <4> QED BY <1>15, <2>1, <4>1
    <3> QED BY <1>10, <1>20, <3>1
  <2>2. CASE i <= Len(old) /\ ~(j <= Len(old))
    <3>1. i \in 1..Len(old) /\ all[i] = old[i] /\ j - Len(old) \in 1..Len(out) /\ all[j] = out[j - Len(old)]
      BY <1>15, <2>2
    <3> QED BY <1>10, <1>12, <1>16, <3>1
  <2>3. CASE ~(i <= Len(old)) /\ ~(j <= Len(old))
    <3>1. /\ i - Len(old) \in 1..Len(out) /\ all[i] = out[i - Len(old)]
          /\ j - Len(old) \in 1..Len(out) /\ all[j] = out[j - Len(old)]
      BY <1>15, <2>3
    <3>2. i - Len(old) < j - Len(old)
      BY <1>14, <1>20
    <3> QED BY <1>18, <3>1, <3>2
  <2> QED BY <2>1, <2>2, <2>3
<1>21. Made(typed, q, m)
  BY <1>10, <1>12, <1>16
<1>22. requests' = all /\ cursor' = m /\ typed' = typed /\ g[1] = q
  BY <1>1, <1>2, <1>3, <1>4, <1>5, <1>13
<1> QED BY <1>14, <1>19, <1>20, <1>21, <1>22 DEF Queue

(* Clicks of one run stay of that run when another is recorded.            *)
LEMMA RecordedRun ==
    ASSUME Sound(state), AllOfRun(state, run), NEW hit \in Hit,
           run \in 1..MaxRun, state.visible, state.sequence < MaxClicks
    PROVE  AllOfRun(Recorded(state, hit), run) /\ Recorded(state, hit).sequence = state.sequence + 1
<1> DEFINE click == [run |-> run, session |-> state.session, sequence |-> state.sequence, hit |-> hit]
           all == Append(state.history, click)
           kept == Newest(all, HistoryLen)
<1>1. /\ state \in State /\ state.session \in 1..MaxSession /\ state.sequence \in 0..(MaxClicks - 1)
      /\ state.history \in Seq(Click) /\ Len(state.history) \in Nat
      /\ DOMAIN state.history = 1..Len(state.history)
  BY BoundsAssumption DEF Sound, State
<1>2. click \in Click /\ click.run = run
  BY <1>1 DEF Click
<1>3. /\ all \in Seq(Click) /\ Len(all) = Len(state.history) + 1
      /\ \A i \in 1..Len(state.history) : all[i] = state.history[i]
      /\ all[Len(state.history) + 1] = click
  BY <1>1, <1>2
<1> HIDE DEF click, all
<1>4. \A i \in 1..Len(all) : all[i].run = run
  <2> TAKE i \in 1..Len(all)
  <2>1. i \in 1..Len(state.history) \/ i = Len(state.history) + 1
    BY <1>1, <1>3
  <2> QED BY <1>1, <1>2, <1>3, <2>1 DEF AllOfRun
<1>5. Len(all) \in Nat /\ HistoryLen \in Nat
  BY <1>1, <1>3, BoundsAssumption
<1>6. /\ kept \in Seq(Click)
      /\ Len(kept) = IF HistoryLen >= Len(all) THEN Len(all) ELSE HistoryLen
      /\ \A i \in 1..Len(kept) : kept[i] = all[Len(all) - Len(kept) + i]
  BY <1>3, <1>5, NewestElements
<1> HIDE DEF kept
<1>7. \A i \in DOMAIN kept : kept[i].run = run
  <2> TAKE i \in DOMAIN kept
  <2>1. i \in 1..Len(kept) /\ Len(all) - Len(kept) + i \in 1..Len(all)
    BY <1>5, <1>6
  <2> QED BY <1>4, <1>6, <2>1
<1>8. Recorded(state, hit).history = kept /\ Recorded(state, hit).sequence = state.sequence + 1
  <2>1. Recorded(state, hit) = [state EXCEPT !.sequence = state.sequence + 1, !.history = kept]
    BY <1>1 DEF Recorded, State, kept, all, click
  <2> QED BY <1>1, <2>1 DEF State
<1> QED BY <1>7, <1>8 DEF AllOfRun

(* set_visible makes no clicks and does not count.                         *)
LEMMA VisibilityRun ==
    ASSUME NEW s, Sound(s), NEW r, AllOfRun(s, r)
    PROVE  /\ AllOfRun(Shown(s), r) /\ Shown(s).sequence = s.sequence
           /\ AllOfRun(Closed(s), r) /\ Closed(s).sequence = s.sequence
<1>1. /\ Closed(s).history = s.history /\ Closed(s).sequence = s.sequence
      /\ Shown(s).sequence = s.sequence /\ (Shown(s).history = s.history \/ Shown(s).history = <<>>)
  BY DEF Shown, Closed, Sound, State
<1> QED BY <1>1 DEF AllOfRun

(* A step of the main loop that leaves the line and the client alone.      *)
LEMMA OrderMain ==
    ASSUME OrderInv, TypeInv', UNCHANGED <<run, line, inbox, initialized, cursor, subscribed>>,
           AllOfRun(state', run) /\ state.sequence <= state'.sequence,
           \/ UNCHANGED <<requests, typed>>
           \/ /\ requests # <<>> /\ requests' = Tail(requests)
              /\ typed' = typed \/ typed' = requests[1].click
    PROVE  OrderInv'
<1>1. PICK g : Ordered(g) /\ Queue(g[0])
  BY DEF OrderInv
<1>2. /\ state.sequence \in Nat /\ line.sequence \in Nat /\ state'.sequence \in Nat
  <2>1. state'.sequence \in Nat
    BY BoundsAssumption DEF TypeInv, SoundInv, Sound, State
  <2> QED BY <2>1, StateNumbers DEF OrderInv
<1>3. Ordered(g)'
  BY <1>1, <1>2, StreamsSame DEF OrderInv
<1>4. Queue(g[0])'
  BY <1>1, QueueSame, QueueTail DEF OrderInv
<1>5. DaemonClicks'
  BY <1>2 DEF OrderInv, DaemonClicks, AllOfRun
<1> QED BY <1>3, <1>4, <1>5 DEF OrderInv

(* The end of a connection is told from a state.                           *)
LEMMA EndIsNoState == Disconnected \notin State
<1> SUFFICES ASSUME Disconnected \in State PROVE FALSE
  OBVIOUS
<1>1. DOMAIN Disconnected = {"visible", "session", "sequence", "history"}
  BY DEF State
<1>2. DOMAIN Disconnected = {"gone"}
  BY DEF Disconnected
<1>3. "visible" # "gone"
  OBVIOUS
<1> QED BY <1>1, <1>2, <1>3

LEMMA OrderInit == Init => OrderInv
<1> SUFFICES ASSUME Init PROVE OrderInv
  OBVIOUS
<1>1. inbox = <<>> /\ requests = <<>> /\ Len(<<>>) = 0 /\ 1..0 = {} /\ DOMAIN <<>> = {} /\ run = 1
  BY DEF Init
<1>2. PICK g \in [0..0 -> 1..1] : g[0] = 1
  <2> DEFINE h == [i \in 0..0 |-> 1]
  <2>1. h \in [0..0 -> 1..1] /\ h[0] = 1
    OBVIOUS
  <2> HIDE DEF h
  <2> QED BY <2>1
<1>3. cursor = 0 /\ line.sequence = 0 /\ state.sequence = 0 /\ line.history = <<>> /\ state.history = <<>>
  BY DEF Init, Hidden
<1>4. Runs(g)
  BY <1>1, <1>2 DEF Runs
<1>5. Points(g)
  <2>1. \A i \in 0..Len(inbox) : i = 0
    BY <1>1
  <2> QED BY <1>1, <1>3, <2>1 DEF Points, Point
<1>6. Ends(g)
  BY <1>1 DEF Ends, Flowing, Init
<1>7. Queue(g[0])
  <2>1. Made(typed, 1, cursor)
    BY DEF Init, NoClick, Made
  <2> QED BY <1>1, <1>2, <2>1 DEF Queue
<1>8. DaemonClicks
  BY <1>1, <1>3 DEF DaemonClicks, AllOfRun
<1> QED BY <1>4, <1>5, <1>6, <1>7, <1>8, TypeInit DEF OrderInv, Ordered

(* Every step keeps clicks in their order.                                 *)
LEMMA OrderStep == OrderInv /\ [Next]_vars => OrderInv'
<1> SUFFICES ASSUME OrderInv, [Next]_vars PROVE OrderInv'
  OBVIOUS
<1> USE DEF server, client, daemon
<1>1. TypeInv /\ TypeInv'
  BY TypeStep DEF OrderInv
<1>2. /\ AllOfRun(state, run) /\ Sound(state) /\ run \in 1..MaxRun
      /\ state.sequence \in Nat /\ state.sequence <= state.sequence /\ line.sequence \in Nat
  BY <1>1, StateNumbers DEF OrderInv, DaemonClicks, TypeInv, SoundInv
<1>3. PICK g : Ordered(g) /\ Queue(g[0])
  BY DEF OrderInv
<1>4. requests # <<>> => Request = requests[1]
  BY <1>1 DEF Request, TypeInv, ClientTypes
<1>5. CASE Toggle
  <2>1. AllOfRun(state', run) /\ state'.sequence = state.sequence
    BY <1>2, <1>5, VisibilityRun DEF Toggle, Publish
  <2>2. UNCHANGED <<run, line, inbox, initialized, cursor, subscribed, requests, typed>>
    BY <1>5 DEF Toggle
  <2> QED BY <1>1, <1>2, <2>1, <2>2, OrderMain
<1>6. CASE RecordClick
  <2>1. state.visible /\ state.sequence < MaxClicks
    BY <1>2, <1>6, BoundsAssumption DEF RecordClick
  <2>2. AllOfRun(state', run) /\ state'.sequence = state.sequence + 1
    BY <1>2, <1>6, <2>1, RecordedRun DEF RecordClick, Publish
  <2>3. UNCHANGED <<run, line, inbox, initialized, cursor, subscribed, requests, typed>>
    BY <1>6 DEF RecordClick
  <2>4. state.sequence <= state'.sequence
    BY <1>2, <2>2
  <2> QED BY <1>1, <2>2, <2>3, <2>4, OrderMain
<1>7. CASE ControllerLost
  <2>1. AllOfRun(state', run) /\ state'.sequence = state.sequence
    BY <1>2, <1>7, VisibilityRun DEF ControllerLost, Publish
  <2>2. UNCHANGED <<run, line, inbox, initialized, cursor, subscribed, requests, typed>>
    BY <1>7 DEF ControllerLost
  <2> QED BY <1>1, <1>2, <2>1, <2>2, OrderMain
<1>8. CASE GraceEnds \/ UNCHANGED vars
  <2>1. UNCHANGED <<run, line, inbox, initialized, cursor, subscribed, requests, typed, state>>
    BY <1>8 DEF GraceEnds, vars
  <2> QED BY <1>1, <1>2, <2>1, OrderMain
<1>9. CASE TypeKey \/ Hide \/ RequestFails
  <2>1. /\ UNCHANGED <<run, line, inbox, initialized, cursor, subscribed>>
        /\ requests # <<>> /\ requests' = Tail(requests)
        /\ typed' = typed \/ typed' = requests[1].click
    BY <1>4, <1>9 DEF TypeKey, Hide, RequestFails
  <2>2. AllOfRun(state', run) /\ state'.sequence = state.sequence
    BY <1>2, <1>9, VisibilityRun DEF TypeKey, Hide, RequestFails, Publish
  <2> QED BY <1>1, <1>2, <2>1, <2>2, OrderMain
<1>10. CASE Restart
  <2>1. /\ run' = run + 1 /\ state' = Hidden /\ line' = Hidden /\ subscribed' = FALSE
        /\ UNCHANGED <<initialized, cursor, requests, typed>>
        /\ inbox' = IF subscribed THEN Append(inbox, Disconnected) ELSE inbox
    BY <1>10 DEF Restart
  <2>2. DaemonClicks'
    BY <2>1 DEF DaemonClicks, AllOfRun, Hidden
  <2>3. \E f : Ordered(f)' /\ f[0] = g[0]
    <3>1. CASE subscribed
      <4>1. Disconnected \in State \cup {Disconnected} /\ (subscribed' <=> Disconnected # Disconnected)
        BY <2>1
      <4>2. inbox' = Append(inbox, Disconnected)
        BY <2>1, <3>1
      <4> QED BY <1>1, <1>3, <2>1, <4>1, <4>2, StreamsAppend
    <3>2. CASE ~subscribed
      <4>1. subscribed' = subscribed /\ inbox' = inbox
        BY <1>1, <2>1, <3>2 DEF TypeInv, ClientTypes
      <4> QED BY <1>1, <1>3, <2>1, <3>2, <4>1, StreamsSame
    <3> QED BY <3>1, <3>2
  <2>4. Queue(g[0])'
    BY <1>3, <2>1, QueueSame
  <2> QED BY <1>1, <2>2, <2>3, <2>4 DEF OrderInv
<1>11. CASE Send
  <2>1. /\ run' = run /\ state' = state /\ line' = state
        /\ UNCHANGED <<initialized, cursor, requests, typed>>
    BY <1>11 DEF Send
  <2>2. line.sequence <= state.sequence
    BY DEF OrderInv, DaemonClicks
  <2>3. DaemonClicks'
    BY <1>2, <2>1 DEF DaemonClicks, AllOfRun
  <2>4. \E f : Ordered(f)' /\ f[0] = g[0]
    <3>1. CASE UNCHANGED <<subscribed, inbox>>
      BY <1>1, <1>2, <1>3, <2>1, <2>2, <3>1, StreamsSame
    <3>2. CASE subscribed /\ subscribed' = subscribed /\ inbox' = Append(inbox, state)
      <4>1. state \in State /\ state # Disconnected
        BY <1>2, EndIsNoState DEF Sound
      <4> QED BY <1>1, <1>2, <1>3, <2>1, <2>2, <3>2, <4>1, StreamsAppend
    <3>3. CASE subscribed' = FALSE /\ inbox' = Append(inbox, Disconnected)
      BY <1>1, <1>3, <2>1, <2>2, <3>3, StreamsAppend
    <3> QED BY <1>11, <3>1, <3>2, <3>3 DEF Send
  <2>5. Queue(g[0])'
    BY <1>3, <2>1, QueueSame
  <2> QED BY <1>1, <2>3, <2>4, <2>5 DEF OrderInv
<1>12. CASE Subscribe
  <2>1. /\ subscribed' = TRUE /\ inbox' = Append(inbox, line)
        /\ UNCHANGED <<run, state, line, initialized, cursor, requests, typed>>
    BY <1>12 DEF Subscribe
  <2>2. line \in State /\ line # Disconnected /\ AllOfRun(line, run) /\ line.sequence <= line.sequence
    BY <1>1, <1>2, EndIsNoState DEF TypeInv, SoundInv, Sound, OrderInv, DaemonClicks
  <2>3. DaemonClicks'
    BY <2>1 DEF OrderInv, DaemonClicks, AllOfRun
  <2>4. \E f : Ordered(f)' /\ f[0] = g[0]
    BY <1>1, <1>3, <2>1, <2>2, StreamsAppend
  <2>5. Queue(g[0])'
    BY <1>3, <2>1, QueueSame
  <2> QED BY <1>1, <2>3, <2>4, <2>5 DEF OrderInv
<1>13. CASE Update
  <2>1. /\ inbox # <<>> /\ inbox[1] # Disconnected /\ cursor' = inbox[1].sequence
        /\ initialized' = TRUE /\ inbox' = Tail(inbox)
        /\ UNCHANGED <<run, state, line, subscribed>>
    BY <1>1, <1>13, UpdateSends DEF TypeInv
  <2>2. \E f : Ordered(f)' /\ f[0] = g[1]
    BY <1>1, <1>3, <2>1, StreamsTail
  <2>3. Queue(g[1])'
    BY <1>1, <1>3, <1>13, QueueUpdate
  <2>4. DaemonClicks'
    BY <2>1 DEF OrderInv, DaemonClicks, AllOfRun
  <2> QED BY <1>1, <2>2, <2>3, <2>4 DEF OrderInv
<1>14. CASE Disconnect
  <2>1. /\ inbox # <<>> /\ inbox[1] = Disconnected /\ initialized' = FALSE /\ inbox' = Tail(inbox)
        /\ UNCHANGED <<run, state, line, subscribed, cursor, requests, typed>>
    BY <1>1, <1>14 DEF Disconnect, TypeInv, SoundInv
  <2>2. \E f : Ordered(f)' /\ f[0] = g[1]
    BY <1>1, <1>3, <2>1, StreamsTail
  <2>3. g[1] = g[0]
    <3>1. 1 \in 1..Len(inbox) /\ 1 - 1 = 0
      BY <1>1, <2>1 DEF TypeInv, SoundInv
    <3> QED BY <1>3, <2>1, <3>1 DEF Ordered, Runs
  <2>4. Queue(g[0])'
    BY <1>3, <2>1, QueueSame
  <2>5. DaemonClicks'
    BY <2>1 DEF OrderInv, DaemonClicks, AllOfRun
  <2> QED BY <1>1, <2>2, <2>3, <2>4, <2>5 DEF OrderInv
<1> QED BY <1>5, <1>6, <1>7, <1>8, <1>9, <1>10, <1>11, <1>12, <1>13, <1>14 DEF Next

(* A click is typed at most once, and clicks are typed in the order they   *)
(* were made, for any history length: however states were coalesced in the *)
(* watch channel, sent again or lost with a connection, and across a       *)
(* restart of the daemon (core ipc.rs clicks_since, osk keyboard.rs        *)
(* update, the single output thread in wayland.rs).                        *)
THEOREM TypedOnce == Spec => TypedOnceInOrder
<1>1. ASSUME OrderInv, TypeKey, AcceptsKey PROVE Later(typed', typed)
  <2>1. requests # <<>> /\ Request = requests[1] /\ 1 \in DOMAIN requests /\ typed' = requests[1].click
    BY <1>1 DEF TypeKey, Request, OrderInv, TypeInv, ClientTypes
  <2> QED BY <1>1, <2>1 DEF OrderInv, Queue
<1>2. OrderInv /\ [Next]_vars => [TypeKey /\ AcceptsKey => Later(typed', typed)]_vars
  BY <1>1
<1> QED BY <1>2, OrderInit, OrderStep, PTL DEF Spec, Safety, TypedOnceInOrder

(* A click of this run of the daemon is typed into no other showing of the *)
(* keyboard than the one it was made for (OskState::set_visible, session   *)
(* in KeyboardOutput, and Request::Key in main.rs).                        *)
THEOREM TypedInSession == Spec => TypedInItsSession
<1>1. ASSUME OrderInv, TypeKey, AcceptsKey PROVE typed'.session = state.session
  <2>1. requests # <<>> /\ Request = requests[1] /\ 1 \in DOMAIN requests /\ typed' = requests[1].click
    BY <1>1 DEF TypeKey, Request, OrderInv, TypeInv, ClientTypes
  <2>2. requests[1].session = requests[1].click.session
    <3>1. PICK g : Queue(g[0])
      BY <1>1 DEF OrderInv
    <3> QED BY <2>1, <3>1 DEF Queue
  <2> QED BY <1>1, <2>1, <2>2 DEF AcceptsKey
<1>2. OrderInv /\ [Next]_vars =>
         [TypeKey /\ AcceptsKey /\ typed'.run = run => typed'.session = state.session]_vars
  BY <1>1
<1> QED BY <1>2, OrderInit, OrderStep, PTL DEF Spec, Safety, TypedInItsSession
=============================================================================
