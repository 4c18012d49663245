--------------------------- MODULE RumblePathProofs ---------------------------
(***************************************************************************)
(* Proofs about Haptics, for any set of strengths, and about RumblePath,   *)
(* for any finite number of slots and any number of waiting events: the    *)
(* path implements Haptics, inherits what is true of it, and keeps its     *)
(* table of effects true to the games.                                     *)
(***************************************************************************)
EXTENDS RumblePath, FiniteSetTheorems, TLAPS

-----------------------------------------------------------------------------
(* Haptics.                                                                *)

(* The types are kept by every step of the main loop, the game and the bus.*)
LEMMA TypeStep == TypeOK /\ [Next]_vars => TypeOK'
<1> SUFFICES ASSUME TypeOK, [Next]_vars PROVE TypeOK'
  OBVIOUS
<1> USE DEF TypeOK, Level
<1>1. CASE GameRumbles
  BY <1>1 DEF GameRumbles
<1>2. CASE Swipe
  BY <1>2 DEF Swipe
<1>3. CASE SetGamepad
  BY <1>3 DEF SetGamepad, Replaced
<1>4. CASE Connect
  BY <1>4 DEF Connect, Free
<1>5. CASE Disconnect
  <2>1. output' \in [kind : {Free, Click}] \cup [kind : {"rumble"}, level : Level]
    BY <1>5 DEF Disconnect, Free
  <2>2. motor' \in Level
    BY <1>5 DEF Disconnect
  <2> QED
    BY <1>5, <2>1, <2>2 DEF Disconnect
<1>6. CASE Complete
  BY <1>6 DEF Complete, Free, Click
<1>7. CASE PlayHaptic
  BY <1>7 DEF PlayHaptic, Write, Free, Click
<1>8. CASE PollRumble
  <2>1. rumble' \in Level /\ reported' \in Level /\ stopPending' \in BOOLEAN
    BY <1>8 DEF PollRumble, PollStop, PollLevel
  <2> QED
    BY <1>8, <2>1 DEF PollRumble, PollStop, PollLevel, Write, Free, Click
<1>9. CASE Refresh
  BY <1>9 DEF Refresh, Write, Free, Click
<1>10. CASE UNCHANGED vars
  BY <1>10 DEF vars
<1> QED
  BY <1>1, <1>2, <1>3, <1>4, <1>5, <1>6, <1>7, <1>8, <1>9, <1>10 DEF Next

(* Every variable keeps its type: in particular only levels that the game  *)
(* can ask for ever reach the main loop and the output transfer.           *)
THEOREM TypeCorrect == Safety => []TypeOK
<1>1. Init => TypeOK
  <2> SUFFICES ASSUME Init PROVE TypeOK
    OBVIOUS
  <2>1. output \in [kind : {Free, Click}]
    BY DEF Init, Free
  <2>2. 0 \in Level
    BY DEF Level
  <2> QED
    BY <2>1, <2>2 DEF Init, TypeOK
<1>2. TypeOK /\ [Next]_vars => TypeOK'
  BY TypeStep
<1> QED
  BY <1>1, <1>2, PTL DEF Safety

(* No gamepad leaves its rumble behind: whatever order of replacements,    *)
(* polls and disconnects, the main loop's level is that of the gamepad     *)
(* that exists, or a stop is still owed.                                   *)
THEOREM NoRumbleLeftBehind == Safety => []RumbleHasSource
<1>1. Init => RumbleHasSource
  BY DEF Init, RumbleHasSource
<1>2. TypeOK /\ RumbleHasSource /\ [Next]_vars => RumbleHasSource'
  <2> SUFFICES ASSUME TypeOK, RumbleHasSource, [Next]_vars PROVE RumbleHasSource'
    OBVIOUS
  <2> USE DEF TypeOK, RumbleHasSource
  <2>1. CASE SetGamepad
    BY <2>1 DEF SetGamepad, Replaced
  <2>2. CASE PollRumble
    BY <2>2 DEF PollRumble, PollStop, PollLevel, Changed
  <2>3. CASE UNCHANGED <<pad, reported, stopPending, rumble>>
    BY <2>3
  <2> QED
    BY <2>1, <2>2, <2>3
    DEF Next, vars, GameRumbles, Swipe, Connect, Disconnect, Complete, PlayHaptic, Refresh
<1> QED
  BY <1>1, <1>2, TypeCorrect, PTL DEF Safety

-----------------------------------------------------------------------------
(* The strongest of the effects that play.                                 *)

(* A set of natural numbers that is not empty has a least element.         *)
LEMMA LeastNatural ==
    ASSUME NEW S \in SUBSET Nat, S # {}
    PROVE  \E m \in S : \A n \in S : m <= n
<1> DEFINE R == OpToRel(<, Nat)
<1>1. PICK m \in S : \A n \in S : ~ (<<n, m>> \in R)
  BY NatLessThanWellFounded, WFMin
<1>2. \A k, n \in Nat : <<n, k>> \in R <=> n < k
  BY DEF OpToRel
<1>3. \A n \in S : ~ (n < m)
  BY <1>1, <1>2
<1> QED BY <1>3

(* Finitely many levels and 0 have a greatest: there is no smallest set    *)
(* that has not.                                                           *)
LEMMA Greatest ==
    ASSUME NEW D, IsFiniteSet(D), NEW f \in [D -> Nat]
    PROVE  \E m \in {0} \cup {f[x] : x \in D} :
              \A y \in {0} \cup {f[x] : x \in D} : m >= y
<1> DEFINE Of(E) == {0} \cup {f[x] : x \in E}
           HasGreatest(E) == \E m \in Of(E) : \A y \in Of(E) : m >= y
           Sizes == {n \in Nat : \E E \in SUBSET D : Cardinality(E) = n /\ ~HasGreatest(E)}
<1>1. \A E \in SUBSET D : IsFiniteSet(E) /\ Cardinality(E) \in Nat
  BY FS_Subset, FS_CardinalityType
<1>2. SUFFICES ASSUME ~HasGreatest(D) PROVE FALSE
  OBVIOUS
<1>3. Sizes # {}
  BY <1>1, <1>2
<1>4. PICK n \in Sizes : \A k \in Sizes : n <= k
  <2> HIDE DEF Sizes
  <2>1. Sizes \in SUBSET Nat
    BY DEF Sizes
  <2> QED BY <1>3, <2>1, LeastNatural
<1>5. PICK E \in SUBSET D : Cardinality(E) = n /\ ~HasGreatest(E)
  BY <1>4
<1>6. E # {}
  <2> SUFFICES ASSUME E = {} PROVE HasGreatest(E)
    BY <1>5
  <2>1. Of(E) = {0}
    OBVIOUS
  <2> QED BY <2>1
<1>7. PICK x \in E : TRUE
  BY <1>6
<1>8. E \ {x} \in SUBSET D /\ Cardinality(E \ {x}) \in Nat /\ Cardinality(E \ {x}) = n - 1
  BY <1>1, <1>5, FS_RemoveElement
<1>9. HasGreatest(E \ {x})
  <2> SUFFICES ASSUME ~HasGreatest(E \ {x}) PROVE FALSE
    OBVIOUS
  <2>1. n - 1 \in Sizes
    BY <1>8
  <2>2. n \in Nat /\ ~(n <= n - 1)
    BY <1>4
  <2> QED BY <1>4, <2>1, <2>2
<1>10. PICK m \in Of(E \ {x}) : \A y \in Of(E \ {x}) : m >= y
  BY <1>9
<1>11. Of(E) = Of(E \ {x}) \cup {f[x]}
  OBVIOUS
<1>12. m \in Nat /\ f[x] \in Nat
  BY <1>10
<1>13. HasGreatest(E)
  <2>1. CASE m >= f[x]
    BY <1>10, <1>11, <2>1
  <2>2. CASE f[x] > m
    <3>1. \A y \in Of(E \ {x}) : f[x] >= y
      <4>1. Of(E \ {x}) \subseteq Nat
        OBVIOUS
      <4> QED BY <1>10, <1>12, <2>2, <4>1
    <3>2. \A y \in Of(E) : f[x] >= y
      BY <1>11, <1>12, <3>1
    <3> QED BY <1>11, <3>2
  <2> QED BY <1>12, <2>1, <2>2
<1> QED BY <1>5, <1>13

(* What is reported is the level of an effect, or rest.                    *)
LEMMA StrongestIsLevel ==
    ASSUME NEW loaded \in [Slots -> Strength \cup {NoEffect}], NEW started \in SUBSET Slots
    PROVE  Xbox!Strongest(loaded, started) \in Level
<1> DEFINE D == {i \in started : loaded[i] # NoEffect}
           f == [id \in D |-> loaded[id]]
           S == {0} \cup {loaded[id] : id \in D}
<1>1. IsFiniteSet(D) /\ D \subseteq Slots
  BY PathAssumption, FS_Subset
<1>2. f \in [D -> Nat] /\ \A id \in D : loaded[id] \in Strength
  BY <1>1, StrengthAssumption
<1>3. S = {0} \cup {f[x] : x \in D}
  OBVIOUS
<1>4. \E m \in S : \A y \in S : m >= y
  <2> HIDE DEF f, D
  <2>1. \E m \in {0} \cup {f[x] : x \in D} : \A y \in {0} \cup {f[x] : x \in D} : m >= y
    BY <1>1, <1>2, Greatest
  <2> QED BY <1>3, <2>1
<1>5. Max(S) \in S
  BY <1>4 DEF Max
<1>6. S \subseteq Level
  BY <1>2 DEF Level
<1>7. Xbox!Strongest(loaded, started) = Max(S)
  BY DEF Xbox!Strongest, Xbox!Max, Max
<1> QED BY <1>5, <1>6, <1>7

LEMMA StrongestOfNone ==
    ASSUME NEW loaded
    PROVE  Xbox!Strongest(loaded, {}) = 0
<1>1. Xbox!Strongest(loaded, {}) = Max({0})
  <2>1. {0} \cup {loaded[id] : id \in {i \in {} : loaded[i] # NoEffect}} = {0}
    OBVIOUS
  <2> QED BY <2>1 DEF Xbox!Strongest, Xbox!Max, Max
<1>2. Max({0}) = 0
  BY DEF Max
<1> QED BY <1>1, <1>2

-----------------------------------------------------------------------------
(* The path.                                                               *)

(* Between two polls the gamepad has reported what its table amounts to;   *)
(* a poll goes on only while the gamepad exists and owes no stop.          *)
PollInv ==
    /\ polling => pad /\ ~stopPending
    /\ fetched # <<>> => polling
    /\ wanted = Xbox!Strongest(effects, active)
    /\ ~polling => wanted = reported

PathInv == Xbox!TypeOK /\ PollInv

LEMMA PathInvInit == PathInit => PathInv
<1> SUFFICES ASSUME PathInit PROVE PathInv
  OBVIOUS
<1>1. Xbox!TypeOK
  <2>1. <<>> \in Seq(Xbox!Event)
    OBVIOUS
  <2>2. [id \in Slots |-> NoEffect] \in [Slots -> Strength \cup {NoEffect}]
    OBVIOUS
  <2> QED BY <2>1, <2>2 DEF PathInit, Xbox!Init, Xbox!TypeOK
<1>2. PollInv
  BY StrongestOfNone DEF PathInit, Init, Xbox!Init, PollInv
<1> QED BY <1>1, <1>2 DEF PathInv

(* One event of a poll keeps the types of the table and the kernel.        *)
LEMMA HandleTypes ==
    ASSUME Xbox!TypeOK, Xbox!Handle
    PROVE  /\ effects' \in [Slots -> Strength \cup {NoEffect}] /\ active' \in SUBSET Slots
           /\ owned' \in [Slots -> Strength \cup {NoEffect}] /\ asked' \in BOOLEAN
           /\ fetched' \in Seq(Xbox!Event)
<1> DEFINE event == Head(fetched)
           next == Xbox!Handled(Xbox!Table, event)
<1>1. /\ fetched # <<>> /\ fetched \in Seq(Xbox!Event) /\ fetched' = Tail(fetched)
      /\ effects' = next.effects /\ active' = next.active
      /\ asked' = (asked /\ event.kind = "play")
      /\ owned' = IF event.kind = "upload" THEN [owned EXCEPT ![event.id] = event.level] ELSE owned
  BY DEF Xbox!Handle, Xbox!TypeOK
<1>2. event \in Xbox!Event /\ fetched' \in Seq(Xbox!Event)
  BY <1>1
<1> HIDE DEF event
<1>3. event.id \in Slots /\ event.kind \in {"upload", "erase", "play"}
  BY <1>2 DEF Xbox!Event
<1>4. CASE event.kind = "upload"
  <2>1. event.level \in Strength
    BY <1>2, <1>4 DEF Xbox!Event
  <2>2. effects' = [effects EXCEPT ![event.id] = event.level] /\ active' = active
    BY <1>1, <1>4 DEF Xbox!Handled, Xbox!Uploaded, Xbox!Table
  <2> QED BY <1>1, <1>2, <1>3, <1>4, <2>1, <2>2 DEF Xbox!TypeOK
<1>5. CASE event.kind = "erase"
  <2>1. effects' = [effects EXCEPT ![event.id] = NoEffect] /\ active' = active \ {event.id}
    BY <1>1, <1>5 DEF Xbox!Handled, Xbox!Erased, Xbox!Table
  <2> QED BY <1>1, <1>2, <1>3, <1>5, <2>1 DEF Xbox!TypeOK
<1>6. CASE event.kind = "play"
  <2>1. effects' = effects /\ active' \in {active, active \ {event.id}, active \cup {event.id}}
    BY <1>1, <1>6 DEF Xbox!Handled, Xbox!Played, Xbox!Table
  <2> QED BY <1>1, <1>2, <1>3, <1>6, <2>1 DEF Xbox!TypeOK
<1> QED BY <1>3, <1>4, <1>5, <1>6

LEMMA GamesTypes ==
    ASSUME Xbox!TypeOK, Xbox!Upload \/ Xbox!Erase \/ Xbox!Play
    PROVE  Xbox!TypeOK'
<1> USE DEF Xbox!TypeOK, Xbox!table, Xbox!kernel
<1>1. CASE Xbox!Upload
  <2>1. PICK id \in Slots, level \in Strength :
          events' = Append(events, [kind |-> "upload", id |-> id, level |-> level])
    BY <1>1 DEF Xbox!Upload
  <2>2. [kind |-> "upload", id |-> id, level |-> level] \in Xbox!Event
    BY DEF Xbox!Event
  <2>3. events' \in Seq(Xbox!Event)
    BY <2>1, <2>2
  <2> QED BY <1>1, <2>3 DEF Xbox!Upload
<1>2. CASE Xbox!Erase
  <2>1. PICK id \in Slots :
          /\ events' = events \o <<[kind |-> "play", id |-> id, repetitions |-> 0],
                                   [kind |-> "erase", id |-> id]>>
          /\ owned' = [owned EXCEPT ![id] = NoEffect] /\ playing' = playing \ {id}
    BY <1>2 DEF Xbox!Erase
  <2>2. /\ [kind |-> "play", id |-> id, repetitions |-> 0] \in Xbox!Event
        /\ [kind |-> "erase", id |-> id] \in Xbox!Event
    BY DEF Xbox!Event
  <2>3. events' \in Seq(Xbox!Event)
    BY <2>1, <2>2
  <2> QED BY <1>2, <2>1, <2>3 DEF Xbox!Erase
<1>3. CASE Xbox!Play
  <2>1. PICK id \in Slots, repetitions \in {-1, 0, 1} :
          /\ events' = Append(events, [kind |-> "play", id |-> id, repetitions |-> repetitions])
          /\ playing' \in {playing, playing \ {id}, playing \cup {id}}
    BY <1>3 DEF Xbox!Play
  <2>2. [kind |-> "play", id |-> id, repetitions |-> repetitions] \in Xbox!Event
    BY DEF Xbox!Event
  <2>3. events' \in Seq(Xbox!Event)
    BY <2>1, <2>2
  <2> QED BY <1>3, <2>1, <2>3 DEF Xbox!Play
<1> QED BY <1>1, <1>2, <1>3

LEMMA PathTypeStep == PathInv /\ [PathNext]_<<vars, xbox>> => Xbox!TypeOK'
<1> SUFFICES ASSUME Xbox!TypeOK, PollInv, [PathNext]_<<vars, xbox>> PROVE Xbox!TypeOK'
  BY DEF PathInv
<1>1. CASE GamesPlay
  BY <1>1, GamesTypes DEF GamesPlay
<1>2. CASE Fetch
  <2>1. <<>> \in Seq(Xbox!Event)
    OBVIOUS
  <2> QED BY <1>2, <2>1 DEF Fetch, Xbox!Fetch, Xbox!TypeOK, Xbox!table, Xbox!kernel
<1>3. CASE Handle
  <2>1. Xbox!Handle /\ UNCHANGED <<playing, events, polling, reported>>
    BY <1>3 DEF Handle, Xbox!Handle
  <2> QED BY <2>1, HandleTypes DEF Xbox!TypeOK
<1>4. CASE Finish
  <2>1. Xbox!Finish
    BY <1>4 DEF Finish
  <2>2. reported' \in Strength \cup {0}
    BY <2>1, StrongestIsLevel DEF Xbox!Finish, Xbox!TypeOK, Level
  <2> QED BY <2>1, <2>2 DEF Xbox!Finish, Xbox!TypeOK, Xbox!table, Xbox!kernel
<1>5. CASE Replace
  <2>1. <<>> \in Seq(Xbox!Event)
    OBVIOUS
  <2> QED BY <1>5, <2>1 DEF Replace, SetGamepad, Xbox!TypeOK
<1>6. CASE UNCHANGED <<xbox, reported>>
  BY <1>6 DEF xbox, Xbox!TypeOK
<1> QED BY <1>1, <1>2, <1>3, <1>4, <1>5, <1>6 DEF PathNext, Stop, Repeat, ClickAgain, Arrive, Depart,
        Outside, Idle, PollStop, PlayHaptic, Connect, Disconnect, Complete, Swipe, vars

LEMMA PollStep == PathInv /\ [PathNext]_<<vars, xbox>> => PollInv'
<1> SUFFICES ASSUME Xbox!TypeOK, PollInv, [PathNext]_<<vars, xbox>> PROVE PollInv'
  BY DEF PathInv
<1>1. CASE GamesPlay
  BY <1>1 DEF GamesPlay, Xbox!Upload, Xbox!Erase, Xbox!Play, Xbox!table, vars, PollInv
<1>2. CASE Fetch
  BY <1>2 DEF Fetch, Xbox!Fetch, Xbox!table, vars, PollInv
<1>3. CASE Handle
  BY <1>3 DEF Handle, Xbox!Handle, PollInv
<1>4. CASE Finish
  BY <1>4 DEF Finish, Xbox!Finish, Xbox!table, PollInv
<1>5. CASE Replace
  BY <1>5, StrongestOfNone DEF Replace, SetGamepad, PollInv
<1>6. CASE Stop \/ Repeat \/ ClickAgain \/ Arrive \/ Depart
  BY <1>6 DEF Stop, Repeat, ClickAgain, Arrive, Depart, Idle, PollStop, PlayHaptic, Connect,
     Disconnect, xbox, PollInv
<1>7. CASE Outside \/ UNCHANGED <<vars, xbox>>
  BY <1>7 DEF Outside, Complete, Swipe, vars, xbox, PollInv
<1> QED BY <1>1, <1>2, <1>3, <1>4, <1>5, <1>6, <1>7 DEF PathNext

LEMMA PathInvariance == PathSpec => []PathInv
<1>1. PathInv /\ [PathNext]_<<vars, xbox>> => PathInv'
  BY PathTypeStep, PollStep DEF PathInv
<1> QED BY PathInvInit, <1>1, PTL DEF PathSpec

(* Every step of the path is one of Haptics, or changes nothing that       *)
(* Haptics speaks of.                                                      *)
LEMMA HapticsStep == PathInv /\ [PathNext]_<<vars, xbox>> => [Next]_vars
<1> SUFFICES ASSUME Xbox!TypeOK, PollInv, [PathNext]_<<vars, xbox>> PROVE Next \/ UNCHANGED vars
  BY DEF PathInv
<1>1. CASE GamesPlay \/ Fetch \/ UNCHANGED <<vars, xbox>>
  BY <1>1 DEF GamesPlay, Fetch
<1>2. CASE Handle
  <2>1. Xbox!Handle /\ pad
    BY <1>2 DEF Handle, Xbox!Handle, PollInv
  <2>2. wanted' \in Level
    BY <1>2, <2>1, HandleTypes, StrongestIsLevel DEF Handle
  <2> QED BY <1>2, <2>1, <2>2 DEF Handle, Xbox!Handle, GameRumbles, Next
<1>3. CASE Finish
  <2>1. /\ polling /\ reported' = wanted
    BY <1>3 DEF Finish, Xbox!Finish, PollInv
  <2>2. CASE reported' = reported
    BY <1>3, <2>2 DEF Finish, vars
  <2>3. CASE reported' # reported
    <3>1. PollLevel
      BY <1>3, <2>1, <2>3 DEF Finish, PollLevel, Changed, PollInv
    <3> QED BY <3>1 DEF Next, PollRumble
  <2> QED BY <2>2, <2>3
<1>4. CASE Repeat
  <2>1. ~stopPending /\ ~Changed /\ NeedsRefresh
    BY <1>4 DEF Repeat, Idle, Changed, PollInv
  <2> QED BY <1>4, <2>1 DEF Repeat, Refresh, Next
<1>5. CASE Stop \/ ClickAgain \/ Arrive \/ Depart \/ Replace \/ Outside
  BY <1>5 DEF Stop, ClickAgain, Arrive, Depart, Replace, Outside, PollRumble, Next
<1> QED BY <1>1, <1>2, <1>3, <1>4, <1>5 DEF PathNext

(* ImplementsHaptics: a poll that handles any number of events is, seen    *)
(* from the main loop, a game that changed its mind and one report of it.  *)
THEOREM PathIsHaptics == PathSpec => ImplementsHaptics
<1>1. PathInit => Init
  BY DEF PathInit
<1> QED BY <1>1, HapticsStep, PathInvariance, PTL DEF PathSpec, Safety, ImplementsHaptics

(* What is true of Haptics is true of the path: no gamepad leaves its      *)
(* rumble behind, whatever games did to its effects before.                *)
THEOREM NothingLeftOnPath == PathSpec => []RumbleHasSource
BY PathIsHaptics, NoRumbleLeftBehind, PTL DEF ImplementsHaptics

-----------------------------------------------------------------------------
(* The table of effects.                                                   *)

Pending == fetched \o events

Starts(event, id) == event.kind = "play" /\ event.id = id /\ event.repetitions > 0
Erases(event, id) == event.kind = "erase" /\ event.id = id
Stops(event, id) ==
    Erases(event, id) \/ (event.kind = "play" /\ event.id = id /\ event.repetitions = 0)

(* What a sequence of events does to the slot id: it is erased, it is not  *)
(* stopped, it is started and not stopped after that.                      *)
Erased(q, id) == \E i \in DOMAIN q : Erases(q[i], id)
Silent(q, id) == \A i \in DOMAIN q : ~Stops(q[i], id)
Started(q, id) == \E i \in DOMAIN q : Starts(q[i], id) /\ \A j \in DOMAIN q : Stops(q[j], id) => j < i

(* At most one upload or erasure is on its way, and none if none is asked  *)
(* for: the kernel holds the device's mutex while it waits for the daemon. *)
AtMostOne(q) == \A i, j \in DOMAIN q : q[i].kind # "play" /\ q[j].kind # "play" => i = j
OnlyPlays(q) == \A i \in DOMAIN q : q[i].kind = "play"

TableInv ==
    /\ AtMostOne(Pending)
    /\ ~asked => OnlyPlays(Pending)
    /\ \A id \in Slots :
          /\ owned[id] = IF Erased(Pending, id) THEN NoEffect ELSE effects[id]
          /\ id \in playing <=> (id \in active /\ Silent(Pending, id)) \/ Started(Pending, id)

LEMMA TableFollows == TableInv => TableFollowsGames
BY DEF TableInv, TableFollowsGames, Pending, Erased, Silent, Started, Starts, Erases, Stops

LEMMA AfterAppend ==
    ASSUME NEW S, NEW q \in Seq(S), NEW e \in S, NEW id
    PROVE  /\ Erased(Append(q, e), id) <=> Erased(q, id) \/ Erases(e, id)
           /\ Silent(Append(q, e), id) <=> Silent(q, id) /\ ~Stops(e, id)
           /\ Started(Append(q, e), id) <=> Starts(e, id) \/ (Started(q, id) /\ ~Stops(e, id))
           /\ OnlyPlays(Append(q, e)) <=> OnlyPlays(q) /\ e.kind = "play"
           /\ AtMostOne(q) /\ e.kind = "play" => AtMostOne(Append(q, e))
           /\ OnlyPlays(q) => AtMostOne(Append(q, e))
<1> DEFINE p == Append(q, e)
           n == Len(q)
<1>1. /\ n \in Nat /\ DOMAIN q = 1..n /\ DOMAIN p = 1..(n + 1)
      /\ \A i \in 1..n : p[i] = q[i]
      /\ p[n + 1] = e
  OBVIOUS
<1>2. \A i : i \in 1..(n + 1) <=> i \in 1..n \/ i = n + 1
  BY <1>1
<1>3. \A i \in 1..n : i < n + 1 /\ ~(n + 1 < i)
  BY <1>1
<1>4. ~(n + 1 < n + 1)
  BY <1>1
<1>5. Starts(e, id) => ~Stops(e, id)
  BY DEF Starts, Stops, Erases
<1> HIDE DEF p, n
<1>6. Erased(p, id) <=> Erased(q, id) \/ Erases(e, id)
  BY <1>1, <1>2 DEF Erased
<1>7. Silent(p, id) <=> Silent(q, id) /\ ~Stops(e, id)
  BY <1>1, <1>2 DEF Silent
<1>8. Started(p, id) <=> Starts(e, id) \/ (Started(q, id) /\ ~Stops(e, id))
  <2>1. ASSUME Started(p, id), ~Starts(e, id) PROVE Started(q, id) /\ ~Stops(e, id)
    <3>1. PICK i \in DOMAIN p : Starts(p[i], id) /\ \A j \in DOMAIN p : Stops(p[j], id) => j < i
      BY <2>1 DEF Started
    <3>2. i \in 1..n /\ p[i] = q[i]
      BY <1>1, <1>2, <2>1, <3>1
    <3>3. ~Stops(e, id)
      BY <1>1, <1>2, <1>3, <3>1, <3>2
    <3>4. \A j \in 1..n : Stops(q[j], id) => j < i
      BY <1>1, <1>2, <3>1
    <3> QED BY <1>1, <3>1, <3>2, <3>3, <3>4 DEF Started
  <2>2. ASSUME Starts(e, id) PROVE Started(p, id)
    <3>1. \A j \in DOMAIN p : Stops(p[j], id) => j < n + 1
      BY <1>1, <1>2, <1>3, <1>5, <2>2
    <3> QED BY <1>1, <1>2, <2>2, <3>1 DEF Started
  <2>3. ASSUME Started(q, id), ~Stops(e, id) PROVE Started(p, id)
    BY <1>1, <1>2, <2>3 DEF Started
  <2> QED BY <2>1, <2>2, <2>3
<1>9. OnlyPlays(p) <=> OnlyPlays(q) /\ e.kind = "play"
  BY <1>1, <1>2 DEF OnlyPlays
<1>10. AtMostOne(q) /\ e.kind = "play" => AtMostOne(p)
  BY <1>1, <1>2 DEF AtMostOne
<1>11. OnlyPlays(q) => AtMostOne(p)
  BY <1>1, <1>2 DEF AtMostOne, OnlyPlays
<1> QED BY <1>6, <1>7, <1>8, <1>9, <1>10, <1>11 DEF p

LEMMA BeforeTail ==
    ASSUME NEW S, NEW q \in Seq(S), q # <<>>, NEW id
    PROVE  LET h == Head(q) t == Tail(q)
           IN  /\ Erased(q, id) <=> Erases(h, id) \/ Erased(t, id)
               /\ Silent(q, id) <=> ~Stops(h, id) /\ Silent(t, id)
               /\ Started(q, id) <=> Started(t, id) \/ (Starts(h, id) /\ Silent(t, id))
               /\ AtMostOne(q) => AtMostOne(t)
               /\ OnlyPlays(q) => h.kind = "play" /\ OnlyPlays(t)
               /\ AtMostOne(q) /\ h.kind # "play" => OnlyPlays(t)
<1> DEFINE h == Head(q)
           t == Tail(q)
           n == Len(q)
<1>1. /\ n \in Nat \ {0} /\ DOMAIN q = 1..n /\ DOMAIN t = 1..(n - 1)
      /\ \A i \in 1..(n - 1) : t[i] = q[i + 1]
      /\ q[1] = h
  OBVIOUS
<1>2. \A i : i \in 1..n <=> i = 1 \/ (\E k \in 1..(n - 1) : i = k + 1)
  <2>1. ASSUME NEW i \in 1..n, i # 1 PROVE i - 1 \in 1..(n - 1) /\ i = (i - 1) + 1
    BY <1>1, <2>1
  <2>2. 1 \in 1..n /\ \A k \in 1..(n - 1) : k + 1 \in 1..n
    BY <1>1
  <2> QED BY <2>1, <2>2
<1>3. \A k, l \in 1..(n - 1) : k + 1 # 1 /\ (k + 1 < l + 1 <=> k < l) /\ (k + 1 = l + 1 => k = l)
  BY <1>1
<1>4. Starts(h, id) => ~Stops(h, id)
  BY DEF Starts, Stops, Erases
<1>5. \A k \in 1..(n - 1) : 1 < k + 1 /\ ~(k + 1 < 1)
  BY <1>1
<1> HIDE DEF h, t, n
<1>6. Erased(q, id) <=> Erases(h, id) \/ Erased(t, id)
  BY <1>1, <1>2 DEF Erased
<1>7. Silent(q, id) <=> ~Stops(h, id) /\ Silent(t, id)
  BY <1>1, <1>2 DEF Silent
<1>8. Started(q, id) <=> Started(t, id) \/ (Starts(h, id) /\ Silent(t, id))
  <2>1. ASSUME Started(q, id) PROVE Started(t, id) \/ (Starts(h, id) /\ Silent(t, id))
    <3>1. PICK i \in DOMAIN q : Starts(q[i], id) /\ \A j \in DOMAIN q : Stops(q[j], id) => j < i
      BY <2>1 DEF Started
    <3>2. CASE i = 1
      <4>1. \A k \in 1..(n - 1) : ~Stops(t[k], id)
        BY <1>1, <1>2, <1>5, <3>1, <3>2
      <4> QED BY <1>1, <3>1, <3>2, <4>1 DEF Silent
    <3>3. CASE i # 1
      <4>1. PICK k \in 1..(n - 1) : i = k + 1
        BY <1>1, <1>2, <3>1, <3>3
      <4>2. Starts(t[k], id)
        BY <1>1, <3>1, <4>1
      <4>3. \A l \in 1..(n - 1) : Stops(t[l], id) => l < k
        BY <1>1, <1>2, <1>3, <3>1, <4>1
      <4> QED BY <1>1, <4>2, <4>3 DEF Started
    <3> QED BY <3>2, <3>3
  <2>2. ASSUME Started(t, id) PROVE Started(q, id)
    <3>1. PICK k \in 1..(n - 1) : Starts(t[k], id) /\ \A l \in 1..(n - 1) : Stops(t[l], id) => l < k
      BY <1>1, <2>2 DEF Started
    <3>2. k + 1 \in DOMAIN q /\ Starts(q[k + 1], id)
      BY <1>1, <1>2, <3>1
    <3>3. ASSUME NEW j \in DOMAIN q, Stops(q[j], id) PROVE j < k + 1
      <4>1. CASE j = 1
        BY <1>5, <3>1, <4>1
      <4>2. ASSUME NEW l \in 1..(n - 1), j = l + 1 PROVE j < k + 1
        <5>1. l < k
          BY <1>1, <3>1, <3>3, <4>2
        <5> QED BY <1>3, <3>1, <4>2, <5>1
      <4> QED BY <1>1, <1>2, <4>1, <4>2
    <3> QED BY <3>2, <3>3 DEF Started
  <2>3. ASSUME Starts(h, id), Silent(t, id) PROVE Started(q, id)
    <3>1. \A j \in DOMAIN q : Stops(q[j], id) => j < 1
      BY <1>1, <1>2, <1>4, <2>3 DEF Silent
    <3> QED BY <1>1, <1>2, <2>3, <3>1 DEF Started
  <2> QED BY <2>1, <2>2, <2>3
<1>9. AtMostOne(q) => AtMostOne(t)
  <2> SUFFICES ASSUME AtMostOne(q), NEW k \in 1..(n - 1), NEW l \in 1..(n - 1),
                      t[k].kind # "play", t[l].kind # "play"
               PROVE  k = l
    BY <1>1 DEF AtMostOne
  <2>1. k + 1 \in DOMAIN q /\ l + 1 \in DOMAIN q
    BY <1>1, <1>2
  <2>2. k + 1 = l + 1
    BY <1>1, <2>1 DEF AtMostOne
  <2> QED BY <1>3, <2>2
<1>10. OnlyPlays(q) => h.kind = "play" /\ OnlyPlays(t)
  BY <1>1, <1>2 DEF OnlyPlays
<1>11. AtMostOne(q) /\ h.kind # "play" => OnlyPlays(t)
  BY <1>1, <1>2, <1>3 DEF AtMostOne, OnlyPlays
<1> QED BY <1>6, <1>7, <1>8, <1>9, <1>10, <1>11 DEF h, t

(* One event of a poll: the table takes over what the event says.          *)
LEMMA HandleTable ==
    ASSUME Xbox!TypeOK, TableInv, Xbox!Handle
    PROVE  TableInv'
<1> DEFINE h == Head(fetched)
           next == Xbox!Handled(Xbox!Table, h)
<1>1. /\ fetched # <<>> /\ fetched \in Seq(Xbox!Event) /\ events \in Seq(Xbox!Event)
      /\ fetched' = Tail(fetched) /\ events' = events /\ playing' = playing
      /\ effects' = next.effects /\ active' = next.active
      /\ asked' = (asked /\ h.kind = "play")
      /\ owned' = IF h.kind = "upload" THEN [owned EXCEPT ![h.id] = h.level] ELSE owned
      /\ owned \in [Slots -> Strength \cup {NoEffect}] /\ effects \in [Slots -> Strength \cup {NoEffect}]
  BY DEF Xbox!Handle, Xbox!TypeOK
<1>2. /\ Pending \in Seq(Xbox!Event) /\ Pending # <<>> /\ Head(Pending) = h
      /\ Pending' = Tail(Pending)
  <2>1. /\ Pending \in Seq(Xbox!Event) /\ Pending # <<>> /\ Head(Pending) = h
    BY <1>1 DEF Pending
  <2>2. Tail(fetched) \o events = Tail(fetched \o events)
    <3>1. /\ Tail(fetched) \o events \in Seq(Xbox!Event) /\ Tail(fetched \o events) \in Seq(Xbox!Event)
          /\ Len(Tail(fetched) \o events) = Len(Tail(fetched \o events))
          /\ \A i \in 1..Len(Tail(fetched) \o events) :
                (Tail(fetched) \o events)[i] = Tail(fetched \o events)[i]
      BY <1>1
    <3> QED BY <3>1
  <2> QED BY <1>1, <2>1, <2>2 DEF Pending
<1>3. h \in Xbox!Event
  BY <1>1
<1> DEFINE q == Pending
           t == Tail(Pending)
<1>4. \A id \in Slots :
        /\ Erased(q, id) <=> Erases(h, id) \/ Erased(t, id)
        /\ Silent(q, id) <=> ~Stops(h, id) /\ Silent(t, id)
        /\ Started(q, id) <=> Started(t, id) \/ (Starts(h, id) /\ Silent(t, id))
  BY <1>2, BeforeTail
<1>5. /\ AtMostOne(t)
      /\ OnlyPlays(q) => h.kind = "play" /\ OnlyPlays(t)
      /\ h.kind # "play" => OnlyPlays(t)
  BY <1>2, BeforeTail DEF TableInv
<1>6. OnlyPlays(t) => \A id \in Slots : ~Erased(t, id)
  BY DEF OnlyPlays, Erased, Erases
<1>7. \A id \in Slots :
        /\ owned[id] = IF Erased(q, id) THEN NoEffect ELSE effects[id]
        /\ id \in playing <=> (id \in active /\ Silent(q, id)) \/ Started(q, id)
  BY DEF TableInv
<1>8. ~asked => OnlyPlays(q)
  BY DEF TableInv
<1>9. SUFFICES \A id \in Slots :
        /\ owned'[id] = IF Erased(t, id) THEN NoEffect ELSE effects'[id]
        /\ id \in playing <=> (id \in active' /\ Silent(t, id)) \/ Started(t, id)
  <2>1. ~asked' => OnlyPlays(t)
    BY <1>1, <1>5, <1>8
  <2> HIDE DEF t
  <2>2. Pending' = t
    BY <1>2 DEF t
  <2> QED BY <1>1, <1>5, <1>9, <2>1, <2>2 DEF TableInv
<1> HIDE DEF h, q, t
<1>10. h.id \in Slots /\ h.kind \in {"upload", "erase", "play"}
  BY <1>3 DEF Xbox!Event
<1>11. CASE h.kind = "upload"
  <2>1. effects' = [effects EXCEPT ![h.id] = h.level] /\ active' = active
    BY <1>1, <1>11 DEF Xbox!Handled, Xbox!Uploaded, Xbox!Table
  <2>2. owned' = [owned EXCEPT ![h.id] = h.level]
    BY <1>1, <1>11
  <2>3. \A id \in Slots : ~Erased(t, id) /\ ~Erases(h, id) /\ ~Stops(h, id) /\ ~Starts(h, id)
    BY <1>5, <1>6, <1>11 DEF Erases, Stops, Starts
  <2> QED BY <1>1, <1>4, <1>7, <2>1, <2>2, <2>3
<1>12. CASE h.kind = "erase"
  <2>1. effects' = [effects EXCEPT ![h.id] = NoEffect] /\ active' = active \ {h.id}
    BY <1>1, <1>12 DEF Xbox!Handled, Xbox!Erased, Xbox!Table
  <2>2. owned' = owned
    BY <1>1, <1>12
  <2>3. \A id \in Slots : /\ ~Erased(t, id) /\ ~Starts(h, id)
                          /\ Erases(h, id) <=> id = h.id
                          /\ Stops(h, id) <=> id = h.id
    BY <1>5, <1>6, <1>12 DEF Erases, Stops, Starts
  <2> QED BY <1>1, <1>4, <1>7, <2>1, <2>2, <2>3
<1>13. CASE h.kind = "play"
  <2>1. /\ effects' = effects
        /\ active' = IF h.repetitions > 0 THEN active \cup {h.id}
                     ELSE IF h.repetitions = 0 THEN active \ {h.id} ELSE active
    BY <1>1, <1>13 DEF Xbox!Handled, Xbox!Played, Xbox!Table
  <2>2. owned' = owned
    BY <1>1, <1>13
  <2>3. \A id \in Slots : /\ ~Erases(h, id)
                          /\ Starts(h, id) <=> id = h.id /\ h.repetitions > 0
                          /\ Stops(h, id) <=> id = h.id /\ h.repetitions = 0
    BY <1>13 DEF Erases, Stops, Starts
  <2>4. h.repetitions > 0 => h.repetitions # 0
    OBVIOUS
  <2>5. \A id \in Slots : owned'[id] = IF Erased(t, id) THEN NoEffect ELSE effects'[id]
    BY <1>4, <1>7, <2>1, <2>2, <2>3
  <2>6. CASE h.repetitions > 0
    <3>1. active' = active \cup {h.id}
      BY <2>1, <2>6
    <3>2. \A id \in Slots : ~Stops(h, id) /\ (Starts(h, id) <=> id = h.id)
      BY <2>3, <2>4, <2>6
    <3> QED BY <1>4, <1>7, <2>5, <3>1, <3>2
  <2>7. CASE h.repetitions = 0
    <3>1. active' = active \ {h.id}
      BY <2>1, <2>7
    <3>2. \A id \in Slots : ~Starts(h, id) /\ (Stops(h, id) <=> id = h.id)
      BY <2>3, <2>7
    <3> QED BY <1>4, <1>7, <2>5, <3>1, <3>2
  <2>8. CASE ~(h.repetitions > 0) /\ h.repetitions # 0
    <3>1. active' = active
      BY <2>1, <2>8
    <3>2. \A id \in Slots : ~Starts(h, id) /\ ~Stops(h, id)
      BY <2>3, <2>8
    <3> QED BY <1>4, <1>7, <2>5, <3>1, <3>2
  <2> QED BY <2>6, <2>7, <2>8
<1> QED BY <1>10, <1>11, <1>12, <1>13

LEMMA PendingAppend ==
    ASSUME NEW S, NEW s \in Seq(S), NEW t \in Seq(S), NEW e \in S
    PROVE  s \o Append(t, e) = Append(s \o t, e)
<1>1. /\ s \o Append(t, e) \in Seq(S) /\ Append(s \o t, e) \in Seq(S)
      /\ Len(s \o Append(t, e)) = Len(Append(s \o t, e))
      /\ \A i \in 1..Len(s \o Append(t, e)) : (s \o Append(t, e))[i] = Append(s \o t, e)[i]
  OBVIOUS
<1> QED BY <1>1

LEMMA AppendTwo ==
    ASSUME NEW S, NEW s \in Seq(S), NEW a \in S, NEW b \in S
    PROVE  s \o <<a, b>> = Append(Append(s, a), b)
<1>1. /\ s \o <<a, b>> \in Seq(S) /\ Append(Append(s, a), b) \in Seq(S)
      /\ Len(s \o <<a, b>>) = Len(Append(Append(s, a), b))
      /\ \A i \in 1..Len(s \o <<a, b>>) : (s \o <<a, b>>)[i] = Append(Append(s, a), b)[i]
  OBVIOUS
<1> QED BY <1>1

(* What games do is on its way to the table when it is done.               *)
LEMMA GamesTable ==
    ASSUME Xbox!TypeOK, TableInv, Xbox!Upload \/ Xbox!Erase \/ Xbox!Play
    PROVE  TableInv'
<1> DEFINE q == Pending
<1>1. /\ fetched \in Seq(Xbox!Event) /\ events \in Seq(Xbox!Event) /\ q \in Seq(Xbox!Event)
      /\ owned \in [Slots -> Strength \cup {NoEffect}]
  BY DEF Xbox!TypeOK, Pending
<1>2. /\ AtMostOne(q) /\ (~asked => OnlyPlays(q))
      /\ \A id \in Slots :
            /\ owned[id] = IF Erased(q, id) THEN NoEffect ELSE effects[id]
            /\ id \in playing <=> (id \in active /\ Silent(q, id)) \/ Started(q, id)
  BY DEF TableInv
<1> HIDE DEF q
<1>3. CASE Xbox!Upload
  <2>1. PICK slot \in Slots, level \in Strength :
          events' = Append(events, [kind |-> "upload", id |-> slot, level |-> level])
    BY <1>3 DEF Xbox!Upload
  <2> DEFINE e == [kind |-> "upload", id |-> slot, level |-> level]
  <2>2. e \in Xbox!Event /\ e.kind = "upload"
    BY DEF Xbox!Event
  <2>3. /\ ~asked /\ asked' = TRUE /\ fetched' = fetched
        /\ UNCHANGED <<owned, playing, effects, active>>
    BY <1>3 DEF Xbox!Upload, Xbox!table
  <2> HIDE DEF e
  <2>4. Pending' = Append(q, e)
    BY <1>1, <2>1, <2>2, <2>3, PendingAppend DEF Pending, q, e
  <2>5. \A id \in Slots : ~Starts(e, id) /\ ~Stops(e, id) /\ ~Erases(e, id)
    BY <2>2 DEF Starts, Stops, Erases
  <2>6. \A id \in Slots : /\ Erased(Append(q, e), id) <=> Erased(q, id)
                          /\ Silent(Append(q, e), id) <=> Silent(q, id)
                          /\ Started(Append(q, e), id) <=> Started(q, id)
    BY <1>1, <2>2, <2>5, AfterAppend
  <2>7. AtMostOne(Append(q, e))
    BY <1>1, <1>2, <2>2, <2>3, AfterAppend
  <2> QED BY <1>2, <2>3, <2>4, <2>6, <2>7 DEF TableInv
<1>4. CASE Xbox!Play
  <2>1. PICK slot \in Slots, repetitions \in {-1, 0, 1} :
          /\ events' = Append(events, [kind |-> "play", id |-> slot, repetitions |-> repetitions])
          /\ playing' = IF repetitions > 0 THEN playing \cup {slot}
                        ELSE IF repetitions = 0 THEN playing \ {slot} ELSE playing
    BY <1>4 DEF Xbox!Play
  <2> DEFINE e == [kind |-> "play", id |-> slot, repetitions |-> repetitions]
  <2>2. e \in Xbox!Event /\ e.kind = "play" /\ e.id = slot /\ e.repetitions = repetitions
    BY DEF Xbox!Event
  <2>3. fetched' = fetched /\ asked' = asked /\ UNCHANGED <<owned, effects, active>>
    BY <1>4 DEF Xbox!Play, Xbox!table
  <2> HIDE DEF e
  <2>4. Pending' = Append(q, e)
    BY <1>1, <2>1, <2>2, <2>3, PendingAppend DEF Pending, q, e
  <2>5. \A id \in Slots : /\ ~Erases(e, id)
                          /\ Starts(e, id) <=> id = slot /\ repetitions = 1
                          /\ Stops(e, id) <=> id = slot /\ repetitions = 0
    BY <2>2 DEF Starts, Stops, Erases
  <2>6. \A id \in Slots :
          /\ Erased(Append(q, e), id) <=> Erased(q, id)
          /\ Silent(Append(q, e), id) <=> Silent(q, id) /\ ~Stops(e, id)
          /\ Started(Append(q, e), id) <=> Starts(e, id) \/ (Started(q, id) /\ ~Stops(e, id))
    BY <1>1, <2>2, <2>5, AfterAppend
  <2>7. AtMostOne(Append(q, e)) /\ (~asked => OnlyPlays(Append(q, e)))
    BY <1>1, <1>2, <2>2, AfterAppend
  <2>8. \A id \in Slots :
          id \in playing' <=> (id \in active /\ Silent(Append(q, e), id)) \/ Started(Append(q, e), id)
    <3>1. CASE repetitions = 1
      <4>1. playing' = playing \cup {slot}
        BY <2>1, <3>1
      <4>2. \A id \in Slots : ~Stops(e, id) /\ (Starts(e, id) <=> id = slot)
        BY <2>5, <3>1
      <4> QED BY <1>2, <2>6, <4>1, <4>2
    <3>2. CASE repetitions = 0
      <4>1. playing' = playing \ {slot}
        BY <2>1, <3>2
      <4>2. \A id \in Slots : ~Starts(e, id) /\ (Stops(e, id) <=> id = slot)
        BY <2>5, <3>2
      <4> QED BY <1>2, <2>6, <4>1, <4>2
    <3>3. CASE repetitions = -1
      <4>1. playing' = playing
        BY <2>1, <3>3
      <4>2. \A id \in Slots : ~Starts(e, id) /\ ~Stops(e, id)
        BY <2>5, <3>3
      <4> QED BY <1>2, <2>6, <4>1, <4>2
    <3> QED BY <3>1, <3>2, <3>3
  <2> QED BY <1>2, <2>3, <2>4, <2>6, <2>7, <2>8 DEF TableInv
<1>5. CASE Xbox!Erase
  <2>1. PICK slot \in Slots :
          /\ events' = events \o <<[kind |-> "play", id |-> slot, repetitions |-> 0],
                                   [kind |-> "erase", id |-> slot]>>
          /\ owned' = [owned EXCEPT ![slot] = NoEffect]
          /\ playing' = playing \ {slot}
    BY <1>5 DEF Xbox!Erase
  <2> DEFINE stop == [kind |-> "play", id |-> slot, repetitions |-> 0]
             erase == [kind |-> "erase", id |-> slot]
  <2>2. /\ stop \in Xbox!Event /\ stop.kind = "play"
        /\ erase \in Xbox!Event /\ erase.kind = "erase"
        /\ \A id \in Slots : /\ ~Erases(stop, id) /\ ~Starts(stop, id) /\ (Stops(stop, id) <=> id = slot)
                             /\ ~Starts(erase, id) /\ (Erases(erase, id) <=> id = slot)
                             /\ (Stops(erase, id) <=> id = slot)
    BY DEF Xbox!Event, Erases, Starts, Stops
  <2>3. ~asked /\ asked' = TRUE /\ fetched' = fetched /\ UNCHANGED <<effects, active>>
    BY <1>5 DEF Xbox!Erase, Xbox!table
  <2>4. events' = events \o <<stop, erase>>
    BY <2>1
  <2> HIDE DEF stop, erase
  <2> DEFINE r == Append(q, stop)
  <2>5. r \in Seq(Xbox!Event) /\ Pending' = Append(r, erase)
    <3>1. events' = Append(Append(events, stop), erase) /\ Append(events, stop) \in Seq(Xbox!Event)
      BY <1>1, <2>2, <2>4, AppendTwo
    <3>2. fetched \o events' = Append(fetched \o Append(events, stop), erase)
      BY <1>1, <2>2, <3>1, PendingAppend
    <3>3. fetched \o Append(events, stop) = Append(fetched \o events, stop)
      BY <1>1, <2>2, PendingAppend
    <3> QED BY <1>1, <2>2, <2>3, <3>2, <3>3 DEF Pending, q
  <2>6. \A id \in Slots :
          /\ Erased(r, id) <=> Erased(q, id)
          /\ Silent(r, id) <=> Silent(q, id) /\ id # slot
          /\ Started(r, id) <=> Started(q, id) /\ id # slot
    BY <1>1, <2>2, AfterAppend
  <2>7. OnlyPlays(r)
    BY <1>1, <1>2, <2>2, <2>3, AfterAppend
  <2> HIDE DEF r
  <2>8. \A id \in Slots :
          /\ Erased(Append(r, erase), id) <=> Erased(r, id) \/ id = slot
          /\ Silent(Append(r, erase), id) <=> Silent(r, id) /\ id # slot
          /\ Started(Append(r, erase), id) <=> Started(r, id) /\ id # slot
    BY <2>2, <2>5, AfterAppend
  <2>9. AtMostOne(Append(r, erase))
    BY <2>2, <2>5, <2>7, AfterAppend
  <2>10. \A id \in Slots :
          owned'[id] = IF Erased(Append(r, erase), id) THEN NoEffect ELSE effects[id]
    BY <1>1, <1>2, <2>1, <2>6, <2>8
  <2>11. \A id \in Slots :
          id \in playing' <=> (id \in active /\ Silent(Append(r, erase), id))
                                \/ Started(Append(r, erase), id)
    BY <1>2, <2>1, <2>6, <2>8
  <2> QED BY <2>3, <2>5, <2>9, <2>10, <2>11 DEF TableInv
<1> QED BY <1>3, <1>4, <1>5

LEMMA TableStep == PathInv /\ TableInv /\ [PathNext]_<<vars, xbox>> => TableInv'
<1> SUFFICES ASSUME Xbox!TypeOK, PollInv, TableInv, [PathNext]_<<vars, xbox>> PROVE TableInv'
  BY DEF PathInv
<1>1. CASE GamesPlay
  BY <1>1, GamesTable DEF GamesPlay
<1>2. CASE Handle
  BY <1>2, HandleTable DEF Handle
<1>3. ASSUME Pending' = Pending, UNCHANGED <<owned, playing, asked, effects, active>> PROVE TableInv'
  BY <1>3 DEF TableInv
<1>4. CASE Fetch
  <2>1. /\ ~polling /\ fetched' = events /\ events' = <<>>
        /\ UNCHANGED <<owned, playing, asked, effects, active>>
    BY <1>4 DEF Fetch, Xbox!Fetch, Xbox!kernel, Xbox!table
  <2>2. fetched = <<>> /\ events \in Seq(Xbox!Event)
    BY <2>1 DEF PollInv, Xbox!TypeOK
  <2>3. <<>> \o events = events /\ events \o <<>> = events
    BY <2>2
  <2>4. Pending' = Pending
    BY <2>1, <2>2, <2>3 DEF Pending
  <2> QED BY <1>3, <2>1, <2>4
<1>5. CASE Replace
  <2>1. /\ owned' = [id \in Slots |-> NoEffect] /\ effects' = [id \in Slots |-> NoEffect]
        /\ playing' = {} /\ active' = {} /\ asked' = FALSE /\ events' = <<>> /\ fetched' = <<>>
    BY <1>5 DEF Replace
  <2>2. Pending' = <<>>
    BY <2>1 DEF Pending
  <2>3. DOMAIN <<>> = {}
    OBVIOUS
  <2> QED BY <2>1, <2>2, <2>3 DEF TableInv, AtMostOne, OnlyPlays, Erased, Silent, Started
<1>6. CASE UNCHANGED <<fetched, events, owned, playing, asked, effects, active>>
  BY <1>3, <1>6 DEF Pending
<1> QED BY <1>1, <1>2, <1>4, <1>5, <1>6 DEF PathNext, Finish, Xbox!Finish, Xbox!kernel, Xbox!table,
        Stop, Repeat, ClickAgain, Arrive, Depart, Outside, Idle, xbox

(* TableFollowsGames: what RumbleEffects holds, with the events that are   *)
(* on their way, is what the kernel's slots hold and games have started,   *)
(* for any number of effects and however calls and polls interleave.       *)
THEOREM TableIsRight == PathSpec => []TableFollowsGames
<1>1. PathInit => TableInv
  <2> SUFFICES ASSUME PathInit PROVE TableInv
    OBVIOUS
  <2>1. Pending = <<>> /\ DOMAIN <<>> = {}
    BY DEF PathInit, Xbox!Init, Pending
  <2> QED BY <2>1 DEF PathInit, Xbox!Init, TableInv, AtMostOne, OnlyPlays, Erased, Silent, Started
<1> QED BY <1>1, TableStep, TableFollows, PathInvariance, PTL DEF PathSpec

=============================================================================
