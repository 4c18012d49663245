----------------------------- MODULE XboxRumble -----------------------------
(***************************************************************************)
(* Force feedback of the emulated Xbox pad (gamepad/xbox.rs): games load   *)
(* effects into the slots of a uinput device and play them; the daemon     *)
(* learns of that through events, which it reads once per iteration of its *)
(* main loop, keeps a table of its own, and reports the level of all       *)
(* effects that play together when it changes.  The kernel's force         *)
(* feedback core, which owns the slots and makes the events, is external,  *)
(* and so are the games.  RumblePath composes this with the main loop.     *)
(***************************************************************************)
EXTENDS Integers, FiniteSets, SequencesExt

CONSTANTS       \* as RumblePath assumes of them
    Slots,      \* indices of effects: 0..15, as with_ff_effects_max asks for
    Levels,     \* magnitudes of an effect, for one of the two motors
    QueueLen,   \* bound: events that can wait; 16 in the kernel
    NoEffect    \* a free slot

VARIABLES
    owned,      \* the kernel: the effect of each slot
    playing,    \* slots whose effect games have started and not stopped
    asked,      \* an upload or erasure waits for the daemon
    events,     \* uinput events not fetched yet
    fetched,    \* events of this poll still to be handled
    polling,    \* a poll is going on
    effects, active, last_output  \* RumbleEffects

kernel == <<owned, playing, asked>>
table == <<effects, active>>
vars == <<kernel, events, fetched, polling, table, last_output>>

Event == [kind: {"upload"}, id: Slots, level: Levels]
           \cup [kind: {"erase"}, id: Slots]
           \cup [kind: {"play"}, id: Slots, repetitions: {-1, 0, 1}]

TypeOK ==
    /\ owned \in [Slots -> Levels \cup {NoEffect}] /\ playing \subseteq Slots
    /\ asked \in BOOLEAN
    /\ events \in Seq(Event) /\ fetched \in Seq(Event) /\ polling \in BOOLEAN
    /\ effects \in [Slots -> Levels \cup {NoEffect}] /\ active \subseteq Slots
    /\ last_output \in Levels \cup {0}

Init ==
    /\ owned = [id \in Slots |-> NoEffect] /\ playing = {} /\ asked = FALSE
    /\ events = <<>> /\ fetched = <<>> /\ polling = FALSE
    /\ effects = [id \in Slots |-> NoEffect] /\ active = {}
    /\ last_output = 0

(* The strongest of the effects that play.                                 *)
Strongest(loaded, started) ==
    Max({0} \cup {loaded[id] : id \in {i \in started : loaded[i] # NoEffect}})

-----------------------------------------------------------------------------
(* Games, through the kernel.  One upload or erasure at a time holds the   *)
(* device's mutex and waits for the daemon; playing does not wait.         *)

Free == {id \in Slots : owned[id] = NoEffect}

(* A new effect gets the lowest free slot; an old one may be changed.      *)
Upload ==
    /\ ~asked
    /\ Len(events) < QueueLen
    /\ \E id \in Slots, level \in Levels :
          /\ id \in Free => \A other \in Free : id <= other
          /\ events' = Append(events, [kind |-> "upload", id |-> id, level |-> level])
    /\ asked' = TRUE
    /\ UNCHANGED <<owned, playing, fetched, polling, table, last_output>>

(* The kernel stops what it erases.  A game that ends erases its effects.  *)
Erase ==
    /\ ~asked
    /\ Len(events) + 1 < QueueLen
    /\ \E id \in Slots \ Free :
          /\ events' = events \o <<[kind |-> "play", id |-> id, repetitions |-> 0],
                                   [kind |-> "erase", id |-> id]>>
          /\ owned' = [owned EXCEPT ![id] = NoEffect]
          /\ playing' = playing \ {id}
    /\ asked' = TRUE
    /\ UNCHANGED <<fetched, polling, table, last_output>>

(* A negative number of repetitions means nothing.                         *)
Play ==
    /\ Len(events) < QueueLen
    /\ \E id \in Slots \ Free, repetitions \in {-1, 0, 1} :
          /\ events' = Append(events, [kind |-> "play", id |-> id, repetitions |-> repetitions])
          /\ playing' = IF repetitions > 0 THEN playing \cup {id}
                        ELSE IF repetitions = 0 THEN playing \ {id} ELSE playing
    /\ UNCHANGED <<owned, asked, fetched, polling, table, last_output>>

-----------------------------------------------------------------------------
(* The daemon.                                                             *)

(* RumbleEffects::upload, erase and set_playback, with a valid index.      *)
Uploaded(t, event) == [t EXCEPT !.effects[event.id] = event.level]
Erased(t, event) == [t EXCEPT !.effects[event.id] = NoEffect, !.active = @ \ {event.id}]
(* Fault: starting toggles.                                                *)
PlayedAgain(t, event) ==
    IF event.repetitions > 0
      THEN [t EXCEPT !.active = (@ \ {event.id}) \cup ({event.id} \ @)]
    ELSE IF event.repetitions = 0 THEN [t EXCEPT !.active = @ \ {event.id}]
    ELSE t
Played(t, event) ==
    IF event.repetitions > 0 THEN [t EXCEPT !.active = @ \cup {event.id}]
    ELSE IF event.repetitions = 0 THEN [t EXCEPT !.active = @ \ {event.id}]
    ELSE t
Handled(t, event) ==
    CASE event.kind = "upload" -> Uploaded(t, event)
      [] event.kind = "erase" -> Erased(t, event)
      [] event.kind = "play" -> Played(t, event)

Table == [effects |-> effects, active |-> active]

(* poll_rumble: WouldBlock returns at once.                                *)
Fetch ==
    /\ ~polling /\ events # <<>>
    /\ polling' = TRUE
    /\ fetched' = events /\ events' = <<>>
    /\ UNCHANGED <<kernel, table, last_output>>

(* One event.  An upload or erasure lets the game that waits go on.        *)
Handle ==
    /\ polling /\ fetched # <<>>
    /\ LET event == Head(fetched) next == Handled(Table, event)
       IN  /\ effects' = next.effects /\ active' = next.active
           /\ asked' = (asked /\ event.kind = "play")
           /\ owned' = IF event.kind = "upload" THEN [owned EXCEPT ![event.id] = event.level] ELSE owned
    /\ fetched' = Tail(fetched)
    /\ UNCHANGED <<playing, events, polling, last_output>>

(* Fault: silence is not a change.                                         *)
FinishLoud ==
    /\ polling /\ fetched = <<>>
    /\ polling' = FALSE
    /\ last_output' = IF active = {} THEN last_output ELSE Strongest(effects, active)
    /\ UNCHANGED <<kernel, events, fetched, table>>

(* changed_output: the main loop is told when this differs.                *)
Finish ==
    /\ polling /\ fetched = <<>>
    /\ polling' = FALSE
    /\ last_output' = Strongest(effects, active)
    /\ UNCHANGED <<kernel, events, fetched, table>>
=============================================================================
