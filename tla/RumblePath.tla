----------------------------- MODULE RumblePath -----------------------------
(***************************************************************************)
(* The whole way of rumble, from the games that play effects on the        *)
(* emulated Xbox pad (XboxRumble) through the main loop to the motor of    *)
(* the controller (Haptics).  The level that Haptics lets the game want is *)
(* here what the daemon's table of effects amounts to; the level that it   *)
(* lets the gamepad report is the table's last_output.  All of the daemon  *)
(* runs on one thread: while it handles the events of a poll, only the     *)
(* games and the kernel go on.                                             *)
(***************************************************************************)
EXTENDS Haptics, FiniteSets, SequencesExt

CONSTANTS Slots, QueueLen, NoEffect     \* as in XboxRumble

ASSUME PathAssumption ==
    /\ Slots \subseteq Nat /\ IsFiniteSet(Slots)
    /\ QueueLen \in Nat \ {0} /\ NoEffect \notin Nat

VARIABLES owned, playing, asked, events, fetched, polling, effects, active

Xbox == INSTANCE XboxRumble WITH Levels <- Strength, last_output <- reported

xbox == <<owned, playing, asked, events, fetched, polling, effects, active>>

PathInit == Init /\ Xbox!Init

-----------------------------------------------------------------------------
(* The games, while their gamepad exists.                                  *)
GamesPlay ==
    /\ pad
    /\ Xbox!Upload \/ Xbox!Erase \/ Xbox!Play
    /\ UNCHANGED vars

(* The poll of the main loop, as poll_rumble of output.rs and of xbox.rs.  *)
Fetch ==
    /\ pad /\ ~stopPending
    /\ Xbox!Fetch
    /\ UNCHANGED vars

Handle ==
    /\ Xbox!Handle
    /\ wanted' = Xbox!Strongest(effects', active')
    /\ UNCHANGED <<pad, reported, stopPending, rumble, connected, output, motor, swiping>>

Finish ==
    /\ Xbox!Finish
    /\ IF reported' = reported
         THEN UNCHANGED <<rumble, output>>
         ELSE /\ rumble' = reported'
              /\ Write([kind |-> "rumble", level |-> reported'])
    /\ UNCHANGED <<pad, wanted, stopPending, connected, motor, swiping>>

(* The rest of the main loop: between two polls.                           *)
Idle == ~polling /\ UNCHANGED xbox

Stop == Idle /\ PollStop
Repeat ==
    /\ Idle /\ ~stopPending
    /\ NeedsRefresh
    /\ Write([kind |-> "rumble", level |-> rumble])
    /\ UNCHANGED <<pad, wanted, reported, stopPending, rumble, connected, motor, swiping>>
ClickAgain == Idle /\ PlayHaptic
Arrive == Idle /\ Connect
Depart == Idle /\ Disconnect

(* The old device goes with its effects and its events; a new one is       *)
(* empty.                                                                  *)
Replace ==
    /\ ~polling
    /\ SetGamepad
    /\ owned' = [id \in Slots |-> NoEffect] /\ effects' = [id \in Slots |-> NoEffect]
    /\ playing' = {} /\ active' = {} /\ asked' = FALSE
    /\ events' = <<>> /\ fetched' = <<>> /\ polling' = FALSE

(* The kernel and the hand on the trackpad, at any time.                   *)
Outside == (Complete \/ Swipe) /\ UNCHANGED xbox

PathNext ==
    \/ GamesPlay \/ Fetch \/ Handle \/ Finish
    \/ Stop \/ Repeat \/ ClickAgain \/ Arrive \/ Depart \/ Replace
    \/ Outside

(* As in Haptics.  Games that never rest can keep the main loop busy with  *)
(* polls that change nothing, but it looks at the time after each of them. *)
PathFairness ==
    /\ WF_<<vars, xbox>>(Fetch) /\ WF_<<vars, xbox>>(Handle) /\ WF_<<vars, xbox>>(Finish)
    /\ WF_<<vars, xbox>>(Stop) /\ SF_<<vars, xbox>>(Repeat)
    /\ WF_<<vars, xbox>>(Complete /\ UNCHANGED xbox)

PathSpec == PathInit /\ [][PathNext]_<<vars, xbox>> /\ PathFairness

-----------------------------------------------------------------------------
(* Properties.                                                             *)

(* The table with the events that are still on their way is what the       *)
(* kernel's slots hold and what games have started: no effect plays that   *)
(* nobody started, a slot that is taken again starts silent, and a game    *)
(* that is gone leaves nothing behind, however its calls and the polls     *)
(* interleave (xbox.rs RumbleEffects).  An upload that waits is in the     *)
(* table when it is handled, and not before.                               *)
TableFollowsGames ==
    LET pending == fetched \o events
        Starts(i, id) == /\ pending[i].kind = "play" /\ pending[i].id = id
                         /\ pending[i].repetitions > 0
        Erases(i, id) == pending[i].kind = "erase" /\ pending[i].id = id
        Stops(i, id) ==
            \/ Erases(i, id)
            \/ /\ pending[i].kind = "play" /\ pending[i].id = id
               /\ pending[i].repetitions = 0
    IN \A id \in Slots :
          /\ owned[id] = IF \E i \in DOMAIN pending : Erases(i, id)
                           THEN NoEffect ELSE effects[id]
          /\ id \in playing <=>
                \/ id \in active /\ \A i \in DOMAIN pending : ~Stops(i, id)
                \/ \E i \in DOMAIN pending :
                      /\ Starts(i, id)
                      /\ \A j \in DOMAIN pending : Stops(j, id) => j < i

(* The level that the effects games have loaded and started amount to      *)
(* reaches the motor for good once it stays the same, although events come *)
(* late, polls report changes only, a gamepad that is gone still owes its  *)
(* stop and any single write may be dropped (xbox.rs, output.rs, main.rs): *)
(* games may start and stop effects for ever, but not load new ones, which *)
(* the daemon may meet while it thinks another one is playing.             *)
EffectsArrive ==
    \A l \in Strength :
        <>[](/\ connected /\ pad /\ ~swiping /\ ~asked
             /\ Xbox!Strongest(owned, playing) = l)
            => <>[](motor = l)

(* The gamepad and the main loop together do what Haptics says of them: a  *)
(* poll that handles several events looks from outside like a game that    *)
(* changed its mind and one poll that reports it, the level repeated is    *)
(* never one that a change not yet reported has made stale (xbox.rs        *)
(* changed_output).                                                        *)
ImplementsHaptics == Safety
=============================================================================
