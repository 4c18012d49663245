-------------------------------- MODULE Link --------------------------------
(***************************************************************************)
(* What DeviceManager promises the main loop, whatever happens on the bus: *)
(* a connection belongs to one slot of the receiver from its first State   *)
(* event to its one Disconnected event, and a connection that a failed     *)
(* write has ended is reported before anything else is.                    *)
(***************************************************************************)
CONSTANTS Slot, Down, Lost   \* Down and Lost differ and are no slots

VARIABLES
    link,   \* the slot whose controller is connected, Down, or Lost: ended, not yet reported
    event   \* what the main loop has been handed last

vars == <<link, event>>

Init == link = Down /\ event = "none"

Deliver(s) == link \in {Down, s} /\ link' = s /\ event' = "state"
Battery == link \in Slot /\ event' = "battery" /\ UNCHANGED link
Lose == link \in Slot /\ link' = Lost /\ event' = "none"
Disconnect == link # Down /\ link' = Down /\ event' = "disconnected"
Quiet == event' = "none" /\ UNCHANGED link

Next == (\E s \in Slot : Deliver(s)) \/ Battery \/ Lose \/ Disconnect \/ Quiet

Safety == Init /\ [][Next]_vars

(* The main loop polls for ever, so a lost connection does get reported.   *)
Spec == Safety /\ WF_vars(link = Lost /\ Disconnect)
=============================================================================
