---------------------------- MODULE DeviceManager ----------------------------
(***************************************************************************)
(* The connection to the physical controllers (daemon/src/device.rs) over  *)
(* the receiver's usbfs transfers (daemon/src/usb.rs).  Each slot of the   *)
(* receiver has two input transfers queued; the kernel fills them in the   *)
(* order they were submitted.  The receiver, the controllers and the       *)
(* passing of time are external.                                           *)
(***************************************************************************)
EXTENDS Integers

CONSTANT SlotCount
ASSUME SlotCountAssumption == SlotCount \in Nat \ {0}

Slot == 1..SlotCount
NoSlot == 0
Transfer == 1..2
Report == {"state", "battery", "gone", "other"}

VARIABLES
    present,      \* external: slots whose controller is switched on
    puck,         \* the receiver is open
    buffer,       \* per slot and input transfer: the report it holds, or "queued"
    oldest,       \* per slot: the input transfer that was submitted first
    active,       \* the slot of the connected controller, or NoSlot
    silent,       \* no State report has been handled for 750 ms
    disconnected, \* a connection has ended outside of poll()
    event         \* what the last call returned to the main loop

vars == <<present, puck, buffer, oldest, active, silent, disconnected, event>>

NoReports == [s \in Slot |-> [t \in Transfer |-> "queued"]]

TypeOK ==
    /\ present \subseteq Slot
    /\ puck \in BOOLEAN
    /\ buffer \in [Slot -> [Transfer -> Report \cup {"queued"}]]
    /\ oldest \in [Slot -> Transfer]
    /\ active \in Slot \cup {NoSlot}
    /\ silent \in BOOLEAN /\ disconnected \in BOOLEAN
    /\ event \in {"none", "state", "battery", "disconnected"}

Init ==
    /\ present = {}
    /\ puck = FALSE
    /\ buffer = NoReports /\ oldest = [s \in Slot |-> 1]
    /\ active = NoSlot /\ silent = FALSE /\ disconnected = FALSE
    /\ event = "none"

-----------------------------------------------------------------------------
(* The receiver and the clock.                                             *)

Switch ==
    /\ \E s \in Slot : present' = IF s \in present THEN present \ {s} ELSE present \cup {s}
    /\ UNCHANGED <<puck, buffer, oldest, active, silent, disconnected, event>>

Queued(s, t) == buffer[s][t] = "queued"

(* The transfer of slot `s' that the kernel fills next.                    *)
Head(s) == IF Queued(s, oldest[s]) THEN oldest[s] ELSE 3 - oldest[s]

(* A transfer completes with a report; a controller that is off has the    *)
(* receiver report that it is gone, but never sends its state.             *)
Fill ==
    /\ puck
    /\ \E s \in Slot :
          /\ Queued(s, Head(s))
          /\ \E r \in IF s \in present THEN Report \ {"gone"} ELSE {"gone", "other"} :
                buffer' = [buffer EXCEPT ![s][Head(s)] = r]
    /\ UNCHANGED <<present, puck, oldest, active, silent, disconnected, event>>

(* 750 ms pass without a State report.                                     *)
Tick ==
    /\ active # NoSlot
    /\ ~silent
    /\ silent' = TRUE
    /\ UNCHANGED <<present, puck, buffer, oldest, active, disconnected, event>>

-----------------------------------------------------------------------------
(* DeviceManager::reset: the receiver is closed, the connection ends.      *)
Reset ==
    /\ puck' = FALSE
    /\ buffer' = NoReports /\ oldest' = [s \in Slot |-> 1]
    /\ active' = NoSlot /\ silent' = FALSE

(* Fault: the timeout is never armed.                                      *)
NeverTimedOut == FALSE
TimedOut == active # NoSlot /\ silent

(* DeviceManager::poll, one action for each way it returns.                *)

PollOwesDisconnected ==
    /\ disconnected
    /\ disconnected' = FALSE
    /\ event' = "disconnected"
    /\ UNCHANGED <<present, puck, buffer, oldest, active, silent>>

PollTimesOut ==
    /\ ~disconnected
    /\ TimedOut
    /\ active' = NoSlot /\ silent' = FALSE
    /\ event' = "disconnected"
    /\ UNCHANGED <<present, puck, buffer, oldest, disconnected>>

(* scan() opens the receiver and queues every input transfer; without a    *)
(* receiver, or less than a second after the last scan, nothing happens.   *)
PollScans ==
    /\ ~disconnected /\ ~TimedOut
    /\ ~puck
    /\ puck' \in BOOLEAN
    /\ buffer' = NoReports /\ oldest' = [s \in Slot |-> 1]
    /\ event' = "none"
    /\ UNCHANGED <<present, active, silent, disconnected>>

(* Reaping, a transfer's status or its resubmission reports an error.      *)
PollFails ==
    /\ ~disconnected /\ ~TimedOut
    /\ puck
    /\ Reset
    /\ event' = IF active # NoSlot THEN "disconnected" ELSE "none"
    /\ UNCHANGED <<present, disconnected>>

(* Device::poll skips the other slots while a controller is connected, and *)
(* tries a slot's transfers in their fixed order.                          *)
Readable(s, t) == ~Queued(s, t) /\ active \in {NoSlot, s}
IsNext(s, t) ==
    /\ Readable(s, t)
    /\ \A u \in Slot, v \in Transfer : Readable(u, v) => s < u \/ (s = u /\ t <= v)

Resubmit(s, t) ==
    /\ buffer' = [buffer EXCEPT ![s][t] = "queued"]
    /\ oldest' = [oldest EXCEPT ![s] = 3 - t]

CanRead == ~disconnected /\ ~TimedOut /\ puck

PollQuiet ==
    /\ CanRead
    /\ \A s \in Slot, t \in Transfer : ~Readable(s, t)
    /\ event' = "none"
    /\ UNCHANGED <<present, puck, buffer, oldest, active, silent, disconnected>>

PollState ==
    /\ CanRead
    /\ \E s \in Slot, t \in Transfer :
          /\ IsNext(s, t)
          /\ buffer[s][t] = "state"
          /\ Resubmit(s, t)
          /\ active' = s
    /\ silent' = FALSE
    /\ event' = "state"
    /\ UNCHANGED <<present, puck, disconnected>>

(* A first State report, but one of the feature writes that configure the  *)
(* controller fails.                                                       *)
PollCannotConfigure ==
    /\ CanRead
    /\ active = NoSlot
    /\ \E s \in Slot, t \in Transfer : IsNext(s, t) /\ buffer[s][t] = "state"
    /\ Reset
    /\ event' = "none"
    /\ UNCHANGED <<present, disconnected>>

PollOther ==
    /\ CanRead
    /\ \E s \in Slot, t \in Transfer :
          /\ IsNext(s, t)
          /\ buffer[s][t] # "state"
          /\ Resubmit(s, t)
          /\ IF buffer[s][t] = "gone" /\ active = s
               THEN active' = NoSlot /\ silent' = FALSE /\ event' = "disconnected"
               ELSE /\ event' = IF buffer[s][t] = "battery" /\ active = s
                                  THEN "battery" ELSE "none"
                    /\ UNCHANGED <<active, silent>>
    /\ UNCHANGED <<present, puck, disconnected>>

Poll ==
    \/ PollOwesDisconnected \/ PollTimesOut \/ PollScans \/ PollFails
    \/ PollQuiet \/ PollState \/ PollCannotConfigure \/ PollOther

(* Fault: the caller ignores that reset() has ended a connection.          *)
WriteFailsSilently ==
    /\ active # NoSlot
    /\ Reset
    /\ event' = "none"
    /\ UNCHANGED <<present, disconnected>>

(* play_haptic or set_trackpad_click_pressure cannot write: the next poll  *)
(* reports the end of the connection.                                      *)
WriteFails ==
    /\ active # NoSlot
    /\ Reset
    /\ disconnected' = TRUE
    /\ event' = "none"
    /\ UNCHANGED present

Next == Switch \/ Fill \/ Tick \/ Poll \/ WriteFails

(* The main loop never stops polling, and a controller that is off stays   *)
(* silent.  Nothing is assumed of the reports that do arrive.              *)
Fairness ==
    /\ WF_vars(Poll)
    /\ WF_vars(active \notin present /\ Tick)

Safety == Init /\ [][Next]_vars
Spec == Safety /\ Fairness

-----------------------------------------------------------------------------
(* Properties.                                                             *)

(* A connection needs an open receiver; one that ended outside of poll()   *)
(* leaves nothing connected until it has been reported; and the transfer   *)
(* submitted later is never filled first (device.rs reset and its callers, *)
(* usb.rs submit).                                                         *)
ReceiverInv ==
    /\ TypeOK
    /\ active # NoSlot => puck /\ ~disconnected
    /\ silent => active # NoSlot
    /\ disconnected => ~puck
    /\ \A s \in Slot : Queued(s, oldest[s]) => Queued(s, 3 - oldest[s])

(* The main loop sees a sequence of whole connections: each belongs to one *)
(* slot and ends with exactly one Disconnected event, whether it ended by  *)
(* a report, by silence, by a failed read or by a failed write between two *)
(* polls, and that event comes before the next connection's first State    *)
(* (device.rs poll, reset and the `disconnected' flag).                    *)
Connection == INSTANCE Link WITH
    Slot <- Slot, Down <- NoSlot, Lost <- -1,
    link <- IF disconnected THEN -1 ELSE active
Sessions == Connection!Spec

(* A controller that is switched off for good is let go, although reports  *)
(* it sent long ago may still be queued and connect it again, and although *)
(* its "gone" report may never come (device.rs, the 750 ms timeout).       *)
Departed == \A s \in Slot : <>[](s \notin present) => <>[](active # s)

(* Not true of the code: a slot's State reports are handled in the order   *)
(* they arrived.  See README, findings.                                    *)
InOrder ==
    [][\A s \in Slot, t \in Transfer :
          /\ puck /\ puck'
          /\ buffer[s][t] = "state" /\ buffer'[s][t] = "queued"
          /\ buffer[s][oldest[s]] = "state"
          => t = oldest[s]]_vars
=============================================================================
