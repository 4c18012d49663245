---------------------------- MODULE UsbTransfers ----------------------------
(***************************************************************************)
(* The life of an open receiver (daemon/src/usb.rs): its interfaces are    *)
(* claimed one after the other, two reads per interface are kept with the  *)
(* kernel, completed transfers are reaped at the start of every call, and  *)
(* dropping the device takes everything back that the kernel still owns.   *)
(* The kernel's usbfs and the receiver are external.                       *)
(***************************************************************************)
EXTENDS Integers, Sequences, FiniteSets, Functions

CONSTANT
    Slots \* number of interfaces: four on a receiver, one on a cable

ASSUME SlotsAssumption == Slots \in Nat \ {0}

Slot == 1..Slots
Transfer == Slot \X {"in1", "in2", "out"}
Inputs(s) == {<<s, "in1">>, <<s, "in2">>}

VARIABLES
    plugged,  \* the receiver is there
    sent,     \* transfers the kernel works on
    done,     \* transfers completed and not given back, in that order
    driver,   \* interfaces that a kernel driver uses
    phase,    \* what the device is doing, "closed" when there is none
    at,       \* the interface or slot of the loop or call
    slots,    \* how many slots the device has
    claimed,  \* Device.claimed
    pending,  \* transfers whose `pending' is set
    owed      \* what Drop has still to reap

kernel == <<plugged, sent, done, driver>>
device == <<at, slots, claimed, pending, owed>>
vars == <<kernel, phase, device>>

Known == {t \in Transfer : t[1] <= slots}

TypeOK ==
    /\ plugged \in BOOLEAN
    /\ sent \subseteq Transfer /\ done \in Seq(Transfer)
    /\ driver \subseteq Slot
    /\ phase \in {"closed", "claiming", "submitting", "open", "reading", "writing",
                  "discarding", "reaping", "releasing"}
    /\ at \in Slot /\ slots \in 0..Slots /\ claimed \in Seq(Slot)
    /\ pending \subseteq Transfer /\ owed \in Nat

Init ==
    /\ plugged = TRUE
    /\ sent = {} /\ done = <<>>
    /\ driver = Slot
    /\ phase = "closed" /\ at = 1 /\ slots = 0 /\ claimed = <<>> /\ pending = {} /\ owed = 0

-----------------------------------------------------------------------------
(* The kernel and the receiver.                                            *)

(* A transfer ends: well, with an error, or because the receiver is gone.  *)
(* How it ended is abstracted to what the calls below may make of it; in   *)
(* which order a slot's two reads are filled is DeviceManager's matter.    *)
Complete ==
    \E t \in sent :
        /\ sent' = sent \ {t}
        /\ done' = Append(done, t)
        /\ UNCHANGED <<plugged, driver, phase, device>>

Unplug ==
    /\ plugged
    /\ plugged' = FALSE
    /\ UNCHANGED <<sent, done, driver, phase, device>>

(* A new receiver starts with the kernel's drivers.                        *)
Plug ==
    /\ ~plugged /\ phase = "closed"
    /\ plugged' = TRUE
    /\ driver' = Slot
    /\ UNCHANGED <<sent, done, phase, device>>

(* SUBMITURB, which may fail for want of memory, and fails when unplugged. *)
Submit(t) == plugged /\ sent' = sent \cup {t}

-----------------------------------------------------------------------------
(* Device::open.                                                           *)

Open ==
    /\ phase = "closed" /\ plugged
    /\ phase' = "claiming"
    /\ at' = 1 /\ slots' = 0 /\ claimed' = <<>> /\ pending' = {} /\ owed' = 0
    /\ UNCHANGED kernel

(* claim: the driver of the kernel is sent away.                           *)
Claim ==
    /\ phase = "claiming"
    /\ \/ /\ plugged
          /\ driver' = driver \ {at}
          /\ claimed' = Append(claimed, at)
          /\ phase' = "submitting"
       \/ phase' = "discarding" /\ UNCHANGED <<driver, claimed>>
    /\ UNCHANGED <<plugged, sent, done, at, slots, pending, owed>>

(* The slot becomes one of the device's when both reads are with the       *)
(* kernel; until then its transfers are the loop's own.                    *)
SubmitRead ==
    /\ phase = "submitting"
    /\ LET t == IF <<at, "in1">> \in pending THEN <<at, "in2">> ELSE <<at, "in1">>
       IN \/ /\ Submit(t)
             /\ pending' = pending \cup {t}
             /\ IF t[2] = "in1" THEN UNCHANGED <<slots, at, phase>>
                ELSE /\ slots' = at
                     /\ IF at = Slots THEN phase' = "open" /\ at' = 1
                        ELSE phase' = "claiming" /\ at' = at + 1
          \/ /\ phase' = "discarding"
             /\ pending' = pending \cap Known
             /\ UNCHANGED <<sent, slots, at>>
    /\ UNCHANGED <<plugged, done, driver, claimed, owed>>

-----------------------------------------------------------------------------
(* Calls on an open device.  Each begins with reap.                        *)

Poll ==
    /\ phase = "open"
    /\ phase' = "reading"
    /\ UNCHANGED <<kernel, device>>

Write ==
    /\ phase = "open"
    /\ phase' = "writing" /\ at' \in Slot
    /\ UNCHANGED <<kernel, slots, claimed, pending, owed>>

(* Fault: reads are found by their slot.                                   *)
CompletedSlot(t) == pending \ (IF t \in Known /\ t[2] # "out" THEN Inputs(t[1]) ELSE {t})
(* complete.                                                               *)
Completed(t) == pending \ {t}

(* REAPURBNDELAY, once.                                                    *)
Reap ==
    /\ phase \in {"reading", "writing"} /\ done # <<>>
    /\ pending' = Completed(Head(done))
    /\ done' = Tail(done)
    /\ UNCHANGED <<plugged, sent, driver, phase, at, slots, claimed, owed>>

(* Without a completed transfer: WouldBlock, or an error when the receiver *)
(* is gone.  Poll looks for a report in the order of the slots, in those   *)
(* it was asked for, and queues the transfer again.                        *)
Readable(only) == {t \in Transfer \ pending : t[2] # "out" /\ t[1] \in only}
Before(t, u) == t[1] < u[1] \/ (t[1] = u[1] /\ t[2] = "in1")
FirstOf(readable) == {t \in readable : \A u \in readable \ {t} : Before(t, u)}
Read ==
    /\ phase = "reading" /\ done = <<>>
    /\ \E only \in {Slot} \cup {{s} : s \in Slot} :
          \/ \E t \in FirstOf(Readable(only)) : Submit(t) /\ pending' = pending \cup {t}
          \/ UNCHANGED <<sent, pending>>
    /\ phase' = "open"
    /\ UNCHANGED <<plugged, done, driver, at, slots, claimed, owed>>

(* write: nothing while the last one is on its way; a stalled endpoint is  *)
(* cleared first, which fails when the receiver is gone, as submitting.    *)
Send ==
    /\ phase = "writing" /\ done = <<>>
    /\ LET t == <<at, "out">>
       IN \/ /\ t \notin pending
             /\ Submit(t) /\ pending' = pending \cup {t}
          \/ UNCHANGED <<sent, pending>>
    /\ phase' = "open" /\ at' = 1
    /\ UNCHANGED <<plugged, done, driver, slots, claimed, owed>>

-----------------------------------------------------------------------------
(* Device::drop, whenever the caller is done with it.                      *)

Drop ==
    /\ phase = "open"
    /\ phase' = "discarding"
    /\ UNCHANGED <<kernel, device>>

(* Fault: every transfer of a slot is waited for.                          *)
DiscardCountingAll ==
    /\ phase = "discarding"
    /\ owed' = Cardinality(Known)
    /\ phase' = "reaping"
    /\ UNCHANGED <<kernel, at, slots, claimed, pending>>

(* DISCARDURB for what is pending.  One that has completed stays so.       *)
Discard ==
    /\ phase = "discarding"
    /\ owed' = Cardinality(pending)
    /\ phase' = "reaping"
    /\ UNCHANGED <<kernel, at, slots, claimed, pending>>

(* REAPURB waits for a completion, and fails when the receiver is gone.    *)
ReapOwed ==
    /\ phase = "reaping" /\ owed # 0
    /\ \/ /\ done # <<>>
          /\ owed' = owed - 1
          /\ pending' = Completed(Head(done))
          /\ done' = Tail(done)
          /\ UNCHANGED phase
       \/ /\ done = <<>> /\ ~plugged
          /\ phase' = "releasing"
          /\ UNCHANGED <<done, pending, owed>>
    /\ UNCHANGED <<plugged, sent, driver, at, slots, claimed>>

ReapedAll ==
    /\ phase = "reaping" /\ owed = 0
    /\ phase' = "releasing"
    /\ UNCHANGED <<kernel, device>>

(* Fault: the interfaces of the slots are given back, not all claimed ones.*)
ReleaseSlots ==
    /\ phase = "releasing" /\ claimed # <<>>
    /\ LET s == claimed[Len(claimed)]
       IN driver' = IF plugged /\ s <= slots THEN driver \cup {s} ELSE driver
    /\ claimed' = SubSeq(claimed, 1, Len(claimed) - 1)
    /\ UNCHANGED <<plugged, sent, done, phase, at, slots, pending, owed>>

(* RELEASEINTERFACE, and CONNECT for the kernel's driver to come back.     *)
Release ==
    /\ phase = "releasing" /\ claimed # <<>>
    /\ LET s == claimed[Len(claimed)]
       IN driver' = IF plugged THEN driver \cup {s} ELSE driver
    /\ claimed' = SubSeq(claimed, 1, Len(claimed) - 1)
    /\ UNCHANGED <<plugged, sent, done, phase, at, slots, pending, owed>>

(* The file is closed before the slots are freed: the kernel forgets what  *)
(* it has of this file, without bringing its drivers back.                 *)
Close ==
    /\ phase = "releasing" /\ claimed = <<>>
    /\ sent' = {} /\ done' = <<>>
    /\ pending' = {} /\ slots' = 0 /\ owed' = 0
    /\ phase' = "closed" /\ at' = 1
    /\ UNCHANGED <<plugged, driver, claimed>>

Teardown == Discard \/ ReapOwed \/ ReapedAll \/ Release \/ Close
Next ==
    \/ Complete \/ Unplug \/ Plug
    \/ Open \/ Claim \/ SubmitRead \/ Poll \/ Write \/ Reap \/ Read \/ Send \/ Drop
    \/ Teardown

(* The kernel gives back what was discarded, and what it has of a receiver *)
(* that is gone; a call runs to its end.                                   *)
Returns == (phase = "reaping" \/ ~plugged) /\ Complete
Fairness == WF_vars(Returns) /\ WF_vars(Teardown) /\ WF_vars(Reap) /\ WF_vars(Read \/ Send)

Safety == Init /\ [][Next]_vars
Spec == Safety /\ Fairness

-----------------------------------------------------------------------------
(* Properties.                                                             *)

Owned == sent \cup Range(done)

(* The first read of a slot whose second one could not be queued: opening  *)
(* fails, the slot never becomes the device's, and nobody counts its read. *)
Orphan ==
    IF phase \in {"discarding", "reaping", "releasing"} /\ slots < Slots
      THEN {<<slots + 1, "in1">>} ELSE {}

(* What the device believes to be pending is what the kernel has, of every *)
(* transfer there is and whatever failed on the way: a buffer the kernel   *)
(* has given back is used again, and one it still owns is neither read nor *)
(* written nor forgotten, but for one read: when opening fails between the *)
(* two reads of a slot, the kernel keeps the first and the device does not *)
(* know (complete, submit, and the early returns of open and of the calls).*)
PendingIsOwned ==
    phase # "closed" => /\ pending \subseteq Owned
                        /\ Owned \ pending \subseteq Orphan

(* A device that was opened halfway, or dropped in the middle of anything, *)
(* leaves no interface without the driver it had, unless it was unplugged. *)
InterfacesComeBack == phase = "closed" /\ plugged => driver = Slot

(* Dropping a device ends: it waits for as many transfers as the kernel    *)
(* gives back, also when some were completed before they were discarded.   *)
DropEnds == phase = "discarding" ~> phase = "closed"
=============================================================================
