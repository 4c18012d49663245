--------------------------- MODULE ReceiverProofs ---------------------------
(***************************************************************************)
(* Proofs about the two models of the receiver, for any number of slots.   *)
(* UsbTransfers: what the device counts as pending is what the kernel has, *)
(* and every interface comes back.  DeviceManager: its invariant, and that *)
(* it implements Link.                                                     *)
(***************************************************************************)
EXTENDS UsbTransfers, FiniteSetTheorems, SequenceTheorems, TLAPS

(* Nothing is given back twice, or while the kernel works on it.           *)
OnceEach ==
    /\ \A i, j \in DOMAIN done : done[i] = done[j] => i = j
    /\ sent \cap Range(done) = {}

(* While the device is being opened its flags are right for every          *)
(* transfer, also for the reads of the slot it does not have yet; later    *)
(* for the transfers of its slots.                                         *)
OnlyFirst == \A t \in pending : t[1] < at \/ (phase = "submitting" /\ t = <<at, "in1">>)
Agrees ==
    /\ phase = "closed" => Owned = {}
    /\ phase \in {"claiming", "submitting"} => slots = at - 1 /\ pending = Owned /\ OnlyFirst
    /\ phase \in {"open", "reading", "writing"} => slots = Slots
    /\ PendingIsOwned

(* Every interface has its driver, or is on the list of claimed ones.      *)
Accounted ==
    /\ plugged => \A s \in Slot : s \in driver \/ s \in Range(claimed)
    /\ phase = "closed" => claimed = <<>>

DeviceInv == TypeOK /\ OnceEach /\ Agrees /\ Accounted

-----------------------------------------------------------------------------
(* Sequences.                                                              *)

LEMMA AppendRange ==
    ASSUME NEW S, NEW seq \in Seq(S), NEW e \in S
    PROVE  /\ Append(seq, e) \in Seq(S)
           /\ Range(Append(seq, e)) = Range(seq) \cup {e}
<1>1. Append(seq, e) \in Seq(S) /\ DOMAIN Append(seq, e) = 1..(Len(seq) + 1)
  OBVIOUS
<1>2. /\ \A i \in 1..Len(seq) : Append(seq, e)[i] = seq[i]
      /\ Append(seq, e)[Len(seq) + 1] = e
  OBVIOUS
<1>3. DOMAIN seq = 1..Len(seq) /\ Len(seq) \in Nat
  OBVIOUS
<1>4. ASSUME NEW x PROVE x \in Range(Append(seq, e)) <=> x \in Range(seq) \cup {e}
  <2>1. x \in Range(Append(seq, e)) <=> \E i \in 1..(Len(seq) + 1) : x = Append(seq, e)[i]
    BY <1>1 DEF Range
  <2>2. x \in Range(seq) <=> \E i \in 1..Len(seq) : x = seq[i]
    BY <1>3 DEF Range
  <2>3. \A i : i \in 1..(Len(seq) + 1) <=> i \in 1..Len(seq) \/ i = Len(seq) + 1
    BY <1>3
  <2> QED BY <1>2, <2>1, <2>2, <2>3
<1> QED BY <1>1, <1>4

LEMMA TailRange ==
    ASSUME NEW S, NEW seq \in Seq(S), seq # <<>>,
           \A i, j \in DOMAIN seq : seq[i] = seq[j] => i = j
    PROVE  /\ Tail(seq) \in Seq(S) /\ Head(seq) \in S
           /\ Range(Tail(seq)) = Range(seq) \ {Head(seq)}
           /\ Head(seq) \in Range(seq)
           /\ \A i, j \in DOMAIN Tail(seq) : Tail(seq)[i] = Tail(seq)[j] => i = j
<1>1. /\ Tail(seq) \in Seq(S) /\ Len(Tail(seq)) = Len(seq) - 1
      /\ Len(seq) \in Nat \ {0} /\ Head(seq) = seq[1] /\ Head(seq) \in S
      /\ DOMAIN seq = 1..Len(seq) /\ DOMAIN Tail(seq) = 1..(Len(seq) - 1)
  OBVIOUS
<1>2. \A i \in DOMAIN Tail(seq) : Tail(seq)[i] = seq[i + 1] /\ i + 1 \in DOMAIN seq
  BY <1>1
<1>3. 1 \in DOMAIN seq
  BY <1>1
<1>4. \A i, j \in DOMAIN Tail(seq) : Tail(seq)[i] = Tail(seq)[j] => i = j
  BY <1>1, <1>2
<1>5. ASSUME NEW x PROVE x \in Range(Tail(seq)) <=> x \in Range(seq) \ {Head(seq)}
  <2>1. CASE x \in Range(Tail(seq))
    <3>1. PICK i \in DOMAIN Tail(seq) : x = Tail(seq)[i]
      BY <2>1 DEF Range
    <3>2. x = seq[i + 1] /\ i + 1 \in DOMAIN seq /\ i + 1 # 1
      BY <1>1, <1>2, <3>1
    <3>3. x # seq[1]
      BY <1>3, <3>2
    <3> QED BY <1>1, <2>1, <3>2, <3>3 DEF Range
  <2>2. CASE x \in Range(seq) \ {Head(seq)}
    <3>1. PICK i \in DOMAIN seq : x = seq[i]
      BY <2>2 DEF Range
    <3>2. i # 1
      BY <1>1, <2>2, <3>1
    <3>3. i - 1 \in DOMAIN Tail(seq) /\ (i - 1) + 1 = i
      BY <1>1, <3>2
    <3>4. Tail(seq)[i - 1] = x
      BY <1>2, <3>1, <3>3
    <3> QED BY <3>3, <3>4 DEF Range
  <2> QED BY <2>1, <2>2
<1> QED BY <1>1, <1>3, <1>4, <1>5 DEF Range

LEMMA AllButLast ==
    ASSUME NEW S, NEW seq \in Seq(S), Len(seq) \in Nat \ {0}
    PROVE  LET rest == SubSeq(seq, 1, Len(seq) - 1)
           IN /\ rest \in Seq(S) /\ Len(rest) = Len(seq) - 1
              /\ \A i \in 1..(Len(seq) - 1) : rest[i] = seq[i]
<1> DEFINE n == Len(seq) - 1
<1>1. n \in Nat /\ \A i \in 1..n : seq[i] \in S
  OBVIOUS
<1> HIDE DEF n
<1>2. /\ SubSeq(seq, 1, n) \in Seq(S)
      /\ Len(SubSeq(seq, 1, n)) = IF 1 <= n THEN n - 1 + 1 ELSE 0
      /\ \A i \in 1..(n - 1 + 1) : SubSeq(seq, 1, n)[i] = seq[1 + i - 1]
  BY <1>1, SubSeqProperties, 1 \in Int, n \in Int
<1>3. n - 1 + 1 = n /\ (IF 1 <= n THEN n - 1 + 1 ELSE 0) = n /\ \A i \in 1..n : 1 + i - 1 = i
  BY <1>1
<1>4. \A i \in 1..n : SubSeq(seq, 1, n)[i] = seq[i]
  BY <1>2, <1>3
<1> QED BY <1>1, <1>2, <1>3, <1>4 DEF n

-----------------------------------------------------------------------------
(* Kinds of steps.                                                         *)

LEMMA DeviceInit == Init => DeviceInv
<1> SUFFICES ASSUME Init PROVE DeviceInv
  OBVIOUS
<1>1. 1 \in Slot /\ 0 \in 0..Slots
  BY SlotsAssumption DEF Slot
<1>2. TypeOK
  BY <1>1 DEF Init, TypeOK
<1>3. Range(done) = {}
  BY DEF Init, Range
<1> QED BY <1>2, <1>3 DEF Init, DeviceInv, OnceEach, Agrees, Accounted, PendingIsOwned, Owned

(* A transfer that is not pending is given to the kernel.                  *)
LEMMA Submitted ==
    ASSUME DeviceInv, phase # "closed", NEW t \in Transfer, t \notin Owned,
           Submit(t), pending' = pending \cup {t}, UNCHANGED done
    PROVE  /\ OnceEach' /\ sent' \subseteq Transfer /\ pending' \subseteq Transfer
           /\ Owned' = Owned \cup {t}
<1>1. sent' = sent \cup {t}
  BY DEF Submit
<1> QED BY <1>1 DEF DeviceInv, TypeOK, OnceEach, Owned

(* The kernel gives a completed transfer back.                             *)
LEMMA GivesBack ==
    ASSUME DeviceInv, phase # "closed", done # <<>>,
           pending' = Completed(Head(done)), done' = Tail(done), UNCHANGED <<sent, slots>>
    PROVE  /\ OnceEach' /\ done' \in Seq(Transfer) /\ pending' \subseteq Transfer
           /\ pending' = pending \ {Head(done)} /\ Owned' = Owned \ {Head(done)}
<1>1. /\ done' \in Seq(Transfer) /\ Head(done) \in Transfer
      /\ Range(done') = Range(done) \ {Head(done)} /\ Head(done) \in Range(done)
      /\ \A i, j \in DOMAIN done' : done'[i] = done'[j] => i = j
  BY TailRange DEF DeviceInv, TypeOK, OnceEach
<1>2. Owned' = Owned \ {Head(done)}
  BY <1>1 DEF Owned, DeviceInv, OnceEach
<1>3. pending' = pending \ {Head(done)}
  BY DEF Completed
<1> QED BY <1>1, <1>2, <1>3 DEF DeviceInv, TypeOK, OnceEach

LEMMA CompleteStep == DeviceInv /\ Complete => DeviceInv'
<1> SUFFICES ASSUME DeviceInv, Complete PROVE DeviceInv'
  OBVIOUS
<1>1. PICK t \in sent : sent' = sent \ {t} /\ done' = Append(done, t)
  BY DEF Complete
<1>2. UNCHANGED <<plugged, driver, phase, at, slots, claimed, pending, owed>>
  BY DEF Complete, device
<1>3. t \in Transfer /\ done \in Seq(Transfer)
  BY DEF DeviceInv, TypeOK
<1>4. done' \in Seq(Transfer) /\ Range(done') = Range(done) \cup {t}
  BY <1>1, <1>3, AppendRange
<1>5. TypeOK'
  BY <1>1, <1>2, <1>4 DEF DeviceInv, TypeOK
<1>6. Owned' = Owned
  BY <1>1, <1>4 DEF Owned
<1>7. OnceEach'
  <2>1. \A i \in DOMAIN done : done[i] # t
    BY DEF DeviceInv, OnceEach, Range
  <2>2. \A i, j \in DOMAIN done' : done'[i] = done'[j] => i = j
    BY <1>1, <1>3, <2>1 DEF DeviceInv, OnceEach
  <2> QED BY <1>1, <1>4, <2>2 DEF DeviceInv, OnceEach
<1>8. Agrees'
  BY <1>2, <1>6 DEF DeviceInv, Agrees, OnlyFirst, PendingIsOwned, Orphan
<1> QED BY <1>2, <1>5, <1>7, <1>8 DEF DeviceInv, Accounted

(* Steps that leave the kernel's transfers and the flags as they are.      *)
LEMMA FrameStep ==
    ASSUME DeviceInv, UNCHANGED <<sent, done, pending, slots>>, phase # "closed", TypeOK',
           phase' \in {"claiming", "submitting"} => slots = at' - 1 /\ pending = Owned /\ OnlyFirst',
           phase' \in {"open", "reading", "writing"} => slots = Slots,
           phase' # "closed", Orphan \subseteq Orphan'
    PROVE  OnceEach' /\ Agrees'
<1>1. Owned' = Owned
  BY DEF Owned
<1> QED BY <1>1 DEF DeviceInv, OnceEach, Agrees, PendingIsOwned

-----------------------------------------------------------------------------
(* One lemma per phase.                                                    *)

LEMMA PlugStep == DeviceInv /\ (Unplug \/ Plug) => DeviceInv'
<1> SUFFICES ASSUME DeviceInv, Unplug \/ Plug PROVE DeviceInv'
  OBVIOUS
<1>1. UNCHANGED <<sent, done, phase, at, slots, claimed, pending, owed>>
  BY DEF Unplug, Plug, device
<1>2. TypeOK' /\ Accounted'
  BY <1>1 DEF DeviceInv, TypeOK, Accounted, Unplug, Plug
<1> QED BY <1>1, <1>2 DEF DeviceInv, OnceEach, Agrees, OnlyFirst, PendingIsOwned, Orphan, Owned

LEMMA OpenStep == DeviceInv /\ (Open \/ Claim \/ SubmitRead) => DeviceInv'
<1> SUFFICES ASSUME DeviceInv, Open \/ Claim \/ SubmitRead PROVE DeviceInv'
  OBVIOUS
<1> USE SlotsAssumption DEF Slot
<1>1. CASE Open
  <2>1. TypeOK'
    BY <1>1 DEF DeviceInv, TypeOK, Open, kernel
  <2>2. Owned' = {} /\ OnceEach'
    BY <1>1 DEF DeviceInv, Agrees, OnceEach, Owned, Open, kernel
  <2>3. Accounted'
    BY <1>1 DEF DeviceInv, Accounted, Open, kernel
  <2>4. Agrees'
    BY <1>1, <2>2 DEF Agrees, OnlyFirst, PendingIsOwned, Owned, Open
  <2> QED BY <2>1, <2>2, <2>3, <2>4 DEF DeviceInv
<1>2. CASE Claim
  <2>1. UNCHANGED <<plugged, sent, done, at, slots, pending, owed>> /\ phase = "claiming"
    BY <1>2 DEF Claim
  <2>2. /\ claimed \in Seq(Slot) /\ at \in Slot
        /\ Append(claimed, at) \in Seq(Slot)
        /\ Range(Append(claimed, at)) = Range(claimed) \cup {at}
    BY AppendRange DEF DeviceInv, TypeOK
  <2>3. TypeOK'
    BY <1>2, <2>1, <2>2 DEF DeviceInv, TypeOK, Claim
  <2>4. phase' \in {"submitting", "discarding"}
    BY <1>2 DEF Claim
  <2>5. slots = at - 1 /\ pending = Owned /\ \A t \in pending : t[1] < at
    BY <2>1 DEF DeviceInv, Agrees, OnlyFirst
  <2>6. OnceEach' /\ Agrees'
    BY <2>1, <2>3, <2>4, <2>5, FrameStep DEF OnlyFirst, Orphan
  <2>7. Accounted'
    <3>1. CASE driver' = driver \ {at} /\ claimed' = Append(claimed, at)
      <4>1. Range(claimed') = Range(claimed) \cup {at}
        BY <2>2, <3>1
      <4> QED BY <2>1, <2>4, <3>1, <4>1 DEF DeviceInv, Accounted
    <3>2. CASE UNCHANGED <<driver, claimed>>
      BY <2>1, <2>4, <3>2 DEF DeviceInv, Accounted
    <3> QED BY <1>2, <3>1, <3>2 DEF Claim
  <2> QED BY <2>3, <2>6, <2>7 DEF DeviceInv
<1>3. CASE SubmitRead
  <2> DEFINE t == IF <<at, "in1">> \in pending THEN <<at, "in2">> ELSE <<at, "in1">>
  <2>1. UNCHANGED <<plugged, done, driver, claimed, owed>> /\ phase = "submitting"
    BY <1>3 DEF SubmitRead
  <2>2. slots = at - 1 /\ pending = Owned /\ OnlyFirst /\ at \in Slot
    BY <2>1 DEF DeviceInv, Agrees, TypeOK
  <2>3. Accounted'
    BY <1>3, <2>1 DEF DeviceInv, Accounted, SubmitRead
  <2>4. t \in Transfer /\ t \notin pending
    BY <2>2 DEF OnlyFirst, Transfer
  <2>5. CASE Submit(t) /\ pending' = pending \cup {t}
    <3>1. /\ OnceEach' /\ sent' \subseteq Transfer /\ pending' \subseteq Transfer
          /\ Owned' = Owned \cup {t}
      BY <2>1, <2>2, <2>4, <2>5, Submitted
    <3>2. \/ UNCHANGED <<slots, at, phase>> /\ t = <<at, "in1">>
          \/ slots' = at /\ at = Slots /\ phase' = "open" /\ at' = 1
          \/ slots' = at /\ at # Slots /\ phase' = "claiming" /\ at' = at + 1
      BY <1>3, <2>4, <2>5 DEF SubmitRead
    <3>3. TypeOK'
      BY <2>1, <2>2, <3>1, <3>2 DEF DeviceInv, TypeOK
    <3>4. pending' = Owned'
      BY <2>2, <2>5, <3>1
    <3>5. \A u \in pending' : u[1] < at \/ u = <<at, "in1">> \/ (u = <<at, "in2">> /\ u = t)
      BY <2>1, <2>2, <2>5 DEF OnlyFirst
    <3>6. PendingIsOwned'
      BY <3>4 DEF PendingIsOwned, Owned
    <3>7. phase' \in {"claiming", "submitting"} => OnlyFirst' /\ slots' = at' - 1
      <4>1. CASE UNCHANGED <<slots, at, phase>> /\ t = <<at, "in1">>
        BY <2>1, <2>2, <3>5, <4>1 DEF OnlyFirst
      <4>2. CASE slots' = at /\ at # Slots /\ phase' = "claiming" /\ at' = at + 1
        <5>1. \A u \in pending' : u[1] < at' \/ u[1] = at
          BY <2>2, <3>5, <4>2, <3>1 DEF Transfer
        <5> QED BY <2>2, <3>1, <4>2, <5>1 DEF OnlyFirst, Transfer
      <4> QED BY <3>2, <4>1, <4>2
    <3>8. phase' # "closed" /\ (phase' \in {"open", "reading", "writing"} => slots' = Slots)
      BY <2>1, <3>2
    <3>9. Agrees'
      BY <3>4, <3>6, <3>7, <3>8 DEF Agrees, Owned
    <3> QED BY <2>3, <3>1, <3>3, <3>9 DEF DeviceInv
  <2>6. CASE phase' = "discarding" /\ pending' = pending \cap Known /\ UNCHANGED <<sent, slots, at>>
    <3>1. TypeOK' /\ OnceEach'
      BY <2>1, <2>6 DEF DeviceInv, TypeOK, OnceEach
    <3>2. Agrees'
      <4>1. Owned' = Owned /\ pending' \subseteq Owned /\ phase' = "discarding" /\ slots' = at - 1
        BY <2>1, <2>2, <2>6 DEF Owned
      <4>2. Owned \ pending' \subseteq {<<at, "in1">>}
        BY <2>2, <2>6 DEF OnlyFirst, Known, DeviceInv, TypeOK, Transfer
      <4>3. Orphan' = {<<at, "in1">>}
        BY <2>2, <4>1 DEF Orphan
      <4> QED BY <4>1, <4>2, <4>3 DEF Agrees, PendingIsOwned
    <3> QED BY <2>3, <3>1, <3>2 DEF DeviceInv
  <2> QED BY <1>3, <2>5, <2>6 DEF SubmitRead
<1> QED BY <1>1, <1>2, <1>3

LEMMA CallStep == DeviceInv /\ (Poll \/ Write \/ Reap \/ Read \/ Send \/ Drop) => DeviceInv'
<1> SUFFICES ASSUME DeviceInv, Poll \/ Write \/ Reap \/ Read \/ Send \/ Drop PROVE DeviceInv'
  OBVIOUS
<1> USE SlotsAssumption DEF Slot
<1>1. /\ UNCHANGED <<plugged, driver, slots, claimed, owed>>
      /\ phase \in {"open", "reading", "writing"}
      /\ phase' \in {"open", "reading", "writing", "discarding"} /\ at' \in Slot
  BY DEF Poll, Write, Reap, Read, Send, Drop, kernel, device, DeviceInv, TypeOK
<1>2. slots = Slots
  BY <1>1 DEF DeviceInv, Agrees
<1>3. pending = Owned
  BY <1>1, <1>2 DEF DeviceInv, Agrees, PendingIsOwned, Orphan
<1>4. Accounted'
  BY <1>1 DEF DeviceInv, Accounted
<1>5. SUFFICES /\ OnceEach' /\ sent' \subseteq Transfer /\ done' \in Seq(Transfer)
               /\ pending' \subseteq Transfer
               /\ pending' = Owned'
  <2>1. TypeOK'
    BY <1>1, <1>5 DEF DeviceInv, TypeOK
  <2>2. Agrees'
    BY <1>1, <1>2, <1>5 DEF Agrees, PendingIsOwned
  <2> QED BY <1>4, <1>5, <2>1, <2>2 DEF DeviceInv
<1>6. CASE UNCHANGED <<sent, done, pending>>
  BY <1>3, <1>6 DEF DeviceInv, TypeOK, OnceEach, Owned
<1>7. CASE Reap
  <2>1. /\ done # <<>> /\ pending' = Completed(Head(done)) /\ done' = Tail(done)
        /\ UNCHANGED <<sent, slots>>
    BY <1>7 DEF Reap
  <2> QED BY <1>1, <1>3, <2>1, GivesBack DEF DeviceInv, TypeOK
<1>8. ASSUME NEW t \in Transfer, t \notin pending, Submit(t), pending' = pending \cup {t}, UNCHANGED done
      PROVE  /\ OnceEach' /\ sent' \subseteq Transfer /\ done' \in Seq(Transfer)
             /\ pending' \subseteq Transfer
             /\ pending' = Owned'
  <2>1. t \notin Owned
    BY <1>3, <1>8
  <2> QED BY <1>1, <1>3, <1>8, <2>1, Submitted DEF DeviceInv, TypeOK
<1>9. CASE Read
  <2>1. UNCHANGED done
    BY <1>9 DEF Read
  <2>2. CASE \E t \in Transfer \ pending : Submit(t) /\ pending' = pending \cup {t}
    BY <1>8, <2>1, <2>2
  <2> QED BY <1>6, <1>9, <2>1, <2>2 DEF Read, FirstOf, Readable
<1>10. CASE Send
  <2>1. UNCHANGED done /\ <<at, "out">> \in Transfer
    BY <1>10 DEF Send, Transfer, DeviceInv, TypeOK
  <2> QED BY <1>6, <1>8, <1>10, <2>1 DEF Send
<1>11. CASE Poll \/ Write \/ Drop
  BY <1>6, <1>11 DEF Poll, Write, Drop, kernel, device
<1> QED BY <1>7, <1>9, <1>10, <1>11

LEMMA PendingIsFinite == TypeOK => IsFiniteSet(pending)
<1>1. IsFiniteSet(Slot)
  BY SlotsAssumption, FS_Interval DEF Slot
<1>2. IsFiniteSet({"in1", "in2", "out"})
  <2>1. {"in1", "in2", "out"} = (({} \cup {"in1"}) \cup {"in2"}) \cup {"out"}
    OBVIOUS
  <2>2. IsFiniteSet({} \cup {"in1"})
    BY FS_EmptySet, FS_AddElement
  <2>3. IsFiniteSet(({} \cup {"in1"}) \cup {"in2"})
    BY <2>2, FS_AddElement
  <2> QED BY <2>1, <2>3, FS_AddElement
<1>3. IsFiniteSet(Transfer)
  BY <1>1, <1>2, FS_Product DEF Transfer
<1> QED BY <1>3, FS_Subset DEF TypeOK

LEMMA DropStep == DeviceInv /\ Teardown => DeviceInv'
<1> SUFFICES ASSUME DeviceInv, Teardown PROVE DeviceInv'
  OBVIOUS
<1> USE SlotsAssumption DEF Slot
<1>1. CASE Discard \/ ReapedAll
  <2>1. /\ UNCHANGED <<plugged, sent, done, driver, at, slots, claimed, pending>>
        /\ phase # "closed" /\ phase' \in {"reaping", "releasing"}
        /\ owed' \in {owed, Cardinality(pending)}
    BY <1>1 DEF Discard, ReapedAll, kernel, device
  <2>2. TypeOK' /\ Accounted'
    <3>1. Cardinality(pending) \in Nat
      BY PendingIsFinite, FS_CardinalityType DEF DeviceInv
    <3> QED BY <2>1, <3>1 DEF DeviceInv, TypeOK, Accounted
  <2>3. OnceEach' /\ Agrees'
    BY <2>1, <2>2, FrameStep DEF Orphan
  <2> QED BY <2>2, <2>3 DEF DeviceInv
<1>2. CASE ReapOwed
  <2>1. /\ UNCHANGED <<plugged, sent, driver, at, slots, claimed>>
        /\ phase = "reaping" /\ phase' \in {"reaping", "releasing"} /\ owed' \in Nat
    BY <1>2 DEF ReapOwed, DeviceInv, TypeOK
  <2>2. CASE UNCHANGED <<done, pending>>
    <3>1. TypeOK' /\ Accounted'
      BY <2>1, <2>2 DEF DeviceInv, TypeOK, Accounted
    <3>2. OnceEach' /\ Agrees'
      BY <2>1, <2>2, <3>1, FrameStep DEF Orphan
    <3> QED BY <3>1, <3>2 DEF DeviceInv
  <2>3. CASE done # <<>> /\ pending' = Completed(Head(done)) /\ done' = Tail(done)
    <3>1. /\ OnceEach' /\ done' \in Seq(Transfer) /\ pending' \subseteq Transfer
          /\ pending' = pending \ {Head(done)} /\ Owned' = Owned \ {Head(done)}
      BY <2>1, <2>3, GivesBack
    <3>2. TypeOK' /\ Accounted'
      BY <2>1, <3>1 DEF DeviceInv, TypeOK, Accounted
    <3>3. Agrees'
      BY <2>1, <3>1 DEF DeviceInv, Agrees, PendingIsOwned, Orphan
    <3> QED BY <3>1, <3>2, <3>3 DEF DeviceInv
  <2> QED BY <1>2, <2>2, <2>3 DEF ReapOwed
<1>3. CASE Release
  <2> DEFINE rest == SubSeq(claimed, 1, Len(claimed) - 1)
             s == claimed[Len(claimed)]
  <2>1. /\ UNCHANGED <<plugged, sent, done, phase, at, slots, pending, owed>>
        /\ phase = "releasing" /\ claimed # <<>>
        /\ claimed' = rest /\ driver' = IF plugged THEN driver \cup {s} ELSE driver
    BY <1>3 DEF Release
  <2>2. /\ claimed \in Seq(Slot) /\ Len(claimed) \in Nat \ {0} /\ s \in Slot
        /\ rest \in Seq(Slot)
        /\ \A x \in Range(claimed) : x \in Range(rest) \/ x = s
    <3>1. claimed \in Seq(Slot) /\ Len(claimed) \in Nat \ {0} /\ s \in Slot
      BY <2>1 DEF DeviceInv, TypeOK
    <3>2. /\ rest \in Seq(Slot) /\ Len(rest) = Len(claimed) - 1
          /\ \A i \in 1..(Len(claimed) - 1) : rest[i] = claimed[i]
      BY <3>1, AllButLast
    <3>3. \A i \in 1..(Len(claimed) - 1) : rest[i] = claimed[i]
      BY <3>2
    <3>4. DOMAIN claimed = 1..Len(claimed) /\ DOMAIN rest = 1..(Len(claimed) - 1)
      BY <3>1, <3>2
    <3>5. \A i \in DOMAIN claimed : i \in DOMAIN rest \/ i = Len(claimed)
      BY <3>1, <3>4
    <3> QED BY <3>1, <3>2, <3>3, <3>4, <3>5 DEF Range
  <2>3. TypeOK'
    BY <2>1, <2>2 DEF DeviceInv, TypeOK
  <2>4. Accounted'
    BY <2>1, <2>2 DEF DeviceInv, Accounted
  <2>5. OnceEach' /\ Agrees'
    BY <2>1, <2>3, FrameStep DEF Orphan
  <2> QED BY <2>3, <2>4, <2>5 DEF DeviceInv
<1>4. CASE Close
  <2>1. Range(<<>>) = {}
    BY DEF Range
  <2>2. TypeOK' /\ OnceEach'
    BY <1>4 DEF Close, DeviceInv, TypeOK, OnceEach
  <2>3. Agrees'
    BY <1>4, <2>1 DEF Close, Agrees, PendingIsOwned, Owned
  <2>4. Accounted'
    BY <1>4 DEF Close, DeviceInv, Accounted
  <2> QED BY <2>2, <2>3, <2>4 DEF DeviceInv
<1> QED BY <1>1, <1>2, <1>3, <1>4 DEF Teardown

LEMMA DeviceStep == DeviceInv /\ [Next]_vars => DeviceInv'
<1> SUFFICES ASSUME DeviceInv, [Next]_vars PROVE DeviceInv'
  OBVIOUS
<1>1. CASE UNCHANGED vars
  BY <1>1 DEF vars, kernel, device, DeviceInv, TypeOK, OnceEach, Agrees, OnlyFirst, Owned,
              PendingIsOwned, Orphan, Accounted
<1>2. CASE Next
  BY <1>2, CompleteStep, PlugStep, OpenStep, CallStep, DropStep DEF Next
<1> QED BY <1>1, <1>2

-----------------------------------------------------------------------------
(* Theorems.                                                               *)

(* The device, the kernel and what Drop counts keep their types.           *)
THEOREM TypeCorrect == Safety => []TypeOK
<1>1. DeviceInv => TypeOK
  BY DEF DeviceInv
<1> QED BY <1>1, DeviceInit, DeviceStep, PTL DEF Safety

(* For any number of interfaces, and of all transfers, those the device    *)
(* counts as pending are those the kernel still has, until the device is   *)
(* closed; the one that may be missing is the first read of a slot whose   *)
(* second could not be queued (usb.rs open, submit, complete, drop).       *)
THEOREM PendingMeansOwned == Safety => []PendingIsOwned
<1>1. DeviceInv => PendingIsOwned
  BY DEF DeviceInv, Agrees
<1> QED BY <1>1, DeviceInit, DeviceStep, PTL DEF Safety

(* However opening, using and dropping a receiver goes, its interfaces are *)
(* with the kernel's drivers again when it is closed (usb.rs claim, drop). *)
THEOREM InterfacesReturn == Safety => []InterfacesComeBack
<1>1. DeviceInv => InterfacesComeBack
  <2>1. Range(<<>>) = {}
    BY DEF Range
  <2> QED BY <2>1 DEF DeviceInv, Accounted, TypeOK, InterfacesComeBack
<1> QED BY <1>1, DeviceInit, DeviceStep, PTL DEF Safety

-----------------------------------------------------------------------------
(* DeviceManager, with as many slots as UsbTransfers has interfaces.       *)

VARIABLES present, puck, buffer, oldest, active, silent, disconnected, event
Manager == INSTANCE DeviceManager WITH SlotCount <- Slots

(* Newly queued transfers satisfy what ReceiverInv says of the queues.     *)
LEMMA FreshReceiver ==
    ASSUME buffer' = Manager!NoReports, oldest' = [s \in Manager!Slot |-> 1]
    PROVE  /\ buffer' \in [Manager!Slot -> [Manager!Transfer -> Manager!Report \cup {"queued"}]]
           /\ oldest' \in [Manager!Slot -> Manager!Transfer]
           /\ \A s \in Manager!Slot : Manager!Queued(s, 3 - oldest[s])'
<1>1. \A s \in Manager!Slot : oldest'[s] = 1 /\ 3 - oldest'[s] = 2
  OBVIOUS
<1>2. \A s \in Manager!Slot : buffer'[s][2] = "queued"
  BY DEF Manager!NoReports, Manager!Transfer
<1> QED
  BY <1>1, <1>2 DEF Manager!NoReports, Manager!Transfer, Manager!Queued

(* Every poll and every other step keeps the types and the ties between    *)
(* the receiver, the connection and the owed event.                        *)
LEMMA ReceiverStep == Manager!ReceiverInv /\ [Manager!Next]_(Manager!vars) => Manager!ReceiverInv'
<1> USE DEF Manager!Slot, Manager!NoSlot, Manager!Transfer, Manager!Report
<1> SUFFICES ASSUME Manager!ReceiverInv, [Manager!Next]_(Manager!vars) PROVE Manager!ReceiverInv'
  OBVIOUS
<1> USE SlotsAssumption DEF Manager!ReceiverInv, Manager!TypeOK
<1>1. CASE Manager!Switch
  BY <1>1 DEF Manager!Switch, Manager!Queued
<1>2. CASE Manager!Fill
  <2>1. PICK s \in Manager!Slot, r \in Manager!Report :
            /\ Manager!Queued(s, Manager!Head(s))
            /\ buffer' = [buffer EXCEPT ![s][Manager!Head(s)] = r]
    BY <1>2 DEF Manager!Fill
  <2>2. Manager!Head(s) \in Manager!Transfer
    BY DEF Manager!Head
  <2>3. buffer' \in [Manager!Slot -> [Manager!Transfer -> Manager!Report \cup {"queued"}]]
    BY <2>1, <2>2
  <2>4. ASSUME NEW u \in Manager!Slot, buffer'[u][oldest[u]] = "queued"
        PROVE  buffer'[u][3 - oldest[u]] = "queued"
    <3>1. CASE u # s
      BY <2>1, <2>4, <3>1 DEF Manager!Queued
    <3>2. CASE u = s /\ Manager!Head(s) = oldest[s]
      BY <2>1, <2>2, <2>4, <3>2
    <3>3. CASE u = s /\ Manager!Head(s) # oldest[s]
      <4>1. buffer[s][oldest[s]] # "queued"
        BY <3>3 DEF Manager!Head, Manager!Queued
      <4>2. buffer'[s][oldest[s]] = buffer[s][oldest[s]]
        BY <2>1, <2>2, <3>3
      <4> QED
        BY <2>4, <3>3, <4>1, <4>2
    <3> QED
      BY <3>1, <3>2, <3>3
  <2> QED
    BY <1>2, <2>3, <2>4 DEF Manager!Fill, Manager!Queued
<1>3. CASE Manager!Tick
  BY <1>3 DEF Manager!Tick, Manager!Queued
<1>4. CASE Manager!PollOwesDisconnected
  BY <1>4 DEF Manager!PollOwesDisconnected, Manager!Queued
<1>5. CASE Manager!PollTimesOut
  BY <1>5 DEF Manager!PollTimesOut, Manager!TimedOut, Manager!Queued
<1>6. CASE Manager!PollScans
  BY <1>6, FreshReceiver DEF Manager!PollScans, Manager!TimedOut
<1>7. CASE Manager!PollFails
  BY <1>7, FreshReceiver DEF Manager!PollFails, Manager!Reset, Manager!TimedOut
<1>8. CASE Manager!PollQuiet
  BY <1>8 DEF Manager!PollQuiet, Manager!Queued
<1>9. ASSUME NEW s \in Manager!Slot, NEW t \in Manager!Transfer,
             ~Manager!Queued(s, t), Manager!Resubmit(s, t)
      PROVE  /\ buffer' \in [Manager!Slot -> [Manager!Transfer -> Manager!Report \cup {"queued"}]]
             /\ oldest' \in [Manager!Slot -> Manager!Transfer]
             /\ \A u \in Manager!Slot :
                   Manager!Queued(u, oldest[u])' => Manager!Queued(u, 3 - oldest[u])'
  <2>1. 3 - t \in Manager!Transfer /\ 3 - (3 - t) = t
    OBVIOUS
  <2>2. buffer' \in [Manager!Slot -> [Manager!Transfer -> Manager!Report \cup {"queued"}]]
    BY <1>9 DEF Manager!Resubmit
  <2>3. oldest' \in [Manager!Slot -> Manager!Transfer]
    BY <1>9, <2>1 DEF Manager!Resubmit
  <2>4. ASSUME NEW u \in Manager!Slot, Manager!Queued(u, oldest[u])'
        PROVE  Manager!Queued(u, 3 - oldest[u])'
    BY <1>9, <2>1, <2>4 DEF Manager!Resubmit, Manager!Queued
  <2> QED
    BY <2>2, <2>3, <2>4
<1>10. CASE Manager!PollState
  <2>1. PICK s \in Manager!Slot, t \in Manager!Transfer :
            Manager!IsNext(s, t) /\ Manager!Resubmit(s, t) /\ active' = s
    BY <1>10 DEF Manager!PollState
  <2>2. ~Manager!Queued(s, t)
    BY <2>1 DEF Manager!IsNext, Manager!Readable
  <2> QED
    BY <1>9, <1>10, <2>1, <2>2 DEF Manager!PollState, Manager!CanRead
<1>11. CASE Manager!PollCannotConfigure
  BY <1>11, FreshReceiver DEF Manager!PollCannotConfigure, Manager!Reset, Manager!CanRead
<1>12. CASE Manager!PollOther
  <2>1. PICK s \in Manager!Slot, t \in Manager!Transfer :
            /\ Manager!IsNext(s, t) /\ Manager!Resubmit(s, t)
            /\ IF buffer[s][t] = "gone" /\ active = s
                 THEN active' = Manager!NoSlot /\ silent' = FALSE /\ event' = "disconnected"
                 ELSE /\ event' = IF buffer[s][t] = "battery" /\ active = s
                                    THEN "battery" ELSE "none"
                      /\ UNCHANGED <<active, silent>>
    BY <1>12 DEF Manager!PollOther
  <2>2. ~Manager!Queued(s, t)
    BY <2>1 DEF Manager!IsNext, Manager!Readable
  <2> QED
    BY <1>9, <1>12, <2>1, <2>2 DEF Manager!PollOther, Manager!CanRead
<1>13. CASE Manager!WriteFails
  BY <1>13, FreshReceiver DEF Manager!WriteFails, Manager!Reset
<1>14. CASE UNCHANGED Manager!vars
  BY <1>14 DEF Manager!vars, Manager!Queued
<1> QED
  BY <1>1, <1>2, <1>3, <1>4, <1>5, <1>6, <1>7, <1>8, <1>10, <1>11, <1>12, <1>13, <1>14
  DEF Manager!Next, Manager!Poll

(* Before the receiver is opened nothing is connected and nothing is owed. *)
LEMMA ReceiverInit == Manager!Init => Manager!ReceiverInv
<1> SUFFICES ASSUME Manager!Init PROVE Manager!ReceiverInv
  OBVIOUS
<1>1. \A s \in Manager!Slot : oldest[s] = 1 /\ 3 - oldest[s] = 2 /\ buffer[s][2] = "queued"
  BY DEF Manager!Init, Manager!NoReports, Manager!Transfer
<1>2. Manager!TypeOK
  <2>1. buffer \in [Manager!Slot -> [Manager!Transfer -> Manager!Report \cup {"queued"}]]
    BY DEF Manager!Init, Manager!NoReports
  <2>2. oldest \in [Manager!Slot -> Manager!Transfer]
    BY DEF Manager!Init, Manager!Transfer
  <2> QED
    BY <2>1, <2>2 DEF Manager!Init, Manager!TypeOK
<1> QED
  BY <1>1, <1>2 DEF Manager!Init, Manager!ReceiverInv, Manager!Queued

(* A connection has an open receiver, and one that ended between two polls *)
(* leaves nothing connected until poll() has reported it.                  *)
THEOREM ReceiverInvariant == Manager!Spec => []Manager!ReceiverInv
<1>1. Manager!Init => Manager!ReceiverInv
  BY ReceiverInit
<1>2. Manager!ReceiverInv /\ [Manager!Next]_(Manager!vars) => Manager!ReceiverInv'
  BY ReceiverStep
<1> QED
  BY <1>1, <1>2, PTL DEF Manager!Spec, Manager!Safety

(* Every step of the manager is a step of Link or leaves it unchanged.     *)
LEMMA LinkStep ==
    Manager!ReceiverInv /\ [Manager!Next]_(Manager!vars)
    => [Manager!Connection!Next]_(Manager!Connection!vars)
<1> USE DEF Manager!Slot, Manager!NoSlot
<1> SUFFICES ASSUME Manager!ReceiverInv, [Manager!Next]_(Manager!vars)
             PROVE  [Manager!Connection!Next]_(Manager!Connection!vars)
  OBVIOUS
<1> USE SlotsAssumption DEF Manager!ReceiverInv, Manager!TypeOK,
                            Manager!Connection!Next, Manager!Connection!vars
<1>1. CASE Manager!Switch \/ Manager!Fill \/ Manager!Tick \/ UNCHANGED Manager!vars
  <2>1. UNCHANGED <<active, disconnected, event>>
    BY <1>1 DEF Manager!Switch, Manager!Fill, Manager!Tick, Manager!vars
  <2> QED
    BY ONLY <2>1 DEF Manager!Connection!vars
<1>2. CASE Manager!PollOwesDisconnected
  BY <1>2 DEF Manager!PollOwesDisconnected, Manager!Connection!Disconnect
<1>3. CASE Manager!PollTimesOut
  BY <1>3 DEF Manager!PollTimesOut, Manager!TimedOut, Manager!Connection!Disconnect
<1>4. CASE Manager!PollScans
  BY <1>4 DEF Manager!PollScans, Manager!Connection!Quiet
<1>5. CASE Manager!PollFails
  BY <1>5 DEF Manager!PollFails, Manager!Reset, Manager!Connection!Disconnect, Manager!Connection!Quiet
<1>6. CASE Manager!PollQuiet
  BY <1>6 DEF Manager!PollQuiet, Manager!Connection!Quiet
<1>7. CASE Manager!PollState
  <2>1. PICK s \in Manager!Slot, t \in Manager!Transfer : Manager!IsNext(s, t) /\ active' = s
    BY <1>7 DEF Manager!PollState
  <2>2. active \in {Manager!NoSlot, s}
    BY <2>1 DEF Manager!IsNext, Manager!Readable
  <2>3. Manager!Connection!Deliver(s)
    BY <1>7, <2>1, <2>2 DEF Manager!PollState, Manager!CanRead, Manager!Connection!Deliver
  <2> QED
    BY <2>3
<1>8. CASE Manager!PollCannotConfigure
  BY <1>8 DEF Manager!PollCannotConfigure, Manager!Reset, Manager!CanRead, Manager!Connection!Quiet
<1>9. CASE Manager!PollOther
  <2>1. PICK s \in Manager!Slot, t \in Manager!Transfer :
            IF buffer[s][t] = "gone" /\ active = s
              THEN active' = Manager!NoSlot /\ silent' = FALSE /\ event' = "disconnected"
              ELSE /\ event' = IF buffer[s][t] = "battery" /\ active = s
                                 THEN "battery" ELSE "none"
                   /\ UNCHANGED <<active, silent>>
    BY <1>9 DEF Manager!PollOther
  <2>2. ~disconnected /\ ~disconnected'
    BY <1>9 DEF Manager!PollOther, Manager!CanRead
  <2>3. CASE buffer[s][t] = "gone" /\ active = s
    BY <2>1, <2>2, <2>3 DEF Manager!Connection!Disconnect
  <2>4. CASE ~(buffer[s][t] = "gone" /\ active = s) /\ buffer[s][t] = "battery" /\ active = s
    BY <2>1, <2>2, <2>4 DEF Manager!Connection!Battery
  <2>5. CASE ~(buffer[s][t] = "gone" /\ active = s) /\ ~(buffer[s][t] = "battery" /\ active = s)
    BY <2>1, <2>2, <2>5 DEF Manager!Connection!Quiet
  <2> QED
    BY <2>3, <2>4, <2>5
<1>10. CASE Manager!WriteFails
  BY <1>10 DEF Manager!WriteFails, Manager!Reset, Manager!Connection!Lose
<1> QED
  BY <1>1, <1>2, <1>3, <1>4, <1>5, <1>6, <1>7, <1>8, <1>9, <1>10 DEF Manager!Next, Manager!Poll

(* For any number of slots, the events handed to the main loop form whole  *)
(* connections: the safety part of Sessions.                               *)
THEOREM ImplementsLink == Manager!Spec => Manager!Connection!Safety
<1>1. Manager!Init => Manager!Connection!Init
  BY DEF Manager!Init, Manager!Connection!Init, Manager!NoSlot
<1>2. Manager!ReceiverInv /\ [Manager!Next]_(Manager!vars)
      => [Manager!Connection!Next]_(Manager!Connection!vars)
  BY LinkStep
<1> QED
  BY <1>1, <1>2, ReceiverInvariant, PTL DEF Manager!Spec, Manager!Safety, Manager!Connection!Safety
=============================================================================
