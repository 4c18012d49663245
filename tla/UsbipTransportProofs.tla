------------------------ MODULE UsbipTransportProofs ------------------------
(* Proofs about UsbipTransport, for any number of requests, any rumble     *)
(* levels, any period and any number of attempts.                          *)
EXTENDS UsbipTransport, TLAPS

(* Attaching is tried again only while attempts are left.                  *)
MainInv == MainOK /\ (main = "attaching" => attempts > 0)

(* A worker that is not asleep is not ahead of its time, and a sleeping    *)
(* one has a request in its hand.                                          *)
WorkerInv ==
    /\ WorkerOK
    /\ worker # "sleeping" => ahead <= 0
    /\ worker = "sleeping" => hand \in Request

(* The worker is started when its device is attached.                      *)
Unstarted == main \in {"attaching", "attached"} => worker = "none"

TypeInv == MainInv /\ KernelOK /\ WireOK /\ WorkerInv /\ Unstarted

(* What a request is answered with has the type of a reply.                *)
LEMMA ReplyType == ASSUME NEW request \in Request PROVE ReplyTo(request) \in Reply
BY DEF ReplyTo, Request, Reply

LEMMA TypeInit == Init => TypeInv
<1> SUFFICES ASSUME Init PROVE TypeInv
  OBVIOUS
<1>1. MainInv
  BY TransportAssumption DEF Init, MainInv, MainOK
<1>2. KernelOK
  <2>1. seqnum \in 0..MaxSeq /\ wanted \in Levels
    BY TransportAssumption DEF Init
  <2>2. port \in BOOLEAN /\ outstanding \subseteq 1..MaxSeq
    BY DEF Init
  <2> QED BY <2>1, <2>2 DEF KernelOK
<1>3. WireOK
  <2>1. requests \in Seq(Request) /\ replies \in Seq(Reply)
    BY DEF Init
  <2> QED BY <2>1 DEF Init, WireOK
<1>4. 0 \in Due
  BY TransportAssumption DEF Due, Late
<1>5. WorkerInv
  <2>1. hand \in Request \cup {NoRequest} /\ rumble \in Levels /\ ahead \in Due
    BY <1>4, TransportAssumption DEF Init
  <2> QED BY <2>1 DEF Init, WorkerInv, WorkerOK
<1> QED BY <1>1, <1>2, <1>3, <1>5 DEF TypeInv, Init, Unstarted

(* The main loop's own variables.                                          *)
LEMMA MainStep == TypeInv /\ [Next]_vars => MainInv'
<1> SUFFICES ASSUME TypeInv, [Next]_vars PROVE MainInv'
  OBVIOUS
<1>1. MainInv /\ Attempts \in Nat /\ Attempts > 0 /\ 0 \in Levels /\ rumble \in Levels
  BY TransportAssumption DEF TypeInv, WorkerInv, WorkerOK
<1>2. CASE Create
  BY <1>1, <1>2 DEF Create, MainInv, MainOK
<1>3. CASE Attach
  BY <1>1, <1>3 DEF Attach, MainInv, MainOK
<1>4. CASE Spawn
  BY <1>1, <1>4 DEF Spawn, MainInv, MainOK
<1>5. CASE Poll \/ Detach
  BY <1>1, <1>5 DEF Poll, Detach, MainInv, MainOK, life
<1>6. CASE Shutdown \/ Join
  BY <1>1, <1>6 DEF Shutdown, Join, MainInv, MainOK
<1>7. CASE UNCHANGED <<life, reported>>
  BY <1>1, <1>7 DEF MainInv, MainOK, life
<1> QED BY <1>2, <1>3, <1>4, <1>5, <1>6, <1>7
        DEF Next, Worker, vars, Submit, Unlink, Receive, Release, Serve, TakeInput, Wake, EndServe, Tick

(* The kernel's.                                                           *)
LEMMA KernelStep == TypeInv /\ [Next]_vars => KernelOK'
<1> SUFFICES ASSUME TypeInv, [Next]_vars PROVE KernelOK'
  OBVIOUS
<1>1. KernelOK /\ MaxSeq \in Nat /\ 0 \in Levels
  BY TransportAssumption DEF TypeInv
<1>2. CASE Create \/ Attach \/ Spawn
  <2>1. seqnum' \in 0..MaxSeq /\ wanted' \in Levels
    BY <1>1, <1>2 DEF Create, Attach, Spawn, KernelOK
  <2>2. port' \in BOOLEAN /\ outstanding' = outstanding
    BY <1>1, <1>2 DEF Create, Attach, Spawn, KernelOK
  <2> QED BY <1>1, <2>1, <2>2 DEF KernelOK
<1>3. CASE Submit
  BY <1>1, <1>3 DEF Submit, KernelOK
<1>4. CASE Unlink
  BY <1>1, <1>4 DEF Unlink, KernelOK
<1>5. CASE Receive \/ Release
  BY <1>1, <1>5 DEF Receive, Release, KernelOK
<1>6. CASE UNCHANGED kernel
  BY <1>1, <1>6 DEF KernelOK, kernel
<1> QED BY <1>2, <1>3, <1>4, <1>5, <1>6
        DEF Next, Worker, vars, Poll, Detach, Shutdown, Join, Serve, TakeInput, Wake, EndServe, Tick

(* What is put on the wire.                                                *)
LEMMA WireStep == TypeInv /\ [Next]_vars => WireOK'
<1> SUFFICES ASSUME TypeInv, [Next]_vars PROVE WireOK'
  OBVIOUS
<1>1. /\ open \in BOOLEAN /\ requests \in Seq(Request) /\ replies \in Seq(Reply)
      /\ seqnum \in Nat /\ MaxSeq \in Nat /\ 0 \in Levels /\ outstanding \subseteq 1..MaxSeq
  BY TransportAssumption DEF TypeInv, WireOK, KernelOK
<1>2. CASE Create
  BY <1>2 DEF Create, WireOK
<1>3. CASE Submit
  <2>1. PICK kind \in Kinds \ {"unlink"}, level \in Levels :
          requests' = Append(requests, [seqnum |-> seqnum + 1, kind |-> kind, level |-> level, target |-> 0])
    BY <1>3 DEF Submit
  <2>2. [seqnum |-> seqnum + 1, kind |-> kind, level |-> level, target |-> 0] \in Request
    BY <1>1, <1>3 DEF Request, Submit
  <2>3. requests' \in Seq(Request)
    BY <1>1, <2>1, <2>2
  <2> QED BY <1>1, <1>3, <2>3 DEF Submit, WireOK
<1>4. CASE Unlink
  <2>1. PICK target \in outstanding :
          requests' = Append(requests, [seqnum |-> seqnum + 1, kind |-> "unlink", level |-> 0, target |-> target])
    BY <1>4 DEF Unlink
  <2>2. [seqnum |-> seqnum + 1, kind |-> "unlink", level |-> 0, target |-> target] \in Request
    BY <1>1, <1>4 DEF Request, Unlink, Kinds
  <2>3. requests' \in Seq(Request)
    BY <1>1, <2>1, <2>2
  <2> QED BY <1>1, <1>4, <2>3 DEF Unlink, WireOK
<1>5. CASE Receive
  BY <1>1, <1>5 DEF Receive, WireOK
<1>6. ASSUME NEW request \in Request, Answer(request) PROVE open' \in BOOLEAN /\ replies' \in Seq(Reply)
  BY <1>1, <1>6, ReplyType DEF Answer
<1>7. requests # <<>> => Head(requests) \in Request /\ Tail(requests) \in Seq(Request)
  BY <1>1
<1>8. CASE Serve
  BY <1>6, <1>7, <1>8 DEF Serve, WireOK
<1>9. CASE TakeInput
  BY <1>1, <1>6, <1>7, <1>9 DEF TakeInput, WireOK
<1>10. CASE Wake
  BY <1>1, <1>6, <1>10 DEF Wake, WireOK, TypeInv, WorkerInv
<1>11. CASE EndServe
  BY <1>1, <1>7, <1>11 DEF EndServe, WireOK
<1>12. CASE Attach \/ Spawn \/ Poll \/ Detach \/ Shutdown \/ Join \/ Release \/ Tick \/ UNCHANGED vars
  <2>1. UNCHANGED wire /\ open' \in BOOLEAN
    BY <1>1, <1>12 DEF Attach, Spawn, Poll, Detach, Shutdown, Join, Release, Tick, vars, wire
  <2> QED BY <1>1, <2>1 DEF wire, WireOK
<1> QED BY <1>2, <1>3, <1>4, <1>5, <1>8, <1>9, <1>10, <1>11, <1>12 DEF Next, Worker

(* The worker and its clock.                                               *)
LEMMA WorkerStep == TypeInv /\ [Next]_vars => WorkerInv'
<1> SUFFICES ASSUME TypeInv, [Next]_vars PROVE WorkerInv'
  OBVIOUS
<1>1. WorkerInv /\ Period \in Nat /\ Period > 0 /\ 0 \in Levels /\ 0 \in Due /\ ahead \in Int
  BY TransportAssumption DEF TypeInv, WorkerInv, WorkerOK, Due, Late
<1>2. requests # <<>> => Head(requests) \in Request
  BY DEF TypeInv, WireOK
<1>3. CASE Create
  <2>1. hand' = NoRequest /\ rumble' \in Levels /\ ahead' \in Due /\ ahead' <= 0 /\ worker' = "none"
    BY <1>1, <1>3 DEF Create
  <2> QED BY <2>1 DEF WorkerInv, WorkerOK
<1>11. CASE Spawn
  <2>1. UNCHANGED <<hand, ahead, rumble>> /\ (worker' = worker \/ worker' = "reading")
    BY <1>11 DEF Spawn
  <2>2. worker = "none"
    BY <1>11 DEF Spawn, TypeInv, Unstarted
  <2> QED BY <1>1, <2>1, <2>2 DEF WorkerInv, WorkerOK
<1>4. ASSUME NEW request \in Request, Answer(request) PROVE worker' \in {"reading", "finished"}
  BY <1>4 DEF Answer
<1>5. CASE Serve
  <2>1. rumble' \in Levels
    BY <1>1, <1>2, <1>5 DEF Serve, RumbleAfter, Request, WorkerInv, WorkerOK
  <2> QED BY <1>1, <1>2, <1>4, <1>5, <2>1 DEF Serve, WorkerInv, WorkerOK
<1>6. CASE TakeInput
  <2>1. ahead' \in Due /\ (ahead + Period <= 0 => ahead' <= 0)
    BY <1>1, <1>6, TransportAssumption DEF TakeInput, Paced, WorkerInv, WorkerOK, Due, Late
  <2>2. CASE ahead + Period > 0
    BY <1>1, <1>2, <1>6, <2>1, <2>2 DEF TakeInput, WorkerInv, WorkerOK
  <2>3. CASE ~(ahead + Period > 0)
    <3>1. ahead' <= 0
      BY <1>1, <2>1, <2>3
    <3> QED BY <1>1, <1>2, <1>4, <1>6, <2>1, <2>3, <3>1 DEF TakeInput, WorkerInv, WorkerOK
  <2> QED BY <2>2, <2>3
<1>7. CASE Wake
  BY <1>1, <1>4, <1>7 DEF Wake, WorkerInv, WorkerOK
<1>8. CASE EndServe
  BY <1>1, <1>8 DEF EndServe, WorkerInv, WorkerOK
<1>9. CASE Tick
  <2>1. ahead' \in Due /\ (ahead <= 0 => ahead' <= 0)
    BY <1>1, <1>9, TransportAssumption DEF Tick, WorkerInv, WorkerOK, Due, Late
  <2> QED BY <1>1, <1>9, <2>1 DEF Tick, WorkerInv, WorkerOK
<1>10. CASE UNCHANGED <<worker, hand, ahead, rumble>>
  BY <1>1, <1>10 DEF WorkerInv, WorkerOK
<1> QED BY <1>3, <1>5, <1>6, <1>7, <1>8, <1>9, <1>10, <1>11
        DEF Next, Worker, vars, Attach, Poll, Detach, Shutdown, Join, Submit, Unlink, Receive, Release

LEMMA UnstartedStep == TypeInv /\ [Next]_vars => Unstarted'
<1> SUFFICES ASSUME TypeInv, [Next]_vars PROVE Unstarted'
  OBVIOUS
<1>1. Unstarted
  BY DEF TypeInv
<1>2. CASE Create \/ Attach \/ Spawn
  BY <1>1, <1>2 DEF Create, Attach, Spawn, Unstarted
<1>3. CASE Poll \/ Detach \/ Shutdown \/ Join
  BY <1>1, <1>3 DEF Poll, Detach, Shutdown, Join, Unstarted, life
<1>4. CASE Worker
  BY <1>1, <1>4 DEF Worker, Serve, TakeInput, Wake, EndServe, Unstarted, life
<1>5. CASE UNCHANGED <<main, worker>>
  BY <1>1, <1>5 DEF Unstarted
<1> QED BY <1>2, <1>3, <1>4, <1>5 DEF Next, vars, life, Submit, Unlink, Receive, Release, Tick

(* Every variable keeps its type: above all, the due time of the next      *)
(* input report never runs more than a period ahead (next_input).          *)
THEOREM TypeInvariant == Safety => []TypeOK
<1>1. TypeInv /\ [Next]_vars => TypeInv'
  BY MainStep, KernelStep, WireStep, WorkerStep, UnstartedStep DEF TypeInv
<1>2. TypeInv => TypeOK
  BY DEF TypeInv, TypeOK, MainInv, WorkerInv
<1> QED BY TypeInit, <1>1, <1>2, PTL DEF Safety

-----------------------------------------------------------------------------
(* Unlinking comes late.                                                   *)

Sleeping == worker = "sleeping"

(* Requests are numbered in their order, and answered in it: on the way    *)
(* back, in the worker's hand and on the way there, numbers only rise.     *)
Rising(s) == \A i, j \in DOMAIN s : i < j => s[i].seqnum < s[j].seqnum
InOrder ==
    /\ Rising(requests) /\ Rising(replies)
    /\ \A j \in DOMAIN requests : requests[j].seqnum <= seqnum
    /\ \A i \in DOMAIN replies : replies[i].seqnum <= seqnum
    /\ \A i \in DOMAIN replies, j \in DOMAIN requests : replies[i].seqnum < requests[j].seqnum
    /\ Sleeping =>
         /\ hand.seqnum <= seqnum
         /\ \A i \in DOMAIN replies : replies[i].seqnum < hand.seqnum
         /\ \A j \in DOMAIN requests : hand.seqnum < requests[j].seqnum

(* What is unlinked is older than its unlinking.                           *)
TargetsOlder ==
    /\ \A j \in DOMAIN requests : requests[j].kind = "unlink" => requests[j].target < requests[j].seqnum
    /\ \A i \in DOMAIN replies : replies[i].kind = "unlink" => replies[i].target < replies[i].seqnum
    /\ Sleeping => hand.kind = "input"
    /\ \A n \in outstanding : n <= seqnum
    /\ ~port => outstanding = {}

(* An URB that is not given back has its reply on the way back, or is not  *)
(* answered yet; as long as the worker lives it is one of its requests.    *)
Replied(n) == \E i \in DOMAIN replies : replies[i].seqnum = n /\ replies[i].kind = "submit"
Waiting(n) ==
    \/ Sleeping /\ hand.seqnum = n
    \/ \E j \in DOMAIN requests : requests[j].seqnum = n /\ requests[j].kind # "unlink"
Unanswered(n) ==
    /\ \A i \in DOMAIN replies : replies[i].seqnum < n
    /\ worker = "finished" \/ Waiting(n)
Accounted == \A n \in outstanding : Replied(n) \/ Unanswered(n)

LateInv == TypeInv /\ InOrder /\ TargetsOlder /\ Accounted

(* The elements of a sequence that grew or lost its head.                  *)
LEMMA Appended ==
    ASSUME NEW S, NEW s \in Seq(S), NEW e \in S, NEW t, t = Append(s, e)
    PROVE  /\ \A i \in DOMAIN t : (i \in DOMAIN s /\ t[i] = s[i]) \/ (i = Len(s) + 1 /\ t[i] = e)
           /\ \A i \in DOMAIN s : i \in DOMAIN t /\ t[i] = s[i] /\ i \in Nat /\ i <= Len(s)
           /\ Len(s) + 1 \in DOMAIN t /\ t[Len(s) + 1] = e /\ Len(s) \in Nat
OBVIOUS

LEMMA Tailed ==
    ASSUME NEW S, NEW s \in Seq(S), s # <<>>, NEW t, t = Tail(s)
    PROVE  /\ \A i \in DOMAIN t : i \in Nat /\ i >= 1 /\ i + 1 \in DOMAIN s /\ t[i] = s[i + 1]
           /\ \A i \in DOMAIN s : i \in Nat /\ i >= 1 /\ (i # 1 => i - 1 \in DOMAIN t /\ t[i - 1] = s[i])
           /\ 1 \in DOMAIN s /\ s[1] = Head(s)
OBVIOUS

LEMMA RisingAppended ==
    ASSUME NEW S, NEW s \in Seq(S), NEW e \in S, Rising(s), \A i \in DOMAIN s : s[i].seqnum < e.seqnum
    PROVE  Rising(Append(s, e))
<1> DEFINE t == Append(s, e)
<1>1. /\ \A i \in DOMAIN t : (i \in DOMAIN s /\ t[i] = s[i]) \/ (i = Len(s) + 1 /\ t[i] = e)
      /\ \A i \in DOMAIN s : i \in Nat /\ i <= Len(s)
      /\ Len(s) \in Nat
  BY Appended
<1> HIDE DEF t
<1>2. Rising(t)
  BY <1>1 DEF Rising
<1> QED BY <1>2 DEF t

LEMMA RisingTailed ==
    ASSUME NEW S, NEW s \in Seq(S), s # <<>>, Rising(s)
    PROVE  /\ Rising(Tail(s))
           /\ \A i \in DOMAIN Tail(s) : Head(s).seqnum < Tail(s)[i].seqnum
<1> DEFINE t == Tail(s)
<1>1. /\ \A i \in DOMAIN t : i \in Nat /\ i >= 1 /\ i + 1 \in DOMAIN s /\ t[i] = s[i + 1]
      /\ 1 \in DOMAIN s /\ s[1] = Head(s)
      /\ \A i \in DOMAIN s : i \in Nat /\ i >= 1
  BY Tailed
<1> HIDE DEF t
<1>2. Rising(t)
  BY <1>1 DEF Rising
<1>3. \A i \in DOMAIN t : 1 < i + 1 /\ s[1].seqnum < s[i + 1].seqnum
  BY <1>1 DEF Rising
<1> QED BY <1>1, <1>2, <1>3 DEF t

(* Steps that leave the wire, the kernel's books and a sleeper alone.      *)
LEMMA FrameStep ==
    ASSUME LateInv, UNCHANGED <<requests, replies, seqnum, outstanding, hand>>,
           Sleeping' = Sleeping, worker = "finished" => worker' = "finished", port => port'
    PROVE  InOrder' /\ TargetsOlder' /\ Accounted'
<1>1. InOrder'
  BY DEF LateInv, InOrder, Rising
<1>2. TargetsOlder'
  BY DEF LateInv, TargetsOlder, TypeInv, KernelOK
<1>3. Accounted'
  BY DEF LateInv, Accounted, Replied, Unanswered, Waiting
<1> QED BY <1>1, <1>2, <1>3

(* A new device.                                                           *)
LEMMA CreateStep == LateInv /\ Create => InOrder' /\ TargetsOlder' /\ Accounted'
<1> SUFFICES ASSUME LateInv, Create PROVE InOrder' /\ TargetsOlder' /\ Accounted'
  OBVIOUS
<1>1. requests' = <<>> /\ replies' = <<>> /\ outstanding' = {} /\ ~Sleeping'
  BY DEF LateInv, TargetsOlder, Create, Sleeping
<1>2. InOrder'
  BY <1>1 DEF InOrder, Rising
<1> QED BY <1>1, <1>2 DEF TargetsOlder, Accounted

(* A request is made: it has the highest number.                           *)
LEMMA RequestStep ==
    ASSUME LateInv, NEW r, r.seqnum = seqnum + 1, requests' = Append(requests, r), requests' \in Seq(Request),
           seqnum' = seqnum + 1, port, port', r \in Request,
           \/ r.kind # "unlink" /\ outstanding' = outstanding \cup {seqnum + 1}
           \/ r.kind = "unlink" /\ r.target \in outstanding /\ outstanding' = outstanding,
           UNCHANGED <<replies, worker, hand>>
    PROVE  InOrder' /\ TargetsOlder' /\ Accounted'
<1> DEFINE t == requests' n == Len(requests) + 1
<1>1. /\ \A i \in DOMAIN t : (i \in DOMAIN requests /\ t[i] = requests[i]) \/ (i = n /\ t[i] = r)
      /\ \A i \in DOMAIN requests : i \in DOMAIN t /\ t[i] = requests[i]
      /\ n \in DOMAIN t /\ t[n] = r
  BY Appended DEF LateInv, TypeInv, WireOK
<1>2. /\ seqnum \in Nat /\ \A i \in DOMAIN requests : requests[i].seqnum <= seqnum /\ requests[i].seqnum \in Nat
      /\ \A i \in DOMAIN replies : replies[i].seqnum <= seqnum /\ replies[i].seqnum \in Nat
      /\ Sleeping => hand.seqnum <= seqnum /\ hand.seqnum \in Nat
      /\ \A m \in outstanding : m \in Nat /\ m <= seqnum
  <2>1. \A i \in DOMAIN requests : requests[i] \in Request
    BY DEF LateInv, TypeInv, WireOK
  <2>2. \A i \in DOMAIN replies : replies[i] \in Reply
    BY DEF LateInv, TypeInv, WireOK
  <2>3. Sleeping => hand \in Request
    BY DEF LateInv, TypeInv, WorkerInv, Sleeping
  <2> QED BY <2>1, <2>2, <2>3 DEF LateInv, InOrder, TargetsOlder, TypeInv, KernelOK, Request, Reply
<1>3. Rising(requests')
  BY <1>2, RisingAppended DEF LateInv, InOrder, TypeInv, WireOK
<1>4. Sleeping' = Sleeping
  BY DEF Sleeping
<1> HIDE DEF t, n
<1>5. InOrder'
  <2>1. /\ Rising(replies)'
        /\ \A j \in DOMAIN t : t[j].seqnum <= seqnum'
        /\ \A i \in DOMAIN replies : replies[i].seqnum <= seqnum'
    BY <1>1, <1>2 DEF LateInv, InOrder, Rising
  <2>2. \A i \in DOMAIN replies, j \in DOMAIN t : replies[i].seqnum < t[j].seqnum
    BY <1>1, <1>2 DEF LateInv, InOrder
  <2>3. Sleeping => /\ hand.seqnum <= seqnum'
                    /\ \A i \in DOMAIN replies : replies[i].seqnum < hand.seqnum
                    /\ \A j \in DOMAIN t : hand.seqnum < t[j].seqnum
    BY <1>1, <1>2 DEF LateInv, InOrder
  <2> QED BY <1>3, <1>4, <2>1, <2>2, <2>3 DEF InOrder, t
<1>6. TargetsOlder'
  <2>1. \A j \in DOMAIN t : t[j].kind = "unlink" => t[j].target < t[j].seqnum
    BY <1>1, <1>2 DEF LateInv, TargetsOlder
  <2>2. \A m \in outstanding' : m <= seqnum'
    BY <1>2
  <2> QED BY <1>4, <2>1, <2>2 DEF LateInv, TargetsOlder, t
<1>7. ASSUME NEW m \in outstanding' PROVE Replied(m)' \/ Unanswered(m)'
  <2>1. CASE m \in outstanding
    <3>1. Waiting(m) => Waiting(m)'
      BY <1>1, <1>4 DEF Waiting, t
    <3> QED BY <2>1, <3>1 DEF LateInv, Accounted, Replied, Unanswered
  <2>2. CASE m = seqnum + 1 /\ r.kind # "unlink"
    <3>1. Waiting(m)'
      BY <1>1, <2>2 DEF Waiting, t
    <3>2. \A i \in DOMAIN replies : replies[i].seqnum < m
      BY <1>2, <2>2
    <3> QED BY <3>1, <3>2 DEF Unanswered
  <2> QED BY <1>7, <2>1, <2>2
<1> QED BY <1>5, <1>6, <1>7 DEF Accounted

(* A reply is read, and gives back what it is for.                         *)
LEMMA ReceiveStep == LateInv /\ Receive => InOrder' /\ TargetsOlder' /\ Accounted'
<1> SUFFICES ASSUME LateInv, Receive PROVE InOrder' /\ TargetsOlder' /\ Accounted'
  OBVIOUS
<1> DEFINE t == replies' h == replies[1]
<1>1. /\ \A i \in DOMAIN t : i \in Nat /\ i >= 1 /\ i + 1 \in DOMAIN replies /\ t[i] = replies[i + 1]
      /\ \A i \in DOMAIN replies : i \in Nat /\ i >= 1 /\ (i # 1 => i - 1 \in DOMAIN t /\ t[i - 1] = replies[i])
      /\ 1 \in DOMAIN replies /\ h = Head(replies)
  BY Tailed DEF Receive, LateInv, TypeInv, WireOK
<1>2. /\ UNCHANGED <<requests, seqnum, worker, hand, port>> /\ port
      /\ outstanding' = outstanding \ {IF h.kind = "unlink" THEN h.target ELSE h.seqnum}
  BY <1>1 DEF Receive
<1>3. h \in Reply
  BY <1>1 DEF LateInv, TypeInv, WireOK
<1>4. Rising(replies')
  BY RisingTailed DEF Receive, LateInv, InOrder, TypeInv, WireOK
<1>5. Sleeping' = Sleeping
  BY <1>2 DEF Sleeping
<1> HIDE DEF t, h
<1>6. InOrder'
  <2>1. /\ Rising(requests)'
        /\ \A i \in DOMAIN t : t[i].seqnum <= seqnum
        /\ \A i \in DOMAIN t, j \in DOMAIN requests : t[i].seqnum < requests[j].seqnum
        /\ Sleeping => \A i \in DOMAIN t : t[i].seqnum < hand.seqnum
    BY <1>1, <1>2 DEF LateInv, InOrder, Rising
  <2> QED BY <1>2, <1>4, <1>5, <2>1 DEF LateInv, InOrder, t
<1>7. TargetsOlder'
  <2>1. \A i \in DOMAIN t : t[i].kind = "unlink" => t[i].target < t[i].seqnum
    BY <1>1 DEF LateInv, TargetsOlder
  <2> QED BY <1>2, <1>5, <2>1 DEF LateInv, TargetsOlder, t
<1>8. ASSUME NEW m \in outstanding' PROVE Replied(m)' \/ Unanswered(m)'
  <2>1. m \in outstanding /\ ~(h.kind = "submit" /\ h.seqnum = m)
    BY <1>2, <1>8
  <2>2. CASE Replied(m)
    <3>1. PICK i \in DOMAIN replies : replies[i].seqnum = m /\ replies[i].kind = "submit"
      BY <2>2 DEF Replied
    <3>2. i # 1
      BY <2>1, <3>1 DEF h
    <3> QED BY <1>1, <3>1, <3>2 DEF Replied, t
  <2>3. CASE Unanswered(m)
    <3>1. Waiting(m) => Waiting(m)'
      BY <1>2, <1>5 DEF Waiting
    <3>2. \A i \in DOMAIN t : t[i].seqnum < m
      BY <1>1, <2>3 DEF Unanswered
    <3> QED BY <1>2, <2>3, <3>1, <3>2 DEF Unanswered, t
  <2> QED BY <2>1, <2>2, <2>3 DEF LateInv, Accounted
<1> QED BY <1>6, <1>7, <1>8 DEF Accounted

(* The kernel gives everything back at the end of the stream.              *)
LEMMA ReleaseStep == LateInv /\ Release => InOrder' /\ TargetsOlder' /\ Accounted'
<1> SUFFICES ASSUME LateInv, Release PROVE InOrder' /\ TargetsOlder' /\ Accounted'
  OBVIOUS
<1>1. UNCHANGED <<requests, replies, seqnum, worker, hand>> /\ outstanding' = {}
  BY DEF Release, wire
<1>2. InOrder'
  BY <1>1 DEF LateInv, InOrder, Rising, Sleeping
<1>3. TargetsOlder'
  BY <1>1 DEF LateInv, TargetsOlder, Sleeping
<1> QED BY <1>1, <1>2, <1>3 DEF Accounted

(* Losing the first request loses no order.                                *)
LEMMA RequestTaken ==
    ASSUME LateInv, requests # <<>>, requests' = Tail(requests)
    PROVE  /\ Rising(requests)' /\ Head(requests) \in Request
           /\ \A j \in DOMAIN requests' :
                /\ requests'[j].seqnum <= seqnum
                /\ Head(requests).seqnum < requests'[j].seqnum
                /\ \A i \in DOMAIN replies : replies[i].seqnum < requests'[j].seqnum
                /\ Sleeping => hand.seqnum < requests'[j].seqnum
                /\ requests'[j].kind = "unlink" => requests'[j].target < requests'[j].seqnum
           /\ Head(requests).seqnum <= seqnum
           /\ \A i \in DOMAIN replies : replies[i].seqnum < Head(requests).seqnum
           /\ Sleeping => hand.seqnum < Head(requests).seqnum
           /\ Head(requests).kind = "unlink" => Head(requests).target < Head(requests).seqnum
           /\ \A j \in DOMAIN requests :
                requests[j] = Head(requests) \/ \E i \in DOMAIN requests' : requests'[i] = requests[j]
<1>1. requests \in Seq(Request) /\ Rising(requests)
  BY DEF LateInv, TypeInv, WireOK, InOrder
<1>2. /\ Rising(requests') /\ \A j \in DOMAIN requests' : Head(requests).seqnum < requests'[j].seqnum
  BY <1>1, RisingTailed
<1>3. /\ \A j \in DOMAIN requests' : j + 1 \in DOMAIN requests /\ requests'[j] = requests[j + 1]
      /\ \A j \in DOMAIN requests : j # 1 => j - 1 \in DOMAIN requests' /\ requests'[j - 1] = requests[j]
      /\ 1 \in DOMAIN requests /\ requests[1] = Head(requests)
  BY <1>1, Tailed
<1>4. Head(requests) \in Request
  BY <1>1
<1>5. ASSUME NEW j \in DOMAIN requests
      PROVE  requests[j] = Head(requests) \/ \E i \in DOMAIN requests' : requests'[i] = requests[j]
  BY <1>3
<1>6. \A j \in DOMAIN requests' : \E i \in DOMAIN requests : requests'[j] = requests[i]
  BY <1>3
<1>7. \A j \in DOMAIN requests :
        /\ requests[j].seqnum <= seqnum
        /\ \A i \in DOMAIN replies : replies[i].seqnum < requests[j].seqnum
        /\ Sleeping => hand.seqnum < requests[j].seqnum
        /\ requests[j].kind = "unlink" => requests[j].target < requests[j].seqnum
  BY DEF LateInv, InOrder, TargetsOlder
<1>8. \A j \in DOMAIN requests' :
        /\ requests'[j].seqnum <= seqnum
        /\ \A i \in DOMAIN replies : replies[i].seqnum < requests'[j].seqnum
        /\ Sleeping => hand.seqnum < requests'[j].seqnum
        /\ requests'[j].kind = "unlink" => requests'[j].target < requests'[j].seqnum
  BY <1>6, <1>7
<1>9. /\ Head(requests).seqnum <= seqnum
      /\ \A i \in DOMAIN replies : replies[i].seqnum < Head(requests).seqnum
      /\ Sleeping => hand.seqnum < Head(requests).seqnum
      /\ Head(requests).kind = "unlink" => Head(requests).target < Head(requests).seqnum
  BY <1>3, <1>7
<1>10. Rising(requests)'
  BY <1>2 DEF Rising
<1> QED BY <1>2, <1>4, <1>5, <1>8, <1>9, <1>10

(* The worker ends, with the request it has just read or without one.      *)
LEMMA FinishStep ==
    ASSUME LateInv, worker' = "finished", UNCHANGED <<replies, seqnum, outstanding, port>>,
           requests' = requests \/ (requests # <<>> /\ requests' = Tail(requests))
    PROVE  InOrder' /\ TargetsOlder' /\ Accounted'
<1>1. ~Sleeping'
  BY DEF Sleeping
<1>2. /\ Rising(requests')
      /\ \A j \in DOMAIN requests' :
           /\ requests'[j].seqnum <= seqnum
           /\ \A i \in DOMAIN replies : replies[i].seqnum < requests'[j].seqnum
           /\ requests'[j].kind = "unlink" => requests'[j].target < requests'[j].seqnum
  <2>1. CASE requests' = requests
    BY <2>1 DEF LateInv, InOrder, TargetsOlder, Rising
  <2>2. CASE requests # <<>> /\ requests' = Tail(requests)
    BY <2>2, RequestTaken
  <2> QED BY <2>1, <2>2
<1>3. InOrder'
  BY <1>1, <1>2 DEF LateInv, InOrder, Rising
<1>4. TargetsOlder'
  BY <1>1, <1>2 DEF LateInv, TargetsOlder
<1>5. Accounted'
  BY DEF LateInv, Accounted, Replied, Unanswered
<1> QED BY <1>3, <1>4, <1>5

(* The worker keeps an input request until its time comes.                 *)
LEMMA SleepStep ==
    ASSUME LateInv, ~Sleeping, worker # "finished", requests # <<>>, requests' = Tail(requests),
           worker' = "sleeping", hand' = Head(requests), hand'.kind = "input",
           UNCHANGED <<replies, seqnum, outstanding, port>>
    PROVE  InOrder' /\ TargetsOlder' /\ Accounted'
<1>1. Sleeping'
  BY DEF Sleeping
<1>2. InOrder'
  BY RequestTaken DEF LateInv, InOrder, Rising
<1>3. TargetsOlder'
  BY RequestTaken DEF LateInv, TargetsOlder
<1>4. ASSUME NEW m \in outstanding' PROVE Replied(m)' \/ Unanswered(m)'
  <2>1. Waiting(m) => Waiting(m)'
    BY <1>1, RequestTaken DEF Waiting
  <2> QED BY <1>4, <2>1 DEF LateInv, Accounted, Replied, Unanswered
<1> QED BY <1>2, <1>3, <1>4 DEF Accounted

(* A request is answered: the oldest that was not.                         *)
LEMMA AnswerStep ==
    ASSUME LateInv, NEW r \in Request, worker' = "reading",
           replies' = Append(replies, ReplyTo(r)), UNCHANGED <<seqnum, outstanding, port>>,
           worker # "finished",
           \/ ~Sleeping /\ requests # <<>> /\ requests' = Tail(requests) /\ r = Head(requests)
           \/ Sleeping /\ requests' = requests /\ r = hand
    PROVE  InOrder' /\ TargetsOlder' /\ Accounted'
<1> DEFINE t == replies' n == Len(replies) + 1 e == ReplyTo(r)
<1>1. /\ e \in Reply /\ e.seqnum = r.seqnum /\ e.target = r.target
      /\ r.kind = "unlink" => e.kind = "unlink"
      /\ r.kind # "unlink" => e.kind = "submit"
  BY ReplyType DEF ReplyTo
<1>2. /\ \A i \in DOMAIN t : (i \in DOMAIN replies /\ t[i] = replies[i]) \/ (i = n /\ t[i] = e)
      /\ \A i \in DOMAIN replies : i \in DOMAIN t /\ t[i] = replies[i]
      /\ n \in DOMAIN t /\ t[n] = e
  BY <1>1, Appended DEF LateInv, TypeInv, WireOK
<1>3. /\ r.seqnum <= seqnum
      /\ r.kind = "unlink" => r.target < r.seqnum
      /\ \A i \in DOMAIN replies : replies[i].seqnum < r.seqnum
      /\ Rising(requests')
      /\ \A j \in DOMAIN requests' :
           /\ requests'[j].seqnum <= seqnum
           /\ r.seqnum < requests'[j].seqnum
           /\ \A i \in DOMAIN replies : replies[i].seqnum < requests'[j].seqnum
           /\ requests'[j].kind = "unlink" => requests'[j].target < requests'[j].seqnum
  <2>1. CASE ~Sleeping /\ requests # <<>> /\ requests' = Tail(requests) /\ r = Head(requests)
    BY <2>1, RequestTaken
  <2>2. CASE Sleeping /\ requests' = requests /\ r = hand
    BY <2>2 DEF LateInv, InOrder, TargetsOlder, Rising
  <2> QED BY <2>1, <2>2
<1>4. Rising(replies')
  BY <1>1, <1>3, RisingAppended DEF LateInv, InOrder, TypeInv, WireOK
<1>5. ~Sleeping'
  BY DEF Sleeping
<1> HIDE DEF t, n, e
<1>6. InOrder'
  <2>1. /\ \A i \in DOMAIN t : t[i].seqnum <= seqnum
        /\ \A i \in DOMAIN t, j \in DOMAIN requests' : t[i].seqnum < requests'[j].seqnum
    BY <1>1, <1>2, <1>3 DEF LateInv, InOrder
  <2> QED BY <1>3, <1>4, <1>5, <2>1 DEF InOrder, t
<1>7. TargetsOlder'
  <2>1. \A i \in DOMAIN t : t[i].kind = "unlink" => t[i].target < t[i].seqnum
    BY <1>1, <1>2, <1>3 DEF LateInv, TargetsOlder, Reply
  <2> QED BY <1>3, <1>5, <2>1 DEF LateInv, TargetsOlder, t
<1>8. ASSUME NEW m \in outstanding' PROVE Replied(m)' \/ Unanswered(m)'
  <2>1. CASE Replied(m)
    BY <1>2, <2>1 DEF Replied, t
  <2>2. CASE Unanswered(m)
    <3>1. Waiting(m)
      BY <2>2 DEF Unanswered
    <3>2. CASE m = r.seqnum /\ r.kind # "unlink"
      <4>1. t[n].seqnum = m /\ t[n].kind = "submit"
        BY <1>1, <1>2, <3>2
      <4> QED BY <1>2, <4>1 DEF Replied, t
    <3>3. CASE \E j \in DOMAIN requests' : requests'[j].seqnum = m /\ requests'[j].kind # "unlink"
      <4>1. Waiting(m)'
        BY <3>3 DEF Waiting
      <4>2. \A i \in DOMAIN t : t[i].seqnum < m
        BY <1>1, <1>2, <1>3, <3>3
      <4> QED BY <4>1, <4>2 DEF Unanswered, t
    <3>4. CASE ~Sleeping /\ requests # <<>> /\ requests' = Tail(requests) /\ r = Head(requests)
      <4>1. PICK j \in DOMAIN requests : requests[j].seqnum = m /\ requests[j].kind # "unlink"
        BY <3>1, <3>4 DEF Waiting
      <4> QED BY <3>2, <3>3, <3>4, <4>1, RequestTaken
    <3>5. CASE Sleeping /\ requests' = requests /\ r = hand
      <4>1. hand.kind = "input"
        BY <3>5 DEF LateInv, TargetsOlder
      <4> QED BY <3>1, <3>2, <3>3, <3>5, <4>1 DEF Waiting
    <3> QED BY <3>4, <3>5
  <2> QED BY <1>8, <2>1, <2>2 DEF LateInv, Accounted
<1> QED BY <1>6, <1>7, <1>8 DEF Accounted

(* Every step is one of these.                                             *)
LEMMA LateStep == LateInv /\ [Next]_vars => LateInv'
<1> SUFFICES ASSUME LateInv, [Next]_vars PROVE LateInv'
  OBVIOUS
<1>1. TypeInv'
  BY MainStep, KernelStep, WireStep, WorkerStep, UnstartedStep DEF LateInv, TypeInv
<1> SUFFICES InOrder' /\ TargetsOlder' /\ Accounted'
  BY <1>1 DEF LateInv
<1>2. TypeInv
  BY DEF LateInv
<1>3. CASE Attach \/ Poll \/ Detach \/ Shutdown \/ Join \/ Tick \/ UNCHANGED vars
  <2>1. UNCHANGED <<requests, replies, seqnum, outstanding, hand, worker>>
    BY <1>3 DEF Attach, Poll, Detach, Shutdown, Join, Tick, vars, kernel, wire
  <2>2. CASE Attach
    <3>1. port => port'
      BY <2>2 DEF Attach
    <3> QED BY <2>1, <3>1, FrameStep DEF Sleeping
  <2>3. CASE ~Attach
    <3>1. port' = port
      BY <1>3, <2>3 DEF Poll, Detach, Shutdown, Join, Tick, vars, kernel
    <3> QED BY <2>1, <3>1, FrameStep DEF Sleeping
  <2> QED BY <2>2, <2>3
<1>4. CASE Spawn
  <2>1. /\ UNCHANGED <<requests, replies, seqnum, outstanding, hand, port>>
        /\ worker = "none" /\ worker' \in {"none", "reading"}
    BY <1>2, <1>4 DEF Spawn, wire, TypeInv, Unstarted
  <2> QED BY <2>1, FrameStep DEF Sleeping
<1>5. CASE Submit
  <2>1. PICK kind \in Kinds \ {"unlink"}, level \in Levels :
          requests' = Append(requests, [seqnum |-> seqnum + 1, kind |-> kind, level |-> level, target |-> 0])
    BY <1>5 DEF Submit
  <2> DEFINE r == [seqnum |-> seqnum + 1, kind |-> kind, level |-> level, target |-> 0]
  <2>2. r \in Request /\ r.seqnum = seqnum + 1 /\ r.kind # "unlink"
    BY <1>2, <1>5, TransportAssumption DEF Submit, Request, TypeInv, KernelOK
  <2>3. /\ seqnum' = seqnum + 1 /\ port /\ port' /\ outstanding' = outstanding \cup {seqnum + 1}
        /\ UNCHANGED <<replies, worker, hand>>
    BY <1>5 DEF Submit
  <2>4. requests' = Append(requests, r) /\ requests' \in Seq(Request)
    BY <1>1, <2>1 DEF TypeInv, WireOK
  <2> HIDE DEF r
  <2> QED BY <2>2, <2>3, <2>4, RequestStep
<1>6. CASE Unlink
  <2>1. PICK target \in outstanding :
          requests' = Append(requests, [seqnum |-> seqnum + 1, kind |-> "unlink", level |-> 0, target |-> target])
    BY <1>6 DEF Unlink
  <2> DEFINE r == [seqnum |-> seqnum + 1, kind |-> "unlink", level |-> 0, target |-> target]
  <2>2. r \in Request /\ r.seqnum = seqnum + 1 /\ r.kind = "unlink" /\ r.target \in outstanding
    BY <1>2, <1>6, <2>1, TransportAssumption DEF Unlink, Request, Kinds, TypeInv, KernelOK
  <2>3. seqnum' = seqnum + 1 /\ port /\ port' /\ UNCHANGED <<outstanding, replies, worker, hand>>
    BY <1>6 DEF Unlink
  <2>4. requests' = Append(requests, r) /\ requests' \in Seq(Request)
    BY <1>1, <2>1 DEF TypeInv, WireOK
  <2> HIDE DEF r
  <2> QED BY <2>2, <2>3, <2>4, RequestStep
<1>7. ASSUME NEW r \in Request, Answer(r), worker \in {"reading", "sleeping"},
             UNCHANGED <<seqnum, outstanding, port>>,
             \/ ~Sleeping /\ requests # <<>> /\ requests' = Tail(requests) /\ r = Head(requests)
             \/ Sleeping /\ requests' = requests /\ r = hand
      PROVE  InOrder' /\ TargetsOlder' /\ Accounted'
  <2>1. CASE open
    <3>1. replies' = Append(replies, ReplyTo(r)) /\ worker' = "reading"
      BY <1>7, <2>1 DEF Answer
    <3> QED BY <1>7, <3>1, AnswerStep
  <2>2. CASE ~open
    <3>1. replies' = replies /\ worker' = "finished"
      BY <1>7, <2>2 DEF Answer
    <3> QED BY <1>7, <3>1, FinishStep
  <2> QED BY <2>1, <2>2
<1>8. requests # <<>> => Head(requests) \in Request
  BY <1>2 DEF TypeInv, WireOK
<1>9. CASE Serve
  BY <1>7, <1>8, <1>9 DEF Serve, Sleeping, kernel
<1>10. CASE TakeInput
  <2>1. CASE ahead + Period > 0
    BY <1>10, <2>1, SleepStep DEF TakeInput, Sleeping, kernel
  <2>2. CASE ~(ahead + Period > 0)
    BY <1>7, <1>8, <1>10, <2>2 DEF TakeInput, Sleeping, kernel
  <2> QED BY <2>1, <2>2
<1>11. CASE Wake
  <2>1. hand \in Request
    BY <1>2, <1>11 DEF Wake, TypeInv, WorkerInv
  <2> QED BY <1>7, <1>11, <2>1 DEF Wake, Sleeping, kernel
<1>12. CASE EndServe
  BY <1>12, FinishStep DEF EndServe, kernel
<1> QED BY <1>3, <1>4, <1>5, <1>6, <1>9, <1>10, <1>11, <1>12, CreateStep, ReceiveStep, ReleaseStep
        DEF Next, Worker

(* What is reported as unlinked has been given back before: the worker     *)
(* answers in order, and an unlinking is younger than what it is for.      *)
THEOREM UnlinkIsLate == Safety => UnlinkComesLate
<1>1. Init => LateInv
  <2> SUFFICES ASSUME Init PROVE LateInv
    OBVIOUS
  <2>1. requests = <<>> /\ replies = <<>> /\ outstanding = {} /\ ~Sleeping
    BY DEF Init, Sleeping
  <2>2. InOrder /\ TargetsOlder /\ Accounted
    BY <2>1 DEF InOrder, TargetsOlder, Accounted, Rising
  <2> QED BY <2>2, TypeInit DEF LateInv
<1>2. LateInv => (Receive /\ Head(replies).kind = "unlink" => Head(replies).target \notin outstanding)
  <2> SUFFICES ASSUME LateInv, Receive, Head(replies).kind = "unlink", Head(replies).target \in outstanding
               PROVE  FALSE
    OBVIOUS
  <2> DEFINE n == Head(replies).target
  <2>1. replies \in Seq(Reply) /\ replies # <<>> /\ Rising(replies)
    BY DEF Receive, LateInv, TypeInv, WireOK, InOrder
  <2>2. /\ 1 \in DOMAIN replies /\ replies[1] = Head(replies) /\ replies[1] \in Reply
        /\ \A i \in DOMAIN replies : i \in Nat /\ i >= 1 /\ replies[i] \in Reply
    BY <2>1
  <2>3. n < replies[1].seqnum
    BY <2>2 DEF LateInv, TargetsOlder
  <2>4. \A i \in DOMAIN replies : replies[1].seqnum <= replies[i].seqnum
    BY <2>1, <2>2 DEF Rising, Reply
  <2>5. n \in Nat
    BY <2>2 DEF Reply
  <2>6. CASE Replied(n)
    BY <2>2, <2>3, <2>4, <2>5, <2>6 DEF Replied, Reply
  <2>7. CASE Unanswered(n)
    BY <2>2, <2>3, <2>5, <2>7 DEF Unanswered, Reply
  <2> QED BY <2>6, <2>7 DEF LateInv, Accounted
<1> QED BY <1>1, <1>2, LateStep, PTL DEF Safety, UnlinkComesLate
=============================================================================
