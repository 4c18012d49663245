--------------------------- MODULE UsbipTransport ---------------------------
(***************************************************************************)
(* The emulated DualShock 4 (gamepad/dualshock/usbip.rs): one end of a     *)
(* socket pair is attached to a port of the kernel's vhci driver, a worker *)
(* thread answers the USB requests that come through the other end, and    *)
(* the main loop shares the input report and the rumble level with it.     *)
(* The kernel and the games are external.                                  *)
(***************************************************************************)
EXTENDS Integers, Sequences

CONSTANTS
    MaxSeq,    \* bound: requests made of one device
    Levels,    \* rumble levels
    Period,    \* clock ticks in the 5 ms between two input reports
    Attempts,  \* for a free port: 8
    NoRequest

ASSUME TransportAssumption ==
    /\ MaxSeq \in Nat /\ Period \in Nat \ {0} /\ Attempts \in Nat \ {0}
    /\ 0 \in Levels

VARIABLES
    main,        \* the main loop: none, attaching, attached, running, detached, joining, failed
    attempts,    \* attempts that are left
    reported,    \* DualShock4.reported_rumble
    port,        \* the kernel holds its end of the socket on a port
    open,        \* nobody has shut the socket down
    requests,    \* USB/IP requests on their way to the worker
    replies,     \* and its replies on their way back
    seqnum,      \* the last request's number
    outstanding, \* URBs that are not given back
    wanted,      \* the rumble level that was asked for last
    worker,      \* none, reading, sleeping, finished
    hand,        \* the input request that waits for its time
    ahead,       \* ticks from now to next_input
    rumble       \* the mutex shared with the worker

Late == 3 * Period \* bound: how late the worker may be
Due == (-Late)..Period

life == <<main, attempts>>
wire == <<requests, replies>>
kernel == <<port, seqnum, outstanding, wanted>>
vars == <<life, reported, kernel, open, wire, worker, hand, ahead, rumble>>

(* An interrupt transfer for an input report; a rumble level, by interrupt *)
(* or SET_REPORT; a transfer that is answered and changes nothing; one     *)
(* that is refused; one the worker gives up on, as it is too long; and the *)
(* unlinking of an earlier one.                                            *)
Kinds == {"input", "level", "plain", "refused", "oversized", "unlink"}
Request == [seqnum: 1..MaxSeq, kind: Kinds, level: Levels, target: 0..MaxSeq]
Reply == [seqnum: 1..MaxSeq, kind: {"submit", "unlink"}, target: 0..MaxSeq]

MainOK ==
    /\ main \in {"none", "attaching", "attached", "running", "detached", "joining", "failed"}
    /\ attempts \in 0..Attempts /\ reported \in Levels
KernelOK ==
    /\ port \in BOOLEAN
    /\ seqnum \in 0..MaxSeq /\ outstanding \subseteq 1..MaxSeq /\ wanted \in Levels
WireOK == open \in BOOLEAN /\ requests \in Seq(Request) /\ replies \in Seq(Reply)
WorkerOK ==
    /\ worker \in {"none", "reading", "sleeping", "finished"}
    /\ hand \in Request \cup {NoRequest}
    /\ ahead \in Due /\ rumble \in Levels
TypeOK == MainOK /\ KernelOK /\ WireOK /\ WorkerOK

Init ==
    /\ main = "none" /\ attempts = 0 /\ reported = 0
    /\ port = FALSE /\ open = FALSE
    /\ requests = <<>> /\ replies = <<>> /\ seqnum = 0 /\ outstanding = {} /\ wanted = 0
    /\ worker = "none" /\ hand = NoRequest
    /\ ahead = 0 /\ rumble = 0

-----------------------------------------------------------------------------
(* The main loop.                                                          *)

(* DualShock4::new: a new socket pair.                                     *)
Create ==
    /\ main = "none" /\ ~port
    /\ main' = "attaching" /\ attempts' = Attempts
    /\ open' = TRUE
    /\ requests' = <<>> /\ replies' = <<>> /\ seqnum' = 0 /\ wanted' = 0
    /\ reported' = 0 /\ rumble' = 0
    /\ worker' = "none" /\ hand' = NoRequest
    /\ ahead' = 0
    /\ UNCHANGED <<port, outstanding>>

(* attach: another device may take the free port first.                    *)
Attach ==
    /\ main = "attaching"
    /\ \/ main' = "attached" /\ port' = TRUE /\ UNCHANGED <<attempts, open>>
       \/ /\ attempts > 1
          /\ attempts' = attempts - 1
          /\ UNCHANGED <<main, port, open>>
       \/ main' = "failed" /\ open' = FALSE /\ UNCHANGED <<attempts, port>>
    /\ UNCHANGED <<reported, seqnum, outstanding, wanted, wire, worker, hand, ahead, rumble>>

(* The thread starts, or the device is detached again.                     *)
Spawn ==
    /\ main = "attached"
    /\ \/ main' = "running" /\ worker' = "reading" /\ UNCHANGED <<port, open>>
       \/ main' = "failed" /\ open' = FALSE /\ UNCHANGED <<worker, port>>
    /\ UNCHANGED <<attempts, reported, seqnum, outstanding, wanted, wire, hand, ahead, rumble>>

(* Transport::drop, for another gamepad or at the end of the daemon: first *)
(* the detachment, which may fail ...                                      *)
Detach ==
    /\ main = "running"
    /\ main' = "detached"
    /\ open' \in {open, FALSE}
    /\ UNCHANGED <<attempts, reported, kernel, wire, worker, hand, ahead, rumble>>

(* poll_rumble: the last level, or the error that ends the daemon.         *)
Poll ==
    /\ main = "running"
    /\ IF worker = "finished"
         THEN Detach
         ELSE reported' = rumble /\ UNCHANGED <<life, kernel, open, wire, worker, hand, ahead, rumble>>

(* Fault: the socket is left to the kernel.                                *)
ShutdownNothing ==
    /\ main = "detached"
    /\ main' = "joining"
    /\ UNCHANGED <<attempts, open, reported, kernel, wire, worker, hand, ahead, rumble>>

(* ... then the socket ...                                                 *)
Shutdown ==
    /\ main = "detached"
    /\ open' = FALSE
    /\ main' = "joining"
    /\ UNCHANGED <<attempts, reported, kernel, wire, worker, hand, ahead, rumble>>

(* ... then the thread.                                                    *)
Join ==
    /\ main = "joining" /\ worker = "finished"
    /\ main' = "none"
    /\ UNCHANGED <<attempts, open, reported, kernel, wire, worker, hand, ahead, rumble>>

-----------------------------------------------------------------------------
(* The kernel and the games.                                               *)

Submit ==
    /\ port /\ open /\ seqnum < MaxSeq
    /\ seqnum' = seqnum + 1
    /\ \E kind \in Kinds \ {"unlink"}, level \in Levels :
          /\ kind # "level" => level = 0
          /\ requests' = Append(requests,
               [seqnum |-> seqnum', kind |-> kind, level |-> level, target |-> 0])
          /\ wanted' = IF kind = "level" THEN level ELSE wanted
    /\ outstanding' = outstanding \cup {seqnum'}
    /\ UNCHANGED <<life, reported, port, open, replies, worker, hand, ahead, rumble>>

Unlink ==
    /\ port /\ open /\ seqnum < MaxSeq
    /\ seqnum' = seqnum + 1
    /\ \E target \in outstanding :
          requests' = Append(requests,
            [seqnum |-> seqnum', kind |-> "unlink", level |-> 0, target |-> target])
    /\ UNCHANGED <<life, reported, port, open, outstanding, wanted, replies, worker, hand, ahead, rumble>>

(* An URB is given back with its reply; one that was unlinked and has no   *)
(* reply yet is given back as cancelled.                                   *)
Receive ==
    /\ port /\ replies # <<>>
    /\ LET reply == Head(replies)
       IN outstanding' = outstanding \ {IF reply.kind = "unlink" THEN reply.target ELSE reply.seqnum}
    /\ replies' = Tail(replies)
    /\ UNCHANGED <<life, reported, port, seqnum, wanted, open, requests, worker, hand, ahead, rumble>>

(* The end of the stream frees the port and gives everything back.         *)
Release ==
    /\ port /\ ~open
    /\ port' = FALSE
    /\ outstanding' = {}
    /\ UNCHANGED <<life, reported, seqnum, wanted, open, wire, worker, hand, ahead, rumble>>

-----------------------------------------------------------------------------
(* The worker: serve, one request after the other.                         *)

ReplyTo(request) ==
    [seqnum |-> request.seqnum,
     kind |-> IF request.kind = "unlink" THEN "unlink" ELSE "submit",
     target |-> request.target]

(* write_reply fails when the socket is shut down, and serve with it.      *)
Answer(request) ==
    IF open THEN replies' = Append(replies, ReplyTo(request)) /\ worker' = "reading" /\ UNCHANGED open
    ELSE worker' = "finished" /\ UNCHANGED <<replies, open>>

(* Fault: data that are no rumble report count as silence.                 *)
RumbleOrSilence(request) ==
    IF request.kind \in {"level", "plain"} THEN request.level ELSE rumble
(* parse_output.                                                           *)
RumbleAfter(request) == IF request.kind = "level" THEN request.level ELSE rumble

(* Fault: unlinks are answered first.                                      *)
UnlinkAtOnce ==
    /\ worker \in {"reading", "sleeping"} /\ open
    /\ \E i \in DOMAIN requests :
          /\ \/ requests[i].kind = "unlink"
             \/ i = 1 /\ requests[1].kind \in {"level", "plain", "refused"}
          /\ requests' = SubSeq(requests, 1, i - 1) \o SubSeq(requests, i + 1, Len(requests))
          /\ replies' = Append(replies, ReplyTo(requests[i]))
          /\ rumble' = RumbleAfter(requests[i])
    /\ UNCHANGED <<life, reported, kernel, open, worker, hand, ahead>>

(* Fault: a request for a feature that is not there gets no reply.         *)
RefuseInSilence ==
    /\ worker = "reading" /\ requests # <<>>
    /\ Head(requests).kind \in {"level", "plain", "refused", "unlink"}
    /\ requests' = Tail(requests)
    /\ rumble' = RumbleAfter(Head(requests))
    /\ IF Head(requests).kind = "refused" THEN UNCHANGED <<replies, worker, open>> ELSE Answer(Head(requests))
    /\ UNCHANGED <<life, reported, kernel, hand, ahead>>

(* Everything but an input report is answered when it is read.             *)
Serve ==
    /\ worker = "reading" /\ requests # <<>>
    /\ Head(requests).kind \in {"level", "plain", "refused", "unlink"}
    /\ requests' = Tail(requests)
    /\ rumble' = RumbleAfter(Head(requests))
    /\ Answer(Head(requests))
    /\ UNCHANGED <<life, reported, kernel, hand, ahead>>

Paced(delay) == IF delay > 0 THEN delay ELSE 0

(* The next input report is due 5 ms after the last one was, and not       *)
(* before now.                                                             *)
TakeInput ==
    /\ worker = "reading" /\ requests # <<>> /\ Head(requests).kind = "input"
    /\ requests' = Tail(requests)
    /\ ahead' = Paced(ahead + Period)
    /\ IF ahead + Period > 0
         THEN worker' = "sleeping" /\ hand' = Head(requests) /\ UNCHANGED <<replies, open>>
         ELSE Answer(Head(requests)) /\ UNCHANGED hand
    /\ UNCHANGED <<life, reported, kernel, rumble>>

Wake ==
    /\ worker = "sleeping" /\ ahead <= 0
    /\ hand' = NoRequest
    /\ Answer(hand)
    /\ UNCHANGED <<life, reported, kernel, requests, ahead, rumble>>

(* An error or the end of the stream ends serve, and the thread shuts the  *)
(* socket down.                                                            *)
EndServe ==
    /\ worker = "reading"
    /\ \/ requests # <<>> /\ Head(requests).kind = "oversized" /\ requests' = Tail(requests)
       \/ requests = <<>> /\ ~open /\ UNCHANGED requests
    /\ worker' = "finished"
    /\ open' = FALSE
    /\ UNCHANGED <<life, reported, kernel, replies, hand, ahead, rumble>>

Tick ==
    /\ ahead > -Late
    /\ ahead' = ahead - 1
    /\ UNCHANGED <<life, reported, kernel, open, wire, worker, hand, rumble>>

Worker == Serve \/ TakeInput \/ Wake \/ EndServe
MainLoop == Poll \/ Shutdown \/ Join

Next ==
    \/ Create \/ Attach \/ Spawn \/ Poll \/ Detach \/ Shutdown \/ Join
    \/ Submit \/ Unlink \/ Receive \/ Release
    \/ Worker \/ Tick

(* The main loop polls for ever, and finishes what it has begun; the       *)
(* worker and the kernel go on while there is something to do, and time    *)
(* passes.  Nothing is assumed of games.                                   *)
Fairness ==
    /\ WF_vars(Attach) /\ WF_vars(Spawn) /\ WF_vars(MainLoop)
    /\ WF_vars(Receive) /\ WF_vars(Release) /\ WF_vars(Worker) /\ WF_vars(Tick)

Safety == Init /\ [][Next]_vars
Spec == Safety /\ Fairness

-----------------------------------------------------------------------------
(* Properties.                                                             *)

(* When an unlink is answered, the URB it was for has been given back: no  *)
(* request is reported as cancelled that the worker has carried out, or    *)
(* will carry out later (serve answers USBIP_CMD_UNLINK with status 0      *)
(* without looking at its target).                                         *)
UnlinkComesLate ==
    [][Receive /\ Head(replies).kind = "unlink" => Head(replies).target \notin outstanding]_vars

(* Every URB is given back, whatever is wrong with it and however the      *)
(* device goes away.                                                       *)
GivenBack == \A n \in 1..MaxSeq : n \in outstanding ~> n \notin outstanding

(* The level that was asked for last is reported to the main loop.         *)
LevelReported ==
    \A level \in Levels :
        <>[](main = "running" /\ worker # "finished" /\ wanted = level) => <>[](reported = level)

(* A worker that has ended ends the daemon or is being dropped, a pad      *)
(* without a worker is not kept; and dropping the device does not wait for *)
(* ever for its thread, also when the kernel refuses to detach it.         *)
DropEnds == worker = "finished" \/ main \in {"detached", "joining"} ~> main = "none"
=============================================================================
