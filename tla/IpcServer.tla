----------------------------- MODULE IpcServer -----------------------------
(***************************************************************************)
(* The control socket (daemon/src/ipc.rs): a thread of its own accepts     *)
(* connections, reads one line from each and either subscribes it to the   *)
(* keyboard's state or hands its command to the main loop through a        *)
(* bounded queue; the answer comes back as an event.  The main loop        *)
(* (main.rs) takes a batch of commands in every iteration, publishes       *)
(* keyboard states, and ends by a signal or an error.  Clients, and the    *)
(* name of a connection that is used again for a later client, are         *)
(* external.                                                               *)
(***************************************************************************)
EXTENDS Integers, Sequences

CONSTANTS
    Conns,      \* connections that can exist at a time; a u64 in the code
    NoConn,     \* no connection
    QueueLen,   \* commands the queue holds: sync_channel(32)
    BatchLen,   \* commands taken in one iteration: take(32)
    Scripts,    \* bound: what a connection's clients may write, as sequences of chunks
    MaxVersion  \* bound: keyboard states that are published

(* What one write of a client carries: the first part of a command cut     *)
(* between two characters ("head") or within one ("torn"), its rest with   *)
(* the newline ("tail"); the line Request::Osk, an empty line, and a line  *)
(* that is no request or is too long ("bad").                              *)
Chunk == {"head", "torn", "tail", "osk", "blank", "bad"}
Lines == {"tail", "osk", "blank", "bad"}

ASSUME ServerAssumption ==
    /\ NoConn \notin Conns
    /\ QueueLen \in Nat \ {0} /\ BatchLen \in Nat \ {0} /\ MaxVersion \in Nat
    /\ Scripts \in [Conns -> SUBSET Seq(Chunk)]

VARIABLES
    backlog, clients, closed, \* connections not accepted yet, served, closed by the daemon
    sent, seen,               \* chunks a client has written, how many were read or lost
    left,                     \* clients that have closed their end
    stalled,                  \* clients that do not read and whose socket is full
    replies, shown,           \* responses a client was sent, the newest keyboard state
    thread,                   \* the IPC thread
    enabled, osk, request,    \* sources not disabled; ClientConnection.osk; ClientReader.request
    line,                     \* IpcState.osk: the state that was encoded last
    commands, receiver,       \* the command queue, and whether the main loop still has its end
    events,                   \* IpcEvent channel: a connection stands for its Response
    main, hand, batch,        \* the main loop: where it is, the command it handles, how many
                              \* more it takes in this iteration
    state, fresh, pinged,     \* the watch channel's state and whether it was read; the ping
    terminated,               \* a signal has arrived
    executed                  \* commands that were carried out

network == <<backlog, clients, closed>>
client == <<sent, left, stalled>>
told == <<replies, shown>>
reader == <<enabled, osk, request, seen>>
queue == <<commands, receiver>>
loop == <<main, hand, batch, terminated, executed>>
watch == <<state, fresh, pinged>>
vars == <<network, client, told, thread, reader, line, queue, events, loop, watch>>

Shutdown == NoConn
Versions == 0..MaxVersion

TypeOK ==
    /\ backlog \subseteq Conns /\ clients \subseteq Conns /\ closed \subseteq Conns
    /\ sent \in [Conns -> Seq(Chunk)] /\ seen \in [Conns -> Nat]
    /\ left \subseteq Conns /\ stalled \subseteq Conns
    /\ replies \in [Conns -> Seq({"answer", "full", "invalid"})]
    /\ shown \in [Conns -> Versions \cup {-1}]
    /\ thread \in {"running", "stopping", "ended", "failed"}
    /\ enabled \subseteq Conns /\ osk \subseteq Conns
    /\ request \in [Conns -> Seq(Chunk)]
    /\ line \in Versions
    /\ commands \in Seq(Conns) /\ Len(commands) <= QueueLen /\ receiver \in BOOLEAN
    /\ events \in Seq(Conns \cup {Shutdown})
    /\ main \in {"top", "batch", "handle", "ping", "respond", "closing", "shutdown", "joining", "done"}
    /\ hand \in Conns \cup {NoConn} /\ batch \in 0..BatchLen
    /\ state \in Versions /\ fresh \in BOOLEAN /\ pinged \in BOOLEAN
    /\ terminated \in BOOLEAN /\ executed \subseteq Conns

Init ==
    /\ backlog = {} /\ clients = {} /\ closed = {}
    /\ sent = [c \in Conns |-> <<>>] /\ seen = [c \in Conns |-> 0]
    /\ left = {} /\ stalled = {}
    /\ replies = [c \in Conns |-> <<>>] /\ shown = [c \in Conns |-> -1]
    /\ thread = "running"
    /\ enabled = {} /\ osk = {} /\ request = [c \in Conns |-> <<>>]
    /\ line = 0
    /\ commands = <<>> /\ receiver = TRUE /\ events = <<>>
    /\ main = "top" /\ hand = NoConn /\ batch = 0
    /\ state = 0 /\ fresh = FALSE /\ pinged = FALSE
    /\ terminated = FALSE /\ executed = {}

-----------------------------------------------------------------------------
(* Clients.                                                                *)

Alive == thread \in {"running", "stopping"}
Free(c) == c \notin backlog \cup clients \cup closed

(* The listener exists until the thread ends.                              *)
Connect(c) ==
    /\ Alive /\ Free(c)
    /\ backlog' = backlog \cup {c}
    /\ UNCHANGED <<clients, closed, client, told, thread, reader, line, queue, events, loop, watch>>

Write(c, chunk) ==
    /\ c \in backlog \cup clients /\ c \notin left
    /\ \E s \in Scripts[c] : Len(s) > Len(sent[c]) /\ Append(sent[c], chunk) = SubSeq(s, 1, Len(sent[c]) + 1)
    /\ sent' = [sent EXCEPT ![c] = Append(@, chunk)]
    /\ UNCHANGED <<network, left, stalled, told, thread, reader, line, queue, events, loop, watch>>

Leave(c) ==
    /\ c \in backlog \cup clients /\ c \notin left
    /\ left' = left \cup {c}
    /\ UNCHANGED <<network, sent, stalled, told, thread, reader, line, queue, events, loop, watch>>

(* Only a subscriber is sent enough to fill its socket.                    *)
Stall(c) ==
    /\ c \in clients \cap osk /\ c \notin stalled
    /\ stalled' = stalled \cup {c}
    /\ UNCHANGED <<network, sent, left, told, thread, reader, line, queue, events, loop, watch>>

Resume(c) ==
    /\ c \in clients \cap stalled
    /\ stalled' = stalled \ {c}
    /\ UNCHANGED <<network, sent, left, told, thread, reader, line, queue, events, loop, watch>>

(* A closed connection is forgotten, and its name stands for a new one.    *)
Forget(c) ==
    /\ c \in closed /\ Alive
    /\ closed' = closed \ {c} /\ executed' = executed \ {c}
    /\ sent' = [sent EXCEPT ![c] = <<>>] /\ seen' = [seen EXCEPT ![c] = 0]
    /\ request' = [request EXCEPT ![c] = <<>>]
    /\ replies' = [replies EXCEPT ![c] = <<>>] /\ shown' = [shown EXCEPT ![c] = -1]
    /\ left' = left \ {c} /\ stalled' = stalled \ {c}
    /\ UNCHANGED <<backlog, clients, thread, enabled, osk, line, queue, events,
                   main, hand, batch, terminated, watch>>

-----------------------------------------------------------------------------
(* The IPC thread: the callbacks of its event loop, one at a time.         *)

Accept ==
    /\ Alive /\ backlog # {}
    /\ clients' = clients \cup backlog /\ enabled' = enabled \cup backlog
    /\ backlog' = {}
    /\ UNCHANGED <<closed, client, told, thread, osk, request, seen, line, queue, events, loop, watch>>

(* The client's socket has room for a line.                                *)
Reads(c) == c \notin left \cup stalled

(* IpcState.clients.remove and PostAction::Remove, for several at a time.  *)
Close(C) ==
    /\ clients' = clients \ C /\ closed' = closed \cup C
    /\ enabled' = enabled \ C /\ osk' = osk \ C
    /\ UNCHANGED backlog

(* write_message of a response, its result ignored.                        *)
Respond(c, reply) ==
    replies' = IF Reads(c) THEN [replies EXCEPT ![c] = Append(@, reply)] ELSE replies

Unread(c) == SubSeq(sent[c], seen[c] + 1, Len(sent[c]))
LineEnds(c) == {i \in DOMAIN sent[c] : i > seen[c] /\ sent[c][i] \in Lines}

(* read_line finds a newline: what follows it may be in the BufReader that *)
(* is dropped at the end of the call.                                      *)
TakeLine(c) ==
    /\ Alive /\ c \in clients \cap enabled
    /\ \E end \in LineEnds(c) :
          /\ \A i \in LineEnds(c) : end <= i
          /\ request' = [request EXCEPT ![c] = @ \o SubSeq(sent[c], seen[c] + 1, end)]
          /\ \E next \in {end, Len(sent[c])} : seen' = [seen EXCEPT ![c] = next]

(* The text read so far parses, blanks at its end included.                *)
IsCommand(text) == text \in {<<"head", "tail">>, <<"torn", "tail">>}
IsOsk(text) == text # <<>> /\ text[1] = "osk" /\ \A i \in 2..Len(text) : text[i] = "blank"

(* Fault: the text of an unfinished line is forgotten.                     *)
ReadPartAfresh(c) ==
    /\ Alive /\ c \in clients \cap enabled
    /\ Unread(c) # <<>> /\ LineEnds(c) = {} /\ c \notin left
    /\ seen' = [seen EXCEPT ![c] = Len(sent[c])]
    /\ UNCHANGED <<network, client, told, thread, enabled, osk, request, line, queue, events, loop, watch>>

(* WouldBlock: the line goes on later.  read_line keeps what it has got,   *)
(* unless it ends within a character.                                      *)
ReadPart(c) ==
    /\ Alive /\ c \in clients \cap enabled
    /\ Unread(c) # <<>> /\ LineEnds(c) = {} /\ c \notin left
    /\ request' = [request EXCEPT ![c] =
                     IF sent[c][Len(sent[c])] = "torn" THEN @ ELSE @ \o Unread(c)]
    /\ seen' = [seen EXCEPT ![c] = Len(sent[c])]
    /\ UNCHANGED <<network, client, told, thread, enabled, osk, line, queue, events, loop, watch>>

(* The end of the stream, with or without an unfinished line.              *)
ReadEnd(c) ==
    /\ Alive /\ c \in clients \cap enabled
    /\ LineEnds(c) = {} /\ c \in left
    /\ Close({c})
    /\ UNCHANGED <<client, told, thread, request, seen, line, queue, events, loop, watch>>

ReadOsk(c) ==
    /\ TakeLine(c)
    /\ IsOsk(request'[c])
    /\ IF Reads(c)
         THEN /\ shown' = [shown EXCEPT ![c] = line]
              /\ osk' = osk \cup {c}
              /\ UNCHANGED <<network, enabled>>
         ELSE Close({c}) /\ UNCHANGED shown
    /\ UNCHANGED <<client, replies, thread, line, queue, events, loop, watch>>

QueueHasRoom == Len(commands) < QueueLen

(* Fault: the source of a connection that waits for its answer stays.      *)
ReadCommandStayingEnabled(c) ==
    /\ TakeLine(c)
    /\ IsCommand(request'[c])
    /\ receiver /\ QueueHasRoom
    /\ commands' = Append(commands, c)
    /\ UNCHANGED <<network, client, told, thread, enabled, osk, line, receiver, events, loop, watch>>

(* Fault: a command that finds the queue full is dropped.                  *)
ReadCommandDroppingFull(c) ==
    /\ TakeLine(c)
    /\ IsCommand(request'[c])
    /\ IF receiver /\ QueueHasRoom
         THEN /\ commands' = Append(commands, c)
              /\ enabled' = enabled \ {c}
              /\ UNCHANGED <<network, osk, replies>>
         ELSE Close({c}) /\ UNCHANGED <<commands, replies>>
    /\ UNCHANGED <<client, shown, thread, line, receiver, events, loop, watch>>

ReadCommand(c) ==
    /\ TakeLine(c)
    /\ IsCommand(request'[c])
    /\ IF receiver /\ QueueHasRoom
         THEN /\ commands' = Append(commands, c)
              /\ enabled' = enabled \ {c}
              /\ UNCHANGED <<network, osk, replies>>
         ELSE /\ Close({c})
              /\ IF receiver THEN Respond(c, "full") ELSE UNCHANGED replies
              /\ UNCHANGED commands
    /\ UNCHANGED <<client, shown, thread, line, receiver, events, loop, watch>>

ReadBad(c) ==
    /\ TakeLine(c)
    /\ ~IsCommand(request'[c]) /\ ~IsOsk(request'[c])
    /\ Respond(c, "invalid")
    /\ Close({c})
    /\ UNCHANGED <<client, shown, thread, line, queue, events, loop, watch>>

Ready(c) == ReadPart(c) \/ ReadEnd(c) \/ ReadOsk(c) \/ ReadCommand(c) \/ ReadBad(c)

(* A response arrives for a connection that may be gone.                   *)
OnResponse ==
    /\ Alive /\ events # <<>> /\ Head(events) # Shutdown
    /\ events' = Tail(events)
    /\ IF Head(events) \in clients
         THEN Respond(Head(events), "answer") /\ Close({Head(events)})
         ELSE UNCHANGED <<network, enabled, osk, replies>>
    /\ UNCHANGED <<client, shown, thread, request, seen, line, queue, loop, watch>>

(* Fault: the encoded state is not kept for those who subscribe later.     *)
OnPingForgetting ==
    /\ Alive /\ pinged
    /\ pinged' = FALSE /\ fresh' = FALSE
    /\ IF fresh
         THEN /\ shown' = [c \in Conns |-> IF c \in osk /\ Reads(c) THEN state ELSE shown[c]]
              /\ Close({c \in osk : ~Reads(c)})
         ELSE UNCHANGED <<shown, network, enabled, osk>>
    /\ UNCHANGED <<client, replies, thread, request, seen, line, queue, events, loop, state>>

(* A subscriber that does not take the whole line is dropped.              *)
OnPing ==
    /\ Alive /\ pinged
    /\ pinged' = FALSE /\ fresh' = FALSE
    /\ IF fresh
         THEN /\ line' = state
              /\ shown' = [c \in Conns |-> IF c \in osk /\ Reads(c) THEN state ELSE shown[c]]
              /\ Close({c \in osk : ~Reads(c)})
         ELSE UNCHANGED <<line, shown, network, enabled, osk>>
    /\ UNCHANGED <<client, replies, thread, request, seen, queue, events, loop, state>>

(* The loop ends after the callbacks of the same dispatch.                 *)
OnShutdown ==
    /\ Alive /\ events # <<>> /\ Head(events) = Shutdown
    /\ events' = Tail(events)
    /\ thread' = "stopping"
    /\ UNCHANGED <<network, client, told, reader, line, queue, loop, watch>>

(* With run_ipc end the listener, all connections and the event channel.   *)
EndThread(how) ==
    /\ thread' = how
    /\ closed' = closed \cup backlog \cup clients
    /\ backlog' = {} /\ clients' = {} /\ enabled' = {} /\ osk' = {} /\ events' = <<>>
    /\ UNCHANGED <<client, told, request, seen, line, queue, loop, watch>>

StopLoop == thread = "stopping" /\ EndThread("ended")
LoopFails == Alive /\ EndThread("failed")

-----------------------------------------------------------------------------
(* The main loop.                                                          *)

Top ==
    /\ main = "top"
    /\ main' = IF terminated THEN "closing" ELSE "batch"
    /\ batch' = IF terminated THEN 0 ELSE BatchLen
    /\ UNCHANGED <<network, client, told, thread, reader, line, queue, events, watch,
                   hand, terminated, executed>>

(* Fault: commands are taken as long as there are any.                     *)
TakeCommandEndlessly ==
    /\ main = "batch" /\ batch > 0 /\ commands # <<>>
    /\ hand' = Head(commands) /\ commands' = Tail(commands)
    /\ main' = "handle"
    /\ UNCHANGED <<network, client, told, thread, reader, line, receiver, events, watch,
                   batch, terminated, executed>>

TakeCommand ==
    /\ main = "batch" /\ batch > 0 /\ commands # <<>>
    /\ hand' = Head(commands) /\ commands' = Tail(commands)
    /\ batch' = batch - 1
    /\ main' = "handle"
    /\ UNCHANGED <<network, client, told, thread, reader, line, receiver, events, watch,
                   terminated, executed>>

(* publish_osk of a state that differs: first the watch channel ...        *)
Publish ==
    /\ state < MaxVersion
    /\ state' = state + 1 /\ fresh' = TRUE
    /\ main' = "ping"
    /\ UNCHANGED pinged

(* Fault: an error of a command is not reported to its client.             *)
HandleCommandSilently ==
    /\ main = "handle"
    /\ executed' = executed \cup {hand}
    /\ \/ Publish /\ UNCHANGED hand
       \/ main' \in {"respond", "closing"} /\ UNCHANGED <<watch, hand>>
       \/ main' = "batch" /\ hand' = NoConn /\ UNCHANGED watch
    /\ UNCHANGED <<network, client, told, thread, reader, line, queue, events, batch, terminated>>

(* The command is carried out, with a keyboard state to publish or none,   *)
(* or fails with an error that ends the main loop: no output can be made.  *)
HandleCommand ==
    /\ main = "handle"
    /\ executed' = executed \cup {hand}
    /\ \/ Publish
       \/ main' \in {"respond", "closing"} /\ UNCHANGED watch
    /\ UNCHANGED <<network, client, told, thread, reader, line, queue, events,
                   hand, batch, terminated>>

(* ... then the ping.                                                      *)
SendPing ==
    /\ main = "ping"
    /\ pinged' = TRUE
    /\ main' = IF hand = NoConn THEN "top" ELSE "respond"
    /\ UNCHANGED <<network, client, told, thread, reader, line, queue, events, state, fresh,
                   hand, batch, terminated, executed>>

(* An event for a thread that has ended is dropped.                        *)
SendEvent(event) == events' = IF Alive THEN Append(events, event) ELSE events

SendResponse ==
    /\ main = "respond"
    /\ SendEvent(hand)
    /\ hand' = NoConn
    /\ main' = "batch"
    /\ UNCHANGED <<network, client, told, thread, reader, line, queue, watch,
                   batch, terminated, executed>>

(* The rest of the iteration: a device event, the rumble poll.             *)
EndBatch ==
    /\ main = "batch"
    /\ batch = 0 \/ commands = <<>>
    /\ \/ Publish
       \/ main' \in {"top", "closing"} /\ UNCHANGED watch
    /\ UNCHANGED <<network, client, told, thread, reader, line, queue, events,
                   hand, batch, terminated, executed>>

Signal ==
    /\ ~terminated
    /\ terminated' = TRUE
    /\ UNCHANGED <<network, client, told, thread, reader, line, queue, events, watch,
                   main, hand, batch, executed>>

(* main returns: `commands' is dropped before `ipc'.                       *)
DropCommands ==
    /\ main = "closing"
    /\ commands' = <<>> /\ receiver' = FALSE
    /\ main' = "shutdown"
    /\ UNCHANGED <<network, client, told, thread, reader, line, events, watch,
                   hand, batch, terminated, executed>>

(* Fault: the shutdown overtakes answers.                                  *)
DropServerAtOnce ==
    /\ main = "shutdown"
    /\ events' = IF Alive THEN <<Shutdown>> \o events ELSE events
    /\ main' = "joining"
    /\ UNCHANGED <<network, client, told, thread, reader, line, queue, watch,
                   hand, batch, terminated, executed>>

(* Server::drop.                                                           *)
DropServer ==
    /\ main = "shutdown"
    /\ SendEvent(Shutdown)
    /\ main' = "joining"
    /\ UNCHANGED <<network, client, told, thread, reader, line, queue, watch,
                   hand, batch, terminated, executed>>

Join ==
    /\ main = "joining" /\ ~Alive
    /\ main' = "done"
    /\ UNCHANGED <<network, client, told, thread, reader, line, queue, events, watch,
                   hand, batch, terminated, executed>>

Users == \E c \in Conns :
    \/ Connect(c) \/ Leave(c) \/ Stall(c) \/ Resume(c) \/ Forget(c)
    \/ \E chunk \in Chunk : Write(c, chunk)
IpcThread ==
    \/ Accept \/ OnResponse \/ OnPing \/ OnShutdown \/ StopLoop
    \/ \E c \in Conns : Ready(c)
MainLoop ==
    \/ Top \/ TakeCommand \/ HandleCommand \/ SendPing \/ SendResponse \/ EndBatch
    \/ DropCommands \/ DropServer \/ Join

Next == Users \/ IpcThread \/ MainLoop \/ Signal \/ LoopFails

(* Every source of the event loop gets its turn, and neither thread rests  *)
(* while it has something to do.  Nothing is assumed of clients.           *)
Fairness ==
    /\ WF_vars(Accept) /\ WF_vars(OnResponse) /\ WF_vars(OnPing)
    /\ WF_vars(OnShutdown) /\ WF_vars(StopLoop)
    /\ \A c \in Conns : WF_vars(Ready(c))
    /\ WF_vars(MainLoop)

Safety == Init /\ [][Next]_vars
Spec == Safety /\ Fairness

-----------------------------------------------------------------------------
(* Properties.                                                             *)

(* A command that was carried out is answered, even when the daemon is     *)
(* about to end: shutdown does not overtake answers.  The exceptions are a *)
(* client that is gone, a failing event loop, and the command whose own    *)
(* error ends the main loop.                                               *)
ExecutedIsAnswered ==
    \A c \in executed \cap closed :
        replies[c] = <<"answer">> \/ c \in left \/ thread = "failed"
          \/ c = hand

(* A client that stays and reads is told something before the daemon       *)
(* closes its connection, as long as the daemon does not end.              *)
NoSilentClose ==
    \A c \in closed :
        replies[c] = <<>> =>
          c \in left \cup stalled \/ ~receiver \/ thread # "running"

(* A valid command that comes in two parts is called invalid only when the *)
(* cut is within a character and the first part was read by itself: then   *)
(* read_line has thrown that part away, and the rest is all the daemon has *)
(* (ClientReader.request across calls).                                    *)
PartsAreJoined ==
    \A c \in Conns :
        IsCommand(sent[c]) /\ replies[c] = <<"invalid">> =>
            sent[c][1] = "torn" /\ request[c] = <<"tail">>

(* A line that reaches the daemon is dealt with: a response, the           *)
(* keyboard's state, or the end of the connection, also when the daemon    *)
(* ends while commands are queued.                                         *)
Settled ==
    \A c \in Conns :
        (c \in backlog \cup clients /\ \E i \in DOMAIN sent[c] : sent[c][i] \in Lines)
          ~> (replies[c] # <<>> \/ shown[c] # -1 \/ c \notin backlog \cup clients)

(* A signal ends the daemon, however many commands keep arriving: the main *)
(* loop gets to look at it, and dropping the server does not wait for ever *)
(* for a thread that nobody told to stop.                                  *)
Terminates == terminated ~> main = "done"

(* A subscriber that is not dropped has the latest state, also when it     *)
(* subscribed while that state was on its way.                             *)
LatestShown ==
    \A c \in Conns, v \in Versions :
        <>[](c \in osk /\ state = v) => <>[](shown[c] = v)

(* The server keeps the promise of Calls.                                  *)
ReplyTo(c) ==
    IF replies[c] # <<>> THEN IF replies[c] = <<"answer">> THEN "answered" ELSE "refused"
    ELSE IF c \in closed THEN "cut" ELSE "none"
Promise == INSTANCE Calls WITH reply <- [c \in Conns |-> ReplyTo(c)]
KeepsPromise == Promise!Spec
=============================================================================
