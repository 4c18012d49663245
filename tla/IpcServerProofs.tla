--------------------------- MODULE IpcServerProofs ---------------------------
(***************************************************************************)
(* Proofs about IpcServer, for any number of connections, any lengths of   *)
(* the queue and the batch and any scripts of the clients: a command is    *)
(* carried out once and answered, nothing is closed in silence, and the    *)
(* server keeps the promise of Calls.                                      *)
(***************************************************************************)
EXTENDS IpcServer, Functions, TLAPS

(* Connections that wait for the answer to a command: their source is      *)
(* disabled; when the thread has ended all there is left is their names.   *)
Waiting(c) == c \in clients \ enabled \/ (c \in closed /\ ~Alive)

(* Where a command can be between the reader and its answer.               *)
Queued == Range(commands)
InHand == {hand} \ {NoConn}
Answers == Range(events) \ {Shutdown}

OnceEach(seq) == \A i, j \in DOMAIN seq : seq[i] = seq[j] => i = j

(* Connections and what their clients have been told.  A subscriber has    *)
(* sent Request::Osk first and can therefore never come to wait.           *)
NetworkInv ==
    /\ backlog \cap clients = {} /\ backlog \cap closed = {} /\ clients \cap closed = {}
    /\ enabled \subseteq clients /\ osk \subseteq enabled /\ stalled \subseteq osk \cup closed
    /\ \A c \in osk : request[c] # <<>> /\ request[c][1] = "osk"
    /\ \A c \in Conns \ closed : replies[c] = <<>>

(* How the daemon ends: Shutdown is the last event, and is sent when no    *)
(* command can be queued any more.                                         *)
EndInv ==
    /\ \A i \in DOMAIN events : events[i] = Shutdown => i = Len(events)
    /\ Shutdown \in Range(events) \/ thread \in {"stopping", "ended"} => main \in {"joining", "done"}
    /\ thread # "running" => events = <<>>
    /\ ~Alive => backlog \cup clients = {}
    /\ main \in {"shutdown", "joining", "done"} => ~receiver
    /\ ~receiver => commands = <<>>

(* Every command is in one place, of a connection that waits for it, and   *)
(* is carried out between the queue and the answer.                        *)
PipelineInv ==
    /\ OnceEach(commands) /\ OnceEach(events)
    /\ Queued \cap Answers = {} /\ InHand \cap (Queued \cup Answers) = {}
    /\ \A c \in Queued \cup InHand \cup Answers : Waiting(c)
    /\ Queued \cap executed = {} /\ Answers \subseteq executed
    /\ executed \ closed \subseteq InHand \cup Answers
    /\ main = "handle" => hand \in Conns \ executed
    /\ main = "respond" => hand \in executed
    /\ main = "ping" => InHand \subseteq executed
    /\ main \in {"top", "batch"} => hand = NoConn

(* What was read of a command in two parts, and what is left of its first  *)
(* part when that was read by itself.  The command is called invalid when  *)
(* its first part was lost.                                                *)
First == {"head", "torn"}
Cut(text, f) == text \in {<<>>, <<f>>, <<f, "tail">>}
Parts(c, f) == Cut(sent[c], f)
Kept(f) == IF f = "torn" THEN <<>> ELSE <<f>>
Lost(c, f) == f = "torn" /\ request[c] = <<"tail">>
PartsInv ==
    /\ \A c \in Conns \ (backlog \cup clients \cup closed) :
          sent[c] = <<>> /\ seen[c] = 0 /\ request[c] = <<>>
    /\ \A c \in backlog : seen[c] = 0 /\ request[c] = <<>>
    /\ \A c \in enabled, f \in First : Parts(c, f) =>
          \/ seen[c] = 0 /\ request[c] = <<>>
          \/ seen[c] = 1 /\ request[c] = Kept(f) /\ sent[c] # <<>>
    /\ \A c \in Conns, f \in First : Parts(c, f) /\ replies[c] = <<"invalid">> => Lost(c, f)

ServerInv == TypeOK /\ NetworkInv /\ EndInv /\ PipelineInv

-----------------------------------------------------------------------------
(* Sequences.                                                              *)

LEMMA AppendRange ==
    ASSUME NEW S, NEW seq \in Seq(S), NEW e \in S
    PROVE  /\ Append(seq, e) \in Seq(S)
           /\ Range(Append(seq, e)) = Range(seq) \cup {e}
<1>1. Append(seq, e) \in Seq(S) /\ DOMAIN Append(seq, e) = 1..(Len(seq) + 1)
  OBVIOUS
<1>2. /\ \A i \in 1..Len(seq) : Append(seq, e)[i] = seq[i]
      /\ Append(seq, e)[Len(seq) + 1] = e
  OBVIOUS
<1>3. DOMAIN seq = 1..Len(seq) /\ Len(seq) \in Nat
  OBVIOUS
<1>4. ASSUME NEW x PROVE x \in Range(Append(seq, e)) <=> x \in Range(seq) \cup {e}
  <2>1. x \in Range(Append(seq, e)) <=> \E i \in 1..(Len(seq) + 1) : x = Append(seq, e)[i]
    BY <1>1 DEF Range
  <2>2. x \in Range(seq) <=> \E i \in 1..Len(seq) : x = seq[i]
    BY <1>3 DEF Range
  <2>3. \A i : i \in 1..(Len(seq) + 1) <=> i \in 1..Len(seq) \/ i = Len(seq) + 1
    BY <1>3
  <2> QED BY <1>2, <2>1, <2>2, <2>3
<1> QED BY <1>1, <1>4

LEMMA TailRange ==
    ASSUME NEW S, NEW seq \in Seq(S), seq # <<>>,
           \A i, j \in DOMAIN seq : seq[i] = seq[j] => i = j
    PROVE  /\ Tail(seq) \in Seq(S) /\ Head(seq) \in S
           /\ Range(Tail(seq)) = Range(seq) \ {Head(seq)}
           /\ Head(seq) \in Range(seq)
           /\ \A i, j \in DOMAIN Tail(seq) : Tail(seq)[i] = Tail(seq)[j] => i = j
<1>1. /\ Tail(seq) \in Seq(S) /\ Len(Tail(seq)) = Len(seq) - 1
      /\ Len(seq) \in Nat \ {0} /\ Head(seq) = seq[1] /\ Head(seq) \in S
      /\ DOMAIN seq = 1..Len(seq) /\ DOMAIN Tail(seq) = 1..(Len(seq) - 1)
  OBVIOUS
<1>2. \A i \in DOMAIN Tail(seq) : Tail(seq)[i] = seq[i + 1] /\ i + 1 \in DOMAIN seq
  BY <1>1
<1>3. 1 \in DOMAIN seq
  BY <1>1
<1>4. \A i, j \in DOMAIN Tail(seq) : Tail(seq)[i] = Tail(seq)[j] => i = j
  BY <1>1, <1>2
<1>5. ASSUME NEW x PROVE x \in Range(Tail(seq)) <=> x \in Range(seq) \ {Head(seq)}
  <2>1. CASE x \in Range(Tail(seq))
    <3>1. PICK i \in DOMAIN Tail(seq) : x = Tail(seq)[i]
      BY <2>1 DEF Range
    <3>2. x = seq[i + 1] /\ i + 1 \in DOMAIN seq /\ i + 1 # 1
      BY <1>1, <1>2, <3>1
    <3>3. x # seq[1]
      BY <1>3, <3>2
    <3> QED BY <1>1, <2>1, <3>2, <3>3 DEF Range
  <2>2. CASE x \in Range(seq) \ {Head(seq)}
    <3>1. PICK i \in DOMAIN seq : x = seq[i]
      BY <2>2 DEF Range
    <3>2. i # 1
      BY <1>1, <2>2, <3>1
    <3>3. i - 1 \in DOMAIN Tail(seq) /\ (i - 1) + 1 = i
      BY <1>1, <3>2
    <3>4. Tail(seq)[i - 1] = x
      BY <1>2, <3>1, <3>3
    <3> QED BY <3>3, <3>4 DEF Range
  <2> QED BY <2>1, <2>2
<1> QED BY <1>1, <1>3, <1>4, <1>5 DEF Range

LEMMA AppendOnce ==
    ASSUME NEW S, NEW seq \in Seq(S), NEW e \in S, OnceEach(seq), e \notin Range(seq)
    PROVE  OnceEach(Append(seq, e))
<1>1. /\ Len(seq) \in Nat /\ DOMAIN seq = 1..Len(seq)
      /\ DOMAIN Append(seq, e) = 1..(Len(seq) + 1)
      /\ \A i \in 1..Len(seq) : Append(seq, e)[i] = seq[i]
      /\ Append(seq, e)[Len(seq) + 1] = e
  OBVIOUS
<1>2. \A i \in 1..Len(seq) : seq[i] # e
  BY <1>1 DEF Range
<1>3. \A i \in 1..(Len(seq) + 1) : i \in 1..Len(seq) \/ i = Len(seq) + 1
  BY <1>1
<1> QED BY <1>1, <1>2, <1>3 DEF OnceEach

LEMMA SameElements ==
    ASSUME NEW S, NEW s \in Seq(S), NEW t \in Seq(S), Len(s) = Len(t),
           \A i \in 1..Len(s) : s[i] = t[i]
    PROVE  s = t
OBVIOUS

LEMMA OneElement ==
    ASSUME NEW S, NEW s \in Seq(S), Len(s) = 1
    PROVE  s = <<s[1]>>
<1>1. s[1] \in S
  OBVIOUS
<1>2. <<s[1]>> \in Seq(S) /\ Len(<<s[1]>>) = 1 /\ <<s[1]>>[1] = s[1]
  BY <1>1
<1>3. \A i \in 1..Len(s) : i = 1
  OBVIOUS
<1> QED BY <1>2, <1>3, SameElements

LEMMA FrontOfTwo ==
    ASSUME NEW S, NEW s \in Seq(S), NEW t, Len(t) = 2, Len(t) = Len(s) + 1,
           \A i \in 1..Len(s) : t[i] = s[i]
    PROVE  s = <<t[1]>>
<1>1. Len(s) \in Nat
  OBVIOUS
<1>2. Len(s) + 1 = 2
  BY Zenon
<1>3. Len(s) = 1
  <2>1. \A n \in Nat : n + 1 = 2 => n = 1
    OBVIOUS
  <2> QED BY <1>1, <1>2, <2>1, Zenon
<1>4. s[1] = t[1]
  BY <1>3
<1> QED BY <1>3, <1>4, OneElement

(* A command in two parts: what was written before its last part, and what *)
(* the reader makes of the parts.                                          *)
LEMMA WrittenBefore ==
    ASSUME NEW s \in Seq(Chunk), NEW e \in Chunk, NEW f,
           Cut(Append(s, e), f)
    PROVE  Cut(s, f) /\ Append(s, e) # <<>>
<1> DEFINE t == Append(s, e)
<1>1. Len(t) = Len(s) + 1 /\ \A i \in 1..Len(s) : t[i] = s[i]
  OBVIOUS
<1>2. t # <<>>
  <2>1. Len(<<>>) = 0 /\ Len(s) \in Nat
    OBVIOUS
  <2> HIDE DEF t
  <2> QED BY <1>1, <2>1
<1>0. SUFFICES s \in {<<>>, <<f>>}
  BY <1>2 DEF Cut
<1>3. CASE t = <<f>>
  <2>1. Len(t) = 1
    BY <1>3
  <2>2. Len(s) = 0
    BY <1>1, <2>1
  <2> QED BY <2>2
<1>4. CASE t = <<f, "tail">>
  <2>1. Len(t) = 2 /\ t[1] = f
    BY <1>4
  <2> HIDE DEF t
  <2>2. s = <<t[1]>>
    BY <1>1, <2>1, FrontOfTwo
  <2> QED BY <2>1, <2>2
<1> QED BY <1>2, <1>3, <1>4 DEF Cut

LEMMA PartsJoined ==
    ASSUME NEW f
    PROVE  /\ SubSeq(<<f>>, 1, 1) = <<f>>
           /\ <<>> \o SubSeq(<<f, "tail">>, 1, 2) = <<f, "tail">>
           /\ <<f>> \o SubSeq(<<f, "tail">>, 2, 2) = <<f, "tail">>
           /\ <<>> \o SubSeq(<<f, "tail">>, 2, 2) = <<"tail">>
<1> DEFINE S == {f, "tail"}
           head == SubSeq(<<f>>, 1, 1)
           whole == SubSeq(<<f, "tail">>, 1, 2)
           tail == SubSeq(<<f, "tail">>, 2, 2)
           both == <<f>> \o <<"tail">>
<1>1. /\ head \in Seq(S) /\ Len(head) = 1 /\ head[1] = f
      /\ tail \in Seq(S) /\ Len(tail) = 1 /\ tail[1] = "tail"
  OBVIOUS
<1>2. /\ whole \in Seq(S) /\ Len(whole) = 2 /\ whole[1] = f /\ whole[2] = "tail"
  OBVIOUS
<1>3. /\ both \in Seq(S) /\ Len(both) = 2 /\ both[1] = f /\ both[2] = "tail"
  OBVIOUS
<1>4. /\ <<f, "tail">> \in Seq(S) /\ Len(<<f, "tail">>) = 2
      /\ <<f, "tail">>[1] = f /\ <<f, "tail">>[2] = "tail"
  OBVIOUS
<1>5. \A i \in 1..2 : i = 1 \/ i = 2
  OBVIOUS
<1>6. <<>> \o <<f, "tail">> = <<f, "tail">> /\ <<>> \o <<"tail">> = <<"tail">>
  OBVIOUS
<1> HIDE DEF S, head, whole, tail, both
<1>7. head = <<f>> /\ tail = <<"tail">>
  BY <1>1, OneElement
<1>8. whole = <<f, "tail">>
  BY <1>2, <1>4, <1>5, SameElements
<1>9. both = <<f, "tail">>
  BY <1>3, <1>4, <1>5, SameElements
<1> QED BY <1>6, <1>7, <1>8, <1>9 DEF head, whole, tail, both

-----------------------------------------------------------------------------
(* Types.                                                                  *)

LEMMA TypeInit == Init => TypeOK
<1> SUFFICES ASSUME Init PROVE TypeOK
  OBVIOUS
<1>1. 0 \in Versions /\ 0 \in 0..BatchLen
  BY ServerAssumption DEF Versions
<1>2. sent \in [Conns -> Seq(Chunk)] /\ request \in [Conns -> Seq(Chunk)]
  BY DEF Init
<1>3. replies \in [Conns -> Seq({"answer", "full", "invalid"})] /\ commands \in Seq(Conns)
  BY DEF Init
<1>4. Len(commands) <= QueueLen /\ events \in Seq(Conns \cup {Shutdown})
  BY ServerAssumption DEF Init
<1> QED BY <1>1, <1>2, <1>3, <1>4 DEF Init, TypeOK

(* What a line or a part of one adds to the text that was read.            *)
LEMMA TextRead ==
    ASSUME TypeOK, NEW c \in Conns, NEW m \in Nat, NEW n \in 0..Len(sent[c])
    PROVE  request[c] \o SubSeq(sent[c], m + 1, n) \in Seq(Chunk)
<1>1. request[c] \in Seq(Chunk) /\ sent[c] \in Seq(Chunk)
  BY DEF TypeOK
<1>2. SubSeq(sent[c], m + 1, n) \in Seq(Chunk)
  BY <1>1
<1> QED BY <1>1, <1>2

LEMMA LineType ==
    ASSUME TypeOK, NEW c \in Conns, TakeLine(c)
    PROVE  request' \in [Conns -> Seq(Chunk)] /\ seen' \in [Conns -> Nat]
<1>1. PICK end \in LineEnds(c) :
        /\ request' = [request EXCEPT ![c] = @ \o SubSeq(sent[c], seen[c] + 1, end)]
        /\ \E next \in {end, Len(sent[c])} : seen' = [seen EXCEPT ![c] = next]
  BY DEF TakeLine
<1>2. sent[c] \in Seq(Chunk) /\ Len(sent[c]) \in Nat /\ seen[c] \in Nat
  BY DEF TypeOK
<1>3. end \in 0..Len(sent[c]) /\ end \in Nat
  BY <1>2 DEF LineEnds
<1>4. request[c] \o SubSeq(sent[c], seen[c] + 1, end) \in Seq(Chunk)
  BY <1>2, <1>3, TextRead
<1> QED BY <1>1, <1>2, <1>3, <1>4 DEF TypeOK

LEMMA RespondType ==
    ASSUME TypeOK, NEW c \in Conns, NEW reply \in {"answer", "full", "invalid"}, Respond(c, reply)
    PROVE  replies' \in [Conns -> Seq({"answer", "full", "invalid"})]
<1>1. Append(replies[c], reply) \in Seq({"answer", "full", "invalid"})
  BY DEF TypeOK
<1> QED BY <1>1 DEF Respond, TypeOK

LEMMA PublishType ==
    ASSUME TypeOK, Publish \/ UNCHANGED watch
    PROVE  state' \in Versions /\ fresh' \in BOOLEAN /\ pinged' \in BOOLEAN
<1>1. state' \in Versions
  BY ServerAssumption DEF TypeOK, Publish, Versions, watch
<1>2. fresh' = TRUE \/ fresh' = fresh
  BY DEF Publish, watch
<1>3. pinged' = pinged
  BY DEF Publish, watch
<1> QED BY <1>1, <1>2, <1>3 DEF TypeOK

LEMMA TypeStep == TypeOK /\ PipelineInv /\ [Next]_vars => TypeOK'
<1> SUFFICES ASSUME TypeOK, PipelineInv, [Next]_vars PROVE TypeOK'
  OBVIOUS
<1> USE ServerAssumption
<1>1. CASE UNCHANGED vars
  BY <1>1 DEF TypeOK, vars, network, client, told, reader, queue, loop, watch
<1>2. CASE Users
  <2>1. PICK c \in Conns : \/ Connect(c) \/ Leave(c) \/ Stall(c) \/ Resume(c) \/ Forget(c)
                           \/ \E chunk \in Chunk : Write(c, chunk)
    BY <1>2 DEF Users
  <2>2. CASE Connect(c) \/ Leave(c) \/ Stall(c) \/ Resume(c)
    <3>1. /\ UNCHANGED <<closed, sent, told, thread, reader, line, queue, events, loop, watch>>
          /\ backlog' \subseteq Conns /\ clients' \subseteq Conns
          /\ left' \subseteq Conns /\ stalled' \subseteq Conns
      BY <2>2 DEF TypeOK, Connect, Leave, Stall, Resume, network, client
    <3> QED BY <3>1 DEF TypeOK, told, reader, queue, loop, watch
  <2>3. CASE Forget(c)
    <3>1. <<>> \in Seq(Chunk) /\ <<>> \in Seq({"answer", "full", "invalid"}) /\ -1 \in Versions \cup {-1}
      OBVIOUS
    <3>2. /\ sent' \in [Conns -> Seq(Chunk)] /\ seen' \in [Conns -> Nat]
          /\ request' \in [Conns -> Seq(Chunk)]
      BY <2>3, <3>1 DEF TypeOK, Forget
    <3>3. /\ replies' \in [Conns -> Seq({"answer", "full", "invalid"})]
          /\ shown' \in [Conns -> Versions \cup {-1}]
      BY <2>3, <3>1 DEF TypeOK, Forget
    <3> QED BY <2>3, <3>2, <3>3 DEF TypeOK, Forget, queue, watch
  <2>4. ASSUME NEW chunk \in Chunk, Write(c, chunk) PROVE TypeOK'
    <3>1. Append(sent[c], chunk) \in Seq(Chunk)
      BY <2>4 DEF TypeOK
    <3>2. sent' \in [Conns -> Seq(Chunk)]
      BY <2>4, <3>1 DEF TypeOK, Write
    <3> QED BY <2>4, <3>2 DEF TypeOK, Write, network, told, reader, queue, loop, watch
  <2> QED BY <2>1, <2>2, <2>3, <2>4
<1>3. CASE IpcThread
  <2>1. CASE Accept
    BY <2>1 DEF TypeOK, Accept, client, told, queue, loop, watch
  <2>2. CASE OnResponse
    <3>1. Head(events) \in Conns /\ Tail(events) \in Seq(Conns \cup {Shutdown})
      BY <2>2 DEF TypeOK, OnResponse
    <3>2. replies' \in [Conns -> Seq({"answer", "full", "invalid"})]
      BY <2>2, <3>1, RespondType DEF OnResponse, TypeOK
    <3> QED BY <2>2, <3>1, <3>2 DEF TypeOK, OnResponse, Close, network, client, queue, loop, watch
  <2>3. CASE OnPing
    <3>1. shown' \in [Conns -> Versions \cup {-1}]
      BY <2>3 DEF TypeOK, OnPing
    <3> QED BY <2>3, <3>1 DEF TypeOK, OnPing, Close, network, client, queue, loop
  <2>4. CASE OnShutdown
    <3>1. Tail(events) \in Seq(Conns \cup {Shutdown})
      BY <2>4 DEF TypeOK, OnShutdown
    <3> QED BY <2>4, <3>1 DEF TypeOK, OnShutdown, network, client, told, reader, queue, loop, watch
  <2>5. CASE StopLoop
    BY <2>5 DEF TypeOK, StopLoop, EndThread, client, told, queue, loop, watch
  <2>6. ASSUME NEW c \in Conns, Ready(c) PROVE TypeOK'
    <3>1. CASE ReadPart(c)
      <4>1. sent[c] \in Seq(Chunk) /\ Len(sent[c]) \in Nat /\ seen[c] \in Nat /\ request[c] \in Seq(Chunk)
        BY DEF TypeOK
      <4>2. request[c] \o Unread(c) \in Seq(Chunk)
        BY <4>1, TextRead DEF Unread
      <4>3. request' \in [Conns -> Seq(Chunk)] /\ seen' \in [Conns -> Nat]
        BY <3>1, <4>1, <4>2 DEF TypeOK, ReadPart
      <4> QED BY <3>1, <4>3 DEF TypeOK, ReadPart, network, client, told, queue, loop, watch
    <3>2. CASE ReadEnd(c)
      BY <3>2 DEF TypeOK, ReadEnd, Close, client, told, queue, loop, watch
    <3>3. CASE ReadOsk(c)
      <4>1. shown' \in [Conns -> Versions \cup {-1}]
        <5>1. shown \in [Conns -> Versions \cup {-1}] /\ line \in Versions
          BY DEF TypeOK
        <5>2. shown' = [shown EXCEPT ![c] = line] \/ shown' = shown
          BY <3>3 DEF ReadOsk
        <5> QED BY <5>1, <5>2
      <4> QED BY ZenonT(40), <3>3, <4>1, LineType DEF TypeOK, ReadOsk, Close, network, client, queue, loop, watch
    <3>4. CASE ReadCommand(c)
      <4>1. replies' \in [Conns -> Seq({"answer", "full", "invalid"})]
        BY <3>4, RespondType DEF TypeOK, ReadCommand
      <4>2. commands' \in Seq(Conns) /\ Len(commands') <= QueueLen
        <5>1. commands \in Seq(Conns) /\ Len(commands) <= QueueLen
          BY DEF TypeOK
        <5>2. \/ commands' = Append(commands, c) /\ Len(commands) < QueueLen
              \/ commands' = commands
          BY <3>4 DEF ReadCommand, QueueHasRoom
        <5> QED BY <5>1, <5>2
      <4> QED BY ZenonT(40), <3>4, <4>1, <4>2, LineType
              DEF TypeOK, ReadCommand, Close, network, client, loop, watch
    <3>5. CASE ReadBad(c)
      <4>1. replies' \in [Conns -> Seq({"answer", "full", "invalid"})]
        BY <3>5, RespondType DEF TypeOK, ReadBad
      <4> QED BY <3>5, <4>1, LineType DEF TypeOK, ReadBad, Close, client, queue, loop, watch
    <3> QED BY <2>6, <3>1, <3>2, <3>3, <3>4, <3>5 DEF Ready
  <2> QED BY <1>3, <2>1, <2>2, <2>3, <2>4, <2>5, <2>6 DEF IpcThread
<1>4. CASE MainLoop
  <2> USE DEF network, client, told, reader, queue
  <2>1. CASE Top \/ EndBatch
    <3>1. batch' \in 0..BatchLen
      <4>1. batch \in 0..BatchLen /\ 0 \in 0..BatchLen /\ BatchLen \in 0..BatchLen
        BY DEF TypeOK
      <4>2. batch' \in {0, BatchLen, batch}
        BY <2>1 DEF Top, EndBatch
      <4> QED BY <4>1, <4>2
    <3>2. state' \in Versions /\ fresh' \in BOOLEAN /\ pinged' \in BOOLEAN
      BY <2>1, PublishType DEF Top, EndBatch
    <3>3. main' \in {"closing", "batch", "top", "ping"}
      BY <2>1 DEF Top, EndBatch, Publish
    <3> QED BY <2>1, <3>1, <3>2, <3>3 DEF TypeOK, Top, EndBatch
  <2>2. CASE TakeCommand
    <3>1. /\ commands \in Seq(Conns) /\ Len(commands) <= QueueLen /\ commands # <<>>
          /\ batch \in 0..BatchLen /\ batch > 0
      BY <2>2 DEF TypeOK, TakeCommand
    <3>2. Head(commands) \in Conns /\ Tail(commands) \in Seq(Conns) /\ Len(Tail(commands)) <= QueueLen
      BY <3>1
    <3>3. batch - 1 \in 0..BatchLen
      BY <3>1
    <3> QED BY <2>2, <3>2, <3>3 DEF TypeOK, TakeCommand, watch
  <2>3. CASE HandleCommand
    <3>1. state' \in Versions /\ fresh' \in BOOLEAN /\ pinged' \in BOOLEAN
      BY <2>3, PublishType DEF HandleCommand
    <3>2. main' \in {"closing", "respond", "ping"} /\ executed' = executed \cup {hand} /\ hand \in Conns
      BY <2>3 DEF HandleCommand, Publish, PipelineInv
    <3> QED BY <2>3, <3>1, <3>2 DEF TypeOK, HandleCommand
  <2>4. CASE SendPing
    BY <2>4 DEF TypeOK, SendPing
  <2>5. CASE SendResponse \/ DropServer
    <3>1. hand \in Conns \cup {Shutdown} /\ Shutdown \in Conns \cup {Shutdown}
      BY DEF TypeOK, Shutdown
    <3>2. events' \in Seq(Conns \cup {Shutdown})
      <4>1. events' \in {events, Append(events, hand), Append(events, Shutdown)}
        BY <2>5 DEF SendResponse, DropServer, SendEvent
      <4>2. events \in Seq(Conns \cup {Shutdown})
        BY DEF TypeOK
      <4> QED BY <3>1, <4>1, <4>2
    <3> QED BY <2>5, <3>2 DEF TypeOK, SendResponse, DropServer, watch
  <2>6. CASE DropCommands
    <3>1. <<>> \in Seq(Conns) /\ Len(<<>>) <= QueueLen
      OBVIOUS
    <3> QED BY <2>6, <3>1 DEF TypeOK, DropCommands, watch
  <2>7. CASE Join
    BY <2>7 DEF TypeOK, Join, watch
  <2> QED BY <1>4, <2>1, <2>2, <2>3, <2>4, <2>5, <2>6, <2>7 DEF MainLoop
<1>5. CASE Signal
  BY <1>5 DEF TypeOK, Signal, network, client, told, reader, queue, watch
<1>6. CASE LoopFails
  BY <1>6 DEF TypeOK, LoopFails, EndThread, client, told, queue, loop, watch
<1> QED BY <1>1, <1>2, <1>3, <1>4, <1>5, <1>6 DEF Next

-----------------------------------------------------------------------------
(* Connections.                                                            *)

(* What was read of a line is never taken back.                            *)
LEMMA TextKeepsStart ==
    ASSUME TypeOK, NEW c \in Conns, TakeLine(c) \/ ReadPart(c)
    PROVE  \A d \in Conns : request[d] # <<>> =>
               request'[d] # <<>> /\ request'[d][1] = request[d][1]
<1>1. /\ request \in [Conns -> Seq(Chunk)] /\ sent[c] \in Seq(Chunk)
      /\ Len(sent[c]) \in Nat /\ seen[c] \in Nat
  BY DEF TypeOK
<1>2. \A m \in Nat, n \in 0..Len(sent[c]) : SubSeq(sent[c], m + 1, n) \in Seq(Chunk)
  BY <1>1
<1>3. \E more \in Seq(Chunk) : request' = [request EXCEPT ![c] = request[c] \o more]
  <2>1. CASE TakeLine(c)
    <3>1. PICK end \in LineEnds(c) :
            request' = [request EXCEPT ![c] = request[c] \o SubSeq(sent[c], seen[c] + 1, end)]
      BY <2>1 DEF TakeLine
    <3>2. end \in 0..Len(sent[c])
      BY <1>1 DEF LineEnds
    <3> QED BY <1>1, <1>2, <3>1, <3>2
  <2>2. CASE ReadPart(c)
    <3>1. Unread(c) \in Seq(Chunk)
      BY <1>1, <1>2 DEF Unread
    <3>2. request' = request \/ request' = [request EXCEPT ![c] = request[c] \o Unread(c)]
      BY <1>1, <2>2 DEF ReadPart
    <3>3. request[c] \o <<>> = request[c] /\ <<>> \in Seq(Chunk)
      BY <1>1
    <3> QED BY <1>1, <3>1, <3>2, <3>3
  <2> QED BY <2>1, <2>2
<1>4. PICK more \in Seq(Chunk) : request' = [request EXCEPT ![c] = request[c] \o more]
  BY <1>3
<1>5. \A text \in Seq(Chunk) : text # <<>> => (text \o more) # <<>> /\ (text \o more)[1] = text[1]
  OBVIOUS
<1> QED BY <1>1, <1>4, <1>5

LEMMA CommandsStart == \A text : IsCommand(text) => text # <<>> /\ text[1] # "osk"
BY DEF IsCommand

(* Connections are closed that were served.                                *)
LEMMA CloseKeeps ==
    ASSUME TypeOK, NetworkInv, NEW C, C \subseteq clients,
           backlog' = backlog, clients' = clients \ C, closed' = closed \cup C,
           enabled' = enabled \ C, osk' = osk \ C, stalled' = stalled,
           \A d \in osk \ C : request'[d] # <<>> /\ request'[d][1] = "osk",
           \A d \in Conns \ C : replies'[d] = replies[d]
    PROVE  NetworkInv'
BY DEF TypeOK, NetworkInv

LEMMA NetworkStep == TypeOK /\ NetworkInv /\ [Next]_vars => NetworkInv'
<1> SUFFICES ASSUME TypeOK, NetworkInv, [Next]_vars PROVE NetworkInv'
  OBVIOUS
<1>1. CASE UNCHANGED <<backlog, clients, closed, enabled, osk, stalled, request, replies>>
  BY <1>1 DEF NetworkInv
<1>2. CASE Users
  <2>1. PICK c \in Conns : \/ Connect(c) \/ Leave(c) \/ Stall(c) \/ Resume(c) \/ Forget(c)
                           \/ \E chunk \in Chunk : Write(c, chunk)
    BY <1>2 DEF Users
  <2>2. CASE Connect(c)
    BY <2>2 DEF NetworkInv, Connect, Free, client, told, reader
  <2>3. CASE Stall(c) \/ Resume(c)
    BY <2>3 DEF NetworkInv, Stall, Resume, network, told, reader
  <2>4. CASE Forget(c)
    BY <2>4 DEF TypeOK, NetworkInv, Forget
  <2>5. CASE Leave(c) \/ \E chunk \in Chunk : Write(c, chunk)
    BY <1>1, <2>5 DEF Leave, Write, network, told, reader
  <2> QED BY <2>1, <2>2, <2>3, <2>4, <2>5
<1>3. CASE Accept
  BY <1>3 DEF NetworkInv, Accept, client, told
<1>4. CASE OnResponse
  <2> DEFINE c == Head(events)
  <2>1. CASE c \in clients
    <3>1. /\ backlog' = backlog /\ clients' = clients \ {c} /\ closed' = closed \cup {c}
          /\ enabled' = enabled \ {c} /\ osk' = osk \ {c}
          /\ UNCHANGED <<stalled, request>> /\ Respond(c, "answer")
      BY <1>4, <2>1 DEF OnResponse, Close, client
    <3>2. \A d \in Conns \ {c} : replies'[d] = replies[d]
      BY <3>1 DEF TypeOK, Respond
    <3>3. \A d \in osk \ {c} : request'[d] # <<>> /\ request'[d][1] = "osk"
      BY <3>1 DEF NetworkInv
    <3> HIDE DEF c
    <3> QED BY <2>1, <3>1, <3>2, <3>3, CloseKeeps
  <2>2. CASE c \notin clients
    BY <1>1, <1>4, <2>2 DEF OnResponse, network, client
  <2> QED BY <2>1, <2>2
<1>5. CASE OnPing
  <2>1. CASE fresh
    <3>1. /\ backlog' = backlog /\ UNCHANGED <<stalled, request, replies>>
          /\ Close({c \in osk : ~Reads(c)})
      BY <1>5, <2>1 DEF OnPing, Close, client
    <3>2. {c \in osk : ~Reads(c)} \subseteq clients
      BY DEF NetworkInv
    <3> QED BY <3>1, <3>2, CloseKeeps DEF Close, NetworkInv
  <2>2. CASE ~fresh
    BY <1>1, <1>5, <2>2 DEF OnPing, network, client
  <2> QED BY <2>1, <2>2
<1>6. CASE StopLoop \/ LoopFails
  BY <1>6 DEF NetworkInv, StopLoop, LoopFails, EndThread, client, told
<1>7. CASE OnShutdown \/ MainLoop \/ Signal \/ UNCHANGED vars
  BY <1>1, <1>7 DEF OnShutdown, MainLoop, Top, TakeCommand, HandleCommand, SendPing, SendResponse,
     EndBatch, DropCommands, DropServer, Join, Signal, vars, network, client, told, reader
<1>8. ASSUME NEW c \in Conns, Ready(c) PROVE NetworkInv'
  <2>1. CASE ReadPart(c)
    <3>1. UNCHANGED <<backlog, clients, closed, enabled, osk, stalled, replies>>
      BY <2>1 DEF ReadPart, network, client, told
    <3> QED BY <2>1, <3>1, TextKeepsStart DEF NetworkInv, TypeOK
  <2>2. CASE ReadEnd(c)
    <3>1. Close({c}) /\ c \in clients /\ UNCHANGED <<stalled, request, replies>>
      BY <2>2 DEF ReadEnd, client, told
    <3> QED BY <3>1, CloseKeeps DEF Close, NetworkInv
  <2>3. ASSUME TakeLine(c), Close({c}), UNCHANGED stalled,
               \A d \in Conns \ {c} : replies'[d] = replies[d]
        PROVE  NetworkInv'
    <3>1. c \in clients
      BY <2>3 DEF TakeLine
    <3>2. \A d \in osk \ {c} : request'[d] # <<>> /\ request'[d][1] = "osk"
      BY <2>3, TextKeepsStart DEF NetworkInv, TypeOK
    <3> QED BY <2>3, <3>1, <3>2, CloseKeeps DEF Close
  <2>4. CASE ReadOsk(c)
    <3>1. CASE Reads(c)
      <4>1. /\ TakeLine(c) /\ IsOsk(request'[c]) /\ c \in enabled /\ osk' = osk \cup {c}
            /\ UNCHANGED <<backlog, clients, closed, enabled, stalled, replies>>
        BY <2>4, <3>1 DEF ReadOsk, TakeLine, network, client
      <4>2. \A d \in osk' : request'[d] # <<>> /\ request'[d][1] = "osk"
        BY <4>1, TextKeepsStart DEF NetworkInv, TypeOK, IsOsk
      <4> QED BY <4>1, <4>2 DEF NetworkInv
    <3>2. CASE ~Reads(c)
      BY <2>3, <2>4, <3>2 DEF ReadOsk, client
    <3> QED BY <3>1, <3>2
  <2>5. CASE ReadCommand(c)
    <3>1. CASE receiver /\ QueueHasRoom
      <4>1. /\ TakeLine(c) /\ IsCommand(request'[c]) /\ enabled' = enabled \ {c}
            /\ UNCHANGED <<backlog, clients, closed, osk, stalled, replies>>
        BY <2>5, <3>1 DEF ReadCommand, network, client
      <4>2. \A d \in osk : request'[d] # <<>> /\ request'[d][1] = "osk"
        BY <4>1, TextKeepsStart DEF NetworkInv, TypeOK
      <4>3. c \notin osk
        BY <4>1, <4>2, CommandsStart
      <4> QED BY <4>1, <4>2, <4>3 DEF NetworkInv
    <3>2. CASE ~(receiver /\ QueueHasRoom)
      <4>1. /\ TakeLine(c) /\ Close({c}) /\ UNCHANGED stalled
            /\ Respond(c, "full") \/ UNCHANGED replies
        BY <2>5, <3>2 DEF ReadCommand, client
      <4>2. \A d \in Conns \ {c} : replies'[d] = replies[d]
        BY <4>1 DEF Respond, TypeOK
      <4> QED BY <2>3, <4>1, <4>2
    <3> QED BY <3>1, <3>2
  <2>6. CASE ReadBad(c)
    <3>1. \A d \in Conns \ {c} : replies'[d] = replies[d]
      BY <2>6 DEF ReadBad, Respond, TypeOK
    <3> QED BY <2>3, <2>6, <3>1 DEF ReadBad, client
  <2> QED BY <1>8, <2>1, <2>2, <2>4, <2>5, <2>6 DEF Ready
<1> QED BY <1>2, <1>3, <1>4, <1>5, <1>6, <1>7, <1>8 DEF Next, IpcThread

-----------------------------------------------------------------------------
(* The end of the daemon.                                                  *)

LEMMA EndStep == ServerInv /\ [Next]_vars => EndInv'
<1> SUFFICES ASSUME ServerInv, [Next]_vars PROVE EndInv'
  OBVIOUS
<1> USE DEF ServerInv
<1>1. ASSUME UNCHANGED <<events, thread, receiver>>,
             main' = main \/ (main' \notin {"shutdown", "joining", "done"} /\ main \notin {"joining", "done"}),
             receiver = FALSE => commands' = commands,
             ~Alive => backlog' \cup clients' \subseteq backlog \cup clients
      PROVE  EndInv'
  BY <1>1 DEF EndInv, Alive
<1>2. CASE Users \/ Accept \/ OnPing \/ Signal \/ UNCHANGED vars
  <2>1. UNCHANGED <<events, thread, receiver>> /\ main' = main /\ commands' = commands
    BY <1>2 DEF Users, Connect, Leave, Stall, Resume, Forget, Write, Accept, OnPing, Signal, vars,
                network, client, told, reader, queue, loop, watch
  <2>2. ~Alive => backlog' \cup clients' \subseteq backlog \cup clients
    BY <1>2 DEF Users, Connect, Leave, Stall, Resume, Forget, Write, Accept, OnPing, Signal, vars,
                network
  <2> QED BY <1>1, <2>1, <2>2
<1>3. ASSUME NEW c \in Conns, Ready(c) PROVE EndInv'
  <2>1. UNCHANGED <<events, thread, receiver>> /\ main' = main /\ Alive
    BY <1>3 DEF Ready, ReadPart, ReadEnd, ReadOsk, ReadCommand, ReadBad, TakeLine, queue, loop
  <2>2. receiver = FALSE => commands' = commands
    BY <1>3 DEF Ready, ReadPart, ReadEnd, ReadOsk, ReadCommand, ReadBad, queue
  <2> QED BY <1>1, <2>1, <2>2
<1>4. CASE OnResponse
  <2>1. /\ events # <<>> /\ events' = Tail(events) /\ events \in Seq(Conns \cup {Shutdown})
        /\ UNCHANGED <<thread, receiver, main, commands>> /\ Alive
    BY <1>4 DEF OnResponse, TypeOK, queue, loop
  <2>2. thread = "running"
    BY <2>1 DEF EndInv
  <2>3. /\ \A i \in DOMAIN events' : events'[i] = events[i + 1] /\ i + 1 \in DOMAIN events
        /\ Len(events') = Len(events) - 1 /\ Len(events) \in Nat
        /\ DOMAIN events' \subseteq Nat
    BY <2>1
  <2>4. Shutdown \in Range(events') => Shutdown \in Range(events)
    BY <2>3 DEF Range
  <2>5. \A i \in DOMAIN events' : events'[i] = Shutdown => i = Len(events')
    BY <2>3 DEF EndInv
  <2> QED BY <2>1, <2>2, <2>4, <2>5 DEF EndInv, Alive
<1>5. CASE OnShutdown
  <2>1. /\ events # <<>> /\ Head(events) = Shutdown /\ events' = Tail(events)
        /\ events \in Seq(Conns \cup {Shutdown})
        /\ UNCHANGED <<backlog, clients, receiver, main, commands>> /\ thread' = "stopping"
    BY <1>5 DEF OnShutdown, TypeOK, queue, loop, network
  <2>2. 1 \in DOMAIN events /\ events[1] = Shutdown
    BY <2>1
  <2>3. Shutdown \in Range(events) /\ Len(events) = 1
    BY <2>2 DEF EndInv, Range
  <2>4. events' = <<>>
    BY <2>1, <2>3
  <2> QED BY <2>1, <2>3, <2>4 DEF EndInv, Alive
<1>6. CASE StopLoop \/ LoopFails
  <2>1. /\ events' = <<>> /\ backlog' = {} /\ clients' = {}
        /\ UNCHANGED <<receiver, main, commands>>
        /\ \/ thread = "stopping" /\ thread' = "ended"
           \/ thread' = "failed"
    BY <1>6 DEF StopLoop, LoopFails, EndThread, queue, loop
  <2>2. Range(<<>>) = {}
    BY DEF Range
  <2> QED BY <2>1, <2>2 DEF EndInv
<1>7. CASE Top \/ HandleCommand \/ SendPing \/ EndBatch
  <2>1. /\ UNCHANGED <<events, thread, receiver, commands, backlog, clients>>
        /\ main \in {"top", "handle", "ping", "batch"}
        /\ main' \in {"top", "batch", "closing", "ping", "respond"}
    BY <1>7 DEF Top, HandleCommand, SendPing, EndBatch, Publish, queue, network
  <2> QED BY <1>1, <2>1
<1>8. CASE TakeCommand
  <2>1. /\ UNCHANGED <<events, thread, receiver, backlog, clients>>
        /\ main = "batch" /\ main' = "handle" /\ commands # <<>>
    BY <1>8 DEF TakeCommand, network
  <2> QED BY <1>1, <2>1 DEF EndInv
<1>9. CASE SendResponse \/ DropServer
  <2> DEFINE e == IF main = "respond" THEN hand ELSE Shutdown
  <2>1. /\ UNCHANGED <<thread, receiver, commands, backlog, clients>>
        /\ \/ main = "respond" /\ main' = "batch"
           \/ main = "shutdown" /\ main' = "joining"
        /\ events' = IF Alive THEN Append(events, e) ELSE events
    BY <1>9 DEF SendResponse, DropServer, SendEvent, queue, network
  <2>2. main = "respond" => hand # Shutdown
    BY ServerAssumption DEF PipelineInv, TypeOK, Shutdown
  <2>3. events \in Seq(Conns \cup {Shutdown}) /\ e \in Conns \cup {Shutdown}
    BY DEF TypeOK, Shutdown
  <2>4. Shutdown \notin Range(events) /\ thread \notin {"stopping", "ended"}
    BY <2>1 DEF EndInv
  <2>5. CASE Alive
    <3>1. thread = "running" /\ events' = Append(events, e)
      BY <2>1, <2>4, <2>5 DEF Alive
    <3> HIDE DEF e
    <3>2. Range(events') = Range(events) \cup {e}
      BY <2>3, <3>1, AppendRange
    <3>3. /\ Len(events) \in Nat /\ DOMAIN events' = 1..(Len(events) + 1)
          /\ Len(events') = Len(events) + 1
          /\ \A i \in 1..Len(events) : events'[i] = events[i] /\ i \in DOMAIN events
      BY <2>3, <3>1
    <3>4. \A i \in DOMAIN events' : events'[i] = Shutdown => i = Len(events')
      BY <2>4, <3>3 DEF Range
    <3>5. Shutdown \in Range(events') => main = "shutdown"
      BY <2>1, <2>2, <2>4, <3>2 DEF e
    <3> QED BY <2>1, <3>1, <3>4, <3>5 DEF EndInv, Alive
  <2>6. CASE ~Alive
    <3>1. events' = events
      BY <2>1, <2>6
    <3> QED BY <2>1, <2>4, <3>1 DEF EndInv, Alive
  <2> QED BY <2>5, <2>6
<1>10. CASE DropCommands \/ Join
  <2>1. /\ UNCHANGED <<events, thread, backlog, clients>>
        /\ \/ main = "closing" /\ main' = "shutdown" /\ commands' = <<>> /\ receiver' = FALSE
           \/ main = "joining" /\ main' = "done" /\ UNCHANGED <<receiver, commands>>
    BY <1>10 DEF DropCommands, Join, queue, network
  <2> QED BY <2>1 DEF EndInv, Alive
<1> QED BY <1>2, <1>3, <1>4, <1>5, <1>6, <1>7, <1>8, <1>9, <1>10 DEF Next, IpcThread, MainLoop

-----------------------------------------------------------------------------
(* Commands on their way.                                                  *)

(* Whatever closes connections that have no command on its way.            *)
LEMMA PipelineFrame ==
    ASSUME PipelineInv, UNCHANGED <<commands, events, hand, executed, main>>,
           closed \subseteq closed',
           \A c \in Queued \cup InHand \cup Answers : Waiting(c)'
    PROVE  PipelineInv'
BY DEF PipelineInv, Queued, InHand, Answers, OnceEach, Shutdown

LEMMA WaitingIsNotEnabled ==
    ASSUME ServerInv, Alive, NEW c \in clients \cap enabled
    PROVE  c \notin Queued \cup InHand \cup Answers \cup executed
<1>1. ~Waiting(c) /\ c \notin closed
  BY DEF ServerInv, NetworkInv, Waiting
<1> QED BY <1>1 DEF ServerInv, PipelineInv

LEMMA UsersPipeline == ServerInv /\ Users => PipelineInv'
<1> SUFFICES ASSUME ServerInv, Users PROVE PipelineInv'
  OBVIOUS
<1>1. PICK c \in Conns : \/ Connect(c) \/ Leave(c) \/ Stall(c) \/ Resume(c) \/ Forget(c)
                         \/ \E chunk \in Chunk : Write(c, chunk)
  BY DEF Users
<1>2. CASE Forget(c)
  <2>1. /\ c \in closed /\ Alive /\ closed' = closed \ {c} /\ executed' = executed \ {c}
        /\ UNCHANGED <<clients, enabled, thread, commands, events, hand, main>>
    BY <1>2 DEF Forget, queue
  <2>2. ~Waiting(c)
    BY <2>1 DEF ServerInv, NetworkInv, Waiting
  <2>3. c \notin Queued \cup InHand \cup Answers
    BY <2>2 DEF ServerInv, PipelineInv
  <2>4. UNCHANGED <<Queued, InHand, Answers>>
    BY <2>1 DEF Queued, InHand, Answers, Shutdown
  <2>5. \A d : Waiting(d)' <=> Waiting(d)
    BY <2>1 DEF Waiting, Alive
  <2>6. OnceEach(commands)' /\ OnceEach(events)'
    BY <2>1 DEF ServerInv, PipelineInv, OnceEach
  <2>7. hand \in InHand => hand # c
    BY <2>3
  <2> QED BY <2>1, <2>3, <2>4, <2>5, <2>6, <2>7, ServerAssumption DEF ServerInv, PipelineInv, InHand, TypeOK
<1>3. CASE ~Forget(c)
  <2>1. /\ UNCHANGED <<clients, closed, enabled, thread>>
        /\ UNCHANGED <<commands, events, hand, executed, main>>
    BY <1>1, <1>3 DEF Connect, Leave, Stall, Resume, Write, network, reader, queue, loop
  <2>2. \A d : Waiting(d)' <=> Waiting(d)
    BY <2>1 DEF Waiting, Alive
  <2> QED BY <2>1, <2>2, PipelineFrame DEF ServerInv, PipelineInv
<1> QED BY <1>2, <1>3

(* The reader of a line hands a command over, or closes a connection that  *)
(* is enabled; subscribers are enabled.                                    *)
LEMMA ClosePipeline ==
    ASSUME ServerInv, Alive, UNCHANGED <<thread, commands, events, hand, executed, main>>,
           NEW C, C \subseteq enabled, Close(C)
    PROVE  PipelineInv'
<1>1. \A c \in Queued \cup InHand \cup Answers : c \in clients /\ c \notin enabled
  BY DEF ServerInv, PipelineInv, Waiting
<1>2. \A c \in Queued \cup InHand \cup Answers : Waiting(c)'
  BY <1>1 DEF Close, Waiting
<1>3. closed \subseteq closed'
  BY DEF Close
<1> QED BY <1>2, <1>3, PipelineFrame DEF ServerInv

LEMMA ReadyPipeline == \A c \in Conns : ServerInv /\ Ready(c) => PipelineInv'
<1> SUFFICES ASSUME NEW c \in Conns, ServerInv, Ready(c) PROVE PipelineInv'
  OBVIOUS
<1>1. Alive /\ c \in clients \cap enabled
  BY DEF Ready, ReadPart, ReadEnd, ReadOsk, ReadCommand, ReadBad, TakeLine
<1>2. UNCHANGED <<thread, events, hand, executed, main>>
  BY DEF Ready, ReadPart, ReadEnd, ReadOsk, ReadCommand, ReadBad, loop
<1>3. ASSUME Close({c}), UNCHANGED commands PROVE PipelineInv'
  BY <1>1, <1>2, <1>3, ClosePipeline
<1>4. ASSUME UNCHANGED <<clients, closed, enabled, commands>> PROVE PipelineInv'
  <2>1. \A d : Waiting(d)' <=> Waiting(d)
    BY <1>2, <1>4 DEF Waiting, Alive
  <2> QED BY <1>2, <1>4, <2>1, PipelineFrame DEF ServerInv, PipelineInv
<1>5. CASE ReadCommand(c) /\ receiver /\ QueueHasRoom
  <2>1. /\ commands' = Append(commands, c) /\ enabled' = enabled \ {c}
        /\ UNCHANGED <<clients, closed>> /\ commands \in Seq(Conns)
    BY <1>5 DEF ReadCommand, network, ServerInv, TypeOK
  <2>2. c \notin Queued \cup InHand \cup Answers \cup executed
    BY <1>1, WaitingIsNotEnabled
  <2>3. Queued' = Queued \cup {c} /\ OnceEach(commands)'
    BY <2>1, <2>2, AppendRange, AppendOnce DEF Queued, ServerInv, PipelineInv, OnceEach
  <2>4. UNCHANGED <<InHand, Answers>> /\ OnceEach(events)'
    BY <1>2 DEF InHand, Answers, Shutdown, OnceEach, ServerInv, PipelineInv
  <2>5. \A d : Waiting(d) \/ d = c => Waiting(d)'
    BY <1>1, <1>2, <2>1 DEF Waiting, Alive
  <2> QED BY <1>2, <2>1, <2>2, <2>3, <2>4, <2>5 DEF ServerInv, PipelineInv
<1>6. CASE ~(ReadCommand(c) /\ receiver /\ QueueHasRoom)
  <2>1. \/ Close({c}) /\ UNCHANGED commands
        \/ UNCHANGED <<clients, closed, enabled, commands>>
    BY <1>6 DEF Ready, ReadPart, ReadEnd, ReadOsk, ReadCommand, ReadBad, network, queue
  <2> QED BY <1>3, <1>4, <2>1
<1> QED BY <1>5, <1>6

LEMMA ThreadPipeline ==
    ServerInv /\ (Accept \/ OnResponse \/ OnPing \/ OnShutdown \/ StopLoop \/ LoopFails) => PipelineInv'
<1> SUFFICES ASSUME ServerInv, Accept \/ OnResponse \/ OnPing \/ OnShutdown \/ StopLoop \/ LoopFails
             PROVE  PipelineInv'
  OBVIOUS
<1> USE DEF ServerInv
<1>1. CASE Accept
  <2>1. /\ Alive /\ clients' = clients \cup backlog /\ enabled' = enabled \cup backlog
        /\ UNCHANGED <<closed, thread>> /\ UNCHANGED <<commands, events, hand, executed, main>>
    BY <1>1 DEF Accept, queue, loop
  <2>2. \A c : Waiting(c) => Waiting(c)'
    BY <2>1 DEF NetworkInv, Waiting, Alive
  <2> QED BY <2>1, <2>2, PipelineFrame DEF PipelineInv
<1>2. CASE OnResponse
  <2> DEFINE c == Head(events)
  <2>1. /\ Alive /\ events # <<>> /\ c # Shutdown /\ events' = Tail(events)
        /\ UNCHANGED <<thread, commands, hand, executed, main>>
        /\ c \in clients => Close({c})
    BY <1>2 DEF OnResponse, queue, loop
  <2>2. /\ c \in Range(events) /\ c \in Conns
        /\ Range(events') = Range(events) \ {c} /\ OnceEach(events')
    BY <2>1, TailRange, ServerAssumption DEF TypeOK, PipelineInv, OnceEach, Shutdown
  <2> HIDE DEF c
  <2>3. c \in Answers /\ Answers' = Answers \ {c}
    BY <2>1, <2>2 DEF Answers, Shutdown
  <2>4. c \in clients /\ Close({c})
    BY <2>1, <2>3 DEF PipelineInv, Waiting
  <2>5. UNCHANGED <<Queued, InHand>> /\ OnceEach(commands)' /\ OnceEach(events)'
    BY <2>1, <2>2 DEF Queued, InHand, OnceEach, PipelineInv
  <2>6. \A d : Waiting(d) /\ d # c => Waiting(d)'
    BY <2>1, <2>4 DEF Waiting, Close, Alive
  <2>7. c \notin Queued \cup InHand
    BY <2>3 DEF PipelineInv
  <2>8. closed' = closed \cup {c}
    BY <2>4 DEF Close
  <2> QED BY <2>1, <2>3, <2>5, <2>6, <2>7, <2>8 DEF PipelineInv
<1>3. CASE OnPing
  <2>1. Alive /\ UNCHANGED <<thread, commands, events, hand, executed, main>>
    BY <1>3 DEF OnPing, queue, loop
  <2>2. CASE fresh
    <3>1. Close({c \in osk : ~Reads(c)})
      BY <1>3, <2>2 DEF OnPing
    <3>2. {c \in osk : ~Reads(c)} \subseteq enabled
      BY DEF NetworkInv
    <3> QED BY <2>1, <3>1, <3>2, ClosePipeline
  <2>3. CASE ~fresh
    <3>1. UNCHANGED <<clients, closed, enabled>>
      BY <1>3, <2>3 DEF OnPing, network
    <3>2. \A d : Waiting(d)' <=> Waiting(d)
      BY <2>1, <3>1 DEF Waiting, Alive
    <3> QED BY <2>1, <3>1, <3>2, PipelineFrame DEF PipelineInv
  <2> QED BY <2>2, <2>3
<1>4. CASE OnShutdown
  <2>1. /\ events # <<>> /\ Head(events) = Shutdown /\ events' = Tail(events)
        /\ thread' = "stopping" /\ Alive
        /\ UNCHANGED <<clients, closed, enabled, commands, hand, executed, main>>
    BY <1>4 DEF OnShutdown, network, reader, queue, loop
  <2>2. /\ Range(events') = Range(events) \ {Shutdown} /\ OnceEach(events')
    BY <2>1, TailRange DEF TypeOK, PipelineInv, OnceEach, Shutdown
  <2>3. UNCHANGED <<Queued, InHand, Answers>> /\ OnceEach(commands)' /\ OnceEach(events)'
    BY <2>1, <2>2 DEF Queued, InHand, Answers, Shutdown, OnceEach, PipelineInv
  <2>4. \A d : Waiting(d)' <=> Waiting(d)
    BY <2>1 DEF Waiting, Alive
  <2> QED BY <2>1, <2>3, <2>4 DEF PipelineInv
<1>5. CASE StopLoop \/ LoopFails
  <2>1. /\ Alive /\ thread' \in {"ended", "failed"} /\ closed' = closed \cup backlog \cup clients
        /\ clients' = {} /\ events' = <<>>
        /\ UNCHANGED <<commands, hand, executed, main>>
    BY <1>5 DEF StopLoop, LoopFails, EndThread, queue, loop, Alive
  <2>2. /\ Range(events') = {} /\ OnceEach(events')
    BY <2>1 DEF Range, OnceEach
  <2>3. UNCHANGED <<Queued, InHand>> /\ Answers' = {} /\ OnceEach(commands)' /\ OnceEach(events)'
    BY <2>1, <2>2 DEF Queued, InHand, Answers, OnceEach, PipelineInv
  <2>4. \A d : Waiting(d) => Waiting(d)' /\ d \in closed'
    BY <2>1 DEF Waiting, Alive
  <2> QED BY <2>1, <2>3, <2>4 DEF PipelineInv
<1> QED BY <1>1, <1>2, <1>3, <1>4, <1>5

(* The main loop carries a command from the queue to its answer.           *)
LEMMA LoopPipeline == ServerInv /\ (MainLoop \/ Signal \/ UNCHANGED vars) => PipelineInv'
<1> SUFFICES ASSUME ServerInv, MainLoop \/ Signal \/ UNCHANGED vars PROVE PipelineInv'
  OBVIOUS
<1> USE DEF ServerInv
<1>1. UNCHANGED <<clients, closed, enabled, thread>>
  BY DEF MainLoop, Top, TakeCommand, HandleCommand, SendPing, SendResponse, EndBatch, DropCommands,
         DropServer, Join, Signal, vars, network, reader
<1>2. \A d : Waiting(d)' <=> Waiting(d)
  BY <1>1 DEF Waiting, Alive
<1>3. CASE Top \/ EndBatch \/ Join \/ Signal \/ UNCHANGED vars
  <2>1. /\ UNCHANGED <<commands, events, hand, executed>>
        /\ \/ main' = main
           \/ main \in {"top", "batch"} /\ main' \in {"top", "batch", "closing", "ping"}
           \/ main' = "done"
    BY <1>3 DEF Top, EndBatch, Publish, Join, Signal, vars, queue, loop
  <2>2. /\ UNCHANGED <<Queued, InHand, Answers>> /\ OnceEach(commands)' /\ OnceEach(events)'
    BY <2>1 DEF Queued, InHand, Answers, Shutdown, OnceEach, PipelineInv
  <2>3. hand = NoConn => InHand = {}
    BY DEF InHand
  <2> QED BY <1>1, <1>2, <2>1, <2>2, <2>3 DEF PipelineInv
<1>4. CASE TakeCommand
  <2>1. /\ main = "batch" /\ main' = "handle" /\ commands # <<>>
        /\ hand' = Head(commands) /\ commands' = Tail(commands) /\ UNCHANGED <<events, executed>>
    BY <1>4 DEF TakeCommand
  <2>2. /\ hand' \in Queued /\ hand' \in Conns /\ Queued' = Queued \ {hand'} /\ OnceEach(commands')
    BY <2>1, TailRange DEF TypeOK, PipelineInv, OnceEach, Queued
  <2>3. InHand = {} /\ InHand' = {hand'}
    BY <2>1, <2>2, ServerAssumption DEF PipelineInv, InHand
  <2>4. UNCHANGED Answers /\ OnceEach(commands)' /\ OnceEach(events)'
    BY <2>1, <2>2 DEF Answers, Shutdown, OnceEach, PipelineInv
  <2> QED BY <1>1, <1>2, <2>1, <2>2, <2>3, <2>4 DEF PipelineInv
<1>5. CASE HandleCommand
  <2>1. /\ main = "handle" /\ main' \in {"ping", "respond", "closing"}
        /\ executed' = executed \cup {hand} /\ UNCHANGED <<commands, events, hand>>
    BY <1>5 DEF HandleCommand, Publish, queue
  <2>2. UNCHANGED <<Queued, InHand, Answers>> /\ OnceEach(commands)' /\ OnceEach(events)'
    BY <2>1 DEF Queued, InHand, Answers, Shutdown, OnceEach, PipelineInv
  <2>3. InHand = {hand}
    BY <2>1, ServerAssumption DEF PipelineInv, InHand
  <2> QED BY <1>1, <1>2, <2>1, <2>2, <2>3 DEF PipelineInv
<1>6. CASE SendPing
  <2>1. /\ main = "ping" /\ main' = (IF hand = NoConn THEN "top" ELSE "respond")
        /\ UNCHANGED <<commands, events, hand, executed>>
    BY <1>6 DEF SendPing, queue
  <2>2. UNCHANGED <<Queued, InHand, Answers>> /\ OnceEach(commands)' /\ OnceEach(events)'
    BY <2>1 DEF Queued, InHand, Answers, Shutdown, OnceEach, PipelineInv
  <2>3. hand # NoConn => hand \in executed
    BY <2>1 DEF PipelineInv, InHand
  <2> QED BY <1>1, <1>2, <2>1, <2>2, <2>3 DEF PipelineInv
<1>7. CASE SendResponse
  <2>1. /\ main = "respond" /\ main' = "batch" /\ hand' = NoConn /\ hand \in executed /\ hand \in Conns
        /\ UNCHANGED <<commands, executed>>
        /\ events' = IF Alive THEN Append(events, hand) ELSE events
    BY <1>7 DEF SendResponse, SendEvent, queue, PipelineInv, TypeOK
  <2>2. InHand = {hand} /\ InHand' = {} /\ UNCHANGED Queued /\ OnceEach(commands)'
    BY <2>1, ServerAssumption DEF InHand, Queued, OnceEach, PipelineInv
  <2>3. hand \notin Range(events) /\ events \in Seq(Conns \cup {Shutdown}) /\ Waiting(hand)
    BY <2>1, <2>2, ServerAssumption DEF PipelineInv, Answers, Shutdown, TypeOK
  <2>4. CASE Alive
    <3>1. Range(events') = Range(events) \cup {hand} /\ OnceEach(events')
      BY <2>1, <2>3, <2>4, AppendRange, AppendOnce DEF PipelineInv
    <3>2. Answers' = Answers \cup {hand} /\ OnceEach(events)'
      BY <2>1, <3>1, ServerAssumption DEF Answers, Shutdown, OnceEach
    <3> QED BY <1>1, <1>2, <2>1, <2>2, <3>2 DEF PipelineInv
  <2>5. CASE ~Alive
    <3>1. UNCHANGED Answers /\ OnceEach(events)'
      BY <2>1, <2>5 DEF Answers, Shutdown, OnceEach, PipelineInv
    <3>2. hand \in closed
      BY <2>3, <2>5 DEF Waiting, EndInv
    <3> QED BY <1>1, <1>2, <2>1, <2>2, <3>1, <3>2 DEF PipelineInv
  <2> QED BY <2>4, <2>5
<1>8. CASE DropCommands
  <2>1. /\ commands' = <<>> /\ main' = "shutdown" /\ UNCHANGED <<events, hand, executed>>
    BY <1>8 DEF DropCommands
  <2>2. Range(<<>>) = {}
    BY DEF Range
  <2>3. Queued' = {} /\ UNCHANGED <<InHand, Answers>> /\ OnceEach(commands)' /\ OnceEach(events)'
    BY <2>1, <2>2 DEF Queued, InHand, Answers, Shutdown, OnceEach, PipelineInv
  <2> QED BY <1>1, <1>2, <2>1, <2>3 DEF PipelineInv
<1>9. CASE DropServer
  <2>1. /\ main = "shutdown" /\ main' = "joining" /\ UNCHANGED <<commands, hand, executed>>
        /\ events' = IF Alive THEN Append(events, Shutdown) ELSE events
    BY <1>9 DEF DropServer, SendEvent, queue
  <2>2. Shutdown \notin Range(events) /\ events \in Seq(Conns \cup {Shutdown})
    BY <2>1 DEF EndInv, TypeOK
  <2>3. UNCHANGED <<Queued, InHand>> /\ OnceEach(commands)'
    BY <2>1 DEF Queued, InHand, OnceEach, PipelineInv
  <2>4. UNCHANGED Answers /\ OnceEach(events)'
    <3>1. CASE Alive
      <4>1. Range(events') = Range(events) \cup {Shutdown} /\ OnceEach(events')
        BY <2>1, <2>2, <3>1, AppendRange, AppendOnce DEF PipelineInv, Shutdown
      <4> QED BY <4>1 DEF Answers, Shutdown, OnceEach
    <3>2. CASE ~Alive
      BY <2>1, <3>2 DEF Answers, Shutdown, OnceEach, PipelineInv
    <3> QED BY <3>1, <3>2
  <2> QED BY <1>1, <1>2, <2>1, <2>3, <2>4 DEF PipelineInv
<1> QED BY <1>3, <1>4, <1>5, <1>6, <1>7, <1>8, <1>9 DEF MainLoop

LEMMA ServerInit == Init => ServerInv
<1> SUFFICES ASSUME Init PROVE ServerInv
  OBVIOUS
<1>1. Range(<<>>) = {} /\ OnceEach(<<>>)
  BY DEF Range, OnceEach
<1>2. NetworkInv
  BY DEF Init, NetworkInv
<1>3. EndInv
  BY <1>1 DEF Init, EndInv, Alive
<1>4. PipelineInv
  BY <1>1 DEF Init, PipelineInv, Queued, InHand, Answers
<1> QED BY <1>2, <1>3, <1>4, TypeInit DEF ServerInv

LEMMA ServerStep == ServerInv /\ [Next]_vars => ServerInv'
<1> SUFFICES ASSUME ServerInv, [Next]_vars PROVE ServerInv'
  OBVIOUS
<1>1. PipelineInv'
  BY UsersPipeline, ReadyPipeline, ThreadPipeline, LoopPipeline DEF Next, IpcThread
<1> QED BY <1>1, TypeStep, NetworkStep, EndStep DEF ServerInv

LEMMA ServerInvariance == Safety => []ServerInv
BY ServerInit, ServerStep, PTL DEF Safety

(* The variables of the server, its queue and its clients keep their       *)
(* types, and the queue never holds more than sync_channel(32) allows.     *)
THEOREM TypeCorrect == Safety => []TypeOK
<1>1. ServerInv => TypeOK
  BY DEF ServerInv
<1> QED BY <1>1, ServerInvariance, PTL

-----------------------------------------------------------------------------
(* What clients are told.                                                  *)

LEMMA FirstReply ==
    ASSUME TypeOK, NetworkInv, NEW c \in Conns \ closed,
           NEW reply \in {"answer", "full", "invalid"}, Respond(c, reply)
    PROVE  /\ replies'[c] = IF Reads(c) THEN <<reply>> ELSE <<>>
           /\ \A d \in Conns \ {c} : replies'[d] = replies[d]
<1>1. replies[c] = <<>> /\ replies \in [Conns -> Seq({"answer", "full", "invalid"})]
  BY DEF NetworkInv, TypeOK
<1>2. Append(<<>>, reply) = <<reply>>
  OBVIOUS
<1> QED BY <1>1, <1>2 DEF Respond

(* Connections are closed that were served, of which those that sent a     *)
(* command in two parts are told that it is invalid only if one was lost.  *)
LEMMA CloseParts ==
    ASSUME TypeOK, NetworkInv, PartsInv, NEW C, C \subseteq clients, Close(C), UNCHANGED sent,
           \A d \in Conns \ C : /\ seen'[d] = seen[d] /\ request'[d] = request[d]
                                /\ replies'[d] = replies[d],
           \A d \in C, f \in First :
              Parts(d, f) /\ replies'[d] = <<"invalid">> => Lost(d, f)'
    PROVE  PartsInv'
<1>1. \A d, f : Parts(d, f)' <=> Parts(d, f)
  BY DEF Parts
<1>2. backlog \subseteq Conns /\ enabled \subseteq Conns
  BY DEF TypeOK
<1> QED BY <1>1, <1>2 DEF NetworkInv, PartsInv, Close, Lost

(* The whole line of a command in two parts is that command, or its second *)
(* part when the first was lost.                                           *)
LEMMA PartsLine ==
    ASSUME TypeOK, NetworkInv, PartsInv, NEW c \in Conns, NEW f \in First, TakeLine(c), Parts(c, f)
    PROVE  request'[c] = <<f, "tail">> \/ Lost(c, f)'
<1>1. PICK end \in LineEnds(c) :
        request' = [request EXCEPT ![c] = request[c] \o SubSeq(sent[c], seen[c] + 1, end)]
  BY DEF TakeLine
<1>2. c \in enabled /\ request \in [Conns -> Seq(Chunk)]
  BY DEF TakeLine, TypeOK
<1>3. sent[c] = <<f, "tail">> /\ end = 2
  <2>1. end \in DOMAIN sent[c] /\ sent[c][end] # f
    BY <1>1 DEF LineEnds, Lines, First
  <2>2. sent[c] # <<>> /\ sent[c] # <<f>>
    BY <2>1
  <2>3. sent[c] = <<f, "tail">>
    BY <2>2 DEF Parts, Cut
  <2> QED BY <2>1, <2>3
<1>4. \/ seen[c] = 0 /\ request[c] = <<>>
      \/ seen[c] = 1 /\ request[c] = Kept(f)
  BY <1>2 DEF PartsInv
<1>5. request'[c] = request[c] \o SubSeq(<<f, "tail">>, seen[c] + 1, 2)
  BY <1>1, <1>2, <1>3
<1>6. 0 + 1 = 1 /\ 1 + 1 = 2
  OBVIOUS
<1> QED BY <1>4, <1>5, <1>6, PartsJoined DEF Kept, Lost

(* The first part by itself: it is kept, or lost.                          *)
LEMMA PartsPart ==
    ASSUME TypeOK, NetworkInv, PartsInv, NEW c \in Conns, NEW f \in First, ReadPart(c), Parts(c, f)
    PROVE  sent[c] = <<f>> /\ seen'[c] = 1 /\ request'[c] = Kept(f)
<1>1. /\ c \in enabled /\ Unread(c) # <<>> /\ LineEnds(c) = {}
      /\ request' = [request EXCEPT ![c] =
                       IF sent[c][Len(sent[c])] = "torn" THEN @ ELSE @ \o Unread(c)]
      /\ seen' = [seen EXCEPT ![c] = Len(sent[c])]
  BY DEF ReadPart
<1>2. request \in [Conns -> Seq(Chunk)] /\ seen \in [Conns -> Nat]
  BY DEF TypeOK
<1>3. \/ seen[c] = 0 /\ request[c] = <<>>
      \/ seen[c] = 1 /\ request[c] = Kept(f) /\ sent[c] # <<>>
  BY <1>1 DEF PartsInv
<1>4. sent[c] # <<f, "tail">>
  <2> SUFFICES ASSUME sent[c] = <<f, "tail">> PROVE FALSE
    OBVIOUS
  <2>1. 2 \in DOMAIN sent[c] /\ sent[c][2] = "tail" /\ 2 > seen[c]
    BY <1>3
  <2> QED BY <1>1, <2>1 DEF LineEnds, Lines
<1>5. sent[c] # <<>>
  <2> SUFFICES ASSUME sent[c] = <<>> PROVE FALSE
    OBVIOUS
  <2>1. Unread(c) = SubSeq(<<>>, 0 + 1, 0)
    BY <1>3 DEF Unread
  <2> QED BY <1>1, <2>1
<1>6. sent[c] = <<f>>
  BY <1>4, <1>5 DEF Parts, Cut
<1>7. Len(<<f>>) = 1 /\ <<f>>[1] = f
  OBVIOUS
<1>8. Unread(c) = SubSeq(<<f>>, seen[c] + 1, 1)
  BY <1>6, <1>7 DEF Unread
<1>9. seen[c] = 0 /\ request[c] = <<>>
  <2>1. SubSeq(<<f>>, 1 + 1, 1) = <<>>
    OBVIOUS
  <2> QED BY <1>1, <1>3, <1>8, <2>1
<1>10. Unread(c) = <<f>> /\ <<>> \o <<f>> = <<f>>
  <2>1. 0 + 1 = 1 /\ <<>> \o <<f>> = <<f>>
    OBVIOUS
  <2> QED BY <1>8, <1>9, <2>1, PartsJoined
<1> QED BY <1>1, <1>2, <1>6, <1>7, <1>9, <1>10 DEF Kept

LEMMA PartsInit == Init => PartsInv
BY DEF Init, PartsInv, Parts

LEMMA PartsStep == TypeOK /\ NetworkInv /\ PartsInv /\ [Next]_vars => PartsInv'
<1> SUFFICES ASSUME TypeOK, NetworkInv, PartsInv, [Next]_vars PROVE PartsInv'
  OBVIOUS
<1>0. backlog \subseteq Conns /\ enabled \subseteq Conns
  BY DEF TypeOK
<1>1. ASSUME UNCHANGED <<backlog, clients, closed, enabled, sent, seen, request, replies>>
      PROVE  PartsInv'
  BY <1>1 DEF PartsInv, Parts, Lost
<1>2. CASE Users
  <2>1. PICK c \in Conns : \/ Connect(c) \/ Leave(c) \/ Stall(c) \/ Resume(c) \/ Forget(c)
                           \/ \E chunk \in Chunk : Write(c, chunk)
    BY <1>2 DEF Users
  <2>2. CASE Connect(c)
    BY <2>2 DEF PartsInv, Parts, Lost, Connect, Free, client, told, reader
  <2>3. CASE Leave(c) \/ Stall(c) \/ Resume(c)
    BY <1>1, <2>3 DEF Leave, Stall, Resume, network, told, reader
  <2>4. CASE Forget(c)
    <3>1. /\ sent'[c] = <<>> /\ seen'[c] = 0 /\ request'[c] = <<>> /\ replies'[c] = <<>>
          /\ \A d \in Conns \ {c} : /\ sent'[d] = sent[d] /\ seen'[d] = seen[d]
                                    /\ request'[d] = request[d] /\ replies'[d] = replies[d]
          /\ UNCHANGED <<backlog, clients, enabled>> /\ closed' = closed \ {c}
      BY <2>4 DEF TypeOK, Forget
    <3> QED BY <1>0, <3>1 DEF PartsInv, Parts, Lost, NetworkInv
  <2>5. ASSUME NEW chunk \in Chunk, Write(c, chunk) PROVE PartsInv'
    <3>1. /\ c \in backlog \cup clients /\ sent'[c] = Append(sent[c], chunk) /\ sent[c] \in Seq(Chunk)
          /\ \A d \in Conns \ {c} : sent'[d] = sent[d]
          /\ UNCHANGED <<backlog, clients, closed, enabled, seen, request, replies>>
      BY <2>5 DEF TypeOK, Write, network, told, reader
    <3>2. ASSUME NEW f \in First, Parts(c, f)' PROVE Parts(c, f) /\ sent'[c] # <<>>
      <4>1. Cut(Append(sent[c], chunk), f)
        BY <3>1, <3>2 DEF Parts
      <4>2. Cut(sent[c], f) /\ Append(sent[c], chunk) # <<>>
        BY <3>1, <4>1, WrittenBefore
      <4> QED BY <3>1, <4>2 DEF Parts
    <3> QED BY <1>0, <3>1, <3>2 DEF PartsInv, Parts, Lost
  <2> QED BY <2>1, <2>2, <2>3, <2>4, <2>5
<1>3. CASE Accept
  BY <1>3 DEF PartsInv, Parts, Lost, Accept, client, told
<1>4. CASE OnResponse
  <2> DEFINE c == Head(events)
  <2>1. CASE c \in clients
    <3>1. Respond(c, "answer") /\ Close({c}) /\ UNCHANGED <<sent, seen, request>>
      BY <1>4, <2>1 DEF OnResponse, client
    <3> HIDE DEF c
    <3>2. c \in Conns \ closed
      BY <2>1 DEF TypeOK, NetworkInv
    <3>3. /\ replies'[c] # <<"invalid">>
          /\ \A d \in Conns \ {c} : replies'[d] = replies[d]
      BY <3>1, <3>2, FirstReply
    <3> QED BY <1>0, <2>1, <3>1, <3>3, CloseParts
  <2>2. CASE c \notin clients
    BY <1>1, <1>4, <2>2 DEF OnResponse, network, client
  <2> QED BY <2>1, <2>2
<1>5. CASE OnPing
  <2>1. CASE fresh
    <3> DEFINE C == {c \in osk : ~Reads(c)}
    <3>1. Close(C) /\ UNCHANGED <<sent, seen, request, replies>>
      BY <1>5, <2>1 DEF OnPing, client
    <3>2. C \subseteq clients /\ C \subseteq Conns
      BY DEF NetworkInv, TypeOK
    <3> HIDE DEF C
    <3> QED BY <3>1, <3>2, CloseParts DEF PartsInv, Lost
  <2>2. CASE ~fresh
    BY <1>1, <1>5, <2>2 DEF OnPing, network, client
  <2> QED BY <2>1, <2>2
<1>6. CASE StopLoop \/ LoopFails
  BY <1>6 DEF PartsInv, Parts, Lost, StopLoop, LoopFails, EndThread, client, told
<1>7. CASE OnShutdown \/ MainLoop \/ Signal \/ UNCHANGED vars
  BY <1>1, <1>7 DEF OnShutdown, MainLoop, Top, TakeCommand, HandleCommand, SendPing, SendResponse,
     EndBatch, DropCommands, DropServer, Join, Signal, vars, network, client, told, reader
<1>8. ASSUME NEW c \in Conns, Ready(c) PROVE PartsInv'
  <2>1. c \in clients /\ c \in enabled /\ c \notin closed /\ UNCHANGED sent
    BY <1>8 DEF Ready, ReadPart, ReadEnd, ReadOsk, ReadCommand, ReadBad, TakeLine, client, NetworkInv
  <2>2. CASE ReadPart(c)
    <3>1. /\ UNCHANGED <<backlog, clients, closed, enabled, replies>>
          /\ \A d \in Conns \ {c} : seen'[d] = seen[d] /\ request'[d] = request[d]
      BY <2>2 DEF ReadPart, TypeOK, network, told
    <3>2. \A f \in First : Parts(c, f) => sent[c] = <<f>> /\ seen'[c] = 1 /\ request'[c] = Kept(f)
      BY <2>2, PartsPart
    <3>3. replies[c] # <<"invalid">> /\ \A f \in First : <<f>> # <<>>
      <4>1. replies[c] = <<>>
        BY <2>1 DEF NetworkInv
      <4>2. <<>> # <<"invalid">> /\ \A f : <<f>> # <<>>
        OBVIOUS
      <4> QED BY <4>1, <4>2
    <3>4. ASSUME NEW d \in enabled', NEW f \in First, Parts(d, f)'
          PROVE  \/ seen'[d] = 0 /\ request'[d] = <<>>
                 \/ seen'[d] = 1 /\ request'[d] = Kept(f) /\ sent'[d] # <<>>
      <4>1. d \in enabled /\ d \in Conns /\ Parts(d, f) /\ sent'[d] = sent[d]
        BY <1>0, <2>1, <3>1, <3>4 DEF Parts
      <4>2. CASE d = c
        BY <2>1, <3>2, <3>3, <4>1, <4>2
      <4>3. CASE d # c
        BY <3>1, <4>1, <4>3 DEF PartsInv
      <4> QED BY <4>2, <4>3
    <3>5. ASSUME NEW d \in Conns, NEW f \in First, Parts(d, f)', replies'[d] = <<"invalid">>
          PROVE  Lost(d, f)'
      <4>1. d # c /\ Parts(d, f) /\ replies[d] = <<"invalid">>
        BY <2>1, <3>1, <3>3, <3>5 DEF Parts
      <4>2. Lost(d, f)
        BY <4>1 DEF PartsInv
      <4> QED BY <3>1, <4>1, <4>2 DEF Lost
    <3>6. \A d \in Conns \ (backlog' \cup clients' \cup closed') :
              sent'[d] = <<>> /\ seen'[d] = 0 /\ request'[d] = <<>>
      BY <2>1, <3>1 DEF PartsInv
    <3>7. \A d \in backlog' : seen'[d] = 0 /\ request'[d] = <<>>
      BY <1>0, <2>1, <3>1 DEF PartsInv, NetworkInv
    <3> QED BY <3>4, <3>5, <3>6, <3>7 DEF PartsInv
  <2>3. CASE ReadEnd(c)
    <3>1. Close({c}) /\ UNCHANGED <<seen, request, replies>>
      BY <2>3 DEF ReadEnd, told
    <3> QED BY <1>0, <2>1, <3>1, CloseParts DEF PartsInv, Lost
  <2>4. CASE TakeLine(c)
    <3>1. \A d \in Conns \ {c} : seen'[d] = seen[d] /\ request'[d] = request[d]
      BY <2>4 DEF TakeLine, TypeOK
    <3>2. \A f \in First : Parts(c, f) => request'[c] = <<f, "tail">> \/ Lost(c, f)'
      BY <2>4, PartsLine
    <3>3. \A f \in First : Parts(c, f) => /\ IsCommand(request'[c]) \/ Lost(c, f)'
                                         /\ ~IsOsk(request'[c])
      <4>1. <<"tail">>[1] # "osk"
        OBVIOUS
      <4>2. \A f \in First : IsCommand(<<f, "tail">>)
        BY DEF IsCommand, First
      <4>3. \A text : IsCommand(text) => ~IsOsk(text)
        BY CommandsStart DEF IsOsk
      <4>4. ~IsOsk(<<"tail">>)
        BY <4>1 DEF IsOsk
      <4> QED BY <3>2, <4>2, <4>3, <4>4 DEF Lost
    <3>0. replies[c] # <<"invalid">>
      <4>1. replies[c] = <<>>
        BY <2>1 DEF NetworkInv
      <4> QED BY <4>1
    <3>4. CASE ReadOsk(c)
      <4>1. (\A f \in First : ~Parts(c, f)) /\ UNCHANGED replies
        BY <3>3, <3>4 DEF ReadOsk
      <4>2. CASE Reads(c)
        <5>1. UNCHANGED <<backlog, clients, closed, enabled>>
          BY <3>4, <4>2 DEF ReadOsk, network
        <5> QED BY <1>0, <2>1, <3>1, <4>1, <5>1 DEF PartsInv, Parts, Lost, NetworkInv
      <4>3. CASE ~Reads(c)
        <5>1. Close({c})
          BY <3>4, <4>3 DEF ReadOsk
        <5> QED BY <1>0, <2>1, <3>1, <4>1, <5>1, CloseParts
      <4> QED BY <4>2, <4>3
    <3>5. CASE ReadCommand(c)
      <4>1. CASE receiver /\ QueueHasRoom
        <5>1. UNCHANGED <<backlog, clients, closed, replies>> /\ enabled' = enabled \ {c}
          BY <3>5, <4>1 DEF ReadCommand, network
        <5> QED BY <1>0, <2>1, <3>0, <3>1, <5>1 DEF PartsInv, Parts, Lost, NetworkInv
      <4>2. CASE ~(receiver /\ QueueHasRoom)
        <5>1. Close({c}) /\ (Respond(c, "full") \/ UNCHANGED replies)
          BY <3>5, <4>2 DEF ReadCommand
        <5>2. /\ replies'[c] # <<"invalid">>
              /\ \A d \in Conns \ {c} : replies'[d] = replies[d]
          BY <2>1, <5>1, FirstReply DEF NetworkInv
        <5> QED BY <1>0, <2>1, <3>1, <5>1, <5>2, CloseParts
      <4> QED BY <4>1, <4>2
    <3>6. CASE ReadBad(c)
      <4>1. /\ \A f \in First : Parts(c, f) => Lost(c, f)'
            /\ Close({c}) /\ Respond(c, "invalid")
        BY <3>3, <3>6 DEF ReadBad
      <4>2. \A d \in Conns \ {c} : replies'[d] = replies[d]
        BY <2>1, <4>1, FirstReply
      <4> QED BY <1>0, <2>1, <3>1, <4>1, <4>2, CloseParts
    <3> QED BY <1>8, <2>2, <2>3, <3>4, <3>5, <3>6 DEF Ready
  <2> QED BY <1>8, <2>2, <2>3, <2>4 DEF Ready, ReadOsk, ReadCommand, ReadBad
<1> QED BY <1>2, <1>3, <1>4, <1>5, <1>6, <1>7, <1>8 DEF Next, IpcThread

(* PartsAreJoined: ClientReader.request keeps the beginning of a command   *)
(* from one readiness of the socket to the next, unless it ends within a   *)
(* character; no other valid command is ever called invalid.               *)
THEOREM JoinedParts == Safety => []PartsAreJoined
<1>1. PartsInv => PartsAreJoined
  <2> SUFFICES ASSUME PartsInv, NEW c \in Conns, IsCommand(sent[c]), replies[c] = <<"invalid">>
               PROVE  sent[c][1] = "torn" /\ request[c] = <<"tail">>
    BY DEF PartsAreJoined
  <2>1. PICK f \in First : sent[c] = <<f, "tail">>
    BY DEF IsCommand, First
  <2>2. Lost(c, f)
    BY <2>1 DEF PartsInv, Parts, Cut
  <2> QED BY <2>1, <2>2 DEF Lost
<1>2. ServerInv /\ PartsInv /\ [Next]_vars => PartsInv'
  BY PartsStep DEF ServerInv
<1>3. Safety => []PartsInv
  BY PartsInit, ServerInvariance, <1>2, PTL DEF Safety
<1> QED BY <1>1, <1>3, PTL

LEMMA SilentStep == TypeOK /\ NetworkInv /\ NoSilentClose /\ [Next]_vars => NoSilentClose'
<1> SUFFICES ASSUME TypeOK, NetworkInv, NoSilentClose, [Next]_vars PROVE NoSilentClose'
  OBVIOUS
<1>1. ASSUME UNCHANGED <<closed, left, stalled, thread, replies>>, ~receiver => ~receiver'
      PROVE  NoSilentClose'
  BY <1>1 DEF NoSilentClose
<1>2. ASSUME NEW c \in clients, Close({c}), UNCHANGED <<left, stalled, thread, receiver>>,
             \/ \E reply \in {"answer", "full", "invalid"} : Respond(c, reply)
             \/ UNCHANGED replies /\ (c \in left \cup stalled \/ ~receiver)
      PROVE  NoSilentClose'
  <2>1. closed' = closed \cup {c} /\ c \in Conns \ closed
    BY <1>2 DEF Close, NetworkInv, TypeOK
  <2>2. CASE \E reply \in {"answer", "full", "invalid"} : Respond(c, reply)
    <3>1. PICK reply \in {"answer", "full", "invalid"} : Respond(c, reply)
      BY <2>2
    <3>2. /\ replies'[c] = IF Reads(c) THEN <<reply>> ELSE <<>>
          /\ \A d \in Conns \ {c} : replies'[d] = replies[d]
      BY <2>1, <3>1, FirstReply
    <3>3. replies'[c] = <<>> => c \in left \cup stalled
      <4>1. <<reply>> # <<>>
        OBVIOUS
      <4> QED BY <3>2, <4>1 DEF Reads
    <3>4. \A d \in closed \ {c} : d \in Conns
      BY DEF TypeOK
    <3> QED BY <1>2, <2>1, <3>2, <3>3, <3>4 DEF NoSilentClose
  <2>3. CASE UNCHANGED replies /\ (c \in left \cup stalled \/ ~receiver)
    BY <1>2, <2>1, <2>3 DEF NoSilentClose
  <2> QED BY <1>2, <2>2, <2>3
<1>3. CASE Users
  <2>1. PICK c \in Conns : \/ Connect(c) \/ Leave(c) \/ Stall(c) \/ Resume(c) \/ Forget(c)
                           \/ \E chunk \in Chunk : Write(c, chunk)
    BY <1>3 DEF Users
  <2>2. CASE Connect(c) \/ \E chunk \in Chunk : Write(c, chunk)
    BY <1>1, <2>2 DEF Connect, Write, network, client, told, queue
  <2>3. CASE Leave(c) \/ Stall(c) \/ Resume(c)
    <3>1. /\ UNCHANGED <<closed, thread, replies>> /\ receiver' = receiver
          /\ left \subseteq left' /\ stalled \subseteq stalled' \cup clients
      BY <2>3 DEF Leave, Stall, Resume, network, told, queue
    <3> QED BY <3>1 DEF NoSilentClose, NetworkInv
  <2>4. CASE Forget(c)
    <3>1. /\ closed' = closed \ {c} /\ left' = left \ {c} /\ stalled' = stalled \ {c}
          /\ thread' = thread /\ receiver' = receiver
          /\ \A d \in Conns \ {c} : replies'[d] = replies[d]
      BY <2>4 DEF TypeOK, Forget, queue
    <3>2. closed \subseteq Conns
      BY DEF TypeOK
    <3> QED BY <3>1, <3>2 DEF NoSilentClose
  <2> QED BY <2>1, <2>2, <2>3, <2>4
<1>4. CASE Accept \/ Signal \/ UNCHANGED vars
  BY <1>1, <1>4 DEF Accept, Signal, vars, network, client, told, queue
<1>5. CASE MainLoop
  <2>1. UNCHANGED <<closed, left, stalled, thread, replies>>
    BY <1>5 DEF MainLoop, Top, TakeCommand, HandleCommand, SendPing, SendResponse, EndBatch,
                DropCommands, DropServer, Join, network, client, told
  <2>2. receiver' = receiver \/ receiver' = FALSE
    BY <1>5 DEF MainLoop, Top, TakeCommand, HandleCommand, SendPing, SendResponse, EndBatch,
                DropCommands, DropServer, Join, queue
  <2> QED BY <1>1, <2>1, <2>2
<1>6. CASE OnShutdown \/ StopLoop \/ LoopFails
  <2>1. thread' # "running"
    BY <1>6 DEF OnShutdown, StopLoop, LoopFails, EndThread
  <2> QED BY <2>1 DEF NoSilentClose
<1>7. CASE OnResponse
  <2>1. CASE Head(events) \in clients
    <3>1. /\ UNCHANGED <<left, stalled, thread>> /\ receiver' = receiver
          /\ Respond(Head(events), "answer") /\ Close({Head(events)})
      BY <1>7, <2>1 DEF OnResponse, client, queue
    <3> QED BY <1>2, <2>1, <3>1
  <2>2. CASE Head(events) \notin clients
    BY <1>1, <1>7, <2>2 DEF OnResponse, network, client, queue
  <2> QED BY <2>1, <2>2
<1>8. CASE OnPing
  <2>1. CASE fresh
    <3> DEFINE C == {c \in osk : ~Reads(c)}
    <3>1. /\ UNCHANGED <<left, stalled, thread>> /\ replies' = replies /\ receiver' = receiver
          /\ closed' = closed \cup C
      BY <1>8, <2>1 DEF OnPing, Close, client, queue
    <3>2. C \subseteq left \cup stalled
      BY DEF Reads
    <3> HIDE DEF C
    <3> QED BY <3>1, <3>2 DEF NoSilentClose
  <2>2. CASE ~fresh
    BY <1>1, <1>8, <2>2 DEF OnPing, network, client, queue
  <2> QED BY <2>1, <2>2
<1>9. ASSUME NEW c \in Conns, Ready(c) PROVE NoSilentClose'
  <2>1. c \in clients /\ UNCHANGED <<left, stalled, thread>> /\ receiver' = receiver
    BY <1>9 DEF Ready, ReadPart, ReadEnd, ReadOsk, ReadCommand, ReadBad, TakeLine, client, queue
  <2>2. CASE ReadPart(c)
    BY <1>1, <2>1, <2>2 DEF ReadPart, network, told
  <2>3. CASE ReadEnd(c)
    <3>1. Close({c}) /\ c \in left /\ UNCHANGED replies
      BY <2>3 DEF ReadEnd, told
    <3> QED BY <1>2, <2>1, <3>1
  <2>4. CASE ReadOsk(c)
    <3>1. CASE Reads(c)
      BY <1>1, <2>1, <2>4, <3>1 DEF ReadOsk, network
    <3>2. CASE ~Reads(c)
      <4>1. Close({c}) /\ UNCHANGED replies /\ c \in left \cup stalled
        BY <2>4, <3>2 DEF ReadOsk, Reads
      <4> QED BY <1>2, <2>1, <4>1
    <3> QED BY <3>1, <3>2
  <2>5. CASE ReadCommand(c)
    <3>1. CASE receiver /\ QueueHasRoom
      BY <1>1, <2>1, <2>5, <3>1 DEF ReadCommand, network
    <3>2. CASE ~(receiver /\ QueueHasRoom)
      <4>1. Close({c}) /\ (Respond(c, "full") \/ (UNCHANGED replies /\ ~receiver))
        BY <2>5, <3>2 DEF ReadCommand
      <4> QED BY <1>2, <2>1, <4>1
    <3> QED BY <3>1, <3>2
  <2>6. CASE ReadBad(c)
    <3>1. Close({c}) /\ Respond(c, "invalid")
      BY <2>6 DEF ReadBad
    <3> QED BY <1>2, <2>1, <3>1
  <2> QED BY <1>9, <2>2, <2>3, <2>4, <2>5, <2>6 DEF Ready
<1> QED BY <1>3, <1>4, <1>5, <1>6, <1>7, <1>8, <1>9 DEF Next, IpcThread

(* NoSilentClose: whatever closes a connection of a client that reads has  *)
(* written to it before, unless the main loop or the thread is ending.     *)
THEOREM NothingClosesInSilence == Safety => []NoSilentClose
<1>1. Init => NoSilentClose
  BY DEF Init, NoSilentClose
<1>2. ServerInv /\ NoSilentClose /\ [Next]_vars => NoSilentClose'
  BY SilentStep DEF ServerInv
<1> QED BY <1>1, <1>2, ServerInvariance, PTL DEF Safety

(* A connection that is closed while its source is enabled has no command  *)
(* that was carried out.                                                   *)
LEMMA AnsweredFrame ==
    ASSUME ServerInv, ExecutedIsAnswered, Alive, UNCHANGED <<left, thread, hand, executed>>,
           NEW C, C \subseteq enabled, closed' = closed \cup C,
           \A d \in Conns \ C : replies'[d] = replies[d]
    PROVE  ExecutedIsAnswered'
<1>1. \A d \in C : d \notin executed
  BY WaitingIsNotEnabled DEF ServerInv, NetworkInv
<1>2. executed \subseteq Conns
  BY DEF ServerInv, TypeOK
<1> QED BY <1>1, <1>2 DEF ExecutedIsAnswered

LEMMA AnsweredStep == ServerInv /\ ExecutedIsAnswered /\ [Next]_vars => ExecutedIsAnswered'
<1> SUFFICES ASSUME ServerInv, ExecutedIsAnswered, [Next]_vars PROVE ExecutedIsAnswered'
  OBVIOUS
<1>1. ASSUME UNCHANGED <<closed, left, thread, replies, hand, executed>> PROVE ExecutedIsAnswered'
  BY <1>1 DEF ExecutedIsAnswered
<1>2. CASE Users
  <2>1. PICK c \in Conns : \/ Connect(c) \/ Leave(c) \/ Stall(c) \/ Resume(c) \/ Forget(c)
                           \/ \E chunk \in Chunk : Write(c, chunk)
    BY <1>2 DEF Users
  <2>2. CASE Forget(c)
    <3>1. /\ closed' = closed \ {c} /\ executed' = executed \ {c} /\ left' = left \ {c}
          /\ UNCHANGED <<thread, hand>> /\ \A d \in Conns \ {c} : replies'[d] = replies[d]
      BY <2>2 DEF ServerInv, TypeOK, Forget
    <3>2. executed \subseteq Conns
      BY DEF ServerInv, TypeOK
    <3> QED BY <3>1, <3>2 DEF ExecutedIsAnswered
  <2>3. CASE ~Forget(c)
    <3>1. UNCHANGED <<closed, thread, replies, hand, executed>> /\ left \subseteq left'
      BY <2>1, <2>3 DEF Connect, Leave, Stall, Resume, Write, network, client, told, loop
    <3> QED BY <3>1 DEF ExecutedIsAnswered
  <2> QED BY <2>2, <2>3
<1>3. CASE Accept \/ Signal \/ UNCHANGED vars \/ Top \/ SendPing \/ EndBatch \/ DropCommands
           \/ DropServer \/ Join
  BY <1>1, <1>3 DEF Accept, Signal, vars, Top, SendPing, EndBatch, DropCommands, DropServer, Join,
     network, client, told, loop
<1>4. CASE OnShutdown
  <2>1. thread = "running"
    BY <1>4 DEF ServerInv, EndInv, OnShutdown
  <2>2. UNCHANGED <<closed, left, replies, hand, executed>>
    BY <1>4 DEF OnShutdown, network, client, told, loop
  <2> QED BY <2>1, <2>2 DEF ExecutedIsAnswered
<1>5. CASE StopLoop
  <2>1. thread = "stopping" /\ closed' = closed \cup backlog \cup clients
        /\ UNCHANGED <<left, replies, hand, executed>>
    BY <1>5 DEF StopLoop, EndThread, client, told, loop
  <2>2. Answers = {}
    <3>1. Range(<<>>) = {}
      BY DEF Range
    <3> QED BY <2>1, <3>1 DEF ServerInv, EndInv, Answers
  <2>3. \A c \in executed \ closed : c = hand
    BY <2>2 DEF ServerInv, PipelineInv, InHand
  <2> QED BY <2>1, <2>3 DEF ExecutedIsAnswered
<1>6. CASE LoopFails
  <2>1. thread' = "failed"
    BY <1>6 DEF LoopFails, EndThread
  <2> QED BY <2>1 DEF ExecutedIsAnswered
<1>7. CASE TakeCommand
  <2>1. main = "batch" /\ UNCHANGED <<closed, left, thread, replies, executed>>
    BY <1>7 DEF TakeCommand, network, client, told
  <2>2. hand = NoConn /\ NoConn \notin executed
    BY <2>1, ServerAssumption DEF ServerInv, PipelineInv, TypeOK
  <2> QED BY <2>1, <2>2 DEF ExecutedIsAnswered
<1>8. CASE HandleCommand
  <2>1. executed' = executed \cup {hand} /\ UNCHANGED <<closed, left, thread, replies, hand>>
    BY <1>8 DEF HandleCommand, network, client, told
  <2> QED BY <2>1 DEF ExecutedIsAnswered
<1>9. CASE SendResponse
  <2>1. main = "respond" /\ UNCHANGED <<closed, left, thread, replies, executed>>
    BY <1>9 DEF SendResponse, network, client, told
  <2>2. Waiting(hand)
    <3>1. hand \in InHand
      BY <2>1, ServerAssumption DEF ServerInv, PipelineInv, InHand, TypeOK
    <3> QED BY <3>1 DEF ServerInv, PipelineInv
  <2>3. hand \in closed => thread = "failed"
    <3> SUFFICES ASSUME hand \in closed PROVE thread = "failed"
      OBVIOUS
    <3>1. ~Alive
      BY <2>2 DEF Waiting, ServerInv, NetworkInv
    <3>2. thread # "ended"
      BY <2>1 DEF ServerInv, EndInv
    <3> QED BY <3>1, <3>2 DEF Alive, ServerInv, TypeOK
  <2> QED BY <2>1, <2>3 DEF ExecutedIsAnswered
<1>10. CASE OnResponse
  <2> DEFINE c == Head(events)
  <2>1. CASE c \in clients
    <3>1. /\ events # <<>> /\ c # Shutdown /\ Respond(c, "answer")
          /\ closed' = closed \cup {c} /\ UNCHANGED <<left, thread, hand, executed>>
      BY <1>10, <2>1 DEF OnResponse, Close, client, loop
    <3>2. c \in Range(events)
      BY <3>1, TailRange DEF ServerInv, TypeOK, PipelineInv, OnceEach
    <3> HIDE DEF c
    <3>3. Waiting(c)
      BY <3>1, <3>2 DEF ServerInv, PipelineInv, Answers
    <3>4. c \in Conns \ closed /\ c \notin stalled
      BY <2>1, <3>3 DEF Waiting, ServerInv, NetworkInv, TypeOK
    <3>5. /\ replies'[c] = IF Reads(c) THEN <<"answer">> ELSE <<>>
          /\ \A d \in Conns \ {c} : replies'[d] = replies[d]
      BY <3>1, <3>4, FirstReply DEF ServerInv
    <3>6. replies'[c] = <<"answer">> \/ c \in left
      BY <3>4, <3>5 DEF Reads
    <3>7. executed \subseteq Conns
      BY DEF ServerInv, TypeOK
    <3> QED BY <3>1, <3>5, <3>6, <3>7 DEF ExecutedIsAnswered
  <2>2. CASE c \notin clients
    BY <1>1, <1>10, <2>2 DEF OnResponse, network, client, loop
  <2> QED BY <2>1, <2>2
<1>11. CASE OnPing
  <2>1. CASE fresh
    <3> DEFINE C == {c \in osk : ~Reads(c)}
    <3>1. /\ Alive /\ UNCHANGED <<left, thread, hand, executed, replies>> /\ closed' = closed \cup C
      BY <1>11, <2>1 DEF OnPing, Close, client, loop
    <3>2. C \subseteq enabled
      BY DEF ServerInv, NetworkInv
    <3> HIDE DEF C
    <3> QED BY <3>1, <3>2, AnsweredFrame
  <2>2. CASE ~fresh
    BY <1>1, <1>11, <2>2 DEF OnPing, network, client, loop
  <2> QED BY <2>1, <2>2
<1>12. ASSUME NEW c \in Conns, Ready(c) PROVE ExecutedIsAnswered'
  <2>1. /\ Alive /\ c \in clients /\ {c} \subseteq enabled
        /\ UNCHANGED <<left, thread, hand, executed>>
    BY <1>12 DEF Ready, ReadPart, ReadEnd, ReadOsk, ReadCommand, ReadBad, TakeLine, client, loop
  <2>2. \A d \in Conns \ {c} : replies'[d] = replies[d]
    BY <1>12 DEF Ready, ReadPart, ReadEnd, ReadOsk, ReadCommand, ReadBad, Respond, told, ServerInv, TypeOK
  <2>3. \/ closed' = closed \cup {c}
        \/ closed' = closed /\ UNCHANGED replies
    BY <1>12 DEF Ready, ReadPart, ReadEnd, ReadOsk, ReadCommand, ReadBad, Close, network, told
  <2> QED BY <1>1, <2>1, <2>2, <2>3, AnsweredFrame
<1> QED BY <1>2, <1>3, <1>4, <1>5, <1>6, <1>7, <1>8, <1>9, <1>10, <1>11, <1>12
        DEF Next, IpcThread, MainLoop

(* ExecutedIsAnswered: the answer waits in the channel in front of         *)
(* Shutdown, and no connection with a command on its way is closed before. *)
THEOREM AnsweredIfExecuted == Safety => []ExecutedIsAnswered
<1>1. Init => ExecutedIsAnswered
  BY DEF Init, ExecutedIsAnswered
<1> QED BY <1>1, AnsweredStep, ServerInvariance, PTL DEF Safety

-----------------------------------------------------------------------------
(* The promise of Calls.                                                   *)

(* A client with a command on its way has not been told anything, also     *)
(* when it is gone: the command may be carried out all the same.           *)
Unanswered == \A c \in Queued \cup InHand \cup Answers : replies[c] = <<>>

LEMMA UnansweredStep == ServerInv /\ Unanswered /\ [Next]_vars => Unanswered'
<1> SUFFICES ASSUME ServerInv, Unanswered, [Next]_vars PROVE Unanswered'
  OBVIOUS
<1>1. ServerInv'
  BY ServerStep
<1>2. CASE Alive'
  <2>1. \A c \in (Queued \cup InHand \cup Answers)' : Waiting(c)' /\ c \in Conns
    BY <1>1, ServerAssumption DEF ServerInv, PipelineInv, Waiting, TypeOK
  <2>2. \A c \in (Queued \cup InHand \cup Answers)' : c \in Conns \ closed'
    BY <1>1, <1>2, <2>1 DEF Waiting, ServerInv, NetworkInv
  <2> QED BY <1>1, <2>2 DEF Unanswered, ServerInv, NetworkInv
<1>3. CASE ~Alive'
  <2>1. CASE LoopFails \/ StopLoop
    <3>1. /\ UNCHANGED <<replies, commands, hand>> /\ events' = <<>>
      BY <2>1 DEF LoopFails, StopLoop, EndThread, told, queue, loop
    <3>2. UNCHANGED <<Queued, InHand>> /\ Answers' = {}
      BY <3>1 DEF Queued, InHand, Answers, Range
    <3> QED BY <3>1, <3>2 DEF Unanswered
  <2>2. CASE ~(LoopFails \/ StopLoop)
    <3>1. ~Alive /\ UNCHANGED replies
      <4>1. CASE UNCHANGED vars \/ MainLoop \/ Signal
        BY <1>3, <4>1 DEF vars, MainLoop, Top, TakeCommand, HandleCommand, SendPing, SendResponse,
           EndBatch, DropCommands, DropServer, Join, Signal, told, Alive
      <4>2. CASE Accept \/ OnResponse \/ OnPing \/ OnShutdown
        BY <1>3, <4>2 DEF Accept, OnResponse, OnPing, OnShutdown, Alive, queue, loop
      <4>3. ASSUME NEW c \in Conns, Ready(c) PROVE FALSE
        BY <1>3, <4>3 DEF Ready, ReadPart, ReadEnd, ReadOsk, ReadCommand, ReadBad, TakeLine, Alive
      <4>4. CASE Users
        <5>1. PICK c \in Conns : \/ Connect(c) \/ Leave(c) \/ Stall(c) \/ Resume(c) \/ Forget(c)
                                 \/ \E chunk \in Chunk : Write(c, chunk)
          BY <4>4 DEF Users
        <5> QED BY <1>3, <5>1 DEF Connect, Leave, Stall, Resume, Forget, Write, told, Alive
      <4> QED BY <2>2, <4>1, <4>2, <4>3, <4>4 DEF Next, IpcThread
    <3>2. (Queued \cup InHand \cup Answers)' \subseteq Queued \cup InHand \cup Answers
      <4>1. CASE MainLoop
        <5>1. CASE TakeCommand
          <6>1. /\ commands # <<>> /\ commands \in Seq(Conns)
                /\ hand' = Head(commands) /\ commands' = Tail(commands) /\ UNCHANGED events
            BY <5>1 DEF TakeCommand, ServerInv, TypeOK
          <6>2. hand' \in Queued /\ Queued' \subseteq Queued
            BY <6>1, TailRange DEF Queued, ServerInv, PipelineInv, OnceEach
          <6> QED BY <6>1, <6>2 DEF InHand, Answers, Shutdown
        <5>2. CASE ~TakeCommand
          <6>1. /\ commands' \in {commands, <<>>} /\ hand' \in {hand, NoConn} /\ events' = events
            BY <3>1, <4>1, <5>2 DEF MainLoop, Top, HandleCommand, SendPing, SendResponse,
               EndBatch, DropCommands, DropServer, Join, SendEvent, queue
          <6>2. Range(<<>>) = {}
            BY DEF Range
          <6> QED BY <6>1, <6>2 DEF Queued, InHand, Answers, Shutdown
        <5> QED BY <5>1, <5>2
      <4>2. CASE ~MainLoop
        <5>1. UNCHANGED <<commands, hand, events>>
          <6>1. CASE UNCHANGED vars \/ Signal
            BY <6>1 DEF vars, Signal, queue, loop
          <6>2. CASE Users
            BY <6>2 DEF Users, Connect, Leave, Stall, Resume, Forget, Write, queue, loop
          <6>3. CASE IpcThread
            BY <2>2, <3>1, <6>3 DEF IpcThread, Accept, OnResponse, OnPing, OnShutdown,
               Ready, ReadPart, ReadEnd, ReadOsk, ReadCommand, ReadBad, TakeLine
          <6> QED BY <2>2, <4>2, <6>1, <6>2, <6>3 DEF Next
        <5> QED BY <5>1 DEF Queued, InHand, Answers, Shutdown
      <4> QED BY <4>1, <4>2
    <3> QED BY <3>1, <3>2 DEF Unanswered
  <2> QED BY <2>1, <2>2
<1> QED BY <1>2, <1>3

Reply == [c \in Conns |-> ReplyTo(c)]

LEMMA PromiseVars ==
    ASSUME UNCHANGED <<closed, replies, executed>>
    PROVE  UNCHANGED Promise!vars
BY DEF Promise!vars, ReplyTo

LEMMA ReplyIsNone == ASSUME TypeOK, NetworkInv, NEW c \in Conns \ closed PROVE Reply[c] = "none"
BY DEF NetworkInv, Reply, ReplyTo

(* Connections that are closed in silence are cut.                         *)
LEMMA CutStep ==
    ASSUME TypeOK, NetworkInv, NEW C \in SUBSET (Conns \ closed),
           closed' = closed \cup C, UNCHANGED <<replies, executed>>
    PROVE  Promise!Next
<1>1. \A c \in C : Reply[c] = "none"
  BY ReplyIsNone
<1>2. Reply' = [c \in Conns |-> IF c \in C THEN "cut" ELSE Reply[c]]
  <2>1. \A c \in Conns : ReplyTo(c)' = IF c \in C THEN "cut" ELSE ReplyTo(c)
    BY DEF NetworkInv, ReplyTo
  <2> QED BY <2>1 DEF Reply
<1>3. Promise!Cut(C)
  BY <1>1, <1>2 DEF Promise!Cut, Reply
<1> QED BY <1>3 DEF Promise!Next

(* A connection that is closed with a reply that its client reads, or in   *)
(* silence.                                                                *)
LEMMA ReplyStep ==
    ASSUME TypeOK, NetworkInv, NEW c \in Conns \ closed,
           NEW reply \in {"answer", "full", "invalid"}, Respond(c, reply),
           closed' = closed \cup {c}, UNCHANGED executed,
           reply = "answer" <=> c \in executed
    PROVE  Promise!Next
<1>1. /\ replies'[c] = IF Reads(c) THEN <<reply>> ELSE <<>>
      /\ \A d \in Conns \ {c} : replies'[d] = replies[d]
  BY FirstReply
<1>2. Reply[c] = "none" /\ replies[c] = <<>>
  BY ReplyIsNone DEF NetworkInv
<1>3. CASE Reads(c)
  <2> DEFINE word == IF reply = "answer" THEN "answered" ELSE "refused"
  <2>1. <<reply>> # <<>> /\ (<<reply>> = <<"answer">> <=> reply = "answer")
    OBVIOUS
  <2>2. \A d \in Conns : ReplyTo(d)' = IF d = c THEN word ELSE ReplyTo(d)
    BY <1>1, <1>3, <2>1 DEF ReplyTo
  <2>3. Reply' = [Reply EXCEPT ![c] = word]
    BY <2>2 DEF Reply
  <2>4. CASE reply = "answer"
    <3>1. Promise!Answer(c)
      BY <1>2, <2>3, <2>4 DEF Promise!Answer, Reply
    <3> QED BY <3>1 DEF Promise!Next
  <2>5. CASE reply # "answer"
    <3>1. Promise!Refuse(c)
      BY <1>2, <2>3, <2>5 DEF Promise!Refuse, Reply
    <3> QED BY <3>1 DEF Promise!Next
  <2> QED BY <2>4, <2>5
<1>4. CASE ~Reads(c)
  <2>1. \A d \in Conns : replies'[d] = replies[d]
    BY <1>1, <1>2, <1>4
  <2>2. \A d \in Conns : ReplyTo(d)' = IF d = c THEN "cut" ELSE ReplyTo(d)
    BY <1>2, <2>1 DEF ReplyTo
  <2>3. Reply' = [d \in Conns |-> IF d \in {c} THEN "cut" ELSE Reply[d]]
    BY <2>2 DEF Reply
  <2>4. Promise!Cut({c})
    BY <1>2, <2>3 DEF Promise!Cut, Reply
  <2>5. {c} \in SUBSET Conns
    OBVIOUS
  <2> QED BY <2>4, <2>5 DEF Promise!Next
<1> QED BY <1>3, <1>4

LEMMA PromiseStep == ServerInv /\ Unanswered /\ [Next]_vars => [Promise!Next]_(Promise!vars)
<1> SUFFICES ASSUME ServerInv, Unanswered, [Next]_vars PROVE Promise!Next \/ UNCHANGED Promise!vars
  OBVIOUS
<1>1. TypeOK /\ NetworkInv
  BY DEF ServerInv
<1>2. CASE UNCHANGED <<closed, replies, executed>>
  BY <1>2, PromiseVars
<1>3. CASE Users
  <2>1. PICK c \in Conns : \/ Connect(c) \/ Leave(c) \/ Stall(c) \/ Resume(c) \/ Forget(c)
                           \/ \E chunk \in Chunk : Write(c, chunk)
    BY <1>3 DEF Users
  <2>2. CASE Forget(c)
    <3>1. /\ c \in closed /\ closed' = closed \ {c} /\ executed' = executed \ {c}
          /\ replies'[c] = <<>> /\ \A d \in Conns \ {c} : replies'[d] = replies[d]
      BY <1>1, <2>2 DEF TypeOK, Forget
    <3>2. \A d \in Conns : ReplyTo(d)' = IF d = c THEN "none" ELSE ReplyTo(d)
      BY <3>1 DEF ReplyTo
    <3>3. Reply' = [Reply EXCEPT ![c] = "none"] /\ Reply[c] # "none"
      BY <3>1, <3>2 DEF Reply, ReplyTo
    <3>4. Promise!Again(c)
      BY <3>1, <3>3 DEF Promise!Again, Reply
    <3> QED BY <3>4 DEF Promise!Next
  <2>3. CASE ~Forget(c)
    BY <1>2, <2>1, <2>3 DEF Connect, Leave, Stall, Resume, Write, network, told, loop
  <2> QED BY <2>2, <2>3
<1>4. CASE Accept \/ OnShutdown \/ Signal \/ UNCHANGED vars \/ Top \/ TakeCommand \/ SendPing
           \/ SendResponse \/ EndBatch \/ DropCommands \/ DropServer \/ Join
  BY <1>2, <1>4 DEF Accept, OnShutdown, Signal, vars, Top, TakeCommand, SendPing, SendResponse,
     EndBatch, DropCommands, DropServer, Join, network, told, loop
<1>5. CASE HandleCommand
  <2>1. /\ executed' = executed \cup {hand} /\ UNCHANGED <<closed, replies>>
        /\ hand \in Conns \ executed
    BY <1>5 DEF HandleCommand, network, told, ServerInv, PipelineInv
  <2>2. hand \in InHand
    BY <2>1, ServerAssumption DEF InHand
  <2>3. Reply[hand] \in {"none", "cut"} /\ Reply' = Reply
    BY <2>1, <2>2 DEF Unanswered, Reply, ReplyTo
  <2>4. Promise!Execute(hand)
    BY <2>1, <2>3 DEF Promise!Execute, Reply
  <2> QED BY <2>1, <2>4 DEF Promise!Next
<1>6. CASE OnResponse
  <2> DEFINE c == Head(events)
  <2>1. CASE c \in clients
    <3>1. /\ events # <<>> /\ c # Shutdown /\ Respond(c, "answer")
          /\ closed' = closed \cup {c} /\ UNCHANGED executed
      BY <1>6, <2>1 DEF OnResponse, Close, loop
    <3>2. c \in Range(events)
      BY <3>1, TailRange DEF ServerInv, TypeOK, PipelineInv, OnceEach
    <3> HIDE DEF c
    <3>3. c \in executed /\ c \in Conns \ closed
      BY <1>1, <2>1, <3>1, <3>2 DEF ServerInv, PipelineInv, NetworkInv, Answers, TypeOK
    <3> QED BY <1>1, <3>1, <3>3, ReplyStep
  <2>2. CASE c \notin clients
    BY <1>2, <1>6, <2>2 DEF OnResponse, network, loop
  <2> QED BY <2>1, <2>2
<1>7. CASE OnPing
  <2>1. CASE fresh
    <3> DEFINE C == {c \in osk : ~Reads(c)}
    <3>1. closed' = closed \cup C /\ UNCHANGED <<replies, executed>>
      BY <1>7, <2>1 DEF OnPing, Close, loop
    <3>2. C \in SUBSET (Conns \ closed)
      BY <1>1 DEF NetworkInv, TypeOK
    <3> HIDE DEF C
    <3> QED BY <1>1, <3>1, <3>2, CutStep
  <2>2. CASE ~fresh
    BY <1>2, <1>7, <2>2 DEF OnPing, network, loop
  <2> QED BY <2>1, <2>2
<1>8. CASE StopLoop \/ LoopFails
  <2> DEFINE C == backlog \cup clients
  <2>1. closed' = closed \cup C /\ UNCHANGED <<replies, executed>>
    BY <1>8 DEF StopLoop, LoopFails, EndThread, told, loop
  <2>2. C \in SUBSET (Conns \ closed)
    BY <1>1 DEF NetworkInv, TypeOK
  <2> HIDE DEF C
  <2> QED BY <1>1, <2>1, <2>2, CutStep
<1>9. ASSUME NEW c \in Conns, Ready(c) PROVE Promise!Next \/ UNCHANGED Promise!vars
  <2>1. Alive /\ c \in clients \cap enabled /\ UNCHANGED executed
    BY <1>9 DEF Ready, ReadPart, ReadEnd, ReadOsk, ReadCommand, ReadBad, TakeLine, loop
  <2>2. c \notin executed /\ c \in Conns \ closed
    BY <1>1, <2>1, WaitingIsNotEnabled DEF NetworkInv
  <2>3. ASSUME Close({c}), UNCHANGED replies PROVE Promise!Next
    <3>1. {c} \in SUBSET (Conns \ closed) /\ closed' = closed \cup {c}
      BY <2>2, <2>3 DEF Close
    <3> QED BY <1>1, <2>1, <2>3, <3>1, CutStep
  <2>4. ASSUME Close({c}), NEW reply \in {"full", "invalid"}, Respond(c, reply) PROVE Promise!Next
    <3>1. closed' = closed \cup {c}
      BY <2>4 DEF Close
    <3> QED BY <1>1, <2>1, <2>2, <2>4, <3>1, ReplyStep
  <2>5. \/ UNCHANGED <<closed, replies>>
        \/ Close({c}) /\ UNCHANGED replies
        \/ Close({c}) /\ \E reply \in {"full", "invalid"} : Respond(c, reply)
    <3>1. CASE ReadPart(c)
      BY <3>1 DEF ReadPart, network, told
    <3>2. CASE ReadEnd(c)
      BY <3>2 DEF ReadEnd, told
    <3>3. CASE ReadOsk(c)
      BY <3>3 DEF ReadOsk, network
    <3>4. CASE ReadCommand(c)
      BY <3>4 DEF ReadCommand, network
    <3>5. CASE ReadBad(c)
      BY <3>5 DEF ReadBad
    <3> QED BY <1>9, <3>1, <3>2, <3>3, <3>4, <3>5 DEF Ready
  <2> QED BY <1>2, <2>1, <2>3, <2>4, <2>5
<1> QED BY <1>3, <1>4, <1>5, <1>6, <1>7, <1>8, <1>9 DEF Next, IpcThread, MainLoop

(* KeepsPromise: an answer is the answer to the client's own command,      *)
(* which was carried out once; a refused command is not carried out, and a *)
(* connection that is cut has not been told anything.                      *)
THEOREM PromiseKept == Safety => KeepsPromise
<1>1. Init => Promise!Init
  BY DEF Init, Promise!Init, ReplyTo
<1>2. Init => Unanswered
  <2>1. Range(<<>>) = {}
    BY DEF Range
  <2> QED BY <2>1 DEF Init, Unanswered, Queued, InHand, Answers
<1>3. Safety => []Unanswered
  BY <1>2, UnansweredStep, ServerInvariance, PTL DEF Safety
<1> QED BY <1>1, <1>3, PromiseStep, ServerInvariance, PTL DEF Safety, KeepsPromise, Promise!Spec

=============================================================================
