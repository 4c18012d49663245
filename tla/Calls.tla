------------------------------- MODULE Calls -------------------------------
(***************************************************************************)
(* What the control socket promises a client that sends one command: an    *)
(* answer is the answer to its own command, which was executed once; a     *)
(* refusal means that it was not and will not be executed; a connection    *)
(* that is cut says nothing.                                               *)
(***************************************************************************)
CONSTANT Conns
VARIABLES
    reply,    \* what the client of a connection has been told
    executed  \* connections whose command has been executed

vars == <<reply, executed>>

TypeOK ==
    /\ reply \in [Conns -> {"none", "answered", "refused", "cut"}]
    /\ executed \subseteq Conns

Init == reply = [c \in Conns |-> "none"] /\ executed = {}

(* A command may outlive its connection.                                   *)
Execute(c) ==
    /\ c \notin executed /\ reply[c] \in {"none", "cut"}
    /\ executed' = executed \cup {c}
    /\ UNCHANGED reply

Answer(c) ==
    /\ reply[c] = "none" /\ c \in executed
    /\ reply' = [reply EXCEPT ![c] = "answered"]
    /\ UNCHANGED executed

Refuse(c) ==
    /\ reply[c] = "none" /\ c \notin executed
    /\ reply' = [reply EXCEPT ![c] = "refused"]
    /\ UNCHANGED executed

(* Any number of connections end without a word.                           *)
Cut(C) ==
    /\ \A c \in C : reply[c] = "none"
    /\ reply' = [c \in Conns |-> IF c \in C THEN "cut" ELSE reply[c]]
    /\ UNCHANGED executed

(* The next client takes the place of one that is gone.                    *)
Again(c) ==
    /\ reply[c] # "none"
    /\ reply' = [reply EXCEPT ![c] = "none"]
    /\ executed' = executed \ {c}

Next ==
    \/ \E c \in Conns : Execute(c) \/ Answer(c) \/ Refuse(c) \/ Again(c)
    \/ \E C \in SUBSET Conns : Cut(C)

Spec == Init /\ [][Next]_vars
=============================================================================
