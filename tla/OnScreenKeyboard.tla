-------------------------- MODULE OnScreenKeyboard --------------------------
(***************************************************************************)
(* The way of a trackpad click to a typed key: the daemon's main loop      *)
(* records it in the keyboard's state (core/src/ipc.rs OskState), a watch  *)
(* channel and a ping hand that state to the IPC thread (daemon/src/       *)
(* ipc.rs), which writes it to the subscribed keyboard process; that       *)
(* process looks the key up (osk/src/keyboard.rs) and its output thread    *)
(* (osk/src/wayland.rs) asks the daemon to type it (daemon/src/main.rs).   *)
(* The watch channel keeps only the latest state, so a state carries a     *)
(* short history of clicks.  The hand on the pads is external.             *)
(***************************************************************************)
EXTENDS Integers, Sequences

CONSTANTS
    HistoryLen,  \* OSK_CLICK_HISTORY_LEN
    MaxClicks,   \* bound: clicks in the first run, one less in each later one
    MaxSession,  \* bound: times the keyboard is shown, counted like this
    MaxRun,      \* bound: times the daemon is started
    MaxInbox,    \* lines a connection holds before it is full
    Hit          \* what a click can hit: a character ("key"), "close", or "none" of them

ASSUME BoundsAssumption ==
    /\ HistoryLen \in Nat \ {0}
    /\ MaxClicks \in Nat /\ MaxSession \in Nat /\ MaxRun \in Nat \ {0}
    /\ MaxInbox \in Nat \ {0} /\ Hit \subseteq {"key", "close", "none"}

VARIABLES
    run,         \* which run of the daemon this is
    state,       \* the main loop's OskState, as the watch channel holds it
    closedLately,\* a report closed the keyboard less than one second ago
    pinged,      \* the IPC thread has been pinged
    line,        \* the state the IPC thread last encoded
    subscribed,  \* the keyboard process has a connection
    inbox,       \* what the keyboard process has still to read from it
    initialized, visible, cursor,  \* osk Keyboard: of these names, and click_cursor
    requests,    \* KeyboardOutput still to be sent to the daemon
    typed        \* the click whose key was typed last, or NoClick

daemon == <<run, state, closedLately, pinged>>
server == <<line, subscribed>>
client == <<initialized, visible, cursor>>
vars == <<daemon, server, client, inbox, requests, typed>>

(* The run and the session a click belongs to are not part of any message. *)
Click == [run: 1..MaxRun, session: 1..MaxSession, sequence: 0..(MaxClicks - 1), hit: Hit]
State == [visible: BOOLEAN, session: 0..MaxSession, sequence: 0..MaxClicks, history: Seq(Click)]
KeyboardOutput == [kind: {"key", "hide"}, session: 0..MaxSession, click: Click]
NoClick == [run |-> 0, session |-> 0, sequence |-> 0, hit |-> "none"]
Disconnected == [gone |-> TRUE]

Hidden == [visible |-> FALSE, session |-> 0, sequence |-> 0, history |-> <<>>]

TypeOK ==
    /\ run \in 1..MaxRun
    /\ state \in State /\ line \in State
    /\ closedLately \in BOOLEAN /\ pinged \in BOOLEAN /\ subscribed \in BOOLEAN
    /\ inbox \in Seq(State \cup {Disconnected})
    /\ initialized \in BOOLEAN /\ visible \in BOOLEAN /\ cursor \in 0..MaxClicks
    /\ requests \in Seq(KeyboardOutput)
    /\ typed \in Click \cup {NoClick}
    /\ Len(state.history) <= HistoryLen

Init ==
    /\ run = 1
    /\ state = Hidden /\ line = Hidden
    /\ closedLately = FALSE /\ pinged = FALSE
    /\ subscribed = FALSE /\ inbox = <<>>
    /\ initialized = FALSE /\ visible = FALSE /\ cursor = 0
    /\ requests = <<>> /\ typed = NoClick

-----------------------------------------------------------------------------
(* The daemon's main loop.                                                 *)

(* The last `n' elements of `s'.                                           *)
Newest(s, n) == IF n >= Len(s) THEN s ELSE SubSeq(s, Len(s) - n + 1, Len(s))

(* OskState::set_visible.                                                  *)
Shown(s) ==
    IF s.visible THEN s
    ELSE [s EXCEPT !.visible = TRUE, !.session = @ + 1, !.history = <<>>]
Closed(s) == [s EXCEPT !.visible = FALSE]

(* Fault: the ring does not advance when it is full.                       *)
RecordedWhenRoom(s, hit) ==
    [s EXCEPT !.sequence = @ + 1,
              !.history = IF Len(@) = HistoryLen THEN @
                          ELSE Append(@, [run |-> run, session |-> s.session,
                                          sequence |-> s.sequence, hit |-> hit])]

(* OskState::record_click: the ring of the newest clicks of this session.  *)
Recorded(s, hit) ==
    [s EXCEPT !.sequence = @ + 1,
              !.history = Newest(Append(@, [run |-> run, session |-> s.session,
                                            sequence |-> s.sequence, hit |-> hit]), HistoryLen)]

(* Server::publish_osk, in the same iteration as the change.               *)
Publish(s) == state' = s /\ pinged' = TRUE

(* A report toggles the keyboard.                                          *)
Toggle ==
    /\ ~state.visible => state.session + run <= MaxSession
    /\ Publish(IF state.visible THEN Closed(state) ELSE Shown(state))
    /\ closedLately' = state.visible
    /\ UNCHANGED <<run, server, client, inbox, requests, typed>>

(* A report with a rising click of one pad.  Clicks of both pads in one    *)
(* report are two reports, the first of which the IPC thread did not see.  *)
RecordClick ==
    /\ state.visible
    /\ state.sequence + run <= MaxClicks
    /\ \E hit \in Hit : Publish(Recorded(state, hit))
    /\ UNCHANGED <<run, closedLately, server, client, inbox, requests, typed>>

(* The controller is gone.                                                 *)
ControllerLost ==
    /\ state.visible \/ closedLately
    /\ IF state.visible THEN Publish(Closed(state)) ELSE UNCHANGED <<state, pinged>>
    /\ closedLately' = FALSE
    /\ UNCHANGED <<run, server, client, inbox, requests, typed>>

GraceEnds ==
    /\ closedLately
    /\ closedLately' = FALSE
    /\ UNCHANGED <<run, state, pinged, server, client, inbox, requests, typed>>

Request == Head(requests)

(* Fault: a key is typed whatever session it was made for.                 *)
AcceptsAnySession == state.visible \/ closedLately
AcceptsKey ==
    /\ Request.session # 0 /\ Request.session = state.session
    /\ state.visible \/ closedLately

(* Request::Key: typed, or answered with an error.                         *)
TypeKey ==
    /\ requests # <<>> /\ Request.kind = "key"
    /\ typed' = IF AcceptsKey THEN Request.click ELSE typed
    /\ requests' = Tail(requests)
    /\ UNCHANGED <<daemon, server, client, inbox>>

(* Request::OskHide.                                                       *)
Hide ==
    /\ requests # <<>> /\ Request.kind = "hide"
    /\ IF Request.session # 0 /\ Request.session = state.session /\ state.visible
         THEN Publish(Closed(state)) /\ closedLately' = FALSE
         ELSE UNCHANGED <<state, pinged, closedLately>>
    /\ requests' = Tail(requests)
    /\ UNCHANGED <<run, server, client, inbox, typed>>

(* The daemon's command queue is full or its socket is gone: the request   *)
(* is answered with an error, or not at all, and never tried again.        *)
RequestFails ==
    /\ requests # <<>>
    /\ requests' = Tail(requests)
    /\ UNCHANGED <<daemon, server, client, inbox, typed>>

(* The daemon stops and is started again: only the keyboard process keeps  *)
(* what it had read and what it had still to send.                         *)
Restart ==
    /\ run < MaxRun
    /\ run' = run + 1
    /\ state' = Hidden /\ line' = Hidden
    /\ closedLately' = FALSE /\ pinged' = FALSE
    /\ subscribed' = FALSE
    /\ inbox' = IF subscribed THEN Append(inbox, Disconnected) ELSE inbox
    /\ UNCHANGED <<client, requests, typed>>

-----------------------------------------------------------------------------
(* The IPC thread and the keyboard process.                                *)

(* The ping source's callback: the newest state goes to the subscriber; a  *)
(* subscriber whose socket is full of unread lines is dropped.             *)
Send ==
    /\ pinged
    /\ pinged' = FALSE
    /\ line' = state
    /\ IF ~subscribed THEN UNCHANGED <<subscribed, inbox>>
       ELSE \/ /\ Len(inbox) < MaxInbox
               /\ inbox' = Append(inbox, state)
               /\ UNCHANGED subscribed
            \/ /\ inbox # <<>>
               /\ subscribed' = FALSE
               /\ inbox' = Append(inbox, Disconnected)
    /\ UNCHANGED <<run, state, closedLately, client, requests, typed>>

(* Fault: a new subscriber has to wait for the next change.                *)
SubscribeInSilence ==
    /\ ~subscribed
    /\ subscribed' = TRUE
    /\ UNCHANGED <<daemon, line, client, inbox, requests, typed>>

(* The input thread connects and subscribes: it is sent the line that was  *)
(* encoded last.                                                           *)
Subscribe ==
    /\ ~subscribed
    /\ subscribed' = TRUE
    /\ inbox' = Append(inbox, line)
    /\ UNCHANGED <<daemon, line, client, requests, typed>>

(* Fault: the cursor is not consulted.                                     *)
ClicksSinceShown(s) == s.history

(* OskState::clicks_since(cursor), in wrapping arithmetic: a cursor ahead  *)
(* of the state asks for more clicks than there are.                       *)
ClicksSince(s) == IF cursor > s.sequence THEN s.history ELSE Newest(s.history, s.sequence - cursor)

(* What the clicks hit, up to the first on Close.                          *)
UpToClose(clicks) ==
    LET sent[n \in 0..Len(clicks)] ==
          IF n = 0 THEN <<>>
          ELSE IF clicks[n].hit = "none" \/ \E j \in 1..(n - 1) : clicks[j].hit = "close"
            THEN sent[n - 1]
          ELSE Append(sent[n - 1], clicks[n])
    IN sent[Len(clicks)]

OutputOf(click, session) ==
    [kind |-> IF click.hit = "close" THEN "hide" ELSE "key", session |-> session, click |-> click]

(* Keyboard::update.                                                       *)
Update ==
    /\ inbox # <<>> /\ Head(inbox) # Disconnected
    /\ LET new == Head(inbox)
           hits == IF initialized /\ (new.visible \/ visible)
                     THEN UpToClose(ClicksSince(new)) ELSE <<>>
       IN /\ requests' = requests \o [i \in DOMAIN hits |-> OutputOf(hits[i], new.session)]
          /\ cursor' = new.sequence
          /\ visible' = new.visible
    /\ initialized' = TRUE
    /\ inbox' = Tail(inbox)
    /\ UNCHANGED <<daemon, server, typed>>

(* Keyboard::disconnect.                                                   *)
Disconnect ==
    /\ inbox # <<>> /\ Head(inbox) = Disconnected
    /\ inbox' = Tail(inbox)
    /\ initialized' = FALSE /\ visible' = FALSE
    /\ UNCHANGED <<daemon, server, cursor, requests, typed>>

Next ==
    \/ Toggle \/ RecordClick \/ ControllerLost \/ GraceEnds
    \/ TypeKey \/ Hide \/ RequestFails \/ Restart
    \/ Send \/ Subscribe \/ Update \/ Disconnect

(* The IPC thread answers its pings, the input thread reads on and tries   *)
(* again a second after it was disconnected, and the Wayland loop handles  *)
(* what it is sent.                                                        *)
Fairness == WF_vars(Send) /\ WF_vars(Subscribe) /\ WF_vars(Update) /\ WF_vars(Disconnect)

Safety == Init /\ [][Next]_vars
Spec == Safety /\ Fairness

-----------------------------------------------------------------------------
(* Properties.                                                             *)

(* A click is typed at most once, and clicks are typed in the order they   *)
(* were made, however states were coalesced in the watch channel, sent     *)
(* again to a new connection, or coalesced with a close and a new session, *)
(* and across a restart of the daemon (core ipc.rs clicks_since, osk       *)
(* keyboard.rs update, the single output thread in wayland.rs).            *)
Later(c, d) == c.run > d.run \/ (c.run = d.run /\ c.sequence > d.sequence)
TypedOnceInOrder == [][TypeKey /\ AcceptsKey => Later(typed', typed)]_vars

(* A click made for one showing of the keyboard is not typed into the next *)
(* one: when a key is typed, the session of the click itself, which no     *)
(* message carries, is the one the daemon is in (set_visible and           *)
(* Request::Key).  Sessions are numbered anew when the daemon is           *)
(* restarted, so this is claimed of one run only; see README.              *)
TypedInItsSession ==
    [][TypeKey /\ AcceptsKey /\ typed'.run = run => typed'.session = state.session]_vars

(* What the debug_assert in OskClicks::next asserts, in every state on its *)
(* way: the history is the newest clicks without a gap, and all of them    *)
(* belong to the session the state names.                                  *)
InFlight == {state, line} \cup {inbox[i] : i \in {j \in DOMAIN inbox : inbox[j] # Disconnected}}
HistoryIsNewest ==
    \A s \in InFlight :
        /\ Len(s.history) <= HistoryLen
        /\ \A i \in DOMAIN s.history :
              /\ s.history[i].sequence = s.sequence - Len(s.history) + i - 1
              /\ s.history[i].session = s.session

(* Once the main loop's keyboard stays as it is, the keyboard process      *)
(* shows that and has handled the last click: no ping, no line and no      *)
(* reconnection is missed (publish_osk, run_ipc, the input thread).        *)
Follows ==
    []<><<state' # state>>_state \/ <>[](visible = state.visible /\ cursor = state.sequence)
=============================================================================
