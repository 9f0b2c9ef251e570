------------------------------ MODULE GuestChat ------------------------------
(***************************************************************************)
(* The conversation of one invite: the host's queue and event stream of    *)
(* each session (guest.go, transport.go, store.go) and the page in the     *)
(* guest's browser that connects, shows, sends and reconnects              *)
(* (guestkit.html).                                                        *)
(*                                                                         *)
(* The invite stays usable and the gateway up; GuestHub has the rest. Each *)
(* step of the host is a critical section or a channel operation, each     *)
(* step of the page the run of one callback up to its next await. Sessions *)
(* are encrypted: a frame is read with the keys of its session or not at   *)
(* all.                                                                    *)
(***************************************************************************)
EXTENDS Naturals, FiniteSets, Sequences

CONSTANTS
    Session, Stream, Attempt,   \* slots: sessions, event streams, connect() chains
    HostMsg, OwnMsg,            \* messages of the host, of this page
    None,
    QueueDepth,                 \* guestQueueDepth
    MaxWire,                    \* bound: what the socket buffers of a stream hold
    MaxFaults                   \* bound: failures, dropped sessions and clicks

ASSUME NoneAssumption == None \notin Session \cup Stream
ASSUME MsgAssumption == HostMsg \cap OwnMsg = {}
ASSUME BoundAssumption ==
    /\ QueueDepth \in Nat \ {0} /\ MaxWire \in Nat \ {0} /\ MaxFaults \in Nat

VARIABLES
    history,    \* History.entries of the conversation
    marked,     \* messages with a delivery mark
    lost,       \* history: messages dropped on a full queue, or by a panic
    life,       \* a session: in the map, being dropped, its channel closed
    ch,         \* guestSession.ch
    backlog,    \* guestSession.sentBacklog
    streamGen,  \* guestSession.streamGen: the stream that incremented it last
    stream,     \* the runs of handleEvents
    wire,       \* what the stream of es wrote and the page has not read
    cut,        \* the connection of es has broken
    op,         \* sendToGuest or handleSend, for each message
    attempt,    \* the chains of promises that connect() started
    sid, keys,  \* state.sid; the session that state.h2g and state.g2h are of
    es,         \* state.es, if it is open
    connected,  \* state.connected, and the input is enabled
    closing,    \* state.closing
    opening,    \* frames being decrypted
    shown,      \* messages in the page's log
    receipt,    \* what is written beside the page's own messages
    faults

hostVars == <<history, marked, lost, life, ch, backlog, streamGen>>
netVars == <<stream, wire, cut>>
pageVars == <<attempt, sid, keys, es, connected, closing, opening, shown, receipt>>
vars == <<history, marked, lost, life, ch, backlog, streamGen, stream, wire, cut,
          op, attempt, sid, keys, es, connected, closing, opening, shown, receipt, faults>>

-----------------------------------------------------------------------------
Msg == HostMsg \cup OwnMsg
Frame == [kind : {"old", "msg", "ack", "bye"}, ms : SUBSET Msg]
OneMsg(kind, m) == [kind |-> kind, ms |-> {m}]

OpenSessions == {s \in Session : life[s] = "open"}
Running(e) == stream[e].pc \in {"live", "check"}
Gone(e) == es # e \/ cut
InUse(s) ==
    \/ s \in {sid, keys}
    \/ \E a \in Attempt : attempt[a].s = s
    \/ \E e \in Stream : stream[e].s = s /\ (stream[e].pc # "over" \/ es = e)
    \/ \E m \in Msg : s = op[m].s \/ s \in op[m].todo
CanFail == faults < MaxFaults
Fail == CanFail /\ faults' = faults + 1

IdleOp == [pc |-> "idle", key |-> None, s |-> None, todo |-> {}, got |-> FALSE]
NoStream == [pc |-> "over", s |-> None]
NoAttempt == [pc |-> "off", s |-> None]
At(a, pc, s) == attempt' = [attempt EXCEPT ![a] = [pc |-> pc, s |-> s]]
OpGo(m, pc) == op' = [op EXCEPT ![m].pc = pc]
OpDone(m) == op' = [op EXCEPT ![m] = [IdleOp EXCEPT !.pc = "done"]]
StreamGo(e, pc) ==
    stream' = [stream EXCEPT ![e] = IF pc = "over" /\ es # e THEN NoStream
                                    ELSE [@ EXCEPT !.pc = pc]]

Init ==
    /\ history = {} /\ marked = {} /\ lost = {}
    /\ life = [s \in Session |-> "closed"]
    /\ ch = [s \in Session |-> <<>>]
    /\ backlog = [s \in Session |-> FALSE]
    /\ streamGen = [s \in Session |-> None]
    /\ stream = [e \in Stream |-> NoStream]
    /\ wire = <<>> /\ cut = FALSE
    /\ op = [m \in Msg |-> IdleOp]
    /\ \E b \in Attempt :       \* doJoin has called connect
          attempt = [a \in Attempt |-> IF a = b THEN [NoAttempt EXCEPT !.pc = "hello"]
                                       ELSE NoAttempt]
    /\ sid = None /\ keys = None /\ es = None
    /\ connected = FALSE /\ closing = FALSE
    /\ opening = {} /\ shown = {}
    /\ receipt = [m \in OwnMsg |-> "none"]
    /\ faults = 0

-----------------------------------------------------------------------------
(* The host: queue, Deliver, dropSession.                                  *)

\* Seeded fault: the queue has room for everything.
push_Unbounded(s, f) ==
    /\ ch' = [ch EXCEPT ![s] = Append(@, f)]
    /\ UNCHANGED lost

\* push never waits: a frame that finds the queue full is dropped.
push(s, f) ==
    IF Len(ch[s]) < QueueDepth
    THEN ch' = [ch EXCEPT ![s] = Append(@, f)] /\ UNCHANGED lost
    ELSE ch' = ch /\ lost' = IF f.kind = "msg" THEN lost \cup f.ms ELSE lost

\* sendToGuest: into the history first, then Deliver.
SendToGuest(m) ==
    /\ op[m].pc = "idle" /\ m \in HostMsg
    /\ history' = history \cup {m}
    /\ OpGo(m, "list")
    /\ UNCHANGED <<marked, lost, life, ch, backlog, streamGen, netVars, pageVars, faults>>

\* Deliver, and the echo of handleSend: the sessions are listed under the lock
\* and served without it.
ListSessions(m) ==
    /\ op[m].pc = "list"
    /\ LET todo == OpenSessions \ {op[m].s}
       IN  op' = [op EXCEPT ![m].pc = "push", ![m].todo = todo, ![m].got = todo # {}]
    /\ UNCHANGED <<hostVars, netVars, pageVars, faults>>

\* A push on a channel that dropSession has closed meanwhile panics; net/http
\* recovers, and the request ends there.
DeliverOne(m, s) ==
    /\ op[m].pc = "push"
    /\ s \in op[m].todo
    /\ IF life[s] = "closed"
       THEN /\ OpGo(m, "panic")
            /\ lost' = lost \cup {m}
            /\ UNCHANGED ch
       ELSE /\ op' = [op EXCEPT ![m].todo = @ \ {s}]
            /\ push(s, OneMsg("msg", m))
    /\ UNCHANGED <<history, marked, life, backlog, streamGen, netVars, pageVars, faults>>

\* Deliver counted the sessions it listed, not the frames that found room.
SendDone(m) ==
    /\ m \in HostMsg
    /\ \/ op[m].pc = "push" /\ op[m].todo = {}
       \/ op[m].pc = "panic"
    /\ marked' = IF op[m].pc = "push" /\ op[m].got THEN marked \cup {m} ELSE marked
    /\ OpDone(m)
    /\ UNCHANGED <<history, lost, life, ch, backlog, streamGen, netVars, pageVars, faults>>

Read(s) == \E e \in Stream : stream[e].s = s /\ stream[e].pc # "over"

\* A session nobody reads for guestSessionIdle is dropped by the reap loop;
\* another tab, the operator or the host's end may drop one at any time.
Orphan(s) ==
    /\ ~Read(s)
    /\ \A a \in Attempt : attempt[a].s # s

\* It leaves the map and is told; what a sender pushes between the two could
\* as well have come before.
DropSession(s) ==
    /\ life[s] = "open"
    /\ IF Orphan(s) THEN UNCHANGED faults ELSE Fail
    /\ life' = [life EXCEPT ![s] = "told"]
    /\ push(s, [kind |-> "bye", ms |-> {}])
    /\ UNCHANGED <<history, marked, backlog, streamGen, netVars, op, pageVars>>

Supersede(s) ==
    /\ life[s] = "told"
    /\ life' = [life EXCEPT ![s] = "dropped"]
    /\ streamGen' = [streamGen EXCEPT ![s] = None]
    /\ UNCHANGED <<history, marked, lost, ch, backlog, netVars, op, pageVars, faults>>

\* A second later. What is in the channel can still be read, if a stream runs.
CloseChannel(s) ==
    /\ life[s] = "dropped"
    /\ life' = [life EXCEPT ![s] = "closed"]
    /\ ch' = IF Read(s) THEN ch ELSE [ch EXCEPT ![s] = <<>>]
    /\ UNCHANGED <<history, marked, lost, backlog, streamGen, netVars, op, pageVars, faults>>

-----------------------------------------------------------------------------
(* The host: handleEvents.                                                 *)

EventsLookup(e) ==
    /\ stream[e].pc = "request"
    /\ StreamGo(e, IF stream[e].s \in OpenSessions THEN "start" ELSE "over")
    /\ UNCHANGED <<hostVars, wire, cut, op, pageVars, faults>>

\* Seeded fault: the backlog is forgotten.
EventsStart_NoBacklog(e) ==
    LET s == stream[e].s
    IN  /\ stream[e].pc = "start"
        /\ StreamGo(e, "live")
        /\ streamGen' = [streamGen EXCEPT ![s] = e]
        /\ UNCHANGED <<history, marked, lost, life, ch, backlog, wire, cut, op, pageVars, faults>>

\* The stream takes the generation and sends the backlog, once per session.
EventsStart(e) ==
    LET s == stream[e].s
    IN  /\ stream[e].pc = "start"
        /\ StreamGo(e, "live")
        /\ streamGen' = [streamGen EXCEPT ![s] = e]
        /\ backlog' = [backlog EXCEPT ![s] = TRUE]
        /\ wire' = IF backlog[s] \/ Gone(e) THEN wire
                   ELSE <<[kind |-> "old", ms |-> history]>>
        /\ UNCHANGED <<history, marked, lost, life, ch, cut, op, pageVars, faults>>

\* One frame from the channel to the connection. A write to a connection that
\* is gone may fail or vanish; one to a page that does not read waits.
StreamWrite(e) ==
    LET s == stream[e].s
    IN  /\ stream[e].pc = "live"
        /\ ch[s] # <<>>
        /\ Gone(e) \/ Len(wire) < MaxWire
        /\ ch' = [ch EXCEPT ![s] = Tail(@)]
        /\ IF Gone(e)
           THEN (StreamGo(e, "check") \/ StreamGo(e, "over")) /\ UNCHANGED wire
           ELSE StreamGo(e, "check") /\ wire' = Append(wire, Head(ch[s]))
        /\ UNCHANGED <<history, marked, lost, life, backlog, streamGen, cut, op, pageVars, faults>>

\* The keepalive is a turn of the loop too: it finds out that the connection
\* is gone or that the generation has changed.
KeepAlive(e) ==
    /\ stream[e].pc = "live"
    /\ Gone(e) \/ streamGen[stream[e].s] # e
    /\ StreamGo(e, "over")
    /\ UNCHANGED <<hostVars, wire, cut, op, pageVars, faults>>

\* The channel is closed and empty.
ChannelEnds(e) ==
    /\ stream[e].pc = "live"
    /\ life[stream[e].s] = "closed" /\ ch[stream[e].s] = <<>>
    /\ StreamGo(e, "over")
    /\ UNCHANGED <<hostVars, wire, cut, op, pageVars, faults>>

\* The generation is compared after every turn of the loop.
CheckGen(e) ==
    /\ stream[e].pc = "check"
    /\ StreamGo(e, IF streamGen[stream[e].s] = e THEN "live" ELSE "over")
    /\ UNCHANGED <<hostVars, wire, cut, op, pageVars, faults>>

-----------------------------------------------------------------------------
(* The page: connect, openStream, scheduleReconnect.                       *)

\* Slots nothing refers to. Ids are random: which slot stands for a new one
\* makes no difference.
Unused == {s \in Session : life[s] = "closed" /\ ~InUse(s)}
Spare == {e \in Stream : stream[e].pc = "over" /\ e # es}
AnyOf(S, x) == x \in S /\ x = CHOOSE y \in S : TRUE

\* probe has found the host, and hello makes a session there.
HelloHost(a, s) ==
    /\ attempt[a].pc = "hello"
    /\ AnyOf(Unused, s)
    /\ At(a, "answer", s)
    /\ life' = [life EXCEPT ![s] = "open"]
    /\ ch' = [ch EXCEPT ![s] = <<>>]
    /\ backlog' = [backlog EXCEPT ![s] = FALSE]
    /\ streamGen' = [streamGen EXCEPT ![s] = None]
    /\ UNCHANGED <<history, marked, lost, netVars, op, sid, keys, es, connected,
                   closing, opening, shown, receipt, faults>>

\* Seeded fault: the page gives up.
ConnectFails_GivesUp(a) ==
    /\ attempt[a].pc \in {"hello", "answer"}
    /\ Fail
    /\ connected' = FALSE
    /\ At(a, "off", None)
    /\ UNCHANGED <<hostVars, netVars, op, sid, keys, es, closing, opening, shown, receipt>>

\* No address answers, or the answer of hello is lost: connect's catch.
ConnectFails(a) ==
    /\ attempt[a].pc \in {"hello", "answer"}
    /\ Fail
    /\ connected' = FALSE
    /\ At(a, IF closing THEN "off" ELSE "timer", None)
    /\ UNCHANGED <<hostVars, netVars, op, sid, keys, es, closing, opening, shown, receipt>>

\* The page has the id of the session and derives its keys.
HelloAnswer(a) ==
    /\ attempt[a].pc = "answer"
    /\ sid' = attempt[a].s
    /\ At(a, "keys", attempt[a].s)
    /\ UNCHANGED <<hostVars, netVars, op, keys, es, connected, closing, opening,
                   shown, receipt, faults>>

\* openStream closes the stream it replaces, and asks for the current sid.
OpenStream(a, e) ==
    /\ attempt[a].pc = "keys"
    /\ AnyOf(Spare, e)
    /\ keys' = attempt[a].s
    /\ es' = e
    /\ stream' = [stream EXCEPT ![e] = [pc |-> "request", s |-> sid]]
    /\ wire' = <<>> /\ cut' = FALSE
    /\ At(a, "off", None)
    /\ UNCHANGED <<hostVars, op, sid, connected, closing, opening, shown, receipt, faults>>

OnOpen ==
    /\ es # None /\ ~connected
    /\ stream[es].pc \in {"start", "live", "check"} \/ wire # <<>>
    /\ connected' = TRUE
    /\ UNCHANGED <<hostVars, netVars, op, attempt, sid, keys, es, closing, opening,
                   shown, receipt, faults>>

CloseEs == es' = None /\ wire' = <<>> /\ cut' = FALSE

\* Seeded fault: the page waits for the user.
OnError_NoRetry(a) ==
    /\ es # None /\ ~closing
    /\ cut \/ (stream[es].pc = "over" /\ wire = <<>>)
    /\ attempt[a].pc = "off"
    /\ connected' = FALSE
    /\ CloseEs
    /\ UNCHANGED <<hostVars, stream, op, attempt, sid, keys, closing, opening, shown,
                   receipt, faults>>

\* The stream broke, ended or was refused. A page that is closing stays put.
OnError(a) ==
    /\ es # None /\ ~closing
    /\ cut \/ (stream[es].pc = "over" /\ wire = <<>>)
    /\ attempt[a].pc = "off"
    /\ connected' = FALSE
    /\ CloseEs
    /\ At(a, "timer", None)
    /\ UNCHANGED <<hostVars, stream, op, sid, keys, closing, opening, shown, receipt, faults>>

\* Seeded fault: the page remembers that it was closed.
TimerFires_StaysClosing(a) ==
    /\ attempt[a].pc = "timer"
    /\ opening = {}
    /\ At(a, "hello", None)
    /\ UNCHANGED <<hostVars, netVars, op, sid, keys, es, connected, closing, opening,
                   shown, receipt, faults>>

\* The timer of scheduleReconnect, which nothing cancels. Bound: a frame is
\* decrypted before the second is over that it waits at least.
TimerFires(a) ==
    /\ attempt[a].pc = "timer"
    /\ opening = {}
    /\ closing' = FALSE
    /\ At(a, "hello", None)
    /\ UNCHANGED <<hostVars, netVars, op, sid, keys, es, connected, opening, shown,
                   receipt, faults>>

\* The user presses RECONNECT.
Reconnect(a) ==
    /\ attempt[a].pc = "off"
    /\ opening = {}
    /\ CloseEs
    /\ sid' = None
    /\ closing' = FALSE
    /\ At(a, "hello", None)
    /\ Fail
    /\ UNCHANGED <<hostVars, stream, op, keys, connected, opening, shown, receipt>>

\* The network loses the connection and what was on it.
Cut ==
    /\ es # None /\ ~cut
    /\ cut' = TRUE
    /\ wire' = <<>>
    /\ Fail
    /\ UNCHANGED <<hostVars, stream, op, pageVars>>

-----------------------------------------------------------------------------
(* The page: what it reads.                                                *)

\* unseal begins with the keys of the moment; another session's fail. An ack
\* looks for a line with its id, which the lines of send do not have: nothing
\* comes of it.
OnMessage ==
    /\ es # None /\ wire # <<>> /\ connected
    /\ wire' = Tail(wire)
    /\ opening' = IF keys = stream[es].s /\ Head(wire).kind # "ack"
                  THEN opening \cup {Head(wire)} ELSE opening
    /\ UNCHANGED <<hostVars, stream, cut, op, attempt, sid, keys, es, connected, closing,
                   shown, receipt, faults>>

\* A message is a line of the log; a bye closes the stream for good.
HandleEnvelope(f) ==
    /\ f \in opening
    /\ opening' = opening \ {f}
    /\ shown' = shown \cup f.ms
    /\ IF f.kind = "bye"
       THEN CloseEs /\ closing' = TRUE /\ connected' = FALSE
       ELSE UNCHANGED <<wire, cut, es, closing, connected>>
    /\ UNCHANGED <<hostVars, stream, op, attempt, sid, keys, receipt, faults>>

-----------------------------------------------------------------------------
(* The page sends: send, readFrame, handleSend.                            *)

\* The frame is sealed with the keys of now ...
Submit(g) ==
    /\ op[g].pc = "idle" /\ g \in OwnMsg
    /\ connected
    /\ shown' = shown \cup {g}
    /\ receipt' = [receipt EXCEPT ![g] = "waiting"]
    /\ op' = [op EXCEPT ![g].pc = "seal", ![g].key = keys]
    /\ UNCHANGED <<hostVars, netVars, attempt, sid, keys, es, connected, closing, opening, faults>>

\* ... and posted to the session of then.
Post(g) ==
    /\ op[g].pc = "seal"
    /\ op' = [op EXCEPT ![g].pc = "posted", ![g].s = sid]
    /\ UNCHANGED <<hostVars, netVars, pageVars, faults>>

Answered(g, text) == OpDone(g) /\ receipt' = [receipt EXCEPT ![g] = text]

\* No such session, a frame that does not open, or one too many.
Refuse(g) ==
    /\ op[g].pc = "posted"
    /\ \/ /\ op[g].s \notin OpenSessions \/ op[g].key # op[g].s
          /\ Answered(g, "NOT DELIVERED")
          /\ UNCHANGED faults
       \/ Answered(g, "rate limited") /\ Fail
    /\ UNCHANGED <<hostVars, netVars, attempt, sid, keys, es, connected, closing,
                   opening, shown>>

\* readFrame accepts the frame, and handleSend stores the message.
HandleSend(g) ==
    /\ op[g].pc = "posted"
    /\ op[g].s \in OpenSessions /\ op[g].key = op[g].s
    /\ history' = history \cup {g}
    /\ op' = [op EXCEPT ![g].pc = "list", ![g].key = None]
    /\ UNCHANGED <<marked, lost, life, ch, backlog, streamGen, netVars, pageVars, faults>>

SendAck(g) ==
    /\ g \in OwnMsg
    /\ op[g].pc = "push" /\ op[g].todo = {}
    /\ IF life[op[g].s] = "closed"
       THEN OpGo(g, "panic") /\ UNCHANGED <<ch, lost>>
       ELSE OpGo(g, "reply") /\ push(op[g].s, OneMsg("ack", g))
    /\ UNCHANGED <<history, marked, life, backlog, streamGen, netVars, pageVars, faults>>

\* The response reaches the page, or the request fails on the way there or back.
Reply(g) ==
    /\ g \in OwnMsg
    /\ \/ op[g].pc = "reply" /\ Answered(g, "sent") /\ UNCHANGED faults
       \/ op[g].pc = "panic" /\ Answered(g, "NOT DELIVERED") /\ UNCHANGED faults
       \/ op[g].pc \in {"posted", "reply"} /\ Answered(g, "NOT DELIVERED") /\ Fail
    /\ UNCHANGED <<hostVars, netVars, attempt, sid, keys, es, connected, closing,
                   opening, shown>>

-----------------------------------------------------------------------------
DeliverStep(m) == ListSessions(m) \/ SendDone(m) \/ \E s \in Session : DeliverOne(m, s)
PostStep(g) == Post(g) \/ Refuse(g) \/ HandleSend(g) \/ SendAck(g) \/ Reply(g)
DropStep(s) == Supersede(s) \/ CloseChannel(s)
StreamStep(e) ==
    EventsLookup(e) \/ EventsStart(e) \/ StreamWrite(e) \/ ChannelEnds(e) \/ CheckGen(e)
ConnectStep(a) ==
    \/ \E s \in Session : HelloHost(a, s)
    \/ HelloAnswer(a)
    \/ \E e \in Stream : OpenStream(a, e)
    \/ OnError(a)
    \/ TimerFires(a)

Next ==
    \/ \E m \in Msg : SendToGuest(m) \/ DeliverStep(m) \/ Submit(m) \/ PostStep(m)
    \/ \E s \in Session : DropSession(s) \/ DropStep(s)
    \/ \E e \in Stream : StreamStep(e) \/ KeepAlive(e)
    \/ \E a \in Attempt : ConnectStep(a) \/ ConnectFails(a) \/ Reconnect(a)
    \/ OnOpen \/ OnMessage \/ Cut
    \/ \E f \in opening : HandleEnvelope(f)

Spec == Init /\ [][Next]_vars

\* Every goroutine and every promise goes on, timers fire, a broken connection
\* is noticed, and the reap loop drops a session nobody reads. With messages
\* and failures bounded these steps cannot go on for ever, so it is enough that
\* they do not all stop.
Progress ==
    \/ \E m \in Msg : DeliverStep(m) \/ PostStep(m)
    \/ \E s \in Session : DropStep(s) \/ (Orphan(s) /\ DropSession(s))
    \/ \E e \in Stream : StreamStep(e) \/ KeepAlive(e)
    \/ \E a \in Attempt : ConnectStep(a)
    \/ OnOpen \/ OnMessage
    \/ \E f \in opening : HandleEnvelope(f)

Fairness == WF_vars(Progress)

FairSpec == Spec /\ Fairness

-----------------------------------------------------------------------------
(* Properties.                                                             *)

TypeOK ==
    /\ history \subseteq Msg /\ marked \subseteq HostMsg /\ lost \subseteq Msg
    /\ life \in [Session -> {"open", "told", "dropped", "closed"}]
    /\ \A s \in Session : ch[s] \in Seq(Frame) /\ Len(ch[s]) <= QueueDepth
    /\ backlog \in [Session -> BOOLEAN]
    /\ streamGen \in [Session -> Stream \cup {None}]
    /\ stream \in [Stream -> [pc : {"request", "start", "live", "check", "over"},
                              s : Session \cup {None}]]
    /\ wire \in Seq(Frame) /\ Len(wire) <= MaxWire /\ cut \in BOOLEAN
    /\ attempt \in [Attempt -> [pc : {"off", "timer", "hello", "answer", "keys"},
                                s : Session \cup {None}]]
    /\ {sid, keys} \subseteq Session \cup {None}
    /\ es \in Stream \cup {None}
    /\ connected \in BOOLEAN /\ closing \in BOOLEAN
    /\ opening \subseteq Frame /\ shown \subseteq Msg
    /\ receipt \in [OwnMsg -> {"none", "waiting", "sent", "rate limited", "NOT DELIVERED"}]
    /\ faults \in 0 .. MaxFaults

Carries(frames, m) == \E f \in frames : f.kind \in {"old", "msg"} /\ m \in f.ms
Items(seq) == {seq[i] : i \in DOMAIN seq}

\* Nothing falls between the backlog and the queue: every message of the host
\* is in the log of a page whose stream is up, or on its way there, unless the
\* queue was full. sendToGuest stores before it lists the sessions, and a
\* session is listed before its stream loads the backlog.
NothingMissed ==
    es # None /\ Running(es) /\ ~cut /\ life[stream[es].s] = "open" =>
        LET s == stream[es].s
        IN  \A m \in history \cap HostMsg :
                \/ m \in shown \cup lost
                \/ Carries(opening \cup Items(wire) \cup Items(ch[s]), m)
                \/ op[m].pc = "list"
                \/ op[m].pc = "push" /\ s \in op[m].todo

\* A page that says SESSION CLOSED and does nothing has no session on the host
\* that still takes frames for it.
ClosedMeansDropped ==
    closing /\ (\A a \in Attempt : attempt[a].pc = "off") =>
        sid = None \/ life[sid] # "open"

\* The page and the host agree on a session, and its stream runs.
Up == /\ connected /\ es # None /\ Running(es) /\ ~cut
      /\ keys = stream[es].s /\ sid = keys
      /\ life[sid] = "open" /\ streamGen[sid] = es

\* Once failures stop, the page is back on a session, or has been told that it
\* is closed and waits for the user.
ComesBack ==
    <>[](Up \/ (closing /\ ~connected /\ \A a \in Attempt : attempt[a].pc = "off"))

\* A message of the host reaches the page's log, over however many sessions,
\* unless the queue was full or the page was told to close.
ShownInTheEnd ==
    \A m \in HostMsg : m \in history ~> m \in shown \cup lost \/ closing
=============================================================================
