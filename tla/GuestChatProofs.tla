-------------------------- MODULE GuestChatProofs --------------------------
(***************************************************************************)
(* Proofs about GuestChat, for any number of sessions, streams, messages   *)
(* and faults, any depth of the queue and any buffers: every state is type *)
(* correct and, as long as the page has one attempt to connect at a time,  *)
(* nothing falls between the backlog and the queue, and a page that says   *)
(* it was closed was.                                                      *)
(***************************************************************************)
EXTENDS GuestChat, TLAPS

Ops == [pc : {"idle", "list", "push", "panic", "done", "seal", "posted", "reply"},
        key : Session \cup {None}, s : Session \cup {None}, todo : SUBSET Session,
        got : BOOLEAN]

Streams == [pc : {"request", "start", "live", "check", "over"}, s : Session \cup {None}]

Attempts == [pc : {"off", "timer", "hello", "answer", "keys"}, s : Session \cup {None}]

HostShape ==
    /\ history \subseteq Msg /\ marked \subseteq HostMsg /\ lost \subseteq Msg
    /\ life \in [Session -> {"open", "told", "dropped", "closed"}]
    /\ ch \in [Session -> Seq(Frame)]
    /\ \A s \in Session : Len(ch[s]) <= QueueDepth
    /\ backlog \in [Session -> BOOLEAN]
    /\ streamGen \in [Session -> Stream \cup {None}]

\* A stream that was let in reads from a session.
NetShape ==
    /\ stream \in [Stream -> Streams]
    /\ \A e \in Stream : stream[e].pc \in {"start", "live", "check"} => stream[e].s \in Session
    /\ wire \in Seq(Frame) /\ Len(wire) <= MaxWire /\ cut \in BOOLEAN

PageShape ==
    /\ attempt \in [Attempt -> Attempts]
    /\ sid \in Session \cup {None} /\ keys \in Session \cup {None}
    /\ es \in Stream \cup {None}
    /\ connected \in BOOLEAN /\ closing \in BOOLEAN
    /\ opening \subseteq Frame /\ shown \subseteq Msg
    /\ receipt \in [OwnMsg -> {"none", "waiting", "sent", "rate limited", "NOT DELIVERED"}]

\* The host's own messages come from no session; what handleSend passes on does.
OpShape ==
    /\ op \in [Msg -> Ops]
    /\ \A m \in HostMsg :
          op[m].s = None /\ op[m].pc \in {"idle", "list", "push", "panic", "done"}
    /\ \A m \in OwnMsg : op[m].pc \in {"list", "push"} => op[m].s \in Session

ShapeOK == HostShape /\ NetShape /\ PageShape /\ OpShape /\ faults \in 0 .. MaxFaults

-----------------------------------------------------------------------------
(* One attempt to connect at a time.                                       *)

OneAttempt == \A a, b \in Attempt : a = b

\* How far the attempt has come: its session is new to every stream.
ChainOK ==
    \A a \in Attempt :
        /\ attempt[a].pc # "off" => es = None
        /\ attempt[a].pc \in {"hello", "answer", "keys"} => opening = {} /\ ~closing
        /\ attempt[a].pc \in {"answer", "keys"} =>
              /\ attempt[a].s \in Session /\ ~backlog[attempt[a].s]
              /\ \A e \in Stream : stream[e].pc # "over" => stream[e].s # attempt[a].s
        /\ attempt[a].pc = "keys" => sid = attempt[a].s

\* The page's stream is the only one of its session, and sends the backlog first.
StreamOK ==
    es # None =>
        /\ sid \in Session /\ keys = sid /\ stream[es].s = sid
        /\ \A e \in Stream \ {es} : stream[e].pc # "over" => stream[e].s # sid
        /\ stream[es].pc \in {"request", "start"} => ~backlog[sid]

NoBye(frames) == \A f \in frames : f.kind # "bye"

\* A session says bye once it has left the map, and never before.
ByeOK ==
    /\ \A s \in Session : life[s] = "open" => NoBye(Items(ch[s]))
    /\ es # None /\ life[sid] = "open" => NoBye(Items(wire))
    /\ sid # None /\ life[sid] = "open" => NoBye(opening) /\ ~closing

IInv == ShapeOK /\ ChainOK /\ StreamOK /\ ByeOK

-----------------------------------------------------------------------------
(* Frames, queues, and the records of tasks.                               *)

\* What is appended to a queue is among its items.
LEMMA AppendItems ==
    ASSUME NEW q \in Seq(Frame), NEW f \in Frame
    PROVE  /\ Append(q, f) \in Seq(Frame) /\ Len(Append(q, f)) = Len(q) + 1
           /\ Items(Append(q, f)) = Items(q) \cup {f}
  <1>1. Append(q, f) \in Seq(Frame) /\ Len(Append(q, f)) = Len(q) + 1
    OBVIOUS
  <1>2. /\ DOMAIN q = 1 .. Len(q) /\ DOMAIN Append(q, f) = 1 .. (Len(q) + 1)
        /\ Len(q) \in Nat /\ Append(q, f)[Len(q) + 1] = f
        /\ \A i \in 1 .. Len(q) : Append(q, f)[i] = q[i]
    OBVIOUS
  <1>3. ASSUME NEW x \in Items(Append(q, f)) PROVE x \in Items(q) \cup {f}
    <2>1. PICK i \in 1 .. (Len(q) + 1) : x = Append(q, f)[i]
      BY <1>2, <1>3 DEF Items
    <2>2. CASE i \in 1 .. Len(q)
      BY <1>2, <2>1, <2>2 DEF Items
    <2>3. CASE i = Len(q) + 1
      BY <1>2, <2>1, <2>3
    <2>. QED  BY <1>2, <2>2, <2>3
  <1>4. ASSUME NEW i \in 1 .. Len(q) PROVE q[i] \in Items(Append(q, f))
    <2>1. i \in 1 .. (Len(q) + 1)
      BY <1>2
    <2>. QED  BY <1>2, <2>1 DEF Items
  <1>5. f \in Items(Append(q, f))
    <2>1. Len(q) + 1 \in 1 .. (Len(q) + 1)
      BY <1>2
    <2>. QED  BY <1>2, <2>1 DEF Items
  <1>6. Items(q) \subseteq Items(Append(q, f))
    BY <1>2, <1>4 DEF Items
  <1>. QED  BY <1>1, <1>3, <1>5, <1>6

\* What is taken from a queue was among its items.
LEMMA TailItems ==
    ASSUME NEW q \in Seq(Frame), q # <<>>
    PROVE  /\ Tail(q) \in Seq(Frame) /\ Len(Tail(q)) = Len(q) - 1 /\ Head(q) \in Frame
           /\ Items(q) = {Head(q)} \cup Items(Tail(q))
  <1>1. /\ Tail(q) \in Seq(Frame) /\ Len(Tail(q)) = Len(q) - 1 /\ Head(q) \in Frame
        /\ Head(q) = q[1] /\ Len(q) \in Nat /\ Len(q) >= 1
        /\ DOMAIN q = 1 .. Len(q) /\ DOMAIN Tail(q) = 1 .. (Len(q) - 1)
    OBVIOUS
  <1>2. \A i \in 1 .. (Len(q) - 1) : Tail(q)[i] = q[i + 1] /\ i + 1 \in 1 .. Len(q)
    BY <1>1
  <1>3. \A i \in 2 .. Len(q) : q[i] = Tail(q)[i - 1] /\ i - 1 \in 1 .. (Len(q) - 1)
    BY <1>1, <1>2
  <1>4. Items(q) \subseteq {Head(q)} \cup Items(Tail(q))
    <2>. SUFFICES ASSUME NEW i \in 1 .. Len(q) PROVE q[i] \in {Head(q)} \cup Items(Tail(q))
      BY <1>1 DEF Items
    <2>1. CASE i = 1
      BY <1>1, <2>1
    <2>2. CASE i \in 2 .. Len(q)
      BY <1>1, <1>3, <2>2 DEF Items
    <2>. QED  BY <1>1, <2>1, <2>2
  <1>5. {Head(q)} \cup Items(Tail(q)) \subseteq Items(q)
    BY <1>1, <1>2 DEF Items
  <1>. QED  BY <1>1, <1>4, <1>5

LEMMA ShortQueues ==
    /\ <<>> \in Seq(Frame) /\ Len(<<>>) = 0 /\ Items(<<>>) = {}
    /\ \A f \in Frame : <<f>> \in Seq(Frame) /\ Len(<<f>>) = 1 /\ Items(<<f>>) = {f}
  <1>1. <<>> \in Seq(Frame) /\ Len(<<>>) = 0 /\ Items(<<>>) = {}
    BY DEF Items
  <1>2. ASSUME NEW f \in Frame
        PROVE  <<f>> \in Seq(Frame) /\ Len(<<f>>) = 1 /\ Items(<<f>>) = {f}
    <2>1. <<f>> \in Seq(Frame) /\ Len(<<f>>) = 1 /\ DOMAIN <<f>> = {1} /\ <<f>>[1] = f
      OBVIOUS
    <2>. QED  BY <2>1 DEF Items
  <1>. QED  BY <1>1, <1>2

LEMMA FrameOK ==
    /\ \A m \in Msg : OneMsg("msg", m) \in Frame /\ OneMsg("ack", m) \in Frame
    /\ \A m \in Msg : /\ OneMsg("msg", m).kind = "msg" /\ OneMsg("msg", m).ms = {m}
                      /\ OneMsg("ack", m).kind = "ack"
    /\ [kind |-> "bye", ms |-> {}] \in Frame
    /\ history \subseteq Msg => [kind |-> "old", ms |-> history] \in Frame
  BY DEF OneMsg, Frame

\* push keeps what is queued; the frame is queued too, or counted as lost.
LEMMA PushOK ==
    ASSUME HostShape, NEW s \in Session, NEW f \in Frame, push(s, f)
    PROVE  /\ ch' \in [Session -> Seq(Frame)] /\ \A q \in Session : Len(ch'[q]) <= QueueDepth
           /\ lost' \subseteq Msg /\ lost \subseteq lost'
           /\ \A q \in Session \ {s} : ch'[q] = ch[q]
           /\ Items(ch[s]) \subseteq Items(ch'[s]) /\ Items(ch'[s]) \subseteq Items(ch[s]) \cup {f}
           /\ f \in Items(ch'[s]) \/ (f.kind = "msg" => f.ms \subseteq lost')
  <1>1. /\ ch \in [Session -> Seq(Frame)] /\ ch[s] \in Seq(Frame) /\ Len(ch[s]) \in Nat
        /\ \A q \in Session : Len(ch[q]) <= QueueDepth
        /\ lost \subseteq Msg /\ f.ms \subseteq Msg /\ QueueDepth \in Nat
    <2>1. f.ms \subseteq Msg
      BY DEF Frame
    <2>2. ch[s] \in Seq(Frame)
      BY DEF HostShape
    <2>3. Len(ch[s]) \in Nat
      BY <2>2
    <2>. QED  BY <2>1, <2>2, <2>3, BoundAssumption DEF HostShape
  <1>2. CASE Len(ch[s]) < QueueDepth
    <2>1. ch' = [ch EXCEPT ![s] = Append(ch[s], f)] /\ lost' = lost
      BY <1>2 DEF push
    <2>2. /\ Append(ch[s], f) \in Seq(Frame) /\ Len(Append(ch[s], f)) = Len(ch[s]) + 1
          /\ Items(Append(ch[s], f)) = Items(ch[s]) \cup {f}
      BY <1>1, AppendItems
    <2>3. /\ ch' \in [Session -> Seq(Frame)] /\ ch'[s] = Append(ch[s], f)
          /\ \A q \in Session \ {s} : ch'[q] = ch[q]
      BY <1>1, <2>1, <2>2
    <2>4. Len(ch'[s]) <= QueueDepth
      BY <1>1, <1>2, <2>2, <2>3
    <2>. QED  BY <1>1, <2>1, <2>2, <2>3, <2>4
  <1>3. CASE ~(Len(ch[s]) < QueueDepth)
    BY <1>1, <1>3 DEF push
  <1>. QED  BY <1>2, <1>3

LEMMA FailOK ==
    ASSUME ShapeOK, Fail
    PROVE  faults' \in 0 .. MaxFaults
  BY BoundAssumption DEF ShapeOK, Fail, CanFail

\* A stream moves on; if it is over and nobody holds it, its slot is cleared.
LEMMA StreamGoOK ==
    ASSUME NetShape, NEW e \in Stream, NEW pc \in {"request", "start", "live", "check", "over"},
           StreamGo(e, pc)
    PROVE  /\ stream' \in [Stream -> Streams]
           /\ stream'[e].pc = pc
           /\ pc # "over" \/ es = e => stream'[e].s = stream[e].s
           /\ \A o \in Stream \ {e} : stream'[o] = stream[o]
  <1>. DEFINE R == IF pc = "over" /\ es # e THEN NoStream ELSE [stream[e] EXCEPT !.pc = pc]
  <1>1. stream \in [Stream -> Streams] /\ stream[e] \in Streams
    BY DEF NetShape
  <1>2. [stream[e] EXCEPT !.pc = pc] \in Streams
    BY <1>1 DEF Streams
  <1>3. NoStream \in Streams /\ NoStream.pc = "over"
    BY DEF NoStream, Streams
  <1>4. /\ R \in Streams /\ R.pc = pc
        /\ pc # "over" \/ es = e => R.s = stream[e].s
    BY <1>1, <1>2, <1>3 DEF Streams
  <1>5. stream' = [stream EXCEPT ![e] = R]
    BY DEF StreamGo
  <1>. HIDE DEF R
  <1>. QED  BY <1>1, <1>4, <1>5

LEMMA AtOK ==
    ASSUME PageShape, NEW a \in Attempt, NEW pc \in {"off", "timer", "hello", "answer", "keys"},
           NEW s \in Session \cup {None}, At(a, pc, s)
    PROVE  /\ attempt' \in [Attempt -> Attempts]
           /\ attempt'[a].pc = pc /\ attempt'[a].s = s
           /\ \A b \in Attempt \ {a} : attempt'[b] = attempt[b]
  BY DEF PageShape, At, Attempts

LEMMA OpGoOK ==
    ASSUME OpShape, NEW m \in Msg,
           NEW pc \in {"idle", "list", "push", "panic", "done", "seal", "posted", "reply"},
           OpGo(m, pc)
    PROVE  /\ op' \in [Msg -> Ops]
           /\ op'[m].pc = pc /\ op'[m].s = op[m].s /\ op'[m].todo = op[m].todo
           /\ \A n \in Msg \ {m} : op'[n] = op[n]
  BY DEF OpShape, OpGo, Ops

LEMMA OpDoneOK ==
    ASSUME OpShape, NEW m \in Msg, OpDone(m)
    PROVE  /\ op' \in [Msg -> Ops] /\ op'[m].pc = "done" /\ op'[m].s = None
           /\ \A n \in Msg \ {m} : op'[n] = op[n]
  BY DEF OpShape, OpDone, IdleOp, Ops

\* The task of one message moves on.
LEMMA OpStep ==
    ASSUME OpShape, NEW m \in Msg, op' \in [Msg -> Ops],
           \A n \in Msg \ {m} : op'[n] = op[n],
           m \in HostMsg => op'[m].s = None /\ op'[m].pc \in {"idle", "list", "push", "panic", "done"},
           m \in OwnMsg /\ op'[m].pc \in {"list", "push"} => op'[m].s \in Session
    PROVE  OpShape'
  BY DEF OpShape, Msg

LEMMA InitShape == Init => ShapeOK
  <1>. SUFFICES ASSUME Init PROVE ShapeOK
    OBVIOUS
  <1>1. HostShape
    BY BoundAssumption DEF Init, HostShape
  <1>2. NetShape
    <2>1. /\ stream \in [Stream -> Streams] /\ \A e \in Stream : stream[e].pc = "over"
      BY DEF Init, Streams, NoStream
    <2>2. wire = <<>> /\ cut = FALSE
      BY DEF Init
    <2>3. wire \in Seq(Frame) /\ Len(wire) <= MaxWire
      BY <2>2, ShortQueues, BoundAssumption
    <2>. QED  BY <2>1, <2>2, <2>3 DEF NetShape
  <1>3. PageShape
    <2>1. attempt \in [Attempt -> Attempts]
      BY DEF Init, Attempts, NoAttempt
    <2>. QED  BY <2>1 DEF Init, PageShape
  <1>4. OpShape
    BY DEF Init, OpShape, Ops, IdleOp, Msg
  <1>. QED  BY <1>1, <1>2, <1>3, <1>4, BoundAssumption DEF Init, ShapeOK

-----------------------------------------------------------------------------
(* Types: the host.                                                        *)

LEMMA SendShape ==
    ASSUME ShapeOK, NEW m \in Msg, SendToGuest(m) \/ DeliverStep(m)
    PROVE  ShapeOK'
  <1>1. HostShape /\ NetShape /\ PageShape /\ OpShape /\ faults \in 0 .. MaxFaults
    BY DEF ShapeOK
  <1>2. NetShape' /\ PageShape' /\ faults' \in 0 .. MaxFaults
    <2>1. UNCHANGED <<netVars, pageVars, faults>>
      BY DEF SendToGuest, DeliverStep, ListSessions, DeliverOne, SendDone
    <2>. QED  BY <1>1, <2>1 DEF netVars, pageVars, NetShape, PageShape
  <1>3. CASE SendToGuest(m)
    <2>1. HostShape'
      BY <1>1, <1>3 DEF SendToGuest, HostShape
    <2>2. OpShape'
      BY <1>1, <1>3, OpGoOK, OpStep, MsgAssumption DEF SendToGuest, OpShape
    <2>. QED  BY <1>2, <2>1, <2>2 DEF ShapeOK
  <1>4. CASE ListSessions(m)
    <2>. DEFINE todo == OpenSessions \ {op[m].s}
    <2>1. UNCHANGED hostVars /\ op[m].pc = "list" /\ op[m] \in Ops
      BY <1>1, <1>4 DEF ListSessions, OpShape
    <2>2. PICK g \in BOOLEAN : g <=> todo # {}
      OBVIOUS
    <2>3. g = (todo # {})
      BY <2>2
    <2>4. op' = [op EXCEPT ![m].pc = "push", ![m].todo = todo, ![m].got = g]
      BY <1>4, <2>3 DEF ListSessions
    <2>5. todo \in SUBSET Session
      BY DEF OpenSessions
    <2>. HIDE DEF todo
    <2>6. /\ op' \in [Msg -> Ops] /\ op'[m].pc = "push" /\ op'[m].s = op[m].s
          /\ \A n \in Msg \ {m} : op'[n] = op[n]
      BY <1>1, <2>1, <2>4, <2>5 DEF OpShape, Ops
    <2>7. OpShape'
      BY <1>1, <2>1, <2>6, OpStep DEF OpShape
    <2>8. HostShape'
      BY <1>1, <2>1 DEF hostVars, HostShape
    <2>. QED  BY <1>2, <2>7, <2>8 DEF ShapeOK
  <1>5. ASSUME NEW s \in Session, DeliverOne(m, s) PROVE ShapeOK'
    <2>1. op[m].pc = "push" /\ UNCHANGED <<history, marked, life, backlog, streamGen>>
      BY <1>5 DEF DeliverOne
    <2>2. CASE life[s] = "closed"
      <3>1. OpGo(m, "panic") /\ lost' = lost \cup {m} /\ ch' = ch
        BY <1>5, <2>2 DEF DeliverOne
      <3>2. HostShape'
        BY <1>1, <2>1, <3>1 DEF HostShape
      <3>3. OpShape'
        BY <1>1, <3>1, OpGoOK, OpStep DEF OpShape
      <3>. QED  BY <1>2, <3>2, <3>3 DEF ShapeOK
    <2>3. CASE life[s] # "closed"
      <3>1. op' = [op EXCEPT ![m].todo = @ \ {s}] /\ push(s, OneMsg("msg", m))
        BY <1>5, <2>3 DEF DeliverOne
      <3>2. HostShape'
        BY <1>1, <2>1, <3>1, FrameOK, PushOK DEF HostShape
      <3>3. /\ op' \in [Msg -> Ops] /\ op'[m].pc = op[m].pc /\ op'[m].s = op[m].s
            /\ \A n \in Msg \ {m} : op'[n] = op[n]
        BY <1>1, <3>1 DEF OpShape, Ops
      <3>4. OpShape'
        BY <1>1, <3>3, OpStep DEF OpShape
      <3>. QED  BY <1>2, <3>2, <3>4 DEF ShapeOK
    <2>. QED  BY <2>2, <2>3
  <1>6. CASE SendDone(m)
    <2>1. HostShape'
      BY <1>1, <1>6 DEF SendDone, HostShape
    <2>2. OpDone(m)
      BY <1>6 DEF SendDone
    <2>3. OpShape'
      BY <1>1, <2>2, OpDoneOK, OpStep
    <2>. QED  BY <1>2, <2>1, <2>3 DEF ShapeOK
  <1>. QED  BY <1>3, <1>4, <1>5, <1>6 DEF DeliverStep

LEMMA DropShape ==
    ASSUME ShapeOK, NEW s \in Session, DropSession(s) \/ DropStep(s)
    PROVE  ShapeOK'
  <1>1. HostShape /\ NetShape /\ PageShape /\ OpShape /\ faults \in 0 .. MaxFaults
    BY DEF ShapeOK
  <1>2. NetShape' /\ PageShape' /\ OpShape'
    <2>1. UNCHANGED <<netVars, op, pageVars>>
      BY DEF DropSession, DropStep, Supersede, CloseChannel
    <2>. QED  BY <1>1, <2>1 DEF netVars, pageVars, NetShape, PageShape, OpShape
  <1>3. CASE DropSession(s)
    <2>1. push(s, [kind |-> "bye", ms |-> {}])
      BY <1>3 DEF DropSession
    <2>2. HostShape'
      BY <1>1, <1>3, <2>1, FrameOK, PushOK DEF DropSession, HostShape
    <2>3. faults' \in 0 .. MaxFaults
      BY <1>1, <1>3, FailOK DEF DropSession
    <2>. QED  BY <1>2, <2>2, <2>3 DEF ShapeOK
  <1>4. CASE Supersede(s)
    BY <1>1, <1>2, <1>4 DEF Supersede, HostShape, ShapeOK
  <1>5. CASE CloseChannel(s)
    <2>1. ch' \in {ch, [ch EXCEPT ![s] = <<>>]}
      BY <1>5 DEF CloseChannel
    <2>2. ch' \in [Session -> Seq(Frame)] /\ \A q \in Session : Len(ch'[q]) <= QueueDepth
      <3>1. CASE ch' = ch
        BY <1>1, <3>1 DEF HostShape
      <3>2. CASE ch' = [ch EXCEPT ![s] = <<>>]
        <4>1. \A q \in Session : ch'[q] = ch[q] \/ ch'[q] = <<>>
          BY <1>1, <3>2 DEF HostShape
        <4>. QED  BY <1>1, <3>2, <4>1, ShortQueues, BoundAssumption DEF HostShape
      <3>. QED  BY <2>1, <3>1, <3>2
    <2>. QED  BY <1>1, <1>2, <1>5, <2>2 DEF CloseChannel, HostShape, ShapeOK
  <1>. QED  BY <1>3, <1>4, <1>5 DEF DropStep

LEMMA StreamShape ==
    ASSUME ShapeOK, NEW e \in Stream, StreamStep(e) \/ KeepAlive(e)
    PROVE  ShapeOK'
  <1>1. HostShape /\ NetShape /\ PageShape /\ OpShape /\ faults \in 0 .. MaxFaults
    BY DEF ShapeOK
  <1>2. PageShape' /\ OpShape' /\ faults' \in 0 .. MaxFaults
    <2>1. UNCHANGED <<op, pageVars, faults>>
      BY DEF StreamStep, KeepAlive, EventsLookup, EventsStart, StreamWrite, ChannelEnds, CheckGen
    <2>. QED  BY <1>1, <2>1 DEF pageVars, PageShape, OpShape
  <1>3. ASSUME NEW pc \in {"start", "live", "check", "over"}, StreamGo(e, pc), cut' = cut,
               wire' \in Seq(Frame), Len(wire') <= MaxWire,
               pc # "over" => stream[e].s \in Session
        PROVE  NetShape'
    BY <1>1, <1>3, StreamGoOK DEF NetShape
  <1>4. ASSUME NEW pc \in {"start", "live", "check", "over"}, StreamGo(e, pc),
               UNCHANGED <<hostVars, wire, cut>>, pc # "over" => stream[e].s \in Session
        PROVE  ShapeOK'
    <2>1. NetShape'
      BY <1>1, <1>3, <1>4 DEF NetShape
    <2>2. HostShape'
      BY <1>1, <1>4 DEF hostVars, HostShape
    <2>. QED  BY <1>2, <2>1, <2>2 DEF ShapeOK
  <1>5. CASE EventsLookup(e)
    <2>1. CASE stream[e].s \in OpenSessions
      BY <1>4, <1>5, <2>1 DEF EventsLookup, OpenSessions
    <2>2. CASE stream[e].s \notin OpenSessions
      BY <1>4, <1>5, <2>2 DEF EventsLookup
    <2>. QED  BY <2>1, <2>2
  <1>6. CASE KeepAlive(e) \/ ChannelEnds(e)
    BY <1>4, <1>6 DEF KeepAlive, ChannelEnds
  <1>7. CASE CheckGen(e)
    <2>1. stream[e].s \in Session
      BY <1>1, <1>7 DEF CheckGen, NetShape
    <2>2. StreamGo(e, "live") \/ StreamGo(e, "over")
      BY <1>7 DEF CheckGen
    <2>. QED  BY <1>4, <1>7, <2>1, <2>2 DEF CheckGen
  <1>8. CASE EventsStart(e)
    <2>1. /\ stream[e].s \in Session /\ StreamGo(e, "live") /\ cut' = cut
          /\ UNCHANGED <<history, marked, lost, life, ch>>
          /\ streamGen' = [streamGen EXCEPT ![stream[e].s] = e]
          /\ backlog' = [backlog EXCEPT ![stream[e].s] = TRUE]
          /\ wire' \in {wire, <<[kind |-> "old", ms |-> history]>>}
      BY <1>1, <1>8 DEF EventsStart, NetShape
    <2>2. HostShape'
      BY <1>1, <2>1 DEF HostShape
    <2>3. wire' \in Seq(Frame) /\ Len(wire') <= MaxWire
      <3>1. [kind |-> "old", ms |-> history] \in Frame
        BY <1>1, FrameOK DEF HostShape
      <3>2. CASE wire' = wire
        BY <1>1, <3>2 DEF NetShape
      <3>3. CASE wire' = <<[kind |-> "old", ms |-> history]>>
        BY <3>1, <3>3, ShortQueues, BoundAssumption
      <3>. QED  BY <2>1, <3>2, <3>3
    <2>4. NetShape'
      BY <1>3, <2>1, <2>3
    <2>. QED  BY <1>2, <2>2, <2>4 DEF ShapeOK
  <1>9. CASE StreamWrite(e)
    <2>1. /\ stream[e].s \in Session /\ cut' = cut /\ ch[stream[e].s] # <<>>
          /\ ch[stream[e].s] \in Seq(Frame)
          /\ UNCHANGED <<history, marked, lost, life, backlog, streamGen>>
          /\ ch' = [ch EXCEPT ![stream[e].s] = Tail(ch[stream[e].s])]
      BY <1>1, <1>9 DEF StreamWrite, NetShape, HostShape
    <2>2. /\ Tail(ch[stream[e].s]) \in Seq(Frame) /\ Head(ch[stream[e].s]) \in Frame
          /\ Len(Tail(ch[stream[e].s])) <= QueueDepth
      <3>1. Len(ch[stream[e].s]) <= QueueDepth /\ Len(ch[stream[e].s]) \in Nat
        BY <1>1, <2>1 DEF HostShape
      <3>. QED  BY <2>1, <3>1, TailItems, BoundAssumption
    <2>3. HostShape'
      BY <1>1, <2>1, <2>2 DEF HostShape
    <2>4. NetShape'
      <3>1. CASE Gone(e)
        BY <1>1, <1>3, <1>9, <2>1, <3>1 DEF StreamWrite, NetShape
      <3>2. CASE ~Gone(e)
        <4>1. StreamGo(e, "check") /\ wire' = Append(wire, Head(ch[stream[e].s]))
          BY <1>9, <3>2 DEF StreamWrite
        <4>2. wire \in Seq(Frame) /\ Len(wire) < MaxWire /\ Len(wire) \in Nat
          BY <1>1, <1>9, <3>2 DEF StreamWrite, NetShape
        <4>3. wire' \in Seq(Frame) /\ Len(wire') <= MaxWire
          BY <2>2, <4>1, <4>2, AppendItems, BoundAssumption
        <4>. QED  BY <1>3, <2>1, <4>1, <4>3
      <3>. QED  BY <3>1, <3>2
    <2>. QED  BY <1>2, <2>3, <2>4 DEF ShapeOK
  <1>. QED  BY <1>5, <1>6, <1>7, <1>8, <1>9 DEF StreamStep

-----------------------------------------------------------------------------
(* Types: the page.                                                        *)

\* The wire is left alone, read from or cleared.
LEMMA WireOK ==
    ASSUME NetShape, stream' = stream, cut' \in BOOLEAN,
           wire' = wire \/ wire' = <<>> \/ (wire # <<>> /\ wire' = Tail(wire))
    PROVE  NetShape'
  <1>1. wire \in Seq(Frame) /\ Len(wire) \in Nat /\ Len(wire) <= MaxWire /\ MaxWire \in Nat
    BY BoundAssumption DEF NetShape
  <1>2. wire' \in Seq(Frame) /\ Len(wire') <= MaxWire
    <2>1. CASE wire' = wire
      BY <1>1, <2>1
    <2>2. CASE wire' = <<>>
      BY <1>1, <2>2, ShortQueues
    <2>3. CASE wire # <<>> /\ wire' = Tail(wire)
      BY <1>1, <2>3, TailItems
    <2>. QED  BY <2>1, <2>2, <2>3
  <1>. QED  BY <1>2 DEF NetShape

LEMMA ConnectShape ==
    ASSUME ShapeOK, NEW a \in Attempt, ConnectStep(a) \/ ConnectFails(a) \/ Reconnect(a)
    PROVE  ShapeOK'
  <1>1. HostShape /\ NetShape /\ PageShape /\ OpShape /\ faults \in 0 .. MaxFaults
    BY DEF ShapeOK
  <1>2. OpShape' /\ faults' \in 0 .. MaxFaults
    <2>1. op' = op
      BY DEF ConnectStep, ConnectFails, Reconnect, HelloHost, HelloAnswer, OpenStream,
         OnError, TimerFires
    <2>2. OpShape'
      BY <1>1, <2>1 DEF OpShape
    <2>3. faults' = faults \/ Fail
      BY DEF ConnectStep, ConnectFails, Reconnect, HelloHost, HelloAnswer, OpenStream,
         OnError, TimerFires
    <2>. QED  BY <1>1, <2>2, <2>3, FailOK
  <1>3. ASSUME UNCHANGED <<hostVars, stream>>, cut' \in BOOLEAN, wire' = wire \/ wire' = <<>>
        PROVE  HostShape' /\ NetShape'
    <2>1. NetShape'
      BY <1>1, <1>3, WireOK
    <2>. QED  BY <1>1, <1>3, <2>1 DEF hostVars, HostShape
  <1>4. ASSUME attempt' \in [Attempt -> Attempts], sid' \in Session \cup {None},
               keys' \in Session \cup {None}, es' \in Stream \cup {None}, connected' \in BOOLEAN,
               closing' \in BOOLEAN, UNCHANGED <<opening, shown, receipt>>
        PROVE  PageShape'
    BY <1>1, <1>4 DEF PageShape
  <1>5. attempt[a].s \in Session \cup {None}
    BY <1>1 DEF PageShape, Attempts
  <1>6. ASSUME NEW s \in Session, HelloHost(a, s) PROVE ShapeOK'
    <2>1. At(a, "answer", s) /\ UNCHANGED <<netVars, sid, keys, es, connected, closing,
                                            opening, shown, receipt>>
      BY <1>6 DEF HelloHost
    <2>2. PageShape'
      BY <1>1, <1>4, <2>1, AtOK DEF PageShape
    <2>3. HostShape'
      <3>1. /\ life' = [life EXCEPT ![s] = "open"] /\ ch' = [ch EXCEPT ![s] = <<>>]
            /\ backlog' = [backlog EXCEPT ![s] = FALSE]
            /\ streamGen' = [streamGen EXCEPT ![s] = None]
            /\ UNCHANGED <<history, marked, lost>>
        BY <1>6 DEF HelloHost
      <3>2. \A q \in Session : ch'[q] = ch[q] \/ ch'[q] = <<>>
        BY <1>1, <3>1 DEF HostShape
      <3>3. ch' \in [Session -> Seq(Frame)] /\ \A q \in Session : Len(ch'[q]) <= QueueDepth
        BY <1>1, <3>1, <3>2, ShortQueues, BoundAssumption DEF HostShape
      <3>. QED  BY <1>1, <3>1, <3>3 DEF HostShape
    <2>4. NetShape'
      BY <1>1, <2>1 DEF NetShape, netVars
    <2>. QED  BY <1>2, <2>2, <2>3, <2>4 DEF ShapeOK
  <1>7. CASE HelloAnswer(a)
    <2>1. At(a, "keys", attempt[a].s) /\ sid' = attempt[a].s
          /\ UNCHANGED <<hostVars, netVars, keys, es, connected, closing, opening, shown, receipt>>
      BY <1>7 DEF HelloAnswer
    <2>2. PageShape'
      BY <1>1, <1>4, <1>5, <2>1, AtOK DEF PageShape
    <2>. QED  BY <1>1, <1>2, <2>1, <2>2 DEF ShapeOK, hostVars, netVars, HostShape, NetShape
  <1>8. ASSUME NEW e \in Stream, OpenStream(a, e) PROVE ShapeOK'
    <2>1. /\ At(a, "off", None) /\ keys' = attempt[a].s /\ es' = e
          /\ stream' = [stream EXCEPT ![e] = [pc |-> "request", s |-> sid]]
          /\ wire' = <<>> /\ cut' = FALSE
          /\ UNCHANGED <<hostVars, sid, connected, closing, opening, shown, receipt>>
      BY <1>8 DEF OpenStream
    <2>2. PageShape'
      BY <1>1, <1>4, <1>5, <2>1, AtOK DEF PageShape
    <2>3. NetShape'
      <3>1. sid \in Session \cup {None} /\ stream \in [Stream -> Streams]
        BY <1>1 DEF PageShape, NetShape
      <3>2. [pc |-> "request", s |-> sid] \in Streams
        BY <3>1 DEF Streams
      <3>3. /\ stream' \in [Stream -> Streams] /\ stream'[e].pc = "request"
            /\ \A o \in Stream \ {e} : stream'[o] = stream[o]
        BY <2>1, <3>1, <3>2
      <3>4. wire' \in Seq(Frame) /\ Len(wire') <= MaxWire
        BY <2>1, ShortQueues, BoundAssumption
      <3>. QED  BY <1>1, <2>1, <3>3, <3>4 DEF NetShape
    <2>4. HostShape'
      BY <1>1, <2>1 DEF hostVars, HostShape
    <2>. QED  BY <1>2, <2>2, <2>3, <2>4 DEF ShapeOK
  <1>9. CASE OnError(a)
    <2>1. /\ At(a, "timer", None) /\ connected' = FALSE /\ es' = None /\ wire' = <<>>
          /\ cut' = FALSE
          /\ UNCHANGED <<hostVars, stream, sid, keys, closing, opening, shown, receipt>>
      BY <1>9 DEF OnError, CloseEs
    <2>2. PageShape'
      BY <1>1, <1>4, <2>1, AtOK DEF PageShape
    <2>. QED  BY <1>2, <1>3, <2>1, <2>2 DEF ShapeOK
  <1>10. CASE TimerFires(a)
    <2>1. /\ At(a, "hello", None) /\ closing' = FALSE
          /\ UNCHANGED <<hostVars, netVars, sid, keys, es, connected, opening, shown, receipt>>
      BY <1>10 DEF TimerFires
    <2>2. PageShape'
      BY <1>1, <1>4, <2>1, AtOK DEF PageShape
    <2>. QED  BY <1>1, <1>2, <1>3, <2>1, <2>2 DEF ShapeOK, netVars, NetShape
  <1>11. CASE ConnectFails(a)
    <2>1. /\ At(a, "timer", None) \/ At(a, "off", None)
          /\ connected' = FALSE
          /\ UNCHANGED <<hostVars, netVars, sid, keys, es, closing, opening, shown, receipt>>
      BY <1>11 DEF ConnectFails
    <2>2. PageShape'
      BY <1>1, <1>4, <2>1, AtOK DEF PageShape
    <2>. QED  BY <1>1, <1>2, <1>3, <2>1, <2>2 DEF ShapeOK, netVars, NetShape
  <1>12. CASE Reconnect(a)
    <2>1. /\ At(a, "hello", None) /\ closing' = FALSE /\ es' = None /\ wire' = <<>>
          /\ cut' = FALSE /\ sid' = None
          /\ UNCHANGED <<hostVars, stream, keys, connected, opening, shown, receipt>>
      BY <1>12 DEF Reconnect, CloseEs
    <2>2. PageShape'
      BY <1>1, <1>4, <2>1, AtOK DEF PageShape
    <2>. QED  BY <1>2, <1>3, <2>1, <2>2 DEF ShapeOK
  <1>. QED  BY <1>6, <1>7, <1>8, <1>9, <1>10, <1>11, <1>12 DEF ConnectStep

LEMMA ReadShape ==
    ASSUME ShapeOK,
           OnOpen \/ OnMessage \/ Cut \/ \E f \in opening : HandleEnvelope(f)
    PROVE  ShapeOK'
  <1>1. HostShape /\ NetShape /\ PageShape /\ OpShape /\ faults \in 0 .. MaxFaults
    BY DEF ShapeOK
  <1>2. HostShape' /\ OpShape'
    <2>1. UNCHANGED <<hostVars, op>>
      BY DEF OnOpen, OnMessage, Cut, HandleEnvelope
    <2>. QED  BY <1>1, <2>1 DEF hostVars, HostShape, OpShape
  <1>4. CASE OnOpen
    BY <1>1, <1>2, <1>4 DEF OnOpen, netVars, NetShape, PageShape, ShapeOK
  <1>5. CASE OnMessage
    <2>1. /\ wire # <<>> /\ wire' = Tail(wire) /\ stream' = stream /\ cut' = cut
          /\ opening' \subseteq opening \cup {Head(wire)} /\ faults' = faults
          /\ UNCHANGED <<attempt, sid, keys, es, connected, closing, shown, receipt>>
      BY <1>5 DEF OnMessage
    <2>2. Head(wire) \in Frame
      BY <1>1, <2>1, TailItems DEF NetShape
    <2>3. NetShape'
      BY <1>1, <2>1, WireOK DEF NetShape
    <2>4. PageShape'
      BY <1>1, <2>1, <2>2 DEF PageShape
    <2>. QED  BY <1>1, <1>2, <2>1, <2>3, <2>4 DEF ShapeOK
  <1>6. CASE Cut
    <2>1. NetShape'
      BY <1>1, <1>6, WireOK DEF Cut
    <2>. QED  BY <1>1, <1>2, <1>6, <2>1, FailOK DEF Cut, pageVars, PageShape, ShapeOK
  <1>7. ASSUME NEW f \in opening, HandleEnvelope(f) PROVE ShapeOK'
    <2>1. /\ stream' = stream /\ faults' = faults /\ opening' \subseteq opening
          /\ shown' = shown \cup f.ms
          /\ UNCHANGED <<attempt, sid, keys, receipt>>
          /\ \/ es' = None /\ wire' = <<>> /\ cut' = FALSE /\ closing' = TRUE /\ connected' = FALSE
             \/ UNCHANGED <<wire, cut, es, closing, connected>>
      BY <1>7 DEF HandleEnvelope, CloseEs
    <2>2. f.ms \subseteq Msg
      BY <1>1 DEF PageShape, Frame
    <2>3. PageShape'
      BY <1>1, <2>1, <2>2 DEF PageShape
    <2>4. NetShape'
      BY <1>1, <2>1, WireOK DEF NetShape
    <2>. QED  BY <1>1, <1>2, <2>1, <2>3, <2>4 DEF ShapeOK
  <1>. QED  BY <1>4, <1>5, <1>6, <1>7

\* What becomes of the records when one is replaced.
LEMMA OpSet ==
    ASSUME op \in [Msg -> Ops], NEW g \in Msg, NEW new \in Ops, op' = [op EXCEPT ![g] = new]
    PROVE  /\ op' \in [Msg -> Ops] /\ op'[g] = new
           /\ \A n \in Msg \ {g} : op'[n] = op[n]
  OBVIOUS

LEMMA PostShape ==
    ASSUME ShapeOK, NEW g \in Msg, Submit(g) \/ PostStep(g)
    PROVE  ShapeOK'
  <1>1. HostShape /\ NetShape /\ PageShape /\ OpShape /\ faults \in 0 .. MaxFaults
    BY DEF ShapeOK
  <1>2. NetShape'
    <2>1. UNCHANGED netVars
      BY DEF Submit, PostStep, Post, Refuse, HandleSend, SendAck, Reply
    <2>. QED  BY <1>1, <2>1 DEF netVars, NetShape
  <1>3. ASSUME hostVars' = hostVars PROVE HostShape'
    BY <1>1, <1>3 DEF hostVars, HostShape
  <1>4. ASSUME pageVars' = pageVars PROVE PageShape'
    BY <1>1, <1>4 DEF pageVars, PageShape
  <1>5. CASE Submit(g)
    <2>1. g \in OwnMsg /\ op' = [op EXCEPT ![g].pc = "seal", ![g].key = keys]
          /\ UNCHANGED <<hostVars, faults, attempt, sid, keys, es, connected, closing, opening>>
          /\ shown' = shown \cup {g} /\ receipt' = [receipt EXCEPT ![g] = "waiting"]
      BY <1>5 DEF Submit
    <2>2. PageShape'
      BY <1>1, <2>1 DEF PageShape
    <2>3. /\ op' \in [Msg -> Ops] /\ op'[g].pc = "seal"
          /\ \A n \in Msg \ {g} : op'[n] = op[n]
      <3> DEFINE new == [op[g] EXCEPT !.pc = "seal", !.key = keys]
      <3>1. op \in [Msg -> Ops] /\ op[g] \in Ops /\ keys \in Session \cup {None}
        BY <1>1 DEF OpShape, PageShape
      <3>2. new \in Ops /\ new.pc = "seal"
        BY ONLY <3>1 DEF Ops
      <3>3. op' = [op EXCEPT ![g] = new]
        BY ONLY <2>1, <3>1
      <3>. QED  BY ONLY <3>1, <3>2, <3>3, g \in Msg, OpSet
    <2>4. OpShape'
      BY <1>1, <2>1, <2>3, OpStep, MsgAssumption
    <2>. QED  BY <1>1, <1>2, <1>3, <2>1, <2>2, <2>4 DEF ShapeOK
  <1>6. CASE Post(g)
    <2>1. /\ op[g].pc = "seal" /\ op' = [op EXCEPT ![g].pc = "posted", ![g].s = sid]
          /\ UNCHANGED <<hostVars, pageVars, faults>>
      BY <1>6 DEF Post
    <2>2. /\ op' \in [Msg -> Ops] /\ op'[g].pc = "posted"
          /\ \A n \in Msg \ {g} : op'[n] = op[n]
      <3> DEFINE new == [op[g] EXCEPT !.pc = "posted", !.s = sid]
      <3>1. op \in [Msg -> Ops] /\ op[g] \in Ops /\ sid \in Session \cup {None}
        BY <1>1 DEF OpShape, PageShape
      <3>2. new \in Ops /\ new.pc = "posted"
        BY ONLY <3>1 DEF Ops
      <3>3. op' = [op EXCEPT ![g] = new]
        BY ONLY <2>1, <3>1
      <3>. QED  BY ONLY <3>1, <3>2, <3>3, g \in Msg, OpSet
    <2>3. OpShape'
      BY <1>1, <2>1, <2>2, OpStep DEF OpShape
    <2>. QED  BY <1>1, <1>2, <1>3, <1>4, <2>1, <2>3 DEF ShapeOK
  <1>7. ASSUME NEW text \in {"sent", "rate limited", "NOT DELIVERED"}, Answered(g, text),
               UNCHANGED <<hostVars, attempt, sid, keys, es, connected, closing, opening, shown>>,
               faults' = faults \/ Fail
        PROVE  ShapeOK'
    <2>1. PageShape'
      BY <1>1, <1>7 DEF Answered, PageShape
    <2>2. OpDone(g)
      BY <1>7 DEF Answered
    <2>3. OpShape'
      BY <1>1, <2>2, OpDoneOK, OpStep
    <2>. QED  BY <1>1, <1>2, <1>3, <1>7, <2>1, <2>3, FailOK DEF ShapeOK
  <1>8. CASE Refuse(g)
    BY <1>7, <1>8 DEF Refuse
  <1>9. CASE Reply(g)
    BY <1>7, <1>9 DEF Reply
  <1>10. CASE HandleSend(g)
    <2>1. /\ op[g].pc = "posted" /\ op[g].s \in Session
          /\ op' = [op EXCEPT ![g].pc = "list", ![g].key = None]
          /\ history' = history \cup {g}
          /\ UNCHANGED <<marked, lost, life, ch, backlog, streamGen, pageVars, faults>>
      BY <1>10 DEF HandleSend, OpenSessions
    <2>2. /\ op' \in [Msg -> Ops] /\ op'[g].pc = "list" /\ op'[g].s = op[g].s
          /\ \A n \in Msg \ {g} : op'[n] = op[n]
      <3> DEFINE new == [op[g] EXCEPT !.pc = "list", !.key = None]
      <3>1. op \in [Msg -> Ops] /\ op[g] \in Ops
        BY <1>1 DEF OpShape
      <3>2. new \in Ops /\ new.pc = "list" /\ new.s = op[g].s
        BY ONLY <3>1 DEF Ops
      <3>3. op' = [op EXCEPT ![g] = new]
        BY ONLY <2>1, <3>1
      <3>. QED  BY ONLY <3>1, <3>2, <3>3, g \in Msg, OpSet
    <2>3. OpShape'
      BY <1>1, <2>1, <2>2, OpStep DEF OpShape
    <2>4. HostShape'
      BY <1>1, <2>1 DEF HostShape
    <2>. QED  BY <1>1, <1>2, <1>4, <2>1, <2>3, <2>4 DEF ShapeOK
  <1>11. CASE SendAck(g)
    <2>1. /\ g \in OwnMsg /\ op[g].pc = "push" /\ op[g].s \in Session
          /\ UNCHANGED <<history, marked, life, backlog, streamGen, pageVars, faults>>
      BY <1>1, <1>11 DEF SendAck, OpShape
    <2>2. CASE OpGo(g, "panic") /\ UNCHANGED <<ch, lost>>
      <3>1. OpShape'
        BY <1>1, <2>1, <2>2, OpGoOK, OpStep, MsgAssumption
      <3>2. HostShape'
        BY <1>1, <2>1, <2>2 DEF HostShape
      <3>. QED  BY <1>1, <1>2, <1>4, <2>1, <3>1, <3>2 DEF ShapeOK
    <2>3. CASE OpGo(g, "reply") /\ push(op[g].s, OneMsg("ack", g))
      <3>1. OpShape'
        BY <1>1, <2>1, <2>3, OpGoOK, OpStep, MsgAssumption
      <3>2. HostShape'
        BY <1>1, <2>1, <2>3, FrameOK, PushOK DEF HostShape
      <3>. QED  BY <1>1, <1>2, <1>4, <2>1, <3>1, <3>2 DEF ShapeOK
    <2>. QED  BY <1>11, <2>2, <2>3 DEF SendAck
  <1>. QED  BY <1>5, <1>6, <1>8, <1>9, <1>10, <1>11 DEF PostStep

LEMMA NextShape == ShapeOK /\ [Next]_vars => ShapeOK'
  <1>. SUFFICES ASSUME ShapeOK, [Next]_vars PROVE ShapeOK'
    OBVIOUS
  <1>1. CASE UNCHANGED vars
    BY <1>1 DEF vars, ShapeOK, HostShape, NetShape, PageShape, OpShape
  <1>. QED  BY <1>1, SendShape, DropShape, StreamShape, ConnectShape, ReadShape, PostShape DEF Next

\* Every reachable state is type correct; no queue holds more than guestQueueDepth
\* frames, whoever pushes.
THEOREM GuestChatTypes == Spec => []TypeOK
  <1>1. ShapeOK => TypeOK
    <2>. SUFFICES ASSUME ShapeOK PROVE TypeOK
      OBVIOUS
    <2>1. \A s \in Session : ch[s] \in Seq(Frame) /\ Len(ch[s]) <= QueueDepth
      BY DEF ShapeOK, HostShape
    <2>2. {sid, keys} \subseteq Session \cup {None}
      BY DEF ShapeOK, PageShape
    <2>. QED  BY <2>1, <2>2 DEF TypeOK, ShapeOK, HostShape, NetShape, PageShape, Streams, Attempts
  <1>. QED  BY <1>1, InitShape, NextShape, PTL DEF Spec

-----------------------------------------------------------------------------
(* One attempt at a time: whose session it is, and who has been told.      *)

\* The host pushes and drops; it opens no session and writes to no stream.
LEMMA HostKeeps ==
    ASSUME ChainOK, StreamOK, ByeOK,
           UNCHANGED <<stream, wire, attempt, sid, keys, es, closing, opening, backlog>>,
           sid \in Session \cup {None},
           \A s \in Session : life'[s] = "open" => life[s] = "open" /\ NoBye(Items(ch'[s]))
    PROVE  ChainOK' /\ StreamOK' /\ ByeOK'
  <1>1. ChainOK' /\ StreamOK'
    BY DEF ChainOK, StreamOK
  <1>2. ByeOK'
    <2>1. \A s \in Session : life'[s] = "open" => NoBye(Items(ch'[s]))
      OBVIOUS
    <2>2. sid \in Session => (life'[sid] = "open" => life[sid] = "open")
      OBVIOUS
    <2>3. es # None /\ life'[sid] = "open" => NoBye(Items(wire))
      BY <2>2 DEF ByeOK, StreamOK
    <2>4. sid # None /\ life'[sid] = "open" => NoBye(opening) /\ ~closing
      BY <2>2 DEF ByeOK
    <2>. QED  BY <2>1, <2>3, <2>4 DEF ByeOK, NoBye, Items
  <1>. QED  BY <1>1, <1>2

LEMMA HostSteps ==
    ASSUME IInv, ShapeOK',
           \/ \E m \in Msg : SendToGuest(m) \/ DeliverStep(m) \/ Submit(m) \/ PostStep(m)
           \/ \E s \in Session : DropSession(s) \/ DropStep(s)
    PROVE  IInv'
  <1>1. HostShape /\ ChainOK /\ StreamOK /\ ByeOK /\ OpShape /\ sid \in Session \cup {None}
    BY DEF IInv, ShapeOK, PageShape
  <1>2. UNCHANGED <<stream, wire, attempt, sid, keys, es, closing, opening, backlog>>
    BY DEF SendToGuest, DeliverStep, ListSessions, DeliverOne, SendDone, Submit, PostStep, Post,
       Refuse, HandleSend, SendAck, Reply, DropSession, DropStep, Supersede, CloseChannel,
       hostVars, netVars, pageVars
  <1>3. ASSUME UNCHANGED <<life, ch>> PROVE IInv'
    <2>1. \A s \in Session : life'[s] = "open" => life[s] = "open" /\ NoBye(Items(ch'[s]))
      BY <1>1, <1>3 DEF ByeOK
    <2>. QED  BY <1>1, <1>2, <2>1, HostKeeps DEF IInv
  <1>4. ASSUME NEW s \in Session, NEW f \in Frame, push(s, f), f.kind = "bye" => life'[s] # "open",
               \A q \in Session : life'[q] = "open" => life[q] = "open"
        PROVE  IInv'
    <2>1. /\ \A q \in Session \ {s} : ch'[q] = ch[q]
          /\ Items(ch'[s]) \subseteq Items(ch[s]) \cup {f}
      BY <1>1, <1>4, PushOK
    <2>2. \A q \in Session : life'[q] = "open" => life[q] = "open" /\ NoBye(Items(ch'[q]))
      <3>1. \A q \in Session : life[q] = "open" => NoBye(Items(ch[q]))
        BY <1>1 DEF ByeOK
      <3>. QED  BY <1>4, <2>1, <3>1 DEF NoBye
    <2>. QED  BY <1>1, <1>2, <2>2, HostKeeps DEF IInv
  <1>5. ASSUME NEW m \in Msg, SendToGuest(m) \/ DeliverStep(m) PROVE IInv'
    <2>1. ASSUME NEW s \in Session, DeliverOne(m, s) PROVE IInv'
      <3>1. life' = life
        BY <2>1 DEF DeliverOne
      <3>2. CASE ch' = ch
        BY <1>3, <3>1, <3>2
      <3>3. CASE push(s, OneMsg("msg", m))
        <4>1. OneMsg("msg", m) \in Frame /\ OneMsg("msg", m).kind # "bye"
          BY FrameOK
        <4>. QED  BY <1>4, <3>1, <3>3, <4>1
      <3>. QED  BY <2>1, <3>2, <3>3 DEF DeliverOne
    <2>. QED  BY <1>3, <1>5, <2>1 DEF SendToGuest, DeliverStep, ListSessions, SendDone, hostVars
  <1>6. ASSUME NEW m \in Msg, Submit(m) \/ PostStep(m) PROVE IInv'
    <2>1. CASE SendAck(m)
      <3>1. life' = life /\ op[m].s \in Session
        BY <1>1, <2>1 DEF SendAck, OpShape
      <3>2. CASE ch' = ch
        BY <1>3, <3>1, <3>2
      <3>3. CASE push(op[m].s, OneMsg("ack", m))
        <4>1. OneMsg("ack", m) \in Frame /\ OneMsg("ack", m).kind # "bye"
          BY FrameOK
        <4>. QED  BY <1>4, <3>1, <3>3, <4>1
      <3>. QED  BY <2>1, <3>2, <3>3 DEF SendAck
    <2>. QED  BY <1>3, <1>6, <2>1 DEF Submit, PostStep, Post, Refuse, HandleSend, Reply, hostVars
  <1>7. ASSUME NEW s \in Session, DropSession(s) \/ DropStep(s) PROVE IInv'
    <2>1. CASE DropSession(s)
      <3>1. life' = [life EXCEPT ![s] = "told"] /\ push(s, [kind |-> "bye", ms |-> {}])
        BY <2>1 DEF DropSession
      <3>2. life'[s] # "open" /\ \A q \in Session : life'[q] = "open" => life[q] = "open"
        BY <1>1, <3>1 DEF HostShape
      <3>. QED  BY <1>4, <3>1, <3>2, FrameOK
    <2>2. CASE DropStep(s)
      <3>1. \A q \in Session : life'[q] = "open" => life[q] = "open" /\ ch'[q] = ch[q]
        BY <1>1, <2>2 DEF DropStep, Supersede, CloseChannel, HostShape
      <3>2. \A q \in Session : life'[q] = "open" => life[q] = "open" /\ NoBye(Items(ch'[q]))
        BY <1>1, <3>1 DEF ByeOK
      <3>. QED  BY <1>1, <1>2, <3>2, HostKeeps DEF IInv
    <2>. QED  BY <1>7, <2>1, <2>2
  <1>. QED  BY <1>5, <1>6, <1>7

\* A stream moves what its session has queued, and sends the backlog once.
LEMMA StreamKeeps ==
    ASSUME IInv, ShapeOK', NEW e \in Stream, NEW pc \in {"start", "live", "check", "over"},
           StreamGo(e, pc),
           stream[e].pc # "over", pc = "start" => stream[e].pc = "request",
           UNCHANGED <<attempt, sid, keys, es, closing, opening, life>>,
           \A s \in Session :
               backlog'[s] = backlog[s] \/ (s = stream[e].s /\ pc \notin {"request", "start"}),
           \A s \in Session : Items(ch'[s]) \subseteq Items(ch[s]),
           \A f \in Items(wire') :
               f \in Items(wire) \/ f.kind = "old"
                   \/ (e = es /\ stream[e].s \in Session /\ f \in Items(ch[stream[e].s]))
    PROVE  IInv'
  <1>1. NetShape /\ PageShape /\ ChainOK /\ StreamOK /\ ByeOK
    BY DEF IInv, ShapeOK
  <1>2. /\ stream'[e].pc = pc
        /\ pc # "over" \/ es = e => stream'[e].s = stream[e].s
        /\ \A o \in Stream \ {e} : stream'[o] = stream[o]
    BY <1>1, StreamGoOK
  <1>3. ChainOK'
    <2>. SUFFICES ASSUME NEW a \in Attempt
                  PROVE  /\ attempt[a].pc # "off" => es = None
                         /\ attempt[a].pc \in {"hello", "answer", "keys"} => opening = {} /\ ~closing
                         /\ attempt[a].pc \in {"answer", "keys"} =>
                               /\ attempt[a].s \in Session /\ ~backlog'[attempt[a].s]
                               /\ \A o \in Stream : stream'[o].pc # "over" => stream'[o].s # attempt[a].s
                         /\ attempt[a].pc = "keys" => sid = attempt[a].s
      BY DEF ChainOK
    <2>1. /\ attempt[a].pc # "off" => es = None
          /\ attempt[a].pc \in {"hello", "answer", "keys"} => opening = {} /\ ~closing
          /\ attempt[a].pc = "keys" => sid = attempt[a].s
      BY <1>1 DEF ChainOK
    <2>2. ASSUME attempt[a].pc \in {"answer", "keys"}
          PROVE  /\ attempt[a].s \in Session /\ ~backlog'[attempt[a].s]
                 /\ \A o \in Stream : stream'[o].pc # "over" => stream'[o].s # attempt[a].s
      <3>1. /\ attempt[a].s \in Session /\ ~backlog[attempt[a].s]
            /\ \A o \in Stream : stream[o].pc # "over" => stream[o].s # attempt[a].s
        BY <1>1, <2>2 DEF ChainOK
      <3>2. stream[e].s # attempt[a].s
        BY <3>1
      <3>. QED  BY <1>2, <3>1, <3>2
    <2>. QED  BY <2>1, <2>2
  <1>4. StreamOK'
    <2>. SUFFICES ASSUME es # None
                  PROVE  /\ sid \in Session /\ keys = sid /\ stream'[es].s = sid
                         /\ \A o \in Stream \ {es} : stream'[o].pc # "over" => stream'[o].s # sid
                         /\ stream'[es].pc \in {"request", "start"} => ~backlog'[sid]
      BY DEF StreamOK
    <2>1. /\ es \in Stream /\ sid \in Session /\ keys = sid /\ stream[es].s = sid
          /\ \A o \in Stream \ {es} : stream[o].pc # "over" => stream[o].s # sid
          /\ stream[es].pc \in {"request", "start"} => ~backlog[sid]
      BY <1>1 DEF StreamOK, PageShape
    <2>2. stream'[es].s = sid /\ \A o \in Stream \ {es} : stream'[o].pc # "over" => stream'[o].s # sid
      BY <1>2, <2>1
    <2>3. stream'[es].pc \in {"request", "start"} => ~backlog'[sid]
      BY <1>2, <2>1
    <2>. QED  BY <2>1, <2>2, <2>3
  <1>5. ByeOK'
    <2>1. \A s \in Session : life[s] = "open" => NoBye(Items(ch'[s]))
      BY <1>1 DEF ByeOK, NoBye
    <2>2. ASSUME es # None, life[sid] = "open" PROVE NoBye(Items(wire'))
      <3>1. NoBye(Items(wire)) /\ NoBye(Items(ch[sid])) /\ stream[es].s = sid
        BY <1>1, <2>2 DEF ByeOK, StreamOK
      <3>. QED  BY <3>1 DEF NoBye
    <2>3. sid # None /\ life[sid] = "open" => NoBye(opening) /\ ~closing
      BY <1>1 DEF ByeOK
    <2>. QED  BY <2>1, <2>2, <2>3 DEF ByeOK, NoBye, Items
  <1>. QED  BY <1>3, <1>4, <1>5 DEF IInv

LEMMA StreamSteps ==
    ASSUME IInv, ShapeOK', NEW e \in Stream, StreamStep(e) \/ KeepAlive(e)
    PROVE  IInv'
  <1>1. HostShape /\ NetShape
    BY DEF IInv, ShapeOK
  <1>2. UNCHANGED <<attempt, sid, keys, es, closing, opening, life>>
    BY DEF StreamStep, KeepAlive, EventsLookup, EventsStart, StreamWrite, ChannelEnds, CheckGen,
       hostVars, pageVars
  <1>3. ASSUME NEW pc \in {"start", "live", "check", "over"}, StreamGo(e, pc),
               stream[e].pc # "over", pc = "start" => stream[e].pc = "request",
               UNCHANGED <<hostVars, wire>>
        PROVE  IInv'
    BY <1>2, <1>3, StreamKeeps DEF hostVars
  <1>4. CASE EventsLookup(e)
    <2>1. StreamGo(e, "start") \/ StreamGo(e, "over")
      BY <1>4 DEF EventsLookup
    <2>. QED  BY <1>3, <1>4, <2>1 DEF EventsLookup
  <1>5. CASE KeepAlive(e) \/ ChannelEnds(e)
    BY <1>3, <1>5 DEF KeepAlive, ChannelEnds
  <1>6. CASE CheckGen(e)
    <2>1. StreamGo(e, "live") \/ StreamGo(e, "over")
      BY <1>6 DEF CheckGen
    <2>. QED  BY <1>3, <1>6, <2>1 DEF CheckGen
  <1>7. CASE EventsStart(e)
    <2>1. /\ stream[e].pc = "start" /\ StreamGo(e, "live") /\ ch' = ch
          /\ backlog' = [backlog EXCEPT ![stream[e].s] = TRUE]
          /\ wire' = wire \/ wire' = <<[kind |-> "old", ms |-> history]>>
      BY <1>7 DEF EventsStart
    <2>2. \A s \in Session : backlog'[s] = backlog[s] \/ s = stream[e].s
      BY <1>1, <2>1 DEF HostShape
    <2>3. \A f \in Items(wire') : f \in Items(wire) \/ f.kind = "old"
      <3>1. [kind |-> "old", ms |-> history] \in Frame
        BY <1>1, FrameOK DEF HostShape
      <3>2. CASE wire' = wire
        BY <3>2
      <3>3. CASE wire' = <<[kind |-> "old", ms |-> history]>>
        BY <3>1, <3>3, ShortQueues
      <3>. QED  BY <2>1, <3>2, <3>3
    <2>. QED  BY <1>2, <2>1, <2>2, <2>3, StreamKeeps
  <1>8. CASE StreamWrite(e)
    <2>1. /\ stream[e].pc = "live" /\ stream[e].s \in Session /\ ch[stream[e].s] # <<>>
          /\ ch[stream[e].s] \in Seq(Frame) /\ backlog' = backlog
          /\ ch' = [ch EXCEPT ![stream[e].s] = Tail(ch[stream[e].s])]
      BY <1>1, <1>8 DEF StreamWrite, NetShape, HostShape
    <2>2. Items(ch[stream[e].s]) = {Head(ch[stream[e].s])} \cup Items(Tail(ch[stream[e].s]))
      BY <2>1, TailItems
    <2>3. \A s \in Session : Items(ch'[s]) \subseteq Items(ch[s])
      <3>1. \A s \in Session : ch'[s] = ch[s] \/ (s = stream[e].s /\ ch'[s] = Tail(ch[s]))
        BY <1>1, <2>1 DEF HostShape
      <3>. QED  BY <2>2, <3>1
    <2>4. \A f \in Items(wire') :
              f \in Items(wire) \/ (e = es /\ f \in Items(ch[stream[e].s]))
      <3>1. CASE Gone(e)
        BY <1>8, <3>1 DEF StreamWrite
      <3>2. CASE ~Gone(e)
        <4>1. es = e /\ wire' = Append(wire, Head(ch[stream[e].s])) /\ wire \in Seq(Frame)
          BY <1>1, <1>8, <3>2 DEF StreamWrite, Gone, NetShape
        <4>2. Items(wire') = Items(wire) \cup {Head(ch[stream[e].s])}
          BY <2>1, <4>1, AppendItems, TailItems
        <4>. QED  BY <2>2, <4>1, <4>2
      <3>. QED  BY <3>1, <3>2
    <2>5. StreamGo(e, "check") \/ StreamGo(e, "over")
      BY <1>8 DEF StreamWrite
    <2>. QED  BY <1>2, <2>1, <2>3, <2>4, <2>5, StreamKeeps
  <1>. QED  BY <1>4, <1>5, <1>6, <1>7, <1>8 DEF StreamStep

\* The one attempt goes on; what it has found holds of it alone.
LEMMA ConnectSteps ==
    ASSUME OneAttempt, IInv, ShapeOK', NEW a \in Attempt,
           ConnectStep(a) \/ ConnectFails(a) \/ Reconnect(a)
    PROVE  IInv'
  <1>1. HostShape /\ NetShape /\ PageShape /\ ChainOK /\ StreamOK /\ ByeOK
    BY DEF IInv, ShapeOK
  <1>2. \A b \in Attempt : b = a
    BY DEF OneAttempt
  <1>3. /\ attempt[a].pc # "off" => es = None
        /\ attempt[a].pc \in {"hello", "answer", "keys"} => opening = {} /\ ~closing
        /\ attempt[a].pc \in {"answer", "keys"} =>
              /\ attempt[a].s \in Session /\ ~backlog[attempt[a].s]
              /\ \A e \in Stream : stream[e].pc # "over" => stream[e].s # attempt[a].s
        /\ attempt[a].pc = "keys" => sid = attempt[a].s
    BY <1>1 DEF ChainOK
  <1>4. opening' = opening
    BY DEF ConnectStep, ConnectFails, Reconnect, HelloHost, HelloAnswer, OpenStream,
       OnError, TimerFires
  <1>5. \A s \in Session : life[s] = "open" => NoBye(Items(ch[s]))
    BY <1>1 DEF ByeOK
  \* No stream is open afterwards.
  <1>6. ASSUME NEW pc \in {"off", "timer", "hello", "answer", "keys"},
               NEW s \in Session \cup {None}, At(a, pc, s), es' = None,
               pc \in {"hello", "answer", "keys"} => opening = {} /\ ~closing',
               pc \in {"answer", "keys"} =>
                  /\ s \in Session /\ ~backlog'[s]
                  /\ \A e \in Stream : stream'[e].pc # "over" => stream'[e].s # s,
               pc = "keys" => sid' = s,
               \A q \in Session : life'[q] = "open" => NoBye(Items(ch'[q])),
               sid' # None /\ life'[sid'] = "open" => NoBye(opening) /\ ~closing'
        PROVE  IInv'
    <2>1. attempt'[a].pc = pc /\ attempt'[a].s = s
      BY <1>1, <1>6, AtOK
    <2>2. ChainOK'
      BY <1>2, <1>4, <1>6, <2>1 DEF ChainOK
    <2>3. StreamOK'
      BY <1>6 DEF StreamOK
    <2>4. ByeOK'
      BY <1>4, <1>6 DEF ByeOK, NoBye, Items
    <2>. QED  BY <2>2, <2>3, <2>4 DEF IInv
  <1>7. ASSUME NEW s \in Session, HelloHost(a, s) PROVE IInv'
    <2>1. /\ attempt[a].pc = "hello" /\ s \in Unused /\ At(a, "answer", s)
          /\ life' = [life EXCEPT ![s] = "open"] /\ ch' = [ch EXCEPT ![s] = <<>>]
          /\ backlog' = [backlog EXCEPT ![s] = FALSE]
          /\ UNCHANGED <<stream, sid, es, closing>>
      BY <1>7 DEF HelloHost, AnyOf, netVars
    <2>2. s # sid /\ \A e \in Stream : stream[e].pc # "over" => stream[e].s # s
      BY <2>1 DEF Unused, InUse
    <2>3. \A q \in Session : life'[q] = "open" => NoBye(Items(ch'[q]))
      <3>1. ch'[s] = <<>> /\ \A q \in Session \ {s} : ch'[q] = ch[q] /\ life'[q] = life[q]
        BY <1>1, <2>1 DEF HostShape
      <3>. QED  BY <1>5, <3>1, ShortQueues DEF NoBye
    <2>4. ~backlog'[s]
      BY <1>1, <2>1 DEF HostShape
    <2>. QED  BY <1>3, <1>6, <2>1, <2>2, <2>3, <2>4 DEF NoBye
  <1>8. CASE HelloAnswer(a)
    <2>1. /\ attempt[a].pc = "answer" /\ At(a, "keys", attempt[a].s) /\ sid' = attempt[a].s
          /\ UNCHANGED <<life, ch, backlog, stream, es, closing>>
      BY <1>8 DEF HelloAnswer, hostVars, netVars
    <2>2. PICK s \in Session : s = attempt[a].s
      BY <1>3, <2>1
    <2>3. At(a, "keys", s) /\ sid' = s
      BY <2>1, <2>2
    <2>. QED  BY <1>3, <1>5, <1>6, <2>1, <2>2, <2>3 DEF NoBye
  <1>9. ASSUME NEW e \in Stream, OpenStream(a, e) PROVE IInv'
    <2>1. /\ attempt[a].pc = "keys" /\ At(a, "off", None) /\ keys' = attempt[a].s /\ es' = e
          /\ stream' = [stream EXCEPT ![e] = [pc |-> "request", s |-> sid]]
          /\ wire' = <<>> /\ UNCHANGED <<life, ch, backlog, sid, closing>>
          /\ sid \in Session /\ attempt[a].s = sid
      BY <1>3, <1>9 DEF OpenStream, hostVars
    <2>2. /\ attempt'[a].pc = "off"
          /\ stream'[e].pc = "request" /\ stream'[e].s = sid
          /\ \A o \in Stream \ {e} : stream'[o] = stream[o]
      BY <1>1, <2>1, AtOK DEF NetShape
    <2>3. ChainOK'
      BY <1>2, <2>2 DEF ChainOK
    <2>4. StreamOK'
      <3>1. ~backlog[sid] /\ \A o \in Stream : stream[o].pc # "over" => stream[o].s # sid
        BY <1>3, <2>1
      <3>. QED  BY <2>1, <2>2, <3>1 DEF StreamOK
    <2>5. ByeOK'
      <3>1. NoBye(Items(wire'))
        BY <2>1, ShortQueues DEF NoBye
      <3>. QED  BY <1>3, <1>4, <1>5, <2>1, <3>1 DEF ByeOK, NoBye, Items
    <2>. QED  BY <2>3, <2>4, <2>5 DEF IInv
  <1>10. ASSUME NEW pc \in {"off", "timer", "hello"}, At(a, pc, None), es' = None,
                UNCHANGED <<life, ch>>, sid' \in {sid, None}, closing' \in {closing, FALSE},
                pc = "hello" => opening = {} /\ ~closing'
         PROVE  IInv'
    <2>1. sid' # None /\ life'[sid'] = "open" => NoBye(opening) /\ ~closing'
      BY <1>1, <1>10 DEF ByeOK
    <2>. QED  BY <1>5, <1>6, <1>10, <2>1
  <1>11. CASE OnError(a)
    BY <1>10, <1>11 DEF OnError, CloseEs, hostVars
  <1>12. CASE TimerFires(a)
    <2>1. es' = None
      BY <1>3, <1>12 DEF TimerFires
    <2>. QED  BY <1>10, <1>12, <2>1 DEF TimerFires, hostVars
  <1>13. CASE ConnectFails(a)
    <2>1. es' = None /\ (At(a, "timer", None) \/ At(a, "off", None))
      BY <1>3, <1>13 DEF ConnectFails
    <2>. QED  BY <1>10, <1>13, <2>1 DEF ConnectFails, hostVars
  <1>14. CASE Reconnect(a)
    BY <1>10, <1>14 DEF Reconnect, CloseEs, hostVars
  <1>. QED  BY <1>7, <1>8, <1>9, <1>11, <1>12, <1>13, <1>14 DEF ConnectStep

\* What the page reads came from its own session.
LEMMA ReadSteps ==
    ASSUME IInv, ShapeOK',
           OnOpen \/ OnMessage \/ Cut \/ \E f \in opening : HandleEnvelope(f)
    PROVE  IInv'
  <1>1. NetShape /\ PageShape /\ ChainOK /\ StreamOK /\ ByeOK
    BY DEF IInv, ShapeOK
  <1>2. UNCHANGED <<life, ch, backlog, stream, attempt, sid, keys>>
    BY DEF OnOpen, OnMessage, Cut, HandleEnvelope, hostVars, netVars, pageVars
  <1>3. ASSUME es' \in {es, None}, closing' = closing, opening' \subseteq opening,
               Items(wire') \subseteq Items(wire)
        PROVE  IInv'
    <2>1. ChainOK' /\ StreamOK'
      BY <1>1, <1>2, <1>3 DEF ChainOK, StreamOK
    <2>2. ByeOK'
      <3>1. es' # None /\ life[sid] = "open" => NoBye(Items(wire'))
        BY <1>1, <1>3 DEF ByeOK, NoBye
      <3>2. sid # None /\ life[sid] = "open" => NoBye(opening') /\ ~closing'
        BY <1>1, <1>3 DEF ByeOK, NoBye
      <3>3. \A s \in Session : life[s] = "open" => NoBye(Items(ch[s]))
        BY <1>1 DEF ByeOK
      <3>. QED  BY <1>2, <3>1, <3>2, <3>3 DEF ByeOK, NoBye, Items
    <2>. QED  BY <2>1, <2>2 DEF IInv
  <1>4. CASE OnOpen
    BY <1>3, <1>4 DEF OnOpen, netVars
  <1>5. CASE Cut
    BY <1>3, <1>5, ShortQueues DEF Cut, pageVars
  <1>6. CASE OnMessage
    <2>1. /\ es # None /\ wire # <<>> /\ wire' = Tail(wire) /\ es' = es /\ closing' = closing
          /\ opening' \subseteq opening \cup {Head(wire)} /\ wire \in Seq(Frame)
      BY <1>1, <1>6 DEF OnMessage, NetShape
    <2>2. Items(wire) = {Head(wire)} \cup Items(wire')
      BY <2>1, TailItems
    <2>3. ChainOK' /\ StreamOK'
      BY <1>1, <1>2, <2>1 DEF ChainOK, StreamOK
    <2>4. ByeOK'
      <3>1. life[sid] = "open" => NoBye(Items(wire))
        BY <1>1, <2>1 DEF ByeOK
      <3>2. life[sid] = "open" => NoBye(Items(wire')) /\ NoBye({Head(wire)})
        BY <2>2, <3>1 DEF NoBye
      <3>3. sid # None /\ life[sid] = "open" => NoBye(opening') /\ ~closing'
        BY <1>1, <2>1, <3>2 DEF ByeOK, NoBye
      <3>4. \A s \in Session : life[s] = "open" => NoBye(Items(ch[s]))
        BY <1>1 DEF ByeOK
      <3>. QED  BY <1>2, <3>2, <3>3, <3>4 DEF ByeOK, NoBye, Items
    <2>. QED  BY <2>3, <2>4 DEF IInv
  <1>7. ASSUME NEW f \in opening, HandleEnvelope(f) PROVE IInv'
    <2>1. CASE f.kind # "bye"
      BY <1>3, <1>7, <2>1 DEF HandleEnvelope
    <2>2. CASE f.kind = "bye"
      <3>1. es' = None /\ closing' = TRUE /\ opening' \subseteq opening
        BY <1>7, <2>2 DEF HandleEnvelope, CloseEs
      <3>2. ChainOK' /\ StreamOK'
        <4>1. \A a \in Attempt : attempt[a].pc \notin {"hello", "answer", "keys"}
          BY <1>1, <1>7 DEF ChainOK
        <4>. QED  BY <1>2, <3>1, <4>1 DEF ChainOK, StreamOK
      <3>3. ByeOK'
        <4>1. sid = None \/ life[sid] # "open"
          BY <1>1, <1>7, <2>2 DEF ByeOK, NoBye
        <4>2. \A s \in Session : life[s] = "open" => NoBye(Items(ch[s]))
          BY <1>1 DEF ByeOK
        <4>. QED  BY <1>2, <3>1, <4>1, <4>2 DEF ByeOK, NoBye, Items
      <3>. QED  BY <3>2, <3>3 DEF IInv
    <2>. QED  BY <2>1, <2>2
  <1>. QED  BY <1>4, <1>5, <1>6, <1>7

LEMMA InitInv == OneAttempt /\ Init => IInv
  <1>. SUFFICES ASSUME OneAttempt, Init PROVE IInv
    OBVIOUS
  <1>1. ShapeOK
    BY InitShape
  <1>2. ChainOK
    <2>1. es = None /\ opening = {} /\ closing = FALSE
      BY DEF Init
    <2>2. PICK b \in Attempt : attempt = [a \in Attempt |-> IF a = b THEN [NoAttempt EXCEPT !.pc = "hello"]
                                                            ELSE NoAttempt]
      BY DEF Init
    <2>3. \A a \in Attempt : attempt[a].pc \in {"hello", "off"}
      BY <2>2 DEF NoAttempt
    <2>. QED  BY <2>1, <2>3 DEF ChainOK
  <1>3. StreamOK /\ ByeOK
    BY DEF Init, StreamOK, ByeOK
  <1>. QED  BY <1>1, <1>2, <1>3 DEF IInv

LEMMA NextInv == OneAttempt => (IInv /\ [Next]_vars => IInv')
  <1>. SUFFICES ASSUME OneAttempt, IInv, [Next]_vars PROVE IInv'
    OBVIOUS
  <1>1. ShapeOK'
    BY NextShape DEF IInv
  <1>2. CASE UNCHANGED vars
    BY <1>1, <1>2 DEF vars, IInv, ChainOK, StreamOK, ByeOK, NoBye, Items
  <1>. QED  BY <1>1, <1>2, HostSteps, StreamSteps, ConnectSteps, ReadSteps DEF Next

-----------------------------------------------------------------------------
(* Nothing falls between the backlog and the queue.                        *)

Pending(m, s) == op[m].pc = "list" \/ (op[m].pc = "push" /\ s \in op[m].todo)

Frames(s) == opening \cup Items(wire) \cup Items(ch[s])

OnWay(m, s) == m \in shown \cup lost \/ Carries(Frames(s), m) \/ Pending(m, s)

\* The page's stream is up, and reads from session s.
Serves(e, s) == es = e /\ Running(e) /\ ~cut /\ stream[e].s = s /\ life[s] = "open"

\* A step of a stream that was up: no frame is lost on the way to the page, and
\* whoever was to send to the session still is or has.
LEMMA MissedStep ==
    ASSUME NothingMissed, NEW e \in Stream, NEW s \in Session, Serves(e, s),
           \A m \in HostMsg : m \in history' => m \in history \/ Pending(m, s)',
           shown \subseteq shown', lost \subseteq lost',
           \A f \in Frames(s) : f \in Frames(s)' \/ f.ms \subseteq shown' \/ f.kind \notin {"old", "msg"},
           \A m \in HostMsg : Pending(m, s) => OnWay(m, s)'
    PROVE  \A m \in history' \cap HostMsg : OnWay(m, s)'
  <1>. SUFFICES ASSUME NEW m \in HostMsg, m \in history', m \in history PROVE OnWay(m, s)'
    BY DEF OnWay
  <1>1. OnWay(m, s)
    BY NoneAssumption DEF NothingMissed, Serves, OnWay, Pending, Frames
  <1>2. CASE Carries(Frames(s), m)
    <2>1. PICK f \in Frames(s) : f.kind \in {"old", "msg"} /\ m \in f.ms
      BY <1>2 DEF Carries
    <2>2. f \in Frames(s)' \/ m \in shown'
      BY <2>1
    <2>. QED  BY <2>1, <2>2 DEF OnWay, Carries
  <1>. QED  BY <1>1, <1>2 DEF OnWay

\* Of a step after which the stream serves only if it did before.
LEMMA StillServed ==
    ASSUME IInv, NothingMissed,
           \A e \in Stream, s \in Session : Serves(e, s)' => Serves(e, s),
           \A m \in HostMsg, s \in Session : m \in history' => m \in history \/ Pending(m, s)',
           shown \subseteq shown', lost \subseteq lost',
           \A e \in Stream, s \in Session : Serves(e, s)' =>
               \A f \in Frames(s) :
                   f \in Frames(s)' \/ f.ms \subseteq shown' \/ f.kind \notin {"old", "msg"},
           \A m \in HostMsg, e \in Stream, s \in Session :
               Serves(e, s)' /\ Pending(m, s) => OnWay(m, s)',
           IInv'
    PROVE  NothingMissed'
  <1>1. ASSUME NEW e \in Stream, NEW s \in Session, Serves(e, s)'
        PROVE  \A m \in history' \cap HostMsg : OnWay(m, s)'
    BY <1>1, MissedStep
  <1>2. (es # None => es \in Stream /\ sid \in Session /\ stream[es].s = sid)'
    BY DEF IInv, ShapeOK, PageShape, StreamOK
  <1>. QED  BY <1>1, <1>2 DEF NothingMissed, Serves, OnWay, Pending, Frames

\* The host stores, lists and pushes in an order that misses no stream.
LEMMA HostMisses ==
    ASSUME IInv, IInv', NothingMissed,
           UNCHANGED <<es, stream, cut, wire, opening>>,
           shown \subseteq shown', lost \subseteq lost',
           \A s \in Session : life'[s] = "open" =>
               life[s] = "open" /\ Items(ch[s]) \subseteq Items(ch'[s]),
           \A m \in HostMsg, s \in Session : m \in history' => m \in history \/ Pending(m, s)',
           \A m \in HostMsg, s \in Session : life'[s] = "open" /\ Pending(m, s) =>
               Pending(m, s)' \/ m \in lost' \/ Carries(Items(ch[s]), m)'
    PROVE  NothingMissed'
  <1>1. ASSUME NEW e \in Stream, NEW s \in Session, Serves(e, s)'
        PROVE  Serves(e, s) /\ life'[s] = "open" /\ Items(ch[s]) \subseteq Items(ch'[s])
    BY <1>1 DEF Serves, Running
  <1>2. ASSUME NEW e \in Stream, NEW s \in Session, Serves(e, s)'
        PROVE  Frames(s) \subseteq Frames(s)'
    BY <1>1, <1>2 DEF Frames, Items
  <1>3. ASSUME NEW m \in HostMsg, NEW e \in Stream, NEW s \in Session, Serves(e, s)', Pending(m, s)
        PROVE  OnWay(m, s)'
    <2>1. Pending(m, s)' \/ m \in lost' \/ Carries(Items(ch[s]), m)'
      BY <1>1, <1>3
    <2>2. Carries(Items(ch[s]), m)' => Carries(Frames(s), m)'
      BY DEF Carries, Frames
    <2>. QED  BY <2>1, <2>2 DEF OnWay
  <1>. QED  BY <1>1, <1>2, <1>3, StillServed

\* A step of the task of one message, which pushes nothing.
LEMMA TaskMisses ==
    ASSUME IInv, IInv', NothingMissed, NEW m \in Msg,
           UNCHANGED <<es, stream, cut, wire, opening, life, ch, lost>>,
           shown \subseteq shown',
           \A n \in Msg \ {m} : op'[n] = op[n],
           history' \subseteq history \cup {m},
           m \in HostMsg =>
               /\ \A s \in Session : life[s] = "open" /\ Pending(m, s) => Pending(m, s)'
               /\ \A s \in Session : m \in history' => m \in history \/ Pending(m, s)'
    PROVE  NothingMissed'
  <1>1. ASSUME NEW n \in HostMsg, NEW s \in Session, life'[s] = "open", Pending(n, s)
        PROVE  Pending(n, s)'
    <2>1. CASE n = m
      BY <1>1, <2>1
    <2>2. CASE n # m
      BY <1>1, <2>2 DEF Pending, Msg
    <2>. QED  BY <2>1, <2>2
  <1>2. ASSUME NEW n \in HostMsg, NEW s \in Session, n \in history'
        PROVE  n \in history \/ Pending(n, s)'
    BY <1>2
  <1>. QED  BY <1>1, <1>2, HostMisses

LEMMA SendMisses ==
    ASSUME IInv, IInv', NothingMissed, NEW m \in Msg, SendToGuest(m) \/ DeliverStep(m)
    PROVE  NothingMissed'
  <1>1. HostShape /\ OpShape
    BY DEF IInv, ShapeOK
  <1>2. UNCHANGED <<es, stream, cut, wire, opening, shown, life>>
    BY DEF SendToGuest, DeliverStep, ListSessions, DeliverOne, SendDone, hostVars, netVars, pageVars
  <1>3. CASE SendToGuest(m)
    <2>1. /\ OpGo(m, "list") /\ history' = history \cup {m} /\ op[m].pc = "idle"
          /\ UNCHANGED <<ch, lost>>
      BY <1>3 DEF SendToGuest
    <2>2. op'[m].pc = "list" /\ \A n \in Msg \ {m} : op'[n] = op[n]
      BY <1>1, <2>1, OpGoOK
    <2>3. \A s \in Session : Pending(m, s)'
      BY <2>2 DEF Pending
    <2>. QED  BY <1>2, <2>1, <2>2, <2>3, TaskMisses
  <1>4. CASE ListSessions(m)
    <2>. DEFINE todo == OpenSessions \ {op[m].s}
    <2>1. /\ UNCHANGED <<ch, lost, history>> /\ op[m].pc = "list"
          /\ op' = [op EXCEPT ![m].pc = "push", ![m].todo = todo, ![m].got = todo # {}]
      BY <1>4 DEF ListSessions, hostVars
    <2>. HIDE DEF todo
    <2>2. /\ op'[m].pc = "push" /\ op'[m].todo = todo
          /\ \A n \in Msg \ {m} : op'[n] = op[n]
      BY <1>1, <2>1 DEF OpShape, Ops
    <2>3. ASSUME m \in HostMsg, NEW s \in Session, life[s] = "open" PROVE Pending(m, s)'
      <3>1. op[m].s # s
        BY <1>1, <2>3, NoneAssumption DEF OpShape
      <3>2. s \in todo
        BY <2>3, <3>1 DEF todo, OpenSessions
      <3>. QED  BY <2>2, <3>2 DEF Pending
    <2>. QED  BY <1>2, <2>1, <2>2, <2>3, TaskMisses
  <1>5. ASSUME NEW q \in Session, DeliverOne(m, q) PROVE NothingMissed'
    <2>1. op[m].pc = "push" /\ history' = history
      BY <1>5 DEF DeliverOne
    <2>2. CASE life[q] = "closed"
      <3>1. OpGo(m, "panic") /\ lost' = lost \cup {m} /\ ch' = ch
        BY <1>5, <2>2 DEF DeliverOne
      <3>2. \A n \in Msg \ {m} : op'[n] = op[n]
        BY <1>1, <3>1, OpGoOK
      <3>3. ASSUME NEW n \in HostMsg, NEW s \in Session, Pending(n, s)
            PROVE  Pending(n, s)' \/ n \in lost'
        BY <3>1, <3>2, <3>3 DEF Pending, Msg
      <3>. QED  BY <1>2, <2>1, <3>1, <3>3, HostMisses
    <2>3. CASE life[q] # "closed"
      <3>. DEFINE f == OneMsg("msg", m)
      <3>1. op' = [op EXCEPT ![m].todo = @ \ {q}] /\ push(q, f)
        BY <1>5, <2>3 DEF DeliverOne
      <3>2. f \in Frame /\ f.kind = "msg" /\ f.ms = {m}
        BY FrameOK
      <3>. HIDE DEF f
      <3>3. /\ op'[m].pc = "push" /\ op'[m].todo = op[m].todo \ {q}
            /\ \A n \in Msg \ {m} : op'[n] = op[n]
        BY <1>1, <2>1, <3>1 DEF OpShape, Ops
      <3>4. /\ lost \subseteq lost'
            /\ \A s \in Session : Items(ch[s]) \subseteq Items(ch'[s])
            /\ f \in Items(ch'[q]) \/ m \in lost'
        BY <1>1, <3>1, <3>2, PushOK
      <3>5. ASSUME NEW n \in HostMsg, NEW s \in Session, Pending(n, s)
            PROVE  Pending(n, s)' \/ n \in lost' \/ Carries(Items(ch[s]), n)'
        <4>1. CASE n # m
          BY <3>3, <3>5, <4>1 DEF Pending, Msg
        <4>2. CASE n = m /\ s # q
          BY <2>1, <3>3, <3>5, <4>2 DEF Pending
        <4>3. CASE n = m /\ s = q
          <5>1. f \in Items(ch'[s]) \/ n \in lost'
            BY <3>4, <4>3
          <5>2. f \in Items(ch'[s]) => Carries(Items(ch[s]), n)'
            BY <3>2, <4>3 DEF Carries, Items
          <5>. QED  BY <5>1, <5>2
        <4>. QED  BY <4>1, <4>2, <4>3
      <3>. QED  BY <1>2, <2>1, <3>4, <3>5, HostMisses
    <2>. QED  BY <2>2, <2>3
  <1>6. CASE SendDone(m)
    <2>1. /\ UNCHANGED <<ch, lost, history>> /\ OpDone(m)
          /\ op[m].pc = "panic" \/ (op[m].pc = "push" /\ op[m].todo = {})
      BY <1>6 DEF SendDone
    <2>2. \A n \in Msg \ {m} : op'[n] = op[n]
      BY <1>1, <2>1, OpDoneOK
    <2>3. \A s \in Session : ~Pending(m, s)
      BY <2>1 DEF Pending
    <2>. QED  BY <1>2, <2>1, <2>2, <2>3, TaskMisses
  <1>. QED  BY <1>3, <1>4, <1>5, <1>6 DEF DeliverStep

LEMMA PostMisses ==
    ASSUME IInv, IInv', NothingMissed, NEW g \in Msg, Submit(g) \/ PostStep(g)
    PROVE  NothingMissed'
  <1>1. HostShape /\ OpShape
    BY DEF IInv, ShapeOK
  <1>2. g \in OwnMsg /\ g \notin HostMsg
    <2>1. g \in OwnMsg
      BY <1>1 DEF OpShape, Msg, Submit, PostStep, Post, Refuse, HandleSend, SendAck, Reply
    <2>. QED  BY <2>1, MsgAssumption
  <1>3. UNCHANGED <<es, stream, cut, wire, opening, life>> /\ shown \subseteq shown'
    BY DEF Submit, PostStep, Post, Refuse, HandleSend, SendAck, Reply, hostVars, netVars, pageVars
  <1>4. history' \subseteq history \cup {g}
    BY DEF Submit, PostStep, Post, Refuse, HandleSend, SendAck, Reply, hostVars
  <1>5. \A n \in Msg \ {g} : op'[n] = op[n]
    BY <1>1 DEF Submit, PostStep, Post, Refuse, HandleSend, SendAck, Reply, Answered, OpDone,
       OpGo, OpShape
  <1>6. CASE SendAck(g)
    <2>1. /\ lost \subseteq lost' /\ \A s \in Session : Items(ch[s]) \subseteq Items(ch'[s])
      <3>1. op[g].s \in Session
        BY <1>1, <1>6 DEF SendAck, OpShape
      <3>2. CASE UNCHANGED <<ch, lost>>
        BY <3>2
      <3>3. CASE push(op[g].s, OneMsg("ack", g))
        BY <1>1, <3>1, <3>3, FrameOK, PushOK
      <3>. QED  BY <1>6, <3>2, <3>3 DEF SendAck
    <2>2. ASSUME NEW n \in HostMsg, NEW s \in Session, Pending(n, s) PROVE Pending(n, s)'
      BY <1>2, <1>5, <2>2 DEF Pending, Msg
    <2>. QED  BY <1>2, <1>3, <1>4, <2>1, <2>2, HostMisses
  <1>7. CASE ~SendAck(g)
    <2>1. UNCHANGED <<ch, lost>>
      BY <1>7 DEF Submit, PostStep, Post, Refuse, HandleSend, Reply, hostVars
    <2>. QED  BY <1>2, <1>3, <1>4, <1>5, <2>1, TaskMisses
  <1>. QED  BY <1>6, <1>7

LEMMA DropMisses ==
    ASSUME IInv, IInv', NothingMissed, NEW q \in Session, DropSession(q) \/ DropStep(q)
    PROVE  NothingMissed'
  <1>1. HostShape
    BY DEF IInv, ShapeOK
  <1>2. UNCHANGED <<es, stream, cut, wire, opening, shown, op, history>>
    BY DEF DropSession, DropStep, Supersede, CloseChannel, netVars, pageVars
  <1>3. \A m \in HostMsg, s \in Session : Pending(m, s) => Pending(m, s)'
    BY <1>2 DEF Pending
  <1>4. /\ lost \subseteq lost'
        /\ \A s \in Session : life'[s] = "open" =>
               life[s] = "open" /\ Items(ch[s]) \subseteq Items(ch'[s])
    <2>1. CASE DropSession(q)
      <3>1. life' = [life EXCEPT ![q] = "told"] /\ push(q, [kind |-> "bye", ms |-> {}])
        BY <2>1 DEF DropSession
      <3>2. /\ lost \subseteq lost'
            /\ \A s \in Session \ {q} : ch'[s] = ch[s]
        BY <1>1, <3>1, FrameOK, PushOK
      <3>. QED  BY <1>1, <3>1, <3>2 DEF HostShape
    <2>2. CASE DropStep(q)
      <3>1. \A s \in Session : life'[s] = "open" => life[s] = "open" /\ ch'[s] = ch[s]
        BY <1>1, <2>2 DEF DropStep, Supersede, CloseChannel, HostShape
      <3>2. lost' = lost
        BY <2>2 DEF DropStep, Supersede, CloseChannel
      <3>. QED  BY <3>1, <3>2
    <2>. QED  BY <2>1, <2>2
  <1>. QED  BY <1>2, <1>3, <1>4, HostMisses

\* The stream carries every frame from the queue to the page, and begins with
\* everything there was before.
LEMMA StreamMisses ==
    ASSUME IInv, IInv', NothingMissed, NEW o \in Stream, StreamStep(o) \/ KeepAlive(o)
    PROVE  NothingMissed'
  <1>1. HostShape /\ NetShape /\ PageShape /\ StreamOK
    BY DEF IInv, ShapeOK
  <1>2. UNCHANGED <<history, op, es, cut, opening, shown, lost, life>>
    BY DEF StreamStep, KeepAlive, EventsLookup, EventsStart, StreamWrite, ChannelEnds, CheckGen,
       hostVars, pageVars
  <1>3. \A m \in HostMsg, s \in Session : Pending(m, s) => OnWay(m, s)'
    BY <1>2 DEF Pending, OnWay
  \* A stream that was not up before has nothing to lose.
  <1>4. ASSUME NEW pc \in {"start", "live", "check", "over"}, StreamGo(o, pc),
               pc \in {"live", "check"} /\ o = es => stream[o].pc \in {"live", "check"} \/ cut,
               \A s \in Session : es = o /\ stream[o].s = s => Frames(s) \subseteq Frames(s)',
               \A s \in Session : es # o /\ es # None /\ stream[es].s = s /\ stream[es].pc # "over" =>
                   Frames(s) \subseteq Frames(s)'
        PROVE  NothingMissed'
    <2>1. /\ stream'[o].pc = pc
          /\ pc # "over" \/ es = o => stream'[o].s = stream[o].s
          /\ \A e \in Stream \ {o} : stream'[e] = stream[e]
      BY <1>1, <1>4, StreamGoOK
    <2>2. ASSUME NEW e \in Stream, NEW s \in Session, Serves(e, s)' PROVE Serves(e, s)
      BY <1>2, <1>4, <2>1, <2>2 DEF Serves, Running
    <2>3. ASSUME NEW e \in Stream, NEW s \in Session, Serves(e, s)'
          PROVE  Frames(s) \subseteq Frames(s)'
      <3>1. Serves(e, s)
        BY <2>2, <2>3
      <3>2. es # None
        BY <3>1, NoneAssumption DEF Serves
      <3>. QED  BY <1>4, <3>1, <3>2 DEF Serves, Running
    <2>. QED  BY <1>2, <1>3, <2>2, <2>3, StillServed
  <1>5. ASSUME UNCHANGED <<ch, wire>> PROVE \A s \in Session : Frames(s) \subseteq Frames(s)'
    BY <1>2, <1>5 DEF Frames, Items
  <1>6. CASE EventsLookup(o)
    <2>1. StreamGo(o, "start") \/ StreamGo(o, "over")
      BY <1>6 DEF EventsLookup
    <2>. QED  BY <1>4, <1>5, <1>6, <2>1 DEF EventsLookup, hostVars
  <1>7. CASE KeepAlive(o) \/ ChannelEnds(o)
    BY <1>4, <1>5, <1>7 DEF KeepAlive, ChannelEnds, hostVars
  <1>8. CASE CheckGen(o)
    <2>1. StreamGo(o, "live") \/ StreamGo(o, "over")
      BY <1>8 DEF CheckGen
    <2>. QED  BY <1>4, <1>5, <1>8, <2>1 DEF CheckGen, hostVars
  <1>9. CASE EventsStart(o)
    <2>1. /\ stream[o].pc = "start" /\ StreamGo(o, "live") /\ ch' = ch
          /\ wire' = IF backlog[stream[o].s] \/ Gone(o) THEN wire
                     ELSE <<[kind |-> "old", ms |-> history]>>
      BY <1>9 DEF EventsStart
    <2>2. CASE Gone(o)
      <3>1. wire' = wire /\ (o = es => cut)
        BY <2>1, <2>2 DEF Gone
      <3>. QED  BY <1>4, <1>5, <2>1, <3>1
    <2>3. CASE ~Gone(o)
      <3>. DEFINE f == [kind |-> "old", ms |-> history]
      <3>1. es = o /\ ~backlog[stream[o].s] /\ wire' = <<f>>
        BY <1>1, <2>1, <2>3, NoneAssumption DEF Gone, StreamOK
      <3>2. f \in Frame /\ f.kind = "old" /\ f.ms = history
        BY <1>1, FrameOK DEF HostShape
      <3>. HIDE DEF f
      <3>3. f \in Items(wire')
        BY <3>1, <3>2, ShortQueues
      <3>. QED  BY <1>2, <3>2, <3>3 DEF NothingMissed, Carries, Items
    <2>. QED  BY <2>2, <2>3
  <1>10. CASE StreamWrite(o)
    <2>1. /\ stream[o].pc = "live" /\ stream[o].s \in Session /\ ch[stream[o].s] # <<>>
          /\ ch[stream[o].s] \in Seq(Frame)
          /\ ch' = [ch EXCEPT ![stream[o].s] = Tail(ch[stream[o].s])]
      BY <1>1, <1>10 DEF StreamWrite, NetShape, HostShape
    <2>2. /\ ch'[stream[o].s] = Tail(ch[stream[o].s])
          /\ \A s \in Session : s # stream[o].s => ch'[s] = ch[s]
      BY <1>1, <2>1 DEF HostShape
    <2>3. CASE Gone(o)
      <3>1. wire' = wire /\ (StreamGo(o, "check") \/ StreamGo(o, "over")) /\ (o = es => cut)
        BY <1>10, <2>3 DEF StreamWrite, Gone
      <3>2. CASE o = es
        <4>1. ASSUME NEW e \in Stream, NEW s \in Session PROVE ~Serves(e, s)'
          BY <1>2, <3>1, <3>2 DEF Serves
        <4>. QED  BY <1>2, <3>1, <3>2 DEF NothingMissed
      <3>3. CASE o # es
        <4>1. ASSUME NEW s \in Session, es # None, stream[es].s = s, stream[es].pc # "over"
              PROVE  Frames(s) \subseteq Frames(s)'
          <5>1. s # stream[o].s
            BY <1>1, <2>1, <3>3, <4>1 DEF StreamOK
          <5>. QED  BY <1>2, <2>2, <3>1, <5>1 DEF Frames, Items
        <4>. QED  BY <1>4, <3>1, <3>3, <4>1
      <3>. QED  BY <3>2, <3>3
    <2>4. CASE ~Gone(o)
      <3>. DEFINE q == stream[o].s
      <3>1. /\ es = o /\ StreamGo(o, "check") /\ wire' = Append(wire, Head(ch[q]))
            /\ wire \in Seq(Frame)
        BY <1>1, <1>10, <2>4 DEF StreamWrite, Gone, NetShape
      <3>2. Items(ch[q]) = {Head(ch[q])} \cup Items(Tail(ch[q])) /\ Head(ch[q]) \in Frame
        BY <2>1, TailItems
      <3>3. Items(wire') = Items(wire) \cup {Head(ch[q])}
        BY <3>1, <3>2, AppendItems
      <3>4. ASSUME NEW s \in Session, stream[o].s = s PROVE Frames(s) \subseteq Frames(s)'
        <4>1. Items(ch[s]) \subseteq {Head(ch[q])} \cup Items(ch'[s])
          BY <2>2, <3>2, <3>4
        <4>. QED  BY <1>2, <3>3, <4>1 DEF Frames, Items
      <3>. QED  BY <1>4, <2>1, <3>1, <3>4
    <2>. QED  BY <2>3, <2>4
  <1>. QED  BY <1>6, <1>7, <1>8, <1>9, <1>10 DEF StreamStep

\* While the page connects, no stream of its is up.
LEMMA ConnectMisses ==
    ASSUME IInv, NEW a \in Attempt, ConnectStep(a) \/ ConnectFails(a) \/ Reconnect(a)
    PROVE  NothingMissed'
  <1>1. attempt[a].pc # "off" => es = None
    BY DEF IInv, ChainOK
  <1>2. ASSUME NEW e \in Stream, OpenStream(a, e) PROVE NothingMissed'
    <2>1. es' = e /\ stream' = [stream EXCEPT ![e] = [pc |-> "request", s |-> sid]]
      BY <1>2 DEF OpenStream
    <2>2. stream'[e].pc = "request"
      BY <2>1 DEF IInv, ShapeOK, NetShape
    <2>. QED  BY <2>1, <2>2 DEF NothingMissed, Running
  <1>3. ASSUME es' = None PROVE NothingMissed'
    BY <1>3 DEF NothingMissed
  <1>4. ASSUME NEW s \in Session, HelloHost(a, s) PROVE es' = None
    BY <1>1, <1>4 DEF HelloHost
  <1>5. CASE HelloAnswer(a) \/ TimerFires(a) \/ ConnectFails(a)
    BY <1>1, <1>3, <1>5 DEF HelloAnswer, TimerFires, ConnectFails
  <1>6. CASE OnError(a) \/ Reconnect(a)
    BY <1>3, <1>6 DEF OnError, Reconnect, CloseEs
  <1>. QED  BY <1>2, <1>3, <1>4, <1>5, <1>6 DEF ConnectStep

\* What the page takes off the wire it can read, and shows.
LEMMA ReadMisses ==
    ASSUME IInv, IInv', NothingMissed,
           OnOpen \/ OnMessage \/ Cut \/ \E f \in opening : HandleEnvelope(f)
    PROVE  NothingMissed'
  <1>1. NetShape /\ PageShape /\ StreamOK
    BY DEF IInv, ShapeOK
  <1>2. UNCHANGED <<history, op, stream, lost, life, ch>>
    BY DEF OnOpen, OnMessage, Cut, HandleEnvelope, hostVars, netVars, pageVars
  <1>3. ASSUME UNCHANGED <<es, cut>>, shown \subseteq shown',
               \A f \in opening \cup Items(wire) :
                   \/ f \in opening' \cup Items(wire')
                   \/ f.ms \subseteq shown' \/ f.kind \notin {"old", "msg"}
        PROVE  NothingMissed'
    <2>1. ASSUME NEW e \in Stream, NEW s \in Session, Serves(e, s)' PROVE Serves(e, s)
      BY <1>2, <1>3, <2>1 DEF Serves, Running
    <2>2. \A s \in Session : \A f \in Frames(s) :
              f \in Frames(s)' \/ f.ms \subseteq shown' \/ f.kind \notin {"old", "msg"}
      BY <1>2, <1>3 DEF Frames, Items
    <2>3. \A m \in HostMsg, s \in Session : Pending(m, s) => OnWay(m, s)'
      BY <1>2 DEF Pending, OnWay
    <2>. QED  BY <1>2, <1>3, <2>1, <2>2, <2>3, StillServed
  <1>4. CASE OnOpen
    BY <1>3, <1>4 DEF OnOpen, netVars
  <1>5. CASE Cut
    BY <1>5 DEF Cut, NothingMissed
  <1>6. CASE OnMessage
    <2>1. /\ es # None /\ wire # <<>> /\ wire' = Tail(wire) /\ UNCHANGED <<es, cut, shown>>
          /\ wire \in Seq(Frame) /\ keys = stream[es].s
          /\ opening' = IF Head(wire).kind # "ack" THEN opening \cup {Head(wire)} ELSE opening
      BY <1>1, <1>6 DEF OnMessage, NetShape, StreamOK
    <2>2. Items(wire) = {Head(wire)} \cup Items(wire')
      BY <2>1, TailItems
    <2>. QED  BY <1>3, <2>1, <2>2
  <1>7. ASSUME NEW f \in opening, HandleEnvelope(f) PROVE NothingMissed'
    <2>1. opening' = opening \ {f} /\ shown' = shown \cup f.ms
      BY <1>7 DEF HandleEnvelope
    <2>2. CASE f.kind = "bye"
      BY <1>7, <2>2 DEF HandleEnvelope, CloseEs, NothingMissed
    <2>3. CASE f.kind # "bye"
      BY <1>3, <1>7, <2>1, <2>3 DEF HandleEnvelope
    <2>. QED  BY <2>2, <2>3
  <1>. QED  BY <1>4, <1>5, <1>6, <1>7

-----------------------------------------------------------------------------
(* The theorems about one attempt at a time.                               *)

LEMMA AttemptInvariant ==
    ASSUME OneAttempt
    PROVE  Spec => [](IInv /\ NothingMissed)
  <1>1. Init => IInv /\ NothingMissed
    BY InitInv DEF Init, NothingMissed
  <1>2. IInv /\ NothingMissed /\ [Next]_vars => (IInv /\ NothingMissed)'
    <2>. SUFFICES ASSUME IInv, NothingMissed, [Next]_vars PROVE IInv' /\ NothingMissed'
      OBVIOUS
    <2>1. IInv'
      BY NextInv
    <2>2. CASE UNCHANGED vars
      BY <2>1, <2>2 DEF vars, NothingMissed, Running, Carries, Items
    <2>. QED  BY <2>1, <2>2, SendMisses, PostMisses, DropMisses, StreamMisses, ConnectMisses,
              ReadMisses DEF Next
  <1>. QED  BY <1>1, <1>2, PTL DEF Spec

\* Whatever the order in which messages are stored, listed and pushed, sessions
\* dropped and replaced, and streams cut: every message of the host is shown,
\* on its way to the stream that is up, or counted as dropped on a full queue.
THEOREM MissesNothing ==
    ASSUME OneAttempt
    PROVE  Spec => []NothingMissed
  <1>. QED  BY AttemptInvariant, PTL

\* A page that was told to close, and waits, has no session that still takes
\* frames for it.
THEOREM ClosedIsDropped ==
    ASSUME OneAttempt
    PROVE  Spec => []ClosedMeansDropped
  <1>1. IInv => ClosedMeansDropped
    BY DEF IInv, ByeOK, ClosedMeansDropped
  <1>. QED  BY <1>1, AttemptInvariant, PTL
=============================================================================
