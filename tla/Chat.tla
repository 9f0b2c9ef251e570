-------------------------------- MODULE Chat --------------------------------
(***************************************************************************)
(* Messages between peers (transport.go), over the sealed frames of a      *)
(* session (crypto.go), and the transcripts they are kept in (store.go).   *)
(*                                                                         *)
(* Sessions has the life of a session. Here a session is a slot that is    *)
(* used once: it appears with a finished handshake, each end registers or  *)
(* drops it on its own, and it may be replaced, cut or closed at any time. *)
(* Frames of one direction arrive in order or not at all: a frame out of   *)
(* place fails authentication, and the read loop ends.                     *)
(***************************************************************************)
EXTENDS Naturals, FiniteSets, Sequences

CONSTANTS
    Node,           \* fingerprints
    Link,           \* sessions
    Msg,            \* message ids
    None,
    MaxFaults       \* bound: sessions cut, conversations cleared, processes restarted

ASSUME NoneAssumption == None \notin Node \cup Link \cup Msg
ASSUME BoundAssumption == MaxFaults \in Nat
ASSUME NodeAssumption == IsFiniteSet(Node)

VARIABLES
    between,    \* a session: the two ends
    at,         \* an end: how far its goroutine has come
    cut,        \* the network has lost the session
    wire,       \* the frames on their way to an end
    conns,      \* App.conns
    pending,    \* the goroutines of Send that have not written yet
    busy,       \* the message that handleFrame has stored and not acked
    hist,       \* History: the messages of a conversation
    marks,      \* History: the delivery receipts of a conversation
    log,        \* history: what was sent, by whom, to which conversation, over what
    copies,     \* history: how often a node appended a message
    told,       \* history: how often an ack of a node marked a message
    faults

linkVars == <<between, at, cut>>
storeVars == <<hist, marks, copies, told>>
vars == <<between, at, cut, wire, conns, pending, busy, hist, marks, log, copies,
          told, faults>>

-----------------------------------------------------------------------------
Room == "room"
Conv == {Room} \cup Node
Frame == [t : {"msg", "ack"}, m : Msg, conv : {"room", "dm"}]

Ends(l) == between[l]
Peer(l, n) == CHOOSE p \in between[l] : p # n
Live(l, n) == n \in between[l] /\ at[l][n] = "live"
Broken(l, n) == cut[l] \/ at[l][Peer(l, n)] \in {"closing", "closed"}
Sent(m) == log[m].by # None

Fault == faults < MaxFaults /\ faults' = faults + 1

\* The conversation a frame belongs to at this end: a dm is filed under the peer.
Local(l, n, scope) == IF scope = "dm" THEN Peer(l, n) ELSE Room
Scope(conv) == IF conv = Room THEN "room" ELSE "dm"

\* The frame is sealed and written: it is lost if the other end will not read.
Write(l, n, frame) ==
    wire' = IF Broken(l, n) THEN wire
            ELSE [wire EXCEPT ![l][Peer(l, n)] = Append(@, frame)]

Init ==
    /\ between = [l \in Link |-> {}]
    /\ at = [l \in Link |-> [n \in Node |-> "none"]]
    /\ cut = [l \in Link |-> FALSE]
    /\ wire = [l \in Link |-> [n \in Node |-> <<>>]]
    /\ conns = [n \in Node |-> [p \in Node |-> None]]
    /\ pending = {}
    /\ busy = [l \in Link |-> [n \in Node |-> None]]
    /\ hist = [n \in Node |-> [c \in Conv |-> {}]]
    /\ marks = [n \in Node |-> [c \in Conv |-> [m \in Msg |-> 0]]]
    /\ log = [m \in Msg |-> [by |-> None, conv |-> Room, via |-> {}]]
    /\ copies = [m \in Msg |-> [n \in Node |-> 0]]
    /\ told = [m \in Msg |-> [n \in Node |-> 0]]
    /\ faults = 0

-----------------------------------------------------------------------------
(* Sessions.                                                               *)

\* Seeded fault: one end forgets the session.
Handshake_OneSided(l, n, p) ==
    /\ between[l] = {} /\ n # p
    /\ between' = [between EXCEPT ![l] = {n, p}]
    /\ at' = [at EXCEPT ![l][n] = "ready"]
    /\ UNCHANGED <<cut, wire, conns, pending, busy, storeVars, log, faults>>

\* handshake has returned at both ends.
Handshake(l, n, p) ==
    /\ between[l] = {} /\ n # p
    /\ between' = [between EXCEPT ![l] = {n, p}]
    /\ at' = [at EXCEPT ![l][n] = "ready", ![l][p] = "ready"]
    /\ UNCHANGED <<cut, wire, conns, pending, busy, storeVars, log, faults>>

\* register, and the close of the session it replaces. Which of two it keeps is
\* Sessions' matter: here it may be either.
Register(l, n) ==
    /\ n \in between[l] /\ at[l][n] = "ready"
    /\ LET p == Peer(l, n)
           old == conns[n][p]
       IN  \/ /\ conns' = [conns EXCEPT ![n][p] = l]
              /\ at' = [k \in Link |->
                          IF k = l THEN [at[k] EXCEPT ![n] = "live"]
                          ELSE IF k = old THEN [at[k] EXCEPT ![n] = "closing"]
                          ELSE at[k]]
           \/ /\ old # None
              /\ at' = [at EXCEPT ![l][n] = "closed"]
              /\ UNCHANGED conns
    /\ UNCHANGED <<between, cut, wire, pending, busy, storeVars, log, faults>>

\* The read loop ends, as its session is cut or was closed at either end. What it
\* has buffered by then may be handled first, or be lost.
ReadFails(l, n) ==
    /\ n \in between[l]
    /\ at[l][n] = "closing" \/ (at[l][n] = "live" /\ Broken(l, n))
    /\ busy[l][n] = None
    /\ at' = [at EXCEPT ![l][n] = "closed"]
    /\ conns' = IF conns[n][Peer(l, n)] = l
                THEN [conns EXCEPT ![n][Peer(l, n)] = None] ELSE conns
    /\ UNCHANGED <<between, cut, wire, pending, busy, storeVars, log, faults>>

\* The network silently stops carrying data; what is under way is gone.
Cut(l) ==
    /\ \E n \in between[l] : at[l][n] \in {"ready", "live"}
    /\ ~cut[l]
    /\ Fault
    /\ cut' = [cut EXCEPT ![l] = TRUE]
    /\ wire' = [wire EXCEPT ![l] = [n \in Node |-> <<>>]]
    /\ UNCHANGED <<between, at, conns, pending, busy, storeVars, log>>

-----------------------------------------------------------------------------
(* Send.                                                                   *)

Targets(n, conv) ==
    IF conv = Room THEN {conns[n][p] : p \in Node} \ {None} ELSE {conns[n][conv]} \ {None}

\* The sessions are listed under the lock; the message goes to the transcript;
\* then one goroutine per session writes it.
Send(n, m, conv) ==
    /\ ~Sent(m)
    /\ conv # n
    /\ LET targets == Targets(n, conv)
       IN  /\ log' = [log EXCEPT ![m] = [by |-> n, conv |-> conv, via |-> targets]]
           /\ pending' = pending \cup {<<m, l>> : l \in targets}
    /\ hist' = [hist EXCEPT ![n][conv] = @ \cup {m}]
    /\ UNCHANGED <<linkVars, wire, conns, busy, marks, copies, told, faults>>

\* Seeded fault: the message is written again until it is acked.
SendMsg_Again(m, l) ==
    /\ <<m, l>> \in pending
    /\ LET n == log[m].by
       IN  /\ Live(l, n)
           /\ pending' = IF told[m][Peer(l, n)] = 0 THEN pending ELSE pending \ {<<m, l>>}
           /\ Write(l, n, [t |-> "msg", m |-> m, conv |-> Scope(log[m].conv)])
    /\ UNCHANGED <<at, conns, between, cut, busy, storeVars, log, faults>>

\* A write that fails closes the session; its read loop finds out.
SendMsg(m, l) ==
    /\ <<m, l>> \in pending
    /\ pending' = pending \ {<<m, l>>}
    /\ LET n == log[m].by
           frame == [t |-> "msg", m |-> m, conv |-> Scope(log[m].conv)]
       IN  \/ ~Live(l, n) /\ UNCHANGED <<wire, at>>
           \/ Live(l, n) /\ Write(l, n, frame) /\ UNCHANGED at
           \/ /\ Live(l, n) /\ Broken(l, n)
              /\ at' = [at EXCEPT ![l][n] = "closing"]
              /\ UNCHANGED wire
    /\ UNCHANGED <<between, cut, conns, busy, storeVars, log, faults>>

-----------------------------------------------------------------------------
(* handleFrame.                                                            *)

Reads(l, n, t) ==
    /\ at[l][n] \in {"live", "closing"}
    /\ busy[l][n] = None
    /\ wire[l][n] # <<>>
    /\ Head(wire[l][n]).t = t

Append1(n, conv, m) ==
    /\ hist' = [hist EXCEPT ![n][conv] = @ \cup {m}]
    /\ copies' = [copies EXCEPT ![m][n] = @ + 1]

\* Seeded fault: the handler returns before the ack.
HandleMsg_NoAck(l, n) ==
    LET f == Head(wire[l][n])
    IN  /\ Reads(l, n, "msg")
        /\ Append1(n, Local(l, n, f.conv), f.m)
        /\ wire' = [wire EXCEPT ![l][n] = Tail(@)]
        /\ UNCHANGED <<linkVars, conns, pending, busy, marks, told, log, faults>>

\* A message is stored and shown ...
HandleMsg(l, n) ==
    LET f == Head(wire[l][n])
    IN  /\ Reads(l, n, "msg")
        /\ Append1(n, Local(l, n, f.conv), f.m)
        /\ wire' = [wire EXCEPT ![l][n] = Tail(@)]
        /\ busy' = [busy EXCEPT ![l][n] = f]
        /\ UNCHANGED <<linkVars, conns, pending, marks, told, log, faults>>

\* ... and acked, by the same goroutine. An error of this write is ignored.
SendAck(l, n) ==
    /\ busy[l][n] # None
    /\ IF at[l][n] = "live"
       THEN Write(l, n, [busy[l][n] EXCEPT !.t = "ack"])
       ELSE UNCHANGED wire
    /\ busy' = [busy EXCEPT ![l][n] = None]
    /\ UNCHANGED <<linkVars, conns, pending, storeVars, log, faults>>

\* Seeded fault: the receipt is filed under the scope of the frame's sender.
HandleAck_Room(l, n) ==
    LET f == Head(wire[l][n])
    IN  /\ Reads(l, n, "ack")
        /\ marks' = [marks EXCEPT ![n][Room][f.m] = @ + 1]
        /\ told' = [told EXCEPT ![f.m][Peer(l, n)] = @ + 1]
        /\ wire' = [wire EXCEPT ![l][n] = Tail(@)]
        /\ UNCHANGED <<linkVars, conns, pending, busy, hist, copies, log, faults>>

\* A receipt is counted in the conversation the message is in at this end.
HandleAck(l, n) ==
    LET f == Head(wire[l][n])
    IN  /\ Reads(l, n, "ack")
        /\ marks' = [marks EXCEPT ![n][Local(l, n, f.conv)][f.m] = @ + 1]
        /\ told' = [told EXCEPT ![f.m][Peer(l, n)] = @ + 1]
        /\ wire' = [wire EXCEPT ![l][n] = Tail(@)]
        /\ UNCHANGED <<linkVars, conns, pending, busy, hist, copies, log, faults>>

-----------------------------------------------------------------------------
(* The operator clears a conversation; a process ends and starts again.    *)

Clear(n, conv) ==
    /\ Fault
    /\ hist' = [hist EXCEPT ![n][conv] = {}]
    /\ marks' = [marks EXCEPT ![n][conv] = [m \in Msg |-> 0]]
    /\ UNCHANGED <<linkVars, wire, conns, pending, busy, log, copies, told>>

\* Transcripts are memory-only. The other end notices, sooner or later.
Restart(n) ==
    /\ Fault
    /\ at' = [l \in Link |-> [at[l] EXCEPT ![n] = IF n \in between[l] THEN "closed" ELSE @]]
    /\ conns' = [conns EXCEPT ![n] = [p \in Node |-> None]]
    /\ pending' = {x \in pending : log[x[1]].by # n}
    /\ busy' = [l \in Link |-> [busy[l] EXCEPT ![n] = None]]
    /\ hist' = [hist EXCEPT ![n] = [c \in Conv |-> {}]]
    /\ marks' = [marks EXCEPT ![n] = [c \in Conv |-> [m \in Msg |-> 0]]]
    /\ UNCHANGED <<between, cut, wire, log, copies, told>>

-----------------------------------------------------------------------------
EndStep(l, n) ==
    Register(l, n) \/ ReadFails(l, n) \/ HandleMsg(l, n) \/ SendAck(l, n) \/ HandleAck(l, n)

Next ==
    \/ \E l \in Link : \E n, p \in Node : Handshake(l, n, p)
    \/ \E l \in Link : Cut(l)
    \/ \E n \in Node, m \in Msg, conv \in Conv : Send(n, m, conv)
    \/ \E m \in Msg, l \in Link : SendMsg(m, l)
    \/ \E l \in Link, n \in Node : EndStep(l, n)
    \/ \E n \in Node, conv \in Conv : Clear(n, conv)
    \/ \E n \in Node : Restart(n)

Spec == Init /\ [][Next]_vars

\* Goroutines go on, and a dead session is noticed by its read deadline or by a
\* heartbeat that cannot be written. Slots are used once, so these steps end.
Progress ==
    \/ \E m \in Msg, l \in Link : SendMsg(m, l)
    \/ \E l \in Link, n \in Node : EndStep(l, n)

FairSpec == Spec /\ WF_vars(Progress)

-----------------------------------------------------------------------------
(* Properties.                                                             *)

TypeOK ==
    /\ between \in [Link -> SUBSET Node]
    /\ at \in [Link -> [Node -> {"none", "ready", "live", "closing", "closed"}]]
    /\ cut \in [Link -> BOOLEAN]
    /\ \A l \in Link, n \in Node :
           /\ wire[l][n] \in Seq(Frame)
           /\ busy[l][n] \in Frame \cup {None}
           /\ at[l][n] # "none" <=> n \in between[l]
    /\ conns \in [Node -> [Node -> Link \cup {None}]]
    /\ pending \subseteq Msg \X Link
    /\ hist \in [Node -> [Conv -> SUBSET Msg]]
    /\ marks \in [Node -> [Conv -> [Msg -> 0 .. Cardinality(Node)]]]
    /\ log \in [Msg -> [by : Node \cup {None}, conv : Conv, via : SUBSET Link]]
    /\ copies \in [Msg -> [Node -> Nat]] /\ told \in [Msg -> [Node -> Nat]]
    /\ faults \in 0 .. MaxFaults

\* Chat keeps the promise of Delivery.
Promise == INSTANCE Delivery WITH
    due <- [m \in Msg |-> IF Sent(m) THEN {Peer(l, log[m].by) : l \in log[m].via} ELSE {}],
    stored <- copies

KeepsPromise == Promise!Spec

\* A transcript shows a receipt only where its process sent the message to, and
\* a room message counts the peers, never one of them twice: whatever was
\* replaced, cleared or restarted between the message and its ack.
MarksBelong ==
    \A n \in Node, c \in Conv, m \in Msg :
        marks[n][c][m] > 0 =>
            /\ log[m].by = n /\ log[m].conv = c
            /\ marks[n][c][m] <= Cardinality({p \in Node : copies[m][p] > 0})

\* A message handed to a session is stored and acked, unless the session ends.
AckedUnlessBroken ==
    \A m \in Msg, l \in Link :
        <>[](/\ Sent(m) /\ l \in log[m].via
             /\ ~cut[l] /\ \A n \in between[l] : at[l][n] = "live")
            => <>(\E p \in between[l] : told[m][p] = 1)
=============================================================================
