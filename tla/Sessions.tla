------------------------------ MODULE Sessions ------------------------------
(***************************************************************************)
(* The session table of the peer mesh (transport.go).                      *)
(*                                                                         *)
(* Every node may dial every other one, so two nodes can open several TCP  *)
(* connections to each other at once; App.register keeps one per peer.     *)
(* The module models dialPeer, acceptLoop, handshake, register, runConn,   *)
(* Conn.close and closeAllConns, with every point at which another         *)
(* goroutine (or the other node) can run between two of their steps.       *)
(*                                                                         *)
(* A TCP connection is a Link with two ends, "out" at the node that dialed *)
(* and "in" at the node that accepted; an end is one *Conn of the code.    *)
(* A slot of Link is used again once both its Conns are garbage.           *)
(***************************************************************************)
EXTENDS Naturals, FiniteSets

CONSTANTS
    Node,          \* fingerprints; their order stands for the string order
    Link,          \* TCP connections that can exist at the same time
    None,          \* no link, no node
    MaxFaults,     \* bound: failures, restarts and shutdowns in a behaviour
    MaxInFlight    \* bound: attempts of one node at one peer not registered yet

ASSUME NodeAssumption == Node \subseteq Nat
ASSUME LinkAssumption == IsFiniteSet(Link)
ASSUME NoneAssumption == None \notin Node /\ None \notin Link
ASSUME BoundAssumption == MaxFaults \in Nat /\ MaxInFlight \in Nat

VARIABLES
    conns,     \* App.conns of every node: peer -> the registered link
    from, to,  \* the two nodes of a link
    pc,        \* how far the goroutine that owns an end has come
    closed,    \* the end's socket has been closed (Conn.closed, sc.Close)
    victim,    \* the link that a register replaced and has still to close
    replied,   \* the responder's hello is on its way to the dialer
    cut,       \* the network silently stopped carrying this link
    toClose,   \* the links closeAllConns took out of conns and has to close
    faults

vars == <<conns, from, to, pc, closed, victim, replied, cut, toClose, faults>>

-----------------------------------------------------------------------------
Side == {"out", "in"}
Phase == {"idle",     \* this end does not exist
          "dialing",  \* dialPeer has seen no session and is in DialTimeout
          "hello",    \* in handshake
          "shook",    \* handshake returned a Conn, register not called yet
          "drop",     \* register said no, sc.Close not called yet
          "super",    \* register replaced a session, close not called yet
          "live",     \* read loop of runConn
          "ending",   \* read loop left and Conn closed, entry not removed yet
          "done"}     \* the goroutine has returned

Far(s) == IF s = "out" THEN "in" ELSE "out"
Local(l, s) == IF s = "out" THEN from[l] ELSE to[l]
Remote(l, s) == Local(l, Far(s))
SideAt(l, n) == IF from[l] = n THEN "out" ELSE "in"
dialerOf(l) == from[l]

\* The other end's socket is closed, or the network lost the link: a read or
\* a write at this end fails sooner or later (sessionIdle at the latest).
Gone(l, s) == closed[l][Far(s)] \/ cut[l]

InFlight(n, m) ==
    {l \in Link : /\ from[l] = n /\ to[l] = m
                  /\ pc[l]["out"] \in {"dialing", "hello", "shook"}}

\* No goroutine and no table refers to the slot's Conns any more.
Garbage(l) ==
    /\ \A s \in Side : pc[l][s] \in {"idle", "done"}
    /\ \A k \in Link, s \in Side : victim[k][s] # l
    /\ \A n \in Node : l \notin toClose[n]

Goto(l, s, phase) == pc' = [pc EXCEPT ![l][s] = phase]
Shut(l, s) == closed' = [closed EXCEPT ![l][s] = TRUE]
CanFail == faults < MaxFaults
Fail == CanFail /\ faults' = faults + 1

Init ==
    /\ conns = [n \in Node |-> [m \in Node |-> None]]
    /\ from = [l \in Link |-> None]
    /\ to = [l \in Link |-> None]
    /\ pc = [l \in Link |-> [s \in Side |-> "idle"]]
    /\ closed = [l \in Link |-> [s \in Side |-> FALSE]]
    /\ victim = [l \in Link |-> [s \in Side |-> None]]
    /\ replied = [l \in Link |-> FALSE]
    /\ cut = [l \in Link |-> FALSE]
    /\ toClose = [n \in Node |-> {}]
    /\ faults = 0

-----------------------------------------------------------------------------
(* Opening a connection: dialPeer, acceptLoop, handshake.                  *)

\* dialPeer looks for a session under App.mu, then dials without the lock.
\* Nothing records the attempt, so a second one may start while it runs.
DialPeer(n, m, l) ==
    /\ n # m
    /\ conns[n][m] = None
    /\ Cardinality(InFlight(n, m)) < MaxInFlight
    /\ Garbage(l)
    /\ from' = [from EXCEPT ![l] = n]
    /\ to' = [to EXCEPT ![l] = m]
    /\ pc' = [pc EXCEPT ![l] = [s \in Side |-> IF s = "out" THEN "dialing" ELSE "idle"]]
    /\ closed' = [closed EXCEPT ![l] = [s \in Side |-> FALSE]]
    /\ replied' = [replied EXCEPT ![l] = FALSE]
    /\ cut' = [cut EXCEPT ![l] = FALSE]
    /\ UNCHANGED <<conns, victim, toClose, faults>>

\* The TCP connection opens: the dialer writes its hello at once, and the
\* accept loop of the other node starts a goroutine that waits for it.
Accept(l) ==
    /\ pc[l]["out"] = "dialing"
    /\ pc' = [pc EXCEPT ![l] = [s \in Side |-> "hello"]]
    /\ UNCHANGED <<conns, from, to, closed, victim, replied, cut, toClose, faults>>

\* DialTimeout returns an error.
DialFails(l) ==
    /\ pc[l]["out"] = "dialing"
    /\ Goto(l, "out", "done")
    /\ Shut(l, "out")
    /\ Fail
    /\ UNCHANGED <<conns, from, to, victim, replied, cut, toClose>>

\* The responder reads the dialer's hello, writes its own and only then
\* verifies what it read: a rejected dialer still gets an answer.
Answer(l) ==
    /\ pc[l]["in"] = "hello"
    /\ replied' = [replied EXCEPT ![l] = ~cut[l]]
    /\ \/ /\ Goto(l, "in", "shook")
          /\ UNCHANGED <<closed, faults>>
       \/ /\ Goto(l, "in", "done")
          /\ Shut(l, "in")
          /\ Fail
    /\ UNCHANGED <<conns, from, to, victim, cut, toClose>>

\* The dialer reads and accepts the responder's hello.
ReadReply(l) ==
    /\ pc[l]["out"] = "hello"
    /\ replied[l]
    /\ Goto(l, "out", "shook")
    /\ UNCHANGED <<conns, from, to, closed, victim, replied, cut, toClose, faults>>

\* A read or a write of the handshake fails because the other end is gone,
\* or the handshake times out or is refused.
HandshakeFails(l, s) ==
    /\ pc[l][s] = "hello"
    /\ \/ Gone(l, s) /\ UNCHANGED faults
       \/ ~Gone(l, s) /\ Fail
    /\ Goto(l, s, "done")
    /\ Shut(l, s)
    /\ UNCHANGED <<conns, from, to, victim, replied, cut, toClose>>

-----------------------------------------------------------------------------
(* The life of a session: register, runConn, Conn.close.                   *)

\* Seeded faults: the first session wins, or the latest one.
KeepNew_Never(l, existing) == FALSE
KeepNew_Always(l, existing) == TRUE

\* The rule of App.register for two sessions with the same peer.
KeepNew(l, existing) == dialerOf(l) < dialerOf(existing)

\* register runs under App.mu; what follows from its answer (closing the
\* replaced Conn, or the refused one) happens after the lock is released.
Register(l, s) ==
    LET n == Local(l, s)
        m == Remote(l, s)
        existing == conns[n][m]
    IN  /\ pc[l][s] = "shook"
        /\ \/ /\ existing = None
              /\ conns' = [conns EXCEPT ![n][m] = l]
              /\ Goto(l, s, "live")
              /\ UNCHANGED victim
           \/ /\ existing # None
              /\ KeepNew(l, existing)
              /\ conns' = [conns EXCEPT ![n][m] = l]
              /\ Goto(l, s, "super")
              /\ victim' = [victim EXCEPT ![l][s] = existing]
           \/ /\ existing # None
              /\ ~KeepNew(l, existing)
              /\ Goto(l, s, "drop")
              /\ UNCHANGED <<conns, victim>>
        /\ UNCHANGED <<from, to, closed, replied, cut, toClose, faults>>

CloseVictim(l, s) ==
    /\ pc[l][s] = "super"
    /\ LET v == victim[l][s] IN Shut(v, SideAt(v, Local(l, s)))
    /\ victim' = [victim EXCEPT ![l][s] = None]
    /\ Goto(l, s, "live")
    /\ UNCHANGED <<conns, from, to, replied, cut, toClose, faults>>

CloseDropped(l, s) ==
    /\ pc[l][s] = "drop"
    /\ Shut(l, s)
    /\ Goto(l, s, "done")
    /\ UNCHANGED <<conns, from, to, victim, replied, cut, toClose, faults>>

\* heartbeat or Send cannot write and closes the Conn; the read loop finds out.
WriteFails(l, s) ==
    /\ pc[l][s] \in {"super", "live"}
    /\ Gone(l, s)
    /\ ~closed[l][s]
    /\ Shut(l, s)
    /\ UNCHANGED <<conns, from, to, pc, victim, replied, cut, toClose, faults>>

\* handleBye (discovery.go) finds the Conn of a departed peer in the table under
\* App.mu and closes it after the unlock, when it may have been replaced. It
\* leaves the entry to runConn.
HandleBye(l, s) ==
    /\ pc[l][s] \in {"super", "live"}
    /\ ~closed[l][s]
    /\ Shut(l, s)
    /\ Fail
    /\ UNCHANGED <<conns, from, to, pc, victim, replied, cut, toClose>>

ReadFails(l, s) ==
    /\ pc[l][s] = "live"
    /\ closed[l][s] \/ Gone(l, s)
    /\ Shut(l, s)
    /\ Goto(l, s, "ending")
    /\ UNCHANGED <<conns, from, to, victim, replied, cut, toClose, faults>>

\* Seeded faults: the entry stays, or goes although it is another Conn's.
Cleanup_Forgets(l, s) ==
    /\ pc[l][s] = "ending"
    /\ Goto(l, s, "done")
    /\ UNCHANGED <<conns, from, to, closed, victim, replied, cut, toClose, faults>>

Cleanup_Unconditional(l, s) ==
    /\ pc[l][s] = "ending"
    /\ conns' = [conns EXCEPT ![Local(l, s)][Remote(l, s)] = None]
    /\ Goto(l, s, "done")
    /\ UNCHANGED <<from, to, closed, victim, replied, cut, toClose, faults>>

\* The end of runConn: the entry is removed only if it is still this Conn.
Cleanup(l, s) ==
    LET n == Local(l, s)
        m == Remote(l, s)
    IN  /\ pc[l][s] = "ending"
        /\ conns' = [conns EXCEPT ![n][m] = IF @ = l THEN None ELSE @]
        /\ Goto(l, s, "done")
        /\ UNCHANGED <<from, to, closed, victim, replied, cut, toClose, faults>>

-----------------------------------------------------------------------------
(* Failures and shutdown.                                                  *)

Cut(l) ==
    /\ ~cut[l]
    /\ \E s \in Side : pc[l][s] \notin {"idle", "done"}
    /\ cut' = [cut EXCEPT ![l] = TRUE]
    /\ Fail
    /\ UNCHANGED <<conns, from, to, pc, closed, victim, replied, toClose>>

\* Seeded fault: the table is listed and not emptied.
CloseAllConns_KeepsTable(n) ==
    /\ toClose[n] = {}
    /\ toClose' = [toClose EXCEPT ![n] = {l \in Link : \E m \in Node : conns[n][m] = l}]
    /\ Fail
    /\ UNCHANGED <<conns, from, to, pc, closed, victim, replied, cut>>

\* closeAllConns empties the table under the lock and closes what was in it
\* afterwards, one Conn at a time; accepting and dialing go on meanwhile.
CloseAllConns(n) ==
    /\ toClose[n] = {}
    /\ toClose' = [toClose EXCEPT ![n] = {l \in Link : \E m \in Node : conns[n][m] = l}]
    /\ conns' = [conns EXCEPT ![n] = [m \in Node |-> None]]
    /\ Fail
    /\ UNCHANGED <<from, to, pc, closed, victim, replied, cut>>

CloseListed(n, l) ==
    /\ l \in toClose[n]
    /\ Shut(l, SideAt(l, n))
    /\ toClose' = [toClose EXCEPT ![n] = @ \ {l}]
    /\ UNCHANGED <<conns, from, to, pc, victim, replied, cut, faults>>

\* The process dies and starts again: its goroutines and its table are gone
\* and the kernel closes its sockets. The identity is read back from disk.
Restart(n) ==
    LET Mine(l, s) == Local(l, s) = n /\ pc[l][s] # "idle"
    IN  /\ conns' = [conns EXCEPT ![n] = [m \in Node |-> None]]
        /\ pc' = [l \in Link |-> [s \in Side |-> IF Mine(l, s) THEN "done" ELSE pc[l][s]]]
        /\ closed' = [l \in Link |-> [s \in Side |-> Mine(l, s) \/ closed[l][s]]]
        /\ victim' = [l \in Link |-> [s \in Side |-> IF Mine(l, s) THEN None ELSE victim[l][s]]]
        /\ toClose' = [toClose EXCEPT ![n] = {}]
        /\ Fail
        /\ UNCHANGED <<from, to, replied, cut>>

-----------------------------------------------------------------------------
EndStep(l, s) ==
    \/ HandshakeFails(l, s)
    \/ Register(l, s)
    \/ CloseVictim(l, s)
    \/ CloseDropped(l, s)
    \/ WriteFails(l, s)
    \/ ReadFails(l, s)
    \/ Cleanup(l, s)

Next ==
    \/ \E n, m \in Node, l \in Link : DialPeer(n, m, l)
    \/ \E l \in Link : Accept(l) \/ DialFails(l) \/ Answer(l) \/ ReadReply(l) \/ Cut(l)
    \/ \E l \in Link, s \in Side : EndStep(l, s) \/ HandleBye(l, s)
    \/ \E n \in Node : CloseAllConns(n) \/ Restart(n)
    \/ \E n \in Node, l \in Link : CloseListed(n, l)

Spec == Init /\ [][Next]_vars

\* Every goroutine goes on, and the maintenance loop dials a peer it has no
\* session with on every tick. The kernel answers a dial.
Fairness ==
    /\ \A n, m \in Node : WF_vars(\E l \in Link : DialPeer(n, m, l))
    /\ \A l \in Link : /\ WF_vars(Accept(l))
                       /\ WF_vars(Answer(l))
                       /\ WF_vars(ReadReply(l))
    /\ \A l \in Link, s \in Side : WF_vars(EndStep(l, s))
    /\ \A n \in Node, l \in Link : WF_vars(CloseListed(n, l))

FairSpec == Spec /\ Fairness

-----------------------------------------------------------------------------
(* Properties.                                                             *)

TypeOK ==
    /\ conns \in [Node -> [Node -> Link \cup {None}]]
    /\ from \in [Link -> Node \cup {None}]
    /\ to \in [Link -> Node \cup {None}]
    /\ pc \in [Link -> [Side -> Phase]]
    /\ closed \in [Link -> [Side -> BOOLEAN]]
    /\ victim \in [Link -> [Side -> Link \cup {None}]]
    /\ replied \in [Link -> BOOLEAN]
    /\ cut \in [Link -> BOOLEAN]
    /\ toClose \in [Node -> SUBSET Link]
    /\ faults \in 0 .. MaxFaults

\* Every entry of conns belongs to a runConn that has still to remove it.
\* dialPeer refuses to dial while there is an entry and only runConn removes
\* one, so an orphan would cut the two nodes off until a restart.
NoOrphanEntry ==
    \A n, m \in Node, l \in Link : conns[n][m] = l =>
        LET s == SideAt(l, n)
        IN  /\ Local(l, s) = n /\ Remote(l, s) = m
            /\ pc[l][s] \in {"super", "live", "ending"}

\* Somebody is about to close this end.
PendingClose(l, s) ==
    \/ l \in toClose[Local(l, s)]
    \/ \E k \in Link, t \in Side :
          Local(k, t) = Local(l, s) /\ victim[k][t] = l

\* A read loop with an open socket is the one in the table, or is about to be
\* closed: no session lives on that Send, closeAllConns and the peer list of
\* the node do not know of.
NoStraySession ==
    \A l \in Link, s \in Side :
        pc[l][s] \in {"super", "live"} /\ ~closed[l][s] =>
            \/ conns[Local(l, s)][Remote(l, s)] = l
            \/ PendingClose(l, s)

\* A link that left the table of n for good: its goroutine at n is past
\* register, and no entry of n refers to it.
Past == {"super", "live", "ending", "done"}
Retired(l, n) ==
    /\ Local(l, SideAt(l, n)) = n
    /\ pc[l][SideAt(l, n)] \in Past
    /\ \A m \in Node : conns[n][m] # l

LinkOK ==
    \A l \in Link :
        /\ (\E s \in Side : pc[l][s] # "idle") =>
              from[l] \in Node /\ to[l] \in Node /\ from[l] # to[l]
        /\ pc[l]["out"] = "dialing" => pc[l]["in"] = "idle"

CondemnedOK ==
    /\ \A l, v \in Link, s \in Side : victim[l][s] = v =>
          pc[l][s] = "super" /\ Retired(v, Local(l, s))
    /\ \A n \in Node, l \in Link : l \in toClose[n] => Retired(l, n)

\* The inductive invariant: what register and closeAllConns have still to close
\* is out of the table, so none of these closes hits a session that is in it now.
IInv == TypeOK /\ LinkOK /\ NoOrphanEntry /\ CondemnedOK /\ NoStraySession

\* Two nodes hold the same session, and both read it.
Agreed(n, m, l) ==
    /\ conns[n][m] = l /\ conns[m][n] = l
    /\ ~cut[l]
    /\ \A s \in Side : pc[l][s] = "live" /\ ~closed[l][s]

\* Nothing is under way.
Settled ==
    /\ \A l \in Link, s \in Side :
          \/ pc[l][s] \in {"idle", "done"}
          \/ pc[l][s] = "live" /\ ~closed[l][s] /\ ~Gone(l, s)
    /\ \A n \in Node : toClose[n] = {}

\* The comment on register: both ends "converge on the same survivor without
\* negotiation". Without failures, once nothing is under way, two nodes that
\* connected at all share one session.
ConvergeOnSurvivor ==
    faults = 0 /\ Settled =>
        \A l \in Link : from[l] # None =>
            conns[from[l]][to[l]] # None /\ conns[from[l]][to[l]] = conns[to[l]][from[l]]

\* A healthy session dialed by the smaller of the two nodes is not disturbed
\* by any number of duplicate connections: only a failure, a restart or a
\* shutdown ends it.
SurvivorIsStable ==
    [][\A n, m \in Node, l \in Link :
          Agreed(n, m, l) /\ n < m /\ dialerOf(l) = n /\ faults' = faults
            => Agreed(n, m, l)']_vars

\* However the attempts interleave and whatever failed before, once failures
\* stop every two nodes end up with one session they both use, for good.
Converges ==
    <>[](\A n, m \in Node : n # m => \E l \in Link : Agreed(n, m, l))
=============================================================================
