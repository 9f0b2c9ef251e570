----------------------------- MODULE Discovery -----------------------------
(***************************************************************************)
(* What one node knows of one peer: the entry of App.peers, filled by the  *)
(* peer's announces and by handshakes, emptied by its bye and by the       *)
(* maintenance loop (discovery.go, main.go).                               *)
(*                                                                         *)
(* Announces go out by broadcast, multicast and unicast at once, and each  *)
(* copy may be lost, late or doubled. Time passes in units; the timers of  *)
(* the code fire when they are due. All times are kept as ages, relative   *)
(* to now, so that the state space is finite without a bound on time.      *)
(* The session with the peer is what Sessions makes of it in the end: none,*)
(* a good one, or one whose other end is gone.                             *)
(***************************************************************************)
EXTENDS Naturals, FiniteSets

CONSTANTS
    AnnounceEvery,   \* announceEvery
    TickEvery,       \* the ticker of maintenanceLoop
    PeerTimeout,     \* peerTimeout
    ClockSkew,       \* clockSkew: how old an announce may be
    MaxNet,          \* bound: datagrams that can be on their way at once
    None

ASSUME TimingAssumption ==
    /\ AnnounceEvery \in Nat \ {0} /\ TickEvery \in Nat \ {0}
    /\ PeerTimeout \in Nat /\ ClockSkew \in Nat /\ MaxNet \in Nat \ {0}
    /\ AnnounceEvery <= PeerTimeout

VARIABLES
    phase,      \* the peer's process: "down", "up", "leaving" after its bye
    wait,       \* time until the peer's announceLoop announces again
    tick,       \* time until maintenanceLoop runs
    net,        \* datagrams on their way; a delivered one may come again
    entry,      \* App.peers[fp]: Last, LastTS and Port, or None
    session,    \* App.conns[fp]: "none", "good" or "dead"
    dialing,    \* the port a dialPeer in progress has dialed, or "no"
    missed,     \* history: announces sent since one was accepted
    replay      \* history: how an announce was accepted twice, if one was

vars == <<phase, wait, tick, net, entry, session, dialing, missed, replay>>
peerVars == <<phase, wait>>

-----------------------------------------------------------------------------
\* Announces a peer sends within a timeout.
Enough == PeerTimeout \div AnnounceEvery

\* A zero LastTS is older than any announce that is still fresh.
Never == ClockSkew + 1

Least(a, b) == IF a <= b THEN a ELSE b
\* "taken" is history: accepted never, by the entry as it stands, or before.
Datagram == [kind : {"announce", "bye"}, age : 0 .. ClockSkew,
             taken : {"no", "here", "before"}]
Entry == [last : 0 .. (PeerTimeout + 1), ts : 0 .. Never,
          port : {"listen", "ephemeral"}]

ASSUME NoneAssumption == None \notin Entry

\* A datagram that finds the network full makes another one get lost.
Send(kind) ==
    \E kept \in SUBSET net :
        /\ kept = net \/ (Cardinality(net) = MaxNet /\ Cardinality(kept) = MaxNet - 1)
        /\ Cardinality(kept) < MaxNet
        /\ net' = kept \cup {[kind |-> kind, age |-> 0, taken |-> "no"]}

Init ==
    /\ phase = "down"
    /\ wait = 0
    /\ tick = TickEvery
    /\ net = {}
    /\ entry = None
    /\ session = "none"
    /\ dialing = "no"
    /\ missed = Enough
    /\ replay = "never"

-----------------------------------------------------------------------------
(* The peer.                                                               *)

Start ==
    /\ phase = "down"
    /\ phase' = "up"
    /\ wait' = 0
    /\ UNCHANGED <<tick, net, entry, session, dialing, missed, replay>>

\* announceLoop goes on until the process has ended, also after the bye.
SendAnnounce ==
    /\ phase # "down"
    /\ wait = 0
    /\ Send("announce")
    /\ wait' = AnnounceEvery
    /\ missed' = Least(missed + 1, Enough)
    /\ UNCHANGED <<phase, tick, entry, session, dialing, replay>>

SendBye ==
    /\ phase = "up"
    /\ Send("bye")
    /\ phase' = "leaving"
    /\ missed' = Enough
    /\ UNCHANGED <<wait, tick, entry, session, dialing, replay>>

Hurt == session' = IF session = "good" THEN "dead" ELSE session

\* closeAllConns after the bye; accepting and dialing go on.
CloseAllConns ==
    /\ phase = "leaving"
    /\ Hurt
    /\ UNCHANGED <<phase, wait, tick, net, entry, dialing, missed, replay>>

\* The process ends: after its bye, or killed.
Exit ==
    /\ phase # "down"
    /\ phase' = "down"
    /\ wait' = 0
    /\ Hurt
    /\ missed' = Enough
    /\ UNCHANGED <<tick, net, entry, dialing, replay>>

-----------------------------------------------------------------------------
(* The node: onAnnounce, handleBye, handshake, maintenanceLoop.            *)

Taken(d) == (net \ {d}) \cup {[d EXCEPT !.taken = "here"]}

\* Seeded fault: the address of a known peer is not updated.
onAnnounce_KeepsPort(d) ==
    /\ d.kind = "announce"
    /\ entry # None => d.age < entry.ts
    /\ entry' = [last |-> 0, ts |-> d.age,
                  port |-> IF entry = None THEN "listen" ELSE entry.port]
    /\ net' = Taken(d)
    /\ missed' = IF phase = "up" THEN 0 ELSE missed
    /\ replay' = IF d.taken = "no" THEN replay ELSE d.taken
    /\ dialing' = IF entry = None /\ session = "none" /\ dialing = "no"
                  THEN "listen" ELSE dialing
    /\ UNCHANGED <<peerVars, tick, session>>

\* Whoever removes the entry removes LastTS, the replay guard, with it.
Remove ==
    /\ entry' = None
    /\ net' = {[d EXCEPT !.taken = IF @ = "no" THEN "no" ELSE "before"] : d \in net}

onAnnounce(d) ==
    /\ d.kind = "announce"
    /\ entry # None => d.age < entry.ts
    /\ entry' = [last |-> 0, ts |-> d.age, port |-> "listen"]
    /\ net' = Taken(d)
    /\ missed' = IF phase = "up" THEN 0 ELSE missed
    /\ replay' = IF d.taken = "no" THEN replay ELSE d.taken
    /\ dialing' = IF entry = None /\ session = "none" /\ dialing = "no"
                  THEN "listen" ELSE dialing
    /\ UNCHANGED <<peerVars, tick, session>>

\* A bye counts whenever it comes, whichever run of the peer it is from. It
\* closes the Conn; the table keeps it until runConn has noticed (SessionEnds).
handleBye(d) ==
    /\ d.kind = "bye"
    /\ Remove
    /\ session' = IF session = "none" THEN "none" ELSE "dead"
    /\ UNCHANGED <<peerVars, tick, dialing, missed, replay>>

Deliver == \E d \in net : onAnnounce(d) \/ handleBye(d)

\* Seeded faults: no port is filled in; the entry is made anew.
Refresh_NoPort(port) ==
    entry' = IF entry = None THEN [last |-> 0, ts |-> Never, port |-> None]
             ELSE [entry EXCEPT !.last = 0]
Refresh_Anew(port) == entry' = [last |-> 0, ts |-> Never, port |-> port]

\* handshake records the peer even if discovery has no entry, or had one. It
\* knows no announce time, and no port but the one of the connection.
Refresh(port) ==
    entry' = IF entry = None THEN [last |-> 0, ts |-> Never, port |-> port]
             ELSE [entry EXCEPT !.last = 0]

DialSucceeds ==
    /\ dialing = "listen"
    /\ phase # "down"
    /\ Refresh("listen")
    /\ session' \in {"good", IF session = "none" THEN "good" ELSE session}
    /\ dialing' = "no"
    /\ UNCHANGED <<peerVars, tick, net, missed, replay>>

DialFails ==
    /\ dialing # "no"
    /\ dialing' = "no"
    /\ UNCHANGED <<peerVars, tick, net, entry, session, missed, replay>>

\* The peer dials us: its end of the connection has an ephemeral port.
Inbound ==
    /\ phase # "down"
    /\ Refresh("ephemeral")
    /\ session' \in {"good", IF session = "none" THEN "good" ELSE session}
    /\ UNCHANGED <<peerVars, tick, net, dialing, missed, replay>>

SessionBreaks ==
    /\ session = "good"
    /\ session' = "dead"
    /\ UNCHANGED <<peerVars, tick, net, entry, dialing, missed, replay>>

\* The read loop of a dead session ends, by an error, its own close or sessionIdle.
SessionEnds ==
    /\ session = "dead"
    /\ session' = "none"
    /\ UNCHANGED <<peerVars, tick, net, entry, dialing, missed, replay>>

\* Seeded faults: the wrong interval; only peers that announced expire.
Stale_Impatient ==
    entry # None /\ session = "none" /\ entry.last > AnnounceEvery
Stale_OnlyDirect ==
    entry # None /\ session = "none" /\ entry.last > PeerTimeout /\ entry.ts # Never

\* A pass of maintenanceLoop: drop the peer, or dial it, or neither.
Stale == entry # None /\ session = "none" /\ entry.last > PeerTimeout
Dialable == entry # None /\ session = "none" /\ entry.last < PeerTimeout

Maintain ==
    /\ tick = 0
    /\ tick' = TickEvery
    /\ IF Stale THEN Remove ELSE UNCHANGED <<entry, net>>
    /\ dialing' = IF Dialable /\ dialing = "no" THEN entry.port ELSE dialing
    /\ UNCHANGED <<peerVars, session, missed, replay>>

-----------------------------------------------------------------------------
Older(a, bound) == Least(a + 1, bound)

\* A datagram older than ClockSkew is refused: it leaves the model.
Pass ==
    /\ tick > 0
    /\ phase # "down" => wait > 0
    /\ tick' = tick - 1
    /\ wait' = IF wait = 0 THEN 0 ELSE wait - 1
    /\ net' = {[d EXCEPT !.age = @ + 1] : d \in {e \in net : e.age < ClockSkew}}
    /\ entry' = IF entry = None THEN None
                ELSE [entry EXCEPT !.last = Older(@, PeerTimeout + 1),
                                   !.ts = Older(@, Never)]
    /\ UNCHANGED <<phase, session, dialing, missed, replay>>

Next ==
    \/ Start \/ SendAnnounce \/ SendBye \/ CloseAllConns \/ Exit
    \/ Deliver
    \/ DialSucceeds \/ DialFails \/ Inbound
    \/ SessionBreaks \/ SessionEnds
    \/ Maintain
    \/ Pass

Spec == Init /\ [][Next]_vars

\* Time passes, timers fire, dead connections are noticed, and a process that
\* said bye ends. Of the network: announces sent for ever do not all get lost,
\* nor do all connection attempts at a running peer fail.
Fairness ==
    /\ WF_vars(Pass) /\ WF_vars(SendAnnounce) /\ WF_vars(Maintain)
    /\ WF_vars(SessionEnds) /\ WF_vars(DialFails)
    /\ WF_vars(phase = "leaving" /\ Exit)
    /\ SF_vars(Deliver)
    /\ SF_vars(DialSucceeds)

FairSpec == Spec /\ Fairness

-----------------------------------------------------------------------------
(* Properties.                                                             *)

TypeOK ==
    /\ phase \in {"down", "up", "leaving"}
    /\ wait \in 0 .. AnnounceEvery
    /\ tick \in 0 .. TickEvery
    /\ net \subseteq Datagram
    /\ entry \in Entry \cup {None}
    /\ session \in {"none", "good", "dead"}
    /\ dialing \in {"no", "listen", "ephemeral"}
    /\ missed \in 0 .. Enough
    /\ replay \in {"never", "here", "before"}

\* While a peer is in the table, no announce of it is accepted twice, however
\* many copies arrive and in whatever order.
NoReplayWhileKnown == replay # "here"

\* discovery.go:164, "a captured announce cannot be replayed later". Beyond the life
\* of an entry this does not hold: the README has the counterexample.
NoReplay == replay = "never"

\* The maintenance loop drops no peer that runs, unless every announce of a
\* whole timeout was lost: one that is late or lost does no harm.
NoFalseDown ==
    [][tick = 0 /\ tick' # 0 /\ entry # None /\ entry' = None => missed = Enough]_vars

\* A peer that stays away is forgotten in the end, whatever late datagrams and
\* half-open connections it left behind.
GhostsGo == <>[](phase = "down") => <>[](entry = None)

\* A peer that stays up is found and has a session again and again, whatever
\* byes of its earlier runs arrive and however often the connection breaks.
PeersFound == <>[](phase = "up") => []<>(entry # None /\ session = "good")
=============================================================================
