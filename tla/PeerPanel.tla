----------------------------- MODULE PeerPanel ------------------------------
(***************************************************************************)
(* How the operator's page learns which peer is online (main.go pushPeers  *)
(* and emit, httpui.go handleEvents).                                      *)
(*                                                                         *)
(* Every change is followed by a snapshot of all peers, taken under the    *)
(* lock and emitted without it: two may arrive in the wrong order. A full  *)
(* channel drops one, a broken stream loses several. The presence events   *)
(* of a session are ignored by the page.                                   *)
(***************************************************************************)
EXTENDS Naturals, Sequences

CONSTANTS
    None,
    Depth,          \* events a channel holds (512)
    MaxBreaks,      \* bound: times the event stream breaks
    MaxFlips        \* bound: times a session comes or goes

VARIABLES
    session,    \* App.conns has the peer, or has not
    snapshot,   \* what calls of pushPeers are about: to be taken, or taken
    feed,       \* the events on their way to the page; None without a subscription
    panel,      \* what the page shows
    breaks, flips

vars == <<session, snapshot, feed, panel, breaks, flips>>

State == {"on", "off"}

\* The goroutines that call pushPeers: maintenanceLoop, handleEvents, and the
\* runConns of a session and of the one that replaces it.
Run == {"first", "second"}
Caller == {"maintenance", "stream"} \cup Run

Init ==
    /\ session = "off"
    /\ snapshot = [q \in Caller |-> "none"]
    /\ feed = None
    /\ panel = "unknown"
    /\ breaks = 0 /\ flips = 0

\* runConn: a session is registered or ends, under the lock. The table does not
\* change for the page if it replaces one, or was replaced. Then pushPeers.
Flip(q) ==
    /\ flips < MaxFlips
    /\ snapshot[q] = "none"
    /\ flips' = flips + 1
    /\ session' \in State
    /\ snapshot' = [snapshot EXCEPT ![q] = "due"]
    /\ UNCHANGED <<feed, panel, breaks>>

\* Seeded fault: the maintenance loop refreshes the page only when it is told to.
Maintain_Once ==
    /\ snapshot["maintenance"] = "none" /\ flips = 0
    /\ snapshot' = [snapshot EXCEPT !["maintenance"] = "due"]
    /\ UNCHANGED <<session, feed, panel, breaks, flips>>

\* Every tick of the maintenance loop ends with pushPeers.
Maintain ==
    /\ snapshot["maintenance"] = "none"
    /\ snapshot' = [snapshot EXCEPT !["maintenance"] = "due"]
    /\ UNCHANGED <<session, feed, panel, breaks, flips>>

\* pushPeers reads the tables under the lock.
Take(q) ==
    /\ snapshot[q] = "due"
    /\ snapshot' = [snapshot EXCEPT ![q] = session]
    /\ UNCHANGED <<session, feed, panel, breaks, flips>>

\* emit: dropped if there is no page or its channel is full.
Emit(q) ==
    /\ snapshot[q] \in State
    /\ snapshot' = [snapshot EXCEPT ![q] = "none"]
    /\ feed' = IF feed = None THEN None
               ELSE IF Len(feed) >= Depth THEN feed ELSE Append(feed, snapshot[q])
    /\ UNCHANGED <<session, panel, breaks, flips>>

\* handleEvents subscribes; after the backlog it calls pushPeers.
Subscribe ==
    /\ feed = None
    /\ snapshot["stream"] = "none"
    /\ feed' = <<>>
    /\ snapshot' = [snapshot EXCEPT !["stream"] = "due"]
    /\ UNCHANGED <<session, panel, breaks, flips>>

\* The stream breaks; EventSource connects again.
Break ==
    /\ feed # None
    /\ breaks < MaxBreaks
    /\ breaks' = breaks + 1
    /\ feed' = None
    /\ UNCHANGED <<session, snapshot, panel, flips>>

Show ==
    /\ feed # None /\ feed # <<>>
    /\ panel' = Head(feed)
    /\ feed' = Tail(feed)
    /\ UNCHANGED <<session, snapshot, breaks, flips>>

Next ==
    \/ Maintain \/ Subscribe \/ Break \/ Show
    \/ \E q \in Run : Flip(q)
    \/ \E q \in Caller : Take(q) \/ Emit(q)

\* The loop ticks, calls return, EventSource connects again, the page reads on.
Fairness ==
    /\ WF_vars(Maintain) /\ WF_vars(Subscribe) /\ WF_vars(Show)
    /\ \A q \in Caller : WF_vars(Take(q) \/ Emit(q))

-----------------------------------------------------------------------------
(* Properties.                                                             *)

TypeOK ==
    /\ session \in State
    /\ snapshot \in [Caller -> State \cup {"none", "due"}]
    /\ feed = None \/ (feed \in Seq(State) /\ Len(feed) <= Depth)
    /\ panel \in State \cup {"unknown"}
    /\ breaks \in 0 .. MaxBreaks /\ flips \in 0 .. MaxFlips

\* When the peer's session is settled the page shows it so in the end, whatever
\* was emitted out of order, dropped or lost before.
ShownAsItIs ==
    \A x \in State : <>[](session = x) => <>[](panel = x)
=============================================================================
