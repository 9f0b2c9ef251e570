------------------------------ MODULE GuestTLS ------------------------------
(***************************************************************************)
(* The HTTPS port of the guest gateway (guest.go startTLSLocked and        *)
(* stopServer, tlscert.go): one socket, a goroutine that accepts from it   *)
(* and looks at the first byte of every connection, and two servers that   *)
(* are handed the connections, one for TLS and one that redirects.         *)
(***************************************************************************)
EXTENDS Naturals, FiniteSets

CONSTANTS
    Gateway,        \* runs of the gateway
    Conn,           \* connections
    None,
    Depth           \* capacity of handoffListener.conns

Preferred == "preferred"    \* -guest-tls; an automatic port is named by its gateway

VARIABLES
    gateway,    \* the gateway that runs, or None
    used,       \* gateways that have been started
    socket,     \* the port of the raw listener, while its socket is open
    done,       \* gateways whose handoff listeners are closed
    serving,    \* servers whose accept loop has not ended: a gateway and a side
    at,         \* where a connection is
    via,        \* the gateway whose socket it came through
    side        \* the server it is for

vars == <<gateway, used, socket, done, serving, at, via, side>>

Side == {"tls", "plain"}
Taken == {socket[g] : g \in Gateway} \ {None}
Queue(g, s) == {c \in Conn : at[c] = "queued" /\ via[c] = g /\ side[c] = s}

Init ==
    /\ gateway = None
    /\ used = {}
    /\ socket = [g \in Gateway |-> None]
    /\ done = {}
    /\ serving = {}
    /\ at = [c \in Conn |-> "none"]
    /\ via = [c \in Conn |-> None]
    /\ side = [c \in Conn |-> None]

-----------------------------------------------------------------------------
(* The gateway.                                                            *)

\* ensureServer: without a certificate or a port there is no HTTPS.
EnsureServer(g) ==
    /\ gateway = None
    /\ g \notin used
    /\ gateway' = g
    /\ used' = used \cup {g}
    /\ \E p \in {IF Preferred \in Taken THEN g ELSE Preferred, None} :
          /\ socket' = [socket EXCEPT ![g] = p]
          /\ serving' = serving \cup {<<g, s>> : s \in IF p = None THEN {} ELSE Side}
    /\ UNCHANGED <<done, at, via, side>>

\* The handoff listeners are told, and the connections in service are closed. The
\* raw listener is not among what stopServer closes.
StopServer ==
    /\ gateway # None
    /\ gateway' = None
    /\ done' = done \cup {gateway}
    /\ at' = [c \in Conn |-> IF via[c] = gateway /\ at[c] = "served" THEN "closed" ELSE at[c]]
    /\ UNCHANGED <<used, socket, serving, via, side>>

-----------------------------------------------------------------------------
(* splitByScheme.                                                          *)

\* The loop accepts as long as the socket does; each connection gets a goroutine.
Accepted(c, g) ==
    /\ at[c] = "none"
    /\ socket[g] # None
    /\ at' = [at EXCEPT ![c] = "first"]
    /\ via' = [via EXCEPT ![c] = g]
    /\ UNCHANGED <<gateway, used, socket, done, serving, side>>

\* Only an error of Accept ends the loop; the deferred call then frees the port.
AcceptFails(g) ==
    /\ socket[g] # None
    /\ socket' = [socket EXCEPT ![g] = None]
    /\ done' = done \cup {g}
    /\ UNCHANGED <<gateway, used, serving, at, via, side>>

FirstByte(c) ==
    /\ at[c] = "first"
    /\ \E s \in Side : side' = [side EXCEPT ![c] = s]
    /\ at' = [at EXCEPT ![c] = "offered"]
    /\ UNCHANGED <<gateway, used, socket, done, serving, via>>

\* Nothing comes for ten seconds, or the guest hangs up.
NoByte(c) ==
    /\ at[c] = "first"
    /\ at' = [at EXCEPT ![c] = "closed"]
    /\ UNCHANGED <<gateway, used, socket, done, serving, via, side>>

\* offer, if the channel has room; also when the listener is closed.
OfferTaken(c) ==
    /\ at[c] = "offered"
    /\ Cardinality(Queue(via[c], side[c])) < Depth
    /\ at' = [at EXCEPT ![c] = "queued"]
    /\ UNCHANGED <<gateway, used, socket, done, serving, via, side>>

OfferRefused(c) ==
    /\ at[c] = "offered"
    /\ via[c] \in done
    /\ at' = [at EXCEPT ![c] = "closed"]
    /\ UNCHANGED <<gateway, used, socket, done, serving, via, side>>

\* The server takes a connection; while its loop has not ended, after stopServer too.
Serve(c) ==
    /\ at[c] = "queued"
    /\ <<via[c], side[c]>> \in serving
    /\ at' = [at EXCEPT ![c] = "served"]
    /\ UNCHANGED <<gateway, used, socket, done, serving, via, side>>

\* Accept finds the listener closed. What is queued stays queued.
ServeEnds(v) ==
    /\ v[1] \in done
    /\ serving' = serving \ {v}
    /\ UNCHANGED <<gateway, used, socket, done, at, via, side>>

HangUp(c) ==
    /\ at[c] = "served"
    /\ at' = [at EXCEPT ![c] = "closed"]
    /\ UNCHANGED <<gateway, used, socket, done, serving, via, side>>

Next ==
    \/ \E g \in Gateway : EnsureServer(g) \/ AcceptFails(g) \/ \E c \in Conn : Accepted(c, g)
    \/ StopServer
    \/ \E c \in Conn :
          FirstByte(c) \/ NoByte(c) \/ OfferTaken(c) \/ OfferRefused(c) \/ Serve(c) \/ HangUp(c)
    \/ \E v \in serving : ServeEnds(v)

\* Goroutines run on; nobody has to connect, and Accept does not have to fail.
Fairness ==
    /\ \A c \in Conn :
          WF_vars(FirstByte(c) \/ NoByte(c) \/ OfferTaken(c) \/ OfferRefused(c) \/ Serve(c))
    /\ \A v \in Gateway \X Side : WF_vars(v \in serving /\ ServeEnds(v))

FairSpec == Init /\ [][Next]_vars /\ Fairness

-----------------------------------------------------------------------------
(* Properties.                                                             *)

TypeOK ==
    /\ gateway \in used \cup {None} /\ used \subseteq Gateway
    /\ \A g \in Gateway : socket[g] \in {g, Preferred, None}
    /\ \A g, h \in Gateway : socket[g] = socket[h] => g = h \/ socket[g] = None
    /\ done \subseteq used /\ serving \subseteq used \X Side
    /\ at \in [Conn -> {"none", "first", "offered", "queued", "served", "closed"}]
    /\ via \in [Conn -> Gateway \cup {None}]
    /\ side \in [Conn -> Side \cup {None}]

\* The gateway "closes and releases its ports the moment the last one is revoked
\* or expires" (README.md:152): one that is stopped does not hold its HTTPS port
\* for ever.
PortsReleased ==
    \A g \in Gateway : g \in used /\ gateway # g ~> socket[g] = None
=============================================================================
