# A TLA+ verification of lanrunner

lanrunner is a serverless LAN chat in one Go binary. Every machine runs the same
program: it announces itself by UDP, opens encrypted TCP sessions to the peers
it hears of, and serves an operator page on localhost. For people without the
program it can open a *guest gateway*: an HTTP(S) server that hands out a
self-contained web page (a "kit") bound to an invite.

This directory models the parts of it that keep state and share it between
goroutines or machines, checks them with TLC on small instances, and proves the
central invariants with TLAPS for every value of the constants.

1. [Inventory](#inventory)
2. [The modules](#the-modules)
3. [The runs](#the-runs)
4. [Fairness](#fairness)
5. [What is proved](#what-is-proved)
6. [Where the code and its comments disagree](#where-the-code-and-its-comments-disagree)
7. [What is not modelled](#what-is-not-modelled)
8. [Plan](#plan)

To parse a module, to check it, to prove it:

    tlasany Sessions.tla
    tlc -workers 2 -config Sessions_faults.cfg MCSessions
    tlapm SessionsProofs.tla

## Inventory

Paths are relative to `src/`.

| component | code | state | operations |
|---|---|---|---|
| Peer session table | transport.go | `App.conns` (fingerprint to `*Conn`), `Conn.closed`, one goroutine per connection | `dialPeer`, `acceptLoop`, `handshake`, `register`, `runConn`, `Conn.close`, `closeAllConns` |
| Discovery and peer table | discovery.go, main.go | `App.peers` (`Last`, `LastTS`, address, port), timers | `announceLoop`, `onAnnounce`, `handleBye`, `probeGossip`, seeds, `maintenanceLoop` |
| Guest hub | guest.go | `invites`, `sessions`, `byInvite`, `announced`, `running`, the invite file | `Create`, `Regenerate`, `Revoke`, `Remove`, `Resume`, `Close`, `ensureServer`, `stopServer`, `reapLoop`, `sweepExpired`, hello, bye, `dropSession` |
| Guest anti-replay window | guest.go | `max`, `bits` of a session | `replayWindow.accept` |
| Guest delivery | guest.go | queue of a session, backlog, stream generation | `Deliver`, `push`, `handleEvents`, `handleSend`, delayed close in `dropSession` |
| Guest authentication throttle | guest.go | failures and block times by address | `blocked`, `bad`, `good`, `sweep` |
| QR handoff codes | guest.go | codes with expiry and uses, at most a fixed number | `newHandoff`, `redeemHandoff` |
| Encrypted channel | crypto.go | one nonce counter per direction | `deriveSession`, `WriteFrame`, `ReadFrame` |
| Chat | transport.go | sequence of messages, unacknowledged ones, ping bookkeeping | `Send`, `sendToGuest`, `handleFrame`, `heartbeat` |
| History | store.go | transcript of each conversation | `Append`, `MarkDelivered`, `Load`, `Delete`, `Close` |
| Identity and trust | identity.go | pinned names and verified keys, on disk; the badge of a peer (`Peer.Flags`) | `TrustStore.Observe`, `SetVerified`, `save`, `LoadTrustStore` |
| Process lifecycle | main.go, httpui.go | port of the interface, runtime.json, idle timer, shutdown channel | `existingLanrunner`, `writeRuntime`, `requestShutdown`, `idleLoop`, the order of the shutdown |
| UI server and events | httpui.go, main.go | subscribers with bounded channels | `emit`, `handleEvents`, the handlers |
| Guest page | guestkit.html | `state` (session id, keys, stream, flags), the reconnection timer, the log | `connect`, `hello`, `openStream`, `scheduleReconnect`, `handleEnvelope`, `send`, RECONNECT |
| Operator page | index.html | conversations with their load tokens, the peer list | `openConv`, `addMsg`, `applyChatCleared`, peer snapshots |
| Diagnostics | diag.go | counters | `evaluate` |
| Guest TLS listener, certificate | tlscert.go | two listeners fed by one | `splitByScheme`, load or create |
| QR encoder | qr.go | none | a pure algorithm |
| System calls | browser_\*.go, reuse_\*.go | none | open a browser, socket options |
| Installer, web site | installer/, site/ | not part of the running program | |

**Interactions.** Discovery calls `dialPeer` for a new peer and `maintenanceLoop`
for one without a session; `handshake` writes the peer table back; a bye closes
the session. Chat sends through `App.conns` and to the guest hub's queues. The
operator's HTTP handlers call the hub, each on its own goroutine; guests call it
on others; every gateway start begins one reap loop. All parts report through
`emit` to the operator page.

**Hard behaviours.** Two nodes dial each other at the same moment, and one node
may dial twice; every decision about a connection is taken under `App.mu` and
carried out after the lock is released. In the hub an operation takes the lock
several times, so what it decided in one critical section is applied in a later
one. Datagrams are lost, late and doubled; processes die without a bye; the
invite file is rewritten in place with errors ignored. `PROJECT.json` lists each
of these hazards at its line.

**What makes each part correct.**

- Session table: at most one session per peer, the same one at both ends; an
  entry never outlives the goroutine that removes it (`dialPeer` would be locked
  out for ever); no open session is missing from the table; a duplicate
  connection never kills a good session.
- Discovery: a peer that runs is found and not dropped without cause, one that
  left is forgotten, no announce counts twice.
- Hub: limits hold, an invite that was revoked or expired stays dead (on disk
  too) and its sessions go, the gateway runs only for a live invite and never
  without a reap loop.
- Replay window: no counter twice, and no fresh counter inside it refused.
- Delivery: no message falls between the backlog and the queue; a full queue stops
  nobody.
- Guest page: after any failure it is back on a session, or says it is closed.
- Chat and history: a message is shown once, acknowledged only when stored;
  a delivered mark never goes to a message of another conversation.
- Throttle: a ban is served to its end, and it ends. Join codes: the codes on
  screen work, as many of them as the table holds.
- Trust: a key is verified exactly if the operator said so; two peers with one name do
  not both go without a badge.
- Lifecycle: a second launch opens the running copy, whatever a crash left behind.
- Operator page: what was cleared stays cleared; a peer is shown as it is in the
  end, although events are dropped and snapshots overtake each other.
- HTTPS port: a stopped gateway holds no port.
- QR encoder: a reader finds the text in the picture.

## The modules

| module | what it is |
|---|---|
| `Sessions` | the session table of every node, and the connections between them |
| `MCSessions` | `Sessions` with interchangeable connection slots |
| `SessionsProofs` | theorems about `Sessions` |
| `ReplayWindow` | the anti-replay window of one guest session |
| `Parts` | `ReplayWindow`, `AuthThrottle`, `Handoff`, `Lifecycle`, `OperatorPage`, `PeerPanel`, `GuestTLS` and `GuestHub` side by side, with their properties |
| `PartsProofs` | theorems about the components of `Parts` |
| `GuestHub` | the invites, the gateway and the sessions of one hub |
| `MCGuestHub` | `GuestHub` with interchangeable ids and slots |
| `GuestHubProofs` | theorems about `GuestHub` |
| `Discovery` | one node's entry for one peer, over a discrete clock |
| `DiscoveryProofs` | theorems about `Discovery` |
| `GuestChat` | the conversation of one invite: the host's queues and event streams, and the guest's page |
| `GuestChatProofs` | theorems about `GuestChat` |
| `Delivery` | what chat promises about a message: the abstract specification of `Chat` |
| `Chat` | messages, acks and receipts between peers over sessions that come and go |
| `ChatProofs` | theorems about `Chat`: it implements `Delivery` |
| `Trust` | the trust store, and the badge that announces and handshakes make of it |
| `MCTrust` | `Trust` with interchangeable keys, names and handlers |
| `TrustProofs` | theorems about `Trust` |
| `AuthThrottle` | the throttle of failed hellos, over a discrete clock |
| `Handoff` | the table of join codes |
| `Lifecycle` | launches and exits of several copies of the program |
| `LifecycleProofs` | theorems about `Lifecycle` |
| `OperatorPage` | the conversations on the operator's page, against events and `/history` |
| `PeerPanel` | how the operator's page learns which peer is online |
| `GuestTLS` | the HTTPS socket of the gateway and the two servers it feeds |
| `QR` | the QR encoder, and a reader for its pictures |
| `MCParts` | `Parts` and `QR`, one component at a time |

Definitions have the name of the function they translate where there is one. An
operator whose name has a suffix (`KeepNew_Always`, `SweepExpired_KeepsSessions`)
and a comment "Seeded fault" is a plausible bug of the definition after it; it is
not part of any specification, and `PROJECT.json` says which property it breaks.

### Sessions

A TCP connection is a `Link` with an end at each node; an end is one `*Conn` and
the goroutine that owns it, and `pc` is how far that goroutine has come.

| state | code |
|---|---|
| `conns[n][m]` | `App.conns[fp]` |
| `from`, `to` | who dialed: `Conn.dialer` and the other fingerprint |
| `pc` | where the goroutine is in `dialPeer`/`acceptLoop`, `handshake`, `runConn` |
| `closed` | `Conn.closed` and the state of the socket |
| `victim` | `existing`, between the unlock in `register` and `existing.close()` |
| `toClose` | the slice in `closeAllConns`, after the unlock |
| `replied`, `cut` | the responder's hello is under way; the network lost the link |

Each critical section of `App.mu` is one action, and what the code does after
releasing the lock is an action of its own: `Register` / `CloseVictim` /
`CloseDropped`, `CloseAllConns` / `CloseListed`, `ReadFails` / `Cleanup`.
`HandleBye` closes a `Conn` that is still in the table and leaves the entry to
`runConn`, as `handleBye` does; a bye counts as one of the bounded failures. The
responder answers before it verifies the dialer's hello, as in the code, so the
dialer may hold a session that was already refused (`Answer`). `WriteFails` is a
write error in `heartbeat` or `Send`. `Restart` is a killed and restarted process.
Fingerprints are numbers: only their order matters to `register`.

### GuestHub

Each action is one critical section of `GuestHub.mu` or `srvMu`. An operator
request is a task whose record holds its local variables across critical
sections: `goal` and `inv` (which request), `todo` (the sessions it has listed and
not dropped yet), `last` (what `liveCountLocked() == 0` said when it was
evaluated). A reap loop is a task of the same form. `hello` and `evict` hold the
locals of a hello request: the key agreement between the two critical sections,
and the tab it chose to evict and has not dropped yet. `life` is the map with
`Invite.Revoked`, `disk` what the invite file says, `aged` the invites whose expiry
date has passed. `saveLocked` is part of every action that calls it: it may
fail without anybody noticing, and leave a truncated file, which `load` takes for
an empty one. `before[s]` are the sessions of the invite that are older
than `s`, which stands for `guestSession.created` in the choice of the oldest tab. `late` and
`unseen` are history variables: sessions whose hello was accepted before the invite died and
inserted afterwards; and who has decided to close the gateway, with every invite that was
filed since.

Tokens, passwords and key material are abstracted: a hello is for a usable invite
and is refused or goes on. That a session idles is a free choice at every tick.

### Discovery

One node, one peer. The peer's process comes and goes with or without a bye; its
announces are datagrams in `net` that may be lost, delayed up to `ClockSkew` and
delivered any number of times. All times are ages relative to now, saturated
where the code no longer tells them apart, so time needs no bound. The session is
abstracted to what `Sessions` shows it can be: none, good, or dead at this end
only. A bye closes this end's `Conn`, and the session is dead until `runConn` notices
(`SessionEnds`). `handshake` refreshes the entry without an announce time, and with the
ephemeral port of an inbound connection when it creates one, as in the code.
`taken`, `missed` and `replay` are history variables.

### GuestChat

The host and one page of one guest, for an invite that stays usable; `GuestHub` has
the life of invites, and here a session may be dropped at any time instead.

| state | code |
|---|---|
| `history`, `marked` | `History.entries` of the conversation, and its ack entries |
| `life` | a session in `sessions`; out of the map and told; its generation moved; its channel closed a second later |
| `ch`, `backlog`, `streamGen` | `guestSession.ch`, `sentBacklog`, and whose increment of `streamGen` was the last |
| `stream` | the runs of `handleEvents`: before `session`, before `streamGen.Add`, in the `select`, before the comparison |
| `wire`, `cut` | what the stream wrote and the page has not read; the connection is broken |
| `op` | a run of `sendToGuest` or, with the page's part of it, `handleSend`: `todo` is the list taken under the lock, `key` and `s` what the frame was sealed for and posted to |
| `attempt` | a chain of promises begun by `connect`, or the timer that will begin one |
| `sid`, `keys`, `es`, `connected`, `closing` | the fields of `state` in guestkit.html |
| `opening` | frames that `unseal` is decrypting |
| `shown`, `receipt` | the log, and what is written beside the page's own lines |
| `lost` | history variable: messages dropped on a full queue, or by a panic |

On the host an action is a critical section or one operation on the channel; on the
page it is one callback up to its next await. `push` never waits. A push to a
channel that `dropSession` closed meanwhile panics in the handler, net/http recovers,
and the rest of the request does not happen (`DeliverOne`, `SendAck`). Sessions are
encrypted, so a frame of another session is not read (`OnMessage`) and not accepted
(`Refuse`). The frames `ready`, `typing` and the rate limiter's window are left out;
a refusal by the limiter is one of the bounded faults. The backlog is the whole
history: the code sends the last 80 messages. `marked` and `receipt` are what the handlers of
acks change; no property but `TypeOK` reads them.

### ReplayWindow

`bits` is the set of positions whose bit in the 64-bit mask is 1; shifting left by
64 or more clears a Go `uint64`, which `ShiftIn` gives for any `Width`. `Width` is
64 in the code, and the theorems hold for each.

### Chat and Delivery

A session is a slot used once: it appears with a finished handshake, each end
registers it or drops it (which one is `Sessions`' matter, so either may happen), and
it may be replaced, cut or closed at any time.

| state | code |
|---|---|
| `between`, `at`, `cut` | the ends of a session, how far `runConn` is at each, whether the network lost it |
| `wire` | sealed frames written and not read; one direction is in order, since a frame out of place fails authentication and ends the read loop |
| `conns` | `App.conns` |
| `pending` | the goroutines of `Send` that have not written yet |
| `busy` | the message that `handleFrame` has stored and not acknowledged |
| `hist`, `marks` | `History`: the messages of a conversation, and its receipts |
| `log`, `copies`, `told` | history variables: what was sent over which sessions, how often each node stored a message, how often its ack was counted |

`Send` lists the sessions, appends to the transcript and starts one goroutine per
session. A write may succeed although the other end is gone, or fail and close the
session; nobody writes again. Storing (`HandleMsg`) and acknowledging (`SendAck`)
are two steps of one goroutine: a session may end between them. A receipt is filed
where the message is at this end: a `dm` under the peer (`Local`).

`Delivery` is the promise: a receiver stores a message at most once, and its author
counts a receiver at most once and only after that. Nothing is promised to arrive.
`KeepsPromise` says that `Chat` implements it: `due` is the set of peers whose
sessions `Send` listed, `stored` is `copies`, and `told` is itself. Replacement of
sessions, restarts and clears are stutters of the promise.

Heartbeats only measure (one that cannot be written is a session that ends), and
typing keeps no state; both are left out.

### Trust

`nick` and `verified` are the records of `TrustStore`, `file` is known_peers.json. `save` is part
of every operation; it may fail unnoticed and leave the old content, or a torn file
that `LoadTrustStore` takes for an empty one (`unsaved`). `job` is an announce or a
handshake in progress: an announce files the peer under `App.mu`, calls `Observe`, and sets the
badge under `App.mu` again, on the entry it created even if the table has another by
then (`here`); a handshake calls `Observe` first and files the peer later. Two
listeners handle announces, and each connection has its own goroutine, so jobs
overlap. `names`, `marked` and `damaged` are history variables.

### The small components

Each is a module of its own. `Parts` puts those side by side that are proved about, with
`GuestHub`, and `MCParts` adds `QR` and checks them all.

- `AuthThrottle`: `fail[a]` is the record of an address, with times as ages; `attempt[h]`
  is the address of a hello between `guestGate` and its outcome, because other
  hellos of that address may change the record meanwhile. `backoff` shifts in the
  signed integers of `DurationBits`, as `time.Duration` does, and clamps what is too
  long or not positive. It counts in units of the first ban, where the code shifts 30e9
  nanoseconds: other values overflow, and the clamp makes the same of them.
- `Handoff`: `handoffs` is the table; `age` and `uses` are the fields of a code.
  `newHandoff` purges expired codes and then evicts the oldest. `Redeem` spends a
  use also when the invite behind the code is gone, which is `GuestHub`'s matter.
- `Lifecycle`: each launch reads runtime.json, probes up to two ports, binds, writes
  the file and serves; it ends by a request, an interrupt, an error or a crash at any
  of these steps. The deferred removal of the file is part of `Return`.
  `excused` is a history variable: launches or exits overlapped, the file could
  not be written, or a copy that serves did not answer a probe in its 500 ms.
- `OperatorPage`: `hist` changes first and the event in `work` is emitted later;
  `/history` is a request of its own (`loads`) with the token of `openConv`. Any event may be
  lost. `erased` is what the page has been told is gone.
- `PeerPanel`: `snapshot` says of each caller of `pushPeers` whether its call is due, or what
  it has read under the lock and not emitted yet. The callers are the maintenance loop, the
  subscriber's own stream, and the goroutines of two sessions, one of which replaces the
  other. `feed` is the subscriber's channel.
- `GuestTLS`: `socket` is the raw listener of `startTLSLocked`; `done` and `serving` are the
  handoff listeners and the two servers on them; `at` follows a connection through
  the goroutine that reads its first byte, `offer`, and the queue.
- `QR`: `qrEncode`, the function patterns, `buildMatrix`, masks and format bits as
  functions on sets of bits and modules, with the block tables of versions 1 to 10.
  The reader (`CodewordsRead`, `NoErrors`, `TextRead`) is written from the standard
  and shares with the encoder only the tables and the shapes that are fixed: it
  walks the modules, sorts codewords into blocks, evaluates every block at the
  roots of the generator, and takes the text out. The penalty score is left out: any
  of the eight masks may be chosen, and each must read.

### MCParts

These components share no variable and do not call each other, except
that `GuestHub` calls the throttle and the join codes, whose outcome it takes as a free
choice. `part` is chosen in `Init`, and only that component moves. A behaviour of
`MCParts` is therefore a behaviour of one component, and what the run shows of it is
what a run of its own would show: initial choices of the others are fixed to
one. Fairness is that of the component, while it is the one that moves.

## The runs

| run | what it shows | bounds |
|---|---|---|
| `sessions_faults` | the table and the live connections never come apart, and a duplicate never disturbs an agreed session | 2 nodes, 3 links, 2 attempts per node, one failure of any kind |
| `sessions_converge` | with one attempt at a time, simultaneous connects settle on one shared session, also after a failure | 2 nodes, 3 links, 1 attempt per node, one failure |
| `sessions_overlap` | violated: two overlapping attempts of one node may leave no session | 2 nodes, 2 links, no failure |
| `hub_races` | how far overlapping requests may exceed the limit of invites; who may close the gateway, and over what; which steps leave it open for nobody; what may revive an invite | 2 operator requests, 3 ids, cap 1, expiry, 1 reap loop, two failures (calls, writes, torn files, crashes), no guests |
| `hub_sessions` | a gateway always has a reap loop; sessions of a retired invite are being dropped; when an invite may have more tabs than its limit | 1 operator request, 2 hellos, 3 sessions, 1 tab per invite, 2 ids, cap 1, expiry, 2 reap loops, no failure |
| `hub_gateway` | violated: a gateway that stays open with no invite that works | 1 operator request, 2 invites, expiry |
| `discovery` | no replay while a peer is known, no false departure, ghosts go, peers are found | announce 2, tick 1, timeout 4, skew 5, 2 datagrams |
| `guest_chat` | no message of the host falls between backlog and queue; a closed page has no session; the page comes back after a failure and shows what it missed | 2 sessions, 2 streams, 1 chain, 1 message each way, queue 2, wire 1, 1 fault |
| `chat` | `Chat` implements `Delivery`; receipts stay with their conversation; a session that does not end delivers and acknowledges | 3 nodes, 2 sessions, 1 message, 2 faults |
| `trust` | the verified keys are those the operator marked; of two newcomers with one name at least one gets the badge | 2 keys, 2 names, 2 handlers at a time, 2 faults |
| `parts` | the small components (below), and that the hub notices every expiry | below |
| `https_port` | violated: a stopped gateway keeps its HTTPS port | 2 gateways, 1 connection |

What `parts` checks of each component:

| component | properties | instance |
|---|---|---|
| `ReplayWindow` | `AcceptedOnce`, `MaskExact`: each counter accepted once, none inside the window refused wrongly | width 4, counters 0 to 9: two full widths and jumps beyond both |
| `AuthThrottle` | `BanServed`, `BanEnds` | 3 hellos at once of one address; bans of 1, 2, 4 and 8 units beside a window of 4, so a ban longer than the window occurs; 5 bits, so the shift overflows |
| `Handoff` | `NewestCodesWork` | 3 codes for 2 places: eviction, with and without an expired one |
| `Lifecycle` | `OneCopy` | 3 launches: a copy, a stale file of another, and a newcomer; a stranger on the port |
| `OperatorPage` | `ClearedStaysCleared` | 2 messages, 2 events under way, 1 clear, a conversation opened twice |
| `PeerPanel` | `ShownAsItIs` | a channel of 2, 1 break, 3 changes of the session, two sessions' goroutines |
| `QR` | `Decodes` | texts of 14, 15, 27, 62, 106 and 214 bytes, all masks |
| all but `QR` | `PartsTypeOK` | of each, as in its own row; `GuestTLS` as in `https_port` |
| `GuestHub` | `ExpiryNoticed` | 1 operator request, 1 hello, 2 invites, 2 reap loops, expiry |

**Bounds and why they are enough.**

- `Link`: a slot is used again once nothing refers to it. Two slots allow one
  duplicate; the third lets a new attempt begin while a replaced one still
  winds down, which is where a stale close or a stale delete could hit.
- `MaxInFlight`: how many attempts of one node at one peer have not registered.
  The code has no limit; 2 is the first number at which they overlap.
- `MaxFaults`: one failure at any point, in any state; a second one adds
  behaviours that begin in states the first already reaches.
- `Reaper`: two slots let an old loop be alive while a new gateway starts its
  own. A gateway start waits for a free slot in the model; an old loop frees its
  slot at its next tick.
- `FreshIds`: `Create` mints a random id; in the model it waits until one is
  left over, so no request blocks for lack of ids.
- `MaxHello`: 2 in `hub_sessions`, the first number at which two hellos choose one tab.
- `Op` and `MaxFaults` in `hub_races`: two requests overlap, or one and the sweep. Two
  failures are a write that fails and the restart that reads the result.
- `MaxInvites`, `MaxSessions`: the smallest limits at which a request meets them.
- `MaxNet`: a datagram that finds the network full makes another be lost, which
  the network may do anyway.
- The clock of `Discovery` keeps the order of the real intervals: an announce
  (3 s) more often than a timeout (15 s), the timeout shorter than the freshness
  window (120 s), a maintenance tick no longer than an announce.

- `Session`, `Stream` in `GuestChat`: one that winds down beside the one that
  replaces it. A slot is used again when nothing refers to it.
- `QueueDepth`, `MaxWire`: with two entries, an ack and a bye fill the queue before a
  message comes; with one frame on the wire the host waits for the page. The queue
  of the code holds 256.
- `MaxFaults` in `GuestChat` counts a broken connection, a request that fails, a
  session dropped while it is in use, a refusal by the rate limiter and a click on
  RECONNECT. The three invariants also held with 2 (18 million states, too many to
  repeat with the temporal properties).
- A frame is decrypted before the next attempt starts (`opening = {}` in `TimerFires`
  and `Reconnect`): an attempt waits at least a second, decryption microseconds.

- `Link` in `Chat`: two sessions give a room message two ways, to two peers, or to one
  peer whose session is replaced. A third node makes a receipt that is counted for
  the wrong peer visible. `MaxFaults` counts cuts, clears and restarts; two of them
  put a clear and a restart, or two restarts, between a message and its ack.
- `Msg` in `Chat`: messages meet only in `wire`, whose order no handler depends on, so
  one message shows what two would.
- `Trust`: a conflict needs two keys, a rename two names, an overtaking two handlers. Two
  faults are a write that fails and the restart that reads the result.
- `MaxUses` in `Handoff` is 1 (20 in the code) and `Lifetime` 2: a code is used up, or expires,
  before it is evicted, and after.
- The lengths for `QR`: 14 bytes fill version 1 and 15 need the next; 27 are one more
  than version 2 holds; 62, about as long as a join link, fill version 4 with two
  blocks; 106 fill version 6 with four; 214 do not fit and must be refused.

`CHECK_DEADLOCK FALSE` is set where the bounds on failures, ids and messages, and a
shutdown, may really end a behaviour.

**Which runs exclude what, and why.** The properties of the hub hold with its races in the
runs: each names the only steps that may break the plain promise, and so says how
far the code goes from it. `Revoke` and `SweepExpired` decide to stop the gateway under the
lock (guest.go:1227-1234) and stop it later; `StopsOnlyWhenNoneLive` lets them close it
over what was filed in between, and over nothing else. A kit that cannot be written
and the `Regenerate` of a dead invite leave the gateway open for nobody, and no
other step does (`LeftOpenInVain`). A write that fails goes unnoticed; only a restart
after it revives an invite (`NeverUsableAgain`). `Create` counts the invites at guest.go:958
and inserts after it has released the lock and written the kit, so `InviteCap` grants every
further request in progress one invite above the limit. Two hellos may choose the same oldest
tab, and only then the tabs of an invite exceed their limit (`TabsBounded`). `DeadSessionsGo` exempts sessions in `late`: a hello checks the
invite at guest.go:1502 and inserts at guest.go:1590 without a second look, so a
session may outlive the revocation that should have dropped it until it idles.
README.md:160 says the copy of a revoked kit "stops working immediately".
`guest_chat` has one chain of promises. RECONNECT during an attempt starts another
(guestkit.html:595-601), and then `NothingMissed` fails: the first chain installs its
keys after the hello of the second has set `state.sid`, `openStream` asks for the
session of the second with the keys of the first, and the page reads none of it until
the second chain installs its own. `NothingMissed` and `ShownInTheEnd` exempt what a
full queue drops.

## Fairness

Every fairness condition is stated beside `Next`, and each is weak except two.

- A goroutine that can go on does (`EndStep`, `OpStep`, `TeardownStep`,
  `HelloStep`, `CloseListed`): the Go scheduler.
- Tickers fire: the maintenance loop dials a peer without a session
  (`DialPeer`), a reap loop ticks and sweeps (`Tick`, `SweepExpired`), the clock
  passes (`Pass`), announces are sent (`SendAnnounce`).
- The kernel answers a dial and carries a hello, or the deadline of the
  handshake ends it (`Accept`, `Answer`, `ReadReply`, `HandshakeFails`).
- A dead session is noticed (`SessionEnds`): the read deadline `sessionIdle`.
- `SF(Deliver)` and `SF(DialSucceeds)` in `Discovery` are assumptions about the
  network, not the code: announces sent for ever are not all lost, and dials of
  a running peer do not all fail. Without them nobody could be found.

- In `parts`: time passes for the throttle (`Tick`; neither a hello nor a sweep has to
  happen); the maintenance loop ticks, calls of `pushPeers` return, `EventSource`
  connects again and the page reads (`PeerPanel`); the hub has the fairness above.
- `GuestTLS`: the goroutines of a connection and of the two servers run on. That
  `Accept` fails is not assumed: nothing closes the socket under it.
- `Chat` and `GuestChat` need one condition each, that not all of their internal steps
  stop (`Progress`). In `Chat` these are the goroutines, and a dead session that its read
  deadline or a heartbeat notices; slots are used once, so these steps end. In
  `GuestChat` they are goroutines, promises, timers and the reap loop's drop of a session
  that nobody reads; messages and failures are bounded, so they cannot go on for
  ever. The weakest condition is enough: what is left running when they end is
  nothing.

Nobody is obliged to start a peer, send a request, say hello, connect or fail.

## What is proved

Each theorem holds for every value of the constants that the named assumptions allow, and
each component that is proved about has an inductive invariant (`IInv`, or a name of its
own where a module has several), which says what its properties rest on.

**Sessions** (`SessionsProofs`).

- `InvariantHolds`: `Spec => []IInv`. `NoOrphanEntry` and `NoStraySession` are not
  inductive by themselves: `CloseVictim` and `CloseListed` close a link that was
  chosen earlier, and a state in which that link is in the table would break
  both. `CondemnedOK` excludes it: what waits to be closed has left the table, and
  for good, because its goroutine is past `register`. `LinkOK` says that a link in
  use joins two different nodes. There is one lemma per conjunct, with a step for
  each action.
- `TypeCorrect`, `NoEntryOutlives`, `NoSessionStrays`: the type invariant, `NoOrphanEntry`
  and `NoStraySession`, from `IInv`.
- `StableSurvivor`: `Spec => SurvivorIsStable`, for any number of nodes, links and
  attempts. A session of the smaller dialer that both ends hold is not replaced
  (`KeepNew` asks for a smaller dialer, and both ends' entries join the same two
  nodes), and by `CondemnedOK` no close is pending against it.
- `BothConverge`: `ConvergeOnSurvivor`, under `OneAttempt`: one attempt of a node at a peer at a
  time. Without it the property fails (`sessions_overlap`). The invariant names the survivor
  before there is one: a link counts if the smaller of its two nodes dialed it, or the
  larger did and the smaller has dialed none (`Counts`). As long as nothing failed, a link that
  counts is `Sound`, at both ends at once: neither end refuses, replaces or closes it, and an
  end that has registered it holds it (`CountsOK`); and it is the only one of its two
  nodes (`OnlyOne`). Until the smaller node dials, its peer's link counts; from then on its
  own does, which `register` prefers at both ends, whatever order they register in.

**Guest hub** (`GuestHubProofs`).

- `HubInvariant`: `Spec => []IInv`. `DeadSessionsGo` needs to know that a task with
  sessions on its list goes on dropping them (`TasksOK`: whoever holds a list is dropping,
  whoever is about to delete an invite has revoked it), and that every session, and
  every hello between its two critical sections, has an invite (`InvitesOK`). `ReaperOK`
  is inductive because a gateway start begins a loop in the same critical section, and a
  loop ends only when it finds the gateway closed. `DiskOK`: a file whose last write
  did not fail is the map.
- `ReaperAlwaysRuns`, `DeadSessionsAlwaysGo`: from `IInv`, for any number of overlapping
  operator requests, hellos and reap loops.
- `HubTypes`: `Spec => []TypeOK`; `RestOK` adds to `IInv` the tab that a hello is about to evict,
  and what is older than what.
- `InvitesCapped`: `Spec => []InviteCap`, for any limit and any number of requests. The
  number of invites alone is not inductive: a `Create` files its invite after it has
  counted. `CapOK` counts those that `Create` has still to file as well, and what is in the
  file, which is what a restart finds.
- `TabsStayBounded`: `Spec => TabsBounded`, for any limit and any number of hellos at once.
  Tabs that a hello is about to evict set aside, a step that inserts one more tab above the
  limit must choose a tab that is already to be evicted. `TabsOK`: the tabs are finitely
  many, and only a hello in its last section has a tab to evict. `RestOK` has the order of
  creation, in which there always is an oldest.
- `NeverWorksAgain`: `Spec => NeverUsableAgain`. The one step that could revive an invite
  is `Restart`, and by `DiskOK` it reads the map as it was unless the last write failed.
- `StopsWhenNoneLive`, `GatewayClosesBehind`: `Spec => StopsOnlyWhenNoneLive` and
  `Spec => LeftOpenInVain`, with and without expiry dates, for any requests, sweeps,
  failures and restarts that overlap. The invariant is `GateInv`. `DecidedOK`: whoever has
  decided to close the gateway knows of every invite that works that it was filed
  since. `AgedOK`: an announced invite is past its date, so the sweep that announces the
  last one decides to close.

**Guest's conversation** (`GuestChatProofs`).

- `GuestChatTypes`: `Spec => []TypeOK`, with any number of chains. No queue exceeds its
  depth: `push` is the only writer, and drops.
- `MissesNothing`, `ClosedIsDropped`: `NothingMissed` and `ClosedMeansDropped`, under
  `OneAttempt`: one chain of promises at a time. With two, TLC breaks either (the second with
  two faults and no messages). `NothingMissed` compares a history on the host with a log in
  the browser; what makes it inductive is about neither. `ChainOK`: no stream is open
  while the page connects, and the session it was given has had no stream and no
  backlog. `StreamOK`: the open stream, `sid` and `keys` name one session, and
  no other stream reads from it, so a frame taken from the queue was taken for this
  page; a stream that has not begun finds the backlog unsent. `ByeOK`: only a
  session out of the map has said bye, in its queue, on the wire or in the
  page. A message is then followed from `history` to `shown`, step by step (`MissedStep`).

**Discovery** (`DiscoveryProofs`).

- `DiscoveryInvariant`, `DiscoveryTypes`: a datagram that the entry as it stands has accepted
  is no fresher than that entry (`TakenOK`); and as long as fewer announces in a row were
  missed than a timeout holds, the peer is up and the entry's age is bounded by the announces
  missed and what is gone of the current interval (`HeardOK`).
- `NeverReplayedWhileKnown`: `NoReplayWhileKnown`, for every freshness window and network.
- `NeverFalselyDown`: `NoFalseDown`. By `HeardOK` the age cannot reach `PeerTimeout` before
  `Enough` announces were missed, for any intervals ordered as in the code.

**Trust** (`TrustProofs`).

- `TrustInvariant`, `TrustTypes`: what the file says is what the store says unless a write
  failed (`MarksOK`), a kept name is one the key has come under (`NamesOK`), and a handler
  that holds an entry to be in the table is right (`JobsOK`).
- `MarksStay`: `VerifiedAsMarked`, through handlers, restarts and failed writes.
- `NewcomersAreBadged`: `NewcomersBadged`. Of two namesakes in the table one is flagged, or the
  announce that created it has yet to ask the store or to flag the entry (`PairsOK`); a key
  that was seen is in the store, or is about to ask (`Pinned`).

**Small components** (`PartsProofs`).

- `NeverReplayed`, `WindowExact`: `AcceptedOnce` and `MaskExact` for every width and
  every set of counters. `MaskExact` with the type invariant is inductive, and
  `AcceptedOnce` follows once counters below the window are known to have been
  taken at most once.
- `BansAreServed`: `BanServed`, for every limit, window, longest ban and width of a duration.
  `BackoffBounds` says that whatever the shift leaves, an overflow included, is a ban of
  some length and not beyond the longest; a record with a ban has failures
  (`BansHaveFailures`), or the clock would wipe it.
- `NewestAlwaysWork`: `NewestCodesWork`, for every size of the table. It is inductive
  once codes are minted once (`CodesInv`): `newHandoff` evicts the oldest code of a full table,
  so all others of that table are newer than it, and they are at least as many as the
  property asks for.
- `NeverComesBack`: `ClearedStaysCleared`, for any number of messages, clears, loads and lost
  events. A message is in the transcript of one conversation (`FiledOK`) and not any
  more once it is in a clear (`GoneOK`); no event of a message comes after the clear
  that erases it (`InOrder`), which is why a clear leaves out what was unannounced; and an
  answer that the page will use has nothing that the page knows as erased (`LoadsOK`).

**Chat and launches** (`ChatProofs`, `LifecycleProofs`).

- `ChatInvariant`, `ChatDelivers`: `Spec => KeepsPromise`, the refinement of `Delivery` by
  `Chat`. Neither module says by itself that a frame is written once, so the invariant
  follows each message: `ViaOK`, it is given to one session per receiver, from the
  table its author had; and then, on that session, it is in one place only, in `pending`
  and not stored (`PendingOK`), on the wire and not stored, or its ack is on the wire and
  not counted (`WireOK`), or stored and not acked in the hands of `handleFrame` (`BusyOK`).
  `HandleMsg` is then a `Store` of `Delivery`, `HandleAck` a `Tell`, `Send` a `Send`, and
  every other step, the loss, replacement and restart of anything included, leaves the
  promise alone.
- `ChatTypes`: the type invariant, from the same.
- `ReceiptsBelong`: `Spec => []MarksBelong`. The count in a transcript is at most the number
  of peers told of (`MarkOK`), for a clear or a restart only takes counts away, and an
  ack raises both; each of these peers has stored the message (`CountOK`).
- `LaunchInvariant`, `OneCopyAlways`: `Spec => []OneCopy` for every number of launches.
  `OneCopy` says nothing of how a launch finds the copy that runs. The invariant does: the
  file leads to the copy that serves (`FileLeads`), a launch still has that copy's port
  to probe (`WillProbe`), and nothing serves beside a launch that has probed them all
  (`NothingRuns`); all of it as long as launches do not overlap, a copy answers its probe, and
  the file can be written, as in `OneCopy`. `Spec` has no fairness here, which the property does not need.
  `OneCopyServes` in `PartsProofs` says the same of the instance that `parts` runs.

**All of `Parts`** (`PartsProofs`).

- `PartsKeepTypes`: `PartsTypeOK` of all its components at once, each with its own
  specification. What is new beside the invariants above: no channel to the page holds more
  than its depth (`PageRest`, `PanelNext`); and two gateways have different HTTPS ports, because a
  start takes the preferred one only when no open socket has it (`HttpsStart`), and
  a socket that is open is of a gateway that was started (`HttpsInv`).

**Assumptions.** They are the named ones in the modules: fingerprints are ordered like
numbers, `None` is none of the values it stands beside, requests and reap loops are different
slots, the host's messages are not the page's, bounds are numbers, the width, the depth of
the queue and the buffers are positive, the intervals of `Discovery` are ordered as in the code,
and nodes, connections and operator requests are finitely many, so that receipts, attempts and
invites can be counted. Some
hypotheses are in the statements of their theorems. `NoneIsNoPort`, `NoneIsNoConv`, `PortsDiffer`, `Bounds`, `CodesBounds`
and `ThrottleBounds` say that `None` is no port and no conversation, that the automatic ports are
not the preferred one, that bounds are numbers, and that the size of the table, the limit of
failures and the longest ban are not zero; `HubBounds` is the named assumptions of `GuestHub`.
`OneAttempt` in `GuestChatProofs` is how, RECONNECT apart, the
guest's page uses the program. `OneAttempt` in `SessionsProofs` is narrower than the code, in
which an announce and a maintenance tick may both dial one peer. TLC checks the properties of both
on instances that satisfy them.

**Model-checked only.**

- Liveness (`Converges`, `ExpiryNoticed`, `GhostsGo`, `PeersFound`, `ComesBack`, `ShownInTheEnd`,
  `AckedUnlessBroken`, `BanEnds`, `ShownAsItIs`), which is beyond this prover.
- `Decodes`: what the recursive functions of `QR` compute for every text would need
  induction over data, which the installed provers do not do.

## Where the code and its comments disagree

- `sessions_overlap`. transport.go:306-308 promises that both ends converge "on
  the same survivor without negotiation". The rule compares dialers, so two
  connections dialed by the same node tie, and each end keeps the one it registered
  first. Each end then closes what the other kept. The next maintenance tick
  dials again.
- `hub_gateway`. README.md:152 says the gateway only exists while a usable invite
  exists. `Regenerate` restarts it for an expired one, and an expiry is announced
  once, so nothing closes it again.
- `https_port`. README.md:152-153 says the gateway "closes and releases its ports the
  moment the last one is revoked or expires". `stopServer` (guest.go:804-823) shuts down
  the two HTTPS servers, whose listeners are only handed connections
  (tlscert.go:186-219); the socket belongs to the goroutine of `splitByScheme`, which waits in
  `Accept` and is never told. The port stays bound until the process ends, and the next
  gateway takes another.

More are repeated from a passing configuration by changing it:

- README.md:198-199 says that a display name which shows up attached to
  a different key is a conflict in the console "and a red badge in the buddy list".
  `onAnnounce` looks at the store's verdict only when the announce created the entry
  (discovery.go:221), and a handshake, which may create it first, sets no flag
  (transport.go:273-276). `NewcomersBadged` is what holds: of two peers that always had one
  name and were found by their announces, one has the badge.
  With `BadgeShown` as an invariant in `Trust.cfg`, TLC shows two peers with one name and no
  badge.
- guest.go:1574 keeps the number of tabs bounded. In `GuestHub_sessions.cfg` with
  the bound itself, of an invite whose hellos have no eviction to make, in place of
  `TabsBounded`, TLC finds one more: two hellos choose the same oldest tab (guest.go:1597)
  before either has dropped it.
- guest.go:961 keeps the number of invites at the limit. In `GuestHub_races.cfg` with the
  limit itself in place of `InviteCap`, TLC finds one more (see above).
- guest.go:822 logs that no live invites remain. In `GuestHub_races.cfg` without `unseen` in
  `StopsOnlyWhenNoneLive`, TLC closes the gateway over an invite filed after the decision.
- discovery.go:164 says a captured announce cannot be replayed later. With `NoReplay`
  as an invariant in `Discovery.cfg`, TLC delivers an announce, lets a bye delete the
  entry and the timestamp in it, and delivers the copy again.

Seen while modelling, from an instance that no configuration here repeats:

- qr.go:433 calls the second copy of the format a duplicate. The first one
  (qr.go:421-431) is written with its bits in reverse order, so `FirstFormat` and
  `SecondFormat` differ, and a reader that uses the first alone corrects it to another
  format or to none.
- From version 7 on (texts of 107 to 213 bytes) `Decodes` fails. An alignment pattern is
  skipped when its centre is reserved (qr.go:281-286), "skipping any that would
  collide with a finder"; the timing lines are reserved too by then, so the
  patterns on row and column 6 are missing and the data is laid out over their
  places. Join links have about 60 bytes, so the program does not show such a picture.
- guest.go:220 says a new code must never kill one on screen, and README.md:166 that
  reissuing one never invalidates another. The code evicts the oldest of 128;
  `NewestCodesWork` is what holds.
- A ban as long as the window lets the record lapse while it is served
  (guest.go:154), so the next failure starts the ladder over: bans given one after
  the other do not grow beyond the window. The clamp of guest.go:164 is right: the
  shift's overflow is never a short ban.
- Launches that overlap, or a launch during an exit, may leave two copies (both probe
  before either serves), and the deferred removal of the one that ends takes the
  other's runtime.json with it. So may a copy too busy to answer within 500 ms
  (main.go:106). `OneCopy` excuses all three.
- A direct conversation that is cleared and opened again counts its load token from
  1 anew (index.html), so the answer to an older load is taken for the new one's and
  brings cleared messages back. `ClearedStaysCleared` exempts it (`aba`).
- Typing in a direct conversation is never shown: it is sent with the peer's
  fingerprint as its conversation, and index.html:1221 compares with "dm".
- A connection that is queued in a handoff listener when it is closed is neither
  served nor closed.

And of the guest's page:

- guestkit.html:563 says an ack fills in the receipt of the line it belongs to. The
  lines of `send` have no `data-mid`, so an ack finds no line, and the receipt is
  "sent" from the timer beside that comment.
- guest.go:1675 says the backlog is sent once per session "so a reconnecting
  EventSource does not duplicate the whole conversation". The page never reconnects
  an EventSource: it closes it and says hello again, and the new session gets the
  backlog again.
- guest.go:1263 says `Deliver` reports how many sessions got a message. It counts a
  session whose queue was full, and the message is marked as delivered.
- A page that shows SESSION CLOSED may still reconnect by itself: the end of the
  stream can schedule the attempt before the bye has been decrypted.

## What is not modelled

- Cryptography, key agreement and key derivation (assumed to succeed or fail as a
  whole), making and saving certificates, formatting and logging.
- The identity key: one file that is made once, and cryptography. Of `Trust`: other flags of a
  peer, and letter case in names.
- `Diag`: a classifier of counters that never go back; its verdict changes nothing.
- Of `Discovery`: gossip probes, seeds, address changes and more than one peer.
- Of `GuestHub`: what sessions carry (`GuestChat` has it).
- Of `GuestChat`: a second page or tab, leaving the page, plaintext sessions, typing, the
  choice among addresses.
- Of `Chat`: pings and typing, the limit of lines that `Load` returns.
- Of the interface: log lines, rendering, forms, the guest panel, nick and verify.
- Of `QR`: the penalty score and the SVG.
- Opening a browser, socket options, the installer and the web site: no state of the
  running program.

## Plan

In this order.

1. `SessionTable`: what the mesh promises, one shared session per pair of nodes that
   only a failure ends, with `Sessions` shown to implement it.
2. `GuestChat`: an abstract specification (an ordered conversation that loses nothing unless it
   says so), a second chain of promises, a second page.
3. `Discovery`: gossip and seeds, two peers that probe each other.
4. `Diag`, as an operator against a reference definition.
