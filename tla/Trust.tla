------------------------------- MODULE Trust -------------------------------
(***************************************************************************)
(* Trust on first use (identity.go): the names and marks kept for keys,    *)
(* on disk too, and the badge of a peer whose name belongs to another key  *)
(* (discovery.go onAnnounce, transport.go handshake, main.go Peer.flag).   *)
(*                                                                         *)
(* An announce files the peer, asks the store and flags the peer in three  *)
(* critical sections; a handshake asks the store and then files the peer.  *)
(* A peer may come under any name, and the signatures are in order.        *)
(***************************************************************************)
EXTENDS Naturals

CONSTANTS
    Key,            \* fingerprints of peers
    Nick,           \* display names; two that differ in case only are one
    Job,            \* announces and handshakes in progress
    None,
    MaxFaults       \* bound: writes that fail, and restarts

Peer == [nick : Nick, flagged : BOOLEAN, announced : BOOLEAN]

ASSUME NoneAssumption == None \notin Key \cup Nick \cup Peer
ASSUME BoundAssumption == MaxFaults \in Nat

VARIABLES
    nick,       \* TrustRecord.Nick of a pinned key, or None
    verified,   \* TrustRecord.Verified
    file,       \* known_peers.json
    unsaved,    \* its last write failed
    peers,      \* App.peers
    job,        \* what an announce or a handshake in progress has found
    names,      \* history: the names a key has come under
    marked,     \* history: the keys the operator's last word was "verified" for
    damaged,    \* history: a restart has read a file whose write failed
    faults

storeVars == <<nick, verified, file, unsaved>>
vars == <<storeVars, peers, job, names, marked, damaged, faults>>

Pins == [nick : [Key -> Nick \cup {None}], verified : SUBSET Key]
NoPins == [nick |-> [k \in Key |-> None], verified |-> {}]
Idle == [pc |-> "idle", key |-> None, nick |-> None, isNew |-> FALSE, here |-> FALSE]

Init ==
    /\ nick = NoPins.nick /\ verified = {} /\ file = NoPins /\ unsaved = FALSE
    /\ peers = [k \in Key |-> None]
    /\ job = [j \in Job |-> Idle]
    /\ names = [k \in Key |-> {}]
    /\ marked = {} /\ damaged = FALSE
    /\ faults = 0

Fault == faults < MaxFaults /\ faults' = faults + 1

-----------------------------------------------------------------------------
(* The store.                                                              *)

\* save rewrites the file in place and ignores an error, which leaves the old
\* content or nothing.
save ==
    \/ /\ file' = [nick |-> nick', verified |-> verified']
       /\ unsaved' = FALSE
       /\ UNCHANGED faults
    \/ /\ Fault
       /\ file' \in {file, NoPins}
       /\ unsaved' = TRUE

\* The keys that have this name in the store.
Others(k, x) == {f \in Key \ {k} : nick[f] = x}

\* Seeded fault: a key that changes its name is pinned anew.
Observe_Anew(k, x) ==
    /\ nick' = [nick EXCEPT ![k] = x]
    /\ verified' = IF nick[k] = x THEN verified ELSE verified \ {k}
    /\ save

\* Observe pins a new key, or takes note of a known key's new name.
Observe(k, x) ==
    /\ nick' = [nick EXCEPT ![k] = x]
    /\ UNCHANGED verified
    /\ save

\* SetVerified, for a key that is pinned.
SetVerified(k, v) ==
    /\ nick[k] # None
    /\ verified' = IF v THEN verified \cup {k} ELSE verified \ {k}
    /\ marked' = IF v THEN marked \cup {k} ELSE marked \ {k}
    /\ UNCHANGED <<nick, peers, job, names, damaged>>
    /\ save

-----------------------------------------------------------------------------
(* Announces and handshakes.                                               *)

\* A peer that is filed: its name, its badge, and (history) whether an announce
\* created the entry.
Filed(k, x, announced) ==
    IF peers[k] = None
    THEN [nick |-> x, flagged |-> FALSE, announced |-> announced]
    ELSE [peers[k] EXCEPT !.nick = x]

Comes(k, x) == names' = [names EXCEPT ![k] = @ \cup {x}]

\* onAnnounce, of an announce that is not a duplicate.
onAnnounce(j, k, x) ==
    /\ job[j] = Idle
    /\ peers' = [peers EXCEPT ![k] = Filed(k, x, TRUE)]
    /\ job' = [job EXCEPT ![j] = [pc |-> "announce", key |-> k, nick |-> x,
                                  isNew |-> peers[k] = None, here |-> TRUE]]
    /\ Comes(k, x)
    /\ UNCHANGED <<storeVars, marked, damaged, faults>>

\* Seeded fault: what the store says of a new key is taken for a first sighting.
ObserveAnnounce_FirstSighting(j) ==
    LET k == job[j].key  x == job[j].nick
    IN  /\ job[j].pc = "announce"
        /\ Observe(k, x)
        /\ job' = [job EXCEPT ![j] = IF job[j].isNew /\ nick[k] # None /\ Others(k, x) # {}
                                     THEN [@ EXCEPT !.pc = "flag"] ELSE Idle]
        /\ UNCHANGED <<peers, names, marked, damaged>>

\* Only a peer that has just been filed is looked at.
ObserveAnnounce(j) ==
    LET k == job[j].key  x == job[j].nick
    IN  /\ job[j].pc = "announce"
        /\ Observe(k, x)
        /\ job' = [job EXCEPT ![j] = IF job[j].isNew /\ Others(k, x) # {}
                                     THEN [@ EXCEPT !.pc = "flag"] ELSE Idle]
        /\ UNCHANGED <<peers, names, marked, damaged>>

\* The badge goes to the entry that was created, in the table or not.
flag(j) ==
    LET k == job[j].key
    IN  /\ job[j].pc = "flag"
        /\ peers' = IF job[j].here THEN [peers EXCEPT ![k].flagged = TRUE] ELSE peers
        /\ job' = [job EXCEPT ![j] = Idle]
        /\ UNCHANGED <<storeVars, names, marked, damaged, faults>>

\* handshake, once the other side is verified.
handshake(j, k, x) ==
    /\ job[j] = Idle
    /\ job' = [job EXCEPT ![j] = [Idle EXCEPT !.pc = "hello", !.key = k, !.nick = x]]
    /\ Comes(k, x)
    /\ UNCHANGED <<storeVars, peers, marked, damaged, faults>>

\* A conflict goes to the console and nowhere else.
ObserveHello(j) ==
    /\ job[j].pc = "hello"
    /\ Observe(job[j].key, job[j].nick)
    /\ job' = [job EXCEPT ![j].pc = "record"]
    /\ UNCHANGED <<peers, names, marked, damaged>>

RecordHello(j) ==
    LET k == job[j].key
    IN  /\ job[j].pc = "record"
        /\ peers' = [peers EXCEPT ![k] = Filed(k, job[j].nick, FALSE)]
        /\ job' = [job EXCEPT ![j] = Idle]
        /\ UNCHANGED <<storeVars, names, marked, damaged, faults>>

-----------------------------------------------------------------------------
\* A bye or the maintenance loop deletes the entry; a job may still hold it.
Forget(k) ==
    /\ peers[k] # None
    /\ peers' = [peers EXCEPT ![k] = None]
    /\ job' = [j \in Job |-> IF job[j].key = k THEN [job[j] EXCEPT !.here = FALSE] ELSE job[j]]
    /\ UNCHANGED <<storeVars, names, marked, damaged, faults>>

\* LoadTrustStore takes a file it cannot read for an empty store.
Restart ==
    /\ Fault
    /\ nick' = file.nick /\ verified' = file.verified
    /\ peers' = [k \in Key |-> None]
    /\ job' = [j \in Job |-> Idle]
    /\ damaged' = (damaged \/ unsaved)
    /\ UNCHANGED <<file, unsaved, names, marked>>

Next ==
    \/ \E j \in Job :
          \/ \E k \in Key, x \in Nick : onAnnounce(j, k, x) \/ handshake(j, k, x)
          \/ ObserveAnnounce(j) \/ flag(j) \/ ObserveHello(j) \/ RecordHello(j)
    \/ \E k \in Key : Forget(k) \/ \E v \in BOOLEAN : SetVerified(k, v)
    \/ Restart

Spec == Init /\ [][Next]_vars

-----------------------------------------------------------------------------
(* Properties.                                                             *)

TypeOK ==
    /\ [nick |-> nick, verified |-> verified] \in Pins /\ file \in Pins
    /\ \A k \in verified : nick[k] # None
    /\ unsaved \in BOOLEAN /\ damaged \in BOOLEAN
    /\ peers \in [Key -> Peer \cup {None}]
    /\ job \in [Job -> [pc : {"idle", "announce", "flag", "hello", "record"},
                        key : Key \cup {None}, nick : Nick \cup {None},
                        isNew : BOOLEAN, here : BOOLEAN]]
    /\ names \in [Key -> SUBSET Nick] /\ marked \subseteq Key
    /\ faults \in 0 .. MaxFaults

Listed(k, l) == k # l /\ peers[k] # None /\ peers[l] # None
Namesakes(k, l) == \E x \in Nick : names[k] = {x} /\ names[l] = {x}
Settled == \A j \in Job : job[j] = Idle

\* "Mark verified ... the only step that upgrades trust-on-first-use"
\* (README.md:202): what is shown as verified is what the operator said last of
\* the key, through renames, departures and restarts, unless a write was lost.
VerifiedAsMarked == ~damaged => verified = marked

\* Two peers that always had one name, and were both found by their announces, do
\* not both go without a badge, in whatever order the announces were handled, and
\* whatever byes, handshakes and restarts came between.
NewcomersBadged ==
    \A k, l \in Key :
        Listed(k, l) /\ Settled /\ Namesakes(k, l) /\ peers[k].announced /\ peers[l].announced
            => peers[k].flagged \/ peers[l].flagged

\* README.md:198: "If a display name ever shows up attached to a different key,
\* that's a NAME CONFLICT in the console and a red badge in the buddy list."
BadgeShown ==
    \A k, l \in Key :
        Listed(k, l) /\ Settled /\ peers[k].nick = peers[l].nick
            => peers[k].flagged \/ peers[l].flagged
=============================================================================
