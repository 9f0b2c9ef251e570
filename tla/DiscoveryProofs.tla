-------------------------- MODULE DiscoveryProofs --------------------------
(***************************************************************************)
(* Proofs about Discovery, for every choice of its intervals: types, the   *)
(* replay guard of an entry, and that maintenanceLoop drops no peer it     *)
(* could have heard of.                                                    *)
(*                                                                         *)
(* The guard: an announce that was accepted by the entry as it stands is   *)
(* no fresher than the entry. The timeout: since an announce was accepted, *)
(* time has passed for one interval per announce sent and for what is gone *)
(* of the current one.                                                     *)
(***************************************************************************)
EXTENDS Discovery, TLAPS

TakenOK == \A d \in net : d.taken = "here" => entry # None /\ entry.ts <= d.age

HeardOK ==
    missed < Enough =>
        /\ phase = "up"
        /\ entry # None => entry.last + wait <= (missed + 1) * AnnounceEvery

IInv == TypeOK /\ NoReplayWhileKnown /\ TakenOK /\ HeardOK

-----------------------------------------------------------------------------
(* Intervals, datagrams and entries.                                       *)

\* The announces of a timeout fit into it.
LEMMA EnoughFits == Enough \in Nat \ {0} /\ Enough * AnnounceEvery <= PeerTimeout
  BY TimingAssumption DEF Enough

LEMMA Intervals ==
    ASSUME NEW m \in Nat
    PROVE  /\ m * AnnounceEvery \in Nat /\ (m + 1) * AnnounceEvery \in Nat
           /\ (m + 1) * AnnounceEvery = m * AnnounceEvery + AnnounceEvery
           /\ m < Enough => (m + 1) * AnnounceEvery <= PeerTimeout
  <1>1. /\ m * AnnounceEvery \in Nat /\ (m + 1) * AnnounceEvery \in Nat
        /\ (m + 1) * AnnounceEvery = m * AnnounceEvery + AnnounceEvery
    BY TimingAssumption
  <1>2. ASSUME m < Enough PROVE (m + 1) * AnnounceEvery <= PeerTimeout
    <2>1. m + 1 <= Enough /\ m + 1 \in Nat /\ Enough \in Nat /\ AnnounceEvery \in Nat
      BY <1>2, EnoughFits, TimingAssumption
    <2>2. (m + 1) * AnnounceEvery <= Enough * AnnounceEvery
      BY <2>1
    <2>3. Enough * AnnounceEvery \in Nat
      BY <2>1
    <2>. QED  BY <1>1, <2>2, <2>3, EnoughFits, TimingAssumption
  <1>. QED  BY <1>1, <1>2

\* A datagram that is new has not been taken.
LEMMA SendOK ==
    ASSUME net \subseteq Datagram, NEW kind \in {"announce", "bye"}, Send(kind)
    PROVE  /\ net' \subseteq Datagram
           /\ \A d \in net' : d \in net \/ d.taken = "no"
  <1>. DEFINE D == [kind |-> kind, age |-> 0, taken |-> "no"]
  <1>1. D \in Datagram /\ D.taken = "no"
    BY TimingAssumption DEF Datagram
  <1>2. PICK kept \in SUBSET net : net' = kept \cup {D}
    BY DEF Send
  <1>. HIDE DEF D
  <1>. QED  BY <1>1, <1>2

\* Who removes an entry leaves no datagram behind that the entry has taken.
LEMMA RemoveOK ==
    ASSUME net \subseteq Datagram, Remove
    PROVE  /\ entry' = None
           /\ net' \subseteq Datagram
           /\ \A d \in net' : d.taken # "here"
  <1>. DEFINE F(d) == [d EXCEPT !.taken = IF @ = "no" THEN "no" ELSE "before"]
  <1>1. \A d \in net : F(d) \in Datagram /\ F(d).taken # "here"
    BY DEF Datagram
  <1>2. entry' = None /\ net' = {F(d) : d \in net}
    BY DEF Remove
  <1>. HIDE DEF F
  <1>. QED  BY <1>1, <1>2

\* A handshake makes an entry without an announce time, or refreshes the one
\* there is.
LEMMA RefreshOK ==
    ASSUME entry \in Entry \cup {None}, NEW port \in {"listen", "ephemeral"}, Refresh(port)
    PROVE  /\ entry' \in Entry /\ entry' # None
           /\ entry'.last = 0
           /\ entry # None => entry'.ts = entry.ts
  <1>1. CASE entry = None
    <2>1. entry' = [last |-> 0, ts |-> Never, port |-> port]
      BY <1>1 DEF Refresh
    <2>2. entry' \in Entry /\ entry'.last = 0
      BY <2>1, TimingAssumption DEF Entry, Never
    <2>. QED  BY <1>1, <2>2, NoneAssumption
  <1>2. CASE entry # None
    <2>1. entry' = [entry EXCEPT !.last = 0] /\ entry \in Entry
      BY <1>2 DEF Refresh
    <2>2. entry' \in Entry /\ entry'.last = 0 /\ entry'.ts = entry.ts
      BY <2>1, TimingAssumption DEF Entry
    <2>. QED  BY <2>2, NoneAssumption
  <1>. QED  BY <1>1, <1>2

LEMMA InitInv == Init => IInv
  <1>. SUFFICES ASSUME Init PROVE IInv
    OBVIOUS
  <1>1. Enough \in Nat \ {0}
    BY EnoughFits
  <1>. QED  BY <1>1, TimingAssumption
            DEF Init, IInv, TypeOK, NoReplayWhileKnown, TakenOK, HeardOK

-----------------------------------------------------------------------------
(* The steps.                                                              *)

LEMMA PeerStep ==
    ASSUME IInv, Start \/ SendAnnounce \/ SendBye \/ CloseAllConns \/ Exit
    PROVE  IInv'
  <1>1. /\ TypeOK /\ replay # "here" /\ TakenOK /\ HeardOK
        /\ UNCHANGED <<tick, entry, dialing, replay>>
    BY DEF IInv, NoReplayWhileKnown, Start, SendAnnounce, SendBye, CloseAllConns, Exit
  <1>2. /\ Enough \in Nat \ {0} /\ AnnounceEvery \in Nat \ {0}
        /\ missed \in 0 .. Enough /\ wait \in 0 .. AnnounceEvery
        /\ entry # None => entry.last \in Nat
    BY <1>1, EnoughFits, TimingAssumption DEF TypeOK, Entry
  <1>3. session' \in {"none", "good", "dead"}
    BY <1>1 DEF TypeOK, Hurt, Start, SendAnnounce, SendBye, CloseAllConns, Exit
  <1>4. net' \subseteq Datagram /\ \A d \in net' : d \in net \/ d.taken = "no"
    <2>1. net \subseteq Datagram
      BY <1>1 DEF TypeOK
    <2>2. CASE net' = net
      BY <2>1, <2>2
    <2>3. CASE Send("announce") \/ Send("bye")
      BY <2>1, <2>3, SendOK
    <2>. QED  BY <2>2, <2>3 DEF Start, SendAnnounce, SendBye, CloseAllConns, Exit
  <1>5. TakenOK'
    BY <1>1, <1>4 DEF TakenOK
  <1>6. CASE Start
    <2>1. missed' = missed /\ phase = "down" /\ phase' = "up" /\ wait' = 0
      BY <1>6 DEF Start
    <2>. QED  BY <1>1, <1>2, <1>3, <1>4, <1>5, <2>1
              DEF IInv, TypeOK, NoReplayWhileKnown, HeardOK
  <1>7. CASE SendAnnounce
    <2>1. /\ wait = 0 /\ wait' = AnnounceEvery /\ phase' = phase
          /\ missed' = IF missed + 1 <= Enough THEN missed + 1 ELSE Enough
      BY <1>7 DEF SendAnnounce, Least
    <2>2. missed' \in 0 .. Enough /\ (missed' < Enough => missed' = missed + 1)
      BY <1>2, <2>1
    <2>3. HeardOK'
      <3>. SUFFICES ASSUME missed' < Enough
           PROVE  /\ phase' = "up"
                  /\ entry' # None => entry'.last + wait' <= (missed' + 1) * AnnounceEvery
        BY DEF HeardOK
      <3>1. missed < Enough /\ missed' = missed + 1 /\ missed \in Nat /\ missed + 1 \in Nat
        BY <1>2, <2>2
      <3>2. /\ phase = "up"
            /\ entry # None => entry.last <= (missed + 1) * AnnounceEvery
        BY <3>1, <2>1, <1>1, <1>2 DEF HeardOK
      <3>3. /\ (missed + 1) * AnnounceEvery \in Nat
            /\ (missed' + 1) * AnnounceEvery = (missed + 1) * AnnounceEvery + AnnounceEvery
        BY <3>1, Intervals
      <3>. QED  BY <1>1, <1>2, <2>1, <3>2, <3>3
    <2>. QED  BY <1>1, <1>2, <1>3, <1>4, <1>5, <2>1, <2>2, <2>3
              DEF IInv, TypeOK, NoReplayWhileKnown
  <1>8. CASE SendBye
    <2>1. missed' = Enough /\ phase' = "leaving" /\ wait' = wait
      BY <1>8 DEF SendBye
    <2>. QED  BY <1>1, <1>2, <1>3, <1>4, <1>5, <2>1
              DEF IInv, TypeOK, NoReplayWhileKnown, HeardOK
  <1>9. CASE CloseAllConns
    <2>1. missed' = missed /\ phase' = phase /\ wait' = wait
      BY <1>9 DEF CloseAllConns
    <2>. QED  BY <1>1, <1>2, <1>3, <1>4, <1>5, <2>1
              DEF IInv, TypeOK, NoReplayWhileKnown, HeardOK
  <1>10. CASE Exit
    <2>1. missed' = Enough /\ phase' = "down" /\ wait' = 0
      BY <1>10 DEF Exit
    <2>. QED  BY <1>1, <1>2, <1>3, <1>4, <1>5, <2>1
              DEF IInv, TypeOK, NoReplayWhileKnown, HeardOK
  <1>. QED  BY <1>6, <1>7, <1>8, <1>9, <1>10

\* An announce that the entry has taken is not fresher than the entry: it is not
\* taken again.
LEMMA onAnnounceInv ==
    ASSUME IInv, NEW d \in net, onAnnounce(d)
    PROVE  IInv'
  <1>1. /\ TypeOK /\ replay # "here" /\ TakenOK /\ HeardOK /\ d \in Datagram
        /\ entry # None => d.age < entry.ts
        /\ entry' = [last |-> 0, ts |-> d.age, port |-> "listen"]
        /\ net' = (net \ {d}) \cup {[d EXCEPT !.taken = "here"]}
        /\ missed' = IF phase = "up" THEN 0 ELSE missed
        /\ replay' = IF d.taken = "no" THEN replay ELSE d.taken
        /\ dialing' \in {"listen", dialing}
        /\ UNCHANGED <<phase, wait, tick, session>>
    BY DEF IInv, TypeOK, NoReplayWhileKnown, onAnnounce, Taken, peerVars
  <1>2. entry' \in Entry /\ entry' # None /\ entry'.last = 0 /\ entry'.ts = d.age
    <2>1. entry' \in Entry /\ entry'.last = 0 /\ entry'.ts = d.age
      BY <1>1, TimingAssumption DEF Entry, Datagram, Never
    <2>. QED  BY <2>1, NoneAssumption
  <1>3. d.taken # "here"
    <2>1. d.age \in Nat /\ (entry # None => entry.ts \in Nat)
      BY <1>1, TimingAssumption DEF TypeOK, Datagram, Entry, Never
    <2>. QED  BY <1>1, <2>1 DEF TakenOK
  <1>4. replay' # "here" /\ replay' \in {"never", "here", "before"}
    BY <1>1, <1>3 DEF TypeOK, Datagram
  <1>5. /\ [d EXCEPT !.taken = "here"] \in Datagram
        /\ [d EXCEPT !.taken = "here"].age = d.age
    BY <1>1 DEF Datagram
  <1>6. net' \subseteq Datagram
    BY <1>1, <1>5 DEF TypeOK
  <1>7. TakenOK'
    <2>. SUFFICES ASSUME NEW e \in net', e.taken = "here" PROVE d.age <= e.age
      BY <1>2 DEF TakenOK
    <2>1. CASE e = [d EXCEPT !.taken = "here"]
      BY <2>1, <1>1, <1>5 DEF Datagram
    <2>2. CASE e \in net
      <3>1. e \in Datagram /\ entry \in Entry /\ entry # None /\ entry.ts <= e.age
        BY <2>2, <1>1 DEF TypeOK, TakenOK
      <3>2. d.age \in Nat /\ e.age \in Nat /\ entry.ts \in Nat
        BY <3>1, <1>1, TimingAssumption DEF Datagram, Entry, Never
      <3>. QED  BY <3>1, <3>2, <1>1
    <2>. QED  BY <2>1, <2>2, <1>1
  <1>8. /\ missed' \in 0 .. Enough
        /\ missed' < Enough => phase' = "up" /\ missed' = 0
    BY <1>1, EnoughFits DEF TypeOK, HeardOK
  <1>9. HeardOK'
    <2>1. wait' \in 0 .. AnnounceEvery
      BY <1>1 DEF TypeOK
    <2>2. /\ wait' \in Nat /\ AnnounceEvery \in Nat /\ wait' <= AnnounceEvery
          /\ 0 * AnnounceEvery = 0
          /\ (0 + 1) * AnnounceEvery = 0 * AnnounceEvery + AnnounceEvery
      <3>1. AnnounceEvery \in Nat
        BY TimingAssumption
      <3>. QED  BY <3>1, <2>1, Intervals
    <2>. SUFFICES ASSUME missed' < Enough
         PROVE  phase' = "up" /\ entry'.last + wait' <= (missed' + 1) * AnnounceEvery
      BY DEF HeardOK
    <2>3. phase' = "up" /\ missed' = 0 /\ entry'.last = 0
      BY <1>2, <1>8
    <2>4. missed' + 1 = 0 + 1
      BY <2>3
    <2>5. (missed' + 1) * AnnounceEvery = AnnounceEvery
      BY <2>2, <2>4
    <2>6. entry'.last + wait' <= AnnounceEvery
      <3>1. \A w, l \in Nat : l = 0 /\ w <= AnnounceEvery => l + w <= AnnounceEvery
        OBVIOUS
      <3>2. entry'.last \in Nat /\ entry'.last = 0 /\ wait' \in Nat /\ wait' <= AnnounceEvery
        BY <2>2, <2>3
      <3>. QED  BY <3>1, <3>2
    <2>. QED  BY <2>3, <2>5, <2>6
  <1>. QED  BY <1>1, <1>2, <1>4, <1>6, <1>7, <1>8, <1>9
            DEF IInv, TypeOK, NoReplayWhileKnown

LEMMA handleByeInv ==
    ASSUME IInv, NEW d \in net, handleBye(d)
    PROVE  IInv'
  <1>1. /\ TypeOK /\ replay # "here" /\ HeardOK /\ Remove /\ session' \in {"none", "dead"}
        /\ UNCHANGED <<phase, wait, tick, dialing, missed, replay>>
    BY DEF IInv, NoReplayWhileKnown, handleBye, peerVars
  <1>2. entry' = None /\ net' \subseteq Datagram /\ \A e \in net' : e.taken # "here"
    BY <1>1, RemoveOK DEF TypeOK
  <1>. QED  BY <1>1, <1>2 DEF IInv, TypeOK, NoReplayWhileKnown, TakenOK, HeardOK

LEMMA MaintainInv ==
    ASSUME IInv, Maintain
    PROVE  IInv'
  <1>1. /\ TypeOK /\ replay # "here" /\ TakenOK /\ HeardOK
        /\ tick' = TickEvery /\ TickEvery \in Nat
        /\ UNCHANGED <<phase, wait, session, missed, replay>>
    BY TimingAssumption DEF IInv, NoReplayWhileKnown, Maintain, peerVars
  <1>2. dialing' \in {"no", "listen", "ephemeral"}
    BY <1>1 DEF Maintain, Dialable, TypeOK, Entry
  <1>3. /\ net' \subseteq Datagram /\ entry' \in {entry, None}
        /\ TakenOK'
    <2>1. CASE Stale
      <3>1. entry' = None /\ net' \subseteq Datagram /\ \A d \in net' : d.taken # "here"
        BY <2>1, <1>1, RemoveOK DEF Maintain, TypeOK
      <3>. QED  BY <3>1 DEF TakenOK
    <2>2. CASE ~Stale
      BY <2>2, <1>1 DEF Maintain, TypeOK, TakenOK
    <2>. QED  BY <2>1, <2>2
  <1>4. HeardOK'
    BY <1>1, <1>3 DEF HeardOK
  <1>. QED  BY <1>1, <1>2, <1>3, <1>4 DEF IInv, TypeOK, NoReplayWhileKnown

\* Handshakes, failed attempts, and what becomes of the session.
LEMMA SessionStep ==
    ASSUME IInv, DialSucceeds \/ DialFails \/ Inbound \/ SessionBreaks \/ SessionEnds
    PROVE  IInv'
  <1>1. /\ TypeOK /\ replay # "here" /\ TakenOK /\ HeardOK
        /\ UNCHANGED <<phase, wait, tick, net, missed, replay>>
        /\ dialing' \in {"no", dialing}
    BY DEF IInv, NoReplayWhileKnown, DialSucceeds, DialFails, Inbound, SessionBreaks,
       SessionEnds, peerVars
  <1>2. session' \in {"none", "good", "dead"}
    BY <1>1 DEF TypeOK, DialSucceeds, DialFails, Inbound, SessionBreaks, SessionEnds
  <1>3. \/ entry' = entry
        \/ /\ entry' \in Entry /\ entry' # None /\ entry'.last = 0
           /\ entry # None => entry'.ts = entry.ts
    BY <1>1, RefreshOK DEF TypeOK, DialSucceeds, DialFails, Inbound, SessionBreaks, SessionEnds
  <1>4. TakenOK'
    BY <1>1, <1>3 DEF TakenOK
  <1>5. HeardOK'
    <2>1. missed \in Nat /\ wait \in 0 .. AnnounceEvery /\ AnnounceEvery \in Nat
      BY <1>1, EnoughFits, TimingAssumption DEF TypeOK
    <2>2. /\ missed * AnnounceEvery \in Nat
          /\ (missed + 1) * AnnounceEvery = missed * AnnounceEvery + AnnounceEvery
      BY <2>1, Intervals
    <2>. QED  BY <1>1, <1>3, <2>1, <2>2 DEF HeardOK
  <1>. QED  BY <1>1, <1>2, <1>3, <1>4, <1>5 DEF IInv, TypeOK, NoReplayWhileKnown

\* As time passes, entry and datagrams grow old together.
LEMMA PassInv ==
    ASSUME IInv, Pass
    PROVE  IInv'
  <1>. DEFINE F(d) == [d EXCEPT !.age = @ + 1]
  <1>1. /\ TypeOK /\ replay # "here" /\ TakenOK /\ HeardOK
        /\ UNCHANGED <<phase, session, dialing, missed, replay>>
        /\ tick > 0 /\ tick' = tick - 1
        /\ phase # "down" => wait > 0
        /\ wait' = IF wait = 0 THEN 0 ELSE wait - 1
        /\ net' = {F(d) : d \in {e \in net : e.age < ClockSkew}}
    BY DEF IInv, NoReplayWhileKnown, Pass
  <1>2. /\ tick' \in 0 .. TickEvery /\ wait' \in 0 .. AnnounceEvery
        /\ phase # "down" => wait' = wait - 1
    BY <1>1, TimingAssumption DEF TypeOK
  <1>3. ASSUME NEW d \in Datagram, d.age < ClockSkew
        PROVE  F(d) \in Datagram /\ F(d).age = d.age + 1 /\ F(d).taken = d.taken
    BY <1>3, TimingAssumption DEF Datagram
  <1>4. /\ entry = None => entry' = None
        /\ entry # None =>
              /\ entry' \in Entry /\ entry' # None
              /\ entry'.last <= entry.last + 1 /\ entry'.ts <= entry.ts + 1
    <2>1. CASE entry = None
      BY <2>1 DEF Pass
    <2>2. CASE entry # None
      <3>1. entry \in Entry
        BY <2>2, <1>1 DEF TypeOK
      <3>2. entry' = [entry EXCEPT !.last = Older(@, PeerTimeout + 1), !.ts = Older(@, Never)]
        BY <2>2 DEF Pass
      <3>3. /\ Older(entry.last, PeerTimeout + 1) \in 0 .. (PeerTimeout + 1)
            /\ Older(entry.last, PeerTimeout + 1) <= entry.last + 1
            /\ Older(entry.ts, Never) \in 0 .. Never
            /\ Older(entry.ts, Never) <= entry.ts + 1
        BY <3>1, TimingAssumption DEF Entry, Never, Older, Least
      <3>4. /\ entry' \in Entry
            /\ entry'.last = Older(entry.last, PeerTimeout + 1)
            /\ entry'.ts = Older(entry.ts, Never)
        BY <3>1, <3>2, <3>3 DEF Entry
      <3>. QED  BY <2>2, <3>3, <3>4, NoneAssumption
    <2>. QED  BY <2>1, <2>2
  <1>. HIDE DEF F
  <1>5. net \subseteq Datagram /\ net' \subseteq Datagram
    BY <1>1, <1>3 DEF TypeOK
  <1>6. TakenOK'
    <2>. SUFFICES ASSUME NEW e \in net', e.taken = "here"
         PROVE  entry' # None /\ entry'.ts <= e.age
      BY DEF TakenOK
    <2>1. PICK d \in net : d.age < ClockSkew /\ e = F(d)
      BY <1>1
    <2>2. d \in Datagram /\ e.age = d.age + 1 /\ d.taken = "here"
      BY <2>1, <1>3, <1>5
    <2>3. entry # None /\ entry.ts <= d.age /\ entry \in Entry
      BY <2>2, <1>1 DEF TakenOK, TypeOK
    <2>4. d.age \in Nat /\ entry.ts \in Nat /\ entry'.ts \in Nat
      BY <2>2, <2>3, <1>4, TimingAssumption DEF Datagram, Entry, Never
    <2>. QED  BY <2>2, <2>3, <2>4, <1>4
  <1>7. HeardOK'
    <2>. SUFFICES ASSUME missed < Enough, entry' # None
         PROVE  entry'.last + wait' <= (missed + 1) * AnnounceEvery
      BY <1>1 DEF HeardOK
    <2>1. entry # None /\ phase = "up" /\ entry.last + wait <= (missed + 1) * AnnounceEvery
      BY <1>1, <1>4 DEF HeardOK
    <2>2. /\ entry.last \in Nat /\ entry'.last \in Nat /\ wait \in Nat /\ wait' \in Nat
          /\ missed \in Nat
      BY <2>1, <1>1, <1>2, <1>4, EnoughFits, TimingAssumption DEF TypeOK, Entry
    <2>3. (missed + 1) * AnnounceEvery \in Nat
      BY <2>2, Intervals
    <2>. QED  BY <2>1, <2>2, <2>3, <1>2, <1>4
  <1>8. entry' \in Entry \cup {None}
    BY <1>4
  <1>. QED  BY <1>1, <1>2, <1>5, <1>6, <1>7, <1>8 DEF IInv, TypeOK, NoReplayWhileKnown

-----------------------------------------------------------------------------
(* The theorems.                                                           *)

LEMMA NextInv == IInv /\ [Next]_vars => IInv'
  <1>. SUFFICES ASSUME IInv, [Next]_vars PROVE IInv'
    OBVIOUS
  <1>1. CASE Deliver
    BY <1>1, onAnnounceInv, handleByeInv DEF Deliver
  <1>2. CASE UNCHANGED vars
    BY <1>2 DEF vars, IInv, TypeOK, NoReplayWhileKnown, TakenOK, HeardOK
  <1>. QED  BY <1>1, <1>2, PeerStep, SessionStep, MaintainInv, PassInv DEF Next

THEOREM DiscoveryInvariant == Spec => []IInv
  <1>. QED  BY InitInv, NextInv, PTL DEF Spec

\* Every variable keeps its type.
THEOREM DiscoveryTypes == Spec => []TypeOK
  <1>1. IInv => TypeOK
    BY DEF IInv
  <1>. QED  BY <1>1, DiscoveryInvariant, PTL

\* While a peer is in the table, no announce of it is accepted twice, however the
\* intervals are chosen and whatever the network doubles or delays.
THEOREM NeverReplayedWhileKnown == Spec => []NoReplayWhileKnown
  <1>1. IInv => NoReplayWhileKnown
    BY DEF IInv
  <1>. QED  BY <1>1, DiscoveryInvariant, PTL

\* The maintenance loop drops no peer that runs, unless as many announces were
\* lost as fit into the timeout.
THEOREM NeverFalselyDown == Spec => NoFalseDown
  <1>1. ASSUME IInv, [Next]_vars, tick = 0, tick' # 0, entry # None, entry' = None
        PROVE  missed = Enough
    <2>1. Maintain
      <3>1. ASSUME Deliver PROVE tick' = tick
        BY <3>1 DEF Deliver, onAnnounce, handleBye
      <3>2. TypeOK
        BY <1>1 DEF IInv
      <3>. QED  BY <1>1, <3>1, <3>2 DEF Next, vars, Start, SendAnnounce, SendBye, CloseAllConns,
                Exit, DialSucceeds, DialFails, Inbound, SessionBreaks, SessionEnds, Pass, TypeOK
    <2>2. Stale
      BY <1>1, <2>1 DEF Maintain
    <2>3. /\ missed \in 0 .. Enough /\ wait \in 0 .. AnnounceEvery
          /\ entry \in Entry /\ entry.last > PeerTimeout
      BY <1>1, <2>2 DEF IInv, TypeOK, Stale
    <2>4. missed \in Nat /\ wait \in Nat /\ entry.last \in Nat /\ PeerTimeout \in Nat
          /\ Enough \in Nat
      BY <2>3, EnoughFits, TimingAssumption DEF Entry
    <2>. SUFFICES ASSUME missed < Enough PROVE FALSE
      BY <2>3, <2>4
    <2>5. entry.last + wait <= (missed + 1) * AnnounceEvery
      BY <1>1 DEF IInv, HeardOK
    <2>6. (missed + 1) * AnnounceEvery \in Nat /\ (missed + 1) * AnnounceEvery <= PeerTimeout
      BY <2>4, Intervals
    <2>. QED  BY <2>3, <2>4, <2>5, <2>6
  <1>2. ASSUME IInv, [Next]_vars
        PROVE  [tick = 0 /\ tick' # 0 /\ entry # None /\ entry' = None => missed = Enough]_vars
    BY <1>1, <1>2
  <1>. QED  BY <1>2, DiscoveryInvariant, PTL DEF Spec, NoFalseDown
=============================================================================
