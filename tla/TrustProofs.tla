---------------------------- MODULE TrustProofs ----------------------------
(***************************************************************************)
(* Proofs about Trust, for any number of keys, names, handlers and faults: *)
(* its types, the marks of the operator, and the badge of a newcomer.      *)
(*                                                                         *)
(* A mark can get lost on disk only, so the invariant for it compares the  *)
(* file with the store. For the badge it says where the one of two         *)
(* namesakes that is looked at last finds the other: an entry created by   *)
(* an announce is in the store, or its announce has yet to ask the store.  *)
(***************************************************************************)
EXTENDS Trust, TLAPS

Step == [pc : {"idle", "announce", "flag", "hello", "record"},
         key : Key \cup {None}, nick : Nick \cup {None},
         isNew : BOOLEAN, here : BOOLEAN]

\* A handler that runs has a key and a name the key has come under; what it holds
\* to be in the table is there.
JobOK(j) ==
    /\ job[j].pc # "idle" =>
          job[j].key \in Key /\ job[j].nick \in Nick /\ job[j].nick \in names[job[j].key]
    /\ job[j].here =>
          /\ job[j].pc \in {"announce", "flag"}
          /\ peers[job[j].key] # None

\* A name that is kept, in memory, on disk or in the table, is one the key has
\* come under.
KeptOK(k) ==
    /\ nick[k] # None => nick[k] \in names[k]
    /\ file.nick[k] # None => file.nick[k] \in names[k]
    /\ peers[k] # None => peers[k].nick \in names[k]

MarksOK ==
    /\ \A k \in file.verified : file.nick[k] # None
    /\ ~unsaved => file = [nick |-> nick, verified |-> verified]
    /\ VerifiedAsMarked

\* The announce that created k's entry has not asked the store yet.
Asks(k, j) == job[j].pc = "announce" /\ job[j].key = k /\ job[j].isNew /\ job[j].here
\* It has, and is about to flag the entry.
Flags(k, j) == job[j].pc = "flag" /\ job[j].key = k /\ job[j].here

Seen(k) == peers[k] # None /\ peers[k].announced
Pinned(k) == Seen(k) => nick[k] # None \/ \E j \in Job : Asks(k, j)

Badged(k) == peers[k].flagged \/ \E j \in Job : Asks(k, j) \/ Flags(k, j)
PairOK(k, l) == k # l /\ Seen(k) /\ Seen(l) /\ Namesakes(k, l) => Badged(k) \/ Badged(l)

JobsOK == \A j \in Job : JobOK(j)
NamesOK == \A k \in Key : KeptOK(k) /\ Pinned(k)
PairsOK == \A k, l \in Key : PairOK(k, l)

IInv == TypeOK /\ JobsOK /\ NamesOK /\ MarksOK /\ PairsOK

-----------------------------------------------------------------------------
(* The store, however its last write went.                                 *)

\* A write keeps the types, and puts nothing on disk that was not there or in
\* the store.
LEMMA SaveOK ==
    ASSUME IInv, save,
           nick' \in [Key -> Nick \cup {None}], verified' \in SUBSET Key,
           names' = names,
           \A k \in verified' : nick'[k] # None,
           \A k \in Key : nick'[k] # None => nick'[k] \in names[k]
    PROVE  /\ file' \in Pins /\ unsaved' \in BOOLEAN /\ faults' \in 0 .. MaxFaults
           /\ \A k \in file.verified' : file.nick'[k] # None
           /\ \A k \in Key : file.nick'[k] # None => file.nick'[k] \in names[k]
           /\ ~unsaved' => file' = [nick |-> nick', verified |-> verified']
  <1>. DEFINE New == [nick |-> nick', verified |-> verified']
  <1>1. /\ file \in Pins /\ faults \in 0 .. MaxFaults
        /\ \A k \in file.verified : file.nick[k] # None
        /\ \A k \in Key : file.nick[k] # None => file.nick[k] \in names[k]
    BY DEF IInv, TypeOK, MarksOK, NamesOK, KeptOK
  <1>2. CASE file' = New /\ unsaved' = FALSE /\ UNCHANGED faults
    BY <1>1, <1>2 DEF Pins
  <1>3. CASE Fault /\ file' \in {file, NoPins} /\ unsaved' = TRUE
    <2>1. faults' \in 0 .. MaxFaults
      BY <1>1, <1>3, BoundAssumption DEF Fault
    <2>2. CASE file' = file
      BY <1>1, <1>3, <2>1, <2>2
    <2>3. CASE file' = NoPins
      BY <1>1, <1>3, <2>1, <2>3 DEF NoPins, Pins
    <2>. QED  BY <1>3, <2>2, <2>3
  <1>. QED  BY <1>2, <1>3 DEF save

LEMMA InitInv == Init => IInv
  <1>. SUFFICES ASSUME Init PROVE IInv
    OBVIOUS
  <1>1. TypeOK
    <2>1. NoPins \in Pins /\ [nick |-> nick, verified |-> verified] \in Pins
      BY DEF Init, Pins, NoPins
    <2>2. Idle \in Step
      BY DEF Idle, Step
    <2>3. peers \in [Key -> Peer \cup {None}] /\ names \in [Key -> SUBSET Nick]
      BY DEF Init
    <2>4. job \in [Job -> Step]
      BY <2>2 DEF Init
    <2>5. unsaved = FALSE /\ damaged = FALSE /\ verified = {} /\ marked = {} /\ faults = 0
          /\ file = NoPins
      BY DEF Init
    <2>6. unsaved \in BOOLEAN /\ damaged \in BOOLEAN
      BY <2>5, Zenon
    <2>7. faults \in 0 .. MaxFaults
      BY <2>5, BoundAssumption
    <2>8. \A k \in verified : nick[k] # None
      BY <2>5
    <2>9. marked \subseteq Key /\ file \in Pins
      BY <2>1, <2>5
    <2>. QED  BY <2>1, <2>3, <2>4, <2>6, <2>7, <2>8, <2>9 DEF TypeOK, Step
  <1>2. JobsOK /\ NamesOK
    BY DEF Init, JobsOK, JobOK, NamesOK, KeptOK, Pinned, Seen, NoPins, Idle
  <1>3. MarksOK
    BY DEF Init, MarksOK, VerifiedAsMarked, NoPins
  <1>4. PairsOK
    BY DEF Init, PairsOK, PairOK, Seen
  <1>. QED  BY <1>1, <1>2, <1>3, <1>4 DEF IInv

-----------------------------------------------------------------------------
(* Announces.                                                              *)

LEMMA onAnnounceInv ==
    ASSUME IInv, NEW j \in Job, NEW k \in Key, NEW x \in Nick, onAnnounce(j, k, x)
    PROVE  IInv'
  <1>. DEFINE J == [pc |-> "announce", key |-> k, nick |-> x,
                    isNew |-> peers[k] = None, here |-> TRUE]
  <1>1. /\ TypeOK /\ JobsOK /\ NamesOK /\ MarksOK /\ PairsOK
        /\ job[j] = Idle
        /\ UNCHANGED <<nick, verified, file, unsaved, marked, damaged, faults>>
    BY DEF IInv, onAnnounce, storeVars
  <1>2. Filed(k, x, TRUE) \in Peer /\ Filed(k, x, TRUE).nick = x
    BY <1>1, NoneAssumption DEF TypeOK, Filed, Peer
  <1>3. /\ peers' \in [Key -> Peer \cup {None}]
        /\ peers'[k] = Filed(k, x, TRUE) /\ peers'[k] # None
        /\ \A l \in Key \ {k} : peers'[l] = peers[l]
        /\ peers[k] # None =>
              /\ peers'[k].flagged = peers[k].flagged
              /\ peers'[k].announced = peers[k].announced
    BY <1>1, <1>2, NoneAssumption DEF TypeOK, onAnnounce, Filed, Peer
  <1>4. /\ job' \in [Job -> Step]
        /\ job'[j] = J /\ \A i \in Job \ {j} : job'[i] = job[i]
    BY <1>1 DEF TypeOK, onAnnounce, Step
  <1>. /\ J.pc = "announce" /\ J.key = k /\ J.nick = x
       /\ J.here /\ (peers[k] = None => J.isNew)
    BY Zenon
  <1>. HIDE DEF J
  <1>5. /\ names' \in [Key -> SUBSET Nick]
        /\ names'[k] = names[k] \cup {x}
        /\ \A l \in Key \ {k} : names'[l] = names[l]
    BY <1>1 DEF TypeOK, onAnnounce, Comes
  <1>6. TypeOK'
    BY <1>1, <1>3, <1>4, <1>5 DEF TypeOK, Step, storeVars
  <1>. \A l \in Key : names[l] \subseteq names'[l] /\ (peers[l] # None => peers'[l] # None)
    BY <1>3, <1>5
  <1>7. JobsOK'
    <2>. SUFFICES ASSUME NEW i \in Job PROVE JobOK(i)'
      BY DEF JobsOK
    <2>1. CASE i = j
      BY <2>1, <1>3, <1>4, <1>5 DEF JobOK
    <2>2. CASE i # j
      <3>1. JobOK(i) /\ job'[i] = job[i]
        BY <2>2, <1>1, <1>4 DEF JobsOK
      <3>2. job'[i].pc # "idle" =>
               job'[i].key \in Key /\ job'[i].nick \in Nick /\ job'[i].nick \in names'[job'[i].key]
        BY <3>1 DEF JobOK
      <3>3. job'[i].here => job'[i].pc \in {"announce", "flag"}
        BY <3>1 DEF JobOK
      <3>4. job'[i].here => peers'[job'[i].key] # None
        BY <3>1, <3>2, <3>3 DEF JobOK
      <3>. QED  BY <3>2, <3>3, <3>4 DEF JobOK
    <2>. QED  BY <2>1, <2>2
  <1>8. ASSUME NEW l \in Key, NEW i \in Job
        PROVE  /\ Asks(l, i) => Asks(l, i)'
               /\ Flags(l, i) => Flags(l, i)'
    BY <1>1, <1>4 DEF Asks, Flags, Idle
  <1>9. peers[k] = None => Asks(k, j)'
    BY <1>4 DEF Asks
  <1>10. NamesOK'
    <2>. SUFFICES ASSUME NEW l \in Key PROVE KeptOK(l)' /\ Pinned(l)'
      BY DEF NamesOK
    <2>1. KeptOK(l) /\ Pinned(l)
      BY <1>1 DEF NamesOK
    <2>2. KeptOK(l)'
      <3>1. peers'[l] # None => peers'[l].nick \in names'[l]
        <4>1. CASE l = k
          BY <4>1, <1>2, <1>3, <1>5
        <4>2. CASE l # k
          BY <4>2, <2>1, <1>3, <1>5 DEF KeptOK
        <4>. QED  BY <4>1, <4>2
      <3>. QED  BY <3>1, <2>1, <1>1 DEF KeptOK
    <2>3. Pinned(l)'
      BY <2>1, <1>1, <1>3, <1>8, <1>9 DEF Pinned, Seen, storeVars
    <2>. QED  BY <2>2, <2>3
  <1>11. MarksOK'
    BY <1>1 DEF MarksOK, VerifiedAsMarked, storeVars
  <1>12. ASSUME NEW l \in Key, Badged(l), peers[l] # None PROVE Badged(l)'
    <2>1. peers'[l].flagged = peers[l].flagged
      BY <1>3, <1>12
    <2>. QED  BY <2>1, <1>12, <1>8 DEF Badged
  <1>13. PairsOK'
    <2>. SUFFICES ASSUME NEW a \in Key, NEW b \in Key, PairOK(a, b), a # b,
                         Seen(a)', Seen(b)', Namesakes(a, b)'
         PROVE  Badged(a)' \/ Badged(b)'
      BY <1>1 DEF PairsOK, PairOK
    <2>1. CASE peers[k] = None /\ (a = k \/ b = k)
      BY <2>1, <1>9 DEF Badged
    <2>2. CASE ~(peers[k] = None /\ (a = k \/ b = k))
      <3>1. Seen(a) /\ Seen(b)
        BY <2>2, <1>3 DEF Seen
      <3>2. Namesakes(a, b)
        <4>1. names[a] # {} /\ names[b] # {}
          BY <3>1, <1>1 DEF Seen, NamesOK, KeptOK
        <4>. QED  BY <4>1, <1>5 DEF Namesakes
      <3>. QED  BY <3>1, <3>2, <1>12 DEF PairOK, Seen
    <2>. QED  BY <2>1, <2>2
  <1>. QED  BY <1>6, <1>7, <1>10, <1>11, <1>13 DEF IInv

-----------------------------------------------------------------------------
(* Steps that create no entry by an announce and ask the store for none.   *)

\* If such a step loses no name, no announce that asks and no badge of an entry
\* that stays, namesakes keep what they have.
LEMMA QuietStep ==
    ASSUME IInv,
           \A k \in Key : KeptOK(k)',
           \A k \in Key : names[k] \subseteq names'[k],
           \A k \in Key : nick[k] # None => nick'[k] # None,
           \A k \in Key : Seen(k)' => Seen(k) /\ (Badged(k) => Badged(k)'),
           \A k \in Key, j \in Job : Seen(k)' /\ Asks(k, j) => Asks(k, j)'
    PROVE  NamesOK' /\ PairsOK'
  <1>1. NamesOK /\ PairsOK /\ names \in [Key -> SUBSET Nick]
    BY DEF IInv, TypeOK
  <1>2. NamesOK'
    <2>. SUFFICES ASSUME NEW k \in Key PROVE Pinned(k)'
      BY DEF NamesOK
    <2>. QED  BY <1>1 DEF NamesOK, Pinned
  <1>3. PairsOK'
    <2>. SUFFICES ASSUME NEW a \in Key, NEW b \in Key, a # b,
                         Seen(a)', Seen(b)', Namesakes(a, b)'
         PROVE  Badged(a)' \/ Badged(b)'
      BY DEF PairsOK, PairOK
    <2>1. names[a] # {} /\ names[b] # {}
      BY <1>1 DEF Seen, NamesOK, KeptOK
    <2>2. Namesakes(a, b)
      BY <2>1 DEF Namesakes
    <2>3. Badged(a) \/ Badged(b)
      BY <1>1, <2>2 DEF PairsOK, PairOK
    <2>. QED  BY <2>3
  <1>. QED  BY <1>2, <1>3

LEMMA handshakeInv ==
    ASSUME IInv, NEW j \in Job, NEW k \in Key, NEW x \in Nick, handshake(j, k, x)
    PROVE  IInv'
  <1>. DEFINE J == [Idle EXCEPT !.pc = "hello", !.key = k, !.nick = x]
  <1>1. /\ TypeOK /\ JobsOK /\ NamesOK /\ MarksOK /\ PairsOK
        /\ job[j] = Idle
        /\ UNCHANGED <<nick, verified, file, unsaved, peers, marked, damaged, faults>>
    BY DEF IInv, handshake, storeVars
  <1>2. J \in Step /\ J.pc = "hello" /\ J.key = k /\ J.nick = x /\ ~J.here
    BY DEF Idle, Step
  <1>3. /\ job' \in [Job -> Step]
        /\ job'[j] = J /\ \A i \in Job \ {j} : job'[i] = job[i]
    BY <1>1, <1>2 DEF TypeOK, handshake, Step
  <1>. HIDE DEF J
  <1>4. /\ names' \in [Key -> SUBSET Nick]
        /\ names'[k] = names[k] \cup {x}
        /\ \A l \in Key : names[l] \subseteq names'[l]
    BY <1>1 DEF TypeOK, handshake, Comes
  <1>5. TypeOK'
    BY <1>1, <1>3, <1>4 DEF TypeOK, Step
  <1>6. JobsOK'
    <2>. SUFFICES ASSUME NEW i \in Job PROVE JobOK(i)'
      BY DEF JobsOK
    <2>1. CASE i = j
      BY <2>1, <1>2, <1>3, <1>4 DEF JobOK
    <2>2. CASE i # j
      BY <2>2, <1>1, <1>3, <1>4 DEF JobsOK, JobOK
    <2>. QED  BY <2>1, <2>2
  <1>7. ASSUME NEW l \in Key PROVE KeptOK(l)'
    <2>1. KeptOK(l)
      BY <1>1 DEF NamesOK
    <2>. QED  BY <2>1, <1>1, <1>4 DEF KeptOK
  <1>8. MarksOK'
    BY <1>1 DEF MarksOK, VerifiedAsMarked
  <1>9. ASSUME NEW l \in Key, NEW i \in Job
        PROVE  (Asks(l, i) => Asks(l, i)') /\ (Flags(l, i) => Flags(l, i)')
    BY <1>1, <1>3 DEF Asks, Flags, Idle
  <1>10. ASSUME NEW l \in Key
         PROVE  (Seen(l)' => Seen(l)) /\ (Badged(l) => Badged(l)')
    BY <1>1, <1>9 DEF Seen, Badged
  <1>11. NamesOK' /\ PairsOK'
    BY <1>1, <1>4, <1>7, <1>9, <1>10, QuietStep
  <1>. QED  BY <1>5, <1>6, <1>8, <1>11 DEF IInv

LEMMA RecordHelloInv ==
    ASSUME IInv, NEW j \in Job, RecordHello(j)
    PROVE  IInv'
  <1>. DEFINE k == job[j].key
              x == job[j].nick
  <1>1. /\ TypeOK /\ JobsOK /\ NamesOK /\ MarksOK /\ PairsOK
        /\ job[j].pc = "record"
        /\ UNCHANGED <<nick, verified, file, unsaved, names, marked, damaged, faults>>
    BY DEF IInv, RecordHello, storeVars
  <1>2. k \in Key /\ x \in Nick /\ x \in names[k]
    BY <1>1 DEF JobsOK, JobOK
  <1>3. /\ Filed(k, x, FALSE) \in Peer /\ Filed(k, x, FALSE).nick = x
        /\ peers[k] = None => ~Filed(k, x, FALSE).announced
    BY <1>1, <1>2, NoneAssumption DEF TypeOK, Filed, Peer
  <1>4. /\ peers' \in [Key -> Peer \cup {None}]
        /\ peers'[k] = Filed(k, x, FALSE) /\ peers'[k] # None
        /\ \A l \in Key \ {k} : peers'[l] = peers[l]
        /\ peers[k] # None =>
              /\ peers'[k].flagged = peers[k].flagged
              /\ peers'[k].announced = peers[k].announced
    BY <1>1, <1>2, <1>3, NoneAssumption DEF TypeOK, RecordHello, Filed, Peer
  <1>5. /\ job' \in [Job -> Step]
        /\ job'[j] = Idle /\ \A i \in Job \ {j} : job'[i] = job[i]
    <2>1. job \in [Job -> Step] /\ job' = [job EXCEPT ![j] = Idle]
      BY <1>1 DEF TypeOK, RecordHello, Step
    <2>2. Idle \in Step
      BY DEF Step, Idle
    <2>. QED  BY <2>1, <2>2
  <1>. HIDE DEF k, x
  <1>6. TypeOK'
    BY <1>1, <1>4, <1>5 DEF TypeOK, Step
  <1>7. JobsOK'
    <2>. SUFFICES ASSUME NEW i \in Job PROVE JobOK(i)'
      BY DEF JobsOK
    <2>1. CASE i = j
      BY <2>1, <1>5 DEF JobOK, Idle
    <2>2. CASE i # j
      BY <2>2, <1>1, <1>4, <1>5 DEF JobsOK, JobOK
    <2>. QED  BY <2>1, <2>2
  <1>8. ASSUME NEW l \in Key PROVE KeptOK(l)'
    <2>1. KeptOK(l)
      BY <1>1 DEF NamesOK
    <2>2. CASE l = k
      BY <2>1, <2>2, <1>1, <1>2, <1>3, <1>4 DEF KeptOK
    <2>3. CASE l # k
      BY <2>1, <2>3, <1>1, <1>4 DEF KeptOK
    <2>. QED  BY <2>2, <2>3
  <1>9. MarksOK'
    BY <1>1 DEF MarksOK, VerifiedAsMarked
  <1>10. ASSUME NEW l \in Key, NEW i \in Job
         PROVE  (Asks(l, i) => Asks(l, i)') /\ (Flags(l, i) => Flags(l, i)')
    BY <1>1, <1>5 DEF Asks, Flags
  <1>11. ASSUME NEW l \in Key, Seen(l)'
         PROVE  Seen(l) /\ (Badged(l) => Badged(l)')
    <2>1. Seen(l) /\ peers'[l].flagged = peers[l].flagged
      BY <1>2, <1>3, <1>4, <1>11 DEF Seen
    <2>. QED  BY <2>1, <1>10 DEF Badged
  <1>12. NamesOK' /\ PairsOK'
    BY <1>1, <1>8, <1>10, <1>11, QuietStep
  <1>. QED  BY <1>6, <1>7, <1>9, <1>12 DEF IInv

LEMMA flagInv ==
    ASSUME IInv, NEW j \in Job, flag(j)
    PROVE  IInv'
  <1>. DEFINE k == job[j].key
  <1>1. /\ TypeOK /\ JobsOK /\ NamesOK /\ MarksOK /\ PairsOK
        /\ job[j].pc = "flag"
        /\ UNCHANGED <<nick, verified, file, unsaved, names, marked, damaged, faults>>
    BY DEF IInv, flag, storeVars
  <1>2. k \in Key /\ (job[j].here => peers[k] \in Peer)
    BY <1>1 DEF JobsOK, JobOK, TypeOK
  <1>3. /\ peers' \in [Key -> Peer \cup {None}]
        /\ \A l \in Key : peers[l] = None <=> peers'[l] = None
        /\ \A l \in Key : peers[l] # None =>
              /\ peers'[l].nick = peers[l].nick
              /\ peers'[l].announced = peers[l].announced
              /\ peers[l].flagged => peers'[l].flagged
        /\ job[j].here => peers'[k].flagged
    <2>1. CASE job[j].here
      <3>1. [peers[k] EXCEPT !.flagged = TRUE] \in Peer
        BY <1>2, <2>1 DEF Peer
      <3>2. /\ peers' = [peers EXCEPT ![k] = [peers[k] EXCEPT !.flagged = TRUE]]
            /\ peers[k] # None /\ [peers[k] EXCEPT !.flagged = TRUE] # None
        BY <1>2, <2>1, <3>1, NoneAssumption DEF flag
      <3>. QED  BY <1>1, <1>2, <2>1, <3>1, <3>2 DEF TypeOK, Peer
    <2>2. CASE ~job[j].here
      BY <1>1, <2>2 DEF TypeOK, flag
    <2>. QED  BY <2>1, <2>2
  <1>4. /\ job' \in [Job -> Step]
        /\ job'[j] = Idle /\ \A i \in Job \ {j} : job'[i] = job[i]
    BY <1>1 DEF TypeOK, flag, Step, Idle
  <1>5. TypeOK'
    BY <1>1, <1>3, <1>4 DEF TypeOK, Step
  <1>6. JobsOK'
    <2>. SUFFICES ASSUME NEW i \in Job PROVE JobOK(i)'
      BY DEF JobsOK
    <2>1. CASE i = j
      BY <2>1, <1>4 DEF JobOK, Idle
    <2>2. CASE i # j
      BY <2>2, <1>1, <1>3, <1>4 DEF JobsOK, JobOK
    <2>. QED  BY <2>1, <2>2
  <1>7. ASSUME NEW l \in Key PROVE KeptOK(l)'
    BY <1>1, <1>3 DEF NamesOK, KeptOK
  <1>8. MarksOK'
    BY <1>1 DEF MarksOK, VerifiedAsMarked
  <1>9. ASSUME NEW l \in Key, NEW i \in Job
        PROVE  (Asks(l, i) => Asks(l, i)') /\ (Flags(l, i) /\ i # j => Flags(l, i)')
    BY <1>1, <1>4 DEF Asks, Flags
  <1>10. ASSUME NEW l \in Key, Seen(l)'
         PROVE  Seen(l) /\ (Badged(l) => Badged(l)')
    <2>1. Seen(l)
      BY <1>3, <1>10 DEF Seen
    <2>2. Flags(l, j) => peers'[l].flagged
      BY <1>3 DEF Flags
    <2>3. peers[l].flagged => peers'[l].flagged
      BY <2>1, <1>3 DEF Seen
    <2>. QED  BY <2>1, <2>2, <2>3, <1>9 DEF Badged
  <1>11. NamesOK' /\ PairsOK'
    BY <1>1, <1>7, <1>9, <1>10, QuietStep
  <1>. QED  BY <1>5, <1>6, <1>8, <1>11 DEF IInv

LEMMA ForgetInv ==
    ASSUME IInv, NEW k \in Key, Forget(k)
    PROVE  IInv'
  <1>1. /\ TypeOK /\ JobsOK /\ NamesOK /\ MarksOK /\ PairsOK
        /\ UNCHANGED <<nick, verified, file, unsaved, names, marked, damaged, faults>>
    BY DEF IInv, Forget, storeVars
  <1>2. /\ peers' \in [Key -> Peer \cup {None}] /\ peers'[k] = None
        /\ \A l \in Key \ {k} : peers'[l] = peers[l]
    BY <1>1 DEF TypeOK, Forget
  <1>3. /\ job' \in [Job -> Step]
        /\ \A j \in Job : job[j].key # k => job'[j] = job[j]
        /\ \A j \in Job : job[j].key = k => job'[j] = [job[j] EXCEPT !.here = FALSE]
    <2>1. /\ job \in [Job -> Step]
          /\ job' = [j \in Job |-> IF job[j].key = k THEN [job[j] EXCEPT !.here = FALSE] ELSE job[j]]
      BY <1>1 DEF TypeOK, Forget, Step
    <2>2. \A s \in Step : [s EXCEPT !.here = FALSE] \in Step
      BY DEF Step
    <2>. QED  BY <2>1, <2>2
  <1>4. TypeOK'
    BY <1>1, <1>2, <1>3 DEF TypeOK, Step
  <1>5. JobsOK'
    <2>. SUFFICES ASSUME NEW i \in Job PROVE JobOK(i)'
      BY DEF JobsOK
    <2>1. job[i] \in Step /\ JobOK(i)
      BY <1>1 DEF TypeOK, Step, JobsOK
    <2>2. CASE job[i].key = k
      <3>1. job'[i] = [job[i] EXCEPT !.here = FALSE]
        BY <2>2, <1>3
      <3>2. /\ job'[i].pc = job[i].pc /\ job'[i].key = job[i].key
            /\ job'[i].nick = job[i].nick /\ ~job'[i].here
        BY <2>1, <3>1 DEF Step
      <3>. QED  BY <2>1, <3>2, <1>1 DEF JobOK
    <2>3. CASE job[i].key # k
      BY <2>1, <2>3, <1>1, <1>2, <1>3 DEF JobOK
    <2>. QED  BY <2>2, <2>3
  <1>6. ASSUME NEW l \in Key PROVE KeptOK(l)'
    BY <1>1, <1>2 DEF NamesOK, KeptOK
  <1>7. MarksOK'
    BY <1>1 DEF MarksOK, VerifiedAsMarked
  <1>8. ASSUME NEW l \in Key, Seen(l)'
        PROVE  l # k /\ Seen(l) /\ peers'[l] = peers[l]
    BY <1>2, <1>8 DEF Seen
  <1>9. ASSUME NEW l \in Key \ {k}, NEW i \in Job
        PROVE  (Asks(l, i) => Asks(l, i)') /\ (Flags(l, i) => Flags(l, i)')
    BY <1>3 DEF Asks, Flags
  <1>10. NamesOK' /\ PairsOK'
    BY <1>1, <1>6, <1>8, <1>9, QuietStep DEF Badged
  <1>. QED  BY <1>4, <1>5, <1>7, <1>10 DEF IInv

\* What a restart reads may be old or nothing; nobody is listed any more.
LEMMA RestartInv ==
    ASSUME IInv, Restart
    PROVE  IInv'
  <1>1. /\ TypeOK /\ NamesOK /\ MarksOK
        /\ nick' = file.nick /\ verified' = file.verified /\ damaged' = (damaged \/ unsaved)
        /\ UNCHANGED <<file, unsaved, names, marked>>
    BY DEF IInv, Restart
  <1>2. peers' = [k \in Key |-> None] /\ job' = [j \in Job |-> Idle]
    BY DEF Restart
  <1>3. TypeOK'
    <2>1. /\ file \in Pins /\ [nick |-> nick', verified |-> verified'] \in Pins
          /\ faults' \in 0 .. MaxFaults
      BY <1>1, BoundAssumption DEF TypeOK, Pins, Restart, Fault
    <2>2. job' \in [Job -> Step] /\ peers' \in [Key -> Peer \cup {None}]
      BY <1>2 DEF Step, Idle
    <2>3. damaged' \in BOOLEAN /\ unsaved' \in BOOLEAN
      BY <1>1 DEF TypeOK
    <2>4. \A k \in verified' : nick'[k] # None
      BY <1>1 DEF MarksOK
    <2>. QED  BY <1>1, <2>1, <2>2, <2>3, <2>4 DEF TypeOK, Step
  <1>4. JobsOK'
    BY <1>2 DEF JobsOK, JobOK, Idle
  <1>5. NamesOK'
    BY <1>1, <1>2 DEF NamesOK, KeptOK, Pinned, Seen
  <1>6. MarksOK'
    <2>1. CASE unsaved
      BY <1>1, <2>1 DEF MarksOK, VerifiedAsMarked
    <2>2. CASE ~unsaved
      BY <1>1, <2>2 DEF MarksOK, VerifiedAsMarked, TypeOK, Pins
    <2>. QED  BY <2>1, <2>2
  <1>7. PairsOK'
    BY <1>2 DEF PairsOK, PairOK, Seen
  <1>. QED  BY <1>3, <1>4, <1>5, <1>6, <1>7 DEF IInv

-----------------------------------------------------------------------------
(* Steps that ask the store.                                               *)

\* What the store keeps and writes when a key comes under a name.
LEMMA ObserveOK ==
    ASSUME IInv, NEW k \in Key, NEW x \in Nick, x \in names[k], Observe(k, x),
           UNCHANGED <<peers, names, marked, damaged>>
    PROVE  /\ [nick |-> nick', verified |-> verified'] \in Pins /\ file' \in Pins
           /\ \A l \in verified' : nick'[l] # None
           /\ unsaved' \in BOOLEAN /\ faults' \in 0 .. MaxFaults
           /\ nick'[k] # None
           /\ \A l \in Key \ {k} : nick'[l] = nick[l]
           /\ \A l \in Key : KeptOK(l)'
           /\ MarksOK'
  <1>1. /\ nick \in [Key -> Nick \cup {None}] /\ verified \in SUBSET Key
        /\ \A l \in verified : nick[l] # None
        /\ \A l \in Key : KeptOK(l)
        /\ VerifiedAsMarked
    BY DEF IInv, TypeOK, Pins, NamesOK, MarksOK
  <1>2. /\ nick' = [nick EXCEPT ![k] = x] /\ verified' = verified /\ save
        /\ peers' = peers /\ names' = names /\ marked' = marked /\ damaged' = damaged
    BY DEF Observe
  <1>3. /\ nick' \in [Key -> Nick \cup {None}] /\ verified' \in SUBSET Key
        /\ nick'[k] = x /\ nick'[k] # None
        /\ \A l \in Key \ {k} : nick'[l] = nick[l]
    BY <1>1, <1>2, NoneAssumption
  <1>4. /\ \A l \in verified' : nick'[l] # None
        /\ \A l \in Key : nick'[l] # None => nick'[l] \in names[l]
    BY <1>1, <1>2, <1>3 DEF KeptOK
  <1>5. /\ file' \in Pins /\ unsaved' \in BOOLEAN /\ faults' \in 0 .. MaxFaults
        /\ \A l \in file.verified' : file.nick'[l] # None
        /\ \A l \in Key : file.nick'[l] # None => file.nick'[l] \in names[l]
        /\ ~unsaved' => file' = [nick |-> nick', verified |-> verified']
    BY <1>2, <1>3, <1>4, SaveOK
  <1>6. \A l \in Key : KeptOK(l)'
    BY <1>1, <1>2, <1>4, <1>5 DEF KeptOK
  <1>7. MarksOK'
    BY <1>1, <1>2, <1>5 DEF MarksOK, VerifiedAsMarked
  <1>8. [nick |-> nick', verified |-> verified'] \in Pins
    BY <1>3 DEF Pins
  <1>. QED  BY <1>3, <1>4, <1>5, <1>6, <1>7, <1>8

LEMMA ObserveHelloInv ==
    ASSUME IInv, NEW j \in Job, ObserveHello(j)
    PROVE  IInv'
  <1>1. /\ TypeOK /\ JobsOK /\ job[j].pc = "hello"
        /\ UNCHANGED <<peers, names, marked, damaged>>
        /\ Observe(job[j].key, job[j].nick)
    BY DEF IInv, ObserveHello
  <1>2. job[j].key \in Key /\ job[j].nick \in Nick /\ job[j].nick \in names[job[j].key]
    BY <1>1 DEF JobsOK, JobOK
  <1>3. /\ [nick |-> nick', verified |-> verified'] \in Pins /\ file' \in Pins
        /\ \A l \in verified' : nick'[l] # None
        /\ unsaved' \in BOOLEAN /\ faults' \in 0 .. MaxFaults
        /\ \A l \in Key : nick[l] # None => nick'[l] # None
        /\ \A l \in Key : KeptOK(l)'
        /\ MarksOK'
    BY <1>1, <1>2, ObserveOK
  <1>4. /\ job' \in [Job -> Step] /\ ~job[j].here
        /\ job'[j].pc = "record" /\ job'[j].key = job[j].key /\ job'[j].nick = job[j].nick
        /\ ~job'[j].here
        /\ \A i \in Job \ {j} : job'[i] = job[i]
    <2>1. job[j] \in Step /\ ~job[j].here
      BY <1>1 DEF TypeOK, Step, JobsOK, JobOK
    <2>2. /\ job' = [job EXCEPT ![j] = [job[j] EXCEPT !.pc = "record"]]
          /\ [job[j] EXCEPT !.pc = "record"] \in Step
          /\ [job[j] EXCEPT !.pc = "record"].here = job[j].here
      BY <2>1 DEF ObserveHello, Step
    <2>. QED  BY <1>1, <2>1, <2>2 DEF TypeOK, Step
  <1>5. TypeOK'
    BY <1>1, <1>3, <1>4 DEF TypeOK, Step
  <1>6. JobsOK'
    <2>. SUFFICES ASSUME NEW i \in Job PROVE JobOK(i)'
      BY DEF JobsOK
    <2>1. CASE i = j
      BY <2>1, <1>1, <1>2, <1>4 DEF JobOK
    <2>2. CASE i # j
      BY <2>2, <1>1, <1>4 DEF JobsOK, JobOK
    <2>. QED  BY <2>1, <2>2
  <1>7. ASSUME NEW l \in Key, NEW i \in Job
        PROVE  (Asks(l, i) => Asks(l, i)') /\ (Flags(l, i) => Flags(l, i)')
    BY <1>1, <1>4 DEF Asks, Flags
  <1>8. ASSUME NEW l \in Key
        PROVE  (Seen(l)' => Seen(l)) /\ (Badged(l) => Badged(l)')
    BY <1>1, <1>7 DEF Seen, Badged
  <1>9. NamesOK' /\ PairsOK'
    BY <1>1, <1>3, <1>7, <1>8, QuietStep
  <1>. QED  BY <1>3, <1>5, <1>6, <1>9 DEF IInv

LEMMA SetVerifiedInv ==
    ASSUME IInv, NEW k \in Key, NEW v \in BOOLEAN, SetVerified(k, v)
    PROVE  IInv'
  <1>1. /\ TypeOK /\ JobsOK /\ NamesOK /\ MarksOK
        /\ nick[k] # None
        /\ verified' = IF v THEN verified \cup {k} ELSE verified \ {k}
        /\ marked' = IF v THEN marked \cup {k} ELSE marked \ {k}
        /\ UNCHANGED <<nick, peers, job, names, damaged>>
        /\ save
    BY DEF IInv, SetVerified
  <1>2. /\ nick \in [Key -> Nick \cup {None}] /\ verified' \in SUBSET Key /\ marked' \in SUBSET Key
        /\ \A l \in verified' : nick'[l] # None
        /\ \A l \in Key : nick'[l] # None => nick'[l] \in names[l]
    BY <1>1 DEF TypeOK, Pins, NamesOK, KeptOK
  <1>3. /\ file' \in Pins /\ unsaved' \in BOOLEAN /\ faults' \in 0 .. MaxFaults
        /\ \A l \in file.verified' : file.nick'[l] # None
        /\ \A l \in Key : file.nick'[l] # None => file.nick'[l] \in names[l]
        /\ ~unsaved' => file' = [nick |-> nick', verified |-> verified']
    BY <1>1, <1>2, SaveOK
  <1>4. TypeOK'
    BY <1>1, <1>2, <1>3 DEF TypeOK, Pins
  <1>5. JobsOK'
    BY <1>1 DEF JobsOK, JobOK
  <1>6. ASSUME NEW l \in Key PROVE KeptOK(l)'
    BY <1>1, <1>3 DEF NamesOK, KeptOK
  <1>7. MarksOK'
    BY <1>1, <1>3 DEF MarksOK, VerifiedAsMarked
  <1>8. ASSUME NEW l \in Key, NEW i \in Job
        PROVE  (Asks(l, i) => Asks(l, i)') /\ (Flags(l, i) => Flags(l, i)')
    BY <1>1 DEF Asks, Flags
  <1>9. ASSUME NEW l \in Key
        PROVE  (Seen(l)' => Seen(l)) /\ (Badged(l) => Badged(l)')
    BY <1>1, <1>8 DEF Seen, Badged
  <1>10. NamesOK' /\ PairsOK'
    BY <1>1, <1>6, <1>8, <1>9, QuietStep
  <1>. QED  BY <1>4, <1>5, <1>7, <1>10 DEF IInv

\* Of two namesakes the one that asks last finds the other.
LEMMA ObserveAnnounceInv ==
    ASSUME IInv, NEW j \in Job, ObserveAnnounce(j)
    PROVE  IInv'
  <1>. DEFINE k == job[j].key
              x == job[j].nick
  <1>1. /\ TypeOK /\ JobsOK /\ NamesOK /\ PairsOK /\ job[j].pc = "announce"
        /\ UNCHANGED <<peers, names, marked, damaged>>
        /\ Observe(k, x)
        /\ job' = [job EXCEPT ![j] = IF job[j].isNew /\ Others(k, x) # {}
                                     THEN [@ EXCEPT !.pc = "flag"] ELSE Idle]
    BY DEF IInv, ObserveAnnounce
  <1>2. k \in Key /\ x \in Nick /\ x \in names[k] /\ job[j] \in Step /\ JobOK(j)
    BY <1>1 DEF JobsOK, JobOK, TypeOK, Step
  <1>3. /\ [nick |-> nick', verified |-> verified'] \in Pins /\ file' \in Pins
        /\ \A l \in verified' : nick'[l] # None
        /\ unsaved' \in BOOLEAN /\ faults' \in 0 .. MaxFaults
        /\ nick'[k] # None /\ \A l \in Key \ {k} : nick'[l] = nick[l]
        /\ \A l \in Key : KeptOK(l)'
        /\ MarksOK'
    BY <1>1, <1>2, ObserveOK
  <1>4. /\ job' \in [Job -> Step]
        /\ \A i \in Job \ {j} : job'[i] = job[i]
        /\ \/ job'[j] = Idle /\ ~(job[j].isNew /\ Others(k, x) # {})
           \/ /\ job'[j].pc = "flag" /\ job'[j].key = k /\ job'[j].nick = x
              /\ job'[j].here = job[j].here
    <2>1. CASE job[j].isNew /\ Others(k, x) # {}
      <3>1. /\ job' = [job EXCEPT ![j] = [job[j] EXCEPT !.pc = "flag"]]
            /\ [job[j] EXCEPT !.pc = "flag"] \in Step
            /\ [job[j] EXCEPT !.pc = "flag"].here = job[j].here
        BY <1>1, <1>2, <2>1 DEF Step
      <3>. QED  BY <1>1, <1>2, <3>1 DEF TypeOK, Step
    <2>2. CASE ~(job[j].isNew /\ Others(k, x) # {})
      <3>1. job' = [job EXCEPT ![j] = Idle] /\ Idle \in Step
        BY <1>1, <2>2 DEF Idle, Step
      <3>. QED  BY <1>1, <2>2, <3>1 DEF TypeOK, Step
    <2>. QED  BY <2>1, <2>2
  <1>5. TypeOK'
    BY <1>1, <1>3, <1>4 DEF TypeOK, Step
  <1>6. JobsOK'
    <2>. SUFFICES ASSUME NEW i \in Job PROVE JobOK(i)'
      BY DEF JobsOK
    <2>1. CASE i = j
      BY <2>1, <1>1, <1>2, <1>4 DEF JobOK, Idle
    <2>2. CASE i # j
      BY <2>2, <1>1, <1>4 DEF JobsOK, JobOK
    <2>. QED  BY <2>1, <2>2
  <1>7. ASSUME NEW l \in Key, NEW i \in Job
        PROVE  /\ Asks(l, i) /\ i # j => Asks(l, i)'
               /\ Flags(l, i) => Flags(l, i)'
               /\ Asks(l, j) => l = k /\ job[j].isNew /\ job[j].here
    BY <1>1, <1>4 DEF Asks, Flags
  <1>. HIDE DEF k, x
  <1>8. NamesOK'
    <2>. SUFFICES ASSUME NEW l \in Key PROVE Pinned(l)'
      BY <1>3 DEF NamesOK
    <2>1. CASE l = k
      BY <2>1, <1>3 DEF Pinned
    <2>2. CASE l # k
      BY <2>2, <1>1, <1>3, <1>7 DEF NamesOK, Pinned, Seen
    <2>. QED  BY <2>1, <2>2
  <1>9. ASSUME NEW a \in Key, NEW b \in Key, a # b, Seen(a), Seen(b), Namesakes(a, b), Badged(a)
        PROVE  Badged(a)' \/ Badged(b)'
    <2>1. CASE Asks(a, j)
      <3>1. a = k /\ job[j].isNew /\ job[j].here
        BY <2>1, <1>7
      <3>2. Pinned(b) /\ KeptOK(b)
        BY <1>1 DEF NamesOK
      <3>3. CASE nick[b] # None
        <4>1. nick[b] \in names[b] /\ x \in names[a]
          BY <3>1, <3>2, <3>3, <1>2 DEF KeptOK
        <4>2. b \in Others(k, x)
          BY <3>1, <4>1, <1>9 DEF Namesakes, Others
        <4>3. job'[j].pc = "flag" /\ job'[j].key = a /\ job'[j].here = job[j].here
          BY <3>1, <4>2, <1>4
        <4>4. Flags(a, j)'
          BY <3>1, <4>3 DEF Flags
        <4>. QED  BY <4>4 DEF Badged
      <3>4. CASE nick[b] = None
        <4>1. PICK i \in Job : Asks(b, i)
          BY <3>2, <3>4, <1>9 DEF Pinned
        <4>2. i # j
          BY <4>1, <2>1, <1>9 DEF Asks
        <4>3. Asks(b, i)'
          BY <4>1, <4>2, <1>7
        <4>. QED  BY <4>3 DEF Badged
      <3>. QED  BY <3>3, <3>4
    <2>2. CASE ~Asks(a, j)
      <3>1. ASSUME NEW i \in Job, Asks(a, i) PROVE Asks(a, i)'
        BY <2>2, <3>1, <1>7
      <3>2. peers[a].flagged => peers'[a].flagged
        BY <1>1
      <3>. QED  BY <3>1, <3>2, <1>7, <1>9 DEF Badged
    <2>. QED  BY <2>1, <2>2
  <1>10. PairsOK'
    <2>. SUFFICES ASSUME NEW a \in Key, NEW b \in Key, a # b,
                         Seen(a)', Seen(b)', Namesakes(a, b)'
         PROVE  Badged(a)' \/ Badged(b)'
      BY DEF PairsOK, PairOK
    <2>1. Seen(a) /\ Seen(b) /\ Namesakes(a, b) /\ Namesakes(b, a)
      BY <1>1 DEF Seen, Namesakes
    <2>2. Badged(a) \/ Badged(b)
      BY <2>1, <1>1 DEF PairsOK, PairOK
    <2>. QED  BY <2>1, <2>2, <1>9
  <1>. QED  BY <1>3, <1>5, <1>6, <1>8, <1>10 DEF IInv

-----------------------------------------------------------------------------
(* The theorems.                                                           *)

LEMMA NextInv == IInv /\ [Next]_vars => IInv'
  <1>. SUFFICES ASSUME IInv, [Next]_vars PROVE IInv'
    OBVIOUS
  <1>1. ASSUME NEW j \in Job, NEW k \in Key, NEW x \in Nick,
               onAnnounce(j, k, x) \/ handshake(j, k, x)
        PROVE  IInv'
    BY <1>1, onAnnounceInv, handshakeInv
  <1>2. ASSUME NEW j \in Job,
               ObserveAnnounce(j) \/ flag(j) \/ ObserveHello(j) \/ RecordHello(j)
        PROVE  IInv'
    BY <1>2, ObserveAnnounceInv, flagInv, ObserveHelloInv, RecordHelloInv
  <1>3. ASSUME NEW k \in Key, Forget(k) \/ \E v \in BOOLEAN : SetVerified(k, v)
        PROVE  IInv'
    BY <1>3, ForgetInv, SetVerifiedInv
  <1>4. CASE Restart
    BY <1>4, RestartInv
  <1>5. CASE UNCHANGED vars
    BY <1>5 DEF vars, storeVars, IInv, TypeOK, JobsOK, JobOK, NamesOK, KeptOK, Pinned, Seen,
       Asks, Flags, MarksOK, VerifiedAsMarked, PairsOK, PairOK, Namesakes, Badged
  <1>. QED  BY <1>1, <1>2, <1>3, <1>4, <1>5 DEF Next

\* The invariant that the theorems below rest on.
THEOREM TrustInvariant == Spec => []IInv
  <1>. QED  BY InitInv, NextInv, PTL DEF Spec

\* Every variable keeps its type, and only pinned keys are marked.
THEOREM TrustTypes == Spec => []TypeOK
  <1>1. IInv => TypeOK
    BY DEF IInv
  <1>. QED  BY <1>1, TrustInvariant, PTL

\* A key is shown as verified exactly if that is the operator's last word on it,
\* through renames, departures and restarts, unless a write was lost.
THEOREM MarksStay == Spec => []VerifiedAsMarked
  <1>1. IInv => VerifiedAsMarked
    BY DEF IInv, MarksOK
  <1>. QED  BY <1>1, TrustInvariant, PTL

\* Of two namesakes that their announces put into the table one has its badge once
\* every handler is done, in whatever order announces, handshakes and byes came.
THEOREM NewcomersAreBadged == Spec => []NewcomersBadged
  <1>1. ASSUME IInv PROVE NewcomersBadged
    <2>. SUFFICES ASSUME NEW k \in Key, NEW l \in Key, Listed(k, l), Settled, Namesakes(k, l),
                         peers[k].announced, peers[l].announced
         PROVE  peers[k].flagged \/ peers[l].flagged
      BY DEF NewcomersBadged
    <2>1. Badged(k) \/ Badged(l)
      BY <1>1 DEF IInv, PairsOK, PairOK, Listed, Seen
    <2>2. \A m \in Key, j \in Job : ~Asks(m, j) /\ ~Flags(m, j)
      BY DEF Settled, Idle, Asks, Flags
    <2>. QED  BY <2>1, <2>2 DEF Badged
  <1>. QED  BY <1>1, TrustInvariant, PTL
=============================================================================
