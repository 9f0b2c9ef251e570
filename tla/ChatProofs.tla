----------------------------- MODULE ChatProofs -----------------------------
(***************************************************************************)
(* Chat keeps the promise of Delivery, and its receipts belong where they  *)
(* are: proofs for every number of nodes, sessions, messages and faults.   *)
(*                                                                         *)
(* A message is on a session at one place only: not written yet, on the    *)
(* wire, being handled, or its ack on the wire; and it was given to one    *)
(* session for each receiver. The invariant says so, and what has been     *)
(* stored and counted by then.                                             *)
(***************************************************************************)
EXTENDS Chat, FiniteSetTheorems, TLAPS

Elems(s) == {s[i] : i \in 1 .. Len(s)}
Distinct(s) == \A i, j \in 1 .. Len(s) : i # j => s[i] # s[j]

Places == {"none", "ready", "live", "closing", "closed"}

\* A session has two ends; a table entry is a session of the two.
ShapeOK ==
    /\ between \in [Link -> SUBSET Node]
    /\ at \in [Link -> [Node -> Places]]
    /\ cut \in [Link -> BOOLEAN]
    /\ wire \in [Link -> [Node -> Seq(Frame)]]
    /\ busy \in [Link -> [Node -> Frame \cup {None}]]
    /\ conns \in [Node -> [Node -> Link \cup {None}]]
    /\ pending \subseteq Msg \X Link
    /\ hist \in [Node -> [Conv -> SUBSET Msg]]
    /\ marks \in [Node -> [Conv -> [Msg -> Nat]]]
    /\ log \in [Msg -> [by : Node \cup {None}, conv : Conv, via : SUBSET Link]]
    /\ copies \in [Msg -> [Node -> Nat]] /\ told \in [Msg -> [Node -> Nat]]
    /\ faults \in 0 .. MaxFaults

EndsOK ==
    /\ \A l \in Link : between[l] = {} \/ \E n, p \in Node : n # p /\ between[l] = {n, p}
    /\ \A l \in Link, n \in Node : at[l][n] # "none" <=> n \in between[l]
    /\ \A n, p \in Node : conns[n][p] # None => n # p /\ between[conns[n][p]] = {n, p}

\* Where a message went: over one session to each receiver.
ViaOK ==
    \A m \in Msg :
        /\ log[m].by = None => log[m].via = {}
        /\ \A l \in log[m].via :
              /\ log[m].by \in between[l]
              /\ log[m].conv # Room => log[m].conv \in between[l] \ {log[m].by}
        /\ \A l, k \in log[m].via : \A p \in Node \ {log[m].by} :
              p \in between[l] /\ p \in between[k] => l = k

PendingOK ==
    \A m \in Msg, l \in Link : <<m, l>> \in pending =>
        /\ l \in log[m].via
        /\ \A p \in between[l] \ {log[m].by} : copies[m][p] = 0

\* A message on the wire has not been stored, an ack on the wire not been counted.
OnWire(l, x, f) ==
    /\ l \in log[f.m].via
    /\ f.conv = Scope(log[f.m].conv)
    /\ f.t = "msg" =>
          /\ x \in between[l] \ {log[f.m].by}
          /\ copies[f.m][x] = 0
          /\ <<f.m, l>> \notin pending
    /\ f.t = "ack" =>
          /\ x = log[f.m].by
          /\ \A p \in between[l] \ {x} :
                /\ copies[f.m][p] = 1 /\ told[f.m][p] = 0
                /\ busy[l][p] # None => busy[l][p].m # f.m

WireOK ==
    \A l \in Link, x \in Node :
        Distinct(wire[l][x]) /\ \A f \in Elems(wire[l][x]) : OnWire(l, x, f)

\* A message that is handled is stored and not counted.
InHand(l, x, f) ==
    /\ f.t = "msg"
    /\ l \in log[f.m].via
    /\ f.conv = Scope(log[f.m].conv)
    /\ x \in between[l] \ {log[f.m].by}
    /\ copies[f.m][x] = 1 /\ told[f.m][x] = 0

BusyOK == \A l \in Link, x \in Node : busy[l][x] # None => InHand(l, x, busy[l][x])

CountOK ==
    \A m \in Msg, n \in Node :
        /\ copies[m][n] \in {0, 1} /\ told[m][n] \in {0, 1}
        /\ told[m][n] = 1 => copies[m][n] = 1
        /\ copies[m][n] = 1 => n # log[m].by /\ \E l \in log[m].via : n \in between[l]

Told(m) == {p \in Node : told[m][p] = 1}

MarkOK ==
    \A n \in Node, c \in Conv, m \in Msg :
        marks[n][c][m] > 0 =>
            log[m].by = n /\ log[m].conv = c /\ marks[n][c][m] <= Cardinality(Told(m))

IInv == ShapeOK /\ EndsOK /\ ViaOK /\ PendingOK /\ WireOK /\ BusyOK /\ CountOK /\ MarkOK

core == <<between, wire, pending, busy, log, copies, told>>

-----------------------------------------------------------------------------
(* Sequences without repetition, and the other end of a session.           *)

LEMMA EmptyElems == Elems(<<>>) = {} /\ Distinct(<<>>)
  BY DEF Elems, Distinct

LEMMA ElemType ==
    ASSUME NEW S, NEW s \in Seq(S), NEW f \in Elems(s)
    PROVE  f \in S
  BY DEF Elems

\* A frame is its parts.
LEMMA FrameEq ==
    ASSUME NEW f \in Frame, NEW g \in Frame, f.t = g.t, f.m = g.m, f.conv = g.conv
    PROVE  f = g
  BY DEF Frame

\* What is written is added.
LEMMA AppendElems ==
    ASSUME NEW S, NEW s \in Seq(S), NEW f \in S
    PROVE  /\ Append(s, f) \in Seq(S)
           /\ Elems(Append(s, f)) = Elems(s) \cup {f}
           /\ Distinct(s) /\ f \notin Elems(s) => Distinct(Append(s, f))
  <1>1. /\ Append(s, f) \in Seq(S) /\ Len(s) \in Nat /\ Len(Append(s, f)) = Len(s) + 1
        /\ Append(s, f)[Len(s) + 1] = f
        /\ \A i \in 1 .. Len(s) : Append(s, f)[i] = s[i]
    OBVIOUS
  <1>2. Elems(Append(s, f)) \subseteq Elems(s) \cup {f}
    BY <1>1 DEF Elems
  <1>3. f \in Elems(Append(s, f))
    <2>1. Len(s) + 1 \in 1 .. Len(Append(s, f))
      BY <1>1
    <2>. QED  BY <1>1, <2>1 DEF Elems
  <1>4. Elems(s) \subseteq Elems(Append(s, f))
    <2>. SUFFICES ASSUME NEW i \in 1 .. Len(s) PROVE s[i] \in Elems(Append(s, f))
      BY DEF Elems
    <2>1. i \in 1 .. Len(Append(s, f)) /\ Append(s, f)[i] = s[i]
      BY <1>1
    <2>. QED  BY <2>1 DEF Elems
  <1>5. ASSUME Distinct(s), f \notin Elems(s) PROVE Distinct(Append(s, f))
    <2>. SUFFICES ASSUME NEW i \in 1 .. Len(s) + 1, NEW j \in 1 .. Len(s) + 1, i # j
         PROVE  Append(s, f)[i] # Append(s, f)[j]
      BY <1>1 DEF Distinct
    <2>1. \A k \in 1 .. Len(s) : s[k] # f
      BY <1>5 DEF Elems
    <2>. QED  BY <1>1, <1>5, <2>1 DEF Distinct
  <1>. QED  BY <1>1, <1>2, <1>3, <1>4, <1>5

\* What is read is gone.
LEMMA TailElems ==
    ASSUME NEW S, NEW s \in Seq(S), s # <<>>, Distinct(s)
    PROVE  /\ Tail(s) \in Seq(S) /\ Head(s) \in S
           /\ Head(s) \in Elems(s)
           /\ Elems(Tail(s)) \subseteq Elems(s) \ {Head(s)}
           /\ Distinct(Tail(s))
  <1>1. /\ Tail(s) \in Seq(S) /\ Len(s) \in Nat \ {0} /\ Len(Tail(s)) = Len(s) - 1
        /\ Head(s) = s[1] /\ Head(s) \in S
        /\ \A i \in 1 .. Len(s) - 1 : Tail(s)[i] = s[i + 1]
    OBVIOUS
  <1>2. Head(s) \in Elems(s)
    <2>1. 1 \in 1 .. Len(s)
      BY <1>1
    <2>. QED  BY <1>1, <2>1 DEF Elems
  <1>3. ASSUME NEW i \in 1 .. Len(Tail(s))
        PROVE  /\ i + 1 \in 1 .. Len(s) /\ Tail(s)[i] = s[i + 1]
               /\ s[i + 1] # Head(s)
    BY <1>1 DEF Distinct
  <1>4. Elems(Tail(s)) \subseteq Elems(s) \ {Head(s)}
    BY <1>3 DEF Elems
  <1>5. Distinct(Tail(s))
    <2>. SUFFICES ASSUME NEW i \in 1 .. Len(Tail(s)), NEW j \in 1 .. Len(Tail(s)), i # j
         PROVE  Tail(s)[i] # Tail(s)[j]
      BY DEF Distinct
    <2>1. i + 1 \in 1 .. Len(s) /\ j + 1 \in 1 .. Len(s) /\ i + 1 # j + 1
      BY <1>1
    <2>. QED  BY <1>3, <2>1 DEF Distinct
  <1>. QED  BY <1>1, <1>2, <1>4, <1>5

\* The other end.
LEMMA PeerFacts ==
    ASSUME EndsOK, ShapeOK, NEW l \in Link, NEW n \in between[l]
    PROVE  /\ n \in Node /\ Peer(l, n) \in Node /\ Peer(l, n) # n
           /\ between[l] = {n, Peer(l, n)}
           /\ Peer(l, Peer(l, n)) = n
  <1>1. PICK a, b \in Node : a # b /\ between[l] = {a, b}
    BY DEF EndsOK
  <1>2. PICK p \in between[l] : p # n
    BY <1>1
  <1>3. Peer(l, n) \in between[l] /\ Peer(l, n) # n
    BY <1>2 DEF Peer
  <1>4. between[l] = {n, Peer(l, n)}
    BY <1>1, <1>3
  <1>5. Peer(l, Peer(l, n)) \in between[l] /\ Peer(l, Peer(l, n)) # Peer(l, n)
    BY <1>3 DEF Peer
  <1>. QED  BY <1>1, <1>3, <1>4, <1>5

\* What Write does to the wires of a session.
LEMMA WriteFacts ==
    ASSUME ShapeOK, EndsOK, NEW l \in Link, NEW n \in between[l], NEW f \in Frame,
           Write(l, n, f)
    PROVE  /\ wire' \in [Link -> [Node -> Seq(Frame)]]
           /\ \A k \in Link, x \in Node : k # l \/ x # Peer(l, n) => wire'[k][x] = wire[k][x]
           /\ Elems(wire'[l][Peer(l, n)]) \subseteq Elems(wire[l][Peer(l, n)]) \cup {f}
           /\ Distinct(wire[l][Peer(l, n)]) /\ f \notin Elems(wire[l][Peer(l, n)])
                 => Distinct(wire'[l][Peer(l, n)])
  <1>. DEFINE p == Peer(l, n)
  <1>1. p \in Node
    BY PeerFacts
  <1>2. wire[l][p] \in Seq(Frame)
    BY <1>1 DEF ShapeOK
  <1>3. CASE wire' = wire
    BY <1>1, <1>3 DEF ShapeOK
  <1>4. CASE wire' = [wire EXCEPT ![l][p] = Append(@, f)]
    <2>1. /\ Append(wire[l][p], f) \in Seq(Frame)
          /\ Elems(Append(wire[l][p], f)) = Elems(wire[l][p]) \cup {f}
          /\ Distinct(wire[l][p]) /\ f \notin Elems(wire[l][p]) => Distinct(Append(wire[l][p], f))
      BY <1>2, AppendElems
    <2>2. wire'[l][p] = Append(wire[l][p], f)
      BY <1>1, <1>4 DEF ShapeOK
    <2>3. wire' \in [Link -> [Node -> Seq(Frame)]]
      BY <1>1, <1>4, <2>1 DEF ShapeOK
    <2>4. \A k \in Link, x \in Node : k # l \/ x # p => wire'[k][x] = wire[k][x]
      BY <1>1, <1>4 DEF ShapeOK
    <2>. QED  BY <2>1, <2>2, <2>3, <2>4
  <1>. QED  BY <1>3, <1>4 DEF Write

\* What reading a frame does to them.
LEMMA ReadFacts ==
    ASSUME ShapeOK, WireOK, NEW l \in Link, NEW n \in Node, wire[l][n] # <<>>,
           wire' = [wire EXCEPT ![l][n] = Tail(@)]
    PROVE  /\ wire' \in [Link -> [Node -> Seq(Frame)]]
           /\ \A k \in Link, x \in Node : k # l \/ x # n => wire'[k][x] = wire[k][x]
           /\ Head(wire[l][n]) \in Frame /\ Head(wire[l][n]) \in Elems(wire[l][n])
           /\ Elems(wire'[l][n]) \subseteq Elems(wire[l][n]) \ {Head(wire[l][n])}
           /\ Distinct(wire'[l][n])
  <1>1. wire[l][n] \in Seq(Frame) /\ Distinct(wire[l][n])
    BY DEF ShapeOK, WireOK
  <1>2. /\ Tail(wire[l][n]) \in Seq(Frame) /\ Head(wire[l][n]) \in Frame
        /\ Head(wire[l][n]) \in Elems(wire[l][n])
        /\ Elems(Tail(wire[l][n])) \subseteq Elems(wire[l][n]) \ {Head(wire[l][n])}
        /\ Distinct(Tail(wire[l][n]))
    BY <1>1, TailElems
  <1>3. wire'[l][n] = Tail(wire[l][n])
    BY DEF ShapeOK
  <1>. QED  BY <1>2, <1>3 DEF ShapeOK

-----------------------------------------------------------------------------
(* Steps of the sessions.                                                  *)

\* A step that touches neither frames nor counts keeps what is said of them.
LEMMA QuietStep ==
    ASSUME IInv, UNCHANGED core
    PROVE  ViaOK' /\ PendingOK' /\ WireOK' /\ BusyOK' /\ CountOK'
  BY DEF IInv, core, ViaOK, PendingOK, WireOK, OnWire, BusyOK, InHand, CountOK

LEMMA InitInv == Init => IInv
  <1>. SUFFICES ASSUME Init PROVE IInv
    OBVIOUS
  <1>1. <<>> \in Seq(Frame)
    OBVIOUS
  <1>2. ShapeOK
    BY <1>1, BoundAssumption DEF Init, ShapeOK, Places, Conv
  <1>3. EndsOK
    BY DEF Init, EndsOK
  <1>4. WireOK
    BY EmptyElems DEF Init, WireOK
  <1>5. ViaOK /\ PendingOK /\ BusyOK /\ CountOK /\ MarkOK
    BY DEF Init, ViaOK, PendingOK, BusyOK, CountOK, MarkOK
  <1>. QED  BY <1>2, <1>3, <1>4, <1>5 DEF IInv

LEMMA HandshakeInv ==
    ASSUME IInv, NEW l \in Link, NEW n \in Node, NEW p \in Node, Handshake(l, n, p)
    PROVE  IInv'
  <1>. USE DEF IInv, Handshake
  <1>1. \A m \in Msg : log[m].via \subseteq Link /\ l \notin log[m].via
    BY DEF ViaOK, ShapeOK
  <1>2. ShapeOK' /\ EndsOK'
    BY DEF ShapeOK, EndsOK, Places, storeVars
  <1>3. \A k \in Link \ {l} : between'[k] = between[k]
    BY DEF ShapeOK
  <1>4. UNCHANGED <<wire, pending, busy, log, copies, told, marks>>
    BY DEF storeVars
  <1>5. \A m \in Msg : \A k \in log[m].via : between'[k] = between[k]
    BY <1>1, <1>3
  <1>6. ViaOK'
    <2>. SUFFICES ASSUME NEW m \in Msg
         PROVE  /\ log[m].by = None => log[m].via = {}
                /\ \A k \in log[m].via :
                     /\ log[m].by \in between'[k]
                     /\ log[m].conv # Room => log[m].conv \in between'[k] \ {log[m].by}
                /\ \A k, j \in log[m].via : \A x \in Node \ {log[m].by} :
                     x \in between'[k] /\ x \in between'[j] => k = j
      BY <1>4 DEF ViaOK
    <2>. QED  BY <1>5 DEF ViaOK
  <1>7. PendingOK'
    BY <1>4, <1>5 DEF PendingOK
  <1>8. CountOK'
    BY <1>4, <1>5 DEF CountOK
  <1>9. WireOK'
    <2>. SUFFICES ASSUME NEW k \in Link, NEW x \in Node, NEW f \in Elems(wire[k][x])
         PROVE  OnWire(k, x, f)'
      BY <1>4 DEF WireOK
    <2>1. OnWire(k, x, f)
      BY DEF WireOK
    <2>2. k # l
      <3>1. f \in Frame
        BY DEF ShapeOK, Elems
      <3>. QED  BY <1>1, <2>1, <3>1 DEF OnWire, Frame
    <2>. QED  BY <1>3, <1>4, <2>1, <2>2 DEF OnWire
  <1>10. BusyOK'
    <2>. SUFFICES ASSUME NEW k \in Link, NEW x \in Node, busy[k][x] # None
         PROVE  InHand(k, x, busy[k][x])'
      BY <1>4 DEF BusyOK
    <2>1. InHand(k, x, busy[k][x]) /\ busy[k][x] \in Frame
      BY DEF BusyOK, ShapeOK
    <2>2. k # l
      BY <1>1, <2>1 DEF InHand, Frame
    <2>. QED  BY <1>3, <1>4, <2>1, <2>2 DEF InHand
  <1>11. MarkOK'
    BY <1>4 DEF MarkOK, Told
  <1>. QED  BY <1>2, <1>6, <1>7, <1>8, <1>9, <1>10, <1>11

\* The two tables of a session's ends after a step of one of them.
LEMMA EndsStep ==
    ASSUME EndsOK, ShapeOK, UNCHANGED between,
           at' \in [Link -> [Node -> Places]], conns' \in [Node -> [Node -> Link \cup {None}]],
           \A k \in Link, x \in Node : \/ at'[k][x] = at[k][x]
                                      \/ (at'[k][x] # "none" /\ x \in between[k]),
           \A x, y \in Node : \/ conns'[x][y] \in {conns[x][y], None}
                              \/ x # y /\ between[conns'[x][y]] = {x, y}
    PROVE  EndsOK'
  <1>1. \A k \in Link, x \in Node : at'[k][x] # "none" <=> x \in between[k]
    BY DEF EndsOK
  <1>2. ASSUME NEW x \in Node, NEW y \in Node, conns'[x][y] # None
        PROVE  x # y /\ between[conns'[x][y]] = {x, y}
    <2>1. CASE conns'[x][y] \in {conns[x][y], None}
      <3>1. conns'[x][y] = conns[x][y] /\ conns[x][y] # None
        BY <1>2, <2>1
      <3>. QED  BY <3>1 DEF EndsOK
    <2>2. CASE x # y /\ between[conns'[x][y]] = {x, y}
      BY <2>2
    <2>. QED  BY <2>1, <2>2
  <1>. QED  BY <1>1, <1>2 DEF EndsOK

LEMMA RegisterInv ==
    ASSUME IInv, NEW l \in Link, NEW n \in Node, Register(l, n)
    PROVE  IInv'
  <1>. USE DEF IInv
  <1>. DEFINE p == Peer(l, n)
  <1>0. n \in between[l] /\ p \in Node /\ p # n /\ between[l] = {n, p}
    BY PeerFacts DEF Register
  <1>1. UNCHANGED <<between, cut, wire, pending, busy, storeVars, log, faults>>
    BY DEF Register
  <1>2. /\ at' \in [Link -> [Node -> Places]]
        /\ \A k \in Link, x \in Node : \/ at'[k][x] = at[k][x]
                                      \/ (at'[k][x] # "none" /\ x \in between[k])
        /\ conns' \in [Node -> [Node -> Link \cup {None}]]
        /\ \A x, y \in Node : \/ conns'[x][y] \in {conns[x][y], None}
                              \/ x # y /\ between[conns'[x][y]] = {x, y}
    <2>1. CASE /\ conns' = [conns EXCEPT ![n][p] = l]
               /\ at' = [k \in Link |->
                          IF k = l THEN [at[k] EXCEPT ![n] = "live"]
                          ELSE IF k = conns[n][p] THEN [at[k] EXCEPT ![n] = "closing"]
                          ELSE at[k]]
      <3>1. conns' \in [Node -> [Node -> Link \cup {None}]]
        BY <1>0, <2>1 DEF ShapeOK
      <3>2. \A x, y \in Node : conns'[x][y] = conns[x][y] \/ (x = n /\ y = p /\ conns'[x][y] = l)
        BY <1>0, <2>1 DEF ShapeOK
      <3>3. \A k \in Link : at'[k] \in [Node -> Places]
        BY <2>1 DEF ShapeOK, Places
      <3>4. at' \in [Link -> [Node -> Places]]
        BY <2>1, <3>3
      <3>5. ASSUME NEW k \in Link, NEW x \in Node
            PROVE  at'[k][x] = at[k][x] \/ (at'[k][x] # "none" /\ x \in between[k])
        <4>1. CASE k = l
          BY <1>0, <2>1, <4>1 DEF ShapeOK
        <4>2. CASE k # l /\ k = conns[n][p]
          <5>1. n \in between[k]
            BY <1>0, <4>2, NoneAssumption DEF EndsOK
          <5>. QED  BY <2>1, <4>2, <5>1 DEF ShapeOK
        <4>3. CASE k # l /\ k # conns[n][p]
          BY <2>1, <4>3
        <4>. QED  BY <4>1, <4>2, <4>3
      <3>. QED  BY <1>0, <3>1, <3>2, <3>4, <3>5
    <2>2. CASE at' = [at EXCEPT ![l][n] = "closed"] /\ conns' = conns
      BY <1>0, <2>2 DEF ShapeOK, Places
    <2>. QED  BY <2>1, <2>2 DEF Register
  <1>3. EndsOK'
    BY <1>1, <1>2, EndsStep
  <1>4. ShapeOK'
    BY <1>1, <1>2 DEF ShapeOK, storeVars
  <1>5. UNCHANGED core /\ MarkOK'
    BY <1>1 DEF core, storeVars, MarkOK, Told
  <1>. QED  BY <1>3, <1>4, <1>5, QuietStep

LEMMA ReadFailsInv ==
    ASSUME IInv, NEW l \in Link, NEW n \in Node, ReadFails(l, n)
    PROVE  IInv'
  <1>. USE DEF IInv
  <1>0. n \in between[l] /\ Peer(l, n) \in Node
    BY PeerFacts DEF ReadFails
  <1>1. UNCHANGED <<between, cut, wire, pending, busy, storeVars, log, faults>>
    BY DEF ReadFails
  <1>2. /\ at' \in [Link -> [Node -> Places]]
        /\ \A k \in Link, x \in Node : \/ at'[k][x] = at[k][x]
                                      \/ (at'[k][x] # "none" /\ x \in between[k])
    BY <1>0 DEF ReadFails, ShapeOK, Places
  <1>3. /\ conns' \in [Node -> [Node -> Link \cup {None}]]
        /\ \A x, y \in Node : conns'[x][y] \in {conns[x][y], None}
    BY <1>0 DEF ReadFails, ShapeOK
  <1>4. EndsOK'
    BY <1>1, <1>2, <1>3, EndsStep
  <1>5. ShapeOK'
    BY <1>1, <1>2, <1>3 DEF ShapeOK, storeVars
  <1>6. UNCHANGED core /\ MarkOK'
    BY <1>1 DEF core, storeVars, MarkOK, Told
  <1>. QED  BY <1>4, <1>5, <1>6, QuietStep

LEMMA CutInv ==
    ASSUME IInv, NEW l \in Link, Cut(l)
    PROVE  IInv'
  <1>. USE DEF IInv, Cut, Fault, storeVars
  <1>0. <<>> \in Seq(Frame)
    OBVIOUS
  <1>1. ShapeOK'
    BY <1>0, BoundAssumption DEF ShapeOK
  <1>2. EndsOK' /\ ViaOK' /\ PendingOK' /\ CountOK' /\ BusyOK' /\ MarkOK'
    BY DEF EndsOK, ViaOK, PendingOK, CountOK, BusyOK, InHand, MarkOK, Told
  <1>3. WireOK'
    <2>. SUFFICES ASSUME NEW k \in Link, NEW x \in Node
         PROVE  Distinct(wire'[k][x]) /\ \A f \in Elems(wire'[k][x]) : OnWire(k, x, f)'
      BY DEF WireOK
    <2>1. CASE k = l
      BY <2>1, EmptyElems DEF ShapeOK
    <2>2. CASE k # l
      BY <2>2 DEF ShapeOK, WireOK, OnWire
    <2>. QED  BY <2>1, <2>2
  <1>. QED  BY <1>1, <1>2, <1>3

-----------------------------------------------------------------------------
(* Steps of the messages.                                                  *)

LEMMA SendInv ==
    ASSUME IInv, NEW n \in Node, NEW m \in Msg, NEW conv \in Conv, Send(n, m, conv)
    PROVE  IInv'
  <1>. USE DEF IInv
  <1>. DEFINE T == Targets(n, conv)
  <1>0. /\ log[m].by = None /\ log[m].via = {}
        /\ \A l \in Link : <<m, l>> \notin pending
        /\ \A p \in Node : copies[m][p] = 0
        /\ \A p \in Node, c \in Conv : marks[p][c][m] = 0
    <2>1. log[m].by = None /\ log[m].via = {}
      BY DEF Send, Sent, ViaOK
    <2>2. \A l \in Link : <<m, l>> \notin pending
      BY <2>1 DEF PendingOK
    <2>3. \A p \in Node : copies[m][p] = 0
      BY <2>1 DEF CountOK
    <2>4. \A p \in Node, c \in Conv : marks[p][c][m] = 0
      <3>. SUFFICES ASSUME NEW p \in Node, NEW c \in Conv PROVE marks[p][c][m] = 0
        OBVIOUS
      <3>1. ~(marks[p][c][m] > 0)
        BY <2>1, NoneAssumption DEF MarkOK
      <3>2. marks[p][c][m] \in Nat
        BY DEF ShapeOK
      <3>. QED  BY <3>1, <3>2
    <2>. QED  BY <2>1, <2>2, <2>3, <2>4
  <1>1. T \subseteq Link
    BY DEF ShapeOK, Targets, Conv
  <1>2. /\ log'[m].by = n /\ log'[m].conv = conv /\ log'[m].via = T
        /\ \A k \in Msg \ {m} : log'[k] = log[k]
        /\ log' \in [Msg -> [by : Node \cup {None}, conv : Conv, via : SUBSET Link]]
    BY <1>1 DEF ShapeOK, Send
  <1>3. UNCHANGED <<linkVars, wire, conns, busy, marks, copies, told, faults>>
    BY DEF Send
  <1>4. ShapeOK'
    <2>1. pending' \subseteq Msg \X Link
      BY <1>1 DEF ShapeOK, Send
    <2>2. hist' \in [Node -> [Conv -> SUBSET Msg]]
      BY DEF ShapeOK, Send
    <2>. QED  BY <1>2, <1>3, <2>1, <2>2 DEF ShapeOK, linkVars
  <1>5. EndsOK'
    BY <1>3 DEF EndsOK, linkVars
  <1>6. ASSUME NEW l \in T
        PROVE  \E p \in Node : /\ p # n /\ between[l] = {n, p} /\ l = conns[n][p]
                               /\ (conv # Room => conv = p)
    <2>1. CASE conv = Room
      <3>1. PICK p \in Node : l = conns[n][p] /\ l # None
        BY <2>1 DEF Targets
      <3>. QED  BY <2>1, <3>1 DEF EndsOK
    <2>2. CASE conv # Room
      <3>1. conv \in Node /\ l = conns[n][conv] /\ l # None
        BY <2>2 DEF Targets, Conv
      <3>. QED  BY <2>2, <3>1 DEF EndsOK
    <2>. QED  BY <2>1, <2>2
  <1>7. ViaOK'
    <2>1. ASSUME NEW k \in Msg \ {m}
          PROVE  /\ log'[k].by = None => log'[k].via = {}
                 /\ \A l \in log'[k].via :
                      /\ log'[k].by \in between[l]
                      /\ log'[k].conv # Room => log'[k].conv \in between[l] \ {log'[k].by}
                 /\ \A l, j \in log'[k].via : \A p \in Node \ {log'[k].by} :
                      p \in between[l] /\ p \in between[j] => l = j
      BY <1>2 DEF ViaOK
    <2>2. ASSUME NEW l \in T
          PROVE  n \in between[l] /\ (conv # Room => conv \in between[l] \ {n})
      BY <1>6
    <2>3. ASSUME NEW l \in T, NEW j \in T, NEW p \in Node \ {n},
                 p \in between[l], p \in between[j]
          PROVE  l = j
      BY <1>6, <2>3
    <2>4. log'[m].by # None
      BY <1>2, NoneAssumption
    <2>. QED  BY <1>2, <1>3, <2>1, <2>2, <2>3, <2>4 DEF ViaOK, linkVars
  <1>8. \A k \in Msg, l \in Link :
           <<k, l>> \in pending' <=> <<k, l>> \in pending \/ (k = m /\ l \in T)
    BY DEF Send
  <1>9. PendingOK'
    <2>. SUFFICES ASSUME NEW k \in Msg, NEW l \in Link, <<k, l>> \in pending'
         PROVE  l \in log'[k].via /\ \A p \in between[l] \ {log'[k].by} : copies[k][p] = 0
      BY <1>3 DEF PendingOK, linkVars
    <2>1. CASE k = m
      BY <1>0, <1>2, <1>8, <2>1 DEF ShapeOK
    <2>2. CASE k # m
      BY <1>2, <1>8, <2>2 DEF PendingOK
    <2>. QED  BY <2>1, <2>2
  <1>10. WireOK'
    <2>. SUFFICES ASSUME NEW k \in Link, NEW x \in Node, NEW f \in Elems(wire[k][x])
         PROVE  OnWire(k, x, f)'
      BY <1>3 DEF WireOK
    <2>1. OnWire(k, x, f) /\ f \in Frame
      BY DEF WireOK, ShapeOK, Elems
    <2>2. f.m \in Msg \ {m}
      BY <1>0, <2>1 DEF OnWire, Frame
    <2>. QED  BY <1>2, <1>3, <1>8, <2>1, <2>2 DEF OnWire, linkVars
  <1>11. BusyOK'
    <2>. SUFFICES ASSUME NEW k \in Link, NEW x \in Node, busy[k][x] # None
         PROVE  InHand(k, x, busy[k][x])'
      BY <1>3 DEF BusyOK
    <2>1. InHand(k, x, busy[k][x]) /\ busy[k][x] \in Frame
      BY DEF BusyOK, ShapeOK
    <2>2. busy[k][x].m \in Msg \ {m}
      BY <1>0, <2>1 DEF InHand, Frame
    <2>. QED  BY <1>2, <1>3, <2>1, <2>2 DEF InHand, linkVars
  <1>12. CountOK'
    BY <1>0, <1>2, <1>3 DEF CountOK, linkVars
  <1>13. MarkOK'
    <2>. SUFFICES ASSUME NEW x \in Node, NEW c \in Conv, NEW k \in Msg, marks[x][c][k] > 0
         PROVE  /\ log'[k].by = x /\ log'[k].conv = c
                /\ marks[x][c][k] <= Cardinality(Told(k))
      BY <1>3 DEF MarkOK, Told
    <2>1. k # m
      BY <1>0
    <2>. QED  BY <1>2, <2>1 DEF MarkOK
  <1>. QED  BY <1>4, <1>5, <1>7, <1>9, <1>10, <1>11, <1>12, <1>13

\* Whoever receives a message over two of its sessions has only one.
LEMMA OneWay ==
    ASSUME ViaOK, NEW m \in Msg, NEW l \in log[m].via, NEW k \in log[m].via,
           NEW p \in Node, p # log[m].by, p \in between[l], p \in between[k]
    PROVE  l = k
  BY DEF ViaOK

LEMMA SendMsgInv ==
    ASSUME IInv, NEW m \in Msg, NEW l \in Link, SendMsg(m, l)
    PROVE  IInv'
  <1>. USE DEF IInv
  <1>. DEFINE n == log[m].by
              p == Peer(l, n)
              frame == [t |-> "msg", m |-> m, conv |-> Scope(log[m].conv)]
  <1>1. /\ UNCHANGED <<between, cut, conns, busy, storeVars, log, faults>>
        /\ pending' = pending \ {<<m, l>>}
        /\ <<m, l>> \in pending
    BY DEF SendMsg
  <1>2. l \in log[m].via /\ n \in between[l] /\ \A x \in between[l] \ {n} : copies[m][x] = 0
    BY <1>1 DEF PendingOK, ViaOK
  <1>3. n \in Node /\ p \in Node /\ p # n /\ between[l] = {n, p}
    BY <1>2, PeerFacts
  <1>4. frame \in Frame
    BY DEF Frame, Scope
  <1>5. frame \notin Elems(wire[l][p])
    BY <1>1, <1>3 DEF WireOK, OnWire
  <1>6. /\ wire' \in [Link -> [Node -> Seq(Frame)]]
        /\ \A k \in Link, x \in Node : k # l \/ x # p => wire'[k][x] = wire[k][x]
        /\ Elems(wire'[l][p]) \subseteq Elems(wire[l][p]) \cup {frame}
        /\ Distinct(wire'[l][p])
    <2>1. CASE wire' = wire
      BY <1>3, <2>1 DEF ShapeOK, WireOK
    <2>2. CASE Write(l, n, frame)
      <3>1. Distinct(wire[l][p])
        BY <1>3 DEF WireOK
      <3>. QED  BY <1>2, <1>4, <1>5, <2>2, <3>1, WriteFacts
    <2>. QED  BY <2>1, <2>2 DEF SendMsg
  <1>7. /\ at' \in [Link -> [Node -> Places]]
        /\ \A k \in Link, x \in Node : \/ at'[k][x] = at[k][x]
                                      \/ (at'[k][x] # "none" /\ x \in between[k])
    <2>1. CASE at' = at
      BY <2>1 DEF ShapeOK
    <2>2. CASE at' = [at EXCEPT ![l][n] = "closing"]
      BY <1>2, <1>3, <2>2 DEF ShapeOK, Places
    <2>. QED  BY <2>1, <2>2 DEF SendMsg
  <1>8. ShapeOK'
    BY <1>1, <1>6, <1>7 DEF ShapeOK, storeVars
  <1>9. EndsOK'
    <2>1. conns' \in [Node -> [Node -> Link \cup {None}]] /\ conns' = conns
      BY <1>1 DEF ShapeOK
    <2>. QED  BY <1>1, <1>7, <2>1, EndsStep
  <1>10. ViaOK' /\ CountOK' /\ MarkOK'
    BY <1>1 DEF ViaOK, CountOK, MarkOK, Told, storeVars
  <1>11. PendingOK'
    BY <1>1 DEF PendingOK, storeVars
  <1>12. BusyOK'
    BY <1>1 DEF BusyOK, InHand, storeVars
  <1>13. WireOK'
    <2>1. ASSUME NEW k \in Link, NEW x \in Node PROVE Distinct(wire'[k][x])
      BY <1>6 DEF WireOK
    <2>2. ASSUME NEW k \in Link, NEW x \in Node, NEW f \in Elems(wire'[k][x])
          PROVE  OnWire(k, x, f)'
      <3>1. CASE f \in Elems(wire[k][x])
        <4>1. OnWire(k, x, f)
          BY <3>1 DEF WireOK
        <4>. QED  BY <1>1, <4>1 DEF OnWire, storeVars
      <3>2. CASE f \notin Elems(wire[k][x])
        <4>1. k = l /\ x = p /\ f = frame
          BY <1>3, <1>6, <3>2
        <4>2. <<m, l>> \notin pending'
          BY <1>1
        <4>. QED  BY <1>1, <1>2, <1>3, <4>1, <4>2 DEF OnWire, storeVars
      <3>. QED  BY <3>1, <3>2
    <2>. QED  BY <2>1, <2>2 DEF WireOK
  <1>. QED  BY <1>8, <1>9, <1>10, <1>11, <1>12, <1>13

\* A frame is filed under a conversation of this end.
LEMMA LocalConv ==
    ASSUME EndsOK, ShapeOK, NEW l \in Link, NEW n \in between[l], NEW scope
    PROVE  Local(l, n, scope) \in Conv
  BY PeerFacts DEF Local, Conv

LEMMA HandleMsgInv ==
    ASSUME IInv, NEW l \in Link, NEW n \in Node, HandleMsg(l, n)
    PROVE  IInv'
  <1>. USE DEF IInv
  <1>. DEFINE f == Head(wire[l][n])
  <1>1. /\ UNCHANGED <<linkVars, conns, pending, marks, told, log, faults>>
        /\ wire[l][n] # <<>> /\ f.t = "msg"
        /\ wire' = [wire EXCEPT ![l][n] = Tail(@)]
        /\ busy' = [busy EXCEPT ![l][n] = f]
        /\ hist' = [hist EXCEPT ![n][Local(l, n, f.conv)] = @ \cup {f.m}]
        /\ copies' = [copies EXCEPT ![f.m][n] = @ + 1]
    BY DEF HandleMsg, Reads, Append1
  <1>2. /\ wire' \in [Link -> [Node -> Seq(Frame)]]
        /\ \A k \in Link, x \in Node : k # l \/ x # n => wire'[k][x] = wire[k][x]
        /\ f \in Frame /\ f \in Elems(wire[l][n])
        /\ Elems(wire'[l][n]) \subseteq Elems(wire[l][n]) \ {f}
        /\ Distinct(wire'[l][n])
    BY <1>1, ReadFacts
  <1>3. /\ f.m \in Msg /\ l \in log[f.m].via /\ f.conv = Scope(log[f.m].conv)
        /\ n \in between[l] /\ n # log[f.m].by /\ copies[f.m][n] = 0
        /\ <<f.m, l>> \notin pending
    BY <1>1, <1>2 DEF WireOK, OnWire, Frame
  <1>4. told[f.m][n] = 0
    BY <1>3 DEF CountOK
  <1>5. /\ copies' \in [Msg -> [Node -> Nat]]
        /\ copies'[f.m][n] = 1
        /\ \A k \in Msg, x \in Node : k # f.m \/ x # n => copies'[k][x] = copies[k][x]
    <2>1. /\ copies \in [Msg -> [Node -> Nat]] /\ f.m \in Msg /\ copies[f.m][n] = 0
          /\ copies' = [copies EXCEPT ![f.m][n] = @ + 1]
      BY <1>1, <1>3 DEF ShapeOK
    <2>. HIDE DEF f
    <2>. QED  BY ONLY <2>1, n \in Node
  <1>6. /\ busy' \in [Link -> [Node -> Frame \cup {None}]]
        /\ busy'[l][n] = f
        /\ \A k \in Link, x \in Node : k # l \/ x # n => busy'[k][x] = busy[k][x]
    BY <1>1, <1>2 DEF ShapeOK
  <1>7. ShapeOK'
    <2>1. hist' \in [Node -> [Conv -> SUBSET Msg]]
      <3>1. Local(l, n, f.conv) \in Conv
        BY <1>3, LocalConv
      <3>. QED  BY <1>1, <1>3, <3>1 DEF ShapeOK
    <2>. QED  BY <1>1, <1>2, <1>5, <1>6, <2>1 DEF ShapeOK, linkVars
  <1>8. EndsOK' /\ ViaOK' /\ MarkOK'
    <2>1. UNCHANGED <<at, conns, between, log, told, marks>>
      BY <1>1 DEF linkVars
    <2>. QED  BY <2>1 DEF EndsOK, ViaOK, MarkOK, Told
  <1>9. PendingOK'
    <2>. SUFFICES ASSUME NEW m \in Msg, NEW k \in Link, <<m, k>> \in pending,
                         NEW p \in between[k] \ {log[m].by}
         PROVE  k \in log[m].via /\ copies'[m][p] = 0
      BY <1>1 DEF PendingOK, linkVars
    <2>1. k \in log[m].via /\ copies[m][p] = 0 /\ p \in Node
      BY DEF PendingOK, ShapeOK
    <2>2. ~(m = f.m /\ p = n)
      BY <1>3, <2>1, OneWay
    <2>. QED  BY <1>5, <2>1, <2>2
  <1>10. CountOK'
    <2>. SUFFICES ASSUME NEW m \in Msg, NEW x \in Node
         PROVE  /\ copies'[m][x] \in {0, 1} /\ told[m][x] \in {0, 1}
                /\ told[m][x] = 1 => copies'[m][x] = 1
                /\ copies'[m][x] = 1 => x # log[m].by /\ \E k \in log[m].via : x \in between[k]
      BY <1>1 DEF CountOK, linkVars
    <2>1. CASE m = f.m /\ x = n
      BY <1>3, <1>4, <1>5, <2>1
    <2>2. CASE m # f.m \/ x # n
      BY <1>5, <2>2 DEF CountOK
    <2>. QED  BY <2>1, <2>2
  <1>11. BusyOK'
    <2>. SUFFICES ASSUME NEW k \in Link, NEW x \in Node, busy'[k][x] # None
         PROVE  InHand(k, x, busy[k][x])'
      BY DEF BusyOK
    <2>1. CASE k = l /\ x = n
      BY <1>1, <1>3, <1>4, <1>5, <1>6, <2>1 DEF InHand, linkVars
    <2>2. CASE k # l \/ x # n
      <3>1. InHand(k, x, busy[k][x]) /\ busy'[k][x] = busy[k][x] /\ busy[k][x].m \in Msg
        BY <1>6, <2>2 DEF BusyOK, ShapeOK, Frame
      <3>2. busy[k][x].m # f.m \/ x # n
        BY <1>3, <3>1 DEF InHand
      <3>3. copies'[busy[k][x].m][x] = copies[busy[k][x].m][x]
        BY <1>5, <3>1, <3>2
      <3>. QED  BY <1>1, <3>1, <3>3 DEF InHand, linkVars
    <2>. QED  BY <2>1, <2>2
  <1>12. WireOK'
    <2>1. ASSUME NEW k \in Link, NEW x \in Node PROVE Distinct(wire'[k][x])
      BY <1>2 DEF WireOK
    <2>2. ASSUME NEW k \in Link, NEW x \in Node, NEW g \in Elems(wire'[k][x])
          PROVE  OnWire(k, x, g)'
      <3>1. g \in Elems(wire[k][x]) /\ ~(k = l /\ x = n /\ g = f)
        BY <1>2
      <3>2. OnWire(k, x, g) /\ g \in Frame /\ g.m \in Msg
        <4>1. OnWire(k, x, g)
          BY <3>1 DEF WireOK
        <4>2. g \in Frame
          BY <3>1, ElemType DEF ShapeOK
        <4>. QED  BY <4>1, <4>2 DEF Frame
      <3>3. k \in log'[g.m].via /\ g.conv = Scope(log'[g.m].conv)
        BY <1>1, <3>2 DEF OnWire
      <3>4. ASSUME g.t = "msg"
            PROVE  /\ x \in between'[k] \ {log'[g.m].by}
                   /\ copies'[g.m][x] = 0
                   /\ <<g.m, k>> \notin pending'
        <4>1. x \in between[k] /\ x # log[g.m].by /\ copies[g.m][x] = 0 /\ <<g.m, k>> \notin pending
          BY <3>2, <3>4 DEF OnWire
        <4>2. ~(g.m = f.m /\ x = n)
          <5>. SUFFICES ASSUME g.m = f.m, x = n PROVE FALSE
            OBVIOUS
          <5>1. k = l
            BY <1>3, <3>2, <4>1, OneWay DEF OnWire
          <5>2. g.conv = f.conv
            BY <1>3, <3>2 DEF OnWire
          <5>3. g = f
            BY <1>1, <1>2, <3>2, <3>4, <5>2, FrameEq
          <5>. QED  BY <3>1, <5>1, <5>3
        <4>. QED  BY <1>1, <1>5, <3>2, <4>1, <4>2 DEF linkVars
      <3>5. ASSUME g.t = "ack"
            PROVE  /\ x = log'[g.m].by
                   /\ \A p \in between'[k] \ {x} :
                        /\ copies'[g.m][p] = 1 /\ told'[g.m][p] = 0
                        /\ busy'[k][p] # None => busy'[k][p].m # g.m
        <4>1. x = log[g.m].by
          BY <3>2, <3>5 DEF OnWire
        <4>2. ASSUME NEW p \in between[k] \ {x}
              PROVE  /\ copies'[g.m][p] = 1 /\ told[g.m][p] = 0
                     /\ busy'[k][p] # None => busy'[k][p].m # g.m
          <5>1. /\ copies[g.m][p] = 1 /\ told[g.m][p] = 0
                /\ busy[k][p] # None => busy[k][p].m # g.m
                /\ p \in Node
            BY <3>2, <3>5 DEF OnWire, ShapeOK
          <5>2. g.m # f.m \/ p # n
            BY <1>3, <5>1
          <5>. QED  BY <1>5, <1>6, <3>2, <5>1, <5>2
        <4>. QED  BY <1>1, <4>1, <4>2 DEF linkVars
      <3>. QED  BY <3>3, <3>4, <3>5 DEF OnWire
    <2>. QED  BY <2>1, <2>2 DEF WireOK
  <1>. QED  BY <1>7, <1>8, <1>9, <1>10, <1>11, <1>12

LEMMA SendAckInv ==
    ASSUME IInv, NEW l \in Link, NEW n \in Node, SendAck(l, n)
    PROVE  IInv'
  <1>. USE DEF IInv
  <1>. DEFINE f == busy[l][n]
              p == Peer(l, n)
              ack == [f EXCEPT !.t = "ack"]
  <1>1. /\ UNCHANGED <<between, at, cut, conns, pending, storeVars, log, faults>>
        /\ f # None
        /\ busy' = [busy EXCEPT ![l][n] = None]
    BY DEF SendAck, linkVars
  <1>2. f \in Frame /\ InHand(l, n, f)
    BY <1>1 DEF ShapeOK, BusyOK
  <1>3. f.m \in Msg /\ l \in log[f.m].via /\ f.conv = Scope(log[f.m].conv)
        /\ n \in between[l] /\ n # log[f.m].by
        /\ copies[f.m][n] = 1 /\ told[f.m][n] = 0
    BY <1>2 DEF InHand, Frame
  <1>4. p \in Node /\ between[l] = {n, p} /\ p # n /\ log[f.m].by = p
    BY <1>3, PeerFacts DEF ViaOK
  <1>5. ack \in Frame /\ ack.t = "ack" /\ ack.m = f.m /\ ack.conv = f.conv
    BY <1>2 DEF Frame
  <1>6. ack \notin Elems(wire[l][p])
    <2>. SUFFICES ASSUME ack \in Elems(wire[l][p]) PROVE FALSE
      OBVIOUS
    <2>1. OnWire(l, p, ack)
      BY <1>4 DEF WireOK
    <2>. QED  BY <1>1, <1>3, <1>4, <1>5, <2>1 DEF OnWire
  <1>7. /\ wire' \in [Link -> [Node -> Seq(Frame)]]
        /\ \A k \in Link, x \in Node : k # l \/ x # p => wire'[k][x] = wire[k][x]
        /\ Elems(wire'[l][p]) \subseteq Elems(wire[l][p]) \cup {ack}
        /\ Distinct(wire'[l][p])
    <2>0. Distinct(wire[l][p])
      BY <1>4 DEF WireOK
    <2>1. CASE wire' = wire
      BY <1>4, <2>0, <2>1 DEF ShapeOK
    <2>2. CASE Write(l, n, ack)
      BY <1>3, <1>5, <1>6, <2>0, <2>2, WriteFacts
    <2>. QED  BY <2>1, <2>2 DEF SendAck
  <1>8. /\ busy' \in [Link -> [Node -> Frame \cup {None}]]
        /\ busy'[l][n] = None
        /\ \A k \in Link, x \in Node : k # l \/ x # n => busy'[k][x] = busy[k][x]
    BY <1>1 DEF ShapeOK
  <1>9. ShapeOK'
    BY <1>1, <1>7, <1>8 DEF ShapeOK, storeVars
  <1>10. EndsOK' /\ ViaOK' /\ PendingOK' /\ CountOK' /\ MarkOK'
    <2>1. UNCHANGED <<at, conns, between, pending, log, copies, told, marks>>
      BY <1>1 DEF storeVars
    <2>2. EndsOK' /\ MarkOK'
      BY <2>1 DEF EndsOK, MarkOK, Told
    <2>3. ViaOK' /\ PendingOK' /\ CountOK'
      BY <2>1 DEF ViaOK, PendingOK, CountOK
    <2>. QED  BY <2>2, <2>3
  <1>11. BusyOK'
    <2>. SUFFICES ASSUME NEW k \in Link, NEW x \in Node, busy'[k][x] # None
         PROVE  InHand(k, x, busy[k][x])'
      BY DEF BusyOK
    <2>1. busy'[k][x] = busy[k][x] /\ InHand(k, x, busy[k][x])
      BY <1>8 DEF BusyOK
    <2>. QED  BY <1>1, <2>1 DEF InHand, storeVars
  <1>12. WireOK'
    <2>1. ASSUME NEW k \in Link, NEW x \in Node PROVE Distinct(wire'[k][x])
      BY <1>7 DEF WireOK
    <2>2. ASSUME NEW k \in Link, NEW x \in Node, NEW g \in Elems(wire'[k][x])
          PROVE  OnWire(k, x, g)'
      <3>1. CASE g \in Elems(wire[k][x])
        <4>1. OnWire(k, x, g)
          BY <3>1 DEF WireOK
        <4>2. \A q \in Node : busy'[k][q] # None => busy'[k][q] = busy[k][q]
          BY <1>8
        <4>3. between[k] \subseteq Node
          BY DEF ShapeOK
        <4>. QED  BY <1>1, <4>1, <4>2, <4>3 DEF OnWire, storeVars
      <3>2. CASE g \notin Elems(wire[k][x])
        <4>1. k = l /\ x = p /\ g = ack
          BY <1>4, <1>7, <3>2
        <4>2. \A q \in between[l] \ {p} : q = n
          BY <1>4
        <4>. QED  BY <1>1, <1>3, <1>4, <1>5, <1>8, <4>1, <4>2 DEF OnWire, storeVars
      <3>. QED  BY <3>1, <3>2
    <2>. QED  BY <2>1, <2>2 DEF WireOK
  <1>. QED  BY <1>9, <1>10, <1>11, <1>12

\* An ack that is read: from the receiver, of what it stored, for the first time.
LEMMA AckFacts ==
    ASSUME IInv, NEW l \in Link, NEW n \in Node, HandleAck(l, n)
    PROVE  LET f == Head(wire[l][n])
               p == Peer(l, n)
           IN  /\ f \in Frame /\ f \in Elems(wire[l][n]) /\ f.t = "ack"
               /\ f.m \in Msg /\ l \in log[f.m].via /\ log[f.m].by = n
               /\ n \in between[l] /\ p \in Node /\ p # n /\ between[l] = {n, p}
               /\ copies[f.m][p] = 1 /\ told[f.m][p] = 0
               /\ busy[l][p] # None => busy[l][p].m # f.m
               /\ Local(l, n, f.conv) = log[f.m].conv
  <1>. USE DEF IInv
  <1>. DEFINE f == Head(wire[l][n])
              p == Peer(l, n)
  <1>1. wire[l][n] # <<>> /\ f.t = "ack"
    BY DEF HandleAck, Reads
  <1>2. f \in Frame /\ f \in Elems(wire[l][n])
    <2>1. wire[l][n] \in Seq(Frame) /\ Distinct(wire[l][n])
      BY DEF ShapeOK, WireOK
    <2>. QED  BY <1>1, <2>1, TailElems
  <1>3. OnWire(l, n, f) /\ f.m \in Msg
    BY <1>2 DEF WireOK, Frame
  <1>4. l \in log[f.m].via /\ log[f.m].by = n /\ f.conv = Scope(log[f.m].conv)
    BY <1>1, <1>3 DEF OnWire
  <1>5. n \in between[l] /\ (log[f.m].conv # Room => log[f.m].conv \in between[l] \ {n})
    BY <1>3, <1>4 DEF ViaOK
  <1>6. p \in Node /\ p # n /\ between[l] = {n, p}
    BY <1>5, PeerFacts
  <1>7. /\ copies[f.m][p] = 1 /\ told[f.m][p] = 0
        /\ busy[l][p] # None => busy[l][p].m # f.m
    BY <1>1, <1>3, <1>6 DEF OnWire
  <1>8. Local(l, n, f.conv) = log[f.m].conv
    <2>1. CASE log[f.m].conv = Room
      BY <1>4, <2>1 DEF Local, Scope
    <2>2. CASE log[f.m].conv # Room
      BY <1>4, <1>5, <1>6, <2>2 DEF Local, Scope
    <2>. QED  BY <2>1, <2>2
  <1>. QED  BY <1>1, <1>2, <1>3, <1>4, <1>5, <1>6, <1>7, <1>8

LEMMA HandleAckInv ==
    ASSUME IInv, NEW l \in Link, NEW n \in Node, HandleAck(l, n)
    PROVE  IInv'
  <1>. USE DEF IInv
  <1>. DEFINE f == Head(wire[l][n])
              p == Peer(l, n)
              c == Local(l, n, f.conv)
  <1>1. /\ UNCHANGED <<between, at, cut, conns, pending, busy, hist, copies, log, faults>>
        /\ wire[l][n] # <<>>
        /\ wire' = [wire EXCEPT ![l][n] = Tail(@)]
        /\ marks' = [marks EXCEPT ![n][c][f.m] = @ + 1]
        /\ told' = [told EXCEPT ![f.m][p] = @ + 1]
    BY DEF HandleAck, Reads, linkVars
  <1>2. /\ f \in Frame /\ f \in Elems(wire[l][n]) /\ f.t = "ack"
        /\ f.m \in Msg /\ l \in log[f.m].via /\ log[f.m].by = n
        /\ n \in between[l] /\ p \in Node /\ p # n /\ between[l] = {n, p}
        /\ copies[f.m][p] = 1 /\ told[f.m][p] = 0
        /\ busy[l][p] # None => busy[l][p].m # f.m
        /\ c = log[f.m].conv
    BY AckFacts
  <1>3. c \in Conv
    BY <1>2, LocalConv
  <1>4. /\ wire' \in [Link -> [Node -> Seq(Frame)]]
        /\ \A k \in Link, x \in Node : k # l \/ x # n => wire'[k][x] = wire[k][x]
        /\ Elems(wire'[l][n]) \subseteq Elems(wire[l][n]) \ {f}
        /\ Distinct(wire'[l][n])
    <2>1. wire[l][n] # <<>> /\ wire' = [wire EXCEPT ![l][n] = Tail(@)]
      BY <1>1
    <2>2. ShapeOK /\ WireOK
      OBVIOUS
    <2>3. wire' \in [Link -> [Node -> Seq(Frame)]]
      BY <2>1, <2>2, ReadFacts
    <2>4. \A k \in Link, x \in Node : k # l \/ x # n => wire'[k][x] = wire[k][x]
      BY <2>1 DEF ShapeOK
    <2>5. Elems(wire'[l][n]) \subseteq Elems(wire[l][n]) \ {f}
      BY <2>1, <2>2, ReadFacts
    <2>6. Distinct(wire'[l][n])
      BY <2>1, <2>2, ReadFacts
    <2>. QED  BY <2>3, <2>4, <2>5, <2>6
  <1>5. /\ told' \in [Msg -> [Node -> Nat]]
        /\ told'[f.m][p] = 1
        /\ \A k \in Msg, x \in Node : k # f.m \/ x # p => told'[k][x] = told[k][x]
    <2>1. /\ told \in [Msg -> [Node -> Nat]] /\ f.m \in Msg /\ p \in Node /\ told[f.m][p] = 0
          /\ told' = [told EXCEPT ![f.m][p] = @ + 1]
      BY <1>1, <1>2 DEF ShapeOK
    <2>. HIDE DEF f, p
    <2>. QED  BY ONLY <2>1
  <1>6. /\ marks' \in [Node -> [Conv -> [Msg -> Nat]]]
        /\ marks'[n][c][f.m] = marks[n][c][f.m] + 1
        /\ \A x \in Node, d \in Conv, k \in Msg :
              x # n \/ d # c \/ k # f.m => marks'[x][d][k] = marks[x][d][k]
    <2>. HIDE DEF c, f
    <2>1. marks \in [Node -> [Conv -> [Msg -> Nat]]] /\ f.m \in Msg
      BY <1>2 DEF ShapeOK
    <2>2. marks' = [marks EXCEPT ![n][c][f.m] = marks[n][c][f.m] + 1]
      BY <1>1
    <2>. QED  BY <1>3, <2>1, <2>2
  <1>7. ShapeOK'
    BY <1>1, <1>4, <1>5, <1>6 DEF ShapeOK
  <1>8. EndsOK' /\ ViaOK' /\ PendingOK'
    <2>1. UNCHANGED <<at, conns, between, pending, log, copies>>
      BY <1>1
    <2>. QED  BY <2>1 DEF EndsOK, ViaOK, PendingOK
  <1>9. CountOK'
    <2>. SUFFICES ASSUME NEW m \in Msg, NEW x \in Node
         PROVE  /\ copies[m][x] \in {0, 1} /\ told'[m][x] \in {0, 1}
                /\ told'[m][x] = 1 => copies[m][x] = 1
                /\ copies[m][x] = 1 => x # log[m].by /\ \E k \in log[m].via : x \in between[k]
      BY <1>1 DEF CountOK
    <2>1. CASE m = f.m /\ x = p
      BY <1>2, <1>5, <2>1 DEF CountOK
    <2>2. CASE m # f.m \/ x # p
      BY <1>5, <2>2 DEF CountOK
    <2>. QED  BY <2>1, <2>2
  <1>10. BusyOK'
    <2>. SUFFICES ASSUME NEW k \in Link, NEW x \in Node, busy[k][x] # None
         PROVE  InHand(k, x, busy[k][x])'
      BY <1>1 DEF BusyOK
    <2>1. InHand(k, x, busy[k][x]) /\ busy[k][x].m \in Msg
      BY DEF BusyOK, ShapeOK, Frame
    <2>2. busy[k][x].m # f.m \/ x # p
      <3>. SUFFICES ASSUME busy[k][x].m = f.m, x = p PROVE FALSE
        OBVIOUS
      <3>1. k = l
        BY <1>2, <2>1, OneWay DEF InHand
      <3>. QED  BY <1>2, <3>1
    <2>3. told'[busy[k][x].m][x] = told[busy[k][x].m][x]
      BY <1>5, <2>1, <2>2
    <2>. QED  BY <1>1, <2>1, <2>3 DEF InHand
  <1>11. WireOK'
    <2>1. ASSUME NEW k \in Link, NEW x \in Node PROVE Distinct(wire'[k][x])
      BY <1>4 DEF WireOK
    <2>2. ASSUME NEW k \in Link, NEW x \in Node, NEW g \in Elems(wire'[k][x])
          PROVE  OnWire(k, x, g)'
      <3>1. g \in Elems(wire[k][x]) /\ ~(k = l /\ x = n /\ g = f)
        BY <1>4
      <3>2. OnWire(k, x, g) /\ g \in Frame /\ g.m \in Msg
        <4>1. OnWire(k, x, g)
          BY <3>1 DEF WireOK
        <4>2. g \in Frame
          BY <3>1, ElemType DEF ShapeOK
        <4>. QED  BY <4>1, <4>2 DEF Frame
      <3>3. ASSUME g.t = "ack", NEW q \in between[k] \ {x}
            PROVE  told'[g.m][q] = 0
        <4>1. x = log[g.m].by /\ k \in log[g.m].via /\ told[g.m][q] = 0 /\ q \in Node
              /\ g.conv = Scope(log[g.m].conv)
          BY <3>2, <3>3 DEF OnWire, ShapeOK
        <4>2. g.m # f.m \/ q # p
          <5>. SUFFICES ASSUME g.m = f.m, q = p PROVE FALSE
            OBVIOUS
          <5>1. k = l
            BY <1>2, <4>1, OneWay
          <5>2. OnWire(l, n, f)
            BY <1>2 DEF WireOK
          <5>3. f.conv = g.conv
            BY <4>1, <5>2 DEF OnWire
          <5>4. g = f
            BY <1>2, <3>2, <3>3, <5>3, FrameEq
          <5>. QED  BY <1>2, <3>1, <4>1, <5>1, <5>4
        <4>. QED  BY <1>5, <3>2, <4>1, <4>2
      <3>. QED  BY <1>1, <3>2, <3>3 DEF OnWire
    <2>. QED  BY <2>1, <2>2 DEF WireOK
  <1>12. MarkOK'
    <2>. SUFFICES ASSUME NEW x \in Node, NEW d \in Conv, NEW k \in Msg, marks'[x][d][k] > 0
         PROVE  /\ log[k].by = x /\ log[k].conv = d
                /\ marks'[x][d][k] <= Cardinality(Told(k)')
      <3>1. log' = log
        BY <1>1
      <3>. QED  BY <3>1 DEF MarkOK
    <2>0. \A m \in Msg : IsFiniteSet(Told(m)) /\ Cardinality(Told(m)) \in Nat
      BY NodeAssumption, FS_Subset, FS_CardinalityType DEF Told
    <2>. HIDE DEF f, p, c
    <2>1. CASE k # f.m
      <3>1. Told(k)' = Told(k)
        BY <1>5, <2>1 DEF Told
      <3>2. marks'[x][d][k] = marks[x][d][k]
        BY <1>6, <2>1
      <3>. QED  BY <3>1, <3>2 DEF MarkOK
    <2>2. CASE k = f.m
      <3>1. Told(k)' = Told(k) \cup {p} /\ p \notin Told(k)
        BY <1>2, <1>5, <2>2 DEF Told
      <3>2. Cardinality(Told(k)') = Cardinality(Told(k)) + 1
        BY <2>0, <3>1, FS_AddElement
      <3>3. CASE x = n /\ d = c
        <4>1. marks'[x][d][k] = marks[x][d][k] + 1 /\ marks[x][d][k] \in Nat
          BY <1>6, <2>2, <3>3 DEF ShapeOK
        <4>2. marks[x][d][k] <= Cardinality(Told(k))
          <5>1. CASE marks[x][d][k] > 0
            BY <5>1 DEF MarkOK
          <5>2. CASE ~(marks[x][d][k] > 0)
            BY <2>0, <4>1, <5>2
          <5>. QED  BY <5>1, <5>2
        <4>. QED  BY <1>2, <2>0, <2>2, <3>2, <3>3, <4>1, <4>2
      <3>4. CASE ~(x = n /\ d = c)
        <4>1. marks'[x][d][k] = marks[x][d][k]
          BY <1>6, <3>4
        <4>. QED  BY <1>2, <2>2, <3>4, <4>1 DEF MarkOK
      <3>. QED  BY <3>3, <3>4
    <2>. QED  BY <2>1, <2>2
  <1>. QED  BY <1>7, <1>8, <1>9, <1>10, <1>11, <1>12

-----------------------------------------------------------------------------
(* Clearing and restarting take receipts away, and no count.               *)

\* Receipts that are fewer still belong.
LEMMA FewerMarks ==
    ASSUME MarkOK, UNCHANGED <<log, told>>,
           \A n \in Node, c \in Conv, m \in Msg : marks'[n][c][m] \in {0, marks[n][c][m]}
    PROVE  MarkOK'
  <1>. SUFFICES ASSUME NEW n \in Node, NEW c \in Conv, NEW m \in Msg, marks'[n][c][m] > 0
       PROVE  /\ log[m].by = n /\ log[m].conv = c
              /\ marks'[n][c][m] <= Cardinality(Told(m))
    BY DEF MarkOK, Told
  <1>1. marks'[n][c][m] = marks[n][c][m]
    OBVIOUS
  <1>. QED  BY <1>1 DEF MarkOK

LEMMA ClearInv ==
    ASSUME IInv, NEW n \in Node, NEW conv \in Conv, Clear(n, conv)
    PROVE  IInv'
  <1>. USE DEF IInv
  <1>1. /\ UNCHANGED <<between, at, cut, wire, conns, pending, busy, log, copies, told>>
        /\ hist' = [hist EXCEPT ![n][conv] = {}]
        /\ marks' = [marks EXCEPT ![n][conv] = [m \in Msg |-> 0]]
        /\ faults' \in 0 .. MaxFaults
    BY BoundAssumption DEF Clear, Fault, ShapeOK, linkVars
  <1>2. /\ hist' \in [Node -> [Conv -> SUBSET Msg]]
        /\ marks' \in [Node -> [Conv -> [Msg -> Nat]]]
        /\ \A x \in Node, c \in Conv, m \in Msg : marks'[x][c][m] \in {0, marks[x][c][m]}
    BY <1>1 DEF ShapeOK
  <1>3. ShapeOK'
    BY <1>1, <1>2 DEF ShapeOK
  <1>4. EndsOK' /\ UNCHANGED core
    BY <1>1 DEF EndsOK, core
  <1>5. MarkOK'
    BY <1>1, <1>2, FewerMarks
  <1>. QED  BY <1>3, <1>4, <1>5, QuietStep

LEMMA RestartInv ==
    ASSUME IInv, NEW n \in Node, Restart(n)
    PROVE  IInv'
  <1>. USE DEF IInv
  <1>1. /\ UNCHANGED <<between, cut, wire, log, copies, told>>
        /\ at' = [l \in Link |-> [at[l] EXCEPT ![n] = IF n \in between[l] THEN "closed" ELSE @]]
        /\ conns' = [conns EXCEPT ![n] = [p \in Node |-> None]]
        /\ pending' \subseteq pending
        /\ busy' = [l \in Link |-> [busy[l] EXCEPT ![n] = None]]
        /\ hist' = [hist EXCEPT ![n] = [c \in Conv |-> {}]]
        /\ marks' = [marks EXCEPT ![n] = [c \in Conv |-> [m \in Msg |-> 0]]]
        /\ faults' \in 0 .. MaxFaults
    BY BoundAssumption DEF Restart, Fault, ShapeOK
  <1>2. /\ at' \in [Link -> [Node -> Places]]
        /\ \A k \in Link, x \in Node : \/ at'[k][x] = at[k][x]
                                      \/ (at'[k][x] # "none" /\ x \in between[k])
    <2>1. \A k \in Link : at'[k] \in [Node -> Places]
      BY <1>1 DEF ShapeOK, Places
    <2>2. at' \in [Link -> [Node -> Places]]
      BY <1>1, <2>1
    <2>. QED  BY <1>1, <2>2 DEF ShapeOK
  <1>3. /\ conns' \in [Node -> [Node -> Link \cup {None}]]
        /\ \A x, y \in Node : conns'[x][y] \in {conns[x][y], None}
    BY <1>1 DEF ShapeOK
  <1>4. /\ busy' \in [Link -> [Node -> Frame \cup {None}]]
        /\ \A k \in Link, x \in Node : busy'[k][x] \in {busy[k][x], None}
    <2>1. \A k \in Link : busy'[k] \in [Node -> Frame \cup {None}]
      BY <1>1 DEF ShapeOK
    <2>2. busy' \in [Link -> [Node -> Frame \cup {None}]]
      BY <1>1, <2>1
    <2>. QED  BY <1>1, <2>2 DEF ShapeOK
  <1>5. /\ hist' \in [Node -> [Conv -> SUBSET Msg]]
        /\ marks' \in [Node -> [Conv -> [Msg -> Nat]]]
        /\ \A x \in Node, c \in Conv, m \in Msg : marks'[x][c][m] \in {0, marks[x][c][m]}
    BY <1>1 DEF ShapeOK
  <1>6. ShapeOK'
    BY <1>1, <1>2, <1>3, <1>4, <1>5 DEF ShapeOK
  <1>7. EndsOK'
    BY <1>1, <1>2, <1>3, EndsStep
  <1>8. ViaOK' /\ CountOK' /\ PendingOK'
    BY <1>1 DEF ViaOK, CountOK, PendingOK
  <1>9. MarkOK'
    BY <1>1, <1>5, FewerMarks
  <1>10. BusyOK'
    <2>. SUFFICES ASSUME NEW k \in Link, NEW x \in Node, busy'[k][x] # None
         PROVE  InHand(k, x, busy[k][x])'
      BY DEF BusyOK
    <2>1. busy'[k][x] = busy[k][x] /\ InHand(k, x, busy[k][x])
      BY <1>4 DEF BusyOK
    <2>. QED  BY <1>1, <2>1 DEF InHand
  <1>11. WireOK'
    <2>. SUFFICES ASSUME NEW k \in Link, NEW x \in Node, NEW f \in Elems(wire[k][x])
         PROVE  OnWire(k, x, f)'
      BY <1>1 DEF WireOK
    <2>1. OnWire(k, x, f)
      BY DEF WireOK
    <2>2. \A q \in Node : busy'[k][q] # None => busy'[k][q] = busy[k][q]
      BY <1>4
    <2>3. between[k] \subseteq Node
      BY DEF ShapeOK
    <2>. QED  BY <1>1, <2>1, <2>2, <2>3 DEF OnWire
  <1>. QED  BY <1>6, <1>7, <1>8, <1>9, <1>10, <1>11

-----------------------------------------------------------------------------
(* The invariant, and what follows from it.                                *)

LEMMA NextInv == ASSUME IInv, [Next]_vars PROVE IInv'
  <1>1. CASE \E l \in Link : \E n, p \in Node : Handshake(l, n, p)
    BY <1>1, HandshakeInv
  <1>2. CASE \E l \in Link : Cut(l)
    BY <1>2, CutInv
  <1>3. CASE \E n \in Node, m \in Msg, conv \in Conv : Send(n, m, conv)
    BY <1>3, SendInv
  <1>4. CASE \E m \in Msg, l \in Link : SendMsg(m, l)
    BY <1>4, SendMsgInv
  <1>5. CASE \E l \in Link, n \in Node : EndStep(l, n)
    BY <1>5, RegisterInv, ReadFailsInv, HandleMsgInv, SendAckInv, HandleAckInv DEF EndStep
  <1>6. CASE \E n \in Node, conv \in Conv : Clear(n, conv)
    BY <1>6, ClearInv
  <1>7. CASE \E n \in Node : Restart(n)
    BY <1>7, RestartInv
  <1>8. CASE UNCHANGED vars
    <2>1. EndsOK' /\ MarkOK' /\ UNCHANGED core
      BY <1>8 DEF IInv, EndsOK, MarkOK, Told, core, vars
    <2>2. ShapeOK'
      BY <1>8 DEF IInv, ShapeOK, vars
    <2>. QED  BY <2>1, <2>2, QuietStep DEF IInv
  <1>. QED  BY <1>1, <1>2, <1>3, <1>4, <1>5, <1>6, <1>7, <1>8 DEF Next

\* A message is in one place per receiver, whatever is sent, lost, cleared and
\* restarted.
THEOREM ChatInvariant == Spec => []IInv
  <1>1. Init => IInv
    BY InitInv
  <1>2. IInv /\ [Next]_vars => IInv'
    BY NextInv
  <1>. QED  BY <1>1, <1>2, PTL DEF Spec

\* Every variable keeps its type, and no transcript counts more receipts for a
\* message than there are nodes.
THEOREM ChatTypes == Spec => []TypeOK
  <1>1. ASSUME IInv PROVE TypeOK
    <2>1. ASSUME NEW m \in Msg
          PROVE  /\ Cardinality(Told(m)) \in Nat /\ Cardinality(Node) \in Nat
                 /\ Cardinality(Told(m)) <= Cardinality(Node)
      <3>1. Told(m) \subseteq Node
        BY DEF Told
      <3>. QED  BY <3>1, NodeAssumption, FS_Subset, FS_CardinalityType
    <2>2. ASSUME NEW n \in Node, NEW c \in Conv, NEW m \in Msg
          PROVE  marks[n][c][m] \in 0 .. Cardinality(Node)
      <3>1. marks[n][c][m] \in Nat
        BY <1>1 DEF IInv, ShapeOK
      <3>2. marks[n][c][m] > 0 => marks[n][c][m] <= Cardinality(Told(m))
        BY <1>1 DEF IInv, MarkOK
      <3>. QED  BY <3>1, <3>2, <2>1
    <2>3. marks \in [Node -> [Conv -> [Msg -> 0 .. Cardinality(Node)]]]
      BY <1>1, <2>2 DEF IInv, ShapeOK
    <2>4. \A l \in Link, n \in Node :
             /\ wire[l][n] \in Seq(Frame) /\ busy[l][n] \in Frame \cup {None}
             /\ at[l][n] # "none" <=> n \in between[l]
      BY <1>1 DEF IInv, ShapeOK, EndsOK
    <2>. QED  BY <1>1, <2>3, <2>4 DEF IInv, ShapeOK, TypeOK, Places
  <1>. QED  BY <1>1, ChatInvariant, PTL

\* A transcript shows receipts only for what its process sent there, and never
\* more of them than peers have stored the message.
THEOREM ReceiptsBelong == Spec => []MarksBelong
  <1>1. ASSUME IInv PROVE MarksBelong
    <2>. SUFFICES ASSUME NEW n \in Node, NEW c \in Conv, NEW m \in Msg, marks[n][c][m] > 0
         PROVE  /\ log[m].by = n /\ log[m].conv = c
                /\ marks[n][c][m] <= Cardinality({p \in Node : copies[m][p] > 0})
      BY DEF MarksBelong
    <2>. DEFINE Got == {p \in Node : copies[m][p] > 0}
    <2>1. log[m].by = n /\ log[m].conv = c /\ marks[n][c][m] <= Cardinality(Told(m))
      BY <1>1 DEF IInv, MarkOK
    <2>2. Told(m) \subseteq Got
      BY <1>1 DEF IInv, CountOK, Told
    <2>3. IsFiniteSet(Got)
      BY NodeAssumption, FS_Subset
    <2>4. /\ Cardinality(Told(m)) <= Cardinality(Got) /\ IsFiniteSet(Told(m))
      BY <2>2, <2>3, FS_Subset
    <2>5. Cardinality(Told(m)) \in Nat /\ Cardinality(Got) \in Nat
      BY <2>3, <2>4, FS_CardinalityType
    <2>6. marks[n][c][m] \in Nat
      BY <1>1 DEF IInv, ShapeOK
    <2>. HIDE DEF Got
    <2>7. marks[n][c][m] <= Cardinality(Got)
      BY <2>1, <2>4, <2>5, <2>6
    <2>. QED  BY <2>1, <2>7 DEF Got
  <1>. QED  BY <1>1, ChatInvariant, PTL

-----------------------------------------------------------------------------
(* The promise.                                                            *)

\* The receivers of a message: what Delivery calls due.
Due == [m \in Msg |-> IF Sent(m) THEN {Peer(l, log[m].by) : l \in log[m].via} ELSE {}]

\* They change with the log alone.
LEMMA DueStays ==
    ASSUME UNCHANGED log, \A m \in Msg : \A l \in log[m].via : between'[l] = between[l]
    PROVE  Due' = Due
  <1>1. ASSUME NEW m \in Msg
        PROVE  {Peer(l, log[m].by)' : l \in log[m].via} = {Peer(l, log[m].by) : l \in log[m].via}
    <2>1. \A l \in log[m].via : Peer(l, log[m].by)' = Peer(l, log[m].by)
      BY DEF Peer
    <2>. QED  BY <2>1
  <1>. QED  BY <1>1 DEF Due, Sent

LEMMA SendPromise ==
    ASSUME IInv, NEW n \in Node, NEW m \in Msg, NEW conv \in Conv, Send(n, m, conv)
    PROVE  Promise!Next
  <1>. DEFINE T == Targets(n, conv)
              R == {Peer(l, n) : l \in T}
  <1>1. /\ UNCHANGED <<between, copies, told>>
        /\ ~Sent(m)
        /\ log' = [log EXCEPT ![m] = [by |-> n, conv |-> conv, via |-> T]]
    BY DEF Send, linkVars
  <1>2. T \subseteq Link
    BY DEF IInv, ShapeOK, Targets, Conv
  <1>3. /\ log'[m].by = n /\ log'[m].via = T
        /\ \A k \in Msg \ {m} : log'[k] = log[k]
    BY <1>1 DEF IInv, ShapeOK
  <1>4. R \in SUBSET Node
    <2>. SUFFICES ASSUME NEW l \in T PROVE Peer(l, n) \in Node
      OBVIOUS
    <2>1. IInv'
      BY SendInv
    <2>2. n \in between[l]
      BY <1>1, <1>3, <2>1 DEF IInv, ViaOK
    <2>. QED  BY <1>2, <2>2, PeerFacts DEF IInv
  <1>5. Due[m] = {}
    BY <1>1 DEF Due
  <1>6. Due' = [Due EXCEPT ![m] = R]
    <2>1. Due'[m] = R
      <3>1. Sent(m)'
        BY <1>3, NoneAssumption DEF Sent
      <3>2. \A l : Peer(l, n)' = Peer(l, n)
        BY <1>1 DEF Peer
      <3>. QED  BY <1>3, <3>1, <3>2 DEF Due
    <2>2. ASSUME NEW k \in Msg \ {m} PROVE Due'[k] = Due[k]
      <3>1. Sent(k)' <=> Sent(k)
        BY <1>3 DEF Sent
      <3>2. \A l, x : Peer(l, x)' = Peer(l, x)
        BY <1>1 DEF Peer
      <3>. QED  BY <1>3, <3>1, <3>2 DEF Due
    <2>. QED  BY <2>1, <2>2 DEF Due
  <1>7. PICK targets \in SUBSET Node : targets = R
    BY <1>4
  <1>8. Promise!Send(m, targets)
    BY <1>1, <1>5, <1>6, <1>7 DEF Promise!Send, Due
  <1>. QED  BY <1>8 DEF Promise!Next

LEMMA HandleMsgPromise ==
    ASSUME IInv, NEW l \in Link, NEW n \in Node, HandleMsg(l, n)
    PROVE  Promise!Next
  <1>. DEFINE f == Head(wire[l][n])
  <1>1. /\ UNCHANGED <<between, told, log>>
        /\ wire[l][n] # <<>> /\ f.t = "msg"
        /\ copies' = [copies EXCEPT ![f.m][n] = @ + 1]
    BY DEF HandleMsg, Reads, Append1, linkVars
  <1>2. f \in Frame /\ f \in Elems(wire[l][n])
    <2>1. wire[l][n] \in Seq(Frame) /\ Distinct(wire[l][n])
      BY DEF IInv, ShapeOK, WireOK
    <2>. QED  BY <1>1, <2>1, TailElems
  <1>3. OnWire(l, n, f) /\ f.m \in Msg
    BY <1>2 DEF IInv, WireOK, Frame
  <1>4. /\ l \in log[f.m].via /\ n \in between[l] /\ n # log[f.m].by
        /\ copies[f.m][n] = 0
    BY <1>1, <1>3 DEF OnWire
  <1>5. log[f.m].by \in between[l]
    BY <1>3, <1>4 DEF IInv, ViaOK
  <1>6. Peer(l, log[f.m].by) = n /\ log[f.m].by \in Node
    BY <1>4, <1>5, PeerFacts DEF IInv
  <1>7. n \in Due[f.m]
    BY <1>3, <1>4, <1>6, NoneAssumption DEF Due, Sent
  <1>8. Due' = Due
    BY <1>1, DueStays
  <1>9. copies' = [copies EXCEPT ![f.m][n] = 1]
    BY <1>1, <1>3, <1>4 DEF IInv, ShapeOK
  <1>10. Promise!Store(f.m, n)
    BY <1>1, <1>4, <1>7, <1>8, <1>9 DEF Promise!Store, Due
  <1>. QED  BY <1>3, <1>10 DEF Promise!Next

LEMMA HandleAckPromise ==
    ASSUME IInv, NEW l \in Link, NEW n \in Node, HandleAck(l, n)
    PROVE  Promise!Next
  <1>. DEFINE f == Head(wire[l][n])
              p == Peer(l, n)
  <1>1. /\ UNCHANGED <<between, copies, log>>
        /\ told' = [told EXCEPT ![f.m][p] = @ + 1]
    BY DEF HandleAck, linkVars
  <1>2. f.m \in Msg /\ p \in Node /\ copies[f.m][p] = 1 /\ told[f.m][p] = 0
    BY AckFacts
  <1>3. told' = [told EXCEPT ![f.m][p] = 1]
    BY <1>1, <1>2 DEF IInv, ShapeOK
  <1>4. Due' = Due
    BY <1>1, DueStays
  <1>5. Promise!Tell(f.m, p)
    BY <1>1, <1>2, <1>3, <1>4 DEF Promise!Tell, Due
  <1>. QED  BY <1>2, <1>5 DEF Promise!Next

\* The other steps promise nothing and break nothing.
LEMMA OtherSteps ==
    ASSUME UNCHANGED <<log, copies, told>>,
           \A m \in Msg : \A l \in log[m].via : between'[l] = between[l]
    PROVE  UNCHANGED <<Due, copies, told>>
  BY DueStays

LEMMA NextPromise ==
    ASSUME IInv, [Next]_vars
    PROVE  Promise!Next \/ UNCHANGED <<Due, copies, told>>
  <1>1. ASSUME NEW l \in Link, NEW n \in Node, NEW p \in Node, Handshake(l, n, p)
        PROVE  UNCHANGED <<Due, copies, told>>
    <2>1. UNCHANGED <<log, copies, told>>
      BY <1>1 DEF Handshake, storeVars
    <2>2. \A k \in Link \ {l} : between'[k] = between[k]
      BY <1>1 DEF Handshake, IInv, ShapeOK
    <2>3. \A m \in Msg : log[m].via \subseteq Link /\ l \notin log[m].via
      BY <1>1 DEF Handshake, IInv, ViaOK, ShapeOK
    <2>. QED  BY <2>1, <2>2, <2>3, OtherSteps
  <1>2. ASSUME NEW l \in Link, Cut(l) PROVE UNCHANGED <<Due, copies, told>>
    BY <1>2, OtherSteps DEF Cut, storeVars
  <1>3. CASE \E n \in Node, m \in Msg, conv \in Conv : Send(n, m, conv)
    BY <1>3, SendPromise
  <1>4. ASSUME NEW m \in Msg, NEW l \in Link, SendMsg(m, l)
        PROVE  UNCHANGED <<Due, copies, told>>
    BY <1>4, OtherSteps DEF SendMsg, storeVars
  <1>5. ASSUME NEW l \in Link, NEW n \in Node, EndStep(l, n)
        PROVE  Promise!Next \/ UNCHANGED <<Due, copies, told>>
    <2>1. CASE Register(l, n)
      BY <2>1, OtherSteps DEF Register, storeVars
    <2>2. CASE ReadFails(l, n)
      BY <2>2, OtherSteps DEF ReadFails, storeVars
    <2>3. CASE HandleMsg(l, n)
      BY <2>3, HandleMsgPromise
    <2>4. CASE SendAck(l, n)
      BY <2>4, OtherSteps DEF SendAck, storeVars, linkVars
    <2>5. CASE HandleAck(l, n)
      BY <2>5, HandleAckPromise
    <2>. QED  BY <1>5, <2>1, <2>2, <2>3, <2>4, <2>5 DEF EndStep
  <1>6. ASSUME NEW n \in Node, NEW conv \in Conv, Clear(n, conv)
        PROVE  UNCHANGED <<Due, copies, told>>
    BY <1>6, OtherSteps DEF Clear, linkVars
  <1>7. ASSUME NEW n \in Node, Restart(n) PROVE UNCHANGED <<Due, copies, told>>
    BY <1>7, OtherSteps DEF Restart
  <1>8. CASE UNCHANGED vars
    BY <1>8, OtherSteps DEF vars
  <1>. QED  BY <1>1, <1>2, <1>3, <1>4, <1>5, <1>6, <1>7, <1>8 DEF Next

\* Chat implements Delivery: no peer stores a message twice, and an author counts
\* a receiver at most once and only for what it stored.
THEOREM ChatDelivers == Spec => KeepsPromise
  <1>1. Init => Promise!Init
    BY DEF Init, Promise!Init, Sent
  <1>2. IInv /\ [Next]_vars => [Promise!Next]_<<Due, copies, told>>
    BY NextPromise
  <1>. QED  BY <1>1, <1>2, ChatInvariant, PTL DEF Spec, KeepsPromise, Promise!Spec, Due
=============================================================================
