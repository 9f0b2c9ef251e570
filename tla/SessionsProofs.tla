--------------------------- MODULE SessionsProofs ---------------------------
(* Theorems about Sessions, for every set of nodes and every bound.        *)
EXTENDS Sessions, FiniteSetTheorems, TLAPS

USE NodeAssumption, NoneAssumption, BoundAssumption

\* What the two assignments to an end do to the type of the variable.
LEMMA GotoType ==
    ASSUME TypeOK, NEW l \in Link, NEW s \in Side, NEW p \in Phase, Goto(l, s, p)
    PROVE  pc' \in [Link -> [Side -> Phase]]
BY DEF TypeOK, Goto

LEMMA ShutType ==
    ASSUME TypeOK, NEW l, NEW s, Shut(l, s)
    PROVE  closed' \in [Link -> [Side -> BOOLEAN]]
BY DEF TypeOK, Shut

LEMMA EntryType ==
    ASSUME TypeOK, NEW n, NEW m, NEW v \in Link \cup {None}
    PROVE  [conns EXCEPT ![n][m] = v] \in [Node -> [Node -> Link \cup {None}]]
BY DEF TypeOK

LEMMA VictimType ==
    ASSUME TypeOK, NEW l, NEW s, NEW v \in Link \cup {None}
    PROVE  [victim EXCEPT ![l][s] = v] \in [Link -> [Side -> Link \cup {None}]]
BY DEF TypeOK

LEMMA FailType ==
    ASSUME TypeOK, Fail
    PROVE  faults' \in 0 .. MaxFaults /\ faults' # faults
BY DEF TypeOK, Fail, CanFail

LEMMA Sides == "out" \in Side /\ "in" \in Side /\ \A s \in Side : Far(s) \in Side
BY DEF Side, Far

LEMMA Phases ==
    /\ \A p \in Past : p \in Phase
    /\ "idle" \in Phase /\ "dialing" \in Phase /\ "hello" \in Phase
    /\ "shook" \in Phase /\ "drop" \in Phase /\ "super" \in Phase
    /\ "live" \in Phase /\ "ending" \in Phase /\ "done" \in Phase
BY DEF Phase, Past

\* The two ends of a link in use are two different nodes.
LEMMA EndNodes ==
    ASSUME LinkOK, NEW l \in Link, NEW s \in Side, pc[l][s] # "idle"
    PROVE  /\ Local(l, s) \in Node /\ Remote(l, s) \in Node
           /\ Local(l, s) # Remote(l, s)
           /\ SideAt(l, Local(l, s)) = s
           /\ Local(l, s) \in {from[l], to[l]}
BY DEF LinkOK, Local, Remote, Far, SideAt, Side

LEMMA TypeInv == TypeOK /\ LinkOK /\ [Next]_vars => TypeOK'
<1>1. SUFFICES ASSUME TypeOK, LinkOK, [Next]_vars
               PROVE  TypeOK'
  OBVIOUS
<1>2. ASSUME NEW n \in Node, NEW m \in Node, NEW l \in Link, DialPeer(n, m, l)
      PROVE  TypeOK'
  BY <1>1, <1>2, Phases DEF DialPeer, TypeOK
<1>3. ASSUME NEW l \in Link, Accept(l) PROVE TypeOK'
  BY <1>1, <1>3, Phases DEF Accept, TypeOK
<1>4. ASSUME NEW l \in Link, DialFails(l) PROVE TypeOK'
  BY <1>1, <1>4, Phases, Sides, GotoType, ShutType, FailType DEF DialFails, TypeOK
<1>5. ASSUME NEW l \in Link, Answer(l) PROVE TypeOK'
  <2>1. replied' \in [Link -> BOOLEAN]
    BY <1>1, <1>5 DEF Answer, TypeOK
  <2>2. pc' \in [Link -> [Side -> Phase]]
    BY <1>1, <1>5, Phases, Sides, GotoType DEF Answer
  <2>3. closed' \in [Link -> [Side -> BOOLEAN]] /\ faults' \in 0 .. MaxFaults
    <3>1. CASE UNCHANGED <<closed, faults>>
      BY <1>1, <3>1 DEF TypeOK
    <3>2. CASE Shut(l, "in") /\ Fail
      BY <1>1, <3>2, ShutType, FailType
    <3> QED
      BY <1>5, <3>1, <3>2 DEF Answer
  <2> QED
    BY <1>1, <1>5, <2>1, <2>2, <2>3 DEF Answer, TypeOK
<1>6. ASSUME NEW l \in Link, ReadReply(l) PROVE TypeOK'
  BY <1>1, <1>6, Phases, Sides, GotoType DEF ReadReply, TypeOK
<1>7. ASSUME NEW l \in Link, Cut(l) PROVE TypeOK'
  BY <1>1, <1>7, FailType DEF Cut, TypeOK
<1>8. ASSUME NEW l \in Link, NEW s \in Side, HandshakeFails(l, s) PROVE TypeOK'
  <2>1. faults' \in 0 .. MaxFaults
    BY <1>1, <1>8, FailType DEF HandshakeFails, TypeOK
  <2> QED
    BY <1>1, <1>8, <2>1, Phases, GotoType, ShutType DEF HandshakeFails, TypeOK
<1>9. ASSUME NEW l \in Link, NEW s \in Side, Register(l, s) PROVE TypeOK'
  <2>1. PICK n \in Node, m \in Node : n = Local(l, s) /\ m = Remote(l, s)
    BY <1>1, <1>9, EndNodes DEF Register
  <2>2. pc' \in [Link -> [Side -> Phase]]
    BY <1>1, <1>9, Phases, GotoType DEF Register
  <2>3. UNCHANGED conns \/ conns' = [conns EXCEPT ![n][m] = l]
    BY <1>9, <2>1 DEF Register
  <2>4. UNCHANGED victim \/ victim' = [victim EXCEPT ![l][s] = conns[n][m]]
    BY <1>9, <2>1 DEF Register
  <2>5. conns' \in [Node -> [Node -> Link \cup {None}]]
    BY <1>1, <2>3, EntryType DEF TypeOK
  <2>6. victim' \in [Link -> [Side -> Link \cup {None}]]
    <3>1. conns[n][m] \in Link \cup {None}
      BY <1>1 DEF TypeOK
    <3> QED
      BY <1>1, <2>4, <3>1, VictimType DEF TypeOK
  <2> QED
    <3>1. UNCHANGED <<from, to, closed, replied, cut, toClose, faults>>
      BY <1>9 DEF Register
    <3> QED
      BY <1>1, <2>2, <2>5, <2>6, <3>1 DEF TypeOK
<1>10. ASSUME NEW l \in Link, NEW s \in Side, CloseVictim(l, s) PROVE TypeOK'
  BY <1>1, <1>10, Phases, GotoType, ShutType DEF CloseVictim, TypeOK
<1>11. ASSUME NEW l \in Link, NEW s \in Side, CloseDropped(l, s) PROVE TypeOK'
  BY <1>1, <1>11, Phases, GotoType, ShutType DEF CloseDropped, TypeOK
<1>12. ASSUME NEW l \in Link, NEW s \in Side, WriteFails(l, s) PROVE TypeOK'
  BY <1>1, <1>12, ShutType DEF WriteFails, TypeOK
<1>13. ASSUME NEW l \in Link, NEW s \in Side, ReadFails(l, s) PROVE TypeOK'
  BY <1>1, <1>13, Phases, GotoType, ShutType DEF ReadFails, TypeOK
<1>14. ASSUME NEW l \in Link, NEW s \in Side, Cleanup(l, s) PROVE TypeOK'
  <2>1. PICK n \in Node, m \in Node : n = Local(l, s) /\ m = Remote(l, s)
    BY <1>1, <1>14, EndNodes DEF Cleanup
  <2>2. conns' = [conns EXCEPT ![n][m] = IF @ = l THEN None ELSE @]
    BY <1>14, <2>1 DEF Cleanup
  <2>3. conns' \in [Node -> [Node -> Link \cup {None}]]
    <3>1. PICK v \in Link \cup {None} : v = IF conns[n][m] = l THEN None ELSE conns[n][m]
      BY <1>1 DEF TypeOK
    <3>2. conns' = [conns EXCEPT ![n][m] = v]
      BY <2>2, <3>1
    <3> QED
      BY <1>1, <3>2, EntryType
  <2> QED
    BY <1>1, <1>14, <2>3, Phases, GotoType DEF Cleanup, TypeOK
<1>15. ASSUME NEW n \in Node, CloseAllConns(n) PROVE TypeOK'
  BY <1>1, <1>15, FailType DEF CloseAllConns, TypeOK
<1>16. ASSUME NEW n \in Node, Restart(n) PROVE TypeOK'
  BY <1>1, <1>16, Phases, FailType DEF Restart, TypeOK
<1>17. ASSUME NEW n \in Node, NEW l \in Link, CloseListed(n, l) PROVE TypeOK'
  BY <1>1, <1>17, ShutType DEF CloseListed, TypeOK
<1>18. ASSUME NEW l \in Link, NEW s \in Side, HandleBye(l, s) PROVE TypeOK'
  BY <1>1, <1>18, ShutType, FailType DEF HandleBye, TypeOK
<1>19. CASE UNCHANGED vars
  BY <1>1, <1>19 DEF vars, TypeOK
<1> QED
  BY <1>1, <1>2, <1>3, <1>4, <1>5, <1>6, <1>7, <1>8, <1>9, <1>10, <1>11, <1>12,
     <1>13, <1>14, <1>15, <1>16, <1>17, <1>18, <1>19 DEF Next, EndStep

-----------------------------------------------------------------------------
(* The assignments, end by end.                                            *)

LEMMA GotoAt ==
    ASSUME TypeOK, NEW l \in Link, NEW s \in Side, NEW p, Goto(l, s, p)
    PROVE  \A k \in Link, t \in Side :
              pc'[k][t] = IF k = l /\ t = s THEN p ELSE pc[k][t]
BY DEF TypeOK, Goto

LEMMA ShutAt ==
    ASSUME TypeOK, NEW l, NEW s, Shut(l, s)
    PROVE  \A k \in Link, t \in Side :
              /\ closed[k][t] => closed'[k][t]
              /\ k = l /\ t = s => closed'[k][t]
              /\ k # l \/ t # s => closed'[k][t] = closed[k][t]
<1>1. SUFFICES ASSUME NEW k \in Link, NEW t \in Side
               PROVE  closed'[k][t] = IF k = l /\ t = s THEN TRUE ELSE closed[k][t]
  OBVIOUS
<1>2. closed \in [Link -> [Side -> BOOLEAN]] /\ closed' = [closed EXCEPT ![l][s] = TRUE]
  BY DEF TypeOK, Shut
<1>3. CASE k = l
  <2>1. closed'[k] = [closed[k] EXCEPT ![s] = TRUE]
    BY <1>2, <1>3
  <2>2. closed[k] \in [Side -> BOOLEAN]
    BY <1>2
  <2> QED
    BY <1>3, <2>1, <2>2
<1>4. CASE k # l
  BY <1>2, <1>4
<1> QED
  BY <1>3, <1>4

-----------------------------------------------------------------------------
(* The links in use keep their two nodes.                                  *)

LEMMA LinkInv == TypeOK /\ LinkOK /\ [Next]_vars => LinkOK'
<1>1. SUFFICES ASSUME TypeOK, LinkOK, [Next]_vars
               PROVE  LinkOK'
  OBVIOUS
<1> DEFINE Kept == /\ UNCHANGED <<from, to>>
                   /\ \A l \in Link, s \in Side :
                         \/ pc'[l][s] = pc[l][s]
                         \/ pc[l][s] # "idle" /\ pc'[l][s] # "dialing"
<1>2. ASSUME Kept PROVE LinkOK'
  <2>1. SUFFICES ASSUME NEW l \in Link
                 PROVE  /\ (\E s \in Side : pc'[l][s] # "idle") =>
                              from[l] \in Node /\ to[l] \in Node /\ from[l] # to[l]
                        /\ pc'[l]["out"] = "dialing" => pc'[l]["in"] = "idle"
    BY <1>2 DEF LinkOK
  <2>2. ASSUME NEW s \in Side, pc'[l][s] # "idle" PROVE pc[l][s] # "idle"
    BY <1>2, <2>2
  <2>3. ASSUME pc'[l]["out"] = "dialing" PROVE pc'[l]["in"] = "idle"
    BY <1>1, <1>2, <2>3, Sides DEF LinkOK
  <2> QED
    BY <1>1, <2>2, <2>3 DEF LinkOK
<1> HIDE DEF Kept
<1>3. ASSUME NEW n \in Node, NEW m \in Node, NEW l \in Link, DialPeer(n, m, l)
      PROVE  LinkOK'
  BY <1>1, <1>3, Sides DEF DialPeer, TypeOK, LinkOK, Side
<1>4. ASSUME NEW l \in Link, Accept(l) PROVE LinkOK'
  BY <1>1, <1>4, Sides DEF Accept, TypeOK, LinkOK, Side
<1>5. ASSUME NEW l \in Link, DialFails(l) PROVE LinkOK'
  BY <1>1, <1>2, <1>5, GotoAt, Sides DEF DialFails, Kept
<1>6. ASSUME NEW l \in Link, Answer(l) PROVE LinkOK'
  BY <1>1, <1>2, <1>6, GotoAt, Sides DEF Answer, Kept
<1>7. ASSUME NEW l \in Link, ReadReply(l) PROVE LinkOK'
  BY <1>1, <1>2, <1>7, GotoAt, Sides DEF ReadReply, Kept
<1>8. ASSUME NEW l \in Link, NEW s \in Side, HandshakeFails(l, s) PROVE LinkOK'
  BY <1>1, <1>2, <1>8, GotoAt DEF HandshakeFails, Kept
<1>9. ASSUME NEW l \in Link, NEW s \in Side, Register(l, s) PROVE LinkOK'
  BY <1>1, <1>2, <1>9, GotoAt DEF Register, Kept
<1>10. ASSUME NEW l \in Link, NEW s \in Side, CloseVictim(l, s) PROVE LinkOK'
  BY <1>1, <1>2, <1>10, GotoAt DEF CloseVictim, Kept
<1>11. ASSUME NEW l \in Link, NEW s \in Side, CloseDropped(l, s) PROVE LinkOK'
  BY <1>1, <1>2, <1>11, GotoAt DEF CloseDropped, Kept
<1>12. ASSUME NEW l \in Link, NEW s \in Side, ReadFails(l, s) PROVE LinkOK'
  BY <1>1, <1>2, <1>12, GotoAt DEF ReadFails, Kept
<1>13. ASSUME NEW l \in Link, NEW s \in Side, Cleanup(l, s) PROVE LinkOK'
  BY <1>1, <1>2, <1>13, GotoAt DEF Cleanup, Kept
<1>14. ASSUME NEW n \in Node, Restart(n) PROVE LinkOK'
  BY <1>1, <1>2, <1>14 DEF Restart, Kept
<1>15. CASE \/ UNCHANGED vars
            \/ \E l \in Link : Cut(l)
            \/ \E l \in Link, s \in Side : WriteFails(l, s) \/ HandleBye(l, s)
            \/ \E n \in Node : CloseAllConns(n)
            \/ \E n \in Node, l \in Link : CloseListed(n, l)
  <2>1. UNCHANGED <<from, to, pc>>
    BY <1>15 DEF vars, Cut, WriteFails, HandleBye, CloseAllConns, CloseListed
  <2> QED
    BY <1>2, <2>1 DEF Kept
<1> QED
  BY <1>1, <1>3, <1>4, <1>5, <1>6, <1>7, <1>8, <1>9, <1>10, <1>11, <1>12,
     <1>13, <1>14, <1>15 DEF Next, EndStep

-----------------------------------------------------------------------------
(* Steps that leave the table alone.                                       *)

Early == {"idle", "dialing", "hello", "shook", "drop"}

Calm ==
    /\ UNCHANGED <<conns, from, to, victim, toClose>>
    /\ \A l \in Link, s \in Side :
          /\ \/ pc'[l][s] = pc[l][s]
             \/ pc[l][s] \in Early /\ pc'[l][s] \in Early \cup {"done"}
             \/ pc[l][s] = "live" /\ pc'[l][s] = "ending"
          /\ closed[l][s] => closed'[l][s]

\* The three facts about the table that the invariant adds to the types.
TableOK == NoOrphanEntry /\ CondemnedOK /\ NoStraySession

\* A retired link stays retired as long as its slot is not used again.
LEMMA RetiredKept ==
    ASSUME NEW l \in Link, NEW n \in Node, Retired(l, n),
           UNCHANGED <<from, to>>,
           pc'[l][SideAt(l, n)] \in Past,
           \A m \in Node : conns'[n][m] # l
    PROVE  Retired(l, n)'
BY DEF Retired, Local, SideAt

LEMMA CalmStep ==
    ASSUME TypeOK, LinkOK, TableOK, Calm
    PROVE  TableOK'
<1>1. UNCHANGED <<conns, from, to, victim, toClose>>
  BY DEF Calm
<1>2. \A l \in Link, s \in Side :
        /\ Local(l, s)' = Local(l, s) /\ Remote(l, s)' = Remote(l, s)
        /\ PendingClose(l, s)' = PendingClose(l, s)
  BY <1>1 DEF Local, Remote, PendingClose, Far
<1>3. \A l \in Link : \A n : SideAt(l, n)' = SideAt(l, n) /\ SideAt(l, n) \in Side
  BY <1>1 DEF SideAt, Side
<1>4. \A l \in Link, s \in Side :
        /\ pc[l][s] \in {"super", "live", "ending"} =>
             pc'[l][s] \in {"super", "live", "ending"}
        /\ pc[l][s] \in Past => pc'[l][s] \in Past
        /\ pc[l][s] = "super" => pc'[l][s] = "super"
        /\ pc'[l][s] \in {"super", "live"} => pc[l][s] \in {"super", "live"}
  BY DEF Calm, Past, Early
<1>5. NoOrphanEntry'
  BY <1>1, <1>3, <1>4 DEF TableOK, NoOrphanEntry, Local, Remote, SideAt, Far
<1>6. \A l \in Link, n \in Node : Retired(l, n) => Retired(l, n)'
  BY <1>1, <1>3, <1>4, RetiredKept DEF Retired
<1>7. CondemnedOK'
  <2>1. ASSUME NEW l \in Link, NEW v \in Link, NEW s \in Side, victim'[l][s] = v
        PROVE  pc'[l][s] = "super" /\ Retired(v, Local(l, s))'
    <3>1. pc[l][s] = "super" /\ Retired(v, Local(l, s))
      BY <1>1, <2>1 DEF TableOK, CondemnedOK
    <3>2. PICK n \in Node : n = Local(l, s)
      BY <3>1, EndNodes
    <3>3. Retired(v, n)' /\ Local(l, s)' = n
      BY <1>2, <1>6, <3>1, <3>2
    <3> QED
      BY <1>4, <3>1, <3>3 DEF Retired
  <2>2. ASSUME NEW n \in Node, NEW l \in Link, l \in toClose'[n]
        PROVE  Retired(l, n)'
    BY <1>1, <1>6, <2>2 DEF TableOK, CondemnedOK
  <2> QED
    BY <2>1, <2>2 DEF CondemnedOK
<1>8. NoStraySession'
  BY <1>1, <1>2, <1>4 DEF Calm, TableOK, NoStraySession
<1> QED
  BY <1>5, <1>7, <1>8 DEF TableOK

CalmAction ==
    \/ \E l \in Link : Accept(l) \/ DialFails(l) \/ Answer(l) \/ ReadReply(l) \/ Cut(l)
    \/ \E l \in Link, s \in Side :
          \/ HandshakeFails(l, s) \/ CloseDropped(l, s) \/ WriteFails(l, s)
          \/ ReadFails(l, s) \/ HandleBye(l, s)
    \/ UNCHANGED vars

LEMMA CalmActions ==
    ASSUME TypeOK, LinkOK, CalmAction
    PROVE  Calm
<1>1. ASSUME NEW l \in Link, Accept(l) PROVE Calm
  <2>1. pc[l]["in"] = "idle" /\ pc[l]["out"] = "dialing"
    BY <1>1 DEF Accept, LinkOK
  <2> QED
    BY <1>1, <2>1 DEF Accept, Calm, Early, TypeOK, Side
<1>2. ASSUME NEW l \in Link, DialFails(l) PROVE Calm
  BY <1>2, GotoAt, ShutAt, Sides DEF DialFails, Calm, Early
<1>3. ASSUME NEW l \in Link, Answer(l) PROVE Calm
  <2>1. UNCHANGED <<conns, from, to, victim, toClose>> /\ pc[l]["in"] = "hello"
    BY <1>3 DEF Answer
  <2>2. \A k \in Link, t \in Side : closed[k][t] => closed'[k][t]
    BY <1>3, ShutAt DEF Answer
  <2>3. Goto(l, "in", "shook") \/ Goto(l, "in", "done")
    BY <1>3 DEF Answer
  <2> QED
    BY <2>1, <2>2, <2>3, GotoAt, Sides DEF Calm, Early
<1>4. ASSUME NEW l \in Link, ReadReply(l) PROVE Calm
  BY <1>4, GotoAt, Sides DEF ReadReply, Calm, Early
<1>5. ASSUME NEW l \in Link, Cut(l) PROVE Calm
  BY <1>5 DEF Cut, Calm
<1>6. ASSUME NEW l \in Link, NEW s \in Side, HandshakeFails(l, s) PROVE Calm
  BY <1>6, GotoAt, ShutAt DEF HandshakeFails, Calm, Early
<1>7. ASSUME NEW l \in Link, NEW s \in Side, CloseDropped(l, s) PROVE Calm
  BY <1>7, GotoAt, ShutAt DEF CloseDropped, Calm, Early
<1>8. ASSUME NEW l \in Link, NEW s \in Side, WriteFails(l, s) PROVE Calm
  BY <1>8, ShutAt DEF WriteFails, Calm
<1>9. ASSUME NEW l \in Link, NEW s \in Side, ReadFails(l, s) PROVE Calm
  BY <1>9, GotoAt, ShutAt DEF ReadFails, Calm
<1>10. ASSUME NEW l \in Link, NEW s \in Side, HandleBye(l, s) PROVE Calm
  BY <1>10, ShutAt DEF HandleBye, Calm
<1>11. CASE UNCHANGED vars
  BY <1>11 DEF vars, Calm
<1> QED
  BY <1>1, <1>2, <1>3, <1>4, <1>5, <1>6, <1>7, <1>8, <1>9, <1>10, <1>11 DEF CalmAction

-----------------------------------------------------------------------------
(* Steps that change the table or what is about to be closed.              *)

\* A slot is given to a new attempt only when nothing refers to the old one.
LEMMA DialPeerStep ==
    ASSUME TypeOK, LinkOK, TableOK,
           NEW n \in Node, NEW m \in Node, NEW l \in Link, DialPeer(n, m, l)
    PROVE  TableOK'
<1>1. UNCHANGED <<conns, victim, toClose>>
  BY DEF DialPeer
<1>2. \A k \in Link, s \in Side : k # l =>
        /\ pc'[k][s] = pc[k][s] /\ closed'[k][s] = closed[k][s]
        /\ Local(k, s)' = Local(k, s) /\ Remote(k, s)' = Remote(k, s)
  BY DEF DialPeer, TypeOK, Local, Remote
<1>3. \A s \in Side : pc[l][s] \in {"idle", "done"} /\ pc'[l][s] \in Early
  BY DEF DialPeer, Garbage, TypeOK, Side, Early
<1>4. \A k \in Link : \A a :
         /\ SideAt(k, a) \in Side
         /\ k # l => SideAt(k, a)' = SideAt(k, a)
  BY DEF SideAt, Side, DialPeer, TypeOK
<1>5. /\ \A k \in Link, s \in Side : victim[k][s] # l
      /\ \A a \in Node : l \notin toClose[a]
  BY DEF DialPeer, Garbage
<1>6. \A a, b \in Node : conns[a][b] # l
  BY <1>3, <1>4 DEF TableOK, NoOrphanEntry
<1>7. NoOrphanEntry'
  <2>1. SUFFICES ASSUME NEW a \in Node, NEW b \in Node, NEW k \in Link, conns'[a][b] = k
                 PROVE  /\ Local(k, SideAt(k, a))' = a /\ Remote(k, SideAt(k, a))' = b
                        /\ pc'[k][SideAt(k, a)'] \in {"super", "live", "ending"}
    BY DEF NoOrphanEntry
  <2>2. k # l /\ conns[a][b] = k
    BY <1>1, <1>6, <2>1
  <2>3. SideAt(k, a)' = SideAt(k, a) /\ SideAt(k, a) \in Side
    BY <1>4, <2>2
  <2>4. /\ Local(k, SideAt(k, a)) = a /\ Remote(k, SideAt(k, a)) = b
        /\ pc[k][SideAt(k, a)] \in {"super", "live", "ending"}
    BY <2>2 DEF TableOK, NoOrphanEntry
  <2>5. from'[k] = from[k] /\ to'[k] = to[k]
    BY <2>2 DEF DialPeer, TypeOK
  <2> QED
    BY <1>2, <2>2, <2>3, <2>4, <2>5 DEF Local, Remote, SideAt, Far
<1>8. ASSUME NEW k \in Link, NEW a \in Node, k # l, Retired(k, a) PROVE Retired(k, a)'
  <2>1. SideAt(k, a)' = SideAt(k, a) /\ SideAt(k, a) \in Side
    BY <1>4, <1>8
  <2>2. from'[k] = from[k] /\ to'[k] = to[k]
    BY <1>8 DEF DialPeer, TypeOK
  <2> QED
    BY <1>1, <1>2, <1>8, <2>1, <2>2 DEF Retired, Local, SideAt
<1>9. CondemnedOK'
  <2>1. ASSUME NEW k \in Link, NEW v \in Link, NEW s \in Side, victim'[k][s] = v
        PROVE  pc'[k][s] = "super" /\ Retired(v, Local(k, s))'
    <3>1. pc[k][s] = "super" /\ Retired(v, Local(k, s))
      BY <1>1, <2>1 DEF TableOK, CondemnedOK
    <3>2. k # l /\ v # l
      BY <1>1, <1>3, <1>5, <2>1, <3>1
    <3>3. PICK a \in Node : a = Local(k, s)
      BY <3>1, EndNodes
    <3>4. Retired(v, a)' /\ Local(k, s)' = a
      BY <1>2, <1>8, <3>1, <3>2, <3>3
    <3> QED
      BY <1>2, <3>1, <3>2, <3>4 DEF Retired
  <2>2. ASSUME NEW a \in Node, NEW k \in Link, k \in toClose'[a]
        PROVE  Retired(k, a)'
    BY <1>1, <1>5, <1>8, <2>2 DEF TableOK, CondemnedOK
  <2> QED
    BY <2>1, <2>2 DEF CondemnedOK
<1>10. NoStraySession'
  <2>1. SUFFICES ASSUME NEW k \in Link, NEW s \in Side,
                        pc'[k][s] \in {"super", "live"}, ~closed'[k][s]
                 PROVE  \/ conns'[Local(k, s)'][Remote(k, s)'] = k
                        \/ PendingClose(k, s)'
    BY DEF NoStraySession
  <2>2. k # l
    BY <1>3, <2>1 DEF Early
  <2>3. CASE conns[Local(k, s)][Remote(k, s)] = k
    BY <1>1, <1>2, <2>2, <2>3
  <2>4. CASE k \in toClose[Local(k, s)]
    BY <1>1, <1>2, <2>2, <2>4 DEF PendingClose
  <2>5. ASSUME NEW j \in Link, NEW t \in Side,
               Local(j, t) = Local(k, s), victim[j][t] = k
        PROVE  PendingClose(k, s)'
    <3>1. pc[j][t] = "super"
      BY <2>5 DEF TableOK, CondemnedOK
    <3>2. j # l
      BY <1>3, <3>1
    <3> QED
      BY <1>1, <1>2, <2>2, <2>5, <3>2 DEF PendingClose
  <2> QED
    BY <1>2, <2>1, <2>2, <2>3, <2>4, <2>5 DEF TableOK, NoStraySession, PendingClose
<1> QED
  BY <1>7, <1>9, <1>10 DEF TableOK

\* A replaced session is retired in the step that replaces it.
LEMMA RegisterStep ==
    ASSUME TypeOK, LinkOK, TableOK,
           NEW l \in Link, NEW s \in Side, Register(l, s)
    PROVE  TableOK'
<1>1. PICK n \in Node, m \in Node : n = Local(l, s) /\ m = Remote(l, s)
  BY EndNodes DEF Register
<1>2. UNCHANGED <<from, to, closed, toClose>> /\ pc[l][s] = "shook"
  BY DEF Register
<1>3. SideAt(l, n) = s
  BY <1>1, <1>2, EndNodes
<1>4. CASE Goto(l, s, "drop") /\ UNCHANGED <<conns, victim>>
  <2>1. Calm
    BY <1>2, <1>4, GotoAt DEF Calm, Early
  <2> QED
    BY <2>1, CalmStep
<1>5. CASE \/ conns[n][m] = None /\ Goto(l, s, "live") /\ UNCHANGED victim
           \/ /\ conns[n][m] # None /\ Goto(l, s, "super")
              /\ victim' = [victim EXCEPT ![l][s] = conns[n][m]]
  <2>1. CASE conns' # [conns EXCEPT ![n][m] = l]
    <3>1. Goto(l, s, "drop") /\ UNCHANGED <<conns, victim>>
      BY <1>1, <2>1 DEF Register
    <3> QED
      BY <1>4, <3>1
  <2>2. CASE conns' = [conns EXCEPT ![n][m] = l]
    <3>1. \A a, b \in Node :
            conns'[a][b] = IF a = n /\ b = m THEN l ELSE conns[a][b]
      BY <2>2 DEF TypeOK
    <3>2. PICK p \in {"live", "super"} : Goto(l, s, p)
      BY <1>5
    <3>3. \A k \in Link, t \in Side :
            pc'[k][t] = IF k = l /\ t = s THEN p ELSE pc[k][t]
      BY <3>2, GotoAt
    <3>4. /\ conns[n][m] \in Link => pc'[l][s] = "super" /\ victim'[l][s] = conns[n][m]
          /\ conns[n][m] = None => UNCHANGED victim
      BY <1>5, GotoAt DEF TypeOK
    <3>5. \A k \in Link, t \in Side : k # l \/ t # s => victim'[k][t] = victim[k][t]
      BY <1>5 DEF TypeOK
    <3>6. \A k \in Link, t \in Side :
            /\ Local(k, t)' = Local(k, t) /\ Remote(k, t)' = Remote(k, t)
      BY <1>2 DEF Local, Remote, Far
    <3>7. \A k \in Link : \A a : SideAt(k, a)' = SideAt(k, a) /\ SideAt(k, a) \in Side
      BY <1>2 DEF SideAt, Side
    <3>8. \A v \in Link : victim[l][s] # v
      BY <1>2 DEF TableOK, CondemnedOK
    <3>9. NoOrphanEntry'
      <4>1. SUFFICES ASSUME NEW a \in Node, NEW b \in Node, NEW k \in Link,
                            conns'[a][b] = k
                     PROVE  /\ Local(k, SideAt(k, a))' = a
                            /\ Remote(k, SideAt(k, a))' = b
                            /\ pc'[k][SideAt(k, a)'] \in {"super", "live", "ending"}
        BY DEF NoOrphanEntry
      <4>2. CASE a = n /\ b = m
        BY <1>1, <1>2, <1>3, <3>1, <3>3, <4>1, <4>2 DEF Local, Remote, SideAt, Far
      <4>3. CASE ~(a = n /\ b = m)
        <5>1. /\ Local(k, SideAt(k, a)) = a /\ Remote(k, SideAt(k, a)) = b
              /\ pc[k][SideAt(k, a)] \in {"super", "live", "ending"}
          BY <3>1, <4>1, <4>3 DEF TableOK, NoOrphanEntry
        <5> QED
          BY <1>2, <3>3, <3>7, <5>1 DEF Local, Remote, SideAt, Far
      <4> QED
        BY <4>2, <4>3
    <3>10. ASSUME NEW k \in Link, NEW a \in Node, Retired(k, a) PROVE Retired(k, a)'
      <4>1. ~(k = l /\ SideAt(k, a) = s)
        BY <1>2, <3>10 DEF Retired, Past
      <4>2. pc'[k][SideAt(k, a)] \in Past
        BY <3>3, <3>7, <3>10, <4>1 DEF Retired
      <4>3. \A b \in Node : conns'[a][b] # k
        BY <1>3, <3>1, <3>10, <4>1 DEF Retired
      <4> QED
        BY <1>2, <3>10, <4>2, <4>3, RetiredKept
    <3>11. ASSUME NEW e \in Link, e = conns[n][m] PROVE Retired(e, n)'
      <4>1. /\ Local(e, SideAt(e, n)) = n /\ Remote(e, SideAt(e, n)) = m
            /\ pc[e][SideAt(e, n)] \in {"super", "live", "ending"}
        BY <3>11 DEF TableOK, NoOrphanEntry
      <4>2. e # l
        BY <1>2, <1>3, <4>1
      <4>3. ASSUME NEW b \in Node PROVE conns'[n][b] # e
        <5>1. CASE b = m
          BY <3>1, <4>2, <5>1
        <5>2. CASE b # m
          BY <3>1, <4>1, <5>2 DEF TableOK, NoOrphanEntry
        <5> QED
          BY <5>1, <5>2
      <4>4. pc'[e][SideAt(e, n)] \in Past
        BY <3>3, <3>7, <4>1, <4>2 DEF Past
      <4> QED
        BY <1>2, <4>1, <4>3, <4>4 DEF Retired, Local, SideAt
    <3>12. CondemnedOK'
      <4>1. ASSUME NEW k \in Link, NEW v \in Link, NEW t \in Side, victim'[k][t] = v
            PROVE  pc'[k][t] = "super" /\ Retired(v, Local(k, t))'
        <5>1. CASE k = l /\ t = s
          <6>1. v = conns[n][m] /\ pc'[k][t] = "super"
            <7>1. conns[n][m] \in Link \cup {None}
              BY DEF TypeOK
            <7>2. CASE conns[n][m] = None
              BY <3>4, <3>8, <4>1, <5>1, <7>2
            <7>3. CASE conns[n][m] \in Link
              BY <3>4, <4>1, <5>1, <7>3
            <7> QED
              BY <7>1, <7>2, <7>3
          <6>2. Retired(v, n)' /\ Local(k, t)' = n
            BY <1>1, <3>6, <3>11, <5>1, <6>1
          <6> QED
            BY <6>1, <6>2 DEF Retired
        <5>2. CASE ~(k = l /\ t = s)
          <6>1. pc[k][t] = "super" /\ Retired(v, Local(k, t))
            BY <3>5, <4>1, <5>2 DEF TableOK, CondemnedOK
          <6>2. PICK a \in Node : a = Local(k, t)
            BY <6>1, EndNodes
          <6>3. Retired(v, a)' /\ Local(k, t)' = a
            BY <3>6, <3>10, <6>1, <6>2
          <6> QED
            BY <3>3, <5>2, <6>1, <6>3 DEF Retired
        <5> QED
          BY <5>1, <5>2
      <4>2. ASSUME NEW a \in Node, NEW k \in Link, k \in toClose'[a]
            PROVE  Retired(k, a)'
        BY <1>2, <3>10, <4>2 DEF TableOK, CondemnedOK
      <4> QED
        BY <4>1, <4>2 DEF CondemnedOK
    <3>13. NoStraySession'
      <4>1. SUFFICES ASSUME NEW k \in Link, NEW t \in Side,
                            pc'[k][t] \in {"super", "live"}, ~closed'[k][t]
                     PROVE  \/ conns'[Local(k, t)'][Remote(k, t)'] = k
                            \/ PendingClose(k, t)'
        BY DEF NoStraySession
      <4>2. CASE k = l /\ t = s
        BY <1>1, <3>1, <3>6, <4>2
      <4>3. CASE ~(k = l /\ t = s)
        <5>1. pc[k][t] \in {"super", "live"} /\ ~closed[k][t]
          BY <1>2, <3>3, <4>1, <4>3
        <5>2. PICK a \in Node, b \in Node : a = Local(k, t) /\ b = Remote(k, t)
          BY <5>1, EndNodes
        <5>3. CASE conns[a][b] = k /\ a = n /\ b = m
          <6>1. conns[n][m] = k
            BY <5>3
          <6>2. victim'[l][s] = k
            BY <3>4, <6>1
          <6>3. Local(l, s)' = n
            BY <1>1, <3>6
          <6>4. Local(k, t)' = n
            BY <3>6, <5>2, <5>3
          <6> QED
            BY <6>2, <6>3, <6>4 DEF PendingClose
        <5>4. CASE conns[a][b] = k /\ ~(a = n /\ b = m)
          BY <3>1, <3>6, <5>2, <5>4
        <5>5. CASE k \in toClose[a]
          BY <1>2, <3>6, <5>2, <5>5 DEF PendingClose
        <5>6. ASSUME NEW j \in Link, NEW u \in Side, Local(j, u) = a, victim[j][u] = k
              PROVE  PendingClose(k, t)'
          <6>1. ~(j = l /\ u = s)
            BY <3>8, <5>6
          <6> QED
            BY <3>5, <3>6, <5>2, <5>6, <6>1 DEF PendingClose
        <5> QED
          BY <5>1, <5>2, <5>3, <5>4, <5>5, <5>6 DEF TableOK, NoStraySession, PendingClose
      <4> QED
        BY <4>2, <4>3
    <3> QED
      BY <3>9, <3>12, <3>13 DEF TableOK
  <2> QED
    BY <2>1, <2>2
<1> QED
  BY <1>1, <1>4, <1>5 DEF Register

\* What is common to the steps below: the nodes of the links stay, no entry
\* appears, and an end past register stays past it.
Shrinks ==
    /\ UNCHANGED <<from, to>>
    /\ \A a, b \in Node, k \in Link : conns'[a][b] = k => conns[a][b] = k
    /\ \A k \in Link, t \in Side : pc[k][t] \in Past => pc'[k][t] \in Past

LEMMA ShrinksRetired ==
    ASSUME Shrinks, NEW k \in Link, NEW a \in Node, Retired(k, a)
    PROVE  Retired(k, a)'
<1>1. SideAt(k, a) \in Side
  BY DEF SideAt, Side
<1> QED
  BY <1>1, RetiredKept DEF Shrinks, Retired

LEMMA SameNodes ==
    ASSUME UNCHANGED <<from, to>>
    PROVE  /\ \A k \in Link, t \in Side :
                 Local(k, t)' = Local(k, t) /\ Remote(k, t)' = Remote(k, t)
           /\ \A k \in Link : \A a : SideAt(k, a)' = SideAt(k, a) /\ SideAt(k, a) \in Side
BY DEF Local, Remote, Far, SideAt, Side

\* NoOrphanEntry survives if no entry loses the goroutine that will remove it.
LEMMA ShrinksOrphan ==
    ASSUME NoOrphanEntry, Shrinks,
           \A a, b \in Node, k \in Link : conns'[a][b] = k =>
              pc'[k][SideAt(k, a)] \in {"super", "live", "ending"}
    PROVE  NoOrphanEntry'
BY DEF NoOrphanEntry, Shrinks, Local, Remote, SideAt, Far

\* CondemnedOK survives if nothing new is condemned.
LEMMA ShrinksCondemned ==
    ASSUME LinkOK, CondemnedOK, Shrinks,
           \A k, v \in Link, t \in Side : victim'[k][t] = v =>
              victim[k][t] = v /\ pc'[k][t] = pc[k][t],
           \A a \in Node : toClose'[a] \subseteq toClose[a]
    PROVE  CondemnedOK'
<1>1. UNCHANGED <<from, to>>
  BY DEF Shrinks
<1>2. ASSUME NEW k \in Link, NEW v \in Link, NEW t \in Side, victim'[k][t] = v
      PROVE  pc'[k][t] = "super" /\ Retired(v, Local(k, t))'
  <2>1. pc[k][t] = "super" /\ pc'[k][t] = "super" /\ Retired(v, Local(k, t))
    BY <1>2 DEF CondemnedOK
  <2>2. PICK a \in Node : a = Local(k, t)
    BY <2>1, EndNodes
  <2>3. Retired(v, a)' /\ Local(k, t)' = a
    BY <1>1, <2>1, <2>2, ShrinksRetired, SameNodes
  <2> QED
    BY <2>1, <2>3 DEF Retired
<1>3. ASSUME NEW a \in Node, NEW k \in Link, k \in toClose'[a] PROVE Retired(k, a)'
  BY <1>3, ShrinksRetired DEF CondemnedOK
<1> QED
  BY <1>2, <1>3 DEF CondemnedOK

LEMMA CloseVictimStep ==
    ASSUME TypeOK, LinkOK, TableOK,
           NEW l \in Link, NEW s \in Side, CloseVictim(l, s)
    PROVE  TableOK'
<1>1. UNCHANGED <<conns, from, to, toClose>> /\ pc[l][s] = "super" /\ Goto(l, s, "live")
  BY DEF CloseVictim
<1>2. \A k \in Link, t \in Side :
        /\ pc'[k][t] = IF k = l /\ t = s THEN "live" ELSE pc[k][t]
        /\ victim'[k][t] = IF k = l /\ t = s THEN None ELSE victim[k][t]
  BY <1>1, GotoAt DEF CloseVictim, TypeOK
<1>3. Shut(victim[l][s], SideAt(victim[l][s], Local(l, s)))
  BY DEF CloseVictim
<1>4. Shrinks
  BY <1>1, <1>2 DEF Shrinks, Past
<1>5. NoOrphanEntry'
  BY <1>1, <1>2, <1>4, SameNodes, ShrinksOrphan DEF TableOK, NoOrphanEntry
<1>6. CondemnedOK'
  BY <1>1, <1>2, <1>4, ShrinksCondemned DEF TableOK
<1>7. NoStraySession'
  <2>1. SUFFICES ASSUME NEW k \in Link, NEW t \in Side,
                        pc'[k][t] \in {"super", "live"}, ~closed'[k][t]
                 PROVE  \/ conns'[Local(k, t)'][Remote(k, t)'] = k
                        \/ PendingClose(k, t)'
    BY DEF NoStraySession
  <2>2. pc[k][t] \in {"super", "live"}
    BY <1>1, <1>2, <2>1
  <2>3. ~closed[k][t]
    BY <1>3, <2>1, ShutAt
  <2>4. CASE conns[Local(k, t)][Remote(k, t)] = k \/ k \in toClose[Local(k, t)]
    BY <1>1, <2>4, SameNodes DEF PendingClose
  <2>5. ASSUME NEW j \in Link, NEW u \in Side, Local(j, u) = Local(k, t), victim[j][u] = k
        PROVE  PendingClose(k, t)'
    <3>1. CASE j = l /\ u = s
      <4>1. SideAt(k, Local(l, s)) = t
        BY <2>2, <2>5, <3>1, EndNodes
      <4> QED
        BY <1>3, <2>1, <2>5, <3>1, <4>1, ShutAt
    <3>2. CASE ~(j = l /\ u = s)
      BY <1>1, <1>2, <2>5, <3>2, SameNodes DEF PendingClose
    <3> QED
      BY <3>1, <3>2
  <2> QED
    BY <2>2, <2>3, <2>4, <2>5 DEF TableOK, NoStraySession, PendingClose
<1> QED
  BY <1>5, <1>6, <1>7 DEF TableOK

LEMMA CleanupStep ==
    ASSUME TypeOK, LinkOK, TableOK,
           NEW l \in Link, NEW s \in Side, Cleanup(l, s)
    PROVE  TableOK'
<1>1. UNCHANGED <<from, to, closed, victim, toClose>> /\ pc[l][s] = "ending"
  BY DEF Cleanup
<1>2. PICK n \in Node, m \in Node : n = Local(l, s) /\ m = Remote(l, s)
  BY <1>1, EndNodes
<1>3. \A a, b \in Node :
        conns'[a][b] = IF a = n /\ b = m /\ conns[a][b] = l THEN None ELSE conns[a][b]
  BY <1>2 DEF Cleanup, TypeOK
<1>4. \A k \in Link, t \in Side :
        pc'[k][t] = IF k = l /\ t = s THEN "done" ELSE pc[k][t]
  BY GotoAt DEF Cleanup
<1>5. Shrinks
  BY <1>1, <1>3, <1>4 DEF Shrinks, Past
<1>6. NoOrphanEntry'
  <2>1. ASSUME NEW a \in Node, NEW b \in Node, NEW k \in Link, conns'[a][b] = k
        PROVE  pc'[k][SideAt(k, a)] \in {"super", "live", "ending"}
    <3>1. conns[a][b] = k
      BY <1>3, <2>1
    <3>2. /\ Local(k, SideAt(k, a)) = a /\ Remote(k, SideAt(k, a)) = b
          /\ pc[k][SideAt(k, a)] \in {"super", "live", "ending"}
      BY <3>1 DEF TableOK, NoOrphanEntry
    <3>3. ASSUME k = l, SideAt(k, a) = s PROVE FALSE
      <4>1. a = n /\ b = m
        BY <1>2, <3>2, <3>3
      <4>2. conns'[a][b] = None
        BY <1>3, <3>1, <3>3, <4>1
      <4> QED
        BY <2>1, <4>2
    <3>4. SideAt(k, a) \in Side
      BY <1>1, SameNodes
    <3> QED
      BY <1>4, <3>2, <3>3, <3>4
  <2> QED
    BY <1>5, <2>1, ShrinksOrphan DEF TableOK
<1>7. CondemnedOK'
  <2>1. \A k, v \in Link, t \in Side : victim[k][t] = v => pc[k][t] = "super"
    BY DEF TableOK, CondemnedOK
  <2> QED
    BY <1>1, <1>4, <1>5, <2>1, ShrinksCondemned DEF TableOK
<1>8. NoStraySession'
  <2>1. SUFFICES ASSUME NEW k \in Link, NEW t \in Side,
                        pc'[k][t] \in {"super", "live"}, ~closed'[k][t]
                 PROVE  \/ conns'[Local(k, t)'][Remote(k, t)'] = k
                        \/ PendingClose(k, t)'
    BY DEF NoStraySession
  <2>2. pc[k][t] \in {"super", "live"} /\ ~closed[k][t] /\ ~(k = l /\ t = s)
    BY <1>1, <1>4, <2>1
  <2>3. CASE PendingClose(k, t)
    BY <1>1, <2>3, SameNodes DEF PendingClose
  <2>4. CASE conns[Local(k, t)][Remote(k, t)] = k
    <3>1. PICK a \in Node, b \in Node : a = Local(k, t) /\ b = Remote(k, t)
      BY <2>2, EndNodes
    <3>2. ~(k = l /\ a = n)
      BY <1>1, <1>2, <2>2, <3>1, EndNodes
    <3> QED
      BY <1>1, <1>3, <2>4, <3>1, <3>2, SameNodes
  <2> QED
    BY <2>2, <2>3, <2>4 DEF TableOK, NoStraySession
<1> QED
  BY <1>6, <1>7, <1>8 DEF TableOK

LEMMA CloseAllStep ==
    ASSUME TypeOK, LinkOK, TableOK, NEW n \in Node, CloseAllConns(n)
    PROVE  TableOK'
<1>1. UNCHANGED <<from, to, pc, closed, victim>> /\ toClose[n] = {}
  BY DEF CloseAllConns
<1>2. \A a, b \in Node : conns'[a][b] = IF a = n THEN None ELSE conns[a][b]
  BY DEF CloseAllConns, TypeOK
<1>3. /\ toClose'[n] = {l \in Link : \E m \in Node : conns[n][m] = l}
      /\ \A a \in Node : a # n => toClose'[a] = toClose[a]
  BY DEF CloseAllConns, TypeOK
<1>4. Shrinks
  BY <1>1, <1>2 DEF Shrinks
<1>5. NoOrphanEntry'
  BY <1>1, <1>2, <1>4, SameNodes, ShrinksOrphan DEF TableOK, NoOrphanEntry
<1>6. CondemnedOK'
  <2>1. ASSUME NEW k \in Link, k \in toClose'[n] PROVE Retired(k, n)'
    <3>1. Local(k, SideAt(k, n)) = n /\ pc[k][SideAt(k, n)] \in Past
      <4>1. PICK m \in Node : conns[n][m] = k
        BY <1>3, <2>1
      <4> QED
        BY <4>1 DEF TableOK, NoOrphanEntry, Past
    <3>2. \A b \in Node : conns'[n][b] # k
      BY <1>2
    <3>3. from' = from /\ to' = to /\ pc' = pc
      BY <1>1
    <3> QED
      BY <3>1, <3>2, <3>3 DEF Retired, Local, SideAt
  <2>2. ASSUME NEW a \in Node, a # n, NEW k \in Link, k \in toClose'[a]
        PROVE  Retired(k, a)'
    BY <1>3, <1>4, <2>2, ShrinksRetired DEF TableOK, CondemnedOK
  <2>3. ASSUME NEW k \in Link, NEW v \in Link, NEW t \in Side, victim'[k][t] = v
        PROVE  pc'[k][t] = "super" /\ Retired(v, Local(k, t))'
    <3>1. pc[k][t] = "super" /\ pc'[k][t] = "super" /\ Retired(v, Local(k, t))
      BY <1>1, <2>3 DEF TableOK, CondemnedOK
    <3>2. PICK a \in Node : a = Local(k, t)
      BY <3>1, EndNodes
    <3>3. Retired(v, a)' /\ Local(k, t)' = a
      BY <1>1, <1>4, <3>1, <3>2, ShrinksRetired, SameNodes
    <3> QED
      BY <3>1, <3>3 DEF Retired
  <2> QED
    BY <2>1, <2>2, <2>3 DEF CondemnedOK
<1>7. NoStraySession'
  <2>1. SUFFICES ASSUME NEW k \in Link, NEW t \in Side,
                        pc[k][t] \in {"super", "live"}, ~closed[k][t]
                 PROVE  \/ conns'[Local(k, t)'][Remote(k, t)'] = k
                        \/ PendingClose(k, t)'
    BY <1>1 DEF NoStraySession
  <2>2. PICK a \in Node, b \in Node : a = Local(k, t) /\ b = Remote(k, t)
    BY <2>1, EndNodes
  <2>3. CASE conns[a][b] = k /\ a # n
    BY <1>1, <1>2, <2>2, <2>3, SameNodes
  <2>4. CASE (conns[a][b] = k /\ a = n) \/ k \in toClose[a]
    BY <1>1, <1>3, <2>2, <2>4, SameNodes DEF PendingClose
  <2>5. CASE \E j \in Link, u \in Side : Local(j, u) = a /\ victim[j][u] = k
    BY <1>1, <2>2, <2>5, SameNodes DEF PendingClose
  <2> QED
    BY <2>1, <2>2, <2>3, <2>4, <2>5 DEF TableOK, NoStraySession, PendingClose
<1> QED
  BY <1>5, <1>6, <1>7 DEF TableOK

LEMMA CloseListedStep ==
    ASSUME TypeOK, LinkOK, TableOK,
           NEW n \in Node, NEW l \in Link, CloseListed(n, l)
    PROVE  TableOK'
<1>1. UNCHANGED <<conns, from, to, pc, victim>> /\ Shut(l, SideAt(l, n))
  BY DEF CloseListed
<1>2. \A a \in Node : toClose'[a] = IF a = n THEN toClose[a] \ {l} ELSE toClose[a]
  BY DEF CloseListed, TypeOK
<1>3. Shrinks
  BY <1>1 DEF Shrinks
<1>4. NoOrphanEntry'
  BY <1>1, <1>3, SameNodes, ShrinksOrphan DEF TableOK, NoOrphanEntry
<1>5. CondemnedOK'
  BY <1>1, <1>2, <1>3, ShrinksCondemned DEF TableOK
<1>6. NoStraySession'
  <2>1. SUFFICES ASSUME NEW k \in Link, NEW t \in Side,
                        pc[k][t] \in {"super", "live"}, ~closed'[k][t]
                 PROVE  \/ conns'[Local(k, t)'][Remote(k, t)'] = k
                        \/ PendingClose(k, t)'
    BY <1>1 DEF NoStraySession
  <2>2. PICK a \in Node, b \in Node : a = Local(k, t) /\ b = Remote(k, t)
    BY <2>1, EndNodes
  <2>3. ~closed[k][t]
    BY <1>1, <2>1, ShutAt
  <2>4. ~(k = l /\ a = n)
    BY <1>1, <2>1, <2>2, EndNodes, ShutAt
  <2>5. CASE conns[a][b] = k \/ k \in toClose[a]
    BY <1>1, <1>2, <2>2, <2>4, <2>5, SameNodes DEF PendingClose
  <2>6. CASE \E j \in Link, u \in Side : Local(j, u) = a /\ victim[j][u] = k
    BY <1>1, <2>2, <2>6, SameNodes DEF PendingClose
  <2> QED
    BY <2>1, <2>2, <2>3, <2>5, <2>6 DEF TableOK, NoStraySession, PendingClose
<1> QED
  BY <1>4, <1>5, <1>6 DEF TableOK

LEMMA RestartStep ==
    ASSUME TypeOK, LinkOK, TableOK, NEW n \in Node, Restart(n)
    PROVE  TableOK'
<1>1. UNCHANGED <<from, to>>
  BY DEF Restart
<1>2. \A a, b \in Node : conns'[a][b] = IF a = n THEN None ELSE conns[a][b]
  BY DEF Restart, TypeOK
<1>3. \A a \in Node : toClose'[a] = IF a = n THEN {} ELSE toClose[a]
  BY DEF Restart, TypeOK
<1>4. \A k \in Link, t \in Side :
        IF Local(k, t) = n /\ pc[k][t] # "idle"
          THEN pc'[k][t] = "done" /\ victim'[k][t] = None
          ELSE /\ pc'[k][t] = pc[k][t] /\ victim'[k][t] = victim[k][t]
               /\ closed[k][t] => closed'[k][t]
  BY DEF Restart
<1>5. Shrinks
  BY <1>1, <1>2, <1>4 DEF Shrinks, Past
<1>6. NoOrphanEntry'
  <2>1. ASSUME NEW a \in Node, NEW b \in Node, NEW k \in Link, conns'[a][b] = k
        PROVE  pc'[k][SideAt(k, a)] \in {"super", "live", "ending"}
    <3>1. a # n /\ conns[a][b] = k
      BY <1>2, <2>1
    <3>2. /\ Local(k, SideAt(k, a)) = a
          /\ pc[k][SideAt(k, a)] \in {"super", "live", "ending"}
      BY <3>1 DEF TableOK, NoOrphanEntry
    <3> QED
      BY <1>1, <1>4, <3>1, <3>2, SameNodes
  <2> QED
    BY <1>5, <2>1, ShrinksOrphan DEF TableOK
<1>7. CondemnedOK'
  BY <1>3, <1>4, <1>5, ShrinksCondemned DEF TableOK
<1>8. NoStraySession'
  <2>1. SUFFICES ASSUME NEW k \in Link, NEW t \in Side,
                        pc'[k][t] \in {"super", "live"}, ~closed'[k][t]
                 PROVE  \/ conns'[Local(k, t)'][Remote(k, t)'] = k
                        \/ PendingClose(k, t)'
    BY DEF NoStraySession
  <2>2. pc[k][t] \in {"super", "live"} /\ ~closed[k][t] /\ Local(k, t) # n
    BY <1>4, <2>1
  <2>3. PICK a \in Node, b \in Node : a = Local(k, t) /\ b = Remote(k, t)
    BY <2>2, EndNodes
  <2>4. CASE conns[a][b] = k \/ k \in toClose[a]
    BY <1>1, <1>2, <1>3, <2>2, <2>3, <2>4, SameNodes DEF PendingClose
  <2>5. ASSUME NEW j \in Link, NEW u \in Side, Local(j, u) = a, victim[j][u] = k
        PROVE  PendingClose(k, t)'
    BY <1>1, <1>4, <2>2, <2>3, <2>5, SameNodes DEF PendingClose
  <2> QED
    BY <2>2, <2>3, <2>4, <2>5 DEF TableOK, NoStraySession, PendingClose
<1> QED
  BY <1>6, <1>7, <1>8 DEF TableOK

-----------------------------------------------------------------------------
(* The invariant of the specification.                                     *)

LEMMA InitInv == Init => IInv
BY DEF Init, IInv, TypeOK, LinkOK, NoOrphanEntry, CondemnedOK, NoStraySession, Phase, Side

LEMMA NextInv == IInv /\ [Next]_vars => IInv'
<1>1. SUFFICES ASSUME TypeOK, LinkOK, TableOK, [Next]_vars
               PROVE  TypeOK' /\ LinkOK' /\ TableOK'
  BY DEF IInv, TableOK
<1>2. TypeOK' /\ LinkOK'
  BY <1>1, TypeInv, LinkInv
<1>3. CASE CalmAction
  BY <1>1, <1>2, <1>3, CalmActions, CalmStep
<1>4. TableOK'
  BY <1>1, <1>3, DialPeerStep, RegisterStep, CloseVictimStep, CleanupStep,
     CloseAllStep, CloseListedStep, RestartStep DEF Next, EndStep, CalmAction
<1> QED
  BY <1>2, <1>4

\* The inductive invariant holds in every reachable state: types, the nodes of
\* the links, the table, and what has been taken out of it and not closed yet.
THEOREM InvariantHolds == Spec => []IInv
BY InitInv, NextInv, PTL DEF Spec

\* Every variable keeps its type.
THEOREM TypeCorrect == Spec => []TypeOK
<1>1. IInv => TypeOK
  BY DEF IInv
<1> QED
  BY <1>1, InvariantHolds, PTL

\* No entry of App.conns outlives the runConn that has to remove it: a send to
\* that peer would go into a session nobody reads.
THEOREM NoEntryOutlives == Spec => []NoOrphanEntry
<1>1. IInv => NoOrphanEntry
  BY DEF IInv
<1> QED
  BY <1>1, InvariantHolds, PTL

\* No open session exists outside the table unless somebody is about to close
\* it: whatever wins or loses a duplicate, nothing is left running unseen.
THEOREM NoSessionStrays == Spec => []NoStraySession
<1>1. IInv => NoStraySession
  BY DEF IInv
<1> QED
  BY <1>1, InvariantHolds, PTL

-----------------------------------------------------------------------------
(* A session dialed by the smaller node is stable.                         *)

Kept(n, m, l) ==
    /\ conns'[n][m] = l /\ conns'[m][n] = l /\ cut'[l] = cut[l]
    /\ \A s \in Side : pc'[l][s] = pc[l][s] /\ closed'[l][s] = closed[l][s]

\* No condemned link is the one both nodes have in their tables.
LEMMA AgreedNotRetired ==
    ASSUME IInv, NEW n \in Node, NEW m \in Node, NEW l \in Link, Agreed(n, m, l),
           NEW a \in Node
    PROVE  ~Retired(l, a)
<1>1. /\ Local(l, SideAt(l, n)) = n /\ Remote(l, SideAt(l, n)) = m
      /\ conns[n][m] = l /\ conns[m][n] = l
  BY DEF Agreed, IInv, NoOrphanEntry
<1>2. Local(l, SideAt(l, a)) = a => a \in {n, m}
  BY <1>1 DEF Local, Remote, SideAt, Far
<1> QED
  BY <1>1, <1>2 DEF Retired

LEMMA StableStep ==
    ASSUME IInv, [Next]_vars,
           NEW n \in Node, NEW m \in Node, NEW l \in Link,
           Agreed(n, m, l), n < m, from[l] = n, faults' = faults
    PROVE  Kept(n, m, l)
<1>1. TypeOK /\ LinkOK
  BY DEF IInv
<1>2. \A s \in Side : pc[l][s] = "live" /\ ~closed[l][s] /\ ~Gone(l, s)
  BY Sides DEF Agreed, Gone
<1>3. /\ conns[n][m] = l /\ conns[m][n] = l
      /\ to[l] = m
  <2>1. conns[n][m] = l /\ conns[m][n] = l
    BY DEF Agreed
  <2>2. Remote(l, SideAt(l, n)) = m
    BY <2>1 DEF IInv, NoOrphanEntry
  <2> QED
    BY <2>1, <2>2 DEF Local, Remote, SideAt, Far
<1>4. ~Fail
  BY <1>1, FailType
<1>5. ASSUME NEW a \in Node, NEW b \in Node, NEW k \in Link, DialPeer(a, b, k)
      PROVE  Kept(n, m, l)
  <2>1. k # l
    BY <1>2, <1>5, Sides DEF DialPeer, Garbage
  <2> QED
    BY <1>1, <1>3, <1>5, <2>1 DEF DialPeer, TypeOK, Kept
<1>6. ASSUME NEW k \in Link, Accept(k) \/ DialFails(k) \/ Answer(k) \/ ReadReply(k) \/ Cut(k)
      PROVE  Kept(n, m, l)
  <2>1. k # l /\ UNCHANGED <<conns, cut>>
    BY <1>2, <1>4, <1>6, Sides DEF Accept, DialFails, Answer, ReadReply, Cut
  <2>2. CASE Accept(k)
    BY <1>1, <1>3, <2>1, <2>2 DEF Accept, TypeOK, Kept
  <2>3. CASE Answer(k)
    <3>1. Goto(k, "in", "shook") /\ UNCHANGED closed
      BY <1>4, <2>3 DEF Answer
    <3> QED
      BY <1>1, <1>3, <2>1, <3>1, GotoAt, Sides DEF Kept
  <2>4. CASE ReadReply(k)
    BY <1>1, <1>3, <2>1, <2>4, GotoAt, Sides DEF ReadReply, Kept
  <2> QED
    BY <1>4, <1>6, <2>2, <2>3, <2>4 DEF DialFails, Cut
<1>7. ASSUME NEW k \in Link, NEW s \in Side,
             HandshakeFails(k, s) \/ CloseDropped(k, s) \/ ReadFails(k, s) \/ WriteFails(k, s)
      PROVE  Kept(n, m, l)
  <2>1. k # l /\ UNCHANGED <<conns, cut>> /\ Shut(k, s)
    BY <1>2, <1>7 DEF HandshakeFails, CloseDropped, ReadFails, WriteFails
  <2>2. \A t \in Side : pc'[l][t] = pc[l][t]
    BY <1>1, <1>7, <2>1, GotoAt DEF HandshakeFails, CloseDropped, ReadFails, WriteFails
  <2> QED
    BY <1>1, <1>3, <2>1, <2>2, ShutAt DEF Kept
<1>8. ASSUME NEW k \in Link, NEW s \in Side, Register(k, s) PROVE Kept(n, m, l)
  <2>1. k # l /\ UNCHANGED <<closed, cut>> /\ pc[k][s] = "shook"
    BY <1>2, <1>8 DEF Register
  <2>2. PICK a \in Node, b \in Node : a = Local(k, s) /\ b = Remote(k, s)
    BY <1>1, <2>1, EndNodes
  <2>3. from[k] = a \/ from[k] = b
    BY <2>2 DEF Local, Remote, Far
  <2>4. ASSUME conns[a][b] = l PROVE ~KeepNew(k, l)
    <3>1. {a, b} = {n, m}
      <4>1. Local(l, SideAt(l, a)) = a /\ Remote(l, SideAt(l, a)) = b
        BY <2>4 DEF IInv, NoOrphanEntry
      <4> QED
        BY <1>3, <4>1 DEF Local, Remote, SideAt, Far
    <3>2. n \in Nat /\ m \in Nat /\ from[k] \in {n, m}
      BY <2>3, <3>1
    <3> QED
      BY <3>2 DEF KeepNew, dialerOf
  <2>5. conns' = conns \/ (conns' = [conns EXCEPT ![a][b] = k] /\ conns[a][b] # l)
    <3>1. CASE conns' = conns
      BY <3>1
    <3>2. CASE conns[a][b] = None /\ conns' = [conns EXCEPT ![a][b] = k]
      BY <3>2
    <3>3. CASE KeepNew(k, conns[a][b]) /\ conns' = [conns EXCEPT ![a][b] = k]
      BY <2>4, <3>3
    <3> QED
      BY <1>8, <2>2, <3>1, <3>2, <3>3 DEF Register
  <2>6. \A t \in Side : pc'[l][t] = pc[l][t]
    BY <1>1, <1>8, <2>1, GotoAt DEF Register
  <2>7. conns'[n][m] = l /\ conns'[m][n] = l
    <3>1. CASE conns' = conns
      BY <1>3, <3>1
    <3>2. CASE conns' = [conns EXCEPT ![a][b] = k] /\ conns[a][b] # l
      <4>1. \A c, d \in Node :
              conns'[c][d] = IF c = a /\ d = b THEN k ELSE conns[c][d]
        BY <1>1, <3>2 DEF TypeOK
      <4> QED
        BY <1>3, <3>2, <4>1
    <3> QED
      BY <2>5, <3>1, <3>2
  <2> QED
    BY <2>1, <2>6, <2>7 DEF Kept
<1>9. ASSUME NEW k \in Link, NEW s \in Side, CloseVictim(k, s) PROVE Kept(n, m, l)
  <2>1. k # l /\ UNCHANGED <<conns, cut>> /\ pc[k][s] = "super" /\ Goto(k, s, "live")
    BY <1>2, <1>9 DEF CloseVictim
  <2>2. Local(k, s) \in Node
    BY <1>1, <2>1, EndNodes
  <2>3. victim[k][s] # l
    BY <2>2, AgreedNotRetired DEF IInv, CondemnedOK
  <2>4. Shut(victim[k][s], SideAt(victim[k][s], Local(k, s)))
    BY <1>9 DEF CloseVictim
  <2> QED
    BY <1>1, <1>3, <2>1, <2>3, <2>4, GotoAt, ShutAt DEF Kept
<1>10. ASSUME NEW k \in Link, NEW s \in Side, Cleanup(k, s) PROVE Kept(n, m, l)
  <2>1. k # l /\ UNCHANGED <<closed, cut>> /\ pc[k][s] = "ending" /\ Goto(k, s, "done")
    BY <1>2, <1>10 DEF Cleanup
  <2>2. PICK a \in Node, b \in Node : a = Local(k, s) /\ b = Remote(k, s)
    BY <1>1, <2>1, EndNodes
  <2>3. conns' = [conns EXCEPT ![a][b] = IF conns[a][b] = k THEN None ELSE conns[a][b]]
    BY <1>10, <2>2 DEF Cleanup
  <2>4. conns'[n][m] = l /\ conns'[m][n] = l
    BY <1>1, <1>3, <2>1, <2>3 DEF TypeOK
  <2> QED
    BY <1>1, <2>1, <2>4, GotoAt DEF Kept
<1>11. ASSUME NEW a \in Node, NEW k \in Link, CloseListed(a, k) PROVE Kept(n, m, l)
  <2>1. k # l
    BY <1>11, AgreedNotRetired DEF CloseListed, IInv, CondemnedOK
  <2>2. UNCHANGED <<conns, cut, pc>> /\ Shut(k, SideAt(k, a))
    BY <1>11 DEF CloseListed
  <2> QED
    BY <1>1, <1>3, <2>1, <2>2, ShutAt DEF Kept
<1>12. ASSUME NEW a \in Node, CloseAllConns(a) \/ Restart(a) PROVE Kept(n, m, l)
  BY <1>4, <1>12 DEF CloseAllConns, Restart
<1>13. ASSUME NEW k \in Link, NEW s \in Side, HandleBye(k, s) PROVE FALSE
  BY <1>4, <1>13 DEF HandleBye
<1>14. CASE UNCHANGED vars
  BY <1>3, <1>14 DEF vars, Kept
<1> QED
  BY <1>5, <1>6, <1>7, <1>8, <1>9, <1>10, <1>11, <1>12, <1>13, <1>14 DEF Next, EndStep

\* However many duplicates arrive and in whatever order the two nodes settle
\* them, only a failure ends a healthy session that the smaller node dialed.
THEOREM StableSurvivor == Spec => SurvivorIsStable
<1>1. ASSUME IInv, [Next]_vars
      PROVE  [\A n, m \in Node, l \in Link :
                Agreed(n, m, l) /\ n < m /\ dialerOf(l) = n /\ faults' = faults
                  => Agreed(n, m, l)']_vars
  <2>1. SUFFICES ASSUME NEW n \in Node, NEW m \in Node, NEW l \in Link,
                        Agreed(n, m, l), n < m, from[l] = n, faults' = faults
                 PROVE  Agreed(n, m, l)'
    BY DEF dialerOf
  <2>2. Kept(n, m, l)
    BY <1>1, <2>1, StableStep
  <2> QED
    BY <2>1, <2>2 DEF Kept, Agreed
<1> QED
  BY <1>1, InvariantHolds, PTL DEF Spec, SurvivorIsStable

-----------------------------------------------------------------------------
(* One attempt at a time: the two nodes converge.                          *)

OneAttempt == MaxInFlight = 1

\* A link its two nodes can count on: the smaller of them dialed it, or has
\* dialed none of the two.
Counts(l) ==
    /\ from[l] # None
    /\ from[l] < to[l] \/ ~\E k \in Link : from[k] = to[l] /\ to[k] = from[l]

\* Nobody closes it, and whoever has registered it has it in the table.
Sound(l) ==
    /\ \/ pc[l]["out"] = "dialing" /\ pc[l]["in"] = "idle"
       \/ \A s \in Side : pc[l][s] \in {"hello", "shook", "super", "live"}
    /\ \A s \in Side :
          /\ ~closed[l][s]
          /\ pc[l][s] \in {"super", "live"} => conns[Local(l, s)][Remote(l, s)] = l

Undisturbed == (\A l \in Link : ~cut[l]) /\ (\A n \in Node : toClose[n] = {})
PairsOK ==
    \A l \in Link : from[l] # None => from[l] \in Node /\ to[l] \in Node /\ from[l] # to[l]
CountsOK == \A l \in Link : Counts(l) => Sound(l)
OnlyOne ==
    \A k, l \in Link :
        Counts(k) /\ Counts(l) /\ from[k] = from[l] /\ to[k] = to[l] => k = l

\* As long as nothing failed, a link that counts is not refused, replaced or
\* closed at either end, and there is one of them between two nodes.
SurvivorOK == Undisturbed /\ PairsOK /\ CountsOK /\ OnlyOne

LEMMA SoundKept ==
    ASSUME NEW l \in Link, Sound(l), from[l] \in Node, to[l] \in Node,
           UNCHANGED <<from, to>>,
           \A s \in Side : pc'[l][s] = pc[l][s] /\ closed'[l][s] = closed[l][s],
           \A a, b \in Node : conns[a][b] = l => conns'[a][b] = l
    PROVE  Sound(l)'
<1>1. \A s \in Side : Local(l, s) \in Node /\ Remote(l, s) \in Node
  BY Sides DEF Local, Remote
<1>2. \A s \in Side : Local(l, s)' = Local(l, s) /\ Remote(l, s)' = Remote(l, s)
  BY DEF Local, Remote, Far
<1>3. ASSUME NEW s \in Side
      PROVE  /\ ~closed'[l][s]
             /\ pc'[l][s] \in {"super", "live"} => conns'[Local(l, s)'][Remote(l, s)'] = l
  <2>1. PICK a \in Node, b \in Node : a = Local(l, s) /\ b = Remote(l, s)
    BY <1>1, <1>3
  <2>2. ~closed[l][s] /\ (pc[l][s] \in {"super", "live"} => conns[a][b] = l)
    BY <1>3, <2>1 DEF Sound
  <2>3. Local(l, s)' = a /\ Remote(l, s)' = b
    BY <1>2, <1>3, <2>1
  <2> QED
    BY <1>3, <2>2, <2>3
<1>4. \/ pc'[l]["out"] = "dialing" /\ pc'[l]["in"] = "idle"
      \/ \A s \in Side : pc'[l][s] \in {"hello", "shook", "super", "live"}
  BY Sides DEF Sound
<1> QED
  BY <1>3, <1>4 DEF Sound

\* Which links count changes with a dial only.
LEMMA SameCounts ==
    ASSUME SurvivorOK, UNCHANGED <<from, to, cut, toClose>>,
           \A l \in Link : Counts(l) /\ Sound(l) /\ from[l] \in Node /\ to[l] \in Node
                               => Sound(l)'
    PROVE  SurvivorOK'
<1>1. \A l \in Link : Counts(l)' = Counts(l)
  BY DEF Counts
<1> QED
  BY <1>1 DEF SurvivorOK, Undisturbed, PairsOK, CountsOK, OnlyOne, Counts

\* A link that counts is in use, and no close of it is pending.
LEMMA SoundOpen ==
    ASSUME SurvivorOK, NEW l \in Link, Counts(l)
    PROVE  /\ Sound(l) /\ from[l] \in Node /\ to[l] \in Node /\ from[l] # to[l]
           /\ \A s \in Side : ~closed[l][s] /\ ~Gone(l, s)
           /\ \A s \in Side : pc[l][s] \notin {"drop", "ending", "done"}
           /\ pc[l]["out"] # "idle"
           /\ \A a \in Node : ~Retired(l, a)
<1>1. Sound(l) /\ from[l] \in Node /\ to[l] \in Node /\ from[l] # to[l] /\ ~cut[l]
  BY DEF SurvivorOK, CountsOK, PairsOK, Counts, Undisturbed
<1>2. \A s \in Side : ~closed[l][s] /\ ~Gone(l, s)
  BY <1>1, Sides DEF Sound, Gone
<1>3. /\ \A s \in Side : pc[l][s] \notin {"drop", "ending", "done"}
      /\ pc[l]["out"] # "idle"
  BY <1>1, Sides DEF Sound, Side
<1>4. ASSUME NEW a \in Node, Retired(l, a) PROVE FALSE
  <2>1. SideAt(l, a) \in Side /\ Local(l, SideAt(l, a)) = a
        /\ Remote(l, SideAt(l, a)) \in Node
    BY <1>1, <1>4 DEF Retired, SideAt, Side, Local, Remote, Far
  <2>2. pc[l][SideAt(l, a)] \in {"super", "live"}
    BY <1>3, <1>4, <2>1 DEF Retired, Past
  <2> QED
    BY <1>1, <1>4, <2>1, <2>2 DEF Sound, Retired
<1> QED
  BY <1>1, <1>2, <1>3, <1>4

-----------------------------------------------------------------------------
(* The steps that could hurt a link that counts.                           *)

\* A step of another end, in which that end's link keeps what it has.
LEMMA OtherEnd ==
    ASSUME SurvivorOK, TypeOK, NEW k \in Link, NEW t \in Side,
           UNCHANGED <<conns, from, to, cut, toClose>>,
           UNCHANGED closed \/ Shut(k, t),
           \E p : Goto(k, t, p) \/ UNCHANGED pc,
           ~Counts(k)
    PROVE  SurvivorOK'
<1>1. ASSUME NEW l \in Link, Counts(l), NEW s \in Side
      PROVE  pc'[l][s] = pc[l][s] /\ closed'[l][s] = closed[l][s]
  <2>1. l # k
    BY <1>1
  <2> QED
    BY <2>1, GotoAt, ShutAt
<1> QED
  BY <1>1, SoundKept, SameCounts

\* The two ends of a table entry, seen from the node that registers k: a link
\* that counts is not the one to give way.
LEMMA WhoWins ==
    ASSUME SurvivorOK, IInv, NEW k \in Link, NEW s \in Side, pc[k][s] = "shook",
           NEW n \in Node, NEW m \in Node, n = Local(k, s), m = Remote(k, s),
           NEW e \in Link, conns[n][m] = e
    PROVE  /\ e # k
           /\ Counts(k) => KeepNew(k, e)
           /\ Counts(e) => ~KeepNew(k, e)
<1>1. /\ Local(e, SideAt(e, n)) = n /\ Remote(e, SideAt(e, n)) = m
      /\ pc[e][SideAt(e, n)] \in {"super", "live", "ending"}
  BY DEF IInv, NoOrphanEntry
<1>2. n # m /\ SideAt(k, n) = s
  BY EndNodes DEF IInv
<1>3. e # k
  BY <1>1, <1>2
<1>4. \/ from[k] = n /\ to[k] = m
      \/ from[k] = m /\ to[k] = n
  BY DEF Local, Remote, Far, Side
<1>5. \/ from[e] = n /\ to[e] = m
      \/ from[e] = m /\ to[e] = n
  BY <1>1 DEF Local, Remote, Far, SideAt
<1>6. n \in Nat /\ m \in Nat /\ n # None /\ m # None
  OBVIOUS
<1>7. CASE from[k] = from[e]
  <2>1. to[k] = to[e]
    BY <1>2, <1>4, <1>5, <1>7
  <2>2. Counts(k) = Counts(e)
    BY <1>7, <2>1 DEF Counts
  <2>3. ~Counts(k) /\ ~Counts(e)
    BY <1>3, <1>7, <2>1, <2>2 DEF SurvivorOK, OnlyOne
  <2> QED
    BY <1>3, <2>3
<1>8. CASE from[k] # from[e]
  <2>1. from[k] = to[e] /\ to[k] = from[e]
    BY <1>4, <1>5, <1>8
  <2>2. Counts(k) => from[k] < from[e]
    BY <2>1 DEF Counts
  <2>3. Counts(e) => ~(from[k] < from[e])
    BY <1>4, <1>5, <1>6, <2>1 DEF Counts
  <2> QED
    BY <1>3, <2>2, <2>3 DEF KeepNew, dialerOf
<1> QED
  BY <1>7, <1>8

LEMMA RegisterSurvives ==
    ASSUME SurvivorOK, IInv, NEW k \in Link, NEW s \in Side, Register(k, s)
    PROVE  SurvivorOK'
<1>1. /\ UNCHANGED <<from, to, closed, cut, toClose>> /\ pc[k][s] = "shook"
      /\ TypeOK /\ LinkOK
  BY DEF Register, IInv
<1>2. PICK n \in Node, m \in Node : n = Local(k, s) /\ m = Remote(k, s)
  BY <1>1, EndNodes
<1>3. /\ Local(k, s)' = Local(k, s) /\ Remote(k, s)' = Remote(k, s)
      /\ SideAt(k, n) = s
  BY <1>1, <1>2, EndNodes DEF Local, Remote, Far
<1>4. conns[n][m] \in Link \cup {None}
  BY <1>1 DEF TypeOK
<1>5. PICK p \in {"live", "super", "drop"} :
        /\ Goto(k, s, p)
        /\ \/ p = "drop" /\ UNCHANGED conns
           \/ p # "drop" /\ conns' = [conns EXCEPT ![n][m] = k]
        /\ Counts(k) => p # "drop"
        /\ \A e \in Link : conns[n][m] = e /\ Counts(e) => p = "drop"
  BY <1>1, <1>2, <1>4, WhoWins DEF Register
<1>6. \A l \in Link, t \in Side : pc'[l][t] = IF l = k /\ t = s THEN p ELSE pc[l][t]
  BY <1>1, <1>5, GotoAt
<1>7. \A a, b \in Node :
        conns'[a][b] = IF a = n /\ b = m /\ p # "drop" THEN k ELSE conns[a][b]
  BY <1>1, <1>5 DEF TypeOK
<1>8. ASSUME NEW l \in Link, l # k, Counts(l) PROVE Sound(l)'
  <2>1. \A a, b \in Node : conns[a][b] = l => conns'[a][b] = l
    BY <1>5, <1>7, <1>8
  <2> QED
    BY <1>1, <1>6, <1>8, <2>1, SoundOpen, SoundKept
<1>9. ASSUME Counts(k) PROVE Sound(k)'
  <2>1. Sound(k) /\ from[k] \in Node /\ to[k] \in Node /\ p \in {"live", "super"}
        /\ conns'[n][m] = k
    BY <1>5, <1>7, <1>9, SoundOpen
  <2>2. \A t \in Side : pc'[k][t] \in {"hello", "shook", "super", "live"}
    BY <1>1, <1>6, <2>1, Sides DEF Sound, Side
  <2>3. ASSUME NEW t \in Side
        PROVE  /\ ~closed'[k][t]
               /\ pc'[k][t] \in {"super", "live"} => conns'[Local(k, t)'][Remote(k, t)'] = k
    <3>1. ~closed[k][t]
          /\ (pc[k][t] \in {"super", "live"} => conns[Local(k, t)][Remote(k, t)] = k)
      BY <2>1 DEF Sound
    <3>2. Local(k, t) \in Node /\ Remote(k, t) \in Node
          /\ Local(k, t)' = Local(k, t) /\ Remote(k, t)' = Remote(k, t)
      BY <1>1, <2>1 DEF Local, Remote, Far
    <3>3. CASE t = s
      BY <1>1, <1>2, <2>1, <3>1, <3>2, <3>3
    <3>4. CASE t # s
      <4>1. pc'[k][t] = pc[k][t]
        BY <1>6, <3>4
      <4>2. conns[Local(k, t)][Remote(k, t)] = k => conns'[Local(k, t)][Remote(k, t)] = k
        BY <1>7, <3>2
      <4> QED
        BY <1>1, <3>1, <3>2, <4>1, <4>2
    <3> QED
      BY <3>3, <3>4
  <2> QED
    BY <2>2, <2>3 DEF Sound
<1> QED
  BY <1>1, <1>8, <1>9, SameCounts

LEMMA CloseVictimSurvives ==
    ASSUME SurvivorOK, IInv, NEW k \in Link, NEW s \in Side, CloseVictim(k, s)
    PROVE  SurvivorOK'
<1>1. /\ UNCHANGED <<conns, from, to, cut, toClose>> /\ pc[k][s] = "super"
      /\ Goto(k, s, "live") /\ TypeOK /\ LinkOK
  BY DEF CloseVictim, IInv
<1>2. PICK n \in Node : n = Local(k, s)
  BY <1>1, EndNodes
<1>3. ASSUME NEW l \in Link, Counts(l) PROVE victim[k][s] # l
  BY <1>2, <1>3, SoundOpen DEF IInv, CondemnedOK
<1>4. ASSUME NEW l \in Link, Counts(l), NEW t \in Side
      PROVE  closed'[l][t] = closed[l][t]
  BY <1>1, <1>3, <1>4, ShutAt DEF CloseVictim
<1>5. \A l \in Link, t \in Side : pc'[l][t] = IF l = k /\ t = s THEN "live" ELSE pc[l][t]
  BY <1>1, GotoAt
<1>6. ASSUME NEW l \in Link, Counts(l) PROVE Sound(l)'
  <2>1. Sound(l)
    BY <1>6, SoundOpen
  <2>2. \A t \in Side : Local(l, t)' = Local(l, t) /\ Remote(l, t)' = Remote(l, t)
    BY <1>1 DEF Local, Remote, Far
  <2>3. \/ pc'[l]["out"] = "dialing" /\ pc'[l]["in"] = "idle"
        \/ \A t \in Side : pc'[l][t] \in {"hello", "shook", "super", "live"}
    BY <1>1, <1>5, <2>1, Sides DEF Sound, Side
  <2>4. ASSUME NEW t \in Side
        PROVE  /\ ~closed'[l][t]
               /\ pc'[l][t] \in {"super", "live"} => conns'[Local(l, t)'][Remote(l, t)'] = l
    BY <1>1, <1>4, <1>5, <1>6, <2>1, <2>2 DEF Sound
  <2> QED
    BY <2>3, <2>4 DEF Sound
<1> QED
  BY <1>1, <1>6, SameCounts

LEMMA CleanupSurvives ==
    ASSUME SurvivorOK, IInv, NEW k \in Link, NEW s \in Side, Cleanup(k, s)
    PROVE  SurvivorOK'
<1>1. /\ UNCHANGED <<from, to, closed, cut, toClose>> /\ pc[k][s] = "ending"
      /\ Goto(k, s, "done") /\ TypeOK /\ LinkOK
  BY DEF Cleanup, IInv
<1>2. PICK n \in Node, m \in Node : n = Local(k, s) /\ m = Remote(k, s)
  BY <1>1, EndNodes
<1>3. \A a, b \in Node :
        conns'[a][b] = IF a = n /\ b = m /\ conns[a][b] = k THEN None ELSE conns[a][b]
  BY <1>1, <1>2 DEF Cleanup, TypeOK
<1>4. ASSUME NEW l \in Link, Counts(l) PROVE Sound(l)'
  <2>1. l # k
    BY <1>1, <1>4, SoundOpen
  <2>2. \A t \in Side : pc'[l][t] = pc[l][t]
    BY <1>1, <2>1, GotoAt
  <2>3. \A a, b \in Node : conns[a][b] = l => conns'[a][b] = l
    BY <1>3, <2>1
  <2> QED
    BY <1>1, <1>4, <2>2, <2>3, SoundOpen, SoundKept
<1> QED
  BY <1>1, <1>4, SameCounts

\* While an attempt of n at m is on its way, or n has a session with m, n does
\* not dial m; a new attempt counts if the pair has nothing better.
LEMMA DialPeerSurvives ==
    ASSUME OneAttempt, SurvivorOK, IInv,
           NEW n \in Node, NEW m \in Node, NEW k \in Link, DialPeer(n, m, k)
    PROVE  SurvivorOK'
<1>1. /\ UNCHANGED <<conns, victim, toClose, faults>> /\ n # m /\ conns[n][m] = None
      /\ TypeOK /\ n # None /\ m # None
  BY DEF DialPeer, IInv
<1>2. /\ from'[k] = n /\ to'[k] = m /\ ~cut'[k]
      /\ \A l \in Link : l # k => from'[l] = from[l] /\ to'[l] = to[l] /\ cut'[l] = cut[l]
  BY <1>1 DEF DialPeer, TypeOK
<1>3. /\ pc'[k]["out"] = "dialing" /\ pc'[k]["in"] = "idle"
      /\ \A s \in Side : ~closed'[k][s]
      /\ \A l \in Link, s \in Side : l # k =>
            pc'[l][s] = pc[l][s] /\ closed'[l][s] = closed[l][s]
  BY <1>1, Sides DEF DialPeer, TypeOK, Side
<1>4. ~Counts(k)
  <2>1. pc[k]["out"] \in {"idle", "done"}
    BY Sides DEF DialPeer, Garbage
  <2> QED
    BY <2>1, SoundOpen, Sides
<1>5. InFlight(n, m) = {}
  <2>1. IsFiniteSet(InFlight(n, m))
    BY LinkAssumption, FS_Subset DEF InFlight
  <2>2. Cardinality(InFlight(n, m)) < 1 /\ Cardinality(InFlight(n, m)) \in Nat
    BY <2>1, FS_CardinalityType DEF DialPeer, OneAttempt
  <2>3. Cardinality(InFlight(n, m)) = 0
    BY <2>2
  <2> QED
    BY <2>1, <2>3, FS_EmptySet
<1>6. ASSUME NEW l \in Link, l # k, Counts(l)' PROVE Counts(l)
  <2>1. from[l] # None /\ to[l] = to'[l] /\ from[l] = from'[l]
    BY <1>2, <1>6 DEF Counts
  <2>2. ASSUME ~(from[l] < to[l]), NEW j \in Link, from[j] = to[l], to[j] = from[l]
        PROVE  FALSE
    <3>1. j = k
      BY <1>2, <1>6, <2>1, <2>2 DEF Counts
    <3>2. from[l] \in Node /\ to[l] \in Node /\ from[l] # to[l]
      BY <2>1 DEF SurvivorOK, PairsOK
    <3>3. from[l] \in Nat /\ to[l] \in Nat /\ to[l] # None
      BY <3>2
    <3>4. from[k] < to[k] /\ from[k] # None
      BY <2>2, <3>1, <3>2, <3>3
    <3> QED
      BY <1>4, <3>4 DEF Counts
  <2> QED
    BY <2>1, <2>2 DEF Counts
<1>7. ASSUME NEW l \in Link, l # k, Counts(l) PROVE Sound(l)'
  <2>1. Sound(l) /\ from[l] \in Node /\ to[l] \in Node
    BY <1>7, SoundOpen
  <2>2. /\ \A s \in Side : ~closed[l][s]
        /\ \A s \in Side : pc[l][s] \in {"super", "live"} => conns[Local(l, s)][Remote(l, s)] = l
        /\ \/ pc[l]["out"] = "dialing" /\ pc[l]["in"] = "idle"
           \/ \A s \in Side : pc[l][s] \in {"hello", "shook", "super", "live"}
    BY <2>1 DEF Sound
  <2>3. \A s \in Side : Local(l, s)' = Local(l, s) /\ Remote(l, s)' = Remote(l, s)
    BY <1>2, <1>7 DEF Local, Remote, Far
  <2>4. ASSUME NEW s \in Side
        PROVE  /\ ~closed'[l][s]
               /\ pc'[l][s] \in {"super", "live"} => conns'[Local(l, s)'][Remote(l, s)'] = l
    BY <1>1, <1>3, <1>7, <2>2, <2>3, <2>4
  <2>5. \/ pc'[l]["out"] = "dialing" /\ pc'[l]["in"] = "idle"
        \/ \A s \in Side : pc'[l][s] \in {"hello", "shook", "super", "live"}
    BY <1>3, <1>7, <2>2, Sides
  <2> QED
    BY <2>4, <2>5 DEF Sound
<1>8. Sound(k)'
  <2>1. \A s \in Side : pc'[k][s] \notin {"super", "live"}
    BY <1>3 DEF Side
  <2> QED
    BY <1>3, <2>1 DEF Sound
<1>9. ASSUME NEW l \in Link, l # k, Counts(l), from[l] = n, to[l] = m PROVE FALSE
  <2>1. Sound(l)
    BY <1>9, SoundOpen
  <2>2. pc[l]["out"] \notin {"dialing", "hello", "shook"}
    BY <1>5, <1>9 DEF InFlight
  <2>3. pc[l]["out"] \in {"super", "live"}
    BY <2>1, <2>2, Sides DEF Sound
  <2>4. conns[Local(l, "out")][Remote(l, "out")] = l
    BY <2>1, <2>3, Sides DEF Sound
  <2>5. Local(l, "out") = n /\ Remote(l, "out") = m
    BY <1>9 DEF Local, Remote, Far
  <2> QED
    BY <1>1, <1>9, <2>4, <2>5
<1>10. Undisturbed'
  BY <1>1, <1>2 DEF SurvivorOK, Undisturbed
<1>11. PairsOK'
  <2>1. ASSUME NEW l \in Link, from'[l] # None
        PROVE  from'[l] \in Node /\ to'[l] \in Node /\ from'[l] # to'[l]
    BY <1>1, <1>2, <2>1 DEF SurvivorOK, PairsOK
  <2> QED
    BY <2>1 DEF PairsOK
<1>12. CountsOK'
  <2>1. ASSUME NEW l \in Link, Counts(l)' PROVE Sound(l)'
    BY <1>6, <1>7, <1>8, <2>1
  <2> QED
    BY <2>1 DEF CountsOK
<1>13. OnlyOne'
  <2>1. ASSUME NEW i \in Link, NEW l \in Link, Counts(i)', Counts(l)',
               from'[i] = from'[l], to'[i] = to'[l]
        PROVE  i = l
    <3>1. CASE i # k /\ l # k
      BY <1>2, <1>6, <2>1, <3>1 DEF SurvivorOK, OnlyOne
    <3>2. CASE i = k /\ l # k
      BY <1>2, <1>6, <1>9, <2>1, <3>2
    <3>3. CASE i # k /\ l = k
      BY <1>2, <1>6, <1>9, <2>1, <3>3
    <3> QED
      BY <3>1, <3>2, <3>3
  <2> QED
    BY <2>1 DEF OnlyOne
<1> QED
  BY <1>10, <1>11, <1>12, <1>13 DEF SurvivorOK

\* What the steps of a handshake do to their link keeps it sound.
LEMMA HandshakeSurvives ==
    ASSUME SurvivorOK, IInv, NEW k \in Link, ~Fail, Accept(k) \/ Answer(k) \/ ReadReply(k)
    PROVE  SurvivorOK'
<1>1. /\ UNCHANGED <<conns, from, to, cut, toClose, closed>> /\ TypeOK
  BY DEF Accept, Answer, ReadReply, IInv
<1>2. /\ \A l \in Link, s \in Side : l # k => pc'[l][s] = pc[l][s]
      /\ Sound(k) => \A s \in Side : /\ pc'[k][s] \in {"hello", "shook", "super", "live"}
                                     /\ pc'[k][s] \in {"hello", "shook"} \/ pc'[k][s] = pc[k][s]
  <2>1. CASE Accept(k)
    BY <1>1, <2>1, Sides DEF Accept, TypeOK
  <2>2. CASE Answer(k)
    <3>1. Goto(k, "in", "shook") /\ pc[k]["in"] = "hello"
      BY <2>2 DEF Answer
    <3> QED
      BY <1>1, <3>1, GotoAt, Sides DEF Sound
  <2>3. CASE ReadReply(k)
    <3>1. Goto(k, "out", "shook") /\ pc[k]["out"] = "hello"
      BY <2>3 DEF ReadReply
    <3> QED
      BY <1>1, <3>1, GotoAt, Sides DEF Sound
  <2> QED
    BY <2>1, <2>2, <2>3
<1>3. ASSUME NEW l \in Link, Sound(l), from[l] \in Node, to[l] \in Node PROVE Sound(l)'
  <2>1. CASE l # k
    BY <1>1, <1>2, <1>3, <2>1, SoundKept
  <2>2. CASE l = k
    <3>1. \A s \in Side : Local(l, s)' = Local(l, s) /\ Remote(l, s)' = Remote(l, s)
      BY <1>1 DEF Local, Remote, Far
    <3>2. ASSUME NEW s \in Side
          PROVE  /\ ~closed'[l][s]
                 /\ pc'[l][s] \in {"super", "live"} => conns'[Local(l, s)'][Remote(l, s)'] = l
      BY <1>1, <1>2, <1>3, <2>2, <3>1, <3>2 DEF Sound
    <3> QED
      BY <1>2, <1>3, <2>2, <3>2 DEF Sound
  <2> QED
    BY <2>1, <2>2
<1> QED
  BY <1>1, <1>3, SameCounts

\* What failed is not forgotten.
LEMMA FaultsGrow ==
    ASSUME TypeOK, [Next]_vars, faults' = 0
    PROVE  faults = 0
  BY DEF TypeOK, Next, EndStep, vars, DialPeer, Accept, DialFails, Answer, ReadReply, Cut,
     HandshakeFails, Register, CloseVictim, CloseDropped, WriteFails, ReadFails, HandleBye, Cleanup,
     CloseAllConns, Restart, CloseListed, Fail, CanFail

LEMMA SurvivorNext ==
    ASSUME OneAttempt, IInv, SurvivorOK, [Next]_vars, faults' = faults
    PROVE  SurvivorOK'
<1>1. TypeOK /\ ~Fail
  BY FailType DEF IInv
<1>2. ASSUME NEW k \in Link, Accept(k) \/ DialFails(k) \/ Answer(k) \/ ReadReply(k) \/ Cut(k)
      PROVE  SurvivorOK'
  BY <1>1, <1>2, HandshakeSurvives DEF DialFails, Cut
<1>3. ASSUME NEW k \in Link, NEW s \in Side,
             HandshakeFails(k, s) \/ CloseDropped(k, s) \/ ReadFails(k, s) \/ WriteFails(k, s)
      PROVE  SurvivorOK'
  <2>1. ~Counts(k)
    BY <1>1, <1>3, SoundOpen DEF HandshakeFails, CloseDropped, ReadFails, WriteFails
  <2> QED
    BY <1>1, <1>3, <2>1, OtherEnd DEF HandshakeFails, CloseDropped, ReadFails, WriteFails
<1>4. ASSUME NEW a \in Node, NEW k \in Link, CloseListed(a, k) PROVE FALSE
  BY <1>4 DEF CloseListed, SurvivorOK, Undisturbed
<1>5. ASSUME NEW a \in Node, CloseAllConns(a) \/ Restart(a) PROVE FALSE
  BY <1>1, <1>5 DEF CloseAllConns, Restart
<1>6. ASSUME NEW k \in Link, NEW s \in Side, HandleBye(k, s) PROVE FALSE
  BY <1>1, <1>6 DEF HandleBye
<1>7. CASE UNCHANGED vars
  <2>1. \A l \in Link : Sound(l)' = Sound(l)
    BY <1>7 DEF vars, Sound, Local, Remote, Far
  <2> QED
    BY <1>7, <2>1, SameCounts DEF vars
<1> QED
  BY <1>2, <1>3, <1>4, <1>5, <1>6, <1>7, DialPeerSurvives, RegisterSurvives, CloseVictimSurvives,
     CleanupSurvives DEF Next, EndStep

\* One attempt of each node at the other at a time, and nothing failed: whatever
\* order both ends register in, they end up with the same session, and with one.
THEOREM BothConverge ==
    ASSUME OneAttempt
    PROVE  Spec => []ConvergeOnSurvivor
<1>1. Init => SurvivorOK
  BY DEF Init, SurvivorOK, Undisturbed, PairsOK, CountsOK, OnlyOne, Counts
<1>2. IInv /\ (faults = 0 => SurvivorOK) /\ [Next]_vars => (faults = 0 => SurvivorOK)'
  <2>1. SUFFICES ASSUME IInv, faults = 0 => SurvivorOK, [Next]_vars, faults' = 0
                 PROVE  SurvivorOK'
    OBVIOUS
  <2>2. faults' = faults
    BY <2>1, FaultsGrow DEF IInv
  <2> QED
    BY <2>1, <2>2, SurvivorNext
<1>3. IInv /\ (faults = 0 => SurvivorOK) => ConvergeOnSurvivor
  <2>1. SUFFICES ASSUME SurvivorOK, Settled, NEW l \in Link, from[l] # None
                 PROVE  /\ conns[from[l]][to[l]] # None
                        /\ conns[from[l]][to[l]] = conns[to[l]][from[l]]
    BY DEF ConvergeOnSurvivor
  <2>2. ASSUME NEW k \in Link, Counts(k)
        PROVE  conns[from[k]][to[k]] = k /\ conns[to[k]][from[k]] = k
    <3>1. Sound(k)
      BY <2>1, <2>2, SoundOpen
    <3>2. \A s \in Side : pc[k][s] = "live"
      BY <2>1, <3>1, Sides DEF Settled, Sound
    <3>3. \A s \in Side : conns[Local(k, s)][Remote(k, s)] = k
      BY <3>1, <3>2 DEF Sound
    <3>4. /\ Local(k, "out") = from[k] /\ Remote(k, "out") = to[k]
          /\ Local(k, "in") = to[k] /\ Remote(k, "in") = from[k]
      BY DEF Local, Remote, Far
    <3> QED
      BY <3>3, <3>4, Sides
  <2>3. CASE Counts(l)
    BY <2>2, <2>3
  <2>4. CASE ~Counts(l)
    <3>1. PICK k \in Link : from[k] = to[l] /\ to[k] = from[l]
      BY <2>1, <2>4 DEF Counts
    <3>2. /\ from[l] \in Node /\ to[l] \in Node /\ from[l] # to[l] /\ ~(from[l] < to[l])
      BY <2>1, <2>4 DEF Counts, SurvivorOK, PairsOK
    <3>3. from[l] \in Nat /\ to[l] \in Nat /\ to[l] # None
      BY <3>2
    <3>4. Counts(k)
      BY <3>1, <3>2, <3>3 DEF Counts
    <3> QED
      BY <2>2, <3>1, <3>4
  <2> QED
    BY <2>3, <2>4
<1> QED
  BY <1>1, <1>2, <1>3, InvariantHolds, PTL DEF Spec
=============================================================================
