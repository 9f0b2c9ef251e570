-------------------------- MODULE LifecycleProofs --------------------------
(***************************************************************************)
(* A second launch opens the copy that runs: proofs for every number of    *)
(* launches, about Lifecycle.                                              *)
(*                                                                         *)
(* OneCopy is not inductive: it has to be known that the copy that serves  *)
(* is the one in runtime.json, that a launch still has its port to probe,  *)
(* and that nothing serves once a launch has probed them all.              *)
(***************************************************************************)
EXTENDS Lifecycle, FiniteSetTheorems, TLAPS

Port == Proc \cup {Preferred}

Shape ==
    /\ pc \in [Proc -> Starting \cup Leaving \cup {"off", "serve", "gone"}]
    /\ todo \in [Proc -> Seq(Port)]
    /\ port \in [Proc -> Port \cup {None}]
    /\ wrote \in [Proc -> BOOLEAN]
    /\ file \in Port \cup {None}
    /\ foreign \in BOOLEAN /\ excused \in BOOLEAN
    /\ \A p \in Proc :
          /\ Len(todo[p]) <= 2
          /\ pc[p] = "probe" => todo[p] # <<>>
          /\ pc[p] \in {"start", "up", "serve", "asked"} => port[p] # None

\* Launches and exits do not overlap, and there is one copy.
Alone ==
    \A p, q \in Proc : p # q =>
        /\ pc[p] \in Starting \cup Leaving => pc[q] \notin Starting \cup Leaving
        /\ p \in Copies => q \notin Copies

\* The file leads to the copy that serves.
FileLeads == \A q \in Proc : pc[q] \in {"up", "serve"} => file = port[q]

\* A launch that has not probed its port yet still will.
WillProbe ==
    \A p, q \in Proc : pc[p] = "probe" /\ pc[q] = "serve" =>
        \E i \in 1 .. Len(todo[p]) : todo[p][i] = port[q]

\* A launch that has probed all its ports has nothing beside it.
NothingRuns == \A p, q \in Proc : pc[p] = "bind" => q \notin Copies

IInv == Shape /\ (~excused => Alone /\ FileLeads /\ WillProbe /\ NothingRuns)

States == Starting \cup Leaving \cup {"off", "serve", "gone"}

\* No port is called None.
NoneIsNoPort == None \notin Port

-----------------------------------------------------------------------------
\* What is left of a list after its first element.
LEMMA TailFacts ==
    ASSUME NEW S, NEW s \in Seq(S), s # <<>>
    PROVE  /\ Tail(s) \in Seq(S)
           /\ Len(Tail(s)) = Len(s) - 1 /\ Len(s) \in Nat \ {0}
           /\ Head(s) = s[1] /\ Head(s) \in S
           /\ \A i \in 2 .. Len(s) : Tail(s)[i - 1] = s[i]
  OBVIOUS

\* The ports that a launch will probe.
LEMMA LaunchList ==
    ASSUME NEW f \in Port \cup {None},
           NEW s, s = IF f \in {None, Preferred} THEN <<Preferred>> ELSE <<f, Preferred>>
    PROVE  /\ s \in Seq(Port) /\ s # <<>> /\ Len(s) <= 2
           /\ f # None => \E i \in 1 .. Len(s) : s[i] = f
  <1>1. CASE f \in {None, Preferred}
    <2>1. s = <<Preferred>> /\ Preferred \in Port  BY <1>1 DEF Port
    <2>2. s \in Seq(Port) /\ Len(s) = 1 /\ s[1] = Preferred  BY <2>1
    <2>. QED  BY <2>1, <2>2, <1>1
  <1>2. CASE f \notin {None, Preferred}
    <2>1. s = <<f, Preferred>> /\ f \in Port /\ Preferred \in Port  BY <1>2 DEF Port
    <2>2. <<f, Preferred>> \in Seq(Port)  BY <2>1
    <2>3. Len(s) = 2 /\ s[1] = f  BY <2>1
    <2>4. s # <<>>  BY <2>3
    <2>. QED  BY <2>1, <2>2, <2>3, <2>4
  <1>. QED  BY <1>1, <1>2

-----------------------------------------------------------------------------
LEMMA InitInv == Init => IInv
  <1>. SUFFICES ASSUME Init PROVE IInv
    OBVIOUS
  <1>1. Shape
    <2>1. <<>> \in Seq(Port) /\ Len(<<>>) = 0
      OBVIOUS
    <2>2. \A p \in Proc : todo[p] = <<>> /\ pc[p] = "off"
      BY DEF Init
    <2>3. todo \in [Proc -> Seq(Port)]
      BY <2>1 DEF Init
    <2>4. pc \in [Proc -> Starting \cup Leaving \cup {"off", "serve", "gone"}]
      BY DEF Init
    <2>5. /\ port \in [Proc -> Port \cup {None}] /\ wrote \in [Proc -> BOOLEAN]
          /\ file \in Port \cup {None} /\ foreign \in BOOLEAN /\ excused \in BOOLEAN
      BY DEF Init
    <2>. QED  BY <2>1, <2>2, <2>3, <2>4, <2>5 DEF Shape
  <1>2. Alone /\ FileLeads /\ WillProbe /\ NothingRuns
    BY DEF Init, Alone, FileLeads, WillProbe, NothingRuns, Copies, Starting, Leaving
  <1>. QED  BY <1>1, <1>2 DEF IInv

LEMMA ShapeStep == ASSUME NoneIsNoPort, Shape, [Next]_vars PROVE Shape'
  <1>. USE DEF Shape, Starting, Leaving
  <1>1. CASE UNCHANGED vars
    BY <1>1 DEF vars
  <1>2. CASE Foreign
    BY <1>2 DEF Foreign
  <1>3. ASSUME NEW p \in Proc, Step(p) PROVE Shape'
    <2>1. CASE Launch(p)
      <3>1. /\ todo'[p] \in Seq(Port) /\ todo'[p] # <<>> /\ Len(todo'[p]) <= 2
        BY <2>1, LaunchList DEF Launch
      <3>. QED  BY <2>1, <3>1 DEF Launch
    <2>2. CASE Probe(p)
      <3>1. /\ Tail(todo[p]) \in Seq(Port) /\ Len(Tail(todo[p])) = Len(todo[p]) - 1
            /\ Len(todo[p]) \in Nat \ {0}
        BY <2>2, TailFacts DEF Probe
      <3>2. /\ pc' = [pc EXCEPT ![p] = pc'[p]] /\ pc'[p] \in {"gone", "bind", "probe"}
            /\ pc'[p] = "probe" => Len(todo[p]) # 1
            /\ todo' = [todo EXCEPT ![p] = Tail(@)]
            /\ UNCHANGED <<port, wrote, file, foreign>> /\ excused' \in BOOLEAN
        BY <2>2 DEF Probe
      <3>3. pc'[p] = "probe" => Tail(todo[p]) # <<>>
        <4>1. Len(<<>>) = 0
          OBVIOUS
        <4>2. pc'[p] = "probe" => Len(Tail(todo[p])) # 0
          BY <3>1, <3>2
        <4>. QED  BY <4>1, <4>2, Zenon
      <3>. HIDE DEF Starting, Leaving
      <3>4. pc' \in [Proc -> Starting \cup Leaving \cup {"off", "serve", "gone"}]
        BY <3>2 DEF Starting
      <3>5. todo' \in [Proc -> Seq(Port)]
        BY <3>1, <3>2
      <3>6. ASSUME NEW q \in Proc
            PROVE  /\ Len(todo'[q]) <= 2
                   /\ pc'[q] = "probe" => todo'[q] # <<>>
                   /\ pc'[q] \in {"start", "up", "serve", "asked"} => port'[q] # None
        BY <3>1, <3>2, <3>3
      <3>. QED  BY <3>2, <3>4, <3>5, <3>6
    <2>3. CASE Bind(p)
      BY <2>3 DEF Bind, NoneIsNoPort, Port
    <2>4. CASE WriteRuntime(p)
      BY <2>4 DEF WriteRuntime
    <2>5. CASE WriteFails(p)
      BY <2>5 DEF WriteFails
    <2>6. CASE Serve(p)
      BY <2>6 DEF Serve
    <2>7. CASE requestShutdown(p)
      BY <2>7 DEF requestShutdown
    <2>8. CASE Shutdown(p)
      BY <2>8 DEF Shutdown
    <2>9. CASE Return(p)
      BY <2>9 DEF Return
    <2>10. CASE Kill(p)
      BY <2>10 DEF Kill
    <2>. QED  BY <1>3, <2>1, <2>2, <2>3, <2>4, <2>5, <2>6, <2>7, <2>8, <2>9, <2>10 DEF Step
  <1>. QED  BY <1>1, <1>2, <1>3 DEF Next

\* Launches, copies and exits stay apart.
LEMMA AloneStep ==
    ASSUME Shape, Shape', Alone, WillProbe, NothingRuns, [Next]_vars, ~excused'
    PROVE  Alone'
  <1>. USE DEF Alone, Copies, Starting, Leaving
  <1>1. CASE UNCHANGED vars
    BY <1>1 DEF vars
  <1>2. CASE Foreign
    BY <1>2 DEF Foreign
  <1>3. ASSUME NEW p \in Proc, Step(p) PROVE Alone'
    <2>0. pc \in [Proc -> States] /\ pc' \in [Proc -> States]
      BY DEF Shape, States
    <2>1. CASE Launch(p)
      BY <2>0, <2>1 DEF Launch, Busy
    <2>2. CASE Probe(p)
      BY <2>0, <2>2 DEF Probe
    <2>3. CASE Bind(p)
      BY <2>0, <2>3 DEF Bind, NothingRuns
    <2>4. CASE WriteRuntime(p)
      BY <2>0, <2>4 DEF WriteRuntime
    <2>5. CASE WriteFails(p)
      BY <2>5 DEF WriteFails
    <2>6. CASE Serve(p)
      BY <2>0, <2>6 DEF Serve
    <2>7. CASE requestShutdown(p)
      BY <2>0, <2>7 DEF requestShutdown, Busy
    <2>8. CASE Shutdown(p)
      BY <2>0, <2>8 DEF Shutdown, Busy
    <2>9. CASE Return(p)
      BY <2>0, <2>9 DEF Return
    <2>10. CASE Kill(p)
      BY <2>0, <2>10 DEF Kill
    <2>. QED  BY <1>3, <2>1, <2>2, <2>3, <2>4, <2>5, <2>6, <2>7, <2>8, <2>9, <2>10 DEF Step
  <1>. QED  BY <1>1, <1>2, <1>3 DEF Next

\* The file goes on leading to the copy that serves.
LEMMA FileLeadsStep ==
    ASSUME Shape, Shape', Alone, FileLeads, [Next]_vars, ~excused'
    PROVE  FileLeads'
  <1>. USE DEF Alone, FileLeads, Copies, Starting, Leaving
  <1>1. CASE UNCHANGED vars
    BY <1>1 DEF vars
  <1>2. CASE Foreign
    BY <1>2 DEF Foreign
  <1>3. ASSUME NEW p \in Proc, Step(p) PROVE FileLeads'
    <2>0. /\ pc \in [Proc -> States] /\ pc' \in [Proc -> States]
          /\ port \in [Proc -> Port \cup {None}]
      BY DEF Shape, States
    <2>1. CASE Launch(p)
      BY <2>0, <2>1 DEF Launch
    <2>2. CASE Probe(p)
      BY <2>0, <2>2 DEF Probe
    <2>3. CASE Bind(p)
      BY <2>0, <2>3 DEF Bind
    <2>4. CASE WriteRuntime(p)
      BY <2>0, <2>4 DEF WriteRuntime
    <2>5. CASE WriteFails(p)
      BY <2>5 DEF WriteFails
    <2>6. CASE Serve(p)
      BY <2>0, <2>6 DEF Serve
    <2>7. CASE requestShutdown(p)
      BY <2>0, <2>7 DEF requestShutdown
    <2>8. CASE Shutdown(p)
      BY <2>0, <2>8 DEF Shutdown
    <2>9. CASE Return(p)
      BY <2>0, <2>9 DEF Return
    <2>10. CASE Kill(p)
      BY <2>0, <2>10 DEF Kill
    <2>. QED  BY <1>3, <2>1, <2>2, <2>3, <2>4, <2>5, <2>6, <2>7, <2>8, <2>9, <2>10 DEF Step
  <1>. QED  BY <1>1, <1>2, <1>3 DEF Next

\* A launch keeps the port it has to probe before it.
LEMMA WillProbeStep ==
    ASSUME Shape, Shape', Alone, FileLeads, WillProbe, [Next]_vars, ~excused'
    PROVE  WillProbe'
  <1>. USE DEF Alone, WillProbe, Copies, Starting, Leaving
  <1>1. CASE UNCHANGED vars
    BY <1>1 DEF vars
  <1>2. CASE Foreign
    BY <1>2 DEF Foreign
  <1>3. ASSUME NEW r \in Proc, Step(r) PROVE WillProbe'
    <2>0. /\ pc \in [Proc -> States] /\ pc' \in [Proc -> States]
          /\ port \in [Proc -> Port \cup {None}] /\ todo \in [Proc -> Seq(Port)]
      BY DEF Shape, States
    <2>1. CASE Launch(r)
      <3>. SUFFICES ASSUME NEW q \in Proc, pc[q] = "serve", q # r
           PROVE  \E i \in 1 .. Len(todo'[r]) : todo'[r][i] = port[q]
        BY <2>0, <2>1 DEF Launch
      <3>1. file = port[q] /\ port[q] # None /\ file \in Port \cup {None}
        BY DEF FileLeads, Shape
      <3>2. todo'[r] = IF file \in {None, Preferred} THEN <<Preferred>> ELSE <<file, Preferred>>
        BY <2>0, <2>1 DEF Launch
      <3>. QED  BY <3>1, <3>2, LaunchList
    <2>2. CASE Probe(r)
      <3>1. /\ \A q \in Proc \ {r} : pc'[q] = pc[q] /\ todo'[q] = todo[q]
            /\ port' = port /\ pc[r] = "probe" /\ pc'[r] # "serve"
            /\ todo'[r] = Tail(todo[r]) /\ todo[r] # <<>>
        BY <2>0, <2>2 DEF Probe, Shape
      <3>2. ASSUME NEW q \in Proc, pc'[r] = "probe", pc'[q] = "serve"
            PROVE  \E i \in 1 .. Len(todo'[r]) : todo'[r][i] = port'[q]
        <4>1. PICK i \in 1 .. Len(todo[r]) : todo[r][i] = port[q]
          BY <3>1, <3>2
        <4>2. Head(todo[r]) # port[q]
          BY <2>0, <2>2, <3>1, <3>2 DEF Probe
        <4>3. i \in 2 .. Len(todo[r])
          BY <2>0, <3>1, <4>1, <4>2, TailFacts
        <4>4. i - 1 \in 1 .. Len(todo'[r]) /\ todo'[r][i - 1] = port[q]
          BY <2>0, <3>1, <4>1, <4>3, TailFacts
        <4>. QED  BY <3>1, <4>4
      <3>3. ASSUME NEW p \in Proc \ {r}, NEW q \in Proc, pc'[p] = "probe", pc'[q] = "serve"
            PROVE  \E i \in 1 .. Len(todo'[p]) : todo'[p][i] = port'[q]
        <4>1. todo'[p] = todo[p] /\ pc[p] = "probe" /\ pc[q] = "serve" /\ port'[q] = port[q]
          BY <3>1, <3>3
        <4>. QED  BY <4>1
      <3>. QED  BY <3>2, <3>3
    <2>3. CASE Bind(r)
      BY <2>0, <2>3 DEF Bind
    <2>4. CASE WriteRuntime(r)
      BY <2>0, <2>4 DEF WriteRuntime
    <2>5. CASE WriteFails(r)
      BY <2>5 DEF WriteFails
    <2>6. CASE Serve(r)
      BY <2>0, <2>6 DEF Serve
    <2>7. CASE requestShutdown(r)
      BY <2>0, <2>7 DEF requestShutdown
    <2>8. CASE Shutdown(r)
      BY <2>0, <2>8 DEF Shutdown
    <2>9. CASE Return(r)
      BY <2>0, <2>9 DEF Return
    <2>10. CASE Kill(r)
      BY <2>0, <2>10 DEF Kill
    <2>. QED  BY <1>3, <2>1, <2>2, <2>3, <2>4, <2>5, <2>6, <2>7, <2>8, <2>9, <2>10 DEF Step
  <1>. QED  BY <1>1, <1>2, <1>3 DEF Next

\* A launch that found nothing to open is the only one.
LEMMA NothingRunsStep ==
    ASSUME Shape, Shape', Alone, WillProbe, NothingRuns, [Next]_vars, ~excused'
    PROVE  NothingRuns'
  <1>. USE DEF Alone, NothingRuns, Copies, Starting, Leaving
  <1>1. CASE UNCHANGED vars
    BY <1>1 DEF vars
  <1>2. CASE Foreign
    BY <1>2 DEF Foreign
  <1>3. ASSUME NEW r \in Proc, Step(r) PROVE NothingRuns'
    <2>0. /\ pc \in [Proc -> States] /\ pc' \in [Proc -> States]
          /\ todo \in [Proc -> Seq(Port)]
      BY DEF Shape, States
    <2>1. CASE Launch(r)
      BY <2>0, <2>1 DEF Launch
    <2>2. CASE Probe(r)
      <3>1. /\ \A q \in Proc \ {r} : pc'[q] = pc[q]
            /\ pc[r] = "probe" /\ pc'[r] \in {"gone", "bind", "probe"} /\ todo[r] # <<>>
            /\ pc'[r] = "bind" =>
                  /\ Len(todo[r]) = 1
                  /\ \A q \in Proc : pc[q] = "serve" => port[q] # Head(todo[r])
        BY <2>0, <2>2 DEF Probe, Shape
      <3>2. Head(todo[r]) = todo[r][1]
        BY <2>0, <3>1, TailFacts
      <3>3. ASSUME NEW q \in Proc, pc'[r] = "bind", pc[q] = "serve" PROVE FALSE
        <4>1. PICK i \in 1 .. Len(todo[r]) : todo[r][i] = port[q]
          BY <3>1, <3>3 DEF WillProbe
        <4>. QED  BY <3>1, <3>2, <3>3, <4>1
      <3>. QED  BY <2>0, <3>1, <3>3 DEF States
    <2>3. CASE Bind(r)
      BY <2>0, <2>3 DEF Bind
    <2>4. CASE WriteRuntime(r)
      BY <2>0, <2>4 DEF WriteRuntime
    <2>5. CASE WriteFails(r)
      BY <2>5 DEF WriteFails
    <2>6. CASE Serve(r)
      BY <2>0, <2>6 DEF Serve
    <2>7. CASE requestShutdown(r)
      BY <2>0, <2>7 DEF requestShutdown
    <2>8. CASE Shutdown(r)
      BY <2>0, <2>8 DEF Shutdown
    <2>9. CASE Return(r)
      BY <2>0, <2>9 DEF Return
    <2>10. CASE Kill(r)
      BY <2>0, <2>10 DEF Kill
    <2>. QED  BY <1>3, <2>1, <2>2, <2>3, <2>4, <2>5, <2>6, <2>7, <2>8, <2>9, <2>10 DEF Step
  <1>. QED  BY <1>1, <1>2, <1>3 DEF Next

\* Once launches have overlapped, they have.
LEMMA ExcusedStays == ASSUME Shape, [Next]_vars, excused PROVE excused'
  BY DEF Shape, vars, Next, Foreign, Step, Launch, Probe, Bind, WriteRuntime, WriteFails,
         Serve, requestShutdown, Shutdown, Return, Kill

LEMMA StepInv == ASSUME NoneIsNoPort, IInv, [Next]_vars PROVE IInv'
  <1>1. Shape'
    BY ShapeStep DEF IInv
  <1>2. ASSUME ~excused' PROVE Alone' /\ FileLeads' /\ WillProbe' /\ NothingRuns'
    <2>1. Shape /\ Alone /\ FileLeads /\ WillProbe /\ NothingRuns
      BY <1>2, ExcusedStays DEF IInv, Shape
    <2>. QED  BY <1>1, <1>2, <2>1, AloneStep, FileLeadsStep, WillProbeStep, NothingRunsStep
  <1>. QED  BY <1>1, <1>2 DEF IInv

LEMMA InvGivesOneCopy == IInv => OneCopy
  <1>. SUFFICES ASSUME IInv, ~excused PROVE Cardinality(Copies) <= 1
    BY DEF OneCopy
  <1>1. CASE Copies = {}
    BY <1>1, FS_EmptySet
  <1>2. CASE Copies # {}
    <2>1. PICK p \in Copies : TRUE
      BY <1>2
    <2>2. Copies = {p}
      BY <2>1 DEF IInv, Alone, Copies
    <2>. QED  BY <2>2, FS_Singleton
  <1>. QED  BY <1>1, <1>2

-----------------------------------------------------------------------------
\* The inductive invariant of the launches, for every number of them: the
\* file leads to the copy that serves, and every launch still probes its port.
THEOREM LaunchInvariant == ASSUME NoneIsNoPort PROVE Spec => []IInv
  <1>1. Init => IInv
    BY InitInv
  <1>2. IInv /\ [Next]_vars => IInv'
    BY StepInv
  <1>. QED  BY <1>1, <1>2, PTL DEF Spec

\* Launching again opens the interface that exists (README.md:50): as long as
\* launches and exits do not overlap and runtime.json can be written, there is
\* one copy, however many crashed before and left the file behind.
THEOREM OneCopyAlways == ASSUME NoneIsNoPort PROVE Spec => []OneCopy
  BY LaunchInvariant, InvGivesOneCopy, PTL
=============================================================================
