---------------------------- MODULE PartsProofs -----------------------------
(***************************************************************************)
(* Proofs about the small components of Parts: the replay window, the      *)
(* throttle, the join codes, the launches and the conversations on the     *)
(* operator's page; then the types of all of them. They share nothing: a   *)
(* theorem is about one of them, for every value of its constants, and the *)
(* last one about all of them side by side.                                *)
(***************************************************************************)
EXTENDS Parts, Integers, Sequences, FiniteSetTheorems, TLAPS

-----------------------------------------------------------------------------
(* The replay window.                                                      *)

IInv == TypeOK /\ AcceptedOnce /\ MaskExact

\* Where a distance ends up when the window moves.
LEMMA ShiftInMeaning ==
    ASSUME TypeOK, NEW shift \in Nat \ {0}
    PROVE  /\ ShiftIn(shift) \subseteq 0 .. (Width - 1)
           /\ \A b \in 0 .. (Width - 1) :
                 b \in ShiftIn(shift) <=> b = 0 \/ (b >= shift /\ b - shift \in bits)
BY WidthAssumption DEF ShiftIn, TypeOK

LEMMA TakeMeaning ==
    ASSUME TypeOK, NEW seq \in Counter, Take(seq)
    PROVE  /\ taken' \in [Counter -> Nat]
           /\ taken'[seq] = taken[seq] + 1
           /\ \A c \in Counter : c # seq => taken'[c] = taken[c]
BY DEF TypeOK, Take

LEMMA InitInv == Init => IInv
BY CounterAssumption, WidthAssumption DEF Init, IInv, TypeOK, AcceptedOnce, MaskExact

LEMMA NewerStep ==
    ASSUME IInv, NEW seq \in Counter, AcceptNewer(seq)
    PROVE  IInv'
<1>1. TypeOK /\ seq \in Nat /\ max \in Nat /\ seq > max /\ max' = seq
  BY CounterAssumption DEF IInv, TypeOK, AcceptNewer
<1>2. taken[seq] = 0
  BY <1>1 DEF IInv, MaskExact
<1>3. /\ taken' \in [Counter -> Nat] /\ taken'[seq] = 1
      /\ \A c \in Counter : c # seq => taken'[c] = taken[c]
  BY <1>1, <1>2, TakeMeaning DEF AcceptNewer
<1>4. PICK shift \in Nat \ {0} : shift = seq - max /\ bits' = ShiftIn(shift)
  BY <1>1 DEF AcceptNewer
<1>5. TypeOK'
  BY <1>1, <1>3, <1>4, ShiftInMeaning DEF TypeOK
<1>6. AcceptedOnce'
  BY <1>3 DEF IInv, AcceptedOnce
<1>7. ASSUME NEW c \in Counter, c # 0, c <= seq, seq - c < Width
      PROVE  seq - c \in bits' <=> taken'[c] = 1
  <2>1. c \in Nat /\ seq - c \in 0 .. (Width - 1)
    BY <1>1, <1>7, CounterAssumption, WidthAssumption
  <2>2. seq - c \in bits' <=> seq - c = 0 \/ (seq - c >= shift /\ (seq - c) - shift \in bits)
    BY <1>1, <1>4, <2>1, ShiftInMeaning
  <2>3. CASE c = seq
    BY <1>1, <1>3, <2>2, <2>3
  <2>4. CASE c # seq /\ c > max
    <3>1. taken[c] = 0 /\ ~(seq - c >= shift) /\ seq - c # 0
      BY <1>1, <1>4, <2>1, <2>4 DEF IInv, MaskExact
    <3> QED
      BY <1>3, <2>2, <2>4, <3>1
  <2>5. CASE c <= max
    <3>1. /\ seq - c >= shift /\ (seq - c) - shift = max - c /\ seq - c # 0
          /\ max - c < Width /\ c # seq
      BY <1>1, <1>4, <1>7, <2>1, <2>5, WidthAssumption
    <3>2. max - c \in bits <=> taken[c] = 1
      BY <1>7, <2>5, <3>1 DEF IInv, MaskExact
    <3> QED
      BY <1>3, <2>2, <3>1, <3>2
  <2> QED
    BY <1>1, <2>1, <2>3, <2>4, <2>5
<1>8. ASSUME NEW c \in Counter, c > seq \/ c = 0 PROVE taken'[c] = 0
  <2>1. c # seq /\ (c > max \/ c = 0)
    BY <1>1, <1>8, CounterAssumption
  <2> QED
    BY <1>3, <2>1 DEF IInv, MaskExact
<1> QED
  BY <1>1, <1>5, <1>6, <1>7, <1>8 DEF IInv, MaskExact

LEMMA LateStep ==
    ASSUME IInv, NEW seq \in Counter, AcceptLate(seq)
    PROVE  IInv'
<1>1. /\ TypeOK /\ seq \in Nat /\ max \in Nat /\ seq # 0 /\ seq <= max
      /\ max - seq \in 0 .. (Width - 1) /\ max - seq \notin bits
      /\ max' = max /\ bits' = bits \cup {max - seq}
  BY CounterAssumption, WidthAssumption DEF IInv, TypeOK, AcceptLate
<1>2. taken[seq] = 0
  <2>1. taken[seq] # 1
    BY <1>1 DEF IInv, MaskExact, AcceptLate
  <2> QED
    BY <1>1, <2>1 DEF IInv, AcceptedOnce, TypeOK
<1>3. /\ taken' \in [Counter -> Nat] /\ taken'[seq] = 1
      /\ \A c \in Counter : c # seq => taken'[c] = taken[c]
  BY <1>1, <1>2, TakeMeaning DEF AcceptLate
<1>4. TypeOK' /\ AcceptedOnce'
  BY <1>1, <1>3 DEF IInv, TypeOK, AcceptedOnce
<1>5. ASSUME NEW c \in Counter, c # 0, c <= max, max - c < Width
      PROVE  max - c \in bits' <=> taken'[c] = 1
  <2>1. c # seq => max - c # max - seq
    BY <1>1, CounterAssumption
  <2>2. max - c \in bits <=> taken[c] = 1
    BY <1>5 DEF IInv, MaskExact
  <2> QED
    BY <1>1, <1>3, <2>1, <2>2
<1>6. ASSUME NEW c \in Counter, c > max \/ c = 0 PROVE taken'[c] = 0
  <2>1. c # seq
    BY <1>1, <1>6
  <2> QED
    BY <1>3, <1>6, <2>1 DEF IInv, MaskExact
<1> QED
  BY <1>1, <1>4, <1>5, <1>6 DEF IInv, MaskExact

LEMMA NextInv == IInv /\ [Next]_vars => IInv'
<1>1. SUFFICES ASSUME IInv, [Next]_vars
               PROVE  IInv'
  OBVIOUS
<1>2. CASE UNCHANGED vars
  BY <1>1, <1>2 DEF vars, IInv, TypeOK, AcceptedOnce, MaskExact
<1>3. ASSUME NEW seq \in Counter, accept(seq) PROVE IInv'
  BY <1>1, <1>2, <1>3, NewerStep, LateStep DEF accept, Refuse
<1> QED
  BY <1>1, <1>2, <1>3 DEF Next

LEMMA WindowInvariant == Spec => []IInv
BY InitInv, NextInv, PTL DEF Spec

\* No counter is ever accepted twice, whatever arrives in whatever order.
THEOREM NeverReplayed == Spec => []AcceptedOnce
<1>1. IInv => AcceptedOnce
  BY DEF IInv
<1> QED
  BY <1>1, WindowInvariant, PTL

\* The window remembers exactly the counters it has used: a late frame that
\* still fits in it is refused only if it is a copy.
THEOREM WindowExact == Spec => []MaskExact
<1>1. IInv => MaskExact
  BY DEF IInv
<1> QED
  BY <1>1, WindowInvariant, PTL

-----------------------------------------------------------------------------
(* The join codes. A code that is gone too early has been the oldest of a  *)
(* full table once, so all the others of that table are newer.             *)

CodesBounds == HandoffMax \in Nat \ {0} /\ MaxUses \in Nat /\ Lifetime \in Nat

Distinct == \A i, j \in DOMAIN issued : issued[i] = issued[j] => i = j

CodesInv ==
    /\ issued \in Seq(Code) /\ Distinct
    /\ Codes!TypeOK
    /\ Codes!NewestCodesWork

\* The cardinality that Handoff sees is that of the library's theorems.
LEMMA SameCardinality == \A S : Codes!Cardinality(S) = Cardinality(S)
BY DEF Codes!Cardinality, Cardinality

\* A set of numbers has a least one.
LEMMA Least ==
    ASSUME NEW I, I \subseteq Nat, I # {}
    PROVE  \E i \in I : \A j \in I : i <= j
<1> DEFINE Below == [i \in I |-> 1 .. i]
           T == {Below[i] : i \in I}
<1>1. T \subseteq FiniteSubsetsOf(Nat) /\ T # {}
  <2>1. ASSUME NEW i \in I PROVE Below[i] \in SUBSET Nat /\ IsFiniteSet(Below[i])
    BY FS_Interval
  <2> QED
    BY <2>1 DEF FiniteSubsetsOf
<1> HIDE DEF T
<1>2. PICK x \in T : \A y \in T : ~(<<y, x>> \in StrictSubsetOrdering(Nat))
  <2>1. IsWellFoundedOn(StrictSubsetOrdering(Nat), FiniteSubsetsOf(Nat))
    BY FS_StrictSubsetOrderingWellFounded
  <2> QED
    BY <1>1, <2>1, WFMin
<1>3. PICK i \in I : x = 1 .. i
  BY DEF T
<1>4. ASSUME NEW j \in I, ~(i <= j) PROVE FALSE
  <2>1. 1 .. j \in T
    BY DEF T
  <2>2. 1 .. j \subseteq 1 .. i /\ i \in 1 .. i /\ i \notin 1 .. j /\ 1 .. i \subseteq Nat
    BY <1>4
  <2>3. <<1 .. j, 1 .. i>> \in StrictSubsetOrdering(Nat)
    BY <2>2 DEF StrictSubsetOrdering
  <2> QED
    BY <1>2, <1>3, <2>1, <2>3
<1> QED
  BY <1>4

\* There are finitely many codes.
LEMMA MintedFinite ==
    ASSUME issued \in Seq(Code)
    PROVE  IsFiniteSet(Codes!Minted)
<1>1. IsFiniteSet(1 .. Len(issued))
  BY FS_Interval
<1>2. issued \in Surjection(1 .. Len(issued), Codes!Minted)
  BY DEF Codes!Minted, Surjection
<1> QED
  BY <1>1, <1>2, FS_Surjection

\* Of some minted codes one is the oldest, and Oldest finds it.
LEMMA OldestIs ==
    ASSUME issued \in Seq(Code), NEW T, T \subseteq Codes!Minted, T # {}
    PROVE  /\ Codes!Oldest(T) \in T
           /\ T \subseteq Codes!Newer(Codes!Oldest(T)) \cup {Codes!Oldest(T)}
<1> DEFINE I == {i \in DOMAIN issued : issued[i] \in T}
<1>1. I \subseteq Nat /\ I # {}
  BY DEF Codes!Minted
<1>2. PICK i \in I : \A j \in I : i <= j
  BY <1>1, Least
<1>3. ASSUME NEW d \in T, d # issued[i] PROVE d \in Codes!Newer(issued[i])
  <2>1. PICK j \in DOMAIN issued : issued[j] = d
    BY <1>3 DEF Codes!Minted
  <2>2. i < j
    <3>1. i <= j /\ i # j /\ i \in Nat /\ j \in Nat
      BY <1>1, <1>2, <1>3, <2>1
    <3> QED
      BY <3>1
  <2> QED
    BY <1>2, <1>3, <2>1, <2>2 DEF Codes!Newer, Codes!Minted
<1>4. issued[i] \in T /\ T \subseteq Codes!Newer(issued[i]) \cup {issued[i]}
  BY <1>3
<1> HIDE DEF I
<1> QED
  BY <1>4 DEF Codes!Oldest

\* What a new code changes in the order of the codes.
LEMMA MintStep ==
    ASSUME CodesInv, NEW c \in Code, c \notin Codes!Minted, issued' = Append(issued, c)
    PROVE  /\ issued' \in Seq(Code) /\ Distinct'
           /\ Codes!Minted' = Codes!Minted \cup {c}
           /\ \A d \in Codes!Minted : Codes!Newer(d)' = Codes!Newer(d) \cup {c}
           /\ \A d \in Codes!Minted : Codes!Newer(d) \subseteq Codes!Minted
<1> DEFINE n == Len(issued)
<1>1. /\ issued \in Seq(Code) /\ Distinct /\ n \in Nat /\ DOMAIN issued = 1 .. n
      /\ \A i \in 1 .. n : issued[i] # c
  BY DEF CodesInv, Codes!Minted
<1>2. /\ issued' \in Seq(Code) /\ DOMAIN issued' = 1 .. (n + 1)
      /\ issued'[n + 1] = c /\ \A i \in 1 .. n : issued'[i] = issued[i]
  BY <1>1
<1> HIDE DEF n
<1>3. 1 .. (n + 1) = (1 .. n) \cup {n + 1} /\ n + 1 \notin 1 .. n
      /\ \A i \in 1 .. n : i < n + 1 /\ ~(n + 1 < i)
  BY <1>1
<1>4. Distinct'
  BY <1>1, <1>2, <1>3 DEF Distinct
<1>5. Codes!Minted' = Codes!Minted \cup {c}
  BY <1>1, <1>2, <1>3 DEF Codes!Minted
<1>6. ASSUME NEW d \in Codes!Minted PROVE Codes!Newer(d)' = Codes!Newer(d) \cup {c}
  <2>1. PICK k \in 1 .. n : issued[k] = d
    BY <1>1 DEF Codes!Minted
  <2>2. c \in Codes!Newer(d)'
    BY <1>2, <1>3, <1>5, <2>1 DEF Codes!Newer
  <2>3. ASSUME NEW e \in Codes!Newer(d) PROVE e \in Codes!Newer(d)'
    <3>1. PICK i \in 1 .. n, j \in 1 .. n : i < j /\ issued[i] = d /\ issued[j] = e
      BY <1>1, <2>3 DEF Codes!Newer
    <3>2. e \in Codes!Minted'
      BY <1>5, <2>3 DEF Codes!Newer
    <3> QED
      BY <1>2, <1>3, <3>1, <3>2 DEF Codes!Newer
  <2>4. ASSUME NEW e \in Codes!Newer(d)', e # c PROVE e \in Codes!Newer(d)
    <3>1. e \in Codes!Minted
      BY <1>5, <2>4 DEF Codes!Newer
    <3>2. PICK i \in 1 .. (n + 1), j \in 1 .. (n + 1) : i < j /\ issued'[i] = d /\ issued'[j] = e
      BY <1>2, <2>4 DEF Codes!Newer
    <3>3. i \in 1 .. n /\ j \in 1 .. n
      BY <1>1, <1>2, <1>3, <2>1, <2>4, <3>2
    <3> QED
      BY <1>1, <1>2, <3>1, <3>2, <3>3 DEF Codes!Newer
  <2> QED
    BY <2>2, <2>3, <2>4
<1> QED
  BY <1>2, <1>4, <1>5, <1>6 DEF Codes!Newer

LEMMA NewHandoffStep ==
    ASSUME CodesBounds, CodesInv, NEW c \in Code, Codes!newHandoff(c)
    PROVE  CodesInv'
<1> DEFINE live == {d \in handoffs : ~Codes!Expired(d)}
           old == Codes!Oldest(live)
           kept == IF Cardinality(live) >= HandoffMax THEN live \ {old} ELSE live
<1>1. /\ c \notin Codes!Minted /\ issued' = Append(issued, c) /\ UNCHANGED <<uses, age>>
      /\ handoffs' = {c} \cup kept
  BY SameCardinality DEF Codes!newHandoff
<1>2. /\ issued' \in Seq(Code) /\ Distinct'
      /\ Codes!Minted' = Codes!Minted \cup {c}
      /\ \A d \in Codes!Minted : Codes!Newer(d)' = Codes!Newer(d) \cup {c}
      /\ \A d \in Codes!Minted : Codes!Newer(d) \subseteq Codes!Minted
  BY <1>1, MintStep
<1>3. /\ live \subseteq handoffs /\ handoffs \subseteq Codes!Minted
      /\ IsFiniteSet(Codes!Minted) /\ IsFiniteSet(live) /\ IsFiniteSet(handoffs)
      /\ Cardinality(live) \in Nat /\ Cardinality(live) <= HandoffMax
  <2>1. handoffs \subseteq Codes!Minted /\ Cardinality(handoffs) <= HandoffMax
    BY SameCardinality DEF CodesInv, Codes!TypeOK
  <2>2. IsFiniteSet(Codes!Minted)
    BY MintedFinite DEF CodesInv
  <2>3. IsFiniteSet(handoffs) /\ IsFiniteSet(live) /\ Cardinality(live) <= Cardinality(handoffs)
    BY <2>1, <2>2, FS_Subset
  <2>4. Cardinality(live) \in Nat /\ Cardinality(handoffs) \in Nat /\ HandoffMax \in Nat
    BY <2>3, FS_CardinalityType DEF CodesBounds
  <2> QED
    BY <2>1, <2>2, <2>3, <2>4
\* The code that makes room has a full table of newer ones.
<1>4. ASSUME Cardinality(live) >= HandoffMax
      PROVE  /\ old \in live
             /\ live \ {old} \subseteq Codes!Newer(old)
             /\ Cardinality(live \ {old}) = HandoffMax - 1
  <2>1. live # {}
    BY <1>3, <1>4, FS_EmptySet DEF CodesBounds
  <2>2. old \in live /\ live \subseteq Codes!Newer(old) \cup {old}
    <3>1. live \subseteq Codes!Minted /\ issued \in Seq(Code)
      BY <1>3 DEF CodesInv
    <3> HIDE DEF live
    <3> QED
      BY <2>1, <3>1, OldestIs
  <2>3. Cardinality(live \ {old}) = Cardinality(live) - 1
    BY <1>3, <2>2, FS_RemoveElement
  <2> QED
    BY <1>3, <1>4, <2>2, <2>3 DEF CodesBounds
<1>5. /\ kept \subseteq live /\ IsFiniteSet(kept)
      /\ Cardinality(kept) \in Nat /\ Cardinality(kept) <= HandoffMax - 1
  <2>1. kept \subseteq live /\ IsFiniteSet(kept) /\ Cardinality(kept) \in Nat
    BY <1>3, FS_Subset, FS_CardinalityType
  <2>2. CASE Cardinality(live) >= HandoffMax
    BY <1>4, <2>1, <2>2 DEF CodesBounds
  <2>3. CASE ~(Cardinality(live) >= HandoffMax)
    BY <1>3, <2>1, <2>3 DEF CodesBounds
  <2> QED
    BY <2>1, <2>2, <2>3
<1>6. Codes!TypeOK'
  <2>1. Cardinality({c} \cup kept) <= HandoffMax
    <3> HIDE DEF kept
    <3>1. Cardinality(kept \cup {c}) \in {Cardinality(kept), Cardinality(kept) + 1}
      BY <1>5, FS_AddElement
    <3>2. kept \cup {c} = {c} \cup kept
      OBVIOUS
    <3> QED
      BY <1>5, <3>1, <3>2 DEF CodesBounds
  <2>2. handoffs' \subseteq Codes!Minted'
    BY <1>1, <1>2, <1>3, <1>5
  <2>3. Codes!Minted' \subseteq Code
    BY <1>2, SameCardinality DEF CodesInv, Codes!TypeOK
  <2> QED
    BY <1>1, <2>1, <2>2, <2>3, SameCardinality DEF CodesInv, Codes!TypeOK
<1>7. Codes!NewestCodesWork'
  <2>1. ASSUME NEW d \in Codes!Minted', ~Codes!Expired(d)', uses'[d] < MaxUses,
               Cardinality(Codes!Newer(d)') < HandoffMax, d \notin handoffs'
        PROVE  FALSE
    <3>1. d \in Codes!Minted /\ d # c /\ ~Codes!Expired(d) /\ uses[d] < MaxUses
      BY <1>1, <1>2, <2>1 DEF Codes!Expired
    <3>2. /\ Codes!Newer(d)' = Codes!Newer(d) \cup {c} /\ c \notin Codes!Newer(d)
          /\ IsFiniteSet(Codes!Newer(d)) /\ Cardinality(Codes!Newer(d)) \in Nat
      BY <1>1, <1>2, <1>3, <3>1, FS_Subset, FS_CardinalityType
    <3>3. Cardinality(Codes!Newer(d)) + 1 < HandoffMax
      BY SMTT(20), <2>1, <3>2, FS_AddElement
    <3>4. d \in handoffs
      <4>1. Cardinality(Codes!Newer(d)) < HandoffMax
        BY <3>2, <3>3 DEF CodesBounds
      <4> QED
        BY <3>1, <4>1, SameCardinality DEF CodesInv, Codes!NewestCodesWork
    <3>5. d = old /\ Cardinality(live) >= HandoffMax
      BY <1>1, <2>1, <3>1, <3>4
    <3>6. HandoffMax - 1 <= Cardinality(Codes!Newer(d))
      BY <1>4, <3>2, <3>5, FS_Subset
    <3> QED
      BY <3>2, <3>3, <3>6 DEF CodesBounds
  <2> QED
    BY <2>1, SameCardinality DEF Codes!NewestCodesWork
<1> QED
  BY <1>2, <1>6, <1>7 DEF CodesInv

LEMMA CodesNext == CodesBounds /\ CodesInv /\ [Codes!Next]_(Codes!vars) => CodesInv'
<1>1. SUFFICES ASSUME CodesBounds, CodesInv, [Codes!Next]_(Codes!vars)
               PROVE  CodesInv'
  OBVIOUS
\* A step that mints nothing and removes only what is of no use.
<1>2. ASSUME UNCHANGED issued, handoffs' \subseteq handoffs,
             \A c \in handoffs \ handoffs' : Codes!Expired(c) \/ uses[c] >= MaxUses,
             uses' \in [Code -> 0 .. MaxUses], age' \in [Code -> 0 .. Lifetime + 1],
             \A c \in Code : uses'[c] >= uses[c] /\ age'[c] >= age[c]
      PROVE  CodesInv'
  <2>1. /\ Codes!Minted' = Codes!Minted /\ \A c : Codes!Newer(c)' = Codes!Newer(c)
        /\ Codes!Minted \subseteq Code /\ handoffs \subseteq Codes!Minted
        /\ uses \in [Code -> 0 .. MaxUses] /\ age \in [Code -> 0 .. Lifetime + 1]
    BY <1>1, <1>2, SameCardinality DEF Codes!Minted, Codes!Newer, CodesInv, Codes!TypeOK
  <2>2. Cardinality(handoffs') <= HandoffMax
    <3>1. IsFiniteSet(handoffs) /\ IsFiniteSet(handoffs')
          /\ Cardinality(handoffs') <= Cardinality(handoffs)
      BY <1>1, <1>2, <2>1, MintedFinite, FS_Subset DEF CodesInv
    <3>2. Cardinality(handoffs) <= HandoffMax /\ HandoffMax \in Nat
          /\ Cardinality(handoffs) \in Nat /\ Cardinality(handoffs') \in Nat
      BY <1>1, <3>1, FS_CardinalityType, SameCardinality DEF CodesInv, Codes!TypeOK, CodesBounds
    <3> QED
      BY <3>1, <3>2
  <2>3. Codes!TypeOK'
    BY <1>2, <2>1, <2>2, SameCardinality DEF Codes!TypeOK
  <2>4. ASSUME NEW c \in Codes!Minted', ~Codes!Expired(c)', uses'[c] < MaxUses,
               Cardinality(Codes!Newer(c)') < HandoffMax
        PROVE  c \in handoffs'
    <3>1. c \in Code /\ age[c] \in Nat /\ age'[c] \in Nat /\ uses[c] \in Nat /\ uses'[c] \in Nat
          /\ age'[c] >= age[c] /\ uses'[c] >= uses[c] /\ Lifetime \in Nat /\ MaxUses \in Nat
      BY <1>1, <1>2, <2>1, <2>4 DEF CodesBounds
    <3>2. ~Codes!Expired(c) /\ uses[c] < MaxUses /\ ~(uses[c] >= MaxUses)
      BY <2>4, <3>1 DEF Codes!Expired
    <3>3. c \in handoffs
      BY <1>1, <2>1, <2>4, <3>2, SameCardinality DEF CodesInv, Codes!NewestCodesWork
    <3> QED
      BY <1>2, <3>2, <3>3
  <2>5. issued' \in Seq(Code) /\ Distinct'
    BY <1>1, <1>2 DEF CodesInv, Distinct
  <2> QED
    BY <2>3, <2>4, <2>5, SameCardinality DEF CodesInv, Codes!NewestCodesWork
<1>3. /\ uses \in [Code -> 0 .. MaxUses] /\ age \in [Code -> 0 .. Lifetime + 1]
      /\ \A c \in Code : uses[c] >= uses[c] /\ age[c] >= age[c]
  BY <1>1, SameCardinality DEF CodesInv, Codes!TypeOK
<1>4. ASSUME NEW c \in Code, Codes!Redeem(c) PROVE CodesInv'
  <2>1. uses' = [uses EXCEPT ![c] = uses[c] + 1] /\ uses[c] < MaxUses
        /\ UNCHANGED <<handoffs, age, issued>>
    BY <1>4 DEF Codes!Redeem
  <2>2. uses' \in [Code -> 0 .. MaxUses] /\ \A d \in Code : uses'[d] >= uses[d]
    BY <1>1, <1>3, <2>1 DEF CodesBounds
  <2> QED
    BY <1>2, <1>3, <2>1, <2>2
<1>5. ASSUME NEW c \in Code, Codes!RedeemRefused(c) PROVE CodesInv'
  BY <1>2, <1>3, <1>5 DEF Codes!RedeemRefused
<1>6. CASE Codes!Tick
  <2>1. age' = [c \in Code |-> IF c \in Codes!Minted /\ ~Codes!Expired(c)
                               THEN age[c] + 1 ELSE age[c]]
        /\ UNCHANGED <<handoffs, uses, issued>>
    BY <1>6 DEF Codes!Tick
  <2>2. age' \in [Code -> 0 .. Lifetime + 1] /\ \A c \in Code : age'[c] >= age[c]
    BY <1>1, <1>3, <2>1 DEF CodesBounds, Codes!Expired
  <2> QED
    BY <1>2, <1>3, <2>1, <2>2
<1>7. CASE Codes!Restart
  <2>1. /\ handoffs' = {} /\ issued' = << >> /\ uses' = uses
        /\ age' = [c \in Code |-> IF c \in Codes!Minted THEN Lifetime + 1 ELSE age[c]]
    BY <1>7 DEF Codes!Restart
  <2>2. issued' \in Seq(Code) /\ Distinct' /\ Codes!Minted' = {}
    BY <2>1 DEF Distinct, Codes!Minted
  <2>3. age' \in [Code -> 0 .. Lifetime + 1] /\ Cardinality(handoffs') <= HandoffMax
    BY <1>1, <1>3, <2>1, FS_EmptySet DEF CodesBounds
  <2> QED
    BY <1>3, <2>1, <2>2, <2>3, SameCardinality DEF CodesInv, Codes!TypeOK, Codes!NewestCodesWork
<1>8. CASE UNCHANGED Codes!vars
  BY <1>2, <1>3, <1>8 DEF Codes!vars
<1> QED
  BY <1>1, <1>4, <1>5, <1>6, <1>7, <1>8, NewHandoffStep DEF Codes!Next

LEMMA CodesInvariant ==
    ASSUME CodesBounds
    PROVE  Codes!Init /\ [][Codes!Next]_(Codes!vars) => []CodesInv
<1>1. Codes!Init => CodesInv
  <2>1. SUFFICES ASSUME Codes!Init PROVE CodesInv
    OBVIOUS
  <2>2. handoffs = {} /\ issued = << >> /\ Codes!Minted = {}
    BY <2>1 DEF Codes!Init, Codes!Minted
  <2>3. uses \in [Code -> 0 .. MaxUses] /\ age \in [Code -> 0 .. Lifetime + 1]
    BY <2>1 DEF Codes!Init, CodesBounds
  <2>4. Cardinality(handoffs) <= HandoffMax
    BY <2>2, FS_EmptySet DEF CodesBounds
  <2> QED
    BY <2>2, <2>3, <2>4, SameCardinality DEF CodesInv, Distinct, Codes!TypeOK, Codes!NewestCodesWork
<1>2. CodesInv /\ [Codes!Next]_(Codes!vars) => CodesInv'
  BY CodesNext
<1> QED
  BY <1>1, <1>2, PTL

\* Of the codes minted last, as many as the table holds, each is accepted until it
\* expires or is used up, for any size, lifetime and number of uses.
THEOREM NewestAlwaysWork ==
    ASSUME CodesBounds
    PROVE  Codes!Init /\ [][Codes!Next]_(Codes!vars) => []NewestCodesWork
<1>1. CodesInv => NewestCodesWork
  BY DEF CodesInv, NewestCodesWork
<1> QED
  BY <1>1, CodesInvariant, PTL

-----------------------------------------------------------------------------
(* The conversations on the operator's page. What the page was told is     *)
(* cleared is stored no more, no event that is still to come has it, and   *)
(* no load that the page will use.                                         *)

NoneIsNoConv == None \notin Page!Conv

Event == [kind : {"msg", "chat-cleared"}, conv : Page!Conv, msgs : SUBSET Msg]
Of(c) == {m \in Msg : filed[m] = c}

\* The events that are to come.
Coming == work \cup {stream[i] : i \in DOMAIN stream}

PageTypes ==
    /\ filed \in [Msg -> Page!Conv \cup {None}]
    /\ hist \in [Page!Conv -> SUBSET Msg] /\ erased \in [Page!Conv -> SUBSET Msg]
    /\ work \subseteq Event /\ stream \in Seq(Event)
    /\ convs \in [Page!Conv -> [msgs : SUBSET Msg, loaded : BOOLEAN, loadToken : Nat]]
    /\ loads \subseteq [conv : Page!Conv, token : {1}, got : (SUBSET Msg) \cup {None}]

FiledOK ==
    /\ \A c \in Page!Conv : hist[c] \subseteq Of(c) /\ erased[c] \subseteq Of(c)
    /\ \A e \in Coming : e.msgs \subseteq Of(e.conv)

GoneOK ==
    /\ \A c \in Page!Conv : erased[c] \cap hist[c] = {}
    /\ \A e \in Coming : e.kind = "chat-cleared" => e.msgs \cap hist[e.conv] = {}

InOrder ==
    /\ \A e \in Coming : e.kind = "msg" => \A c \in Page!Conv : e.msgs \cap erased[c] = {}
    /\ \A w \in work, i \in DOMAIN stream :
          w.kind = "msg" /\ stream[i].kind = "chat-cleared" => w.msgs \cap stream[i].msgs = {}
    /\ \A i, j \in DOMAIN stream :
          i < j /\ stream[i].kind = "chat-cleared" /\ stream[j].kind = "msg"
              => stream[i].msgs \cap stream[j].msgs = {}

\* A load that the page will use: a clear that it heard of has made it useless, but
\* for a direct conversation that was opened again.
LoadsOK ==
    /\ convs["room"].loaded /\ convs["room"].loadToken >= 1
    /\ \A f \in loads :
          f.conv \notin aba /\ f.token = convs[f.conv].loadToken /\ f.got # None
              => f.got \cap erased[f.conv] = {}

PageInv ==
    PageTypes /\ FiledOK /\ GoneOK /\ InOrder /\ LoadsOK /\ Page!ClearedStaysCleared

\* The first event of the stream, and what is left.
LEMMA HeadOK ==
    ASSUME PageInv, stream # << >>, stream' = Tail(stream)
    PROVE  /\ Head(stream) \in Event /\ Head(stream) \in Coming /\ Head(stream) = stream[1]
           /\ 1 \in DOMAIN stream
           /\ stream' \in Seq(Event)
           /\ \A i \in DOMAIN stream' :
                 /\ i + 1 \in DOMAIN stream /\ i + 1 > 1 /\ i \in Nat
                 /\ stream'[i] = stream[i + 1]
<1>1. stream \in Seq(Event)
  BY DEF PageInv, PageTypes
<1>2. Len(stream) \in Nat \ {0} /\ DOMAIN stream = 1 .. Len(stream)
  BY <1>1
<1>3. Head(stream) = stream[1] /\ 1 \in DOMAIN stream /\ stream[1] \in Event
  BY <1>1, <1>2
<1>4. /\ stream' \in Seq(Event) /\ DOMAIN stream' = 1 .. (Len(stream) - 1)
      /\ \A i \in 1 .. (Len(stream) - 1) : stream'[i] = stream[i + 1]
  BY <1>1, <1>2
<1>5. \A i \in DOMAIN stream' : i + 1 \in DOMAIN stream /\ i + 1 > 1 /\ i \in Nat
  BY <1>2, <1>4
<1> QED
  BY <1>3, <1>4, <1>5 DEF Coming

LEMMA StoreStep ==
    ASSUME NoneIsNoConv, PageInv, NEW m \in Msg, NEW c \in Page!Conv, Page!Store(m, c)
    PROVE  PageInv'
<1> DEFINE e == [kind |-> "msg", conv |-> c, msgs |-> {m}]
<1>1. /\ filed[m] = None /\ filed' = [filed EXCEPT ![m] = c]
      /\ hist' = [hist EXCEPT ![c] = hist[c] \cup {m}]
      /\ work' = work \cup {e}
      /\ UNCHANGED <<stream, convs, loads, erased, aba, opens>>
  BY DEF Page!Store, Page!pageVars
<1>2. PageTypes /\ FiledOK /\ GoneOK /\ InOrder /\ LoadsOK /\ Page!ClearedStaysCleared
  BY DEF PageInv
<1>3. e \in Event /\ e.kind = "msg" /\ e.conv = c /\ e.msgs = {m}
  BY DEF Event
<1> HIDE DEF e
<1>4. Coming' = Coming \cup {e} /\ \A x \in Coming : x \in Event
  BY <1>1, <1>2 DEF Coming, PageTypes
<1>5. \A d \in Page!Conv : Of(d)' = IF d = c THEN Of(d) \cup {m} ELSE Of(d)
  BY <1>1, <1>2 DEF Of, PageTypes, NoneIsNoConv
<1>6. \A d \in Page!Conv : m \notin Of(d)
  BY <1>1 DEF Of, NoneIsNoConv
<1>7. \A x \in Coming : x.conv \in Page!Conv
  BY <1>4 DEF Event
<1>8. /\ \A d \in Page!Conv : m \notin erased[d]
      /\ \A x \in Coming : m \notin x.msgs
  BY <1>2, <1>6, <1>7 DEF FiledOK
<1>9. PageTypes'
  BY <1>1, <1>2, <1>3 DEF PageTypes
<1>10. \A d \in Page!Conv : hist'[d] = IF d = c THEN hist[d] \cup {m} ELSE hist[d]
  BY <1>1, <1>2 DEF PageTypes
<1>11. FiledOK'
  BY <1>1, <1>2, <1>3, <1>4, <1>5, <1>7, <1>10 DEF FiledOK
<1>12. GoneOK'
  BY <1>1, <1>2, <1>3, <1>4, <1>7, <1>8, <1>10 DEF GoneOK
<1>13. InOrder'
  BY <1>1, <1>2, <1>3, <1>4, <1>8 DEF InOrder, Coming
<1>14. LoadsOK' /\ Page!ClearedStaysCleared'
  BY <1>1, <1>2 DEF LoadsOK, Page!ClearedStaysCleared
<1> QED
  BY <1>9, <1>11, <1>12, <1>13, <1>14 DEF PageInv

LEMMA ClearStep ==
    ASSUME PageInv, NEW c \in Page!Conv, Page!ClearMessages(c)
    PROVE  PageInv'
<1> DEFINE e == [kind |-> "chat-cleared", conv |-> c, msgs |-> hist[c]]
<1>1. /\ hist' = [hist EXCEPT ![c] = {}] /\ work' = work \cup {e}
      /\ UNCHANGED <<stream, convs, loads, erased, aba, opens, filed>>
  BY DEF Page!ClearMessages, Page!pageVars
<1>2. PageTypes /\ FiledOK /\ GoneOK /\ InOrder /\ LoadsOK /\ Page!ClearedStaysCleared
  BY DEF PageInv
<1>3. e \in Event /\ e.kind = "chat-cleared" /\ e.conv = c /\ e.msgs = hist[c]
  BY <1>2 DEF Event, PageTypes
<1> HIDE DEF e
<1>4. Coming' = Coming \cup {e} /\ \A x \in Coming : x \in Event
  BY <1>1, <1>2 DEF Coming, PageTypes
<1>5. \A d \in Page!Conv : Of(d)' = Of(d)
  BY <1>1 DEF Of
<1>6. \A x \in Coming : x.conv \in Page!Conv
  BY <1>4 DEF Event
<1>7. \A d \in Page!Conv : hist'[d] = IF d = c THEN {} ELSE hist[d]
  BY <1>1, <1>2 DEF PageTypes
<1>8. PageTypes'
  BY <1>1, <1>2, <1>3 DEF PageTypes
<1>9. FiledOK'
  BY <1>1, <1>2, <1>3, <1>4, <1>5, <1>6, <1>7 DEF FiledOK
<1>10. GoneOK'
  BY <1>1, <1>2, <1>3, <1>4, <1>6, <1>7 DEF GoneOK
<1>11. InOrder'
  BY <1>1, <1>2, <1>3, <1>4 DEF InOrder, Coming
<1>12. LoadsOK' /\ Page!ClearedStaysCleared'
  BY <1>1, <1>2 DEF LoadsOK, Page!ClearedStaysCleared
<1> QED
  BY <1>8, <1>9, <1>10, <1>11, <1>12 DEF PageInv

\* What is told of a clear leaves out what is not announced yet, so the event of
\* a message is in the stream before the event that erases it.
LEMMA EmitStep ==
    ASSUME PageInv, NEW w \in work, Page!emit(w)
    PROVE  PageInv'
<1> DEFINE e == IF w.kind = "msg" THEN w ELSE [w EXCEPT !.msgs = w.msgs \ Page!Unannounced]
           n == Len(stream)
<1>1. /\ work' = work \ {w} /\ stream' \in {stream, Append(stream, e)}
      /\ UNCHANGED <<hist, filed, convs, loads, erased, aba, opens>>
  BY DEF Page!emit, Page!pageVars
<1>2. PageTypes /\ FiledOK /\ GoneOK /\ InOrder /\ LoadsOK /\ Page!ClearedStaysCleared
  BY DEF PageInv
<1>3. /\ e \in Event /\ e.kind = w.kind /\ e.conv = w.conv /\ e.msgs \subseteq w.msgs
      /\ w \in Coming
      /\ w.kind # "msg" => \A v \in work : v.kind = "msg" => v.msgs \cap e.msgs = {}
  <2>1. w \in Event /\ w \in Coming
    BY <1>2 DEF PageTypes, Coming
  <2>2. CASE w.kind = "msg"
    BY <2>1, <2>2
  <2>3. CASE w.kind # "msg"
    <3>1. e = [w EXCEPT !.msgs = w.msgs \ Page!Unannounced]
      BY <2>3
    <3>2. e \in Event /\ e.kind = w.kind /\ e.conv = w.conv /\ e.msgs = w.msgs \ Page!Unannounced
      BY <2>1, <3>1 DEF Event
    <3>3. \A v \in work : v.kind = "msg" => v.msgs \subseteq Page!Unannounced
      BY DEF Page!Unannounced
    <3> QED
      BY <2>1, <3>2, <3>3
  <2> QED
    BY <2>2, <2>3
<1> HIDE DEF e
<1>4. /\ stream \in Seq(Event) /\ n \in Nat /\ DOMAIN stream = 1 .. n
  BY <1>2 DEF PageTypes
<1>5. /\ stream' \in Seq(Event)
      /\ \A i \in DOMAIN stream' :
            \/ i \in DOMAIN stream /\ stream'[i] = stream[i]
            \/ i = n + 1 /\ stream'[i] = e
  <2>1. CASE stream' = stream
    BY <1>4, <2>1
  <2>2. CASE stream' = Append(stream, e)
    BY <1>3, <1>4, <2>2
  <2> QED
    BY <1>1, <2>1, <2>2
<1>6. Coming' \subseteq Coming \cup {e}
  BY <1>1, <1>5 DEF Coming
<1>7. \A c : Of(c)' = Of(c)
  BY <1>1 DEF Of
<1>8. PageTypes'
  BY <1>1, <1>2, <1>5 DEF PageTypes
<1>9. FiledOK'
  BY <1>1, <1>2, <1>3, <1>6, <1>7 DEF FiledOK
<1>10. GoneOK'
  BY <1>1, <1>2, <1>3, <1>6 DEF GoneOK
<1>11. InOrder'
  <2>1. ASSUME NEW x \in Coming', x.kind = "msg", NEW c \in Page!Conv
        PROVE  x.msgs \cap erased[c] = {}
    BY <1>2, <1>3, <1>6, <2>1 DEF InOrder
  <2>2. ASSUME NEW v \in work', NEW i \in DOMAIN stream',
               v.kind = "msg", stream'[i].kind = "chat-cleared"
        PROVE  v.msgs \cap stream'[i].msgs = {}
    BY <1>1, <1>2, <1>3, <1>5, <2>2 DEF InOrder
  <2>3. ASSUME NEW i \in DOMAIN stream', NEW j \in DOMAIN stream', i < j,
               stream'[i].kind = "chat-cleared", stream'[j].kind = "msg"
        PROVE  stream'[i].msgs \cap stream'[j].msgs = {}
    <3>1. i \in DOMAIN stream /\ stream'[i] = stream[i]
      BY <1>4, <1>5, <2>3
    <3>2. CASE j \in DOMAIN stream /\ stream'[j] = stream[j]
      BY <1>2, <2>3, <3>1, <3>2 DEF InOrder
    <3>3. CASE stream'[j] = e
      <4>1. w.msgs \cap stream[i].msgs = {}
        BY <1>2, <1>3, <2>3, <3>1, <3>3 DEF InOrder
      <4> QED
        BY <1>3, <3>1, <3>3, <4>1
    <3> QED
      BY <1>5, <3>2, <3>3
  <2> QED
    BY <1>1, <2>1, <2>2, <2>3 DEF InOrder
<1>12. LoadsOK' /\ Page!ClearedStaysCleared'
  BY <1>1, <1>2 DEF LoadsOK, Page!ClearedStaysCleared
<1> QED
  BY <1>8, <1>9, <1>10, <1>11, <1>12 DEF PageInv

\* The three conversations the page makes: one it has, one it lacks, and one that
\* is being loaded.
LEMMA NewConvs ==
    LET Keeps == [msgs : SUBSET Msg, loaded : BOOLEAN, loadToken : Nat]
        opened == [Page!Fresh EXCEPT !.loadToken = 1]
    IN  /\ Page!Fresh \in Keeps /\ Page!Missing \in Keeps /\ opened \in Keeps
        /\ Page!Fresh.msgs = {} /\ Page!Missing.msgs = {} /\ opened.msgs = {}
        /\ Page!Fresh.loaded /\ opened.loaded
        /\ Page!Fresh.loadToken = 0 /\ opened.loadToken = 1
<1> DEFINE Keeps == [msgs : SUBSET Msg, loaded : BOOLEAN, loadToken : Nat]
<1>1. /\ Page!Fresh \in Keeps /\ Page!Fresh.msgs = {}
      /\ Page!Fresh.loaded = TRUE /\ Page!Fresh.loadToken = 0
  BY DEF Page!Fresh
<1>2. Page!Missing \in Keeps /\ Page!Missing.msgs = {}
  BY DEF Page!Missing
<1> DEFINE opened == [Page!Fresh EXCEPT !.loadToken = 1]
<1>3. /\ opened \in Keeps /\ opened.msgs = {}
      /\ opened.loaded = TRUE /\ opened.loadToken = 1
  BY DEF Page!Fresh
<1> QED
  BY <1>1, <1>2, <1>3

LEMMA ConvType ==
    ASSUME PageTypes, NEW c \in Page!Conv,
           NEW v \in [msgs : SUBSET Msg, loaded : BOOLEAN, loadToken : Nat],
           convs' = [convs EXCEPT ![c] = v]
    PROVE  /\ convs' \in [Page!Conv -> [msgs : SUBSET Msg, loaded : BOOLEAN, loadToken : Nat]]
           /\ \A d \in Page!Conv : convs'[d] = IF d = c THEN v ELSE convs[d]
BY DEF PageTypes

\* A load: its start, what the host answers, and the answer.
LEMMA LoadSteps ==
    ASSUME PageInv,
           \/ \E c \in Page!Conv : Page!openConv(c)
           \/ \E f \in loads : Page!Load(f) \/ Page!Loaded(f)
    PROVE  PageInv'
<1>1. /\ UNCHANGED <<hist, work, filed, stream, erased>>
  BY DEF Page!openConv, Page!Load, Page!Loaded, Page!hostVars
<1>2. PageTypes /\ FiledOK /\ GoneOK /\ InOrder /\ LoadsOK /\ Page!ClearedStaysCleared
  BY DEF PageInv
<1>3. FiledOK' /\ GoneOK' /\ InOrder'
  <2>1. Coming' = Coming /\ \A c : Of(c)' = Of(c)
    BY <1>1 DEF Coming, Of
  <2> QED
    BY <1>1, <1>2, <2>1 DEF FiledOK, GoneOK, InOrder
<1>4. \A f \in loads : f.conv \in Page!Conv /\ f.token = 1
  BY <1>2 DEF PageTypes
<1>5. "room" \in Page!Conv
  BY DEF Page!Conv
<1>6. ASSUME NEW c \in Page!Conv, Page!openConv(c)
      PROVE  PageTypes' /\ LoadsOK' /\ Page!ClearedStaysCleared'
  <2> DEFINE v == [Page!Fresh EXCEPT !.loadToken = 1]
             f == [conv |-> c, token |-> 1, got |-> None]
  <2>1. /\ ~convs[c].loaded /\ convs' = [convs EXCEPT ![c] = v]
        /\ loads' = loads \cup {f}
        /\ aba' = IF \E g \in loads : g.conv = c THEN aba \cup {c} ELSE aba
    BY <1>6 DEF Page!openConv
  <2>0. /\ v \in [msgs : SUBSET Msg, loaded : BOOLEAN, loadToken : Nat]
        /\ v.msgs = {} /\ v.loaded /\ v.loadToken = 1
    BY DEF Page!Fresh
  <2> HIDE DEF v
  <2>2. /\ convs' \in [Page!Conv -> [msgs : SUBSET Msg, loaded : BOOLEAN, loadToken : Nat]]
        /\ \A d \in Page!Conv : convs'[d] = IF d = c THEN v ELSE convs[d]
    BY <1>2, <2>0, <2>1, ConvType
  <2>3. c # "room"
    BY <1>2, <2>1 DEF LoadsOK
  <2>4. PageTypes'
    BY <1>1, <1>2, <2>1, <2>2 DEF PageTypes
  <2>5. ASSUME NEW g \in loads', g.conv \notin aba', g.token = convs'[g.conv].loadToken,
               g.got # None
        PROVE  g.got \cap erased[g.conv] = {}
    <3>1. g \in loads /\ g.conv # c /\ g.conv \notin aba
      BY <2>1, <2>5
    <3>2. convs'[g.conv] = convs[g.conv]
      BY <1>4, <2>2, <3>1
    <3> QED
      BY <1>2, <2>5, <3>1, <3>2 DEF LoadsOK
  <2>6. LoadsOK'
    BY <1>1, <1>2, <1>5, <2>2, <2>3, <2>5 DEF LoadsOK
  <2>7. ASSUME NEW d \in Page!Conv \ aba' PROVE convs'[d].msgs \cap erased[d] = {}
    <3>1. d \notin aba
      BY <2>1, <2>7
    <3> QED
      BY <1>2, <2>0, <2>2, <3>1 DEF Page!ClearedStaysCleared
  <2> QED
    BY <1>1, <2>4, <2>6, <2>7 DEF Page!ClearedStaysCleared
<1>7. ASSUME NEW f \in loads, Page!Load(f)
      PROVE  PageTypes' /\ LoadsOK' /\ Page!ClearedStaysCleared'
  <2> DEFINE g == [f EXCEPT !.got = hist[f.conv]]
  <2>1. loads' = (loads \ {f}) \cup {g} /\ UNCHANGED <<convs, aba>>
    BY <1>7 DEF Page!Load
  <2>2. /\ g \in [conv : Page!Conv, token : {1}, got : (SUBSET Msg) \cup {None}]
        /\ g.conv = f.conv /\ g.got = hist[f.conv] /\ f.conv \in Page!Conv
    BY <1>2 DEF PageTypes
  <2>3. g.got \cap erased[g.conv] = {}
    BY <1>2, <2>2 DEF GoneOK
  <2> HIDE DEF g
  <2>4. PageTypes'
    BY <1>1, <1>2, <2>1, <2>2 DEF PageTypes
  <2>5. LoadsOK'
    BY <1>1, <1>2, <2>1, <2>3 DEF LoadsOK
  <2> QED
    BY <1>1, <1>2, <2>1, <2>4, <2>5 DEF Page!ClearedStaysCleared
<1>8. ASSUME NEW f \in loads, Page!Loaded(f)
      PROVE  PageTypes' /\ LoadsOK' /\ Page!ClearedStaysCleared'
  <2> DEFINE c == f.conv
             v == [convs[c] EXCEPT !.msgs = convs[c].msgs \cup f.got]
  <2>1. /\ loads' = loads \ {f} /\ f.got # None /\ UNCHANGED aba
        /\ \/ UNCHANGED convs
           \/ convs[c].loadToken = f.token /\ convs' = [convs EXCEPT ![c] = v]
    BY <1>8 DEF Page!Loaded
  <2>2. CASE UNCHANGED convs
    <3>1. PageTypes' /\ LoadsOK'
      BY <1>1, <1>2, <2>1, <2>2 DEF PageTypes, LoadsOK
    <3> QED
      BY <1>1, <1>2, <2>1, <2>2, <3>1 DEF Page!ClearedStaysCleared
  <2>3. CASE convs[c].loadToken = f.token /\ convs' = [convs EXCEPT ![c] = v]
    <3>1. /\ c \in Page!Conv /\ f.got \in SUBSET Msg
          /\ convs[c] \in [msgs : SUBSET Msg, loaded : BOOLEAN, loadToken : Nat]
      BY <1>2, <2>1 DEF PageTypes
    <3>2. /\ v \in [msgs : SUBSET Msg, loaded : BOOLEAN, loadToken : Nat]
          /\ v.msgs = convs[c].msgs \cup f.got
          /\ v.loaded = convs[c].loaded /\ v.loadToken = convs[c].loadToken
      BY <3>1
    <3> HIDE DEF v
    <3>3. /\ convs' \in [Page!Conv -> [msgs : SUBSET Msg, loaded : BOOLEAN, loadToken : Nat]]
          /\ \A d \in Page!Conv : convs'[d] = IF d = c THEN v ELSE convs[d]
      BY <1>2, <2>3, <3>1, <3>2, ConvType
    <3>4. PageTypes'
      BY <1>1, <1>2, <2>1, <3>3 DEF PageTypes
    <3>5. LoadsOK'
      BY <1>1, <1>2, <1>4, <1>5, <2>1, <3>2, <3>3 DEF LoadsOK
    <3>6. c \notin aba => f.got \cap erased[c] = {}
      BY <1>2, <2>1, <2>3 DEF LoadsOK
    <3>7. ASSUME NEW d \in Page!Conv \ aba PROVE convs'[d].msgs \cap erased[d] = {}
      BY <1>2, <3>2, <3>3, <3>6, <3>7 DEF Page!ClearedStaysCleared
    <3> QED
      BY <1>1, <2>1, <3>4, <3>5, <3>7 DEF Page!ClearedStaysCleared
  <2> QED
    BY <2>1, <2>2, <2>3
<1> QED
  BY <1>3, <1>6, <1>7, <1>8 DEF PageInv

LEMMA AddMsgStep ==
    ASSUME PageInv, Page!addMsg
    PROVE  PageInv'
<1> DEFINE e == Head(stream)
           conv == IF convs[e.conv].loaded THEN convs[e.conv] ELSE Page!Fresh
           v == [conv EXCEPT !.msgs = conv.msgs \cup e.msgs]
           Keeps == [msgs : SUBSET Msg, loaded : BOOLEAN, loadToken : Nat]
<1>1. /\ stream # << >> /\ e.kind = "msg" /\ stream' = Tail(stream)
      /\ convs' = [convs EXCEPT ![e.conv] = v]
      /\ UNCHANGED <<hist, work, filed, loads, erased, aba, opens>>
  BY DEF Page!addMsg, Page!Hears, Page!hostVars
<1>2. PageTypes /\ FiledOK /\ GoneOK /\ InOrder /\ LoadsOK /\ Page!ClearedStaysCleared
  BY DEF PageInv
<1>3. /\ e \in Event /\ e \in Coming
      /\ stream' \in Seq(Event)
      /\ \A i \in DOMAIN stream' : i + 1 \in DOMAIN stream /\ stream'[i] = stream[i + 1]
                                   /\ i \in Nat
  BY <1>1, HeadOK
<1>4. /\ e.conv \in Page!Conv /\ e.msgs \in SUBSET Msg /\ convs[e.conv] \in Keeps
      /\ "room" \in Page!Conv
  BY <1>2, <1>3 DEF Event, PageTypes, Page!Conv
<1>5. /\ v \in Keeps
      /\ v.msgs = (IF convs[e.conv].loaded THEN convs[e.conv].msgs ELSE {}) \cup e.msgs
      /\ v.loadToken = IF convs[e.conv].loaded THEN convs[e.conv].loadToken ELSE 0
      /\ v.loaded
  <2>1. CASE convs[e.conv].loaded
    BY <1>4, <2>1
  <2>2. CASE ~convs[e.conv].loaded
    <3>1. conv = Page!Fresh
      BY <2>2
    <3>2. conv \in Keeps /\ conv.msgs = {} /\ conv.loaded /\ conv.loadToken = 0
      BY ONLY <3>1, NewConvs
    <3> HIDE DEF conv
    <3>3. v \in Keeps /\ v.msgs = conv.msgs \cup e.msgs
          /\ v.loadToken = conv.loadToken /\ v.loaded = conv.loaded
      BY <1>4, <3>2
    <3> QED
      BY <2>2, <3>2, <3>3
  <2> QED
    BY <2>1, <2>2
<1>6. \A c \in Page!Conv : e.msgs \cap erased[c] = {}
  BY <1>1, <1>2, <1>3 DEF InOrder
<1>7. Coming' \subseteq Coming /\ \A c : Of(c)' = Of(c)
  BY <1>1, <1>3 DEF Coming, Of
<1> HIDE DEF e, v, conv
<1>8. /\ convs' \in [Page!Conv -> Keeps]
      /\ \A d \in Page!Conv : convs'[d] = IF d = e.conv THEN v ELSE convs[d]
  BY <1>1, <1>2, <1>4, <1>5, ConvType
<1>9. PageTypes'
  BY <1>1, <1>2, <1>3, <1>8 DEF PageTypes
<1>10. FiledOK' /\ GoneOK'
  BY <1>1, <1>2, <1>7 DEF FiledOK, GoneOK
<1>11. InOrder'
  <2>1. \A x \in Coming' : x.kind = "msg" =>
            \A c \in Page!Conv : x.msgs \cap erased[c] = {}
    BY <1>2, <1>7 DEF InOrder
  <2>2. ASSUME NEW w \in work, NEW i \in DOMAIN stream',
               w.kind = "msg", stream'[i].kind = "chat-cleared"
        PROVE  w.msgs \cap stream'[i].msgs = {}
    BY <1>2, <1>3, <2>2 DEF InOrder
  <2>3. ASSUME NEW i \in DOMAIN stream', NEW j \in DOMAIN stream', i < j,
               stream'[i].kind = "chat-cleared", stream'[j].kind = "msg"
        PROVE  stream'[i].msgs \cap stream'[j].msgs = {}
    <3>1. i + 1 < j + 1
      BY <1>3, <2>3
    <3> QED
      BY <1>2, <1>3, <2>3, <3>1 DEF InOrder
  <2> QED
    BY <1>1, <2>1, <2>2, <2>3 DEF InOrder
<1>12. LoadsOK'
  <2>1. ASSUME NEW f \in loads, f.conv \notin aba, f.token = convs'[f.conv].loadToken,
               f.got # None
        PROVE  f.got \cap erased[f.conv] = {}
    <3>1. f.conv \in Page!Conv /\ f.token = 1
      BY <1>2 DEF PageTypes
    <3>2. CASE f.conv = e.conv /\ ~convs[e.conv].loaded
      <4>1. v.loadToken = 0
        BY <1>5, <3>2
      <4>2. convs'[f.conv] = v
        BY <1>8, <3>1, <3>2
      <4>3. convs'[f.conv].loadToken = 0
        BY ONLY <4>1, <4>2
      <4>4. f.token = 0
        BY ONLY <2>1, <4>3
      <4> QED
        BY <3>1, <4>4
    <3>3. CASE ~(f.conv = e.conv /\ ~convs[e.conv].loaded)
      <4>1. convs'[f.conv].loadToken = convs[f.conv].loadToken
        BY <1>5, <1>8, <3>1, <3>3
      <4> QED
        BY <1>2, <2>1, <4>1 DEF LoadsOK
    <3> QED
      BY <3>2, <3>3
  <2>2. convs'["room"].loaded /\ convs'["room"].loadToken >= 1
    BY <1>2, <1>4, <1>5, <1>8 DEF LoadsOK
  <2> QED
    BY <1>1, <2>1, <2>2 DEF LoadsOK
<1>13. ASSUME NEW d \in Page!Conv \ aba PROVE convs'[d].msgs \cap erased[d] = {}
  BY <1>2, <1>5, <1>6, <1>8, <1>13 DEF Page!ClearedStaysCleared
<1> QED
  BY <1>1, <1>9, <1>10, <1>11, <1>12, <1>13 DEF PageInv, Page!ClearedStaysCleared

\* The page hears of a clear: no event that is still to come has what it erases,
\* and no load that was under way is used.
LEMMA ApplyStep ==
    ASSUME PageInv, Page!applyChatCleared
    PROVE  PageInv'
<1> DEFINE e == Head(stream)
           c == e.conv
           v == Page!Cleared(convs[c], c)
           Keeps == [msgs : SUBSET Msg, loaded : BOOLEAN, loadToken : Nat]
<1>1. /\ stream # << >> /\ e.kind = "chat-cleared" /\ stream' = Tail(stream)
      /\ convs' = [convs EXCEPT ![c] = v]
      /\ erased' = [erased EXCEPT ![c] = erased[c] \cup e.msgs]
      /\ UNCHANGED <<hist, work, filed, loads, aba, opens>>
  BY DEF Page!applyChatCleared, Page!Hears, Page!hostVars
<1>2. PageTypes /\ FiledOK /\ GoneOK /\ InOrder /\ LoadsOK /\ Page!ClearedStaysCleared
  BY DEF PageInv
<1>3. /\ e \in Event /\ e \in Coming /\ e = stream[1] /\ 1 \in DOMAIN stream
      /\ stream' \in Seq(Event)
      /\ \A i \in DOMAIN stream' :
            i + 1 \in DOMAIN stream /\ i + 1 > 1 /\ stream'[i] = stream[i + 1] /\ i \in Nat
  BY <1>1, HeadOK
<1>4. /\ c \in Page!Conv /\ e.msgs \in SUBSET Msg /\ convs[c] \in Keeps
      /\ "room" \in Page!Conv
  BY <1>2, <1>3 DEF Event, PageTypes, Page!Conv
<1>5. /\ v \in Keeps /\ v.msgs = {}
      /\ c = "room" => v.loaded /\ v.loadToken = convs[c].loadToken + 1
      /\ c # "room" => v.loadToken = 0
  <2>1. CASE c = "room"
    <3>1. v = [Page!Fresh EXCEPT !.loadToken = convs[c].loadToken + 1]
      BY <2>1 DEF Page!Cleared
    <3>2. convs[c].loadToken + 1 \in Nat
      BY <1>4
    <3> HIDE DEF v, c
    <3> QED
      BY <2>1, <3>1, <3>2 DEF Page!Fresh
  <2>2. CASE c # "room"
    BY <1>4, <2>2 DEF Page!Cleared, Page!Missing
  <2> QED
    BY <2>1, <2>2
<1>6. Coming' \subseteq Coming /\ \A d : Of(d)' = Of(d)
  BY <1>1, <1>3 DEF Coming, Of
<1>7. /\ e.msgs \subseteq Of(c) /\ e.msgs \cap hist[c] = {}
      /\ \A w \in work : w.kind = "msg" => w.msgs \cap e.msgs = {}
      /\ \A i \in DOMAIN stream' : stream'[i].kind = "msg" => stream'[i].msgs \cap e.msgs = {}
  <2>1. e.msgs \subseteq Of(c) /\ e.msgs \cap hist[c] = {}
    BY <1>1, <1>2, <1>3 DEF FiledOK, GoneOK
  <2>2. \A w \in work : w.kind = "msg" => w.msgs \cap e.msgs = {}
    BY <1>1, <1>2, <1>3 DEF InOrder
  <2>3. ASSUME NEW i \in DOMAIN stream', stream'[i].kind = "msg"
        PROVE  stream'[i].msgs \cap e.msgs = {}
    <3>1. i + 1 \in DOMAIN stream /\ 1 < i + 1 /\ stream'[i] = stream[i + 1]
      BY <1>3
    <3>2. stream[1].msgs \cap stream[i + 1].msgs = {}
      BY <1>1, <1>2, <1>3, <2>3, <3>1 DEF InOrder
    <3> QED
      BY <1>3, <3>1, <3>2
  <2> QED
    BY <2>1, <2>2, <2>3
<1> HIDE DEF e, v, c
<1>8. /\ convs' \in [Page!Conv -> Keeps]
      /\ \A d \in Page!Conv : convs'[d] = IF d = c THEN v ELSE convs[d]
  BY <1>1, <1>2, <1>4, <1>5, ConvType
<1>9. \A d \in Page!Conv : erased'[d] = IF d = c THEN erased[d] \cup e.msgs ELSE erased[d]
  BY <1>1, <1>2 DEF PageTypes
<1>10. PageTypes'
  <2>1. erased' \in [Page!Conv -> SUBSET Msg]
    BY <1>1, <1>2, <1>4 DEF PageTypes
  <2> QED
    BY <1>1, <1>2, <1>3, <1>8, <2>1 DEF PageTypes
<1>11. FiledOK'
  BY <1>1, <1>2, <1>6, <1>7, <1>9 DEF FiledOK
<1>12. GoneOK'
  BY <1>1, <1>2, <1>6, <1>7, <1>9 DEF GoneOK
<1>13. InOrder'
  <2>1. ASSUME NEW x \in Coming', x.kind = "msg", NEW d \in Page!Conv
        PROVE  x.msgs \cap erased'[d] = {}
    <3>1. x \in Coming /\ x.msgs \cap erased[d] = {}
      BY <1>2, <1>6, <2>1 DEF InOrder
    <3>2. x.msgs \cap e.msgs = {}
      BY <1>1, <1>7, <2>1 DEF Coming
    <3> QED
      BY <1>9, <3>1, <3>2
  <2>2. ASSUME NEW w \in work, NEW i \in DOMAIN stream',
               w.kind = "msg", stream'[i].kind = "chat-cleared"
        PROVE  w.msgs \cap stream'[i].msgs = {}
    BY <1>2, <1>3, <2>2 DEF InOrder
  <2>3. ASSUME NEW i \in DOMAIN stream', NEW j \in DOMAIN stream', i < j,
               stream'[i].kind = "chat-cleared", stream'[j].kind = "msg"
        PROVE  stream'[i].msgs \cap stream'[j].msgs = {}
    <3>1. i + 1 < j + 1
      BY <1>3, <2>3
    <3> QED
      BY <1>2, <1>3, <2>3, <3>1 DEF InOrder
  <2> QED
    BY <1>1, <2>1, <2>2, <2>3 DEF InOrder
<1>14. LoadsOK'
  <2>1. ASSUME NEW f \in loads, f.conv \notin aba, f.token = convs'[f.conv].loadToken,
               f.got # None
        PROVE  f.got \cap erased'[f.conv] = {}
    <3>1. f.conv \in Page!Conv /\ f.token = 1
      BY <1>2 DEF PageTypes
    <3>2. ASSUME f.conv = c PROVE FALSE
      <4>1. v.loadToken = 1
        BY <1>8, <2>1, <3>1, <3>2
      <4>2. c = "room" /\ v.loadToken = convs[c].loadToken + 1 /\ convs[c].loadToken \in Nat
        BY <1>4, <1>5, <4>1
      <4> QED
        BY <1>2, <4>1, <4>2 DEF LoadsOK
    <3> QED
      BY <1>2, <1>8, <1>9, <2>1, <3>1, <3>2 DEF LoadsOK
  <2>2. convs'["room"].loaded /\ convs'["room"].loadToken >= 1
    BY <1>2, <1>4, <1>5, <1>8 DEF LoadsOK
  <2> QED
    BY <1>1, <2>1, <2>2 DEF LoadsOK
<1>15. ASSUME NEW d \in Page!Conv \ aba PROVE convs'[d].msgs \cap erased'[d] = {}
  BY <1>2, <1>5, <1>8, <1>9, <1>15 DEF Page!ClearedStaysCleared
<1> QED
  BY <1>1, <1>10, <1>11, <1>12, <1>13, <1>14, <1>15 DEF PageInv, Page!ClearedStaysCleared

LEMMA PageInvariant ==
    ASSUME NoneIsNoConv
    PROVE  Page!Init /\ [][Page!Next]_(Page!vars) => []PageInv
<1>1. Page!Init => PageInv
  <2>1. SUFFICES ASSUME Page!Init PROVE PageInv
    OBVIOUS
  <2>2. /\ hist = [c \in Page!Conv |-> {}] /\ erased = [c \in Page!Conv |-> {}]
        /\ work = {} /\ stream = << >> /\ filed = [m \in Msg |-> None]
        /\ loads = {[conv |-> "room", token |-> 1, got |-> None]}
        /\ convs = [c \in Page!Conv |->
                       IF c = "room" THEN [Page!Fresh EXCEPT !.loadToken = 1]
                                     ELSE Page!Missing]
    BY <2>1 DEF Page!Init
  <2>3. Coming = {} /\ "room" \in Page!Conv
    BY <2>2 DEF Coming, Page!Conv
  <2> DEFINE opened == [Page!Fresh EXCEPT !.loadToken = 1]
             Keeps == [msgs : SUBSET Msg, loaded : BOOLEAN, loadToken : Nat]
  <2>4. /\ opened \in Keeps /\ opened.msgs = {} /\ opened.loaded /\ opened.loadToken = 1
        /\ Page!Missing \in Keeps /\ Page!Missing.msgs = {}
    BY NewConvs
  <2>9. convs = [c \in Page!Conv |-> IF c = "room" THEN opened ELSE Page!Missing]
    BY <2>2
  <2> HIDE DEF opened
  <2>5. /\ convs \in [Page!Conv -> Keeps]
        /\ \A c \in Page!Conv : convs[c].msgs = {}
        /\ convs["room"].loaded /\ convs["room"].loadToken >= 1
    BY <2>3, <2>4, <2>9
  <2>6. PageTypes
    BY <2>2, <2>3, <2>5 DEF PageTypes
  <2>7. FiledOK /\ GoneOK /\ InOrder
    BY <2>2, <2>3 DEF FiledOK, GoneOK, InOrder
  <2>8. LoadsOK /\ Page!ClearedStaysCleared
    BY <2>2, <2>5 DEF LoadsOK, Page!ClearedStaysCleared
  <2> QED
    BY <2>6, <2>7, <2>8 DEF PageInv
<1>2. PageInv /\ [Page!Next]_(Page!vars) => PageInv'
  <2>1. SUFFICES ASSUME PageInv, [Page!Next]_(Page!vars) PROVE PageInv'
    OBVIOUS
  <2>2. CASE UNCHANGED Page!vars
    <3>1. /\ UNCHANGED <<hist, work, stream, convs, loads, filed, erased, aba>>
          /\ UNCHANGED Coming /\ \A c : Of(c)' = Of(c)
      BY <2>2 DEF Page!vars, Coming, Of
    <3>2. PageTypes' /\ FiledOK' /\ GoneOK' /\ InOrder' /\ LoadsOK'
      BY <2>1, <3>1 DEF PageInv, PageTypes, FiledOK, GoneOK, InOrder, LoadsOK
    <3> QED
      BY <2>1, <3>1, <3>2 DEF PageInv, Page!ClearedStaysCleared
  <2> QED
    BY <2>1, <2>2, StoreStep, ClearStep, EmitStep, LoadSteps, AddMsgStep, ApplyStep
       DEF Page!Next
<1> QED
  BY <1>1, <1>2, PTL

\* What was on its way to the page before a clear never comes back on it, for any
\* number of messages, clears, loads and lost events.
THEOREM NeverComesBack ==
    ASSUME NoneIsNoConv
    PROVE  Page!Init /\ [][Page!Next]_(Page!vars) => []ClearedStaysCleared
<1>1. PageInv => ClearedStaysCleared
  BY DEF PageInv, ClearedStaysCleared
<1> QED
  BY <1>1, PageInvariant, PTL
-----------------------------------------------------------------------------
(* The throttle. A ban survives every step but its last unit of time, a     *)
(* valid hello, and a failure that finds the record lapsed.                 *)

ThrottleBounds ==
    /\ AuthFails \in Nat \ {0} /\ DurationBits \in Nat
    /\ AuthWindow \in Nat /\ BanMax \in Nat \ {0}

\* Whoever has to wait has failed.
BansHaveFailures == \A a \in Source : Throttle!blocked(a) => fail[a].n > 0

ThrottleInv == Throttle!TypeOK /\ BansHaveFailures

\* Whatever the shift leaves, overflow included, makes a ban of some length, and
\* none beyond the maximum.
LEMMA BackoffBounds ==
    ASSUME ThrottleBounds, NEW n \in Nat, n >= AuthFails
    PROVE  Throttle!backoff(n) \in 1 .. BanMax
<1>1. n - AuthFails \in Nat
  BY DEF ThrottleBounds
<1> DEFINE k == n - AuthFails
           wait == Throttle!Shift(k)
<1>2. wait \in Int
  <2>1. k \in Nat /\ 2^k \in Int /\ 2^DurationBits \in Int
    BY <1>1 DEF ThrottleBounds
  <2> HIDE DEF k
  <2> QED
    BY <2>1 DEF Throttle!Shift
<1>3. Throttle!backoff(n) = IF wait > BanMax \/ wait <= 0 THEN BanMax ELSE wait
  BY DEF Throttle!backoff
<1> HIDE DEF wait
<1> QED
  BY <1>2, <1>3 DEF ThrottleBounds

Records == [n : 0 .. AuthFails + DurationBits, seen : 0 .. AuthWindow, until : 0 .. BanMax]

\* A failure leaves a record that counts it, and ends no ban unless the record
\* has lapsed.
LEMMA BadStep ==
    ASSUME ThrottleBounds, ThrottleInv, NEW a \in Source, Throttle!bad(a)
    PROVE  /\ fail' \in [Source -> Records]
           /\ \A b \in Source : b # a => fail'[b] = fail[b]
           /\ fail'[a].n > 0
           /\ fail[a].until > 0 => fail'[a].until > 0 \/ Throttle!Lapsed(fail[a])
<1> DEFINE n == IF Throttle!Lapsed(fail[a]) THEN 1 ELSE Throttle!Count(fail[a].n + 1)
           wait == IF n >= AuthFails THEN Throttle!backoff(n)
                   ELSE IF Throttle!Lapsed(fail[a]) THEN 0 ELSE fail[a].until
           rec == [n |-> n, seen |-> 0, until |-> wait]
<1>1. fail' = [fail EXCEPT ![a] = rec]
  BY DEF Throttle!bad
<1>2. fail \in [Source -> Records]
  BY DEF ThrottleInv, Throttle!TypeOK, Records
<1>3. fail[a].n \in 0 .. AuthFails + DurationBits /\ fail[a].until \in 0 .. BanMax
  BY <1>2 DEF Records
<1>4. n \in 1 .. AuthFails + DurationBits
  BY <1>3 DEF Throttle!Count, ThrottleBounds
<1> HIDE DEF n
<1>5. n >= AuthFails => Throttle!backoff(n) \in 1 .. BanMax
  BY <1>4, BackoffBounds DEF ThrottleBounds
<1>6. wait \in 0 .. BanMax /\ (fail[a].until > 0 => wait > 0 \/ Throttle!Lapsed(fail[a]))
  BY <1>3, <1>5 DEF ThrottleBounds
<1> HIDE DEF wait
<1>7. rec \in Records /\ rec.n = n /\ rec.until = wait
  BY <1>4, <1>6 DEF Records, ThrottleBounds
<1> HIDE DEF rec
<1>8. /\ fail' \in [Source -> Records]
      /\ \A b \in Source : fail'[b] = IF b = a THEN rec ELSE fail[b]
  BY <1>1, <1>2, <1>7
<1> QED
  BY <1>4, <1>6, <1>7, <1>8

\* Every step keeps the types, and ends a ban in one of the three ways only.
LEMMA ThrottleStep ==
    ASSUME ThrottleBounds, ThrottleInv, Throttle!Next
    PROVE  /\ ThrottleInv'
           /\ \A a \in Source : Throttle!blocked(a) /\ ~Throttle!blocked(a)' =>
                  \/ fail[a].until = 1
                  \/ \E h \in Hello :
                        /\ attempt[h] = a /\ attempt'[h] = None
                        /\ fail'[a].n = 0 \/ Throttle!Lapsed(fail[a])
<1> DEFINE Ends(a) == \/ fail[a].until = 1
                      \/ \E h \in Hello :
                            /\ attempt[h] = a /\ attempt'[h] = None
                            /\ fail'[a].n = 0 \/ Throttle!Lapsed(fail[a])
           Served == \A a \in Source :
                        Throttle!blocked(a) /\ ~Throttle!blocked(a)' => Ends(a)
<1>1. /\ fail \in [Source -> Records] /\ attempt \in [Hello -> Source \cup {None}]
      /\ \A a \in Source : fail[a].until > 0 => fail[a].n > 0
  BY DEF ThrottleInv, Throttle!TypeOK, BansHaveFailures, Records, Throttle!blocked
<1>2. Throttle!NoRecord \in Records /\ Throttle!NoRecord.n = 0 /\ Throttle!NoRecord.until = 0
  BY DEF Throttle!NoRecord, Records, ThrottleBounds
<1>3. SUFFICES /\ fail' \in [Source -> Records] /\ attempt' \in [Hello -> Source \cup {None}]
               /\ \A a \in Source : fail'[a].until > 0 => fail'[a].n > 0
               /\ Served
  BY DEF ThrottleInv, Throttle!TypeOK, BansHaveFailures, Records, Throttle!blocked
<1>4. CASE UNCHANGED fail /\ \E h \in Hello, x \in Source \cup {None} :
                                 attempt' = [attempt EXCEPT ![h] = x]
  BY <1>1, <1>4 DEF Throttle!blocked
<1>5. ASSUME NEW h \in Hello, Throttle!HelloFails(h)
      PROVE  /\ fail' \in [Source -> Records] /\ attempt' \in [Hello -> Source \cup {None}]
             /\ \A a \in Source : fail'[a].until > 0 => fail'[a].n > 0
             /\ Served
  <2> DEFINE a == attempt[h]
  <2>1. /\ a \in Source /\ Throttle!bad(a) /\ attempt' = [attempt EXCEPT ![h] = None]
    BY <1>1, <1>5 DEF Throttle!HelloFails
  <2>2. /\ attempt' \in [Hello -> Source \cup {None}] /\ attempt'[h] = None
    BY <1>1, <2>1
  <2>3. /\ fail' \in [Source -> Records]
        /\ \A b \in Source : b # a => fail'[b] = fail[b]
        /\ fail'[a].n > 0
        /\ fail[a].until > 0 => fail'[a].until > 0 \/ Throttle!Lapsed(fail[a])
    BY <2>1, BadStep
  <2>4. Served
    BY <2>1, <2>2, <2>3 DEF Throttle!blocked
  <2> QED
    BY <1>1, <2>2, <2>3, <2>4
<1>6. ASSUME NEW h \in Hello, Throttle!HelloSucceeds(h)
      PROVE  /\ fail' \in [Source -> Records] /\ attempt' \in [Hello -> Source \cup {None}]
             /\ \A a \in Source : fail'[a].until > 0 => fail'[a].n > 0
             /\ Served
  <2> DEFINE a == attempt[h]
  <2>1. /\ a \in Source /\ fail' = [fail EXCEPT ![a] = Throttle!NoRecord]
        /\ attempt' = [attempt EXCEPT ![h] = None]
    BY <1>1, <1>6 DEF Throttle!HelloSucceeds
  <2>2. /\ attempt' \in [Hello -> Source \cup {None}] /\ attempt'[h] = None
        /\ fail' \in [Source -> Records]
        /\ \A b \in Source : fail'[b] = IF b = a THEN Throttle!NoRecord ELSE fail[b]
    BY <1>1, <1>2, <2>1
  <2>3. Served
    BY <1>2, <2>1, <2>2 DEF Throttle!blocked
  <2> QED
    BY <1>1, <1>2, <2>2, <2>3
<1>7. CASE Throttle!sweep
  <2>1. /\ UNCHANGED attempt
        /\ fail' \in [Source -> Records]
        /\ \A a \in Source : fail'[a] = fail[a]
                              \/ (fail'[a] = Throttle!NoRecord /\ ~Throttle!blocked(a))
    BY <1>1, <1>2, <1>7 DEF Throttle!sweep
  <2> QED
    BY <1>1, <1>2, <2>1 DEF Throttle!blocked
<1>8. CASE Throttle!Tick
  <2> DEFINE older(a) == [n |-> fail[a].n,
                          seen |-> IF Throttle!Lapsed(fail[a]) THEN AuthWindow
                                   ELSE fail[a].seen + 1,
                          until |-> Throttle!Less(fail[a].until)]
  <2>1. /\ UNCHANGED attempt
        /\ fail' = [a \in Source |-> IF fail[a].n = 0 THEN Throttle!NoRecord ELSE older(a)]
    BY <1>8 DEF Throttle!Tick
  <2>2. ASSUME NEW a \in Source
        PROVE  /\ older(a) \in Records /\ older(a).n = fail[a].n
               /\ older(a).until = 0 => fail[a].until \in {0, 1}
    <3>1. /\ fail[a].n \in 0 .. AuthFails + DurationBits
          /\ fail[a].seen \in 0 .. AuthWindow /\ fail[a].until \in 0 .. BanMax
      BY <1>1 DEF Records
    <3>2. /\ Throttle!Less(fail[a].until) \in 0 .. BanMax
          /\ Throttle!Less(fail[a].until) = 0 => fail[a].until \in {0, 1}
      BY <3>1 DEF Throttle!Less, ThrottleBounds
    <3>3. (IF Throttle!Lapsed(fail[a]) THEN AuthWindow ELSE fail[a].seen + 1) \in 0 .. AuthWindow
      BY <3>1 DEF Throttle!Lapsed, ThrottleBounds
    <3> QED
      BY <3>1, <3>2, <3>3 DEF Records
  <2>3. ASSUME NEW a \in Source
        PROVE  fail[a].until \in Nat /\ fail[a].n \in Nat
    BY <1>1 DEF Records, ThrottleBounds
  <2> HIDE DEF older
  <2>4. /\ fail' \in [Source -> Records]
        /\ \A a \in Source : fail'[a].until > 0 => fail'[a].n > 0
    BY <1>1, <1>2, <2>1, <2>2, <2>3
  <2>5. Served
    <3>1. ASSUME NEW a \in Source, fail[a].until > 0, ~(fail'[a].until > 0)
          PROVE  fail[a].until = 1
      <4>1. fail'[a] = older(a) /\ older(a).until \in 0 .. BanMax
        BY <1>1, <2>1, <2>2, <3>1 DEF Records
      <4> QED
        BY <2>2, <3>1, <4>1 DEF ThrottleBounds
    <3> QED
      BY <3>1 DEF Throttle!blocked
  <2> QED
    BY <1>1, <2>1, <2>4, <2>5
<1> QED
  BY <1>3, <1>4, <1>5, <1>6, <1>7, <1>8
     DEF Throttle!Next, Throttle!Gate, Throttle!HelloMalformed

LEMMA ThrottleInit == ThrottleBounds /\ Throttle!Init => ThrottleInv
BY DEF Throttle!Init, Throttle!NoRecord, Throttle!blocked, ThrottleInv, Throttle!TypeOK,
       BansHaveFailures, ThrottleBounds

LEMMA ThrottleNext ==
    ASSUME ThrottleBounds
    PROVE  ThrottleInv /\ [Throttle!Next]_(Throttle!vars) => ThrottleInv'
<1>1. CASE UNCHANGED Throttle!vars
  BY <1>1 DEF Throttle!vars, ThrottleInv, Throttle!TypeOK, BansHaveFailures, Throttle!blocked
<1> QED
  BY <1>1, ThrottleStep

\* A ban is served to its end, for every limit, window, longest ban and width of a
\* duration, and any number of addresses and hellos at once.
THEOREM BansAreServed ==
    ASSUME ThrottleBounds
    PROVE  Throttle!Init /\ [][Throttle!Next]_(Throttle!vars) => BanServed
<1>1. Throttle!Init => ThrottleInv
  BY ThrottleInit
<1>2. ThrottleInv /\ [Throttle!Next]_(Throttle!vars) => ThrottleInv'
  BY ThrottleNext
<1>3. ThrottleInv /\ [Throttle!Next]_(Throttle!vars) =>
        [\A a \in Source : Throttle!blocked(a) /\ ~Throttle!blocked(a)' =>
            \/ fail[a].until = 1
            \/ \E h \in Hello : attempt[h] = a /\ attempt'[h] = None
                                /\ (fail'[a].n = 0 \/ Throttle!Lapsed(fail[a]))]_(Throttle!vars)
  BY ThrottleStep
<1> QED
  BY <1>1, <1>2, <1>3, PTL DEF BanServed, Throttle!BanServed

-----------------------------------------------------------------------------
(* The launches: LifecycleProofs, with the variables of Parts.             *)

L == INSTANCE LifecycleProofs

\* Launching again opens the copy that runs, however many launches there are and
\* whatever crashed before, as long as launches and exits do not overlap and
\* runtime.json can be written.
THEOREM OneCopyServes ==
    ASSUME L!NoneIsNoPort
    PROVE  L!Spec => []OneCopy
<1>1. L!Spec => []L!OneCopy
  BY L!OneCopyAlways
<1>2. L!OneCopy => OneCopy
  <2>1. L!Copies = Launches!Copies
    BY DEF L!Copies, Launches!Copies
  <2>2. \A S : L!Cardinality(S) = Launches!Cardinality(S)
    BY DEF L!Cardinality, Launches!Cardinality
  <2> QED
    BY <2>1, <2>2 DEF OneCopy, L!OneCopy, Launches!OneCopy
<1> QED
  BY <1>1, <1>2, PTL

-----------------------------------------------------------------------------
(* The types of all components, side by side.                              *)

Bounds ==
    /\ Depth \in Nat /\ MaxClears \in Nat /\ MaxOpens \in Nat
    /\ MaxBreaks \in Nat /\ MaxFlips \in Nat

PageRest ==
    /\ Len(stream) <= Depth /\ aba \subseteq {"dm"}
    /\ clears \in 0 .. MaxClears /\ opens \in 0 .. MaxOpens

\* Only a direct conversation is opened more than once.
LEMMA PageRestNext ==
    ASSUME Bounds, PageInv, PageRest, [Page!Next]_(Page!vars)
    PROVE  PageRest'
<1>1. PageTypes /\ LoadsOK /\ stream \in Seq(Event) /\ Depth \in Nat
  BY DEF PageInv, PageTypes, Bounds
<1>2. ASSUME NEW c \in Page!Conv, NEW m \in Msg, Page!Store(m, c) PROVE PageRest'
  BY <1>2 DEF Page!Store, Page!pageVars, PageRest
<1>3. ASSUME NEW c \in Page!Conv, Page!ClearMessages(c) PROVE PageRest'
  BY <1>3 DEF Page!ClearMessages, Page!pageVars, PageRest, Bounds
<1>4. ASSUME NEW c \in Page!Conv, Page!openConv(c) PROVE PageRest'
  <2>1. c = "dm"
    BY <1>1, <1>4 DEF Page!openConv, Page!Conv, LoadsOK
  <2> QED
    BY <1>4, <2>1 DEF Page!openConv, Page!hostVars, PageRest, Bounds
<1>5. ASSUME NEW w \in work, Page!emit(w) PROVE PageRest'
  <2>1. PICK e : stream' \in {stream} \cup
                   (IF Len(stream) < Depth THEN {Append(stream, e)} ELSE {})
    BY <1>5 DEF Page!emit
  <2>2. Len(stream') <= Depth
    <3>1. CASE stream' = stream
      BY <3>1 DEF PageRest
    <3>2. CASE Len(stream) < Depth /\ stream' = Append(stream, e)
      <4>1. Len(stream') = Len(stream) + 1 /\ Len(stream) \in Nat
        BY <1>1, <3>2
      <4> QED
        BY <1>1, <3>2, <4>1
    <3> QED
      BY <2>1, <3>1, <3>2
  <2> QED
    BY <1>5, <2>2 DEF Page!emit, Page!pageVars, PageRest
<1>6. ASSUME NEW f \in loads, Page!Load(f) \/ Page!Loaded(f) PROVE PageRest'
  BY <1>6 DEF Page!Load, Page!Loaded, Page!hostVars, PageRest
<1>7. CASE Page!addMsg \/ Page!applyChatCleared
  <2>1. stream # << >> /\ stream' = Tail(stream) /\ UNCHANGED <<aba, clears, opens>>
    BY <1>7 DEF Page!addMsg, Page!applyChatCleared, Page!Hears, Page!hostVars
  <2>2. Len(stream') <= Depth
    <3>1. Len(stream') = Len(stream) - 1 /\ Len(stream) \in Nat
      BY <1>1, <2>1
    <3> QED
      BY <1>1, <3>1 DEF PageRest
  <2> QED
    BY <2>1, <2>2 DEF PageRest
<1>8. CASE UNCHANGED Page!vars
  BY <1>8 DEF Page!vars, PageRest
<1> QED
  BY <1>2, <1>3, <1>4, <1>5, <1>6, <1>7, <1>8 DEF Page!Next

LEMMA PageKeepsTypes ==
    ASSUME Bounds, NoneIsNoConv
    PROVE  Page!Init /\ [][Page!Next]_(Page!vars) => []Page!TypeOK
<1>1. Page!Init => PageRest
  BY DEF Page!Init, PageRest, Bounds
<1>2. PageInv /\ PageRest /\ [Page!Next]_(Page!vars) => PageRest'
  BY PageRestNext
<1>3. PageInv /\ PageRest => Page!TypeOK
  BY DEF PageInv, PageTypes, PageRest, Page!TypeOK
<1> QED
  BY <1>1, <1>2, <1>3, PageInvariant, PTL

\* What waits to be emitted is a snapshot, or one is due; the channel holds as many as it may.
LEMMA PanelNext ==
    ASSUME Bounds, Panel!TypeOK, [Panel!Next]_(Panel!vars)
    PROVE  Panel!TypeOK'
<1>1. /\ session \in Panel!State /\ panel \in Panel!State \cup {"unknown"}
      /\ snapshot \in [Panel!Caller -> Panel!State \cup {"none", "due"}]
      /\ feed = None \/ (feed \in Seq(Panel!State) /\ Len(feed) <= Depth)
      /\ breaks \in 0 .. MaxBreaks /\ flips \in 0 .. MaxFlips
      /\ Depth \in Nat /\ MaxBreaks \in Nat /\ MaxFlips \in Nat
  BY DEF Panel!TypeOK, Bounds
<1>2. CASE (\E q \in Panel!Run : Panel!Flip(q)) \/ Panel!Maintain
  <2>1. session' \in Panel!State /\ snapshot' \in [Panel!Caller -> Panel!State \cup {"none", "due"}]
    BY <1>1, <1>2 DEF Panel!Flip, Panel!Maintain
  <2>2. UNCHANGED <<feed, panel, breaks>> /\ flips' \in 0 .. MaxFlips
    BY <1>1, <1>2 DEF Panel!Flip, Panel!Maintain
  <2> QED
    BY <1>1, <2>1, <2>2 DEF Panel!TypeOK
<1>3. CASE Panel!Subscribe
  <2>1. << >> \in Seq(Panel!State) /\ Len(<< >>) <= Depth
    BY <1>1
  <2> QED
    BY <1>1, <1>3, <2>1 DEF Panel!Subscribe, Panel!TypeOK
<1>4. CASE Panel!Break
  BY <1>1, <1>4 DEF Panel!Break, Panel!TypeOK
<1>5. CASE Panel!Show
  <2>1. /\ feed \in Seq(Panel!State) /\ Len(feed) <= Depth /\ feed # << >>
        /\ panel' = Head(feed) /\ feed' = Tail(feed)
    BY <1>1, <1>5 DEF Panel!Show
  <2>2. /\ Head(feed) \in Panel!State /\ Tail(feed) \in Seq(Panel!State)
        /\ Len(Tail(feed)) = Len(feed) - 1 /\ Len(feed) \in Nat
    BY <2>1
  <2>3. Len(feed') <= Depth
    BY <1>1, <2>1, <2>2
  <2> QED
    BY <1>1, <1>5, <2>1, <2>2, <2>3 DEF Panel!Show, Panel!TypeOK
<1>6. ASSUME NEW q \in Panel!Caller, Panel!Emit(q) PROVE Panel!TypeOK'
  <2>1. PICK v \in Panel!State : v = snapshot[q]
    BY <1>1, <1>6 DEF Panel!Emit
  <2>2. feed' = None \/ (feed' \in Seq(Panel!State) /\ Len(feed') <= Depth)
    <3>1. CASE feed # None /\ Len(feed) < Depth
      <4>1. feed' = Append(feed, v) /\ feed \in Seq(Panel!State)
        BY <1>1, <1>6, <2>1, <3>1 DEF Panel!Emit
      <4>2. /\ Append(feed, v) \in Seq(Panel!State)
            /\ Len(Append(feed, v)) = Len(feed) + 1 /\ Len(feed) \in Nat
        BY <4>1
      <4> QED
        BY <1>1, <3>1, <4>1, <4>2
    <3>2. CASE feed = None
      BY <1>6, <3>2 DEF Panel!Emit
    <3>3. CASE feed # None /\ ~(Len(feed) < Depth)
      <4>1. Len(feed) \in Nat
        BY <1>1, <3>3
      <4> QED
        BY <1>1, <1>6, <3>3, <4>1 DEF Panel!Emit
    <3> QED
      BY <3>1, <3>2, <3>3
  <2> QED
    BY <1>1, <1>6, <2>2 DEF Panel!Emit, Panel!TypeOK
<1>7. ASSUME NEW q \in Panel!Caller, Panel!Take(q) PROVE Panel!TypeOK'
  BY <1>1, <1>7 DEF Panel!Take, Panel!TypeOK
<1>8. CASE UNCHANGED Panel!vars
  BY <1>1, <1>8 DEF Panel!vars, Panel!TypeOK
<1> QED
  BY <1>2, <1>3, <1>4, <1>5, <1>6, <1>7, <1>8 DEF Panel!Next

LEMMA PanelKeepsTypes ==
    ASSUME Bounds
    PROVE  Panel!Init /\ [][Panel!Next]_(Panel!vars) => []Panel!TypeOK
<1>1. ASSUME Panel!Init PROVE Panel!TypeOK
  <2>1. 0 \in 0 .. MaxBreaks /\ 0 \in 0 .. MaxFlips
    BY DEF Bounds
  <2>2. snapshot \in [Panel!Caller -> Panel!State \cup {"none", "due"}]
    BY <1>1 DEF Panel!Init
  <2>3. /\ session \in Panel!State /\ panel \in Panel!State \cup {"unknown"} /\ feed = None
        /\ breaks \in 0 .. MaxBreaks /\ flips \in 0 .. MaxFlips
    BY <1>1, <2>1 DEF Panel!Init, Panel!State
  <2> QED
    BY <2>2, <2>3 DEF Panel!TypeOK
<1>2. Panel!TypeOK /\ [Panel!Next]_(Panel!vars) => Panel!TypeOK'
  BY PanelNext
<1> QED
  BY <1>1, <1>2, PTL

\* The port of -guest-tls, the automatic ports and None are different.
PortsDiffer == None \notin Gateway \cup {HTTPS!Preferred} /\ HTTPS!Preferred \notin Gateway

\* Only a gateway that was started has a socket.
HttpsInv ==
    /\ HTTPS!TypeOK
    /\ socket \in [Gateway -> Gateway \cup {HTTPS!Preferred, None}]
    /\ \A g \in Gateway : socket[g] # None => g \in used

\* A gateway takes the preferred port only if no socket is still bound to it.
LEMMA HttpsStart ==
    ASSUME PortsDiffer, HttpsInv, NEW g \in Gateway, HTTPS!EnsureServer(g)
    PROVE  HttpsInv'
<1>1. PICK p \in {IF HTTPS!Preferred \in HTTPS!Taken THEN g ELSE HTTPS!Preferred, None} :
         /\ socket' = [socket EXCEPT ![g] = p]
         /\ serving' = serving \cup
               {<<g, s>> : s \in IF p = None THEN {} ELSE HTTPS!Side}
  BY DEF HTTPS!EnsureServer
<1>2. /\ gateway' = g /\ used' = used \cup {g} /\ g \notin used
      /\ UNCHANGED <<done, at, via, side>>
  BY DEF HTTPS!EnsureServer
<1>3. /\ socket \in [Gateway -> Gateway \cup {HTTPS!Preferred, None}]
      /\ p \in {g, HTTPS!Preferred, None}
      /\ \A h \in Gateway : socket[h] \in {h, HTTPS!Preferred, None}
  BY <1>1 DEF HttpsInv, HTTPS!TypeOK
<1>4. socket'[g] = p /\ \A h \in Gateway \ {g} : socket'[h] = socket[h]
  BY <1>1, <1>3
<1>5. ASSUME NEW h \in Gateway \ {g}, socket[h] = p PROVE p = None
  BY <1>1, <1>3, <1>5 DEF PortsDiffer, HTTPS!Taken
<1>6. \A h, k \in Gateway : socket'[h] = socket'[k] => h = k \/ socket'[h] = None
  BY <1>4, <1>5 DEF HttpsInv, HTTPS!TypeOK
<1>7. serving' \subseteq used' \X HTTPS!Side
  BY <1>1, <1>2 DEF HttpsInv, HTTPS!TypeOK
<1>8. \A h \in Gateway : socket'[h] \in {h, HTTPS!Preferred, None}
  BY <1>3, <1>4
<1>9. \A h \in Gateway : socket'[h] # None => h \in used'
  BY <1>2, <1>4 DEF HttpsInv
<1>10. socket' \in [Gateway -> Gateway \cup {HTTPS!Preferred, None}]
  BY <1>1, <1>3
<1> QED
  BY <1>2, <1>6, <1>7, <1>8, <1>9, <1>10 DEF HttpsInv, HTTPS!TypeOK

\* Every other step.
LEMMA HttpsNext ==
    ASSUME PortsDiffer, HttpsInv, [HTTPS!Next]_(HTTPS!vars)
    PROVE  HttpsInv'
<1> DEFINE Places == {"none", "first", "offered", "queued", "served", "closed"}
<1>1. ASSUME UNCHANGED <<gateway, used, socket, done, serving>>,
             at' \in [Conn -> Places], via' \in [Conn -> Gateway \cup {None}],
             side' \in [Conn -> HTTPS!Side \cup {None}]
      PROVE  HttpsInv'
  BY <1>1 DEF HttpsInv, HTTPS!TypeOK
<1>2. /\ at \in [Conn -> Places] /\ via \in [Conn -> Gateway \cup {None}]
      /\ side \in [Conn -> HTTPS!Side \cup {None}]
  BY DEF HttpsInv, HTTPS!TypeOK
<1>3. ASSUME NEW c \in Conn, NEW g \in Gateway, HTTPS!Accepted(c, g) PROVE HttpsInv'
  BY <1>1, <1>2, <1>3 DEF HTTPS!Accepted
<1>4. ASSUME NEW c \in Conn,
             HTTPS!FirstByte(c) \/ HTTPS!NoByte(c) \/ HTTPS!OfferTaken(c)
             \/ HTTPS!OfferRefused(c) \/ HTTPS!Serve(c) \/ HTTPS!HangUp(c)
      PROVE  HttpsInv'
  <2>1. CASE HTTPS!FirstByte(c)
    BY <1>1, <1>2, <2>1 DEF HTTPS!FirstByte
  <2>2. CASE ~HTTPS!FirstByte(c)
    <3>1. PICK where \in Places : at' = [at EXCEPT ![c] = where]
      BY <1>4, <2>2 DEF HTTPS!NoByte, HTTPS!OfferTaken, HTTPS!OfferRefused, HTTPS!Serve,
                        HTTPS!HangUp
    <3>2. UNCHANGED <<gateway, used, socket, done, serving, via, side>>
      BY <1>4, <2>2 DEF HTTPS!NoByte, HTTPS!OfferTaken, HTTPS!OfferRefused, HTTPS!Serve,
                        HTTPS!HangUp
    <3> QED
      BY <1>1, <1>2, <3>1, <3>2
  <2> QED
    BY <2>1, <2>2
<1>5. CASE HTTPS!StopServer
  <2>1. at' \in [Conn -> Places]
    BY <1>2, <1>5 DEF HTTPS!StopServer
  <2>2. gateway \in used /\ gateway' = None /\ done' = done \cup {gateway}
    BY <1>5 DEF HTTPS!StopServer, HttpsInv, HTTPS!TypeOK
  <2>3. UNCHANGED <<used, socket, serving, via, side>>
    BY <1>5 DEF HTTPS!StopServer
  <2> QED
    BY <2>1, <2>2, <2>3 DEF HttpsInv, HTTPS!TypeOK
<1>6. ASSUME NEW g \in Gateway, HTTPS!AcceptFails(g) PROVE HttpsInv'
  <2>1. /\ g \in used /\ done' = done \cup {g} /\ socket' = [socket EXCEPT ![g] = None]
        /\ UNCHANGED <<gateway, used, serving, at, via, side>>
        /\ socket \in [Gateway -> Gateway \cup {HTTPS!Preferred, None}]
    BY <1>6 DEF HTTPS!AcceptFails, HttpsInv
  <2>2. socket'[g] = None /\ \A h \in Gateway \ {g} : socket'[h] = socket[h]
    BY <2>1
  <2>3. socket' \in [Gateway -> Gateway \cup {HTTPS!Preferred, None}]
    BY <2>1
  <2>4. /\ \A h \in Gateway : socket'[h] \in {h, HTTPS!Preferred, None}
        /\ \A h, k \in Gateway : socket'[h] = socket'[k] => h = k \/ socket'[h] = None
        /\ \A h \in Gateway : socket'[h] # None => h \in used
    BY <2>2 DEF HttpsInv, HTTPS!TypeOK
  <2>5. done' \subseteq used
    BY <2>1 DEF HttpsInv, HTTPS!TypeOK
  <2> QED
    BY <2>1, <2>3, <2>4, <2>5 DEF HttpsInv, HTTPS!TypeOK
<1>7. ASSUME NEW v \in serving, HTTPS!ServeEnds(v) PROVE HttpsInv'
  BY <1>7 DEF HTTPS!ServeEnds, HttpsInv, HTTPS!TypeOK
<1>8. CASE UNCHANGED HTTPS!vars
  BY <1>1, <1>2, <1>8 DEF HTTPS!vars
<1> QED
  BY <1>3, <1>4, <1>5, <1>6, <1>7, <1>8, HttpsStart DEF HTTPS!Next

LEMMA HttpsKeepsTypes ==
    ASSUME PortsDiffer
    PROVE  HTTPS!Init /\ [][HTTPS!Next]_(HTTPS!vars) => []HTTPS!TypeOK
<1>1. HTTPS!Init => HttpsInv
  BY DEF HTTPS!Init, HttpsInv, HTTPS!TypeOK
<1>2. HttpsInv /\ [HTTPS!Next]_(HTTPS!vars) => HttpsInv'
  BY HttpsNext
<1>3. HttpsInv => HTTPS!TypeOK
  BY DEF HttpsInv
<1> QED
  BY <1>1, <1>2, <1>3, PTL

\* GuestHubProofs, with the variables of Parts.
H == INSTANCE GuestHubProofs

HubBounds ==
    /\ H!NoneAssumption /\ H!TaskAssumption /\ H!ExpireAssumption
    /\ H!LimitAssumption /\ H!BoundAssumption

LEMMA HubKeepsTypes ==
    ASSUME HubBounds
    PROVE  H!Spec => []Hub!TypeOK
<1>1. H!Spec => []H!TypeOK
  BY H!HubTypes DEF HubBounds
<1>2. H!TypeOK => Hub!TypeOK
  BY DEF H!TypeOK, Hub!TypeOK, H!Life, Hub!Life, H!TaskRecord, Hub!TaskRecord, H!Task, Hub!Task
<1> QED
  BY <1>1, <1>2, PTL

\* All components, each at its own pace, and PartsTypeOK of them, for every value of
\* their constants.
THEOREM PartsKeepTypes ==
    ASSUME Bounds, ThrottleBounds, CodesBounds, HubBounds,
           L!NoneIsNoPort, NoneIsNoConv, PortsDiffer
    PROVE  /\ Spec
           /\ Throttle!Init /\ [][Throttle!Next]_(Throttle!vars)
           /\ Codes!Init /\ [][Codes!Next]_(Codes!vars)
           /\ L!Spec
           /\ Page!Init /\ [][Page!Next]_(Page!vars)
           /\ Panel!Init /\ [][Panel!Next]_(Panel!vars)
           /\ HTTPS!Init /\ [][HTTPS!Next]_(HTTPS!vars)
           /\ H!Spec
           => []PartsTypeOK
<1>1. Spec => []TypeOK
  <2>1. IInv => TypeOK
    BY DEF IInv
  <2> QED
    BY <2>1, WindowInvariant, PTL
<1>2. Throttle!Init /\ [][Throttle!Next]_(Throttle!vars) => []Throttle!TypeOK
  <2>1. Throttle!Init => ThrottleInv
    BY ThrottleInit
  <2>2. ThrottleInv /\ [Throttle!Next]_(Throttle!vars) => ThrottleInv'
    BY ThrottleNext
  <2>3. ThrottleInv => Throttle!TypeOK
    BY DEF ThrottleInv
  <2> QED
    BY <2>1, <2>2, <2>3, PTL
<1>3. Codes!Init /\ [][Codes!Next]_(Codes!vars) => []Codes!TypeOK
  <2>1. CodesInv => Codes!TypeOK
    BY DEF CodesInv
  <2> QED
    BY <2>1, CodesInvariant, PTL
<1>4. L!Spec => []Launches!TypeOK
  <2>1. L!IInv => Launches!TypeOK
    BY DEF L!IInv, L!Shape, L!Port, L!Starting, L!Leaving, L!Preferred, Launches!TypeOK,
           Launches!Starting, Launches!Leaving, Launches!Preferred
  <2>2. L!Spec => []L!IInv
    BY L!LaunchInvariant
  <2> QED
    BY <2>1, <2>2, PTL
<1>5. TypeOK /\ Throttle!TypeOK /\ Codes!TypeOK /\ Launches!TypeOK /\ Page!TypeOK
      /\ Panel!TypeOK /\ HTTPS!TypeOK /\ Hub!TypeOK => PartsTypeOK
  BY DEF PartsTypeOK
<1> QED
  BY <1>1, <1>2, <1>3, <1>4, <1>5, PageKeepsTypes, PanelKeepsTypes, HttpsKeepsTypes,
     HubKeepsTypes, PTL
=============================================================================
