---------------------------- MODULE ReplayWindow ----------------------------
(***************************************************************************)
(* The sliding window that guards one guest session against replayed       *)
(* frames (guest.go, replayWindow.accept, called under the session lock).  *)
(*                                                                         *)
(* The page sends frames concurrently and the network may reorder, drop    *)
(* and repeat them, so any counter may arrive at any time. The 64-bit mask *)
(* is the set of the distances behind max whose bit is 1.                  *)
(***************************************************************************)
EXTENDS Naturals

CONSTANTS
    Counter,   \* counters a frame may carry, 0 for a page that never set one
    Width      \* bits in the window: 64 in the code

ASSUME CounterAssumption == Counter \subseteq Nat
ASSUME WidthAssumption == Width \in Nat \ {0}

VARIABLES
    max, bits,   \* the fields of replayWindow
    taken        \* history: how often each counter has been accepted

vars == <<max, bits, taken>>

Init ==
    /\ max = 0
    /\ bits = {}
    /\ taken = [c \in Counter |-> 0]

\* Seeded faults: what the window remembers is lost; the newest is not marked.
ShiftIn_Forgets(shift) == {0}
ShiftIn_Unmarked(shift) == {b \in shift .. (Width - 1) : b - shift \in bits}

\* bits <<= shift, then bits |= 1: the bits pushed past the end are lost.
ShiftIn(shift) == {0} \cup {b \in shift .. (Width - 1) : b - shift \in bits}

Take(seq) == taken' = [taken EXCEPT ![seq] = @ + 1]

\* A counter above the high-water mark moves the window.
AcceptNewer(seq) ==
    /\ seq > max
    /\ bits' = ShiftIn(seq - max)
    /\ max' = seq
    /\ Take(seq)

\* Seeded fault: the window is one too wide.
AcceptLate_Wide(seq) ==
    /\ seq # 0
    /\ seq <= max
    /\ max - seq <= Width
    /\ max - seq \notin bits
    /\ bits' = bits \cup {max - seq}
    /\ Take(seq)
    /\ UNCHANGED max

\* A late counter is accepted if it is inside the window and its bit is clear.
AcceptLate(seq) ==
    /\ seq # 0
    /\ seq <= max
    /\ max - seq < Width
    /\ max - seq \notin bits
    /\ bits' = bits \cup {max - seq}
    /\ Take(seq)
    /\ UNCHANGED max

Refuse(seq) ==
    /\ seq <= max
    /\ \/ seq = 0
       \/ max - seq >= Width
       \/ max - seq \in bits
    /\ UNCHANGED vars

accept(seq) == AcceptNewer(seq) \/ AcceptLate(seq) \/ Refuse(seq)

Next == \E seq \in Counter : accept(seq)

Spec == Init /\ [][Next]_vars

-----------------------------------------------------------------------------
TypeOK ==
    /\ max \in Nat
    /\ bits \subseteq 0 .. (Width - 1)
    /\ taken \in [Counter -> Nat]

\* The point of the window (guest.go:78): a frame that was accepted once is
\* never accepted again, however late and in whatever order copies arrive.
AcceptedOnce == \A c \in Counter : taken[c] <= 1

\* The mask is exactly the memory it should be: inside the window a bit is
\* set if and only if that counter was used, so a frame that is merely late
\* is not mistaken for a replay, and nothing above max was ever accepted.
MaskExact ==
    \A c \in Counter :
        /\ c # 0 /\ c <= max /\ max - c < Width =>
              (max - c \in bits <=> taken[c] = 1)
        /\ c > max \/ c = 0 => taken[c] = 0
=============================================================================
