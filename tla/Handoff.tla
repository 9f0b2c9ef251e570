------------------------------ MODULE Handoff -------------------------------
(***************************************************************************)
(* The join codes in QR pictures (guest.go): minted for an invite, good    *)
(* for a while and for a number of uses, in a table of limited size.       *)
(***************************************************************************)
EXTENDS Naturals, FiniteSets, Sequences

CONSTANTS
    Code,           \* codes: random, never minted twice
    HandoffMax,     \* handoffMax
    MaxUses,        \* handoffMaxUses
    Lifetime        \* handoffLifetime

VARIABLES
    handoffs,       \* the codes in GuestHub.handoffs
    uses,           \* handoffCode.uses
    age,            \* time since a code was minted
    issued          \* history: the codes minted by this process, in order

vars == <<handoffs, uses, age, issued>>

Minted == {issued[i] : i \in DOMAIN issued}
Expired(c) == age[c] > Lifetime
Newer(c) == {d \in Minted : \E i, j \in DOMAIN issued : i < j /\ issued[i] = c /\ issued[j] = d}

Init ==
    /\ handoffs = {}
    /\ uses = [c \in Code |-> 0]
    /\ age = [c \in Code |-> 0]
    /\ issued = <<>>

-----------------------------------------------------------------------------
\* Seeded fault: the comparison of expiry dates the wrong way round.
Oldest_Newest(table) == CHOOSE c \in table : Newer(c) \cap table = {}

\* The code of a table that expires first.
Oldest(table) == CHOOSE c \in table : table \subseteq Newer(c) \cup {c}

\* newHandoff. Expired codes make room; if none does, the oldest code goes.
newHandoff(c) ==
    LET live == {d \in handoffs : ~Expired(d)}
    IN  /\ c \notin Minted /\ age[c] = 0 /\ uses[c] = 0
        /\ handoffs' = {c} \cup (IF Cardinality(live) >= HandoffMax
                                 THEN live \ {Oldest(live)} ELSE live)
        /\ issued' = Append(issued, c)
        /\ UNCHANGED <<uses, age>>

\* redeemHandoff serves the page, and spends a use also if the invite is gone.
Redeem(c) ==
    /\ c \in handoffs /\ ~Expired(c) /\ uses[c] < MaxUses
    /\ uses' = [uses EXCEPT ![c] = @ + 1]
    /\ UNCHANGED <<handoffs, age, issued>>

\* redeemHandoff deletes a code that has served its time or its uses.
RedeemRefused(c) ==
    /\ c \in handoffs /\ (Expired(c) \/ uses[c] >= MaxUses)
    /\ handoffs' = handoffs \ {c}
    /\ UNCHANGED <<uses, age, issued>>

Tick ==
    /\ age' = [c \in Code |-> IF c \in Minted /\ ~Expired(c) THEN age[c] + 1 ELSE age[c]]
    /\ UNCHANGED <<handoffs, uses, issued>>

\* Codes are not kept across runs; the old ones are never minted again.
Restart ==
    /\ handoffs' = {} /\ issued' = <<>>
    /\ age' = [c \in Code |-> IF c \in Minted THEN Lifetime + 1 ELSE age[c]]
    /\ UNCHANGED uses

Next ==
    \/ \E c \in Code : newHandoff(c) \/ Redeem(c) \/ RedeemRefused(c)
    \/ Tick
    \/ Restart

-----------------------------------------------------------------------------
(* Properties.                                                             *)

TypeOK ==
    /\ handoffs \subseteq Minted /\ Minted \subseteq Code
    /\ uses \in [Code -> 0 .. MaxUses]
    /\ age \in [Code -> 0 .. Lifetime + 1]
    /\ Cardinality(handoffs) <= HandoffMax

\* "Minting a new code must never kill one already on screen" (guest.go:220), as
\* far as the table reaches: of the codes minted last, as many as it holds, each
\* is accepted until it expires or is used up.
NewestCodesWork ==
    \A c \in Minted :
        ~Expired(c) /\ uses[c] < MaxUses /\ Cardinality(Newer(c)) < HandoffMax
            => c \in handoffs
=============================================================================
