------------------------------ MODULE Delivery ------------------------------
(***************************************************************************)
(* What chat promises about a message, whatever happens to sessions and    *)
(* processes: a receiver stores it at most once, and its author counts a   *)
(* receiver as reached at most once and only after the receiver stored it. *)
(* Nothing is promised to arrive.                                          *)
(***************************************************************************)
EXTENDS Naturals

CONSTANTS Node, Msg

VARIABLES
    due,        \* the nodes a message was handed to a session for
    stored,     \* how often a node has stored a message
    told        \* how often its author was told so

Init ==
    /\ due = [m \in Msg |-> {}]
    /\ stored = [m \in Msg |-> [n \in Node |-> 0]]
    /\ told = [m \in Msg |-> [n \in Node |-> 0]]

Send(m, targets) ==
    /\ due[m] = {}
    /\ due' = [due EXCEPT ![m] = targets]
    /\ UNCHANGED <<stored, told>>

Store(m, n) ==
    /\ n \in due[m]
    /\ stored[m][n] = 0
    /\ stored' = [stored EXCEPT ![m][n] = 1]
    /\ UNCHANGED <<due, told>>

Tell(m, n) ==
    /\ stored[m][n] = 1
    /\ told[m][n] = 0
    /\ told' = [told EXCEPT ![m][n] = 1]
    /\ UNCHANGED <<due, stored>>

Next ==
    \E m \in Msg :
        \/ \E targets \in SUBSET Node : Send(m, targets)
        \/ \E n \in Node : Store(m, n) \/ Tell(m, n)

Spec == Init /\ [][Next]_<<due, stored, told>>
=============================================================================
