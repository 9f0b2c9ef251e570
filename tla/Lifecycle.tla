----------------------------- MODULE Lifecycle ------------------------------
(***************************************************************************)
(* Launches and exits of the program for one user (main.go): the check for *)
(* a running copy, the port of the interface, the file runtime.json that   *)
(* tells the next launch where to look, and the ways a copy ends.          *)
(***************************************************************************)
EXTENDS Naturals, FiniteSets, Sequences

CONSTANTS
    Proc,       \* launches
    None

Preferred == "preferred"    \* the port of -ui; a copy's automatic port is its own name

VARIABLES
    pc,         \* how far a process has come
    todo,       \* the ports it has still to probe
    port,       \* the port of its uiListener
    wrote,      \* it will remove runtime.json
    file,       \* the port in runtime.json
    foreign,    \* another program holds the preferred port
    excused     \* history: launches or exits overlapped, a write failed, or a
                \* copy did not answer in time

vars == <<pc, todo, port, wrote, file, foreign, excused>>

Starting == {"probe", "bind", "start", "up"}
Leaving == {"asked", "closing"}
Copies == {p \in Proc : pc[p] \in {"start", "up", "serve", "asked", "closing"}}
Busy(p, states) == \E q \in Proc \ {p} : pc[q] \in states

Init ==
    /\ pc = [p \in Proc |-> "off"]
    /\ todo = [p \in Proc |-> <<>>]
    /\ port = [p \in Proc |-> None]
    /\ wrote = [p \in Proc |-> FALSE]
    /\ file = None
    /\ foreign \in BOOLEAN
    /\ excused = FALSE

-----------------------------------------------------------------------------
(* main.                                                                   *)

\* Seeded fault: a launch looks at the preferred port only.
Launch_PreferredOnly(p) ==
    /\ pc[p] = "off"
    /\ pc' = [pc EXCEPT ![p] = "probe"]
    /\ todo' = [todo EXCEPT ![p] = <<Preferred>>]
    /\ excused' = (excused \/ Busy(p, Starting \cup Leaving))
    /\ UNCHANGED <<port, wrote, file, foreign>>

\* existingLanrunner reads the file; the preferred port comes second.
Launch(p) ==
    /\ pc[p] = "off"
    /\ pc' = [pc EXCEPT ![p] = "probe"]
    /\ todo' = [todo EXCEPT ![p] =
                  IF file \in {None, Preferred} THEN <<Preferred>> ELSE <<file, Preferred>>]
    /\ excused' = (excused \/ Busy(p, Starting \cup Leaving))
    /\ UNCHANGED <<port, wrote, file, foreign>>

\* lanrunnerAt: a copy that answers is opened in the browser, and this one ends.
\* A copy that is not serving yet does not answer in time, and one that serves
\* may be too busy to do so within the 500 ms that lanrunnerAt waits.
Probe(p) ==
    /\ pc[p] = "probe"
    /\ LET serving == \E q \in Proc : port[q] = Head(todo[p]) /\ pc[q] \in {"serve", "asked"}
       IN  \/ /\ serving
              /\ pc' = [pc EXCEPT ![p] = "gone"]
              /\ UNCHANGED excused
           \/ /\ pc' = [pc EXCEPT ![p] = IF Len(todo[p]) = 1 THEN "bind" ELSE "probe"]
              /\ excused' = (excused \/ serving)
    /\ todo' = [todo EXCEPT ![p] = Tail(@)]
    /\ UNCHANGED <<port, wrote, file, foreign>>

Bind(p) ==
    /\ pc[p] = "bind"
    /\ port' = [port EXCEPT ![p] =
                  IF foreign \/ \E q \in Proc : port[q] = Preferred THEN p ELSE Preferred]
    /\ pc' = [pc EXCEPT ![p] = "start"]
    /\ UNCHANGED <<todo, wrote, file, foreign, excused>>

WriteRuntime(p) ==
    /\ pc[p] = "start"
    /\ file' = port[p]
    /\ wrote' = [wrote EXCEPT ![p] = TRUE]
    /\ pc' = [pc EXCEPT ![p] = "up"]
    /\ UNCHANGED <<todo, port, foreign, excused>>

\* The error is ignored, and the file left to its last writer.
WriteFails(p) ==
    /\ pc[p] = "start"
    /\ pc' = [pc EXCEPT ![p] = "up"]
    /\ excused' = TRUE
    /\ UNCHANGED <<todo, port, wrote, file, foreign>>

Serve(p) ==
    /\ pc[p] = "up"
    /\ pc' = [pc EXCEPT ![p] = "serve"]
    /\ UNCHANGED <<todo, port, wrote, file, foreign, excused>>

\* requestShutdown, by EXIT APP or the idle loop: a second request changes nothing.
\* The page is told and the interface stays up a moment longer.
requestShutdown(p) ==
    /\ pc[p] = "serve"
    /\ pc' = [pc EXCEPT ![p] = "asked"]
    /\ excused' = (excused \/ Busy(p, Starting))
    /\ UNCHANGED <<todo, port, wrote, file, foreign>>

\* The interface closes first, after that moment or at once on an interrupt. Then
\* the bye, the sessions and the gateway; the process lives on meanwhile.
Shutdown(p) ==
    /\ pc[p] \in {"serve", "asked"}
    /\ pc' = [pc EXCEPT ![p] = "closing"]
    /\ port' = [port EXCEPT ![p] = None]
    /\ excused' = (excused \/ Busy(p, Starting))
    /\ UNCHANGED <<todo, wrote, file, foreign>>

\* main returns, after a shutdown or because a socket cannot be opened: the
\* deferred calls remove the file, whoever wrote it last.
Return(p) ==
    /\ pc[p] \in {"up", "closing"}
    /\ pc' = [pc EXCEPT ![p] = "gone"]
    /\ port' = [port EXCEPT ![p] = None]
    /\ file' = IF wrote[p] THEN None ELSE file
    /\ UNCHANGED <<todo, wrote, foreign, excused>>

\* A crash, or a second interrupt: no deferred call runs. Or nothing is open yet,
\* and no port can be.
Kill(p) ==
    /\ pc[p] \in {"probe", "bind", "start", "up", "serve", "asked", "closing"}
    /\ pc' = [pc EXCEPT ![p] = "gone"]
    /\ port' = [port EXCEPT ![p] = None]
    /\ UNCHANGED <<todo, wrote, file, foreign, excused>>

\* Another program takes the preferred port, or gives it back.
Foreign ==
    /\ \A p \in Proc : port[p] # Preferred
    /\ foreign' = ~foreign
    /\ UNCHANGED <<pc, todo, port, wrote, file, excused>>

Step(p) ==
    \/ Launch(p) \/ Probe(p) \/ Bind(p) \/ WriteRuntime(p) \/ WriteFails(p) \/ Serve(p)
    \/ requestShutdown(p) \/ Shutdown(p) \/ Return(p) \/ Kill(p)

Next == (\E p \in Proc : Step(p)) \/ Foreign

Spec == Init /\ [][Next]_vars

-----------------------------------------------------------------------------
(* Properties.                                                             *)

TypeOK ==
    /\ pc \in [Proc -> Starting \cup Leaving \cup {"off", "serve", "gone"}]
    /\ \A p \in Proc : Len(todo[p]) <= 2
    /\ port \in [Proc -> Proc \cup {Preferred, None}]
    /\ wrote \in [Proc -> BOOLEAN]
    /\ file \in Proc \cup {Preferred, None}
    /\ foreign \in BOOLEAN /\ excused \in BOOLEAN

\* "Launching Lanrunner again opens the existing interface instead of starting a
\* second background copy" (README.md:50): also on an automatic port, after
\* crashes that left a stale runtime.json, and with a stranger on the preferred
\* port; as long as no launch overlaps another or an exit, and the copy answers.
OneCopy == ~excused => Cardinality(Copies) <= 1
=============================================================================
