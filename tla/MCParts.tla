------------------------------ MODULE MCParts -------------------------------
(***************************************************************************)
(* The small components side by side for TLC. They share no state, so a    *)
(* behaviour follows one of them and leaves the others at rest: what is    *)
(* checked of a component is what a run of its own would check.            *)
(***************************************************************************)
EXTENDS Parts, Integers, Sequences, FiniteSets, TLC

CONSTANTS
    Refused,
    Lengths     \* of texts

VARIABLES
    part,               \* the component that moves
    text, picture       \* of the QR encoder

\* A text of each length, with bytes of all kinds.
Sample(n) == [i \in 1 .. n |-> {b \in 0 .. 7 : (i * i + b * i + b * b) % 3 = 0}]
Texts == {Sample(n) : n \in Lengths}

Encoder == INSTANCE QR

throttleVars == <<fail, attempt>>
codesVars    == <<handoffs, uses, age, issued>>
launchVars   == <<pc, todo, port, wrote, file, foreign, excused>>
pageVars     == <<hist, work, stream, convs, loads, filed, erased, aba, clears, opens>>
panelVars    == <<session, snapshot, feed, panel, breaks, flips>>
encoderVars  == <<text, picture>>
httpsVars    == <<gateway, used, socket, done, serving, at, via, side>>
hubVars      == <<life, disk, unsaved, aged, announced, running,
                  sessions, invite, before, hello, evict, task, late, unseen, faults>>
partsVars    == <<part, vars, throttleVars, codesVars, launchVars, pageVars,
                  panelVars, encoderVars, httpsVars, hubVars>>

Part == {"window", "throttle", "codes", "launches", "page", "panel", "encoder", "https", "hub"}

Still(p) ==
    /\ (IF p = "window" THEN TRUE ELSE UNCHANGED vars)
    /\ (IF p = "throttle" THEN TRUE ELSE UNCHANGED throttleVars)
    /\ (IF p = "codes" THEN TRUE ELSE UNCHANGED codesVars)
    /\ (IF p = "launches" THEN TRUE ELSE UNCHANGED launchVars)
    /\ (IF p = "page" THEN TRUE ELSE UNCHANGED pageVars)
    /\ (IF p = "panel" THEN TRUE ELSE UNCHANGED panelVars)
    /\ (IF p = "encoder" THEN TRUE ELSE UNCHANGED encoderVars)
    /\ (IF p = "https" THEN TRUE ELSE UNCHANGED httpsVars)
    /\ (IF p = "hub" THEN TRUE ELSE UNCHANGED hubVars)
    /\ UNCHANGED part

PartsInit ==
    /\ part \in Part
    /\ Init /\ Throttle!Init /\ Codes!Init /\ Launches!Init /\ Page!Init
    /\ Panel!Init /\ Encoder!Init /\ HTTPS!Init /\ Hub!Init
    /\ part = "launches" \/ ~foreign
    /\ part = "encoder" \/ \A t \in Texts : Len(text) <= Len(t)

PartsNext ==
    \/ part = "window" /\ Next /\ Still(part)
    \/ part = "throttle" /\ Throttle!Next /\ Still(part)
    \/ part = "codes" /\ Codes!Next /\ Still(part)
    \/ part = "launches" /\ Launches!Next /\ Still(part)
    \/ part = "page" /\ Page!Next /\ Still(part)
    \/ part = "panel" /\ Panel!Next /\ Still(part)
    \/ part = "encoder" /\ Encoder!Next /\ Still(part)
    \/ part = "https" /\ HTTPS!Next /\ Still(part)
    \/ part = "hub" /\ Hub!Next /\ Still(part)

\* The fairness that AuthThrottle, PeerPanel and GuestHub state, each while it is
\* the one that moves.
PartsFairness ==
    /\ WF_throttleVars(part = "throttle" /\ Throttle!Tick)
    /\ WF_panelVars(part = "panel" /\ Panel!Maintain)
    /\ WF_panelVars(part = "panel" /\ Panel!Subscribe)
    /\ WF_panelVars(part = "panel" /\ Panel!Show)
    /\ \A q \in Panel!Caller : WF_panelVars(part = "panel" /\ (Panel!Take(q) \/ Panel!Emit(q)))
    /\ \A p \in Op : WF_hubVars(part = "hub" /\ Hub!OpStep(p))
    /\ \A t \in Op \cup Reaper : WF_hubVars(part = "hub" /\ Hub!TeardownStep(t))
    /\ \A r \in Reaper :
          /\ WF_hubVars(part = "hub" /\ Hub!Tick(r))
          /\ WF_hubVars(part = "hub" /\ Hub!SweepExpired(r))
    /\ \A s \in Session : WF_hubVars(part = "hub" /\ Hub!HelloStep(s))

PartsSpec == PartsInit /\ [][PartsNext]_partsVars /\ PartsFairness

-----------------------------------------------------------------------------
(* The properties that Parts does not have.                                *)

\* The page shows a peer's state in the end (pushPeers, main.go:506).
ShownAsItIs == part = "panel" => Panel!ShownAsItIs

\* A picture keeps to its grid, and a reader finds the text in it (QRCodeSVG,
\* qr.go:553).
Decodes == Encoder!TypeOK /\ Encoder!Decodes

\* While the gateway runs, expiry is noticed (reapLoop, guest.go).
ExpiryNoticed == Hub!ExpiryNoticed
=============================================================================
