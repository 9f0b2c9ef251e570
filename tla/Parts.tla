------------------------------- MODULE Parts --------------------------------
(***************************************************************************)
(* The small components that MCParts checks and PartsProofs proves about,  *)
(* with what each of them promises. They share no state.                   *)
(***************************************************************************)
EXTENDS ReplayWindow

CONSTANTS
    None, Depth,
    Source, Hello, AuthFails, AuthWindow, BanMax, DurationBits, \* AuthThrottle
    Code, HandoffMax, MaxUses, Lifetime,                    \* Handoff
    Proc,                                                   \* Lifecycle
    Msg, MaxClears, MaxOpens,                               \* OperatorPage
    MaxBreaks, MaxFlips,                                    \* PeerPanel
    Gateway, Conn,                                          \* GuestTLS
    Invite, Session, Op, Reaper, Expire,                    \* GuestHub
    MaxInvites, MaxSessions, MaxHello, MaxFaults

VARIABLES
    fail, attempt,
    handoffs, uses, age, issued,
    pc, todo, port, wrote, file, foreign, excused,
    hist, work, stream, convs, loads, filed, erased, aba, clears, opens,
    session, snapshot, feed, panel, breaks, flips,
    gateway, used, socket, done, serving, at, via, side,
    life, disk, unsaved, aged, announced, running,
    sessions, invite, before, hello, evict, task, late, unseen, faults

Throttle == INSTANCE AuthThrottle
Codes    == INSTANCE Handoff
Launches == INSTANCE Lifecycle
Page     == INSTANCE OperatorPage
Panel    == INSTANCE PeerPanel
HTTPS    == INSTANCE GuestTLS
Hub      == INSTANCE GuestHub

-----------------------------------------------------------------------------
(* The properties of the components, by their own names; those of the      *)
(* window are ReplayWindow's.                                              *)

\* Every component keeps to its types.
PartsTypeOK ==
    /\ TypeOK /\ Throttle!TypeOK /\ Codes!TypeOK /\ Launches!TypeOK
    /\ Page!TypeOK /\ Panel!TypeOK /\ HTTPS!TypeOK /\ Hub!TypeOK

\* A ban is served to its end (authThrottle.blocked, guest.go:136).
BanServed == Throttle!BanServed

\* Nobody is locked out for good by the throttle (guestGate, guest.go:1359).
BanEnds == Throttle!BanEnds

\* The join codes minted last are good (newHandoff, guest.go:215).
NewestCodesWork == Codes!NewestCodesWork

\* A second launch opens the copy that runs (existingLanrunner, main.go:120).
OneCopy == Launches!OneCopy

\* What was cleared does not come back on the page (applyChatCleared, index.html).
ClearedStaysCleared == Page!ClearedStaysCleared
=============================================================================
