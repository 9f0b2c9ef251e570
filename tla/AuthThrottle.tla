---------------------------- MODULE AuthThrottle ----------------------------
(***************************************************************************)
(* The guest gateway's throttle (guest.go): failed hellos of an address    *)
(* add up, and from a limit on the address has to wait.                    *)
(*                                                                         *)
(* Every guest request is checked at the gate; only a hello fails or       *)
(* succeeds later, after its body was read, when other hellos of the same  *)
(* address may have changed the record. Time passes in units of the        *)
(* shortest ban; a unit that has passed counts as more than the unit.      *)
(***************************************************************************)
EXTENDS Integers

CONSTANTS
    Source,         \* addresses
    Hello,          \* hellos that can be in progress at once
    None,
    AuthFails,      \* guestAuthFails
    AuthWindow,     \* guestAuthWindow
    BanMax,         \* guestAuthBanMax
    DurationBits    \* bits of a time.Duration

VARIABLES
    fail,           \* authThrottle.fail: failures, time since, time to wait
    attempt         \* the address of a hello that has passed the gate

vars == <<fail, attempt>>

NoRecord == [n |-> 0, seen |-> 0, until |-> 0]
blocked(a) == fail[a].until > 0
Lapsed(rec) == rec.seen >= AuthWindow

Init ==
    /\ fail = [a \in Source |-> NoRecord]
    /\ attempt = [h \in Hello |-> None]

-----------------------------------------------------------------------------
\* base << k, in the signed integers of that width.
Shift(k) ==
    LET word == IF k < DurationBits THEN 2^k ELSE 0
    IN  IF word < 2^(DurationBits - 1) THEN word ELSE word - 2^DurationBits

\* Counts from which the shift leaves nothing are alike.
Count(n) == IF n < AuthFails + DurationBits THEN n ELSE AuthFails + DurationBits

\* The ban doubles up to a maximum, which also stands for a shift that overflows.
backoff(n) ==
    LET wait == Shift(n - AuthFails)
    IN  IF wait > BanMax \/ wait <= 0 THEN BanMax ELSE wait

\* A failure. A record that has lapsed starts over, and its ban with it.
bad(a) ==
    LET n == IF Lapsed(fail[a]) THEN 1 ELSE Count(fail[a].n + 1)
        wait == IF n >= AuthFails THEN backoff(n)
                ELSE IF Lapsed(fail[a]) THEN 0 ELSE fail[a].until
    IN  fail' = [fail EXCEPT ![a] = [n |-> n, seen |-> 0, until |-> wait]]

\* Seeded fault: a refused request counts as a failure.
Gate_CountsRefused(h, a) ==
    /\ attempt[h] = None
    /\ IF blocked(a) THEN bad(a) /\ UNCHANGED attempt
       ELSE attempt' = [attempt EXCEPT ![h] = a] /\ UNCHANGED fail

\* guestGate lets a hello in. What it refuses leaves no trace.
Gate(h, a) ==
    /\ attempt[h] = None
    /\ ~blocked(a)
    /\ attempt' = [attempt EXCEPT ![h] = a]
    /\ UNCHANGED fail

\* The invite is unknown, revoked or expired, or its token does not match.
HelloFails(h) ==
    /\ attempt[h] # None
    /\ bad(attempt[h])
    /\ attempt' = [attempt EXCEPT ![h] = None]

\* A valid invite wipes the address's record.
HelloSucceeds(h) ==
    /\ attempt[h] # None
    /\ fail' = [fail EXCEPT ![attempt[h]] = NoRecord]
    /\ attempt' = [attempt EXCEPT ![h] = None]

\* A body that does not parse is refused and counted nowhere.
HelloMalformed(h) ==
    /\ attempt[h] # None
    /\ attempt' = [attempt EXCEPT ![h] = None]
    /\ UNCHANGED fail

\* Seeded fault: the sweep looks at the time of the last failure only.
sweep_SeenOnly ==
    /\ fail' = [a \in Source |-> IF Lapsed(fail[a]) THEN NoRecord ELSE fail[a]]
    /\ UNCHANGED attempt

\* The reap loop forgets what has lapsed and is not banned any more.
sweep ==
    /\ fail' = [a \in Source |->
                  IF Lapsed(fail[a]) /\ ~blocked(a) THEN NoRecord ELSE fail[a]]
    /\ UNCHANGED attempt

Less(k) == IF k > 0 THEN k - 1 ELSE 0

Tick ==
    /\ fail' = [a \in Source |->
                  IF fail[a].n = 0 THEN NoRecord
                  ELSE [n |-> fail[a].n,
                        seen |-> IF Lapsed(fail[a]) THEN AuthWindow ELSE fail[a].seen + 1,
                        until |-> Less(fail[a].until)]]
    /\ UNCHANGED attempt

Next ==
    \/ \E h \in Hello :
          \/ \E a \in Source : Gate(h, a)
          \/ HelloFails(h) \/ HelloSucceeds(h) \/ HelloMalformed(h)
    \/ sweep
    \/ Tick

\* Time passes, and the reap loop runs.
Fairness == WF_vars(Tick)

-----------------------------------------------------------------------------
(* Properties.                                                             *)

TypeOK ==
    /\ fail \in [Source -> [n : 0 .. AuthFails + DurationBits, seen : 0 .. AuthWindow, until : 0 .. BanMax]]
    /\ attempt \in [Hello -> Source \cup {None}]

\* A ban (authThrottle.blocked, guest.go:136) is served to its end, unless a
\* hello that had been let in before ends it: a valid one, or one that fails
\* when the record has lapsed under a ban longer than the window.
BanServed ==
    [][\A a \in Source : blocked(a) /\ ~blocked(a)' =>
          \/ fail[a].until = 1
          \/ \E h \in Hello : attempt[h] = a /\ attempt'[h] = None
                              /\ (fail'[a].n = 0 \/ Lapsed(fail[a]))]_vars

\* Nobody is locked out for good: a guest whose address is made to wait
\* (guest.go:1359) is let in again, however often its page tries meanwhile.
BanEnds == \A a \in Source : blocked(a) ~> ~blocked(a)
=============================================================================
