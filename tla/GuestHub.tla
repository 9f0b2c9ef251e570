------------------------------ MODULE GuestHub ------------------------------
(***************************************************************************)
(* The guest gateway's bookkeeping (guest.go): which invites exist, whether*)
(* the gateway runs, which sessions are open, and who takes them down.     *)
(*                                                                         *)
(* Operator requests (Create, Regenerate, Revoke, Remove), guest requests  *)
(* (hello, bye), the reap loops and the shutdown run concurrently. They    *)
(* share GuestHub.mu (invites, sessions) and GuestHub.srvMu (gateway), and *)
(* no operation holds either from its first look at the state to its last  *)
(* change. Each action below is one critical section.                      *)
(***************************************************************************)
EXTENDS Naturals, FiniteSets

CONSTANTS
    Invite,        \* invite ids: random, never minted twice
    Session,       \* slots for session ids
    Op,            \* operator requests that can be in progress at once
    Reaper,        \* slots for reap loops
    None,
    Expire,        \* TRUE if invites get an expiry date (-guest-ttl > 0)
    MaxInvites,    \* guestMaxInvites
    MaxSessions,   \* guestMaxSessions
    MaxHello,      \* bound: hello requests in progress at once
    MaxFaults      \* bound: failed calls and restarts in a behaviour

ASSUME NoneAssumption == None \notin Invite /\ None \notin Session
ASSUME TaskAssumption == Op \cap Reaper = {} /\ IsFiniteSet(Op)
ASSUME ExpireAssumption == Expire \in BOOLEAN
ASSUME LimitAssumption == MaxInvites \in Nat \ {0} /\ MaxSessions \in Nat \ {0}
ASSUME BoundAssumption == MaxHello \in Nat /\ MaxFaults \in Nat

VARIABLES
    life,       \* the invites map and Invite.Revoked
    disk,       \* the same, as the invite file has it
    unsaved,    \* the last write of the file failed, and nobody noticed
    aged,       \* invites whose expiry date has passed
    announced,  \* GuestHub.announced
    running,    \* GuestHub.running
    sessions,   \* GuestHub.sessions, and byInvite with it
    invite,     \* guestSession.invite
    before,     \* guestSession.created: the sessions of its invite before it
    hello,      \* how far the hello request of a session has come
    evict,      \* the session this hello has still to drop
    task,       \* operator requests and reap loops
    late,       \* history: sessions whose invite had died before they got in
    unseen,     \* history: who has decided to close the gateway, and an invite
                \* that was filed since
    faults

hubVars == <<life, disk, unsaved, aged, announced, running, unseen>>
tabVars == <<sessions, invite, before, hello, evict, late>>
vars == <<life, disk, unsaved, aged, announced, running,
          sessions, invite, before, hello, evict, late, unseen, task, faults>>

-----------------------------------------------------------------------------
Task == Op \cup Reaper

\* "kept" and "revoked" invites are in the map; "gone" ones were in it.
Life == {"unused", "kept", "revoked", "gone"}

invites == {i \in Invite : life[i] \in {"kept", "revoked"}}
usable(i) == life[i] = "kept" /\ i \notin aged
liveCount == Cardinality({i \in Invite : usable(i)})
byInvite(i) == {s \in sessions : invite[s] = i}

Off == [pc |-> "off", goal |-> "none", inv |-> None, todo |-> {}, last |-> FALSE]
Waiting == [Off EXCEPT !.pc = "wait"]
Rest(t) == IF t \in Op THEN Off ELSE Waiting
Become(t, r) == task' = [task EXCEPT ![t] = r]

CanFail == faults < MaxFaults
Fail == CanFail /\ faults' = faults + 1

\* A file that load cannot parse counts as an empty one.
Torn(d) == [i \in Invite |-> IF d[i] = "unused" THEN "unused" ELSE "gone"]

\* os.WriteFile truncates the file and writes it anew; an error is ignored.
saveLocked ==
    \/ disk' = life' /\ unsaved' = FALSE /\ UNCHANGED faults
    \/ disk' \in {disk, Torn(life')} /\ unsaved' = TRUE /\ Fail

Init ==
    /\ life = [i \in Invite |-> "unused"]
    /\ disk = life
    /\ unsaved = FALSE
    /\ aged = {}
    /\ announced = {}
    /\ running = FALSE
    /\ sessions = {}
    /\ invite = [s \in Session |-> None]
    /\ before = [s \in Session |-> {}]
    /\ hello = [s \in Session |-> "off"]
    /\ evict = [s \in Session |-> None]
    /\ task = [t \in Task |-> Off]
    /\ late = {}
    /\ unseen = {}
    /\ faults = 0

-----------------------------------------------------------------------------
(* The operator: Create, Regenerate, Revoke, Remove.                       *)

Begin(p, goal, i) ==
    /\ task[p] = Off
    /\ Become(p, [Off EXCEPT !.pc = "ensure", !.goal = goal, !.inv = i])

\* Bound: an id for every Create in progress; the program never runs out.
FreshIds == Cardinality({p \in Op : task[p].goal = "create"})
              < Cardinality({i \in Invite : life[i] = "unused"})

\* Seeded fault: the count is compared with <=.
CreateStart_OneMore(p) ==
    /\ Cardinality(invites) <= MaxInvites
    /\ FreshIds
    /\ Begin(p, "create", None)
    /\ UNCHANGED <<hubVars, tabVars, faults>>

\* Create counts the invites under the lock and lets go of it.
CreateStart(p) ==
    /\ Cardinality(invites) < MaxInvites
    /\ FreshIds
    /\ Begin(p, "create", None)
    /\ UNCHANGED <<hubVars, tabVars, faults>>

\* Regenerate refuses an unknown and a revoked invite, not an expired one.
RegenerateStart(p, i) ==
    /\ life[i] = "kept"
    /\ Begin(p, "regenerate", i)
    /\ UNCHANGED <<hubVars, tabVars, faults>>

\* A gateway that is not running is started, with a reap loop of its own.
Listen(r) == running' = TRUE /\ task[r] = Off

EnsureServer(p) ==
    /\ task[p].pc = "ensure"
    /\ \/ /\ running
          /\ Become(p, [task[p] EXCEPT !.pc = "kit"])
          /\ UNCHANGED running
       \/ /\ ~running
          /\ \E r \in Reaper :
                /\ Listen(r)
                /\ task' = [task EXCEPT ![p].pc = "kit", ![r] = Waiting]
    /\ UNCHANGED <<life, disk, unsaved, aged, announced, unseen, tabVars, faults>>

ListenFails(p) ==
    /\ task[p].pc = "ensure"
    /\ ~running
    /\ Become(p, Off)
    /\ Fail
    /\ UNCHANGED <<hubVars, tabVars>>

\* MkdirAll or writeKit fails: the request ends, the gateway stays as it is.
KitFails(p) ==
    /\ task[p].pc = "kit"
    /\ Become(p, Off)
    /\ Fail
    /\ UNCHANGED <<hubVars, tabVars>>

\* The kit is written; Create then files the invite.
CreateInsert(p, i) ==
    /\ task[p].pc = "kit" /\ task[p].goal = "create"
    /\ life[i] = "unused"
    /\ life' = [life EXCEPT ![i] = "kept"]
    /\ saveLocked
    /\ Become(p, Off)
    /\ unseen' = unseen \cup ({t \in Task : task[t].last} \X {i})
    /\ UNCHANGED <<aged, announced, running, tabVars>>

RegenerateDone(p) ==
    /\ task[p].pc = "kit" /\ task[p].goal = "regenerate"
    /\ Become(p, Off)
    /\ UNCHANGED <<hubVars, tabVars, faults>>

\* Seeded faults: the invite is counted before it is marked; the count is
\* compared with the number that was right before it.
NoneLeft_CountedFirst(i) == liveCount = 0
NoneLeft_OneLeft(i) == liveCount = 1

\* liveCountLocked() = 0, once the invite is marked.
NoneLeft(i) == \A k \in Invite : usable(k) => k = i

\* Seeded fault: the sessions are not listed.
RevokeStart_NoSessions(p, i, goal) ==
    /\ task[p] = Off
    /\ i \in invites
    /\ life' = [life EXCEPT ![i] = "revoked"]
    /\ saveLocked
    /\ Become(p, [pc |-> "drop", goal |-> goal, inv |-> i, todo |-> {},
                  last |-> NoneLeft(i)])
    /\ UNCHANGED <<aged, announced, running, unseen, tabVars>>

\* Seeded fault: the file is not written.
RevokeStart_NotSaved(p, i, goal) ==
    /\ task[p] = Off
    /\ i \in invites
    /\ life' = [life EXCEPT ![i] = "revoked"]
    /\ Become(p, [pc |-> "drop", goal |-> goal, inv |-> i, todo |-> byInvite(i),
                  last |-> NoneLeft(i)])
    /\ UNCHANGED <<disk, unsaved, faults, aged, announced, running, unseen, tabVars>>

\* Revoke marks the invite, lists its sessions and counts what is left, all
\* under the lock; the sessions and the gateway are taken down without it.
RevokeStart(p, i, goal) ==
    /\ task[p] = Off
    /\ i \in invites
    /\ life' = [life EXCEPT ![i] = "revoked"]
    /\ saveLocked
    /\ Become(p, [pc |-> "drop", goal |-> goal, inv |-> i, todo |-> byInvite(i),
                  last |-> NoneLeft(i)])
    /\ UNCHANGED <<aged, announced, running, unseen, tabVars>>

\* Remove is Revoke, then the invite is deleted from the map.
Forget(p) ==
    /\ task[p].pc = "forget"
    /\ IF task[p].inv \in invites
       THEN life' = [life EXCEPT ![task[p].inv] = "gone"] /\ saveLocked
       ELSE UNCHANGED <<life, disk, unsaved, faults>>
    /\ Become(p, Off)
    /\ UNCHANGED <<aged, announced, running, unseen, tabVars>>

\* GuestHub.Close at shutdown: the list of sessions, each drop, the gateway.
CloseStart(p) ==
    /\ task[p] = Off
    /\ Become(p, [pc |-> "drop", goal |-> "close", inv |-> None,
                  todo |-> sessions, last |-> TRUE])
    /\ UNCHANGED <<hubVars, tabVars, faults>>

-----------------------------------------------------------------------------
(* Taking down sessions and the gateway, for whoever decided it.           *)

Gone(s) == [o \in Session |-> IF o = s THEN {} ELSE before[o] \ {s}]

\* dropSession: nothing if another task was faster.
DropSession(s) ==
    /\ sessions' = sessions \ {s}
    /\ invite' = IF s \in sessions THEN [invite EXCEPT ![s] = None] ELSE invite
    /\ before' = IF s \in sessions THEN Gone(s) ELSE before
    /\ late' = late \ {s}

DropNext(t, s) ==
    /\ task[t].pc \in {"idle", "drop"}
    /\ s \in task[t].todo
    /\ DropSession(s)
    /\ Become(t, [task[t] EXCEPT !.todo = @ \ {s}])
    /\ UNCHANGED <<hubVars, hello, evict, faults>>

\* What a task does when its sessions are dropped, and when it has seen to
\* the gateway: Revoke returns, Remove deletes, a reap loop waits, Close exits.
AfterStop(t) ==
    CASE task[t].goal = "remove" -> [task[t] EXCEPT !.pc = "forget", !.last = FALSE]
      [] task[t].goal = "close" -> [task[t] EXCEPT !.pc = "exit", !.last = FALSE]
      [] OTHER -> Rest(t)

AfterDrop(t) == IF task[t].last THEN [task[t] EXCEPT !.pc = "stop"] ELSE AfterStop(t)

DropsDone(t) ==
    /\ task[t].pc = "drop"
    /\ task[t].todo = {}
    /\ Become(t, AfterDrop(t))
    /\ UNCHANGED <<hubVars, tabVars, faults>>

\* stopServer does not look at the invites again.
StopServer(t) ==
    /\ task[t].pc = "stop"
    /\ running' = FALSE
    /\ Become(t, AfterStop(t))
    /\ unseen' = {x \in unseen : x[1] # t}
    /\ UNCHANGED <<life, disk, unsaved, aged, announced, tabVars, faults>>

-----------------------------------------------------------------------------
(* The reap loop.                                                          *)

\* Seeded fault: the loop also ends when no invite lives.
Tick_EndsEarly(r) ==
    /\ task[r].pc = "wait"
    /\ \/ (~running \/ liveCount = 0) /\ Become(r, Off)
       \/ running /\ \E idle \in SUBSET sessions :
                        Become(r, [Waiting EXCEPT !.pc = "idle", !.todo = idle])
    /\ UNCHANGED <<hubVars, tabVars, faults>>

\* A tick: a loop that finds the gateway closed ends; another one lists the
\* sessions that have been idle and drops them one by one.
Tick(r) ==
    /\ task[r].pc = "wait"
    /\ \/ ~running /\ Become(r, Off)
       \/ running /\ \E idle \in SUBSET sessions :
                        Become(r, [Waiting EXCEPT !.pc = "idle", !.todo = idle])
    /\ UNCHANGED <<hubVars, tabVars, faults>>

\* Seeded fault: the expiry is announced, its sessions stay.
SweepExpired_KeepsSessions(r) ==
    /\ task[r].pc = "idle"
    /\ task[r].todo = {}
    /\ announced' = announced \cup {i \in aged : life[i] = "kept"}
    /\ Become(r, Waiting)
    /\ UNCHANGED <<life, disk, unsaved, aged, running, unseen, tabVars, faults>>

\* sweepExpired returns early if nothing expired since the last sweep.
SweepExpired(r) ==
    LET dropped == {i \in invites : life[i] = "kept" /\ i \in aged \ announced}
    IN  /\ task[r].pc = "idle"
        /\ task[r].todo = {}
        /\ announced' = announced \cup dropped
        /\ IF dropped = {}
           THEN Become(r, Waiting)
           ELSE Become(r, [Waiting EXCEPT !.pc = "drop",
                                          !.todo = UNION {byInvite(i) : i \in dropped},
                                          !.last = liveCount = 0])
        /\ UNCHANGED <<life, disk, unsaved, aged, running, unseen, tabVars, faults>>

Age(i) ==
    /\ Expire
    /\ i \in invites \ aged
    /\ aged' = aged \cup {i}
    /\ UNCHANGED <<life, disk, unsaved, announced, running, unseen, tabVars, task, faults>>

-----------------------------------------------------------------------------
(* The guest: hello and bye.                                               *)

Free(s) ==
    /\ s \notin sessions
    /\ hello[s] = "off"
    /\ \A o \in Session : evict[o] # s
    /\ \A t \in Task : s \notin task[t].todo

\* inviteFor accepts the invite and its token; the lock is released before the
\* session exists, and the key agreement follows.
HelloCheck(s, i) ==
    /\ running
    /\ usable(i)
    /\ Free(s)
    /\ Cardinality({o \in Session : hello[o] # "off"}) < MaxHello
    /\ hello' = [hello EXCEPT ![s] = "keys"]
    /\ invite' = [invite EXCEPT ![s] = i]
    /\ before' = [before EXCEPT ![s] = {o \in Session : invite[o] = i}]
    /\ UNCHANGED <<hubVars, sessions, evict, late, task, faults>>

\* No usable key, or no encryption where the invite requires it.
HelloRefused(s) ==
    /\ hello[s] = "keys"
    /\ hello' = [hello EXCEPT ![s] = "off"]
    /\ invite' = [invite EXCEPT ![s] = None]
    /\ before' = Gone(s)
    /\ UNCHANGED <<hubVars, sessions, evict, late, task, faults>>

\* Seeded fault: an invite may have one tab more.
Oldest_OneMore(i) ==
    IF Cardinality(byInvite(i)) <= MaxSessions THEN {None}
    ELSE {o \in byInvite(i) : before[o] \cap byInvite(i) = {}}

\* The oldest tab of an invite that has as many as it may.
Oldest(i) ==
    IF Cardinality(byInvite(i)) < MaxSessions THEN {None}
    ELSE {o \in byInvite(i) : before[o] \cap byInvite(i) = {}}

Dead(i) == life[i] # "kept" \/ i \in announced

\* The session goes into the maps whatever has become of the invite, and
\* the oldest tab is chosen under the same lock.
HelloInsert(s) ==
    /\ hello[s] = "keys"
    /\ sessions' = sessions \cup {s}
    /\ \E o \in Oldest(invite[s]) :
          /\ evict' = [evict EXCEPT ![s] = o]
          /\ hello' = [hello EXCEPT ![s] = IF o = None THEN "off" ELSE "evict"]
    /\ late' = IF Dead(invite[s]) THEN late \cup {s} ELSE late
    /\ UNCHANGED <<life, aged, announced, running, unseen, invite, before, task>>
    /\ saveLocked

HelloEvict(s) ==
    /\ hello[s] = "evict"
    /\ DropSession(evict[s])
    /\ evict' = [evict EXCEPT ![s] = None]
    /\ hello' = [hello EXCEPT ![s] = "off"]
    /\ UNCHANGED <<hubVars, task, faults>>

\* Seeded fault: the session leaves one of the maps only.
Bye_HalfDropped(s) ==
    /\ s \in sessions
    /\ sessions' = sessions \ {s}
    /\ UNCHANGED <<hubVars, invite, before, hello, evict, late, task, faults>>

Bye(s) ==
    /\ s \in sessions
    /\ DropSession(s)
    /\ UNCHANGED <<hubVars, hello, evict, task, faults>>

-----------------------------------------------------------------------------
(* The process ends, by Close or a crash, and is started again.            *)

\* load reads the invite file; Resume starts the gateway if an invite lives.
\* A crash while Revoke, a hello or another operation saves tears the file. An
\* invite that never got into it leaves nothing behind.
Restart ==
    /\ \E torn \in BOOLEAN, r \in Reaper :
          LET known == IF torn THEN Torn(disk) ELSE disk
              live == \E i \in Invite : known[i] = "kept" /\ i \notin aged
          IN  /\ life' = known
              /\ disk' = known
              /\ unsaved' = FALSE
              /\ aged' = {i \in aged : known[i] # "unused"}
              /\ running' \in {FALSE, live}    \* FALSE: no live invite, or no port
              /\ task' = [t \in Task |-> IF running' /\ t = r THEN Waiting ELSE Off]
    /\ announced' = {}
    /\ sessions' = {}
    /\ invite' = [s \in Session |-> None]
    /\ before' = [s \in Session |-> {}]
    /\ hello' = [s \in Session |-> "off"]
    /\ evict' = [s \in Session |-> None]
    /\ late' = {}
    /\ unseen' = {}
    /\ IF \E p \in Op : task[p].pc = "exit" THEN UNCHANGED faults ELSE Fail

-----------------------------------------------------------------------------
OpStep(p) ==
    \/ EnsureServer(p) \/ ListenFails(p) \/ KitFails(p)
    \/ (\E i \in Invite : CreateInsert(p, i))
    \/ RegenerateDone(p)
    \/ Forget(p)

TeardownStep(t) == (\E s \in Session : DropNext(t, s)) \/ DropsDone(t) \/ StopServer(t)

Request(p) ==
    \/ CreateStart(p)
    \/ \E i \in Invite :
          \/ RegenerateStart(p, i)
          \/ RevokeStart(p, i, "revoke")
          \/ RevokeStart(p, i, "remove")
    \/ CloseStart(p)

HelloStep(s) == HelloRefused(s) \/ HelloInsert(s) \/ HelloEvict(s)

Next ==
    \/ \E p \in Op : Request(p) \/ OpStep(p)
    \/ \E t \in Task : TeardownStep(t)
    \/ \E r \in Reaper : Tick(r) \/ SweepExpired(r)
    \/ \E i \in Invite : Age(i)
    \/ \E s \in Session : Bye(s) \/ HelloStep(s) \/ \E i \in Invite : HelloCheck(s, i)
    \/ Restart

Spec == Init /\ [][Next]_vars

\* A request in progress goes on, and the ticker of a reap loop fires.
Fairness ==
    /\ \A p \in Op : WF_vars(OpStep(p))
    /\ \A t \in Task : WF_vars(TeardownStep(t))
    /\ \A r \in Reaper : WF_vars(Tick(r)) /\ WF_vars(SweepExpired(r))
    /\ \A s \in Session : WF_vars(HelloStep(s))

FairSpec == Spec /\ Fairness

-----------------------------------------------------------------------------
(* Properties.                                                             *)

TaskRecord ==
    [pc : {"off", "wait", "ensure", "kit", "idle", "drop", "stop", "forget", "exit"},
     goal : {"none", "create", "regenerate", "revoke", "remove", "close"},
     inv : Invite \cup {None}, todo : SUBSET Session, last : BOOLEAN]

TypeOK ==
    /\ life \in [Invite -> Life] /\ disk \in [Invite -> Life] /\ unsaved \in BOOLEAN
    /\ aged \subseteq Invite /\ announced \subseteq Invite
    /\ running \in BOOLEAN
    /\ sessions \subseteq Session
    /\ invite \in [Session -> Invite \cup {None}]
    /\ before \in [Session -> SUBSET Session]
    /\ hello \in [Session -> {"off", "keys", "evict"}]
    /\ evict \in [Session -> Session \cup {None}]
    /\ task \in [Task -> TaskRecord]
    /\ late \subseteq sessions /\ unseen \subseteq Task \X Invite
    /\ faults \in 0 .. MaxFaults

\* Idle sessions, expired invites and, after the last expiry, the gateway are
\* left to the reap loop. Each gateway start begins one and each loop ends when
\* it finds the gateway closed; a gateway is never left without one.
ReaperRuns == running => \E r \in Reaper : task[r] # Off

\* A session of an invite that was revoked, removed or announced as expired is
\* about to be dropped by the task that retired the invite, unless its hello
\* had been let in before and inserted it afterwards.
DeadSessionsGo ==
    \A s \in sessions : Dead(invite[s]) =>
        s \in late \/ \E t \in Task : s \in task[t].todo

\* The tabs of an invite, without those that a hello is about to evict.
Settled(i) == Cardinality({s \in byInvite(i) : \A h \in Session : evict[h] # s})

\* This hello has chosen a tab that another one is already about to evict.
SharesEviction(s) ==
    /\ evict[s] = None
    /\ evict'[s] # None
    /\ \E h \in Session \ {s} : evict[h] = evict'[s]

\* "Keep the number of tabs bounded" (guest.go:1574): evictions that are still
\* to be made counted, an invite comes to have more than guestMaxSessions tabs,
\* or more than it has, only if two hellos choose the same tab to evict.
TabsBounded ==
    [][\A i \in Invite :
          Settled(i)' > MaxSessions /\ Settled(i)' > Settled(i) =>
             \E s \in Session : SharesEviction(s)]_vars

\* "this build keeps at most %d guest kits" (guest.go:961). Create counts the
\* invites and files its own later: every other request in progress may have one
\* more. A restart finds no more of them than that in the file.
InviteCap == Cardinality(invites) <= MaxInvites + Cardinality(Op) - 1

AtRest == \A t \in Task : task[t] \in {Off, Waiting}

\* README.md:152: the gateway "only exists while a usable invite exists", give
\* or take the requests in progress, the expiries that the next sweep announces
\* and failures.
GatewayOnlyWhileLive ==
    AtRest /\ running /\ faults = 0 => \E i \in Invite : ~Dead(i)

\* The gateway is open, no invite lives, and nobody is going to close it or to
\* file an invite.
OpenForNobody ==
    /\ running
    /\ \A i \in Invite : Dead(i)
    /\ \A t \in Task : task[t].pc # "kit" /\ ~task[t].last

\* However requests, sweeps and restarts interleave, only two steps leave the
\* gateway open for nobody: a kit that cannot be written (guest.go:993), and the
\* Regenerate of an invite that is dead by then (guest.go:1201).
LeftOpenInVain ==
    [][OpenForNobody' /\ ~OpenForNobody =>
          \E p \in Op : KitFails(p) \/ RegenerateDone(p)]_vars

\* The message of stopServer (guest.go:822), "no live invites remain": shutdown
\* and crash apart, whoever closes the gateway closes it only over invites that
\* were filed after he had found none.
StopsOnlyWhenNoneLive ==
    [][running /\ ~running' =>
          \/ Restart
          \/ \E t \in Task :
                /\ StopServer(t)
                /\ \/ task[t].goal = "close"
                   \/ \A i \in Invite : usable(i) => <<t, i>> \in unseen]_vars

\* An invite that stopped being usable becomes usable again only by a restart
\* that finds it in a file whose last write failed: otherwise what Revoke and
\* Remove did is on disk when it counts.
NeverUsableAgain ==
    [][\A i \in Invite :
          life[i] # "unused" /\ ~usable(i) /\ usable(i)' =>
             Restart /\ unsaved /\ disk[i] = "kept"]_vars

\* While the gateway runs, an expired invite is found and its sessions go.
ExpiryNoticed ==
    \A i \in Invite :
        running /\ i \in aged ~> ~running \/ (Dead(i) /\ byInvite(i) \subseteq late)
=============================================================================
