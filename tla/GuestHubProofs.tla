--------------------------- MODULE GuestHubProofs ---------------------------
(***************************************************************************)
(* Proofs about GuestHub, for any number of invites, sessions, requests,   *)
(* hellos, reap loops and faults, with and without expiry dates, and any   *)
(* limits: a running gateway has its reap loop, the sessions of a dead     *)
(* invite are about to be dropped, an invite that stopped working works    *)
(* again only after a failed write and a restart, invites and tabs keep to *)
(* their limits but for the races named, and so does the gateway to the    *)
(* invites it is open for.                                                 *)
(*                                                                         *)
(* The order of creation (before) decides which tab is evicted; nothing    *)
(* below depends on which one it is.                                       *)
(***************************************************************************)
EXTENDS GuestHub, FiniteSetTheorems, TLAPS

ShapeOK ==
    /\ life \in [Invite -> Life] /\ disk \in [Invite -> Life]
    /\ aged \subseteq Invite /\ announced \subseteq Invite
    /\ sessions \subseteq Session
    /\ invite \in [Session -> Invite \cup {None}]
    /\ hello \in [Session -> {"off", "keys", "evict"}]
    /\ task \in [Task -> TaskRecord]
    /\ faults \in 0 .. MaxFaults

\* The file is what it was last written as.
DiskOK == ~unsaved => disk = life

ReaperOK == running => \E r \in Reaper : task[r].pc # "off"

\* Who lists sessions drops them; who removes an invite has revoked it before.
RecordOK(r) ==
    /\ r.todo # {} => r.pc \in {"idle", "drop"}
    /\ r.pc = "forget" => r.goal = "remove"
    /\ r.goal = "remove" => r.inv \in Invite /\ life[r.inv] \in {"revoked", "gone"}

TasksOK == \A t \in Task : RecordOK(task[t])

\* A session belongs to an invite, from its hello on.
InvitesOK ==
    \A s \in Session :
        /\ s \in sessions \/ hello[s] = "keys" => invite[s] \in Invite
        /\ hello[s] = "keys" => s \notin sessions

IInv == ShapeOK /\ DiskOK /\ ReaperOK /\ TasksOK /\ InvitesOK /\ DeadSessionsGo

-----------------------------------------------------------------------------
(* Tasks, the file, and the sessions that are dropped.                     *)

LEMMA Slots ==
    /\ Off \in TaskRecord /\ Off.pc = "off" /\ Off.todo = {} /\ Off.goal = "none"
    /\ Waiting \in TaskRecord /\ Waiting.pc = "wait" /\ Waiting.todo = {}
    /\ Waiting.goal = "none"
  BY DEF Off, Waiting, TaskRecord

\* A task that drops sessions may have any of these fields changed.
LEMMA Records ==
    ASSUME NEW r \in TaskRecord
    PROVE  /\ \A c \in {"kit", "forget", "exit", "stop"} :
                 /\ [r EXCEPT !.pc = c] \in TaskRecord
                 /\ [r EXCEPT !.pc = c].pc = c
                 /\ [r EXCEPT !.pc = c].goal = r.goal /\ [r EXCEPT !.pc = c].inv = r.inv
                 /\ [r EXCEPT !.pc = c].todo = r.todo
           /\ \A s \in Session :
                 /\ [r EXCEPT !.todo = @ \ {s}] \in TaskRecord
                 /\ [r EXCEPT !.todo = @ \ {s}].todo = r.todo \ {s}
                 /\ [r EXCEPT !.todo = @ \ {s}].pc = r.pc
                 /\ [r EXCEPT !.todo = @ \ {s}].goal = r.goal
                 /\ [r EXCEPT !.todo = @ \ {s}].inv = r.inv
  <1>1. ASSUME NEW c \in {"kit", "forget", "exit", "stop"}
        PROVE  /\ [r EXCEPT !.pc = c] \in TaskRecord
               /\ [r EXCEPT !.pc = c].pc = c
               /\ [r EXCEPT !.pc = c].goal = r.goal /\ [r EXCEPT !.pc = c].inv = r.inv
               /\ [r EXCEPT !.pc = c].todo = r.todo
    BY DEF TaskRecord
  <1>3. ASSUME NEW s \in Session
        PROVE  /\ [r EXCEPT !.todo = @ \ {s}] \in TaskRecord
               /\ [r EXCEPT !.todo = @ \ {s}].todo = r.todo \ {s}
               /\ [r EXCEPT !.todo = @ \ {s}].pc = r.pc
               /\ [r EXCEPT !.todo = @ \ {s}].goal = r.goal
               /\ [r EXCEPT !.todo = @ \ {s}].inv = r.inv
    BY DEF TaskRecord
  <1>. QED  BY <1>1, <1>3

LEMMA SaveOK ==
    ASSUME ShapeOK, saveLocked, life' \in [Invite -> Life]
    PROVE  DiskOK' /\ disk' \in [Invite -> Life] /\ faults' \in 0 .. MaxFaults /\ faults' >= faults
  <1>1. Torn(life') \in [Invite -> Life]
    BY DEF Torn, Life
  <1>2. disk' \in [Invite -> Life] /\ faults' \in 0 .. MaxFaults /\ faults' >= faults
    BY <1>1, BoundAssumption DEF ShapeOK, saveLocked, Fail, CanFail
  <1>3. DiskOK'
    BY DEF saveLocked, DiskOK
  <1>. QED  BY <1>2, <1>3

LEMMA FailOK ==
    ASSUME ShapeOK, Fail
    PROVE  faults' \in 0 .. MaxFaults /\ faults' > faults
  BY BoundAssumption DEF ShapeOK, Fail, CanFail

\* One session goes; what the others are part of stays.
LEMMA DropOK ==
    ASSUME IInv, NEW x, DropSession(x)
    PROVE  /\ sessions' \subseteq Session /\ sessions' = sessions \ {x}
           /\ invite' \in [Session -> Invite \cup {None}]
           /\ \A s \in Session : (s = x /\ s \in sessions) \/ invite'[s] = invite[s]
           /\ late' = late \ {x}
  BY DEF IInv, ShapeOK, DropSession

\* A step that keeps invites and sessions, and drops no session from a list.
LEMMA TaskStep ==
    ASSUME IInv,
           UNCHANGED <<life, disk, unsaved, aged, announced, sessions, invite, hello, late>>,
           task' \in [Task -> TaskRecord],
           \A t \in Task : RecordOK(task'[t]),
           \A t \in Task : task[t].todo \subseteq task'[t].todo,
           ReaperOK',
           faults' \in 0 .. MaxFaults
    PROVE  IInv'
  <1>1. ShapeOK' /\ DiskOK' /\ InvitesOK'
    BY DEF IInv, ShapeOK, DiskOK, InvitesOK
  <1>2. TasksOK'
    BY DEF TasksOK, RecordOK
  <1>3. DeadSessionsGo'
    BY DEF IInv, DeadSessionsGo, Dead
  <1>. QED  BY <1>1, <1>2, <1>3 DEF IInv

\* The same of one task.
LEMMA BecomeStep ==
    ASSUME IInv, NEW t \in Task, NEW r \in TaskRecord, Become(t, r), RecordOK(r),
           task[t].todo \subseteq r.todo,
           running' \in {running, FALSE},
           running' /\ t \in Reaper => r.pc # "off",
           faults' \in 0 .. MaxFaults,
           UNCHANGED <<life, disk, unsaved, aged, announced, sessions, invite, hello, late>>
    PROVE  IInv'
  <1>1. task \in [Task -> TaskRecord] /\ TasksOK /\ ReaperOK
    BY DEF IInv, ShapeOK
  <1>2. /\ task' \in [Task -> TaskRecord] /\ task'[t] = r
        /\ \A u \in Task \ {t} : task'[u] = task[u]
    BY <1>1 DEF Become
  <1>3. ReaperOK'
    <2>. SUFFICES ASSUME running' PROVE \E q \in Reaper : task'[q].pc # "off"
      BY DEF ReaperOK
    <2>1. PICK q \in Reaper : task[q].pc # "off"
      BY <1>1 DEF ReaperOK
    <2>2. q \in Task
      BY DEF Task
    <2>. QED  BY <2>1, <2>2, <1>2
  <1>4. \A u \in Task : RecordOK(task'[u]) /\ task[u].todo \subseteq task'[u].todo
    BY <1>1, <1>2 DEF TasksOK
  <1>. QED  BY <1>2, <1>3, <1>4, TaskStep

LEMMA InitInv == Init => IInv
  <1>. SUFFICES ASSUME Init PROVE IInv
    OBVIOUS
  <1>1. ShapeOK
    BY Slots, BoundAssumption DEF Init, ShapeOK, Life
  <1>2. DiskOK /\ ReaperOK /\ InvitesOK /\ DeadSessionsGo
    BY DEF Init, DiskOK, ReaperOK, InvitesOK, DeadSessionsGo
  <1>3. TasksOK
    BY Slots DEF Init, TasksOK, RecordOK
  <1>. QED  BY <1>1, <1>2, <1>3 DEF IInv

-----------------------------------------------------------------------------
(* Requests, up to what they do to an invite.                              *)

LEMMA BeginInv ==
    ASSUME IInv, NEW p \in Op, NEW goal \in {"create", "regenerate"},
           NEW i \in Invite \cup {None}, Begin(p, goal, i),
           UNCHANGED <<hubVars, tabVars, faults>>
    PROVE  IInv'
  <1>. DEFINE R == [Off EXCEPT !.pc = "ensure", !.goal = goal, !.inv = i]
  <1>1. /\ R \in TaskRecord /\ R.pc = "ensure" /\ R.goal = goal /\ R.todo = {}
        /\ task[p] = Off /\ Become(p, R)
    BY DEF Begin, Off, TaskRecord
  <1>2. p \in Task /\ faults \in 0 .. MaxFaults
    BY DEF Task, IInv, ShapeOK
  <1>3. /\ UNCHANGED <<life, disk, unsaved, aged, announced, sessions, invite, hello, late>>
        /\ faults' = faults /\ running' = running
    BY DEF hubVars, tabVars
  <1>. HIDE DEF R
  <1>4. RecordOK(R) /\ task[p].todo \subseteq R.todo
    BY <1>1, Slots DEF RecordOK
  <1>. QED  BY <1>1, <1>2, <1>3, <1>4, BecomeStep

LEMMA EnsureServerInv ==
    ASSUME IInv, NEW p \in Op, EnsureServer(p)
    PROVE  IInv'
  <1>. DEFINE R == [task[p] EXCEPT !.pc = "kit"]
  <1>1. /\ p \in Task /\ task \in [Task -> TaskRecord] /\ TasksOK /\ ReaperOK
        /\ task[p].pc = "ensure" /\ task[p] \in TaskRecord
        /\ UNCHANGED <<life, disk, unsaved, aged, announced, sessions, invite, hello, late>>
        /\ faults' = faults /\ faults \in 0 .. MaxFaults
    BY DEF Task, IInv, ShapeOK, EnsureServer, tabVars
  <1>2. /\ R \in TaskRecord /\ R.pc = "kit" /\ R.goal = task[p].goal
        /\ R.inv = task[p].inv /\ R.todo = task[p].todo
    BY <1>1, Records
  <1>3. RecordOK(task[p]) /\ task[p].todo = {}
    BY <1>1 DEF TasksOK, RecordOK
  <1>4. CASE running /\ Become(p, R) /\ UNCHANGED running
    <2>. HIDE DEF R
    <2>1. RecordOK(R) /\ task[p].todo \subseteq R.todo
      BY <1>1, <1>2, <1>3 DEF RecordOK
    <2>. QED  BY <1>1, <1>2, <1>4, <2>1, BecomeStep
  <1>5. ASSUME NEW q \in Reaper, Listen(q), task' = [task EXCEPT ![p].pc = "kit", ![q] = Waiting]
        PROVE  IInv'
    <2>1. q \in Task /\ q # p /\ task[q] = Off
      BY <1>5, TaskAssumption DEF Task, Listen
    <2>2. task' = [task EXCEPT ![p] = R, ![q] = Waiting]
      BY <1>1, <1>5
    <2>. HIDE DEF R
    <2>3. /\ task' \in [Task -> TaskRecord] /\ task'[p] = R /\ task'[q] = Waiting
          /\ \A t \in Task \ {p, q} : task'[t] = task[t]
      BY <1>1, <1>2, <2>1, <2>2, Slots
    <2>4. RecordOK(R) /\ RecordOK(Waiting)
      BY <1>1, <1>2, <1>3, Slots DEF RecordOK
    <2>5. \A t \in Task : RecordOK(task'[t]) /\ task[t].todo \subseteq task'[t].todo
      BY <1>1, <1>2, <2>1, <2>3, <2>4, Slots DEF TasksOK
    <2>6. ReaperOK'
      BY <2>3, Slots DEF ReaperOK
    <2>. QED  BY <1>1, <2>3, <2>5, <2>6, TaskStep
  <1>. QED  BY <1>4, <1>5 DEF EnsureServer

\* Every step that ends a request before its invite is filed.
LEMMA GiveUpInv ==
    ASSUME IInv, NEW p \in Op, ListenFails(p) \/ KitFails(p) \/ RegenerateDone(p)
    PROVE  IInv'
  <1>1. /\ p \in Task /\ TasksOK /\ task[p].pc \in {"ensure", "kit"}
        /\ Become(p, Off)
        /\ UNCHANGED <<life, disk, unsaved, aged, announced, running,
                       sessions, invite, hello, late>>
    BY DEF Task, IInv, ListenFails, KitFails, RegenerateDone, hubVars, tabVars
  <1>2. faults' \in 0 .. MaxFaults
    BY FailOK DEF IInv, ShapeOK, ListenFails, KitFails, RegenerateDone
  <1>3. task[p].todo \subseteq Off.todo /\ RecordOK(Off) /\ p \notin Reaper
    BY <1>1, Slots, TaskAssumption DEF TasksOK, RecordOK
  <1>. QED  BY <1>1, <1>2, <1>3, Slots, BecomeStep

LEMMA CloseStartInv ==
    ASSUME IInv, NEW p \in Op, CloseStart(p)
    PROVE  IInv'
  <1>. DEFINE R == [pc |-> "drop", goal |-> "close", inv |-> None,
                    todo |-> sessions, last |-> TRUE]
  <1>1. /\ p \in Task /\ task[p] = Off /\ Become(p, R) /\ faults' = faults
        /\ running' = running /\ faults \in 0 .. MaxFaults /\ sessions \subseteq Session
        /\ UNCHANGED <<life, disk, unsaved, aged, announced, sessions, invite, hello, late>>
    BY DEF Task, CloseStart, IInv, ShapeOK, hubVars, tabVars
  <1>2. R \in TaskRecord /\ R.pc = "drop" /\ R.goal = "close" /\ R.todo = sessions
    BY <1>1 DEF TaskRecord
  <1>. HIDE DEF R
  <1>3. RecordOK(R) /\ task[p].todo \subseteq R.todo
    BY <1>1, <1>2, Slots DEF RecordOK
  <1>. QED  BY <1>1, <1>2, <1>3, BecomeStep

-----------------------------------------------------------------------------
(* What follows the drops, and the ticks of a reap loop.                   *)

\* Where a task goes when it is done with sessions and gateway.
LEMMA AfterStopOK ==
    ASSUME IInv, NEW t \in Task, task[t].pc \in {"drop", "stop"}, task[t].todo = {}
    PROVE  /\ AfterStop(t) \in TaskRecord /\ RecordOK(AfterStop(t))
           /\ AfterStop(t).todo = {}
           /\ t \in Reaper => AfterStop(t).pc # "off"
  <1>. DEFINE R(c) == [task[t] EXCEPT !.pc = c, !.last = FALSE]
  <1>1. task[t] \in TaskRecord /\ RecordOK(task[t])
    BY DEF IInv, ShapeOK, TasksOK
  <1>2. \A c \in {"forget", "exit"} :
           /\ R(c) \in TaskRecord /\ R(c).pc = c /\ R(c).goal = task[t].goal
           /\ R(c).inv = task[t].inv /\ R(c).todo = {}
    BY <1>1 DEF TaskRecord
  <1>3. CASE task[t].goal = "remove"
    <2>1. AfterStop(t) = R("forget")
      BY <1>3 DEF AfterStop
    <2>. HIDE DEF R
    <2>. QED  BY <1>1, <1>2, <1>3, <2>1 DEF RecordOK
  <1>4. CASE task[t].goal = "close"
    <2>1. AfterStop(t) = R("exit")
      BY <1>4 DEF AfterStop
    <2>. HIDE DEF R
    <2>. QED  BY <1>1, <1>2, <1>4, <2>1 DEF RecordOK
  <1>5. CASE task[t].goal \notin {"remove", "close"}
    <2>1. AfterStop(t) = Rest(t)
      BY <1>5 DEF AfterStop
    <2>2. Rest(t) \in {Off, Waiting} /\ (t \in Reaper => Rest(t) = Waiting)
      BY TaskAssumption DEF Rest
    <2>. QED  BY <2>1, <2>2, Slots DEF RecordOK
  <1>. QED  BY <1>3, <1>4, <1>5

LEMMA DropsDoneInv ==
    ASSUME IInv, NEW t \in Task, DropsDone(t)
    PROVE  IInv'
  <1>1. /\ task[t].pc = "drop" /\ task[t].todo = {} /\ Become(t, AfterDrop(t))
        /\ UNCHANGED <<life, disk, unsaved, aged, announced, sessions, invite, hello, late>>
        /\ running' = running /\ faults' = faults /\ faults \in 0 .. MaxFaults
        /\ task[t] \in TaskRecord /\ RecordOK(task[t])
    BY DEF DropsDone, hubVars, tabVars, IInv, ShapeOK, TasksOK
  <1>2. /\ AfterDrop(t) \in TaskRecord /\ RecordOK(AfterDrop(t)) /\ AfterDrop(t).todo = {}
        /\ t \in Reaper => AfterDrop(t).pc # "off"
    <2>1. CASE task[t].last
      <3>. DEFINE R == [task[t] EXCEPT !.pc = "stop"]
      <3>1. AfterDrop(t) = R
        BY <2>1 DEF AfterDrop
      <3>2. /\ R \in TaskRecord /\ R.pc = "stop" /\ R.todo = {}
            /\ R.goal = task[t].goal /\ R.inv = task[t].inv
        BY <1>1 DEF TaskRecord
      <3>. HIDE DEF R
      <3>. QED  BY <1>1, <3>1, <3>2 DEF RecordOK
    <2>2. CASE ~task[t].last
      BY <2>2, <1>1, AfterStopOK DEF AfterDrop
    <2>. QED  BY <2>1, <2>2
  <1>. QED  BY <1>1, <1>2, BecomeStep

LEMMA StopServerInv ==
    ASSUME IInv, NEW t \in Task, StopServer(t)
    PROVE  IInv'
  <1>1. /\ task[t].pc = "stop" /\ Become(t, AfterStop(t)) /\ running' = FALSE
        /\ UNCHANGED <<life, disk, unsaved, aged, announced, sessions, invite, hello, late>>
        /\ faults' = faults /\ faults \in 0 .. MaxFaults /\ RecordOK(task[t])
    BY DEF StopServer, tabVars, IInv, ShapeOK, TasksOK
  <1>2. task[t].todo = {}
    BY <1>1 DEF RecordOK
  <1>. QED  BY <1>1, <1>2, AfterStopOK, BecomeStep

LEMMA TickInv ==
    ASSUME IInv, NEW r \in Reaper, Tick(r)
    PROVE  IInv'
  <1>1. /\ r \in Task /\ task[r].pc = "wait" /\ RecordOK(task[r])
        /\ UNCHANGED <<life, disk, unsaved, aged, announced, sessions, invite, hello, late>>
        /\ running' = running /\ faults' = faults /\ faults \in 0 .. MaxFaults
        /\ sessions \subseteq Session
    BY DEF Task, Tick, hubVars, tabVars, IInv, ShapeOK, TasksOK
  <1>2. task[r].todo = {}
    BY <1>1 DEF RecordOK
  <1>3. CASE ~running /\ Become(r, Off)
    <2>1. RecordOK(Off)
      BY Slots DEF RecordOK
    <2>. QED  BY <1>1, <1>2, <1>3, <2>1, Slots, BecomeStep
  <1>4. ASSUME NEW idle \in SUBSET sessions,
               Become(r, [Waiting EXCEPT !.pc = "idle", !.todo = idle])
        PROVE  IInv'
    <2>. DEFINE R == [Waiting EXCEPT !.pc = "idle", !.todo = idle]
    <2>1. /\ R \in TaskRecord /\ R.pc = "idle" /\ R.todo = idle /\ R.goal = "none"
      BY <1>1 DEF Waiting, Off, TaskRecord
    <2>. HIDE DEF R
    <2>2. RecordOK(R)
      BY <2>1 DEF RecordOK
    <2>. QED  BY <1>1, <1>2, <1>4, <2>1, <2>2, BecomeStep DEF R
  <1>. QED  BY <1>3, <1>4 DEF Tick

-----------------------------------------------------------------------------
(* Invites are filed, revoked, deleted and found expired.                  *)

\* A step that keeps the sessions. An invite that dies has its sessions listed.
LEMMA LifeStep ==
    ASSUME IInv,
           UNCHANGED <<running, sessions, invite, hello, late>>,
           life' \in [Invite -> Life], disk' \in [Invite -> Life], DiskOK',
           aged' \subseteq Invite, announced' \subseteq Invite,
           task' \in [Task -> TaskRecord],
           \A t \in Task : RecordOK(task[t])',
           \A t \in Task : task[t].todo \subseteq task'[t].todo,
           \A r \in Reaper : task[r].pc # "off" => task'[r].pc # "off",
           faults' \in 0 .. MaxFaults,
           \A s \in sessions : Dead(invite[s])' =>
               Dead(invite[s]) \/ \E t \in Task : s \in task'[t].todo
    PROVE  IInv'
  <1>1. ShapeOK' /\ ReaperOK' /\ InvitesOK' /\ TasksOK'
    BY DEF IInv, ShapeOK, ReaperOK, InvitesOK, TasksOK
  <1>2. DeadSessionsGo'
    <2>. SUFFICES ASSUME NEW s \in sessions, Dead(invite[s])'
         PROVE  s \in late \/ \E t \in Task : s \in task'[t].todo
      BY DEF DeadSessionsGo
    <2>1. CASE Dead(invite[s])
      BY <2>1 DEF IInv, DeadSessionsGo
    <2>2. CASE ~Dead(invite[s])
      BY <2>2
    <2>. QED  BY <2>1, <2>2
  <1>. QED  BY <1>1, <1>2 DEF IInv

LEMMA CreateInsertInv ==
    ASSUME IInv, NEW p \in Op, NEW i \in Invite, CreateInsert(p, i)
    PROVE  IInv'
  <1>1. /\ ShapeOK /\ TasksOK /\ p \in Task /\ p \notin Reaper
        /\ task[p].pc = "kit" /\ life[i] = "unused"
        /\ life' = [life EXCEPT ![i] = "kept"] /\ saveLocked /\ Become(p, Off)
        /\ UNCHANGED <<aged, announced, running, sessions, invite, hello, late>>
    BY TaskAssumption DEF IInv, Task, CreateInsert, tabVars
  <1>2. /\ life' \in [Invite -> Life] /\ life'[i] = "kept"
        /\ \A k \in Invite \ {i} : life'[k] = life[k]
    BY <1>1 DEF ShapeOK, Life
  <1>3. disk' \in [Invite -> Life] /\ DiskOK' /\ faults' \in 0 .. MaxFaults
    BY <1>1, <1>2, SaveOK
  <1>4. /\ task' \in [Task -> TaskRecord] /\ task'[p] = Off
        /\ \A t \in Task \ {p} : task'[t] = task[t]
    BY <1>1, Slots DEF ShapeOK, Become
  <1>5. ASSUME NEW t \in Task PROVE RecordOK(task[t])'
    <2>1. RecordOK(task[t])
      BY <1>1 DEF TasksOK
    <2>2. CASE t = p
      BY <2>2, <1>4, Slots DEF RecordOK
    <2>3. CASE t # p
      BY <2>1, <2>3, <1>1, <1>2, <1>4 DEF RecordOK
    <2>. QED  BY <2>2, <2>3
  <1>6. task[p].todo = {}
    BY <1>1 DEF TasksOK, RecordOK
  <1>7. \A t \in Task : task[t].todo \subseteq task'[t].todo
    BY <1>4, <1>6
  <1>8. \A r \in Reaper : task[r].pc # "off" => task'[r].pc # "off"
    BY <1>1, <1>4 DEF Task
  <1>9. ASSUME NEW s \in sessions, Dead(invite[s])' PROVE Dead(invite[s])
    <2>1. invite[s] \in Invite
      BY DEF IInv, InvitesOK, ShapeOK
    <2>. QED  BY <2>1, <1>1, <1>2, <1>9 DEF Dead
  <1>10. aged' \subseteq Invite /\ announced' \subseteq Invite
    BY <1>1 DEF ShapeOK
  <1>. QED  BY <1>1, <1>2, <1>3, <1>4, <1>5, <1>7, <1>8, <1>9, <1>10, LifeStep

\* Revoke lists the sessions of the invite under the lock that marks it.
LEMMA RevokeStartInv ==
    ASSUME IInv, NEW p \in Op, NEW i \in Invite, NEW goal \in {"revoke", "remove"},
           RevokeStart(p, i, goal)
    PROVE  IInv'
  <1>. DEFINE R == [pc |-> "drop", goal |-> goal, inv |-> i, todo |-> byInvite(i),
                    last |-> NoneLeft(i)]
  <1>1. /\ ShapeOK /\ TasksOK /\ p \in Task /\ p \notin Reaper
        /\ task[p] = Off /\ i \in invites
        /\ life' = [life EXCEPT ![i] = "revoked"] /\ saveLocked /\ Become(p, R)
        /\ UNCHANGED <<aged, announced, running, sessions, invite, hello, late>>
    BY TaskAssumption DEF IInv, Task, RevokeStart, tabVars
  <1>2. /\ life' \in [Invite -> Life] /\ life'[i] = "revoked"
        /\ \A k \in Invite \ {i} : life'[k] = life[k]
    BY <1>1 DEF ShapeOK, Life
  <1>3. disk' \in [Invite -> Life] /\ DiskOK' /\ faults' \in 0 .. MaxFaults
    BY <1>1, <1>2, SaveOK
  <1>4. /\ R.pc = "drop" /\ R.goal = goal /\ R.inv = i /\ R.todo = byInvite(i)
        /\ R \in TaskRecord
    <2>1. byInvite(i) \in SUBSET Session /\ NoneLeft(i) \in BOOLEAN
      BY <1>1 DEF byInvite, ShapeOK, NoneLeft
    <2>2. R.pc = "drop" /\ R.goal = goal /\ R.inv = i /\ R.todo = byInvite(i)
      BY Zenon
    <2>. QED  BY <2>1, <2>2 DEF TaskRecord
  <1>. HIDE DEF R
  <1>5. /\ task' \in [Task -> TaskRecord] /\ task'[p] = R
        /\ \A t \in Task \ {p} : task'[t] = task[t]
    BY <1>1, <1>4 DEF ShapeOK, Become
  <1>6. ASSUME NEW t \in Task PROVE RecordOK(task[t])'
    <2>1. RecordOK(task[t])
      BY <1>1 DEF TasksOK
    <2>2. CASE t = p
      BY <2>2, <1>2, <1>4, <1>5 DEF RecordOK
    <2>3. CASE t # p
      <3>1. task'[t] = task[t] /\ (task[t].goal = "remove" => task[t].inv \in Invite)
        BY <2>1, <2>3, <1>5 DEF RecordOK
      <3>2. task[t].goal = "remove" => life'[task[t].inv] \in {"revoked", "gone"}
        BY <2>1, <1>2, <3>1 DEF RecordOK
      <3>. QED  BY <2>1, <3>1, <3>2 DEF RecordOK
    <2>. QED  BY <2>2, <2>3
  <1>7. \A t \in Task : task[t].todo \subseteq task'[t].todo
    BY <1>1, <1>5, Slots
  <1>8. \A r \in Reaper : task[r].pc # "off" => task'[r].pc # "off"
    BY <1>1, <1>5 DEF Task
  <1>9. ASSUME NEW s \in sessions, Dead(invite[s])', ~Dead(invite[s])
        PROVE  s \in task'[p].todo
    <2>1. invite[s] \in Invite
      BY DEF IInv, InvitesOK, ShapeOK
    <2>2. invite[s] = i
      BY <2>1, <1>1, <1>2, <1>9 DEF Dead
    <2>. QED  BY <2>2, <1>4, <1>5 DEF byInvite
  <1>10. aged' \subseteq Invite /\ announced' \subseteq Invite
    BY <1>1 DEF ShapeOK
  <1>. QED  BY <1>1, <1>2, <1>3, <1>5, <1>6, <1>7, <1>8, <1>9, <1>10, LifeStep

LEMMA ForgetInv ==
    ASSUME IInv, NEW p \in Op, Forget(p)
    PROVE  IInv'
  <1>. DEFINE i == task[p].inv
  <1>1. /\ ShapeOK /\ TasksOK /\ DiskOK /\ p \in Task /\ p \notin Reaper
        /\ task[p].pc = "forget" /\ RecordOK(task[p]) /\ Become(p, Off)
        /\ UNCHANGED <<aged, announced, running, sessions, invite, hello, late>>
    BY TaskAssumption DEF IInv, Task, TasksOK, Forget, tabVars
  <1>2. /\ task[p].todo = {} /\ i \in Invite /\ life[i] \in {"revoked", "gone"}
    BY <1>1 DEF RecordOK
  <1>3. /\ life' \in [Invite -> Life] /\ life'[i] \in {"revoked", "gone"}
        /\ \A k \in Invite \ {i} : life'[k] = life[k]
        /\ disk' \in [Invite -> Life] /\ DiskOK' /\ faults' \in 0 .. MaxFaults
    <2>1. CASE i \in invites
      <3>1. life' = [life EXCEPT ![i] = "gone"] /\ saveLocked
        BY <2>1 DEF Forget
      <3>2. life' \in [Invite -> Life]
        BY <1>1, <3>1 DEF ShapeOK, Life
      <3>. QED  BY <1>1, <1>2, <3>1, <3>2, SaveOK DEF ShapeOK
    <2>2. CASE i \notin invites
      BY <2>2, <1>1, <1>2 DEF Forget, ShapeOK, DiskOK
    <2>. QED  BY <2>1, <2>2
  <1>4. /\ task' \in [Task -> TaskRecord] /\ task'[p] = Off
        /\ \A t \in Task \ {p} : task'[t] = task[t]
    BY <1>1, Slots DEF ShapeOK, Become
  <1>. HIDE DEF i
  <1>5. ASSUME NEW t \in Task PROVE RecordOK(task[t])'
    <2>1. RecordOK(task[t])
      BY <1>1 DEF TasksOK
    <2>2. CASE t = p
      BY <2>2, <1>4, Slots DEF RecordOK
    <2>3. CASE t # p
      <3>1. task'[t] = task[t] /\ (task[t].goal = "remove" => task[t].inv \in Invite)
        BY <2>1, <2>3, <1>4 DEF RecordOK
      <3>2. task[t].goal = "remove" => life'[task[t].inv] \in {"revoked", "gone"}
        BY <2>1, <1>3, <3>1 DEF RecordOK
      <3>. QED  BY <2>1, <3>1, <3>2 DEF RecordOK
    <2>. QED  BY <2>2, <2>3
  <1>6. \A t \in Task : task[t].todo \subseteq task'[t].todo
    BY <1>2, <1>4
  <1>7. \A r \in Reaper : task[r].pc # "off" => task'[r].pc # "off"
    BY <1>1, <1>4 DEF Task
  <1>8. ASSUME NEW s \in sessions, Dead(invite[s])' PROVE Dead(invite[s])
    <2>1. invite[s] \in Invite
      BY DEF IInv, InvitesOK, ShapeOK
    <2>. QED  BY <2>1, <1>1, <1>2, <1>3, <1>8 DEF Dead
  <1>9. aged' \subseteq Invite /\ announced' \subseteq Invite
    BY <1>1 DEF ShapeOK
  <1>. QED  BY <1>1, <1>3, <1>4, <1>5, <1>6, <1>7, <1>8, <1>9, LifeStep

\* A sweep lists the sessions of the invites that it announces.
LEMMA SweepExpiredInv ==
    ASSUME IInv, NEW r \in Reaper, SweepExpired(r)
    PROVE  IInv'
  <1>. DEFINE dropped == {i \in invites : life[i] = "kept" /\ i \in aged \ announced}
              listed == UNION {byInvite(i) : i \in dropped}
              R == [Waiting EXCEPT !.pc = "drop", !.todo = listed, !.last = liveCount = 0]
  <1>1. /\ ShapeOK /\ TasksOK /\ DiskOK /\ r \in Task /\ task[r].todo = {}
        /\ announced' = announced \cup dropped
        /\ Become(r, IF dropped = {} THEN Waiting ELSE R)
        /\ UNCHANGED <<life, disk, unsaved, aged, running, faults,
                       sessions, invite, hello, late>>
    BY DEF IInv, Task, SweepExpired, tabVars
  <1>2. /\ R \in TaskRecord /\ R.pc = "drop" /\ R.goal = "none" /\ R.todo = listed
    <2>1. listed \in SUBSET Session /\ (liveCount = 0) \in BOOLEAN
      BY <1>1 DEF byInvite, ShapeOK
    <2>. HIDE DEF listed
    <2>. DEFINE b == liveCount = 0
    <2>2. b \in BOOLEAN
      BY <2>1
    <2>. HIDE DEF b
    <2>3. ASSUME NEW c \in BOOLEAN
          PROVE  /\ [Waiting EXCEPT !.pc = "drop", !.todo = listed, !.last = c] \in TaskRecord
                 /\ [Waiting EXCEPT !.pc = "drop", !.todo = listed, !.last = c].pc = "drop"
                 /\ [Waiting EXCEPT !.pc = "drop", !.todo = listed, !.last = c].goal = "none"
                 /\ [Waiting EXCEPT !.pc = "drop", !.todo = listed, !.last = c].todo = listed
      BY <2>1 DEF Waiting, Off, TaskRecord
    <2>4. R = [Waiting EXCEPT !.pc = "drop", !.todo = listed, !.last = b]
      BY DEF b
    <2>. QED  BY <2>2, <2>3, <2>4
  <1>. HIDE DEF R
  <1>3. /\ task' \in [Task -> TaskRecord]
        /\ task'[r] = IF dropped = {} THEN Waiting ELSE R
        /\ \A t \in Task \ {r} : task'[t] = task[t]
    BY <1>1, <1>2, Slots DEF ShapeOK, Become
  <1>4. RecordOK(task'[r]) /\ task'[r].pc # "off"
    BY <1>2, <1>3, Slots DEF RecordOK
  <1>5. ASSUME NEW t \in Task PROVE RecordOK(task[t])'
    <2>1. RecordOK(task'[t])
      BY <1>1, <1>3, <1>4 DEF TasksOK
    <2>. QED  BY <2>1, <1>1 DEF RecordOK
  <1>6. \A t \in Task : task[t].todo \subseteq task'[t].todo
    BY <1>1, <1>3
  <1>7. \A q \in Reaper : task[q].pc # "off" => task'[q].pc # "off"
    BY <1>3, <1>4 DEF Task
  <1>8. ASSUME NEW s \in sessions, Dead(invite[s])', ~Dead(invite[s])
        PROVE  s \in task'[r].todo
    <2>1. invite[s] \in dropped
      BY <1>1, <1>8 DEF Dead
    <2>2. s \in listed /\ dropped # {}
      BY <2>1 DEF byInvite
    <2>. HIDE DEF listed, dropped
    <2>. QED  BY <2>2, <1>2, <1>3
  <1>9. aged' \subseteq Invite /\ announced' \subseteq Invite
    BY <1>1 DEF ShapeOK, invites
  <1>10. life' \in [Invite -> Life] /\ disk' \in [Invite -> Life] /\ DiskOK'
         /\ faults' \in 0 .. MaxFaults
    BY <1>1 DEF ShapeOK, DiskOK
  <1>. QED  BY <1>1, <1>3, <1>5, <1>6, <1>7, <1>8, <1>9, <1>10, LifeStep

LEMMA AgeInv ==
    ASSUME IInv, NEW i \in Invite, Age(i)
    PROVE  IInv'
  <1>1. /\ ShapeOK /\ TasksOK /\ DiskOK /\ aged' \subseteq Invite
        /\ UNCHANGED <<life, disk, unsaved, announced, running, faults,
                       sessions, invite, hello, late, task>>
    BY DEF IInv, ShapeOK, Age, tabVars
  <1>2. \A t \in Task : RecordOK(task[t])'
    BY <1>1 DEF TasksOK, RecordOK
  <1>3. \A s \in sessions : Dead(invite[s])' => Dead(invite[s])
    BY <1>1 DEF Dead
  <1>4. /\ life' \in [Invite -> Life] /\ disk' \in [Invite -> Life] /\ DiskOK'
        /\ announced' \subseteq Invite /\ task' \in [Task -> TaskRecord]
        /\ faults' \in 0 .. MaxFaults
    BY <1>1 DEF ShapeOK, DiskOK
  <1>. QED  BY <1>1, <1>2, <1>3, <1>4, LifeStep

-----------------------------------------------------------------------------
(* Sessions come and go.                                                   *)

\* Who drops a session crosses it off no list but its own.
LEMMA DropStep ==
    ASSUME IInv, NEW x, DropSession(x),
           UNCHANGED <<hubVars, faults>>,
           task' \in [Task -> TaskRecord],
           \A t \in Task : RecordOK(task'[t]) /\ task[t].todo \ {x} \subseteq task'[t].todo,
           \A r \in Reaper : task[r].pc # "off" => task'[r].pc # "off",
           hello' \in [Session -> {"off", "keys", "evict"}],
           \A s \in Session : hello'[s] = "keys" => hello[s] = "keys"
    PROVE  IInv'
  <1>1. /\ sessions' \subseteq Session /\ sessions' = sessions \ {x}
        /\ invite' \in [Session -> Invite \cup {None}]
        /\ \A s \in Session : (s = x /\ s \in sessions) \/ invite'[s] = invite[s]
        /\ late' = late \ {x}
    BY DropOK
  <1>2. /\ ShapeOK /\ DiskOK /\ ReaperOK /\ InvitesOK /\ DeadSessionsGo
        /\ UNCHANGED <<life, disk, unsaved, aged, announced, running, faults>>
    BY DEF IInv, hubVars
  <1>3. ShapeOK' /\ DiskOK' /\ ReaperOK'
    BY <1>1, <1>2 DEF ShapeOK, DiskOK, ReaperOK
  <1>4. TasksOK'
    BY <1>2 DEF TasksOK, RecordOK
  <1>5. InvitesOK'
    <2>. SUFFICES ASSUME NEW s \in Session
         PROVE  /\ s \in sessions' \/ hello'[s] = "keys" => invite'[s] \in Invite
                /\ hello'[s] = "keys" => s \notin sessions'
      BY DEF InvitesOK
    <2>. QED  BY <1>1, <1>2 DEF InvitesOK
  <1>6. DeadSessionsGo'
    <2>. SUFFICES ASSUME NEW s \in sessions', Dead(invite'[s])
         PROVE  s \in late' \/ \E t \in Task : s \in task'[t].todo
      BY <1>2 DEF DeadSessionsGo, Dead
    <2>1. s \in sessions /\ s # x /\ s \in Session /\ invite'[s] = invite[s]
      BY <1>1
    <2>2. s \in late \/ \E t \in Task : s \in task[t].todo
      BY <2>1, <1>2 DEF DeadSessionsGo, Dead
    <2>. QED  BY <2>1, <2>2, <1>1
  <1>. QED  BY <1>3, <1>4, <1>5, <1>6 DEF IInv

LEMMA DropNextInv ==
    ASSUME IInv, NEW t \in Task, NEW s \in Session, DropNext(t, s)
    PROVE  IInv'
  <1>. DEFINE R == [task[t] EXCEPT !.todo = @ \ {s}]
  <1>1. /\ ShapeOK /\ TasksOK /\ task[t] \in TaskRecord /\ RecordOK(task[t])
        /\ DropSession(s) /\ Become(t, R) /\ UNCHANGED <<hubVars, hello, faults>>
    BY DEF IInv, ShapeOK, TasksOK, DropNext
  <1>2. /\ R \in TaskRecord /\ R.todo = task[t].todo \ {s} /\ R.pc = task[t].pc
        /\ R.goal = task[t].goal /\ R.inv = task[t].inv
    BY <1>1 DEF TaskRecord
  <1>. HIDE DEF R
  <1>3. /\ task' \in [Task -> TaskRecord] /\ task'[t] = R
        /\ \A u \in Task \ {t} : task'[u] = task[u]
    BY <1>1, <1>2 DEF ShapeOK, Become
  <1>4. RecordOK(R)
    BY <1>1, <1>2 DEF RecordOK
  <1>5. \A u \in Task : /\ RecordOK(task'[u]) /\ task[u].todo \ {s} \subseteq task'[u].todo
                        /\ task'[u].pc = task[u].pc
    BY <1>1, <1>2, <1>3, <1>4 DEF TasksOK
  <1>6. /\ hello' \in [Session -> {"off", "keys", "evict"}]
        /\ \A q \in Session : hello'[q] = "keys" => hello[q] = "keys"
    BY <1>1 DEF ShapeOK
  <1>7. \A r \in Reaper : task[r].pc # "off" => task'[r].pc # "off"
    BY <1>5 DEF Task
  <1>. QED  BY <1>1, <1>3, <1>5, <1>6, <1>7, DropStep

LEMMA ByeInv ==
    ASSUME IInv, NEW s \in Session, Bye(s)
    PROVE  IInv'
  <1>1. DropSession(s) /\ UNCHANGED <<hubVars, hello, task, faults>>
    BY DEF Bye
  <1>2. /\ task' \in [Task -> TaskRecord]
        /\ \A t \in Task : RecordOK(task'[t]) /\ task[t].todo \ {s} \subseteq task'[t].todo
        /\ hello' \in [Session -> {"off", "keys", "evict"}]
    BY <1>1 DEF IInv, ShapeOK, TasksOK
  <1>. QED  BY <1>1, <1>2, DropStep

LEMMA HelloEvictInv ==
    ASSUME IInv, NEW s \in Session, HelloEvict(s)
    PROVE  IInv'
  <1>1. /\ DropSession(evict[s]) /\ UNCHANGED <<hubVars, task, faults>>
        /\ hello' = [hello EXCEPT ![s] = "off"]
    BY DEF HelloEvict
  <1>2. /\ hello' \in [Session -> {"off", "keys", "evict"}]
        /\ \A q \in Session : hello'[q] = "keys" => hello[q] = "keys"
    BY <1>1 DEF IInv, ShapeOK
  <1>3. PICK x : x = evict[s]
    OBVIOUS
  <1>4. /\ task' \in [Task -> TaskRecord]
        /\ \A t \in Task : RecordOK(task'[t]) /\ task[t].todo \ {x} \subseteq task'[t].todo
    BY <1>1 DEF IInv, ShapeOK, TasksOK
  <1>5. DropSession(x)
    BY <1>1, <1>3
  <1>. QED  BY <1>1, <1>2, <1>4, <1>5, DropStep

\* The hello of a session that is not in the table yet.
LEMMA HelloStepInv ==
    ASSUME IInv, NEW s \in Session,
           HelloRefused(s) \/ HelloInsert(s) \/ \E i \in Invite : HelloCheck(s, i)
    PROVE  IInv'
  <1>1. /\ ShapeOK /\ DiskOK /\ ReaperOK /\ TasksOK /\ InvitesOK /\ DeadSessionsGo
        /\ UNCHANGED <<life, aged, announced, running, task>>
    BY DEF IInv, HelloRefused, HelloInsert, HelloCheck, hubVars
  <1>2. ReaperOK' /\ TasksOK'
    BY <1>1 DEF ReaperOK, TasksOK, RecordOK
  <1>3. disk' \in [Invite -> Life] /\ DiskOK' /\ faults' \in 0 .. MaxFaults
    <2>1. life' \in [Invite -> Life]
      BY <1>1 DEF ShapeOK
    <2>2. CASE saveLocked
      BY <2>1, <2>2, <1>1, SaveOK
    <2>3. CASE UNCHANGED <<disk, unsaved, faults>>
      BY <2>3, <1>1 DEF DiskOK, ShapeOK
    <2>. QED  BY <2>2, <2>3 DEF HelloRefused, HelloInsert, HelloCheck, hubVars
  <1>4. CASE HelloRefused(s)
    <2>1. /\ hello[s] = "keys" /\ hello' = [hello EXCEPT ![s] = "off"]
          /\ invite' = [invite EXCEPT ![s] = None]
          /\ sessions' = sessions /\ late' = late /\ s \notin sessions
      BY <1>1, <1>4 DEF HelloRefused, InvitesOK
    <2>2. ShapeOK' /\ InvitesOK'
      BY <2>1, <1>1, <1>3 DEF ShapeOK, InvitesOK
    <2>3. DeadSessionsGo'
      BY <2>1, <1>1 DEF ShapeOK, DeadSessionsGo, Dead
    <2>. QED  BY <2>2, <2>3, <1>2, <1>3 DEF IInv
  <1>5. CASE HelloInsert(s)
    <2>1. /\ hello[s] = "keys" /\ invite' = invite /\ sessions' = sessions \cup {s}
          /\ hello' \in [Session -> {"off", "keys", "evict"}]
          /\ hello'[s] # "keys" /\ \A q \in Session \ {s} : hello'[q] = hello[q]
          /\ late' = IF Dead(invite[s]) THEN late \cup {s} ELSE late
      BY <1>1, <1>5 DEF HelloInsert, ShapeOK
    <2>2. ShapeOK' /\ InvitesOK'
      BY <2>1, <1>1, <1>3 DEF ShapeOK, InvitesOK
    <2>3. DeadSessionsGo'
      BY <2>1, <1>1 DEF DeadSessionsGo, Dead
    <2>. QED  BY <2>2, <2>3, <1>2, <1>3 DEF IInv
  <1>6. ASSUME NEW i \in Invite, HelloCheck(s, i) PROVE IInv'
    <2>1. /\ s \notin sessions /\ hello' = [hello EXCEPT ![s] = "keys"]
          /\ invite' = [invite EXCEPT ![s] = i]
          /\ sessions' = sessions /\ late' = late
      BY <1>6 DEF HelloCheck, Free
    <2>2. ShapeOK' /\ InvitesOK'
      BY <2>1, <1>1, <1>3 DEF ShapeOK, InvitesOK
    <2>3. DeadSessionsGo'
      BY <2>1, <1>1 DEF ShapeOK, DeadSessionsGo, Dead
    <2>. QED  BY <2>2, <2>3, <1>2, <1>3 DEF IInv
  <1>. QED  BY <1>4, <1>5, <1>6

LEMMA RestartInv ==
    ASSUME IInv, Restart
    PROVE  IInv'
  <1>1. PICK torn \in BOOLEAN, r \in Reaper :
           LET known == IF torn THEN Torn(disk) ELSE disk
               live == \E i \in Invite : known[i] = "kept" /\ i \notin aged
           IN  /\ life' = known /\ disk' = known /\ unsaved' = FALSE
               /\ running' \in {FALSE, live}
               /\ task' = [t \in Task |-> IF running' /\ t = r THEN Waiting ELSE Off]
    BY DEF Restart
  <1>2. /\ life' = disk' /\ unsaved' = FALSE
        /\ task' = [t \in Task |-> IF running' /\ t = r THEN Waiting ELSE Off]
    BY <1>1
  <1>3. life' \in [Invite -> Life] /\ disk' \in [Invite -> Life]
    <2>1. Torn(disk) \in [Invite -> Life] /\ disk \in [Invite -> Life]
      BY DEF IInv, ShapeOK, Torn, Life
    <2>. QED  BY <1>1, <2>1
  <1>4. /\ announced' = {} /\ sessions' = {} /\ aged' \subseteq aged
        /\ invite' = [q \in Session |-> None] /\ hello' = [q \in Session |-> "off"]
    BY DEF Restart
  <1>5. faults' \in 0 .. MaxFaults
    BY FailOK DEF Restart, IInv, ShapeOK
  <1>6. task' \in [Task -> TaskRecord] /\ TasksOK'
    BY <1>2, Slots DEF TasksOK, RecordOK
  <1>7. ShapeOK'
    BY <1>3, <1>4, <1>5, <1>6 DEF IInv, ShapeOK
  <1>8. ReaperOK'
    <2>. SUFFICES ASSUME running' PROVE task'[r].pc # "off"
      BY DEF ReaperOK
    <2>. QED  BY <1>2, Slots DEF Task
  <1>9. DiskOK' /\ InvitesOK' /\ DeadSessionsGo'
    BY <1>2, <1>4 DEF DiskOK, InvitesOK, DeadSessionsGo
  <1>. QED  BY <1>6, <1>7, <1>8, <1>9 DEF IInv

-----------------------------------------------------------------------------
(* The theorems about overlapping requests.                                *)

LEMMA NextInv == IInv /\ [Next]_vars => IInv'
  <1>. SUFFICES ASSUME IInv, [Next]_vars PROVE IInv'
    OBVIOUS
  <1>1. ASSUME NEW p \in Op, Request(p) PROVE IInv'
    <2>1. CASE CreateStart(p)
      BY <2>1, BeginInv DEF CreateStart
    <2>2. ASSUME NEW i \in Invite, RegenerateStart(p, i) PROVE IInv'
      BY <2>2, BeginInv DEF RegenerateStart
    <2>. QED  BY <1>1, <2>1, <2>2, RevokeStartInv, CloseStartInv DEF Request
  <1>2. ASSUME NEW p \in Op, OpStep(p) PROVE IInv'
    BY <1>2, EnsureServerInv, GiveUpInv, CreateInsertInv, ForgetInv DEF OpStep
  <1>3. ASSUME NEW t \in Task, TeardownStep(t) PROVE IInv'
    BY <1>3, DropNextInv, DropsDoneInv, StopServerInv DEF TeardownStep
  <1>4. ASSUME NEW s \in Session, HelloStep(s) \/ \E i \in Invite : HelloCheck(s, i)
        PROVE  IInv'
    BY <1>4, HelloStepInv, HelloEvictInv DEF HelloStep
  <1>5. CASE UNCHANGED vars
    BY <1>5 DEF vars, IInv, ShapeOK, DiskOK, ReaperOK, TasksOK, RecordOK, InvitesOK,
       DeadSessionsGo, Dead
  <1>. QED  BY <1>1, <1>2, <1>3, <1>4, <1>5, TickInv, SweepExpiredInv, AgeInv, ByeInv, RestartInv
            DEF Next

\* The invariant that the theorems below rest on.
THEOREM HubInvariant == Spec => []IInv
  <1>. QED  BY InitInv, NextInv, PTL DEF Spec

\* A gateway that runs has a reap loop, however starts, stops and ticks overlap.
THEOREM ReaperAlwaysRuns == Spec => []ReaperRuns
  <1>1. IInv => ReaperRuns
    BY Slots DEF IInv, ReaperOK, ReaperRuns
  <1>. QED  BY <1>1, HubInvariant, PTL

\* The sessions of an invite that was revoked, removed or found expired are about
\* to be dropped, those apart that its hello let in before.
THEOREM DeadSessionsAlwaysGo == Spec => []DeadSessionsGo
  <1>1. IInv => DeadSessionsGo
    BY DEF IInv
  <1>. QED  BY <1>1, HubInvariant, PTL

\* No crash, restart or request makes an invite work again that had stopped to,
\* a restart apart that finds it in a file whose last write had failed.
THEOREM NeverWorksAgain == Spec => NeverUsableAgain
  <1>1. ASSUME IInv, [Next]_vars, NEW i \in Invite, life[i] # "unused", usable(i)'
        PROVE  usable(i) \/ (Restart /\ unsaved /\ disk[i] = "kept")
    <2>1. DiskOK /\ ShapeOK
      BY <1>1 DEF IInv
    <2>2. CASE Restart
      <3>1. PICK torn \in BOOLEAN :
               /\ life' = IF torn THEN Torn(disk) ELSE disk
               /\ aged' = {k \in aged : (IF torn THEN Torn(disk) ELSE disk)[k] # "unused"}
        BY <2>2 DEF Restart
      <3>2. life'[i] = "kept" /\ i \notin aged'
        BY <1>1 DEF usable
      <3>3. ~torn
        BY <3>1, <3>2 DEF Torn
      <3>4. disk[i] = "kept" /\ i \notin aged
        BY <3>1, <3>2, <3>3
      <3>. QED  BY <2>1, <2>2, <3>4 DEF usable, DiskOK
    <2>3. ASSUME life' = life, aged \subseteq aged' PROVE usable(i)
      BY <2>3, <1>1 DEF usable
    <2>4. ASSUME NEW k \in Invite, life[k] = "unused" \/ life'[k] # "kept", aged' = aged,
                 \A l \in Invite \ {k} : life'[l] = life[l]
          PROVE  usable(i)
      BY <2>4, <1>1 DEF usable
    <2>5. ASSUME NEW p \in Op, Request(p) PROVE usable(i)
      <3>1. ASSUME NEW k \in Invite, NEW goal, RevokeStart(p, k, goal) PROVE usable(i)
        BY <3>1, <2>1, <2>4 DEF RevokeStart, ShapeOK
      <3>. QED  BY <2>3, <2>5, <3>1 DEF Request, CreateStart, RegenerateStart, CloseStart, hubVars
    <2>6. ASSUME NEW p \in Op, OpStep(p) PROVE usable(i)
      <3>1. ASSUME NEW k \in Invite, CreateInsert(p, k) PROVE usable(i)
        BY <3>1, <2>1, <2>4 DEF CreateInsert, ShapeOK
      <3>2. CASE Forget(p)
        BY <3>2, <2>1, <2>3, <2>4 DEF Forget, ShapeOK, invites
      <3>. QED  BY <2>3, <2>6, <3>1, <3>2
                DEF OpStep, EnsureServer, ListenFails, KitFails, RegenerateDone, hubVars
    <2>7. ASSUME NEW t \in Task, TeardownStep(t) PROVE usable(i)
      BY <2>3, <2>7 DEF TeardownStep, DropNext, DropsDone, StopServer, hubVars
    <2>8. ASSUME NEW r \in Reaper, Tick(r) \/ SweepExpired(r) PROVE usable(i)
      BY <2>3, <2>8 DEF Tick, SweepExpired, hubVars
    <2>9. ASSUME NEW k \in Invite, Age(k) PROVE usable(i)
      BY <2>3, <2>9 DEF Age
    <2>10. ASSUME NEW s \in Session, Bye(s) \/ HelloStep(s) \/ \E k \in Invite : HelloCheck(s, k)
           PROVE  usable(i)
      BY <2>3, <2>10 DEF Bye, HelloStep, HelloRefused, HelloInsert, HelloEvict, HelloCheck, hubVars
    <2>11. CASE UNCHANGED vars
      BY <2>3, <2>11 DEF vars
    <2>. QED  BY <1>1, <2>2, <2>5, <2>6, <2>7, <2>8, <2>9, <2>10, <2>11 DEF Next
  <1>2. ASSUME IInv, [Next]_vars
        PROVE  [\A i \in Invite :
                   life[i] # "unused" /\ ~usable(i) /\ usable(i)' =>
                      Restart /\ unsaved /\ disk[i] = "kept"]_vars
    BY <1>1, <1>2
  <1>. QED  BY <1>2, HubInvariant, PTL DEF Spec, NeverUsableAgain

-----------------------------------------------------------------------------
(* Types, the order of creation and the tab to evict among them.           *)

RestOK ==
    /\ unsaved \in BOOLEAN /\ running \in BOOLEAN
    /\ before \in [Session -> SUBSET Session]
    /\ evict \in [Session -> Session \cup {None}]
    /\ late \subseteq sessions
    /\ unseen \subseteq Task \X Invite

\* A session that is dropped leaves its place in the order.
LEMMA DropRest ==
    ASSUME RestOK, NEW x, DropSession(x), UNCHANGED <<unsaved, running, unseen>>,
           evict' \in [Session -> Session \cup {None}]
    PROVE  RestOK'
  <1>1. before' \in [Session -> SUBSET Session] /\ late' \subseteq sessions'
    BY DEF RestOK, DropSession, Gone
  <1>. QED  BY <1>1 DEF RestOK

LEMMA InitRest == Init => RestOK
  BY DEF Init, RestOK

LEMMA NextRest == IInv /\ RestOK /\ [Next]_vars => RestOK'
  <1>. SUFFICES ASSUME IInv, RestOK, [Next]_vars PROVE RestOK'
    OBVIOUS
  <1>1. ASSUME UNCHANGED tabVars, unsaved' \in BOOLEAN, running' \in BOOLEAN,
               unseen' \subseteq Task \X Invite
        PROVE  RestOK'
    BY <1>1 DEF RestOK, tabVars
  <1>2. saveLocked => unsaved' \in BOOLEAN
    BY DEF saveLocked
  <1>3. ASSUME NEW p \in Op, Request(p) \/ OpStep(p) PROVE RestOK'
    <2>1. ASSUME NEW i \in Invite, NEW goal, RevokeStart(p, i, goal) PROVE RestOK'
      BY <1>1, <1>2, <2>1 DEF RevokeStart, RestOK
    <2>2. CASE CreateStart(p) \/ CloseStart(p) \/ \E i \in Invite : RegenerateStart(p, i)
      BY <1>1, <2>2 DEF CreateStart, CloseStart, RegenerateStart, hubVars, RestOK
    <2>3. CASE ListenFails(p) \/ KitFails(p) \/ RegenerateDone(p)
      BY <1>1, <2>3 DEF ListenFails, KitFails, RegenerateDone, hubVars, RestOK
    <2>4. CASE EnsureServer(p)
      BY <1>1, <2>4 DEF EnsureServer, Listen, RestOK
    <2>5. CASE Forget(p) \/ \E i \in Invite : CreateInsert(p, i)
      BY <1>1, <1>2, <2>5 DEF Forget, CreateInsert, RestOK
    <2>. QED  BY <1>3, <2>1, <2>2, <2>3, <2>4, <2>5 DEF Request, OpStep
  <1>4. ASSUME NEW t \in Task, TeardownStep(t) PROVE RestOK'
    <2>1. ASSUME NEW s \in Session, DropNext(t, s) PROVE RestOK'
      BY <2>1, DropRest DEF DropNext, RestOK, hubVars
    <2>2. CASE DropsDone(t) \/ StopServer(t)
      BY <1>1, <2>2 DEF DropsDone, StopServer, hubVars, RestOK
    <2>. QED  BY <1>4, <2>1, <2>2 DEF TeardownStep
  <1>5. ASSUME NEW r \in Reaper, Tick(r) \/ SweepExpired(r) PROVE RestOK'
    BY <1>1, <1>5 DEF Tick, SweepExpired, hubVars, RestOK
  <1>6. ASSUME NEW i \in Invite, Age(i) PROVE RestOK'
    BY <1>1, <1>6 DEF Age, RestOK
  <1>7. ASSUME NEW s \in Session, Bye(s) PROVE RestOK'
    BY <1>7, DropRest DEF Bye, RestOK, hubVars
  <1>8. ASSUME NEW s \in Session, HelloEvict(s) PROVE RestOK'
    <2>1. evict' \in [Session -> Session \cup {None}] /\ UNCHANGED <<unsaved, running, unseen>>
      BY <1>8 DEF HelloEvict, RestOK, hubVars
    <2>2. PICK x : x = evict[s]
      OBVIOUS
    <2>3. DropSession(x)
      BY <1>8, <2>2 DEF HelloEvict
    <2>. QED  BY <2>1, <2>3, DropRest
  <1>9. ASSUME NEW s \in Session, HelloInsert(s) PROVE RestOK'
    <2>1. Oldest(invite[s]) \subseteq Session \cup {None}
      BY DEF Oldest, byInvite, IInv, ShapeOK
    <2>2. evict' \in [Session -> Session \cup {None}]
      BY <1>9, <2>1 DEF HelloInsert, RestOK
    <2>3. /\ late' \subseteq sessions' /\ before' = before /\ UNCHANGED <<running, unseen>>
          /\ unsaved' \in BOOLEAN
      BY <1>2, <1>9 DEF HelloInsert, RestOK
    <2>. QED  BY <2>2, <2>3 DEF RestOK
  <1>10. ASSUME NEW s \in Session, HelloRefused(s) PROVE RestOK'
    BY <1>10 DEF HelloRefused, Gone, RestOK, hubVars
  <1>11. ASSUME NEW s \in Session, NEW i \in Invite, HelloCheck(s, i) PROVE RestOK'
    BY <1>11 DEF HelloCheck, RestOK, hubVars
  <1>12. CASE Restart
    BY <1>12 DEF Restart, RestOK
  <1>13. CASE UNCHANGED vars
    BY <1>13 DEF vars, RestOK
  <1>. QED  BY <1>3, <1>4, <1>5, <1>6, <1>7, <1>8, <1>9, <1>10, <1>11, <1>12, <1>13
            DEF Next, HelloStep

\* Every part of the gateway's bookkeeping keeps its type.
THEOREM HubTypes == Spec => []TypeOK
  <1>1. Init => IInv /\ RestOK
    BY InitInv, InitRest
  <1>2. IInv /\ RestOK /\ [Next]_vars => (IInv /\ RestOK)'
    BY NextInv, NextRest
  <1>3. IInv /\ RestOK => TypeOK
    BY DEF IInv, ShapeOK, RestOK, TypeOK
  <1>. QED  BY <1>1, <1>2, <1>3, PTL DEF Spec

-----------------------------------------------------------------------------
(* The number of invites.                                                  *)

creating == {p \in Op : task[p].goal = "create"}
onFile == {i \in Invite : disk[i] \in {"kept", "revoked"}}
room == MaxInvites + Cardinality(Op) - 1

\* The invites, those that requests in progress will file included.
CapOK ==
    /\ IsFiniteSet(invites) /\ IsFiniteSet(onFile)
    /\ Cardinality(invites) + Cardinality(creating) <= room
    /\ Cardinality(onFile) <= room

LEMMA Creators ==
    /\ IsFiniteSet(creating) /\ Cardinality(creating) \in Nat
    /\ Cardinality(creating) <= Cardinality(Op)
    /\ Cardinality(Op) \in Nat /\ MaxInvites \in Nat /\ MaxInvites >= 1
    /\ room \in Nat \/ room = MaxInvites - 1
  <1>1. creating \subseteq Op /\ IsFiniteSet(Op)
    BY TaskAssumption DEF creating
  <1>2. IsFiniteSet(creating) /\ Cardinality(creating) <= Cardinality(Op)
    BY <1>1, FS_Subset
  <1>. QED  BY <1>1, <1>2, FS_CardinalityType, LimitAssumption DEF room

\* A step that adds neither an invite nor a Create.
LEMMA CapStep ==
    ASSUME CapOK, invites' \subseteq invites, creating' \subseteq creating,
           onFile' \subseteq onFile \/ onFile' \subseteq invites
    PROVE  CapOK'
  <1>1. /\ IsFiniteSet(invites') /\ Cardinality(invites') <= Cardinality(invites)
        /\ IsFiniteSet(creating') /\ Cardinality(creating') <= Cardinality(creating)
    BY Creators, FS_Subset DEF CapOK
  <1>2. /\ IsFiniteSet(onFile')
        /\ Cardinality(onFile') <= Cardinality(onFile)
           \/ Cardinality(onFile') <= Cardinality(invites)
    BY FS_Subset DEF CapOK
  <1>3. /\ Cardinality(invites) \in Nat /\ Cardinality(invites') \in Nat
        /\ Cardinality(onFile) \in Nat /\ Cardinality(onFile') \in Nat
        /\ Cardinality(creating) \in Nat /\ Cardinality(creating') \in Nat
    BY <1>1, <1>2, Creators, FS_CardinalityType DEF CapOK
  <1>4. room \in Int /\ room' = room
    BY Creators DEF room
  <1>5. /\ Cardinality(invites') + Cardinality(creating') <= room
        /\ Cardinality(onFile') <= room
    BY <1>1, <1>2, <1>3, <1>4 DEF CapOK
  <1>. QED  BY <1>1, <1>2, <1>4, <1>5 DEF CapOK

\* What a write of the file leaves in it.
LEMMA SavedFile ==
    ASSUME ShapeOK, saveLocked, life' \in [Invite -> Life]
    PROVE  onFile' \subseteq onFile \/ onFile' \subseteq invites'
  <1>1. CASE disk' = life'
    BY <1>1 DEF onFile, invites
  <1>2. CASE disk' = disk
    BY <1>2 DEF onFile
  <1>3. CASE disk' = Torn(life')
    BY <1>3 DEF Torn, onFile
  <1>. QED  BY <1>1, <1>2, <1>3 DEF saveLocked

\* A task that goes on, as another kind of request than Create or as before.
LEMMA NoNewCreate ==
    ASSUME ShapeOK, NEW t \in Task, NEW r, Become(t, r),
           r.goal = "create" => task[t].goal = "create"
    PROVE  creating' \subseteq creating
  <1>1. task'[t] = r /\ \A u \in Task \ {t} : task'[u] = task[u]
    BY DEF ShapeOK, Become
  <1>. QED  BY <1>1 DEF creating, Task

\* Create looks at the number of invites; the others in progress may have too.
LEMMA CapStart ==
    ASSUME IInv, CapOK, NEW p \in Op, CreateStart(p)
    PROVE  CapOK'
  <1>1. UNCHANGED <<life, disk>> /\ Cardinality(invites) < MaxInvites
    BY DEF CreateStart, hubVars
  <1>2. invites' = invites /\ onFile' = onFile /\ creating' \subseteq Op
    BY <1>1 DEF invites, onFile, creating
  <1>3. IsFiniteSet(creating') /\ Cardinality(creating') <= Cardinality(Op)
    BY <1>2, TaskAssumption, FS_Subset
  <1>4. Cardinality(invites) \in Nat /\ Cardinality(creating') \in Nat
    BY <1>3, FS_CardinalityType DEF CapOK
  <1>5. Cardinality(invites) + Cardinality(creating') <= room
    BY <1>1, <1>3, <1>4, Creators DEF room
  <1>. QED  BY <1>2, <1>5 DEF CapOK, room

\* The invite is filed, and one Create less is in progress.
LEMMA CapInsert ==
    ASSUME IInv, CapOK, NEW p \in Op, NEW i \in Invite, CreateInsert(p, i)
    PROVE  CapOK'
  <1>1. /\ ShapeOK /\ Become(p, Off) /\ task[p].goal = "create" /\ saveLocked
        /\ life' = [life EXCEPT ![i] = "kept"] /\ life[i] = "unused"
    BY DEF IInv, CreateInsert
  <1>2. life' \in [Invite -> Life]
    BY <1>1 DEF ShapeOK, Life
  <1>3. invites' = invites \cup {i}
    BY <1>1 DEF ShapeOK, invites
  <1>4. creating' = creating \ {p} /\ p \in creating
    <2>1. task'[p] = Off /\ \A u \in Task \ {p} : task'[u] = task[u]
      BY <1>1 DEF ShapeOK, Become, Task
    <2>. QED  BY <1>1, <2>1, Slots DEF creating, Task
  <1>5. /\ IsFiniteSet(invites') /\ Cardinality(invites') <= Cardinality(invites) + 1
        /\ Cardinality(invites) \in Nat /\ Cardinality(invites') \in Nat
    <2>1. IsFiniteSet(invites) /\ Cardinality(invites) \in Nat
      BY FS_CardinalityType DEF CapOK
    <2>2. /\ IsFiniteSet(invites \cup {i})
          /\ Cardinality(invites \cup {i}) = IF i \in invites THEN Cardinality(invites)
                                             ELSE Cardinality(invites) + 1
      BY <2>1, FS_AddElement
    <2>. QED  BY <1>3, <2>1, <2>2
  <1>6. Cardinality(creating') = Cardinality(creating) - 1 /\ Cardinality(creating') \in Nat
    BY <1>4, Creators, FS_RemoveElement, FS_CardinalityType
  <1>7. room \in Int /\ room' = room
    BY Creators DEF room
  <1>8. Cardinality(invites') + Cardinality(creating') <= room
    BY <1>5, <1>6, <1>7, Creators DEF CapOK
  <1>9. IsFiniteSet(onFile') /\ Cardinality(onFile') <= room
    <2>1. CASE onFile' \subseteq onFile
      <3>1. /\ IsFiniteSet(onFile') /\ Cardinality(onFile') <= Cardinality(onFile)
            /\ Cardinality(onFile') \in Nat /\ Cardinality(onFile) \in Nat
        BY <2>1, FS_Subset, FS_CardinalityType DEF CapOK
      <3>. QED  BY <3>1, <1>7 DEF CapOK
    <2>2. CASE onFile' \subseteq invites'
      <3>1. /\ IsFiniteSet(onFile') /\ Cardinality(onFile') <= Cardinality(invites')
            /\ Cardinality(onFile') \in Nat
        BY <2>2, <1>5, FS_Subset, FS_CardinalityType
      <3>. QED  BY <3>1, <1>5, <1>6, <1>7, <1>8
    <2>. QED  BY <2>1, <2>2, <1>1, <1>2, SavedFile
  <1>. QED  BY <1>5, <1>7, <1>8, <1>9 DEF CapOK

\* After a restart, what the file had; no request is in progress.
LEMMA CapRestart ==
    ASSUME IInv, CapOK, Restart
    PROVE  CapOK'
  <1>1. PICK torn \in BOOLEAN, r \in Reaper :
           LET known == IF torn THEN Torn(disk) ELSE disk
           IN  /\ life' = known /\ disk' = known
               /\ task' = [t \in Task |-> IF running' /\ t = r THEN Waiting ELSE Off]
    BY DEF Restart
  <1>2. onFile' \subseteq onFile /\ invites' = onFile'
    BY <1>1 DEF onFile, invites, Torn
  <1>3. creating' = {}
    BY <1>1, Slots DEF creating, Task
  <1>4. /\ IsFiniteSet(onFile') /\ Cardinality(onFile') <= Cardinality(onFile)
        /\ Cardinality(onFile') \in Nat /\ Cardinality(onFile) \in Nat
    BY <1>2, FS_Subset, FS_CardinalityType DEF CapOK
  <1>5. Cardinality(creating') = 0
    BY <1>3, FS_EmptySet
  <1>6. room \in Int /\ room' = room
    BY Creators DEF room
  <1>. QED  BY <1>2, <1>4, <1>5, <1>6 DEF CapOK

LEMMA CapInit == Init => CapOK
  <1>. SUFFICES ASSUME Init PROVE CapOK
    OBVIOUS
  <1>1. invites = {} /\ onFile = {} /\ creating = {}
    BY Slots DEF Init, invites, onFile, creating, Task
  <1>. QED  BY <1>1, FS_EmptySet, Creators DEF CapOK, room

LEMMA CapNext == IInv /\ CapOK /\ [Next]_vars => CapOK'
  <1>. SUFFICES ASSUME IInv, CapOK, [Next]_vars PROVE CapOK'
    OBVIOUS
  <1>1. ShapeOK /\ task \in [Task -> TaskRecord]
    BY DEF IInv, ShapeOK
  <1>2. ASSUME UNCHANGED <<life, disk>>, creating' \subseteq creating PROVE CapOK'
    BY <1>2, CapStep DEF invites, onFile
  <1>3. ASSUME saveLocked, NEW i \in Invite, NEW d \in Life \ {"kept", "unused"},
               i \in invites, life' = [life EXCEPT ![i] = d], creating' \subseteq creating
        PROVE  CapOK'
    <2>1. life' \in [Invite -> Life] /\ invites' \subseteq invites
      BY <1>1, <1>3 DEF ShapeOK, invites
    <2>2. onFile' \subseteq onFile \/ onFile' \subseteq invites
      BY <1>1, <1>3, <2>1, SavedFile
    <2>. QED  BY <1>3, <2>1, <2>2, CapStep
  <1>4. ASSUME NEW p \in Op, Request(p) PROVE CapOK'
    <2>. p \in Task
      BY DEF Task
    <2>1. ASSUME NEW i \in Invite, RegenerateStart(p, i) PROVE CapOK'
      <3>1. /\ Become(p, [Off EXCEPT !.pc = "ensure", !.goal = "regenerate", !.inv = i])
            /\ UNCHANGED <<life, disk>>
        BY <2>1 DEF RegenerateStart, Begin, hubVars
      <3>2. [Off EXCEPT !.pc = "ensure", !.goal = "regenerate", !.inv = i].goal # "create"
        BY DEF Off
      <3>. QED  BY <1>1, <1>2, <3>1, <3>2, NoNewCreate
    <2>2. ASSUME NEW i \in Invite, NEW goal \in {"revoke", "remove"}, RevokeStart(p, i, goal)
          PROVE  CapOK'
      <3>1. creating' \subseteq creating
        <4>1. PICK r : Become(p, r) /\ r.goal = goal
          BY <2>2 DEF RevokeStart
        <4>. QED  BY <1>1, <4>1, NoNewCreate
      <3>. QED  BY <1>3, <2>2, <3>1 DEF RevokeStart, Life
    <2>3. CASE CloseStart(p)
      <3>1. PICK r : Become(p, r) /\ r.goal = "close"
        BY <2>3 DEF CloseStart
      <3>. QED  BY <1>1, <1>2, <2>3, <3>1, NoNewCreate DEF CloseStart, hubVars
    <2>. QED  BY <1>4, <2>1, <2>2, <2>3, CapStart DEF Request
  <1>5. ASSUME NEW p \in Op, OpStep(p) PROVE CapOK'
    <2>. p \in Task
      BY DEF Task
    <2>1. Become(p, Off) => creating' \subseteq creating
      BY <1>1, Slots, NoNewCreate
    <2>2. CASE ListenFails(p) \/ KitFails(p) \/ RegenerateDone(p)
      BY <1>2, <2>1, <2>2 DEF ListenFails, KitFails, RegenerateDone, hubVars
    <2>3. CASE EnsureServer(p)
      <3>1. \A q \in Op : task'[q].goal = task[q].goal
        <4>1. CASE Become(p, [task[p] EXCEPT !.pc = "kit"])
          BY <1>1, <4>1 DEF Become, Task, TaskRecord
        <4>2. ASSUME NEW r \in Reaper, task' = [task EXCEPT ![p].pc = "kit", ![r] = Waiting]
              PROVE  \A q \in Op : task'[q].goal = task[q].goal
          BY <1>1, <4>2, TaskAssumption DEF Task, TaskRecord
        <4>. QED  BY <2>3, <4>1, <4>2 DEF EnsureServer
      <3>. QED  BY <1>2, <2>3, <3>1 DEF EnsureServer, creating
    <2>4. CASE Forget(p)
      <3>1. CASE task[p].inv \in invites
        BY <1>3, <2>1, <2>4, <3>1 DEF Forget, Life, invites
      <3>2. CASE task[p].inv \notin invites
        BY <1>2, <2>1, <2>4, <3>2 DEF Forget
      <3>. QED  BY <3>1, <3>2
    <2>. QED  BY <1>5, <2>2, <2>3, <2>4, CapInsert DEF OpStep
  <1>6. ASSUME NEW t \in Task, TeardownStep(t) PROVE CapOK'
    <2>1. AfterStop(t).goal = "create" => task[t].goal = "create"
      <3>1. \A c \in {"forget", "exit"} :
               [task[t] EXCEPT !.pc = c, !.last = FALSE].goal = task[t].goal
        BY <1>1 DEF TaskRecord
      <3>. QED  BY <3>1, Slots DEF AfterStop, Rest
    <2>2. ASSUME NEW s \in Session, DropNext(t, s) PROVE CapOK'
      <3>1. [task[t] EXCEPT !.todo = @ \ {s}].goal = task[t].goal
        BY <1>1 DEF TaskRecord
      <3>. QED  BY <1>1, <1>2, <2>2, <3>1, NoNewCreate DEF DropNext, hubVars
    <2>3. CASE DropsDone(t)
      <3>1. AfterDrop(t).goal = "create" => task[t].goal = "create"
        <4>1. [task[t] EXCEPT !.pc = "stop"].goal = task[t].goal
          BY <1>1 DEF TaskRecord
        <4>. QED  BY <4>1, <2>1 DEF AfterDrop
      <3>. QED  BY <1>1, <1>2, <2>3, <3>1, NoNewCreate DEF DropsDone, hubVars
    <2>4. CASE StopServer(t)
      BY <1>1, <1>2, <2>1, <2>4, NoNewCreate DEF StopServer
    <2>. QED  BY <1>6, <2>2, <2>3, <2>4 DEF TeardownStep
  <1>7. ASSUME NEW r \in Reaper, Tick(r) \/ SweepExpired(r) PROVE CapOK'
    <2>1. UNCHANGED <<life, disk>>
      BY <1>7 DEF Tick, SweepExpired, hubVars
    <2>2. \A p \in Op : task'[p] = task[p]
      BY <1>1, <1>7, TaskAssumption DEF Tick, SweepExpired, Become, Task
    <2>. QED  BY <1>2, <2>1, <2>2 DEF creating
  <1>8. ASSUME UNCHANGED <<life, task>>, saveLocked \/ UNCHANGED disk PROVE CapOK'
    <2>1. invites' = invites /\ creating' = creating /\ life' \in [Invite -> Life]
      BY <1>1, <1>8 DEF invites, creating, ShapeOK
    <2>2. onFile' \subseteq onFile \/ onFile' \subseteq invites
      BY <1>1, <1>8, <2>1, SavedFile DEF onFile
    <2>. QED  BY <2>1, <2>2, CapStep
  <1>9. ASSUME NEW i \in Invite, Age(i) PROVE CapOK'
    BY <1>8, <1>9 DEF Age
  <1>10. ASSUME NEW s \in Session, Bye(s) \/ HelloStep(s) \/ \E i \in Invite : HelloCheck(s, i)
         PROVE  CapOK'
    <2>1. UNCHANGED <<life, task>>
      BY <1>10 DEF Bye, HelloStep, HelloRefused, HelloInsert, HelloEvict, HelloCheck, hubVars
    <2>2. saveLocked \/ UNCHANGED disk
      BY <1>10 DEF Bye, HelloStep, HelloRefused, HelloInsert, HelloEvict, HelloCheck, hubVars
    <2>. QED  BY <1>8, <2>1, <2>2
  <1>11. CASE UNCHANGED vars
    BY <1>8, <1>11 DEF vars
  <1>. QED  BY <1>4, <1>5, <1>6, <1>7, <1>9, <1>10, <1>11, CapRestart DEF Next

\* There are never more invites than the limit and one for every further request
\* that can be in progress, whatever fails and whatever a restart finds on disk.
THEOREM InvitesCapped == Spec => []InviteCap
  <1>1. Init => IInv /\ CapOK
    BY InitInv, CapInit
  <1>2. IInv /\ CapOK /\ [Next]_vars => (IInv /\ CapOK)'
    BY NextInv, CapNext
  <1>3. CapOK => InviteCap
    <2>. SUFFICES ASSUME CapOK PROVE InviteCap
      OBVIOUS
    <2>1. Cardinality(invites) \in Nat
      BY FS_CardinalityType DEF CapOK
    <2>. QED  BY <2>1, Creators DEF CapOK, InviteCap, room
  <1>. QED  BY <1>1, <1>2, <1>3, PTL DEF Spec

-----------------------------------------------------------------------------
(* The number of tabs.                                                     *)

\* A hello that has no tab to drop yet has chosen none.
TabsOK ==
    /\ IsFiniteSet(sessions)
    /\ \A s \in Session : hello[s] # "evict" => evict[s] = None

settled(i) == {s \in byInvite(i) : \A h \in Session : evict[h] # s}

\* A step adds no tab to those that stay, and keeps what is to be known of hellos.
NoNewTab ==
    /\ IsFiniteSet(sessions')
    /\ \A i : settled(i)' \subseteq settled(i)

LEMMA SettledCount ==
    ASSUME IsFiniteSet(sessions), NEW i
    PROVE  /\ IsFiniteSet(byInvite(i)) /\ Cardinality(byInvite(i)) \in Nat
           /\ IsFiniteSet(settled(i)) /\ Settled(i) = Cardinality(settled(i))
           /\ Settled(i) \in Nat /\ Settled(i) <= Cardinality(byInvite(i))
  <1>1. byInvite(i) \subseteq sessions /\ settled(i) \subseteq byInvite(i)
    BY DEF byInvite, settled
  <1>. QED  BY <1>1, FS_Subset, FS_CardinalityType DEF Settled, settled

LEMMA NoGrowth ==
    ASSUME TabsOK, NoNewTab, NEW i
    PROVE  Settled(i)' <= Settled(i)
  <1>1. /\ Settled(i) = Cardinality(settled(i)) /\ IsFiniteSet(settled(i))
    BY SettledCount DEF TabsOK
  <1>2. Settled(i)' = Cardinality(settled(i)')
    BY DEF Settled, settled
  <1>. QED  BY <1>1, <1>2, FS_Subset DEF NoNewTab

\* A step that keeps sessions, their invites and the evictions to come.
LEMMA KeepTabs ==
    ASSUME TabsOK, UNCHANGED <<sessions, evict>>, \A s \in sessions : invite'[s] = invite[s]
    PROVE  NoNewTab
  BY DEF TabsOK, NoNewTab, settled, byInvite

\* A session goes, and with it the eviction that was to take it down.
LEMMA DropTabs ==
    ASSUME TabsOK, ShapeOK, NEW x, DropSession(x),
           \A s \in Session : evict'[s] = evict[s] \/ evict[s] = x
    PROVE  NoNewTab
  <1>1. /\ sessions' = sessions \ {x} /\ sessions \subseteq Session
        /\ \A s \in sessions' : invite'[s] = invite[s]
    BY DEF ShapeOK, DropSession
  <1>2. IsFiniteSet(sessions')
    BY <1>1, FS_Subset DEF TabsOK
  <1>3. ASSUME NEW i PROVE settled(i)' \subseteq settled(i)
    BY <1>1 DEF settled, byInvite
  <1>. QED  BY <1>2, <1>3 DEF NoNewTab

\* The new tab takes the place of one that stayed, unless there was room or the
\* tab it is to replace was on its way out already.
LEMMA InsertTabs ==
    ASSUME IInv, RestOK, TabsOK, NEW s \in Session, HelloInsert(s)
    PROVE  /\ TabsOK'
           /\ \A i \in Invite :
                 Settled(i)' > MaxSessions /\ Settled(i)' > Settled(i) => SharesEviction(s)
  <1>1. /\ hello[s] = "keys" /\ sessions' = sessions \cup {s} /\ invite' = invite
        /\ s \notin sessions /\ sessions \subseteq Session /\ evict[s] = None
        /\ hello \in [Session -> {"off", "keys", "evict"}]
        /\ evict \in [Session -> Session \cup {None}]
        /\ IsFiniteSet(sessions) /\ MaxSessions \in Nat
    BY LimitAssumption DEF HelloInsert, IInv, ShapeOK, RestOK, InvitesOK, TabsOK
  <1>2. PICK o \in Oldest(invite[s]) :
           /\ evict' = [evict EXCEPT ![s] = o]
           /\ hello' = [hello EXCEPT ![s] = IF o = None THEN "off" ELSE "evict"]
    BY DEF HelloInsert
  <1>3. evict'[s] = o /\ \A q \in Session \ {s} : evict'[q] = evict[q] /\ hello'[q] = hello[q]
    BY <1>1, <1>2
  <1>4. IsFiniteSet(sessions')
    BY <1>1, FS_AddElement
  <1>5. TabsOK'
    BY <1>1, <1>2, <1>3, <1>4 DEF TabsOK
  <1>6. ASSUME NEW i \in Invite, Settled(i)' > MaxSessions, Settled(i)' > Settled(i)
        PROVE  SharesEviction(s)
    <2>1. /\ IsFiniteSet(byInvite(i)) /\ Cardinality(byInvite(i)) \in Nat
          /\ IsFiniteSet(settled(i)) /\ Settled(i) = Cardinality(settled(i))
          /\ Settled(i) \in Nat
      BY <1>1, SettledCount
    <2>2. /\ settled(i)' \subseteq byInvite(i)' /\ Settled(i)' = Cardinality(settled(i)')
          /\ byInvite(i)' \subseteq byInvite(i) \cup {s}
      BY <1>1 DEF settled, byInvite, Settled
    <2>3. settled(i)' \subseteq settled(i) \cup {s}
      <3>. SUFFICES ASSUME NEW q \in settled(i)', q # s PROVE q \in settled(i)
        OBVIOUS
      <3>1. q \in byInvite(i) /\ q \in Session
        BY <2>2, <1>1 DEF byInvite
      <3>2. \A h \in Session : evict[h] # q
        BY <1>1, <1>3, <3>1, NoneAssumption DEF settled
      <3>. QED  BY <3>1, <3>2 DEF settled
    <2>4. i = invite[s]
      <3>. SUFFICES ASSUME i # invite[s] PROVE FALSE
        OBVIOUS
      <3>1. s \notin byInvite(i)'
        BY <1>1 DEF byInvite
      <3>2. settled(i)' \subseteq settled(i)
        BY <2>2, <2>3, <3>1
      <3>3. Settled(i)' <= Settled(i)
        BY <2>1, <2>2, <3>2, FS_Subset
      <3>4. Settled(i)' \in Nat
        BY <2>1, <2>2, <3>2, FS_Subset, FS_CardinalityType
      <3>. QED  BY <1>6, <2>1, <3>3, <3>4
    <2>5. CASE Cardinality(byInvite(i)) < MaxSessions
      <3>1. Cardinality(byInvite(i) \cup {s}) <= Cardinality(byInvite(i)) + 1
        <4>1. Cardinality(byInvite(i) \cup {s}) =
                 IF s \in byInvite(i) THEN Cardinality(byInvite(i))
                 ELSE Cardinality(byInvite(i)) + 1
          BY <2>1, FS_AddElement
        <4>. QED  BY <4>1, <2>1
      <3>2. IsFiniteSet(byInvite(i) \cup {s}) /\ Cardinality(byInvite(i) \cup {s}) \in Nat
        BY <2>1, FS_AddElement, FS_CardinalityType
      <3>3. /\ Cardinality(settled(i)') <= Cardinality(byInvite(i) \cup {s})
            /\ Cardinality(settled(i)') \in Nat
        BY <2>2, <3>2, FS_Subset, FS_CardinalityType
      <3>. QED  BY <1>1, <1>6, <2>1, <2>2, <2>5, <3>1, <3>2, <3>3
    <2>6. CASE ~(Cardinality(byInvite(i)) < MaxSessions)
      <3>1. o \in byInvite(i) /\ o \in Session /\ o # None /\ o # s
        BY <1>1, <1>2, <2>4, <2>6, NoneAssumption DEF Oldest, byInvite
      <3>2. CASE o \in settled(i)
        <4>1. settled(i)' \subseteq (settled(i) \ {o}) \cup {s}
          BY <1>3, <2>3 DEF settled
        <4>2. /\ IsFiniteSet(settled(i) \ {o})
              /\ Cardinality(settled(i) \ {o}) = Cardinality(settled(i)) - 1
          BY <2>1, <3>2, FS_RemoveElement
        <4>3. Cardinality(settled(i) \ {o}) \in Nat
          BY <4>2, FS_CardinalityType
        <4>4. /\ IsFiniteSet((settled(i) \ {o}) \cup {s})
              /\ Cardinality((settled(i) \ {o}) \cup {s}) <= Cardinality(settled(i) \ {o}) + 1
          <5>1. /\ IsFiniteSet((settled(i) \ {o}) \cup {s})
                /\ Cardinality((settled(i) \ {o}) \cup {s}) =
                      IF s \in settled(i) \ {o} THEN Cardinality(settled(i) \ {o})
                      ELSE Cardinality(settled(i) \ {o}) + 1
            BY <4>2, FS_AddElement
          <5>. QED  BY <5>1, <4>3
        <4>5. /\ Cardinality(settled(i)') <= Cardinality((settled(i) \ {o}) \cup {s})
              /\ Cardinality(settled(i)') \in Nat
              /\ Cardinality((settled(i) \ {o}) \cup {s}) \in Nat
          BY <4>1, <4>4, FS_Subset, FS_CardinalityType
        <4>. QED  BY <1>6, <2>1, <2>2, <4>2, <4>3, <4>4, <4>5
      <3>3. CASE o \notin settled(i)
        <4>1. PICK h \in Session : evict[h] = o
          BY <3>1, <3>3 DEF settled
        <4>. QED  BY <1>1, <1>3, <3>1, <4>1 DEF SharesEviction
      <3>. QED  BY <3>2, <3>3
    <2>. QED  BY <2>5, <2>6
  <1>. QED  BY <1>5, <1>6

LEMMA TabsInit == Init => TabsOK
  BY FS_EmptySet DEF Init, TabsOK

\* Every other step adds no tab, or ends them all.
LEMMA TabsStep ==
    ASSUME IInv, RestOK, TabsOK, [Next]_vars
    PROVE  /\ TabsOK'
           /\ \/ NoNewTab
              \/ \A i : Settled(i)' = 0
              \/ \E s \in Session : HelloInsert(s)
  <1>1. /\ ShapeOK /\ IsFiniteSet(sessions) /\ sessions \subseteq Session
        /\ hello \in [Session -> {"off", "keys", "evict"}]
        /\ evict \in [Session -> Session \cup {None}]
        /\ invite \in [Session -> Invite \cup {None}]
    BY DEF IInv, ShapeOK, RestOK, TabsOK
  <1>2. ASSUME UNCHANGED tabVars PROVE TabsOK' /\ NoNewTab
    BY <1>2, KeepTabs DEF tabVars, TabsOK
  <1>3. ASSUME NEW x, DropSession(x), UNCHANGED <<hello, evict>> PROVE TabsOK' /\ NoNewTab
    <2>1. NoNewTab
      BY <1>1, <1>3, DropTabs
    <2>. QED  BY <1>3, <2>1 DEF TabsOK, NoNewTab
  <1>4. ASSUME NEW p \in Op, Request(p) \/ OpStep(p) PROVE TabsOK' /\ NoNewTab
    <2>1. ASSUME NEW i \in Invite, NEW goal, RevokeStart(p, i, goal) PROVE TabsOK' /\ NoNewTab
      BY <1>2, <2>1 DEF RevokeStart
    <2>2. CASE Request(p)
      BY <1>2, <2>1, <2>2 DEF Request, CreateStart, RegenerateStart, CloseStart
    <2>3. CASE OpStep(p)
      BY <1>2, <2>3 DEF OpStep, EnsureServer, ListenFails, KitFails, CreateInsert,
         RegenerateDone, Forget
    <2>. QED  BY <1>4, <2>2, <2>3
  <1>5. ASSUME NEW t \in Task, TeardownStep(t) PROVE TabsOK' /\ NoNewTab
    <2>1. ASSUME NEW s \in Session, DropNext(t, s) PROVE TabsOK' /\ NoNewTab
      BY <1>3, <2>1 DEF DropNext
    <2>. QED  BY <1>2, <1>5, <2>1 DEF TeardownStep, DropsDone, StopServer
  <1>6. ASSUME NEW r \in Reaper, Tick(r) \/ SweepExpired(r) PROVE TabsOK' /\ NoNewTab
    BY <1>2, <1>6 DEF Tick, SweepExpired
  <1>7. ASSUME NEW i \in Invite, Age(i) PROVE TabsOK' /\ NoNewTab
    BY <1>2, <1>7 DEF Age
  <1>8. ASSUME NEW s \in Session, Bye(s) PROVE TabsOK' /\ NoNewTab
    BY <1>3, <1>8 DEF Bye
  <1>9. ASSUME NEW s \in Session, HelloEvict(s) PROVE TabsOK' /\ NoNewTab
    <2>1. PICK x : x = evict[s]
      OBVIOUS
    <2>2. /\ DropSession(x) /\ hello' = [hello EXCEPT ![s] = "off"]
          /\ evict' = [evict EXCEPT ![s] = None]
      BY <1>9, <2>1 DEF HelloEvict
    <2>3. \A q \in Session : evict'[q] = evict[q] \/ evict[q] = x
      BY <1>1, <2>1, <2>2
    <2>4. NoNewTab
      BY <1>1, <2>2, <2>3, DropTabs
    <2>5. \A q \in Session : hello'[q] # "evict" => evict'[q] = None
      BY <1>1, <2>2 DEF TabsOK
    <2>. QED  BY <2>4, <2>5 DEF TabsOK, NoNewTab
  <1>10. ASSUME NEW s \in Session, HelloRefused(s) \/ \E i \in Invite : HelloCheck(s, i)
         PROVE  TabsOK' /\ NoNewTab
    <2>1. /\ hello[s] # "evict" /\ s \notin sessions
          /\ hello' \in [Session -> {"off", "keys", "evict"}]
          /\ \A q \in Session \ {s} : hello'[q] = hello[q] /\ invite'[q] = invite[q]
          /\ UNCHANGED <<sessions, evict>>
      BY <1>1, <1>10 DEF HelloRefused, HelloCheck, Free, IInv, InvitesOK
    <2>2. NoNewTab
      BY <1>1, <2>1, KeepTabs
    <2>3. \A q \in Session : hello'[q] # "evict" => evict'[q] = None
      BY <2>1 DEF TabsOK
    <2>. QED  BY <2>2, <2>3 DEF TabsOK, NoNewTab
  <1>11. CASE Restart
    <2>1. sessions' = {} /\ \A q \in Session : evict'[q] = None
      BY <1>11 DEF Restart
    <2>2. TabsOK' /\ \A i : {s \in byInvite(i) : \A h \in Session : evict[h] # s}' = {}
      BY <2>1, FS_EmptySet DEF TabsOK, byInvite
    <2>. QED  BY <2>2, FS_EmptySet DEF Settled
  <1>12. CASE UNCHANGED vars
    BY <1>2, <1>12 DEF vars, tabVars
  <1>13. ASSUME NEW s \in Session, HelloInsert(s) PROVE TabsOK'
    BY <1>13, InsertTabs
  <1>. QED  BY <1>4, <1>5, <1>6, <1>7, <1>8, <1>9, <1>10, <1>11, <1>12, <1>13
            DEF Next, HelloStep

LEMMA TabsGrow ==
    ASSUME IInv, RestOK, TabsOK, [Next]_vars, NEW i \in Invite,
           Settled(i)' > MaxSessions, Settled(i)' > Settled(i)
    PROVE  \E s \in Session : SharesEviction(s)
  <1>1. CASE NoNewTab
    <2>1. Settled(i) \in Nat /\ IsFiniteSet(settled(i))
      BY SettledCount DEF TabsOK
    <2>2. Settled(i)' = Cardinality(settled(i)') /\ IsFiniteSet(settled(i)')
      BY <1>1, <2>1, FS_Subset DEF NoNewTab, Settled, settled
    <2>3. Settled(i)' \in Nat /\ Settled(i)' <= Settled(i)
      BY <1>1, <2>2, NoGrowth, FS_CardinalityType
    <2>. QED  BY <2>1, <2>3
  <1>2. CASE Settled(i)' = 0
    BY <1>2, LimitAssumption
  <1>3. ASSUME NEW s \in Session, HelloInsert(s) PROVE SharesEviction(s)
    BY <1>3, InsertTabs
  <1>. QED  BY <1>1, <1>2, <1>3, TabsStep

\* However many hellos overlap, the tabs of an invite that nobody is about to drop
\* outgrow their number only when two hellos choose the same tab to drop.
THEOREM TabsStayBounded == Spec => TabsBounded
  <1>1. Init => IInv /\ RestOK /\ TabsOK
    BY InitInv, InitRest, TabsInit
  <1>2. IInv /\ RestOK /\ TabsOK /\ [Next]_vars => (IInv /\ RestOK /\ TabsOK)'
    BY NextInv, NextRest, TabsStep
  <1>3. IInv /\ RestOK /\ TabsOK /\ [Next]_vars =>
           [\A i \in Invite :
               Settled(i)' > MaxSessions /\ Settled(i)' > Settled(i) =>
                  \E s \in Session : SharesEviction(s)]_vars
    BY TabsGrow
  <1>. QED  BY <1>1, <1>2, <1>3, PTL DEF Spec, TabsBounded

-----------------------------------------------------------------------------
(* Who closes the gateway, and who leaves it open.                         *)

\* Only a task that drops sessions or is about to close the gateway has found
\* that no invite lives. Those that live by now were filed after it had.
DecidedBy(t) ==
    /\ task[t].pc = "stop" => task[t].last
    /\ task[t].last => task[t].pc \in {"drop", "stop"}
    /\ task[t].last /\ task[t].goal # "close" =>
          \A i \in Invite : usable(i) => <<t, i>> \in unseen

DecidedOK == \A t \in Task : DecidedBy(t)

\* An expiry is announced after its date, and only an invite has one.
AgedOK == announced \subseteq aged /\ \A i \in aged : life[i] # "unused"

GateInv == DecidedOK /\ AgedOK

\* A task that goes on with what it has decided.
Keeps(t) ==
    /\ task'[t].pc = "stop" => task'[t].last
    /\ task'[t].last => task'[t].pc \in {"drop", "stop"} /\ task[t].last
    /\ task'[t].goal = task[t].goal

\* No invite comes to life, and no task comes to a decision.
LEMMA GateStep ==
    ASSUME GateInv, AgedOK',
           \A i \in Invite : usable(i)' => usable(i),
           \A t \in Task : (~task'[t].last /\ task'[t].pc # "stop") \/ Keeps(t),
           \A t \in Task : task'[t].last =>
              \A i \in Invite : <<t, i>> \in unseen => <<t, i>> \in unseen'
    PROVE  GateInv'
  <1>1. ASSUME NEW t \in Task PROVE DecidedBy(t)'
    BY DEF GateInv, DecidedOK, DecidedBy, Keeps
  <1>. QED  BY <1>1 DEF GateInv, DecidedOK

\* The same of one task, the invites untouched.
LEMMA GateBecome ==
    ASSUME IInv, GateInv, NEW t \in Task, NEW r, Become(t, r),
           UNCHANGED <<life, aged, unseen, announced>>,
           \/ ~r.last /\ r.pc # "stop"
           \/ r.last /\ task[t].last /\ r.pc \in {"drop", "stop"} /\ r.goal = task[t].goal
    PROVE  GateInv'
  <1>1. task'[t] = r /\ \A u \in Task \ {t} : task'[u] = task[u]
    BY DEF IInv, ShapeOK, Become
  <1>2. ASSUME NEW u \in Task
        PROVE  (~task'[u].last /\ task'[u].pc # "stop") \/ Keeps(u)
    BY <1>1 DEF GateInv, DecidedOK, DecidedBy, Keeps
  <1>3. AgedOK' /\ \A i \in Invite : usable(i)' => usable(i)
    BY DEF GateInv, AgedOK, usable
  <1>. QED  BY <1>2, <1>3, GateStep

LEMMA SlotsLast == ~Off.last /\ ~Waiting.last /\ Off.pc # "stop" /\ Waiting.pc # "stop"
  BY DEF Off, Waiting

\* What follows the drops keeps the decision, what follows the gateway forgets it.
LEMMA AfterLast ==
    ASSUME IInv, GateInv, NEW t \in Task
    PROVE  /\ task[t].pc \in {"drop", "stop"} =>
                 ~AfterStop(t).last /\ AfterStop(t).pc \notin {"stop", "kit"}
           /\ task[t].pc = "drop" =>
                 \/ ~task[t].last /\ AfterDrop(t) = AfterStop(t)
                 \/ /\ task[t].last /\ AfterDrop(t).last /\ AfterDrop(t).pc = "stop"
                    /\ AfterDrop(t).goal = task[t].goal
  <1>1. task[t] \in TaskRecord
    BY DEF IInv, ShapeOK
  <1>2. \A c \in {"forget", "exit"} :
           ~[task[t] EXCEPT !.pc = c, !.last = FALSE].last
           /\ [task[t] EXCEPT !.pc = c, !.last = FALSE].pc = c
    BY <1>1 DEF TaskRecord
  <1>3. ~AfterStop(t).last /\ AfterStop(t).pc \notin {"stop", "kit"}
    BY <1>2, Slots, SlotsLast DEF AfterStop, Rest
  <1>4. [task[t] EXCEPT !.pc = "stop"].last = task[t].last
        /\ [task[t] EXCEPT !.pc = "stop"].pc = "stop"
        /\ [task[t] EXCEPT !.pc = "stop"].goal = task[t].goal
    BY <1>1 DEF TaskRecord
  <1>5. CASE task[t].last
    BY <1>3, <1>4, <1>5 DEF AfterDrop
  <1>6. CASE ~task[t].last
    BY <1>3, <1>6 DEF AfterDrop
  <1>. QED  BY <1>3, <1>5, <1>6

LEMMA GateInit == Init => GateInv
  <1>. SUFFICES ASSUME Init PROVE GateInv
    OBVIOUS
  <1>1. \A t \in Task : DecidedBy(t)
    BY SlotsLast DEF Init, DecidedBy
  <1>2. AgedOK
    BY DEF Init, AgedOK
  <1>. QED  BY <1>1, <1>2 DEF GateInv, DecidedOK

\* A Create files its invite unseen by those who have decided.
LEMMA GateInsert ==
    ASSUME IInv, GateInv, NEW p \in Op, NEW i \in Invite, CreateInsert(p, i)
    PROVE  GateInv'
  <1>1. /\ life' = [life EXCEPT ![i] = "kept"] /\ life \in [Invite -> Life]
        /\ UNCHANGED <<aged, announced>> /\ p \in Task
        /\ unseen' = unseen \cup ({t \in Task : task[t].last} \X {i})
        /\ task \in [Task -> TaskRecord] /\ Become(p, Off)
    BY DEF CreateInsert, IInv, ShapeOK, Task
  <1>2. task'[p] = Off /\ \A u \in Task \ {p} : task'[u] = task[u]
    BY <1>1 DEF Become
  <1>3. ASSUME NEW t \in Task PROVE DecidedBy(t)'
    <2>1. CASE t = p
      BY <1>2, <2>1, SlotsLast DEF DecidedBy
    <2>2. CASE t # p
      <3>1. task'[t] = task[t] /\ DecidedBy(t)
        BY <1>2, <2>2 DEF GateInv, DecidedOK
      <3>2. ASSUME task[t].last, task[t].goal # "close", NEW k \in Invite, usable(k)'
            PROVE  <<t, k>> \in unseen'
        <4>1. CASE k = i
          BY <1>1, <3>2, <4>1
        <4>2. CASE k # i
          BY <1>1, <3>1, <3>2, <4>2 DEF usable, DecidedBy
        <4>. QED  BY <4>1, <4>2
      <3>. QED  BY <3>1, <3>2 DEF DecidedBy
    <2>. QED  BY <2>1, <2>2
  <1>4. AgedOK'
    BY <1>1 DEF GateInv, AgedOK
  <1>. QED  BY <1>3, <1>4 DEF GateInv, DecidedOK

\* Revoke counts under the lock that marks the invite.
LEMMA GateRevoke ==
    ASSUME IInv, GateInv, NEW p \in Op, NEW i \in Invite, NEW goal, RevokeStart(p, i, goal)
    PROVE  GateInv'
  <1>. DEFINE R == [pc |-> "drop", goal |-> goal, inv |-> i, todo |-> byInvite(i),
                    last |-> NoneLeft(i)]
  <1>1. /\ life' = [life EXCEPT ![i] = "revoked"] /\ life \in [Invite -> Life]
        /\ UNCHANGED <<aged, announced, unseen>> /\ p \in Task /\ i \in invites
        /\ task \in [Task -> TaskRecord] /\ Become(p, R)
    BY DEF RevokeStart, IInv, ShapeOK, Task
  <1>2. R.pc = "drop" /\ R.last = NoneLeft(i)
    BY Zenon
  <1>. HIDE DEF R
  <1>3. task'[p] = R /\ \A u \in Task \ {p} : task'[u] = task[u]
    BY <1>1 DEF Become
  <1>4. \A k \in Invite : usable(k)' => usable(k) /\ k # i
    BY <1>1 DEF usable
  <1>5. ASSUME NEW t \in Task PROVE DecidedBy(t)'
    <2>1. CASE t = p
      BY <1>2, <1>3, <1>4, <2>1 DEF DecidedBy, NoneLeft
    <2>2. CASE t # p
      BY <1>1, <1>3, <1>4, <2>2 DEF GateInv, DecidedOK, DecidedBy
    <2>. QED  BY <2>1, <2>2
  <1>6. AgedOK'
    BY <1>1 DEF GateInv, AgedOK
  <1>. QED  BY <1>5, <1>6 DEF GateInv, DecidedOK

LEMMA GateForget ==
    ASSUME IInv, GateInv, NEW p \in Op, Forget(p)
    PROVE  GateInv'
  <1>1. /\ p \in Task /\ task \in [Task -> TaskRecord] /\ life \in [Invite -> Life]
        /\ Become(p, Off) /\ UNCHANGED <<aged, announced, unseen>>
        /\ task[p].inv \in Invite
    BY DEF Forget, IInv, ShapeOK, TasksOK, RecordOK, Task
  <1>2. task'[p] = Off /\ \A u \in Task \ {p} : task'[u] = task[u]
    BY <1>1 DEF Become
  <1>3. \A i \in Invite : life'[i] = life[i] \/ (life[i] # "unused" /\ life'[i] = "gone")
    BY <1>1 DEF Forget, invites
  <1>4. AgedOK' /\ \A i \in Invite : usable(i)' => usable(i)
    BY <1>1, <1>3 DEF GateInv, AgedOK, usable, IInv, ShapeOK
  <1>5. ASSUME NEW u \in Task
        PROVE  (~task'[u].last /\ task'[u].pc # "stop") \/ Keeps(u)
    BY <1>2, SlotsLast DEF GateInv, DecidedOK, DecidedBy, Keeps
  <1>. QED  BY <1>1, <1>4, <1>5, GateStep

\* The gateway is closed, and the decision with it.
LEMMA GateStop ==
    ASSUME IInv, GateInv, NEW t \in Task, StopServer(t)
    PROVE  GateInv'
  <1>1. /\ task[t].pc = "stop" /\ Become(t, AfterStop(t)) /\ task \in [Task -> TaskRecord]
        /\ UNCHANGED <<life, aged, announced>> /\ unseen' = {x \in unseen : x[1] # t}
    BY DEF StopServer, IInv, ShapeOK
  <1>2. task'[t] = AfterStop(t) /\ \A u \in Task \ {t} : task'[u] = task[u]
    BY <1>1 DEF Become
  <1>3. ~AfterStop(t).last /\ AfterStop(t).pc # "stop"
    BY <1>1, AfterLast
  <1>4. ASSUME NEW u \in Task
        PROVE  (~task'[u].last /\ task'[u].pc # "stop") \/ Keeps(u)
    BY <1>2, <1>3 DEF GateInv, DecidedOK, DecidedBy, Keeps
  <1>5. AgedOK' /\ \A i \in Invite : usable(i)' => usable(i)
    BY <1>1 DEF GateInv, AgedOK, usable
  <1>6. ASSUME NEW u \in Task, task'[u].last, NEW i \in Invite, <<u, i>> \in unseen
        PROVE  <<u, i>> \in unseen'
    BY <1>1, <1>2, <1>3, <1>6
  <1>. QED  BY <1>4, <1>5, <1>6, GateStep

\* A sweep counts under the lock that announces the expiries.
LEMMA GateSweep ==
    ASSUME IInv, CapOK, GateInv, NEW r \in Reaper, SweepExpired(r)
    PROVE  /\ GateInv'
           /\ \/ announced' = announced /\ task'[r] = Waiting
              \/ task'[r].pc = "drop" /\ task'[r].last = (\A i \in Invite : ~usable(i))
  <1>. DEFINE dropped == {i \in invites : life[i] = "kept" /\ i \in aged \ announced}
              listed == UNION {byInvite(i) : i \in dropped}
              R == [Waiting EXCEPT !.pc = "drop", !.todo = listed, !.last = liveCount = 0]
  <1>1. /\ r \in Task /\ task \in [Task -> TaskRecord]
        /\ announced' = announced \cup dropped
        /\ UNCHANGED <<life, aged, unseen>>
        /\ dropped = {} => Become(r, Waiting)
        /\ dropped # {} => Become(r, R)
    BY DEF SweepExpired, IInv, ShapeOK, Task
  <1>2. (liveCount = 0) = \A i \in Invite : ~usable(i)
    <2>. DEFINE U == {i \in Invite : usable(i)}
    <2>1. U \subseteq invites /\ IsFiniteSet(invites)
      BY DEF usable, invites, CapOK
    <2>2. IsFiniteSet(U)
      BY <2>1, FS_Subset
    <2>3. (Cardinality(U) = 0) = (U = {})
      BY <2>2, FS_EmptySet
    <2>. QED  BY <2>3 DEF liveCount
  <1>3. R.pc = "drop" /\ R.last = (liveCount = 0)
    <2>. HIDE DEF listed
    <2>. DEFINE b == liveCount = 0
    <2>. HIDE DEF b
    <2>1. [Waiting EXCEPT !.pc = "drop", !.todo = listed, !.last = b].pc = "drop"
          /\ [Waiting EXCEPT !.pc = "drop", !.todo = listed, !.last = b].last = b
      BY DEF Waiting, Off
    <2>. QED  BY <2>1 DEF b
  <1>. HIDE DEF R
  <1>4. AgedOK'
    BY <1>1 DEF GateInv, AgedOK
  <1>5. CASE dropped = {}
    <2>1. Become(r, Waiting) /\ announced' = announced
      BY <1>1, <1>5
    <2>2. task'[r] = Waiting
      BY <1>1, <2>1 DEF Become
    <2>. QED  BY <1>1, <2>1, <2>2, SlotsLast, GateBecome
  <1>6. CASE dropped # {}
    <2>1. task'[r] = R /\ \A u \in Task \ {r} : task'[u] = task[u]
      BY <1>1, <1>6 DEF Become
    <2>2. \A i \in Invite : usable(i)' <=> usable(i)
      BY <1>1 DEF usable
    <2>3. ASSUME NEW t \in Task PROVE DecidedBy(t)'
      <3>1. CASE t = r
        BY <1>2, <1>3, <2>1, <2>2, <3>1 DEF DecidedBy
      <3>2. CASE t # r
        BY <1>1, <2>1, <2>2, <3>2 DEF GateInv, DecidedOK, DecidedBy
      <3>. QED  BY <3>1, <3>2
    <2>. QED  BY <1>2, <1>3, <1>4, <2>1, <2>3 DEF GateInv, DecidedOK
  <1>. QED  BY <1>5, <1>6

\* A restarted gateway serves an invite that lives.
LEMMA GateRestart ==
    ASSUME IInv, GateInv, Restart
    PROVE  GateInv' /\ (running' => \E i \in Invite : ~Dead(i)')
  <1>1. PICK torn \in BOOLEAN, r \in Reaper :
           LET known == IF torn THEN Torn(disk) ELSE disk
               live == \E i \in Invite : known[i] = "kept" /\ i \notin aged
           IN  /\ life' = known /\ running' \in {FALSE, live}
               /\ aged' = {i \in aged : known[i] # "unused"}
               /\ task' = [t \in Task |-> IF running' /\ t = r THEN Waiting ELSE Off]
    BY DEF Restart
  <1>2. /\ aged' = {i \in aged : life'[i] # "unused"} /\ announced' = {}
        /\ \A t \in Task : task'[t] \in {Off, Waiting}
        /\ running' => \E i \in Invite : life'[i] = "kept"
    BY <1>1 DEF Restart
  <1>3. AgedOK'
    BY <1>2 DEF AgedOK
  <1>4. ASSUME NEW t \in Task PROVE DecidedBy(t)'
    BY <1>2, SlotsLast DEF DecidedBy
  <1>. QED  BY <1>2, <1>3, <1>4 DEF GateInv, DecidedOK, Dead

\* A request that begins: a slot that had decided nothing, and a record.
LEMMA GateRequest ==
    ASSUME IInv, GateInv, NEW p \in Op, Request(p)
    PROVE  /\ GateInv'
           /\ \/ \E i \in Invite : RevokeStart(p, i, "revoke") \/ RevokeStart(p, i, "remove")
              \/ task'[p].last
              \/ UNCHANGED <<life, announced, running>> /\ task[p] = Off
  <1>1. p \in Task /\ task \in [Task -> TaskRecord]
    BY DEF Task, IInv, ShapeOK
  <1>2. ASSUME NEW goal, NEW i, Begin(p, goal, i), UNCHANGED hubVars
        PROVE  GateInv' /\ UNCHANGED <<life, announced, running>> /\ task[p] = Off
    <2>. DEFINE R == [Off EXCEPT !.pc = "ensure", !.goal = goal, !.inv = i]
    <2>1. Become(p, R) /\ ~R.last /\ R.pc # "stop"
      BY <1>2 DEF Begin, Off
    <2>2. UNCHANGED <<life, aged, unseen, announced, running>> /\ task[p] = Off
      BY <1>2 DEF hubVars, Begin
    <2>. HIDE DEF R
    <2>. QED  BY <1>1, <2>1, <2>2, GateBecome
  <1>3. CASE CreateStart(p)
    BY <1>2, <1>3 DEF CreateStart
  <1>4. ASSUME NEW i \in Invite, RegenerateStart(p, i)
        PROVE  GateInv' /\ UNCHANGED <<life, announced, running>> /\ task[p] = Off
    BY <1>2, <1>4 DEF RegenerateStart
  <1>5. CASE CloseStart(p)
    <2>. DEFINE R == [pc |-> "drop", goal |-> "close", inv |-> None,
                      todo |-> sessions, last |-> TRUE]
    <2>1. /\ task' = [task EXCEPT ![p] = R] /\ R.last /\ R.pc = "drop" /\ R.goal = "close"
          /\ UNCHANGED <<life, aged, unseen, announced>>
      BY <1>5 DEF CloseStart, Become, hubVars
    <2>. HIDE DEF R
    <2>2. task'[p] = R /\ \A u \in Task \ {p} : task'[u] = task[u]
      BY <1>1, <2>1
    <2>3. ASSUME NEW t \in Task PROVE DecidedBy(t)'
      <3>1. CASE t = p
        BY <2>1, <2>2, <3>1 DEF DecidedBy
      <3>2. CASE t # p
        BY <2>1, <2>2, <3>2 DEF GateInv, DecidedOK, DecidedBy, usable
      <3>. QED  BY <3>1, <3>2
    <2>4. AgedOK'
      BY <2>1 DEF GateInv, AgedOK
    <2>. QED  BY <2>1, <2>2, <2>3, <2>4 DEF GateInv, DecidedOK
  <1>. QED  BY <1>3, <1>4, <1>5, GateRevoke DEF Request

\* A request on its way starts the gateway, gives up or is done.
LEMMA GateOp ==
    ASSUME IInv, GateInv, NEW p \in Op,
           EnsureServer(p) \/ ListenFails(p) \/ KitFails(p) \/ RegenerateDone(p)
    PROVE  GateInv' /\ (EnsureServer(p) => task'[p].pc = "kit")
  <1>1. /\ p \in Task /\ task \in [Task -> TaskRecord] /\ p \notin Reaper
        /\ UNCHANGED <<life, aged, unseen, announced>>
    BY TaskAssumption
       DEF Task, IInv, ShapeOK, EnsureServer, ListenFails, KitFails, RegenerateDone, hubVars
  <1>2. CASE ~EnsureServer(p)
    <2>1. Become(p, Off)
      BY <1>2 DEF ListenFails, KitFails, RegenerateDone
    <2>. QED  BY <1>1, <1>2, <2>1, SlotsLast, GateBecome
  <1>3. CASE EnsureServer(p)
    <2>. DEFINE R == [task[p] EXCEPT !.pc = "kit"]
    <2>1. R.pc = "kit" /\ R.last = task[p].last
      BY <1>1 DEF TaskRecord
    <2>2. ~task[p].last
      BY <1>1, <1>3 DEF EnsureServer, GateInv, DecidedOK, DecidedBy
    <2>3. /\ task'[p] = R
          /\ \A u \in Task \ {p} : task'[u] = task[u] \/ task'[u] = Waiting
      <3>1. CASE Become(p, R)
        BY <1>1, <3>1 DEF Become
      <3>2. ASSUME NEW q \in Reaper, task' = [task EXCEPT ![p].pc = "kit", ![q] = Waiting]
            PROVE  /\ task'[p] = R
                   /\ \A u \in Task \ {p} : task'[u] = task[u] \/ task'[u] = Waiting
        <4>1. task' = [task EXCEPT ![p] = R, ![q] = Waiting] /\ q # p /\ q \in Task
          BY <1>1, <3>2 DEF Task
        <4>. HIDE DEF R
        <4>. QED  BY <1>1, <4>1
      <3>. QED  BY <1>3, <3>1, <3>2 DEF EnsureServer
    <2>. HIDE DEF R
    <2>4. ASSUME NEW u \in Task
          PROVE  (~task'[u].last /\ task'[u].pc # "stop") \/ Keeps(u)
      BY <2>1, <2>2, <2>3, SlotsLast DEF GateInv, DecidedOK, DecidedBy, Keeps
    <2>5. AgedOK' /\ \A i \in Invite : usable(i)' => usable(i)
      BY <1>1 DEF GateInv, AgedOK, usable
    <2>. QED  BY <1>1, <2>1, <2>3, <2>4, <2>5, GateStep
  <1>. QED  BY <1>2, <1>3

\* Sessions are dropped, and what the task decided is carried out.
LEMMA GateTeardown ==
    ASSUME IInv, GateInv, NEW t \in Task, TeardownStep(t)
    PROVE  /\ GateInv'
           /\ \/ StopServer(t)
              \/ /\ UNCHANGED <<life, announced, running>>
                 /\ task[t].pc \in {"idle", "drop"} /\ task'[t].last = task[t].last
  <1>1. task \in [Task -> TaskRecord] /\ task[t] \in TaskRecord
    BY DEF IInv, ShapeOK
  <1>2. ASSUME NEW s \in Session, DropNext(t, s)
        PROVE  /\ GateInv' /\ UNCHANGED <<life, announced, running>>
               /\ task[t].pc \in {"idle", "drop"} /\ task'[t].last = task[t].last
    <2>. DEFINE R == [task[t] EXCEPT !.todo = @ \ {s}]
    <2>1. /\ Become(t, R) /\ UNCHANGED <<life, aged, unseen, announced, running>>
          /\ task[t].pc \in {"idle", "drop"}
      BY <1>2 DEF DropNext, hubVars
    <2>2. R.pc = task[t].pc /\ R.last = task[t].last /\ R.goal = task[t].goal
      BY <1>1 DEF TaskRecord
    <2>. HIDE DEF R
    <2>3. \/ ~R.last /\ R.pc # "stop"
          \/ R.last /\ task[t].last /\ R.pc \in {"drop", "stop"} /\ R.goal = task[t].goal
      BY <2>1, <2>2, <1>1 DEF GateInv, DecidedOK, DecidedBy, TaskRecord
    <2>4. task'[t] = R
      BY <1>1, <2>1 DEF Become
    <2>. QED  BY <2>1, <2>2, <2>3, <2>4, GateBecome
  <1>3. CASE DropsDone(t)
    <2>1. /\ Become(t, AfterDrop(t)) /\ UNCHANGED <<life, aged, unseen, announced, running>>
          /\ task[t].pc = "drop"
      BY <1>3 DEF DropsDone, hubVars
    <2>2. \/ ~AfterDrop(t).last /\ AfterDrop(t).pc # "stop" /\ ~task[t].last
          \/ /\ AfterDrop(t).last /\ task[t].last /\ AfterDrop(t).pc \in {"drop", "stop"}
             /\ AfterDrop(t).goal = task[t].goal
      BY <2>1, AfterLast
    <2>3. task'[t] = AfterDrop(t)
      BY <1>1, <2>1 DEF Become
    <2>4. AfterDrop(t).last \in BOOLEAN /\ task[t].last \in BOOLEAN
      <3>1. task[t].todo = {}
        BY <1>3 DEF DropsDone
      <3>2. AfterStop(t) \in TaskRecord
        BY <2>1, <3>1, AfterStopOK
      <3>. QED  BY <1>1, <2>1, <3>2 DEF AfterDrop, TaskRecord
    <2>. QED  BY <2>1, <2>2, <2>3, <2>4, GateBecome
  <1>. QED  BY <1>2, <1>3, GateStop DEF TeardownStep

LEMMA GateGuest ==
    ASSUME GateInv, UNCHANGED <<life, announced, running, unseen, task>>,
           \/ aged' = aged
           \/ \E i \in invites : aged' = aged \cup {i}
    PROVE  GateInv'
  <1>1. AgedOK' /\ \A i \in Invite : usable(i)' => usable(i)
    BY DEF GateInv, AgedOK, usable, invites
  <1>2. ASSUME NEW t \in Task PROVE DecidedBy(t)'
    BY <1>1 DEF GateInv, DecidedOK, DecidedBy
  <1>. QED  BY <1>1, <1>2 DEF GateInv, DecidedOK

\* The steps that no request and no task takes part in.
LEMMA GateOther ==
    ASSUME IInv, GateInv,
           \/ \E i \in Invite : Age(i)
           \/ \E s \in Session : Bye(s) \/ HelloStep(s) \/ \E i \in Invite : HelloCheck(s, i)
           \/ UNCHANGED vars
    PROVE  GateInv' /\ UNCHANGED <<life, announced, running, task>>
  <1>1. ASSUME NEW i \in Invite, Age(i) PROVE GateInv' /\ UNCHANGED <<life, announced, running, task>>
    BY <1>1, GateGuest DEF Age
  <1>2. ASSUME NEW s \in Session, Bye(s) \/ HelloStep(s) \/ \E i \in Invite : HelloCheck(s, i)
        PROVE  GateInv' /\ UNCHANGED <<life, announced, running, task>>
    <2>1. UNCHANGED <<life, aged, announced, running, unseen, task>>
      BY <1>2 DEF Bye, HelloStep, HelloRefused, HelloInsert, HelloEvict, HelloCheck, hubVars
    <2>. QED  BY <2>1, GateGuest
  <1>3. CASE UNCHANGED vars
    BY <1>3, GateGuest DEF vars
  <1>. QED  BY <1>1, <1>2, <1>3

LEMMA GateNext == IInv /\ CapOK /\ GateInv /\ [Next]_vars => GateInv'
  <1>. SUFFICES ASSUME IInv, CapOK, GateInv, [Next]_vars PROVE GateInv'
    OBVIOUS
  <1>1. ASSUME NEW p \in Op, Request(p) \/ OpStep(p) PROVE GateInv'
    BY <1>1, GateRequest, GateOp, GateInsert, GateForget DEF OpStep
  <1>2. ASSUME NEW t \in Task, TeardownStep(t) PROVE GateInv'
    BY <1>2, GateTeardown
  <1>3. ASSUME NEW r \in Reaper, Tick(r) PROVE GateInv'
    <2>1. r \in Task /\ UNCHANGED <<life, aged, unseen, announced>>
      BY <1>3 DEF Task, Tick, hubVars
    <2>2. PICK x : Become(r, x) /\ ~x.last /\ x.pc # "stop"
      <3>1. ASSUME NEW idle
            PROVE  /\ ~[Waiting EXCEPT !.pc = "idle", !.todo = idle].last
                   /\ [Waiting EXCEPT !.pc = "idle", !.todo = idle].pc = "idle"
        BY DEF Waiting, Off
      <3>. QED  BY <1>3, <3>1, SlotsLast DEF Tick
    <2>. QED  BY <2>1, <2>2, GateBecome
  <1>4. ASSUME NEW r \in Reaper, SweepExpired(r) PROVE GateInv'
    BY <1>4, GateSweep
  <1>. QED  BY <1>1, <1>2, <1>3, <1>4, GateOther, GateRestart DEF Next

\* The invariant that the theorems about the gateway rest on.
LEMMA GateInvariant == Spec => [](IInv /\ CapOK /\ GateInv)
  <1>1. Init => IInv /\ CapOK /\ GateInv
    BY InitInv, CapInit, GateInit
  <1>2. IInv /\ CapOK /\ GateInv /\ [Next]_vars => (IInv /\ CapOK /\ GateInv)'
    BY NextInv, CapNext, GateNext
  <1>. QED  BY <1>1, <1>2, PTL DEF Spec

\* Shutdown and crash apart, whoever closes the gateway had found that no invite
\* lives; what it closes over was filed between that look and the closing.
THEOREM StopsWhenNoneLive == Spec => StopsOnlyWhenNoneLive
  <1>. DEFINE Stop(t) == /\ StopServer(t)
                         /\ \/ task[t].goal = "close"
                            \/ \A i \in Invite : usable(i) => <<t, i>> \in unseen
  <1>1. ASSUME IInv, CapOK, GateInv, [Next]_vars, running, ~running'
        PROVE  Restart \/ \E t \in Task : Stop(t)
    <2>1. ASSUME NEW t \in Task, StopServer(t) PROVE Stop(t)
      BY <1>1, <2>1 DEF StopServer, GateInv, DecidedOK, DecidedBy
    <2>2. ASSUME NEW p \in Op, Request(p) \/ OpStep(p) PROVE running' \in {running, TRUE}
      <3>1. ASSUME NEW i \in Invite, NEW goal, RevokeStart(p, i, goal) PROVE running' = running
        BY <3>1 DEF RevokeStart
      <3>2. CASE Request(p)
        BY <3>1, <3>2 DEF Request, CreateStart, RegenerateStart, CloseStart, hubVars
      <3>3. CASE OpStep(p)
        BY <3>3 DEF OpStep, EnsureServer, Listen, ListenFails, KitFails, CreateInsert,
           RegenerateDone, Forget, hubVars
      <3>. QED  BY <2>2, <3>2, <3>3
    <2>3. ASSUME NEW t \in Task, TeardownStep(t), ~StopServer(t) PROVE running' = running
      BY <1>1, <2>3, GateTeardown
    <2>4. ASSUME NEW r \in Reaper, Tick(r) \/ SweepExpired(r) PROVE running' = running
      BY <2>4 DEF Tick, SweepExpired, hubVars
    <2>. HIDE DEF Stop
    <2>. QED  BY <1>1, <2>1, <2>2, <2>3, <2>4, GateOther DEF Next
  <1>2. IInv /\ CapOK /\ GateInv /\ [Next]_vars =>
           [running /\ ~running' => Restart \/ \E t \in Task : Stop(t)]_vars
    BY <1>1
  <1>. QED  BY <1>2, GateInvariant, PTL DEF Spec, StopsOnlyWhenNoneLive

\* Whatever overlaps, expires or fails, only a kit that cannot be written and the
\* Regenerate of an invite that is dead by then leave the gateway open for nobody.
THEOREM GatewayClosesBehind == Spec => LeftOpenInVain
  <1>1. ASSUME IInv, CapOK, GateInv, [Next]_vars, OpenForNobody',
               \A p \in Op : ~KitFails(p) /\ ~RegenerateDone(p)
        PROVE  OpenForNobody
    <2>1. /\ running' /\ \A i \in Invite : Dead(i)'
          /\ \A t \in Task : task'[t].pc # "kit" /\ ~task'[t].last
          /\ task \in [Task -> TaskRecord] /\ life \in [Invite -> Life]
          /\ announced \subseteq aged
      BY <1>1 DEF OpenForNobody, IInv, ShapeOK, GateInv, AgedOK
    <2>2. ASSUME UNCHANGED <<life, announced, running>>, NEW t \in Task,
                 \A u \in Task \ {t} : task'[u] = task[u],
                 task[t].pc # "kit", ~task[t].last
          PROVE  OpenForNobody
      BY <2>1, <2>2 DEF OpenForNobody, Dead
    <2>3. ASSUME NEW p \in Op, Request(p) PROVE OpenForNobody
      <3>1. p \in Task
        BY DEF Task
      <3>2. ASSUME NEW i \in Invite, NEW goal, RevokeStart(p, i, goal) PROVE OpenForNobody
        <4>1. task'[p].last = NoneLeft(i)
          BY <2>1, <3>1, <3>2 DEF RevokeStart, Become
        <4>2. PICK k \in Invite : usable(k) /\ k # i
          BY <2>1, <3>1, <4>1 DEF NoneLeft
        <4>3. life'[k] = life[k] /\ announced' = announced
          BY <2>1, <3>2, <4>2 DEF RevokeStart
        <4>. QED  BY <2>1, <4>2, <4>3 DEF Dead, usable
      <3>3. CASE UNCHANGED <<life, announced, running>> /\ task[p] = Off
        <4>1. PICK r : Become(p, r)
          <5>1. CreateStart(p) => \E r : Become(p, r)
            BY DEF CreateStart, Begin
          <5>2. \A i \in Invite : RegenerateStart(p, i) => \E r : Become(p, r)
            BY DEF RegenerateStart, Begin
          <5>3. CloseStart(p) => \E r : Become(p, r)
            BY DEF CloseStart
          <5>4. \A i, goal : RevokeStart(p, i, goal) => \E r : Become(p, r)
            BY DEF RevokeStart
          <5>. QED  BY <2>3, <5>1, <5>2, <5>3, <5>4 DEF Request
        <4>2. \A u \in Task \ {p} : task'[u] = task[u]
          BY <2>1, <4>1 DEF Become
        <4>. QED  BY <2>2, <3>1, <3>3, <4>2, Slots, SlotsLast
      <3>. QED  BY <1>1, <2>1, <2>3, <3>1, <3>2, <3>3, GateRequest
    <2>4. ASSUME NEW p \in Op, OpStep(p) PROVE OpenForNobody
      <3>1. p \in Task
        BY DEF Task
      <3>2. ~EnsureServer(p) /\ ~ListenFails(p)
        <4>1. ~EnsureServer(p)
          BY <1>1, <2>1, <3>1, GateOp
        <4>2. ~ListenFails(p)
          BY <2>1 DEF ListenFails, hubVars
        <4>. QED  BY <4>1, <4>2
      <3>3. ASSUME NEW i \in Invite, CreateInsert(p, i) PROVE OpenForNobody
        <4>1. life'[i] = "kept" /\ announced' = announced /\ life[i] = "unused"
          BY <2>1, <3>3 DEF CreateInsert
        <4>2. i \notin announced
          BY <1>1, <4>1 DEF GateInv, AgedOK
        <4>. QED  BY <2>1, <4>1, <4>2 DEF Dead
      <3>4. CASE Forget(p)
        <4>1. /\ task[p].pc = "forget" /\ Become(p, Off) /\ UNCHANGED <<announced, running>>
              /\ task[p].inv \in Invite /\ life[task[p].inv] # "kept"
          BY <1>1, <3>1, <3>4 DEF Forget, IInv, TasksOK, RecordOK
        <4>2. \A i \in Invite : life'[i] = life[i] \/ life[i] # "kept"
          BY <2>1, <3>4, <4>1 DEF Forget
        <4>3. \A i \in Invite : Dead(i)
          BY <2>1, <4>1, <4>2 DEF Dead
        <4>4. ~task[p].last
          BY <1>1, <3>1, <4>1 DEF GateInv, DecidedOK, DecidedBy
        <4>5. \A u \in Task \ {p} : task'[u] = task[u]
          BY <2>1, <4>1 DEF Become
        <4>. QED  BY <2>1, <4>1, <4>3, <4>4, <4>5 DEF OpenForNobody
      <3>. QED  BY <1>1, <2>4, <3>2, <3>3, <3>4 DEF OpStep
    <2>5. ASSUME NEW t \in Task, TeardownStep(t) PROVE OpenForNobody
      <3>1. ~StopServer(t)
        BY <2>1 DEF StopServer
      <3>2. /\ UNCHANGED <<life, announced, running>> /\ task[t].pc \in {"idle", "drop"}
            /\ task'[t].last = task[t].last
        BY <1>1, <2>5, <3>1, GateTeardown
      <3>3. PICK r : Become(t, r)
        BY <2>5 DEF TeardownStep, DropNext, DropsDone, StopServer
      <3>4. \A u \in Task \ {t} : task'[u] = task[u]
        BY <2>1, <3>3 DEF Become
      <3>. QED  BY <2>1, <2>2, <3>2, <3>4
    <2>6. ASSUME NEW r \in Reaper, Tick(r) \/ SweepExpired(r) PROVE OpenForNobody
      <3>1. r \in Task
        BY DEF Task
      <3>2. PICK x : Become(r, x)
        BY <2>6 DEF Tick, SweepExpired
      <3>3. \A u \in Task \ {r} : task'[u] = task[u]
        BY <2>1, <3>2 DEF Become
      <3>4. task[r].pc \in {"wait", "idle"} /\ UNCHANGED <<life, running>>
        BY <2>6 DEF Tick, SweepExpired, hubVars
      <3>5. ~task[r].last
        BY <1>1, <3>1, <3>4 DEF GateInv, DecidedOK, DecidedBy
      <3>6. CASE announced' = announced
        BY <2>2, <3>1, <3>3, <3>4, <3>5, <3>6
      <3>7. CASE SweepExpired(r) /\ announced' # announced
        <4>1. task'[r].last = (\A i \in Invite : ~usable(i))
          BY <1>1, <3>7, GateSweep
        <4>2. PICK k \in Invite : usable(k)
          BY <2>1, <3>1, <4>1
        <4>3. life'[k] = "kept" /\ k \notin announced'
          <5>1. announced' \subseteq aged
            BY <2>1, <3>7 DEF SweepExpired
          <5>. QED  BY <3>4, <4>2, <5>1 DEF usable
        <4>. QED  BY <2>1, <4>3 DEF Dead
      <3>. QED  BY <2>6, <3>6, <3>7 DEF Tick, hubVars
    <2>7. CASE \/ \E i \in Invite : Age(i)
               \/ \E s \in Session : Bye(s) \/ HelloStep(s) \/ \E i \in Invite : HelloCheck(s, i)
               \/ UNCHANGED vars
      <3>1. UNCHANGED <<life, announced, running, task>>
        BY <1>1, <2>7, GateOther
      <3>. QED  BY <2>1, <3>1 DEF OpenForNobody, Dead
    <2>8. CASE Restart
      BY <1>1, <2>1, <2>8, GateRestart
    <2>. QED  BY <1>1, <2>3, <2>4, <2>5, <2>6, <2>7, <2>8 DEF Next
  <1>2. IInv /\ CapOK /\ GateInv /\ [Next]_vars =>
           [OpenForNobody' /\ ~OpenForNobody =>
               \E p \in Op : KitFails(p) \/ RegenerateDone(p)]_vars
    BY <1>1
  <1>. QED  BY <1>2, GateInvariant, PTL DEF Spec, LeftOpenInVain
=============================================================================
