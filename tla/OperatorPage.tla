---------------------------- MODULE OperatorPage ----------------------------
(***************************************************************************)
(* The conversations on the operator's page (index.html): live events      *)
(* (main.go emit, httpui.go handleEvents) against /history and CLEAR.      *)
(*                                                                         *)
(* The host changes a transcript first and emits the event later; the page *)
(* loads a conversation over a request of its own. Neither is ordered with *)
(* the other. An event is lost when the page's channel is full, or with a  *)
(* stream that breaks; here any event may be.                              *)
(***************************************************************************)
EXTENDS Naturals, FiniteSets, Sequences

CONSTANTS
    Msg, None,
    Depth,          \* bound: events under way (512 in the channel alone)
    MaxClears,      \* bound: conversations cleared
    MaxOpens        \* bound: direct conversations opened

VARIABLES
    hist,       \* History: the messages of a conversation
    work,       \* transcript changes whose event is still to be emitted
    stream,     \* events on their way to the page
    convs,      \* the page's conversations
    loads,      \* its /history requests
    filed,      \* history: the conversation of a message
    erased,     \* history: messages of a conversation the page was told are cleared
    aba,        \* history: conversations opened again before an older load was over
    clears, opens

hostVars == <<hist, work, filed, clears>>
pageVars == <<convs, loads, erased, aba, opens>>
vars == <<hist, work, stream, convs, loads, filed, erased, aba, clears, opens>>

-----------------------------------------------------------------------------
Conv == {"room", "dm"}

Fresh == [msgs |-> {}, loaded |-> TRUE, loadToken |-> 0]
Missing == [msgs |-> {}, loaded |-> FALSE, loadToken |-> 0]

\* The page opens the room at once.
Init ==
    /\ hist = [c \in Conv |-> {}]
    /\ work = {}
    /\ stream = <<>>
    /\ convs = [c \in Conv |-> IF c = "room" THEN [Fresh EXCEPT !.loadToken = 1] ELSE Missing]
    /\ loads = {[conv |-> "room", token |-> 1, got |-> None]}
    /\ filed = [m \in Msg |-> None]
    /\ erased = [c \in Conv |-> {}]
    /\ aba = {}
    /\ clears = 0 /\ opens = 0

-----------------------------------------------------------------------------
(* The host.                                                               *)

\* A message is stored by Send or handleFrame; its event comes later.
Store(m, c) ==
    /\ filed[m] = None
    /\ filed' = [filed EXCEPT ![m] = c]
    /\ hist' = [hist EXCEPT ![c] = @ \cup {m}]
    /\ work' = work \cup {[kind |-> "msg", conv |-> c, msgs |-> {m}]}
    /\ UNCHANGED <<stream, pageVars, clears>>

\* handleClearMessages deletes the conversation ...
ClearMessages(c) ==
    /\ clears < MaxClears
    /\ clears' = clears + 1
    /\ hist' = [hist EXCEPT ![c] = {}]
    /\ work' = work \cup {[kind |-> "chat-cleared", conv |-> c, msgs |-> hist[c]]}
    /\ UNCHANGED <<stream, pageVars, filed>>

Unannounced == UNION {w.msgs : w \in {v \in work : v.kind = "msg"}}

\* ... and says so. What it deleted and was announced before counts as erased
\* once the page has heard of it.
emit(w) ==
    /\ w \in work
    /\ work' = work \ {w}
    /\ LET event == IF w.kind = "msg" THEN w ELSE [w EXCEPT !.msgs = @ \ Unannounced]
       IN  stream' \in {stream} \cup (IF Len(stream) < Depth THEN {Append(stream, event)} ELSE {})
    /\ UNCHANGED <<hist, filed, clears, pageVars>>

-----------------------------------------------------------------------------
(* The page.                                                               *)

\* openConv: the first time, and after a clear, a conversation is loaded.
openConv(c) ==
    /\ ~convs[c].loaded
    /\ opens < MaxOpens
    /\ opens' = opens + 1
    /\ convs' = [convs EXCEPT ![c] = [Fresh EXCEPT !.loadToken = 1]]
    /\ loads' = loads \cup {[conv |-> c, token |-> 1, got |-> None]}
    /\ aba' = IF \E f \in loads : f.conv = c THEN aba \cup {c} ELSE aba
    /\ UNCHANGED <<hostVars, stream, erased>>

\* handleHistory.
Load(f) ==
    /\ f \in loads /\ f.got = None
    /\ loads' = (loads \ {f}) \cup {[f EXCEPT !.got = hist[f.conv]]}
    /\ UNCHANGED <<hostVars, stream, convs, erased, aba, opens>>

\* The answer: dropped if the conversation is gone or was cleared meanwhile.
Loaded(f) ==
    /\ f \in loads /\ f.got # None
    /\ loads' = loads \ {f}
    /\ convs' = IF convs[f.conv].loadToken = f.token
                THEN [convs EXCEPT ![f.conv].msgs = @ \cup f.got] ELSE convs
    /\ UNCHANGED <<hostVars, stream, erased, aba, opens>>

Hears(kind) == stream # <<>> /\ Head(stream).kind = kind

\* addMsg makes a conversation that is never loaded.
addMsg ==
    /\ Hears("msg")
    /\ LET e == Head(stream)
           conv == IF convs[e.conv].loaded THEN convs[e.conv] ELSE Fresh
       IN  convs' = [convs EXCEPT ![e.conv] = [conv EXCEPT !.msgs = @ \cup e.msgs]]
    /\ stream' = Tail(stream)
    /\ UNCHANGED <<hostVars, loads, erased, aba, opens>>

\* Seeded fault: a load under way when the room is cleared is not called off.
Cleared_KeepsToken(conv, c) ==
    IF c = "room" THEN [Fresh EXCEPT !.loadToken = conv.loadToken] ELSE Missing

\* applyChatCleared empties the room, and forgets a direct conversation.
Cleared(conv, c) ==
    IF c = "room" THEN [Fresh EXCEPT !.loadToken = conv.loadToken + 1] ELSE Missing

applyChatCleared ==
    /\ Hears("chat-cleared")
    /\ LET e == Head(stream)
       IN  /\ convs' = [convs EXCEPT ![e.conv] = Cleared(@, e.conv)]
           /\ erased' = [erased EXCEPT ![e.conv] = @ \cup e.msgs]
    /\ stream' = Tail(stream)
    /\ UNCHANGED <<hostVars, loads, aba, opens>>

Next ==
    \/ \E c \in Conv : (\E m \in Msg : Store(m, c)) \/ ClearMessages(c) \/ openConv(c)
    \/ \E w \in work : emit(w)
    \/ \E f \in loads : Load(f) \/ Loaded(f)
    \/ addMsg
    \/ applyChatCleared

-----------------------------------------------------------------------------
(* Properties.                                                             *)

TypeOK ==
    /\ hist \in [Conv -> SUBSET Msg]
    /\ Len(stream) <= Depth
    /\ \A c \in Conv : convs[c].msgs \subseteq Msg /\ convs[c].loaded \in BOOLEAN
    /\ \A f \in loads : f.conv \in Conv /\ (f.got = None \/ f.got \subseteq Msg)
    /\ erased \in [Conv -> SUBSET Msg] /\ aba \subseteq {"dm"}
    /\ clears \in 0 .. MaxClears /\ opens \in 0 .. MaxOpens

\* CLEAR erases "the active transcript" (README.md:51): a message that was on its
\* way to the page before the clear was never comes back on it, whatever load is
\* under way. A direct conversation that is opened again before an older load
\* of it is over is not protected.
ClearedStaysCleared ==
    \A c \in Conv \ aba : convs[c].msgs \cap erased[c] = {}
=============================================================================
