------------------------------- MODULE Channel -------------------------------
(* network::Channel: the read and write events of one descriptor on a loop.   *)
(* The connection that owns it enables, disables, closes or moves it, also    *)
(* from inside the callbacks of handleEvent(), and another loop's thread may   *)
(* attach it between the two callbacks.  libevent is external.                 *)
EXTENDS Integers, Sequences

CONSTANTS ChannelLoops,   \* the event loops
          MaxAddFailures, \* event_add() calls that fail
          MaxDelFailures  \* event_del() calls that fail

NoLoop == "no loop"
ASSUME ChannelAssumption == NoLoop \notin ChannelLoops /\ MaxAddFailures \in Nat /\ MaxDelFailures \in Nat

Events == {"read", "write"}

VARIABLES
    ch,        \* the fields of the Channel
    watched,   \* libevent: the events added for the descriptor on each loop
    addFails, delFails,  \* the failures left
    handling,  \* the loops inside handleEvent(), before the test of EV_WRITE
    ran        \* for each loop, the callbacks of its last handleEvent(): the channel each has found, what it did

channelVars == <<ch, watched, addFails, delFails, handling, ran>>

ChannelInit ==
    /\ ch \in [attached_ : {FALSE}, loop_ : ChannelLoops, events_ : {{}}, event_ : {TRUE}, callbacks : {TRUE}, crash : {"no"}]
    /\ watched = [l \in ChannelLoops |-> {}]
    /\ addFails = MaxAddFailures /\ delFails = MaxDelFailures
    /\ handling = {} /\ ran = [l \in ChannelLoops |-> <<>>]

(***************************************************************************)
(* An operation takes s, the channel with what libevent has for it, to the   *)
(* set of states it may leave.                                               *)
(***************************************************************************)
State == [ch |-> ch, watched |-> watched, fails |-> addFails, delFails |-> delFails]
Crashes(s, why) == [s EXCEPT !.ch.crash = why]
Usable(s) == s.ch.crash = "no"

\* A call of loop_->isInLoopThread() needs a loop.
OnLoop(s, Then(_)) == IF s.ch.loop_ = NoLoop THEN {Crashes(s, "null loop")} ELSE Then(s)

\* event_del() takes the event off libevent's lists, also when the kernel refuses
\* and it returns an error.
Unwatch(s) == [s EXCEPT !.watched = [l \in ChannelLoops |-> {}]]
EventDel(s) ==
    {[Unwatch(s) EXCEPT !.ch.attached_ = FALSE]}
    \cup {[Unwatch(s) EXCEPT !.delFails = s.delFails - 1] : l \in {k \in ChannelLoops : s.watched[k] # {} /\ s.delFails > 0}}

\* It does not ask what event_del() returns.
CloseEvent(s) ==
    LET freed(x) == [x EXCEPT !.ch.event_ = FALSE, !.ch.callbacks = FALSE]
        closed(x) == IF ~x.ch.event_ THEN {x}
                     ELSE IF ~x.ch.attached_ THEN {freed(x)}
                     ELSE {freed([Unwatch(x) EXCEPT !.ch.events_ = {}, !.ch.attached_ = FALSE])}
    IN  OnLoop(s, closed)

\* When event_del() fails the channel counts as attached still.
DetachFromLoop(s) ==
    LET detached(x) == IF ~x.ch.attached_ THEN {Crashes(x, "not attached")} ELSE EventDel(x)
    IN  OnLoop(s, detached)

\* event_set() on a closed channel writes through a null event_.
EventAdd(s) ==
    IF s.ch.attached_ THEN {Crashes(s, "attached")}
    ELSE IF ~s.ch.event_ THEN {Crashes(s, "null event")}
    ELSE {[s EXCEPT !.watched[s.ch.loop_] = s.ch.events_, !.ch.attached_ = TRUE]}
         \cup (IF s.fails > 0 THEN {[s EXCEPT !.fails = s.fails - 1]} ELSE {})
AttachToLoop(s) ==
    LET attached(x) == UNION {EventAdd(y) : y \in IF x.ch.attached_ THEN EventDel(x) ELSE {x}}
    IN  OnLoop(s, attached)

UpdateEvent(s) == IF s.ch.events_ = {} THEN DetachFromLoop(s) ELSE AttachToLoop(s)

\* enableReadEvent(), enableWriteEvent(), the disable functions and
\* disableAllEvent().
SetEvents(s, e) == IF e = s.ch.events_ THEN {s} ELSE UpdateEvent([s EXCEPT !.ch.events_ = e])

\* The events stay, for the new loop.
DetachFromLoopAndReset(s) == {IF Usable(x) THEN [x EXCEPT !.ch.loop_ = NoLoop] ELSE x : x \in DetachFromLoop(s)}
AttachToNewLoop(s, l) ==
    IF s.ch.events_ = {} THEN {Crashes(s, "no events")} ELSE AttachToLoop([s EXCEPT !.ch.loop_ = l])

Operations == [op : {"set"}, events : SUBSET Events] \cup [op : {"close", "leave", "none"}, events : {{}}]
Does(s, o) ==
    CASE o.op = "set" -> SetEvents(s, o.events)
      [] o.op = "close" -> CloseEvent(s)
      [] o.op = "leave" -> DetachFromLoopAndReset(s)
      [] o.op = "none" -> {s}

(***************************************************************************)
(* Steps of the owner and of the loop                                       *)
(***************************************************************************)
Leaves(s) == ch' = s.ch /\ watched' = s.watched /\ addFails' = s.fails /\ delFails' = s.delFails

\* The owner calls on the loop's own thread, outside handleEvent().
OwnerDoes(o) ==
    /\ Usable(State) /\ ch.loop_ \notin handling
    /\ \E s \in Does(State, o) : Leaves(s)
    /\ UNCHANGED <<handling, ran>>

\* The functor on the new loop.
OwnerMoves(l) ==
    /\ Usable(State) /\ ch.loop_ = NoLoop /\ l \notin handling
    /\ \E s \in AttachToNewLoop(State, l) : Leaves(s)
    /\ UNCHANGED <<handling, ran>>

\* A callback on loop l, one operation of the owner: it asserts that it runs in
\* the thread of the connection's loop.
Runs == ch.attached_ /\ ch.callbacks
CallsBack(l, o) ==
    IF ch.loop_ = l THEN Does(State, o)
    ELSE {Crashes(State, IF ch.loop_ = NoLoop THEN "null loop" ELSE "wrong thread")}
Found(l, o) == [found |-> ch, on |-> l, op |-> o.op]

\* handleEvent(): libevent reports which on loop l and the read callback runs;
BeginEvent(l, which, o) ==
    /\ Usable(State) /\ l \notin handling /\ which # {} /\ which \subseteq watched[l]
    /\ IF "read" \in which /\ Runs
       THEN (\E s \in CallsBack(l, o) : Leaves(s)) /\ ran' = [ran EXCEPT ![l] = <<Found(l, o)>>]
       ELSE ran' = [ran EXCEPT ![l] = <<>>] /\ UNCHANGED <<ch, watched, addFails, delFails>>
    /\ handling' = IF "write" \in which THEN handling \cup {l} ELSE handling

\* what it has left decides on the write callback, or what another thread has
\* made of it.
EndEvent(l, o) ==
    /\ Usable(State) /\ l \in handling /\ handling' = handling \ {l}
    /\ IF Runs
       THEN (\E s \in CallsBack(l, o) : Leaves(s)) /\ ran' = [ran EXCEPT ![l] = Append(ran[l], Found(l, o))]
       ELSE UNCHANGED <<ch, watched, addFails, delFails, ran>>

ChannelNext ==
    \/ \E o \in Operations : OwnerDoes(o)
    \/ \E l \in ChannelLoops : OwnerMoves(l)
    \/ \E l \in ChannelLoops, which \in SUBSET Events, o \in Operations : BeginEvent(l, which, o)
    \/ \E l \in ChannelLoops, o \in Operations : EndEvent(l, o)

(***************************************************************************)
(* Properties                                                               *)
(***************************************************************************)
\* libevent watches the events the channel has recorded, on the loop it is
\* attached to and on no other; a channel that is closed or between two loops
\* is watched nowhere.
WatchedAsRecorded ==
    ch.crash = "no" =>
        \A l \in ChannelLoops : watched[l] = IF ch.attached_ /\ ch.loop_ = l THEN ch.events_ ELSE {}

\* Every callback finds the channel open and attached to the loop that runs it,
\* however the callback before it has closed, moved or disabled it.  One write
\* callback does not: the read callback has left the loop, and the new loop's
\* thread attaches the channel, or event_del() failed, before handleEvent() tests
\* attached_ again (Channel.cpp:163, TcpConnection.cpp:265-270).
CallbacksFindTheChannel ==
    \A l \in ChannelLoops : \A i \in DOMAIN ran[l] :
        /\ ran[l][i].found.attached_ /\ ran[l][i].found.event_
        /\ ran[l][i].found.loop_ = l \/ (i = 2 /\ ran[l][1].op = "leave")

\* Once closed, the channel passes the assertions of its destructor, unless
\* event_add() has failed: then events_ keeps what was never watched.
ClosedCanBeDestroyed ==
    ch.crash = "no" /\ ~ch.event_ => ~ch.attached_ /\ (ch.events_ = {} \/ addFails < MaxAddFailures)
=============================================================================
