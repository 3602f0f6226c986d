------------------------ MODULE InterruptionRecovery ------------------------
(***************************************************************************)
(* How the consumers of a failover connection get through an interruption. *)
(*                                                                         *)
(* The thread that finds the connection broken tells the connection, which *)
(* counts its consumers and schedules a task that throws away what each    *)
(* has prefetched.  Until the count is back at zero a restored consumer    *)
(* is subscribed with prefetch 0; whoever takes the count to zero signals  *)
(* the failover transport, which sends every such consumer its prefetch.   *)
(* The scheduler's thread, the readers that have a message to dispatch and *)
(* the thread that notices the next failure share the count (an atomic     *)
(* integer), the flags and the tracker's map of recovering consumers.      *)
(*                                                                         *)
(* Each connection has a reader of its own.  A failed connection is closed *)
(* by the failover transport's task runner, the thread that also makes the *)
(* next one, and closing it waits for its reader.                          *)
(*                                                                         *)
(* The session dispatches in the reader's thread, and reconnecting never   *)
(* gives up.  What a broken connection still has in its buffers is not     *)
(* read, and the application's short waits for the dispatchers' lock are   *)
(* left out.                                                               *)
(***************************************************************************)
EXTENDS Integers, FiniteSets

CONSTANTS Consumers,
          Initial,       \* the ones that are open when the connection is first used
          MaxBreaks      \* bound on the connections that break

None == -3

ASSUME RecoveryAssumption ==
    Initial \subseteq Consumers /\ None \notin Consumers /\ MaxBreaks \in Nat

Readers == 0..MaxBreaks  \* by the breaks that came before the reader's connection
Scheduler == -1
Sender == -2             \* any other thread that uses the transport
Clearers == {Scheduler} \cup Readers
Threads == Clearers \cup {Sender}

Full == 1                \* the prefetch the consumer was created with
Unknown == -1            \* the broker has no such consumer

VARIABLES
    life,       \* each consumer: new, listed, open, delisted, closed
    counter,    \* transportInterruptionProcessingComplete
    flag,       \* inProgressClearRequiredFlag of each consumer
    tasks,      \* ClearConsumerTasks the scheduler has for it
    fresh,      \* its queue has a message that came on the connection in use
    chan,       \* the thread in unconsumedMessages' lock
    complete,   \* the tracker's connectionInterruptProcessingComplete
    stalled,    \* its recoveringPullConsumers
    connected,  \* connectedTransport is set
    owner,      \* the thread in reconnectMutex
    intr,       \* the transportInterrupted under way: its thread, its place in the list
    pc,         \* where each thread is
    target,     \* the consumer it is busy with
    held,       \* a reader's message came on the connection in use
    ctl,        \* the consumers it still has to send a ConsumerControl
    closing,    \* connections the close task has, by their readers
    joining,    \* the reader the runner waits for
    raced,      \* history: cleared ahead of the count, or interrupted during a signal
    doubled,    \* history: consumers flagged again before they were cleared
    alive,      \* the connection works
    breaks,     \* connections that broke
    prefetch    \* what the broker was last told

conn == <<counter, complete, stalled, connected, owner, intr>>
cons == <<flag, tasks, fresh, chan>>
thr  == <<pc, target, held, ctl>>
run  == <<closing, joining>>
net  == <<alive, breaks, prefetch>>
vars == <<life, conn, cons, thr, run, raced, doubled, net>>

Nobody == [by |-> None, left |-> {}, cur |-> None]

Init ==
    /\ life = [c \in Consumers |-> IF c \in Initial THEN "open" ELSE "new"]
    /\ counter = 0 /\ complete = TRUE /\ stalled = {} /\ connected = TRUE
    /\ owner = None /\ intr = Nobody
    /\ flag = [c \in Consumers |-> 0]
    /\ tasks = [c \in Consumers |-> 0]
    /\ fresh = [c \in Consumers |-> FALSE]
    /\ chan = [c \in Consumers |-> None]
    /\ pc = [t \in Threads |-> "idle"]
    /\ target = [t \in Threads |-> None]
    /\ held = [r \in Readers |-> FALSE]
    /\ ctl = [t \in Threads |-> {}]
    /\ closing = {} /\ joining = None
    /\ raced = FALSE /\ doubled = {}
    /\ alive = TRUE /\ breaks = 0
    /\ prefetch = [c \in Consumers |-> IF c \in Initial THEN Full ELSE Unknown]

Listed == {c \in Consumers : life[c] \in {"listed", "open"}}    \* the session's list
Tracked == {c \in Consumers : life[c] \in {"open", "delisted"}} \* the tracker's
InUse == IF alive THEN breaks ELSE breaks - 1                   \* the connection's reader

-----------------------------------------------------------------------------
(* The application: consumers come and go; the session's list has a lock. *)
AddConsumer(c) ==
    /\ life[c] = "new" /\ intr.by = None
    /\ life' = [life EXCEPT ![c] = "listed"]
    /\ UNCHANGED <<run, raced, doubled, conn, cons, thr, net>>

(* The ConsumerInfo waits for a connection; on a broken one it is left to the restore. *)
SendConsumerInfo(c) ==
    /\ life[c] = "listed"
    /\ connected /\ owner = None
    /\ life' = [life EXCEPT ![c] = "open"]
    /\ prefetch' = IF alive THEN [prefetch EXCEPT ![c] = Full] ELSE prefetch
    /\ UNCHANGED <<run, raced, doubled, conn, cons, thr, alive, breaks>>

RemoveConsumer(c) ==
    /\ life[c] = "open" /\ intr.by = None
    /\ life' = [life EXCEPT ![c] = "delisted"]
    /\ UNCHANGED <<run, raced, doubled, conn, cons, thr, net>>

(* The RemoveInfo is tracked in any case and sent when there is a connection. *)
SendRemoveInfo(c) ==
    /\ life[c] = "delisted"
    /\ owner = None
    /\ life' = [life EXCEPT ![c] = "closed"]
    /\ stalled' = stalled \ {c}
    /\ prefetch' = IF connected THEN [prefetch EXCEPT ![c] = Unknown] ELSE prefetch
    /\ UNCHANGED <<run, raced, doubled, counter, complete, connected, owner, intr, cons, thr,
                   alive, breaks>>

-----------------------------------------------------------------------------
(* handleTransportFailure, in a thread that has reconnectMutex. *)

(* Tracker and connection are told; the count starts again. *)
Interrupted(t) ==
    /\ connected' = FALSE
    /\ complete' = FALSE
    /\ counter' = 0
    /\ intr' = [by |-> t, left |-> Listed, cur |-> None]
    /\ owner' = t
    /\ closing' = closing \cup {InUse}
    /\ raced' = (raced \/ \E u \in Threads : pc[u] \in {"signal", "controls", "wipe"})

OnException ==
    /\ connected /\ ~alive /\ owner = None
    /\ Interrupted(Sender)
    /\ UNCHANGED <<joining, doubled, life, stalled, cons, thr, net>>

(* inProgressClearRequired *)
InterruptFlag ==
    /\ intr.by # None /\ intr.cur = None
    /\ \E c \in intr.left :
        /\ flag' = [flag EXCEPT ![c] = @ + 1]
        /\ doubled' = IF flag[c] > 0 THEN doubled \cup {c} ELSE doubled
        /\ intr' = [intr EXCEPT !.left = @ \ {c}, !.cur = c]
    /\ UNCHANGED <<run, raced, life, counter, complete, stalled, connected, owner, tasks, fresh, chan,
                   thr, net>>

(* Fault: the task is scheduled and the consumer is not counted. *)
SchedulesUncounted ==
    /\ intr.cur # None
    /\ tasks' = [tasks EXCEPT ![intr.cur] = @ + 1]
    /\ intr' = [intr EXCEPT !.cur = None]
    /\ UNCHANGED <<run, raced, doubled, life, counter, complete, stalled, connected, owner, flag,
                   fresh, chan, thr, net>>

(* The consumer is counted and its task scheduled. *)
InterruptCount ==
    /\ intr.cur # None
    /\ counter' = counter + 1
    /\ tasks' = [tasks EXCEPT ![intr.cur] = @ + 1]
    /\ intr' = [intr EXCEPT !.cur = None]
    /\ UNCHANGED <<run, raced, doubled, life, complete, stalled, connected, owner, flag, fresh,
                   chan, thr, net>>

(* Back in oneway, which keeps the mutex, or out of it. *)
InterruptEnd ==
    /\ intr.by # None /\ intr.cur = None /\ intr.left = {}
    /\ intr' = Nobody
    /\ owner' = IF intr.by = Sender THEN None ELSE intr.by
    /\ UNCHANGED <<run, raced, doubled, life, counter, complete, stalled, connected, cons, thr,
                   net>>

(* The runner: a new connection, every tracked consumer subscribed again. *)
Restore ==
    /\ joining = None
    /\ ~connected /\ owner = None
    /\ connected' = TRUE /\ alive' = TRUE
    /\ prefetch' = [c \in Consumers |-> IF c \notin Tracked THEN Unknown
                                        ELSE IF complete THEN Full ELSE 0]
    /\ stalled' = IF complete THEN stalled ELSE stalled \cup Tracked
    /\ UNCHANGED <<run, raced, doubled, life, counter, complete, owner, intr, cons, thr, breaks>>

(* The oldest connection the close task has: its close waits for the reader. *)
TakeTransport ==
    \E r \in closing :
        /\ \A q \in closing : r <= q
        /\ joining' = r
        /\ closing' = closing \ {r}

CloseTask ==
    /\ joining = None
    /\ TakeTransport
    /\ UNCHANGED <<raced, doubled, life, conn, cons, thr, net>>

(* The reader is done with its message, and gets no other. *)
CloseJoined ==
    /\ joining # None /\ pc[joining] = "idle"
    /\ \/ TakeTransport
       \/ closing = {} /\ joining' = None /\ closing' = closing
    /\ UNCHANGED <<raced, doubled, life, conn, cons, thr, net>>

-----------------------------------------------------------------------------
(* clearMessagesInProgress, by the scheduler's task or before a dispatch. *)
TakeTask(c) ==
    /\ pc[Scheduler] = "idle" /\ tasks[c] > 0
    /\ tasks' = [tasks EXCEPT ![c] = @ - 1]
    /\ pc' = [pc EXCEPT ![Scheduler] = "clear"]
    /\ target' = [target EXCEPT ![Scheduler] = c]
    /\ UNCHANGED <<run, raced, doubled, life, conn, flag, fresh, chan, held, ctl, net>>

(* The task is done; the reader goes on to enqueue its message. *)
Leave(t) ==
    /\ pc' = [pc EXCEPT ![t] = IF t \in Readers THEN "dispatch" ELSE "idle"]
    /\ target' = [target EXCEPT ![t] = IF t \in Readers THEN @ ELSE None]

NothingToClear(t) ==
    /\ pc[t] = "clear" /\ flag[target[t]] = 0
    /\ Leave(t)
    /\ UNCHANGED <<run, raced, doubled, life, conn, cons, held, ctl, net>>

(* Whoever takes the count to zero signals, with the channel's lock held. *)
Clear(t) ==
    LET c == target[t] IN
    /\ pc[t] = "clear" /\ flag[c] > 0 /\ chan[c] = None
    /\ chan' = [chan EXCEPT ![c] = t]
    /\ fresh' = [fresh EXCEPT ![c] = FALSE]
    /\ counter' = counter - 1
    /\ pc' = [pc EXCEPT ![t] = IF counter - 1 = 0 THEN "signal" ELSE "unflag"]
    /\ raced' = (raced \/ (intr.by # None /\ counter <= 0))
    /\ UNCHANGED <<run, doubled, life, complete, stalled, connected, owner, intr, flag, tasks,
                   target, held, ctl, net>>

(* Fault: the flag stays up. *)
StaysFlagged(t) ==
    /\ pc[t] = "unflag"
    /\ chan' = [chan EXCEPT ![target[t]] = None]
    /\ Leave(t)
    /\ UNCHANGED <<run, raced, doubled, life, conn, flag, tasks, fresh, held, ctl, net>>

Unflag(t) ==
    /\ pc[t] = "unflag"
    /\ flag' = [flag EXCEPT ![target[t]] = @ - 1]
    /\ chan' = [chan EXCEPT ![target[t]] = None]
    /\ Leave(t)
    /\ UNCHANGED <<run, raced, doubled, life, conn, tasks, fresh, held, ctl, net>>

-----------------------------------------------------------------------------
(* signalInterruptionProcessingComplete *)

(* The controls go to a copy of the map, whose own entries stay. *)
SignalEnter(t) ==
    /\ pc[t] = "signal" /\ owner = None
    /\ complete' = TRUE
    /\ ctl' = [ctl EXCEPT ![t] = stalled]
    /\ pc' = [pc EXCEPT ![t] = "controls"]
    /\ owner' = t
    /\ UNCHANGED <<run, raced, doubled, life, counter, stalled, connected, intr, cons, target,
                   held, net>>

(* What a thread may do next that has the mutex and is not in transportInterrupted. *)
Sending(t) == pc[t] = "controls" /\ owner = t /\ intr.by = None

(* On a broken connection the control may be lost without an error. *)
SendControl(t) ==
    /\ Sending(t) /\ connected
    /\ \E c \in ctl[t] :
        /\ ctl' = [ctl EXCEPT ![t] = @ \ {c}]
        /\ prefetch' = IF prefetch[c] = Unknown THEN prefetch ELSE [prefetch EXCEPT ![c] = Full]
    /\ UNCHANGED <<run, raced, doubled, life, conn, cons, pc, target, held, alive, breaks>>

(* The send throws: the same thread handles the failure, then tries again. *)
ControlFails(t) ==
    /\ Sending(t) /\ connected /\ ~alive /\ ctl[t] # {}
    /\ Interrupted(t)
    /\ UNCHANGED <<joining, doubled, life, stalled, cons, thr, net>>

(* reconnectMutex.wait, until the runner has a connection. *)
ControlWaits(t) ==
    /\ Sending(t) /\ ~connected /\ ctl[t] # {}
    /\ owner' = None
    /\ UNCHANGED <<run, raced, doubled, life, counter, complete, stalled, connected, intr, cons,
                   thr, net>>

ControlWakes(t) ==
    /\ pc[t] = "controls" /\ owner = None /\ connected
    /\ owner' = t
    /\ UNCHANGED <<run, raced, doubled, life, counter, complete, stalled, connected, intr, cons,
                   thr, net>>

(* Fault: reconnectMutex is not given back. *)
KeepsMutex(t) ==
    /\ Sending(t) /\ ctl[t] = {}
    /\ pc' = [pc EXCEPT ![t] = "wipe"]
    /\ UNCHANGED <<run, raced, doubled, life, conn, cons, target, held, ctl, net>>

SignalExit(t) ==
    /\ Sending(t) /\ ctl[t] = {}
    /\ owner' = None
    /\ pc' = [pc EXCEPT ![t] = "wipe"]
    /\ UNCHANGED <<run, raced, doubled, life, counter, complete, stalled, connected, intr, cons,
                   target, held, ctl, net>>

(* The count is set to zero, whatever it is by now. *)
Wipe(t) ==
    /\ pc[t] = "wipe"
    /\ counter' = 0
    /\ pc' = [pc EXCEPT ![t] = IF chan[target[t]] = t THEN "unflag" ELSE "check"]
    /\ UNCHANGED <<run, raced, doubled, life, complete, stalled, connected, owner, intr, cons,
                   target, held, ctl, net>>

-----------------------------------------------------------------------------
(* A reader looks the dispatcher up, clears and dispatches in the dispatchers' lock. *)
Dispatching(r) ==
    \/ pc[r] \in {"clear", "unflag", "dispatch"}
    \/ pc[r] \in {"signal", "controls", "wipe"} /\ chan[target[r]] = r

(* The reader has a message for a consumer. *)
ReadMessage(r, c) ==
    /\ pc[r] = "idle" /\ r = InUse
    /\ alive /\ prefetch[c] = Full
    /\ pc' = [pc EXCEPT ![r] = "check"]
    /\ target' = [target EXCEPT ![r] = c]
    /\ held' = [held EXCEPT ![r] = TRUE]
    /\ UNCHANGED <<run, raced, doubled, life, conn, cons, ctl, net>>

(* waitForTransportInterruptionProcessingToComplete: signals until the count is zero. *)
WaitForRecovery(r) ==
    /\ pc[r] = "check"
    /\ pc' = [pc EXCEPT ![r] = IF counter > 0 THEN "signal" ELSE "lock"]
    /\ UNCHANGED <<run, raced, doubled, life, conn, cons, target, held, ctl, net>>

LockDispatchers(r) ==
    /\ pc[r] = "lock" /\ \A q \in Readers : ~Dispatching(q)
    /\ pc' = [pc EXCEPT ![r] = "clear"]
    /\ UNCHANGED <<run, raced, doubled, life, conn, cons, target, held, ctl, net>>

(* A closed consumer has no dispatcher or a closed channel. *)
Dispatch(r) ==
    LET c == target[r] IN
    /\ pc[r] = "dispatch" /\ chan[c] = None
    /\ fresh' = [fresh EXCEPT ![c] = @ \/ (held[r] /\ c \in Listed)]
    /\ pc' = [pc EXCEPT ![r] = "idle"]
    /\ target' = [target EXCEPT ![r] = None]
    /\ held' = [held EXCEPT ![r] = FALSE]
    /\ UNCHANGED <<run, raced, doubled, life, conn, flag, tasks, chan, ctl, net>>

-----------------------------------------------------------------------------
Break ==
    /\ alive /\ breaks < MaxBreaks
    /\ alive' = FALSE
    /\ breaks' = breaks + 1
    /\ prefetch' = [c \in Consumers |-> Unknown]
    /\ fresh' = [c \in Consumers |-> FALSE] /\ held' = [r \in Readers |-> FALSE]
    /\ UNCHANGED <<run, raced, doubled, life, conn, flag, tasks, chan, pc, target, ctl>>

Signal(t) ==
    \/ SignalEnter(t) \/ SendControl(t) \/ ControlFails(t) \/ ControlWaits(t)
    \/ ControlWakes(t) \/ SignalExit(t) \/ Wipe(t)

InClear(t) == NothingToClear(t) \/ Clear(t) \/ Unflag(t) \/ Signal(t)

Interrupting == OnException \/ InterruptFlag \/ InterruptCount \/ InterruptEnd

(* What the threads do by themselves once an interruption or a message has come. *)
Work ==
    \/ \E c \in Consumers : SendConsumerInfo(c) \/ SendRemoveInfo(c) \/ TakeTask(c)
    \/ Interrupting \/ Restore \/ CloseTask \/ CloseJoined
    \/ \E t \in Clearers : InClear(t)
    \/ \E r \in Readers : WaitForRecovery(r) \/ LockDispatchers(r) \/ Dispatch(r)

Next ==
    \/ Work
    \/ \E c \in Consumers : AddConsumer(c) \/ RemoveConsumer(c)
    \/ \E r \in Readers, c \in Consumers : ReadMessage(r, c)
    \/ Break

Spec == Init /\ [][Next]_vars

-----------------------------------------------------------------------------
(* TypeOK: the count, the flags, the locks, the threads and the broker's view keep values of their types. *)
TypeOK ==
    /\ life \in [Consumers -> {"new", "listed", "open", "delisted", "closed"}]
    /\ counter \in Int
    /\ flag \in [Consumers -> Nat] /\ tasks \in [Consumers -> Nat]
    /\ fresh \in [Consumers -> BOOLEAN]
    /\ chan \in [Consumers -> Threads \cup {None}]
    /\ complete \in BOOLEAN /\ stalled \subseteq Consumers
    /\ connected \in BOOLEAN /\ owner \in Threads \cup {None}
    /\ intr \in [by : Threads \cup {None}, left : SUBSET Consumers, cur : Consumers \cup {None}]
    /\ pc \in [Threads -> {"idle", "check", "lock", "clear", "unflag", "dispatch", "signal",
                          "controls", "wipe"}]
    /\ target \in [Threads -> Consumers \cup {None}]
    /\ held \in [Readers -> BOOLEAN] /\ ctl \in [Threads -> SUBSET Consumers]
    /\ closing \subseteq Readers /\ joining \in Readers \cup {None}
    /\ raced \in BOOLEAN /\ doubled \subseteq Consumers
    /\ alive \in BOOLEAN /\ breaks \in 0..MaxBreaks
    /\ prefetch \in [Consumers -> {Unknown, 0, Full}]

(* Nothing is left to do for the interruptions and messages so far. *)
Settled ==
    /\ connected /\ alive /\ owner = None
    /\ \A t \in Threads : pc[t] = "idle"
    /\ \A c \in Consumers : tasks[c] = 0

(***************************************************************************)
(* FedAgain: when the recovery is over every open consumer has its prefetch *)
(* again.  One that still has prefetch 0 then gets no message until the    *)
(* connection breaks the next time: nobody is left to send it a control.   *)
(***************************************************************************)
FedAgain == Settled => \A c \in Listed : prefetch[c] # 0

(***************************************************************************)
(* FedUnlessRaced: so it is outside two windows, however many              *)
(* interruptions come while tasks are still to run and whichever thread    *)
(* clears.  The first is a clear ahead of the count: it comes during an    *)
(* interruption, after the flag, and finds the count at zero or below.     *)
(* The second is an interruption between the step that takes the count to  *)
(* zero, or finds it positive, and the one that sets it to zero after the  *)
(* controls.                                                               *)
(***************************************************************************)
FedUnlessRaced == ~raced => FedAgain

(* Every thread is done, and there is a connection. *)
AllDone == connected /\ \A t \in Threads : pc[t] = "idle"

(* The runner waits for a reader, and a thread waits for the connection only it can make. *)
JoinCircle ==
    /\ joining # None /\ pc[joining] # "idle"
    /\ ~connected
    /\ \E t \in Clearers : pc[t] = "controls" /\ ctl[t] # {}

(***************************************************************************)
(* NobodyStuck: the threads wait for one another in a circle, for          *)
(* reconnectMutex, a channel's lock, the dispatchers' lock, a connection   *)
(* or the end of a reader, in one case only: the runner is in the close of *)
(* a failed connection whose reader, or the thread it waits for, has a     *)
(* control to send and waits for the next connection, although the close   *)
(* task "prevents a deadlock" (comment in iterate).  In every other state  *)
(* some thread can go on, or all are done and there is a connection.       *)
(***************************************************************************)
NobodyStuck == ~ENABLED Work => AllDone \/ JoinCircle

(***************************************************************************)
(* FreshKept: a message that came on the connection that works now is not  *)
(* among what the clearing of its consumer throws away, the broker would   *)
(* count it as delivered and not send it again; unless the consumer was    *)
(* flagged by two interruptions before it was cleared for the first.       *)
(***************************************************************************)
FreshKept ==
    [][\A t \in Threads :
        Clear(t) /\ target[t] \notin doubled => ~fresh[target[t]]]_vars
=============================================================================
