-------------------------- MODULE SessionDispatch --------------------------
(***************************************************************************)
(* How a message gets from the transport thread to a consumer's listener:  *)
(* ActiveMQSessionExecutor and its task runner thread, the session's list  *)
(* of consumers, and each consumer's own channel of messages it could not  *)
(* hand over at once.  Connection start, stop and setMessageListener run   *)
(* in application threads while messages arrive.                           *)
(*                                                                         *)
(* The session dispatches asynchronously (alwaysSessionAsync, the default) *)
(* and is not transacted.  A read lock on the consumer list excludes       *)
(* nobody here and is left out.  Two locks matter: each consumer's channel *)
(* lock and its listenerMutex, both held while the listener runs.          *)
(***************************************************************************)
EXTENDS Naturals, Sequences, SequencesExt, FiniteSets

CONSTANTS Messages,
          NumConsumers,  \* the session's consumers are 1..NumConsumers, in list order
          Target,        \* [Messages -> consumer the broker sends it to]
          Runners,       \* task runners the executor can create
          Controllers,   \* application threads
          Ops,           \* calls they make: "start", "stop", "listen"
          MaxOps,        \* bound on the number of calls
          Listening      \* consumers that have a listener from the beginning

Consumers == 1..NumConsumers

NoRunner == "none"
NoMessage == "none"

(* The transport thread that calls execute. *)
Dispatcher == "dispatcher"
Actors == Controllers \cup {Dispatcher}

ASSUME DispatchAssumption ==
    /\ IsFiniteSet(Messages) /\ IsFiniteSet(Runners)
    /\ NumConsumers \in Nat \ {0}
    /\ Target \in [Messages -> Consumers]
    /\ Ops \subseteq {"start", "stop", "listen"}
    /\ MaxOps \in Nat /\ Cardinality(Runners) >= MaxOps
    /\ Listening \subseteq Consumers
    /\ NoRunner \notin Runners /\ NoMessage \notin Messages
    /\ Dispatcher \notin Controllers

VARIABLES
    started,     \* the connection's started flag
    queue,       \* the executor's messageQueue
    running,     \* messageQueue->isRunning()
    taskRunner,  \* the executor's taskRunner
    cRunning,    \* per consumer: unconsumedMessages->isRunning()
    cQueue,      \* per consumer: unconsumedMessages
    listener,    \* per consumer: has a listener
    chanLock,    \* per consumer: the runner that holds the channel's lock
    lsnLock,     \* per consumer: the runner that holds listenerMutex
    audit,       \* messages the connection's audit has seen
    runner,      \* every task runner and its thread
    actor,       \* every other thread
    ops,         \* number of calls made
    arrived,     \* history: the messages in the order the broker sent them
    delivered,   \* history: the messages in the order listeners got them
    poisoned,    \* history: the messages acknowledged as poison
    missed,      \* history: the messages a running consumer without a listener kept
    overlapped   \* history: a call began while another thread was inside one

executor  == <<queue, running, taskRunner>>
consumers == <<cRunning, cQueue, listener>>
locks     == <<chanLock, lsnLock>>
history   == <<audit, arrived, delivered, poisoned, missed>>
vars == <<started, executor, consumers, locks, history, runner, actor, ops, overlapped>>

Init ==
    /\ started = FALSE
    /\ queue = <<>>
    /\ running = FALSE
    /\ taskRunner = NoRunner
    /\ cRunning = [c \in Consumers |-> FALSE]
    /\ cQueue = [c \in Consumers |-> <<>>]
    /\ listener = [c \in Consumers |-> c \in Listening]
    /\ chanLock = [c \in Consumers |-> NoRunner]
    /\ lsnLock = [c \in Consumers |-> NoRunner]
    /\ audit = {}
    /\ runner = [r \in Runners |->
                   [pc |-> "new", pending |-> FALSE, shutDown |-> FALSE,
                    idx |-> 1, msg |-> NoMessage, fromSession |-> FALSE]]
    /\ actor = [a \in Actors |->
                  [pc |-> "idle", ret |-> "idle", idx |-> 1, runner |-> NoRunner,
                   op |-> "none", con |-> 1, restart |-> FALSE, left |-> <<>>]]
    /\ ops = 0
    /\ arrived = <<>>
    /\ delivered = <<>>
    /\ poisoned = {}
    /\ missed = {}
    /\ overlapped = FALSE

-----------------------------------------------------------------------------
(***************************************************************************)
(* ActiveMQSessionExecutor::wakeup, called by any thread a with pc "wake"; *)
(* it goes on at ret.  First the block under the queue's lock: ...         *)
(***************************************************************************)

(* ... there is a runner, ... *)
WakeupFindsRunner(a) ==
    /\ actor[a].pc = "wake"
    /\ taskRunner # NoRunner
    /\ actor' = [actor EXCEPT ![a].pc = "notify", ![a].runner = taskRunner]
    /\ UNCHANGED <<started, executor, consumers, locks, history, runner, ops, overlapped>>

(* ... there is none and the queue is stopped, ... *)
WakeupStopped(a) ==
    /\ actor[a].pc = "wake"
    /\ taskRunner = NoRunner
    /\ ~running
    /\ actor' = [actor EXCEPT ![a].pc = actor[a].ret]
    /\ UNCHANGED <<started, executor, consumers, locks, history, runner, ops, overlapped>>

(* ... or there is none and a new one is created and started. *)
WakeupCreatesRunner(a) ==
    /\ actor[a].pc = "wake"
    /\ taskRunner = NoRunner
    /\ running
    /\ \E r \in Runners :
          /\ runner[r].pc = "new"
          /\ r = CHOOSE x \in Runners : runner[x].pc = "new"
          /\ runner' = [runner EXCEPT ![r].pc = "top", ![r].pending = TRUE]
          /\ taskRunner' = r
          /\ actor' = [actor EXCEPT ![a].pc = "notify", ![a].runner = r]
    /\ UNCHANGED <<started, queue, running, consumers, locks, history, ops, overlapped>>

(* Then, outside that lock, the runner's own wakeup. *)
WakeupNotifies(a) ==
    /\ actor[a].pc = "notify"
    /\ LET r == actor[a].runner
       IN  runner' = [runner EXCEPT ![r].pending = @ \/ ~runner[r].shutDown]
    /\ actor' = [actor EXCEPT ![a].pc = actor[a].ret, ![a].runner = NoRunner]
    /\ UNCHANGED <<started, executor, consumers, locks, history, ops, overlapped>>

(* Fault: a message is queued in front of those that came before it. *)
ExecuteAtFront(m) ==
    /\ actor[Dispatcher].pc = "idle"
    /\ m \notin ToSet(arrived)
    /\ arrived' = Append(arrived, m)
    /\ queue' = <<m>> \o queue
    /\ actor' = [actor EXCEPT ![Dispatcher].pc = "wake", ![Dispatcher].ret = "idle"]
    /\ UNCHANGED <<started, running, taskRunner, consumers, locks, audit, delivered,
                   poisoned, missed, runner, ops, overlapped>>

(* execute: the transport thread queues a message and wakes the executor. *)
Execute(m) ==
    /\ actor[Dispatcher].pc = "idle"
    /\ m \notin ToSet(arrived)
    /\ arrived' = Append(arrived, m)
    /\ queue' = Append(queue, m)
    /\ actor' = [actor EXCEPT ![Dispatcher].pc = "wake", ![Dispatcher].ret = "idle"]
    /\ UNCHANGED <<started, running, taskRunner, consumers, locks, audit, delivered,
                   poisoned, missed, runner, ops, overlapped>>

-----------------------------------------------------------------------------
(* Thread k makes a call; others may be inside theirs. *)
CallBegins(k) ==
    /\ ops < MaxOps
    /\ actor[k].pc = "idle"
    /\ ops' = ops + 1
    /\ overlapped' = (overlapped \/ \E j \in Controllers \ {k} : actor[j].pc # "idle")

(* A call that finds the flag already set returns without doing anything. *)
ConnectionStart(k) ==
    /\ "start" \in Ops /\ CallBegins(k)
    /\ ~started
    /\ started' = TRUE
    /\ actor' = [actor EXCEPT ![k].pc = "cstart", ![k].idx = 1, ![k].op = "start"]
    /\ UNCHANGED <<executor, consumers, locks, history, runner>>

ConnectionStop(k) ==
    /\ "stop" \in Ops /\ CallBegins(k)
    /\ started
    /\ started' = FALSE
    /\ actor' = [actor EXCEPT ![k].pc = "cstop", ![k].idx = 1, ![k].op = "stop"]
    /\ UNCHANGED <<executor, consumers, locks, history, runner>>

(* setMessageListener stops the session, if it runs, around the change. *)
SetMessageListener(k, c) ==
    /\ "listen" \in Ops /\ CallBegins(k)
    /\ ~listener[c]
    /\ actor' = [actor EXCEPT ![k].pc = IF running THEN "cstop" ELSE "assign",
                              ![k].idx = 1,
                              ![k].op = "listen", ![k].con = c, ![k].restart = running]
    /\ UNCHANGED <<started, executor, consumers, locks, history, runner>>

(* SessionKernel::start, one consumer: its channel starts, the executor is woken. *)
ConsumerStart(k) ==
    /\ actor[k].pc = "cstart"
    /\ LET c == actor[k].idx
       IN  /\ chanLock[c] = NoRunner
           /\ cRunning' = [cRunning EXCEPT ![c] = TRUE]
           /\ actor' = [actor EXCEPT ![k].pc = "wake",
                                     ![k].ret = IF c = NumConsumers THEN "xstart" ELSE "cstart",
                                     ![k].idx = IF c = NumConsumers THEN c ELSE c + 1]
    /\ UNCHANGED <<started, executor, cQueue, listener, locks, history, runner, ops, overlapped>>

ExecutorStart(k) ==
    /\ actor[k].pc = "xstart"
    /\ running' = TRUE
    /\ actor' = [actor EXCEPT ![k].pc = IF running THEN "idle" ELSE "check"]
    /\ UNCHANGED <<started, queue, taskRunner, consumers, locks, history, runner, ops, overlapped>>

(* hasUncomsumedMessages looks at the session's queue only. *)
WakeIfQueued(k) ==
    /\ actor[k].pc = "check"
    /\ actor' = [actor EXCEPT ![k].pc = IF running /\ queue # <<>> THEN "wake" ELSE "idle",
                              ![k].ret = "idle"]
    /\ UNCHANGED <<started, executor, consumers, locks, history, runner, ops, overlapped>>

(* SessionKernel::stop, one consumer: waits for a delivery to that consumer to end. *)
ConsumerStop(k) ==
    /\ actor[k].pc = "cstop"
    /\ LET c == actor[k].idx
       IN  /\ chanLock[c] = NoRunner
           /\ cRunning' = [cRunning EXCEPT ![c] = FALSE]
           /\ actor' = [actor EXCEPT ![k].pc = IF c = NumConsumers THEN "xstop" ELSE "cstop",
                                     ![k].idx = IF c = NumConsumers THEN c ELSE c + 1]
    /\ UNCHANGED <<started, executor, cQueue, listener, locks, history, runner, ops, overlapped>>

(* Where a thread goes on when SessionKernel::stop returns. *)
AfterStop(k) == IF actor[k].op = "stop" THEN "idle" ELSE "assign"

(* Fault: stop forgets the runner without shutting it down. *)
ExecutorForgetsRunner(k) ==
    /\ actor[k].pc = "xstop"
    /\ running' = FALSE
    /\ taskRunner' = IF running THEN NoRunner ELSE taskRunner
    /\ actor' = [actor EXCEPT ![k].pc = AfterStop(k)]
    /\ UNCHANGED <<started, queue, consumers, locks, history, runner, ops, overlapped>>

(* Under the queue's lock: stop it and take the runner out. *)
ExecutorStop(k) ==
    /\ actor[k].pc = "xstop"
    /\ running' = FALSE
    /\ taskRunner' = IF running THEN NoRunner ELSE taskRunner
    /\ LET none == ~running \/ taskRunner = NoRunner
       IN  actor' = [actor EXCEPT ![k].pc = IF none THEN AfterStop(k) ELSE "shutdown",
                                  ![k].runner = IF none THEN NoRunner ELSE taskRunner]
    /\ UNCHANGED <<started, queue, consumers, locks, history, runner, ops, overlapped>>

(* Fault: shutdown wakes the runner without telling it to stop. *)
ShutdownWithoutFlag(k) ==
    /\ actor[k].pc = "shutdown"
    /\ runner' = [runner EXCEPT ![actor[k].runner].pending = TRUE]
    /\ actor' = [actor EXCEPT ![k].pc = "join"]
    /\ UNCHANGED <<started, executor, consumers, locks, history, ops, overlapped>>

(* The runner's shutdown: the flags, ... *)
RunnerShutdown(k) ==
    /\ actor[k].pc = "shutdown"
    /\ runner' = [runner EXCEPT ![actor[k].runner].pending = TRUE,
                                ![actor[k].runner].shutDown = TRUE]
    /\ actor' = [actor EXCEPT ![k].pc = "join"]
    /\ UNCHANGED <<started, executor, consumers, locks, history, ops, overlapped>>

(* Fault: shutdown returns while the runner may still be delivering. *)
RunnerNotJoined(k) ==
    /\ actor[k].pc = "join"
    /\ actor' = [actor EXCEPT ![k].pc = AfterStop(k), ![k].runner = NoRunner]
    /\ UNCHANGED <<started, executor, consumers, locks, history, runner, ops, overlapped>>

(* ... then join. *)
RunnerJoined(k) ==
    /\ actor[k].pc = "join"
    /\ runner[actor[k].runner].pc = "exited"
    /\ actor' = [actor EXCEPT ![k].pc = AfterStop(k), ![k].runner = NoRunner]
    /\ UNCHANGED <<started, executor, consumers, locks, history, runner, ops, overlapped>>

AssignListener(k) ==
    /\ actor[k].pc = "assign"
    /\ lsnLock[actor[k].con] = NoRunner
    /\ listener' = [listener EXCEPT ![actor[k].con] = TRUE]
    /\ actor' = [actor EXCEPT ![k].pc = "redispatch"]
    /\ UNCHANGED <<started, executor, cRunning, cQueue, locks, history, runner, ops, overlapped>>

(* redispatch: everything the consumer holds, last message first, ... *)
Redispatch(k) ==
    /\ actor[k].pc = "redispatch"
    /\ chanLock[actor[k].con] = NoRunner
    /\ actor' = [actor EXCEPT ![k].pc = "first", ![k].left = Reverse(cQueue[actor[k].con])]
    /\ cQueue' = [cQueue EXCEPT ![actor[k].con] = <<>>]
    /\ UNCHANGED <<started, executor, cRunning, listener, locks, history, runner, ops, overlapped>>

(* ... goes to the front of the session's queue, each followed by a wakeup. *)
ExecuteFirst(k) ==
    /\ actor[k].pc = "first"
    /\ actor[k].left # <<>>
    /\ queue' = <<Head(actor[k].left)>> \o queue
    /\ actor' = [actor EXCEPT ![k].pc = "wake", ![k].ret = "first", ![k].left = Tail(@)]
    /\ UNCHANGED <<started, running, taskRunner, consumers, locks, history, runner, ops, overlapped>>

RedispatchDone(k) ==
    /\ actor[k].pc = "first"
    /\ actor[k].left = <<>>
    /\ actor' = [actor EXCEPT ![k].pc = IF actor[k].restart THEN "cstart" ELSE "idle",
                              ![k].idx = 1]
    /\ UNCHANGED <<started, executor, consumers, locks, history, runner, ops, overlapped>>

-----------------------------------------------------------------------------
(* DedicatedTaskRunner::run and what it calls, in the thread of runner r. *)
At(r, pc) == runner[r].pc = pc

(* The top of the loop: clear pending, leave on shutdown. *)
Top(r) ==
    /\ At(r, "top")
    /\ runner' = [runner EXCEPT ![r].pending = FALSE, ![r].idx = 1,
                                ![r].pc = IF runner[r].shutDown THEN "exited" ELSE "iterate"]
    /\ UNCHANGED <<started, executor, consumers, locks, history, actor, ops, overlapped>>

(* iterateConsumers asks the next consumer, which takes its listenerMutex ... *)
IterateConsumer(r) ==
    /\ At(r, "iterate")
    /\ lsnLock[runner[r].idx] = NoRunner
    /\ lsnLock' = [lsnLock EXCEPT ![runner[r].idx] = r]
    /\ runner' = [runner EXCEPT ![r].pc = "dequeue"]
    /\ UNCHANGED <<started, executor, consumers, chanLock, history, actor, ops, overlapped>>

(* ... and, with a listener and a message it may take, dispatches the message, ... *)
ConsumerDequeues(r) ==
    /\ At(r, "dequeue")
    /\ LET c == runner[r].idx
       IN  /\ listener[c]
           /\ chanLock[c] = NoRunner
           /\ cRunning[c] /\ cQueue[c] # <<>>
           /\ cQueue' = [cQueue EXCEPT ![c] = Tail(@)]
           /\ runner' = [runner EXCEPT ![r].pc = "dispatch", ![r].fromSession = FALSE,
                                       ![r].msg = Head(cQueue[c])]
    /\ UNCHANGED <<started, executor, cRunning, listener, locks, history, actor, ops, overlapped>>

(* ... or has nothing to do; after the last one the session's queue is next. *)
ConsumerIdle(r) ==
    /\ At(r, "dequeue")
    /\ LET c == runner[r].idx
       IN  /\ listener[c] => chanLock[c] = NoRunner /\ (~cRunning[c] \/ cQueue[c] = <<>>)
           /\ lsnLock' = [lsnLock EXCEPT ![c] = NoRunner]
           /\ runner' = [runner EXCEPT ![r].pc = IF c = NumConsumers THEN "take" ELSE "iterate",
                                       ![r].idx = IF c = NumConsumers THEN c ELSE c + 1]
    /\ UNCHANGED <<started, executor, consumers, chanLock, history, actor, ops, overlapped>>

(* dequeueNoWait on the session's queue. *)
SessionDequeues(r) ==
    /\ At(r, "take")
    /\ running /\ queue # <<>>
    /\ queue' = Tail(queue)
    /\ runner' = [runner EXCEPT ![r].pc = "dispatch", ![r].fromSession = TRUE,
                                ![r].msg = Head(queue)]
    /\ UNCHANGED <<started, running, taskRunner, consumers, locks, history, actor, ops, overlapped>>

SessionIdle(r) ==
    /\ At(r, "take")
    /\ ~(running /\ queue # <<>>)
    /\ runner' = [runner EXCEPT ![r].pc = "sleep"]
    /\ UNCHANGED <<started, executor, consumers, locks, history, actor, ops, overlapped>>

(* Where the runner goes on after dispatch, and the locks it gives back. *)
DispatchReturns(r) ==
    /\ runner' = [runner EXCEPT ![r].pc = IF runner[r].fromSession THEN "more" ELSE "top",
                                ![r].msg = NoMessage]
    /\ LET c == Target[runner[r].msg]
       IN  /\ chanLock' = [chanLock EXCEPT ![c] = IF @ = r THEN NoRunner ELSE @]
           /\ lsnLock' = [lsnLock EXCEPT ![c] = IF @ = r THEN NoRunner ELSE @]

(* ConsumerKernel::dispatch locks the channel; a message not seen before goes on ... *)
DispatchFresh(r) ==
    /\ At(r, "dispatch")
    /\ LET m == runner[r].msg
       IN  /\ chanLock[Target[m]] = NoRunner
           /\ m \notin audit
           /\ audit' = audit \cup {m}
           /\ chanLock' = [chanLock EXCEPT ![Target[m]] = r]
    /\ runner' = [runner EXCEPT ![r].pc = "deliver"]
    /\ UNCHANGED <<started, executor, consumers, lsnLock, arrived, delivered, poisoned,
                   missed, actor, ops, overlapped>>

(* ... and one the audit has seen is acknowledged as poison. *)
DispatchDuplicate(r) ==
    /\ At(r, "dispatch")
    /\ chanLock[Target[runner[r].msg]] = NoRunner
    /\ runner[r].msg \in audit
    /\ poisoned' = poisoned \cup {runner[r].msg}
    /\ DispatchReturns(r)
    /\ UNCHANGED <<started, executor, consumers, audit, arrived, delivered, missed, actor, ops,
                   overlapped>>

(* With listenerMutex too: the listener is called, ... *)
OnMessage(r) ==
    /\ At(r, "deliver")
    /\ LET c == Target[runner[r].msg]
       IN  /\ lsnLock[c] \in {NoRunner, r}
           /\ listener[c] /\ cRunning[c]
           /\ lsnLock' = [lsnLock EXCEPT ![c] = r]
    /\ delivered' = Append(delivered, runner[r].msg)
    /\ runner' = [runner EXCEPT ![r].pc = "listener"]
    /\ UNCHANGED <<started, executor, consumers, chanLock, audit, arrived, poisoned,
                   missed, actor, ops, overlapped>>

(* Fault: the audit still knows a message that waits in a stopped channel. *)
ParkRemembered(r) ==
    /\ At(r, "deliver")
    /\ LET c == Target[runner[r].msg]
       IN  /\ lsnLock[c] \in {NoRunner, r}
           /\ ~(listener[c] /\ cRunning[c])
           /\ cQueue' = [cQueue EXCEPT ![c] = Append(@, runner[r].msg)]
           /\ missed' = IF cRunning[c] THEN missed \cup {runner[r].msg} ELSE missed
    /\ DispatchReturns(r)
    /\ UNCHANGED <<started, executor, cRunning, listener, audit, arrived, delivered, poisoned,
                   actor, ops, overlapped>>

(* ... or the message waits in the consumer's channel, forgotten by the audit when
   the reason is that the channel is stopped. *)
Park(r) ==
    /\ At(r, "deliver")
    /\ LET c == Target[runner[r].msg]
       IN  /\ lsnLock[c] \in {NoRunner, r}
           /\ ~(listener[c] /\ cRunning[c])
           /\ cQueue' = [cQueue EXCEPT ![c] = Append(@, runner[r].msg)]
           /\ audit' = IF cRunning[c] THEN audit ELSE audit \ {runner[r].msg}
           /\ missed' = IF cRunning[c] THEN missed \cup {runner[r].msg} ELSE missed
    /\ DispatchReturns(r)
    /\ UNCHANGED <<started, executor, cRunning, listener, arrived, delivered, poisoned,
                   actor, ops, overlapped>>

OnMessageReturns(r) ==
    /\ At(r, "listener")
    /\ DispatchReturns(r)
    /\ UNCHANGED <<started, executor, consumers, history, actor, ops, overlapped>>

(* iterate() answers whether the session's queue has more. *)
More(r) ==
    /\ At(r, "more")
    /\ runner' = [runner EXCEPT ![r].pc = IF queue # <<>> THEN "top" ELSE "sleep"]
    /\ UNCHANGED <<started, executor, consumers, locks, history, actor, ops, overlapped>>

(* The wait in run: over when pending or shutDown is set, and then back to the top. *)
Awake(r) ==
    /\ At(r, "sleep")
    /\ runner[r].pending \/ runner[r].shutDown
    /\ runner' = [runner EXCEPT ![r].pc = "top"]
    /\ UNCHANGED <<started, executor, consumers, locks, history, actor, ops, overlapped>>

-----------------------------------------------------------------------------
RunnerStep(r) ==
    \/ Top(r) \/ IterateConsumer(r) \/ ConsumerDequeues(r) \/ ConsumerIdle(r)
    \/ SessionDequeues(r) \/ SessionIdle(r) \/ DispatchFresh(r) \/ DispatchDuplicate(r)
    \/ OnMessage(r) \/ Park(r) \/ OnMessageReturns(r) \/ More(r) \/ Awake(r)

WakeupStep(a) ==
    WakeupFindsRunner(a) \/ WakeupStopped(a) \/ WakeupCreatesRunner(a) \/ WakeupNotifies(a)

(* What a controller does once it has made its call. *)
CallStep(k) ==
    \/ WakeupStep(k)
    \/ ConsumerStart(k) \/ ExecutorStart(k) \/ WakeIfQueued(k)
    \/ ConsumerStop(k) \/ ExecutorStop(k) \/ RunnerShutdown(k) \/ RunnerJoined(k)
    \/ AssignListener(k) \/ Redispatch(k) \/ ExecuteFirst(k) \/ RedispatchDone(k)

Next ==
    \/ \E m \in Messages : Execute(m)
    \/ WakeupStep(Dispatcher)
    \/ \E k \in Controllers :
          \/ ConnectionStart(k) \/ ConnectionStop(k)
          \/ \E c \in Consumers : SetMessageListener(k, c)
          \/ CallStep(k)
    \/ \E r \in Runners : RunnerStep(r)

Spec == Init /\ [][Next]_vars

-----------------------------------------------------------------------------
RunnerPC == {"new", "top", "iterate", "dequeue", "take", "dispatch", "deliver",
             "listener", "more", "sleep", "exited"}
ActorPC == {"idle", "wake", "notify", "cstart", "xstart", "check", "cstop", "xstop",
            "shutdown", "join", "assign", "redispatch", "first"}

RunnerState == [pc : RunnerPC, pending : BOOLEAN, shutDown : BOOLEAN, idx : Consumers,
                msg : Messages \cup {NoMessage}, fromSession : BOOLEAN]
ActorState == [pc : ActorPC, ret : ActorPC, idx : Consumers,
               runner : Runners \cup {NoRunner}, op : {"none", "start", "stop", "listen"},
               con : Consumers, restart : BOOLEAN, left : Seq(Messages)]

(* Every variable of the session has its type. *)
TypeOK ==
    /\ started \in BOOLEAN /\ running \in BOOLEAN
    /\ queue \in Seq(Messages)
    /\ taskRunner \in Runners \cup {NoRunner}
    /\ cRunning \in [Consumers -> BOOLEAN] /\ listener \in [Consumers -> BOOLEAN]
    /\ cQueue \in [Consumers -> Seq(Messages)]
    /\ chanLock \in [Consumers -> Runners \cup {NoRunner}]
    /\ lsnLock \in [Consumers -> Runners \cup {NoRunner}]
    /\ audit \subseteq Messages /\ poisoned \subseteq Messages /\ missed \subseteq Messages
    /\ overlapped \in BOOLEAN
    /\ arrived \in Seq(Messages) /\ delivered \in Seq(Messages)
    /\ ops \in 0..MaxOps
    /\ runner \in [Runners -> RunnerState]
    /\ actor \in [Actors -> ActorState]

(* No two threads are inside listeners of the session's consumers. *)
OneInListener ==
    \A r, q \in Runners : At(r, "listener") /\ At(q, "listener") => r = q

(***************************************************************************)
(* As long as calls follow one another, made by whichever threads, no two  *)
(* runners are inside listeners: a start never gives the executor a runner *)
(* while the one that a stop or a setMessageListener took out delivers.    *)
(***************************************************************************)
ListenersSerialized == ~overlapped => OneInListener

(***************************************************************************)
(* The same without the condition, as the interface says it: a session     *)
(* "serializes execution of message listeners registered with its message  *)
(* consumers" (cms/Session.h) and "Connections support concurrent use"     *)
(* (cms/Connection.h).                                                     *)
(***************************************************************************)
SerializedAlways == OneInListener

(* The connection is stopped, nobody is inside a call, and no runner is alive. *)
QuietWhenStopped ==
    ~started /\ (\A k \in Controllers : actor[k].pc = "idle") =>
        \A r \in Runners : runner[r].pc \in {"new", "exited"}

(***************************************************************************)
(* As long as calls follow one another nothing is delivered any more once  *)
(* stop has returned to its caller.                                        *)
(***************************************************************************)
StopEndsDelivery == ~overlapped => QuietWhenStopped

(* How often message m is in sequence s. *)
Count(s, m) == Cardinality({i \in DOMAIN s : s[i] = m})

(* m is on its way in thread r. *)
Carries(r, m) == runner[r].pc \in {"dispatch", "deliver"} /\ runner[r].msg = m

(***************************************************************************)
(* A message that arrived is in exactly one place: queued in the session,  *)
(* parked in its consumer, on its way, being redispatched, or given to the *)
(* listener.  Only one that came while its running consumer had no         *)
(* listener may end as poison instead: "redispatch all the messages that   *)
(* it missed" (setMessageListener) meets the audit, which has seen them.   *)
(***************************************************************************)
MessagesConserved ==
    \A m \in ToSet(arrived) :
        1 = Count(queue, m) + Count(cQueue[Target[m]], m) + Count(delivered, m)
            + Cardinality({r \in Runners : Carries(r, m)})
            + Cardinality({k \in Controllers : m \in ToSet(actor[k].left)})
            + Cardinality(poisoned \cap missed \cap {m})

(* A thread goes on with what it is at. *)
Work ==
    \/ WakeupStep(Dispatcher)
    \/ \E k \in Controllers : CallStep(k)
    \/ \E r \in Runners : RunnerStep(r)

(***************************************************************************)
(* As long as calls follow one another a start, stop or setMessageListener *)
(* that is under way is not stuck: stop's wait for its runner never meets  *)
(* one that waits for a lock or a wakeup nobody will give.  (When a start  *)
(* overtakes a stop two runners live, one of which may have a channel's    *)
(* lock in dispatch and want listenerMutex while the other has             *)
(* listenerMutex in iterate and wants the channel's lock.)                 *)
(***************************************************************************)
CallsGoOn ==
    ~overlapped /\ (\E k \in Controllers : actor[k].pc # "idle") => ENABLED Work

(***************************************************************************)
(* "It defines a serial order for the messages it consumes"                *)
(* (cms/Session.h): as long as calls follow one another and no runner was  *)
(* shut down a consumer's listener gets its messages in the order the      *)
(* broker sent them.  (A stop between iterate's dequeue and its dispatch   *)
(* does reorder them: dispatch puts the message back behind the others.)   *)
(***************************************************************************)
InOrderUntilStopped ==
    ~overlapped /\ (\A r \in Runners : ~At(r, "exited")) =>
        \A i, j \in DOMAIN delivered :
            i < j /\ Target[delivered[i]] = Target[delivered[j]] =>
                \E x, y \in DOMAIN arrived :
                    x < y /\ arrived[x] = delivered[i] /\ arrived[y] = delivered[j]

=============================================================================
