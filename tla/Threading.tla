----------------------------- MODULE Threading -----------------------------
(***************************************************************************)
(* The monitors of decaf/internal/util/concurrent/Threading.cpp, built     *)
(* from pthread mutexes and one condition variable per thread.  Every      *)
(* synchronized block and every wait and notify of the client library goes *)
(* through this code.                                                      *)
(*                                                                         *)
(* A monitor has a lock, which its owner holds, and a mutex, which guards  *)
(* the queues of blocked and of waiting threads.  A thread sleeps on its   *)
(* own condition with the monitor's mutex; a broadcast wakes it only if it *)
(* sleeps.  interrupt() cannot wake a waiting thread by itself: it starts  *)
(* a helper thread that enters the monitor first.                          *)
(*                                                                         *)
(* One monitor is modelled.  What happens under a thread's own mutex or    *)
(* the library's lock alone is one step; so is what happens under the      *)
(* monitor's mutex, except where the lock is given up half-way.            *)
(***************************************************************************)
EXTENDS Naturals, Sequences, SequencesExt, FiniteSets

CONSTANTS Threads,       \* the threads that use the monitor
          Helpers,       \* the interruption threads there can be
          MaxDepth       \* bound on how often the owner enters

ASSUME ThreadingAssumption ==
    /\ Threads \cap Helpers = {} /\ "nobody" \notin Threads \cup Helpers
    /\ MaxDepth \in Nat \ {0}

Nobody == "nobody"
All == Threads \cup Helpers

VARIABLES
    pc,           \* where each thread is
    lock,         \* the thread that has the monitor's lock
    mutex,        \* the thread that keeps the monitor's mutex between steps
    owner,        \* the monitor's owner
    count,        \* and count
    blocking,     \* queue of threads that want to enter
    waiting,      \* queue of threads in wait
    signalled,    \* the thread's condition was signalled while it slept
    isWaiting,    \* the thread's flag waiting
    notified,     \* its flag notified
    interrupted,  \* its flag interrupted
    timerSet,     \* its wait has a time limit
    saved,        \* doWaitOnMonitor's local count, 0 outside a wait
    helper,       \* its interruptingThread
    target,       \* the thread a helper is to interrupt
    canceled      \* the helper's flag canceled

monitor == <<lock, mutex, owner, count, blocking, waiting>>
flags   == <<isWaiting, notified, interrupted, timerSet>>
helping == <<helper, target, canceled>>
vars    == <<pc, monitor, signalled, flags, saved, helping>>

Init ==
    /\ pc = [t \in All |-> IF t \in Threads THEN "idle" ELSE "unborn"]
    /\ lock = Nobody /\ mutex = Nobody /\ owner = Nobody /\ count = 0
    /\ blocking = <<>> /\ waiting = <<>>
    /\ signalled = [t \in All |-> FALSE]
    /\ isWaiting = [t \in Threads |-> FALSE]
    /\ notified = [t \in Threads |-> FALSE]
    /\ interrupted = [t \in Threads |-> FALSE]
    /\ timerSet = [t \in Threads |-> FALSE]
    /\ saved = [t \in All |-> 0]
    /\ helper = [t \in Threads |-> Nobody]
    /\ target = [h \in Helpers |-> Nobody]
    /\ canceled = [h \in Helpers |-> FALSE]

Go(t, place) == pc' = [pc EXCEPT ![t] = place]

(* A broadcast on the conditions of ts reaches the ones that sleep. *)
Asleep(t) == pc[t] \in {"blocked", "asleep"}
Signal(ts) == signalled' = [t \in All |-> signalled[t] \/ (t \in ts /\ Asleep(t))]

-----------------------------------------------------------------------------
(* enterMonitor and doMonitorEnter *)

EnterMonitor(t) ==
    /\ pc[t] = "idle"
    /\ Go(t, "try")
    /\ UNCHANGED <<monitor, signalled, flags, saved, helping>>

EnterAgain(t) ==
    /\ pc[t] = "owner" /\ owner = t /\ count < MaxDepth
    /\ count' = count + 1
    /\ UNCHANGED <<pc, lock, mutex, owner, blocking, waiting, signalled, flags, saved, helping>>

(* Fault: the count a wait was entered with is not restored. *)
GetsAtDepthOne(t) ==
    /\ lock' = t
    /\ owner' = t
    /\ count' = 1
    /\ saved' = [saved EXCEPT ![t] = 0]
    /\ Go(t, IF t \in Helpers THEN "inside" ELSE "owner")

(* The lock is taken; a thread back from a wait restores its count. *)
Gets(t) ==
    /\ lock' = t
    /\ owner' = t
    /\ count' = IF saved[t] = 0 THEN 1 ELSE saved[t]
    /\ saved' = [saved EXCEPT ![t] = 0]
    /\ Go(t, IF t \in Helpers THEN "inside" ELSE "owner")

(* The first attempt needs no mutex. *)
TryEnter(t) ==
    /\ pc[t] = "try"
    /\ IF lock = Nobody THEN Gets(t) ELSE Go(t, "slow") /\ UNCHANGED <<lock, owner, count, saved>>
    /\ UNCHANGED <<mutex, blocking, waiting, signalled, flags, helping>>

(* tryEnterMonitor makes this attempt only. *)
TryEnterMonitor(t) ==
    /\ pc[t] = "idle" /\ lock = Nobody
    /\ Gets(t)
    /\ UNCHANGED <<mutex, blocking, waiting, signalled, flags, helping>>

(* The second is made with the mutex; after it the thread queues and sleeps. *)
EnterOrBlock(t) ==
    /\ pc[t] = "slow" /\ mutex = Nobody
    /\ IF lock = Nobody
       THEN Gets(t) /\ UNCHANGED <<blocking, signalled>>
       ELSE /\ blocking' = Append(blocking, t)
            /\ signalled' = [signalled EXCEPT ![t] = FALSE]
            /\ Go(t, "blocked")
            /\ UNCHANGED <<lock, owner, count, saved>>
    /\ UNCHANGED <<mutex, waiting, flags, helping>>

(* Fault: a thread that is woken takes the monitor to be its own. *)
WokenOwns(t) ==
    /\ pc[t] = "blocked" /\ signalled[t] /\ mutex = Nobody
    /\ blocking' = RemoveFirst(blocking, t)
    /\ Gets(t)
    /\ UNCHANGED <<mutex, waiting, signalled, flags, helping>>

(* Awake again, the thread leaves the queue (dequeueThread) and starts over. *)
Unblocked(t) ==
    /\ pc[t] = "blocked" /\ signalled[t] /\ mutex = Nobody
    /\ blocking' = RemoveFirst(blocking, t)
    /\ Go(t, "try")
    /\ UNCHANGED <<lock, mutex, owner, count, waiting, signalled, flags, saved, helping>>

-----------------------------------------------------------------------------
(* exitMonitor and doMonitorExit *)
ExitMonitor(t) ==
    /\ pc[t] \in {"owner", "leaving"} /\ owner = t
    /\ count' = count - 1
    /\ IF count = 1
       THEN owner' = Nobody /\ Go(t, "release")
       ELSE UNCHANGED <<owner, pc>>
    /\ UNCHANGED <<lock, mutex, blocking, waiting, signalled, flags, saved, helping>>

(* Fault: the lock is given back and nobody is woken. *)
ReleasesQuietly(t) ==
    /\ pc[t] = "release" /\ mutex = Nobody
    /\ lock' = Nobody
    /\ Go(t, IF t \in Helpers THEN "dead" ELSE "idle")
    /\ UNCHANGED <<mutex, owner, count, blocking, waiting, signalled, flags, saved, helping>>

(* Blocked threads are woken and the lock given back, all with the mutex. *)
Release(t) ==
    /\ pc[t] = "release" /\ mutex = Nobody
    /\ Signal(ToSet(blocking))
    /\ lock' = Nobody
    /\ Go(t, IF t \in Helpers THEN "dead" ELSE "idle")
    /\ UNCHANGED <<mutex, owner, count, blocking, waiting, flags, saved, helping>>

-----------------------------------------------------------------------------
(* waitOnMonitor and doWaitOnMonitor *)

(* An interrupt that is pending ends the wait before it begins. *)
WaitInterrupted(t) ==
    /\ pc[t] = "owner" /\ interrupted[t]
    /\ interrupted' = [interrupted EXCEPT ![t] = FALSE]
    /\ UNCHANGED <<pc, monitor, signalled, isWaiting, notified, timerSet, saved, helping>>

WaitOnMonitor(t, timed) ==
    /\ pc[t] = "owner" /\ ~interrupted[t]
    /\ isWaiting' = [isWaiting EXCEPT ![t] = TRUE]
    /\ timerSet' = [timerSet EXCEPT ![t] = timed]
    /\ saved' = [saved EXCEPT ![t] = count]
    /\ owner' = Nobody /\ count' = 0
    /\ Go(t, "giveup")
    /\ UNCHANGED <<lock, mutex, blocking, waiting, signalled, notified, interrupted, helping>>

(* Fault: the thread queues when it gives the lock back, without the mutex. *)
QueuesUnguarded(t) ==
    /\ pc[t] = "giveup" /\ mutex = Nobody
    /\ lock' = Nobody
    /\ waiting' = Append(waiting, t)
    /\ Go(t, "queue")
    /\ UNCHANGED <<mutex, owner, count, blocking, signalled, flags, saved, helping>>

(* With the mutex, the lock is given back: others can take it without the mutex. *)
GiveUpLock(t) ==
    /\ pc[t] = "giveup" /\ mutex = Nobody
    /\ mutex' = t
    /\ lock' = Nobody
    /\ Go(t, "queue")
    /\ UNCHANGED <<owner, count, blocking, waiting, signalled, flags, saved, helping>>

(* The blocked threads are woken, then the thread queues and sleeps. *)
QueueUp(t) ==
    /\ pc[t] = "queue"
    /\ signalled' = [u \in All |-> u # t /\ (signalled[u] \/ (u \in ToSet(blocking) /\ Asleep(u)))]
    /\ waiting' = Append(waiting, t)
    /\ mutex' = Nobody
    /\ Go(t, "asleep")
    /\ UNCHANGED <<lock, owner, count, blocking, flags, saved, helping>>

(* MonitorWaitCompletionCondition, evaluated with the mutex after each wake-up. *)
WaitComplete(t) == notified[t] \/ interrupted[t]

(* The wait is over: flags are reset, a helper that is on its way is canceled. *)
WaitEnds(t) ==
    /\ waiting' = RemoveFirst(waiting, t)
    /\ isWaiting' = [isWaiting EXCEPT ![t] = FALSE]
    /\ notified' = [notified EXCEPT ![t] = FALSE]
    /\ timerSet' = [timerSet EXCEPT ![t] = FALSE]
    /\ interrupted' = [interrupted EXCEPT ![t] = @ /\ notified[t]]
    /\ canceled' = [h \in Helpers |-> canceled[h] \/ h = helper[t]]
    /\ helper' = [helper EXCEPT ![t] = Nobody]
    /\ Go(t, "try")
    /\ UNCHANGED <<lock, mutex, owner, count, blocking, signalled, saved, target>>

Wakes(t) ==
    /\ pc[t] = "asleep" /\ signalled[t] /\ mutex = Nobody
    /\ IF WaitComplete(t)
       THEN WaitEnds(t)
       ELSE /\ signalled' = [signalled EXCEPT ![t] = FALSE]
            /\ UNCHANGED <<pc, monitor, flags, saved, helping>>

TimesOut(t) ==
    /\ pc[t] = "asleep" /\ timerSet[t] /\ mutex = Nobody
    /\ WaitEnds(t)

(* The operating system may wake a sleeper for no reason. *)
Spurious(t) ==
    /\ Asleep(t) /\ ~signalled[t]
    /\ signalled' = [signalled EXCEPT ![t] = TRUE]
    /\ UNCHANGED <<pc, monitor, flags, saved, helping>>

-----------------------------------------------------------------------------
(* notifyWaiter and notifyAllWaiters; doNotifyThread *)

Notifiable == {i \in DOMAIN waiting : isWaiting[waiting[i]]}
FirstOf(is) == {waiting[i] : i \in {j \in is : \A k \in is : j <= k}}

NotifyThreads(t, ts) ==
    /\ pc[t] = "owner" /\ mutex = Nobody
    /\ isWaiting' = [u \in Threads |-> isWaiting[u] /\ u \notin ts]
    /\ notified' = [u \in Threads |-> notified[u] \/ u \in ts]
    /\ Signal(ts)
    /\ UNCHANGED <<pc, monitor, interrupted, timerSet, saved, helping>>

NotifyWaiter(t) == NotifyThreads(t, FirstOf(Notifiable))
NotifyAllWaiters(t) == NotifyThreads(t, {waiting[i] : i \in Notifiable})

-----------------------------------------------------------------------------
(* interrupt, and the thread it starts for a target in wait *)

(* The library's globalLock: a helper keeps it from its second check on. *)
GlobalLockFree == \A h \in Helpers : pc[h] # "notify"

Interrupt(t) ==
    /\ ~interrupted[t] /\ GlobalLockFree
    /\ interrupted' = [interrupted EXCEPT ![t] = TRUE]
    /\ IF isWaiting[t]
       THEN \E h \in Helpers :
              /\ pc[h] = "unborn"
              /\ helper' = [helper EXCEPT ![t] = h]
              /\ target' = [target EXCEPT ![h] = t]
              /\ Go(h, "born")
              /\ UNCHANGED canceled
       ELSE UNCHANGED <<pc, helping>>
    /\ UNCHANGED <<monitor, signalled, isWaiting, notified, timerSet, saved>>

(* Threading::interrupted tells a thread of its flag and takes it back. *)
TestInterrupted(t) ==
    /\ pc[t] = "idle" /\ interrupted[t]
    /\ interrupted' = [interrupted EXCEPT ![t] = FALSE]
    /\ UNCHANGED <<pc, monitor, signalled, isWaiting, notified, timerSet, saved, helping>>

(* A helper that is not wanted any more ends, the others enter the monitor. *)
HelperStarts(h) ==
    /\ pc[h] = "born" /\ GlobalLockFree
    /\ Go(h, IF canceled[h] \/ helper[target[h]] # h THEN "dead" ELSE "try")
    /\ UNCHANGED <<monitor, signalled, flags, saved, helping>>

(* Canceled meanwhile: the thread ends here, with the monitor entered. *)
HelperChecks(h) ==
    /\ pc[h] = "inside" /\ GlobalLockFree
    /\ Go(h, IF canceled[h] THEN "dead" ELSE "notify")
    /\ UNCHANGED <<monitor, signalled, flags, saved, helping>>

HelperNotifies(h) ==
    LET t == target[h] IN
    /\ pc[h] = "notify"
    /\ IF helper[t] = h /\ isWaiting[t]
       THEN /\ isWaiting' = [isWaiting EXCEPT ![t] = FALSE]
            /\ Signal({t})
       ELSE UNCHANGED <<isWaiting, signalled>>
    /\ helper' = [helper EXCEPT ![t] = Nobody]
    /\ Go(h, "leaving")
    /\ UNCHANGED <<monitor, notified, interrupted, timerSet, saved, target, canceled>>

-----------------------------------------------------------------------------
Entering(t) == TryEnter(t) \/ EnterOrBlock(t) \/ Unblocked(t)
Leaving(t) == ExitMonitor(t) \/ Release(t)
Waiting(t) == GiveUpLock(t) \/ QueueUp(t) \/ Wakes(t) \/ TimesOut(t)
Helping(h) == HelperStarts(h) \/ HelperChecks(h) \/ HelperNotifies(h)

Next ==
    \/ \E t \in All : Entering(t) \/ Leaving(t) \/ Spurious(t)
    \/ \E t \in Threads :
          \/ EnterMonitor(t) \/ TryEnterMonitor(t) \/ EnterAgain(t)
          \/ WaitInterrupted(t) \/ TestInterrupted(t)
          \/ \E timed \in BOOLEAN : WaitOnMonitor(t, timed)
          \/ Waiting(t) \/ NotifyWaiter(t) \/ NotifyAllWaiters(t) \/ Interrupt(t)
    \/ \E h \in Helpers : Helping(h)

Spec == Init /\ [][Next]_vars

-----------------------------------------------------------------------------
Places == {"unborn", "born", "inside", "notify", "leaving", "dead", "idle", "try", "slow", "blocked",
           "owner", "release", "giveup", "queue", "asleep"}

(* TypeOK: the monitor's fields, the queues and the threads' flags keep values of their types. *)
TypeOK ==
    /\ pc \in [All -> Places]
    /\ lock \in All \cup {Nobody} /\ mutex \in Threads \cup {Nobody} /\ owner \in All \cup {Nobody}
    /\ count \in 0..MaxDepth
    /\ blocking \in Seq(All) /\ waiting \in Seq(Threads)
    /\ signalled \in [All -> BOOLEAN]
    /\ isWaiting \in [Threads -> BOOLEAN] /\ notified \in [Threads -> BOOLEAN]
    /\ interrupted \in [Threads -> BOOLEAN] /\ timerSet \in [Threads -> BOOLEAN]
    /\ saved \in [All -> 0..MaxDepth]
    /\ helper \in [Threads -> Helpers \cup {Nobody}]
    /\ target \in [Helpers -> Threads \cup {Nobody}]
    /\ canceled \in [Helpers -> BOOLEAN]

(* The threads that are in the monitor, whatever its fields say. *)
Inside(t) == pc[t] \in {"owner", "release", "giveup", "inside", "notify", "leaving"}

(***************************************************************************)
(* MutualExclusion: one thread at a time is between doMonitorEnter and the *)
(* release of the lock, in exit or in wait, and the lock is its.           *)
(***************************************************************************)
MutualExclusion == \A t \in All : Inside(t) => lock = t

(***************************************************************************)
(* NoSleeperForgotten: a thread that sleeps because the monitor was taken  *)
(* is woken when it is free: nobody sleeps unsignalled on a free lock once *)
(* the thread that freed it has left the mutex.                            *)
(***************************************************************************)
NoSleeperForgotten ==
    lock = Nobody /\ mutex = Nobody => \A t \in All : pc[t] = "blocked" => signalled[t]

(***************************************************************************)
(* NotifyNotLost: a notification reaches a thread that sleeps, which is    *)
(* then sure to wake; it is never spent on one that has already left the   *)
(* wait or has not begun to sleep.                                         *)
(***************************************************************************)
NotifyNotLost == \A t \in Threads : notified[t] => pc[t] = "asleep" /\ signalled[t]

(***************************************************************************)
(* DeadOwnsNothing: a thread that has ended has left the monitor as often  *)
(* as it entered it.                                                       *)
(***************************************************************************)
DeadOwnsNothing == \A t \in All : pc[t] = "dead" => lock # t

(***************************************************************************)
(* ImplementsMonitor: the code behaves as a monitor should, with every     *)
(* interleaving of its steps, helpers and spurious wake-ups included.      *)
(***************************************************************************)
AbstractDepth ==
    IF lock = Nobody THEN 0
    ELSE IF pc[lock] = "release" THEN 1
    ELSE IF pc[lock] = "giveup" THEN saved[lock] ELSE count
AbstractPlace ==
    [t \in All |-> IF t \in Threads /\ pc[t] \in {"queue", "asleep"} /\ isWaiting[t] THEN "waiting"
                   ELSE IF saved[t] # 0 /\ pc[t] # "giveup" THEN "back" ELSE "out"]
AbstractSaved == [t \in All |-> IF pc[t] = "giveup" THEN 0 ELSE saved[t]]

M == INSTANCE Monitor WITH Users <- All, owner <- lock, depth <- AbstractDepth,
                           place <- AbstractPlace, saved <- AbstractSaved
ImplementsMonitor == M!Spec
=============================================================================
