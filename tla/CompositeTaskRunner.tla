------------------------ MODULE CompositeTaskRunner ------------------------
(***************************************************************************)
(* The task runner the failover transport gives its reconnect, close and   *)
(* backup work to (activemq/threads/CompositeTaskRunner.cpp).  One thread  *)
(* asks the tasks in turn whether they have work, runs the first that has, *)
(* and sleeps on the runner's mutex when none has.                         *)
(*                                                                         *)
(* Two mutexes are involved.  "mutex" guards pending and shutdown; each of *)
(* its critical sections is one step.  "tasks" guards the list; the runner *)
(* holds it from the first isPending to the end of the task it runs, so    *)
(* addTask and removeTask are disabled while the runner scans.             *)
(***************************************************************************)
EXTENDS Naturals, Sequences, SequencesExt, FiniteSets

CONSTANTS Tasks,         \* all tasks
          FaultyTasks,   \* those whose iterate may throw
          StoppingTasks, \* those whose iterate may call shutdown
          Shutdowners    \* threads that call shutdown

ASSUME TasksAssumption ==
    /\ IsFiniteSet(Tasks)
    /\ FaultyTasks \subseteq Tasks
    /\ StoppingTasks \subseteq Tasks

VARIABLES
    tasks,            \* impl->tasks
    work,             \* tasks for which isPending() is true
    waking,           \* tasks whose client has made work and not yet called wakeup
    pending,          \* impl->pending
    shutdown,         \* impl->shutdown
    threadTerminated, \* impl->threadTerminated
    rpc,              \* where the runner thread is
    left,             \* how many tasks this scan has still to ask
    spc               \* where each thread that calls shutdown is

vars == <<tasks, work, waking, pending, shutdown, threadTerminated, rpc, left, spc>>

Init ==
    /\ tasks = <<>>
    /\ work = {}
    /\ waking = {}
    /\ pending = FALSE
    /\ shutdown = FALSE
    /\ threadTerminated = FALSE
    /\ rpc = "new"
    /\ left = 0
    /\ spc = [s \in Shutdowners |-> "idle"]

(* The list is locked: iterate() is in its synchronized block. *)
Scanning == rpc \in {"scan", "run"}

(* mutex.notifyAll(): a sleeping runner gets up and tests its condition again. *)
NotifyAll == rpc' = IF rpc = "asleep" THEN "recheck" ELSE rpc

(* wakeup(): nothing happens any more once shutdown is set. *)
wakeup ==
    IF shutdown THEN UNCHANGED <<pending, rpc>>
                ELSE pending' = TRUE /\ NotifyAll

-----------------------------------------------------------------------------
(* start: only a thread that was never started is started, then woken. *)
Start ==
    /\ rpc = "new"
    /\ ~shutdown
    /\ rpc' = "top"
    /\ pending' = TRUE
    /\ UNCHANGED <<tasks, work, waking, shutdown, threadTerminated, left, spc>>

(* A client gives a task something to do ... *)
MakeWork(t) ==
    /\ t \notin work
    /\ work' = work \cup {t}
    /\ waking' = waking \cup {t}
    /\ UNCHANGED <<tasks, pending, shutdown, threadTerminated, rpc, left, spc>>

(* ... and then calls wakeup. *)
ClientWakeup(t) ==
    /\ t \in waking
    /\ waking' = waking \ {t}
    /\ wakeup
    /\ UNCHANGED <<tasks, work, shutdown, threadTerminated, left, spc>>

AddTask(t) ==
    /\ ~Scanning
    /\ t \notin ToSet(tasks)
    /\ tasks' = Append(tasks, t)
    /\ wakeup
    /\ UNCHANGED <<work, waking, shutdown, threadTerminated, left, spc>>

(* The list loses the first entry of the task. *)
RemoveTask(t) ==
    /\ ~Scanning
    /\ \E i \in DOMAIN tasks :
        /\ tasks[i] = t /\ \A j \in 1..(i - 1) : tasks[j] # t
        /\ tasks' = RemoveAt(tasks, i)
    /\ wakeup
    /\ UNCHANGED <<work, waking, shutdown, threadTerminated, left, spc>>

-----------------------------------------------------------------------------
(* run(), first block: clear pending, return (past the final block!) on shutdown. *)
Top ==
    /\ rpc = "top"
    /\ pending' = FALSE
    /\ rpc' = IF shutdown THEN "exited" ELSE "lock"
    /\ UNCHANGED <<tasks, work, waking, shutdown, threadTerminated, left, spc>>

(* iterate() locks the list. *)
LockTasks ==
    /\ rpc = "lock"
    /\ rpc' = "scan"
    /\ left' = Len(tasks)
    /\ UNCHANGED <<tasks, work, waking, pending, shutdown, threadTerminated, spc>>

(* Ask the first task; an idle one goes to the back of the list. *)
SkipIdle ==
    /\ rpc = "scan"
    /\ left > 0
    /\ Head(tasks) \notin work
    /\ tasks' = Append(Tail(tasks), Head(tasks))
    /\ left' = left - 1
    /\ UNCHANGED <<work, waking, pending, shutdown, threadTerminated, rpc, spc>>

FindPending ==
    /\ rpc = "scan"
    /\ left > 0
    /\ Head(tasks) \in work
    /\ rpc' = "run"
    /\ UNCHANGED <<tasks, work, waking, pending, shutdown, threadTerminated, left, spc>>

(* Fault: the task that has run goes back to the front of the list. *)
RunTaskKeepsTurn ==
    /\ rpc = "run"
    /\ work' \in {work, work \ {Head(tasks)}}
    /\ rpc' = "top"
    /\ UNCHANGED <<tasks, waking, pending, shutdown, threadTerminated, left, spc>>

(* Its iterate() does the work, all or not; the task goes to the back and the loop starts over. *)
RunTask ==
    /\ rpc = "run"
    /\ work' \in {work, work \ {Head(tasks)}}
    /\ tasks' = Append(Tail(tasks), Head(tasks))
    /\ rpc' = "top"
    /\ UNCHANGED <<waking, pending, shutdown, threadTerminated, left, spc>>

(* The same, when the work includes shutting this runner down: no join with itself. *)
RunTaskStops ==
    /\ rpc = "run"
    /\ Head(tasks) \in StoppingTasks
    /\ work' = work \ {Head(tasks)}
    /\ tasks' = Append(Tail(tasks), Head(tasks))
    /\ shutdown' = TRUE
    /\ pending' = TRUE
    /\ rpc' = "top"
    /\ UNCHANGED <<waking, threadTerminated, left, spc>>

(* The task throws: it stays popped, and run() leaves through the final block. *)
RunTaskThrows ==
    /\ rpc = "run"
    /\ Head(tasks) \in FaultyTasks
    /\ tasks' = Tail(tasks)
    /\ rpc' = "final"
    /\ UNCHANGED <<work, waking, pending, shutdown, threadTerminated, left, spc>>

(* No task had work: second block of run(), return on shutdown, sleep unless pending. *)
NothingPending ==
    /\ rpc = "scan"
    /\ left = 0
    /\ rpc' = IF shutdown THEN "exited" ELSE "recheck"
    /\ UNCHANGED <<tasks, work, waking, pending, shutdown, threadTerminated, left, spc>>

(* Fault: the runner waits without testing pending first. *)
SleepUnconditionally ==
    /\ rpc = "recheck"
    /\ rpc' = IF shutdown THEN "top" ELSE "asleep"
    /\ UNCHANGED <<tasks, work, waking, pending, shutdown, threadTerminated, left, spc>>

(* while (!pending && !shutdown) wait *)
Sleep ==
    /\ rpc = "recheck"
    /\ rpc' = IF pending \/ shutdown THEN "top" ELSE "asleep"
    /\ UNCHANGED <<tasks, work, waking, pending, shutdown, threadTerminated, left, spc>>

(* The block after the catch: only an exception gets there. *)
Final ==
    /\ rpc = "final"
    /\ threadTerminated' = TRUE
    /\ rpc' = "exited"
    /\ UNCHANGED <<tasks, work, waking, pending, shutdown, left, spc>>

RunnerStep == Top \/ LockTasks \/ SkipIdle \/ FindPending \/ RunTask \/ RunTaskStops
              \/ RunTaskThrows \/ NothingPending \/ Sleep \/ Final

-----------------------------------------------------------------------------
(* Fault: shutdown sets the flags without waking the runner. *)
ShutdownWithoutNotify(s) ==
    /\ spc[s] = "idle"
    /\ shutdown' = TRUE
    /\ pending' = TRUE
    /\ spc' = [spc EXCEPT ![s] = "join"]
    /\ UNCHANGED <<tasks, work, waking, threadTerminated, rpc, left>>

(* shutdown(): the locked part, then join unless the thread is known to be gone. *)
Shutdown(s) ==
    /\ spc[s] = "idle"
    /\ shutdown' = TRUE
    /\ pending' = TRUE
    /\ NotifyAll
    /\ spc' = [spc EXCEPT ![s] = "join"]
    /\ UNCHANGED <<tasks, work, waking, threadTerminated, left>>

(* Fault: shutdown does not wait for the thread. *)
ReturnWithoutJoin(s) ==
    /\ spc[s] = "join"
    /\ spc' = [spc EXCEPT ![s] = "done"]
    /\ UNCHANGED <<tasks, work, waking, pending, shutdown, threadTerminated, rpc, left>>

(* A thread that was never started can be joined at once. *)
Joined(s) ==
    /\ spc[s] = "join"
    /\ threadTerminated \/ rpc \in {"new", "exited"}
    /\ spc' = [spc EXCEPT ![s] = "done"]
    /\ UNCHANGED <<tasks, work, waking, pending, shutdown, threadTerminated, rpc, left>>

Next ==
    \/ Start
    \/ \E t \in Tasks : MakeWork(t) \/ ClientWakeup(t) \/ AddTask(t) \/ RemoveTask(t)
    \/ RunnerStep
    \/ \E s \in Shutdowners : Shutdown(s) \/ Joined(s)

(* The thread runs, and a client that has made work goes on to call wakeup. *)
Fairness ==
    /\ WF_vars(RunnerStep)
    /\ \A t \in Tasks : WF_vars(ClientWakeup(t))
    /\ \A s \in Shutdowners : WF_vars(Joined(s))

Spec     == Init /\ [][Next]_vars
FairSpec == Spec /\ Fairness

-----------------------------------------------------------------------------
(* Every variable of the runner has its type. *)
TypeOK ==
    /\ tasks \in Seq(Tasks)
    /\ work \in SUBSET Tasks
    /\ waking \in SUBSET Tasks
    /\ pending \in BOOLEAN
    /\ shutdown \in BOOLEAN
    /\ threadTerminated \in BOOLEAN
    /\ rpc \in {"new", "top", "lock", "scan", "run", "recheck", "asleep",
               "final", "exited"}
    /\ left \in Nat
    /\ spc \in [Shutdowners -> {"idle", "join", "done"}]

(***************************************************************************)
(* While the runner sleeps every registered task with work has a client    *)
(* that is still about to call wakeup: no wakeup is lost between the scan  *)
(* and the wait.                                                           *)
(***************************************************************************)
NoWorkSleptOn ==
    rpc = "asleep" /\ ~shutdown =>
        \A t \in ToSet(tasks) : t \in work => t \in waking

(***************************************************************************)
(* When shutdown returns to another thread the runner's thread is not      *)
(* inside a task and will not enter one: the owner may delete the tasks.   *)
(***************************************************************************)
NoTaskAfterShutdown ==
    (\E s \in Shutdowners : spc[s] = "done") => rpc \in {"new", "final", "exited"}

(***************************************************************************)
(* A registered task with work gets its turn, even while other tasks never *)
(* run out of work, unless the runner is shut down, dies or was never      *)
(* started.                                                                *)
(***************************************************************************)
EveryTaskGetsItsTurn ==
    \A t \in Tasks :
        t \in work /\ t \in ToSet(tasks) /\ rpc # "new"
            ~> \/ rpc = "run" /\ Head(tasks) = t
               \/ t \notin work \/ t \notin ToSet(tasks) \/ shutdown \/ rpc = "exited"

(* shutdown comes back to its caller. *)
ShutdownReturns == \A s \in Shutdowners : spc[s] = "join" ~> spc[s] = "done"
=============================================================================
