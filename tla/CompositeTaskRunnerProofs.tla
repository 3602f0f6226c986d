--------------------- MODULE CompositeTaskRunnerProofs ---------------------
(***************************************************************************)
(* Theorems about CompositeTaskRunner for any set of tasks and any number  *)
(* of threads that call shutdown.                                          *)
(***************************************************************************)
EXTENDS CompositeTaskRunner, TLAPS, SequenceTheorems

(***************************************************************************)
(* The inductive invariant.                                                *)
(*                                                                         *)
(* Scanned: while the runner scans, the tasks it has asked are the ones    *)
(* after the first "left" of the list.  Any of them that has work by now   *)
(* and whose client has called wakeup has set pending since the runner     *)
(* cleared it; that is what makes it safe to sleep when pending is still   *)
(* FALSE at the end of the scan.                                           *)
(***************************************************************************)
Scanned ==
    rpc = "scan" =>
        /\ left <= Len(tasks)
        /\ ~pending /\ ~shutdown =>
              \A i \in (left + 1)..Len(tasks) : tasks[i] \in work => tasks[i] \in waking

(* All registered tasks are known to be idle, or have a client about to call wakeup. *)
Rechecked ==
    rpc \in {"recheck", "asleep"} /\ ~pending /\ ~shutdown =>
        \A t \in ToSet(tasks) : t \in work => t \in waking

(* The runner sleeps only without pending. *)
SleepsIdle == rpc = "asleep" => ~pending

Running == rpc = "run" => tasks # <<>>

ShutdownSeen ==
    /\ \A s \in Shutdowners : spc[s] # "idle" => shutdown
    /\ threadTerminated => rpc = "exited"

IInv ==
    /\ TypeOK /\ Scanned /\ Rechecked /\ SleepsIdle /\ Running
    /\ ShutdownSeen /\ NoTaskAfterShutdown

-----------------------------------------------------------------------------
(* The list of tasks as SkipIdle, RunTask and removeTask leave it. *)
LEMMA RotateLemma ==
    ASSUME NEW S, NEW q \in Seq(S), q # <<>>
    PROVE  LET r == Append(Tail(q), Head(q)) IN
           /\ r \in Seq(S) /\ Len(r) = Len(q) /\ Len(q) \in Nat \ {0}
           /\ r[Len(q)] = Head(q)
           /\ \A i \in 1..(Len(q) - 1) : r[i] = q[i + 1]
  OBVIOUS

(* A list stays a list of tasks when one is taken out. *)
LEMMA RemoveAtLemma ==
    ASSUME NEW S, NEW q \in Seq(S), NEW k \in DOMAIN q
    PROVE  RemoveAt(q, k) \in Seq(S)
<1>1. DOMAIN q = 1..Len(q) /\ Len(q) \in Nat
  OBVIOUS
<1>2. \A i \in 1..(k - 1) : q[i] \in S
  BY <1>1
<1>3. \A i \in (k + 1)..Len(q) : q[i] \in S
  BY <1>1
<1>4. SubSeq(q, 1, k - 1) \in Seq(S)
  BY <1>1, <1>2, SubSeqProperties
<1>5. SubSeq(q, k + 1, Len(q)) \in Seq(S)
  BY <1>1, <1>3, SubSeqProperties
<1> QED
  BY <1>4, <1>5, ConcatProperties DEF RemoveAt

(* Before start there is no task and nobody asks for a shutdown. *)
LEMMA InitIInv == Init => IInv
<1> SUFFICES ASSUME Init PROVE IInv
  OBVIOUS
<1>1. TypeOK
  <2>1. tasks \in Seq(Tasks) /\ left \in Nat
    BY DEF Init
  <2>2. spc \in [Shutdowners -> {"idle", "join", "done"}]
    BY DEF Init
  <2> QED
    BY <2>1, <2>2 DEF Init, TypeOK
<1> QED
  BY <1>1 DEF Init, IInv, Scanned, Rechecked, SleepsIdle, Running, ShutdownSeen,
              NoTaskAfterShutdown

-----------------------------------------------------------------------------
(* What start and the clients do *)

(* The thread is started; it has not scanned anything. *)
LEMMA StartStep == ASSUME IInv, Start PROVE IInv'
  BY DEF IInv, Start, TypeOK, Scanned, Rechecked, SleepsIdle, Running, ShutdownSeen,
         NoTaskAfterShutdown

(* New work is the client's to announce. *)
LEMMA MakeWorkStep == ASSUME IInv, NEW t \in Tasks, MakeWork(t) PROVE IInv'
<1>1. TypeOK'
  BY DEF IInv, MakeWork, TypeOK
<1>2. \A u : (u \in work => u \in waking) => (u \in work' => u \in waking')
  BY DEF MakeWork
<1>3. Scanned'
  BY <1>2 DEF IInv, Scanned, MakeWork
<1>4. Rechecked'
  BY <1>2 DEF IInv, Rechecked, MakeWork
<1> QED
  BY <1>1, <1>3, <1>4 DEF IInv, MakeWork, SleepsIdle, Running, ShutdownSeen, NoTaskAfterShutdown

(***************************************************************************)
(* Any step that ends with wakeup: whatever it did to the list or to the   *)
(* announcements, pending is set afterwards, or the runner is shut down.   *)
(***************************************************************************)
LEMMA WakeupLemma ==
    ASSUME IInv, wakeup, tasks' \in Seq(Tasks), waking' \subseteq waking,
           Scanning => tasks' = tasks, UNCHANGED <<work, shutdown, threadTerminated, left, spc>>
    PROVE  IInv'
<1>1. TypeOK'
  BY DEF IInv, TypeOK, wakeup, NotifyAll
<1>2. pending' \/ shutdown'
  BY DEF wakeup
<1>3. rpc' = rpc \/ (rpc = "asleep" /\ rpc' = "recheck")
  BY DEF wakeup, NotifyAll
<1>4. Scanned' /\ Running'
  BY <1>2, <1>3 DEF IInv, Scanned, Running, Scanning
<1>5. Rechecked'
  BY <1>2 DEF Rechecked
<1>6. SleepsIdle'
  BY DEF IInv, SleepsIdle, wakeup, NotifyAll
<1>7. ShutdownSeen' /\ NoTaskAfterShutdown'
  BY <1>3 DEF IInv, ShutdownSeen, NoTaskAfterShutdown
<1> QED
  BY <1>1, <1>4, <1>5, <1>6, <1>7 DEF IInv

(* The client announces its work. *)
LEMMA ClientWakeupStep == ASSUME IInv, NEW t \in Tasks, ClientWakeup(t) PROVE IInv'
  BY WakeupLemma DEF ClientWakeup, IInv, TypeOK

(* addTask wakes the runner up for the new task. *)
LEMMA AddTaskStep == ASSUME IInv, NEW t \in Tasks, AddTask(t) PROVE IInv'
<1>1. tasks' \in Seq(Tasks)
  BY DEF AddTask, IInv, TypeOK
<1> QED
  BY <1>1, WakeupLemma DEF AddTask

(* removeTask cannot meet a scan: it needs the lock of the list. *)
LEMMA RemoveTaskStep == ASSUME IInv, NEW t \in Tasks, RemoveTask(t) PROVE IInv'
<1>1. tasks' \in Seq(Tasks)
  BY RemoveAtLemma DEF RemoveTask, IInv, TypeOK
<1> QED
  BY <1>1, WakeupLemma DEF RemoveTask

-----------------------------------------------------------------------------
(* The runner's thread *)

(* The loop goes round, or sees the shutdown. *)
LEMMA TopStep == ASSUME IInv, Top PROVE IInv'
  BY DEF IInv, Top, TypeOK, Scanned, Rechecked, SleepsIdle, Running, ShutdownSeen,
         NoTaskAfterShutdown

(* The scan begins: no task has been asked. *)
LEMMA LockTasksStep == ASSUME IInv, LockTasks PROVE IInv'
<1>1. Len(tasks) \in Nat
  BY DEF IInv, TypeOK
<1> QED
  BY <1>1 DEF IInv, LockTasks, TypeOK, Scanned, Rechecked, SleepsIdle, Running, ShutdownSeen,
              NoTaskAfterShutdown

(* One more task was asked, and had no work. *)
LEMMA SkipIdleStep == ASSUME IInv, SkipIdle PROVE IInv'
<1>0. tasks \in Seq(Tasks) /\ left \in Nat /\ left > 0 /\ left <= Len(tasks) /\ rpc = "scan"
  BY DEF IInv, SkipIdle, TypeOK, Scanned
<1>1. tasks # <<>>
  BY <1>0
<1>2. /\ tasks' \in Seq(Tasks) /\ Len(tasks') = Len(tasks) /\ Len(tasks) \in Nat \ {0}
      /\ tasks'[Len(tasks)] = Head(tasks)
      /\ \A i \in 1..(Len(tasks) - 1) : tasks'[i] = tasks[i + 1]
  BY <1>0, <1>1, RotateLemma DEF SkipIdle
<1>3. TypeOK'
  BY <1>0, <1>2 DEF IInv, TypeOK, SkipIdle
<1>4. Scanned'
  <2> SUFFICES ASSUME ~pending, ~shutdown, NEW i \in left..Len(tasks), tasks'[i] \in work
               PROVE  tasks'[i] \in waking
    <3>1. left' = left - 1 /\ UNCHANGED <<work, waking, pending, shutdown>>
      BY DEF SkipIdle
    <3>2. left' + 1 = left /\ left' <= Len(tasks)
      BY <1>0, <1>2, <3>1
    <3> QED
      BY <1>2, <3>1, <3>2 DEF Scanned
  <2>1. CASE i = Len(tasks)
    BY <1>2, <2>1 DEF SkipIdle
  <2>2. CASE i # Len(tasks)
    <3>1. i \in 1..(Len(tasks) - 1) /\ i + 1 \in (left + 1)..Len(tasks)
      BY <1>0, <1>2, <2>2
    <3> QED
      BY <1>0, <1>2, <3>1 DEF IInv, Scanned
  <2> QED
    BY <2>1, <2>2
<1> QED
  BY <1>0, <1>3, <1>4 DEF IInv, SkipIdle, Rechecked, SleepsIdle, Running, ShutdownSeen,
                          NoTaskAfterShutdown

(* A task with work was found, so there is one to run. *)
LEMMA FindPendingStep == ASSUME IInv, FindPending PROVE IInv'
<1>1. tasks # <<>>
  BY DEF IInv, FindPending, Scanned, TypeOK
<1> QED
  BY <1>1 DEF IInv, FindPending, TypeOK, Scanned, Rechecked, SleepsIdle, Running, ShutdownSeen,
              NoTaskAfterShutdown

(* A task runs; whatever it returns or throws, the scan starts again or the thread ends. *)
LEMMA RunTaskStep == ASSUME IInv, RunTask \/ RunTaskStops \/ RunTaskThrows PROVE IInv'
<1>0. rpc = "run" /\ tasks # <<>> /\ tasks \in Seq(Tasks)
  BY DEF IInv, RunTask, RunTaskStops, RunTaskThrows, Running, TypeOK
<1>1. Append(Tail(tasks), Head(tasks)) \in Seq(Tasks) /\ Tail(tasks) \in Seq(Tasks)
  BY <1>0
<1>2. TypeOK'
  BY <1>1 DEF IInv, TypeOK, RunTask, RunTaskStops, RunTaskThrows
<1>3. rpc' \in {"top", "final"} /\ (shutdown => shutdown') /\ UNCHANGED <<threadTerminated, spc>>
  BY DEF RunTask, RunTaskStops, RunTaskThrows
<1> QED
  BY <1>0, <1>2, <1>3 DEF IInv, Scanned, Rechecked, SleepsIdle, Running, ShutdownSeen,
                          NoTaskAfterShutdown

(* The scan is over: every registered task was asked. *)
LEMMA NothingPendingStep == ASSUME IInv, NothingPending PROVE IInv'
<1>1. Rechecked'
  <2> SUFFICES ASSUME ~pending, ~shutdown, NEW t \in ToSet(tasks), t \in work
               PROVE  t \in waking
    BY DEF Rechecked, NothingPending
  <2>1. PICK i \in 1..Len(tasks) : t = tasks[i]
    BY DEF ToSet, IInv, TypeOK
  <2> QED
    BY <2>1 DEF IInv, Scanned, NothingPending
<1> QED
  BY <1>1 DEF IInv, NothingPending, TypeOK, Scanned, SleepsIdle, Running, ShutdownSeen,
              NoTaskAfterShutdown

(* The runner sleeps only when pending is still FALSE. *)
LEMMA SleepStep == ASSUME IInv, Sleep PROVE IInv'
  BY DEF IInv, Sleep, TypeOK, Scanned, Rechecked, SleepsIdle, Running, ShutdownSeen,
         NoTaskAfterShutdown

(* The thread ends. *)
LEMMA FinalStep == ASSUME IInv, Final PROVE IInv'
  BY DEF IInv, Final, TypeOK, Scanned, Rechecked, SleepsIdle, Running, ShutdownSeen,
         NoTaskAfterShutdown

-----------------------------------------------------------------------------
(* The threads that call shutdown *)

(* shutdown raises the flag and wakes the runner up. *)
LEMMA ShutdownStep == ASSUME IInv, NEW s \in Shutdowners, Shutdown(s) PROVE IInv'
<1>1. TypeOK' /\ SleepsIdle'
  BY DEF IInv, Shutdown, NotifyAll, TypeOK, SleepsIdle
<1>2. rpc' = rpc \/ (rpc = "asleep" /\ rpc' = "recheck")
  BY DEF Shutdown, NotifyAll
<1>3. \A u \in Shutdowners : spc'[u] = "done" => spc[u] = "done"
  BY DEF IInv, TypeOK, Shutdown
<1> QED
  BY <1>1, <1>2, <1>3 DEF IInv, Shutdown, Scanned, Rechecked, Running, ShutdownSeen,
                          NoTaskAfterShutdown

(* shutdown returns when the thread has ended or never began. *)
LEMMA JoinedStep == ASSUME IInv, NEW s \in Shutdowners, Joined(s) PROVE IInv'
<1>1. TypeOK' /\ rpc \in {"new", "exited"} /\ shutdown
  BY DEF IInv, Joined, TypeOK, ShutdownSeen
<1> QED
  BY <1>1 DEF IInv, Joined, Scanned, Rechecked, SleepsIdle, Running, ShutdownSeen,
              NoTaskAfterShutdown

-----------------------------------------------------------------------------
(* Every step keeps the invariant. *)
LEMMA NextIInv == IInv /\ [Next]_vars => IInv'
<1>1. CASE UNCHANGED vars
  BY <1>1 DEF vars, IInv, TypeOK, Scanned, Rechecked, SleepsIdle, Running, ShutdownSeen,
              NoTaskAfterShutdown
<1> QED
  BY <1>1, StartStep, MakeWorkStep, ClientWakeupStep, AddTaskStep, RemoveTaskStep, TopStep,
     LockTasksStep, SkipIdleStep, FindPendingStep, RunTaskStep, NothingPendingStep, SleepStep,
     FinalStep, ShutdownStep, JoinedStep DEF Next, RunnerStep

(* The inductive invariant holds in every state of the task runner. *)
THEOREM RunnerInvariant == Spec => []IInv
  BY InitIInv, NextIInv, PTL DEF Spec

(***************************************************************************)
(* The list, the flags and the threads of CompositeTaskRunner keep values  *)
(* of their types.                                                         *)
(***************************************************************************)
THEOREM TypeCorrect == Spec => []TypeOK
<1>1. IInv => TypeOK
  BY DEF IInv
<1> QED
  BY <1>1, RunnerInvariant, PTL

(***************************************************************************)
(* run() sleeps only while every registered task that has work still has a *)
(* client on its way to wakeup, however the scan, addTask, removeTask and  *)
(* the clients interleave.                                                 *)
(***************************************************************************)
THEOREM NoWakeupLost == Spec => []NoWorkSleptOn
<1>1. IInv => NoWorkSleptOn
  BY DEF IInv, NoWorkSleptOn, Rechecked, SleepsIdle
<1> QED
  BY <1>1, RunnerInvariant, PTL

(***************************************************************************)
(* Once shutdown() has returned to any thread, no task of the runner is    *)
(* running and none will run.                                              *)
(***************************************************************************)
THEOREM ShutdownIsFinal == Spec => []NoTaskAfterShutdown
<1>1. IInv => NoTaskAfterShutdown
  BY DEF IInv
<1> QED
  BY <1>1, RunnerInvariant, PTL
=============================================================================
