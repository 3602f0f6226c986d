# A TLA+ verification project for ActiveMQ-CPP 3.9.5

ActiveMQ-CPP is the C++ client of the ActiveMQ message broker. This project models the
parts of it whose correctness depends on the order in which threads, messages, failures
and calls meet: the modules translate the code under
`src/activemq-cpp-library-3.9.5/src/main/activemq` and the monitors of the decaf runtime
beside it, TLC checks small instances, and TLAPS proves theorems for all of them. Paths
below are relative to that directory; `decaf/` is its neighbour.

## 1. Inventory

### How a command and a message travel

```
 application threads                                     broker
   | CMS API                                               ^
   v                                                       |
 ActiveMQConnection -- ResponseCorrelator -- FailoverTransport -- ... IOTransport
   ^   sessions            futures             reconnect, replay      reader thread
   |                                             |
   |                                    CompositeTaskRunner thread
   |                                    (reconnect, close, backups)
   |
 SessionKernel -- SessionExecutor -- DedicatedTaskRunner thread -- listeners
                    session queue       |
                                    ConsumerKernel: unconsumedMessages channel
```

A request goes down the transport chain; the correlator parks a future under the command's
id and the reader thread of the lowest transport brings the response up. A dispatched
message comes up the same reader thread, goes into its session's queue, and the session's
task runner takes it to the consumer, which calls the listener or keeps the message in its
own channel.

### Components

| Component | State | Operations | Talks to | What is hard | What makes it correct |
|---|---|---|---|---|---|
| `transport/correlator/ResponseCorrelator`, `transport/FutureResponse` | request map, prior error, command counter, futures | request (timed, untimed), asyncRequest, oneway, onCommand, onException, close | application threads above, reader and inactivity threads below | futures completed outside the map's lock; failure races requests, responses and close | each future completed once; every waiter reachable; nothing kept after failure |
| `transport/failover/FailoverTransport`, `FailoverTransportListener`, `CloseTransportsTask` | connected transport, request map, tracked state, flags, failure counter | start, oneway, close, iterate, restore and replay, onException, rebalance | correlator above, connections below, the task runner | a long critical section in one thread, retries in the caller's thread, late failures of old connections | nothing forgotten or sent twice; reconnects or reports; close returns |
| `threads/CompositeTaskRunner` | task list, pending, shutdown | addTask, removeTask, wakeup, shutdown, run | failover, inactivity monitor | lost wakeups, starvation, shutdown from inside | no work slept on; each task gets its turn; no task after shutdown |
| `threads/DedicatedTaskRunner` | pending, shutDown | wakeup, shutdown, run | session executor | as above | as above |
| `core/*MessageDispatchChannel` | lists by priority, counter, running, closed | enqueue, dequeue, start, stop, close, clear, removeAll | sessions, consumers | signals to one waiter, waiters that leave early, a counter beside the lists | no lost signal; priority order; close releases everyone |
| `core/ActiveMQSessionExecutor`, parts of `core/kernels/ActiveMQSessionKernel`, `ActiveMQConsumerKernel`, `core/ActiveMQConnection`, `core/ConnectionAudit` | session queue, runner, consumer channels, listeners, audit | execute, wakeup, start, stop, setMessageListener, redispatch, dispatch | transport thread, application threads, runner | start and stop race delivery | one listener at a time; no message lost or doubled; stop ends delivery; order |
| `transport/failover/BackupTransportPool`, `URIPool` | backups, priority counter, URIs | iterate, getBackup, onBackupTransportFailure | failover, task runner | counter beside a list, URIs in transit | every URI is in one place; the counter counts |
| `transport/inactivity/InactivityMonitor` | timers, flags | read and write check, start and stop | task runner, timers | check then lock; stop from its own task | no false alarm, one monitor, stop returns |
| `state/ConnectionStateTracker` | connections, sessions, producers, consumers, temporary destinations, transactions, message cache | track, restore, answer in doubt | failover, the reader's thread, the broker | a commit cut off from its answer; answers that arrive while the restore walks through the same maps | the next broker gets what is open, commits whole transactions once, and nobody is told what is not so |
| Interruption recovery, spread over `ActiveMQConnection`, the session, the consumers, the tracker and the failover transport | a count of consumers to clear, a flag each, scheduled tasks, consumers restored with prefetch 0 | transportInterrupted, clearMessagesInProgress, dispatch, signalInterruptionProcessingComplete | scheduler, reader, any sender | several threads on one counter, a signal sent with a lock held, a runner that joins a reader | consumers get their prefetch back; nothing new is thrown away; no circle of waits |
| `decaf/internal/util/concurrent/Threading` (monitors) | lock, mutex, owner, count, queues of blocked and waiting threads, flags per thread | enter, exit, wait, notify, interrupt | everything | wake-ups between unlock and sleep, helper threads that interrupt | a monitor |
| `core/ActiveMQTransactionContext` | transaction id, synchronizations | begin, commit, rollback, XA calls | session, connection | failures in the middle of a commit | each synchronization called once |
| `core/kernels/ActiveMQConsumerKernel` (acknowledgements) | delivered list, counters | ack, rollback, close | session, broker | counters and lists that must agree, batches | every delivered message acknowledged once |
| `core/ActiveMQMessageAudit` | windows of bits per producer | isDuplicate, rollback | consumers | window edges | duplicates and only duplicates found |
| `core/kernels/ActiveMQProducerKernel`, `util/MemoryUsage` | window usage | send, acks | broker | producer window at its limit | a blocked producer is released |
| `wireformat/openwire/OpenWireFormatNegotiator` | latches, flags | start, onCommand, oneway | transport chain | commands before the handshake ends | no command before negotiation |
| Marshallers, commands, CMS API, `cmsutil`, factories, URI parsing, TCP/SSL sockets, mock and logging transports, the rest of the decaf runtime, apr | - | - | - | no protocol of their own, generated code, or pure I/O | not modelled |

The hazards this code is exposed to, each at its line and with the properties that would
catch it, are listed in `PROJECT.json`.

## 2. Plan

Modules in the order of their importance.

1. `ResponseCorrelator` with the abstract `RequestReply` and the proofs (done).
2. `CompositeTaskRunner`, the engine of the failover transport (done).
3. `FailoverTransport`, composed with what `CompositeTaskRunner` promises (done, without backups).
4. `MessageDispatchChannel` (done) and `SessionDispatch` (done), where the channels appear as
   queues with a running flag and a lock.
5. `ConsumerKernel`: acknowledgement, rollback and redelivery of a consumer, with the local
   transactions of `ActiveMQTransactionContext` (done for synchronous receive).
6. `ConnectionStateTracker`: sessions, tracker, failover transport and broker composed, for
   what survives a reconnect (done for producers, temporary destinations, local transactions).
7. `InterruptionRecovery`: how consumers are cleared, restored and fed again (done).
8. `Threading`, which implements the abstract `Monitor`, with `ThreadingProofs` (done).

Not in the plan any more, with the reason in section 7: backups and URI pools, inactivity
monitor, negotiator, message audit, producer window, XA.

Proved (section 6): every safety invariant and action property that a run checks, except the
two that speak of ENABLED (`CallsGoOn`, and `NobodyStuck`, of which another form is proved), and two
refinements. What is left is liveness, which stays with TLC.

## 3. Modules and the code

The definitions keep the code's names and `PROJECT.json` maps each to its lines. A mutex
whose critical section contains no wait and no call that blocks is modelled by making the
section one step. Operators introduced by a comment that begins with "Fault:" are not part
of the specification: each is a plausible bug, against which a property is tested.

### ResponseCorrelator

State: the counter, the keys of `requestMap`, `priorError`, the filter's closed flag, and per
future its response and how often it was completed. Callers run `request` (untimed and
timed) and `asyncRequest`; listeners are threads of the next transport (a reader, an
inactivity task) that call `onCommand` and `onException`; closers call `close`. Each
`synchronized(&mapMutex)` block is one step; `dispose` completes its futures one by one
outside the mutex, as the code does. The peer may answer late, twice or never.

`asyncRequest`'s catch block calls `requestMap.remove` without `mapMutex`. This is a data
race; of its outcomes the model has the one in which the remove's write to the bucket head
undoes a put that came in between (`AsyncLocate`, `AsyncUnlink`, `crossed`, `lost`). Other
outcomes of the race, such as a crash inside the map, are not modelled, and
`NobodyStranded` excepts the futures that were lost this way.

`RequestReply` is the abstract channel: a request is fresh, open, then answered, failed or
withdrawn; a broken channel opens nothing and fails what is open. It is instantiated in
`ResponseCorrelator` and checked as `ImplementsRequestReply`.

### CompositeTaskRunner

State: the task list, `pending`, `shutdown`, `threadTerminated`, the place of the runner's
thread, and which tasks have work. A client makes work and calls `wakeup` in two steps. The
runner holds the list's lock from the first `isPending` to the end of the task it runs, so
`AddTask` and `RemoveTask` are disabled meanwhile. A task may throw, which ends the thread,
or may call `shutdown` from inside; it may still have work when its `iterate` returns.
No task is added twice, as in the code that uses the runner.

### MessageDispatchChannel

Both channel classes: `prioritised`, chosen in `Init`, says which one this is; it decides the
lane of a message and whether `clear` leaves the counter alone. Receivers call `dequeue(-1)`, `dequeue(timeout)` or do not wait; `notify` wakes one of
the waiting threads, any of them. A message is not enqueued while it is queued already.

### SessionDispatch

One connection, one non-transacted session with asynchronous dispatch, consumers in list
order. The transport thread runs `execute`; controllers are application threads that call
`Connection::start`, `Connection::stop` and `setMessageListener`; each runner is a
`DedicatedTaskRunner` with its thread. The two locks held while a listener runs, the
channel's and `listenerMutex`, are explicit; read locks on the consumer and session lists
exclude nobody here. The audit is a set of messages. `overlapped` is a history variable:
some call began while another thread was inside one; `missed` and `poisoned` record the
messages a running consumer without a listener kept, and those acknowledged as poison. Left
out: listeners that throw (and the redelivery that follows), expired messages,
message-available listeners, closing, and synchronous receive.

### ConsumerKernel

One consumer from which one application thread receives synchronously, in each of the
acknowledgement modes (`mode` is chosen in `Init`; "batch" is `DUPS_OK_ACKNOWLEDGE` on a
topic). State: `unconsumedMessages` with its flags, `deliveredMessages`, `pendingAck`,
`deliveredCounter`, `previouslyDeliveredMessages`, the two flags an interruption sets, the
audit, and the transaction's id and synchronizations. Threads: the application (`receive`,
`acknowledge`, `recover`, `commit`, `rollback`, `close`), the transport (`dispatch`,
`transportInterrupted`), the scheduler (`ClearConsumerTask`, `StartConsumerTask`) and the
ack executor. A block under the lock of one of the two lists is one step; `ackLater`, which
takes no lock, reads and writes `pendingAck` in two.

The broker is modelled as far as acknowledgements go: messages are numbered in the order in
which it sends them, an ack of a range ends the messages of that range that it has dispatched
on the present connection (`final`, `Covered`; `SettleOne` for an ack of one message), acks in a transaction take effect with the commit (`txAcked`), and
after a reconnect what is not ended may come again, with any redelivery counter of
`BrokerCounts`. Messages that go to other consumers stay there. `handed`, `got`, `mixed` and
`doubled` are history variables: what the application ever had, what it has had and not
settled or given back, whether after an interruption a message of the old connection
may have met its replay, and whether an interruption came before the messages of the last
one were cleared. Left out: `optimizeAcknowledge`, `transactedIndividualAck`,
`nonBlockingRedelivery`, pull consumers, browsers, listeners (see `SessionDispatch`), XA,
interrupts of the application's threads, and failures of anything but the request that ends a transaction. A commit or rollback
straight after a failed rollback is left out as well: `acknowledge` then begins a
transaction, which clears the set that `beforeEnd` is walking through.

`dispose` waits for the ack executor to end (`ExecutorTerminated`). Its `awaitTermination`
gives up after 60 seconds (line 925) and the result is ignored, but the next line destroys the
executor, and the destructor of the executor's kernel waits for the same termination without
a limit (`decaf/util/concurrent/ThreadPoolExecutor.cpp`, lines 394 to 435, the wait in line
411). So `dispose` goes on only when the last ack was handed to the transport, however long
that takes.

### FailoverTransport

State: the members of `FailoverTransportImpl`, the request map as a set, the state tracker
as the set of commands it would restore, and numbered connections, each with a reader
thread. `reconnectMutex` is `holder` where it is kept across steps (`iterate`, and a call
that spins) and implicit elsewhere. Each command is one call of `oneway` of its own thread:
an untracked request, an untracked oneway, a tracked command, an acknowledgement or
`ShutdownInfo`. A send over a broken connection throws or vanishes. `CompositeTaskRunner`
is represented by what it promises: its thread takes any task that has work, and dies when
a task throws. Left out: `stop` (the connection calls it only after a reported failure),
backups and priority backups, the contents of the URI pools (a count of URIs per round
remains), the send timeout, the answer to `MessagePull`, `startupMaxReconnectAttempts`,
and the replay of a commit, which `ConnectionStateTracker` has. `close` waits for the runner
for at most five minutes; `CloseTimesOut` is the end of that limit, for a runner inside a
task (an idle one ends at once). A response that was read before its connection broke may
come up after it (`OnResponse`). What the connection above does with a command in the
reader's thread, oneway included, is in `InterruptionRecovery`.

### ConnectionStateTracker

Sessions, each a thread, create and close producers and temporary destinations and send
messages in local transactions; every call is a `oneway`, and those that ask for a response
wait for it. Tracked are, as in `ConnectionState`, `SessionState` and `TransactionState`, the
producers (with the transaction that keeps a closed one alive), the temporary destinations in
the order of their commands (removals are appended too: `DestinationInfo::visit` always calls
`processDestinationInfo`), and each transaction's commands. `requestMap` holds the commits
and rollbacks that wait for an answer.

A connection may break at any step. The runner then connects, sends what is open, one command
a step (`RestoreOpen`; the sessions wait for the mutex, so the list does not change), and walks
through the transactions in the same way. The reader of the same connection already delivers
answers meanwhile, which let sessions return, remove transactions and clear the lists under
the iterators (`RestoreCleared`, `Modified`: a `ConcurrentStlMap` iterator skips or ends). Of
a connection that is given up in the restore any of the responses may still come
(`RestoreFails`). A transaction whose last
command is a commit is not replayed: `AnswerInDoubt` completes its call with an exception.
The broker's end is external: it applies commands, commits, and answers late or never.

Left out: sessions and connections that come and go, consumers (see the next module), XA,
the message and pull caches, acknowledgements (the tracker does not track them).

### InterruptionRecovery

Threads: the scheduler with its `ClearConsumerTask`s, a reader for each connection, which
dispatches in its own thread, any other thread that uses the transport (`Sender`), and the
failover transport's runner. Of the first three, one that meets a broken connection runs
`transportInterrupted`, which flags and counts the consumers one by one
without a lock common to the threads that clear them. Consumers may be created and closed
meanwhile. A clear holds the channel's lock; the one that takes the count to zero signals the
failover transport with that lock held, takes `reconnectMutex` and sends a `ConsumerControl`
to each consumer that was restored with prefetch 0, waiting for a connection if there is
none. A reader looks its consumer up with the connection's `dispatchers` lock held and keeps
it until the message is dispatched (`Dispatching`, `LockDispatchers`).

The runner has two tasks. The failed connection is handed to the close task
(`closing`), which takes it, closes it and waits for its reader without a limit
(`TakeTransport`, `CloseTask`, `joining`, `CloseJoined`); the other one reconnects (`Restore`), which the runner cannot do
while it waits. A reader that is inside the listener of the connection, waiting for a
channel's lock, the dispatchers' lock or in `oneway` for a connection, keeps the runner
waiting. Left out: messages that a broken connection still has in its buffers, and the
application's short waits for the dispatchers' lock. `raced` and `doubled` are history variables that record the two windows and the double
flag described in section 5.

### Monitor and Threading

`Monitor` is what the other modules take for granted: one owner, a count, a wait that gives
the monitor up and joins the waiters in one step, notify and notifyAll, a return from the
wait only as owner at the old count. `Threading` is the code: a lock that can be taken with
or without the monitor's mutex, the two queues, a condition per thread that is signalled only
if the thread sleeps, the flags `waiting`, `notified`, `interrupted`, and the interruption
threads (`Helpers`) that `interrupt` starts. Time-outs and spurious wake-ups may happen at
any time. In the refinement the abstract owner is the holder of the lock, and a thread is
among the waiters from the step that gives up the lock until its flag `waiting` is taken
back. Left out: `sleep`, `park` and `join`, which use the same condition with the thread's own mutex.

## 4. Runs

| Run | Shows |
|---|---|
| `correlator` | `TypeOK`, `CompletedAtMostOnce`, `NobodyStranded`, `NoLeakedEntry`, `FailedFilterHoldsNothing`, `CallsEndAfterFailure`, `ImplementsRequestReply`: requests of the three kinds against responses, a failure and a close |
| `threading` | `MutualExclusion`, `NoSleeperForgotten`, `NotifyNotLost`, `ImplementsMonitor` |
| `threading_canceled` | finding: an interruption thread that is canceled late ends as owner of the monitor |
| `taskrunner` | `NoWorkSleptOn`, `NoTaskAfterShutdown`, `EveryTaskGetsItsTurn`, `ShutdownReturns` |
| `dispatch_channel` | `NoSignalLost`, `CloseReleasesReceivers`, for both classes |
| `dispatch` | `MessagesConserved`, for two application threads whose calls may overlap, and until they do `ListenersSerialized`, `StopEndsDelivery`, `InOrderUntilStopped`, `CallsGoOn` |
| `dispatch_serial` | finding: a start overtakes a stop and two listeners run at once |
| `consumer` | `OrderKept`, `NothingForgotten`, `CommitCoversReceived`, `ConsumedWereReceived`, `CloseSettlesReceived`, `StoppedWillStart`, in every acknowledgement mode |
| `failover` | `NotSentTwice`, `NoRequestForgotten`, `ReconnectsOrFails`, `CloseReturns`, with a rebalance, a close and `ShutdownInfo` |
| `tracker` | `CommittedWhole`, `OutcomeTruthful`, `BrokerKnowsSender`, `BrokerMirrorsClient`, `NoCallStranded` |
| `recovery` | `FedUnlessRaced`, `NobodyStuck`, `FreshKept` |
| `recovery_race` | finding: a consumer that is cleared between its flag and its count is never fed again |

Deadlock is not checked: clients may stop calling, and closed components stop for good. That
calls end is checked as liveness, or, in `dispatch` and `recovery`, as `CallsGoOn` and
`NobodyStuck`: where a thread has something to finish, some thread can go on.

### Bounds

- Correlator: two command ids, one thread of each kind of call, one listener, one closer.
  Two ids are enough for a future in the map, one in a disposer's list and one just
  registered to differ; the listener and the closer make two disposes at the same time. The
  proofs cover any number of each.
- Task runner: three tasks, so that one can starve between two others; one may throw, one
  may shut the runner down; one thread calls shutdown.
- Channels: two blocking, one timed and one no-wait receiver with two messages of different
  priority (a signal can be spent on the wrong one of several waiters); `MaxEnqueued` caps
  the counter, which grows past the lists' lengths only in the priority channel after `clear`.
- Session: three messages (two for one consumer, so that it has an order to keep, one for the
  other, so that two listeners can run), two consumers, three calls by two application
  threads, as many runners as calls: enough for a runner to be shut down while messages are
  in both queues, and for a second runner to follow it or to live beside it. Once calls have
  overlapped, four of the five properties say nothing more, and the run goes on with at most
  two messages (`FewOverlapped`); `NothingLostOrDoubled` proves the fifth for any number.
- Consumer: two messages, so that acks are ranges and a rollback has an order to keep;
  prefetch 4, so that the second message fills half the window; one redelivery allowed, the
  broker's counter below and above the limit; one interruption or one failed request
  (`MaxFaults`). The properties are stated so that they hold for any number of messages,
  interruptions and failures, and all six are proved; the guards `doubled`, `FewFaults` and
  "interruptions <= 1", which no behaviour of this instance makes false, are those exceptions,
  and each was seen to be needed on an instance with two interruptions or with an interruption
  and a failure (section 5).
- Failover: two connections, one URI per round (a second adds only further failed
  attempts), one rebalance, any two calls (`MaxCalls`) of a request, a tracked command and
  `ShutdownInfo`. `MaxTransports` bounds the network: when it is used up every later attempt
  fails, which brokers that are down do as well. Therefore the run has a limit of one attempt:
  without one, the code retries for ever. Instances with an acknowledgement or a command
  without response beside `ShutdownInfo`, and the two safety properties for all three
  commands without a limit, were checked as well.
- Tracker: two sessions, the first with a temporary destination and a producer, two transactions of
  up to two messages, two broken connections: enough for a transaction that spans three
  connections, for the restore itself to be cut off, and for one session's commit to be in doubt
  while the other's transaction is replayed.
- Recovery: two consumers created at any time that share the count of one interruption, or
  one consumer and two broken connections (`SecondBreakAlone`): the second may come at every
  point of the recovery from the first, and three readers live. Both together are out of
  TLC's reach; the theorems cover them.
- Threading: two threads, two interruption threads, a count of two. Three threads (one
  interruption thread) were checked as well, without finding anything new.

### Fairness

A thread that is inside a call or a loop and can go on does so: weak fairness of each
thread's steps, without assuming that anyone calls, that the peer answers, that connections
break or hold, or that a timed wait ends early. In `FailoverTransport` the runner, the thread
that calls close and the readers are fair; the calls of oneway need not be. `SessionDispatch`,
`ConsumerKernel`, `ConnectionStateTracker` and `InterruptionRecovery` have no liveness property
and no fairness: `CallsGoOn`, `NobodyStuck`, `NoCallStranded` and `StoppedWillStart` are the
safety halves of one.

## 5. Deviations that the properties except

The models follow the code in these cases too; the properties or the bounds say so.

- `SimplePriorityMessageDispatchChannel::clear` (line 147) empties the lists and leaves the
  counter `enqueued`, from which `isEmpty` is computed. Afterwards a blocking dequeue can
  return NULL on an open channel; the model has this, no property is stated about it.
- `ActiveMQSessionExecutor::stop` (line 145) forgets its runner under the queue's lock and
  then shuts it down. A start by another thread in between creates a second runner while
  the first still delivers (run `dispatch_serial`). The model shows two more consequences of
  overlapping calls: the two runners take a channel's lock and `listenerMutex` in opposite
  orders, in `dispatch` (line 1629) and in `iterate` (line 1796), block each other, and stop
  waits for ever; and a stop that runs while a start is under way is undone by the rest of
  the start. `cms/Connection.h` says that connections support concurrent use.
  `ListenersSerialized`, `StopEndsDelivery`, `InOrderUntilStopped` and `CallsGoOn` speak of the
  time until calls of two threads overlap.
- A message that the runner took from the session's queue just before a stop is put into
  the consumer's channel; `ActiveMQSessionExecutor::start` (line 128) looks at the session's
  queue only, so the message waits until something else wakes the session. No property says that messages
  move on.
- `ActiveMQConsumerKernel::dispatch` (line 1662) puts a message back at the end of the
  channel when a stop came between the dequeue and the dispatch, so order is promised by
  `InOrderUntilStopped` only until a runner was shut down.
- In `ActiveMQConsumerKernel`, an interruption that finds a thread at work in the consumer, or
  whose clearing comes after the application took another message, lets a message of the old
  connection meet its replay: the replay is acknowledged as a poisonous duplicate though the
  message itself was never acknowledged (auto mode: `clearDeliveredList`, line 187, drops it
  between `beforeMessageIsConsumed` and `afterMessageIsConsumed`), the pending ack of batch
  mode survives and its range spans two connections, and delivered messages get out of the
  order on which ack ranges rest. `OrderKept`, `NothingForgotten`, `CommitCoversReceived`,
  `ConsumedWereReceived` and `CloseSettlesReceived` except such states (`mixed`).
- A second interruption before the first one's `ClearConsumerTask` has run leaves two tasks; the
  later one drops a message of the newest connection, which the broker counts as delivered.
  `NothingForgotten` excepts it (`doubled`).
- The pending ack of batch mode and the messages of a transaction outlive an interruption. What
  the new broker dispatches falls into the old range or not; after a second interruption, at
  the latest, a range from a message of the first connection to one of the third can take in
  messages of the second that the application never had, and a range that begins with a message of
  the first connection and ends with an earlier one is empty, so that what it stands for is never
  acknowledged. `ConsumedWereReceived` and `NothingForgotten` are stated for these modes up to
  the connection after the first interruption, and `CommitCoversReceived` too. A message that batch
  mode has not acknowledged when the connection breaks is sent again, so that
  `CloseSettlesReceived` speaks of batch mode on the first connection only.
- `rollback` takes its messages out of the audit (line 1530) and their local redelivery does
  not enter them again. A replay after an interruption is then taken for a new message and
  the application has it twice in one transaction, which can only be rolled back. A transaction
  also keeps the messages of all its connections, and a broker may send on the third what it
  passed over on the second. `OrderKept` is stated for transactions until the first
  interruption, and otherwise where messages are not mixed.
- `rollback` judges a batch by its latest message (line 1534): one message that the broker
  already sent with a counter over the limit takes the earlier ones of its batch to the dead
  letter queue.
- A rollback in a transaction deducts its messages from `deliveredCounter` twice (`acknowledge`
  and `rollback`, lines 1468 and 1594), so that the counter becomes negative and the next ack
  that would widen the window comes late.
- `asyncRequest`'s catch block (`ResponseCorrelator.cpp`, line 173) removes from the map
  without `mapMutex` and can drop the entry another thread has just put there.
- Messages that waited for a listener are in the audit already when `setMessageListener`
  redispatches them (`ActiveMQSessionKernel.cpp`, line 1075); they are taken for duplicates and
  acknowledged as poison, and no listener sees them, although the comment in `setMessageListener`
  (`ActiveMQConsumerKernel.cpp`, line 1180) says "redispatch all the messages that it missed".
  `MessagesConserved` counts that as an end for these messages (`missed`), and for no others.
- When an interruption makes `beforeEnd` of a rollback throw and the rollback's request fails
  too (`ActiveMQTransactionContext.cpp`, line 250), the consumer still believes to be registered
  and later transactions commit without its acknowledgements. `CommitCoversReceived` speaks of
  the second connection only while no request has failed (`FewFaults`).
- A connection lost while a rebalance is pending: `iterate` (line 900) dereferences the URI
  `handleTransportFailure` has reset, its thread ends and nothing reconnects.
  `ReconnectsOrFails` excepts it and shows that it is the only such case as long as readers do
  no more than report the failure of their connection; the next one is another.
- The close task is to keep a failed connection's `close` out of threads that hold locks, but
  it runs in the thread that reconnects (`CloseTransportsTask.cpp`, line 61), and
  `IOTransport::close` joins the reader without a limit (`IOTransport.cpp`, line 207). After
  a second failure that reader may be waiting for a connection, to send a `ConsumerControl`
  on, or for a lock whose holder does: then nothing ever reconnects. TLC
  reaches this circle (`JoinCircle`) with one consumer and two interruptions; `NobodyStuck`
  excepts it and shows that it is the only one.
- A failed connection is not silenced (`disposedListener`, `FailoverTransport.cpp` line 728, is never
  assigned): its reader's late `onException` makes the transport give up the new connection.
- A consumer is flagged before it is counted (`ActiveMQSessionKernel.cpp`, line 495): a
  dispatch that clears it in between takes the count to -1, it comes back to 0 and nobody
  signals. `signalInterruptionProcessingComplete` ends with `set(0)` (`ActiveMQConnection.cpp`,
  line 1450), which wipes the count of an interruption that came meanwhile. Both leave a
  consumer with prefetch 0 (run `recovery_race`); `FedUnlessRaced` shows there is no third way.
- Two interruptions before a consumer was cleared for the first leave it flagged once more
  than it needs: the second task throws away messages of the new connection. `FreshKept`
  excepts it.
- The list of temporary destinations the tracker restores only grows, and when the answer to a
  replayed rollback comes before the removals are sent, the new broker keeps a producer the
  application has closed.
- `interruptionThread` (`Threading.cpp`, line 341) may take the lock between the target's unlock and
  its sleep. Its broadcast is lost, `waiting` is false so that no notify reaches the target
  either, and the interrupted thread sleeps on; `NotifyNotLost` speaks of notifications only.
- Backups, from reading only: `BackupTransportPool::iterate` holds the pool's lock and calls
  `reconnect`, which takes `reconnectMutex` (`FailoverTransport.cpp`, line 659); `stop` and `close`
  take them in the other order. `priorityBackups` is counted up (`BackupTransportPool.cpp`,
  line 303) and not down.
- After `ShutdownInfo`, `handleTransportFailure` (line 712) returns at once; an untracked
  command whose send fails is retried on the same broken connection with `reconnectMutex`
  held (line 512), and `close` waits for the mutex for ever, although the comment in
  `handleTransportFailure` says "let the close do the work". `CloseReturns` excepts a call that
  does this.
- `CompositeTaskRunner::run` returns on shutdown (lines 166 and 174) past the block that
  records `threadTerminated`; only the join tells a second caller that the thread is gone.

## 6. Proofs

Each component's proofs are in a module of their own. They hold for every value of the
constants that satisfies the module's named assumptions: any number of threads, commands,
tasks, consumers, messages and transports. The pattern is the same everywhere: an inductive
invariant, one lemma per action that the action preserves it (with one step per conjunct it
can disturb), a theorem that combines them with PTL, and a short theorem for each property.

**`ResponseCorrelatorProofs`**: `TypeCorrect`, `CompletedOnce`, `FailedFilterStaysEmpty`,
`FailedCallsLeaveNothing`, `WaitersStayReachable`, `RequestsGoThroughOnce`. Assumptions:
`MaxCommandId` is a natural number (`BoundAssumption`) and the kinds of callers, and
listeners and closers, are different threads (`ThreadAssumption`). None of the properties is
inductive alone. That no future is completed twice needs to know where a future can be: not
yet registered, in the map, or in one disposer's list. `Inv` says that these places are
disjoint and hold only uncompleted futures (`Places`), that ids not yet handed out are
untouched (`FreshIds`), that a call owns its id alone (`IdsOwned`), and that a call that
waits can be reached from the map or a disposer's list (`Calls`). `RequestsGoThroughOnce` is
the safety half of the refinement of `RequestReply`: initial states map to initial states,
and every step of the code is one abstract step or a stutter (registering opens a request,
completing a future answers or fails it, a failed send or a timeout withdraws it). It needs
one more invariant, `RefusedBroken`: a call that was refused met a channel that is broken for good.

**`ThreadingProofs`**: `MonitorExcludes`, `SleepersWoken`, `NotificationsArrive` and
`MonitorImplemented`, the refinement of `Monitor`. The assumption is `ThreadingAssumption`:
interruption threads are not client threads, and the bound on recursive entry is positive.
The inductive invariant `IInv` adds two facts to the properties. `QueuesExact` says that the
two queues hold exactly the sleeping threads, each once: without it a broadcast over the
blocking queue could miss a sleeper, and a notify could mark a thread that is awake. `Counts`
says that whoever may exit has a count of at least 1. `EnqueueLemma` and `DequeueLemma` say
what enqueueThread and dequeueThread do to the queues. The refinement needs `WaitState`
besides: the local count of doWaitOnMonitor is non-zero exactly from the start of a wait until
the lock is taken again, the flag `waiting` is up only in that time, and a thread between
giving the lock up and queueing keeps the mutex, which is why notifyAll can miss nobody. Each
step of the code is then one step of `Monitor` or invisible to it: taking the lock is `Enter`
or `Return`, giving it up `Exit` or `Wait`, a time-out or an interrupt `GiveUp`.

**`CompositeTaskRunnerProofs`**: `TypeCorrect`, `NoWakeupLost` (`NoWorkSleptOn`) and
`ShutdownIsFinal` (`NoTaskAfterShutdown`). That work is never slept on is not inductive: the
runner clears `pending`, then asks the tasks one after the other, and only then sleeps.
`Scanned` says that a task it has asked and that has work by now has set `pending` again or
has a client about to call wakeup; `Rechecked` says the same of all tasks at the end of the
scan.

**`FailoverTransportProofs`**: `TypeCorrect`, `NeverTwice` (`NotSentTwice`) and
`RequestsSurvive` (`NoRequestForgotten`). The invariant says that a request that is still to
be answered is in the request map or the tracker (`Kept`), that the replay has sent exactly
what it has not got left (`Replayed`), that all that is kept was sent over the connection in
use (`OnConnected`), and that while iterate() connects, nobody else uses the new connection
(`RunnerOwns`).

**`InterruptionRecoveryProofs`**: `TypeCorrect`, `ConsumersFedAgain` (`FedUnlessRaced`) and
the action property `ClearingSparesFresh` (`FreshKept`). At the heart is `SomebodySignals`:
until the recovery is complete, somebody is about to signal it, or no open consumer needs it,
or the count is positive and stands for consumers each of which has a flag that nobody has
begun to clear; `FlagHasTask` says that such a flag has a task. The assumption says, besides
the module's bounds, that `None` is no consumer. A consumer is excepted when it was cleared ahead
of the count or an interruption came in the window of a signal (`raced`).

`OnlyTheRunnerWaitsInACircle` is about the waits: a consumer is cleared with its channel's lock
held, and whoever takes the count to zero asks for `reconnectMutex` and perhaps for a connection
while holding it; readers wait for the dispatchers' lock and for channels, and the runner for
readers. `OwnerBusy` says that the mutex is only ever held by a thread that runs
`transportInterrupted` or sends controls, and that a thread that has let it go in the middle of
its controls has one to send. Whoever has the mutex can take its next step without a channel's
lock, and the dispatchers' lock is held by a reader that clears, signals or dispatches, so that in `OneCircle` the condition of some action of `Work` holds (`CanGoOn`),
or all are done and there is a connection, or the runner joins a reader while some thread waits
for a connection (`JoinCircle`). TLC checked on the run's instance that `CanGoOn` implies
ENABLED `Work`.

**`SessionDispatchProofs`**: `DispatchInvariant`, `TypeCorrect` and `NothingLostOrDoubled`
(`MessagesConserved`) for any number of application threads. `DispatchAssumption` says that
the markers for no runner and no message, and the transport's thread, are not among the
runners, messages and application threads. `OneListenerAtATime`
(`ListenersSerialized`), `StopIsFinal` (`StopEndsDelivery`) and `ListenersInOrder`
(`InOrderUntilStopped`) hold for any number of application threads too, each until calls
overlap; section 5 says what happens after that.
`InTurn` says that until then at most one of these threads is inside a call. `OnlyMissed` says
that poison is only for messages a running consumer without a listener kept. `Conserved` says that the places a message can be in exclude one another and are
all there are; `Owned` says who is responsible for a runner that lives, the executor or the
thread that shuts it down; `UntilExit` says that until a runner ends no message leaves the
straight way from the queue to the listener, which gives the order.

The last section of the module is about the channels these messages wait in:
`SignalsSuffice` proves `NoSignalLost` of `MessageDispatchChannel`, which it instantiates, for
any number of receivers, messages and any priorities from 0 to 9 (`MAX_PRIORITIES` is 10). The inductive
`ChannelInv` adds that the counter is never less than the messages in the lists (`clear` may leave it
higher), so that a receiver that goes to sleep or leaves because of the counter passes no
message over, and that a closed channel does not run. `PlacesGrow`, `PlacesShrink` and
`WokenCount` say how the two sides of the comparison change with one message and one receiver.

**`ConnectionStateTrackerProofs`**: `TrackerInvariant`, `TypeCorrect`, `CommitsWhole`
(`CommittedWhole`), `OutcomesTruthful` (`OutcomeTruthful`), `SendersKnown`
(`BrokerKnowsSender`), `BrokerMirrors` (`BrokerMirrorsClient`) and `NobodyStranded`
(`NoCallStranded`), for any number of sessions, producers, destinations, transactions, messages
and broken connections. `TrackerAssumption` says who owns what, that there are finitely many
producers (they are restored one after the other), that no producer is a destination, and that
a transaction may have a message. None of the properties says anything of the time
between two connections, so none is inductive. `Client` says what the tracker
keeps of each session: a transaction has one user until its outcome is told (`OneUser`); its
list is the begin, its messages in order and at most one end, which a session waits for
(`Kept`); a message's producer is open or was handed to the transaction when it was closed
(`Senders`); what was done with a destination is in `temps` in the order it was done
(`DestLife`). `ConnectionSide` says where that is on its way to the broker. On a connection that
works, what is open is at the broker or in the rest of the restore (`OpenSent`), no addition of
a destination comes after its removal (`OpenReplay`), and a transaction is still to come, is
being replayed, or is `Settled`: the broker has its messages, or its end is answered or in doubt
(`TxSent`). `Reached` says what the broker has after k commands of a replay: the closed
producers added so far, the messages so far, and all of it before the removals begin. A
commit is never among them (`TxReplay`), so that only a commit the application makes stores
anything, and a transaction whose commit was stored has nobody who could send in it (`Log`).
TLC checked `IInv` on the run's instance before it was proved.

**`ConsumerKernelProofs`**: `OrderIsKept` (`OrderKept`), `NothingIsForgotten`
(`NothingForgotten`), `CommitCovers` (`CommitCoversReceived`), `ConsumedReceived`
(`ConsumedWereReceived`), `CloseSettles` (`CloseSettlesReceived`) and `StoppedStarts`
(`StoppedWillStart`), for any number of messages, interruptions and failures, under the
module's `ConstantsAssumption`. `OrderKept` speaks of three lists that messages move between,
and is not inductive: a message may be appended only because it is later than all that are
there. `Line` says that the delivered list falls, the channel rises and the message in hand
lies between them; `Present` that what is not waiting to be cleared was dispatched on the
present connection, before the message that is being dispatched, so that the broker's next one
is later than all of it; `Cleared` where messages of the old connection can still be, so that
none is left in the channel when the delivered list is cleared, nor in the list when a message
is taken or put back. For `CloseSettles`, `SettleInv` follows each message the application has
had: in auto mode it is ended before receive returns, in batch mode it is ended, in the range
of the pending ack, in process, or in the range of the ack that `doClose` hands to the
executor, for whose end `dispose` waits without a limit (section 3).

The other three need to know what an ack's range covers, on this connection and on the one
before it. `AllInv` adds five parts to `IInv` and `SettleInv`:

- `ConnInv`: as soon as a message of a new connection was dispatched, the lists of the old
  connection have been cleared (dispatch does it before it enqueues).
- `AckReady`: a thread that acknowledges has cleared the list before, so that the ack names
  nothing of the old connection.
- `RetainedInv`, for auto, client and individual mode: every message that is dispatched and not
  ended is held, and what is in the delivered list the application has had.
- `BatchRangeInv`, for batch mode up to the second connection: the pending ack, and the one the
  executor has, end before every message the application has not had yet, so that a range
  can never take in one of those; and what is before that end was seen by the audit.
- `TxInv`, for transactions up to the second connection. `TxLists` says what the delivered list
  and `previouslyDeliveredMessages` have of each connection: their order (`TxOrder`), that every
  message of the transaction is in one of them (`TxPresent`), which of those not yet replayed
  can still come (`TxReplays`), and that what is open at the broker is in a list, in hand or
  acknowledged in the transaction (`TxOpen`). `TxEnds` says when the consumer is registered with
  the transaction (`TxRegistered`) and what the broker has acknowledgements for between
  `beforeEnd` and the answer (`TxAcks`). `CommitCovers` is `TxAcks` at the moment at which the
  commit is sent.

A rollback of an interrupted transaction goes through `Returned`, a fold over the set of messages
that were not replayed. `TakesOutExists` and `FoldTakesOut` show, by a smallest counterexample
(`LeastNumber`) in place of induction, that the function `FoldLeft` chooses exists and takes out
exactly those messages; `ReturnedSet` says that what a rollback puts back is the delivered list
without them, in its order.

The proofs corrected statements that held on the run's instance only: with three messages an ack
range could take in messages the present connection's broker had never sent (`Covered`), and
with a second interruption or a failure besides the first one the properties needed the
exceptions of section 5.

Only model checked, with the reason:

- the liveness properties (`CallsEndAfterFailure`, `EveryTaskGetsItsTurn`, `ShutdownReturns`,
  `CloseReleasesReceivers`, `ReconnectsOrFails`, `CloseReturns`) and the fairness
  that `ImplementsRequestReply` includes: liveness under fairness is outside the prover's reach;
- `CallsGoOn`, and `NobodyStuck` as it stands, because they speak of ENABLED; `OnlyTheRunnerWaitsInACircle` proves what the
  latter says with the conditions of the actions written out.

## 7. Not modelled

Message contents, marshalling, URI options, sockets, clocks (a timeout may happen at any
moment at which it is waited for) and memory management. `PROJECT.json` lists every
component left out with its reason. In terms of lines the models cover a small part of the repository: most of it
is vendored (apr, zlib, CppUnit), generated (marshallers and commands), a class library without
a protocol of its own (decaf's collections, streams and networking) or tests.
