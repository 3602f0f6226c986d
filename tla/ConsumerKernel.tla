--------------------------- MODULE ConsumerKernel ---------------------------
(***************************************************************************)
(* Acknowledgement and redelivery in ActiveMQConsumerKernel, with the      *)
(* local transactions of ActiveMQTransactionContext, for one consumer of a *)
(* queue or topic from which one application thread receives               *)
(* synchronously.                                                          *)
(*                                                                         *)
(* Threads: the application (receive, acknowledge, recover, commit,        *)
(* rollback, close), the transport (dispatch, transportInterrupted), the   *)
(* connection's scheduler (ClearConsumerTask, StartConsumerTask) and the   *)
(* consumer's ack executor.  Every block under the lock of                 *)
(* deliveredMessages or of unconsumedMessages is one step.                 *)
(*                                                                         *)
(* Messages are numbered in the order the broker sends them.  Left out:    *)
(* optimizeAcknowledge, transactedIndividualAck, nonBlockingRedelivery,    *)
(* browsers, a prefetch of zero, ConsumerControl commands, listeners (see  *)
(* SessionDispatch), XA, interrupts of the application's thread, and       *)
(* failures of anything but the request that ends a transaction.           *)
(***************************************************************************)
EXTENDS Integers, SequencesExt

CONSTANTS
    NumMessages,       \* the broker's messages are 1..NumMessages
    Modes,             \* acknowledgement modes to look at
    PrefetchSize,
    MaximumRedeliveries,
    BrokerCounts,      \* redelivery counters the broker may dispatch with
    MaxInterruptions,  \* bound on transportInterrupted
    MaxFailures,       \* bound on failed commit and rollback requests
    MaxFaults          \* bound on both together

ASSUME ConstantsAssumption ==
    /\ NumMessages \in Nat
    /\ Modes \subseteq {"auto", "batch", "client", "individual", "transacted"}
    /\ PrefetchSize \in Nat \ {0}
    /\ MaximumRedeliveries \in Nat
    /\ BrokerCounts \subseteq Nat
    /\ MaxInterruptions \in Nat
    /\ MaxFailures \in Nat
    /\ MaxFaults \in Nat

VARIABLES
    mode,              \* the session's acknowledge mode; "batch" is
                       \* DUPS_OK_ACKNOWLEDGE on a topic
    unconsumed,        \* unconsumedMessages: its list ...
    running,           \* ... and its flags
    closed,
    delivered,         \* deliveredMessages, the latest first
    pendingAck,
    deliveredCounter,
    previously,        \* previouslyDeliveredMessages: message |-> replayed
    clearList,         \* isClearDeliveredList
    clearRequired,     \* inProgressClearRequiredFlag
    redeliveries,      \* message |-> getRedeliveryCounter()
    overdue,           \* messages dispatched with a counter over the limit
    audit,             \* the connection's audit
    inTx,              \* transactionId # NULL
    syncs,             \* synchronizations: the consumer's, its close
    syncRegistered,    \* synchronizationRegistered
    closeSync,         \* closeSyncRegistered
    app,               \* the application thread
    disp,              \* the transport's thread, in dispatch
    clearTasks,        \* ClearConsumerTasks scheduled
    starting,          \* a StartConsumerTask is scheduled
    ackTask,           \* the ack in the executor
    arrived,           \* messages ever dispatched to the consumer
    sent,              \* those dispatched on the present connection
    handed,            \* messages the application has had
    got,               \* those it has had and not yet settled
    final,             \* message |-> acks that ended it at the broker
    txAcked,           \* messages acknowledged in the open transaction
    mixed,             \* history: messages of the old connection may meet
                       \* their replays
    doubled,           \* history: an interruption came before the messages of
                       \* the one before it were cleared
    interruptions,
    failures

channelVars == <<unconsumed, running, closed>>
ackVars == <<delivered, pendingAck, deliveredCounter, previously, clearList>>
txVars == <<inTx, syncs, syncRegistered, closeSync>>
taskVars == <<clearTasks, starting, ackTask>>
brokerVars == <<arrived, sent, final, txAcked>>
appVars == <<app, handed, got>>
boundVars == <<interruptions, failures, mixed, doubled>>
auditVars == <<audit, redeliveries, overdue>>
vars == <<mode, channelVars, ackVars, clearRequired, auditVars, txVars,
          appVars, disp, taskVars, brokerVars, boundVars>>

-----------------------------------------------------------------------------
Messages == 1..NumMessages

NoAck == [type |-> "none", first |-> 0, last |-> 0, count |-> 0]

Acks == [type : {"none", "delivered", "consumed"},
         first : 0..NumMessages, last : 0..NumMessages, count : Int]

Transacted == mode = "transacted"

FaultsLeft == interruptions + failures < MaxFaults

NoMessage == 0

IdleApp == [pc |-> "idle", op |-> "none", msg |-> NoMessage,
            expired |-> FALSE, old |-> NoAck, todo |-> {}]

\* The message in the application thread's hands, between the queues, and
\* all the messages the consumer has.
InHand == IF app.pc = "before" THEN {app.msg} ELSE {}

Held == ToSet(unconsumed) \cup InHand \cup ToSet(delivered)

IdleDisp == [pc |-> "idle", msg |-> NoMessage, count |-> 0]

Init ==
    /\ mode \in Modes
    /\ unconsumed = <<>> /\ running = TRUE /\ closed = FALSE
    /\ delivered = <<>> /\ pendingAck = NoAck /\ deliveredCounter = 0
    /\ previously = <<>> /\ clearList = FALSE /\ clearRequired = 0
    /\ redeliveries = [m \in Messages |-> 0] /\ overdue = {} /\ audit = {}
    /\ inTx = FALSE /\ syncs = {} /\ syncRegistered = FALSE /\ closeSync = FALSE
    /\ app = IdleApp /\ disp = IdleDisp
    /\ clearTasks = 0 /\ starting = FALSE /\ ackTask = NoAck
    /\ arrived = {} /\ sent = {} /\ handed = {} /\ got = {}
    /\ final = [m \in Messages |-> {}] /\ txAcked = {}
    /\ interruptions = 0 /\ failures = 0 /\ mixed = FALSE /\ doubled = FALSE

-----------------------------------------------------------------------------
(* Acknowledgements at the broker.                                         *)

\* The messages that a range from first to last acknowledges: those the broker
\* has dispatched to the consumer on the present connection.
Covered(first, last) == {m \in first..last : m \in sent /\ final[m] = {}}

\* The broker ends these messages for this reason.
Settle(ms, why) ==
    final' = [m \in Messages |-> final[m] \cup (IF m \in ms THEN {why} ELSE {})]

\* An ack of one message, which the broker may not know on this connection.
SettleOne(m, why) == Settle(Covered(m, m), why)

\* An ack of a whole range; one of type "delivered" only moves the window.
SendAck(ack) ==
    Settle(IF ack.type = "consumed" THEN Covered(ack.first, ack.last) ELSE {},
           "consumed")

\* Fault: the ack's first message id is not set.
makeAckForLatest ==
    [type |-> "consumed", first |-> Head(delivered), last |-> Head(delivered),
     count |-> Len(delivered)]

\* Fault: the ack goes up to the latest message dispatched.
makeAckForAllDispatched ==
    [type |-> "consumed", first |-> Last(delivered),
     last |-> IF unconsumed = <<>> THEN Head(delivered) ELSE Last(unconsumed),
     count |-> Len(delivered)]

makeAckForAllDeliveredMessages ==
    [type |-> "consumed", first |-> Last(delivered), last |-> Head(delivered),
     count |-> Len(delivered)]

-----------------------------------------------------------------------------
(* clearDeliveredList: what an interruption asked for and the next thread  *)
(* that comes by does.                                                     *)
clearDeliveredList ==
    /\ clearList' = FALSE
    /\ IF clearList /\ delivered # <<>>
       THEN IF Transacted
            THEN /\ previously' = [m \in DOMAIN previously \cup ToSet(delivered) |->
                                     m \notin ToSet(delivered) /\ previously[m]]
                 /\ UNCHANGED <<delivered, pendingAck, audit>>
            ELSE /\ delivered' = <<>>
                 /\ pendingAck' = NoAck
                 /\ audit' = IF mode \in {"client", "individual"}
                             THEN audit \ ToSet(delivered) ELSE audit
                 /\ UNCHANGED previously
       ELSE UNCHANGED <<delivered, pendingAck, previously, audit>>
    /\ UNCHANGED <<deliveredCounter, redeliveries, overdue>>

\* Fault: the flag stays up.
clearMessagesAgain ==
    IF clearRequired > 0
    THEN /\ unconsumed' = <<>>
         /\ audit' = audit \ ToSet(unconsumed)
         /\ UNCHANGED clearRequired
    ELSE UNCHANGED <<unconsumed, audit, clearRequired>>

\* clearMessagesInProgress: the old connection's messages go.
clearMessagesInProgress ==
    IF clearRequired > 0
    THEN /\ unconsumed' = <<>>
         /\ audit' = audit \ ToSet(unconsumed)
         /\ clearRequired' = clearRequired - 1
    ELSE UNCHANGED <<unconsumed, audit, clearRequired>>

-----------------------------------------------------------------------------
(* receive.                                                                *)

\* The application thread goes on at pc; dequeue looks for another message.
Goto(pc) == app' = [app EXCEPT !.pc = pc]

LookAgain == app' = [IdleApp EXCEPT !.pc = "pull", !.op = "receive"]

Call(op, pc) ==
    /\ app.pc = "idle"
    /\ app' = [IdleApp EXCEPT !.pc = pc, !.op = op]

\* checkClosed, then sendPullRequest.
Receive ==
    /\ ~closed
    /\ clearDeliveredList
    /\ Call("receive", "wait")
    /\ UNCHANGED <<mode, channelVars, clearRequired, txVars, handed, got, disp,
                   taskVars, brokerVars, boundVars>>

\* sendPullRequest of dequeue, and acknowledge of a commit that turned into a
\* rollback.
ClearList ==
    /\ app.pc \in {"pull", "ackClear"}
    /\ clearDeliveredList
    /\ Goto(IF app.pc = "pull" THEN "wait" ELSE "ack")
    /\ UNCHANGED <<mode, channelVars, clearRequired, txVars, handed, got, disp,
                   taskVars, brokerVars, boundVars>>

\* receive(timeout) and receiveNoWait give up.
ReceiveNothing ==
    /\ app.pc = "wait"
    /\ unconsumed = <<>> \/ ~running
    /\ app' = IdleApp
    /\ UNCHANGED <<mode, channelVars, ackVars, clearRequired, auditVars, txVars,
                   handed, got, disp, taskVars, brokerVars, boundVars>>

\* dequeue of a message that may be expired.
Dequeue(expired) ==
    /\ app.pc = "wait"
    /\ unconsumed # <<>> /\ running
    /\ expired \/ ~(Transacted /\ Head(unconsumed) \in overdue)
    /\ unconsumed' = Tail(unconsumed)
    /\ app' = [app EXCEPT !.pc = "before", !.msg = Head(unconsumed),
                          !.expired = expired]
    /\ mixed' = (mixed \/ clearRequired > 0)
    /\ UNCHANGED <<mode, running, closed, ackVars, clearRequired, auditVars,
                   txVars, handed, got, disp, taskVars, brokerVars,
                   interruptions, failures, doubled>>

\* redeliveryExceeded: dequeue acknowledges it as poison and looks again.
DequeueExceeded ==
    /\ app.pc = "wait"
    /\ unconsumed # <<>> /\ running
    /\ Transacted /\ Head(unconsumed) \in overdue
    /\ unconsumed' = Tail(unconsumed)
    /\ SettleOne(Head(unconsumed), "poison")
    /\ LookAgain
    /\ UNCHANGED <<mode, running, closed, ackVars, clearRequired, auditVars,
                   txVars, handed, got, disp, taskVars, arrived, sent, txAcked,
                   boundVars>>

beforeMessageIsConsumed ==
    /\ app.pc = "before"
    /\ delivered' = IF mode = "batch" THEN delivered ELSE <<app.msg>> \o delivered
    /\ handed' = IF app.expired THEN handed ELSE handed \cup {app.msg}
    /\ got' = IF app.expired THEN got ELSE got \cup {app.msg}
    /\ Goto(IF Transacted THEN "later" ELSE "after")
    /\ UNCHANGED <<mode, channelVars, pendingAck, deliveredCounter, previously,
                   clearList, clearRequired, auditVars, txVars, disp, taskVars,
                   brokerVars, boundVars>>

\* registerSync, which begins a transaction when there is none.
registerSync ==
    /\ inTx' = TRUE
    /\ syncs' = (IF inTx THEN syncs ELSE {})
                    \cup (IF syncRegistered THEN {} ELSE {"tx"})
    /\ syncRegistered' = TRUE
    /\ UNCHANGED closeSync

\* ackLater up to the read of the old pendingAck ...
ackLater ==
    /\ app.pc = "later"
    /\ IF Transacted THEN registerSync ELSE UNCHANGED txVars
    /\ deliveredCounter' = deliveredCounter + 1
    /\ app' = [app EXCEPT !.pc = "write", !.old = pendingAck]
    /\ UNCHANGED <<mode, channelVars, delivered, pendingAck, previously,
                   clearList, clearRequired, auditVars, handed, got, disp,
                   taskVars, brokerVars, boundVars>>

\* ... and the new one, sent when half the prefetch is outstanding.
ackLaterWrites ==
    LET ack == [type |-> IF mode = "batch" THEN "consumed" ELSE "delivered",
                first |-> IF app.old = NoAck THEN app.msg ELSE app.old.first,
                last |-> app.msg,
                count |-> deliveredCounter]
        full == PrefetchSize <= 2 * deliveredCounter
    IN  /\ app.pc = "write"
        /\ IF full THEN SendAck(ack) ELSE UNCHANGED final
        /\ pendingAck' = IF full THEN NoAck ELSE ack
        /\ deliveredCounter' = IF full THEN 0 ELSE deliveredCounter
        /\ app' = IF Transacted /\ app.expired THEN [app EXCEPT !.pc = "after"]
                  ELSE IdleApp
        /\ UNCHANGED <<mode, channelVars, delivered, previously, clearList,
                       clearRequired, auditVars, txVars, handed, got, disp,
                       taskVars, arrived, sent, txAcked, boundVars>>

\* afterMessageIsConsumed of an expired message; dequeue then looks again.
ConsumedExpired ==
    /\ app.pc = "after" /\ app.expired
    /\ SettleOne(app.msg, "expired")
    /\ delivered' = RemoveFirst(delivered, app.msg)
    /\ LookAgain
    /\ UNCHANGED <<mode, channelVars, pendingAck, deliveredCounter, previously,
                   clearList, clearRequired, auditVars, txVars, handed, got,
                   disp, taskVars, arrived, sent, txAcked, boundVars>>

\* afterMessageIsConsumed when every message is acknowledged at once.
ConsumedAuto ==
    /\ app.pc = "after" /\ ~app.expired /\ mode = "auto"
    /\ IF delivered # <<>> THEN SendAck(makeAckForAllDeliveredMessages)
                           ELSE UNCHANGED final
    /\ delivered' = <<>>
    /\ got' = {}
    /\ app' = IdleApp
    /\ UNCHANGED <<mode, channelVars, pendingAck, deliveredCounter, previously,
                   clearList, clearRequired, auditVars, txVars, handed, disp,
                   taskVars, arrived, sent, txAcked, boundVars>>

\* afterMessageIsConsumed in the other modes.
ConsumedLater ==
    /\ app.pc = "after" /\ ~app.expired /\ mode # "auto"
    /\ app' = IF mode = "batch" \/ app.msg \in ToSet(delivered)
              THEN [app EXCEPT !.pc = "later"] ELSE IdleApp
    /\ UNCHANGED <<mode, channelVars, ackVars, clearRequired, auditVars, txVars,
                   handed, got, disp, taskVars, brokerVars, boundVars>>

-----------------------------------------------------------------------------
(* Acknowledging.                                                          *)

\* acknowledge() of a message in client mode: all of the session's messages.
Acknowledge ==
    /\ mode = "client" /\ ~closed
    /\ clearDeliveredList
    /\ Call("acknowledge", "ack")
    /\ UNCHANGED <<mode, channelVars, clearRequired, txVars, handed, got, disp,
                   taskVars, brokerVars, boundVars>>

\* acknowledge() of one message in individual mode; on a message of an
\* earlier connection the ack ends nothing.
AcknowledgeOne(m) ==
    /\ mode = "individual" /\ ~closed /\ app.pc = "idle" /\ m \in got
    /\ SettleOne(m, "consumed")
    /\ delivered' = RemoveFirst(delivered, m)
    /\ got' = got \ {m}
    /\ UNCHANGED <<mode, channelVars, pendingAck, deliveredCounter, previously,
                   clearList, clearRequired, auditVars, txVars, app, handed,
                   disp, taskVars, arrived, sent, txAcked, boundVars>>

\* Previously delivered messages that the new connection did not replay.
NotReplayed == {m \in DOMAIN previously : ~previously[m]}

\* After beforeEnd of the consumer's synchronization, or out of acknowledge().
Acknowledged ==
    /\ app' = IF Transacted THEN [app EXCEPT !.pc = "end"] ELSE IdleApp
    /\ syncRegistered' = IF Transacted THEN FALSE ELSE syncRegistered

AcknowledgeNothing ==
    /\ app.pc = "ack" /\ delivered = <<>>
    /\ Acknowledged
    /\ UNCHANGED <<mode, channelVars, ackVars, clearRequired, auditVars, inTx,
                   syncs, closeSync, handed, got, disp, taskVars, brokerVars,
                   boundVars>>

AcknowledgeAll ==
    /\ app.pc = "ack" /\ delivered # <<>>
    /\ Transacted => NotReplayed = {}
    /\ LET ack == makeAckForAllDeliveredMessages
       IN  IF Transacted
           THEN /\ txAcked' = txAcked \cup Covered(ack.first, ack.last)
                /\ UNCHANGED <<final, delivered, got>>
           ELSE /\ SendAck(ack)
                /\ delivered' = <<>>
                /\ got' = {}
                /\ UNCHANGED txAcked
    /\ pendingAck' = NoAck
    /\ deliveredCounter' = IF deliveredCounter > Len(delivered)
                           THEN deliveredCounter - Len(delivered) ELSE 0
    /\ Acknowledged
    /\ UNCHANGED <<mode, channelVars, previously, clearList, clearRequired,
                   auditVars, inTx, syncs, closeSync, handed, disp, taskVars,
                   arrived, sent, boundVars>>

\* rollbackOnFailedRecoveryRedelivery throws: commit turns into rollback,
\* which calls beforeEnd again and ignores the second exception.
AcknowledgeThrows ==
    /\ app.pc = "ack" /\ delivered # <<>>
    /\ Transacted /\ NotReplayed # {}
    /\ app' = IF app.op = "commit"
              THEN [app EXCEPT !.op = "rollback", !.pc = "ackClear"]
              ELSE [app EXCEPT !.pc = "end"]
    /\ UNCHANGED <<mode, channelVars, ackVars, clearRequired, auditVars, txVars,
                   handed, got, disp, taskVars, brokerVars, boundVars>>

-----------------------------------------------------------------------------
(* Transactions.                                                           *)

\* commit and rollback: beforeEnd of the synchronizations.  Straight after a
\* rollback that failed, begin would clear the set that beforeEnd walks
\* through; what happens then is undefined and not modelled.
EndTransaction(op) ==
    /\ Transacted
    /\ "tx" \in syncs => inTx
    /\ IF "tx" \in syncs
       THEN clearDeliveredList /\ Call(op, "ack")
       ELSE UNCHANGED <<ackVars, auditVars>> /\ Call(op, "end")
    /\ UNCHANGED <<mode, channelVars, clearRequired, txVars, handed, got, disp,
                   taskVars, brokerVars, boundVars>>

\* No transaction: there is nothing to send.
EndNothing ==
    /\ app.pc = "end" /\ ~inTx
    /\ app' = IdleApp
    /\ UNCHANGED <<mode, channelVars, ackVars, clearRequired, auditVars, txVars,
                   handed, got, disp, taskVars, brokerVars, boundVars>>

CommitRequest ==
    /\ app.pc = "end" /\ inTx /\ app.op = "commit"
    /\ inTx' = FALSE
    /\ Settle(txAcked, "consumed")
    /\ txAcked' = {}
    /\ app' = [app EXCEPT !.pc = "syncs", !.todo = syncs]
    /\ UNCHANGED <<mode, channelVars, ackVars, clearRequired, auditVars, syncs,
                   syncRegistered, closeSync, handed, got, disp, taskVars,
                   arrived, sent, boundVars>>

\* The request throws; the broker may have committed all the same.
CommitRequestFails ==
    /\ app.pc = "end" /\ inTx /\ app.op = "commit"
    /\ failures < MaxFailures /\ FaultsLeft
    /\ failures' = failures + 1
    /\ inTx' = FALSE
    /\ Settle(txAcked, "consumed") \/ UNCHANGED final
    /\ txAcked' = {}
    /\ app' = [app EXCEPT !.pc = "syncs", !.op = "rollback", !.todo = syncs]
    /\ UNCHANGED <<mode, channelVars, ackVars, clearRequired, auditVars, syncs,
                   syncRegistered, closeSync, handed, got, disp, taskVars,
                   arrived, sent, interruptions, mixed, doubled>>

RollbackRequest ==
    /\ app.pc = "end" /\ inTx /\ app.op = "rollback"
    /\ inTx' = FALSE
    /\ txAcked' = {}
    /\ app' = [app EXCEPT !.pc = "syncs", !.todo = syncs]
    /\ UNCHANGED <<mode, channelVars, ackVars, clearRequired, auditVars, syncs,
                   syncRegistered, closeSync, handed, got, disp, taskVars,
                   arrived, sent, final, boundVars>>

\* The request throws, and afterRollback is not called.
RollbackRequestFails ==
    /\ app.pc = "end" /\ inTx /\ app.op = "rollback"
    /\ failures < MaxFailures /\ FaultsLeft
    /\ failures' = failures + 1
    /\ inTx' = FALSE
    /\ txAcked' = {}
    /\ app' = IdleApp
    /\ UNCHANGED <<mode, channelVars, ackVars, clearRequired, auditVars, syncs,
                   syncRegistered, closeSync, handed, got, disp, taskVars,
                   arrived, sent, final, interruptions, mixed,
                   doubled>>

\* afterCommit and afterRollback take the synchronizations in any order.
RunSync(sync) ==
    /\ app.pc = "syncs" /\ sync \in app.todo
    /\ app' = [app EXCEPT !.todo = @ \ {sync},
                          !.pc = IF sync = "close" THEN "settle" ELSE app.op]
    /\ IF sync = "tx" /\ app.op = "rollback" THEN clearDeliveredList
                                             ELSE UNCHANGED <<ackVars, auditVars>>
    /\ UNCHANGED <<mode, channelVars, clearRequired, txVars, handed, got, disp,
                   taskVars, brokerVars, boundVars>>

SyncsDone ==
    /\ app.pc = "syncs" /\ app.todo = {}
    /\ syncs' = {}
    /\ app' = IdleApp
    /\ UNCHANGED <<mode, channelVars, ackVars, clearRequired, auditVars, inTx,
                   syncRegistered, closeSync, handed, got, disp, taskVars,
                   brokerVars, boundVars>>

commit ==
    /\ app.pc = "commit"
    /\ delivered' = <<>>
    /\ previously' = <<>>
    /\ syncRegistered' = FALSE
    /\ got' = {}
    /\ Goto("syncs")
    /\ UNCHANGED <<mode, channelVars, pendingAck, deliveredCounter, clearList,
                   clearRequired, auditVars, inTx, syncs, closeSync, handed,
                   disp, taskVars, brokerVars, boundVars>>

-----------------------------------------------------------------------------
(* rollback of the consumer, by recover or by the end of a transaction.    *)

Recover ==
    /\ ~Transacted /\ ~closed
    /\ clearDeliveredList
    /\ Call("recover", "rollback")
    /\ UNCHANGED <<mode, channelVars, clearRequired, txVars, handed, got, disp,
                   taskVars, brokerVars, boundVars>>

\* What is left when each message that was not replayed is taken out once.
Returned == FoldLeft(RemoveFirst, delivered, SetToSeq(NotReplayed))

RolledBack ==
    /\ previously' = <<>>
    /\ delivered' = <<>>
    /\ audit' = audit \ ToSet(delivered)
    /\ got' = {}
    /\ IF Transacted THEN Goto("syncs") /\ syncRegistered' = FALSE
                     ELSE app' = IdleApp /\ UNCHANGED syncRegistered

rollbackNothing ==
    /\ app.pc = "rollback" /\ Returned = <<>>
    /\ RolledBack
    /\ UNCHANGED <<mode, channelVars, pendingAck, deliveredCounter, clearList,
                   clearRequired, redeliveries, overdue, inTx, syncs, closeSync,
                   handed, disp, taskVars, brokerVars, boundVars>>

\* The redelivery limit is judged by the latest message.
LimitExceeded == redeliveries[Head(Returned)] + 1 > MaximumRedeliveries

CountRedelivery ==
    redeliveries' = [m \in Messages |-> IF m \in ToSet(Returned)
                                        THEN redeliveries[m] + 1
                                        ELSE redeliveries[m]]

rollbackPoison ==
    /\ app.pc = "rollback" /\ Returned # <<>> /\ LimitExceeded
    /\ CountRedelivery
    /\ Settle(Covered(Last(Returned), Head(Returned)), "poison")
    /\ deliveredCounter' = deliveredCounter - Len(Returned)
    /\ RolledBack
    /\ UNCHANGED <<mode, channelVars, pendingAck, clearList, clearRequired,
                   overdue, inTx, syncs, closeSync, handed, disp, taskVars,
                   arrived, sent, txAcked, boundVars>>

\* Fault: the latest message is put back last.
PutBackLatestFirst == Returned \o unconsumed

PutBack == Reverse(Returned) \o unconsumed

\* Back to the front of the channel, which stops until the redelivery delay
\* is over (start() does nothing on a closed channel).
rollback(delayed) ==
    /\ app.pc = "rollback" /\ Returned # <<>> /\ ~LimitExceeded
    /\ CountRedelivery
    /\ unconsumed' = PutBack
    /\ running' = (~delayed /\ ~closed)
    /\ starting' = (starting \/ (delayed /\ ~closed))
    /\ deliveredCounter' = deliveredCounter - Len(Returned)
    /\ RolledBack
    /\ UNCHANGED <<mode, closed, pendingAck, clearList, clearRequired, overdue,
                   inTx, syncs, closeSync, handed, disp, clearTasks, ackTask,
                   brokerVars, boundVars>>

\* Fault: a consumer without messages is not started.
StartConsumerIfMessages ==
    /\ starting
    /\ starting' = FALSE
    /\ running' = (running \/ (~closed /\ unconsumed # <<>>))
    /\ UNCHANGED <<mode, unconsumed, closed, ackVars, clearRequired, auditVars,
                   txVars, appVars, disp, clearTasks, ackTask, brokerVars,
                   boundVars>>

\* StartConsumerTask.
StartConsumer ==
    /\ starting
    /\ starting' = FALSE
    /\ running' = (running \/ ~closed)
    /\ UNCHANGED <<mode, unconsumed, closed, ackVars, clearRequired, auditVars,
                   txVars, appVars, disp, clearTasks, ackTask, brokerVars,
                   boundVars>>

-----------------------------------------------------------------------------
(* close.                                                                  *)

\* In a transaction with messages the close waits for its end; a second
\* call does not.
CloseDeferred ==
    /\ app.pc = "idle" /\ ~closed
    /\ delivered # <<>> /\ inTx /\ ~closeSync
    /\ closeSync' = TRUE
    /\ syncs' = syncs \cup {"close"}
    /\ UNCHANGED <<mode, channelVars, ackVars, clearRequired, auditVars, inTx,
                   syncRegistered, appVars, disp, taskVars, brokerVars,
                   boundVars>>

\* Fault: a pending ack is left behind.
deliverAcksOfDelivered ==
    IF mode = "auto" /\ delivered # <<>>
    THEN /\ ackTask' = makeAckForAllDeliveredMessages
         /\ delivered' = <<>>
         /\ UNCHANGED pendingAck
    ELSE UNCHANGED <<ackTask, pendingAck, delivered>>

\* deliverAcks gives the outstanding ack to the executor.
deliverAcks ==
    IF mode = "auto" /\ delivered # <<>>
    THEN /\ ackTask' = makeAckForAllDeliveredMessages
         /\ delivered' = <<>>
         /\ UNCHANGED pendingAck
    ELSE IF ~Transacted /\ pendingAck.type = "consumed"
    THEN /\ ackTask' = pendingAck
         /\ pendingAck' = NoAck
         /\ UNCHANGED delivered
    ELSE UNCHANGED <<ackTask, pendingAck, delivered>>

\* doClose, and dispose up to the executor's end.
Close ==
    /\ ~closed
    /\ ~(delivered # <<>> /\ inTx /\ ~closeSync)
    /\ Call("close", "settle")
    /\ deliverAcks
    /\ UNCHANGED <<mode, channelVars, deliveredCounter, previously, clearList,
                   clearRequired, auditVars, txVars, handed, got, disp,
                   clearTasks, starting, brokerVars, boundVars>>

\* AsyncMessageAckTask.
AckTaskRuns ==
    /\ ackTask # NoAck
    /\ SendAck(ackTask)
    /\ ackTask' = NoAck
    /\ UNCHANGED <<mode, channelVars, ackVars, clearRequired, auditVars, txVars,
                   appVars, disp, clearTasks, starting, arrived, sent, txAcked,
                   boundVars>>

\* awaitTermination gives up after 60 s and its result is not looked at, but
\* the next line destroys the executor, and ~ExecutorKernel waits for the
\* task without limit.
ExecutorTerminated == ackTask = NoAck

\* The rest of dispose, once the executor is gone.
dispose ==
    /\ app.pc = "settle" /\ ExecutorTerminated
    /\ IF closed
       THEN UNCHANGED <<channelVars, delivered, audit>>
       ELSE /\ closed' = TRUE
            /\ running' = FALSE
            /\ unconsumed' = <<>>
            /\ delivered' = IF Transacted THEN delivered ELSE <<>>
            /\ audit' = audit \ (ToSet(unconsumed) \cup
                                 IF mode \in {"client", "individual"}
                                 THEN ToSet(delivered) ELSE {})
    /\ app' = IF app.op = "close" THEN IdleApp ELSE [app EXCEPT !.pc = "syncs"]
    /\ UNCHANGED <<mode, pendingAck, deliveredCounter, previously, clearList,
                   clearRequired, redeliveries, overdue, txVars, handed, got,
                   disp, taskVars, brokerVars, boundVars>>

-----------------------------------------------------------------------------
(* The transport's thread.                                                 *)

\* The broker dispatches its unacknowledged messages in order, after a
\* reconnect from the start; those it gives to other consumers stay there.
OnDispatch(m, count) ==
    /\ disp.pc = "idle" /\ ~closed
    /\ final[m] = {} /\ \A s \in sent : s < m
    /\ m \in arrived \/ \A a \in arrived : a < m
    /\ disp' = [pc |-> "progress", msg |-> m, count |-> count]
    /\ sent' = sent \cup {m}
    /\ arrived' = arrived \cup {m}
    /\ UNCHANGED <<mode, channelVars, ackVars, clearRequired, auditVars, txVars,
                   appVars, taskVars, final, txAcked, boundVars>>

DispatchClearsProgress ==
    /\ disp.pc = "progress"
    /\ clearMessagesInProgress
    /\ disp' = [disp EXCEPT !.pc = "list"]
    /\ UNCHANGED <<mode, running, closed, ackVars, redeliveries, overdue, txVars,
                   appVars, taskVars, brokerVars, boundVars>>

DispatchClearsList ==
    /\ disp.pc = "list"
    /\ clearDeliveredList
    /\ disp' = [disp EXCEPT !.pc = "put"]
    /\ UNCHANGED <<mode, channelVars, clearRequired, txVars, appVars, taskVars,
                   brokerVars, boundVars>>

\* The consumer has been closed meanwhile.
DispatchClosed ==
    /\ disp.pc = "put" /\ closed
    /\ disp' = IdleDisp
    /\ UNCHANGED <<mode, channelVars, ackVars, clearRequired, auditVars, txVars,
                   appVars, taskVars, brokerVars, boundVars>>

DispatchFresh ==
    /\ disp.pc = "put" /\ ~closed
    /\ disp.msg \notin audit
    /\ audit' = IF running THEN audit \cup {disp.msg} ELSE audit
    /\ unconsumed' = Append(unconsumed, disp.msg)
    /\ redeliveries' = [redeliveries EXCEPT ![disp.msg] = disp.count]
    /\ overdue' = IF disp.count > MaximumRedeliveries
                  THEN overdue \cup {disp.msg} ELSE overdue \ {disp.msg}
    /\ disp' = IdleDisp
    /\ mixed' = (mixed \/ disp.msg \in Held)
    /\ UNCHANGED <<mode, running, closed, ackVars, clearRequired, txVars,
                   appVars, taskVars, brokerVars, interruptions, failures,
                   doubled>>

\* A replay that the transaction waits for.
DispatchReplay ==
    /\ disp.pc = "put" /\ ~closed
    /\ disp.msg \in audit
    /\ Transacted /\ disp.msg \in DOMAIN previously
    /\ previously' = [previously EXCEPT ![disp.msg] = TRUE]
    /\ disp' = IdleDisp
    /\ UNCHANGED <<mode, channelVars, delivered, pendingAck, deliveredCounter,
                   clearList, clearRequired, auditVars, txVars, appVars,
                   taskVars, brokerVars, boundVars>>

\* Any other duplicate goes back as poison.
DispatchDuplicate ==
    /\ disp.pc = "put" /\ ~closed
    /\ disp.msg \in audit
    /\ ~(Transacted /\ disp.msg \in DOMAIN previously)
    /\ SettleOne(disp.msg, "duplicate")
    /\ disp' = IdleDisp
    /\ UNCHANGED <<mode, channelVars, ackVars, clearRequired, auditVars, txVars,
                   appVars, taskVars, arrived, sent, txAcked, boundVars>>

\* Threads that are at work in the consumer just now carry what they hold
\* over to the new connection.
transportInterrupted ==
    /\ interruptions < MaxInterruptions /\ FaultsLeft /\ ~closed
    /\ interruptions' = interruptions + 1
    /\ mixed' = (mixed \/ disp.pc # "idle" \/ app.pc \notin {"idle", "wait"})
    /\ doubled' = (doubled \/ clearRequired > 0)
    /\ sent' = {}
    /\ clearRequired' = clearRequired + 1
    /\ clearList' = TRUE
    /\ clearTasks' = clearTasks + 1
    /\ UNCHANGED <<mode, channelVars, delivered, pendingAck, deliveredCounter,
                   previously, auditVars, txVars, appVars, disp, starting,
                   ackTask, arrived, final, txAcked, failures>>

ClearConsumer ==
    /\ clearTasks > 0
    /\ clearTasks' = clearTasks - 1
    /\ clearMessagesInProgress
    /\ UNCHANGED <<mode, running, closed, ackVars, redeliveries, overdue, txVars,
                   appVars, disp, starting, ackTask, brokerVars, boundVars>>

-----------------------------------------------------------------------------
Application ==
    \/ Receive \/ ClearList \/ ReceiveNothing \/ DequeueExceeded
    \/ \E expired \in BOOLEAN : Dequeue(expired)
    \/ beforeMessageIsConsumed \/ ackLater \/ ackLaterWrites
    \/ ConsumedExpired \/ ConsumedAuto \/ ConsumedLater
    \/ Acknowledge \/ AcknowledgeNothing \/ AcknowledgeAll \/ AcknowledgeThrows
    \/ \E m \in Messages : AcknowledgeOne(m)
    \/ \E op \in {"commit", "rollback"} : EndTransaction(op)
    \/ EndNothing \/ CommitRequest \/ CommitRequestFails
    \/ RollbackRequest \/ RollbackRequestFails
    \/ \E sync \in {"tx", "close"} : RunSync(sync)
    \/ SyncsDone \/ commit
    \/ Recover \/ rollbackNothing \/ rollbackPoison
    \/ \E delayed \in BOOLEAN : rollback(delayed)
    \/ CloseDeferred \/ Close \/ dispose

Transport ==
    \/ \E m \in Messages, count \in BrokerCounts : OnDispatch(m, count)
    \/ DispatchClearsProgress \/ DispatchClearsList \/ DispatchClosed
    \/ DispatchFresh \/ DispatchReplay \/ DispatchDuplicate
    \/ transportInterrupted

Tasks == StartConsumer \/ ClearConsumer \/ AckTaskRuns

Next == Application \/ Transport \/ Tasks

Spec == Init /\ [][Next]_vars

-----------------------------------------------------------------------------
TypeOK ==
    /\ mode \in Modes
    /\ unconsumed \in Seq(Messages) /\ running \in BOOLEAN /\ closed \in BOOLEAN
    /\ delivered \in Seq(Messages) /\ pendingAck \in Acks
    /\ deliveredCounter \in Int
    /\ DOMAIN previously \subseteq Messages
    /\ \A m \in DOMAIN previously : previously[m] \in BOOLEAN
    /\ clearList \in BOOLEAN /\ clearRequired \in 0..MaxInterruptions
    /\ redeliveries \in [Messages -> Nat] /\ overdue \subseteq Messages
    /\ audit \subseteq Messages
    /\ inTx \in BOOLEAN /\ syncs \subseteq {"tx", "close"}
    /\ syncRegistered \in BOOLEAN /\ closeSync \in BOOLEAN
    /\ app.msg \in Messages \cup {NoMessage} /\ app.old \in Acks
    /\ disp.msg \in Messages \cup {NoMessage}
    /\ clearTasks \in 0..MaxInterruptions /\ starting \in BOOLEAN
    /\ ackTask \in Acks
    /\ arrived \subseteq Messages /\ sent \subseteq arrived
    /\ handed \subseteq arrived /\ got \subseteq handed
    /\ final \in [Messages -> SUBSET {"consumed", "poison", "expired", "duplicate"}]
    /\ txAcked \subseteq Messages

(***************************************************************************)
(* "It defines a serial order for the messages it consumes"                *)
(* (cms/Session.h): the messages delivered, in hand and unconsumed are in  *)
(* the broker's order and each there once, whatever was rolled back or     *)
(* cleared meanwhile.  (Not where messages are mixed: rollback takes a     *)
(* message out of the audit and its local redelivery does not put it back, *)
(* so that its replay is taken for another message.  Nor in a transaction  *)
(* after an interruption: it keeps the messages of all its connections,    *)
(* and a broker may send on the third what it passed over on the second.)  *)
(***************************************************************************)
OrderKept ==
    interruptions = 0 \/ (~mixed /\ ~Transacted) =>
        LET line == Reverse(delivered) \o SetToSeq(InHand) \o unconsumed
        IN  \A i, j \in DOMAIN line : i < j => line[i] < line[j]

(***************************************************************************)
(* "It retains messages it consumes until they have been acknowledged"     *)
(* (cms/Session.h): a message that the present connection's broker has     *)
(* dispatched and not seen ended is still somewhere in the consumer.       *)
(* (Unless an interruption came while a thread was at work in the consumer *)
(* or before the old connection's messages were cleared; see mixed and     *)
(* doubled.  Nor after a second interruption where acks span connections:  *)
(* the pending ack of batch mode keeps its first message, and what a third *)
(* connection sends may be earlier, so that the range is empty; so it is   *)
(* with the messages of a transaction.)                                    *)
(***************************************************************************)
NothingForgotten ==
    \A m \in sent :
        /\ final[m] = {} /\ ~closed /\ ~mixed /\ ~doubled
        /\ interruptions <= 1 \/ mode \notin {"batch", "transacted"}
        =>
            \/ disp.pc # "idle" /\ disp.msg = m
            \/ m \in Held \cup txAcked
            \/ mode = "batch" /\ (\/ app.pc \in {"after", "later", "write"}
                                  \/ m \in pendingAck.first..pendingAck.last)
            \/ ackTask # NoAck /\ m \in ackTask.first..ackTask.last

\* The first connection, or the second while every request has succeeded.
FewFaults == interruptions = 0 \/ interruptions + failures <= 1

(***************************************************************************)
(* "Messages sent and received within a Transaction are grouped into an    *)
(* atomic unit" (cms/Session.h): when the commit is sent, the broker holds *)
(* acknowledgements in the transaction for all the messages the            *)
(* application has had in it, less those that came again and were sent     *)
(* back as duplicates, and for no other.  (Not where messages are mixed or *)
(* of three connections: the ack is a range and rests on the order of      *)
(* delivered.  Nor when an interruption makes beforeEnd of a rollback      *)
(* throw and its request fails too: the consumer then still believes to be *)
(* registered and never is again.)                                         *)
(***************************************************************************)
CommitCoversReceived ==
    app.pc = "end" /\ app.op = "commit" /\ inTx /\ ~mixed /\ FewFaults =>
        {m \in got : final[m] = {}} \subseteq txAcked /\ txAcked \subseteq got

(***************************************************************************)
(* An acknowledgement, though it names a range, ends no message but those  *)
(* the application has had and that have not been put back since.  (Not    *)
(* where messages are mixed, nor after a second interruption where the     *)
(* range may span all three connections: the pending ack of batch mode and *)
(* the messages of a transaction outlive an interruption.)                 *)
(***************************************************************************)
ConsumedWereReceived ==
    [][/\ ~mixed
       /\ interruptions <= 1 \/ mode \notin {"batch", "transacted"}
       => \A m \in Messages : "consumed" \in final'[m] \ final[m] =>
              m \in got \/ (mode = "batch" /\ m \in handed)]_vars

(***************************************************************************)
(* close of a consumer that acknowledges by itself leaves no message that  *)
(* the application has had unacknowledged: what receive left to close is   *)
(* with the executor before the consumer is torn down, and the executor's  *)
(* destructor waits for it however long it takes.  (Unless an interruption *)
(* came during receive: clearDeliveredList then drops the message before   *)
(* it is acknowledged.  In batch mode any interruption can do it: the      *)
(* broker knows the old connection's messages no more and sends them       *)
(* again.)                                                                 *)
(***************************************************************************)
CloseSettlesReceived ==
    closed /\ ~mixed /\ (mode = "auto" \/ (mode = "batch" /\ interruptions = 0)) =>
        \A m \in handed : final[m] # {}

(***************************************************************************)
(* A channel that rollback has stopped for the redelivery delay has its    *)
(* start scheduled, whatever else is rolled back or interrupted meanwhile: *)
(* otherwise the consumer would wait for ever on messages it has.          *)
(***************************************************************************)
StoppedWillStart == ~running /\ ~closed => starting

=============================================================================
