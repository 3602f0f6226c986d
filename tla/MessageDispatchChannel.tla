----------------------- MODULE MessageDispatchChannel -----------------------
(***************************************************************************)
(* The channel that holds messages dispatched by the broker until a        *)
(* consumer takes them: FifoMessageDispatchChannel.cpp and                 *)
(* SimplePriorityMessageDispatchChannel.cpp of activemq/core.  Every       *)
(* operation is one critical section on the channel's mutex, except that   *)
(* dequeue gives the mutex up while it waits.                              *)
(*                                                                         *)
(* The two classes differ in where a message goes (one list, or one per    *)
(* priority) and in how they count: the priority channel keeps a counter,  *)
(* enqueued, and isEmpty() and size() look at nothing else.  The owner of  *)
(* a channel chooses its class once (prioritised).                         *)
(***************************************************************************)
EXTENDS Integers, Sequences, SequencesExt, FiniteSets, FiniteSetsExt

CONSTANTS Messages,          \* the messages
          Priorities,        \* 0..9 in the code
          PriorityOf,        \* [Messages -> Priorities]
          BlockingReceivers, \* threads that call dequeue(-1)
          TimedReceivers,    \* threads that call dequeue(timeout)
          NoWaitReceivers,   \* threads that call dequeue(0) or dequeueNoWait()
          MaxEnqueued        \* bound on the counter

Receivers == BlockingReceivers \cup TimedReceivers \cup NoWaitReceivers

ASSUME ChannelAssumption ==
    /\ Priorities \subseteq 0..9 /\ Priorities # {}
    /\ PriorityOf \in [Messages -> Priorities]
    /\ IsFiniteSet(Receivers)
    /\ MaxEnqueued \in Nat
    /\ {"none", "null"} \cap Messages = {}
    /\ BlockingReceivers \cap (TimedReceivers \cup NoWaitReceivers) = {}
    /\ TimedReceivers \cap NoWaitReceivers = {}

VARIABLES
    prioritised, \* the channel is a SimplePriorityMessageDispatchChannel
    channels,  \* the lists, indexed by priority
    enqueued,  \* what isEmpty() and size() are computed from
    running,
    closed,
    rpc,       \* where each receiver is: idle, blocked in wait, or woken from it
    last       \* what its last dequeue returned

vars == <<prioritised, channels, enqueued, running, closed, rpc, last>>

Init ==
    /\ prioritised \in BOOLEAN
    /\ channels = [p \in Priorities |-> <<>>]
    /\ enqueued = 0
    /\ running = FALSE
    /\ closed = FALSE
    /\ rpc = [r \in Receivers |-> "idle"]
    /\ last = [r \in Receivers |-> "none"]

-----------------------------------------------------------------------------
(* getChannel(): the list a message belongs to. *)
Lane(m) == IF prioritised THEN PriorityOf[m] ELSE Min(Priorities)

Queued(m) == \E p \in Priorities : m \in ToSet(channels[p])

(* The places taken in the lists, whose number removeAll deducts. *)
Places == UNION {{p} \X DOMAIN channels[p] : p \in Priorities}

QueuedCount == Cardinality(Places)

isEmpty == enqueued = 0

Deliverable == running /\ ~closed /\ ~isEmpty

(* notify(): one of the threads in wait, if there is one. *)
Notify ==
    LET waiting == {r \in Receivers : rpc[r] = "blocked"}
    IN  IF waiting = {} THEN UNCHANGED rpc
        ELSE \E r \in waiting : rpc' = [rpc EXCEPT ![r] = "woken"]

NotifyAll == rpc' = [r \in Receivers |-> IF rpc[r] = "blocked" THEN "woken" ELSE rpc[r]]

Enqueue(m) ==
    /\ ~Queued(m)
    /\ enqueued < MaxEnqueued
    /\ channels' = [channels EXCEPT ![Lane(m)] = Append(@, m)]
    /\ enqueued' = enqueued + 1
    /\ Notify
    /\ UNCHANGED <<running, closed, last>>

EnqueueFirst(m) ==
    /\ ~Queued(m)
    /\ enqueued < MaxEnqueued
    /\ channels' = [channels EXCEPT ![Lane(m)] = <<m>> \o @]
    /\ enqueued' = enqueued + 1
    /\ Notify
    /\ UNCHANGED <<running, closed, last>>

-----------------------------------------------------------------------------
NonEmptyLanes == {p \in Priorities : channels[p] # <<>>}

(* removeFirst(): the head of the highest list that has one. *)
PopFirst(r) ==
    /\ NonEmptyLanes # {}
    /\ LET p == Max(NonEmptyLanes)
       IN  /\ channels' = [channels EXCEPT ![p] = Tail(@)]
           /\ last' = [last EXCEPT ![r] = Head(channels[p])]
    /\ enqueued' = enqueued - 1

ReturnNull(r) ==
    /\ last' = [last EXCEPT ![r] = "null"]
    /\ UNCHANGED <<channels, enqueued>>

(* The end of dequeue: closed, stopped or empty gives NULL, else the first message. *)
Take(r) ==
    /\ IF Deliverable /\ NonEmptyLanes # {} THEN PopFirst(r) ELSE ReturnNull(r)
    /\ rpc' = [rpc EXCEPT ![r] = "idle"]

(* The loop of dequeue: nothing to deliver and not closed. *)
MustWait == ~closed /\ (isEmpty \/ ~running)

(* dequeue finds something, or does not wait. *)
Dequeue(r) ==
    /\ rpc[r] = "idle"
    /\ r \in NoWaitReceivers \/ ~MustWait
    /\ Take(r)
    /\ UNCHANGED <<running, closed>>

DequeueBlocks(r) ==
    /\ rpc[r] = "idle"
    /\ r \notin NoWaitReceivers
    /\ MustWait
    /\ rpc' = [rpc EXCEPT ![r] = "blocked"]
    /\ UNCHANGED <<channels, enqueued, running, closed, last>>

(* The wait of dequeue(timeout) runs out. *)
WaitTimesOut(r) ==
    /\ r \in TimedReceivers
    /\ rpc[r] = "blocked"
    /\ rpc' = [rpc EXCEPT ![r] = "woken"]
    /\ UNCHANGED <<channels, enqueued, running, closed, last>>

(* Back from wait with the mutex: a timed receiver leaves the loop. *)
Resume(r) ==
    /\ rpc[r] = "woken"
    /\ r \in TimedReceivers \/ ~MustWait
    /\ Take(r)
    /\ UNCHANGED <<running, closed>>

WaitAgain(r) ==
    /\ rpc[r] = "woken"
    /\ r \in BlockingReceivers
    /\ MustWait
    /\ rpc' = [rpc EXCEPT ![r] = "blocked"]
    /\ UNCHANGED <<channels, enqueued, running, closed, last>>

-----------------------------------------------------------------------------
(* Fault: start wakes one receiver although several messages may be queued. *)
StartNotifiesOne ==
    /\ ~closed
    /\ running' = TRUE
    /\ Notify
    /\ UNCHANGED <<channels, enqueued, closed, last>>

Start ==
    /\ ~closed
    /\ running' = TRUE
    /\ NotifyAll
    /\ UNCHANGED <<channels, enqueued, closed, last>>

Stop ==
    /\ running' = FALSE
    /\ NotifyAll
    /\ UNCHANGED <<channels, enqueued, closed, last>>

(* Fault: close wakes nobody. *)
CloseSilently ==
    /\ running' = FALSE
    /\ closed' = TRUE
    /\ UNCHANGED <<channels, enqueued, rpc, last>>

Close ==
    /\ running' = IF closed THEN running ELSE FALSE
    /\ closed' = TRUE
    /\ NotifyAll
    /\ UNCHANGED <<channels, enqueued, last>>

(* clear(): the lists are emptied; the priority channel leaves its counter alone. *)
Clear ==
    /\ channels' = [p \in Priorities |-> <<>>]
    /\ enqueued' = IF prioritised THEN enqueued ELSE 0
    /\ UNCHANGED <<running, closed, rpc, last>>

RemoveAll ==
    /\ channels' = [p \in Priorities |-> <<>>]
    /\ enqueued' = enqueued - QueuedCount
    /\ UNCHANGED <<running, closed, rpc, last>>

ReceiverStep(r) == Resume(r) \/ WaitAgain(r)

(* What the channel's users do. *)
Operation ==
    \/ \E m \in Messages : Enqueue(m) \/ EnqueueFirst(m)
    \/ \E r \in Receivers : Dequeue(r) \/ DequeueBlocks(r) \/ WaitTimesOut(r)
    \/ Start \/ Stop \/ Close \/ Clear \/ RemoveAll

Next ==
    /\ Operation \/ \E r \in Receivers : ReceiverStep(r)
    /\ UNCHANGED prioritised

(* A woken thread gets the mutex eventually. *)
Fairness == \A r \in Receivers : WF_vars(ReceiverStep(r) /\ UNCHANGED prioritised)

Spec     == Init /\ [][Next]_vars
FairSpec == Spec /\ Fairness

-----------------------------------------------------------------------------
(* Every variable of the channel has its type. *)
TypeOK ==
    /\ prioritised \in BOOLEAN
    /\ channels \in [Priorities -> Seq(Messages)]
    /\ enqueued \in Nat
    /\ running \in BOOLEAN
    /\ closed \in BOOLEAN
    /\ rpc \in [Receivers -> {"idle", "blocked", "woken"}]
    /\ last \in [Receivers -> {"none", "null"} \cup Messages]

(***************************************************************************)
(* enqueue wakes one receiver and start wakes all, and that is enough:     *)
(* while a receiver sleeps in a running channel, for every message in it   *)
(* another receiver is already on its way.                                 *)
(***************************************************************************)
NoSignalLost ==
    running /\ (\E r \in Receivers : rpc[r] = "blocked") =>
        QueuedCount <= Cardinality({r \in Receivers : rpc[r] = "woken"})

(* close releases every thread that is blocked in dequeue, and nobody blocks again. *)
CloseReleasesReceivers == closed ~> [](\A r \in Receivers : rpc[r] = "idle")
=============================================================================
