------------------------ MODULE ConsumerKernelProofs ------------------------
(***************************************************************************)
(* Proofs about ConsumerKernel, for any number of messages, redeliveries,  *)
(* interruptions and failed requests.                                      *)
(*                                                                         *)
(* IInv is inductive.  On the first connection, and outside transactions   *)
(* afterwards as long as no message of an old connection was consumed on a *)
(* new one (mixed), the delivered list, the message in hand and the        *)
(* channel follow one another in the order of dispatch: OrderKept.  The    *)
(* rest of IInv says which of the three can still hold messages of an      *)
(* interrupted connection.  StoppedWillStart needs only Shape.             *)
(*                                                                         *)
(* SettleInv adds, for the two modes that acknowledge by themselves, how   *)
(* every message the application has had comes to its end: in auto mode    *)
(* at once, in batch mode by the range of the pending ack or of the ack    *)
(* that close hands to the executor.  CloseSettlesReceived follows.        *)
(*                                                                         *)
(* AllInv adds where a message can be that the present connection's broker *)
(* has sent and not seen ended, by acknowledgement mode: RetainedInv for   *)
(* auto, client and individual, BatchRangeInv for batch, TxInv for         *)
(* transactions.  All three rest on ConnInv: as soon as a message of a new *)
(* connection has been dispatched, the lists of the old one are cleared.   *)
(* NothingForgotten, CommitCoversReceived and ConsumedWereReceived follow. *)
(***************************************************************************)
EXTENDS ConsumerKernel, TLAPS, FiniteSetTheorems, SequenceTheorems

(***************************************************************************)
(* The inductive invariant.                                                *)
(*                                                                         *)
(* Shape: the fields of the threads' records, and where the application    *)
(* thread may be: the end of a transaction only in transacted mode and in  *)
(* commit or rollback, inside receive or close never once closed is set.    *)
(***************************************************************************)
Pcs == {"idle", "pull", "wait", "before", "after", "later", "write", "ack",
        "ackClear", "end", "syncs", "commit", "rollback", "settle"}

Ops == {"none", "receive", "acknowledge", "commit", "rollback", "recover", "close"}

Receiving == {"pull", "wait", "before", "after", "later", "write"}

AppShape(a) ==
    /\ a = [pc |-> a.pc, op |-> a.op, msg |-> a.msg, expired |-> a.expired,
            old |-> a.old, todo |-> a.todo]
    /\ a.pc \in Pcs /\ a.op \in Ops

DispShape(d) ==
    /\ d = [pc |-> d.pc, msg |-> d.msg, count |-> d.count]
    /\ d.pc \in {"idle", "progress", "list", "put"}

Shape ==
    /\ mixed \in BOOLEAN /\ doubled \in BOOLEAN /\ clearList \in BOOLEAN
    /\ running \in BOOLEAN /\ closed \in BOOLEAN /\ starting \in BOOLEAN
    /\ AppShape(app) /\ DispShape(disp)
    /\ app.pc \in {"end", "syncs", "commit", "ackClear"} => Transacted
    /\ Transacted /\ app.pc \in {"ack", "ackClear", "end", "syncs", "commit", "rollback"} =>
          app.op \in {"commit", "rollback"}
    /\ app.pc = "settle" /\ app.op # "close" =>
          Transacted /\ app.op \in {"commit", "rollback"}
    /\ closed => app.pc \notin Receiving
    /\ closed /\ app.pc = "settle" => Transacted

Counts ==
    /\ interruptions \in Nat /\ failures \in Nat /\ clearRequired \in Nat
    /\ sent \subseteq Messages

(***************************************************************************)
(* The part of the behaviour for which the order is promised, and what is  *)
(* so in it: no transaction has messages of an earlier connection.         *)
(***************************************************************************)
Ordered == interruptions = 0 \/ (~mixed /\ ~Transacted)

FirstConnection ==
    interruptions = 0 => ~mixed /\ clearRequired = 0 /\ ~clearList

(***************************************************************************)
(* Line: delivered (latest first), the message in hand and unconsumed are  *)
(* in order.  Present: what is not waiting to be cleared came over the     *)
(* present connection, before the message that is being dispatched.        *)
(* Cleared: where messages of the old connection can still be.             *)
(***************************************************************************)
Falling(d) == \A i, j \in 1..Len(d) : i < j => d[j] < d[i]

Rising(u) == \A i, j \in 1..Len(u) : i < j => u[i] < u[j]

Line ==
    /\ previously = <<>>
    /\ delivered \in Seq(Messages) /\ unconsumed \in Seq(Messages)
    /\ Falling(delivered) /\ Rising(unconsumed)
    /\ \A i \in 1..Len(delivered), j \in 1..Len(unconsumed) : delivered[i] < unconsumed[j]
    /\ app.pc = "before" =>
          /\ \A i \in 1..Len(delivered) : delivered[i] < app.msg
          /\ \A j \in 1..Len(unconsumed) : app.msg < unconsumed[j]

InPresent(m) == m \in sent /\ (disp.pc # "idle" => m < disp.msg)

Present ==
    /\ disp.pc # "idle" => disp.msg \in sent
    /\ clearRequired = 0 \/ disp.pc \in {"list", "put"} =>
          \A j \in 1..Len(unconsumed) : InPresent(unconsumed[j])
    /\ ~clearList => \A i \in 1..Len(delivered) : InPresent(delivered[i])
    /\ app.pc = "before" => InPresent(app.msg)

Cleared ==
    /\ clearList /\ clearRequired = 0 => unconsumed = <<>>
    /\ delivered # <<>> /\ ~clearList => clearRequired = 0
    /\ app.pc = "before" => ~clearList /\ clearRequired = 0
    /\ app.pc = "rollback" \/ disp.pc = "put" => ~clearList

OrderInv == Ordered => Line /\ Present /\ Cleared


-----------------------------------------------------------------------------
(* The application thread's record as the actions change it. *)
LEMMA IdleShape == AppShape(IdleApp) /\ IdleApp.pc = "idle"
  BY DEF AppShape, IdleApp, Pcs, Ops

(* Every step keeps the shape of the state. *)
LEMMA ShapeInit == Init => Shape /\ StoppedWillStart
<1> SUFFICES ASSUME Init PROVE Shape /\ StoppedWillStart
  OBVIOUS
<1>1. AppShape(app) /\ app.pc = "idle"
  BY IdleShape DEF Init
<1>2. DispShape(disp)
  BY DEF Init, DispShape, IdleDisp
<1>3. mixed \in BOOLEAN /\ doubled \in BOOLEAN /\ clearList \in BOOLEAN /\ running \in BOOLEAN
      /\ closed \in BOOLEAN /\ starting \in BOOLEAN
  BY DEF Init
<1> QED
  BY <1>1, <1>2, <1>3 DEF Init, Shape, StoppedWillStart, Receiving

(* Every action, and every step that changes nothing, keeps the shape. *)
LEMMA ShapeNext == Shape /\ StoppedWillStart /\ [Next]_vars => Shape' /\ StoppedWillStart'
<1> SUFFICES ASSUME Shape, StoppedWillStart, [Next]_vars PROVE Shape' /\ StoppedWillStart'
  OBVIOUS
<1> USE DEF Shape, StoppedWillStart, AppShape, DispShape, Pcs, Ops, Receiving, Transacted,
        IdleApp, IdleDisp, channelVars, ackVars, txVars, taskVars, brokerVars, appVars, boundVars, auditVars
<1>1. CASE Receive
  BY <1>1 DEF Receive, Call, IdleApp, clearDeliveredList
<1>2. CASE ClearList
  BY <1>2 DEF ClearList, Goto, clearDeliveredList
<1>3. CASE ReceiveNothing
  BY <1>3 DEF ReceiveNothing
<1>4. ASSUME NEW expired \in BOOLEAN, Dequeue(expired)
      PROVE  Shape' /\ StoppedWillStart'
  BY <1>4 DEF Dequeue
<1>5. CASE DequeueExceeded
  BY <1>5 DEF DequeueExceeded, LookAgain
<1>6. CASE beforeMessageIsConsumed
  BY <1>6 DEF beforeMessageIsConsumed, Goto
<1>7. CASE ackLater
  BY <1>7 DEF ackLater
<1>8. CASE ackLaterWrites
  BY <1>8 DEF ackLaterWrites
<1>9. CASE ConsumedExpired
  BY <1>9 DEF ConsumedExpired, LookAgain
<1>10. CASE ConsumedAuto
  BY <1>10 DEF ConsumedAuto
<1>11. CASE ConsumedLater
  BY <1>11 DEF ConsumedLater
<1>12. CASE Acknowledge
  BY <1>12 DEF Acknowledge, Call, clearDeliveredList
<1>13. CASE AcknowledgeNothing
  BY <1>13, ZenonT(60) DEF AcknowledgeNothing, Acknowledged
<1>14. CASE AcknowledgeAll
  BY <1>14, ZenonT(60) DEF AcknowledgeAll, Acknowledged
<1>15. CASE AcknowledgeThrows
  BY <1>15, ZenonT(60) DEF AcknowledgeThrows
<1>16. ASSUME NEW m \in Messages, AcknowledgeOne(m)
      PROVE  Shape' /\ StoppedWillStart'
  BY <1>16 DEF AcknowledgeOne
<1>17. ASSUME NEW op \in {"commit", "rollback"}, EndTransaction(op)
      PROVE  Shape' /\ StoppedWillStart'
  BY <1>17, ZenonT(60) DEF EndTransaction, Call, clearDeliveredList
<1>18. CASE EndNothing
  BY <1>18 DEF EndNothing
<1>19. CASE CommitRequest
  BY <1>19 DEF CommitRequest
<1>20. CASE CommitRequestFails
  BY <1>20 DEF CommitRequestFails
<1>21. CASE RollbackRequest
  BY <1>21 DEF RollbackRequest
<1>22. CASE RollbackRequestFails
  BY <1>22 DEF RollbackRequestFails
<1>23. ASSUME NEW sync \in {"tx", "close"}, RunSync(sync)
      PROVE  Shape' /\ StoppedWillStart'
  BY <1>23, ZenonT(60) DEF RunSync, clearDeliveredList
<1>24. CASE SyncsDone
  BY <1>24 DEF SyncsDone
<1>25. CASE commit
  BY <1>25 DEF commit, Goto
<1>26. CASE Recover
  BY <1>26 DEF Recover, Call, clearDeliveredList
<1>27. CASE rollbackNothing
  BY <1>27 DEF rollbackNothing, RolledBack, Goto
<1>28. CASE rollbackPoison
  BY <1>28 DEF rollbackPoison, RolledBack, Goto
<1>29. ASSUME NEW delayed \in BOOLEAN, rollback(delayed)
      PROVE  Shape' /\ StoppedWillStart'
  BY <1>29 DEF rollback, RolledBack, Goto
<1>30. CASE CloseDeferred
  BY <1>30 DEF CloseDeferred
<1>31. CASE Close
  BY <1>31 DEF Close, Call
<1>32. CASE dispose
  BY <1>32, ZenonT(60) DEF dispose, ExecutorTerminated
<1>33. ASSUME NEW m \in Messages, NEW count \in BrokerCounts, OnDispatch(m, count)
      PROVE  Shape' /\ StoppedWillStart'
  BY <1>33 DEF OnDispatch
<1>34. CASE DispatchClearsProgress
  BY <1>34 DEF DispatchClearsProgress
<1>35. CASE DispatchClearsList
  BY <1>35, ZenonT(60) DEF DispatchClearsList, clearDeliveredList
<1>36. CASE DispatchClosed
  BY <1>36 DEF DispatchClosed
<1>37. CASE DispatchFresh
  BY <1>37 DEF DispatchFresh
<1>38. CASE DispatchReplay
  BY <1>38 DEF DispatchReplay
<1>39. CASE DispatchDuplicate
  BY <1>39 DEF DispatchDuplicate
<1>40. CASE transportInterrupted
  BY <1>40 DEF transportInterrupted
<1>41. CASE StartConsumer
  <2>1. /\ running' = (running \/ ~closed) /\ starting' = FALSE
        /\ UNCHANGED <<mixed, doubled, clearList, closed, app, disp, mode>>
    BY <1>41 DEF StartConsumer
  <2>2. running' \in BOOLEAN
    BY <2>1
  <2>3. ~closed => running'
    BY <2>1
  <2>4. starting' \in BOOLEAN
    BY <2>1
  <2> QED BY <2>1, <2>2, <2>3, <2>4
<1>42. CASE ClearConsumer
  BY <1>42 DEF ClearConsumer
<1>43. CASE AckTaskRuns
  BY <1>43 DEF AckTaskRuns
<1>44. CASE UNCHANGED vars
  BY <1>44 DEF vars
<1> QED
  BY <1>1, <1>2, <1>3, <1>4, <1>5, <1>6, <1>7, <1>8, <1>9, <1>10, <1>11, <1>12, <1>13, <1>14,
     <1>15, <1>16, <1>17, <1>18, <1>19, <1>20, <1>21, <1>22, <1>23, <1>24, <1>25, <1>26, <1>27,
     <1>28, <1>29, <1>30, <1>31, <1>32, <1>33, <1>34, <1>35, <1>36, <1>37, <1>38, <1>39, <1>40,
     <1>41, <1>42, <1>43, <1>44
  DEF Next, Application, Transport, Tasks

-----------------------------------------------------------------------------
(* A consumer without previously delivered messages rolls all of them back. *)
LEMMA SetToSeqNothing == SetToSeq({}) = <<>>
<1>1. Cardinality({}) = 0
  BY FS_EmptySet
<1>2. \A f \in [1..0 -> {}] : f = <<>> /\ IsInjective(f)
  BY DEF IsInjective
<1>3. <<>> \in [1..0 -> {}]
  OBVIOUS
<1> QED BY <1>1, <1>2, <1>3 DEF SetToSeq

(* Folding over nothing leaves the first argument. *)
LEMMA FoldNothing ==
    ASSUME NEW q, NEW s, DOMAIN s = {}
    PROVE  FoldLeft(RemoveFirst, q, s) = q
<1> DEFINE D(x, y) == RemoveFirst(y, x)
<1> DEFINE Eq(it) == it = [t \in SUBSET (DOMAIN s) |->
        IF t = {} THEN q ELSE LET x == Max(t) IN D(s[x], it[t \ {x}])]
<1> DEFINE iter == CHOOSE it : it = [t \in SUBSET (DOMAIN s) |->
        IF t = {} THEN q ELSE LET x == Max(t) IN D(s[x], it[t \ {x}])]
<1> DEFINE w == [t \in SUBSET (DOMAIN s) |-> q]
<1>1. FoldLeft(RemoveFirst, q, s) = iter[DOMAIN s]
  BY DEF FoldLeft, MapThenFoldSet
<1>2. \A t \in SUBSET (DOMAIN s) : t = {}
  OBVIOUS
<1>3. Eq(w)
  BY <1>2
<1>4. Eq(iter)
  <2>1. \E it : Eq(it)
    BY <1>3
  <2> HIDE DEF Eq
  <2>2. Eq(CHOOSE it : Eq(it))
    BY <2>1
  <2> QED BY <2>2 DEF Eq
<1>5. {} \in SUBSET (DOMAIN s)
  OBVIOUS
<1>6. iter[{}] = q
  <2> HIDE DEF iter
  <2> QED BY <1>4, <1>5
<1> QED BY <1>1, <1>6

(* Returned on an empty list: a fold over nothing, so all of delivered comes back. *)
LEMMA ReturnedAll == previously = <<>> => Returned = delivered
<1> SUFFICES ASSUME previously = <<>> PROVE Returned = delivered
  OBVIOUS
<1>1. DOMAIN previously = {}
  OBVIOUS
<1>2. NotReplayed = {}
  BY <1>1 DEF NotReplayed
<1>3. DOMAIN SetToSeq(NotReplayed) = {}
  BY <1>2, SetToSeqNothing
<1> QED BY <1>3, FoldNothing DEF Returned

-----------------------------------------------------------------------------
(* Subsequences of the consumer's lists: what a step leaves of them. *)
LeftOf(r, q) ==
    /\ r \in Seq(Messages)
    /\ \A i \in 1..Len(r) : \E k \in 1..Len(q) : r[i] = q[k]

(* An empty list has nothing left of it. *)
LEMMA NothingLeft == ASSUME NEW q PROVE LeftOf(<<>>, q) /\ Falling(<<>>) /\ Rising(<<>>)
  BY DEF LeftOf, Falling, Rising

(* A list that lost nothing is all there. *)
LEMMA AllLeft == ASSUME NEW q \in Seq(Messages) PROVE LeftOf(q, q)
  BY DEF LeftOf

(* A rising list without its first message rises still. *)
LEMMA TailLeft ==
    ASSUME NEW q \in Seq(Messages), q # <<>>, Rising(q)
    PROVE  /\ LeftOf(Tail(q), q) /\ Rising(Tail(q))
           /\ Head(q) = q[1] /\ 1 \in 1..Len(q)
           /\ \A j \in 1..Len(Tail(q)) : Head(q) < Tail(q)[j]
<1>1. Len(q) \in Nat \ {0} /\ Head(q) = q[1]
  OBVIOUS
<1>2. Tail(q) \in Seq(Messages) /\ Len(Tail(q)) = Len(q) - 1
  OBVIOUS
<1>3. \A j \in 1..Len(Tail(q)) : Tail(q)[j] = q[j + 1]
  OBVIOUS
<1>4. \A j \in 1..Len(Tail(q)) : j + 1 \in 1..Len(q)
  BY <1>1, <1>2
<1>5. \A i \in 1..Len(q) : q[i] \in Int
  BY ConstantsAssumption DEF Messages, ConstantsAssumption
<1> HIDE DEF Messages
<1>6. LeftOf(Tail(q), q)
  BY <1>2, <1>3, <1>4 DEF LeftOf
<1>7. Rising(Tail(q))
  <2> SUFFICES ASSUME NEW i \in 1..Len(Tail(q)), NEW j \in 1..Len(Tail(q)), i < j
               PROVE  Tail(q)[i] < Tail(q)[j]
    BY DEF Rising
  <2>1. i + 1 < j + 1
    BY <1>1, <1>2
  <2> QED BY <1>3, <1>4, <2>1 DEF Rising
<1>8. \A j \in 1..Len(Tail(q)) : Head(q) < Tail(q)[j]
  <2> SUFFICES ASSUME NEW j \in 1..Len(Tail(q)) PROVE Head(q) < Tail(q)[j]
    OBVIOUS
  <2>1. 1 < j + 1 /\ 1 \in 1..Len(q)
    BY <1>1, <1>2
  <2> QED BY <1>1, <1>3, <1>4, <2>1 DEF Rising
<1> QED BY <1>1, <1>6, <1>7, <1>8

(* RemoveFirst of a list without repetition. *)
LEMMA RemoveFirstLeft ==
    ASSUME NEW q \in Seq(Messages), Falling(q), NEW e
    PROVE  LeftOf(RemoveFirst(q, e), q) /\ Falling(RemoveFirst(q, e))
<1>0. \A i \in 1..Len(q) : q[i] \in Int
  BY ConstantsAssumption DEF Messages, ConstantsAssumption
<1>1. CASE ~\E i \in 1..Len(q) : q[i] = e
  <2>1. RemoveFirst(q, e) = q
    BY <1>1 DEF RemoveFirst
  <2> QED BY <2>1, AllLeft
<1>2. CASE \E i \in 1..Len(q) : q[i] = e
  <2> PICK k \in 1..Len(q) : q[k] = e
    BY <1>2
  <2> DEFINE I == {i \in 1..Len(q) : q[i] = e}
  <2>1. I = {k}
    <3> SUFFICES ASSUME NEW i \in 1..Len(q), q[i] = q[k] PROVE i = k
      OBVIOUS
    <3> QED BY <1>0 DEF Falling
  <2>2. Min(I) = k
    BY <2>1 DEF Min
  <2>3. SelectInSeq(q, LAMBDA v : v = e) = k
    BY <2>1, <2>2 DEF SelectInSeq
  <2> DEFINE r == RemoveAt(q, k)
  <2>4. RemoveFirst(q, e) = r
    BY <1>2, <2>3 DEF RemoveFirst
  <2> DEFINE At(i) == IF i < k THEN i ELSE i + 1
  <2>5. Len(q) \in Nat /\ k \in 1..Len(q)
    OBVIOUS
  <2>6. /\ SubSeq(q, 1, k - 1) \in Seq(Messages) /\ Len(SubSeq(q, 1, k - 1)) = k - 1
        /\ \A i \in 1..(k - 1) : SubSeq(q, 1, k - 1)[i] = q[i]
    BY <2>5
  <2>7. /\ SubSeq(q, k + 1, Len(q)) \in Seq(Messages)
        /\ Len(SubSeq(q, k + 1, Len(q))) = Len(q) - k
        /\ \A i \in 1..(Len(q) - k) : SubSeq(q, k + 1, Len(q))[i] = q[k + i]
    BY <2>5
  <2> DEFINE a == SubSeq(q, 1, k - 1)
             b == SubSeq(q, k + 1, Len(q))
  <2>12. r = a \o b
    BY DEF RemoveAt
  <2> HIDE DEF a, b, r
  <2>13. /\ a \o b \in Seq(Messages) /\ Len(a \o b) = Len(a) + Len(b)
         /\ \A i \in 1..(Len(a) + Len(b)) :
               (a \o b)[i] = IF i <= Len(a) THEN a[i] ELSE b[i - Len(a)]
    <3>1. a \in Seq(Messages) /\ b \in Seq(Messages)
      BY <2>6, <2>7 DEF a, b
    <3> QED BY <3>1, ConcatProperties
  <2>14. Len(a) = k - 1 /\ Len(b) = Len(q) - k
    BY <2>6, <2>7 DEF a, b
  <2>8. r \in Seq(Messages) /\ Len(r) = Len(q) - 1
    BY <2>5, <2>12, <2>13, <2>14
  <2>9. \A i \in 1..Len(r) : r[i] = q[At(i)] /\ At(i) \in 1..Len(q)
    <3> SUFFICES ASSUME NEW i \in 1..Len(r) PROVE r[i] = q[At(i)] /\ At(i) \in 1..Len(q)
      OBVIOUS
    <3>1. CASE i < k
      <4>1. i \in 1..(k - 1) /\ i <= Len(a)
        BY <2>5, <2>8, <2>14, <3>1
      <4>2. r[i] = a[i]
        BY <2>5, <2>8, <2>12, <2>13, <2>14, <4>1
      <4>3. a[i] = q[i]
        BY <2>6, <4>1 DEF a
      <4> QED BY <2>5, <2>8, <3>1, <4>1, <4>2, <4>3
    <3>2. CASE ~(i < k)
      <4>1. i - (k - 1) \in 1..(Len(q) - k) /\ k + (i - (k - 1)) = i + 1
        BY <2>5, <2>8, <3>2
      <4>2. r[i] = b[i - (k - 1)]
        BY <2>5, <2>8, <2>12, <2>13, <2>14, <3>2
      <4>3. b[i - (k - 1)] = q[k + (i - (k - 1))]
        BY <2>7, <4>1 DEF b
      <4> QED BY <2>5, <2>8, <3>2, <4>1, <4>2, <4>3
    <3> QED BY <3>1, <3>2
  <2>10. LeftOf(r, q)
    BY <2>8, <2>9 DEF LeftOf
  <2>11. Falling(r)
    <3> SUFFICES ASSUME NEW i \in 1..Len(r), NEW j \in 1..Len(r), i < j PROVE r[j] < r[i]
      BY DEF Falling
    <3>1. At(i) < At(j)
      BY <2>5, <2>8
    <3> QED BY <2>9, <3>1 DEF Falling
  <2> QED BY <2>4, <2>10, <2>11
<1> QED BY <1>1, <1>2

(* A later message put before the delivered ones, or after the unconsumed ones. *)
LEMMA PrependFalling ==
    ASSUME NEW q \in Seq(Messages), Falling(q), NEW e \in Messages,
           \A i \in 1..Len(q) : q[i] < e
    PROVE  LET r == <<e>> \o q IN
           /\ r \in Seq(Messages) /\ Falling(r)
           /\ \A i \in 1..Len(r) : r[i] = e \/ \E k \in 1..Len(q) : r[i] = q[k]
<1> DEFINE r == <<e>> \o q
<1>1. r \in Seq(Messages) /\ Len(r) = Len(q) + 1 /\ Len(q) \in Nat
  OBVIOUS
<1>2. r[1] = e /\ \A i \in 1..Len(r) : i # 1 => r[i] = q[i - 1] /\ i - 1 \in 1..Len(q)
  OBVIOUS
<1> HIDE DEF r
<1>3. ASSUME NEW i \in 1..Len(r), NEW j \in 1..Len(r), i < j PROVE r[j] < r[i]
  <2>1. j # 1 /\ r[j] = q[j - 1] /\ j - 1 \in 1..Len(q)
    BY <1>1, <1>2, <1>3
  <2>2. CASE i = 1
    BY <1>2, <2>1, <2>2
  <2>3. CASE i # 1
    <3>1. r[i] = q[i - 1] /\ i - 1 \in 1..Len(q) /\ i - 1 < j - 1
      BY <1>1, <1>2, <1>3, <2>3
    <3> QED BY <2>1, <3>1 DEF Falling
  <2> QED BY <2>2, <2>3
<1>4. \A i \in 1..Len(r) : r[i] = e \/ \E k \in 1..Len(q) : r[i] = q[k]
  BY <1>2
<1>5. Falling(r)
  BY <1>3 DEF Falling
<1> QED BY <1>1, <1>4, <1>5 DEF r

(* A message later than all of them keeps a list rising. *)
LEMMA AppendRising ==
    ASSUME NEW q \in Seq(Messages), Rising(q), NEW e \in Messages,
           \A i \in 1..Len(q) : q[i] < e
    PROVE  LET r == Append(q, e) IN
           /\ r \in Seq(Messages) /\ Rising(r)
           /\ \A i \in 1..Len(r) : r[i] = e \/ \E k \in 1..Len(q) : r[i] = q[k]
<1> DEFINE r == Append(q, e)
<1>1. r \in Seq(Messages) /\ Len(r) = Len(q) + 1 /\ Len(q) \in Nat
  OBVIOUS
<1>2. r[Len(r)] = e /\ \A i \in 1..Len(r) : i # Len(r) => r[i] = q[i] /\ i \in 1..Len(q)
  OBVIOUS
<1> HIDE DEF r
<1>3. ASSUME NEW i \in 1..Len(r), NEW j \in 1..Len(r), i < j PROVE r[i] < r[j]
  <2>1. i # Len(r) /\ r[i] = q[i] /\ i \in 1..Len(q)
    BY <1>1, <1>2, <1>3
  <2>2. CASE j = Len(r)
    BY <1>2, <2>1, <2>2
  <2>3. CASE j # Len(r)
    <3>1. r[j] = q[j] /\ j \in 1..Len(q)
      BY <1>1, <1>2, <2>3
    <3> QED BY <1>3, <2>1, <3>1 DEF Rising
  <2> QED BY <2>2, <2>3
<1>4. \A i \in 1..Len(r) : r[i] = e \/ \E k \in 1..Len(q) : r[i] = q[k]
  BY <1>2
<1>5. Rising(r)
  BY <1>3 DEF Rising
<1> QED BY <1>1, <1>4, <1>5 DEF r

(* What two lists one after the other hold, and in which order. *)
LEMMA ConcatRising ==
    ASSUME NEW a \in Seq(Messages), NEW b \in Seq(Messages), Rising(a), Rising(b),
           \A i \in 1..Len(a), j \in 1..Len(b) : a[i] < b[j]
    PROVE  LET r == a \o b IN
           /\ r \in Seq(Messages) /\ Rising(r)
           /\ \A i \in 1..Len(r) : \/ \E k \in 1..Len(a) : r[i] = a[k]
                                   \/ \E k \in 1..Len(b) : r[i] = b[k]
<1> DEFINE r == a \o b
<1>1. /\ r \in Seq(Messages) /\ Len(r) = Len(a) + Len(b) /\ Len(a) \in Nat /\ Len(b) \in Nat
      /\ \A i \in 1..(Len(a) + Len(b)) : r[i] = IF i <= Len(a) THEN a[i] ELSE b[i - Len(a)]
  BY ConcatProperties
<1> HIDE DEF r
<1>2. \A i \in 1..Len(r) : i <= Len(a) => r[i] = a[i] /\ i \in 1..Len(a)
  BY <1>1
<1>3. \A i \in 1..Len(r) : ~(i <= Len(a)) => r[i] = b[i - Len(a)] /\ i - Len(a) \in 1..Len(b)
  BY <1>1
<1>4. ASSUME NEW i \in 1..Len(r), NEW j \in 1..Len(r), i < j PROVE r[i] < r[j]
  <2>1. CASE j <= Len(a)
    <3>1. i <= Len(a)
      BY <1>1, <1>4, <2>1
    <3> QED BY <1>2, <1>4, <2>1, <3>1 DEF Rising
  <2>2. CASE i <= Len(a) /\ ~(j <= Len(a))
    BY <1>2, <1>3, <2>2
  <2>3. CASE ~(i <= Len(a))
    <3>1. ~(j <= Len(a)) /\ i - Len(a) < j - Len(a)
      BY <1>1, <1>4, <2>3
    <3> QED BY <1>3, <2>3, <3>1 DEF Rising
  <2> QED BY <2>1, <2>2, <2>3
<1>5. \A i \in 1..Len(r) : \/ \E k \in 1..Len(a) : r[i] = a[k]
                           \/ \E k \in 1..Len(b) : r[i] = b[k]
  BY <1>2, <1>3
<1>6. Rising(r)
  BY <1>4 DEF Rising
<1> QED BY <1>1, <1>5, <1>6 DEF r

(* The delivered messages, put back earliest first, rise. *)
LEMMA ReverseRising ==
    ASSUME NEW d \in Seq(Messages), Falling(d)
    PROVE  /\ Reverse(d) \in Seq(Messages) /\ Rising(Reverse(d))
           /\ \A i \in 1..Len(Reverse(d)) : \E k \in 1..Len(d) : Reverse(d)[i] = d[k]
           /\ d # <<>> => Reverse(d) # <<>>
<1> DEFINE r == Reverse(d)
<1>1. Len(d) \in Nat /\ \A i \in 1..Len(d) : Len(d) - i + 1 \in 1..Len(d)
  OBVIOUS
<1>2. r \in Seq(Messages) /\ Len(r) = Len(d) /\ \A i \in 1..Len(d) : r[i] = d[Len(d) - i + 1]
  BY <1>1 DEF Reverse
<1> HIDE DEF r
<1>3. ASSUME NEW i \in 1..Len(r), NEW j \in 1..Len(r), i < j PROVE r[i] < r[j]
  <2>1. Len(d) - j + 1 < Len(d) - i + 1
    BY <1>1, <1>2, <1>3
  <2> QED BY <1>1, <1>2, <2>1 DEF Falling
<1>4. \A i \in 1..Len(r) : \E k \in 1..Len(d) : r[i] = d[k]
  BY <1>1, <1>2
<1>5. Rising(r)
  BY <1>3 DEF Rising
<1>6. d # <<>> => r # <<>>
  BY <1>2
<1> QED BY <1>2, <1>4, <1>5, <1>6 DEF r

-----------------------------------------------------------------------------
(* The steps that keep the order. *)
Kept == Line /\ Present /\ Cleared

(* A step that only takes messages out of the lists, or ends a dispatch. *)
LEMMA LeaveOrder ==
    ASSUME Kept, UNCHANGED <<clearRequired, clearList, sent>>, previously' = <<>>,
           LeftOf(delivered', delivered), Falling(delivered'),
           LeftOf(unconsumed', unconsumed), Rising(unconsumed'),
           app'.pc \in {"before", "rollback"} => app' = app,
           disp' = disp \/ disp'.pc = "idle"
    PROVE  Kept'
<1>1. /\ \A i \in 1..Len(delivered') : \E k \in 1..Len(delivered) : delivered'[i] = delivered[k]
      /\ \A j \in 1..Len(unconsumed') : \E k \in 1..Len(unconsumed) : unconsumed'[j] = unconsumed[k]
      /\ delivered' \in Seq(Messages) /\ unconsumed' \in Seq(Messages)
  BY DEF LeftOf
<1>2. Line'
  BY <1>1 DEF Kept, Line
<1>3. /\ delivered = <<>> => delivered' = <<>>
      /\ unconsumed = <<>> => unconsumed' = <<>>
  BY <1>1
<1>4. Present'
  BY <1>1 DEF Kept, Present, InPresent
<1>5. Cleared'
  BY <1>3 DEF Kept, Cleared
<1> QED BY <1>2, <1>4, <1>5 DEF Kept

(* clearDeliveredList, where the transaction has no messages of an earlier connection. *)
LEMMA ClearedList ==
    ASSUME Kept, Ordered, FirstConnection, clearDeliveredList
    PROVE  /\ ~clearList' /\ previously' = <<>>
           /\ delivered' = IF clearList THEN <<>> ELSE delivered
<1>1. clearList => ~Transacted
  BY DEF Ordered, FirstConnection
<1> QED BY <1>1 DEF clearDeliveredList, Kept, Line

(* clearDeliveredList empties the list or leaves it, and the rest as it was. *)
LEMMA ClearOrder ==
    ASSUME Kept, Ordered, FirstConnection, clearDeliveredList, clearList \in BOOLEAN,
           UNCHANGED <<clearRequired, sent, unconsumed>>,
           app'.pc = "before" => app' = app,
           disp' = disp \/ (disp.pc = "list" /\ disp'.pc = "put" /\ disp'.msg = disp.msg)
    PROVE  Kept'
<1>1. /\ ~clearList' /\ previously' = <<>>
      /\ delivered' = IF clearList THEN <<>> ELSE delivered
  BY ClearedList
<1>2. CASE clearList
  <2>1. delivered' = <<>> /\ Falling(delivered') /\ Len(delivered') = 0
    BY <1>1, <1>2, NothingLeft
  <2>2. Line'
    BY <1>1, <2>1 DEF Kept, Line
  <2>3. Present'
    BY <1>1, <2>1 DEF Kept, Present, InPresent
  <2>4. Cleared'
    BY <1>1, <1>2, <2>1 DEF Kept, Cleared
  <2> QED BY <2>2, <2>3, <2>4 DEF Kept
<1>3. CASE ~clearList
  <2>1. delivered' = delivered
    BY <1>1, <1>3
  <2>2. Line'
    BY <1>1, <2>1 DEF Kept, Line
  <2>3. Present'
    BY <1>1, <1>3, <2>1 DEF Kept, Present, InPresent
  <2>4. Cleared'
    BY <1>1, <1>3, <2>1 DEF Kept, Cleared
  <2> QED BY <2>2, <2>3, <2>4 DEF Kept
<1> QED BY <1>2, <1>3

(* dequeue takes the first message in hand. *)
LEMMA DequeueOrder ==
    ASSUME Kept, Shape, Counts, NEW expired, Dequeue(expired), clearRequired = 0
    PROVE  Kept'
<1> USE DEF ackVars, auditVars, brokerVars
<1>0. unconsumed # <<>> /\ ~clearList
  BY DEF Dequeue, Kept, Cleared, Shape
<1> DEFINE h == Head(unconsumed)
<1>1. /\ LeftOf(unconsumed', unconsumed) /\ Rising(unconsumed')
      /\ h = unconsumed[1] /\ 1 \in 1..Len(unconsumed)
      /\ \A j \in 1..Len(unconsumed') : h < unconsumed'[j]
  <2>1. unconsumed' = Tail(unconsumed) /\ unconsumed \in Seq(Messages) /\ Rising(unconsumed)
    BY DEF Dequeue, Kept, Line
  <2> QED BY <1>0, <2>1, TailLeft
<1>2. app'.pc = "before" /\ app'.msg = h
  BY DEF Dequeue, Shape, AppShape
<1>3. UNCHANGED <<delivered, previously, clearList, clearRequired, sent, disp>>
  BY DEF Dequeue
<1>4. /\ \A j \in 1..Len(unconsumed') : \E k \in 1..Len(unconsumed) : unconsumed'[j] = unconsumed[k]
      /\ unconsumed' \in Seq(Messages)
  BY <1>1 DEF LeftOf
<1> HIDE DEF h
<1>5. Line'
  BY <1>1, <1>2, <1>3, <1>4 DEF Kept, Line
<1>6. InPresent(h)
  BY <1>1 DEF Kept, Present
<1>7. Present'
  BY <1>2, <1>3, <1>4, <1>6 DEF Kept, Present, InPresent
<1>8. Cleared'
  BY <1>0, <1>2, <1>3 DEF Kept, Cleared
<1> QED BY <1>5, <1>7, <1>8 DEF Kept

(* beforeMessageIsConsumed puts it before the delivered ones. *)
LEMMA BeforeOrder ==
    ASSUME Kept, Shape, Counts, beforeMessageIsConsumed
    PROVE  Kept'
<1> USE DEF channelVars, auditVars, brokerVars
<1>1. UNCHANGED <<unconsumed, previously, clearList, clearRequired, sent, disp>>
  BY DEF beforeMessageIsConsumed
<1>2. app'.pc \notin {"before", "rollback"} /\ app.pc = "before"
  BY DEF beforeMessageIsConsumed, Goto, Shape, AppShape
<1>3. app.msg \in Messages /\ InPresent(app.msg) /\ ~clearList /\ clearRequired = 0
  BY <1>2 DEF Kept, Present, Cleared, InPresent, Counts
<1>4. CASE delivered' = delivered
  <2>1. LeftOf(delivered', delivered) /\ LeftOf(unconsumed', unconsumed)
    BY <1>1, <1>4, AllLeft DEF Kept, Line
  <2> QED BY <1>1, <1>2, <1>4, <2>1, LeaveOrder DEF Kept, Line
<1>5. CASE delivered' = <<app.msg>> \o delivered
  <2>1. /\ delivered \in Seq(Messages) /\ Falling(delivered)
        /\ \A i \in 1..Len(delivered) : delivered[i] < app.msg
    BY <1>2 DEF Kept, Line
  <2>2. /\ delivered' \in Seq(Messages) /\ Falling(delivered')
        /\ \A i \in 1..Len(delivered') : delivered'[i] = app.msg
                                         \/ \E k \in 1..Len(delivered) : delivered'[i] = delivered[k]
    BY <1>3, <1>5, <2>1, PrependFalling
  <2>3. Line'
    BY <1>1, <1>2, <2>2 DEF Kept, Line
  <2>4. Present'
    BY <1>1, <1>2, <1>3, <2>2 DEF Kept, Present, InPresent
  <2>5. Cleared'
    BY <1>1, <1>2, <1>3 DEF Kept, Cleared
  <2> QED BY <2>3, <2>4, <2>5 DEF Kept
<1> QED BY <1>4, <1>5 DEF beforeMessageIsConsumed

(* rollback puts the delivered messages back before the unconsumed ones. *)
LEMMA RollbackOrder ==
    ASSUME Kept, Shape, Counts, NEW delayed, rollback(delayed)
    PROVE  Kept'
<1> USE DEF brokerVars, boundVars
<1>1. /\ UNCHANGED <<clearList, clearRequired, sent, disp>>
      /\ previously' = <<>> /\ delivered' = <<>>
      /\ unconsumed' = Reverse(Returned) \o unconsumed
      /\ Returned # <<>> /\ app.pc = "rollback"
  BY DEF rollback, RolledBack, PutBack
<1>2. Returned = delivered
  BY ReturnedAll DEF Kept, Line
<1>3. app'.pc \notin {"before", "rollback"}
  BY DEF rollback, RolledBack, Goto, IdleApp, Shape, AppShape
<1>4. ~clearList /\ clearRequired = 0
  BY <1>1, <1>2 DEF Kept, Cleared
<1> DEFINE r == Reverse(delivered)
<1>5. /\ r \in Seq(Messages) /\ Rising(r)
      /\ \A i \in 1..Len(r) : \E k \in 1..Len(delivered) : r[i] = delivered[k]
  BY ReverseRising DEF Kept, Line
<1>6. unconsumed' = r \o unconsumed
  BY <1>1, <1>2
<1> HIDE DEF r
<1>7. \A i \in 1..Len(r), j \in 1..Len(unconsumed) : r[i] < unconsumed[j]
  BY <1>5 DEF Kept, Line
<1>8. /\ unconsumed' \in Seq(Messages) /\ Rising(unconsumed')
      /\ \A i \in 1..Len(unconsumed') : \/ \E k \in 1..Len(r) : unconsumed'[i] = r[k]
                                        \/ \E k \in 1..Len(unconsumed) : unconsumed'[i] = unconsumed[k]
  BY <1>5, <1>6, <1>7, ConcatRising DEF Kept, Line
<1>9. Line'
  <2>1. Len(delivered') = 0 /\ Falling(delivered')
    BY <1>1, NothingLeft
  <2> QED BY <1>1, <1>3, <1>8, <2>1 DEF Line
<1>10. \A i \in 1..Len(unconsumed') : InPresent(unconsumed'[i])
  <2>1. \A k \in 1..Len(r) : InPresent(r[k])
    BY <1>4, <1>5 DEF Kept, Present
  <2>2. \A k \in 1..Len(unconsumed) : InPresent(unconsumed[k])
    BY <1>4 DEF Kept, Present
  <2> QED BY <1>8, <2>1, <2>2
<1>11. Present'
  <2>1. Len(delivered') = 0
    BY <1>1
  <2> QED BY <1>1, <1>3, <1>10, <2>1 DEF Kept, Present, InPresent
<1>12. Cleared'
  BY <1>1, <1>3, <1>4 DEF Kept, Cleared
<1> QED BY <1>9, <1>11, <1>12 DEF Kept

(* The broker's next message is later than all it has sent on this connection. *)
LEMMA OnDispatchOrder ==
    ASSUME Kept, Counts, NEW m \in Messages, NEW count, OnDispatch(m, count)
    PROVE  Kept'
<1> USE DEF channelVars, ackVars, appVars
<1>1. /\ UNCHANGED <<clearList, clearRequired, unconsumed, delivered, previously, app>>
      /\ disp.pc = "idle" /\ disp'.pc = "progress" /\ disp'.msg = m /\ sent' = sent \cup {m}
      /\ \A s \in sent : s < m
  BY DEF OnDispatch
<1>2. \A x : InPresent(x) => x \in sent' /\ x < disp'.msg
  BY <1>1 DEF InPresent
<1>3. Line'
  BY <1>1 DEF Kept, Line
<1>4. Present'
  <2>1. disp'.msg \in sent'
    BY <1>1
  <2>2. clearRequired = 0 => \A j \in 1..Len(unconsumed) : unconsumed[j] \in sent' /\ unconsumed[j] < disp'.msg
    BY <1>2 DEF Kept, Present
  <2>3. ~clearList => \A i \in 1..Len(delivered) : delivered[i] \in sent' /\ delivered[i] < disp'.msg
    BY <1>2 DEF Kept, Present
  <2>4. app.pc = "before" => app.msg \in sent' /\ app.msg < disp'.msg
    BY <1>2 DEF Kept, Present
  <2> QED BY <1>1, <2>1, <2>2, <2>3, <2>4 DEF Present, InPresent
<1>5. Cleared'
  BY <1>1 DEF Kept, Cleared
<1> QED BY <1>3, <1>4, <1>5 DEF Kept

(* clearMessagesInProgress, by the dispatching thread or by its task. *)
LEMMA ProgressOrder ==
    ASSUME Kept, Counts, clearMessagesInProgress,
           UNCHANGED <<clearList, delivered, previously, app, sent>>,
           disp' = disp \/ (disp.pc = "progress" /\ disp'.pc = "list" /\ disp'.msg = disp.msg)
    PROVE  Kept'
<1>1. CASE clearRequired > 0
  <2>1. unconsumed' = <<>> /\ Len(unconsumed') = 0 /\ Rising(unconsumed')
    BY <1>1, NothingLeft DEF clearMessagesInProgress
  <2>2. app.pc # "before" /\ (delivered = <<>> \/ clearList)
    BY <1>1 DEF Kept, Cleared, Counts
  <2>3. Line'
    BY <2>1 DEF Kept, Line
  <2>4. Present'
    BY <2>1 DEF Kept, Present, InPresent
  <2>5. Cleared'
    BY <2>1, <2>2 DEF Kept, Cleared
  <2> QED BY <2>3, <2>4, <2>5 DEF Kept
<1>2. CASE ~(clearRequired > 0)
  <2>1. clearRequired = 0 /\ UNCHANGED <<unconsumed, clearRequired>>
    BY <1>2 DEF clearMessagesInProgress, Counts
  <2>2. Line'
    BY <2>1 DEF Kept, Line
  <2>3. Present'
    BY <2>1 DEF Kept, Present, InPresent
  <2>4. Cleared'
    BY <2>1 DEF Kept, Cleared
  <2> QED BY <2>2, <2>3, <2>4 DEF Kept
<1> QED BY <1>1, <1>2

(* The message put at the end is the latest, and not there already. *)
LEMMA FreshOrder ==
    ASSUME Kept, Shape, Counts, DispatchFresh
    PROVE  Kept' /\ disp.msg \notin Held
<1> USE DEF ackVars, appVars, brokerVars
<1>1. /\ UNCHANGED <<clearList, clearRequired, delivered, previously, app, sent>>
      /\ disp.pc = "put" /\ disp'.pc = "idle"
      /\ unconsumed' = Append(unconsumed, disp.msg)
  BY DEF DispatchFresh, IdleDisp
<1>2. ~clearList /\ disp.msg \in sent /\ disp.msg \in Messages /\ disp.msg \in Int
  <2>1. ~clearList
    BY <1>1 DEF Kept, Cleared
  <2>2. disp.msg \in sent /\ disp.msg \in Messages
    BY <1>1 DEF Kept, Present, Counts
  <2>3. Messages \subseteq Int
    BY ConstantsAssumption DEF Messages, ConstantsAssumption
  <2> QED BY <2>1, <2>2, <2>3
<1>3. /\ \A j \in 1..Len(unconsumed) : unconsumed[j] \in sent /\ unconsumed[j] < disp.msg
      /\ \A i \in 1..Len(delivered) : delivered[i] \in sent /\ delivered[i] < disp.msg
      /\ app.pc = "before" => app.msg \in sent /\ app.msg < disp.msg
  BY <1>1, <1>2 DEF Kept, Present, InPresent
<1>4. /\ unconsumed' \in Seq(Messages) /\ Rising(unconsumed')
      /\ \A i \in 1..Len(unconsumed') : \/ unconsumed'[i] = disp.msg
                                        \/ \E k \in 1..Len(unconsumed) : unconsumed'[i] = unconsumed[k]
  BY <1>1, <1>2, <1>3, AppendRising DEF Kept, Line
<1>5. Line'
  BY <1>1, <1>3, <1>4 DEF Kept, Line
<1>6. Present'
  BY <1>1, <1>2, <1>3, <1>4 DEF Kept, Present, InPresent
<1>7. Cleared'
  BY <1>1, <1>2 DEF Kept, Cleared
<1>8. disp.msg \notin Held
  <2>1. DOMAIN unconsumed = 1..Len(unconsumed) /\ DOMAIN delivered = 1..Len(delivered)
    BY DEF Kept, Line
  <2>2. disp.msg \notin ToSet(unconsumed) /\ disp.msg \notin ToSet(delivered)
    BY <1>2, <1>3, <2>1 DEF ToSet
  <2>3. disp.msg \notin InHand
    BY <1>2, <1>3 DEF InHand
  <2> QED BY <2>2, <2>3 DEF Held
<1> QED BY <1>5, <1>6, <1>7, <1>8 DEF Kept

(* An interruption that finds no thread at work leaves the old messages to be cleared. *)
LEMMA InterruptedOrder ==
    ASSUME Kept, Shape, Counts, transportInterrupted, ~mixed'
    PROVE  Kept'
<1> USE DEF channelVars, appVars
<1>1. /\ UNCHANGED <<unconsumed, delivered, previously, app, disp>>
      /\ disp.pc = "idle" /\ app.pc \in {"idle", "wait"}
      /\ clearRequired' = clearRequired + 1 /\ clearList' = TRUE
  BY DEF transportInterrupted
<1>2. clearRequired' # 0
  BY <1>1 DEF Counts
<1>3. Line'
  BY <1>1 DEF Kept, Line
<1>4. Present'
  BY <1>1, <1>2 DEF Kept, Present
<1>5. Cleared'
  BY <1>1, <1>2 DEF Kept, Cleared
<1> QED BY <1>3, <1>4, <1>5 DEF Kept

-----------------------------------------------------------------------------
(* What no step takes back. *)
Onward ==
    /\ mode' = mode /\ (mixed => mixed') /\ (doubled => doubled')
    /\ interruptions' \in {interruptions, interruptions + 1}
    /\ failures' \in {failures, failures + 1}

(* The counters stay numbers, and a mode and an interruption are never undone. *)
LEMMA CountsNext ==
    ASSUME Shape, Counts, [Next]_vars
    PROVE  Counts' /\ Onward
<1> USE DEF Shape, Counts, Onward, channelVars, ackVars, txVars, taskVars, brokerVars,
        appVars, boundVars, auditVars
<1>1. CASE Receive
  BY <1>1 DEF Receive
<1>2. CASE ClearList
  BY <1>2 DEF ClearList
<1>3. CASE ReceiveNothing
  BY <1>3 DEF ReceiveNothing
<1>4. ASSUME NEW expired \in BOOLEAN, Dequeue(expired)
      PROVE  Counts' /\ Onward
  BY <1>4 DEF Dequeue
<1>5. CASE DequeueExceeded
  BY <1>5 DEF DequeueExceeded
<1>6. CASE beforeMessageIsConsumed
  BY <1>6 DEF beforeMessageIsConsumed
<1>7. CASE ackLater
  BY <1>7 DEF ackLater
<1>8. CASE ackLaterWrites
  BY <1>8 DEF ackLaterWrites
<1>9. CASE ConsumedExpired
  BY <1>9 DEF ConsumedExpired
<1>10. CASE ConsumedAuto
  BY <1>10 DEF ConsumedAuto
<1>11. CASE ConsumedLater
  BY <1>11 DEF ConsumedLater
<1>12. CASE Acknowledge
  BY <1>12 DEF Acknowledge
<1>13. CASE AcknowledgeNothing
  BY <1>13 DEF AcknowledgeNothing
<1>14. CASE AcknowledgeAll
  BY <1>14 DEF AcknowledgeAll
<1>15. CASE AcknowledgeThrows
  BY <1>15 DEF AcknowledgeThrows
<1>16. ASSUME NEW m \in Messages, AcknowledgeOne(m)
      PROVE  Counts' /\ Onward
  BY <1>16 DEF AcknowledgeOne
<1>17. ASSUME NEW op \in {"commit", "rollback"}, EndTransaction(op)
      PROVE  Counts' /\ Onward
  BY <1>17 DEF EndTransaction
<1>18. CASE EndNothing
  BY <1>18 DEF EndNothing
<1>19. CASE CommitRequest
  BY <1>19 DEF CommitRequest
<1>20. CASE CommitRequestFails
  BY <1>20 DEF CommitRequestFails
<1>21. CASE RollbackRequest
  BY <1>21 DEF RollbackRequest
<1>22. CASE RollbackRequestFails
  BY <1>22 DEF RollbackRequestFails
<1>23. ASSUME NEW sync \in {"tx", "close"}, RunSync(sync)
      PROVE  Counts' /\ Onward
  BY <1>23 DEF RunSync
<1>24. CASE SyncsDone
  BY <1>24 DEF SyncsDone
<1>25. CASE commit
  BY <1>25 DEF commit
<1>26. CASE Recover
  BY <1>26 DEF Recover
<1>27. CASE rollbackNothing
  BY <1>27 DEF rollbackNothing
<1>28. CASE rollbackPoison
  BY <1>28 DEF rollbackPoison
<1>29. ASSUME NEW delayed \in BOOLEAN, rollback(delayed)
      PROVE  Counts' /\ Onward
  BY <1>29 DEF rollback
<1>30. CASE CloseDeferred
  BY <1>30 DEF CloseDeferred
<1>31. CASE Close
  BY <1>31 DEF Close
<1>32. CASE dispose
  BY <1>32 DEF dispose, ExecutorTerminated
<1>33. ASSUME NEW m \in Messages, NEW count \in BrokerCounts, OnDispatch(m, count)
      PROVE  Counts' /\ Onward
  BY <1>33 DEF OnDispatch
<1>34. CASE DispatchClearsProgress
  BY <1>34 DEF DispatchClearsProgress, clearMessagesInProgress
<1>35. CASE DispatchClearsList
  BY <1>35 DEF DispatchClearsList
<1>36. CASE DispatchClosed
  BY <1>36 DEF DispatchClosed
<1>37. CASE DispatchFresh
  BY <1>37 DEF DispatchFresh
<1>38. CASE DispatchReplay
  BY <1>38 DEF DispatchReplay
<1>39. CASE DispatchDuplicate
  BY <1>39 DEF DispatchDuplicate
<1>40. CASE transportInterrupted
  BY <1>40 DEF transportInterrupted
<1>41. CASE StartConsumer
  BY <1>41 DEF StartConsumer
<1>42. CASE ClearConsumer
  BY <1>42 DEF ClearConsumer, clearMessagesInProgress
<1>43. CASE AckTaskRuns
  BY <1>43 DEF AckTaskRuns
<1>44. CASE UNCHANGED vars
  BY <1>44 DEF vars
<1> QED
  BY <1>1, <1>2, <1>3, <1>4, <1>5, <1>6, <1>7, <1>8, <1>9, <1>10, <1>11, <1>12, <1>13, <1>14,
     <1>15, <1>16, <1>17, <1>18, <1>19, <1>20, <1>21, <1>22, <1>23, <1>24, <1>25, <1>26, <1>27,
     <1>28, <1>29, <1>30, <1>31, <1>32, <1>33, <1>34, <1>35, <1>36, <1>37, <1>38, <1>39, <1>40,
     <1>41, <1>42, <1>43, <1>44
  DEF Next, Application, Transport, Tasks

(* Before the first interruption nothing is mixed and nothing is to be cleared. *)
LEMMA FirstNext ==
    ASSUME Shape, Counts, FirstConnection, [Next]_vars,
           interruptions = 0 /\ DispatchFresh => disp.msg \notin Held
    PROVE  FirstConnection'
<1> SUFFICES ASSUME interruptions' = 0
             PROVE  ~mixed' /\ clearRequired' = 0 /\ ~clearList'
  BY DEF FirstConnection
<1> USE DEF Counts, channelVars, ackVars, txVars, taskVars, brokerVars,
        appVars, boundVars, auditVars
<1>0. interruptions = 0 /\ ~mixed /\ clearRequired = 0 /\ ~clearList
  BY CountsNext DEF Onward, FirstConnection
<1>1. CASE Receive
  BY <1>0, <1>1 DEF Receive, clearDeliveredList
<1>2. CASE ClearList
  BY <1>0, <1>2 DEF ClearList, clearDeliveredList
<1>3. CASE ReceiveNothing
  BY <1>0, <1>3 DEF ReceiveNothing
<1>4. ASSUME NEW expired \in BOOLEAN, Dequeue(expired)
      PROVE  ~mixed' /\ clearRequired' = 0 /\ ~clearList'
  <2>1. /\ mixed' = (mixed \/ clearRequired > 0)
        /\ clearRequired' = clearRequired /\ clearList' = clearList
    BY <1>4 DEF Dequeue
  <2>2. ~(clearRequired > 0)
    BY <1>0
  <2>3. ~mixed'
    BY <1>0, <2>1, <2>2, Zenon
  <2> QED BY <1>0, <2>1, <2>3
<1>5. CASE DequeueExceeded
  BY <1>0, <1>5 DEF DequeueExceeded
<1>6. CASE beforeMessageIsConsumed
  BY <1>0, <1>6 DEF beforeMessageIsConsumed
<1>7. CASE ackLater
  BY <1>0, <1>7 DEF ackLater
<1>8. CASE ackLaterWrites
  BY <1>0, <1>8 DEF ackLaterWrites
<1>9. CASE ConsumedExpired
  BY <1>0, <1>9 DEF ConsumedExpired
<1>10. CASE ConsumedAuto
  BY <1>0, <1>10 DEF ConsumedAuto
<1>11. CASE ConsumedLater
  BY <1>0, <1>11 DEF ConsumedLater
<1>12. CASE Acknowledge
  BY <1>0, <1>12 DEF Acknowledge, clearDeliveredList
<1>13. CASE AcknowledgeNothing
  BY <1>0, <1>13 DEF AcknowledgeNothing
<1>14. CASE AcknowledgeAll
  BY <1>0, <1>14 DEF AcknowledgeAll
<1>15. CASE AcknowledgeThrows
  BY <1>0, <1>15 DEF AcknowledgeThrows
<1>16. ASSUME NEW m \in Messages, AcknowledgeOne(m)
      PROVE  ~mixed' /\ clearRequired' = 0 /\ ~clearList'
  BY <1>0, <1>16 DEF AcknowledgeOne
<1>17. ASSUME NEW op \in {"commit", "rollback"}, EndTransaction(op)
      PROVE  ~mixed' /\ clearRequired' = 0 /\ ~clearList'
  BY <1>0, <1>17 DEF EndTransaction, clearDeliveredList
<1>18. CASE EndNothing
  BY <1>0, <1>18 DEF EndNothing
<1>19. CASE CommitRequest
  BY <1>0, <1>19 DEF CommitRequest
<1>20. CASE CommitRequestFails
  BY <1>0, <1>20 DEF CommitRequestFails
<1>21. CASE RollbackRequest
  BY <1>0, <1>21 DEF RollbackRequest
<1>22. CASE RollbackRequestFails
  BY <1>0, <1>22 DEF RollbackRequestFails
<1>23. ASSUME NEW sync \in {"tx", "close"}, RunSync(sync)
      PROVE  ~mixed' /\ clearRequired' = 0 /\ ~clearList'
  BY <1>0, <1>23 DEF RunSync, clearDeliveredList
<1>24. CASE SyncsDone
  BY <1>0, <1>24 DEF SyncsDone
<1>25. CASE commit
  BY <1>0, <1>25 DEF commit
<1>26. CASE Recover
  BY <1>0, <1>26 DEF Recover, clearDeliveredList
<1>27. CASE rollbackNothing
  BY <1>0, <1>27 DEF rollbackNothing, RolledBack
<1>28. CASE rollbackPoison
  BY <1>0, <1>28 DEF rollbackPoison, RolledBack
<1>29. ASSUME NEW delayed \in BOOLEAN, rollback(delayed)
      PROVE  ~mixed' /\ clearRequired' = 0 /\ ~clearList'
  BY <1>0, <1>29 DEF rollback, RolledBack
<1>30. CASE CloseDeferred
  BY <1>0, <1>30 DEF CloseDeferred
<1>31. CASE Close
  BY <1>0, <1>31 DEF Close
<1>32. CASE dispose
  BY <1>0, <1>32 DEF dispose, ExecutorTerminated
<1>33. ASSUME NEW m \in Messages, NEW count \in BrokerCounts, OnDispatch(m, count)
      PROVE  ~mixed' /\ clearRequired' = 0 /\ ~clearList'
  BY <1>0, <1>33 DEF OnDispatch
<1>34. CASE DispatchClearsProgress
  BY <1>0, <1>34 DEF DispatchClearsProgress, clearMessagesInProgress
<1>35. CASE DispatchClearsList
  BY <1>0, <1>35 DEF DispatchClearsList, clearDeliveredList
<1>36. CASE DispatchClosed
  BY <1>0, <1>36 DEF DispatchClosed
<1>37. CASE DispatchFresh
  BY <1>0, <1>37 DEF DispatchFresh
<1>38. CASE DispatchReplay
  BY <1>0, <1>38 DEF DispatchReplay
<1>39. CASE DispatchDuplicate
  BY <1>0, <1>39 DEF DispatchDuplicate
<1>40. CASE transportInterrupted
  BY <1>0, <1>40 DEF transportInterrupted
<1>41. CASE StartConsumer
  BY <1>0, <1>41 DEF StartConsumer
<1>42. CASE ClearConsumer
  BY <1>0, <1>42 DEF ClearConsumer, clearMessagesInProgress
<1>43. CASE AckTaskRuns
  BY <1>0, <1>43 DEF AckTaskRuns
<1>44. CASE UNCHANGED vars
  BY <1>0, <1>44 DEF vars
<1> QED
  BY <1>1, <1>2, <1>3, <1>4, <1>5, <1>6, <1>7, <1>8, <1>9, <1>10, <1>11, <1>12, <1>13, <1>14,
     <1>15, <1>16, <1>17, <1>18, <1>19, <1>20, <1>21, <1>22, <1>23, <1>24, <1>25, <1>26, <1>27,
     <1>28, <1>29, <1>30, <1>31, <1>32, <1>33, <1>34, <1>35, <1>36, <1>37, <1>38, <1>39, <1>40,
     <1>41, <1>42, <1>43, <1>44
  DEF Next, Application, Transport, Tasks

(* Every step keeps the order while it is promised. *)
LEMMA KeptNext ==
    ASSUME Shape, Counts, FirstConnection, Ordered, Kept, Next, Ordered'
    PROVE  Kept'
<1> USE DEF Shape, channelVars, ackVars, txVars, taskVars, brokerVars,
        appVars, boundVars, auditVars
<1> DEFINE Same == UNCHANGED <<clearRequired, clearList, sent>> /\ previously' = <<>>
<1> DEFINE AppKept == app'.pc \in {"before", "rollback"} => app' = app
<1> DEFINE DispKept == disp' = disp \/ disp'.pc = "idle"
<1>a. /\ LeftOf(delivered, delivered) /\ Falling(delivered) /\ LeftOf(<<>>, delivered)
      /\ LeftOf(unconsumed, unconsumed) /\ Rising(unconsumed) /\ LeftOf(<<>>, unconsumed)
      /\ Falling(<<>>) /\ Rising(<<>>) /\ previously = <<>>
  BY AllLeft, NothingLeft DEF Kept, Line
<1>1. CASE Receive
  <2>1. /\ clearDeliveredList /\ UNCHANGED <<clearRequired, sent, unconsumed>>
        /\ app'.pc = "before" => app' = app
        /\ disp' = disp \/ (disp.pc = "list" /\ disp'.pc = "put" /\ disp'.msg = disp.msg)
    BY <1>1 DEF Receive, Call, IdleApp, AppShape, DispShape
  <2> QED BY <2>1, ClearOrder
<1>2. CASE ClearList
  <2>1. /\ clearDeliveredList /\ UNCHANGED <<clearRequired, sent, unconsumed>>
        /\ app'.pc = "before" => app' = app
        /\ disp' = disp \/ (disp.pc = "list" /\ disp'.pc = "put" /\ disp'.msg = disp.msg)
    BY <1>2 DEF ClearList, Goto, AppShape, IdleApp, DispShape
  <2> QED BY <2>1, ClearOrder
<1>3. CASE ReceiveNothing
  <2>1. AppKept /\ DispKept
    BY <1>3 DEF ReceiveNothing, AppShape, IdleApp, IdleDisp
  <2>2. /\ delivered' \in {delivered, <<>>} /\ unconsumed' \in {unconsumed, <<>>}
        /\ Same
    BY <1>a, <1>3 DEF ReceiveNothing
  <2> QED BY <1>a, <2>1, <2>2, LeaveOrder
<1>4. ASSUME NEW expired \in BOOLEAN, Dequeue(expired)
      PROVE  Kept'
  <2>1. mixed' = (mixed \/ clearRequired > 0) /\ interruptions' = interruptions
    BY <1>4 DEF Dequeue
  <2>2. clearRequired > 0 => mixed'
    BY <2>1, Zenon
  <2>3. interruptions = 0 \/ ~(clearRequired > 0)
    BY <2>1, <2>2 DEF Ordered
  <2>4. clearRequired = 0
    BY <2>3 DEF FirstConnection, Counts
  <2> QED BY <1>4, <2>4, DequeueOrder
<1>5. CASE DequeueExceeded
  <2>1. AppKept /\ DispKept
    BY <1>5 DEF DequeueExceeded, LookAgain, AppShape, IdleApp, IdleDisp
  <2>2. unconsumed' = Tail(unconsumed) /\ unconsumed # <<>> /\ delivered' = delivered
    BY <1>5 DEF DequeueExceeded
  <2>3. LeftOf(unconsumed', unconsumed) /\ Rising(unconsumed')
    BY <1>a, <2>2, TailLeft DEF Kept, Line
  <2>4. Same
    BY <1>a, <1>5 DEF DequeueExceeded
  <2> QED BY <1>a, <2>1, <2>2, <2>3, <2>4, LeaveOrder
<1>6. CASE beforeMessageIsConsumed
  BY <1>6, BeforeOrder
<1>7. CASE ackLater
  <2>1. AppKept /\ DispKept
    BY <1>7 DEF ackLater, AppShape, IdleApp, IdleDisp
  <2>2. /\ delivered' \in {delivered, <<>>} /\ unconsumed' \in {unconsumed, <<>>}
        /\ Same
    BY <1>a, <1>7 DEF ackLater
  <2> QED BY <1>a, <2>1, <2>2, LeaveOrder
<1>8. CASE ackLaterWrites
  <2>1. AppKept /\ DispKept
    BY <1>8 DEF ackLaterWrites, AppShape, IdleApp, IdleDisp
  <2>2. /\ delivered' \in {delivered, <<>>} /\ unconsumed' \in {unconsumed, <<>>}
        /\ Same
    BY <1>a, <1>8 DEF ackLaterWrites
  <2> QED BY <1>a, <2>1, <2>2, LeaveOrder
<1>9. CASE ConsumedExpired
  <2>1. AppKept /\ DispKept
    BY <1>9 DEF ConsumedExpired, LookAgain, AppShape, IdleApp, IdleDisp
  <2>2. delivered' = RemoveFirst(delivered, app.msg) /\ unconsumed' = unconsumed /\ Same
    BY <1>a, <1>9 DEF ConsumedExpired
  <2>3. LeftOf(delivered', delivered) /\ Falling(delivered')
    BY <1>a, <2>2, RemoveFirstLeft DEF Kept, Line
  <2> QED BY <1>a, <2>1, <2>2, <2>3, LeaveOrder
<1>10. CASE ConsumedAuto
  <2>1. AppKept /\ DispKept
    BY <1>10 DEF ConsumedAuto, AppShape, IdleApp, IdleDisp
  <2>2. /\ delivered' \in {delivered, <<>>} /\ unconsumed' \in {unconsumed, <<>>}
        /\ Same
    BY <1>a, <1>10 DEF ConsumedAuto
  <2> QED BY <1>a, <2>1, <2>2, LeaveOrder
<1>11. CASE ConsumedLater
  <2>1. AppKept /\ DispKept
    BY <1>11 DEF ConsumedLater, AppShape, IdleApp, IdleDisp
  <2>2. /\ delivered' \in {delivered, <<>>} /\ unconsumed' \in {unconsumed, <<>>}
        /\ Same
    BY <1>a, <1>11 DEF ConsumedLater
  <2> QED BY <1>a, <2>1, <2>2, LeaveOrder
<1>12. CASE Acknowledge
  <2>1. /\ clearDeliveredList /\ UNCHANGED <<clearRequired, sent, unconsumed>>
        /\ app'.pc = "before" => app' = app
        /\ disp' = disp \/ (disp.pc = "list" /\ disp'.pc = "put" /\ disp'.msg = disp.msg)
    BY <1>12 DEF Acknowledge, Call, AppShape, IdleApp, DispShape
  <2> QED BY <2>1, ClearOrder
<1>13. CASE AcknowledgeNothing
  <2>1. AppKept /\ DispKept
    BY <1>13 DEF AcknowledgeNothing, Acknowledged, AppShape, IdleApp, IdleDisp
  <2>2. /\ delivered' \in {delivered, <<>>} /\ unconsumed' \in {unconsumed, <<>>}
        /\ Same
    BY <1>a, <1>13 DEF AcknowledgeNothing, Acknowledged
  <2> QED BY <1>a, <2>1, <2>2, LeaveOrder
<1>14. CASE AcknowledgeAll
  <2>1. AppKept /\ DispKept
    BY <1>14 DEF AcknowledgeAll, Acknowledged, AppShape, IdleApp, IdleDisp
  <2>2. /\ delivered' \in {delivered, <<>>} /\ unconsumed' \in {unconsumed, <<>>}
        /\ Same
    BY <1>a, <1>14 DEF AcknowledgeAll, Acknowledged
  <2> QED BY <1>a, <2>1, <2>2, LeaveOrder
<1>15. CASE AcknowledgeThrows
  <2>1. AppKept /\ DispKept
    BY <1>15 DEF AcknowledgeThrows, AppShape, IdleApp, IdleDisp
  <2>2. /\ delivered' \in {delivered, <<>>} /\ unconsumed' \in {unconsumed, <<>>}
        /\ Same
    BY <1>a, <1>15 DEF AcknowledgeThrows
  <2> QED BY <1>a, <2>1, <2>2, LeaveOrder
<1>16. ASSUME NEW m \in Messages, AcknowledgeOne(m)
      PROVE  Kept'
  <2>1. AppKept /\ DispKept
    BY <1>16 DEF AcknowledgeOne, AppShape, IdleApp, IdleDisp
  <2>2. delivered' = RemoveFirst(delivered, m) /\ unconsumed' = unconsumed /\ Same
    BY <1>a, <1>16 DEF AcknowledgeOne
  <2>3. LeftOf(delivered', delivered) /\ Falling(delivered')
    BY <1>a, <2>2, RemoveFirstLeft DEF Kept, Line
  <2> QED BY <1>a, <2>1, <2>2, <2>3, LeaveOrder
<1>17. ASSUME NEW op \in {"commit", "rollback"}, EndTransaction(op)
      PROVE  Kept'
  <2>1. UNCHANGED <<clearRequired, sent, unconsumed, disp>> /\ app'.pc # "before"
    BY <1>17 DEF EndTransaction, Call, AppShape, IdleApp
  <2>2. CASE clearDeliveredList
    BY <2>1, <2>2, ClearOrder
  <2>3. CASE UNCHANGED ackVars /\ app'.pc # "rollback"
    <3>1. delivered' = delivered /\ Same
      BY <1>a, <2>1, <2>3
    <3> QED BY <1>a, <2>1, <2>3, <3>1, LeaveOrder
  <2> QED BY <1>17, <2>2, <2>3 DEF EndTransaction, Call, AppShape, IdleApp
<1>18. CASE EndNothing
  <2>1. AppKept /\ DispKept
    BY <1>18 DEF EndNothing, AppShape, IdleApp, IdleDisp
  <2>2. /\ delivered' \in {delivered, <<>>} /\ unconsumed' \in {unconsumed, <<>>}
        /\ Same
    BY <1>a, <1>18 DEF EndNothing
  <2> QED BY <1>a, <2>1, <2>2, LeaveOrder
<1>19. CASE CommitRequest
  <2>1. AppKept /\ DispKept
    BY <1>19 DEF CommitRequest, AppShape, IdleApp, IdleDisp
  <2>2. /\ delivered' \in {delivered, <<>>} /\ unconsumed' \in {unconsumed, <<>>}
        /\ Same
    BY <1>a, <1>19 DEF CommitRequest
  <2> QED BY <1>a, <2>1, <2>2, LeaveOrder
<1>20. CASE CommitRequestFails
  <2>1. AppKept /\ DispKept
    BY <1>20 DEF CommitRequestFails, AppShape, IdleApp, IdleDisp
  <2>2. /\ delivered' \in {delivered, <<>>} /\ unconsumed' \in {unconsumed, <<>>}
        /\ Same
    BY <1>a, <1>20 DEF CommitRequestFails
  <2> QED BY <1>a, <2>1, <2>2, LeaveOrder
<1>21. CASE RollbackRequest
  <2>1. AppKept /\ DispKept
    BY <1>21 DEF RollbackRequest, AppShape, IdleApp, IdleDisp
  <2>2. /\ delivered' \in {delivered, <<>>} /\ unconsumed' \in {unconsumed, <<>>}
        /\ Same
    BY <1>a, <1>21 DEF RollbackRequest
  <2> QED BY <1>a, <2>1, <2>2, LeaveOrder
<1>22. CASE RollbackRequestFails
  <2>1. AppKept /\ DispKept
    BY <1>22 DEF RollbackRequestFails, AppShape, IdleApp, IdleDisp
  <2>2. /\ delivered' \in {delivered, <<>>} /\ unconsumed' \in {unconsumed, <<>>}
        /\ Same
    BY <1>a, <1>22 DEF RollbackRequestFails
  <2> QED BY <1>a, <2>1, <2>2, LeaveOrder
<1>23. ASSUME NEW sync \in {"tx", "close"}, RunSync(sync)
      PROVE  Kept'
  <2>1. UNCHANGED <<clearRequired, sent, unconsumed, disp>> /\ app'.pc # "before"
    BY <1>23 DEF RunSync, AppShape, IdleApp
  <2>2. CASE clearDeliveredList
    BY <2>1, <2>2, ClearOrder
  <2>3. CASE UNCHANGED ackVars /\ app'.pc # "rollback"
    <3>1. delivered' = delivered /\ Same
      BY <1>a, <2>1, <2>3
    <3> QED BY <1>a, <2>1, <2>3, <3>1, LeaveOrder
  <2> QED BY <1>23, <2>2, <2>3 DEF RunSync, AppShape, IdleApp
<1>24. CASE SyncsDone
  <2>1. AppKept /\ DispKept
    BY <1>24 DEF SyncsDone, AppShape, IdleApp, IdleDisp
  <2>2. /\ delivered' \in {delivered, <<>>} /\ unconsumed' \in {unconsumed, <<>>}
        /\ Same
    BY <1>a, <1>24 DEF SyncsDone
  <2> QED BY <1>a, <2>1, <2>2, LeaveOrder
<1>25. CASE commit
  <2>1. AppKept /\ DispKept
    BY <1>25 DEF commit, Goto, AppShape, IdleApp, IdleDisp
  <2>2. /\ delivered' \in {delivered, <<>>} /\ unconsumed' \in {unconsumed, <<>>}
        /\ Same
    BY <1>a, <1>25 DEF commit, Goto
  <2> QED BY <1>a, <2>1, <2>2, LeaveOrder
<1>26. CASE Recover
  <2>1. /\ clearDeliveredList /\ UNCHANGED <<clearRequired, sent, unconsumed>>
        /\ app'.pc = "before" => app' = app
        /\ disp' = disp \/ (disp.pc = "list" /\ disp'.pc = "put" /\ disp'.msg = disp.msg)
    BY <1>26 DEF Recover, Call, AppShape, IdleApp, DispShape
  <2> QED BY <2>1, ClearOrder
<1>27. CASE rollbackNothing
  <2>1. AppKept /\ DispKept
    BY <1>27 DEF rollbackNothing, RolledBack, Goto, AppShape, IdleApp, IdleDisp
  <2>2. /\ delivered' \in {delivered, <<>>} /\ unconsumed' \in {unconsumed, <<>>}
        /\ Same
    BY <1>a, <1>27 DEF rollbackNothing, RolledBack, Goto
  <2> QED BY <1>a, <2>1, <2>2, LeaveOrder
<1>28. CASE rollbackPoison
  <2>1. AppKept /\ DispKept
    BY <1>28 DEF rollbackPoison, RolledBack, Goto, AppShape, IdleApp, IdleDisp
  <2>2. /\ delivered' \in {delivered, <<>>} /\ unconsumed' \in {unconsumed, <<>>}
        /\ Same
    BY <1>a, <1>28 DEF rollbackPoison, RolledBack, Goto
  <2> QED BY <1>a, <2>1, <2>2, LeaveOrder
<1>29. ASSUME NEW delayed \in BOOLEAN, rollback(delayed)
      PROVE  Kept'
  BY <1>29, RollbackOrder
<1>30. CASE CloseDeferred
  <2>1. AppKept /\ DispKept
    BY <1>30 DEF CloseDeferred, AppShape, IdleApp, IdleDisp
  <2>2. /\ delivered' \in {delivered, <<>>} /\ unconsumed' \in {unconsumed, <<>>}
        /\ Same
    BY <1>a, <1>30 DEF CloseDeferred
  <2> QED BY <1>a, <2>1, <2>2, LeaveOrder
<1>31. CASE Close
  <2>1. AppKept /\ DispKept
    BY <1>31 DEF Close, Call, deliverAcks, AppShape, IdleApp, IdleDisp
  <2>2. /\ delivered' \in {delivered, <<>>} /\ unconsumed' \in {unconsumed, <<>>}
        /\ Same
    BY <1>a, <1>31 DEF Close, Call, deliverAcks
  <2> QED BY <1>a, <2>1, <2>2, LeaveOrder
<1>32. CASE dispose
  <2>1. AppKept /\ DispKept
    BY <1>32 DEF dispose, ExecutorTerminated, AppShape, IdleApp, IdleDisp
  <2>2. /\ delivered' \in {delivered, <<>>} /\ unconsumed' \in {unconsumed, <<>>}
        /\ Same
    BY <1>a, <1>32 DEF dispose, ExecutorTerminated
  <2> QED BY <1>a, <2>1, <2>2, LeaveOrder
<1>33. ASSUME NEW m \in Messages, NEW count \in BrokerCounts, OnDispatch(m, count)
      PROVE  Kept'
  BY <1>33, OnDispatchOrder
<1>34. CASE DispatchClearsProgress
  <2>1. /\ clearMessagesInProgress /\ UNCHANGED <<clearList, delivered, previously, app, sent>>
        /\ disp' = disp \/ (disp.pc = "progress" /\ disp'.pc = "list" /\ disp'.msg = disp.msg)
    BY <1>34 DEF DispatchClearsProgress, DispShape
  <2> QED BY <2>1, ProgressOrder
<1>35. CASE DispatchClearsList
  <2>1. /\ clearDeliveredList /\ UNCHANGED <<clearRequired, sent, unconsumed>>
        /\ app'.pc = "before" => app' = app
        /\ disp' = disp \/ (disp.pc = "list" /\ disp'.pc = "put" /\ disp'.msg = disp.msg)
    BY <1>35 DEF DispatchClearsList, AppShape, IdleApp, DispShape
  <2> QED BY <2>1, ClearOrder
<1>36. CASE DispatchClosed
  <2>1. AppKept /\ DispKept
    BY <1>36 DEF DispatchClosed, AppShape, IdleApp, IdleDisp
  <2>2. /\ delivered' \in {delivered, <<>>} /\ unconsumed' \in {unconsumed, <<>>}
        /\ Same
    BY <1>a, <1>36 DEF DispatchClosed
  <2> QED BY <1>a, <2>1, <2>2, LeaveOrder
<1>37. CASE DispatchFresh
  BY <1>37, FreshOrder
<1>38. CASE DispatchReplay
  <2>1. AppKept /\ DispKept
    BY <1>38 DEF DispatchReplay, AppShape, IdleApp, IdleDisp
  <2>2. /\ delivered' \in {delivered, <<>>} /\ unconsumed' \in {unconsumed, <<>>}
        /\ Same
    BY <1>a, <1>38 DEF DispatchReplay
  <2> QED BY <1>a, <2>1, <2>2, LeaveOrder
<1>39. CASE DispatchDuplicate
  <2>1. AppKept /\ DispKept
    BY <1>39 DEF DispatchDuplicate, AppShape, IdleApp, IdleDisp
  <2>2. /\ delivered' \in {delivered, <<>>} /\ unconsumed' \in {unconsumed, <<>>}
        /\ Same
    BY <1>a, <1>39 DEF DispatchDuplicate
  <2> QED BY <1>a, <2>1, <2>2, LeaveOrder
<1>40. CASE transportInterrupted
  <2>1. ~mixed'
    BY <1>40 DEF transportInterrupted, Ordered, Counts
  <2> QED BY <1>40, <2>1, InterruptedOrder
<1>41. CASE StartConsumer
  <2>1. AppKept /\ DispKept
    BY <1>41 DEF StartConsumer, AppShape, IdleApp, IdleDisp
  <2>2. /\ delivered' \in {delivered, <<>>} /\ unconsumed' \in {unconsumed, <<>>}
        /\ Same
    BY <1>a, <1>41 DEF StartConsumer
  <2> QED BY <1>a, <2>1, <2>2, LeaveOrder
<1>42. CASE ClearConsumer
  <2>1. /\ clearMessagesInProgress /\ UNCHANGED <<clearList, delivered, previously, app, sent>>
        /\ disp' = disp \/ (disp.pc = "progress" /\ disp'.pc = "list" /\ disp'.msg = disp.msg)
    BY <1>42 DEF ClearConsumer, DispShape
  <2> QED BY <2>1, ProgressOrder
<1>43. CASE AckTaskRuns
  <2>1. AppKept /\ DispKept
    BY <1>43 DEF AckTaskRuns, AppShape, IdleApp, IdleDisp
  <2>2. /\ delivered' \in {delivered, <<>>} /\ unconsumed' \in {unconsumed, <<>>}
        /\ Same
    BY <1>a, <1>43 DEF AckTaskRuns
  <2> QED BY <1>a, <2>1, <2>2, LeaveOrder
<1> QED
  BY <1>1, <1>2, <1>3, <1>4, <1>5, <1>6, <1>7, <1>8, <1>9, <1>10, <1>11, <1>12, <1>13, <1>14,
     <1>15, <1>16, <1>17, <1>18, <1>19, <1>20, <1>21, <1>22, <1>23, <1>24, <1>25, <1>26, <1>27,
     <1>28, <1>29, <1>30, <1>31, <1>32, <1>33, <1>34, <1>35, <1>36, <1>37, <1>38, <1>39, <1>40,
     <1>41, <1>42, <1>43
  DEF Next, Application, Transport, Tasks

(* All of it together. *)
IInv == Shape /\ StoppedWillStart /\ Counts /\ FirstConnection /\ OrderInv

(* The consumer is created with empty lists, on the first connection. *)
LEMMA InvInit == Init => IInv
<1> SUFFICES ASSUME Init PROVE IInv
  OBVIOUS
<1>1. Shape /\ StoppedWillStart
  BY ShapeInit
<1>2. Counts /\ FirstConnection
  BY DEF Init, Counts, FirstConnection
<1>3. app.pc = "idle" /\ disp.pc = "idle"
  BY DEF Init, IdleApp, IdleDisp
<1>4. Line
  <2>1. delivered = <<>> /\ unconsumed = <<>> /\ previously = <<>>
    BY DEF Init
  <2> QED BY <1>3, <2>1, NothingLeft DEF Line
<1>5. Present /\ Cleared
  <2>1. delivered = <<>> /\ unconsumed = <<>>
    BY DEF Init
  <2> QED BY <1>3, <2>1 DEF Present, Cleared
<1> QED BY <1>1, <1>2, <1>4, <1>5 DEF IInv, OrderInv

(* The invariant is inductive. *)
LEMMA InvNext == IInv /\ [Next]_vars => IInv'
<1> SUFFICES ASSUME IInv, [Next]_vars PROVE IInv'
  OBVIOUS
<1>1. Shape' /\ StoppedWillStart'
  BY ShapeNext DEF IInv
<1>2. Counts' /\ Onward
  BY CountsNext DEF IInv
<1>3. Ordered' => Ordered
  BY <1>2 DEF IInv, Onward, Ordered, Transacted, Counts
<1>4. FirstConnection'
  <2>1. interruptions = 0 /\ DispatchFresh => disp.msg \notin Held
    BY FreshOrder DEF IInv, OrderInv, Ordered, Kept
  <2> QED BY <2>1, FirstNext DEF IInv
<1>5. OrderInv'
  <2>1. CASE UNCHANGED vars
    BY <2>1 DEF IInv, OrderInv, Ordered, Transacted, Line, Present, InPresent, Cleared, vars,
                channelVars, ackVars, brokerVars, appVars, boundVars
  <2>2. CASE Next
    <3> SUFFICES ASSUME Ordered' PROVE Kept'
      BY DEF OrderInv, Kept
    <3> QED BY <1>3, <2>2, KeptNext DEF IInv, OrderInv, Kept
  <2> QED BY <2>1, <2>2
<1> QED BY <1>1, <1>2, <1>4, <1>5 DEF IInv

(* The line of OrderKept. *)
LEMMA SetToSeqOne == ASSUME NEW x PROVE SetToSeq({x}) = <<x>>
<1>1. Cardinality({x}) = 1
  BY FS_Singleton
<1>2. \A f \in [1..1 -> {x}] : f = <<x>>
  OBVIOUS
<1>3. <<x>> \in [1..1 -> {x}] /\ IsInjective(<<x>>)
  BY DEF IsInjective
<1> QED BY <1>1, <1>2, <1>3 DEF SetToSeq

(* A line that is in order is what OrderKept says. *)
LEMMA InvOrderKept == IInv => OrderKept
<1> SUFFICES ASSUME IInv, Ordered
             PROVE  LET line == Reverse(delivered) \o SetToSeq(InHand) \o unconsumed
                    IN  \A i, j \in DOMAIN line : i < j => line[i] < line[j]
  BY DEF OrderKept, Ordered
<1> DEFINE d == Reverse(delivered)
<1> DEFINE h == SetToSeq(InHand)
<1>1. Line /\ Present /\ Counts
  BY DEF IInv, OrderInv
<1>2. /\ d \in Seq(Messages) /\ Rising(d)
      /\ \A i \in 1..Len(d) : \E k \in 1..Len(delivered) : d[i] = delivered[k]
  BY <1>1, ReverseRising DEF Line
<1>3. /\ h \in Seq(Messages) /\ Rising(h)
      /\ \A i \in 1..Len(h) : app.pc = "before" /\ h[i] = app.msg
  <2>1. CASE app.pc = "before"
    <3>1. h = <<app.msg>> /\ app.msg \in Messages
      BY <1>1, <2>1, SetToSeqOne DEF InHand, Present, InPresent, Counts
    <3> HIDE DEF h
    <3>2. Len(h) = 1 /\ h[1] = app.msg /\ h \in Seq(Messages)
      BY <3>1
    <3> QED BY <2>1, <3>2 DEF Rising
  <2>2. CASE app.pc # "before"
    <3>1. h = <<>>
      BY <2>2, SetToSeqNothing DEF InHand
    <3> QED BY <3>1, NothingLeft
  <2> QED BY <2>1, <2>2
<1> HIDE DEF d, h
<1>4. \A i \in 1..Len(d), j \in 1..Len(h) : d[i] < h[j]
  BY <1>1, <1>2, <1>3 DEF Line
<1>5. /\ d \o h \in Seq(Messages) /\ Rising(d \o h)
      /\ \A i \in 1..Len(d \o h) : \/ \E k \in 1..Len(d) : (d \o h)[i] = d[k]
                                   \/ \E k \in 1..Len(h) : (d \o h)[i] = h[k]
  BY <1>2, <1>3, <1>4, ConcatRising
<1> DEFINE e == d \o h
<1> HIDE DEF e
<1>6. /\ e \in Seq(Messages) /\ Rising(e)
      /\ \A i \in 1..Len(e), j \in 1..Len(unconsumed) : e[i] < unconsumed[j]
  <2>1. \A k \in 1..Len(d), j \in 1..Len(unconsumed) : d[k] < unconsumed[j]
    BY <1>1, <1>2 DEF Line
  <2>2. \A k \in 1..Len(h), j \in 1..Len(unconsumed) : h[k] < unconsumed[j]
    BY <1>1, <1>3 DEF Line
  <2> QED BY <1>5, <2>1, <2>2 DEF e
<1>7. e \o unconsumed \in Seq(Messages) /\ Rising(e \o unconsumed)
  BY <1>1, <1>6, ConcatRising DEF Line
<1>8. DOMAIN (e \o unconsumed) = 1..Len(e \o unconsumed)
  BY <1>7
<1> QED BY <1>7, <1>8 DEF Rising, e, d, h

(***************************************************************************)
(* Whatever is received, rolled back, redelivered or cleared, the messages *)
(* delivered, in hand and unconsumed stand in the broker's order and each  *)
(* once, for any number of messages and, outside transactions, of          *)
(* interruptions (ActiveMQConsumerKernel: rollback's enqueueFirst in       *)
(* reverse order, clearMessagesInProgress, clearDeliveredList).            *)
(***************************************************************************)
THEOREM OrderIsKept == Spec => []OrderKept
<1>1. Init => IInv
  BY InvInit
<1>2. IInv /\ [Next]_vars => IInv'
  BY InvNext
<1>3. IInv => OrderKept
  BY InvOrderKept
<1> QED BY <1>1, <1>2, <1>3, PTL DEF Spec

(***************************************************************************)
(* A channel stopped by rollback for the redelivery delay always has a     *)
(* StartConsumerTask scheduled.                                            *)
(***************************************************************************)
THEOREM StoppedStarts == Spec => []StoppedWillStart
<1>1. Init => IInv
  BY InvInit
<1>2. IInv /\ [Next]_vars => IInv'
  BY InvNext
<1>3. IInv => StoppedWillStart
  BY DEF IInv
<1> QED BY <1>1, <1>2, <1>3, PTL DEF Spec

-----------------------------------------------------------------------------
(***************************************************************************)
(* Where a message that the application has had and that is not ended can  *)
(* be when the consumer acknowledges by itself.                            *)
(*                                                                         *)
(* AutoSettles: only in the thread that is about to acknowledge it.  BatchSettles: there *)
(* too, in the range of the pending ack or in that of the ack that close   *)
(* has given to the executor; the range can grow over it because its last  *)
(* message is before all that have not been had.                           *)
(***************************************************************************)
AutoSettles ==
    /\ handed \subseteq Messages
    /\ app.pc = "after" => delivered = <<app.msg>> /\ app.msg \in sent /\ ~clearList
    /\ app.pc # "after" => delivered = <<>>
    /\ \A m \in handed :
          final[m] # {} \/ (app.pc = "after" /\ ~app.expired /\ m = app.msg)

InProcess == app.pc \in {"after", "later", "write"}

InRange(m, ack) == ack.type = "consumed" /\ m \in ack.first..ack.last

RangeBefore(ack) ==
    ack # NoAck =>
        /\ ack.type = "consumed"
        /\ ack.first \in Int /\ ack.last \in sent /\ ack.first <= ack.last
        /\ \A j \in 1..Len(unconsumed) : ack.last < unconsumed[j]
        /\ app.pc = "before" \/ InProcess => ack.last < app.msg
        /\ disp.pc # "idle" => ack.last < disp.msg

BatchAck ==
    /\ RangeBefore(pendingAck)
    /\ InProcess => /\ InPresent(app.msg)
                    /\ \A j \in 1..Len(unconsumed) : app.msg < unconsumed[j]
    /\ app.pc = "write" => app.old = pendingAck
    /\ ackTask # NoAck => app.pc = "settle" /\ ackTask.type = "consumed"
    /\ app.pc = "settle" \/ closed => pendingAck = NoAck

BatchSettles ==
    /\ delivered = <<>> /\ handed \subseteq sent
    /\ BatchAck
    /\ \A m \in handed : \/ final[m] # {}
                         \/ InProcess /\ ~app.expired /\ m = app.msg
                         \/ InRange(m, pendingAck) \/ InRange(m, ackTask)

Whys == {"consumed", "poison", "expired", "duplicate"}

SettleInv ==
    /\ final \in [Messages -> SUBSET Whys]
    /\ mode = "auto" /\ ~mixed => AutoSettles
    /\ mode = "batch" /\ interruptions = 0 => BatchSettles

(* What is ended stays ended. *)
LEMMA SettleEnds ==
    ASSUME final \in [Messages -> SUBSET Whys], NEW ms, NEW why \in Whys, Settle(ms, why)
    PROVE  /\ final' \in [Messages -> SUBSET Whys]
           /\ \A m \in Messages : final[m] # {} \/ m \in ms => final'[m] # {}
<1>1. final' = [m \in Messages |-> final[m] \cup (IF m \in ms THEN {why} ELSE {})]
  BY DEF Settle
<1>2. final' \in [Messages -> SUBSET Whys]
  BY <1>1
<1>3. \A m \in Messages : final'[m] = final[m] \cup (IF m \in ms THEN {why} ELSE {})
  BY <1>1
<1>4. \A m \in Messages : final[m] # {} \/ m \in ms => final'[m] # {}
  BY <1>3
<1> QED BY <1>2, <1>4

Ended == /\ final' \in [Messages -> SUBSET Whys]
         /\ \A m \in Messages : final[m] # {} => final'[m] # {}

(* An ack that is sent takes away no end of a message. *)
LEMMA SendAckEnds ==
    ASSUME final \in [Messages -> SUBSET Whys], NEW ack, SendAck(ack)
    PROVE  /\ Ended
           /\ \A m \in Messages \cap sent :
                 ack.type = "consumed" /\ m \in ack.first..ack.last => final'[m] # {}
<1> DEFINE ms == IF ack.type = "consumed" THEN Covered(ack.first, ack.last) ELSE {}
<1>1. Settle(ms, "consumed") /\ "consumed" \in Whys
  BY DEF SendAck, Whys
<1>2. \A m \in Messages \cap sent :
         ack.type = "consumed" /\ m \in ack.first..ack.last => final[m] # {} \/ m \in ms
  BY DEF Covered
<1> HIDE DEF ms
<1> QED BY <1>1, <1>2, SettleEnds DEF Ended

(* Nor does a step that leaves the broker alone. *)
LEMMA SameEnds == final \in [Messages -> SUBSET Whys] /\ UNCHANGED final => Ended
  BY DEF Ended

(* No step takes back the end of a message. *)
LEMMA EndedNext ==
    ASSUME final \in [Messages -> SUBSET Whys], [Next]_vars
    PROVE  Ended
<1> USE DEF brokerVars
<1>a. ASSUME NEW ms, NEW why \in Whys, Settle(ms, why) PROVE Ended
  BY <1>a, SettleEnds DEF Ended
<1>b. ASSUME NEW ack, SendAck(ack) PROVE Ended
  BY <1>b, SendAckEnds
<1>c. UNCHANGED final => Ended
  BY SameEnds
<1>d. Whys = {"consumed", "poison", "expired", "duplicate"}
  BY DEF Whys
<1>1. CASE Receive
  BY <1>a, <1>b, <1>c, <1>d, <1>1 DEF Receive
<1>2. CASE ClearList
  BY <1>a, <1>b, <1>c, <1>d, <1>2 DEF ClearList
<1>3. CASE ReceiveNothing
  BY <1>a, <1>b, <1>c, <1>d, <1>3 DEF ReceiveNothing
<1>4. ASSUME NEW expired \in BOOLEAN, Dequeue(expired)
      PROVE  Ended
  BY <1>a, <1>b, <1>c, <1>d, <1>4 DEF Dequeue
<1>5. CASE DequeueExceeded
  BY <1>a, <1>b, <1>c, <1>d, <1>5 DEF DequeueExceeded, SettleOne
<1>6. CASE beforeMessageIsConsumed
  BY <1>a, <1>b, <1>c, <1>d, <1>6 DEF beforeMessageIsConsumed
<1>7. CASE ackLater
  BY <1>a, <1>b, <1>c, <1>d, <1>7 DEF ackLater
<1>8. CASE ackLaterWrites
  BY <1>a, <1>b, <1>c, <1>d, <1>8 DEF ackLaterWrites
<1>9. CASE ConsumedExpired
  BY <1>a, <1>b, <1>c, <1>d, <1>9 DEF ConsumedExpired, SettleOne
<1>10. CASE ConsumedAuto
  BY <1>a, <1>b, <1>c, <1>d, <1>10 DEF ConsumedAuto
<1>11. CASE ConsumedLater
  BY <1>a, <1>b, <1>c, <1>d, <1>11 DEF ConsumedLater
<1>12. CASE Acknowledge
  BY <1>a, <1>b, <1>c, <1>d, <1>12 DEF Acknowledge
<1>13. CASE AcknowledgeNothing
  BY <1>a, <1>b, <1>c, <1>d, <1>13 DEF AcknowledgeNothing
<1>14. CASE AcknowledgeAll
  BY <1>a, <1>b, <1>c, <1>d, <1>14 DEF AcknowledgeAll
<1>15. CASE AcknowledgeThrows
  BY <1>a, <1>b, <1>c, <1>d, <1>15 DEF AcknowledgeThrows
<1>16. ASSUME NEW m \in Messages, AcknowledgeOne(m)
      PROVE  Ended
  BY <1>a, <1>b, <1>c, <1>d, <1>16 DEF AcknowledgeOne, SettleOne
<1>17. ASSUME NEW op \in {"commit", "rollback"}, EndTransaction(op)
      PROVE  Ended
  BY <1>a, <1>b, <1>c, <1>d, <1>17 DEF EndTransaction
<1>18. CASE EndNothing
  BY <1>a, <1>b, <1>c, <1>d, <1>18 DEF EndNothing
<1>19. CASE CommitRequest
  BY <1>a, <1>b, <1>c, <1>d, <1>19 DEF CommitRequest
<1>20. CASE CommitRequestFails
  BY <1>a, <1>b, <1>c, <1>d, <1>20 DEF CommitRequestFails
<1>21. CASE RollbackRequest
  BY <1>a, <1>b, <1>c, <1>d, <1>21 DEF RollbackRequest
<1>22. CASE RollbackRequestFails
  BY <1>a, <1>b, <1>c, <1>d, <1>22 DEF RollbackRequestFails
<1>23. ASSUME NEW sync \in {"tx", "close"}, RunSync(sync)
      PROVE  Ended
  BY <1>a, <1>b, <1>c, <1>d, <1>23 DEF RunSync
<1>24. CASE SyncsDone
  BY <1>a, <1>b, <1>c, <1>d, <1>24 DEF SyncsDone
<1>25. CASE commit
  BY <1>a, <1>b, <1>c, <1>d, <1>25 DEF commit
<1>26. CASE Recover
  BY <1>a, <1>b, <1>c, <1>d, <1>26 DEF Recover
<1>27. CASE rollbackNothing
  BY <1>a, <1>b, <1>c, <1>d, <1>27 DEF rollbackNothing
<1>28. CASE rollbackPoison
  BY <1>a, <1>b, <1>c, <1>d, <1>28 DEF rollbackPoison
<1>29. ASSUME NEW delayed \in BOOLEAN, rollback(delayed)
      PROVE  Ended
  BY <1>a, <1>b, <1>c, <1>d, <1>29 DEF rollback
<1>30. CASE CloseDeferred
  BY <1>a, <1>b, <1>c, <1>d, <1>30 DEF CloseDeferred
<1>31. CASE Close
  BY <1>a, <1>b, <1>c, <1>d, <1>31 DEF Close
<1>32. CASE dispose
  BY <1>a, <1>b, <1>c, <1>d, <1>32 DEF dispose, ExecutorTerminated
<1>33. ASSUME NEW m \in Messages, NEW count \in BrokerCounts, OnDispatch(m, count)
      PROVE  Ended
  BY <1>a, <1>b, <1>c, <1>d, <1>33 DEF OnDispatch
<1>34. CASE DispatchClearsProgress
  BY <1>a, <1>b, <1>c, <1>d, <1>34 DEF DispatchClearsProgress
<1>35. CASE DispatchClearsList
  BY <1>a, <1>b, <1>c, <1>d, <1>35 DEF DispatchClearsList
<1>36. CASE DispatchClosed
  BY <1>a, <1>b, <1>c, <1>d, <1>36 DEF DispatchClosed
<1>37. CASE DispatchFresh
  BY <1>a, <1>b, <1>c, <1>d, <1>37 DEF DispatchFresh
<1>38. CASE DispatchReplay
  BY <1>a, <1>b, <1>c, <1>d, <1>38 DEF DispatchReplay
<1>39. CASE DispatchDuplicate
  BY <1>a, <1>b, <1>c, <1>d, <1>39 DEF DispatchDuplicate, SettleOne
<1>40. CASE transportInterrupted
  BY <1>a, <1>b, <1>c, <1>d, <1>40 DEF transportInterrupted
<1>41. CASE StartConsumer
  BY <1>a, <1>b, <1>c, <1>d, <1>41 DEF StartConsumer
<1>42. CASE ClearConsumer
  BY <1>a, <1>b, <1>c, <1>d, <1>42 DEF ClearConsumer
<1>43. CASE AckTaskRuns
  BY <1>a, <1>b, <1>c, <1>d, <1>43 DEF AckTaskRuns
<1>44. CASE UNCHANGED vars
  BY <1>c, <1>44 DEF vars
<1> QED
  BY <1>1, <1>2, <1>3, <1>4, <1>5, <1>6, <1>7, <1>8, <1>9, <1>10, <1>11, <1>12, <1>13, <1>14,
     <1>15, <1>16, <1>17, <1>18, <1>19, <1>20, <1>21, <1>22, <1>23, <1>24, <1>25, <1>26, <1>27,
     <1>28, <1>29, <1>30, <1>31, <1>32, <1>33, <1>34, <1>35, <1>36, <1>37, <1>38, <1>39, <1>40,
     <1>41, <1>42, <1>43, <1>44
  DEF Next, Application, Transport, Tasks

(* A list of one message without that message. *)
LEMMA RemoveOnly == ASSUME NEW e PROVE RemoveFirst(<<e>>, e) = <<>>
<1> DEFINE q == <<e>>
<1>1. Len(q) = 1 /\ q[1] = e
  OBVIOUS
<1>2. {i \in 1..Len(q) : q[i] = e} = {1}
  BY <1>1
<1>3. Min({1}) = 1
  BY DEF Min
<1>4. SelectInSeq(q, LAMBDA v : v = e) = 1
  BY <1>2, <1>3 DEF SelectInSeq
<1>5. RemoveFirst(q, e) = RemoveAt(q, 1)
  BY <1>1, <1>4 DEF RemoveFirst
<1> QED BY <1>5 DEF RemoveAt

(* Steps of the application thread before and after it acknowledges. *)
LEMMA AutoOutside ==
    ASSUME AutoSettles, Ended, handed' = handed, app.pc # "after", app'.pc # "after", delivered' = <<>>
    PROVE  AutoSettles'
  BY DEF AutoSettles, Ended

(* A step that leaves the application thread and what it had alone. *)
LEMMA AutoAside ==
    ASSUME AutoSettles, Ended, handed' = handed, app' = app, delivered' = delivered,
           clearList' => clearList, sent \subseteq sent'
    PROVE  AutoSettles'
  BY DEF AutoSettles, Ended

(* In auto mode every step leaves the messages that were had ended or about to be. *)
LEMMA AutoNext ==
    ASSUME Shape, Counts, FirstConnection, Ordered, Kept, mode = "auto", AutoSettles,
           final \in [Messages -> SUBSET Whys], Next, ~mixed'
    PROVE  AutoSettles'
<1> USE DEF Shape, AppShape, channelVars, ackVars, txVars, taskVars, brokerVars,
        appVars, boundVars, auditVars
<1>a. Ended
  BY EndedNext
<1>b. clearDeliveredList => /\ ~clearList'
                            /\ delivered' = IF clearList THEN <<>> ELSE delivered
  BY ClearedList
<1>c. ~Transacted
  BY DEF Transacted
<1>1. CASE Receive
  <2>1. /\ handed' = handed /\ app.pc # "after" /\ app'.pc # "after" /\ clearDeliveredList
    BY <1>1 DEF Receive, Call, IdleApp
  <2>2. delivered' = <<>>
    BY <1>b, <2>1 DEF AutoSettles
  <2> QED BY <1>a, <2>1, <2>2, AutoOutside
<1>2. CASE ClearList
  <2>1. /\ handed' = handed /\ app.pc # "after" /\ app'.pc # "after" /\ clearDeliveredList
    BY <1>2 DEF ClearList, Goto, IdleApp
  <2>2. delivered' = <<>>
    BY <1>b, <2>1 DEF AutoSettles
  <2> QED BY <1>a, <2>1, <2>2, AutoOutside
<1>3. CASE ReceiveNothing
  <2>1. /\ handed' = handed /\ app.pc # "after" /\ app'.pc # "after"
        /\ delivered' \in {delivered, <<>>}
    BY <1>c, <1>3 DEF ReceiveNothing, IdleApp
  <2>2. delivered' = <<>>
    BY <2>1 DEF AutoSettles
  <2> QED BY <1>a, <2>1, <2>2, AutoOutside
<1>4. ASSUME NEW expired \in BOOLEAN, Dequeue(expired)
      PROVE  AutoSettles'
  <2>1. /\ handed' = handed /\ app.pc # "after" /\ app'.pc # "after"
        /\ delivered' \in {delivered, <<>>}
    BY <1>c, <1>4 DEF Dequeue, IdleApp
  <2>2. delivered' = <<>>
    BY <2>1 DEF AutoSettles
  <2> QED BY <1>a, <2>1, <2>2, AutoOutside
<1>5. CASE DequeueExceeded
  <2>1. /\ handed' = handed /\ app.pc # "after" /\ app'.pc # "after"
        /\ delivered' \in {delivered, <<>>}
    BY <1>c, <1>5 DEF DequeueExceeded, LookAgain, IdleApp
  <2>2. delivered' = <<>>
    BY <2>1 DEF AutoSettles
  <2> QED BY <1>a, <2>1, <2>2, AutoOutside
<1>6. CASE beforeMessageIsConsumed
  <2>1. /\ app.pc = "before" /\ app'.pc = "after" /\ app'.msg = app.msg
        /\ app'.expired = app.expired
        /\ delivered' = <<app.msg>> \o delivered
        /\ handed' = IF app.expired THEN handed ELSE handed \cup {app.msg}
        /\ sent' = sent /\ clearList' = clearList
    BY <1>c, <1>6 DEF beforeMessageIsConsumed, Goto
  <2>2. app.msg \in sent /\ app.msg \in Messages /\ ~clearList
    BY <2>1 DEF Kept, Present, InPresent, Cleared, Counts
  <2>3. delivered' = <<app.msg>>
    BY <2>1, <2>2 DEF AutoSettles
  <2> QED BY <1>a, <2>1, <2>2, <2>3 DEF AutoSettles, Ended
<1>7. CASE ackLater
  <2>1. /\ handed' = handed /\ app.pc # "after" /\ app'.pc # "after"
        /\ delivered' \in {delivered, <<>>}
    BY <1>c, <1>7 DEF ackLater, IdleApp
  <2>2. delivered' = <<>>
    BY <2>1 DEF AutoSettles
  <2> QED BY <1>a, <2>1, <2>2, AutoOutside
<1>8. CASE ackLaterWrites
  <2>1. /\ handed' = handed /\ app.pc # "after" /\ app'.pc # "after"
        /\ delivered' \in {delivered, <<>>}
    BY <1>c, <1>8 DEF ackLaterWrites, IdleApp
  <2>2. delivered' = <<>>
    BY <2>1 DEF AutoSettles
  <2> QED BY <1>a, <2>1, <2>2, AutoOutside
<1>9. CASE ConsumedExpired
  <2>1. /\ app.pc = "after" /\ app.expired /\ app'.pc # "after" /\ handed' = handed
        /\ delivered' = RemoveFirst(delivered, app.msg)
    BY <1>9 DEF ConsumedExpired, LookAgain, IdleApp
  <2>2. delivered = <<app.msg>>
    BY <2>1 DEF AutoSettles
  <2>3. delivered' = <<>>
    BY <2>1, <2>2, RemoveOnly
  <2> QED BY <1>a, <2>1, <2>3 DEF AutoSettles, Ended
<1>10. CASE ConsumedAuto
  <2>1. /\ app.pc = "after" /\ ~app.expired /\ app'.pc # "after" /\ handed' = handed
        /\ delivered' = <<>>
        /\ delivered # <<>> => SendAck(makeAckForAllDeliveredMessages)
    BY <1>10 DEF ConsumedAuto, IdleApp
  <2>2. delivered = <<app.msg>> /\ app.msg \in sent /\ app.msg \in Messages
    BY <2>1 DEF AutoSettles, Counts
  <2> DEFINE ack == makeAckForAllDeliveredMessages
  <2>3. ack.type = "consumed" /\ ack.first = app.msg /\ ack.last = app.msg /\ delivered # <<>>
    BY <2>2 DEF makeAckForAllDeliveredMessages, Last
  <2>4. app.msg \in ack.first..ack.last
    BY <2>2, <2>3, ConstantsAssumption DEF Messages, ConstantsAssumption
  <2> HIDE DEF ack
  <2>5. SendAck(ack)
    BY <2>1, <2>3 DEF ack
  <2>6. final'[app.msg] # {}
    BY <2>2, <2>3, <2>4, <2>5, SendAckEnds
  <2> QED BY <1>a, <2>1, <2>6 DEF AutoSettles, Ended
<1>11. CASE ConsumedLater
  BY <1>c, <1>11 DEF ConsumedLater
<1>12. CASE Acknowledge
  <2>1. /\ handed' = handed /\ app.pc # "after" /\ app'.pc # "after" /\ clearDeliveredList
    BY <1>12 DEF Acknowledge, Call, IdleApp
  <2>2. delivered' = <<>>
    BY <1>b, <2>1 DEF AutoSettles
  <2> QED BY <1>a, <2>1, <2>2, AutoOutside
<1>13. CASE AcknowledgeNothing
  <2>1. /\ handed' = handed /\ app.pc # "after" /\ app'.pc # "after"
        /\ delivered' \in {delivered, <<>>}
    BY <1>c, <1>13 DEF AcknowledgeNothing, Acknowledged, IdleApp
  <2>2. delivered' = <<>>
    BY <2>1 DEF AutoSettles
  <2> QED BY <1>a, <2>1, <2>2, AutoOutside
<1>14. CASE AcknowledgeAll
  <2>1. /\ handed' = handed /\ app.pc # "after" /\ app'.pc # "after"
        /\ delivered' \in {delivered, <<>>}
    BY <1>c, <1>14 DEF AcknowledgeAll, Acknowledged, IdleApp
  <2>2. delivered' = <<>>
    BY <2>1 DEF AutoSettles
  <2> QED BY <1>a, <2>1, <2>2, AutoOutside
<1>15. CASE AcknowledgeThrows
  BY <1>c, <1>15 DEF AcknowledgeThrows
<1>16. ASSUME NEW m \in Messages, AcknowledgeOne(m)
      PROVE  AutoSettles'
  BY <1>c, <1>16 DEF AcknowledgeOne
<1>17. ASSUME NEW op \in {"commit", "rollback"}, EndTransaction(op)
      PROVE  AutoSettles'
  BY <1>c, <1>17 DEF EndTransaction
<1>18. CASE EndNothing
  BY <1>c, <1>18 DEF EndNothing
<1>19. CASE CommitRequest
  BY <1>c, <1>19 DEF CommitRequest
<1>20. CASE CommitRequestFails
  BY <1>c, <1>20 DEF CommitRequestFails
<1>21. CASE RollbackRequest
  BY <1>c, <1>21 DEF RollbackRequest
<1>22. CASE RollbackRequestFails
  BY <1>c, <1>22 DEF RollbackRequestFails
<1>23. ASSUME NEW sync \in {"tx", "close"}, RunSync(sync)
      PROVE  AutoSettles'
  BY <1>c, <1>23 DEF RunSync
<1>24. CASE SyncsDone
  BY <1>c, <1>24 DEF SyncsDone
<1>25. CASE commit
  BY <1>c, <1>25 DEF commit
<1>26. CASE Recover
  <2>1. /\ handed' = handed /\ app.pc # "after" /\ app'.pc # "after" /\ clearDeliveredList
    BY <1>26 DEF Recover, Call, IdleApp
  <2>2. delivered' = <<>>
    BY <1>b, <2>1 DEF AutoSettles
  <2> QED BY <1>a, <2>1, <2>2, AutoOutside
<1>27. CASE rollbackNothing
  <2>1. /\ handed' = handed /\ app.pc # "after" /\ app'.pc # "after"
        /\ delivered' \in {delivered, <<>>}
    BY <1>c, <1>27 DEF rollbackNothing, RolledBack, IdleApp
  <2>2. delivered' = <<>>
    BY <2>1 DEF AutoSettles
  <2> QED BY <1>a, <2>1, <2>2, AutoOutside
<1>28. CASE rollbackPoison
  <2>1. /\ handed' = handed /\ app.pc # "after" /\ app'.pc # "after"
        /\ delivered' \in {delivered, <<>>}
    BY <1>c, <1>28 DEF rollbackPoison, RolledBack, IdleApp
  <2>2. delivered' = <<>>
    BY <2>1 DEF AutoSettles
  <2> QED BY <1>a, <2>1, <2>2, AutoOutside
<1>29. ASSUME NEW delayed \in BOOLEAN, rollback(delayed)
      PROVE  AutoSettles'
  <2>1. /\ handed' = handed /\ app.pc # "after" /\ app'.pc # "after"
        /\ delivered' \in {delivered, <<>>}
    BY <1>c, <1>29 DEF rollback, RolledBack, IdleApp
  <2>2. delivered' = <<>>
    BY <2>1 DEF AutoSettles
  <2> QED BY <1>a, <2>1, <2>2, AutoOutside
<1>30. CASE CloseDeferred
  <2>1. delivered # <<>> /\ app.pc = "idle"
    BY <1>30 DEF CloseDeferred
  <2> QED BY <2>1 DEF AutoSettles
<1>31. CASE Close
  <2>1. /\ handed' = handed /\ app.pc # "after" /\ app'.pc # "after"
        /\ delivered' \in {delivered, <<>>}
    BY <1>c, <1>31 DEF Close, Call, deliverAcks, IdleApp
  <2>2. delivered' = <<>>
    BY <2>1 DEF AutoSettles
  <2> QED BY <1>a, <2>1, <2>2, AutoOutside
<1>32. CASE dispose
  <2>1. /\ handed' = handed /\ app.pc # "after" /\ app'.pc # "after"
        /\ delivered' \in {delivered, <<>>}
    BY <1>c, <1>32 DEF dispose, ExecutorTerminated, IdleApp
  <2>2. delivered' = <<>>
    BY <2>1 DEF AutoSettles
  <2> QED BY <1>a, <2>1, <2>2, AutoOutside
<1>33. ASSUME NEW m \in Messages, NEW count \in BrokerCounts, OnDispatch(m, count)
      PROVE  AutoSettles'
  <2>1. /\ handed' = handed /\ app' = app /\ delivered' = delivered
        /\ clearList' = clearList /\ sent \subseteq sent'
    BY <1>33 DEF OnDispatch
  <2> QED BY <1>a, <2>1, AutoAside
<1>34. CASE DispatchClearsProgress
  <2>1. /\ handed' = handed /\ app' = app /\ delivered' = delivered
        /\ clearList' = clearList /\ sent \subseteq sent'
    BY <1>34 DEF DispatchClearsProgress
  <2> QED BY <1>a, <2>1, AutoAside
<1>35. CASE DispatchClearsList
  <2>1. handed' = handed /\ app' = app /\ sent' = sent /\ clearDeliveredList
    BY <1>35 DEF DispatchClearsList
  <2>2. delivered' = delivered /\ ~clearList'
    BY <1>b, <2>1 DEF AutoSettles
  <2> QED BY <1>a, <2>1, <2>2, AutoAside
<1>36. CASE DispatchClosed
  <2>1. /\ handed' = handed /\ app' = app /\ delivered' = delivered
        /\ clearList' = clearList /\ sent \subseteq sent'
    BY <1>36 DEF DispatchClosed
  <2> QED BY <1>a, <2>1, AutoAside
<1>37. CASE DispatchFresh
  <2>1. /\ handed' = handed /\ app' = app /\ delivered' = delivered
        /\ clearList' = clearList /\ sent \subseteq sent'
    BY <1>37 DEF DispatchFresh
  <2> QED BY <1>a, <2>1, AutoAside
<1>38. CASE DispatchReplay
  <2>1. /\ handed' = handed /\ app' = app /\ delivered' = delivered
        /\ clearList' = clearList /\ sent \subseteq sent'
    BY <1>38 DEF DispatchReplay
  <2> QED BY <1>a, <2>1, AutoAside
<1>39. CASE DispatchDuplicate
  <2>1. /\ handed' = handed /\ app' = app /\ delivered' = delivered
        /\ clearList' = clearList /\ sent \subseteq sent'
    BY <1>39 DEF DispatchDuplicate
  <2> QED BY <1>a, <2>1, AutoAside
<1>40. CASE transportInterrupted
  <2>1. /\ handed' = handed /\ app' = app /\ delivered' = delivered /\ app.pc # "after"
    BY <1>40 DEF transportInterrupted
  <2> QED BY <1>a, <2>1, AutoOutside DEF AutoSettles
<1>41. CASE StartConsumer
  <2>1. /\ handed' = handed /\ app' = app /\ delivered' = delivered
        /\ clearList' = clearList /\ sent \subseteq sent'
    BY <1>41 DEF StartConsumer
  <2> QED BY <1>a, <2>1, AutoAside
<1>42. CASE ClearConsumer
  <2>1. /\ handed' = handed /\ app' = app /\ delivered' = delivered
        /\ clearList' = clearList /\ sent \subseteq sent'
    BY <1>42 DEF ClearConsumer
  <2> QED BY <1>a, <2>1, AutoAside
<1>43. CASE AckTaskRuns
  <2>1. /\ handed' = handed /\ app' = app /\ delivered' = delivered
        /\ clearList' = clearList /\ sent \subseteq sent'
    BY <1>43 DEF AckTaskRuns
  <2> QED BY <1>a, <2>1, AutoAside
<1> QED
  BY <1>1, <1>2, <1>3, <1>4, <1>5, <1>6, <1>7, <1>8, <1>9, <1>10, <1>11, <1>12, <1>13, <1>14,
     <1>15, <1>16, <1>17, <1>18, <1>19, <1>20, <1>21, <1>22, <1>23, <1>24, <1>25, <1>26, <1>27,
     <1>28, <1>29, <1>30, <1>31, <1>32, <1>33, <1>34, <1>35, <1>36, <1>37, <1>38, <1>39, <1>40,
     <1>41, <1>42, <1>43
  DEF Next, Application, Transport, Tasks

(* Steps that leave the acks alone and are not inside receive. *)
LEMMA BatchOutside ==
    ASSUME BatchSettles, Ended, Counts, handed' = handed, sent' = sent, delivered' = <<>>,
           LeftOf(unconsumed', unconsumed),
           UNCHANGED <<pendingAck, ackTask>>,
           closed' => closed, ackTask # NoAck => app'.pc = "settle",
           app'.pc = "settle" => app.pc = "settle" \/ closed,
           disp' = disp \/ disp'.pc = "idle",
           ~InProcess \/ app.expired, app'.pc \notin {"before", "after", "later", "write"}
    PROVE  BatchSettles'
<1>1. \A j \in 1..Len(unconsumed') : \E k \in 1..Len(unconsumed) : unconsumed'[j] = unconsumed[k]
  BY DEF LeftOf
<1>2. ~InProcess'
  BY DEF InProcess
<1>3. RangeBefore(pendingAck)'
  BY <1>1, <1>2 DEF BatchSettles, BatchAck, RangeBefore
<1>4. BatchAck'
  BY <1>2, <1>3 DEF BatchSettles, BatchAck
<1>5. \A m \in handed : final'[m] # {} \/ InRange(m, pendingAck) \/ InRange(m, ackTask)
  <2> SUFFICES ASSUME NEW m \in handed
               PROVE  final'[m] # {} \/ InRange(m, pendingAck) \/ InRange(m, ackTask)
    OBVIOUS
  <2>1. m \in Messages
    BY DEF BatchSettles, Counts
  <2>2. final[m] # {} \/ InRange(m, pendingAck) \/ InRange(m, ackTask)
    BY DEF BatchSettles
  <2> QED BY <2>1, <2>2 DEF Ended
<1> QED BY <1>2, <1>4, <1>5 DEF BatchSettles, InRange

(* Steps of the other threads. *)
LEMMA BatchAside ==
    ASSUME BatchSettles, Ended, Counts, UNCHANGED <<handed, app, delivered, pendingAck,
                                                    ackTask, closed, sent>>,
           disp' = disp \/ disp'.pc = "idle"
                        \/ (disp.pc # "idle" /\ disp'.pc # "idle" /\ disp'.msg = disp.msg),
           \A j \in 1..Len(unconsumed') : \/ \E k \in 1..Len(unconsumed) : unconsumed'[j] = unconsumed[k]
                                          \/ disp.pc # "idle" /\ unconsumed'[j] = disp.msg
    PROVE  BatchSettles'
<1>1. InProcess' = InProcess
  BY DEF InProcess
<1>2. RangeBefore(pendingAck)'
  BY <1>1 DEF BatchSettles, BatchAck, RangeBefore
<1>3. InProcess => \A j \in 1..Len(unconsumed') : app.msg < unconsumed'[j]
  BY DEF BatchSettles, BatchAck, InPresent
<1>4. InProcess => InPresent(app.msg)'
  BY DEF BatchSettles, BatchAck, InPresent
<1>5. BatchAck'
  BY <1>1, <1>2, <1>3, <1>4 DEF BatchSettles, BatchAck
<1>6. handed \subseteq Messages
  BY DEF BatchSettles, Counts
<1> QED BY <1>1, <1>5, <1>6 DEF BatchSettles, InRange, Ended

(* In batch mode every message that was had is ended, in the range of an ack or in process. *)
LEMMA BatchNext ==
    ASSUME Shape, Counts, FirstConnection, Ordered, Kept, mode = "batch", interruptions = 0, BatchSettles,
           final \in [Messages -> SUBSET Whys], Next, interruptions' = 0
    PROVE  BatchSettles'
<1> USE DEF Shape, AppShape, channelVars, ackVars, txVars, taskVars, brokerVars,
        appVars, boundVars, auditVars
<1>a. Ended
  BY EndedNext
<1>b. clearDeliveredList => /\ ~clearList' /\ delivered' = delivered
                            /\ pendingAck' = pendingAck
  BY DEF clearDeliveredList, FirstConnection
<1>c. ~Transacted /\ delivered = <<>> /\ Returned = <<>>
  BY ReturnedAll DEF Transacted, BatchSettles, Kept, Line
<1>d. /\ LeftOf(unconsumed, unconsumed) /\ LeftOf(<<>>, unconsumed)
  BY AllLeft, NothingLeft DEF Kept, Line
<1>e. ackTask # NoAck => app.pc = "settle"
  BY DEF BatchSettles, BatchAck
<1>f. Messages \subseteq Int
  BY ConstantsAssumption DEF Messages, ConstantsAssumption
<1>1. CASE Receive
  <2>1. /\ UNCHANGED <<handed, sent, unconsumed, ackTask, closed, disp>>
        /\ app.pc # "settle" /\ app'.pc \notin {"settle", "before", "after", "later", "write"}
        /\ ~InProcess /\ delivered' = <<>> /\ pendingAck' = pendingAck
    BY <1>b, <1>c, <1>1 DEF Receive, Call, IdleApp, InProcess
  <2> QED BY <1>a, <1>d, <1>e, <2>1, BatchOutside
<1>2. CASE ClearList
  <2>1. /\ UNCHANGED <<handed, sent, unconsumed, ackTask, closed, disp>>
        /\ app.pc # "settle" /\ app'.pc \notin {"settle", "before", "after", "later", "write"}
        /\ ~InProcess /\ delivered' = <<>> /\ pendingAck' = pendingAck
    BY <1>b, <1>c, <1>2 DEF ClearList, Goto, IdleApp, InProcess
  <2> QED BY <1>a, <1>d, <1>e, <2>1, BatchOutside
<1>3. CASE ReceiveNothing
  <2>1. /\ UNCHANGED <<handed, sent, unconsumed, ackTask, closed, disp>>
        /\ app.pc # "settle" /\ app'.pc \notin {"settle", "before", "after", "later", "write"}
        /\ ~InProcess /\ delivered' = <<>> /\ pendingAck' = pendingAck
    BY <1>b, <1>c, <1>3 DEF ReceiveNothing, IdleApp, InProcess
  <2> QED BY <1>a, <1>d, <1>e, <2>1, BatchOutside
<1>4. ASSUME NEW expired \in BOOLEAN, Dequeue(expired)
      PROVE  BatchSettles'
  <2>1. /\ app.pc = "wait" /\ app'.pc = "before" /\ app'.msg = Head(unconsumed)
        /\ unconsumed' = Tail(unconsumed) /\ unconsumed # <<>>
        /\ UNCHANGED <<handed, sent, pendingAck, ackTask, closed, disp, delivered>>
    BY <1>4 DEF Dequeue
  <2>2. /\ LeftOf(unconsumed', unconsumed)
        /\ Head(unconsumed) = unconsumed[1] /\ 1 \in 1..Len(unconsumed)
    BY <2>1, TailLeft DEF Kept, Line
  <2>3. \A j \in 1..Len(unconsumed') : \E k \in 1..Len(unconsumed) : unconsumed'[j] = unconsumed[k]
    BY <2>2 DEF LeftOf
  <2>4. ~InProcess /\ ~InProcess'
    BY <2>1 DEF InProcess
  <2>5. RangeBefore(pendingAck)'
    BY <2>1, <2>2, <2>3, <2>4 DEF BatchSettles, BatchAck, RangeBefore
  <2>6. BatchAck'
    BY <2>1, <2>4, <2>5 DEF BatchSettles, BatchAck
  <2>7. handed \subseteq Messages
    BY DEF BatchSettles, Counts
  <2> QED BY <1>a, <2>1, <2>4, <2>6, <2>7 DEF BatchSettles, InRange, Ended
<1>5. CASE DequeueExceeded
  BY <1>c, <1>5 DEF DequeueExceeded
<1>6. CASE beforeMessageIsConsumed
  <2>1. /\ app.pc = "before" /\ app'.pc = "after" /\ app'.msg = app.msg
        /\ app'.expired = app.expired
        /\ handed' = IF app.expired THEN handed ELSE handed \cup {app.msg}
        /\ UNCHANGED <<unconsumed, sent, pendingAck, ackTask, closed, disp, delivered>>
    BY <1>c, <1>6 DEF beforeMessageIsConsumed, Goto
  <2>2. /\ InPresent(app.msg) /\ app.msg \in sent
        /\ \A j \in 1..Len(unconsumed) : app.msg < unconsumed[j]
    BY <2>1 DEF Kept, Present, InPresent, Line
  <2>3. ~InProcess /\ InProcess'
    BY <2>1 DEF InProcess
  <2>4. RangeBefore(pendingAck)'
    BY <2>1, <2>3 DEF BatchSettles, BatchAck, RangeBefore
  <2>5. BatchAck'
    BY <2>1, <2>2, <2>3, <2>4 DEF BatchSettles, BatchAck, InPresent
  <2>6. handed \subseteq Messages
    BY DEF BatchSettles, Counts
  <2> QED BY <1>a, <2>1, <2>2, <2>3, <2>5, <2>6 DEF BatchSettles, InRange, Ended
<1>7. CASE ackLater
  <2>1. /\ app.pc = "later" /\ app'.pc = "write" /\ app'.old = pendingAck
        /\ app'.msg = app.msg /\ app'.expired = app.expired
        /\ UNCHANGED <<handed, unconsumed, sent, pendingAck, ackTask, closed, disp, delivered>>
    BY <1>c, <1>7 DEF ackLater
  <2>2. InProcess /\ InProcess'
    BY <2>1 DEF InProcess
  <2>3. RangeBefore(pendingAck)'
    BY <2>1, <2>2 DEF BatchSettles, BatchAck, RangeBefore
  <2>4. BatchAck'
    BY <2>1, <2>2, <2>3 DEF BatchSettles, BatchAck, InPresent
  <2>5. handed \subseteq Messages
    BY DEF BatchSettles, Counts
  <2> QED BY <1>a, <2>1, <2>2, <2>4, <2>5 DEF BatchSettles, InRange, Ended
<1>8. CASE ackLaterWrites
  <2> DEFINE first == IF app.old = NoAck THEN app.msg ELSE app.old.first
             ack == [type |-> "consumed", first |-> first, last |-> app.msg,
                     count |-> deliveredCounter]
  <2>1. /\ app.pc = "write" /\ app'.pc = "idle" /\ app.old = pendingAck
        /\ UNCHANGED <<handed, unconsumed, sent, ackTask, closed, disp, delivered>>
        /\ (pendingAck' = ack \/ (pendingAck' = NoAck /\ SendAck(ack)))
    BY <1>c, <1>8 DEF ackLaterWrites, IdleApp, BatchSettles, BatchAck
  <2>2. /\ InProcess /\ ~InProcess' /\ InPresent(app.msg) /\ ackTask = NoAck /\ ~closed
        /\ \A j \in 1..Len(unconsumed) : app.msg < unconsumed[j]
    BY <1>e, <2>1 DEF InProcess, BatchSettles, BatchAck, Receiving
  <2>3. app.msg \in sent /\ app.msg \in Int /\ (disp.pc # "idle" => app.msg < disp.msg)
    BY <1>f, <2>2 DEF InPresent, Counts
  <2>4. first \in Int /\ first <= app.msg
    <3>1. CASE pendingAck = NoAck
      BY <2>1, <2>3, <3>1
    <3>2. CASE pendingAck # NoAck
      <4>1. /\ pendingAck.first \in Int /\ pendingAck.last \in Int
            /\ pendingAck.first <= pendingAck.last /\ pendingAck.last < app.msg
        BY <1>f, <2>2, <3>2 DEF BatchSettles, BatchAck, RangeBefore, Counts
      <4> QED BY <2>1, <2>3, <3>2, <4>1
    <3> QED BY <3>1, <3>2
  <2>5. \A m \in handed : final[m] # {} \/ InRange(m, ack)
    <3> SUFFICES ASSUME NEW m \in handed, final[m] = {} PROVE InRange(m, ack)
      OBVIOUS
    <3>1. ~InRange(m, ackTask)
      BY <2>2 DEF InRange, NoAck
    <3>2. CASE m = app.msg
      BY <2>3, <2>4, <3>2 DEF InRange
    <3>3. CASE InRange(m, pendingAck)
      <4>1. pendingAck # NoAck
        BY <3>3 DEF InRange, NoAck
      <4>2. /\ pendingAck.first \in Int /\ pendingAck.last \in Int /\ pendingAck.last < app.msg
        BY <1>f, <2>2, <4>1 DEF BatchSettles, BatchAck, RangeBefore, Counts
      <4>3. first = pendingAck.first
        BY <2>1, <4>1
      <4>4. m \in pendingAck.first..pendingAck.last
        BY <3>3 DEF InRange
      <4>5. m \in first..app.msg
        BY <2>3, <4>2, <4>3, <4>4
      <4> QED BY <4>5 DEF InRange
    <3> QED BY <3>1, <3>2, <3>3 DEF BatchSettles
  <2>6. ack.type = "consumed" /\ ack.first = first /\ ack.last = app.msg
    OBVIOUS
  <2>7. handed \subseteq Messages /\ handed \subseteq sent
    BY DEF BatchSettles, Counts
  <2> HIDE DEF ack, first
  <2>8. CASE pendingAck' = ack
    <3>1. RangeBefore(pendingAck)'
      BY <2>1, <2>2, <2>3, <2>4, <2>6, <2>8 DEF RangeBefore
    <3>2. BatchAck'
      BY <2>1, <2>2, <3>1 DEF BatchAck
    <3>3. \A m \in handed : final'[m] # {} \/ InRange(m, pendingAck')
      BY <1>a, <2>5, <2>7, <2>8 DEF Ended
    <3> QED BY <1>c, <2>1, <2>2, <2>7, <3>2, <3>3 DEF BatchSettles, InRange
  <2>9. CASE pendingAck' = NoAck /\ SendAck(ack)
    <3>1. BatchAck'
      BY <2>1, <2>2, <2>9 DEF BatchAck, RangeBefore
    <3>2. \A m \in handed : InRange(m, ack) => final'[m] # {}
      BY <2>7, <2>9, SendAckEnds DEF InRange
    <3>3. \A m \in handed : final'[m] # {}
      BY <1>a, <2>5, <2>7, <3>2 DEF Ended
    <3> QED BY <1>c, <2>1, <2>2, <2>7, <3>1, <3>3 DEF BatchSettles
  <2> QED BY <2>1, <2>8, <2>9
<1>9. CASE ConsumedExpired
  <2>1. /\ UNCHANGED <<handed, sent, unconsumed, ackTask, closed, disp>>
        /\ app.pc # "settle" /\ app'.pc \notin {"settle", "before", "after", "later", "write"}
        /\ app.expired /\ pendingAck' = pendingAck /\ delivered' = RemoveFirst(delivered, app.msg)
    BY <1>9 DEF ConsumedExpired, LookAgain, IdleApp
  <2>2. delivered' = <<>>
    BY <1>c, <2>1 DEF RemoveFirst
  <2> QED BY <1>a, <1>d, <1>e, <2>1, <2>2, BatchOutside
<1>10. CASE ConsumedAuto
  BY <1>c, <1>10 DEF ConsumedAuto
<1>11. CASE ConsumedLater
  <2>1. /\ app.pc = "after" /\ app'.pc = "later" /\ ~app.expired
        /\ app'.msg = app.msg /\ app'.expired = app.expired
        /\ UNCHANGED <<handed, unconsumed, sent, pendingAck, ackTask, closed, disp, delivered>>
    BY <1>c, <1>11 DEF ConsumedLater
  <2>2. InProcess /\ InProcess'
    BY <2>1 DEF InProcess
  <2>3. RangeBefore(pendingAck)'
    BY <2>1, <2>2 DEF BatchSettles, BatchAck, RangeBefore
  <2>4. BatchAck'
    BY <2>1, <2>2, <2>3 DEF BatchSettles, BatchAck, InPresent
  <2>5. handed \subseteq Messages
    BY DEF BatchSettles, Counts
  <2> QED BY <1>a, <2>1, <2>2, <2>4, <2>5 DEF BatchSettles, InRange, Ended
<1>12. CASE Acknowledge
  <2>1. /\ UNCHANGED <<handed, sent, unconsumed, ackTask, closed, disp>>
        /\ app.pc # "settle" /\ app'.pc \notin {"settle", "before", "after", "later", "write"}
        /\ ~InProcess /\ delivered' = <<>> /\ pendingAck' = pendingAck
    BY <1>b, <1>c, <1>12 DEF Acknowledge, Call, IdleApp, InProcess
  <2> QED BY <1>a, <1>d, <1>e, <2>1, BatchOutside
<1>13. CASE AcknowledgeNothing
  <2>1. /\ UNCHANGED <<handed, sent, unconsumed, ackTask, closed, disp>>
        /\ app.pc # "settle" /\ app'.pc \notin {"settle", "before", "after", "later", "write"}
        /\ ~InProcess /\ delivered' = <<>> /\ pendingAck' = pendingAck
    BY <1>b, <1>c, <1>13 DEF AcknowledgeNothing, Acknowledged, IdleApp, InProcess
  <2> QED BY <1>a, <1>d, <1>e, <2>1, BatchOutside
<1>14. CASE AcknowledgeAll
  BY <1>c, <1>14 DEF AcknowledgeAll
<1>15. CASE AcknowledgeThrows
  BY <1>c, <1>15 DEF AcknowledgeThrows
<1>16. ASSUME NEW m \in Messages, AcknowledgeOne(m)
      PROVE  BatchSettles'
  BY <1>c, <1>16 DEF AcknowledgeOne
<1>17. ASSUME NEW op \in {"commit", "rollback"}, EndTransaction(op)
      PROVE  BatchSettles'
  BY <1>c, <1>17 DEF EndTransaction
<1>18. CASE EndNothing
  BY <1>c, <1>18 DEF EndNothing
<1>19. CASE CommitRequest
  BY <1>c, <1>19 DEF CommitRequest
<1>20. CASE CommitRequestFails
  BY <1>c, <1>20 DEF CommitRequestFails
<1>21. CASE RollbackRequest
  BY <1>c, <1>21 DEF RollbackRequest
<1>22. CASE RollbackRequestFails
  BY <1>c, <1>22 DEF RollbackRequestFails
<1>23. ASSUME NEW sync \in {"tx", "close"}, RunSync(sync)
      PROVE  BatchSettles'
  BY <1>c, <1>23 DEF RunSync
<1>24. CASE SyncsDone
  BY <1>c, <1>24 DEF SyncsDone
<1>25. CASE commit
  BY <1>c, <1>25 DEF commit
<1>26. CASE Recover
  <2>1. /\ UNCHANGED <<handed, sent, unconsumed, ackTask, closed, disp>>
        /\ app.pc # "settle" /\ app'.pc \notin {"settle", "before", "after", "later", "write"}
        /\ ~InProcess /\ delivered' = <<>> /\ pendingAck' = pendingAck
    BY <1>b, <1>c, <1>26 DEF Recover, Call, IdleApp, InProcess
  <2> QED BY <1>a, <1>d, <1>e, <2>1, BatchOutside
<1>27. CASE rollbackNothing
  <2>1. /\ UNCHANGED <<handed, sent, unconsumed, ackTask, closed, disp>>
        /\ app.pc # "settle" /\ app'.pc \notin {"settle", "before", "after", "later", "write"}
        /\ ~InProcess /\ delivered' = <<>> /\ pendingAck' = pendingAck
    BY <1>b, <1>c, <1>27 DEF rollbackNothing, RolledBack, IdleApp, InProcess
  <2> QED BY <1>a, <1>d, <1>e, <2>1, BatchOutside
<1>28. CASE rollbackPoison
  BY <1>c, <1>28 DEF rollbackPoison
<1>29. ASSUME NEW delayed \in BOOLEAN, rollback(delayed)
      PROVE  BatchSettles'
  BY <1>c, <1>29 DEF rollback
<1>30. CASE CloseDeferred
  BY <1>c, <1>30 DEF CloseDeferred
<1>31. CASE Close
  <2>1. /\ app.pc = "idle" /\ app'.pc = "settle" /\ ~closed
        /\ UNCHANGED <<handed, unconsumed, sent, closed, disp>> /\ deliverAcks
    BY <1>31 DEF Close, Call, IdleApp
  <2>2. ackTask = NoAck /\ ~InProcess /\ ~InProcess'
    BY <1>e, <2>1 DEF InProcess
  <2>3. handed \subseteq Messages
    BY DEF BatchSettles, Counts
  <2>4. CASE pendingAck.type = "consumed"
    <3>1. ackTask' = pendingAck /\ pendingAck' = NoAck /\ delivered' = delivered
      BY <1>c, <2>1, <2>4 DEF deliverAcks
    <3>2. BatchAck'
      BY <2>1, <2>2, <2>4, <3>1 DEF BatchAck, RangeBefore
    <3>3. \A m \in handed : final'[m] # {} \/ InRange(m, ackTask')
      BY <1>a, <2>2, <2>3, <3>1 DEF BatchSettles, InRange, NoAck, Ended
    <3> QED BY <1>c, <2>1, <2>2, <3>1, <3>2, <3>3 DEF BatchSettles, InRange
  <2>5. CASE pendingAck.type # "consumed"
    <3>1. pendingAck = NoAck
      BY <2>5 DEF BatchSettles, BatchAck, RangeBefore
    <3>2. UNCHANGED <<ackTask, pendingAck, delivered>>
      BY <1>c, <2>1, <2>5 DEF deliverAcks
    <3>3. BatchAck'
      BY <2>1, <2>2, <3>1, <3>2 DEF BatchAck, RangeBefore
    <3>4. \A m \in handed : final'[m] # {}
      BY <1>a, <2>2, <2>3, <3>1 DEF BatchSettles, InRange, NoAck, Ended
    <3> QED BY <1>c, <2>1, <2>2, <3>2, <3>3, <3>4 DEF BatchSettles
  <2> QED BY <2>4, <2>5
<1>32. CASE dispose
  <2>1. /\ app.pc = "settle" /\ ackTask = NoAck
        /\ app'.pc \notin {"before", "after", "later", "write", "settle"}
        /\ UNCHANGED <<handed, sent, disp, pendingAck, ackTask>>
        /\ delivered' \in {delivered, <<>>}
        /\ unconsumed' \in {unconsumed, <<>>}
    BY <1>32 DEF dispose, ExecutorTerminated, IdleApp
  <2>2. pendingAck = NoAck /\ ~InProcess /\ ~InProcess'
    BY <2>1 DEF BatchSettles, BatchAck, InProcess
  <2>3. handed \subseteq Messages
    BY DEF BatchSettles, Counts
  <2>4. BatchAck'
    BY <2>1, <2>2 DEF BatchAck, RangeBefore
  <2>5. \A m \in handed : final'[m] # {}
    BY <1>a, <2>1, <2>2, <2>3 DEF BatchSettles, InRange, NoAck, Ended
  <2> QED BY <1>c, <2>1, <2>2, <2>4, <2>5 DEF BatchSettles
<1>33. ASSUME NEW m \in Messages, NEW count \in BrokerCounts, OnDispatch(m, count)
      PROVE  BatchSettles'
  <2>1. /\ disp.pc = "idle" /\ disp'.pc = "progress" /\ disp'.msg = m /\ sent' = sent \cup {m}
        /\ \A s \in sent : s < m
        /\ UNCHANGED <<handed, app, delivered, unconsumed, pendingAck, ackTask, closed>>
    BY <1>33 DEF OnDispatch
  <2>2. InProcess' = InProcess
    BY <2>1 DEF InProcess
  <2>3. RangeBefore(pendingAck)'
    BY <2>1, <2>2 DEF BatchSettles, BatchAck, RangeBefore
  <2>4. InProcess => InPresent(app.msg)'
    BY <2>1 DEF BatchSettles, BatchAck, InPresent
  <2>5. BatchAck'
    BY <2>1, <2>2, <2>3, <2>4 DEF BatchSettles, BatchAck
  <2>6. handed \subseteq Messages
    BY DEF BatchSettles, Counts
  <2> QED BY <1>a, <2>1, <2>2, <2>5, <2>6 DEF BatchSettles, InRange, Ended
<1>34. CASE DispatchClearsProgress
  <2>1. /\ UNCHANGED <<handed, app, delivered, pendingAck, ackTask, closed, sent>>
        /\ disp' = disp \/ disp'.pc = "idle"
                        \/ (disp.pc # "idle" /\ disp'.pc # "idle" /\ disp'.msg = disp.msg)
    BY <1>b, <1>34 DEF DispatchClearsProgress, DispShape, clearMessagesInProgress
  <2>2. unconsumed' = unconsumed
    BY <1>34 DEF DispatchClearsProgress, DispShape, clearMessagesInProgress, FirstConnection, Counts
  <2>3. \A j \in 1..Len(unconsumed') : \/ \E k \in 1..Len(unconsumed) : unconsumed'[j] = unconsumed[k]
                                       \/ disp.pc # "idle" /\ unconsumed'[j] = disp.msg
    BY <2>2
  <2> QED BY <1>a, <2>1, <2>3, BatchAside
<1>35. CASE DispatchClearsList
  <2>1. /\ UNCHANGED <<handed, app, delivered, pendingAck, ackTask, closed, sent>>
        /\ disp' = disp \/ disp'.pc = "idle"
                        \/ (disp.pc # "idle" /\ disp'.pc # "idle" /\ disp'.msg = disp.msg)
    BY <1>b, <1>35 DEF DispatchClearsList, DispShape
  <2>2. unconsumed' = unconsumed
    BY <1>35 DEF DispatchClearsList, DispShape, FirstConnection, Counts
  <2>3. \A j \in 1..Len(unconsumed') : \/ \E k \in 1..Len(unconsumed) : unconsumed'[j] = unconsumed[k]
                                       \/ disp.pc # "idle" /\ unconsumed'[j] = disp.msg
    BY <2>2
  <2> QED BY <1>a, <2>1, <2>3, BatchAside
<1>36. CASE DispatchClosed
  <2>1. /\ UNCHANGED <<handed, app, delivered, pendingAck, ackTask, closed, sent>>
        /\ disp' = disp \/ disp'.pc = "idle"
                        \/ (disp.pc # "idle" /\ disp'.pc # "idle" /\ disp'.msg = disp.msg)
    BY <1>b, <1>36 DEF DispatchClosed, IdleDisp
  <2>2. unconsumed' = unconsumed
    BY <1>36 DEF DispatchClosed, IdleDisp, FirstConnection, Counts
  <2>3. \A j \in 1..Len(unconsumed') : \/ \E k \in 1..Len(unconsumed) : unconsumed'[j] = unconsumed[k]
                                       \/ disp.pc # "idle" /\ unconsumed'[j] = disp.msg
    BY <2>2
  <2> QED BY <1>a, <2>1, <2>3, BatchAside
<1>37. CASE DispatchFresh
  <2>1. /\ UNCHANGED <<handed, app, delivered, pendingAck, ackTask, closed, sent>>
        /\ disp' = disp \/ disp'.pc = "idle"
                        \/ (disp.pc # "idle" /\ disp'.pc # "idle" /\ disp'.msg = disp.msg)
    BY <1>b, <1>37 DEF DispatchFresh, IdleDisp
  <2>2. unconsumed' = Append(unconsumed, disp.msg) /\ unconsumed \in Seq(Messages)
        /\ disp.msg \in Messages /\ disp.pc = "put"
    BY <1>37 DEF DispatchFresh, Kept, Line, Present, Counts
  <2>3. \A j \in 1..Len(unconsumed') : \/ \E k \in 1..Len(unconsumed) : unconsumed'[j] = unconsumed[k]
                                       \/ disp.pc # "idle" /\ unconsumed'[j] = disp.msg
    BY <2>2, AppendRising, FreshOrder, <1>37 DEF Kept, Line, Present, InPresent, Cleared
  <2> QED BY <1>a, <2>1, <2>3, BatchAside
<1>38. CASE DispatchReplay
  <2>1. /\ UNCHANGED <<handed, app, delivered, pendingAck, ackTask, closed, sent>>
        /\ disp' = disp \/ disp'.pc = "idle"
                        \/ (disp.pc # "idle" /\ disp'.pc # "idle" /\ disp'.msg = disp.msg)
    BY <1>b, <1>38 DEF DispatchReplay, IdleDisp
  <2>2. unconsumed' = unconsumed
    BY <1>38 DEF DispatchReplay, IdleDisp, FirstConnection, Counts
  <2>3. \A j \in 1..Len(unconsumed') : \/ \E k \in 1..Len(unconsumed) : unconsumed'[j] = unconsumed[k]
                                       \/ disp.pc # "idle" /\ unconsumed'[j] = disp.msg
    BY <2>2
  <2> QED BY <1>a, <2>1, <2>3, BatchAside
<1>39. CASE DispatchDuplicate
  <2>1. /\ UNCHANGED <<handed, app, delivered, pendingAck, ackTask, closed, sent>>
        /\ disp' = disp \/ disp'.pc = "idle"
                        \/ (disp.pc # "idle" /\ disp'.pc # "idle" /\ disp'.msg = disp.msg)
    BY <1>b, <1>39 DEF DispatchDuplicate, IdleDisp
  <2>2. unconsumed' = unconsumed
    BY <1>39 DEF DispatchDuplicate, IdleDisp, FirstConnection, Counts
  <2>3. \A j \in 1..Len(unconsumed') : \/ \E k \in 1..Len(unconsumed) : unconsumed'[j] = unconsumed[k]
                                       \/ disp.pc # "idle" /\ unconsumed'[j] = disp.msg
    BY <2>2
  <2> QED BY <1>a, <2>1, <2>3, BatchAside
<1>40. CASE transportInterrupted
  BY <1>40 DEF transportInterrupted, Counts
<1>41. CASE StartConsumer
  <2>1. /\ UNCHANGED <<handed, app, delivered, pendingAck, ackTask, closed, sent>>
        /\ disp' = disp \/ disp'.pc = "idle"
                        \/ (disp.pc # "idle" /\ disp'.pc # "idle" /\ disp'.msg = disp.msg)
    BY <1>b, <1>41 DEF StartConsumer
  <2>2. unconsumed' = unconsumed
    BY <1>41 DEF StartConsumer, FirstConnection, Counts
  <2>3. \A j \in 1..Len(unconsumed') : \/ \E k \in 1..Len(unconsumed) : unconsumed'[j] = unconsumed[k]
                                       \/ disp.pc # "idle" /\ unconsumed'[j] = disp.msg
    BY <2>2
  <2> QED BY <1>a, <2>1, <2>3, BatchAside
<1>42. CASE ClearConsumer
  <2>1. /\ UNCHANGED <<handed, app, delivered, pendingAck, ackTask, closed, sent>>
        /\ disp' = disp \/ disp'.pc = "idle"
                        \/ (disp.pc # "idle" /\ disp'.pc # "idle" /\ disp'.msg = disp.msg)
    BY <1>b, <1>42 DEF ClearConsumer, clearMessagesInProgress
  <2>2. unconsumed' = unconsumed
    BY <1>42 DEF ClearConsumer, clearMessagesInProgress, FirstConnection, Counts
  <2>3. \A j \in 1..Len(unconsumed') : \/ \E k \in 1..Len(unconsumed) : unconsumed'[j] = unconsumed[k]
                                       \/ disp.pc # "idle" /\ unconsumed'[j] = disp.msg
    BY <2>2
  <2> QED BY <1>a, <2>1, <2>3, BatchAside
<1>43. CASE AckTaskRuns
  <2>1. /\ ackTask # NoAck /\ SendAck(ackTask) /\ ackTask' = NoAck
        /\ UNCHANGED <<handed, app, delivered, unconsumed, pendingAck, closed, sent, disp>>
    BY <1>43 DEF AckTaskRuns
  <2>2. app.pc = "settle" /\ ~InProcess /\ ~InProcess' /\ pendingAck = NoAck
    BY <1>e, <2>1 DEF InProcess, BatchSettles, BatchAck
  <2>3. handed \subseteq Messages /\ handed \subseteq sent
    BY DEF BatchSettles, Counts
  <2>4. \A m \in handed : InRange(m, ackTask) => final'[m] # {}
    BY <2>1, <2>3, SendAckEnds DEF InRange
  <2>5. BatchAck'
    BY <2>1, <2>2 DEF BatchAck, RangeBefore
  <2>6. \A m \in handed : final'[m] # {}
    BY <1>a, <2>2, <2>3, <2>4 DEF BatchSettles, InRange, NoAck, Ended
  <2> QED BY <1>c, <2>1, <2>2, <2>3, <2>5, <2>6 DEF BatchSettles
<1> QED
  BY <1>1, <1>2, <1>3, <1>4, <1>5, <1>6, <1>7, <1>8, <1>9, <1>10, <1>11, <1>12, <1>13, <1>14,
     <1>15, <1>16, <1>17, <1>18, <1>19, <1>20, <1>21, <1>22, <1>23, <1>24, <1>25, <1>26, <1>27,
     <1>28, <1>29, <1>30, <1>31, <1>32, <1>33, <1>34, <1>35, <1>36, <1>37, <1>38, <1>39, <1>40,
     <1>41, <1>42, <1>43
  DEF Next, Application, Transport, Tasks

(* All of it together, with what becomes of the messages that were had. *)
LEMMA SettleInit == Init => SettleInv
<1> SUFFICES ASSUME Init PROVE SettleInv
  OBVIOUS
<1>1. final \in [Messages -> SUBSET Whys]
  BY DEF Init
<1>2. /\ app.pc = "idle" /\ delivered = <<>> /\ handed = {} /\ pendingAck = NoAck
      /\ ackTask = NoAck /\ disp.pc = "idle" /\ closed = FALSE
  BY DEF Init, IdleApp, IdleDisp
<1>3. AutoSettles
  BY <1>2 DEF AutoSettles
<1>4. BatchSettles
  BY <1>2 DEF BatchSettles, BatchAck, RangeBefore, InProcess
<1> QED BY <1>1, <1>3, <1>4 DEF SettleInv

(* Every step keeps it. *)
LEMMA SettleNext == IInv /\ SettleInv /\ [Next]_vars => SettleInv'
<1> SUFFICES ASSUME IInv, SettleInv, [Next]_vars PROVE SettleInv'
  OBVIOUS
<1>1. final' \in [Messages -> SUBSET Whys]
  BY EndedNext DEF SettleInv, Ended
<1>2. Onward
  BY CountsNext DEF IInv
<1>3. CASE UNCHANGED vars
  BY <1>3 DEF SettleInv, AutoSettles, BatchSettles, BatchAck, RangeBefore, InProcess, InPresent,
     InRange, vars,
              channelVars, ackVars, brokerVars, appVars, boundVars, taskVars
<1>4. CASE Next
  <2>1. ASSUME mode' = "auto", ~mixed' PROVE AutoSettles'
    <3>1. mode = "auto" /\ ~mixed
      BY <1>2, <2>1 DEF Onward
    <3>2. Ordered
      BY <3>1 DEF Ordered, Transacted
    <3> QED BY <1>4, <2>1, <3>1, <3>2, AutoNext DEF IInv, OrderInv, Kept, SettleInv
  <2>2. ASSUME mode' = "batch", interruptions' = 0 PROVE BatchSettles'
    <3>1. mode = "batch" /\ interruptions = 0
      BY <1>2, <2>2 DEF Onward, IInv, Counts
    <3>2. Ordered
      BY <3>1 DEF Ordered
    <3> QED BY <1>4, <2>2, <3>1, <3>2, BatchNext DEF IInv, OrderInv, Kept, SettleInv
  <2> QED BY <1>1, <2>1, <2>2 DEF SettleInv
<1> QED BY <1>3, <1>4

(* A closed consumer has no message in process and no ack on its way. *)
LEMMA InvCloseSettles == IInv /\ SettleInv => CloseSettlesReceived
<1> SUFFICES ASSUME IInv, SettleInv, closed, ~mixed,
                    mode = "auto" \/ (mode = "batch" /\ interruptions = 0),
                    NEW m \in handed
             PROVE  final[m] # {}
  BY DEF CloseSettlesReceived
<1>1. app.pc \notin Receiving
  BY DEF IInv, Shape
<1>2. CASE mode = "auto"
  BY <1>1, <1>2 DEF SettleInv, AutoSettles, Receiving
<1>3. CASE mode = "batch" /\ interruptions = 0
  <2>1. BatchSettles /\ ~InProcess
    BY <1>1, <1>3 DEF SettleInv, InProcess, Receiving
  <2>2. pendingAck = NoAck
    BY <2>1 DEF BatchSettles, BatchAck
  <2>3. ackTask = NoAck
    <3>1. app.pc # "settle"
      BY <1>3 DEF IInv, Shape, Transacted
    <3> QED BY <2>1, <3>1 DEF BatchSettles, BatchAck
  <2> QED BY <2>1, <2>2, <2>3 DEF BatchSettles, InRange, NoAck
<1> QED BY <1>2, <1>3

(***************************************************************************)
(* When a consumer that acknowledges by itself is closed, the broker has   *)
(* an end for every message the application has had: the pending ack is    *)
(* sent by doClose (deliverAcks) and dispose waits for it, and its range   *)
(* takes in every message since the last ack.                              *)
(***************************************************************************)
THEOREM CloseSettles == Spec => []CloseSettlesReceived
<1>1. Init => IInv /\ SettleInv
  BY InvInit, SettleInit
<1>2. IInv /\ SettleInv /\ [Next]_vars => (IInv /\ SettleInv)'
  BY InvNext, SettleNext
<1>3. IInv /\ SettleInv => CloseSettlesReceived
  BY InvCloseSettles
<1> QED BY <1>1, <1>2, <1>3, PTL DEF Spec

-----------------------------------------------------------------------------
(* A set of numbers that is not empty has a least one. *)
LEMMA LeastNumber ==
    ASSUME NEW T, T \subseteq Nat, T # {}
    PROVE  \E n \in T : \A k \in T : n <= k
<1>1. IsWellFoundedOn(OpToRel(<, Nat), Nat)
  BY NatLessThanWellFounded
<1>2. \E n \in T : \A k \in T : ~(<<k, n>> \in OpToRel(<, Nat))
  BY <1>1, WFMin
<1>3. \A k, n \in Nat : k < n => <<k, n>> \in OpToRel(<, Nat)
  BY DEF OpToRel
<1>4. PICK n \in T : \A k \in T : ~(<<k, n>> \in OpToRel(<, Nat))
  BY <1>2
<1>5. \A k \in T : ~(k < n)
  BY <1>3, <1>4, Zenon
<1>6. \A k \in T : n <= k
  BY <1>5
<1> QED BY <1>6

(* What the lists hold. *)
LEMMA ToSetNothing == ToSet(<<>>) = {}
  BY DEF ToSet

(* The messages of a list, by their places. *)
LEMMA ToSetSeq ==
    ASSUME NEW S, NEW q \in Seq(S)
    PROVE  /\ ToSet(q) = {q[i] : i \in 1..Len(q)} /\ ToSet(q) \subseteq S
           /\ \A x : x \in ToSet(q) <=> \E i \in 1..Len(q) : q[i] = x
           /\ ToSet(q) = {} <=> q = <<>>
<1>1. DOMAIN q = 1..Len(q) /\ \A i \in 1..Len(q) : q[i] \in S
  OBVIOUS
<1>2. ToSet(q) = {q[i] : i \in 1..Len(q)}
  BY <1>1 DEF ToSet
<1>3. q # <<>> => 1 \in 1..Len(q)
  OBVIOUS
<1>4. ToSet(q) = {} => q = <<>>
  BY <1>2, <1>3
<1>5. q = <<>> => ToSet(q) = {}
  BY ToSetNothing
<1> QED BY <1>1, <1>2, <1>4, <1>5

(* A rising list loses its first message, the earliest, with its head. *)
LEMMA ToSetTail ==
    ASSUME NEW q \in Seq(Messages), q # <<>>, Rising(q)
    PROVE  /\ Head(q) \in ToSet(q) /\ ToSet(Tail(q)) = ToSet(q) \ {Head(q)}
           /\ \A x \in ToSet(Tail(q)) : Head(q) < x
<1>1. /\ Len(q) \in Nat \ {0} /\ Tail(q) \in Seq(Messages) /\ Len(Tail(q)) = Len(q) - 1
      /\ Head(q) = q[1] /\ 1 \in 1..Len(q)
  OBVIOUS
<1>2. \A j \in 1..Len(Tail(q)) : Tail(q)[j] = q[j + 1]
  OBVIOUS
<1>3. \A j \in 1..Len(q) : j # 1 => j - 1 \in 1..Len(Tail(q)) /\ (j - 1) + 1 = j
  BY <1>1
<1>4. \A j \in 1..Len(Tail(q)) : Head(q) < Tail(q)[j]
  BY TailLeft
<1>5. \A i \in 1..Len(q) : q[i] \in Int
  BY ConstantsAssumption DEF Messages, ConstantsAssumption
<1>6. LeftOf(Tail(q), q)
  BY TailLeft
<1> DEFINE t == Tail(q)
           h == Head(q)
<1> HIDE DEF t, h
<1>7. ASSUME NEW x \in ToSet(t) PROVE x \in ToSet(q) /\ h < x
  <2>1. PICK i \in 1..Len(t) : t[i] = x
    BY <1>1, <1>7, ToSetSeq DEF t
  <2>2. \E k \in 1..Len(q) : t[i] = q[k]
    BY <1>6, <2>1 DEF LeftOf, t
  <2> QED BY <1>4, <2>1, <2>2, ToSetSeq DEF t, h
<1>8. ASSUME NEW x \in ToSet(q), x # h PROVE x \in ToSet(t)
  <2>1. PICK i \in 1..Len(q) : q[i] = x
    BY <1>8, ToSetSeq
  <2>2. i # 1
    BY <1>1, <1>8, <2>1 DEF h
  <2>3. i - 1 \in 1..Len(t) /\ t[i - 1] = x
    BY <1>2, <1>3, <2>1, <2>2 DEF t
  <2>4. t \in Seq(Messages)
    BY <1>1 DEF t
  <2> QED BY <2>3, <2>4, ToSetSeq
<1>9. h \in ToSet(q) /\ h \in Int
  BY <1>1, <1>5, ToSetSeq DEF h
<1>10. h \notin ToSet(t)
  BY <1>7, <1>9
<1>11. \A x : x \in ToSet(t) <=> x \in ToSet(q) \ {h}
  BY <1>7, <1>8, <1>10
<1>12. ToSet(t) = ToSet(q) \ {h}
  BY <1>11
<1>13. \A x \in ToSet(t) : h < x
  BY <1>7
<1> QED BY <1>9, <1>12, <1>13, Zenon DEF t, h

(* enqueue adds a message at the end. *)
LEMMA ToSetAppend ==
    ASSUME NEW q \in Seq(Messages), NEW e \in Messages
    PROVE  ToSet(Append(q, e)) = ToSet(q) \cup {e}
<1> DEFINE r == Append(q, e)
<1>1. r \in Seq(Messages) /\ Len(r) = Len(q) + 1 /\ Len(q) \in Nat
  OBVIOUS
<1>2. r[Len(r)] = e /\ \A i \in 1..Len(q) : r[i] = q[i] /\ i \in 1..Len(r)
  OBVIOUS
<1>3. \A i \in 1..Len(r) : i = Len(r) \/ i \in 1..Len(q)
  BY <1>1
<1>4. Len(r) \in 1..Len(r)
  BY <1>1
<1> HIDE DEF r
<1>5. \A x : x \in ToSet(r) <=> \E i \in 1..Len(r) : r[i] = x
  BY <1>1, ToSetSeq
<1>6. \A x : x \in ToSet(q) <=> \E i \in 1..Len(q) : q[i] = x
  BY ToSetSeq
<1>7. \A x : x \in ToSet(r) <=> x \in ToSet(q) \cup {e}
  BY <1>2, <1>3, <1>4, <1>5, <1>6
<1> QED BY <1>7 DEF r

(* Two lists one after the other. *)
LEMMA ToSetConcat ==
    ASSUME NEW a \in Seq(Messages), NEW b \in Seq(Messages)
    PROVE  ToSet(a \o b) = ToSet(a) \cup ToSet(b)
<1> DEFINE r == a \o b
<1>1. /\ r \in Seq(Messages) /\ Len(r) = Len(a) + Len(b) /\ Len(a) \in Nat /\ Len(b) \in Nat
      /\ \A i \in 1..(Len(a) + Len(b)) : r[i] = IF i <= Len(a) THEN a[i] ELSE b[i - Len(a)]
  BY ConcatProperties
<1> HIDE DEF r
<1>2. \A i \in 1..Len(r) : \/ i \in 1..Len(a) /\ r[i] = a[i]
                           \/ i - Len(a) \in 1..Len(b) /\ r[i] = b[i - Len(a)]
  BY <1>1
<1>3. \A i \in 1..Len(a) : i \in 1..Len(r) /\ r[i] = a[i]
  BY <1>1
<1>4. \A i \in 1..Len(b) : i + Len(a) \in 1..Len(r) /\ r[i + Len(a)] = b[i]
  <2> SUFFICES ASSUME NEW i \in 1..Len(b)
               PROVE  i + Len(a) \in 1..Len(r) /\ r[i + Len(a)] = b[i]
    OBVIOUS
  <2> DEFINE j == i + Len(a)
  <2>1. j \in 1..(Len(a) + Len(b)) /\ ~(j <= Len(a)) /\ j - Len(a) = i
    BY <1>1
  <2> HIDE DEF j
  <2>2. j \in 1..Len(r) /\ r[j] = b[i]
    BY <1>1, <2>1
  <2> QED BY <2>2 DEF j
<1>5. /\ \A x : x \in ToSet(r) <=> \E i \in 1..Len(r) : r[i] = x
      /\ \A x : x \in ToSet(a) <=> \E i \in 1..Len(a) : a[i] = x
      /\ \A x : x \in ToSet(b) <=> \E i \in 1..Len(b) : b[i] = x
  BY <1>1, ToSetSeq
<1>6. \A x : x \in ToSet(r) => x \in ToSet(a) \cup ToSet(b)
  BY <1>2, <1>5
<1>7. \A x : x \in ToSet(a) \cup ToSet(b) => x \in ToSet(r)
  BY <1>3, <1>4, <1>5
<1> QED BY <1>6, <1>7 DEF r

(* A list turned round has the same messages. *)
LEMMA ToSetReverse ==
    ASSUME NEW q \in Seq(Messages)
    PROVE  ToSet(Reverse(q)) = ToSet(q)
<1> DEFINE r == Reverse(q)
<1>1. Len(q) \in Nat /\ \A i \in 1..Len(q) : Len(q) - i + 1 \in 1..Len(q)
                                             /\ Len(q) - (Len(q) - i + 1) + 1 = i
  OBVIOUS
<1>2. r \in Seq(Messages) /\ Len(r) = Len(q) /\ \A i \in 1..Len(q) : r[i] = q[Len(q) - i + 1]
  BY <1>1 DEF Reverse
<1> HIDE DEF r
<1>3. /\ \A x : x \in ToSet(r) <=> \E i \in 1..Len(q) : r[i] = x
      /\ \A x : x \in ToSet(q) <=> \E i \in 1..Len(q) : q[i] = x
  BY <1>2, ToSetSeq
<1>4. \A i \in 1..Len(q) : \E k \in 1..Len(q) : r[k] = q[i]
  BY <1>1, <1>2
<1>5. \A x : x \in ToSet(r) <=> x \in ToSet(q)
  BY <1>1, <1>2, <1>3, <1>4
<1> QED BY <1>5 DEF r

(* A list in which no message is twice loses one that is taken out. *)
LEMMA ToSetRemove ==
    ASSUME NEW q \in Seq(Messages), Falling(q), NEW e
    PROVE  ToSet(RemoveFirst(q, e)) = ToSet(q) \ {e}
<1>0. \A i \in 1..Len(q) : q[i] \in Int
  BY ConstantsAssumption DEF Messages, ConstantsAssumption
<1>1. CASE ~\E i \in 1..Len(q) : q[i] = e
  <2>1. RemoveFirst(q, e) = q
    BY <1>1 DEF RemoveFirst
  <2> QED BY <1>1, <2>1, ToSetSeq
<1>2. CASE \E i \in 1..Len(q) : q[i] = e
  <2> PICK k \in 1..Len(q) : q[k] = e
    BY <1>2
  <2> DEFINE I == {i \in 1..Len(q) : q[i] = e}
  <2>1. I = {k}
    <3> SUFFICES ASSUME NEW i \in 1..Len(q), q[i] = q[k] PROVE i = k
      OBVIOUS
    <3> QED BY <1>0 DEF Falling
  <2>2. Min(I) = k
    BY <2>1 DEF Min
  <2>3. SelectInSeq(q, LAMBDA v : v = e) = k
    BY <2>1, <2>2 DEF SelectInSeq
  <2>4. RemoveFirst(q, e) = RemoveAt(q, k)
    BY <1>2, <2>3 DEF RemoveFirst
  <2>5. Len(q) \in Nat /\ k \in 1..Len(q)
    OBVIOUS
  <2> DEFINE a == SubSeq(q, 1, k - 1)
             b == SubSeq(q, k + 1, Len(q))
  <2>6. /\ a \in Seq(Messages) /\ Len(a) = k - 1
        /\ \A i \in 1..(k - 1) : a[i] = q[i]
    BY <2>5
  <2>7. /\ b \in Seq(Messages) /\ Len(b) = Len(q) - k
        /\ \A i \in 1..(Len(q) - k) : b[i] = q[k + i]
    BY <2>5
  <2>8. RemoveAt(q, k) = a \o b
    BY DEF RemoveAt
  <2> HIDE DEF a, b, I
  <2>9. ToSet(RemoveFirst(q, e)) = ToSet(a) \cup ToSet(b)
    BY <2>4, <2>6, <2>7, <2>8, ToSetConcat
  <2>10. /\ \A x : x \in ToSet(a) <=> \E i \in 1..(k - 1) : a[i] = x
         /\ \A x : x \in ToSet(b) <=> \E i \in 1..(Len(q) - k) : b[i] = x
         /\ \A x : x \in ToSet(q) <=> \E i \in 1..Len(q) : q[i] = x
    BY <2>6, <2>7, ToSetSeq
  <2>11. \A i \in 1..Len(q) : q[i] = e => i = k
    BY <2>1 DEF I
  <2>12. ASSUME NEW x \in ToSet(a) PROVE x \in ToSet(q) \ {e}
    <3>1. PICK i \in 1..(k - 1) : a[i] = x
      BY <2>10, <2>12
    <3>2. i \in 1..Len(q) /\ i # k /\ q[i] = x
      BY <2>5, <2>6, <3>1
    <3> QED BY <2>10, <2>11, <3>2
  <2>13. ASSUME NEW x \in ToSet(b) PROVE x \in ToSet(q) \ {e}
    <3>1. PICK i \in 1..(Len(q) - k) : b[i] = x
      BY <2>10, <2>13
    <3>2. k + i \in 1..Len(q) /\ k + i # k /\ q[k + i] = x
      BY <2>5, <2>7, <3>1
    <3> QED BY <2>10, <2>11, <3>2
  <2>14. ASSUME NEW x \in ToSet(q), x # e PROVE x \in ToSet(a) \cup ToSet(b)
    <3>1. PICK i \in 1..Len(q) : q[i] = x
      BY <2>10, <2>14
    <3>2. i # k
      BY <2>14, <3>1
    <3>3. CASE i < k
      <4>1. i \in 1..(k - 1) /\ a[i] = x
        BY <2>5, <2>6, <3>1, <3>3
      <4> QED BY <2>10, <4>1
    <3>4. CASE i > k
      <4>1. i - k \in 1..(Len(q) - k) /\ k + (i - k) = i
        BY <2>5, <3>4
      <4>2. b[i - k] = x
        BY <2>7, <3>1, <4>1
      <4> QED BY <2>10, <4>1, <4>2
    <3> QED BY <2>5, <3>2, <3>3, <3>4
  <2> QED BY <2>9, <2>12, <2>13, <2>14
<1> QED BY <1>1, <1>2

(* A set of messages written as a list. *)
LEMMA SetToSeqSet ==
    ASSUME NEW S \in SUBSET Messages
    PROVE  /\ SetToSeq(S) \in Seq(Messages)
           /\ \A x : x \in S <=> \E i \in 1..Len(SetToSeq(S)) : SetToSeq(S)[i] = x
<1>1. IsFiniteSet(Messages)
  BY FS_Interval, ConstantsAssumption DEF Messages, ConstantsAssumption
<1>2. IsFiniteSet(S) /\ Cardinality(S) \in Nat /\ ExistsBijection(1..Cardinality(S), S)
  BY <1>1, FS_Subset, FS_CardinalityType
<1> DEFINE n == Cardinality(S)
<1> DEFINE f == SetToSeq(S)
<1>3. \E g \in [1..n -> S] : IsInjective(g)
  BY <1>2 DEF ExistsBijection, Bijection, Injection
<1>4. f \in [1..n -> S] /\ IsInjective(f)
  BY <1>3 DEF SetToSeq
<1> HIDE DEF n, f
<1>5. f \in Injection(1..n, S)
  BY <1>4 DEF Injection
<1>6. n \in Nat /\ IsFiniteSet(1..n) /\ Cardinality(1..n) = n
  BY <1>2, FS_Interval DEF n
<1>7. Cardinality(1..n) = Cardinality(S)
  BY <1>6 DEF n
<1>8. f \in Surjection(1..n, S)
  BY <1>2, <1>5, <1>7, FS_Injection
<1>9. \A x \in S : \E i \in 1..n : f[i] = x
  BY <1>8 DEF Surjection
<1>10. f \in Seq(Messages) /\ Len(f) = n
  BY <1>4, <1>6
<1>11. \A i \in 1..n : f[i] \in S
  BY <1>4
<1> QED BY <1>9, <1>10, <1>11 DEF f

(* The latest index first: that is the order in which FoldLeft takes a list apart. *)
LEMMA MaxUpTo ==
    ASSUME NEW k \in Nat, NEW t \in SUBSET (1..(k + 1)), k + 1 \in t
    PROVE  Max(t) = k + 1
<1>1. \A y \in t : k + 1 >= y
  OBVIOUS
<1>2. \A x \in t : (\A y \in t : x >= y) => x = k + 1
  OBVIOUS
<1> QED BY <1>1, <1>2 DEF Max

(* The function over the subsets of 1..n that FoldLeft defines; there is one for each n. *)
TakesOut(it, q, s, n) ==
    it = [t \in SUBSET (1..n) |->
            IF t = {} THEN q ELSE LET x == Max(t) IN RemoveFirst(it[t \ {x}], s[x])]

(* The fold of Returned is a function of how many have been taken out. *)
LEMMA TakesOutExists ==
    ASSUME NEW q, NEW s, NEW n \in Nat
    PROVE  \E it : TakesOut(it, q, s, n)
<1> DEFINE Eq(it, k) == it = [t \in SUBSET (1..k) |->
              IF t = {} THEN q ELSE LET x == Max(t) IN RemoveFirst(it[t \ {x}], s[x])]
<1>0. \A it, k : TakesOut(it, q, s, k) <=> Eq(it, k)
  BY DEF TakesOut
<1> DEFINE T == {k \in Nat : ~\E it : Eq(it, k)}
<1> SUFFICES n \notin T
  <2> HIDE DEF Eq
  <2> QED BY <1>0
<1> SUFFICES ASSUME T # {} PROVE FALSE
  OBVIOUS
<1>1. PICK k \in T : \A j \in T : k <= j
  BY LeastNumber
<1>2. k \in Nat /\ ~\E it : Eq(it, k)
  OBVIOUS
<1>3. k # 0
  <2> SUFFICES ASSUME k = 0 PROVE FALSE
    OBVIOUS
  <2> DEFINE w == [t \in SUBSET (1..0) |-> q]
  <2>1. \A t \in SUBSET (1..0) : t = {}
    OBVIOUS
  <2>2. Eq(w, 0)
    BY <2>1
  <2> QED BY <1>2, <2>2
<1>4. k - 1 \in Nat /\ k - 1 \notin T
  <2>1. k - 1 \in Nat /\ ~(k <= k - 1)
    BY <1>2, <1>3
  <2> HIDE DEF T
  <2> QED BY <1>1, <2>1
<1>5. PICK g : Eq(g, k - 1)
  BY <1>4
<1> DEFINE D == 1..(k - 1)
<1> DEFINE w == [t \in SUBSET (1..k) |-> IF k \in t THEN RemoveFirst(g[t \ {k}], s[k]) ELSE g[t]]
<1>6. \A t \in SUBSET (1..k) : k \notin t => t \in SUBSET D
  BY <1>2
<1>7. \A t \in SUBSET (1..k) : t \ {k} \in SUBSET D /\ k \notin t \ {k}
  BY <1>2
<1>8. \A t \in SUBSET D : t \in SUBSET (1..k) /\ k \notin t
  BY <1>2
<1>9. \A t \in SUBSET (1..k) : k \in t => Max(t) = k
  <2> SUFFICES ASSUME NEW t \in SUBSET (1..k), k \in t PROVE Max(t) = k
    OBVIOUS
  <2>1. (k - 1) + 1 = k
    BY <1>2
  <2> QED BY <1>4, <2>1, MaxUpTo
<1>10. \A t \in SUBSET D : g[t] = IF t = {} THEN q ELSE RemoveFirst(g[t \ {Max(t)}], s[Max(t)])
  <2> HIDE DEF D
  <2> QED BY <1>5 DEF D
<1>11. \A t \in SUBSET D : w[t] = g[t]
  BY <1>8
<1>12. ASSUME NEW t \in SUBSET (1..k)
       PROVE  w[t] = IF t = {} THEN q ELSE RemoveFirst(w[t \ {Max(t)}], s[Max(t)])
  <2>1. CASE k \in t
    <3>1. w[t] = RemoveFirst(g[t \ {k}], s[k]) /\ t # {}
      BY <2>1
    <3>2. w[t \ {k}] = g[t \ {k}]
      BY <1>7, <1>11
    <3> HIDE DEF w
    <3> QED BY <1>9, <2>1, <3>1, <3>2
  <2>2. CASE k \notin t
    <3>1. t \in SUBSET D /\ w[t] = g[t]
      BY <1>6, <1>11, <2>2
    <3>2. t \ {Max(t)} \in SUBSET D
      BY <3>1
    <3>3. w[t \ {Max(t)}] = g[t \ {Max(t)}]
      BY <1>11, <3>2
    <3> HIDE DEF w, D
    <3> QED BY <1>10, <3>1, <3>3
  <2> QED BY <2>1, <2>2
<1>13. Eq(w, k)
  <2>1. w = [t \in SUBSET (1..k) |-> w[t]]
    OBVIOUS
  <2> HIDE DEF w
  <2> QED BY <1>12, <2>1
<1> QED BY <1>2, <1>13

(* What is left in the end. *)
LEMMA FoldTakesOut ==
    ASSUME NEW q \in Seq(Messages), Falling(q), NEW s \in Seq(Messages)
    PROVE  LET r == FoldLeft(RemoveFirst, q, s) IN
           /\ r \in Seq(Messages) /\ Falling(r)
           /\ ToSet(r) = ToSet(q) \ ToSet(s)
<1> DEFINE n == Len(s)
<1>1. n \in Nat /\ DOMAIN s = 1..n
  OBVIOUS
<1> DEFINE Dm(x, y) == RemoveFirst(y, x)
<1> DEFINE Eq(it) == it = [t \in SUBSET (DOMAIN s) |->
        IF t = {} THEN q ELSE LET x == Max(t) IN Dm(s[x], it[t \ {x}])]
<1> DEFINE iter == CHOOSE it : it = [t \in SUBSET (DOMAIN s) |->
        IF t = {} THEN q ELSE LET x == Max(t) IN Dm(s[x], it[t \ {x}])]
<1>2. FoldLeft(RemoveFirst, q, s) = iter[DOMAIN s]
  BY DEF FoldLeft, MapThenFoldSet
<1>3. \E it : Eq(it)
  <2>1. \E it : TakesOut(it, q, s, n)
    <3> HIDE DEF n
    <3> QED BY <1>1, TakesOutExists
  <2>2. \A it : TakesOut(it, q, s, n) => Eq(it)
    <3> HIDE DEF n
    <3> QED BY <1>1 DEF TakesOut
  <2> HIDE DEF Eq
  <2> QED BY <2>1, <2>2
<1>4. Eq(iter)
  <2> HIDE DEF Eq
  <2>1. Eq(CHOOSE it : Eq(it))
    BY <1>3
  <2> QED BY <2>1 DEF Eq
<1> HIDE DEF iter, n
<1>5. \A t \in SUBSET (1..n) :
         iter[t] = IF t = {} THEN q ELSE RemoveFirst(iter[t \ {Max(t)}], s[Max(t)])
  BY <1>1, <1>4
<1> DEFINE Out(k) == {s[i] : i \in 1..k}
<1> DEFINE P(k) == /\ iter[1..k] \in Seq(Messages) /\ Falling(iter[1..k])
                   /\ ToSet(iter[1..k]) = ToSet(q) \ Out(k)
<1> DEFINE T == {k \in 0..n : ~P(k)}
<1>6. T = {}
  <2> SUFFICES ASSUME T # {} PROVE FALSE
    OBVIOUS
  <2>1. PICK k \in T : \A j \in T : k <= j
    <3>1. T \subseteq Nat
      BY <1>1
    <3> HIDE DEF T
    <3> QED BY <3>1, LeastNumber
  <2>2. k \in 0..n /\ ~P(k)
    OBVIOUS
  <2>3. CASE k = 0
    <3>1. 1..0 = {} /\ {} \in SUBSET (1..n)
      OBVIOUS
    <3>2. iter[1..0] = q
      BY <1>5, <3>1
    <3>3. Out(0) = {}
      BY <3>1
    <3> QED BY <2>2, <2>3, <3>2, <3>3
  <2>4. CASE k # 0
    <3>1. k - 1 \in 0..n /\ k - 1 \in Nat /\ (k - 1) + 1 = k /\ k \in 1..n
      BY <1>1, <2>2, <2>4
    <3>2. P(k - 1)
      <4>1. k - 1 \notin T
        BY <2>1, <3>1
      <4> HIDE DEF P
      <4> QED BY <3>1, <4>1
    <3>3. 1..k \in SUBSET (1..n) /\ k \in 1..k /\ 1..k # {}
      BY <1>1, <3>1
    <3>4. Max(1..k) = k
      BY <3>1, <3>3, MaxUpTo
    <3>5. (1..k) \ {k} = 1..(k - 1)
      BY <3>1
    <3>6. iter[1..k] = RemoveFirst(iter[1..(k - 1)], s[k])
      BY <1>5, <3>3, <3>4, <3>5
    <3>7. Out(k) = Out(k - 1) \cup {s[k]}
      <4>1. 1..k = (1..(k - 1)) \cup {k}
        BY <3>1
      <4> QED BY <4>1
    <3> DEFINE p == iter[1..(k - 1)]
               o == Out(k - 1)
               e == s[k]
    <3>8. p \in Seq(Messages) /\ Falling(p) /\ ToSet(p) = ToSet(q) \ o
      BY <3>2
    <3> HIDE DEF p, o, e
    <3>9. LeftOf(RemoveFirst(p, e), p) /\ Falling(RemoveFirst(p, e))
      BY <3>8, RemoveFirstLeft
    <3>10. RemoveFirst(p, e) \in Seq(Messages)
      BY <3>9 DEF LeftOf
    <3>11. ToSet(RemoveFirst(p, e)) = ToSet(p) \ {e}
      BY <3>8, ToSetRemove
    <3>12. ToSet(RemoveFirst(p, e)) = ToSet(q) \ (o \cup {e})
      BY <3>8, <3>11
    <3>13. P(k)
      BY <3>6, <3>7, <3>9, <3>10, <3>12 DEF p, o, e
    <3> QED BY <2>2, <3>13
  <2> QED BY <2>3, <2>4
<1>7. P(n)
  <2>1. n \in 0..n
    BY <1>1
  <2> HIDE DEF P
  <2> QED BY <1>6, <2>1
<1>8. Out(n) = ToSet(s)
  BY <1>1 DEF ToSet
<1> QED BY <1>1, <1>2, <1>7, <1>8

(* Returned holds the delivered messages that were not passed over by a replay. *)
LEMMA ReturnedSet ==
    ASSUME delivered \in Seq(Messages), Falling(delivered), DOMAIN previously \subseteq Messages
    PROVE  /\ Returned \in Seq(Messages) /\ Falling(Returned)
           /\ ToSet(Returned) = ToSet(delivered) \ NotReplayed
<1>1. NotReplayed \in SUBSET Messages
  BY DEF NotReplayed
<1> DEFINE s == SetToSeq(NotReplayed)
<1>2. s \in Seq(Messages) /\ \A x : x \in NotReplayed <=> \E i \in 1..Len(s) : s[i] = x
  BY <1>1, SetToSeqSet
<1> HIDE DEF s
<1>3. ToSet(s) = NotReplayed
  BY <1>2, ToSetSeq
<1>4. Returned = FoldLeft(RemoveFirst, delivered, s)
  BY DEF Returned, s
<1> QED BY <1>2, <1>3, <1>4, FoldTakesOut

-----------------------------------------------------------------------------
(***************************************************************************)
(* Where the messages that the present connection's broker has sent and    *)
(* not seen ended can be.                                                  *)
(***************************************************************************)
Del == ToSet(delivered)
Unc == ToSet(unconsumed)

(* The transport's thread is at work on it; sent before that, and not ended. *)
Waiting(m) == disp.pc # "idle" /\ m = disp.msg

Open(m) == m \in sent /\ final[m] = {} /\ ~Waiting(m)

(***************************************************************************)
(* Connected: the message that is being dispatched is the latest one sent, *)
(* and until the first one of a connection has been dispatched what was    *)
(* left of the connection before is to be cleared.                         *)
(***************************************************************************)
Connected ==
    /\ disp.pc # "idle" => disp.msg \in sent /\ \A s \in sent : s <= disp.msg
    /\ \A m \in sent : ~Waiting(m) => ~clearList
    /\ disp.pc = "put" => ~clearList
    /\ ~doubled /\ clearRequired > 0 =>
          clearRequired = 1 /\ disp.pc \notin {"list", "put"} /\ \A m \in sent : Waiting(m)

ConnInv ==
    /\ sent \subseteq arrived /\ arrived \subseteq Messages
    /\ doubled => interruptions >= 2
    /\ interruptions = 0 => sent = arrived
    /\ ~mixed => Connected

(***************************************************************************)
(* Retained: outside transactions and batch mode an open message is held.  *)
(* Where an interruption came before the messages of the last one were     *)
(* cleared it may be lost, but then it is before all that are held, so     *)
(* that no ack's range takes it in.  What is delivered was had, or is the  *)
(* expired message in process.                                             *)
(***************************************************************************)
Retained ==
    /\ ackTask = NoAck /\ pendingAck.type # "consumed"
    /\ ~closed => \A m \in sent : Open(m) =>
          m \in Held \/ (doubled /\ \A e \in Held : m < e)
    /\ \A d \in Del : d \in got \/ (app.pc = "after" /\ app.expired /\ d = app.msg)

RetainedInv == ~Transacted /\ mode # "batch" /\ ~mixed => Retained

(***************************************************************************)
(* BatchRange: in batch mode the pending ack, and the one that close gives *)
(* to the executor, end before all messages that have not been had but may *)
(* still be acknowledged, and an open message that is not held or in       *)
(* process is in their range.  The audit keeps a message that was had from *)
(* being taken for a new one.                                              *)
(***************************************************************************)
Live(m) == m \in sent \/ \A s \in sent : s < m

AckBefore(ack) ==
    ack # NoAck =>
        /\ ack.type = "consumed"
        /\ ack.first \in Int /\ ack.last \in arrived /\ ack.first <= ack.last
        /\ \A m \in arrived : final[m] = {} /\ Live(m) /\ m <= ack.last => m \in handed
        /\ \A u \in Unc : ack.last < u

BatchAudit ==
    /\ delivered = <<>> /\ handed \subseteq arrived
    /\ handed \cap Unc = {}
    /\ ~closed => running /\ handed \subseteq audit /\ Unc \subseteq audit
    /\ app.pc = "before" => app.msg \in audit /\ app.msg \notin handed
    /\ disp.pc # "idle" => final[disp.msg] = {} \/ disp.msg \in handed

BatchAcks ==
    /\ AckBefore(pendingAck) /\ AckBefore(ackTask)
    /\ pendingAck # NoAck /\ (app.pc = "before" \/ InProcess) => pendingAck.last < app.msg
    /\ InProcess => /\ InPresent(app.msg)
                    /\ \A u \in Unc : app.msg < u
                    /\ app.expired \/ app.msg \in handed
    /\ app.pc \in {"later", "write"} => ~app.expired
    /\ app.pc = "write" => app.old = pendingAck
    /\ ackTask # NoAck => app.pc = "settle"
    /\ app.pc = "settle" \/ closed => pendingAck = NoAck

InRangeOf(m, ack) == ack # NoAck /\ m \in ack.first..ack.last

BatchHeld ==
    ~closed => \A m \in sent : Open(m) =>
        \/ m \in Unc \cup InHand
        \/ InProcess /\ m = app.msg
        \/ m \in handed /\ (InRangeOf(m, pendingAck) \/ InRangeOf(m, ackTask))

BatchRange == BatchAudit /\ BatchAcks /\ BatchHeld

BatchRangeInv == mode = "batch" /\ interruptions <= 1 /\ ~mixed => BatchRange

(***************************************************************************)
(* A transaction on the first or the second connection.                    *)
(***************************************************************************)
TxOrder ==
    /\ delivered \in Seq(Messages) /\ unconsumed \in Seq(Messages)
    /\ Falling(delivered) /\ Rising(unconsumed)
    /\ \A d \in Del, u \in Unc : d < u
    /\ app.pc = "before" => /\ \A d \in Del : d < app.msg
                            /\ \A u \in Unc : app.msg < u

TxPresent ==
    /\ ackTask = NoAck
    /\ Held \subseteq arrived
    /\ clearRequired = 0 => \A u \in Unc : InPresent(u)
    /\ app.pc = "before" => InPresent(app.msg) /\ ~clearList /\ clearRequired = 0
    /\ InProcess => InPresent(app.msg) /\ ~clearList /\ app.msg \notin DOMAIN previously
    /\ app.pc \in {"ack", "rollback"} => ~clearList
    /\ clearList /\ clearRequired = 0 => unconsumed = <<>>

TxReplays ==
    /\ clearList => previously = <<>>
    /\ DOMAIN previously \subseteq Del
    /\ ~clearList => \A d \in Del : InPresent(d) \/ d \in DOMAIN previously
    /\ \A m \in DOMAIN previously :
          /\ previously[m] \in BOOLEAN
          /\ previously[m] => m \in sent /\ ~Waiting(m)
          /\ m \in sent /\ ~Waiting(m) => previously[m] \/ closed
    /\ \A m \in arrived, d \in Del \ sent :
          /\ Waiting(m) \/ (final[m] = {} /\ \A s \in sent : s < m)
          /\ m < d
          => m \in Del

TxOpen ==
    /\ \A m \in sent : Open(m) =>
          \/ m \in Held
          \/ closed /\ \A d \in Del : d < m
    /\ \A d \in Del : d \in got \/ (InProcess /\ app.expired /\ d = app.msg)
    /\ got \subseteq Messages /\ \A m \in got : final[m] = {} => m \in Del

Ending ==
    app.pc \in {"syncs", "commit", "rollback"} \/ (app.pc = "settle" /\ app.op # "close")

AfterCommit ==
    \/ app.pc = "commit"
    \/ app.pc \in {"syncs", "settle"} /\ app.op = "commit" /\ "tx" \in app.todo

TxRegistered ==
    /\ app.pc \in {"ack", "ackClear"} => inTx
    /\ Ending => ~inTx
    /\ FewFaults =>
        /\ inTx => "tx" \in syncs
        /\ ~inTx /\ syncRegistered =>
              Ending /\ (app.pc \in {"rollback", "commit"} \/ "tx" \in app.todo)
        /\ app.pc = "end" /\ syncRegistered => app.op = "rollback" /\ interruptions = 1

TxAcks ==
    /\ txAcked # {} => app.pc = "end" /\ inTx
    /\ txAcked \subseteq got
    /\ app.pc = "end" /\ app.op = "commit" /\ inTx /\ "tx" \in syncs =>
          \A d \in Del : final[d] = {} => d \in txAcked
    /\ AfterCommit => \A d \in Del : final[d] # {}

TxLists == TxOrder /\ TxPresent /\ TxReplays /\ TxOpen

TxEnds == TxRegistered /\ TxAcks

TxInv == Transacted /\ interruptions <= 1 /\ ~mixed => TxLists /\ TxEnds

-----------------------------------------------------------------------------
(* What the steps do to the sets of delivered and unconsumed messages. *)
Lists ==
    /\ delivered \in Seq(Messages) /\ unconsumed \in Seq(Messages)
    /\ Falling(delivered) /\ Rising(unconsumed)
    /\ DOMAIN previously \subseteq Messages

(* Messages are numbers. *)
LEMMA MessagesInt == Messages \subseteq Int
  BY ConstantsAssumption DEF Messages, ConstantsAssumption

(* A list that is kept or emptied. *)
LEMMA SetsSame ==
    /\ delivered' = delivered => Del' = Del
    /\ unconsumed' = unconsumed => Unc' = Unc
    /\ delivered' = <<>> => Del' = {}
    /\ unconsumed' = <<>> => Unc' = {}
    /\ delivered = <<>> => Del = {}
    /\ unconsumed = <<>> => Unc = {}
  BY ToSetNothing DEF Del, Unc

(* What is held is unconsumed, in hand or delivered. *)
LEMMA SetsHeld ==
    /\ Held = Unc \cup InHand \cup Del /\ Held' = Unc' \cup InHand' \cup Del'
    /\ (app.pc = "before" => InHand = {app.msg}) /\ (app.pc # "before" => InHand = {})
    /\ (app'.pc = "before" => InHand' = {app'.msg}) /\ (app'.pc # "before" => InHand' = {})
  BY DEF Held, Unc, Del, InHand

(* The lists hold messages, and nothing when they are empty. *)
LEMMA SetsIn ==
    ASSUME Lists
    PROVE  /\ Del \subseteq Messages /\ Unc \subseteq Messages
           /\ Del = {} <=> delivered = <<>>
           /\ Unc = {} <=> unconsumed = <<>>
  BY ToSetSeq DEF Lists, Del, Unc

(* dequeue takes the earliest message out of the channel. *)
LEMMA SetsTail ==
    ASSUME Lists, unconsumed # <<>>, unconsumed' = Tail(unconsumed)
    PROVE  /\ Head(unconsumed) \in Unc /\ Unc' = Unc \ {Head(unconsumed)}
           /\ \A u \in Unc' : Head(unconsumed) < u
  BY ToSetTail DEF Lists, Unc

(* beforeMessageIsConsumed adds a message to those delivered. *)
LEMMA SetsPrepend ==
    ASSUME Lists, NEW m \in Messages, delivered' = <<m>> \o delivered
    PROVE  Del' = Del \cup {m}
<1>1. <<m>> \in Seq(Messages)
  OBVIOUS
<1>2. ToSet(<<m>>) = {m}
  BY DEF ToSet
<1>3. ToSet(<<m>> \o delivered) = ToSet(<<m>>) \cup ToSet(delivered)
  BY <1>1, ToSetConcat DEF Lists
<1>4. Del' = ToSet(<<m>> \o delivered) /\ Del = ToSet(delivered)
  BY DEF Del
<1> QED BY <1>2, <1>3, <1>4

(* A message that is ended by itself leaves those delivered. *)
LEMMA SetsRemove ==
    ASSUME Lists, NEW m, delivered' = RemoveFirst(delivered, m)
    PROVE  Del' = Del \ {m}
  BY ToSetRemove DEF Lists, Del

(* dispatch adds a message to the channel. *)
LEMMA SetsAppend ==
    ASSUME Lists, NEW m \in Messages, unconsumed' = Append(unconsumed, m)
    PROVE  Unc' = Unc \cup {m}
  BY ToSetAppend DEF Lists, Unc

(* rollback puts back what is delivered, but for what was not replayed. *)
LEMMA SetsBack ==
    ASSUME Lists, unconsumed' = PutBack
    PROVE  Unc' = Unc \cup (Del \ NotReplayed)
<1>1. Returned \in Seq(Messages) /\ Falling(Returned) /\ ToSet(Returned) = Del \ NotReplayed
  BY ReturnedSet DEF Lists, Del
<1>2. Reverse(Returned) \in Seq(Messages) /\ ToSet(Reverse(Returned)) = ToSet(Returned)
  BY <1>1, ReverseRising, ToSetReverse
<1>3. ToSet(Reverse(Returned) \o unconsumed) = ToSet(Reverse(Returned)) \cup ToSet(unconsumed)
  BY <1>2, ToSetConcat DEF Lists
<1>4. Unc' = ToSet(Reverse(Returned) \o unconsumed) /\ Unc = ToSet(unconsumed)
  BY DEF Unc, PutBack
<1> QED BY <1>1, <1>2, <1>3, <1>4

(* The ends of a list that falls are its latest and its earliest message. *)
LEMMA FallingEnds ==
    ASSUME NEW q \in Seq(Messages), Falling(q), q # <<>>
    PROVE  /\ Head(q) \in ToSet(q) /\ Last(q) \in ToSet(q)
           /\ \A m \in ToSet(q) : m \in Last(q)..Head(q)
<1>1. Len(q) \in Nat \ {0} /\ Head(q) = q[1] /\ Last(q) = q[Len(q)]
  BY DEF Last
<1>2. 1 \in 1..Len(q) /\ Len(q) \in 1..Len(q) /\ \A i \in 1..Len(q) : q[i] \in Int
  <2>1. \A i \in 1..Len(q) : q[i] \in Messages
    OBVIOUS
  <2>2. \A i \in 1..Len(q) : q[i] \in Int
    BY <2>1, MessagesInt
  <2> QED BY <1>1, <2>2
<1>3. ASSUME NEW m \in ToSet(q) PROVE m \in q[Len(q)]..q[1]
  <2>1. PICK i \in 1..Len(q) : q[i] = m
    BY <1>3, ToSetSeq
  <2>2. q[i] <= q[1]
    <3>1. CASE i = 1
      BY <1>2, <3>1
    <3>2. CASE i # 1
      <4>1. 1 < i
        BY <3>2
      <4> QED BY <1>2, <4>1 DEF Falling
    <3> QED BY <3>1, <3>2
  <2>3. q[Len(q)] <= q[i]
    <3>1. CASE i = Len(q)
      BY <1>2, <3>1
    <3>2. CASE i # Len(q)
      <4>1. i < Len(q)
        BY <1>1, <3>2
      <4> QED BY <1>2, <4>1 DEF Falling
    <3> QED BY <3>1, <3>2
  <2> QED BY <1>2, <2>1, <2>2, <2>3
<1>4. q[1] \in ToSet(q) /\ q[Len(q)] \in ToSet(q)
  BY <1>2, ToSetSeq
<1> QED BY <1>1, <1>3, <1>4

(* The ends of delivered are its latest and its earliest message. *)
LEMMA SetsEnds ==
    ASSUME Lists, delivered # <<>>
    PROVE  /\ Head(delivered) \in Del /\ Last(delivered) \in Del
           /\ \A m \in Del : m \in Last(delivered)..Head(delivered)
  BY FallingEnds DEF Lists, Del

(* So it is with what rollback puts back. *)
LEMMA SetsReturned ==
    ASSUME Lists
    PROVE  /\ Returned = <<>> => Del \subseteq NotReplayed
           /\ Returned # <<>> => \A m \in Del \ NotReplayed : m \in Last(Returned)..Head(Returned)
<1>1. Returned \in Seq(Messages) /\ Falling(Returned) /\ ToSet(Returned) = Del \ NotReplayed
  BY ReturnedSet DEF Lists, Del
<1>2. Returned = <<>> => Del \ NotReplayed = {}
  BY <1>1, ToSetNothing
<1>3. Returned # <<>> => \A m \in ToSet(Returned) : m \in Last(Returned)..Head(Returned)
  BY <1>1, FallingEnds
<1> QED BY <1>1, <1>2, <1>3

(* What an end, and an ack, adds to the messages ended. *)
LEMMA SettleFinal ==
    ASSUME final \in [Messages -> SUBSET Whys], NEW ms, NEW why \in Whys, Settle(ms, why)
    PROVE  \A m \in Messages : /\ final'[m] = {} => final[m] = {} /\ m \notin ms
                               /\ final[m] = {} /\ m \notin ms => final'[m] = {}
                               /\ "consumed" \in final'[m] \ final[m] => why = "consumed" /\ m \in ms
<1>1. \A m \in Messages : final'[m] = final[m] \cup (IF m \in ms THEN {why} ELSE {})
  BY DEF Settle
<1> QED BY <1>1

(* An ack of one message ends it when this connection's broker has sent it. *)
LEMMA SettleOneFinal ==
    ASSUME final \in [Messages -> SUBSET Whys], NEW k, NEW why \in Whys, SettleOne(k, why)
    PROVE  \A m \in Messages :
              /\ final'[m] = {} => final[m] = {}
              /\ final'[m] = {} /\ m \in sent => m # k
              /\ final[m] = {} /\ m # k /\ k \in Int => final'[m] = {}
<1>1. Messages \subseteq Int
  BY MessagesInt
<1>2. Settle(Covered(k, k), why)
  BY DEF SettleOne
<1>3. \A m \in Messages : /\ m = k /\ m \in sent /\ final[m] = {} => m \in Covered(k, k)
                          /\ m \in Covered(k, k) /\ k \in Int => m = k
  BY <1>1 DEF Covered
<1>4. \A m \in Messages : /\ final'[m] = {} => final[m] = {} /\ m \notin Covered(k, k)
                          /\ final[m] = {} /\ m \notin Covered(k, k) => final'[m] = {}
  BY <1>2, SettleFinal
<1> QED BY <1>3, <1>4

(* What an ack ends is in its range, sent on this connection and not ended before. *)
LEMMA SendAckFinal ==
    ASSUME final \in [Messages -> SUBSET Whys], sent \subseteq Messages, NEW ack, SendAck(ack)
    PROVE  /\ \A m \in Messages : final'[m] = {} => final[m] = {}
           /\ ack.type = "consumed" =>
                 \A m \in sent : m \in ack.first..ack.last => final'[m] # {}
           /\ ack.type # "consumed" =>
                 \A m \in Messages : final[m] = {} => final'[m] = {}
           /\ \A m \in Messages : (final[m] = {} /\ final'[m] # {})
                                     \/ "consumed" \in final'[m] \ final[m] =>
                 ack.type = "consumed" /\ m \in sent /\ final[m] = {} /\ m \in ack.first..ack.last
<1> DEFINE ms == IF ack.type = "consumed" THEN Covered(ack.first, ack.last) ELSE {}
<1>1. Settle(ms, "consumed") /\ "consumed" \in Whys
  BY DEF SendAck, Whys
<1>2. \A m : m \in ms <=> /\ ack.type = "consumed" /\ m \in ack.first..ack.last
                          /\ m \in sent /\ final[m] = {}
  BY DEF Covered
<1> HIDE DEF ms
<1>3. \A m \in Messages : /\ final'[m] = {} => final[m] = {} /\ m \notin ms
                          /\ final[m] = {} /\ m \notin ms => final'[m] = {}
                          /\ "consumed" \in final'[m] \ final[m] => m \in ms
  BY <1>1, SettleFinal
<1> QED BY <1>2, <1>3

(* clearDeliveredList and clearMessagesInProgress. *)
LEMMA SetsCleared ==
    ASSUME clearDeliveredList
    PROVE  /\ clearList' = FALSE
           /\ Del' = IF clearList /\ ~Transacted THEN {} ELSE Del
           /\ pendingAck' \in {pendingAck, NoAck}
<1>1. CASE clearList /\ delivered # <<>> /\ ~Transacted
  <2>1. delivered' = <<>> /\ pendingAck' = NoAck
    BY <1>1 DEF clearDeliveredList
  <2> QED BY <1>1, <2>1, SetsSame DEF clearDeliveredList
<1>2. CASE ~(clearList /\ delivered # <<>> /\ ~Transacted)
  <2>1. delivered' = delivered /\ pendingAck' = pendingAck
    BY <1>2 DEF clearDeliveredList
  <2>2. clearList /\ ~Transacted => Del = {}
    BY <1>2, SetsSame
  <2> QED BY <2>1, <2>2, SetsSame DEF clearDeliveredList
<1> QED BY <1>1, <1>2

(* clearMessagesInProgress empties the channel when it is asked to. *)
LEMMA SetsProgress ==
    ASSUME clearMessagesInProgress
    PROVE  /\ clearRequired > 0 => Unc' = {} /\ clearRequired' = clearRequired - 1
                                   /\ audit' = audit \ Unc
           /\ ~(clearRequired > 0) => UNCHANGED <<unconsumed, audit, clearRequired>> /\ Unc' = Unc
<1>1. clearRequired > 0 => /\ unconsumed' = <<>> /\ clearRequired' = clearRequired - 1
                           /\ audit' = audit \ ToSet(unconsumed)
  BY DEF clearMessagesInProgress
<1>2. ~(clearRequired > 0) => UNCHANGED <<unconsumed, audit, clearRequired>>
  BY DEF clearMessagesInProgress
<1> QED BY <1>1, <1>2, SetsSame DEF Unc

-----------------------------------------------------------------------------
(* A step of the application or of a task, as far as the connection goes. *)
LEMMA ConnAside ==
    ASSUME ConnInv, UNCHANGED <<sent, arrived, disp, doubled, interruptions, clearRequired>>,
           clearList' => clearList, mixed => mixed'
    PROVE  ConnInv'
<1>1. Connected => Connected'
  BY DEF Connected, Waiting
<1> QED BY <1>1 DEF ConnInv

(* No message has been sent yet. *)
LEMMA ConnInit == Init => ConnInv
<1> SUFFICES ASSUME Init PROVE ConnInv
  OBVIOUS
<1>1. /\ disp.pc = "idle" /\ sent = {} /\ arrived = {} /\ clearRequired = 0
      /\ doubled = FALSE /\ interruptions = 0 /\ clearList = FALSE
  BY DEF Init, IdleDisp
<1> QED BY <1>1 DEF ConnInv, Connected

(* Every step keeps what is known of the connection. *)
LEMMA ConnNext ==
    ASSUME Shape, Counts, FirstConnection, ConnInv, Next
    PROVE  ConnInv'
<1> USE DEF channelVars, ackVars, txVars, taskVars, brokerVars,
        appVars, boundVars, auditVars
<1>a. clearDeliveredList => ~clearList'
  BY DEF clearDeliveredList
<1>b. Onward
  BY CountsNext
<1>c. mixed => mixed'
  BY <1>b DEF Onward
<1>d. disp = [pc |-> disp.pc, msg |-> disp.msg, count |-> disp.count]
  BY DEF Shape, DispShape
<1>e. Messages \subseteq Int
  BY MessagesInt
<1>1. CASE Receive
  <2>1. UNCHANGED <<sent, arrived, disp, doubled, interruptions, clearRequired>>
    BY <1>1 DEF Receive
  <2>2. clearList' => clearList
    BY <1>a, <1>1 DEF Receive
  <2> QED BY <1>c, <2>1, <2>2, ConnAside
<1>2. CASE ClearList
  <2>1. UNCHANGED <<sent, arrived, disp, doubled, interruptions, clearRequired>>
    BY <1>2 DEF ClearList
  <2>2. clearList' => clearList
    BY <1>a, <1>2 DEF ClearList
  <2> QED BY <1>c, <2>1, <2>2, ConnAside
<1>3. CASE ReceiveNothing
  <2>1. UNCHANGED <<sent, arrived, disp, doubled, interruptions, clearRequired>>
    BY <1>3 DEF ReceiveNothing
  <2>2. clearList' => clearList
    BY <1>a, <1>3 DEF ReceiveNothing
  <2> QED BY <1>c, <2>1, <2>2, ConnAside
<1>4. ASSUME NEW expired \in BOOLEAN, Dequeue(expired)
      PROVE  ConnInv'
  <2>1. UNCHANGED <<sent, arrived, disp, doubled, interruptions, clearRequired>>
    BY <1>4 DEF Dequeue
  <2>2. clearList' => clearList
    BY <1>a, <1>4 DEF Dequeue
  <2> QED BY <1>c, <2>1, <2>2, ConnAside
<1>5. CASE DequeueExceeded
  <2>1. UNCHANGED <<sent, arrived, disp, doubled, interruptions, clearRequired>>
    BY <1>5 DEF DequeueExceeded
  <2>2. clearList' => clearList
    BY <1>a, <1>5 DEF DequeueExceeded
  <2> QED BY <1>c, <2>1, <2>2, ConnAside
<1>6. CASE beforeMessageIsConsumed
  <2>1. UNCHANGED <<sent, arrived, disp, doubled, interruptions, clearRequired>>
    BY <1>6 DEF beforeMessageIsConsumed
  <2>2. clearList' => clearList
    BY <1>a, <1>6 DEF beforeMessageIsConsumed
  <2> QED BY <1>c, <2>1, <2>2, ConnAside
<1>7. CASE ackLater
  <2>1. UNCHANGED <<sent, arrived, disp, doubled, interruptions, clearRequired>>
    BY <1>7 DEF ackLater
  <2>2. clearList' => clearList
    BY <1>a, <1>7 DEF ackLater
  <2> QED BY <1>c, <2>1, <2>2, ConnAside
<1>8. CASE ackLaterWrites
  <2>1. UNCHANGED <<sent, arrived, disp, doubled, interruptions, clearRequired>>
    BY <1>8 DEF ackLaterWrites
  <2>2. clearList' => clearList
    BY <1>a, <1>8 DEF ackLaterWrites
  <2> QED BY <1>c, <2>1, <2>2, ConnAside
<1>9. CASE ConsumedExpired
  <2>1. UNCHANGED <<sent, arrived, disp, doubled, interruptions, clearRequired>>
    BY <1>9 DEF ConsumedExpired
  <2>2. clearList' => clearList
    BY <1>a, <1>9 DEF ConsumedExpired
  <2> QED BY <1>c, <2>1, <2>2, ConnAside
<1>10. CASE ConsumedAuto
  <2>1. UNCHANGED <<sent, arrived, disp, doubled, interruptions, clearRequired>>
    BY <1>10 DEF ConsumedAuto
  <2>2. clearList' => clearList
    BY <1>a, <1>10 DEF ConsumedAuto
  <2> QED BY <1>c, <2>1, <2>2, ConnAside
<1>11. CASE ConsumedLater
  <2>1. UNCHANGED <<sent, arrived, disp, doubled, interruptions, clearRequired>>
    BY <1>11 DEF ConsumedLater
  <2>2. clearList' => clearList
    BY <1>a, <1>11 DEF ConsumedLater
  <2> QED BY <1>c, <2>1, <2>2, ConnAside
<1>12. CASE Acknowledge
  <2>1. UNCHANGED <<sent, arrived, disp, doubled, interruptions, clearRequired>>
    BY <1>12 DEF Acknowledge
  <2>2. clearList' => clearList
    BY <1>a, <1>12 DEF Acknowledge
  <2> QED BY <1>c, <2>1, <2>2, ConnAside
<1>13. CASE AcknowledgeNothing
  <2>1. UNCHANGED <<sent, arrived, disp, doubled, interruptions, clearRequired>>
    BY <1>13 DEF AcknowledgeNothing
  <2>2. clearList' => clearList
    BY <1>a, <1>13 DEF AcknowledgeNothing
  <2> QED BY <1>c, <2>1, <2>2, ConnAside
<1>14. CASE AcknowledgeAll
  <2>1. UNCHANGED <<sent, arrived, disp, doubled, interruptions, clearRequired>>
    BY <1>14 DEF AcknowledgeAll
  <2>2. clearList' => clearList
    BY <1>a, <1>14 DEF AcknowledgeAll
  <2> QED BY <1>c, <2>1, <2>2, ConnAside
<1>15. CASE AcknowledgeThrows
  <2>1. UNCHANGED <<sent, arrived, disp, doubled, interruptions, clearRequired>>
    BY <1>15 DEF AcknowledgeThrows
  <2>2. clearList' => clearList
    BY <1>a, <1>15 DEF AcknowledgeThrows
  <2> QED BY <1>c, <2>1, <2>2, ConnAside
<1>16. ASSUME NEW m \in Messages, AcknowledgeOne(m)
      PROVE  ConnInv'
  <2>1. UNCHANGED <<sent, arrived, disp, doubled, interruptions, clearRequired>>
    BY <1>16 DEF AcknowledgeOne
  <2>2. clearList' => clearList
    BY <1>a, <1>16 DEF AcknowledgeOne
  <2> QED BY <1>c, <2>1, <2>2, ConnAside
<1>17. ASSUME NEW op \in {"commit", "rollback"}, EndTransaction(op)
      PROVE  ConnInv'
  <2>1. UNCHANGED <<sent, arrived, disp, doubled, interruptions, clearRequired>>
    BY <1>17 DEF EndTransaction
  <2>2. clearList' => clearList
    BY <1>a, <1>17 DEF EndTransaction
  <2> QED BY <1>c, <2>1, <2>2, ConnAside
<1>18. CASE EndNothing
  <2>1. UNCHANGED <<sent, arrived, disp, doubled, interruptions, clearRequired>>
    BY <1>18 DEF EndNothing
  <2>2. clearList' => clearList
    BY <1>a, <1>18 DEF EndNothing
  <2> QED BY <1>c, <2>1, <2>2, ConnAside
<1>19. CASE CommitRequest
  <2>1. UNCHANGED <<sent, arrived, disp, doubled, interruptions, clearRequired>>
    BY <1>19 DEF CommitRequest
  <2>2. clearList' => clearList
    BY <1>a, <1>19 DEF CommitRequest
  <2> QED BY <1>c, <2>1, <2>2, ConnAside
<1>20. CASE CommitRequestFails
  <2>1. UNCHANGED <<sent, arrived, disp, doubled, interruptions, clearRequired>>
    BY <1>20 DEF CommitRequestFails
  <2>2. clearList' => clearList
    BY <1>a, <1>20 DEF CommitRequestFails
  <2> QED BY <1>c, <2>1, <2>2, ConnAside
<1>21. CASE RollbackRequest
  <2>1. UNCHANGED <<sent, arrived, disp, doubled, interruptions, clearRequired>>
    BY <1>21 DEF RollbackRequest
  <2>2. clearList' => clearList
    BY <1>a, <1>21 DEF RollbackRequest
  <2> QED BY <1>c, <2>1, <2>2, ConnAside
<1>22. CASE RollbackRequestFails
  <2>1. UNCHANGED <<sent, arrived, disp, doubled, interruptions, clearRequired>>
    BY <1>22 DEF RollbackRequestFails
  <2>2. clearList' => clearList
    BY <1>a, <1>22 DEF RollbackRequestFails
  <2> QED BY <1>c, <2>1, <2>2, ConnAside
<1>23. ASSUME NEW sync \in {"tx", "close"}, RunSync(sync)
      PROVE  ConnInv'
  <2>1. UNCHANGED <<sent, arrived, disp, doubled, interruptions, clearRequired>>
    BY <1>23 DEF RunSync
  <2>2. clearList' => clearList
    BY <1>a, <1>23 DEF RunSync
  <2> QED BY <1>c, <2>1, <2>2, ConnAside
<1>24. CASE SyncsDone
  <2>1. UNCHANGED <<sent, arrived, disp, doubled, interruptions, clearRequired>>
    BY <1>24 DEF SyncsDone
  <2>2. clearList' => clearList
    BY <1>a, <1>24 DEF SyncsDone
  <2> QED BY <1>c, <2>1, <2>2, ConnAside
<1>25. CASE commit
  <2>1. UNCHANGED <<sent, arrived, disp, doubled, interruptions, clearRequired>>
    BY <1>25 DEF commit
  <2>2. clearList' => clearList
    BY <1>a, <1>25 DEF commit
  <2> QED BY <1>c, <2>1, <2>2, ConnAside
<1>26. CASE Recover
  <2>1. UNCHANGED <<sent, arrived, disp, doubled, interruptions, clearRequired>>
    BY <1>26 DEF Recover
  <2>2. clearList' => clearList
    BY <1>a, <1>26 DEF Recover
  <2> QED BY <1>c, <2>1, <2>2, ConnAside
<1>27. CASE rollbackNothing
  <2>1. UNCHANGED <<sent, arrived, disp, doubled, interruptions, clearRequired>>
    BY <1>27 DEF rollbackNothing
  <2>2. clearList' => clearList
    BY <1>a, <1>27 DEF rollbackNothing, RolledBack
  <2> QED BY <1>c, <2>1, <2>2, ConnAside
<1>28. CASE rollbackPoison
  <2>1. UNCHANGED <<sent, arrived, disp, doubled, interruptions, clearRequired>>
    BY <1>28 DEF rollbackPoison
  <2>2. clearList' => clearList
    BY <1>a, <1>28 DEF rollbackPoison, RolledBack
  <2> QED BY <1>c, <2>1, <2>2, ConnAside
<1>29. ASSUME NEW delayed \in BOOLEAN, rollback(delayed)
      PROVE  ConnInv'
  <2>1. UNCHANGED <<sent, arrived, disp, doubled, interruptions, clearRequired>>
    BY <1>29 DEF rollback
  <2>2. clearList' => clearList
    BY <1>a, <1>29 DEF rollback, RolledBack
  <2> QED BY <1>c, <2>1, <2>2, ConnAside
<1>30. CASE CloseDeferred
  <2>1. UNCHANGED <<sent, arrived, disp, doubled, interruptions, clearRequired>>
    BY <1>30 DEF CloseDeferred
  <2>2. clearList' => clearList
    BY <1>a, <1>30 DEF CloseDeferred
  <2> QED BY <1>c, <2>1, <2>2, ConnAside
<1>31. CASE Close
  <2>1. UNCHANGED <<sent, arrived, disp, doubled, interruptions, clearRequired>>
    BY <1>31 DEF Close
  <2>2. clearList' => clearList
    BY <1>a, <1>31 DEF Close
  <2> QED BY <1>c, <2>1, <2>2, ConnAside
<1>32. CASE dispose
  <2>1. UNCHANGED <<sent, arrived, disp, doubled, interruptions, clearRequired>>
    BY <1>32 DEF dispose, ExecutorTerminated
  <2>2. clearList' => clearList
    BY <1>a, <1>32 DEF dispose, ExecutorTerminated
  <2> QED BY <1>c, <2>1, <2>2, ConnAside
<1>33. ASSUME NEW m \in Messages, NEW count \in BrokerCounts, OnDispatch(m, count)
      PROVE  ConnInv'
  <2>1. /\ disp.pc = "idle" /\ disp'.pc = "progress" /\ disp'.msg = m
        /\ \A s \in sent : s < m
        /\ sent' = sent \cup {m} /\ arrived' = arrived \cup {m}
        /\ UNCHANGED <<mixed, doubled, interruptions, clearRequired, clearList>>
    BY <1>33 DEF OnDispatch
  <2>2. ASSUME Connected PROVE Connected'
    BY <1>e, <2>1, <2>2 DEF Connected, Waiting, ConnInv
  <2> QED BY <2>1, <2>2 DEF ConnInv
<1>34. CASE DispatchClearsProgress
  <2>1. /\ UNCHANGED <<sent, arrived, mixed, doubled, interruptions, clearList>>
        /\ disp' = disp \/ (disp.pc = "progress" /\ disp'.pc = "list" /\ disp'.msg = disp.msg)
        /\ clearMessagesInProgress
    BY <1>d, <1>34 DEF DispatchClearsProgress
  <2>2. /\ clearRequired > 0 => clearRequired' = clearRequired - 1
        /\ ~(clearRequired > 0) => clearRequired' = clearRequired
    BY <2>1, SetsProgress
  <2>3. \A m : Waiting(m)' <=> Waiting(m)
    BY <2>1 DEF Waiting
  <2>4. ASSUME Connected PROVE Connected'
    BY <2>1, <2>2, <2>3, <2>4 DEF Connected, Counts
  <2> QED BY <2>1, <2>4 DEF ConnInv
<1>35. CASE DispatchClearsList
  <2>1. /\ UNCHANGED <<sent, arrived, mixed, doubled, interruptions, clearRequired>>
        /\ disp.pc = "list" /\ disp'.pc = "put" /\ disp'.msg = disp.msg
        /\ clearDeliveredList
    BY <1>d, <1>35 DEF DispatchClearsList
  <2>2. ~clearList'
    BY <1>a, <2>1
  <2>3. \A m : Waiting(m)' <=> Waiting(m)
    BY <2>1 DEF Waiting
  <2>4. ASSUME Connected PROVE Connected'
    BY <2>1, <2>2, <2>3, <2>4 DEF Connected, Counts
  <2> QED BY <2>1, <2>4 DEF ConnInv
<1>36. CASE DispatchClosed
  <2>1. /\ UNCHANGED <<sent, arrived, doubled, interruptions, clearRequired, clearList>>
        /\ disp.pc = "put" /\ disp'.pc = "idle"
    BY <1>36 DEF DispatchClosed, IdleDisp
  <2>2. ASSUME Connected PROVE Connected'
    BY <2>1, <2>2 DEF Connected, Waiting, Counts
  <2> QED BY <1>c, <2>1, <2>2 DEF ConnInv
<1>37. CASE DispatchFresh
  <2>1. /\ UNCHANGED <<sent, arrived, doubled, interruptions, clearRequired, clearList>>
        /\ disp.pc = "put" /\ disp'.pc = "idle"
    BY <1>37 DEF DispatchFresh, IdleDisp
  <2>2. ASSUME Connected PROVE Connected'
    BY <2>1, <2>2 DEF Connected, Waiting, Counts
  <2> QED BY <1>c, <2>1, <2>2 DEF ConnInv
<1>38. CASE DispatchReplay
  <2>1. /\ UNCHANGED <<sent, arrived, doubled, interruptions, clearRequired, clearList>>
        /\ disp.pc = "put" /\ disp'.pc = "idle"
    BY <1>38 DEF DispatchReplay, IdleDisp
  <2>2. ASSUME Connected PROVE Connected'
    BY <2>1, <2>2 DEF Connected, Waiting, Counts
  <2> QED BY <1>c, <2>1, <2>2 DEF ConnInv
<1>39. CASE DispatchDuplicate
  <2>1. /\ UNCHANGED <<sent, arrived, doubled, interruptions, clearRequired, clearList>>
        /\ disp.pc = "put" /\ disp'.pc = "idle"
    BY <1>39 DEF DispatchDuplicate, IdleDisp
  <2>2. ASSUME Connected PROVE Connected'
    BY <2>1, <2>2 DEF Connected, Waiting, Counts
  <2> QED BY <1>c, <2>1, <2>2 DEF ConnInv
<1>40. CASE transportInterrupted
  <2>1. /\ sent' = {} /\ arrived' = arrived /\ disp' = disp
        /\ interruptions' = interruptions + 1 /\ clearRequired' = clearRequired + 1
        /\ doubled' = (doubled \/ clearRequired > 0)
        /\ mixed' = (mixed \/ disp.pc # "idle" \/ app.pc \notin {"idle", "wait"})
    BY <1>40 DEF transportInterrupted
  <2>2. ~mixed' => disp.pc = "idle"
    BY <2>1
  <2>3. doubled' => doubled \/ clearRequired > 0
    BY <2>1 DEF Shape
  <2>4. ~doubled' => clearRequired = 0
    <3>1. ~doubled' => ~(clearRequired > 0)
      BY <2>1, Zenon
    <3> QED BY <3>1 DEF Counts
  <2>5. doubled' => interruptions' >= 2
    BY <2>1, <2>3 DEF ConnInv, Counts, FirstConnection
  <2>6. ~mixed' => Connected'
    BY <2>1, <2>2, <2>4 DEF Connected
  <2> QED BY <2>1, <2>5, <2>6 DEF ConnInv, Counts
<1>41. CASE StartConsumer
  <2>1. UNCHANGED <<sent, arrived, disp, doubled, interruptions, clearRequired>>
    BY <1>41 DEF StartConsumer
  <2>2. clearList' => clearList
    BY <1>a, <1>41 DEF StartConsumer
  <2> QED BY <1>c, <2>1, <2>2, ConnAside
<1>42. CASE ClearConsumer
  <2>1. /\ UNCHANGED <<sent, arrived, mixed, doubled, interruptions, clearList>>
        /\ disp' = disp \/ (disp.pc = "progress" /\ disp'.pc = "list" /\ disp'.msg = disp.msg)
        /\ clearMessagesInProgress
    BY <1>d, <1>42 DEF ClearConsumer
  <2>2. /\ clearRequired > 0 => clearRequired' = clearRequired - 1
        /\ ~(clearRequired > 0) => clearRequired' = clearRequired
    BY <2>1, SetsProgress
  <2>3. \A m : Waiting(m)' <=> Waiting(m)
    BY <2>1 DEF Waiting
  <2>4. ASSUME Connected PROVE Connected'
    BY <2>1, <2>2, <2>3, <2>4 DEF Connected, Counts
  <2> QED BY <2>1, <2>4 DEF ConnInv
<1>43. CASE AckTaskRuns
  <2>1. UNCHANGED <<sent, arrived, disp, doubled, interruptions, clearRequired>>
    BY <1>43 DEF AckTaskRuns
  <2>2. clearList' => clearList
    BY <1>a, <1>43 DEF AckTaskRuns
  <2> QED BY <1>c, <2>1, <2>2, ConnAside
<1> QED
  BY <1>1, <1>2, <1>3, <1>4, <1>5, <1>6, <1>7, <1>8, <1>9, <1>10, <1>11, <1>12, <1>13, <1>14,
     <1>15, <1>16, <1>17, <1>18, <1>19, <1>20, <1>21, <1>22, <1>23, <1>24, <1>25, <1>26, <1>27,
     <1>28, <1>29, <1>30, <1>31, <1>32, <1>33, <1>34, <1>35, <1>36, <1>37, <1>38, <1>39, <1>40,
     <1>41, <1>42, <1>43
  DEF Next, Application, Transport, Tasks

-----------------------------------------------------------------------------
(* Retained from one step to the next, when nothing new is held. *)
LEMMA RetainedKeeps ==
    ASSUME Retained, doubled => doubled',
           ackTask' = NoAck, pendingAck'.type # "consumed",
           ~closed' => /\ ~closed /\ Held' \subseteq Held
                       /\ \A m \in sent' : Open(m)' => m \in sent /\ Open(m) /\ (m \in Held => m \in Held'),
           \A d \in Del' : d \in got' \/ (app'.pc = "after" /\ app'.expired /\ d = app'.msg)
    PROVE  Retained'
<1>1. ASSUME ~closed', NEW m \in sent', Open(m)'
      PROVE  m \in Held' \/ (doubled' /\ \A e \in Held' : m < e)
  <2>1. m \in sent /\ Open(m) /\ (m \in Held => m \in Held') /\ Held' \subseteq Held /\ ~closed
    BY <1>1
  <2>2. m \in Held \/ (doubled /\ \A e \in Held : m < e)
    BY <2>1 DEF Retained
  <2> QED BY <2>1, <2>2
<1> QED BY <1>1 DEF Retained

(* Outside transactions and batch mode every step retains what is open. *)
LEMMA RetainedNext ==
    ASSUME Shape, Counts, FirstConnection, Kept, ConnInv, Connected, mode = "auto" => AutoSettles,
           ~Transacted, mode # "batch", ~mixed, ~mixed', Retained,
           final \in [Messages -> SUBSET Whys], Next
    PROVE  Retained'
<1> USE DEF channelVars, ackVars, txVars, taskVars, brokerVars,
        appVars, boundVars, auditVars
<1>a. Ended
  BY EndedNext
<1>b. Onward
  BY CountsNext
<1>c. doubled => doubled'
  BY <1>b DEF Onward
<1>d. /\ disp = [pc |-> disp.pc, msg |-> disp.msg, count |-> disp.count]
      /\ app = [pc |-> app.pc, op |-> app.op, msg |-> app.msg, expired |-> app.expired,
                old |-> app.old, todo |-> app.todo]
  BY DEF Shape, DispShape, AppShape
<1>e. Messages \subseteq Int /\ sent \subseteq Messages /\ sent \subseteq Int
  BY MessagesInt DEF Counts
<1>f. Lists /\ previously = <<>>
  BY DEF Kept, Line, Lists
<1>g. Del \subseteq Messages /\ Unc \subseteq Messages
  BY <1>f, SetsIn
<1>h. /\ Held = Unc \cup InHand \cup Del /\ Held' = Unc' \cup InHand' \cup Del'
      /\ (app.pc = "before" => InHand = {app.msg}) /\ (app.pc # "before" => InHand = {})
      /\ (app'.pc = "before" => InHand' = {app'.msg}) /\ (app'.pc # "before" => InHand' = {})
  BY SetsHeld
<1>i. ackTask = NoAck /\ pendingAck.type # "consumed" /\ NoAck.type # "consumed"
  BY DEF Retained, NoAck
<1>j. \A d \in Del : d \in got \/ (app.pc = "after" /\ app.expired /\ d = app.msg)
  BY DEF Retained
<1>k. clearDeliveredList => /\ ~clearList' /\ Del' = (IF clearList THEN {} ELSE Del)
                            /\ pendingAck'.type # "consumed"
  BY <1>i, SetsCleared
<1>l. \A m \in sent : ~Waiting(m) => ~clearList
  BY DEF Connected
<1>m. \A m \in Messages : final'[m] = {} => final[m] = {}
  BY <1>a DEF Ended
<1>n. NotReplayed = {} /\ Returned = delivered
  BY <1>f, ReturnedAll DEF NotReplayed
<1>o. Whys = {"consumed", "poison", "expired", "duplicate"}
  BY DEF Whys
<1>p. /\ delivered' = delivered => Del' = Del
      /\ unconsumed' = unconsumed => Unc' = Unc
      /\ delivered' = <<>> => Del' = {}
      /\ unconsumed' = <<>> => Unc' = {}
  BY SetsSame
<1>q. ASSUME sent' = sent, disp' = disp, NEW m \in sent, Open(m)'
      PROVE  Open(m) /\ final'[m] = {}
  BY <1>e, <1>m, <1>q DEF Open, Waiting
<1>1. CASE Receive
  <2>1. /\ UNCHANGED <<sent, disp, closed, ackTask, unconsumed, got>> /\ clearDeliveredList
        /\ app.pc \notin {"before", "after"} /\ app'.pc \notin {"before", "after"}
    BY <1>d, <1>1 DEF Receive, Call, IdleApp
  <2>2. Unc' = Unc /\ Del' \subseteq Del /\ (~clearList => Del' = Del)
    BY <1>k, <1>p, <2>1
  <2>3. \A m \in sent' : Open(m)' => m \in sent /\ Open(m) /\ (m \in Held => m \in Held')
    BY <1>h, <1>l, <1>q, <2>1, <2>2 DEF Open
  <2> QED BY <1>c, <1>h, <1>i, <1>j, <1>k, <2>1, <2>2, <2>3, RetainedKeeps
<1>2. CASE ClearList
  <2>1. /\ UNCHANGED <<sent, disp, closed, ackTask, unconsumed, got>> /\ clearDeliveredList
        /\ app.pc \notin {"before", "after"} /\ app'.pc \notin {"before", "after"}
    BY <1>d, <1>2 DEF ClearList, Goto
  <2>2. Unc' = Unc /\ Del' \subseteq Del /\ (~clearList => Del' = Del)
    BY <1>k, <1>p, <2>1
  <2>3. \A m \in sent' : Open(m)' => m \in sent /\ Open(m) /\ (m \in Held => m \in Held')
    BY <1>h, <1>l, <1>q, <2>1, <2>2 DEF Open
  <2> QED BY <1>c, <1>h, <1>i, <1>j, <1>k, <2>1, <2>2, <2>3, RetainedKeeps
<1>3. CASE ReceiveNothing
  <2>1. /\ UNCHANGED <<sent, disp, closed, ackTask, unconsumed, delivered, pendingAck, got>>
        /\ app.pc = "wait" /\ app'.pc \notin {"before", "after"}
    BY <1>d, <1>3 DEF ReceiveNothing, IdleApp
  <2>2. Unc' = Unc /\ Del' = Del /\ InHand' = InHand
    BY <1>h, <1>p, <2>1
  <2> QED BY <1>c, <1>h, <1>i, <1>j, <1>q, <2>1, <2>2, RetainedKeeps
<1>4. ASSUME NEW expired \in BOOLEAN, Dequeue(expired)
      PROVE  Retained'
  <2> DEFINE h == Head(unconsumed)
  <2>1. /\ UNCHANGED <<sent, disp, closed, ackTask, delivered, pendingAck, got>>
        /\ app.pc = "wait" /\ app'.pc = "before" /\ app'.msg = h
        /\ unconsumed # <<>> /\ unconsumed' = Tail(unconsumed)
    BY <1>d, <1>4 DEF Dequeue
  <2>2. h \in Unc /\ Unc' = Unc \ {h}
    BY <1>f, <2>1, SetsTail
  <2> HIDE DEF h
  <2>3. Held' = Held /\ Del' = Del
    BY <1>h, <1>p, <2>1, <2>2
  <2> QED BY <1>c, <1>i, <1>j, <1>q, <2>1, <2>3, RetainedKeeps
<1>5. CASE DequeueExceeded
  BY <1>5 DEF DequeueExceeded
<1>6. CASE beforeMessageIsConsumed
  <2>1. /\ UNCHANGED <<sent, disp, closed, ackTask, unconsumed, pendingAck>>
        /\ app.pc = "before" /\ app'.pc = "after" /\ app'.msg = app.msg
        /\ app'.expired = app.expired
        /\ delivered' = <<app.msg>> \o delivered
        /\ got' = IF app.expired THEN got ELSE got \cup {app.msg}
    BY <1>d, <1>6 DEF beforeMessageIsConsumed, Goto
  <2>2. app.msg \in Messages
    BY <1>e, <2>1 DEF Kept, Present, InPresent
  <2>3. Del' = Del \cup {app.msg} /\ Unc' = Unc
    BY <1>f, <1>p, <2>1, <2>2, SetsPrepend
  <2>4. Held' = Held
    BY <1>h, <2>1, <2>3
  <2> QED BY <1>c, <1>i, <1>j, <1>q, <2>1, <2>3, <2>4, RetainedKeeps
<1>7. CASE ackLater
  <2>1. /\ UNCHANGED <<sent, disp, closed, ackTask, unconsumed, delivered, pendingAck, got>>
        /\ app.pc = "later" /\ app'.pc \notin {"before", "after"}
    BY <1>d, <1>7 DEF ackLater
  <2>2. Unc' = Unc /\ Del' = Del /\ InHand' = InHand
    BY <1>h, <1>p, <2>1
  <2> QED BY <1>c, <1>h, <1>i, <1>j, <1>q, <2>1, <2>2, RetainedKeeps
<1>8. CASE ackLaterWrites
  <2>1. /\ UNCHANGED <<sent, disp, closed, ackTask, unconsumed, delivered, got>>
        /\ app.pc = "write" /\ app'.pc \notin {"before", "after"}
        /\ pendingAck'.type # "consumed"
    BY <1>d, <1>i, <1>8 DEF ackLaterWrites, IdleApp
  <2>2. Unc' = Unc /\ Del' = Del /\ InHand' = InHand
    BY <1>h, <1>p, <2>1
  <2> QED BY <1>c, <1>h, <1>i, <1>j, <1>q, <2>1, <2>2, RetainedKeeps
<1>9. CASE ConsumedExpired
  <2>1. /\ UNCHANGED <<sent, disp, closed, ackTask, unconsumed, pendingAck>>
        /\ app.pc = "after" /\ app'.pc \notin {"before", "after"} /\ got' = got
        /\ delivered' = RemoveFirst(delivered, app.msg) /\ SettleOne(app.msg, "expired")
    BY <1>d, <1>9 DEF ConsumedExpired, LookAgain, IdleApp
  <2>2. Unc' = Unc /\ Del' = Del \ {app.msg}
    BY <1>f, <1>p, <2>1, SetsRemove
  <2>3. \A k \in sent : final'[k] = {} => k # app.msg
    BY <1>e, <1>o, <2>1, SettleOneFinal
  <2>4. \A k \in sent : Open(k)' => Open(k) /\ k # app.msg
    BY <1>e, <1>q, <2>1, <2>3
  <2> QED BY <1>c, <1>h, <1>i, <1>j, <2>1, <2>2, <2>4, RetainedKeeps
<1>10. CASE ConsumedAuto
  <2>1. /\ UNCHANGED <<sent, disp, closed, ackTask, unconsumed, pendingAck>>
        /\ app.pc = "after" /\ app'.pc \notin {"before", "after"}
        /\ delivered' = <<>> /\ mode = "auto"
        /\ delivered # <<>> => SendAck(makeAckForAllDeliveredMessages)
    BY <1>d, <1>10 DEF ConsumedAuto, IdleApp
  <2>2. delivered # <<>>
    BY <2>1 DEF AutoSettles
  <2> DEFINE ack == makeAckForAllDeliveredMessages
  <2>3. /\ SendAck(ack) /\ ack.type = "consumed" /\ ack.first = Last(delivered)
        /\ ack.last = Head(delivered)
    BY <2>1, <2>2 DEF makeAckForAllDeliveredMessages
  <2>4. \A m \in Del : m \in ack.first..ack.last
    BY <1>f, <2>2, <2>3, SetsEnds
  <2> HIDE DEF ack
  <2>5. \A m \in sent \cap Del : final'[m] # {}
    BY <1>e, <2>3, <2>4, SendAckFinal
  <2>6. Unc' = Unc /\ Del' = {}
    BY <1>p, <2>1
  <2>7. \A m \in sent : Open(m)' => Open(m) /\ m \notin Del
    BY <1>q, <2>1, <2>5
  <2> QED BY <1>c, <1>h, <1>i, <2>1, <2>6, <2>7, RetainedKeeps
<1>11. CASE ConsumedLater
  <2>1. /\ UNCHANGED <<sent, disp, closed, ackTask, unconsumed, delivered, pendingAck, got>>
        /\ app.pc = "after" /\ ~app.expired /\ app'.pc \notin {"before", "after"}
    BY <1>d, <1>11 DEF ConsumedLater, IdleApp
  <2>2. Unc' = Unc /\ Del' = Del /\ InHand' = InHand
    BY <1>h, <1>p, <2>1
  <2> QED BY <1>c, <1>h, <1>i, <1>j, <1>q, <2>1, <2>2, RetainedKeeps
<1>12. CASE Acknowledge
  <2>1. /\ UNCHANGED <<sent, disp, closed, ackTask, unconsumed, got>> /\ clearDeliveredList
        /\ app.pc \notin {"before", "after"} /\ app'.pc \notin {"before", "after"}
    BY <1>d, <1>12 DEF Acknowledge, Call, IdleApp
  <2>2. Unc' = Unc /\ Del' \subseteq Del /\ (~clearList => Del' = Del)
    BY <1>k, <1>p, <2>1
  <2>3. \A m \in sent' : Open(m)' => m \in sent /\ Open(m) /\ (m \in Held => m \in Held')
    BY <1>h, <1>l, <1>q, <2>1, <2>2 DEF Open
  <2> QED BY <1>c, <1>h, <1>i, <1>j, <1>k, <2>1, <2>2, <2>3, RetainedKeeps
<1>13. CASE AcknowledgeNothing
  <2>1. /\ UNCHANGED <<sent, disp, closed, ackTask, unconsumed, delivered, pendingAck, got>>
        /\ app.pc = "ack" /\ app'.pc \notin {"before", "after"}
    BY <1>d, <1>13 DEF AcknowledgeNothing, Acknowledged, IdleApp
  <2>2. Unc' = Unc /\ Del' = Del /\ InHand' = InHand
    BY <1>h, <1>p, <2>1
  <2> QED BY <1>c, <1>h, <1>i, <1>j, <1>q, <2>1, <2>2, RetainedKeeps
<1>14. CASE AcknowledgeAll
  <2>1. /\ UNCHANGED <<sent, disp, closed, ackTask, unconsumed>> /\ pendingAck' = NoAck
        /\ app.pc = "ack" /\ app'.pc \notin {"before", "after"}
        /\ delivered' = <<>> /\ delivered # <<>>
        /\ SendAck(makeAckForAllDeliveredMessages)
    BY <1>d, <1>14 DEF AcknowledgeAll, Acknowledged, IdleApp
  <2> DEFINE ack == makeAckForAllDeliveredMessages
  <2>3. /\ SendAck(ack) /\ ack.type = "consumed" /\ ack.first = Last(delivered)
        /\ ack.last = Head(delivered)
    BY <2>1 DEF makeAckForAllDeliveredMessages
  <2>4. \A m \in Del : m \in ack.first..ack.last
    BY <1>f, <2>1, <2>3, SetsEnds
  <2> HIDE DEF ack
  <2>5. \A m \in sent \cap Del : final'[m] # {}
    BY <1>e, <2>3, <2>4, SendAckFinal
  <2>6. Unc' = Unc /\ Del' = {}
    BY <1>p, <2>1
  <2>7. \A m \in sent : Open(m)' => Open(m) /\ m \notin Del
    BY <1>q, <2>1, <2>5
  <2> QED BY <1>c, <1>h, <1>i, <2>1, <2>6, <2>7, RetainedKeeps
<1>15. CASE AcknowledgeThrows
  BY <1>15 DEF AcknowledgeThrows
<1>16. ASSUME NEW m \in Messages, AcknowledgeOne(m)
      PROVE  Retained'
  <2>1. /\ UNCHANGED <<sent, disp, closed, ackTask, unconsumed, pendingAck>>
        /\ app' = app /\ app.pc = "idle" /\ got' = got \ {m}
        /\ delivered' = RemoveFirst(delivered, m) /\ SettleOne(m, "consumed")
    BY <1>d, <1>16 DEF AcknowledgeOne
  <2>2. Unc' = Unc /\ Del' = Del \ {m}
    BY <1>f, <1>p, <2>1, SetsRemove
  <2>3. \A k \in sent : final'[k] = {} => k # m
    BY <1>e, <1>o, <2>1, SettleOneFinal
  <2>4. \A k \in sent : Open(k)' => Open(k) /\ k # m
    BY <1>e, <1>q, <2>1, <2>3
  <2> QED BY <1>c, <1>h, <1>i, <1>j, <2>1, <2>2, <2>4, RetainedKeeps
<1>17. ASSUME NEW op \in {"commit", "rollback"}, EndTransaction(op)
      PROVE  Retained'
  BY <1>17 DEF EndTransaction
<1>18. CASE EndNothing
  BY <1>18 DEF EndNothing, Shape
<1>19. CASE CommitRequest
  BY <1>19 DEF CommitRequest, Shape
<1>20. CASE CommitRequestFails
  BY <1>20 DEF CommitRequestFails, Shape
<1>21. CASE RollbackRequest
  BY <1>21 DEF RollbackRequest, Shape
<1>22. CASE RollbackRequestFails
  BY <1>22 DEF RollbackRequestFails, Shape
<1>23. ASSUME NEW sync \in {"tx", "close"}, RunSync(sync)
      PROVE  Retained'
  BY <1>23 DEF RunSync, Shape
<1>24. CASE SyncsDone
  BY <1>24 DEF SyncsDone, Shape
<1>25. CASE commit
  BY <1>25 DEF commit, Shape
<1>26. CASE Recover
  <2>1. /\ UNCHANGED <<sent, disp, closed, ackTask, unconsumed, got>> /\ clearDeliveredList
        /\ app.pc \notin {"before", "after"} /\ app'.pc \notin {"before", "after"}
    BY <1>d, <1>26 DEF Recover, Call, IdleApp
  <2>2. Unc' = Unc /\ Del' \subseteq Del /\ (~clearList => Del' = Del)
    BY <1>k, <1>p, <2>1
  <2>3. \A m \in sent' : Open(m)' => m \in sent /\ Open(m) /\ (m \in Held => m \in Held')
    BY <1>h, <1>l, <1>q, <2>1, <2>2 DEF Open
  <2> QED BY <1>c, <1>h, <1>i, <1>j, <1>k, <2>1, <2>2, <2>3, RetainedKeeps
<1>27. CASE rollbackNothing
  <2>1. /\ UNCHANGED <<sent, disp, closed, ackTask, pendingAck>>
        /\ app.pc = "rollback" /\ app'.pc \notin {"before", "after"}
        /\ delivered' = <<>>
    BY <1>d, <1>27 DEF rollbackNothing, RolledBack, IdleApp
  <2>2. unconsumed' = unconsumed /\ delivered = <<>>
    BY <1>n, <1>27 DEF rollbackNothing
  <2>3. Unc' = Unc /\ Del' = {} /\ Del = {}
    BY <1>p, <2>1, <2>2, SetsSame
  <2> QED BY <1>c, <1>h, <1>i, <1>q, <2>1, <2>3, RetainedKeeps
<1>28. CASE rollbackPoison
  <2>1. /\ UNCHANGED <<sent, disp, closed, ackTask, pendingAck>>
        /\ app.pc = "rollback" /\ app'.pc \notin {"before", "after"}
        /\ delivered' = <<>>
    BY <1>d, <1>28 DEF rollbackPoison, RolledBack, IdleApp
  <2>2. /\ unconsumed' = unconsumed /\ delivered # <<>>
        /\ Settle(Covered(Last(Returned), Head(Returned)), "poison")
    BY <1>n, <1>28 DEF rollbackPoison
  <2> DEFINE ms == Covered(Last(Returned), Head(Returned))
  <2>3. Unc' = Unc /\ Del' = {}
    BY <1>p, <2>1, <2>2
  <2>4. \A m \in Del : m \in Last(Returned)..Head(Returned)
    BY <1>f, <1>n, <2>2, SetsEnds
  <2>5. \A m \in Del \cap sent : final[m] = {} => m \in ms
    BY <2>4 DEF Covered
  <2> HIDE DEF ms
  <2>6. \A m \in Messages : final'[m] = {} => m \notin ms
    BY <1>o, <2>2, SettleFinal DEF ms
  <2>7. \A m \in sent : Open(m)' => Open(m) /\ m \notin Del
    <3> SUFFICES ASSUME NEW m \in sent, Open(m)' PROVE Open(m) /\ m \notin Del
      OBVIOUS
    <3>1. Open(m) /\ final'[m] = {} /\ final[m] = {}
      BY <1>e, <1>m, <1>q, <2>1
    <3> QED BY <1>e, <2>5, <2>6, <3>1
  <2> QED BY <1>c, <1>h, <1>i, <2>1, <2>3, <2>7, RetainedKeeps
<1>29. ASSUME NEW delayed \in BOOLEAN, rollback(delayed)
      PROVE  Retained'
  <2>1. /\ UNCHANGED <<sent, disp, closed, ackTask, pendingAck>>
        /\ app.pc = "rollback" /\ app'.pc \notin {"before", "after"}
        /\ delivered' = <<>>
    BY <1>d, <1>29 DEF rollback, RolledBack, IdleApp
  <2>2. unconsumed' = PutBack
    BY <1>29 DEF rollback
  <2>3. Unc' = Unc \cup Del /\ Del' = {}
    BY <1>f, <1>n, <1>p, <2>1, <2>2, SetsBack
  <2> QED BY <1>c, <1>h, <1>i, <1>q, <2>1, <2>3, RetainedKeeps
<1>30. CASE CloseDeferred
  <2>1. /\ UNCHANGED <<sent, disp, closed, ackTask, unconsumed, delivered, pendingAck, got, app>>
    BY <1>30 DEF CloseDeferred
  <2>2. Unc' = Unc /\ Del' = Del /\ InHand' = InHand
    BY <1>h, <1>p, <2>1
  <2> QED BY <1>c, <1>h, <1>i, <1>j, <1>q, <2>1, <2>2, RetainedKeeps
<1>31. CASE Close
  <2>1. /\ UNCHANGED <<sent, disp, closed, unconsumed, got>>
        /\ app.pc = "idle" /\ app'.pc \notin {"before", "after"} /\ deliverAcks
    BY <1>d, <1>31 DEF Close, Call, IdleApp
  <2>2. mode = "auto" => delivered = <<>>
    BY <2>1 DEF AutoSettles
  <2>3. UNCHANGED <<ackTask, pendingAck, delivered>>
    BY <1>i, <2>1, <2>2 DEF deliverAcks
  <2>4. Unc' = Unc /\ Del' = Del /\ InHand' = InHand
    BY <1>h, <1>p, <2>1, <2>3
  <2> QED BY <1>c, <1>h, <1>i, <1>j, <1>q, <2>1, <2>3, <2>4, RetainedKeeps
<1>32. CASE dispose
  <2>1. app.pc = "settle" /\ ~closed
    BY <1>32 DEF dispose, ExecutorTerminated, Shape
  <2>2. closed' = TRUE /\ delivered' = <<>> /\ UNCHANGED <<ackTask, pendingAck>>
    BY <1>32, <2>1 DEF dispose, ExecutorTerminated
  <2>3. Del' = {}
    BY <1>p, <2>2
  <2> QED BY <1>c, <1>i, <2>2, <2>3, RetainedKeeps
<1>33. ASSUME NEW m \in Messages, NEW count \in BrokerCounts, OnDispatch(m, count)
      PROVE  Retained'
  <2>1. /\ disp.pc = "idle" /\ disp'.pc = "progress" /\ disp'.msg = m /\ sent' = sent \cup {m}
        /\ UNCHANGED <<closed, ackTask, unconsumed, delivered, pendingAck, got, app, final>>
    BY <1>33 DEF OnDispatch
  <2>2. Unc' = Unc /\ Del' = Del /\ InHand' = InHand
    BY <1>h, <1>p, <2>1
  <2>3. \A k \in sent' : Open(k)' => k \in sent /\ Open(k)
    BY <2>1 DEF Open, Waiting
  <2> QED BY <1>c, <1>h, <1>i, <1>j, <2>1, <2>2, <2>3, RetainedKeeps
<1>34. CASE DispatchClearsProgress
  <2>1. /\ UNCHANGED <<sent, closed, ackTask, delivered, pendingAck, got, app, final>>
        /\ disp' = disp \/ (disp.pc = "progress" /\ disp'.pc = "list" /\ disp'.msg = disp.msg)
        /\ clearMessagesInProgress
    BY <1>d, <1>34 DEF DispatchClearsProgress
  <2>2. Del' = Del /\ InHand' = InHand
    BY <1>h, <1>p, <2>1
  <2>3. \A k \in sent : Open(k)' => Open(k)
    BY <2>1 DEF Open, Waiting
  <2>4. CASE ~(clearRequired > 0)
    <3>1. Unc' = Unc
      BY <2>1, <2>4, SetsProgress
    <3> QED BY <1>c, <1>h, <1>i, <1>j, <2>1, <2>2, <2>3, <3>1, RetainedKeeps
  <2>5. CASE clearRequired > 0
    <3>1. Unc' = {} /\ clearRequired # 0
      BY <2>1, <2>5, SetsProgress
    <3>2. CASE \A k \in sent : ~Open(k)
      BY <1>c, <1>h, <1>i, <1>j, <2>1, <2>2, <2>3, <3>1, <3>2, RetainedKeeps
    <3>3. CASE \E k \in sent : Open(k)
      <4>1. \E k \in sent : ~Waiting(k)
        BY <3>3 DEF Open
      <4>2. doubled /\ ~clearList
        BY <1>l, <2>5, <4>1 DEF Connected
      <4>3. delivered = <<>> /\ app.pc # "before"
        BY <3>1, <4>2 DEF Kept, Cleared
      <4>4. Held' = {} /\ Del = {}
        BY <1>h, <2>2, <3>1, <4>3, SetsSame
      <4> QED BY <1>c, <1>i, <2>1, <2>2, <4>2, <4>4 DEF Retained
    <3> QED BY <3>2, <3>3
  <2> QED BY <2>4, <2>5
<1>35. CASE DispatchClearsList
  <2>1. /\ UNCHANGED <<sent, closed, ackTask, unconsumed, got, app, final>>
        /\ disp.pc = "list" /\ disp'.pc = "put" /\ disp'.msg = disp.msg
        /\ clearDeliveredList
    BY <1>d, <1>35 DEF DispatchClearsList
  <2>2. Unc' = Unc /\ InHand' = InHand /\ Del' \subseteq Del /\ (~clearList => Del' = Del)
    BY <1>h, <1>k, <1>p, <2>1
  <2>3. \A k \in sent : Open(k)' => Open(k) /\ ~clearList
    BY <1>l, <2>1 DEF Open, Waiting
  <2> QED BY <1>c, <1>h, <1>i, <1>j, <1>k, <2>1, <2>2, <2>3, RetainedKeeps
<1>36. CASE DispatchClosed
  <2>1. UNCHANGED <<closed, ackTask, delivered, pendingAck, got, app>> /\ closed
    BY <1>36 DEF DispatchClosed
  <2>2. Del' = Del
    BY <1>p, <2>1
  <2> QED BY <1>c, <1>i, <1>j, <2>1, <2>2, RetainedKeeps
<1>37. CASE DispatchFresh
  <2>1. /\ UNCHANGED <<sent, closed, ackTask, delivered, pendingAck, got, app, final>>
        /\ disp.pc = "put" /\ disp'.pc = "idle" /\ unconsumed' = Append(unconsumed, disp.msg)
    BY <1>37 DEF DispatchFresh, IdleDisp
  <2>2. disp.msg \in sent /\ disp.msg \in Messages /\ \A s \in sent : s <= disp.msg
    BY <1>e, <2>1 DEF Connected
  <2>3. Unc' = Unc \cup {disp.msg} /\ Del' = Del /\ InHand' = InHand
    BY <1>f, <1>h, <1>p, <2>1, <2>2, SetsAppend
  <2>4. Held' = Held \cup {disp.msg}
    BY <1>h, <2>3
  <2>5. \A k \in sent : Open(k)' => Open(k) \/ k = disp.msg
    BY <2>1 DEF Open, Waiting
  <2>6. \A k \in sent : k = disp.msg \/ k < disp.msg
    <3> SUFFICES ASSUME NEW k \in sent PROVE k = disp.msg \/ k < disp.msg
      OBVIOUS
    <3>1. k \in Int /\ disp.msg \in Int /\ k <= disp.msg
      BY <1>e, <2>2
    <3> QED BY <3>1
  <2>7. ASSUME ~closed, NEW k \in sent, Open(k)'
        PROVE  k \in Held' \/ (doubled' /\ \A e \in Held' : k < e)
    <3>1. CASE k = disp.msg
      BY <2>4, <3>1
    <3>2. CASE k # disp.msg
      <4>1. Open(k) /\ k < disp.msg
        BY <2>5, <2>6, <2>7, <3>2
      <4>2. k \in Held \/ (doubled /\ \A e \in Held : k < e)
        BY <2>7, <4>1 DEF Retained
      <4> QED BY <1>c, <2>4, <4>1, <4>2
    <3> QED BY <3>1, <3>2
  <2> QED BY <1>i, <1>j, <2>1, <2>3, <2>7 DEF Retained
<1>38. CASE DispatchReplay
  BY <1>38 DEF DispatchReplay
<1>39. CASE DispatchDuplicate
  <2>1. /\ UNCHANGED <<sent, closed, ackTask, delivered, unconsumed, pendingAck, got, app>>
        /\ disp.pc = "put" /\ SettleOne(disp.msg, "duplicate")
    BY <1>39 DEF DispatchDuplicate
  <2>2. Unc' = Unc /\ Del' = Del /\ InHand' = InHand
    BY <1>h, <1>p, <2>1
  <2>3. \A k \in sent : final'[k] = {} => k # disp.msg
    BY <1>e, <1>o, <2>1, SettleOneFinal
  <2>4. \A k \in sent : Open(k)' => Open(k)
    BY <1>e, <1>m, <2>1, <2>3 DEF Open, Waiting
  <2> QED BY <1>c, <1>h, <1>i, <1>j, <2>1, <2>2, <2>4, RetainedKeeps
<1>40. CASE transportInterrupted
  <2>1. /\ sent' = {} /\ ~closed
        /\ UNCHANGED <<closed, ackTask, delivered, unconsumed, pendingAck, got, app>>
    BY <1>40 DEF transportInterrupted
  <2>2. Unc' = Unc /\ Del' = Del /\ InHand' = InHand
    BY <1>h, <1>p, <2>1
  <2> QED BY <1>c, <1>h, <1>i, <1>j, <2>1, <2>2, RetainedKeeps
<1>41. CASE StartConsumer
  <2>1. /\ UNCHANGED <<sent, disp, closed, ackTask, unconsumed, delivered, pendingAck, got, app>>
    BY <1>41 DEF StartConsumer
  <2>2. Unc' = Unc /\ Del' = Del /\ InHand' = InHand
    BY <1>h, <1>p, <2>1
  <2> QED BY <1>c, <1>h, <1>i, <1>j, <1>q, <2>1, <2>2, RetainedKeeps
<1>42. CASE ClearConsumer
  <2>1. /\ UNCHANGED <<sent, closed, ackTask, delivered, pendingAck, got, app, final>>
        /\ disp' = disp \/ (disp.pc = "progress" /\ disp'.pc = "list" /\ disp'.msg = disp.msg)
        /\ clearMessagesInProgress
    BY <1>d, <1>42 DEF ClearConsumer
  <2>2. Del' = Del /\ InHand' = InHand
    BY <1>h, <1>p, <2>1
  <2>3. \A k \in sent : Open(k)' => Open(k)
    BY <2>1 DEF Open, Waiting
  <2>4. CASE ~(clearRequired > 0)
    <3>1. Unc' = Unc
      BY <2>1, <2>4, SetsProgress
    <3> QED BY <1>c, <1>h, <1>i, <1>j, <2>1, <2>2, <2>3, <3>1, RetainedKeeps
  <2>5. CASE clearRequired > 0
    <3>1. Unc' = {} /\ clearRequired # 0
      BY <2>1, <2>5, SetsProgress
    <3>2. CASE \A k \in sent : ~Open(k)
      BY <1>c, <1>h, <1>i, <1>j, <2>1, <2>2, <2>3, <3>1, <3>2, RetainedKeeps
    <3>3. CASE \E k \in sent : Open(k)
      <4>1. \E k \in sent : ~Waiting(k)
        BY <3>3 DEF Open
      <4>2. doubled /\ ~clearList
        BY <1>l, <2>5, <4>1 DEF Connected
      <4>3. delivered = <<>> /\ app.pc # "before"
        BY <3>1, <4>2 DEF Kept, Cleared
      <4>4. Held' = {} /\ Del = {}
        BY <1>h, <2>2, <3>1, <4>3, SetsSame
      <4> QED BY <1>c, <1>i, <2>1, <2>2, <4>2, <4>4 DEF Retained
    <3> QED BY <3>2, <3>3
  <2> QED BY <2>4, <2>5
<1>43. CASE AckTaskRuns
  BY <1>i, <1>43 DEF AckTaskRuns
<1> QED
  BY <1>1, <1>2, <1>3, <1>4, <1>5, <1>6, <1>7, <1>8, <1>9, <1>10, <1>11, <1>12, <1>13, <1>14,
     <1>15, <1>16, <1>17, <1>18, <1>19, <1>20, <1>21, <1>22, <1>23, <1>24, <1>25, <1>26, <1>27,
     <1>28, <1>29, <1>30, <1>31, <1>32, <1>33, <1>34, <1>35, <1>36, <1>37, <1>38, <1>39, <1>40,
     <1>41, <1>42, <1>43
  DEF Next, Application, Transport, Tasks

-----------------------------------------------------------------------------
(* The range of an ack stays before what has not been had when no message comes. *)
AckStays(ack) ==
    ack # NoAck =>
        /\ ack.type = "consumed"
        /\ ack.first \in Int /\ ack.last \in arrived' /\ ack.first <= ack.last
        /\ \A m \in arrived' : final'[m] = {} /\ Live(m)' /\ m <= ack.last => m \in handed'
        /\ \A u \in Unc' : ack.last < u

(* An ack that ends before all that is live goes on to do so. *)
LEMMA AckKeeps ==
    ASSUME sent' = sent, arrived' = arrived, handed \subseteq handed', arrived \subseteq Messages,
           \A m \in Messages : final'[m] = {} => final[m] = {}, Unc' \subseteq Unc
    PROVE  \A ack : AckBefore(ack) => AckStays(ack)
<1>1. \A m : Live(m)' = Live(m)
  BY DEF Live
<1> QED BY <1>1 DEF AckBefore, AckStays

(* No ack, and one that is left alone. *)
LEMMA AckPending ==
    /\ pendingAck' = pendingAck /\ AckStays(pendingAck) => AckBefore(pendingAck)'
    /\ ackTask' = ackTask /\ AckStays(ackTask) => AckBefore(ackTask)'
    /\ ackTask' = NoAck => AckBefore(ackTask)'
    /\ pendingAck' = NoAck => AckBefore(pendingAck)'
<1>1. pendingAck' = pendingAck /\ AckStays(pendingAck) => AckBefore(pendingAck)'
  BY DEF AckStays, AckBefore
<1>2. ackTask' = ackTask /\ AckStays(ackTask) => AckBefore(ackTask)'
  BY DEF AckStays, AckBefore
<1>3. (ackTask' = NoAck => AckBefore(ackTask)') /\ (pendingAck' = NoAck => AckBefore(pendingAck)')
  BY DEF AckBefore
<1> QED BY <1>1, <1>2, <1>3

(* Steps in which no message moves. *)
LEMMA BatchStill ==
    ASSUME BatchRange, arrived \subseteq Messages, delivered' = <<>>, Unc' = Unc,
           UNCHANGED <<sent, arrived, handed, closed, pendingAck, ackTask, final, audit, disp>>,
           ~closed /\ running => running',
           \/ app' = app
           \/ /\ app.pc \notin {"before", "after", "later", "write", "settle"}
              /\ app'.pc \notin {"before", "after", "later", "write", "settle"}
    PROVE  BatchRange'
<1>1. AckBefore(pendingAck)' /\ AckBefore(ackTask)'
  BY AckKeeps, AckPending DEF BatchRange, BatchAcks
<1>2. BatchAudit'
  BY DEF BatchRange, BatchAudit
<1>3. BatchAcks'
  BY <1>1 DEF BatchRange, BatchAcks, InProcess, InPresent
<1>4. InHand' = InHand /\ (InProcess /\ app' # app => FALSE)
  BY SetsHeld DEF InProcess
<1>5. ~closed' => \A m \in sent' : Open(m)' => Open(m)
  BY DEF Open, Waiting
<1>6. BatchHeld'
  BY <1>4, <1>5 DEF BatchRange, BatchHeld, InRangeOf, InProcess
<1> QED BY <1>2, <1>3, <1>6 DEF BatchRange

(* In batch mode, before a second interruption, every step keeps the ranges. *)
LEMMA BatchRangeNext ==
    ASSUME Shape, Counts, FirstConnection, Kept, ConnInv, Connected, mode = "batch",
           interruptions <= 1, interruptions' <= 1, ~mixed, ~mixed', BatchRange,
           final \in [Messages -> SUBSET Whys], Next
    PROVE  BatchRange'
<1> USE DEF channelVars, ackVars, txVars, taskVars, brokerVars,
        appVars, boundVars, auditVars
<1>a. Ended
  BY EndedNext
<1>b. \A m \in Messages : final'[m] = {} => final[m] = {}
  BY <1>a DEF Ended
<1>c. ~Transacted /\ delivered = <<>> /\ Returned = <<>> /\ previously = <<>>
  BY ReturnedAll DEF Transacted, BatchRange, BatchAudit, Kept, Line
<1>d. /\ disp = [pc |-> disp.pc, msg |-> disp.msg, count |-> disp.count]
      /\ app = [pc |-> app.pc, op |-> app.op, msg |-> app.msg, expired |-> app.expired,
                old |-> app.old, todo |-> app.todo]
  BY DEF Shape, DispShape, AppShape
<1>e. /\ Messages \subseteq Int /\ sent \subseteq Messages /\ sent \subseteq Int
      /\ arrived \subseteq Messages /\ arrived \subseteq Int /\ sent \subseteq arrived
  BY MessagesInt DEF Counts, ConnInv
<1>f. Lists
  BY DEF Kept, Line, Lists
<1>g. Unc \subseteq Messages /\ Unc \subseteq Int
  BY <1>e, <1>f, SetsIn
<1>h. /\ (app.pc = "before" => InHand = {app.msg}) /\ (app.pc # "before" => InHand = {})
      /\ (app'.pc = "before" => InHand' = {app'.msg}) /\ (app'.pc # "before" => InHand' = {})
  BY SetsHeld
<1>i. clearDeliveredList => /\ ~clearList' /\ delivered' = <<>>
                            /\ pendingAck' = pendingAck /\ audit' = audit
  BY <1>c DEF clearDeliveredList
<1>j. BatchAudit /\ BatchAcks /\ BatchHeld /\ AckBefore(pendingAck) /\ AckBefore(ackTask)
  BY DEF BatchRange, BatchAcks
<1>k. ackTask # NoAck => app.pc = "settle"
  BY <1>j DEF BatchAcks
<1>l. ~doubled
  BY DEF ConnInv, Counts
<1>o. Whys = {"consumed", "poison", "expired", "duplicate"}
  BY DEF Whys
<1>p. /\ unconsumed' = unconsumed => Unc' = Unc
      /\ unconsumed' = <<>> => Unc' = {}
  BY SetsSame
<1>q. app.pc \in Receiving => ~closed
  BY DEF Shape
<1>r. app.pc = "before" => app.msg \in sent /\ InPresent(app.msg) /\ \A u \in Unc : app.msg < u
  <2> SUFFICES ASSUME app.pc = "before", NEW u \in Unc PROVE app.msg < u
    BY DEF Kept, Present, InPresent
  <2>1. PICK j \in 1..Len(unconsumed) : unconsumed[j] = u
    BY <1>f, ToSetSeq DEF Unc, Lists
  <2> QED BY <2>1 DEF Kept, Line
<1>s. InProcess => /\ app.msg \in sent /\ app.msg \in Int /\ (disp.pc # "idle" => app.msg < disp.msg)
                   /\ \A u \in Unc : app.msg < u
  BY <1>e, <1>j DEF BatchAcks, InPresent
<1>1. CASE Receive
  <2>1. /\ UNCHANGED <<sent, arrived, handed, closed, pendingAck, ackTask, final, disp,
                       unconsumed, running, audit>>
        /\ delivered' = <<>>
        /\ app.pc \notin {"before", "after", "later", "write", "settle"}
        /\ app'.pc \notin {"before", "after", "later", "write", "settle"}
    BY <1>c, <1>d, <1>i, <1>1 DEF Receive, Call, IdleApp
  <2> QED BY <1>e, <1>p, <2>1, BatchStill
<1>2. CASE ClearList
  <2>1. /\ UNCHANGED <<sent, arrived, handed, closed, pendingAck, ackTask, final, disp,
                       unconsumed, running, audit>>
        /\ delivered' = <<>>
        /\ app.pc \notin {"before", "after", "later", "write", "settle"}
        /\ app'.pc \notin {"before", "after", "later", "write", "settle"}
    BY <1>c, <1>d, <1>i, <1>2 DEF ClearList, Goto
  <2> QED BY <1>e, <1>p, <2>1, BatchStill
<1>3. CASE ReceiveNothing
  <2>1. /\ UNCHANGED <<sent, arrived, handed, closed, pendingAck, ackTask, final, disp,
                       unconsumed, running, audit>>
        /\ delivered' = <<>>
        /\ app.pc \notin {"before", "after", "later", "write", "settle"}
        /\ app'.pc \notin {"before", "after", "later", "write", "settle"}
    BY <1>c, <1>d, <1>i, <1>3 DEF ReceiveNothing, IdleApp
  <2> QED BY <1>e, <1>p, <2>1, BatchStill
<1>4. ASSUME NEW expired \in BOOLEAN, Dequeue(expired)
      PROVE  BatchRange'
  <2> DEFINE h == Head(unconsumed)
  <2>1. /\ UNCHANGED <<sent, arrived, handed, closed, pendingAck, ackTask, final, disp,
                       running, audit, delivered>>
        /\ app.pc = "wait" /\ app'.pc = "before" /\ app'.msg = h
        /\ unconsumed # <<>> /\ unconsumed' = Tail(unconsumed)
    BY <1>d, <1>4 DEF Dequeue
  <2>2. h \in Unc /\ Unc' = Unc \ {h} /\ \A u \in Unc' : h < u
    BY <1>f, <2>1, SetsTail
  <2> HIDE DEF h
  <2>3. ~closed /\ ackTask = NoAck /\ ~InProcess /\ ~InProcess'
    BY <1>k, <1>q, <2>1 DEF Receiving, InProcess
  <2>4. BatchAudit'
    BY <1>j, <2>1, <2>2, <2>3 DEF BatchAudit
  <2>5. AckBefore(pendingAck)' /\ AckBefore(ackTask)'
    BY <1>b, <1>e, <1>j, <2>1, <2>2, AckKeeps, AckPending
  <2>6. pendingAck # NoAck => pendingAck.last < h
    BY <1>j, <2>2 DEF AckBefore
  <2>7. BatchAcks'
    BY <1>j, <2>1, <2>3, <2>5, <2>6 DEF BatchAcks
  <2>8. InHand = {} /\ InHand' = {h}
    BY <1>h, <2>1
  <2>9. BatchHeld'
    BY <1>j, <2>1, <2>2, <2>3, <2>8 DEF BatchHeld, Open, Waiting, InRangeOf
  <2> QED BY <2>4, <2>7, <2>9 DEF BatchRange
<1>5. CASE DequeueExceeded
  BY <1>c, <1>5 DEF DequeueExceeded
<1>6. CASE beforeMessageIsConsumed
  <2>1. /\ UNCHANGED <<sent, arrived, closed, pendingAck, ackTask, final, disp, running, audit,
                       delivered, unconsumed>>
        /\ app.pc = "before" /\ app'.pc = "after" /\ app'.msg = app.msg
        /\ app'.expired = app.expired
        /\ handed' = IF app.expired THEN handed ELSE handed \cup {app.msg}
    BY <1>c, <1>d, <1>6 DEF beforeMessageIsConsumed, Goto
  <2>2. Unc' = Unc /\ ~closed /\ ackTask = NoAck /\ ~InProcess /\ InProcess'
    BY <1>k, <1>p, <1>q, <2>1 DEF Receiving, InProcess
  <2>3. /\ app.msg \in sent /\ app.msg \in Int /\ app.msg \notin Unc /\ InPresent(app.msg)
        /\ \A u \in Unc : app.msg < u
    <3>1. app.msg \in sent /\ app.msg \in Int /\ InPresent(app.msg) /\ \A u \in Unc : app.msg < u
      BY <1>e, <1>r, <2>1
    <3>2. ~(app.msg < app.msg)
      BY <3>1
    <3> QED BY <3>1, <3>2
  <2>4. /\ handed \subseteq handed' /\ handed' \subseteq handed \cup {app.msg}
        /\ (app.expired \/ app.msg \in handed')
    BY <2>1
  <2>5. BatchAudit'
    BY <1>e, <1>j, <2>1, <2>2, <2>3, <2>4 DEF BatchAudit
  <2>6. AckBefore(pendingAck)' /\ AckBefore(ackTask)'
    BY <1>b, <1>e, <1>j, <2>1, <2>2, <2>4, AckKeeps, AckPending
  <2>7. BatchAcks'
    BY <1>j, <2>1, <2>2, <2>3, <2>4, <2>6 DEF BatchAcks, InPresent
  <2>8. InHand = {app.msg}
    BY <1>h, <2>1
  <2>9. BatchHeld'
    BY <1>j, <2>1, <2>2, <2>4, <2>8 DEF BatchHeld, Open, Waiting, InRangeOf
  <2> QED BY <2>5, <2>7, <2>9 DEF BatchRange
<1>7. CASE ackLater
  <2>1. /\ UNCHANGED <<sent, arrived, handed, closed, pendingAck, ackTask, final, disp,
                       running, audit, delivered, unconsumed>>
        /\ app.pc = "later" /\ app'.pc = "write" /\ app'.old = pendingAck
        /\ app'.msg = app.msg /\ app'.expired = app.expired
    BY <1>c, <1>d, <1>7 DEF ackLater
  <2>2. Unc' = Unc /\ ackTask = NoAck /\ InProcess /\ InProcess'
    BY <1>k, <1>p, <2>1 DEF InProcess
  <2>5. BatchAudit'
    BY <1>j, <2>1, <2>2 DEF BatchAudit
  <2>6. AckBefore(pendingAck)' /\ AckBefore(ackTask)'
    BY <1>b, <1>e, <1>j, <2>1, <2>2, AckKeeps, AckPending
  <2>7. BatchAcks'
    BY <1>j, <2>1, <2>2, <2>6 DEF BatchAcks, InPresent
  <2>8. InHand' = InHand
    BY <1>h, <2>1
  <2>9. BatchHeld'
    BY <1>j, <2>1, <2>2, <2>8 DEF BatchHeld, Open, Waiting, InRangeOf
  <2> QED BY <2>5, <2>7, <2>9 DEF BatchRange
<1>8. CASE ackLaterWrites
  <2> DEFINE first == IF app.old = NoAck THEN app.msg ELSE app.old.first
             ack == [type |-> "consumed", first |-> first, last |-> app.msg,
                     count |-> deliveredCounter]
  <2>1. /\ app.pc = "write" /\ app'.pc = "idle" /\ app.old = pendingAck /\ ~app.expired
        /\ UNCHANGED <<sent, arrived, handed, closed, ackTask, disp, running, audit, delivered,
                       unconsumed>>
        /\ \/ pendingAck' = ack /\ final' = final
           \/ pendingAck' = NoAck /\ SendAck(ack)
    BY <1>c, <1>j, <1>8 DEF ackLaterWrites, IdleApp, BatchAcks
  <2>2. /\ Unc' = Unc /\ ~closed /\ ackTask = NoAck /\ InProcess /\ ~InProcess'
        /\ InHand = {} /\ InHand' = {}
    BY <1>h, <1>k, <1>p, <1>q, <2>1 DEF Receiving, InProcess
  <2>3. /\ app.msg \in sent /\ app.msg \in arrived /\ app.msg \in Int
        /\ (disp.pc # "idle" => app.msg < disp.msg)
        /\ (\A u \in Unc : app.msg < u) /\ app.msg \in handed
    BY <1>e, <1>j, <1>s, <2>1, <2>2 DEF BatchAcks
  <2>4. first \in Int /\ first <= app.msg
        /\ \A m \in sent : m = app.msg \/ InRangeOf(m, pendingAck) => m \in first..app.msg
    <3>1. CASE pendingAck = NoAck
      BY <2>1, <2>3, <3>1 DEF InRangeOf
    <3>2. CASE pendingAck # NoAck
      <4>1. /\ pendingAck.first \in Int /\ pendingAck.last \in Int
            /\ pendingAck.first <= pendingAck.last /\ pendingAck.last < app.msg
        BY <1>e, <1>j, <2>2, <3>2 DEF BatchAcks, AckBefore
      <4> QED BY <2>1, <2>3, <3>2, <4>1 DEF InRangeOf
    <3> QED BY <3>1, <3>2
  <2>5. \A m \in arrived : final[m] = {} /\ Live(m) /\ m <= app.msg => m \in handed
    <3> SUFFICES ASSUME NEW m \in arrived, final[m] = {}, Live(m), m <= app.msg PROVE m \in handed
      OBVIOUS
    <3>1. m \in Int
      BY <1>e
    <3>2. m \in sent
      BY <2>3, <3>1 DEF Live
    <3>3. ~Waiting(m)
      BY <2>3, <3>1 DEF Waiting
    <3>4. m \notin Unc
      BY <2>3, <3>1
    <3> QED BY <1>j, <2>2, <2>3, <3>2, <3>3, <3>4 DEF BatchHeld, Open
  <2>6. ack.type = "consumed" /\ ack.first = first /\ ack.last = app.msg /\ ack # NoAck
    BY DEF NoAck
  <2> HIDE DEF ack, first
  <2>7. AckBefore(ack)
    BY <2>3, <2>4, <2>5, <2>6 DEF AckBefore
  <2>8. AckBefore(ackTask)'
    BY <2>1, <2>2, AckPending
  <2>9. AckStays(ack)
    BY <1>b, <1>e, <2>1, <2>2, <2>7, AckKeeps
  <2>10. AckBefore(pendingAck)'
    <3>1. CASE pendingAck' = ack
      BY <2>1, <2>9, <3>1 DEF AckStays, AckBefore
    <3>2. CASE pendingAck' = NoAck
      BY <3>2, AckPending
    <3> QED BY <2>1, <3>1, <3>2
  <2>11. BatchAcks'
    BY <2>1, <2>2, <2>8, <2>10 DEF BatchAcks
  <2>12. disp.pc # "idle" => final'[disp.msg] = {} \/ disp.msg \in handed
    <3>1. CASE final' = final
      BY <1>j, <3>1 DEF BatchAudit
    <3>2. CASE SendAck(ack)
      <4> SUFFICES ASSUME disp.pc # "idle", disp.msg \notin handed PROVE final'[disp.msg] = {}
        OBVIOUS
      <4>1. disp.msg \in sent /\ disp.msg \in Messages /\ disp.msg \in Int
        BY <1>e DEF Connected
      <4>2. final[disp.msg] = {} /\ disp.msg \notin first..app.msg
        BY <1>j, <2>3, <2>4, <4>1 DEF BatchAudit
      <4> QED BY <1>e, <2>6, <3>2, <4>1, <4>2, SendAckFinal
    <3> QED BY <2>1, <3>1, <3>2
  <2>13. BatchAudit'
    BY <1>j, <2>1, <2>2, <2>12 DEF BatchAudit
  <2>14. BatchHeld'
    <3> SUFFICES ASSUME NEW m \in sent, Open(m)'
                 PROVE  m \in Unc \/ (m \in handed /\ InRangeOf(m, pendingAck'))
      BY <2>1, <2>2 DEF BatchHeld, InRangeOf
    <3>1. Open(m) /\ final'[m] = {}
      BY <1>b, <1>e, <2>1 DEF Open, Waiting
    <3>2. m \in Unc \/ m = app.msg \/ (m \in handed /\ InRangeOf(m, pendingAck))
      BY <1>j, <2>2, <3>1 DEF BatchHeld, InRangeOf
    <3>3. m \in Unc \/ (m \in handed /\ m \in first..app.msg)
      BY <2>3, <2>4, <3>2
    <3>4. CASE pendingAck' = ack
      BY <2>6, <3>3, <3>4 DEF InRangeOf
    <3>5. CASE SendAck(ack)
      <4>1. m \notin first..app.msg
        BY <1>e, <2>6, <3>1, <3>5, SendAckFinal
      <4> QED BY <3>3, <4>1
    <3> QED BY <2>1, <3>4, <3>5
  <2> QED BY <2>11, <2>13, <2>14 DEF BatchRange
<1>9. CASE ConsumedExpired
  <2>1. /\ UNCHANGED <<sent, arrived, handed, closed, pendingAck, ackTask, disp, running,
                       audit, unconsumed>>
        /\ app.pc = "after" /\ app'.pc = "pull" /\ SettleOne(app.msg, "expired")
        /\ delivered' = RemoveFirst(delivered, app.msg)
    BY <1>d, <1>9 DEF ConsumedExpired, LookAgain, IdleApp
  <2>2. /\ Unc' = Unc /\ ~closed /\ ackTask = NoAck /\ InProcess /\ ~InProcess'
        /\ InHand = {} /\ InHand' = {}
    BY <1>h, <1>k, <1>p, <1>q, <2>1 DEF Receiving, InProcess
  <2>3. delivered' = <<>>
    BY <1>c, <2>1 DEF RemoveFirst
  <2>4. \A m \in Messages : /\ final'[m] = {} /\ m \in sent => m # app.msg
                            /\ final[m] = {} /\ m # app.msg => final'[m] = {}
    BY <1>e, <1>o, <1>s, <2>1, <2>2, SettleOneFinal
  <2>5. disp.pc # "idle" => disp.msg \in Messages /\ disp.msg # app.msg
    <3>1. app.msg \in Int /\ ~(app.msg < app.msg)
      BY <1>s, <2>2
    <3> QED BY <1>e, <1>s, <2>2, <3>1 DEF Connected
  <2>6. BatchAudit'
    BY <1>j, <2>1, <2>2, <2>3, <2>4, <2>5 DEF BatchAudit
  <2>7. AckBefore(pendingAck)' /\ AckBefore(ackTask)'
    BY <1>b, <1>e, <1>j, <2>1, <2>2, AckKeeps, AckPending
  <2>8. BatchAcks'
    BY <1>j, <2>1, <2>2, <2>7 DEF BatchAcks
  <2>9. \A m \in sent : Open(m)' => Open(m) /\ m # app.msg
    BY <1>b, <1>e, <2>1, <2>4 DEF Open, Waiting
  <2>10. BatchHeld'
    BY <1>j, <2>1, <2>2, <2>9 DEF BatchHeld, InRangeOf
  <2> QED BY <2>6, <2>8, <2>10 DEF BatchRange
<1>10. CASE ConsumedAuto
  BY <1>c, <1>10 DEF ConsumedAuto
<1>11. CASE ConsumedLater
  <2>1. /\ UNCHANGED <<sent, arrived, handed, closed, pendingAck, ackTask, final, disp,
                       running, audit, delivered, unconsumed>>
        /\ app.pc = "after" /\ app'.pc = "later" /\ ~app.expired
        /\ app'.msg = app.msg /\ app'.expired = app.expired
    BY <1>c, <1>d, <1>11 DEF ConsumedLater
  <2>2. Unc' = Unc /\ ackTask = NoAck /\ InProcess /\ InProcess'
    BY <1>k, <1>p, <2>1 DEF InProcess
  <2>5. BatchAudit'
    BY <1>j, <2>1, <2>2 DEF BatchAudit
  <2>6. AckBefore(pendingAck)' /\ AckBefore(ackTask)'
    BY <1>b, <1>e, <1>j, <2>1, <2>2, AckKeeps, AckPending
  <2>7. BatchAcks'
    BY <1>j, <2>1, <2>2, <2>6 DEF BatchAcks, InPresent
  <2>8. InHand' = InHand
    BY <1>h, <2>1
  <2>9. BatchHeld'
    BY <1>j, <2>1, <2>2, <2>8 DEF BatchHeld, Open, Waiting, InRangeOf
  <2> QED BY <2>5, <2>7, <2>9 DEF BatchRange
<1>12. CASE Acknowledge
  BY <1>c, <1>12 DEF Acknowledge
<1>13. CASE AcknowledgeNothing
  <2>1. /\ UNCHANGED <<sent, arrived, handed, closed, pendingAck, ackTask, final, disp,
                       unconsumed, running, audit>>
        /\ delivered' = <<>>
        /\ app.pc \notin {"before", "after", "later", "write", "settle"}
        /\ app'.pc \notin {"before", "after", "later", "write", "settle"}
    BY <1>c, <1>d, <1>i, <1>13 DEF AcknowledgeNothing, Acknowledged, IdleApp
  <2> QED BY <1>e, <1>p, <2>1, BatchStill
<1>14. CASE AcknowledgeAll
  BY <1>c, <1>14 DEF AcknowledgeAll
<1>15. CASE AcknowledgeThrows
  BY <1>c, <1>15 DEF AcknowledgeThrows
<1>16. ASSUME NEW m \in Messages, AcknowledgeOne(m)
      PROVE  BatchRange'
  BY <1>c, <1>16 DEF AcknowledgeOne
<1>17. ASSUME NEW op \in {"commit", "rollback"}, EndTransaction(op)
      PROVE  BatchRange'
  BY <1>c, <1>17 DEF EndTransaction
<1>18. CASE EndNothing
  BY <1>c, <1>18 DEF EndNothing, Shape
<1>19. CASE CommitRequest
  BY <1>c, <1>19 DEF CommitRequest, Shape
<1>20. CASE CommitRequestFails
  BY <1>c, <1>20 DEF CommitRequestFails, Shape
<1>21. CASE RollbackRequest
  BY <1>c, <1>21 DEF RollbackRequest, Shape
<1>22. CASE RollbackRequestFails
  BY <1>c, <1>22 DEF RollbackRequestFails, Shape
<1>23. ASSUME NEW sync \in {"tx", "close"}, RunSync(sync)
      PROVE  BatchRange'
  BY <1>c, <1>23 DEF RunSync, Shape
<1>24. CASE SyncsDone
  BY <1>c, <1>24 DEF SyncsDone, Shape
<1>25. CASE commit
  BY <1>c, <1>25 DEF commit, Shape
<1>26. CASE Recover
  <2>1. /\ UNCHANGED <<sent, arrived, handed, closed, pendingAck, ackTask, final, disp,
                       unconsumed, running, audit>>
        /\ delivered' = <<>>
        /\ app.pc \notin {"before", "after", "later", "write", "settle"}
        /\ app'.pc \notin {"before", "after", "later", "write", "settle"}
    BY <1>c, <1>d, <1>i, <1>26 DEF Recover, Call, IdleApp
  <2> QED BY <1>e, <1>p, <2>1, BatchStill
<1>27. CASE rollbackNothing
  <2>1. audit' = audit
    BY <1>c, <1>27, ToSetNothing DEF rollbackNothing, RolledBack
  <2>2. /\ UNCHANGED <<sent, arrived, handed, closed, pendingAck, ackTask, final, disp,
                       unconsumed, running>>
        /\ delivered' = <<>>
        /\ app.pc \notin {"before", "after", "later", "write", "settle"}
        /\ app'.pc \notin {"before", "after", "later", "write", "settle"}
    BY <1>c, <1>d, <1>27 DEF rollbackNothing, RolledBack, IdleApp
  <2> QED BY <1>e, <1>p, <2>1, <2>2, BatchStill
<1>28. CASE rollbackPoison
  BY <1>c, <1>28 DEF rollbackPoison
<1>29. ASSUME NEW delayed \in BOOLEAN, rollback(delayed)
      PROVE  BatchRange'
  BY <1>c, <1>29 DEF rollback
<1>30. CASE CloseDeferred
  BY <1>c, <1>30 DEF CloseDeferred
<1>31. CASE Close
  <2>1. /\ UNCHANGED <<sent, arrived, handed, closed, final, disp, running, audit, unconsumed>>
        /\ ~closed /\ app.pc = "idle" /\ app'.pc = "settle" /\ deliverAcks
    BY <1>d, <1>31 DEF Close, Call, IdleApp
  <2>2. Unc' = Unc /\ ackTask = NoAck /\ ~InProcess /\ ~InProcess' /\ InHand = {} /\ InHand' = {}
    BY <1>h, <1>k, <1>p, <2>1 DEF InProcess
  <2>3. pendingAck = NoAck \/ pendingAck.type = "consumed"
    BY <1>j DEF AckBefore
  <2>4. ackTask' = pendingAck /\ pendingAck' = NoAck /\ delivered' = <<>>
    BY <1>c, <2>1, <2>2, <2>3 DEF deliverAcks, NoAck
  <2>5. BatchAudit'
    BY <1>j, <2>1, <2>2, <2>4 DEF BatchAudit
  <2>6. AckStays(pendingAck)
    BY <1>b, <1>e, <1>j, <2>1, <2>2, AckKeeps
  <2>7. AckBefore(ackTask)' /\ AckBefore(pendingAck)'
    BY <2>4, <2>6, AckPending DEF AckStays, AckBefore
  <2>8. BatchAcks'
    BY <2>1, <2>2, <2>4, <2>7 DEF BatchAcks
  <2>9. BatchHeld'
    BY <1>j, <2>1, <2>2, <2>4 DEF BatchHeld, InRangeOf, Open, Waiting
  <2> QED BY <2>5, <2>8, <2>9 DEF BatchRange
<1>32. CASE dispose
  <2>1. app.pc = "settle" /\ ~closed /\ app.op = "close" /\ ackTask = NoAck
    BY <1>c, <1>32 DEF dispose, ExecutorTerminated, Shape
  <2>2. /\ closed' = TRUE /\ delivered' = <<>> /\ unconsumed' = <<>> /\ app'.pc = "idle"
        /\ UNCHANGED <<sent, arrived, handed, pendingAck, ackTask, final, disp>>
    BY <1>c, <1>32, <2>1 DEF dispose, ExecutorTerminated, IdleApp
  <2>3. pendingAck = NoAck /\ Unc' = {} /\ ~InProcess'
    BY <1>j, <1>p, <2>1, <2>2 DEF BatchAcks, InProcess
  <2>4. BatchAudit'
    BY <1>j, <2>2, <2>3 DEF BatchAudit
  <2>5. BatchAcks'
    BY <2>1, <2>2, <2>3, AckPending DEF BatchAcks
  <2> QED BY <2>2, <2>4, <2>5 DEF BatchRange, BatchHeld
<1>33. ASSUME NEW m \in Messages, NEW count \in BrokerCounts, OnDispatch(m, count)
      PROVE  BatchRange'
  <2>1. /\ disp.pc = "idle" /\ disp'.pc = "progress" /\ disp'.msg = m
        /\ sent' = sent \cup {m} /\ arrived' = arrived \cup {m}
        /\ final[m] = {} /\ (\A s \in sent : s < m) /\ (m \in arrived \/ \A x \in arrived : x < m)
        /\ UNCHANGED <<handed, closed, pendingAck, ackTask, final, running, audit, delivered,
                       unconsumed, app>>
    BY <1>33 DEF OnDispatch
  <2>2. Unc' = Unc /\ InProcess' = InProcess /\ InHand' = InHand
    BY <1>h, <1>p, <2>1 DEF InProcess
  <2>3. BatchAudit'
    BY <1>j, <2>1, <2>2 DEF BatchAudit
  <2>4. ASSUME NEW ack, AckBefore(ack) PROVE AckStays(ack)
    <3> SUFFICES ASSUME ack # NoAck PROVE AckStays(ack)
      BY DEF AckStays
    <3>1. /\ ack.type = "consumed" /\ ack.first \in Int /\ ack.last \in arrived
          /\ ack.first <= ack.last
          /\ \A k \in arrived : final[k] = {} /\ Live(k) /\ k <= ack.last => k \in handed
          /\ \A u \in Unc : ack.last < u
      BY <2>4 DEF AckBefore
    <3>2. ASSUME NEW k \in arrived', final'[k] = {}, Live(k)', k <= ack.last PROVE k \in handed
      <4>1. CASE k \in arrived
        <5>1. Live(k)
          BY <2>1, <3>2 DEF Live
        <5> QED BY <2>1, <3>1, <3>2, <4>1, <5>1
      <4>2. CASE k \notin arrived
        <5>1. k = m /\ ack.last < m /\ ack.last \in Int /\ m \in Int
          BY <1>e, <2>1, <3>1, <4>2
        <5> QED BY <3>2, <5>1
      <4> QED BY <4>1, <4>2
    <3> QED BY <2>1, <2>2, <3>1, <3>2 DEF AckStays
  <2>5. AckBefore(pendingAck)' /\ AckBefore(ackTask)'
    BY <1>j, <2>1, <2>4, AckPending
  <2>6. InProcess => InPresent(app.msg)'
    BY <1>s, <2>1 DEF InPresent
  <2>7. BatchAcks'
    BY <1>j, <2>1, <2>2, <2>5, <2>6 DEF BatchAcks
  <2>8. \A k \in sent' : Open(k)' => k \in sent /\ Open(k)
    BY <2>1 DEF Open, Waiting
  <2>9. BatchHeld'
    BY <1>j, <2>1, <2>2, <2>8 DEF BatchHeld, InRangeOf
  <2> QED BY <2>3, <2>7, <2>9 DEF BatchRange
<1>34. CASE DispatchClearsProgress
  <2>1. /\ UNCHANGED <<sent, arrived, handed, closed, pendingAck, ackTask, final, running,
                       delivered, app>>
        /\ disp' = disp \/ (disp.pc = "progress" /\ disp'.pc = "list" /\ disp'.msg = disp.msg)
        /\ clearMessagesInProgress
    BY <1>d, <1>34 DEF DispatchClearsProgress
  <2>2. InHand' = InHand /\ InProcess' = InProcess
    BY <1>h, <2>1 DEF InProcess
  <2>3. \A k \in sent : Open(k)' => Open(k)
    BY <2>1 DEF Open, Waiting
  <2>4. /\ Unc' \subseteq Unc /\ (clearRequired # 0 \/ (audit' = audit /\ Unc' = Unc))
        /\ (clearRequired = 0 \/ (audit' = audit \ Unc /\ Unc' = {}))
    BY <2>1, SetsProgress DEF Counts
  <2>5. app.pc = "before" => clearRequired = 0
    BY DEF Kept, Cleared
  <2>6. BatchAudit'
    BY <1>j, <2>1, <2>2, <2>4, <2>5 DEF BatchAudit
  <2>7. AckBefore(pendingAck)' /\ AckBefore(ackTask)'
    BY <1>b, <1>e, <1>j, <2>1, <2>4, AckKeeps, AckPending
  <2>8. InProcess => InPresent(app.msg)'
    BY <1>s, <2>1 DEF InPresent
  <2>9. BatchAcks'
    BY <1>j, <2>1, <2>2, <2>4, <2>7, <2>8 DEF BatchAcks
  <2>10. clearRequired # 0 => \A k \in sent : ~Open(k)
    BY <1>l DEF Connected, Open, Counts
  <2>11. BatchHeld'
    BY <1>j, <2>1, <2>2, <2>3, <2>4, <2>10 DEF BatchHeld, InRangeOf
  <2> QED BY <2>6, <2>9, <2>11 DEF BatchRange
<1>35. CASE DispatchClearsList
  <2>1. /\ UNCHANGED <<sent, arrived, handed, closed, pendingAck, ackTask, running, audit,
                       unconsumed, app>>
        /\ disp.pc = "list" /\ disp'.pc = "put" /\ disp'.msg = disp.msg /\ final' = final
        /\ delivered' = <<>>
    BY <1>c, <1>d, <1>i, <1>35 DEF DispatchClearsList
  <2>2. Unc' = Unc /\ InHand' = InHand /\ InProcess' = InProcess
    BY <1>h, <1>p, <2>1 DEF InProcess
  <2>3. \A k \in sent : Open(k)' => Open(k)
    BY <2>1 DEF Open, Waiting
  <2>4. BatchAudit'
    BY <1>j, <2>1, <2>2 DEF BatchAudit
  <2>5. AckBefore(pendingAck)' /\ AckBefore(ackTask)'
    BY <1>b, <1>e, <1>j, <2>1, <2>2, AckKeeps, AckPending
  <2>6. InProcess => InPresent(app.msg)'
    BY <1>s, <2>1 DEF InPresent
  <2>7. BatchAcks'
    BY <1>j, <2>1, <2>2, <2>5, <2>6 DEF BatchAcks
  <2>8. BatchHeld'
    BY <1>j, <2>1, <2>2, <2>3 DEF BatchHeld, InRangeOf
  <2> QED BY <2>4, <2>7, <2>8 DEF BatchRange
<1>36. CASE DispatchClosed
  <2>1. /\ UNCHANGED <<sent, arrived, handed, closed, pendingAck, ackTask, final, running,
                       audit, unconsumed, delivered, app>>
        /\ closed /\ disp'.pc = "idle"
    BY <1>36 DEF DispatchClosed, IdleDisp
  <2>2. Unc' = Unc /\ InProcess' = InProcess
    BY <1>p, <2>1 DEF InProcess
  <2>4. BatchAudit'
    BY <1>j, <2>1, <2>2 DEF BatchAudit
  <2>5. AckBefore(pendingAck)' /\ AckBefore(ackTask)'
    BY <1>b, <1>e, <1>j, <2>1, <2>2, AckKeeps, AckPending
  <2>6. InProcess => InPresent(app.msg)'
    BY <1>s, <2>1 DEF InPresent
  <2>7. BatchAcks'
    BY <1>j, <2>1, <2>2, <2>5, <2>6 DEF BatchAcks
  <2> QED BY <2>1, <2>4, <2>7 DEF BatchRange, BatchHeld
<1>37. CASE DispatchFresh
  <2>1. /\ UNCHANGED <<sent, arrived, handed, closed, pendingAck, ackTask, final, running,
                       delivered, app>>
        /\ disp.pc = "put" /\ disp'.pc = "idle" /\ unconsumed' = Append(unconsumed, disp.msg)
        /\ ~closed /\ disp.msg \notin audit /\ (running => audit' = audit \cup {disp.msg})
    BY <1>37 DEF DispatchFresh, IdleDisp
  <2>2. disp.msg \in sent /\ disp.msg \in Messages /\ disp.msg \in arrived /\ disp.msg \in Int
    BY <1>e, <2>1 DEF Connected
  <2>3. Unc' = Unc \cup {disp.msg} /\ InHand' = InHand /\ InProcess' = InProcess
    BY <1>f, <1>h, <2>1, <2>2, SetsAppend DEF InProcess
  <2>4. disp.msg \notin handed /\ final[disp.msg] = {} /\ Live(disp.msg)
    BY <1>j, <2>1, <2>2 DEF BatchAudit, Live
  <2>5. BatchAudit'
    BY <1>j, <2>1, <2>3, <2>4 DEF BatchAudit
  <2>6. ASSUME NEW ack, AckBefore(ack) PROVE AckStays(ack)
    <3> SUFFICES ASSUME ack # NoAck PROVE AckStays(ack)
      BY DEF AckStays
    <3>1. /\ ack.type = "consumed" /\ ack.first \in Int /\ ack.last \in arrived
          /\ ack.first <= ack.last
          /\ \A k \in arrived : final[k] = {} /\ Live(k) /\ k <= ack.last => k \in handed
          /\ \A u \in Unc : ack.last < u
      BY <2>6 DEF AckBefore
    <3>2. ack.last < disp.msg
      <4>1. ack.last \in Int /\ ~(disp.msg <= ack.last)
        BY <1>e, <2>2, <2>4, <3>1
      <4> QED BY <2>2, <4>1
    <3>3. \A k : Live(k)' = Live(k)
      BY <2>1 DEF Live
    <3> QED BY <2>1, <2>3, <3>1, <3>2, <3>3 DEF AckStays
  <2>7. AckBefore(pendingAck)' /\ AckBefore(ackTask)'
    BY <1>j, <2>1, <2>6, AckPending
  <2>8. InProcess => InPresent(app.msg)' /\ app.msg < disp.msg
    BY <1>s, <2>1 DEF InPresent
  <2>9. BatchAcks'
    BY <1>j, <2>1, <2>3, <2>7, <2>8 DEF BatchAcks
  <2>10. \A k \in sent : Open(k)' => Open(k) \/ k = disp.msg
    BY <2>1 DEF Open, Waiting
  <2>11. BatchHeld'
    BY <1>j, <2>1, <2>3, <2>10 DEF BatchHeld, InRangeOf
  <2> QED BY <2>5, <2>9, <2>11 DEF BatchRange
<1>38. CASE DispatchReplay
  BY <1>c, <1>38 DEF DispatchReplay
<1>39. CASE DispatchDuplicate
  <2>1. /\ UNCHANGED <<sent, arrived, handed, closed, pendingAck, ackTask, running, audit,
                       unconsumed, app>>
        /\ disp'.pc = "idle" /\ disp.pc = "put" /\ SettleOne(disp.msg, "duplicate")
        /\ delivered' = <<>>
    BY <1>c, <1>d, <1>i, <1>39 DEF DispatchDuplicate, IdleDisp
  <2>2. Unc' = Unc /\ InHand' = InHand /\ InProcess' = InProcess
    BY <1>h, <1>p, <2>1 DEF InProcess
  <2>3. \A k \in sent : Open(k)' => Open(k)
    <3>1. \A k \in sent : final'[k] = {} => k # disp.msg
      BY <1>e, <1>o, <2>1, SettleOneFinal
    <3> QED BY <1>b, <1>e, <2>1, <3>1 DEF Open, Waiting
  <2>4. BatchAudit'
    BY <1>j, <2>1, <2>2 DEF BatchAudit
  <2>5. AckBefore(pendingAck)' /\ AckBefore(ackTask)'
    BY <1>b, <1>e, <1>j, <2>1, <2>2, AckKeeps, AckPending
  <2>6. InProcess => InPresent(app.msg)'
    BY <1>s, <2>1 DEF InPresent
  <2>7. BatchAcks'
    BY <1>j, <2>1, <2>2, <2>5, <2>6 DEF BatchAcks
  <2>8. BatchHeld'
    BY <1>j, <2>1, <2>2, <2>3 DEF BatchHeld, InRangeOf
  <2> QED BY <2>4, <2>7, <2>8 DEF BatchRange
<1>40. CASE transportInterrupted
  <2>1. /\ sent' = {} /\ ~closed /\ interruptions' = interruptions + 1
        /\ disp.pc = "idle" /\ app.pc \in {"idle", "wait"}
        /\ UNCHANGED <<arrived, handed, closed, pendingAck, ackTask, final, running, audit,
                       unconsumed, delivered, app, disp>>
    BY <1>40 DEF transportInterrupted
  <2>2. sent = arrived
    BY <2>1 DEF ConnInv, Counts
  <2>3. Unc' = Unc /\ ~InProcess /\ ~InProcess'
    BY <1>p, <2>1 DEF InProcess
  <2>4. BatchAudit'
    BY <1>j, <2>1, <2>3 DEF BatchAudit
  <2>5. \A ack : AckBefore(ack) => AckStays(ack)
    BY <2>1, <2>2, <2>3 DEF AckBefore, AckStays, Live
  <2>6. AckBefore(pendingAck)' /\ AckBefore(ackTask)'
    BY <1>j, <2>1, <2>5, AckPending
  <2>7. BatchAcks'
    BY <1>j, <2>1, <2>3, <2>6 DEF BatchAcks
  <2> QED BY <2>1, <2>4, <2>7 DEF BatchRange, BatchHeld
<1>41. CASE StartConsumer
  <2>1. UNCHANGED <<sent, arrived, handed, closed, pendingAck, ackTask, final, disp,
                    unconsumed, audit, app, delivered>>
    BY <1>41 DEF StartConsumer
  <2>2. ~closed /\ running => running'
    BY <1>41 DEF StartConsumer
  <2> QED BY <1>c, <1>e, <1>p, <2>1, <2>2, BatchStill
<1>42. CASE ClearConsumer
  <2>1. /\ UNCHANGED <<sent, arrived, handed, closed, pendingAck, ackTask, final, running,
                       delivered, app>>
        /\ disp' = disp \/ (disp.pc = "progress" /\ disp'.pc = "list" /\ disp'.msg = disp.msg)
        /\ clearMessagesInProgress
    BY <1>d, <1>42 DEF ClearConsumer
  <2>2. InHand' = InHand /\ InProcess' = InProcess
    BY <1>h, <2>1 DEF InProcess
  <2>3. \A k \in sent : Open(k)' => Open(k)
    BY <2>1 DEF Open, Waiting
  <2>4. /\ Unc' \subseteq Unc /\ (clearRequired # 0 \/ (audit' = audit /\ Unc' = Unc))
        /\ (clearRequired = 0 \/ (audit' = audit \ Unc /\ Unc' = {}))
    BY <2>1, SetsProgress DEF Counts
  <2>5. app.pc = "before" => clearRequired = 0
    BY DEF Kept, Cleared
  <2>6. BatchAudit'
    BY <1>j, <2>1, <2>2, <2>4, <2>5 DEF BatchAudit
  <2>7. AckBefore(pendingAck)' /\ AckBefore(ackTask)'
    BY <1>b, <1>e, <1>j, <2>1, <2>4, AckKeeps, AckPending
  <2>8. InProcess => InPresent(app.msg)'
    BY <1>s, <2>1 DEF InPresent
  <2>9. BatchAcks'
    BY <1>j, <2>1, <2>2, <2>4, <2>7, <2>8 DEF BatchAcks
  <2>10. clearRequired # 0 => \A k \in sent : ~Open(k)
    BY <1>l DEF Connected, Open, Counts
  <2>11. BatchHeld'
    BY <1>j, <2>1, <2>2, <2>3, <2>4, <2>10 DEF BatchHeld, InRangeOf
  <2> QED BY <2>6, <2>9, <2>11 DEF BatchRange
<1>43. CASE AckTaskRuns
  <2>1. /\ UNCHANGED <<sent, arrived, handed, closed, pendingAck, running, audit, unconsumed,
                       delivered, app, disp>>
        /\ ackTask # NoAck /\ ackTask' = NoAck /\ SendAck(ackTask)
    BY <1>43 DEF AckTaskRuns
  <2>2. Unc' = Unc /\ ~InProcess /\ ~InProcess' /\ app.pc = "settle" /\ InHand' = InHand
    BY <1>h, <1>k, <1>p, <2>1 DEF InProcess
  <2>3. /\ ackTask.type = "consumed" /\ ackTask.first \in Int /\ ackTask.last \in Int
        /\ \A m \in arrived : final[m] = {} /\ Live(m) /\ m <= ackTask.last => m \in handed
    BY <1>e, <1>j, <2>1 DEF AckBefore
  <2>4. \A m \in Messages : final[m] = {} /\ final'[m] # {} => m \in handed
    <3> SUFFICES ASSUME NEW m \in Messages, final[m] = {}, final'[m] # {} PROVE m \in handed
      OBVIOUS
    <3>1. m \in sent /\ m \in ackTask.first..ackTask.last
      BY <1>e, <2>1, SendAckFinal
    <3>2. m \in arrived /\ Live(m) /\ m <= ackTask.last
      BY <1>e, <2>3, <3>1 DEF Live
    <3> QED BY <2>3, <3>2
  <2>5. disp.pc # "idle" => disp.msg \in Messages
    BY <1>e DEF Connected
  <2>6. BatchAudit'
    BY <1>j, <2>1, <2>2, <2>4, <2>5 DEF BatchAudit
  <2>7. AckBefore(pendingAck)' /\ AckBefore(ackTask)'
    BY <1>b, <1>e, <1>j, <2>1, <2>2, AckKeeps, AckPending
  <2>8. BatchAcks'
    BY <1>j, <2>1, <2>2, <2>7 DEF BatchAcks
  <2>9. \A k \in sent : Open(k)' => Open(k) /\ ~InRangeOf(k, ackTask)
    <3> SUFFICES ASSUME NEW k \in sent, Open(k)' PROVE Open(k) /\ ~InRangeOf(k, ackTask)
      OBVIOUS
    <3>1. Open(k) /\ final'[k] = {}
      BY <1>b, <1>e, <2>1 DEF Open, Waiting
    <3>2. k \notin ackTask.first..ackTask.last
      BY <1>e, <2>1, <2>3, <3>1, SendAckFinal
    <3> QED BY <3>1, <3>2 DEF InRangeOf
  <2>10. BatchHeld'
    BY <1>j, <2>1, <2>2, <2>9 DEF BatchHeld, InRangeOf
  <2> QED BY <2>6, <2>8, <2>10 DEF BatchRange
<1> QED
  BY <1>1, <1>2, <1>3, <1>4, <1>5, <1>6, <1>7, <1>8, <1>9, <1>10, <1>11, <1>12, <1>13, <1>14,
     <1>15, <1>16, <1>17, <1>18, <1>19, <1>20, <1>21, <1>22, <1>23, <1>24, <1>25, <1>26, <1>27,
     <1>28, <1>29, <1>30, <1>31, <1>32, <1>33, <1>34, <1>35, <1>36, <1>37, <1>38, <1>39, <1>40,
     <1>41, <1>42, <1>43
  DEF Next, Application, Transport, Tasks

-----------------------------------------------------------------------------
(* The lists of a transaction as sequences. *)
LEMMA TxListsTyped ==
    ASSUME TxOrder, DOMAIN previously \subseteq Del
    PROVE  /\ Lists /\ Del \subseteq Messages /\ Unc \subseteq Messages
           /\ Del \subseteq Int /\ Unc \subseteq Int
           /\ \A x : x \in Del <=> \E i \in 1..Len(delivered) : delivered[i] = x
           /\ \A x : x \in Unc <=> \E i \in 1..Len(unconsumed) : unconsumed[i] = x
<1>1. /\ Del \subseteq Messages /\ Unc \subseteq Messages
      /\ \A x : x \in Del <=> \E i \in 1..Len(delivered) : delivered[i] = x
      /\ \A x : x \in Unc <=> \E i \in 1..Len(unconsumed) : unconsumed[i] = x
  BY ToSetSeq DEF TxOrder, Del, Unc
<1>2. Lists
  BY <1>1 DEF Lists, TxOrder
<1> QED BY <1>1, <1>2, MessagesInt

(* The empty list. *)
LEMMA OrderNothing ==
    /\ <<>> \in Seq(Messages) /\ Falling(<<>>) /\ Rising(<<>>)
  BY NothingLeft

(* The message in hand is later than all delivered ones. *)
LEMMA OrderPrepended ==
    ASSUME TxOrder, NEW m \in Messages, \A d \in Del : d < m, delivered' = <<m>> \o delivered
    PROVE  delivered' \in Seq(Messages) /\ Falling(delivered')
<1>1. \A i \in 1..Len(delivered) : delivered[i] < m
  BY ToSetSeq DEF TxOrder, Del
<1> QED BY <1>1, PrependFalling DEF TxOrder

(* The message dispatched is later than all that are held. *)
LEMMA OrderAppended ==
    ASSUME TxOrder, NEW m \in Messages, \A u \in Unc : u < m, unconsumed' = Append(unconsumed, m)
    PROVE  unconsumed' \in Seq(Messages) /\ Rising(unconsumed')
<1>1. \A i \in 1..Len(unconsumed) : unconsumed[i] < m
  BY ToSetSeq DEF TxOrder, Unc
<1> QED BY <1>1, AppendRising DEF TxOrder

(* A message leaves those delivered. *)
LEMMA OrderRemoved ==
    ASSUME TxOrder, NEW m, delivered' = RemoveFirst(delivered, m)
    PROVE  delivered' \in Seq(Messages) /\ Falling(delivered')
  BY RemoveFirstLeft DEF TxOrder, LeftOf

(* The earliest unconsumed message is taken in hand, or ended. *)
LEMMA OrderTail ==
    ASSUME TxOrder, unconsumed # <<>>, unconsumed' = Tail(unconsumed)
    PROVE  unconsumed' \in Seq(Messages) /\ Rising(unconsumed')
<1>1. LeftOf(Tail(unconsumed), unconsumed) /\ Rising(Tail(unconsumed))
  BY TailLeft DEF TxOrder
<1> QED BY <1>1 DEF LeftOf

(* What rollback puts back is earlier than all unconsumed ones. *)
LEMMA OrderPutBack ==
    ASSUME TxOrder, Lists, unconsumed' = PutBack
    PROVE  unconsumed' \in Seq(Messages) /\ Rising(unconsumed')
<1>1. Returned \in Seq(Messages) /\ Falling(Returned) /\ ToSet(Returned) = Del \ NotReplayed
  BY ReturnedSet DEF Lists, Del
<1> DEFINE r == Reverse(Returned)
<1>2. r \in Seq(Messages) /\ Rising(r) /\ ToSet(r) = ToSet(Returned)
  BY <1>1, ReverseRising, ToSetReverse
<1>3. unconsumed' = r \o unconsumed
  BY DEF PutBack
<1> HIDE DEF r
<1>4. \A i \in 1..Len(r), j \in 1..Len(unconsumed) : r[i] < unconsumed[j]
  <2> SUFFICES ASSUME NEW i \in 1..Len(r), NEW j \in 1..Len(unconsumed) PROVE r[i] < unconsumed[j]
    OBVIOUS
  <2>1. r[i] \in Del
    BY <1>1, <1>2, ToSetSeq
  <2>2. unconsumed[j] \in Unc
    BY ToSetSeq DEF Lists, Unc
  <2> QED BY <2>1, <2>2 DEF TxOrder
<1> QED BY <1>2, <1>3, <1>4, ConcatRising DEF TxOrder

(* clearDeliveredList keeps what a transaction has delivered and waits for its replay. *)
LEMMA TxCleared ==
    ASSUME Transacted, clearDeliveredList, clearList => previously = <<>>, clearList \in BOOLEAN
    PROVE  /\ clearList' = FALSE /\ delivered' = delivered /\ Del' = Del
           /\ ~clearList => previously' = previously
           /\ clearList => DOMAIN previously' = Del /\ \A m \in Del : previously'[m] = FALSE
<1>1. clearList' = FALSE /\ delivered' = delivered /\ Del' = Del
  BY SetsSame DEF clearDeliveredList
<1>2. ~clearList => previously' = previously
  BY DEF clearDeliveredList
<1>3. ASSUME clearList, delivered = <<>>
      PROVE  DOMAIN previously' = Del /\ \A m \in Del : previously'[m] = FALSE
  <2>1. previously' = <<>> /\ Del = {}
    BY <1>3, SetsSame DEF clearDeliveredList
  <2>2. DOMAIN <<>> = {}
    OBVIOUS
  <2> QED BY <2>1, <2>2
<1>4. ASSUME clearList, delivered # <<>>
      PROVE  DOMAIN previously' = Del /\ \A m \in Del : previously'[m] = FALSE
  <2>1. previously' = [m \in DOMAIN previously \cup Del |-> m \notin Del /\ previously[m]]
    BY <1>4 DEF clearDeliveredList, Del
  <2>2. DOMAIN previously = {}
    <3>1. previously = <<>>
      BY <1>4
    <3> QED BY <3>1
  <2> QED BY <2>1, <2>2
<1> QED BY <1>1, <1>2, <1>3, <1>4

(* Steps that leave the lists of a transaction alone. *)
LEMMA TxQuiet ==
    ASSUME TxLists, arrived \subseteq Messages, sent \subseteq arrived,
           UNCHANGED <<delivered, unconsumed, clearList, clearRequired, previously, sent,
                       arrived, got, closed, ackTask, disp>>,
           \A m \in Messages : final'[m] = {} => final[m] = {},
           \/ app' = app
           \/ /\ app'.pc \notin {"before", "after", "later", "write"}
              /\ app.pc # "before" /\ (InProcess => ~app.expired)
              /\ app'.pc \in {"ack", "rollback"} => ~clearList
           \/ InProcess /\ InProcess' /\ app'.msg = app.msg /\ app'.expired = app.expired
    PROVE  TxLists'
<1>1. Del' = Del /\ Unc' = Unc /\ InHand' = InHand /\ Held' = Held
  <2>1. InHand' = InHand
    BY SetsHeld DEF InProcess
  <2> QED BY <2>1, SetsSame, SetsHeld
<1>2. TxOrder'
  BY <1>1 DEF TxLists, TxOrder, InProcess
<1>3. TxPresent'
  BY <1>1 DEF TxLists, TxPresent, InProcess, InPresent
<1>4. TxReplays'
  BY <1>1 DEF TxLists, TxReplays, InPresent, Waiting
<1>5. \A m \in sent : Open(m)' => Open(m)
  BY DEF Open, Waiting
<1>6. TxOpen'
  <2>1. \A m \in sent' : Open(m)' => \/ m \in Held'
                                     \/ closed' /\ \A d \in Del' : d < m
    BY <1>1, <1>5 DEF TxLists, TxOpen
  <2>2. \A d \in Del' : d \in got' \/ (InProcess' /\ app'.expired /\ d = app'.msg)
    BY <1>1 DEF TxLists, TxOpen, InProcess
  <2>3. got' \subseteq Messages /\ \A m \in got' : final'[m] = {} => m \in Del'
    BY <1>1 DEF TxLists, TxOpen
  <2> QED BY <2>1, <2>2, <2>3 DEF TxOpen
<1> QED BY <1>2, <1>3, <1>4, <1>6 DEF TxLists

(* Steps in which clearDeliveredList is called. *)
LEMMA TxClears ==
    ASSUME TxLists, Transacted, Connected, clearDeliveredList, clearList \in BOOLEAN,
           arrived \subseteq Messages, sent \subseteq arrived,
           UNCHANGED <<unconsumed, clearRequired, sent, arrived, got, closed, ackTask, final>>,
           disp' = disp \/ (disp.pc # "idle" /\ disp'.pc # "idle" /\ disp'.msg = disp.msg),
           \/ app' = app
           \/ /\ app'.pc \notin {"before", "after", "later", "write"}
              /\ app.pc # "before" /\ ~InProcess
    PROVE  TxLists'
<1>1. /\ clearList' = FALSE /\ delivered' = delivered /\ Del' = Del
      /\ ~clearList => previously' = previously
      /\ clearList => DOMAIN previously' = Del /\ \A m \in Del : previously'[m] = FALSE
  BY TxCleared DEF TxLists, TxReplays
<1>2. Unc' = Unc /\ InHand' = InHand /\ Held' = Held
  <2>1. InHand' = InHand
    BY SetsHeld
  <2> QED BY <1>1, <2>1, SetsSame, SetsHeld
<1>3. \A m : Waiting(m)' = Waiting(m) /\ InPresent(m)' = InPresent(m)
  BY DEF Waiting, InPresent
<1>4. TxOrder'
  BY <1>1, <1>2 DEF TxLists, TxOrder
<1>5. TxPresent'
  <2>1. InProcess' => InProcess /\ app' = app
    BY DEF InProcess
  <2>2. InProcess => ~clearList
    BY DEF TxLists, TxPresent
  <2> QED BY <1>1, <1>2, <1>3, <2>1, <2>2 DEF TxLists, TxPresent
<1>6. TxReplays'
  <2>1. CASE ~clearList
    BY <1>1, <1>3, <2>1 DEF TxLists, TxReplays
  <2>2. CASE clearList
    <3>1. \A m \in sent : Waiting(m)
      BY <2>2 DEF Connected
    <3> QED BY <1>1, <1>3, <2>2, <3>1 DEF TxLists, TxReplays
  <2> QED BY <2>1, <2>2
<1>7. TxOpen'
  <2>1. \A m \in sent' : Open(m)' => \/ m \in Held'
                                     \/ closed' /\ \A d \in Del' : d < m
    BY <1>1, <1>2, <1>3 DEF TxLists, TxOpen, Open
  <2>2. \A d \in Del' : d \in got' \/ (InProcess' /\ app'.expired /\ d = app'.msg)
    BY <1>1 DEF TxLists, TxOpen, InProcess
  <2>3. got' \subseteq Messages /\ \A m \in got' : final'[m] = {} => m \in Del'
    BY <1>1 DEF TxLists, TxOpen
  <2> QED BY <2>1, <2>2, <2>3 DEF TxOpen
<1> QED BY <1>4, <1>5, <1>6, <1>7 DEF TxLists

-----------------------------------------------------------------------------
(* In a transaction every step keeps the lists, before a second interruption. *)
LEMMA TxListsNext ==
    ASSUME Shape, Counts, FirstConnection, interruptions = 0 => Kept, ConnInv, Connected, Transacted,
           interruptions <= 1, interruptions' <= 1, ~mixed, ~mixed', TxLists, TxEnds,
           final \in [Messages -> SUBSET Whys], Next
    PROVE  TxLists'
<1> USE DEF channelVars, ackVars, txVars, taskVars, brokerVars,
        appVars, boundVars, auditVars
<1>a. Ended
  BY EndedNext
<1>b. \A m \in Messages : final'[m] = {} => final[m] = {}
  BY <1>a DEF Ended
<1>d. /\ disp = [pc |-> disp.pc, msg |-> disp.msg, count |-> disp.count]
      /\ app = [pc |-> app.pc, op |-> app.op, msg |-> app.msg, expired |-> app.expired,
                old |-> app.old, todo |-> app.todo]
      /\ clearList \in BOOLEAN
  BY DEF Shape, DispShape, AppShape
<1>e. /\ Messages \subseteq Int /\ sent \subseteq Messages /\ sent \subseteq Int
      /\ arrived \subseteq Messages /\ arrived \subseteq Int /\ sent \subseteq arrived
  BY MessagesInt DEF Counts, ConnInv
<1>f. TxOrder /\ TxPresent /\ TxReplays /\ TxOpen
  BY DEF TxLists
<1>g. /\ Lists /\ Del \subseteq Messages /\ Unc \subseteq Messages /\ Del \subseteq Int
      /\ Unc \subseteq Int
  BY <1>f, TxListsTyped DEF TxReplays
<1>h. /\ Held = Unc \cup InHand \cup Del /\ Held' = Unc' \cup InHand' \cup Del'
      /\ (app.pc = "before" => InHand = {app.msg}) /\ (app.pc # "before" => InHand = {})
      /\ (app'.pc = "before" => InHand' = {app'.msg}) /\ (app'.pc # "before" => InHand' = {})
  BY SetsHeld
<1>i. /\ mode = "transacted" /\ mode # "auto" /\ mode # "client" /\ mode # "individual"
      /\ mode # "batch"
  BY DEF Transacted
<1>l. ~doubled
  BY DEF ConnInv, Counts
<1>m. disp.pc # "idle" => disp.msg \in sent /\ disp.msg \in Messages /\ disp.msg \in Int
                          /\ \A s \in sent : s = disp.msg \/ s < disp.msg
  <2> SUFFICES ASSUME disp.pc # "idle", NEW s \in sent PROVE s = disp.msg \/ s < disp.msg
    BY <1>e DEF Connected
  <2>1. s <= disp.msg /\ s \in Int /\ disp.msg \in Int
    BY <1>e DEF Connected
  <2> QED BY <2>1
<1>n. \A m \in sent : ~Waiting(m) => InPresent(m)
  BY <1>m DEF Waiting, InPresent
<1>o. Whys = {"consumed", "poison", "expired", "duplicate"}
  BY DEF Whys
<1>p. /\ delivered' = delivered => Del' = Del
      /\ unconsumed' = unconsumed => Unc' = Unc
      /\ delivered' = <<>> => Del' = {}
      /\ unconsumed' = <<>> => Unc' = {}
  BY SetsSame
<1>q. ASSUME sent' = sent, disp' = disp, NEW m \in sent, Open(m)'
      PROVE  Open(m) /\ final'[m] = {}
  BY <1>b, <1>e, <1>q DEF Open, Waiting
<1>r. \A d \in Del : d \in got \/ (InProcess /\ app.expired /\ d = app.msg)
  BY <1>f DEF TxOpen
<1>s. \A m \in sent : Open(m) => \/ m \in Held
                                 \/ closed /\ \A d \in Del : d < m
  BY <1>f DEF TxOpen
<1>t. /\ app.pc = "before" => /\ (\A d \in Del : d < app.msg) /\ (\A u \in Unc : app.msg < u)
                              /\ InPresent(app.msg) /\ app.msg \in sent /\ ~clearList
                              /\ clearRequired = 0
      /\ InProcess => /\ InPresent(app.msg) /\ app.msg \in sent /\ ~clearList
                      /\ app.msg \notin DOMAIN previously
      /\ \A d \in Del, u \in Unc : d < u
  BY <1>f DEF TxOrder, TxPresent, InPresent
<1>u. clearRequired # 0 => disp.pc \notin {"list", "put"} /\ \A m \in sent : Waiting(m)
  BY <1>l DEF Connected, Counts
<1>1. CASE Receive
  <2>1. /\ UNCHANGED <<unconsumed, clearRequired, sent, arrived, got, closed, ackTask, final>>
        /\ disp' = disp /\ clearDeliveredList
        /\ app.pc \notin {"before", "after", "later", "write"}
        /\ app'.pc \notin {"before", "after", "later", "write"}
    BY <1>d, <1>1 DEF Receive, Call, IdleApp
  <2>2. ~InProcess
    BY <2>1 DEF InProcess
  <2> QED BY <1>d, <1>e, <2>1, <2>2, TxClears
<1>2. CASE ClearList
  <2>1. /\ UNCHANGED <<unconsumed, clearRequired, sent, arrived, got, closed, ackTask, final>>
        /\ disp' = disp /\ clearDeliveredList
        /\ app.pc \notin {"before", "after", "later", "write"}
        /\ app'.pc \notin {"before", "after", "later", "write"}
    BY <1>d, <1>2 DEF ClearList, Goto
  <2>2. ~InProcess
    BY <2>1 DEF InProcess
  <2> QED BY <1>d, <1>e, <2>1, <2>2, TxClears
<1>3. CASE ReceiveNothing
  <2>1. /\ UNCHANGED <<delivered, unconsumed, clearList, clearRequired, previously, sent,
                       arrived, got, closed, ackTask, disp>>
        /\ app.pc \notin {"before", "after", "later", "write"}
        /\ app'.pc \notin {"before", "after", "later", "write"}
        /\ app'.pc \notin {"ack", "rollback"}
    BY <1>d, <1>3 DEF ReceiveNothing, IdleApp
  <2>2. ~InProcess
    BY <2>1 DEF InProcess
  <2> QED BY <1>b, <1>e, <2>1, <2>2, TxQuiet
<1>4. ASSUME NEW expired \in BOOLEAN, Dequeue(expired)
      PROVE  TxLists'
  <2> DEFINE h == Head(unconsumed)
  <2>1. /\ UNCHANGED <<delivered, clearList, clearRequired, previously, sent, arrived, got,
                       closed, ackTask, disp>>
        /\ app.pc = "wait" /\ unconsumed # <<>> /\ unconsumed' = Tail(unconsumed)
        /\ final' = final /\ app'.pc = "before" /\ app'.msg = h
    BY <1>d, <1>4 DEF Dequeue
  <2>2. h \in Unc /\ Unc' = Unc \ {h} /\ Del' = Del /\ \A u \in Unc' : h < u
    BY <1>g, <1>p, <2>1, SetsTail
  <2>3. clearRequired = 0
    <3>1. mixed' = (mixed \/ clearRequired > 0)
      BY <1>4 DEF Dequeue
    <3>2. ~(clearRequired > 0)
      BY <3>1, Zenon
    <3> QED BY <3>2 DEF Counts
  <2> HIDE DEF h
  <2>5. ~InProcess /\ ~InProcess' /\ Held' = Held
    BY <1>h, <2>1, <2>2 DEF InProcess
  <2>6. unconsumed' \in Seq(Messages) /\ Rising(unconsumed')
    BY <1>f, <2>1, OrderTail
  <2>7. TxOrder'
    BY <1>f, <1>t, <2>1, <2>2, <2>6 DEF TxOrder
  <2>8. TxPresent'
    <3>1. ~clearList
      BY <1>f, <2>1, <2>3 DEF TxPresent
    <3> QED BY <1>f, <2>1, <2>2, <2>3, <2>5, <3>1 DEF TxPresent, InPresent
  <2>9. TxReplays'
    BY <1>f, <2>1, <2>2 DEF TxReplays, InPresent, Waiting
  <2>10. TxOpen'
    BY <1>f, <1>q, <2>1, <2>2, <2>5 DEF TxOpen
  <2> QED BY <2>7, <2>8, <2>9, <2>10 DEF TxLists
<1>5. CASE DequeueExceeded
  <2> DEFINE h == Head(unconsumed)
  <2>1. /\ UNCHANGED <<delivered, clearList, clearRequired, previously, sent, arrived, got,
                       closed, ackTask, disp>>
        /\ app.pc = "wait" /\ unconsumed # <<>> /\ unconsumed' = Tail(unconsumed)
        /\ SettleOne(h, "poison") /\ app'.pc = "pull"
    BY <1>d, <1>5 DEF DequeueExceeded, LookAgain, IdleApp
  <2>2. h \in Unc /\ Unc' = Unc \ {h} /\ Del' = Del /\ \A u \in Unc' : h < u
    BY <1>g, <1>p, <2>1, SetsTail
  <2>4. \A k \in sent : final'[k] = {} => k # h
    BY <1>e, <1>o, <2>1, SettleOneFinal
  <2> HIDE DEF h
  <2>5. ~InProcess /\ ~InProcess' /\ Held' \subseteq Held /\ \A k \in Held : k # h => k \in Held'
    BY <1>h, <2>1, <2>2 DEF InProcess
  <2>6. unconsumed' \in Seq(Messages) /\ Rising(unconsumed')
    BY <1>f, <2>1, OrderTail
  <2>7. TxOrder'
    BY <1>f, <1>t, <2>1, <2>2, <2>6 DEF TxOrder
  <2>8. TxPresent'
    <3>1. clearList /\ clearRequired = 0 => FALSE
      BY <1>f, <2>1 DEF TxPresent
    <3> QED BY <1>f, <2>1, <2>2, <2>5, <3>1 DEF TxPresent, InPresent
  <2>9. TxReplays'
    <3>1. \A k : Waiting(k)' = Waiting(k) /\ InPresent(k)' = InPresent(k)
      BY <2>1 DEF Waiting, InPresent
    <3>2. \A k \in arrived : final'[k] = {} => final[k] = {}
      BY <1>b, <1>e
    <3> QED BY <1>f, <2>1, <2>2, <3>1, <3>2 DEF TxReplays
  <2>10. TxOpen'
    <3>1. \A k \in sent : Open(k)' => Open(k) /\ k # h
      BY <1>e, <1>q, <2>1, <2>4
    <3> QED BY <1>b, <1>f, <2>1, <2>2, <2>5, <3>1 DEF TxOpen
  <2> QED BY <2>7, <2>8, <2>9, <2>10 DEF TxLists
<1>6. CASE beforeMessageIsConsumed
  <2>1. /\ UNCHANGED <<unconsumed, clearList, clearRequired, previously, sent, arrived, closed,
                       ackTask, disp, final>>
        /\ app.pc = "before" /\ app'.pc = "later" /\ app'.msg = app.msg
        /\ app'.expired = app.expired
        /\ delivered' = <<app.msg>> \o delivered
        /\ got' = IF app.expired THEN got ELSE got \cup {app.msg}
    BY <1>d, <1>i, <1>6 DEF beforeMessageIsConsumed, Goto
  <2>2. /\ app.msg \in Messages /\ (\A x \in Del : x < app.msg) /\ (\A u \in Unc : app.msg < u)
        /\ InPresent(app.msg) /\ app.msg \in sent /\ ~clearList
    BY <1>e, <1>t, <2>1
  <2>3. Del' = Del \cup {app.msg} /\ Unc' = Unc
    BY <1>g, <1>p, <2>1, <2>2, SetsPrepend
  <2>4. Held' = Held /\ ~InProcess /\ InProcess'
    BY <1>h, <2>1, <2>3 DEF InProcess
  <2>5. app.msg \notin Del
    <3>0. app.msg \in Int
      BY <1>e, <2>2
    <3>1. ~(app.msg < app.msg)
      BY <3>0
    <3> QED BY <2>2, <3>1
  <2>6. delivered' \in Seq(Messages) /\ Falling(delivered')
    BY <1>f, <2>1, <2>2, OrderPrepended
  <2>7. TxOrder'
    BY <1>f, <2>1, <2>2, <2>3, <2>6 DEF TxOrder
  <2>8. TxPresent'
    BY <1>f, <2>1, <2>2, <2>3, <2>4, <2>5 DEF TxPresent, TxReplays, InPresent
  <2>9. TxReplays'
    BY <1>f, <2>1, <2>2, <2>3 DEF TxReplays, InPresent, Waiting
  <2>10. TxOpen'
    <3>1. \A k \in Del' : k \in got' \/ (InProcess' /\ app'.expired /\ k = app'.msg)
      BY <1>r, <2>1, <2>3, <2>4
    <3>2. got' \subseteq Messages /\ \A k \in got' : final'[k] = {} => k \in Del'
      BY <1>f, <2>1, <2>2, <2>3 DEF TxOpen
    <3>3. \A k \in sent : Open(k)' => k \in Held
      <4>1. ~closed
        BY <2>1 DEF Shape, Receiving
      <4>2. \A k \in sent : Open(k)' => Open(k)
        BY <1>q, <2>1
      <4> QED BY <1>s, <4>1, <4>2
    <3> QED BY <2>1, <2>4, <3>1, <3>2, <3>3 DEF TxOpen
  <2> QED BY <2>7, <2>8, <2>9, <2>10 DEF TxLists
<1>7. CASE ackLater
  <2>1. UNCHANGED <<delivered, unconsumed, clearList, clearRequired, previously, sent, arrived,
                    got, closed, ackTask, disp>>
    BY <1>7 DEF ackLater
  <2>2. InProcess /\ InProcess' /\ app'.msg = app.msg /\ app'.expired = app.expired
    BY <1>d, <1>i, <1>7 DEF ackLater, InProcess
  <2> QED BY <1>b, <1>e, <2>1, <2>2, TxQuiet
<1>8. CASE ackLaterWrites
  <2>1. UNCHANGED <<delivered, unconsumed, clearList, clearRequired, previously, sent, arrived,
                    got, closed, ackTask, disp>>
    BY <1>8 DEF ackLaterWrites
  <2>2. InProcess
        /\ (\/ InProcess' /\ app'.msg = app.msg /\ app'.expired = app.expired
            \/ ~app.expired /\ app'.pc = "idle" /\ app.pc = "write")
    <3>1. app.pc = "write" /\ InProcess
      BY <1>8 DEF ackLaterWrites, InProcess
    <3>2. CASE app.expired
      <4>1. app' = [app EXCEPT !.pc = "after"]
        BY <1>i, <1>8, <3>2 DEF ackLaterWrites, Transacted
      <4> QED BY <1>d, <3>1, <4>1 DEF InProcess
    <3>3. CASE ~app.expired
      <4>1. app' = IdleApp
        BY <1>i, <1>8, <3>3 DEF ackLaterWrites, Transacted
      <4> QED BY <3>1, <3>3, <4>1 DEF IdleApp
    <3> QED BY <3>2, <3>3
  <2> QED BY <1>b, <1>e, <2>1, <2>2, TxQuiet
<1>9. CASE ConsumedExpired
  <2>1. /\ UNCHANGED <<unconsumed, clearList, clearRequired, previously, sent, arrived, closed,
                       ackTask, disp, got>>
        /\ app.pc = "after" /\ app'.pc = "pull"
        /\ delivered' = RemoveFirst(delivered, app.msg) /\ SettleOne(app.msg, "expired")
    BY <1>d, <1>9 DEF ConsumedExpired, LookAgain, IdleApp
  <2>2. Del' = Del \ {app.msg} /\ Unc' = Unc /\ InProcess /\ ~InProcess'
    BY <1>g, <1>p, <2>1, SetsRemove DEF InProcess
  <2>3. \A k \in sent : final'[k] = {} => k # app.msg
    BY <1>e, <1>o, <2>1, SettleOneFinal
  <2>4. /\ app.msg \in sent /\ app.msg \notin DOMAIN previously /\ ~Waiting(app.msg)
    <3>0. app.msg \in Int
      BY <1>e, <1>t, <2>2
    <3>1. ~(app.msg < app.msg)
      BY <3>0
    <3> QED BY <1>t, <2>2, <3>1 DEF InPresent, Waiting
  <2>5. Held' \subseteq Held /\ \A k \in Held : k # app.msg => k \in Held'
    BY <1>h, <2>1, <2>2
  <2>6. delivered' \in Seq(Messages) /\ Falling(delivered')
    BY <1>f, <2>1, OrderRemoved
  <2>7. TxOrder'
    BY <1>f, <2>1, <2>2, <2>6 DEF TxOrder
  <2>8. TxPresent'
    BY <1>f, <2>1, <2>2, <2>5 DEF TxPresent, InPresent
  <2>9. TxReplays'
    <3>1. ASSUME NEW k \in arrived, NEW x \in Del' \ sent,
                 Waiting(k) \/ (final'[k] = {} /\ \A s \in sent : s < k), k < x
          PROVE  k \in Del'
      <4>1. k # app.msg
        BY <1>e, <2>3, <2>4, <3>1
      <4> QED BY <1>b, <1>e, <1>f, <2>2, <3>1, <4>1 DEF TxReplays
    <3>2. \A k : Waiting(k)' = Waiting(k) /\ InPresent(k)' = InPresent(k)
      BY <2>1 DEF Waiting, InPresent
    <3> QED BY <1>f, <2>1, <2>2, <2>4, <3>1, <3>2 DEF TxReplays
  <2>10. TxOpen'
    <3>1. \A k \in sent : Open(k)' => Open(k) /\ k # app.msg
      BY <1>e, <1>q, <2>1, <2>3
    <3> QED BY <1>b, <1>f, <2>1, <2>2, <2>3, <2>4, <2>5, <3>1 DEF TxOpen
  <2> QED BY <2>7, <2>8, <2>9, <2>10 DEF TxLists
<1>10. CASE ConsumedAuto
  BY <1>i, <1>10 DEF ConsumedAuto, Transacted
<1>11. CASE ConsumedLater
  <2>1. UNCHANGED <<delivered, unconsumed, clearList, clearRequired, previously, sent, arrived,
                    got, closed, ackTask, disp>>
    BY <1>11 DEF ConsumedLater
  <2>2. InProcess
        /\ (\/ InProcess' /\ app'.msg = app.msg /\ app'.expired = app.expired
            \/ ~app.expired /\ app'.pc = "idle" /\ app.pc = "after")
    <3>1. app.pc = "after" /\ InProcess /\ ~app.expired
      BY <1>11 DEF ConsumedLater, InProcess
    <3>2. CASE app.msg \in ToSet(delivered)
      <4>1. app' = [app EXCEPT !.pc = "later"]
        BY <1>i, <1>11, <3>2 DEF ConsumedLater, Transacted
      <4> QED BY <1>d, <3>1, <4>1 DEF InProcess
    <3>3. CASE app.msg \notin ToSet(delivered)
      <4>1. app' = IdleApp
        BY <1>i, <1>11, <3>3 DEF ConsumedLater, Transacted
      <4> QED BY <3>1, <3>3, <4>1 DEF IdleApp
    <3> QED BY <3>2, <3>3
  <2> QED BY <1>b, <1>e, <2>1, <2>2, TxQuiet
<1>12. CASE Acknowledge
  BY <1>i, <1>12 DEF Acknowledge, Transacted
<1>13. CASE AcknowledgeNothing
  <2>1. /\ UNCHANGED <<delivered, unconsumed, clearList, clearRequired, previously, sent,
                       arrived, got, closed, ackTask, disp>>
        /\ app.pc \notin {"before", "after", "later", "write"}
        /\ app'.pc \notin {"before", "after", "later", "write"}
        /\ app'.pc \notin {"ack", "rollback"}
    BY <1>d, <1>13 DEF AcknowledgeNothing, Acknowledged
  <2>2. ~InProcess
    BY <2>1 DEF InProcess
  <2> QED BY <1>b, <1>e, <2>1, <2>2, TxQuiet
<1>14. CASE AcknowledgeAll
  <2>1. /\ UNCHANGED <<delivered, unconsumed, clearList, clearRequired, previously, sent,
                       arrived, got, closed, ackTask, disp>>
        /\ app.pc \notin {"before", "after", "later", "write"}
        /\ app'.pc \notin {"before", "after", "later", "write"}
        /\ app'.pc \notin {"ack", "rollback"}
    BY <1>d, <1>14 DEF AcknowledgeAll, Acknowledged
  <2>2. ~InProcess
    BY <2>1 DEF InProcess
  <2> QED BY <1>b, <1>e, <2>1, <2>2, TxQuiet
<1>15. CASE AcknowledgeThrows
  <2>1. /\ UNCHANGED <<delivered, unconsumed, clearList, clearRequired, previously, sent,
                       arrived, got, closed, ackTask, disp>>
        /\ app.pc \notin {"before", "after", "later", "write"}
        /\ app'.pc \notin {"before", "after", "later", "write"}
        /\ app'.pc \notin {"ack", "rollback"}
    BY <1>d, <1>15 DEF AcknowledgeThrows
  <2>2. ~InProcess
    BY <2>1 DEF InProcess
  <2> QED BY <1>b, <1>e, <2>1, <2>2, TxQuiet
<1>16. ASSUME NEW m \in Messages, AcknowledgeOne(m)
      PROVE  TxLists'
  BY <1>i, <1>16 DEF AcknowledgeOne, Transacted
<1>17. ASSUME NEW op \in {"commit", "rollback"}, EndTransaction(op)
      PROVE  TxLists'
  <2>1. app.pc = "idle" /\ ~InProcess
    BY <1>17 DEF EndTransaction, Call, InProcess
  <2>2. CASE "tx" \in syncs
    <3>1. /\ UNCHANGED <<unconsumed, clearRequired, sent, arrived, got, closed, ackTask, final>>
          /\ disp' = disp /\ clearDeliveredList
          /\ app'.pc = "ack"
      BY <1>d, <1>17, <2>2 DEF EndTransaction, Call, IdleApp
    <3> QED BY <1>d, <1>e, <2>1, <3>1, TxClears
  <2>3. CASE "tx" \notin syncs
    <3>1. /\ UNCHANGED <<delivered, unconsumed, clearList, clearRequired, previously, sent,
                         arrived, got, closed, ackTask, disp>>
          /\ app'.pc = "end"
      BY <1>d, <1>17, <2>3 DEF EndTransaction, Call, IdleApp
    <3> QED BY <1>b, <1>e, <2>1, <3>1, TxQuiet
  <2> QED BY <2>2, <2>3
<1>18. CASE EndNothing
  <2>1. /\ UNCHANGED <<delivered, unconsumed, clearList, clearRequired, previously, sent,
                       arrived, got, closed, ackTask, disp>>
        /\ app.pc \notin {"before", "after", "later", "write"}
        /\ app'.pc \notin {"before", "after", "later", "write"}
        /\ app'.pc \notin {"ack", "rollback"}
    BY <1>d, <1>18 DEF EndNothing, IdleApp
  <2>2. ~InProcess
    BY <2>1 DEF InProcess
  <2> QED BY <1>b, <1>e, <2>1, <2>2, TxQuiet
<1>19. CASE CommitRequest
  <2>1. /\ UNCHANGED <<delivered, unconsumed, clearList, clearRequired, previously, sent,
                       arrived, got, closed, ackTask, disp>>
        /\ app.pc \notin {"before", "after", "later", "write"}
        /\ app'.pc \notin {"before", "after", "later", "write"}
        /\ app'.pc \notin {"ack", "rollback"}
    BY <1>d, <1>19 DEF CommitRequest
  <2>2. ~InProcess
    BY <2>1 DEF InProcess
  <2> QED BY <1>b, <1>e, <2>1, <2>2, TxQuiet
<1>20. CASE CommitRequestFails
  <2>1. /\ UNCHANGED <<delivered, unconsumed, clearList, clearRequired, previously, sent,
                       arrived, got, closed, ackTask, disp>>
        /\ app.pc \notin {"before", "after", "later", "write"}
        /\ app'.pc \notin {"before", "after", "later", "write"}
        /\ app'.pc \notin {"ack", "rollback"}
    BY <1>d, <1>20 DEF CommitRequestFails
  <2>2. ~InProcess
    BY <2>1 DEF InProcess
  <2> QED BY <1>b, <1>e, <2>1, <2>2, TxQuiet
<1>21. CASE RollbackRequest
  <2>1. /\ UNCHANGED <<delivered, unconsumed, clearList, clearRequired, previously, sent,
                       arrived, got, closed, ackTask, disp>>
        /\ app.pc \notin {"before", "after", "later", "write"}
        /\ app'.pc \notin {"before", "after", "later", "write"}
        /\ app'.pc \notin {"ack", "rollback"}
    BY <1>d, <1>21 DEF RollbackRequest
  <2>2. ~InProcess
    BY <2>1 DEF InProcess
  <2> QED BY <1>b, <1>e, <2>1, <2>2, TxQuiet
<1>22. CASE RollbackRequestFails
  <2>1. /\ UNCHANGED <<delivered, unconsumed, clearList, clearRequired, previously, sent,
                       arrived, got, closed, ackTask, disp>>
        /\ app.pc \notin {"before", "after", "later", "write"}
        /\ app'.pc \notin {"before", "after", "later", "write"}
        /\ app'.pc \notin {"ack", "rollback"}
    BY <1>d, <1>22 DEF RollbackRequestFails, IdleApp
  <2>2. ~InProcess
    BY <2>1 DEF InProcess
  <2> QED BY <1>b, <1>e, <2>1, <2>2, TxQuiet
<1>23. ASSUME NEW sync \in {"tx", "close"}, RunSync(sync)
      PROVE  TxLists'
  <2>1. app.pc = "syncs" /\ ~InProcess /\ app.op \in {"commit", "rollback"}
        /\ app'.pc = IF sync = "close" THEN "settle" ELSE app.op
    BY <1>d, <1>23 DEF RunSync, InProcess, Shape
  <2>2. CASE sync = "tx" /\ app.op = "rollback"
    <3>1. /\ UNCHANGED <<unconsumed, clearRequired, sent, arrived, got, closed, ackTask, final>>
          /\ disp' = disp /\ clearDeliveredList
      BY <1>23, <2>2 DEF RunSync
    <3> QED BY <1>d, <1>e, <2>1, <3>1, TxClears
  <2>3. CASE ~(sync = "tx" /\ app.op = "rollback")
    <3>1. UNCHANGED <<delivered, unconsumed, clearList, clearRequired, previously, sent,
                      arrived, got, closed, ackTask, disp>>
      BY <1>23, <2>3 DEF RunSync
    <3>2. app'.pc \notin {"ack", "rollback", "before", "after", "later", "write"}
      BY <1>23, <2>1, <2>3
    <3> QED BY <1>b, <1>e, <2>1, <3>1, <3>2, TxQuiet
  <2> QED BY <2>2, <2>3
<1>24. CASE SyncsDone
  <2>1. /\ UNCHANGED <<delivered, unconsumed, clearList, clearRequired, previously, sent,
                       arrived, got, closed, ackTask, disp>>
        /\ app.pc \notin {"before", "after", "later", "write"}
        /\ app'.pc \notin {"before", "after", "later", "write"}
        /\ app'.pc \notin {"ack", "rollback"}
    BY <1>d, <1>24 DEF SyncsDone, IdleApp
  <2>2. ~InProcess
    BY <2>1 DEF InProcess
  <2> QED BY <1>b, <1>e, <2>1, <2>2, TxQuiet
<1>25. CASE commit
  <2>1. /\ UNCHANGED <<clearList, clearRequired, sent, arrived, closed, ackTask, disp>>
        /\ app.pc = "commit" /\ app'.pc = "syncs" /\ delivered' = <<>> /\ previously' = <<>>
        /\ got' = {}
        /\ final' = final /\ unconsumed' = unconsumed
    BY <1>d, <1>25 DEF commit, Goto
  <2>2. Del' = {} /\ InHand = {} /\ InHand' = {} /\ ~InProcess' /\ DOMAIN previously' = {}
    BY <1>h, <1>p, <2>1 DEF InProcess
  <2>6. Unc' = Unc
    BY <1>p, <2>1
  <2>7. unconsumed' \in Seq(Messages) /\ Rising(unconsumed')
    BY <1>f, <2>1 DEF TxOrder
  <2>8. Held' \subseteq Held /\ Held' = Unc' /\ Held = Unc \cup Del
    BY <1>h, <2>2, <2>6
  <2>9. TxOrder'
    BY <2>1, <2>2, <2>7, OrderNothing DEF TxOrder
  <2>10. TxPresent'
    BY <1>f, <2>1, <2>2, <2>6, <2>8 DEF TxPresent, InPresent
  <2>11. TxReplays'
    BY <2>1, <2>2 DEF TxReplays
  <2>12. \A k \in sent : Open(k)' => k \in Unc' \/ closed
    <3> SUFFICES ASSUME NEW k \in sent, Open(k)'
                 PROVE  k \in Unc' \/ closed
      OBVIOUS
    <3>0. SUFFICES ASSUME ~closed PROVE k \in Unc'
      OBVIOUS
    <3>1. Open(k) /\ final'[k] = {}
      BY <1>q, <2>1
    <3>2. k \in Unc \/ k \in Del
      BY <1>s, <2>8, <3>0, <3>1
    <3>3. CASE k \in Del
      <4>1. final[k] # {}
        BY <2>1, <3>3 DEF TxEnds, TxAcks, AfterCommit
      <4> QED BY <1>t, <2>6, <2>8, <3>1, <3>3, <4>1 DEF Open
    <3> QED BY <2>6, <2>8, <3>2, <3>3
  <2>13. TxOpen'
    BY <2>1, <2>2, <2>8, <2>12 DEF TxOpen
  <2> QED BY <2>9, <2>10, <2>11, <2>13 DEF TxLists
<1>26. CASE Recover
  BY <1>i, <1>26 DEF Recover, Transacted
<1>27. CASE rollbackNothing
  <2>1. /\ UNCHANGED <<clearList, clearRequired, sent, arrived, closed, ackTask, disp>>
        /\ app.pc = "rollback" /\ app'.pc = "syncs" /\ delivered' = <<>>
        /\ previously' = <<>> /\ got' = {}
        /\ final' = final /\ unconsumed' = unconsumed /\ Returned = <<>>
    BY <1>d, <1>27 DEF rollbackNothing, RolledBack, Goto
  <2>2. Del' = {} /\ InHand = {} /\ InHand' = {} /\ ~InProcess' /\ DOMAIN previously' = {}
    BY <1>h, <1>p, <2>1 DEF InProcess
  <2>3. ~clearList
    BY <1>f, <2>1 DEF TxPresent
  <2>4. \A k \in Del \ NotReplayed : InPresent(k)
    BY <1>f, <1>n, <2>3 DEF TxReplays, NotReplayed
  <2>5. \A k \in NotReplayed : k \in sent /\ ~Waiting(k) => closed
    BY <1>f DEF TxReplays, NotReplayed
  <2>6. Unc' = Unc
    BY <1>p, <2>1
  <2>7. unconsumed' \in Seq(Messages) /\ Rising(unconsumed')
    BY <1>f, <2>1 DEF TxOrder
  <2>8. Held' \subseteq Held /\ Held' = Unc' /\ Held = Unc \cup Del
    BY <1>h, <2>2, <2>6
  <2>9. TxOrder'
    BY <2>1, <2>2, <2>7, OrderNothing DEF TxOrder
  <2>10. TxPresent'
    BY <1>f, <2>1, <2>2, <2>6, <2>8 DEF TxPresent, InPresent
  <2>11. TxReplays'
    BY <2>1, <2>2 DEF TxReplays
  <2>12. \A k \in sent : Open(k)' => k \in Unc' \/ closed
    <3> SUFFICES ASSUME NEW k \in sent, Open(k)'
                 PROVE  k \in Unc' \/ closed
      OBVIOUS
    <3>0. SUFFICES ASSUME ~closed PROVE k \in Unc'
      OBVIOUS
    <3>1. Open(k) /\ final'[k] = {}
      BY <1>q, <2>1
    <3>2. k \in Unc \/ k \in Del
      BY <1>s, <2>8, <3>0, <3>1
    <3>3. k \notin Del
      BY <1>g, <2>1, <2>5, <3>0, <3>1, SetsReturned DEF Open
    <3> QED BY <2>6, <2>8, <3>2, <3>3
  <2>13. TxOpen'
    BY <2>1, <2>2, <2>8, <2>12 DEF TxOpen
  <2> QED BY <2>9, <2>10, <2>11, <2>13 DEF TxLists
<1>28. CASE rollbackPoison
  <2>1. /\ UNCHANGED <<clearList, clearRequired, sent, arrived, closed, ackTask, disp>>
        /\ app.pc = "rollback" /\ app'.pc = "syncs" /\ delivered' = <<>>
        /\ previously' = <<>> /\ got' = {}
        /\ unconsumed' = unconsumed /\ Returned # <<>>
        /\ Settle(Covered(Last(Returned), Head(Returned)), "poison")
    BY <1>d, <1>28 DEF rollbackPoison, RolledBack, Goto
  <2>2. Del' = {} /\ InHand = {} /\ InHand' = {} /\ ~InProcess' /\ DOMAIN previously' = {}
    BY <1>h, <1>p, <2>1 DEF InProcess
  <2>3. ~clearList
    BY <1>f, <2>1 DEF TxPresent
  <2>4. \A k \in Del \ NotReplayed : InPresent(k)
    BY <1>f, <1>n, <2>3 DEF TxReplays, NotReplayed
  <2>5. \A k \in NotReplayed : k \in sent /\ ~Waiting(k) => closed
    BY <1>f DEF TxReplays, NotReplayed
  <2>6. Unc' = Unc
    BY <1>p, <2>1
  <2>7. unconsumed' \in Seq(Messages) /\ Rising(unconsumed')
    BY <1>f, <2>1 DEF TxOrder
  <2>8. Held' \subseteq Held /\ Held' = Unc' /\ Held = Unc \cup Del
    BY <1>h, <2>2, <2>6
  <2>9. TxOrder'
    BY <2>1, <2>2, <2>7, OrderNothing DEF TxOrder
  <2>10. TxPresent'
    BY <1>f, <2>1, <2>2, <2>6, <2>8 DEF TxPresent, InPresent
  <2>11. TxReplays'
    BY <2>1, <2>2 DEF TxReplays
  <2>12. \A k \in sent : Open(k)' => k \in Unc' \/ closed
    <3> SUFFICES ASSUME NEW k \in sent, Open(k)'
                 PROVE  k \in Unc' \/ closed
      OBVIOUS
    <3>0. SUFFICES ASSUME ~closed PROVE k \in Unc'
      OBVIOUS
    <3>1. Open(k) /\ final'[k] = {}
      BY <1>q, <2>1
    <3>2. k \in Unc \/ k \in Del
      BY <1>s, <2>8, <3>0, <3>1
    <3>3. k \notin Del
      <4> SUFFICES ASSUME k \in Del PROVE FALSE
        OBVIOUS
      <4>1. k \in Del \ NotReplayed
        BY <2>5, <3>0, <3>1 DEF Open
      <4>2. k \in Last(Returned)..Head(Returned)
        BY <1>g, <2>1, <4>1, SetsReturned
      <4>3. k \in Covered(Last(Returned), Head(Returned))
        BY <3>1, <4>2 DEF Covered, Open
      <4> QED BY <1>e, <1>o, <2>1, <3>1, <4>3, SettleFinal
    <3> QED BY <2>6, <2>8, <3>2, <3>3
  <2>13. TxOpen'
    BY <2>1, <2>2, <2>8, <2>12 DEF TxOpen
  <2> QED BY <2>9, <2>10, <2>11, <2>13 DEF TxLists
<1>29. ASSUME NEW delayed \in BOOLEAN, rollback(delayed)
      PROVE  TxLists'
  <2>1. /\ UNCHANGED <<clearList, clearRequired, sent, arrived, closed, ackTask, disp>>
        /\ app.pc = "rollback" /\ app'.pc = "syncs" /\ delivered' = <<>>
        /\ previously' = <<>> /\ got' = {}
        /\ final' = final /\ unconsumed' = PutBack
    BY <1>d, <1>29 DEF rollback, RolledBack, Goto
  <2>2. Del' = {} /\ InHand = {} /\ InHand' = {} /\ ~InProcess' /\ DOMAIN previously' = {}
    BY <1>h, <1>p, <2>1 DEF InProcess
  <2>3. ~clearList
    BY <1>f, <2>1 DEF TxPresent
  <2>4. \A k \in Del \ NotReplayed : InPresent(k)
    BY <1>f, <1>n, <2>3 DEF TxReplays, NotReplayed
  <2>5. \A k \in NotReplayed : k \in sent /\ ~Waiting(k) => closed
    BY <1>f DEF TxReplays, NotReplayed
  <2>6. Unc' = Unc \cup (Del \ NotReplayed)
    BY <1>g, <2>1, SetsBack
  <2>7. unconsumed' \in Seq(Messages) /\ Rising(unconsumed')
    BY <1>f, <1>g, <2>1, OrderPutBack
  <2>8. Held' \subseteq Held /\ Held' = Unc' /\ Held = Unc \cup Del
    BY <1>h, <2>2, <2>6
  <2>9. TxOrder'
    BY <2>1, <2>2, <2>7, OrderNothing DEF TxOrder
  <2>10. TxPresent'
    BY <1>f, <2>1, <2>2, <2>6, <2>8, <2>3, <2>4 DEF TxPresent, InPresent
  <2>11. TxReplays'
    BY <2>1, <2>2 DEF TxReplays
  <2>12. \A k \in sent : Open(k)' => k \in Unc' \/ closed
    <3> SUFFICES ASSUME NEW k \in sent, Open(k)'
                 PROVE  k \in Unc' \/ closed
      OBVIOUS
    <3>0. SUFFICES ASSUME ~closed PROVE k \in Unc'
      OBVIOUS
    <3>1. Open(k) /\ final'[k] = {}
      BY <1>q, <2>1
    <3>2. k \in Unc \/ k \in Del
      BY <1>s, <2>8, <3>0, <3>1
    <3>3. k \in Del => k \notin NotReplayed
      BY <2>5, <3>0, <3>1 DEF Open
    <3> QED BY <2>6, <2>8, <3>2, <3>3
  <2>13. TxOpen'
    BY <2>1, <2>2, <2>8, <2>12 DEF TxOpen
  <2> QED BY <2>9, <2>10, <2>11, <2>13 DEF TxLists
<1>30. CASE CloseDeferred
  <2>1. /\ UNCHANGED <<delivered, unconsumed, clearList, clearRequired, previously, sent,
                       arrived, got, closed, ackTask, disp>>
        /\ app' = app
    BY <1>30 DEF CloseDeferred
  <2> QED BY <1>b, <1>e, <2>1, TxQuiet
<1>31. CASE Close
  <2>1. /\ UNCHANGED <<unconsumed, clearList, clearRequired, previously, sent, arrived, got,
                       closed, disp>>
        /\ app.pc = "idle" /\ app'.pc = "settle" /\ deliverAcks
    BY <1>d, <1>31 DEF Close, Call, IdleApp
  <2>2. UNCHANGED <<ackTask, delivered>>
    BY <1>i, <2>1 DEF deliverAcks
  <2>3. ~InProcess
    BY <2>1 DEF InProcess
  <2> QED BY <1>b, <1>e, <2>1, <2>2, <2>3, TxQuiet
<1>32. CASE dispose
  <2>1. /\ UNCHANGED <<clearList, clearRequired, previously, sent, arrived, got, ackTask, disp,
                       delivered, final>>
        /\ app.pc = "settle" /\ app'.pc \in {"idle", "syncs"}
        /\ UNCHANGED <<closed, unconsumed>> \/ (closed' = TRUE /\ ~closed /\ unconsumed' = <<>>)
    BY <1>d, <1>32 DEF dispose, ExecutorTerminated, IdleApp
  <2>2. ~InProcess /\ ~InProcess' /\ InHand = {} /\ InHand' = {} /\ Del' = Del
    BY <1>h, <1>p, <2>1 DEF InProcess
  <2>3. CASE UNCHANGED <<closed, unconsumed>>
    BY <1>b, <1>e, <2>1, <2>2, <2>3, TxQuiet
  <2>4. CASE closed' = TRUE /\ unconsumed' = <<>>
    <3>1. Unc' = {} /\ Held' = Del /\ Held = Unc \cup Del
      BY <1>h, <1>p, <2>2, <2>4
    <3>2. TxOrder'
      BY <1>f, <2>1, <2>2, <2>4, <3>1, OrderNothing DEF TxOrder
    <3>3. TxPresent'
      BY <1>f, <2>1, <2>2, <2>4, <3>1 DEF TxPresent
    <3>4. TxReplays'
      BY <1>f, <2>1, <2>2, <2>4 DEF TxReplays, InPresent, Waiting
    <3>5. TxOpen'
      <4>1. \A k \in sent : Open(k)' => k \in Del \/ (\A x \in Del : x < k)
        BY <1>q, <1>s, <1>t, <2>1, <3>1
      <4> QED BY <1>f, <1>r, <2>1, <2>2, <2>4, <3>1, <4>1 DEF TxOpen
    <3> QED BY <3>2, <3>3, <3>4, <3>5 DEF TxLists
  <2> QED BY <2>1, <2>3, <2>4
<1>33. ASSUME NEW m \in Messages, NEW count \in BrokerCounts, OnDispatch(m, count)
      PROVE  TxLists'
  <2>1. /\ disp.pc = "idle" /\ disp'.pc = "progress" /\ disp'.msg = m
        /\ sent' = sent \cup {m} /\ arrived' = arrived \cup {m}
        /\ final[m] = {} /\ (\A s \in sent : s < m) /\ (m \in arrived \/ \A x \in arrived : x < m)
        /\ UNCHANGED <<delivered, unconsumed, clearList, clearRequired, previously, got,
                       closed, ackTask, final, app>>
    BY <1>33 DEF OnDispatch
  <2>2. Del' = Del /\ Unc' = Unc /\ InHand' = InHand /\ Held' = Held /\ InProcess' = InProcess
    BY <1>h, <1>p, <2>1 DEF InProcess
  <2>3. m \in Int /\ m \notin sent
    <3>1. m \in Int /\ ~(m < m)
      BY <1>e
    <3> QED BY <2>1, <3>1
  <2>4. /\ \A k : InPresent(k) => InPresent(k)'
        /\ \A k : Waiting(k)' <=> k = m
        /\ \A k : ~Waiting(k)
    BY <2>1 DEF InPresent, Waiting
  <2>5. TxOrder'
    BY <1>f, <2>1, <2>2 DEF TxOrder
  <2>6. TxPresent'
    BY <1>f, <2>1, <2>2, <2>4 DEF TxPresent
  <2>7. ASSUME NEW k \in arrived', NEW x \in Del \ sent',
               Waiting(k)' \/ (final[k] = {} /\ \A s \in sent' : s < k), k < x
        PROVE  k \in Del
    <3>1. x \in Del \ sent /\ x \in arrived /\ x \in Int /\ k \in Int
      BY <1>e, <1>f, <1>h, <2>1, <2>3, <2>7 DEF TxPresent
    <3>2. final[k] = {} /\ \A s \in sent : s < k
      BY <2>1, <2>4, <2>7
    <3>3. k \in arrived
      <4>1. CASE k = m
        <5>1. ~(x < m)
          BY <2>3, <2>7, <3>1, <4>1
        <5> QED BY <2>1, <3>1, <4>1, <5>1
      <4>2. CASE k # m
        BY <2>1, <2>7, <4>2
      <4> QED BY <4>1, <4>2
    <3> QED BY <1>f, <2>7, <3>1, <3>2, <3>3 DEF TxReplays
  <2>8. ASSUME NEW k \in DOMAIN previously
        PROVE  /\ previously[k] \in BOOLEAN
               /\ previously[k] => k \in sent' /\ ~Waiting(k)'
               /\ k \in sent' /\ ~Waiting(k)' => previously[k] \/ closed
    BY <1>f, <2>1, <2>3, <2>4 DEF TxReplays
  <2>9. TxReplays'
    <3>1. ~clearList => \A x \in Del : InPresent(x)' \/ x \in DOMAIN previously
      BY <1>f, <2>4 DEF TxReplays
    <3> QED BY <1>f, <2>1, <2>2, <2>7, <2>8, <3>1 DEF TxReplays
  <2>10. \A k \in sent' : Open(k)' => k \in sent /\ Open(k)
    BY <2>1, <2>4 DEF Open
  <2>11. TxOpen'
    BY <1>f, <2>1, <2>2, <2>10 DEF TxOpen
  <2> QED BY <2>5, <2>6, <2>9, <2>11 DEF TxLists
<1>34. CASE DispatchClearsProgress
  <2>1. /\ UNCHANGED <<delivered, clearList, previously, sent, arrived, got, closed, ackTask,
                       final, app>>
        /\ disp' = disp \/ (disp.pc = "progress" /\ disp'.pc = "list" /\ disp'.msg = disp.msg)
        /\ clearMessagesInProgress
    BY <1>d, <1>34 DEF DispatchClearsProgress
  <2>2. Del' = Del /\ InHand' = InHand /\ InProcess' = InProcess
    BY <1>h, <1>p, <2>1 DEF InProcess
  <2>3. \A k : Waiting(k)' = Waiting(k) /\ InPresent(k)' = InPresent(k)
    BY <2>1 DEF Waiting, InPresent
  <2>4. /\ clearRequired = 0 => UNCHANGED <<unconsumed, clearRequired>> /\ Unc' = Unc
        /\ clearRequired # 0 => unconsumed' = <<>> /\ Unc' = {} /\ app.pc # "before"
    <3>1. clearRequired # 0 => unconsumed' = <<>>
      BY <2>1 DEF clearMessagesInProgress, Counts
    <3> QED BY <1>t, <2>1, <3>1, SetsProgress DEF Counts
  <2>5. Unc' \subseteq Unc /\ Held' \subseteq Held /\ (clearRequired = 0 => Held' = Held)
    BY <1>h, <2>2, <2>4
  <2>6. TxOrder'
    <3>1. unconsumed' \in Seq(Messages) /\ Rising(unconsumed')
      BY <1>f, <2>4, OrderNothing DEF TxOrder
    <3> QED BY <1>f, <2>1, <2>2, <2>5, <3>1 DEF TxOrder
  <2>7. TxPresent'
    <3>1. CASE clearRequired = 0
      BY <1>f, <2>1, <2>2, <2>3, <2>4, <2>5, <3>1 DEF TxPresent
    <3>2. CASE clearRequired # 0
      BY <1>f, <2>1, <2>2, <2>3, <2>4, <2>5, <3>2 DEF TxPresent
    <3> QED BY <3>1, <3>2
  <2>8. TxReplays'
    BY <1>f, <2>1, <2>2, <2>3 DEF TxReplays
  <2>9. \A k \in sent : Open(k)' => Open(k) /\ clearRequired = 0
    BY <1>u, <2>1, <2>3 DEF Open
  <2>10. TxOpen'
    BY <1>f, <2>1, <2>2, <2>5, <2>9 DEF TxOpen
  <2> QED BY <2>6, <2>7, <2>8, <2>10 DEF TxLists
<1>35. CASE DispatchClearsList
  <2>1. /\ UNCHANGED <<unconsumed, clearRequired, sent, arrived, got, closed, ackTask, final>>
        /\ clearDeliveredList /\ app' = app
        /\ disp.pc # "idle" /\ disp'.pc # "idle" /\ disp'.msg = disp.msg
    BY <1>d, <1>35 DEF DispatchClearsList
  <2> QED BY <1>d, <1>e, <2>1, TxClears
<1>36. CASE DispatchClosed
  <2>1. /\ UNCHANGED <<delivered, clearList, clearRequired, sent, arrived, got, closed,
                       ackTask, app>>
        /\ disp.pc = "put" /\ disp'.pc = "idle"
        /\ closed /\ UNCHANGED <<unconsumed, previously, final>>
    BY <1>36 DEF DispatchClosed, IdleDisp
  <2>2. disp.msg \in sent /\ disp.msg \in Messages /\ disp.msg \in Int /\ disp.msg \in arrived
    BY <1>e, <1>m, <2>1
  <2>3. Del' = Del /\ InHand' = InHand /\ InProcess' = InProcess /\ ~clearList
    BY <1>h, <1>p, <2>1 DEF InProcess, Connected
  <2>4. /\ \A k : InPresent(k) => InPresent(k)'
        /\ \A k : ~Waiting(k)' /\ (Waiting(k) <=> k = disp.msg)
    BY <2>1 DEF InPresent, Waiting
  <2>5. disp.msg \in Del \/ \A x \in Del : x < disp.msg
    <3> SUFFICES ASSUME disp.msg \notin Del, NEW x \in Del PROVE x < disp.msg
      OBVIOUS
    <3>1. CASE x \in sent
      BY <1>m, <2>1, <3>1
    <3>2. CASE x \notin sent
      <4>1. ~(disp.msg < x)
        BY <1>f, <2>2, <2>4, <3>2 DEF TxReplays
      <4>2. x # disp.msg /\ x \in Int
        BY <1>g, <2>2, <3>2
      <4> QED BY <2>2, <4>1, <4>2
    <3> QED BY <3>1, <3>2
  <2>6. Unc' = Unc /\ Held' = Held
    BY <1>h, <1>p, <2>1, <2>3
  <2>7. TxOrder'
    BY <1>f, <2>1, <2>3, <2>6 DEF TxOrder
  <2>8. TxPresent'
    BY <1>f, <2>1, <2>3, <2>4, <2>6 DEF TxPresent
  <2>9. TxReplays'
    <3>1. ASSUME NEW k \in DOMAIN previously
          PROVE  /\ previously'[k] \in BOOLEAN
                 /\ previously'[k] => k \in sent /\ ~Waiting(k)'
                 /\ k \in sent /\ ~Waiting(k)' => previously'[k] \/ closed
      BY <1>f, <2>1, <2>2, <2>4 DEF TxReplays
    <3>2. DOMAIN previously' = DOMAIN previously
      BY <2>1
    <3>3. \A x \in Del : InPresent(x)' \/ x \in DOMAIN previously
      BY <1>f, <2>3, <2>4 DEF TxReplays
    <3>4. ASSUME NEW k \in arrived, NEW x \in Del \ sent, final'[k] = {}, \A s \in sent : s < k, k < x
          PROVE  k \in Del
      BY <1>b, <1>e, <1>f, <3>4 DEF TxReplays
    <3> QED BY <1>f, <2>1, <2>3, <2>4, <3>1, <3>2, <3>3, <3>4 DEF TxReplays
  <2>10. \A k \in sent : Open(k)' => Open(k) \/ k = disp.msg
    BY <2>1, <2>4 DEF Open
  <2>11. TxOpen'
    BY <1>f, <1>h, <2>1, <2>3, <2>5, <2>6, <2>10 DEF TxOpen
  <2> QED BY <2>7, <2>8, <2>9, <2>11 DEF TxLists
<1>37. CASE DispatchFresh
  <2>1. /\ UNCHANGED <<delivered, clearList, clearRequired, sent, arrived, got, closed,
                       ackTask, app>>
        /\ disp.pc = "put" /\ disp'.pc = "idle"
        /\ ~closed /\ disp.msg \notin Held /\ unconsumed' = Append(unconsumed, disp.msg)
        /\ UNCHANGED <<previously, final>>
    BY <1>37 DEF DispatchFresh, IdleDisp
  <2>2. disp.msg \in sent /\ disp.msg \in Messages /\ disp.msg \in Int /\ disp.msg \in arrived
    BY <1>e, <1>m, <2>1
  <2>3. Del' = Del /\ InHand' = InHand /\ InProcess' = InProcess /\ ~clearList
    BY <1>h, <1>p, <2>1 DEF InProcess, Connected
  <2>4. /\ \A k : InPresent(k) => InPresent(k)'
        /\ \A k : ~Waiting(k)' /\ (Waiting(k) <=> k = disp.msg)
    BY <2>1 DEF InPresent, Waiting
  <2>5. disp.msg \in Del \/ \A x \in Del : x < disp.msg
    <3> SUFFICES ASSUME disp.msg \notin Del, NEW x \in Del PROVE x < disp.msg
      OBVIOUS
    <3>1. CASE x \in sent
      BY <1>m, <2>1, <3>1
    <3>2. CASE x \notin sent
      <4>1. ~(disp.msg < x)
        BY <1>f, <2>2, <2>4, <3>2 DEF TxReplays
      <4>2. x # disp.msg /\ x \in Int
        BY <1>g, <2>2, <3>2
      <4> QED BY <2>2, <4>1, <4>2
    <3> QED BY <3>1, <3>2
  <2>6. Unc' = Unc \cup {disp.msg} /\ Held' = Held \cup {disp.msg} /\ disp.msg \notin Del
    <3>1. Unc' = Unc \cup {disp.msg}
      BY <1>g, <2>1, <2>2, SetsAppend
    <3> QED BY <1>h, <2>1, <2>3, <3>1
  <2>12. clearRequired = 0 /\ \A u \in Unc : u < disp.msg /\ InPresent(u)
    <3>1. clearRequired = 0
      BY <1>u, <2>1
    <3> QED BY <1>f, <2>1, <3>1 DEF TxPresent, InPresent
  <2>13. app.pc = "before" => app.msg < disp.msg
    BY <1>t, <2>1 DEF InPresent
  <2>14. unconsumed' \in Seq(Messages) /\ Rising(unconsumed')
    BY <1>f, <2>1, <2>2, <2>12, OrderAppended
  <2>7. TxOrder'
    BY <1>f, <1>t, <2>1, <2>3, <2>5, <2>6, <2>13, <2>14 DEF TxOrder
  <2>8. TxPresent'
    <3>1. \A k \in sent : InPresent(k)'
      BY <2>1 DEF InPresent
    <3>2. \A u \in Unc' : InPresent(u)'
      BY <2>2, <2>4, <2>6, <2>12, <3>1
    <3> QED BY <1>f, <2>1, <2>2, <2>3, <2>4, <2>6, <3>2 DEF TxPresent
  <2>9. TxReplays'
    <3>1. ASSUME NEW k \in DOMAIN previously
          PROVE  /\ previously'[k] \in BOOLEAN
                 /\ previously'[k] => k \in sent /\ ~Waiting(k)'
                 /\ k \in sent /\ ~Waiting(k)' => previously'[k] \/ closed
      BY <1>f, <2>1, <2>2, <2>4, <2>6 DEF TxReplays
    <3>2. DOMAIN previously' = DOMAIN previously
      BY <2>1
    <3>3. \A x \in Del : InPresent(x)' \/ x \in DOMAIN previously
      BY <1>f, <2>3, <2>4 DEF TxReplays
    <3>4. ASSUME NEW k \in arrived, NEW x \in Del \ sent, final'[k] = {}, \A s \in sent : s < k, k < x
          PROVE  k \in Del
      BY <1>b, <1>e, <1>f, <3>4 DEF TxReplays
    <3> QED BY <1>f, <2>1, <2>3, <2>4, <3>1, <3>2, <3>3, <3>4 DEF TxReplays
  <2>10. \A k \in sent : Open(k)' => k = disp.msg \/ (Open(k) /\ k < disp.msg)
    BY <1>m, <2>1, <2>4 DEF Open
  <2>11. TxOpen'
    <3>1. \A k \in sent : Open(k)' => k \in Held'
      BY <1>s, <2>1, <2>6, <2>10
    <3> QED BY <1>f, <2>1, <2>3, <2>6, <3>1 DEF TxOpen
  <2> QED BY <2>7, <2>8, <2>9, <2>11 DEF TxLists
<1>38. CASE DispatchReplay
  <2>1. /\ UNCHANGED <<delivered, clearList, clearRequired, sent, arrived, got, closed,
                       ackTask, app>>
        /\ disp.pc = "put" /\ disp'.pc = "idle"
        /\ disp.msg \in DOMAIN previously /\ previously' = [previously EXCEPT ![disp.msg] = TRUE]
        /\ UNCHANGED <<unconsumed, final>>
    BY <1>38 DEF DispatchReplay, IdleDisp
  <2>2. disp.msg \in sent /\ disp.msg \in Messages /\ disp.msg \in Int /\ disp.msg \in arrived
    BY <1>e, <1>m, <2>1
  <2>3. Del' = Del /\ InHand' = InHand /\ InProcess' = InProcess /\ ~clearList
    BY <1>h, <1>p, <2>1 DEF InProcess, Connected
  <2>4. /\ \A k : InPresent(k) => InPresent(k)'
        /\ \A k : ~Waiting(k)' /\ (Waiting(k) <=> k = disp.msg)
    BY <2>1 DEF InPresent, Waiting
  <2>6. Unc' = Unc /\ Held' = Held
    BY <1>h, <1>p, <2>1, <2>3
  <2>7. TxOrder'
    BY <1>f, <2>1, <2>3, <2>6 DEF TxOrder
  <2>8. TxPresent'
    BY <1>f, <2>1, <2>3, <2>4, <2>6 DEF TxPresent
  <2>9. TxReplays'
    <3>1. ASSUME NEW k \in DOMAIN previously
          PROVE  /\ previously'[k] \in BOOLEAN
                 /\ previously'[k] => k \in sent /\ ~Waiting(k)'
                 /\ k \in sent /\ ~Waiting(k)' => previously'[k] \/ closed
      BY <1>f, <2>1, <2>2, <2>4 DEF TxReplays
    <3>2. DOMAIN previously' = DOMAIN previously
      BY <2>1
    <3>3. \A x \in Del : InPresent(x)' \/ x \in DOMAIN previously
      BY <1>f, <2>3, <2>4 DEF TxReplays
    <3>4. ASSUME NEW k \in arrived, NEW x \in Del \ sent, final'[k] = {}, \A s \in sent : s < k, k < x
          PROVE  k \in Del
      BY <1>b, <1>e, <1>f, <3>4 DEF TxReplays
    <3> QED BY <1>f, <2>1, <2>3, <2>4, <3>1, <3>2, <3>3, <3>4 DEF TxReplays
  <2>10. \A k \in sent : Open(k)' => Open(k) \/ k \in Held
    BY <1>f, <1>h, <2>1, <2>4 DEF Open, TxReplays
  <2>11. TxOpen'
    BY <1>f, <2>1, <2>3, <2>6, <2>10 DEF TxOpen
  <2> QED BY <2>7, <2>8, <2>9, <2>11 DEF TxLists
<1>39. CASE DispatchDuplicate
  <2>1. /\ UNCHANGED <<delivered, clearList, clearRequired, sent, arrived, got, closed,
                       ackTask, app>>
        /\ disp.pc = "put" /\ disp'.pc = "idle"
        /\ disp.msg \notin DOMAIN previously /\ SettleOne(disp.msg, "duplicate")
        /\ UNCHANGED <<unconsumed, previously>>
    BY <1>39 DEF DispatchDuplicate, IdleDisp
  <2>2. disp.msg \in sent /\ disp.msg \in Messages /\ disp.msg \in Int /\ disp.msg \in arrived
    BY <1>e, <1>m, <2>1
  <2>3. Del' = Del /\ InHand' = InHand /\ InProcess' = InProcess /\ ~clearList
    BY <1>h, <1>p, <2>1 DEF InProcess, Connected
  <2>4. /\ \A k : InPresent(k) => InPresent(k)'
        /\ \A k : ~Waiting(k)' /\ (Waiting(k) <=> k = disp.msg)
    BY <2>1 DEF InPresent, Waiting
  <2>6. Unc' = Unc /\ Held' = Held
    BY <1>h, <1>p, <2>1, <2>3
  <2>7. TxOrder'
    BY <1>f, <2>1, <2>3, <2>6 DEF TxOrder
  <2>8. TxPresent'
    BY <1>f, <2>1, <2>3, <2>4, <2>6 DEF TxPresent
  <2>9. TxReplays'
    <3>1. ASSUME NEW k \in DOMAIN previously
          PROVE  /\ previously'[k] \in BOOLEAN
                 /\ previously'[k] => k \in sent /\ ~Waiting(k)'
                 /\ k \in sent /\ ~Waiting(k)' => previously'[k] \/ closed
      BY <1>f, <2>1, <2>2, <2>4 DEF TxReplays
    <3>2. DOMAIN previously' = DOMAIN previously
      BY <2>1
    <3>3. \A x \in Del : InPresent(x)' \/ x \in DOMAIN previously
      BY <1>f, <2>3, <2>4 DEF TxReplays
    <3>4. ASSUME NEW k \in arrived, NEW x \in Del \ sent, final'[k] = {}, \A s \in sent : s < k, k < x
          PROVE  k \in Del
      BY <1>b, <1>e, <1>f, <3>4 DEF TxReplays
    <3> QED BY <1>f, <2>1, <2>3, <2>4, <3>1, <3>2, <3>3, <3>4 DEF TxReplays
  <2>5. \A k \in sent : final'[k] = {} => k # disp.msg
    BY <1>e, <1>o, <2>1, SettleOneFinal
  <2>10. \A k \in sent : Open(k)' => Open(k)
    BY <1>b, <1>e, <2>1, <2>4, <2>5 DEF Open
  <2>11. TxOpen'
    BY <1>b, <1>f, <2>1, <2>3, <2>6, <2>10 DEF TxOpen
  <2> QED BY <2>7, <2>8, <2>9, <2>11 DEF TxLists
<1>40. CASE transportInterrupted
  <2>1. /\ sent' = {} /\ ~closed /\ interruptions' = interruptions + 1
        /\ disp.pc = "idle" /\ app.pc \in {"idle", "wait"}
        /\ clearRequired' = clearRequired + 1 /\ clearList'
        /\ UNCHANGED <<arrived, closed, ackTask, final, unconsumed, delivered, previously, got,
                       app, disp>>
    BY <1>40 DEF transportInterrupted
  <2>2. interruptions = 0 /\ sent = arrived /\ clearRequired = 0 /\ previously = <<>>
    BY <2>1 DEF ConnInv, Counts, FirstConnection, Kept, Line
  <2>3. /\ Del' = Del /\ Unc' = Unc /\ InHand = {} /\ InHand' = {} /\ Held' = Held
        /\ ~InProcess /\ ~InProcess'
    BY <1>h, <1>p, <2>1 DEF InProcess
  <2>4. TxOrder'
    BY <1>f, <2>1, <2>3 DEF TxOrder
  <2>5. TxPresent'
    BY <1>f, <2>1, <2>2, <2>3 DEF TxPresent
  <2>6. TxReplays'
    <3>1. ASSUME NEW k \in arrived, NEW x \in Del, final[k] = {}, k < x PROVE k \in Del
      <4>1. Open(k) /\ k \in sent /\ k \in Int /\ x \in Int
        BY <1>e, <1>g, <2>1, <2>2, <3>1 DEF Open, Waiting
      <4>2. k \in Unc \/ k \in Del
        BY <1>h, <1>s, <2>1, <2>2, <2>3, <4>1
      <4>3. k \notin Unc
        <5>1. ~(x < k)
          BY <3>1, <4>1
        <5> QED BY <1>t, <5>1
      <4> QED BY <4>2, <4>3
    <3>2. \A k : ~Waiting(k)'
      BY <2>1 DEF Waiting
    <3> QED BY <2>1, <2>2, <2>3, <3>1, <3>2 DEF TxReplays
  <2>7. TxOpen'
    BY <1>f, <2>1, <2>3 DEF TxOpen
  <2> QED BY <2>4, <2>5, <2>6, <2>7 DEF TxLists
<1>41. CASE StartConsumer
  <2>1. /\ UNCHANGED <<delivered, unconsumed, clearList, clearRequired, previously, sent,
                       arrived, got, closed, ackTask, disp>>
        /\ app' = app
    BY <1>41 DEF StartConsumer
  <2> QED BY <1>b, <1>e, <2>1, TxQuiet
<1>42. CASE ClearConsumer
  <2>1. /\ UNCHANGED <<delivered, clearList, previously, sent, arrived, got, closed, ackTask,
                       final, app>>
        /\ disp' = disp \/ (disp.pc = "progress" /\ disp'.pc = "list" /\ disp'.msg = disp.msg)
        /\ clearMessagesInProgress
    BY <1>d, <1>42 DEF ClearConsumer
  <2>2. Del' = Del /\ InHand' = InHand /\ InProcess' = InProcess
    BY <1>h, <1>p, <2>1 DEF InProcess
  <2>3. \A k : Waiting(k)' = Waiting(k) /\ InPresent(k)' = InPresent(k)
    BY <2>1 DEF Waiting, InPresent
  <2>4. /\ clearRequired = 0 => UNCHANGED <<unconsumed, clearRequired>> /\ Unc' = Unc
        /\ clearRequired # 0 => unconsumed' = <<>> /\ Unc' = {} /\ app.pc # "before"
    <3>1. clearRequired # 0 => unconsumed' = <<>>
      BY <2>1 DEF clearMessagesInProgress, Counts
    <3> QED BY <1>t, <2>1, <3>1, SetsProgress DEF Counts
  <2>5. Unc' \subseteq Unc /\ Held' \subseteq Held /\ (clearRequired = 0 => Held' = Held)
    BY <1>h, <2>2, <2>4
  <2>6. TxOrder'
    <3>1. unconsumed' \in Seq(Messages) /\ Rising(unconsumed')
      BY <1>f, <2>4, OrderNothing DEF TxOrder
    <3> QED BY <1>f, <2>1, <2>2, <2>5, <3>1 DEF TxOrder
  <2>7. TxPresent'
    <3>1. CASE clearRequired = 0
      BY <1>f, <2>1, <2>2, <2>3, <2>4, <2>5, <3>1 DEF TxPresent
    <3>2. CASE clearRequired # 0
      BY <1>f, <2>1, <2>2, <2>3, <2>4, <2>5, <3>2 DEF TxPresent
    <3> QED BY <3>1, <3>2
  <2>8. TxReplays'
    BY <1>f, <2>1, <2>2, <2>3 DEF TxReplays
  <2>9. \A k \in sent : Open(k)' => Open(k) /\ clearRequired = 0
    BY <1>u, <2>1, <2>3 DEF Open
  <2>10. TxOpen'
    BY <1>f, <2>1, <2>2, <2>5, <2>9 DEF TxOpen
  <2> QED BY <2>6, <2>7, <2>8, <2>10 DEF TxLists
<1>43. CASE AckTaskRuns
  BY <1>f, <1>43 DEF AckTaskRuns, TxPresent
<1> QED
  BY <1>1, <1>2, <1>3, <1>4, <1>5, <1>6, <1>7, <1>8, <1>9, <1>10, <1>11, <1>12, <1>13, <1>14,
     <1>15, <1>16, <1>17, <1>18, <1>19, <1>20, <1>21, <1>22, <1>23, <1>24, <1>25, <1>26, <1>27,
     <1>28, <1>29, <1>30, <1>31, <1>32, <1>33, <1>34, <1>35, <1>36, <1>37, <1>38, <1>39, <1>40,
     <1>41, <1>42, <1>43
  DEF Next, Application, Transport, Tasks

-----------------------------------------------------------------------------
(* The fault budget of FewFaults is only used up. *)
LEMMA FewFaultsBefore == Counts /\ Onward /\ FewFaults' => FewFaults
<1> SUFFICES ASSUME Counts, Onward, FewFaults' PROVE FewFaults
  OBVIOUS
<1>1. interruptions \in Nat /\ failures \in Nat
  BY DEF Counts
<1>2. interruptions' = interruptions \/ interruptions' = interruptions + 1
  BY DEF Onward
<1>3. failures' = failures \/ failures' = failures + 1
  BY DEF Onward
<1>4. interruptions' = 0 \/ interruptions' + failures' <= 1
  BY DEF FewFaults
<1> QED BY <1>1, <1>2, <1>3, <1>4 DEF FewFaults

(* Steps of the other threads leave the end of a transaction alone. *)
LEMMA TxEndsAside ==
    ASSUME TxEnds, FewFaults' => FewFaults, UNCHANGED <<app, inTx, syncRegistered, txAcked, got>>,
           syncs \subseteq syncs', "tx" \in syncs' => "tx" \in syncs, Del' = Del, Del \subseteq Messages,
           \A m \in Messages : final'[m] = {} => final[m] = {},
           interruptions' = interruptions \/ app.pc \in {"idle", "wait"}
    PROVE  TxEnds'
<1>1. TxRegistered'
  BY DEF TxEnds, TxRegistered, Ending
<1>2. TxAcks'
  BY DEF TxEnds, TxAcks, AfterCommit
<1> QED BY <1>1, <1>2 DEF TxEnds

(* Steps of the application thread that are not in the end of a transaction. *)
LEMMA TxEndsElsewhere ==
    ASSUME TxEnds, FewFaults' => FewFaults, UNCHANGED <<inTx, syncs, syncRegistered, txAcked>>,
           app.pc # "end", ~Ending, ~Ending', app'.pc \notin {"ack", "ackClear", "end"}
    PROVE  TxEnds'
<1>1. TxRegistered'
  BY DEF TxEnds, TxRegistered
<1>2. txAcked' = {}
  BY DEF TxEnds, TxAcks
<1>3. ~AfterCommit'
  BY DEF AfterCommit, Ending
<1>4. TxAcks'
  BY <1>2, <1>3 DEF TxAcks
<1> QED BY <1>1, <1>4 DEF TxEnds

(* In a transaction every step keeps what is registered and acknowledged. *)
LEMMA TxEndsNext ==
    ASSUME Shape, Counts, FirstConnection, interruptions = 0 => Kept, ConnInv, Connected, Transacted,
           interruptions <= 1, interruptions' <= 1, ~mixed, ~mixed', TxLists, TxEnds,
           final \in [Messages -> SUBSET Whys], Next
    PROVE  TxEnds'
<1> USE DEF channelVars, ackVars, txVars, taskVars, brokerVars,
        appVars, boundVars, auditVars
<1>a. Ended
  BY EndedNext
<1>b. \A m \in Messages : final'[m] = {} => final[m] = {}
  BY <1>a DEF Ended
<1>c. FewFaults' => FewFaults
  BY CountsNext, FewFaultsBefore
<1>d. /\ app = [pc |-> app.pc, op |-> app.op, msg |-> app.msg, expired |-> app.expired,
                old |-> app.old, todo |-> app.todo]
      /\ clearList \in BOOLEAN
  BY DEF Shape, AppShape
<1>e. /\ Messages \subseteq Int /\ sent \subseteq Messages /\ sent \subseteq Int
      /\ arrived \subseteq Messages /\ arrived \subseteq Int /\ sent \subseteq arrived
  BY MessagesInt DEF Counts, ConnInv
<1>f. TxOrder /\ TxPresent /\ TxReplays /\ TxOpen
  BY DEF TxLists
<1>g. /\ Lists /\ Del \subseteq Messages /\ Unc \subseteq Messages /\ Del \subseteq Int
      /\ Unc \subseteq Int
  BY <1>f, TxListsTyped DEF TxReplays
<1>h. TxRegistered /\ TxAcks
  BY DEF TxEnds
<1>i. /\ mode = "transacted" /\ mode # "auto" /\ mode # "client" /\ mode # "individual"
      /\ mode # "batch"
  BY DEF Transacted
<1>k. clearDeliveredList => Del' = Del
  BY <1>d, <1>f, TxCleared DEF TxReplays
<1>o. Whys = {"consumed", "poison", "expired", "duplicate"}
  BY DEF Whys
<1>p. /\ delivered' = delivered => Del' = Del
      /\ delivered' = <<>> => Del' = {}
      /\ delivered = <<>> => Del = {}
  BY SetsSame
<1>q. app.pc # "end" => txAcked = {}
  BY <1>h DEF TxAcks
<1>r. Transacted /\ app.pc \in {"ack", "ackClear", "end", "syncs", "commit", "rollback"} =>
          app.op \in {"commit", "rollback"}
  BY DEF Shape
<1>1. CASE Receive
  <2>1. /\ UNCHANGED <<inTx, syncs, syncRegistered, txAcked>>
        /\ app.pc \in {"idle"} \cup Receiving /\ app'.pc \in {"idle"} \cup Receiving 
    BY <1>d, <1>i, <1>1 DEF Receive, Call, IdleApp, Receiving
  <2>2. app.pc # "end" /\ ~Ending /\ ~Ending' /\ app'.pc \notin {"ack", "ackClear", "end"}
    BY <2>1 DEF Ending, Receiving
  <2> QED BY <1>c, <2>1, <2>2, TxEndsElsewhere
<1>2. CASE ClearList
  <2>1. /\ UNCHANGED <<inTx, syncs, syncRegistered, txAcked, got>>
        /\ \/ app.pc = "pull" /\ app'.pc = "wait"
           \/ app.pc = "ackClear" /\ app'.pc = "ack"
    BY <1>d, <1>2 DEF ClearList, Goto
  <2>2. ~Ending /\ ~Ending' /\ ~AfterCommit' /\ txAcked = {}
    BY <1>q, <2>1 DEF Ending, AfterCommit
  <2>3. TxRegistered'
    BY <1>c, <1>h, <2>1, <2>2 DEF TxRegistered
  <2>4. TxAcks'
    BY <2>1, <2>2 DEF TxAcks
  <2> QED BY <2>3, <2>4 DEF TxEnds
<1>3. CASE ReceiveNothing
  <2>1. /\ UNCHANGED <<inTx, syncs, syncRegistered, txAcked>>
        /\ app.pc \in {"idle"} \cup Receiving /\ app'.pc \in {"idle"} \cup Receiving 
    BY <1>d, <1>i, <1>3 DEF ReceiveNothing, IdleApp, Receiving
  <2>2. app.pc # "end" /\ ~Ending /\ ~Ending' /\ app'.pc \notin {"ack", "ackClear", "end"}
    BY <2>1 DEF Ending, Receiving
  <2> QED BY <1>c, <2>1, <2>2, TxEndsElsewhere
<1>4. ASSUME NEW expired \in BOOLEAN, Dequeue(expired)
      PROVE  TxEnds'
  <2>1. /\ UNCHANGED <<inTx, syncs, syncRegistered, txAcked>>
        /\ app.pc \in {"idle"} \cup Receiving /\ app'.pc \in {"idle"} \cup Receiving 
    BY <1>d, <1>i, <1>4 DEF Dequeue, Receiving
  <2>2. app.pc # "end" /\ ~Ending /\ ~Ending' /\ app'.pc \notin {"ack", "ackClear", "end"}
    BY <2>1 DEF Ending, Receiving
  <2> QED BY <1>c, <2>1, <2>2, TxEndsElsewhere
<1>5. CASE DequeueExceeded
  <2>1. /\ UNCHANGED <<inTx, syncs, syncRegistered, txAcked>>
        /\ app.pc \in {"idle"} \cup Receiving /\ app'.pc \in {"idle"} \cup Receiving 
    BY <1>d, <1>i, <1>5 DEF DequeueExceeded, LookAgain, IdleApp, Receiving
  <2>2. app.pc # "end" /\ ~Ending /\ ~Ending' /\ app'.pc \notin {"ack", "ackClear", "end"}
    BY <2>1 DEF Ending, Receiving
  <2> QED BY <1>c, <2>1, <2>2, TxEndsElsewhere
<1>6. CASE beforeMessageIsConsumed
  <2>1. /\ UNCHANGED <<inTx, syncs, syncRegistered, txAcked>>
        /\ app.pc \in {"idle"} \cup Receiving /\ app'.pc \in {"idle"} \cup Receiving 
    BY <1>d, <1>i, <1>6 DEF beforeMessageIsConsumed, Goto, Receiving
  <2>2. app.pc # "end" /\ ~Ending /\ ~Ending' /\ app'.pc \notin {"ack", "ackClear", "end"}
    BY <2>1 DEF Ending, Receiving
  <2> QED BY <1>c, <2>1, <2>2, TxEndsElsewhere
<1>7. CASE ackLater
  <2>1. /\ registerSync /\ txAcked' = txAcked /\ app.pc = "later" /\ app'.pc = "write"
    BY <1>d, <1>7 DEF ackLater
  <2>2. ~Ending /\ ~Ending' /\ ~AfterCommit' /\ txAcked = {}
    BY <1>q, <2>1 DEF Ending, AfterCommit
  <2>3. inTx' = TRUE /\ (FewFaults => "tx" \in syncs')
    <3>1. FewFaults /\ syncRegistered => inTx /\ "tx" \in syncs
      BY <1>h, <2>2 DEF TxRegistered
    <3> QED BY <2>1, <3>1 DEF registerSync
  <2>4. TxRegistered'
    BY <1>c, <2>1, <2>2, <2>3 DEF TxRegistered
  <2>5. TxAcks'
    BY <2>1, <2>2 DEF TxAcks
  <2> QED BY <2>4, <2>5 DEF TxEnds
<1>8. CASE ackLaterWrites
  <2>1. /\ UNCHANGED <<inTx, syncs, syncRegistered, txAcked>>
        /\ app.pc \in {"idle"} \cup Receiving /\ app'.pc \in {"idle"} \cup Receiving 
    BY <1>d, <1>i, <1>8 DEF ackLaterWrites, IdleApp, Receiving
  <2>2. app.pc # "end" /\ ~Ending /\ ~Ending' /\ app'.pc \notin {"ack", "ackClear", "end"}
    BY <2>1 DEF Ending, Receiving
  <2> QED BY <1>c, <2>1, <2>2, TxEndsElsewhere
<1>9. CASE ConsumedExpired
  <2>1. /\ UNCHANGED <<inTx, syncs, syncRegistered, txAcked>>
        /\ app.pc \in {"idle"} \cup Receiving /\ app'.pc \in {"idle"} \cup Receiving 
    BY <1>d, <1>i, <1>9 DEF ConsumedExpired, LookAgain, IdleApp, Receiving
  <2>2. app.pc # "end" /\ ~Ending /\ ~Ending' /\ app'.pc \notin {"ack", "ackClear", "end"}
    BY <2>1 DEF Ending, Receiving
  <2> QED BY <1>c, <2>1, <2>2, TxEndsElsewhere
<1>10. CASE ConsumedAuto
  BY <1>i, <1>10 DEF ConsumedAuto, Transacted
<1>11. CASE ConsumedLater
  <2>1. /\ UNCHANGED <<inTx, syncs, syncRegistered, txAcked>>
        /\ app.pc \in {"idle"} \cup Receiving /\ app'.pc \in {"idle"} \cup Receiving 
    BY <1>d, <1>i, <1>11 DEF ConsumedLater, IdleApp, Receiving
  <2>2. app.pc # "end" /\ ~Ending /\ ~Ending' /\ app'.pc \notin {"ack", "ackClear", "end"}
    BY <2>1 DEF Ending, Receiving
  <2> QED BY <1>c, <2>1, <2>2, TxEndsElsewhere
<1>12. CASE Acknowledge
  BY <1>i, <1>12 DEF Acknowledge, Transacted
<1>13. CASE AcknowledgeNothing
  <2>1. /\ UNCHANGED <<inTx, syncs, txAcked, got, delivered>> /\ syncRegistered' = FALSE
        /\ app.pc = "ack" /\ app'.pc = "end" /\ delivered = <<>>
    BY <1>d, <1>13 DEF AcknowledgeNothing, Acknowledged
  <2>2. ~Ending' /\ ~AfterCommit' /\ txAcked = {} /\ Del' = {} /\ inTx
    BY <1>h, <1>p, <1>q, <2>1 DEF Ending, AfterCommit, TxRegistered
  <2>3. TxRegistered'
    BY <1>c, <1>h, <2>1, <2>2 DEF TxRegistered
  <2>4. TxAcks'
    BY <2>1, <2>2 DEF TxAcks
  <2> QED BY <2>3, <2>4 DEF TxEnds
<1>14. CASE AcknowledgeAll
  <2> DEFINE first == Last(delivered)
             last == Head(delivered)
  <2>1. /\ UNCHANGED <<inTx, syncs, got, delivered, final>> /\ syncRegistered' = FALSE
        /\ app.pc = "ack" /\ app'.pc = "end" /\ delivered # <<>> /\ NotReplayed = {}
        /\ txAcked' = txAcked \cup Covered(first, last)
    BY <1>d, <1>14 DEF AcknowledgeAll, Acknowledged, makeAckForAllDeliveredMessages
  <2>2. /\ ~Ending' /\ ~AfterCommit' /\ txAcked = {} /\ Del' = Del /\ inTx /\ ~clearList
        /\ ~InProcess
        /\ app.pc # "before"
    BY <1>f, <1>h, <1>p, <1>q, <2>1 DEF Ending, AfterCommit, TxRegistered, TxPresent, InProcess
  <2>3. first \in Del /\ last \in Del /\ \A k \in Del : k \in first..last
    BY <1>g, <2>1, SetsEnds
  <2> HIDE DEF first, last
  <2>4. \A k \in Del : InPresent(k)
    <3>1. \A k \in DOMAIN previously : k \in sent /\ ~Waiting(k)
      BY <1>f, <2>1 DEF TxReplays, NotReplayed
    <3> SUFFICES ASSUME NEW k \in Del, k \in DOMAIN previously PROVE InPresent(k)
      BY <1>f, <2>2 DEF TxReplays
    <3>2. k \in sent /\ ~Waiting(k) /\ k \in Int
      BY <1>e, <3>1
    <3>3. disp.pc # "idle" => k <= disp.msg /\ disp.msg \in Int /\ k # disp.msg
      BY <1>e, <3>2 DEF Connected, Waiting
    <3> QED BY <3>2, <3>3 DEF InPresent
  <2>5. \A k : k \in Covered(first, last) <=> k \in first..last /\ k \in sent /\ final[k] = {}
    BY DEF Covered
  <2>6. Covered(first, last) \subseteq Del
    <3> SUFFICES ASSUME NEW k \in sent, k \in first..last, final[k] = {} PROVE k \in Del
      BY <2>5
    <3>1. k \in Int /\ first \in Int /\ last \in Int /\ first <= k /\ k <= last
      BY <1>e, <1>g, <2>3
    <3>2. ~Waiting(k)
      <4>1. disp.pc # "idle" => last < disp.msg /\ disp.msg \in Int
        BY <1>e, <2>3, <2>4 DEF InPresent, Connected
      <4> QED BY <3>1, <4>1 DEF Waiting
    <3>3. Open(k)
      BY <3>2 DEF Open
    <3>4. Held = Unc \cup Del
      BY <2>2, SetsHeld
    <3>5. k \notin Unc
      <4>1. ~(last < k)
        BY <3>1
      <4> QED BY <1>f, <2>3, <4>1 DEF TxOrder
    <3>6. ~(last < k) /\ ~(k < first)
      BY <3>1
    <3> QED BY <1>f, <2>3, <3>3, <3>4, <3>5, <3>6 DEF TxOpen
  <2>7. Del \subseteq got
    BY <1>f, <2>2 DEF TxOpen
  <2>8. \A k \in Del : final[k] = {} => k \in txAcked'
    BY <2>1, <2>3, <2>4, <2>5 DEF InPresent
  <2>9. TxRegistered'
    BY <1>c, <1>h, <2>1, <2>2 DEF TxRegistered
  <2>10. TxAcks'
    BY <2>1, <2>2, <2>6, <2>7, <2>8 DEF TxAcks
  <2> QED BY <2>9, <2>10 DEF TxEnds
<1>15. CASE AcknowledgeThrows
  <2>1. /\ UNCHANGED <<inTx, syncs, syncRegistered, txAcked, got, interruptions>>
        /\ app.pc = "ack" /\ NotReplayed # {}
        /\ app'.op = "rollback" /\ app'.pc \in {"ackClear", "end"}
    BY <1>d, <1>r, <1>15 DEF AcknowledgeThrows
  <2>2. ~Ending' /\ ~AfterCommit' /\ txAcked = {} /\ inTx
    BY <1>h, <1>q, <2>1 DEF Ending, AfterCommit, TxRegistered
  <2>3. interruptions = 1
    <3>1. interruptions # 0
      BY <2>1 DEF Kept, Line, NotReplayed
    <3> QED BY <3>1 DEF Counts
  <2>4. TxRegistered'
    BY <1>c, <1>h, <2>1, <2>2, <2>3 DEF TxRegistered
  <2>5. TxAcks'
    BY <2>1, <2>2 DEF TxAcks
  <2> QED BY <2>4, <2>5 DEF TxEnds
<1>16. ASSUME NEW m \in Messages, AcknowledgeOne(m)
      PROVE  TxEnds'
  BY <1>i, <1>16 DEF AcknowledgeOne, Transacted
<1>17. ASSUME NEW op \in {"commit", "rollback"}, EndTransaction(op)
      PROVE  TxEnds'
  <2>1. /\ UNCHANGED <<inTx, syncs, syncRegistered, txAcked, got>> /\ app.pc = "idle"
        /\ \/ "tx" \in syncs /\ inTx /\ app'.pc = "ack"
           \/ "tx" \notin syncs /\ app'.pc = "end"
    BY <1>d, <1>17 DEF EndTransaction, Call, IdleApp
  <2>2. ~Ending /\ ~Ending' /\ ~AfterCommit' /\ txAcked = {}
    BY <1>q, <2>1 DEF Ending, AfterCommit
  <2>3. FewFaults => (inTx => "tx" \in syncs) /\ (syncRegistered => inTx)
    BY <1>h, <2>2 DEF TxRegistered
  <2>4. TxRegistered'
    BY <1>c, <1>h, <2>1, <2>2, <2>3 DEF TxRegistered
  <2>5. TxAcks'
    BY <1>c, <2>1, <2>2, <2>3 DEF TxAcks
  <2> QED BY <2>4, <2>5 DEF TxEnds
<1>18. CASE EndNothing
  <2>1. /\ UNCHANGED <<inTx, syncs, syncRegistered, txAcked>> /\ app.pc = "end" /\ ~inTx
        /\ app'.pc = "idle"
    BY <1>18 DEF EndNothing, IdleApp
  <2>2. ~Ending /\ ~Ending' /\ ~AfterCommit' /\ txAcked = {}
    BY <1>h, <2>1 DEF Ending, AfterCommit, TxAcks
  <2>4. TxRegistered'
    BY <1>c, <1>h, <2>1, <2>2 DEF TxRegistered
  <2>5. TxAcks'
    BY <2>1, <2>2 DEF TxAcks
  <2> QED BY <2>4, <2>5 DEF TxEnds
<1>19. CASE CommitRequest
  <2>1. /\ UNCHANGED <<syncs, syncRegistered, got, delivered>> /\ inTx' = FALSE /\ txAcked' = {}
        /\ app.pc = "end" /\ inTx /\ app'.pc = "syncs" /\ app'.todo = syncs
        /\ app.op = "commit" /\ app'.op = "commit" /\ Settle(txAcked, "consumed")
    BY <1>d, <1>19 DEF CommitRequest
  <2>2. Ending' /\ Del' = Del
    BY <1>p, <2>1 DEF Ending
  <2>3. FewFaults => "tx" \in app'.todo
    BY <1>h, <2>1 DEF TxRegistered
  <2>4. TxRegistered'
    BY <1>c, <2>1, <2>2, <2>3 DEF TxRegistered
  <2>5. "tx" \in syncs => \A x \in Del : final'[x] # {}
    <3>1. "tx" \in syncs => \A x \in Del : final[x] = {} => x \in txAcked
      BY <1>h, <2>1 DEF TxAcks
    <3>2. \A x \in Messages : final'[x] = {} => final[x] = {} /\ x \notin txAcked
      BY <1>o, <2>1, SettleFinal
    <3> QED BY <1>g, <3>1, <3>2
  <2>6. TxAcks'
    BY <2>1, <2>2, <2>5 DEF TxAcks, AfterCommit
  <2> QED BY <2>4, <2>6 DEF TxEnds
<1>20. CASE CommitRequestFails
  <2>1. /\ UNCHANGED <<syncs, syncRegistered, got, delivered>> /\ inTx' = FALSE /\ txAcked' = {}
        /\ app.pc = "end" /\ inTx /\ app'.pc = "syncs" /\ app'.todo = syncs
        /\ app'.op = "rollback"
    BY <1>d, <1>20 DEF CommitRequestFails
  <2>2. Ending' /\ Del' = Del /\ ~AfterCommit'
    BY <1>p, <2>1 DEF Ending, AfterCommit
  <2>3. FewFaults => "tx" \in app'.todo
    BY <1>h, <2>1 DEF TxRegistered
  <2>4. TxRegistered'
    BY <1>c, <2>1, <2>2, <2>3 DEF TxRegistered
  <2>6. TxAcks'
    BY <2>1, <2>2 DEF TxAcks
  <2> QED BY <2>4, <2>6 DEF TxEnds
<1>21. CASE RollbackRequest
  <2>1. /\ UNCHANGED <<syncs, syncRegistered, got, delivered>> /\ inTx' = FALSE /\ txAcked' = {}
        /\ app.pc = "end" /\ inTx /\ app'.pc = "syncs" /\ app'.todo = syncs
        /\ app'.op = "rollback"
    BY <1>d, <1>21 DEF RollbackRequest
  <2>2. Ending' /\ Del' = Del /\ ~AfterCommit'
    BY <1>p, <2>1 DEF Ending, AfterCommit
  <2>3. FewFaults => "tx" \in app'.todo
    BY <1>h, <2>1 DEF TxRegistered
  <2>4. TxRegistered'
    BY <1>c, <2>1, <2>2, <2>3 DEF TxRegistered
  <2>6. TxAcks'
    BY <2>1, <2>2 DEF TxAcks
  <2> QED BY <2>4, <2>6 DEF TxEnds
<1>22. CASE RollbackRequestFails
  <2>1. /\ UNCHANGED <<syncs, syncRegistered, interruptions>> /\ inTx' = FALSE /\ txAcked' = {}
        /\ app.pc = "end" /\ app'.pc = "idle" /\ failures' = failures + 1
    BY <1>22 DEF RollbackRequestFails, IdleApp
  <2>2. ~Ending' /\ ~AfterCommit'
    BY <2>1 DEF Ending, AfterCommit
  <2>3. ASSUME FewFaults', syncRegistered PROVE FALSE
    <3>1. interruptions = 1
      BY <1>c, <1>h, <2>1, <2>3 DEF TxRegistered
    <3>2. interruptions' = 1 /\ failures' = failures + 1 /\ failures \in Nat
      BY <2>1, <3>1 DEF Counts
    <3>3. ~FewFaults'
      BY <3>2 DEF FewFaults
    <3> QED BY <2>3, <3>3
  <2>4. TxRegistered'
    BY <2>1, <2>2, <2>3 DEF TxRegistered
  <2>5. TxAcks'
    BY <2>1, <2>2 DEF TxAcks
  <2> QED BY <2>4, <2>5 DEF TxEnds
<1>23. ASSUME NEW sync \in {"tx", "close"}, RunSync(sync)
      PROVE  TxEnds'
  <2>1. /\ UNCHANGED <<inTx, syncs, syncRegistered, txAcked, got, final>>
        /\ app.pc = "syncs" /\ app.op \in {"commit", "rollback"} /\ app'.op = app.op
        /\ app'.todo = app.todo \ {sync} /\ sync \in app.todo
        /\ app'.pc = IF sync = "close" THEN "settle" ELSE app.op
    BY <1>d, <1>r, <1>23 DEF RunSync
  <2>2. Del' = Del
    <3>1. clearDeliveredList \/ delivered' = delivered
      BY <1>23 DEF RunSync
    <3> QED BY <1>k, <1>p, <3>1
  <2>3. Ending /\ Ending' /\ ~inTx
    BY <1>h, <2>1 DEF Ending, TxRegistered
  <2>4. AfterCommit' => AfterCommit
    BY <2>1 DEF AfterCommit
  <2>5. TxRegistered'
    BY <1>c, <1>h, <2>1, <2>3 DEF TxRegistered
  <2>6. TxAcks'
    BY <1>c, <1>h, <1>q, <2>1, <2>2, <2>4 DEF TxAcks
  <2> QED BY <2>5, <2>6 DEF TxEnds
<1>24. CASE SyncsDone
  <2>1. /\ UNCHANGED <<inTx, syncRegistered, txAcked>>
        /\ app.pc = "syncs" /\ app.todo = {} /\ app'.pc = "idle"
    BY <1>24 DEF SyncsDone, IdleApp
  <2>2. Ending /\ ~Ending' /\ ~AfterCommit' /\ txAcked = {} /\ ~inTx
    BY <1>h, <1>q, <2>1 DEF Ending, AfterCommit, TxRegistered
  <2>3. FewFaults => ~syncRegistered
    BY <1>h, <2>1, <2>2 DEF TxRegistered
  <2>4. TxRegistered'
    BY <1>c, <2>1, <2>2, <2>3 DEF TxRegistered
  <2>5. TxAcks'
    BY <2>1, <2>2 DEF TxAcks
  <2> QED BY <2>4, <2>5 DEF TxEnds
<1>25. CASE commit
  <2>1. /\ UNCHANGED <<inTx, syncs, txAcked>> /\ syncRegistered' = FALSE /\ delivered' = <<>>
        /\ app.pc = "commit" /\ app'.pc = "syncs"
    BY <1>d, <1>25 DEF commit, Goto
  <2>2. Ending /\ Ending' /\ txAcked = {} /\ ~inTx /\ Del' = {}
    BY <1>h, <1>p, <1>q, <2>1 DEF Ending, TxRegistered
  <2>4. TxRegistered'
    BY <2>1, <2>2 DEF TxRegistered
  <2>5. TxAcks'
    BY <2>1, <2>2 DEF TxAcks
  <2> QED BY <2>4, <2>5 DEF TxEnds
<1>26. CASE Recover
  BY <1>i, <1>26 DEF Recover, Transacted
<1>27. CASE rollbackNothing
  <2>1. /\ UNCHANGED <<inTx, syncs, txAcked>> /\ syncRegistered' = FALSE /\ delivered' = <<>>
        /\ app.pc = "rollback" /\ app'.pc = "syncs"
    BY <1>d, <1>27 DEF rollbackNothing, RolledBack, Goto
  <2>2. Ending /\ Ending' /\ txAcked = {} /\ ~inTx /\ Del' = {}
    BY <1>h, <1>p, <1>q, <2>1 DEF Ending, TxRegistered
  <2>4. TxRegistered'
    BY <2>1, <2>2 DEF TxRegistered
  <2>5. TxAcks'
    BY <2>1, <2>2 DEF TxAcks
  <2> QED BY <2>4, <2>5 DEF TxEnds
<1>28. CASE rollbackPoison
  <2>1. /\ UNCHANGED <<inTx, syncs, txAcked>> /\ syncRegistered' = FALSE /\ delivered' = <<>>
        /\ app.pc = "rollback" /\ app'.pc = "syncs"
    BY <1>d, <1>28 DEF rollbackPoison, RolledBack, Goto
  <2>2. Ending /\ Ending' /\ txAcked = {} /\ ~inTx /\ Del' = {}
    BY <1>h, <1>p, <1>q, <2>1 DEF Ending, TxRegistered
  <2>4. TxRegistered'
    BY <2>1, <2>2 DEF TxRegistered
  <2>5. TxAcks'
    BY <2>1, <2>2 DEF TxAcks
  <2> QED BY <2>4, <2>5 DEF TxEnds
<1>29. ASSUME NEW delayed \in BOOLEAN, rollback(delayed)
      PROVE  TxEnds'
  <2>1. /\ UNCHANGED <<inTx, syncs, txAcked>> /\ syncRegistered' = FALSE /\ delivered' = <<>>
        /\ app.pc = "rollback" /\ app'.pc = "syncs"
    BY <1>d, <1>29 DEF rollback, RolledBack, Goto
  <2>2. Ending /\ Ending' /\ txAcked = {} /\ ~inTx /\ Del' = {}
    BY <1>h, <1>p, <1>q, <2>1 DEF Ending, TxRegistered
  <2>4. TxRegistered'
    BY <2>1, <2>2 DEF TxRegistered
  <2>5. TxAcks'
    BY <2>1, <2>2 DEF TxAcks
  <2> QED BY <2>4, <2>5 DEF TxEnds
<1>30. CASE CloseDeferred
  <2>1. /\ UNCHANGED <<app, inTx, syncRegistered, txAcked, got, interruptions, delivered>>
        /\ syncs \subseteq syncs' /\ ("tx" \in syncs' => "tx" \in syncs)
    BY <1>30 DEF CloseDeferred
  <2> QED BY <1>b, <1>c, <1>g, <1>p, <2>1, TxEndsAside
<1>31. CASE Close
  <2>1. /\ UNCHANGED <<inTx, syncs, syncRegistered, txAcked>>
        /\ app.pc \in {"idle"} \cup Receiving /\ app'.pc = "settle" /\ app'.op = "close"
    BY <1>d, <1>i, <1>31 DEF Close, Call, IdleApp, Receiving
  <2>2. app.pc # "end" /\ ~Ending /\ ~Ending' /\ app'.pc \notin {"ack", "ackClear", "end"}
    BY <2>1 DEF Ending, Receiving
  <2> QED BY <1>c, <2>1, <2>2, TxEndsElsewhere
<1>32. CASE dispose
  <2>1. /\ UNCHANGED <<inTx, syncs, syncRegistered, txAcked, got, final, delivered>>
        /\ app.pc = "settle"
        /\ \/ app.op = "close" /\ app'.pc = "idle"
           \/ app.op # "close" /\ app'.pc = "syncs" /\ app'.op = app.op /\ app'.todo = app.todo
    BY <1>d, <1>32 DEF dispose, ExecutorTerminated, IdleApp
  <2>2. CASE app.op = "close"
    <3>1. ~Ending /\ ~Ending'
      BY <2>1, <2>2 DEF Ending
    <3> QED BY <1>c, <2>1, <2>2, <3>1, TxEndsElsewhere
  <2>3. CASE app.op # "close"
    <3>1. Ending /\ Ending' /\ ~inTx /\ Del' = Del
      BY <1>h, <1>p, <2>1, <2>3 DEF Ending, TxRegistered
    <3>2. AfterCommit' => AfterCommit
      BY <2>1, <2>3 DEF AfterCommit
    <3>3. TxRegistered'
      BY <1>c, <1>h, <2>1, <2>3, <3>1 DEF TxRegistered
    <3>4. TxAcks'
      BY <1>c, <1>h, <1>q, <2>1, <2>3, <3>1, <3>2 DEF TxAcks
    <3> QED BY <3>3, <3>4 DEF TxEnds
  <2> QED BY <2>2, <2>3
<1>33. ASSUME NEW m \in Messages, NEW count \in BrokerCounts, OnDispatch(m, count)
      PROVE  TxEnds'
  <2>1. /\ UNCHANGED <<app, inTx, syncRegistered, txAcked, got, interruptions, delivered>>
        /\ syncs \subseteq syncs' /\ ("tx" \in syncs' => "tx" \in syncs)
    BY <1>33 DEF OnDispatch
  <2> QED BY <1>b, <1>c, <1>g, <1>p, <2>1, TxEndsAside
<1>34. CASE DispatchClearsProgress
  <2>1. /\ UNCHANGED <<app, inTx, syncRegistered, txAcked, got, interruptions, delivered>>
        /\ syncs \subseteq syncs' /\ ("tx" \in syncs' => "tx" \in syncs)
    BY <1>34 DEF DispatchClearsProgress
  <2> QED BY <1>b, <1>c, <1>g, <1>p, <2>1, TxEndsAside
<1>35. CASE DispatchClearsList
  <2>1. /\ UNCHANGED <<app, inTx, syncs, syncRegistered, txAcked, got, interruptions>>
        /\ clearDeliveredList
    BY <1>35 DEF DispatchClearsList
  <2> QED BY <1>b, <1>c, <1>g, <1>k, <2>1, TxEndsAside
<1>36. CASE DispatchClosed
  <2>1. /\ UNCHANGED <<app, inTx, syncRegistered, txAcked, got, interruptions, delivered>>
        /\ syncs \subseteq syncs' /\ ("tx" \in syncs' => "tx" \in syncs)
    BY <1>36 DEF DispatchClosed
  <2> QED BY <1>b, <1>c, <1>g, <1>p, <2>1, TxEndsAside
<1>37. CASE DispatchFresh
  <2>1. /\ UNCHANGED <<app, inTx, syncRegistered, txAcked, got, interruptions, delivered>>
        /\ syncs \subseteq syncs' /\ ("tx" \in syncs' => "tx" \in syncs)
    BY <1>37 DEF DispatchFresh
  <2> QED BY <1>b, <1>c, <1>g, <1>p, <2>1, TxEndsAside
<1>38. CASE DispatchReplay
  <2>1. /\ UNCHANGED <<app, inTx, syncRegistered, txAcked, got, interruptions, delivered>>
        /\ syncs \subseteq syncs' /\ ("tx" \in syncs' => "tx" \in syncs)
    BY <1>38 DEF DispatchReplay
  <2> QED BY <1>b, <1>c, <1>g, <1>p, <2>1, TxEndsAside
<1>39. CASE DispatchDuplicate
  <2>1. /\ UNCHANGED <<app, inTx, syncRegistered, txAcked, got, interruptions, delivered>>
        /\ syncs \subseteq syncs' /\ ("tx" \in syncs' => "tx" \in syncs)
    BY <1>39 DEF DispatchDuplicate
  <2> QED BY <1>b, <1>c, <1>g, <1>p, <2>1, TxEndsAside
<1>40. CASE transportInterrupted
  <2>1. /\ UNCHANGED <<app, inTx, syncs, syncRegistered, txAcked, got, delivered>>
        /\ app.pc \in {"idle", "wait"}
    BY <1>40 DEF transportInterrupted
  <2> QED BY <1>b, <1>c, <1>g, <1>p, <2>1, TxEndsAside
<1>41. CASE StartConsumer
  <2>1. /\ UNCHANGED <<app, inTx, syncRegistered, txAcked, got, interruptions, delivered>>
        /\ syncs \subseteq syncs' /\ ("tx" \in syncs' => "tx" \in syncs)
    BY <1>41 DEF StartConsumer
  <2> QED BY <1>b, <1>c, <1>g, <1>p, <2>1, TxEndsAside
<1>42. CASE ClearConsumer
  <2>1. /\ UNCHANGED <<app, inTx, syncRegistered, txAcked, got, interruptions, delivered>>
        /\ syncs \subseteq syncs' /\ ("tx" \in syncs' => "tx" \in syncs)
    BY <1>42 DEF ClearConsumer
  <2> QED BY <1>b, <1>c, <1>g, <1>p, <2>1, TxEndsAside
<1>43. CASE AckTaskRuns
  BY <1>f, <1>43 DEF AckTaskRuns, TxPresent
<1> QED
  BY <1>1, <1>2, <1>3, <1>4, <1>5, <1>6, <1>7, <1>8, <1>9, <1>10, <1>11, <1>12, <1>13, <1>14,
     <1>15, <1>16, <1>17, <1>18, <1>19, <1>20, <1>21, <1>22, <1>23, <1>24, <1>25, <1>26, <1>27,
     <1>28, <1>29, <1>30, <1>31, <1>32, <1>33, <1>34, <1>35, <1>36, <1>37, <1>38, <1>39, <1>40,
     <1>41, <1>42, <1>43
  DEF Next, Application, Transport, Tasks

-----------------------------------------------------------------------------
(* A thread that acknowledges has cleared the list before, and runs on a *)
(* consumer that is closed only in a transaction.                         *)
AckReady == /\ app.pc = "ack" /\ ~mixed => ~clearList
            /\ app.pc = "ack" /\ closed => Transacted

(* Every step keeps it. *)
LEMMA AckReadyNext ==
    ASSUME Shape, AckReady, Next
    PROVE  AckReady'
<1> USE DEF channelVars, ackVars, txVars, taskVars, brokerVars,
        appVars, boundVars, auditVars
<1>a. clearDeliveredList => ~clearList'
  BY DEF clearDeliveredList
<1>b. app = [pc |-> app.pc, op |-> app.op, msg |-> app.msg, expired |-> app.expired,
             old |-> app.old, todo |-> app.todo]
  BY DEF Shape, AppShape
<1>1. CASE Receive
  BY <1>a, <1>b, <1>1 DEF Receive, Call, IdleApp, AckReady, Shape, Receiving, Transacted
<1>2. CASE ClearList
  BY <1>a, <1>b, <1>2 DEF ClearList, Goto, AckReady, Shape, Receiving, Transacted
<1>3. CASE ReceiveNothing
  BY <1>a, <1>b, <1>3 DEF ReceiveNothing, IdleApp, AckReady, Shape, Receiving, Transacted
<1>4. ASSUME NEW expired \in BOOLEAN, Dequeue(expired)
      PROVE  AckReady'
  BY <1>a, <1>b, <1>4 DEF Dequeue, AckReady, Shape, Receiving, Transacted
<1>5. CASE DequeueExceeded
  BY <1>a, <1>b, <1>5 DEF DequeueExceeded, LookAgain, IdleApp, AckReady, Shape, Receiving,
     Transacted
<1>6. CASE beforeMessageIsConsumed
  BY <1>a, <1>b, <1>6 DEF beforeMessageIsConsumed, Goto, AckReady, Shape, Receiving, Transacted
<1>7. CASE ackLater
  BY <1>a, <1>b, <1>7 DEF ackLater, AckReady, Shape, Receiving, Transacted
<1>8. CASE ackLaterWrites
  BY <1>a, <1>b, <1>8 DEF ackLaterWrites, IdleApp, AckReady, Shape, Receiving, Transacted
<1>9. CASE ConsumedExpired
  BY <1>a, <1>b, <1>9 DEF ConsumedExpired, LookAgain, IdleApp, AckReady, Shape, Receiving,
     Transacted
<1>10. CASE ConsumedAuto
  BY <1>a, <1>b, <1>10 DEF ConsumedAuto, IdleApp, AckReady, Shape, Receiving, Transacted
<1>11. CASE ConsumedLater
  BY <1>a, <1>b, <1>11 DEF ConsumedLater, IdleApp, AckReady, Shape, Receiving, Transacted
<1>12. CASE Acknowledge
  BY <1>a, <1>b, <1>12 DEF Acknowledge, Call, IdleApp, AckReady, Shape, Receiving, Transacted
<1>13. CASE AcknowledgeNothing
  BY <1>a, <1>b, <1>13 DEF AcknowledgeNothing, Acknowledged, IdleApp, AckReady, Shape, Receiving,
     Transacted
<1>14. CASE AcknowledgeAll
  BY <1>a, <1>b, <1>14 DEF AcknowledgeAll, Acknowledged, IdleApp, AckReady, Shape, Receiving,
     Transacted
<1>15. CASE AcknowledgeThrows
  BY <1>a, <1>b, <1>15 DEF AcknowledgeThrows, AckReady, Shape, Receiving, Transacted
<1>16. ASSUME NEW m \in Messages, AcknowledgeOne(m)
      PROVE  AckReady'
  BY <1>a, <1>b, <1>16 DEF AcknowledgeOne, AckReady, Shape, Receiving, Transacted
<1>17. ASSUME NEW op \in {"commit", "rollback"}, EndTransaction(op)
      PROVE  AckReady'
  BY <1>a, <1>b, <1>17 DEF EndTransaction, Call, IdleApp, Transacted, AckReady, Shape, Receiving,
     Transacted
<1>18. CASE EndNothing
  BY <1>a, <1>b, <1>18 DEF EndNothing, IdleApp, AckReady, Shape, Receiving, Transacted
<1>19. CASE CommitRequest
  BY <1>a, <1>b, <1>19 DEF CommitRequest, AckReady, Shape, Receiving, Transacted
<1>20. CASE CommitRequestFails
  BY <1>a, <1>b, <1>20 DEF CommitRequestFails, AckReady, Shape, Receiving, Transacted
<1>21. CASE RollbackRequest
  BY <1>a, <1>b, <1>21 DEF RollbackRequest, AckReady, Shape, Receiving, Transacted
<1>22. CASE RollbackRequestFails
  BY <1>a, <1>b, <1>22 DEF RollbackRequestFails, IdleApp, AckReady, Shape, Receiving, Transacted
<1>23. ASSUME NEW sync \in {"tx", "close"}, RunSync(sync)
      PROVE  AckReady'
  BY <1>a, <1>b, <1>23 DEF RunSync, AckReady, Shape, Receiving, Transacted
<1>24. CASE SyncsDone
  BY <1>a, <1>b, <1>24 DEF SyncsDone, IdleApp, AckReady, Shape, Receiving, Transacted
<1>25. CASE commit
  BY <1>a, <1>b, <1>25 DEF commit, Goto, AckReady, Shape, Receiving, Transacted
<1>26. CASE Recover
  BY <1>a, <1>b, <1>26 DEF Recover, Call, IdleApp, AckReady, Shape, Receiving, Transacted
<1>27. CASE rollbackNothing
  BY <1>a, <1>b, <1>27 DEF rollbackNothing, RolledBack, Goto, IdleApp, AckReady, Shape, Receiving,
     Transacted
<1>28. CASE rollbackPoison
  BY <1>a, <1>b, <1>28 DEF rollbackPoison, RolledBack, Goto, IdleApp, AckReady, Shape, Receiving,
     Transacted
<1>29. ASSUME NEW delayed \in BOOLEAN, rollback(delayed)
      PROVE  AckReady'
  BY <1>a, <1>b, <1>29 DEF rollback, RolledBack, Goto, IdleApp, AckReady, Shape, Receiving,
     Transacted
<1>30. CASE CloseDeferred
  BY <1>a, <1>b, <1>30 DEF CloseDeferred, AckReady, Shape, Receiving, Transacted
<1>31. CASE Close
  BY <1>a, <1>b, <1>31 DEF Close, Call, IdleApp, AckReady, Shape, Receiving, Transacted
<1>32. CASE dispose
  BY <1>a, <1>b, <1>32 DEF dispose, ExecutorTerminated, IdleApp, AckReady, Shape, Receiving, Transacted
<1>33. ASSUME NEW m \in Messages, NEW count \in BrokerCounts, OnDispatch(m, count)
      PROVE  AckReady'
  BY <1>a, <1>b, <1>33 DEF OnDispatch, AckReady, Shape, Receiving, Transacted
<1>34. CASE DispatchClearsProgress
  BY <1>a, <1>b, <1>34 DEF DispatchClearsProgress, AckReady, Shape, Receiving, Transacted
<1>35. CASE DispatchClearsList
  BY <1>a, <1>b, <1>35 DEF DispatchClearsList, AckReady, Shape, Receiving, Transacted
<1>36. CASE DispatchClosed
  BY <1>a, <1>b, <1>36 DEF DispatchClosed, AckReady, Shape, Receiving, Transacted
<1>37. CASE DispatchFresh
  BY <1>a, <1>b, <1>37 DEF DispatchFresh, AckReady, Shape, Receiving, Transacted
<1>38. CASE DispatchReplay
  BY <1>a, <1>b, <1>38 DEF DispatchReplay, AckReady, Shape, Receiving, Transacted
<1>39. CASE DispatchDuplicate
  BY <1>a, <1>b, <1>39 DEF DispatchDuplicate, AckReady, Shape, Receiving, Transacted
<1>40. CASE transportInterrupted
  BY <1>a, <1>b, <1>40 DEF transportInterrupted, AckReady, Shape, Receiving, Transacted
<1>41. CASE StartConsumer
  BY <1>a, <1>b, <1>41 DEF StartConsumer, AckReady, Shape, Receiving, Transacted
<1>42. CASE ClearConsumer
  BY <1>a, <1>b, <1>42 DEF ClearConsumer, AckReady, Shape, Receiving, Transacted
<1>43. CASE AckTaskRuns
  BY <1>a, <1>b, <1>43 DEF AckTaskRuns, AckReady, Shape, Receiving, Transacted
<1> QED
  BY <1>1, <1>2, <1>3, <1>4, <1>5, <1>6, <1>7, <1>8, <1>9, <1>10, <1>11, <1>12, <1>13, <1>14,
     <1>15, <1>16, <1>17, <1>18, <1>19, <1>20, <1>21, <1>22, <1>23, <1>24, <1>25, <1>26, <1>27,
     <1>28, <1>29, <1>30, <1>31, <1>32, <1>33, <1>34, <1>35, <1>36, <1>37, <1>38, <1>39, <1>40,
     <1>41, <1>42, <1>43
  DEF Next, Application, Transport, Tasks

-----------------------------------------------------------------------------
(* All of it together. *)
AllInv == IInv /\ SettleInv /\ ConnInv /\ AckReady /\ RetainedInv /\ BatchRangeInv /\ TxInv

(* The consumer is created with empty lists and without acks. *)
LEMMA AllInit == Init => AllInv
<1> SUFFICES ASSUME Init PROVE AllInv
  OBVIOUS
<1>1. IInv /\ SettleInv /\ ConnInv
  BY InvInit, SettleInit, ConnInit
<1>2. /\ app = IdleApp /\ app.pc = "idle" /\ disp.pc = "idle" /\ mode \in Modes
      /\ running = TRUE /\ closed = FALSE /\ clearList = FALSE
      /\ unconsumed = <<>> /\ delivered = <<>> /\ previously = <<>>
      /\ pendingAck = NoAck /\ ackTask = NoAck
      /\ sent = {} /\ arrived = {} /\ handed = {} /\ got = {} /\ txAcked = {}
      /\ inTx = FALSE /\ syncRegistered = FALSE
  BY DEF Init, IdleApp, IdleDisp
<1>3. Del = {} /\ Unc = {} /\ InHand = {} /\ Held = {}
  BY <1>2, SetsSame, SetsHeld
<1>4. AckReady
  BY <1>2 DEF AckReady
<1>5. RetainedInv
  BY <1>2, <1>3 DEF RetainedInv, Retained, NoAck
<1>6. BatchRangeInv
  BY <1>2, <1>3 DEF BatchRangeInv, BatchRange, BatchAudit, BatchAcks, AckBefore, BatchHeld,
     InProcess
<1>7. TxInv
  <2>1. TxOrder
    BY <1>2, <1>3 DEF TxOrder, Falling, Rising
  <2>2. TxPresent
    BY <1>2, <1>3 DEF TxPresent, InProcess
  <2>3. TxReplays
    BY <1>2, <1>3 DEF TxReplays
  <2>4. TxOpen
    BY <1>2, <1>3 DEF TxOpen
  <2>5. TxRegistered
    BY <1>2 DEF TxRegistered, Ending
  <2>6. TxAcks
    BY <1>2, <1>3 DEF TxAcks, AfterCommit
  <2> QED BY <2>1, <2>2, <2>3, <2>4, <2>5, <2>6 DEF TxInv, TxLists, TxEnds
<1> QED BY <1>1, <1>4, <1>5, <1>6, <1>7 DEF AllInv

(* A step that changes nothing keeps the new parts. *)
LEMMA AllStill ==
    AllInv /\ UNCHANGED vars =>
        ConnInv' /\ AckReady' /\ RetainedInv' /\ BatchRangeInv' /\ TxInv'
<1> SUFFICES ASSUME AllInv, UNCHANGED vars
             PROVE  ConnInv' /\ AckReady' /\ RetainedInv' /\ BatchRangeInv' /\ TxInv'
  OBVIOUS
<1> USE DEF channelVars, ackVars, txVars, taskVars, brokerVars, appVars, boundVars, auditVars
<1>1. /\ UNCHANGED <<mode, unconsumed, running, closed, delivered, pendingAck, previously,
                     clearList>>
      /\ UNCHANGED <<clearRequired, audit, inTx, syncs, syncRegistered, app, disp, ackTask,
                     handed>>
      /\ UNCHANGED <<got, arrived, sent, final, txAcked, interruptions, failures, mixed, doubled>>
  BY DEF vars
<1>2. Del' = Del /\ Unc' = Unc /\ InHand' = InHand /\ Held' = Held
  BY <1>1 DEF Del, Unc, InHand, Held
<1>3. ConnInv' /\ AckReady'
  BY <1>1 DEF AllInv, ConnInv, Connected, Waiting, AckReady, Transacted
<1>4. RetainedInv'
  BY <1>1, <1>2 DEF AllInv, RetainedInv, Retained, Open, Waiting, Transacted
<1>5. BatchRangeInv'
  BY <1>1, <1>2 DEF AllInv, BatchRangeInv, BatchRange, BatchAudit, BatchAcks, BatchHeld, AckBefore,
                    Live, InProcess, InPresent, InRangeOf, Open, Waiting
<1>6. TxInv'
  <2>1. TxLists => TxLists'
    BY <1>1, <1>2 DEF TxLists, TxOrder, TxPresent, TxReplays, TxOpen, InProcess, InPresent, Open,
                      Waiting
  <2>2. TxEnds => TxEnds'
    BY <1>1, <1>2 DEF TxEnds, TxRegistered, TxAcks, Ending, AfterCommit, FewFaults
  <2> QED BY <1>1, <2>1, <2>2 DEF AllInv, TxInv, Transacted
<1> QED BY <1>3, <1>4, <1>5, <1>6

(* All of it together is inductive. *)
LEMMA AllNext == AllInv /\ [Next]_vars => AllInv'
<1> SUFFICES ASSUME AllInv, [Next]_vars PROVE AllInv'
  OBVIOUS
<1>1. IInv' /\ SettleInv'
  BY InvNext, SettleNext DEF AllInv
<1>2. CASE UNCHANGED vars
  BY <1>1, <1>2, AllStill DEF AllInv
<1>3. CASE Next
  <2>1. /\ Shape /\ Counts /\ FirstConnection /\ ConnInv /\ AckReady
        /\ final \in [Messages -> SUBSET Whys]
        /\ mode = "auto" /\ ~mixed => AutoSettles
        /\ Ordered => Kept
    BY DEF AllInv, IInv, SettleInv, OrderInv, Kept
  <2>2. Onward
    BY <2>1, CountsNext
  <2>3. /\ mode' = mode /\ (~mixed' => ~mixed)
        /\ (interruptions' <= 1 => interruptions <= 1)
    BY <2>1, <2>2 DEF Onward, Counts
  <2>4. ConnInv' /\ AckReady'
    BY <1>3, <2>1, ConnNext, AckReadyNext
  <2>5. ~mixed => Connected
    BY <2>1 DEF ConnInv
  <2>6. RetainedInv'
    <3> SUFFICES ASSUME ~Transacted', mode' # "batch", ~mixed' PROVE Retained'
      BY DEF RetainedInv
    <3>1. ~Transacted /\ mode # "batch" /\ ~mixed
      BY <2>3 DEF Transacted
    <3>2. Retained /\ Kept /\ Connected /\ (mode = "auto" => AutoSettles)
      BY <2>1, <2>5, <3>1 DEF AllInv, RetainedInv, Ordered
    <3> QED BY <1>3, <2>1, <3>1, <3>2, RetainedNext
  <2>7. BatchRangeInv'
    <3> SUFFICES ASSUME mode' = "batch", interruptions' <= 1, ~mixed' PROVE BatchRange'
      BY DEF BatchRangeInv
    <3>1. mode = "batch" /\ interruptions <= 1 /\ ~mixed
      BY <2>3
    <3>2. BatchRange /\ Kept /\ Connected
      BY <2>1, <2>5, <3>1 DEF AllInv, BatchRangeInv, Ordered, Transacted
    <3> QED BY <1>3, <2>1, <3>1, <3>2, BatchRangeNext
  <2>8. TxInv'
    <3> SUFFICES ASSUME Transacted', interruptions' <= 1, ~mixed' PROVE TxLists' /\ TxEnds'
      BY DEF TxInv
    <3>1. Transacted /\ interruptions <= 1 /\ ~mixed
      BY <2>3 DEF Transacted
    <3>2. TxLists /\ TxEnds /\ Connected /\ (interruptions = 0 => Kept)
      BY <2>1, <2>5, <3>1 DEF AllInv, TxInv, Ordered
    <3> QED BY <1>3, <2>1, <3>1, <3>2, TxListsNext, TxEndsNext
  <2> QED BY <1>1, <2>4, <2>6, <2>7, <2>8 DEF AllInv
<1> QED BY <1>2, <1>3

(* What it says of the messages that are open. *)
LEMMA AllNothingForgotten == AllInv => NothingForgotten
<1> SUFFICES ASSUME AllInv, NEW m \in sent, final[m] = {}, ~closed, ~mixed, ~doubled,
                    interruptions <= 1 \/ mode \notin {"batch", "transacted"}
             PROVE  \/ disp.pc # "idle" /\ disp.msg = m
                    \/ m \in Held \cup txAcked
                    \/ mode = "batch" /\ (\/ app.pc \in {"after", "later", "write"}
                                          \/ m \in pendingAck.first..pendingAck.last)
                    \/ ackTask # NoAck /\ m \in ackTask.first..ackTask.last
  BY DEF NothingForgotten
<1> SUFFICES ASSUME ~Waiting(m)
             PROVE  \/ m \in Held
                    \/ mode = "batch" /\ (\/ app.pc \in {"after", "later", "write"}
                                          \/ m \in pendingAck.first..pendingAck.last)
                    \/ ackTask # NoAck /\ m \in ackTask.first..ackTask.last
  BY DEF Waiting
<1>1. Open(m)
  BY DEF Open
<1>2. CASE Transacted
  <2>1. TxOpen
    BY <1>2 DEF AllInv, TxInv, TxLists, Transacted
  <2> QED BY <1>1, <2>1 DEF TxOpen
<1>3. CASE mode = "batch"
  <2>1. BatchHeld
    BY <1>3 DEF AllInv, BatchRangeInv, BatchRange
  <2>2. Held = Unc \cup InHand \cup Del
    BY SetsHeld
  <2> QED BY <1>1, <1>3, <2>1, <2>2 DEF BatchHeld, InRangeOf, InProcess
<1>4. CASE ~Transacted /\ mode # "batch"
  BY <1>1, <1>4 DEF AllInv, RetainedInv, Retained
<1> QED BY <1>2, <1>3, <1>4

(* What it says of the acks in a transaction when its commit is sent. *)
LEMMA AllCommitCovers == AllInv => CommitCoversReceived
<1> SUFFICES ASSUME AllInv, app.pc = "end", app.op = "commit", inTx, ~mixed, FewFaults
             PROVE  {m \in got : final[m] = {}} \subseteq txAcked /\ txAcked \subseteq got
  BY DEF CommitCoversReceived
<1>1. Transacted /\ interruptions <= 1
  BY DEF AllInv, IInv, Shape, Counts, FewFaults
<1>2. TxOpen /\ TxAcks /\ "tx" \in syncs
  BY <1>1 DEF AllInv, TxInv, TxLists, TxEnds, TxRegistered
<1>3. ASSUME NEW m \in got, final[m] = {} PROVE m \in txAcked
  BY <1>2, <1>3 DEF TxOpen, TxAcks
<1> QED BY <1>2, <1>3 DEF TxAcks

-----------------------------------------------------------------------------
(* What an ack of all that is delivered ends had been had. *)
LEMMA DeliveredWereReceived ==
    ASSUME AllInv, ~mixed, ~Transacted, mode # "batch", ~closed, ~clearList, delivered # <<>>,
           ~(app.pc = "after" /\ app.expired),
           NEW m \in sent, final[m] = {}, m \in Last(delivered)..Head(delivered)
    PROVE  m \in got
<1>1. Retained /\ Kept /\ Counts
  BY DEF AllInv, RetainedInv, IInv, OrderInv, Ordered, Kept
<1>2. Lists /\ Messages \subseteq Int /\ sent \subseteq Messages
  BY <1>1, MessagesInt DEF Kept, Line, Lists, Counts
<1>3. /\ Head(delivered) \in Del /\ Last(delivered) \in Del
      /\ Del \subseteq Messages /\ Unc \subseteq Messages
  BY <1>2, SetsEnds, SetsIn
<1>4. \A d \in Del : InPresent(d)
  BY <1>1, <1>2, ToSetSeq DEF Kept, Present, Lists, Del
<1>5. m \in Int /\ Head(delivered) \in Int /\ Last(delivered) \in Int
      /\ Last(delivered) <= m /\ m <= Head(delivered)
  <2>1. m \in Int /\ Head(delivered) \in Int /\ Last(delivered) \in Int
    BY <1>2, <1>3
  <2> QED BY <2>1
<1>6. ~Waiting(m)
  <2>1. disp.pc # "idle" => disp.msg \in Int /\ Head(delivered) < disp.msg
    BY <1>1, <1>2, <1>3, <1>4 DEF InPresent, Kept, Present
  <2> QED BY <1>5, <2>1 DEF Waiting
<1>7. Held = Unc \cup InHand \cup Del /\ InHand = (IF app.pc = "before" THEN {app.msg} ELSE {})
  BY SetsHeld
<1>8. m \in Held
  <2>1. Last(delivered) \in Held /\ ~(m < Last(delivered))
    BY <1>3, <1>5, <1>7
  <2> QED BY <1>1, <1>6, <2>1 DEF Retained, Open
<1>9. m \notin Unc
  <2>1. \A u \in Unc : Head(delivered) < u
    BY <1>1, <1>2, <1>3, ToSetSeq, SMTT(60) DEF Kept, Line, Lists, Del, Unc
  <2> QED BY <1>5, <2>1
<1>10. m \notin InHand
  <2>1. app.pc = "before" => Head(delivered) < app.msg
    BY <1>1, <1>2, <1>3, ToSetSeq DEF Kept, Line, Lists, Del
  <2> QED BY <1>5, <1>7, <2>1
<1>11. m \in Del
  BY <1>7, <1>8, <1>9, <1>10
<1> QED BY <1>1, <1>11 DEF Retained

(* Every step that ends messages as consumed ends only messages that were had. *)
LEMMA ConsumedNext ==
    ASSUME AllInv, Next, ~mixed, interruptions <= 1 \/ mode \notin {"batch", "transacted"},
           NEW m \in Messages, "consumed" \in final'[m] \ final[m]
    PROVE  m \in got \/ (mode = "batch" /\ m \in handed)
<1> USE DEF channelVars, ackVars, txVars, taskVars, brokerVars,
        appVars, boundVars, auditVars
<1>a. final \in [Messages -> SUBSET Whys] /\ Whys = {"consumed", "poison", "expired", "duplicate"}
  BY DEF AllInv, SettleInv, Whys
<1>b. final' # final
  OBVIOUS
<1>c. /\ sent \subseteq arrived /\ sent \subseteq Messages /\ Messages \subseteq Int
      /\ arrived \subseteq Messages
  BY MessagesInt DEF AllInv, ConnInv, IInv, Counts
<1>d. \A ms, why : why \in Whys /\ Settle(ms, why) => why = "consumed" /\ m \in ms
  BY <1>a, SettleFinal
<1>e. \A ack : SendAck(ack) => /\ ack.type = "consumed" /\ m \in sent /\ final[m] = {}
                              /\ m \in ack.first..ack.last
  BY <1>a, <1>c, SendAckFinal
<1>f. mode = "batch" => BatchRange
  BY DEF AllInv, BatchRangeInv
<1>g. Transacted => TxLists /\ TxEnds
  BY DEF AllInv, TxInv, Transacted
<1>h. ~Transacted /\ mode # "batch" => Retained
  BY DEF AllInv, RetainedInv
<1>i. Shape /\ AckReady
  BY DEF AllInv, IInv
<1>1. CASE Receive
  BY <1>b, <1>1 DEF Receive
<1>2. CASE ClearList
  BY <1>b, <1>2 DEF ClearList
<1>3. CASE ReceiveNothing
  BY <1>b, <1>3 DEF ReceiveNothing
<1>4. ASSUME NEW expired \in BOOLEAN, Dequeue(expired)
      PROVE  m \in got \/ (mode = "batch" /\ m \in handed)
  BY <1>b, <1>4 DEF Dequeue
<1>5. CASE DequeueExceeded
  BY <1>a, <1>d, <1>5 DEF DequeueExceeded, SettleOne
<1>6. CASE beforeMessageIsConsumed
  BY <1>b, <1>6 DEF beforeMessageIsConsumed
<1>7. CASE ackLater
  BY <1>b, <1>7 DEF ackLater
<1>8. CASE ackLaterWrites
  <2> DEFINE type == IF mode = "batch" THEN "consumed" ELSE "delivered"
             first == IF app.old = NoAck THEN app.msg ELSE app.old.first
             ack == [type |-> type, first |-> first, last |-> app.msg,
                     count |-> deliveredCounter]
  <2>1. app.pc = "write" /\ SendAck(ack)
    BY <1>b, <1>8 DEF ackLaterWrites
  <2>2. /\ ack.type = type /\ ack.last = app.msg /\ ack.first = first
    OBVIOUS
  <2>3. mode = "batch" /\ m \in sent /\ final[m] = {} /\ m \in first..app.msg
    <3> HIDE DEF ack, first
    <3> QED BY <1>e, <2>1, <2>2
  <2> HIDE DEF ack, first, type
  <2>4. /\ InPresent(app.msg) /\ (\A u \in Unc : app.msg < u) /\ app.msg \in handed
        /\ ~closed /\ ackTask = NoAck
        /\ pendingAck # NoAck => pendingAck.last < app.msg
    BY <1>f, <1>i, <2>1, <2>3 DEF BatchRange, BatchAcks, InProcess, Shape, Receiving
  <2>5. app.msg \in Int /\ m \in Int /\ m <= app.msg
    BY <1>c, <2>3, <2>4 DEF InPresent
  <2>6. Open(m)
    BY <2>3, <2>4, <2>5 DEF Open, Waiting, InPresent
  <2>7. m \notin Unc \cup InHand
    BY <2>1, <2>4, <2>5 DEF InHand
  <2> QED BY <1>f, <2>3, <2>4, <2>6, <2>7 DEF BatchRange, BatchHeld
<1>9. CASE ConsumedExpired
  BY <1>a, <1>d, <1>9 DEF ConsumedExpired, SettleOne
<1>10. CASE ConsumedAuto
  <2>1. /\ mode = "auto" /\ app.pc = "after" /\ ~app.expired /\ delivered # <<>>
        /\ SendAck(makeAckForAllDeliveredMessages)
    BY <1>b, <1>10 DEF ConsumedAuto
  <2>2. m \in sent /\ final[m] = {} /\ m \in Last(delivered)..Head(delivered)
    <3> DEFINE ack == makeAckForAllDeliveredMessages
    <3>1. ack.first = Last(delivered) /\ ack.last = Head(delivered)
      BY DEF makeAckForAllDeliveredMessages
    <3> HIDE DEF ack
    <3>2. SendAck(ack)
      BY <2>1 DEF ack
    <3> QED BY <1>e, <3>1, <3>2
  <2>3. ~clearList /\ ~closed /\ ~Transacted
    BY <1>i, <2>1 DEF AllInv, SettleInv, AutoSettles, Shape, Receiving, Transacted
  <2> QED BY <2>1, <2>2, <2>3, DeliveredWereReceived
<1>11. CASE ConsumedLater
  BY <1>b, <1>11 DEF ConsumedLater
<1>12. CASE Acknowledge
  BY <1>b, <1>12 DEF Acknowledge
<1>13. CASE AcknowledgeNothing
  BY <1>b, <1>13 DEF AcknowledgeNothing
<1>14. CASE AcknowledgeAll
  <2>1. /\ ~Transacted /\ app.pc = "ack" /\ delivered # <<>>
        /\ SendAck(makeAckForAllDeliveredMessages)
    BY <1>b, <1>14 DEF AcknowledgeAll
  <2>2. m \in sent /\ final[m] = {} /\ m \in Last(delivered)..Head(delivered)
    <3> DEFINE ack == makeAckForAllDeliveredMessages
    <3>1. ack.first = Last(delivered) /\ ack.last = Head(delivered)
      BY DEF makeAckForAllDeliveredMessages
    <3> HIDE DEF ack
    <3>2. SendAck(ack)
      BY <2>1 DEF ack
    <3> QED BY <1>e, <3>1, <3>2
  <2>3. ~clearList /\ ~closed
    BY <1>i, <2>1 DEF AckReady
  <2>4. mode # "batch"
    BY <1>f, <2>1 DEF BatchRange, BatchAudit
  <2> QED BY <2>1, <2>2, <2>3, <2>4, DeliveredWereReceived
<1>15. CASE AcknowledgeThrows
  BY <1>b, <1>15 DEF AcknowledgeThrows
<1>16. ASSUME NEW k \in Messages, AcknowledgeOne(k)
      PROVE  m \in got \/ (mode = "batch" /\ m \in handed)
  <2>1. Settle(Covered(k, k), "consumed") /\ k \in got /\ k \in Int
    BY <1>c, <1>16 DEF AcknowledgeOne, SettleOne
  <2>2. m \in Covered(k, k)
    BY <1>a, <1>d, <2>1
  <2> QED BY <2>1, <2>2 DEF Covered
<1>17. ASSUME NEW op \in {"commit", "rollback"}, EndTransaction(op)
      PROVE  m \in got \/ (mode = "batch" /\ m \in handed)
  BY <1>b, <1>17 DEF EndTransaction
<1>18. CASE EndNothing
  BY <1>b, <1>18 DEF EndNothing
<1>19. CASE CommitRequest
  <2>1. m \in txAcked /\ Transacted
    BY <1>a, <1>d, <1>i, <1>19 DEF CommitRequest, Shape
  <2> QED BY <1>g, <2>1 DEF TxEnds, TxAcks
<1>20. CASE CommitRequestFails
  <2>1. m \in txAcked /\ Transacted
    BY <1>a, <1>b, <1>d, <1>i, <1>20 DEF CommitRequestFails, Shape
  <2> QED BY <1>g, <2>1 DEF TxEnds, TxAcks
<1>21. CASE RollbackRequest
  BY <1>b, <1>21 DEF RollbackRequest
<1>22. CASE RollbackRequestFails
  BY <1>b, <1>22 DEF RollbackRequestFails
<1>23. ASSUME NEW sync \in {"tx", "close"}, RunSync(sync)
      PROVE  m \in got \/ (mode = "batch" /\ m \in handed)
  BY <1>b, <1>23 DEF RunSync
<1>24. CASE SyncsDone
  BY <1>b, <1>24 DEF SyncsDone
<1>25. CASE commit
  BY <1>b, <1>25 DEF commit
<1>26. CASE Recover
  BY <1>b, <1>26 DEF Recover
<1>27. CASE rollbackNothing
  BY <1>b, <1>27 DEF rollbackNothing
<1>28. CASE rollbackPoison
  BY <1>a, <1>d, <1>28 DEF rollbackPoison
<1>29. ASSUME NEW delayed \in BOOLEAN, rollback(delayed)
      PROVE  m \in got \/ (mode = "batch" /\ m \in handed)
  BY <1>b, <1>29 DEF rollback
<1>30. CASE CloseDeferred
  BY <1>b, <1>30 DEF CloseDeferred
<1>31. CASE Close
  BY <1>b, <1>31 DEF Close
<1>32. CASE dispose
  BY <1>b, <1>32 DEF dispose, ExecutorTerminated
<1>33. ASSUME NEW k \in Messages, NEW count \in BrokerCounts, OnDispatch(k, count)
      PROVE  m \in got \/ (mode = "batch" /\ m \in handed)
  BY <1>b, <1>33 DEF OnDispatch
<1>34. CASE DispatchClearsProgress
  BY <1>b, <1>34 DEF DispatchClearsProgress
<1>35. CASE DispatchClearsList
  BY <1>b, <1>35 DEF DispatchClearsList
<1>36. CASE DispatchClosed
  BY <1>b, <1>36 DEF DispatchClosed
<1>37. CASE DispatchFresh
  BY <1>b, <1>37 DEF DispatchFresh
<1>38. CASE DispatchReplay
  BY <1>b, <1>38 DEF DispatchReplay
<1>39. CASE DispatchDuplicate
  BY <1>a, <1>d, <1>39 DEF DispatchDuplicate, SettleOne
<1>40. CASE transportInterrupted
  BY <1>b, <1>40 DEF transportInterrupted
<1>41. CASE StartConsumer
  BY <1>b, <1>41 DEF StartConsumer
<1>42. CASE ClearConsumer
  BY <1>b, <1>42 DEF ClearConsumer
<1>43. CASE AckTaskRuns
  <2>1. ackTask # NoAck /\ SendAck(ackTask)
    BY <1>43 DEF AckTaskRuns
  <2>2. m \in sent /\ final[m] = {} /\ m \in ackTask.first..ackTask.last
    BY <1>e, <2>1
  <2>3. mode = "batch"
    BY <1>g, <1>h, <2>1 DEF Retained, TxLists, TxPresent
  <2>4. /\ ackTask.first \in Int /\ ackTask.last \in Int
        /\ \A k \in arrived : final[k] = {} /\ Live(k) /\ k <= ackTask.last => k \in handed
    BY <1>c, <1>f, <2>1, <2>3 DEF BatchRange, BatchAcks, AckBefore
  <2>5. m \in arrived /\ Live(m) /\ m <= ackTask.last
    BY <1>c, <2>2, <2>4 DEF Live
  <2> QED BY <2>2, <2>3, <2>4, <2>5
<1> QED
  BY <1>1, <1>2, <1>3, <1>4, <1>5, <1>6, <1>7, <1>8, <1>9, <1>10, <1>11, <1>12, <1>13, <1>14,
     <1>15, <1>16, <1>17, <1>18, <1>19, <1>20, <1>21, <1>22, <1>23, <1>24, <1>25, <1>26, <1>27,
     <1>28, <1>29, <1>30, <1>31, <1>32, <1>33, <1>34, <1>35, <1>36, <1>37, <1>38, <1>39, <1>40,
     <1>41, <1>42, <1>43
  DEF Next, Application, Transport, Tasks

(***************************************************************************)
(* In every mode, for any number of messages and through interruptions     *)
(* that wait for the one before to be cleared, a message that the broker   *)
(* has dispatched on the present connection and not seen ended is still in *)
(* unconsumedMessages, in deliveredMessages, in the application thread's   *)
(* hands or in the range of an ack that is to come (dispatch, rollback,    *)
(* clearMessagesInProgress, clearDeliveredList, dispose).                  *)
(***************************************************************************)
THEOREM NothingIsForgotten == Spec => []NothingForgotten
<1>1. Init => AllInv
  BY AllInit
<1>2. AllInv /\ [Next]_vars => AllInv'
  BY AllNext
<1>3. AllInv => NothingForgotten
  BY AllNothingForgotten
<1> QED BY <1>1, <1>2, <1>3, PTL DEF Spec

(***************************************************************************)
(* When commit sends its request, the acks that beforeEnd has sent in the  *)
(* transaction cover what the application has had in it and nothing else,  *)
(* also when the transaction goes on over an interruption and its messages *)
(* were replayed (ActiveMQConsumerKernel::acknowledge, clearDeliveredList, *)
(* rollbackOnFailedRecoveryRedelivery).                                    *)
(***************************************************************************)
THEOREM CommitCovers == Spec => []CommitCoversReceived
<1>1. Init => AllInv
  BY AllInit
<1>2. AllInv /\ [Next]_vars => AllInv'
  BY AllNext
<1>3. AllInv => CommitCoversReceived
  BY AllCommitCovers
<1> QED BY <1>1, <1>2, <1>3, PTL DEF Spec

(***************************************************************************)
(* No ack, though each names a range, ever ends a message that the         *)
(* application has not had (makeAckForAllDeliveredMessages, ackLater,      *)
(* AsyncMessageAckTask and the commit of a transaction).                   *)
(***************************************************************************)
THEOREM ConsumedReceived == Spec => ConsumedWereReceived
<1> DEFINE A == /\ ~mixed
                /\ interruptions <= 1 \/ mode \notin {"batch", "transacted"}
                => \A m \in Messages : "consumed" \in final'[m] \ final[m] =>
                       m \in got \/ (mode = "batch" /\ m \in handed)
<1>1. Init => AllInv
  BY AllInit
<1>2. AllInv /\ [Next]_vars => AllInv'
  BY AllNext
<1>3. AllInv /\ [Next]_vars => [A]_vars
  BY ConsumedNext
<1> QED BY <1>1, <1>2, <1>3, PTL DEF Spec, ConsumedWereReceived

=============================================================================
