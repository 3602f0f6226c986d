-------------------------- MODULE ThreadingProofs --------------------------
(***************************************************************************)
(* Theorems about Threading for any number of threads and interruption     *)
(* threads.                                                                *)
(***************************************************************************)
EXTENDS Threading, TLAPS, SequenceTheorems

NoDup(q) == \A i, j \in DOMAIN q : q[i] = q[j] => i = j

(***************************************************************************)
(* enqueueThread and dequeueThread: a thread that is not in the queue goes *)
(* to its end, a thread that is leaves and takes nobody with it.           *)
(***************************************************************************)
LEMMA EnqueueLemma ==
    ASSUME NEW S, NEW q \in Seq(S), NEW e \in S, NoDup(q), e \notin ToSet(q)
    PROVE  /\ Append(q, e) \in Seq(S) /\ NoDup(Append(q, e))
           /\ ToSet(Append(q, e)) = ToSet(q) \cup {e}
<1> DEFINE r == Append(q, e)
<1>1. /\ r \in Seq(S) /\ Len(r) = Len(q) + 1 /\ r[Len(q) + 1] = e
      /\ \A i \in 1..Len(q) : r[i] = q[i]
  OBVIOUS
<1>2. \A i \in 1..Len(q) : q[i] # e
  BY DEF ToSet
<1>3. DOMAIN r = 1..(Len(q) + 1) /\ DOMAIN q = 1..Len(q) /\ Len(q) \in Nat
  BY <1>1
<1>4. NoDup(r)
  BY <1>1, <1>2, <1>3 DEF NoDup
<1>5. ToSet(r) \subseteq ToSet(q) \cup {e}
  BY <1>1, <1>3 DEF ToSet
<1>6. ToSet(q) \subseteq ToSet(r)
  BY <1>1, <1>3 DEF ToSet
<1>7. e \in ToSet(r)
  BY <1>1, <1>3 DEF ToSet
<1> QED
  BY <1>1, <1>4, <1>5, <1>6, <1>7

(* dequeueThread takes the thread out and keeps the others, each once. *)
LEMMA DequeueLemma ==
    ASSUME NEW S, NEW q \in Seq(S), NEW e, NoDup(q)
    PROVE  /\ RemoveFirst(q, e) \in Seq(S) /\ NoDup(RemoveFirst(q, e))
           /\ ToSet(RemoveFirst(q, e)) = ToSet(q) \ {e}
<1> DEFINE r == RemoveFirst(q, e)
<1>1. CASE ~\E i \in 1..Len(q) : q[i] = e
  <2>1. r = q
    BY <1>1 DEF RemoveFirst
  <2>2. e \notin ToSet(q)
    BY <1>1 DEF ToSet
  <2> QED
    BY <2>1, <2>2
<1>2. ASSUME NEW k \in 1..Len(q), q[k] = e
      PROVE  r \in Seq(S) /\ NoDup(r) /\ ToSet(r) = ToSet(q) \ {e}
  <2>1. DOMAIN q = 1..Len(q) /\ Len(q) \in Nat
    OBVIOUS
  <2>2. {i \in 1..Len(q) : q[i] = e} = {k}
    BY <1>2, <2>1 DEF NoDup
  <2>3. Min({k}) = k
    BY DEF Min
  <2>4. SelectInSeq(q, LAMBDA v : v = e) = k
    BY <2>2, <2>3 DEF SelectInSeq
  <2>5. r = SubSeq(q, 1, k - 1) \o SubSeq(q, k + 1, Len(q))
    BY <1>2, <2>4 DEF RemoveFirst, RemoveAt
  <2> DEFINE a == SubSeq(q, 1, k - 1)
             b == SubSeq(q, k + 1, Len(q))
  <2>a. /\ a \in Seq(S) /\ Len(a) = k - 1
        /\ \A i \in 1..(k - 1) : a[i] = q[i]
    <3>1. \A i \in 1..(k - 1) : q[i] \in S
      BY <1>2, <2>1
    <3>2. /\ a \in Seq(S) /\ Len(a) = IF 1 <= k - 1 THEN (k - 1) - 1 + 1 ELSE 0
          /\ \A i \in 1..(k - 1) - 1 + 1 : a[i] = q[1 + i - 1]
      BY <3>1, <1>2, <2>1, SubSeqProperties
    <3> QED
      BY <3>2, <1>2, <2>1
  <2>b. /\ b \in Seq(S) /\ Len(b) = Len(q) - k
        /\ \A i \in 1..(Len(q) - k) : b[i] = q[k + i]
    <3>1. \A i \in (k + 1)..Len(q) : q[i] \in S
      BY <1>2, <2>1
    <3>2. /\ b \in Seq(S) /\ Len(b) = IF k + 1 <= Len(q) THEN Len(q) - (k + 1) + 1 ELSE 0
          /\ \A i \in 1..Len(q) - (k + 1) + 1 : b[i] = q[(k + 1) + i - 1]
      BY <3>1, <1>2, <2>1, SubSeqProperties
    <3> HIDE DEF b
    <3>0. Len(q) - (k + 1) + 1 = Len(q) - k /\ (~(k + 1 <= Len(q)) => Len(q) - k = 0)
      <4>1. ASSUME NEW n \in Nat, NEW m \in 1..n
            PROVE  n - (m + 1) + 1 = n - m /\ (~(m + 1 <= n) => n - m = 0)
        OBVIOUS
      <4> QED
        BY <4>1, <2>1
    <3>3. Len(b) = Len(q) - k
      BY <3>2, <3>0, Zenon
    <3>4. ASSUME NEW i \in 1..(Len(q) - k) PROVE b[i] = q[k + i]
      <4>1. (k + 1) + i - 1 = k + i
        BY <1>2, <2>1
      <4> QED
        BY <3>0, <3>2, <4>1
    <3> QED
      BY <3>2, <3>3, <3>4
  <2> HIDE DEF a, b
  <2>6. /\ r \in Seq(S) /\ Len(r) = Len(q) - 1
        /\ \A i \in 1..(Len(q) - 1) : r[i] = IF i < k THEN q[i] ELSE q[i + 1]
    <3>1. r = a \o b
      BY <2>5 DEF a, b
    <3> HIDE DEF r
    <3>2. /\ r \in Seq(S) /\ Len(r) = Len(a) + Len(b)
          /\ \A i \in 1..Len(a) + Len(b) : r[i] = IF i <= Len(a) THEN a[i] ELSE b[i - Len(a)]
      BY <3>1, <2>a, <2>b, ConcatProperties
    <3>3. Len(a) + Len(b) = Len(q) - 1
      BY <2>a, <2>b, <2>1, <1>2
    <3>4. ASSUME NEW i \in 1..(Len(q) - 1) PROVE r[i] = IF i < k THEN q[i] ELSE q[i + 1]
      <4>1. CASE i < k
        BY <4>1, <3>2, <3>3, <2>a, <1>2, <2>1
      <4>2. CASE i >= k
        <5>1. /\ i - Len(a) = i - k + 1 /\ i - k + 1 \in 1..(Len(q) - k)
              /\ k + (i - k + 1) = i + 1 /\ ~(i <= Len(a))
          BY <4>2, <2>a, <1>2, <2>1
        <5>2. r[i] = b[i - k + 1]
          BY <5>1, <3>2, <3>3
        <5> QED
          BY <5>1, <5>2, <4>2, <2>b, <1>2, <2>1
      <4> QED
        BY <4>1, <4>2, <1>2, <2>1
    <3> QED
      BY <3>2, <3>3, <3>4
  <2>7. DOMAIN r = 1..(Len(q) - 1)
    BY <2>6, <2>1
  <2> HIDE DEF r
  <2>8. NoDup(r)
    <3> SUFFICES ASSUME NEW i \in 1..(Len(q) - 1), NEW j \in 1..(Len(q) - 1), r[i] = r[j]
                 PROVE  i = j
      BY <2>7 DEF NoDup
    <3> DEFINE Old(n) == IF n < k THEN n ELSE n + 1
    <3>1. Old(i) \in 1..Len(q) /\ Old(j) \in 1..Len(q) /\ (Old(i) = Old(j) => i = j)
      BY <2>1, <1>2
    <3>2. r[i] = q[Old(i)] /\ r[j] = q[Old(j)]
      BY <2>6
    <3> QED
      BY <3>1, <3>2, <2>1 DEF NoDup
  <2>9. ToSet(r) \subseteq ToSet(q) \ {e}
    BY <1>2, <2>6, <2>7, <2>1 DEF ToSet, NoDup
  <2>10. ASSUME NEW j \in 1..Len(q), q[j] # e PROVE q[j] \in ToSet(r)
    <3>1. CASE j < k
      BY <3>1, <1>2, <2>6, <2>7, <2>1 DEF ToSet
    <3>2. CASE j > k
      <4>1. j - 1 \in 1..(Len(q) - 1) /\ r[j - 1] = q[j]
        BY <3>2, <1>2, <2>6, <2>1
      <4> QED
        BY <4>1, <2>7 DEF ToSet
    <3> QED
      BY <3>1, <3>2, <1>2, <2>10
  <2> QED
    BY <2>6, <2>8, <2>9, <2>10, <2>1 DEF ToSet
<1> QED
  BY <1>1, <1>2

-----------------------------------------------------------------------------
(***************************************************************************)
(* The inductive invariant.  Counts: whoever may leave the monitor has     *)
(* entered it.  QueuesExact: the two queues hold exactly the threads that  *)
(* sleep for their reason, each once; without it a release or a notify     *)
(* could pass a sleeper over.                                              *)
(***************************************************************************)
Counts == \A t \in All : pc[t] \in {"owner", "inside", "notify", "leaving"} => count >= 1

QueuesExact ==
    /\ NoDup(blocking) /\ ToSet(blocking) = {t \in All : pc[t] = "blocked"}
    /\ NoDup(waiting) /\ ToSet(waiting) = {t \in Threads : pc[t] = "asleep"}

IInv == TypeOK /\ MutualExclusion /\ Counts /\ QueuesExact /\ NotifyNotLost /\ NoSleeperForgotten

(* Before any thread has entered, the queues are empty and the lock is free. *)
LEMMA InitIInv == Init => IInv
<1> SUFFICES ASSUME Init PROVE IInv
  OBVIOUS
<1>0. Nobody \notin All /\ MaxDepth \in Nat \ {0}
  BY ThreadingAssumption DEF All, Nobody
<1>1. TypeOK
  BY <1>0 DEF Init, TypeOK, Places, All, Nobody
<1>2. MutualExclusion /\ Counts
  BY DEF Init, MutualExclusion, Inside, Counts
<1>3. QueuesExact
  BY DEF Init, QueuesExact, NoDup, ToSet, All
<1>4. NotifyNotLost /\ NoSleeperForgotten
  BY DEF Init, NotifyNotLost, NoSleeperForgotten
<1> QED
  BY <1>1, <1>2, <1>3, <1>4 DEF IInv

(* The queues stay exact while nobody goes to sleep and nobody wakes. *)
LEMMA QueuesKept ==
    ASSUME QueuesExact, TypeOK, NEW t \in All, NEW p, Go(t, p), pc[t] \notin {"blocked", "asleep"},
           p \notin {"blocked", "asleep"}, UNCHANGED <<blocking, waiting>>
    PROVE  QueuesExact'
<1>1. \A u \in All : \A q \in {"blocked", "asleep"} : pc'[u] = q <=> pc[u] = q
  BY DEF Go, TypeOK
<1>2. {u \in All : pc'[u] = "blocked"} = {u \in All : pc[u] = "blocked"}
  BY <1>1
<1>3. {u \in Threads : pc'[u] = "asleep"} = {u \in Threads : pc[u] = "asleep"}
  BY <1>1 DEF All
<1> QED
  BY <1>2, <1>3 DEF QueuesExact

(* The owner is alone: nobody else is inside, or counts on the count. *)
LEMMA Alone ==
    ASSUME MutualExclusion, NEW t \in All, Inside(t), NEW u \in All, Inside(u)
    PROVE  u = t
  BY DEF MutualExclusion

(* A free monitor has nobody inside. *)
LEMMA FreeMeansEmpty ==
    ASSUME MutualExclusion, lock = Nobody, NEW u \in All
    PROVE  ~Inside(u)
  BY ThreadingAssumption DEF MutualExclusion, All, Nobody

(* Taking the free lock, on the fast or on the slow path. *)
LEMMA GetsLemma ==
    ASSUME IInv, lock = Nobody, NEW t \in All, Gets(t), pc[t] \in {"idle", "try", "slow"},
           UNCHANGED <<mutex, blocking, waiting, signalled, flags, helping>>
    PROVE  IInv'
<1> USE DEF IInv
<1>0. MaxDepth \in Nat \ {0} /\ Nobody \notin All /\ t # Nobody
  BY ThreadingAssumption DEF All, Nobody
<1> DEFINE p == IF t \in Helpers THEN "inside" ELSE "owner"
<1>1. TypeOK'
  BY <1>0 DEF TypeOK, Gets, Go, Places, flags, helping
<1>2. \A u \in All : ~Inside(u)
  BY FreeMeansEmpty
<1>3. \A u \in All : u # t => pc'[u] = pc[u]
  BY DEF Gets, Go, TypeOK
<1>4. MutualExclusion'
  BY <1>2, <1>3 DEF MutualExclusion, Inside, Gets
<1>5. count' \in Nat /\ count' >= 1
  BY <1>0 DEF Gets, TypeOK
<1>6. Counts'
  BY <1>5 DEF Counts
<1>7. QueuesExact'
  <2>1. Go(t, p) /\ p \notin {"blocked", "asleep"} /\ pc[t] \notin {"blocked", "asleep"}
    BY DEF Gets
  <2> QED
    BY <2>1, QueuesKept
<1>8. NotifyNotLost'
  BY <1>3 DEF NotifyNotLost, flags, All
<1>9. NoSleeperForgotten'
  BY <1>0 DEF NoSleeperForgotten, Gets
<1> QED
  BY <1>1, <1>4, <1>6, <1>7, <1>8, <1>9

-----------------------------------------------------------------------------
(***************************************************************************)
(* Steps that only change where a thread is, and lead neither into nor out *)
(* of the monitor, a queue or the mutex.                                   *)
(***************************************************************************)
LEMMA MoveLemma ==
    ASSUME IInv, NEW t \in All, NEW p \in Places, Go(t, p), pc[t] \notin {"blocked", "asleep"},
           p \notin {"blocked", "asleep", "owner", "release", "giveup"},
           p \in {"inside", "notify", "leaving"} => pc[t] \in {"inside", "notify", "leaving"},
           UNCHANGED <<monitor, signalled, flags, saved, helping>>
    PROVE  IInv'
<1> USE DEF IInv
<1>1. TypeOK'
  BY DEF TypeOK, Go, monitor, flags, helping
<1>2. pc' \in [All -> Places] /\ pc'[t] = p /\ \A u \in All : u # t => pc'[u] = pc[u]
  BY DEF Go, TypeOK
<1>3. MutualExclusion'
  BY <1>2 DEF MutualExclusion, Inside, monitor
<1>4. Counts'
  BY <1>2 DEF Counts, monitor
<1>5. QueuesExact'
  BY QueuesKept DEF monitor
<1>6. NotifyNotLost'
  BY <1>2 DEF NotifyNotLost, flags, All
<1>7. NoSleeperForgotten'
  BY <1>2 DEF NoSleeperForgotten, monitor
<1> QED
  BY <1>1, <1>3, <1>4, <1>5, <1>6, <1>7

(***************************************************************************)
(* Steps of a thread's flags alone, which set nobody notified.             *)
(***************************************************************************)
LEMMA FlagsLemma ==
    ASSUME IInv, TypeOK', UNCHANGED <<pc, monitor, notified>>,
           \A t \in All : signalled[t] => signalled'[t]
    PROVE  IInv'
<1> USE DEF IInv
<1>1. MutualExclusion' /\ Counts'
  BY DEF MutualExclusion, Inside, Counts, monitor
<1>2. QueuesExact'
  BY DEF QueuesExact, monitor
<1>3. NotifyNotLost' /\ NoSleeperForgotten'
  BY DEF NotifyNotLost, NoSleeperForgotten, monitor, All
<1> QED
  BY <1>1, <1>2, <1>3

-----------------------------------------------------------------------------
(* Entering *)

(* doMonitorEnter, first attempt: it takes a free lock or changes nothing. *)
LEMMA TryEnterStep ==
    ASSUME IInv, NEW t \in All, TryEnter(t)
    PROVE  IInv'
<1>1. CASE lock = Nobody
  BY <1>1, GetsLemma DEF TryEnter
<1>2. CASE lock # Nobody
  <2>1. Go(t, "slow") /\ UNCHANGED <<monitor, signalled, flags, saved, helping>> /\ pc[t] = "try"
    BY <1>2 DEF TryEnter, monitor
  <2> QED
    BY <2>1, MoveLemma DEF Places
<1> QED
  BY <1>1, <1>2

(* tryEnterMonitor takes a free lock. *)
LEMMA TryEnterMonitorStep ==
    ASSUME IInv, NEW t \in All, TryEnterMonitor(t)
    PROVE  IInv'
  BY GetsLemma DEF TryEnterMonitor

(* enterMonitor by a thread that does not own the monitor only begins. *)
LEMMA EnterMonitorStep ==
    ASSUME IInv, NEW t \in All, EnterMonitor(t)
    PROVE  IInv'
  BY MoveLemma DEF EnterMonitor, Places

(* enterMonitor by the owner raises the count. *)
LEMMA EnterAgainStep ==
    ASSUME IInv, NEW t \in All, EnterAgain(t)
    PROVE  IInv'
<1> USE DEF IInv
<1>0. MaxDepth \in Nat
  BY ThreadingAssumption
<1>1. TypeOK'
  BY <1>0 DEF TypeOK, EnterAgain, flags, helping
<1>2. MutualExclusion' /\ Counts'
  BY <1>0 DEF MutualExclusion, Inside, Counts, EnterAgain, TypeOK
<1>3. QueuesExact'
  BY DEF QueuesExact, EnterAgain
<1>4. NotifyNotLost' /\ NoSleeperForgotten'
  BY DEF NotifyNotLost, NoSleeperForgotten, EnterAgain, flags
<1> QED
  BY <1>1, <1>2, <1>3, <1>4

(* The lock is taken while the thread queues, so that somebody will wake it. *)
LEMMA EnterOrBlockStep ==
    ASSUME IInv, NEW t \in All, EnterOrBlock(t)
    PROVE  IInv'
<1>1. CASE lock = Nobody
  BY <1>1, GetsLemma DEF EnterOrBlock
<1>2. CASE lock # Nobody
  <2> USE DEF IInv
  <2>0. pc[t] = "slow" /\ blocking' = Append(blocking, t) /\ Go(t, "blocked")
        /\ signalled' = [signalled EXCEPT ![t] = FALSE]
        /\ UNCHANGED <<lock, owner, count, saved, mutex, waiting, flags, helping>>
    BY <1>2 DEF EnterOrBlock
  <2>1. t \notin ToSet(blocking) /\ blocking \in Seq(All)
    BY <2>0 DEF QueuesExact, TypeOK
  <2>2. /\ blocking' \in Seq(All) /\ NoDup(blocking')
        /\ ToSet(blocking') = ToSet(blocking) \cup {t}
    BY <2>0, <2>1, EnqueueLemma DEF QueuesExact
  <2>3. TypeOK'
    BY <2>0, <2>2 DEF TypeOK, Go, Places, flags, helping
  <2>4. pc'[t] = "blocked" /\ \A u \in All : u # t => pc'[u] = pc[u]
    BY <2>0 DEF Go, TypeOK
  <2>5. MutualExclusion' /\ Counts'
    BY <2>0, <2>4 DEF MutualExclusion, Inside, Counts
  <2>6. QueuesExact'
    <3>1. {u \in All : pc'[u] = "blocked"} = {u \in All : pc[u] = "blocked"} \cup {t}
      BY <2>4
    <3>2. {u \in Threads : pc'[u] = "asleep"} = {u \in Threads : pc[u] = "asleep"}
      BY <2>0, <2>4 DEF All
    <3> QED
      BY <2>0, <2>2, <3>1, <3>2 DEF QueuesExact
  <2>7. NotifyNotLost'
    BY <2>0, <2>4 DEF NotifyNotLost, flags, All, TypeOK
  <2>8. NoSleeperForgotten'
    BY <2>0, <1>2 DEF NoSleeperForgotten
  <2> QED
    BY <2>3, <2>5, <2>6, <2>7, <2>8
<1> QED
  BY <1>1, <1>2

(* A blocked thread that wakes leaves the queue and nobody else does. *)
LEMMA UnblockedStep ==
    ASSUME IInv, NEW t \in All, Unblocked(t)
    PROVE  IInv'
<1> USE DEF IInv
<1>1. /\ blocking' \in Seq(All) /\ NoDup(blocking')
      /\ ToSet(blocking') = ToSet(blocking) \ {t}
  BY DequeueLemma DEF Unblocked, QueuesExact, TypeOK
<1>2. TypeOK'
  BY <1>1 DEF TypeOK, Unblocked, Go, Places, flags, helping
<1>3. pc[t] = "blocked" /\ pc'[t] = "try" /\ \A u \in All : u # t => pc'[u] = pc[u]
  BY DEF Unblocked, Go, TypeOK
<1>4. MutualExclusion' /\ Counts'
  BY <1>3 DEF MutualExclusion, Inside, Counts, Unblocked
<1>5. QueuesExact'
  <2>1. {u \in All : pc'[u] = "blocked"} = {u \in All : pc[u] = "blocked"} \ {t}
    BY <1>3
  <2>2. {u \in Threads : pc'[u] = "asleep"} = {u \in Threads : pc[u] = "asleep"}
    BY <1>3 DEF All
  <2> QED
    BY <1>1, <2>1, <2>2 DEF QueuesExact, Unblocked
<1>6. NotifyNotLost' /\ NoSleeperForgotten'
  BY <1>3 DEF NotifyNotLost, NoSleeperForgotten, Unblocked, flags, All
<1> QED
  BY <1>2, <1>4, <1>5, <1>6

-----------------------------------------------------------------------------
(* Leaving *)

(* exitMonitor lowers a count that is at least 1. *)
LEMMA ExitMonitorStep ==
    ASSUME IInv, NEW t \in All, ExitMonitor(t)
    PROVE  IInv'
<1> USE DEF IInv
<1>0. MaxDepth \in Nat /\ Inside(t) /\ count \in 1..MaxDepth
  BY ThreadingAssumption DEF ExitMonitor, Inside, Counts, TypeOK
<1>1. TypeOK'
  <2>1. count' \in 0..MaxDepth
    BY <1>0 DEF ExitMonitor
  <2>2. pc' \in [All -> Places] /\ owner' \in All \cup {Nobody}
    BY DEF TypeOK, ExitMonitor, Go, Places
  <2> QED
    BY <2>1, <2>2 DEF TypeOK, ExitMonitor, flags, helping
<1>2. CASE count = 1
  <2>1. Go(t, "release") /\ UNCHANGED <<lock, mutex, blocking, waiting, signalled, flags>>
    BY <1>2 DEF ExitMonitor
  <2>2. pc'[t] = "release" /\ \A u \in All : u # t => pc'[u] = pc[u] /\ ~Inside(u)
    BY <1>0, <2>1, Alone DEF Go, TypeOK
  <2>3. MutualExclusion' /\ Counts'
    BY <1>0, <2>1, <2>2 DEF MutualExclusion, Counts, Inside
  <2>4. QueuesExact'
    BY <2>1, QueuesKept DEF ExitMonitor
  <2>5. NotifyNotLost' /\ NoSleeperForgotten'
    BY <1>0, <2>1, <2>2 DEF NotifyNotLost, NoSleeperForgotten, flags, All, Inside
  <2> QED
    BY <1>1, <2>3, <2>4, <2>5
<1>3. CASE count # 1
  <2>1. count' >= 1 /\ UNCHANGED <<pc, lock, mutex, blocking, waiting, signalled, flags>>
    BY <1>0, <1>3 DEF ExitMonitor
  <2>2. MutualExclusion' /\ Counts'
    BY <2>1 DEF MutualExclusion, Counts, Inside
  <2>3. QueuesExact'
    BY <2>1 DEF QueuesExact
  <2>4. NotifyNotLost' /\ NoSleeperForgotten'
    BY <2>1 DEF NotifyNotLost, NoSleeperForgotten, flags
  <2> QED
    BY <1>1, <2>2, <2>3, <2>4
<1> QED
  BY <1>2, <1>3

(* The queue holds every blocked thread, so the broadcast reaches them all. *)
LEMMA ReleaseStep ==
    ASSUME IInv, NEW t \in All, Release(t)
    PROVE  IInv'
<1> USE DEF IInv
<1> DEFINE p == IF t \in Helpers THEN "dead" ELSE "idle"
<1>1. TypeOK'
  BY DEF TypeOK, Release, Signal, Asleep, Go, Places, flags, helping
<1>2. pc[t] = "release" /\ Go(t, p) /\ Inside(t)
  BY DEF Release, Inside
<1>3. pc'[t] = p /\ \A u \in All : u # t => pc'[u] = pc[u] /\ ~Inside(u)
  BY <1>2, Alone DEF Go, TypeOK
<1>4. MutualExclusion' /\ Counts'
  BY <1>3 DEF MutualExclusion, Counts, Inside
<1>5. QueuesExact'
  <2>1. p \notin {"blocked", "asleep"} /\ UNCHANGED <<blocking, waiting>>
    BY DEF Release
  <2> QED
    BY <1>2, <2>1, QueuesKept
<1>6. \A u \in All : /\ signalled[u] => signalled'[u]
                     /\ pc[u] = "blocked" => signalled'[u]
  BY DEF Release, Signal, Asleep, QueuesExact
<1>7. NotifyNotLost' /\ NoSleeperForgotten'
  BY <1>2, <1>3, <1>6 DEF NotifyNotLost, NoSleeperForgotten, Release, flags, All
<1> QED
  BY <1>1, <1>4, <1>5, <1>7

-----------------------------------------------------------------------------
(* Waiting *)

(* A pending interrupt that ends a wait takes back its own flag only. *)
LEMMA WaitInterruptedStep ==
    ASSUME IInv, NEW t \in Threads, WaitInterrupted(t)
    PROVE  IInv'
<1>1. TypeOK'
  BY DEF IInv, TypeOK, WaitInterrupted, monitor, helping
<1> QED
  BY <1>1, FlagsLemma DEF WaitInterrupted

(* doWaitOnMonitor, first part: the owner is still the only one inside. *)
LEMMA WaitOnMonitorStep ==
    ASSUME IInv, NEW t \in Threads, NEW timed \in BOOLEAN, WaitOnMonitor(t, timed)
    PROVE  IInv'
<1> USE DEF IInv
<1>0. MaxDepth \in Nat /\ t \in All /\ Inside(t)
  BY ThreadingAssumption DEF WaitOnMonitor, Inside, All
<1>1. TypeOK'
  BY <1>0 DEF TypeOK, WaitOnMonitor, Go, Places, helping
<1>2. pc'[t] = "giveup" /\ \A u \in All : u # t => pc'[u] = pc[u] /\ ~Inside(u)
  BY <1>0, Alone DEF WaitOnMonitor, Go, TypeOK
<1>3. MutualExclusion' /\ Counts'
  BY <1>0, <1>2 DEF MutualExclusion, Counts, Inside, WaitOnMonitor
<1>4. QueuesExact'
  BY <1>0, QueuesKept DEF WaitOnMonitor
<1>5. NotifyNotLost' /\ NoSleeperForgotten'
  BY <1>0, <1>2 DEF NotifyNotLost, NoSleeperForgotten, WaitOnMonitor, All
<1> QED
  BY <1>1, <1>3, <1>4, <1>5

(* From here to QueueUp the mutex keeps the sleepers' state from being judged. *)
LEMMA GiveUpLockStep ==
    ASSUME IInv, NEW t \in Threads, GiveUpLock(t)
    PROVE  IInv'
<1> USE DEF IInv
<1>0. t \in All /\ t # Nobody /\ Inside(t)
  BY ThreadingAssumption DEF All, Nobody, GiveUpLock, Inside
<1>1. TypeOK'
  BY <1>0 DEF TypeOK, GiveUpLock, Go, Places, flags, helping
<1>2. pc'[t] = "queue" /\ \A u \in All : u # t => pc'[u] = pc[u] /\ ~Inside(u)
  BY <1>0, Alone DEF GiveUpLock, Go, TypeOK
<1>3. MutualExclusion' /\ Counts'
  BY <1>0, <1>2 DEF MutualExclusion, Counts, Inside
<1>4. QueuesExact'
  BY <1>0, QueuesKept DEF GiveUpLock
<1>5. NotifyNotLost' /\ NoSleeperForgotten'
  BY <1>0, <1>2 DEF NotifyNotLost, NoSleeperForgotten, GiveUpLock, flags, All
<1> QED
  BY <1>1, <1>3, <1>4, <1>5

(* doWaitOnMonitor: every blocked thread is woken before the waiter sleeps. *)
LEMMA QueueUpStep ==
    ASSUME IInv, NEW t \in Threads, QueueUp(t)
    PROVE  IInv'
<1> USE DEF IInv
<1>0. t \in All /\ t \notin ToSet(waiting)
  BY DEF QueueUp, QueuesExact, All
<1>1. /\ waiting' \in Seq(Threads) /\ NoDup(waiting')
      /\ ToSet(waiting') = ToSet(waiting) \cup {t}
  BY <1>0, EnqueueLemma DEF QueueUp, QueuesExact, TypeOK
<1>2. TypeOK'
  BY <1>1 DEF TypeOK, QueueUp, Asleep, Go, Places, flags, helping
<1>3. pc[t] = "queue" /\ pc'[t] = "asleep" /\ \A u \in All : u # t => pc'[u] = pc[u]
  BY <1>0 DEF QueueUp, Go, TypeOK
<1>4. MutualExclusion' /\ Counts'
  BY <1>3 DEF MutualExclusion, Counts, Inside, QueueUp
<1>5. QueuesExact'
  <2>1. {u \in All : pc'[u] = "blocked"} = {u \in All : pc[u] = "blocked"}
    BY <1>3
  <2>2. {u \in Threads : pc'[u] = "asleep"} = {u \in Threads : pc[u] = "asleep"} \cup {t}
    BY <1>3 DEF All
  <2> QED
    BY <1>1, <2>1, <2>2 DEF QueuesExact, QueueUp
<1>6. \A u \in All : u # t => /\ signalled[u] => signalled'[u]
                              /\ pc[u] = "blocked" => signalled'[u]
  BY DEF QueueUp, Asleep, QueuesExact
<1>7. NotifyNotLost' /\ NoSleeperForgotten'
  BY <1>3, <1>6 DEF NotifyNotLost, NoSleeperForgotten, QueueUp, flags, All
<1> QED
  BY <1>2, <1>4, <1>5, <1>7

(* The end of a wait takes the thread out of its queue with its flag notified. *)
LEMMA WaitEndsLemma ==
    ASSUME IInv, NEW t \in Threads, pc[t] = "asleep", WaitEnds(t)
    PROVE  IInv'
<1> USE DEF IInv
<1>0. t \in All
  BY DEF All
<1>1. /\ waiting' \in Seq(Threads) /\ NoDup(waiting')
      /\ ToSet(waiting') = ToSet(waiting) \ {t}
  BY DequeueLemma DEF WaitEnds, QueuesExact, TypeOK
<1>2. TypeOK'
  BY <1>1 DEF TypeOK, WaitEnds, Go, Places
<1>3. pc'[t] = "try" /\ \A u \in All : u # t => pc'[u] = pc[u]
  BY <1>0 DEF WaitEnds, Go, TypeOK
<1>4. MutualExclusion' /\ Counts'
  BY <1>3 DEF MutualExclusion, Counts, Inside, WaitEnds
<1>5. QueuesExact'
  <2>1. {u \in All : pc'[u] = "blocked"} = {u \in All : pc[u] = "blocked"}
    BY <1>3
  <2>2. {u \in Threads : pc'[u] = "asleep"} = {u \in Threads : pc[u] = "asleep"} \ {t}
    BY <1>3 DEF All
  <2> QED
    BY <1>1, <2>1, <2>2 DEF QueuesExact, WaitEnds
<1>6. NotifyNotLost' /\ NoSleeperForgotten'
  BY <1>3 DEF NotifyNotLost, NoSleeperForgotten, WaitEnds, All, TypeOK
<1> QED
  BY <1>2, <1>4, <1>5, <1>6

(* A thread that was notified does not go back to sleep. *)
LEMMA WakesStep ==
    ASSUME IInv, NEW t \in Threads, Wakes(t)
    PROVE  IInv'
<1>1. CASE WaitComplete(t)
  BY <1>1, WaitEndsLemma DEF Wakes
<1>2. CASE ~WaitComplete(t)
  <2> USE DEF IInv
  <2>0. /\ ~notified[t] /\ pc[t] = "asleep"
        /\ signalled' = [signalled EXCEPT ![t] = FALSE]
        /\ UNCHANGED <<pc, lock, mutex, owner, count, blocking, waiting, flags, saved, helping>>
    BY <1>2 DEF Wakes, WaitComplete, monitor
  <2>1. TypeOK'
    BY <2>0 DEF TypeOK, flags, helping
  <2>2. MutualExclusion' /\ Counts'
    BY <2>0 DEF MutualExclusion, Counts, Inside
  <2>3. QueuesExact'
    BY <2>0 DEF QueuesExact
  <2>4. NotifyNotLost' /\ NoSleeperForgotten'
    BY <2>0 DEF NotifyNotLost, NoSleeperForgotten, flags, TypeOK, All
  <2> QED
    BY <2>1, <2>2, <2>3, <2>4
<1> QED
  BY <1>1, <1>2

(* A wait that times out ends like one that is notified. *)
LEMMA TimesOutStep ==
    ASSUME IInv, NEW t \in Threads, TimesOut(t)
    PROVE  IInv'
  BY WaitEndsLemma DEF TimesOut

(* A wake-up nobody caused loses no signal. *)
LEMMA SpuriousStep ==
    ASSUME IInv, NEW t \in All, Spurious(t)
    PROVE  IInv'
<1>1. TypeOK'
  BY DEF IInv, TypeOK, Spurious, monitor, flags, helping
<1> QED
  BY <1>1, FlagsLemma DEF Spurious, flags, IInv, TypeOK

-----------------------------------------------------------------------------
(* Notifying and interrupting *)

(* Whoever is notified is in the queue of waiting threads, and so asleep. *)
LEMMA NotifyThreadsLemma ==
    ASSUME IInv, NEW t \in Threads, NEW ts, ts \subseteq ToSet(waiting), NotifyThreads(t, ts)
    PROVE  IInv'
<1> USE DEF IInv
<1>1. TypeOK'
  BY DEF TypeOK, NotifyThreads, Signal, Asleep, monitor, helping
<1>2. MutualExclusion' /\ Counts'
  BY DEF MutualExclusion, Counts, Inside, NotifyThreads, monitor
<1>3. QueuesExact'
  BY DEF QueuesExact, NotifyThreads, monitor
<1>4. \A u \in All : signalled[u] => signalled'[u]
  BY DEF NotifyThreads, Signal
<1>5. \A u \in ts : u \in All /\ pc[u] = "asleep" /\ signalled'[u]
  BY DEF NotifyThreads, Signal, Asleep, QueuesExact, All
<1>6. NotifyNotLost'
  BY <1>4, <1>5 DEF NotifyNotLost, NotifyThreads, All
<1>7. NoSleeperForgotten'
  BY <1>4 DEF NoSleeperForgotten, NotifyThreads, monitor
<1> QED
  BY <1>1, <1>2, <1>3, <1>6, <1>7

(* notifyWaiter and notifyAllWaiters choose among the waiting threads. *)
LEMMA NotifyStep ==
    ASSUME IInv, NEW t \in Threads, NotifyWaiter(t) \/ NotifyAllWaiters(t)
    PROVE  IInv'
<1>1. \A i \in Notifiable : waiting[i] \in ToSet(waiting)
  BY DEF Notifiable, ToSet, IInv, TypeOK
<1>2. FirstOf(Notifiable) \subseteq ToSet(waiting)
  BY <1>1 DEF FirstOf
<1>3. {waiting[i] : i \in Notifiable} \subseteq ToSet(waiting)
  BY <1>1
<1> QED
  BY <1>2, <1>3, NotifyThreadsLemma DEF NotifyWaiter, NotifyAllWaiters

(* interrupt starts a helper, which is not in the monitor yet. *)
LEMMA InterruptStep ==
    ASSUME IInv, NEW t \in Threads, Interrupt(t)
    PROVE  IInv'
<1> USE DEF IInv
<1>1. CASE isWaiting[t]
  <2>1. PICK h \in Helpers : /\ pc[h] = "unborn" /\ Go(h, "born")
                             /\ helper' = [helper EXCEPT ![t] = h]
                             /\ target' = [target EXCEPT ![h] = t]
                             /\ UNCHANGED canceled
    BY <1>1 DEF Interrupt
  <2>2. h \in All /\ pc'[h] = "born" /\ \A u \in All : u # h => pc'[u] = pc[u]
    BY <2>1 DEF Go, TypeOK, All
  <2>3. TypeOK'
    BY <2>1 DEF TypeOK, Interrupt, Go, Places, monitor
  <2>4. MutualExclusion' /\ Counts'
    BY <2>1, <2>2 DEF MutualExclusion, Counts, Inside, Interrupt, monitor
  <2>5. QueuesExact'
    BY <2>1, <2>2, QueuesKept DEF Interrupt, monitor
  <2>6. NotifyNotLost' /\ NoSleeperForgotten'
    BY <2>1, <2>2 DEF NotifyNotLost, NoSleeperForgotten, Interrupt, monitor, All
  <2> QED
    BY <2>3, <2>4, <2>5, <2>6
<1>2. CASE ~isWaiting[t]
  <2>1. TypeOK'
    BY <1>2 DEF TypeOK, Interrupt, monitor, helping
  <2> QED
    BY <1>2, <2>1, FlagsLemma DEF Interrupt
<1> QED
  BY <1>1, <1>2

(* Threading::interrupted takes back its own flag only. *)
LEMMA TestInterruptedStep ==
    ASSUME IInv, NEW t \in Threads, TestInterrupted(t)
    PROVE  IInv'
<1>1. TypeOK'
  BY DEF IInv, TypeOK, TestInterrupted, monitor, helping
<1> QED
  BY <1>1, FlagsLemma DEF TestInterrupted

(* A helper that starts, or ends at once, is outside. *)
LEMMA HelperStartsStep ==
    ASSUME IInv, NEW h \in Helpers, HelperStarts(h)
    PROVE  IInv'
<1> DEFINE p == IF canceled[h] \/ helper[target[h]] # h THEN "dead" ELSE "try"
<1>1. Go(h, p) /\ pc[h] = "born" /\ p \in {"dead", "try"}
  BY DEF HelperStarts
<1> HIDE DEF p
<1> QED
  BY <1>1, MoveLemma DEF HelperStarts, Places, All

(* A helper inside goes on or ends; the lock stays its own. *)
LEMMA HelperChecksStep ==
    ASSUME IInv, NEW h \in Helpers, HelperChecks(h)
    PROVE  IInv'
<1> DEFINE p == IF canceled[h] THEN "dead" ELSE "notify"
<1>1. Go(h, p) /\ pc[h] = "inside" /\ p \in {"dead", "notify"}
  BY DEF HelperChecks
<1> HIDE DEF p
<1> QED
  BY <1>1, MoveLemma DEF HelperChecks, Places, All

(* A helper wakes its target and notifies nobody. *)
LEMMA HelperNotifiesStep ==
    ASSUME IInv, NEW h \in Helpers, HelperNotifies(h)
    PROVE  IInv'
<1> USE DEF IInv
<1>0. pc[h] = "notify" /\ Go(h, "leaving")
      /\ UNCHANGED <<lock, mutex, owner, count, blocking, waiting, notified>>
  BY DEF HelperNotifies, monitor
<1>1. signalled' \in [All -> BOOLEAN] /\ \A u \in All : signalled[u] => signalled'[u]
  <2>1. Signal({target[h]}) \/ UNCHANGED signalled
    BY DEF HelperNotifies
  <2>2. CASE Signal({target[h]})
    BY <2>2 DEF Signal, Asleep, TypeOK
  <2>3. CASE UNCHANGED signalled
    BY <2>3 DEF TypeOK
  <2> QED
    BY <2>1, <2>2, <2>3
<1>2. TypeOK'
  BY <1>0, <1>1 DEF TypeOK, HelperNotifies, Go, Places
<1>3. h \in All /\ pc'[h] = "leaving" /\ \A u \in All : u # h => pc'[u] = pc[u]
  BY <1>0 DEF Go, TypeOK, All
<1>4. MutualExclusion' /\ Counts'
  BY <1>0, <1>3 DEF MutualExclusion, Counts, Inside
<1>5. QueuesExact'
  BY <1>0, <1>3, QueuesKept
<1>6. NotifyNotLost' /\ NoSleeperForgotten'
  BY <1>0, <1>1, <1>3 DEF NotifyNotLost, NoSleeperForgotten, All
<1> QED
  BY <1>2, <1>4, <1>5, <1>6

-----------------------------------------------------------------------------
(* Every step keeps the invariant. *)
LEMMA NextIInv == IInv /\ [Next]_vars => IInv'
<1> SUFFICES ASSUME IInv, [Next]_vars PROVE IInv'
  OBVIOUS
<1>1. ASSUME NEW t \in All, Entering(t) \/ Leaving(t) \/ Spurious(t)
      PROVE  IInv'
  BY <1>1, TryEnterStep, EnterOrBlockStep, UnblockedStep, ExitMonitorStep, ReleaseStep,
     SpuriousStep DEF Entering, Leaving
<1>2. ASSUME NEW t \in Threads,
             \/ EnterMonitor(t) \/ TryEnterMonitor(t) \/ EnterAgain(t)
             \/ WaitInterrupted(t) \/ TestInterrupted(t)
             \/ \E timed \in BOOLEAN : WaitOnMonitor(t, timed)
             \/ Waiting(t) \/ NotifyWaiter(t) \/ NotifyAllWaiters(t) \/ Interrupt(t)
      PROVE  IInv'
  <2>1. t \in All
    BY DEF All
  <2> QED
    BY <1>2, <2>1, EnterMonitorStep, TryEnterMonitorStep, EnterAgainStep, WaitInterruptedStep,
       TestInterruptedStep, WaitOnMonitorStep, GiveUpLockStep, QueueUpStep, WakesStep,
       TimesOutStep, NotifyStep, InterruptStep DEF Waiting
<1>3. ASSUME NEW h \in Helpers, Helping(h)
      PROVE  IInv'
  BY <1>3, HelperStartsStep, HelperChecksStep, HelperNotifiesStep DEF Helping
<1>4. CASE UNCHANGED vars
  <2>1. UNCHANGED <<pc, lock, mutex, owner, count, blocking, waiting, signalled, isWaiting, notified,
                    interrupted, timerSet, saved, helper, target, canceled>>
    BY <1>4 DEF vars, monitor, flags, helping
  <2>2. TypeOK' /\ QueuesExact'
    BY <2>1 DEF IInv, TypeOK, QueuesExact
  <2>3. MutualExclusion' /\ Counts' /\ NotifyNotLost' /\ NoSleeperForgotten'
    BY <2>1 DEF IInv, MutualExclusion, Inside, Counts, NotifyNotLost, NoSleeperForgotten
  <2> QED
    BY <2>2, <2>3 DEF IInv
<1> QED
  BY <1>1, <1>2, <1>3, <1>4 DEF Next

(* The inductive invariant holds in every state of the monitor code. *)
THEOREM ThreadingInvariant == Spec => []IInv
  BY InitIInv, NextIInv, PTL DEF Spec

(***************************************************************************)
(* The monitor's fields, the queues and the threads' flags of Threading    *)
(* keep values of their types.                                             *)
(***************************************************************************)
THEOREM TypeCorrect == Spec => []TypeOK
<1>1. IInv => TypeOK
  BY DEF IInv
<1> QED
  BY <1>1, ThreadingInvariant, PTL

(***************************************************************************)
(* One thread at a time is between doMonitorEnter and the release of the   *)
(* lock, for any number of threads and interruption threads.               *)
(***************************************************************************)
THEOREM MonitorExcludes == Spec => []MutualExclusion
<1>1. IInv => MutualExclusion
  BY DEF IInv
<1> QED
  BY <1>1, ThreadingInvariant, PTL

(***************************************************************************)
(* A thread blocked in doMonitorEnter is woken whenever the lock is given  *)
(* back, by an exit or by a wait.                                          *)
(***************************************************************************)
THEOREM SleepersWoken == Spec => []NoSleeperForgotten
<1>1. IInv => NoSleeperForgotten
  BY DEF IInv
<1> QED
  BY <1>1, ThreadingInvariant, PTL

(***************************************************************************)
(* doNotifyThread marks only a thread that sleeps, and that thread wakes.  *)
(***************************************************************************)
THEOREM NotificationsArrive == Spec => []NotifyNotLost
<1>1. IInv => NotifyNotLost
  BY DEF IInv
<1> QED
  BY <1>1, ThreadingInvariant, PTL

-----------------------------------------------------------------------------
(***************************************************************************)
(* The implementation of Monitor.  It needs to know which threads are in a *)
(* wait: the local count of doWaitOnMonitor lives from the moment the      *)
(* monitor is given up to the moment it is taken again, and the flag       *)
(* waiting is up only before and while a thread sleeps; a thread about to  *)
(* queue keeps the mutex.                                                  *)
(***************************************************************************)
WaitState ==
    /\ \A t \in All : pc[t] \in {"giveup", "queue", "asleep"} => saved[t] # 0
    /\ \A t \in All : saved[t] # 0 =>
          pc[t] \in {"giveup", "queue", "asleep", "try", "slow", "blocked"}
    /\ \A t \in Threads : isWaiting[t] => pc[t] \in {"giveup", "queue", "asleep"}
    /\ \A t \in Threads : pc[t] = "giveup" => isWaiting[t]
    /\ \A t \in All : pc[t] = "queue" => mutex = t

(* In the beginning nobody waits. *)
LEMMA InitWaitState == Init => WaitState
  BY DEF Init, WaitState, All

(* A thread that moves outside the wait, nobody else being touched. *)
LEMMA WaitStateMove ==
    ASSUME IInv, WaitState, NEW t \in All, NEW p, Go(t, p),
           pc[t] \notin {"giveup", "queue", "asleep"}, p \notin {"giveup", "queue", "asleep"},
           pc[t] \in {"try", "slow", "blocked"} => p \in {"try", "slow", "blocked"},
           UNCHANGED <<saved, isWaiting, mutex>>
    PROVE  WaitState'
<1>1. pc'[t] = p /\ \A u \in All : u # t => pc'[u] = pc[u]
  BY DEF Go, IInv, TypeOK
<1> QED
  BY <1>1 DEF WaitState, All

(* A thread that takes the lock has left its wait. *)
LEMMA WaitStateGets ==
    ASSUME IInv, WaitState, NEW t \in All, Gets(t), pc[t] \in {"idle", "try", "slow"},
           UNCHANGED <<isWaiting, mutex>>
    PROVE  WaitState'
<1>1. pc'[t] \in {"inside", "owner"} /\ \A u \in All : u # t => pc'[u] = pc[u]
  BY DEF Gets, Go, IInv, TypeOK
<1>2. saved'[t] = 0 /\ \A u \in All : u # t => saved'[u] = saved[u]
  BY DEF Gets, IInv, TypeOK
<1> QED
  BY <1>1, <1>2 DEF WaitState, All

(* A thread whose wait ends keeps its count until it has the lock. *)
LEMMA WaitStateEnds ==
    ASSUME IInv, WaitState, NEW t \in Threads, pc[t] = "asleep", WaitEnds(t)
    PROVE  WaitState'
<1>1. pc'[t] = "try" /\ \A u \in All : u # t => pc'[u] = pc[u]
  BY DEF WaitEnds, Go, IInv, TypeOK, All
<1>2. ~isWaiting'[t] /\ \A u \in Threads : u # t => isWaiting'[u] = isWaiting[u]
  BY DEF WaitEnds, IInv, TypeOK
<1> QED
  BY <1>1, <1>2 DEF WaitState, WaitEnds, All

(* Only the owner or a helper inside takes the flag down, when nobody is at giveup. *)
LEMMA WaitStateFlags ==
    ASSUME IInv, WaitState, NEW u \in All, Inside(u), pc[u] # "giveup", UNCHANGED <<saved, mutex>>,
           \A t \in All : pc'[t] = pc[t] \/ t = u, pc'[u] \in {pc[u], "leaving"},
           \A t \in Threads : isWaiting'[t] => isWaiting[t]
    PROVE  WaitState'
<1>1. \A t \in All : pc[t] # "giveup"
  BY Alone DEF IInv, Inside
<1>2. \A t \in All : pc'[t] # pc[t] =>
         t = u /\ pc'[t] = "leaving" /\ saved[t] = 0 /\ pc[t] \notin {"queue", "asleep"}
  BY DEF Inside, WaitState
<1> QED
  BY <1>1, <1>2 DEF WaitState, Inside, All

(* Every step keeps WaitState. *)
LEMMA NextWaitState == IInv /\ WaitState /\ [Next]_vars => WaitState'
<1> SUFFICES ASSUME IInv, WaitState, [Next]_vars PROVE WaitState'
  OBVIOUS
<1>1. ASSUME NEW t \in All, TryEnter(t) PROVE WaitState'
  BY <1>1, WaitStateGets, WaitStateMove DEF TryEnter, flags
<1>2. ASSUME NEW t \in All, EnterOrBlock(t) PROVE WaitState'
  BY <1>2, WaitStateGets, WaitStateMove DEF EnterOrBlock, flags
<1>3. ASSUME NEW t \in All, Unblocked(t) PROVE WaitState'
  BY <1>3, WaitStateMove DEF Unblocked, flags
<1>4. ASSUME NEW t \in All, ExitMonitor(t) PROVE WaitState'
  <2>1. CASE count = 1
    BY <1>4, <2>1, WaitStateMove DEF ExitMonitor, flags
  <2>2. CASE count # 1
    BY <1>4, <2>2 DEF ExitMonitor, flags, WaitState
  <2> QED
    BY <2>1, <2>2
<1>5. ASSUME NEW t \in All, Release(t) PROVE WaitState'
  <2> DEFINE p == IF t \in Helpers THEN "dead" ELSE "idle"
  <2>1. Go(t, p) /\ p \in {"dead", "idle"} /\ pc[t] = "release" /\ UNCHANGED <<saved, isWaiting, mutex>>
    BY <1>5 DEF Release, flags
  <2> HIDE DEF p
  <2> QED
    BY <2>1, WaitStateMove
<1>6. ASSUME NEW t \in All, Spurious(t) PROVE WaitState'
  BY <1>6 DEF Spurious, flags, monitor, WaitState
<1>7. ASSUME NEW t \in Threads, EnterMonitor(t) \/ TryEnterMonitor(t) \/ EnterAgain(t)
      PROVE  WaitState'
  <2>0. t \in All
    BY DEF All
  <2>1. CASE EnterMonitor(t)
    BY <2>0, <2>1, WaitStateMove DEF EnterMonitor, flags, monitor
  <2>2. CASE TryEnterMonitor(t)
    BY <2>0, <2>2, WaitStateGets DEF TryEnterMonitor, flags
  <2>3. CASE EnterAgain(t)
    BY <2>3 DEF EnterAgain, flags, WaitState
  <2> QED
    BY <1>7, <2>1, <2>2, <2>3
<1>8. ASSUME NEW t \in Threads, WaitInterrupted(t) \/ TestInterrupted(t) PROVE WaitState'
  BY <1>8 DEF WaitInterrupted, TestInterrupted, monitor, WaitState
<1>9. ASSUME NEW t \in Threads, NEW timed \in BOOLEAN, WaitOnMonitor(t, timed) PROVE WaitState'
  <2>1. count # 0
    BY <1>9 DEF WaitOnMonitor, IInv, Counts, All, TypeOK
  <2>2. pc'[t] = "giveup" /\ \A u \in All : u # t => pc'[u] = pc[u]
    BY <1>9 DEF WaitOnMonitor, Go, IInv, TypeOK, All
  <2>3. saved'[t] = count /\ \A u \in All : u # t => saved'[u] = saved[u]
    BY <1>9 DEF WaitOnMonitor, IInv, TypeOK, All
  <2>4. isWaiting'[t] /\ \A u \in Threads : u # t => isWaiting'[u] = isWaiting[u]
    BY <1>9 DEF WaitOnMonitor, IInv, TypeOK
  <2>5. mutex' = mutex
    BY <1>9 DEF WaitOnMonitor
  <2> QED
    BY <2>1, <2>2, <2>3, <2>4, <2>5 DEF WaitState, All
<1>10. ASSUME NEW t \in Threads, GiveUpLock(t) \/ QueueUp(t) PROVE WaitState'
  <2>0. Nobody \notin All /\ t \in All
    BY ThreadingAssumption DEF All, Nobody
  <2>1. /\ pc[t] \in {"giveup", "queue"} /\ pc'[t] \in {"queue", "asleep"}
        /\ \A u \in All : u # t => pc'[u] = pc[u]
    BY <1>10 DEF GiveUpLock, QueueUp, Go, IInv, TypeOK, All
  <2>2. UNCHANGED <<saved, isWaiting>>
    BY <1>10 DEF GiveUpLock, QueueUp, flags
  <2>3. \A u \in All : u # t => pc'[u] # "queue"
    BY <1>10, <2>0, <2>1 DEF GiveUpLock, QueueUp, WaitState
  <2>4. pc'[t] = "queue" => mutex' = t
    BY <1>10, <2>0 DEF GiveUpLock, QueueUp, Go, IInv, TypeOK
  <2> QED
    BY <2>1, <2>2, <2>3, <2>4 DEF WaitState, All
<1>11. ASSUME NEW t \in Threads, Wakes(t) \/ TimesOut(t) PROVE WaitState'
  <2>1. CASE WaitEnds(t)
    BY <1>11, <2>1, WaitStateEnds DEF Wakes, TimesOut
  <2>2. CASE ~WaitEnds(t)
    BY <1>11, <2>2 DEF Wakes, TimesOut, flags, monitor, WaitState
  <2> QED
    BY <2>1, <2>2
<1>12. ASSUME NEW t \in Threads, NEW ts, NotifyThreads(t, ts) PROVE WaitState'
  <2>1. t \in All /\ Inside(t) /\ pc[t] = "owner"
    BY <1>12 DEF NotifyThreads, Inside, All
  <2>2. \A u \in Threads : isWaiting'[u] => isWaiting[u]
    BY <1>12 DEF NotifyThreads
  <2> QED
    BY <1>12, <2>1, <2>2, WaitStateFlags DEF NotifyThreads, monitor
<1>13. ASSUME NEW t \in Threads, Interrupt(t) PROVE WaitState'
  <2>1. CASE isWaiting[t]
    <3>1. PICK h \in Helpers : pc[h] = "unborn" /\ Go(h, "born")
      BY <1>13, <2>1 DEF Interrupt
    <3> QED
      BY <1>13, <3>1, WaitStateMove DEF Interrupt, monitor, All
  <2>2. CASE ~isWaiting[t]
    BY <1>13, <2>2 DEF Interrupt, monitor, WaitState
  <2> QED
    BY <2>1, <2>2
<1>14. ASSUME NEW h \in Helpers, HelperStarts(h) \/ HelperChecks(h) PROVE WaitState'
  <2>1. \E p \in {"dead", "try", "notify"} : Go(h, p)
    BY <1>14 DEF HelperStarts, HelperChecks
  <2>2. pc[h] \in {"born", "inside"} /\ UNCHANGED <<saved, isWaiting, mutex>> /\ h \in All
    BY <1>14 DEF HelperStarts, HelperChecks, flags, monitor, All
  <2> QED
    BY <2>1, <2>2, WaitStateMove
<1>15. ASSUME NEW h \in Helpers, HelperNotifies(h) PROVE WaitState'
  <2>1. h \in All /\ Inside(h) /\ pc[h] = "notify" /\ UNCHANGED <<saved, mutex>> /\ Go(h, "leaving")
    BY <1>15 DEF HelperNotifies, Inside, All, monitor
  <2>2. pc'[h] = "leaving" /\ \A u \in All : u # h => pc'[u] = pc[u]
    BY <2>1 DEF Go, IInv, TypeOK
  <2>3. \A u \in Threads : isWaiting'[u] => isWaiting[u]
    BY <1>15 DEF HelperNotifies, IInv, TypeOK
  <2> QED
    BY <2>1, <2>2, <2>3, WaitStateFlags
<1>16. CASE UNCHANGED vars
  BY <1>16 DEF vars, flags, monitor, WaitState
<1> QED
  BY <1>1, <1>2, <1>3, <1>4, <1>5, <1>6, <1>7, <1>8, <1>9, <1>10, <1>11, <1>12, <1>13, <1>14,
     <1>15, <1>16
  DEF Next, Entering, Leaving, Waiting, Helping, NotifyWaiter, NotifyAllWaiters

-----------------------------------------------------------------------------
(* Steps the abstract monitor does not see. *)
LEMMA UnseenLemma ==
    ASSUME IInv, IInv', UNCHANGED <<lock, count, saved, isWaiting>>,
           \A u \in All : /\ (pc'[u] = "release") = (pc[u] = "release")
                          /\ (pc'[u] = "giveup") = (pc[u] = "giveup")
                          /\ u \in Threads /\ isWaiting[u] =>
                                (pc'[u] \in {"queue", "asleep"}) = (pc[u] \in {"queue", "asleep"})
    PROVE  UNCHANGED M!vars
<1>1. lock \in All \cup {Nobody}
  BY DEF IInv, TypeOK
<1>2. AbstractDepth' = AbstractDepth
  BY <1>1 DEF AbstractDepth
<1>3. AbstractPlace' = AbstractPlace
  BY DEF AbstractPlace
<1>4. AbstractSaved' = AbstractSaved
  BY DEF AbstractSaved
<1> QED
  BY <1>2, <1>3, <1>4 DEF M!vars

(* A thread changes its place, unseen. *)
LEMMA UnseenMove ==
    ASSUME IInv, IInv', WaitState, NEW t \in All, NEW p, Go(t, p),
           pc[t] \notin {"release", "giveup", "queue", "asleep"},
           p \notin {"release", "giveup", "queue", "asleep"},
           UNCHANGED <<lock, count, saved, isWaiting>>
    PROVE  UNCHANGED M!vars
<1>1. pc'[t] = p /\ \A u \in All : u # t => pc'[u] = pc[u]
  BY DEF Go, IInv, TypeOK
<1> QED
  BY <1>1, UnseenLemma

(* Taking the lock is Enter, or Return for a thread back from its wait. *)
LEMMA GetsRefines ==
    ASSUME IInv, IInv', WaitState, NEW t \in All, lock = Nobody, Gets(t),
           pc[t] \in {"idle", "try", "slow"}, UNCHANGED isWaiting
    PROVE  M!Next
<1>0. t # Nobody
  BY ThreadingAssumption DEF All, Nobody
<1>1. pc'[t] \in {"inside", "owner"} /\ \A u \in All : u # t => pc'[u] = pc[u]
  BY DEF Gets, Go, IInv, TypeOK
<1>2. saved'[t] = 0 /\ \A u \in All : u # t => saved'[u] = saved[u]
  BY DEF Gets, IInv, TypeOK
<1>3. lock' = t /\ AbstractDepth' = count' /\ count' = IF saved[t] = 0 THEN 1 ELSE saved[t]
  BY <1>0, <1>1 DEF Gets, AbstractDepth
<1>4. t \in Threads => ~isWaiting[t]
  BY DEF WaitState
<1>5. CASE saved[t] = 0
  <2>1. AbstractPlace[t] = "out"
    BY <1>5 DEF AbstractPlace
  <2>2. AbstractPlace' = AbstractPlace
    BY <1>1, <1>2, <1>4, <1>5 DEF AbstractPlace
  <2>3. AbstractSaved' = AbstractSaved
    BY <1>1, <1>2, <1>5 DEF AbstractSaved
  <2>4. M!Enter(t)
    BY <1>3, <1>5, <2>1, <2>2, <2>3 DEF M!Enter
  <2> QED
    BY <2>4 DEF M!Next
<1>6. CASE saved[t] # 0
  <2>1. AbstractPlace[t] = "back" /\ AbstractSaved[t] = saved[t]
    BY <1>4, <1>6 DEF AbstractPlace, AbstractSaved
  <2>2. AbstractPlace' = [AbstractPlace EXCEPT ![t] = "out"]
    BY <1>1, <1>2, <1>4 DEF AbstractPlace
  <2>3. AbstractSaved' = [AbstractSaved EXCEPT ![t] = 0]
    BY <1>1, <1>2 DEF AbstractSaved
  <2>4. M!Return(t)
    BY <1>3, <1>6, <2>1, <2>2, <2>3 DEF M!Return
  <2> QED
    BY <2>4 DEF M!Next
<1> QED
  BY <1>5, <1>6

(* The end of a wait nobody notified is GiveUp, of any other unseen. *)
LEMMA WaitEndsRefines ==
    ASSUME IInv, IInv', WaitState, NEW t \in Threads, pc[t] = "asleep", WaitEnds(t)
    PROVE  M!Next \/ UNCHANGED M!vars
<1>1. t \in All /\ pc'[t] = "try" /\ \A u \in All : u # t => pc'[u] = pc[u]
  BY DEF WaitEnds, Go, IInv, TypeOK, All
<1>2. ~isWaiting'[t] /\ \A u \in Threads : u # t => isWaiting'[u] = isWaiting[u]
  BY DEF WaitEnds, IInv, TypeOK
<1>3. UNCHANGED <<lock, count, saved>> /\ lock \in All \cup {Nobody} /\ saved[t] # 0
  BY <1>1 DEF WaitEnds, IInv, TypeOK, WaitState
<1>4. AbstractDepth' = AbstractDepth /\ AbstractSaved' = AbstractSaved
  BY <1>1, <1>3 DEF AbstractDepth, AbstractSaved
<1>5. AbstractPlace' = [AbstractPlace EXCEPT ![t] = "back"]
  BY <1>1, <1>2, <1>3 DEF AbstractPlace
<1>6. CASE isWaiting[t]
  <2>1. AbstractPlace[t] = "waiting"
    BY <1>1, <1>6 DEF AbstractPlace
  <2>2. M!GiveUp(t)
    BY <1>3, <1>4, <1>5, <2>1 DEF M!GiveUp
  <2> QED
    BY <1>1, <2>2 DEF M!Next
<1>7. CASE ~isWaiting[t]
  <2>1. AbstractPlace' = AbstractPlace
    BY <1>1, <1>2, <1>3, <1>7 DEF AbstractPlace
  <2> QED
    BY <1>3, <1>4, <2>1 DEF M!vars
<1> QED
  BY <1>6, <1>7

(* Exit: seen at each level but the last, whose effect shows with the release. *)
LEMMA ExitRefines ==
    ASSUME IInv, IInv', WaitState, NEW t \in All, ExitMonitor(t)
    PROVE  M!Next \/ UNCHANGED M!vars
<1>0. /\ lock = t /\ t # Nobody /\ count \in Nat /\ Inside(t)
      /\ UNCHANGED <<saved, isWaiting, lock>>
  BY ThreadingAssumption DEF ExitMonitor, IInv, MutualExclusion, Inside, TypeOK, All, Nobody, flags
<1>1. AbstractDepth = count
  BY <1>0 DEF ExitMonitor, AbstractDepth
<1>2. CASE count = 1
  <2>1. pc'[t] = "release" /\ \A u \in All : u # t => pc'[u] = pc[u]
    BY <1>2 DEF ExitMonitor, Go, IInv, TypeOK
  <2>2. AbstractDepth' = 1
    BY <1>0, <2>1 DEF AbstractDepth
  <2>3. AbstractPlace' = AbstractPlace /\ AbstractSaved' = AbstractSaved
    BY <1>0, <2>1 DEF AbstractPlace, AbstractSaved, ExitMonitor
  <2> QED
    BY <1>0, <1>1, <1>2, <2>2, <2>3 DEF M!vars
<1>3. CASE count # 1
  <2>1. pc' = pc /\ count' = count - 1
    BY <1>3 DEF ExitMonitor
  <2>2. AbstractDepth' = count - 1
    BY <1>0, <2>1 DEF AbstractDepth, ExitMonitor
  <2>3. AbstractPlace' = AbstractPlace /\ AbstractSaved' = AbstractSaved
    BY <1>0, <2>1 DEF AbstractPlace, AbstractSaved
  <2>4. M!Exit(t)
    BY <1>0, <1>1, <1>3, <2>2, <2>3 DEF M!Exit
  <2> QED
    BY <2>4 DEF M!Next
<1> QED
  BY <1>2, <1>3

(* The release of the lock is the last Exit. *)
LEMMA ReleaseRefines ==
    ASSUME IInv, IInv', WaitState, NEW t \in All, Release(t)
    PROVE  M!Next
<1>0. lock = t /\ t # Nobody /\ pc[t] = "release" /\ lock' = Nobody /\ UNCHANGED <<saved, isWaiting>>
  BY ThreadingAssumption DEF Release, IInv, MutualExclusion, Inside, All, Nobody, flags
<1>1. AbstractDepth = 1 /\ AbstractDepth' = 0
  BY <1>0 DEF AbstractDepth
<1>2. pc'[t] \in {"dead", "idle"} /\ \A u \in All : u # t => pc'[u] = pc[u]
  BY DEF Release, Go, IInv, TypeOK
<1>3. AbstractPlace' = AbstractPlace /\ AbstractSaved' = AbstractSaved
  BY <1>0, <1>2 DEF AbstractPlace, AbstractSaved
<1>4. M!Exit(t)
  BY <1>0, <1>1, <1>3 DEF M!Exit
<1> QED
  BY <1>4 DEF M!Next

(* Giving the lock up in doWaitOnMonitor is Wait. *)
LEMMA GiveUpLockRefines ==
    ASSUME IInv, IInv', WaitState, NEW t \in Threads, GiveUpLock(t)
    PROVE  M!Next
<1>0. /\ t \in All /\ lock = t /\ t # Nobody /\ pc[t] = "giveup" /\ lock' = Nobody
      /\ UNCHANGED <<saved, isWaiting>> /\ isWaiting[t]
  BY ThreadingAssumption DEF GiveUpLock, IInv, MutualExclusion, Inside, All, Nobody, flags, WaitState
<1>1. AbstractDepth = saved[t] /\ AbstractDepth' = 0
  BY <1>0 DEF AbstractDepth
<1>2. pc'[t] = "queue" /\ \A u \in All : u # t => pc'[u] = pc[u]
  BY <1>0 DEF GiveUpLock, Go, IInv, TypeOK
<1>3. AbstractPlace' = [AbstractPlace EXCEPT ![t] = "waiting"]
  BY <1>0, <1>2 DEF AbstractPlace
<1>4. AbstractSaved' = [AbstractSaved EXCEPT ![t] = saved[t]]
  BY <1>0, <1>2 DEF AbstractSaved
<1>5. M!Wait(t)
  BY <1>0, <1>1, <1>3, <1>4 DEF M!Wait
<1> QED
  BY <1>0, <1>5 DEF M!Next

(* What a notification, of one thread or of all, does to the abstract places. *)
LEMMA NotifyPlaces ==
    ASSUME IInv, IInv', WaitState, NEW t \in Threads, NEW ts, ts \subseteq ToSet(waiting),
           NotifyThreads(t, ts), \A u \in ts : isWaiting[u]
    PROVE  /\ t \in All /\ lock = t /\ UNCHANGED <<lock, AbstractDepth, AbstractSaved>>
           /\ \A u \in ts : u \in All /\ AbstractPlace[u] = "waiting"
           /\ AbstractPlace' = [u \in All |-> IF u \in ts THEN "back" ELSE AbstractPlace[u]]
<1>0. t \in All /\ lock = t /\ UNCHANGED <<pc, lock, count, saved>>
  BY DEF NotifyThreads, IInv, MutualExclusion, Inside, All, monitor
<1>1. \A u \in ts : u \in Threads /\ u \in All /\ pc[u] = "asleep" /\ saved[u] # 0
  BY DEF IInv, QueuesExact, WaitState, All
<1>2. UNCHANGED <<AbstractDepth, AbstractSaved>>
  BY <1>0 DEF AbstractDepth, AbstractSaved
<1>3. \A u \in ts : AbstractPlace[u] = "waiting"
  BY <1>1 DEF AbstractPlace
<1>4. \A u \in Threads : isWaiting'[u] = (isWaiting[u] /\ u \notin ts)
  BY DEF NotifyThreads
<1>5. AbstractPlace' = [u \in All |-> IF u \in ts THEN "back" ELSE AbstractPlace[u]]
  BY <1>0, <1>1, <1>4 DEF AbstractPlace
<1> QED
  BY <1>0, <1>1, <1>2, <1>3, <1>5

(* notifyWaiter is Notify, or unseen when nobody waits. *)
LEMMA NotifyWaiterRefines ==
    ASSUME IInv, IInv', WaitState, NEW t \in Threads, NotifyWaiter(t)
    PROVE  M!Next \/ UNCHANGED M!vars
<1> DEFINE ts == FirstOf(Notifiable)
<1>1. NotifyThreads(t, ts)
  BY DEF NotifyWaiter
<1>2. ts \subseteq ToSet(waiting) /\ \A u \in ts : isWaiting[u]
  BY DEF FirstOf, Notifiable, ToSet, IInv, TypeOK
<1>3. \A u, v \in ts : u = v
  <2> SUFFICES ASSUME NEW u \in ts, NEW v \in ts PROVE u = v
    OBVIOUS
  <2>1. PICK i \in Notifiable : u = waiting[i] /\ \A k \in Notifiable : i <= k
    BY DEF FirstOf
  <2>2. PICK j \in Notifiable : v = waiting[j] /\ \A k \in Notifiable : j <= k
    BY DEF FirstOf
  <2>3. i \in Nat /\ j \in Nat /\ i <= j /\ j <= i
    BY <2>1, <2>2, SMTT(60) DEF Notifiable, IInv, TypeOK
  <2> QED
    BY <2>1, <2>2, <2>3
<1> HIDE DEF ts
<1>4. /\ t \in All /\ lock = t /\ UNCHANGED <<lock, AbstractDepth, AbstractSaved>>
      /\ \A u \in ts : u \in All /\ AbstractPlace[u] = "waiting"
      /\ AbstractPlace' = [u \in All |-> IF u \in ts THEN "back" ELSE AbstractPlace[u]]
  BY <1>1, <1>2, NotifyPlaces
<1>5. CASE ts = {}
  <2>1. AbstractPlace' = AbstractPlace
    BY <1>4, <1>5 DEF AbstractPlace
  <2> QED
    BY <1>4, <2>1 DEF M!vars
<1>6. CASE ts # {}
  <2>1. PICK w \in ts : TRUE
    BY <1>6
  <2>2. w \in M!Waiters
    BY <1>4 DEF M!Waiters
  <2>3. AbstractPlace' = [AbstractPlace EXCEPT ![w] = "back"]
    BY <1>3, <1>4 DEF AbstractPlace
  <2>4. M!Notify(t)
    BY <1>4, <2>2, <2>3 DEF M!Notify
  <2> QED
    BY <1>4, <2>4 DEF M!Next
<1> QED
  BY <1>5, <1>6

(* notifyAllWaiters is NotifyAll: no waiter can be between lock and queue. *)
LEMMA NotifyAllRefines ==
    ASSUME IInv, IInv', WaitState, NEW t \in Threads, NotifyAllWaiters(t)
    PROVE  M!Next \/ UNCHANGED M!vars
<1> DEFINE ts == {waiting[i] : i \in Notifiable}
<1>1. NotifyThreads(t, ts)
  BY DEF NotifyAllWaiters
<1>2. ts \subseteq ToSet(waiting) /\ \A u \in ts : isWaiting[u]
  BY DEF Notifiable, ToSet, IInv, TypeOK
<1>3. \A u \in Threads : pc[u] = "asleep" /\ isWaiting[u] => u \in ts
  BY DEF Notifiable, IInv, QueuesExact, ToSet
<1> HIDE DEF ts
<1>4. /\ t \in All /\ lock = t /\ UNCHANGED <<lock, AbstractDepth, AbstractSaved>>
      /\ \A u \in ts : u \in All /\ AbstractPlace[u] = "waiting"
      /\ AbstractPlace' = [u \in All |-> IF u \in ts THEN "back" ELSE AbstractPlace[u]]
  BY <1>1, <1>2, NotifyPlaces
<1>5. \A u \in All : u \in ts <=> AbstractPlace[u] = "waiting"
  <2>1. ASSUME NEW u \in All, AbstractPlace[u] = "waiting" PROVE u \in ts
    <3>1. u \in Threads /\ isWaiting[u] /\ pc[u] \in {"queue", "asleep"}
      BY <2>1 DEF AbstractPlace
    <3>2. pc[u] # "queue"
      BY <1>1, ThreadingAssumption DEF NotifyThreads, WaitState, All, Nobody
    <3> QED
      BY <1>3, <3>1, <3>2
  <2> QED
    BY <1>4, <2>1
<1>6. AbstractPlace' = [u \in All |-> IF AbstractPlace[u] = "waiting" THEN "back" ELSE AbstractPlace[u]]
  BY <1>4, <1>5
<1>7. M!NotifyAll(t)
  BY <1>4, <1>6 DEF M!NotifyAll
<1> QED
  BY <1>4, <1>7 DEF M!Next

(* A helper that finds its target waiting makes it give up. *)
LEMMA HelperRefines ==
    ASSUME IInv, IInv', WaitState, NEW h \in Helpers, HelperNotifies(h)
    PROVE  M!Next \/ UNCHANGED M!vars
<1> DEFINE t == target[h]
<1>0. /\ h \in All /\ pc[h] = "notify" /\ Inside(h) /\ Go(h, "leaving")
      /\ UNCHANGED <<lock, count, saved>> /\ lock \in All \cup {Nobody}
  BY DEF HelperNotifies, Inside, All, monitor, IInv, TypeOK
<1>1. CASE t \in Threads /\ helper[t] = h /\ isWaiting[t]
  <2>1. /\ t \in All /\ pc[t] \in {"queue", "asleep"} /\ saved[t] # 0
    BY <1>0, <1>1, Alone DEF WaitState, All, Inside, IInv
  <2>2. ~isWaiting'[t] /\ \A u \in Threads : u # t => isWaiting'[u] = isWaiting[u]
    BY <1>1 DEF HelperNotifies, IInv, TypeOK
  <2> HIDE DEF t
  <2>3. pc'[h] = "leaving" /\ \A u \in All : u # h => pc'[u] = pc[u]
    BY <1>0 DEF Go, IInv, TypeOK
  <2>4. h # t
    BY <1>0, <2>1
  <2>5. AbstractDepth' = AbstractDepth /\ AbstractSaved' = AbstractSaved
    BY <1>0, <2>3 DEF AbstractDepth, AbstractSaved
  <2>6. AbstractPlace[t] = "waiting"
    BY <1>1, <2>1 DEF AbstractPlace
  <2>7. AbstractPlace' = [AbstractPlace EXCEPT ![t] = "back"]
    BY <1>0, <1>1, <2>1, <2>2, <2>3, <2>4 DEF AbstractPlace, WaitState
  <2>8. M!GiveUp(t)
    BY <1>0, <2>5, <2>6, <2>7 DEF M!GiveUp
  <2> QED
    BY <2>1, <2>8 DEF M!Next
<1>2. CASE ~(t \in Threads /\ helper[t] = h /\ isWaiting[t])
  <2>1. isWaiting' = isWaiting
    BY <1>2 DEF HelperNotifies, IInv, TypeOK
  <2> QED
    BY <1>0, <2>1, UnseenMove
<1> QED
  BY <1>1, <1>2

(* Every step is a step of Monitor or unseen by it. *)
LEMMA NextRefines == IInv /\ IInv' /\ WaitState /\ [Next]_vars => [M!Next]_(M!vars)
<1> SUFFICES ASSUME IInv, IInv', WaitState, [Next]_vars PROVE M!Next \/ UNCHANGED M!vars
  OBVIOUS
<1>1. ASSUME NEW t \in All, TryEnter(t) PROVE M!Next \/ UNCHANGED M!vars
  <2>1. CASE lock = Nobody
    BY <1>1, <2>1, GetsRefines DEF TryEnter, flags
  <2>2. CASE lock # Nobody
    BY <1>1, <2>2, UnseenMove DEF TryEnter, flags
  <2> QED
    BY <2>1, <2>2
<1>2. ASSUME NEW t \in All, EnterOrBlock(t) PROVE M!Next \/ UNCHANGED M!vars
  <2>1. CASE lock = Nobody
    BY <1>2, <2>1, GetsRefines DEF EnterOrBlock, flags
  <2>2. CASE lock # Nobody
    BY <1>2, <2>2, UnseenMove DEF EnterOrBlock, flags
  <2> QED
    BY <2>1, <2>2
<1>3. ASSUME NEW t \in All, Unblocked(t) PROVE UNCHANGED M!vars
  BY <1>3, UnseenMove DEF Unblocked, flags
<1>4. ASSUME NEW t \in All, Spurious(t) PROVE UNCHANGED M!vars
  BY <1>4, UnseenLemma DEF Spurious, flags, monitor
<1>5. ASSUME NEW t \in Threads, EnterMonitor(t) \/ TryEnterMonitor(t) \/ EnterAgain(t)
      PROVE  M!Next \/ UNCHANGED M!vars
  <2>0. t \in All
    BY DEF All
  <2>1. CASE EnterMonitor(t)
    BY <2>0, <2>1, UnseenMove DEF EnterMonitor, flags, monitor
  <2>2. CASE TryEnterMonitor(t)
    BY <2>0, <2>2, GetsRefines DEF TryEnterMonitor, flags
  <2>3. CASE EnterAgain(t)
    <3>1. lock = t /\ t # Nobody /\ UNCHANGED <<pc, lock, saved, isWaiting>> /\ pc[t] = "owner"
      BY <2>0, <2>3, ThreadingAssumption
      DEF EnterAgain, IInv, MutualExclusion, Inside, All, Nobody, flags
    <3>2. AbstractDepth' = AbstractDepth + 1
      BY <2>3, <3>1 DEF AbstractDepth, EnterAgain
    <3>3. AbstractPlace' = AbstractPlace /\ AbstractSaved' = AbstractSaved
      BY <3>1 DEF AbstractPlace, AbstractSaved
    <3>4. M!EnterAgain(t)
      BY <3>1, <3>2, <3>3 DEF M!EnterAgain
    <3> QED
      BY <2>0, <3>4 DEF M!Next
  <2> QED
    BY <1>5, <2>1, <2>2, <2>3
<1>6. ASSUME NEW t \in Threads, WaitInterrupted(t) \/ TestInterrupted(t) PROVE UNCHANGED M!vars
  BY <1>6, UnseenLemma DEF WaitInterrupted, TestInterrupted, monitor
<1>7. ASSUME NEW t \in Threads, NEW timed \in BOOLEAN, WaitOnMonitor(t, timed)
      PROVE  UNCHANGED M!vars
  <2>0. t \in All /\ lock = t /\ t # Nobody /\ lock' = lock /\ pc[t] = "owner" /\ saved[t] = 0
    BY <1>7, ThreadingAssumption
    DEF WaitOnMonitor, IInv, MutualExclusion, Inside, All, Nobody, WaitState
  <2>1. pc'[t] = "giveup" /\ \A u \in All : u # t => pc'[u] = pc[u]
    BY <1>7, <2>0 DEF WaitOnMonitor, Go, IInv, TypeOK
  <2>2. saved'[t] = count /\ \A u \in All : u # t => saved'[u] = saved[u]
    BY <1>7, <2>0 DEF WaitOnMonitor, IInv, TypeOK
  <2>3. \A u \in Threads : u # t => isWaiting'[u] = isWaiting[u]
    BY <1>7 DEF WaitOnMonitor, IInv, TypeOK
  <2>4. AbstractDepth' = AbstractDepth
    BY <2>0, <2>1, <2>2 DEF AbstractDepth
  <2>5. AbstractPlace' = AbstractPlace
    BY <2>0, <2>1, <2>2, <2>3 DEF AbstractPlace
  <2>6. AbstractSaved' = AbstractSaved
    BY <2>0, <2>1, <2>2 DEF AbstractSaved
  <2> QED
    BY <2>0, <2>4, <2>5, <2>6 DEF M!vars
<1>8. ASSUME NEW t \in Threads, QueueUp(t) PROVE UNCHANGED M!vars
  <2>1. t \in All /\ pc[t] = "queue" /\ pc'[t] = "asleep" /\ \A u \in All : u # t => pc'[u] = pc[u]
    BY <1>8 DEF QueueUp, Go, IInv, TypeOK, All
  <2> QED
    BY <1>8, <2>1, UnseenLemma DEF QueueUp, flags
<1>9. ASSUME NEW t \in Threads, Wakes(t) \/ TimesOut(t) PROVE M!Next \/ UNCHANGED M!vars
  <2>1. CASE WaitEnds(t)
    BY <1>9, <2>1, WaitEndsRefines DEF Wakes, TimesOut
  <2>2. CASE ~WaitEnds(t)
    BY <1>9, <2>2, UnseenLemma DEF Wakes, TimesOut, flags, monitor
  <2> QED
    BY <2>1, <2>2
<1>10. ASSUME NEW t \in Threads, Interrupt(t) PROVE UNCHANGED M!vars
  <2>1. CASE isWaiting[t]
    <3>1. PICK h \in Helpers : pc[h] = "unborn" /\ Go(h, "born")
      BY <1>10, <2>1 DEF Interrupt
    <3> QED
      BY <1>10, <3>1, UnseenMove DEF Interrupt, monitor, All
  <2>2. CASE ~isWaiting[t]
    BY <1>10, <2>2, UnseenLemma DEF Interrupt, monitor
  <2> QED
    BY <2>1, <2>2
<1>11. ASSUME NEW h \in Helpers, HelperStarts(h) \/ HelperChecks(h) PROVE UNCHANGED M!vars
  <2>1. \E p \in {"dead", "try", "notify"} : Go(h, p)
    BY <1>11 DEF HelperStarts, HelperChecks
  <2>2. pc[h] \in {"born", "inside"} /\ UNCHANGED <<lock, count, saved, isWaiting>> /\ h \in All
    BY <1>11 DEF HelperStarts, HelperChecks, flags, monitor, All
  <2> QED
    BY <2>1, <2>2, UnseenMove
<1>12. CASE UNCHANGED vars
  BY <1>12, UnseenLemma DEF vars, flags, monitor
<1> QED
  BY <1>1, <1>2, <1>3, <1>4, <1>5, <1>6, <1>7, <1>8, <1>9, <1>10, <1>11, <1>12, ExitRefines,
     ReleaseRefines, GiveUpLockRefines, NotifyWaiterRefines, NotifyAllRefines, HelperRefines
  DEF Next, Entering, Leaving, Waiting, Helping

(* The initial state is a free monitor. *)
LEMMA InitRefines == Init => M!Init
<1> SUFFICES ASSUME Init PROVE M!Init
  OBVIOUS
<1>1. AbstractDepth = 0 /\ AbstractSaved = [u \in All |-> 0]
  BY DEF Init, AbstractDepth, AbstractSaved
<1>2. AbstractPlace = [u \in All |-> "out"]
  BY DEF Init, AbstractPlace
<1> QED
  BY <1>1, <1>2 DEF Init, M!Init

(***************************************************************************)
(* The monitors of Threading.cpp implement Monitor, which is what the      *)
(* synchronized blocks, waits and notifications of the library rely on,    *)
(* for any number of threads and interruption threads.                     *)
(***************************************************************************)
THEOREM MonitorImplemented == Spec => ImplementsMonitor
<1>1. IInv /\ WaitState /\ [Next]_vars => IInv' /\ WaitState'
  BY NextIInv, NextWaitState
<1>2. Init => M!Init /\ IInv /\ WaitState
  BY InitRefines, InitIInv, InitWaitState
<1> QED
  BY <1>1, <1>2, NextRefines, PTL DEF Spec, ImplementsMonitor, M!Spec
=============================================================================
