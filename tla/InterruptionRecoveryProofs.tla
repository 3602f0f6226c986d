-------------------- MODULE InterruptionRecoveryProofs --------------------
(***************************************************************************)
(* Theorems about InterruptionRecovery for any consumers and any number of *)
(* connections that break.                                                 *)
(***************************************************************************)
EXTENDS InterruptionRecovery, TLAPS, FiniteSetTheorems

(***************************************************************************)
(* The inductive invariant.  At its heart is SomebodySignals: while the    *)
(* tracker still waits for the signal, somebody is about to give it, or no *)
(* open consumer needs it, or the count is positive and stands for a set   *)
(* of consumers each of which has a flag that nobody has begun to clear.   *)
(* FlagHasTask says that such a flag has a task, so the count cannot stay  *)
(* above zero when all tasks have run.  The set is any that will do: a     *)
(* second interruption, or the reader, may clear a flag that the count was *)
(* not raised for.                                                         *)
(***************************************************************************)

(* In the middle of a clear or a signal. *)
Mid == {"unflag", "signal", "controls", "wipe"}

(* Flags of a consumer that nobody has begun to clear. *)
Pend(c) == IF chan[c] = None THEN flag[c] ELSE flag[c] - 1

(* The scheduler is about to clear the consumer. *)
Taken(c) == IF pc[Scheduler] = "clear" /\ target[Scheduler] = c THEN 1 ELSE 0

(* The interruption has flagged the consumer and not yet scheduled its task. *)
Half(c) == IF intr.cur = c THEN 1 ELSE 0

(* Who works on which consumer, and who has its channel's lock. *)
Places ==
    /\ pc[Sender] = "idle"
    /\ pc[Scheduler] \notin {"check", "lock", "dispatch"}
    /\ \A t \in Threads :
        /\ pc[t] # "idle" => target[t] \in Consumers
        /\ pc[t] = "unflag" \/ (t = Scheduler /\ pc[t] \in Mid) => chan[target[t]] = t
        /\ ctl[t] # {} => pc[t] = "controls"
    /\ \A c \in Consumers :
        chan[c] # None => pc[chan[c]] \in Mid /\ target[chan[c]] = c /\ flag[c] > 0

(* An interruption is under way only with the mutex and without a connection. *)
Interruption ==
    IF intr.by = None THEN intr.left = {} /\ intr.cur = None
                      ELSE owner = intr.by /\ ~connected

(* Nothing comes from a broken connection. *)
Broken ==
    /\ ~connected => ~alive
    /\ ~alive => /\ breaks > 0 /\ \A r \in Readers : ~held[r]
                 /\ \A c \in Consumers : ~fresh[c] /\ prefetch[c] = Unknown

(* A flag that nobody clears yet has a task. *)
FlagHasTask == \A c \in Consumers : Pend(c) <= tasks[c] + Taken(c) + Half(c)

(* The broker knows the tracked consumers only; one without prefetch is to get a control. *)
ToBeFed ==
    \A c \in Consumers :
        /\ prefetch[c] # Unknown => c \in Tracked
        /\ prefetch[c] = 0 => \/ ~complete /\ c \in stalled
                              \/ \E t \in Threads : c \in ctl[t]

(* A signal that was not raced finds no later interruption. *)
SignalHolds == ~raced /\ ~complete => \A t \in Threads : pc[t] \notin {"controls", "wipe"}

(* No open consumer waits for the recovery. *)
NothingOwed ==
    \A c \in Consumers :
        life[c] = "open" => IF connected THEN prefetch[c] # 0
                                         ELSE c \in intr.left \cup {intr.cur}

(* The count stands for consumers that are flagged and not cleared. *)
Counts(P) ==
    /\ IsFiniteSet(P) /\ Cardinality(P) = counter + (IF intr.cur = None THEN 0 ELSE 1)
    /\ P \cap intr.left = {}
    /\ \A c \in P : Pend(c) > 0

(* It counts what is owed to open consumers. *)
Counting ==
    /\ counter > 0 \/ (counter = 0 /\ NothingOwed)
    /\ \E P \in SUBSET Consumers : Counts(P)

(* Until the signal has come, somebody will give it. *)
SomebodySignals ==
    ~raced /\ ~complete =>
        \/ \E t \in Threads : pc[t] = "signal"
        \/ intr.by = None /\ NothingOwed
        \/ Counting

(* Not flagged twice: what came on this connection comes after the clearing. *)
FreshAfterClear ==
    \A c \in Consumers \ doubled :
        /\ flag[c] <= 1
        /\ fresh[c] => Pend(c) = 0
        /\ \A r \in Readers :
            held[r] /\ pc[r] = "dispatch" /\ target[r] = c => Pend(c) = 0

IInv ==
    /\ TypeOK /\ Places /\ Interruption /\ Broken /\ FlagHasTask /\ ToBeFed /\ SignalHolds
    /\ SomebodySignals /\ FreshAfterClear

-----------------------------------------------------------------------------
(* The threads are different from one another and from None. *)
LEMMA ThreadFacts ==
    /\ Threads = {Scheduler, Sender} \cup Readers
    /\ Clearers = {Scheduler} \cup Readers
    /\ Scheduler # Sender /\ Scheduler \notin Readers /\ Sender \notin Readers
    /\ None \notin Readers /\ None # Scheduler /\ None # Sender
  BY RecoveryAssumption DEF Threads, Clearers, Readers, Scheduler, Sender, None

-----------------------------------------------------------------------------
(* In the initial state no connection has broken. *)
LEMMA InitIInv == Init => IInv
<1> SUFFICES ASSUME Init PROVE IInv
  OBVIOUS
<1>1. TypeOK
  <2>1. /\ life \in [Consumers -> {"new", "listed", "open", "delisted", "closed"}]
        /\ prefetch \in [Consumers -> {Unknown, 0, Full}]
    BY DEF Init
  <2>2. /\ flag \in [Consumers -> Nat] /\ tasks \in [Consumers -> Nat]
        /\ fresh \in [Consumers -> BOOLEAN] /\ chan \in [Consumers -> Threads \cup {None}]
    BY DEF Init
  <2>3. /\ pc \in [Threads -> {"idle"}] /\ target \in [Threads -> {None}]
        /\ ctl \in [Threads -> SUBSET Consumers]
    BY DEF Init
  <2>4. /\ counter \in Int /\ breaks \in 0..MaxBreaks
        /\ intr \in [by : Threads \cup {None}, left : SUBSET Consumers, cur : Consumers \cup {None}]
    BY RecoveryAssumption DEF Init, Nobody
  <2> QED
    BY <2>1, <2>2, <2>3, <2>4 DEF Init, TypeOK
<1>2. Places
  BY ThreadFacts DEF Init, Places, Mid
<1>3. Interruption /\ Broken /\ SignalHolds /\ SomebodySignals
  BY DEF Init, Interruption, Broken, SignalHolds, SomebodySignals, Nobody
<1>4. FlagHasTask /\ FreshAfterClear
  BY RecoveryAssumption, ThreadFacts
  DEF Init, FlagHasTask, FreshAfterClear, Pend, Taken, Half, Nobody
<1>5. ToBeFed
  BY RecoveryAssumption DEF Init, ToBeFed, Tracked, Unknown, Full
<1> QED
  BY <1>1, <1>2, <1>3, <1>4, <1>5 DEF IInv

(***************************************************************************)
(* What a step leaves of the accounts when it touches neither the flags,   *)
(* the tasks, the channels nor the threads.                                *)
(***************************************************************************)
LEMMA AccountsKept ==
    ASSUME IInv, UNCHANGED <<flag, tasks, chan, thr, intr, fresh, doubled>>
    PROVE  Places' /\ FlagHasTask' /\ FreshAfterClear'
<1>1. Places'
  BY DEF IInv, Places, thr
<1>2. FlagHasTask'
  BY DEF IInv, FlagHasTask, Pend, Taken, Half, thr
<1>3. FreshAfterClear'
  BY DEF IInv, FreshAfterClear, Pend, thr
<1> QED
  BY <1>1, <1>2, <1>3

(* What keeps a recovery going, in a step that leaves the count alone. *)
LEMMA SignalsKept ==
    ASSUME IInv, UNCHANGED <<counter, raced, complete, intr>>,
           \A c \in Consumers : Pend(c)' = Pend(c),
           \A t \in Threads : pc[t] = "signal" => pc'[t] = "signal",
           NothingOwed => NothingOwed'
    PROVE  SomebodySignals'
<1> SUFFICES ASSUME ~raced, ~complete
             PROVE  \/ \E t \in Threads : pc'[t] = "signal"
                    \/ intr.by = None /\ NothingOwed'
                    \/ Counting'
  BY DEF SomebodySignals
<1>1. \A P \in SUBSET Consumers : Counts(P) => Counts(P)'
  BY DEF Counts
<1> QED
  BY <1>1 DEF IInv, SomebodySignals, Counting

(* A consumer is registered, subscribed, taken off the list or unsubscribed. *)
LEMMA ApplicationStep ==
    ASSUME IInv, NEW c \in Consumers,
           AddConsumer(c) \/ SendConsumerInfo(c) \/ RemoveConsumer(c) \/ SendRemoveInfo(c)
    PROVE  IInv'
<1>0. /\ UNCHANGED <<run, raced, doubled, counter, complete, connected, owner, intr, cons, thr, alive,
                     breaks>>
      /\ \A d \in Consumers : d # c => life'[d] = life[d] /\ prefetch'[d] = prefetch[d]
  BY
  DEF IInv, TypeOK, AddConsumer, SendConsumerInfo, RemoveConsumer, SendRemoveInfo, conn, net, run
<1>1. /\ life' \in [Consumers -> {"new", "listed", "open", "delisted", "closed"}]
      /\ prefetch' \in [Consumers -> {Unknown, 0, Full}] /\ stalled' \subseteq stalled
  BY
  DEF IInv, TypeOK, AddConsumer, SendConsumerInfo, RemoveConsumer, SendRemoveInfo, conn, net, run
<1>2. TypeOK'
  BY <1>0, <1>1 DEF IInv, TypeOK, cons, thr, run
<1>3. Places' /\ FlagHasTask' /\ FreshAfterClear'
  BY <1>0, AccountsKept DEF cons
<1>4. Interruption' /\ SignalHolds'
  BY <1>0 DEF IInv, Interruption, SignalHolds, thr
<1>5. \/ prefetch' = prefetch /\ (life[c] \in {"new", "open"} \/ prefetch[c] = Unknown)
      \/ alive /\ prefetch'[c] = Full /\ life'[c] = "open"
      \/ prefetch'[c] = Unknown
  BY
  DEF IInv, TypeOK, Broken, AddConsumer, SendConsumerInfo, RemoveConsumer, SendRemoveInfo, net,
      ToBeFed, Tracked, run
<1>6. Broken'
  BY <1>0, <1>5 DEF IInv, Broken, cons, thr
<1>7. ToBeFed'
  <2> SUFFICES ASSUME NEW d \in Consumers
               PROVE  /\ prefetch'[d] # Unknown => d \in Tracked'
                      /\ prefetch'[d] = 0 => \/ ~complete /\ d \in stalled'
                                             \/ \E t \in Threads : d \in ctl[t]
    BY <1>0 DEF ToBeFed, thr
  <2>1. CASE d # c
    <3>1. d \in Tracked => d \in Tracked'
      BY <1>0, <2>1 DEF Tracked
    <3>2. d \in stalled => d \in stalled'
      BY <2>1 DEF AddConsumer, SendConsumerInfo, RemoveConsumer, SendRemoveInfo, conn
    <3> QED
      BY <1>0, <2>1, <3>1, <3>2 DEF IInv, ToBeFed
  <2>2. CASE d = c
    <3>1. CASE AddConsumer(c) \/ RemoveConsumer(c)
      BY <2>2, <3>1
      DEF IInv, TypeOK, ToBeFed, Tracked, AddConsumer, RemoveConsumer, conn, net, run
    <3>2. CASE SendConsumerInfo(c)
      BY <2>2, <3>2
      DEF IInv, TypeOK, ToBeFed, Tracked, SendConsumerInfo, conn, net, Full, Unknown, run
    <3>3. CASE SendRemoveInfo(c)
      <4>1. prefetch'[c] = Unknown
        BY <3>3 DEF IInv, TypeOK, SendRemoveInfo, Broken
      <4> QED
        BY <2>2, <4>1 DEF Unknown
    <3> QED
      BY <3>1, <3>2, <3>3
  <2> QED
    BY <2>1, <2>2
<1>8. SomebodySignals'
  <2>1. NothingOwed => NothingOwed'
    <3>1. life'[c] = "open" => \/ life[c] = "open" /\ prefetch'[c] = prefetch[c]
                               \/ connected /\ prefetch'[c] # 0
      BY
      DEF IInv, TypeOK, Broken, AddConsumer, SendConsumerInfo, RemoveConsumer, SendRemoveInfo,
          net, Full, Unknown, run
    <3> QED
      BY <1>0, <3>1 DEF NothingOwed
  <2> QED
    BY <1>0, <2>1, SignalsKept DEF cons, thr, Pend
<1> QED
  BY <1>2, <1>3, <1>4, <1>6, <1>7, <1>8 DEF IInv

-----------------------------------------------------------------------------
(* The interruption *)

(* The count starts again, and every open consumer is still to be flagged. *)
LEMMA InterruptedStep ==
    ASSUME IInv, NEW t \in Threads, Interrupted(t), intr.by = None, connected, ~alive,
           UNCHANGED <<joining, doubled, life, stalled, cons, thr, net>>
    PROVE  IInv'
<1>0. /\ intr' = [by |-> t, left |-> Listed, cur |-> None] /\ ~connected' /\ owner' = t
      /\ counter' = 0 /\ complete' = FALSE /\ intr.cur = None /\ intr.left = {} /\ t # None
  BY ThreadFacts DEF Interrupted, IInv, Interruption
<1>1. TypeOK'
  <2>1. Listed \subseteq Consumers
    BY DEF Listed
  <2>2. intr' \in [by : Threads \cup {None}, left : SUBSET Consumers, cur : Consumers \cup {None}]
    BY <1>0, <2>1
  <2>3. raced' \in BOOLEAN
    BY Zenon DEF Interrupted
  <2>4. complete' \in BOOLEAN /\ connected' \in BOOLEAN
    BY Zenon DEF Interrupted
  <2>5. owner' \in Threads \cup {None} /\ counter' \in Int
    BY <1>0
  <2>6. InUse \in Readers
    <3>1. breaks \in 0..MaxBreaks /\ breaks > 0 /\ InUse = breaks - 1
      BY DEF InUse, IInv, TypeOK, Broken
    <3> QED
      BY <3>1, RecoveryAssumption DEF Readers
  <2>7. closing' \subseteq Readers
    BY <2>6 DEF Interrupted, IInv, TypeOK
  <2> QED
    BY <2>2, <2>3, <2>4, <2>5, <2>7 DEF IInv, TypeOK, cons, thr, net
<1>2. Places' /\ FreshAfterClear'
  BY DEF IInv, Places, FreshAfterClear, Pend, cons, thr
<1>3. Interruption' /\ Broken'
  BY <1>0 DEF IInv, Interruption, Broken, cons, thr, net
<1>4. FlagHasTask'
  <2>1. \A c \in Consumers : Half(c)' = Half(c)
    BY <1>0 DEF Half
  <2> QED
    BY <2>1 DEF IInv, FlagHasTask, Pend, Taken, cons, thr
<1>5. ToBeFed'
  BY DEF IInv, Broken, ToBeFed, Unknown, net
<1>6. SignalHolds'
  BY DEF SignalHolds, Interrupted, thr
<1>7. SomebodySignals'
  <2>1. NothingOwed'
    BY <1>0 DEF NothingOwed, Listed
  <2>2. Counts({})'
    BY <1>0, FS_EmptySet DEF Counts
  <2> QED
    BY <1>0, <2>1, <2>2 DEF SomebodySignals, Counting
<1> QED
  BY <1>1, <1>2, <1>3, <1>4, <1>5, <1>6, <1>7 DEF IInv

(* A consumer is flagged: its task is still to be scheduled. *)
LEMMA InterruptFlagStep == ASSUME IInv, InterruptFlag PROVE IInv'
<1>1. PICK c \in intr.left :
        /\ flag' = [flag EXCEPT ![c] = @ + 1]
        /\ doubled' = IF flag[c] > 0 THEN doubled \cup {c} ELSE doubled
        /\ intr' = [intr EXCEPT !.left = @ \ {c}, !.cur = c]
  BY DEF InterruptFlag
<1>2. /\ c \in Consumers /\ flag \in [Consumers -> Nat] /\ intr.by # None /\ intr.cur = None
      /\ intr \in [by : Threads \cup {None}, left : SUBSET Consumers, cur : Consumers \cup {None}]
      /\ UNCHANGED <<run, raced, life, counter, complete, stalled, connected, owner, tasks, fresh, chan,
                     thr, net>>
  BY DEF IInv, TypeOK, InterruptFlag
<1>3. /\ flag' \in [Consumers -> Nat] /\ flag'[c] = flag[c] + 1
      /\ \A d \in Consumers : d # c => flag'[d] = flag[d]
  BY <1>1, <1>2
<1>4. /\ intr' \in [by : Threads \cup {None}, left : SUBSET Consumers, cur : Consumers \cup {None}]
      /\ intr'.by = intr.by /\ intr'.left = intr.left \ {c} /\ intr'.cur = c
  BY <1>1, <1>2
<1>5. ~connected /\ ~alive /\ (\A r \in Readers : ~held[r]) /\ (\A d \in Consumers : ~fresh[d])
  BY <1>2 DEF IInv, Interruption, Broken
<1>6. /\ Pend(c)' = Pend(c) + 1 /\ Pend(c) \in Int
      /\ \A d \in Consumers : d # c => Pend(d)' = Pend(d)
  BY <1>2, <1>3 DEF Pend
<1>7. TypeOK'
  BY <1>1, <1>2, <1>3, <1>4 DEF IInv, TypeOK, thr, net, run
<1>8. Places'
  BY <1>2, <1>3 DEF IInv, TypeOK, Places, thr, run
<1>9. Interruption' /\ Broken' /\ ToBeFed' /\ SignalHolds'
  BY <1>2, <1>4 DEF IInv, Interruption, Broken, ToBeFed, Tracked, SignalHolds, thr, net
<1>10. FlagHasTask'
  <2>1. /\ Half(c)' = 1 /\ Half(c) = 0 /\ \A d \in Consumers : d # c => Half(d)' = 0 /\ Half(d) = 0
    BY <1>2, <1>4, RecoveryAssumption DEF Half
  <2>2. \A d \in Consumers : /\ Taken(d)' = Taken(d) /\ Taken(d) \in Int
                             /\ tasks'[d] = tasks[d] /\ tasks[d] \in Int
    BY <1>2 DEF Taken, thr, IInv, TypeOK, run
  <2> QED
    BY <1>6, <2>1, <2>2 DEF IInv, FlagHasTask
<1>11. FreshAfterClear'
  <2>1. \A d \in Consumers \ doubled' : flag'[d] <= 1
    BY <1>1, <1>2, <1>3 DEF IInv, FreshAfterClear, TypeOK
  <2> QED
    BY <1>2, <1>5, <2>1 DEF FreshAfterClear, thr
<1>12. SomebodySignals'
  <2>1. NothingOwed => NothingOwed'
    BY <1>2, <1>4, <1>5, RecoveryAssumption DEF NothingOwed
  <2>2. ASSUME NEW P \in SUBSET Consumers, Counts(P) PROVE Counts(P \cup {c})'
    <3>1. c \notin P /\ IsFiniteSet(P) /\ Cardinality(P) = counter /\ counter \in Int
      BY <1>2, <2>2 DEF Counts, IInv, TypeOK
    <3>2. IsFiniteSet(P \cup {c}) /\ Cardinality(P \cup {c}) = counter + 1
      BY <3>1, FS_AddElement
    <3>3. Pend(c)' > 0
      BY <1>2, <1>3 DEF Pend, IInv, TypeOK, Places
    <3>4. c # None
      BY <1>2, RecoveryAssumption
    <3> QED
      BY <1>2, <1>4, <1>6, <2>2, <3>2, <3>3, <3>4 DEF Counts
  <2> QED
    BY <1>2, <1>4, <2>1, <2>2 DEF IInv, SomebodySignals, Counting, thr
<1> QED
  BY <1>7, <1>8, <1>9, <1>10, <1>11, <1>12 DEF IInv

(* It is counted and its task scheduled: one more consumer the count stands for. *)
LEMMA InterruptCountStep == ASSUME IInv, InterruptCount PROVE IInv'
<1>0. PICK c \in Consumers : c = intr.cur
  BY DEF IInv, TypeOK, InterruptCount
<1>1. /\ c \in Consumers /\ counter' = counter + 1 /\ counter \in Int
      /\ tasks' = [tasks EXCEPT ![c] = @ + 1] /\ tasks \in [Consumers -> Nat]
      /\ intr' = [intr EXCEPT !.cur = None]
      /\ intr \in [by : Threads \cup {None}, left : SUBSET Consumers, cur : Consumers \cup {None}]
      /\ UNCHANGED <<run, raced, doubled, life, complete, stalled, connected, owner, flag, fresh,
                     chan, thr, net>>
  BY <1>0 DEF IInv, TypeOK, InterruptCount
<1>2. /\ intr' \in [by : Threads \cup {None}, left : SUBSET Consumers, cur : Consumers \cup {None}]
      /\ intr'.by = intr.by /\ intr'.left = intr.left /\ intr'.cur = None
  BY <1>1
<1>3. /\ tasks' \in [Consumers -> Nat] /\ tasks'[c] = tasks[c] + 1
      /\ \A d \in Consumers : d # c => tasks'[d] = tasks[d]
  BY <1>1
<1>4. intr.by # None /\ ~connected /\ c # None
  BY <1>0, <1>1, RecoveryAssumption DEF IInv, Interruption
<1>5. TypeOK'
  BY <1>1, <1>2, <1>3 DEF IInv, TypeOK, thr, net, run
<1>6. Places' /\ FreshAfterClear'
  BY <1>1 DEF IInv, Places, FreshAfterClear, Pend, thr
<1>7. Interruption' /\ Broken' /\ ToBeFed' /\ SignalHolds'
  BY <1>1, <1>2, <1>4 DEF IInv, Interruption, Broken, ToBeFed, Tracked, SignalHolds, thr, net
<1>8. FlagHasTask'
  <2>1. Half(c) = 1 /\ Half(c)' = 0 /\ \A d \in Consumers : d # c => Half(d) = 0 /\ Half(d)' = 0
    BY <1>0, <1>1, <1>2, RecoveryAssumption DEF Half
  <2>2. \A d \in Consumers : /\ Taken(d)' = Taken(d) /\ Taken(d) \in Int /\ tasks[d] \in Int
                             /\ Pend(d)' = Pend(d) /\ Pend(d) \in Int
    BY <1>1 DEF Taken, Pend, thr, IInv, TypeOK, run
  <2> QED
    BY <1>1, <1>3, <2>1, <2>2 DEF IInv, FlagHasTask
<1>9. SomebodySignals'
  <2>1. \A P \in SUBSET Consumers : Counts(P) => Counts(P)'
    BY <1>0, <1>1, <1>2, <1>4 DEF Counts, Pend
  <2>2. Counting => Counting'
    BY <1>1, <2>1 DEF Counting
  <2> QED
    BY <1>1, <1>4, <2>2 DEF IInv, SomebodySignals, thr
<1> QED
  BY <1>5, <1>6, <1>7, <1>8, <1>9 DEF IInv

(* The interruption is over: all that were listed are counted. *)
LEMMA InterruptEndStep == ASSUME IInv, InterruptEnd PROVE IInv'
<1>1. /\ intr' = Nobody /\ intr.cur = None /\ intr.left = {}
      /\ owner' \in Threads \cup {None}
      /\ UNCHANGED <<run, raced, doubled, life, counter, complete, stalled, connected, cons, thr, net>>
  BY DEF IInv, TypeOK, InterruptEnd
<1>2. TypeOK'
  <2>1. intr' \in [by : Threads \cup {None}, left : SUBSET Consumers, cur : Consumers \cup {None}]
    BY <1>1 DEF Nobody
  <2> QED
    BY <1>1, <2>1 DEF IInv, TypeOK, cons, thr, net, run
<1>3. Places' /\ FreshAfterClear'
  BY <1>1 DEF IInv, Places, FreshAfterClear, Pend, cons, thr
<1>4. Interruption' /\ Broken' /\ ToBeFed' /\ SignalHolds'
  BY <1>1 DEF IInv, Interruption, Nobody, Broken, ToBeFed, Tracked, SignalHolds, cons, thr, net
<1>5. FlagHasTask'
  BY <1>1 DEF IInv, FlagHasTask, Pend, Taken, Half, Nobody, cons, thr
<1>6. SomebodySignals'
  <2>1. NothingOwed => NothingOwed'
    BY <1>1 DEF NothingOwed, Nobody, net
  <2>2. \A P \in SUBSET Consumers : Counts(P) => Counts(P)'
    BY <1>1 DEF Counts, Pend, Nobody, cons
  <2> QED
    BY <1>1, <2>1, <2>2 DEF IInv, SomebodySignals, Counting, Nobody, thr
<1> QED
  BY <1>2, <1>3, <1>4, <1>5, <1>6 DEF IInv

(* A new connection: a consumer that is left without prefetch is open and owed it. *)
LEMMA RestoreStep == ASSUME IInv, Restore PROVE IInv'
<1>1. /\ ~connected /\ owner = None /\ connected' /\ alive' /\ intr.by = None
      /\ prefetch' = [c \in Consumers |-> IF c \notin Tracked THEN Unknown
                                          ELSE IF complete THEN Full ELSE 0]
      /\ stalled' = IF complete THEN stalled ELSE stalled \cup Tracked
      /\ UNCHANGED <<run, raced, doubled, life, counter, complete, owner, intr, cons, thr, breaks>>
  BY DEF IInv, Interruption, Restore
<1>2. TypeOK'
  BY <1>1 DEF IInv, TypeOK, cons, thr, Tracked, Restore, run
<1>3. Places' /\ FlagHasTask' /\ FreshAfterClear'
  BY <1>1, AccountsKept DEF cons
<1>4. Interruption' /\ Broken' /\ SignalHolds'
  BY <1>1 DEF IInv, Interruption, Broken, SignalHolds, thr
<1>5. ToBeFed'
  BY <1>1 DEF ToBeFed, Tracked, Full, Unknown
<1>6. SomebodySignals'
  <2>1. NothingOwed => NothingOwed'
    <3> SUFFICES ASSUME NothingOwed PROVE NothingOwed'
      OBVIOUS
    <3>1. \A c \in Consumers : life[c] # "open"
      BY <1>1, RecoveryAssumption DEF NothingOwed, IInv, Interruption
    <3> QED
      BY <1>1, <3>1 DEF NothingOwed
  <2> QED
    BY <1>1, <2>1, SignalsKept DEF cons, thr, Pend
<1> QED
  BY <1>2, <1>3, <1>4, <1>5, <1>6 DEF IInv

(* The close task takes a connection, or is done with one: no account is touched. *)
LEMMA CloseStep == ASSUME IInv, CloseTask \/ CloseJoined PROVE IInv'
<1>1. /\ closing' \subseteq Readers /\ joining' \in Readers \cup {None}
      /\ UNCHANGED <<raced, doubled, life, conn, cons, thr, net>>
  BY DEF IInv, TypeOK, CloseTask, CloseJoined, TakeTransport
<1>2. TypeOK'
  BY <1>1 DEF IInv, TypeOK, conn, cons, thr, net
<1>3. Places' /\ FlagHasTask' /\ FreshAfterClear'
  BY <1>1, AccountsKept DEF conn, cons
<1>4. Interruption' /\ Broken' /\ SignalHolds' /\ ToBeFed'
  BY <1>1 DEF IInv, Interruption, Broken, SignalHolds, ToBeFed, Tracked, conn, cons, thr, net
<1>5. SomebodySignals'
  <2>1. NothingOwed => NothingOwed'
    BY <1>1 DEF NothingOwed, conn, net
  <2> QED
    BY <1>1, <2>1, SignalsKept DEF conn, cons, thr, Pend
<1> QED
  BY <1>2, <1>3, <1>4, <1>5 DEF IInv

(* The connection breaks: the broker forgets the consumers. *)
LEMMA BreakStep == ASSUME IInv, Break PROVE IInv'
<1>1. /\ ~alive' /\ held' = [r \in Readers |-> FALSE] /\ breaks < MaxBreaks /\ breaks' = breaks + 1
      /\ prefetch' = [c \in Consumers |-> Unknown]
      /\ fresh' = [c \in Consumers |-> FALSE]
      /\ UNCHANGED <<run, raced, doubled, life, conn, flag, tasks, chan, pc, target, ctl>>
  BY DEF Break
<1>2. TypeOK'
  <2>1. breaks' \in 0..MaxBreaks
    BY <1>1, RecoveryAssumption DEF IInv, TypeOK
  <2>2. /\ prefetch' \in [Consumers -> {Unknown, 0, Full}] /\ fresh' \in [Consumers -> BOOLEAN]
        /\ alive' \in BOOLEAN /\ held' \in [Readers -> BOOLEAN]
    BY <1>1 DEF Break
  <2> QED
    BY <1>1, <2>1, <2>2 DEF IInv, TypeOK, conn, run
<1>3. Places'
  BY <1>1 DEF IInv, Places
<1>4. FlagHasTask' /\ FreshAfterClear'
  BY <1>1 DEF IInv, FlagHasTask, FreshAfterClear, Pend, Taken, Half, conn
<1>5. Interruption' /\ Broken' /\ SignalHolds' /\ ToBeFed'
  <2>1. breaks' > 0
    BY <1>1 DEF IInv, TypeOK
  <2> QED
    BY <1>1, <2>1 DEF IInv, Interruption, Broken, SignalHolds, ToBeFed, conn, Unknown
<1>6. SomebodySignals'
  <2>1. NothingOwed => NothingOwed'
    BY <1>1 DEF NothingOwed, conn, Unknown
  <2> QED
    BY <1>1, <2>1, SignalsKept DEF conn, Pend
<1> QED
  BY <1>2, <1>3, <1>4, <1>5, <1>6 DEF IInv

-----------------------------------------------------------------------------
(* The scheduler and the reader *)

(* A task is taken: its flag is the scheduler's to clear. *)
LEMMA TakeTaskStep == ASSUME IInv, NEW c \in Consumers, TakeTask(c) PROVE IInv'
<1>1. /\ pc[Scheduler] = "idle" /\ Scheduler \in Threads /\ tasks[c] > 0
      /\ tasks' = [tasks EXCEPT ![c] = @ - 1] /\ tasks \in [Consumers -> Nat]
      /\ pc' = [pc EXCEPT ![Scheduler] = "clear"] /\ target' = [target EXCEPT ![Scheduler] = c]
      /\ UNCHANGED <<run, raced, doubled, life, conn, flag, fresh, chan, held, ctl, net>>
  BY ThreadFacts DEF TakeTask, IInv, TypeOK
<1>2. /\ tasks' \in [Consumers -> Nat] /\ tasks'[c] = tasks[c] - 1
      /\ \A d \in Consumers : d # c => tasks'[d] = tasks[d]
  BY <1>1
<1>3. /\ pc'[Scheduler] = "clear" /\ target'[Scheduler] = c
      /\ \A t \in Threads : t # Scheduler => pc'[t] = pc[t] /\ target'[t] = target[t]
  BY <1>1 DEF IInv, TypeOK
<1>4. TypeOK'
  BY <1>1, <1>2 DEF IInv, TypeOK, conn, net, run
<1>5. Places'
  BY <1>1, <1>3, ThreadFacts DEF IInv, TypeOK, Places, Mid
<1>6. Interruption' /\ Broken' /\ ToBeFed'
  BY <1>1 DEF IInv, Interruption, Broken, ToBeFed, Tracked, conn, net
<1>7. SignalHolds'
  BY <1>1, <1>3 DEF IInv, SignalHolds, conn
<1>8. FlagHasTask'
  <2>1. \A d \in Consumers : /\ Half(d)' = Half(d) /\ Half(d) \in Int /\ tasks[d] \in Int
                             /\ Pend(d)' = Pend(d) /\ Pend(d) \in Int
    BY <1>1 DEF Half, Pend, conn, IInv, TypeOK, run
  <2>2. \A d \in Consumers : Taken(d) = 0 /\ Taken(d)' = (IF d = c THEN 1 ELSE 0)
    BY <1>1, <1>3 DEF Taken
  <2> QED
    BY <1>1, <1>2, <2>1, <2>2 DEF IInv, FlagHasTask
<1>9. FreshAfterClear'
  BY <1>1, <1>3, ThreadFacts DEF IInv, FreshAfterClear, Pend
<1>10. SomebodySignals'
  <2>1. NothingOwed => NothingOwed'
    BY <1>1 DEF NothingOwed, conn, net
  <2> QED
    BY <1>1, <1>3, <2>1, SignalsKept DEF conn, Pend
<1> QED
  BY <1>4, <1>5, <1>6, <1>7, <1>8, <1>9, <1>10 DEF IInv

(* What Leave does to the thread that leaves. *)
LEMMA LeaveLemma ==
    ASSUME IInv, NEW t \in Clearers, Leave(t), target[t] \in Consumers
    PROVE  /\ pc' \in [Threads -> {"idle", "check", "lock", "clear", "unflag", "dispatch", "signal",
                                   "controls", "wipe"}]
           /\ target' \in [Threads -> Consumers \cup {None}]
           /\ pc'[t] = IF t \in Readers THEN "dispatch" ELSE "idle"
           /\ t \in Readers => target'[t] = target[t]
           /\ \A u \in Threads : u # t => pc'[u] = pc[u] /\ target'[u] = target[u]
  BY ThreadFacts DEF Leave, IInv, TypeOK

(* The flag was cleared by somebody else. *)
LEMMA NothingToClearStep ==
    ASSUME IInv, NEW t \in Clearers, NothingToClear(t)
    PROVE  IInv'
<1>0. t \in Threads
  BY ThreadFacts
<1>1. /\ pc[t] = "clear" /\ target[t] \in Consumers /\ flag[target[t]] = 0 /\ Leave(t)
      /\ chan[target[t]] = None
      /\ UNCHANGED <<run, raced, doubled, life, conn, cons, held, ctl, net>>
  BY <1>0 DEF NothingToClear, IInv, Places, TypeOK
<1>2. /\ pc' \in [Threads -> {"idle", "check", "lock", "clear", "unflag", "dispatch", "signal",
                              "controls", "wipe"}]
      /\ target' \in [Threads -> Consumers \cup {None}]
      /\ pc'[t] = IF t \in Readers THEN "dispatch" ELSE "idle"
      /\ t \in Readers => target'[t] = target[t]
      /\ \A u \in Threads : u # t => pc'[u] = pc[u] /\ target'[u] = target[u]
  BY <1>1, LeaveLemma
<1>3. TypeOK'
  BY <1>1, <1>2 DEF IInv, TypeOK, conn, cons, net, run
<1>4. Places'
  BY <1>0, <1>1, <1>2, ThreadFacts DEF IInv, TypeOK, Places, Mid, cons, run
<1>5. Interruption' /\ Broken' /\ ToBeFed'
  BY <1>1 DEF IInv, Interruption, Broken, ToBeFed, Tracked, conn, cons, net
<1>6. SignalHolds'
  BY <1>0, <1>1, <1>2 DEF IInv, SignalHolds, conn
<1>7. FlagHasTask'
  <2>1. \A d \in Consumers : /\ Half(d)' = Half(d) /\ Half(d) \in {0, 1} /\ tasks[d] \in Nat
                             /\ Pend(d)' = Pend(d) /\ Pend(d) \in Int /\ tasks'[d] = tasks[d]
    BY <1>1 DEF Half, Pend, conn, cons, IInv, TypeOK, run
  <2>2. \A d \in Consumers : d # target[t] => Taken(d) = Taken(d)'
    BY <1>0, <1>1, <1>2, ThreadFacts DEF Taken
  <2>3. \A d \in Consumers : Taken(d) \in {0, 1} /\ Taken(d)' \in {0, 1}
    BY DEF Taken
  <2>4. Pend(target[t]) = 0
    BY <1>1 DEF Pend
  <2> QED
    BY <1>1, <2>1, <2>2, <2>3, <2>4 DEF IInv, FlagHasTask
<1>8. FreshAfterClear'
  <2>1. \A d \in Consumers : Pend(d)' = Pend(d)
    BY <1>1 DEF Pend, cons
  <2>2. Pend(target[t]) = 0
    BY <1>1 DEF Pend
  <2> QED
    BY <1>0, <1>1, <1>2, <2>1, <2>2, ThreadFacts DEF IInv, FreshAfterClear, cons
<1>9. SomebodySignals'
  <2>1. NothingOwed => NothingOwed'
    BY <1>1 DEF NothingOwed, conn, net
  <2> QED
    BY <1>0, <1>1, <1>2, <2>1, SignalsKept DEF conn, cons, Pend
<1> QED
  BY <1>3, <1>4, <1>5, <1>6, <1>7, <1>8, <1>9 DEF IInv

(***************************************************************************)
(* A clear takes one from the flags that are pending and one from the      *)
(* count.  Whether or not the count stood for this flag, the set it stands *)
(* for can be made smaller by one; and who takes it to zero signals.       *)
(***************************************************************************)
LEMMA ClearStep == ASSUME IInv, NEW t \in Clearers, Clear(t) PROVE IInv'
<1>0. t \in Threads /\ t # None /\ t # Sender
  BY ThreadFacts
<1>1. PICK c \in Consumers : c = target[t]
  BY <1>0 DEF Clear, IInv, Places
<1>2. /\ pc[t] = "clear" /\ flag[c] > 0 /\ chan[c] = None
      /\ chan' = [chan EXCEPT ![c] = t] /\ fresh' = [fresh EXCEPT ![c] = FALSE]
      /\ counter' = counter - 1 /\ counter \in Int
      /\ pc' = [pc EXCEPT ![t] = IF counter - 1 = 0 THEN "signal" ELSE "unflag"]
      /\ raced' = (raced \/ (intr.by # None /\ counter <= 0))
      /\ UNCHANGED <<run, doubled, life, complete, stalled, connected, owner, intr, flag, tasks,
                     target, held, ctl, net>>
  BY <1>1 DEF Clear, IInv, TypeOK
<1>3. /\ chan' \in [Consumers -> Threads \cup {None}] /\ chan'[c] = t
      /\ \A d \in Consumers : d # c => chan'[d] = chan[d]
  BY <1>0, <1>2 DEF IInv, TypeOK
<1>4. /\ pc' \in [Threads -> {"idle", "check", "lock", "clear", "unflag", "dispatch", "signal",
                              "controls", "wipe"}]
      /\ pc'[t] = (IF counter - 1 = 0 THEN "signal" ELSE "unflag")
      /\ \A u \in Threads : u # t => pc'[u] = pc[u]
  BY <1>0, <1>2 DEF IInv, TypeOK
<1>5. /\ fresh' \in [Consumers -> BOOLEAN] /\ ~fresh'[c]
      /\ \A d \in Consumers : d # c => fresh'[d] = fresh[d]
  BY <1>2 DEF IInv, TypeOK
<1>6. /\ Pend(c)' = Pend(c) - 1 /\ Pend(c) > 0 /\ \A d \in Consumers : Pend(d) \in Int
      /\ \A d \in Consumers : d # c => Pend(d)' = Pend(d)
  BY <1>0, <1>2, <1>3 DEF Pend, IInv, TypeOK
<1>7. TypeOK'
  <2>1. raced' \in BOOLEAN
    BY <1>2, Zenon
  <2>2. counter' \in Int
    BY <1>2
  <2> QED
    BY <1>2, <1>3, <1>4, <1>5, <2>1, <2>2 DEF IInv, TypeOK, net, run
<1>8. Places'
  <2>1. pc'[Sender] = "idle" /\ pc'[Scheduler] \notin {"check", "lock", "dispatch"}
    BY <1>0, <1>2, <1>4, ThreadFacts DEF IInv, Places
  <2>2. ASSUME NEW u \in Threads
        PROVE  /\ pc'[u] # "idle" => target'[u] \in Consumers
               /\ pc'[u] = "unflag" \/ (u = Scheduler /\ pc'[u] \in Mid) => chan'[target'[u]] = u
               /\ ctl'[u] # {} => pc'[u] = "controls"
    <3>1. CASE u = t
      BY <1>0, <1>1, <1>2, <1>3, <3>1 DEF IInv, Places
    <3>2. CASE u # t
      <4>1. u # None
        BY ThreadFacts
      <4> QED
        BY <1>2, <1>3, <1>4, <3>2, <4>1 DEF IInv, Places, Mid
    <3> QED
      BY <3>1, <3>2
  <2>3. ASSUME NEW d \in Consumers, chan'[d] # None
        PROVE  pc'[chan'[d]] \in Mid /\ target'[chan'[d]] = d /\ flag'[d] > 0
    <3>1. CASE d = c
      BY <1>1, <1>2, <1>3, <1>4, <3>1 DEF Mid
    <3>2. CASE d # c
      <4>1. chan'[d] = chan[d] /\ chan[d] \in Threads /\ pc[chan[d]] \in Mid
        BY <1>3, <2>3, <3>2 DEF IInv, TypeOK, Places
      <4>2. chan[d] # t
        BY <1>2, <4>1 DEF Mid
      <4> QED
        BY <1>2, <1>4, <2>3, <4>1, <4>2 DEF IInv, Places
    <3> QED
      BY <3>1, <3>2
  <2> QED
    BY <2>1, <2>2, <2>3 DEF Places
<1>9. Interruption' /\ Broken' /\ ToBeFed'
  BY <1>2, <1>5 DEF IInv, Interruption, Broken, ToBeFed, Tracked, net
<1>10. SignalHolds'
  BY <1>0, <1>2, <1>4 DEF IInv, SignalHolds
<1>11. FlagHasTask'
  <2>1. \A d \in Consumers : /\ Half(d)' = Half(d) /\ Half(d) \in {0, 1} /\ tasks[d] \in Nat
                             /\ tasks'[d] = tasks[d]
    BY <1>2 DEF Half, IInv, TypeOK
  <2>2. \A d \in Consumers : d # c => Taken(d) = Taken(d)'
    BY <1>0, <1>1, <1>2, <1>4, ThreadFacts DEF Taken
  <2>3. \A d \in Consumers : Taken(d) \in {0, 1} /\ Taken(d)' \in {0, 1}
    BY DEF Taken
  <2> QED
    BY <1>6, <2>1, <2>2, <2>3 DEF IInv, FlagHasTask
<1>12. FreshAfterClear'
  <2>1. Pend(c) = flag[c] /\ flag[c] \in Nat
    BY <1>2 DEF Pend, IInv, TypeOK
  <2> QED
    BY <1>0, <1>2, <1>4, <1>5, <1>6, <2>1, ThreadFacts DEF IInv, FreshAfterClear
<1>13. SomebodySignals'
  <2> SUFFICES ASSUME ~raced', ~complete, \A u \in Threads : pc[u] # "signal", counter # 1
               PROVE  (intr.by = None /\ NothingOwed) \/ Counting'
    <3>1. NothingOwed' <=> NothingOwed
      BY <1>2 DEF NothingOwed, net
    <3> QED
      BY <1>0, <1>2, <1>4, <3>1 DEF SomebodySignals
  <2>0. ~raced /\ ~(intr.by # None /\ counter <= 0)
    BY <1>2, Zenon
  <2> SUFFICES ASSUME Counting, counter > 0 PROVE Counting'
    <3>1. (intr.by = None /\ NothingOwed) \/ Counting
      BY <2>0 DEF IInv, SomebodySignals
    <3>2. Counting /\ ~(counter > 0) => counter <= 0 /\ NothingOwed
      BY <1>2 DEF Counting
    <3> QED
      BY <2>0, <3>1, <3>2
  <2>1. PICK P \in SUBSET Consumers : Counts(P)
    BY DEF Counting
  <2>2. PICK n \in {0, 1} : n = IF intr.cur = None THEN 0 ELSE 1
    OBVIOUS
  <2>9. IsFiniteSet(P) /\ Cardinality(P) = counter + n
    BY <2>1, <2>2 DEF Counts
  <2>3. P # {}
    BY <1>2, <2>2, <2>9, FS_EmptySet
  <2>4. PICK d \in P : c \in P => d = c
    BY <2>3
  <2>5. IsFiniteSet(P \ {d}) /\ Cardinality(P \ {d}) = counter' + n
    <3>1. IsFiniteSet(P \ {d}) /\ Cardinality(P \ {d}) = Cardinality(P) - 1
      BY <2>9, <2>4, FS_RemoveElement
    <3> QED
      BY <1>2, <2>9, <3>1
  <2>6. \A e \in P \ {d} : e # c /\ Pend(e)' > 0
    BY <1>6, <2>1, <2>4 DEF Counts
  <2>8. Counts(P \ {d})'
    BY <1>2, <2>1, <2>2, <2>5, <2>6 DEF Counts
  <2>7. counter' > 0
    BY <1>2
  <2> QED
    BY <2>7, <2>8 DEF Counting
<1> QED
  BY <1>7, <1>8, <1>9, <1>10, <1>11, <1>12, <1>13 DEF IInv

(* The flag goes down and the channel is free: what is pending stays the same. *)
LEMMA UnflagStep == ASSUME IInv, NEW t \in Clearers, Unflag(t) PROVE IInv'
<1>0. t \in Threads /\ t # None /\ t # Sender
  BY ThreadFacts
<1>1. PICK c \in Consumers : c = target[t]
  BY <1>0 DEF Unflag, IInv, Places
<1>2. /\ pc[t] = "unflag" /\ chan[c] = t /\ flag[c] > 0 /\ Leave(t)
      /\ flag' = [flag EXCEPT ![c] = @ - 1] /\ chan' = [chan EXCEPT ![c] = None]
      /\ UNCHANGED <<run, raced, doubled, life, conn, tasks, fresh, held, ctl, net>>
  BY <1>0, <1>1 DEF Unflag, IInv, Places
<1>3. /\ pc' \in [Threads -> {"idle", "check", "lock", "clear", "unflag", "dispatch", "signal",
                              "controls", "wipe"}]
      /\ target' \in [Threads -> Consumers \cup {None}]
      /\ pc'[t] = IF t \in Readers THEN "dispatch" ELSE "idle"
      /\ t \in Readers => target'[t] = target[t]
      /\ \A u \in Threads : u # t => pc'[u] = pc[u] /\ target'[u] = target[u]
  BY <1>1, <1>2, LeaveLemma
<1>4. /\ chan' \in [Consumers -> Threads \cup {None}] /\ chan'[c] = None
      /\ \A d \in Consumers : d # c => chan'[d] = chan[d]
  BY <1>2 DEF IInv, TypeOK
<1>5. /\ flag' \in [Consumers -> Nat] /\ flag'[c] = flag[c] - 1
      /\ \A d \in Consumers : d # c => flag'[d] = flag[d]
  BY <1>2 DEF IInv, TypeOK
<1>6. \A d \in Consumers : Pend(d)' = Pend(d)
  BY <1>0, <1>2, <1>4, <1>5 DEF Pend
<1>7. TypeOK'
  BY <1>2, <1>3, <1>4, <1>5 DEF IInv, TypeOK, conn, net, run
<1>8. Places'
  <2>1. pc'[Sender] = "idle" /\ pc'[Scheduler] \notin {"check", "lock", "dispatch"}
    BY <1>0, <1>3, ThreadFacts DEF IInv, Places
  <2>2. ASSUME NEW u \in Threads
        PROVE  /\ pc'[u] # "idle" => target'[u] \in Consumers
               /\ pc'[u] = "unflag" \/ (u = Scheduler /\ pc'[u] \in Mid) => chan'[target'[u]] = u
               /\ ctl'[u] # {} => pc'[u] = "controls"
    <3>1. CASE u = t
      BY <1>0, <1>1, <1>2, <1>3, <3>1, ThreadFacts DEF IInv, Places, Mid
    <3>2. CASE u # t
      BY <1>2, <1>3, <1>4, <3>2 DEF IInv, Places, Mid
    <3> QED
      BY <3>1, <3>2
  <2>3. ASSUME NEW d \in Consumers, chan'[d] # None
        PROVE  pc'[chan'[d]] \in Mid /\ target'[chan'[d]] = d /\ flag'[d] > 0
    <3>1. d # c /\ chan'[d] = chan[d] /\ chan[d] \in Threads /\ target[chan[d]] = d
      BY <1>4, <2>3 DEF IInv, TypeOK, Places
    <3>2. chan[d] # t
      BY <1>1, <3>1
    <3> QED
      BY <1>3, <1>5, <2>3, <3>1, <3>2 DEF IInv, Places
  <2> QED
    BY <2>1, <2>2, <2>3 DEF Places
<1>9. Interruption' /\ Broken' /\ ToBeFed'
  BY <1>2 DEF IInv, Interruption, Broken, ToBeFed, Tracked, conn, net
<1>10. SignalHolds'
  BY <1>0, <1>2, <1>3 DEF IInv, SignalHolds, conn
<1>11. FlagHasTask'
  <2>1. \A d \in Consumers : Half(d)' = Half(d) /\ tasks'[d] = tasks[d]
    BY <1>2 DEF Half, conn
  <2>2. \A d \in Consumers : Taken(d)' = Taken(d)
    BY <1>0, <1>2, <1>3, ThreadFacts DEF Taken
  <2> QED
    BY <1>6, <2>1, <2>2 DEF IInv, FlagHasTask
<1>12. FreshAfterClear'
  <2>1. \A d \in Consumers \ doubled : flag'[d] <= 1
    BY <1>2, <1>5 DEF IInv, FreshAfterClear, TypeOK
  <2>2. c \notin doubled => Pend(c) = 0
    BY <1>0, <1>2 DEF IInv, FreshAfterClear, Pend, TypeOK
  <2> QED
    BY <1>0, <1>1, <1>2, <1>3, <1>6, <2>1, <2>2, ThreadFacts DEF IInv, FreshAfterClear
<1>13. SomebodySignals'
  <2>1. NothingOwed => NothingOwed'
    BY <1>2 DEF NothingOwed, conn, net
  <2> QED
    BY <1>0, <1>2, <1>3, <1>6, <2>1, SignalsKept DEF conn
<1> QED
  BY <1>7, <1>8, <1>9, <1>10, <1>11, <1>12, <1>13 DEF IInv

-----------------------------------------------------------------------------
(* A thread goes from one place to the next with the consumer it is busy with. *)
LEMMA MoveLemma ==
    ASSUME IInv, NEW t \in Clearers, NEW s \in Mid \cup {"check", "lock", "clear"},
           pc[t] \in Mid \cup {"check", "lock"}, pc' = [pc EXCEPT ![t] = s],
           UNCHANGED <<cons, target, held, doubled, intr>>, chan[target[t]] = t => s \in Mid,
           s \notin Mid \/ pc[t] \notin Mid => t \in Readers,
           s = "unflag" => chan[target[t]] = t,
           ctl' \in [Threads -> SUBSET Consumers], \A u \in Threads : u # t => ctl'[u] = ctl[u],
           ctl'[t] # {} => s = "controls"
    PROVE  /\ pc'[t] = s /\ \A u \in Threads : u # t => pc'[u] = pc[u]
           /\ pc' \in [Threads -> {"idle", "check", "lock", "clear", "unflag", "dispatch", "signal",
                                   "controls", "wipe"}]
           /\ Places' /\ FlagHasTask' /\ FreshAfterClear'
<1>0. t \in Threads /\ t # None /\ t # Sender
  BY ThreadFacts
<1>1. /\ pc'[t] = s /\ \A u \in Threads : u # t => pc'[u] = pc[u]
      /\ pc' \in [Threads -> {"idle", "check", "lock", "clear", "unflag", "dispatch", "signal",
                               "controls", "wipe"}]
  BY <1>0 DEF IInv, TypeOK, Mid
<1>2. Places'
  <2>1. pc'[Sender] = "idle" /\ pc'[Scheduler] \notin {"check", "lock", "dispatch"}
    BY <1>0, <1>1, ThreadFacts DEF IInv, Places, Mid
  <2>2. ASSUME NEW u \in Threads
        PROVE  /\ pc'[u] # "idle" => target'[u] \in Consumers
               /\ pc'[u] = "unflag" \/ (u = Scheduler /\ pc'[u] \in Mid) => chan'[target'[u]] = u
               /\ ctl'[u] # {} => pc'[u] = "controls"
    <3>1. CASE u = t
      BY <1>0, <1>1, <3>1, ThreadFacts DEF IInv, Places, Mid, cons
    <3>2. CASE u # t
      BY <1>1, <3>2 DEF IInv, Places, Mid, cons
    <3> QED
      BY <3>1, <3>2
  <2>3. ASSUME NEW d \in Consumers, chan'[d] # None
        PROVE  pc'[chan'[d]] \in Mid /\ target'[chan'[d]] = d /\ flag'[d] > 0
    <3>1. chan'[d] = chan[d] /\ chan[d] \in Threads /\ target[chan[d]] = d
      BY <2>3 DEF IInv, TypeOK, Places, cons, run
    <3> QED
      BY <1>1, <2>3, <3>1 DEF IInv, Places, cons
  <2> QED
    BY <2>1, <2>2, <2>3 DEF Places
<1>3. FlagHasTask'
  <2>1. \A d \in Consumers : Taken(d)' = Taken(d)
    BY <1>0, <1>1, ThreadFacts DEF Taken, Mid
  <2> QED
    BY <2>1 DEF IInv, FlagHasTask, Pend, Half, cons
<1>4. FreshAfterClear'
  BY <1>0, <1>1, ThreadFacts DEF IInv, FreshAfterClear, Pend, Mid, cons
<1> QED
  BY <1>1, <1>2, <1>3, <1>4

(* The signal: every stalled consumer is to get a control. *)
LEMMA SignalEnterStep == ASSUME IInv, NEW t \in Clearers, SignalEnter(t) PROVE IInv'
<1>0. t \in Threads
  BY ThreadFacts
<1>1. /\ pc[t] = "signal" /\ owner = None /\ complete' = TRUE /\ owner' = t
      /\ ctl' = [ctl EXCEPT ![t] = stalled] /\ pc' = [pc EXCEPT ![t] = "controls"]
      /\ UNCHANGED <<run, raced, doubled, life, counter, stalled, connected, intr, cons, target,
                     held, net>>
  BY DEF SignalEnter
<1>2. /\ ctl' \in [Threads -> SUBSET Consumers] /\ ctl'[t] = stalled
      /\ \A u \in Threads : u # t => ctl'[u] = ctl[u]
  BY <1>0, <1>1 DEF IInv, TypeOK
<1>3. /\ pc' \in [Threads -> {"idle", "check", "lock", "clear", "unflag", "dispatch", "signal",
                              "controls", "wipe"}]
      /\ Places' /\ FlagHasTask' /\ FreshAfterClear'
  <2>1. "controls" \in Mid /\ "controls" # "unflag" /\ pc[t] \in Mid
    BY <1>1 DEF Mid
  <2> QED
    BY <1>1, <1>2, <2>1, MoveLemma
<1>4. TypeOK'
  BY <1>0, <1>1, <1>2, <1>3 DEF IInv, TypeOK, cons, net, run
<1>5. Interruption' /\ Broken' /\ SignalHolds' /\ SomebodySignals'
  BY <1>1 DEF IInv, Interruption, Broken, SignalHolds, SomebodySignals, cons, net, TypeOK, run
<1>6. ToBeFed'
  BY <1>0, <1>1, <1>2 DEF IInv, ToBeFed, Tracked, Places, net
<1> QED
  BY <1>3, <1>4, <1>5, <1>6 DEF IInv

(* One control: the consumer has its prefetch again, if the broker knows it. *)
LEMMA SendControlStep == ASSUME IInv, NEW t \in Clearers, SendControl(t) PROVE IInv'
<1>0. t \in Threads
  BY ThreadFacts
<1>1. PICK c \in ctl[t] :
        /\ ctl' = [ctl EXCEPT ![t] = @ \ {c}]
        /\ prefetch' = IF prefetch[c] = Unknown THEN prefetch ELSE [prefetch EXCEPT ![c] = Full]
  BY DEF SendControl
<1>2. /\ c \in Consumers /\ pc[t] = "controls"
      /\ UNCHANGED <<run, raced, doubled, life, conn, cons, pc, target, held, alive, breaks>>
  BY <1>0 DEF SendControl, Sending, IInv, TypeOK
<1>3. /\ ctl' \in [Threads -> SUBSET Consumers] /\ ctl'[t] = ctl[t] \ {c}
      /\ \A u \in Threads : u # t => ctl'[u] = ctl[u]
  BY <1>0, <1>1 DEF IInv, TypeOK
<1>4. /\ prefetch' \in [Consumers -> {Unknown, 0, Full}] /\ prefetch'[c] # 0
      /\ prefetch'[c] = Unknown <=> prefetch[c] = Unknown
      /\ \A d \in Consumers : d # c => prefetch'[d] = prefetch[d]
  BY <1>1, <1>2 DEF IInv, TypeOK, Unknown, Full
<1>5. TypeOK'
  BY <1>2, <1>3, <1>4 DEF IInv, TypeOK, conn, cons, run
<1>6. Places'
  BY <1>0, <1>2, <1>3 DEF IInv, Places, cons
<1>7. FlagHasTask' /\ FreshAfterClear'
  BY <1>2 DEF IInv, FlagHasTask, FreshAfterClear, Pend, Taken, Half, conn, cons
<1>8. Interruption' /\ Broken' /\ SignalHolds'
  BY <1>2, <1>4 DEF IInv, Interruption, Broken, SignalHolds, conn, cons
<1>9. ToBeFed'
  <2>1. \A d \in Consumers : d # c => \A u \in Threads : d \in ctl[u] => d \in ctl'[u]
    BY <1>0, <1>3
  <2> QED
    BY <1>2, <1>4, <2>1 DEF IInv, ToBeFed, Tracked, conn
<1>10. SomebodySignals'
  <2>1. NothingOwed => NothingOwed'
    BY <1>2, <1>4 DEF NothingOwed, conn
  <2> QED
    BY <1>2, <2>1, SignalsKept DEF conn, cons, Pend
<1> QED
  BY <1>5, <1>6, <1>7, <1>8, <1>9, <1>10 DEF IInv

(* A control that waits for a connection gives the mutex up, and takes it again. *)
LEMMA ControlWaitsStep ==
    ASSUME IInv, NEW t \in Clearers, ControlWaits(t) \/ ControlWakes(t)
    PROVE  IInv'
<1>1. /\ owner' \in {t, None} /\ t \in Threads /\ intr.by = None
      /\ UNCHANGED <<run, raced, doubled, life, counter, complete, stalled, connected, intr, cons, thr,
                     net>>
  BY ThreadFacts DEF ControlWaits, ControlWakes, Sending, IInv, Interruption
<1>2. TypeOK'
  BY <1>1 DEF IInv, TypeOK, cons, thr, net, run
<1>3. Places' /\ FlagHasTask' /\ FreshAfterClear'
  BY <1>1, AccountsKept DEF cons
<1>4. Interruption' /\ Broken' /\ SignalHolds' /\ ToBeFed'
  BY <1>1 DEF IInv, Interruption, Broken, SignalHolds, ToBeFed, Tracked, cons, thr, net
<1>5. SomebodySignals'
  <2>1. NothingOwed => NothingOwed'
    BY <1>1 DEF NothingOwed, net
  <2> QED
    BY <1>1, <2>1, SignalsKept DEF cons, thr, Pend
<1> QED
  BY <1>2, <1>3, <1>4, <1>5 DEF IInv

(* All controls are sent. *)
LEMMA SignalExitStep == ASSUME IInv, NEW t \in Clearers, SignalExit(t) PROVE IInv'
<1>0. t \in Threads
  BY ThreadFacts
<1>1. /\ pc[t] = "controls" /\ intr.by = None /\ owner' = None /\ ctl[t] = {}
      /\ pc' = [pc EXCEPT ![t] = "wipe"]
      /\ UNCHANGED <<run, raced, doubled, life, counter, complete, stalled, connected, intr, cons,
                     target, held, ctl, net>>
  BY DEF SignalExit, Sending
<1>2. /\ pc'[t] = "wipe" /\ \A u \in Threads : u # t => pc'[u] = pc[u]
      /\ pc' \in [Threads -> {"idle", "check", "lock", "clear", "unflag", "dispatch", "signal",
                              "controls", "wipe"}]
      /\ Places' /\ FlagHasTask' /\ FreshAfterClear'
  <2>1. "wipe" \in Mid /\ "wipe" # "unflag" /\ pc[t] \in Mid
    BY <1>1 DEF Mid
  <2>2. ctl \in [Threads -> SUBSET Consumers]
    BY DEF IInv, TypeOK
  <2> QED
    BY <1>1, <2>1, <2>2, MoveLemma
<1>3. TypeOK'
  BY <1>1, <1>2 DEF IInv, TypeOK, cons, net, run
<1>4. Interruption' /\ Broken' /\ ToBeFed'
  BY <1>1 DEF IInv, Interruption, Broken, ToBeFed, Tracked, cons, net
<1>5. SignalHolds'
  BY <1>0, <1>1, <1>2 DEF IInv, SignalHolds
<1>6. SomebodySignals'
  BY <1>0, <1>1 DEF IInv, SignalHolds, SomebodySignals
<1> QED
  BY <1>2, <1>3, <1>4, <1>5, <1>6 DEF IInv

(* The count is wiped out, which no interruption since the signal has made its own. *)
LEMMA WipeStep == ASSUME IInv, NEW t \in Clearers, Wipe(t) PROVE IInv'
<1>0. t \in Threads
  BY ThreadFacts
<1>1. /\ pc[t] = "wipe" /\ counter' = 0 /\ ctl[t] = {}
      /\ UNCHANGED <<run, raced, doubled, life, complete, stalled, connected, owner, intr, cons,
                     target, held, ctl, net>>
  BY <1>0 DEF Wipe, IInv, Places
<1>2. PICK s \in {"unflag", "check"} : /\ pc' = [pc EXCEPT ![t] = s]
                                       /\ s = IF chan[target[t]] = t THEN "unflag" ELSE "check"
  BY DEF Wipe
<1>3. /\ pc'[t] = s /\ \A u \in Threads : u # t => pc'[u] = pc[u]
      /\ pc' \in [Threads -> {"idle", "check", "lock", "clear", "unflag", "dispatch", "signal",
                              "controls", "wipe"}]
      /\ Places' /\ FlagHasTask' /\ FreshAfterClear'
  <2>1. pc[t] \in Mid /\ "unflag" \in Mid /\ (s = "check" => t \in Readers)
    BY <1>0, <1>1, <1>2, ThreadFacts DEF IInv, Places, Mid
  <2>2. s \in Mid \cup {"check", "lock", "clear"}
    BY <2>1
  <2>3. ctl \in [Threads -> SUBSET Consumers]
    BY DEF IInv, TypeOK
  <2>4. chan[target[t]] = t => s \in Mid
    BY <1>2, <2>1
  <2>5. s \notin Mid \/ pc[t] \notin Mid => t \in Readers
    BY <2>1
  <2>6. s = "unflag" => chan[target[t]] = t
    BY <1>2
  <2>7. pc' = [pc EXCEPT ![t] = s]
    BY <1>2
  <2> QED
    BY <1>1, <2>1, <2>2, <2>3, <2>4, <2>5, <2>6, <2>7, MoveLemma
<1>4. TypeOK'
  BY <1>1, <1>3 DEF IInv, TypeOK, cons, net, run
<1>5. Interruption' /\ Broken' /\ ToBeFed'
  BY <1>1 DEF IInv, Interruption, Broken, ToBeFed, Tracked, cons, net
<1>6. SignalHolds'
  BY <1>0, <1>1, <1>3 DEF IInv, SignalHolds
<1>7. SomebodySignals'
  BY <1>0, <1>1 DEF IInv, SignalHolds, SomebodySignals
<1> QED
  BY <1>3, <1>4, <1>5, <1>6, <1>7 DEF IInv

(* The reader finds the count positive, and signals; or goes on to the dispatchers' lock. *)
LEMMA ReaderGoesOn ==
    ASSUME IInv, NEW r \in Readers, WaitForRecovery(r) \/ LockDispatchers(r)
    PROVE  IInv'
<1>0. r \in Threads /\ r \in Clearers
  BY ThreadFacts
<1>1. /\ pc[r] \in {"check", "lock"} /\ ctl[r] = {}
      /\ UNCHANGED <<run, raced, doubled, life, conn, cons, target, held, ctl, net>>
  BY <1>0 DEF WaitForRecovery, LockDispatchers, IInv, Places
<1>2. PICK s \in {"signal", "lock", "clear"} : pc' = [pc EXCEPT ![r] = s]
  BY DEF WaitForRecovery, LockDispatchers
<1>3. /\ pc'[r] = s /\ \A u \in Threads : u # r => pc'[u] = pc[u]
      /\ pc' \in [Threads -> {"idle", "check", "lock", "clear", "unflag", "dispatch", "signal",
                              "controls", "wipe"}]
      /\ Places' /\ FlagHasTask' /\ FreshAfterClear'
  <2>1. chan[target[r]] # r
    BY <1>0, <1>1, ThreadFacts DEF IInv, Places, Mid, TypeOK
  <2>2. s \in Mid \cup {"check", "lock", "clear"} /\ s # "unflag" /\ s # "controls"
    BY DEF Mid
  <2>3. ctl \in [Threads -> SUBSET Consumers]
    BY DEF IInv, TypeOK
  <2>4. UNCHANGED <<cons, target, held, doubled, intr>> /\ ctl' = ctl
    BY <1>1 DEF conn
  <2> QED
    BY <1>0, <1>1, <1>2, <2>1, <2>2, <2>3, <2>4, MoveLemma
<1>4. TypeOK'
  BY <1>1, <1>3 DEF IInv, TypeOK, conn, cons, net, run
<1>5. Interruption' /\ Broken' /\ ToBeFed'
  BY <1>1 DEF IInv, Interruption, Broken, ToBeFed, Tracked, conn, cons, net
<1>6. SignalHolds'
  BY <1>0, <1>1, <1>3 DEF IInv, SignalHolds, conn
<1>7. SomebodySignals'
  <2>1. NothingOwed => NothingOwed'
    BY <1>1 DEF NothingOwed, conn, net
  <2> QED
    BY <1>1, <1>3, <2>1, SignalsKept DEF conn, cons, Pend
<1> QED
  BY <1>3, <1>4, <1>5, <1>6, <1>7 DEF IInv

(* A message comes; only a connection that works brings one. *)
LEMMA ReadMessageStep ==
    ASSUME IInv, NEW r \in Readers, NEW c \in Consumers, ReadMessage(r, c)
    PROVE  IInv'
<1>1. /\ pc[r] = "idle" /\ alive /\ r \in Threads /\ held' = [held EXCEPT ![r] = TRUE]
      /\ pc' = [pc EXCEPT ![r] = "check"] /\ target' = [target EXCEPT ![r] = c]
      /\ UNCHANGED <<run, raced, doubled, life, conn, cons, ctl, net>>
  BY ThreadFacts DEF ReadMessage
<1>2. /\ pc'[r] = "check" /\ target'[r] = c
      /\ \A t \in Threads : t # r => pc'[t] = pc[t] /\ target'[t] = target[t]
  BY <1>1 DEF IInv, TypeOK
<1>3. TypeOK'
  BY <1>1 DEF IInv, TypeOK, conn, cons, net, run
<1>4. Places'
  BY <1>1, <1>2, ThreadFacts DEF IInv, TypeOK, Places, Mid, cons, run
<1>5. Interruption' /\ Broken' /\ ToBeFed'
  BY <1>1 DEF IInv, Interruption, Broken, ToBeFed, Tracked, conn, cons, net
<1>6. SignalHolds'
  BY <1>1, <1>2 DEF IInv, SignalHolds, conn
<1>7. FlagHasTask'
  BY <1>1, <1>2, ThreadFacts DEF IInv, FlagHasTask, Pend, Taken, Half, conn, cons
<1>8. FreshAfterClear'
  BY <1>1, <1>2 DEF IInv, FreshAfterClear, Pend, cons
<1>9. SomebodySignals'
  <2>1. NothingOwed => NothingOwed'
    BY <1>1 DEF NothingOwed, conn, net
  <2> QED
    BY <1>1, <1>2, <2>1, SignalsKept DEF conn, cons, Pend
<1> QED
  BY <1>3, <1>4, <1>5, <1>6, <1>7, <1>8, <1>9 DEF IInv

(* The message is queued, behind the clearing. *)
LEMMA DispatchStep == ASSUME IInv, NEW r \in Readers, Dispatch(r) PROVE IInv'
<1>0. r \in Threads
  BY ThreadFacts
<1>1. PICK c \in Consumers : c = target[r]
  BY <1>0 DEF Dispatch, IInv, Places
<1>2. /\ pc[r] = "dispatch" /\ held' = [held EXCEPT ![r] = FALSE]
      /\ fresh' = [fresh EXCEPT ![c] = @ \/ (held[r] /\ c \in Listed)]
      /\ pc' = [pc EXCEPT ![r] = "idle"] /\ target' = [target EXCEPT ![r] = None]
      /\ UNCHANGED <<run, raced, doubled, life, conn, flag, tasks, chan, ctl, net>>
  BY <1>1 DEF Dispatch
<1>3. /\ pc'[r] = "idle" /\ target'[r] = None
      /\ \A t \in Threads : t # r => pc'[t] = pc[t] /\ target'[t] = target[t]
  BY <1>0, <1>2 DEF IInv, TypeOK
<1>4. /\ fresh' \in [Consumers -> BOOLEAN] /\ (fresh'[c] => fresh[c] \/ held[r])
      /\ \A d \in Consumers : d # c => fresh'[d] = fresh[d]
  BY <1>2 DEF IInv, TypeOK
<1>5. TypeOK'
  BY <1>2, <1>4 DEF IInv, TypeOK, conn, net, run
<1>6. Places'
  BY <1>0, <1>2, <1>3, ThreadFacts DEF IInv, TypeOK, Places, Mid
<1>7. Interruption' /\ Broken' /\ ToBeFed'
  BY <1>2, <1>4 DEF IInv, Interruption, Broken, ToBeFed, Tracked, conn, net
<1>8. SignalHolds'
  BY <1>2, <1>3 DEF IInv, SignalHolds, conn
<1>9. FlagHasTask'
  BY <1>2, <1>3, ThreadFacts DEF IInv, FlagHasTask, Pend, Taken, Half, conn
<1>10. FreshAfterClear'
  BY <1>1, <1>2, <1>3, <1>4 DEF IInv, FreshAfterClear, Pend
<1>11. SomebodySignals'
  <2>1. NothingOwed => NothingOwed'
    BY <1>2 DEF NothingOwed, conn, net
  <2> QED
    BY <1>2, <1>3, <2>1, SignalsKept DEF conn, Pend
<1> QED
  BY <1>5, <1>6, <1>7, <1>8, <1>9, <1>10, <1>11 DEF IInv

-----------------------------------------------------------------------------
(* Every step keeps the invariant. *)
LEMMA NextIInv == IInv /\ [Next]_vars => IInv'
<1> SUFFICES ASSUME IInv, [Next]_vars PROVE IInv'
  OBVIOUS
<1>1. CASE UNCHANGED vars
  <2>1. TypeOK'
    BY <1>1 DEF IInv, TypeOK, vars, conn, cons, thr, net, run
  <2>2. Places' /\ FlagHasTask' /\ FreshAfterClear'
    BY <1>1, AccountsKept DEF vars, conn, cons
  <2>3. Interruption' /\ Broken' /\ SignalHolds' /\ ToBeFed'
    BY <1>1
    DEF IInv, Interruption, Broken, SignalHolds, ToBeFed, Tracked, vars, conn, cons, thr, net
  <2>4. SomebodySignals'
    <3>1. NothingOwed => NothingOwed'
      BY <1>1 DEF NothingOwed, vars, conn, net
    <3> QED
      BY <1>1, <3>1, SignalsKept DEF vars, conn, cons, thr, Pend
  <2> QED
    BY <2>1, <2>2, <2>3, <2>4 DEF IInv
<1>2. ASSUME NEW t \in Clearers, InClear(t) PROVE IInv'
  <2>1. CASE ControlFails(t)
    BY <2>1, InterruptedStep, ThreadFacts DEF ControlFails, Sending
  <2> QED
    BY <1>2, <2>1, NothingToClearStep, ClearStep, UnflagStep, SignalEnterStep, SendControlStep,
       ControlWaitsStep, SignalExitStep, WipeStep
    DEF InClear, Signal
<1>3. CASE Interrupting
  <2>1. CASE OnException
    BY <2>1, InterruptedStep, ThreadFacts DEF OnException, IInv, Interruption, TypeOK
  <2> QED
    BY <1>3, <2>1, InterruptFlagStep, InterruptCountStep, InterruptEndStep DEF Interrupting
<1>4. CASE Work
  BY <1>2, <1>3, <1>4, ApplicationStep, TakeTaskStep, RestoreStep, CloseStep,
     ReaderGoesOn, DispatchStep
  DEF Work
<1> QED
  BY <1>1, <1>4, ApplicationStep, ReadMessageStep, BreakStep DEF Next

(* The inductive invariant holds in every state of the recovery. *)
THEOREM RecoveryInvariant == Spec => []IInv
  BY InitIInv, NextIInv, PTL DEF Spec

(***************************************************************************)
(* The count, the flags, the locks and the threads of the recovery keep    *)
(* values of their types.                                                  *)
(***************************************************************************)
THEOREM TypeCorrect == Spec => []TypeOK
<1>1. IInv => TypeOK
  BY DEF IInv
<1> QED
  BY <1>1, RecoveryInvariant, PTL

(***************************************************************************)
(* When the recovery is over every open consumer has its prefetch, unless  *)
(* a clear came ahead of an interruption's count or an interruption in the *)
(* window of a signal: outside these the count cannot be used up without a *)
(* signal, for any number of consumers, whichever thread clears and        *)
(* however often the connection broke meanwhile.                           *)
(***************************************************************************)
THEOREM ConsumersFedAgain == Spec => []FedUnlessRaced
<1>1. IInv => FedUnlessRaced
  <2> SUFFICES ASSUME IInv, ~raced, Settled, NEW c \in Listed, prefetch[c] = 0 PROVE FALSE
    BY DEF FedUnlessRaced, FedAgain
  <2>1. connected /\ owner = None /\ (\A t \in Threads : pc[t] = "idle")
        /\ (\A d \in Consumers : tasks[d] = 0)
    BY DEF Settled
  <2>2. intr.by = None /\ intr.cur = None
    BY <2>1, ThreadFacts DEF IInv, Interruption, TypeOK
  <2>3. c \in Consumers /\ life[c] = "open"
    BY DEF IInv, ToBeFed, Tracked, Listed, Unknown
  <2>4. ~complete
    BY <2>1, <2>3 DEF IInv, ToBeFed, Places
  <2>5. ~NothingOwed
    BY <2>1, <2>3 DEF NothingOwed
  <2>6. \A d \in Consumers : Pend(d) <= 0
    <3>1. \A d \in Consumers : Taken(d) = 0 /\ Half(d) = 0
      BY <2>1, <2>2, RecoveryAssumption, ThreadFacts DEF Taken, Half
    <3>2. \A d \in Consumers : Pend(d) <= tasks[d] + Taken(d) + Half(d)
      BY DEF IInv, FlagHasTask
    <3> QED
      BY <2>1, <3>1, <3>2
  <2>7. counter > 0 /\ \E P \in SUBSET Consumers : Counts(P)
    BY <2>1, <2>4, <2>5 DEF IInv, SomebodySignals, Counting
  <2>8. PICK P \in SUBSET Consumers : Counts(P)
    BY <2>7
  <2>9. \A d \in Consumers : Pend(d) \in Int
    BY DEF Pend, IInv, TypeOK
  <2>10. P = {} /\ Cardinality(P) = counter
    BY <2>2, <2>6, <2>8, <2>9 DEF Counts, IInv, TypeOK
  <2> QED
    BY <2>7, <2>10, FS_EmptySet
<1> QED
  BY <1>1, RecoveryInvariant, PTL

(***************************************************************************)
(* clearMessagesInProgress throws away no message that came on the         *)
(* connection in use, unless its consumer was flagged twice.               *)
(***************************************************************************)
THEOREM ClearingSparesFresh == Spec => FreshKept
<1> DEFINE A == \A t \in Threads : Clear(t) /\ target[t] \notin doubled => ~fresh[target[t]]
<1>1. IInv => A
  <2> SUFFICES ASSUME IInv, NEW t \in Threads, Clear(t), target[t] \notin doubled
               PROVE  ~fresh[target[t]]
    OBVIOUS
  <2>1. target[t] \in Consumers /\ flag[target[t]] > 0 /\ chan[target[t]] = None
    BY DEF Clear, IInv, Places
  <2> QED
    BY <2>1 DEF IInv, FreshAfterClear, Pend
<1>2. IInv /\ [Next]_vars => [A]_vars
  BY <1>1
<1> QED
  BY <1>2, RecoveryInvariant, PTL DEF Spec, FreshKept

-----------------------------------------------------------------------------
(***************************************************************************)
(* reconnectMutex is in the hands of the thread that runs                  *)
(* transportInterrupted or sends controls; one that gave it up in the      *)
(* middle of its controls has one to send.                                 *)
(***************************************************************************)
OwnerBusy ==
    /\ owner = Sender => intr.by = Sender
    /\ owner \in Clearers => pc[owner] = "controls"
    /\ \A t \in Clearers : pc[t] = "controls" /\ ctl[t] = {} => owner = t

(***************************************************************************)
(* Some thread can go on: the conditions under which the actions of        *)
(* InterruptionRecovery's Work can be taken, as far as the argument needs  *)
(* them.                                                                   *)
(***************************************************************************)
CanClear(t) ==
    \/ pc[t] = "clear" /\ (flag[target[t]] = 0 \/ chan[target[t]] = None)
    \/ pc[t] \in {"unflag", "wipe"}
    \/ pc[t] = "signal" /\ owner = None
    \/ pc[t] = "controls" /\ owner = None /\ connected
    \/ Sending(t)   \* SendControl, ControlWaits or, without a control left, SignalExit

CanRead(r) ==
    \/ pc[r] = "check"
    \/ pc[r] = "lock" /\ \A q \in Readers : ~Dispatching(q)
    \/ pc[r] = "dispatch" /\ chan[target[r]] = None

CanGoOn ==
    \/ intr.by # None   \* InterruptCount, InterruptFlag or, with nobody left, InterruptEnd
    \/ joining = None /\ ~connected /\ owner = None
    \/ joining # None /\ pc[joining] = "idle"
    \/ \E t \in Clearers : CanClear(t)
    \/ \E r \in Readers : CanRead(r)

(* Some thread can go on, or all are done, or the runner is in the circle. *)
OneCircle == CanGoOn \/ AllDone \/ JoinCircle

LEMMA OwnerBusyStep ==
    ASSUME IInv, OwnerBusy, [Next]_vars
    PROVE  OwnerBusy'
<1>1. /\ pc \in [Threads -> {"idle", "check", "lock", "clear", "unflag", "dispatch", "signal",
                              "controls", "wipe"}]
      /\ owner \in Threads \cup {None} /\ intr.by \in Threads \cup {None}
      /\ intr \in [by : Threads \cup {None}, left : SUBSET Consumers, cur : Consumers \cup {None}]
      /\ ctl \in [Threads -> SUBSET Consumers]
      /\ (intr.by # None => owner = intr.by) /\ Clearers \subseteq Threads
  BY ThreadFacts DEF IInv, TypeOK, Interruption
<1>2. ASSUME NEW t \in Clearers, NEW v, pc[t] # "controls", v # "controls",
             pc' = [pc EXCEPT ![t] = v], UNCHANGED <<owner, intr, ctl>>
      PROVE  OwnerBusy'
  BY <1>1, <1>2 DEF OwnerBusy
<1>3. ASSUME UNCHANGED <<owner, intr, pc, ctl>> PROVE OwnerBusy'
  BY <1>3 DEF OwnerBusy
<1>4. ASSUME NEW c \in Consumers,
             \/ AddConsumer(c) \/ SendConsumerInfo(c) \/ RemoveConsumer(c) \/ SendRemoveInfo(c)
      PROVE  OwnerBusy'
  BY <1>3, <1>4 DEF AddConsumer, SendConsumerInfo, RemoveConsumer, SendRemoveInfo, conn, thr
<1>5. ASSUME NEW c \in Consumers, TakeTask(c)
      PROVE  OwnerBusy'
  <2>1. /\ Scheduler \in Clearers /\ pc[Scheduler] # "controls"
        /\ pc' = [pc EXCEPT ![Scheduler] = "clear"] /\ UNCHANGED <<owner, intr, ctl>>
    BY <1>5, ThreadFacts DEF TakeTask, conn
  <2> QED
    BY <1>2, <2>1
<1>6. CASE OnException
  <2>1. owner' = Sender /\ intr'.by = Sender /\ UNCHANGED <<pc, ctl>> /\ owner = None
    BY <1>6 DEF OnException, Interrupted, thr
  <2>2. \A t \in Clearers : ~(pc[t] = "controls" /\ ctl[t] = {})
    BY <2>1, ThreadFacts DEF OwnerBusy
  <2> QED
    BY <2>1, <2>2, ThreadFacts DEF OwnerBusy
<1>7. CASE InterruptFlag
  <2>1. intr'.by = intr.by /\ UNCHANGED <<owner, pc, ctl>>
    BY <1>1, <1>7 DEF InterruptFlag, thr
  <2> QED
    BY <2>1 DEF OwnerBusy
<1>8. CASE InterruptCount
  <2>1. intr'.by = intr.by /\ UNCHANGED <<owner, pc, ctl>>
    BY <1>1, <1>8 DEF InterruptCount, thr
  <2> QED
    BY <2>1 DEF OwnerBusy
<1>9. CASE InterruptEnd
  <2>1. /\ UNCHANGED <<pc, ctl>> /\ intr.by # None /\ owner = intr.by
        /\ owner' = IF owner = Sender THEN None ELSE owner
    BY <1>1, <1>9 DEF InterruptEnd, thr
  <2> QED
    BY <2>1, ThreadFacts DEF OwnerBusy
<1>10. CASE Restore \/ Break \/ CloseTask \/ CloseJoined
  BY <1>3, <1>10 DEF Restore, Break, CloseTask, CloseJoined, thr, conn
<1>11. ASSUME NEW r \in Readers,
              \/ WaitForRecovery(r) \/ LockDispatchers(r) \/ Dispatch(r)
              \/ \E c \in Consumers : ReadMessage(r, c)
       PROVE  OwnerBusy'
  <2>1. /\ r \in Clearers /\ pc[r] # "controls" /\ UNCHANGED <<owner, intr, ctl>>
        /\ \E v \in {"check", "signal", "lock", "clear", "idle"} : pc' = [pc EXCEPT ![r] = v]
    BY <1>11, ThreadFacts DEF WaitForRecovery, LockDispatchers, Dispatch, ReadMessage, conn
  <2> QED
    BY <1>2, <2>1
<1>13. ASSUME NEW t \in Clearers, InClear(t)
       PROVE  OwnerBusy'
  <2>1. CASE NothingToClear(t) \/ Unflag(t)
    <3>1. /\ pc[t] # "controls" /\ UNCHANGED <<owner, intr, ctl>>
          /\ \E v \in {"dispatch", "idle"} : pc' = [pc EXCEPT ![t] = v]
      BY <2>1 DEF NothingToClear, Unflag, Leave, conn
    <3> QED
      BY <1>2, <3>1
  <2>2. CASE Clear(t) \/ Wipe(t)
    <3>1. /\ pc[t] # "controls" /\ UNCHANGED <<owner, intr, ctl>>
          /\ \E v \in {"signal", "unflag", "check"} : pc' = [pc EXCEPT ![t] = v]
      BY <2>2 DEF Clear, Wipe
    <3> QED
      BY <1>2, <3>1
  <2>3. CASE SignalEnter(t)
    <3>1. /\ owner = None /\ owner' = t /\ pc' = [pc EXCEPT ![t] = "controls"]
          /\ ctl' = [ctl EXCEPT ![t] = stalled] /\ t # Sender /\ None \notin Clearers
      BY <2>3, ThreadFacts DEF SignalEnter
    <3> QED
      BY <1>1, <3>1 DEF OwnerBusy
  <2>4. CASE SendControl(t)
    <3>1. PICK c \in ctl[t] : ctl' = [ctl EXCEPT ![t] = @ \ {c}]
      BY <2>4 DEF SendControl
    <3>2. owner = t /\ UNCHANGED <<owner, intr, pc>>
      BY <2>4 DEF SendControl, Sending, conn
    <3> QED
      BY <1>1, <3>1, <3>2 DEF OwnerBusy
  <2>5. CASE ControlFails(t) \/ ControlWakes(t)
    <3>1. /\ owner' = t /\ UNCHANGED <<pc, ctl>> /\ pc[t] = "controls" /\ owner \in {t, None}
          /\ t # Sender /\ None \notin Clearers
      BY <2>5, ThreadFacts DEF ControlFails, ControlWakes, Interrupted, Sending, thr
    <3> QED
      BY <3>1 DEF OwnerBusy
  <2>6. CASE ControlWaits(t)
    <3>1. /\ owner' = None /\ UNCHANGED <<pc, ctl>> /\ owner = t /\ ctl[t] # {}
          /\ None # Sender /\ None \notin Clearers
      BY <2>6, ThreadFacts DEF ControlWaits, Sending, thr
    <3> QED
      BY <3>1 DEF OwnerBusy
  <2>7. CASE SignalExit(t)
    <3>1. /\ owner' = None /\ pc' = [pc EXCEPT ![t] = "wipe"] /\ ctl' = ctl /\ owner = t
          /\ None # Sender /\ None \notin Clearers
      BY <2>7, ThreadFacts DEF SignalExit, Sending
    <3> QED
      BY <1>1, <3>1 DEF OwnerBusy
  <2> QED
    BY <1>13, <2>1, <2>2, <2>3, <2>4, <2>5, <2>6, <2>7 DEF InClear, Signal
<1>14. CASE UNCHANGED vars
  BY <1>3, <1>14 DEF vars, conn, thr
<1> QED
  BY <1>4, <1>5, <1>6, <1>7, <1>8, <1>9, <1>10, <1>11, <1>13, <1>14
  DEF Next, Work, Interrupting

(***************************************************************************)
(* The threads that get consumers through an interruption wait for one     *)
(* another in one circle only, for any number of consumers and             *)
(* interruptions.  The signal that is sent with a channel's lock held      *)
(* waits for reconnectMutex and for a connection, and whoever has the      *)
(* mutex can go on without that lock; but the runner, which would make the *)
(* connection, may be in the close of a failed one and wait for its        *)
(* reader.  Where that is not so, some thread can go on or all are done.   *)
(***************************************************************************)
THEOREM OnlyTheRunnerWaitsInACircle == Spec => []OneCircle
<1>1. Init => OwnerBusy
  BY ThreadFacts DEF Init, OwnerBusy
<1>2. IInv /\ OwnerBusy => OneCircle
  <2> SUFFICES ASSUME IInv, OwnerBusy, ~CanGoOn, ~JoinCircle
               PROVE  AllDone
    BY DEF OneCircle
  <2>1. /\ owner \in Threads \cup {None} /\ connected \in BOOLEAN
        /\ joining \in Readers \cup {None}
        /\ pc \in [Threads -> {"idle", "check", "lock", "clear", "unflag", "dispatch", "signal",
                                "controls", "wipe"}]
        /\ chan \in [Consumers -> Threads \cup {None}]
    BY DEF IInv, TypeOK
  <2>2. intr.by = None
    BY DEF CanGoOn
  <2>3. owner = None
    <3>1. owner # Sender
      BY <2>2, ThreadFacts DEF OwnerBusy
    <3>2. ASSUME owner \in Clearers PROVE FALSE
      <4>1. Sending(owner)
        BY <2>2, <3>2 DEF OwnerBusy, Sending
      <4> QED
        BY <3>2, <4>1 DEF CanGoOn, CanClear
    <3> QED
      BY <2>1, <3>1, <3>2, ThreadFacts
  <2>4. ~connected => joining \in Readers /\ pc[joining] # "idle"
    BY <2>1, <2>3 DEF CanGoOn
  <2>5. \A t \in Clearers : pc[t] # "controls"
    <3> SUFFICES ASSUME NEW t \in Clearers, pc[t] = "controls" PROVE FALSE
      OBVIOUS
    <3>1. ~connected
      BY <2>3 DEF CanGoOn, CanClear
    <3>2. ctl[t] # {}
      BY <2>3, ThreadFacts DEF OwnerBusy
    <3> QED
      BY <2>4, <3>1, <3>2, ThreadFacts DEF JoinCircle
  <2>6. \A t \in Threads : pc[t] \notin Mid
    <3>1. \A t \in Clearers : pc[t] \notin Mid
      BY <2>3, <2>5 DEF CanGoOn, CanClear, Mid
    <3>2. pc[Sender] \notin Mid
      BY DEF IInv, Places, Mid
    <3> QED
      BY <3>1, <3>2, ThreadFacts
  <2>7. \A c \in Consumers : chan[c] = None
    BY <2>1, <2>6 DEF IInv, Places
  <2>8. \A t \in Threads : pc[t] # "idle" => target[t] \in Consumers
    BY DEF IInv, Places
  <2>9. \A t \in Clearers : pc[t] # "clear"
    BY <2>7, <2>8, ThreadFacts DEF CanGoOn, CanClear
  <2>10. \A r \in Readers : pc[r] # "check" /\ pc[r] # "dispatch"
    BY <2>7, <2>8, ThreadFacts DEF CanGoOn, CanRead
  <2>11. \A r \in Readers : ~Dispatching(r)
    BY <2>6, <2>9, <2>10, ThreadFacts DEF Dispatching, Mid
  <2>12. \A r \in Readers : pc[r] # "lock"
    BY <2>11 DEF CanGoOn, CanRead
  <2>13. pc[Sender] = "idle" /\ pc[Scheduler] \notin {"check", "lock", "dispatch"}
    BY DEF IInv, Places
  <2>14. \A t \in Threads : pc[t] = "idle"
    <3>1. \A r \in Readers : pc[r] = "idle"
      BY <2>1, <2>6, <2>9, <2>10, <2>12, ThreadFacts DEF Mid
    <3>2. pc[Scheduler] = "idle"
      BY <2>1, <2>6, <2>9, <2>13, ThreadFacts DEF Mid
    <3> QED
      BY <2>13, <3>1, <3>2, ThreadFacts
  <2> QED
    BY <2>1, <2>4, <2>14, ThreadFacts DEF AllDone
<1>3. IInv /\ OwnerBusy /\ [Next]_vars => OwnerBusy'
  BY OwnerBusyStep
<1> QED
  BY <1>1, <1>2, <1>3, RecoveryInvariant, PTL DEF Spec
=============================================================================
