----------------------- MODULE SessionDispatchProofs -----------------------
(***************************************************************************)
(* Proofs about SessionDispatch, for any number of consumers, runners and  *)
(* messages.                                                               *)
(*                                                                         *)
(* Always holds whatever the application threads do: types, the part of    *)
(* its call a thread is in (InCall), that the places a message can be in   *)
(* exclude one another and are all there are (Conserved), and that the     *)
(* audit knows no message again but one that came while its consumer had   *)
(* no listener (OnlyMissed).  From it follows MessagesConserved.           *)
(*                                                                         *)
(* The other three properties hold until two calls overlap.  Any number of *)
(* threads may make calls; until then at most one is inside one (InTurn).  *)
(* Owned says who is responsible for a runner that lives: the executor     *)
(* while it runs, or the thread that shuts it down; ListenersSerialized    *)
(* and StopEndsDelivery follow.  UntilExit says that until a runner ends   *)
(* no message leaves the straight way from the queue to the listener;      *)
(* InOrderUntilStopped follows.  When calls overlap Owned is false: a      *)
(* start that is under way when a stop begins lets the executor run after  *)
(* the stop (the runs dispatch_serial, dispatch_stop and dispatch_return). *)
(*                                                                         *)
(* The last section is about the channels these messages wait in.          *)
(***************************************************************************)
EXTENDS SessionDispatch, FiniteSetTheorems, WellFoundedInduction, TLAPS

-----------------------------------------------------------------------------
(* At most one application thread is inside a call ... *)
InTurn ==
    \A j, k \in Controllers : actor[j].pc # "idle" /\ actor[k].pc # "idle" => j = k

(* ... or none but k. *)
Alone(k) == \A j \in Controllers : j # k => actor[j].pc = "idle"

(* A step of thread k that begins or continues a call. *)
Call(k) ==
    \/ ConnectionStart(k) \/ ConnectionStop(k)
    \/ \E c \in Consumers : SetMessageListener(k, c)
    \/ CallStep(k)

Alive(r) == runner[r].pc \notin {"new", "exited"}
NoneExited == \A r \in Runners : ~At(r, "exited")
NoneBorn == \A r \in Runners : At(r, "new")

(* Thread k is at one of these places, or in a wakeup that goes on there. *)
Doing(k, places) ==
    \/ actor[k].pc \in places
    \/ actor[k].pc \in {"wake", "notify"} /\ actor[k].ret \in places

Stopping == {"cstop", "xstop", "shutdown", "join"}
Assigning == {"assign", "redispatch", "first"}

(* A thread in the middle of a call is in the part of it that its call makes. *)
InCall ==
    /\ \A a \in Actors :
          /\ actor[a].pc \in {"notify", "shutdown", "join"} => actor[a].runner \in Runners
          /\ actor[a].ret \in {"idle", "cstart", "xstart", "first"}
    /\ \A k \in Controllers :
          /\ Doing(k, Stopping) => actor[k].op \in {"stop", "listen"}
          /\ Doing(k, Assigning) => actor[k].op = "listen"
          /\ actor[k].left # <<>> => Doing(k, {"first"})

(* A runner that lives is the executor's or the one a controller shuts down. *)
RunnerOwned ==
    /\ taskRunner # NoRunner => running
    /\ \A k \in Controllers :
          actor[k].pc \in {"shutdown", "join"} => ~running
    /\ \A r \in Runners : Alive(r) =>
          \/ r = taskRunner
          \/ \E k \in Controllers : actor[k].pc \in {"shutdown", "join"} /\ actor[k].runner = r

(* The executor runs only while the connection is started, up to the end of a stop. *)
RunsWhenStarted ==
    /\ \A k \in Controllers :
          /\ Doing(k, {"cstart", "xstart"}) => started
          /\ actor[k].op = "listen" /\ actor[k].restart /\ Doing(k, Stopping \cup Assigning)
                => started
    /\ running => \/ started
                  \/ \E k \in Controllers : actor[k].op = "stop" /\ actor[k].pc \in {"cstop", "xstop"}

(* And only with all consumers started, up to the beginning of a stop. *)
ConsumersFirst ==
    /\ \A k \in Controllers : Doing(k, {"cstart"}) =>
          \A c \in Consumers : c < actor[k].idx => cRunning[c]
    /\ \A k \in Controllers : Doing(k, {"xstart"}) => \A c \in Consumers : cRunning[c]
    /\ running => \/ \A c \in Consumers : cRunning[c]
                  \/ \E k \in Controllers : actor[k].pc \in {"cstop", "xstop"}

-----------------------------------------------------------------------------
Parked(m) == m \in ToSet(cQueue[Target[m]])
Carried(m) == \E r \in Runners : Carries(r, m)
Moving(m) == \E k \in Controllers : m \in ToSet(actor[k].left)

(* The places of a message exclude one another ... *)
OnePlace(m) ==
    /\ m \in ToSet(queue) =>
          ~Parked(m) /\ ~Carried(m) /\ ~Moving(m) /\ m \notin ToSet(delivered) /\ m \notin poisoned
    /\ Parked(m) => ~Carried(m) /\ ~Moving(m) /\ m \notin ToSet(delivered) /\ m \notin poisoned
    /\ Carried(m) => ~Moving(m) /\ m \notin ToSet(delivered) /\ m \notin poisoned
    /\ Moving(m) => m \notin ToSet(delivered) /\ m \notin poisoned
    /\ m \in ToSet(delivered) => m \notin poisoned

(* ... and are all the places of a message that has arrived. *)
SomePlace(m) ==
    \/ m \in ToSet(queue) \/ Parked(m) \/ Carried(m) \/ Moving(m)
    \/ m \in ToSet(delivered) \/ m \in poisoned

(* No place has it twice. *)
NoCopies ==
    /\ IsInjective(queue) /\ IsInjective(delivered)
    /\ \A c \in Consumers : IsInjective(cQueue[c]) /\ \A m \in ToSet(cQueue[c]) : Target[m] = c
    /\ \A k \in Controllers : IsInjective(actor[k].left)
    /\ \A j, k \in Controllers : \A m \in Messages :
          m \in ToSet(actor[j].left) /\ m \in ToSet(actor[k].left) => j = k
    /\ \A r, q \in Runners : \A m \in Messages : Carries(r, m) /\ Carries(q, m) => r = q
    /\ \A r \in Runners : runner[r].pc \in {"dispatch", "deliver"} => runner[r].msg \in Messages

Conserved ==
    /\ NoCopies
    /\ \A m \in Messages : OnePlace(m) /\ (SomePlace(m) <=> m \in ToSet(arrived))

(* What the audit has seen went to the listener, is on its way there or was missed, and
   nothing else ended as poison. *)
OnlyMissed ==
    /\ poisoned \subseteq missed
    /\ \A m \in audit :
          \/ m \in missed \/ m \in ToSet(delivered)
          \/ \E r \in Runners : runner[r].pc = "deliver" /\ runner[r].msg = m

-----------------------------------------------------------------------------
(* The broker sent a before b. *)
Before(a, b) ==
    \E x, y \in DOMAIN arrived : x < y /\ arrived[x] = a /\ arrived[y] = b

(* What is delivered, what is on its way and what is queued are in the broker's order. *)
InLine ==
    /\ \A i, j \in DOMAIN delivered : i < j => Before(delivered[i], delivered[j])
    /\ \A i \in DOMAIN delivered, j \in DOMAIN queue : Before(delivered[i], queue[j])
    /\ \A i, j \in DOMAIN queue : i < j => Before(queue[i], queue[j])
    /\ \A r \in Runners : runner[r].pc \in {"dispatch", "deliver"} =>
          /\ \A i \in DOMAIN delivered : Before(delivered[i], runner[r].msg)
          /\ \A j \in DOMAIN queue : Before(runner[r].msg, queue[j])

(* Between a stop and the executor's start: the executor does not run. *)
Starting == {"cstart", "xstart"} \cup Assigning
StartsStopped == \A k \in Controllers : Doing(k, Starting) => ~running

(***************************************************************************)
(* As long as no runner has ended, a parked message is one its consumer    *)
(* cannot take, nothing has been redispatched, and a controller that       *)
(* starts consumers or sets a listener does so before the first runner.    *)
(***************************************************************************)
Straight ==
    /\ \A c \in Consumers : cQueue[c] # <<>> => ~(listener[c] /\ cRunning[c])
    /\ \A k \in Controllers : actor[k].left = <<>>
    /\ \A k \in Controllers : Doing(k, Starting) => NoneBorn
    /\ NoneBorn => \A c \in Consumers : cQueue[c] = <<>>
    /\ InLine

UntilExit == NoneExited => Straight
-----------------------------------------------------------------------------
(* Sequences without repetition. *)

(* Appending a new element. *)
LEMMA AppendOnce ==
  ASSUME NEW S, NEW s \in Seq(S), NEW e \in S
  PROVE  /\ Append(s, e) \in Seq(S) /\ Len(Append(s, e)) = Len(s) + 1
         /\ \A i \in 1..Len(s) : Append(s, e)[i] = s[i]
         /\ Append(s, e)[Len(s) + 1] = e
         /\ ToSet(Append(s, e)) = ToSet(s) \cup {e}
         /\ IsInjective(s) /\ e \notin ToSet(s) => IsInjective(Append(s, e))
<1> DEFINE t == Append(s, e)
<1>1. /\ t \in Seq(S) /\ Len(t) = Len(s) + 1 /\ Len(s) \in Nat
      /\ DOMAIN t = 1..(Len(s) + 1) /\ DOMAIN s = 1..Len(s)
      /\ \A i \in 1..Len(s) : t[i] = s[i]
      /\ t[Len(s) + 1] = e
  OBVIOUS
<1>2. \A i \in 1..(Len(s) + 1) : i \in 1..Len(s) \/ i = Len(s) + 1
  BY <1>1
<1> HIDE DEF t
<1>3. ToSet(t) = ToSet(s) \cup {e}
  BY <1>1, <1>2 DEF ToSet
<1>4. IsInjective(s) /\ e \notin ToSet(s) => IsInjective(t)
  BY <1>1, <1>2 DEF IsInjective, ToSet
<1> QED
  BY <1>1, <1>3, <1>4 DEF t

(* Putting an element in front. *)
LEMMA PrependOnce ==
  ASSUME NEW S, NEW s \in Seq(S), NEW e \in S
  PROVE  /\ <<e>> \o s \in Seq(S)
         /\ ToSet(<<e>> \o s) = ToSet(s) \cup {e}
         /\ IsInjective(s) /\ e \notin ToSet(s) => IsInjective(<<e>> \o s)
<1> DEFINE t == <<e>> \o s
<1>1. /\ t \in Seq(S) /\ Len(t) = Len(s) + 1 /\ Len(s) \in Nat
      /\ DOMAIN t = 1..(Len(s) + 1) /\ DOMAIN s = 1..Len(s)
      /\ \A i \in 1..Len(s) : t[i + 1] = s[i]
      /\ t[1] = e
  OBVIOUS
<1> HIDE DEF t
<1>2. \A i \in 1..(Len(s) + 1) : i = 1 \/ (i - 1 \in 1..Len(s) /\ t[i] = s[i - 1])
  BY <1>1
<1>3. \A i \in 1..Len(s) : i + 1 \in 1..(Len(s) + 1)
  BY <1>1
<1>4. ToSet(t) = ToSet(s) \cup {e}
  <2>1. ASSUME NEW i \in DOMAIN t PROVE t[i] = e \/ t[i] \in ToSet(s)
    BY <1>1, <1>2 DEF ToSet
  <2>2. ASSUME NEW i \in DOMAIN s PROVE s[i] \in ToSet(t)
    <3>1. i + 1 \in DOMAIN t /\ t[i + 1] = s[i]
      BY <1>1, <1>3
    <3> QED
      BY <3>1 DEF ToSet
  <2>3. e \in ToSet(t)
    <3>1. 1 \in DOMAIN t
      BY <1>1
    <3> QED
      BY <1>1, <3>1 DEF ToSet
  <2> QED
    BY <2>1, <2>2, <2>3 DEF ToSet
<1>5. IsInjective(s) /\ e \notin ToSet(s) => IsInjective(t)
  <2> SUFFICES ASSUME IsInjective(s), e \notin ToSet(s), NEW i \in DOMAIN t, NEW j \in DOMAIN t,
                      t[i] = t[j]
               PROVE  i = j
    BY DEF IsInjective
  <2>1. CASE i = 1 \/ j = 1
    <3>1. ASSUME NEW n \in DOMAIN t, n # 1 PROVE t[n] \in ToSet(s)
      BY <1>1, <1>2, <3>1 DEF ToSet
    <3> QED
      BY <1>1, <2>1, <3>1
  <2>2. CASE i # 1 /\ j # 1
    <3>1. i - 1 = j - 1
      BY <1>1, <1>2, <2>2 DEF IsInjective
    <3> QED
      BY <1>1, <3>1
  <2> QED
    BY <2>1, <2>2
<1> QED
  BY <1>1, <1>4, <1>5 DEF t

(* Taking the first element off. *)
LEMMA TailOnce ==
  ASSUME NEW S, NEW s \in Seq(S), s # <<>>
  PROVE  /\ Tail(s) \in Seq(S) /\ Head(s) \in S /\ Head(s) = s[1] /\ Len(s) \in Nat \ {0}
         /\ DOMAIN Tail(s) = 1..(Len(s) - 1)
         /\ \A i \in DOMAIN Tail(s) : i + 1 \in DOMAIN s /\ Tail(s)[i] = s[i + 1]
         /\ Head(s) \in ToSet(s)
         /\ IsInjective(s) => ToSet(Tail(s)) = ToSet(s) \ {Head(s)} /\ IsInjective(Tail(s))
<1> DEFINE t == Tail(s)
<1>1. /\ t \in Seq(S) /\ Head(s) \in S /\ Head(s) = s[1] /\ Len(s) \in Nat \ {0} /\ Len(t) = Len(s) - 1
      /\ DOMAIN t = 1..(Len(s) - 1) /\ DOMAIN s = 1..Len(s)
      /\ \A i \in 1..(Len(s) - 1) : t[i] = s[i + 1]
  OBVIOUS
<1> HIDE DEF t
<1>2. \A i \in DOMAIN t : i + 1 \in DOMAIN s /\ t[i] = s[i + 1]
  BY <1>1
<1>3. Head(s) \in ToSet(s)
  <2>1. 1 \in DOMAIN s
    BY <1>1
  <2> QED
    BY <1>1, <2>1 DEF ToSet
<1>4. ASSUME IsInjective(s) PROVE IsInjective(t)
  <2> SUFFICES ASSUME NEW i \in DOMAIN t, NEW j \in DOMAIN t, t[i] = t[j] PROVE i = j
    BY DEF IsInjective
  <2>1. i + 1 = j + 1
    BY <1>2, <1>4 DEF IsInjective
  <2> QED
    BY <1>1, <2>1
<1>5. ASSUME IsInjective(s) PROVE ToSet(t) = ToSet(s) \ {Head(s)}
  <2>1. ASSUME NEW i \in DOMAIN t PROVE t[i] \in ToSet(s) /\ t[i] # Head(s)
    <3>1. i + 1 \in DOMAIN s /\ t[i] = s[i + 1] /\ 1 \in DOMAIN s /\ i + 1 # 1
      BY <1>1, <1>2
    <3> QED
      BY <1>1, <1>5, <3>1 DEF IsInjective, ToSet
  <2>2. ASSUME NEW j \in DOMAIN s, s[j] # Head(s) PROVE s[j] \in ToSet(t)
    <3>1. j # 1
      BY <1>1, <2>2
    <3>2. j - 1 \in DOMAIN t /\ (j - 1) + 1 = j
      BY <1>1, <3>1
    <3>3. t[j - 1] = s[j]
      BY <1>2, <3>2
    <3> QED
      BY <3>2, <3>3 DEF ToSet
  <2> QED
    BY <2>1, <2>2 DEF ToSet
<1> QED
  BY <1>1, <1>2, <1>3, <1>4, <1>5 DEF t

(* Turning round. *)
LEMMA ReverseOnce ==
  ASSUME NEW S, NEW s \in Seq(S)
  PROVE  /\ Reverse(s) \in Seq(S)
         /\ ToSet(Reverse(s)) = ToSet(s)
         /\ IsInjective(s) => IsInjective(Reverse(s))
<1> DEFINE t == Reverse(s)
<1>1. Len(s) \in Nat /\ DOMAIN s = 1..Len(s)
  OBVIOUS
<1>2. \A i \in 1..Len(s) : (Len(s) - i) + 1 \in 1..Len(s)
  BY <1>1
<1>3. t \in Seq(S) /\ DOMAIN t = 1..Len(s) /\ \A i \in 1..Len(s) : t[i] = s[(Len(s) - i) + 1]
  <2>1. t = [i \in 1..Len(s) |-> s[(Len(s) - i) + 1]]
    BY DEF Reverse
  <2>2. t \in [1..Len(s) -> S]
    BY <1>1, <1>2, <2>1
  <2> QED
    BY <1>1, <2>1, <2>2
<1> HIDE DEF t
<1>4. ToSet(t) = ToSet(s)
  <2>1. ASSUME NEW i \in 1..Len(s) PROVE t[i] \in ToSet(s)
    BY <1>1, <1>2, <1>3 DEF ToSet
  <2>2. ASSUME NEW i \in 1..Len(s) PROVE s[i] \in ToSet(t)
    <3>1. PICK j \in 1..Len(s) : j = (Len(s) - i) + 1
      BY <1>2
    <3>2. (Len(s) - j) + 1 = i
      BY <1>1, <3>1
    <3> QED
      BY <1>3, <3>2 DEF ToSet
  <2> QED
    BY <1>1, <1>3, <2>1, <2>2 DEF ToSet
<1>5. ASSUME IsInjective(s) PROVE IsInjective(t)
  <2> SUFFICES ASSUME NEW i \in DOMAIN t, NEW j \in DOMAIN t, t[i] = t[j] PROVE i = j
    BY DEF IsInjective
  <2>1. (Len(s) - i) + 1 = (Len(s) - j) + 1
    BY <1>1, <1>2, <1>3, <1>5 DEF IsInjective
  <2> QED
    BY <1>1, <1>3, <2>1
<1> QED
  BY <1>3, <1>4, <1>5 DEF t

-----------------------------------------------------------------------------
(***************************************************************************)
(* What each step does to the thread that takes it.                        *)
(***************************************************************************)

(* WakeupFindsRunner: the thread remembers the runner it will notify. *)
LEMMA WakeupFindsRunnerMoves ==
  ASSUME TypeOK, NEW a \in Actors, WakeupFindsRunner(a)
  PROVE  /\ actor' \in [Actors -> ActorState]
         /\ actor'[a].pc = "notify" /\ actor'[a].ret = actor[a].ret
         /\ actor'[a].idx = actor[a].idx /\ actor'[a].runner = taskRunner
         /\ actor'[a].op = actor[a].op /\ actor'[a].con = actor[a].con
         /\ actor'[a].restart = actor[a].restart /\ actor'[a].left = actor[a].left
         /\ \A z \in Actors : z # a => actor'[z] = actor[z]
         /\ actor[a].pc = "wake"
         /\ taskRunner # NoRunner
         /\ UNCHANGED <<started, queue, running, taskRunner, cRunning, cQueue, listener, arrived,
                        delivered, poisoned, runner>>
<1>0. /\ actor[a].pc = "wake"
      /\ taskRunner # NoRunner
      /\ UNCHANGED <<started, queue, running, taskRunner, cRunning, cQueue, listener, arrived,
                     delivered, poisoned, runner>>
  BY DEF WakeupFindsRunner, At, executor, consumers, locks, history
<1>1. PICK x \in ActorPC, q \in Runners \cup {NoRunner} :
          /\ x = "notify" /\ q = taskRunner
  <2>1. taskRunner \in Runners \cup {NoRunner}
    BY DEF TypeOK
  <2> QED
    BY <2>1 DEF ActorPC
<1>2. actor' = [actor EXCEPT ![a].pc = x, ![a].runner = q]
  BY <1>1 DEF WakeupFindsRunner
<1>3. actor \in [Actors -> ActorState] /\ a \in Actors
  BY DEF TypeOK, Actors
<1> QED
  BY <1>0, <1>1, <1>2, <1>3, ZenonT(60) DEF ActorState

(* WakeupStopped: the thread goes on with its call. *)
LEMMA WakeupStoppedMoves ==
  ASSUME TypeOK, NEW a \in Actors, WakeupStopped(a)
  PROVE  /\ actor' \in [Actors -> ActorState]
         /\ actor'[a].pc = actor[a].ret /\ actor'[a].ret = actor[a].ret
         /\ actor'[a].idx = actor[a].idx /\ actor'[a].runner = actor[a].runner
         /\ actor'[a].op = actor[a].op /\ actor'[a].con = actor[a].con
         /\ actor'[a].restart = actor[a].restart /\ actor'[a].left = actor[a].left
         /\ \A z \in Actors : z # a => actor'[z] = actor[z]
         /\ actor[a].pc = "wake"
         /\ taskRunner = NoRunner
         /\ UNCHANGED <<started, queue, running, taskRunner, cRunning, cQueue, listener, arrived,
                        delivered, poisoned, runner>>
<1>0. /\ actor[a].pc = "wake"
      /\ taskRunner = NoRunner
      /\ UNCHANGED <<started, queue, running, taskRunner, cRunning, cQueue, listener, arrived,
                     delivered, poisoned, runner>>
  BY DEF WakeupStopped, At, executor, consumers, locks, history
<1>1. PICK x \in ActorPC :
          /\ x = actor[a].ret
  <2>1. actor[a].ret \in ActorPC
    BY DEF TypeOK, Actors, ActorState
  <2> QED
    BY <2>1 DEF ActorPC
<1>2. actor' = [actor EXCEPT ![a].pc = x]
  BY <1>1 DEF WakeupStopped
<1>3. actor \in [Actors -> ActorState] /\ a \in Actors
  BY DEF TypeOK, Actors
<1> QED
  BY <1>0, <1>1, <1>2, <1>3 DEF ActorState

(* WakeupNotifies: the thread goes on with its call. *)
LEMMA WakeupNotifiesMoves ==
  ASSUME TypeOK, NEW a \in Actors, WakeupNotifies(a)
  PROVE  /\ actor' \in [Actors -> ActorState]
         /\ actor'[a].pc = actor[a].ret /\ actor'[a].ret = actor[a].ret
         /\ actor'[a].idx = actor[a].idx /\ actor'[a].runner = NoRunner
         /\ actor'[a].op = actor[a].op /\ actor'[a].con = actor[a].con
         /\ actor'[a].restart = actor[a].restart /\ actor'[a].left = actor[a].left
         /\ \A z \in Actors : z # a => actor'[z] = actor[z]
         /\ actor[a].pc = "notify"
         /\ UNCHANGED <<started, queue, running, taskRunner, cRunning, cQueue, listener, arrived,
                        delivered, poisoned>>
<1>0. /\ actor[a].pc = "notify"
      /\ UNCHANGED <<started, queue, running, taskRunner, cRunning, cQueue, listener, arrived,
                     delivered, poisoned>>
  BY DEF WakeupNotifies, At, executor, consumers, locks, history
<1>1. PICK x \in ActorPC, q \in Runners \cup {NoRunner} :
          /\ x = actor[a].ret /\ q = NoRunner
  <2>1. actor[a].ret \in ActorPC
    BY DEF TypeOK, Actors, ActorState
  <2> QED
    BY <2>1 DEF ActorPC
<1>2. actor' = [actor EXCEPT ![a].pc = x, ![a].runner = q]
  BY <1>1 DEF WakeupNotifies
<1>3. actor \in [Actors -> ActorState] /\ a \in Actors
  BY DEF TypeOK, Actors
<1> QED
  BY <1>0, <1>1, <1>2, <1>3, ZenonT(60) DEF ActorState

(* Execute: the message arrives and is queued. *)
LEMMA ExecuteMoves ==
  ASSUME TypeOK, NEW m \in Messages, Execute(m)
  PROVE  /\ actor' \in [Actors -> ActorState]
         /\ actor'[Dispatcher].pc = "wake" /\ actor'[Dispatcher].ret = "idle"
         /\ actor'[Dispatcher].idx = actor[Dispatcher].idx
         /\ actor'[Dispatcher].runner = actor[Dispatcher].runner
         /\ actor'[Dispatcher].op = actor[Dispatcher].op
         /\ actor'[Dispatcher].con = actor[Dispatcher].con
         /\ actor'[Dispatcher].restart = actor[Dispatcher].restart
         /\ actor'[Dispatcher].left = actor[Dispatcher].left
         /\ \A z \in Actors : z # Dispatcher => actor'[z] = actor[z]
         /\ actor[Dispatcher].pc = "idle"
         /\ m \notin ToSet(arrived)
         /\ arrived' = Append(arrived, m)
         /\ queue' = Append(queue, m)
         /\ UNCHANGED <<started, running, taskRunner, cRunning, cQueue, listener, delivered,
                        poisoned, runner>>
<1>0. /\ actor[Dispatcher].pc = "idle"
      /\ m \notin ToSet(arrived)
      /\ arrived' = Append(arrived, m)
      /\ queue' = Append(queue, m)
      /\ UNCHANGED <<started, running, taskRunner, cRunning, cQueue, listener, delivered,
                     poisoned, runner>>
  BY DEF Execute, At, executor, consumers, locks, history
<1>1. PICK x \in ActorPC, y \in ActorPC :
          /\ x = "wake" /\ y = "idle"
  BY DEF ActorPC
<1>2. actor' = [actor EXCEPT ![Dispatcher].pc = x, ![Dispatcher].ret = y]
  BY <1>1 DEF Execute
<1>3. actor \in [Actors -> ActorState] /\ Dispatcher \in Actors
  BY DEF TypeOK, Actors
<1> QED
  BY <1>0, <1>1, <1>2, <1>3 DEF ActorState

(* ConnectionStart: the flag is set, the first consumer is next. *)
LEMMA ConnectionStartMoves ==
  ASSUME TypeOK, NEW k \in Controllers, ConnectionStart(k)
  PROVE  /\ actor' \in [Actors -> ActorState]
         /\ actor'[k].pc = "cstart" /\ actor'[k].ret = actor[k].ret /\ actor'[k].idx = 1
         /\ actor'[k].runner = actor[k].runner /\ actor'[k].op = "start"
         /\ actor'[k].con = actor[k].con /\ actor'[k].restart = actor[k].restart
         /\ actor'[k].left = actor[k].left
         /\ \A z \in Actors : z # k => actor'[z] = actor[z]
         /\ actor[k].pc = "idle"
         /\ ~started /\ started'
         /\ UNCHANGED <<queue, running, taskRunner, cRunning, cQueue, listener, arrived, delivered,
                        poisoned, runner>>
<1>0. /\ actor[k].pc = "idle"
      /\ ~started /\ started'
      /\ UNCHANGED <<queue, running, taskRunner, cRunning, cQueue, listener, arrived, delivered,
                     poisoned, runner>>
  BY DEF ConnectionStart, CallBegins, At, executor, consumers, locks, history
<1>1. PICK x \in ActorPC, i \in Consumers, o \in {"none", "start", "stop", "listen"} :
          /\ x = "cstart" /\ i = 1 /\ o = "start"
  <2>1. 1 \in Consumers
    BY DispatchAssumption DEF Consumers
  <2> QED
    BY <2>1 DEF ActorPC
<1>2. actor' = [actor EXCEPT ![k].pc = x, ![k].idx = i, ![k].op = o]
  BY <1>1 DEF ConnectionStart
<1>3. actor \in [Actors -> ActorState] /\ k \in Actors
  BY DEF TypeOK, Actors
<1>4. /\ actor' \in [Actors -> ActorState]
      /\ actor'[k].pc = x /\ actor'[k].ret = actor[k].ret /\ actor'[k].idx = i
      /\ actor'[k].runner = actor[k].runner /\ actor'[k].op = o
      /\ actor'[k].con = actor[k].con /\ actor'[k].restart = actor[k].restart
      /\ actor'[k].left = actor[k].left
      /\ \A z \in Actors : z # k => actor'[z] = actor[z]
  BY <1>2, <1>3, ZenonT(60) DEF ActorState
<1> QED
  BY <1>0, <1>1, <1>4

(* ConnectionStop: the flag is cleared, the first consumer is next. *)
LEMMA ConnectionStopMoves ==
  ASSUME TypeOK, NEW k \in Controllers, ConnectionStop(k)
  PROVE  /\ actor' \in [Actors -> ActorState]
         /\ actor'[k].pc = "cstop" /\ actor'[k].ret = actor[k].ret /\ actor'[k].idx = 1
         /\ actor'[k].runner = actor[k].runner /\ actor'[k].op = "stop"
         /\ actor'[k].con = actor[k].con /\ actor'[k].restart = actor[k].restart
         /\ actor'[k].left = actor[k].left
         /\ \A z \in Actors : z # k => actor'[z] = actor[z]
         /\ actor[k].pc = "idle"
         /\ started /\ ~started'
         /\ UNCHANGED <<queue, running, taskRunner, cRunning, cQueue, listener, arrived, delivered,
                        poisoned, runner>>
<1>0. /\ actor[k].pc = "idle"
      /\ started /\ ~started'
      /\ UNCHANGED <<queue, running, taskRunner, cRunning, cQueue, listener, arrived, delivered,
                     poisoned, runner>>
  BY DEF ConnectionStop, CallBegins, At, executor, consumers, locks, history
<1>1. PICK x \in ActorPC, i \in Consumers, o \in {"none", "start", "stop", "listen"} :
          /\ x = "cstop" /\ i = 1 /\ o = "stop"
  <2>1. 1 \in Consumers
    BY DispatchAssumption DEF Consumers
  <2> QED
    BY <2>1 DEF ActorPC
<1>2. actor' = [actor EXCEPT ![k].pc = x, ![k].idx = i, ![k].op = o]
  BY <1>1 DEF ConnectionStop
<1>3. actor \in [Actors -> ActorState] /\ k \in Actors
  BY DEF TypeOK, Actors
<1>4. /\ actor' \in [Actors -> ActorState]
      /\ actor'[k].pc = x /\ actor'[k].ret = actor[k].ret /\ actor'[k].idx = i
      /\ actor'[k].runner = actor[k].runner /\ actor'[k].op = o
      /\ actor'[k].con = actor[k].con /\ actor'[k].restart = actor[k].restart
      /\ actor'[k].left = actor[k].left
      /\ \A z \in Actors : z # k => actor'[z] = actor[z]
  BY <1>2, <1>3, ZenonT(60) DEF ActorState
<1> QED
  BY <1>0, <1>1, <1>4

(* SetMessageListener: a stop comes first if the executor runs. *)
LEMMA SetMessageListenerMoves ==
  ASSUME TypeOK, NEW k \in Controllers, NEW e \in Consumers, SetMessageListener(k, e)
  PROVE  /\ actor' \in [Actors -> ActorState]
         /\ actor'[k].pc = (IF running THEN "cstop" ELSE "assign")
         /\ actor'[k].ret = actor[k].ret /\ actor'[k].idx = 1
         /\ actor'[k].runner = actor[k].runner /\ actor'[k].op = "listen"
         /\ actor'[k].con = e /\ actor'[k].restart = running
         /\ actor'[k].left = actor[k].left
         /\ \A z \in Actors : z # k => actor'[z] = actor[z]
         /\ actor[k].pc = "idle"
         /\ UNCHANGED <<started, queue, running, taskRunner, cRunning, cQueue, listener, arrived,
                        delivered, poisoned, runner>>
<1>0. /\ actor[k].pc = "idle"
      /\ UNCHANGED <<started, queue, running, taskRunner, cRunning, cQueue, listener, arrived,
                     delivered, poisoned, runner>>
  BY DEF SetMessageListener, CallBegins, At, executor, consumers, locks, history
<1>1. PICK x \in ActorPC, i \in Consumers, o \in {"none", "start", "stop", "listen"}, c \in Consumers, b \in BOOLEAN :
          /\ x = (IF running THEN "cstop" ELSE "assign") /\ i = 1 /\ o = "listen" /\ c = e
          /\ b = running
  <2>1. 1 \in Consumers
    BY DispatchAssumption DEF Consumers
  <2>2. running \in BOOLEAN
    BY DEF TypeOK
  <2> QED
    BY <2>1, <2>2 DEF ActorPC
<1>2. actor' = [actor EXCEPT ![k].pc = x, ![k].idx = i, ![k].op = o, ![k].con = c, ![k].restart = b]
  BY <1>1 DEF SetMessageListener
<1>3. actor \in [Actors -> ActorState] /\ k \in Actors
  BY DEF TypeOK, Actors
<1>4. actor'[k] = [actor[k] EXCEPT !.pc = x, !.idx = i, !.op = o, !.con = c, !.restart = b]
  BY <1>2, <1>3
<1>5. actor'[k] \in ActorState
      /\ actor'[k].pc = x /\ actor'[k].ret = actor[k].ret /\ actor'[k].idx = i
      /\ actor'[k].runner = actor[k].runner /\ actor'[k].op = o /\ actor'[k].con = c
      /\ actor'[k].restart = b /\ actor'[k].left = actor[k].left
  <2>1. actor[k] \in ActorState
    BY <1>3
  <2> QED
    BY <1>4, <2>1 DEF ActorState
<1>6. /\ actor' \in [Actors -> ActorState]
      /\ \A z \in Actors : z # k => actor'[z] = actor[z]
  BY <1>2, <1>3, <1>5
<1> QED
  BY <1>0, <1>1, <1>5, <1>6

(* ConsumerStart: one consumer runs, the next one or the executor follows the wakeup. *)
LEMMA ConsumerStartMoves ==
  ASSUME TypeOK, NEW k \in Controllers, ConsumerStart(k)
  PROVE  /\ actor' \in [Actors -> ActorState]
         /\ actor'[k].pc = "wake"
         /\ actor'[k].ret = (IF actor[k].idx = NumConsumers THEN "xstart" ELSE "cstart")
         /\ actor'[k].idx = (IF actor[k].idx = NumConsumers THEN actor[k].idx ELSE actor[k].idx + 1)
         /\ actor'[k].runner = actor[k].runner /\ actor'[k].op = actor[k].op
         /\ actor'[k].con = actor[k].con /\ actor'[k].restart = actor[k].restart
         /\ actor'[k].left = actor[k].left
         /\ \A z \in Actors : z # k => actor'[z] = actor[z]
         /\ actor[k].pc = "cstart"
         /\ cRunning' = [cRunning EXCEPT ![actor[k].idx] = TRUE]
         /\ UNCHANGED <<started, queue, running, taskRunner, cQueue, listener, arrived, delivered,
                        poisoned, runner>>
<1>0. /\ actor[k].pc = "cstart"
      /\ cRunning' = [cRunning EXCEPT ![actor[k].idx] = TRUE]
      /\ UNCHANGED <<started, queue, running, taskRunner, cQueue, listener, arrived, delivered,
                     poisoned, runner>>
  BY DEF ConsumerStart, At, executor, consumers, locks, history
<1>1. PICK x \in ActorPC, y \in ActorPC, i \in Consumers :
          /\ x = "wake"
          /\ y = (IF actor[k].idx = NumConsumers THEN "xstart" ELSE "cstart")
          /\ i = (IF actor[k].idx = NumConsumers THEN actor[k].idx ELSE actor[k].idx + 1)
  <2>1. actor[k].idx \in Consumers
    BY DEF TypeOK, Actors, ActorState
  <2>2. actor[k].idx # NumConsumers => actor[k].idx + 1 \in Consumers
    BY <2>1, DispatchAssumption DEF Consumers
  <2> QED
    BY <2>1, <2>2 DEF ActorPC
<1>2. actor' = [actor EXCEPT ![k].pc = x, ![k].ret = y, ![k].idx = i]
  BY <1>1 DEF ConsumerStart
<1>3. actor \in [Actors -> ActorState] /\ k \in Actors
  BY DEF TypeOK, Actors
<1>4. /\ actor' \in [Actors -> ActorState]
      /\ actor'[k].pc = x /\ actor'[k].ret = y /\ actor'[k].idx = i
      /\ actor'[k].runner = actor[k].runner /\ actor'[k].op = actor[k].op
      /\ actor'[k].con = actor[k].con /\ actor'[k].restart = actor[k].restart
      /\ actor'[k].left = actor[k].left
      /\ \A z \in Actors : z # k => actor'[z] = actor[z]
  BY <1>2, <1>3, ZenonT(60) DEF ActorState
<1> QED
  BY <1>0, <1>1, <1>4

(* ExecutorStart: the executor runs. *)
LEMMA ExecutorStartMoves ==
  ASSUME TypeOK, NEW k \in Controllers, ExecutorStart(k)
  PROVE  /\ actor' \in [Actors -> ActorState]
         /\ actor'[k].pc = (IF running THEN "idle" ELSE "check")
         /\ actor'[k].ret = actor[k].ret /\ actor'[k].idx = actor[k].idx
         /\ actor'[k].runner = actor[k].runner /\ actor'[k].op = actor[k].op
         /\ actor'[k].con = actor[k].con /\ actor'[k].restart = actor[k].restart
         /\ actor'[k].left = actor[k].left
         /\ \A z \in Actors : z # k => actor'[z] = actor[z]
         /\ actor[k].pc = "xstart"
         /\ running'
         /\ UNCHANGED <<started, queue, taskRunner, cRunning, cQueue, listener, arrived, delivered,
                        poisoned, runner>>
<1>0. /\ actor[k].pc = "xstart"
      /\ running'
      /\ UNCHANGED <<started, queue, taskRunner, cRunning, cQueue, listener, arrived, delivered,
                     poisoned, runner>>
  BY DEF ExecutorStart, At, executor, consumers, locks, history
<1>1. PICK x \in ActorPC :
          /\ x = (IF running THEN "idle" ELSE "check")
  BY DEF ActorPC
<1>2. actor' = [actor EXCEPT ![k].pc = x]
  BY <1>1 DEF ExecutorStart
<1>3. actor \in [Actors -> ActorState] /\ k \in Actors
  BY DEF TypeOK, Actors
<1> QED
  BY <1>0, <1>1, <1>2, <1>3 DEF ActorState

(* WakeIfQueued: a wakeup if there is something to do. *)
LEMMA WakeIfQueuedMoves ==
  ASSUME TypeOK, NEW k \in Controllers, WakeIfQueued(k)
  PROVE  /\ actor' \in [Actors -> ActorState]
         /\ actor'[k].pc = (IF running /\ queue # <<>> THEN "wake" ELSE "idle")
         /\ actor'[k].ret = "idle" /\ actor'[k].idx = actor[k].idx
         /\ actor'[k].runner = actor[k].runner /\ actor'[k].op = actor[k].op
         /\ actor'[k].con = actor[k].con /\ actor'[k].restart = actor[k].restart
         /\ actor'[k].left = actor[k].left
         /\ \A z \in Actors : z # k => actor'[z] = actor[z]
         /\ actor[k].pc = "check"
         /\ UNCHANGED <<started, queue, running, taskRunner, cRunning, cQueue, listener, arrived,
                        delivered, poisoned, runner>>
<1>0. /\ actor[k].pc = "check"
      /\ UNCHANGED <<started, queue, running, taskRunner, cRunning, cQueue, listener, arrived,
                     delivered, poisoned, runner>>
  BY DEF WakeIfQueued, At, executor, consumers, locks, history
<1>1. PICK x \in ActorPC, y \in ActorPC :
          /\ x = (IF running /\ queue # <<>> THEN "wake" ELSE "idle") /\ y = "idle"
  BY DEF ActorPC
<1>2. actor' = [actor EXCEPT ![k].pc = x, ![k].ret = y]
  BY <1>1 DEF WakeIfQueued
<1>3. actor \in [Actors -> ActorState] /\ k \in Actors
  BY DEF TypeOK, Actors
<1> QED
  BY <1>0, <1>1, <1>2, <1>3, ZenonT(60) DEF ActorState

(* ConsumerStop: one consumer stops, the next one or the executor follows. *)
LEMMA ConsumerStopMoves ==
  ASSUME TypeOK, NEW k \in Controllers, ConsumerStop(k)
  PROVE  /\ actor' \in [Actors -> ActorState]
         /\ actor'[k].pc = (IF actor[k].idx = NumConsumers THEN "xstop" ELSE "cstop")
         /\ actor'[k].ret = actor[k].ret
         /\ actor'[k].idx = (IF actor[k].idx = NumConsumers THEN actor[k].idx ELSE actor[k].idx + 1)
         /\ actor'[k].runner = actor[k].runner /\ actor'[k].op = actor[k].op
         /\ actor'[k].con = actor[k].con /\ actor'[k].restart = actor[k].restart
         /\ actor'[k].left = actor[k].left
         /\ \A z \in Actors : z # k => actor'[z] = actor[z]
         /\ actor[k].pc = "cstop"
         /\ cRunning' = [cRunning EXCEPT ![actor[k].idx] = FALSE]
         /\ UNCHANGED <<started, queue, running, taskRunner, cQueue, listener, arrived, delivered,
                        poisoned, runner>>
<1>0. /\ actor[k].pc = "cstop"
      /\ cRunning' = [cRunning EXCEPT ![actor[k].idx] = FALSE]
      /\ UNCHANGED <<started, queue, running, taskRunner, cQueue, listener, arrived, delivered,
                     poisoned, runner>>
  BY DEF ConsumerStop, At, executor, consumers, locks, history
<1>1. PICK x \in ActorPC, i \in Consumers :
          /\ x = (IF actor[k].idx = NumConsumers THEN "xstop" ELSE "cstop")
          /\ i = (IF actor[k].idx = NumConsumers THEN actor[k].idx ELSE actor[k].idx + 1)
  <2>1. actor[k].idx \in Consumers
    BY DEF TypeOK, Actors, ActorState
  <2>2. actor[k].idx # NumConsumers => actor[k].idx + 1 \in Consumers
    BY <2>1, DispatchAssumption DEF Consumers
  <2> QED
    BY <2>1, <2>2 DEF ActorPC
<1>2. actor' = [actor EXCEPT ![k].pc = x, ![k].idx = i]
  BY <1>1 DEF ConsumerStop
<1>3. actor \in [Actors -> ActorState] /\ k \in Actors
  BY DEF TypeOK, Actors
<1> QED
  BY <1>0, <1>1, <1>2, <1>3, ZenonT(60) DEF ActorState

(* ExecutorStop: the executor stops and gives its runner to the thread. *)
LEMMA ExecutorStopMoves ==
  ASSUME TypeOK, NEW k \in Controllers, ExecutorStop(k)
  PROVE  /\ actor' \in [Actors -> ActorState]
         /\ actor'[k].pc = (IF ~running \/ taskRunner = NoRunner THEN AfterStop(k) ELSE "shutdown")
         /\ actor'[k].ret = actor[k].ret /\ actor'[k].idx = actor[k].idx
         /\ actor'[k].runner = (IF ~running \/ taskRunner = NoRunner THEN NoRunner ELSE taskRunner)
         /\ actor'[k].op = actor[k].op /\ actor'[k].con = actor[k].con
         /\ actor'[k].restart = actor[k].restart /\ actor'[k].left = actor[k].left
         /\ \A z \in Actors : z # k => actor'[z] = actor[z]
         /\ actor[k].pc = "xstop"
         /\ ~running'
         /\ taskRunner' = IF running THEN NoRunner ELSE taskRunner
         /\ UNCHANGED <<started, queue, cRunning, cQueue, listener, arrived, delivered, poisoned,
                        runner>>
<1>0. /\ actor[k].pc = "xstop"
      /\ ~running'
      /\ taskRunner' = IF running THEN NoRunner ELSE taskRunner
      /\ UNCHANGED <<started, queue, cRunning, cQueue, listener, arrived, delivered, poisoned,
                     runner>>
  BY DEF ExecutorStop, At, executor, consumers, locks, history
<1>1. PICK x \in ActorPC, q \in Runners \cup {NoRunner} :
          /\ x = (IF ~running \/ taskRunner = NoRunner THEN AfterStop(k) ELSE "shutdown")
          /\ q = (IF ~running \/ taskRunner = NoRunner THEN NoRunner ELSE taskRunner)
  <2>1. taskRunner \in Runners \cup {NoRunner}
    BY DEF TypeOK
  <2> QED
    BY <2>1 DEF ActorPC, AfterStop
<1>2. actor' = [actor EXCEPT ![k].pc = x, ![k].runner = q]
  BY <1>1 DEF ExecutorStop, AfterStop
<1>3. actor \in [Actors -> ActorState] /\ k \in Actors
  BY DEF TypeOK, Actors
<1>4. /\ actor' \in [Actors -> ActorState]
      /\ actor'[k].pc = x /\ actor'[k].ret = actor[k].ret /\ actor'[k].idx = actor[k].idx
      /\ actor'[k].runner = q /\ actor'[k].op = actor[k].op
      /\ actor'[k].con = actor[k].con /\ actor'[k].restart = actor[k].restart
      /\ actor'[k].left = actor[k].left
      /\ \A z \in Actors : z # k => actor'[z] = actor[z]
  BY <1>2, <1>3 DEF ActorState
<1> QED
  BY <1>0, <1>1, <1>4

(* RunnerShutdown: the thread waits for the runner next. *)
LEMMA RunnerShutdownMoves ==
  ASSUME TypeOK, NEW k \in Controllers, RunnerShutdown(k)
  PROVE  /\ actor' \in [Actors -> ActorState]
         /\ actor'[k].pc = "join" /\ actor'[k].ret = actor[k].ret
         /\ actor'[k].idx = actor[k].idx /\ actor'[k].runner = actor[k].runner
         /\ actor'[k].op = actor[k].op /\ actor'[k].con = actor[k].con
         /\ actor'[k].restart = actor[k].restart /\ actor'[k].left = actor[k].left
         /\ \A z \in Actors : z # k => actor'[z] = actor[z]
         /\ actor[k].pc = "shutdown"
         /\ UNCHANGED <<started, queue, running, taskRunner, cRunning, cQueue, listener, arrived,
                        delivered, poisoned>>
<1>0. /\ actor[k].pc = "shutdown"
      /\ UNCHANGED <<started, queue, running, taskRunner, cRunning, cQueue, listener, arrived,
                     delivered, poisoned>>
  BY DEF RunnerShutdown, At, executor, consumers, locks, history
<1>1. PICK x \in ActorPC :
          /\ x = "join"
  BY DEF ActorPC
<1>2. actor' = [actor EXCEPT ![k].pc = x]
  BY <1>1 DEF RunnerShutdown
<1>3. actor \in [Actors -> ActorState] /\ k \in Actors
  BY DEF TypeOK, Actors
<1> QED
  BY <1>0, <1>1, <1>2, <1>3 DEF ActorState

(* RunnerJoined: the runner has ended. *)
LEMMA RunnerJoinedMoves ==
  ASSUME TypeOK, NEW k \in Controllers, RunnerJoined(k)
  PROVE  /\ actor' \in [Actors -> ActorState]
         /\ actor'[k].pc = AfterStop(k) /\ actor'[k].ret = actor[k].ret
         /\ actor'[k].idx = actor[k].idx /\ actor'[k].runner = NoRunner
         /\ actor'[k].op = actor[k].op /\ actor'[k].con = actor[k].con
         /\ actor'[k].restart = actor[k].restart /\ actor'[k].left = actor[k].left
         /\ \A z \in Actors : z # k => actor'[z] = actor[z]
         /\ actor[k].pc = "join"
         /\ runner[actor[k].runner].pc = "exited"
         /\ UNCHANGED <<started, queue, running, taskRunner, cRunning, cQueue, listener, arrived,
                        delivered, poisoned, runner>>
<1>0. /\ actor[k].pc = "join"
      /\ runner[actor[k].runner].pc = "exited"
      /\ UNCHANGED <<started, queue, running, taskRunner, cRunning, cQueue, listener, arrived,
                     delivered, poisoned, runner>>
  BY DEF RunnerJoined, At, executor, consumers, locks, history
<1>1. PICK x \in ActorPC, q \in Runners \cup {NoRunner} :
          /\ x = AfterStop(k) /\ q = NoRunner
  BY DEF ActorPC, AfterStop
<1>2. actor' = [actor EXCEPT ![k].pc = x, ![k].runner = q]
  BY <1>1 DEF RunnerJoined, AfterStop
<1>3. actor \in [Actors -> ActorState] /\ k \in Actors
  BY DEF TypeOK, Actors
<1> QED
  BY <1>0, <1>1, <1>2, <1>3, ZenonT(60) DEF ActorState

(* AssignListener: the listener is set. *)
LEMMA AssignListenerMoves ==
  ASSUME TypeOK, NEW k \in Controllers, AssignListener(k)
  PROVE  /\ actor' \in [Actors -> ActorState]
         /\ actor'[k].pc = "redispatch" /\ actor'[k].ret = actor[k].ret
         /\ actor'[k].idx = actor[k].idx /\ actor'[k].runner = actor[k].runner
         /\ actor'[k].op = actor[k].op /\ actor'[k].con = actor[k].con
         /\ actor'[k].restart = actor[k].restart /\ actor'[k].left = actor[k].left
         /\ \A z \in Actors : z # k => actor'[z] = actor[z]
         /\ actor[k].pc = "assign"
         /\ listener' = [listener EXCEPT ![actor[k].con] = TRUE]
         /\ UNCHANGED <<started, queue, running, taskRunner, cRunning, cQueue, arrived, delivered,
                        poisoned, runner>>
<1>0. /\ actor[k].pc = "assign"
      /\ listener' = [listener EXCEPT ![actor[k].con] = TRUE]
      /\ UNCHANGED <<started, queue, running, taskRunner, cRunning, cQueue, arrived, delivered,
                     poisoned, runner>>
  BY DEF AssignListener, At, executor, consumers, locks, history
<1>1. PICK x \in ActorPC :
          /\ x = "redispatch"
  BY DEF ActorPC
<1>2. actor' = [actor EXCEPT ![k].pc = x]
  BY <1>1 DEF AssignListener
<1>3. actor \in [Actors -> ActorState] /\ k \in Actors
  BY DEF TypeOK, Actors
<1> QED
  BY <1>0, <1>1, <1>2, <1>3 DEF ActorState

(* Redispatch: the messages of the consumer are now the thread's. *)
LEMMA RedispatchMoves ==
  ASSUME TypeOK, NEW k \in Controllers, Redispatch(k)
  PROVE  /\ actor' \in [Actors -> ActorState]
         /\ actor'[k].pc = "first" /\ actor'[k].ret = actor[k].ret
         /\ actor'[k].idx = actor[k].idx /\ actor'[k].runner = actor[k].runner
         /\ actor'[k].op = actor[k].op /\ actor'[k].con = actor[k].con
         /\ actor'[k].restart = actor[k].restart
         /\ actor'[k].left = Reverse(cQueue[actor[k].con])
         /\ \A z \in Actors : z # k => actor'[z] = actor[z]
         /\ actor[k].pc = "redispatch"
         /\ cQueue' = [cQueue EXCEPT ![actor[k].con] = <<>>]
         /\ UNCHANGED <<started, queue, running, taskRunner, cRunning, listener, arrived,
                        delivered, poisoned, runner>>
<1>0. /\ actor[k].pc = "redispatch"
      /\ cQueue' = [cQueue EXCEPT ![actor[k].con] = <<>>]
      /\ UNCHANGED <<started, queue, running, taskRunner, cRunning, listener, arrived,
                     delivered, poisoned, runner>>
  BY DEF Redispatch, At, executor, consumers, locks, history
<1>1. PICK x \in ActorPC, s \in Seq(Messages) :
          /\ x = "first" /\ s = Reverse(cQueue[actor[k].con])
  <2>1. Reverse(cQueue[actor[k].con]) \in Seq(Messages)
    BY ReverseOnce DEF TypeOK, Actors, ActorState
  <2> QED
    BY <2>1 DEF ActorPC
<1>2. actor' = [actor EXCEPT ![k].pc = x, ![k].left = s]
  BY <1>1 DEF Redispatch
<1>3. actor \in [Actors -> ActorState] /\ k \in Actors
  BY DEF TypeOK, Actors
<1> QED
  BY <1>0, <1>1, <1>2, <1>3, ZenonT(60) DEF ActorState

(* ExecuteFirst: one of them goes to the front of the queue. *)
LEMMA ExecuteFirstMoves ==
  ASSUME TypeOK, NEW k \in Controllers, ExecuteFirst(k)
  PROVE  /\ actor' \in [Actors -> ActorState]
         /\ actor'[k].pc = "wake" /\ actor'[k].ret = "first"
         /\ actor'[k].idx = actor[k].idx /\ actor'[k].runner = actor[k].runner
         /\ actor'[k].op = actor[k].op /\ actor'[k].con = actor[k].con
         /\ actor'[k].restart = actor[k].restart /\ actor'[k].left = Tail(actor[k].left)
         /\ \A z \in Actors : z # k => actor'[z] = actor[z]
         /\ actor[k].pc = "first"
         /\ actor[k].left # <<>>
         /\ queue' = <<Head(actor[k].left)>> \o queue
         /\ UNCHANGED <<started, running, taskRunner, cRunning, cQueue, listener, arrived,
                        delivered, poisoned, runner>>
<1>0. /\ actor[k].pc = "first"
      /\ actor[k].left # <<>>
      /\ queue' = <<Head(actor[k].left)>> \o queue
      /\ UNCHANGED <<started, running, taskRunner, cRunning, cQueue, listener, arrived,
                     delivered, poisoned, runner>>
  BY DEF ExecuteFirst, At, executor, consumers, locks, history
<1>1. PICK x \in ActorPC, y \in ActorPC, s \in Seq(Messages) :
          /\ x = "wake" /\ y = "first" /\ s = Tail(actor[k].left)
  <2>1. actor[k].left \in Seq(Messages)
    BY DEF TypeOK, Actors, ActorState
  <2>2. Tail(actor[k].left) \in Seq(Messages)
    BY <2>1 DEF ExecuteFirst
  <2> QED
    BY <2>1, <2>2 DEF ActorPC
<1>2. actor' = [actor EXCEPT ![k].pc = x, ![k].ret = y, ![k].left = s]
  BY <1>1 DEF ExecuteFirst
<1>3. actor \in [Actors -> ActorState] /\ k \in Actors
  BY DEF TypeOK, Actors
<1>4. /\ actor' \in [Actors -> ActorState]
      /\ actor'[k].pc = x /\ actor'[k].ret = y /\ actor'[k].idx = actor[k].idx
      /\ actor'[k].runner = actor[k].runner /\ actor'[k].op = actor[k].op
      /\ actor'[k].con = actor[k].con /\ actor'[k].restart = actor[k].restart
      /\ actor'[k].left = s
      /\ \A z \in Actors : z # k => actor'[z] = actor[z]
  BY <1>2, <1>3, ZenonT(60) DEF ActorState
<1> QED
  BY <1>0, <1>1, <1>4

(* RedispatchDone: the session starts again if it was stopped for this. *)
LEMMA RedispatchDoneMoves ==
  ASSUME TypeOK, NEW k \in Controllers, RedispatchDone(k)
  PROVE  /\ actor' \in [Actors -> ActorState]
         /\ actor'[k].pc = (IF actor[k].restart THEN "cstart" ELSE "idle")
         /\ actor'[k].ret = actor[k].ret /\ actor'[k].idx = 1
         /\ actor'[k].runner = actor[k].runner /\ actor'[k].op = actor[k].op
         /\ actor'[k].con = actor[k].con /\ actor'[k].restart = actor[k].restart
         /\ actor'[k].left = actor[k].left
         /\ \A z \in Actors : z # k => actor'[z] = actor[z]
         /\ actor[k].pc = "first"
         /\ actor[k].left = <<>>
         /\ UNCHANGED <<started, queue, running, taskRunner, cRunning, cQueue, listener, arrived,
                        delivered, poisoned, runner>>
<1>0. /\ actor[k].pc = "first"
      /\ actor[k].left = <<>>
      /\ UNCHANGED <<started, queue, running, taskRunner, cRunning, cQueue, listener, arrived,
                     delivered, poisoned, runner>>
  BY DEF RedispatchDone, At, executor, consumers, locks, history
<1>1. PICK x \in ActorPC, i \in Consumers :
          /\ x = (IF actor[k].restart THEN "cstart" ELSE "idle") /\ i = 1
  <2>1. 1 \in Consumers
    BY DispatchAssumption DEF Consumers
  <2> QED
    BY <2>1 DEF ActorPC
<1>2. actor' = [actor EXCEPT ![k].pc = x, ![k].idx = i]
  BY <1>1 DEF RedispatchDone
<1>3. actor \in [Actors -> ActorState] /\ k \in Actors
  BY DEF TypeOK, Actors
<1> QED
  BY <1>0, <1>1, <1>2, <1>3, ZenonT(60) DEF ActorState

(* Top: the runner ends or asks the first consumer. *)
LEMMA TopMoves ==
  ASSUME TypeOK, NEW r \in Runners, Top(r)
  PROVE  /\ runner' \in [Runners -> RunnerState]
         /\ runner'[r].pc = (IF runner[r].shutDown THEN "exited" ELSE "iterate")
         /\ runner'[r].pending = FALSE /\ runner'[r].shutDown = runner[r].shutDown
         /\ runner'[r].idx = 1 /\ runner'[r].msg = runner[r].msg
         /\ runner'[r].fromSession = runner[r].fromSession
         /\ \A z \in Runners : z # r => runner'[z] = runner[z]
         /\ runner[r].pc = "top"
         /\ UNCHANGED <<started, queue, running, taskRunner, cRunning, cQueue, listener, arrived,
                        delivered, poisoned, actor>>
<1>0. /\ runner[r].pc = "top"
      /\ UNCHANGED <<started, queue, running, taskRunner, cRunning, cQueue, listener, arrived,
                     delivered, poisoned, actor>>
  BY DEF Top, At, executor, consumers, locks, history
<1>1. PICK b \in BOOLEAN, i \in Consumers, x \in RunnerPC :
          /\ b = FALSE /\ i = 1
          /\ x = (IF runner[r].shutDown THEN "exited" ELSE "iterate")
  <2>1. 1 \in Consumers
    BY DispatchAssumption DEF Consumers
  <2> QED
    BY <2>1 DEF RunnerPC
<1>2. runner' = [runner EXCEPT ![r].pending = b, ![r].idx = i, ![r].pc = x]
  BY <1>1 DEF Top
<1>3. runner \in [Runners -> RunnerState] /\ r \in Runners
  BY DEF TypeOK, Actors
<1> QED
  BY <1>0, <1>1, <1>2, <1>3 DEF RunnerState

(* IterateConsumer: the consumer is asked. *)
LEMMA IterateConsumerMoves ==
  ASSUME TypeOK, NEW r \in Runners, IterateConsumer(r)
  PROVE  /\ runner' \in [Runners -> RunnerState]
         /\ runner'[r].pc = "dequeue" /\ runner'[r].pending = runner[r].pending
         /\ runner'[r].shutDown = runner[r].shutDown /\ runner'[r].idx = runner[r].idx
         /\ runner'[r].msg = runner[r].msg
         /\ runner'[r].fromSession = runner[r].fromSession
         /\ \A z \in Runners : z # r => runner'[z] = runner[z]
         /\ runner[r].pc = "iterate"
         /\ UNCHANGED <<started, queue, running, taskRunner, cRunning, cQueue, listener, arrived,
                        delivered, poisoned, actor>>
<1>0. /\ runner[r].pc = "iterate"
      /\ UNCHANGED <<started, queue, running, taskRunner, cRunning, cQueue, listener, arrived,
                     delivered, poisoned, actor>>
  BY DEF IterateConsumer, At, executor, consumers, locks, history
<1>1. PICK x \in RunnerPC :
          /\ x = "dequeue"
  BY DEF RunnerPC
<1>2. runner' = [runner EXCEPT ![r].pc = x]
  BY <1>1 DEF IterateConsumer
<1>3. runner \in [Runners -> RunnerState] /\ r \in Runners
  BY DEF TypeOK, Actors
<1> QED
  BY <1>0, <1>1, <1>2, <1>3 DEF RunnerState

(* ConsumerDequeues: the runner has the consumer's first message. *)
LEMMA ConsumerDequeuesMoves ==
  ASSUME TypeOK, NEW r \in Runners, ConsumerDequeues(r)
  PROVE  /\ runner' \in [Runners -> RunnerState]
         /\ runner'[r].pc = "dispatch" /\ runner'[r].pending = runner[r].pending
         /\ runner'[r].shutDown = runner[r].shutDown /\ runner'[r].idx = runner[r].idx
         /\ runner'[r].msg = Head(cQueue[runner[r].idx]) /\ runner'[r].fromSession = FALSE
         /\ \A z \in Runners : z # r => runner'[z] = runner[z]
         /\ runner[r].pc = "dequeue"
         /\ listener[runner[r].idx] /\ cRunning[runner[r].idx] /\ cQueue[runner[r].idx] # <<>>
         /\ cQueue' = [cQueue EXCEPT ![runner[r].idx] = Tail(@)]
         /\ UNCHANGED <<started, queue, running, taskRunner, cRunning, listener, arrived,
                        delivered, poisoned, actor>>
<1>0. /\ runner[r].pc = "dequeue"
      /\ listener[runner[r].idx] /\ cRunning[runner[r].idx] /\ cQueue[runner[r].idx] # <<>>
      /\ cQueue' = [cQueue EXCEPT ![runner[r].idx] = Tail(@)]
      /\ UNCHANGED <<started, queue, running, taskRunner, cRunning, listener, arrived,
                     delivered, poisoned, actor>>
  BY DEF ConsumerDequeues, At, executor, consumers, locks, history
<1>1. PICK x \in RunnerPC, e \in BOOLEAN, m \in Messages \cup {NoMessage} :
          /\ x = "dispatch" /\ e = FALSE /\ m = Head(cQueue[runner[r].idx])
  <2>1. runner[r].idx \in Consumers
    BY DEF TypeOK, RunnerState
  <2>2. cQueue[runner[r].idx] \in Seq(Messages) /\ cQueue[runner[r].idx] # <<>>
    BY <2>1 DEF TypeOK, ConsumerDequeues
  <2>3. Head(cQueue[runner[r].idx]) \in Messages
    BY <2>2
  <2> QED
    BY <2>1, <2>2, <2>3 DEF RunnerPC
<1>2. runner' = [runner EXCEPT ![r].pc = x, ![r].fromSession = e, ![r].msg = m]
  BY <1>1 DEF ConsumerDequeues
<1>3. runner \in [Runners -> RunnerState] /\ r \in Runners
  BY DEF TypeOK, Actors
<1> QED
  BY <1>0, <1>1, <1>2, <1>3, ZenonT(60) DEF RunnerState

(* ConsumerIdle: the next consumer or the queue is asked. *)
LEMMA ConsumerIdleMoves ==
  ASSUME TypeOK, NEW r \in Runners, ConsumerIdle(r)
  PROVE  /\ runner' \in [Runners -> RunnerState]
         /\ runner'[r].pc = (IF runner[r].idx = NumConsumers THEN "take" ELSE "iterate")
         /\ runner'[r].pending = runner[r].pending
         /\ runner'[r].shutDown = runner[r].shutDown
         /\ runner'[r].idx = (IF runner[r].idx = NumConsumers THEN runner[r].idx ELSE runner[r].idx + 1)
         /\ runner'[r].msg = runner[r].msg
         /\ runner'[r].fromSession = runner[r].fromSession
         /\ \A z \in Runners : z # r => runner'[z] = runner[z]
         /\ runner[r].pc = "dequeue"
         /\ UNCHANGED <<started, queue, running, taskRunner, cRunning, cQueue, listener, arrived,
                        delivered, poisoned, actor>>
<1>0. /\ runner[r].pc = "dequeue"
      /\ UNCHANGED <<started, queue, running, taskRunner, cRunning, cQueue, listener, arrived,
                     delivered, poisoned, actor>>
  BY DEF ConsumerIdle, At, executor, consumers, locks, history
<1>1. PICK x \in RunnerPC, i \in Consumers :
          /\ x = (IF runner[r].idx = NumConsumers THEN "take" ELSE "iterate")
          /\ i = (IF runner[r].idx = NumConsumers THEN runner[r].idx ELSE runner[r].idx + 1)
  <2>1. runner[r].idx \in Consumers
    BY DEF TypeOK, RunnerState
  <2>2. runner[r].idx # NumConsumers => runner[r].idx + 1 \in Consumers
    BY <2>1, DispatchAssumption DEF Consumers
  <2> QED
    BY <2>1, <2>2 DEF RunnerPC
<1>2. runner' = [runner EXCEPT ![r].pc = x, ![r].idx = i]
  BY <1>1 DEF ConsumerIdle
<1>3. runner \in [Runners -> RunnerState] /\ r \in Runners
  BY DEF TypeOK, Actors
<1> QED
  BY <1>0, <1>1, <1>2, <1>3, ZenonT(60) DEF RunnerState

(* SessionDequeues: the runner has the first message of the queue. *)
LEMMA SessionDequeuesMoves ==
  ASSUME TypeOK, NEW r \in Runners, SessionDequeues(r)
  PROVE  /\ runner' \in [Runners -> RunnerState]
         /\ runner'[r].pc = "dispatch" /\ runner'[r].pending = runner[r].pending
         /\ runner'[r].shutDown = runner[r].shutDown /\ runner'[r].idx = runner[r].idx
         /\ runner'[r].msg = Head(queue) /\ runner'[r].fromSession = TRUE
         /\ \A z \in Runners : z # r => runner'[z] = runner[z]
         /\ runner[r].pc = "take"
         /\ queue # <<>> /\ queue' = Tail(queue)
         /\ UNCHANGED <<started, running, taskRunner, cRunning, cQueue, listener, arrived,
                        delivered, poisoned, actor>>
<1>0. /\ runner[r].pc = "take"
      /\ queue # <<>> /\ queue' = Tail(queue)
      /\ UNCHANGED <<started, running, taskRunner, cRunning, cQueue, listener, arrived,
                     delivered, poisoned, actor>>
  BY DEF SessionDequeues, At, executor, consumers, locks, history
<1>1. PICK x \in RunnerPC, e \in BOOLEAN, m \in Messages \cup {NoMessage} :
          /\ x = "dispatch" /\ e = TRUE /\ m = Head(queue)
  <2>1. Head(queue) \in Messages
    BY DEF TypeOK, SessionDequeues
  <2> QED
    BY <2>1 DEF RunnerPC
<1>2. runner' = [runner EXCEPT ![r].pc = x, ![r].fromSession = e, ![r].msg = m]
  BY <1>1 DEF SessionDequeues
<1>3. runner \in [Runners -> RunnerState] /\ r \in Runners
  BY DEF TypeOK, Actors
<1> QED
  BY <1>0, <1>1, <1>2, <1>3, ZenonT(60) DEF RunnerState

(* SessionIdle: the runner goes to sleep. *)
LEMMA SessionIdleMoves ==
  ASSUME TypeOK, NEW r \in Runners, SessionIdle(r)
  PROVE  /\ runner' \in [Runners -> RunnerState]
         /\ runner'[r].pc = "sleep" /\ runner'[r].pending = runner[r].pending
         /\ runner'[r].shutDown = runner[r].shutDown /\ runner'[r].idx = runner[r].idx
         /\ runner'[r].msg = runner[r].msg
         /\ runner'[r].fromSession = runner[r].fromSession
         /\ \A z \in Runners : z # r => runner'[z] = runner[z]
         /\ runner[r].pc = "take"
         /\ UNCHANGED <<started, queue, running, taskRunner, cRunning, cQueue, listener, arrived,
                        delivered, poisoned, actor>>
<1>0. /\ runner[r].pc = "take"
      /\ UNCHANGED <<started, queue, running, taskRunner, cRunning, cQueue, listener, arrived,
                     delivered, poisoned, actor>>
  BY DEF SessionIdle, At, executor, consumers, locks, history
<1>1. PICK x \in RunnerPC :
          /\ x = "sleep"
  BY DEF RunnerPC
<1>2. runner' = [runner EXCEPT ![r].pc = x]
  BY <1>1 DEF SessionIdle
<1>3. runner \in [Runners -> RunnerState] /\ r \in Runners
  BY DEF TypeOK, Actors
<1> QED
  BY <1>0, <1>1, <1>2, <1>3 DEF RunnerState

(* DispatchFresh: the runner keeps its message. *)
LEMMA DispatchFreshMoves ==
  ASSUME TypeOK, NEW r \in Runners, DispatchFresh(r)
  PROVE  /\ runner' \in [Runners -> RunnerState]
         /\ runner'[r].pc = "deliver" /\ runner'[r].pending = runner[r].pending
         /\ runner'[r].shutDown = runner[r].shutDown /\ runner'[r].idx = runner[r].idx
         /\ runner'[r].msg = runner[r].msg
         /\ runner'[r].fromSession = runner[r].fromSession
         /\ \A z \in Runners : z # r => runner'[z] = runner[z]
         /\ runner[r].pc = "dispatch"
         /\ UNCHANGED <<started, queue, running, taskRunner, cRunning, cQueue, listener, arrived,
                        delivered, poisoned, actor>>
<1>0. /\ runner[r].pc = "dispatch"
      /\ UNCHANGED <<started, queue, running, taskRunner, cRunning, cQueue, listener, arrived,
                     delivered, poisoned, actor>>
  BY DEF DispatchFresh, At, executor, consumers, locks, history
<1>1. PICK x \in RunnerPC :
          /\ x = "deliver"
  BY DEF RunnerPC
<1>2. runner' = [runner EXCEPT ![r].pc = x]
  BY <1>1 DEF DispatchFresh
<1>3. runner \in [Runners -> RunnerState] /\ r \in Runners
  BY DEF TypeOK, Actors
<1> QED
  BY <1>0, <1>1, <1>2, <1>3 DEF RunnerState

(* DispatchDuplicate: the message is poison. *)
LEMMA DispatchDuplicateMoves ==
  ASSUME TypeOK, NEW r \in Runners, DispatchDuplicate(r)
  PROVE  /\ runner' \in [Runners -> RunnerState]
         /\ runner'[r].pc = (IF runner[r].fromSession THEN "more" ELSE "top")
         /\ runner'[r].pending = runner[r].pending
         /\ runner'[r].shutDown = runner[r].shutDown /\ runner'[r].idx = runner[r].idx
         /\ runner'[r].msg = NoMessage /\ runner'[r].fromSession = runner[r].fromSession
         /\ \A z \in Runners : z # r => runner'[z] = runner[z]
         /\ runner[r].pc = "dispatch"
         /\ poisoned' = poisoned \cup {runner[r].msg}
         /\ UNCHANGED <<started, queue, running, taskRunner, cRunning, cQueue, listener, arrived,
                        delivered, actor>>
<1>0. /\ runner[r].pc = "dispatch"
      /\ poisoned' = poisoned \cup {runner[r].msg}
      /\ UNCHANGED <<started, queue, running, taskRunner, cRunning, cQueue, listener, arrived,
                     delivered, actor>>
  BY DEF DispatchDuplicate, At, executor, consumers, locks, history
<1>1. PICK x \in RunnerPC, m \in Messages \cup {NoMessage} :
          /\ x = (IF runner[r].fromSession THEN "more" ELSE "top") /\ m = NoMessage
  BY DEF RunnerPC, DispatchReturns
<1>2. runner' = [runner EXCEPT ![r].pc = x, ![r].msg = m]
  BY <1>1 DEF DispatchDuplicate, DispatchReturns
<1>3. runner \in [Runners -> RunnerState] /\ r \in Runners
  BY DEF TypeOK, Actors
<1> QED
  BY <1>0, <1>1, <1>2, <1>3, ZenonT(60) DEF RunnerState

(* OnMessage: the message is with the listener. *)
LEMMA OnMessageMoves ==
  ASSUME TypeOK, NEW r \in Runners, OnMessage(r)
  PROVE  /\ runner' \in [Runners -> RunnerState]
         /\ runner'[r].pc = "listener" /\ runner'[r].pending = runner[r].pending
         /\ runner'[r].shutDown = runner[r].shutDown /\ runner'[r].idx = runner[r].idx
         /\ runner'[r].msg = runner[r].msg
         /\ runner'[r].fromSession = runner[r].fromSession
         /\ \A z \in Runners : z # r => runner'[z] = runner[z]
         /\ runner[r].pc = "deliver"
         /\ delivered' = Append(delivered, runner[r].msg)
         /\ UNCHANGED <<started, queue, running, taskRunner, cRunning, cQueue, listener, arrived,
                        poisoned, actor>>
<1>0. /\ runner[r].pc = "deliver"
      /\ delivered' = Append(delivered, runner[r].msg)
      /\ UNCHANGED <<started, queue, running, taskRunner, cRunning, cQueue, listener, arrived,
                     poisoned, actor>>
  BY DEF OnMessage, At, executor, consumers, locks, history
<1>1. PICK x \in RunnerPC :
          /\ x = "listener"
  BY DEF RunnerPC
<1>2. runner' = [runner EXCEPT ![r].pc = x]
  BY <1>1 DEF OnMessage
<1>3. runner \in [Runners -> RunnerState] /\ r \in Runners
  BY DEF TypeOK, Actors
<1> QED
  BY <1>0, <1>1, <1>2, <1>3 DEF RunnerState

(* Park: the message is with its consumer. *)
LEMMA ParkMoves ==
  ASSUME TypeOK, NEW r \in Runners, Park(r)
  PROVE  /\ runner' \in [Runners -> RunnerState]
         /\ runner'[r].pc = (IF runner[r].fromSession THEN "more" ELSE "top")
         /\ runner'[r].pending = runner[r].pending
         /\ runner'[r].shutDown = runner[r].shutDown /\ runner'[r].idx = runner[r].idx
         /\ runner'[r].msg = NoMessage /\ runner'[r].fromSession = runner[r].fromSession
         /\ \A z \in Runners : z # r => runner'[z] = runner[z]
         /\ runner[r].pc = "deliver"
         /\ cQueue' = [cQueue EXCEPT ![Target[runner[r].msg]] = Append(@, runner[r].msg)]
         /\ ~(listener[Target[runner[r].msg]] /\ cRunning[Target[runner[r].msg]])
         /\ UNCHANGED <<started, queue, running, taskRunner, cRunning, listener, arrived,
                        delivered, poisoned, actor>>
<1>0. /\ runner[r].pc = "deliver"
      /\ cQueue' = [cQueue EXCEPT ![Target[runner[r].msg]] = Append(@, runner[r].msg)]
      /\ ~(listener[Target[runner[r].msg]] /\ cRunning[Target[runner[r].msg]])
      /\ UNCHANGED <<started, queue, running, taskRunner, cRunning, listener, arrived,
                     delivered, poisoned, actor>>
  BY DEF Park, At, executor, consumers, locks, history
<1>1. PICK x \in RunnerPC, m \in Messages \cup {NoMessage} :
          /\ x = (IF runner[r].fromSession THEN "more" ELSE "top") /\ m = NoMessage
  BY DEF RunnerPC, DispatchReturns
<1>2. runner' = [runner EXCEPT ![r].pc = x, ![r].msg = m]
  BY <1>1 DEF Park, DispatchReturns
<1>3. runner \in [Runners -> RunnerState] /\ r \in Runners
  BY DEF TypeOK, Actors
<1> QED
  BY <1>0, <1>1, <1>2, <1>3, ZenonT(60) DEF RunnerState

(* OnMessageReturns: the runner is without a message. *)
LEMMA OnMessageReturnsMoves ==
  ASSUME TypeOK, NEW r \in Runners, OnMessageReturns(r)
  PROVE  /\ runner' \in [Runners -> RunnerState]
         /\ runner'[r].pc = (IF runner[r].fromSession THEN "more" ELSE "top")
         /\ runner'[r].pending = runner[r].pending
         /\ runner'[r].shutDown = runner[r].shutDown /\ runner'[r].idx = runner[r].idx
         /\ runner'[r].msg = NoMessage /\ runner'[r].fromSession = runner[r].fromSession
         /\ \A z \in Runners : z # r => runner'[z] = runner[z]
         /\ runner[r].pc = "listener"
         /\ UNCHANGED <<started, queue, running, taskRunner, cRunning, cQueue, listener, arrived,
                        delivered, poisoned, actor>>
<1>0. /\ runner[r].pc = "listener"
      /\ UNCHANGED <<started, queue, running, taskRunner, cRunning, cQueue, listener, arrived,
                     delivered, poisoned, actor>>
  BY DEF OnMessageReturns, At, executor, consumers, locks, history
<1>1. PICK x \in RunnerPC, m \in Messages \cup {NoMessage} :
          /\ x = (IF runner[r].fromSession THEN "more" ELSE "top") /\ m = NoMessage
  BY DEF RunnerPC, DispatchReturns
<1>2. runner' = [runner EXCEPT ![r].pc = x, ![r].msg = m]
  BY <1>1 DEF OnMessageReturns, DispatchReturns
<1>3. runner \in [Runners -> RunnerState] /\ r \in Runners
  BY DEF TypeOK, Actors
<1> QED
  BY <1>0, <1>1, <1>2, <1>3, ZenonT(60) DEF RunnerState

(* More: once more or to sleep. *)
LEMMA MoreMoves ==
  ASSUME TypeOK, NEW r \in Runners, More(r)
  PROVE  /\ runner' \in [Runners -> RunnerState]
         /\ runner'[r].pc = (IF queue # <<>> THEN "top" ELSE "sleep")
         /\ runner'[r].pending = runner[r].pending
         /\ runner'[r].shutDown = runner[r].shutDown /\ runner'[r].idx = runner[r].idx
         /\ runner'[r].msg = runner[r].msg
         /\ runner'[r].fromSession = runner[r].fromSession
         /\ \A z \in Runners : z # r => runner'[z] = runner[z]
         /\ runner[r].pc = "more"
         /\ UNCHANGED <<started, queue, running, taskRunner, cRunning, cQueue, listener, arrived,
                        delivered, poisoned, actor>>
<1>0. /\ runner[r].pc = "more"
      /\ UNCHANGED <<started, queue, running, taskRunner, cRunning, cQueue, listener, arrived,
                     delivered, poisoned, actor>>
  BY DEF More, At, executor, consumers, locks, history
<1>1. PICK x \in RunnerPC :
          /\ x = (IF queue # <<>> THEN "top" ELSE "sleep")
  BY DEF RunnerPC
<1>2. runner' = [runner EXCEPT ![r].pc = x]
  BY <1>1 DEF More
<1>3. runner \in [Runners -> RunnerState] /\ r \in Runners
  BY DEF TypeOK, Actors
<1> QED
  BY <1>0, <1>1, <1>2, <1>3 DEF RunnerState

(* Awake: back to the top. *)
LEMMA AwakeMoves ==
  ASSUME TypeOK, NEW r \in Runners, Awake(r)
  PROVE  /\ runner' \in [Runners -> RunnerState]
         /\ runner'[r].pc = "top" /\ runner'[r].pending = runner[r].pending
         /\ runner'[r].shutDown = runner[r].shutDown /\ runner'[r].idx = runner[r].idx
         /\ runner'[r].msg = runner[r].msg
         /\ runner'[r].fromSession = runner[r].fromSession
         /\ \A z \in Runners : z # r => runner'[z] = runner[z]
         /\ runner[r].pc = "sleep"
         /\ UNCHANGED <<started, queue, running, taskRunner, cRunning, cQueue, listener, arrived,
                        delivered, poisoned, actor>>
<1>0. /\ runner[r].pc = "sleep"
      /\ UNCHANGED <<started, queue, running, taskRunner, cRunning, cQueue, listener, arrived,
                     delivered, poisoned, actor>>
  BY DEF Awake, At, executor, consumers, locks, history
<1>1. PICK x \in RunnerPC :
          /\ x = "top"
  BY DEF RunnerPC
<1>2. runner' = [runner EXCEPT ![r].pc = x]
  BY <1>1 DEF Awake
<1>3. runner \in [Runners -> RunnerState] /\ r \in Runners
  BY DEF TypeOK, Actors
<1> QED
  BY <1>0, <1>1, <1>2, <1>3 DEF RunnerState
(* A new runner, of which the thread that made it knows. *)
LEMMA WakeupCreatesRunnerMoves ==
  ASSUME TypeOK, NEW a \in Actors, WakeupCreatesRunner(a)
  PROVE  /\ actor[a].pc = "wake" /\ taskRunner = NoRunner /\ running
         /\ UNCHANGED <<started, queue, running, cRunning, cQueue, listener, arrived, delivered, poisoned>>
         /\ \E r \in Runners :
            /\ runner[r].pc = "new" /\ taskRunner' = r
            /\ actor' \in [Actors -> ActorState]
            /\ actor'[a].pc = "notify" /\ actor'[a].ret = actor[a].ret
            /\ actor'[a].idx = actor[a].idx /\ actor'[a].runner = r
            /\ actor'[a].op = actor[a].op /\ actor'[a].con = actor[a].con
            /\ actor'[a].restart = actor[a].restart /\ actor'[a].left = actor[a].left
            /\ \A z \in Actors : z # a => actor'[z] = actor[z]
            /\ runner' \in [Runners -> RunnerState]
            /\ runner'[r].pc = "top" /\ runner'[r].msg = runner[r].msg
            /\ \A z \in Runners : z # r => runner'[z] = runner[z]
<1>0. /\ actor[a].pc = "wake" /\ taskRunner = NoRunner /\ running
      /\ UNCHANGED <<started, queue, running, cRunning, cQueue, listener, arrived, delivered, poisoned>>
  BY DEF WakeupCreatesRunner, consumers, history
<1>1. PICK r \in Runners :
         /\ runner[r].pc = "new"
         /\ runner' = [runner EXCEPT ![r].pc = "top", ![r].pending = TRUE]
         /\ taskRunner' = r
         /\ actor' = [actor EXCEPT ![a].pc = "notify", ![a].runner = r]
  BY DEF WakeupCreatesRunner
<1>2. actor \in [Actors -> ActorState] /\ runner \in [Runners -> RunnerState]
  BY DEF TypeOK
<1>3. PICK x \in ActorPC, q \in Runners \cup {NoRunner} : x = "notify" /\ q = r
  BY DEF ActorPC
<1>4. actor' = [actor EXCEPT ![a].pc = x, ![a].runner = q]
  BY <1>1, <1>3
<1>5. /\ actor' \in [Actors -> ActorState]
      /\ actor'[a].pc = x /\ actor'[a].ret = actor[a].ret
      /\ actor'[a].idx = actor[a].idx /\ actor'[a].runner = q
      /\ actor'[a].op = actor[a].op /\ actor'[a].con = actor[a].con
      /\ actor'[a].restart = actor[a].restart /\ actor'[a].left = actor[a].left
      /\ \A z \in Actors : z # a => actor'[z] = actor[z]
  BY <1>2, <1>4 DEF ActorState
<1>6. PICK y \in RunnerPC, b \in BOOLEAN : y = "top" /\ b = TRUE
  BY DEF RunnerPC
<1>7. runner' = [runner EXCEPT ![r].pc = y, ![r].pending = b]
  BY <1>1, <1>6
<1>8. /\ runner' \in [Runners -> RunnerState]
      /\ runner'[r].pc = y /\ runner'[r].msg = runner[r].msg
      /\ \A z \in Runners : z # r => runner'[z] = runner[z]
  BY <1>2, <1>7 DEF RunnerState
<1> QED
  BY <1>0, <1>1, <1>3, <1>5, <1>6, <1>8

(* Setting the flags of a runner moves no thread. *)
LEMMA WakeupNotifiesRunner ==
  ASSUME TypeOK, NEW a \in Actors, actor[a].runner \in Runners, WakeupNotifies(a)
  PROVE  /\ runner' \in [Runners -> RunnerState]
         /\ \A z \in Runners : runner'[z].pc = runner[z].pc /\ runner'[z].msg = runner[z].msg
<1>1. PICK r \in Runners, b \in BOOLEAN :
         r = actor[a].runner /\ b = (runner[r].pending \/ ~runner[r].shutDown)
  OBVIOUS
<1>2. runner' = [runner EXCEPT ![r].pending = b]
  BY <1>1 DEF WakeupNotifies
<1>3. runner \in [Runners -> RunnerState]
  BY DEF TypeOK
<1> QED
  BY <1>2, <1>3 DEF RunnerState

(* Neither does the shutdown: it sets flags. *)
LEMMA RunnerShutdownRunner ==
  ASSUME TypeOK, NEW k \in Controllers, actor[k].runner \in Runners, RunnerShutdown(k)
  PROVE  /\ runner' \in [Runners -> RunnerState]
         /\ \A z \in Runners : runner'[z].pc = runner[z].pc /\ runner'[z].msg = runner[z].msg
<1>1. PICK r \in Runners, b \in BOOLEAN, d \in BOOLEAN :
         r = actor[k].runner /\ b = TRUE /\ d = TRUE
  OBVIOUS
<1>2. runner' = [runner EXCEPT ![r].pending = b, ![r].shutDown = d]
  BY <1>1 DEF RunnerShutdown
<1>3. runner \in [Runners -> RunnerState]
  BY DEF TypeOK
<1>4. /\ runner' \in [Runners -> RunnerState]
      /\ runner'[r].pc = runner[r].pc /\ runner'[r].msg = runner[r].msg
      /\ \A z \in Runners : z # r => runner'[z] = runner[z]
  BY <1>2, <1>3, ZenonT(60) DEF RunnerState
<1> QED
  BY <1>4

-----------------------------------------------------------------------------
(* Types are kept by a step of a controller or of the dispatcher ... *)
LEMMA ActorType ==
  ASSUME TypeOK, InCall
  PROVE  /\ \A m \in Messages : Execute(m) => TypeOK'
         /\ \A a \in Actors : WakeupStep(a) => TypeOK'
         /\ \A k \in Controllers :
               /\ ConnectionStart(k) \/ ConnectionStop(k) => TypeOK'
               /\ \A c \in Consumers : SetMessageListener(k, c) => TypeOK'
               /\ CallStep(k) => TypeOK'
<1> USE DEF executor, consumers, locks, history
<1>0. Controllers \subseteq Actors /\ NoRunner \notin Runners
  BY DispatchAssumption DEF Actors
<1>1. ASSUME NEW m \in Messages, Execute(m) PROVE TypeOK'
  <2>1. arrived' \in Seq(Messages) /\ queue' \in Seq(Messages)
    BY <1>1 DEF Execute, TypeOK
  <2> QED
    BY <1>1, <2>1, ExecuteMoves DEF Execute, TypeOK
<1>2. ASSUME NEW a \in Actors, WakeupStep(a) PROVE TypeOK'
  <2>1. CASE WakeupFindsRunner(a)
    BY <2>1, WakeupFindsRunnerMoves DEF WakeupFindsRunner, TypeOK
  <2>2. CASE WakeupStopped(a)
    BY <2>2, WakeupStoppedMoves DEF WakeupStopped, TypeOK
  <2>3. CASE WakeupCreatesRunner(a)
    <3>1. /\ taskRunner' \in Runners \cup {NoRunner}
          /\ actor' \in [Actors -> ActorState] /\ runner' \in [Runners -> RunnerState]
      BY <2>3, WakeupCreatesRunnerMoves
    <3> QED
      BY <2>3, <3>1 DEF WakeupCreatesRunner, TypeOK
  <2>4. CASE WakeupNotifies(a)
    <3>1. actor[a].runner \in Runners
      BY <2>4 DEF WakeupNotifies, InCall
    <3> QED
      BY <2>4, <3>1, WakeupNotifiesMoves, WakeupNotifiesRunner DEF WakeupNotifies, TypeOK
  <2> QED
    BY <1>2, <2>1, <2>2, <2>3, <2>4 DEF WakeupStep
<1>3. ASSUME NEW k \in Controllers, ConnectionStart(k) \/ ConnectionStop(k) PROVE TypeOK'
  <2>1. started' \in BOOLEAN /\ ops < MaxOps /\ ops' = ops + 1
    BY <1>3 DEF ConnectionStart, ConnectionStop, CallBegins
  <2>3. ops' \in 0..MaxOps
    BY <2>1, DispatchAssumption DEF TypeOK
  <2>2. actor' \in [Actors -> ActorState]
    BY <1>3, ConnectionStartMoves, ConnectionStopMoves
  <2>4. overlapped' \in BOOLEAN
    BY <1>3 DEF ConnectionStart, ConnectionStop, CallBegins
  <2> QED
    BY <1>3, <2>1, <2>2, <2>3, <2>4 DEF ConnectionStart, ConnectionStop, TypeOK
<1>4. ASSUME NEW k \in Controllers, NEW c \in Consumers, SetMessageListener(k, c) PROVE TypeOK'
  <2>1. ops' \in 0..MaxOps
    BY <1>4, DispatchAssumption DEF SetMessageListener, CallBegins, TypeOK
  <2>2. overlapped' \in BOOLEAN
    BY <1>4 DEF SetMessageListener, CallBegins
  <2> QED
    BY <1>4, <2>1, <2>2, SetMessageListenerMoves DEF SetMessageListener, TypeOK
<1>5. ASSUME NEW k \in Controllers, CallStep(k) PROVE TypeOK'
  <2>1. CASE WakeupStep(k)
    BY <1>0, <1>2, <2>1
  <2>2. CASE ConsumerStart(k)
    <3>1. cRunning' \in [Consumers -> BOOLEAN]
      BY <2>2 DEF ConsumerStart, TypeOK
    <3> QED
      BY <2>2, <3>1, ConsumerStartMoves DEF ConsumerStart, TypeOK
  <2>3. CASE ExecutorStart(k)
    BY <2>3, ExecutorStartMoves DEF ExecutorStart, TypeOK
  <2>4. CASE WakeIfQueued(k)
    BY <2>4, WakeIfQueuedMoves DEF WakeIfQueued, TypeOK
  <2>5. CASE ConsumerStop(k)
    <3>1. cRunning' \in [Consumers -> BOOLEAN]
      BY <2>5 DEF ConsumerStop, TypeOK
    <3> QED
      BY <2>5, <3>1, ConsumerStopMoves DEF ConsumerStop, TypeOK
  <2>6. CASE ExecutorStop(k)
    BY <2>6, ExecutorStopMoves DEF ExecutorStop, TypeOK
  <2>7. CASE RunnerShutdown(k)
    <3>1. actor[k].runner \in Runners
      BY <1>0, <2>7 DEF RunnerShutdown, InCall
    <3> QED
      BY <2>7, <3>1, RunnerShutdownMoves, RunnerShutdownRunner DEF RunnerShutdown, TypeOK
  <2>8. CASE RunnerJoined(k)
    BY <2>8, RunnerJoinedMoves DEF RunnerJoined, TypeOK
  <2>9. CASE AssignListener(k)
    <3>1. listener' \in [Consumers -> BOOLEAN]
      BY <2>9 DEF AssignListener, TypeOK
    <3> QED
      BY <2>9, <3>1, AssignListenerMoves DEF AssignListener, TypeOK
  <2>10. CASE Redispatch(k)
    <3>1. cQueue' \in [Consumers -> Seq(Messages)]
      <4>1. <<>> \in Seq(Messages)
        OBVIOUS
      <4> QED
        BY <2>10, <4>1 DEF Redispatch, TypeOK
    <3> QED
      BY <2>10, <3>1, RedispatchMoves DEF Redispatch, TypeOK
  <2>11. CASE ExecuteFirst(k)
    <3>1. actor[k].left \in Seq(Messages) /\ actor[k].left # <<>>
      BY <1>0, <2>11 DEF ExecuteFirst, TypeOK, ActorState
    <3>2. queue' \in Seq(Messages)
      BY <2>11, <3>1, TailOnce, PrependOnce DEF ExecuteFirst, TypeOK
    <3> QED
      BY <2>11, <3>2, ExecuteFirstMoves DEF ExecuteFirst, TypeOK
  <2>12. CASE RedispatchDone(k)
    BY <2>12, RedispatchDoneMoves DEF RedispatchDone, TypeOK
  <2> QED
    BY <1>5, <2>1, <2>2, <2>3, <2>4, <2>5, <2>6, <2>7, <2>8, <2>9, <2>10, <2>11, <2>12
       DEF CallStep
<1> QED
  BY <1>1, <1>2, <1>3, <1>4, <1>5

(* ... and by a step of a runner. *)
LEMMA RunnerType == ASSUME TypeOK, NoCopies, NEW r \in Runners, RunnerStep(r) PROVE TypeOK'
<1> USE DEF executor, consumers, locks, history
<1>1. runner' \in [Runners -> RunnerState]
  BY TopMoves, IterateConsumerMoves, ConsumerDequeuesMoves, ConsumerIdleMoves,
     SessionDequeuesMoves, SessionIdleMoves, DispatchFreshMoves, DispatchDuplicateMoves,
     OnMessageMoves, ParkMoves, OnMessageReturnsMoves, MoreMoves, AwakeMoves
     DEF RunnerStep
<1>2. runner[r].idx \in Consumers
  BY DEF TypeOK, RunnerState
<1>3. runner[r].pc \in {"dispatch", "deliver"} =>
         runner[r].msg \in Messages /\ Target[runner[r].msg] \in Consumers
  BY DispatchAssumption DEF NoCopies
<1>4. CASE Top(r) \/ SessionIdle(r) \/ More(r) \/ Awake(r)
  BY <1>1, <1>4 DEF Top, SessionIdle, More, Awake, TypeOK
<1>5. CASE IterateConsumer(r) \/ ConsumerIdle(r)
  <2>1. lsnLock' \in [Consumers -> Runners \cup {NoRunner}]
    BY <1>2, <1>5 DEF IterateConsumer, ConsumerIdle, TypeOK
  <2> QED
    BY <1>1, <1>5, <2>1 DEF IterateConsumer, ConsumerIdle, TypeOK
<1>6. CASE ConsumerDequeues(r)
  <2>1. cQueue' \in [Consumers -> Seq(Messages)]
    BY <1>2, <1>6, TailOnce DEF ConsumerDequeues, TypeOK
  <2> QED
    BY <1>1, <1>6, <2>1 DEF ConsumerDequeues, TypeOK
<1>7. CASE SessionDequeues(r)
  <2>1. queue' \in Seq(Messages)
    BY <1>7, TailOnce DEF SessionDequeues, TypeOK
  <2> QED
    BY <1>1, <1>7, <2>1 DEF SessionDequeues, TypeOK
<1>8. CASE DispatchFresh(r)
  <2>1. audit' \subseteq Messages /\ chanLock' \in [Consumers -> Runners \cup {NoRunner}]
    BY <1>3, <1>8 DEF DispatchFresh, At, TypeOK
  <2> QED
    BY <1>1, <1>8, <2>1 DEF DispatchFresh, TypeOK
<1>9. ASSUME DispatchReturns(r)
      PROVE  /\ chanLock' \in [Consumers -> Runners \cup {NoRunner}]
             /\ lsnLock' \in [Consumers -> Runners \cup {NoRunner}]
  BY <1>9 DEF DispatchReturns, TypeOK
<1>10. CASE DispatchDuplicate(r)
  <2>1. poisoned' \subseteq Messages
    BY <1>3, <1>10 DEF DispatchDuplicate, At, TypeOK
  <2>2. DispatchReturns(r)
    BY <1>10 DEF DispatchDuplicate
  <2> QED
    BY <1>1, <1>9, <1>10, <2>1, <2>2 DEF DispatchDuplicate, TypeOK
<1>11. CASE OnMessage(r)
  <2>1. /\ delivered' \in Seq(Messages)
        /\ lsnLock' \in [Consumers -> Runners \cup {NoRunner}]
    BY <1>3, <1>11 DEF OnMessage, At, TypeOK
  <2> QED
    BY <1>1, <1>11, <2>1 DEF OnMessage, TypeOK
<1>12. CASE Park(r)
  <2>1. audit' \subseteq Messages /\ missed' \subseteq Messages
    BY <1>3, <1>12 DEF Park, At, TypeOK
  <2>2. cQueue' \in [Consumers -> Seq(Messages)]
    BY <1>3, <1>12 DEF Park, At, TypeOK
  <2>3. DispatchReturns(r)
    BY <1>12 DEF Park
  <2> QED
    BY <1>1, <1>9, <1>12, <2>1, <2>2, <2>3 DEF Park, TypeOK
<1>13. CASE OnMessageReturns(r)
  <2>1. DispatchReturns(r)
    BY <1>13 DEF OnMessageReturns
  <2> QED
    BY <1>1, <1>9, <1>13, <2>1 DEF OnMessageReturns, TypeOK
<1> QED
  BY <1>4, <1>5, <1>6, <1>7, <1>8, <1>10, <1>11, <1>12, <1>13 DEF RunnerStep
-----------------------------------------------------------------------------
(* InCall: only the thread that moves matters. *)
LEMMA InCallKept ==
  ASSUME InCall, NEW a \in Actors,
         \A z \in Actors : z # a => actor'[z] = actor[z],
         actor'[a].pc \in {"notify", "shutdown", "join"} => actor'[a].runner \in Runners,
         actor'[a].ret \in {"idle", "cstart", "xstart", "first"},
         a \in Controllers =>
            /\ Doing(a, Stopping)' => actor'[a].op \in {"stop", "listen"}
            /\ Doing(a, Assigning)' => actor'[a].op = "listen"
            /\ actor'[a].left # <<>> => Doing(a, {"first"})'
  PROVE  InCall'
<1>1. Controllers \subseteq Actors
  BY DEF Actors
<1> QED
  BY <1>1 DEF InCall, Doing

(* InCall is kept by every thread that is not a runner. *)
LEMMA ActorInCall ==
  ASSUME TypeOK, InCall
  PROVE  /\ \A m \in Messages : Execute(m) => InCall'
         /\ \A a \in Actors : WakeupStep(a) => InCall'
         /\ \A k \in Controllers :
               /\ ConnectionStart(k) \/ ConnectionStop(k) => InCall'
               /\ \A c \in Consumers : SetMessageListener(k, c) => InCall'
               /\ CallStep(k) => InCall'
<1> USE DEF Stopping, Assigning
<1>0. /\ Controllers \subseteq Actors /\ NoRunner \notin Runners
      /\ Dispatcher \in Actors /\ Dispatcher \notin Controllers
  BY DispatchAssumption DEF Actors
<1>1. ASSUME NEW m \in Messages, Execute(m) PROVE InCall'
  BY <1>0, <1>1, ExecuteMoves, InCallKept DEF Execute
<1>2. ASSUME NEW a \in Actors, WakeupStep(a) PROVE InCall'
  <2>1. CASE WakeupFindsRunner(a)
    <3>1. taskRunner \in Runners
      BY <2>1 DEF WakeupFindsRunner, TypeOK
    <3> QED
      BY <2>1, <3>1, WakeupFindsRunnerMoves, InCallKept DEF InCall, Doing
  <2>2. CASE WakeupStopped(a)
    BY <2>2, WakeupStoppedMoves, InCallKept DEF InCall, Doing
  <2>3. CASE WakeupCreatesRunner(a)
    <3>1. /\ actor'[a].pc = "notify" /\ actor'[a].ret = actor[a].ret /\ actor'[a].op = actor[a].op
          /\ actor'[a].runner \in Runners /\ actor'[a].left = actor[a].left /\ actor[a].pc = "wake"
          /\ \A z \in Actors : z # a => actor'[z] = actor[z]
      BY <2>3, WakeupCreatesRunnerMoves
    <3> QED
      BY <3>1, InCallKept DEF InCall, Doing
  <2>4. CASE WakeupNotifies(a)
    BY <2>4, WakeupNotifiesMoves, InCallKept DEF InCall, Doing
  <2> QED
    BY <1>2, <2>1, <2>2, <2>3, <2>4 DEF WakeupStep
<1>3. ASSUME NEW k \in Controllers, ConnectionStart(k) PROVE InCall'
  BY <1>0, <1>3, ConnectionStartMoves, InCallKept DEF InCall, Doing
<1>4. ASSUME NEW k \in Controllers, ConnectionStop(k) PROVE InCall'
  BY <1>0, <1>4, ConnectionStopMoves, InCallKept DEF InCall, Doing
<1>5. ASSUME NEW k \in Controllers, NEW c \in Consumers, SetMessageListener(k, c) PROVE InCall'
  BY <1>0, <1>5, SetMessageListenerMoves, InCallKept DEF InCall, Doing
<1>6. ASSUME NEW k \in Controllers, CallStep(k) PROVE InCall'
  <2>1. CASE WakeupStep(k)
    BY <1>0, <1>2, <2>1
  <2>2. CASE ConsumerStart(k)
    BY <1>0, <2>2, ConsumerStartMoves, InCallKept DEF InCall, Doing
  <2>3. CASE ExecutorStart(k)
    BY <1>0, <2>3, ExecutorStartMoves, InCallKept DEF InCall, Doing
  <2>4. CASE WakeIfQueued(k)
    BY <1>0, <2>4, WakeIfQueuedMoves, InCallKept DEF InCall, Doing
  <2>5. CASE ConsumerStop(k)
    BY <1>0, <2>5, ConsumerStopMoves, InCallKept DEF InCall, Doing
  <2>6. CASE ExecutorStop(k)
    <3>1. taskRunner \in Runners \cup {NoRunner}
      BY DEF TypeOK
    <3>2. AfterStop(k) = IF actor[k].op = "stop" THEN "idle" ELSE "assign"
      BY DEF AfterStop
    <3> QED
      BY <1>0, <2>6, <3>1, <3>2, ExecutorStopMoves, InCallKept DEF InCall, Doing
  <2>7. CASE RunnerShutdown(k)
    BY <1>0, <2>7, RunnerShutdownMoves, InCallKept DEF InCall, Doing
  <2>8. CASE RunnerJoined(k)
    BY <1>0, <2>8, RunnerJoinedMoves, InCallKept DEF InCall, Doing, AfterStop
  <2>9. CASE AssignListener(k)
    BY <1>0, <2>9, AssignListenerMoves, InCallKept DEF InCall, Doing
  <2>10. CASE Redispatch(k)
    BY <1>0, <2>10, RedispatchMoves, InCallKept DEF InCall, Doing
  <2>11. CASE ExecuteFirst(k)
    <3>1. /\ actor'[k].pc = "wake" /\ actor'[k].ret = "first" /\ actor'[k].op = actor[k].op
          /\ actor[k].pc = "first" /\ \A z \in Actors : z # k => actor'[z] = actor[z]
      BY <2>11, ExecuteFirstMoves
    <3> QED
      BY <1>0, <3>1, InCallKept DEF InCall, Doing
  <2>12. CASE RedispatchDone(k)
    BY <1>0, <2>12, RedispatchDoneMoves, InCallKept DEF InCall, Doing
  <2> QED
    BY <1>6, <2>1, <2>2, <2>3, <2>4, <2>5, <2>6, <2>7, <2>8, <2>9, <2>10, <2>11, <2>12 DEF CallStep
<1> QED
  BY <1>1, <1>2, <1>3, <1>4, <1>5, <1>6
-----------------------------------------------------------------------------
(* Conserved: steps that leave every message where it is. *)
LEMMA ConservedQuiet ==
  ASSUME Conserved, UNCHANGED <<queue, cQueue, delivered, poisoned, arrived>>,
         \A k \in Controllers : actor'[k].left = actor[k].left,
         \A r \in Runners : \A m \in Messages : Carries(r, m)' <=> Carries(r, m),
         \A r \in Runners : runner'[r].pc \in {"dispatch", "deliver"} => runner'[r].msg \in Messages
  PROVE  Conserved'
<1>1. NoCopies'
  BY DEF Conserved, NoCopies
<1>2. ASSUME NEW m \in Messages
      PROVE  /\ Parked(m)' <=> Parked(m)
             /\ Carried(m)' <=> Carried(m)
             /\ Moving(m)' <=> Moving(m)
  BY DEF Parked, Carried, Moving
<1>3. \A m \in Messages : OnePlace(m)' /\ (SomePlace(m)' <=> m \in ToSet(arrived'))
  BY <1>2 DEF Conserved, OnePlace, SomePlace
<1> QED
  BY <1>1, <1>3 DEF Conserved

(* In particular those of the other threads, which have no message. *)
LEMMA ActorsQuiet ==
  ASSUME Conserved, UNCHANGED <<queue, cQueue, delivered, poisoned, arrived>>,
         \A k \in Controllers : actor'[k].left = actor[k].left,
         \A r \in Runners : runner'[r].pc = runner[r].pc /\ runner'[r].msg = runner[r].msg
  PROVE  Conserved'
<1>1. \A r \in Runners : \A m \in Messages : Carries(r, m)' <=> Carries(r, m)
  BY DEF Carries
<1>2. \A r \in Runners : runner'[r].pc \in {"dispatch", "deliver"} => runner'[r].msg \in Messages
  BY DEF Conserved, NoCopies
<1> QED
  BY <1>1, <1>2, ConservedQuiet

(* execute puts a new message into the session's queue. *)
LEMMA ExecuteConserves ==
  ASSUME TypeOK, Conserved, NEW m \in Messages, Execute(m)
  PROVE  Conserved'
<1>1. /\ m \notin ToSet(arrived) /\ arrived' = Append(arrived, m) /\ queue' = Append(queue, m)
      /\ UNCHANGED <<cQueue, delivered, poisoned, runner>>
      /\ \A k \in Controllers : actor'[k].left = actor[k].left
  <2>1. Controllers \subseteq Actors
    BY DEF Actors
  <2> QED
    BY <2>1, ExecuteMoves
<1>2. ~SomePlace(m)
  BY <1>1 DEF Conserved
<1>3. /\ ToSet(queue') = ToSet(queue) \cup {m} /\ ToSet(arrived') = ToSet(arrived) \cup {m}
      /\ IsInjective(queue')
  <2>1. queue \in Seq(Messages) /\ arrived \in Seq(Messages) /\ IsInjective(queue) /\ m \notin ToSet(queue)
    BY <1>2 DEF TypeOK, Conserved, NoCopies, SomePlace
  <2> QED
    BY <1>1, <2>1, AppendOnce
<1>4. NoCopies'
  BY <1>1, <1>3 DEF Conserved, NoCopies, Carries
<1>5. ASSUME NEW n \in Messages
      PROVE  /\ Parked(n)' <=> Parked(n)
             /\ Carried(n)' <=> Carried(n)
             /\ Moving(n)' <=> Moving(n)
  BY <1>1 DEF Parked, Carried, Carries, Moving
<1>6. ASSUME NEW n \in Messages PROVE OnePlace(n)' /\ (SomePlace(n)' <=> n \in ToSet(arrived'))
  BY <1>1, <1>2, <1>3, <1>5 DEF Conserved, OnePlace, SomePlace
<1> QED
  BY <1>4, <1>6 DEF Conserved

(* A message leaves the queue or its consumer with the runner that takes it. *)
LEMMA TakeConserves ==
  ASSUME TypeOK, Conserved, NEW r \in Runners, NEW h \in Messages,
         UNCHANGED <<delivered, poisoned, arrived>>,
         \A k \in Controllers : actor'[k].left = actor[k].left,
         runner[r].pc \notin {"dispatch", "deliver"}, runner'[r].pc = "dispatch", runner'[r].msg = h,
         \A q \in Runners : q # r => runner'[q] = runner[q],
         IsInjective(queue'),
         \A c \in Consumers : IsInjective(cQueue'[c]) /\ ToSet(cQueue'[c]) \subseteq ToSet(cQueue[c]),
         \/ /\ h \in ToSet(queue) /\ ToSet(queue') = ToSet(queue) \ {h} /\ cQueue' = cQueue
         \/ /\ Parked(h) /\ queue' = queue
            /\ \A m \in Messages : Parked(m)' <=> Parked(m) /\ m # h
  PROVE  Conserved'
<1>1. \A q \in Runners : \A m \in Messages :
         Carries(q, m)' <=> (IF q = r THEN m = h ELSE Carries(q, m))
  BY DEF Carries
<1>2. ~Carried(h)
  BY DEF Conserved, OnePlace
<1>3. NoCopies'
  <2>1. \A q, z \in Runners : \A m \in Messages : Carries(q, m)' /\ Carries(z, m)' => q = z
    BY <1>1, <1>2 DEF Conserved, NoCopies, Carried
  <2>2. \A q \in Runners : runner'[q].pc \in {"dispatch", "deliver"} => runner'[q].msg \in Messages
    BY DEF Conserved, NoCopies
  <2> QED
    BY <2>1, <2>2 DEF Conserved, NoCopies
<1>4. ASSUME NEW m \in Messages
      PROVE  /\ Carried(m)' <=> Carried(m) \/ m = h
             /\ Moving(m)' <=> Moving(m)
  <2>1. ~Carries(r, m)
    BY DEF Carries
  <2> QED
    BY <1>1, <2>1 DEF Carried, Moving
<1>5. \A m \in Messages : cQueue' = cQueue => (Parked(m)' <=> Parked(m))
  BY DEF Parked
<1>6. ASSUME NEW m \in Messages PROVE OnePlace(m)' /\ (SomePlace(m)' <=> m \in ToSet(arrived'))
  BY <1>4, <1>5 DEF Conserved, OnePlace, SomePlace
<1> QED
  BY <1>3, <1>6 DEF Conserved

(* From the session's queue, ... *)
LEMMA SessionDequeuesConserves ==
  ASSUME TypeOK, Conserved, NEW r \in Runners, SessionDequeues(r)
  PROVE  Conserved'
<1>1. /\ queue # <<>> /\ queue' = Tail(queue) /\ runner[r].pc = "take"
      /\ runner'[r].pc = "dispatch" /\ runner'[r].msg = Head(queue)
      /\ \A q \in Runners : q # r => runner'[q] = runner[q]
      /\ UNCHANGED <<cQueue, delivered, poisoned, arrived, actor>>
  BY SessionDequeuesMoves
<1>2. PICK h \in Messages :
         /\ h = Head(queue) /\ h \in ToSet(queue)
         /\ ToSet(queue') = ToSet(queue) \ {h} /\ IsInjective(queue')
  <2>1. queue \in Seq(Messages) /\ IsInjective(queue)
    BY DEF TypeOK, Conserved, NoCopies
  <2> QED
    BY <1>1, <2>1, TailOnce
<1>3. \A c \in Consumers : IsInjective(cQueue'[c]) /\ ToSet(cQueue'[c]) \subseteq ToSet(cQueue[c])
  BY <1>1 DEF Conserved, NoCopies
<1> QED
  BY <1>1, <1>2, <1>3, TakeConserves

(* ... from the consumer's channel. *)
LEMMA ConsumerDequeuesConserves ==
  ASSUME TypeOK, Conserved, NEW r \in Runners, ConsumerDequeues(r)
  PROVE  Conserved'
<1>1. PICK e \in Consumers : e = runner[r].idx
  BY DEF TypeOK, RunnerState
<1>2. /\ cQueue[e] # <<>> /\ cQueue' = [cQueue EXCEPT ![e] = Tail(@)] /\ runner[r].pc = "dequeue"
      /\ runner'[r].pc = "dispatch" /\ runner'[r].msg = Head(cQueue[e])
      /\ \A q \in Runners : q # r => runner'[q] = runner[q]
      /\ UNCHANGED <<queue, delivered, poisoned, arrived, actor>>
  BY <1>1, ConsumerDequeuesMoves
<1>3. /\ cQueue'[e] = Tail(cQueue[e])
      /\ \A c \in Consumers : c # e => cQueue'[c] = cQueue[c]
  BY <1>2 DEF TypeOK
<1>4. PICK h \in Messages :
         /\ h = Head(cQueue[e]) /\ h \in ToSet(cQueue[e])
         /\ ToSet(cQueue'[e]) = ToSet(cQueue[e]) \ {h} /\ IsInjective(cQueue'[e])
  <2>1. cQueue[e] \in Seq(Messages) /\ IsInjective(cQueue[e])
    BY DEF TypeOK, Conserved, NoCopies
  <2> QED
    BY <1>2, <1>3, <2>1, TailOnce
<1>5. Target[h] = e
  BY <1>4 DEF Conserved, NoCopies
<1>6. ASSUME NEW m \in Messages PROVE Parked(m)' <=> Parked(m) /\ m # h
  <2>1. Target[m] \in Consumers
    BY DispatchAssumption
  <2> QED
    BY <1>3, <1>4, <1>5, <2>1 DEF Parked
<1>7. \A c \in Consumers : IsInjective(cQueue'[c]) /\ ToSet(cQueue'[c]) \subseteq ToSet(cQueue[c])
  BY <1>3, <1>4 DEF Conserved, NoCopies
<1>8. Parked(h) /\ IsInjective(queue')
  BY <1>2, <1>4, <1>5 DEF Parked, Conserved, NoCopies
<1> QED
  BY <1>2, <1>4, <1>6, <1>7, <1>8, TakeConserves

(* A runner gives its message to the listener, to the poison acknowledgement or to the consumer. *)
LEMMA GiveConserves ==
  ASSUME TypeOK, Conserved, NEW r \in Runners, NEW h \in Messages,
         UNCHANGED <<queue, arrived>>,
         \A k \in Controllers : actor'[k].left = actor[k].left,
         Carries(r, h), runner'[r].pc \notin {"dispatch", "deliver"},
         \A q \in Runners : q # r => runner'[q] = runner[q],
         IsInjective(delivered'),
         \A c \in Consumers : IsInjective(cQueue'[c]) /\ \A m \in ToSet(cQueue'[c]) : Target[m] = c,
         \/ /\ ToSet(delivered') = ToSet(delivered) \cup {h} /\ UNCHANGED <<poisoned, cQueue>>
         \/ /\ poisoned' = poisoned \cup {h} /\ UNCHANGED <<delivered, cQueue>>
         \/ /\ \A m \in Messages : Parked(m)' <=> Parked(m) \/ m = h
            /\ UNCHANGED <<delivered, poisoned>>
  PROVE  Conserved'
<1>1. \A q \in Runners : \A m \in Messages : Carries(q, m)' <=> Carries(q, m) /\ q # r
  BY DEF Carries
<1>2. \A m \in Messages : Carries(r, m) <=> m = h
  BY DEF Carries
<1>3. \A q \in Runners : Carries(q, h) => q = r
  BY DEF Conserved, NoCopies
<1>4. NoCopies'
  <2>1. \A q, z \in Runners : \A m \in Messages : Carries(q, m)' /\ Carries(z, m)' => q = z
    BY <1>1 DEF Conserved, NoCopies
  <2>2. \A q \in Runners : runner'[q].pc \in {"dispatch", "deliver"} => runner'[q].msg \in Messages
    BY DEF Conserved, NoCopies
  <2> QED
    BY <2>1, <2>2 DEF Conserved, NoCopies
<1>5. ASSUME NEW m \in Messages
      PROVE  /\ Carried(m)' <=> Carried(m) /\ m # h
             /\ Moving(m)' <=> Moving(m)
  BY <1>1, <1>2, <1>3 DEF Carried, Moving
<1>6. \A m \in Messages : cQueue' = cQueue => (Parked(m)' <=> Parked(m))
  BY DEF Parked
<1>7. Carried(h)
  BY DEF Carried
<1>8. ASSUME NEW m \in Messages PROVE OnePlace(m)' /\ (SomePlace(m)' <=> m \in ToSet(arrived'))
  BY <1>5, <1>6, <1>7 DEF Conserved, OnePlace, SomePlace
<1> QED
  BY <1>4, <1>8 DEF Conserved

(* To the listener, ... *)
LEMMA OnMessageConserves ==
  ASSUME TypeOK, Conserved, NEW r \in Runners, OnMessage(r)
  PROVE  Conserved'
<1>1. /\ delivered' = Append(delivered, runner[r].msg) /\ runner[r].pc = "deliver"
      /\ runner'[r].pc = "listener" /\ \A q \in Runners : q # r => runner'[q] = runner[q]
      /\ UNCHANGED <<queue, cQueue, poisoned, arrived, actor>>
  BY OnMessageMoves
<1>2. PICK h \in Messages : h = runner[r].msg /\ Carries(r, h)
  BY <1>1 DEF Conserved, NoCopies, Carries
<1>3. ToSet(delivered') = ToSet(delivered) \cup {h} /\ IsInjective(delivered')
  <2>1. delivered \in Seq(Messages) /\ IsInjective(delivered) /\ h \notin ToSet(delivered)
    BY <1>2 DEF TypeOK, Conserved, NoCopies, OnePlace, Carried
  <2> QED
    BY <1>1, <1>2, <2>1, AppendOnce
<1>4. \A c \in Consumers : IsInjective(cQueue'[c]) /\ \A m \in ToSet(cQueue'[c]) : Target[m] = c
  BY <1>1 DEF Conserved, NoCopies
<1> QED
  BY <1>1, <1>2, <1>3, <1>4, GiveConserves

(* ... to the poison acknowledgement, ... *)
LEMMA DispatchDuplicateConserves ==
  ASSUME TypeOK, Conserved, NEW r \in Runners, DispatchDuplicate(r)
  PROVE  Conserved'
<1>1. /\ poisoned' = poisoned \cup {runner[r].msg} /\ runner[r].pc = "dispatch"
      /\ runner'[r].pc \in {"more", "top"} /\ \A q \in Runners : q # r => runner'[q] = runner[q]
      /\ UNCHANGED <<queue, cQueue, delivered, arrived, actor>>
  BY DispatchDuplicateMoves
<1>2. PICK h \in Messages : h = runner[r].msg /\ Carries(r, h)
  BY <1>1 DEF Conserved, NoCopies, Carries
<1>3. /\ IsInjective(delivered')
      /\ \A c \in Consumers : IsInjective(cQueue'[c]) /\ \A m \in ToSet(cQueue'[c]) : Target[m] = c
  BY <1>1 DEF Conserved, NoCopies
<1> QED
  BY <1>1, <1>2, <1>3, GiveConserves

(* ... to the consumer. *)
LEMMA ParkConserves ==
  ASSUME TypeOK, Conserved, NEW r \in Runners, Park(r)
  PROVE  Conserved'
<1>1. /\ cQueue' = [cQueue EXCEPT ![Target[runner[r].msg]] = Append(@, runner[r].msg)]
      /\ runner[r].pc = "deliver"
      /\ runner'[r].pc \in {"more", "top"} /\ \A q \in Runners : q # r => runner'[q] = runner[q]
      /\ UNCHANGED <<queue, delivered, poisoned, arrived, actor>>
  BY ParkMoves
<1>2. PICK h \in Messages : h = runner[r].msg /\ Carries(r, h)
  BY <1>1 DEF Conserved, NoCopies, Carries
<1>3. PICK e \in Consumers : e = Target[h]
  BY DispatchAssumption
<1>4. /\ cQueue'[e] = Append(cQueue[e], h)
      /\ \A c \in Consumers : c # e => cQueue'[c] = cQueue[c]
  BY <1>1, <1>2, <1>3 DEF TypeOK
<1>5. ToSet(cQueue'[e]) = ToSet(cQueue[e]) \cup {h} /\ IsInjective(cQueue'[e])
  <2>1. cQueue[e] \in Seq(Messages) /\ IsInjective(cQueue[e]) /\ h \notin ToSet(cQueue[e])
    BY <1>2, <1>3 DEF TypeOK, Conserved, NoCopies, OnePlace, Carried, Parked
  <2> QED
    BY <1>4, <2>1, AppendOnce
<1>6. ASSUME NEW m \in Messages PROVE Parked(m)' <=> Parked(m) \/ m = h
  <2>1. Target[m] \in Consumers
    BY DispatchAssumption
  <2> QED
    BY <1>3, <1>4, <1>5, <2>1 DEF Parked
<1>7. \A c \in Consumers : IsInjective(cQueue'[c]) /\ \A m \in ToSet(cQueue'[c]) : Target[m] = c
  BY <1>3, <1>4, <1>5 DEF Conserved, NoCopies
<1>8. IsInjective(delivered')
  BY <1>1 DEF Conserved, NoCopies
<1> QED
  BY <1>1, <1>2, <1>6, <1>7, <1>8, GiveConserves

(* redispatch empties the consumer's channel into the controller's list ... *)
LEMMA RedispatchConserves ==
  ASSUME TypeOK, InCall, Conserved, NEW k \in Controllers, Redispatch(k)
  PROVE  Conserved'
<1>1. PICK e \in Consumers : e = actor[k].con
  BY DEF TypeOK, ActorState, Actors
<1>2. /\ cQueue' = [cQueue EXCEPT ![e] = <<>>] /\ actor[k].pc = "redispatch"
      /\ actor'[k].left = Reverse(cQueue[e])
      /\ \A z \in Actors : z # k => actor'[z] = actor[z]
      /\ UNCHANGED <<queue, delivered, poisoned, arrived, runner>>
  BY <1>1, RedispatchMoves
<1>3. /\ cQueue'[e] = <<>> /\ \A c \in Consumers : c # e => cQueue'[c] = cQueue[c]
  BY <1>2 DEF TypeOK
<1>4. ToSet(actor'[k].left) = ToSet(cQueue[e]) /\ IsInjective(actor'[k].left)
  <2>1. cQueue[e] \in Seq(Messages) /\ IsInjective(cQueue[e])
    BY DEF TypeOK, Conserved, NoCopies
  <2> QED
    BY <1>2, <2>1, ReverseOnce
<1>5. ToSet(<<>>) = {} /\ IsInjective(<<>>)
  BY DEF ToSet, IsInjective
<1>6. actor[k].left = <<>>
  BY <1>2 DEF InCall, Doing
<1>7. \A z \in Controllers : z # k => actor'[z].left = actor[z].left
  BY <1>2 DEF Actors
<1>8. ASSUME NEW m \in Messages
      PROVE  /\ Parked(m)' <=> Parked(m) /\ Target[m] # e
             /\ Moving(m)' <=> Moving(m) \/ (Parked(m) /\ Target[m] = e)
             /\ Carried(m)' <=> Carried(m)
             /\ m \in ToSet(cQueue[e]) <=> Parked(m) /\ Target[m] = e
  <2>1. Target[m] \in Consumers
    BY DispatchAssumption
  <2>2. m \in ToSet(cQueue[e]) <=> Parked(m) /\ Target[m] = e
    BY DEF Parked, Conserved, NoCopies
  <2>3. Parked(m)' <=> Parked(m) /\ Target[m] # e
    BY <1>3, <1>5, <2>1 DEF Parked
  <2>4. Moving(m)' <=> Moving(m) \/ (Parked(m) /\ Target[m] = e)
    BY <1>4, <1>5, <1>6, <1>7, <2>2 DEF Moving
  <2>5. Carried(m)' <=> Carried(m)
    BY <1>2 DEF Carried, Carries
  <2> QED
    BY <2>2, <2>3, <2>4, <2>5
<1>9. NoCopies'
  <2>1. \A i, j \in Controllers : \A m \in Messages :
           m \in ToSet(actor'[i].left) /\ m \in ToSet(actor'[j].left) => i = j
    <3> SUFFICES ASSUME NEW i \in Controllers, NEW j \in Controllers, NEW m \in Messages,
                        m \in ToSet(actor'[i].left), m \in ToSet(actor'[j].left)
                 PROVE  i = j
      OBVIOUS
    <3>1. ~(Parked(m) /\ Moving(m))
      BY DEF Conserved, OnePlace
    <3>2. ASSUME NEW z \in Controllers, z # k, m \in ToSet(actor'[z].left) PROVE Moving(m)
      BY <1>7, <3>2 DEF Moving
    <3>3. m \in ToSet(actor'[k].left) => Parked(m)
      BY <1>4, <1>8
    <3> QED
      BY <1>7, <3>1, <3>2, <3>3 DEF Conserved, NoCopies
  <2>2. \A z \in Controllers : IsInjective(actor'[z].left)
    BY <1>4, <1>7 DEF Conserved, NoCopies
  <2>3. \A c \in Consumers : IsInjective(cQueue'[c]) /\ \A m \in ToSet(cQueue'[c]) : Target[m] = c
    BY <1>3, <1>5 DEF Conserved, NoCopies
  <2> QED
    BY <1>2, <2>1, <2>2, <2>3 DEF Conserved, NoCopies, Carries
<1>10. ASSUME NEW m \in Messages PROVE OnePlace(m)' /\ (SomePlace(m)' <=> m \in ToSet(arrived'))
  BY <1>2, <1>8 DEF Conserved, OnePlace, SomePlace
<1> QED
  BY <1>9, <1>10 DEF Conserved

(* ... from where each message goes to the front of the session's queue. *)
LEMMA ExecuteFirstConserves ==
  ASSUME TypeOK, Conserved, NEW k \in Controllers, ExecuteFirst(k)
  PROVE  Conserved'
<1>1. /\ queue' = <<Head(actor[k].left)>> \o queue /\ actor[k].left # <<>>
      /\ actor'[k].left = Tail(actor[k].left)
      /\ \A z \in Actors : z # k => actor'[z] = actor[z]
      /\ UNCHANGED <<cQueue, delivered, poisoned, arrived, runner>>
  BY ExecuteFirstMoves
<1>2. PICK h \in Messages :
         /\ h = Head(actor[k].left) /\ h \in ToSet(actor[k].left)
         /\ ToSet(actor'[k].left) = ToSet(actor[k].left) \ {h} /\ IsInjective(actor'[k].left)
  <2>1. actor[k].left \in Seq(Messages) /\ IsInjective(actor[k].left)
    BY DEF TypeOK, Conserved, NoCopies, ActorState, Actors
  <2> QED
    BY <1>1, <2>1, TailOnce
<1>3. Moving(h)
  BY <1>2 DEF Moving
<1>4. ToSet(queue') = ToSet(queue) \cup {h} /\ IsInjective(queue')
  <2>1. queue \in Seq(Messages) /\ IsInjective(queue) /\ h \notin ToSet(queue)
    BY <1>3 DEF TypeOK, Conserved, NoCopies, OnePlace
  <2> QED
    BY <1>1, <1>2, <2>1, PrependOnce
<1>5. \A z \in Controllers : z # k => actor'[z].left = actor[z].left /\ h \notin ToSet(actor[z].left)
  BY <1>1, <1>2 DEF Actors, Conserved, NoCopies
<1>6. ASSUME NEW m \in Messages
      PROVE  /\ Moving(m)' <=> Moving(m) /\ m # h
             /\ Parked(m)' <=> Parked(m)
             /\ Carried(m)' <=> Carried(m)
  <2>1. Moving(m)' <=> Moving(m) /\ m # h
    BY <1>2, <1>5 DEF Moving
  <2> QED
    BY <1>1, <2>1 DEF Parked, Carried, Carries
<1>7. NoCopies'
  <2>1. \A z \in Controllers : /\ IsInjective(actor'[z].left)
                               /\ ToSet(actor'[z].left) \subseteq ToSet(actor[z].left)
    BY <1>2, <1>5 DEF Conserved, NoCopies
  <2> QED
    BY <1>1, <1>4, <2>1 DEF Conserved, NoCopies, Carries
<1>8. ASSUME NEW m \in Messages PROVE OnePlace(m)' /\ (SomePlace(m)' <=> m \in ToSet(arrived'))
  BY <1>1, <1>3, <1>4, <1>6 DEF Conserved, OnePlace, SomePlace
<1> QED
  BY <1>7, <1>8 DEF Conserved
(* A runner's step that takes no message and gives none away. *)
LEMMA RunnerQuiet ==
  ASSUME Conserved, NEW r \in Runners,
         UNCHANGED <<queue, cQueue, delivered, poisoned, arrived, actor>>,
         \A q \in Runners : q # r => runner'[q] = runner[q],
         \/ /\ runner[r].pc \notin {"dispatch", "deliver"}
            /\ runner'[r].pc \notin {"dispatch", "deliver"}
         \/ /\ runner[r].pc = "dispatch" /\ runner'[r].pc = "deliver"
            /\ runner'[r].msg = runner[r].msg
  PROVE  Conserved'
<1>1. \A q \in Runners : \A m \in Messages : Carries(q, m)' <=> Carries(q, m)
  BY DEF Carries
<1>2. \A q \in Runners : runner'[q].pc \in {"dispatch", "deliver"} => runner'[q].msg \in Messages
  BY DEF Conserved, NoCopies
<1> QED
  BY <1>1, <1>2, ConservedQuiet

(* Every step of a runner keeps the messages. *)
LEMMA RunnerConserves ==
  ASSUME TypeOK, Conserved, NEW r \in Runners, RunnerStep(r)
  PROVE  Conserved'
<1>1. CASE Top(r)
  BY <1>1, TopMoves, RunnerQuiet
<1>2. CASE IterateConsumer(r)
  BY <1>2, IterateConsumerMoves, RunnerQuiet
<1>3. CASE ConsumerIdle(r)
  BY <1>3, ConsumerIdleMoves, RunnerQuiet
<1>4. CASE SessionIdle(r)
  BY <1>4, SessionIdleMoves, RunnerQuiet
<1>5. CASE DispatchFresh(r)
  BY <1>5, DispatchFreshMoves, RunnerQuiet
<1>6. CASE OnMessageReturns(r)
  BY <1>6, OnMessageReturnsMoves, RunnerQuiet
<1>7. CASE More(r)
  BY <1>7, MoreMoves, RunnerQuiet
<1>8. CASE Awake(r)
  BY <1>8, AwakeMoves, RunnerQuiet
<1> QED
  BY <1>1, <1>2, <1>3, <1>4, <1>5, <1>6, <1>7, <1>8, ConsumerDequeuesConserves,
     SessionDequeuesConserves, DispatchDuplicateConserves, OnMessageConserves, ParkConserves
     DEF RunnerStep

(* The wakeup moves no message, ... *)
LEMMA WakeupConserves ==
  ASSUME TypeOK, InCall, Conserved, NEW a \in Actors, WakeupStep(a)
  PROVE  Conserved'
<1>0. Controllers \subseteq Actors
  BY DEF Actors
<1>1. CASE WakeupFindsRunner(a)
  <2>1. \A k \in Controllers : actor'[k].left = actor[k].left
    BY <1>0, <1>1, WakeupFindsRunnerMoves
  <2> QED
    BY <1>1, <2>1, WakeupFindsRunnerMoves, ActorsQuiet
<1>2. CASE WakeupStopped(a)
  <2>1. \A k \in Controllers : actor'[k].left = actor[k].left
    BY <1>0, <1>2, WakeupStoppedMoves
  <2> QED
    BY <1>2, <2>1, WakeupStoppedMoves, ActorsQuiet
<1>3. CASE WakeupCreatesRunner(a)
  <2>1. \A k \in Controllers : actor'[k].left = actor[k].left
    BY <1>0, <1>3, WakeupCreatesRunnerMoves
  <2>2. PICK r \in Runners :
           /\ runner[r].pc = "new" /\ runner'[r].pc = "top"
           /\ \A z \in Runners : z # r => runner'[z] = runner[z]
    BY <1>3, WakeupCreatesRunnerMoves
  <2>3. \A q \in Runners : \A m \in Messages : Carries(q, m)' <=> Carries(q, m)
    BY <2>2 DEF Carries
  <2>4. \A q \in Runners : runner'[q].pc \in {"dispatch", "deliver"} => runner'[q].msg \in Messages
    BY <2>2 DEF Conserved, NoCopies
  <2>5. UNCHANGED <<queue, cQueue, delivered, poisoned, arrived>>
    BY <1>3, WakeupCreatesRunnerMoves
  <2> QED
    BY <2>1, <2>3, <2>4, <2>5, ConservedQuiet
<1>4. CASE WakeupNotifies(a)
  <2>1. \A k \in Controllers : actor'[k].left = actor[k].left
    BY <1>0, <1>4, WakeupNotifiesMoves
  <2>2. \A z \in Runners : runner'[z].pc = runner[z].pc /\ runner'[z].msg = runner[z].msg
    <3>1. actor[a].runner \in Runners
      BY <1>4, WakeupNotifiesMoves DEF InCall
    <3> QED
      BY <1>4, <3>1, WakeupNotifiesRunner
  <2> QED
    BY <1>4, <2>1, <2>2, WakeupNotifiesMoves, ActorsQuiet
<1> QED
  BY <1>1, <1>2, <1>3, <1>4 DEF WakeupStep

(* ... and of the controllers' steps only those of redispatch do. *)
LEMMA CallConserves ==
  ASSUME TypeOK, InCall, Conserved, NEW k \in Controllers
  PROVE  /\ ConnectionStart(k) \/ ConnectionStop(k) => Conserved'
         /\ \A c \in Consumers : SetMessageListener(k, c) => Conserved'
         /\ CallStep(k) => Conserved'
<1>0. Controllers \subseteq Actors
  BY DEF Actors
<1>1. ASSUME UNCHANGED <<queue, cQueue, delivered, poisoned, arrived>>,
             actor'[k].left = actor[k].left,
             \A z \in Actors : z # k => actor'[z] = actor[z],
             \A z \in Runners : runner'[z].pc = runner[z].pc /\ runner'[z].msg = runner[z].msg
      PROVE  Conserved'
  <2>1. \A j \in Controllers : actor'[j].left = actor[j].left
    BY <1>0, <1>1
  <2> QED
    BY <1>1, <2>1, ActorsQuiet
<1>2. CASE ConnectionStart(k)
  BY <1>1, <1>2, ConnectionStartMoves
<1>3. CASE ConnectionStop(k)
  BY <1>1, <1>3, ConnectionStopMoves
<1>4. ASSUME NEW c \in Consumers, SetMessageListener(k, c) PROVE Conserved'
  BY <1>1, <1>4, SetMessageListenerMoves
<1>5. CASE ConsumerStart(k)
  BY <1>1, <1>5, ConsumerStartMoves
<1>6. CASE ExecutorStart(k)
  BY <1>1, <1>6, ExecutorStartMoves
<1>7. CASE WakeIfQueued(k)
  BY <1>1, <1>7, WakeIfQueuedMoves
<1>8. CASE ConsumerStop(k)
  BY <1>1, <1>8, ConsumerStopMoves
<1>9. CASE ExecutorStop(k)
  BY <1>1, <1>9, ExecutorStopMoves
<1>10. CASE RunnerShutdown(k)
  <2>1. actor[k].runner \in Runners
    BY <1>0, <1>10, RunnerShutdownMoves DEF InCall
  <2> QED
    BY <1>1, <1>10, <2>1, RunnerShutdownMoves, RunnerShutdownRunner
<1>11. CASE RunnerJoined(k)
  BY <1>1, <1>11, RunnerJoinedMoves
<1>12. CASE AssignListener(k)
  BY <1>1, <1>12, AssignListenerMoves
<1>13. CASE RedispatchDone(k)
  BY <1>1, <1>13, RedispatchDoneMoves
<1>14. CASE WakeupStep(k)
  BY <1>0, <1>14, WakeupConserves
<1>15. ASSUME CallStep(k) PROVE Conserved'
  BY <1>5, <1>6, <1>7, <1>8, <1>9, <1>10, <1>11, <1>12, <1>13, <1>14, <1>15,
     RedispatchConserves, ExecuteFirstConserves DEF CallStep
<1> QED
  BY <1>2, <1>3, <1>4, <1>15

-----------------------------------------------------------------------------
(* What holds with any number of application threads. *)
Always == TypeOK /\ InCall /\ Conserved

(* At the beginning there is no message anywhere. *)
LEMMA AlwaysInit == Init => Always
<1> SUFFICES ASSUME Init PROVE Always
  OBVIOUS
<1> USE DEF Init
<1>0. /\ Controllers \subseteq Actors /\ 1 \in Consumers /\ ToSet(<<>>) = {} /\ IsInjective(<<>>)
      /\ 0 \in 0..MaxOps
  BY DispatchAssumption DEF Actors, Consumers, ToSet, IsInjective
<1>1. /\ \A a \in Actors : /\ actor[a].pc = "idle" /\ actor[a].ret = "idle" /\ actor[a].left = <<>>
                           /\ actor[a] \in ActorState
      /\ \A r \in Runners : runner[r].pc = "new" /\ runner[r] \in RunnerState
      /\ actor \in [Actors -> ActorState] /\ runner \in [Runners -> RunnerState]
  <2>1. \A a \in Actors : actor[a] \in ActorState /\ actor[a].pc = "idle" /\ actor[a].ret = "idle"
                          /\ actor[a].left = <<>>
    BY <1>0 DEF ActorState, ActorPC
  <2>2. \A r \in Runners : runner[r].pc = "new" /\ runner[r] \in RunnerState
    BY <1>0 DEF RunnerState, RunnerPC
  <2> QED
    BY <2>1, <2>2
<1>2. TypeOK
  <2>1. cRunning \in [Consumers -> BOOLEAN]
    OBVIOUS
  <2>2. listener \in [Consumers -> BOOLEAN]
    OBVIOUS
  <2>3. /\ chanLock \in [Consumers -> Runners \cup {NoRunner}]
        /\ lsnLock \in [Consumers -> Runners \cup {NoRunner}]
        /\ cQueue \in [Consumers -> Seq(Messages)]
    OBVIOUS
  <2> QED
    BY <1>0, <1>1, <2>1, <2>2, <2>3 DEF TypeOK
<1>3. InCall
  BY <1>0, <1>1 DEF InCall, Doing, Stopping, Assigning
<1>4. \A c \in Consumers : cQueue[c] = <<>>
  OBVIOUS
<1>5. \A r \in Runners : \A m \in Messages : ~Carries(r, m)
  BY <1>1 DEF Carries
<1>6. NoCopies
  BY <1>0, <1>1, <1>4, <1>5 DEF NoCopies
<1>7. ASSUME NEW m \in Messages PROVE ~SomePlace(m) /\ OnePlace(m)
  <2>1. Target[m] \in Consumers
    BY DispatchAssumption
  <2> QED
    BY <1>0, <1>1, <1>4, <1>5, <2>1 DEF SomePlace, OnePlace, Parked, Carried, Moving
<1> QED
  BY <1>0, <1>2, <1>3, <1>6, <1>7 DEF Always, Conserved

(* Every step keeps Always. *)
LEMMA AlwaysNext == Always /\ [Next]_vars => Always'
<1> SUFFICES ASSUME Always, [Next]_vars PROVE Always'
  OBVIOUS
<1>0. TypeOK /\ InCall /\ Conserved /\ NoCopies
  BY DEF Always, Conserved
<1>1. CASE UNCHANGED vars
  BY <1>1 DEF Always, vars, executor, consumers, locks, history, TypeOK, InCall, Doing, Conserved,
     NoCopies, OnePlace, SomePlace, Parked, Carried, Carries, Moving
<1>2. ASSUME NEW m \in Messages, Execute(m) PROVE Always'
  BY <1>0, <1>2, ActorType, ActorInCall, ExecuteConserves DEF Always
<1>3. CASE WakeupStep(Dispatcher)
  <2>1. Dispatcher \in Actors
    BY DEF Actors
  <2> QED
    BY <1>0, <1>3, <2>1, ActorType, ActorInCall, WakeupConserves DEF Always
<1>4. ASSUME NEW k \in Controllers, ConnectionStart(k) \/ ConnectionStop(k) PROVE Always'
  BY <1>0, <1>4, ActorType, ActorInCall, CallConserves DEF Always
<1>5. ASSUME NEW k \in Controllers, NEW c \in Consumers, SetMessageListener(k, c) PROVE Always'
  BY <1>0, <1>5, ActorType, ActorInCall, CallConserves DEF Always
<1>6. ASSUME NEW k \in Controllers, CallStep(k) PROVE Always'
  BY <1>0, <1>6, ActorType, ActorInCall, CallConserves DEF Always
<1>7. ASSUME NEW r \in Runners, RunnerStep(r) PROVE Always'
  <2>1. UNCHANGED actor
    BY <1>7 DEF RunnerStep, Top, IterateConsumer, ConsumerDequeues, ConsumerIdle, SessionDequeues,
       SessionIdle, DispatchFresh, DispatchDuplicate, OnMessage, Park, OnMessageReturns, More, Awake
  <2>2. InCall'
    BY <1>0, <2>1 DEF InCall, Doing
  <2> QED
    BY <1>0, <1>7, <2>2, RunnerType, RunnerConserves DEF Always
<1> QED
  BY <1>1, <1>2, <1>3, <1>4, <1>5, <1>6, <1>7 DEF Next

(* Whatever the application threads do: types, the shape of a call in progress,
   and one place for every message that arrived. *)
THEOREM DispatchInvariant == Spec => []Always
<1> QED
  BY AlwaysInit, AlwaysNext, PTL DEF Spec

(* Every variable of the session keeps its type. *)
THEOREM TypeCorrect == Spec => []TypeOK
<1>1. Always => TypeOK
  BY DEF Always
<1> QED
  BY <1>1, DispatchInvariant, PTL
-----------------------------------------------------------------------------
(* In a sequence without repetition a message is counted once or not at all. *)
LEMMA CountOnce ==
  ASSUME NEW S, NEW s \in Seq(S), NEW m
  PROVE  /\ m \notin ToSet(s) => Count(s, m) = 0
         /\ IsInjective(s) /\ m \in ToSet(s) => Count(s, m) = 1
<1> DEFINE I == {i \in DOMAIN s : s[i] = m}
<1>1. ASSUME m \notin ToSet(s) PROVE Count(s, m) = 0
  <2>1. I = {}
    BY <1>1 DEF ToSet
  <2> QED
    BY <2>1, FS_EmptySet DEF Count
<1>2. ASSUME IsInjective(s), m \in ToSet(s) PROVE Count(s, m) = 1
  <2>1. PICK i \in DOMAIN s : s[i] = m
    BY <1>2 DEF ToSet
  <2>2. I = {i}
    BY <1>2, <2>1 DEF IsInjective
  <2> QED
    BY <2>2, FS_Singleton DEF Count
<1> QED
  BY <1>1, <1>2

(* A set with at most one element has as many as the truth of its having one. *)
LEMMA OneOrNone ==
  ASSUME NEW S, \A x, y \in S : x = y
  PROVE  /\ S = {} => Cardinality(S) = 0
         /\ S # {} => Cardinality(S) = 1
<1>1. ASSUME S # {} PROVE Cardinality(S) = 1
  <2>1. PICK x : x \in S
    BY <1>1
  <2>2. S = {x}
    BY <2>1
  <2> QED
    BY <2>2, FS_Singleton
<1> QED
  BY <1>1, FS_EmptySet

(***************************************************************************)
(* A message that has arrived is in exactly one place, for any number of   *)
(* consumers, runners, messages and application threads.                   *)
(***************************************************************************)
LEMMA ConservedIsOnce == TypeOK /\ Conserved /\ OnlyMissed => MessagesConserved
<1> SUFFICES ASSUME TypeOK, Conserved, OnlyMissed, NEW m \in ToSet(arrived)
             PROVE  1 = Count(queue, m) + Count(cQueue[Target[m]], m) + Count(delivered, m)
                        + Cardinality({r \in Runners : Carries(r, m)})
                        + Cardinality({k \in Controllers : m \in ToSet(actor[k].left)})
                        + Cardinality(poisoned \cap missed \cap {m})
  BY DEF MessagesConserved
<1> DEFINE R == {r \in Runners : Carries(r, m)}
           K == {k \in Controllers : m \in ToSet(actor[k].left)}
           P == poisoned \cap missed \cap {m}
<1>1. m \in Messages
  BY DEF TypeOK, ToSet
<1>2. Target[m] \in Consumers
  BY <1>1, DispatchAssumption
<1>3. OnePlace(m) /\ SomePlace(m) /\ NoCopies
  BY <1>1 DEF Conserved
<1>4. Count(queue, m) = IF m \in ToSet(queue) THEN 1 ELSE 0
  <2>1. queue \in Seq(Messages) /\ IsInjective(queue)
    BY <1>3 DEF TypeOK, NoCopies
  <2> QED
    BY <2>1, CountOnce
<1>5. Count(cQueue[Target[m]], m) = IF Parked(m) THEN 1 ELSE 0
  <2>1. cQueue[Target[m]] \in Seq(Messages) /\ IsInjective(cQueue[Target[m]])
    BY <1>2, <1>3 DEF TypeOK, NoCopies
  <2> QED
    BY <2>1, CountOnce DEF Parked
<1>6. Count(delivered, m) = IF m \in ToSet(delivered) THEN 1 ELSE 0
  <2>1. delivered \in Seq(Messages) /\ IsInjective(delivered)
    BY <1>3 DEF TypeOK, NoCopies
  <2> QED
    BY <2>1, CountOnce
<1>7. Cardinality(R) = IF Carried(m) THEN 1 ELSE 0
  <2>1. \A r, q \in R : r = q
    BY <1>1, <1>3 DEF NoCopies
  <2>2. Carried(m) <=> R # {}
    BY DEF Carried
  <2> HIDE DEF R
  <2> QED
    BY <2>1, <2>2, OneOrNone
<1>8. Cardinality(K) = IF Moving(m) THEN 1 ELSE 0
  <2>1. \A j, k \in K : j = k
    BY <1>1, <1>3 DEF NoCopies
  <2>2. Moving(m) <=> K # {}
    BY DEF Moving
  <2> HIDE DEF K
  <2> QED
    BY <2>1, <2>2, OneOrNone
<1>9. Cardinality(P) = IF m \in poisoned THEN 1 ELSE 0
  <2>1. \A x, y \in P : x = y
    OBVIOUS
  <2>2. m \in poisoned <=> P # {}
    BY DEF OnlyMissed
  <2> HIDE DEF P
  <2> QED
    BY <2>1, <2>2, OneOrNone
<1> HIDE DEF R, K, P
<1>10. 1 = Count(queue, m) + Count(cQueue[Target[m]], m) + Count(delivered, m)
           + Cardinality(R) + Cardinality(K) + Cardinality(P)
  BY <1>3, <1>4, <1>5, <1>6, <1>7, <1>8, <1>9 DEF OnePlace, SomePlace
<1> QED
  BY <1>10 DEF R, K, P

(* A runner that takes a step lives, and the step changes no other thread. *)
LEMMA RunnerFrame ==
  ASSUME TypeOK, NEW r \in Runners, RunnerStep(r)
  PROVE  /\ runner[r].pc \notin {"new", "exited"} /\ runner'[r].pc # "new"
         /\ \A q \in Runners : q # r => runner'[q] = runner[q]
         /\ UNCHANGED <<started, running, taskRunner, cRunning, listener, arrived, actor>>
<1>1. CASE Top(r)
  BY <1>1, TopMoves
<1>2. CASE IterateConsumer(r)
  BY <1>2, IterateConsumerMoves
<1>3. CASE ConsumerDequeues(r)
  BY <1>3, ConsumerDequeuesMoves
<1>4. CASE ConsumerIdle(r)
  BY <1>4, ConsumerIdleMoves
<1>5. CASE SessionDequeues(r)
  BY <1>5, SessionDequeuesMoves
<1>6. CASE SessionIdle(r)
  BY <1>6, SessionIdleMoves
<1>7. CASE DispatchFresh(r)
  BY <1>7, DispatchFreshMoves
<1>8. CASE DispatchDuplicate(r)
  BY <1>8, DispatchDuplicateMoves
<1>9. CASE OnMessage(r)
  BY <1>9, OnMessageMoves
<1>10. CASE Park(r)
  BY <1>10, ParkMoves
<1>11. CASE OnMessageReturns(r)
  BY <1>11, OnMessageReturnsMoves
<1>12. CASE More(r)
  BY <1>12, MoreMoves
<1>13. CASE Awake(r)
  BY <1>13, AwakeMoves
<1> QED
  BY <1>1, <1>2, <1>3, <1>4, <1>5, <1>6, <1>7, <1>8, <1>9, <1>10, <1>11, <1>12, <1>13 DEF RunnerStep

(* The audit and the messages it has seen are left alone by most steps, ... *)
LEMMA OnlyMissedFrame ==
  ASSUME OnlyMissed, UNCHANGED <<audit, missed, delivered, poisoned>>,
         \A q \in Runners : runner[q].pc = "deliver" =>
             runner'[q].pc = "deliver" /\ runner'[q].msg = runner[q].msg
  PROVE  OnlyMissed'
<1> QED
  BY DEF OnlyMissed

(* ... by every step of an application thread or the dispatcher ... *)
LEMMA ActorOnlyMissed ==
  ASSUME TypeOK, InCall, OnlyMissed
  PROVE  /\ \A m \in Messages : Execute(m) => OnlyMissed'
         /\ \A a \in Actors : WakeupStep(a) => OnlyMissed'
         /\ \A k \in Controllers : Call(k) => OnlyMissed'
<1> USE DEF executor, consumers, locks, history
<1>0. Controllers \subseteq Actors
  BY DEF Actors
<1>1. ASSUME UNCHANGED <<audit, missed, delivered, poisoned, runner>> PROVE OnlyMissed'
  BY <1>1, OnlyMissedFrame
<1>2. ASSUME NEW m \in Messages, Execute(m) PROVE OnlyMissed'
  BY <1>1, <1>2 DEF Execute
<1>3. ASSUME NEW a \in Actors, WakeupStep(a) PROVE OnlyMissed'
  <2>1. CASE WakeupFindsRunner(a) \/ WakeupStopped(a)
    BY <1>1, <2>1 DEF WakeupFindsRunner, WakeupStopped
  <2>2. CASE WakeupCreatesRunner(a)
    <3>1. PICK r \in Runners :
             runner[r].pc = "new" /\ \A z \in Runners : z # r => runner'[z] = runner[z]
      BY <2>2, WakeupCreatesRunnerMoves
    <3>2. UNCHANGED <<audit, missed, delivered, poisoned>>
      BY <2>2 DEF WakeupCreatesRunner
    <3> QED
      BY <3>1, <3>2, OnlyMissedFrame
  <2>3. CASE WakeupNotifies(a)
    <3>1. actor[a].runner \in Runners
      BY <2>3, WakeupNotifiesMoves DEF InCall
    <3>2. UNCHANGED <<audit, missed, delivered, poisoned>>
      BY <2>3 DEF WakeupNotifies
    <3> QED
      BY <2>3, <3>1, <3>2, WakeupNotifiesRunner, OnlyMissedFrame
  <2> QED
    BY <1>3, <2>1, <2>2, <2>3 DEF WakeupStep
<1>4. ASSUME NEW k \in Controllers, RunnerShutdown(k) PROVE OnlyMissed'
  <2>1. actor[k].runner \in Runners
    BY <1>0, <1>4, RunnerShutdownMoves DEF InCall
  <2>2. UNCHANGED <<audit, missed, delivered, poisoned>>
    BY <1>4 DEF RunnerShutdown
  <2> QED
    BY <1>0, <1>4, <2>1, <2>2, RunnerShutdownRunner, OnlyMissedFrame
<1>5. ASSUME NEW k \in Controllers, Call(k) PROVE OnlyMissed'
  BY <1>0, <1>1, <1>3, <1>4, <1>5 DEF Call, CallStep, ConnectionStart, ConnectionStop,
     SetMessageListener, ConsumerStart, ExecutorStart, WakeIfQueued, ConsumerStop, ExecutorStop,
     RunnerJoined, AssignListener, Redispatch, ExecuteFirst, RedispatchDone
<1> QED
  BY <1>2, <1>3, <1>5

(* ... while a runner adds the message it takes to the listener, gives it to the listener,
   parks it, or meets it a second time because it was missed. *)
LEMMA RunnerOnlyMissed ==
  ASSUME TypeOK, Conserved, OnlyMissed, NEW r \in Runners, RunnerStep(r)
  PROVE  OnlyMissed'
<1> USE DEF executor, consumers, locks, history
<1>0. NoCopies /\ \A q \in Runners : q # r => runner'[q] = runner[q]
  BY RunnerFrame DEF Conserved
<1>1. ASSUME UNCHANGED <<audit, missed, delivered, poisoned>>, runner[r].pc # "deliver"
      PROVE  OnlyMissed'
  BY <1>0, <1>1, OnlyMissedFrame
<1>2. CASE \/ Top(r) \/ IterateConsumer(r) \/ ConsumerDequeues(r) \/ ConsumerIdle(r)
           \/ SessionDequeues(r) \/ SessionIdle(r) \/ OnMessageReturns(r) \/ More(r) \/ Awake(r)
  BY <1>1, <1>2 DEF Top, IterateConsumer, ConsumerDequeues, ConsumerIdle, SessionDequeues,
     SessionIdle, OnMessageReturns, More, Awake, At
<1>3. CASE DispatchFresh(r)
  <2>1. /\ audit' = audit \cup {runner[r].msg} /\ runner'[r].pc = "deliver"
        /\ runner'[r].msg = runner[r].msg /\ runner[r].pc = "dispatch"
        /\ UNCHANGED <<missed, delivered, poisoned>>
    BY <1>3, DispatchFreshMoves DEF DispatchFresh
  <2> QED
    BY <1>0, <2>1 DEF OnlyMissed
<1>4. CASE DispatchDuplicate(r)
  <2>1. PICK m \in Messages : m = runner[r].msg
    BY <1>0, <1>4, DispatchDuplicateMoves DEF NoCopies
  <2>2. /\ poisoned' = poisoned \cup {m} /\ m \in audit /\ runner[r].pc = "dispatch"
        /\ UNCHANGED <<audit, missed, delivered>>
    BY <1>4, <2>1 DEF DispatchDuplicate, At
  <2>3. Carries(r, m) /\ m \notin ToSet(delivered)
    BY <2>1, <2>2 DEF Carries, Carried, Conserved, OnePlace
  <2>4. ASSUME NEW q \in Runners, runner[q].pc = "deliver", runner[q].msg = m PROVE FALSE
    BY <1>0, <2>2, <2>3, <2>4 DEF Carries, NoCopies
  <2>5. m \in missed
    BY <2>2, <2>3, <2>4 DEF OnlyMissed
  <2> QED
    BY <1>0, <2>2, <2>5 DEF OnlyMissed
<1>5. CASE OnMessage(r)
  <2>1. PICK m \in Messages : m = runner[r].msg
    BY <1>0, <1>5, OnMessageMoves DEF NoCopies
  <2>2. delivered' = Append(delivered, m) /\ UNCHANGED <<audit, missed, poisoned>>
    BY <1>5, <2>1 DEF OnMessage
  <2>3. ToSet(delivered') = ToSet(delivered) \cup {m}
    BY <2>2, AppendOnce DEF TypeOK
  <2> QED
    BY <1>0, <2>1, <2>2, <2>3 DEF OnlyMissed
<1>6. CASE Park(r)
  <2>1. /\ UNCHANGED <<delivered, poisoned>> /\ missed \subseteq missed'
        /\ \A m \in audit' : m \in audit /\ (m = runner[r].msg => m \in missed')
    BY <1>6 DEF Park
  <2> QED
    BY <1>0, <2>1 DEF OnlyMissed
<1> QED
  BY <1>2, <1>3, <1>4, <1>5, <1>6 DEF RunnerStep

(* At every step no message ends as poison but one that its consumer missed. *)
THEOREM OnlyMissedInvariant == Spec => []OnlyMissed
<1>1. Init => OnlyMissed
  BY DEF Init, OnlyMissed
<1>2. Always /\ OnlyMissed /\ [Next]_vars => OnlyMissed'
  <2> SUFFICES ASSUME Always, OnlyMissed, [Next]_vars PROVE OnlyMissed'
    OBVIOUS
  <2>1. TypeOK /\ InCall /\ Conserved /\ Dispatcher \in Actors
    BY DEF Always, Actors
  <2>2. CASE UNCHANGED vars
    BY <2>2 DEF vars, history, OnlyMissed
  <2>3. CASE \/ \E m \in Messages : Execute(m)
             \/ WakeupStep(Dispatcher)
             \/ \E k \in Controllers : Call(k)
    BY <2>1, <2>3, ActorOnlyMissed
  <2>4. ASSUME NEW r \in Runners, RunnerStep(r) PROVE OnlyMissed'
    BY <2>1, <2>4, RunnerOnlyMissed
  <2> QED
    BY <2>2, <2>3, <2>4 DEF Next, Call
<1> QED
  BY <1>1, <1>2, DispatchInvariant, PTL DEF Spec

(* A message that execute queued is in exactly one place, through parking in a
   stopped consumer, redispatch by setMessageListener and any interleaving of starts
   and stops, overlapping ones too: none is lost and none is given twice, and none ends
   as poison but one that came while its running consumer had no listener. *)
THEOREM NothingLostOrDoubled == Spec => []MessagesConserved
<1>1. Always /\ OnlyMissed => MessagesConserved
  BY ConservedIsOnce DEF Always
<1> QED
  BY <1>1, DispatchInvariant, OnlyMissedInvariant, PTL
-----------------------------------------------------------------------------
(***************************************************************************)
(* What holds until two calls overlap.  When they do, a start can create a *)
(* runner while a stop is at its end.                                      *)
(***************************************************************************)
Owned == RunnerOwned /\ RunsWhenStarted /\ ConsumersFirst

(* A runner's step changes nothing of this, except that a runner may end. *)
LEMMA RunnerOwns ==
  ASSUME TypeOK, Owned, NEW r \in Runners, RunnerStep(r)
  PROVE  Owned'
<1>1. /\ runner[r].pc \notin {"new", "exited"} /\ runner'[r].pc # "new"
      /\ \A q \in Runners : q # r => runner'[q] = runner[q]
      /\ UNCHANGED <<started, running, taskRunner, cRunning, actor>>
  BY RunnerFrame
<1>2. \A q \in Runners : Alive(q)' => Alive(q)
  BY <1>1 DEF Alive
<1> QED
  BY <1>1, <1>2 DEF Owned, RunnerOwned, RunsWhenStarted, ConsumersFirst, Doing

(* Neither does a step of the dispatcher, apart from the runner it may create. *)
LEMMA DispatcherOwns ==
  ASSUME TypeOK, InCall, Owned
  PROVE  /\ \A m \in Messages : Execute(m) => Owned'
         /\ WakeupStep(Dispatcher) => Owned'
<1>0. Controllers \subseteq Actors /\ Dispatcher \in Actors /\ Dispatcher \notin Controllers /\ NoRunner \notin Runners
  BY DispatchAssumption DEF Actors
<1>1. ASSUME UNCHANGED <<started, running, taskRunner, cRunning>>,
             \A z \in Actors : z # Dispatcher => actor'[z] = actor[z],
             \A q \in Runners : runner'[q].pc = runner[q].pc
      PROVE  Owned'
  <2>1. \A k \in Controllers : actor'[k] = actor[k]
    BY <1>0, <1>1
  <2> QED
    BY <1>1, <2>1 DEF Owned, RunnerOwned, RunsWhenStarted, ConsumersFirst, Doing, Alive
<1>2. ASSUME NEW m \in Messages, Execute(m) PROVE Owned'
  BY <1>1, <1>2, ExecuteMoves
<1>3. CASE WakeupFindsRunner(Dispatcher)
  BY <1>0, <1>1, <1>3, WakeupFindsRunnerMoves
<1>4. CASE WakeupStopped(Dispatcher)
  BY <1>0, <1>1, <1>4, WakeupStoppedMoves
<1>5. CASE WakeupNotifies(Dispatcher)
  <2>1. actor[Dispatcher].runner \in Runners
    BY <1>0, <1>5, WakeupNotifiesMoves DEF InCall
  <2> QED
    BY <1>0, <1>1, <1>5, <2>1, WakeupNotifiesMoves, WakeupNotifiesRunner
<1>6. CASE WakeupCreatesRunner(Dispatcher)
  <2>1. PICK r \in Runners :
           /\ taskRunner' = r
           /\ \A z \in Actors : z # Dispatcher => actor'[z] = actor[z]
           /\ \A z \in Runners : z # r => runner'[z] = runner[z]
    BY <1>0, <1>6, WakeupCreatesRunnerMoves
  <2>2. /\ taskRunner = NoRunner /\ running
        /\ UNCHANGED <<started, running, cRunning>>
    BY <1>0, <1>6, WakeupCreatesRunnerMoves
  <2>3. \A k \in Controllers : actor'[k] = actor[k]
    BY <1>0, <2>1
  <2>4. \A q \in Runners : q # r => (Alive(q)' <=> Alive(q))
    BY <2>1 DEF Alive
  <2>5. RunnerOwned'
    BY <1>0, <2>1, <2>2, <2>3, <2>4 DEF Owned, RunnerOwned
  <2> QED
    BY <2>2, <2>3, <2>5 DEF Owned, RunsWhenStarted, ConsumersFirst, Doing
<1> QED
  BY <1>2, <1>3, <1>4, <1>5, <1>6 DEF WakeupStep

(* A thread's step of a call is its own, and a call that goes on has begun. *)
LEMMA CallFrame ==
  ASSUME TypeOK, NEW k \in Controllers, Call(k)
  PROVE  /\ \A j \in Controllers : j # k => actor'[j] = actor[j]
         /\ CallStep(k) => actor[k].pc # "idle" /\ UNCHANGED overlapped
         /\ ~CallStep(k) => CallBegins(k)
<1>0. Controllers \subseteq Actors
  BY DEF Actors
<1>1. CASE ConnectionStart(k)
  BY <1>0, <1>1, ConnectionStartMoves DEF ConnectionStart, CallStep, WakeupStep, CallBegins,
     WakeupFindsRunner, WakeupStopped, WakeupCreatesRunner, WakeupNotifies, ConsumerStart,
     ExecutorStart, WakeIfQueued, ConsumerStop, ExecutorStop, RunnerShutdown, RunnerJoined,
     AssignListener, Redispatch, ExecuteFirst, RedispatchDone
<1>2. CASE ConnectionStop(k)
  BY <1>0, <1>2, ConnectionStopMoves DEF ConnectionStop, CallStep, WakeupStep, CallBegins,
     WakeupFindsRunner, WakeupStopped, WakeupCreatesRunner, WakeupNotifies, ConsumerStart,
     ExecutorStart, WakeIfQueued, ConsumerStop, ExecutorStop, RunnerShutdown, RunnerJoined,
     AssignListener, Redispatch, ExecuteFirst, RedispatchDone
<1>3. ASSUME NEW c \in Consumers, SetMessageListener(k, c)
      PROVE  /\ \A j \in Controllers : j # k => actor'[j] = actor[j]
             /\ CallStep(k) => actor[k].pc # "idle" /\ UNCHANGED overlapped
             /\ ~CallStep(k) => CallBegins(k)
  BY <1>0, <1>3, SetMessageListenerMoves DEF SetMessageListener, CallStep, WakeupStep, CallBegins,
     WakeupFindsRunner, WakeupStopped, WakeupCreatesRunner, WakeupNotifies, ConsumerStart,
     ExecutorStart, WakeIfQueued, ConsumerStop, ExecutorStop, RunnerShutdown, RunnerJoined,
     AssignListener, Redispatch, ExecuteFirst, RedispatchDone
<1>4. CASE CallStep(k)
  <2>1. actor[k].pc # "idle" /\ UNCHANGED overlapped
    BY <1>4 DEF CallStep, WakeupStep,
       WakeupFindsRunner, WakeupStopped, WakeupCreatesRunner, WakeupNotifies, ConsumerStart,
       ExecutorStart, WakeIfQueued, ConsumerStop, ExecutorStop, RunnerShutdown, RunnerJoined,
       AssignListener, Redispatch, ExecuteFirst, RedispatchDone
  <2>2. \A z \in Actors : z # k => actor'[z] = actor[z]
    <3>1. CASE WakeupStep(k)
      BY <1>0, <3>1, WakeupFindsRunnerMoves, WakeupStoppedMoves, WakeupCreatesRunnerMoves,
         WakeupNotifiesMoves DEF WakeupStep
    <3>2. CASE ConsumerStart(k)
      BY <3>2, ConsumerStartMoves
    <3>3. CASE ExecutorStart(k)
      BY <3>3, ExecutorStartMoves
    <3>4. CASE WakeIfQueued(k)
      BY <3>4, WakeIfQueuedMoves
    <3>5. CASE ConsumerStop(k)
      BY <3>5, ConsumerStopMoves
    <3>6. CASE ExecutorStop(k)
      BY <3>6, ExecutorStopMoves
    <3>7. CASE RunnerShutdown(k)
      BY <3>7, RunnerShutdownMoves
    <3>8. CASE RunnerJoined(k)
      BY <3>8, RunnerJoinedMoves
    <3>9. CASE AssignListener(k)
      BY <3>9, AssignListenerMoves
    <3>10. CASE Redispatch(k)
      BY <3>10, RedispatchMoves
    <3>11. CASE ExecuteFirst(k)
      BY <3>11, ExecuteFirstMoves
    <3>12. CASE RedispatchDone(k)
      BY <3>12, RedispatchDoneMoves
    <3> QED
      BY <1>4, <3>1, <3>2, <3>3, <3>4, <3>5, <3>6, <3>7, <3>8, <3>9, <3>10, <3>11, <3>12 DEF CallStep
  <2> QED
    BY <1>0, <1>4, <2>1, <2>2
<1> QED
  BY <1>1, <1>2, <1>3, <1>4 DEF Call

(* Until calls overlap nobody but the thread that takes a step is inside a call. *)
LEMMA TurnKept ==
  ASSUME TypeOK, InTurn, ~overlapped', NEW k \in Controllers, Call(k)
  PROVE  Alone(k) /\ Alone(k)' /\ InTurn'
<1>1. /\ \A j \in Controllers : j # k => actor'[j] = actor[j]
      /\ CallStep(k) => actor[k].pc # "idle"
      /\ ~CallStep(k) => CallBegins(k)
  BY CallFrame
<1>2. Alone(k)
  <2>1. CASE CallStep(k)
    BY <1>1, <2>1 DEF Alone, InTurn
  <2>2. CASE CallBegins(k)
    BY <2>2 DEF Alone, CallBegins
  <2> QED
    BY <1>1, <2>1, <2>2
<1> QED
  BY <1>1, <1>2 DEF Alone, InTurn

(* Once calls have overlapped they have, and until then they follow one another. *)
LEMMA TurnNext ==
  ASSUME TypeOK, InTurn, [Next]_vars, ~overlapped'
  PROVE  InTurn'
<1>0. Controllers \subseteq Actors /\ Dispatcher \in Actors /\ Dispatcher \notin Controllers
  BY DispatchAssumption DEF Actors
<1>1. ASSUME \A j \in Controllers : actor'[j] = actor[j] PROVE InTurn'
  BY <1>1 DEF InTurn
<1>2. CASE UNCHANGED vars
  BY <1>1, <1>2 DEF vars
<1>3. ASSUME NEW m \in Messages, Execute(m) PROVE InTurn'
  BY <1>0, <1>1, <1>3, ExecuteMoves
<1>4. CASE WakeupStep(Dispatcher)
  BY <1>0, <1>1, <1>4, WakeupFindsRunnerMoves, WakeupStoppedMoves, WakeupCreatesRunnerMoves,
     WakeupNotifiesMoves DEF WakeupStep
<1>5. ASSUME NEW k \in Controllers, Call(k) PROVE InTurn'
  BY <1>5, TurnKept
<1>6. ASSUME NEW r \in Runners, RunnerStep(r) PROVE InTurn'
  BY <1>1, <1>6, RunnerFrame
<1> QED
  BY <1>2, <1>3, <1>4, <1>5, <1>6 DEF Next, Call

LEMMA OverlapStays ==
  ASSUME TypeOK, [Next]_vars, ~overlapped'
  PROVE  ~overlapped
<1>1. CASE UNCHANGED vars
  BY <1>1 DEF vars
<1>2. ASSUME NEW m \in Messages, Execute(m) PROVE ~overlapped
  BY <1>2 DEF Execute
<1>3. CASE WakeupStep(Dispatcher)
  BY <1>3 DEF WakeupStep, WakeupFindsRunner, WakeupStopped, WakeupCreatesRunner, WakeupNotifies
<1>4. ASSUME NEW k \in Controllers, Call(k) PROVE ~overlapped
  BY <1>4, CallFrame DEF CallBegins
<1>5. ASSUME NEW r \in Runners, RunnerStep(r) PROVE ~overlapped
  BY <1>5 DEF RunnerStep, Top, IterateConsumer, ConsumerDequeues, ConsumerIdle, SessionDequeues,
     SessionIdle, DispatchFresh, DispatchDuplicate, OnMessage, Park, OnMessageReturns, More, Awake
<1> QED
  BY <1>1, <1>2, <1>3, <1>4, <1>5 DEF Next, Call

(* The calls, one at a time. *)
LEMMA CallOwns ==
  ASSUME TypeOK, InCall, Owned, NEW k \in Controllers, Alone(k), Alone(k)'
  PROVE  /\ ConnectionStart(k) \/ ConnectionStop(k) => Owned'
         /\ \A c \in Consumers : SetMessageListener(k, c) => Owned'
         /\ CallStep(k) => Owned'
<1> USE DEF Stopping, Assigning
<1>0. /\ k \in Actors
      /\ \A j \in Controllers : j = k \/ (actor[j].pc = "idle" /\ actor'[j].pc = "idle")
      /\ NoRunner \notin Runners /\ taskRunner \in Runners \cup {NoRunner}
  BY DispatchAssumption DEF Actors, Alone, TypeOK
<1>10. Consumers = 1..NumConsumers /\ NumConsumers \in Nat \ {0} /\ actor[k].idx \in Consumers
  BY <1>0, DispatchAssumption DEF Consumers, TypeOK, ActorState
<1>1. CASE ConnectionStart(k)
  <2>1. /\ started' = TRUE /\ ~started
        /\ actor[k].pc = "idle" /\ actor'[k].pc = "cstart" /\ actor'[k].idx = 1 /\ actor'[k].op = "start"
        /\ UNCHANGED <<running, taskRunner, cRunning, runner>>
    BY <1>1, ConnectionStartMoves
  <2>2. RunnerOwned'
    BY <1>0, <2>1 DEF Owned, RunnerOwned, Alive
  <2>3. RunsWhenStarted'
    BY <1>0, <2>1 DEF Owned, RunsWhenStarted, Doing
  <2>4. ~running
    BY <1>0, <2>1 DEF Owned, RunsWhenStarted
  <2>5. \A c \in Consumers : ~(c < 1)
    BY <1>10
  <2>6. ConsumersFirst'
    BY <1>0, <2>1, <2>4, <2>5 DEF Owned, ConsumersFirst, Doing
  <2> QED
    BY <2>2, <2>3, <2>6 DEF Owned
<1>2. CASE ConnectionStop(k)
  <2>1. /\ started' = FALSE
        /\ actor[k].pc = "idle" /\ actor'[k].pc = "cstop" /\ actor'[k].op = "stop"
        /\ UNCHANGED <<running, taskRunner, cRunning, runner>>
    BY <1>2, ConnectionStopMoves
  <2>2. RunnerOwned'
    BY <1>0, <2>1 DEF Owned, RunnerOwned, Alive
  <2>3. RunsWhenStarted'
    BY <1>0, <2>1 DEF Owned, RunsWhenStarted, Doing
  <2>6. ConsumersFirst'
    BY <1>0, <2>1 DEF Owned, ConsumersFirst, Doing
  <2> QED
    BY <2>2, <2>3, <2>6 DEF Owned
<1>3. ASSUME NEW c \in Consumers, SetMessageListener(k, c) PROVE Owned'
  <2>1. /\ actor[k].pc = "idle" /\ actor'[k].pc = (IF running THEN "cstop" ELSE "assign")
        /\ actor'[k].op = "listen" /\ actor'[k].restart = running
        /\ UNCHANGED <<started, running, taskRunner, cRunning, runner>>
    BY <1>3, SetMessageListenerMoves
  <2>2. RunnerOwned'
    BY <1>0, <2>1 DEF Owned, RunnerOwned, Alive
  <2>3. RunsWhenStarted'
    BY <1>0, <2>1 DEF Owned, RunsWhenStarted, Doing
  <2>6. ConsumersFirst'
    BY <1>0, <2>1 DEF Owned, ConsumersFirst, Doing
  <2> QED
    BY <2>2, <2>3, <2>6 DEF Owned
<1>4. CASE ConsumerStart(k)
  <2>1. PICK e \in Consumers : e = actor[k].idx
    BY <1>10
  <2>2. /\ actor[k].pc = "cstart" /\ actor'[k].pc = "wake"
        /\ actor'[k].ret = (IF e = NumConsumers THEN "xstart" ELSE "cstart")
        /\ actor'[k].idx = (IF e = NumConsumers THEN e ELSE e + 1)
        /\ actor'[k].op = actor[k].op /\ actor'[k].restart = actor[k].restart
        /\ cRunning' = [cRunning EXCEPT ![e] = TRUE]
        /\ UNCHANGED <<started, running, taskRunner, runner>>
    BY <1>4, <2>1, ConsumerStartMoves
  <2>3. cRunning'[e] /\ \A c \in Consumers : c # e => cRunning'[c] = cRunning[c]
    BY <2>2 DEF TypeOK
  <2>4. RunnerOwned'
    BY <1>0, <2>2 DEF Owned, RunnerOwned, Alive
  <2>5. RunsWhenStarted'
    BY <1>0, <2>2 DEF Owned, RunsWhenStarted, Doing
  <2>6. \A c \in Consumers : c < e => cRunning'[c]
    BY <1>0, <1>10, <2>1, <2>2, <2>3 DEF Owned, ConsumersFirst, Doing
  <2>7. \A c \in Consumers : (c < e + 1 => cRunning'[c]) /\ (e = NumConsumers => cRunning'[c])
    BY <1>10, <2>3, <2>6
  <2>8. ConsumersFirst'
    BY <1>0, <2>2, <2>3, <2>7 DEF Owned, ConsumersFirst, Doing
  <2> QED
    BY <2>4, <2>5, <2>8 DEF Owned
<1>5. CASE ExecutorStart(k)
  <2>2. /\ actor[k].pc = "xstart" /\ actor'[k].pc = (IF running THEN "idle" ELSE "check")
        /\ running' = TRUE
        /\ UNCHANGED <<started, cRunning, taskRunner, runner>>
    BY <1>5, ExecutorStartMoves
  <2>4. RunnerOwned'
    BY <1>0, <2>2 DEF Owned, RunnerOwned, Alive
  <2>5. RunsWhenStarted'
    BY <1>0, <2>2 DEF Owned, RunsWhenStarted, Doing
  <2>8. ConsumersFirst'
    BY <1>0, <2>2 DEF Owned, ConsumersFirst, Doing
  <2> QED
    BY <2>4, <2>5, <2>8 DEF Owned
<1>6. CASE WakeIfQueued(k)
  <2>2. /\ actor[k].pc = "check" /\ actor'[k].pc \in {"wake", "idle"} /\ actor'[k].ret = "idle"
        /\ UNCHANGED <<started, running, cRunning, taskRunner, runner>>
    BY <1>6, WakeIfQueuedMoves
  <2>4. RunnerOwned'
    BY <1>0, <2>2 DEF Owned, RunnerOwned, Alive
  <2>5. RunsWhenStarted'
    BY <1>0, <2>2 DEF Owned, RunsWhenStarted, Doing
  <2>8. ConsumersFirst'
    BY <1>0, <2>2 DEF Owned, ConsumersFirst, Doing
  <2> QED
    BY <2>4, <2>5, <2>8 DEF Owned
<1>7. CASE ConsumerStop(k)
  <2>2. /\ actor[k].pc = "cstop" /\ actor'[k].pc \in {"cstop", "xstop"}
        /\ actor'[k].op = actor[k].op /\ actor'[k].restart = actor[k].restart
        /\ UNCHANGED <<started, running, taskRunner, runner>>
    BY <1>7, ConsumerStopMoves
  <2>4. RunnerOwned'
    BY <1>0, <2>2 DEF Owned, RunnerOwned, Alive
  <2>5. RunsWhenStarted'
    BY <1>0, <2>2 DEF Owned, RunsWhenStarted, Doing
  <2>8. ConsumersFirst'
    BY <1>0, <2>2 DEF Owned, ConsumersFirst, Doing
  <2> QED
    BY <2>4, <2>5, <2>8 DEF Owned
<1>8. CASE ExecutorStop(k)
  <2>1. AfterStop(k) \in {"idle", "assign"} /\ (AfterStop(k) = "assign" => actor[k].op = "listen")
    <3>1. actor[k].op \in {"stop", "listen"}
      BY <1>8, ExecutorStopMoves DEF InCall, Doing
    <3> QED
      BY <3>1 DEF AfterStop
  <2>2. /\ actor[k].pc = "xstop" /\ running' = FALSE
        /\ taskRunner' = (IF running THEN NoRunner ELSE taskRunner)
        /\ actor'[k].pc = (IF ~running \/ taskRunner = NoRunner THEN AfterStop(k) ELSE "shutdown")
        /\ actor'[k].runner = (IF ~running \/ taskRunner = NoRunner THEN NoRunner ELSE taskRunner)
        /\ actor'[k].op = actor[k].op /\ actor'[k].restart = actor[k].restart
        /\ UNCHANGED <<started, cRunning, runner>>
    BY <1>8, ExecutorStopMoves
  <2>3. taskRunner' = NoRunner
    BY <2>2 DEF Owned, RunnerOwned
  <2>4. RunnerOwned'
    <3>1. ASSUME NEW q \in Runners, Alive(q)' PROVE q = taskRunner /\ running
      BY <1>0, <2>2, <3>1 DEF Owned, RunnerOwned, Alive
    <3>2. ASSUME NEW q \in Runners, Alive(q)'
          PROVE  actor'[k].pc = "shutdown" /\ actor'[k].runner = q
      BY <1>0, <2>2, <3>1, <3>2
    <3> QED
      BY <1>0, <2>2, <2>3, <3>2 DEF RunnerOwned
  <2>5. RunsWhenStarted'
    BY <1>0, <2>1, <2>2 DEF Owned, RunsWhenStarted, Doing
  <2>8. ConsumersFirst'
    BY <1>0, <2>1, <2>2 DEF Owned, ConsumersFirst, Doing
  <2> QED
    BY <2>4, <2>5, <2>8 DEF Owned
<1>9. CASE RunnerShutdown(k)
  <2>1. actor[k].runner \in Runners
    BY <1>0, <1>9, RunnerShutdownMoves DEF InCall
  <2>2. /\ actor[k].pc = "shutdown" /\ actor'[k].pc = "join"
        /\ actor'[k].op = actor[k].op /\ actor'[k].restart = actor[k].restart
        /\ actor'[k].runner = actor[k].runner
        /\ \A q \in Runners : runner'[q].pc = runner[q].pc
        /\ UNCHANGED <<started, running, cRunning, taskRunner>>
    BY <1>9, <2>1, RunnerShutdownMoves, RunnerShutdownRunner
  <2>4. RunnerOwned'
    BY <1>0, <2>2 DEF Owned, RunnerOwned, Alive
  <2>5. RunsWhenStarted'
    BY <1>0, <2>2 DEF Owned, RunsWhenStarted, Doing
  <2>8. ConsumersFirst'
    BY <1>0, <2>2 DEF Owned, ConsumersFirst, Doing
  <2> QED
    BY <2>4, <2>5, <2>8 DEF Owned
<1>11. CASE RunnerJoined(k)
  <2>1. AfterStop(k) \in {"idle", "assign"} /\ (AfterStop(k) = "assign" => actor[k].op = "listen")
    <3>1. actor[k].op \in {"stop", "listen"}
      BY <1>11, RunnerJoinedMoves DEF InCall, Doing
    <3> QED
      BY <3>1 DEF AfterStop
  <2>2. /\ actor[k].pc = "join" /\ actor'[k].pc = AfterStop(k)
        /\ actor'[k].op = actor[k].op /\ actor'[k].restart = actor[k].restart
        /\ runner[actor[k].runner].pc = "exited"
        /\ UNCHANGED <<started, running, cRunning, taskRunner, runner>>
    BY <1>11, RunnerJoinedMoves
  <2>4. RunnerOwned'
    <3>1. ~Alive(actor[k].runner)
      BY <2>2 DEF Alive
    <3> QED
      BY <1>0, <2>1, <2>2, <3>1 DEF Owned, RunnerOwned, Alive
  <2>5. RunsWhenStarted'
    BY <1>0, <2>1, <2>2 DEF Owned, RunsWhenStarted, Doing
  <2>8. ConsumersFirst'
    BY <1>0, <2>1, <2>2 DEF Owned, ConsumersFirst, Doing
  <2> QED
    BY <2>4, <2>5, <2>8 DEF Owned
<1>12. CASE AssignListener(k) \/ Redispatch(k) \/ ExecuteFirst(k)
  <2>2. /\ Doing(k, Assigning) /\ actor[k].pc \in Assigning
        /\ Doing(k, Assigning)' /\ ~Doing(k, {"cstart"})' /\ ~Doing(k, {"xstart"})'
        /\ actor'[k].pc \in {"redispatch", "first", "wake"}
        /\ actor'[k].op = actor[k].op /\ actor'[k].restart = actor[k].restart
        /\ UNCHANGED <<started, running, cRunning, taskRunner, runner>>
    BY <1>12, AssignListenerMoves, RedispatchMoves, ExecuteFirstMoves DEF Doing
  <2>4. RunnerOwned'
    BY <1>0, <2>2 DEF Owned, RunnerOwned, Alive
  <2>5. RunsWhenStarted'
    BY <1>0, <2>2 DEF Owned, RunsWhenStarted, Doing
  <2>8. ConsumersFirst'
    BY <1>0, <2>2 DEF Owned, ConsumersFirst, Doing
  <2> QED
    BY <2>4, <2>5, <2>8 DEF Owned
<1>13. CASE RedispatchDone(k)
  <2>1. actor[k].op = "listen"
    BY <1>13, RedispatchDoneMoves DEF InCall, Doing
  <2>2. /\ actor[k].pc = "first" /\ actor'[k].pc = (IF actor[k].restart THEN "cstart" ELSE "idle")
        /\ actor'[k].op = actor[k].op /\ actor'[k].restart = actor[k].restart /\ actor'[k].idx = 1
        /\ UNCHANGED <<started, running, cRunning, taskRunner, runner>>
    BY <1>13, RedispatchDoneMoves
  <2>4. RunnerOwned'
    BY <1>0, <2>2 DEF Owned, RunnerOwned, Alive
  <2>5. RunsWhenStarted'
    BY <1>0, <2>1, <2>2 DEF Owned, RunsWhenStarted, Doing
  <2>7. \A c \in Consumers : ~(c < 1)
    BY <1>10
  <2>8. ConsumersFirst'
    BY <1>0, <2>2, <2>7 DEF Owned, ConsumersFirst, Doing
  <2> QED
    BY <2>4, <2>5, <2>8 DEF Owned
<1>14. ASSUME UNCHANGED <<started, running, cRunning>>,
              actor'[k].op = actor[k].op, actor'[k].restart = actor[k].restart,
              actor'[k].idx = actor[k].idx, actor'[k].ret = actor[k].ret,
              actor[k].pc \in {"wake", "notify"}, actor'[k].pc \in {"notify", actor[k].ret}
       PROVE  RunsWhenStarted' /\ ConsumersFirst'
  <2>1. \A places : "notify" \notin places => (Doing(k, places)' => Doing(k, places))
    BY <1>14 DEF Doing
  <2>2. actor[k].ret \notin {"wake", "notify", "cstop", "xstop", "shutdown", "join"}
    BY <1>0 DEF InCall
  <2>3. actor'[k].pc \notin {"cstop", "xstop"} /\ actor[k].pc \notin {"cstop", "xstop"}
    BY <1>14, <2>2
  <2>4. RunsWhenStarted'
    BY <1>0, <1>14, <2>1, <2>3 DEF Owned, RunsWhenStarted, Doing
  <2>5. ConsumersFirst'
    BY <1>0, <1>14, <2>1, <2>3 DEF Owned, ConsumersFirst, Doing
  <2> QED
    BY <2>4, <2>5
<1>15. CASE WakeupStep(k)
  <2>0. actor[k].ret \notin {"wake", "notify", "cstop", "xstop", "shutdown", "join"}
    BY <1>0 DEF InCall
  <2>1. CASE WakeupFindsRunner(k)
    <3>1. RunnerOwned'
      BY <1>0, <2>1, WakeupFindsRunnerMoves DEF Owned, RunnerOwned, Alive
    <3> QED
      BY <1>0, <1>14, <2>1, <3>1, WakeupFindsRunnerMoves DEF Owned
  <2>2. CASE WakeupStopped(k)
    <3>1. RunnerOwned'
      BY <1>0, <2>0, <2>2, WakeupStoppedMoves DEF Owned, RunnerOwned, Alive
    <3> QED
      BY <1>0, <1>14, <2>2, <3>1, WakeupStoppedMoves DEF Owned
  <2>3. CASE WakeupNotifies(k)
    <3>1. actor[k].runner \in Runners
      BY <1>0, <2>3, WakeupNotifiesMoves DEF InCall
    <3>2. \A q \in Runners : runner'[q].pc = runner[q].pc
      BY <1>0, <2>3, <3>1, WakeupNotifiesRunner
    <3>3. RunnerOwned'
      BY <1>0, <2>0, <2>3, <3>2, WakeupNotifiesMoves DEF Owned, RunnerOwned, Alive
    <3> QED
      BY <1>0, <1>14, <2>3, <3>3, WakeupNotifiesMoves DEF Owned
  <2>4. CASE WakeupCreatesRunner(k)
    <3>1. PICK q \in Runners :
             /\ taskRunner' = q
             /\ actor'[k].op = actor[k].op /\ actor'[k].restart = actor[k].restart
             /\ actor'[k].idx = actor[k].idx /\ actor'[k].ret = actor[k].ret
             /\ actor'[k].pc = "notify"
             /\ \A z \in Runners : z # q => runner'[z] = runner[z]
      BY <1>0, <2>4, WakeupCreatesRunnerMoves
    <3>2. /\ taskRunner = NoRunner /\ running /\ actor[k].pc = "wake"
          /\ UNCHANGED <<started, running, cRunning>>
      BY <1>0, <2>4, WakeupCreatesRunnerMoves
    <3>3. \A z \in Runners : z # q => ~Alive(z)'
      BY <1>0, <3>1, <3>2 DEF Alive, Owned, RunnerOwned
    <3>4. RunnerOwned'
      BY <1>0, <3>1, <3>2, <3>3 DEF RunnerOwned
    <3> QED
      BY <1>14, <3>1, <3>2, <3>4 DEF Owned
  <2> QED
    BY <1>15, <2>1, <2>2, <2>3, <2>4 DEF WakeupStep
<1>16. ASSUME CallStep(k) PROVE Owned'
  BY <1>4, <1>5, <1>6, <1>7, <1>8, <1>9, <1>11, <1>12, <1>13, <1>15, <1>16 DEF CallStep
<1> QED
  BY <1>1, <1>2, <1>3, <1>16
-----------------------------------------------------------------------------
(* At the beginning no runner lives and nothing runs. *)
LEMMA OwnedInit == Init => Owned
<1> SUFFICES ASSUME Init PROVE Owned
  OBVIOUS
<1>1. /\ ~running /\ taskRunner = NoRunner
      /\ \A k \in Controllers : actor[k].pc = "idle"
      /\ \A r \in Runners : runner[r].pc = "new"
  BY DEF Init, Actors
<1> QED
  BY <1>1 DEF Owned, RunnerOwned, RunsWhenStarted, ConsumersFirst, Doing, Alive, Stopping, Assigning

(* Every step keeps Owned until calls overlap. *)
LEMMA OwnedNext ==
  ASSUME Always, InTurn, Owned, [Next]_vars, ~overlapped'
  PROVE  Owned'
<1>0. TypeOK /\ InCall
  BY DEF Always
<1>1. CASE UNCHANGED vars
  BY <1>1 DEF vars, executor, consumers, locks, history, Owned, RunnerOwned, RunsWhenStarted,
     ConsumersFirst, Doing, Alive
<1>2. ASSUME NEW m \in Messages, Execute(m) PROVE Owned'
  BY <1>0, <1>2, DispatcherOwns
<1>3. CASE WakeupStep(Dispatcher)
  BY <1>0, <1>3, DispatcherOwns
<1>4. ASSUME NEW k \in Controllers, Call(k) PROVE Owned'
  <2>1. Alone(k) /\ Alone(k)'
    BY <1>0, <1>4, TurnKept
  <2> QED
    BY <1>0, <1>4, <2>1, CallOwns DEF Call
<1>5. ASSUME NEW r \in Runners, RunnerStep(r) PROVE Owned'
  BY <1>0, <1>5, RunnerOwns
<1> QED
  BY <1>1, <1>2, <1>3, <1>4, <1>5 DEF Next, Call

(* Until calls overlap. *)
OwnedInTurn == ~overlapped => InTurn /\ Owned

(* Until calls overlap, a runner that lives is the executor's or is being shut
   down, and the executor runs only while the connection is started. *)
THEOREM OwnedInvariant == Spec => []OwnedInTurn
<1>1. Init => OwnedInTurn
  <2>1. Init => InTurn
    BY DEF Init, InTurn, Actors
  <2> QED
    BY <2>1, OwnedInit DEF OwnedInTurn
<1>2. Always /\ OwnedInTurn /\ [Next]_vars => OwnedInTurn'
  <2> SUFFICES ASSUME Always, OwnedInTurn, [Next]_vars, ~overlapped' PROVE InTurn' /\ Owned'
    BY DEF OwnedInTurn
  <2>1. TypeOK /\ ~overlapped
    BY OverlapStays DEF Always
  <2>2. InTurn /\ Owned
    BY <2>1 DEF OwnedInTurn
  <2> QED
    BY <2>1, <2>2, TurnNext, OwnedNext
<1> QED
  BY <1>1, <1>2, DispatchInvariant, PTL DEF Spec

(* At most one runner lives. *)
LEMMA OneAlive ==
  ASSUME InTurn, Owned, NEW r \in Runners, NEW q \in Runners, Alive(r), Alive(q)
  PROVE  r = q
<1>1. NoRunner \notin Runners
  BY DispatchAssumption
<1> QED
  BY <1>1 DEF InTurn, Owned, RunnerOwned

(* Until calls overlap at most one runner lives, so that no two threads are inside
   listeners of the session, whichever threads start and stop it and however often. *)
THEOREM OneListenerAtATime == Spec => []ListenersSerialized
<1>1. OwnedInTurn => ListenersSerialized
  BY OneAlive DEF OwnedInTurn, ListenersSerialized, OneInListener, At, Alive
<1> QED
  BY <1>1, OwnedInvariant, PTL

(* Until calls overlap no runner lives when stop has returned: the join in
   DedicatedTaskRunner::shutdown and the wakeup that finds the queue stopped suffice. *)
THEOREM StopIsFinal == Spec => []StopEndsDelivery
<1>1. OwnedInTurn => StopEndsDelivery
  BY DispatchAssumption DEF StopEndsDelivery, QuietWhenStopped, OwnedInTurn, Owned, RunnerOwned,
     RunsWhenStarted, Alive
<1> QED
  BY <1>1, OwnedInvariant, PTL
-----------------------------------------------------------------------------
(* The executor does not run before the thread that starts it has started the consumers. *)
LEMMA StartsStoppedNext ==
  ASSUME InTurn, ~overlapped', Always, Owned, StartsStopped, [Next]_vars
  PROVE  StartsStopped'
<1> USE DEF Starting, Assigning
<1>0. /\ TypeOK /\ InCall /\ Controllers \subseteq Actors
      /\ Dispatcher \in Actors /\ Dispatcher \notin Controllers
  BY DispatchAssumption DEF Always, Actors
<1>1. ASSUME UNCHANGED running, \A k \in Controllers : actor'[k] = actor[k] PROVE StartsStopped'
  BY <1>1 DEF StartsStopped, Doing
<1>2. CASE UNCHANGED vars
  BY <1>1, <1>2 DEF vars, executor
<1>3. ASSUME NEW m \in Messages, Execute(m) PROVE StartsStopped'
  BY <1>0, <1>1, <1>3, ExecuteMoves
<1>4. ASSUME NEW a \in Actors, WakeupStep(a) PROVE StartsStopped'
  <2>1. /\ UNCHANGED running /\ \A z \in Actors : z # a => actor'[z] = actor[z]
        /\ actor[a].pc \in {"wake", "notify"} /\ actor'[a].pc \in {"notify", actor[a].ret}
        /\ actor'[a].ret = actor[a].ret
    <3>1. CASE WakeupFindsRunner(a)
      BY <3>1, <1>0, WakeupFindsRunnerMoves
    <3>2. CASE WakeupStopped(a)
      BY <3>2, <1>0, WakeupStoppedMoves
    <3>3. CASE WakeupCreatesRunner(a)
      BY <3>3, <1>0, WakeupCreatesRunnerMoves
    <3>4. CASE WakeupNotifies(a)
      BY <3>4, <1>0, WakeupNotifiesMoves
    <3> QED
      BY <1>4, <3>1, <3>2, <3>3, <3>4 DEF WakeupStep
  <2>2. Doing(a, Starting)' => Doing(a, Starting)
    BY <2>1 DEF Doing
  <2>3. \A k \in Controllers : k # a => (Doing(k, Starting)' => Doing(k, Starting))
    BY <1>0, <2>1 DEF Doing
  <2> QED
    BY <2>1, <2>2, <2>3 DEF StartsStopped
<1>5. ASSUME NEW k \in Controllers, Call(k), ~running' \/ ~Doing(k, Starting)' PROVE StartsStopped'
  <2>1. Alone(k)'
    BY <1>0, <1>5, TurnKept
  <2> QED
    BY <1>5, <2>1 DEF Alone, StartsStopped, Doing
<1>6. ASSUME NEW k \in Controllers, ConnectionStart(k) PROVE StartsStopped'
  <2>1. ~running'
    <3>1. Alone(k)
      BY <1>0, <1>6, TurnKept DEF Call
    <3> QED
      BY <1>0, <1>6, <3>1, ConnectionStartMoves DEF Alone, Owned, RunsWhenStarted
  <2> QED
    BY <1>5, <1>6, <2>1 DEF Call
<1>7. ASSUME NEW k \in Controllers, ConnectionStop(k) PROVE StartsStopped'
  BY <1>0, <1>5, <1>7, ConnectionStopMoves DEF Doing, Call
<1>8. ASSUME NEW k \in Controllers, NEW c \in Consumers, SetMessageListener(k, c) PROVE StartsStopped'
  BY <1>0, <1>5, <1>8, SetMessageListenerMoves DEF Doing, Call
<1>9. ASSUME NEW k \in Controllers, CallStep(k) PROVE StartsStopped'
  <2>0. Call(k) /\ (Doing(k, Starting) => ~running)
    BY <1>9 DEF StartsStopped, Call
  <2>1. CASE WakeupStep(k)
    BY <1>0, <1>4, <2>1
  <2>2. CASE ConsumerStart(k)
    BY <1>0, <1>5, <2>0, <2>2, ConsumerStartMoves DEF Doing
  <2>3. CASE ExecutorStart(k)
    BY <1>0, <1>5, <2>0, <2>3, ExecutorStartMoves DEF Doing
  <2>4. CASE WakeIfQueued(k)
    BY <1>0, <1>5, <2>0, <2>4, WakeIfQueuedMoves DEF Doing
  <2>5. CASE ConsumerStop(k)
    BY <1>0, <1>5, <2>0, <2>5, ConsumerStopMoves DEF Doing
  <2>6. CASE ExecutorStop(k)
    BY <1>0, <1>5, <2>0, <2>6, ExecutorStopMoves
  <2>7. CASE RunnerShutdown(k)
    BY <1>0, <1>5, <2>0, <2>7, RunnerShutdownMoves DEF Doing
  <2>8. CASE RunnerJoined(k)
    BY <1>0, <1>5, <2>0, <2>8, RunnerJoinedMoves DEF Owned, RunnerOwned
  <2>9. CASE AssignListener(k)
    BY <1>0, <1>5, <2>0, <2>9, AssignListenerMoves DEF Doing
  <2>10. CASE Redispatch(k)
    BY <1>0, <1>5, <2>0, <2>10, RedispatchMoves DEF Doing
  <2>11. CASE ExecuteFirst(k)
    <3>1. actor[k].pc = "first" /\ UNCHANGED running
      BY <1>0, <2>11, ExecuteFirstMoves
    <3> QED
      BY <1>5, <2>0, <3>1 DEF Doing
  <2>12. CASE RedispatchDone(k)
    BY <1>0, <1>5, <2>0, <2>12, RedispatchDoneMoves DEF Doing
  <2> QED
    BY <1>9, <2>1, <2>2, <2>3, <2>4, <2>5, <2>6, <2>7, <2>8, <2>9, <2>10, <2>11, <2>12 DEF CallStep
<1>10. ASSUME NEW r \in Runners, RunnerStep(r) PROVE StartsStopped'
  BY <1>0, <1>1, <1>10, RunnerFrame
<1>11. CASE WakeupStep(Dispatcher)
  BY <1>0, <1>4, <1>11
<1> QED
  BY <1>2, <1>3, <1>6, <1>7, <1>8, <1>9, <1>10, <1>11 DEF Next

-----------------------------------------------------------------------------
(* The order is kept by a step that moves no message. *)
LEMMA InLineKept ==
  ASSUME InLine, UNCHANGED <<queue, delivered, arrived>>,
         \A q \in Runners : runner'[q].pc \in {"dispatch", "deliver"} =>
            runner[q].pc \in {"dispatch", "deliver"} /\ runner'[q].msg = runner[q].msg
  PROVE  InLine'
<1>1. \A a, b : Before(a, b)' <=> Before(a, b)
  BY DEF Before
<1> QED
  BY <1>1 DEF InLine

(* A new message comes after all that have arrived. *)
LEMMA BeforeNew ==
  ASSUME arrived \in Seq(Messages), NEW m \in Messages, arrived' = Append(arrived, m)
  PROVE  /\ \A a, b : Before(a, b) => Before(a, b)'
         /\ \A a \in ToSet(arrived) : Before(a, m)'
<1>1. /\ DOMAIN arrived = 1..Len(arrived) /\ Len(arrived) \in Nat
      /\ DOMAIN arrived' = 1..(Len(arrived) + 1)
      /\ \A i \in 1..Len(arrived) : arrived'[i] = arrived[i]
      /\ arrived'[Len(arrived) + 1] = m
  BY AppendOnce
<1>2. /\ \A i \in 1..Len(arrived) : i \in 1..(Len(arrived) + 1) /\ i < Len(arrived) + 1
      /\ Len(arrived) + 1 \in 1..(Len(arrived) + 1)
  BY <1>1
<1>3. ASSUME NEW a, NEW b, Before(a, b) PROVE Before(a, b)'
  <2>1. PICK x \in DOMAIN arrived, y \in DOMAIN arrived : x < y /\ arrived[x] = a /\ arrived[y] = b
    BY <1>3 DEF Before
  <2>2. x \in DOMAIN arrived' /\ y \in DOMAIN arrived' /\ arrived'[x] = a /\ arrived'[y] = b
    BY <1>1, <1>2, <2>1
  <2> QED
    BY <2>1, <2>2 DEF Before
<1>4. ASSUME NEW a \in ToSet(arrived) PROVE Before(a, m)'
  <2>1. PICK x \in DOMAIN arrived : arrived[x] = a
    BY DEF ToSet
  <2>2. PICK y \in DOMAIN arrived' : y = Len(arrived) + 1
    BY <1>1, <1>2
  <2>3. x \in DOMAIN arrived' /\ x < y /\ arrived'[x] = a /\ arrived'[y] = m
    BY <1>1, <1>2, <2>1, <2>2
  <2> QED
    BY <2>2, <2>3 DEF Before
<1> QED
  BY <1>3, <1>4

(* execute puts the new message behind all others. *)
LEMMA ExecuteInLine ==
  ASSUME TypeOK, Conserved, InLine, NEW m \in Messages, Execute(m)
  PROVE  InLine'
<1>1. /\ arrived' = Append(arrived, m) /\ queue' = Append(queue, m)
      /\ UNCHANGED <<delivered, runner>>
  BY ExecuteMoves
<1>2. /\ DOMAIN queue = 1..Len(queue) /\ Len(queue) \in Nat
      /\ DOMAIN queue' = 1..(Len(queue) + 1)
      /\ \A i \in 1..Len(queue) : queue'[i] = queue[i]
      /\ queue'[Len(queue) + 1] = m
  <2>1. queue \in Seq(Messages)
    BY DEF TypeOK
  <2> QED
    BY <1>1, <2>1, AppendOnce
<1>3. /\ \A a, b : Before(a, b) => Before(a, b)'
      /\ \A a \in ToSet(arrived) : Before(a, m)'
  <2>1. arrived \in Seq(Messages)
    BY DEF TypeOK
  <2> QED
    BY <1>1, <2>1, BeforeNew
<1>4. /\ \A i \in DOMAIN delivered : delivered[i] \in ToSet(arrived)
      /\ \A i \in DOMAIN queue : queue[i] \in ToSet(arrived)
      /\ \A r \in Runners : runner[r].pc \in {"dispatch", "deliver"} => runner[r].msg \in ToSet(arrived)
  <2>1. \A n \in Messages : SomePlace(n) => n \in ToSet(arrived)
    BY DEF Conserved
  <2>2. ASSUME NEW i \in DOMAIN delivered PROVE delivered[i] \in ToSet(arrived)
    <3>1. delivered[i] \in Messages /\ delivered[i] \in ToSet(delivered)
      BY DEF TypeOK, ToSet
    <3> QED
      BY <2>1, <3>1 DEF SomePlace
  <2>3. ASSUME NEW i \in DOMAIN queue PROVE queue[i] \in ToSet(arrived)
    <3>1. queue[i] \in Messages /\ queue[i] \in ToSet(queue)
      BY DEF TypeOK, ToSet
    <3> QED
      BY <2>1, <3>1 DEF SomePlace
  <2>4. ASSUME NEW r \in Runners, runner[r].pc \in {"dispatch", "deliver"}
        PROVE  runner[r].msg \in ToSet(arrived)
    <3>1. runner[r].msg \in Messages /\ Carries(r, runner[r].msg)
      BY <2>4 DEF Conserved, NoCopies, Carries
    <3> QED
      BY <2>1, <3>1 DEF SomePlace, Carried
  <2> QED
    BY <2>2, <2>3, <2>4
<1>5. ASSUME NEW j \in DOMAIN queue'
      PROVE  (j \in DOMAIN queue /\ queue'[j] = queue[j]) \/ queue'[j] = m
  <2>1. j \in 1..Len(queue) \/ j = Len(queue) + 1
    BY <1>2
  <2> QED
    BY <1>2, <2>1
<1>6. \A i, j \in DOMAIN delivered' : i < j => Before(delivered[i], delivered[j])'
  BY <1>1, <1>3 DEF InLine
<1>7. \A i \in DOMAIN delivered', j \in DOMAIN queue' : Before(delivered[i], queue[j])'
  BY <1>1, <1>3, <1>4, <1>5 DEF InLine
<1>8. \A i, j \in DOMAIN queue' : i < j => Before(queue[i], queue[j])'
  <2>1. ASSUME NEW i \in DOMAIN queue', NEW j \in DOMAIN queue', i < j, j \notin DOMAIN queue
        PROVE  i \in DOMAIN queue /\ queue'[i] = queue[i] /\ queue'[j] = m
    BY <1>2, <2>1
  <2>2. ASSUME NEW i \in DOMAIN queue', NEW j \in DOMAIN queue, i < j
        PROVE  i \in DOMAIN queue /\ queue'[i] = queue[i] /\ queue'[j] = queue[j]
    BY <1>2, <2>2
  <2> QED
    BY <1>3, <1>4, <2>1, <2>2 DEF InLine
<1>9. \A r \in Runners : runner'[r].pc \in {"dispatch", "deliver"} =>
         /\ \A i \in DOMAIN delivered' : Before(delivered[i], runner[r].msg)'
         /\ \A j \in DOMAIN queue' : Before(runner[r].msg, queue[j])'
  BY <1>1, <1>3, <1>4, <1>5 DEF InLine
<1> QED
  BY <1>6, <1>7, <1>8, <1>9 DEF InLine
(* The runner takes the first message of the queue ... *)
LEMMA SessionDequeuesInLine ==
  ASSUME InTurn, TypeOK, Owned, InLine, NEW r \in Runners, SessionDequeues(r)
  PROVE  InLine'
<1>1. /\ queue # <<>> /\ queue' = Tail(queue) /\ runner[r].pc = "take"
      /\ runner'[r].pc = "dispatch" /\ runner'[r].msg = Head(queue)
      /\ \A q \in Runners : q # r => runner'[q] = runner[q]
      /\ UNCHANGED <<delivered, arrived>>
  BY SessionDequeuesMoves
<1>2. /\ Head(queue) = queue[1] /\ 1 \in DOMAIN queue
      /\ \A i \in DOMAIN queue' : i + 1 \in DOMAIN queue /\ queue'[i] = queue[i + 1] /\ 1 < i + 1
      /\ \A i, j \in DOMAIN queue' : i < j => i + 1 < j + 1
  <2>1. queue \in Seq(Messages)
    BY DEF TypeOK
  <2>2. /\ Head(queue) = queue[1] /\ Len(queue) \in Nat \ {0} /\ DOMAIN queue = 1..Len(queue)
        /\ DOMAIN queue' = 1..(Len(queue) - 1)
        /\ \A i \in DOMAIN queue' : i + 1 \in DOMAIN queue /\ queue'[i] = queue[i + 1]
    BY <1>1, <2>1, TailOnce
  <2>3. 1 \in DOMAIN queue
    BY <2>2
  <2>4. \A i \in DOMAIN queue' : i \in Nat /\ 1 < i + 1
    BY <2>2
  <2>5. \A i, j \in DOMAIN queue' : i < j => i + 1 < j + 1
    BY <2>4
  <2> QED
    BY <2>2, <2>3, <2>4, <2>5
<1>3. \A a, b : Before(a, b)' <=> Before(a, b)
  BY <1>1 DEF Before
<1>4. \A q \in Runners : q # r => runner'[q].pc \notin {"dispatch", "deliver"}
  <2>1. Alive(r)
    BY <1>1 DEF Alive
  <2>2. ASSUME NEW q \in Runners, q # r, runner[q].pc \in {"dispatch", "deliver"} PROVE FALSE
    <3>1. Alive(q)
      BY <2>2 DEF Alive
    <3> QED
      BY <2>1, <2>2, <3>1, OneAlive
  <2> QED
    BY <1>1, <2>2
<1>5. \A i, j \in DOMAIN delivered' : i < j => Before(delivered'[i], delivered'[j])
  BY <1>1 DEF InLine
<1>6. \A i \in DOMAIN delivered', j \in DOMAIN queue' : Before(delivered'[i], queue'[j])
  BY <1>1, <1>2 DEF InLine
<1>7. \A i, j \in DOMAIN queue' : i < j => Before(queue'[i], queue'[j])
  BY <1>2 DEF InLine
<1>8. /\ \A i \in DOMAIN delivered' : Before(delivered'[i], runner'[r].msg)
      /\ \A j \in DOMAIN queue' : Before(runner'[r].msg, queue'[j])
  BY <1>1, <1>2 DEF InLine
<1> QED
  BY <1>3, <1>4, <1>5, <1>6, <1>7, <1>8 DEF InLine

(* ... and gives it to the listener after all that were delivered before. *)
LEMMA OnMessageInLine ==
  ASSUME InTurn, TypeOK, Owned, NoCopies, InLine, NEW r \in Runners, OnMessage(r)
  PROVE  InLine'
<1>1. /\ delivered' = Append(delivered, runner[r].msg) /\ runner[r].pc = "deliver"
      /\ runner'[r].pc = "listener" /\ \A q \in Runners : q # r => runner'[q] = runner[q]
      /\ UNCHANGED <<queue, arrived>>
  BY OnMessageMoves
<1>2. PICK m \in Messages : m = runner[r].msg
  BY <1>1 DEF NoCopies
<1>3. /\ DOMAIN delivered = 1..Len(delivered) /\ Len(delivered) \in Nat
      /\ DOMAIN delivered' = 1..(Len(delivered) + 1)
      /\ \A i \in 1..Len(delivered) : delivered'[i] = delivered[i]
      /\ delivered'[Len(delivered) + 1] = m
  <2>1. delivered \in Seq(Messages)
    BY DEF TypeOK
  <2> QED
    BY <1>1, <1>2, <2>1, AppendOnce
<1>4. \A a, b : Before(a, b)' <=> Before(a, b)
  BY <1>1 DEF Before
<1>5. ASSUME NEW i \in DOMAIN delivered'
      PROVE  (i \in DOMAIN delivered /\ delivered'[i] = delivered[i]) \/ delivered'[i] = m
  <2>1. i \in 1..Len(delivered) \/ i = Len(delivered) + 1
    BY <1>3
  <2> QED
    BY <1>3, <2>1
<1>6. \A q \in Runners : runner'[q].pc \notin {"dispatch", "deliver"}
  <2>1. Alive(r)
    BY <1>1 DEF Alive
  <2>2. ASSUME NEW q \in Runners, q # r, runner[q].pc \in {"dispatch", "deliver"} PROVE FALSE
    <3>1. Alive(q)
      BY <2>2 DEF Alive
    <3> QED
      BY <2>1, <2>2, <3>1, OneAlive
  <2> QED
    BY <1>1, <2>2
<1>7. /\ \A i \in DOMAIN delivered : Before(delivered[i], m)
      /\ \A j \in DOMAIN queue : Before(m, queue[j])
  BY <1>1, <1>2 DEF InLine
<1>8. \A i, j \in DOMAIN delivered' : i < j => Before(delivered'[i], delivered'[j])
  <2>1. ASSUME NEW i \in DOMAIN delivered', NEW j \in DOMAIN delivered', i < j
        PROVE  i \in DOMAIN delivered /\ delivered'[i] = delivered[i]
    BY <1>3, <2>1
  <2> QED
    BY <1>5, <1>7, <2>1 DEF InLine
<1>9. \A i \in DOMAIN delivered', j \in DOMAIN queue' : Before(delivered'[i], queue'[j])
  BY <1>1, <1>5, <1>7 DEF InLine
<1>10. \A i, j \in DOMAIN queue' : i < j => Before(queue'[i], queue'[j])
  BY <1>1 DEF InLine
<1> QED
  BY <1>4, <1>6, <1>8, <1>9, <1>10 DEF InLine

-----------------------------------------------------------------------------
(* Straight is kept by a step of a runner after which none has ended, ... *)
LEMMA RunnerStraight ==
  ASSUME InTurn, Always, Owned, Straight, NEW r \in Runners, RunnerStep(r), NoneExited'
  PROVE  Straight'
<1>0. TypeOK /\ Conserved /\ NoCopies /\ InLine
  BY DEF Always, Conserved, Straight
<1>1. /\ runner'[r].pc # "new" /\ UNCHANGED <<cRunning, listener, actor>> /\ runner[r].pc # "new"
      /\ \A q \in Runners : q # r => runner'[q] = runner[q]
  BY <1>0, RunnerFrame
<1>2. ~NoneBorn' /\ ~NoneBorn
  BY <1>1 DEF NoneBorn, At
<1>3. \A k \in Controllers : actor'[k].left = <<>> /\ ~Doing(k, Starting)'
  BY <1>1, <1>2 DEF Straight, Doing
<1>4. ASSUME UNCHANGED cQueue, InLine' PROVE Straight'
  <2>1. \A c \in Consumers : cQueue'[c] # <<>> => ~(listener'[c] /\ cRunning'[c])
    BY <1>1, <1>4 DEF Straight
  <2> QED
    BY <1>2, <1>3, <1>4, <2>1 DEF Straight
<1>5. ASSUME UNCHANGED <<queue, cQueue, delivered, arrived>>,
             runner'[r].pc \in {"dispatch", "deliver"} =>
                runner[r].pc \in {"dispatch", "deliver"} /\ runner'[r].msg = runner[r].msg
      PROVE  Straight'
  <2>1. InLine'
    BY <1>0, <1>1, <1>5, InLineKept
  <2> QED
    BY <1>4, <1>5, <2>1
<1>6. CASE Top(r)
  BY <1>0, <1>5, <1>6, TopMoves
<1>7. CASE IterateConsumer(r)
  BY <1>0, <1>5, <1>7, IterateConsumerMoves
<1>8. CASE ConsumerDequeues(r)
  BY <1>0, <1>8, ConsumerDequeuesMoves DEF Straight, TypeOK, RunnerState
<1>9. CASE ConsumerIdle(r)
  BY <1>0, <1>5, <1>9, ConsumerIdleMoves
<1>10. CASE SessionDequeues(r)
  BY <1>0, <1>4, <1>10, SessionDequeuesMoves, SessionDequeuesInLine
<1>11. CASE SessionIdle(r)
  BY <1>0, <1>5, <1>11, SessionIdleMoves
<1>12. CASE DispatchFresh(r)
  BY <1>0, <1>5, <1>12, DispatchFreshMoves
<1>13. CASE DispatchDuplicate(r)
  BY <1>0, <1>5, <1>13, DispatchDuplicateMoves
<1>14. CASE OnMessage(r)
  BY <1>0, <1>4, <1>14, OnMessageMoves, OnMessageInLine
<1>15. CASE Park(r)
  <2>1. /\ UNCHANGED <<queue, delivered, arrived>> /\ runner'[r].pc \notin {"dispatch", "deliver"}
        /\ runner[r].pc = "deliver"
        /\ cQueue' = [cQueue EXCEPT ![Target[runner[r].msg]] = Append(@, runner[r].msg)]
    BY <1>0, <1>15, ParkMoves
  <2>2. PICK e \in Consumers : e = Target[runner[r].msg]
    BY <1>0, <2>1, DispatchAssumption DEF NoCopies
  <2>3. ~(listener[e] /\ cRunning[e])
    BY <1>15, <2>2 DEF Park
  <2>4. \A c \in Consumers : c # e => cQueue'[c] = cQueue[c]
    BY <1>0, <2>1, <2>2 DEF TypeOK
  <2>5. \A c \in Consumers : cQueue'[c] # <<>> => ~(listener'[c] /\ cRunning'[c])
    BY <1>1, <2>3, <2>4 DEF Straight
  <2>6. InLine'
    BY <1>0, <1>1, <2>1, InLineKept
  <2> QED
    BY <1>2, <1>3, <2>5, <2>6 DEF Straight
<1>16. CASE OnMessageReturns(r)
  BY <1>0, <1>5, <1>16, OnMessageReturnsMoves
<1>17. CASE More(r)
  BY <1>0, <1>5, <1>17, MoreMoves
<1>18. CASE Awake(r)
  BY <1>0, <1>5, <1>18, AwakeMoves
<1> QED
  BY <1>6, <1>7, <1>8, <1>9, <1>10, <1>11, <1>12, <1>13, <1>14, <1>15, <1>16, <1>17, <1>18
     DEF RunnerStep

(* ... by one that moves no message and no runner, ... *)
LEMMA StraightFrame ==
  ASSUME Straight, UNCHANGED <<queue, cQueue, delivered, arrived>>,
         \A q \in Runners : runner'[q].pc = runner[q].pc /\ runner'[q].msg = runner[q].msg,
         \A k \in Controllers : actor'[k].left = actor[k].left,
         \A k \in Controllers : Doing(k, Starting)' => Doing(k, Starting) \/ NoneBorn,
         \A c \in Consumers : cQueue[c] # <<>> /\ listener'[c] /\ cRunning'[c]
                                 => listener[c] /\ cRunning[c]
  PROVE  Straight'
<1>1. NoneBorn' <=> NoneBorn
  BY DEF NoneBorn, At
<1>2. InLine'
  BY InLineKept DEF Straight
<1> QED
  BY <1>1, <1>2 DEF Straight
(* ... by the wakeup, whose new runner finds no controller about to start, ... *)
LEMMA WakeupStraight ==
  ASSUME Always, StartsStopped, Straight, NEW a \in Actors, WakeupStep(a)
  PROVE  Straight'
<1> USE DEF Starting, Assigning
<1>0. TypeOK /\ InCall /\ Controllers \subseteq Actors
  BY DEF Always, Actors
<1>1. /\ UNCHANGED <<running, queue, cQueue, delivered, arrived, listener, cRunning>>
      /\ \A z \in Actors : z # a => actor'[z] = actor[z]
      /\ actor[a].pc \in {"wake", "notify"} /\ actor'[a].pc \in {"notify", actor[a].ret}
      /\ actor'[a].ret = actor[a].ret /\ actor'[a].left = actor[a].left
  <2>1. CASE WakeupFindsRunner(a)
    BY <2>1, <1>0, WakeupFindsRunnerMoves
  <2>2. CASE WakeupStopped(a)
    BY <2>2, <1>0, WakeupStoppedMoves
  <2>3. CASE WakeupCreatesRunner(a)
    BY <2>3, <1>0, WakeupCreatesRunnerMoves
  <2>4. CASE WakeupNotifies(a)
    BY <2>4, <1>0, WakeupNotifiesMoves
  <2> QED
    BY <2>1, <2>2, <2>3, <2>4 DEF WakeupStep
<1>2. Doing(a, Starting)' => Doing(a, Starting)
  BY <1>1 DEF Doing
<1>3. \A k \in Controllers :
         (Doing(k, Starting)' => Doing(k, Starting)) /\ actor'[k].left = actor[k].left
  <2>1. \A k \in Controllers : k # a => (Doing(k, Starting)' <=> Doing(k, Starting))
    BY <1>0, <1>1 DEF Doing
  <2> QED
    BY <1>0, <1>1, <1>2, <2>1
<1>4. ASSUME \A q \in Runners : runner'[q].pc = runner[q].pc /\ runner'[q].msg = runner[q].msg
      PROVE  Straight'
  BY <1>1, <1>3, <1>4, StraightFrame
<1>5. CASE WakeupFindsRunner(a) \/ WakeupStopped(a)
  <2>1. UNCHANGED runner
    BY <1>0, <1>5, WakeupFindsRunnerMoves, WakeupStoppedMoves
  <2> QED
    BY <1>4, <2>1
<1>6. CASE WakeupNotifies(a)
  <2>1. actor[a].runner \in Runners
    BY <1>0, <1>6, WakeupNotifiesMoves DEF InCall
  <2> QED
    BY <1>0, <1>4, <1>6, <2>1, WakeupNotifiesRunner
<1>7. CASE WakeupCreatesRunner(a)
  <2>1. PICK r \in Runners :
           /\ runner[r].pc = "new" /\ runner'[r].pc = "top"
           /\ \A z \in Runners : z # r => runner'[z] = runner[z]
    BY <1>0, <1>7, WakeupCreatesRunnerMoves
  <2>2. running
    BY <1>0, <1>7, WakeupCreatesRunnerMoves
  <2>3. \A k \in Controllers : ~Doing(k, Starting)'
    BY <1>3, <2>2 DEF StartsStopped
  <2>4. ~NoneBorn'
    BY <2>1 DEF NoneBorn, At
  <2>5. InLine'
    BY <1>1, <2>1, InLineKept DEF Straight
  <2>6. \A c \in Consumers : cQueue'[c] # <<>> => ~(listener'[c] /\ cRunning'[c])
    BY <1>1 DEF Straight
  <2> QED
    BY <1>3, <2>3, <2>4, <2>5, <2>6 DEF Straight
<1> QED
  BY <1>5, <1>6, <1>7 DEF WakeupStep

(* Without a runner that ended, and none that is alive, all are new. *)
LEMMA AllNew ==
  ASSUME Owned, NoneExited, NEW k \in Controllers, Alone(k),
         actor[k].pc \notin {"shutdown", "join"}, ~running \/ taskRunner = NoRunner
  PROVE  NoneBorn
<1>1. NoRunner \notin Runners
  BY DispatchAssumption
<1>2. taskRunner = NoRunner
  BY DEF Owned, RunnerOwned
<1>3. \A r \in Runners : ~Alive(r)
  BY <1>1, <1>2 DEF Alone, Owned, RunnerOwned
<1> QED
  BY <1>3 DEF Alive, NoneExited, NoneBorn, At

(* ... and by a call, which starts with all runners new. *)
LEMMA CallStraight ==
  ASSUME Always, Owned, StartsStopped, NoneExited, Straight, NEW k \in Controllers,
         Alone(k), Alone(k)', Call(k)
  PROVE  Straight'
<1> USE DEF Starting, Assigning
<1>0. /\ TypeOK /\ InCall /\ k \in Actors
      /\ \A j \in Controllers : j = k \/ (/\ actor[j].pc = "idle" /\ actor'[j].pc = "idle"
                                          /\ actor'[j] = actor[j])
  BY CallFrame DEF Always, Actors, Alone
<1>1. ASSUME UNCHANGED <<queue, cQueue, delivered, arrived>>,
             \A q \in Runners : runner'[q].pc = runner[q].pc /\ runner'[q].msg = runner[q].msg,
             actor'[k].left = actor[k].left,
             Doing(k, Starting)' => Doing(k, Starting) \/ NoneBorn,
             \A c \in Consumers : cQueue[c] # <<>> /\ listener'[c] /\ cRunning'[c]
                                     => listener[c] /\ cRunning[c]
      PROVE  Straight'
  <2>1. /\ \A j \in Controllers : actor'[j].left = actor[j].left
        /\ \A j \in Controllers : Doing(j, Starting)' => Doing(j, Starting) \/ NoneBorn
    BY <1>0, <1>1 DEF Doing
  <2> QED
    BY <1>1, <2>1, StraightFrame
<1>2. Doing(k, Starting) => NoneBorn /\ \A c \in Consumers : cQueue[c] = <<>>
  BY DEF Straight
<1>3. CASE ConnectionStart(k)
  <2>1. /\ actor[k].pc = "idle" /\ ~started /\ actor'[k].left = actor[k].left
        /\ UNCHANGED <<queue, cQueue, delivered, arrived, runner, listener, cRunning>>
    BY <1>0, <1>3, ConnectionStartMoves
  <2>2. ~running
    BY <1>0, <2>1 DEF Owned, RunsWhenStarted
  <2>3. NoneBorn
    BY <2>1, <2>2, AllNew
  <2> QED
    BY <1>1, <2>1, <2>3
<1>4. CASE ConnectionStop(k)
  <2>1. /\ actor'[k].pc = "cstop" /\ actor'[k].left = actor[k].left
        /\ UNCHANGED <<queue, cQueue, delivered, arrived, runner, listener, cRunning>>
    BY <1>0, <1>4, ConnectionStopMoves
  <2> QED
    BY <1>1, <2>1 DEF Doing
<1>5. ASSUME NEW c \in Consumers, SetMessageListener(k, c) PROVE Straight'
  <2>1. /\ actor[k].pc = "idle" /\ actor'[k].left = actor[k].left
        /\ actor'[k].pc = (IF running THEN "cstop" ELSE "assign")
        /\ UNCHANGED <<queue, cQueue, delivered, arrived, runner, listener, cRunning>>
    BY <1>0, <1>5, SetMessageListenerMoves
  <2>2. ~running => NoneBorn
    BY <2>1, AllNew
  <2>3. Doing(k, Starting)' => ~running
    BY <2>1 DEF Doing
  <2> QED
    BY <1>1, <2>1, <2>2, <2>3
<1>6. CASE ConsumerStart(k)
  <2>1. /\ actor[k].pc = "cstart" /\ actor'[k].left = actor[k].left
        /\ UNCHANGED <<queue, cQueue, delivered, arrived, runner>>
    BY <1>0, <1>6, ConsumerStartMoves
  <2>2. Doing(k, Starting)
    BY <2>1 DEF Doing
  <2> QED
    BY <1>1, <1>2, <2>1, <2>2
<1>7. CASE ExecutorStart(k)
  <2>1. /\ actor'[k].pc \in {"idle", "check"} /\ actor'[k].left = actor[k].left
        /\ UNCHANGED <<queue, cQueue, delivered, arrived, runner, listener, cRunning>>
    BY <1>0, <1>7, ExecutorStartMoves
  <2> QED
    BY <1>1, <2>1 DEF Doing
<1>8. CASE WakeIfQueued(k)
  <2>1. /\ actor'[k].pc \in {"idle", "wake"} /\ actor'[k].ret = "idle" /\ actor'[k].left = actor[k].left
        /\ UNCHANGED <<queue, cQueue, delivered, arrived, runner, listener, cRunning>>
    BY <1>0, <1>8, WakeIfQueuedMoves
  <2> QED
    BY <1>1, <2>1 DEF Doing
<1>9. CASE ConsumerStop(k)
  <2>1. PICK e \in Consumers : e = actor[k].idx
    BY <1>0 DEF TypeOK, ActorState
  <2>2. /\ actor'[k].pc \in {"cstop", "xstop"} /\ actor'[k].left = actor[k].left
        /\ cRunning' = [cRunning EXCEPT ![e] = FALSE]
        /\ UNCHANGED <<queue, cQueue, delivered, arrived, runner, listener>>
    BY <1>0, <1>9, <2>1, ConsumerStopMoves
  <2>3. \A c \in Consumers : cRunning'[c] => cRunning[c]
    BY <1>0, <2>2 DEF TypeOK
  <2> QED
    BY <1>1, <2>2, <2>3 DEF Doing
<1>10. CASE ExecutorStop(k)
  <2>1. /\ actor[k].pc = "xstop" /\ actor'[k].left = actor[k].left
        /\ actor'[k].pc = (IF ~running \/ taskRunner = NoRunner THEN AfterStop(k) ELSE "shutdown")
        /\ UNCHANGED <<queue, cQueue, delivered, arrived, runner, listener, cRunning>>
    BY <1>0, <1>10, ExecutorStopMoves
  <2>2. ~running \/ taskRunner = NoRunner => NoneBorn
    BY <2>1, AllNew
  <2>3. Doing(k, Starting)' => ~running \/ taskRunner = NoRunner
    BY <2>1 DEF Doing
  <2> QED
    BY <1>1, <2>1, <2>2, <2>3
<1>11. CASE RunnerShutdown(k)
  <2>1. actor[k].runner \in Runners
    BY <1>0, <1>11, RunnerShutdownMoves DEF InCall
  <2>2. /\ actor'[k].pc = "join" /\ actor'[k].left = actor[k].left
        /\ UNCHANGED <<queue, cQueue, delivered, arrived, listener, cRunning>>
        /\ \A q \in Runners : runner'[q].pc = runner[q].pc /\ runner'[q].msg = runner[q].msg
    BY <1>0, <1>11, <2>1, RunnerShutdownMoves, RunnerShutdownRunner
  <2> QED
    BY <1>1, <2>2 DEF Doing
<1>12. CASE RunnerJoined(k)
  <2>1. actor[k].runner \in Runners /\ runner[actor[k].runner].pc = "exited"
    BY <1>0, <1>12, RunnerJoinedMoves DEF InCall
  <2> QED
    BY <2>1 DEF NoneExited, At
<1>13. CASE AssignListener(k)
  <2>1. /\ actor[k].pc = "assign" /\ actor'[k].left = actor[k].left
        /\ UNCHANGED <<queue, cQueue, delivered, arrived, runner>>
    BY <1>0, <1>13, AssignListenerMoves
  <2>2. Doing(k, Starting)
    BY <2>1 DEF Doing
  <2> QED
    BY <1>1, <1>2, <2>1, <2>2
<1>14. CASE Redispatch(k)
  <2>1. PICK e \in Consumers : e = actor[k].con
    BY <1>0 DEF TypeOK, ActorState
  <2>2. /\ actor[k].pc = "redispatch" /\ actor'[k].left = Reverse(cQueue[e])
        /\ cQueue' = [cQueue EXCEPT ![e] = <<>>]
        /\ UNCHANGED <<queue, delivered, arrived, runner, listener, cRunning>>
    BY <1>0, <1>14, <2>1, RedispatchMoves
  <2>3. Doing(k, Starting)
    BY <2>2 DEF Doing
  <2>4. cQueue[e] = <<>> /\ cQueue' = cQueue
    BY <1>0, <1>2, <2>2, <2>3 DEF TypeOK
  <2>5. Reverse(<<>>) = <<>>
    BY DEF Reverse
  <2>6. actor'[k].left = actor[k].left
    BY <2>2, <2>4, <2>5 DEF Straight
  <2> QED
    BY <1>1, <2>2, <2>3, <2>4, <2>6
<1>15. CASE ExecuteFirst(k)
  BY <1>0, <1>15, ExecuteFirstMoves DEF Straight
<1>16. CASE RedispatchDone(k)
  <2>1. /\ actor[k].pc = "first" /\ actor'[k].left = actor[k].left
        /\ UNCHANGED <<queue, cQueue, delivered, arrived, runner, listener, cRunning>>
    BY <1>0, <1>16, RedispatchDoneMoves
  <2>2. Doing(k, Starting)
    BY <2>1 DEF Doing
  <2> QED
    BY <1>1, <2>1, <2>2
<1>17. CASE WakeupStep(k)
  BY <1>0, <1>17, WakeupStraight
<1> QED
  BY <1>3, <1>4, <1>5, <1>6, <1>7, <1>8, <1>9, <1>10, <1>11, <1>12, <1>13, <1>14, <1>15, <1>16, <1>17
     DEF Call, CallStep

(* A runner that has ended stays so. *)
LEMMA ExitIsFinal ==
  ASSUME Always, [Next]_vars, NoneExited'
  PROVE  NoneExited
<1>0. TypeOK /\ InCall /\ Controllers \subseteq Actors /\ Dispatcher \in Actors
  BY DEF Always, Actors
<1>1. ASSUME \A q \in Runners : runner[q].pc = "exited" => runner'[q].pc = "exited"
      PROVE  NoneExited
  BY <1>1 DEF NoneExited, At
<1>2. ASSUME UNCHANGED runner PROVE NoneExited
  BY <1>1, <1>2
<1>3. ASSUME NEW a \in Actors, WakeupStep(a) PROVE NoneExited
  <2>1. CASE WakeupFindsRunner(a) \/ WakeupStopped(a)
    BY <1>0, <1>2, <2>1, WakeupFindsRunnerMoves, WakeupStoppedMoves
  <2>2. CASE WakeupCreatesRunner(a)
    <3>1. PICK r \in Runners :
             runner[r].pc = "new" /\ \A z \in Runners : z # r => runner'[z] = runner[z]
      BY <1>0, <2>2, WakeupCreatesRunnerMoves
    <3> QED
      BY <1>1, <3>1
  <2>3. CASE WakeupNotifies(a)
    <3>1. actor[a].runner \in Runners
      BY <1>0, <2>3, WakeupNotifiesMoves DEF InCall
    <3> QED
      BY <1>0, <1>1, <2>3, <3>1, WakeupNotifiesRunner
  <2> QED
    BY <1>3, <2>1, <2>2, <2>3 DEF WakeupStep
<1>4. ASSUME NEW k \in Controllers, RunnerShutdown(k) PROVE NoneExited
  <2>1. actor[k].runner \in Runners
    BY <1>0, <1>4, RunnerShutdownMoves DEF InCall
  <2> QED
    BY <1>0, <1>1, <1>4, <2>1, RunnerShutdownRunner
<1>5. ASSUME NEW r \in Runners, RunnerStep(r) PROVE NoneExited
  BY <1>0, <1>1, <1>5, RunnerFrame
<1>6. ASSUME NEW k \in Controllers,
             \/ ConnectionStart(k) \/ ConnectionStop(k)
             \/ \E c \in Consumers : SetMessageListener(k, c)
             \/ CallStep(k)
      PROVE  NoneExited
  BY <1>0, <1>2, <1>3, <1>4, <1>6 DEF CallStep, ConnectionStart, ConnectionStop, SetMessageListener,
     ConsumerStart, ExecutorStart, WakeIfQueued, ConsumerStop, ExecutorStop, RunnerJoined,
     AssignListener, Redispatch, ExecuteFirst, RedispatchDone
<1>7. CASE UNCHANGED vars
  BY <1>2, <1>7 DEF vars
<1>8. ASSUME NEW m \in Messages, Execute(m) PROVE NoneExited
  BY <1>2, <1>8 DEF Execute
<1>9. CASE WakeupStep(Dispatcher)
  BY <1>0, <1>3, <1>9
<1> QED
  BY <1>5, <1>6, <1>7, <1>8, <1>9 DEF Next

-----------------------------------------------------------------------------
(* At the beginning there is nothing to be out of order. *)
LEMMA UntilExitInit == Init => StartsStopped /\ UntilExit
<1> SUFFICES ASSUME Init PROVE StartsStopped /\ Straight
  BY DEF UntilExit
<1>1. /\ ~running
      /\ \A k \in Controllers : actor[k].pc = "idle" /\ actor[k].left = <<>>
      /\ \A r \in Runners : runner[r].pc = "new"
      /\ \A c \in Consumers : cQueue[c] = <<>>
      /\ queue = <<>> /\ delivered = <<>>
  BY DEF Init, Actors
<1>2. InLine
  BY <1>1 DEF InLine
<1> QED
  BY <1>1, <1>2 DEF StartsStopped, Straight, Doing, Starting, Assigning

(* Every step keeps UntilExit. *)
LEMMA UntilExitNext ==
  ASSUME InTurn, ~overlapped', Always, Owned, StartsStopped, UntilExit, [Next]_vars
  PROVE  UntilExit'
<1> SUFFICES ASSUME NoneExited' PROVE Straight'
  BY DEF UntilExit
<1>0. NoneExited /\ Straight
  BY ExitIsFinal DEF UntilExit
<1>1. CASE UNCHANGED vars
  BY <1>0, <1>1 DEF vars, executor, consumers, locks, history, Straight, InLine, Before, Doing,
     NoneBorn, At
<1>2. ASSUME NEW m \in Messages, Execute(m) PROVE Straight'
  <2>1. InLine'
    BY <1>0, <1>2, ExecuteInLine DEF Always, Straight
  <2>2. /\ UNCHANGED <<cQueue, listener, cRunning, runner>>
        /\ \A k \in Controllers : actor'[k] = actor[k]
    <3>1. Controllers \subseteq Actors /\ Dispatcher \notin Controllers
      BY DispatchAssumption DEF Actors
    <3> QED
      BY <1>2, <3>1, ExecuteMoves DEF Always
  <2> QED
    BY <1>0, <2>1, <2>2 DEF Straight, Doing, NoneBorn, At
<1>3. CASE WakeupStep(Dispatcher)
  BY <1>0, <1>3, WakeupStraight DEF Actors
<1>4. ASSUME NEW k \in Controllers, Call(k) PROVE Straight'
  <2>1. Alone(k) /\ Alone(k)'
    BY <1>4, TurnKept DEF Always
  <2> QED
    BY <1>0, <1>4, <2>1, CallStraight
<1>5. ASSUME NEW r \in Runners, RunnerStep(r) PROVE Straight'
  BY <1>0, <1>5, RunnerStraight
<1> QED
  BY <1>1, <1>2, <1>3, <1>4, <1>5 DEF Next, Call

(* Until calls overlap. *)
StraightInTurn == ~overlapped => StartsStopped /\ UntilExit

(* Until calls overlap and until a runner is shut down the listeners get a consumer's
   messages in the order of their arrival. *)
THEOREM ListenersInOrder == Spec => []InOrderUntilStopped
<1>1. StraightInTurn => InOrderUntilStopped
  BY DEF StraightInTurn, UntilExit, NoneExited, Straight, InLine, Before, InOrderUntilStopped
<1>2. Always /\ OwnedInTurn /\ StraightInTurn /\ [Next]_vars => StraightInTurn'
  <2> SUFFICES ASSUME Always, OwnedInTurn, StraightInTurn, [Next]_vars, ~overlapped'
               PROVE  StartsStopped' /\ UntilExit'
    BY DEF StraightInTurn
  <2>1. ~overlapped
    BY OverlapStays DEF Always
  <2>2. InTurn /\ Owned /\ StartsStopped /\ UntilExit
    BY <2>1 DEF OwnedInTurn, StraightInTurn
  <2> QED
    BY <2>2, StartsStoppedNext, UntilExitNext
<1>3. Init => StraightInTurn
  BY UntilExitInit DEF StraightInTurn
<1> QED
  BY <1>1, <1>2, <1>3, DispatchInvariant, OwnedInvariant, PTL DEF Spec

-----------------------------------------------------------------------------
(***************************************************************************)
(* The channels.  The executor's messageQueue and each consumer's          *)
(* unconsumedMessages, which SessionDispatch has as queues, are            *)
(* MessageDispatchChannels: the theorem below is about one such channel,   *)
(* with the receivers that block in its dequeue.  Messages and running are *)
(* those of the session's queue.                                           *)
(***************************************************************************)
CONSTANTS Priorities, PriorityOf, BlockingReceivers, TimedReceivers,
          NoWaitReceivers, MaxEnqueued

VARIABLES prioritised, channels, enqueued, closed, rpc, last

Channel == INSTANCE MessageDispatchChannel

Lists == [Priorities -> Seq(Messages)]
PlacesOf(c) == UNION {{p} \X DOMAIN c[p] : p \in Priorities}
Blocked(w) == {r \in Channel!Receivers : w[r] = "blocked"}
Woken(w) == {r \in Channel!Receivers : w[r] = "woken"}

(***************************************************************************)
(* The inductive invariant.  NoSignalLost alone is not inductive: a        *)
(* receiver may leave empty-handed, or go to sleep, because the counter    *)
(* says that nothing is there, so the counter must never fall behind the   *)
(* lists (clear may leave it too high); and it may leave a closed channel, *)
(* so a closed channel must not run.                                       *)
(***************************************************************************)
ChannelInv ==
    /\ Channel!TypeOK
    /\ IsFiniteSet(PlacesOf(channels))
    /\ Cardinality(PlacesOf(channels)) <= enqueued
    /\ closed => ~running
    /\ Channel!NoSignalLost

(* The first and the last of a set of priorities. *)
LEMMA PriorityOrder ==
    ASSUME NEW S \in SUBSET (0..9), S # {}
    PROVE  /\ Channel!Max(S) \in S
           /\ Channel!Min(S) \in S
<1>1. \A T \in SUBSET Nat : T # {} => \E x \in T : \A y \in T : x =< y
  <2>1. SUFFICES ASSUME NEW T \in SUBSET Nat, T # {}
                 PROVE  \E x \in T : \A y \in T : x =< y
    OBVIOUS
  <2>2. PICK x \in T : \A y \in T : ~ (<<y, x>> \in OpToRel(<, Nat))
    BY ONLY T \in SUBSET Nat, <2>1, NatLessThanWellFounded, WFMin, Zenon
  <2>3. \A y \in T : <<y, x>> \in OpToRel(<, Nat) <=> y < x
    BY DEF OpToRel
  <2>4. \A y \in T : y \in Nat
    BY <2>1
  <2>5. \A y \in T : ~(y < x)
    BY <2>2, <2>3, Zenon
  <2>6. \A y \in T : x =< y
    BY <2>4, <2>5
  <2>7. QED
    BY <2>6
<1>2. \A y \in S : y \in Nat /\ y <= 9
  OBVIOUS
<1>3. \E x \in S : \A y \in S : x >= y
  <2> DEFINE T == {9 - x : x \in S}
  <2>1. \A x \in S : 9 - x \in T
    BY Zenon
  <2>2. \A t \in T : \E x \in S : t = 9 - x
    BY Zenon
  <2> HIDE DEF T
  <2>3. T \subseteq Nat
    BY <1>2, <2>2
  <2>4. T # {}
    BY <2>1
  <2>5. PICK t \in T : \A y \in T : t =< y
    BY <1>1, <2>3, <2>4
  <2>6. PICK x \in S : t = 9 - x
    BY <2>2
  <2>7. \A y \in S : 9 - x =< 9 - y
    BY <2>1, <2>5, <2>6
  <2>8. \A y \in S : x >= y
    BY <1>2, <2>7
  <2>9. QED
    BY <2>8
<1>4. \E x \in S : \A y \in S : x =< y
  BY <1>1
<1>5. Channel!Max(S) \in S
  BY <1>3 DEF Channel!Max
<1>6. Channel!Min(S) \in S
  BY <1>4 DEF Channel!Min
<1>7. QED
  BY <1>5, <1>6

(* The channel's module counts as this one does. *)
LEMMA SameCounting ==
    ASSUME NEW S
    PROVE  /\ Channel!IsFiniteSet(S) <=> IsFiniteSet(S)
           /\ Channel!Cardinality(S) = Cardinality(S)
<1>1. Channel!IsFiniteSet(S) <=> IsFiniteSet(S)
  BY DEF Channel!IsFiniteSet, IsFiniteSet
<1>2. Channel!Cardinality(S) = Cardinality(S)
  BY DEF Channel!Cardinality, Cardinality
<1>3. QED
  BY <1>1, <1>2

(* A place is a list and a position in it. *)
LEMMA PlaceOf ==
    ASSUME NEW c \in Lists, NEW x
    PROVE  x \in PlacesOf(c) <=> \E p \in Priorities : \E i \in 1..Len(c[p]) : x = <<p, i>>
<1>1. \A p \in Priorities : DOMAIN c[p] = 1..Len(c[p])
  BY DEF Lists
<1>2. x \in PlacesOf(c) <=> \E p \in Priorities : x \in {p} \X DOMAIN c[p]
  BY DEF PlacesOf
<1>3. \A p \in Priorities : x \in {p} \X DOMAIN c[p] <=> \E i \in 1..Len(c[p]) : x = <<p, i>>
  BY <1>1
<1>4. QED
  BY <1>2, <1>3

(* A list that is one longer takes one more place. *)
LEMMA PlacesGrow ==
    ASSUME NEW c \in Lists, NEW d \in Lists, NEW p \in Priorities,
           IsFiniteSet(PlacesOf(c)),
           Len(d[p]) = Len(c[p]) + 1,
           \A q \in Priorities \ {p} : d[q] = c[q]
    PROVE  /\ IsFiniteSet(PlacesOf(d))
           /\ Cardinality(PlacesOf(d)) = Cardinality(PlacesOf(c)) + 1
           /\ PlacesOf(c) = PlacesOf(d) \ {<<p, Len(d[p])>>}
           /\ <<p, Len(d[p])>> \in PlacesOf(d)
<1> DEFINE x == <<p, Len(d[p])>>
<1>1. \A q \in Priorities : Len(c[q]) \in Nat /\ Len(d[q]) \in Nat
  BY DEF Lists
<1>2. x \notin PlacesOf(c)
  <2>1. \A q \in Priorities : \A i \in 1..Len(c[q]) : x # <<q, i>>
    BY <1>1
  <2>2. QED
    BY <2>1, PlaceOf
<1>3. \A y : y \in PlacesOf(d) <=> y \in PlacesOf(c) \cup {x}
  <2>1. TAKE y
  <2>2. y \in PlacesOf(d) => y \in PlacesOf(c) \cup {x}
    <3>1. SUFFICES ASSUME y \in PlacesOf(d), y # x
                   PROVE  y \in PlacesOf(c)
      OBVIOUS
    <3>2. PICK q \in Priorities : \E i \in 1..Len(d[q]) : y = <<q, i>>
      BY <3>1, PlaceOf
    <3>3. PICK i \in 1..Len(d[q]) : y = <<q, i>>
      BY <3>2
    <3>4. i \in 1..Len(c[q])
      BY <1>1, <3>1, <3>3
    <3>5. QED
      BY <3>3, <3>4, PlaceOf
  <2>3. y \in PlacesOf(c) => y \in PlacesOf(d)
    <3>1. SUFFICES ASSUME y \in PlacesOf(c)
                   PROVE  y \in PlacesOf(d)
      OBVIOUS
    <3>2. PICK q \in Priorities : \E i \in 1..Len(c[q]) : y = <<q, i>>
      BY <3>1, PlaceOf
    <3>3. PICK i \in 1..Len(c[q]) : y = <<q, i>>
      BY <3>2
    <3>4. i \in 1..Len(d[q])
      BY <1>1, <3>3
    <3>5. QED
      BY <3>3, <3>4, PlaceOf
  <2>4. x \in PlacesOf(d)
    <3>1. Len(d[p]) \in 1..Len(d[p])
      BY <1>1
    <3>2. QED
      BY <3>1, PlaceOf
  <2>5. QED
    BY <2>2, <2>3, <2>4
<1>4. PlacesOf(d) = PlacesOf(c) \cup {x}
  BY <1>3
<1>5. /\ IsFiniteSet(PlacesOf(c) \cup {x})
      /\ Cardinality(PlacesOf(c) \cup {x}) = Cardinality(PlacesOf(c)) + 1
  BY <1>2, FS_AddElement
<1>6. QED
  BY <1>2, <1>4, <1>5

(* A list that is one shorter gives a place back. *)
LEMMA PlacesShrink ==
    ASSUME NEW c \in Lists, NEW d \in Lists, NEW p \in Priorities,
           IsFiniteSet(PlacesOf(d)),
           Len(d[p]) = Len(c[p]) + 1,
           \A q \in Priorities \ {p} : d[q] = c[q]
    PROVE  /\ IsFiniteSet(PlacesOf(c))
           /\ Cardinality(PlacesOf(c)) = Cardinality(PlacesOf(d)) - 1
<1> DEFINE x == <<p, Len(d[p])>>
<1>1. \A q \in Priorities : Len(c[q]) \in Nat /\ Len(d[q]) \in Nat
  BY DEF Lists
<1>2. PlacesOf(c) \subseteq PlacesOf(d)
  <2>1. SUFFICES ASSUME NEW y \in PlacesOf(c)
                 PROVE  y \in PlacesOf(d)
    OBVIOUS
  <2>2. PICK q \in Priorities : \E i \in 1..Len(c[q]) : y = <<q, i>>
    BY PlaceOf
  <2>3. PICK i \in 1..Len(c[q]) : y = <<q, i>>
    BY <2>2
  <2>4. i \in 1..Len(d[q])
    BY <1>1
  <2>5. QED
    BY <2>3, <2>4, PlaceOf
<1>3. IsFiniteSet(PlacesOf(c))
  BY <1>2, FS_Subset
<1>4. /\ Cardinality(PlacesOf(d)) = Cardinality(PlacesOf(c)) + 1
  BY <1>3, PlacesGrow
<1>5. Cardinality(PlacesOf(c)) \in Nat
  BY <1>3, FS_CardinalityType
<1>6. QED
  BY <1>3, <1>4, <1>5

(* Empty lists have no place, and lists without a message are empty. *)
LEMMA PlacesNone ==
    ASSUME NEW c \in Lists, \A p \in Priorities : c[p] = <<>>
    PROVE  IsFiniteSet(PlacesOf(c)) /\ Cardinality(PlacesOf(c)) = 0
<1>1. \A x : x \notin PlacesOf(c)
  <2>1. \A p \in Priorities : 1..Len(c[p]) = {}
    OBVIOUS
  <2>2. QED
    BY <2>1, PlaceOf
<1>2. PlacesOf(c) = {}
  BY <1>1
<1>3. QED
  BY <1>2, FS_EmptySet

(* The threads that are on their way back from wait: one more, or one less. *)
LEMMA WokenCount ==
    ASSUME Channel!ChannelAssumption,
           NEW w \in [Channel!Receivers -> {"idle", "blocked", "woken"}],
           NEW r \in Channel!Receivers
    PROVE  /\ Cardinality(Woken(w)) \in Nat
           /\ w[r] # "woken" =>
                 Cardinality(Woken([w EXCEPT ![r] = "woken"])) = Cardinality(Woken(w)) + 1
           /\ \A v \in {"idle", "blocked"} :
                 /\ w[r] # "woken" => Woken([w EXCEPT ![r] = v]) = Woken(w)
                 /\ w[r] = "woken" =>
                       Cardinality(Woken([w EXCEPT ![r] = v])) = Cardinality(Woken(w)) - 1
<1>1. IsFiniteSet(Channel!Receivers)
  BY SameCounting DEF Channel!ChannelAssumption
<1>2. IsFiniteSet(Woken(w))
  BY <1>1, FS_Subset DEF Woken
<1>3. Cardinality(Woken(w)) \in Nat
  BY <1>2, FS_CardinalityType
<1>4. ASSUME w[r] # "woken"
      PROVE  Cardinality(Woken([w EXCEPT ![r] = "woken"])) = Cardinality(Woken(w)) + 1
  <2>1. Woken([w EXCEPT ![r] = "woken"]) = Woken(w) \cup {r} /\ r \notin Woken(w)
    BY <1>4 DEF Woken
  <2>2. QED
    BY <1>2, <2>1, FS_AddElement
<1>5. ASSUME NEW v \in {"idle", "blocked"}, w[r] # "woken"
      PROVE  Woken([w EXCEPT ![r] = v]) = Woken(w)
  BY <1>5 DEF Woken
<1>6. ASSUME NEW v \in {"idle", "blocked"}, w[r] = "woken"
      PROVE  Cardinality(Woken([w EXCEPT ![r] = v])) = Cardinality(Woken(w)) - 1
  <2>1. Woken([w EXCEPT ![r] = v]) = Woken(w) \ {r} /\ r \in Woken(w)
    BY <1>6 DEF Woken
  <2>2. QED
    BY <1>2, <2>1, FS_RemoveElement
<1>7. QED
  BY <1>3, <1>4, <1>5, <1>6

Signalled(run, c, w) ==
    run /\ Blocked(w) # {} => Cardinality(PlacesOf(c)) <= Cardinality(Woken(w))

(* NoSignalLost in these terms, before and after a step. *)
LEMMA SignalledMeans ==
    /\ Channel!NoSignalLost <=> Signalled(running, channels, rpc)
    /\ Channel!NoSignalLost' <=> Signalled(running', channels', rpc')
<1>1. Channel!QueuedCount = Cardinality(PlacesOf(channels))
  BY SameCounting DEF Channel!QueuedCount, Channel!Places, PlacesOf
<1>2. Channel!QueuedCount' = Cardinality(PlacesOf(channels'))
  BY SameCounting DEF Channel!QueuedCount, Channel!Places, PlacesOf
<1>3. Channel!NoSignalLost <=> Signalled(running, channels, rpc)
  BY <1>1, SameCounting DEF Channel!NoSignalLost, Signalled, Blocked, Woken
<1>4. Channel!NoSignalLost' <=> Signalled(running', channels', rpc')
  BY <1>2, SameCounting DEF Channel!NoSignalLost, Signalled, Blocked, Woken
<1>5. QED
  BY <1>3, <1>4

(* enqueue and enqueueFirst: one more message, and one receiver woken if any sleeps. *)
LEMMA OneMoreKeeps ==
    ASSUME Channel!ChannelAssumption, ChannelInv, NEW p \in Priorities,
           channels' \in Lists,
           Len(channels'[p]) = Len(channels[p]) + 1,
           \A q \in Priorities \ {p} : channels'[q] = channels[q],
           enqueued' = enqueued + 1, Channel!Notify,
           UNCHANGED <<prioritised, running, closed, last>>
    PROVE  ChannelInv'
<1> USE DEF Lists
<1>1. /\ Channel!TypeOK /\ channels \in Lists /\ enqueued \in Nat
      /\ rpc \in [Channel!Receivers -> {"idle", "blocked", "woken"}]
  BY DEF ChannelInv, Channel!TypeOK
<1>2. /\ IsFiniteSet(PlacesOf(channels'))
      /\ Cardinality(PlacesOf(channels')) = Cardinality(PlacesOf(channels)) + 1
  BY <1>1, PlacesGrow DEF ChannelInv
<1>3. Cardinality(PlacesOf(channels)) \in Nat
  BY FS_CardinalityType DEF ChannelInv
<1>4. \/ Blocked(rpc) = {} /\ rpc' = rpc
      \/ \E r \in Blocked(rpc) : rpc' = [rpc EXCEPT ![r] = "woken"]
  BY DEF Channel!Notify, Blocked
<1>5. rpc' \in [Channel!Receivers -> {"idle", "blocked", "woken"}]
  BY <1>1, <1>4 DEF Blocked
<1>6. Channel!TypeOK'
  BY <1>1, <1>5 DEF Channel!TypeOK
<1>7. Signalled(running', channels', rpc')
  <2>1. CASE Blocked(rpc) = {} /\ rpc' = rpc
    BY <2>1 DEF Signalled
  <2>2. ASSUME NEW r \in Blocked(rpc), rpc' = [rpc EXCEPT ![r] = "woken"]
        PROVE  Signalled(running', channels', rpc')
    <3>1. r \in Channel!Receivers /\ rpc[r] = "blocked" /\ Blocked(rpc) # {}
      BY DEF Blocked
    <3>2. /\ Cardinality(Woken(rpc)) \in Nat
          /\ Cardinality(Woken(rpc')) = Cardinality(Woken(rpc)) + 1
      BY <1>1, <2>2, <3>1, WokenCount
    <3>3. Signalled(running, channels, rpc)
      BY SignalledMeans DEF ChannelInv
    <3>4. QED
      BY <1>2, <1>3, <3>1, <3>2, <3>3 DEF Signalled
  <2>3. QED
    BY <1>4, <2>1, <2>2
<1>8. QED
  BY <1>1, <1>2, <1>3, <1>6, <1>7, SignalledMeans DEF ChannelInv

LEMMA EnqueueKeeps ==
    ASSUME Channel!ChannelAssumption, ChannelInv, NEW m \in Messages,
           Channel!Enqueue(m) \/ Channel!EnqueueFirst(m), UNCHANGED prioritised
    PROVE  ChannelInv'
<1> DEFINE p == Channel!Lane(m)
<1>1. p \in Priorities
  BY PriorityOrder DEF Channel!Lane, Channel!ChannelAssumption
<1>2. channels \in Lists /\ Len(channels[p]) \in Nat /\ channels[p] \in Seq(Messages)
  BY <1>1 DEF ChannelInv, Channel!TypeOK, Lists
<1>3. \/ channels' = [channels EXCEPT ![p] = Append(channels[p], m)]
      \/ channels' = [channels EXCEPT ![p] = <<m>> \o channels[p]]
  BY DEF Channel!Enqueue, Channel!EnqueueFirst
<1>4. /\ enqueued' = enqueued + 1 /\ Channel!Notify
      /\ UNCHANGED <<running, closed, last>>
  BY DEF Channel!Enqueue, Channel!EnqueueFirst
<1> HIDE DEF p
<1>5. /\ Append(channels[p], m) \in Seq(Messages) /\ Len(Append(channels[p], m)) = Len(channels[p]) + 1
      /\ <<m>> \o channels[p] \in Seq(Messages) /\ Len(<<m>> \o channels[p]) = Len(channels[p]) + 1
  BY <1>2
<1>6. /\ channels' \in Lists
      /\ Len(channels'[p]) = Len(channels[p]) + 1
      /\ \A q \in Priorities \ {p} : channels'[q] = channels[q]
  BY <1>1, <1>2, <1>3, <1>5 DEF Lists
<1>7. QED
  BY <1>1, <1>4, <1>6, OneMoreKeeps

(* The end of dequeue: a receiver that was woken takes a message, or there was none. *)
LEMMA TakeKeeps ==
    ASSUME Channel!ChannelAssumption, ChannelInv, NEW r \in Channel!Receivers,
           rpc[r] \in {"idle", "woken"}, Channel!Take(r),
           UNCHANGED <<prioritised, running, closed>>
    PROVE  ChannelInv'
<1> DEFINE w == [rpc EXCEPT ![r] = "idle"]
<1>1. /\ channels \in Lists /\ enqueued \in Nat /\ running \in BOOLEAN
      /\ rpc \in [Channel!Receivers -> {"idle", "blocked", "woken"}]
      /\ last \in [Channel!Receivers -> {"none", "null"} \cup Messages]
  BY DEF ChannelInv, Channel!TypeOK, Lists
<1>2. rpc' = w
  BY DEF Channel!Take
<1>3. rpc' \in [Channel!Receivers -> {"idle", "blocked", "woken"}]
  BY <1>1, <1>2
<1>4. /\ Cardinality(Woken(rpc)) \in Nat /\ Cardinality(Woken(w)) \in Nat
      /\ Cardinality(Woken(w)) >= Cardinality(Woken(rpc)) - 1
  <2>1. Cardinality(Woken(rpc)) \in Nat /\ Cardinality(Woken(w)) \in Nat
    BY <1>1, <1>2, <1>3, WokenCount
  <2>2. Woken(w) = Woken(rpc) \/ Cardinality(Woken(w)) = Cardinality(Woken(rpc)) - 1
    BY <1>1, WokenCount
  <2>3. QED
    BY <2>1, <2>2
<1>5. Blocked(w) = Blocked(rpc)
  BY <1>1 DEF Blocked
<1>6. /\ IsFiniteSet(PlacesOf(channels)) /\ Cardinality(PlacesOf(channels)) \in Nat
      /\ Cardinality(PlacesOf(channels)) <= enqueued /\ (closed => ~running)
      /\ Signalled(running, channels, rpc)
  BY FS_CardinalityType, SignalledMeans DEF ChannelInv
<1>7. CASE Channel!Deliverable /\ Channel!NonEmptyLanes # {}
  <2> DEFINE p == Channel!Max(Channel!NonEmptyLanes)
  <2>1. p \in Channel!NonEmptyLanes
    <3>1. Channel!NonEmptyLanes \in SUBSET (0..9)
      BY DEF Channel!NonEmptyLanes, Channel!ChannelAssumption
    <3>2. QED
      BY <1>7, <3>1, PriorityOrder
  <2>2. /\ channels' = [channels EXCEPT ![p] = Tail(channels[p])]
        /\ last' = [last EXCEPT ![r] = Head(channels[p])]
        /\ enqueued' = enqueued - 1 /\ enqueued # 0
    BY <1>7 DEF Channel!Take, Channel!PopFirst, Channel!Deliverable, Channel!isEmpty
  <2> HIDE DEF p
  <2>3. p \in Priorities /\ channels[p] \in Seq(Messages) /\ channels[p] # <<>>
    BY <1>1, <2>1 DEF Channel!NonEmptyLanes, Lists
  <2>4. /\ Tail(channels[p]) \in Seq(Messages) /\ Head(channels[p]) \in Messages
        /\ Len(channels[p]) = Len(Tail(channels[p])) + 1
    BY <2>3
  <2>5. /\ channels' \in Lists
        /\ Len(channels[p]) = Len(channels'[p]) + 1
        /\ \A q \in Priorities \ {p} : channels[q] = channels'[q]
    BY <1>1, <2>2, <2>3, <2>4 DEF Lists
  <2>6. /\ IsFiniteSet(PlacesOf(channels'))
        /\ Cardinality(PlacesOf(channels')) = Cardinality(PlacesOf(channels)) - 1
    BY <1>1, <1>6, <2>3, <2>5, PlacesShrink
  <2>7. enqueued' \in Nat /\ Cardinality(PlacesOf(channels')) <= enqueued'
    BY <1>1, <1>6, <2>2, <2>6
  <2>8. Channel!TypeOK'
    <3>1. last' \in [Channel!Receivers -> {"none", "null"} \cup Messages]
      BY <1>1, <2>2, <2>4
    <3>2. QED
      BY <1>3, <2>5, <2>7, <3>1 DEF ChannelInv, Channel!TypeOK, Lists
  <2>9. Signalled(running', channels', rpc')
    <3>1. SUFFICES ASSUME running', Blocked(rpc') # {}
                   PROVE  Cardinality(PlacesOf(channels')) <= Cardinality(Woken(rpc'))
      BY Zenon DEF Signalled
    <3>2. running /\ Blocked(rpc) # {}
      BY <1>2, <1>5, <3>1
    <3>3. Cardinality(PlacesOf(channels)) <= Cardinality(Woken(rpc))
      BY <1>6, <3>2 DEF Signalled
    <3>4. QED
      BY <1>2, <1>4, <1>6, <2>6, <3>3
  <2>10. QED
    BY <1>6, <2>6, <2>7, <2>8, <2>9, SignalledMeans DEF ChannelInv
<1>8. CASE ~(Channel!Deliverable /\ Channel!NonEmptyLanes # {})
  <2>1. /\ UNCHANGED <<channels, enqueued>>
        /\ last' = [last EXCEPT ![r] = "null"]
    BY <1>8 DEF Channel!Take, Channel!ReturnNull
  <2>2. Channel!TypeOK'
    BY <1>1, <1>3, <2>1 DEF ChannelInv, Channel!TypeOK, Lists
  <2>3. running => Cardinality(PlacesOf(channels)) = 0
    <3>1. CASE running /\ enqueued = 0
      BY <1>1, <1>6, <3>1
    <3>2. CASE running /\ enqueued # 0
      <4>1. Channel!NonEmptyLanes = {}
        BY <1>6, <1>8, <3>2 DEF Channel!Deliverable, Channel!isEmpty
      <4>2. \A p \in Priorities : channels[p] = <<>>
        BY <4>1 DEF Channel!NonEmptyLanes
      <4>3. QED
        BY <1>1, <4>2, PlacesNone
    <3>3. QED
      BY <3>1, <3>2
  <2>4. Signalled(running', channels', rpc')
    BY <1>2, <1>4, <2>1, <2>3 DEF Signalled
  <2>5. QED
    BY <1>6, <2>1, <2>2, <2>4, SignalledMeans DEF ChannelInv
<1>9. QED
  BY <1>7, <1>8

(* A receiver goes to sleep only where there is nothing to be had; a timed one may wake alone. *)
LEMMA WaitKeeps ==
    ASSUME Channel!ChannelAssumption, ChannelInv, NEW r \in Channel!Receivers,
           \/ Channel!MustWait /\ rpc' = [rpc EXCEPT ![r] = "blocked"]
           \/ rpc[r] = "blocked" /\ rpc' = [rpc EXCEPT ![r] = "woken"],
           UNCHANGED <<prioritised, channels, enqueued, running, closed, last>>
    PROVE  ChannelInv'
<1>1. /\ enqueued \in Nat /\ running \in BOOLEAN
      /\ rpc \in [Channel!Receivers -> {"idle", "blocked", "woken"}]
  BY DEF ChannelInv, Channel!TypeOK
<1>2. rpc' \in [Channel!Receivers -> {"idle", "blocked", "woken"}]
  BY <1>1
<1>3. Channel!TypeOK'
  BY <1>2 DEF ChannelInv, Channel!TypeOK
<1>4. /\ Cardinality(PlacesOf(channels)) \in Nat
      /\ Cardinality(PlacesOf(channels)) <= enqueued /\ (closed => ~running)
      /\ Signalled(running, channels, rpc)
  BY FS_CardinalityType, SignalledMeans DEF ChannelInv
<1>5. Cardinality(Woken(rpc)) \in Nat /\ Cardinality(Woken(rpc')) \in Nat
  BY <1>1, <1>2, WokenCount
<1>6. Signalled(running', channels', rpc')
  <2>1. CASE Channel!MustWait /\ rpc' = [rpc EXCEPT ![r] = "blocked"]
    <3>1. running => Cardinality(PlacesOf(channels)) = 0
      BY <1>1, <1>4, <2>1 DEF Channel!MustWait, Channel!isEmpty
    <3>2. QED
      BY <1>5, <3>1 DEF Signalled
  <2>2. CASE rpc[r] = "blocked" /\ rpc' = [rpc EXCEPT ![r] = "woken"]
    <3>1. Cardinality(Woken(rpc')) = Cardinality(Woken(rpc)) + 1
      BY <1>1, <2>2, WokenCount
    <3>2. Blocked(rpc) # {}
      BY <2>2 DEF Blocked
    <3>3. QED
      BY <1>4, <1>5, <3>1, <3>2 DEF Signalled
  <2>3. QED
    BY <2>1, <2>2
<1>7. QED
  BY <1>3, <1>4, <1>6, SignalledMeans DEF ChannelInv

(* start, stop and close wake everybody. *)
LEMMA SignalKeeps ==
    ASSUME Channel!ChannelAssumption, ChannelInv,
           Channel!Start \/ Channel!Stop \/ Channel!Close, UNCHANGED prioritised
    PROVE  ChannelInv'
<1>1. /\ Channel!NotifyAll /\ UNCHANGED <<channels, enqueued, last>>
      /\ running' \in BOOLEAN /\ closed' \in BOOLEAN /\ (closed' => ~running')
  <2>1. running \in BOOLEAN /\ closed \in BOOLEAN /\ (closed => ~running)
    BY DEF ChannelInv, Channel!TypeOK
  <2>2. CASE Channel!Start
    BY <2>1, <2>2 DEF Channel!Start
  <2>3. CASE Channel!Stop
    BY <2>1, <2>3 DEF Channel!Stop
  <2>4. CASE Channel!Close
    <3>1. running' = FALSE
      BY <2>1, <2>4 DEF Channel!Close
    <3>2. QED
      BY <2>4, <3>1 DEF Channel!Close
  <2>5. QED
    BY <2>2, <2>3, <2>4
<1>2. rpc \in [Channel!Receivers -> {"idle", "blocked", "woken"}]
  BY DEF ChannelInv, Channel!TypeOK
<1>3. /\ rpc' \in [Channel!Receivers -> {"idle", "blocked", "woken"}]
      /\ Blocked(rpc') = {}
  BY <1>1, <1>2 DEF Channel!NotifyAll, Blocked
<1>4. Channel!TypeOK'
  BY <1>1, <1>3 DEF ChannelInv, Channel!TypeOK
<1>5. Signalled(running', channels', rpc')
  BY <1>3 DEF Signalled
<1>6. QED
  BY <1>1, <1>4, <1>5, SignalledMeans DEF ChannelInv

(* clear and removeAll empty the lists. *)
LEMMA EmptyKeeps ==
    ASSUME Channel!ChannelAssumption, ChannelInv,
           Channel!Clear \/ Channel!RemoveAll, UNCHANGED prioritised
    PROVE  ChannelInv'
<1>1. /\ channels' = [p \in Priorities |-> <<>>]
      /\ enqueued' \in {enqueued, 0, enqueued - Channel!QueuedCount}
      /\ UNCHANGED <<running, closed, rpc, last>>
  BY DEF Channel!Clear, Channel!RemoveAll
<1>2. channels' \in Lists /\ \A p \in Priorities : channels'[p] = <<>>
  BY <1>1 DEF Lists
<1>3. IsFiniteSet(PlacesOf(channels')) /\ Cardinality(PlacesOf(channels')) = 0
  BY <1>2, PlacesNone
<1>4. /\ Cardinality(PlacesOf(channels)) \in Nat /\ enqueued \in Nat
      /\ Cardinality(PlacesOf(channels)) <= enqueued
  BY FS_CardinalityType DEF ChannelInv, Channel!TypeOK
<1>5. Channel!QueuedCount = Cardinality(PlacesOf(channels))
  BY SameCounting DEF Channel!QueuedCount, Channel!Places, PlacesOf
<1>6. enqueued' \in Nat
  BY <1>1, <1>4, <1>5
<1>7. Channel!TypeOK'
  BY <1>1, <1>2, <1>6 DEF ChannelInv, Channel!TypeOK, Lists
<1>8. Signalled(running', channels', rpc')
  <2>1. ASSUME NEW r \in Channel!Receivers
        PROVE  Cardinality(Woken(rpc)) \in Nat
    BY WokenCount DEF ChannelInv, Channel!TypeOK
  <2>2. QED
    BY <1>1, <1>3, <2>1 DEF Signalled, Blocked
<1>9. QED
  BY <1>1, <1>3, <1>6, <1>7, <1>8, SignalledMeans DEF ChannelInv

(***************************************************************************)
(* A channel's signals are enough, for any number of receivers, messages   *)
(* and priorities: while a receiver sleeps in dequeue of a running         *)
(* channel, every message in it has another receiver on its way.           *)
(***************************************************************************)
THEOREM SignalsSuffice ==
    ASSUME Channel!ChannelAssumption
    PROVE  Channel!Spec => []Channel!NoSignalLost
<1>1. Channel!Init => ChannelInv
  <2>1. SUFFICES ASSUME Channel!Init
                 PROVE  ChannelInv
    OBVIOUS
  <2>2. channels \in Lists /\ \A p \in Priorities : channels[p] = <<>>
    BY <2>1 DEF Channel!Init, Lists
  <2>3. IsFiniteSet(PlacesOf(channels)) /\ Cardinality(PlacesOf(channels)) = 0
    BY <2>2, PlacesNone
  <2>4. Channel!TypeOK
    BY <2>1, <2>2 DEF Channel!Init, Channel!TypeOK, Lists
  <2>5. Channel!NoSignalLost
    BY <2>1, SignalledMeans DEF Channel!Init, Signalled
  <2>6. QED
    BY <2>1, <2>3, <2>4, <2>5 DEF Channel!Init, ChannelInv
<1>2. ChannelInv /\ [Channel!Next]_(Channel!vars) => ChannelInv'
  <2>1. SUFFICES ASSUME ChannelInv, [Channel!Next]_(Channel!vars)
                 PROVE  ChannelInv'
    OBVIOUS
  <2>2. CASE UNCHANGED Channel!vars
    <3>1. UNCHANGED <<prioritised, channels, enqueued, running, closed, rpc, last>>
      BY <2>2 DEF Channel!vars
    <3>2. Channel!TypeOK'
      BY <2>1, <3>1 DEF ChannelInv, Channel!TypeOK
    <3>3. Channel!NoSignalLost'
      BY <2>1, <3>1, SignalledMeans DEF ChannelInv
    <3>4. QED
      BY <2>1, <3>1, <3>2, <3>3 DEF ChannelInv
  <2>3. CASE Channel!Next
    <3>1. UNCHANGED prioritised
      BY <2>3 DEF Channel!Next
    <3>2. ASSUME NEW m \in Messages, Channel!Enqueue(m) \/ Channel!EnqueueFirst(m)
          PROVE  ChannelInv'
      BY <2>1, <3>1, <3>2, EnqueueKeeps
    <3>3. ASSUME NEW r \in Channel!Receivers, Channel!Dequeue(r) \/ Channel!Resume(r)
          PROVE  ChannelInv'
      <4>1. /\ rpc[r] \in {"idle", "woken"} /\ Channel!Take(r)
            /\ UNCHANGED <<running, closed>>
        BY <3>3 DEF Channel!Dequeue, Channel!Resume
      <4>2. QED
        BY <2>1, <3>1, <4>1, TakeKeeps
    <3>4. ASSUME NEW r \in Channel!Receivers,
                 Channel!DequeueBlocks(r) \/ Channel!WaitTimesOut(r) \/ Channel!WaitAgain(r)
          PROVE  ChannelInv'
      <4>1. /\ \/ Channel!MustWait /\ rpc' = [rpc EXCEPT ![r] = "blocked"]
               \/ rpc[r] = "blocked" /\ rpc' = [rpc EXCEPT ![r] = "woken"]
            /\ UNCHANGED <<channels, enqueued, running, closed, last>>
        BY <3>4 DEF Channel!DequeueBlocks, Channel!WaitTimesOut, Channel!WaitAgain
      <4>2. QED
        BY <2>1, <3>1, <4>1, WaitKeeps
    <3>5. CASE Channel!Start \/ Channel!Stop \/ Channel!Close
      BY <2>1, <3>1, <3>5, SignalKeeps
    <3>6. CASE Channel!Clear \/ Channel!RemoveAll
      BY <2>1, <3>1, <3>6, EmptyKeeps
    <3>7. QED
      BY <2>3, <3>2, <3>3, <3>4, <3>5, <3>6
      DEF Channel!Next, Channel!Operation, Channel!ReceiverStep
  <2>4. QED
    BY <2>1, <2>2, <2>3
<1>3. ChannelInv => Channel!NoSignalLost
  BY DEF ChannelInv
<1>4. QED
  BY <1>1, <1>2, <1>3, PTL DEF Channel!Spec
=============================================================================
