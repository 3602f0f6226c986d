---------------------- MODULE FailoverTransportProofs ----------------------
(***************************************************************************)
(* Theorems about FailoverTransport for any commands of any kinds, any     *)
(* number of brokers and any limit on the attempts to reconnect.           *)
(***************************************************************************)
EXTENDS FailoverTransport, TLAPS, FiniteSetTheorems

(* The steps of iterate() that keep reconnectMutex, and what they work on. *)
Connecting == {"connect", "restore", "replay", "establish"}
Remembered == requestMap \cup tracked
Returned   == {c \in Commands : opc[c] = "returned"}
Pending    == {c \in WantsResponse : opc[c] = "returned" /\ c \notin answered}

(***************************************************************************)
(* The inductive invariant.                                                *)
(*                                                                         *)
(* RunnerOwns: while iterate() connects it keeps the mutex, there is no    *)
(* connection and nobody can close; the connection it works on is the      *)
(* newest, and nothing was sent on it before the restore.                  *)
(***************************************************************************)
RunnerOwns ==
    rpc \in Connecting =>
        /\ holder = Runner /\ connected = NoTransport /\ ~closed
        /\ rpc # "connect" => rt = next /\ rt \in Transports /\ urisLeft > 0
        /\ rpc = "restore" => sent[rt] = <<>>
        /\ rpc = "establish" => firstConnection
        /\ rpc \in {"restore", "replay"} => ~firstConnection

ClosedIsOff == closed => connected = NoTransport

(* Connections that are still to be made. *)
Unused == \A t \in Transports : t > next => t \notin up /\ sent[t] = <<>>

(* What is kept for the replay, and what was sent, are commands oneway took. *)
OnlyReturned ==
    /\ Remembered \subseteq Returned /\ replay \subseteq Returned
    /\ \A t \in Transports : ToSet(sent[t]) \subseteq Returned
    /\ requestMap \subseteq Untracked /\ tracked \cap Untracked = {}
    /\ IsFiniteSet(tracked)

(* Before the first connection nothing is accepted that is not answered on the spot. *)
BeforeFirst == firstConnection => connected = NoTransport /\ Remembered = {} /\ Pending = {}

(* No request that is still to be answered is forgotten, except by close. *)
Kept == ~closed => Pending \subseteq Remembered

(* The replay has sent what it has not got left, and only that. *)
Replayed ==
    rpc = "replay" =>
        /\ replay \cap ToSet(sent[rt]) = {}
        /\ rt \in up => Remembered \ replay \subseteq ToSet(sent[rt])

(* All that is kept for a replay was sent over the connection in use. *)
OnConnected == connected \in up => Remembered \subseteq ToSet(sent[connected])

IInv ==
    /\ TypeOK /\ RunnerOwns /\ ClosedIsOff /\ Unused /\ OnlyReturned /\ BeforeFirst /\ Kept
    /\ Replayed /\ OnConnected /\ NotSentTwice

-----------------------------------------------------------------------------
(* What is sent: sequences without repetition *)

(* Sending a command that was not sent before. *)
LEMMA AppendOnce ==
    ASSUME NEW S, NEW q \in Seq(S), NEW c \in S, c \notin ToSet(q), IsInjective(q)
    PROVE  /\ Append(q, c) \in Seq(S) /\ IsInjective(Append(q, c))
           /\ ToSet(Append(q, c)) = ToSet(q) \cup {c}
<1>1. /\ Append(q, c) \in Seq(S) /\ Len(Append(q, c)) = Len(q) + 1 /\ Len(q) \in Nat
      /\ DOMAIN Append(q, c) = 1..(Len(q) + 1) /\ DOMAIN q = 1..Len(q)
      /\ \A i \in 1..Len(q) : Append(q, c)[i] = q[i]
      /\ Append(q, c)[Len(q) + 1] = c
  OBVIOUS
<1>2. \A i \in 1..(Len(q) + 1) : i \in 1..Len(q) \/ i = Len(q) + 1
  BY <1>1
<1>3. \A i \in 1..Len(q) : q[i] # c
  BY <1>1 DEF ToSet
<1>4. 1..(Len(q) + 1) = 1..Len(q) \cup {Len(q) + 1}
  BY <1>1
<1>5. IsInjective(Append(q, c))
  BY <1>1, <1>2, <1>3 DEF IsInjective
<1>6. ToSet(Append(q, c)) = ToSet(q) \cup {c}
  BY <1>1, <1>4 DEF ToSet
<1> QED
  BY <1>1, <1>5, <1>6

(* SetToSeq lists every element of a finite set once. *)
LEMMA SetToSeqOnce ==
    ASSUME NEW S, IsFiniteSet(S)
    PROVE  /\ SetToSeq(S) \in Seq(S) /\ IsInjective(SetToSeq(S)) /\ ToSet(SetToSeq(S)) = S
           /\ <<>> \o SetToSeq(S) = SetToSeq(S)
<1> DEFINE D == 1..Cardinality(S)
           f == SetToSeq(S)
<1>1. Cardinality(S) \in Nat /\ ExistsBijection(D, S)
  BY FS_CardinalityType
<1>2. \E g \in [D -> S] : IsInjective(g)
  BY <1>1 DEF ExistsBijection, Bijection, Injection, IsInjective
<1>3. f \in [D -> S] /\ IsInjective(f)
  BY <1>2 DEF SetToSeq
<1>4. f \in Injection(D, S)
  BY <1>3 DEF Injection, IsInjective
<1>5. IsFiniteSet(D) /\ Cardinality(D) = Cardinality(S)
  BY <1>1, FS_Interval
<1>6. f \in Surjection(D, S)
  BY <1>4, <1>5, FS_Injection
<1>7. ToSet(f) = S
  BY <1>3, <1>6 DEF Surjection, ToSet
<1>8. f \in Seq(S)
  BY <1>1, <1>3
<1> HIDE DEF f
<1>9. <<>> \o f = f
  BY <1>8
<1> QED
  BY <1>3, <1>7, <1>8, <1>9 DEF f

(* NotSentTwice, in the library's word for it. *)
LEMMA SentOnce == NotSentTwice <=> \A t \in Transports : IsInjective(sent[t])
  BY DEF NotSentTwice, IsInjective

-----------------------------------------------------------------------------
(* In the initial state nothing was sent and nothing is kept. *)
LEMMA InitIInv == Init => IInv
<1> SUFFICES ASSUME Init PROVE IInv
  OBVIOUS
<1>1. TypeOK
  <2>1. /\ opc \in [Commands -> {"idle"}] /\ reader \in [Transports -> {"none"}]
        /\ sent \in [Transports -> Seq(Commands)]
    BY DEF Init
  <2>2. connectFailures \in Nat /\ urisLeft \in 0..NumURIs /\ next \in 0..MaxTransports
        /\ rebalances \in 0..MaxRebalances
    BY FailoverAssumption DEF Init
  <2> QED
    BY <2>1, <2>2 DEF Init, TypeOK
<1>2. Returned = {} /\ Pending = {} /\ Remembered = {}
  BY DEF Init, Returned, Pending, Remembered, WantsResponse
<1>3. \A t \in Transports : sent[t] = <<>> /\ ToSet(sent[t]) = {} /\ IsInjective(sent[t])
  BY DEF Init, ToSet, IsInjective
<1>4. RunnerOwns /\ ClosedIsOff /\ Unused /\ BeforeFirst /\ Kept /\ Replayed
  BY <1>2, <1>3 DEF Init, RunnerOwns, ClosedIsOff, Unused, BeforeFirst, Kept, Replayed, Connecting
<1>5. OnlyReturned
  BY <1>2, <1>3, FS_EmptySet DEF Init, OnlyReturned
<1>6. OnConnected /\ NotSentTwice
  BY <1>3, SentOnce DEF Init, OnConnected
<1> QED
  BY <1>1, <1>4, <1>5, <1>6 DEF IInv

(***************************************************************************)
(* A step that sends nothing, takes no new request and starts no round:    *)
(* it may lose the connection, and may forget a request that is answered,  *)
(* that oneway did not take after all, or that close gives up.             *)
(***************************************************************************)
LEMMA QuietStep ==
    ASSUME IInv, TypeOK', UNCHANGED <<firstConnection, tracked, replay, next, sent>>,
           requestMap' \subseteq requestMap, Returned \subseteq Returned',
           Pending' \subseteq Pending, Pending' \cap requestMap \subseteq requestMap' \/ closed',
           connected' \in {connected, NoTransport}, up' \subseteq up,
           closed => closed', closed' => closed \/ connected' = NoTransport,
           rpc' \in Connecting => UNCHANGED <<rpc, rt, urisLeft, holder, closed>>
    PROVE  IInv'
<1>1. Remembered' \subseteq Remembered
  BY DEF Remembered
<1>2. RunnerOwns'
  BY DEF IInv, RunnerOwns
<1>3. ClosedIsOff' /\ Unused'
  BY DEF IInv, ClosedIsOff, Unused
<1>4. OnlyReturned'
  BY <1>1 DEF IInv, OnlyReturned
<1>5. BeforeFirst'
  BY <1>1 DEF IInv, BeforeFirst
<1>6. Kept'
  BY DEF IInv, Kept, Remembered
<1>7. Replayed'
  BY <1>1 DEF IInv, Replayed, Connecting
<1>8. OnConnected'
  <2>1. NoTransport \notin up
    BY DEF IInv, TypeOK, Transports, NoTransport
  <2> QED
    BY <1>1, <2>1 DEF IInv, OnConnected
<1>9. NotSentTwice'
  BY DEF IInv, NotSentTwice
<1> QED
  BY <1>2, <1>3, <1>4, <1>5, <1>6, <1>7, <1>8, <1>9 DEF IInv

(* handleTransportFailure takes the connection away, or does nothing. *)
LEMMA FailureLemma ==
    ASSUME IInv, HandleTransportFailure
    PROVE  /\ connected' \in {connected, NoTransport}
           /\ connected' \in Transports \cup {NoTransport}
           /\ closing' \in SUBSET Transports /\ connectionFailure' \in BOOLEAN
<1>1. CASE shutdown \/ connected = NoTransport
  BY <1>1 DEF IInv, TypeOK, HandleTransportFailure
<1>2. CASE ~(shutdown \/ connected = NoTransport)
  <2>1. connectionFailure' \in BOOLEAN
    BY <1>2 DEF HandleTransportFailure
  <2> QED
    BY <1>2, <2>1 DEF IInv, TypeOK, HandleTransportFailure
<1> QED
  BY <1>1, <1>2

(* Whoever finds the mutex free does not meet the runner in a round. *)
LEMMA NoConnection == IInv => (rpc \in Connecting => holder # Free)
  BY DEF IInv, RunnerOwns, Runner, Free

(* The application, the network and the readers, as far as they are quiet. *)
LEMMA ApplicationStep ==
    ASSUME IInv, \/ Start \/ CloseCalled \/ CloseJoinsReader \/ Close \/ CloseJoinsRunner
                 \/ CloseTimesOut
    PROVE  IInv'
<1>1. TypeOK'
  <2>1. CASE Start
    BY <2>1 DEF IInv, TypeOK, Start, net, run
  <2>2. CASE Close
    BY <2>2 DEF IInv, TypeOK, Close, net, run
  <2>3. CASE CloseCalled
    BY <2>3 DEF IInv, TypeOK, CloseCalled, flags, net, run
  <2>4. CASE CloseJoinsReader
    BY <2>4 DEF IInv, TypeOK, CloseJoinsReader, flags, net, run
  <2>5. CASE CloseJoinsRunner
    BY <2>5 DEF IInv, TypeOK, CloseJoinsRunner, flags
  <2>6. CASE CloseTimesOut
    BY <2>6 DEF IInv, TypeOK, CloseTimesOut, flags, run
  <2> QED
    BY <2>1, <2>2, <2>3, <2>4, <2>5, <2>6
<1>2. Returned' = Returned /\ Pending' = Pending
  BY DEF Returned, Pending, Start, CloseCalled, CloseJoinsReader, Close, CloseJoinsRunner,
         CloseTimesOut
<1>3. CASE Start \/ CloseCalled \/ CloseJoinsReader
  BY <1>1, <1>2, <1>3, QuietStep DEF Start, CloseCalled, CloseJoinsReader, flags, net, run
<1>4. CASE Close
  BY <1>1, <1>2, <1>4, QuietStep, NoConnection DEF Close, flags, net, run
<1>5. CASE CloseJoinsRunner
  BY <1>1, <1>2, <1>5, QuietStep DEF CloseJoinsRunner, flags, net, run, Connecting
<1>6. CASE CloseTimesOut
  BY <1>1, <1>2, <1>6, QuietStep DEF CloseTimesOut, flags, net, run
<1> QED
  BY <1>3, <1>4, <1>5, <1>6

(* A connection breaks, its reader reports it, or a broker asks for a rebalance. *)
LEMMA ReaderStep ==
    ASSUME IInv, NEW t \in Transports,
           Break(t) \/ OnRebalance(t) \/ ReaderFails(t) \/ OnException(t)
    PROVE  IInv'
<1>1. TypeOK'
  <2>1. CASE Break(t)
    BY <2>1 DEF IInv, TypeOK, Break, flags, net, run
  <2>2. CASE OnRebalance(t)
    BY <2>2, FailoverAssumption DEF IInv, TypeOK, OnRebalance, flags, net, run
  <2>3. CASE ReaderFails(t)
    BY <2>3 DEF IInv, TypeOK, ReaderFails, flags, net, run
  <2>4. CASE OnException(t)
    BY <2>4, FailureLemma DEF IInv, TypeOK, OnException, run
  <2> QED
    BY <2>1, <2>2, <2>3, <2>4
<1>2. Returned' = Returned /\ Pending' = Pending
  BY DEF Returned, Pending, Break, OnRebalance, ReaderFails, OnException
<1>3. CASE Break(t)
  BY <1>1, <1>2, <1>3, QuietStep DEF Break, flags, net, run
<1>4. CASE OnRebalance(t)
  BY <1>1, <1>2, <1>4, QuietStep DEF OnRebalance, flags, net, run
<1>5. CASE ReaderFails(t)
  BY <1>1, <1>2, <1>5, QuietStep DEF ReaderFails, flags, net, run
<1>6. CASE OnException(t)
  BY <1>1, <1>2, <1>6, QuietStep DEF OnException, HandleTransportFailure, flags, net, run
<1> QED
  BY <1>3, <1>4, <1>5, <1>6

(* An answer takes the command out of the request map. *)
LEMMA OnResponseStep ==
    ASSUME IInv, NEW t \in Transports, NEW c \in Commands, OnResponse(t, c)
    PROVE  IInv'
<1>1. TypeOK'
  BY DEF IInv, TypeOK, OnResponse, flags, net, run
<1>2. Returned' = Returned /\ Pending' = Pending \ {c}
  BY DEF Returned, Pending, OnResponse
<1> QED
  BY <1>1, <1>2, QuietStep DEF OnResponse, flags, net, run

(* A call of oneway that sends nothing and keeps nothing. *)
LEMMA OnewayQuietStep ==
    ASSUME IInv, NEW c \in Commands,
           \/ Oneway(c) \/ OnewayShortcut(c) \/ OnewayWaits(c) \/ OnewayClosed(c)
           \/ OnewayThrows(c) \/ OnewayRetries(c)
    PROVE  IInv'
<1>0. opc[c] # "returned"
  BY DEF Oneway, OnewayShortcut, OnewayWaits, OnewayClosed, OnewayThrows, OnewayRetries, InLoop
<1>1. CASE Oneway(c) \/ OnewayWaits(c) \/ OnewayClosed(c) \/ OnewayThrows(c)
  <2>1. TypeOK'
    <3>1. \E s \in {"called", "waiting", "dropped", "threw"} : opc' = [opc EXCEPT ![c] = s]
      BY <1>1 DEF Oneway, OnewayWaits, OnewayClosed, OnewayThrows
    <3>2. opc' \in [Commands -> {"idle", "called", "waiting", "spinning", "returned", "dropped",
                                 "threw"}]
      BY <3>1 DEF IInv, TypeOK
    <3>3. UNCHANGED <<flags, connected, requestMap, tracked, holder, run, closing, kpc, toStop,
                      net, sent, answered>>
      BY <1>1 DEF Oneway, OnewayWaits, OnewayClosed, OnewayThrows
    <3> QED
      BY <3>2, <3>3 DEF IInv, TypeOK, flags, net, run
  <2>2. opc'[c] # "returned" /\ \A d \in Commands \ {c} : opc'[d] = opc[d]
    BY <1>1 DEF IInv, TypeOK, Oneway, OnewayWaits, OnewayClosed, OnewayThrows
  <2>3. Returned' = Returned /\ Pending' = Pending
    BY <1>0, <1>1, <2>2
    DEF Returned, Pending, WantsResponse, Oneway, OnewayWaits, OnewayClosed, OnewayThrows
  <2> QED
    BY <1>1, <2>1, <2>3, QuietStep
    DEF Oneway, OnewayWaits, OnewayClosed, OnewayThrows, flags, net, run
<1>2. CASE OnewayShortcut(c)
  <2>1. TypeOK'
    BY <1>2 DEF IInv, TypeOK, OnewayShortcut, flags, net, run
  <2>2. opc'[c] = "returned" /\ \A d \in Commands \ {c} : opc'[d] = opc[d]
    BY <1>2 DEF IInv, TypeOK, OnewayShortcut
  <2>3. Returned' = Returned \cup {c}
    BY <2>2 DEF Returned
  <2>4. answered \subseteq answered' /\ (c \in WantsResponse => c \in answered')
    BY <1>2 DEF OnewayShortcut, WantsResponse
  <2>5. Pending' \subseteq Pending
    BY <2>2, <2>4 DEF Pending, WantsResponse
  <2> QED
    BY <1>2, <2>1, <2>3, <2>5, QuietStep DEF OnewayShortcut, flags, net, run
<1>3. CASE OnewayRetries(c)
  <2>1. TypeOK'
    BY <1>3, FailureLemma DEF IInv, TypeOK, OnewayRetries, net, run
  <2>2. opc'[c] # "returned" /\ \A d \in Commands \ {c} : opc'[d] = opc[d]
    BY <1>3 DEF IInv, TypeOK, OnewayRetries
  <2>3. Returned' = Returned /\ Pending' = Pending /\ c \notin Pending
    BY <1>0, <1>3, <2>2 DEF Returned, Pending, WantsResponse, OnewayRetries
  <2>4. requestMap' = requestMap \ {c} /\ connected' \in {connected, NoTransport} /\ holder = Free
    BY <1>3 DEF OnewayRetries, HandleTransportFailure, InLoop
  <2> QED
    BY <1>3, <2>1, <2>3, <2>4, QuietStep, NoConnection DEF OnewayRetries, flags, net, run
<1> QED
  BY <1>1, <1>2, <1>3

(***************************************************************************)
(* A call of oneway whose command the transport keeps, and that returns.   *)
(* On a connection that works the command was sent; one that does not may  *)
(* be taken away.                                                          *)
(***************************************************************************)
LEMMA TakenStep ==
    ASSUME IInv, NEW c \in Commands, OnewaySends(c) \/ OnewayLeaves(c)
    PROVE  IInv'
<1>0. /\ opc[c] # "returned" /\ holder = Free /\ ~closed /\ connected \in Transports
      /\ Track(c) /\ opc' = [opc EXCEPT ![c] = "returned"] /\ rpc \notin Connecting
      /\ ~firstConnection
      /\ UNCHANGED <<closed, firstConnection, run, next, up, answered, holder>>
  BY NoConnection
  DEF IInv, TypeOK, BeforeFirst, OnewaySends, OnewayLeaves, InLoop, net, flags
<1>1. /\ Returned' = Returned \cup {c} /\ c \notin Returned
      /\ \A t \in Transports : c \notin ToSet(sent[t])
  <2>1. opc'[c] = "returned" /\ \A d \in Commands \ {c} : opc'[d] = opc[d]
    BY <1>0 DEF IInv, TypeOK
  <2> QED
    BY <1>0, <2>1 DEF IInv, Returned, OnlyReturned
<1>2. /\ requestMap' \subseteq requestMap \cup {c} /\ tracked' \in {tracked, tracked \cup {c}}
      /\ requestMap \subseteq requestMap' /\ tracked \subseteq tracked'
      /\ c \in WantsResponse => c \in Remembered'
      /\ requestMap' \subseteq Untracked /\ tracked' \cap Untracked = {}
      /\ requestMap' \subseteq Commands /\ tracked' \subseteq Commands
  BY <1>0 DEF Track, IInv, TypeOK, OnlyReturned, Untracked, WantsResponse, Remembered
<1>3. \/ /\ connected \in up /\ connected' = connected
         /\ sent' = [sent EXCEPT ![connected] = Append(@, c)]
      \/ /\ connected \notin up /\ connected' \in {connected, NoTransport} /\ sent' = sent
  BY FailureLemma DEF OnewaySends, OnewayLeaves
<1>4. /\ sent' \in [Transports -> Seq(Commands)]
      /\ \A t \in Transports : t # connected => sent'[t] = sent[t]
      /\ IsInjective(sent'[connected])
      /\ ToSet(sent'[connected]) \subseteq ToSet(sent[connected]) \cup {c}
      /\ connected \in up => ToSet(sent'[connected]) = ToSet(sent[connected]) \cup {c}
  <2>1. sent[connected] \in Seq(Commands) /\ IsInjective(sent[connected])
    BY <1>0, SentOnce DEF IInv, TypeOK
  <2>2. CASE connected \in up
    <3> DEFINE q == Append(sent[connected], c)
    <3>1. q \in Seq(Commands) /\ IsInjective(q) /\ ToSet(q) = ToSet(sent[connected]) \cup {c}
      BY <1>0, <1>1, <2>1, AppendOnce
    <3>2. sent' = [sent EXCEPT ![connected] = q]
      BY <1>3, <2>2
    <3> HIDE DEF q
    <3> QED
      BY <1>0, <3>1, <3>2 DEF IInv, TypeOK
  <2>3. CASE connected \notin up
    BY <1>3, <2>1, <2>3 DEF IInv, TypeOK
  <2> QED
    BY <2>2, <2>3
<1>5. TypeOK'
  <2>1. opc' \in [Commands -> {"idle", "called", "waiting", "spinning", "returned", "dropped",
                               "threw"}]
    BY <1>0 DEF IInv, TypeOK
  <2>2. CASE OnewaySends(c)
    BY <1>2, <1>4, <2>1, <2>2 DEF IInv, TypeOK, OnewaySends, net, run
  <2>3. CASE OnewayLeaves(c)
    BY <1>2, <1>4, <2>1, <2>3, FailureLemma DEF IInv, TypeOK, OnewayLeaves, net, run
  <2> QED
    BY <2>2, <2>3
<1>6. RunnerOwns' /\ Replayed'
  BY <1>0 DEF RunnerOwns, Replayed, run, Connecting
<1>7. ClosedIsOff' /\ BeforeFirst'
  BY <1>0 DEF ClosedIsOff, BeforeFirst
<1>8. Unused'
  BY <1>0, <1>3, <1>4 DEF IInv, Unused
<1>9. OnlyReturned'
  <2>1. IsFiniteSet(tracked')
    BY <1>2, FS_AddElement DEF IInv, OnlyReturned
  <2>2. Remembered' \subseteq Returned' /\ replay' \subseteq Returned'
    BY <1>0, <1>1, <1>2 DEF IInv, OnlyReturned, Remembered, run
  <2>3. \A t \in Transports : ToSet(sent'[t]) \subseteq Returned'
    BY <1>1, <1>4 DEF IInv, OnlyReturned
  <2> QED
    BY <1>2, <2>1, <2>2, <2>3 DEF OnlyReturned
<1>10. Kept'
  <2>1. Pending' \subseteq Pending \cup ({c} \cap WantsResponse)
    BY <1>0 DEF Pending, IInv, TypeOK, WantsResponse
  <2> QED
    BY <1>0, <1>2, <2>1 DEF IInv, Kept, Remembered
<1>11. OnConnected'
  <2>1. NoTransport \notin up
    BY DEF IInv, TypeOK, Transports, NoTransport
  <2> QED
    BY <1>0, <1>2, <1>3, <1>4, <2>1 DEF IInv, OnConnected, Remembered
<1>12. NotSentTwice'
  <2>1. \A t \in Transports : IsInjective(sent'[t])
    BY <1>4, SentOnce DEF IInv
  <2> QED
    BY <2>1 DEF NotSentTwice, IsInjective
<1> QED
  BY <1>5, <1>6, <1>7, <1>8, <1>9, <1>10, <1>11, <1>12 DEF IInv

-----------------------------------------------------------------------------
(* The task runner's thread *)

(* What the runner leaves alone whatever it does. *)
LEMMA RunnerFrame ==
    ASSUME IInv, UNCHANGED <<closed, requestMap, tracked, opc, answered>>
    PROVE  /\ UNCHANGED <<Remembered, Returned, Pending>> /\ Kept'
  BY DEF IInv, Remembered, Returned, Pending, Kept

(* Tasks that do not connect: the close task, and a rebalance that leads to nothing. *)
LEMMA RunnerQuietStep ==
    ASSUME IInv, \/ RebalanceNotNeeded \/ RebalanceKillsRunner \/ CloseTaskJoins \/ RoundFails
                 \/ \E t \in Transports : CloseTask(t)
    PROVE  IInv'
<1>1. TypeOK'
  <2>1. CASE RebalanceNotNeeded
    BY <2>1, ZenonT(60) DEF IInv, TypeOK, RebalanceNotNeeded, net, run
  <2>2. CASE RebalanceKillsRunner
    BY <2>2 DEF IInv, TypeOK, RebalanceKillsRunner, flags, net
  <2>3. CASE CloseTaskJoins
    BY <2>3 DEF IInv, TypeOK, CloseTaskJoins, flags, net
  <2>4. CASE RoundFails
    <3>1. connectFailures' \in Nat /\ connectionFailure' \in BOOLEAN
      BY <2>4 DEF IInv, TypeOK, RoundFails
    <3> QED
      BY <2>4, <3>1 DEF IInv, TypeOK, RoundFails, net
  <2>5. CASE \E t \in Transports : CloseTask(t)
    BY <2>5 DEF IInv, TypeOK, CloseTask, flags
  <2> QED
    BY <2>1, <2>2, <2>3, <2>4, <2>5
<1>2. Returned' = Returned /\ Pending' = Pending
  BY DEF Returned, Pending, RebalanceNotNeeded, RebalanceKillsRunner, CloseTaskJoins, RoundFails,
         CloseTask
<1>3. CASE RebalanceNotNeeded
  BY <1>1, <1>2, <1>3, QuietStep DEF RebalanceNotNeeded, net, run
<1>4. CASE RebalanceKillsRunner \/ CloseTaskJoins \/ RoundFails
  BY <1>1, <1>2, <1>4, QuietStep
  DEF RebalanceKillsRunner, CloseTaskJoins, RoundFails, flags, net, run, Connecting
<1>5. CASE \E t \in Transports : CloseTask(t)
  BY <1>1, <1>2, <1>5, QuietStep DEF CloseTask, flags, Connecting
<1> QED
  BY <1>3, <1>4, <1>5

(* A round of iterate() begins, or goes on to the next broker. *)
LEMMA RoundStep ==
    ASSUME IInv, Iterate \/ RebalanceDisconnects \/ ConnectFails \/ ReplayThrows
    PROVE  IInv'
<1>1. TypeOK'
  <2>1. CASE Iterate
    BY <2>1, FailoverAssumption DEF IInv, TypeOK, Iterate, BeginRound, flags, net
  <2>2. CASE RebalanceDisconnects
    <3>1. connected \in Transports
      BY <2>2 DEF IInv, TypeOK, RebalanceDisconnects
    <3>2. urisLeft' \in 0..NumURIs /\ rpc' = "connect"
      BY <2>2, FailoverAssumption DEF RebalanceDisconnects, BeginRound
    <3>3. /\ holder' = Runner /\ connected' = NoTransport /\ doRebalance' = FALSE
          /\ closing' \in SUBSET Transports /\ UNCHANGED <<rt, replay>>
      BY <2>2, <3>1 DEF IInv, TypeOK, RebalanceDisconnects, BeginRound
    <3> QED
      BY <2>2, <3>2, <3>3, ZenonT(60) DEF IInv, TypeOK, RebalanceDisconnects, net
  <2>3. CASE ConnectFails
    BY <2>3, FailoverAssumption DEF IInv, TypeOK, ConnectFails, flags, net
  <2>4. CASE ReplayThrows
    <3>1. urisLeft > 0 /\ rt \in Transports
      BY <2>4 DEF IInv, RunnerOwns, ReplayThrows, Connecting
    <3>2. urisLeft' \in 0..NumURIs
      BY <2>4, <3>1, FailoverAssumption DEF IInv, TypeOK, ReplayThrows
    <3> QED
      BY <2>4, <3>1, <3>2 DEF IInv, TypeOK, ReplayThrows, flags
  <2> QED
    BY <2>1, <2>2, <2>3, <2>4
<1>2. /\ rpc' = "connect" /\ holder' = Runner /\ connected' = NoTransport /\ ~closed
      /\ UNCHANGED <<closed, firstConnection, requestMap, tracked, opc, answered, next, sent, up>>
      /\ replay' \subseteq replay
  <2>1. CASE Iterate
    BY <2>1 DEF Iterate, BeginRound, IsPending, IsConnectionStateValid, IsClosedOrFailed, flags, net
  <2>2. CASE RebalanceDisconnects
    BY <2>2 DEF RebalanceDisconnects, BeginRound, IsPending, IsClosedOrFailed, net
  <2>3. CASE ConnectFails \/ ReplayThrows
    BY <2>3 DEF IInv, RunnerOwns, Connecting, ConnectFails, ReplayThrows, flags, net
  <2> QED
    BY <2>1, <2>2, <2>3
<1>3. UNCHANGED <<Remembered, Returned, Pending>> /\ Kept'
  BY <1>2, RunnerFrame
<1>4. RunnerOwns' /\ ClosedIsOff' /\ Unused' /\ BeforeFirst' /\ Replayed'
  BY <1>2, <1>3 DEF IInv, RunnerOwns, ClosedIsOff, Unused, BeforeFirst, Replayed
<1>5. OnlyReturned' /\ NotSentTwice'
  BY <1>2, <1>3 DEF IInv, OnlyReturned, NotSentTwice
<1>6. OnConnected'
  <2>1. NoTransport \notin up
    BY DEF IInv, TypeOK, Transports, NoTransport
  <2> QED
    BY <1>2, <2>1 DEF OnConnected
<1> QED
  BY <1>1, <1>3, <1>4, <1>5, <1>6 DEF IInv

(* A connection is made; nothing was sent on it. *)
LEMMA ConnectStep == ASSUME IInv, Connect PROVE IInv'
<1>0. /\ next + 1 \in Transports /\ next \in Nat /\ rpc = "connect" /\ urisLeft > 0
      /\ connected = NoTransport /\ ~closed /\ holder = Runner
  BY FailoverAssumption DEF IInv, TypeOK, RunnerOwns, Connect, Connecting, Transports
<1>1. TypeOK'
  BY <1>0, FailoverAssumption DEF IInv, TypeOK, Connect, flags
<1>2. UNCHANGED <<Remembered, Returned, Pending>> /\ Kept'
  BY RunnerFrame DEF Connect, flags
<1>3. sent[next + 1] = <<>> /\ next' = next + 1 /\ rt' = next + 1 /\ sent' = sent
  BY <1>0 DEF IInv, Unused, Connect
<1>4. RunnerOwns'
  BY <1>0, <1>3 DEF IInv, RunnerOwns, Connect, flags
<1>5. ClosedIsOff' /\ BeforeFirst' /\ OnlyReturned' /\ NotSentTwice' /\ Replayed'
  BY <1>2 DEF IInv, ClosedIsOff, BeforeFirst, OnlyReturned, NotSentTwice, Replayed, Connect, flags
<1>6. Unused'
  BY <1>0 DEF IInv, Unused, Connect, Transports
<1>7. OnConnected'
  <2>1. connected' \notin up'
    BY <1>0 DEF IInv, TypeOK, Connect, NoTransport, Transports
  <2> QED
    BY <2>1 DEF OnConnected
<1> QED
  BY <1>1, <1>2, <1>4, <1>5, <1>6, <1>7 DEF IInv

(***************************************************************************)
(* The restore and the replay send on a connection that nobody else uses:  *)
(* what they add to it must be new there.                                  *)
(***************************************************************************)
LEMMA SendOnNewest ==
    ASSUME IInv, rpc \in {"restore", "replay"}, rpc' = "replay", replay' \subseteq Commands,
           replay' \subseteq Remembered \cup replay, NEW q \in Seq(Commands), IsInjective(q),
           ToSet(sent[rt]) \cap replay' = {},
           ToSet(q) \subseteq Returned, ToSet(q) \cap replay' = {},
           rt \in up => Remembered \ replay' \subseteq ToSet(q),
           sent' = IF rt \in up THEN [sent EXCEPT ![rt] = q] ELSE sent,
           UNCHANGED <<flags, connected, requestMap, tracked, holder, opc, rt, urisLeft, closing,
                       kpc, toStop, net, answered>>
    PROVE  IInv'
<1>0. rt \in Transports /\ rt = next /\ next \in Nat /\ connected = NoTransport
  BY DEF IInv, TypeOK, RunnerOwns, Connecting
<1>1. /\ sent' \in [Transports -> Seq(Commands)]
      /\ \A t \in Transports : t # rt => sent'[t] = sent[t]
      /\ sent'[rt] \in {sent[rt], q} /\ (rt \in up => sent'[rt] = q)
  BY <1>0 DEF IInv, TypeOK
<1>2. TypeOK'
  BY <1>1 DEF IInv, TypeOK, flags, net
<1>3. UNCHANGED <<Remembered, Returned, Pending>> /\ Kept'
  BY RunnerFrame DEF flags
<1>4. RunnerOwns' /\ ClosedIsOff' /\ BeforeFirst'
  BY <1>3 DEF IInv, RunnerOwns, ClosedIsOff, BeforeFirst, Connecting, flags, net
<1>5. Unused'
  BY <1>0, <1>1 DEF IInv, Unused, net
<1>6. OnlyReturned'
  <2>1. \A t \in Transports : ToSet(sent'[t]) \subseteq Returned
    BY <1>1 DEF IInv, OnlyReturned
  <2> QED
    BY <1>3, <2>1 DEF IInv, OnlyReturned
<1>7. Replayed'
  BY <1>1, <1>3 DEF Replayed, net
<1>8. OnConnected'
  <2>1. connected' \notin up'
    BY <1>0 DEF IInv, TypeOK, net, NoTransport, Transports
  <2> QED
    BY <2>1 DEF OnConnected
<1>9. NotSentTwice'
  <2>1. \A t \in Transports : IsInjective(sent'[t])
    BY <1>1, SentOnce DEF IInv
  <2> QED
    BY <2>1 DEF NotSentTwice, IsInjective
<1> QED
  BY <1>2, <1>3, <1>4, <1>5, <1>6, <1>7, <1>8, <1>9 DEF IInv

(* The tracked state comes first; the request map has no command of it. *)
LEMMA RestoreStep == ASSUME IInv, Restore PROVE IInv'
<1>0. rpc = "restore" /\ sent[rt] = <<>> /\ IsFiniteSet(tracked) /\ replay' = requestMap
  BY DEF IInv, Restore, RunnerOwns, Connecting, OnlyReturned
<1> DEFINE q == sent[rt] \o SetToSeq(tracked)
<1>1. q = SetToSeq(tracked) /\ q \in Seq(tracked) /\ IsInjective(q) /\ ToSet(q) = tracked
  BY <1>0, SetToSeqOnce
<1>2. sent' = IF rt \in up THEN [sent EXCEPT ![rt] = q] ELSE sent
  BY DEF Restore
<1>3. ToSet(sent[rt]) = {}
  BY <1>0 DEF ToSet
<1>4. tracked \cap requestMap = {} /\ tracked \subseteq Returned /\ tracked \subseteq Commands
      /\ requestMap \subseteq Commands
  BY DEF IInv, OnlyReturned, Remembered, TypeOK
<1> HIDE DEF q
<1>5. q \in Seq(Commands)
  BY <1>1, <1>4
<1>6. /\ rpc' = "replay"
      /\ UNCHANGED <<flags, connected, requestMap, tracked, holder, opc, rt, urisLeft, closing,
                     kpc, toStop, net, answered>>
  BY DEF Restore
<1>7. Remembered \ requestMap \subseteq tracked /\ requestMap \subseteq Remembered \cup replay
  BY DEF Remembered
<1> QED
  BY <1>0, <1>1, <1>2, <1>3, <1>4, <1>5, <1>6, <1>7, SendOnNewest

(* One command of the replay: it was not sent on this connection before. *)
LEMMA ReplayStep == ASSUME IInv, NEW c \in Commands, Replay(c) PROVE IInv'
<1>0. rpc = "replay" /\ c \in replay /\ replay' = replay \ {c} /\ rpc' = "replay"
  BY DEF Replay
<1>1. rt \in Transports /\ sent[rt] \in Seq(Commands) /\ IsInjective(sent[rt])
  BY <1>0, SentOnce DEF IInv, TypeOK, RunnerOwns, Connecting
<1>2. replay \cap ToSet(sent[rt]) = {} /\ c \notin ToSet(sent[rt])
      /\ (rt \in up => Remembered \ replay \subseteq ToSet(sent[rt]))
  BY <1>0 DEF IInv, Replayed
<1>3. ToSet(sent[rt]) \subseteq Returned /\ c \in Returned /\ replay \subseteq Commands
  BY <1>0, <1>1 DEF IInv, OnlyReturned, TypeOK
<1> DEFINE q == Append(sent[rt], c)
<1>4. q \in Seq(Commands) /\ IsInjective(q) /\ ToSet(q) = ToSet(sent[rt]) \cup {c}
  BY <1>1, <1>2, AppendOnce
<1>5. sent' = IF rt \in up THEN [sent EXCEPT ![rt] = q] ELSE sent
  BY DEF Replay
<1>6. UNCHANGED <<flags, connected, requestMap, tracked, holder, opc, rt, urisLeft, closing,
                  kpc, toStop, net, answered>>
  BY DEF Replay
<1> HIDE DEF q
<1>7. ToSet(q) \cap replay' = {}
  BY <1>0, <1>2, <1>4
<1>8. rt \in up => Remembered \ replay' \subseteq ToSet(q)
  BY <1>0, <1>2, <1>4
<1> QED
  BY <1>0, <1>1, <1>2, <1>3, <1>4, <1>5, <1>6, <1>7, <1>8, SendOnNewest

(* The connection is announced when there is nothing left to replay. *)
LEMMA EstablishStep == ASSUME IInv, Establish PROVE IInv'
<1>0. /\ rpc \in Connecting /\ rt \in Transports /\ ~closed /\ rpc' = "idle" /\ connected' = rt
      /\ UNCHANGED <<closed, requestMap, tracked, opc, replay, answered, next, sent, up>>
      /\ firstConnection' = FALSE
  BY DEF IInv, RunnerOwns, Establish, Connecting, net
<1>1. TypeOK'
  BY <1>0 DEF IInv, TypeOK, Establish, net
<1>2. UNCHANGED <<Remembered, Returned, Pending>> /\ Kept'
  BY <1>0, RunnerFrame
<1>3. RunnerOwns' /\ ClosedIsOff' /\ Unused' /\ BeforeFirst' /\ Replayed'
  BY <1>0 DEF IInv, RunnerOwns, Connecting, ClosedIsOff, Unused, BeforeFirst, Replayed
<1>4. OnlyReturned' /\ NotSentTwice'
  BY <1>0, <1>2 DEF IInv, OnlyReturned, NotSentTwice
<1>5. OnConnected'
  <2>1. CASE rpc = "establish"
    <3>1. Remembered = {}
      BY <2>1 DEF IInv, RunnerOwns, Connecting, BeforeFirst
    <3> QED
      BY <1>2, <3>1 DEF OnConnected
  <2>2. CASE rpc = "replay" /\ replay = {}
    BY <1>0, <1>2, <2>2 DEF IInv, Replayed, OnConnected
  <2> QED
    BY <2>1, <2>2 DEF Establish
<1> QED
  BY <1>1, <1>2, <1>3, <1>4, <1>5 DEF IInv

-----------------------------------------------------------------------------
(* Every step keeps the invariant. *)
LEMMA NextIInv == IInv /\ [Next]_vars => IInv'
<1> SUFFICES ASSUME IInv, [Next]_vars PROVE IInv'
  OBVIOUS
<1>1. CASE UNCHANGED vars
  <2>1. TypeOK'
    BY <1>1 DEF IInv, TypeOK, vars, flags, net, run
  <2>2. Returned' = Returned /\ Pending' = Pending
    BY <1>1 DEF vars, Returned, Pending
  <2> QED
    BY <1>1, <2>1, <2>2, QuietStep DEF vars, flags, net, run
<1>2. ASSUME NEW c \in Commands, Oneway(c) \/ OnewayStep(c) PROVE IInv'
  BY <1>2, OnewayQuietStep, TakenStep DEF OnewayStep
<1>3. CASE RunnerStep
  BY <1>3, RunnerQuietStep, RoundStep, ConnectStep, RestoreStep, ReplayStep, EstablishStep
  DEF RunnerStep
<1> QED
  BY <1>1, <1>2, <1>3, ApplicationStep, ReaderStep, OnResponseStep DEF Next, CloseStep

(* The inductive invariant holds in every state of the failover transport. *)
THEOREM FailoverInvariant == Spec => []IInv
  BY InitIInv, NextIInv, PTL DEF Spec

(***************************************************************************)
(* The members of FailoverTransport and its threads keep values of their   *)
(* types.                                                                  *)
(***************************************************************************)
THEOREM TypeCorrect == Spec => []TypeOK
<1>1. IInv => TypeOK
  BY DEF IInv
<1> QED
  BY <1>1, FailoverInvariant, PTL

(***************************************************************************)
(* oneway, its retry, the restore of the tracked state and the replay of   *)
(* the request map never put one command on the same connection twice.     *)
(***************************************************************************)
THEOREM NeverTwice == Spec => []NotSentTwice
<1>1. IInv => NotSentTwice
  BY DEF IInv
<1> QED
  BY <1>1, FailoverInvariant, PTL

(***************************************************************************)
(* After any failures, rebalances and rounds of iterate(): over a          *)
(* connection that works every request oneway took and that has no answer  *)
(* was sent.                                                               *)
(***************************************************************************)
THEOREM RequestsSurvive == Spec => []NoRequestForgotten
<1>1. IInv => NoRequestForgotten
  <2> SUFFICES ASSUME IInv, connected \in up, NEW c \in WantsResponse,
                      opc[c] = "returned", c \notin answered
               PROVE  c \in ToSet(sent[connected])
    BY DEF NoRequestForgotten
  <2>1. ~closed
    BY DEF IInv, ClosedIsOff, TypeOK, Transports, NoTransport
  <2> QED
    BY <2>1 DEF IInv, Kept, Pending, OnConnected
<1> QED
  BY <1>1, FailoverInvariant, PTL
=============================================================================
