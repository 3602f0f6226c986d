----------------------- MODULE ConnectionStateTracker -----------------------
(***************************************************************************)
(* What a failover client remembers for the broker it will connect to next *)
(* (activemq/state), composed with the sessions that use it and with the   *)
(* broker's end of the connection.                                         *)
(*                                                                         *)
(* Sessions open and close producers and temporary destinations and send   *)
(* messages in transactions.  FailoverTransport::oneway shows every        *)
(* command to the tracker before it sends it; when the connection is lost  *)
(* the task runner's thread connects again and restores: the tracker sends *)
(* what is open, replays the transactions that are not finished, and       *)
(* answers itself for a commit that may or may not have reached the        *)
(* broker.  The readers pass on responses without reconnectMutex, so they  *)
(* go on while the runner restores.                                        *)
(*                                                                         *)
(* A command names itself: an object is opened once, a message is the i-th *)
(* of its transaction.  Its command id, which the replayed copy keeps, is  *)
(* the command.                                                            *)
(***************************************************************************)
EXTENDS Integers, Sequences, SequencesExt, FiniteSets

CONSTANTS Sessions,      \* each used by a thread of its own
          Producers,
          Dests,         \* temporary destinations
          Owner,         \* [Producers \cup Dests -> Sessions]
          MaxTx,         \* bound on the transactions begun
          MaxSends,      \* bound on the messages of a transaction
          MaxBreaks      \* bound on the connections that break

ASSUME TrackerAssumption ==
    /\ Owner \in [Producers \cup Dests -> Sessions]
    /\ Producers \cap Dests = {}
    /\ IsFiniteSet(Producers)
    /\ MaxTx \in Nat /\ MaxSends \in Nat \ {0} /\ MaxBreaks \in Nat

Txs == 1..MaxTx
NoTx == 0
None == "none"

Cmd(k, o, t, i) == [k |-> k, o |-> o, t |-> t, i |-> i]
AddProducer(p) == Cmd("AddProducer", p, NoTx, 0)      \* ProducerInfo
RemoveProducer(p) == Cmd("RemoveProducer", p, NoTx, 0)
AddDest(d) == Cmd("AddDest", d, NoTx, 0)              \* DestinationInfo, add operation
RemoveDest(d) == Cmd("RemoveDest", d, NoTx, 0)        \* DestinationInfo, remove operation
Begin(p, t) == Cmd("Begin", p, t, 0)                  \* p waits to send the first message
Message(p, t, i) == Cmd("Message", p, t, i)
Commit(t) == Cmd("Commit", None, t, 0)
Rollback(t) == Cmd("Rollback", None, t, 0)

Command ==
    [k : {"AddProducer", "RemoveProducer"}, o : Producers, t : {NoTx}, i : {0}] \cup
    [k : {"AddDest", "RemoveDest"}, o : Dests, t : {NoTx}, i : {0}] \cup
    [k : {"Begin"}, o : Producers, t : Txs, i : {0}] \cup
    [k : {"Message"}, o : Producers, t : Txs, i : 1..MaxSends] \cup
    [k : {"Commit", "Rollback"}, o : {None}, t : Txs, i : {0}]

NoCall == Cmd("None", None, NoTx, 0)
Sync(c) == c.k \in {"AddProducer", "AddDest", "RemoveDest", "Commit", "Rollback"}

VARIABLES
    pc,          \* where each session's thread is: idle, in oneway, waiting for a response
    call,        \* the command it is busy with
    life,        \* what the application did with each object: new, open, closed
    tx,          \* transactionId of each session's context
    nextTx,      \* transactions begun
    sends,       \* history: messages sent in each transaction
    outcome,     \* history: what the application was told of each transaction
    producers,   \* tracker: [open producers -> transaction they last sent in]
    temps,       \* tracker: tempDestinations
    txs,         \* tracker: [transactions -> commands and closed producers]
    requestMap,  \* commits and rollbacks whose answer ends the transaction's tracking
    connected,   \* connectedTransport is set
    rpc,         \* where the runner's thread is
    seen,        \* the transactions when the restore began to walk through them
    todo,        \* the ones it has not come to
    cur,         \* the transaction it is replaying
    replay,      \* and what is left of it
    doubt,       \* commits it will answer
    alive,       \* the connection works
    breaks,      \* connections that broke
    broker       \* the broker's end, and the responses on their way

app     == <<pc, call, life, tx, nextTx, sends, outcome>>
tracker == <<producers, temps, txs, requestMap>>
runner  == <<rpc, seen, todo, cur, replay, doubt>>
vars    == <<app, tracker, connected, runner, alive, breaks, broker>>

(* A broker that knows nothing of this connection; what it stored stays. *)
Fresh(log, strangers, out) ==
    [prods |-> {}, dests |-> {}, open |-> <<>>, log |-> log, strangers |-> strangers,
     out |-> out]

Init ==
    /\ pc = [s \in Sessions |-> "idle"]
    /\ call = [s \in Sessions |-> NoCall]
    /\ life = [o \in Producers \cup Dests |-> "new"]
    /\ tx = [s \in Sessions |-> NoTx]
    /\ nextTx = 1
    /\ sends = [t \in Txs |-> 0]
    /\ outcome = [t \in Txs |-> None]
    /\ producers = <<>> /\ temps = <<>> /\ txs = <<>> /\ requestMap = {}
    /\ connected = TRUE
    /\ rpc = "idle" /\ seen = {} /\ todo = {} /\ cur = NoTx /\ replay = <<>> /\ doubt = {}
    /\ alive = TRUE /\ breaks = 0
    /\ broker = Fresh(<<>>, {}, {})

With(f, x, v) == [y \in DOMAIN f \cup {x} |-> IF y = x THEN v ELSE f[y]]
Without(f, x) == [y \in DOMAIN f \ {x} |-> f[y]]

-----------------------------------------------------------------------------
(* The broker applies the commands of a connection in order. *)

(* A response that nobody waits for has no effect on the client and is left out. *)
Answer(b, c, ok) ==
    IF \E s \in Sessions : call[s] = c
    THEN [b EXCEPT !.out = @ \cup {[c |-> c, ok |-> ok]}]
    ELSE b

BrokerApply(b, c) ==
    CASE c.k = "AddProducer"    -> Answer([b EXCEPT !.prods = @ \cup {c.o}], c, TRUE)
      [] c.k = "RemoveProducer" -> [b EXCEPT !.prods = @ \ {c.o}]
      [] c.k = "AddDest"        -> Answer([b EXCEPT !.dests = @ \cup {c.o}], c, TRUE)
      [] c.k = "RemoveDest"     -> Answer([b EXCEPT !.dests = @ \ {c.o}], c, TRUE)
      [] c.k = "Begin"          -> [b EXCEPT !.open = With(@, c.t, <<>>)]
      [] c.k = "Message"        ->
            IF c.o \in b.prods /\ c.t \in DOMAIN b.open
            THEN [b EXCEPT !.open[c.t] = Append(@, c.i)]
            ELSE [b EXCEPT !.strangers = @ \cup {c}]
      [] c.k = "Commit"         ->
            IF c.t \in DOMAIN b.open
            THEN Answer([b EXCEPT !.log = Append(@, [t |-> c.t, msgs |-> b.open[c.t]]),
                                  !.open = Without(@, c.t)], c, TRUE)
            ELSE Answer(b, c, FALSE)
      [] c.k = "Rollback"       ->
            Answer([b EXCEPT !.open = Without(@, c.t)], c, c.t \in DOMAIN b.open)

-----------------------------------------------------------------------------
(* The application: one call at a time in each session. *)
Call(s, c) ==
    /\ pc[s] = "idle"
    /\ pc' = [pc EXCEPT ![s] = "oneway"]
    /\ call' = [call EXCEPT ![s] = c]
    /\ UNCHANGED <<tracker, connected, runner, alive, breaks, broker>>

CreateProducer(s, p) ==
    /\ Owner[p] = s /\ life[p] = "new"
    /\ Call(s, AddProducer(p))
    /\ UNCHANGED <<life, tx, nextTx, sends, outcome>>

CloseProducer(s, p) ==
    /\ Owner[p] = s /\ life[p] = "open"
    /\ Call(s, RemoveProducer(p))
    /\ life' = [life EXCEPT ![p] = "closed"]
    /\ UNCHANGED <<tx, nextTx, sends, outcome>>

CreateTempDestination(s, d) ==
    /\ Owner[d] = s /\ life[d] = "new"
    /\ Call(s, AddDest(d))
    /\ UNCHANGED <<life, tx, nextTx, sends, outcome>>

DestroyDestination(s, d) ==
    /\ Owner[d] = s /\ life[d] = "open"
    /\ Call(s, RemoveDest(d))
    /\ life' = [life EXCEPT ![d] = "closed"]
    /\ UNCHANGED <<tx, nextTx, sends, outcome>>

(* doStartTransaction sends the begin first when the session has no transaction. *)
Send(s, p) ==
    /\ Owner[p] = s /\ life[p] = "open"
    /\ IF tx[s] = NoTx
       THEN /\ nextTx \in Txs
            /\ Call(s, Begin(p, nextTx))
            /\ nextTx' = nextTx + 1
       ELSE /\ sends[tx[s]] < MaxSends
            /\ Call(s, Message(p, tx[s], sends[tx[s]] + 1))
            /\ UNCHANGED nextTx
    /\ UNCHANGED <<life, tx, sends, outcome>>

(* The context forgets the transaction before the request goes out. *)
EndTransaction(s, c) ==
    /\ Call(s, c)
    /\ tx' = [tx EXCEPT ![s] = NoTx]
    /\ UNCHANGED <<life, nextTx, sends, outcome>>

CommitTx(s) == tx[s] # NoTx /\ EndTransaction(s, Commit(tx[s]))
RollbackTx(s) == tx[s] # NoTx /\ EndTransaction(s, Rollback(tx[s]))

(* oneway returned: the next command, the wait for the response, or the end. *)
Returned(s, c) ==
    /\ pc' = [pc EXCEPT ![s] = CASE c.k = "Begin" -> "oneway"
                                 [] Sync(c)       -> "waiting"
                                 [] OTHER         -> "idle"]
    /\ call' = [call EXCEPT ![s] = CASE c.k = "Begin" -> Message(c.o, c.t, 1)
                                     [] Sync(c)       -> c
                                     [] OTHER         -> NoCall]
    /\ tx' = [tx EXCEPT ![s] = IF c.k = "Begin" THEN c.t ELSE @]
    /\ sends' = IF c.k = "Message" THEN [sends EXCEPT ![c.t] = c.i] ELSE sends
    /\ UNCHANGED <<life, nextTx, outcome>>

-----------------------------------------------------------------------------
(* What track() does with each command. *)
TrackAddProducer(c) ==
    /\ producers' = With(producers, c.o, NoTx)
    /\ UNCHANGED <<temps, txs, requestMap>>

(* Fault: the producer's state is not handed to its transaction. *)
ForgetsClosedProducer(c) ==
    /\ producers' = Without(producers, c.o)
    /\ UNCHANGED <<temps, txs, requestMap>>

(* The transaction takes over a producer that sent in it, if it is still there. *)
TrackRemoveProducer(c) ==
    /\ producers' = Without(producers, c.o)
    /\ txs' = IF producers[c.o] \in DOMAIN txs
              THEN [txs EXCEPT ![producers[c.o]].prods = @ \cup {c.o}]
              ELSE txs
    /\ UNCHANGED <<temps, requestMap>>

(* A removal is kept like an addition: DestinationInfo visits processDestinationInfo. *)
TrackDest(c) ==
    /\ temps' = Append(temps, c)
    /\ UNCHANGED <<producers, txs, requestMap>>

TrackBegin(c) ==
    /\ txs' = With(txs, c.t, [cmds |-> <<c>>, prods |-> {}])
    /\ UNCHANGED <<producers, temps, requestMap>>

TrackMessage(c) ==
    /\ c.t \in DOMAIN txs /\ c.o \in DOMAIN producers
    /\ txs' = [txs EXCEPT ![c.t].cmds = Append(@, c)]
    /\ producers' = [producers EXCEPT ![c.o] = c.t]
    /\ UNCHANGED <<temps, requestMap>>

(* A commit or rollback waits in the request map to end the tracking. *)
TrackEnd(c) ==
    /\ c.t \in DOMAIN txs
    /\ txs' = [txs EXCEPT ![c.t].cmds = Append(@, c)]
    /\ requestMap' = requestMap \cup {c}
    /\ UNCHANGED <<producers, temps>>

Track(c) ==
    \/ c.k = "AddProducer" /\ TrackAddProducer(c)
    \/ c.k = "RemoveProducer" /\ TrackRemoveProducer(c)
    \/ c.k \in {"AddDest", "RemoveDest"} /\ TrackDest(c)
    \/ c.k = "Begin" /\ TrackBegin(c)
    \/ c.k = "Message" /\ TrackMessage(c)
    \/ c.k \in {"Commit", "Rollback"} /\ TrackEnd(c)

-----------------------------------------------------------------------------
(* FailoverTransport::oneway; every one of these commands is tracked. *)

(* Disconnected: a RemoveInfo is only tracked, it would be stale. *)
OnewayStale(s) ==
    /\ pc[s] = "oneway"
    /\ ~connected /\ rpc = "idle"
    /\ call[s].k = "RemoveProducer"
    /\ Track(call[s])
    /\ Returned(s, call[s])
    /\ UNCHANGED <<connected, runner, alive, breaks, broker>>

(* Sent, and on a broken connection lost without anybody noticing. *)
OnewaySends(s) ==
    /\ pc[s] = "oneway"
    /\ connected
    /\ Track(call[s])
    /\ broker' = IF alive THEN BrokerApply(broker, call[s]) ELSE broker
    /\ Returned(s, call[s])
    /\ UNCHANGED <<connected, runner, alive, breaks>>

(* The send throws: the command is left to the restore and oneway returns. *)
OnewayFails(s) ==
    /\ pc[s] = "oneway"
    /\ connected /\ ~alive
    /\ Track(call[s])
    /\ connected' = FALSE
    /\ Returned(s, call[s])
    /\ UNCHANGED <<runner, alive, breaks, broker>>

-----------------------------------------------------------------------------
(* The network and the readers. *)

(* The broker forgets the connection; responses already read may still be passed on. *)
Break ==
    /\ alive /\ breaks < MaxBreaks
    /\ alive' = FALSE
    /\ breaks' = breaks + 1
    /\ \E kept \in SUBSET broker.out : broker' = Fresh(broker.log, broker.strangers, kept)
    /\ UNCHANGED <<app, tracker, connected, runner>>

(* handleTransportFailure, called by the reader; it needs reconnectMutex. *)
OnException ==
    /\ connected /\ ~alive
    /\ connected' = FALSE
    /\ UNCHANGED <<app, tracker, runner, alive, breaks, broker>>

(* Fault: the exception response of a commit in doubt is not told from an answer. *)
IgnoresException(c, ok) == IF c.k = "Commit" THEN "committed" ELSE "rolledback"

Told(c, ok) ==
    CASE c.k = "Commit"   -> IF ok THEN "committed" ELSE "failed"
      [] c.k = "Rollback" -> IF ok THEN "rolledback" ELSE "failed"

(* processResponse: RemoveTransactionAction runs whatever the answer is. *)
ProcessResponse(c, ok) ==
    /\ requestMap' = requestMap \ {c}
    /\ txs' = IF c \in requestMap THEN Without(txs, c.t) ELSE txs
    /\ UNCHANGED <<producers, temps>>

(* The correlator completes the call that waits for this command, if one does. *)
Complete(c, ok) ==
    LET waiting == {s \in Sessions : pc[s] = "waiting" /\ call[s] = c} IN
    /\ pc' = [s \in Sessions |-> IF s \in waiting THEN "idle" ELSE pc[s]]
    /\ call' = [s \in Sessions |-> IF s \in waiting THEN NoCall ELSE call[s]]
    /\ life' = IF waiting # {} /\ c.k \in {"AddProducer", "AddDest"}
               THEN [life EXCEPT ![c.o] = "open"] ELSE life
    /\ outcome' = IF waiting # {} /\ c.t # NoTx
                  THEN [outcome EXCEPT ![c.t] = Told(c, ok)] ELSE outcome
    /\ UNCHANGED <<tx, nextTx, sends>>

OnResponse ==
    \E r \in broker.out :
        /\ broker' = [broker EXCEPT !.out = @ \ {r}]
        /\ ProcessResponse(r.c, r.ok)
        /\ Complete(r.c, r.ok)
        /\ UNCHANGED <<connected, runner, alive, breaks>>

-----------------------------------------------------------------------------
(* restore(), in the runner's thread, which keeps reconnectMutex. *)

(* Fault: the temporary destinations are restored latest first. *)
RestoresBackwards == Reverse(temps) \o SetToSeq({AddProducer(p) : p \in DOMAIN producers})

(* Temporary destinations and open producers, in the order they are sent. *)
OpenState == temps \o SetToSeq({AddProducer(p) : p \in DOMAIN producers})

(* A new connection.  Sessions wait for the mutex: what OpenState has does not change. *)
Connect ==
    /\ rpc = "idle"
    /\ ~connected
    /\ alive' = TRUE
    /\ rpc' = "open"
    /\ replay' = OpenState
    /\ UNCHANGED <<app, tracker, connected, seen, todo, cur, doubt, breaks, broker>>

(* Sent, and on a connection that broke again lost. *)
SendNext ==
    /\ replay # <<>>
    /\ broker' = IF alive THEN BrokerApply(broker, Head(replay)) ELSE broker
    /\ replay' = Tail(replay)
    /\ UNCHANGED <<app, tracker, connected, rpc, seen, todo, cur, doubt, alive, breaks>>

RestoreOpen == rpc = "open" /\ SendNext

(* doRestoreTransactions takes its iterator. *)
WalkBegins ==
    /\ rpc = "open" /\ replay = <<>>
    /\ rpc' = "transactions"
    /\ seen' = DOMAIN txs
    /\ todo' = DOMAIN txs
    /\ UNCHANGED <<app, tracker, connected, cur, replay, doubt, alive, breaks, broker>>

LastOf(t) == Last(txs[t].cmds)

(* What is sent for a transaction: its closed producers, its commands, the removals. *)
ReplayOf(t) ==
    LET prods == SetToSeq(txs[t].prods) IN
    [j \in 1..Len(prods) |-> AddProducer(prods[j])]
        \o txs[t].cmds
        \o [j \in 1..Len(prods) |-> RemoveProducer(prods[j])]

(* Fault: a commit that may have reached the broker is replayed like the rest. *)
ReplaysCommit(t) ==
    /\ cur' = t
    /\ replay' = ReplayOf(t)
    /\ UNCHANGED doubt

(* A transaction whose last command is a commit is in doubt, the others are replayed. *)
Visit(t) ==
    IF LastOf(t).k = "Commit"
    THEN /\ doubt' = doubt \cup {LastOf(t)}
         /\ UNCHANGED <<cur, replay>>
    ELSE /\ cur' = t
         /\ replay' = ReplayOf(t)
         /\ UNCHANGED doubt

(* A reader has removed a transaction since: the map's iterator notices in next(). *)
Modified == DOMAIN txs # seen

(* Next transaction of the map, which is ordered by id. *)
RestoreTransaction ==
    /\ rpc = "transactions" /\ replay = <<>>
    /\ ~Modified
    /\ \E t \in todo :
        /\ \A u \in todo : t <= u
        /\ todo' = todo \ {t}
        /\ Visit(t)
    /\ UNCHANGED <<app, tracker, connected, rpc, seen, alive, breaks, broker>>

RestoreCommand == rpc = "transactions" /\ cur \in DOMAIN txs /\ SendNext

(* The answer to the transaction came and its lists were cleared under the iterator. *)
RestoreCleared ==
    /\ rpc = "transactions" /\ replay # <<>>
    /\ cur \notin DOMAIN txs
    /\ replay' = <<>>
    /\ UNCHANGED <<app, tracker, connected, rpc, seen, todo, cur, doubt, alive, breaks, broker>>

(***************************************************************************)
(* A send throws, or an iterator does whose list or map was modified: the  *)
(* connection is given up and the next one restored from the start.        *)
(***************************************************************************)
RestoreFails ==
    /\ \/ rpc # "idle" /\ ~alive
       \/ rpc = "transactions" /\ Modified /\ replay = <<>> /\ todo # {}
       \/ rpc = "transactions" /\ replay # <<>> /\ cur \notin DOMAIN txs
    /\ alive' = FALSE
    /\ \E kept \in SUBSET broker.out :
        broker' = IF alive THEN Fresh(broker.log, broker.strangers, kept) ELSE broker
    /\ rpc' = "idle" /\ seen' = {} /\ todo' = {} /\ cur' = NoTx /\ replay' = <<>>
    /\ doubt' = {}
    /\ UNCHANGED <<app, tracker, connected, breaks>>

(* hasNext() is false; where the next entry was erased that is one possible outcome. *)
WalkEnds ==
    /\ rpc = "transactions" /\ replay = <<>>
    /\ todo \cap DOMAIN txs = {}

(* Fault: the commits in doubt are dropped from the tracking and nobody is told. *)
DropsInDoubt ==
    /\ WalkEnds
    /\ \E c \in doubt : doubt' = doubt \ {c} /\ ProcessResponse(c, FALSE)
    /\ todo' = {}
    /\ UNCHANGED <<app, connected, rpc, seen, cur, replay, alive, breaks, broker>>

(* The exception response for a commit in doubt goes the way of a response. *)
AnswerInDoubt ==
    /\ WalkEnds
    /\ \E c \in doubt :
        /\ doubt' = doubt \ {c}
        /\ ProcessResponse(c, FALSE)
        /\ Complete(c, FALSE)
    /\ todo' = {}
    /\ UNCHANGED <<connected, rpc, seen, cur, replay, alive, breaks, broker>>

(* The request map is sent too: what it holds are responses, which a broker ignores. *)
Restored ==
    /\ WalkEnds
    /\ doubt = {}
    /\ rpc' = "idle" /\ seen' = {} /\ todo' = {} /\ cur' = NoTx
    /\ connected' = TRUE
    /\ UNCHANGED <<app, tracker, replay, doubt, alive, breaks, broker>>

-----------------------------------------------------------------------------
App == \E s \in Sessions :
    \/ \E p \in Producers : CreateProducer(s, p) \/ CloseProducer(s, p) \/ Send(s, p)
    \/ \E d \in Dests : CreateTempDestination(s, d) \/ DestroyDestination(s, d)
    \/ CommitTx(s) \/ RollbackTx(s)

Oneway(s) == OnewayStale(s) \/ OnewaySends(s) \/ OnewayFails(s)

Restore ==
    \/ Connect \/ RestoreOpen \/ WalkBegins \/ RestoreTransaction \/ RestoreCommand
    \/ RestoreCleared \/ AnswerInDoubt \/ RestoreFails \/ Restored

Next == App \/ (\E s \in Sessions : Oneway(s)) \/ Break \/ OnException \/ OnResponse \/ Restore

Spec == Init /\ [][Next]_vars

-----------------------------------------------------------------------------
(* The maps of the tracker and of the broker: functions from a part of D to R. *)
IsMap(f, D, R) == DOMAIN f \subseteq D /\ f \in [DOMAIN f -> R]

TxState == [cmds : Seq(Command), prods : SUBSET Producers]

BrokerState(open) ==
    [prods : SUBSET Producers, dests : SUBSET Dests, open : {open},
     log : Seq([t : Txs, msgs : Seq(Nat)]), strangers : SUBSET Command,
     out : SUBSET [c : Command, ok : BOOLEAN]]

(* TypeOK: the sessions, the tracker, the runner and the broker keep values of their types. *)
TypeOK ==
    /\ pc \in [Sessions -> {"idle", "oneway", "waiting"}]
    /\ call \in [Sessions -> Command \cup {NoCall}]
    /\ life \in [Producers \cup Dests -> {"new", "open", "closed"}]
    /\ tx \in [Sessions -> Txs \cup {NoTx}] /\ nextTx \in 1..(MaxTx + 1)
    /\ sends \in [Txs -> 0..MaxSends]
    /\ outcome \in [Txs -> {None, "committed", "failed", "rolledback"}]
    /\ IsMap(producers, Producers, Txs \cup {NoTx}) /\ temps \in Seq(Command)
    /\ IsMap(txs, Txs, TxState) /\ requestMap \subseteq Command
    /\ connected \in BOOLEAN /\ alive \in BOOLEAN /\ breaks \in 0..MaxBreaks
    /\ rpc \in {"idle", "open", "transactions"}
    /\ seen \subseteq Txs /\ todo \subseteq Txs /\ cur \in Txs \cup {NoTx}
    /\ replay \in Seq(Command) /\ doubt \subseteq Command
    /\ broker \in BrokerState(broker.open) /\ IsMap(broker.open, Txs, Seq(Nat))

(***************************************************************************)
(* CommittedWhole: what the broker commits is a whole transaction, every   *)
(* message the application sent in it once and in order, whichever         *)
(* connections the messages went out on, were lost on and were replayed    *)
(* on; and no transaction is committed twice.                              *)
(***************************************************************************)
CommittedWhole ==
    \A j \in DOMAIN broker.log :
        /\ broker.log[j].msgs = [i \in 1..sends[broker.log[j].t] |-> i]
        /\ \A k \in DOMAIN broker.log : broker.log[k].t = broker.log[j].t => k = j

(***************************************************************************)
(* OutcomeTruthful: a commit that returned is at the broker and a rollback *)
(* that returned is not.  (A commit that threw may be either: that is what *)
(* in doubt means.)                                                        *)
(***************************************************************************)
OutcomeTruthful ==
    LET stored == {broker.log[j].t : j \in DOMAIN broker.log} IN
    \A t \in Txs : /\ outcome[t] = "committed" => t \in stored
                   /\ outcome[t] = "rolledback" => t \notin stored

(***************************************************************************)
(* BrokerKnowsSender: no message reaches a broker on a connection that has *)
(* not told it of the message's producer and transaction, although the     *)
(* producer may have been closed, connected or not, before the replay.     *)
(***************************************************************************)
BrokerKnowsSender == broker.strangers = {}

(***************************************************************************)
(* BrokerMirrorsClient: on a connection that works, restored or not, the   *)
(* broker has every producer the application has open, exactly the         *)
(* temporary destinations it has open and, for a transaction that goes on, *)
(* exactly the messages sent in it.  (It may keep a closed producer: when  *)
(* the answer to a replayed rollback comes before the removals are sent,   *)
(* the transaction's list of closed producers is already empty.)           *)
(***************************************************************************)
BrokerMirrorsClient ==
    connected /\ alive =>
        \A s \in Sessions : pc[s] = "idle" =>
            /\ \A p \in Producers : Owner[p] = s /\ life[p] = "open" => p \in broker.prods
            /\ \A d \in Dests : Owner[d] = s => (d \in broker.dests <=> life[d] = "open")
            /\ tx[s] # NoTx =>
                  /\ tx[s] \in DOMAIN broker.open
                  /\ broker.open[tx[s]] = [i \in 1..sends[tx[s]] |-> i]

(***************************************************************************)
(* NoCallStranded: on a connection that works, a call that waits has its   *)
(* response on the way, whatever was lost before: the restore sent the     *)
(* command again with its old id, or answered it.                          *)
(***************************************************************************)
NoCallStranded ==
    connected /\ alive =>
        \A s \in Sessions : pc[s] = "waiting" => \E r \in broker.out : r.c = call[s]
=============================================================================
