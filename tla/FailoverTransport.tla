------------------------- MODULE FailoverTransport -------------------------
(***************************************************************************)
(* The failover transport (activemq/transport/failover): callers hand it   *)
(* commands, it keeps the ones that still need an answer, and when the     *)
(* connection breaks its task runner thread connects again and replays     *)
(* them on the new connection.                                             *)
(*                                                                         *)
(* Almost everything happens under reconnectMutex.  A call of oneway gives *)
(* it up only in its wait for a connection, so each piece between waits is *)
(* one step; iterate() keeps it while it connects and replays, and is cut  *)
(* into steps because readers, which do not need it to hand over a         *)
(* response, go on meanwhile.  Connections are numbered as they are made;  *)
(* each has a reader thread that reports the failure of its connection.    *)
(*                                                                         *)
(* The task runner is CompositeTaskRunner, which runs a task that has work *)
(* (EveryTaskGetsItsTurn): here its thread takes any task that is pending. *)
(* Backups are disabled, as they are by default.                           *)
(***************************************************************************)
EXTENDS Integers, Sequences, SequencesExt, FiniteSets

CONSTANTS Commands,             \* each is sent by one call of oneway, in a thread of its own
          Kind,                 \* [Commands -> Kinds]
          NumURIs,              \* brokers in the URI pool
          MaxReconnectAttempts, \* maxReconnectAttempts, -1 for no limit
          MaxTransports,        \* bound on the number of connections made
          MaxRebalances,        \* bound on the rebalance requests brokers send
          MaxCalls              \* bound on the calls of oneway

Kinds == {"request",   \* not tracked, wants a response
          "oneway",    \* not tracked, wants none
          "state",     \* tracked, restored from the state tracker (ConsumerInfo, ...)
          "ack",       \* not tracked, wants a response, answered locally when disconnected
          "shutdown"}  \* ShutdownInfo

ASSUME FailoverAssumption ==
    /\ Kind \in [Commands -> Kinds]
    /\ NumURIs \in Nat \ {0}
    /\ MaxReconnectAttempts \in Nat \cup {-1}
    /\ MaxTransports \in Nat /\ MaxRebalances \in Nat /\ MaxCalls \in Nat

Transports == 1..MaxTransports
NoTransport == 0
Free == "free"
Runner == "runner"

Untracked == {c \in Commands : Kind[c] # "state"}
WantsResponse == {c \in Commands : Kind[c] \in {"request", "state", "ack"}}

VARIABLES
    started, closed, shutdown, firstConnection, connectionFailure, doRebalance,
                     \* the members of FailoverTransportImpl
    connectFailures, \* failed rounds since the last connection
    connected,       \* connectedTransport
    requestMap,      \* commands to replay
    tracked,         \* commands the state tracker restores
    holder,          \* who keeps reconnectMutex between steps
    opc,             \* where each call of oneway is
    rpc,             \* where the task runner's thread is
    rt,              \* the connection it is working on
    urisLeft,        \* URIs this round of iterate() has not tried
    replay,          \* commands restoreTransport has still to send
    closing,         \* connections given to the close task
    kpc,             \* where the thread that calls close is
    toStop,          \* the connection close took
    up,              \* connections that work
    reader,          \* what the reader thread of each connection is doing
    muted,           \* connections whose reader may not report any more
    next,            \* number of connections made
    rebalances,      \* rebalance requests received
    sent,            \* history: what the broker got on each connection, in order
    answered         \* history: commands whose response was passed on

flags == <<started, closed, shutdown, firstConnection, connectionFailure, doRebalance,
           connectFailures>>
net   == <<up, reader, muted, next, rebalances>>
run   == <<rpc, rt, urisLeft, replay>>
vars  == <<flags, connected, requestMap, tracked, holder, opc, run, closing, kpc, toStop,
           net, sent, answered>>

Init ==
    /\ started = FALSE /\ closed = FALSE /\ shutdown = FALSE
    /\ firstConnection = TRUE /\ connectionFailure = FALSE /\ doRebalance = FALSE
    /\ connectFailures = 0
    /\ connected = NoTransport
    /\ requestMap = {} /\ tracked = {}
    /\ holder = Free
    /\ opc = [c \in Commands |-> "idle"]
    /\ rpc = "idle" /\ rt = NoTransport /\ urisLeft = 0 /\ replay = {}
    /\ closing = {}
    /\ kpc = "idle" /\ toStop = NoTransport
    /\ up = {} /\ muted = {} /\ next = 0 /\ rebalances = 0
    /\ reader = [t \in Transports |-> "none"]
    /\ sent = [t \in Transports |-> <<>>]
    /\ answered = {}

-----------------------------------------------------------------------------
(* calculateReconnectAttemptLimit, with startupMaxReconnectAttempts not set *)
ReconnectLimit == MaxReconnectAttempts
CanReconnect == started /\ ReconnectLimit # 0
WillReconnect == firstConnection \/ ReconnectLimit # 0
IsClosedOrFailed == closed \/ connectionFailure
IsConnectionStateValid == connected # NoTransport /\ ~doRebalance

IsPending ==
    /\ ~IsConnectionStateValid /\ started /\ ~IsClosedOrFailed
    /\ \/ firstConnection /\ connectFailures = 0
       \/ ReconnectLimit = -1
       \/ connectFailures <= ReconnectLimit

(* handleTransportFailure: it does not know whose failure it is told of. *)
HandleTransportFailure ==
    IF shutdown \/ connected = NoTransport
    THEN UNCHANGED <<connected, closing, connectionFailure>>
    ELSE /\ connected' = NoTransport
         /\ closing' = closing \cup {connected}
         /\ connectionFailure' = (connectionFailure \/ (~CanReconnect /\ ~closed))

-----------------------------------------------------------------------------
(* The application. *)
Start ==
    /\ holder = Free
    /\ ~started
    /\ started' = TRUE
    /\ UNCHANGED <<closed, shutdown, firstConnection, connectionFailure, doRebalance,
                   connectFailures, connected, requestMap, tracked, holder, opc, run, closing,
                   kpc, toStop, net, sent, answered>>

Oneway(c) ==
    /\ opc[c] = "idle"
    /\ Cardinality({d \in Commands : opc[d] # "idle"}) < MaxCalls
    /\ opc' = [opc EXCEPT ![c] = "called"]
    /\ UNCHANGED <<flags, connected, requestMap, tracked, holder, run, closing, kpc, toStop,
                   net, sent, answered>>

(* Disconnected: ShutdownInfo is dropped and an acknowledgement is answered here. *)
OnewayShortcut(c) ==
    /\ holder = Free
    /\ opc[c] = "called"
    /\ connected = NoTransport
    /\ Kind[c] \in {"shutdown", "ack"}
    /\ answered' = IF Kind[c] = "ack" THEN answered \cup {c} ELSE answered
    /\ opc' = [opc EXCEPT ![c] = "returned"]
    /\ UNCHANGED <<flags, connected, requestMap, tracked, holder, run, closing, kpc, toStop,
                   net, sent>>

(* The caller is in the loop: it may send, wait or give up. *)
InLoop(c) ==
    /\ holder = Free
    /\ \/ opc[c] = "waiting"
       \/ opc[c] = "called" /\ (connected # NoTransport \/ Kind[c] \notin {"shutdown", "ack"})

OnewayWaits(c) ==
    /\ InLoop(c)
    /\ opc[c] = "called"
    /\ connected = NoTransport
    /\ ~IsClosedOrFailed /\ WillReconnect
    /\ opc' = [opc EXCEPT ![c] = "waiting"]
    /\ UNCHANGED <<flags, connected, requestMap, tracked, holder, run, closing, kpc, toStop,
                   net, sent, answered>>

(* A closed transport swallows the command, without an exception. *)
OnewayClosed(c) ==
    /\ InLoop(c)
    /\ closed
    /\ opc' = [opc EXCEPT ![c] = "dropped"]
    /\ UNCHANGED <<flags, connected, requestMap, tracked, holder, run, closing, kpc, toStop,
                   net, sent, answered>>

OnewayThrows(c) ==
    /\ InLoop(c)
    /\ ~closed
    /\ connected = NoTransport
    /\ connectionFailure \/ ~WillReconnect
    /\ opc' = [opc EXCEPT ![c] = "threw"]
    /\ UNCHANGED <<flags, connected, requestMap, tracked, holder, run, closing, kpc, toStop,
                   net, sent, answered>>

(* What the transport remembers of a command before it sends it. *)
Track(c) ==
    /\ tracked' = IF c \in Untracked THEN tracked ELSE tracked \cup {c}
    /\ requestMap' = IF c \in Untracked \cap WantsResponse THEN requestMap \cup {c}
                                                          ELSE requestMap

(* The command gets out; on a broken connection it may vanish unnoticed. *)
OnewaySends(c) ==
    /\ InLoop(c)
    /\ ~closed
    /\ connected # NoTransport
    /\ Track(c)
    /\ sent' = IF connected \in up THEN [sent EXCEPT ![connected] = Append(@, c)] ELSE sent
    /\ shutdown' = (shutdown \/ Kind[c] = "shutdown")
    /\ opc' = [opc EXCEPT ![c] = "returned"]
    /\ UNCHANGED <<started, closed, firstConnection, connectionFailure, doRebalance,
                   connectFailures, connected, holder, run, closing, kpc, toStop, net,
                   answered>>

(* Fault: the command that will be sent again stays in the request map. *)
RetryKeepsRequest(c) ==
    /\ InLoop(c)
    /\ ~closed
    /\ connected # NoTransport /\ connected \notin up
    /\ c \in Untracked /\ CanReconnect
    /\ requestMap' = IF c \in WantsResponse THEN requestMap \cup {c} ELSE requestMap
    /\ HandleTransportFailure
    /\ opc' = [opc EXCEPT ![c] = "waiting"]
    /\ UNCHANGED <<started, closed, shutdown, firstConnection, doRebalance, connectFailures,
                   tracked, holder, run, kpc, toStop, net, sent, answered>>

(***************************************************************************)
(* The send throws and the call will try again: the request map forgets    *)
(* the command.  After ShutdownInfo the failure is ignored and the broken  *)
(* connection stays: the call goes round its loop without giving up the    *)
(* mutex, and nothing it tests can change while it holds the mutex.        *)
(***************************************************************************)
OnewayRetries(c) ==
    /\ InLoop(c)
    /\ ~closed
    /\ connected # NoTransport /\ connected \notin up
    /\ c \in Untracked /\ CanReconnect
    /\ requestMap' = requestMap \ {c}
    /\ HandleTransportFailure
    /\ opc' = [opc EXCEPT ![c] = IF shutdown THEN "spinning" ELSE "waiting"]
    /\ holder' = IF shutdown THEN c ELSE Free
    /\ UNCHANGED <<started, closed, shutdown, firstConnection, doRebalance, connectFailures,
                   tracked, run, kpc, toStop, net, sent, answered>>

(* The send throws and the call leaves the command to the replay, or to the failure. *)
OnewayLeaves(c) ==
    /\ InLoop(c)
    /\ ~closed
    /\ connected # NoTransport /\ connected \notin up
    /\ ~(c \in Untracked /\ CanReconnect)
    /\ Track(c)
    /\ HandleTransportFailure
    /\ opc' = [opc EXCEPT ![c] = "returned"]
    /\ UNCHANGED <<started, closed, shutdown, firstConnection, doRebalance, connectFailures,
                   holder, run, kpc, toStop, net, sent, answered>>

OnewayStep(c) ==
    \/ OnewayShortcut(c) \/ OnewayWaits(c) \/ OnewayClosed(c) \/ OnewayThrows(c)
    \/ OnewaySends(c) \/ OnewayRetries(c) \/ OnewayLeaves(c)

-----------------------------------------------------------------------------
(* The network and the readers. *)
Break(t) ==
    /\ t \in up
    /\ up' = up \ {t}
    /\ UNCHANGED <<flags, connected, requestMap, tracked, holder, opc, run, closing, kpc,
                   toStop, reader, muted, next, rebalances, sent, answered>>

(***************************************************************************)
(* processResponse: needs the request map's own lock only.  The broker may *)
(* have answered before the connection broke.  What the connection does    *)
(* with a command in the reader's thread is InterruptionRecovery's.        *)
(***************************************************************************)
OnResponse(t, c) ==
    /\ reader[t] = "reading" /\ t \notin muted
    /\ c \in WantsResponse /\ c \in ToSet(sent[t]) /\ c \notin answered
    /\ requestMap' = requestMap \ {c}
    /\ answered' = answered \cup {c}
    /\ UNCHANGED <<flags, connected, tracked, holder, opc, run, closing, kpc, toStop, net,
                   sent>>

(* A ConnectionControl from the broker asks for a rebalance. *)
OnRebalance(t) ==
    /\ holder = Free
    /\ rebalances < MaxRebalances
    /\ t \in up
    /\ reader[t] = "reading" /\ t \notin muted
    /\ started
    /\ doRebalance' = TRUE
    /\ rebalances' = rebalances + 1
    /\ UNCHANGED <<started, closed, shutdown, firstConnection, connectionFailure,
                   connectFailures, connected, requestMap, tracked, holder, opc, run, closing,
                   kpc, toStop, up, reader, muted, next, sent, answered>>

(* The reader sees the failure and enters onException ... *)
ReaderFails(t) ==
    /\ reader[t] = "reading"
    /\ t \notin up
    /\ reader' = [reader EXCEPT ![t] = IF t \in muted THEN "gone" ELSE "firing"]
    /\ UNCHANGED <<flags, connected, requestMap, tracked, holder, opc, run, closing, kpc,
                   toStop, up, muted, next, rebalances, sent, answered>>

(* ... which waits for reconnectMutex unless ShutdownInfo was sent. *)
OnException(t) ==
    /\ reader[t] = "firing"
    /\ holder = Free \/ shutdown
    /\ HandleTransportFailure
    /\ reader' = [reader EXCEPT ![t] = "gone"]
    /\ UNCHANGED <<started, closed, shutdown, firstConnection, doRebalance, connectFailures,
                   requestMap, tracked, holder, opc, run, kpc, toStop, up, muted, next,
                   rebalances, sent, answered>>

-----------------------------------------------------------------------------
(* iterate() of the failover transport, in the task runner's thread. *)
BeginRound ==
    /\ rpc' = "connect"
    /\ urisLeft' = NumURIs
    /\ holder' = Runner
    /\ UNCHANGED <<rt, replay>>

(* No rebalance asked for: try to connect. *)
Iterate ==
    /\ rpc = "idle" /\ holder = Free
    /\ IsPending /\ ~doRebalance
    /\ BeginRound
    /\ UNCHANGED <<flags, connected, requestMap, tracked, opc, closing, kpc, toStop, net, sent,
                   answered>>

(* Rebalance, already connected to the first broker of the list. *)
RebalanceNotNeeded ==
    /\ rpc = "idle" /\ holder = Free
    /\ IsPending /\ doRebalance /\ connected # NoTransport
    /\ doRebalance' = FALSE
    /\ UNCHANGED <<started, closed, shutdown, firstConnection, connectionFailure,
                   connectFailures, connected, requestMap, tracked, holder, opc, run, closing,
                   kpc, toStop, net, sent, answered>>

(* Rebalance away from another broker: disconnect, then connect. *)
RebalanceDisconnects ==
    /\ rpc = "idle" /\ holder = Free
    /\ IsPending /\ doRebalance /\ connected # NoTransport
    /\ doRebalance' = FALSE
    /\ closing' = closing \cup {connected}
    /\ connected' = NoTransport
    /\ BeginRound
    /\ UNCHANGED <<started, closed, shutdown, firstConnection, connectionFailure,
                   connectFailures, requestMap, tracked, opc, kpc, toStop, net, sent,
                   answered>>

(***************************************************************************)
(* Rebalance when the connection is already lost: connectedTransportURI is *)
(* null, its dereference throws out of iterate(), and the runner's thread  *)
(* ends (CompositeTaskRunner's RunTaskThrows).                             *)
(***************************************************************************)
RebalanceKillsRunner ==
    /\ rpc = "idle" /\ holder = Free
    /\ IsPending /\ doRebalance /\ connected = NoTransport
    /\ rpc' = "dead"
    /\ UNCHANGED <<flags, connected, requestMap, tracked, holder, opc, rt, urisLeft, replay,
                   closing, kpc, toStop, net, sent, answered>>

(* One URI of the list: its broker does not answer, ... *)
ConnectFails ==
    /\ rpc = "connect"
    /\ urisLeft > 0
    /\ urisLeft' = urisLeft - 1
    /\ UNCHANGED <<flags, connected, requestMap, tracked, holder, opc, rpc, rt, replay, closing,
                   kpc, toStop, net, sent, answered>>

(* ... or a connection is made and its reader started. *)
Connect ==
    /\ rpc = "connect"
    /\ urisLeft > 0
    /\ next < MaxTransports
    /\ next' = next + 1
    /\ rt' = next + 1
    /\ up' = up \cup {next + 1}
    /\ reader' = [reader EXCEPT ![next + 1] = "reading"]
    /\ rpc' = IF firstConnection THEN "establish" ELSE "restore"
    /\ UNCHANGED <<flags, connected, requestMap, tracked, holder, opc, urisLeft, replay,
                   closing, kpc, toStop, muted, rebalances, sent, answered>>

(* restoreTransport: the tracked state, then a copy of the request map ... *)
Restore ==
    /\ rpc = "restore"
    /\ sent' = IF rt \in up THEN [sent EXCEPT ![rt] = @ \o SetToSeq(tracked)] ELSE sent
    /\ replay' = requestMap
    /\ rpc' = "replay"
    /\ UNCHANGED <<flags, connected, requestMap, tracked, holder, opc, rt, urisLeft, closing,
                   kpc, toStop, net, answered>>

(* ... that is sent one by one. *)
Replay(c) ==
    /\ rpc = "replay"
    /\ c \in replay
    /\ replay' = replay \ {c}
    /\ sent' = IF rt \in up THEN [sent EXCEPT ![rt] = Append(@, c)] ELSE sent
    /\ UNCHANGED <<flags, connected, requestMap, tracked, holder, opc, rpc, rt, urisLeft,
                   closing, kpc, toStop, net, answered>>

(* A send of the replay throws: the connection is stopped and closed, the next URI tried. *)
ReplayThrows ==
    /\ rpc \in {"restore", "replay"}
    /\ rt \notin up
    /\ muted' = muted \cup {rt}
    /\ closing' = closing \cup {rt}
    /\ rt' = NoTransport
    /\ replay' = {}
    /\ urisLeft' = urisLeft - 1
    /\ rpc' = "connect"
    /\ UNCHANGED <<flags, connected, requestMap, tracked, holder, opc, kpc, toStop, up, reader,
                   next, rebalances, sent, answered>>

(* Fault: the connection is announced while commands are still to be replayed. *)
EstablishEarly ==
    /\ rpc \in {"establish", "replay"}
    /\ connected' = rt
    /\ connectFailures' = 0
    /\ firstConnection' = FALSE
    /\ holder' = Free
    /\ rpc' = "idle" /\ rt' = NoTransport /\ replay' = {}
    /\ UNCHANGED <<started, closed, shutdown, connectionFailure, doRebalance, requestMap,
                   tracked, opc, urisLeft, closing, kpc, toStop, net, sent, answered>>

Establish ==
    /\ rpc = "establish" \/ (rpc = "replay" /\ replay = {})
    /\ connected' = rt
    /\ connectFailures' = 0
    /\ firstConnection' = FALSE
    /\ holder' = Free
    /\ rpc' = "idle" /\ rt' = NoTransport
    /\ UNCHANGED <<started, closed, shutdown, connectionFailure, doRebalance, requestMap,
                   tracked, opc, urisLeft, replay, closing, kpc, toStop, net, sent, answered>>

(* Fault: the limit is tested before the failure is counted, and never reached. *)
RoundFailsUncounted ==
    /\ rpc = "connect"
    /\ urisLeft = 0
    /\ holder' = Free
    /\ rpc' = "idle"
    /\ UNCHANGED <<flags, connected, requestMap, tracked, opc, rt, urisLeft, replay, closing,
                   kpc, toStop, net, sent, answered>>

(* All URIs tried: the round counts as one failed attempt when there is a limit. *)
RoundFails ==
    /\ rpc = "connect"
    /\ urisLeft = 0
    /\ connectFailures' = IF ReconnectLimit = -1 THEN connectFailures ELSE connectFailures + 1
    /\ connectionFailure' = (ReconnectLimit # -1 /\ connectFailures + 1 > ReconnectLimit)
    /\ holder' = Free
    /\ rpc' = "idle"
    /\ UNCHANGED <<started, closed, shutdown, firstConnection, doRebalance, connected,
                   requestMap, tracked, opc, rt, urisLeft, replay, closing, kpc, toStop, net,
                   sent, answered>>

(* The close task: close() silences the connection, breaks it and joins its reader. *)
CloseTask(t) ==
    /\ rpc \in {"idle", "closing"}
    /\ t \in closing
    /\ closing' = closing \ {t}
    /\ muted' = muted \cup {t}
    /\ up' = up \ {t}
    /\ rt' = t
    /\ rpc' = "joining"
    /\ UNCHANGED <<flags, connected, requestMap, tracked, holder, opc, urisLeft, replay, kpc,
                   toStop, reader, next, rebalances, sent, answered>>

(* It goes on until there is nothing left to close. *)
CloseTaskJoins ==
    /\ rpc = "joining"
    /\ reader[rt] = "gone"
    /\ rpc' = IF closing # {} THEN "closing"
              ELSE IF kpc \in {"stop", "done"} THEN "dead" ELSE "idle"
    /\ rt' = NoTransport
    /\ UNCHANGED <<flags, connected, requestMap, tracked, holder, opc, urisLeft, replay,
                   closing, kpc, toStop, net, sent, answered>>

RunnerStep ==
    \/ Iterate \/ RebalanceNotNeeded \/ RebalanceDisconnects \/ RebalanceKillsRunner
    \/ ConnectFails \/ Connect \/ Restore \/ (\E c \in Commands : Replay(c)) \/ ReplayThrows
    \/ Establish \/ RoundFails \/ (\E t \in Transports : CloseTask(t)) \/ CloseTaskJoins

-----------------------------------------------------------------------------
CloseCalled ==
    /\ kpc = "idle"
    /\ kpc' = "lock"
    /\ UNCHANGED <<flags, connected, requestMap, tracked, holder, opc, run, closing, toStop,
                   net, sent, answered>>

(* close(), the part under the mutex. *)
Close ==
    /\ kpc = "lock" /\ holder = Free
    /\ started' = FALSE /\ closed' = TRUE
    /\ requestMap' = {}
    /\ toStop' = connected
    /\ connected' = NoTransport
    /\ kpc' = "shutdown"
    /\ UNCHANGED <<shutdown, firstConnection, connectionFailure, doRebalance, connectFailures,
                   tracked, holder, opc, run, closing, net, sent, answered>>

(* Fault: close joins the reader of a connection it has not closed. *)
CloseLeavesStreamOpen ==
    /\ kpc = "shutdown"
    /\ rpc \in {"idle", "dead"}
    /\ rpc' = "dead"
    /\ kpc' = IF toStop = NoTransport THEN "done" ELSE "stop"
    /\ muted' = muted \cup {toStop}
    /\ UNCHANGED <<flags, connected, requestMap, tracked, holder, opc, rt, urisLeft, replay,
                   closing, toStop, up, reader, next, rebalances, sent, answered>>

(* The runner is shut down: its thread ends between two tasks. *)
CloseJoinsRunner ==
    /\ kpc = "shutdown"
    /\ rpc \in {"idle", "dead"}
    /\ rpc' = "dead"
    /\ kpc' = IF toStop = NoTransport THEN "done" ELSE "stop"
    /\ muted' = muted \cup {toStop}
    /\ up' = up \ {toStop}
    /\ UNCHANGED <<flags, connected, requestMap, tracked, holder, opc, rt, urisLeft, replay,
                   closing, toStop, reader, next, rebalances, sent, answered>>

(* close waits five minutes for a runner that is at its close task, not longer. *)
CloseTimesOut ==
    /\ kpc = "shutdown"
    /\ rpc \notin {"idle", "dead"}
    /\ kpc' = IF toStop = NoTransport THEN "done" ELSE "stop"
    /\ muted' = muted \cup {toStop}
    /\ up' = up \ {toStop}
    /\ UNCHANGED <<flags, connected, requestMap, tracked, holder, opc, run, closing, toStop,
                   reader, next, rebalances, sent, answered>>

(* The connection it took is closed and its reader joined. *)
CloseJoinsReader ==
    /\ kpc = "stop"
    /\ reader[toStop] = "gone"
    /\ kpc' = "done"
    /\ UNCHANGED <<flags, connected, requestMap, tracked, holder, opc, run, closing, toStop,
                   net, sent, answered>>

CloseStep == Close \/ CloseJoinsRunner \/ CloseTimesOut \/ CloseJoinsReader

Next ==
    \/ Start \/ CloseCalled \/ CloseStep
    \/ \E c \in Commands : Oneway(c) \/ OnewayStep(c)
    \/ \E t \in Transports :
          \/ Break(t) \/ OnRebalance(t) \/ ReaderFails(t) \/ OnException(t)
          \/ \E c \in Commands : OnResponse(t, c)
    \/ RunnerStep

(***************************************************************************)
(* The runner, the thread that calls close and the readers go on when they *)
(* can.  Brokers need not answer, connections need not break, nobody has   *)
(* to call, and a call of oneway need not go on.                           *)
(***************************************************************************)
Fairness ==
    /\ WF_vars(RunnerStep)
    /\ WF_vars(CloseStep)
    /\ \A t \in Transports : WF_vars(ReaderFails(t) \/ OnException(t))

Spec     == Init /\ [][Next]_vars
FairSpec == Spec /\ Fairness

-----------------------------------------------------------------------------
(* Every variable of the transport has its type. *)
TypeOK ==
    /\ started \in BOOLEAN /\ closed \in BOOLEAN /\ shutdown \in BOOLEAN
    /\ firstConnection \in BOOLEAN /\ connectionFailure \in BOOLEAN /\ doRebalance \in BOOLEAN
    /\ connectFailures \in Nat
    /\ connected \in Transports \cup {NoTransport}
    /\ requestMap \in SUBSET Commands /\ tracked \in SUBSET Commands
    /\ holder \in Commands \cup {Free, Runner}
    /\ opc \in [Commands -> {"idle", "called", "waiting", "spinning", "returned", "dropped",
                             "threw"}]
    /\ rpc \in {"idle", "connect", "restore", "replay", "establish", "joining", "closing",
               "dead"}
    /\ rt \in Transports \cup {NoTransport}
    /\ urisLeft \in 0..NumURIs
    /\ replay \in SUBSET Commands
    /\ closing \in SUBSET Transports
    /\ kpc \in {"idle", "lock", "shutdown", "stop", "done"}
    /\ toStop \in Transports \cup {NoTransport}
    /\ up \in SUBSET Transports
    /\ reader \in [Transports -> {"none", "reading", "firing", "gone"}]
    /\ muted \in SUBSET (Transports \cup {NoTransport})
    /\ next \in 0..MaxTransports /\ rebalances \in 0..MaxRebalances
    /\ sent \in [Transports -> Seq(Commands)]
    /\ answered \in SUBSET Commands

(***************************************************************************)
(* "since we will retry in this method.. take it out of the request map so *)
(* that it is not sent 2 times on recovery" (comment in oneway): a broker  *)
(* connection carries no command twice.                                    *)
(***************************************************************************)
NotSentTwice ==
    \A t \in Transports : \A i, j \in DOMAIN sent[t] : sent[t][i] = sent[t][j] => i = j

(***************************************************************************)
(* Over a working connection every command that oneway took and that still *)
(* wants a response has been sent: whatever failures came before, its      *)
(* answer can come.                                                        *)
(***************************************************************************)
NoRequestForgotten ==
    connected \in up =>
        \A c \in WantsResponse :
            opc[c] = "returned" /\ c \notin answered => c \in ToSet(sent[connected])

(***************************************************************************)
(* A started transport that lost its connection gets another, or reports   *)
(* the failure, or is closed: reconnect "indicates that the Transport      *)
(* needs to reconnect to another URI in its list" (FailoverTransport.h).   *)
(* Excepted: a rebalance that was asked for on the connection that is lost *)
(* ends the runner's thread (RebalanceKillsRunner), and nothing reconnects *)
(* any more.  (The readers here call nothing but onException; one that is  *)
(* inside oneway when the close task joins it is another case, see         *)
(* InterruptionRecovery.)                                                  *)
(***************************************************************************)
ReconnectsOrFails ==
    started /\ connected = NoTransport
        ~> connected # NoTransport \/ connectionFailure \/ closed \/ rpc = "dead"

(***************************************************************************)
(* close comes back whatever else is going on: calls that wait for a       *)
(* connection, a round of iterate() or the close task in the runner's      *)
(* thread, readers on their way into onException, connections that break   *)
(* before or after ShutdownInfo was sent.  The one exception: a call whose *)
(* send fails after ShutdownInfo spins with reconnectMutex held            *)
(* (OnewayRetries), although the comment in handleTransportFailure says    *)
(* "let the close do the work".                                            *)
(***************************************************************************)
CloseReturns ==
    kpc = "lock" ~> kpc = "done" \/ \E c \in Commands : opc[c] = "spinning"

=============================================================================
