-------------------- MODULE ConnectionStateTrackerProofs --------------------
(***************************************************************************)
(* Proofs about ConnectionStateTracker: the safety properties of its run,  *)
(* for any number of sessions, producers, destinations, transactions,      *)
(* messages and broken connections.                                        *)
(*                                                                         *)
(* The inductive invariant relates the two ends of the connection through  *)
(* what is still to be restored.  The client's side says what the tracker  *)
(* keeps of each session.  The connection's side says that on a connection *)
(* that works each thing the tracker keeps is at the broker, or is left in *)
(* the restore, and how far the replay of a transaction has come.          *)
(***************************************************************************)
EXTENDS ConnectionStateTracker, TLAPS, SequenceTheorems, FiniteSetTheorems

-----------------------------------------------------------------------------
(* Who uses a transaction, and who has ended it. *)
EndKinds == {"Commit", "Rollback"}
Uses(s, t) == tx[s] = t \/ call[s].t = t
InTx(s, t) == tx[s] = t \/ (call[s].k \in EndKinds /\ call[s].t = t)
Ending(s) == pc[s] = "waiting" /\ call[s].k \in EndKinds
Waits(s, c) == pc[s] = "waiting" /\ call[s] = c

(* A session is in the part of its call that fits the state of its context. *)
Calls ==
    \A s \in Sessions :
        /\ pc[s] = "idle" <=> call[s] = NoCall
        /\ pc[s] = "waiting" => Sync(call[s])
        /\ call[s].o \in Producers \cup Dests /\ call[s] # NoCall /\ call[s].k \notin EndKinds
              => Owner[call[s].o] = s
        /\ call[s].k = "Begin" =>
              life[call[s].o] = "open" /\ tx[s] = NoTx /\ sends[call[s].t] = 0
        /\ call[s].k = "Message" =>
              /\ life[call[s].o] = "open" /\ tx[s] = call[s].t
              /\ call[s].i = sends[call[s].t] + 1
        /\ call[s].k \in EndKinds => tx[s] = NoTx

(* A transaction is used by one session, until its outcome is told. *)
OneUser ==
    \A t \in Txs :
        /\ \A s, r \in Sessions : Uses(s, t) /\ Uses(r, t) => s = r
        /\ \A s \in Sessions : Uses(s, t) => t < nextTx /\ outcome[t] = None
        /\ t >= nextTx => sends[t] = 0 /\ outcome[t] = None

(* The commands kept of a transaction: begin, its messages, its end if that is on the way. *)
Kept(t) ==
    LET cs == txs[t].cmds IN
    /\ cs[1].k = "Begin" /\ cs[1].t = t
    /\ \A i \in 1..sends[t] : cs[i + 1].k = "Message" /\ cs[i + 1].t = t /\ cs[i + 1].i = i
    /\ \/ Len(cs) = sends[t] + 1 /\ \A s \in Sessions : Ending(s) => call[s].t # t
       \/ Len(cs) = sends[t] + 2 /\ \E s \in Sessions : Ending(s) /\ call[s].t = t /\ call[s] = cs[sends[t] + 2]

(* The tracker has the transactions that sessions are in, and the ends on their way. *)
TrackedTx ==
    /\ \A t \in Txs : t \in DOMAIN txs <=> \E s \in Sessions : InTx(s, t)
    /\ \A t \in DOMAIN txs : Kept(t)
    /\ requestMap = {call[s] : s \in {r \in Sessions : Ending(r)}}

(* An open producer is tracked, one that a transaction took over is closed. *)
ProdLife ==
    /\ \A p \in Producers :
        /\ life[p] = "open" => p \in DOMAIN producers
        /\ life[p] = "new" => (p \in DOMAIN producers <=> Waits(Owner[p], AddProducer(p)))
        /\ call[Owner[p]] = AddProducer(p) => life[p] = "new"
        /\ call[Owner[p]] = RemoveProducer(p) => life[p] = "closed" /\ p \in DOMAIN producers
    /\ \A t \in DOMAIN txs : \A p \in txs[t].prods : life[p] = "closed" /\ p \notin DOMAIN producers

(* The producers of a transaction's messages can be made known before them. *)
Senders ==
    \A t \in DOMAIN txs : \A i \in 1..sends[t] :
        LET p == txs[t].cmds[i + 1].o IN
        /\ p \in txs[t].prods \/ (p \in DOMAIN producers /\ producers[p] = t)
        /\ \A s \in Sessions : InTx(s, t) => Owner[p] = s

(* What was done with a temporary destination, in the order it was done. *)
DestLife ==
    /\ \A i \in DOMAIN temps : temps[i].k \in {"AddDest", "RemoveDest"}
    /\ \A d \in Dests :
        /\ AddDest(d) \in ToSet(temps) <=> life[d] # "new" \/ Waits(Owner[d], AddDest(d))
        /\ RemoveDest(d) \in ToSet(temps) <=>
              life[d] = "closed" /\ ~(pc[Owner[d]] = "oneway" /\ call[Owner[d]] = RemoveDest(d))
        /\ call[Owner[d]] = AddDest(d) => life[d] = "new"
        /\ call[Owner[d]] = RemoveDest(d) => life[d] = "closed"
        /\ \A i, j \in DOMAIN temps : temps[i] = AddDest(d) /\ temps[j] = RemoveDest(d) => i < j

(* The client's side: sessions, context and tracker. *)
Client == Calls /\ OneUser /\ TrackedTx /\ ProdLife /\ Senders /\ DestLife

(* Only a commit stores, and who made it is told so or may not know. *)
Stored == {broker.log[j].t : j \in DOMAIN broker.log}

Log ==
    /\ CommittedWhole
    /\ \A t \in Stored : outcome[t] \in {"committed", "failed"} \/ \E s \in Sessions : Waits(s, Commit(t))
    /\ \A t \in Txs : outcome[t] = "committed" => t \in Stored
    /\ \A r \in broker.out : r.c.k = "Commit" /\ r.ok => r.c.t \in Stored

(* The flags of the transport and of its runner fit. *)
Conn ==
    /\ rpc # "idle" => ~connected
    /\ ~connected /\ rpc = "idle" => ~alive
    /\ ~alive => broker.prods = {} /\ broker.dests = {} /\ DOMAIN broker.open = {}
    /\ rpc = "idle" => replay = <<>>
    /\ rpc # "transactions" => todo = {} /\ doubt = {}
    /\ todo \subseteq seen
    /\ \A c \in doubt : c.k = "Commit"

(* What the restore has still to send of what is open. *)
Rest == IF rpc = "open" THEN ToSet(replay) ELSE {}
(* A response to c is on its way. *)
Answered(c) == \E r \in broker.out : r.c = c

(* What is open has been sent on the connection that works, or is still to be restored. *)
OpenSent ==
    alive =>
        /\ \A p \in DOMAIN producers : p \in broker.prods \/ AddProducer(p) \in Rest
        /\ \A d \in Dests :
            /\ AddDest(d) \in ToSet(temps) =>
                  d \in broker.dests \/ AddDest(d) \in Rest \/ RemoveDest(d) \in ToSet(temps)
            /\ d \in broker.dests =>
                  /\ AddDest(d) \in ToSet(temps)
                  /\ RemoveDest(d) \in ToSet(temps) => RemoveDest(d) \in Rest
        /\ \A s \in Sessions : pc[s] = "waiting" /\ ~Ending(s) => Answered(call[s]) \/ call[s] \in Rest

(* Destinations are restored in the order of temps: no addition after its removal. *)
OpenReplay ==
    rpc = "open" =>
        \A i \in DOMAIN replay :
            /\ replay[i].k \in {"AddProducer", "AddDest", "RemoveDest"}
            /\ replay[i].k # "AddProducer" => replay[i] \in ToSet(temps)
            /\ replay[i].k = "AddDest" /\ RemoveDest(replay[i].o) \in ToSet(temps) =>
                  \E j \in DOMAIN replay : j > i /\ replay[j] = RemoveDest(replay[i].o)

(* The broker has all of the transaction, or its end is answered. *)
Settled(t) ==
    /\ Len(txs[t].cmds) = sends[t] + 1 =>
          t \in DOMAIN broker.open /\ broker.open[t] = [i \in 1..sends[t] |-> i]
    /\ Len(txs[t].cmds) = sends[t] + 2 => LastOf(t) \in doubt \/ Answered(LastOf(t))

(* Every tracked transaction is settled, being replayed, or still to come. *)
TxSent ==
    alive /\ rpc # "open" =>
        \A t \in DOMAIN txs : t \in todo \/ (t = cur /\ replay # <<>>) \/ Settled(t)

(* What is left of the replay of a transaction, and what the broker has got of it. *)
Left(t, k) ==
    /\ Len(replay) = Len(ReplayOf(t)) - k
    /\ \A j \in 1..Len(replay) : replay[j] = ReplayOf(t)[k + j]

Reached(t, k) ==
    LET a == Len(SetToSeq(txs[t].prods))
        n == Len(txs[t].cmds)
    IN  /\ k <= a + n => \A j \in 1..a : j <= k => SetToSeq(txs[t].prods)[j] \in broker.prods
        /\ k > a /\ k <= a + sends[t] + 1 =>
              t \in DOMAIN broker.open /\ broker.open[t] = [i \in 1..(k - a - 1) |-> i]
        /\ k >= a + n => Settled(t)

Progress(t, k) == Left(t, k) /\ (alive => Reached(t, k))

(* The replay in progress: never of a commit, and with something reached. *)
TxReplay ==
    rpc = "transactions" /\ replay # <<>> /\ cur \in DOMAIN txs =>
        /\ LastOf(cur).k # "Commit"
        /\ \E k \in 0..Len(ReplayOf(cur)) : Progress(cur, k)

(* The broker's side: what was stored, what the connection has seen, what is left to send. *)
ConnectionSide == Log /\ Conn /\ OpenSent /\ OpenReplay /\ TxSent /\ TxReplay /\ BrokerKnowsSender

(* The inductive invariant. *)
IInv == TypeOK /\ Client /\ ConnectionSide

-----------------------------------------------------------------------------
(* Commands, maps and the broker's state *)

(* The kinds of commands and what each carries. *)
LEMMA CommandKinds ==
    ASSUME NEW c \in Command
    PROVE  /\ c.k \in {"AddProducer", "RemoveProducer"} => c.o \in Producers /\ c.t = NoTx /\ c.i = 0
           /\ c.k \in {"AddDest", "RemoveDest"} => c.o \in Dests /\ c.t = NoTx /\ c.i = 0
           /\ c.k = "Begin" => c.o \in Producers /\ c.t \in Txs /\ c.i = 0
           /\ c.k = "Message" => c.o \in Producers /\ c.t \in Txs /\ c.i \in 1..MaxSends
           /\ c.k \in EndKinds => c.o = None /\ c.t \in Txs /\ c.i = 0
           /\ c.k \in {"AddProducer", "RemoveProducer", "AddDest", "RemoveDest", "Begin",
                       "Message"} \cup EndKinds
           /\ c = Cmd(c.k, c.o, c.t, c.i)
  BY DEF Command, EndKinds, Cmd

(* And what makes a command. *)
LEMMA CommandsMade ==
    /\ \A p \in Producers : AddProducer(p) \in Command /\ RemoveProducer(p) \in Command
    /\ \A d \in Dests : AddDest(d) \in Command /\ RemoveDest(d) \in Command
    /\ \A p \in Producers, t \in Txs : Begin(p, t) \in Command
    /\ \A p \in Producers, t \in Txs, i \in 1..MaxSends : Message(p, t, i) \in Command
    /\ \A t \in Txs : Commit(t) \in Command /\ Rollback(t) \in Command
  BY DEF Command, AddProducer, RemoveProducer, AddDest, RemoveDest, Begin, Message, Commit,
         Rollback, Cmd

(* A command is its kind and what it carries. *)
LEMMA CommandNames ==
    ASSUME NEW c \in Command
    PROVE  /\ c.k = "AddProducer" => c = AddProducer(c.o)
           /\ c.k = "RemoveProducer" => c = RemoveProducer(c.o)
           /\ c.k = "AddDest" => c = AddDest(c.o)
           /\ c.k = "RemoveDest" => c = RemoveDest(c.o)
           /\ c.k = "Begin" => c = Begin(c.o, c.t)
           /\ c.k = "Message" => c = Message(c.o, c.t, c.i)
           /\ c.k = "Commit" => c = Commit(c.t)
           /\ c.k = "Rollback" => c = Rollback(c.t)
  BY CommandKinds DEF AddProducer, RemoveProducer, AddDest, RemoveDest, Begin, Message, Commit,
         Rollback, EndKinds

(* The call of a session that is idle. *)
LEMMA NoCallFields == NoCall.k = "None" /\ NoCall.t = NoTx /\ NoCall.o = None /\ NoCall \notin Command
<1>1. NoCall.k = "None" /\ NoCall.t = NoTx /\ NoCall.o = None
  BY DEF NoCall, Cmd
<1> QED
  BY <1>1, CommandKinds DEF EndKinds

(* Taking out of a map. *)
LEMMA WithoutMap ==
    ASSUME NEW D, NEW R, NEW f, IsMap(f, D, R), NEW x
    PROVE  /\ IsMap(Without(f, x), D, R)
           /\ DOMAIN Without(f, x) = DOMAIN f \ {x}
           /\ \A y \in DOMAIN f : y # x => Without(f, x)[y] = f[y]
  BY DEF IsMap, Without

(* A broker's state from its parts. *)
Parts(prods, dests, open, log, strangers, out) ==
    [prods |-> prods, dests |-> dests, open |-> open, log |-> log, strangers |-> strangers,
     out |-> out]

(* A broker's state of the right type. *)
BrokerOK(b) == b \in BrokerState(b.open) /\ IsMap(b.open, Txs, Seq(Nat))

(* The answer to a command, if somebody made the call. *)
Reply(c, ok) == IF \E s \in Sessions : call[s] = c THEN {[c |-> c, ok |-> ok]} ELSE {}

(* A broker of the right type, part by part. *)
LEMMA PartsOf ==
    ASSUME NEW b, BrokerOK(b)
    PROVE  /\ b = Parts(b.prods, b.dests, b.open, b.log, b.strangers, b.out)
           /\ b.prods \subseteq Producers /\ b.dests \subseteq Dests
           /\ IsMap(b.open, Txs, Seq(Nat)) /\ b.log \in Seq([t : Txs, msgs : Seq(Nat)])
           /\ b.strangers \subseteq Command /\ b.out \subseteq [c : Command, ok : BOOLEAN]
  BY DEF BrokerOK, BrokerState, Parts

(* A reply is an answer to the command, and there is one if somebody made the call. *)
LEMMA ReplyOK ==
    ASSUME NEW c \in Command, NEW ok \in BOOLEAN
    PROVE  /\ Reply(c, ok) \subseteq [c : Command, ok : BOOLEAN]
           /\ \A r \in Reply(c, ok) : r.c = c /\ r.ok = ok
           /\ (\E s \in Sessions : call[s] = c) => \E r \in Reply(c, ok) : r.c = c
<1>1. CASE \E s \in Sessions : call[s] = c
  <2>1. Reply(c, ok) = {[c |-> c, ok |-> ok]}
    BY <1>1 DEF Reply
  <2> QED
    BY <2>1
<1>2. CASE ~ \E s \in Sessions : call[s] = c
  BY <1>2 DEF Reply
<1> QED
  BY <1>1, <1>2

(* What the broker makes of each command. *)
LEMMA ApplyProducer ==
    ASSUME NEW b, BrokerOK(b), NEW p
    PROVE  /\ BrokerApply(b, AddProducer(p)) =
                 Parts(b.prods \cup {p}, b.dests, b.open, b.log, b.strangers,
                       b.out \cup Reply(AddProducer(p), TRUE))
           /\ BrokerApply(b, RemoveProducer(p)) =
                 Parts(b.prods \ {p}, b.dests, b.open, b.log, b.strangers, b.out)
<1>1. PICK q, d, o, l, g, u : b = Parts(q, d, o, l, g, u)
  BY PartsOf
<1>2. AddProducer(p).k = "AddProducer" /\ AddProducer(p).o = p
  BY DEF AddProducer, Cmd
<1>3. RemoveProducer(p).k = "RemoveProducer" /\ RemoveProducer(p).o = p
  BY DEF RemoveProducer, Cmd
<1>4. BrokerApply(b, AddProducer(p)) = Answer([b EXCEPT !.prods = @ \cup {p}], AddProducer(p), TRUE)
  BY <1>2 DEF BrokerApply
<1>5. [b EXCEPT !.prods = @ \cup {p}] = Parts(q \cup {p}, d, o, l, g, u)
  BY <1>1 DEF Parts
<1>6. BrokerApply(b, RemoveProducer(p)) = [b EXCEPT !.prods = @ \ {p}]
  BY <1>3 DEF BrokerApply
<1>7. [b EXCEPT !.prods = @ \ {p}] = Parts(q \ {p}, d, o, l, g, u)
  BY <1>1 DEF Parts
<1>8. b.prods = q /\ b.dests = d /\ b.open = o /\ b.log = l /\ b.strangers = g /\ b.out = u
  BY <1>1 DEF Parts
<1>9. Answer(Parts(q \cup {p}, d, o, l, g, u), AddProducer(p), TRUE) =
         Parts(q \cup {p}, d, o, l, g, u \cup Reply(AddProducer(p), TRUE))
  BY DEF Answer, Parts, Reply
<1> QED
  BY <1>4, <1>5, <1>6, <1>7, <1>8, <1>9, Zenon

(* Temporary destinations. *)
LEMMA ApplyDest ==
    ASSUME NEW b, BrokerOK(b), NEW x
    PROVE  /\ BrokerApply(b, AddDest(x)) =
                 Parts(b.prods, b.dests \cup {x}, b.open, b.log, b.strangers,
                       b.out \cup Reply(AddDest(x), TRUE))
           /\ BrokerApply(b, RemoveDest(x)) =
                 Parts(b.prods, b.dests \ {x}, b.open, b.log, b.strangers,
                       b.out \cup Reply(RemoveDest(x), TRUE))
<1>1. PICK q, d, o, l, g, u : b = Parts(q, d, o, l, g, u)
  BY PartsOf
<1>2. AddDest(x).k = "AddDest" /\ AddDest(x).o = x
  BY DEF AddDest, Cmd
<1>3. RemoveDest(x).k = "RemoveDest" /\ RemoveDest(x).o = x
  BY DEF RemoveDest, Cmd
<1>4. BrokerApply(b, AddDest(x)) = Answer([b EXCEPT !.dests = @ \cup {x}], AddDest(x), TRUE)
  BY <1>2 DEF BrokerApply
<1>5. [b EXCEPT !.dests = @ \cup {x}] = Parts(q, d \cup {x}, o, l, g, u)
  BY <1>1 DEF Parts
<1>6. BrokerApply(b, RemoveDest(x)) = Answer([b EXCEPT !.dests = @ \ {x}], RemoveDest(x), TRUE)
  BY <1>3 DEF BrokerApply
<1>7. [b EXCEPT !.dests = @ \ {x}] = Parts(q, d \ {x}, o, l, g, u)
  BY <1>1 DEF Parts
<1>8. b.prods = q /\ b.dests = d /\ b.open = o /\ b.log = l /\ b.strangers = g /\ b.out = u
  BY <1>1 DEF Parts
<1>9. /\ Answer(Parts(q, d \cup {x}, o, l, g, u), AddDest(x), TRUE) =
            Parts(q, d \cup {x}, o, l, g, u \cup Reply(AddDest(x), TRUE))
      /\ Answer(Parts(q, d \ {x}, o, l, g, u), RemoveDest(x), TRUE) =
            Parts(q, d \ {x}, o, l, g, u \cup Reply(RemoveDest(x), TRUE))
  BY DEF Answer, Parts, Reply
<1> QED
  BY <1>4, <1>5, <1>6, <1>7, <1>8, <1>9, Zenon

(* The begin, and a message whose producer and transaction are known. *)
LEMMA ApplySend ==
    ASSUME NEW b, BrokerOK(b), NEW p, NEW t, NEW i
    PROVE  /\ BrokerApply(b, Begin(p, t)) =
                 Parts(b.prods, b.dests, With(b.open, t, <<>>), b.log, b.strangers, b.out)
           /\ p \in b.prods /\ t \in DOMAIN b.open =>
                 BrokerApply(b, Message(p, t, i)) =
                     Parts(b.prods, b.dests, [b.open EXCEPT ![t] = Append(@, i)], b.log,
                           b.strangers, b.out)
<1>1. PICK q, d, o, l, g, u : b = Parts(q, d, o, l, g, u)
  BY PartsOf
<1>2. Begin(p, t).k = "Begin" /\ Begin(p, t).t = t
  BY DEF Begin, Cmd
<1>3. Message(p, t, i).k = "Message" /\ Message(p, t, i).o = p /\ Message(p, t, i).t = t
      /\ Message(p, t, i).i = i
  BY DEF Message, Cmd
<1>4. BrokerApply(b, Begin(p, t)) = [b EXCEPT !.open = With(@, t, <<>>)]
  BY <1>2 DEF BrokerApply
<1>5. [b EXCEPT !.open = With(@, t, <<>>)] = Parts(q, d, With(o, t, <<>>), l, g, u)
  BY <1>1 DEF Parts
<1>6. p \in b.prods /\ t \in DOMAIN b.open =>
         BrokerApply(b, Message(p, t, i)) = [b EXCEPT !.open[t] = Append(@, i)]
  BY <1>3 DEF BrokerApply
<1>7. [b EXCEPT !.open[t] = Append(@, i)] = Parts(q, d, [o EXCEPT ![t] = Append(@, i)], l, g, u)
  BY <1>1, SMTT(60) DEF Parts
<1>8. b.prods = q /\ b.dests = d /\ b.open = o /\ b.log = l /\ b.strangers = g /\ b.out = u
  BY <1>1 DEF Parts
<1> QED
  BY <1>4, <1>5, <1>6, <1>7, <1>8

(* Commit and rollback. *)
LEMMA ApplyEnd ==
    ASSUME NEW b, BrokerOK(b), NEW t
    PROVE  /\ t \in DOMAIN b.open =>
                 BrokerApply(b, Commit(t)) =
                     Parts(b.prods, b.dests, Without(b.open, t),
                           Append(b.log, [t |-> t, msgs |-> b.open[t]]), b.strangers,
                           b.out \cup Reply(Commit(t), TRUE))
           /\ BrokerApply(b, Rollback(t)) =
                 Parts(b.prods, b.dests, Without(b.open, t), b.log, b.strangers,
                       b.out \cup Reply(Rollback(t), t \in DOMAIN b.open))
<1>1. PICK q, d, o, l, g, u : b = Parts(q, d, o, l, g, u)
  BY PartsOf
<1>2. Commit(t).k = "Commit" /\ Commit(t).t = t
  BY DEF Commit, Cmd
<1>3. Rollback(t).k = "Rollback" /\ Rollback(t).t = t
  BY DEF Rollback, Cmd
<1>4. t \in DOMAIN b.open => BrokerApply(b, Commit(t)) =
         Answer([b EXCEPT !.log = Append(@, [t |-> t, msgs |-> b.open[t]]),
                          !.open = Without(@, t)], Commit(t), TRUE)
  BY <1>2 DEF BrokerApply
<1>5. [b EXCEPT !.log = Append(@, [t |-> t, msgs |-> b.open[t]]), !.open = Without(@, t)] =
         Parts(q, d, Without(o, t), Append(l, [t |-> t, msgs |-> o[t]]), g, u)
  <2>1. PICK m, w : m = Append(l, [t |-> t, msgs |-> o[t]]) /\ w = Without(o, t)
    OBVIOUS
  <2>2. b.open = o /\ b.log = l
    BY <1>1 DEF Parts
  <2>3. [b EXCEPT !.log = m, !.open = w] = Parts(q, d, w, m, g, u)
    <3>1. b = [prods |-> q, dests |-> d, open |-> o, log |-> l, strangers |-> g, out |-> u]
      BY <1>1 DEF Parts
    <3>2. [b EXCEPT !.log = m, !.open = w] = [[b EXCEPT !.log = m] EXCEPT !.open = w]
      OBVIOUS
    <3>3. [b EXCEPT !.log = m] = Parts(q, d, o, m, g, u)
      BY <3>1 DEF Parts
    <3>4. [Parts(q, d, o, m, g, u) EXCEPT !.open = w] = Parts(q, d, w, m, g, u)
      BY DEF Parts
    <3> QED
      BY <3>2, <3>3, <3>4
  <2> QED
    BY <2>1, <2>2, <2>3, Zenon
<1>6. BrokerApply(b, Rollback(t)) =
         Answer([b EXCEPT !.open = Without(@, t)], Rollback(t), t \in DOMAIN b.open)
  BY <1>3 DEF BrokerApply
<1>7. [b EXCEPT !.open = Without(@, t)] = Parts(q, d, Without(o, t), l, g, u)
  BY <1>1 DEF Parts
<1>8. b.prods = q /\ b.dests = d /\ b.open = o /\ b.log = l /\ b.strangers = g /\ b.out = u
  BY <1>1 DEF Parts
<1>9. /\ Answer(Parts(q, d, Without(o, t), Append(l, [t |-> t, msgs |-> o[t]]), g, u), Commit(t), TRUE)
            = Parts(q, d, Without(o, t), Append(l, [t |-> t, msgs |-> o[t]]), g, u \cup Reply(Commit(t), TRUE))
      /\ Answer(Parts(q, d, Without(o, t), l, g, u), Rollback(t), t \in DOMAIN b.open)
            = Parts(q, d, Without(o, t), l, g, u \cup Reply(Rollback(t), t \in DOMAIN b.open))
  BY DEF Answer, Parts, Reply
<1> QED
  BY <1>4, <1>5, <1>6, <1>7, <1>8, <1>9, Zenon

(* The broker's state after a command, part by part. *)
Becomes(b, prods, dests, open, log, strangers, out) ==
    /\ BrokerOK(b)
    /\ b.prods = prods /\ b.dests = dests /\ b.open = open /\ b.log = log
    /\ b.strangers = strangers /\ b.out = out

(* Parts of the right types make a broker. *)
LEMMA PartsBecome ==
    ASSUME NEW p, NEW d, NEW o, NEW l, NEW g, NEW u, p \subseteq Producers, d \subseteq Dests,
           IsMap(o, Txs, Seq(Nat)), l \in Seq([t : Txs, msgs : Seq(Nat)]),
           g \subseteq Command, u \subseteq [c : Command, ok : BOOLEAN],
           NEW b, b = Parts(p, d, o, l, g, u)
    PROVE  Becomes(b, p, d, o, l, g, u)
  BY DEF Becomes, BrokerOK, BrokerState, Parts

(* BrokerApply, command by command. *)
LEMMA AppliedAddProducer ==
    ASSUME NEW b, BrokerOK(b), NEW p \in Producers
    PROVE  Becomes(BrokerApply(b, AddProducer(p)), b.prods \cup {p}, b.dests, b.open, b.log,
                   b.strangers, b.out \cup Reply(AddProducer(p), TRUE))
<1>1. b.out \cup Reply(AddProducer(p), TRUE) \subseteq [c : Command, ok : BOOLEAN]
  BY CommandsMade, ReplyOK, PartsOf
<1>2. b.prods \cup {p} \subseteq Producers
  BY PartsOf
<1>3. BrokerApply(b, AddProducer(p)) =
         Parts(b.prods \cup {p}, b.dests, b.open, b.log, b.strangers,
               b.out \cup Reply(AddProducer(p), TRUE))
  BY ApplyProducer
<1> QED
  BY <1>1, <1>2, <1>3, PartsOf, PartsBecome

(* RemoveInfo of a producer. *)
LEMMA AppliedRemoveProducer ==
    ASSUME NEW b, BrokerOK(b), NEW p \in Producers
    PROVE  Becomes(BrokerApply(b, RemoveProducer(p)), b.prods \ {p}, b.dests, b.open, b.log,
                   b.strangers, b.out)
<1>1. b.prods \ {p} \subseteq Producers
  BY PartsOf
<1> QED
  BY <1>1, ApplyProducer, PartsOf, PartsBecome

(* A temporary destination is added. *)
LEMMA AppliedAddDest ==
    ASSUME NEW b, BrokerOK(b), NEW d \in Dests
    PROVE  Becomes(BrokerApply(b, AddDest(d)), b.prods, b.dests \cup {d}, b.open, b.log,
                   b.strangers, b.out \cup Reply(AddDest(d), TRUE))
<1>1. b.out \cup Reply(AddDest(d), TRUE) \subseteq [c : Command, ok : BOOLEAN]
  BY CommandsMade, ReplyOK, PartsOf
<1>2. b.dests \cup {d} \subseteq Dests
  BY PartsOf
<1> QED
  BY <1>1, <1>2, ApplyDest, PartsOf, PartsBecome

(* And removed. *)
LEMMA AppliedRemoveDest ==
    ASSUME NEW b, BrokerOK(b), NEW d \in Dests
    PROVE  Becomes(BrokerApply(b, RemoveDest(d)), b.prods, b.dests \ {d}, b.open, b.log,
                   b.strangers, b.out \cup Reply(RemoveDest(d), TRUE))
<1>1. b.out \cup Reply(RemoveDest(d), TRUE) \subseteq [c : Command, ok : BOOLEAN]
  BY CommandsMade, ReplyOK, PartsOf
<1>2. b.dests \ {d} \subseteq Dests
  BY PartsOf
<1> QED
  BY <1>1, <1>2, ApplyDest, PartsOf, PartsBecome

(* A transaction begins with no messages. *)
LEMMA AppliedBegin ==
    ASSUME NEW b, BrokerOK(b), NEW p, NEW t \in Txs
    PROVE  /\ Becomes(BrokerApply(b, Begin(p, t)), b.prods, b.dests, With(b.open, t, <<>>), b.log,
                      b.strangers, b.out)
           /\ DOMAIN With(b.open, t, <<>>) = DOMAIN b.open \cup {t}
           /\ With(b.open, t, <<>>)[t] = <<>>
           /\ \A u \in DOMAIN b.open : u # t => With(b.open, t, <<>>)[u] = b.open[u]
<1> DEFINE o == With(b.open, t, <<>>)
<1>1. IsMap(b.open, Txs, Seq(Nat)) /\ <<>> \in Seq(Nat)
  BY PartsOf
<1>2. /\ IsMap(o, Txs, Seq(Nat)) /\ DOMAIN o = DOMAIN b.open \cup {t} /\ o[t] = <<>>
      /\ \A u \in DOMAIN b.open : u # t => o[u] = b.open[u]
  BY <1>1 DEF IsMap, With
<1>3. BrokerApply(b, Begin(p, t)) = Parts(b.prods, b.dests, o, b.log, b.strangers, b.out)
  BY ApplySend
<1> HIDE DEF o
<1>4. Becomes(BrokerApply(b, Begin(p, t)), b.prods, b.dests, o, b.log, b.strangers, b.out)
  BY <1>2, <1>3, PartsOf, PartsBecome
<1> QED
  BY <1>2, <1>4 DEF o

(* A message goes to the end of its transaction. *)
LEMMA AppliedMessage ==
    ASSUME NEW b, BrokerOK(b), NEW p \in b.prods, NEW t \in DOMAIN b.open, NEW i \in Nat
    PROVE  Becomes(BrokerApply(b, Message(p, t, i)), b.prods, b.dests,
                   [b.open EXCEPT ![t] = Append(b.open[t], i)], b.log, b.strangers, b.out)
<1>1. IsMap(b.open, Txs, Seq(Nat)) /\ b.open[t] \in Seq(Nat)
  BY PartsOf DEF IsMap
<1>2. Append(b.open[t], i) \in Seq(Nat)
  BY <1>1
<1>3. PICK v \in Seq(Nat) : v = Append(b.open[t], i)
  BY <1>2
<1>4. IsMap([b.open EXCEPT ![t] = v], Txs, Seq(Nat))
  BY <1>1 DEF IsMap
<1>5. BrokerApply(b, Message(p, t, i)) =
         Parts(b.prods, b.dests, [b.open EXCEPT ![t] = v], b.log, b.strangers, b.out)
  <2>1. [b.open EXCEPT ![t] = Append(@, i)] = [b.open EXCEPT ![t] = v]
    BY <1>3
  <2> QED
    BY <2>1, ApplySend
<1>6. Becomes(BrokerApply(b, Message(p, t, i)), b.prods, b.dests, [b.open EXCEPT ![t] = v],
              b.log, b.strangers, b.out)
  BY <1>4, <1>5, PartsOf, PartsBecome
<1> QED
  BY <1>3, <1>6, Zenon

(* A commit stores what the transaction has. *)
LEMMA AppliedCommit ==
    ASSUME NEW b, BrokerOK(b), NEW t \in DOMAIN b.open
    PROVE  Becomes(BrokerApply(b, Commit(t)), b.prods, b.dests, Without(b.open, t),
                   Append(b.log, [t |-> t, msgs |-> b.open[t]]), b.strangers,
                   b.out \cup Reply(Commit(t), TRUE))
<1>1. IsMap(b.open, Txs, Seq(Nat)) /\ b.open[t] \in Seq(Nat) /\ t \in Txs
  BY PartsOf DEF IsMap
<1>2. IsMap(Without(b.open, t), Txs, Seq(Nat))
  BY <1>1, WithoutMap
<1>3. [t |-> t, msgs |-> b.open[t]] \in [t : Txs, msgs : Seq(Nat)]
  BY <1>1
<1>4. Append(b.log, [t |-> t, msgs |-> b.open[t]]) \in Seq([t : Txs, msgs : Seq(Nat)])
  BY <1>3, PartsOf, AppendProperties
<1>5. b.out \cup Reply(Commit(t), TRUE) \subseteq [c : Command, ok : BOOLEAN]
  BY <1>1, CommandsMade, ReplyOK, PartsOf
<1> QED
  BY <1>2, <1>4, <1>5, ApplyEnd, PartsOf, PartsBecome

(* A rollback drops it, and says whether there was one. *)
LEMMA AppliedRollback ==
    ASSUME NEW b, BrokerOK(b), NEW t \in Txs
    PROVE  \E ok \in BOOLEAN :
               Becomes(BrokerApply(b, Rollback(t)), b.prods, b.dests, Without(b.open, t), b.log,
                       b.strangers, b.out \cup Reply(Rollback(t), ok))
<1>1. IsMap(b.open, Txs, Seq(Nat))
  BY PartsOf
<1>2. IsMap(Without(b.open, t), Txs, Seq(Nat))
  BY <1>1, WithoutMap
<1>3. \A ok \in BOOLEAN : b.out \cup Reply(Rollback(t), ok) \subseteq [c : Command, ok : BOOLEAN]
  BY CommandsMade, ReplyOK, PartsOf
<1>4. ASSUME NEW ok \in BOOLEAN,
             BrokerApply(b, Rollback(t)) =
                 Parts(b.prods, b.dests, Without(b.open, t), b.log, b.strangers,
                       b.out \cup Reply(Rollback(t), ok))
      PROVE  Becomes(BrokerApply(b, Rollback(t)), b.prods, b.dests, Without(b.open, t), b.log,
                     b.strangers, b.out \cup Reply(Rollback(t), ok))
  BY <1>2, <1>3, <1>4, PartsOf, PartsBecome
<1>5. BrokerApply(b, Rollback(t)) =
         Parts(b.prods, b.dests, Without(b.open, t), b.log, b.strangers,
               b.out \cup Reply(Rollback(t), t \in DOMAIN b.open))
  BY ApplyEnd
<1>6. CASE t \in DOMAIN b.open
  <2>1. Reply(Rollback(t), t \in DOMAIN b.open) = Reply(Rollback(t), TRUE)
    <3>1. (t \in DOMAIN b.open) = TRUE
      BY <1>6
    <3> QED
      BY <3>1, Zenon
  <2> QED
    BY <1>4, <1>5, <2>1
<1>7. CASE t \notin DOMAIN b.open
  <2>1. Reply(Rollback(t), t \in DOMAIN b.open) = Reply(Rollback(t), FALSE)
    <3>1. (t \in DOMAIN b.open) = FALSE
      BY <1>7
    <3> QED
      BY <3>1, Zenon
  <2> QED
    BY <1>4, <1>5, <2>1
<1> QED
  BY <1>6, <1>7

-----------------------------------------------------------------------------
(* The application's calls *)

(* A call begins in one session; the others, the tracker and the connection stay. *)
LEMMA CallBegins ==
    ASSUME TypeOK, NEW s \in Sessions, NEW c \in Command, Call(s, c)
    PROVE  /\ pc[s] = "idle" /\ pc'[s] = "oneway" /\ call'[s] = c
           /\ \A r \in Sessions : r # s => pc'[r] = pc[r] /\ call'[r] = call[r]
           /\ pc' \in [Sessions -> {"idle", "oneway", "waiting"}]
           /\ call' \in [Sessions -> Command \cup {NoCall}]
           /\ UNCHANGED <<producers, temps, txs, requestMap, connected, rpc, seen, todo, cur, replay,
                          doubt, alive, breaks, broker>>
  BY DEF TypeOK, Call, tracker, runner

(* Transactions are used and tracked as before, by the same sessions. *)
SameUse ==
    /\ \A r \in Sessions, t \in Txs : InTx(r, t)' <=> InTx(r, t)
    /\ \A r \in Sessions : (Ending(r)' <=> Ending(r)) /\ (Ending(r) => call'[r] = call[r])
    /\ sends' = sends

(* Every call but the begin leaves the use of the transactions as it is. *)
LEMMA CallSameUse ==
    ASSUME TypeOK, Calls, NEW s \in Sessions, NEW c \in Command, Call(s, c), sends' = sends,
           \/ tx' = tx /\ c.k \notin EndKinds
           \/ /\ tx[s] # NoTx /\ tx' = [tx EXCEPT ![s] = NoTx]
              /\ c.k \in EndKinds /\ c.t = tx[s]
    PROVE  SameUse
<1>1. /\ pc[s] = "idle" /\ pc'[s] = "oneway" /\ call'[s] = c
      /\ \A r \in Sessions : r # s => pc'[r] = pc[r] /\ call'[r] = call[r]
  BY CallBegins
<1>2. call[s] = NoCall
  BY <1>1 DEF Calls
<1>3. call[s].k \notin EndKinds
  BY <1>2, NoCallFields DEF EndKinds
<1>4. tx \in [Sessions -> Txs \cup {NoTx}]
  BY DEF TypeOK
<1>5. \A t \in Txs : t # NoTx
  BY DEF Txs, NoTx
<1>6. ASSUME NEW r \in Sessions, NEW t \in Txs PROVE InTx(r, t)' <=> InTx(r, t)
  <2>1. CASE r # s
    <3>1. tx'[r] = tx[r]
      BY <2>1, <1>4
    <3> QED
      BY <3>1, <2>1, <1>1 DEF InTx
  <2>2. CASE r = s
    <3>1. CASE tx' = tx /\ c.k \notin EndKinds
      BY <3>1, <2>2, <1>1, <1>3 DEF InTx
    <3>2. CASE /\ tx[s] # NoTx /\ tx' = [tx EXCEPT ![s] = NoTx]
               /\ c.k \in EndKinds /\ c.t = tx[s]
      <4>1. tx'[s] = NoTx
        BY <3>2, <1>4
      <4> QED
        BY <4>1, <3>2, <2>2, <1>1, <1>3, <1>5 DEF InTx
    <3> QED
      BY <3>1, <3>2
  <2> QED
    BY <2>1, <2>2
<1>7. \A r \in Sessions : (Ending(r)' <=> Ending(r)) /\ (Ending(r) => call'[r] = call[r])
  BY <1>1 DEF Ending
<1> QED
  BY <1>6, <1>7 DEF SameUse

(* Then what is tracked of the transactions is still right. *)
LEMMA SameUseTracked ==
    ASSUME TypeOK, TrackedTx, SameUse, requestMap' = requestMap, DOMAIN txs' = DOMAIN txs,
           \A t \in DOMAIN txs : txs'[t].cmds = txs[t].cmds
    PROVE  TrackedTx'
<1>1. \A t \in Txs : t \in DOMAIN txs' <=> \E r \in Sessions : InTx(r, t)'
  BY DEF TrackedTx, SameUse
<1>2. requestMap' = {call'[r] : r \in {q \in Sessions : Ending(q)'}}
  <2>1. {q \in Sessions : Ending(q)'} = {q \in Sessions : Ending(q)}
    BY DEF SameUse
  <2>2. {call'[r] : r \in {q \in Sessions : Ending(q)}} = {call[r] : r \in {q \in Sessions : Ending(q)}}
    BY DEF SameUse
  <2> QED
    BY <2>1, <2>2 DEF TrackedTx
<1>3. ASSUME NEW t \in DOMAIN txs PROVE Kept(t)'
  <2>1. Kept(t) /\ txs'[t].cmds = txs[t].cmds /\ sends' = sends
    BY DEF TrackedTx, SameUse
  <2> QED
    BY <2>1 DEF Kept, SameUse
<1> QED
  BY <1>1, <1>2, <1>3 DEF TrackedTx

(* And so are their senders. *)
LEMMA SameUseSenders ==
    ASSUME TypeOK, Senders, SameUse, UNCHANGED <<txs, producers>>
    PROVE  Senders'
<1>1. DOMAIN txs \subseteq Txs
  BY DEF TypeOK, IsMap
<1> QED
  BY <1>1 DEF Senders, SameUse

(* A call that begins changes nothing about the connection and what was sent on it. *)
LEMMA CallConnection ==
    ASSUME TypeOK, ConnectionSide, NEW s \in Sessions, NEW c \in Command, Call(s, c), SameUse,
           outcome' = outcome
    PROVE  ConnectionSide'
<1>1. /\ pc[s] = "idle" /\ pc'[s] = "oneway" /\ call'[s] = c
      /\ \A r \in Sessions : r # s => pc'[r] = pc[r] /\ call'[r] = call[r]
      /\ UNCHANGED <<producers, temps, txs, requestMap, connected, rpc, seen, todo, cur, replay,
                     doubt, alive, breaks, broker>>
  BY CallBegins
<1>2. \A r \in Sessions : pc'[r] = "waiting" <=> pc[r] = "waiting"
  BY <1>1
<1>3. \A r \in Sessions : pc[r] = "waiting" => call'[r] = call[r]
  BY <1>1
<1>4. sends' = sends
  BY DEF SameUse
<1>5. \A r \in Sessions : \A x : Waits(r, x)' <=> Waits(r, x)
  BY <1>2, <1>3 DEF Waits
<1>6. Log'
  <2>1. CommittedWhole'
    BY <1>1, <1>4 DEF ConnectionSide, Log, CommittedWhole
  <2>2. Stored' = Stored
    BY <1>1 DEF Stored
  <2>3. \A t \in Stored : outcome'[t] \in {"committed", "failed"} \/ \E r \in Sessions : Waits(r, Commit(t))'
    BY <1>5 DEF ConnectionSide, Log
  <2> QED
    BY <2>1, <2>2, <2>3, <1>1 DEF ConnectionSide, Log
<1>7. Conn'
  BY <1>1 DEF ConnectionSide, Conn
<1>8. OpenSent'
  BY <1>1, <1>2, <1>3 DEF ConnectionSide, OpenSent, Rest, Answered, Ending
<1>9. OpenReplay'
  BY <1>1 DEF ConnectionSide, OpenReplay
<1>10. \A t : Settled(t)' <=> Settled(t)
  BY <1>1, <1>4 DEF Settled, Answered, LastOf
<1>11. TxSent'
  BY <1>1, <1>10 DEF ConnectionSide, TxSent
<1>12. TxReplay'
  <2>1. ASSUME NEW t, NEW k PROVE Progress(t, k)' <=> Progress(t, k)
    <3>1. ReplayOf(t)' = ReplayOf(t)
      BY <1>1 DEF ReplayOf
    <3>2. Settled(t)' <=> Settled(t)
      BY <1>10
    <3> QED
      BY <1>1, <1>4, <3>1, <3>2 DEF Progress, Left, Reached
  <2> QED
    BY <1>1, <2>1 DEF ConnectionSide, TxReplay, ReplayOf, LastOf
<1>13. BrokerKnowsSender'
  BY <1>1 DEF ConnectionSide, BrokerKnowsSender
<1> QED
  BY <1>6, <1>7, <1>8, <1>9, <1>11, <1>12, <1>13 DEF ConnectionSide

(* No transaction changes hands when the call names none. *)
LEMMA CallOneUser ==
    ASSUME TypeOK, Calls, OneUser, NEW s \in Sessions, NEW c \in Command, Call(s, c), tx' = tx,
           nextTx' = nextTx, sends' = sends, outcome' = outcome, c.t \in {NoTx, tx[s]}
    PROVE  OneUser'
<1>1. /\ call'[s] = c
      /\ \A r \in Sessions : r # s => call'[r] = call[r]
  BY CallBegins
<1>2. \A t \in Txs : t # NoTx
  BY DEF Txs, NoTx
<1>3. \A r \in Sessions, t \in Txs : Uses(r, t)' => Uses(r, t)
  BY <1>1, <1>2 DEF Uses
<1> QED
  BY <1>3 DEF OneUser

(* Calls about something else leave producers and destinations alone. *)
LEMMA CallProdLife ==
    ASSUME TypeOK, ProdLife, NEW s \in Sessions, NEW c \in Command, Call(s, c),
           c.k \notin {"AddProducer", "RemoveProducer"}, \A p \in Producers : life'[p] = life[p]
    PROVE  ProdLife'
<1>1. /\ pc[s] = "idle" /\ call'[s] = c /\ pc'[s] = "oneway"
      /\ \A r \in Sessions : r # s => pc'[r] = pc[r] /\ call'[r] = call[r]
      /\ UNCHANGED <<producers, txs>>
  BY CallBegins
<1>2. \A p \in Producers : Owner[p] \in Sessions
  BY TrackerAssumption
<1>3. \A p : AddProducer(p).k = "AddProducer" /\ RemoveProducer(p).k = "RemoveProducer"
  BY DEF AddProducer, RemoveProducer, Cmd
<1>4. \A t \in DOMAIN txs : txs[t].prods \subseteq Producers
  BY DEF TypeOK, IsMap, TxState
<1>5. \A p \in Producers :
        /\ Waits(Owner[p], AddProducer(p))' <=> Waits(Owner[p], AddProducer(p))
        /\ call'[Owner[p]] = AddProducer(p) => call[Owner[p]] = AddProducer(p)
        /\ call'[Owner[p]] = RemoveProducer(p) => call[Owner[p]] = RemoveProducer(p)
  BY <1>1, <1>2, <1>3 DEF Waits
<1> QED
  BY <1>1, <1>4, <1>5 DEF ProdLife

(* And a call about something else leaves the destinations alone. *)
LEMMA CallDestLife ==
    ASSUME TypeOK, DestLife, NEW s \in Sessions, NEW c \in Command, Call(s, c),
           c.k \notin {"AddDest", "RemoveDest"}, \A d \in Dests : life'[d] = life[d]
    PROVE  DestLife'
<1>1. /\ pc[s] = "idle" /\ call'[s] = c /\ pc'[s] = "oneway"
      /\ \A r \in Sessions : r # s => pc'[r] = pc[r] /\ call'[r] = call[r]
      /\ UNCHANGED temps
  BY CallBegins
<1>2. \A d \in Dests : Owner[d] \in Sessions
  BY TrackerAssumption
<1>3. \A d : AddDest(d).k = "AddDest" /\ RemoveDest(d).k = "RemoveDest"
  BY DEF AddDest, RemoveDest, Cmd
<1>4. \A d \in Dests :
        /\ Waits(Owner[d], AddDest(d))' <=> Waits(Owner[d], AddDest(d))
        /\ (pc'[Owner[d]] = "oneway" /\ call'[Owner[d]] = RemoveDest(d))
              <=> (pc[Owner[d]] = "oneway" /\ call[Owner[d]] = RemoveDest(d))
        /\ call'[Owner[d]] = AddDest(d) => call[Owner[d]] = AddDest(d)
        /\ call'[Owner[d]] = RemoveDest(d) => call[Owner[d]] = RemoveDest(d)
  BY <1>1, <1>2, <1>3 DEF Waits
<1> QED
  BY <1>1, <1>4 DEF DestLife

(* Each call of the application keeps the invariant. *)
LEMMA CreateProducerStep ==
    ASSUME TypeOK, Client, ConnectionSide, NEW s \in Sessions, NEW p \in Producers,
           CreateProducer(s, p)
    PROVE  TypeOK' /\ Client' /\ ConnectionSide'
<1> DEFINE c == AddProducer(p)
<1>1. /\ Owner[p] = s /\ life[p] = "new" /\ Call(s, c)
      /\ UNCHANGED <<life, tx, nextTx, sends, outcome>>
  BY DEF CreateProducer
<1>2. c \in Command /\ c.k = "AddProducer" /\ c.o = p /\ c.t = NoTx
  BY CommandsMade DEF AddProducer, Cmd
<1> HIDE DEF c
<1>3. /\ pc[s] = "idle" /\ pc'[s] = "oneway" /\ call'[s] = c
      /\ \A r \in Sessions : r # s => pc'[r] = pc[r] /\ call'[r] = call[r]
      /\ pc' \in [Sessions -> {"idle", "oneway", "waiting"}]
      /\ call' \in [Sessions -> Command \cup {NoCall}]
      /\ UNCHANGED <<producers, temps, txs, requestMap, connected, rpc, seen, todo, cur, replay,
                     doubt, alive, breaks, broker>>
  BY <1>1, <1>2, CallBegins
<1>4. TypeOK'
  BY <1>1, <1>3 DEF TypeOK
<1>5. SameUse
  BY <1>1, <1>2, CallSameUse DEF Client, EndKinds
<1>6. Calls'
  BY <1>1, <1>2, <1>3, NoCallFields DEF Client, Calls, EndKinds
<1>7. OneUser'
  BY <1>1, <1>2, CallOneUser DEF Client
<1>8. ProdLife'
  <2>1. \A q \in Producers : Owner[q] \in Sessions
    BY TrackerAssumption
  <2>2. \A q : c = AddProducer(q) => q = p
    BY <1>2 DEF AddProducer, Cmd
  <2>3. \A q : c # RemoveProducer(q)
    BY <1>2 DEF RemoveProducer, Cmd
  <2> QED
    BY <1>1, <1>3, <2>1, <2>2, <2>3 DEF Client, ProdLife, Waits
<1>9. DestLife'
  BY <1>1, <1>2, CallDestLife DEF Client
<1>10. TrackedTx' /\ Senders'
  BY <1>3, <1>5, SameUseTracked, SameUseSenders DEF Client
<1>11. ConnectionSide'
  BY <1>1, <1>2, <1>5, CallConnection
<1> QED
  BY <1>4, <1>6, <1>7, <1>8, <1>9, <1>10, <1>11 DEF Client

(* A producer is closed. *)
LEMMA CloseProducerStep ==
    ASSUME TypeOK, Client, ConnectionSide, NEW s \in Sessions, NEW p \in Producers,
           CloseProducer(s, p)
    PROVE  TypeOK' /\ Client' /\ ConnectionSide'
<1> DEFINE c == RemoveProducer(p)
<1>1. /\ Owner[p] = s /\ life[p] = "open" /\ Call(s, c) /\ life' = [life EXCEPT ![p] = "closed"]
      /\ UNCHANGED <<tx, nextTx, sends, outcome>>
  BY DEF CloseProducer
<1>2. c \in Command /\ c.k = "RemoveProducer" /\ c.o = p /\ c.t = NoTx
  BY CommandsMade DEF RemoveProducer, Cmd
<1> HIDE DEF c
<1>3. /\ pc[s] = "idle" /\ pc'[s] = "oneway" /\ call'[s] = c
      /\ \A r \in Sessions : r # s => pc'[r] = pc[r] /\ call'[r] = call[r]
      /\ pc' \in [Sessions -> {"idle", "oneway", "waiting"}]
      /\ call' \in [Sessions -> Command \cup {NoCall}]
      /\ UNCHANGED <<producers, temps, txs, requestMap, connected, rpc, seen, todo, cur, replay,
                     doubt, alive, breaks, broker>>
  BY <1>1, <1>2, CallBegins
<1>12. /\ life' \in [Producers \cup Dests -> {"new", "open", "closed"}] /\ life'[p] = "closed"
       /\ \A q \in Producers \cup Dests : q # p => life'[q] = life[q]
  BY <1>1 DEF TypeOK
<1>4. TypeOK'
  BY <1>1, <1>3, <1>12 DEF TypeOK
<1>5. SameUse
  BY <1>1, <1>2, CallSameUse DEF Client, EndKinds
<1>6. Calls'
  <2>1. ASSUME NEW r \in Sessions, r # s PROVE call[r].k \in {"Begin", "Message"} => life'[call[r].o] = life[call[r].o]
    <3>1. call[r] \in Command \cup {NoCall}
      BY DEF TypeOK
    <3>2. call[r].k \in {"Begin", "Message"} =>
             call[r].o \in Producers /\ call[r] # NoCall /\ call[r].k \notin EndKinds
      BY <3>1, NoCallFields, CommandKinds DEF EndKinds
    <3>3. call[r].k \in {"Begin", "Message"} => Owner[call[r].o] = r
      BY <3>2 DEF Client, Calls
    <3> QED
      BY <3>2, <3>3, <2>1, <1>1, <1>12
  <2> QED
    BY <1>1, <1>2, <1>3, <2>1, NoCallFields DEF Client, Calls, EndKinds
<1>7. OneUser'
  BY <1>1, <1>2, CallOneUser DEF Client
<1>8. ProdLife'
  <2>1. \A q \in Producers : Owner[q] \in Sessions
    BY TrackerAssumption
  <2>2. \A q : c = RemoveProducer(q) => q = p
    BY <1>2 DEF RemoveProducer, Cmd
  <2>3. \A q : c # AddProducer(q)
    BY <1>2 DEF AddProducer, Cmd
  <2>4. p \in DOMAIN producers
    BY <1>1 DEF Client, ProdLife, Waits
  <2>5. \A t \in DOMAIN txs : txs[t].prods \subseteq Producers
    BY DEF TypeOK, IsMap, TxState
  <2> QED
    BY <1>1, <1>3, <1>12, <2>1, <2>2, <2>3, <2>4, <2>5 DEF Client, ProdLife, Waits
<1>9. DestLife'
  <2>1. \A d \in Dests : life'[d] = life[d]
    BY <1>12, TrackerAssumption
  <2> QED
    BY <1>1, <1>2, <2>1, CallDestLife DEF Client
<1>10. TrackedTx' /\ Senders'
  BY <1>3, <1>5, SameUseTracked, SameUseSenders DEF Client
<1>11. ConnectionSide'
  BY <1>1, <1>2, <1>5, CallConnection
<1> QED
  BY <1>4, <1>6, <1>7, <1>8, <1>9, <1>10, <1>11 DEF Client

(* A temporary destination is created. *)
LEMMA CreateTempDestinationStep ==
    ASSUME TypeOK, Client, ConnectionSide, NEW s \in Sessions, NEW d \in Dests,
           CreateTempDestination(s, d)
    PROVE  TypeOK' /\ Client' /\ ConnectionSide'
<1> DEFINE c == AddDest(d)
<1>1. /\ Owner[d] = s /\ life[d] = "new" /\ Call(s, c)
      /\ UNCHANGED <<life, tx, nextTx, sends, outcome>>
  BY DEF CreateTempDestination
<1>2. c \in Command /\ c = AddDest(d) /\ c.k = "AddDest" /\ c.o = d /\ c.t = NoTx
  BY CommandsMade DEF AddDest, Cmd
<1> HIDE DEF c
<1>3. /\ pc[s] = "idle" /\ pc'[s] = "oneway" /\ call'[s] = c
      /\ \A r \in Sessions : r # s => pc'[r] = pc[r] /\ call'[r] = call[r]
      /\ pc' \in [Sessions -> {"idle", "oneway", "waiting"}]
      /\ call' \in [Sessions -> Command \cup {NoCall}]
      /\ UNCHANGED <<producers, temps, txs, requestMap, connected, rpc, seen, todo, cur, replay,
                     doubt, alive, breaks, broker>>
  BY <1>1, <1>2, CallBegins
<1>12. /\ life' \in [Producers \cup Dests -> {"new", "open", "closed"}] /\ life'[d] = "new"
       /\ \A q \in Producers \cup Dests : q # d => life'[q] = life[q]
  BY <1>1 DEF TypeOK
<1>13. \A q \in Producers : life'[q] = life[q]
  BY <1>12, TrackerAssumption
<1>4. TypeOK'
  BY <1>1, <1>3, <1>12 DEF TypeOK
<1>5. SameUse
  BY <1>1, <1>2, CallSameUse DEF Client, EndKinds
<1>6. Calls'
  <2>1. ASSUME NEW r \in Sessions PROVE call[r].k \in {"Begin", "Message"} => life'[call[r].o] = life[call[r].o]
    <3>1. call[r] \in Command \cup {NoCall}
      BY DEF TypeOK
    <3>2. call[r].k \in {"Begin", "Message"} => call[r].o \in Producers
      BY <3>1, NoCallFields, CommandKinds
    <3> QED
      BY <3>2, <1>13
  <2> QED
    BY <1>1, <1>2, <1>3, <2>1, NoCallFields DEF Client, Calls, EndKinds
<1>7. OneUser'
  BY <1>1, <1>2, CallOneUser DEF Client
<1>8. ProdLife'
  BY <1>1, <1>2, <1>13, CallProdLife DEF Client
<1>9. DestLife'
  <2>1. \A e \in Dests : Owner[e] \in Sessions
    BY TrackerAssumption
  <2>2. \A e : c = AddDest(e) => e = d
    BY <1>2 DEF AddDest, Cmd
  <2>3. \A e : c # RemoveDest(e)
    BY <1>2 DEF RemoveDest, Cmd
  <2>4. \A e \in Dests : Waits(Owner[e], AddDest(e))' <=> Waits(Owner[e], AddDest(e))
    BY <1>3, <2>1 DEF Waits
  <2>5. ASSUME NEW e \in Dests, e # d
        PROVE  /\ (pc'[Owner[e]] = "oneway" /\ call'[Owner[e]] = RemoveDest(e))
                     <=> (pc[Owner[e]] = "oneway" /\ call[Owner[e]] = RemoveDest(e))
               /\ call'[Owner[e]] = AddDest(e) => call[Owner[e]] = AddDest(e)
               /\ call'[Owner[e]] = RemoveDest(e) => call[Owner[e]] = RemoveDest(e)
               /\ life'[e] = life[e]
    BY <1>1, <1>3, <1>12, <2>1, <2>2, <2>3, <2>5
  <2>6. ASSUME NEW e \in Dests
        PROVE  /\ AddDest(e) \in ToSet(temps') <=> life'[e] # "new" \/ Waits(Owner[e], AddDest(e))'
               /\ RemoveDest(e) \in ToSet(temps') <=>
                    life'[e] = "closed" /\ ~(pc'[Owner[e]] = "oneway" /\ call'[Owner[e]] = RemoveDest(e))
               /\ call'[Owner[e]] = AddDest(e) => life'[e] = "new"
               /\ call'[Owner[e]] = RemoveDest(e) => life'[e] = "closed"
    <3>1. CASE e # d
      BY <3>1, <1>3, <2>4, <2>5 DEF Client, DestLife
    <3>2. CASE e = d
      BY <3>2, <1>1, <1>2, <1>3, <1>12, <2>2, <2>3, <2>4 DEF Client, DestLife
    <3> QED
      BY <3>1, <3>2
  <2> QED
    BY <1>3, <2>6 DEF Client, DestLife
<1>10. TrackedTx' /\ Senders'
  BY <1>3, <1>5, SameUseTracked, SameUseSenders DEF Client
<1>11. ConnectionSide'
  BY <1>1, <1>2, <1>5, CallConnection
<1> QED
  BY <1>4, <1>6, <1>7, <1>8, <1>9, <1>10, <1>11 DEF Client

(* A temporary destination is destroyed. *)
LEMMA DestroyDestinationStep ==
    ASSUME TypeOK, Client, ConnectionSide, NEW s \in Sessions, NEW d \in Dests,
           DestroyDestination(s, d)
    PROVE  TypeOK' /\ Client' /\ ConnectionSide'
<1> DEFINE c == RemoveDest(d)
<1>1. /\ Owner[d] = s /\ life[d] = "open" /\ Call(s, c) /\ life' = [life EXCEPT ![d] = "closed"]
      /\ UNCHANGED <<tx, nextTx, sends, outcome>>
  BY DEF DestroyDestination
<1>2. c \in Command /\ c = RemoveDest(d) /\ c.k = "RemoveDest" /\ c.o = d /\ c.t = NoTx
  BY CommandsMade DEF RemoveDest, Cmd
<1> HIDE DEF c
<1>3. /\ pc[s] = "idle" /\ pc'[s] = "oneway" /\ call'[s] = c
      /\ \A r \in Sessions : r # s => pc'[r] = pc[r] /\ call'[r] = call[r]
      /\ pc' \in [Sessions -> {"idle", "oneway", "waiting"}]
      /\ call' \in [Sessions -> Command \cup {NoCall}]
      /\ UNCHANGED <<producers, temps, txs, requestMap, connected, rpc, seen, todo, cur, replay,
                     doubt, alive, breaks, broker>>
  BY <1>1, <1>2, CallBegins
<1>12. /\ life' \in [Producers \cup Dests -> {"new", "open", "closed"}] /\ life'[d] = "closed"
       /\ \A q \in Producers \cup Dests : q # d => life'[q] = life[q]
  BY <1>1 DEF TypeOK
<1>13. \A q \in Producers : life'[q] = life[q]
  BY <1>12, TrackerAssumption
<1>4. TypeOK'
  BY <1>1, <1>3, <1>12 DEF TypeOK
<1>5. SameUse
  BY <1>1, <1>2, CallSameUse DEF Client, EndKinds
<1>6. Calls'
  <2>1. ASSUME NEW r \in Sessions PROVE call[r].k \in {"Begin", "Message"} => life'[call[r].o] = life[call[r].o]
    <3>1. call[r] \in Command \cup {NoCall}
      BY DEF TypeOK
    <3>2. call[r].k \in {"Begin", "Message"} => call[r].o \in Producers
      BY <3>1, NoCallFields, CommandKinds
    <3> QED
      BY <3>2, <1>13
  <2> QED
    BY <1>1, <1>2, <1>3, <2>1, NoCallFields DEF Client, Calls, EndKinds
<1>7. OneUser'
  BY <1>1, <1>2, CallOneUser DEF Client
<1>8. ProdLife'
  BY <1>1, <1>2, <1>13, CallProdLife DEF Client
<1>9. DestLife'
  <2>1. \A e \in Dests : Owner[e] \in Sessions
    BY TrackerAssumption
  <2>2. \A e : c = RemoveDest(e) => e = d
    BY <1>2 DEF RemoveDest, Cmd
  <2>3. \A e : c # AddDest(e)
    BY <1>2 DEF AddDest, Cmd
  <2>4. \A e \in Dests : Waits(Owner[e], AddDest(e))' <=> Waits(Owner[e], AddDest(e))
    BY <1>3, <2>1 DEF Waits
  <2>5. ASSUME NEW e \in Dests, e # d
        PROVE  /\ (pc'[Owner[e]] = "oneway" /\ call'[Owner[e]] = RemoveDest(e))
                     <=> (pc[Owner[e]] = "oneway" /\ call[Owner[e]] = RemoveDest(e))
               /\ call'[Owner[e]] = AddDest(e) => call[Owner[e]] = AddDest(e)
               /\ call'[Owner[e]] = RemoveDest(e) => call[Owner[e]] = RemoveDest(e)
               /\ life'[e] = life[e]
    BY <1>1, <1>3, <1>12, <2>1, <2>2, <2>3, <2>5
  <2>6. ASSUME NEW e \in Dests
        PROVE  /\ AddDest(e) \in ToSet(temps') <=> life'[e] # "new" \/ Waits(Owner[e], AddDest(e))'
               /\ RemoveDest(e) \in ToSet(temps') <=>
                    life'[e] = "closed" /\ ~(pc'[Owner[e]] = "oneway" /\ call'[Owner[e]] = RemoveDest(e))
               /\ call'[Owner[e]] = AddDest(e) => life'[e] = "new"
               /\ call'[Owner[e]] = RemoveDest(e) => life'[e] = "closed"
    <3>1. CASE e # d
      BY <3>1, <1>3, <2>4, <2>5 DEF Client, DestLife
    <3>2. CASE e = d
      BY <3>2, <1>1, <1>2, <1>3, <1>12, <2>2, <2>3, <2>4 DEF Client, DestLife
    <3> QED
      BY <3>1, <3>2
  <2> QED
    BY <1>3, <2>6 DEF Client, DestLife
<1>10. TrackedTx' /\ Senders'
  BY <1>3, <1>5, SameUseTracked, SameUseSenders DEF Client
<1>11. ConnectionSide'
  BY <1>1, <1>2, <1>5, CallConnection
<1> QED
  BY <1>4, <1>6, <1>7, <1>8, <1>9, <1>10, <1>11 DEF Client

(* The first send of a transaction begins it: its id is new to everybody. *)
LEMMA BeginStep ==
    ASSUME TypeOK, Client, ConnectionSide, NEW s \in Sessions, NEW p \in Producers,
           Send(s, p), tx[s] = NoTx
    PROVE  TypeOK' /\ Client' /\ ConnectionSide'
<1> DEFINE c == Begin(p, nextTx)
<1>1. /\ Owner[p] = s /\ life[p] = "open" /\ Call(s, c) /\ nextTx \in Txs /\ nextTx' = nextTx + 1
      /\ UNCHANGED <<life, tx, sends, outcome>>
  BY DEF Send
<1>2. c \in Command /\ c.k = "Begin" /\ c.o = p /\ c.t = nextTx
  BY <1>1, CommandsMade DEF Begin, Cmd
<1> HIDE DEF c
<1>3. /\ pc[s] = "idle" /\ pc'[s] = "oneway" /\ call'[s] = c
      /\ \A r \in Sessions : r # s => pc'[r] = pc[r] /\ call'[r] = call[r]
      /\ pc' \in [Sessions -> {"idle", "oneway", "waiting"}]
      /\ call' \in [Sessions -> Command \cup {NoCall}]
      /\ UNCHANGED <<producers, temps, txs, requestMap, connected, rpc, seen, todo, cur, replay,
                     doubt, alive, breaks, broker>>
  BY <1>1, <1>2, CallBegins
<1>4. TypeOK'
  <2>1. nextTx' \in 1..(MaxTx + 1)
    BY <1>1, TrackerAssumption DEF Txs
  <2> QED
    BY <1>1, <1>3, <2>1 DEF TypeOK
<1>5. SameUse
  BY <1>1, <1>2, CallSameUse DEF Client, EndKinds
<1>12. nextTx # NoTx /\ sends[nextTx] = 0 /\ outcome[nextTx] = None /\ nextTx \in Nat
  <2>1. nextTx >= nextTx /\ nextTx # NoTx /\ nextTx \in Nat
    BY <1>1 DEF Txs, NoTx
  <2> QED
    BY <1>1, <2>1 DEF Client, OneUser
<1>6. Calls'
  BY <1>1, <1>2, <1>3, <1>12, NoCallFields DEF Client, Calls, EndKinds
<1>7. OneUser'
  <2>1. \A r \in Sessions, t \in Txs : Uses(r, t)' => Uses(r, t) \/ (r = s /\ t = nextTx)
    BY <1>1, <1>2, <1>3 DEF Uses
  <2>2. \A r \in Sessions : ~Uses(r, nextTx)
    <3>1. ~(nextTx < nextTx)
      BY <1>12
    <3> QED
      BY <3>1, <1>1 DEF Client, OneUser
  <2>3. \A t \in Txs : (t < nextTx => t < nextTx') /\ (t >= nextTx' => t >= nextTx) /\ nextTx < nextTx'
    BY <1>1, <1>12 DEF Txs
  <2> QED
    BY <1>1, <1>12, <2>1, <2>2, <2>3 DEF Client, OneUser
<1>8. ProdLife' /\ DestLife'
  BY <1>1, <1>2, CallProdLife, CallDestLife DEF Client
<1>10. TrackedTx' /\ Senders'
  BY <1>3, <1>5, SameUseTracked, SameUseSenders DEF Client
<1>11. ConnectionSide'
  BY <1>1, <1>2, <1>5, CallConnection
<1> QED
  BY <1>4, <1>6, <1>7, <1>8, <1>10, <1>11 DEF Client

(* A further message. *)
LEMMA SendStep ==
    ASSUME TypeOK, Client, ConnectionSide, NEW s \in Sessions, NEW p \in Producers,
           Send(s, p), tx[s] # NoTx
    PROVE  TypeOK' /\ Client' /\ ConnectionSide'
<1> DEFINE c == Message(p, tx[s], sends[tx[s]] + 1)
<1>1. /\ Owner[p] = s /\ life[p] = "open" /\ Call(s, c) /\ sends[tx[s]] < MaxSends
      /\ UNCHANGED <<life, tx, sends, outcome, nextTx>>
  BY DEF Send
<1>13. tx[s] \in Txs
  BY DEF TypeOK
<1>14. sends[tx[s]] \in Nat /\ MaxSends \in Nat
  BY <1>13, TrackerAssumption DEF TypeOK
<1>2. c \in Command /\ c.k = "Message" /\ c.o = p /\ c.t = tx[s] /\ c.i = sends[tx[s]] + 1
  <2>1. sends[tx[s]] + 1 \in 1..MaxSends
    BY <1>1, <1>14
  <2> QED
    BY <1>13, <2>1, CommandsMade DEF Message, Cmd
<1> HIDE DEF c
<1>3. /\ pc[s] = "idle" /\ pc'[s] = "oneway" /\ call'[s] = c
      /\ \A r \in Sessions : r # s => pc'[r] = pc[r] /\ call'[r] = call[r]
      /\ pc' \in [Sessions -> {"idle", "oneway", "waiting"}]
      /\ call' \in [Sessions -> Command \cup {NoCall}]
      /\ UNCHANGED <<producers, temps, txs, requestMap, connected, rpc, seen, todo, cur, replay,
                     doubt, alive, breaks, broker>>
  BY <1>1, <1>2, CallBegins
<1>4. TypeOK'
  BY <1>1, <1>3 DEF TypeOK
<1>5. SameUse
  BY <1>1, <1>2, CallSameUse DEF Client, EndKinds
<1>6. Calls'
  BY <1>1, <1>2, <1>3, NoCallFields DEF Client, Calls, EndKinds
<1>7. OneUser'
  BY <1>1, <1>2, CallOneUser DEF Client
<1>8. ProdLife' /\ DestLife'
  BY <1>1, <1>2, CallProdLife, CallDestLife DEF Client
<1>10. TrackedTx' /\ Senders'
  BY <1>3, <1>5, SameUseTracked, SameUseSenders DEF Client
<1>11. ConnectionSide'
  BY <1>1, <1>2, <1>5, CallConnection
<1> QED
  BY <1>4, <1>6, <1>7, <1>8, <1>10, <1>11 DEF Client

(* The end of a transaction: the session still uses it, through its call. *)
LEMMA EndStep ==
    ASSUME TypeOK, Client, ConnectionSide, NEW s \in Sessions, tx[s] # NoTx,
           NEW c \in {Commit(tx[s]), Rollback(tx[s])}, EndTransaction(s, c)
    PROVE  TypeOK' /\ Client' /\ ConnectionSide'
<1>1. /\ Call(s, c) /\ tx' = [tx EXCEPT ![s] = NoTx]
      /\ UNCHANGED <<life, sends, outcome, nextTx>>
  BY DEF EndTransaction
<1>13. tx[s] \in Txs
  BY DEF TypeOK
<1>2. c \in Command /\ c.k \in EndKinds /\ c.t = tx[s]
  <2>1. Commit(tx[s]) \in Command /\ Rollback(tx[s]) \in Command
    BY <1>13, CommandsMade
  <2>2. /\ Commit(tx[s]).k = "Commit" /\ Commit(tx[s]).t = tx[s]
        /\ Rollback(tx[s]).k = "Rollback" /\ Rollback(tx[s]).t = tx[s]
    BY DEF Commit, Rollback, Cmd
  <2> QED
    BY <2>1, <2>2 DEF EndKinds
<1>3. /\ pc[s] = "idle" /\ pc'[s] = "oneway" /\ call'[s] = c
      /\ \A r \in Sessions : r # s => pc'[r] = pc[r] /\ call'[r] = call[r]
      /\ pc' \in [Sessions -> {"idle", "oneway", "waiting"}]
      /\ call' \in [Sessions -> Command \cup {NoCall}]
      /\ UNCHANGED <<producers, temps, txs, requestMap, connected, rpc, seen, todo, cur, replay,
                     doubt, alive, breaks, broker>>
  BY <1>1, <1>2, CallBegins
<1>12. /\ tx' \in [Sessions -> Txs \cup {NoTx}] /\ tx'[s] = NoTx
       /\ \A r \in Sessions : r # s => tx'[r] = tx[r]
  BY <1>1 DEF TypeOK
<1>4. TypeOK'
  BY <1>1, <1>3, <1>12 DEF TypeOK
<1>5. SameUse
  BY <1>1, <1>2, CallSameUse DEF Client
<1>6. Calls'
  BY <1>1, <1>2, <1>3, <1>12, NoCallFields DEF Client, Calls, EndKinds
<1>7. OneUser'
  <2>1. \A r \in Sessions, t \in Txs : Uses(r, t)' => Uses(r, t)
    <3>1. \A t \in Txs : t # NoTx
      BY DEF Txs, NoTx
    <3> QED
      BY <1>1, <1>2, <1>3, <1>12, <3>1 DEF Uses
  <2> QED
    BY <1>1, <2>1 DEF Client, OneUser
<1>8. ProdLife' /\ DestLife'
  BY <1>1, <1>2, CallProdLife, CallDestLife DEF Client, EndKinds
<1>10. TrackedTx' /\ Senders'
  BY <1>3, <1>5, SameUseTracked, SameUseSenders DEF Client
<1>11. ConnectionSide'
  BY <1>1, <1>2, <1>5, CallConnection
<1> QED
  BY <1>4, <1>6, <1>7, <1>8, <1>10, <1>11 DEF Client

(* All the calls of the application. *)
LEMMA AppStep ==
    ASSUME TypeOK, Client, ConnectionSide, App
    PROVE  TypeOK' /\ Client' /\ ConnectionSide'
<1> PICK s \in Sessions :
        \/ \E p \in Producers : CreateProducer(s, p) \/ CloseProducer(s, p) \/ Send(s, p)
        \/ \E d \in Dests : CreateTempDestination(s, d) \/ DestroyDestination(s, d)
        \/ CommitTx(s) \/ RollbackTx(s)
  BY DEF App
<1>1. ASSUME NEW p \in Producers, CreateProducer(s, p) \/ CloseProducer(s, p) \/ Send(s, p)
      PROVE  TypeOK' /\ Client' /\ ConnectionSide'
  BY <1>1, CreateProducerStep, CloseProducerStep, BeginStep, SendStep
<1>2. ASSUME NEW d \in Dests, CreateTempDestination(s, d) \/ DestroyDestination(s, d)
      PROVE  TypeOK' /\ Client' /\ ConnectionSide'
  BY <1>2, CreateTempDestinationStep, DestroyDestinationStep
<1>3. CASE CommitTx(s) \/ RollbackTx(s)
  <2>1. tx[s] # NoTx /\ (EndTransaction(s, Commit(tx[s])) \/ EndTransaction(s, Rollback(tx[s])))
    BY <1>3 DEF CommitTx, RollbackTx
  <2> QED
    BY <2>1, EndStep
<1> QED
  BY <1>1, <1>2, <1>3

-----------------------------------------------------------------------------
(* oneway *)

(***************************************************************************)
(* What the three ways through oneway have in common.  The runner is idle; *)
(* on a connection that works the command is sent, otherwise it is only    *)
(* tracked.                                                                *)
(***************************************************************************)
Goes(s, c) ==
    /\ pc[s] = "oneway" /\ call[s] = c /\ rpc = "idle"
    /\ Track(c) /\ Returned(s, c)
    /\ broker' = IF alive THEN BrokerApply(broker, c) ELSE broker
    /\ connected' \in BOOLEAN /\ (connected' => connected) /\ (alive => connected')
    /\ UNCHANGED <<rpc, seen, todo, cur, replay, doubt, alive, breaks>>

(* All three ways through oneway track the command and return. *)
LEMMA OnewayGoes ==
    ASSUME TypeOK, Calls, Conn, NEW s \in Sessions, Oneway(s)
    PROVE  Goes(s, call[s]) /\ call[s] \in Command
<1>1. call[s] \in Command
  <2>1. pc[s] = "oneway"
    BY DEF Oneway, OnewayStale, OnewaySends, OnewayFails
  <2>2. call[s] # NoCall
    BY <2>1 DEF Calls
  <2> QED
    BY <2>2 DEF TypeOK
<1>2. CASE OnewayStale(s)
  BY <1>1, <1>2 DEF OnewayStale, Goes, Conn, TypeOK, runner
<1>3. CASE OnewaySends(s)
  BY <1>1, <1>3 DEF OnewaySends, Goes, Conn, TypeOK, runner
<1>4. CASE OnewayFails(s)
  BY <1>1, <1>4 DEF OnewayFails, Goes, Conn, TypeOK, runner
<1> QED
  BY <1>1, <1>2, <1>3, <1>4 DEF Oneway

(* What oneway's return does to the session, by the kind of the command. *)
LEMMA ReturnedSync ==
    ASSUME TypeOK, NEW s \in Sessions, Returned(s, call[s]), Sync(call[s])
    PROVE  /\ pc' \in [Sessions -> {"idle", "oneway", "waiting"}]
           /\ pc'[s] = "waiting" /\ \A r \in Sessions : r # s => pc'[r] = pc[r]
           /\ UNCHANGED <<call, tx, sends, life, nextTx, outcome>>
<1>1. call[s].k # "Begin" /\ call[s].k # "Message"
  BY DEF Sync
<1>2. pc' = [pc EXCEPT ![s] = "waiting"]
  BY <1>1 DEF Returned
<1>3. call' = [call EXCEPT ![s] = call[s]]
  BY <1>1 DEF Returned
<1>4. call' = call
  BY <1>3 DEF TypeOK
<1>5. tx' = [tx EXCEPT ![s] = tx[s]]
  BY <1>1 DEF Returned
<1>6. tx' = tx
  BY <1>5 DEF TypeOK
<1> QED
  BY <1>1, <1>2, <1>4, <1>6 DEF Returned, TypeOK

(* Nothing to wait for: the session is idle again. *)
LEMMA ReturnedIdle ==
    ASSUME TypeOK, NEW s \in Sessions, NEW c \in Command, Returned(s, c),
           c.k \in {"RemoveProducer", "Message"}
    PROVE  /\ pc' \in [Sessions -> {"idle", "oneway", "waiting"}]
           /\ pc'[s] = "idle" /\ \A r \in Sessions : r # s => pc'[r] = pc[r]
           /\ call' \in [Sessions -> Command \cup {NoCall}]
           /\ call'[s] = NoCall /\ \A r \in Sessions : r # s => call'[r] = call[r]
           /\ sends' = IF c.k = "Message" THEN [sends EXCEPT ![c.t] = c.i] ELSE sends
           /\ UNCHANGED <<tx, life, nextTx, outcome>>
<1>1. c.k # "Begin" /\ ~Sync(c)
  BY DEF Sync
<1>2. pc' = [pc EXCEPT ![s] = "idle"]
  BY <1>1 DEF Returned
<1>3. call' = [call EXCEPT ![s] = NoCall]
  BY <1>1 DEF Returned
<1>5. tx' = [tx EXCEPT ![s] = tx[s]]
  BY <1>1 DEF Returned
<1>6. tx' = tx
  BY <1>5 DEF TypeOK
<1> QED
  BY <1>1, <1>2, <1>3, <1>6 DEF Returned, TypeOK

(* After the begin comes the message that needed it. *)
LEMMA ReturnedBegin ==
    ASSUME TypeOK, NEW s \in Sessions, NEW c \in Command, Returned(s, c), c.k = "Begin",
           pc[s] = "oneway"
    PROVE  /\ pc' = pc
           /\ call' \in [Sessions -> Command \cup {NoCall}]
           /\ call'[s] = Message(c.o, c.t, 1) /\ \A r \in Sessions : r # s => call'[r] = call[r]
           /\ tx' \in [Sessions -> Txs \cup {NoTx}]
           /\ tx'[s] = c.t /\ \A r \in Sessions : r # s => tx'[r] = tx[r]
           /\ UNCHANGED <<sends, life, nextTx, outcome>>
<1>1. ~Sync(c) /\ c.k # "Message"
  BY DEF Sync
<1>2. pc' = [pc EXCEPT ![s] = "oneway"]
  BY <1>1 DEF Returned
<1>3. call' = [call EXCEPT ![s] = Message(c.o, c.t, 1)]
  BY <1>1 DEF Returned
<1>4. Message(c.o, c.t, 1) \in Command
  BY CommandKinds, CommandsMade, TrackerAssumption
<1>5. tx' = [tx EXCEPT ![s] = c.t]
  BY <1>1 DEF Returned
<1>6. c.t \in Txs
  BY CommandKinds
<1> QED
  BY <1>1, <1>2, <1>3, <1>4, <1>5, <1>6 DEF Returned, TypeOK

(* What is stored stays true as long as nothing is stored or sent in what was stored. *)
LEMMA LogStays ==
    ASSUME Log, broker'.log = broker.log, outcome' = outcome,
           \A t \in Stored : sends'[t] = sends[t],
           \A r \in Sessions : \A t \in Stored : Waits(r, Commit(t)) => Waits(r, Commit(t))',
           \A r \in broker'.out : r \in broker.out \/ r.c.k # "Commit" \/ ~r.ok
    PROVE  Log'
<1>1. Stored' = Stored
  BY DEF Stored
<1>2. CommittedWhole'
  <2>1. \A j \in DOMAIN broker.log : sends'[broker.log[j].t] = sends[broker.log[j].t]
    BY DEF Stored
  <2> QED
    BY <2>1 DEF Log, CommittedWhole
<1> QED
  BY <1>1, <1>2 DEF Log

(* A transaction that the broker has stays so. *)
LEMMA SettledStays ==
    ASSUME NEW t, Settled(t), txs'[t].cmds = txs[t].cmds, sends'[t] = sends[t],
           t \in DOMAIN broker.open => t \in DOMAIN broker'.open /\ broker'.open[t] = broker.open[t],
           broker.out \subseteq broker'.out, doubt \subseteq doubt'
    PROVE  Settled(t)'
  BY DEF Settled, LastOf, Answered

(* Between restores nothing is left to be sent. *)
LEMMA NothingLeft ==
    ASSUME ConnectionSide, rpc = "idle"
    PROVE  /\ replay = <<>> /\ todo = {} /\ doubt = {} /\ Rest = {}
           /\ alive => \A t \in DOMAIN txs : Settled(t)
  BY DEF ConnectionSide, Conn, TxSent, Rest

(* What remains to be shown of the connection when a command went through oneway. *)
LEMMA GoesConnection ==
    ASSUME ConnectionSide, NEW s, NEW c, Goes(s, c), Log', BrokerKnowsSender',
           alive => OpenSent' /\ \A t \in DOMAIN txs' : Settled(t)'
    PROVE  ConnectionSide'
<1>1. /\ rpc = "idle" /\ rpc' = "idle" /\ (connected' => connected) /\ (alive => connected')
      /\ (~alive => broker' = broker)
      /\ UNCHANGED <<seen, todo, cur, replay, doubt, alive>>
  BY DEF Goes
<1>2. Conn'
  BY <1>1 DEF ConnectionSide, Conn
<1>3. OpenSent'
  BY <1>1 DEF OpenSent
<1>4. TxSent'
  BY <1>1 DEF TxSent
<1>5. OpenReplay' /\ TxReplay'
  BY <1>1 DEF OpenReplay, TxReplay
<1> QED
  BY <1>2, <1>3, <1>4, <1>5 DEF ConnectionSide

(* The answer to a command that a session is busy with. *)
LEMMA ReplyAnswers ==
    ASSUME NEW s \in Sessions, NEW c, call[s] = c, NEW ok, Reply(c, ok) \subseteq broker'.out
    PROVE  Answered(c)'
<1>1. [c |-> c, ok |-> ok] \in broker'.out
  BY DEF Reply
<1> QED
  BY <1>1 DEF Answered

(* A producer is added to the tracker and, on a connection that works, to the broker. *)
LEMMA AddProducerGoes ==
    ASSUME TypeOK, Client, ConnectionSide, NEW s \in Sessions, NEW c \in Command, Goes(s, c),
           c.k = "AddProducer"
    PROVE  TypeOK' /\ Client' /\ ConnectionSide'
<1>1. PICK p : p = c.o /\ c = AddProducer(p) /\ p \in Producers
  BY CommandNames, CommandKinds
<1>2. /\ pc[s] = "oneway" /\ call[s] = c /\ rpc = "idle"
      /\ broker' = IF alive THEN BrokerApply(broker, c) ELSE broker
      /\ connected' \in BOOLEAN
      /\ UNCHANGED <<rpc, seen, todo, cur, replay, doubt, alive, breaks>>
  BY DEF Goes
<1>3. producers' = With(producers, p, NoTx) /\ UNCHANGED <<temps, txs, requestMap>>
  BY <1>1 DEF Goes, Track, TrackAddProducer
<1>4. /\ pc' \in [Sessions -> {"idle", "oneway", "waiting"}]
      /\ pc'[s] = "waiting" /\ \A r \in Sessions : r # s => pc'[r] = pc[r]
      /\ UNCHANGED <<call, tx, sends, life, nextTx, outcome>>
  BY <1>2, ReturnedSync DEF Goes, Sync
<1>5. /\ IsMap(producers', Producers, Txs \cup {NoTx}) /\ DOMAIN producers' = DOMAIN producers \cup {p}
      /\ \A q \in DOMAIN producers : q # p => producers'[q] = producers[q]
  <2>1. IsMap(producers, Producers, Txs \cup {NoTx}) /\ NoTx \in Txs \cup {NoTx}
    BY DEF TypeOK
  <2> QED
    BY <1>1, <1>3, <2>1 DEF IsMap, With
<1>6. BrokerOK(broker)
  BY DEF TypeOK, BrokerOK
<1>7. alive => /\ BrokerOK(broker') /\ broker'.prods = broker.prods \cup {p}
               /\ broker'.dests = broker.dests /\ broker'.open = broker.open
               /\ broker'.log = broker.log /\ broker'.strangers = broker.strangers
               /\ broker'.out = broker.out \cup Reply(c, TRUE)
  <2>1. Becomes(BrokerApply(broker, c), broker.prods \cup {p}, broker.dests, broker.open,
                broker.log, broker.strangers, broker.out \cup Reply(c, TRUE))
    BY <1>1, <1>6, AppliedAddProducer
  <2> QED
    BY <1>2, <2>1 DEF Becomes
<1>8. BrokerOK(broker')
  BY <1>2, <1>6, <1>7
<1>9. TypeOK'
  BY <1>2, <1>3, <1>4, <1>5, <1>8 DEF TypeOK, BrokerOK
<1>10. Calls'
  <2>1. Sync(c)
    BY DEF Sync
  <2> QED
    BY <1>2, <1>4, <2>1, NoCallFields DEF Client, Calls
<1>11. OneUser'
  BY <1>4 DEF Client, OneUser, Uses
<1>12. SameUse
  BY <1>2, <1>4 DEF SameUse, InTx, Ending, EndKinds
<1>13. TrackedTx'
  BY <1>3, <1>12, SameUseTracked DEF Client
<1>14. Owner[p] = s /\ life[p] = "new" /\ p \notin DOMAIN producers
  <2>1. Owner[p] = s
    BY <1>1, <1>2, NoCallFields DEF Client, Calls, EndKinds
  <2> QED
    BY <1>1, <1>2, <2>1 DEF Client, ProdLife, Waits
<1>15. Senders'
  <2>1. \A q \in DOMAIN producers : q \in DOMAIN producers' /\ producers'[q] = producers[q]
    BY <1>5, <1>14
  <2>2. DOMAIN txs \subseteq Txs
    BY DEF TypeOK, IsMap
  <2> QED
    BY <1>3, <1>4, <1>12, <2>1, <2>2 DEF Client, Senders, SameUse
<1>16. \A q \in Producers : Owner[q] \in Sessions
  BY TrackerAssumption
<1>17. \A q : c = AddProducer(q) => q = p
  BY <1>1 DEF AddProducer, Cmd
<1>18. ProdLife'
  <2>1. ASSUME NEW q \in Producers, q # p
        PROVE  Waits(Owner[q], AddProducer(q))' <=> Waits(Owner[q], AddProducer(q))
    BY <1>2, <1>4, <1>16, <1>17, <2>1 DEF Waits
  <2>2. Waits(Owner[p], AddProducer(p))'
    BY <1>1, <1>2, <1>4, <1>14 DEF Waits
  <2>3. call' = call /\ life' = life /\ txs' = txs
    BY <1>3, <1>4
  <2>4. \A t \in DOMAIN txs : p \notin txs[t].prods
    BY <1>14 DEF Client, ProdLife
  <2> QED
    BY <1>5, <1>14, <2>1, <2>2, <2>3, <2>4 DEF Client, ProdLife
<1>19. DestLife'
  <2>1. \A d \in Dests : Owner[d] \in Sessions /\ c # AddDest(d) /\ c # RemoveDest(d)
    BY TrackerAssumption DEF AddDest, RemoveDest, Cmd
  <2>2. \A d \in Dests : /\ Waits(Owner[d], AddDest(d))' <=> Waits(Owner[d], AddDest(d))
                         /\ (pc'[Owner[d]] = "oneway" /\ call[Owner[d]] = RemoveDest(d))
                              <=> (pc[Owner[d]] = "oneway" /\ call[Owner[d]] = RemoveDest(d))
    BY <1>2, <1>4, <2>1 DEF Waits
  <2> QED
    BY <1>3, <1>4, <2>2 DEF Client, DestLife
<1>20. Log'
  <2>1. \A r \in Reply(c, TRUE) : r.c.k # "Commit"
    BY ReplyOK
  <2>2. broker'.log = broker.log /\ \A r \in broker'.out : r \in broker.out \/ r.c.k # "Commit" \/ ~r.ok
    BY <1>2, <1>7, <2>1
  <2>3. \A r \in Sessions : \A t \in Stored : Waits(r, Commit(t)) => Waits(r, Commit(t))'
    BY <1>2, <1>4 DEF Waits
  <2> QED
    BY <1>4, <2>2, <2>3, LogStays DEF ConnectionSide
<1>21. BrokerKnowsSender'
  BY <1>2, <1>7 DEF ConnectionSide, BrokerKnowsSender
<1>22. ASSUME alive PROVE OpenSent' /\ \A t \in DOMAIN txs' : Settled(t)'
  <2>1. Rest = {} /\ Rest' = {}
    BY <1>2 DEF Rest
  <2>2. \A x : Answered(x) => Answered(x)'
    BY <1>7, <1>22 DEF Answered
  <2>3. Answered(c)'
    BY <1>2, <1>7, <1>22, ReplyAnswers
  <2>4. OpenSent'
    <3>1. \A q \in DOMAIN producers' : q \in broker'.prods
      BY <1>5, <1>7, <1>22, <2>1 DEF ConnectionSide, OpenSent
    <3>2. \A r \in Sessions : pc'[r] = "waiting" /\ ~Ending(r)' => Answered(call[r])'
      BY <1>2, <1>4, <1>22, <2>1, <2>2, <2>3 DEF ConnectionSide, OpenSent, Ending
    <3> QED
      BY <1>3, <1>4, <1>7, <1>22, <2>1, <3>1, <3>2 DEF ConnectionSide, OpenSent
  <2>5. \A t \in DOMAIN txs' : Settled(t)'
    BY <1>2, <1>3, <1>4, <1>7, <1>22, NothingLeft, SettledStays
  <2> QED
    BY <2>4, <2>5
<1>23. ConnectionSide'
  BY <1>20, <1>21, <1>22, GoesConnection
<1> QED
  BY <1>9, <1>10, <1>11, <1>13, <1>15, <1>18, <1>19, <1>23 DEF Client

(* The transaction that a closed producer sent in takes it over. *)
LEMMA RemoveProducerGoes ==
    ASSUME TypeOK, Client, ConnectionSide, NEW s \in Sessions, NEW c \in Command, Goes(s, c),
           c.k = "RemoveProducer"
    PROVE  TypeOK' /\ Client' /\ ConnectionSide'
<1>1. PICK p : p = c.o /\ c = RemoveProducer(p) /\ p \in Producers
  BY CommandNames, CommandKinds
<1>2. /\ pc[s] = "oneway" /\ call[s] = c /\ rpc = "idle"
      /\ broker' = IF alive THEN BrokerApply(broker, c) ELSE broker
      /\ connected' \in BOOLEAN
      /\ UNCHANGED <<rpc, seen, todo, cur, replay, doubt, alive, breaks>>
  BY DEF Goes
<1>3. /\ producers' = Without(producers, p) /\ UNCHANGED <<temps, requestMap>>
      /\ txs' = IF producers[p] \in DOMAIN txs
                THEN [txs EXCEPT ![producers[p]].prods = @ \cup {p}] ELSE txs
  BY <1>1 DEF Goes, Track, TrackRemoveProducer
<1>4. /\ pc' \in [Sessions -> {"idle", "oneway", "waiting"}]
      /\ pc'[s] = "idle" /\ \A r \in Sessions : r # s => pc'[r] = pc[r]
      /\ call' \in [Sessions -> Command \cup {NoCall}]
      /\ call'[s] = NoCall /\ \A r \in Sessions : r # s => call'[r] = call[r]
      /\ UNCHANGED <<tx, sends, life, nextTx, outcome>>
  BY ReturnedIdle DEF Goes
<1>5. /\ IsMap(producers', Producers, Txs \cup {NoTx}) /\ DOMAIN producers' = DOMAIN producers \ {p}
      /\ \A q \in DOMAIN producers : q # p => producers'[q] = producers[q]
  <2>1. IsMap(producers, Producers, Txs \cup {NoTx})
    BY DEF TypeOK
  <2> QED
    BY <1>1, <1>3, <2>1 DEF IsMap, Without
<1>6. /\ IsMap(txs', Txs, TxState) /\ DOMAIN txs' = DOMAIN txs
      /\ \A t \in DOMAIN txs :
            /\ txs'[t].cmds = txs[t].cmds
            /\ txs'[t].prods = txs[t].prods \cup (IF producers[p] = t THEN {p} ELSE {})
  <2>1. IsMap(txs, Txs, TxState)
    BY DEF TypeOK
  <2>2. CASE producers[p] \in DOMAIN txs
    <3>1. PICK u \in DOMAIN txs : u = producers[p]
      BY <2>2
    <3>2. PICK f \in TxState : f = [txs[u] EXCEPT !.prods = @ \cup {p}]
      BY <1>1, <2>1, <3>1 DEF IsMap, TxState
    <3>3. f.cmds = txs[u].cmds /\ f.prods = txs[u].prods \cup {p}
      BY <2>1, <3>1, <3>2 DEF IsMap, TxState
    <3>4. txs' = [txs EXCEPT ![u] = f]
      BY <1>3, <3>1, <3>2
    <3> QED
      BY <2>1, <3>1, <3>3, <3>4 DEF IsMap
  <2>3. CASE producers[p] \notin DOMAIN txs
    BY <1>3, <2>1, <2>3
  <2> QED
    BY <2>2, <2>3
<1>7. BrokerOK(broker)
  BY DEF TypeOK, BrokerOK
<1>8. alive => /\ BrokerOK(broker') /\ broker'.prods = broker.prods \ {p}
               /\ broker'.dests = broker.dests /\ broker'.open = broker.open
               /\ broker'.log = broker.log /\ broker'.strangers = broker.strangers
               /\ broker'.out = broker.out
  <2>1. Becomes(BrokerApply(broker, c), broker.prods \ {p}, broker.dests, broker.open,
                broker.log, broker.strangers, broker.out)
    BY <1>1, <1>7, AppliedRemoveProducer
  <2> QED
    BY <1>2, <2>1 DEF Becomes
<1>9. TypeOK'
  BY <1>2, <1>3, <1>4, <1>5, <1>6, <1>7, <1>8 DEF TypeOK, BrokerOK
<1>10. Calls'
  BY <1>2, <1>4, NoCallFields DEF Client, Calls, EndKinds
<1>11. OneUser'
  <2>1. \A r \in Sessions, t \in Txs : Uses(r, t)' => Uses(r, t)
    <3>1. \A t \in Txs : t # NoTx
      BY DEF Txs, NoTx
    <3> QED
      BY <1>4, <3>1, NoCallFields DEF Uses
  <2> QED
    BY <1>4, <2>1 DEF Client, OneUser
<1>12. SameUse
  BY <1>2, <1>4, NoCallFields DEF SameUse, InTx, Ending, EndKinds
<1>13. TrackedTx'
  BY <1>3, <1>6, <1>12, SameUseTracked DEF Client
<1>14. Owner[p] = s /\ life[p] = "closed" /\ p \in DOMAIN producers
  <2>1. Owner[p] = s
    BY <1>1, <1>2, NoCallFields DEF Client, Calls, EndKinds
  <2> QED
    BY <1>1, <1>2, <2>1 DEF Client, ProdLife
<1>15. Senders'
  <2>1. DOMAIN txs \subseteq Txs
    BY DEF TypeOK, IsMap
  <2>2. ASSUME NEW t \in DOMAIN txs, NEW q,
               q \in txs[t].prods \/ (q \in DOMAIN producers /\ producers[q] = t)
        PROVE  q \in txs'[t].prods \/ (q \in DOMAIN producers' /\ producers'[q] = t)
    BY <1>5, <1>6, <2>2
  <2>3. ASSUME NEW t \in DOMAIN txs', NEW i \in 1..sends'[t]
        PROVE  LET q == txs'[t].cmds[i + 1].o IN
               /\ q \in txs'[t].prods \/ (q \in DOMAIN producers' /\ producers'[q] = t)
               /\ \A r \in Sessions : InTx(r, t)' => Owner[q] = r
    <3>1. t \in DOMAIN txs /\ t \in Txs /\ i \in 1..sends[t] /\ txs'[t].cmds = txs[t].cmds
      BY <1>4, <1>6, <2>1
    <3> QED
      BY <1>12, <2>2, <3>1 DEF Client, Senders, SameUse
  <2> QED
    BY <2>3 DEF Senders
<1>16. \A q \in Producers : Owner[q] \in Sessions
  BY TrackerAssumption
<1>17. \A q : c = RemoveProducer(q) => q = p
  BY <1>1 DEF RemoveProducer, Cmd
<1>18. ProdLife'
  <2>1. ASSUME NEW q \in Producers
        PROVE  /\ Waits(Owner[q], AddProducer(q))' <=> Waits(Owner[q], AddProducer(q))
               /\ call'[Owner[q]] = AddProducer(q) => call[Owner[q]] = AddProducer(q)
               /\ call'[Owner[q]] = RemoveProducer(q) => call[Owner[q]] = RemoveProducer(q) /\ q # p
    <3>1. NoCall # AddProducer(q) /\ NoCall # RemoveProducer(q)
      BY NoCallFields DEF AddProducer, RemoveProducer, Cmd
    <3> QED
      BY <1>2, <1>4, <1>14, <1>16, <3>1 DEF Waits
  <2>2. \A t \in DOMAIN txs' : \A q \in txs'[t].prods : q = p \/ q \in txs[t].prods
    BY <1>6
  <2>3. life' = life /\ DOMAIN txs' = DOMAIN txs
    BY <1>4, <1>6
  <2> QED
    BY <1>5, <1>14, <2>1, <2>2, <2>3 DEF Client, ProdLife
<1>19. DestLife'
  <2>1. \A d \in Dests : /\ Owner[d] \in Sessions /\ c # AddDest(d) /\ c # RemoveDest(d)
                         /\ NoCall # AddDest(d) /\ NoCall # RemoveDest(d)
    BY TrackerAssumption, NoCallFields DEF AddDest, RemoveDest, Cmd
  <2>2. \A d \in Dests : /\ Waits(Owner[d], AddDest(d))' <=> Waits(Owner[d], AddDest(d))
                         /\ (pc'[Owner[d]] = "oneway" /\ call'[Owner[d]] = RemoveDest(d))
                              <=> (pc[Owner[d]] = "oneway" /\ call[Owner[d]] = RemoveDest(d))
                         /\ call'[Owner[d]] = AddDest(d) => call[Owner[d]] = AddDest(d)
                         /\ call'[Owner[d]] = RemoveDest(d) => call[Owner[d]] = RemoveDest(d)
    BY <1>2, <1>4, <2>1 DEF Waits
  <2> QED
    BY <1>3, <1>4, <2>2 DEF Client, DestLife
<1>20. Log'
  <2>1. broker'.log = broker.log /\ \A r \in broker'.out : r \in broker.out
    BY <1>2, <1>8
  <2>2. \A r \in Sessions : \A t \in Stored : Waits(r, Commit(t)) => Waits(r, Commit(t))'
    BY <1>2, <1>4 DEF Waits
  <2> QED
    BY <1>4, <2>1, <2>2, LogStays DEF ConnectionSide
<1>21. BrokerKnowsSender'
  BY <1>2, <1>8 DEF ConnectionSide, BrokerKnowsSender
<1>22. ASSUME alive PROVE OpenSent' /\ \A t \in DOMAIN txs' : Settled(t)'
  <2>1. Rest = {} /\ Rest' = {}
    BY <1>2 DEF Rest
  <2>2. \A x : Answered(x) => Answered(x)'
    BY <1>8, <1>22 DEF Answered
  <2>4. OpenSent'
    <3>1. \A q \in DOMAIN producers' : q \in broker'.prods
      BY <1>5, <1>8, <1>22, <2>1 DEF ConnectionSide, OpenSent
    <3>2. ASSUME NEW r \in Sessions, pc'[r] = "waiting", ~Ending(r)' PROVE Answered(call[r])'
      <4>1. call'[r] = call[r] /\ pc[r] = "waiting" /\ ~Ending(r)
        BY <1>4, <3>2 DEF Ending
      <4>2. Answered(call[r])
        BY <1>22, <2>1, <4>1 DEF ConnectionSide, OpenSent
      <4> QED
        BY <1>8, <1>22, <4>1, <4>2 DEF Answered
    <3> QED
      BY <1>3, <1>4, <1>8, <1>22, <2>1, <3>1, <3>2 DEF ConnectionSide, OpenSent
  <2>5. \A t \in DOMAIN txs' : Settled(t)'
    BY <1>2, <1>4, <1>6, <1>8, <1>22, NothingLeft, SettledStays
  <2> QED
    BY <2>4, <2>5
<1>23. ConnectionSide'
  BY <1>20, <1>21, <1>22, GoesConnection
<1> QED
  BY <1>9, <1>10, <1>11, <1>13, <1>15, <1>18, <1>19, <1>23 DEF Client

(* What is appended to a list is last. *)
LEMMA AppendLast ==
    ASSUME NEW S, NEW q \in Seq(S), NEW c \in S
    PROVE  /\ Append(q, c) \in Seq(S) /\ Len(Append(q, c)) = Len(q) + 1 /\ Len(q) \in Nat
           /\ DOMAIN q = 1..Len(q) /\ DOMAIN Append(q, c) = 1..(Len(q) + 1)
           /\ \A i \in 1..Len(q) : Append(q, c)[i] = q[i]
           /\ Append(q, c)[Len(q) + 1] = c
           /\ ToSet(Append(q, c)) = ToSet(q) \cup {c}
<1>1. /\ Append(q, c) \in Seq(S) /\ Len(Append(q, c)) = Len(q) + 1 /\ Len(q) \in Nat
      /\ DOMAIN q = 1..Len(q) /\ DOMAIN Append(q, c) = 1..(Len(q) + 1)
      /\ \A i \in 1..Len(q) : Append(q, c)[i] = q[i]
      /\ Append(q, c)[Len(q) + 1] = c
  OBVIOUS
<1>2. 1..(Len(q) + 1) = 1..Len(q) \cup {Len(q) + 1}
  BY <1>1
<1>3. ToSet(Append(q, c)) = ToSet(q) \cup {c}
  BY <1>1, <1>2 DEF ToSet
<1> QED
  BY <1>1, <1>3

(* A temporary destination is added to the list and to the broker. *)
LEMMA AddDestGoes ==
    ASSUME TypeOK, Client, ConnectionSide, NEW s \in Sessions, NEW c \in Command, Goes(s, c),
           c.k = "AddDest"
    PROVE  TypeOK' /\ Client' /\ ConnectionSide'
<1>1. PICK x : x = c.o /\ c = AddDest(x) /\ x \in Dests
  BY CommandNames, CommandKinds
<1>2. /\ pc[s] = "oneway" /\ call[s] = c /\ rpc = "idle"
      /\ broker' = IF alive THEN BrokerApply(broker, c) ELSE broker
      /\ connected' \in BOOLEAN
      /\ UNCHANGED <<rpc, seen, todo, cur, replay, doubt, alive, breaks>>
  BY DEF Goes
<1>3. temps' = Append(temps, c) /\ UNCHANGED <<producers, txs, requestMap>>
  BY <1>1 DEF Goes, Track, TrackDest
<1>4. /\ pc' \in [Sessions -> {"idle", "oneway", "waiting"}]
      /\ pc'[s] = "waiting" /\ \A r \in Sessions : r # s => pc'[r] = pc[r]
      /\ UNCHANGED <<call, tx, sends, life, nextTx, outcome>>
  BY <1>2, ReturnedSync DEF Goes, Sync
<1>5. /\ temps \in Seq(Command) /\ temps' \in Seq(Command) /\ ToSet(temps') = ToSet(temps) \cup {c}
      /\ DOMAIN temps = 1..Len(temps) /\ DOMAIN temps' = 1..(Len(temps) + 1) /\ Len(temps) \in Nat
      /\ \A i \in 1..Len(temps) : temps'[i] = temps[i]
      /\ temps'[Len(temps) + 1] = c
  <2>1. temps \in Seq(Command)
    BY DEF TypeOK
  <2> QED
    BY <1>3, <2>1, AppendLast
<1>6. BrokerOK(broker)
  BY DEF TypeOK, BrokerOK
<1>7. alive => /\ BrokerOK(broker') /\ broker'.dests = broker.dests \cup {x}
               /\ broker'.prods = broker.prods /\ broker'.open = broker.open
               /\ broker'.log = broker.log /\ broker'.strangers = broker.strangers
               /\ broker'.out = broker.out \cup Reply(c, TRUE)
  <2>1. Becomes(BrokerApply(broker, c), broker.prods, broker.dests \cup {x}, broker.open,
                broker.log, broker.strangers, broker.out \cup Reply(c, TRUE))
    BY <1>1, <1>6, AppliedAddDest
  <2> QED
    BY <1>2, <2>1 DEF Becomes
<1>8. BrokerOK(broker')
  BY <1>2, <1>6, <1>7
<1>9. TypeOK'
  BY <1>2, <1>3, <1>4, <1>5, <1>8 DEF TypeOK, BrokerOK
<1>10. Calls'
  <2>1. Sync(c)
    BY DEF Sync
  <2> QED
    BY <1>2, <1>4, <2>1, NoCallFields DEF Client, Calls
<1>11. OneUser'
  BY <1>4 DEF Client, OneUser, Uses
<1>12. SameUse
  BY <1>2, <1>4 DEF SameUse, InTx, Ending, EndKinds
<1>13. TrackedTx' /\ Senders'
  BY <1>3, <1>12, SameUseTracked, SameUseSenders DEF Client
<1>14. Owner[x] = s
  BY <1>1, <1>2, NoCallFields DEF Client, Calls, EndKinds
<1>15. ProdLife'
  <2>1. \A q \in Producers : Owner[q] \in Sessions /\ c # AddProducer(q) /\ c # RemoveProducer(q)
    BY TrackerAssumption DEF AddProducer, RemoveProducer, Cmd
  <2>2. \A q \in Producers : Waits(Owner[q], AddProducer(q))' <=> Waits(Owner[q], AddProducer(q))
    BY <1>2, <1>4, <2>1 DEF Waits
  <2> QED
    BY <1>3, <1>4, <2>2 DEF Client, ProdLife
<1>16. \A d : (c = AddDest(d) => d = x) /\ c # RemoveDest(d)
  BY <1>1 DEF AddDest, RemoveDest, Cmd
<1>17. \A d \in Dests : Owner[d] \in Sessions
  BY TrackerAssumption
<1>18. DestLife'
  <2>1. \A i \in DOMAIN temps' : temps'[i].k \in {"AddDest", "RemoveDest"}
    <3>1. \A i \in DOMAIN temps' : i \in 1..Len(temps) \/ i = Len(temps) + 1
      BY <1>5
    <3> QED
      BY <1>1, <1>5, <3>1 DEF Client, DestLife
  <2>2. ASSUME NEW d \in Dests, d # x
        PROVE  /\ Waits(Owner[d], AddDest(d))' <=> Waits(Owner[d], AddDest(d))
               /\ (pc'[Owner[d]] = "oneway" /\ call[Owner[d]] = RemoveDest(d))
                     <=> (pc[Owner[d]] = "oneway" /\ call[Owner[d]] = RemoveDest(d))
               /\ AddDest(d) \in ToSet(temps') <=> AddDest(d) \in ToSet(temps)
               /\ RemoveDest(d) \in ToSet(temps') <=> RemoveDest(d) \in ToSet(temps)
    BY <1>2, <1>4, <1>5, <1>16, <1>17, <2>2 DEF Waits
  <2>3. /\ Waits(Owner[x], AddDest(x))' /\ AddDest(x) \in ToSet(temps')
        /\ life[x] = "new" /\ RemoveDest(x) \notin ToSet(temps) /\ RemoveDest(x) \notin ToSet(temps')
        /\ call[Owner[x]] # RemoveDest(x)
    <3>1. life[x] = "new"
      BY <1>1, <1>2, <1>14 DEF Client, DestLife
    <3> QED
      BY <1>1, <1>2, <1>4, <1>5, <1>14, <1>16, <3>1 DEF Waits, Client, DestLife
  <2>4. ASSUME NEW d \in Dests
        PROVE  /\ AddDest(d) \in ToSet(temps') <=> life[d] # "new" \/ Waits(Owner[d], AddDest(d))'
               /\ RemoveDest(d) \in ToSet(temps') <=>
                     life[d] = "closed" /\ ~(pc'[Owner[d]] = "oneway" /\ call[Owner[d]] = RemoveDest(d))
    <3>1. CASE d # x
      BY <2>2, <3>1 DEF Client, DestLife
    <3>2. CASE d = x
      BY <2>3, <3>2
    <3> QED
      BY <3>1, <3>2
  <2>5. ASSUME NEW d \in Dests, NEW i \in DOMAIN temps', NEW j \in DOMAIN temps',
               temps'[i] = AddDest(d), temps'[j] = RemoveDest(d)
        PROVE  i < j
    <3>1. (i \in 1..Len(temps) \/ i = Len(temps) + 1) /\ (j \in 1..Len(temps) \/ j = Len(temps) + 1)
      BY <1>5
    <3>2. CASE i \in 1..Len(temps) /\ j \in 1..Len(temps)
      BY <1>5, <2>5, <3>2 DEF Client, DestLife
    <3>3. j # Len(temps) + 1
      BY <1>5, <1>16, <2>5
    <3>4. CASE i = Len(temps) + 1 /\ j \in 1..Len(temps)
      <4>1. d = x /\ temps[j] = RemoveDest(x)
        BY <1>5, <1>16, <2>5, <3>4
      <4>2. RemoveDest(x) \in ToSet(temps)
        BY <1>5, <3>4, <4>1 DEF ToSet
      <4> QED
        BY <2>3, <4>2
    <3> QED
      BY <3>1, <3>2, <3>3, <3>4
  <2> QED
    BY <1>4, <2>1, <2>4, <2>5 DEF Client, DestLife
<1>20. Log'
  <2>1. \A r \in Reply(c, TRUE) : r.c.k # "Commit"
    BY ReplyOK
  <2>2. broker'.log = broker.log /\ \A r \in broker'.out : r \in broker.out \/ r.c.k # "Commit" \/ ~r.ok
    BY <1>2, <1>7, <2>1
  <2>3. \A r \in Sessions : \A t \in Stored : Waits(r, Commit(t)) => Waits(r, Commit(t))'
    BY <1>2, <1>4 DEF Waits
  <2> QED
    BY <1>4, <2>2, <2>3, LogStays DEF ConnectionSide
<1>21. BrokerKnowsSender'
  BY <1>2, <1>7 DEF ConnectionSide, BrokerKnowsSender
<1>22. ASSUME alive PROVE OpenSent' /\ \A t \in DOMAIN txs' : Settled(t)'
  <2>1. Rest = {} /\ Rest' = {}
    BY <1>2 DEF Rest
  <2>2. \A y : Answered(y) => Answered(y)'
    BY <1>7, <1>22 DEF Answered
  <2>3. Answered(c)'
    BY <1>2, <1>7, <1>22, ReplyAnswers
  <2>4. OpenSent'
    <3>1. \A r \in Sessions : pc'[r] = "waiting" /\ ~Ending(r)' => Answered(call[r])'
      BY <1>2, <1>4, <1>22, <2>1, <2>2, <2>3 DEF ConnectionSide, OpenSent, Ending
    <3>2. \A q \in DOMAIN producers' : q \in broker'.prods
      BY <1>3, <1>7, <1>22, <2>1 DEF ConnectionSide, OpenSent
    <3>3. ASSUME NEW d \in Dests
          PROVE  /\ AddDest(d) \in ToSet(temps') =>
                       d \in broker'.dests \/ RemoveDest(d) \in ToSet(temps')
                 /\ d \in broker'.dests =>
                       AddDest(d) \in ToSet(temps') /\ RemoveDest(d) \notin ToSet(temps')
      <4>1. /\ AddDest(d) \in ToSet(temps) => d \in broker.dests \/ RemoveDest(d) \in ToSet(temps)
            /\ d \in broker.dests => AddDest(d) \in ToSet(temps) /\ RemoveDest(d) \notin ToSet(temps)
        BY <1>22, <2>1 DEF ConnectionSide, OpenSent
      <4>2. RemoveDest(x) \notin ToSet(temps)
        BY <1>1, <1>2, <1>14 DEF Client, DestLife
      <4> QED
        BY <1>1, <1>5, <1>7, <1>16, <1>22, <4>1, <4>2
    <3> QED
      BY <1>4, <2>1, <3>1, <3>2, <3>3 DEF OpenSent
  <2>5. \A t \in DOMAIN txs' : Settled(t)'
    BY <1>2, <1>3, <1>4, <1>7, <1>22, NothingLeft, SettledStays
  <2> QED
    BY <2>4, <2>5
<1>23. ConnectionSide'
  BY <1>20, <1>21, <1>22, GoesConnection
<1> QED
  BY <1>9, <1>10, <1>11, <1>13, <1>15, <1>18, <1>23 DEF Client

(* Its removal is appended to the list too, after its addition. *)
LEMMA RemoveDestGoes ==
    ASSUME TypeOK, Client, ConnectionSide, NEW s \in Sessions, NEW c \in Command, Goes(s, c),
           c.k = "RemoveDest"
    PROVE  TypeOK' /\ Client' /\ ConnectionSide'
<1>1. PICK x : x = c.o /\ c = RemoveDest(x) /\ x \in Dests
  BY CommandNames, CommandKinds
<1>2. /\ pc[s] = "oneway" /\ call[s] = c /\ rpc = "idle"
      /\ broker' = IF alive THEN BrokerApply(broker, c) ELSE broker
      /\ connected' \in BOOLEAN
      /\ UNCHANGED <<rpc, seen, todo, cur, replay, doubt, alive, breaks>>
  BY DEF Goes
<1>3. temps' = Append(temps, c) /\ UNCHANGED <<producers, txs, requestMap>>
  BY <1>1 DEF Goes, Track, TrackDest
<1>4. /\ pc' \in [Sessions -> {"idle", "oneway", "waiting"}]
      /\ pc'[s] = "waiting" /\ \A r \in Sessions : r # s => pc'[r] = pc[r]
      /\ UNCHANGED <<call, tx, sends, life, nextTx, outcome>>
  BY <1>2, ReturnedSync DEF Goes, Sync
<1>5. /\ temps \in Seq(Command) /\ temps' \in Seq(Command) /\ ToSet(temps') = ToSet(temps) \cup {c}
      /\ DOMAIN temps = 1..Len(temps) /\ DOMAIN temps' = 1..(Len(temps) + 1) /\ Len(temps) \in Nat
      /\ \A i \in 1..Len(temps) : temps'[i] = temps[i]
      /\ temps'[Len(temps) + 1] = c
  <2>1. temps \in Seq(Command)
    BY DEF TypeOK
  <2> QED
    BY <1>3, <2>1, AppendLast
<1>6. BrokerOK(broker)
  BY DEF TypeOK, BrokerOK
<1>7. alive => /\ BrokerOK(broker') /\ broker'.dests = broker.dests \ {x}
               /\ broker'.prods = broker.prods /\ broker'.open = broker.open
               /\ broker'.log = broker.log /\ broker'.strangers = broker.strangers
               /\ broker'.out = broker.out \cup Reply(c, TRUE)
  <2>1. Becomes(BrokerApply(broker, c), broker.prods, broker.dests \ {x}, broker.open,
                broker.log, broker.strangers, broker.out \cup Reply(c, TRUE))
    BY <1>1, <1>6, AppliedRemoveDest
  <2> QED
    BY <1>2, <2>1 DEF Becomes
<1>8. BrokerOK(broker')
  BY <1>2, <1>6, <1>7
<1>9. TypeOK'
  BY <1>2, <1>3, <1>4, <1>5, <1>8 DEF TypeOK, BrokerOK
<1>10. Calls'
  <2>1. Sync(c)
    BY DEF Sync
  <2> QED
    BY <1>2, <1>4, <2>1, NoCallFields DEF Client, Calls
<1>11. OneUser'
  BY <1>4 DEF Client, OneUser, Uses
<1>12. SameUse
  BY <1>2, <1>4 DEF SameUse, InTx, Ending, EndKinds
<1>13. TrackedTx' /\ Senders'
  BY <1>3, <1>12, SameUseTracked, SameUseSenders DEF Client
<1>14. Owner[x] = s
  BY <1>1, <1>2, NoCallFields DEF Client, Calls, EndKinds
<1>15. ProdLife'
  <2>1. \A q \in Producers : Owner[q] \in Sessions /\ c # AddProducer(q) /\ c # RemoveProducer(q)
    BY TrackerAssumption DEF AddProducer, RemoveProducer, Cmd
  <2>2. \A q \in Producers : Waits(Owner[q], AddProducer(q))' <=> Waits(Owner[q], AddProducer(q))
    BY <1>2, <1>4, <2>1 DEF Waits
  <2> QED
    BY <1>3, <1>4, <2>2 DEF Client, ProdLife
<1>16. \A d : (c = RemoveDest(d) => d = x) /\ c # AddDest(d)
  BY <1>1 DEF AddDest, RemoveDest, Cmd
<1>17. \A d \in Dests : Owner[d] \in Sessions
  BY TrackerAssumption
<1>18. DestLife'
  <2>1. \A i \in DOMAIN temps' : temps'[i].k \in {"AddDest", "RemoveDest"}
    <3>1. \A i \in DOMAIN temps' : i \in 1..Len(temps) \/ i = Len(temps) + 1
      BY <1>5
    <3> QED
      BY <1>1, <1>5, <3>1 DEF Client, DestLife
  <2>2. ASSUME NEW d \in Dests, d # x
        PROVE  /\ Waits(Owner[d], AddDest(d))' <=> Waits(Owner[d], AddDest(d))
               /\ (pc'[Owner[d]] = "oneway" /\ call[Owner[d]] = RemoveDest(d))
                     <=> (pc[Owner[d]] = "oneway" /\ call[Owner[d]] = RemoveDest(d))
               /\ AddDest(d) \in ToSet(temps') <=> AddDest(d) \in ToSet(temps)
               /\ RemoveDest(d) \in ToSet(temps') <=> RemoveDest(d) \in ToSet(temps)
    BY <1>2, <1>4, <1>5, <1>16, <1>17, <2>2 DEF Waits
  <2>3. /\ ~Waits(Owner[x], AddDest(x))' /\ AddDest(x) \in ToSet(temps)
        /\ life[x] = "closed" /\ RemoveDest(x) \notin ToSet(temps) /\ RemoveDest(x) \in ToSet(temps')
        /\ AddDest(x) \in ToSet(temps') /\ pc'[Owner[x]] # "oneway" /\ call[Owner[x]] # AddDest(x)
    <3>1. life[x] = "closed"
      BY <1>1, <1>2, <1>14 DEF Client, DestLife
    <3> QED
      BY <1>1, <1>2, <1>4, <1>5, <1>14, <1>16, <3>1 DEF Waits, Client, DestLife
  <2>4. ASSUME NEW d \in Dests
        PROVE  /\ AddDest(d) \in ToSet(temps') <=> life[d] # "new" \/ Waits(Owner[d], AddDest(d))'
               /\ RemoveDest(d) \in ToSet(temps') <=>
                     life[d] = "closed" /\ ~(pc'[Owner[d]] = "oneway" /\ call[Owner[d]] = RemoveDest(d))
    <3>1. CASE d # x
      BY <2>2, <3>1 DEF Client, DestLife
    <3>2. CASE d = x
      BY <2>3, <3>2
    <3> QED
      BY <3>1, <3>2
  <2>5. ASSUME NEW d \in Dests, NEW i \in DOMAIN temps', NEW j \in DOMAIN temps',
               temps'[i] = AddDest(d), temps'[j] = RemoveDest(d)
        PROVE  i < j
    <3>1. (i \in 1..Len(temps) \/ i = Len(temps) + 1) /\ (j \in 1..Len(temps) \/ j = Len(temps) + 1)
      BY <1>5
    <3>2. CASE i \in 1..Len(temps) /\ j \in 1..Len(temps)
      BY <1>5, <2>5, <3>2 DEF Client, DestLife
    <3>3. i # Len(temps) + 1
      BY <1>5, <1>16, <2>5
    <3>4. CASE i \in 1..Len(temps) /\ j = Len(temps) + 1
      BY <1>5, <3>4
    <3> QED
      BY <3>1, <3>2, <3>3, <3>4
  <2> QED
    BY <1>4, <2>1, <2>4, <2>5 DEF Client, DestLife
<1>20. Log'
  <2>1. \A r \in Reply(c, TRUE) : r.c.k # "Commit"
    BY ReplyOK
  <2>2. broker'.log = broker.log /\ \A r \in broker'.out : r \in broker.out \/ r.c.k # "Commit" \/ ~r.ok
    BY <1>2, <1>7, <2>1
  <2>3. \A r \in Sessions : \A t \in Stored : Waits(r, Commit(t)) => Waits(r, Commit(t))'
    BY <1>2, <1>4 DEF Waits
  <2> QED
    BY <1>4, <2>2, <2>3, LogStays DEF ConnectionSide
<1>21. BrokerKnowsSender'
  BY <1>2, <1>7 DEF ConnectionSide, BrokerKnowsSender
<1>22. ASSUME alive PROVE OpenSent' /\ \A t \in DOMAIN txs' : Settled(t)'
  <2>1. Rest = {} /\ Rest' = {}
    BY <1>2 DEF Rest
  <2>2. \A y : Answered(y) => Answered(y)'
    BY <1>7, <1>22 DEF Answered
  <2>3. Answered(c)'
    BY <1>2, <1>7, <1>22, ReplyAnswers
  <2>4. OpenSent'
    <3>1. \A r \in Sessions : pc'[r] = "waiting" /\ ~Ending(r)' => Answered(call[r])'
      BY <1>2, <1>4, <1>22, <2>1, <2>2, <2>3 DEF ConnectionSide, OpenSent, Ending
    <3>2. \A q \in DOMAIN producers' : q \in broker'.prods
      BY <1>3, <1>7, <1>22, <2>1 DEF ConnectionSide, OpenSent
    <3>3. ASSUME NEW d \in Dests
          PROVE  /\ AddDest(d) \in ToSet(temps') =>
                       d \in broker'.dests \/ RemoveDest(d) \in ToSet(temps')
                 /\ d \in broker'.dests =>
                       AddDest(d) \in ToSet(temps') /\ RemoveDest(d) \notin ToSet(temps')
      <4>1. /\ AddDest(d) \in ToSet(temps) => d \in broker.dests \/ RemoveDest(d) \in ToSet(temps)
            /\ d \in broker.dests => AddDest(d) \in ToSet(temps) /\ RemoveDest(d) \notin ToSet(temps)
        BY <1>22, <2>1 DEF ConnectionSide, OpenSent
      <4> QED
        BY <1>1, <1>5, <1>7, <1>16, <1>22, <4>1
    <3> QED
      BY <1>4, <2>1, <3>1, <3>2, <3>3 DEF OpenSent
  <2>5. \A t \in DOMAIN txs' : Settled(t)'
    BY <1>2, <1>3, <1>4, <1>7, <1>22, NothingLeft, SettledStays
  <2> QED
    BY <2>4, <2>5
<1>23. ConnectionSide'
  BY <1>20, <1>21, <1>22, GoesConnection
<1> QED
  BY <1>9, <1>10, <1>11, <1>13, <1>15, <1>18, <1>23 DEF Client

(* The commands of a transaction leave what is tracked of producers and destinations. *)
LEMMA TxGoesLives ==
    ASSUME TypeOK, ProdLife, DestLife, NEW s \in Sessions, pc[s] = "oneway",
           call[s].k \in {"Begin", "Message"} \cup EndKinds,
           call'[s].k \in {"Begin", "Message", "None"} \cup EndKinds,
           \A r \in Sessions : r # s => pc'[r] = pc[r] /\ call'[r] = call[r],
           life' = life, temps' = temps, DOMAIN producers' = DOMAIN producers,
           \A u \in DOMAIN txs' : txs'[u].prods = {} \/ (u \in DOMAIN txs /\ txs'[u].prods = txs[u].prods)
    PROVE  ProdLife' /\ DestLife'
<1>1. \A o \in Producers \cup Dests : Owner[o] \in Sessions
  BY TrackerAssumption
<1>2. \A o : /\ AddProducer(o).k = "AddProducer" /\ RemoveProducer(o).k = "RemoveProducer"
             /\ AddDest(o).k = "AddDest" /\ RemoveDest(o).k = "RemoveDest"
  BY DEF AddProducer, RemoveProducer, AddDest, RemoveDest, Cmd
<1>3. ASSUME NEW r \in Sessions, NEW x,
             x.k \in {"AddProducer", "RemoveProducer", "AddDest", "RemoveDest"}
      PROVE  /\ call'[r] = x <=> call[r] = x
             /\ call[r] = x => pc'[r] = pc[r]
  BY <1>3 DEF EndKinds
<1>4. ASSUME NEW p \in Producers
      PROVE  /\ Waits(Owner[p], AddProducer(p))' <=> Waits(Owner[p], AddProducer(p))
             /\ call'[Owner[p]] = AddProducer(p) <=> call[Owner[p]] = AddProducer(p)
             /\ call'[Owner[p]] = RemoveProducer(p) <=> call[Owner[p]] = RemoveProducer(p)
  <2>1. /\ call'[Owner[p]] = AddProducer(p) <=> call[Owner[p]] = AddProducer(p)
        /\ call[Owner[p]] = AddProducer(p) => pc'[Owner[p]] = pc[Owner[p]]
    BY <1>1, <1>2, <1>3
  <2>2. call'[Owner[p]] = RemoveProducer(p) <=> call[Owner[p]] = RemoveProducer(p)
    BY <1>1, <1>2, <1>3
  <2> QED
    BY <2>1, <2>2 DEF Waits
<1>5. ProdLife'
  BY <1>4 DEF ProdLife
<1>6. ASSUME NEW d \in Dests
      PROVE  /\ Waits(Owner[d], AddDest(d))' <=> Waits(Owner[d], AddDest(d))
             /\ (pc'[Owner[d]] = "oneway" /\ call'[Owner[d]] = RemoveDest(d))
                  <=> (pc[Owner[d]] = "oneway" /\ call[Owner[d]] = RemoveDest(d))
             /\ call'[Owner[d]] = AddDest(d) <=> call[Owner[d]] = AddDest(d)
             /\ call'[Owner[d]] = RemoveDest(d) <=> call[Owner[d]] = RemoveDest(d)
  <2>1. /\ call'[Owner[d]] = AddDest(d) <=> call[Owner[d]] = AddDest(d)
        /\ call[Owner[d]] = AddDest(d) => pc'[Owner[d]] = pc[Owner[d]]
    BY <1>1, <1>2, <1>3
  <2>2. /\ call'[Owner[d]] = RemoveDest(d) <=> call[Owner[d]] = RemoveDest(d)
        /\ call[Owner[d]] = RemoveDest(d) => pc'[Owner[d]] = pc[Owner[d]]
    BY <1>1, <1>2, <1>3
  <2> QED
    BY <2>1, <2>2 DEF Waits
<1>7. DestLife'
  BY <1>6 DEF DestLife
<1> QED
  BY <1>5, <1>7

(* Nor do they change what the broker has of them. *)
LEMMA TxGoesOpenSent ==
    ASSUME OpenSent, alive, rpc = "idle", rpc' = "idle", temps' = temps,
           DOMAIN producers' = DOMAIN producers, broker'.prods = broker.prods,
           broker'.dests = broker.dests, broker.out \subseteq broker'.out,
           \A r \in Sessions : pc'[r] = "waiting" /\ ~Ending(r)' =>
               pc[r] = "waiting" /\ ~Ending(r) /\ call'[r] = call[r]
    PROVE  OpenSent'
<1>1. Rest = {} /\ Rest' = {}
  BY DEF Rest
<1>2. ASSUME NEW r \in Sessions, pc'[r] = "waiting", ~Ending(r)' PROVE Answered(call[r])'
  <2>1. pc[r] = "waiting" /\ ~Ending(r) /\ call'[r] = call[r]
    BY <1>2
  <2>2. Answered(call[r])
    BY <1>1, <2>1 DEF OpenSent
  <2> QED
    BY <2>1, <2>2 DEF Answered
<1> QED
  BY <1>1, <1>2 DEF OpenSent

(* A begin: the transaction is new to the tracker. *)
LEMMA BeginGoes ==
    ASSUME TypeOK, Client, ConnectionSide, NEW s \in Sessions, NEW c \in Command, Goes(s, c),
           c.k = "Begin"
    PROVE  TypeOK' /\ Client' /\ ConnectionSide'
<1>1. PICK p \in Producers, t \in Txs : c = Begin(p, t) /\ p = c.o /\ t = c.t
  BY CommandNames, CommandKinds
<1>2. /\ pc[s] = "oneway" /\ call[s] = c /\ rpc = "idle"
      /\ broker' = IF alive THEN BrokerApply(broker, c) ELSE broker
      /\ connected' \in BOOLEAN
      /\ UNCHANGED <<rpc, seen, todo, cur, replay, doubt, alive, breaks>>
  BY DEF Goes
<1>3. /\ txs' = With(txs, t, [cmds |-> <<c>>, prods |-> {}])
      /\ UNCHANGED <<producers, temps, requestMap>>
  BY <1>1 DEF Goes, Track, TrackBegin
<1>4. /\ pc' = pc /\ call' \in [Sessions -> Command \cup {NoCall}]
      /\ call'[s] = Message(p, t, 1) /\ \A r \in Sessions : r # s => call'[r] = call[r]
      /\ tx' \in [Sessions -> Txs \cup {NoTx}]
      /\ tx'[s] = t /\ \A r \in Sessions : r # s => tx'[r] = tx[r]
      /\ UNCHANGED <<sends, life, nextTx, outcome>>
  BY <1>1, <1>2, ReturnedBegin DEF Goes
<1>5. /\ Owner[p] = s /\ life[p] = "open" /\ tx[s] = NoTx /\ sends[t] = 0
      /\ t # NoTx /\ c.k \notin EndKinds
  <2>1. Owner[p] = s
    BY <1>1, <1>2, NoCallFields DEF Client, Calls, EndKinds
  <2> QED
    BY <1>1, <1>2, <2>1 DEF Client, Calls, EndKinds, Txs, NoTx
<1>6. ASSUME NEW r \in Sessions PROVE ~InTx(r, t) /\ (Ending(r) => call[r].t # t)
  <2>1. Uses(s, t) /\ ~InTx(s, t) /\ ~Ending(s)
    BY <1>1, <1>2, <1>5 DEF Uses, InTx, Ending
  <2>2. (InTx(r, t) => Uses(r, t)) /\ (Ending(r) /\ call[r].t = t => Uses(r, t))
    BY DEF InTx, Uses
  <2> QED
    BY <2>1, <2>2 DEF Client, OneUser
<1>7. t \notin DOMAIN txs
  BY <1>6 DEF Client, TrackedTx
<1>8. Message(p, t, 1).k = "Message" /\ Message(p, t, 1).o = p /\ Message(p, t, 1).t = t
      /\ Message(p, t, 1).i = 1
  BY DEF Message, Cmd
<1>9. /\ IsMap(txs', Txs, TxState) /\ DOMAIN txs' = DOMAIN txs \cup {t}
      /\ txs'[t].cmds = <<c>> /\ txs'[t].prods = {}
      /\ \A u \in DOMAIN txs : u # t /\ txs'[u] = txs[u]
  <2>1. PICK v \in TxState : v = [cmds |-> <<c>>, prods |-> {}]
    <3>1. <<c>> \in Seq(Command)
      OBVIOUS
    <3> QED
      BY <3>1 DEF TxState
  <2>2. IsMap(txs, Txs, TxState) /\ txs' = With(txs, t, v)
    BY <1>3, <2>1 DEF TypeOK
  <2>3. /\ IsMap(txs', Txs, TxState) /\ DOMAIN txs' = DOMAIN txs \cup {t} /\ txs'[t] = v
        /\ \A u \in DOMAIN txs : u # t => txs'[u] = txs[u]
    BY <2>2 DEF IsMap, With
  <2> QED
    BY <1>7, <2>1, <2>3
<1>10. BrokerOK(broker)
  BY DEF TypeOK, BrokerOK
<1>11. alive => /\ BrokerOK(broker') /\ broker'.prods = broker.prods
                /\ broker'.dests = broker.dests
                /\ t \in DOMAIN broker'.open /\ broker'.open[t] = <<>>
                /\ \A u \in DOMAIN broker.open : u # t =>
                      u \in DOMAIN broker'.open /\ broker'.open[u] = broker.open[u]
                /\ broker'.log = broker.log /\ broker'.strangers = broker.strangers
                /\ broker'.out = broker.out
  <2>1. /\ Becomes(BrokerApply(broker, c), broker.prods, broker.dests, With(broker.open, t, <<>>),
                   broker.log, broker.strangers, broker.out)
        /\ DOMAIN With(broker.open, t, <<>>) = DOMAIN broker.open \cup {t}
        /\ With(broker.open, t, <<>>)[t] = <<>>
        /\ \A u \in DOMAIN broker.open : u # t => With(broker.open, t, <<>>)[u] = broker.open[u]
    BY <1>1, <1>10, AppliedBegin
  <2> QED
    BY <1>2, <2>1 DEF Becomes
<1>12. BrokerOK(broker')
  BY <1>2, <1>10, <1>11
<1>13. TypeOK'
  BY <1>2, <1>3, <1>4, <1>9, <1>12 DEF TypeOK, BrokerOK
<1>14. Calls'
  <2>1. Message(p, t, 1) # NoCall
    BY <1>8, NoCallFields
  <2> QED
    BY <1>2, <1>4, <1>5, <1>8, <2>1 DEF Client, Calls, EndKinds
<1>15. OneUser'
  <2>1. \A r \in Sessions, u \in Txs : Uses(r, u)' => Uses(r, u)
    BY <1>1, <1>2, <1>4, <1>8 DEF Uses
  <2> QED
    BY <1>4, <2>1 DEF Client, OneUser
<1>16. /\ \A r \in Sessions, u \in Txs : InTx(r, u)' <=> InTx(r, u) \/ (r = s /\ u = t)
       /\ \A r \in Sessions : (Ending(r)' <=> Ending(r)) /\ (Ending(r) => call'[r] = call[r])
  <2>1. \A u \in Txs : InTx(s, u)' <=> InTx(s, u) \/ u = t
    BY <1>2, <1>4, <1>5, <1>8 DEF InTx, EndKinds, Txs, NoTx
  <2>2. \A r \in Sessions, u \in Txs : r # s => (InTx(r, u)' <=> InTx(r, u))
    BY <1>4 DEF InTx
  <2>3. \A r \in Sessions : (Ending(r)' <=> Ending(r)) /\ (Ending(r) => call'[r] = call[r])
    BY <1>2, <1>4 DEF Ending
  <2> QED
    BY <2>1, <2>2, <2>3
<1>17. TrackedTx'
  <2>1. \A u \in Txs : u \in DOMAIN txs' <=> \E r \in Sessions : InTx(r, u)'
    BY <1>9, <1>16 DEF Client, TrackedTx
  <2>2. Kept(t)'
    <3>1. Len(txs'[t].cmds) = 1 /\ txs'[t].cmds[1] = c /\ sends'[t] = 0
      BY <1>4, <1>5, <1>9
    <3>2. \A r \in Sessions : Ending(r)' => call'[r].t # t
      BY <1>6, <1>16
    <3>3. \A i \in 1..sends'[t] : FALSE
      BY <3>1
    <3>4. c.k = "Begin" /\ c.t = t
      BY <1>1
    <3>5. Len(txs'[t].cmds) = sends'[t] + 1
      BY <3>1
    <3> QED
      BY <3>1, <3>2, <3>3, <3>4, <3>5 DEF Kept
  <2>3. ASSUME NEW u \in DOMAIN txs PROVE Kept(u)'
    <3>1. Kept(u) /\ txs'[u].cmds = txs[u].cmds /\ sends' = sends
      BY <1>4, <1>9 DEF Client, TrackedTx
    <3> QED
      BY <1>16, <3>1 DEF Kept
  <2>4. requestMap' = {call'[r] : r \in {q \in Sessions : Ending(q)'}}
    <3>1. {q \in Sessions : Ending(q)'} = {q \in Sessions : Ending(q)}
      BY <1>16
    <3>2. {call'[r] : r \in {q \in Sessions : Ending(q)}} = {call[r] : r \in {q \in Sessions : Ending(q)}}
      BY <1>16
    <3> QED
      BY <1>3, <3>1, <3>2 DEF Client, TrackedTx
  <2> QED
    BY <1>9, <2>1, <2>2, <2>3, <2>4 DEF TrackedTx
<1>18. Senders'
  <2>1. ASSUME NEW u \in DOMAIN txs', NEW i \in 1..sends'[u]
        PROVE  LET q == txs'[u].cmds[i + 1].o IN
               /\ q \in txs'[u].prods \/ (q \in DOMAIN producers' /\ producers'[q] = u)
               /\ \A r \in Sessions : InTx(r, u)' => Owner[q] = r
    <3>1. u # t
      BY <1>4, <1>5, <2>1
    <3>2. u \in DOMAIN txs /\ u \in Txs /\ txs'[u] = txs[u] /\ i \in 1..sends[u]
      BY <1>4, <1>9, <3>1 DEF TypeOK, IsMap
    <3>3. PICK q : q = txs[u].cmds[i + 1].o
      OBVIOUS
    <3>4. /\ q \in txs[u].prods \/ (q \in DOMAIN producers /\ producers[q] = u)
          /\ \A r \in Sessions : InTx(r, u) => Owner[q] = r
      BY <3>2, <3>3 DEF Client, Senders
    <3>5. \A r \in Sessions : InTx(r, u)' => InTx(r, u)
      BY <1>16, <3>1, <3>2
    <3> QED
      BY <1>3, <3>2, <3>3, <3>4, <3>5
  <2> QED
    BY <2>1 DEF Senders
<1>19. ProdLife' /\ DestLife'
  BY <1>2, <1>3, <1>4, <1>8, <1>9, TxGoesLives, ZenonT(60) DEF Client
<1>20. Log'
  <2>1. broker'.log = broker.log /\ \A r \in broker'.out : r \in broker.out
    BY <1>2, <1>11
  <2>2. \A r \in Sessions : \A u \in Stored : Waits(r, Commit(u)) => Waits(r, Commit(u))'
    BY <1>2, <1>4 DEF Waits
  <2> QED
    BY <1>4, <2>1, <2>2, LogStays DEF ConnectionSide
<1>21. BrokerKnowsSender'
  BY <1>2, <1>11 DEF ConnectionSide, BrokerKnowsSender
<1>22. ASSUME alive PROVE OpenSent' /\ \A u \in DOMAIN txs' : Settled(u)'
  <2>1. OpenSent'
    BY <1>2, <1>3, <1>4, <1>11, <1>16, <1>22, TxGoesOpenSent DEF ConnectionSide
  <2>2. Settled(t)'
    <3>1. Len(txs'[t].cmds) = 1 /\ sends'[t] = 0
      BY <1>4, <1>5, <1>9
    <3>2. <<>> = [i \in 1..0 |-> i]
      OBVIOUS
    <3> QED
      BY <1>11, <1>22, <3>1, <3>2 DEF Settled
  <2>3. \A u \in DOMAIN txs : Settled(u)'
    BY <1>2, <1>4, <1>9, <1>11, <1>22, NothingLeft, SettledStays
  <2> QED
    BY <1>9, <2>1, <2>2, <2>3
<1>23. ConnectionSide'
  BY <1>20, <1>21, <1>22, GoesConnection
<1> QED
  BY <1>13, <1>14, <1>15, <1>17, <1>18, <1>19, <1>23 DEF Client

(* A command is added to those kept of a transaction. *)
LEMMA CmdTracked ==
    ASSUME TypeOK, NEW t \in DOMAIN txs, NEW c \in Command,
           txs' = [txs EXCEPT ![t].cmds = Append(@, c)]
    PROVE  /\ IsMap(txs', Txs, TxState) /\ DOMAIN txs' = DOMAIN txs
           /\ Len(txs[t].cmds) \in Nat /\ Len(txs'[t].cmds) = Len(txs[t].cmds) + 1
           /\ txs'[t].cmds[Len(txs[t].cmds) + 1] = c
           /\ \A j \in 1..Len(txs[t].cmds) : txs'[t].cmds[j] = txs[t].cmds[j]
           /\ \A u \in DOMAIN txs : txs'[u].prods = txs[u].prods
           /\ \A u \in DOMAIN txs : u # t => txs'[u] = txs[u]
<1>1. IsMap(txs, Txs, TxState)
  BY DEF TypeOK
<1>2. txs[t] \in TxState /\ txs[t].cmds \in Seq(Command)
  BY <1>1 DEF IsMap, TxState
<1>3. PICK n \in Seq(Command) : n = Append(txs[t].cmds, c)
  BY <1>2, AppendProperties
<1>4. /\ Len(txs[t].cmds) \in Nat /\ Len(n) = Len(txs[t].cmds) + 1 /\ n[Len(txs[t].cmds) + 1] = c
      /\ \A j \in 1..Len(txs[t].cmds) : n[j] = txs[t].cmds[j]
  BY <1>2, <1>3
<1>5. PICK f \in TxState : f = [txs[t] EXCEPT !.cmds = n]
  BY <1>2 DEF TxState
<1>6. f.cmds = n /\ f.prods = txs[t].prods
  BY <1>2, <1>5 DEF TxState
<1>7. txs' = [txs EXCEPT ![t] = f]
  BY <1>3, <1>5
<1>8. /\ IsMap(txs', Txs, TxState) /\ DOMAIN txs' = DOMAIN txs /\ txs'[t] = f
      /\ \A u \in DOMAIN txs : u # t => txs'[u] = txs[u]
  BY <1>1, <1>7 DEF IsMap
<1> QED
  BY <1>4, <1>6, <1>8

(* While a session goes on with a transaction nobody ends it and it is not stored. *)
LEMMA GoesOn ==
    ASSUME TypeOK, Client, Log, NEW s \in Sessions, NEW t \in Txs, Uses(s, t), pc[s] # "waiting"
    PROVE  /\ t \notin Stored /\ outcome[t] = None
           /\ \A r \in Sessions : /\ Ending(r) => call[r].t # t
                                  /\ InTx(r, t) => r = s
                                  /\ Uses(r, t) => r = s
           /\ t \in DOMAIN txs => Kept(t) /\ Len(txs[t].cmds) = sends[t] + 1
<1>1. outcome[t] = None /\ \A r \in Sessions : Uses(r, t) => r = s
  BY DEF Client, OneUser
<1>2. \A r \in Sessions : Ending(r) => call[r].t # t
  BY <1>1 DEF Ending, Uses
<1>3. \A r \in Sessions : InTx(r, t) => r = s
  BY <1>1 DEF InTx, Uses
<1>4. t \notin Stored
  <2>1. ASSUME NEW r \in Sessions, Waits(r, Commit(t)) PROVE FALSE
    <3>1. Uses(r, t)
      BY <2>1 DEF Waits, Uses, Commit, Cmd
    <3> QED
      BY <1>1, <2>1, <3>1 DEF Waits
  <2>2. outcome[t] \notin {"committed", "failed"}
    BY <1>1 DEF None
  <2> QED
    BY <2>1, <2>2 DEF Log
<1>5. t \in DOMAIN txs => Kept(t)
  BY DEF Client, TrackedTx
<1>6. t \in DOMAIN txs => Len(txs[t].cmds) = sends[t] + 1
  BY <1>2, <1>5 DEF Kept
<1> QED
  BY <1>1, <1>2, <1>3, <1>4, <1>5, <1>6

(* What is stored are transactions. *)
LEMMA StoredTxs ==
    ASSUME BrokerOK(broker)
    PROVE  Stored \subseteq Txs
<1>1. broker.log \in Seq([t : Txs, msgs : Seq(Nat)])
  BY PartsOf
<1>2. ASSUME NEW j \in DOMAIN broker.log PROVE broker.log[j].t \in Txs
  <2>1. j \in 1..Len(broker.log)
    BY <1>1
  <2>2. broker.log[j] \in [t : Txs, msgs : Seq(Nat)]
    BY <1>1, <2>1, ElementOfSeq
  <2> QED
    BY <2>2
<1> QED
  BY <1>2 DEF Stored

(* The next message of a transaction. *)
LEMMA OneMore ==
    ASSUME NEW n \in Nat
    PROVE  Append([i \in 1..n |-> i], n + 1) = [i \in 1..(n + 1) |-> i]
  OBVIOUS

(* A message: it is kept, and its producer is now one of this transaction. *)
LEMMA MessageGoes ==
    ASSUME TypeOK, Client, ConnectionSide, NEW s \in Sessions, NEW c \in Command, Goes(s, c),
           c.k = "Message"
    PROVE  TypeOK' /\ Client' /\ ConnectionSide'
<1>1. PICK p \in Producers, t \in Txs, n \in 1..MaxSends :
         c = Message(p, t, n) /\ p = c.o /\ t = c.t /\ n = c.i
  BY CommandNames, CommandKinds
<1>2. /\ pc[s] = "oneway" /\ call[s] = c /\ rpc = "idle"
      /\ broker' = IF alive THEN BrokerApply(broker, c) ELSE broker
      /\ connected' \in BOOLEAN
      /\ UNCHANGED <<rpc, seen, todo, cur, replay, doubt, alive, breaks>>
  BY DEF Goes
<1>3. /\ t \in DOMAIN txs /\ p \in DOMAIN producers
      /\ txs' = [txs EXCEPT ![t].cmds = Append(@, c)]
      /\ producers' = [producers EXCEPT ![p] = t]
      /\ UNCHANGED <<temps, requestMap>>
  BY <1>1 DEF Goes, Track, TrackMessage
<1>4. /\ pc' \in [Sessions -> {"idle", "oneway", "waiting"}]
      /\ pc'[s] = "idle" /\ \A r \in Sessions : r # s => pc'[r] = pc[r]
      /\ call' \in [Sessions -> Command \cup {NoCall}]
      /\ call'[s] = NoCall /\ \A r \in Sessions : r # s => call'[r] = call[r]
      /\ sends' = [sends EXCEPT ![t] = n]
      /\ UNCHANGED <<tx, life, nextTx, outcome>>
  BY <1>1, ReturnedIdle DEF Goes
<1>5. Owner[p] = s /\ life[p] = "open" /\ tx[s] = t /\ n = sends[t] + 1 /\ t # NoTx
  <2>1. Owner[p] = s
    BY <1>1, <1>2, NoCallFields DEF Client, Calls, EndKinds
  <2> QED
    BY <1>1, <1>2, <2>1 DEF Client, Calls, Txs, NoTx
<1>6. /\ sends \in [Txs -> 0..MaxSends] /\ sends' \in [Txs -> 0..MaxSends] /\ sends'[t] = n
      /\ \A u \in Txs : u # t => sends'[u] = sends[u]
      /\ n \in Nat /\ sends[t] \in Nat
  <2>1. n \in 0..MaxSends /\ n \in Nat
    BY <1>1, TrackerAssumption
  <2> QED
    BY <1>4, <2>1, TrackerAssumption DEF TypeOK
<1>7. /\ t \notin Stored /\ Kept(t) /\ Len(txs[t].cmds) = n
      /\ \A r \in Sessions : /\ Ending(r) => call[r].t # t
                             /\ InTx(r, t) => r = s
  <2>1. Uses(s, t)
    BY <1>5 DEF Uses
  <2> QED
    BY <1>2, <1>3, <1>5, <2>1, GoesOn DEF ConnectionSide
<1>8. /\ IsMap(txs', Txs, TxState) /\ DOMAIN txs' = DOMAIN txs
      /\ Len(txs'[t].cmds) = n + 1 /\ txs'[t].cmds[n + 1] = c
      /\ \A j \in 1..n : txs'[t].cmds[j] = txs[t].cmds[j]
      /\ \A u \in DOMAIN txs : txs'[u].prods = txs[u].prods
      /\ \A u \in DOMAIN txs : u # t => txs'[u] = txs[u]
  <2>1. /\ IsMap(txs', Txs, TxState) /\ DOMAIN txs' = DOMAIN txs
        /\ Len(txs'[t].cmds) = Len(txs[t].cmds) + 1
        /\ txs'[t].cmds[Len(txs[t].cmds) + 1] = c
        /\ \A j \in 1..Len(txs[t].cmds) : txs'[t].cmds[j] = txs[t].cmds[j]
        /\ \A u \in DOMAIN txs : txs'[u].prods = txs[u].prods
        /\ \A u \in DOMAIN txs : u # t => txs'[u] = txs[u]
    BY <1>3, CmdTracked
  <2> QED
    BY <1>7, <2>1
<1>9. /\ IsMap(producers', Producers, Txs \cup {NoTx}) /\ DOMAIN producers' = DOMAIN producers
      /\ producers'[p] = t /\ \A q \in DOMAIN producers : q # p => producers'[q] = producers[q]
  <2>1. IsMap(producers, Producers, Txs \cup {NoTx}) /\ t \in Txs \cup {NoTx}
    BY DEF TypeOK
  <2> QED
    BY <1>3, <2>1 DEF IsMap
<1>10. BrokerOK(broker)
  BY DEF TypeOK, BrokerOK
<1>11. ASSUME alive
       PROVE  /\ BrokerOK(broker') /\ broker'.prods = broker.prods
              /\ broker'.dests = broker.dests /\ DOMAIN broker'.open = DOMAIN broker.open
              /\ t \in DOMAIN broker'.open /\ broker'.open[t] = [i \in 1..n |-> i]
              /\ \A u \in DOMAIN broker.open : u # t => broker'.open[u] = broker.open[u]
              /\ broker'.log = broker.log /\ broker'.strangers = broker.strangers
              /\ broker'.out = broker.out
  <2>1. t \in DOMAIN broker.open /\ broker.open[t] = [i \in 1..sends[t] |-> i]
    <3>1. Settled(t)
      BY <1>2, <1>3, <1>11, NothingLeft
    <3> QED
      BY <1>5, <1>7, <3>1 DEF Settled
  <2>2. p \in broker.prods
    BY <1>2, <1>3, <1>11, NothingLeft DEF ConnectionSide, OpenSent
  <2>3. Becomes(BrokerApply(broker, c), broker.prods, broker.dests,
                [broker.open EXCEPT ![t] = Append(broker.open[t], n)], broker.log,
                broker.strangers, broker.out)
    BY <1>1, <1>6, <1>10, <2>1, <2>2, AppliedMessage
  <2>4. Append(broker.open[t], n) = [i \in 1..n |-> i]
    BY <1>5, <1>6, <2>1, OneMore
  <2>5. broker.open \in [DOMAIN broker.open -> Seq(Nat)]
    BY <1>10 DEF BrokerOK, IsMap
  <2>6. broker'.open = [broker.open EXCEPT ![t] = Append(broker.open[t], n)]
    BY <1>2, <1>11, <2>3 DEF Becomes
  <2>7. /\ DOMAIN broker'.open = DOMAIN broker.open /\ broker'.open[t] = [i \in 1..n |-> i]
        /\ \A u \in DOMAIN broker.open : u # t => broker'.open[u] = broker.open[u]
    <3>1. PICK v : v = Append(broker.open[t], n)
      OBVIOUS
    <3> QED
      BY <2>1, <2>4, <2>5, <2>6, <3>1
  <2> QED
    BY <1>2, <1>11, <2>1, <2>3, <2>7 DEF Becomes
<1>12. BrokerOK(broker')
  BY <1>2, <1>10, <1>11
<1>13. TypeOK'
  BY <1>2, <1>3, <1>4, <1>6, <1>8, <1>9, <1>12 DEF TypeOK, BrokerOK
<1>14. Calls'
  <2>1. ASSUME NEW r \in Sessions, r # s
        PROVE  /\ call[r].k = "Begin" => sends'[call[r].t] = sends[call[r].t]
               /\ call[r].k = "Message" => sends'[call[r].t] = sends[call[r].t]
    <3>1. call[r] \in Command \cup {NoCall}
      BY DEF TypeOK
    <3>2. call[r].k \in {"Begin", "Message"} => call[r].t \in Txs
      BY <3>1, NoCallFields, CommandKinds
    <3>3. call[r].t # t
      BY <1>5, <2>1 DEF Client, OneUser, Uses
    <3> QED
      BY <1>6, <3>2, <3>3
  <2> QED
    BY <1>2, <1>4, <2>1, NoCallFields DEF Client, Calls, EndKinds
<1>15. OneUser'
  <2>1. \A r \in Sessions, u \in Txs : Uses(r, u)' => Uses(r, u)
    BY <1>4, NoCallFields DEF Uses, Txs, NoTx
  <2>2. ~(t >= nextTx)
    <3>1. t < nextTx
      BY <1>5 DEF Client, OneUser, Uses
    <3> QED
      BY <3>1 DEF TypeOK, Txs
  <2> QED
    BY <1>4, <1>6, <2>1, <2>2 DEF Client, OneUser
<1>16. /\ \A r \in Sessions, u \in Txs : InTx(r, u)' <=> InTx(r, u)
       /\ \A r \in Sessions : (Ending(r)' <=> Ending(r)) /\ (Ending(r) => call'[r] = call[r])
  <2>1. call[s].k \notin EndKinds /\ call'[s].k \notin EndKinds
    BY <1>2, <1>4, NoCallFields DEF EndKinds
  <2> QED
    BY <1>2, <1>4, <2>1 DEF InTx, Ending
<1>17. TrackedTx'
  <2>1. \A u \in Txs : u \in DOMAIN txs' <=> \E r \in Sessions : InTx(r, u)'
    BY <1>8, <1>16 DEF Client, TrackedTx
  <2>2. Kept(t)'
    <3>1. ASSUME NEW j \in 1..n
          PROVE  txs'[t].cmds[j + 1].k = "Message" /\ txs'[t].cmds[j + 1].t = t /\ txs'[t].cmds[j + 1].i = j
      <4>1. CASE j = n
        BY <1>1, <1>8, <4>1
      <4>2. CASE j # n
        <5>1. j \in 1..sends[t] /\ j + 1 \in 1..n
          BY <1>5, <1>6, <4>2
        <5> QED
          BY <1>7, <1>8, <5>1 DEF Kept
      <4> QED
        BY <4>1, <4>2
    <3>2. txs'[t].cmds[1].k = "Begin" /\ txs'[t].cmds[1].t = t
      <4>1. 1 \in 1..n
        BY <1>1
      <4> QED
        BY <1>7, <1>8, <4>1 DEF Kept
    <3>3. Len(txs'[t].cmds) = sends'[t] + 1 /\ sends'[t] = n
      BY <1>6, <1>8
    <3>4. \A r \in Sessions : Ending(r)' => call'[r].t # t
      BY <1>7, <1>16
    <3> QED
      BY <3>1, <3>2, <3>3, <3>4 DEF Kept
  <2>3. ASSUME NEW u \in DOMAIN txs, u # t PROVE Kept(u)'
    <3>1. Kept(u) /\ txs'[u].cmds = txs[u].cmds /\ sends'[u] = sends[u]
      BY <1>6, <1>8, <2>3 DEF Client, TrackedTx, TypeOK, IsMap
    <3> QED
      BY <1>16, <3>1 DEF Kept
  <2>4. requestMap' = {call'[r] : r \in {q \in Sessions : Ending(q)'}}
    <3>1. {q \in Sessions : Ending(q)'} = {q \in Sessions : Ending(q)}
      BY <1>16
    <3>2. {call'[r] : r \in {q \in Sessions : Ending(q)}} = {call[r] : r \in {q \in Sessions : Ending(q)}}
      BY <1>16
    <3> QED
      BY <1>3, <3>1, <3>2 DEF Client, TrackedTx
  <2> QED
    BY <1>8, <2>1, <2>2, <2>3, <2>4 DEF TrackedTx
<1>18. Senders'
  <2>1. ASSUME NEW u \in DOMAIN txs', NEW j \in 1..sends'[u]
        PROVE  LET q == txs'[u].cmds[j + 1].o IN
               /\ q \in txs'[u].prods \/ (q \in DOMAIN producers' /\ producers'[q] = u)
               /\ \A r \in Sessions : InTx(r, u)' => Owner[q] = r
    <3>1. u \in DOMAIN txs /\ u \in Txs
      BY <1>8 DEF TypeOK, IsMap
    <3>2. CASE u = t /\ j = n
      <4>1. txs'[u].cmds[j + 1].o = p
        BY <1>1, <1>8, <3>2
      <4> QED
        BY <1>3, <1>5, <1>7, <1>9, <1>16, <3>1, <3>2, <4>1
    <3>3. CASE u # t \/ j # n
      <4>1. j \in 1..sends[u] /\ txs'[u].cmds[j + 1] = txs[u].cmds[j + 1]
        <5>1. CASE u # t
          BY <1>6, <1>8, <3>1, <5>1
        <5>2. CASE u = t
          <6>1. j \in 1..sends[t] /\ j + 1 \in 1..n
            BY <1>5, <1>6, <3>3, <5>2
          <6> QED
            BY <1>8, <5>2, <6>1
        <5> QED
          BY <5>1, <5>2
      <4>2. PICK q : q = txs[u].cmds[j + 1].o
        OBVIOUS
      <4>3. /\ q \in txs[u].prods \/ (q \in DOMAIN producers /\ producers[q] = u)
            /\ \A r \in Sessions : InTx(r, u) => Owner[q] = r
        BY <3>1, <4>1, <4>2 DEF Client, Senders
      <4>4. \A r \in Sessions : InTx(r, u)' => Owner[q] = r
        BY <1>16, <3>1, <4>3
      <4>5. q = p => u = t
        <5>1. PICK r \in Sessions : InTx(r, u)
          BY <3>1 DEF Client, TrackedTx
        <5>2. q = p => r = s
          BY <1>5, <4>3, <5>1
        <5> QED
          BY <1>2, <1>5, <5>1, <5>2 DEF InTx, EndKinds
      <4>6. q \in txs'[u].prods \/ (q \in DOMAIN producers' /\ producers'[q] = u)
        BY <1>8, <1>9, <3>1, <4>3, <4>5
      <4> QED
        BY <4>1, <4>2, <4>4, <4>6
    <3> QED
      BY <3>2, <3>3
  <2> QED
    BY <2>1 DEF Senders
<1>19. ProdLife' /\ DestLife'
  <2>1. call'[s].k = "None"
    BY <1>4, NoCallFields
  <2> QED
    BY <1>2, <1>3, <1>4, <1>8, <1>9, <2>1, TxGoesLives DEF Client
<1>20. Log'
  <2>1. broker'.log = broker.log /\ \A r \in broker'.out : r \in broker.out
    BY <1>2, <1>11
  <2>2. \A r \in Sessions : \A u \in Stored : Waits(r, Commit(u)) => Waits(r, Commit(u))'
    BY <1>2, <1>4 DEF Waits
  <2>3. \A u \in Stored : sends'[u] = sends[u]
    <3>1. Stored \subseteq Txs
      BY <1>10, StoredTxs
    <3> QED
      BY <1>6, <1>7, <3>1
  <2> QED
    BY <1>4, <2>1, <2>2, <2>3, LogStays DEF ConnectionSide
<1>21. BrokerKnowsSender'
  BY <1>2, <1>11 DEF ConnectionSide, BrokerKnowsSender
<1>22. ASSUME alive PROVE OpenSent' /\ \A u \in DOMAIN txs' : Settled(u)'
  <2>1. OpenSent'
    <3>1. \A r \in Sessions : pc'[r] = "waiting" /\ ~Ending(r)' =>
              pc[r] = "waiting" /\ ~Ending(r) /\ call'[r] = call[r]
      BY <1>4, <1>16
    <3> QED
      BY <1>2, <1>3, <1>9, <1>11, <1>22, <3>1, TxGoesOpenSent DEF ConnectionSide
  <2>2. Settled(t)'
    BY <1>6, <1>8, <1>11, <1>22 DEF Settled
  <2>3. \A u \in DOMAIN txs : u # t => Settled(u)'
    <3>1. DOMAIN txs \subseteq Txs
      BY DEF TypeOK, IsMap
    <3> QED
      BY <1>2, <1>6, <1>8, <1>11, <1>22, <3>1, NothingLeft, SettledStays
  <2> QED
    BY <1>8, <2>1, <2>2, <2>3
<1>23. ConnectionSide'
  BY <1>20, <1>21, <1>22, GoesConnection
<1> QED
  BY <1>13, <1>14, <1>15, <1>17, <1>18, <1>19, <1>23 DEF Client

(* The broker stores a transaction. *)
LEMMA LogGrows ==
    ASSUME Log, BrokerOK(broker), NEW t \in Txs, t \notin Stored,
           broker'.log = Append(broker.log, [t |-> t, msgs |-> [i \in 1..sends[t] |-> i]]),
           sends' = sends, outcome' = outcome, NEW s \in Sessions, Waits(s, Commit(t))',
           \A r \in Sessions : \A u \in Stored : Waits(r, Commit(u)) => Waits(r, Commit(u))',
           \A r \in broker'.out : r \in broker.out \/ r.c.t = t
    PROVE  Log'
<1> DEFINE e == [t |-> t, msgs |-> [i \in 1..sends[t] |-> i]]
<1>1. PICK n \in Nat : n = Len(broker.log) /\ DOMAIN broker.log = 1..n
  BY PartsOf
<1>2. e.t = t /\ e.msgs = [i \in 1..sends[t] |-> i]
  OBVIOUS
<1>3. PICK x : x = e
  OBVIOUS
<1> HIDE DEF e
<1>4. /\ DOMAIN broker'.log = 1..(n + 1) /\ broker'.log[n + 1] = x
      /\ \A j \in 1..n : broker'.log[j] = broker.log[j]
  <2>1. broker.log \in Seq([t : Txs, msgs : Seq(Nat)]) /\ broker'.log = Append(broker.log, x)
    BY <1>3, PartsOf DEF e
  <2> QED
    BY <1>1, <2>1
<1>5. \A j \in 1..(n + 1) : j = n + 1 \/ j \in 1..n
  OBVIOUS
<1>6. \A j \in 1..n : broker.log[j].t # t
  BY <1>1 DEF Stored
<1>7. CommittedWhole'
  <2>1. \A j \in 1..(n + 1) : broker'.log[j].msgs = [i \in 1..sends'[broker'.log[j].t] |-> i]
    BY <1>1, <1>2, <1>3, <1>4, <1>5, ZenonT(60) DEF Log, CommittedWhole
  <2>2. \A j, k \in 1..(n + 1) : broker'.log[k].t = broker'.log[j].t => k = j
    <3>1. \A j, k \in 1..n : broker.log[k].t = broker.log[j].t => k = j
      BY <1>1 DEF Log, CommittedWhole
    <3>2. broker'.log[n + 1].t = t
      BY <1>2, <1>3, <1>4
    <3> QED
      BY <1>4, <1>5, <1>6, <3>1, <3>2
  <2> QED
    BY <1>4, <2>1, <2>2 DEF CommittedWhole
<1>8. Stored' = Stored \cup {t}
  <2>1. \A j \in 1..n : broker'.log[j].t = broker.log[j].t
    BY <1>4
  <2>2. broker'.log[n + 1].t = t /\ n + 1 \in 1..(n + 1) /\ \A j \in 1..n : j \in 1..(n + 1)
    BY <1>2, <1>3, <1>4
  <2> QED
    BY <1>1, <1>4, <1>5, <2>1, <2>2 DEF Stored
<1> QED
  BY <1>7, <1>8 DEF Log

(* The end of a transaction: its answer will take the transaction out of the tracking. *)
LEMMA EndGoes ==
    ASSUME TypeOK, Client, ConnectionSide, NEW s \in Sessions, NEW c \in Command, Goes(s, c),
           c.k \in EndKinds
    PROVE  TypeOK' /\ Client' /\ ConnectionSide'
<1>1. PICK t \in Txs : t = c.t /\ c \in {Commit(t), Rollback(t)}
  BY CommandNames, CommandKinds DEF EndKinds
<1>2. /\ pc[s] = "oneway" /\ call[s] = c /\ rpc = "idle"
      /\ broker' = IF alive THEN BrokerApply(broker, c) ELSE broker
      /\ connected' \in BOOLEAN
      /\ UNCHANGED <<rpc, seen, todo, cur, replay, doubt, alive, breaks>>
  BY DEF Goes
<1>3. /\ t \in DOMAIN txs
      /\ txs' = [txs EXCEPT ![t].cmds = Append(@, c)]
      /\ requestMap' = requestMap \cup {c}
      /\ UNCHANGED <<temps, producers>>
  BY <1>1 DEF Goes, Track, TrackEnd, EndKinds
<1>4. /\ pc' \in [Sessions -> {"idle", "oneway", "waiting"}]
      /\ pc'[s] = "waiting" /\ \A r \in Sessions : r # s => pc'[r] = pc[r]
      /\ UNCHANGED <<call, tx, sends, life, nextTx, outcome>>
  BY <1>2, ReturnedSync DEF Goes, Sync, EndKinds
<1>5. Uses(s, t)
  BY <1>1, <1>2 DEF Uses
<1>6. sends[t] \in Nat
  BY TrackerAssumption DEF TypeOK
<1>7. /\ t \notin Stored /\ Kept(t) /\ Len(txs[t].cmds) = sends[t] + 1
      /\ \A r \in Sessions : /\ Ending(r) => call[r].t # t
                             /\ InTx(r, t) => r = s
  BY <1>2, <1>3, <1>5, GoesOn DEF ConnectionSide
<1>8. /\ IsMap(txs', Txs, TxState) /\ DOMAIN txs' = DOMAIN txs
      /\ Len(txs'[t].cmds) = sends[t] + 2 /\ txs'[t].cmds[sends[t] + 2] = c
      /\ \A j \in 1..(sends[t] + 1) : txs'[t].cmds[j] = txs[t].cmds[j]
      /\ \A u \in DOMAIN txs : txs'[u].prods = txs[u].prods
      /\ \A u \in DOMAIN txs : u # t => txs'[u] = txs[u]
  <2>1. /\ IsMap(txs', Txs, TxState) /\ DOMAIN txs' = DOMAIN txs
        /\ Len(txs'[t].cmds) = Len(txs[t].cmds) + 1
        /\ txs'[t].cmds[Len(txs[t].cmds) + 1] = c
        /\ \A j \in 1..Len(txs[t].cmds) : txs'[t].cmds[j] = txs[t].cmds[j]
        /\ \A u \in DOMAIN txs : txs'[u].prods = txs[u].prods
        /\ \A u \in DOMAIN txs : u # t => txs'[u] = txs[u]
    BY <1>3, CmdTracked
  <2>2. Len(txs[t].cmds) + 1 = sends[t] + 2
    BY <1>6, <1>7
  <2> QED
    BY <1>7, <2>1, <2>2
<1>9. BrokerOK(broker)
  BY DEF TypeOK, BrokerOK
<1>10. ASSUME alive
       PROVE  /\ t \in DOMAIN broker.open /\ broker.open[t] = [i \in 1..sends[t] |-> i]
              /\ BrokerOK(broker') /\ broker'.prods = broker.prods
              /\ broker'.dests = broker.dests
              /\ \A u \in DOMAIN broker.open : u # t =>
                    u \in DOMAIN broker'.open /\ broker'.open[u] = broker.open[u]
              /\ broker'.strangers = broker.strangers
              /\ \E ok \in BOOLEAN : broker'.out = broker.out \cup Reply(c, ok)
              /\ c.k = "Commit" => broker'.log = Append(broker.log, [t |-> t, msgs |-> broker.open[t]])
              /\ c.k = "Rollback" => broker'.log = broker.log
  <2>1. t \in DOMAIN broker.open /\ broker.open[t] = [i \in 1..sends[t] |-> i]
    <3>1. Settled(t)
      BY <1>2, <1>3, <1>10, NothingLeft
    <3> QED
      BY <1>7, <3>1 DEF Settled
  <2>2. \A u \in DOMAIN broker.open : u # t =>
           u \in DOMAIN Without(broker.open, t) /\ Without(broker.open, t)[u] = broker.open[u]
    BY DEF Without
  <2>3. CASE c = Commit(t)
    <3>1. Becomes(BrokerApply(broker, c), broker.prods, broker.dests, Without(broker.open, t),
                  Append(broker.log, [t |-> t, msgs |-> broker.open[t]]), broker.strangers,
                  broker.out \cup Reply(c, TRUE))
      BY <1>9, <2>1, <2>3, AppliedCommit
    <3>2. c.k = "Commit"
      BY <2>3 DEF Commit, Cmd
    <3>3. Becomes(broker', broker.prods, broker.dests, Without(broker.open, t),
                  Append(broker.log, [t |-> t, msgs |-> broker.open[t]]), broker.strangers,
                  broker.out \cup Reply(c, TRUE))
      BY <1>2, <1>10, <3>1
    <3>4. /\ BrokerOK(broker') /\ broker'.prods = broker.prods
          /\ broker'.dests = broker.dests /\ broker'.open = Without(broker.open, t)
          /\ broker'.strangers = broker.strangers
          /\ broker'.log = Append(broker.log, [t |-> t, msgs |-> broker.open[t]])
      BY <3>3 DEF Becomes
    <3>5. \E ok \in BOOLEAN : broker'.out = broker.out \cup Reply(c, ok)
      <4>1. broker'.out = broker.out \cup Reply(c, TRUE)
        BY <3>3 DEF Becomes
      <4> QED
        BY <4>1, Zenon
    <3> QED
      BY <2>1, <2>2, <3>2, <3>4, <3>5
  <2>4. CASE c = Rollback(t)
    <3>1. PICK ok \in BOOLEAN :
             Becomes(BrokerApply(broker, c), broker.prods, broker.dests, Without(broker.open, t),
                     broker.log, broker.strangers, broker.out \cup Reply(c, ok))
      BY <1>9, <2>4, AppliedRollback
    <3>2. c.k = "Rollback"
      BY <2>4 DEF Rollback, Cmd
    <3>3. Becomes(broker', broker.prods, broker.dests, Without(broker.open, t),
                  broker.log, broker.strangers, broker.out \cup Reply(c, ok))
      BY <1>2, <1>10, <3>1
    <3>4. /\ BrokerOK(broker') /\ broker'.prods = broker.prods
          /\ broker'.dests = broker.dests /\ broker'.open = Without(broker.open, t)
          /\ broker'.strangers = broker.strangers
          /\ broker'.log = broker.log
      BY <3>3 DEF Becomes
    <3>5. \E x \in BOOLEAN : broker'.out = broker.out \cup Reply(c, x)
      <4>1. broker'.out = broker.out \cup Reply(c, ok)
        BY <3>3 DEF Becomes
      <4> QED
        BY <4>1, Zenon
    <3> QED
      BY <2>1, <2>2, <3>2, <3>4, <3>5
  <2> QED
    BY <1>1, <2>3, <2>4
<1>11. BrokerOK(broker')
  BY <1>2, <1>9, <1>10
<1>12. TypeOK'
  <2>1. requestMap' \subseteq Command
    BY <1>3 DEF TypeOK
  <2> QED
    BY <1>2, <1>3, <1>4, <1>8, <1>11, <2>1 DEF TypeOK, BrokerOK
<1>13. Calls'
  <2>1. Sync(c)
    BY DEF Sync, EndKinds
  <2> QED
    BY <1>2, <1>4, <2>1 DEF Client, Calls
<1>14. OneUser'
  BY <1>4 DEF Client, OneUser, Uses
<1>15. /\ \A r \in Sessions, u \in Txs : InTx(r, u)' <=> InTx(r, u)
       /\ \A r \in Sessions : Ending(r)' <=> Ending(r) \/ r = s
  BY <1>2, <1>4 DEF InTx, Ending
<1>16. TrackedTx'
  <2>1. \A u \in Txs : u \in DOMAIN txs' <=> \E r \in Sessions : InTx(r, u)'
    BY <1>8, <1>15 DEF Client, TrackedTx
  <2>2. Kept(t)'
    <3>1. \A j \in 1..sends[t] : j + 1 \in 1..(sends[t] + 1)
      BY <1>6
    <3>2. 1 \in 1..(sends[t] + 1)
      BY <1>6
    <3>3. Ending(s)' /\ call'[s].t = t /\ call'[s] = txs'[t].cmds[sends[t] + 2]
      BY <1>1, <1>2, <1>4, <1>8, <1>15
    <3>4. sends' = sends
      BY <1>4
    <3>5. txs'[t].cmds[1].k = "Begin" /\ txs'[t].cmds[1].t = t
      BY <1>7, <1>8, <3>2 DEF Kept
    <3>6. \A j \in 1..sends[t] : /\ txs'[t].cmds[j + 1].k = "Message"
                                 /\ txs'[t].cmds[j + 1].t = t /\ txs'[t].cmds[j + 1].i = j
      BY <1>7, <1>8, <3>1 DEF Kept
    <3> QED
      BY <1>8, <3>3, <3>4, <3>5, <3>6 DEF Kept
  <2>3. ASSUME NEW u \in DOMAIN txs, u # t PROVE Kept(u)'
    <3>1. Kept(u) /\ txs'[u].cmds = txs[u].cmds /\ sends' = sends /\ call' = call
      BY <1>4, <1>8, <2>3 DEF Client, TrackedTx
    <3>2. call[s].t # u
      BY <1>1, <1>2, <2>3
    <3> QED
      BY <1>15, <3>1, <3>2 DEF Kept
  <2>4. requestMap' = {call'[r] : r \in {q \in Sessions : Ending(q)'}}
    <3>1. {q \in Sessions : Ending(q)'} = {q \in Sessions : Ending(q)} \cup {s}
      BY <1>15
    <3> QED
      BY <1>2, <1>3, <1>4, <3>1 DEF Client, TrackedTx
  <2> QED
    BY <1>8, <2>1, <2>2, <2>3, <2>4 DEF TrackedTx
<1>17. Senders'
  <2>1. ASSUME NEW u \in DOMAIN txs', NEW j \in 1..sends'[u]
        PROVE  LET q == txs'[u].cmds[j + 1].o IN
               /\ q \in txs'[u].prods \/ (q \in DOMAIN producers' /\ producers'[q] = u)
               /\ \A r \in Sessions : InTx(r, u)' => Owner[q] = r
    <3>1. u \in DOMAIN txs /\ u \in Txs /\ j \in 1..sends[u]
      BY <1>4, <1>8 DEF TypeOK, IsMap
    <3>2. txs'[u].cmds[j + 1] = txs[u].cmds[j + 1]
      <4>1. CASE u # t
        BY <1>8, <3>1, <4>1
      <4>2. CASE u = t
        <5>1. j + 1 \in 1..(sends[t] + 1)
          BY <1>6, <3>1, <4>2
        <5> QED
          BY <1>8, <4>2, <5>1
      <4> QED
        BY <4>1, <4>2
    <3>3. PICK q : q = txs[u].cmds[j + 1].o
      OBVIOUS
    <3>4. /\ q \in txs[u].prods \/ (q \in DOMAIN producers /\ producers[q] = u)
          /\ \A r \in Sessions : InTx(r, u) => Owner[q] = r
      BY <3>1, <3>3 DEF Client, Senders
    <3>5. \A r \in Sessions : InTx(r, u)' => Owner[q] = r
      BY <1>15, <3>1, <3>4
    <3> QED
      BY <1>3, <1>8, <3>1, <3>2, <3>3, <3>4, <3>5
  <2> QED
    BY <2>1 DEF Senders
<1>18. ProdLife' /\ DestLife'
  BY <1>2, <1>3, <1>4, <1>8, TxGoesLives DEF Client
<1>19. \A r \in Sessions : \A u \in Stored : Waits(r, Commit(u)) => Waits(r, Commit(u))'
  BY <1>2, <1>4 DEF Waits
<1>20. Log'
  <2>1. CASE alive /\ c.k = "Commit"
    <3>1. broker'.log = Append(broker.log, [t |-> t, msgs |-> [i \in 1..sends[t] |-> i]])
      BY <1>10, <2>1
    <3>2. Waits(s, Commit(t))'
      <4>1. c = Commit(t)
        BY <1>1, <2>1 DEF Rollback, Cmd
      <4> QED
        BY <1>2, <1>4, <4>1 DEF Waits
    <3>3. \A r \in broker'.out : r \in broker.out \/ r.c.t = t
      BY <1>1, <1>10, <2>1, ReplyOK
    <3>4. sends' = sends /\ outcome' = outcome /\ Log
      BY <1>4 DEF ConnectionSide
    <3> QED
      BY <1>7, <1>9, <1>19, <3>1, <3>2, <3>3, <3>4, LogGrows
  <2>2. CASE ~alive \/ c.k = "Rollback"
    <3>1. broker'.log = broker.log
      BY <1>2, <1>10, <2>2
    <3>2. \A r \in broker'.out : r \in broker.out \/ r.c.k # "Commit"
      BY <1>2, <1>10, <2>2, ReplyOK
    <3> QED
      BY <1>4, <1>19, <3>1, <3>2, LogStays DEF ConnectionSide
  <2> QED
    BY <2>1, <2>2 DEF EndKinds
<1>21. BrokerKnowsSender'
  BY <1>2, <1>10 DEF ConnectionSide, BrokerKnowsSender
<1>22. ASSUME alive PROVE OpenSent' /\ \A u \in DOMAIN txs' : Settled(u)'
  <2>1. OpenSent'
    <3>1. \A r \in Sessions : pc'[r] = "waiting" /\ ~Ending(r)' =>
              pc[r] = "waiting" /\ ~Ending(r) /\ call'[r] = call[r]
      BY <1>4, <1>15
    <3>2. broker.out \subseteq broker'.out
      BY <1>10, <1>22
    <3> QED
      BY <1>2, <1>3, <1>10, <1>22, <3>1, <3>2, TxGoesOpenSent DEF ConnectionSide
  <2>2. Settled(t)'
    <3>1. Answered(c)'
      BY <1>2, <1>10, <1>22, ReplyAnswers
    <3>2. LastOf(t)' = c
      BY <1>8 DEF LastOf, Last
    <3>3. sends'[t] = sends[t] /\ Len(txs'[t].cmds) # sends[t] + 1
      BY <1>4, <1>6, <1>8
    <3>4. Answered(LastOf(t))'
      BY <3>1, <3>2 DEF Answered
    <3> QED
      BY <3>3, <3>4 DEF Settled
  <2>3. \A u \in DOMAIN txs : u # t => Settled(u)'
    BY <1>2, <1>4, <1>8, <1>10, <1>22, NothingLeft, SettledStays
  <2> QED
    BY <1>8, <2>1, <2>2, <2>3
<1>23. ConnectionSide'
  BY <1>20, <1>21, <1>22, GoesConnection
<1> QED
  BY <1>12, <1>13, <1>14, <1>16, <1>17, <1>18, <1>23 DEF Client

(* All the ways through oneway. *)
LEMMA OnewayStep ==
    ASSUME TypeOK, Client, ConnectionSide, NEW s \in Sessions, Oneway(s)
    PROVE  TypeOK' /\ Client' /\ ConnectionSide'
<1>1. PICK c \in Command : Goes(s, c)
  BY OnewayGoes DEF Client, ConnectionSide
<1>2. c.k \in {"AddProducer", "RemoveProducer", "AddDest", "RemoveDest", "Begin", "Message"}
              \cup EndKinds
  BY CommandKinds
<1> QED
  BY <1>1, <1>2, AddProducerGoes, RemoveProducerGoes, AddDestGoes, RemoveDestGoes, BeginGoes,
     MessageGoes, EndGoes

-----------------------------------------------------------------------------
(* The network and the readers *)

(* The client's part is about the sessions and the tracker only. *)
LEMMA ClientStays ==
    ASSUME Client, UNCHANGED <<app, tracker>>
    PROVE  Client'
<1>1. UNCHANGED <<pc, call, life, tx, nextTx, sends, outcome, producers, temps, txs, requestMap>>
  BY DEF app, tracker
<1>2. Calls' /\ OneUser'
  BY <1>1 DEF Client, Calls, OneUser, Uses
<1>3. TrackedTx'
  BY <1>1 DEF Client, TrackedTx, Kept, InTx, Ending
<1>4. ProdLife' /\ Senders' /\ DestLife'
  BY <1>1 DEF Client, ProdLife, Senders, DestLife, Waits, InTx
<1> QED
  BY <1>2, <1>3, <1>4 DEF Client

(* How far the replay is does not matter on a connection that is lost. *)
LEMMA ProgressDead ==
    ASSUME NEW t, NEW k, Progress(t, k), ~alive', UNCHANGED <<txs, replay>>
    PROVE  Progress(t, k)'
<1>1. ReplayOf(t)' = ReplayOf(t)
  BY DEF ReplayOf
<1> QED
  BY <1>1 DEF Progress, Left, Reached

(* The connection breaks. *)
LEMMA BreakStep ==
    ASSUME TypeOK, Client, ConnectionSide, Break
    PROVE  TypeOK' /\ Client' /\ ConnectionSide'
<1>1. /\ alive /\ ~alive' /\ breaks < MaxBreaks /\ breaks' = breaks + 1 /\ alive' = FALSE
      /\ UNCHANGED <<app, tracker, connected, rpc, seen, todo, cur, replay, doubt>>
  BY DEF Break, runner
<1>2. PICK kept \in SUBSET broker.out : broker' = Fresh(broker.log, broker.strangers, kept)
  BY DEF Break
<1>3. /\ broker'.prods = {} /\ broker'.dests = {} /\ DOMAIN broker'.open = {}
      /\ broker'.log = broker.log /\ broker'.strangers = broker.strangers /\ broker'.out = kept
  BY <1>2 DEF Fresh
<1>4. BrokerOK(broker')
  <2>1. BrokerOK(broker)
    BY DEF TypeOK, BrokerOK
  <2>2. IsMap(<<>>, Txs, Seq(Nat))
    BY DEF IsMap
  <2>3. kept \subseteq [c : Command, ok : BOOLEAN]
    BY <2>1, PartsOf
  <2>4. broker' = Parts({}, {}, <<>>, broker.log, broker.strangers, kept)
    BY <1>2 DEF Fresh, Parts
  <2>5. Becomes(broker', {}, {}, <<>>, broker.log, broker.strangers, kept)
    BY <2>1, <2>2, <2>3, <2>4, PartsOf, PartsBecome
  <2> QED
    BY <2>5 DEF Becomes
<1>5. UNCHANGED <<pc, call, life, tx, nextTx, sends, outcome, producers, temps, txs, requestMap>>
  BY <1>1 DEF app, tracker
<1>6. TypeOK'
  <2>1. breaks' \in 0..MaxBreaks
    BY <1>1, TrackerAssumption DEF TypeOK
  <2>2. alive' \in BOOLEAN
    BY <1>1
  <2> QED
    BY <1>1, <1>4, <1>5, <2>1, <2>2 DEF TypeOK, BrokerOK
<1>7. Client'
  BY <1>1, ClientStays
<1>8. Log'
  <2>1. \A r \in Sessions : \A t \in Stored : Waits(r, Commit(t)) => Waits(r, Commit(t))'
    BY <1>5 DEF Waits
  <2> QED
    BY <1>3, <1>5, <2>1, LogStays DEF ConnectionSide
<1>9. Conn'
  BY <1>1, <1>3 DEF ConnectionSide, Conn
<1>10. OpenSent' /\ TxSent'
  BY <1>1 DEF OpenSent, TxSent
<1>11. OpenReplay'
  BY <1>1, <1>5 DEF ConnectionSide, OpenReplay
<1>12. TxReplay'
  <2>1. \A t, k : Progress(t, k) => Progress(t, k)'
    BY <1>1, <1>5, ProgressDead
  <2>2. \A t : ReplayOf(t)' = ReplayOf(t) /\ LastOf(t)' = LastOf(t)
    BY <1>5 DEF ReplayOf, LastOf
  <2> QED
    BY <1>1, <1>5, <2>1, <2>2 DEF ConnectionSide, TxReplay
<1>13. BrokerKnowsSender'
  BY <1>3 DEF ConnectionSide, BrokerKnowsSender
<1> QED
  BY <1>6, <1>7, <1>8, <1>9, <1>10, <1>11, <1>12, <1>13 DEF ConnectionSide

(* The reader notices. *)
LEMMA OnExceptionStep ==
    ASSUME TypeOK, Client, ConnectionSide, OnException
    PROVE  TypeOK' /\ Client' /\ ConnectionSide'
<1>1. /\ connected /\ ~alive /\ connected' = FALSE
      /\ UNCHANGED <<app, tracker, rpc, seen, todo, cur, replay, doubt, alive, breaks, broker>>
  BY DEF OnException, runner
<1>2. UNCHANGED <<pc, call, life, tx, nextTx, sends, outcome, producers, temps, txs, requestMap>>
  BY <1>1 DEF app, tracker
<1>3. TypeOK' /\ Client'
  BY <1>1, <1>2, ClientStays DEF TypeOK
<1>4. rpc = "idle"
  BY <1>1 DEF ConnectionSide, Conn
<1>5. Log'
  <2>1. \A r \in Sessions : \A t \in Stored : Waits(r, Commit(t)) => Waits(r, Commit(t))'
    BY <1>2 DEF Waits
  <2> QED
    BY <1>1, <1>2, <2>1, LogStays DEF ConnectionSide
<1>6. Conn' /\ OpenSent' /\ OpenReplay' /\ TxSent' /\ TxReplay' /\ BrokerKnowsSender'
  BY <1>1, <1>4 DEF ConnectionSide, Conn, OpenSent, OpenReplay, TxSent, TxReplay, BrokerKnowsSender
<1> QED
  BY <1>3, <1>5, <1>6 DEF ConnectionSide

(* A response that nobody waits for changes nothing. *)
LEMMA NobodyWaits ==
    ASSUME TypeOK, Client, NEW c \in Command, NEW ok, ProcessResponse(c, ok), Complete(c, ok),
           \A s \in Sessions : ~Waits(s, c)
    PROVE  UNCHANGED <<app, tracker>>
<1>1. {s \in Sessions : pc[s] = "waiting" /\ call[s] = c} = {}
  BY DEF Waits
<1>2. pc' = [s \in Sessions |-> pc[s]] /\ call' = [s \in Sessions |-> call[s]]
  BY <1>1 DEF Complete
<1>3. UNCHANGED <<life, outcome, tx, nextTx, sends>>
  BY <1>1 DEF Complete
<1>4. c \notin requestMap
  BY DEF Client, TrackedTx, Ending, Waits
<1>5. UNCHANGED <<producers, temps, txs, requestMap>>
  BY <1>4 DEF ProcessResponse
<1>6. pc' = pc /\ call' = call
  BY <1>2 DEF TypeOK
<1> QED
  BY <1>3, <1>5, <1>6 DEF app, tracker

(* One session waits for a response, and it returns from its call. *)
OneReturns(s, c) ==
    /\ pc' \in [Sessions -> {"idle", "oneway", "waiting"}]
    /\ call' \in [Sessions -> Command \cup {NoCall}]
    /\ pc'[s] = "idle" /\ call'[s] = NoCall
    /\ \A r \in Sessions : r # s => pc'[r] = pc[r] /\ call'[r] = call[r] /\ ~Waits(r, c)

(* Who waits for a response gets it. *)
LEMMA WaiterReturns ==
    ASSUME TypeOK, Client, NEW c \in Command, NEW ok, Complete(c, ok), NEW s \in Sessions, Waits(s, c)
    PROVE  OneReturns(s, c) /\ Sync(c)
<1> DEFINE W == {r \in Sessions : pc[r] = "waiting" /\ call[r] = c}
<1>1. /\ pc' = [r \in Sessions |-> IF r \in W THEN "idle" ELSE pc[r]]
      /\ call' = [r \in Sessions |-> IF r \in W THEN NoCall ELSE call[r]]
  BY DEF Complete
<1>2. Sync(c)
  BY DEF Client, Calls, Waits
<1>3. ASSUME NEW r \in Sessions, Waits(r, c) PROVE r = s
  <2>1. CASE c.k \in EndKinds
    <3>1. c.t \in Txs /\ Uses(r, c.t) /\ Uses(s, c.t)
      BY <1>3, <2>1, CommandKinds DEF Uses, Waits
    <3> QED
      BY <3>1 DEF Client, OneUser
  <2>2. CASE c.k \notin EndKinds
    <3>1. c.o \in Producers \cup Dests /\ c # NoCall
      BY <1>2, <2>2, CommandKinds, NoCallFields DEF Sync, EndKinds
    <3>2. Owner[c.o] = r /\ Owner[c.o] = s
      BY <1>3, <2>2, <3>1 DEF Client, Calls, Waits
    <3> QED
      BY <3>2
  <2> QED
    BY <2>1, <2>2
<1>4. W = {s}
  BY <1>3 DEF Waits
<1>5. \A r \in Sessions : r # s => ~Waits(r, c)
  BY <1>3
<1> HIDE DEF W
<1>6. /\ pc' = [r \in Sessions |-> IF r = s THEN "idle" ELSE pc[r]]
      /\ call' = [r \in Sessions |-> IF r = s THEN NoCall ELSE call[r]]
  BY <1>1, <1>4
<1> QED
  BY <1>2, <1>5, <1>6 DEF OneReturns, TypeOK

(* The creation of a producer or destination, or the removal of one, returns. *)
LEMMA OpenReturns ==
    ASSUME TypeOK, Client, NEW c \in Command, NEW ok, ProcessResponse(c, ok), Complete(c, ok),
           NEW s \in Sessions, Waits(s, c), c.k \notin EndKinds
    PROVE  /\ Client' /\ OneReturns(s, c)
           /\ life' \in [Producers \cup Dests -> {"new", "open", "closed"}]
           /\ UNCHANGED <<producers, temps, txs, requestMap, tx, nextTx, sends, outcome>>
<1>1. OneReturns(s, c) /\ Sync(c)
  BY WaiterReturns
<1>2. /\ c.k \in {"AddProducer", "AddDest", "RemoveDest"} /\ c.t = NoTx /\ c.o \in Producers \cup Dests
      /\ c # NoCall
  BY <1>1, CommandKinds, NoCallFields DEF Sync, EndKinds
<1>3. pc[s] = "waiting" /\ call[s] = c /\ Owner[c.o] = s
  BY <1>2 DEF Client, Calls, Waits
<1>4. c \notin requestMap
  BY DEF Client, TrackedTx, Ending
<1>5. UNCHANGED <<producers, temps, txs, requestMap>>
  BY <1>4 DEF ProcessResponse
<1>6. UNCHANGED <<tx, nextTx, sends, outcome>>
  BY <1>2 DEF Complete
<1>7. s \in {r \in Sessions : pc[r] = "waiting" /\ call[r] = c}
  BY <1>3
<1>8. life' = IF c.k \in {"AddProducer", "AddDest"} THEN [life EXCEPT ![c.o] = "open"] ELSE life
  BY <1>7 DEF Complete
<1>9. /\ life' \in [Producers \cup Dests -> {"new", "open", "closed"}]
      /\ \A o \in Producers \cup Dests : o # c.o => life'[o] = life[o]
      /\ \A o \in Producers \cup Dests : life[o] = "open" => life'[o] = "open"
      /\ life'[c.o] = IF c.k \in {"AddProducer", "AddDest"} THEN "open" ELSE life[c.o]
  BY <1>2, <1>8 DEF TypeOK
<1>10. /\ pc'[s] = "idle" /\ call'[s] = NoCall
       /\ \A r \in Sessions : r # s => pc'[r] = pc[r] /\ call'[r] = call[r]
  BY <1>1 DEF OneReturns
<1>11. Calls'
  <2>1. ASSUME NEW r \in Sessions, r # s, call[r].k \in {"Begin", "Message"}
        PROVE  life[call[r].o] = "open" => life'[call[r].o] = "open"
    <3>1. call[r] \in Command \cup {NoCall}
      BY DEF TypeOK
    <3>2. call[r].o \in Producers
      BY <2>1, <3>1, CommandKinds, NoCallFields
    <3> QED
      BY <1>9, <3>2
  <2> QED
    BY <1>6, <1>10, <2>1, NoCallFields DEF Client, Calls, EndKinds
<1>12. OneUser'
  <2>1. \A r \in Sessions, t \in Txs : Uses(r, t)' => Uses(r, t)
    BY <1>6, <1>10, NoCallFields DEF Uses, Txs, NoTx
  <2> QED
    BY <1>6, <2>1 DEF Client, OneUser
<1>13. SameUse
  <2>1. call'[s].k \notin EndKinds
    BY <1>10, NoCallFields DEF EndKinds
  <2> QED
    BY <1>3, <1>6, <1>10, <2>1 DEF SameUse, InTx, Ending
<1>14. TrackedTx' /\ Senders'
  BY <1>5, <1>13, SameUseTracked, SameUseSenders DEF Client
<1>15. \A o \in Producers \cup Dests : Owner[o] \in Sessions
  BY TrackerAssumption
<1>16. \A o : /\ AddProducer(o).k = "AddProducer" /\ RemoveProducer(o).k = "RemoveProducer"
              /\ AddDest(o).k = "AddDest" /\ RemoveDest(o).k = "RemoveDest"
              /\ AddProducer(o).o = o /\ AddDest(o).o = o /\ RemoveDest(o).o = o
  BY DEF AddProducer, RemoveProducer, AddDest, RemoveDest, Cmd
<1>17. ProdLife'
  <2>1. ASSUME NEW p \in Producers, p # c.o \/ c.k # "AddProducer"
        PROVE  /\ Waits(Owner[p], AddProducer(p))' <=> Waits(Owner[p], AddProducer(p))
               /\ call'[Owner[p]] = AddProducer(p) => call[Owner[p]] = AddProducer(p)
    <3>1. c # AddProducer(p) /\ NoCall # AddProducer(p)
      BY <1>16, <2>1, NoCallFields
    <3> QED
      BY <1>3, <1>10, <1>15, <3>1 DEF Waits
  <2>2. ASSUME NEW p \in Producers
        PROVE  call'[Owner[p]] = RemoveProducer(p) => call[Owner[p]] = RemoveProducer(p)
    <3>1. NoCall # RemoveProducer(p)
      BY <1>16, NoCallFields
    <3> QED
      BY <1>10, <1>15, <3>1
  <2>3. ASSUME NEW p \in Producers, p = c.o, c.k = "AddProducer"
        PROVE  /\ life[p] = "new" /\ life'[p] = "open" /\ p \in DOMAIN producers
               /\ call'[Owner[p]] = NoCall
    <3>1. c = AddProducer(p)
      BY <2>3, CommandNames
    <3> QED
      BY <1>3, <1>9, <1>10, <2>3, <3>1 DEF Client, ProdLife, Waits
  <2>4. ASSUME NEW p \in Producers, p # c.o \/ c.k # "AddProducer" PROVE life'[p] = life[p]
    BY <1>2, <1>9, <2>4, CommandKinds, TrackerAssumption
  <2>5. \A p \in Producers :
        /\ life'[p] = "open" => p \in DOMAIN producers
        /\ life'[p] = "new" => (p \in DOMAIN producers <=> Waits(Owner[p], AddProducer(p))')
        /\ call'[Owner[p]] = AddProducer(p) => life'[p] = "new"
        /\ call'[Owner[p]] = RemoveProducer(p) => life'[p] = "closed" /\ p \in DOMAIN producers
    <3>1. ASSUME NEW p \in Producers, p = c.o, c.k = "AddProducer"
          PROVE  NoCall # AddProducer(p) /\ NoCall # RemoveProducer(p)
      BY <1>16, NoCallFields
    <3> QED
      BY <2>1, <2>2, <2>3, <2>4, <3>1 DEF Client, ProdLife
  <2>6. \A t \in DOMAIN txs : \A p \in txs[t].prods : life'[p] = "closed" /\ p \notin DOMAIN producers
    <3>1. \A t \in DOMAIN txs : txs[t].prods \subseteq Producers
      BY DEF TypeOK, IsMap, TxState
    <3> QED
      BY <2>3, <2>4, <3>1 DEF Client, ProdLife
  <2> QED
    BY <1>5, <2>5, <2>6 DEF ProdLife
<1>18. DestLife'
  <2>1. ASSUME NEW d \in Dests
        PROVE  /\ AddDest(d) \in ToSet(temps) <=> life'[d] # "new" \/ Waits(Owner[d], AddDest(d))'
               /\ RemoveDest(d) \in ToSet(temps) <=>
                     life'[d] = "closed" /\ ~(pc'[Owner[d]] = "oneway" /\ call'[Owner[d]] = RemoveDest(d))
               /\ call'[Owner[d]] = AddDest(d) => life'[d] = "new"
               /\ call'[Owner[d]] = RemoveDest(d) => life'[d] = "closed"
    <3>1. NoCall # AddDest(d) /\ NoCall # RemoveDest(d)
      BY <1>16, NoCallFields
    <3>2. CASE c = AddDest(d)
      <4>1. life'[d] = "open" /\ life[d] = "new" /\ call'[Owner[d]] = NoCall /\ AddDest(d) \in ToSet(temps)
        BY <1>3, <1>9, <1>10, <1>16, <3>2 DEF Client, DestLife, Waits
      <4> QED
        BY <3>1, <4>1 DEF Client, DestLife
    <3>3. CASE c = RemoveDest(d)
      <4>1. /\ life'[d] = "closed" /\ life[d] = "closed" /\ call'[Owner[d]] = NoCall
            /\ RemoveDest(d) \in ToSet(temps) /\ AddDest(d) \in ToSet(temps)
        BY <1>3, <1>9, <1>10, <1>16, <3>3 DEF Client, DestLife, Waits
      <4> QED
        BY <3>1, <4>1 DEF Client, DestLife
    <3>4. CASE c # AddDest(d) /\ c # RemoveDest(d)
      <4>1. life'[d] = life[d]
        <5>1. d # c.o \/ c.k = "AddProducer"
          BY <1>2, <3>4, CommandNames
        <5> QED
          BY <1>2, <1>9, <5>1, CommandKinds, TrackerAssumption
      <4>2. /\ Waits(Owner[d], AddDest(d))' <=> Waits(Owner[d], AddDest(d))
            /\ (pc'[Owner[d]] = "oneway" /\ call'[Owner[d]] = RemoveDest(d))
                  <=> (pc[Owner[d]] = "oneway" /\ call[Owner[d]] = RemoveDest(d))
            /\ call'[Owner[d]] = AddDest(d) => call[Owner[d]] = AddDest(d)
            /\ call'[Owner[d]] = RemoveDest(d) => call[Owner[d]] = RemoveDest(d)
        BY <1>3, <1>10, <1>15, <3>1, <3>4 DEF Waits
      <4> QED
        BY <4>1, <4>2 DEF Client, DestLife
    <3> QED
      BY <3>2, <3>3, <3>4
  <2> QED
    BY <1>5, <2>1 DEF Client, DestLife
<1> QED
  BY <1>1, <1>5, <1>6, <1>9, <1>11, <1>12, <1>14, <1>17, <1>18 DEF Client

(* A commit or rollback returns: the transaction is forgotten and its outcome told. *)
LEMMA EndReturns ==
    ASSUME TypeOK, Client, NEW c \in Command, NEW ok \in BOOLEAN, ProcessResponse(c, ok), Complete(c, ok),
           NEW s \in Sessions, Waits(s, c), c.k \in EndKinds
    PROVE  /\ Client' /\ OneReturns(s, c)
           /\ outcome' \in [Txs -> {None, "committed", "failed", "rolledback"}]
           /\ outcome'[c.t] = Told(c, ok) /\ outcome[c.t] = None
           /\ \A u \in Txs : u # c.t => outcome'[u] = outcome[u]
           /\ IsMap(txs', Txs, TxState) /\ DOMAIN txs' = DOMAIN txs \ {c.t}
           /\ \A u \in DOMAIN txs' : txs'[u] = txs[u]
           /\ requestMap' \subseteq Command
           /\ UNCHANGED <<producers, temps, life, tx, nextTx, sends>>
<1>1. OneReturns(s, c)
  BY WaiterReturns
<1>2. PICK t \in Txs : t = c.t /\ t # NoTx
  BY CommandKinds DEF Txs, NoTx
<1>3. pc[s] = "waiting" /\ call[s] = c /\ Ending(s) /\ Uses(s, t) /\ tx[s] = NoTx
  BY <1>2 DEF Client, Calls, Waits, Ending, Uses
<1>4. c \in requestMap
  BY <1>3 DEF Client, TrackedTx
<1>5. UNCHANGED <<producers, temps>> /\ requestMap' = requestMap \ {c} /\ txs' = Without(txs, t)
  BY <1>2, <1>4 DEF ProcessResponse
<1>6. s \in {r \in Sessions : pc[r] = "waiting" /\ call[r] = c}
  BY <1>3
<1>7. UNCHANGED <<life, tx, nextTx, sends>> /\ outcome' = [outcome EXCEPT ![t] = Told(c, ok)]
  BY <1>2, <1>6 DEF Complete, EndKinds
<1>8. outcome[t] = None /\ t < nextTx
  BY <1>3 DEF Client, OneUser
<1>9. /\ outcome' \in [Txs -> {None, "committed", "failed", "rolledback"}]
      /\ outcome'[t] = Told(c, ok)
      /\ \A u \in Txs : u # t => outcome'[u] = outcome[u]
  <2>1. Told(c, ok) \in {None, "committed", "failed", "rolledback"}
    BY DEF Told, EndKinds
  <2>2. PICK v \in {None, "committed", "failed", "rolledback"} : v = Told(c, ok)
    BY <2>1
  <2> QED
    BY <1>7, <2>2 DEF TypeOK
<1>10. /\ IsMap(txs', Txs, TxState) /\ DOMAIN txs' = DOMAIN txs \ {t}
       /\ \A u \in DOMAIN txs' : txs'[u] = txs[u]
  BY <1>5 DEF TypeOK, IsMap, Without
<1>11. /\ pc'[s] = "idle" /\ call'[s] = NoCall
       /\ \A r \in Sessions : r # s => pc'[r] = pc[r] /\ call'[r] = call[r] /\ ~Waits(r, c)
  BY <1>1 DEF OneReturns
<1>12. Calls'
  BY <1>7, <1>11, NoCallFields DEF Client, Calls, EndKinds
<1>13. /\ \A r \in Sessions, u \in Txs : Uses(r, u)' => Uses(r, u) /\ u # t
       /\ \A r \in Sessions, u \in Txs : u # t => (InTx(r, u)' <=> InTx(r, u))
       /\ \A r \in Sessions : ~InTx(r, t)'
       /\ \A r \in Sessions : Ending(r)' <=> Ending(r) /\ r # s
       /\ \A r \in Sessions : Ending(r)' => call'[r] = call[r] /\ call[r] # c /\ call[r].t # t
  <2>1. \A r \in Sessions : Uses(r, t) => r = s
    BY <1>3 DEF Client, OneUser
  <2>2. call'[s].k \notin EndKinds /\ call'[s].t = NoTx /\ tx' = tx
    BY <1>7, <1>11, NoCallFields DEF EndKinds
  <2>3. \A r \in Sessions, u \in Txs : Uses(r, u)' => Uses(r, u) /\ u # t
    BY <1>2, <1>3, <1>11, <2>1, <2>2 DEF Uses, Txs, NoTx
  <2>4. \A r \in Sessions, u \in Txs : u # t => (InTx(r, u)' <=> InTx(r, u))
    BY <1>2, <1>3, <1>11, <2>2 DEF InTx
  <2>5. \A r \in Sessions : ~InTx(r, t)'
    BY <2>3 DEF InTx, Uses
  <2>6. \A r \in Sessions : Ending(r)' <=> Ending(r) /\ r # s
    BY <1>3, <1>11 DEF Ending
  <2>7. \A r \in Sessions : Ending(r)' => call'[r] = call[r] /\ call[r] # c /\ call[r].t # t
    BY <1>2, <1>11, <2>1, <2>6 DEF Ending, Waits, Uses
  <2> QED
    BY <2>3, <2>4, <2>5, <2>6, <2>7
<1>14. OneUser'
  <2>1. nextTx' = nextTx /\ sends' = sends /\ ~(t >= nextTx)
    BY <1>2, <1>7, <1>8 DEF TypeOK, Txs
  <2> QED
    BY <1>9, <1>13, <2>1 DEF Client, OneUser
<1>15. DOMAIN txs \subseteq Txs
  BY DEF TypeOK, IsMap
<1>16. TrackedTx'
  <2>1. \A u \in Txs : u \in DOMAIN txs' <=> \E r \in Sessions : InTx(r, u)'
    BY <1>10, <1>13 DEF Client, TrackedTx
  <2>2. ASSUME NEW u \in DOMAIN txs' PROVE Kept(u)'
    <3>1. Kept(u) /\ txs'[u] = txs[u] /\ sends' = sends /\ u # t
      BY <1>7, <1>10 DEF Client, TrackedTx
    <3>2. \A r \in Sessions : Ending(r) /\ call[r].t = u => Ending(r)' /\ call'[r] = call[r]
      BY <1>2, <1>3, <1>13, <3>1
    <3>3. \A r \in Sessions : Ending(r)' => Ending(r) /\ call'[r] = call[r]
      BY <1>13
    <3> QED
      BY <3>1, <3>2, <3>3 DEF Kept
  <2>3. requestMap' = {call'[r] : r \in {q \in Sessions : Ending(q)'}}
    <3>1. ASSUME NEW x \in requestMap' PROVE \E r \in Sessions : Ending(r)' /\ call'[r] = x
      <4>1. x \in requestMap /\ x # c
        BY <1>5
      <4>2. PICK r \in Sessions : Ending(r) /\ call[r] = x
        BY <4>1 DEF Client, TrackedTx
      <4> QED
        BY <1>3, <1>13, <4>1, <4>2
    <3>2. ASSUME NEW r \in Sessions, Ending(r)' PROVE call'[r] \in requestMap'
      <4>1. Ending(r) /\ call'[r] = call[r] /\ call[r] # c
        BY <1>13, <3>2
      <4> QED
        BY <1>5, <4>1 DEF Client, TrackedTx
    <3> QED
      BY <3>1, <3>2
  <2> QED
    BY <2>1, <2>2, <2>3 DEF TrackedTx
<1>17. Senders'
  <2>1. ASSUME NEW u \in DOMAIN txs', NEW j \in 1..sends'[u]
        PROVE  LET q == txs'[u].cmds[j + 1].o IN
               /\ q \in txs'[u].prods \/ (q \in DOMAIN producers' /\ producers'[q] = u)
               /\ \A r \in Sessions : InTx(r, u)' => Owner[q] = r
    <3>1. u \in DOMAIN txs /\ u \in Txs /\ u # t /\ j \in 1..sends[u] /\ txs'[u] = txs[u]
      BY <1>7, <1>10, <1>15
    <3>2. PICK q : q = txs[u].cmds[j + 1].o
      OBVIOUS
    <3>3. /\ q \in txs[u].prods \/ (q \in DOMAIN producers /\ producers[q] = u)
          /\ \A r \in Sessions : InTx(r, u) => Owner[q] = r
      BY <3>1, <3>2 DEF Client, Senders
    <3>4. \A r \in Sessions : InTx(r, u)' => Owner[q] = r
      BY <1>13, <3>1, <3>3
    <3> QED
      BY <1>5, <3>1, <3>2, <3>3, <3>4
  <2> QED
    BY <2>1 DEF Senders
<1>18. /\ \A o \in Producers \cup Dests : Owner[o] \in Sessions
       /\ \A o : /\ c # AddProducer(o) /\ c # RemoveProducer(o) /\ c # AddDest(o) /\ c # RemoveDest(o)
                 /\ NoCall # AddProducer(o) /\ NoCall # RemoveProducer(o)
                 /\ NoCall # AddDest(o) /\ NoCall # RemoveDest(o)
  BY TrackerAssumption, NoCallFields DEF AddProducer, RemoveProducer, AddDest, RemoveDest, Cmd, EndKinds
<1>19. ProdLife'
  <2>1. ASSUME NEW p \in Producers
        PROVE  /\ Waits(Owner[p], AddProducer(p))' <=> Waits(Owner[p], AddProducer(p))
               /\ call'[Owner[p]] = AddProducer(p) => call[Owner[p]] = AddProducer(p)
               /\ call'[Owner[p]] = RemoveProducer(p) => call[Owner[p]] = RemoveProducer(p)
    BY <1>3, <1>11, <1>18 DEF Waits
  <2> QED
    BY <1>5, <1>7, <1>10, <2>1 DEF Client, ProdLife
<1>20. DestLife'
  <2>1. ASSUME NEW d \in Dests
        PROVE  /\ Waits(Owner[d], AddDest(d))' <=> Waits(Owner[d], AddDest(d))
               /\ (pc'[Owner[d]] = "oneway" /\ call'[Owner[d]] = RemoveDest(d))
                    <=> (pc[Owner[d]] = "oneway" /\ call[Owner[d]] = RemoveDest(d))
               /\ call'[Owner[d]] = AddDest(d) => call[Owner[d]] = AddDest(d)
               /\ call'[Owner[d]] = RemoveDest(d) => call[Owner[d]] = RemoveDest(d)
    BY <1>3, <1>11, <1>18 DEF Waits
  <2> QED
    BY <1>5, <1>7, <2>1 DEF Client, DestLife
<1>21. requestMap' \subseteq Command
  BY <1>5 DEF TypeOK
<1> QED
  BY <1>1, <1>2, <1>5, <1>7, <1>8, <1>9, <1>10, <1>12, <1>14, <1>16, <1>17, <1>19, <1>20, <1>21 DEF Client

(* What a response leaves to the connection: everything but what it answered. *)
LEMMA AnsweredConnection ==
    ASSUME ConnectionSide, NEW c, Log',
           UNCHANGED <<connected, rpc, seen, cur, replay, alive, producers, temps, sends>>,
           DOMAIN txs' \subseteq DOMAIN txs,
           \A u \in DOMAIN txs' :
               txs'[u] = txs[u] /\ (Len(txs[u].cmds) = sends[u] + 2 => LastOf(u) # c),
           \A r \in Sessions : pc'[r] = "waiting" =>
               pc[r] = "waiting" /\ call'[r] = call[r] /\ call[r] # c,
           broker'.prods = broker.prods, broker'.dests = broker.dests, broker'.open = broker.open,
           broker'.strangers = broker.strangers,
           \A x \in broker.out : x.c # c => x \in broker'.out,
           doubt' \subseteq doubt, doubt \ {c} \subseteq doubt',
           todo' = todo \/ (todo' = {} /\ WalkEnds)
    PROVE  ConnectionSide'
<1>1. \A x : x # c /\ Answered(x) => Answered(x)'
  BY DEF Answered
<1>2. ASSUME NEW u \in DOMAIN txs', Settled(u) PROVE Settled(u)'
  <2>1. txs'[u] = txs[u] /\ LastOf(u)' = LastOf(u)
    BY DEF LastOf
  <2>2. Len(txs[u].cmds) = sends[u] + 2 => LastOf(u) \in doubt' \/ Answered(LastOf(u))'
    <3>1. ASSUME Len(txs[u].cmds) = sends[u] + 2 PROVE LastOf(u) \in doubt' \/ Answered(LastOf(u))'
      <4>1. PICK y : y = LastOf(u)
        OBVIOUS
      <4>2. y # c /\ (y \in doubt \/ Answered(y))
        BY <1>2, <3>1, <4>1 DEF Settled
      <4>3. y \in doubt' \/ Answered(y)'
        BY <1>1, <4>2
      <4>4. y = LastOf(u)'
        BY <2>1, <4>1
      <4> QED
        BY <4>1, <4>3, <4>4 DEF Answered
    <3> QED
      BY <3>1
  <2> QED
    BY <1>2, <2>1, <2>2 DEF Settled
<1>3. Conn'
  BY DEF ConnectionSide, Conn
<1>4. OpenSent'
  <2>1. Rest' = Rest
    BY DEF Rest
  <2>2. ASSUME alive, NEW r \in Sessions, pc'[r] = "waiting", ~Ending(r)'
        PROVE  Answered(call[r])' \/ call'[r] \in Rest
    <3>1. PICK y : y = call[r]
      OBVIOUS
    <3>2. pc[r] = "waiting" /\ call'[r] = y /\ y # c /\ ~Ending(r)
      BY <2>2, <3>1 DEF Ending
    <3>3. Answered(y) \/ y \in Rest
      BY <2>2, <3>1, <3>2 DEF ConnectionSide, OpenSent
    <3>4. Answered(y)' \/ y \in Rest
      BY <1>1, <3>2, <3>3
    <3> QED
      BY <3>1, <3>2, <3>4 DEF Answered
  <2> QED
    BY <2>1, <2>2 DEF ConnectionSide, OpenSent
<1>5. OpenReplay'
  BY DEF ConnectionSide, OpenReplay
<1>6. TxSent'
  <2>1. ASSUME alive, rpc # "open", NEW t \in DOMAIN txs'
        PROVE  t \in todo' \/ (t = cur /\ replay # <<>>) \/ Settled(t)'
    <3>1. t \in DOMAIN txs
      OBVIOUS
    <3>2. t \in todo \/ (t = cur /\ replay # <<>>) \/ Settled(t)
      BY <2>1, <3>1 DEF ConnectionSide, TxSent
    <3>3. t \in todo => t \in todo'
      BY <3>1 DEF WalkEnds
    <3> QED
      BY <1>2, <3>2, <3>3
  <2> QED
    BY <2>1 DEF TxSent
<1>7. TxReplay'
  <2>1. ASSUME rpc = "transactions", replay # <<>>, cur \in DOMAIN txs'
        PROVE  /\ LastOf(cur)'.k # "Commit"
               /\ \E k \in 0..Len(ReplayOf(cur)') : Progress(cur, k)'
    <3>1. /\ cur \in DOMAIN txs /\ txs'[cur] = txs[cur] /\ LastOf(cur)' = LastOf(cur)
          /\ ReplayOf(cur)' = ReplayOf(cur) /\ cur' = cur
      BY <2>1 DEF LastOf, ReplayOf
    <3>2. LastOf(cur).k # "Commit"
      BY <2>1, <3>1 DEF ConnectionSide, TxReplay
    <3>3. PICK k \in 0..Len(ReplayOf(cur)) : Progress(cur, k)
      BY <2>1, <3>1 DEF ConnectionSide, TxReplay
    <3>4. Progress(cur, k)'
      BY <1>2, <2>1, <3>1, <3>3 DEF Progress, Left, Reached
    <3> QED
      BY <3>1, <3>2, <3>3, <3>4
  <2> QED
    BY <2>1 DEF TxReplay
<1>8. BrokerKnowsSender'
  BY DEF ConnectionSide, BrokerKnowsSender
<1> QED
  BY <1>3, <1>4, <1>5, <1>6, <1>7, <1>8 DEF ConnectionSide

(* What the broker's end must be like around a response. *)
Around(c) ==
    /\ UNCHANGED <<connected, rpc, seen, cur, replay, alive, breaks>>
    /\ BrokerOK(broker') /\ broker'.prods = broker.prods /\ broker'.dests = broker.dests
    /\ broker'.open = broker.open /\ broker'.strangers = broker.strangers
    /\ broker'.log = broker.log /\ broker'.out \subseteq broker.out
    /\ \A x \in broker.out : x.c # c => x \in broker'.out
    /\ doubt' \subseteq doubt /\ doubt \ {c} \subseteq doubt'
    /\ \/ todo' = todo
       \/ todo' = {} /\ WalkEnds

(* A response, from the broker or from the restore, that is true of what is stored. *)
LEMMA ResponseStep ==
    ASSUME TypeOK, Client, ConnectionSide, NEW c \in Command, NEW ok \in BOOLEAN,
           ProcessResponse(c, ok), Complete(c, ok), Around(c),
           c.k = "Commit" /\ ok => c.t \in Stored
    PROVE  TypeOK' /\ Client' /\ ConnectionSide'
<1>1. doubt' \subseteq Command /\ todo' \subseteq Txs
  BY DEF Around, TypeOK
<1>2. ASSUME NEW u \in DOMAIN txs, Len(txs[u].cmds) = sends[u] + 2
      PROVE  \E r \in Sessions : Ending(r) /\ call[r].t = u /\ call[r] = LastOf(u)
  <2>1. sends[u] \in Nat /\ Kept(u)
    BY TrackerAssumption DEF TypeOK, IsMap, Client, TrackedTx
  <2>2. sends[u] + 1 # sends[u] + 2
    BY <2>1
  <2>3. LastOf(u) = txs[u].cmds[sends[u] + 2]
    BY <1>2 DEF LastOf, Last
  <2> QED
    BY <1>2, <2>1, <2>2, <2>3 DEF Kept
<1>3. Stored' = Stored
  BY DEF Around, Stored
<1>4. CASE \A s \in Sessions : ~Waits(s, c)
  <2>1. UNCHANGED <<app, tracker>>
    BY <1>4, NobodyWaits
  <2>2. UNCHANGED <<pc, call, life, tx, nextTx, sends, outcome, producers, temps, txs, requestMap>>
    BY <2>1 DEF app, tracker
  <2>3. TypeOK'
    BY <1>1, <2>2 DEF TypeOK, Around, BrokerOK
  <2>4. Client'
    BY <2>1, ClientStays
  <2>5. Log'
    <3>1. \A r \in Sessions : \A t \in Stored : Waits(r, Commit(t)) => Waits(r, Commit(t))'
      BY <2>2 DEF Waits
    <3> QED
      BY <2>2, <3>1, LogStays DEF ConnectionSide, Around
  <2>6. \A u \in DOMAIN txs' :
            txs'[u] = txs[u] /\ (Len(txs[u].cmds) = sends[u] + 2 => LastOf(u) # c)
    BY <1>2, <1>4, <2>2 DEF Ending, Waits
  <2>7. \A r \in Sessions : pc'[r] = "waiting" =>
            pc[r] = "waiting" /\ call'[r] = call[r] /\ call[r] # c
    BY <1>4, <2>2 DEF Waits
  <2> QED
    BY <2>2, <2>3, <2>4, <2>5, <2>6, <2>7, AnsweredConnection DEF Around
<1>5. ASSUME NEW s \in Sessions, Waits(s, c), c.k \notin EndKinds
      PROVE  TypeOK' /\ Client' /\ ConnectionSide'
  <2>1. /\ Client' /\ OneReturns(s, c)
        /\ life' \in [Producers \cup Dests -> {"new", "open", "closed"}]
        /\ UNCHANGED <<producers, temps, txs, requestMap, tx, nextTx, sends, outcome>>
    BY <1>5, OpenReturns
  <2>2. TypeOK'
    BY <1>1, <2>1 DEF TypeOK, Around, BrokerOK, OneReturns
  <2>3. Log'
    <3>1. \A r \in Sessions : \A t \in Stored : Waits(r, Commit(t)) => Waits(r, Commit(t))'
      <4>1. \A t : c # Commit(t)
        BY <1>5 DEF Commit, Cmd, EndKinds
      <4> QED
        BY <1>5, <2>1, <4>1 DEF Waits, OneReturns
    <3> QED
      BY <2>1, <3>1, LogStays DEF ConnectionSide, Around
  <2>4. \A u \in DOMAIN txs' :
            txs'[u] = txs[u] /\ (Len(txs[u].cmds) = sends[u] + 2 => LastOf(u) # c)
    BY <1>2, <1>5, <2>1 DEF Ending
  <2>5. \A r \in Sessions : pc'[r] = "waiting" =>
            pc[r] = "waiting" /\ call'[r] = call[r] /\ call[r] # c
    BY <2>1 DEF Waits, OneReturns
  <2> QED
    BY <2>1, <2>2, <2>3, <2>4, <2>5, AnsweredConnection DEF Around
<1>6. ASSUME NEW s \in Sessions, Waits(s, c), c.k \in EndKinds
      PROVE  TypeOK' /\ Client' /\ ConnectionSide'
  <2>1. /\ Client' /\ OneReturns(s, c)
        /\ outcome' \in [Txs -> {None, "committed", "failed", "rolledback"}]
        /\ outcome'[c.t] = Told(c, ok) /\ outcome[c.t] = None
        /\ \A u \in Txs : u # c.t => outcome'[u] = outcome[u]
        /\ IsMap(txs', Txs, TxState) /\ DOMAIN txs' = DOMAIN txs \ {c.t}
        /\ \A u \in DOMAIN txs' : txs'[u] = txs[u]
        /\ requestMap' \subseteq Command
        /\ UNCHANGED <<producers, temps, life, tx, nextTx, sends>>
    BY <1>6, EndReturns
  <2>2. TypeOK'
    BY <1>1, <2>1 DEF TypeOK, Around, BrokerOK, OneReturns
  <2>3. Stored \subseteq Txs /\ c.t \in Txs
    BY <1>6, StoredTxs, CommandKinds DEF TypeOK, BrokerOK
  <2>4. c.k = "Rollback" => c.t \notin Stored
    <3>1. ASSUME c.k = "Rollback", NEW r \in Sessions, Waits(r, Commit(c.t)) PROVE FALSE
      <4>1. Uses(r, c.t) /\ Uses(s, c.t) /\ Commit(c.t).k = "Commit"
        BY <1>6, <3>1 DEF Uses, Waits, Commit, Cmd
      <4>2. r = s
        BY <2>3, <4>1 DEF Client, OneUser
      <4> QED
        BY <1>6, <3>1, <4>1, <4>2 DEF Waits
    <3>2. outcome[c.t] \notin {"committed", "failed"}
      BY <2>1 DEF None
    <3> QED
      BY <3>1, <3>2 DEF ConnectionSide, Log
  <2>5. /\ Told(c, ok) = "committed" => c.k = "Commit" /\ ok
        /\ c.k = "Commit" => Told(c, ok) \in {"committed", "failed"}
    BY <1>6 DEF Told, EndKinds
  <2>6. Log'
    <3>1. CommittedWhole'
      BY <2>1 DEF Around, ConnectionSide, Log, CommittedWhole
    <3>2. ASSUME NEW t \in Stored
          PROVE  outcome'[t] \in {"committed", "failed"} \/ \E r \in Sessions : Waits(r, Commit(t))'
      <4>1. CASE t = c.t
        BY <1>6, <2>1, <2>4, <2>5, <4>1 DEF EndKinds
      <4>2. CASE t # c.t
        <5>1. outcome'[t] = outcome[t]
          BY <2>1, <2>3, <4>2
        <5>2. c # Commit(t)
          BY <4>2 DEF Commit, Cmd
        <5>3. \A r \in Sessions : Waits(r, Commit(t)) => Waits(r, Commit(t))'
          BY <1>6, <2>1, <5>2 DEF Waits, OneReturns
        <5> QED
          BY <5>1, <5>3 DEF ConnectionSide, Log
      <4> QED
        BY <4>1, <4>2
    <3>3. \A t \in Txs : outcome'[t] = "committed" => t \in Stored
      <4>1. outcome'[c.t] = "committed" => c.t \in Stored
        BY <2>1, <2>5
      <4> QED
        BY <2>1, <4>1 DEF ConnectionSide, Log
    <3>4. \A r \in broker'.out : r.c.k = "Commit" /\ r.ok => r.c.t \in Stored
      BY DEF Around, ConnectionSide, Log
    <3> QED
      BY <1>3, <3>1, <3>2, <3>3, <3>4 DEF Log
  <2>7. \A u \in DOMAIN txs' :
            txs'[u] = txs[u] /\ (Len(txs[u].cmds) = sends[u] + 2 => LastOf(u) # c)
    BY <1>2, <2>1
  <2>8. \A r \in Sessions : pc'[r] = "waiting" =>
            pc[r] = "waiting" /\ call'[r] = call[r] /\ call[r] # c
    BY <2>1 DEF Waits, OneReturns
  <2> QED
    BY <2>1, <2>2, <2>6, <2>7, <2>8, AnsweredConnection DEF Around
<1> QED
  BY <1>4, <1>5, <1>6

(* A response is read, from this connection or from one that broke. *)
LEMMA OnResponseStep ==
    ASSUME TypeOK, Client, ConnectionSide, OnResponse
    PROVE  TypeOK' /\ Client' /\ ConnectionSide'
<1>1. PICK r \in broker.out :
        /\ broker' = [broker EXCEPT !.out = @ \ {r}]
        /\ ProcessResponse(r.c, r.ok)
        /\ Complete(r.c, r.ok)
        /\ UNCHANGED <<connected, runner, alive, breaks>>
  BY DEF OnResponse
<1>2. BrokerOK(broker)
  BY DEF TypeOK, BrokerOK
<1>3. r \in [c : Command, ok : BOOLEAN]
  BY <1>2, PartsOf
<1>4. broker' = Parts(broker.prods, broker.dests, broker.open, broker.log, broker.strangers, broker.out \ {r})
  <2>1. PICK p, d, o, l, g, u : broker = Parts(p, d, o, l, g, u)
    BY <1>2, PartsOf
  <2>2. [broker EXCEPT !.out = @ \ {r}] = Parts(p, d, o, l, g, u \ {r})
    BY <2>1 DEF Parts
  <2>3. broker.prods = p /\ broker.dests = d /\ broker.open = o /\ broker.log = l
        /\ broker.strangers = g /\ broker.out = u
    BY <2>1 DEF Parts
  <2> QED
    BY <1>1, <2>2, <2>3
<1>5. Becomes(broker', broker.prods, broker.dests, broker.open, broker.log, broker.strangers,
              broker.out \ {r})
  <2>1. broker.out \ {r} \subseteq [c : Command, ok : BOOLEAN]
    BY <1>2, PartsOf
  <2> QED
    BY <1>2, <1>4, <2>1, PartsOf, PartsBecome
<1>6. Around(r.c)
  BY <1>1, <1>5 DEF Becomes, Around, runner
<1>7. r.c.k = "Commit" /\ r.ok => r.c.t \in Stored
  BY DEF ConnectionSide, Log
<1>8. r.c \in Command /\ r.ok \in BOOLEAN
  BY <1>3
<1> QED
  BY <1>1, <1>6, <1>7, <1>8, ResponseStep

(* The runner answers a commit in doubt. *)
LEMMA AnswerInDoubtStep ==
    ASSUME TypeOK, Client, ConnectionSide, AnswerInDoubt
    PROVE  TypeOK' /\ Client' /\ ConnectionSide'
<1>1. PICK c \in doubt :
        doubt' = doubt \ {c} /\ ProcessResponse(c, FALSE) /\ Complete(c, FALSE)
  BY DEF AnswerInDoubt
<1>2. c \in Command
  BY DEF TypeOK
<1>3. Around(c)
  BY <1>1 DEF AnswerInDoubt, Around, TypeOK, BrokerOK
<1>4. \A ok \in BOOLEAN : ok = FALSE => ~(c.k = "Commit" /\ ok)
  OBVIOUS
<1> QED
  BY <1>1, <1>2, <1>3, <1>4, ResponseStep

-----------------------------------------------------------------------------
(* The restore *)

(* Steps of the runner leave the sessions and the tracker alone. *)
LEMMA RunnerKeeps ==
    ASSUME TypeOK, Client, ConnectionSide, UNCHANGED <<app, tracker>>, broker'.log = broker.log,
           \A r \in broker'.out : r \in broker.out \/ r.c.k # "Commit"
    PROVE  /\ Client' /\ Log'
           /\ UNCHANGED <<pc, call, life, tx, nextTx, sends, outcome, producers, temps, txs, requestMap>>
<1>1. UNCHANGED <<pc, call, life, tx, nextTx, sends, outcome, producers, temps, txs, requestMap>>
  BY DEF app, tracker
<1>2. \A r \in Sessions : \A t \in Stored : Waits(r, Commit(t)) => Waits(r, Commit(t))'
  BY <1>1 DEF Waits
<1>3. Log'
  BY <1>1, <1>2, LogStays DEF ConnectionSide
<1> QED
  BY <1>1, <1>3, ClientStays

(* All that is open has been sent: the transactions come next. *)
LEMMA WalkBeginsStep ==
    ASSUME TypeOK, Client, ConnectionSide, WalkBegins
    PROVE  TypeOK' /\ Client' /\ ConnectionSide'
<1>1. /\ rpc = "open" /\ replay = <<>> /\ rpc' = "transactions" /\ seen' = DOMAIN txs /\ todo' = DOMAIN txs
      /\ UNCHANGED <<app, tracker, connected, cur, replay, doubt, alive, breaks, broker>>
  BY DEF WalkBegins
<1>2. /\ Client' /\ Log'
      /\ UNCHANGED <<pc, call, life, tx, nextTx, sends, outcome, producers, temps, txs, requestMap>>
  BY <1>1, RunnerKeeps
<1>3. DOMAIN txs \subseteq Txs
  BY DEF TypeOK, IsMap
<1>4. TypeOK'
  BY <1>1, <1>2, <1>3 DEF TypeOK
<1>5. Conn'
  BY <1>1 DEF ConnectionSide, Conn
<1>6. OpenSent'
  <2>1. Rest = {} /\ Rest' = {}
    BY <1>1 DEF Rest, ToSet
  <2> QED
    BY <1>1, <1>2, <2>1 DEF ConnectionSide, OpenSent, Ending, Answered
<1>7. OpenReplay' /\ TxSent' /\ TxReplay'
  BY <1>1, <1>2 DEF OpenReplay, TxSent, TxReplay
<1>8. BrokerKnowsSender'
  BY <1>1 DEF ConnectionSide, BrokerKnowsSender
<1> QED
  BY <1>2, <1>4, <1>5, <1>6, <1>7, <1>8 DEF ConnectionSide

(* The transaction ended under the iterator: there is nothing left of it to replay. *)
LEMMA RestoreClearedStep ==
    ASSUME TypeOK, Client, ConnectionSide, RestoreCleared
    PROVE  TypeOK' /\ Client' /\ ConnectionSide'
<1>1. /\ rpc = "transactions" /\ replay' = <<>> /\ cur \notin DOMAIN txs
      /\ UNCHANGED <<app, tracker, connected, rpc, seen, todo, cur, doubt, alive, breaks, broker>>
  BY DEF RestoreCleared
<1>2. /\ Client' /\ Log'
      /\ UNCHANGED <<pc, call, life, tx, nextTx, sends, outcome, producers, temps, txs, requestMap>>
  BY <1>1, RunnerKeeps
<1>3. TypeOK'
  <2>1. replay' \in Seq(Command)
    BY <1>1
  <2> QED
    BY <1>1, <1>2, <2>1 DEF TypeOK
<1>4. Conn'
  BY <1>1 DEF ConnectionSide, Conn
<1>5. OpenSent'
  <2>1. Rest = {} /\ Rest' = {}
    BY <1>1 DEF Rest
  <2> QED
    BY <1>1, <1>2, <2>1 DEF ConnectionSide, OpenSent, Ending, Answered
<1>6. TxSent'
  <2>1. \A t \in DOMAIN txs : Settled(t)' <=> Settled(t)
    BY <1>1, <1>2 DEF Settled, LastOf, Answered
  <2> QED
    BY <1>1, <1>2, <2>1 DEF ConnectionSide, TxSent
<1>7. OpenReplay' /\ TxReplay'
  BY <1>1 DEF OpenReplay, TxReplay
<1>8. BrokerKnowsSender'
  BY <1>1 DEF ConnectionSide, BrokerKnowsSender
<1> QED
  BY <1>2, <1>3, <1>4, <1>5, <1>6, <1>7, <1>8 DEF ConnectionSide

(* All is restored: the sessions may send again. *)
LEMMA RestoredStep ==
    ASSUME TypeOK, Client, ConnectionSide, Restored
    PROVE  TypeOK' /\ Client' /\ ConnectionSide'
<1>1. /\ rpc = "transactions" /\ replay = <<>> /\ todo \cap DOMAIN txs = {} /\ doubt = {}
      /\ rpc' = "idle" /\ seen' = {} /\ todo' = {} /\ cur' = NoTx /\ connected' = TRUE
      /\ UNCHANGED <<app, tracker, replay, doubt, alive, breaks, broker>>
  BY DEF Restored, WalkEnds
<1>2. /\ Client' /\ Log'
      /\ UNCHANGED <<pc, call, life, tx, nextTx, sends, outcome, producers, temps, txs, requestMap>>
  BY <1>1, RunnerKeeps
<1>3. TypeOK'
  <2>1. seen' \subseteq Txs /\ todo' \subseteq Txs /\ cur' \in Txs \cup {NoTx} /\ connected' \in BOOLEAN
        /\ rpc' \in {"idle", "open", "transactions"}
    BY <1>1
  <2> QED
    BY <1>1, <1>2, <2>1 DEF TypeOK
<1>4. Conn'
  BY <1>1 DEF ConnectionSide, Conn
<1>5. OpenSent'
  <2>1. Rest = {} /\ Rest' = {}
    BY <1>1 DEF Rest
  <2> QED
    BY <1>1, <1>2, <2>1 DEF ConnectionSide, OpenSent, Ending, Answered
<1>6. TxSent'
  <2>1. \A t \in DOMAIN txs : Settled(t)' <=> Settled(t)
    BY <1>1, <1>2 DEF Settled, LastOf, Answered
  <2> QED
    BY <1>1, <1>2, <2>1 DEF ConnectionSide, TxSent
<1>7. OpenReplay' /\ TxReplay'
  BY <1>1 DEF OpenReplay, TxReplay
<1>8. BrokerKnowsSender'
  BY <1>1 DEF ConnectionSide, BrokerKnowsSender
<1> QED
  BY <1>2, <1>3, <1>4, <1>5, <1>6, <1>7, <1>8 DEF ConnectionSide

(* The connection is given up in the middle. *)
LEMMA RestoreFailsStep ==
    ASSUME TypeOK, Client, ConnectionSide, RestoreFails
    PROVE  TypeOK' /\ Client' /\ ConnectionSide'
<1>1. /\ rpc # "idle" /\ rpc' = "idle" /\ seen' = {} /\ todo' = {} /\ cur' = NoTx
      /\ replay' = <<>> /\ doubt' = {} /\ alive' = FALSE
      /\ UNCHANGED <<app, tracker, connected, breaks>>
  BY DEF RestoreFails
<1>2. BrokerOK(broker)
  BY DEF TypeOK, BrokerOK
<1>9. PICK kept \in SUBSET broker.out :
        broker' = IF alive THEN Fresh(broker.log, broker.strangers, kept) ELSE broker
  BY DEF RestoreFails
<1>3. /\ BrokerOK(broker') /\ broker'.prods = {} /\ broker'.dests = {} /\ DOMAIN broker'.open = {}
      /\ broker'.log = broker.log /\ broker'.strangers = broker.strangers /\ broker'.out \subseteq broker.out
  <2>1. CASE alive
    <3>1. broker' = Parts({}, {}, <<>>, broker.log, broker.strangers, kept)
      BY <1>9, <2>1 DEF Fresh, Parts
    <3>2. IsMap(<<>>, Txs, Seq(Nat)) /\ DOMAIN <<>> = {}
      BY DEF IsMap
    <3>4. kept \subseteq [c : Command, ok : BOOLEAN]
      BY <1>2, PartsOf
    <3>3. Becomes(broker', {}, {}, <<>>, broker.log, broker.strangers, kept)
      BY <1>2, <3>1, <3>2, <3>4, PartsOf, PartsBecome
    <3> QED
      BY <3>2, <3>3 DEF Becomes
  <2>2. CASE ~alive
    BY <1>1, <1>2, <1>9, <2>2 DEF ConnectionSide, Conn
  <2> QED
    BY <2>1, <2>2
<1>4. /\ Client' /\ Log'
      /\ UNCHANGED <<pc, call, life, tx, nextTx, sends, outcome, producers, temps, txs, requestMap>>
  BY <1>1, <1>3, RunnerKeeps
<1>5. TypeOK'
  <2>1. /\ seen' \subseteq Txs /\ todo' \subseteq Txs /\ cur' \in Txs \cup {NoTx} /\ alive' \in BOOLEAN
        /\ rpc' \in {"idle", "open", "transactions"} /\ doubt' \subseteq Command
    BY <1>1
  <2>2. replay' \in Seq(Command)
    BY <1>1
  <2> QED
    BY <1>1, <1>3, <1>4, <2>1, <2>2 DEF TypeOK, BrokerOK
<1>6. Conn'
  BY <1>1, <1>3 DEF ConnectionSide, Conn
<1>7. OpenSent' /\ OpenReplay' /\ TxSent' /\ TxReplay'
  BY <1>1 DEF OpenSent, OpenReplay, TxSent, TxReplay
<1>8. BrokerKnowsSender'
  BY <1>3 DEF ConnectionSide, BrokerKnowsSender
<1> QED
  BY <1>4, <1>5, <1>6, <1>7, <1>8 DEF ConnectionSide

(* SetToSeq lists a finite set. *)
LEMMA SetToSeqLists ==
    ASSUME NEW S, IsFiniteSet(S)
    PROVE  SetToSeq(S) \in Seq(S) /\ ToSet(SetToSeq(S)) = S
<1> DEFINE D == 1..Cardinality(S)
           f == SetToSeq(S)
<1>1. Cardinality(S) \in Nat /\ ExistsBijection(D, S)
  BY FS_CardinalityType
<1>2. \E g \in [D -> S] : IsInjective(g)
  BY <1>1 DEF ExistsBijection, Bijection, Injection, IsInjective
<1>3. f \in [D -> S] /\ IsInjective(f)
  BY <1>2 DEF SetToSeq
<1>4. f \in Injection(D, S)
  BY <1>3 DEF Injection, IsInjective
<1>5. IsFiniteSet(D) /\ Cardinality(D) = Cardinality(S)
  BY <1>1, FS_Interval
<1>6. f \in Surjection(D, S)
  BY <1>4, <1>5, FS_Injection
<1>7. ToSet(f) = S
  BY <1>3, <1>6 DEF Surjection, ToSet
<1>8. f \in Seq(S)
  BY <1>1, <1>3
<1> QED
  BY <1>7, <1>8

(* What is to be restored of the producers and destinations. *)
LEMMA OpenStateLists ==
    ASSUME TypeOK
    PROVE  LET n == Len(temps) IN
           /\ OpenState \in Seq(Command) /\ n \in Nat /\ n <= Len(OpenState) /\ DOMAIN temps = 1..n
           /\ \A i \in 1..n : OpenState[i] = temps[i]
           /\ \A i \in (n + 1)..Len(OpenState) : OpenState[i].k = "AddProducer"
           /\ \A p \in DOMAIN producers : AddProducer(p) \in ToSet(OpenState)
           /\ ToSet(temps) \subseteq ToSet(OpenState)
<1> DEFINE Q == {AddProducer(p) : p \in DOMAIN producers}
           q == SetToSeq(Q)
           o == temps \o q
           n == Len(temps)
<1>1. DOMAIN producers \subseteq Producers /\ temps \in Seq(Command)
  BY DEF TypeOK, IsMap
<1>2. IsFiniteSet(Q)
  <2>1. IsFiniteSet(DOMAIN producers)
    BY <1>1, TrackerAssumption, FS_Subset
  <2> DEFINE f == [p \in DOMAIN producers |-> AddProducer(p)]
  <2>2. f \in Surjection(DOMAIN producers, Q)
    BY DEF Surjection
  <2> QED
    BY <2>1, <2>2, FS_Surjection
<1>3. q \in Seq(Q) /\ ToSet(q) = Q
  BY <1>2, SetToSeqLists
<1>4. Q \subseteq Command /\ \A c \in Q : c.k = "AddProducer"
  BY <1>1, CommandsMade DEF AddProducer, Cmd
<1>5. o = OpenState
  BY DEF OpenState
<1>6. \A p \in DOMAIN producers : AddProducer(p) \in Q
  OBVIOUS
<1> HIDE DEF q, Q
<1>7. q \in Seq(Command)
  BY <1>3, <1>4
<1>8. /\ o \in Seq(Command) /\ Len(o) = Len(temps) + Len(q)
      /\ \A i \in 1..(Len(temps) + Len(q)) : o[i] = IF i <= Len(temps) THEN temps[i] ELSE q[i - Len(temps)]
  BY <1>1, <1>7, ConcatProperties
<1>9. PICK m \in Nat : m = Len(q) /\ DOMAIN q = 1..m
  BY <1>7
<1>10. n \in Nat /\ DOMAIN temps = 1..n
  BY <1>1
<1> HIDE DEF n, o
<1>11. Len(o) = n + m /\ \A i \in 1..(n + m) : o[i] = IF i <= n THEN temps[i] ELSE q[i - n]
  BY <1>8, <1>9 DEF n
<1>12. DOMAIN o = 1..(n + m)
  BY <1>8, <1>11
<1>13. \A i \in 1..n : i \in 1..(n + m) /\ o[i] = temps[i]
  BY <1>9, <1>10, <1>11
<1>14. \A i \in (n + 1)..(n + m) : o[i] = q[i - n] /\ i - n \in 1..m
  BY <1>9, <1>10, <1>11
<1>15. \A j \in 1..m : j + n \in 1..(n + m) /\ o[j + n] = q[j]
  <2>1. ASSUME NEW j \in 1..m PROVE j + n \in (n + 1)..(n + m) /\ (j + n) - n = j /\ j + n \in 1..(n + m)
    BY <1>9, <1>10
  <2> QED
    BY <1>14, <2>1
<1>16. \A j \in 1..m : q[j] \in Q
  BY <1>3, <1>9 DEF ToSet
<1>17. \A x \in Q : \E j \in 1..m : q[j] = x
  BY <1>3, <1>9 DEF ToSet
<1>18. \A i \in (n + 1)..(n + m) : o[i].k = "AddProducer"
  BY <1>4, <1>14, <1>16
<1>19. \A x \in Q : x \in ToSet(o)
  BY <1>12, <1>15, <1>17 DEF ToSet
<1>20. ToSet(temps) \subseteq ToSet(o)
  BY <1>10, <1>12, <1>13 DEF ToSet
<1>21. n <= n + m
  BY <1>9, <1>10
<1> QED
  BY <1>5, <1>6, <1>8, <1>10, <1>11, <1>13, <1>18, <1>19, <1>20, <1>21 DEF n

(* A new connection: all that is open is still to be sent on it. *)
LEMMA ConnectStep ==
    ASSUME TypeOK, Client, ConnectionSide, Connect
    PROVE  TypeOK' /\ Client' /\ ConnectionSide'
<1>1. /\ rpc = "idle" /\ ~connected /\ alive' = TRUE /\ rpc' = "open" /\ replay' = OpenState
      /\ UNCHANGED <<app, tracker, connected, seen, todo, cur, doubt, breaks, broker>>
  BY DEF Connect
<1>2. /\ Client' /\ Log'
      /\ UNCHANGED <<pc, call, life, tx, nextTx, sends, outcome, producers, temps, txs, requestMap>>
  BY <1>1, RunnerKeeps
<1>3. PICK n \in Nat : n = Len(temps)
  BY DEF TypeOK
<1>4. /\ replay' \in Seq(Command) /\ n <= Len(replay') /\ DOMAIN temps = 1..n
      /\ \A i \in 1..n : replay'[i] = temps[i]
      /\ \A i \in (n + 1)..Len(replay') : replay'[i].k = "AddProducer"
      /\ \A p \in DOMAIN producers : AddProducer(p) \in ToSet(replay')
      /\ ToSet(temps) \subseteq ToSet(replay')
  BY <1>1, <1>3, OpenStateLists
<1>5. TypeOK'
  BY <1>1, <1>2, <1>4 DEF TypeOK
<1>6. broker.dests = {}
  BY <1>1 DEF ConnectionSide, Conn
<1>7. Rest' = ToSet(replay')
  BY <1>1 DEF Rest
<1>8. ASSUME NEW s \in Sessions, pc[s] = "waiting", ~Ending(s) PROVE call[s] \in ToSet(replay')
  <2>1. call[s] \in Command /\ call[s].k \in {"AddProducer", "AddDest", "RemoveDest"}
    <3>1. call[s] # NoCall /\ Sync(call[s])
      BY <1>8 DEF Client, Calls
    <3> QED
      BY <1>8, <3>1 DEF TypeOK, Sync, Ending, EndKinds
  <2>2. PICK c \in Command, o \in Producers \cup Dests : c = call[s] /\ o = c.o /\ Owner[o] = s
    <3>1. call[s].o \in Producers \cup Dests /\ call[s].k \notin EndKinds /\ call[s] # NoCall
      BY <2>1, CommandKinds, NoCallFields DEF EndKinds
    <3> QED
      BY <2>1, <3>1 DEF Client, Calls
  <2>3. CASE c.k = "AddProducer"
    <3>1. c = AddProducer(o) /\ o \in Producers
      BY <2>2, <2>3, CommandNames, CommandKinds
    <3>2. life[o] = "new" /\ Waits(Owner[o], AddProducer(o))
      BY <1>8, <2>2, <3>1 DEF Client, ProdLife, Waits
    <3>3. o \in DOMAIN producers
      BY <3>1, <3>2 DEF Client, ProdLife
    <3> QED
      BY <1>4, <2>2, <3>1, <3>3
  <2>4. CASE c.k = "AddDest"
    <3>1. c = AddDest(o) /\ o \in Dests
      BY <2>2, <2>4, CommandNames, CommandKinds
    <3>2. Waits(Owner[o], AddDest(o))
      BY <1>8, <2>2, <3>1 DEF Waits
    <3>3. AddDest(o) \in ToSet(temps)
      BY <3>1, <3>2 DEF Client, DestLife
    <3> QED
      BY <1>4, <2>2, <3>1, <3>3
  <2>5. CASE c.k = "RemoveDest"
    <3>1. c = RemoveDest(o) /\ o \in Dests
      BY <2>2, <2>5, CommandNames, CommandKinds
    <3>2. life[o] = "closed" /\ pc[Owner[o]] # "oneway"
      BY <1>8, <2>2, <3>1 DEF Client, DestLife
    <3>3. RemoveDest(o) \in ToSet(temps)
      BY <3>1, <3>2 DEF Client, DestLife
    <3> QED
      BY <1>4, <2>2, <3>1, <3>3
  <2> QED
    BY <2>1, <2>2, <2>3, <2>4, <2>5
<1>9. OpenSent'
  BY <1>1, <1>2, <1>4, <1>6, <1>7, <1>8 DEF OpenSent, Ending
<1>10. OpenReplay'
  <2>1. ASSUME NEW i \in DOMAIN replay'
        PROVE  /\ replay'[i].k \in {"AddProducer", "AddDest", "RemoveDest"}
               /\ replay'[i].k # "AddProducer" => replay'[i] \in ToSet(temps)
               /\ replay'[i].k = "AddDest" /\ RemoveDest(replay'[i].o) \in ToSet(temps) =>
                     \E j \in DOMAIN replay' : j > i /\ replay'[j] = RemoveDest(replay'[i].o)
    <3>1. DOMAIN replay' = 1..Len(replay') /\ Len(replay') \in Nat
      BY <1>4
    <3>2. CASE i \notin 1..n
      <4>1. i \in (n + 1)..Len(replay')
        BY <3>1, <3>2
      <4> QED
        BY <1>4, <4>1
    <3>3. CASE i \in 1..n
      <4>1. PICK c \in Command : c = replay'[i] /\ c = temps[i] /\ c.k \in {"AddDest", "RemoveDest"}
        <5>1. temps[i] \in Command
          BY <1>4, <3>3 DEF TypeOK
        <5> QED
          BY <1>4, <3>3, <5>1 DEF Client, DestLife
      <4>2. c \in ToSet(temps)
        BY <1>4, <3>3, <4>1 DEF ToSet
      <4>3. ASSUME c.k = "AddDest", RemoveDest(c.o) \in ToSet(temps)
            PROVE  \E j \in DOMAIN replay' : j > i /\ replay'[j] = RemoveDest(c.o)
        <5>1. c.o \in Dests /\ temps[i] = AddDest(c.o)
          BY <4>1, <4>3, CommandNames, CommandKinds
        <5>2. PICK j \in DOMAIN temps : temps[j] = RemoveDest(c.o)
          BY <4>3 DEF ToSet
        <5>3. i < j
          BY <1>4, <3>3, <5>1, <5>2 DEF Client, DestLife
        <5>4. j \in DOMAIN replay' /\ replay'[j] = temps[j] /\ j > i
          BY <1>4, <3>1, <3>3, <5>2, <5>3
        <5> QED
          BY <5>2, <5>4
      <4> QED
        BY <4>1, <4>2, <4>3
    <3> QED
      BY <3>2, <3>3
  <2> QED
    BY <1>2, <2>1 DEF OpenReplay
<1>11. Conn'
  BY <1>1 DEF ConnectionSide, Conn
<1>12. TxSent' /\ TxReplay'
  BY <1>1 DEF TxSent, TxReplay
<1>13. BrokerKnowsSender'
  BY <1>1 DEF ConnectionSide, BrokerKnowsSender
<1> QED
  BY <1>2, <1>5, <1>9, <1>10, <1>11, <1>12, <1>13 DEF ConnectionSide

(* The rest of a sequence. *)
LEMMA TailRest ==
    ASSUME NEW q \in Seq(Command), q # <<>>
    PROVE  /\ Head(q) \in Command /\ Head(q) = q[1] /\ Tail(q) \in Seq(Command) /\ 1 \in DOMAIN q
           /\ Len(q) \in Nat /\ Len(q) >= 1 /\ Len(Tail(q)) = Len(q) - 1
           /\ DOMAIN q = 1..Len(q) /\ DOMAIN Tail(q) = 1..(Len(q) - 1)
           /\ \A i \in 1..(Len(q) - 1) : Tail(q)[i] = q[i + 1]
           /\ \A i \in DOMAIN Tail(q) : Tail(q)[i] = q[i + 1] /\ i + 1 \in DOMAIN q
           /\ \A i \in DOMAIN q : i > 1 => i - 1 \in DOMAIN Tail(q) /\ Tail(q)[i - 1] = q[i]
           /\ ToSet(q) = ToSet(Tail(q)) \cup {Head(q)}
<1>1. /\ Len(q) \in Nat /\ Len(q) >= 1 /\ DOMAIN q = 1..Len(q)
      /\ Head(q) = q[1] /\ Tail(q) \in Seq(Command) /\ Len(Tail(q)) = Len(q) - 1
      /\ \A i \in 1..(Len(q) - 1) : Tail(q)[i] = q[i + 1]
  BY EmptySeq, HeadTailProperties
<1>2. q[1] \in Command /\ 1 \in DOMAIN q
  BY <1>1
<1>3. DOMAIN Tail(q) = 1..(Len(q) - 1)
  BY <1>1
<1>4. \A i \in DOMAIN Tail(q) : Tail(q)[i] = q[i + 1] /\ i + 1 \in DOMAIN q
  BY <1>1, <1>3
<1>5. ASSUME NEW i \in DOMAIN q, i > 1 PROVE i - 1 \in DOMAIN Tail(q) /\ Tail(q)[i - 1] = q[i]
  <2>1. i - 1 \in 1..(Len(q) - 1) /\ (i - 1) + 1 = i
    BY <1>1, <1>5
  <2> QED
    BY <1>1, <1>3, <2>1
<1>6. ToSet(q) = ToSet(Tail(q)) \cup {q[1]}
  <2>1. \A i \in DOMAIN q : i = 1 \/ i > 1
    BY <1>1
  <2> QED
    BY <1>2, <1>4, <1>5, <2>1 DEF ToSet
<1> QED
  BY <1>1, <1>2, <1>3, <1>4, <1>5, <1>6

(* What the broker makes of a command about a producer or a destination. *)
OpenApplied(b, h, ok) ==
    /\ BrokerOK(b)
    /\ b.prods = IF h.k = "AddProducer" THEN broker.prods \cup {h.o} ELSE broker.prods
    /\ b.dests = CASE h.k = "AddDest" -> broker.dests \cup {h.o}
                   [] h.k = "RemoveDest" -> broker.dests \ {h.o}
                   [] OTHER -> broker.dests
    /\ b.open = broker.open /\ b.log = broker.log /\ b.strangers = broker.strangers
    /\ b.out = broker.out \cup Reply(h, ok)

(* Such a command always applies. *)
LEMMA OpenApplies ==
    ASSUME TypeOK, NEW h \in Command, h.k \in {"AddProducer", "AddDest", "RemoveDest"}
    PROVE  \E ok \in BOOLEAN : OpenApplied(BrokerApply(broker, h), h, ok)
<1>1. BrokerOK(broker)
  BY DEF TypeOK, BrokerOK
<1>2. PICK yes \in BOOLEAN : yes = TRUE
  OBVIOUS
<1>3. PICK b : b = BrokerApply(broker, h)
  OBVIOUS
<1>4. CASE h.k = "AddProducer"
  <2>1. Becomes(b, broker.prods \cup {h.o}, broker.dests, broker.open, broker.log,
                broker.strangers, broker.out \cup Reply(h, TRUE))
    BY <1>1, <1>3, <1>4, AppliedAddProducer, CommandNames, CommandKinds
  <2>2. Becomes(b, broker.prods \cup {h.o}, broker.dests, broker.open, broker.log,
                broker.strangers, broker.out \cup Reply(h, yes))
    BY <1>2, <2>1, Zenon
  <2>3. OpenApplied(b, h, yes)
    BY <1>4, <2>2 DEF Becomes, OpenApplied
  <2> QED
    BY <1>3, <2>3
<1>5. CASE h.k = "AddDest"
  <2>1. Becomes(b, broker.prods, broker.dests \cup {h.o}, broker.open, broker.log,
                broker.strangers, broker.out \cup Reply(h, TRUE))
    BY <1>1, <1>3, <1>5, AppliedAddDest, CommandNames, CommandKinds
  <2>2. Becomes(b, broker.prods, broker.dests \cup {h.o}, broker.open, broker.log,
                broker.strangers, broker.out \cup Reply(h, yes))
    BY <1>2, <2>1, Zenon
  <2>3. OpenApplied(b, h, yes)
    BY <1>5, <2>2 DEF Becomes, OpenApplied
  <2> QED
    BY <1>3, <2>3
<1>6. CASE h.k = "RemoveDest"
  <2>1. Becomes(b, broker.prods, broker.dests \ {h.o}, broker.open, broker.log,
                broker.strangers, broker.out \cup Reply(h, TRUE))
    BY <1>1, <1>3, <1>6, AppliedRemoveDest, CommandNames, CommandKinds
  <2>2. Becomes(b, broker.prods, broker.dests \ {h.o}, broker.open, broker.log,
                broker.strangers, broker.out \cup Reply(h, yes))
    BY <1>2, <2>1, Zenon
  <2>3. OpenApplied(b, h, yes)
    BY <1>6, <2>2 DEF Becomes, OpenApplied
  <2> QED
    BY <1>3, <2>3
<1> QED
  BY <1>4, <1>5, <1>6

(* The next of what is open. *)
LEMMA RestoreOpenStep ==
    ASSUME TypeOK, Client, ConnectionSide, RestoreOpen
    PROVE  TypeOK' /\ Client' /\ ConnectionSide'
<1>1. /\ rpc = "open" /\ replay # <<>>
      /\ broker' = IF alive THEN BrokerApply(broker, Head(replay)) ELSE broker
      /\ replay' = Tail(replay)
      /\ UNCHANGED <<app, tracker, connected, rpc, seen, todo, cur, doubt, alive, breaks>>
  BY DEF RestoreOpen, SendNext
<1>2. PICK h : h = Head(replay)
  OBVIOUS
<1>3. /\ h \in Command /\ h = replay[1] /\ replay' \in Seq(Command) /\ 1 \in DOMAIN replay
      /\ DOMAIN replay = 1..Len(replay) /\ Len(replay) \in Nat
      /\ \A i \in DOMAIN replay' : replay'[i] = replay[i + 1] /\ i + 1 \in DOMAIN replay
      /\ \A i \in DOMAIN replay : i > 1 => i - 1 \in DOMAIN replay' /\ replay'[i - 1] = replay[i]
      /\ ToSet(replay) = ToSet(replay') \cup {h}
      /\ DOMAIN replay' = 1..(Len(replay) - 1)
  BY <1>1, <1>2, TailRest DEF TypeOK
<1>4. /\ h.k \in {"AddProducer", "AddDest", "RemoveDest"}
      /\ h.k # "AddProducer" => h \in ToSet(temps)
      /\ h.k = "AddDest" /\ RemoveDest(h.o) \in ToSet(temps) => RemoveDest(h.o) \in ToSet(replay')
  <2>1. /\ h.k \in {"AddProducer", "AddDest", "RemoveDest"}
        /\ h.k # "AddProducer" => h \in ToSet(temps)
        /\ h.k = "AddDest" /\ RemoveDest(h.o) \in ToSet(temps) =>
              \E j \in DOMAIN replay : j > 1 /\ replay[j] = RemoveDest(h.o)
    BY <1>1, <1>3 DEF ConnectionSide, OpenReplay
  <2>2. \A j \in DOMAIN replay : j > 1 => replay[j] \in ToSet(replay')
    BY <1>3 DEF ToSet
  <2> QED
    BY <2>1, <2>2
<1>5. ASSUME alive PROVE \E ok \in BOOLEAN : OpenApplied(broker', h, ok)
  BY <1>1, <1>2, <1>3, <1>4, <1>5, OpenApplies
<1>6. /\ BrokerOK(broker') /\ broker'.log = broker.log /\ broker'.strangers = broker.strangers
      /\ broker'.open = broker.open
      /\ \A r \in broker'.out : r \in broker.out \/ r.c.k # "Commit"
      /\ broker.out \subseteq broker'.out
  <2>1. CASE alive
    <3>1. PICK ok \in BOOLEAN : OpenApplied(broker', h, ok)
      BY <1>5, <2>1
    <3>2. \A r \in Reply(h, ok) : r.c.k # "Commit"
      BY <1>3, <1>4, ReplyOK
    <3> QED
      BY <3>1, <3>2 DEF OpenApplied
  <2>2. CASE ~alive
    BY <1>1, <2>2 DEF TypeOK, BrokerOK
  <2> QED
    BY <2>1, <2>2
<1>7. /\ Client' /\ Log'
      /\ UNCHANGED <<pc, call, life, tx, nextTx, sends, outcome, producers, temps, txs, requestMap>>
  BY <1>1, <1>6, RunnerKeeps
<1>8. TypeOK'
  BY <1>1, <1>3, <1>6, <1>7 DEF TypeOK, BrokerOK
<1>9. OpenReplay'
  <2>1. ASSUME NEW i \in DOMAIN replay'
        PROVE  /\ replay'[i].k \in {"AddProducer", "AddDest", "RemoveDest"}
               /\ replay'[i].k # "AddProducer" => replay'[i] \in ToSet(temps)
               /\ replay'[i].k = "AddDest" /\ RemoveDest(replay'[i].o) \in ToSet(temps) =>
                     \E j \in DOMAIN replay' : j > i /\ replay'[j] = RemoveDest(replay'[i].o)
    <3>1. PICK m \in DOMAIN replay, c \in Command : m = i + 1 /\ c = replay[m] /\ c = replay'[i]
      BY <1>3 DEF TypeOK
    <3>2. /\ c.k \in {"AddProducer", "AddDest", "RemoveDest"}
          /\ c.k # "AddProducer" => c \in ToSet(temps)
          /\ c.k = "AddDest" /\ RemoveDest(c.o) \in ToSet(temps) =>
                \E j \in DOMAIN replay : j > m /\ replay[j] = RemoveDest(c.o)
      BY <1>1, <3>1 DEF ConnectionSide, OpenReplay
    <3>3. ASSUME NEW j \in DOMAIN replay, j > m
          PROVE  j - 1 \in DOMAIN replay' /\ j - 1 > i /\ replay'[j - 1] = replay[j]
      <4>1. j > 1 /\ j - 1 > i
        BY <1>3, <3>1, <3>3
      <4> QED
        BY <1>3, <4>1
    <3> QED
      BY <3>1, <3>2, <3>3
  <2> QED
    BY <1>7, <2>1 DEF OpenReplay
<1>10. ASSUME alive PROVE OpenSent'
  <2>1. PICK ok \in BOOLEAN : OpenApplied(broker', h, ok)
    BY <1>5, <1>10
  <2>2. Rest = ToSet(replay) /\ Rest' = ToSet(replay') /\ Rest = Rest' \cup {h}
    BY <1>1, <1>3 DEF Rest
  <2>3. OpenSent
    BY DEF ConnectionSide
  <2>4. ASSUME NEW p \in DOMAIN producers PROVE p \in broker'.prods \/ AddProducer(p) \in Rest'
    <3>1. p \in broker.prods \/ AddProducer(p) \in Rest
      BY <1>10, <2>3 DEF OpenSent
    <3>2. AddProducer(p) = h => p \in broker'.prods
      BY <2>1 DEF OpenApplied, AddProducer, Cmd
    <3>3. p \in broker.prods => p \in broker'.prods
      BY <2>1 DEF OpenApplied
    <3> QED
      BY <2>2, <3>1, <3>2, <3>3
  <2>5. ASSUME NEW d \in Dests
        PROVE  /\ AddDest(d) \in ToSet(temps) =>
                     d \in broker'.dests \/ AddDest(d) \in Rest' \/ RemoveDest(d) \in ToSet(temps)
               /\ d \in broker'.dests =>
                     /\ AddDest(d) \in ToSet(temps)
                     /\ RemoveDest(d) \in ToSet(temps) => RemoveDest(d) \in Rest'
    <3>1. /\ AddDest(d) \in ToSet(temps) =>
                d \in broker.dests \/ AddDest(d) \in Rest \/ RemoveDest(d) \in ToSet(temps)
          /\ d \in broker.dests =>
                /\ AddDest(d) \in ToSet(temps)
                /\ RemoveDest(d) \in ToSet(temps) => RemoveDest(d) \in Rest
      BY <1>10, <2>3 DEF OpenSent
    <3>2. CASE h = AddDest(d)
      <4>1. h.k = "AddDest" /\ h.o = d
        BY <3>2 DEF AddDest, Cmd
      <4>2. d \in broker'.dests
        BY <2>1, <4>1 DEF OpenApplied
      <4> QED
        BY <1>4, <2>2, <3>2, <4>1, <4>2
    <3>3. CASE h = RemoveDest(d)
      <4>1. h.k = "RemoveDest" /\ h.o = d
        BY <3>3 DEF RemoveDest, Cmd
      <4>2. d \notin broker'.dests
        BY <2>1, <4>1 DEF OpenApplied
      <4> QED
        BY <1>4, <3>3, <4>1, <4>2
    <3>4. CASE h # AddDest(d) /\ h # RemoveDest(d)
      <4>1. h.k = "AddProducer" \/ h.o # d
        BY <1>3, <1>4, <3>4, CommandNames
      <4>2. d \in broker'.dests <=> d \in broker.dests
        BY <1>4, <2>1, <4>1 DEF OpenApplied
      <4> QED
        BY <2>2, <3>1, <3>4, <4>2
    <3> QED
      BY <3>2, <3>3, <3>4
  <2>6. ASSUME NEW s \in Sessions, pc[s] = "waiting", ~Ending(s)
        PROVE  Answered(call[s])' \/ call[s] \in Rest'
    <3>1. PICK c : c = call[s] /\ call'[s] = c
      BY <1>7
    <3>2. Answered(c) \/ c \in Rest
      BY <1>10, <2>3, <2>6, <3>1 DEF OpenSent
    <3>3. Answered(c) => Answered(c)'
      BY <1>6 DEF Answered
    <3>4. c = h => Answered(c)'
      <4>1. c = h => Reply(c, ok) \subseteq broker'.out
        BY <2>1 DEF OpenApplied
      <4> QED
        BY <3>1, <4>1, ReplyAnswers
    <3>5. Answered(c)' \/ c \in Rest'
      BY <2>2, <3>2, <3>3, <3>4
    <3> QED
      BY <3>1, <3>5 DEF Answered
  <2> QED
    BY <1>7, <2>4, <2>5, <2>6 DEF OpenSent, Ending
<1>11. OpenSent'
  BY <1>1, <1>10 DEF OpenSent
<1>12. Conn'
  BY <1>1 DEF ConnectionSide, Conn
<1>13. TxSent' /\ TxReplay'
  BY <1>1 DEF TxSent, TxReplay
<1>14. BrokerKnowsSender'
  BY <1>6 DEF ConnectionSide, BrokerKnowsSender
<1> QED
  BY <1>7, <1>8, <1>9, <1>11, <1>12, <1>13, <1>14 DEF ConnectionSide

(* D is A and then B, of which A has a elements and B has n. *)
Joined(D, A, B, a, n) ==
    /\ D \in Seq(Command) /\ Len(D) = a + n
    /\ \A j \in 1..a : D[j] = A[j]
    /\ \A j \in 1..n : D[a + j] = B[j]

(* Which is what the concatenation of two sequences is. *)
LEMMA TwoParts ==
    ASSUME NEW A \in Seq(Command), NEW B \in Seq(Command)
    PROVE  Joined(A \o B, A, B, Len(A), Len(B))
<1>1. Len(A) \in Nat /\ Len(B) \in Nat
  OBVIOUS
<1>6. PICK a \in Nat, n \in Nat : a = Len(A) /\ n = Len(B)
  BY <1>1
<1>7. PICK D : D = A \o B
  OBVIOUS
<1>2. /\ D \in Seq(Command) /\ Len(D) = a + n
      /\ \A i \in 1..(a + n) : D[i] = IF i <= a THEN A[i] ELSE B[i - a]
  BY <1>6, <1>7, ConcatProperties
<1>3. ASSUME NEW j \in 1..a PROVE D[j] = A[j]
  <2>1. j \in 1..(a + n) /\ j <= a
    OBVIOUS
  <2> QED
    BY <1>2, <2>1
<1>4. ASSUME NEW j \in 1..n PROVE D[a + j] = B[j]
  <2>1. a + j \in 1..(a + n) /\ ~(a + j <= a) /\ (a + j) - a = j
    OBVIOUS
  <2> QED
    BY <1>2, <2>1
<1>5. Joined(D, A, B, a, n)
  BY <1>2, <1>3, <1>4 DEF Joined
<1> QED
  BY <1>5, <1>6, <1>7

(* The replay of a transaction: P its closed producers, a their number, n its commands. *)
Shape(t, P, a, n) ==
    /\ P = SetToSeq(txs[t].prods) /\ a = Len(P) /\ n = Len(txs[t].cmds)
    /\ ReplayOf(t) \in Seq(Command) /\ Len(ReplayOf(t)) = a + n + a
    /\ \A j \in 1..a : P[j] \in txs[t].prods /\ P[j] \in Producers
    /\ \A p \in txs[t].prods : \E j \in 1..a : P[j] = p
    /\ \A j \in 1..a : ReplayOf(t)[j] = AddProducer(P[j])
    /\ \A j \in 1..n : ReplayOf(t)[a + j] = txs[t].cmds[j] /\ txs[t].cmds[j] \in Command
    /\ \A j \in 1..a : ReplayOf(t)[a + n + j] = RemoveProducer(P[j])

(* The replay of a transaction has this shape. *)
LEMMA ReplayShape ==
    ASSUME TypeOK, NEW t \in DOMAIN txs
    PROVE  \E P \in Seq(Producers), a \in Nat, n \in Nat : Shape(t, P, a, n)
<1>1. txs[t].prods \subseteq Producers /\ txs[t].cmds \in Seq(Command)
  BY DEF TypeOK, IsMap, TxState
<1>2. PICK P : P = SetToSeq(txs[t].prods) /\ P \in Seq(txs[t].prods) /\ ToSet(P) = txs[t].prods
  BY <1>1, TrackerAssumption, FS_Subset, SetToSeqLists
<1>3. PICK a \in Nat : a = Len(P) /\ DOMAIN P = 1..a
  BY <1>2
<1>4. PICK n \in Nat : n = Len(txs[t].cmds)
  BY <1>1
<1>5. \A j \in 1..a : P[j] \in txs[t].prods /\ P[j] \in Producers
  BY <1>1, <1>2, <1>3 DEF ToSet
<1>6. \A p \in txs[t].prods : \E j \in 1..a : P[j] = p
  BY <1>2, <1>3 DEF ToSet
<1> DEFINE adds == [j \in 1..a |-> AddProducer(P[j])]
           removes == [j \in 1..a |-> RemoveProducer(P[j])]
           cs == txs[t].cmds
<1>7. ReplayOf(t) = (adds \o cs) \o removes
  BY <1>2, <1>3 DEF ReplayOf
<1>8. adds \in Seq(Command) /\ Len(adds) = a
  BY <1>5, CommandsMade
<1>9. removes \in Seq(Command) /\ Len(removes) = a
  BY <1>5, CommandsMade
<1>10. \A j \in 1..a : adds[j] = AddProducer(P[j]) /\ removes[j] = RemoveProducer(P[j])
  OBVIOUS
<1>11. cs \in Seq(Command) /\ Len(cs) = n
  BY <1>1, <1>4
<1> HIDE DEF adds, removes, cs
<1>12. PICK A, B, C, D, R : A = adds /\ B = cs /\ C = removes /\ D = A \o B /\ R = D \o C
  OBVIOUS
<1>19. /\ A \in Seq(Command) /\ B \in Seq(Command) /\ C \in Seq(Command)
       /\ Len(A) = a /\ Len(B) = n /\ Len(C) = a
  BY <1>8, <1>9, <1>11, <1>12
<1>20. /\ R \in Seq(Command) /\ Len(R) = a + n + a
       /\ \A j \in 1..a : R[j] = A[j]
       /\ \A j \in 1..n : R[a + j] = B[j]
       /\ \A j \in 1..a : R[a + n + j] = C[j]
  <2>1. Joined(D, A, B, a, n)
    BY <1>12, <1>19, TwoParts
  <2>2. D \in Seq(Command) /\ Len(D) = a + n
    BY <2>1 DEF Joined
  <2>3. Joined(R, D, C, a + n, a)
    BY <1>12, <1>19, <2>2, TwoParts
  <2>4. PICK d \in Nat : d = a + n /\ \A j \in 1..a : j \in 1..d
    OBVIOUS
  <2>5. \A j \in 1..n : a + j \in 1..d
    BY <2>4
  <2>6. /\ R \in Seq(Command) /\ Len(R) = d + a
        /\ \A j \in 1..d : R[j] = D[j]
        /\ \A j \in 1..a : R[d + j] = C[j]
    BY <2>3, <2>4 DEF Joined
  <2>7. /\ \A j \in 1..a : D[j] = A[j]
        /\ \A j \in 1..n : D[a + j] = B[j]
    BY <2>1 DEF Joined
  <2> QED
    BY <2>4, <2>5, <2>6, <2>7
<1>13. /\ R \in Seq(Command) /\ Len(R) = a + n + a
       /\ \A j \in 1..a : R[j] = adds[j]
       /\ \A j \in 1..n : R[a + j] = cs[j]
       /\ \A j \in 1..a : R[a + n + j] = removes[j]
  BY <1>12, <1>20
<1>14. \A j \in 1..n : cs[j] \in Command
  BY <1>11, ElementOfSeq
<1>15. P \in Seq(Producers)
  BY <1>3, <1>5, <1>2
<1>17. ReplayOf(t) = R /\ cs = txs[t].cmds
  BY <1>7, <1>12 DEF cs
<1>18. \A j \in 1..a : R[j] = AddProducer(P[j]) /\ R[a + n + j] = RemoveProducer(P[j])
  BY <1>10, <1>13
<1>16. Shape(t, P, a, n)
  BY <1>2, <1>3, <1>4, <1>5, <1>6, <1>13, <1>14, <1>17, <1>18, Zenon DEF Shape
<1> QED
  BY <1>15, <1>16

(* What is kept of a transaction, by its place. *)
LEMMA KeptShape ==
    ASSUME TypeOK, Client, NEW t \in DOMAIN txs
    PROVE  /\ t \in Txs /\ sends[t] \in Nat /\ txs[t].cmds \in Seq(Command)
           /\ Len(txs[t].cmds) \in {sends[t] + 1, sends[t] + 2}
           /\ txs[t].cmds[1].k = "Begin" /\ txs[t].cmds[1].t = t
           /\ \A i \in 1..sends[t] : /\ txs[t].cmds[i + 1].k = "Message"
                                     /\ txs[t].cmds[i + 1].t = t /\ txs[t].cmds[i + 1].i = i
           /\ LastOf(t) = txs[t].cmds[Len(txs[t].cmds)] /\ LastOf(t) \in Command
           /\ Len(txs[t].cmds) = sends[t] + 1 => LastOf(t).k \notin EndKinds
           /\ Len(txs[t].cmds) = sends[t] + 2 =>
                 /\ LastOf(t).k \in EndKinds /\ LastOf(t).t = t
                 /\ \E s \in Sessions : call[s] = LastOf(t)
<1>1. Kept(t)
  BY DEF Client, TrackedTx
<1>2. t \in Txs /\ sends[t] \in Nat /\ txs[t].cmds \in Seq(Command)
  BY TrackerAssumption DEF TypeOK, IsMap, TxState
<1>3. Len(txs[t].cmds) \in {sends[t] + 1, sends[t] + 2}
  BY <1>1 DEF Kept
<1>4. /\ txs[t].cmds[1].k = "Begin" /\ txs[t].cmds[1].t = t
      /\ \A i \in 1..sends[t] : /\ txs[t].cmds[i + 1].k = "Message"
                                /\ txs[t].cmds[i + 1].t = t /\ txs[t].cmds[i + 1].i = i
  BY <1>1 DEF Kept
<1>5. LastOf(t) = txs[t].cmds[Len(txs[t].cmds)]
  BY DEF LastOf, Last
<1>6. LastOf(t) \in Command
  <2>1. Len(txs[t].cmds) \in 1..Len(txs[t].cmds)
    BY <1>2, <1>3
  <2> QED
    BY <1>2, <1>5, <2>1, ElementOfSeq
<1>7. ASSUME Len(txs[t].cmds) = sends[t] + 1 PROVE LastOf(t).k \notin EndKinds
  <2>1. CASE sends[t] = 0
    BY <1>4, <1>5, <1>7, <2>1 DEF EndKinds
  <2>2. CASE sends[t] # 0
    <3>1. sends[t] \in 1..sends[t]
      BY <1>2, <2>2
    <3> QED
      BY <1>4, <1>5, <1>7, <3>1 DEF EndKinds
  <2> QED
    BY <2>1, <2>2
<1>8. ASSUME Len(txs[t].cmds) = sends[t] + 2
      PROVE  /\ LastOf(t).k \in EndKinds /\ LastOf(t).t = t
             /\ \E s \in Sessions : call[s] = LastOf(t)
  <2>1. sends[t] + 1 # sends[t] + 2
    BY <1>2
  <2>2. \E s \in Sessions : Ending(s) /\ call[s].t = t /\ call[s] = txs[t].cmds[sends[t] + 2]
    BY <1>1, <1>8, <2>1 DEF Kept
  <2> QED
    BY <1>5, <1>8, <2>2 DEF Ending
<1> QED
  BY <1>2, <1>3, <1>4, <1>5, <1>6, <1>7, <1>8

(* The next transaction: in doubt, or to be replayed from its start. *)
LEMMA RestoreTransactionStep ==
    ASSUME TypeOK, Client, ConnectionSide, RestoreTransaction
    PROVE  TypeOK' /\ Client' /\ ConnectionSide'
<1>1. /\ rpc = "transactions" /\ replay = <<>> /\ DOMAIN txs = seen
      /\ UNCHANGED <<app, tracker, connected, rpc, seen, alive, breaks, broker>>
  BY DEF RestoreTransaction, Modified
<1>2. PICK t \in todo : todo' = todo \ {t} /\ Visit(t)
  BY DEF RestoreTransaction
<1>3. t \in DOMAIN txs
  BY <1>1 DEF ConnectionSide, Conn
<1>4. /\ Client' /\ Log'
      /\ UNCHANGED <<pc, call, life, tx, nextTx, sends, outcome, producers, temps, txs, requestMap>>
  BY <1>1, RunnerKeeps
<1>5. /\ t \in Txs /\ sends[t] \in Nat /\ LastOf(t) \in Command
      /\ Len(txs[t].cmds) \in {sends[t] + 1, sends[t] + 2}
      /\ Len(txs[t].cmds) = sends[t] + 1 => LastOf(t).k \notin EndKinds
  BY <1>3, KeptShape
<1>18. PICK P \in Seq(Producers), a \in Nat, n \in Nat : Shape(t, P, a, n)
  BY <1>3, ReplayShape
<1>6. P = SetToSeq(txs[t].prods) /\ a = Len(P) /\ n = Len(txs[t].cmds)
  BY <1>18 DEF Shape
<1>7. a \in Nat /\ n \in Nat /\ ReplayOf(t) \in Seq(Command) /\ Len(ReplayOf(t)) = a + n + a
  BY <1>18 DEF Shape
<1>8. n >= 1
  BY <1>5, <1>6
<1>9. /\ replay' \in Seq(Command) /\ doubt' \subseteq Command /\ doubt \subseteq doubt'
      /\ cur' \in Txs \cup {NoTx} /\ \A c \in doubt' : c.k = "Commit"
      /\ LastOf(t).k = "Commit" => LastOf(t) \in doubt' /\ replay' = <<>>
      /\ LastOf(t).k # "Commit" => cur' = t /\ replay' = ReplayOf(t)
  <2>1. CASE LastOf(t).k = "Commit"
    BY <1>1, <1>2, <1>5, <2>1 DEF Visit, TypeOK, ConnectionSide, Conn
  <2>2. CASE LastOf(t).k # "Commit"
    BY <1>2, <1>5, <1>7, <2>2 DEF Visit, TypeOK, ConnectionSide, Conn
  <2> QED
    BY <2>1, <2>2
<1>10. TypeOK'
  <2>1. todo' \subseteq Txs
    BY <1>2 DEF TypeOK
  <2> QED
    BY <1>1, <1>4, <1>9, <2>1 DEF TypeOK
<1>11. Conn'
  BY <1>1, <1>2, <1>9 DEF ConnectionSide, Conn
<1>12. OpenSent'
  <2>1. Rest = {} /\ Rest' = {}
    BY <1>1 DEF Rest
  <2> QED
    BY <1>1, <1>4, <2>1 DEF ConnectionSide, OpenSent, Ending, Answered
<1>13. \A u : LastOf(u)' = LastOf(u) /\ ReplayOf(u)' = ReplayOf(u)
  BY <1>4 DEF LastOf, ReplayOf
<1>14. TxSent'
  <2>1. ASSUME alive, NEW u \in DOMAIN txs
        PROVE  u \in todo' \/ (u = cur' /\ replay' # <<>>) \/ Settled(u)'
    <3>1. u \in todo \/ Settled(u)
      BY <1>1, <2>1 DEF ConnectionSide, TxSent
    <3>2. Settled(u) => Settled(u)'
      BY <1>1, <1>4, <1>9, SettledStays
    <3>3. CASE u = t /\ LastOf(t).k = "Commit"
      <4>1. Len(txs[t].cmds) # sends[t] + 1
        BY <1>5, <3>3 DEF EndKinds
      <4>2. LastOf(t)' \in doubt'
        BY <1>9, <1>13, <3>3
      <4> QED
        BY <1>4, <3>3, <4>1, <4>2 DEF Settled
    <3>4. CASE u = t /\ LastOf(t).k # "Commit"
      <4>1. replay' # <<>>
        BY <1>7, <1>8, <1>9, <3>4
      <4> QED
        BY <1>9, <3>4, <4>1
    <3> QED
      BY <1>2, <3>1, <3>2, <3>3, <3>4
  <2> QED
    BY <1>1, <1>4, <2>1 DEF TxSent
<1>15. TxReplay'
  <2>1. ASSUME LastOf(t).k # "Commit" PROVE Progress(t, 0)'
    <3>1. replay' = ReplayOf(t) /\ Len(replay') = Len(ReplayOf(t)) - 0
          /\ \A j \in 1..Len(replay') : 0 + j = j
      BY <1>7, <1>9, <2>1
    <3>2. Left(t, 0)'
      BY <1>13, <3>1 DEF Left
    <3>3. Reached(t, 0)'
      <4>1. ~(0 > a) /\ ~(0 >= a + n) /\ \A j \in 1..a : ~(j <= 0)
        BY <1>7, <1>8
      <4>2. txs' = txs
        BY <1>4
      <4> QED
        BY <1>6, <4>1, <4>2 DEF Reached
    <3> QED
      BY <3>2, <3>3 DEF Progress
  <2>2. 0 \in 0..Len(ReplayOf(t))
    BY <1>7
  <2> QED
    BY <1>9, <1>13, <2>1, <2>2 DEF TxReplay
<1>16. OpenReplay'
  BY <1>1 DEF OpenReplay
<1>17. BrokerKnowsSender'
  BY <1>1 DEF ConnectionSide, BrokerKnowsSender
<1> QED
  BY <1>4, <1>10, <1>11, <1>12, <1>14, <1>15, <1>16, <1>17 DEF ConnectionSide

(* Reached, with the parts of the replay named. *)
ReachedAt(t, P, a, n, k) ==
    /\ k <= a + n => \A j \in 1..a : j <= k => P[j] \in broker.prods
    /\ k > a /\ k <= a + sends[t] + 1 =>
          t \in DOMAIN broker.open /\ broker.open[t] = [i \in 1..(k - a - 1) |-> i]
    /\ k >= a + n => Settled(t)

(* It says the same. *)
LEMMA ReachedIs ==
    ASSUME NEW t, NEW P, NEW a, NEW n, NEW k, Shape(t, P, a, n)
    PROVE  /\ Reached(t, k) => ReachedAt(t, P, a, n, k)
           /\ txs' = txs /\ ReachedAt(t, P, a, n, k)' => Reached(t, k)'
<1>1. P = SetToSeq(txs[t].prods) /\ a = Len(P) /\ n = Len(txs[t].cmds)
  BY DEF Shape
<1>2. Reached(t, k) => ReachedAt(t, P, a, n, k)
  BY <1>1 DEF Reached, ReachedAt
<1>3. ASSUME txs' = txs, ReachedAt(t, P, a, n, k)' PROVE Reached(t, k)'
  BY <1>1, <1>3 DEF Reached, ReachedAt
<1> QED
  BY <1>2, <1>3

(* The broker after a command of the replay of t. *)
Replayed(t) ==
    /\ BrokerOK(broker') /\ broker'.dests = broker.dests /\ broker'.log = broker.log
    /\ broker'.strangers = broker.strangers /\ broker.out \subseteq broker'.out
    /\ \A r \in broker'.out : r \in broker.out \/ r.c.k # "Commit"
    /\ \A u \in DOMAIN broker.open : u # t =>
          u \in DOMAIN broker'.open /\ broker'.open[u] = broker.open[u]
    /\ \A q \in broker.prods : q \in broker'.prods \/ q \in txs[t].prods

(* The command in place k + 1 of the replay reaches the broker. *)
Replays(t, P, a, n, k) ==
    /\ Shape(t, P, a, n) /\ ReachedAt(t, P, a, n, k)
    /\ broker' = BrokerApply(broker, ReplayOf(t)[k + 1])
    /\ UNCHANGED <<app, tracker, doubt>>

(* A closed producer is added. *)
LEMMA ReplaysAdd ==
    ASSUME TypeOK, Client, NEW t \in DOMAIN txs, NEW P \in Seq(Producers), NEW a \in Nat,
           NEW n \in Nat, NEW k \in Nat, Replays(t, P, a, n, k), k + 1 <= a
    PROVE  Replayed(t) /\ ReachedAt(t, P, a, n, k + 1)'
<1>1. PICK p \in Producers : p = P[k + 1] /\ ReplayOf(t)[k + 1] = AddProducer(p)
  <2>1. k + 1 \in 1..a
    OBVIOUS
  <2> QED
    BY <2>1 DEF Replays, Shape
<1>2. PICK yes \in BOOLEAN : yes = TRUE
  OBVIOUS
<1>3. BrokerOK(broker)
  BY DEF TypeOK, BrokerOK
<1>4. PICK c \in Command : c = AddProducer(p) /\ c.k = "AddProducer"
  BY CommandsMade DEF AddProducer, Cmd
<1>5. Becomes(broker', broker.prods \cup {p}, broker.dests, broker.open, broker.log,
              broker.strangers, broker.out \cup Reply(c, yes))
  <2>1. broker' = BrokerApply(broker, AddProducer(p))
    BY <1>1 DEF Replays
  <2> QED
    BY <1>2, <1>3, <1>4, <2>1, AppliedAddProducer, Zenon
<1>6. \A r \in Reply(c, yes) : r.c.k # "Commit"
  BY <1>4, ReplyOK
<1>7. Replayed(t) /\ broker'.prods = broker.prods \cup {p}
  BY <1>5, <1>6 DEF Becomes, Replayed
<1>8. n >= 1 /\ ~(k + 1 > a) /\ ~(k + 1 >= a + n) /\ k <= a + n
  <2>1. n \in {sends[t] + 1, sends[t] + 2} /\ sends[t] \in Nat
    BY KeptShape DEF Replays, Shape
  <2> QED
    BY <2>1
<1>9. ASSUME NEW j \in 1..a, j <= k + 1 PROVE P[j] \in broker'.prods
  <2>1. j = k + 1 \/ j <= k
    BY <1>9
  <2> QED
    BY <1>1, <1>7, <1>8, <2>1 DEF Replays, ReachedAt
<1> QED
  BY <1>7, <1>8, <1>9 DEF ReachedAt

(* The begin. *)
LEMMA ReplaysBegin ==
    ASSUME TypeOK, Client, NEW t \in DOMAIN txs, NEW P \in Seq(Producers), NEW a \in Nat,
           NEW n \in Nat, NEW k \in Nat, Replays(t, P, a, n, k), k = a
    PROVE  Replayed(t) /\ ReachedAt(t, P, a, n, k + 1)'
<1>1. PICK m \in Nat : m = sends[t] /\ n \in {m + 1, m + 2} /\ n = Len(txs[t].cmds)
  BY KeptShape DEF Replays, Shape
<1>2. PICK c \in Command : c = ReplayOf(t)[k + 1] /\ c.k = "Begin" /\ c.t = t
  <2>1. 1 \in 1..n
    BY <1>1
  <2>2. ReplayOf(t)[a + 1] = txs[t].cmds[1] /\ txs[t].cmds[1] \in Command
    BY <2>1 DEF Replays, Shape
  <2>3. txs[t].cmds[1].k = "Begin" /\ txs[t].cmds[1].t = t
    BY KeptShape
  <2> QED
    BY <2>2, <2>3
<1>3. BrokerOK(broker) /\ t \in Txs
  BY KeptShape DEF TypeOK, BrokerOK
<1>4. PICK o : /\ Becomes(broker', broker.prods, broker.dests, o, broker.log, broker.strangers, broker.out)
               /\ DOMAIN o = DOMAIN broker.open \cup {t} /\ o[t] = <<>>
               /\ \A u \in DOMAIN broker.open : u # t => o[u] = broker.open[u]
  <2>1. broker' = BrokerApply(broker, Begin(c.o, t))
    BY <1>2, CommandNames DEF Replays
  <2>2. PICK o : o = With(broker.open, t, <<>>)
    OBVIOUS
  <2>3. /\ Becomes(broker', broker.prods, broker.dests, o, broker.log, broker.strangers, broker.out)
        /\ DOMAIN o = DOMAIN broker.open \cup {t} /\ o[t] = <<>>
        /\ \A u \in DOMAIN broker.open : u # t => o[u] = broker.open[u]
    BY <1>3, <2>1, <2>2, AppliedBegin, Zenon
  <2> QED
    BY <2>3
<1>5. Replayed(t) /\ broker'.prods = broker.prods /\ t \in DOMAIN broker'.open /\ broker'.open[t] = <<>>
  BY <1>4 DEF Becomes, Replayed
<1>6. broker'.open[t] = [i \in 1..0 |-> i]
  BY <1>5
<1>7. UNCHANGED <<sends, txs>>
  BY DEF Replays, app, tracker
<1>8. \A j \in 1..a : P[j] \in broker'.prods
  <2>1. k <= a + n /\ \A j \in 1..a : j <= k
    OBVIOUS
  <2> QED
    BY <1>5, <2>1 DEF Replays, ReachedAt
<1>9. (k + 1) - a - 1 = 0 /\ (n = m + 1 /\ k + 1 >= a + n => m = 0) /\ (n = m + 2 => ~(k + 1 >= a + n))
      /\ m + 1 # m + 2
  BY <1>1
<1>10. k + 1 >= a + n => Settled(t)'
  BY <1>1, <1>5, <1>6, <1>7, <1>9 DEF Settled
<1>11. broker'.open[t] = [i \in 1..((k + 1) - a - 1) |-> i]
  BY <1>6, <1>9
<1> QED
  BY <1>5, <1>7, <1>8, <1>10, <1>11 DEF ReachedAt

(* A message, whose producer is open or was added. *)
LEMMA ReplaysMessage ==
    ASSUME TypeOK, Client, NEW t \in DOMAIN txs, NEW P \in Seq(Producers), NEW a \in Nat,
           NEW n \in Nat, NEW k \in Nat, Replays(t, P, a, n, k), k > a, k <= a + sends[t],
           \A p \in DOMAIN producers : p \in broker.prods
    PROVE  Replayed(t) /\ ReachedAt(t, P, a, n, k + 1)'
<1>1. PICK m \in Nat : m = sends[t] /\ n \in {m + 1, m + 2} /\ n = Len(txs[t].cmds)
  BY KeptShape DEF Replays, Shape
<1>2. PICK i \in 1..m : k = a + i
  <2>1. k - a \in 1..m /\ k = a + (k - a)
    BY <1>1
  <2> QED
    BY <2>1
<1>3. PICK c \in Command : c = ReplayOf(t)[k + 1] /\ c = txs[t].cmds[i + 1]
                           /\ c.k = "Message" /\ c.t = t /\ c.i = i
  <2>1. i \in 1..sends[t]
    BY <1>1
  <2>3. i \in Nat /\ i >= 1 /\ i <= m
    BY <1>2
  <2>4. i + 1 \in 1..n
    BY <1>1, <2>3, SMTT(60)
  <2>5. a + (i + 1) = k + 1
    BY <1>2, <2>3
  <2>2. ReplayOf(t)[a + (i + 1)] = txs[t].cmds[i + 1] /\ txs[t].cmds[i + 1] \in Command
    BY <2>4 DEF Replays, Shape
  <2>6. txs[t].cmds[i + 1].k = "Message" /\ txs[t].cmds[i + 1].t = t /\ txs[t].cmds[i + 1].i = i
    BY <2>1, KeptShape
  <2> QED
    BY <2>2, <2>5, <2>6
<1>4. BrokerOK(broker) /\ t \in Txs /\ i \in Nat /\ k <= a + n /\ \A j \in 1..a : j <= k
  <2>1. BrokerOK(broker) /\ t \in Txs
    BY KeptShape DEF TypeOK, BrokerOK
  <2>2. i \in Nat /\ i <= m
    BY <1>2
  <2>3. k <= a + n
    BY <1>1, <1>2, <2>2, SMTT(60)
  <2> QED
    BY <2>1, <2>2, <2>3
<1>5. \A j \in 1..a : P[j] \in broker.prods
  BY <1>4 DEF Replays, ReachedAt
<1>6. c.o \in broker.prods
  <2>1. c.o \in txs[t].prods \/ c.o \in DOMAIN producers
    BY <1>1, <1>2, <1>3 DEF Client, Senders
  <2>2. c.o \in txs[t].prods => \E j \in 1..a : P[j] = c.o
    BY DEF Replays, Shape
  <2> QED
    BY <1>5, <2>1, <2>2
<1>7. t \in DOMAIN broker.open /\ broker.open[t] = [j \in 1..(i - 1) |-> j]
  <2>1. k > a /\ k <= a + sends[t] + 1 /\ k - a - 1 = i - 1
    BY <1>1, <1>2
  <2> QED
    BY <2>1 DEF Replays, ReachedAt
<1>8. Append(broker.open[t], i) = [j \in 1..i |-> j]
  <2>1. PICK x \in Nat : x = i - 1 /\ x + 1 = i
    BY <1>2
  <2>2. Append([j \in 1..x |-> j], x + 1) = [j \in 1..(x + 1) |-> j]
    BY <2>1, OneMore
  <2> QED
    BY <1>7, <2>1, <2>2
<1>9. PICK v : v = [j \in 1..i |-> j]
  OBVIOUS
<1>10. Becomes(broker', broker.prods, broker.dests, [broker.open EXCEPT ![t] = v], broker.log,
               broker.strangers, broker.out)
  <2>1. broker' = BrokerApply(broker, Message(c.o, t, i))
    BY <1>3, CommandNames DEF Replays
  <2>2. Becomes(broker', broker.prods, broker.dests, [broker.open EXCEPT ![t] = Append(broker.open[t], i)],
                broker.log, broker.strangers, broker.out)
    BY <1>4, <1>6, <1>7, <2>1, AppliedMessage
  <2> QED
    BY <1>8, <1>9, <2>2, Zenon
<1>11. PICK o : /\ Becomes(broker', broker.prods, broker.dests, o, broker.log, broker.strangers, broker.out)
                /\ DOMAIN o = DOMAIN broker.open /\ o[t] = v
                /\ \A u \in DOMAIN broker.open : u # t => o[u] = broker.open[u]
  <2>1. PICK o : o = [broker.open EXCEPT ![t] = v]
    OBVIOUS
  <2>2. DOMAIN o = DOMAIN broker.open /\ o[t] = v /\ \A u \in DOMAIN broker.open : u # t => o[u] = broker.open[u]
    BY <1>4, <1>7, <2>1 DEF BrokerOK, IsMap
  <2> QED
    BY <1>10, <2>1, <2>2, Zenon
<1>12. Replayed(t) /\ broker'.prods = broker.prods /\ t \in DOMAIN broker'.open /\ broker'.open[t] = v
  BY <1>7, <1>11 DEF Becomes, Replayed
<1>13. UNCHANGED <<sends, txs>>
  BY DEF Replays, app, tracker
<1>14. (k + 1) - a - 1 = i /\ (n = m + 1 /\ k + 1 >= a + n => m = i) /\ (n = m + 2 => ~(k + 1 >= a + n))
       /\ m + 1 # m + 2
  <2>1. i \in Nat /\ i <= m /\ i >= 1
    BY <1>2
  <2>2. (k + 1) - a - 1 = i
    BY <1>2, <2>1
  <2>3. n = m + 1 /\ k + 1 >= a + n => m = i
    BY <1>2, <2>1
  <2>4. n = m + 2 => ~(k + 1 >= a + n)
    BY <1>2, <2>1
  <2> QED
    BY <2>2, <2>3, <2>4
<1>15. k + 1 >= a + n => Settled(t)'
  BY <1>1, <1>9, <1>12, <1>13, <1>14 DEF Settled
<1>16. broker'.open[t] = [j \in 1..((k + 1) - a - 1) |-> j]
  BY <1>9, <1>12, <1>14
<1> QED
  BY <1>5, <1>12, <1>13, <1>15, <1>16 DEF ReachedAt

(* The rollback, which is answered. *)
LEMMA ReplaysRollback ==
    ASSUME TypeOK, Client, NEW t \in DOMAIN txs, NEW P \in Seq(Producers), NEW a \in Nat,
           NEW n \in Nat, NEW k \in Nat, Replays(t, P, a, n, k), k = a + sends[t] + 1, k < a + n,
           LastOf(t).k # "Commit"
    PROVE  Replayed(t) /\ ReachedAt(t, P, a, n, k + 1)'
<1>1. PICK m \in Nat : m = sends[t] /\ n = m + 2 /\ n = Len(txs[t].cmds)
  <2>1. n \in {sends[t] + 1, sends[t] + 2} /\ sends[t] \in Nat /\ n = Len(txs[t].cmds)
    BY KeptShape DEF Replays, Shape
  <2> QED
    BY <2>1
<1>2. PICK s \in Sessions, c \in Command : /\ c = LastOf(t) /\ c = txs[t].cmds[n] /\ c.k = "Rollback"
                                           /\ c.t = t /\ call[s] = c
  <2>1. Len(txs[t].cmds) = sends[t] + 2
    BY <1>1
  <2>2. /\ LastOf(t) = txs[t].cmds[Len(txs[t].cmds)] /\ LastOf(t) \in Command
        /\ LastOf(t).k \in EndKinds /\ LastOf(t).t = t
        /\ \E s \in Sessions : call[s] = LastOf(t)
    BY <2>1, KeptShape
  <2> QED
    BY <1>1, <2>2 DEF EndKinds
<1>3. ReplayOf(t)[k + 1] = c /\ c = Rollback(t)
  <2>3. k = a + m + 1 /\ n = m + 2
    BY <1>1
  <2>1. n \in 1..n /\ k + 1 = a + n
    BY <2>3
  <2>2. ReplayOf(t)[a + n] = c
    BY <1>2, <2>1 DEF Replays, Shape
  <2> QED
    BY <1>2, <2>1, <2>2, CommandNames
<1>4. BrokerOK(broker) /\ t \in Txs /\ k <= a + n /\ \A j \in 1..a : j <= k
  <2>1. BrokerOK(broker) /\ t \in Txs
    BY KeptShape DEF TypeOK, BrokerOK
  <2>2. k = a + m + 1
    BY <1>1
  <2> QED
    BY <2>1, <2>2
<1>5. PICK ok \in BOOLEAN :
         Becomes(broker', broker.prods, broker.dests, Without(broker.open, t), broker.log,
                 broker.strangers, broker.out \cup Reply(c, ok))
  <2>1. broker' = BrokerApply(broker, Rollback(t))
    BY <1>3 DEF Replays
  <2> QED
    BY <1>3, <1>4, <2>1, AppliedRollback
<1>6. \A u \in DOMAIN broker.open : u # t =>
         u \in DOMAIN Without(broker.open, t) /\ Without(broker.open, t)[u] = broker.open[u]
  BY DEF Without
<1>7. \A r \in Reply(c, ok) : r.c.k # "Commit"
  BY <1>2, ReplyOK
<1>8. Replayed(t) /\ broker'.prods = broker.prods /\ Reply(c, ok) \subseteq broker'.out
  BY <1>5, <1>6, <1>7 DEF Becomes, Replayed
<1>9. UNCHANGED <<sends, txs>>
  BY DEF Replays, app, tracker
<1>10. Settled(t)'
  <2>1. Answered(c)'
    BY <1>2, <1>8, ReplyAnswers
  <2>2. LastOf(t)' = c
    BY <1>2, <1>9 DEF LastOf
  <2>3. m + 1 # m + 2
    OBVIOUS
  <2> QED
    BY <1>1, <1>9, <2>1, <2>2, <2>3 DEF Settled, Answered
<1>11. \A j \in 1..a : P[j] \in broker'.prods
  BY <1>4, <1>8 DEF Replays, ReachedAt
<1>12. ~(k + 1 <= a + sends[t] + 1)
  BY <1>1
<1> QED
  BY <1>8, <1>9, <1>10, <1>11, <1>12 DEF ReachedAt

(* A closed producer is removed again. *)
LEMMA ReplaysRemove ==
    ASSUME TypeOK, Client, NEW t \in DOMAIN txs, NEW P \in Seq(Producers), NEW a \in Nat,
           NEW n \in Nat, NEW k \in Nat, Replays(t, P, a, n, k), k >= a + n, k < a + n + a
    PROVE  Replayed(t) /\ ReachedAt(t, P, a, n, k + 1)'
<1>1. PICK j \in 1..a : k + 1 = a + n + j
  <2>1. (k + 1) - (a + n) \in 1..a /\ k + 1 = a + n + ((k + 1) - (a + n))
    OBVIOUS
  <2> QED
    BY <2>1
<1>2. PICK p \in Producers : p \in txs[t].prods /\ ReplayOf(t)[k + 1] = RemoveProducer(p)
  <2>1. P[j] \in txs[t].prods /\ P[j] \in Producers /\ ReplayOf(t)[a + n + j] = RemoveProducer(P[j])
    BY DEF Replays, Shape
  <2> QED
    BY <1>1, <2>1
<1>3. BrokerOK(broker)
  BY DEF TypeOK, BrokerOK
<1>4. Becomes(broker', broker.prods \ {p}, broker.dests, broker.open, broker.log,
              broker.strangers, broker.out)
  <2>1. broker' = BrokerApply(broker, RemoveProducer(p))
    BY <1>2 DEF Replays
  <2> QED
    BY <1>3, <2>1, AppliedRemoveProducer
<1>5. Replayed(t) /\ broker'.open = broker.open
  BY <1>2, <1>4 DEF Becomes, Replayed
<1>6. Settled(t)'
  <2>1. Settled(t) /\ UNCHANGED <<sends, txs, doubt>>
    BY DEF Replays, ReachedAt, app, tracker
  <2> QED
    BY <1>5, <2>1, SettledStays DEF Replayed
<1>7. ~(k + 1 <= a + n) /\ ~(k + 1 <= a + sends[t] + 1)
  <2>1. n \in {sends[t] + 1, sends[t] + 2} /\ sends[t] \in Nat
    BY KeptShape DEF Replays, Shape
  <2> QED
    BY <2>1
<1>8. sends' = sends
  BY DEF Replays, app
<1> QED
  BY <1>5, <1>6, <1>7, <1>8 DEF ReachedAt

(* The command after the k-th, whichever it is. *)
LEMMA ReplaysNext ==
    ASSUME TypeOK, Client, NEW t \in DOMAIN txs, NEW P \in Seq(Producers), NEW a \in Nat,
           NEW n \in Nat, NEW k \in Nat, Replays(t, P, a, n, k), k < a + n + a,
           LastOf(t).k # "Commit", \A p \in DOMAIN producers : p \in broker.prods
    PROVE  Replayed(t) /\ ReachedAt(t, P, a, n, k + 1)'
<1>1. PICK m \in Nat : m = sends[t] /\ n \in {m + 1, m + 2}
  BY KeptShape DEF Replays, Shape
<1>2. CASE k + 1 <= a
  BY <1>2, ReplaysAdd
<1>3. CASE k = a
  BY <1>3, ReplaysBegin
<1>4. CASE k > a /\ k <= a + m
  BY <1>1, <1>4, ReplaysMessage
<1>5. CASE k = a + m + 1 /\ k < a + n
  BY <1>1, <1>5, ReplaysRollback
<1>6. CASE k >= a + n
  BY <1>6, ReplaysRemove
<1>7. k + 1 <= a \/ k = a \/ (k > a /\ k <= a + m) \/ (k = a + m + 1 /\ k < a + n) \/ k >= a + n
  BY <1>1
<1> QED
  BY <1>2, <1>3, <1>4, <1>5, <1>6, <1>7

(* The next command of the transaction that is replayed. *)
LEMMA RestoreCommandStep ==
    ASSUME TypeOK, Client, ConnectionSide, RestoreCommand
    PROVE  TypeOK' /\ Client' /\ ConnectionSide'
<1>1. /\ rpc = "transactions" /\ cur \in DOMAIN txs /\ replay # <<>>
      /\ broker' = IF alive THEN BrokerApply(broker, Head(replay)) ELSE broker
      /\ replay' = Tail(replay)
      /\ UNCHANGED <<app, tracker, connected, rpc, seen, todo, cur, doubt, alive, breaks>>
  BY DEF RestoreCommand, SendNext
<1>2. PICK t \in DOMAIN txs : t = cur
  BY <1>1
<1>3. PICK P \in Seq(Producers), a \in Nat, n \in Nat : Shape(t, P, a, n)
  BY ReplayShape
<1>4. LastOf(t).k # "Commit" /\ \E x \in 0..Len(ReplayOf(t)) : Progress(t, x)
  BY <1>1, <1>2 DEF ConnectionSide, TxReplay
<1>5. Len(ReplayOf(t)) = a + n + a
  BY <1>3 DEF Shape
<1>6. PICK k \in 0..(a + n + a) : Progress(t, k)
  BY <1>4, <1>5
<1>7. /\ Head(replay) = replay[1] /\ replay' \in Seq(Command) /\ Len(replay) \in Nat
      /\ Len(replay) >= 1 /\ Len(replay') = Len(replay) - 1
      /\ \A i \in 1..(Len(replay) - 1) : replay'[i] = replay[i + 1]
  BY <1>1, TailRest DEF TypeOK
<1>8. /\ Len(replay) = (a + n + a) - k /\ \A j \in 1..Len(replay) : replay[j] = ReplayOf(t)[k + j]
      /\ alive => Reached(t, k)
  BY <1>5, <1>6 DEF Progress, Left
<1>9. k \in Nat /\ k < a + n + a /\ k + 1 \in 0..(a + n + a) /\ Head(replay) = ReplayOf(t)[k + 1]
  <2>1. k \in Nat /\ k < a + n + a /\ k + 1 \in 0..(a + n + a)
    BY <1>6, <1>7, <1>8
  <2>2. 1 \in 1..Len(replay)
    BY <1>7
  <2> QED
    BY <1>7, <1>8, <2>1, <2>2
<1>10. UNCHANGED <<pc, call, life, tx, nextTx, sends, outcome, producers, temps, txs, requestMap>>
  BY <1>1 DEF app, tracker
<1>11. Rest = {} /\ Rest' = {}
  BY <1>1 DEF Rest
<1>12. ASSUME alive PROVE Replayed(t) /\ ReachedAt(t, P, a, n, k + 1)'
  <2>1. ReachedAt(t, P, a, n, k)
    BY <1>3, <1>8, <1>12, ReachedIs
  <2>2. Replays(t, P, a, n, k)
    BY <1>1, <1>3, <1>9, <1>12, <2>1 DEF Replays
  <2>3. \A p \in DOMAIN producers : p \in broker.prods
    BY <1>11, <1>12 DEF ConnectionSide, OpenSent
  <2> QED
    BY <1>4, <1>9, <2>2, <2>3, ReplaysNext
<1>13. Replayed(t)
  <2>1. CASE ~alive
    BY <1>1, <2>1 DEF Replayed, TypeOK, BrokerOK
  <2> QED
    BY <1>12, <2>1
<1>14. Client' /\ Log'
  BY <1>1, <1>13, RunnerKeeps DEF Replayed
<1>15. TypeOK'
  BY <1>1, <1>7, <1>10, <1>13 DEF TypeOK, Replayed, BrokerOK
<1>16. Conn'
  <2>1. ~alive => broker' = broker
    BY <1>1
  <2> QED
    BY <1>1, <2>1 DEF ConnectionSide, Conn
<1>17. OpenSent'
  <2>1. ASSUME alive, NEW p \in DOMAIN producers PROVE p \in broker'.prods
    <3>1. p \in broker.prods
      BY <1>11, <2>1 DEF ConnectionSide, OpenSent
    <3>2. p \notin txs[t].prods
      BY <2>1 DEF Client, ProdLife
    <3> QED
      BY <1>13, <3>1, <3>2 DEF Replayed
  <2>2. ASSUME alive, NEW s \in Sessions, pc[s] = "waiting", ~Ending(s) PROVE Answered(call[s])'
    <3>1. PICK c : c = call[s] /\ call'[s] = c
      BY <1>10
    <3>2. Answered(c)
      BY <1>11, <2>2, <3>1 DEF ConnectionSide, OpenSent
    <3>3. Answered(c)'
      BY <1>13, <3>2 DEF Answered, Replayed
    <3> QED
      BY <3>1, <3>3 DEF Answered
  <2>3. broker'.dests = broker.dests
    BY <1>13 DEF Replayed
  <2> QED
    BY <1>1, <1>10, <1>11, <2>1, <2>2, <2>3 DEF ConnectionSide, OpenSent, Ending
<1>18. \A u : LastOf(u)' = LastOf(u) /\ ReplayOf(u)' = ReplayOf(u)
  BY <1>10 DEF LastOf, ReplayOf
<1>19. TxReplay'
  <2>1. Left(t, k + 1)'
    <3>1. Len(replay') = (a + n + a) - (k + 1)
      BY <1>7, <1>8, <1>9
    <3>2. ASSUME NEW j \in 1..Len(replay') PROVE replay'[j] = ReplayOf(t)[(k + 1) + j]
      <4>1. j \in 1..(Len(replay) - 1) /\ j + 1 \in 1..Len(replay) /\ k + (j + 1) = (k + 1) + j
        BY <1>7, <1>9
      <4>2. replay[j + 1] = ReplayOf(t)[k + (j + 1)]
        BY <1>8, <4>1
      <4> QED
        BY <1>7, <4>1, <4>2
    <3> QED
      BY <1>5, <1>18, <3>1, <3>2 DEF Left
  <2>2. alive' => Reached(t, k + 1)'
    BY <1>1, <1>3, <1>10, <1>12, ReachedIs
  <2>3. Progress(t, k + 1)'
    BY <2>1, <2>2 DEF Progress
  <2>4. cur' = t /\ LastOf(t)' = LastOf(t) /\ Len(ReplayOf(t)') = a + n + a
    BY <1>1, <1>2, <1>5, <1>18
  <2> QED
    BY <1>4, <1>9, <2>3, <2>4 DEF TxReplay
<1>20. TxSent'
  <2>1. ASSUME alive, NEW u \in DOMAIN txs
        PROVE  u \in todo \/ (u = t /\ replay' # <<>>) \/ Settled(u)'
    <3>1. CASE u = t /\ replay' = <<>>
      <4>1. Len(replay') = 0
        BY <3>1
      <4>2. k + 1 = a + n + a
        BY <1>7, <1>8, <1>9, <4>1
      <4>3. k + 1 >= a + n
        BY <4>2
      <4> QED
        BY <1>12, <2>1, <3>1, <4>3 DEF ReachedAt
    <3>2. CASE u # t
      <4>1. u \in todo \/ Settled(u)
        BY <1>1, <1>2, <2>1, <3>2 DEF ConnectionSide, TxSent
      <4>2. Settled(u) => Settled(u)'
        <5>1. /\ broker.out \subseteq broker'.out
              /\ u \in DOMAIN broker.open => u \in DOMAIN broker'.open /\ broker'.open[u] = broker.open[u]
          BY <1>13, <3>2 DEF Replayed
        <5> QED
          BY <1>1, <1>10, <5>1, SettledStays
      <4> QED
        BY <4>1, <4>2
    <3> QED
      BY <3>1, <3>2
  <2> QED
    BY <1>1, <1>2, <1>10, <2>1 DEF TxSent
<1>21. OpenReplay'
  BY <1>1 DEF OpenReplay
<1>22. BrokerKnowsSender'
  BY <1>13 DEF ConnectionSide, BrokerKnowsSender, Replayed
<1> QED
  BY <1>14, <1>15, <1>16, <1>17, <1>19, <1>20, <1>21, <1>22 DEF ConnectionSide

(* The runner's thread. *)
LEMMA RestoreStep ==
    ASSUME TypeOK, Client, ConnectionSide, Restore
    PROVE  TypeOK' /\ Client' /\ ConnectionSide'
  BY ConnectStep, RestoreOpenStep, WalkBeginsStep, RestoreTransactionStep, RestoreCommandStep,
     RestoreClearedStep, AnswerInDoubtStep, RestoreFailsStep, RestoredStep DEF Restore

-----------------------------------------------------------------------------
(* The invariant *)

(* It holds at the start. *)
LEMMA InitIInv == Init => IInv
<1> SUFFICES ASSUME Init PROVE IInv
  OBVIOUS
<1>1. /\ pc = [s \in Sessions |-> "idle"] /\ call = [s \in Sessions |-> NoCall]
      /\ life = [o \in Producers \cup Dests |-> "new"] /\ tx = [s \in Sessions |-> NoTx]
      /\ nextTx = 1 /\ sends = [t \in Txs |-> 0] /\ outcome = [t \in Txs |-> None]
      /\ producers = <<>> /\ temps = <<>> /\ txs = <<>> /\ requestMap = {}
      /\ connected = TRUE /\ rpc = "idle" /\ seen = {} /\ todo = {} /\ cur = NoTx
      /\ replay = <<>> /\ doubt = {} /\ alive = TRUE /\ breaks = 0
      /\ broker = Parts({}, {}, <<>>, <<>>, {}, {})
  BY DEF Init, Fresh, Parts
<1>2. DOMAIN producers = {} /\ DOMAIN txs = {} /\ DOMAIN temps = {} /\ ToSet(temps) = {}
  BY <1>1 DEF ToSet
<1>3. Becomes(broker, {}, {}, <<>>, <<>>, {}, {})
  <2>1. IsMap(<<>>, Txs, Seq(Nat)) /\ <<>> \in Seq([t : Txs, msgs : Seq(Nat)])
    BY DEF IsMap
  <2> QED
    BY <1>1, <2>1, PartsBecome
<1>4. /\ BrokerOK(broker) /\ broker.prods = {} /\ broker.dests = {} /\ DOMAIN broker.open = {}
      /\ DOMAIN broker.log = {} /\ broker.strangers = {} /\ broker.out = {}
  BY <1>3 DEF Becomes
<1>5. \A s \in Sessions : /\ pc[s] = "idle" /\ call[s] = NoCall /\ tx[s] = NoTx
                          /\ call[s].k = "None" /\ call[s].t = NoTx /\ call[s].o = None
                          /\ ~Ending(s) /\ \A c : ~Waits(s, c)
  BY <1>1, NoCallFields DEF Ending, Waits
<1>6. \A t \in Txs : t # NoTx /\ t >= 1
  BY TrackerAssumption DEF Txs, NoTx
<1>7. TypeOK
  <2>1. nextTx \in 1..(MaxTx + 1) /\ breaks \in 0..MaxBreaks /\ sends \in [Txs -> 0..MaxSends]
    BY <1>1, TrackerAssumption
  <2>2. IsMap(producers, Producers, Txs \cup {NoTx}) /\ IsMap(txs, Txs, TxState)
    BY <1>1 DEF IsMap
  <2>3. temps \in Seq(Command) /\ replay \in Seq(Command)
    BY <1>1
  <2>4. /\ pc \in [Sessions -> {"idle", "oneway", "waiting"}]
        /\ call \in [Sessions -> Command \cup {NoCall}]
        /\ life \in [Producers \cup Dests -> {"new", "open", "closed"}]
        /\ tx \in [Sessions -> Txs \cup {NoTx}]
        /\ outcome \in [Txs -> {None, "committed", "failed", "rolledback"}]
    BY <1>1
  <2>5. /\ requestMap \subseteq Command /\ connected \in BOOLEAN /\ alive \in BOOLEAN
        /\ rpc \in {"idle", "open", "transactions"} /\ seen \subseteq Txs /\ todo \subseteq Txs
        /\ cur \in Txs \cup {NoTx} /\ doubt \subseteq Command
    BY <1>1
  <2> QED
    BY <1>4, <2>1, <2>2, <2>3, <2>4, <2>5 DEF TypeOK, BrokerOK
<1>8. Calls
  BY <1>5 DEF Calls, EndKinds
<1>9. OneUser
  BY <1>1, <1>5, <1>6 DEF OneUser, Uses
<1>10. TrackedTx
  BY <1>1, <1>2, <1>5, <1>6 DEF TrackedTx, InTx, EndKinds
<1>11. ProdLife
  <2>1. ASSUME NEW p \in Producers
        PROVE  /\ life[p] = "new" /\ Owner[p] \in Sessions /\ p \notin DOMAIN producers
               /\ call[Owner[p]] # AddProducer(p) /\ call[Owner[p]] # RemoveProducer(p)
               /\ ~Waits(Owner[p], AddProducer(p))
    <3>1. life[p] = "new" /\ Owner[p] \in Sessions /\ p \notin DOMAIN producers
      BY <1>1, <1>2, TrackerAssumption
    <3>2. AddProducer(p) # NoCall /\ RemoveProducer(p) # NoCall
      BY CommandsMade, NoCallFields
    <3> QED
      BY <1>5, <3>1, <3>2
  <2> QED
    BY <1>2, <2>1 DEF ProdLife
<1>12. Senders
  BY <1>2 DEF Senders
<1>13. DestLife
  <2>1. ASSUME NEW d \in Dests
        PROVE  /\ life[d] = "new" /\ Owner[d] \in Sessions
               /\ call[Owner[d]] # AddDest(d) /\ call[Owner[d]] # RemoveDest(d)
               /\ ~Waits(Owner[d], AddDest(d))
    <3>1. life[d] = "new" /\ Owner[d] \in Sessions
      BY <1>1, TrackerAssumption
    <3>2. AddDest(d) # NoCall /\ RemoveDest(d) # NoCall
      BY CommandsMade, NoCallFields
    <3> QED
      BY <1>5, <3>1, <3>2
  <2> QED
    BY <1>2, <2>1 DEF DestLife
<1>14. Log
  BY <1>1, <1>4 DEF Log, CommittedWhole, Stored, None
<1>15. Conn
  BY <1>1 DEF Conn
<1>16. OpenSent
  BY <1>2, <1>4, <1>5 DEF OpenSent
<1>17. OpenReplay /\ TxSent /\ TxReplay
  BY <1>1, <1>2 DEF OpenReplay, TxSent, TxReplay
<1>18. BrokerKnowsSender
  BY <1>4 DEF BrokerKnowsSender
<1> QED
  BY <1>7, <1>8, <1>9, <1>10, <1>11, <1>12, <1>13, <1>14, <1>15, <1>16, <1>17, <1>18
     DEF IInv, Client, ConnectionSide

(* A step, one lemma per part of Next. *)
LEMMA NextIInv == IInv /\ [Next]_vars => IInv'
<1> SUFFICES ASSUME TypeOK, Client, ConnectionSide, [Next]_vars
             PROVE  TypeOK' /\ Client' /\ ConnectionSide'
  BY DEF IInv
<1>1. CASE Next
  <2>1. CASE App
    BY <2>1, AppStep
  <2>2. ASSUME NEW s \in Sessions, Oneway(s) PROVE TypeOK' /\ Client' /\ ConnectionSide'
    BY <2>2, OnewayStep
  <2>3. CASE Break \/ OnException \/ OnResponse
    BY <2>3, BreakStep, OnExceptionStep, OnResponseStep
  <2>4. CASE Restore
    BY <2>4, RestoreStep
  <2> QED
    BY <1>1, <2>1, <2>2, <2>3, <2>4 DEF Next
<1>2. CASE UNCHANGED vars
  <2>1. UNCHANGED <<pc, call, life, tx, nextTx, sends, outcome, producers, temps, txs, requestMap,
                    connected, rpc, seen, todo, cur, replay, doubt, alive, breaks, broker>>
    BY <1>2 DEF vars, app, tracker, runner
  <2>2. TypeOK'
    BY <2>1 DEF TypeOK
  <2>3. Client' /\ Log'
    BY <2>1, RunnerKeeps DEF app, tracker
  <2>4. Conn' /\ OpenReplay' /\ BrokerKnowsSender'
    BY <2>1 DEF ConnectionSide, Conn, OpenReplay, BrokerKnowsSender
  <2>5. OpenSent'
    BY <2>1 DEF ConnectionSide, OpenSent, Rest, Ending, Answered
  <2>6. TxSent'
    BY <2>1 DEF ConnectionSide, TxSent, Settled, LastOf, Answered
  <2>7. TxReplay'
    <3>1. ASSUME NEW t, NEW k, Progress(t, k) PROVE Progress(t, k)'
      <4>1. ReplayOf(t)' = ReplayOf(t)
        BY <2>1 DEF ReplayOf
      <4>2. Left(t, k) => Left(t, k)'
        BY <2>1, <4>1 DEF Left
      <4>3. Settled(t) => Settled(t)'
        BY <2>1, SettledStays
      <4>4. Reached(t, k) => Reached(t, k)'
        BY <2>1, <4>3 DEF Reached
      <4> QED
        BY <2>1, <3>1, <4>2, <4>4 DEF Progress
    <3>2. \A t : LastOf(t)' = LastOf(t) /\ ReplayOf(t)' = ReplayOf(t)
      BY <2>1 DEF LastOf, ReplayOf
    <3> QED
      BY <2>1, <3>1, <3>2 DEF ConnectionSide, TxReplay
  <2> QED
    BY <2>2, <2>3, <2>4, <2>5, <2>6, <2>7 DEF ConnectionSide
<1> QED
  BY <1>1, <1>2

(***************************************************************************)
(* The inductive invariant holds: what the sessions, the tracker, the      *)
(* runner and the broker know of each other, in every state between two    *)
(* connections (oneway, restore and the readers of FailoverTransport with  *)
(* ConnectionStateTracker).                                                *)
(***************************************************************************)
THEOREM TrackerInvariant == Spec => []IInv
<1>1. Init => IInv
  BY InitIInv
<1>2. IInv /\ [Next]_vars => IInv'
  BY NextIInv
<1> QED
  BY <1>1, <1>2, PTL DEF Spec

(* The client, the tracker and the broker keep values of their types. *)
THEOREM TypeCorrect == Spec => []TypeOK
<1>1. IInv => TypeOK
  BY DEF IInv
<1> QED
  BY <1>1, TrackerInvariant, PTL

(***************************************************************************)
(* Whatever breaks and is restored, the broker commits a transaction at    *)
(* most once, with the messages sent in it, each once and in order         *)
(* (doRestoreTransactions replays what track() kept, and no commit).       *)
(***************************************************************************)
THEOREM CommitsWhole == Spec => []CommittedWhole
<1>1. IInv => CommittedWhole
  BY DEF IInv, ConnectionSide, Log
<1> QED
  BY <1>1, TrackerInvariant, PTL

(***************************************************************************)
(* A commit that returned is stored and a rollback that returned is not,   *)
(* although either may have been replayed or answered by the tracker.      *)
(***************************************************************************)
THEOREM OutcomesTruthful == Spec => []OutcomeTruthful
<1>1. IInv => OutcomeTruthful
  <2> SUFFICES ASSUME IInv, NEW t \in Txs
               PROVE  /\ outcome[t] = "committed" => t \in Stored
                      /\ outcome[t] = "rolledback" => t \notin Stored
    BY DEF OutcomeTruthful, Stored
  <2>1. outcome[t] = "committed" => t \in Stored
    BY DEF IInv, ConnectionSide, Log
  <2>2. ASSUME t \in Stored PROVE outcome[t] # "rolledback"
    <3>1. outcome[t] \in {"committed", "failed"} \/ \E s \in Sessions : Waits(s, Commit(t))
      BY <2>2 DEF IInv, ConnectionSide, Log
    <3>2. ASSUME NEW s \in Sessions, Waits(s, Commit(t)) PROVE outcome[t] = None
      <4>1. call[s].t = t
        BY <3>2 DEF Waits, Commit, Cmd
      <4> QED
        BY <4>1 DEF IInv, Client, OneUser, Uses
    <3> QED
      BY <3>1, <3>2 DEF None
  <2> QED
    BY <2>1, <2>2
<1> QED
  BY <1>1, TrackerInvariant, PTL

(***************************************************************************)
(* No broker gets a message before its producer and its transaction: the   *)
(* replay adds the closed producers that txs kept and the restore the open *)
(* ones, before any message.                                               *)
(***************************************************************************)
THEOREM SendersKnown == Spec => []BrokerKnowsSender
<1>1. IInv => BrokerKnowsSender
  BY DEF IInv, ConnectionSide
<1> QED
  BY <1>1, TrackerInvariant, PTL

(* Connected and working: nothing is left to restore. *)
LEMMA ConnectedSettled ==
    ASSUME IInv, connected, alive
    PROVE  Rest = {} /\ doubt = {} /\ \A t \in DOMAIN txs : Settled(t)
<1>1. rpc = "idle"
  BY DEF IInv, ConnectionSide, Conn
<1> QED
  BY <1>1, NothingLeft DEF IInv

(***************************************************************************)
(* On a connection that works the broker has what the application has      *)
(* open: restore() has sent it, or oneway did.                             *)
(***************************************************************************)
THEOREM BrokerMirrors == Spec => []BrokerMirrorsClient
<1>1. IInv => BrokerMirrorsClient
  <2> SUFFICES ASSUME IInv, connected, alive, NEW s \in Sessions, pc[s] = "idle"
               PROVE  /\ \A p \in Producers : Owner[p] = s /\ life[p] = "open" => p \in broker.prods
                      /\ \A d \in Dests : Owner[d] = s => (d \in broker.dests <=> life[d] = "open")
                      /\ tx[s] # NoTx =>
                            /\ tx[s] \in DOMAIN broker.open
                            /\ broker.open[tx[s]] = [i \in 1..sends[tx[s]] |-> i]
    BY DEF BrokerMirrorsClient
  <2>1. TypeOK /\ Client /\ Log /\ OpenSent
    BY DEF IInv, ConnectionSide
  <2>2. Rest = {} /\ \A t \in DOMAIN txs : Settled(t)
    BY ConnectedSettled
  <2>3. ASSUME NEW p \in Producers, life[p] = "open" PROVE p \in broker.prods
    BY <2>1, <2>2, <2>3 DEF Client, ProdLife, OpenSent
  <2>4. ASSUME NEW d \in Dests, Owner[d] = s PROVE d \in broker.dests <=> life[d] = "open"
    <3>1. /\ AddDest(d) \in ToSet(temps) <=> life[d] # "new"
          /\ RemoveDest(d) \in ToSet(temps) <=> life[d] = "closed"
      BY <2>1, <2>4 DEF Client, DestLife, Waits
    <3>2. /\ AddDest(d) \in ToSet(temps) => d \in broker.dests \/ RemoveDest(d) \in ToSet(temps)
          /\ d \in broker.dests => AddDest(d) \in ToSet(temps) /\ RemoveDest(d) \notin ToSet(temps)
      BY <2>1, <2>2 DEF OpenSent
    <3>3. life[d] \in {"new", "open", "closed"}
      BY <2>1 DEF TypeOK
    <3> QED
      BY <3>1, <3>2, <3>3
  <2>5. ASSUME tx[s] # NoTx
        PROVE  tx[s] \in DOMAIN broker.open /\ broker.open[tx[s]] = [i \in 1..sends[tx[s]] |-> i]
    <3>1. PICK t \in Txs : t = tx[s]
      BY <2>1, <2>5 DEF TypeOK
    <3>2. t \in DOMAIN txs
      BY <2>1, <3>1 DEF Client, TrackedTx, InTx
    <3>3. Len(txs[t].cmds) = sends[t] + 1
      BY <2>1, <3>1, <3>2, GoesOn DEF Uses
    <3> QED
      BY <2>2, <3>1, <3>2, <3>3 DEF Settled
  <2> QED
    BY <2>3, <2>4, <2>5
<1> QED
  BY <1>1, TrackerInvariant, PTL

(***************************************************************************)
(* On a connection that works every call that waits has its response on    *)
(* the way: its command was restored under its old id, or answered in      *)
(* doubt by the runner.                                                    *)
(***************************************************************************)
THEOREM NobodyStranded == Spec => []NoCallStranded
<1>1. IInv => NoCallStranded
  <2> SUFFICES ASSUME IInv, connected, alive, NEW s \in Sessions, pc[s] = "waiting"
               PROVE  Answered(call[s])
    BY DEF NoCallStranded, Answered
  <2>1. TypeOK /\ Client /\ OpenSent
    BY DEF IInv, ConnectionSide
  <2>2. Rest = {} /\ doubt = {} /\ \A t \in DOMAIN txs : Settled(t)
    BY ConnectedSettled
  <2>3. CASE ~Ending(s)
    BY <2>1, <2>2, <2>3 DEF OpenSent
  <2>4. CASE Ending(s)
    <3>1. PICK c \in Command, t \in Txs : c = call[s] /\ t = c.t /\ c.k \in EndKinds
      <4>1. call[s] \in Command /\ call[s].k \in EndKinds
        BY <2>1, <2>4, NoCallFields DEF TypeOK, Ending, EndKinds
      <4> QED
        BY <4>1, CommandKinds
    <3>2. t \in DOMAIN txs
      BY <2>1, <3>1 DEF Client, TrackedTx, InTx
    <3>3. PICK r \in Sessions : /\ Len(txs[t].cmds) = sends[t] + 2 /\ Ending(r) /\ call[r].t = t
                                /\ call[r] = txs[t].cmds[sends[t] + 2]
      <4>1. Kept(t)
        BY <2>1, <3>2 DEF Client, TrackedTx
      <4> QED
        BY <2>4, <3>1, <4>1 DEF Kept
    <3>4. r = s
      BY <2>1, <3>1, <3>3 DEF Client, OneUser, Uses
    <3>5. LastOf(t) = call[s]
      BY <2>1, <3>2, <3>3, <3>4, KeptShape
    <3> QED
      BY <2>2, <3>2, <3>3, <3>5 DEF Settled
  <2> QED
    BY <2>3, <2>4
<1> QED
  BY <1>1, TrackerInvariant, PTL

=============================================================================
