---------------------------- MODULE RequestReply ----------------------------
(***************************************************************************)
(* What a request/reply channel promises about the requests made over it,  *)
(* with nothing said about maps, mutexes or threads.  Each request id is   *)
(* used once and goes through                                              *)
(*                                                                         *)
(*     fresh --> open --> answered | failed | withdrawn                    *)
(*                                                                         *)
(* The channel breaks at most once.  A broken channel opens nothing, and   *)
(* only a broken one fails requests.                                       *)
(***************************************************************************)
CONSTANT RequestId

VARIABLES state,   \* [RequestId -> the state of the request]
          broken   \* the channel has failed or was closed

rrVars == <<state, broken>>

RequestState == {"fresh", "open", "answered", "failed", "withdrawn"}

RRInit == /\ state = [i \in RequestId |-> "fresh"]
          /\ broken = FALSE

Move(i, from, to) ==
    /\ state[i] = from
    /\ state' = [state EXCEPT ![i] = to]
    /\ UNCHANGED broken

Open(i)   == ~broken /\ Move(i, "fresh", "open")
Answer(i) == Move(i, "open", "answered")
Fail(i)   == broken /\ Move(i, "open", "failed")
Refuse(i) == broken /\ Move(i, "fresh", "failed")

(* The id is used for a message without reply, or its call gives up first. *)
Skip(i) == Move(i, "fresh", "withdrawn")

(* Calls that timed out or could not be sent are withdrawn. *)
Withdraw(S) ==
    /\ \A i \in S : state[i] = "open"
    /\ state' = [i \in RequestId |-> IF i \in S THEN "withdrawn" ELSE state[i]]
    /\ UNCHANGED broken

Break == ~broken /\ broken' = TRUE /\ UNCHANGED state

RRNext ==
    \/ \E i \in RequestId :
          Open(i) \/ Answer(i) \/ Fail(i) \/ Refuse(i) \/ Skip(i)
    \/ \E S \in SUBSET RequestId : Withdraw(S)
    \/ Break

(* Breaking the channel is a promise to fail every request still open. *)
RRFairness == WF_rrVars(\E i \in RequestId : Fail(i))

RRSafety == RRInit /\ [][RRNext]_rrVars
RRSpec == RRSafety /\ RRFairness
=============================================================================
