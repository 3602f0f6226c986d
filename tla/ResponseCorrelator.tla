------------------------- MODULE ResponseCorrelator -------------------------
(***************************************************************************)
(* The response correlator of the client's transport chain                 *)
(* (activemq/transport/correlator/ResponseCorrelator.cpp) with the future  *)
(* it hands out (FutureResponse.cpp) and the close protocol it inherits    *)
(* from TransportFilter.cpp.                                               *)
(*                                                                         *)
(* Application threads call request (untimed or timed), asyncRequest and   *)
(* oneway.  The threads of the transport below (a reader, an inactivity    *)
(* task) call onCommand and onException.  Any thread may call close.  The  *)
(* critical sections on mapMutex are single steps; everything the code     *)
(* does outside mapMutex is a step of its own.                             *)
(*                                                                         *)
(* A future is identified with the command id it was created for, so       *)
(* requestMap is the set of its keys.  What the peer does is external: it  *)
(* may answer any request that was sent, late, repeatedly or never.        *)
(***************************************************************************)
EXTENDS Naturals, FiniteSets

CONSTANTS SyncCallers,    \* threads that call request(command)
          TimedCallers,   \* threads that call request(command, timeout)
          AsyncCallers,   \* threads that call asyncRequest(command, callback)
          Listeners,      \* threads of the next transport that call up
          Closers,        \* threads that call close
          MaxCommandId    \* bound: how many commands are numbered

Waiters   == SyncCallers \cup TimedCallers
Callers   == Waiters \cup AsyncCallers
Disposers == Listeners \cup Closers
CommandId == 1..MaxCommandId

ASSUME BoundAssumption == MaxCommandId \in Nat

ASSUME ThreadAssumption ==
    /\ SyncCallers \cap TimedCallers = {}
    /\ AsyncCallers \cap (SyncCallers \cup TimedCallers) = {}
    /\ Listeners \cap Closers = {}

VARIABLES
    nextCommandId,  \* CorrelatorData::nextCommandId
    requestMap,     \* keys of CorrelatorData::requestMap
    priorError,     \* CorrelatorData::priorError is not NULL
    closed,         \* TransportFilter's closed flag
    attached,       \* the next transport still has this filter as its listener
    response,       \* FutureResponse::response of each future
    completions,    \* calls of setResponse on each future (and of its callback)
    pc,             \* where each calling thread is
    cmd,            \* the command id of the call each calling thread is in
    result,         \* how the call that used each command id ended
    dpc,            \* where each listener or closing thread is
    requests,       \* dispose's local list of futures still to complete
    correlationId,  \* the id of the Response each listener thread brings
    sent,           \* commands the next transport accepted
    crossed,        \* ids put in the map while this thread unlinks, unlocked
    lost            \* ids whose map entry an unlocked remove dropped

callVars    == <<pc, cmd, result>>
disposeVars == <<dpc, requests, correlationId>>
mapVars     == <<requestMap, crossed, lost>>
vars == <<nextCommandId, requestMap, priorError, closed, attached, response,
          completions, pc, cmd, result, dpc, requests, correlationId, sent,
          crossed, lost>>

(* Fault: numbering starts at zero. *)
InitFromZero ==
    /\ nextCommandId = 0
    /\ requestMap = {} /\ priorError = FALSE /\ closed = FALSE /\ attached = TRUE
    /\ response = [i \in CommandId |-> "null"]
    /\ completions = [i \in CommandId |-> 0]
    /\ pc = [p \in Callers |-> "idle"]
    /\ cmd = [p \in Callers |-> 0]
    /\ result = [i \in CommandId |-> "none"]
    /\ dpc = [d \in Disposers |-> "idle"]
    /\ requests = [d \in Disposers |-> {}]
    /\ correlationId = [l \in Listeners |-> 0]
    /\ sent = {} /\ crossed = [p \in AsyncCallers |-> {}] /\ lost = {}

Init ==
    /\ nextCommandId = 1
    /\ requestMap = {}
    /\ priorError = FALSE
    /\ closed = FALSE
    /\ attached = TRUE
    /\ response = [i \in CommandId |-> "null"]
    /\ completions = [i \in CommandId |-> 0]
    /\ pc = [p \in Callers |-> "idle"]
    /\ cmd = [p \in Callers |-> 0]
    /\ result = [i \in CommandId |-> "none"]
    /\ dpc = [d \in Disposers |-> "idle"]
    /\ requests = [d \in Disposers |-> {}]
    /\ correlationId = [l \in Listeners |-> 0]
    /\ sent = {}
    /\ crossed = [p \in AsyncCallers |-> {}]
    /\ lost = {}

-----------------------------------------------------------------------------
(* FutureResponse::setResponse: store, release the latch, call the callback. *)
SetResponse(i, r) ==
    /\ response' = [response EXCEPT ![i] = r]
    /\ completions' = [completions EXCEPT ![i] = @ + 1]

(* A call ends: the caller gets a value back or an exception. *)
Return(p, how) ==
    /\ pc' = [pc EXCEPT ![p] = "idle"]
    /\ cmd' = [cmd EXCEPT ![p] = 0]
    /\ result' = [result EXCEPT ![cmd[p]] = how]

Goto(p, label) ==
    /\ pc' = [pc EXCEPT ![p] = label]
    /\ UNCHANGED <<cmd, result>>

(***************************************************************************)
(* HashMap put under mapMutex.  A thread that is unlinking an entry        *)
(* without the mutex has already read the head of a bucket: the new key    *)
(* may be in that bucket.                                                  *)
(***************************************************************************)
MapPut(i) ==
    /\ requestMap' = requestMap \cup {i}
    /\ crossed' = [q \in AsyncCallers |->
                     IF pc[q] = "unlink" THEN crossed[q] \cup {i} ELSE crossed[q]]

-----------------------------------------------------------------------------
(***************************************************************************)
(* The start of every call: checkClosed() throws, which changes nothing,   *)
(* and otherwise the command gets the next id.  A oneway command is then   *)
(* handed to the next transport and forgotten.                             *)
(***************************************************************************)
BeginRequest(p) ==
    /\ pc[p] = "idle"
    /\ ~closed
    /\ nextCommandId <= MaxCommandId
    /\ nextCommandId' = nextCommandId + 1
    /\ cmd' = [cmd EXCEPT ![p] = nextCommandId]
    /\ pc' = [pc EXCEPT ![p] = "register"]
    /\ UNCHANGED <<priorError, closed, attached, response, completions, result,
                   disposeVars, sent, mapVars>>

Oneway ==
    /\ ~closed
    /\ nextCommandId <= MaxCommandId
    /\ nextCommandId' = nextCommandId + 1
    /\ UNCHANGED <<priorError, closed, attached, response, completions, callVars,
                   disposeVars, sent, mapVars>>

(* Fault: the future is registered whether or not an error was recorded. *)
RegisterUnchecked(p) ==
    /\ pc[p] = "register"
    /\ MapPut(cmd[p])
    /\ Goto(p, "send")
    /\ UNCHANGED <<nextCommandId, priorError, closed, attached, response,
                   completions, disposeVars, sent, lost>>

(***************************************************************************)
(* The block synchronized on mapMutex: register the future, unless the     *)
(* filter has failed before.                                               *)
(***************************************************************************)
Register(p) ==
    /\ pc[p] = "register"
    /\ ~priorError
    /\ MapPut(cmd[p])
    /\ Goto(p, "send")
    /\ UNCHANGED <<nextCommandId, priorError, closed, attached, response,
                   completions, disposeVars, sent, lost>>

SeePriorError(p) ==
    /\ pc[p] = "register"
    /\ priorError
    /\ Goto(p, "refused")
    /\ UNCHANGED <<nextCommandId, priorError, closed, attached, response,
                   completions, disposeVars, sent, mapVars>>

(* request throws the earlier error; asyncRequest completes its future first. *)
RefuseRequest(p) ==
    /\ p \in Waiters
    /\ pc[p] = "refused"
    /\ Return(p, "threw")
    /\ UNCHANGED <<nextCommandId, priorError, closed, attached, response,
                   completions, disposeVars, sent, mapVars>>

RefuseAsync(p) ==
    /\ p \in AsyncCallers
    /\ pc[p] = "refused"
    /\ SetResponse(cmd[p], "error")
    /\ Return(p, "threw")
    /\ UNCHANGED <<nextCommandId, priorError, closed, attached, disposeVars,
                   sent, mapVars>>

(* next->oneway(command) succeeds; asyncRequest then returns its future. *)
SendRequest(p) ==
    /\ p \in Waiters
    /\ pc[p] = "send"
    /\ sent' = sent \cup {cmd[p]}
    /\ Goto(p, "wait")
    /\ UNCHANGED <<nextCommandId, priorError, closed, attached, response,
                   completions, disposeVars, mapVars>>

SendAsync(p) ==
    /\ p \in AsyncCallers
    /\ pc[p] = "send"
    /\ sent' = sent \cup {cmd[p]}
    /\ Return(p, "value")
    /\ UNCHANGED <<nextCommandId, priorError, closed, attached, response,
                   completions, disposeVars, mapVars>>

(* next->oneway(command) throws: the finalizer or the catch block cleans up. *)
SendThrows(p) ==
    /\ pc[p] = "send"
    /\ Goto(p, IF p \in Waiters THEN "abandon" ELSE "remove")
    /\ UNCHANGED <<nextCommandId, priorError, closed, attached, response,
                   completions, disposeVars, sent, mapVars>>

(* getResponse() returns once the latch is released. *)
GetResponse(p) ==
    /\ pc[p] = "wait"
    /\ response[cmd[p]] # "null"
    /\ Goto(p, "finalize")
    /\ UNCHANGED <<nextCommandId, priorError, closed, attached, response,
                   completions, disposeVars, sent, mapVars>>

(* getResponse(timeout) gives up: the response is still NULL. *)
GetResponseTimesOut(p) ==
    /\ p \in TimedCallers
    /\ pc[p] = "wait"
    /\ response[cmd[p]] = "null"
    /\ Goto(p, "abandon")
    /\ UNCHANGED <<nextCommandId, priorError, closed, attached, response,
                   completions, disposeVars, sent, mapVars>>

(* Fault: the entry is removed on the normal path only. *)
FinalizeOnSuccessOnly(p) ==
    /\ pc[p] \in {"finalize", "abandon"}
    /\ requestMap' = IF pc[p] = "finalize" THEN requestMap \ {cmd[p]} ELSE requestMap
    /\ Return(p, IF pc[p] = "finalize" THEN "value" ELSE "threw")
    /\ UNCHANGED <<nextCommandId, priorError, closed, attached, response,
                   completions, disposeVars, sent, crossed, lost>>

(* ~ResponseFinalizer: remove the entry under mapMutex, whatever the outcome. *)
Finalize(p) ==
    /\ pc[p] \in {"finalize", "abandon"}
    /\ requestMap' = requestMap \ {cmd[p]}
    /\ Return(p, IF pc[p] = "finalize" THEN "value" ELSE "threw")
    /\ UNCHANGED <<nextCommandId, priorError, closed, attached, response,
                   completions, disposeVars, sent, crossed, lost>>

(***************************************************************************)
(* The catch block of asyncRequest removes the entry WITHOUT mapMutex.     *)
(* removeEntry first walks the bucket; it throws NoSuchElementException    *)
(* when a disposer has emptied the map already.                            *)
(***************************************************************************)
AsyncLocate(p) ==
    /\ pc[p] = "remove"
    /\ cmd[p] \in requestMap
    /\ Goto(p, "unlink")
    /\ UNCHANGED <<nextCommandId, priorError, closed, attached, response,
                   completions, disposeVars, sent, mapVars>>

AsyncNotFound(p) ==
    /\ pc[p] = "remove"
    /\ cmd[p] \notin requestMap
    /\ Return(p, "threw")
    /\ UNCHANGED <<nextCommandId, priorError, closed, attached, response,
                   completions, disposeVars, sent, mapVars>>

(***************************************************************************)
(* Then it writes the bucket's head or the predecessor's link.  Writing    *)
(* the head drops any key another thread put in the bucket in between:     *)
(* the data race loses an arbitrary subset of those keys.                  *)
(***************************************************************************)
AsyncUnlink(p) ==
    /\ pc[p] = "unlink"
    /\ \E dropped \in SUBSET (crossed[p] \cap requestMap) :
          /\ requestMap' = requestMap \ ({cmd[p]} \cup dropped)
          /\ lost' = lost \cup dropped
    /\ crossed' = [crossed EXCEPT ![p] = {}]
    /\ Return(p, "threw")
    /\ UNCHANGED <<nextCommandId, priorError, closed, attached, response,
                   completions, disposeVars, sent>>

-----------------------------------------------------------------------------
(* The next transport, which still has its listener, calls onCommand with a Response. *)
OnCommand(l) ==
    /\ attached
    /\ dpc[l] = "idle"
    /\ \E i \in sent : correlationId' = [correlationId EXCEPT ![l] = i]
    /\ dpc' = [dpc EXCEPT ![l] = "correlate"]
    /\ UNCHANGED <<nextCommandId, priorError, closed, attached, response,
                   completions, callVars, requests, sent, mapVars>>

(* Fault: the future is looked up and completed but stays in the map. *)
CorrelateKeepsEntry(l) ==
    /\ dpc[l] = "correlate"
    /\ correlationId[l] \in requestMap
    /\ SetResponse(correlationId[l], "response")
    /\ dpc' = [dpc EXCEPT ![l] = "idle"]
    /\ UNCHANGED <<nextCommandId, requestMap, priorError, closed, attached,
                   callVars, requests, correlationId, sent, crossed, lost>>

(* Its critical section: remove the future of that id, if any, and complete it. *)
Correlate(l) ==
    /\ dpc[l] = "correlate"
    /\ correlationId[l] \in requestMap
    /\ requestMap' = requestMap \ {correlationId[l]}
    /\ SetResponse(correlationId[l], "response")
    /\ dpc' = [dpc EXCEPT ![l] = "idle"]
    /\ UNCHANGED <<nextCommandId, priorError, closed, attached, callVars,
                   requests, correlationId, sent, crossed, lost>>

(* Nobody waits for this response any more: NoSuchElementException, ignored. *)
CorrelateMiss(l) ==
    /\ dpc[l] = "correlate"
    /\ correlationId[l] \notin requestMap
    /\ dpc' = [dpc EXCEPT ![l] = "idle"]
    /\ UNCHANGED <<nextCommandId, priorError, closed, attached, response,
                   completions, callVars, requests, correlationId, sent, mapVars>>

(* The next transport reports a failure: onException calls dispose. *)
OnException(l) ==
    /\ attached
    /\ dpc[l] = "idle"
    /\ dpc' = [dpc EXCEPT ![l] = "dispose"]
    /\ UNCHANGED <<nextCommandId, requestMap, priorError, closed, attached,
                   response, completions, callVars, requests, correlationId,
                   sent, crossed, lost>>

(* Fault: the futures are copied, and the map is not cleared. *)
DisposeKeepsMap(d) ==
    /\ dpc[d] = "dispose"
    /\ ~priorError
    /\ priorError' = TRUE
    /\ requests' = [requests EXCEPT ![d] = requestMap]
    /\ dpc' = [dpc EXCEPT ![d] = "complete"]
    /\ UNCHANGED <<nextCommandId, requestMap, closed, attached, response, completions,
                   callVars, correlationId, sent, crossed, lost>>

(* Fault: the map is cleared before its futures are copied. *)
DisposeClearsFirst(d) ==
    /\ dpc[d] = "dispose"
    /\ ~priorError
    /\ priorError' = TRUE
    /\ requestMap' = {}
    /\ dpc' = [dpc EXCEPT ![d] = "complete"]
    /\ UNCHANGED <<nextCommandId, closed, attached, response, completions,
                   callVars, requests, correlationId, sent, crossed, lost>>

(* The critical section of dispose: the first error drains the map, a later one does not. *)
DisposeFirst(d) ==
    /\ dpc[d] = "dispose"
    /\ ~priorError
    /\ priorError' = TRUE
    /\ requests' = [requests EXCEPT ![d] = requestMap]
    /\ requestMap' = {}
    /\ dpc' = [dpc EXCEPT ![d] = "complete"]
    /\ UNCHANGED <<nextCommandId, closed, attached, response, completions,
                   callVars, correlationId, sent, crossed, lost>>

DisposeAgain(d) ==
    /\ dpc[d] = "dispose"
    /\ priorError
    /\ dpc' = [dpc EXCEPT ![d] = "complete"]
    /\ UNCHANGED <<nextCommandId, priorError, closed, attached, response,
                   completions, callVars, requests, correlationId, sent, mapVars>>

(* The loop of dispose, outside mapMutex: complete one future after another. *)
DisposeComplete(d) ==
    /\ dpc[d] = "complete"
    /\ \E i \in requests[d] :
          /\ SetResponse(i, "error")
          /\ requests' = [requests EXCEPT ![d] = @ \ {i}]
    /\ UNCHANGED <<nextCommandId, requestMap, priorError, closed, attached,
                   callVars, dpc, correlationId, sent, crossed, lost>>

DisposeDone(d) ==
    /\ dpc[d] = "complete"
    /\ requests[d] = {}
    /\ dpc' = [dpc EXCEPT ![d] = IF d \in Listeners THEN "idle" ELSE "closed"]
    /\ UNCHANGED <<nextCommandId, requestMap, priorError, closed, attached,
                   response, completions, callVars, requests, correlationId,
                   sent, crossed, lost>>

(* TransportFilter::close: the compareAndSet on closed decides who goes on. *)
CloseBegin(c) ==
    /\ dpc[c] = "idle"
    /\ closed' = TRUE
    /\ dpc' = [dpc EXCEPT ![c] = IF closed THEN "closed" ELSE "detach"]
    /\ UNCHANGED <<nextCommandId, requestMap, priorError, attached, response,
                   completions, callVars, requests, correlationId, sent, crossed, lost>>

(* next->setTransportListener(NULL), next->close(), then doClose(). *)
CloseDetach(c) ==
    /\ dpc[c] = "detach"
    /\ attached' = FALSE
    /\ dpc' = [dpc EXCEPT ![c] = "dispose"]
    /\ UNCHANGED <<nextCommandId, requestMap, priorError, closed, response,
                   completions, callVars, requests, correlationId, sent, crossed, lost>>

-----------------------------------------------------------------------------
CallerStep(p) ==
    \/ Register(p) \/ SeePriorError(p) \/ RefuseRequest(p) \/ RefuseAsync(p)
    \/ SendRequest(p) \/ SendAsync(p) \/ SendThrows(p)
    \/ GetResponse(p) \/ GetResponseTimesOut(p) \/ Finalize(p)
    \/ AsyncLocate(p) \/ AsyncNotFound(p) \/ AsyncUnlink(p)

CorrelateStep(l) == Correlate(l) \/ CorrelateMiss(l)

DisposeStep(d) ==
    DisposeFirst(d) \/ DisposeAgain(d) \/ DisposeComplete(d) \/ DisposeDone(d)

Next ==
    \/ \E p \in Callers : BeginRequest(p) \/ CallerStep(p)
    \/ Oneway
    \/ \E l \in Listeners : OnCommand(l) \/ CorrelateStep(l) \/ OnException(l)
    \/ \E d \in Disposers : DisposeStep(d)
    \/ \E c \in Closers : CloseBegin(c) \/ CloseDetach(c)

(***************************************************************************)
(* A thread that is inside a call keeps running; no thread need make a     *)
(* call, and the peer need not answer.                                     *)
(***************************************************************************)
Fairness ==
    /\ \A p \in Callers : WF_vars(CallerStep(p))
    /\ \A d \in Disposers : WF_vars(DisposeStep(d))
    /\ \A l \in Listeners : WF_vars(CorrelateStep(l))
    /\ \A c \in Closers : WF_vars(CloseDetach(c))

Spec     == Init /\ [][Next]_vars
FairSpec == Spec /\ Fairness

-----------------------------------------------------------------------------
(* Every variable of the correlator has its type. *)
TypeOK ==
    /\ nextCommandId \in 1..(MaxCommandId + 1)
    /\ requestMap \in SUBSET CommandId
    /\ priorError \in BOOLEAN
    /\ closed \in BOOLEAN
    /\ attached \in BOOLEAN
    /\ response \in [CommandId -> {"null", "response", "error"}]
    /\ completions \in [CommandId -> Nat]
    /\ pc \in [Callers -> {"idle", "register", "refused", "send", "wait",
                           "finalize", "abandon", "remove", "unlink"}]
    /\ cmd \in [Callers -> 0..MaxCommandId]
    /\ result \in [CommandId -> {"none", "value", "threw"}]
    /\ dpc \in [Disposers -> {"idle", "correlate", "detach", "dispose",
                            "complete", "closed"}]
    /\ requests \in [Disposers -> SUBSET CommandId]
    /\ correlationId \in [Listeners -> 0..MaxCommandId]
    /\ sent \in SUBSET CommandId
    /\ crossed \in [AsyncCallers -> SUBSET CommandId]
    /\ lost \in SUBSET CommandId

(* Futures that some disposer has taken out of the map and not completed yet. *)
Draining == {i \in CommandId : \E d \in Disposers : i \in requests[d]}

(***************************************************************************)
(* A future is completed, and its callback called, at most once, although  *)
(* onCommand, dispose and a refused asyncRequest all complete futures and  *)
(* dispose does so after it has let go of mapMutex.                        *)
(***************************************************************************)
CompletedAtMostOnce == \A i \in CommandId : completions[i] <= 1

(***************************************************************************)
(* A thread blocked in getResponse, or the owner of a future asyncRequest  *)
(* returned, can still be reached by an answer or by an error: its future  *)
(* is in requestMap or in the list a disposer is working through.  The     *)
(* only exception is an entry that the unlocked remove of asyncRequest     *)
(* dropped.                                                                *)
(***************************************************************************)
NobodyStranded ==
    /\ \A p \in Waiters :
          pc[p] = "wait" /\ response[cmd[p]] = "null" =>
              cmd[p] \in requestMap \cup Draining \cup lost
    /\ \A i \in sent :
          result[i] = "value" /\ response[i] = "null" =>
              i \in requestMap \cup Draining \cup lost

(***************************************************************************)
(* A call that has thrown or timed out leaves no entry behind in           *)
(* requestMap, whatever the interleaving with onCommand and dispose.       *)
(***************************************************************************)
NoLeakedEntry == \A i \in requestMap : result[i] # "threw"

(***************************************************************************)
(* Once dispose has recorded an error no request can slip into the map any *)
(* more: nothing would ever take it out again.                             *)
(***************************************************************************)
FailedFilterHoldsNothing == priorError => requestMap = {}

(***************************************************************************)
(* After a failure or a close every call comes back, the untimed request   *)
(* included, even when the peer never answers (calls hit by the lost map   *)
(* entry excepted).                                                        *)
(***************************************************************************)
CallsEndAfterFailure ==
    \A p \in Callers :
        (priorError \/ closed) /\ pc[p] # "idle"
            ~> pc[p] = "idle" \/ cmd[p] \in lost

(***************************************************************************)
(* The refinement: what a request id is to the callers.                    *)
(***************************************************************************)
Unused(i) ==
    \/ i >= nextCommandId
    \/ \E p \in Callers : cmd[p] = i /\ pc[p] \in {"register", "refused"}

StateOf(i) ==
    CASE response[i] = "response" -> "answered"
      [] response[i] = "error" -> "failed"
      [] response[i] = "null" /\ i \in requestMap \cup Draining -> "open"
      [] response[i] = "null" /\ i \notin requestMap \cup Draining /\ Unused(i) -> "fresh"
      [] OTHER -> "withdrawn"

Channel == INSTANCE RequestReply WITH
    RequestId <- CommandId,
    state     <- [i \in CommandId |-> StateOf(i)],
    broken    <- priorError

(***************************************************************************)
(* The correlator implements the request/reply channel: every request is   *)
(* answered, failed or withdrawn exactly once, none is opened after the    *)
(* failure, and the failure reaches every open one.                        *)
(***************************************************************************)
ImplementsRequestReply == Channel!RRSpec

=============================================================================
